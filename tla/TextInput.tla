----------------------------- MODULE TextInput ------------------------------
(***************************************************************************)
(* The text input plugin (plugins/text_input.c) and the text field in      *)
(* Flutter that it keeps in step with: the plugin edits its own copy of    *)
(* the text when a key arrives and sends the result; Flutter sends its     *)
(* text whenever something else changes it.                                *)
(*                                                                         *)
(* The plugin counts symbols, and bytes in one place; Flutter counts       *)
(* UTF-16 units, of which a symbol of four bytes takes two, and says -1    *)
(* where nothing is selected.  What Flutter says is taken over as it is.   *)
(* Texts stay shorter than TEXT_INPUT_MAX_CHARS.                           *)
(***************************************************************************)
EXTENDS JsonText, FiniteSets

CONSTANTS
    Symbols,      \* what can be typed, characters of JsonText
    TwoBytes, ThreeBytes, FourBytes,   \* the symbols of more than one byte
    FieldValues,  \* the values the app gives the text field: [text, base, extent]
    MaxClients,   \* transactions of the text field
    MaxEdits,     \* changes made by Flutter
    MaxKeys       \* keys that are pressed

ASSUME TextBounds == {MaxClients, MaxEdits, MaxKeys} \subseteq Nat

ASSUME SymbolsOK ==
    /\ Symbols \cup TwoBytes \cup ThreeBytes \cup FourBytes \subseteq STRING
    /\ TwoBytes \cap ThreeBytes = {} /\ (TwoBytes \cup ThreeBytes) \cap FourBytes = {}

(* The app may select what it likes.                                       *)
ASSUME FieldValuesOK ==
    \A v \in FieldValues : v.text \in Seq(STRING) /\ v.base \in Int /\ v.extent \in Int

VARIABLES
    text_input,   \* the plugin's state
    field,        \* Flutter's text field: [client, text, base, extent, actions]
    toPlugin,     \* calls on their way from Flutter
    toField,      \* calls on their way to Flutter
    clients, edits, keys,
    crossed,      \* an update met a call of Flutter on its way
    astray        \* Flutter's last selection is not one within the text, counted in symbols

textVars == <<text_input, field, toPlugin, toField, clients, edits, keys, crossed, astray>>

NoClient == -1

TextInit ==
    /\ text_input = [connection_id |-> NoClient, multiline |-> FALSE, text |-> <<>>,
                     selection_base |-> 0, selection_extent |-> 0]
    /\ field = [client |-> NoClient, text |-> <<>>, base |-> 0, extent |-> 0, actions |-> 0]
    /\ toPlugin = <<>>
    /\ toField = <<>>
    /\ clients = 0 /\ edits = 0 /\ keys = 0
    /\ crossed = FALSE /\ astray = FALSE

(* utf8_symbol_length and strlen.                                          *)
SymbolLength(c) ==
    CASE c \in FourBytes -> 4 [] c \in ThreeBytes -> 3 [] c \in TwoBytes -> 2 [] OTHER -> 1
Strlen(text) == FoldLeft(LAMBDA n, c : n + SymbolLength(c), 0, text)

(* symbol_at: a negative index is a huge unsigned one, behind every text.  *)
SymbolExists(text, index) == index \in 0..Len(text)
-----------------------------------------------------------------------------
(* The editing functions: the new state and whether it must be sent.       *)

SelectionStart(t) == Min({t.selection_base, t.selection_extent})
SelectionEnd(t) == Max({t.selection_base, t.selection_extent})

(* model_erase, with both ends inclusive.  The cursor goes to the start    *)
(* also when nothing was erased.                                           *)
ModelErase(t, start, end) ==
    [t EXCEPT !.text = IF SymbolExists(@, start) /\ SymbolExists(@, end + 1)
                       THEN SubSeq(@, 1, start) \o SubSeq(@, end + 2, Len(@)) ELSE @,
              !.selection_base = start,
              !.selection_extent = start]

ModelDeleteSelected(t) == ModelErase(t, SelectionStart(t), SelectionEnd(t) - 1)

ModelAddUtf8Char(t, c) ==
    LET u == IF t.selection_base # t.selection_extent THEN ModelDeleteSelected(t) ELSE t
        at == u.selection_base
    IN  IF SymbolExists(u.text, at)
        THEN <<[u EXCEPT !.text = SubSeq(@, 1, at) \o <<c>> \o SubSeq(@, at + 1, Len(@)),
                         !.selection_base = u.selection_extent + 1,
                         !.selection_extent = u.selection_extent + 1], TRUE>>
        ELSE <<u, FALSE>>

ModelBackspace(t) ==
    CASE t.selection_base # t.selection_extent -> <<ModelDeleteSelected(t), TRUE>>
      [] t.selection_base = t.selection_extent /\ t.selection_base # 0 ->
            <<ModelErase(t, t.selection_base - 1, t.selection_base - 1), TRUE>>
      [] OTHER -> <<t, FALSE>>

(* The test for the end of the text compares symbols with bytes, and as    *)
(* unsigned numbers.                                                       *)
ModelDelete(t) ==
    CASE t.selection_base # t.selection_extent -> <<ModelDeleteSelected(t), TRUE>>
      [] t.selection_base = t.selection_extent /\ SelectionStart(t) \in 0..(Strlen(t.text) - 1) ->
            <<ModelErase(t, SelectionStart(t), SelectionEnd(t)), TRUE>>
      [] OTHER -> <<t, FALSE>>

ModelMoveCursorToBeginning(t) ==
    <<[t EXCEPT !.selection_base = 0, !.selection_extent = 0],
      t.selection_base # 0 \/ t.selection_extent # 0>>

(* A selection whose base is at the end already keeps its extent.          *)
ModelMoveCursorToEnd(t) ==
    IF t.selection_base # Len(t.text)
    THEN <<[t EXCEPT !.selection_base = Len(t.text), !.selection_extent = Len(t.text)], TRUE>>
    ELSE <<t, FALSE>>

(* client_update_editing_state as Flutter will read it.                    *)
SyncEditingState(t) ==
    [method |-> "updateEditingState", client |-> t.connection_id,
     text |-> FlutterUnescapes(Escaped(t.text)),
     base |-> t.selection_base, extent |-> t.selection_extent]

ClientPerformAction(t) == [method |-> "performAction", client |-> t.connection_id]
-----------------------------------------------------------------------------
Send(call) == toField' = Append(toField, call)

Press ==
    /\ keys < MaxKeys
    /\ keys' = keys + 1
    /\ UNCHANGED <<field, toPlugin, clients, edits, astray>>

(* What the model function says is kept and, if it asks for it, sent.      *)
Apply(result, calls) ==
    /\ text_input' = result[1]
    /\ toField' = toField \o (IF result[2] THEN <<SyncEditingState(result[1])>> ELSE <<>>) \o calls
    /\ crossed' = (crossed \/ (result[2] /\ toPlugin # <<>>))

TextinOnUtf8Char(c) ==
    /\ Press
    /\ text_input.connection_id # NoClient
    /\ Apply(ModelAddUtf8Char(text_input, c), <<>>)

(* textin_on_xkb_keysym.                                                   *)
OnKeysym(keysym) ==
    LET t == text_input
    IN  /\ Press
        /\ t.connection_id # NoClient
        /\ CASE keysym = "BackSpace" -> Apply(ModelBackspace(t), <<>>)
             [] keysym = "Delete" -> Apply(ModelDelete(t), <<>>)
             [] keysym = "End" -> Apply(ModelMoveCursorToEnd(t), <<>>)
             [] keysym = "Home" -> Apply(ModelMoveCursorToBeginning(t), <<>>)
             [] keysym = "Return" ->
                   Apply(IF t.multiline THEN ModelAddUtf8Char(t, "NL") ELSE <<t, FALSE>>,
                         <<ClientPerformAction(t)>>)

Keysyms == {"BackSpace", "Delete", "End", "Home", "Return"}
-----------------------------------------------------------------------------
(* The calls of Flutter, as the plugin decodes them.                       *)

OnSetClient(call) ==
    text_input' = [text_input EXCEPT !.connection_id = call.client, !.multiline = call.multiline]

OnClearClient == text_input' = [text_input EXCEPT !.connection_id = NoClient]

(* The extent of the selection is not taken over.                          *)
MutOnSetEditingState(call) ==
    text_input' = [text_input EXCEPT !.text = call.text, !.selection_base = call.base]

OnSetEditingState(call) ==
    text_input' = [text_input EXCEPT !.text = call.text, !.selection_base = call.base,
                                     !.selection_extent = call.extent]

(* on_receive; the remaining methods (show, hide, setStyle, autofill) are  *)
(* answered and change nothing.                                            *)
OnReceive ==
    /\ toPlugin # <<>>
    /\ toPlugin' = Tail(toPlugin)
    /\ LET call == Head(toPlugin)
       IN  /\ CASE call.method = "setClient" -> OnSetClient(call)
                [] call.method = "clearClient" -> OnClearClient
                [] call.method = "setEditingState" -> OnSetEditingState(call)
                [] call.method = "show" -> UNCHANGED text_input
           /\ astray' = IF call.method = "setEditingState"
                        THEN ~({call.base, call.extent} \subseteq 0..Len(call.text)) ELSE astray
    /\ UNCHANGED <<field, toField, clients, edits, keys, crossed>>

(* A call that meets an update on its way.                                 *)
Call(calls) ==
    /\ toPlugin' = toPlugin \o calls
    /\ crossed' = (crossed \/ \E i \in 1..Len(toField) :
                        toField[i].method = "updateEditingState" /\ toField[i].client = field.client)

EditingState(v) ==
    [method |-> "setEditingState", text |-> FlutterWrites(v.text), base |-> v.base, extent |-> v.extent]

(* Flutter's text field opens a transaction, changes its value and ends    *)
(* the transaction.                                                        *)
FieldAttach(multiline) ==
    /\ clients < MaxClients
    /\ clients' = clients + 1
    /\ field' = [field EXCEPT !.client = clients]
    /\ toPlugin' = toPlugin \o <<[method |-> "setClient", client |-> clients, multiline |-> multiline],
                                 EditingState(field), [method |-> "show"]>>
    /\ crossed' = crossed
    /\ UNCHANGED <<text_input, toField, edits, keys, astray>>

FieldChange(v) ==
    /\ edits < MaxEdits
    /\ field.client # NoClient
    /\ edits' = edits + 1
    /\ field' = [field EXCEPT !.text = v.text, !.base = v.base, !.extent = v.extent]
    /\ Call(<<EditingState(v)>>)
    /\ UNCHANGED <<text_input, toField, clients, keys, astray>>

FieldDetach ==
    /\ field.client # NoClient
    /\ field' = [field EXCEPT !.client = NoClient]
    /\ toPlugin' = Append(toPlugin, [method |-> "clearClient"])
    /\ crossed' = FALSE
    /\ UNCHANGED <<text_input, toField, clients, edits, keys, astray>>

(* Updates for another transaction are dropped.                            *)
FieldReceive ==
    /\ toField # <<>>
    /\ toField' = Tail(toField)
    /\ LET call == Head(toField)
       IN  field' = CASE call.client # field.client -> field
                      [] call.client = field.client /\ call.method = "performAction" ->
                            [field EXCEPT !.actions = @ + 1]
                      [] OTHER -> [field EXCEPT !.text = call.text, !.base = call.base,
                                                !.extent = call.extent]
    /\ UNCHANGED <<text_input, toPlugin, clients, edits, keys, crossed, astray>>

TextNext ==
    \/ \E c \in Symbols : TextinOnUtf8Char(c)
    \/ \E k \in Keysyms : OnKeysym(k)
    \/ OnReceive
    \/ \E m \in BOOLEAN : FieldAttach(m)
    \/ \E v \in FieldValues : FieldChange(v)
    \/ FieldDetach
    \/ FieldReceive

TextSpec == TextInit /\ [][TextNext]_textVars
-----------------------------------------------------------------------------
Plain(text) == \A i \in 1..Len(text) : text[i] \notin NeedsEscape

(* A symbol index of the plugin and an offset of Flutter that are the same *)
(* place in a text.                                                        *)
SamePlace(text, index, offset) ==
    offset = index + Cardinality({i \in 1..index : text[i] \in FourBytes})

(* The selection the plugin edits with lies within its text, whatever mix  *)
(* of keys and calls led there, unless Flutter put it elsewhere (astray).  *)
(* And once no call is on its way the plugin and the text field agree on   *)
(* the text, and then on the place of the selection too; unless an update  *)
(* of the one met a change of the other on its way: then each takes over   *)
(* what the other had.  Excepted are characters that JSON escapes, which   *)
(* do not survive the way from Flutter, and for the places texts with a    *)
(* symbol of two UTF-16 units, as nothing converts the one into the other. *)
TextAgrees ==
    /\ ~astray => /\ SelectionStart(text_input) >= 0
                  /\ SelectionEnd(text_input) <= Len(text_input.text)
    /\ /\ field.client # NoClient /\ toPlugin = <<>> /\ toField = <<>> /\ ~crossed
       /\ Plain(field.text) /\ Plain(text_input.text)
       =>  /\ text_input.connection_id = field.client
           /\ text_input.text = field.text
           /\ ~astray /\ (\A i \in 1..Len(field.text) : field.text[i] \notin FourBytes) =>
                 /\ SamePlace(field.text, text_input.selection_base, field.base)
                 /\ SamePlace(field.text, text_input.selection_extent, field.extent)

(* "0 <= start <= end < len" (text_input.c:591, of what model_erase is     *)
(* given): what a backspace would erase lies within the text.              *)
BackspaceInRange ==
    LET t == text_input
        selected == t.selection_base # t.selection_extent
        start == IF selected THEN SelectionStart(t) ELSE t.selection_base - 1
        end == IF selected THEN SelectionEnd(t) - 1 ELSE start
    IN  t.connection_id # NoClient /\ (selected \/ t.selection_base # 0) =>
            0 <= start /\ start <= end /\ end < Len(t.text)
=============================================================================
