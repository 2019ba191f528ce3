--------------------------- MODULE PluginRegistry ---------------------------
(***************************************************************************)
(* Messages from Flutter: the plugin registry (pluginregistry.c) hands     *)
(* each to the receiver of its channel, and the services plugin            *)
(* (plugins/services.c) answers those of its six.                          *)
(*                                                                         *)
(* All of this runs on the platform thread, so a message and everything    *)
(* its receiver does is one action.  Of the plugins other than services    *)
(* only the receivers are modelled here, and that each message is answered *)
(* once.                                                                   *)
(***************************************************************************)
EXTENDS PlatformChannel, PluginReceivers

CONSTANTS
    Texts,         \* the texts Flutter copies and sends
    MaxMessages    \* messages from Flutter in one behaviour

ASSUME MessageBound == MaxMessages \in Nat

VARIABLES
    services,   \* struct plugin of services.c, and what it caused elsewhere
    last,       \* the last message from Flutter and its answers
    copied,     \* the text Flutter copied last
    messages    \* how many messages have been handled

pluginVars == <<receiverVars, services, last, copied, messages>>

NoMessage == [channel |-> "none", call |-> NotImplemented, answers |-> <<>>]

NewServices ==
    [clipboard |-> <<>>, hasString |-> FALSE, label |-> <<>>, isolate |-> FALSE,
     kind |-> "basic", exit |-> FALSE]

PluginInit ==
    /\ ReceiversInit
    /\ services = NewServices
    /\ last = NoMessage
    /\ copied = <<>>
    /\ messages = 0
-----------------------------------------------------------------------------
Malformed == RespondError("json", Name.code, Name.message, JsonNull)
IllegalArg == RespondIllegalArg("json", Name.message)
Field(arg, key) == arg.values[JsonGet(arg, key)]
HasField(arg, key) == arg.type = "object" /\ JsonGet(arg, key) # 0

TextKey == <<"text">>
ValueKey == <<"value">>
LabelKey == <<"label">>
TextPlain == <<"text/plain">>

(* on_receive_platform: the new state of the plugin and the answer.        *)

(* A text on the clipboard is never replaced.                              *)
MutSetClipboardData(s, arg) ==
    IF HasField(arg, TextKey) /\ Field(arg, TextKey).type = "string"
    THEN <<[s EXCEPT !.clipboard = IF s.hasString THEN @ ELSE Field(arg, TextKey).chars,
                     !.hasString = TRUE],
           RespondSuccess("json", JsonNull)>>
    ELSE <<s, IllegalArg>>

SetClipboardData(s, arg) ==
    IF HasField(arg, TextKey) /\ Field(arg, TextKey).type = "string"
    THEN <<[s EXCEPT !.clipboard = Field(arg, TextKey).chars, !.hasString = TRUE],
           RespondSuccess("json", JsonNull)>>
    ELSE <<s, IllegalArg>>

GetClipboardData(s, arg) ==
    <<s, CASE arg.type # "string" -> IllegalArg
           [] arg.type = "string" /\ (arg.chars # TextPlain \/ ~s.hasString) ->
                 RespondSuccess("json", JsonNull)
           [] OTHER ->
                 RespondSuccess("json", JsonObject(<<TextKey>>, <<JsonString(s.clipboard)>>))>>

ClipboardHasStrings(s, arg) ==
    <<s, IF arg.type # "string" \/ arg.chars # TextPlain THEN IllegalArg
         ELSE RespondSuccess("json", JsonObject(<<ValueKey>>, <<JsonBool(s.hasString)>>))>>

SetApplicationSwitcherDescription(s, arg) ==
    <<IF HasField(arg, LabelKey) /\ Field(arg, LabelKey).type = "string"
      THEN [s EXCEPT !.label = Field(arg, LabelKey).chars] ELSE s,
      RespondSuccess("json", JsonNull)>>

(* Popping the last route schedules the exit and is still answered as      *)
(* something that is not implemented.                                      *)
OnPlatformCall(s, method, arg) ==
    CASE method = <<"Clipboard.setData">> -> SetClipboardData(s, arg)
      [] method = <<"Clipboard.getData">> -> GetClipboardData(s, arg)
      [] method = <<"Clipboard.hasStrings">> -> ClipboardHasStrings(s, arg)
      [] method = <<"SystemChrome.setApplicationSwitcherDescription">> ->
            SetApplicationSwitcherDescription(s, arg)
      [] method = <<"SystemNavigator.pop">> -> <<[s EXCEPT !.exit = TRUE], NotImplemented>>
      [] OTHER -> <<s, NotImplemented>>

OnReceivePlatform(s, o) ==
    IF o = Undecodable THEN <<s, Malformed>> ELSE OnPlatformCall(s, o.json_method, o.json_arg)

(* on_receive_mouse_cursor walks the raw message.  The keys and the kinds  *)
(* are opaque texts.                                                       *)
CursorName == [activateSystemCursor |-> <<1>>, device |-> <<2>>, kind |-> <<3>>,
               basic |-> <<4>>, none |-> <<5>>]
CursorKinds == {"basic", "none"}

IllegalCursor == RespondIllegalArg("std", Name.message)

SetCursorKind(s, buf, device, kind) ==
    IF /\ device # None /\ kind # None
       /\ RawType(buf, device) \in {kStd.Int32, kStd.Int64}
       /\ RawType(buf, kind) = kStd.String
       /\ \E k \in CursorKinds : RawStringEquals(buf, kind, CursorName[k])
    THEN <<[s EXCEPT !.kind = CHOOSE k \in CursorKinds : RawStringEquals(buf, kind, CursorName[k])],
           RespondSuccess("std", StdNull)>>
    ELSE <<s, IllegalCursor>>

OnActivateSystemCursor(s, buf, arg) ==
    IF RawType(buf, arg) # kStd.Map THEN <<s, IllegalCursor>>
    ELSE SetCursorKind(s, buf, RawMapFindStr(buf, arg, CursorName.device),
                       RawMapFindStr(buf, arg, CursorName.kind))

OnReceiveMouseCursor(s, buf) ==
    IF ~RawMethodCallCheck(buf, Len(buf)) THEN <<s, IllegalCursor>>
    ELSE IF RawMethod(buf) # CursorName.activateSystemCursor THEN <<s, NotImplemented>>
    ELSE OnActivateSystemCursor(s, buf, RawArg(buf))

(* The isolate channel carries the isolate's name.                         *)
OnReceiveIsolate(s) == <<[s EXCEPT !.isolate = TRUE], NotImplemented>>

ServicesReceiver(channel, s, bytes) ==
    CASE channel = "isolate" -> OnReceiveIsolate(s)
      [] channel = "platform" -> OnReceivePlatform(s, Decode("json_call", bytes))
      [] channel = "mousecursor" -> OnReceiveMouseCursor(s, bytes)
      [] OTHER -> <<s, NotImplemented>>
-----------------------------------------------------------------------------
Answered(channel, call, answers) ==
    last' = [channel |-> channel, call |-> call, answers |-> answers]

CanReceive == registry.phase = "running" /\ messages < MaxMessages /\ messages' = messages + 1

(* plugin_registry_on_platform_message without a receiver.                 *)
NoReceiver(channel, call) ==
    /\ CanReceive
    /\ Index(registry.callbacks, channel) = 0
    /\ Answered(channel, call, <<NotImplemented>>)
    /\ UNCHANGED <<receiverVars, services, copied>>

(* ... for a v2 receiver: the services plugin has them all.  The copied    *)
(* text is what Flutter believes to be on the clipboard.                   *)
MessageV2(m) ==
    /\ CanReceive
    /\ LET i == Index(registry.callbacks, m.channel)
       IN  i # 0 /\ registry.callbacks[i].v2
    /\ \E done \in {ServicesReceiver(m.channel, services, m.bytes)} :
          /\ services' = done[1]
          /\ Answered(m.channel, m.call, <<done[2]>>)
          /\ copied' = IF m.copies /\ done[2] = RespondSuccess("json", JsonNull)
                       THEN m.text ELSE copied
    /\ UNCHANGED receiverVars

(* ... for an older receiver: the message is decoded for it.  An error it  *)
(* returns leads to the label that gives up the lock a second time, which  *)
(* nothing notices: only the platform thread ever takes it.                *)
MessageV1(channel) ==
    /\ CanReceive
    /\ LET i == Index(registry.callbacks, channel)
       IN  i # 0 /\ ~registry.callbacks[i].v2
    /\ \E answer \in {NotImplemented, JsonSuccess(JsonNull)} :
          Answered(channel, NotImplemented, <<answer>>)
    /\ UNCHANGED <<receiverVars, services, copied>>

(* What Flutter sends to the services plugin.                              *)
PlatformCalls ==
    {JsonCall(<<"Clipboard.setData">>, JsonNull),
     JsonCall(<<"Clipboard.getData">>, JsonString(TextPlain)),
     JsonCall(<<"Clipboard.getData">>, JsonNull),
     JsonCall(<<"Clipboard.hasStrings">>, JsonString(TextPlain)),
     JsonCall(<<"SystemChrome.setApplicationSwitcherDescription">>,
              JsonObject(<<LabelKey>>, <<JsonString(<<"a">>)>>)),
     JsonCall(<<"SystemNavigator.pop">>, JsonNull),
     JsonCall(<<"HapticFeedback.vibrate">>, JsonNull)}
CopyCall(text) ==
    JsonCall(<<"Clipboard.setData">>, JsonObject(<<TextKey>>, <<JsonString(text)>>))
CursorCalls ==
    {StdCall(CursorName.activateSystemCursor, StdNull)} \cup
    {StdCall(CursorName.activateSystemCursor,
             StdMap(<<StdString(CursorName.device), StdString(CursorName.kind)>>,
                    <<StdNumber(kStd.Int32, 0), StdString(k)>>)) : k \in {<<4>>, <<5>>, <<6>>}}

(* The text of a call: Flutter escapes its strings itself.                 *)
CallText(call) ==
    <<"{">> \o Quoted(<<"method">>) \o <<":">> \o Quoted(call.json_method) \o <<",">>
    \o Quoted(<<"args">>) \o <<":">> \o JsonWrite(call.json_arg) \o <<"}">>
CopyText(text) ==
    <<"{">> \o Quoted(<<"method">>) \o <<":">> \o Quoted(<<"Clipboard.setData">>) \o <<",">>
    \o Quoted(<<"args">>) \o <<":", "{">> \o Quoted(TextKey) \o <<":">>
    \o Quoted(FlutterWrites(text)) \o <<"}", "}">>

Message(channel, call, bytes) ==
    [channel |-> channel, call |-> call, bytes |-> bytes, copies |-> FALSE, text |-> <<>>]
ServicesMessages ==
    {Message("platform", call, CallText(call)) : call \in PlatformCalls}
    \cup {[Message("platform", CopyCall(text), CopyText(text)) EXCEPT !.copies = TRUE, !.text = text] :
             text \in Texts}
    \cup {Message("mousecursor", call, Encode(call)) : call \in CursorCalls}
    \cup {Message(c, NotImplemented, <<>>) : c \in {"navigation", "isolate"}}

(* The start and the end of the registry; services_deinit frees the        *)
(* clipboard.                                                              *)
StartPlugins ==
    /\ \/ \E p \in Plugins : StaticAdd(p) \/ StaticRemove(p)
       \/ NewRegistry
       \/ EnsurePluginsInitialized
    /\ UNCHANGED <<services, last, copied, messages>>

DestroyPlugins ==
    /\ DestroyRegistry
    /\ services' = NewServices
    /\ UNCHANGED <<last, copied, messages>>

(* A message to the audio players' receiver that opens or closes a player. *)
AudioMessage ==
    /\ CanReceive
    /\ CreateAudioPlayer \/ DisposeAudioPlayer
    /\ Answered("audio", NotImplemented, <<StdSuccess(StdNull)>>)
    /\ UNCHANGED <<services, copied>>

PluginNext ==
    \/ StartPlugins
    \/ DestroyPlugins
    \/ \E c \in {"unknown", "test.json", "platform"} : NoReceiver(c, NotImplemented)
    \/ \E c \in {"test.json", "audio.global", PlayerChannel} : MessageV1(c)
    \/ \E m \in ServicesMessages : MessageV2(m)
    \/ AudioMessage
-----------------------------------------------------------------------------
(* The text Flutter gets from the clipboard, if the last message asked for *)
(* it.                                                                     *)
Pasted ==
    LET text == JsonDecode(Encode(last.answers[1])).value.array[1]
    IN  FlutterUnescapes(Field(text, TextKey).chars)
AsksForText ==
    /\ last.channel = "platform"
    /\ last.call = JsonCall(<<"Clipboard.getData">>, JsonString(TextPlain))
    /\ last.answers # <<NotImplemented>>
    /\ last.answers[1].json_result # JsonNull

(* What is pasted is what was copied, as long as it needs no escaping.     *)
PlainTextPasted ==
    AsksForText /\ (\A i \in 1..Len(copied) : copied[i] \notin NeedsEscape) => Pasted = copied
=============================================================================
