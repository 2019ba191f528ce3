---------------------------- MODULE MCSideBySide ----------------------------
(***************************************************************************)
(* Parts that share no state, side by side: one behaviour exercises the    *)
(* messages on a channel, the plugin registry, the video players, a        *)
(* texture, the events of a video, the questions of a web page, an audio   *)
(* player, the input devices, or the text field.                           *)
(***************************************************************************)
EXTENDS PluginRegistry, VideoPlayer, TextureRegistry, VideoEvents, WebCalls, AudioPlayer, UserInput,
        TextInput

VARIABLE part

I32(v) == StdNumber(kStd.Int32, v)
I64(v) == StdNumber(kStd.Int64, v)
F64(v) == StdNumber(kStd.Float64, v)
S(s) == StdString(s)
A == <<1>>
B == <<2, 3>>
Bytes(n) == StdArray(kStd.UInt8Array, [i \in 1..n |-> i])
Ints(s) == StdArray(kStd.Int32Array, s)

\* every type, and arrays of one-, three- and five-byte sizes
Leaves ==
    {StdNull, StdBool(TRUE), StdBool(FALSE), I32(7), I64(8), F64(9), S(<<>>), S(A), S(B),
     StdArray(kStd.LargeInt, B), Bytes(3), Bytes(4), Bytes(5), Bytes(6), Ints(<<1>>),
     StdArray(kStd.Int64Array, <<1, 2>>), StdArray(kStd.Float64Array, <<5>>)}
Nested ==
    {StdList(<<>>), StdMap(<<>>, <<>>),
     StdMap(<<S(A), S(B)>>, <<I32(7), F64(9)>>), StdMap(<<S(B), S(A)>>, <<F64(9), I32(7)>>),
     StdMap(<<S(A), S(B)>>, <<I32(7), F64(8)>>),
     StdMap(<<I32(1)>>, <<StdList(<<StdNull, F64(9)>>)>>),
     StdMap(<<I32(1)>>, <<StdMap(<<S(A)>>, <<StdNull>>)>>)}
    \cup {StdList(<<a, b>>) : a \in {StdNull, S(A), I32(7)}, b \in Leaves}
    \cup {StdList(<<a, StdNull, b>>) : a \in {Ints(<<1>>), F64(9)}, b \in {F64(9), Ints(<<2>>)}}
StdObjects ==
    {StdMessage(v) : v \in Leaves \cup Nested} \cup {StdCall(m, v) : m \in {A, B}, v \in Leaves}
    \cup {StdSuccess(v) : v \in Leaves} \cup {StdError(A, B, v) : v \in Leaves}

\* every character, numbers longer than "%g" keeps, and texts with one token too many
Chars == {"a", "NL", Quote, Backslash}
Long == <<"1", "2", "3", "4">>
JsonLeaves ==
    {JsonNull, JsonBool(TRUE), JsonBool(FALSE), JsonNumber(<<"1">>), JsonNumber(Long),
     JsonInteger(Long), JsonString(<<>>)} \cup {JsonString(<<a, b>>) : a \in Chars, b \in Chars}
Nulls(n) == JsonArray([i \in 1..n |-> JsonNull])
JsonNested ==
    {Nulls(0), JsonObject(<<>>, <<>>), Nulls(7), Nulls(8)}
    \cup {JsonArray(<<a, JsonNull>>) : a \in JsonLeaves}
    \cup {JsonObject(<<<<"a">>, <<"b", "c">>>>, <<a, Nulls(1)>>) : a \in JsonLeaves}
JsonObjects ==
    {JsonMessage(v) : v \in JsonLeaves \cup JsonNested}
    \cup {JsonCall(<<"m">>, v) : v \in JsonLeaves} \cup {JsonSuccess(v) : v \in JsonLeaves}
    \cup {JsonError(<<"c">>, m, JsonNull) : m \in {<<>>, <<"a", Quote>>}}
Responses ==
    {RespondSuccess("pigeon", I32(7)), RespondNativeError("pigeon", 5),
     RespondIllegalArg("pigeon", Name.message), RespondSuccess("std", StdNull),
     RespondNativeError("std", 5), RespondNativeError("json", 5),
     RespondIllegalArg("json", Name.message), SuccessEvent("std", I32(7)),
     ErrorEvent("std", Name.code, Name.message, F64(9)), SuccessEvent("json", JsonNull),
     ErrorEvent("json", Name.code, Name.message, JsonNull)}
MCObjects ==
    Responses \cup StdObjects \cup JsonObjects
    \cup {NotImplemented, StringMessage(<<1>>), BinaryMessage(<<1>>)}
MCAnswers ==
    {StdSuccess(StdNull), StdError(A, B, StdNull), JsonSuccess(JsonNull),
     JsonError(<<"c">>, <<>>, JsonNull), NotImplemented}
MCTexts == {<<"a">>, <<"a", "b">>, <<"a", "NL">>, <<Quote>>}

MCFieldValues ==
    {[text |-> <<"a", "e2">>, base |-> 2, extent |-> 0], [text |-> <<"a", "NL">>, base |-> 1, extent |-> 2],
     [text |-> <<"g4", "h3">>, base |-> 3, extent |-> 3], [text |-> <<"a">>, base |-> -1, extent |-> -1]}

\* two pointers and two keyboards, a touchscreen, a tablet, and a device libinput knows too little of
MCCapabilities ==
    [m |-> {"pointer", "keyboard"}, p |-> {"pointer"}, k |-> {"keyboard"}, t |-> {"touch"},
     s |-> {"tablet"}, u |-> {"touch", "pointer"}]
MCTouchCount == [m |-> 0, p |-> 0, k |-> 0, t |-> 2, s |-> 0, u |-> 0]
MCSetups == {{"m", "p"}, {"m", "k"}, {"m", "u"}, {"t", "s"}}

vars ==
    <<part, exchanges, pluginVars, videoVars, textureVars, eventVars, webVars, audioPlayer, inputVars,
      textVars>>

Init ==
    /\ part \in {"channel", "plugins", "players", "texture", "events", "web", "audio", "devices",
                "text"}
    /\ ChannelInit /\ PluginInit /\ VideoInit /\ TextureInit /\ EventsInit /\ WebInit
    /\ AudioInit /\ InputInit /\ TextInit
    /\ part # "players" => environment = [gl |-> TRUE, plane |-> FALSE]
    /\ part # "web" => delegate = FALSE
    /\ part = "devices" => input.kbdcfg \/ libinput["k"].exists
    /\ part # "devices" => input.kbdcfg /\ libinput["p"].exists

Next ==
    /\ UNCHANGED part
    /\ \/ part = "channel" /\ ChannelNext
          /\ UNCHANGED <<pluginVars, videoVars, textureVars, eventVars, webVars, audioPlayer, inputVars, textVars>>
       \/ part = "plugins" /\ PluginNext
          /\ UNCHANGED <<exchanges, videoVars, textureVars, eventVars, webVars, audioPlayer, inputVars, textVars>>
       \/ part = "players" /\ VideoNext
          /\ UNCHANGED <<exchanges, pluginVars, textureVars, eventVars, webVars, audioPlayer, inputVars, textVars>>
       \/ part = "texture" /\ TextureNext
          /\ UNCHANGED <<exchanges, pluginVars, videoVars, eventVars, webVars, audioPlayer, inputVars, textVars>>
       \/ part = "events" /\ EventsNext
          /\ UNCHANGED <<exchanges, pluginVars, videoVars, textureVars, webVars, audioPlayer, inputVars, textVars>>
       \/ part = "web" /\ WebNext
          /\ UNCHANGED <<exchanges, pluginVars, videoVars, textureVars, eventVars, audioPlayer, inputVars, textVars>>
       \/ part = "audio" /\ AudioNext
          /\ UNCHANGED <<exchanges, pluginVars, videoVars, textureVars, eventVars, webVars, inputVars, textVars>>
       \/ part = "devices" /\ InputNext
          /\ UNCHANGED <<exchanges, pluginVars, videoVars, textureVars, eventVars, webVars, audioPlayer, textVars>>
       \/ part = "text" /\ TextNext
          /\ UNCHANGED <<exchanges, pluginVars, videoVars, textureVars, eventVars, webVars, audioPlayer, inputVars>>

Spec == Init /\ [][Next]_vars
=============================================================================
