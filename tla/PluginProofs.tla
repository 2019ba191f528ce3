-------------------------- MODULE PluginProofs ---------------------------
(***************************************************************************)
(* Theorems about the plugins and what carries their messages:             *)
(* PluginReceivers, for any list of plugins; PlatformSend, for any objects *)
(* and answers and whatever the codecs make of them; TextInput, for any    *)
(* texts and keys; TextureRegistry, for any number of frames, held by the  *)
(* engine any number of times; VideoEvents, for any number of listens;     *)
(* VideoPlayer, for any number of players; AudioPlayer, for any urls and   *)
(* any length of the bus; and WebCalls, for any number of questions.       *)
(***************************************************************************)
EXTENDS PluginReceivers, PlatformSend, TextInput, TextureRegistry, VideoEvents, VideoPlayer,
        AudioPlayer, WebCalls, FiniteSetTheorems, SequenceTheorems, TLAPS

(* The folds of receivers and of plugins.                                  *)
Setting == INSTANCE FoldTheorems WITH Op <- SetReceiver
Removing == INSTANCE FoldTheorems WITH Op <- RemoveReceiver
Starting == INSTANCE FoldTheorems WITH Op <- InitInstance
Stopping == INSTANCE FoldTheorems WITH Op <- DeinitInstance

(* The channels of the plugins.                                            *)
PluginChannels ==
    {"navigation", "isolate", "platform", "accessibility", "platform_views", "mousecursor",
     "textinput", "audio.global", "audio", "video.initialize", "video.create", "video.dispose",
     "video.setLooping", "video.setVolume", "video.setPlaybackSpeed", "video.play",
     "video.position", "video.seekTo", "video.pause", "video.setMixWithOthers",
     "video.advancedControls", "video.v2", "charset", "test.json", "test.std", "test.ping"}
PluginReceiver == [channel : PluginChannels, v2 : BOOLEAN]
AnyReceiver == [channel : PluginChannels \cup {PlayerChannel}, v2 : BOOLEAN]

(* The receivers of each plugin.                                           *)
LEMMA ReceiversAre ==
  ASSUME NEW p \in DOMAIN Receivers
  PROVE  Receivers[p] \in Seq(PluginReceiver) /\ Receivers[p] \in Seq(AnyReceiver)
  <1>1. \A c \in PluginChannels : V1(c) \in PluginReceiver /\ V2(c) \in PluginReceiver
    BY DEF V1, V2, PluginReceiver
  <1>2. /\ ServicesReceivers \in Seq(PluginReceiver) /\ TextInputReceivers \in Seq(PluginReceiver)
        /\ AudioReceivers \in Seq(PluginReceiver) /\ CharsetReceivers \in Seq(PluginReceiver)
        /\ TestReceivers \in Seq(PluginReceiver) /\ <<>> \in Seq(PluginReceiver)
    BY <1>1
       DEF ServicesReceivers, TextInputReceivers, AudioReceivers, CharsetReceivers, TestReceivers,
                PluginChannels
  <1>3. VideoReceivers \in Seq(PluginReceiver) BY <1>1 DEF VideoReceivers, PluginChannels
  <1>4. p \in {"services", "text_input", "audioplayers", "video", "charset", "test", "rawkb"}
    BY DEF Receivers
  <1>5. /\ Receivers["services"] = ServicesReceivers /\ Receivers["text_input"] = TextInputReceivers
        /\ Receivers["audioplayers"] = AudioReceivers /\ Receivers["video"] = VideoReceivers
        /\ Receivers["charset"] = CharsetReceivers /\ Receivers["test"] = TestReceivers
        /\ Receivers["rawkb"] = <<>>
    BY DEF Receivers
  <1>6. Receivers[p] \in Seq(PluginReceiver) BY <1>2, <1>3, <1>4, <1>5
  <1>7. PluginReceiver \subseteq AnyReceiver BY DEF PluginReceiver, AnyReceiver
  <1>8. \A s \in Seq(PluginReceiver) : s \in Seq(AnyReceiver)
    <2> TAKE s \in Seq(PluginReceiver)
    <2>1. Len(s) \in Nat /\ s \in [1 .. Len(s) -> PluginReceiver] BY LenProperties
    <2>2. s \in [1 .. Len(s) -> AnyReceiver] BY <1>7, <2>1
    <2> QED BY <2>1, <2>2, IsASeq
  <1> QED BY <1>8, <1>6

(* No plugin has the channel of a player.                                  *)
LEMMA PlayerApart == PlayerChannel \notin PluginChannels BY DEF PlayerChannel, PluginChannels

(* No channel is there twice.                                              *)
Distinct(cs) ==
    \A i \in 1 .. Len(cs) : \A j \in 1 .. Len(cs) : cs[i].channel = cs[j].channel => i = j
Orderly(cs) == cs \in Seq(AnyReceiver) /\ Distinct(cs)

(* The least of one number.                                                *)
LEMMA MinOfOne ==
  ASSUME NEW i \in Int
  PROVE  Min({i}) = i
  BY DEF Min

(* Index finds the one receiver of a channel.                              *)
LEMMA IndexIs ==
  ASSUME NEW cs, Orderly(cs), NEW c
  PROVE  /\ Len(cs) \in Nat
         /\ Index(cs, c) = 0 <=> c \notin Channels(cs)
         /\ Index(cs, c) # 0 => Index(cs, c) \in 1 .. Len(cs) /\ cs[Index(cs, c)].channel = c
  <1> DEFINE hits == {i \in 1 .. Len(cs) : cs[i].channel = c}
  <1>1. Len(cs) \in Nat BY LenProperties DEF Orderly
  <1>2. Index(cs, c) = IF hits = {} THEN 0 ELSE Min(hits) BY DEF Index
  <1>3. hits = {} <=> c \notin Channels(cs) BY DEF Channels
  <1>4. CASE hits = {} BY <1>1, <1>2, <1>3, <1>4
  <1>5. CASE hits # {}
    <2>1. PICK i \in 1 .. Len(cs) : cs[i].channel = c BY <1>5
    <2>2. hits = {i} BY <2>1 DEF Orderly, Distinct
    <2>3. i \in Int /\ i # 0 BY <1>1, <2>1
    <2> HIDE DEF hits
    <2>4. Index(cs, c) = i BY <1>2, <1>5, <2>2, <2>3, MinOfOne
    <2> QED BY <1>1, <1>3, <1>5, <2>1, <2>3, <2>4
  <1> QED BY <1>4, <1>5

(* Setting a receiver adds its channel, or replaces the receiver it had.   *)
LEMMA SetReceiverIs ==
  ASSUME NEW cs, Orderly(cs), NEW r \in AnyReceiver
  PROVE  /\ Orderly(SetReceiver(cs, r))
         /\ Channels(SetReceiver(cs, r)) = Channels(cs) \cup {r.channel}
  <1> DEFINE i == Index(cs, r.channel)
             n == Len(cs)
  <1>1. /\ cs \in Seq(AnyReceiver) /\ Distinct(cs) /\ n \in Nat
        /\ i = 0 <=> r.channel \notin Channels(cs)
        /\ i # 0 => i \in 1 .. n /\ cs[i].channel = r.channel
    BY IndexIs DEF Orderly
  <1>2. PICK s : s = SetReceiver(cs, r) OBVIOUS
  <1>3. CASE i = 0
    <2>1. s = Append(cs, r) BY <1>2, <1>3 DEF SetReceiver
    <2>2. /\ s \in Seq(AnyReceiver) /\ Len(s) = n + 1 /\ s[n + 1] = r
          /\ \A j \in 1 .. n : s[j] = cs[j]
      BY <1>1, <2>1, AppendProperties
    <2>3. \A j \in 1 .. n + 1 : j \in 1 .. n \/ j = n + 1 BY <1>1
    <2>4. \A j \in 1 .. n : cs[j].channel # r.channel BY <1>1, <1>3 DEF Channels
    <2>5. ASSUME NEW j \in 1 .. n + 1, NEW k \in 1 .. n + 1, s[j].channel = s[k].channel PROVE j = k
      <3>1. CASE j \in 1 .. n /\ k \in 1 .. n BY <1>1, <2>2, <2>5, <3>1 DEF Distinct
      <3>2. CASE j = n + 1 /\ k \in 1 .. n BY <2>2, <2>4, <2>5, <3>2
      <3>3. CASE k = n + 1 /\ j \in 1 .. n BY <2>2, <2>4, <2>5, <3>3
      <3>4. CASE k = n + 1 /\ j = n + 1 BY <3>4
      <3> QED BY <2>3, <3>1, <3>2, <3>3, <3>4
    <2>6. Orderly(s) BY <2>2, <2>5 DEF Orderly, Distinct
    <2>7. \A j \in 1 .. n : j \in 1 .. n + 1 BY <1>1
    <2>8. n + 1 \in 1 .. n + 1 BY <1>1
    <2>9. Channels(s) = Channels(cs) \cup {r.channel}
      <3>1. \A c : c \in Channels(s) <=> \E j \in 1 .. n + 1 : c = s[j].channel
        BY <2>2 DEF Channels
      <3>2. \A c : c \in Channels(cs) <=> \E j \in 1 .. n : c = cs[j].channel BY DEF Channels
      <3> HIDE DEF n
      <3>3. \A c : c \in Channels(s) <=> c \in Channels(cs) \/ c = r.channel
        BY <2>2, <2>3, <2>7, <2>8, <3>1, <3>2
      <3> QED BY <3>3
    <2> QED BY <1>2, <2>6, <2>9
  <1>4. CASE i # 0
    <2>1. s = [cs EXCEPT ![i] = r] BY <1>2, <1>4 DEF SetReceiver
    <2>2. i \in 1 .. n /\ cs[i].channel = r.channel BY <1>1, <1>4
    <2> HIDE DEF i
    <2>3. s \in Seq(AnyReceiver) /\ Len(s) = n
              /\ \A j \in 1 .. n : s[j] = IF j = i THEN r ELSE cs[j]
      BY <1>1, <2>1, <2>2, ExceptSeq
    <2>4. \A j \in 1 .. n : s[j].channel = cs[j].channel BY <2>2, <2>3
    <2>5. Orderly(s) BY <1>1, <2>3, <2>4 DEF Orderly, Distinct
    <2>6. Channels(s) = Channels(cs) BY <2>3, <2>4 DEF Channels
    <2>7. r.channel \in Channels(cs) BY <2>2 DEF Channels
    <2> QED BY <1>2, <2>5, <2>6, <2>7
  <1> QED BY <1>3, <1>4

(* Removing one takes its channel away and no other.                       *)
LEMMA RemoveReceiverIs ==
  ASSUME NEW cs, Orderly(cs), NEW r \in AnyReceiver
  PROVE  /\ Orderly(RemoveReceiver(cs, r))
         /\ Channels(RemoveReceiver(cs, r)) = Channels(cs) \ {r.channel}
  <1> DEFINE i == Index(cs, r.channel)
             n == Len(cs)
  <1>1. /\ cs \in Seq(AnyReceiver) /\ Distinct(cs) /\ n \in Nat
        /\ i = 0 <=> r.channel \notin Channels(cs)
        /\ i # 0 => i \in 1 .. n /\ cs[i].channel = r.channel
    BY IndexIs DEF Orderly
  <1>2. PICK s : s = RemoveReceiver(cs, r) OBVIOUS
  <1>3. CASE i = 0
    <2>1. s = cs BY <1>2, <1>3 DEF RemoveReceiver
    <2> QED BY <1>1, <1>2, <1>3, <2>1
  <1>4. CASE i # 0
    <2>1. s = RemoveAt(cs, i) BY <1>2, <1>4 DEF RemoveReceiver
    <2>2. i \in 1 .. n /\ cs[i].channel = r.channel BY <1>1, <1>4
    <2> HIDE DEF i
    <2>3. /\ s \in Seq(AnyReceiver) /\ Len(s) = n - 1
          /\ \A j \in 1 .. n - 1 : s[j] = IF j < i THEN cs[j] ELSE cs[j + 1]
      <3> DEFINE x == SubSeq(cs, 1, i - 1)
                 y == SubSeq(cs, i + 1, n)
      <3>1. /\ x \in Seq(AnyReceiver) /\ Len(x) = i - 1
            /\ \A j \in 1 .. i - 1 : x[j] = cs[j]
        BY <1>1, <2>2
      <3>2. /\ y \in Seq(AnyReceiver) /\ Len(y) = n - i
            /\ \A j \in 1 .. n - i : y[j] = cs[i + j]
        BY <1>1, <2>2
      <3>3. s = x \o y BY <2>1 DEF RemoveAt
      <3> HIDE DEF x, y
      <3> DEFINE z == x \o y
      <3>4. /\ z \in Seq(AnyReceiver) /\ Len(z) = Len(x) + Len(y)
            /\ \A j \in 1 .. Len(x) + Len(y) : z[j] = IF j <= Len(x) THEN x[j] ELSE y[j - Len(x)]
        BY <3>1, <3>2, ConcatProperties
      <3> HIDE DEF z
      <3>5. s = z BY <3>3 DEF z
      <3>6. /\ s \in Seq(AnyReceiver) /\ Len(s) = (i - 1) + (n - i)
            /\ \A j \in 1 .. (i - 1) + (n - i) : s[j] = IF j <= i - 1 THEN x[j] ELSE y[j - (i - 1)]
        <4>1. Len(x) = i - 1 /\ Len(y) = n - i BY <3>1, <3>2
        <4> QED BY <3>4, <3>5, <4>1
      <3>7. (i - 1) + (n - i) = n - 1 BY <1>1, <2>2
      <3>8. ASSUME NEW j \in 1 .. n - 1 PROVE s[j] = IF j < i THEN cs[j] ELSE cs[j + 1]
        <4>1. CASE j < i
          <5>1. j \in 1 .. i - 1 /\ j <= i - 1 BY <1>1, <2>2, <4>1
          <5> QED BY <3>1, <3>6, <3>7, <4>1, <5>1
        <4>2. CASE ~(j < i)
          <5>1. j - (i - 1) \in 1 .. n - i /\ ~(j <= i - 1) /\ i + (j - (i - 1)) = j + 1
            BY <1>1, <2>2, <4>2
          <5> QED BY <3>2, <3>6, <3>7, <4>2, <5>1
        <4> QED BY <4>1, <4>2
      <3> QED BY <3>6, <3>7, <3>8
    <2> DEFINE Old(j) == IF j < i THEN j ELSE j + 1
    <2>4. /\ \A j \in 1 .. n - 1 : Old(j) \in 1 .. n /\ Old(j) # i /\ s[j] = cs[Old(j)]
          /\ \A j \in 1 .. n - 1 : \A k \in 1 .. n - 1 : Old(j) = Old(k) => j = k
          /\ \A k \in 1 .. n : k # i => \E j \in 1 .. n - 1 : Old(j) = k
      <3>1. \A j \in 1 .. n - 1 : Old(j) \in 1 .. n /\ Old(j) # i BY <1>1, <2>2
      <3>2. \A j \in 1 .. n - 1 : s[j] = cs[Old(j)] BY <2>3
      <3>3. \A j \in 1 .. n - 1 : \A k \in 1 .. n - 1 : Old(j) = Old(k) => j = k BY <1>1, <2>2
      <3>4. ASSUME NEW k \in 1 .. n, k # i PROVE \E j \in 1 .. n - 1 : Old(j) = k
        <4>1. CASE k < i
          <5>1. k \in 1 .. n - 1 /\ Old(k) = k BY <1>1, <2>2, <4>1
          <5> QED BY <5>1
        <4>2. CASE ~(k < i)
          <5>1. k - 1 \in 1 .. n - 1 /\ Old(k - 1) = k BY <1>1, <2>2, <3>4, <4>2
          <5> QED BY <5>1
        <4> QED BY <4>1, <4>2
      <3> QED BY <3>1, <3>2, <3>3, <3>4
    <2> HIDE DEF Old
    <2>5. Orderly(s)
      <3>1. ASSUME NEW j \in 1 .. n - 1, NEW k \in 1 .. n - 1, s[j].channel = s[k].channel
            PROVE  j = k
        <4>1. cs[Old(j)].channel = cs[Old(k)].channel BY <2>4, <3>1
        <4>2. Old(j) = Old(k) BY <1>1, <2>4, <4>1 DEF Distinct
        <4> QED BY <2>4, <4>2
      <3> QED BY <2>3, <3>1 DEF Orderly, Distinct
    <2>6. \A c : c \in Channels(s) <=> \E j \in 1 .. n - 1 : c = s[j].channel
      BY <2>3 DEF Channels
    <2>7. \A c : c \in Channels(cs) <=> \E j \in 1 .. n : c = cs[j].channel BY DEF Channels
    <2>8. \A j \in 1 .. n : j # i => cs[j].channel # r.channel BY <1>1, <2>2 DEF Distinct
    <2> HIDE DEF n
    <2>9. ASSUME NEW c PROVE c \in Channels(s) <=> c \in Channels(cs) /\ c # r.channel
      <3>1. ASSUME c \in Channels(s) PROVE c \in Channels(cs) /\ c # r.channel
        <4>1. PICK j \in 1 .. n - 1 : c = cs[Old(j)].channel BY <2>4, <2>6, <3>1
        <4> QED BY <2>4, <2>7, <2>8, <4>1
      <3>2. ASSUME c \in Channels(cs), c # r.channel PROVE c \in Channels(s)
        <4>1. PICK k \in 1 .. n : c = cs[k].channel BY <2>7, <3>2
        <4>2. k # i BY <2>2, <3>2, <4>1
        <4>3. PICK j \in 1 .. n - 1 : Old(j) = k BY <2>4, <4>2
        <4> QED BY <2>4, <2>6, <4>1, <4>3
      <3> QED BY <3>1, <3>2
    <2>10. Channels(s) = Channels(cs) \ {r.channel} BY <2>9
    <2> QED BY <1>2, <2>5, <2>10
  <1> QED BY <1>3, <1>4

(* The folds of the lists of receivers and of plugins.                     *)
LEMMA SetFoldIs == \A cs, rs : FoldLeft(SetReceiver, cs, rs) = Setting!Fold(cs, rs)
  BY DEF Setting!Fold, FoldLeft, Setting!FoldLeft, MapThenFoldSet, Setting!MapThenFoldSet,
         Max, Setting!Max

LEMMA RemoveFoldIs == \A cs, rs : FoldLeft(RemoveReceiver, cs, rs) = Removing!Fold(cs, rs)
  BY DEF Removing!Fold, FoldLeft, Removing!FoldLeft, MapThenFoldSet, Removing!MapThenFoldSet,
         Max, Removing!Max

LEMMA InitFoldIs == \A cs, is : FoldLeft(InitInstance, cs, is) = Starting!Fold(cs, is)
  BY DEF Starting!Fold, FoldLeft, Starting!FoldLeft, MapThenFoldSet, Starting!MapThenFoldSet,
         Max, Starting!Max

LEMMA DeinitFoldIs == \A cs, is : FoldLeft(DeinitInstance, cs, is) = Stopping!Fold(cs, is)
  BY DEF Stopping!Fold, FoldLeft, Stopping!FoldLeft, MapThenFoldSet, Stopping!MapThenFoldSet,
         Max, Stopping!Max

(* The channels of no receiver, of one more, and of the list turned round. *)
LEMMA ChannelsNone == Channels(<<>>) = {} BY DEF Channels

LEMMA ChannelsMore ==
  ASSUME NEW rs \in Seq(AnyReceiver), NEW r \in AnyReceiver
  PROVE  Channels(Append(rs, r)) = Channels(rs) \cup {r.channel}
  <1> DEFINE n == Len(rs)
             s == Append(rs, r)
  <1>1. n \in Nat BY LenProperties
  <1>2. Len(s) = n + 1 /\ s[n + 1] = r /\ \A j \in 1 .. n : s[j] = rs[j] BY AppendProperties
  <1>3. \A j \in 1 .. n + 1 : j \in 1 .. n \/ j = n + 1 BY <1>1
  <1>4. \A j \in 1 .. n : j \in 1 .. n + 1 BY <1>1
  <1>5. n + 1 \in 1 .. n + 1 BY <1>1
  <1>6. \A c : c \in Channels(s) <=> \E j \in 1 .. n + 1 : c = s[j].channel BY <1>2 DEF Channels
  <1>7. \A c : c \in Channels(rs) <=> \E j \in 1 .. n : c = rs[j].channel BY DEF Channels
  <1> HIDE DEF n, s
  <1>8. \A c : c \in Channels(s) <=> c \in Channels(rs) \/ c = r.channel
    BY <1>2, <1>3, <1>4, <1>5, <1>6, <1>7
  <1>9. Channels(s) = Channels(rs) \cup {r.channel} BY <1>8
  <1> QED BY <1>9 DEF s

LEMMA ChannelsTurned ==
  ASSUME NEW rs \in Seq(AnyReceiver)
  PROVE  Reverse(rs) \in Seq(AnyReceiver) /\ Channels(Reverse(rs)) = Channels(rs)
  <1> DEFINE n == Len(rs)
             s == Reverse(rs)
  <1>1. n \in Nat /\ \A i \in 1 .. n : rs[i] \in AnyReceiver BY LenProperties, ElementOfSeq
  <1>2. s = [i \in 1 .. n |-> rs[(n - i) + 1]] BY DEF Reverse
  <1>3. \A i \in 1 .. n : (n - i) + 1 \in 1 .. n /\ (n - ((n - i) + 1)) + 1 = i BY <1>1
  <1>4. \A i \in 1 .. n : s[i] = rs[(n - i) + 1] /\ s[i] \in AnyReceiver BY <1>1, <1>2, <1>3
  <1> HIDE DEF s
  <1>5. s \in Seq(AnyReceiver) /\ Len(s) = n
    <2>1. s \in [1 .. n -> AnyReceiver] BY <1>2, <1>4
    <2>2. s \in Seq(AnyReceiver) BY <1>1, <2>1, IsASeq
    <2> QED BY <1>1, <1>2, <2>2
  <1>6. \A i \in 1 .. n : s[(n - i) + 1] = rs[i] BY <1>3, <1>4
  <1> DEFINE Turned(i) == (n - i) + 1
  <1>7. \A i \in 1 .. n : Turned(i) \in 1 .. n /\ s[i] = rs[Turned(i)] /\ s[Turned(i)] = rs[i]
    BY <1>3, <1>4, <1>6
  <1> HIDE DEF Turned
  <1>8. Channels(s) = {s[i].channel : i \in 1 .. n} BY <1>5 DEF Channels
  <1>9. Channels(rs) = {rs[i].channel : i \in 1 .. n} BY DEF Channels
  <1>10. \A c : c \in Channels(s) <=> c \in Channels(rs)
    <2> HIDE DEF n
    <2> QED BY <1>7, <1>8, <1>9
  <1> QED BY <1>5, <1>10 DEF s

(* Setting a list of receivers, removing one, and turned round.            *)
LEMMA SetAllIs ==
  ASSUME NEW cs, Orderly(cs), NEW rs \in Seq(AnyReceiver)
  PROVE  /\ Orderly(FoldLeft(SetReceiver, cs, rs))
         /\ Channels(FoldLeft(SetReceiver, cs, rs)) = Channels(cs) \cup Channels(rs)
  <1> DEFINE After(u) == Setting!Fold(cs, u)
             S == {u \in Seq(AnyReceiver) :
                      Orderly(After(u)) /\ Channels(After(u)) = Channels(cs) \cup Channels(u)}
  <1>1. <<>> \in S
    <2>1. After(<<>>) = cs BY Setting!FoldEmpty
    <2>2. <<>> \in Seq(AnyReceiver) OBVIOUS
    <2> QED BY <2>1, <2>2, ChannelsNone
  <1>2. ASSUME NEW u \in Seq(AnyReceiver), NEW e \in AnyReceiver, u \in S
        PROVE  Append(u, e) \in S
    <2>1. After(Append(u, e)) = SetReceiver(After(u), e) BY Setting!FoldAppend
    <2>2. Append(u, e) \in Seq(AnyReceiver) BY AppendProperties
    <2>3. PICK x : x = After(u) OBVIOUS
    <2>4. Orderly(x) /\ Channels(x) = Channels(cs) \cup Channels(u) BY <1>2, <2>3
    <2>5. /\ Orderly(SetReceiver(x, e))
          /\ Channels(SetReceiver(x, e)) = Channels(x) \cup {e.channel}
      BY <2>4, SetReceiverIs
    <2>6. Channels(Append(u, e)) = Channels(u) \cup {e.channel} BY ChannelsMore
    <2>7. PICK y : y = SetReceiver(x, e) OBVIOUS
    <2>8. After(Append(u, e)) = y BY <2>1, <2>3, <2>7
    <2>9. Orderly(y) /\ Channels(y) = Channels(cs) \cup Channels(Append(u, e))
      BY <2>4, <2>5, <2>6, <2>7
    <2> QED BY <2>2, <2>8, <2>9
  <1> HIDE DEF S
  <1>3. rs \in S BY <1>1, <1>2, Setting!SeqInduction
  <1>4. FoldLeft(SetReceiver, cs, rs) = After(rs) BY SetFoldIs
  <1> QED BY <1>3, <1>4 DEF S

LEMMA RemovedAre ==
  ASSUME NEW cs, Orderly(cs), NEW rs \in Seq(AnyReceiver)
  PROVE  /\ Orderly(FoldLeft(RemoveReceiver, cs, rs))
         /\ Channels(FoldLeft(RemoveReceiver, cs, rs)) = Channels(cs) \ Channels(rs)
  <1> DEFINE After(u) == Removing!Fold(cs, u)
             S == {u \in Seq(AnyReceiver) :
                      Orderly(After(u)) /\ Channels(After(u)) = Channels(cs) \ Channels(u)}
  <1>1. <<>> \in S
    <2>1. After(<<>>) = cs BY Removing!FoldEmpty
    <2>2. <<>> \in Seq(AnyReceiver) OBVIOUS
    <2> QED BY <2>1, <2>2, ChannelsNone
  <1>2. ASSUME NEW u \in Seq(AnyReceiver), NEW e \in AnyReceiver, u \in S
        PROVE  Append(u, e) \in S
    <2>1. After(Append(u, e)) = RemoveReceiver(After(u), e) BY Removing!FoldAppend
    <2>2. Append(u, e) \in Seq(AnyReceiver) BY AppendProperties
    <2>3. PICK x : x = After(u) OBVIOUS
    <2>4. Orderly(x) /\ Channels(x) = Channels(cs) \ Channels(u) BY <1>2, <2>3
    <2>5. /\ Orderly(RemoveReceiver(x, e))
          /\ Channels(RemoveReceiver(x, e)) = Channels(x) \ {e.channel}
      BY <2>4, RemoveReceiverIs
    <2>6. Channels(Append(u, e)) = Channels(u) \cup {e.channel} BY ChannelsMore
    <2>7. PICK y : y = RemoveReceiver(x, e) OBVIOUS
    <2>8. After(Append(u, e)) = y BY <2>1, <2>3, <2>7
    <2>9. Orderly(y) /\ Channels(y) = Channels(cs) \ Channels(Append(u, e))
      BY <2>4, <2>5, <2>6, <2>7
    <2> QED BY <2>2, <2>8, <2>9
  <1> HIDE DEF S
  <1>3. rs \in S BY <1>1, <1>2, Removing!SeqInduction
  <1>4. FoldLeft(RemoveReceiver, cs, rs) = After(rs) BY RemoveFoldIs
  <1> QED BY <1>3, <1>4 DEF S

LEMMA RemoveAllIs ==
  ASSUME NEW cs, Orderly(cs), NEW rs \in Seq(AnyReceiver)
  PROVE  /\ Orderly(RemoveAll(cs, rs))
         /\ Channels(RemoveAll(cs, rs)) = Channels(cs) \ Channels(rs)
  <1>1. PICK t : t = Reverse(rs) OBVIOUS
  <1>2. t \in Seq(AnyReceiver) /\ Channels(t) = Channels(rs) BY <1>1, ChannelsTurned
  <1>3. RemoveAll(cs, rs) = FoldLeft(RemoveReceiver, cs, t) BY <1>1 DEF RemoveAll
  <1>4. /\ Orderly(FoldLeft(RemoveReceiver, cs, t))
        /\ Channels(FoldLeft(RemoveReceiver, cs, t)) = Channels(cs) \ Channels(t)
    BY <1>2, RemovedAre
  <1> QED BY <1>2, <1>3, <1>4

(* A plugin that is initialised has set its receivers,                     *)
LEMMA InitPluginIs ==
  ASSUME NEW cs, Orderly(cs), NEW rs \in Seq(AnyReceiver)
  PROVE  /\ Orderly(InitPlugin(cs, rs, 0))
         /\ Channels(InitPlugin(cs, rs, 0)) = Channels(cs) \cup Channels(rs)
  <1>1. InitPlugin(cs, rs, 0) = FoldLeft(SetReceiver, cs, rs) BY DEF InitPlugin
  <1> QED BY <1>1, SetAllIs

(* one that failed has added none.                                         *)
LEMMA FailedPluginIs ==
  ASSUME NEW cs, Orderly(cs), NEW rs \in Seq(AnyReceiver), NEW k \in 1 .. Len(rs)
  PROVE  /\ Orderly(InitPlugin(cs, rs, k))
         /\ Channels(InitPlugin(cs, rs, k)) \subseteq Channels(cs)
  <1>1. Len(rs) \in Nat BY LenProperties
  <1>2. PICK done : done = SubSeq(rs, 1, k - 1) OBVIOUS
  <1>3. done \in Seq(AnyReceiver) BY <1>1, <1>2
  <1>4. k # 0 OBVIOUS
  <1>5. PICK x : x = FoldLeft(SetReceiver, cs, done) OBVIOUS
  <1>6. InitPlugin(cs, rs, k) = RemoveAll(x, done) BY <1>2, <1>4, <1>5 DEF InitPlugin
  <1>7. Orderly(x) /\ Channels(x) = Channels(cs) \cup Channels(done) BY <1>3, <1>5, SetAllIs
  <1>8. Orderly(RemoveAll(x, done)) /\ Channels(RemoveAll(x, done)) = Channels(x) \ Channels(done)
    BY <1>3, <1>7, RemoveAllIs
  <1> QED BY <1>6, <1>7, <1>8

(* The plugins of a registry, and the channels of those that run.          *)
Instance == [plugin : DOMAIN Receivers, initialized : BOOLEAN]
OfInstance(inst) == IF inst.initialized THEN Channels(Receivers[inst.plugin]) ELSE {}
Live(is) == UNION {OfInstance(is[i]) : i \in 1 .. Len(is)}

(* One plugin more.                                                        *)
LEMMA LiveMore ==
  ASSUME NEW is \in Seq(Instance), NEW inst \in Instance
  PROVE  Live(Append(is, inst)) = Live(is) \cup OfInstance(inst)
  <1> DEFINE n == Len(is)
             s == Append(is, inst)
  <1>1. n \in Nat BY LenProperties
  <1>2. Len(s) = n + 1 /\ s[n + 1] = inst /\ \A j \in 1 .. n : s[j] = is[j] BY AppendProperties
  <1>3. \A j \in 1 .. n + 1 : j \in 1 .. n \/ j = n + 1 BY <1>1
  <1>4. \A j \in 1 .. n : j \in 1 .. n + 1 BY <1>1
  <1>5. n + 1 \in 1 .. n + 1 BY <1>1
  <1>6. \A c : c \in Live(s) <=> \E j \in 1 .. n + 1 : c \in OfInstance(s[j]) BY <1>2 DEF Live
  <1>7. \A c : c \in Live(is) <=> \E j \in 1 .. n : c \in OfInstance(is[j]) BY DEF Live
  <1> HIDE DEF n, s
  <1>8. \A c : c \in Live(s) <=> c \in Live(is) \/ c \in OfInstance(inst)
    BY <1>2, <1>3, <1>4, <1>5, <1>6, <1>7
  <1>9. Live(s) = Live(is) \cup OfInstance(inst) BY <1>8
  <1> QED BY <1>9 DEF s

(* Initialising and deinitialising one plugin and all of them.             *)
LEMMA InitInstanceIs ==
  ASSUME NEW cs, Orderly(cs), NEW inst \in Instance
  PROVE  /\ Orderly(InitInstance(cs, inst))
         /\ Channels(InitInstance(cs, inst)) = Channels(cs) \cup OfInstance(inst)
  <1>1. inst.plugin \in DOMAIN Receivers BY DEF Instance
  <1>2. PICK rs : rs = Receivers[inst.plugin] OBVIOUS
  <1>3. rs \in Seq(AnyReceiver) BY <1>1, <1>2, ReceiversAre
  <1>4. /\ Orderly(InitPlugin(cs, rs, 0))
        /\ Channels(InitPlugin(cs, rs, 0)) = Channels(cs) \cup Channels(rs)
    BY <1>3, InitPluginIs
  <1> QED BY <1>2, <1>4 DEF InitInstance, OfInstance

LEMMA DeinitInstanceIs ==
  ASSUME NEW cs, Orderly(cs), NEW inst \in Instance
  PROVE  /\ Orderly(DeinitInstance(cs, inst))
         /\ Channels(DeinitInstance(cs, inst)) = Channels(cs) \ OfInstance(inst)
  <1>1. inst.plugin \in DOMAIN Receivers BY DEF Instance
  <1>2. PICK rs : rs = Receivers[inst.plugin] OBVIOUS
  <1>3. rs \in Seq(AnyReceiver) BY <1>1, <1>2, ReceiversAre
  <1>4. /\ Orderly(RemoveAll(cs, rs))
        /\ Channels(RemoveAll(cs, rs)) = Channels(cs) \ Channels(rs)
    BY <1>3, RemoveAllIs
  <1> QED BY <1>2, <1>4 DEF DeinitInstance, DeinitPlugin, OfInstance

LEMMA StartedAre ==
  ASSUME NEW cs, Orderly(cs), NEW is \in Seq(Instance)
  PROVE  /\ Orderly(FoldLeft(InitInstance, cs, is))
         /\ Channels(FoldLeft(InitInstance, cs, is)) = Channels(cs) \cup Live(is)
  <1> DEFINE After(u) == Starting!Fold(cs, u)
             S == {u \in Seq(Instance) :
                      Orderly(After(u)) /\ Channels(After(u)) = Channels(cs) \cup Live(u)}
  <1>1. <<>> \in S
    <2>1. After(<<>>) = cs BY Starting!FoldEmpty
    <2>2. <<>> \in Seq(Instance) /\ Live(<<>>) = {} BY DEF Live
    <2> QED BY <2>1, <2>2
  <1>2. ASSUME NEW u \in Seq(Instance), NEW e \in Instance, u \in S
        PROVE  Append(u, e) \in S
    <2>1. After(Append(u, e)) = InitInstance(After(u), e) BY Starting!FoldAppend
    <2>2. Append(u, e) \in Seq(Instance) BY AppendProperties
    <2>3. PICK x : x = After(u) OBVIOUS
    <2>4. Orderly(x) /\ Channels(x) = Channels(cs) \cup Live(u) BY <1>2, <2>3
    <2>5. /\ Orderly(InitInstance(x, e))
          /\ Channels(InitInstance(x, e)) = Channels(x) \cup OfInstance(e)
      BY <2>4, InitInstanceIs
    <2>6. Live(Append(u, e)) = Live(u) \cup OfInstance(e) BY LiveMore
    <2>7. PICK y : y = InitInstance(x, e) OBVIOUS
    <2>8. After(Append(u, e)) = y BY <2>1, <2>3, <2>7
    <2>9. Orderly(y) /\ Channels(y) = Channels(cs) \cup Live(Append(u, e))
      BY <2>4, <2>5, <2>6, <2>7
    <2> QED BY <2>2, <2>8, <2>9
  <1> HIDE DEF S
  <1>3. is \in S BY <1>1, <1>2, Starting!SeqInduction
  <1>4. FoldLeft(InitInstance, cs, is) = After(is) BY InitFoldIs
  <1> QED BY <1>3, <1>4 DEF S

LEMMA StoppedAre ==
  ASSUME NEW cs, Orderly(cs), NEW is \in Seq(Instance)
  PROVE  /\ Orderly(EnsurePluginsDeinitialized(cs, is))
         /\ Channels(EnsurePluginsDeinitialized(cs, is)) = Channels(cs) \ Live(is)
  <1> DEFINE After(u) == Stopping!Fold(cs, u)
             S == {u \in Seq(Instance) :
                      Orderly(After(u)) /\ Channels(After(u)) = Channels(cs) \ Live(u)}
  <1>1. <<>> \in S
    <2>1. After(<<>>) = cs BY Stopping!FoldEmpty
    <2>2. <<>> \in Seq(Instance) /\ Live(<<>>) = {} BY DEF Live
    <2> QED BY <2>1, <2>2
  <1>2. ASSUME NEW u \in Seq(Instance), NEW e \in Instance, u \in S
        PROVE  Append(u, e) \in S
    <2>1. After(Append(u, e)) = DeinitInstance(After(u), e) BY Stopping!FoldAppend
    <2>2. Append(u, e) \in Seq(Instance) BY AppendProperties
    <2>3. PICK x : x = After(u) OBVIOUS
    <2>4. Orderly(x) /\ Channels(x) = Channels(cs) \ Live(u) BY <1>2, <2>3
    <2>5. /\ Orderly(DeinitInstance(x, e))
          /\ Channels(DeinitInstance(x, e)) = Channels(x) \ OfInstance(e)
      BY <2>4, DeinitInstanceIs
    <2>6. Live(Append(u, e)) = Live(u) \cup OfInstance(e) BY LiveMore
    <2>7. PICK y : y = DeinitInstance(x, e) OBVIOUS
    <2>8. After(Append(u, e)) = y BY <2>1, <2>3, <2>7
    <2>9. Orderly(y) /\ Channels(y) = Channels(cs) \ Live(Append(u, e))
      BY <2>4, <2>5, <2>6, <2>7
    <2> QED BY <2>2, <2>8, <2>9
  <1> HIDE DEF S
  <1>3. is \in S BY <1>1, <1>2, Stopping!SeqInduction
  <1>4. EnsurePluginsDeinitialized(cs, is) = After(is)
    BY DeinitFoldIs DEF EnsurePluginsDeinitialized
  <1> QED BY <1>3, <1>4 DEF S

(* As many channels as receivers.                                          *)
LEMMA OneEach ==
  ASSUME NEW cs, Orderly(cs)
  PROVE  Cardinality(Channels(cs)) = Len(cs)
  <1> DEFINE n == Len(cs)
             S == Channels(cs)
             f == [i \in 1 .. n |-> cs[i].channel]
  <1>1. n \in Nat BY LenProperties DEF Orderly
  <1>2. f \in [1 .. n -> S] BY DEF Channels
  <1>3. \A i, j \in 1 .. n : f[i] = f[j] => i = j BY DEF Orderly, Distinct
  <1>4. \A c \in S : \E i \in 1 .. n : f[i] = c BY DEF Channels
  <1> HIDE DEF n, S, f
  <1>5. ExistsBijection(1 .. n, S)
    BY <1>2, <1>3, <1>4 DEF ExistsBijection, Bijection, Injection, Surjection, IsInjective
  <1>6. Cardinality(S) = n BY <1>1, <1>5, FS_CountingElements
  <1> QED BY <1>6 DEF n, S

(* What no plugin owns is a player's.                                      *)
LEMMA OursOnly ==
  ASSUME NEW is \in Seq(Instance)
  PROVE  PlayerChannel \notin Live(is)
  <1>1. SUFFICES ASSUME NEW i \in 1 .. Len(is), PlayerChannel \in OfInstance(is[i]) PROVE FALSE
    BY DEF Live
  <1>2. is[i] \in Instance BY ElementOfSeq
  <1>3. is[i].plugin \in DOMAIN Receivers BY <1>2 DEF Instance
  <1>4. PICK rs : rs = Receivers[is[i].plugin] OBVIOUS
  <1>5. rs \in Seq(PluginReceiver) BY <1>3, <1>4, ReceiversAre
  <1>6. PlayerChannel \in Channels(rs) BY <1>1, <1>4 DEF OfInstance
  <1>7. PICK j \in 1 .. Len(rs) : rs[j].channel = PlayerChannel BY <1>6 DEF Channels
  <1>8. rs[j] \in PluginReceiver BY <1>5, ElementOfSeq
  <1> QED BY <1>7, <1>8, PlayerApart DEF PluginReceiver

(* The types; the static list matters until the registry is made.          *)
RegistryTypeOK ==
    /\ registry \in [phase : {"none", "new", "running", "failed", "destroyed"},
                     instances : Seq(Instance), callbacks : Seq(AnyReceiver)]
    /\ audio \in 0 .. 1
    /\ registry.phase = "none" => static \in Seq(Plugins)

(* The receivers are those of the running plugins, the players' apart.     *)
ReceiversFit ==
    /\ Distinct(registry.callbacks)
    /\ Channels(registry.callbacks) \ {PlayerChannel} = Live(registry.instances)

(* The player's receiver is there while the player is, and may be left     *)
(* behind when the registry is destroyed.                                  *)
PlayerFits ==
    /\ audio = 1 => PlayerChannel \in Channels(registry.callbacks) /\ registry.phase = "running"
    /\ PlayerChannel \in Channels(registry.callbacks) /\ audio = 0 => registry.phase = "destroyed"

(* A registry that is not running has no receivers, but for that one.      *)
NoneBefore ==
    registry.phase \in {"none", "new", "failed"} => Channels(registry.callbacks) = {}

ReceiversInv == RegistryTypeOK /\ ReceiversFit /\ PlayerFits /\ NoneBefore

(* At the start there is no registry.                                      *)
LEMMA RegistryInit == ReceiversInit => ReceiversInv
  <1> SUFFICES ASSUME ReceiversInit PROVE ReceiversInv OBVIOUS
  <1>1. static = <<>> /\ registry = NoRegistry /\ audio = 0 BY DEF ReceiversInit
  <1>2. /\ registry.phase = "none" /\ registry.instances = <<>> /\ registry.callbacks = <<>>
        /\ registry = [phase |-> registry.phase, instances |-> registry.instances,
                       callbacks |-> registry.callbacks]
    BY <1>1 DEF NoRegistry
  <1>3. <<>> \in Seq(Instance) /\ <<>> \in Seq(AnyReceiver) /\ <<>> \in Seq(Plugins) OBVIOUS
  <1>4. RegistryTypeOK
    <2>1. /\ registry.phase \in {"none", "new", "running", "failed", "destroyed"}
          /\ registry.instances \in Seq(Instance) /\ registry.callbacks \in Seq(AnyReceiver)
      BY <1>2, <1>3
    <2>2. registry \in [phase : {"none", "new", "running", "failed", "destroyed"},
                        instances : Seq(Instance), callbacks : Seq(AnyReceiver)]
      BY <1>2, <2>1
    <2>3. audio \in 0 .. 1 /\ static \in Seq(Plugins) BY <1>1, <1>3
    <2> QED BY <2>2, <2>3 DEF RegistryTypeOK
  <1>5. Channels(<<>>) = {} /\ Live(<<>>) = {} /\ Distinct(<<>>) BY DEF Channels, Live, Distinct
  <1>6. ReceiversFit BY <1>2, <1>5 DEF ReceiversFit
  <1>7. PlayerFits /\ NoneBefore BY <1>1, <1>2, <1>5 DEF PlayerFits, NoneBefore
  <1> QED BY <1>4, <1>6, <1>7 DEF ReceiversInv

(* The parts of the invariant used in every step.                          *)
LEMMA RegistryKept ==
  ASSUME ReceiversInv
  PROVE  /\ registry.instances \in Seq(Instance) /\ Orderly(registry.callbacks)
         /\ registry = [phase |-> registry.phase, instances |-> registry.instances,
                        callbacks |-> registry.callbacks]
         /\ audio \in 0 .. 1
         /\ registry.phase \in {"none", "new", "running", "failed", "destroyed"}
  BY DEF ReceiversInv, RegistryTypeOK, ReceiversFit, Orderly

(* The instances when some of them are initialised.                        *)
LEMMA StartedInstances ==
  ASSUME ReceiversInv, NEW failing, NEW na
  PROVE  Started(failing, na) \in Seq(Instance)
  <1> DEFINE is == registry.instances
             n == Len(is)
             s == Started(failing, na)
  <1>1. is \in Seq(Instance) BY RegistryKept
  <1>2. n \in Nat /\ \A i \in 1 .. n : is[i] \in Instance BY <1>1, LenProperties, ElementOfSeq
  <1>3. ASSUME NEW i \in 1 .. n PROVE s[i] \in Instance
    <2>1. PICK b \in BOOLEAN :
             b = (is[i].plugin \notin na /\ (failing # 0 => i < failing))
      OBVIOUS
    <2>2. s[i] = [is[i] EXCEPT !.initialized = b] BY <2>1 DEF Started
    <2>3. is[i] \in Instance BY <1>2
    <2> QED BY <2>2, <2>3 DEF Instance
  <1>4. s = [i \in 1 .. n |-> s[i]] BY DEF Started
  <1> HIDE DEF s
  <1>5. s \in [1 .. n -> Instance] BY <1>3, <1>4
  <1>6. s \in Seq(Instance) BY <1>2, <1>5, IsASeq
  <1> QED BY <1>6 DEF s

(* A new registry has instances of which none is initialised.              *)
LEMMA RegistryNew ==
  ASSUME ReceiversInv, NewRegistry
  PROVE  ReceiversInv'
  <1>1. /\ registry.phase = "none" /\ static' = static /\ audio' = audio
        /\ registry' = [phase |-> "new", callbacks |-> <<>>,
                        instances |-> AddPluginsFromStaticRegistry]
    BY DEF NewRegistry
  <1>2. static \in Seq(Plugins) /\ audio \in 0 .. 1 BY <1>1 DEF ReceiversInv, RegistryTypeOK
  <1> DEFINE s == AddPluginsFromStaticRegistry
             n == Len(static)
  <1>3. n \in Nat /\ \A i \in 1 .. n : static[i] \in Plugins BY <1>2, LenProperties, ElementOfSeq
  <1>4. \A i \in 1 .. n : /\ s[i] = [plugin |-> static[i], initialized |-> FALSE]
                          /\ s[i] \in Instance /\ OfInstance(s[i]) = {}
    BY <1>3, KnownPlugins DEF AddPluginsFromStaticRegistry, Instance, OfInstance
  <1>5. s = [i \in 1 .. n |-> s[i]] BY DEF AddPluginsFromStaticRegistry
  <1> HIDE DEF s
  <1>6. s \in [1 .. n -> Instance] BY <1>4, <1>5
  <1>7. s \in Seq(Instance) /\ Len(s) = n BY <1>3, <1>5, <1>6, IsASeq
  <1>8. Live(s) = {} BY <1>4, <1>7 DEF Live
  <1>9. /\ registry'.phase = "new" /\ registry'.instances = s /\ registry'.callbacks = <<>>
        /\ registry' = [phase |-> "new", instances |-> s, callbacks |-> <<>>]
    BY <1>1 DEF s
  <1>10. <<>> \in Seq(AnyReceiver) OBVIOUS
  <1>11. RegistryTypeOK' BY <1>1, <1>2, <1>7, <1>9, <1>10 DEF RegistryTypeOK
  <1>12. Channels(<<>>) = {} /\ Distinct(<<>>) BY DEF Channels, Distinct
  <1>13. ReceiversFit' BY <1>8, <1>9, <1>12 DEF ReceiversFit
  <1>14. audio = 0
    BY <1>1, <1>2 DEF ReceiversInv, PlayerFits
  <1>15. PlayerFits' /\ NoneBefore' BY <1>1, <1>9, <1>12, <1>14 DEF PlayerFits, NoneBefore
  <1> QED BY <1>11, <1>13, <1>15 DEF ReceiversInv

(* All plugins are initialised, or one fails and none is left.             *)
LEMMA RegistryStarted ==
  ASSUME ReceiversInv, EnsurePluginsInitialized
  PROVE  ReceiversInv'
  <1>1. registry.phase = "new" /\ static' = static /\ audio' = audio
    BY DEF EnsurePluginsInitialized
  <1>2. /\ registry.instances \in Seq(Instance) /\ Orderly(registry.callbacks) /\ audio \in 0 .. 1
        /\ registry = [phase |-> registry.phase, instances |-> registry.instances,
                       callbacks |-> registry.callbacks]
    BY RegistryKept
  <1>3. audio = 0 BY <1>1, <1>2 DEF ReceiversInv, PlayerFits
  <1>4. Live(registry.instances) = {}
    BY <1>1 DEF ReceiversInv, NoneBefore, ReceiversFit
  <1>5. PICK failing \in 0 .. Len(registry.instances), na \in SUBSET {"test", "charset"} :
          LET started == Started(failing, na)
              set == FoldLeft(InitInstance, <<>>, started)
          IN  \/ /\ failing = 0
                 /\ registry' = [phase |-> "running", callbacks |-> set, instances |-> started]
              \/ /\ failing # 0
                 /\ LET rs == Receivers[registry.instances[failing].plugin]
                    IN  \E k \in 1 .. Len(rs) :
                           registry' = [registry EXCEPT
                               !.phase = "failed",
                               !.callbacks =
                                   EnsurePluginsDeinitialized(InitPlugin(set, rs, k), started)]
    BY DEF EnsurePluginsInitialized
  <1>6. PICK started : started = Started(failing, na) OBVIOUS
  <1>7. PICK set : set = FoldLeft(InitInstance, <<>>, started) OBVIOUS
  <1>8. started \in Seq(Instance) BY <1>6, StartedInstances
  <1>9. Orderly(<<>>) /\ Channels(<<>>) = {} BY DEF Orderly, Distinct, Channels
  <1>10. Orderly(set) /\ Channels(set) = Live(started)
    <2>1. PICK none : none = <<>> OBVIOUS
    <2>2. Orderly(none) /\ Channels(none) = {} BY <1>9, <2>1
    <2>3. /\ Orderly(FoldLeft(InitInstance, none, started))
          /\ Channels(FoldLeft(InitInstance, none, started)) = Channels(none) \cup Live(started)
      BY <1>8, <2>2, StartedAre
    <2>4. set = FoldLeft(InitInstance, none, started) BY <1>7, <2>1
    <2> QED BY <2>2, <2>3, <2>4
  <1>11. PlayerChannel \notin Live(started) BY <1>8, OursOnly
  <1>12. CASE failing = 0
    <2>1. registry' = [phase |-> "running", callbacks |-> set, instances |-> started]
      BY <1>5, <1>6, <1>7, <1>12
    <2>2. /\ registry'.phase = "running" /\ registry'.instances = started
          /\ registry'.callbacks = set
      BY <2>1
    <2>3. RegistryTypeOK' BY <1>1, <1>2, <1>8, <1>10, <2>1, <2>2 DEF RegistryTypeOK, Orderly
    <2>4. ReceiversFit' BY <1>10, <1>11, <2>2 DEF ReceiversFit, Orderly
    <2>5. PlayerFits' /\ NoneBefore' BY <1>1, <1>3, <1>10, <1>11, <2>2 DEF PlayerFits, NoneBefore
    <2> QED BY <2>3, <2>4, <2>5 DEF ReceiversInv
  <1>13. CASE failing # 0
    <2>1. PICK rs : rs = Receivers[registry.instances[failing].plugin] OBVIOUS
    <2>2. PICK k \in 1 .. Len(rs) :
            registry' = [registry EXCEPT !.phase = "failed",
                !.callbacks = EnsurePluginsDeinitialized(InitPlugin(set, rs, k), started)]
      BY <1>5, <1>6, <1>7, <1>13, <2>1
    <2>3. rs \in Seq(AnyReceiver)
      <3>1. failing \in 1 .. Len(registry.instances) BY <1>13
      <3>2. registry.instances[failing] \in Instance BY <1>2, <3>1, ElementOfSeq
      <3>3. registry.instances[failing].plugin \in DOMAIN Receivers BY <3>2 DEF Instance
      <3> QED BY <2>1, <3>3, ReceiversAre
    <2>4. PICK x : x = InitPlugin(set, rs, k) OBVIOUS
    <2>5. Orderly(x) /\ Channels(x) \subseteq Live(started)
      <3>1. /\ Orderly(InitPlugin(set, rs, k))
            /\ Channels(InitPlugin(set, rs, k)) \subseteq Channels(set)
        BY <1>10, <2>3, FailedPluginIs
      <3> QED BY <1>10, <2>4, <3>1
    <2>6. PICK y : y = EnsurePluginsDeinitialized(x, started) OBVIOUS
    <2>7. Orderly(y) /\ Channels(y) = {}
      <3>1. /\ Orderly(EnsurePluginsDeinitialized(x, started))
            /\ Channels(EnsurePluginsDeinitialized(x, started)) = Channels(x) \ Live(started)
        BY <1>8, <2>5, StoppedAre
      <3> QED BY <2>5, <2>6, <3>1
    <2>8. registry' = [registry EXCEPT !.phase = "failed", !.callbacks = y] BY <2>2, <2>4, <2>6
    <2>9. registry' = [phase |-> "failed", instances |-> registry.instances, callbacks |-> y]
      BY <1>2, <2>8
    <2>10. /\ registry'.phase = "failed" /\ registry'.instances = registry.instances
           /\ registry'.callbacks = y
      BY <2>9
    <2>11. RegistryTypeOK' BY <1>1, <1>2, <2>7, <2>9, <2>10 DEF RegistryTypeOK, Orderly
    <2>12. ReceiversFit' BY <1>4, <2>7, <2>10 DEF ReceiversFit, Orderly
    <2>13. PlayerFits' /\ NoneBefore' BY <1>1, <1>3, <2>7, <2>10 DEF PlayerFits, NoneBefore
    <2> QED BY <2>11, <2>12, <2>13 DEF ReceiversInv
  <1> QED BY <1>12, <1>13

(* The end of the registry leaves at most a player's receiver.             *)
LEMMA RegistryDestroyed ==
  ASSUME ReceiversInv, DestroyRegistry
  PROVE  ReceiversInv'
  <1> DEFINE is == registry.instances
             n == Len(is)
             s == [i \in 1 .. n |-> [is[i] EXCEPT !.initialized = FALSE]]
  <1>1. PICK y : y = EnsurePluginsDeinitialized(registry.callbacks, is) OBVIOUS
  <1>2. /\ registry' = [phase |-> "destroyed", callbacks |-> y, instances |-> s]
        /\ audio' = 0
    BY <1>1 DEF DestroyRegistry
  <1>3. is \in Seq(Instance) /\ Orderly(registry.callbacks) BY RegistryKept
  <1>4. n \in Nat /\ \A i \in 1 .. n : is[i] \in Instance BY <1>3, LenProperties, ElementOfSeq
  <1>5. \A i \in 1 .. n : s[i] \in Instance /\ OfInstance(s[i]) = {}
    BY <1>4 DEF Instance, OfInstance
  <1>6. s = [i \in 1 .. n |-> s[i]] OBVIOUS
  <1> HIDE DEF s
  <1>7. s \in [1 .. n -> Instance] BY <1>5, <1>6
  <1>8. s \in Seq(Instance) /\ Len(s) = n BY <1>4, <1>6, <1>7, IsASeq
  <1>9. Live(s) = {} BY <1>5, <1>8 DEF Live
  <1>10. Orderly(y) /\ Channels(y) = Channels(registry.callbacks) \ Live(is)
    BY <1>1, <1>3, StoppedAre
  <1>11. Channels(y) \subseteq {PlayerChannel}
    BY <1>10 DEF ReceiversInv, ReceiversFit
  <1>12. /\ registry'.phase = "destroyed" /\ registry'.instances = s /\ registry'.callbacks = y
    BY <1>2
  <1>13. RegistryTypeOK' BY <1>2, <1>8, <1>10, <1>12 DEF RegistryTypeOK, Orderly
  <1>14. ReceiversFit' BY <1>9, <1>10, <1>11, <1>12 DEF ReceiversFit, Orderly
  <1>15. PlayerFits' /\ NoneBefore' BY <1>2, <1>12 DEF PlayerFits, NoneBefore
  <1> QED BY <1>13, <1>14, <1>15 DEF ReceiversInv

(* Another list of receivers that differs in the player's at most.         *)
LEMMA PlayerChanged ==
  ASSUME ReceiversInv, registry.phase = "running", NEW y, Orderly(y), NEW a \in 0 .. 1,
         registry' = [registry EXCEPT !.callbacks = y], audio' = a,
         Channels(y) \ {PlayerChannel} = Channels(registry.callbacks) \ {PlayerChannel},
         PlayerChannel \in Channels(y) <=> a = 1
  PROVE  ReceiversInv'
  <1>1. registry.instances \in Seq(Instance)
        /\ registry = [phase |-> registry.phase, instances |-> registry.instances,
                       callbacks |-> registry.callbacks]
    BY RegistryKept
  <1>2. registry' = [phase |-> "running", instances |-> registry.instances, callbacks |-> y]
    BY <1>1
  <1>3. /\ registry'.phase = "running" /\ registry'.instances = registry.instances
        /\ registry'.callbacks = y
    BY <1>2
  <1>4. RegistryTypeOK' BY <1>1, <1>2, <1>3 DEF RegistryTypeOK, Orderly
  <1>5. ReceiversFit' BY <1>3 DEF ReceiversInv, ReceiversFit, Orderly
  <1>6. PlayerFits' /\ NoneBefore' BY <1>3 DEF PlayerFits, NoneBefore
  <1> QED BY <1>4, <1>5, <1>6 DEF ReceiversInv

(* The receiver of a player.                                               *)
LEMMA PlayerReceiver ==
  V1(PlayerChannel) \in AnyReceiver /\ V1(PlayerChannel).channel = PlayerChannel
  BY DEF V1, AnyReceiver

(* The list of static plugins matters only before the registry exists.     *)
LEMMA RegistryUnchanged ==
  ASSUME ReceiversInv, registry' = registry, audio' = audio,
         registry.phase = "none" => static' \in Seq(Plugins)
  PROVE  ReceiversInv'
  BY DEF ReceiversInv, RegistryTypeOK, ReceiversFit, PlayerFits, NoneBefore

(* A player that is opened brings its receiver,                            *)
LEMMA PlayerCreated ==
  ASSUME ReceiversInv, CreateAudioPlayer
  PROVE  ReceiversInv'
  <1>1. registry.phase = "running" /\ static' = static BY DEF CreateAudioPlayer
  <1>2. CASE audio' = audio /\ registry' = registry BY <1>1, <1>2, RegistryUnchanged
  <1>3. CASE /\ audio' = 1
             /\ registry' = [registry EXCEPT
                               !.callbacks = SetReceiver(@, V1(PlayerChannel))]
    <2>1. PICK y : y = SetReceiver(registry.callbacks, V1(PlayerChannel)) OBVIOUS
    <2>2. registry' = [registry EXCEPT !.callbacks = y] BY <1>3, <2>1
    <2>3. Orderly(registry.callbacks) BY RegistryKept
    <2>4. Orderly(y) /\ Channels(y) = Channels(registry.callbacks) \cup {PlayerChannel}
      BY <2>1, <2>3, PlayerReceiver, SetReceiverIs
    <2>5. PICK a \in 0 .. 1 : a = 1 OBVIOUS
    <2>6. /\ Channels(y) \ {PlayerChannel} = Channels(registry.callbacks) \ {PlayerChannel}
          /\ PlayerChannel \in Channels(y) <=> a = 1
          /\ audio' = a
      BY <1>3, <2>4, <2>5
    <2> QED BY <1>1, <2>2, <2>4, <2>6, PlayerChanged
  <1> QED BY <1>2, <1>3 DEF CreateAudioPlayer

(* and takes it along.                                                     *)
LEMMA PlayerDisposed ==
  ASSUME ReceiversInv, DisposeAudioPlayer
  PROVE  ReceiversInv'
  <1>1. registry.phase = "running" BY DEF DisposeAudioPlayer
  <1>2. PICK y : y = RemoveReceiver(registry.callbacks, V1(PlayerChannel)) OBVIOUS
  <1>3. registry' = [registry EXCEPT !.callbacks = y] BY <1>2 DEF DisposeAudioPlayer
  <1>4. Orderly(registry.callbacks) BY RegistryKept
  <1>5. Orderly(y) /\ Channels(y) = Channels(registry.callbacks) \ {PlayerChannel}
    BY <1>2, <1>4, PlayerReceiver, RemoveReceiverIs
  <1>6. PICK a \in 0 .. 1 : a = 0 OBVIOUS
  <1>7. /\ Channels(y) \ {PlayerChannel} = Channels(registry.callbacks) \ {PlayerChannel}
        /\ PlayerChannel \in Channels(y) <=> a = 1
        /\ audio' = a
    BY <1>5, <1>6 DEF DisposeAudioPlayer
  <1> QED BY <1>1, <1>3, <1>5, <1>7, PlayerChanged

(* Every step keeps it.                                                    *)
LEMMA RegistryStep == ReceiversInv /\ [ReceiversNext]_receiverVars => ReceiversInv'
  <1> SUFFICES ASSUME ReceiversInv, [ReceiversNext]_receiverVars PROVE ReceiversInv' OBVIOUS
  <1>1. ASSUME NEW p \in Plugins, StaticAdd(p) PROVE ReceiversInv'
    <2>1. /\ registry.phase = "none" /\ registry' = registry /\ audio' = audio
          /\ static' = Append(static, p)
      BY <1>1 DEF StaticAdd
    <2>2. static \in Seq(Plugins) BY <2>1 DEF ReceiversInv, RegistryTypeOK
    <2>3. static' \in Seq(Plugins) BY <2>1, <2>2, AppendProperties
    <2> QED BY <2>1, <2>3, RegistryUnchanged
  <1>2. ASSUME NEW p \in Plugins, StaticRemove(p) PROVE ReceiversInv'
    <2>1. registry.phase = "destroyed" /\ registry' = registry /\ audio' = audio
      BY <1>2 DEF StaticRemove
    <2> QED BY <2>1, RegistryUnchanged
  <1>3. CASE NewRegistry BY <1>3, RegistryNew
  <1>4. CASE EnsurePluginsInitialized BY <1>4, RegistryStarted
  <1>5. CASE DestroyRegistry BY <1>5, RegistryDestroyed
  <1>6. CASE CreateAudioPlayer BY <1>6, PlayerCreated
  <1>7. CASE DisposeAudioPlayer BY <1>7, PlayerDisposed
  <1>8. CASE UNCHANGED receiverVars
    <2>1. registry' = registry /\ audio' = audio /\ static' = static BY <1>8 DEF receiverVars
    <2>2. registry.phase = "none" => static \in Seq(Plugins) BY DEF ReceiversInv, RegistryTypeOK
    <2> QED BY <2>1, <2>2, RegistryUnchanged
  <1> QED BY <1>1, <1>2, <1>3, <1>4, <1>5, <1>6, <1>7, <1>8 DEF ReceiversNext

(* ReceiversSpec keeps ReceiversInv: no channel has two receivers, and the *)
(* receivers are those of the initialised plugins and of the open player.  *)
THEOREM ReceiversCorrect == ReceiversSpec => []ReceiversInv
  <1>1. ReceiversInit => ReceiversInv BY RegistryInit
  <1>2. ReceiversInv /\ [ReceiversNext]_receiverVars => ReceiversInv' BY RegistryStep
  <1> QED BY <1>1, <1>2, PTL DEF ReceiversSpec

(* ReceiversMatchPlugins: for any list of plugins, at whichever receiver   *)
(* of whichever plugin the initialisation fails.                           *)
THEOREM ReceiversFollow == ReceiversSpec => []ReceiversMatchPlugins
  <1>1. ReceiversInv => ReceiversMatchPlugins
    <2> SUFFICES ASSUME ReceiversInv PROVE ReceiversMatchPlugins OBVIOUS
    <2> DEFINE is == registry.instances
               live == {i \in 1 .. Len(is) : is[i].initialized}
               expected == UNION {Channels(Receivers[is[i].plugin]) : i \in live}
    <2>1. expected = Live(is)
      <3>1. \A c : c \in Live(is) <=> \E i \in 1 .. Len(is) : c \in OfInstance(is[i]) BY DEF Live
      <3>2. \A c : c \in expected <=>
                \E i \in 1 .. Len(is) : is[i].initialized /\ c \in Channels(Receivers[is[i].plugin])
        OBVIOUS
      <3>3. \A c : \A i \in 1 .. Len(is) : c \in OfInstance(is[i]) <=>
                is[i].initialized /\ c \in Channels(Receivers[is[i].plugin])
        BY DEF OfInstance
      <3> HIDE DEF expected, is
      <3> QED BY <3>1, <3>2, <3>3
    <2>2. Cardinality(Channels(registry.callbacks)) = Len(registry.callbacks)
      BY RegistryKept, OneEach
    <2> QED BY <2>1, <2>2 DEF ReceiversMatchPlugins, ReceiversInv, ReceiversFit, PlayerFits
  <1> QED BY <1>1, ReceiversCorrect, PTL
-----------------------------------------------------------------------------
(* What an exchange may hold.                                              *)
Replies == {NoAnswer} \cup {Received(ResponseCodec(o), a) : o \in Objects, a \in Answers}
ExchangeTypes ==
    [object : Objects, asks : BOOLEAN, task : {"none", "posted"},
     buffer : {"freed", "borrowed", "lost"}, handle : {"none", "engine", "released"},
     handler : {"none", "live", "freed", "lost"}, ok : BOOLEAN, called : 0 .. 1, sent : BOOLEAN,
     answer : Replies]

(* Nobody but the engine has the handle of a call that is under way.       *)
ExchangeOK(e) ==
    /\ e.called = 1 => e.asks /\ e.sent /\ e.ok
    /\ e.handle = "engine" <=> e.handler = "live"
    /\ e.handle = "engine" => e.asks /\ e.sent /\ e.ok /\ e.called = 0 /\ e.task = "none"
    /\ e.task = "posted" => e.ok /\ e.called = 0
    /\ ~e.ok => e.handler \in {"none", "freed"} /\ ~e.sent
    /\ e.answer # NoAnswer => e.handle = "released"

ExchangesInv ==
    exchanges \in Seq(ExchangeTypes) /\ \A x \in 1 .. Len(exchanges) : ExchangeOK(exchanges[x])

(* A new exchange.                                                         *)
LEMMA ExchangeAdded ==
  ASSUME ExchangesInv, NEW e \in ExchangeTypes, ExchangeOK(e), exchanges' = Append(exchanges, e)
  PROVE  ExchangesInv'
  <1>1. PICK n : n = Len(exchanges) OBVIOUS
  <1>2. exchanges \in Seq(ExchangeTypes) /\ n \in Nat BY <1>1, LenProperties DEF ExchangesInv
  <1>3. /\ exchanges' \in Seq(ExchangeTypes) /\ Len(exchanges') = n + 1 /\ exchanges'[n + 1] = e
        /\ \A x \in 1 .. n : exchanges'[x] = exchanges[x]
    BY <1>1, <1>2, AppendProperties
  <1>4. \A x \in 1 .. n + 1 : x \in 1 .. n \/ x = n + 1 BY <1>2
  <1>5. \A x \in 1 .. Len(exchanges') : ExchangeOK(exchanges'[x])
    BY <1>1, <1>3, <1>4 DEF ExchangesInv
  <1> QED BY <1>3, <1>5 DEF ExchangesInv, ExchangeOK

(* One exchange changes.                                                   *)
LEMMA ExchangeChanged ==
  ASSUME ExchangesInv, NEW x \in 1 .. Len(exchanges), NEW e \in ExchangeTypes, ExchangeOK(e),
         exchanges' = [exchanges EXCEPT ![x] = e]
  PROVE  ExchangesInv'
  <1>1. exchanges \in Seq(ExchangeTypes) BY DEF ExchangesInv
  <1>2. /\ exchanges' \in Seq(ExchangeTypes) /\ Len(exchanges') = Len(exchanges)
        /\ exchanges'[x] = e
        /\ \A y \in 1 .. Len(exchanges) : y # x => exchanges'[y] = exchanges[y]
    BY <1>1, ExceptSeq
  <1>3. \A y \in 1 .. Len(exchanges') : ExchangeOK(exchanges'[y]) BY <1>2 DEF ExchangesInv
  <1> QED BY <1>2, <1>3 DEF ExchangesInv, ExchangeOK

(* What platch_send starts an exchange with.                               *)
Begins(e, asks, task, handle, handler, ok, sent) ==
    /\ e \in ExchangeTypes /\ e.asks = asks /\ e.task = task /\ e.handle = handle
    /\ e.handler = handler /\ e.ok = ok /\ e.called = 0 /\ e.sent = sent /\ e.answer = NoAnswer

(* A new exchange, and the same one sent or not.                           *)
Starts(x, o, asks, task, buffer, handle, handler, ok) ==
    /\ o \in Objects /\ asks \in BOOLEAN /\ task \in {"none", "posted"}
    /\ buffer \in {"freed", "borrowed", "lost"} /\ handle \in {"none", "engine", "released"}
    /\ handler \in {"none", "live", "freed", "lost"} /\ ok \in BOOLEAN
    /\ x = Exchange(o, asks, task, buffer, handle, handler, ok)
GoesOut(e, x, sent) == sent \in BOOLEAN /\ e = [x EXCEPT !.sent = sent]

LEMMA ExchangeIs ==
  ASSUME NEW x, NEW o, NEW asks, NEW task, NEW buffer, NEW handle, NEW handler, NEW ok,
         Starts(x, o, asks, task, buffer, handle, handler, ok)
  PROVE  Begins(x, asks, task, handle, handler, ok, FALSE)
  <1>1. x = [object |-> o, asks |-> asks, task |-> task, buffer |-> buffer, handle |-> handle,
             handler |-> handler, ok |-> ok, called |-> 0, sent |-> FALSE, answer |-> NoAnswer]
    BY DEF Starts, Exchange
  <1>2. NoAnswer \in Replies /\ 0 \in 0 .. 1 BY DEF Replies
  <1>3. x \in ExchangeTypes BY <1>1, <1>2 DEF Starts, ExchangeTypes
  <1>4. /\ x.asks = asks /\ x.task = task /\ x.handle = handle /\ x.handler = handler /\ x.ok = ok
        /\ x.called = 0 /\ x.sent = FALSE /\ x.answer = NoAnswer
    BY <1>1
  <1> QED BY <1>3, <1>4 DEF Begins

LEMMA ExchangeSent ==
  ASSUME NEW e, NEW x, NEW asks, NEW task, NEW handle, NEW handler, NEW ok, NEW sent,
         Begins(x, asks, task, handle, handler, ok, FALSE), GoesOut(e, x, sent)
  PROVE  Begins(e, asks, task, handle, handler, ok, sent)
  <1>1. sent \in BOOLEAN /\ e = [x EXCEPT !.sent = sent] BY DEF GoesOut
  <1>2. x \in ExchangeTypes BY DEF Begins
  <1>3. /\ e \in ExchangeTypes /\ e.sent = sent /\ e.asks = x.asks /\ e.task = x.task
        /\ e.handle = x.handle /\ e.handler = x.handler /\ e.ok = x.ok /\ e.called = x.called
        /\ e.answer = x.answer
    BY <1>1, <1>2 DEF ExchangeTypes
  <1> QED BY <1>1, <1>3 DEF Begins

(* A handle with the engine is there for a call that went out.             *)
Fit(asks, task, handle, handler, ok, sent) ==
    /\ handle = "engine" <=> handler = "live"
    /\ handle = "engine" => asks /\ sent /\ ok /\ task = "none"
    /\ task = "posted" => ok
    /\ ~ok => handler \in {"none", "freed"} /\ ~sent

(* One exchange more, whose handle, handler and result fit each other.     *)
LEMMA ExchangeBegun ==
  ASSUME ExchangesInv, NEW e, NEW asks, NEW task, NEW handle, NEW handler, NEW ok, NEW sent,
         Begins(e, asks, task, handle, handler, ok, sent),
         Fit(asks, task, handle, handler, ok, sent), exchanges' = Append(exchanges, e)
  PROVE  ExchangesInv'
  <1>1. e \in ExchangeTypes BY DEF Begins
  <1>2. ExchangeOK(e) BY DEF Begins, ExchangeOK, Fit
  <1> QED BY <1>1, <1>2, ExchangeAdded

(* What may become of the buffer.                                          *)
LEMMA BuffersAre ==
  ASSUME NEW o
  PROVE  /\ BufferKept(o) \in {"freed", "borrowed", "lost"}
         /\ BufferLost(o) \in {"freed", "borrowed", "lost"}
  BY DEF BufferKept, BufferLost

(* platch_send on the platform thread, with each of its failures.          *)
LEMMA Sent ==
  ASSUME ExchangesInv, NEW o \in Objects, SendFromPlatformThread(o)
  PROVE  ExchangesInv'
  <1>1. PICK kept \in {"freed", "borrowed", "lost"}, lost \in {"freed", "borrowed", "lost"} :
           kept = BufferKept(o) /\ lost = BufferLost(o)
    BY BuffersAre
  <1>2. PICK asks \in BOOLEAN :
           \/ /\ asks
              /\ exchanges'
                     = Append(exchanges, Exchange(o, asks, "none", lost, "none", "freed", TRUE))
           \/ exchanges' = Append(exchanges,
                  [Exchange(o, asks, "none", kept, IF asks THEN "engine" ELSE "none",
                            IF asks THEN "live" ELSE "none", TRUE) EXCEPT !.sent = TRUE])
           \/ exchanges' = Append(exchanges,
                  Exchange(o, asks, "none", lost, IF asks THEN "released" ELSE "none",
                           IF asks THEN "freed" ELSE "none", FALSE))
    BY <1>1 DEF SendFromPlatformThread
  <1>3. PICK f \in BOOLEAN, t \in BOOLEAN : f = FALSE /\ t = TRUE OBVIOUS
  <1>4. CASE exchanges' = Append(exchanges, Exchange(o, asks, "none", lost, "none", "freed", TRUE))
    <2>1. PICK e : e = Exchange(o, asks, "none", lost, "none", "freed", t) OBVIOUS
    <2>2. Begins(e, asks, "none", "none", "freed", t, FALSE)
      <3>1. Starts(e, o, asks, "none", lost, "none", "freed", t) BY <2>1 DEF Starts
      <3> QED BY <3>1, ExchangeIs
    <2>3. exchanges' = Append(exchanges, e) BY <1>3, <1>4, <2>1
    <2>4. Fit(asks, "none", "none", "freed", t, FALSE) BY <1>3 DEF Fit
    <2> QED BY <2>2, <2>3, <2>4, ExchangeBegun
  <1>5. CASE exchanges' = Append(exchanges,
                 [Exchange(o, asks, "none", kept, IF asks THEN "engine" ELSE "none",
                           IF asks THEN "live" ELSE "none", TRUE) EXCEPT !.sent = TRUE])
    <2>1. PICK handle \in {"none", "engine"}, handler \in {"none", "live"} :
             /\ handle = (IF asks THEN "engine" ELSE "none")
             /\ handler = (IF asks THEN "live" ELSE "none")
      BY <1>2
    <2>2. PICK x : x = Exchange(o, asks, "none", kept, handle, handler, t) OBVIOUS
    <2>3. handle \in {"none", "engine", "released"} /\ handler \in {"none", "live", "freed", "lost"}
      BY <2>1
    <2>4. Begins(x, asks, "none", handle, handler, t, FALSE)
      <3>1. Starts(x, o, asks, "none", kept, handle, handler, t) BY <2>2, <2>3 DEF Starts
      <3> QED BY <3>1, ExchangeIs
    <2>5. PICK e : e = [x EXCEPT !.sent = t] OBVIOUS
    <2>6. exchanges' = Append(exchanges, e) BY <1>3, <1>5, <2>1, <2>2, <2>5
    <2>7. (handle = "engine" <=> handler = "live") /\ (handle = "engine" => asks) BY <1>2, <2>1
    <2>8. Fit(asks, "none", handle, handler, t, t) BY <1>3, <2>7 DEF Fit
    <2>9. Begins(e, asks, "none", handle, handler, t, t)
      <3>1. GoesOut(e, x, t) BY <2>5 DEF GoesOut
      <3> QED BY <2>4, <3>1, ExchangeSent
    <2> QED BY <2>6, <2>8, <2>9, ExchangeBegun
  <1>6. CASE exchanges' = Append(exchanges,
                 Exchange(o, asks, "none", lost, IF asks THEN "released" ELSE "none",
                          IF asks THEN "freed" ELSE "none", FALSE))
    <2>1. PICK handle \in {"none", "released"}, handler \in {"none", "freed"} :
             /\ handle = (IF asks THEN "released" ELSE "none")
             /\ handler = (IF asks THEN "freed" ELSE "none")
      BY <1>2
    <2>2. PICK e : e = Exchange(o, asks, "none", lost, handle, handler, f) OBVIOUS
    <2>3. Begins(e, asks, "none", handle, handler, f, FALSE)
      <3>1. handle \in {"none", "engine", "released"}
                /\ handler \in {"none", "live", "freed", "lost"}
        BY <2>1
      <3>2. Starts(e, o, asks, "none", lost, handle, handler, f) BY <2>2, <3>1 DEF Starts
      <3> QED BY <3>2, ExchangeIs
    <2>4. exchanges' = Append(exchanges, e) BY <1>3, <1>6, <2>1, <2>2
    <2>5. handle # "engine" /\ handler # "live" BY <2>1
    <2>6. Fit(asks, "none", handle, handler, f, FALSE) BY <1>3, <2>1, <2>5 DEF Fit
    <2> QED BY <2>3, <2>4, <2>6, ExchangeBegun
  <1> QED BY <1>2, <1>4, <1>5, <1>6

(* On another thread a task is posted, or cannot be.                       *)
LEMMA SentByTask ==
  ASSUME ExchangesInv, NEW o \in Objects, SendFromOtherThread(o)
  PROVE  ExchangesInv'
  <1>1. PICK f \in BOOLEAN : f = FALSE OBVIOUS
  <1>2. PICK task \in {"none", "posted"}, buffer \in {"freed", "borrowed", "lost"}, ok \in BOOLEAN :
           /\ task = "posted" => ok
           /\ exchanges' = Append(exchanges, Exchange(o, FALSE, task, buffer, "none", "none", ok))
    <2>1. CASE exchanges' = Append(exchanges,
                  Exchange(o, FALSE, "posted", BufferKept(o), "none", "none", TRUE))
      BY <2>1, BuffersAre
    <2>2. CASE exchanges' = Append(exchanges,
                  Exchange(o, FALSE, "none", BufferLost(o), "none", "none", FALSE))
      BY <2>2, BuffersAre
    <2> QED BY <2>1, <2>2 DEF SendFromOtherThread
  <1>3. PICK e : e = Exchange(o, f, task, buffer, "none", "none", ok) OBVIOUS
  <1>4. Begins(e, f, task, "none", "none", ok, FALSE)
    <2>1. Starts(e, o, f, task, buffer, "none", "none", ok) BY <1>3 DEF Starts
    <2> QED BY <2>1, ExchangeIs
  <1>5. exchanges' = Append(exchanges, e) BY <1>1, <1>2, <1>3
  <1>6. Fit(f, task, "none", "none", ok, FALSE) BY <1>2 DEF Fit
  <1> QED BY <1>4, <1>5, <1>6, ExchangeBegun

(* A response asks for nothing.                                            *)
LEMMA ExchangeResponded ==
  ASSUME ExchangesInv, NEW o \in Objects, Respond(o)
  PROVE  ExchangesInv'
  <1>1. PICK sent \in BOOLEAN : exchanges' = Append(exchanges,
           [Exchange(o, FALSE, "none", "freed", "none", "none", TRUE) EXCEPT !.sent = sent])
    BY DEF Respond
  <1>2. PICK f \in BOOLEAN, t \in BOOLEAN : f = FALSE /\ t = TRUE OBVIOUS
  <1>3. PICK x : x = Exchange(o, f, "none", "freed", "none", "none", t) OBVIOUS
  <1>4. Begins(x, f, "none", "none", "none", t, FALSE)
    <2>1. Starts(x, o, f, "none", "freed", "none", "none", t) BY <1>3 DEF Starts
    <2> QED BY <2>1, ExchangeIs
  <1>5. PICK e : e = [x EXCEPT !.sent = sent] OBVIOUS
  <1>6. exchanges' = Append(exchanges, e) BY <1>1, <1>2, <1>3, <1>5
  <1>7. Fit(f, "none", "none", "none", t, sent) BY <1>2 DEF Fit
  <1>8. Begins(e, f, "none", "none", "none", t, sent)
    <2>1. GoesOut(e, x, sent) BY <1>5 DEF GoesOut
    <2> QED BY <1>4, <2>1, ExchangeSent
  <1> QED BY <1>6, <1>7, <1>8, ExchangeBegun

(* The task sends, or fails to.                                            *)
LEMMA TaskSent ==
  ASSUME ExchangesInv, NEW x \in 1 .. Len(exchanges), OnSendPlatformMessage(x)
  PROVE  ExchangesInv'
  <1>1. PICK sent \in BOOLEAN :
           exchanges' = [exchanges EXCEPT ![x].task = "none", ![x].sent = sent]
    BY DEF OnSendPlatformMessage
  <1>2. exchanges \in Seq(ExchangeTypes) /\ exchanges[x] \in ExchangeTypes
            /\ ExchangeOK(exchanges[x])
    BY ElementOfSeq DEF ExchangesInv
  <1>3. PICK e : e = [exchanges[x] EXCEPT !.task = "none", !.sent = sent] OBVIOUS
  <1>4. exchanges' = [exchanges EXCEPT ![x] = e] BY <1>1, <1>2, <1>3
  <1>5. /\ e \in ExchangeTypes /\ e.asks = exchanges[x].asks /\ e.task = "none"
        /\ e.handle = exchanges[x].handle /\ e.handler = exchanges[x].handler
        /\ e.ok = exchanges[x].ok /\ e.called = exchanges[x].called /\ e.sent = sent
        /\ e.answer = exchanges[x].answer
    BY <1>2, <1>3 DEF ExchangeTypes
  <1>6. exchanges[x].task = "posted" BY DEF OnSendPlatformMessage
  <1>7. exchanges[x].handle # "engine" /\ exchanges[x].ok /\ exchanges[x].called \in 0 .. 1
    BY <1>2, <1>6 DEF ExchangeOK, ExchangeTypes
  <1>8. ExchangeOK(e) BY <1>2, <1>5, <1>6, <1>7 DEF ExchangeOK
  <1> QED BY <1>4, <1>5, <1>8, ExchangeChanged

(* An answer is decoded and given to the callback, or neither.             *)
LEMMA AnswerReceived ==
  ASSUME ExchangesInv, NEW x \in 1 .. Len(exchanges), NEW answer \in SuitableAnswers(x),
         OnResponse(x, answer)
  PROVE  ExchangesInv'
  <1>1. PICK y : y = exchanges[x] OBVIOUS
  <1>2. exchanges \in Seq(ExchangeTypes) /\ y \in ExchangeTypes /\ ExchangeOK(y)
    BY <1>1, ElementOfSeq DEF ExchangesInv
  <1>3. PICK o : o = Received(ResponseCodec(y.object), answer) OBVIOUS
  <1>4. y.handle = "engine" /\ ReceiveAnswer(x, o) BY <1>1, <1>3 DEF OnResponse, ReceiveAnswer
  <1>5. o \in Replies
    <2>1. answer \in Answers /\ y.object \in Objects BY <1>2 DEF SuitableAnswers, ExchangeTypes
    <2> QED BY <1>3, <2>1 DEF Replies
  <1>6. y.asks /\ y.sent /\ y.ok /\ y.called = 0 /\ y.task = "none" BY <1>2, <1>4 DEF ExchangeOK
  <1>7. CASE exchanges' = [exchanges EXCEPT ![x].handle = "released", ![x].answer = o,
                                            ![x].handler = "lost"]
    <2>1. PICK e : e = [y EXCEPT !.handle = "released", !.answer = o, !.handler = "lost"] OBVIOUS
    <2>2. exchanges' = [exchanges EXCEPT ![x] = e] BY <1>1, <1>2, <1>7, <2>1
    <2>3. /\ e \in ExchangeTypes /\ e.handle = "released" /\ e.handler = "lost" /\ e.ok = y.ok
          /\ e.called = y.called /\ e.task = y.task
      BY <1>2, <1>5, <2>1 DEF ExchangeTypes
    <2>4. ExchangeOK(e) BY <1>6, <2>3 DEF ExchangeOK
    <2> QED BY <2>2, <2>3, <2>4, ExchangeChanged
  <1>8. CASE \E accepted \in BOOLEAN :
                exchanges' = [exchanges EXCEPT ![x].handle = "released",
                    ![x].answer = o, ![x].called = @ + 1,
                    ![x].handler = IF accepted THEN "freed" ELSE "lost"]
    <2>1. PICK handler \in {"freed", "lost"} :
             exchanges' = [exchanges EXCEPT ![x].handle = "released", ![x].answer = o,
                                            ![x].called = @ + 1, ![x].handler = handler]
      BY <1>8
    <2>2. PICK e : e = [y EXCEPT !.handle = "released", !.answer = o, !.called = 1,
                                 !.handler = handler]
      OBVIOUS
    <2>3. exchanges' = [exchanges EXCEPT ![x] = e]
      <3>1. exchanges[x].called + 1 = 1 BY <1>1, <1>6
      <3> QED BY <1>1, <1>2, <2>1, <2>2, <3>1
    <2>4. /\ e \in ExchangeTypes /\ e.handle = "released" /\ e.handler = handler /\ e.ok = y.ok
          /\ e.called = 1 /\ e.task = y.task /\ e.asks = y.asks /\ e.sent = y.sent
      <3>1. PICK one \in 0 .. 1 : one = 1 OBVIOUS
      <3>2. e = [y EXCEPT !.handle = "released", !.answer = o, !.called = one, !.handler = handler]
        BY <2>2, <3>1
      <3>3. /\ e \in ExchangeTypes /\ e.handle = "released" /\ e.handler = handler /\ e.ok = y.ok
            /\ e.called = one /\ e.task = y.task /\ e.asks = y.asks /\ e.sent = y.sent
        BY <1>2, <1>5, <3>2 DEF ExchangeTypes
      <3> QED BY <3>1, <3>3
    <2>5. ExchangeOK(e) BY <1>6, <2>4 DEF ExchangeOK
    <2> QED BY <2>3, <2>4, <2>5, ExchangeChanged
  <1> QED BY <1>4, <1>7, <1>8 DEF ReceiveAnswer

(* Every step keeps it.                                                    *)
LEMMA ExchangesStep == ExchangesInv /\ [ChannelNext]_exchanges => ExchangesInv'
  <1> SUFFICES ASSUME ExchangesInv, [ChannelNext]_exchanges PROVE ExchangesInv' OBVIOUS
  <1>1. ASSUME NEW o \in Objects, SendFromPlatformThread(o) PROVE ExchangesInv' BY <1>1, Sent
  <1>2. ASSUME NEW o \in Objects, SendFromOtherThread(o) PROVE ExchangesInv' BY <1>2, SentByTask
  <1>3. ASSUME NEW o \in Objects, Respond(o) PROVE ExchangesInv' BY <1>3, ExchangeResponded
  <1>4. ASSUME NEW x \in 1 .. Len(exchanges), OnSendPlatformMessage(x) PROVE ExchangesInv'
    BY <1>4, TaskSent
  <1>5. ASSUME NEW x \in 1 .. Len(exchanges), NEW answer \in SuitableAnswers(x),
               OnResponse(x, answer)
        PROVE  ExchangesInv'
    BY <1>5, AnswerReceived
  <1>6. CASE UNCHANGED exchanges BY <1>6 DEF ExchangesInv, ExchangeOK
  <1> QED BY <1>1, <1>2, <1>3, <1>4, <1>5, <1>6 DEF ChannelNext

(* ChannelSpec keeps ExchangesInv: every exchange has a handle, a handler  *)
(* and a result that fit each other.                                       *)
THEOREM ExchangesCorrect == ChannelSpec => []ExchangesInv
  <1>1. ChannelInit => ExchangesInv BY DEF ChannelInit, ExchangesInv
  <1> QED BY <1>1, ExchangesStep, PTL DEF ChannelSpec

(* ExchangesAccounted: a callback is called once at most, only for a       *)
(* message that went out, and the handler data is gone when the engine can *)
(* no longer call back; whatever an answer decodes to.                     *)
THEOREM AnswersAccounted == ChannelSpec => []ExchangesAccounted
  <1>1. ASSUME ExchangesInv PROVE ExchangesAccounted
    <2>1. ASSUME NEW x \in 1 .. Len(exchanges)
          PROVE  LET e == exchanges[x]
                 IN  /\ e.called \in 0 .. 1
                     /\ e.called = 1 => e.asks /\ e.sent /\ e.ok
                     /\ e.handle = "engine" <=> e.handler = "live"
                     /\ ~e.ok => e.handler \in {"none", "freed"} /\ ~e.sent
                     /\ e.answer # NoAnswer => e.handle = "released"
      <3>1. exchanges[x] \in ExchangeTypes /\ ExchangeOK(exchanges[x])
        BY <1>1, ElementOfSeq DEF ExchangesInv
      <3> QED BY <3>1 DEF ExchangeTypes, ExchangeOK
    <2> QED BY <2>1 DEF ExchangesAccounted
  <1> QED BY <1>1, ExchangesCorrect, PTL
-----------------------------------------------------------------------------
(* The folds of texts.                                                     *)
Reading == INSTANCE FoldTheorems WITH Op <- Unescape

(* Sequences one after the other.                                          *)
Joined(f, n, seqs) == f = [i \in 1 .. n |-> IF i = 1 THEN seqs[i] ELSE f[i - 1] \o seqs[i]]

(* What FlattenSeq returns is the last of them.                            *)
LEMMA FlattenIs ==
  ASSUME NEW seqs, Len(seqs) \in Nat, Len(seqs) # 0
  PROVE  \E f : Joined(f, Len(seqs), seqs) /\ FlattenSeq(seqs) = f[Len(seqs)]
  <1>1. FlattenSeq(seqs) = Reading!FlattenSeq(seqs) BY DEF FlattenSeq, Reading!FlattenSeq
  <1> QED BY <1>1, Reading!FlattenIs DEF Joined, Reading!Joined

(* The characters there are.                                               *)
Chars ==
    Symbols \cup {"NL", "TAB", "n", "t", Quote, Backslash}
    \cup UNION {{v.text[i] : i \in 1 .. Len(v.text)} : v \in FieldValues}

(* The characters used below are among them.                               *)
LEMMA CharsAre ==
  {"NL", "TAB", "n", "t", Quote, Backslash} \subseteq Chars /\ Symbols \subseteq Chars
  BY DEF Chars

(* The characters that are written in another way differ.                  *)
LEMMA Apart == Quote # Backslash /\ Quote # "NL" /\ Backslash # "NL" BY DEF Quote, Backslash

(* Reading what the plugin wrote.                                          *)
Nothing == [escaped |-> FALSE, text |-> <<>>]
Read(acc, chars) == FoldLeft(Unescape, acc, chars)

(* Reading a text is the fold of FoldTheorems.                             *)
LEMMA ReadIs == \A acc, chars : Read(acc, chars) = Reading!Fold(acc, chars)
  BY DEF Read, Reading!Fold, FoldLeft, Reading!FoldLeft, MapThenFoldSet,
     Reading!MapThenFoldSet, Max, Reading!Max

(* Pieces of text, none of them empty, one after the other.                *)
LEMMA FlattenText ==
  ASSUME NEW text \in Seq(Chars), NEW seqs, Len(seqs) = Len(text),
         \A i \in 1 .. Len(text) : seqs[i] \in Seq(Chars) /\ seqs[i] # <<>>
  PROVE  /\ FlattenSeq(seqs) \in Seq(Chars) \/ Len(text) = 0 
         /\ Len(text) # 0 => Len(FlattenSeq(seqs)) >= Len(text)
         /\ Len(text) # 0
                /\ (\A i \in 1 .. Len(text) : seqs[i] = <<text[i]>>) => FlattenSeq(seqs) = text
  <1> DEFINE n == Len(text)
             plain == \A i \in 1 .. n : seqs[i] = <<text[i]>>
  <1>1. n \in Nat BY LenProperties
  <1>2. SUFFICES ASSUME n # 0
                 PROVE  /\ FlattenSeq(seqs) \in Seq(Chars) /\ Len(FlattenSeq(seqs)) >= n
                        /\ plain => FlattenSeq(seqs) = text
    OBVIOUS
  <1>3. Len(seqs) \in Nat /\ Len(seqs) # 0 /\ Len(seqs) = n BY <1>1, <1>2
  <1>4. PICK f : Joined(f, Len(seqs), seqs) /\ FlattenSeq(seqs) = f[Len(seqs)] BY <1>3, FlattenIs
  <1>5. Joined(f, n, seqs) /\ FlattenSeq(seqs) = f[n] BY <1>3, <1>4
  <1>6. \A i \in 1 .. n : seqs[i] \in Seq(Chars) /\ Len(seqs[i]) >= 1
            /\ (plain => seqs[i] = <<text[i]>>)
    <2> TAKE i \in 1 .. n
    <2>1. seqs[i] \in Seq(Chars) /\ seqs[i] # <<>> OBVIOUS
    <2>2. Len(seqs[i]) # 0 BY <2>1, EmptySeq
    <2>3. Len(seqs[i]) \in Nat BY <2>1, LenProperties
    <2> QED BY <2>1, <2>2, <2>3
  <1>7. \A i \in 1 .. n : text[i] \in Chars BY ElementOfSeq
  <1> HIDE DEF n, plain
  <1> DEFINE Good(m) == /\ f[m] \in Seq(Chars) /\ Len(f[m]) >= m
                        /\ plain => Len(f[m]) = m /\ \A j \in 1 .. m : f[m][j] = text[j]
             S == {m \in Nat : m + 1 \in 1 .. n => Good(m + 1)}
  <1>8. 0 \in S
    <2>1. SUFFICES ASSUME 1 \in 1 .. n PROVE Good(1) OBVIOUS
    <2>2. f[1] = seqs[1] BY <1>5, <2>1 DEF Joined
    <2>3. /\ f[1] \in Seq(Chars) /\ Len(f[1]) >= 1
          /\ plain => f[1] = <<text[1]>>
      BY <1>6, <2>1, <2>2
    <2>4. ASSUME plain PROVE Len(f[1]) = 1 /\ \A j \in 1 .. 1 : f[1][j] = text[j]
      <3>1. PICK x : x = text[1] OBVIOUS
      <3>2. f[1] = <<x>> BY <2>3, <2>4, <3>1
      <3>3. Len(f[1]) = 1 /\ f[1][1] = x BY <3>2
      <3> QED BY <3>1, <3>3
    <2> QED BY <2>3, <2>4
  <1>9. ASSUME NEW m \in Nat, m \in S PROVE m + 1 \in S
    <2> DEFINE p == m + 1
               q == m + 2
    <2>1. SUFFICES ASSUME q \in 1 .. n PROVE Good(q) OBVIOUS
    <2>2. p \in 1 .. n /\ q # 1 /\ q - 1 = p /\ p \in Nat /\ q \in Nat /\ q = p + 1 BY <1>1, <2>1
    <2>3. Good(p) BY <1>9, <2>2
    <2> HIDE DEF p, q
    <2>4. f[q] = f[p] \o seqs[q] BY <1>5, <2>1, <2>2 DEF Joined
    <2>5. seqs[q] \in Seq(Chars) /\ Len(seqs[q]) >= 1 /\ (plain => seqs[q] = <<text[q]>>)
      BY <1>6, <2>1
    <2> DEFINE a == f[p]
               b == seqs[q]
    <2>6. a \in Seq(Chars) /\ Len(a) >= p /\ b \in Seq(Chars) /\ Len(b) >= 1 BY <2>3, <2>5
    <2>7. plain => Len(a) = p /\ (\A j \in 1 .. p : a[j] = text[j]) /\ b = <<text[q]>> BY <2>3, <2>5
    <2> HIDE DEF a, b
    <2>8. /\ a \o b \in Seq(Chars) /\ Len(a \o b) = Len(a) + Len(b)
          /\ \A j \in 1 .. Len(a) + Len(b) : (a \o b)[j]
                 = IF j <= Len(a) THEN a[j] ELSE b[j - Len(a)]
      BY <2>6, ConcatProperties
    <2>9. Len(a) \in Nat /\ Len(b) \in Nat BY <2>6, LenProperties
    <2>10. Len(a \o b) >= q BY <2>2, <2>6, <2>8, <2>9
    <2>11. ASSUME plain PROVE Len(a \o b) = q /\ \A j \in 1 .. q : (a \o b)[j] = text[j]
      <3>1. Len(a) = p /\ Len(b) = 1 /\ b[1] = text[q] BY <2>7, <2>11
      <3>2. Len(a \o b) = q BY <2>2, <2>8, <3>1
      <3>3. ASSUME NEW j \in 1 .. q PROVE (a \o b)[j] = text[j]
        <4>1. (a \o b)[j] = IF j <= p THEN a[j] ELSE b[j - p] BY <2>2, <2>8, <3>1
        <4>2. CASE j <= p BY <2>2, <2>7, <2>11, <4>1, <4>2
        <4>3. CASE ~(j <= p)
          <5>1. j = q /\ j - p = 1 BY <2>2, <4>3
          <5> QED BY <3>1, <4>1, <4>3, <5>1
        <4> QED BY <4>2, <4>3
      <3> QED BY <3>2, <3>3
    <2> QED BY <2>4, <2>8, <2>10, <2>11 DEF a, b
  <1> HIDE DEF S, Good
  <1>10. n - 1 \in Nat BY <1>1, <1>2
  <1>11. n - 1 \in S BY <1>8, <1>9, <1>10, Reading!SetInduction
  <1>12. Good(n)
    <2>1. (n - 1) + 1 = n /\ n \in 1 .. n BY <1>1, <1>2
    <2> QED BY <1>11, <2>1 DEF S
  <1>13. ASSUME plain PROVE f[n] = text
    <2>1. f[n] \in Seq(Chars) /\ Len(f[n]) = n /\ \A j \in 1 .. n : f[n][j] = text[j]
      BY <1>12, <1>13 DEF Good
    <2> QED BY <2>1, SeqEqual DEF n
  <1> QED BY <1>5, <1>12, <1>13 DEF Good

(* Every character is written as one or two.                               *)
LEMMA EscapesAre ==
  ASSUME NEW c \in Chars
  PROVE  /\ Escape(c) \in Seq(Chars) /\ Escape(c) # <<>>
         /\ FlutterEscape(c) \in Seq(Chars) /\ FlutterEscape(c) # <<>>
         /\ c \notin NeedsEscape => Escape(c) = <<c>> /\ FlutterEscape(c) = <<c>>
  <1>1. Quote \in Chars /\ Backslash \in Chars /\ "n" \in Chars /\ "t" \in Chars BY CharsAre
  <1>2. \A x \in Chars, y \in Chars : <<x, y>> \in Seq(Chars) /\ <<x, y>> # <<>>
    OBVIOUS
  <1>3. \A x \in Chars : <<x>> \in Seq(Chars) /\ <<x>> # <<>> OBVIOUS
  <1>4. \/ \E x \in Chars, y \in Chars : Escape(c) = <<x, y>>
        \/ Escape(c) = <<c>>
    BY <1>1 DEF Escape
  <1>5. \/ \E x \in Chars, y \in Chars : FlutterEscape(c) = <<x, y>>
        \/ FlutterEscape(c) = <<c>>
    BY <1>1 DEF FlutterEscape
  <1>6. c \notin NeedsEscape => Escape(c) = <<c>> /\ FlutterEscape(c) = <<c>>
    BY DEF NeedsEscape, Escape, FlutterEscape
  <1> QED BY <1>2, <1>3, <1>4, <1>5, <1>6

(* What Flutter writes of a text is not shorter, and is the text itself    *)
(* where nothing needs an escape.                                          *)
LEMMA FlutterWritesIs ==
  ASSUME NEW text \in Seq(Chars)
  PROVE  /\ FlutterWrites(text) \in Seq(Chars) /\ Len(FlutterWrites(text)) >= Len(text)
         /\ Plain(text) => FlutterWrites(text) = text
  <1> DEFINE n == Len(text)
             seqs == [i \in 1 .. n |-> FlutterEscape(text[i])]
  <1>1. n \in Nat BY LenProperties
  <1>2. \A i \in 1 .. n : text[i] \in Chars BY ElementOfSeq
  <1>3. Len(seqs) = n BY <1>1
  <1>4. \A i \in 1 .. n : seqs[i] = FlutterEscape(text[i]) OBVIOUS
  <1>5. FlutterWrites(text) = FlattenSeq(seqs) BY DEF FlutterWrites
  <1>6. CASE n = 0
    <2>1. text = <<>> /\ <<>> \in Seq(Chars) BY <1>6, EmptySeq
    <2>2. seqs = <<>> BY <1>6
    <2> HIDE DEF seqs
    <2>3. FlattenSeq(seqs) = <<>> BY <2>2 DEF FlattenSeq
    <2> QED BY <1>5, <1>6, <2>1, <2>3
  <1>7. CASE n # 0
    <2> HIDE DEF seqs
    <2>1. \A i \in 1 .. n : seqs[i] \in Seq(Chars) /\ seqs[i] # <<>> BY <1>2, <1>4, EscapesAre
    <2>2. Plain(text) => \A i \in 1 .. n : seqs[i] = <<text[i]>> BY <1>2, <1>4, EscapesAre DEF Plain
    <2> QED BY <1>3, <1>5, <1>7, <2>1, <2>2, FlattenText
  <1> QED BY <1>6, <1>7

(* A quote is written as a tab.                                            *)
Decoded(c) == IF c = Quote THEN "TAB" ELSE c

(* A character that the plugin wrote is read as itself, a quote as a tab.  *)
LEMMA ReadOne ==
  ASSUME NEW w \in Seq(Chars), NEW c \in Chars
  PROVE  Read([escaped |-> FALSE, text |-> w], Escape(c))
           = [escaped |-> FALSE, text |-> Append(w, Decoded(c))]
  <1> DEFINE acc == [escaped |-> FALSE, text |-> w]
             mid == [escaped |-> TRUE, text |-> w]
  <1>1. CASE c \in NeedsEscape
    <2> DEFINE res == [escaped |-> FALSE, text |-> Append(w, Decoded(c))]
    <2>1. PICK x \in Chars : Escape(c) = <<Backslash, x>> /\ Unescape(mid, x) = res
      <3>1. CASE c = "NL"
        <4>1. Escape(c) = <<Backslash, "n">> BY <3>1, Apart DEF Escape
        <4>2. Unescape(mid, "n") = res BY <3>1, Apart DEF Unescape, Decoded
        <4> QED BY <4>1, <4>2, CharsAre
      <3>2. CASE c = Quote
        <4>1. Escape(c) = <<Backslash, "t">> BY <3>2, Apart DEF Escape
        <4>2. Unescape(mid, "t") = res BY <3>2 DEF Unescape, Decoded
        <4> QED BY <4>1, <4>2, CharsAre
      <3>3. CASE c = Backslash
        <4>1. Escape(c) = <<Backslash, Backslash>> BY <3>3, Apart DEF Escape
        <4>2. Unescape(mid, Backslash) = res BY <3>3, Apart DEF Unescape, Decoded, Backslash
        <4> QED BY <4>1, <4>2, CharsAre
      <3> QED BY <1>1, <3>1, <3>2, <3>3 DEF NeedsEscape
    <2>2. Unescape(acc, Backslash) = mid BY DEF Unescape
    <2> HIDE DEF acc, mid, res
    <2>3. Backslash \in Chars BY CharsAre
    <2>4. <<Backslash>> \in Seq(Chars) /\ <<Backslash, x>> = Append(<<Backslash>>, x) BY <2>3
    <2>5. Reading!Fold(acc, <<Backslash>>) = Unescape(acc, Backslash) BY Reading!FoldOne
    <2> DEFINE s == <<Backslash>>
    <2> HIDE DEF s
    <2>6. s \in Seq(Chars) BY <2>4 DEF s
    <2>7. Reading!Fold(acc, Append(s, x)) = Unescape(Reading!Fold(acc, s), x)
      BY <2>6, Reading!FoldAppend
    <2>8. Reading!Fold(acc, <<Backslash, x>>) = res BY <2>1, <2>2, <2>4, <2>5, <2>7 DEF s
    <2> QED BY <2>1, <2>8, ReadIs DEF acc, res
  <1>2. CASE c \notin NeedsEscape
    <2>1. Escape(c) = <<c>> BY <1>2, EscapesAre
    <2>2. Unescape(acc, c) = [escaped |-> FALSE, text |-> Append(w, Decoded(c))]
      BY <1>2 DEF Unescape, Decoded, NeedsEscape
    <2> HIDE DEF acc
    <2>3. Reading!Fold(acc, <<c>>) = Unescape(acc, c) BY Reading!FoldOne
    <2> QED BY <2>1, <2>2, <2>3, ReadIs DEF acc
  <1> QED BY <1>1, <1>2

(* The text field reads what the plugin has, but a quote as a tab.         *)
LEMMA FlutterUnescapesIs ==
  ASSUME NEW text \in Seq(Chars)
  PROVE  /\ FlutterUnescapes(Escaped(text)) \in Seq(Chars)
         /\ Len(FlutterUnescapes(Escaped(text))) = Len(text)
         /\ Plain(text) => FlutterUnescapes(Escaped(text)) = text
  <1> DEFINE n == Len(text)
             seqs == [i \in 1 .. n |-> Escape(text[i])]
             flat == FlattenSeq(seqs)
             read == FlutterUnescapes(Escaped(text))
             Good(w, m) == /\ w \in Seq(Chars) /\ Len(w) = m
                           /\ \A j \in 1 .. m : w[j] = Decoded(text[j])
  <1>1. n \in Nat BY LenProperties
  <1>2. \A i \in 1 .. n : text[i] \in Chars BY ElementOfSeq
  <1>3. \A c \in Chars : Decoded(c) \in Chars BY CharsAre DEF Decoded
  <1>4. Escaped(text) = flat BY DEF Escaped
  <1>5. read = Read(Nothing, flat).text BY <1>4 DEF FlutterUnescapes, Read, Nothing
  <1>6. \E w : Good(w, n) /\ Read(Nothing, flat) = [escaped |-> FALSE, text |-> w]
    <2>1. CASE n = 0
      <3>1. seqs = <<>> BY <2>1
      <3> HIDE DEF seqs
      <3>2. flat = <<>> BY <3>1 DEF FlattenSeq
      <3>3. Read(Nothing, <<>>) = Nothing BY ReadIs, Reading!FoldEmpty
      <3>4. Good(<<>>, n) BY <2>1
      <3> QED BY <3>2, <3>3, <3>4 DEF Nothing
    <2>2. CASE n # 0
      <3>1. Len(seqs) = n /\ \A i \in 1 .. n : seqs[i] = Escape(text[i]) BY <1>1
      <3> DEFINE sq == seqs
      <3> HIDE DEF sq
      <3>2. Len(sq) \in Nat /\ Len(sq) # 0 /\ Len(sq) = n BY <1>1, <2>2, <3>1 DEF sq
      <3>3. PICK f : Joined(f, Len(sq), sq) /\ FlattenSeq(sq) = f[Len(sq)] BY <3>2, FlattenIs
      <3>4. Joined(f, n, seqs) /\ flat = f[n] BY <3>2, <3>3 DEF sq
      <3> HIDE DEF seqs, flat, n, Good
      <3> DEFINE Fine(m) == /\ f[m] \in Seq(Chars)
                            /\ \E w : Good(w, m)
                                   /\ Read(Nothing, f[m]) = [escaped |-> FALSE, text |-> w]
                 S == {m \in Nat : m + 1 \in 1 .. n => Fine(m + 1)}
      <3>5. 0 \in S
        <4>1. SUFFICES ASSUME 1 \in 1 .. n PROVE Fine(1) OBVIOUS
        <4>2. f[1] = Escape(text[1]) BY <3>1, <3>4, <4>1 DEF Joined
        <4>3. text[1] \in Chars BY <1>2, <4>1
        <4> DEFINE c == text[1]
                   w == Append(<<>>, Decoded(c))
        <4>4. c \in Chars /\ Decoded(c) \in Chars BY <1>3, <4>3
        <4> HIDE DEF c
        <4>5. <<>> \in Seq(Chars) OBVIOUS
        <4>6. Read(Nothing, Escape(c)) = [escaped |-> FALSE, text |-> w]
          BY <4>4, <4>5, ReadOne DEF Nothing
        <4>7. w \in Seq(Chars) /\ Len(w) = 1 /\ w[1] = Decoded(c) BY <4>4
        <4> HIDE DEF w
        <4>8. Good(w, 1) BY <4>7 DEF Good, c
        <4>9. Escape(c) \in Seq(Chars) BY <4>4, EscapesAre
        <4> QED BY <4>2, <4>6, <4>8, <4>9 DEF c
      <3> HIDE DEF Fine
      <3>6. ASSUME NEW m \in Nat, m \in S PROVE m + 1 \in S
        <4> DEFINE p == m + 1
                   q == m + 2
        <4>1. SUFFICES ASSUME q \in 1 .. n PROVE Fine(q) OBVIOUS
        <4>2. p \in 1 .. n /\ q # 1 /\ q - 1 = p /\ p \in Nat /\ q \in Nat /\ q = p + 1
          BY <1>1, <4>1
        <4>3. Fine(p) BY <3>6, <4>2
        <4> HIDE DEF p, q
        <4> DEFINE c == text[q]
        <4>4. f[q] = f[p] \o Escape(c) BY <3>1, <3>4, <4>1, <4>2 DEF Joined
        <4>5. c \in Chars /\ Decoded(c) \in Chars BY <1>2, <1>3, <4>1
        <4>6. PICK w : Good(w, p) /\ Read(Nothing, f[p]) = [escaped |-> FALSE, text |-> w]
          BY <4>3 DEF Fine
        <4>7. w \in Seq(Chars) /\ Len(w) = p /\ \A j \in 1 .. p : w[j] = Decoded(text[j])
          BY <4>6 DEF Good
        <4> HIDE DEF c
        <4> DEFINE x == Append(w, Decoded(c))
        <4>8. Read([escaped |-> FALSE, text |-> w], Escape(c)) = [escaped |-> FALSE, text |-> x]
          BY <4>5, <4>7, ReadOne
        <4>9. Escape(c) \in Seq(Chars) /\ f[p] \in Seq(Chars) BY <4>3, <4>5, EscapesAre DEF Fine
        <4>10. Read(Nothing, f[p] \o Escape(c)) = Read(Read(Nothing, f[p]), Escape(c))
          BY <4>9, ReadIs, Reading!FoldConcat
        <4>11. f[q] \in Seq(Chars) BY <4>4, <4>9, ConcatProperties
        <4>12. x \in Seq(Chars) /\ Len(x) = q /\ (\A j \in 1 .. p : x[j] = w[j])
                   /\ x[q] = Decoded(c)
          BY <4>2, <4>5, <4>7, AppendProperties
        <4> HIDE DEF x
        <4>13. \A j \in 1 .. q : j \in 1 .. p \/ j = q BY <4>2
        <4>14. Good(x, q) BY <4>7, <4>12, <4>13 DEF Good, c
        <4> QED BY <4>4, <4>6, <4>8, <4>10, <4>11, <4>14 DEF Fine
      <3> HIDE DEF S
      <3>7. n - 1 \in Nat BY <1>1, <2>2
      <3>8. n - 1 \in S BY <3>5, <3>6, <3>7, Reading!SetInduction
      <3>9. (n - 1) + 1 = n /\ n \in 1 .. n BY <1>1, <2>2
      <3>10. Fine(n) BY <3>8, <3>9 DEF S
      <3> QED BY <3>4, <3>10 DEF Fine
    <2> QED BY <2>1, <2>2
  <1>7. Good(read, n)
    <2>1. PICK w : Good(w, n) /\ Read(Nothing, flat) = [escaped |-> FALSE, text |-> w] BY <1>6
    <2>2. read = w BY <1>5, <2>1
    <2> HIDE DEF Good, read
    <2> QED BY <2>1, <2>2
  <1>8. Plain(text) => \A j \in 1 .. n : Decoded(text[j]) = text[j]
    BY DEF Plain, Decoded, NeedsEscape
  <1> HIDE DEF read
  <1>9. Plain(text) => read = text
    <2>1. read \in Seq(Chars) /\ Len(read) = n /\ \A j \in 1 .. n : read[j] = Decoded(text[j])
      BY <1>7
    <2> HIDE DEF Good
    <2> QED BY <1>8, <2>1, SeqEqual
  <1> QED BY <1>7, <1>9 DEF read

(* The types.                                                              *)
TextStates ==
    [connection_id : Int, multiline : BOOLEAN, text : Seq(Chars), selection_base : Int,
     selection_extent : Int]
Fields == [client : Int, text : Seq(Chars), base : Int, extent : Int, actions : Int]
Within(text, base, extent) == base \in 0 .. Len(text) /\ extent \in 0 .. Len(text)

(* The calls on their way.                                                 *)
PluginCalls ==
    [method : {"setClient"}, client : Int, multiline : BOOLEAN]
    \cup [method : {"clearClient", "show"}]
    \cup [method : {"setEditingState"}, text : Seq(Chars), base : Int, extent : Int]
FieldCalls ==
    [method : {"performAction"}, client : Int]
    \cup [method : {"updateEditingState"}, client : Int, text : Seq(Chars),
          base : Int, extent : Int]
PluginCallOK(call) == call.method = "setClient" => call.client \in 0 .. clients - 1
FieldCallOK(call) == call.client \in 0 .. clients - 1

(* The plugin's selection lies within its text, unless Flutter put it      *)
(* elsewhere.                                                              *)
TextSettled(t) == t \in TextStates /\ Within(t.text, t.selection_base, t.selection_extent)
TextTypeOK ==
    /\ clients \in Nat /\ astray \in BOOLEAN
    /\ text_input \in TextStates /\ text_input.connection_id \in -1 .. clients - 1
    /\ ~astray => TextSettled(text_input)
    /\ field \in Fields /\ field.client \in -1 .. clients - 1
    /\ toPlugin \in Seq(PluginCalls) /\ \A i \in 1 .. Len(toPlugin) : PluginCallOK(toPlugin[i])
    /\ toField \in Seq(FieldCalls) /\ \A i \in 1 .. Len(toField) : FieldCallOK(toField[i])

(* The calls on their way that set the text, the client, or the field's    *)
(* text.                                                                   *)
Settings == {i \in 1 .. Len(toPlugin) : toPlugin[i].method = "setEditingState"}
Connections == {i \in 1 .. Len(toPlugin) : toPlugin[i].method \in {"setClient", "clearClient"}}
Updates ==
    {i \in 1 .. Len(toField) : toField[i].method = "updateEditingState"
        /\ toField[i].client = field.client}
LastOf(S, i) == i \in S /\ \A j \in S : j <= i

(* What one of the two took over from the other.  With a selection outside *)
(* its text the plugin may move it and say nothing.                        *)
SaysField(call) ==
    call.text = FlutterWrites(field.text) /\ call.base = field.base /\ call.extent = field.extent
SaysPlugin(call) ==
    /\ call.text = FlutterUnescapes(Escaped(text_input.text))
    /\ astray \/ (/\ call.base = text_input.selection_base
                  /\ call.extent = text_input.selection_extent)
Alike ==
    /\ text_input.text = FlutterWrites(field.text)
           \/ field.text = FlutterUnescapes(Escaped(text_input.text))
    /\ astray \/ (text_input.selection_base = field.base /\ text_input.selection_extent = field.extent)

(* While no update meets a change, only one of the two is being told: the  *)
(* last call on its way says what its sender has.                          *)
OneSpeaks ==
    field.client # NoClient /\ ~crossed =>
        /\ toPlugin = <<>> \/ Updates = {}
        /\ Connections = {} => text_input.connection_id = field.client
        /\ \A i \in 1 .. Len(toPlugin) : LastOf(Connections, i) =>
              toPlugin[i].method = "setClient" /\ toPlugin[i].client = field.client
        /\ \A i \in 1 .. Len(toPlugin) : LastOf(Settings, i) => SaysField(toPlugin[i])
        /\ \A i \in 1 .. Len(toField) : LastOf(Updates, i) => SaysPlugin(toField[i])
        /\ Settings = {} /\ Updates = {} => Alike

TextInv == TextTypeOK /\ OneSpeaks

(* What an editing function returns: nothing but the selection changes if  *)
(* nothing is to be sent, and only a selection outside the text does.      *)
Edited(t, r) ==
    /\ r[1] \in TextStates /\ r[1].connection_id = t.connection_id /\ r[2] \in BOOLEAN
    /\ ~r[2] => r[1].text = t.text
    /\ TextSettled(t) => TextSettled(r[1]) /\ (~r[2] => r[1] = t)

(* Where the selection begins and ends.                                    *)
LEMMA SelectionIs ==
  ASSUME NEW t \in TextStates
  PROVE  /\ t.text \in Seq(Chars) /\ Len(t.text) \in Nat
         /\ t.selection_base \in Int /\ t.selection_extent \in Int
         /\ SelectionStart(t) \in Int /\ SelectionEnd(t) \in Int
         /\ SelectionStart(t) <= SelectionEnd(t)
         /\ TextSettled(t) =>
               /\ t.selection_base \in 0 .. Len(t.text) /\ t.selection_extent \in 0 .. Len(t.text)
               /\ SelectionStart(t) \in 0 .. Len(t.text) /\ SelectionEnd(t) \in 0 .. Len(t.text)
  <1> DEFINE a == t.selection_base
             b == t.selection_extent
  <1>1. t.text \in Seq(Chars) /\ a \in Int /\ b \in Int BY DEF TextStates
  <1>2. Len(t.text) \in Nat BY <1>1, LenProperties
  <1>3. \A x, y \in Int : Min({x, y}) = (IF x <= y THEN x ELSE y)
            /\ Max({x, y}) = (IF x <= y THEN y ELSE x)
    BY DEF Min, Max
  <1>4. SelectionStart(t) = (IF a <= b THEN a ELSE b) /\ SelectionEnd(t) = (IF a <= b THEN b ELSE a)
    <2>1. SelectionStart(t) = Min({a, b}) /\ SelectionEnd(t) = Max({a, b})
      BY DEF SelectionStart, SelectionEnd
    <2> HIDE DEF a, b
    <2> QED BY <1>1, <1>3, <2>1
  <1>5. TextSettled(t) => a \in 0 .. Len(t.text) /\ b \in 0 .. Len(t.text)
    BY DEF TextSettled, Within
  <1> HIDE DEF a, b
  <1>6. /\ SelectionStart(t) \in Int /\ SelectionEnd(t) \in Int
        /\ SelectionStart(t) <= SelectionEnd(t)
        /\ TextSettled(t) =>
              SelectionStart(t) \in 0 .. Len(t.text) /\ SelectionEnd(t) \in 0 .. Len(t.text)
    BY <1>1, <1>2, <1>4, <1>5
  <1> QED BY <1>1, <1>2, <1>5, <1>6 DEF a, b

(* Erasing leaves the cursor where it began, and the text as it was if     *)
(* that is not within it.                                                  *)
LEMMA EraseIs ==
  ASSUME NEW t \in TextStates, NEW start \in Int, NEW end \in Int
  PROVE  LET u == ModelErase(t, start, end)
         IN  /\ u \in TextStates /\ u.connection_id = t.connection_id
             /\ u.selection_base = start /\ u.selection_extent = start
             /\ start \in 0 .. Len(t.text) => TextSettled(u)
             /\ start \notin 0 .. Len(t.text) => u.text = t.text
  <1> DEFINE n == Len(t.text)
             x == SubSeq(t.text, 1, start)
             y == SubSeq(t.text, end + 2, n)
             text == IF SymbolExists(t.text, start)
                 /\ SymbolExists(t.text, end + 1) THEN x \o y ELSE t.text
             u == [t EXCEPT !.text = text, !.selection_base = start, !.selection_extent = start]
  <1>1. t.text \in Seq(Chars) /\ n \in Nat BY SelectionIs
  <1>2. ModelErase(t, start, end) = u BY DEF ModelErase
  <1>3. /\ text \in Seq(Chars) /\ (start \in 0 .. n => start \in 0 .. Len(text))
        /\ start \notin 0 .. n => text = t.text
    <2>1. CASE SymbolExists(t.text, start) /\ SymbolExists(t.text, end + 1)
      <3>1. start \in 0 .. n /\ end + 1 \in 0 .. n BY <2>1 DEF SymbolExists
      <3>2. end + 2 \in 1 .. n + 1 BY <1>1, <3>1
      <3>3. x \in Seq(Chars) /\ Len(x) = start BY <1>1, <3>1
      <3>4. y \in Seq(Chars)
        <4>1. \A i \in end + 2 .. n : t.text[i] \in Chars
          <5>1. \A i \in end + 2 .. n : i \in 1 .. n BY <1>1, <3>2
          <5> QED BY <1>1, <5>1, ElementOfSeq
        <4> QED BY <1>1, <3>2, <4>1, SubSeqProperties
      <3> HIDE DEF x, y
      <3>5. x \o y \in Seq(Chars) /\ Len(x \o y) = start + Len(y) /\ Len(y) \in Nat
        BY <3>3, <3>4, ConcatProperties, LenProperties
      <3> QED BY <1>1, <2>1, <3>1, <3>5
    <2>2. CASE ~(SymbolExists(t.text, start) /\ SymbolExists(t.text, end + 1)) BY <1>1, <2>2
    <2> QED BY <2>1, <2>2
  <1> HIDE DEF text
  <1>4. u \in TextStates /\ u.text = text /\ u.selection_base = start /\ u.selection_extent = start
        /\ u.connection_id = t.connection_id
    BY <1>1, <1>3 DEF TextStates
  <1> HIDE DEF u
  <1> QED BY <1>2, <1>3, <1>4 DEF TextSettled, Within

(* Deleting the selection.                                                 *)
LEMMA DeleteSelectedIs ==
  ASSUME NEW t \in TextStates
  PROVE  LET u == ModelDeleteSelected(t)
         IN  /\ u \in TextStates /\ u.connection_id = t.connection_id
             /\ u.selection_base = u.selection_extent
             /\ u.selection_base \in 0 .. Len(t.text) => TextSettled(u)
             /\ u.selection_base \notin 0 .. Len(t.text) => u.text = t.text
             /\ TextSettled(t) => TextSettled(u)
             /\ Edited(t, <<u, TRUE>>)
  <1> DEFINE u == ModelErase(t, SelectionStart(t), SelectionEnd(t) - 1)
  <1>1. /\ SelectionStart(t) \in Int /\ SelectionEnd(t) - 1 \in Int
        /\ TextSettled(t) => SelectionStart(t) \in 0 .. Len(t.text)
    BY SelectionIs
  <1>2. /\ u \in TextStates /\ u.connection_id = t.connection_id
        /\ u.selection_base = SelectionStart(t) /\ u.selection_extent = SelectionStart(t)
        /\ SelectionStart(t) \in 0 .. Len(t.text) => TextSettled(u)
        /\ SelectionStart(t) \notin 0 .. Len(t.text) => u.text = t.text
    BY <1>1, EraseIs
  <1>3. ModelDeleteSelected(t) = u BY DEF ModelDeleteSelected
  <1> HIDE DEF u
  <1> QED BY <1>1, <1>2, <1>3 DEF Edited

(* Another text with the cursor within it.                                 *)
LEMMA CursorMoved ==
  ASSUME NEW t \in TextStates, NEW text \in Seq(Chars), NEW at \in 0 .. Len(text)
  PROVE  LET u == [t EXCEPT !.text = text, !.selection_base = at, !.selection_extent = at]
         IN  TextSettled(u) /\ u.connection_id = t.connection_id
  <1> DEFINE u == [t EXCEPT !.text = text, !.selection_base = at, !.selection_extent = at]
  <1>1. Len(text) \in Nat /\ at \in Int BY LenProperties
  <1>2. u \in TextStates /\ u.text = text /\ u.selection_base = at /\ u.selection_extent = at
        /\ u.connection_id = t.connection_id
    BY <1>1 DEF TextStates
  <1> HIDE DEF u
  <1>3. TextSettled(u) /\ u.connection_id = t.connection_id BY <1>2 DEF TextSettled, Within
  <1> QED BY <1>3 DEF u

(* A typed character replaces the selection, unless that is outside the    *)
(* text.                                                                   *)
LEMMA AddUtf8CharIs ==
  ASSUME NEW t \in TextStates, NEW c \in Chars
  PROVE  Edited(t, ModelAddUtf8Char(t, c))
  <1> DEFINE u == IF t.selection_base # t.selection_extent THEN ModelDeleteSelected(t) ELSE t
             at == u.selection_base
             x == SubSeq(u.text, 1, at)
             y == SubSeq(u.text, at + 1, Len(u.text))
             text == x \o <<c>> \o y
             v == [u EXCEPT !.text = text, !.selection_base = u.selection_extent + 1,
                            !.selection_extent = u.selection_extent + 1]
  <1>1. /\ u \in TextStates /\ u.connection_id = t.connection_id
        /\ u.selection_base = u.selection_extent
        /\ TextSettled(t) => TextSettled(u)
        /\ at \notin 0 .. Len(u.text) => u.text = t.text
    <2>1. CASE t.selection_base # t.selection_extent
      <3> DEFINE w == ModelDeleteSelected(t)
      <3>1. u = w BY <2>1
      <3>2. /\ w \in TextStates /\ w.connection_id = t.connection_id
            /\ w.selection_base = w.selection_extent
            /\ w.selection_base \in 0 .. Len(t.text) => TextSettled(w)
            /\ w.selection_base \notin 0 .. Len(t.text) => w.text = t.text
            /\ TextSettled(t) => TextSettled(w)
        BY DeleteSelectedIs
      <3> HIDE DEF w
      <3>3. TextSettled(w) => w.selection_base \in 0 .. Len(w.text) BY DEF TextSettled, Within
      <3> QED BY <3>1, <3>2, <3>3
    <2>2. CASE t.selection_base = t.selection_extent BY <2>2
    <2> QED BY <2>1, <2>2
  <1>2. ModelAddUtf8Char(t, c) = IF SymbolExists(u.text, at) THEN <<v, TRUE>> ELSE <<u, FALSE>>
    <2>1. [u EXCEPT !.text = SubSeq(@, 1, at) \o <<c>> \o SubSeq(@, at + 1, Len(@)),
                    !.selection_base = u.selection_extent + 1,
                    !.selection_extent = u.selection_extent + 1] = v
      BY <1>1 DEF TextStates
    <2> HIDE DEF v
    <2> QED BY <2>1 DEF ModelAddUtf8Char
  <1> HIDE DEF u
  <1>3. u.text \in Seq(Chars) /\ Len(u.text) \in Nat /\ at \in Int BY <1>1, SelectionIs
  <1>4. CASE SymbolExists(u.text, at)
    <2>1. at \in 0 .. Len(u.text) BY <1>4 DEF SymbolExists
    <2>2. text \in Seq(Chars) /\ at + 1 \in 0 .. Len(text)
      <3>1. x \in Seq(Chars) /\ Len(x) = at BY <1>3, <2>1
      <3>2. y \in Seq(Chars)
        <4>1. \A i \in at + 1 .. Len(u.text) : u.text[i] \in Chars
          <5>1. \A i \in at + 1 .. Len(u.text) : i \in 1 .. Len(u.text) BY <1>3, <2>1
          <5> QED BY <1>3, <5>1, ElementOfSeq
        <4> QED BY <1>3, <2>1, <4>1, SubSeqProperties
      <3>3. <<c>> \in Seq(Chars) /\ Len(<<c>>) = 1 OBVIOUS
      <3> HIDE DEF x, y, at
      <3>4. x \o <<c>> \in Seq(Chars) /\ Len(x \o <<c>>) = at + 1 BY <3>1, <3>3, ConcatProperties
      <3> DEFINE z == x \o <<c>>
      <3> HIDE DEF z
      <3>5. z \o y \in Seq(Chars) /\ Len(z \o y) = at + 1 + Len(y) /\ Len(y) \in Nat
        BY <3>2, <3>4, ConcatProperties, LenProperties DEF z
      <3> QED BY <1>3, <2>1, <3>5 DEF z
    <2> HIDE DEF text
    <2>3. TextSettled(v) /\ v.connection_id = u.connection_id
      <3> DEFINE m == at + 1
      <3>1. v = [u EXCEPT !.text = text, !.selection_base = m, !.selection_extent = m] BY <1>1
      <3>2. m \in 0 .. Len(text) BY <2>2
      <3> HIDE DEF m, v
      <3> QED BY <1>1, <2>2, <3>1, <3>2, CursorMoved
    <2> HIDE DEF v
    <2>4. ModelAddUtf8Char(t, c) = <<v, TRUE>> BY <1>2, <1>4
    <2> QED BY <1>1, <2>3, <2>4 DEF Edited, TextSettled
  <1>5. CASE ~SymbolExists(u.text, at)
    <2>1. at \notin 0 .. Len(u.text) /\ ~TextSettled(u) BY <1>5 DEF SymbolExists, TextSettled, Within
    <2>2. ModelAddUtf8Char(t, c) = <<u, FALSE>> BY <1>2, <1>5
    <2> QED BY <1>1, <2>1, <2>2 DEF Edited
  <1> QED BY <1>4, <1>5

(* Backspace takes the selection or the character before the cursor.       *)
LEMMA BackspaceIs ==
  ASSUME NEW t \in TextStates
  PROVE  Edited(t, ModelBackspace(t))
  <1>1. CASE t.selection_base # t.selection_extent
    <2>1. ModelBackspace(t) = <<ModelDeleteSelected(t), TRUE>> BY <1>1 DEF ModelBackspace
    <2> QED BY <2>1, DeleteSelectedIs
  <1>2. CASE t.selection_base = t.selection_extent /\ t.selection_base # 0
    <2> DEFINE p == t.selection_base - 1
               u == ModelErase(t, p, p)
    <2>1. p \in Int /\ (TextSettled(t) => p \in 0 .. Len(t.text))
      <3>1. /\ t.selection_base \in Int /\ Len(t.text) \in Nat
            /\ TextSettled(t) => t.selection_base \in 0 .. Len(t.text)
        BY SelectionIs
      <3> QED BY <1>2, <3>1
    <2>2. ModelBackspace(t) = <<u, TRUE>> BY <1>2 DEF ModelBackspace
    <2> HIDE DEF p
    <2>3. /\ u \in TextStates /\ u.connection_id = t.connection_id
          /\ TextSettled(t) => TextSettled(u)
      BY <2>1, EraseIs
    <2> HIDE DEF u
    <2> QED BY <2>2, <2>3 DEF Edited
  <1>3. CASE t.selection_base = t.selection_extent /\ t.selection_base = 0
    <2>1. ModelBackspace(t) = <<t, FALSE>> BY <1>3 DEF ModelBackspace
    <2> QED BY <2>1 DEF Edited
  <1> QED BY <1>1, <1>2, <1>3

(* Delete takes the selection or the character after it.                   *)
LEMMA DeleteIs ==
  ASSUME NEW t \in TextStates
  PROVE  Edited(t, ModelDelete(t))
  <1> DEFINE u == ModelErase(t, SelectionStart(t), SelectionEnd(t))
             more == SelectionStart(t) \in 0 .. (Strlen(t.text) - 1)
  <1>1. CASE t.selection_base # t.selection_extent
    <2>1. ModelDelete(t) = <<ModelDeleteSelected(t), TRUE>> BY <1>1 DEF ModelDelete
    <2> QED BY <2>1, DeleteSelectedIs
  <1>2. CASE t.selection_base = t.selection_extent /\ more
    <2>1. /\ SelectionStart(t) \in Int /\ SelectionEnd(t) \in Int
          /\ TextSettled(t) => SelectionStart(t) \in 0 .. Len(t.text)
      BY SelectionIs
    <2>2. ModelDelete(t) = <<u, TRUE>> BY <1>2 DEF ModelDelete
    <2>3. /\ u \in TextStates /\ u.connection_id = t.connection_id
          /\ TextSettled(t) => TextSettled(u)
      BY <2>1, EraseIs
    <2> HIDE DEF u
    <2> QED BY <2>2, <2>3 DEF Edited
  <1>3. CASE t.selection_base = t.selection_extent /\ ~more
    <2>1. ModelDelete(t) = <<t, FALSE>> BY <1>3 DEF ModelDelete
    <2> QED BY <2>1 DEF Edited
  <1> QED BY <1>1, <1>2, <1>3

(* Home and End.                                                           *)
LEMMA CursorMovesAre ==
  ASSUME NEW t \in TextStates
  PROVE  Edited(t, ModelMoveCursorToBeginning(t)) /\ Edited(t, ModelMoveCursorToEnd(t))
  <1>1. t.text \in Seq(Chars) /\ Len(t.text) \in Nat BY SelectionIs
  <1> DEFINE PutAt(p) == [t EXCEPT !.text = t.text, !.selection_base = p, !.selection_extent = p]
  <1>2. \A p \in 0 .. Len(t.text) : TextSettled(PutAt(p))
            /\ PutAt(p).connection_id = t.connection_id BY <1>1, CursorMoved
  <1>3. \A p : [t EXCEPT !.selection_base = p, !.selection_extent = p] = PutAt(p)
    BY DEF TextStates
  <1>4. t.selection_base = 0 /\ t.selection_extent = 0 => PutAt(0) = t BY DEF TextStates
  <1>5. ModelMoveCursorToBeginning(t) = <<PutAt(0), t.selection_base # 0 \/ t.selection_extent # 0>>
    BY <1>3 DEF ModelMoveCursorToBeginning
  <1>6. ModelMoveCursorToEnd(t) =
          IF t.selection_base # Len(t.text) THEN <<PutAt(Len(t.text)), TRUE>> ELSE <<t, FALSE>>
    BY <1>3 DEF ModelMoveCursorToEnd
  <1>7. 0 \in 0 .. Len(t.text) /\ Len(t.text) \in 0 .. Len(t.text) BY <1>1
  <1> HIDE DEF PutAt
  <1>8. Edited(t, ModelMoveCursorToBeginning(t))
    <2> DEFINE b == t.selection_base # 0 \/ t.selection_extent # 0
    <2>1. b \in BOOLEAN /\ (~b => PutAt(0) = t) BY <1>4
    <2>2. ModelMoveCursorToBeginning(t) = <<PutAt(0), b>> BY <1>5
    <2>3. PutAt(0) \in TextStates BY <1>2, <1>7 DEF TextSettled
    <2> HIDE DEF b
    <2> QED BY <1>2, <1>7, <2>1, <2>2, <2>3 DEF Edited
  <1>9. Edited(t, ModelMoveCursorToEnd(t))
    <2>1. CASE t.selection_base # Len(t.text)
      <3>1. PutAt(Len(t.text)) \in TextStates BY <1>2, <1>7 DEF TextSettled
      <3> QED BY <1>2, <1>6, <1>7, <2>1, <3>1 DEF Edited
    <2>2. CASE t.selection_base = Len(t.text) BY <1>6, <2>2 DEF Edited
    <2> QED BY <2>1, <2>2
  <1> QED BY <1>8, <1>9

(* The calls between the text field and the plugin.                        *)
LEMMA CallsAre ==
  /\ \A call \in PluginCalls :
        /\ call.method \in {"setClient", "clearClient", "setEditingState", "show"}
        /\ call.method = "setClient" => call.client \in Int /\ call.multiline \in BOOLEAN
        /\ call.method = "setEditingState" =>
              call.text \in Seq(Chars) /\ call.base \in Int /\ call.extent \in Int
  /\ \A call \in FieldCalls :
        /\ call.method \in {"performAction", "updateEditingState"} /\ call.client \in Int
        /\ call.method = "updateEditingState" =>
              call.text \in Seq(Chars) /\ call.base \in Int /\ call.extent \in Int
  BY DEF PluginCalls, FieldCalls

(* What the plugin sends.                                                  *)
LEMMA SyncIs ==
  ASSUME NEW t \in TextStates
  PROVE  LET s == SyncEditingState(t)
         IN  /\ s \in FieldCalls /\ s.method = "updateEditingState" /\ s.client = t.connection_id
             /\ s.text = FlutterUnescapes(Escaped(t.text)) /\ s.base = t.selection_base
             /\ s.extent = t.selection_extent
  <1> DEFINE text == FlutterUnescapes(Escaped(t.text))
  <1>1. t.text \in Seq(Chars) /\ t.selection_base \in Int /\ t.selection_extent \in Int
    BY SelectionIs
  <1>2. text \in Seq(Chars) BY <1>1, FlutterUnescapesIs
  <1>3. SyncEditingState(t)
            = [method |-> "updateEditingState", client |-> t.connection_id, text |-> text,
                               base |-> t.selection_base, extent |-> t.selection_extent]
    BY DEF SyncEditingState
  <1> HIDE DEF text
  <1>4. t.connection_id \in Int BY DEF TextStates
  <1> QED BY <1>1, <1>2, <1>3, <1>4 DEF FieldCalls, text

(* What the field sends.                                                   *)
LEMMA EditingStateIs ==
  ASSUME NEW v, v.text \in Seq(Chars), v.base \in Int, v.extent \in Int
  PROVE  LET s == EditingState(v)
         IN  /\ s \in PluginCalls /\ s.method = "setEditingState" /\ s.text = FlutterWrites(v.text)
             /\ s.base = v.base /\ s.extent = v.extent
  <1> DEFINE text == FlutterWrites(v.text)
  <1>1. text \in Seq(Chars) BY FlutterWritesIs
  <1>2. EditingState(v)
            = [method |-> "setEditingState", text |-> text, base |-> v.base, extent |-> v.extent]
    BY DEF EditingState
  <1> HIDE DEF text
  <1> QED BY <1>1, <1>2 DEF PluginCalls, text

(* The values the app gives are texts.                                     *)
LEMMA FieldValuesAre ==
  ASSUME NEW v \in FieldValues
  PROVE  v.text \in Seq(Chars) /\ v.base \in Int /\ v.extent \in Int
  <1>1. v.text \in Seq(STRING) /\ v.base \in Int /\ v.extent \in Int BY FieldValuesOK
  <1>2. Len(v.text) \in Nat /\ v.text \in [1 .. Len(v.text) -> STRING] BY <1>1, LenProperties
  <1>3. \A i \in 1 .. Len(v.text) : v.text[i] \in Chars BY DEF Chars
  <1>4. v.text \in [1 .. Len(v.text) -> Chars] BY <1>2, <1>3
  <1>5. v.text \in Seq(Chars) BY <1>2, <1>4, IsASeq
  <1> QED BY <1>1, <1>5

(* At the start nobody is connected.                                       *)
LEMMA TextInitial == TextInit => TextInv
  <1> SUFFICES ASSUME TextInit PROVE TextInv OBVIOUS
  <1> DEFINE t == [connection_id |-> NoClient, multiline |-> FALSE, text |-> <<>>,
                   selection_base |-> 0, selection_extent |-> 0]
             f == [client |-> NoClient, text |-> <<>>, base |-> 0, extent |-> 0, actions |-> 0]
  <1>1. text_input = t /\ field = f /\ toPlugin = <<>> /\ toField = <<>> /\ clients = 0 /\ ~astray
        /\ astray \in BOOLEAN
    BY DEF TextInit
  <1>2. <<>> \in Seq(Chars) /\ Len(<<>>) = 0 /\ 0 \in 0 .. 0 OBVIOUS
  <1>3. t \in TextStates /\ t.connection_id = -1
            /\ Within(t.text, t.selection_base, t.selection_extent)
    BY <1>2 DEF TextStates, NoClient, Within
  <1>4. f \in Fields /\ f.client = -1 BY <1>2 DEF Fields, NoClient
  <1> HIDE DEF t, f
  <1>5. <<>> \in Seq(PluginCalls) /\ <<>> \in Seq(FieldCalls) OBVIOUS
  <1>6. TextTypeOK BY <1>1, <1>2, <1>3, <1>4, <1>5 DEF TextTypeOK, TextSettled
  <1>7. OneSpeaks BY <1>1, <1>4 DEF OneSpeaks, NoClient
  <1> QED BY <1>6, <1>7 DEF TextInv

(* What the plugin has when it is known to be whole.                       *)
LEMMA TextIs ==
  ASSUME TextInv
  PROVE  /\ clients \in Nat /\ text_input \in TextStates
         /\ ~astray => TextSettled(text_input)
         /\ field \in Fields /\ field.text \in Seq(Chars)
         /\ field.base \in Int /\ field.extent \in Int
         /\ toPlugin \in Seq(PluginCalls) /\ toField \in Seq(FieldCalls)
         /\ Len(toPlugin) \in Nat /\ Len(toField) \in Nat
         /\ \A i \in 1 .. Len(toPlugin) : toPlugin[i] \in PluginCalls /\ PluginCallOK(toPlugin[i])
         /\ \A i \in 1 .. Len(toField) : toField[i] \in FieldCalls /\ FieldCallOK(toField[i])
         /\ text_input.connection_id \in -1 .. clients - 1 /\ field.client \in -1 .. clients - 1
  <1>1. TextTypeOK BY DEF TextInv
  <1>2. toPlugin \in Seq(PluginCalls) /\ toField \in Seq(FieldCalls) BY <1>1 DEF TextTypeOK
  <1>3. /\ Len(toPlugin) \in Nat /\ Len(toField) \in Nat
        /\ \A i \in 1 .. Len(toPlugin) : toPlugin[i] \in PluginCalls
        /\ \A i \in 1 .. Len(toField) : toField[i] \in FieldCalls
    BY <1>2, LenProperties, ElementOfSeq
  <1>4. field \in Fields BY <1>1 DEF TextTypeOK
  <1>5. field.text \in Seq(Chars) /\ field.base \in Int /\ field.extent \in Int BY <1>4 DEF Fields
  <1> QED BY <1>1, <1>2, <1>3, <1>4, <1>5 DEF TextTypeOK

(* Keys: the plugin edits and tells the field.                             *)
LEMMA Applied ==
  ASSUME TextInv, Press, text_input.connection_id # NoClient, NEW r, Edited(text_input, r),
         NEW calls \in {<<>>, <<ClientPerformAction(text_input)>>}, Apply(r, calls)
  PROVE  TextInv'
  <1> DEFINE s == SyncEditingState(r[1])
             a == ClientPerformAction(text_input)
             n == Len(toField)
             news == (IF r[2] THEN <<s>> ELSE <<>>)
  <1>1. PICK q : q = toField' OBVIOUS
  <1>2. /\ text_input' = r[1] /\ q = toField \o news \o calls
        /\ crossed' = (crossed \/ (r[2] /\ toPlugin # <<>>))
        /\ field' = field /\ toPlugin' = toPlugin /\ clients' = clients /\ astray' = astray
    BY <1>1 DEF Apply, Press
  <1>3. /\ r[1] \in TextStates /\ r[1].connection_id = text_input.connection_id /\ r[2] \in BOOLEAN
        /\ ~r[2] => r[1].text = text_input.text
        /\ ~astray => TextSettled(r[1]) /\ (~r[2] => r[1] = text_input)
    BY TextIs DEF Edited
  <1>4. /\ clients \in Nat /\ text_input.connection_id \in 0 .. clients - 1
        /\ toField \in Seq(FieldCalls) /\ n \in Nat
        /\ \A i \in 1 .. n : toField[i] \in FieldCalls /\ FieldCallOK(toField[i])
    BY TextIs DEF NoClient
  <1>5. /\ s \in FieldCalls /\ s.method = "updateEditingState"
        /\ s.client = text_input.connection_id
        /\ s.text = FlutterUnescapes(Escaped(r[1].text)) /\ s.base = r[1].selection_base
        /\ s.extent = r[1].selection_extent
    BY <1>3, SyncIs
  <1>6. a \in FieldCalls /\ a.method = "performAction" /\ a.client = text_input.connection_id
    <2>1. text_input.connection_id \in Int BY <1>4
    <2> QED BY <2>1 DEF ClientPerformAction, FieldCalls
  <1>7. calls = <<>> \/ calls = <<a>> OBVIOUS
  <1> HIDE DEF s, a
  <1>8. /\ q \in Seq(FieldCalls) /\ Len(q) \in Nat
        /\ Len(q) >= n /\ \A i \in 1 .. n : q[i] = toField[i]
        /\ r[2] => Len(q) >= n + 1 /\ q[n + 1] = s
        /\ \A i \in n + 1 .. Len(q) : q[i] = a \/ (r[2] /\ i = n + 1 /\ q[i] = s)
    <2> DEFINE o == toField \o news
               new == IF r[2] THEN n + 1 ELSE n
    <2>1. /\ o \in Seq(FieldCalls) /\ Len(o) = new /\ \A i \in 1 .. n : o[i] = toField[i]
          /\ r[2] => o[n + 1] = s
      <3>1. CASE r[2]
        <4>1. news = <<s>> /\ <<s>> \in Seq(FieldCalls) BY <1>5, <3>1
        <4>2. o = Append(toField, s) BY <1>4, <1>5, <4>1, AppendIsConcat
        <4> HIDE DEF o
        <4> QED BY <1>4, <1>5, <3>1, <4>2, AppendProperties
      <3>2. CASE ~r[2]
        <4>1. news = <<>> BY <3>2
        <4>2. o = toField BY <1>4, <4>1, ConcatEmptySeq
        <4> HIDE DEF o
        <4> QED BY <1>4, <3>2, <4>2
      <3> QED BY <1>3, <3>1, <3>2
    <2> HIDE DEF o
    <2>2. new \in Nat /\ new >= n /\ (r[2] => new = n + 1) /\ (~r[2] => new = n) BY <1>4
    <2>3. \A i \in n + 1 .. new : r[2] /\ i = n + 1
      <3>1. CASE r[2] BY <1>4, <2>2, <3>1
      <3>2. CASE ~r[2] BY <1>4, <2>2, <3>2
      <3> QED BY <3>1, <3>2
    <2> HIDE DEF new
    <2>4. CASE calls = <<>>
      <3>1. q = o BY <1>2, <2>1, <2>4, ConcatEmptySeq DEF o
      <3> QED BY <1>4, <2>1, <2>2, <2>3, <3>1
    <2>5. CASE calls = <<a>>
      <3>1. q = Append(o, a) BY <1>2, <1>6, <2>1, <2>5, AppendIsConcat DEF o
      <3>2. /\ q \in Seq(FieldCalls) /\ Len(q) = new + 1 /\ q[new + 1] = a
            /\ \A i \in 1 .. new : q[i] = o[i]
        BY <1>6, <2>1, <3>1, AppendProperties
      <3>3. \A i \in n + 1 .. new + 1 : i = new + 1 \/ i \in n + 1 .. new BY <1>4, <2>2
      <3>4. \A i \in n + 1 .. new : i \in 1 .. new BY <1>4, <2>2
      <3>5. \A i \in 1 .. n : i \in 1 .. new BY <1>4, <2>2
      <3>6. r[2] => n + 1 \in 1 .. new BY <1>4, <2>2
      <3>7. \A i \in n + 1 .. new + 1 : q[i] = a \/ (r[2] /\ i = n + 1 /\ q[i] = s)
        BY <2>1, <2>3, <3>2, <3>3, <3>4
      <3> QED BY <1>4, <2>1, <2>2, <3>2, <3>5, <3>6, <3>7
    <2> QED BY <1>7, <2>4, <2>5
  <1> HIDE DEF n
  <1>9. TextTypeOK'
    <2>1. \A i \in 1 .. Len(q) : i \in 1 .. n \/ i \in n + 1 .. Len(q) BY <1>4, <1>8
    <2>2. ASSUME NEW i \in 1 .. Len(q) PROVE (FieldCallOK(q[i]))'
      BY <1>2, <1>4, <1>5, <1>6, <1>8, <2>1 DEF FieldCallOK
    <2>3. TextTypeOK BY DEF TextInv
    <2>4. \A i \in 1 .. Len(toPlugin) : PluginCallOK(toPlugin[i]) BY <2>3 DEF TextTypeOK
    <2>5. \A i \in 1 .. Len(toPlugin') : (PluginCallOK(toPlugin[i]))' BY <1>2, <2>4 DEF PluginCallOK
    <2>6. \A i \in 1 .. Len(toField') : (FieldCallOK(toField[i]))' BY <1>1, <2>2 DEF FieldCallOK
    <2> QED BY <1>1, <1>2, <1>3, <1>8, <2>3, <2>5, <2>6 DEF TextTypeOK
  <1>10. Settings' = Settings /\ Connections' = Connections BY <1>2 DEF Settings, Connections
  <1>11. OneSpeaks'
    <2>1. SUFFICES ASSUME field.client # NoClient, ~crossed' PROVE OneSpeaks' BY <1>2 DEF OneSpeaks
    <2>2. OneSpeaks /\ ~crossed /\ (r[2] => toPlugin = <<>>) BY <1>2, <2>1 DEF TextInv
    <2>3. CASE r[2]
      <3>1. toPlugin = <<>> /\ Settings = {} /\ Connections = {}
        BY <2>2, <2>3 DEF Settings, Connections
      <3>2. text_input.connection_id = field.client BY <2>1, <2>2, <3>1 DEF OneSpeaks
      <3>3. n + 1 \in Updates' /\ \A i \in Updates' : i <= n + 1
        <4>1. n + 1 \in 1 .. Len(q) BY <1>4, <1>8, <2>3
        <4>2. n + 1 \in Updates' BY <1>1, <1>2, <1>5, <1>8, <2>3, <3>2, <4>1 DEF Updates
        <4>3. ASSUME NEW i \in Updates', ~(i <= n + 1) PROVE FALSE
          <5>1. i \in 1 .. Len(q) /\ q[i].method = "updateEditingState" BY <1>1 DEF Updates
          <5>2. i \in n + 1 .. Len(q) /\ i # n + 1 BY <1>4, <1>8, <4>3, <5>1
          <5> QED BY <1>6, <1>8, <5>1, <5>2
        <4> QED BY <4>2, <4>3
      <3>4. SaysPlugin(s)' BY <1>2, <1>5 DEF SaysPlugin
      <3>5. \A i \in 1 .. Len(q) : LastOf(Updates', i) => (SaysPlugin(q[i]))'
        <4>1. ASSUME NEW i \in 1 .. Len(q), LastOf(Updates', i) PROVE i = n + 1
          <5>1. n + 1 <= i /\ i <= n + 1 BY <3>3, <4>1 DEF LastOf
          <5> QED BY <1>4, <1>8, <5>1
        <4>2. q[n + 1] = s BY <1>8, <2>3
        <4> QED BY <3>4, <4>1, <4>2 DEF SaysPlugin
      <3>6. text_input'.connection_id = field'.client BY <1>2, <1>3, <3>2
      <3>7. \A i \in 1 .. Len(toPlugin') : FALSE BY <1>2, <3>1
      <3>8. \A i \in 1 .. Len(toField') : LastOf(Updates', i) => (SaysPlugin(toField[i]))'
        BY <1>1, <3>5 DEF SaysPlugin
      <3> QED BY <1>2, <1>10, <3>1, <3>3, <3>6, <3>7, <3>8 DEF OneSpeaks
    <2>4. CASE ~r[2]
      <3>1. text_input'.text = text_input.text /\ text_input'.connection_id = text_input.connection_id
            /\ (astray \/ text_input' = text_input)
        BY <1>2, <1>3, <2>4
      <3>2. Updates' = Updates
        <4>1. \A i \in n + 1 .. Len(q) : q[i].method # "updateEditingState"
          BY <1>6, <1>8, <2>4
        <4>2. \A i : i \in 1 .. Len(q) <=> i \in 1 .. n \/ i \in n + 1 .. Len(q) BY <1>4, <1>8
        <4>3. Updates' = {i \in 1 .. Len(q) : /\ q[i].method = "updateEditingState"
                                            /\ q[i].client = field.client}
          BY <1>1, <1>2 DEF Updates
        <4>4. ASSUME NEW i PROVE i \in Updates' <=> i \in Updates
          <5>1. CASE i \in 1 .. n
            <6>1. q[i] = toField[i] /\ i \in 1 .. Len(q) BY <1>8, <4>2, <5>1
            <6> QED BY <4>3, <5>1, <6>1 DEF Updates, n
          <5>2. CASE i \notin 1 .. n
            <6>1. i \notin Updates BY <5>2 DEF Updates, n
            <6>2. i \notin Updates' BY <4>1, <4>2, <4>3, <5>2
            <6> QED BY <6>1, <6>2
          <5> QED BY <5>1, <5>2
        <4> QED BY <4>3, <4>4 DEF Updates
      <3>3. Updates \subseteq 1 .. n BY DEF Updates, n
      <3>4. \A i \in 1 .. Len(q) : LastOf(Updates', i) => (SaysPlugin(q[i]))'
        <4>1. ASSUME NEW i \in 1 .. Len(q), LastOf(Updates', i) PROVE (SaysPlugin(q[i]))'
          <5>1. i \in 1 .. n /\ LastOf(Updates, i) BY <3>2, <3>3, <4>1 DEF LastOf
          <5>2. SaysPlugin(toField[i]) BY <2>1, <2>2, <5>1 DEF OneSpeaks, n
          <5> QED BY <1>2, <1>8, <3>1, <5>1, <5>2 DEF SaysPlugin
        <4> QED BY <4>1
      <3>5. Alike' <=> Alike BY <1>2, <3>1 DEF Alike
      <3>6. \A i \in 1 .. Len(toField') : LastOf(Updates', i) => (SaysPlugin(toField[i]))'
        BY <1>1, <3>4 DEF SaysPlugin
      <3>7. \A i \in 1 .. Len(toPlugin) : LastOf(Settings, i) => (SaysField(toPlugin[i]))'
        BY <1>2, <2>1, <2>2 DEF OneSpeaks, SaysField
      <3> QED BY <1>2, <1>10, <2>1, <2>2, <3>1, <3>2, <3>5, <3>6, <3>7 DEF OneSpeaks
    <2> QED BY <1>3, <2>3, <2>4
  <1> QED BY <1>9, <1>11 DEF TextInv

(* A key that types a character tells the field what the plugin has then.  *)
LEMMA KeysTyped ==
  ASSUME TextInv, NEW c \in Symbols, TextinOnUtf8Char(c)
  PROVE  TextInv'
  <1> DEFINE r == ModelAddUtf8Char(text_input, c)
  <1>1. Press /\ text_input.connection_id # NoClient /\ Apply(r, <<>>) BY DEF TextinOnUtf8Char
  <1>2. Edited(text_input, r) BY TextIs, CharsAre, AddUtf8CharIs
  <1> HIDE DEF r
  <1>3. <<>> \in {<<>>, <<ClientPerformAction(text_input)>>} OBVIOUS
  <1> QED BY <1>1, <1>2, <1>3, Applied

(* So do the keys that edit; Return adds the field's action.               *)
LEMMA KeysPressed ==
  ASSUME TextInv, NEW k \in Keysyms, OnKeysym(k)
  PROVE  TextInv'
  <1> DEFINE t == text_input
             a == <<ClientPerformAction(t)>>
             r == IF t.multiline THEN ModelAddUtf8Char(t, "NL") ELSE <<t, FALSE>>
  <1>1. Press /\ t.connection_id # NoClient BY DEF OnKeysym
  <1>2. t \in TextStates BY TextIs
  <1>3. Edited(t, r)
    <2>1. CASE t.multiline BY <1>2, <2>1, CharsAre, AddUtf8CharIs
    <2>2. CASE ~t.multiline
      <3>1. r = <<t, FALSE>> BY <2>2
      <3> HIDE DEF r
      <3> QED BY <1>2, <3>1 DEF Edited
    <2> QED BY <2>1, <2>2
  <1> HIDE DEF r
  <1>4. \/ Apply(ModelBackspace(t), <<>>)
        \/ Apply(ModelDelete(t), <<>>)
        \/ Apply(ModelMoveCursorToEnd(t), <<>>)
        \/ Apply(ModelMoveCursorToBeginning(t), <<>>)
        \/ Apply(r, a)
    BY DEF OnKeysym, Keysyms, r
  <1>5. /\ Edited(t, ModelBackspace(t)) /\ Edited(t, ModelDelete(t))
        /\ Edited(t, ModelMoveCursorToEnd(t)) /\ Edited(t, ModelMoveCursorToBeginning(t))
    BY <1>2, BackspaceIs, DeleteIs, CursorMovesAre
  <1>6. <<>> \in {<<>>, a} /\ a \in {<<>>, a} OBVIOUS
  <1>7. ASSUME NEW s, Edited(t, s), NEW calls \in {<<>>, a}, Apply(s, calls) PROVE TextInv'
    BY <1>1, <1>7, Applied
  <1> QED BY <1>3, <1>4, <1>5, <1>6, <1>7

(* What is left behind the first.                                          *)
LEMMA RestIs ==
  ASSUME NEW S, NEW s \in Seq(S), s # <<>>
  PROVE  /\ Tail(s) \in Seq(S) /\ Head(s) = s[1] /\ Len(s) \in Nat /\ Len(s) >= 1
         /\ Len(Tail(s)) = Len(s) - 1
         /\ \A i \in 1 .. Len(s) - 1 : Tail(s)[i] = s[i + 1] /\ i + 1 \in 1 .. Len(s)
         /\ 1 \in 1 .. Len(s)
  BY HeadTailProperties, LenProperties

(* The indices move up by one.                                             *)
LEMMA LastMoves ==
  ASSUME NEW n \in Nat, NEW S \in SUBSET (1 .. n + 1), NEW T \in SUBSET (1 .. n),
         \A i \in 1 .. n : i \in T <=> i + 1 \in S
  PROVE  /\ \A i : LastOf(T, i) => i \in 1 .. n /\ LastOf(S, i + 1)
         /\ T = {} /\ 1 \in S => LastOf(S, 1)
         /\ T = {} /\ 1 \notin S => S = {}
  <1>1. ASSUME NEW j \in S, j # 1 PROVE j - 1 \in T /\ j - 1 \in 1 .. n
    <2>1. j - 1 \in 1 .. n /\ j = (j - 1) + 1 BY <1>1
    <2> QED BY <1>1, <2>1
  <1>2. ASSUME NEW i, LastOf(T, i) PROVE i \in 1 .. n /\ LastOf(S, i + 1)
    <2>1. i \in 1 .. n /\ i + 1 \in S BY <1>2 DEF LastOf
    <2>2. ASSUME NEW j \in S PROVE j <= i + 1
      <3>1. CASE j = 1 BY <2>1, <3>1
      <3>2. CASE j # 1
        <4>1. j - 1 <= i /\ j \in 1 .. n + 1 BY <1>1, <1>2, <3>2 DEF LastOf
        <4> QED BY <2>1, <4>1
      <3> QED BY <3>1, <3>2
    <2> QED BY <2>1, <2>2 DEF LastOf
  <1>3. T = {} => \A j \in S : j = 1 BY <1>1
  <1>4. T = {} /\ 1 \in S => LastOf(S, 1) BY <1>3 DEF LastOf
  <1> QED BY <1>2, <1>3, <1>4

(* A call of Flutter reaches the plugin.                                   *)
LEMMA CallReceived ==
  ASSUME TextInv, OnReceive
  PROVE  TextInv'
  <1> DEFINE h == Head(toPlugin)
             n == Len(toPlugin) - 1
  <1>1. PICK p : p = toPlugin' OBVIOUS
  <1>2. /\ toPlugin # <<>> /\ p = Tail(toPlugin)
        /\ field' = field /\ toField' = toField /\ clients' = clients /\ crossed' = crossed
    BY <1>1 DEF OnReceive
  <1>3. /\ h.method = "setClient" => OnSetClient(h)
        /\ h.method = "clearClient" => OnClearClient
        /\ h.method = "setEditingState" => OnSetEditingState(h)
        /\ h.method = "show" => text_input' = text_input
        /\ astray' = IF h.method = "setEditingState"
                     THEN ~({h.base, h.extent} \subseteq 0 .. Len(h.text)) ELSE astray
    BY DEF OnReceive
  <1>4. TextTypeOK BY DEF TextInv
  <1>5. /\ p \in Seq(PluginCalls) /\ h = toPlugin[1] /\ n \in Nat /\ Len(p) = n
        /\ Len(toPlugin) = n + 1
        /\ \A i \in 1 .. n : p[i] = toPlugin[i + 1] /\ i + 1 \in 1 .. n + 1
        /\ 1 \in 1 .. n + 1
    <2>1. toPlugin \in Seq(PluginCalls) BY <1>4 DEF TextTypeOK
    <2> QED BY <1>2, <2>1, RestIs
  <1>6. h \in PluginCalls /\ PluginCallOK(h) BY <1>5, TextIs
  <1>7. /\ h.method \in {"setClient", "clearClient", "setEditingState", "show"}
        /\ h.method = "setClient" => h.client \in Int /\ h.multiline \in BOOLEAN
        /\ h.method = "setEditingState" =>
              h.text \in Seq(Chars) /\ h.base \in Int /\ h.extent \in Int
    BY <1>6, CallsAre
  <1> HIDE DEF n, h
  <1>8. text_input \in TextStates BY TextIs
  <1>9. /\ h.method = "setClient" =>
              /\ text_input' \in TextStates /\ text_input'.connection_id = h.client
              /\ text_input'.text = text_input.text
              /\ text_input'.selection_base = text_input.selection_base
              /\ text_input'.selection_extent = text_input.selection_extent
        /\ h.method = "clearClient" =>
              /\ text_input' \in TextStates /\ text_input'.connection_id = -1
              /\ text_input'.text = text_input.text
              /\ text_input'.selection_base = text_input.selection_base
              /\ text_input'.selection_extent = text_input.selection_extent
        /\ h.method = "setEditingState" =>
              /\ text_input' \in TextStates
              /\ text_input'.connection_id = text_input.connection_id
              /\ text_input'.text = h.text
              /\ text_input'.selection_base = h.base /\ text_input'.selection_extent = h.extent
    <2>1. CASE h.method = "setClient"
      <3>1. text_input' = [text_input EXCEPT !.connection_id = h.client, !.multiline = h.multiline]
        BY <1>3, <2>1 DEF OnSetClient
      <3> QED BY <1>7, <1>8, <2>1, <3>1 DEF TextStates
    <2>2. CASE h.method = "clearClient"
      <3>1. text_input' = [text_input EXCEPT !.connection_id = -1]
        BY <1>3, <2>2 DEF OnClearClient, NoClient
      <3> QED BY <1>8, <2>2, <3>1 DEF TextStates
    <2>3. CASE h.method = "setEditingState"
      <3>1. text_input' = [text_input EXCEPT !.text = h.text, !.selection_base = h.base,
                                             !.selection_extent = h.extent]
        BY <1>3, <2>3 DEF OnSetEditingState
      <3> QED BY <1>7, <1>8, <2>3, <3>1 DEF TextStates
    <2> QED BY <2>1, <2>2, <2>3
  <1>10. TextTypeOK'
    <2>1. text_input' \in TextStates /\ (~astray' => TextSettled(text_input')) /\ astray' \in BOOLEAN
      <3>1. CASE h.method = "setEditingState" BY <1>3, <1>9, <3>1 DEF TextSettled, Within
      <3>2. CASE h.method # "setEditingState"
        <4>1. ~astray => TextSettled(text_input) BY <1>4 DEF TextTypeOK
        <4>2. astray' = astray /\ astray \in BOOLEAN BY <1>3, <1>4, <3>2 DEF TextTypeOK
        <4> QED BY <1>3, <1>7, <1>8, <1>9, <3>2, <4>1, <4>2 DEF TextSettled
      <3> QED BY <3>1, <3>2
    <2>2. text_input'.connection_id \in -1 .. clients - 1
      <3>1. text_input.connection_id \in -1 .. clients - 1 /\ clients \in Nat BY TextIs
      <3>2. h.method = "setClient" => h.client \in -1 .. clients - 1
        BY <1>6, <3>1 DEF PluginCallOK
      <3> QED BY <1>3, <1>7, <1>9, <3>1, <3>2
    <2>3. \A i \in 1 .. Len(toPlugin) : PluginCallOK(toPlugin[i]) BY <1>4 DEF TextTypeOK
    <2>4. \A i \in 1 .. Len(toPlugin') : (PluginCallOK(toPlugin[i]))'
      BY <1>1, <1>2, <1>5, <2>3 DEF PluginCallOK
    <2>5. \A i \in 1 .. Len(toField) : FieldCallOK(toField[i]) BY <1>4 DEF TextTypeOK
    <2>6. \A i \in 1 .. Len(toField') : (FieldCallOK(toField[i]))' BY <1>2, <2>5 DEF FieldCallOK
    <2> QED BY <1>1, <1>2, <1>4, <1>5, <2>1, <2>2, <2>4, <2>6 DEF TextTypeOK
  <1>11. OneSpeaks'
    <2>1. SUFFICES ASSUME field.client # NoClient, ~crossed PROVE OneSpeaks' BY <1>2 DEF OneSpeaks
    <2>2. OneSpeaks BY DEF TextInv
    <2>3. Updates = {} /\ Updates' = {} BY <1>2, <2>1, <2>2 DEF OneSpeaks, Updates
    <2>4. /\ \A i : i \in Settings <=> i \in 1 .. n + 1 /\ toPlugin[i].method = "setEditingState"
          /\ \A i : i \in Settings' <=> i \in 1 .. n /\ p[i].method = "setEditingState"
          /\ \A i : i \in Connections <=>
                i \in 1 .. n + 1 /\ toPlugin[i].method \in {"setClient", "clearClient"}
          /\ \A i : i \in Connections' <=>
                i \in 1 .. n /\ p[i].method \in {"setClient", "clearClient"}
      BY <1>1, <1>5 DEF Settings, Connections
    <2>5. /\ Settings \in SUBSET (1 .. n + 1) /\ Settings' \in SUBSET (1 .. n)
          /\ Connections \in SUBSET (1 .. n + 1) /\ Connections' \in SUBSET (1 .. n)
      BY <2>4
    <2>6. \A i \in 1 .. n : (i \in Settings' <=> i + 1 \in Settings)
                            /\ (i \in Connections' <=> i + 1 \in Connections)
      BY <1>5, <2>4
    <2>7. /\ \A i : LastOf(Settings', i) => i \in 1 .. n /\ LastOf(Settings, i + 1)
          /\ Settings' = {} /\ 1 \in Settings => LastOf(Settings, 1)
          /\ Settings' = {} /\ 1 \notin Settings => Settings = {}
      BY <1>5, <2>5, <2>6, LastMoves
    <2>8. /\ \A i : LastOf(Connections', i) => i \in 1 .. n /\ LastOf(Connections, i + 1)
          /\ Connections' = {} /\ 1 \in Connections => LastOf(Connections, 1)
          /\ Connections' = {} /\ 1 \notin Connections => Connections = {}
      BY <1>5, <2>5, <2>6, LastMoves
    <2>9. /\ \A i \in 1 .. n + 1 : LastOf(Connections, i) =>
                toPlugin[i].method = "setClient" /\ toPlugin[i].client = field.client
          /\ \A i \in 1 .. n + 1 : LastOf(Settings, i) => SaysField(toPlugin[i])
          /\ Connections = {} => text_input.connection_id = field.client
          /\ Settings = {} => Alike
      BY <1>5, <2>1, <2>2, <2>3 DEF OneSpeaks
    <2>10. /\ 1 \in Settings <=> h.method = "setEditingState"
           /\ 1 \in Connections <=> h.method \in {"setClient", "clearClient"}
      BY <1>5, <2>4
    <2>11. Connections' = {} => text_input'.connection_id = field.client
      <3>1. SUFFICES ASSUME Connections' = {} PROVE text_input'.connection_id = field.client OBVIOUS
      <3>2. CASE 1 \in Connections
        <4>1. h.method = "setClient" /\ h.client = field.client
          BY <1>5, <2>8, <2>9, <3>1, <3>2
        <4> QED BY <1>9, <4>1
      <3>3. CASE 1 \notin Connections
        <4>1. text_input.connection_id = field.client BY <2>8, <2>9, <3>1, <3>3
        <4> QED BY <1>3, <1>7, <1>9, <2>10, <3>3, <4>1
      <3> QED BY <3>2, <3>3
    <2>12. \A i \in 1 .. Len(p) : LastOf(Connections', i) =>
              p[i].method = "setClient" /\ p[i].client = field.client
      BY <1>5, <2>8, <2>9
    <2>13. \A i \in 1 .. Len(p) : LastOf(Settings', i) => SaysField(p[i]) BY <1>5, <2>7, <2>9
    <2>14. Settings' = {} => Alike'
      <3>1. SUFFICES ASSUME Settings' = {} PROVE Alike' OBVIOUS
      <3>2. CASE 1 \in Settings
        <4>1. SaysField(h) /\ h.method = "setEditingState" BY <1>5, <2>7, <2>9, <2>10, <3>1, <3>2
        <4> QED BY <1>2, <1>9, <4>1 DEF SaysField, Alike
      <3>3. CASE 1 \notin Settings
        <4>1. Alike BY <2>7, <2>9, <3>1, <3>3
        <4>2. /\ text_input'.text = text_input.text /\ astray' = astray
              /\ text_input'.selection_base = text_input.selection_base
              /\ text_input'.selection_extent = text_input.selection_extent
          BY <1>3, <1>7, <1>9, <2>10, <3>3
        <4> QED BY <1>2, <4>1, <4>2 DEF Alike
      <3> QED BY <3>2, <3>3
    <2>15. \A i \in 1 .. Len(toPlugin') : LastOf(Connections', i) =>
              toPlugin'[i].method = "setClient" /\ toPlugin'[i].client = field'.client
      BY <1>1, <1>2, <2>12
    <2>16. \A i \in 1 .. Len(toPlugin') : LastOf(Settings', i) => (SaysField(toPlugin[i]))'
      BY <1>1, <1>2, <2>13 DEF SaysField
    <2>17. \A i \in 1 .. Len(toField') : ~LastOf(Updates', i) BY <2>3 DEF LastOf
    <2> QED BY <1>2, <2>3, <2>11, <2>14, <2>15, <2>16, <2>17 DEF OneSpeaks
  <1> QED BY <1>10, <1>11 DEF TextInv

(* A call of the plugin reaches the field.                                 *)
LEMMA FieldReceived ==
  ASSUME TextInv, FieldReceive
  PROVE  TextInv'
  <1> DEFINE h == Head(toField)
             n == Len(toField) - 1
             updated == h.method = "updateEditingState" /\ h.client = field.client
  <1>1. PICK q : q = toField' OBVIOUS
  <1>2. /\ toField # <<>> /\ q = Tail(toField)
        /\ text_input' = text_input /\ toPlugin' = toPlugin /\ clients' = clients
        /\ crossed' = crossed /\ astray' = astray
    BY <1>1 DEF FieldReceive
  <1>3. TextTypeOK BY DEF TextInv
  <1>4. /\ q \in Seq(FieldCalls) /\ h = toField[1] /\ n \in Nat /\ Len(q) = n
        /\ Len(toField) = n + 1
        /\ \A i \in 1 .. n : q[i] = toField[i + 1] /\ i + 1 \in 1 .. n + 1
        /\ 1 \in 1 .. n + 1
    <2>1. toField \in Seq(FieldCalls) BY <1>3 DEF TextTypeOK
    <2> QED BY <1>2, <2>1, RestIs
  <1>5. h \in FieldCalls /\ FieldCallOK(h) BY <1>4, TextIs
  <1>6. /\ h.method \in {"performAction", "updateEditingState"}
        /\ h.method = "updateEditingState" =>
              h.text \in Seq(Chars) /\ h.base \in Int /\ h.extent \in Int
    BY <1>5, CallsAre
  <1>7. /\ ~updated => field' = field \/ field' = [field EXCEPT !.actions = @ + 1]
        /\ updated => field' = [field EXCEPT !.text = h.text, !.base = h.base, !.extent = h.extent]
    BY <1>6 DEF FieldReceive
  <1> HIDE DEF n, h
  <1>8. field \in Fields BY TextIs
  <1>9. /\ field' \in Fields /\ field'.client = field.client
        /\ ~updated => /\ field'.text = field.text /\ field'.base = field.base
                       /\ field'.extent = field.extent
        /\ updated => /\ field'.text = h.text /\ field'.base = h.base /\ field'.extent = h.extent
    <2>1. CASE updated BY <1>7, <1>6, <1>8, <2>1 DEF Fields
    <2>2. CASE ~updated BY <1>7, <1>8, <2>2 DEF Fields
    <2> QED BY <2>1, <2>2
  <1>10. TextTypeOK'
    <2>1. \A i \in 1 .. Len(toPlugin) : PluginCallOK(toPlugin[i]) BY <1>3 DEF TextTypeOK
    <2>2. \A i \in 1 .. Len(toPlugin') : (PluginCallOK(toPlugin[i]))' BY <1>2, <2>1 DEF PluginCallOK
    <2>3. \A i \in 1 .. Len(toField) : FieldCallOK(toField[i]) BY <1>3 DEF TextTypeOK
    <2>4. \A i \in 1 .. Len(toField') : (FieldCallOK(toField[i]))'
      BY <1>1, <1>2, <1>4, <2>3 DEF FieldCallOK
    <2> QED BY <1>1, <1>2, <1>3, <1>4, <1>9, <2>2, <2>4 DEF TextTypeOK
  <1>11. OneSpeaks'
    <2>1. SUFFICES ASSUME field.client # NoClient, ~crossed PROVE OneSpeaks'
      BY <1>2, <1>9 DEF OneSpeaks
    <2>2. OneSpeaks BY DEF TextInv
    <2>3. Settings' = Settings /\ Connections' = Connections BY <1>2 DEF Settings, Connections
    <2>4. /\ \A i : i \in Updates <=> /\ i \in 1 .. n + 1
                 /\ toField[i].method = "updateEditingState"
                                      /\ toField[i].client = field.client
          /\ \A i : i \in Updates' <=> /\ i \in 1 .. n /\ q[i].method = "updateEditingState"
                                       /\ q[i].client = field.client
      BY <1>1, <1>4, <1>9 DEF Updates
    <2>5. Updates \in SUBSET (1 .. n + 1) /\ Updates' \in SUBSET (1 .. n) BY <2>4
    <2>6. \A i \in 1 .. n : i \in Updates' <=> i + 1 \in Updates BY <1>4, <2>4
    <2>7. /\ \A i : LastOf(Updates', i) => i \in 1 .. n /\ LastOf(Updates, i + 1)
          /\ Updates' = {} /\ 1 \in Updates => LastOf(Updates, 1)
          /\ Updates' = {} /\ 1 \notin Updates => Updates = {}
      BY <1>4, <2>5, <2>6, LastMoves
    <2>8. 1 \in Updates <=> updated BY <1>4, <2>4
    <2>9. Updates = {} => Updates' = {}
      <3>1. ASSUME NEW i \in Updates' PROVE i + 1 \in Updates BY <2>5, <2>6
      <3> QED BY <3>1
    <2> HIDE DEF updated
    <2>10. \A i \in 1 .. Len(toField') : LastOf(Updates', i) => (SaysPlugin(toField[i]))'
      <3>1. ASSUME NEW i \in 1 .. n, LastOf(Updates', i) PROVE SaysPlugin(q[i])
        <4>1. LastOf(Updates, i + 1) /\ i + 1 \in 1 .. n + 1 BY <1>4, <2>7, <3>1
        <4> QED BY <1>4, <2>1, <2>2, <3>1, <4>1 DEF OneSpeaks
      <3> QED BY <1>1, <1>2, <1>4, <3>1 DEF SaysPlugin
    <2>11. toPlugin = <<>> \/ Updates' = {} BY <2>1, <2>2, <2>9 DEF OneSpeaks
    <2>12. Settings = {} /\ Updates' = {} => Alike'
      <3>1. SUFFICES ASSUME Settings = {}, Updates' = {} PROVE Alike' OBVIOUS
      <3>2. CASE updated
        <4>1. LastOf(Updates, 1) BY <2>7, <2>8, <3>1, <3>2
        <4>2. SaysPlugin(h) BY <1>4, <2>1, <2>2, <4>1 DEF OneSpeaks
        <4> QED BY <1>2, <1>9, <3>2, <4>2 DEF SaysPlugin, Alike
      <3>3. CASE ~updated
        <4>1. Alike BY <2>1, <2>2, <2>7, <2>8, <3>1, <3>3 DEF OneSpeaks
        <4> QED BY <1>2, <1>9, <3>3, <4>1 DEF Alike
      <3> QED BY <3>2, <3>3
    <2>13. \A i \in 1 .. Len(toPlugin) : LastOf(Settings, i) => (SaysField(toPlugin[i]))'
      <3>1. CASE updated
        <4>1. toPlugin = <<>> BY <2>1, <2>2, <2>8, <3>1 DEF OneSpeaks
        <4> QED BY <4>1
      <3>2. CASE ~updated BY <1>2, <1>9, <2>1, <2>2, <3>2 DEF OneSpeaks, SaysField
      <3> QED BY <3>1, <3>2
    <2>14. /\ Connections = {} => text_input.connection_id = field.client
           /\ \A i \in 1 .. Len(toPlugin) : LastOf(Connections, i) =>
                 toPlugin[i].method = "setClient" /\ toPlugin[i].client = field.client
      BY <2>1, <2>2 DEF OneSpeaks
    <2> QED BY <1>2, <1>9, <2>3, <2>10, <2>11, <2>12, <2>13, <2>14 DEF OneSpeaks
  <1> QED BY <1>10, <1>11 DEF TextInv

(* A new transaction: what the plugin is told last is what the field has.  *)
LEMMA Attached ==
  ASSUME TextInv, NEW m \in BOOLEAN, FieldAttach(m)
  PROVE  TextInv'
  <1>1. PICK p : p = toPlugin' OBVIOUS
  <1>2. PICK a : a = [method |-> "setClient", client |-> clients, multiline |-> m] OBVIOUS
  <1>3. PICK b : b = EditingState(field) OBVIOUS
  <1> DEFINE n == Len(toPlugin)
             c == [method |-> "show"]
             new == <<a, b, c>>
  <1>4. /\ clients' = clients + 1 /\ field' = [field EXCEPT !.client = clients]
        /\ p = toPlugin \o new /\ crossed' = crossed
        /\ text_input' = text_input /\ toField' = toField /\ astray' = astray
    BY <1>1, <1>2, <1>3 DEF FieldAttach
  <1>5. TextTypeOK BY DEF TextInv
  <1>6. /\ clients \in Nat /\ field \in Fields
        /\ toPlugin \in Seq(PluginCalls) /\ n \in Nat
        /\ \A i \in 1 .. n : toPlugin[i] \in PluginCalls /\ PluginCallOK(toPlugin[i])
    BY TextIs
  <1>7. /\ field'.client = clients /\ field'.text = field.text /\ field'.base = field.base
        /\ field'.extent = field.extent /\ field' \in Fields
    <2>1. clients \in Int BY <1>6
    <2> QED BY <1>4, <1>6, <2>1 DEF Fields
  <1>8. field.text \in Seq(Chars) /\ field.base \in Int /\ field.extent \in Int BY TextIs
  <1>9. /\ b \in PluginCalls /\ b.method = "setEditingState" /\ b.text = FlutterWrites(field.text)
        /\ b.base = field.base /\ b.extent = field.extent
    BY <1>8, <1>3, EditingStateIs
  <1>10. /\ a \in PluginCalls /\ a.method = "setClient" /\ a.client = clients
         /\ c \in PluginCalls /\ c.method = "show"
    BY <1>6, <1>2 DEF PluginCalls
  <1> HIDE DEF c
  <1>11. /\ p \in Seq(PluginCalls) /\ Len(p) = n + 3
         /\ \A i \in 1 .. n : p[i] = toPlugin[i]
         /\ p[n + 1] = a /\ p[n + 2] = b /\ p[n + 3] = c
    <2>1. new \in Seq(PluginCalls) /\ Len(new) = 3 /\ new[1] = a /\ new[2] = b /\ new[3] = c
      BY <1>9, <1>10
    <2> HIDE DEF new
    <2>2. /\ p \in Seq(PluginCalls) /\ Len(p) = n + 3
          /\ \A i \in 1 .. n : p[i] = toPlugin[i]
          /\ \A i \in n + 1 .. n + 3 : p[i] = new[i - n]
      <3>1. /\ toPlugin \o new \in Seq(PluginCalls)
            /\ Len(toPlugin \o new) = Len(toPlugin) + Len(new)
            /\ \A i \in 1 .. Len(toPlugin) + Len(new) :
                  (toPlugin \o new)[i]
                      = IF i <= Len(toPlugin) THEN toPlugin[i] ELSE new[i - Len(toPlugin)]
        <4>1. toPlugin \in Seq(PluginCalls) /\ new \in Seq(PluginCalls) BY <1>6, <2>1
        <4> QED BY <4>1, ConcatProperties
      <3>2. p = toPlugin \o new /\ Len(new) = 3 BY <1>4, <2>1
      <3>3. Len(p) = n + 3 /\ p \in Seq(PluginCalls) BY <3>1, <3>2
      <3>4. \A i \in 1 .. n + 3 : p[i] = IF i <= n THEN toPlugin[i] ELSE new[i - n]
        BY <3>1, <3>2
      <3>5. \A i \in 1 .. n : i \in 1 .. n + 3 /\ i <= n BY <1>6
      <3>6. \A i \in n + 1 .. n + 3 : i \in 1 .. n + 3 /\ ~(i <= n) BY <1>6
      <3> QED BY <3>3, <3>4, <3>5, <3>6
    <2>3. /\ n + 1 \in n + 1 .. n + 3 /\ n + 2 \in n + 1 .. n + 3 /\ n + 3 \in n + 1 .. n + 3
          /\ (n + 1) - n = 1 /\ (n + 2) - n = 2 /\ (n + 3) - n = 3
      BY <1>6
    <2> QED BY <2>1, <2>2, <2>3
  <1> HIDE DEF n, new
  <1>12. \A i \in 1 .. n + 3 : i \in 1 .. n \/ i = n + 1 \/ i = n + 2 \/ i = n + 3 BY <1>6
  <1>13. \A i \in 1 .. Len(toField) : FieldCallOK(toField[i]) BY <1>5 DEF TextTypeOK
  <1>14. TextTypeOK'
    <2>1. ASSUME NEW i \in 1 .. Len(p) PROVE (PluginCallOK(p[i]))'
      <3>1. CASE i \in 1 .. n
        <4>1. p[i] = toPlugin[i] /\ PluginCallOK(toPlugin[i]) BY <1>6, <1>11, <3>1
        <4> QED BY <1>4, <1>6, <4>1 DEF PluginCallOK
      <3>2. CASE i = n + 1
        <4>1. p[i] = a /\ clients \in 0 .. clients' - 1 BY <1>4, <1>6, <1>11, <3>2
        <4> QED BY <1>10, <4>1 DEF PluginCallOK
      <3>3. CASE i = n + 2 BY <1>9, <1>11, <3>3 DEF PluginCallOK
      <3>4. CASE i = n + 3 BY <1>10, <1>11, <3>4 DEF PluginCallOK
      <3> QED BY <1>11, <1>12, <3>1, <3>2, <3>3, <3>4
    <2>2. \A i \in 1 .. Len(toPlugin') : (PluginCallOK(toPlugin[i]))'
      BY <1>1, <2>1 DEF PluginCallOK
    <2>3. \A i \in 1 .. Len(toField') : (FieldCallOK(toField[i]))'
      BY <1>4, <1>6, <1>13 DEF FieldCallOK
    <2>4. clients' \in Nat /\ field'.client \in -1 .. clients' - 1 BY <1>4, <1>6, <1>7
    <2>5. text_input'.connection_id \in -1 .. clients' - 1
      <3>1. text_input.connection_id \in -1 .. clients - 1 BY TextIs
      <3> QED BY <1>4, <1>6, <3>1
    <2>6. toField' \in Seq(FieldCalls) BY <1>4, <1>5 DEF TextTypeOK
    <2> QED BY <1>1, <1>4, <1>5, <1>7, <1>11, <2>2, <2>3, <2>4, <2>5, <2>6 DEF TextTypeOK
  <1>15. OneSpeaks'
    <2>1. Updates' = {}
      <3>1. ASSUME NEW i \in 1 .. Len(toField) PROVE toField[i].client # clients
        BY <1>6, <1>13 DEF FieldCallOK
      <3>2. \A i \in Updates' : i \in 1 .. Len(toField) /\ toField[i].client = clients
        BY <1>4, <1>7 DEF Updates
      <3> QED BY <3>1, <3>2
    <2>2. \A i : i \in Connections' <=>
             i \in 1 .. n + 3 /\ p[i].method \in {"setClient", "clearClient"}
      BY <1>1, <1>11 DEF Connections
    <2>3. \A i : i \in Settings' <=> i \in 1 .. n + 3 /\ p[i].method = "setEditingState"
      BY <1>1, <1>11 DEF Settings
    <2>4. n + 1 \in 1 .. n + 3 /\ n + 2 \in 1 .. n + 3 BY <1>6
    <2>5. n + 1 \in Connections' BY <1>10, <1>11, <2>2, <2>4
    <2>6. n + 2 \in Settings' BY <1>9, <1>11, <2>3, <2>4
    <2>7. ASSUME NEW i, LastOf(Connections', i) PROVE p[i] = a
      <3>1. i \in Connections' /\ n + 1 <= i BY <2>5, <2>7 DEF LastOf
      <3>2. i # n + 2 /\ i # n + 3 BY <1>9, <1>10, <1>11, <2>2, <3>1
      <3>3. i = n + 1 BY <1>6, <1>12, <2>2, <3>1, <3>2
      <3> QED BY <1>11, <3>3
    <2>8. ASSUME NEW i, LastOf(Settings', i) PROVE p[i] = b
      <3>1. i \in Settings' /\ n + 2 <= i BY <2>6, <2>8 DEF LastOf
      <3>2. i # n + 3 BY <1>10, <1>11, <2>3, <3>1
      <3>3. i = n + 2 BY <1>6, <1>12, <2>3, <3>1, <3>2
      <3> QED BY <1>11, <3>3
    <2>9. \A i \in 1 .. Len(toPlugin') : LastOf(Connections', i) =>
             toPlugin'[i].method = "setClient" /\ toPlugin'[i].client = field'.client
      <3>1. \A i : LastOf(Connections', i) => p[i] = a BY <2>7
      <3>2. p = toPlugin' /\ a.method = "setClient" /\ a.client = field'.client BY <1>1, <1>7, <1>10
      <3> QED BY <3>1, <3>2
    <2>10. SaysField(b)' BY <1>7, <1>9 DEF SaysField
    <2>11. \A i \in 1 .. Len(toPlugin') : LastOf(Settings', i) => (SaysField(toPlugin[i]))'
      <3>1. \A i : LastOf(Settings', i) => p[i] = b BY <2>8
      <3>2. ASSUME NEW i \in 1 .. Len(toPlugin'), LastOf(Settings', i)
            PROVE (SaysField(toPlugin[i]))'
        <4>1. toPlugin'[i] = b BY <1>1, <3>1, <3>2
        <4> QED BY <2>10, <4>1 DEF SaysField
      <3> QED BY <3>2
    <2>12. \A i \in 1 .. Len(toField') : ~LastOf(Updates', i) BY <2>1 DEF LastOf
    <2> QED BY <2>1, <2>5, <2>6, <2>9, <2>11, <2>12 DEF OneSpeaks
  <1> QED BY <1>14, <1>15 DEF TextInv

(* The app changes the field: unless an update comes, the plugin follows.  *)
LEMMA Changed ==
  ASSUME TextInv, NEW v \in FieldValues, FieldChange(v)
  PROVE  TextInv'
  <1> DEFINE n == Len(toPlugin)
             b == EditingState(v)
  <1>1. PICK p : p = toPlugin' OBVIOUS
  <1>2. /\ field' = [field EXCEPT !.text = v.text, !.base = v.base, !.extent = v.extent]
        /\ p = toPlugin \o <<b>> /\ field.client # NoClient
        /\ crossed' = (crossed \/ \E i \in 1 .. Len(toField) :
              toField[i].method = "updateEditingState" /\ toField[i].client = field.client)
        /\ text_input' = text_input /\ toField' = toField /\ clients' = clients /\ astray' = astray
    BY <1>1 DEF FieldChange, Call
  <1>3. TextTypeOK BY DEF TextInv
  <1>4. /\ clients \in Nat /\ field \in Fields /\ toPlugin \in Seq(PluginCalls) /\ n \in Nat
        /\ \A i \in 1 .. n : toPlugin[i] \in PluginCalls /\ PluginCallOK(toPlugin[i])
    BY TextIs
  <1>5. v.text \in Seq(Chars) /\ v.base \in Int /\ v.extent \in Int BY FieldValuesAre
  <1>6. /\ b \in PluginCalls /\ b.method = "setEditingState" /\ b.text = FlutterWrites(v.text)
        /\ b.base = v.base /\ b.extent = v.extent
    BY <1>5, EditingStateIs
  <1>7. /\ field'.client = field.client /\ field'.text = v.text /\ field'.base = v.base
        /\ field'.extent = v.extent /\ field' \in Fields
    BY <1>2, <1>4, <1>5 DEF Fields
  <1> HIDE DEF b
  <1>8. /\ p \in Seq(PluginCalls) /\ Len(p) = n + 1 /\ p[n + 1] = b
        /\ \A i \in 1 .. n : p[i] = toPlugin[i]
    <2>1. p = Append(toPlugin, b) BY <1>2, <1>4, <1>6, AppendIsConcat
    <2> QED BY <1>4, <1>6, <2>1, AppendProperties
  <1> HIDE DEF n
  <1>9. \A i \in 1 .. n + 1 : i \in 1 .. n \/ i = n + 1 BY <1>4
  <1>10. TextTypeOK'
    <2>1. ASSUME NEW i \in 1 .. Len(p) PROVE (PluginCallOK(p[i]))'
      <3>1. CASE i \in 1 .. n
        <4>1. p[i] = toPlugin[i] /\ PluginCallOK(toPlugin[i]) BY <1>4, <1>8, <3>1
        <4> QED BY <1>2, <4>1 DEF PluginCallOK
      <3>2. CASE i = n + 1 BY <1>6, <1>8, <3>2 DEF PluginCallOK
      <3> QED BY <1>8, <1>9, <3>1, <3>2
    <2>2. \A i \in 1 .. Len(toPlugin') : (PluginCallOK(toPlugin[i]))'
      BY <1>1, <2>1 DEF PluginCallOK
    <2>3. \A i \in 1 .. Len(toField) : FieldCallOK(toField[i]) BY <1>3 DEF TextTypeOK
    <2>4. \A i \in 1 .. Len(toField') : (FieldCallOK(toField[i]))' BY <1>2, <2>3 DEF FieldCallOK
    <2> QED BY <1>1, <1>2, <1>3, <1>7, <1>8, <2>2, <2>4 DEF TextTypeOK
  <1>11. OneSpeaks'
    <2>1. SUFFICES ASSUME ~crossed' PROVE OneSpeaks' BY DEF OneSpeaks
    <2>2. ~crossed /\ Updates = {} BY <1>2, <2>1 DEF Updates
    <2>3. Updates' = {} BY <1>2, <1>7, <2>2 DEF Updates
    <2>4. OneSpeaks BY DEF TextInv
    <2>5. \A i : i \in Settings' <=> i \in 1 .. n + 1 /\ p[i].method = "setEditingState"
      BY <1>1, <1>8 DEF Settings
    <2>6. Connections' = Connections
      <3>1. /\ \A i : i \in Connections' <=>
                 i \in 1 .. n + 1 /\ p[i].method \in {"setClient", "clearClient"}
            /\ \A i : i \in Connections <=>
                 i \in 1 .. n /\ toPlugin[i].method \in {"setClient", "clearClient"}
        BY <1>1, <1>8 DEF Connections, n
      <3>2. \A i \in 1 .. n : i \in 1 .. n + 1 BY <1>4
      <3>3. \A i : i \in Connections' <=> i \in Connections
        BY <1>6, <1>8, <1>9, <3>1, <3>2
      <3> QED BY <3>3 DEF Connections
    <2>7. n + 1 \in 1 .. n + 1 /\ n + 1 \in Settings' BY <1>4, <1>6, <1>8, <2>5
    <2>8. ASSUME NEW i, LastOf(Settings', i) PROVE p[i] = b
      <3>1. i \in 1 .. n + 1 /\ n + 1 <= i BY <2>5, <2>7, <2>8 DEF LastOf
      <3> QED BY <1>4, <1>8, <1>9, <3>1
    <2>9. SaysField(b)' BY <1>6, <1>7 DEF SaysField
    <2>10. \A i \in 1 .. Len(toPlugin') : LastOf(Settings', i) => (SaysField(toPlugin[i]))'
      BY <1>1, <2>8, <2>9 DEF SaysField
    <2>11. /\ Connections = {} => text_input.connection_id = field.client
           /\ \A i \in 1 .. n : LastOf(Connections, i) =>
                 toPlugin[i].method = "setClient" /\ toPlugin[i].client = field.client
      BY <1>2, <2>2, <2>4 DEF OneSpeaks, n
    <2>12. \A i \in 1 .. Len(toPlugin') : LastOf(Connections', i) =>
             toPlugin'[i].method = "setClient" /\ toPlugin'[i].client = field'.client
      <3>1. ASSUME NEW i, LastOf(Connections, i) PROVE i \in 1 .. n
        BY <3>1 DEF LastOf, Connections, n
      <3> QED BY <1>1, <1>7, <1>8, <2>6, <2>11, <3>1
    <2>13. Connections' = {} => text_input'.connection_id = field'.client
      BY <1>2, <1>7, <2>6, <2>11
    <2>14. \A i \in 1 .. Len(toField') : ~LastOf(Updates', i) BY <2>3 DEF LastOf
    <2> QED BY <2>3, <2>7, <2>10, <2>12, <2>13, <2>14 DEF OneSpeaks
  <1> QED BY <1>10, <1>11 DEF TextInv

(* The transaction ends.                                                   *)
LEMMA Detached ==
  ASSUME TextInv, FieldDetach
  PROVE  TextInv'
  <1> DEFINE n == Len(toPlugin)
             c == [method |-> "clearClient"]
  <1>1. PICK p : p = toPlugin' OBVIOUS
  <1>2. /\ field' = [field EXCEPT !.client = -1] /\ p = Append(toPlugin, c)
        /\ text_input' = text_input /\ toField' = toField /\ clients' = clients /\ astray' = astray
    BY <1>1 DEF FieldDetach, NoClient
  <1>3. TextTypeOK BY DEF TextInv
  <1>4. /\ clients \in Nat /\ field \in Fields /\ toPlugin \in Seq(PluginCalls) /\ n \in Nat
        /\ \A i \in 1 .. n : toPlugin[i] \in PluginCalls /\ PluginCallOK(toPlugin[i])
    BY TextIs
  <1>5. c \in PluginCalls /\ c.method = "clearClient" BY DEF PluginCalls
  <1> HIDE DEF c
  <1>6. /\ p \in Seq(PluginCalls) /\ Len(p) = n + 1 /\ p[n + 1] = c
        /\ \A i \in 1 .. n : p[i] = toPlugin[i]
    BY <1>2, <1>4, <1>5, AppendProperties
  <1> HIDE DEF n
  <1>7. field' \in Fields /\ field'.client = -1 BY <1>2, <1>4 DEF Fields
  <1>8. \A i \in 1 .. n + 1 : i \in 1 .. n \/ i = n + 1 BY <1>4
  <1>9. TextTypeOK'
    <2>1. ASSUME NEW i \in 1 .. Len(p) PROVE (PluginCallOK(p[i]))'
      BY <1>2, <1>4, <1>5, <1>6, <1>8 DEF PluginCallOK
    <2>2. \A i \in 1 .. Len(toPlugin') : (PluginCallOK(toPlugin[i]))'
      BY <1>1, <2>1 DEF PluginCallOK
    <2>3. \A i \in 1 .. Len(toField) : FieldCallOK(toField[i]) BY <1>3 DEF TextTypeOK
    <2>4. \A i \in 1 .. Len(toField') : (FieldCallOK(toField[i]))' BY <1>2, <2>3 DEF FieldCallOK
    <2>5. -1 \in -1 .. clients - 1 BY <1>4
    <2> QED BY <1>1, <1>2, <1>3, <1>6, <1>7, <2>2, <2>4, <2>5 DEF TextTypeOK
  <1>10. OneSpeaks' BY <1>7 DEF OneSpeaks, NoClient
  <1> QED BY <1>9, <1>10 DEF TextInv

(* Nothing happens.                                                        *)
LEMMA TextIdle ==
  ASSUME TextInv, UNCHANGED textVars
  PROVE  TextInv'
  <1>1. /\ text_input' = text_input /\ field' = field /\ toPlugin' = toPlugin /\ toField' = toField
        /\ clients' = clients /\ crossed' = crossed /\ astray' = astray
    BY DEF textVars
  <1>2. TextTypeOK /\ OneSpeaks BY DEF TextInv
  <1>3. \A i \in 1 .. Len(toPlugin') : (PluginCallOK(toPlugin[i]))'
    BY <1>1, <1>2 DEF TextTypeOK, PluginCallOK
  <1>4. \A i \in 1 .. Len(toField') : (FieldCallOK(toField[i]))'
    BY <1>1, <1>2 DEF TextTypeOK, FieldCallOK
  <1>5. TextTypeOK' BY <1>1, <1>2, <1>3, <1>4 DEF TextTypeOK
  <1>6. /\ Settings' = Settings /\ Connections' = Connections /\ Updates' = Updates
        /\ Alike' <=> Alike
    BY <1>1 DEF Settings, Connections, Updates, Alike
  <1>7. /\ \A i : (SaysField(toPlugin[i]))' <=> SaysField(toPlugin[i])
        /\ \A i : (SaysPlugin(toField[i]))' <=> SaysPlugin(toField[i])
    BY <1>1 DEF SaysField, SaysPlugin
  <1>8. OneSpeaks' BY <1>1, <1>2, <1>6, <1>7 DEF OneSpeaks
  <1> QED BY <1>5, <1>8 DEF TextInv

(* Every step keeps it.                                                    *)
LEMMA TextStep == TextInv /\ [TextNext]_textVars => TextInv'
  <1> SUFFICES ASSUME TextInv, [TextNext]_textVars PROVE TextInv' OBVIOUS
  <1>1. ASSUME NEW c \in Symbols, TextinOnUtf8Char(c) PROVE TextInv' BY <1>1, KeysTyped
  <1>2. ASSUME NEW k \in Keysyms, OnKeysym(k) PROVE TextInv' BY <1>2, KeysPressed
  <1>3. CASE OnReceive BY <1>3, CallReceived
  <1>4. ASSUME NEW m \in BOOLEAN, FieldAttach(m) PROVE TextInv' BY <1>4, Attached
  <1>5. ASSUME NEW v \in FieldValues, FieldChange(v) PROVE TextInv' BY <1>5, Changed
  <1>6. CASE FieldDetach BY <1>6, Detached
  <1>7. CASE FieldReceive BY <1>7, FieldReceived
  <1>8. CASE UNCHANGED textVars BY <1>8, TextIdle
  <1> QED BY <1>1, <1>2, <1>3, <1>4, <1>5, <1>6, <1>7, <1>8 DEF TextNext

(* Without a symbol of two UTF-16 units an index is an offset.             *)
LEMMA PlacesAre ==
  ASSUME NEW text \in Seq(Chars), \A i \in 1 .. Len(text) : text[i] \notin FourBytes,
         NEW index \in 0 .. Len(text)
  PROVE  SamePlace(text, index, index)
  <1> DEFINE S == {i \in 1 .. index : text[i] \in FourBytes}
  <1>1. Len(text) \in Nat BY LenProperties
  <1>2. \A i \in 1 .. index : i \in 1 .. Len(text) BY <1>1
  <1>3. S = {} BY <1>2
  <1> HIDE DEF S
  <1>4. Cardinality(S) = 0 BY <1>3, FS_EmptySet
  <1>5. index = index + 0 BY <1>1
  <1> QED BY <1>4, <1>5 DEF SamePlace, S

(* With nothing on its way the two are alike.                              *)
LEMMA TextTheEnd == TextInv => TextAgrees
  <1> SUFFICES ASSUME TextInv PROVE TextAgrees OBVIOUS
  <1>1. text_input \in TextStates /\ (~astray => TextSettled(text_input)) BY TextIs
  <1>2. /\ text_input.text \in Seq(Chars)
        /\ ~astray => /\ text_input.selection_base \in 0 .. Len(text_input.text)
                      /\ text_input.selection_extent \in 0 .. Len(text_input.text)
                      /\ SelectionStart(text_input) >= 0
                      /\ SelectionEnd(text_input) <= Len(text_input.text)
    BY <1>1, SelectionIs
  <1>3. ASSUME field.client # NoClient, toPlugin = <<>>, toField = <<>>, ~crossed,
               Plain(field.text), Plain(text_input.text)
        PROVE  /\ text_input.connection_id = field.client /\ text_input.text = field.text
               /\ ~astray => /\ text_input.selection_base = field.base
                             /\ text_input.selection_extent = field.extent
    <2>1. OneSpeaks BY DEF TextInv
    <2>2. Connections = {} /\ Settings = {} /\ Updates = {}
      BY <1>3 DEF Connections, Settings, Updates
    <2>3. text_input.connection_id = field.client /\ Alike BY <1>3, <2>1, <2>2 DEF OneSpeaks
    <2>4. field.text \in Seq(Chars) BY TextIs
    <2>5. FlutterWrites(field.text) = field.text BY <1>3, <2>4, FlutterWritesIs
    <2>6. FlutterUnescapes(Escaped(text_input.text)) = text_input.text
      BY <1>2, <1>3, FlutterUnescapesIs
    <2> QED BY <2>3, <2>5, <2>6 DEF Alike
  <1>4. ASSUME field.client # NoClient, toPlugin = <<>>, toField = <<>>, ~crossed,
               Plain(field.text), Plain(text_input.text), ~astray,
               \A i \in 1 .. Len(field.text) : field.text[i] \notin FourBytes
        PROVE  /\ SamePlace(field.text, text_input.selection_base, field.base)
               /\ SamePlace(field.text, text_input.selection_extent, field.extent)
    BY <1>2, <1>3, <1>4, PlacesAre
  <1> QED BY <1>2, <1>3, <1>4 DEF TextAgrees

(* TextSpec keeps TextInv: unless Flutter put it elsewhere the plugin's    *)
(* selection lies within its text, and while no update crosses a call the  *)
(* last word on its way says what its sender has.                          *)
THEOREM TextCorrect == TextSpec => []TextInv
  BY TextInitial, TextStep, PTL DEF TextSpec

(* TextAgrees: the plugin edits with a selection within its text, unless   *)
(* Flutter put it elsewhere; and with nothing on its way and no update     *)
(* having crossed a call, the plugin and the text field have the same      *)
(* text, if it needs no escape, and the same selection, if it is within a  *)
(* text whose symbols are one UTF-16 unit each.                            *)
THEOREM TextFollows == TextSpec => []TextAgrees
  BY TextCorrect, TextTheEnd, PTL
-----------------------------------------------------------------------------
(* Textures.                                                               *)
FrameTable ==
    [FrameIds -> [kind : {"none", "source", "gl"}, n_refs : Int, is_resolved : BOOLEAN]]
DestroyTable == [FrameIds -> [source : Nat, gl : Nat]]
EngineStates ==
    [noticed : BOOLEAN, painting : BOOLEAN, holds : [FrameIds -> Nat], latest : {0} \cup FrameIds,
     refused : BOOLEAN, twice : SUBSET FrameIds]

TextureTypeOK ==
    /\ texture \in {"none", "registering", "live", "unregistered", "unlinked", "freed"}
    /\ textures \in BOOLEAN /\ dirty \in BOOLEAN /\ misused \in BOOLEAN
    /\ next_frame \in {0} \cup FrameIds /\ pushed \in {0} \cup FrameIds
    /\ frames \in FrameTable /\ destroys \in DestroyTable
    /\ engine \in EngineStates

(* The registry lists a texture from before it is registered until it is   *)
(* unlinked, and it has a frame in between only.                           *)
TextureListed ==
    /\ textures <=> texture \in {"registering", "live", "unregistered"}
    /\ next_frame # 0 => texture \in {"live", "unregistered", "unlinked"}
    /\ next_frame <= pushed

(* A frame's count is the engine's holds and the texture's, if it is the   *)
(* next one: of every frame the engine gives back once.                    *)
FramesCounted ==
    \A f \in FrameIds \ engine.twice :
        frames[f].n_refs = engine.holds[f] + (IF f = next_frame THEN 1 ELSE 0)

(* The engine holds only what was resolved, a GL frame is resolved when it *)
(* is pushed, and nothing happened yet to a frame still to be pushed.      *)
HeldResolved ==
    \A f \in FrameIds :
        /\ engine.holds[f] > 0 \/ frames[f].kind = "gl" => frames[f].is_resolved
        /\ f > pushed => engine.holds[f] = 0 /\ destroys[f].source = 0 /\ destroys[f].gl = 0

TextureInv == TextureTypeOK /\ TextureListed /\ FramesCounted /\ HeldResolved /\ FramesDestroyedOnce

(* A texture that is not live yet is clean; in a live one a frame is still *)
(* to be fetched only while it is dirty, and then the engine knows.        *)
DirtyAnnounced ==
    /\ texture \in {"none", "registering"} => ~dirty
    /\ texture = "live" =>
        /\ next_frame # 0 /\ engine.latest # next_frame => dirty
        /\ dirty => engine.noticed \/ engine.painting \/ engine.refused

-----------------------------------------------------------------------------
(* Frames are numbered from one.                                           *)
LEMMA TextureFrameIds ==
    /\ 0 \notin FrameIds
    /\ FrameIds \subseteq Nat
    /\ \A n \in {0} \cup FrameIds : n < MaxFrames => n + 1 \in FrameIds
    /\ \A n \in {0} \cup FrameIds : 1..n = {f \in FrameIds : f <= n}
BY TextureBounds DEF FrameIds

(* The fields of the tables, so that they stay opaque elsewhere.           *)
LEMMA TextureFields ==
    /\ \A fs \in FrameTable, g \in FrameIds :
        /\ fs[g].kind \in {"none", "source", "gl"}
        /\ fs[g].n_refs \in Int /\ fs[g].is_resolved \in BOOLEAN
    /\ \A counts \in DestroyTable, g \in FrameIds : counts[g].source \in Nat /\ counts[g].gl \in Nat
    /\ \A e \in EngineStates : e.holds \in [FrameIds -> Nat] /\ e.twice \subseteq FrameIds
BY DEF FrameTable, DestroyTable, EngineStates

(* What Unref does to a table of frames and to the counts of what it       *)
(* destroyed, frame by frame.                                              *)
LEMMA UnrefEffect ==
    ASSUME NEW f \in {0} \cup FrameIds, NEW fs \in FrameTable, NEW counts \in DestroyTable,
           Unref(f, fs, counts)
    PROVE  /\ frames' \in FrameTable /\ destroys' \in DestroyTable /\ misused' \in BOOLEAN
           /\ \A g \in FrameIds :
                LET last == g = f /\ fs[g].n_refs <= 1
                    gl == fs[g].n_refs = 1 /\ fs[g].is_resolved
                IN  /\ frames'[g].kind = fs[g].kind
                    /\ frames'[g].is_resolved = fs[g].is_resolved
                    /\ g # f \/ fs[g].n_refs > 0 =>
                        /\ frames'[g].n_refs = (IF g = f THEN fs[g].n_refs - 1 ELSE fs[g].n_refs)
                        /\ destroys'[g].gl = (IF last /\ gl THEN counts[g].gl + 1 ELSE counts[g].gl)
                        /\ destroys'[g].source =
                                (IF last /\ ~gl THEN counts[g].source + 1 ELSE counts[g].source)
<1>0. misused' \in BOOLEAN
  BY DEF Unref
<1>1. CASE f = 0 \/ fs[f].n_refs = 0
  BY <1>0, <1>1, TextureFrameIds DEF Unref
<1>2. CASE ~(f = 0 \/ fs[f].n_refs = 0)
  <2>1. f \in FrameIds
    BY <1>2
  <2>2. /\ frames' \in FrameTable
        /\ \A g \in FrameIds :
            /\ frames'[g].kind = fs[g].kind
            /\ frames'[g].is_resolved = fs[g].is_resolved
            /\ frames'[g].n_refs = (IF g = f THEN fs[g].n_refs - 1 ELSE fs[g].n_refs)
    BY <1>2, <2>1 DEF Unref, FrameTable
  <2>3. fs[f].n_refs \in Int /\ fs[f].is_resolved \in BOOLEAN
    BY <2>1 DEF FrameTable
  <2>4. CASE fs[f].n_refs > 1
    <3>1. destroys' = counts
      BY <1>2, <2>3, <2>4 DEF Unref
    <3> QED BY <1>0, <2>2, <2>3, <2>4, <3>1
  <2>5. CASE fs[f].n_refs = 1 /\ fs[f].is_resolved
    <3>1. destroys' = [counts EXCEPT ![f].gl = @ + 1]
      BY <1>2, <2>3, <2>5 DEF Unref
    <3> QED BY <1>0, <2>1, <2>2, <2>3, <2>5, <3>1 DEF DestroyTable
  <2>6. CASE fs[f].n_refs <= 1 /\ ~(fs[f].n_refs = 1 /\ fs[f].is_resolved)
    <3>1. destroys' = [counts EXCEPT ![f].source = @ + 1]
      BY <1>2, <2>3, <2>6 DEF Unref
    <3> QED BY <1>0, <2>1, <2>2, <2>3, <2>6, <3>1 DEF DestroyTable
  <2> QED BY <2>3, <2>4, <2>5, <2>6
<1> QED BY <1>1, <1>2

(* The frames of GlCallback, one by one.                                   *)
LEMMA GlCallbackFrames ==
    ASSUME TextureTypeOK, GlCallback
    PROVE  /\ next_frame \in FrameIds
           /\ frames' \in FrameTable /\ destroys' \in DestroyTable /\ misused' \in BOOLEAN
           /\ \A g \in FrameIds :
                /\ frames'[g].kind = frames[g].kind
                /\ frames'[g].is_resolved <=> g = next_frame \/ frames[g].is_resolved
                /\ frames'[g].n_refs =
                        (IF g = next_frame THEN frames[g].n_refs + 1 ELSE frames[g].n_refs)
                /\ destroys'[g].gl = destroys[g].gl
                /\ destroys'[g].source = (IF g = next_frame /\ ~frames[g].is_resolved
                                          THEN destroys[g].source + 1 ELSE destroys[g].source)
<1>1. next_frame \in FrameIds /\ frames \in FrameTable /\ destroys \in DestroyTable
  BY DEF TextureTypeOK, GlCallback
<1>2. frames' = [frames EXCEPT ![next_frame] =
                    [kind |-> @.kind, n_refs |-> @.n_refs + 1, is_resolved |-> TRUE]]
  BY DEF GlCallback
<1>3. /\ frames' \in FrameTable
      /\ \A g \in FrameIds :
            /\ frames'[g].kind = frames[g].kind
            /\ frames'[g].is_resolved <=> g = next_frame \/ frames[g].is_resolved
            /\ frames'[g].n_refs =
                    (IF g = next_frame THEN frames[g].n_refs + 1 ELSE frames[g].n_refs)
  BY <1>1, <1>2 DEF FrameTable
<1>4. destroys' = IF frames[next_frame].is_resolved THEN destroys
                  ELSE [destroys EXCEPT ![next_frame].source = @ + 1]
  BY DEF GlCallback
<1>5. /\ destroys' \in DestroyTable
      /\ \A g \in FrameIds :
            /\ destroys'[g].gl = destroys[g].gl
            /\ destroys'[g].source = (IF g = next_frame /\ ~frames[g].is_resolved
                                      THEN destroys[g].source + 1 ELSE destroys[g].source)
  BY <1>1, <1>4 DEF DestroyTable
<1>6. misused' \in BOOLEAN
  BY DEF GlCallback
<1> QED BY <1>1, <1>3, <1>5, <1>6

(* How GlCallback and the release of a frame change the engine's holds.    *)
LEMMA HoldsEffect ==
    ASSUME NEW e \in EngineStates, NEW f \in FrameIds, NEW n \in Nat
    PROVE  /\ [e EXCEPT !.holds[f] = n] \in EngineStates
           /\ [e EXCEPT !.holds[f] = n].holds = [e.holds EXCEPT ![f] = n]
           /\ [e EXCEPT !.painting = FALSE, !.latest = f, !.holds[f] = n] \in EngineStates
           /\ [e EXCEPT !.painting = FALSE, !.latest = f, !.holds[f] = n].holds
                = [e.holds EXCEPT ![f] = n]
<1>1. [e.holds EXCEPT ![f] = n] \in [FrameIds -> Nat]
  BY DEF EngineStates
<1> QED BY <1>1 DEF EngineStates

(* Every step keeps the invariant: the step that drops the last reference  *)
(* to a frame is the one that destroys it.                                 *)
LEMMA TextureInvStep == TextureInv /\ [TextureNext]_textureVars => TextureInv'
<1> SUFFICES ASSUME TextureInv, [TextureNext]_textureVars PROVE TextureInv'
  OBVIOUS
<1>1. TextureTypeOK /\ TextureListed /\ FramesCounted /\ HeldResolved /\ FramesDestroyedOnce
  BY DEF TextureInv
<1>2. CASE TextureNew \/ RegisterTexture \/ TextureUnregister \/ TextureUnlink
  <2>1. UNCHANGED <<next_frame, frames, destroys, pushed, engine, dirty, misused>>
    BY <1>2 DEF TextureNew, RegisterTexture, TextureUnregister, TextureUnlink
  <2>2. FramesDestroyedOnce' /\ FramesCounted' /\ HeldResolved'
    BY <1>1, <2>1 DEF FramesDestroyedOnce, FramesCounted, HeldResolved
  <2>3. TextureTypeOK' /\ TextureListed'
    BY <1>1, <1>2, <2>1 DEF TextureNew, RegisterTexture, TextureUnregister, TextureUnlink,
       TextureTypeOK, TextureListed
  <2> QED BY <2>2, <2>3 DEF TextureInv
<1>3. CASE EnginePaint
  <2>1. /\ engine'.holds = engine.holds /\ engine'.twice = engine.twice /\ engine' \in EngineStates
        /\ UNCHANGED <<texture, textures, next_frame, dirty, frames, destroys, pushed, misused>>
    BY <1>1, <1>3 DEF EnginePaint, EngineStates, TextureTypeOK
  <2>2. TextureTypeOK' /\ TextureListed'
    BY <1>1, <2>1 DEF TextureTypeOK, TextureListed
  <2>3. FramesDestroyedOnce' /\ FramesCounted' /\ HeldResolved'
    BY <1>1, <2>1 DEF FramesDestroyedOnce, FramesCounted, HeldResolved
  <2> QED BY <2>2, <2>3 DEF TextureInv
<1>4. ASSUME NEW is_resolved \in BOOLEAN, PushFrame(is_resolved) PROVE TextureInv'
  <2> DEFINE new == pushed + 1
             with == [frames EXCEPT ![new] = [kind |-> IF is_resolved THEN "gl" ELSE "source",
                                              n_refs |-> 1, is_resolved |-> is_resolved]]
  <2>1. /\ texture = "live" /\ new \in FrameIds /\ next_frame # new
        /\ next_frame' = new /\ pushed' = new /\ UNCHANGED <<texture, textures>>
        /\ Unref(next_frame, with, destroys)
    BY <1>1, <1>4, TextureFrameIds DEF PushFrame, TextureTypeOK, TextureListed
  <2>2. with \in FrameTable
    BY <1>1, <2>1 DEF FrameTable, TextureTypeOK
  <2>3. \A g \in FrameIds :
            /\ g # new => with[g] = frames[g]
            /\ g = new => /\ with[g].kind = (IF is_resolved THEN "gl" ELSE "source")
                          /\ with[g].n_refs = 1
                          /\ with[g].is_resolved <=> is_resolved
    BY <1>1, <2>1 DEF FrameTable, TextureTypeOK
  <2> HIDE DEF with
  <2>4. /\ engine'.holds = engine.holds /\ engine'.twice = engine.twice /\ engine' \in EngineStates
        /\ dirty' = TRUE
    <3>1. \/ engine' = engine
          \/ engine' = [engine EXCEPT !.noticed = TRUE, !.refused = FALSE]
          \/ engine' = [engine EXCEPT !.refused = TRUE]
      BY <1>4 DEF PushFrame
    <3>2. dirty' = TRUE /\ engine \in EngineStates
      BY <1>1, <1>4 DEF PushFrame, TextureTypeOK
    <3> QED BY <3>1, <3>2 DEF EngineStates
  <2>5. next_frame \in {0} \cup FrameIds /\ destroys \in DestroyTable /\ frames \in FrameTable
    BY <1>1 DEF TextureTypeOK
  <2> HIDE DEF new
  <2>6. /\ frames' \in FrameTable /\ destroys' \in DestroyTable /\ misused' \in BOOLEAN
         /\ \A g \in FrameIds :
                LET last == g = next_frame /\ with[g].n_refs <= 1
                    gl == with[g].n_refs = 1 /\ with[g].is_resolved
                IN  /\ frames'[g].kind = with[g].kind
                    /\ frames'[g].is_resolved = with[g].is_resolved
                    /\ g # next_frame \/ with[g].n_refs > 0 =>
                        /\ frames'[g].n_refs =
                                (IF g = next_frame THEN with[g].n_refs - 1 ELSE with[g].n_refs)
                        /\ destroys'[g].gl = (IF last /\ gl THEN destroys[g].gl + 1 ELSE destroys[g].gl)
                        /\ destroys'[g].source =
                                (IF last /\ ~gl THEN destroys[g].source + 1 ELSE destroys[g].source)
    BY <2>5, <2>1, <2>2, UnrefEffect
  <2>7. /\ frames' \in FrameTable /\ destroys' \in DestroyTable /\ misused' \in BOOLEAN
        /\ frames'[new].kind = (IF is_resolved THEN "gl" ELSE "source")
        /\ frames'[new].n_refs = 1
        /\ frames'[new].is_resolved <=> is_resolved
        /\ destroys'[new].gl = destroys[new].gl /\ destroys'[new].source = destroys[new].source
    BY <2>1, <2>3, <2>6
  <2>8. \A g \in FrameIds \ {new} :
            LET last == g = next_frame /\ frames[g].n_refs <= 1
                gl == frames[g].n_refs = 1 /\ frames[g].is_resolved
            IN  /\ frames'[g].kind = frames[g].kind
                /\ frames'[g].is_resolved = frames[g].is_resolved
                /\ g # next_frame \/ frames[g].n_refs > 0 =>
                    /\ frames'[g].n_refs =
                            (IF g = next_frame THEN frames[g].n_refs - 1 ELSE frames[g].n_refs)
                    /\ destroys'[g].gl =
                            (IF last /\ gl THEN destroys[g].gl + 1 ELSE destroys[g].gl)
                    /\ destroys'[g].source =
                            (IF last /\ ~gl THEN destroys[g].source + 1 ELSE destroys[g].source)
    BY <2>1, <2>3, <2>6
  <2>9. \A g \in FrameIds : /\ g <= new /\ g # new => g \in 1..pushed
                            /\ g > new => g > pushed /\ g # next_frame
    BY <1>1, TextureFrameIds DEF TextureTypeOK, TextureListed, new
  <2>10. 1..new = {g \in FrameIds : g <= new}
    BY <2>1, TextureFrameIds
  <2>11. \A g \in FrameIds : engine'.holds[g] = engine.holds[g] /\ engine.holds[g] \in Nat
    BY <1>1, <2>4, TextureFields DEF TextureTypeOK
  <2>12. /\ new \in Int /\ ~(new > new) /\ ~(next_frame > new)
         /\ engine.holds[new] = 0 /\ destroys[new].source = 0 /\ destroys[new].gl = 0
    BY <1>1, <2>1, TextureFrameIds DEF TextureTypeOK, HeldResolved, TextureListed, new
  <2>13. TextureTypeOK' /\ TextureListed'
    BY <1>1, <2>1, <2>4, <2>7, TextureFrameIds DEF TextureTypeOK, TextureListed
  <2>14. FramesCounted'
    <3> SUFFICES ASSUME NEW g \in FrameIds \ engine.twice
                 PROVE  frames'[g].n_refs = engine'.holds[g] + (IF g = next_frame' THEN 1 ELSE 0)
      BY <2>4 DEF FramesCounted
    <3>1. CASE g = new
      BY <2>1, <2>7, <2>11, <2>12, <3>1
    <3>2. CASE g # new
      <4>1. frames[g].n_refs = engine.holds[g] + (IF g = next_frame THEN 1 ELSE 0)
        BY <1>1 DEF FramesCounted
      <4>2. frames'[g].n_refs = (IF g = next_frame THEN frames[g].n_refs - 1 ELSE frames[g].n_refs)
        BY <2>8, <2>11, <3>2, <4>1
      <4> QED BY <2>1, <2>11, <3>2, <4>1, <4>2
    <3> QED BY <3>1, <3>2
  <2>15. HeldResolved'
    <3> SUFFICES ASSUME NEW g \in FrameIds
                 PROVE  /\ engine'.holds[g] > 0 \/ frames'[g].kind = "gl" => frames'[g].is_resolved
                        /\ g > new => /\ engine'.holds[g] = 0
                                      /\ destroys'[g].source = 0 /\ destroys'[g].gl = 0
      BY <2>1 DEF HeldResolved
    <3>1. CASE g = new
      BY <2>1, <2>7, <2>11, <2>12, <3>1
    <3>2. CASE g # new
      BY <1>1, <2>5, <2>1, <2>8, <2>9, <2>11, <2>12, <3>2 DEF HeldResolved, TextureListed
    <3> QED BY <3>1, <3>2
  <2>16. FramesDestroyedOnce'
    <3> SUFFICES ASSUME NEW g \in FrameIds \ engine.twice, g <= new
                 PROVE  LET inUse == g = next_frame' \/ engine'.holds[g] > 0
                            gl == frames'[g].is_resolved
                        IN  /\ destroys'[g].gl = (IF gl /\ ~inUse THEN 1 ELSE 0)
                            /\ frames'[g].kind = "source" =>
                                    destroys'[g].source = (IF gl \/ ~inUse THEN 1 ELSE 0)
      BY <2>1, <2>4, <2>10 DEF FramesDestroyedOnce
    <3>1. CASE g = new
      BY <2>1, <2>7, <2>11, <2>12, <3>1
    <3>2. CASE g # new
      <4>1. g \in 1..pushed
        BY <2>9, <3>2
      <4> QED
        BY <1>1, <2>1, <2>11, <2>8, <3>2, <4>1, TextureFields
        DEF TextureTypeOK, FramesCounted, FramesDestroyedOnce
    <3> QED BY <3>1, <3>2
  <2> QED BY <2>13, <2>14, <2>15, <2>16 DEF TextureInv
<1>5. CASE GlCallbackEmpty
  <2>1. /\ engine'.holds = engine.holds /\ engine'.twice = engine.twice /\ engine' \in EngineStates
        /\ UNCHANGED <<texture, textures, pushed>> /\ dirty' \in BOOLEAN
    BY <1>1, <1>5 DEF GlCallbackEmpty, EngineStates, TextureTypeOK
  <2>2. CASE UNCHANGED <<next_frame, frames, destroys, misused>>
    <3>1. TextureTypeOK' /\ TextureListed'
      BY <1>1, <2>1, <2>2 DEF TextureTypeOK, TextureListed
    <3>2. FramesDestroyedOnce' /\ FramesCounted' /\ HeldResolved'
      BY <1>1, <2>1, <2>2 DEF FramesDestroyedOnce, FramesCounted, HeldResolved
    <3> QED BY <3>1, <3>2 DEF TextureInv
  <2>3. CASE /\ next_frame # 0 /\ ~frames[next_frame].is_resolved
             /\ next_frame' = 0 /\ Unref(next_frame, frames, destroys)
    <3>1. TextureTypeOK' /\ TextureListed'
      BY <1>1, <2>1, <2>3, UnrefEffect, TextureFrameIds DEF TextureTypeOK, TextureListed
    <3>2. FramesCounted'
      BY <1>1, <2>1, <2>3, UnrefEffect, TextureFrameIds, TextureFields DEF TextureTypeOK,
         FramesCounted
    <3>3. HeldResolved'
      BY <1>1, <2>1, <2>3, UnrefEffect, TextureFrameIds, TextureFields DEF TextureTypeOK,
         TextureListed, HeldResolved
    <3>4. FramesDestroyedOnce'
      <4> SUFFICES ASSUME NEW g \in FrameIds \ engine.twice, g \in 1..pushed
                   PROVE  LET inUse == g = next_frame' \/ engine'.holds[g] > 0
                              gl == frames'[g].is_resolved
                          IN  /\ destroys'[g].gl = (IF gl /\ ~inUse THEN 1 ELSE 0)
                              /\ frames'[g].kind = "source" =>
                                      destroys'[g].source = (IF gl \/ ~inUse THEN 1 ELSE 0)
        BY <1>1, <2>1, TextureFrameIds DEF TextureTypeOK, FramesDestroyedOnce
      <4>1. CASE g = next_frame
        BY <1>1, <2>1, <2>3, UnrefEffect, <4>1, TextureFields
        DEF TextureTypeOK, FramesCounted, HeldResolved, FramesDestroyedOnce
      <4>2. CASE g # next_frame
        BY <1>1, <2>1, <2>3, UnrefEffect, <4>2, TextureFields, SMTT(30)
        DEF TextureTypeOK, FramesCounted, HeldResolved, FramesDestroyedOnce
      <4> QED BY <4>1, <4>2
    <3> QED BY <3>1, <3>2, <3>3, <3>4 DEF TextureInv
  <2> QED BY <1>5, <2>2, <2>3 DEF GlCallbackEmpty
<1>6. CASE GlCallback
  <2>1. UNCHANGED <<texture, textures, next_frame, pushed>> /\ dirty' = FALSE
    BY <1>6 DEF GlCallback
  <2>2. /\ next_frame \in FrameIds /\ engine \in EngineStates
        /\ engine.holds[next_frame] \in Nat /\ engine.twice \subseteq FrameIds
    <3>1. next_frame \in FrameIds /\ TextureTypeOK BY <1>1, <1>6, GlCallbackFrames
    <3>2. engine \in EngineStates BY <3>1 DEF TextureTypeOK
    <3> QED BY <3>1, <3>2, TextureFields
  <2>3. /\ \A g \in FrameIds \ {next_frame} : engine'.holds[g] = engine.holds[g]
        /\ engine'.holds[next_frame] > 0
        /\ next_frame \notin engine'.twice => engine'.holds[next_frame] = engine.holds[next_frame] + 1
        /\ \A g \in FrameIds : g \in engine.twice => g \in engine'.twice
        /\ engine' \in EngineStates
    <3> DEFINE h == engine.holds[next_frame]
               w == engine.twice \cup {next_frame}
    <3>1. \/ engine' = [engine EXCEPT !.painting = FALSE, !.latest = next_frame,
                                     !.holds[next_frame] = h + 1]
          \/ engine' = [engine EXCEPT !.painting = FALSE, !.latest = next_frame,
                                     !.holds[next_frame] = h + 2, !.twice = w]
      BY <1>6, <2>2 DEF GlCallback, EngineStates
    <3>2. h \in Nat /\ h + 1 \in Nat /\ h + 2 \in Nat /\ w \in SUBSET FrameIds
      BY <2>2
    <3>3. engine.holds \in [FrameIds -> Nat] /\ engine.holds[next_frame] = h
      BY <2>2, TextureFields
    <3>4. next_frame \in w /\ engine.twice \subseteq w
      OBVIOUS
    <3> HIDE DEF h, w
    <3>5. CASE engine' = [engine EXCEPT !.painting = FALSE, !.latest = next_frame,
                                        !.holds[next_frame] = h + 1]
      <4>1. engine' \in EngineStates /\ engine'.holds = [engine.holds EXCEPT ![next_frame] = h + 1]
        BY <2>2, <3>2, <3>5, HoldsEffect
      <4>2. engine'.twice = engine.twice
        BY <2>2, <3>5 DEF EngineStates
      <4> QED BY <2>2, <3>2, <3>3, <4>1, <4>2
    <3>6. CASE engine' = [engine EXCEPT !.painting = FALSE, !.latest = next_frame,
                                        !.holds[next_frame] = h + 2, !.twice = w]
      <4>1. [engine.holds EXCEPT ![next_frame] = h + 2] \in [FrameIds -> Nat]
        BY <2>2, <3>2, <3>3
      <4>2. /\ engine' \in EngineStates /\ engine'.twice = w
            /\ engine'.holds = [engine.holds EXCEPT ![next_frame] = h + 2]
        BY <2>2, <3>2, <3>6, <4>1 DEF EngineStates
      <4> QED BY <2>2, <3>2, <3>3, <3>4, <4>2
    <3> QED BY <3>1, <3>5, <3>6
  <2>4. TextureTypeOK' /\ TextureListed'
    BY <1>1, <1>6, <2>1, <2>2, <2>3, GlCallbackFrames, TextureFrameIds DEF TextureTypeOK,
       TextureListed
  <2>5. FramesCounted'
    BY <1>1, <1>6, <2>1, <2>2, <2>3, GlCallbackFrames, TextureFrameIds, TextureFields
       DEF TextureTypeOK, FramesCounted
  <2>6. HeldResolved'
    BY <1>1, <1>6, <2>1, <2>2, <2>3, GlCallbackFrames, TextureFrameIds, TextureFields
       DEF TextureTypeOK, TextureListed, HeldResolved
  <2>7. FramesDestroyedOnce'
    <3> SUFFICES ASSUME NEW g \in FrameIds \ engine'.twice, g \in 1..pushed
                 PROVE  LET inUse == g = next_frame' \/ engine'.holds[g] > 0
                            gl == frames'[g].is_resolved
                        IN  /\ destroys'[g].gl = (IF gl /\ ~inUse THEN 1 ELSE 0)
                            /\ frames'[g].kind = "source" =>
                                    destroys'[g].source = (IF gl \/ ~inUse THEN 1 ELSE 0)
      BY <1>1, <2>1, TextureFrameIds DEF TextureTypeOK, FramesDestroyedOnce
    <3>1. g \notin engine.twice
      BY <2>3
    <3>2. CASE g = next_frame
      BY <1>1, <1>6, <2>1, <2>3, GlCallbackFrames, <3>1, <3>2, TextureFields
      DEF TextureTypeOK, FramesDestroyedOnce
    <3>3. CASE g # next_frame
      BY <1>1, <1>6, <2>1, <2>3, GlCallbackFrames, <3>1, <3>3, TextureFields
      DEF TextureTypeOK, FramesDestroyedOnce
    <3> QED BY <3>2, <3>3
  <2> QED BY <2>4, <2>5, <2>6, <2>7 DEF TextureInv
<1>7. CASE OnFlutterAcquiredFrameDestroy
  <2>1. PICK f \in FrameIds :
            /\ engine.holds[f] > 0
            /\ engine' = [engine EXCEPT !.holds[f] = @ - 1]
            /\ Unref(f, frames, destroys)
            /\ UNCHANGED <<texture, textures, next_frame, dirty, pushed>>
    BY <1>7 DEF OnFlutterAcquiredFrameDestroy
  <2>2. engine \in EngineStates /\ engine.holds[f] - 1 \in Nat
    BY <1>1, <2>1, TextureFields DEF TextureTypeOK
  <2>3. /\ engine'.holds = [engine.holds EXCEPT ![f] = @ - 1] /\ engine'.twice = engine.twice
        /\ engine' \in EngineStates
    <3>1. engine'.holds = [engine.holds EXCEPT ![f] = @ - 1] /\ engine' \in EngineStates
      BY <2>1, <2>2, HoldsEffect
    <3>2. engine'.twice = engine.twice
      BY <2>1, <2>2 DEF EngineStates
    <3> QED BY <3>1, <3>2
  <2>4. TextureTypeOK' /\ TextureListed'
    BY <1>1, <2>1, <2>2, <2>3, UnrefEffect, TextureFrameIds DEF TextureTypeOK, TextureListed
  <2>5. FramesCounted'
    BY <1>1, <2>1, <2>2, <2>3, UnrefEffect, TextureFrameIds, TextureFields
       DEF TextureTypeOK, FramesCounted
  <2>6. HeldResolved'
    BY <1>1, <2>1, <2>2, <2>3, UnrefEffect, TextureFrameIds, TextureFields
       DEF TextureTypeOK, TextureListed, HeldResolved
  <2>7. FramesDestroyedOnce'
    BY <1>1, <2>1, <2>2, <2>3, UnrefEffect, TextureFrameIds, TextureFields
    DEF TextureTypeOK, FramesCounted, HeldResolved, FramesDestroyedOnce
  <2> QED BY <2>4, <2>5, <2>6, <2>7 DEF TextureInv
<1>8. CASE TextureDestroy
  <2>1. /\ texture = "unlinked" /\ texture' = "freed" /\ next_frame' = 0
        /\ Unref(next_frame, frames, destroys)
        /\ UNCHANGED <<textures, dirty, pushed, engine>>
    BY <1>8 DEF TextureDestroy
  <2>2. TextureTypeOK' /\ TextureListed'
    BY <1>1, <2>1, UnrefEffect, TextureFrameIds DEF TextureTypeOK, TextureListed
  <2>3. FramesCounted'
    BY <1>1, <2>1, UnrefEffect, TextureFrameIds, TextureFields DEF TextureTypeOK,
       FramesCounted
  <2>4. HeldResolved'
    BY <1>1, <2>1, UnrefEffect, TextureFrameIds, TextureFields DEF TextureTypeOK,
       TextureListed, HeldResolved
  <2>5. FramesDestroyedOnce'
    <3> SUFFICES ASSUME NEW g \in FrameIds \ engine.twice, g \in 1..pushed
                 PROVE  LET inUse == g = next_frame' \/ engine'.holds[g] > 0
                            gl == frames'[g].is_resolved
                        IN  /\ destroys'[g].gl = (IF gl /\ ~inUse THEN 1 ELSE 0)
                            /\ frames'[g].kind = "source" =>
                                    destroys'[g].source = (IF gl \/ ~inUse THEN 1 ELSE 0)
      BY <1>1, <2>1, TextureFrameIds DEF TextureTypeOK, FramesDestroyedOnce
    <3>1. CASE g = next_frame
      BY <1>1, <2>1, UnrefEffect, <3>1, TextureFields, SMTT(30)
      DEF TextureTypeOK, FramesCounted, HeldResolved, FramesDestroyedOnce
    <3>2. CASE g # next_frame
      BY <1>1, <2>1, UnrefEffect, <3>2, TextureFields
      DEF TextureTypeOK, FramesCounted, HeldResolved, FramesDestroyedOnce
    <3> QED BY <3>1, <3>2
  <2> QED BY <2>2, <2>3, <2>4, <2>5 DEF TextureInv
<1>9. CASE UNCHANGED textureVars
  BY <1>1, <1>9 DEF textureVars, TextureInv, TextureTypeOK, TextureListed, FramesCounted,
     HeldResolved,
     FramesDestroyedOnce
<1> QED
  BY <1>2, <1>3, <1>4, <1>5, <1>6, <1>7, <1>8, <1>9 DEF TextureNext

(* Every step keeps the engine's knowledge of a frame it has yet to fetch. *)
LEMMA AnnouncedStep == TextureInv /\ DirtyAnnounced /\ [TextureNext]_textureVars => DirtyAnnounced'
<1> SUFFICES ASSUME TextureTypeOK, TextureListed, DirtyAnnounced, [TextureNext]_textureVars
             PROVE  DirtyAnnounced'
  BY DEF TextureInv
<1>1. engine \in EngineStates /\ (texture = "live" => textures)
  BY DEF TextureTypeOK, TextureListed
<1>2. CASE TextureNew \/ RegisterTexture \/ TextureUnregister \/ TextureUnlink \/ TextureDestroy
  <2>1. UNCHANGED <<dirty, engine>>
    BY <1>2 DEF TextureNew, RegisterTexture, TextureUnregister, TextureUnlink,
       TextureDestroy
  <2>2. texture' = "live" => texture = "registering" /\ next_frame = 0 /\ next_frame' = 0
    BY <1>2 DEF TextureNew, RegisterTexture, TextureUnregister, TextureUnlink,
       TextureDestroy,
       TextureListed
  <2>3. texture' \in {"none", "registering"} => texture = "none"
    BY <1>2 DEF TextureNew, RegisterTexture, TextureUnregister, TextureUnlink,
       TextureDestroy
  <2> QED BY <2>1, <2>2, <2>3 DEF DirtyAnnounced
<1>3. ASSUME NEW is_resolved \in BOOLEAN, PushFrame(is_resolved) PROVE DirtyAnnounced'
  <2>1. texture = "live" /\ texture' = "live" /\ dirty'
    BY <1>3 DEF PushFrame
  <2>2. \/ dirty /\ engine' = engine
        \/ engine' = [engine EXCEPT !.noticed = TRUE, !.refused = FALSE]
        \/ engine' = [engine EXCEPT !.refused = TRUE]
    BY <1>3 DEF PushFrame
  <2> QED BY <1>1, <2>1, <2>2 DEF DirtyAnnounced, EngineStates
<1>4. CASE EnginePaint
  BY <1>1, <1>4 DEF EnginePaint, DirtyAnnounced, EngineStates
<1>5. CASE GlCallbackEmpty
  <2>1. /\ texture' = texture /\ engine'.latest = engine.latest
        /\ dirty' = dirty \/ ~dirty'
        /\ textures => ~dirty' /\ next_frame' = 0
    BY <1>1, <1>5 DEF GlCallbackEmpty, EngineStates
  <2> QED BY <1>1, <2>1 DEF DirtyAnnounced
<1>6. CASE GlCallback
  <2>1. texture' = texture /\ ~dirty' /\ next_frame' = next_frame
    BY <1>6 DEF GlCallback
  <2>2. engine'.latest = next_frame
    BY <1>1, <1>6 DEF GlCallback, EngineStates
  <2> QED BY <2>1, <2>2 DEF DirtyAnnounced
<1>7. CASE OnFlutterAcquiredFrameDestroy
  <2>1. PICK f \in FrameIds :
            /\ engine' = [engine EXCEPT !.holds[f] = @ - 1]
            /\ UNCHANGED <<texture, textures, next_frame, dirty, pushed>>
    BY <1>7 DEF OnFlutterAcquiredFrameDestroy
  <2>2. /\ engine'.latest = engine.latest /\ engine'.refused = engine.refused
        /\ engine'.noticed = engine.noticed /\ engine'.painting = engine.painting
    BY <1>1, <2>1 DEF EngineStates
  <2> QED BY <2>1, <2>2 DEF DirtyAnnounced
<1>8. CASE UNCHANGED textureVars
  BY <1>8 DEF textureVars, DirtyAnnounced
<1> QED BY <1>2, <1>3, <1>4, <1>5, <1>6, <1>7, <1>8 DEF TextureNext

(* Nothing is pushed, held or announced at first.                          *)
LEMMA TextureInitInv == TextureInit => TextureInv /\ DirtyAnnounced
<1> SUFFICES ASSUME TextureInit PROVE TextureInv /\ DirtyAnnounced
  OBVIOUS
<1>1. TextureTypeOK
  <2>1. frames \in FrameTable
    BY DEF TextureInit, FrameTable
  <2>2. destroys \in DestroyTable
    BY DEF TextureInit, DestroyTable
  <2>3. engine \in EngineStates
    BY DEF TextureInit, EngineStates
  <2> QED BY <2>1, <2>2, <2>3 DEF TextureInit, TextureTypeOK
<1>2. TextureListed /\ FramesCounted /\ HeldResolved /\ DirtyAnnounced
  BY TextureFrameIds DEF TextureInit, TextureListed, FramesCounted, HeldResolved,
     DirtyAnnounced
<1>3. FramesDestroyedOnce
  BY DEF TextureInit, FramesDestroyedOnce
<1> QED BY <1>1, <1>2, <1>3 DEF TextureInv
-----------------------------------------------------------------------------
(* The invariant of a texture and its frames holds for good: the counts of *)
(* references are exact, and the types those of the C structs.             *)
THEOREM TextureCorrect == TextureSpec => [](TextureInv /\ DirtyAnnounced)
<1>1. TextureInv /\ DirtyAnnounced /\ [TextureNext]_textureVars => (TextureInv /\ DirtyAnnounced)'
  BY TextureInvStep, AnnouncedStep
<1> QED BY <1>1, TextureInitInv, PTL DEF TextureSpec

(* Whatever is pushed is destroyed once, by whoever lets it go last        *)
(* (counted_texture_frame's n_refs).                                       *)
THEOREM EveryFrameDestroyedOnce == TextureSpec => []FramesDestroyedOnce
<1>1. TextureInv => FramesDestroyedOnce
  BY DEF TextureInv
<1> QED BY <1>1, TextureCorrect, PTL

(* The engine is never left ignorant of a frame it has not fetched         *)
(* (push_frame's dirty flag), except by its own refusal.                   *)
THEOREM EveryFrameAnnounced == TextureSpec => []LatestFrameAnnounced
<1>1. TextureInv /\ DirtyAnnounced => LatestFrameAnnounced
  BY DEF DirtyAnnounced, LatestFrameAnnounced
<1> QED BY <1>1, TextureCorrect, PTL

-----------------------------------------------------------------------------
(* Video events.                                                           *)
Idle == platform \in {"idle", "fetched", "crossed"}
Listening == platform \in {"reported", "added", "stored"}
Leaving == platform \in {"unlisten", "unlistened"}
Disposed == platform \in {"disposed", "stopped", "gone"}

EventsTypeOK ==
    /\ info \in [size : BOOLEAN, duration : BOOLEAN, seeking : BOOLEAN]
    /\ video \in [state : BOOLEAN, listeners : SUBSET Nat]
    /\ buffering \in [state : {"none", "busy", "full"}, listeners : SUBSET Nat]
    /\ meta \in [alive : BOOLEAN, has_listener : BOOLEAN, is_buffering : BOOLEAN,
                 video_info_listener : Nat, buffering_state_listener : Nat]
    /\ Idle \/ Listening \/ Leaving \/ Disposed
    /\ disposing \in BOOLEAN /\ held \in Nat /\ listens \in Nat
    /\ told \in [initialized : BOOLEAN, buffering : BOOLEAN]
    /\ misuse \in {"none", "listener", "meta"}
    /\ excuse \in [raced : BOOLEAN, relistened : BOOLEAN, missed : BOOLEAN]

(* A player is being disposed of for good; the app listens from the start  *)
(* of a listen to the start of a cancel.                                   *)
DisposeOK ==
    /\ disposing => Leaving \/ Disposed
    /\ Disposed => disposing
    /\ Leaving /\ ~disposing => ~meta.has_listener
    /\ Listening => meta.has_listener

(* Listeners are numbered from one.                                        *)
NumbersOK ==
    /\ 0 \notin video.listeners /\ 0 \notin buffering.listeners
    /\ \A l \in Nat : l > listens =>
        l \notin video.listeners /\ l \notin buffering.listeners /\ <<"video", l>> \notin freed
    /\ held <= listens /\ meta.video_info_listener <= listens
    /\ Listening => listens # 0
    /\ platform \in {"reported", "added"} => held = listens
    /\ platform = "stored" => held = NoListener

(* A listener is freed, or its notifier knows it, or it is being made.     *)
ListenersKept ==
    \A l \in Nat : l # 0 /\ l <= listens =>
        /\ <<"video", l>> \in freed \/ l \in video.listeners \/ (platform = "reported" /\ l = held)
        /\ <<"buffering", l>> \in freed \/ l \in buffering.listeners \/ (Listening /\ l = listens)
DeinitDone == platform = "gone" => video.listeners = {} /\ buffering.listeners = {}

(* What the app knows of the video: whoever completed the info has sent it *)
(* or is about to; an app that listens has a listener until it is told.    *)
InfoSent == Complete /\ platform \notin {"fetched", "crossed"} => video.state \/ excuse.missed
InfoTold ==
    meta.has_listener /\ ~disposing =>
        /\ video.state => told.initialized \/ excuse.missed
        /\ ~video.state /\ platform # "reported" => video.listeners # {}

(* And of the buffering.                                                   *)
BufferingTold ==
    /\ told.buffering = meta.is_buffering
    /\ buffering.state = "none" => ~meta.is_buffering
    /\ meta.has_listener /\ ~disposing /\ ~Listening =>
        /\ meta.is_buffering = (buffering.state = "busy")
        /\ buffering.listeners # {}

(* Without a race and a second listen the notifier knows at most the       *)
(* listener that the platform thread holds or has stored, and that one     *)
(* lives.                                                                  *)
Known == IF platform \in {"added", "unlisten"} THEN held
         ELSE IF Idle THEN meta.video_info_listener ELSE NoListener
OneListener ==
    excuse.raced \/ excuse.relistened \/
        /\ misuse = "none"
        /\ video.listeners = {Known} \ {NoListener}
        /\ Known # NoListener => <<"video", Known>> \notin freed
        /\ platform = "reported" => <<"video", held>> \notin freed
        /\ platform = "unlisten" => meta.video_info_listener = held /\ held # NoListener
        /\ Listening \/ platform = "unlistened" \/ Disposed => meta.video_info_listener = NoListener
        /\ Idle /\ ~meta.has_listener => meta.video_info_listener = NoListener
        /\ ~Disposed => meta.alive

EventsInv ==
    /\ EventsTypeOK /\ DisposeOK /\ NumbersOK /\ ListenersKept /\ DeinitDone /\ InfoSent /\ InfoTold
    /\ BufferingTold /\ OneListener

-----------------------------------------------------------------------------
(* Sending the info: to the listeners, not at all for want of memory, or    *)
(* not yet.  The platform thread stays where it is, but for the one that   *)
(* sends.                                                                  *)
Sending ==
    /\ misuse = "none" /\ platform \notin {"stopped", "gone"}
    /\ info' \in [size : BOOLEAN, duration : BOOLEAN, seeking : BOOLEAN]
    /\ platform' = platform \/ (platform \in {"fetched", "crossed"} /\ platform' \in {"idle", "crossed"})
    /\ UNCHANGED <<disposing, buffering, held, listens>>

LEMMA SendingPlaces ==
    ASSUME EventsTypeOK, Sending
    PROVE  /\ (Idle' <=> Idle) /\ (Listening' <=> Listening) /\ (Leaving' <=> Leaving)
           /\ (Disposed' <=> Disposed) /\ (platform' = "gone" <=> platform = "gone")
           /\ (platform' = "reported" <=> platform = "reported")
           /\ (platform' = "added" <=> platform = "added")
           /\ (platform' = "unlisten" <=> platform = "unlisten")
           /\ (platform' = "unlistened" <=> platform = "unlistened")
BY DEF EventsTypeOK, Sending, Idle, Listening, Leaving, Disposed

LEMMA NotifyStep == ASSUME EventsInv, Sending, NotifyVideoInfo PROVE EventsInv'
<1>1. /\ video' = [state |-> TRUE, listeners |-> {}]
      /\ freed' = freed \cup {<<"video", l>> : l \in video.listeners}
      /\ excuse' \in [raced : BOOLEAN, relistened : BOOLEAN, missed : BOOLEAN]
      /\ excuse'.raced <=> excuse.raced \/ (platform \in {"added", "unlisten"} /\ held \in video.listeners)
      /\ excuse'.relistened = excuse.relistened
      /\ excuse'.missed <=> excuse.missed \/ platform = "reported"
    BY DEF EventsInv, NotifyVideoInfo, EventsInv, EventsTypeOK
<1>2. /\ meta' \in [alive : BOOLEAN, has_listener : BOOLEAN, is_buffering : BOOLEAN,
                    video_info_listener : Nat, buffering_state_listener : Nat]
      /\ told' \in [initialized : BOOLEAN, buffering : BOOLEAN]
      /\ meta'.alive = meta.alive /\ meta'.has_listener = meta.has_listener
      /\ meta'.is_buffering = meta.is_buffering /\ told'.buffering = told.buffering
      /\ meta'.video_info_listener \in {meta.video_info_listener, NoListener}
      /\ told.initialized => told'.initialized
      /\ misuse' \in {"none", "meta"}
      /\ video.listeners # {} => meta'.video_info_listener = NoListener /\ told'.initialized
      /\ video.listeners = {} => meta' = meta /\ misuse' = "none"
      /\ meta.alive => misuse' = "none"
    <2>1. CASE video.listeners = {}
        BY <2>1 DEF NotifyVideoInfo, EventsInv, EventsTypeOK, Sending
    <2>2. CASE video.listeners # {}
        <3>1. /\ meta' = [meta EXCEPT !.video_info_listener = NoListener]
              /\ told' = [told EXCEPT !.initialized = TRUE]
              /\ misuse' = IF meta.alive THEN "none" ELSE "meta"
            BY <2>2 DEF NotifyVideoInfo, OnVideoInfoNotify
        <3> QED
            BY <2>2, <3>1 DEF EventsInv, EventsTypeOK, NoListener
    <2> QED
        BY <2>1, <2>2
<1>3. EventsTypeOK'
    BY <1>1, <1>2, SendingPlaces DEF EventsInv, EventsTypeOK, Sending
<1>4. DisposeOK'
    BY <1>2, SendingPlaces DEF EventsInv, DisposeOK, Sending
<1>5. NumbersOK'
    BY <1>1, <1>2, SendingPlaces DEF EventsInv, EventsTypeOK, NumbersOK, Sending, NoListener
<1>6. ListenersKept' /\ DeinitDone'
    BY <1>1, SendingPlaces DEF EventsInv, ListenersKept, DeinitDone, Sending
<1>7. InfoSent'
    BY <1>1 DEF InfoSent
<1>8. InfoTold'
    BY <1>1, <1>2 DEF EventsInv, EventsTypeOK, InfoTold, Sending
<1>9. BufferingTold'
    BY <1>2, SendingPlaces DEF EventsInv, BufferingTold, Sending
<1>10. OneListener'
    <2>1. CASE excuse.raced \/ excuse.relistened \/ excuse'.raced
        BY <1>1, <2>1 DEF OneListener
    <2>2. CASE ~excuse.raced /\ ~excuse.relistened /\ ~excuse'.raced
        <3>1. /\ video.listeners = {Known} \ {NoListener}
              /\ ~Disposed => meta.alive
              /\ Listening \/ platform = "unlistened" \/ Disposed => meta.video_info_listener = NoListener
              /\ Idle /\ ~meta.has_listener => meta.video_info_listener = NoListener
              /\ platform = "reported" => <<"video", held>> \notin freed
              /\ platform = "unlisten" => meta.video_info_listener = held /\ held # NoListener
            BY <2>2 DEF EventsInv, OneListener
        <3>2. platform # "unlisten"
            BY <1>1, <2>2, <3>1 DEF Known
        <3>3. platform # "added"
            BY <1>1, <2>2, <3>1 DEF EventsInv, NumbersOK, Known, Listening, Idle, NoListener
        <3>4. misuse' = "none"
            <4>1. Disposed => video.listeners = {}
                BY <3>1 DEF Known, Idle, Disposed
            <4> QED
                BY <1>2, <3>1, <4>1
        <3>5. Known' = NoListener
            <4>1. CASE Idle
                <5>1. meta'.video_info_listener = NoListener
                    BY <1>2, <3>1, <4>1 DEF EventsInv, EventsTypeOK, Known, Idle
                <5> QED
                    BY <4>1, <5>1, SendingPlaces, <3>2, <3>3 DEF EventsInv, Known
            <4>2. CASE ~Idle
                BY <4>2, SendingPlaces, <3>2, <3>3 DEF EventsInv, Known
            <4> QED
                BY <4>1, <4>2
        <3>6. platform = "reported" => video.listeners = {}
            BY <3>1 DEF Known, Idle
        <3>7. platform' = "reported" => <<"video", held'>> \notin freed'
            BY <1>1, <3>1, <3>6, SendingPlaces DEF EventsInv, Sending
        <3> QED
            BY <1>1, <1>2, <3>1, <3>2, <3>4, <3>5, <3>7, SendingPlaces
               DEF EventsInv, EventsTypeOK, OneListener
    <2> QED
        BY <2>1, <2>2
<1> QED
    BY <1>3, <1>4, <1>5, <1>6, <1>7, <1>8, <1>9, <1>10 DEF EventsInv

LEMMA NotSentStep ==
    ASSUME EventsInv, Sending,
           Missed \/ (Silent /\ (~Complete' \/ platform' \in {"fetched", "crossed"}))
    PROVE  EventsInv'
<1>1. /\ UNCHANGED <<video, freed, meta, told, misuse>>
      /\ excuse' \in [raced : BOOLEAN, relistened : BOOLEAN, missed : BOOLEAN]
      /\ excuse'.raced = excuse.raced /\ excuse'.relistened = excuse.relistened
      /\ excuse.missed => excuse'.missed
      /\ excuse'.missed \/ ~Complete' \/ platform' \in {"fetched", "crossed"}
    BY DEF EventsInv, EventsTypeOK, Missed, Silent
<1>2. EventsTypeOK' /\ DisposeOK' /\ NumbersOK'
    BY <1>1, SendingPlaces DEF EventsInv, EventsTypeOK, DisposeOK, NumbersOK, Sending
<1>3. ListenersKept' /\ DeinitDone' /\ InfoSent'
    BY <1>1, SendingPlaces DEF EventsInv, ListenersKept, DeinitDone, InfoSent, Sending
<1>4. InfoTold' /\ BufferingTold'
    BY <1>1, SendingPlaces DEF EventsInv, InfoTold, BufferingTold, Sending
<1>5. OneListener'
    <2>1. Known' = Known
        BY <1>1, SendingPlaces DEF EventsInv, Known, Sending
    <2> QED
        BY <1>1, <2>1, SendingPlaces DEF EventsInv, OneListener, Sending
<1> QED
    BY <1>2, <1>3, <1>4, <1>5 DEF EventsInv

LEMMA OnProbePadStep == ASSUME EventsInv, OnProbePad PROVE EventsInv'
<1>1. Sending
    BY DEF EventsInv, EventsTypeOK, OnProbePad, Running, Sending
<1>2. CASE MaybeSendInfo(info')
    BY <1>1, <1>2, NotifyStep, NotSentStep DEF MaybeSendInfo, Complete
<1>3. CASE Silent /\ platform' = "crossed"
    BY <1>1, <1>3, NotSentStep
<1> QED
    BY <1>2, <1>3 DEF OnProbePad

LEMMA FetchVideoInfoStep == ASSUME EventsInv, FetchVideoInfo PROVE EventsInv'
<1>1. EventsTypeOK'
    <2>1. info' \in [size : BOOLEAN, duration : BOOLEAN, seeking : BOOLEAN]
        <3>1. PICK d \in BOOLEAN, sk \in BOOLEAN :
                info' = [info EXCEPT !.duration = d, !.seeking = @ \/ sk]
            BY DEF FetchVideoInfo
        <3>2. (info.seeking \/ sk) \in BOOLEAN
            OBVIOUS
        <3> QED
            BY <3>1, <3>2 DEF EventsInv, EventsTypeOK
    <2> QED
        BY <2>1 DEF EventsInv, EventsTypeOK, FetchVideoInfo, Silent, PlatformIdle,
           Idle, Listening, Leaving, Disposed
<1>2. DisposeOK'
    BY <1>1 DEF EventsInv, EventsTypeOK, NumbersOK, DisposeOK, Idle, Listening, Leaving,
       Disposed, FetchVideoInfo, PlatformIdle, Silent, NoListener
<1>3. NumbersOK'
    BY <1>1 DEF EventsInv, EventsTypeOK, NumbersOK, DisposeOK, Idle, Listening, Leaving,
       Disposed, FetchVideoInfo, PlatformIdle, Silent, NoListener
<1>4. ListenersKept'
    BY <1>1 DEF EventsInv, EventsTypeOK, NumbersOK, DisposeOK, ListenersKept, Idle,
       Listening, Leaving, Disposed, FetchVideoInfo, PlatformIdle, Silent, NoListener
<1>5. DeinitDone'
    BY <1>1 DEF EventsInv, EventsTypeOK, NumbersOK, DisposeOK, DeinitDone, Idle, Listening,
       Leaving, Disposed, FetchVideoInfo, PlatformIdle, Silent, NoListener
<1>6. InfoSent'
    BY <1>1 DEF EventsInv, EventsTypeOK, NumbersOK, DisposeOK, InfoSent, Complete, Idle,
       Listening, Leaving, Disposed, FetchVideoInfo, PlatformIdle, Silent, NoListener
<1>7. InfoTold'
    BY <1>1 DEF EventsInv, EventsTypeOK, NumbersOK, DisposeOK, InfoTold, Idle, Listening,
       Leaving, Disposed, FetchVideoInfo, PlatformIdle, Silent, NoListener
<1>8. BufferingTold'
    BY <1>1 DEF EventsInv, EventsTypeOK, NumbersOK, DisposeOK, BufferingTold, Idle,
       Listening, Leaving, Disposed, FetchVideoInfo, PlatformIdle, Silent, NoListener
<1>9. OneListener'
    BY <1>1 DEF EventsInv, EventsTypeOK, NumbersOK, DisposeOK, OneListener, Known, Idle,
       Listening, Leaving, Disposed, FetchVideoInfo, PlatformIdle, Silent, NoListener
<1> QED
    BY <1>1, <1>2, <1>3, <1>4, <1>5, <1>6, <1>7, <1>8, <1>9 DEF EventsInv

LEMMA SendVideoInfoStep == ASSUME EventsInv, SendVideoInfo PROVE EventsInv'
<1>1. Sending /\ info' = info
    BY DEF EventsInv, EventsTypeOK, SendVideoInfo, Sending
<1>2. CASE MaybeSendInfo(info)
    BY <1>1, <1>2, NotifyStep, NotSentStep DEF MaybeSendInfo, Complete
<1>3. CASE Missed
    BY <1>1, <1>3, NotSentStep
<1> QED
    BY <1>2, <1>3 DEF SendVideoInfo

LEMMA UpdateBufferingStateStep == ASSUME EventsInv, UpdateBufferingState PROVE EventsInv'
<1>1. EventsTypeOK'
    <2>1. PICK state \in {"busy", "full"} :
          /\ buffering' = [buffering EXCEPT !.state = state]
          /\ IF buffering.listeners = {} THEN UNCHANGED <<meta, told>>
             ELSE /\ meta' = OnBufferingStateNotify(meta, state)
                  /\ told' = [told EXCEPT !.buffering = IF meta.is_buffering # meta'.is_buffering
                                                        THEN meta'.is_buffering ELSE @]
        BY DEF UpdateBufferingState
    <2>2. meta' \in [alive : BOOLEAN, has_listener : BOOLEAN, is_buffering : BOOLEAN,
                     video_info_listener : Nat, buffering_state_listener : Nat]
        <3>1. (state = "busy") \in BOOLEAN
            OBVIOUS
        <3> QED
            BY <2>1, <3>1, ZenonT(60) DEF EventsInv, EventsTypeOK, OnBufferingStateNotify
    <2>3. told' \in [initialized : BOOLEAN, buffering : BOOLEAN]
        BY <2>1, <2>2 DEF EventsInv, EventsTypeOK
    <2>4. buffering' \in [state : {"none", "busy", "full"}, listeners : SUBSET Nat]
        BY <2>1 DEF EventsInv, EventsTypeOK
    <2> QED
        BY <2>2, <2>3, <2>4 DEF EventsInv, EventsTypeOK, UpdateBufferingState, Idle,
           Listening, Leaving, Disposed
<1>2. DisposeOK'
    BY <1>1 DEF EventsInv, EventsTypeOK, NumbersOK, DisposeOK, Idle, Listening, Leaving,
       Disposed, UpdateBufferingState, PlatformIdle, OnBufferingStateNotify, NoListener
<1>3. NumbersOK'
    BY <1>1 DEF EventsInv, EventsTypeOK, NumbersOK, DisposeOK, Idle, Listening, Leaving,
       Disposed, UpdateBufferingState, PlatformIdle, OnBufferingStateNotify, NoListener
<1>4. ListenersKept'
    BY <1>1 DEF EventsInv, EventsTypeOK, NumbersOK, DisposeOK, ListenersKept, Idle,
       Listening, Leaving, Disposed, UpdateBufferingState, PlatformIdle,
       OnBufferingStateNotify, NoListener
<1>5. DeinitDone'
    BY <1>1 DEF EventsInv, EventsTypeOK, NumbersOK, DisposeOK, DeinitDone, Idle, Listening,
       Leaving, Disposed, UpdateBufferingState, PlatformIdle, OnBufferingStateNotify,
       NoListener
<1>6. InfoSent'
    BY <1>1 DEF EventsInv, EventsTypeOK, NumbersOK, DisposeOK, InfoSent, Complete, Idle,
       Listening, Leaving, Disposed, UpdateBufferingState, PlatformIdle,
       OnBufferingStateNotify, NoListener
<1>7. InfoTold'
    BY <1>1 DEF EventsInv, EventsTypeOK, NumbersOK, DisposeOK, InfoTold, Idle, Listening,
       Leaving, Disposed, UpdateBufferingState, PlatformIdle, OnBufferingStateNotify,
       NoListener
<1>8. BufferingTold'
    BY <1>1 DEF EventsInv, EventsTypeOK, NumbersOK, DisposeOK, BufferingTold, Idle,
       Listening, Leaving, Disposed, UpdateBufferingState, PlatformIdle,
       OnBufferingStateNotify, NoListener
<1>9. OneListener'
    BY <1>1 DEF EventsInv, EventsTypeOK, NumbersOK, DisposeOK, OneListener, Known, Idle,
       Listening, Leaving, Disposed, UpdateBufferingState, PlatformIdle,
       OnBufferingStateNotify, NoListener
<1> QED
    BY <1>1, <1>2, <1>3, <1>4, <1>5, <1>6, <1>7, <1>8, <1>9 DEF EventsInv

LEMMA ListenStep == ASSUME EventsInv, Listen PROVE EventsInv'
<1>1. /\ misuse = "none" /\ platform = "idle" /\ listens' = listens + 1
      /\ told' = [told EXCEPT !.initialized = video.state]
      /\ excuse' = [excuse EXCEPT !.relistened = @ \/ meta.has_listener, !.missed = @ /\ ~video.state]
      /\ UNCHANGED <<disposing, info, video, buffering, misuse>>
    BY DEF Listen, PlatformIdle
<1>2. /\ listens' \in Nat /\ told' \in [initialized : BOOLEAN, buffering : BOOLEAN]
      /\ told'.initialized = video.state /\ told'.buffering = told.buffering
      /\ excuse' \in [raced : BOOLEAN, relistened : BOOLEAN, missed : BOOLEAN]
      /\ excuse'.raced = excuse.raced /\ (excuse'.relistened <=> excuse.relistened \/ meta.has_listener)
      /\ excuse'.missed <=> excuse.missed /\ ~video.state
    <2> DEFINE r == excuse.relistened \/ meta.has_listener
               m == excuse.missed /\ ~video.state
    <2>1. r \in BOOLEAN /\ m \in BOOLEAN
        OBVIOUS
    <2>2. excuse' = [excuse EXCEPT !.relistened = r, !.missed = m]
        BY <1>1
    <2>3. told' \in [initialized : BOOLEAN, buffering : BOOLEAN]
          /\ told'.initialized = video.state /\ told'.buffering = told.buffering
        BY <1>1 DEF EventsInv, EventsTypeOK
    <2>4. r <=> excuse.relistened \/ meta.has_listener
        OBVIOUS
    <2>5. m <=> excuse.missed /\ ~video.state
        OBVIOUS
    <2> HIDE DEF r, m
    <2>6. /\ excuse' \in [raced : BOOLEAN, relistened : BOOLEAN, missed : BOOLEAN]
          /\ excuse'.raced = excuse.raced /\ excuse'.relistened = r /\ excuse'.missed = m
        BY <2>1, <2>2 DEF EventsInv, EventsTypeOK
    <2> QED
        BY <1>1, <2>3, <2>4, <2>5, <2>6 DEF EventsInv, EventsTypeOK
<1>3. \/ /\ video.state /\ held' = NoListener /\ platform' = "stored"
         /\ freed' = freed \cup {<<"video", listens + 1>>}
         /\ meta'.video_info_listener = NoListener
      \/ /\ ~video.state /\ held' = listens + 1 /\ platform' = "reported" /\ freed' = freed
         /\ meta'.video_info_listener = meta.video_info_listener
    BY DEF EventsInv, EventsTypeOK, Listen, OnVideoInfoNotify
<1>4. /\ meta' \in [alive : BOOLEAN, has_listener : BOOLEAN, is_buffering : BOOLEAN,
                    video_info_listener : Nat, buffering_state_listener : Nat]
      /\ meta'.alive = meta.alive /\ meta'.has_listener /\ meta'.is_buffering = meta.is_buffering
    <2>1. CASE video.state
        <3>1. meta' = [meta EXCEPT !.video_info_listener = NoListener, !.has_listener = TRUE]
            BY <2>1 DEF Listen, OnVideoInfoNotify, EventsInv, EventsTypeOK
        <3> QED
            BY <3>1 DEF EventsInv, EventsTypeOK, NoListener
    <2>2. CASE ~video.state
        <3>1. meta' = [meta EXCEPT !.has_listener = TRUE]
            BY <2>2 DEF Listen
        <3> QED
            BY <3>1 DEF EventsInv, EventsTypeOK
    <2> QED
        BY <2>1, <2>2
<1>5. ~disposing /\ Idle /\ Listening' /\ ~Idle' /\ ~Leaving' /\ ~Disposed'
    BY <1>1, <1>3 DEF EventsInv, DisposeOK, Idle, Listening, Leaving, Disposed
<1>6. EventsTypeOK' /\ DisposeOK'
    BY <1>1, <1>2, <1>3, <1>4, <1>5 DEF EventsInv, EventsTypeOK, DisposeOK, NoListener
<1>7. NumbersOK'
    BY <1>1, <1>2, <1>3, <1>5 DEF EventsInv, EventsTypeOK, NumbersOK, NoListener
<1>8. ListenersKept' /\ DeinitDone'
    BY <1>1, <1>3, <1>5 DEF EventsInv, EventsTypeOK, ListenersKept, DeinitDone, Listening,
       Idle
<1>9. InfoSent' /\ InfoTold'
    BY <1>1, <1>2, <1>3, <1>4 DEF EventsInv, InfoSent, InfoTold, Complete
<1>10. BufferingTold'
    BY <1>1, <1>2, <1>4, <1>5 DEF EventsInv, BufferingTold
<1>11. OneListener'
    <2>1. CASE excuse'.raced \/ excuse'.relistened
        BY <2>1 DEF OneListener
    <2>2. CASE ~excuse'.raced /\ ~excuse'.relistened
        <3>1. meta.video_info_listener = NoListener /\ video.listeners = {} /\ meta.alive
            BY <1>1, <1>2, <1>5, <2>2 DEF EventsInv, OneListener, Known, Disposed
        <3>2. Known' = NoListener
            BY <1>3, <1>5 DEF Known
        <3>3. <<"video", listens + 1>> \notin freed
            BY DEF EventsInv, EventsTypeOK, NumbersOK
        <3> QED
            BY <1>1, <1>3, <1>4, <1>5, <3>1, <3>2, <3>3 DEF OneListener, NoListener
    <2> QED
        BY <2>1, <2>2
<1> QED
    BY <1>6, <1>7, <1>8, <1>9, <1>10, <1>11 DEF EventsInv

LEMMA ListenAddStep == ASSUME EventsInv, ListenAdd PROVE EventsInv'
<1>1. EventsTypeOK'
    BY DEF EventsInv, EventsTypeOK, Idle, Listening, Leaving, Disposed, ListenAdd,
       NoListener
<1>2. DisposeOK'
    BY <1>1 DEF EventsInv, EventsTypeOK, NumbersOK, DisposeOK, Idle, Listening, Leaving,
       Disposed, ListenAdd, NoListener
<1>3. NumbersOK'
    BY <1>1 DEF EventsInv, EventsTypeOK, NumbersOK, DisposeOK, Idle, Listening, Leaving,
       Disposed, ListenAdd, NoListener
<1>4. ListenersKept'
    BY <1>1 DEF EventsInv, EventsTypeOK, NumbersOK, DisposeOK, ListenersKept, Idle,
       Listening, Leaving, Disposed, ListenAdd, NoListener
<1>5. DeinitDone'
    BY <1>1 DEF EventsInv, EventsTypeOK, NumbersOK, DisposeOK, DeinitDone, Idle, Listening,
       Leaving, Disposed, ListenAdd, NoListener
<1>6. InfoSent'
    BY <1>1 DEF EventsInv, EventsTypeOK, NumbersOK, DisposeOK, InfoSent, Complete, Idle,
       Listening, Leaving, Disposed, ListenAdd, NoListener
<1>7. InfoTold'
    BY <1>1 DEF EventsInv, EventsTypeOK, NumbersOK, DisposeOK, InfoTold, Idle, Listening,
       Leaving, Disposed, ListenAdd, NoListener
<1>8. BufferingTold'
    BY <1>1 DEF EventsInv, EventsTypeOK, NumbersOK, DisposeOK, BufferingTold, Idle,
       Listening, Leaving, Disposed, ListenAdd, NoListener
<1>9. OneListener'
    BY <1>1 DEF EventsInv, EventsTypeOK, NumbersOK, DisposeOK, OneListener, Known, Idle,
       Listening, Leaving, Disposed, ListenAdd, NoListener
<1> QED
    BY <1>1, <1>2, <1>3, <1>4, <1>5, <1>6, <1>7, <1>8, <1>9 DEF EventsInv

LEMMA ListenStoreStep == ASSUME EventsInv, ListenStore PROVE EventsInv'
<1>1. /\ misuse = "none" /\ platform \in {"added", "stored"} /\ platform' = "idle" /\ held' = NoListener
      /\ buffering' = [buffering EXCEPT !.listeners = @ \cup {listens}]
      /\ UNCHANGED <<disposing, info, video, listens, freed, misuse, excuse>>
    BY DEF ListenStore
<1>2. /\ buffering' \in [state : {"none", "busy", "full"}, listeners : SUBSET Nat]
      /\ buffering'.state = buffering.state /\ buffering'.listeners = buffering.listeners \cup {listens}
    BY <1>1 DEF EventsInv, EventsTypeOK
<1> DEFINE shown == OnBufferingStateNotify(meta, buffering.state)
<1>3. /\ meta' = [shown EXCEPT !.video_info_listener = held, !.buffering_state_listener = listens]
      /\ told' = [told EXCEPT !.buffering = IF meta.is_buffering # shown.is_buffering
                                            THEN shown.is_buffering ELSE @]
    BY DEF ListenStore
<1>4. /\ shown \in [alive : BOOLEAN, has_listener : BOOLEAN, is_buffering : BOOLEAN,
                    video_info_listener : Nat, buffering_state_listener : Nat]
      /\ shown.alive = meta.alive /\ shown.has_listener = meta.has_listener
      /\ shown.is_buffering <=> (IF buffering.state = "none" THEN meta.is_buffering
                                 ELSE buffering.state = "busy")
    <2>1. CASE buffering.state = "none"
        BY <2>1 DEF EventsInv, EventsTypeOK, OnBufferingStateNotify
    <2>2. CASE buffering.state # "none"
        <3>1. shown = [meta EXCEPT !.is_buffering = (buffering.state = "busy")]
            BY <2>2 DEF OnBufferingStateNotify
        <3>2. (buffering.state = "busy") \in BOOLEAN
            OBVIOUS
        <3> HIDE DEF shown
        <3> QED
            BY <2>2, <3>1, <3>2 DEF EventsInv, EventsTypeOK
    <2> QED
        BY <2>1, <2>2
<1> HIDE DEF shown
<1>5. /\ meta' \in [alive : BOOLEAN, has_listener : BOOLEAN, is_buffering : BOOLEAN,
                    video_info_listener : Nat, buffering_state_listener : Nat]
      /\ meta'.alive = meta.alive /\ meta'.has_listener = meta.has_listener
      /\ meta'.is_buffering = shown.is_buffering /\ meta'.video_info_listener = held
    BY <1>3, <1>4 DEF EventsInv, EventsTypeOK
<1>6. /\ told' \in [initialized : BOOLEAN, buffering : BOOLEAN]
      /\ told'.initialized = told.initialized /\ told'.buffering = shown.is_buffering
    <2>1. told.buffering = meta.is_buffering
        BY DEF EventsInv, BufferingTold
    <2> QED
        BY <1>3, <1>4, <2>1 DEF EventsInv, EventsTypeOK
<1>7. ~disposing /\ ~Idle /\ Listening /\ Idle' /\ ~Listening' /\ ~Leaving' /\ ~Disposed' /\ ~Disposed
    BY <1>1 DEF EventsInv, DisposeOK, Idle, Listening, Leaving, Disposed
<1>8. EventsTypeOK' /\ DisposeOK'
    BY <1>1, <1>2, <1>5, <1>6, <1>7 DEF EventsInv, EventsTypeOK, DisposeOK, NoListener
<1>9. NumbersOK'
    BY <1>1, <1>2, <1>5, <1>7 DEF EventsInv, EventsTypeOK, NumbersOK, NoListener
<1>10. ListenersKept' /\ DeinitDone'
    BY <1>1, <1>2, <1>7 DEF EventsInv, EventsTypeOK, ListenersKept, DeinitDone
<1>11. InfoSent' /\ InfoTold'
    BY <1>1, <1>5, <1>6 DEF EventsInv, InfoSent, InfoTold, Complete
<1>12. BufferingTold'
    BY <1>1, <1>2, <1>4, <1>5, <1>6 DEF EventsInv, EventsTypeOK, BufferingTold
<1>13. OneListener'
    <2>1. CASE excuse.raced \/ excuse.relistened
        BY <1>1, <2>1 DEF OneListener
    <2>2. CASE ~excuse.raced /\ ~excuse.relistened
        <3>1. Known' = held
            BY <1>1, <1>5, <1>7 DEF Known
        <3>2. /\ video.listeners = {Known} \ {NoListener} /\ meta.alive
              /\ Known # NoListener => <<"video", Known>> \notin freed
            BY <1>7, <2>2 DEF EventsInv, OneListener
        <3>3. Known = held
            BY <1>1, <1>7 DEF EventsInv, NumbersOK, Known
        <3> QED
            BY <1>1, <1>5, <1>7, <2>2, <3>1, <3>2, <3>3 DEF EventsInv, DisposeOK,
               OneListener
    <2> QED
        BY <2>1, <2>2
<1> QED
    BY <1>8, <1>9, <1>10, <1>11, <1>12, <1>13 DEF EventsInv

LEMMA CancelStep == ASSUME EventsInv, NEW dispose \in BOOLEAN, Cancel(dispose) PROVE EventsInv'
<1>1. EventsTypeOK'
    BY DEF EventsInv, EventsTypeOK, Idle, Listening, Leaving, Disposed, Cancel,
       PlatformIdle, NoListener
<1>2. DisposeOK'
    BY <1>1 DEF EventsInv, EventsTypeOK, NumbersOK, DisposeOK, Idle, Listening, Leaving,
       Disposed, Cancel, PlatformIdle, NoListener
<1>3. NumbersOK'
    BY <1>1 DEF EventsInv, EventsTypeOK, NumbersOK, DisposeOK, Idle, Listening, Leaving,
       Disposed, Cancel, PlatformIdle, NoListener
<1>4. ListenersKept'
    BY <1>1 DEF EventsInv, EventsTypeOK, NumbersOK, DisposeOK, ListenersKept, Idle,
       Listening, Leaving, Disposed, Cancel, PlatformIdle, NoListener
<1>5. DeinitDone'
    BY <1>1 DEF EventsInv, EventsTypeOK, NumbersOK, DisposeOK, DeinitDone, Idle, Listening,
       Leaving, Disposed, Cancel, PlatformIdle, NoListener
<1>6. InfoSent'
    BY <1>1 DEF EventsInv, EventsTypeOK, NumbersOK, DisposeOK, InfoSent, Complete, Idle,
       Listening, Leaving, Disposed, Cancel, PlatformIdle, NoListener
<1>7. InfoTold'
    BY <1>1 DEF EventsInv, EventsTypeOK, NumbersOK, DisposeOK, InfoTold, Idle, Listening,
       Leaving, Disposed, Cancel, PlatformIdle, NoListener
<1>8. BufferingTold'
    BY <1>1 DEF EventsInv, EventsTypeOK, NumbersOK, DisposeOK, BufferingTold, Idle,
       Listening, Leaving, Disposed, Cancel, PlatformIdle, NoListener
<1>9. OneListener'
    BY <1>1 DEF EventsInv, EventsTypeOK, NumbersOK, DisposeOK, OneListener, Known, Idle,
       Listening, Leaving, Disposed, Cancel, PlatformIdle, NoListener
<1> QED
    BY <1>1, <1>2, <1>3, <1>4, <1>5, <1>6, <1>7, <1>8, <1>9 DEF EventsInv

LEMMA UnlistenStep == ASSUME EventsInv, Unlisten PROVE EventsInv'
<1>1. EventsTypeOK'
    BY DEF EventsInv, EventsTypeOK, Idle, Listening, Leaving, Disposed, Unlisten, NoListener
<1>2. DisposeOK'
    BY <1>1 DEF EventsInv, EventsTypeOK, NumbersOK, DisposeOK, Idle, Listening, Leaving,
       Disposed, Unlisten, NoListener
<1>3. NumbersOK'
    BY <1>1 DEF EventsInv, EventsTypeOK, NumbersOK, DisposeOK, Idle, Listening, Leaving,
       Disposed, Unlisten, NoListener
<1>4. ListenersKept'
    BY <1>1 DEF EventsInv, EventsTypeOK, NumbersOK, DisposeOK, ListenersKept, Idle,
       Listening, Leaving, Disposed, Unlisten, NoListener
<1>5. DeinitDone'
    BY <1>1 DEF EventsInv, EventsTypeOK, NumbersOK, DisposeOK, DeinitDone, Idle, Listening,
       Leaving, Disposed, Unlisten, NoListener
<1>6. InfoSent'
    BY <1>1 DEF EventsInv, EventsTypeOK, NumbersOK, DisposeOK, InfoSent, Complete, Idle,
       Listening, Leaving, Disposed, Unlisten, NoListener
<1>7. InfoTold'
    BY <1>1 DEF EventsInv, EventsTypeOK, NumbersOK, DisposeOK, InfoTold, Idle, Listening,
       Leaving, Disposed, Unlisten, NoListener
<1>8. BufferingTold'
    BY <1>1 DEF EventsInv, EventsTypeOK, NumbersOK, DisposeOK, BufferingTold, Idle,
       Listening, Leaving, Disposed, Unlisten, NoListener
<1>9. OneListener'
    BY <1>1 DEF EventsInv, EventsTypeOK, NumbersOK, DisposeOK, OneListener, Known, Idle,
       Listening, Leaving, Disposed, Unlisten, NoListener
<1> QED
    BY <1>1, <1>2, <1>3, <1>4, <1>5, <1>6, <1>7, <1>8, <1>9 DEF EventsInv

LEMMA UnlistenBufferingStep == ASSUME EventsInv, UnlistenBuffering PROVE EventsInv'
<1>1. EventsTypeOK'
    BY DEF EventsInv, EventsTypeOK, Idle, Listening, Leaving, Disposed, UnlistenBuffering,
       NoListener
<1>2. DisposeOK'
    BY <1>1 DEF EventsInv, EventsTypeOK, NumbersOK, DisposeOK, Idle, Listening, Leaving,
       Disposed, UnlistenBuffering, NoListener
<1>3. NumbersOK'
    BY <1>1 DEF EventsInv, EventsTypeOK, NumbersOK, DisposeOK, Idle, Listening, Leaving,
       Disposed, UnlistenBuffering, NoListener
<1>4. ListenersKept'
    BY <1>1 DEF EventsInv, EventsTypeOK, NumbersOK, DisposeOK, ListenersKept, Idle,
       Listening, Leaving, Disposed, UnlistenBuffering, NoListener
<1>5. DeinitDone'
    BY <1>1 DEF EventsInv, EventsTypeOK, NumbersOK, DisposeOK, DeinitDone, Idle, Listening,
       Leaving, Disposed, UnlistenBuffering, NoListener
<1>6. InfoSent'
    BY <1>1 DEF EventsInv, EventsTypeOK, NumbersOK, DisposeOK, InfoSent, Complete, Idle,
       Listening, Leaving, Disposed, UnlistenBuffering, NoListener
<1>7. InfoTold'
    BY <1>1 DEF EventsInv, EventsTypeOK, NumbersOK, DisposeOK, InfoTold, Idle, Listening,
       Leaving, Disposed, UnlistenBuffering, NoListener
<1>8. BufferingTold'
    BY <1>1 DEF EventsInv, EventsTypeOK, NumbersOK, DisposeOK, BufferingTold, Idle,
       Listening, Leaving, Disposed, UnlistenBuffering, NoListener
<1>9. OneListener'
    BY <1>1 DEF EventsInv, EventsTypeOK, NumbersOK, DisposeOK, OneListener, Known, Idle,
       Listening, Leaving, Disposed, UnlistenBuffering, NoListener
<1> QED
    BY <1>1, <1>2, <1>3, <1>4, <1>5, <1>6, <1>7, <1>8, <1>9 DEF EventsInv

LEMMA MaybeDeinitStep == ASSUME EventsInv, MaybeDeinit PROVE EventsInv'
<1>1. EventsTypeOK'
    BY DEF EventsInv, EventsTypeOK, Idle, Listening, Leaving, Disposed, MaybeDeinit,
       NoListener
<1>2. DisposeOK'
    BY <1>1 DEF EventsInv, EventsTypeOK, NumbersOK, DisposeOK, Idle, Listening, Leaving,
       Disposed, MaybeDeinit, NoListener
<1>3. NumbersOK'
    BY <1>1 DEF EventsInv, EventsTypeOK, NumbersOK, DisposeOK, Idle, Listening, Leaving,
       Disposed, MaybeDeinit, NoListener
<1>4. ListenersKept'
    BY <1>1 DEF EventsInv, EventsTypeOK, NumbersOK, DisposeOK, ListenersKept, Idle,
       Listening, Leaving, Disposed, MaybeDeinit, NoListener
<1>5. DeinitDone'
    BY <1>1 DEF EventsInv, EventsTypeOK, NumbersOK, DisposeOK, DeinitDone, Idle, Listening,
       Leaving, Disposed, MaybeDeinit, NoListener
<1>6. InfoSent'
    BY <1>1 DEF EventsInv, EventsTypeOK, NumbersOK, DisposeOK, InfoSent, Complete, Idle,
       Listening, Leaving, Disposed, MaybeDeinit, NoListener
<1>7. InfoTold'
    BY <1>1 DEF EventsInv, EventsTypeOK, NumbersOK, DisposeOK, InfoTold, Idle, Listening,
       Leaving, Disposed, MaybeDeinit, NoListener
<1>8. BufferingTold'
    BY <1>1 DEF EventsInv, EventsTypeOK, NumbersOK, DisposeOK, BufferingTold, Idle,
       Listening, Leaving, Disposed, MaybeDeinit, NoListener
<1>9. OneListener'
    BY <1>1 DEF EventsInv, EventsTypeOK, NumbersOK, DisposeOK, OneListener, Known, Idle,
       Listening, Leaving, Disposed, MaybeDeinit, NoListener
<1> QED
    BY <1>1, <1>2, <1>3, <1>4, <1>5, <1>6, <1>7, <1>8, <1>9 DEF EventsInv

LEMMA NotifierDeinitStep == ASSUME EventsInv, NotifierDeinit PROVE EventsInv'
<1>0. /\ video' \in [state : BOOLEAN, listeners : SUBSET Nat]
      /\ buffering' \in [state : {"none", "busy", "full"}, listeners : SUBSET Nat]
    BY DEF EventsInv, EventsTypeOK, NotifierDeinit
<1>1. EventsTypeOK'
    BY <1>0 DEF EventsInv, EventsTypeOK, Idle, Listening, Leaving, Disposed, NotifierDeinit
<1>2. DisposeOK'
    BY <1>1 DEF EventsInv, EventsTypeOK, NumbersOK, DisposeOK, Idle, Listening, Leaving,
       Disposed, NotifierDeinit, NoListener
<1>3. NumbersOK'
    BY <1>1 DEF EventsInv, EventsTypeOK, NumbersOK, DisposeOK, Idle, Listening, Leaving,
       Disposed, NotifierDeinit, NoListener
<1>4. ListenersKept'
    BY <1>1 DEF EventsInv, EventsTypeOK, NumbersOK, DisposeOK, ListenersKept, Idle,
       Listening, Leaving, Disposed, NotifierDeinit, NoListener
<1>5. DeinitDone'
    BY <1>1 DEF EventsInv, EventsTypeOK, NumbersOK, DisposeOK, DeinitDone, Idle, Listening,
       Leaving, Disposed, NotifierDeinit, NoListener
<1>6. InfoSent'
    BY <1>1 DEF EventsInv, EventsTypeOK, NumbersOK, DisposeOK, InfoSent, Complete, Idle,
       Listening, Leaving, Disposed, NotifierDeinit, NoListener
<1>7. InfoTold'
    BY <1>1 DEF EventsInv, EventsTypeOK, NumbersOK, DisposeOK, InfoTold, Idle, Listening,
       Leaving, Disposed, NotifierDeinit, NoListener
<1>8. BufferingTold'
    BY <1>1 DEF EventsInv, EventsTypeOK, NumbersOK, DisposeOK, BufferingTold, Idle,
       Listening, Leaving, Disposed, NotifierDeinit, NoListener
<1>9. OneListener'
    BY <1>1 DEF EventsInv, EventsTypeOK, NumbersOK, DisposeOK, OneListener, Known, Idle,
       Listening, Leaving, Disposed, NotifierDeinit, NoListener
<1> QED
    BY <1>1, <1>2, <1>3, <1>4, <1>5, <1>6, <1>7, <1>8, <1>9 DEF EventsInv

LEMMA EventsInitially == EventsInit => EventsInv
<1> SUFFICES ASSUME EventsInit PROVE EventsInv
    OBVIOUS
<1>1. EventsTypeOK /\ DisposeOK
    BY DEF EventsInit, EventsTypeOK, DisposeOK, Idle, Listening, Leaving, Disposed,
       NoListener
<1>2. NumbersOK /\ ListenersKept /\ DeinitDone
    BY DEF EventsInit, NumbersOK, ListenersKept, DeinitDone, Listening, NoListener
<1>3. InfoSent /\ InfoTold /\ BufferingTold
    BY DEF EventsInit, InfoSent, InfoTold, BufferingTold, Complete
<1>4. OneListener
    BY DEF EventsInit, OneListener, Known, Idle, Listening, Disposed, NoListener
<1> QED
    BY <1>1, <1>2, <1>3, <1>4 DEF EventsInv

LEMMA EventsStep == EventsInv /\ [EventsNext]_eventVars => EventsInv'
<1> SUFFICES ASSUME EventsInv, [EventsNext]_eventVars PROVE EventsInv'
    OBVIOUS
<1>1. ASSUME NEW dispose \in BOOLEAN, Cancel(dispose) PROVE EventsInv'
    BY <1>1, CancelStep
<1>2. CASE UNCHANGED eventVars
    BY <1>2 DEF eventVars, EventsInv, EventsTypeOK, DisposeOK, NumbersOK, ListenersKept,
       DeinitDone,
       InfoSent, InfoTold, BufferingTold, OneListener, Known, Complete, Idle, Listening, Leaving, Disposed
<1> QED
    BY <1>1, <1>2, OnProbePadStep, FetchVideoInfoStep, SendVideoInfoStep,
       UpdateBufferingStateStep,
       ListenStep, ListenAddStep, ListenStoreStep, UnlistenStep, UnlistenBufferingStep,
       MaybeDeinitStep, NotifierDeinitStep DEF EventsNext

(* The listeners, what is known of the video and what the app was told     *)
(* agree, for any number of listens.                                       *)
THEOREM EventsCorrect == EventsSpec => []EventsInv
BY EventsInitially, EventsStep, PTL DEF EventsSpec

-----------------------------------------------------------------------------
(* An app that listens has been told what is known of the video and how    *)
(* the buffering is, whichever thread completed the info and whether it    *)
(* listened before or after (on_video_info_notify,                         *)
(* on_buffering_state_notify).                                             *)
THEOREM AppInStep == EventsSpec => []EventsInStep
<1>1. EventsInv => EventsInStep
    BY DEF EventsInv, EventsInStep, InfoSent, InfoTold, BufferingTold, DisposeOK,
       PlatformIdle,
       Leaving, Disposed, Listening
<1> QED
    BY <1>1, EventsCorrect, PTL

(* Every listener is freed, and none is used after that, outside the two   *)
(* windows in which the platform thread holds one without the lock         *)
(* (notifier_listen, notifier_unlisten).                                   *)
THEOREM EveryListenerFreedOnce == EventsSpec => []ListenersFreedOnce
<1>1. EventsInv => ListenersFreedOnce
    <2> SUFFICES ASSUME EventsInv PROVE ListenersFreedOnce
        OBVIOUS
    <2>1. misuse = "none" \/ excuse.raced \/ excuse.relistened
        BY DEF EventsInv, OneListener
    <2>2. ASSUME platform = "gone", NEW l \in 1..listens
          PROVE  <<"video", l>> \in freed /\ <<"buffering", l>> \in freed
        <3>1. l \in Nat /\ l # 0 /\ l <= listens /\ ~Listening
            BY <2>2 DEF EventsInv, EventsTypeOK, Listening
        <3> QED
            BY <2>2, <3>1 DEF EventsInv, ListenersKept, DeinitDone
    <2>3. ASSUME platform = "gone"
          PROVE  {<<kind, l>> : kind \in {"video", "buffering"}, l \in 1..listens} \subseteq freed
        <3> SUFFICES ASSUME NEW kind \in {"video", "buffering"}, NEW l \in 1..listens
                     PROVE  <<kind, l>> \in freed
            OBVIOUS
        <3>1. <<"video", l>> \in freed /\ <<"buffering", l>> \in freed
            BY <2>2, <2>3
        <3> QED
            BY <3>1
    <2> QED
        BY <2>1, <2>3 DEF ListenersFreedOnce
<1> QED
    BY <1>1, EventsCorrect, PTL

-----------------------------------------------------------------------------
(* Players.                                                                *)
Player ==
    [kind : {"media", "web"}, plane : BOOLEAN, state : {"kPaused", "kPlaying", "kStepping"},
     direction : {"kForward", "kBackward"}, forward : Nat, rate : Int, seek : BOOLEAN,
     looping : BOOLEAN, pipe : [goal : {"PAUSED", "PLAYING"}, broken : BOOLEAN, rate : Int],
     applied : BOOLEAN, overruled : BOOLEAN]

(* What the player believes its rate to be is what the pipeline was told,  *)
(* and no call succeeded since a change of the state failed.               *)
PlayerOK(p) ==
    /\ p \in Player
    /\ p.kind = "media" =>
          /\ p.rate = p.pipe.rate
          /\ p.pipe.broken => ~p.applied \/ p.overruled
    /\ Follows(p)

(* The ids from next_id on were never given to a player.                   *)
VideoInv ==
    /\ plugin \in [running : BOOLEAN, initialized : BOOLEAN]
    /\ next_id \in Nat \ {0}
    /\ DOMAIN players = PlayerIds
    /\ \A id \in PlayerIds : players[id] = NoPlayer \/ PlayerOK(players[id])
    /\ \A id \in PlayerIds : id >= next_id => players[id] = NoPlayer
    /\ PlayersAccounted

-----------------------------------------------------------------------------
AudioStates == {"NULL", "READY", "PAUSED", "PLAYING"}
StreamMessages ==
    {StateChanged("PAUSED", "PLAYING"), StateChanged("PLAYING", "PAUSED"),
     Notice("EOS"), Notice("ASYNC_DONE")}
BusMessages ==
    {StateChanged(old, new) : old \in AudioStates, new \in AudioStates}
        \cup {Notice(type) : type \in {"EOS", "ASYNC_DONE", "ERROR"}}

StructAudio ==
    [url : Urls \cup {"none"}, is_initialized : BOOLEAN, is_playing : BOOLEAN, is_looping : BOOLEAN,
     is_seek_completed : BOOLEAN, playback_rate : Nat \ {0}, event_subscribed : BOOLEAN,
     playbin : AudioStates, busy : {"no", "preroll", "seek"}, bus : Seq(BusMessages),
     failed : BOOLEAN, heard : {"deaf", "waiting", "prepared"}]

(* The way of a source to being ready; until then no call reaches the      *)
(* pipeline.                                                               *)
Stopped(p) == p.playbin = "NULL" /\ p.busy = "no" /\ p.bus = <<>>
Opened(p) == p.playbin = "READY" /\ p.busy = "no" /\ p.bus = <<StateChanged("NULL", "READY")>>
Prerolling(p) == p.playbin = "READY" /\ p.busy = "preroll" /\ p.bus = <<>>
Prerolled(p) ==
    /\ p.playbin = "PAUSED" /\ p.busy = "no"
    /\ p.bus = <<StateChanged("READY", "PAUSED"), Notice("ASYNC_DONE")>>

(* A ready source plays as it was asked to, and a seek that is not         *)
(* completed is under way or its completion is on the bus.                 *)
SeekAnswered(p) ==
    p.is_seek_completed \/ p.busy = "seek" \/ \E i \in 1..Len(p.bus) : p.bus[i] = Notice("ASYNC_DONE")
ReadyOK(p) ==
    /\ p.playbin \in {"PAUSED", "PLAYING"} /\ p.busy \in {"no", "seek"}
    /\ p.playbin = "PLAYING" <=> p.is_playing
    /\ p.bus \in Seq(StreamMessages)
    /\ SeekAnswered(p)
    /\ p.heard # "waiting"

AudioOK(p) ==
    /\ p \in StructAudio
    /\ p.heard = "waiting" => p.event_subscribed
    /\ \/ p.failed
       \/ p.is_initialized /\ ReadyOK(p)
       \/ ~p.is_initialized /\ (Stopped(p) \/ Opened(p) \/ Prerolling(p) \/ Prerolled(p))

AudioInv == audioPlayer = NoAudio \/ AudioOK(audioPlayer)
-----------------------------------------------------------------------------
(* What a call makes of a player: the same player, whatever succeeded.     *)
Same(p, q) == PlayerOK(q) /\ q.kind = p.kind /\ q.plane = p.plane

(* A wish alone: what the pipeline was told stays.                         *)
Wish(p, q) ==
    /\ q \in Player /\ q.kind = p.kind /\ q.plane = p.plane
    /\ q.pipe = p.pipe /\ q.rate = p.rate

(* apply_playback_state, after any change of the wishes.                   *)
LEMMA ApplySame ==
    ASSUME NEW p, PlayerOK(p), NEW q, Wish(p, q), q.kind = "media",
           NEW o \in ApplyPlaybackState(q)
    PROVE  Same(p, o.player)
<1> DEFINE goal == DesiredState(q)
           rate == DesiredRate(q)
<1>1. q \in Player /\ q.rate = q.pipe.rate /\ p.kind = q.kind /\ p.plane = q.plane
    BY DEF PlayerOK, Wish
<1>2. goal \in {"PAUSED", "PLAYING"} /\ rate \in Int
    BY <1>1 DEF DesiredState, DesiredRate, Player
<1>3. PICK s : /\ o = Remember(s)
               /\ \/ s \in ApplySeek(q) /\ ~s.ok
                  \/ \E t \in ApplySeek(q) : t.ok /\ s \in ApplyState(t.player)
    BY DEF ApplyPlaybackState
<1> HIDE DEF goal, rate
(* The wishes and the rate stay apart from what the seek applies.          *)
<1>4. ASSUME NEW t \in ApplySeek(q)
      PROVE  /\ t.ok \in BOOLEAN
             /\ ~t.ok => t.player = q
             /\ t.ok => /\ t.player \in Player /\ t.player.kind = q.kind /\ t.player.plane = q.plane
                        /\ t.player.rate = rate /\ t.player.pipe.rate = rate
                        /\ ~t.player.seek
                        /\ DesiredState(t.player) = goal /\ DesiredRate(t.player) = rate
    <2>1. CASE q.rate = rate /\ ~q.seek
        <3>1. t = Outcome(q, TRUE)
            BY <2>1 DEF ApplySeek, rate
        <3>2. DesiredState(q) = goal /\ DesiredRate(q) = rate
            BY DEF goal, rate
        <3>3. t.player = q /\ t.ok = TRUE
            BY <3>1 DEF Outcome
        <3> QED
            BY <1>1, <2>1, <3>2, <3>3
    <2>2. CASE ~(q.rate = rate /\ ~q.seek)
        <3> DEFINE u == [q EXCEPT !.pipe.rate = rate, !.rate = rate, !.seek = FALSE]
        <3>1. t = Outcome(q, FALSE) \/ t = Outcome(u, TRUE)
            BY <2>2 DEF ApplySeek, rate
        <3>2. /\ u \in Player /\ u.kind = q.kind /\ u.plane = q.plane
              /\ u.rate = rate /\ u.pipe.rate = rate /\ ~u.seek
              /\ u.state = q.state /\ u.direction = q.direction /\ u.forward = q.forward
            BY <1>1, <1>2 DEF Player
        <3> HIDE DEF u
        <3>3. DesiredState(u) = goal /\ DesiredRate(u) = rate
            BY <3>2 DEF DesiredState, DesiredRate, goal, rate
        <3>4. (t.player = q /\ t.ok = FALSE) \/ (t.player = u /\ t.ok = TRUE)
            BY <3>1 DEF Outcome
        <3> QED
            BY <3>2, <3>3, <3>4
    <2> QED
        BY <2>1, <2>2
<1>5. CASE s \in ApplySeek(q) /\ ~s.ok
    <2>1. s.player = q /\ s.ok = FALSE
        BY <1>4, <1>5
    <2>2. o.player = [s.player EXCEPT !.applied = s.ok, !.overruled = FALSE]
        BY <1>3 DEF Remember, Outcome
    <2> QED
        BY <1>1, <2>1, <2>2, ZenonT(60) DEF Same, PlayerOK, Follows, Player
<1>6. ASSUME NEW t \in ApplySeek(q), t.ok, s \in ApplyState(t.player)
      PROVE  Same(p, o.player)
    <2> DEFINE u == t.player
    <2>1. /\ u \in Player /\ u.kind = q.kind /\ u.plane = q.plane
          /\ u.rate = rate /\ u.pipe.rate = rate /\ ~u.seek
          /\ DesiredState(u) = goal /\ DesiredRate(u) = rate
        BY <1>4, <1>6
    <2>2. s \in ApplyState(u)
        BY <1>6
    <2> HIDE DEF u
    <2> DEFINE v == [u EXCEPT !.pipe.goal = goal]
               w == [u EXCEPT !.pipe.broken = TRUE]
    <2>3. \/ s = Outcome(u, FALSE)
          \/ s = Outcome(u, TRUE) /\ u.pipe.goal = goal /\ ~u.pipe.broken
          \/ s = Outcome(v, TRUE) /\ ~u.pipe.broken
          \/ s = Outcome(w, FALSE)
        BY <2>1, <2>2 DEF ApplyState
    <2>4. o.player = [s.player EXCEPT !.applied = s.ok, !.overruled = FALSE]
        BY <1>3 DEF Remember, Outcome
    <2>5. ASSUME NEW x \in Player, x.kind = q.kind, x.plane = q.plane, x.rate = rate,
                 x.pipe.rate = rate, ~x.seek, DesiredState(x) = goal, DesiredRate(x) = rate,
                 NEW ok \in BOOLEAN, ok => x.pipe.goal = goal /\ ~x.pipe.broken
          PROVE  Same(p, [x EXCEPT !.applied = ok, !.overruled = FALSE])
        <3> DEFINE y == [x EXCEPT !.applied = ok, !.overruled = FALSE]
        <3>1. /\ y \in Player /\ y.kind = x.kind /\ y.plane = x.plane /\ y.rate = x.rate
              /\ y.pipe = x.pipe /\ y.seek = x.seek /\ y.applied = ok
              /\ y.state = x.state /\ y.direction = x.direction /\ y.forward = x.forward
            BY <2>5 DEF Player
        <3> HIDE DEF y
        <3>2. DesiredState(y) = goal /\ DesiredRate(y) = rate
            BY <2>5, <3>1 DEF DesiredState, DesiredRate
        <3>3. PlayerOK(y) /\ y.kind = p.kind /\ y.plane = p.plane
            BY <1>1, <2>5, <3>1, <3>2 DEF PlayerOK, Follows
        <3> QED
            BY <3>3 DEF Same, y
    <2>6. /\ v \in Player /\ v.kind = u.kind /\ v.plane = u.plane /\ v.rate = u.rate
          /\ v.pipe.rate = u.pipe.rate /\ v.pipe.goal = goal /\ v.pipe.broken = u.pipe.broken
          /\ v.seek = u.seek /\ v.state = u.state /\ v.direction = u.direction
          /\ v.forward = u.forward
        BY <1>2, <2>1 DEF Player
    <2>7. /\ w \in Player /\ w.kind = u.kind /\ w.plane = u.plane /\ w.rate = u.rate
          /\ w.pipe.rate = u.pipe.rate
          /\ w.seek = u.seek /\ w.state = u.state /\ w.direction = u.direction
          /\ w.forward = u.forward
        BY <2>1 DEF Player
    <2> HIDE DEF v, w
    <2>8. /\ DesiredState(v) = goal /\ DesiredRate(v) = rate
          /\ DesiredState(w) = goal /\ DesiredRate(w) = rate
        BY <2>1, <2>6, <2>7 DEF DesiredState, DesiredRate
    <2>9. CASE s = Outcome(u, FALSE)
        BY <2>1, <2>4, <2>5, <2>9 DEF Outcome
    <2>10. CASE s = Outcome(u, TRUE) /\ u.pipe.goal = goal /\ ~u.pipe.broken
        BY <2>1, <2>4, <2>5, <2>10 DEF Outcome
    <2>11. CASE s = Outcome(v, TRUE) /\ ~u.pipe.broken
        BY <2>1, <2>4, <2>5, <2>6, <2>8, <2>11 DEF Outcome
    <2>12. CASE s = Outcome(w, FALSE)
        BY <2>1, <2>4, <2>5, <2>7, <2>8, <2>12 DEF Outcome
    <2> QED
        BY <2>3, <2>9, <2>10, <2>11, <2>12
<1> QED
    BY <1>3, <1>5, <1>6

(* A web view has no pipeline to apply a wish to.                          *)
LEMMA WebSame ==
    ASSUME NEW p, PlayerOK(p), NEW q, Wish(p, q), q.kind # "media", NEW o \in ApplyPlaybackState(q)
    PROVE  Same(p, o.player)
<1>1. q.kind = "web"
    BY DEF Wish, Player
<1>2. o.player = q
    BY <1>1 DEF ApplyPlaybackState, Outcome
<1> QED
    BY <1>2 DEF Same, PlayerOK, Follows, Wish

LEMMA WishSame ==
    ASSUME NEW p, PlayerOK(p), NEW q, Wish(p, q), NEW o \in ApplyPlaybackState(q)
    PROVE  Same(p, o.player)
BY ApplySame, WebSame
-----------------------------------------------------------------------------
(* Every call on a player, with all of its outcomes.                       *)
AllSame(p, outcomes) == \A o \in outcomes : Same(p, o.player)

LEMMA CallsSame ==
    ASSUME NEW p, PlayerOK(p)
    PROVE  /\ AllSame(p, GstplayerPlay(p))
           /\ AllSame(p, GstplayerPause(p))
           /\ AllSame(p, SetLooping(p))
           /\ AllSame(p, GstplayerSetVolume(p))
           /\ AllSame(p, GstplayerSeekTo(p))
           /\ AllSame(p, SetSpeed(p))
           /\ AllSame(p, StepForward(p))
           /\ AllSame(p, StepBackward(p))
           /\ AllSame(p, GstplayerGetPosition(p))
           /\ AllSame(p, GstplayerWeb(p))
<1>1. p \in Player /\ Wish(p, p) /\ Same(p, p)
    BY DEF PlayerOK, Wish, Same
<1>2. Wish(p, [p EXCEPT !.state = "kPlaying", !.direction = "kForward"])
    BY <1>1 DEF Wish, Player
<1>3. Wish(p, [p EXCEPT !.state = "kPaused", !.direction = "kForward"])
    BY <1>1 DEF Wish, Player
<1>4. ASSUME NEW d \in {"kForward", "kBackward"}
      PROVE  Wish(p, [p EXCEPT !.state = "kStepping", !.direction = d])
    BY <1>1 DEF Wish, Player
<1>5. Wish(p, [p EXCEPT !.seek = TRUE])
    BY <1>1 DEF Wish, Player
<1>6. ASSUME NEW f \in {1, 2} PROVE Wish(p, [p EXCEPT !.forward = f])
    BY <1>1 DEF Wish, Player
<1>7. ASSUME NEW l \in BOOLEAN PROVE Same(p, [p EXCEPT !.looping = l])
    <2> DEFINE q == [p EXCEPT !.looping = l]
    <2>1. /\ q \in Player /\ q.kind = p.kind /\ q.plane = p.plane /\ q.rate = p.rate
          /\ q.pipe = p.pipe /\ q.seek = p.seek /\ q.applied = p.applied
          /\ q.overruled = p.overruled
          /\ q.state = p.state /\ q.direction = p.direction /\ q.forward = p.forward
        BY <1>1 DEF Player
    <2> HIDE DEF q
    <2>2. PlayerOK(q)
        BY <2>1 DEF PlayerOK, Follows, DesiredState, DesiredRate
    <2> QED
        BY <2>1, <2>2 DEF Same, q
<1>8. AllSame(p, GstplayerPlay(p))
    BY <1>2, WishSame DEF AllSame, GstplayerPlay
<1>9. AllSame(p, GstplayerPause(p))
    BY <1>3, WishSame DEF AllSame, GstplayerPause
<1>10. AllSame(p, SetLooping(p))
    BY <1>7 DEF AllSame, SetLooping, GstplayerSetLooping, Outcome
<1>11. AllSame(p, GstplayerSetVolume(p)) /\ AllSame(p, GstplayerGetPosition(p)) /\ AllSame(p, GstplayerWeb(p))
    BY <1>1 DEF AllSame, GstplayerSetVolume, GstplayerGetPosition, GstplayerWeb, Outcome
<1>12. AllSame(p, GstplayerSeekTo(p))
    BY <1>5, WishSame DEF AllSame, GstplayerSeekTo
<1>13. AllSame(p, SetSpeed(p))
    BY <1>6, WishSame DEF AllSame, SetSpeed, GstplayerSetPlaybackSpeed
<1>14. ASSUME NEW d \in {"kForward", "kBackward"} PROVE AllSame(p, GstplayerStep(p, d))
    <2>1. CASE p.kind = "web"
        BY <1>1, <2>1 DEF AllSame, GstplayerStep, Outcome
    <2>2. CASE p.kind # "web"
        <3> DEFINE applied == ApplyPlaybackState([p EXCEPT !.state = "kStepping", !.direction = d])
        <3>1. \A o \in applied : Same(p, o.player)
            BY <1>4, WishSame
        <3>2. GstplayerStep(p, d) = applied \cup {Outcome(o.player, FALSE) : o \in applied}
            BY <2>2 DEF GstplayerStep
        <3> HIDE DEF applied
        <3> QED
            BY <3>1, <3>2 DEF AllSame, Outcome
    <2> QED
        BY <2>1, <2>2
<1> QED
    BY <1>8, <1>9, <1>10, <1>11, <1>12, <1>13, <1>14 DEF StepForward, StepBackward

LEMMA NewPlayerOK ==
    ASSUME NEW kind \in {"media", "web"}, NEW plane \in BOOLEAN
    PROVE  LET p == NewPlayer(kind, plane)
           IN  PlayerOK(p) /\ p # NoPlayer /\ p.plane = plane
<1> DEFINE p == NewPlayer(kind, plane)
<1>1. p \in Player /\ p.plane = plane /\ p.rate = 1 /\ p.pipe = NewPipeline /\ ~p.seek /\ p.forward = 1
      /\ p.state = "kPaused"
    BY DEF NewPlayer, NewPipeline, Player
<1>2. p.kind # "none" /\ NoPlayer.kind = "none"
    BY DEF NewPlayer, NoPlayer
<1> HIDE DEF p
<1>3. PlayerOK(p)
    BY <1>1 DEF PlayerOK, Follows, DesiredState, DesiredRate, NewPipeline
<1> QED
    BY <1>1, <1>2, <1>3 DEF p

(* Messages of the pipeline.                                               *)
LEMMA MessagesSame ==
    ASSUME NEW p, PlayerOK(p), p.kind = "media"
    PROVE  /\ \A requested \in {"PAUSED", "PLAYING"} : \A q \in OnRequestState(p, requested) : Same(p, q)
           /\ \A q \in OnAppsinkEos(p) : Same(p, q)
<1>1. p \in Player /\ Wish(p, p) /\ Same(p, p) /\ p.rate = p.pipe.rate
    BY DEF PlayerOK, Wish, Same
<1>2. ASSUME NEW requested \in {"PAUSED", "PLAYING"}, NEW q \in OnRequestState(p, requested)
      PROVE  Same(p, q)
    <2>1. /\ q \in Player /\ q.kind = p.kind /\ q.plane = p.plane /\ q.rate = p.rate
          /\ q.pipe.rate = p.pipe.rate /\ q.overruled
        <3>1. CASE q = [p EXCEPT !.pipe.goal = requested, !.pipe.broken = FALSE, !.overruled = TRUE]
            BY <1>1, <3>1 DEF Player
        <3>2. CASE q = [p EXCEPT !.pipe.broken = TRUE, !.overruled = TRUE]
            BY <1>1, <3>2 DEF Player
        <3> QED
            BY <3>1, <3>2 DEF OnRequestState
    <2> QED
        BY <1>1, <2>1 DEF Same, PlayerOK, Follows
<1>3. \A q \in OnAppsinkEos(p) : Same(p, q)
    BY <1>1, WishSame DEF OnAppsinkEos
<1> QED
    BY <1>2, <1>3
-----------------------------------------------------------------------------
LEMMA VideoInitially == VideoInit => VideoInv
BY VideoBounds DEF VideoInit, VideoInv, PlayersAccounted, Allocated, PlayerIds

LEMMA PluginInitStep == VideoInv /\ GstplayerPluginInit => VideoInv'
BY DEF VideoInv, GstplayerPluginInit, PlayersAccounted, Allocated, PlayerIds

LEMMA InitializeStep == VideoInv /\ OnInitialize => VideoInv'
BY ZenonT(60) DEF VideoInv, OnInitialize, PlayersAccounted, Allocated, PlayerIds

(* A player becomes the same one after a call or a message.                *)
LEMMA ChangeStep ==
    ASSUME VideoInv, NEW id \in Allocated, NEW q, Same(players[id], q), plugin.running,
           players' = [players EXCEPT ![id] = q],
           UNCHANGED <<plugin, channels, listed, receivers, views, next_id, environment>>
    PROVE  VideoInv'
<1>1. id \in PlayerIds /\ players[id] # NoPlayer /\ PlayerOK(players[id]) /\ PlayerOK(q)
      /\ q.plane = players[id].plane
    BY DEF VideoInv, Allocated, Same
<1>2. q # NoPlayer
    <2>1. q.kind # "none" /\ NoPlayer.kind = "none"
        BY <1>1 DEF PlayerOK, Player, NoPlayer
    <2> QED
        BY <2>1
<1>3. DOMAIN players' = PlayerIds /\ players'[id] = q
      /\ \A i \in PlayerIds : i # id => players'[i] = players[i]
    BY <1>1 DEF VideoInv, PlayerIds
<1>4. Allocated' = Allocated
    BY <1>1, <1>2, <1>3 DEF Allocated, PlayerIds
<1>5. \A i \in Allocated : players'[i].plane = players[i].plane
    BY <1>1, <1>3 DEF Allocated
<1>6. PlayersAccounted'
    BY <1>4, <1>5 DEF VideoInv, PlayersAccounted
<1> QED
    BY <1>1, <1>3, <1>6 DEF VideoInv, PlayerIds

(* What the handlers may do: the player named by the call becomes the same *)
(* one, whatever the outcome.                                              *)
Harmless(changes) ==
    \A c \in changes : c.id \in Allocated /\ Same(players[c.id], c.player)

LEMMA HarmlessStep ==
    ASSUME VideoInv, NEW changes, Harmless(changes), OnCall(changes)
    PROVE  VideoInv'
<1>1. PICK c \in changes : players' = [players EXCEPT ![c.id] = c.player]
    BY DEF OnCall
<1> QED
    BY <1>1, ChangeStep DEF OnCall, Harmless

LEMMA BecomesHarmless ==
    ASSUME VideoInv, NEW id \in listed, NEW outcomes, AllSame(players[id], outcomes)
    PROVE  Harmless(Becomes(id, outcomes))
BY DEF Harmless, Becomes, AllSame, VideoInv, PlayersAccounted

LEMMA CallStep ==
    ASSUME VideoInv, NEW call \in Calls,
           OnCall(HandlersV1(call)) \/ OnCall(AdvancedControls(call)) \/ OnCall(HandlersV2(call))
    PROVE  VideoInv'
<1>1. Harmless(Refused)
    BY DEF Harmless, Refused
<1>2. ASSUME call.id \in listed
      PROVE  LET p == players[call.id]
                 Do(outcomes) == Harmless(Becomes(call.id, outcomes))
             IN  /\ Do(GstplayerPlay(p)) /\ Do(GstplayerPause(p)) /\ Do(SetLooping(p))
                 /\ Do(GstplayerSetVolume(p)) /\ Do(GstplayerSeekTo(p)) /\ Do(SetSpeed(p))
                 /\ Do(StepForward(p)) /\ Do(StepBackward(p)) /\ Do(GstplayerGetPosition(p))
                 /\ Do(GstplayerWeb(p))
    <2>1. PlayerOK(players[call.id])
        BY <1>2 DEF VideoInv, PlayersAccounted, Allocated
    <2> QED
        BY <1>2, <2>1, CallsSame, BecomesHarmless
<1>3. /\ Harmless(OnSetLooping(call)) /\ Harmless(OnSetVolume(call))
      /\ Harmless(OnSetPlaybackSpeed(call)) /\ Harmless(OnPlay(call))
      /\ Harmless(OnGetPosition(call)) /\ Harmless(OnSeekTo(call))
      /\ Harmless(OnPause(call)) /\ Harmless(OnSetMixWithOthers(call))
    BY <1>1, <1>2 DEF OnSetLooping, OnSetVolume, OnSetPlaybackSpeed, OnPlay, OnGetPosition,
       OnSeekTo, OnPause, OnSetMixWithOthers, MapArg
<1>4. /\ Harmless(OnStepForward(call)) /\ Harmless(OnStepBackward(call))
      /\ Harmless(OnFastSeek(call))
    BY <1>1, <1>2 DEF OnStepForward, OnStepBackward, OnFastSeek, MapArg
<1>5. /\ Harmless(OnSetLoopingV2(call)) /\ Harmless(OnSetVolumeV2(call))
      /\ Harmless(OnSetPlaybackSpeedV2(call)) /\ Harmless(OnPlayV2(call))
      /\ Harmless(OnGetPositionV2(call)) /\ Harmless(OnSeekToV2(call))
      /\ Harmless(OnPauseV2(call)) /\ Harmless(OnSetMixWithOthersV2(call))
      /\ Harmless(OnStepForwardV2(call)) /\ Harmless(OnStepBackwardV2(call))
      /\ Harmless(OnFastSeekV2(call))
    BY <1>1, <1>2 DEF OnSetLoopingV2, OnSetVolumeV2, OnSetPlaybackSpeedV2, OnPlayV2,
       OnGetPositionV2, OnSeekToV2, OnPauseV2, OnSetMixWithOthersV2, OnStepForwardV2,
       OnStepBackwardV2, OnFastSeekV2, MapArg, RootArg, ListArg
<1>6. /\ Harmless(OnWebPointerEventV2(call)) /\ Harmless(OnWebKeyEventV2(call))
      /\ Harmless(OnWebLoadUrlV2(call)) /\ Harmless(OnWebResizeV2(call))
      /\ Harmless(OnWebLoadBytesV2(call)) /\ Harmless(OnWebRunJavascriptV2(call))
      /\ Harmless(OnWebHandlerResponseV2(call)) /\ Harmless(OnWebSetDelegatesV2(call))
      /\ Harmless(OnWebNavigationResponseV2(call))
    BY <1>1, <1>2 DEF OnWebPointerEventV2, OnWebKeyEventV2, OnWebLoadUrlV2, OnWebResizeV2,
       OnWebLoadBytesV2, OnWebRunJavascriptV2, OnWebHandlerResponseV2, OnWebSetDelegatesV2,
       OnWebNavigationResponseV2, MapArg, ListArg
<1>7. Harmless(HandlersV1(call))
    BY <1>3 DEF HandlersV1, Harmless
<1>8. Harmless(AdvancedControls(call))
    BY <1>4 DEF AdvancedControls, Harmless
<1>9. Harmless(HandlersV2(call))
    BY <1>5, <1>6 DEF HandlersV2, Harmless
<1> QED
    BY <1>7, <1>8, <1>9, HarmlessStep

LEMMA BusStep ==
    ASSUME VideoInv, NEW id \in Moved, OnBusMessage(id)
    PROVE  VideoInv'
<1>1. PICK q : /\ id \in Allocated /\ players[id].kind = "media"
               /\ \/ \E s \in {"PAUSED", "PLAYING"} : q \in OnRequestState(players[id], s)
                  \/ q \in OnAppsinkEos(players[id])
               /\ players' = [players EXCEPT ![id] = q]
               /\ UNCHANGED <<plugin, channels, listed, receivers, views, next_id, environment>>
    BY DEF OnBusMessage, Pipeline
<1>2. PlayerOK(players[id]) /\ plugin.running
    BY <1>1 DEF VideoInv, PlayersAccounted, Allocated
<1>3. Same(players[id], q)
    BY <1>1, <1>2, MessagesSame
<1> QED
    BY <1>1, <1>2, <1>3, ChangeStep
-----------------------------------------------------------------------------
(* A creation leaves a player, its place in the list and its receiver, or  *)
(* nothing.                                                                *)
LEMMA CreateStep ==
    ASSUME VideoInv, NEW kind \in {"media", "web"},
           NEW failed \in {"meta", "receiver", "initialize", "answer"}, OnCreate(kind, failed)
    PROVE  VideoInv'
<1>1. PICK made \in GstplayerNew(kind) :
          LET left == IF made = NoPlayer THEN {} ELSE Done(failed) \ Undone(failed)
              Keep(what, set) == IF what \in left THEN set \cup {next_id} ELSE set
          IN  /\ players' = IF "player" \in left THEN [players EXCEPT ![next_id] = made] ELSE players
              /\ listed' = Keep("listed", listed)
              /\ receivers' = Keep("receiver", receivers)
              /\ views' = IF made # NoPlayer /\ made.plane THEN Keep("player", views) ELSE views
    BY DEF OnCreate
<1>2. Done(failed) \ Undone(failed) =
          IF failed = "answer" THEN {"player", "listed", "receiver"} ELSE {}
    BY DEF Done, Undone
<1>3. made = NoPlayer \/ (PlayerOK(made) /\ made # NoPlayer)
    BY NewPlayerOK DEF GstplayerNew
<1>4. /\ next_id \in PlayerIds /\ next_id' = next_id + 1 /\ plugin.running
      /\ plugin' = [plugin EXCEPT !.initialized = TRUE] /\ players[next_id] = NoPlayer
      /\ next_id \in Nat \ {0} /\ plugin \in [running : BOOLEAN, initialized : BOOLEAN]
    BY VideoBounds DEF VideoInv, OnCreate, PlayerIds
<1>5. plugin' \in [running : BOOLEAN, initialized : BOOLEAN] /\ plugin'.running
      /\ next_id' \in Nat \ {0}
    <2>1. next_id' \in Nat \ {0}
        BY <1>4
    <2>2. plugin' = [plugin EXCEPT !.initialized = TRUE] /\ plugin.running
          /\ plugin \in [running : BOOLEAN, initialized : BOOLEAN]
        BY <1>4
    <2>3. plugin'.running = plugin.running /\ plugin' \in [running : BOOLEAN, initialized : BOOLEAN]
        BY <2>2
    <2> QED
        BY <2>1, <2>2, <2>3
<1>6. CASE made = NoPlayer \/ failed # "answer"
    <2>1. UNCHANGED <<players, listed, receivers, views>>
        BY <1>1, <1>2, <1>6
    <2> QED
        BY <1>4, <1>5, <2>1 DEF VideoInv, PlayersAccounted, Allocated, PlayerIds
<1>7. CASE made # NoPlayer /\ failed = "answer"
    <2>1. /\ players' = [players EXCEPT ![next_id] = made]
          /\ listed' = listed \cup {next_id} /\ receivers' = receivers \cup {next_id}
          /\ views' = IF made.plane THEN views \cup {next_id} ELSE views
        BY <1>1, <1>2, <1>7
    <2>2. DOMAIN players' = PlayerIds /\ players'[next_id] = made
          /\ \A i \in PlayerIds : i # next_id => players'[i] = players[i]
        BY <1>4, <2>1 DEF VideoInv, PlayerIds
    <2>3. Allocated' = Allocated \cup {next_id} /\ next_id \notin Allocated
        BY <1>4, <1>7, <2>2 DEF Allocated, PlayerIds
    <2>4. views' = {i \in Allocated' : players'[i].plane}
        BY <2>1, <2>2, <2>3 DEF VideoInv, PlayersAccounted, Allocated
    <2>5. PlayersAccounted'
        BY <1>5, <2>1, <2>3, <2>4 DEF VideoInv, PlayersAccounted
    <2> QED
        BY <1>3, <1>4, <1>5, <1>7, <2>2, <2>5 DEF VideoInv, PlayerIds
<1> QED
    BY <1>6, <1>7

LEMMA DisposePlayersEffect ==
    ASSUME VideoInv, NEW ids \in SUBSET listed, DisposePlayers(ids)
    PROVE  /\ DOMAIN players' = PlayerIds
           /\ \A i \in PlayerIds : players'[i] = IF i \in ids THEN NoPlayer ELSE players[i]
           /\ Allocated' = Allocated \ ids
           /\ listed' = Allocated' /\ receivers' = Allocated'
           /\ views' = {i \in Allocated' : players'[i].plane}
<1>1. /\ DOMAIN players' = PlayerIds
      /\ \A i \in PlayerIds : players'[i] = IF i \in ids THEN NoPlayer ELSE players[i]
    BY DEF DisposePlayers, PlayerIds
<1>2. Allocated' = Allocated \ ids
    BY <1>1 DEF Allocated, PlayerIds
<1>3. \A i \in Allocated' : players'[i].plane = players[i].plane
    BY <1>1, <1>2 DEF Allocated
<1>4. views' = {i \in Allocated' : players'[i].plane}
    BY <1>2, <1>3 DEF DisposePlayers, VideoInv, PlayersAccounted
<1> QED
    BY <1>1, <1>2, <1>4 DEF DisposePlayers, VideoInv, PlayersAccounted

LEMMA DisposeStep == ASSUME VideoInv, NEW call \in Calls, OnDispose(call) PROVE VideoInv'
<1>1. {call.id} \in SUBSET listed /\ DisposePlayers({call.id}) /\ plugin.running
      /\ UNCHANGED <<plugin, channels, next_id>>
    BY DEF OnDispose
<1>2. PlayersAccounted'
    BY <1>1, DisposePlayersEffect DEF PlayersAccounted
<1> QED
    BY <1>1, <1>2, DisposePlayersEffect DEF VideoInv, PlayerIds

LEMMA PluginDeinitStep == VideoInv /\ GstplayerPluginDeinit => VideoInv'
<1> SUFFICES ASSUME VideoInv, GstplayerPluginDeinit PROVE VideoInv'
    OBVIOUS
<1>1. /\ DisposePlayers(listed) /\ channels' = {} /\ next_id' = MaxPlayers + 1
      /\ plugin' = [running |-> FALSE, initialized |-> FALSE]
    BY DEF GstplayerPluginDeinit
<1>2. Allocated' = {}
    BY <1>1, DisposePlayersEffect DEF VideoInv, PlayersAccounted
<1>3. PlayersAccounted'
    BY <1>1, <1>2, DisposePlayersEffect DEF PlayersAccounted
<1>4. next_id' \in Nat \ {0} /\ \A i \in PlayerIds : players'[i] = NoPlayer
    BY <1>1, <1>2, VideoBounds DEF Allocated, PlayerIds
<1>5. DOMAIN players' = PlayerIds
    BY <1>1, DisposePlayersEffect
<1> QED
    BY <1>1, <1>3, <1>4, <1>5 DEF VideoInv, PlayerIds

LEMMA VideoStep == VideoInv /\ [VideoNext]_videoVars => VideoInv'
<1> SUFFICES ASSUME VideoInv, [VideoNext]_videoVars PROVE VideoInv'
    OBVIOUS
<1>1. ASSUME NEW call \in {c \in Calls : c.id \in Moved},
             OnCall(HandlersV1(call)) \/ OnCall(AdvancedControls(call)) \/ OnCall(HandlersV2(call))
      PROVE  VideoInv'
    BY <1>1, CallStep
<1>2. ASSUME NEW call \in Calls, OnDispose(call) PROVE VideoInv'
    BY <1>2, DisposeStep
<1>3. ASSUME NEW kind \in {"media", "web"}, NEW i \in 1..Len(CreateSteps),
             OnCreate(kind, CreateSteps[i])
      PROVE  VideoInv'
    <2>1. CreateSteps[i] \in {"meta", "receiver", "initialize", "answer"}
        BY DEF CreateSteps
    <2> QED
        BY <1>3, <2>1, CreateStep
<1>4. ASSUME NEW id \in Moved, OnBusMessage(id) PROVE VideoInv'
    BY <1>4, BusStep
<1>5. CASE UNCHANGED videoVars
    BY <1>5 DEF videoVars, VideoInv, PlayersAccounted, Allocated, PlayerIds
<1> QED
    BY <1>1, <1>2, <1>3, <1>4, <1>5, PluginInitStep, PluginDeinitStep, InitializeStep
       DEF VideoNext

(* Every player has its type, its pipeline is where its wishes want it,    *)
(* and list, receivers and views name the players that exist.              *)
THEOREM VideoCorrect == VideoSpec => []VideoInv
BY VideoInitially, VideoStep, PTL DEF VideoSpec

(* However creations fail and calls, messages and the tear-down of the     *)
(* plugin come, no player is left without its place in the list, its       *)
(* receiver or its view, and none of them without its player (on_create,   *)
(* dispose_player, gstplayer_plugin_deinit).                               *)
THEOREM EveryPlayerAccounted == VideoSpec => []PlayersAccounted
<1>1. VideoInv => PlayersAccounted
    BY DEF VideoInv
<1> QED
    BY <1>1, VideoCorrect, PTL

(* After any sequence of calls and failures the latest call that succeeded *)
(* left the pipeline where all wishes put together want it                 *)
(* (apply_playback_state).                                                 *)
THEOREM PipelineFollows == VideoSpec => []PlaybackFollows
<1>1. VideoInv => PlaybackFollows
    BY DEF VideoInv, PlaybackFollows, PlayerOK, Allocated
<1> QED
    BY <1>1, VideoCorrect, PTL
-----------------------------------------------------------------------------
LEMMA MessageTypes ==
    /\ StreamMessages \subseteq BusMessages
    /\ \A old, new \in AudioStates :
          /\ StateChanged(old, new) \in BusMessages
          /\ StateChanged(old, new).type = "STATE_CHANGED"
          /\ StateChanged(old, new).old = old /\ StateChanged(old, new).new = new
    /\ \A type \in {"EOS", "ASYNC_DONE", "ERROR"} :
          Notice(type) \in BusMessages /\ Notice(type).type = type
    /\ \A m \in BusMessages :
          \/ m.type \in {"EOS", "ASYNC_DONE", "ERROR"} /\ m = Notice(m.type)
          \/ /\ m.type = "STATE_CHANGED" /\ m = StateChanged(m.old, m.new)
             /\ m.old \in AudioStates /\ m.new \in AudioStates
BY DEF StreamMessages, BusMessages, StateChanged, Notice, AudioStates

(* gst_element_set_state changes nothing but the pipeline, and repairs     *)
(* nothing.                                                                *)
LEMMA SetStateType ==
    ASSUME NEW p \in StructAudio, NEW state \in AudioStates, NEW ok \in BOOLEAN
    PROVE  LET q == SetState(p, state, ok)
           IN  /\ q \in StructAudio
               /\ q.heard = p.heard /\ q.event_subscribed = p.event_subscribed
               /\ q.is_initialized = p.is_initialized /\ q.is_playing = p.is_playing
               /\ q.is_seek_completed = p.is_seek_completed
               /\ p.failed => q.failed
<1> DEFINE q == SetState(p, state, ok)
<1>1. CASE state = "NULL"
    <2>1. q = [p EXCEPT !.playbin = "NULL", !.busy = "no", !.bus = <<>>]
        BY <1>1 DEF SetState
    <2>2. <<>> \in Seq(BusMessages)
        OBVIOUS
    <2> QED
        BY <2>1, <2>2 DEF StructAudio, AudioStates
<1>2. CASE state # "NULL" /\ ~ok
    <2>1. q = [p EXCEPT !.failed = TRUE]
        BY <1>2 DEF SetState
    <2> QED
        BY <2>1 DEF StructAudio
<1>3. CASE ok /\ state = "PAUSED" /\ p.playbin = "READY"
    <2>1. q = [p EXCEPT !.busy = "preroll"]
        BY <1>3 DEF SetState
    <2> QED
        BY <2>1 DEF StructAudio
<1>4. CASE ok /\ state # "NULL" /\ ~(state = "PAUSED" /\ p.playbin = "READY") /\ p.playbin = state
    <2>1. q = p
        BY <1>4 DEF SetState
    <2> QED
        BY <2>1 DEF StructAudio
<1>5. CASE ok /\ state # "NULL" /\ ~(state = "PAUSED" /\ p.playbin = "READY") /\ p.playbin # state
    <2> DEFINE m == StateChanged(p.playbin, state)
    <2>1. q = Post([p EXCEPT !.playbin = state], <<m>>)
        BY <1>5 DEF SetState
    <2>2. q = [p EXCEPT !.playbin = state, !.bus = p.bus \o <<m>>]
        BY <2>1 DEF Post, StructAudio
    <2>3. m \in BusMessages
        BY MessageTypes DEF StructAudio
    <2> HIDE DEF m
    <2>4. p.bus \o <<m>> \in Seq(BusMessages)
        BY <2>3 DEF StructAudio
    <2> QED
        BY <2>2, <2>4 DEF StructAudio
<1> QED
    BY <1>1, <1>2, <1>3, <1>4, <1>5

(* A ready source, whatever it was asked.                                  *)
Streaming(p) ==
    /\ p \in StructAudio
    /\ p.heard = "waiting" => p.event_subscribed
    /\ p.is_initialized
    /\ p.playbin \in {"PAUSED", "PLAYING"} /\ p.busy \in {"no", "seek"}
    /\ p.bus \in Seq(StreamMessages)
    /\ SeekAnswered(p)
    /\ p.heard # "waiting"

LEMMA SetStateStreaming ==
    ASSUME NEW p, Streaming(p), NEW state \in {"PAUSED", "PLAYING"}, NEW ok \in BOOLEAN,
           p.is_playing <=> state = "PLAYING"
    PROVE  AudioOK(SetState(p, state, ok))
<1> DEFINE q == SetState(p, state, ok)
<1>1. p \in StructAudio /\ state \in AudioStates
    BY DEF Streaming, AudioStates
<1>2. /\ q \in StructAudio /\ q.heard = p.heard /\ q.event_subscribed = p.event_subscribed
      /\ q.is_initialized = p.is_initialized /\ q.is_playing = p.is_playing
    BY <1>1, SetStateType
<1>3. CASE ~ok
    <2>1. q.failed
        BY <1>1, <1>3 DEF SetState, StructAudio
    <2> QED
        BY <1>2, <2>1 DEF AudioOK, Streaming
<1>4. CASE ok /\ p.playbin = state
    <2>1. q = p
        BY <1>4 DEF SetState, Streaming
    <2> QED
        BY <1>4, <2>1 DEF AudioOK, Streaming, ReadyOK
<1>5. CASE ok /\ p.playbin # state
    <2> DEFINE m == StateChanged(p.playbin, state)
    <2>1. q = Post([p EXCEPT !.playbin = state], <<m>>)
        BY <1>5 DEF SetState, Streaming
    <2>2. m \in StreamMessages
        BY <1>5 DEF Streaming, StreamMessages
    <2>3. q.playbin = state /\ q.bus = p.bus \o <<m>> /\ q.busy = p.busy
          /\ q.is_seek_completed = p.is_seek_completed
        BY <1>1, <2>1 DEF Post, StructAudio
    <2> HIDE DEF q, m
    <2>4. p.bus \in Seq(StreamMessages)
        BY DEF Streaming
    <2>5. q.bus \in Seq(StreamMessages) /\ Len(q.bus) = Len(p.bus) + 1
          /\ \A i \in 1..Len(p.bus) : q.bus[i] = p.bus[i]
        BY <2>2, <2>3, <2>4
    <2>6. SeekAnswered(q)
        BY <2>3, <2>4, <2>5 DEF Streaming, SeekAnswered
    <2>7. ReadyOK(q)
        BY <1>2, <2>3, <2>5, <2>6 DEF ReadyOK, Streaming
    <2> QED
        BY <1>2, <2>7 DEF AudioOK, Streaming, q
<1> QED
    BY <1>3, <1>4, <1>5

(* What was refused once stays so until another source.                    *)
LEMMA SetStateFailed ==
    ASSUME NEW p, AudioOK(p), p.failed, NEW state \in AudioStates, NEW ok \in BOOLEAN
    PROVE  AudioOK(SetState(p, state, ok)) /\ SetState(p, state, ok).failed
BY SetStateType DEF AudioOK

(* audio_player_pause and audio_player_resume.                             *)
LEMMA WishOK ==
    ASSUME NEW p, AudioOK(p) \/ Streaming(p), NEW playing \in BOOLEAN, NEW ok \in BOOLEAN
    PROVE  LET wish == [p EXCEPT !.is_playing = playing]
               state == IF playing THEN "PLAYING" ELSE "PAUSED"
           IN  AudioOK(IF p.is_initialized THEN SetState(wish, state, ok) ELSE wish)
<1> DEFINE wish == [p EXCEPT !.is_playing = playing]
           state == IF playing THEN "PLAYING" ELSE "PAUSED"
<1>1. p \in StructAudio /\ (p.heard = "waiting" => p.event_subscribed)
    BY DEF AudioOK, Streaming
<1>2. /\ wish \in StructAudio /\ wish.is_playing = playing /\ wish.failed = p.failed
      /\ wish.heard = p.heard /\ wish.event_subscribed = p.event_subscribed
      /\ wish.is_initialized = p.is_initialized /\ wish.playbin = p.playbin /\ wish.busy = p.busy
      /\ wish.bus = p.bus /\ wish.is_seek_completed = p.is_seek_completed
    BY <1>1 DEF StructAudio
<1>3. state \in {"PAUSED", "PLAYING"} /\ state \in AudioStates /\ (playing <=> state = "PLAYING")
    BY DEF AudioStates
<1> HIDE DEF wish, state
<1>4. CASE p.failed
    <2>1. AudioOK(wish) /\ wish.failed
        BY <1>1, <1>2, <1>4 DEF AudioOK
    <2>2. AudioOK(IF p.is_initialized THEN SetState(wish, state, ok) ELSE wish)
        BY <1>3, <2>1, SetStateFailed
    <2> QED
        BY <2>2 DEF wish, state
<1>5. CASE ~p.failed /\ p.is_initialized
    <2>1. Streaming(wish)
        BY <1>1, <1>2, <1>5 DEF Streaming, AudioOK, ReadyOK, SeekAnswered
    <2>2. AudioOK(SetState(wish, state, ok))
        BY <1>2, <1>3, <2>1, SetStateStreaming
    <2> QED
        BY <1>5, <2>2 DEF wish, state
<1>6. CASE ~p.failed /\ ~p.is_initialized
    <2>1. AudioOK(p)
        BY <1>6 DEF Streaming
    <2>2. AudioOK(wish)
        BY <1>1, <1>2, <1>6, <2>1 DEF AudioOK, Stopped, Opened, Prerolling, Prerolled
    <2> QED
        BY <1>6, <2>2 DEF wish
<1> QED
    BY <1>4, <1>5, <1>6

LEMMA PauseOK == ASSUME NEW p, AudioOK(p), NEW g \in Grants PROVE AudioOK(AudioPlayerPause(p, g))
<1>1. g.state \in BOOLEAN
    BY DEF Grants
<1> QED
    BY <1>1, WishOK DEF AudioPlayerPause

LEMMA ResumeOK ==
    ASSUME NEW p, AudioOK(p) \/ Streaming(p), NEW g \in Grants PROVE AudioOK(AudioPlayerResume(p, g))
<1>1. g.state \in BOOLEAN
    BY DEF Grants
<1> QED
    BY <1>1, WishOK DEF AudioPlayerResume

(* audio_player_set_playback: a seek that is dropped is one that another   *)
(* one will complete.                                                      *)
LEMMA SetPlaybackOK ==
    ASSUME NEW p, AudioOK(p), NEW rate \in Nat, NEW g \in Grants
    PROVE  AudioOK(AudioPlayerSetPlayback(p, rate, g))
<1> DEFINE q == AudioPlayerSetPlayback(p, rate, g)
<1>1. CASE ~p.is_initialized \/ ~p.is_seek_completed
    BY <1>1 DEF AudioPlayerSetPlayback
<1>2. CASE p.is_initialized /\ p.is_seek_completed /\ rate = 0
    BY <1>2, PauseOK DEF AudioPlayerSetPlayback
<1>3. CASE p.is_initialized /\ p.is_seek_completed /\ rate # 0
    <2>1. p \in StructAudio /\ rate \in Nat \ {0}
        BY <1>3 DEF AudioOK
    <2>2. q = IF g.seek THEN [p EXCEPT !.playback_rate = rate, !.is_seek_completed = FALSE, !.busy = "seek"]
              ELSE [p EXCEPT !.playback_rate = rate]
        BY <1>3 DEF AudioPlayerSetPlayback
    <2>3. /\ q \in StructAudio /\ q.failed = p.failed /\ q.heard = p.heard
          /\ q.event_subscribed = p.event_subscribed /\ q.is_initialized = p.is_initialized
          /\ q.is_playing = p.is_playing /\ q.playbin = p.playbin /\ q.bus = p.bus
          /\ q.busy \in {p.busy, "seek"} /\ (q.busy = "seek" \/ q.is_seek_completed)
        <3>1. CASE g.seek
            BY <1>3, <2>1, <2>2, <3>1, ZenonT(60) DEF StructAudio
        <3>2. CASE ~g.seek
            BY <1>3, <2>1, <2>2, <3>2 DEF StructAudio
        <3> QED
            BY <3>1, <3>2
    <2> HIDE DEF q
    <2>4. AudioOK(q)
        BY <1>3, <2>3 DEF AudioOK, ReadyOK, SeekAnswered
    <2> QED
        BY <2>4 DEF q
<1> QED
    BY <1>1, <1>2, <1>3

LEMMA SetPositionOK ==
    ASSUME NEW p, AudioOK(p), NEW g \in Grants PROVE AudioOK(AudioPlayerSetPosition(p, g))
<1>1. p.playback_rate \in Nat
    BY DEF AudioOK, StructAudio
<1> QED
    BY <1>1, SetPlaybackOK DEF AudioPlayerSetPosition

LEMMA PlayOK == ASSUME NEW p, AudioOK(p), NEW g \in Grants PROVE AudioOK(AudioPlayerPlay(p, g))
BY SetPositionOK, ResumeOK DEF AudioPlayerPlay

LEMMA OnPreparedOK == ASSUME NEW p, AudioOK(p) PROVE AudioOK(AudioPlayerOnPrepared(p))
<1> DEFINE q == AudioPlayerOnPrepared(p)
<1>1. p \in StructAudio
    BY DEF AudioOK
<1>2. /\ q \in StructAudio /\ q.failed = p.failed /\ q.heard \in {p.heard, "prepared"}
      /\ q.event_subscribed = p.event_subscribed /\ q.is_initialized = p.is_initialized
      /\ q.is_playing = p.is_playing /\ q.playbin = p.playbin /\ q.bus = p.bus
      /\ q.busy = p.busy /\ q.is_seek_completed = p.is_seek_completed
    BY <1>1 DEF AudioPlayerOnPrepared, StructAudio
<1> HIDE DEF q
<1>3. AudioOK(q)
    BY <1>2 DEF AudioOK, ReadyOK, SeekAnswered, Stopped, Opened, Prerolling, Prerolled
<1> QED
    BY <1>3 DEF q
-----------------------------------------------------------------------------
(* The pipeline at rest, with everything on the bus thrown away.           *)
AtRest(p) ==
    /\ p \in StructAudio
    /\ p.heard = "waiting" => p.event_subscribed
    /\ ~p.failed /\ ~p.is_initialized /\ Stopped(p)

LEMMA ReleaseOK == ASSUME NEW p, AudioOK(p) PROVE AudioOK(AudioPlayerRelease(p))
<1> DEFINE q == AudioPlayerRelease(p)
<1>1. p \in StructAudio /\ <<>> \in Seq(BusMessages)
    BY DEF AudioOK
<1>2. SetState(p, "NULL", TRUE) = [p EXCEPT !.playbin = "NULL", !.busy = "no", !.bus = <<>>]
    BY DEF SetState
<1>3. AtRest(q)
    BY <1>1, <1>2 DEF AudioPlayerRelease, StructAudio, AtRest, Stopped, AudioStates
<1> QED
    BY <1>3 DEF AtRest, AudioOK

LEMMA SetSourceUrlOK ==
    ASSUME NEW p, AudioOK(p), NEW url \in Urls, NEW g \in Grants
    PROVE  AudioOK(AudioPlayerSetSourceUrl(p, url, g))
<1> DEFINE heard == IF p.event_subscribed THEN "waiting" ELSE "deaf"
           stopped == [SetState(p, "NULL", TRUE) EXCEPT
                          !.url = url, !.is_initialized = FALSE, !.is_playing = FALSE, !.failed = FALSE,
                          !.heard = heard]
<1>1. p \in StructAudio /\ <<>> \in Seq(BusMessages) /\ g.state \in BOOLEAN
    BY DEF AudioOK, Grants
<1>2. SetState(p, "NULL", TRUE) = [p EXCEPT !.playbin = "NULL", !.busy = "no", !.bus = <<>>]
    BY DEF SetState
<1>3. heard \in {"deaf", "waiting", "prepared"} /\ (heard = "waiting" => p.event_subscribed)
    OBVIOUS
<1>4. AudioPlayerSetSourceUrl(p, url, g) =
          CASE p.url = url -> AudioPlayerOnPrepared(p)
            [] p.url # url /\ url = "" -> stopped
            [] OTHER -> SetState(stopped, "READY", g.state)
    BY DEF AudioPlayerSetSourceUrl
<1> HIDE DEF heard
<1>5. AtRest(stopped)
    BY <1>1, <1>2, <1>3 DEF StructAudio, AtRest, Stopped, AudioStates
<1> HIDE DEF stopped
<1>6. AudioOK(stopped)
    BY <1>5 DEF AtRest, AudioOK
<1> DEFINE q == SetState(stopped, "READY", g.state)
<1>7. AudioOK(q)
    <2>1. stopped \in StructAudio /\ stopped.playbin = "NULL" /\ stopped.bus = <<>>
          /\ stopped.busy = "no" /\ ~stopped.is_initialized
        BY <1>5 DEF AtRest, Stopped
    <2>2. /\ q \in StructAudio /\ q.heard = stopped.heard
          /\ q.event_subscribed = stopped.event_subscribed /\ ~q.is_initialized
        <3>1. "READY" \in AudioStates
            BY DEF AudioStates
        <3> QED
            BY <1>1, <2>1, <3>1, SetStateType
    <2>3. CASE ~g.state
        <3>1. q.failed
            BY <2>1, <2>3 DEF SetState, StructAudio
        <3> QED
            BY <1>5, <2>2, <3>1 DEF AudioOK, AtRest
    <2>4. CASE g.state
        <3> DEFINE m == StateChanged("NULL", "READY")
        <3>1. q = Post([stopped EXCEPT !.playbin = "READY"], <<m>>)
            BY <2>1, <2>4 DEF SetState
        <3>2. q.playbin = "READY" /\ q.busy = "no" /\ q.bus = <<>> \o <<m>>
            BY <2>1, <3>1 DEF Post, StructAudio
        <3>3. <<>> \o <<m>> = <<m>>
            OBVIOUS
        <3>4. Opened(q)
            BY <3>2, <3>3 DEF Opened
        <3> HIDE DEF q
        <3> QED
            BY <1>5, <2>2, <3>4 DEF AudioOK, AtRest
    <2> QED
        BY <1>1, <2>3, <2>4
<1> QED
    BY <1>4, <1>6, <1>7, OnPreparedOK
-----------------------------------------------------------------------------
(* audio_player_on_bus_message, message by message.                        *)
Taken(p) == [p EXCEPT !.bus = Tail(@)]

LEMMA TakenEffect ==
    ASSUME NEW p, p \in StructAudio, p.bus # <<>>
    PROVE  LET q == Taken(p)
           IN  /\ q \in StructAudio /\ q.failed = p.failed /\ q.heard = p.heard
               /\ q.event_subscribed = p.event_subscribed /\ q.is_initialized = p.is_initialized
               /\ q.is_playing = p.is_playing /\ q.playbin = p.playbin /\ q.busy = p.busy
               /\ q.bus = Tail(p.bus) /\ q.is_seek_completed = p.is_seek_completed
<1>1. p.bus \in Seq(BusMessages)
    BY DEF StructAudio
<1>2. Tail(p.bus) \in Seq(BusMessages)
    BY <1>1
<1>3. Taken(p) = [p EXCEPT !.bus = Tail(p.bus)]
    BY DEF Taken, StructAudio
<1> QED
    BY <1>2, <1>3 DEF StructAudio

(* A seek is answered by any message but the one that completes it.        *)
LEMMA TakenReady ==
    ASSUME NEW p, p \in StructAudio, p.bus # <<>>, ReadyOK(p), Head(p.bus) # Notice("ASYNC_DONE")
    PROVE  ReadyOK(Taken(p))
<1> DEFINE q == Taken(p)
<1>1. /\ q.heard = p.heard /\ q.is_playing = p.is_playing /\ q.playbin = p.playbin
      /\ q.busy = p.busy /\ q.bus = Tail(p.bus) /\ q.is_seek_completed = p.is_seek_completed
    BY TakenEffect
<1> HIDE DEF q
<1>2. p.bus \in Seq(StreamMessages)
    BY DEF ReadyOK
<1>3. q.bus \in Seq(StreamMessages) /\ Len(q.bus) = Len(p.bus) - 1
      /\ \A i \in 1..Len(q.bus) : q.bus[i] = p.bus[i + 1]
    BY <1>1, <1>2
<1>4. SeekAnswered(q)
    <2>1. SeekAnswered(p)
        BY DEF ReadyOK
    <2>2. ASSUME NEW i \in 1..Len(p.bus), p.bus[i] = Notice("ASYNC_DONE")
          PROVE  \E j \in 1..Len(q.bus) : q.bus[j] = Notice("ASYNC_DONE")
        <3>1. i # 1
            BY <1>2, <2>2
        <3>2. Len(p.bus) \in Nat /\ i - 1 \in 1..Len(q.bus) /\ (i - 1) + 1 = i
            BY <1>2, <1>3, <3>1
        <3> QED
            BY <1>3, <2>2, <3>2
    <2> QED
        BY <1>1, <2>1, <2>2 DEF SeekAnswered
<1>5. ReadyOK(q)
    BY <1>1, <1>3, <1>4 DEF ReadyOK
<1> QED
    BY <1>5 DEF q

LEMMA OnMediaStateChangeOK ==
    ASSUME NEW p, AudioOK(p), p.bus # <<>>, NEW g \in Grants, NEW old \in AudioStates,
           NEW new \in AudioStates, Head(p.bus) = StateChanged(old, new)
    PROVE  AudioOK(AudioPlayerOnMediaStateChange(Taken(p), old, new, g))
<1> DEFINE q == Taken(p)
           set == SetState(q, "PAUSED", g.state)
           prepared == AudioPlayerOnPrepared([q EXCEPT !.is_initialized = TRUE])
           r == AudioPlayerOnMediaStateChange(q, old, new, g)
<1>1. p \in StructAudio /\ g.state \in BOOLEAN /\ "PAUSED" \in AudioStates
    BY DEF AudioOK, Grants, AudioStates
<1>2. /\ q \in StructAudio /\ q.failed = p.failed /\ q.heard = p.heard
      /\ q.event_subscribed = p.event_subscribed /\ q.is_initialized = p.is_initialized
      /\ q.is_playing = p.is_playing /\ q.playbin = p.playbin /\ q.busy = p.busy
      /\ q.bus = Tail(p.bus) /\ q.is_seek_completed = p.is_seek_completed
    BY <1>1, TakenEffect
<1>3. r = CASE new = "READY" -> [set EXCEPT !.is_initialized = FALSE]
            [] new # "READY" /\ (q.is_initialized \/ <<old, new>> = <<"PAUSED", "PLAYING">>) -> q
            [] OTHER -> IF q.is_playing THEN AudioPlayerResume(prepared, g) ELSE prepared
    BY DEF AudioPlayerOnMediaStateChange
<1> HIDE DEF q, r
<1>4. /\ set \in StructAudio /\ set.heard = q.heard /\ set.event_subscribed = q.event_subscribed
      /\ q.failed => set.failed
    BY <1>1, <1>2, SetStateType
<1>5. /\ prepared \in StructAudio /\ prepared.failed = q.failed /\ prepared.is_initialized
      /\ prepared.heard = (IF q.event_subscribed THEN "prepared" ELSE q.heard)
      /\ prepared.event_subscribed = q.event_subscribed
      /\ prepared.is_playing = q.is_playing /\ prepared.playbin = q.playbin
      /\ prepared.busy = q.busy /\ prepared.bus = q.bus
      /\ prepared.is_seek_completed = q.is_seek_completed
    BY <1>2 DEF AudioPlayerOnPrepared, StructAudio
<1>6. CASE p.failed
    <2>1. AudioOK(q)
        BY <1>2, <1>6 DEF AudioOK
    <2>2. AudioOK(prepared)
        BY <1>2, <1>5, <1>6 DEF AudioOK
    <2>3. AudioOK([set EXCEPT !.is_initialized = FALSE])
        <3> HIDE DEF set
        <3> DEFINE u == [set EXCEPT !.is_initialized = FALSE]
        <3>1. u \in StructAudio /\ u.failed = set.failed /\ u.heard = set.heard
              /\ u.event_subscribed = set.event_subscribed
            BY <1>4 DEF StructAudio
        <3> HIDE DEF u
        <3>2. AudioOK(u)
            BY <1>2, <1>4, <1>6, <2>1, <3>1 DEF AudioOK
        <3> QED
            BY <3>2 DEF u
    <2>4. AudioOK(AudioPlayerResume(prepared, g))
        BY <2>2, ResumeOK
    <2> QED
        BY <1>3, <2>1, <2>2, <2>3, <2>4 DEF q, r
<1>7. CASE ~p.failed /\ p.is_initialized
    <2>1. ReadyOK(p)
        BY <1>7 DEF AudioOK
    <2>2. Head(p.bus) \in StreamMessages
        BY <2>1 DEF ReadyOK
    <2>3. Head(p.bus) # Notice("ASYNC_DONE") /\ new # "READY"
        BY <2>2, MessageTypes DEF StreamMessages, AudioStates
    <2>4. ReadyOK(q)
        BY <1>1, <2>1, <2>3, TakenReady DEF q
    <2>5. r = q
        BY <1>2, <1>3, <1>7, <2>3
    <2>6. AudioOK(q)
        BY <1>2, <1>7, <2>4 DEF AudioOK
    <2> QED
        BY <2>5, <2>6 DEF q, r
<1>8. CASE ~p.failed /\ ~p.is_initialized /\ Opened(p)
    <2>1. new = "READY" /\ q.bus = <<>>
        <3>1. Head(p.bus) = StateChanged("NULL", "READY")
            BY <1>8 DEF Opened
        <3>2. q.bus = <<>>
            BY <1>2, <1>8 DEF Opened
        <3> QED
            BY <3>1, <3>2 DEF StateChanged
    <2>2. r = [set EXCEPT !.is_initialized = FALSE]
        BY <1>3, <2>1
    <2>3. set = IF g.state THEN [q EXCEPT !.busy = "preroll"] ELSE [q EXCEPT !.failed = TRUE]
        BY <1>1, <1>2, <1>8 DEF SetState, Opened
    <2> HIDE DEF set
    <2>4. /\ r \in StructAudio /\ r.heard = set.heard /\ r.event_subscribed = set.event_subscribed
          /\ ~r.is_initialized /\ r.busy = set.busy /\ r.bus = set.bus /\ r.playbin = set.playbin
          /\ r.failed = set.failed
        BY <1>4, <2>2 DEF StructAudio
    <2>5. CASE g.state
        <3>1. set.busy = "preroll" /\ set.bus = <<>> /\ set.playbin = "READY"
            BY <1>2, <1>8, <2>1, <2>3, <2>5 DEF StructAudio, Opened
        <3>2. AudioOK(r)
            BY <1>2, <1>4, <2>4, <3>1 DEF AudioOK, Prerolling
        <3> QED
            BY <3>2 DEF q, r
    <2>6. CASE ~g.state
        <3>1. set.failed
            BY <1>2, <2>3, <2>6 DEF StructAudio
        <3>2. AudioOK(r)
            BY <1>2, <1>4, <2>4, <3>1 DEF AudioOK
        <3> QED
            BY <3>2 DEF q, r
    <2> QED
        BY <1>1, <2>5, <2>6
<1>9. CASE ~p.failed /\ ~p.is_initialized /\ Prerolled(p)
    <2>1. /\ old = "READY" /\ new = "PAUSED" /\ q.bus = <<Notice("ASYNC_DONE")>>
        <3>1. Head(p.bus) = StateChanged("READY", "PAUSED")
            BY <1>9 DEF Prerolled
        <3>2. Tail(<<StateChanged("READY", "PAUSED"), Notice("ASYNC_DONE")>>) = <<Notice("ASYNC_DONE")>>
            OBVIOUS
        <3>3. q.bus = <<Notice("ASYNC_DONE")>>
            BY <1>2, <1>9, <3>2 DEF Prerolled
        <3> QED
            BY <3>1, <3>3 DEF StateChanged
    <2>2. r = IF q.is_playing THEN AudioPlayerResume(prepared, g) ELSE prepared
        BY <1>2, <1>3, <1>9, <2>1
    <2> HIDE DEF prepared
    <2>3. SeekAnswered(prepared) /\ prepared.bus \in Seq(StreamMessages)
        <3>1. Notice("ASYNC_DONE") \in StreamMessages
            BY DEF StreamMessages
        <3>2. prepared.bus = <<Notice("ASYNC_DONE")>>
            BY <1>5, <2>1
        <3>3. Len(prepared.bus) = 1 /\ prepared.bus[1] = Notice("ASYNC_DONE")
            BY <3>2
        <3> QED
            BY <3>1, <3>2, <3>3 DEF SeekAnswered
    <2>4. Streaming(prepared)
        BY <1>2, <1>5, <1>9, <2>3 DEF Streaming, AudioOK, Prerolled
    <2>5. CASE q.is_playing
        <3>1. AudioOK(AudioPlayerResume(prepared, g))
            BY <2>4, ResumeOK
        <3> QED
            BY <2>2, <2>5, <3>1 DEF q, r
    <2>6. CASE ~q.is_playing
        <3>1. AudioOK(prepared)
            BY <1>2, <1>5, <1>9, <2>4, <2>6 DEF Streaming, AudioOK, ReadyOK, Prerolled
        <3> QED
            BY <2>2, <2>6, <3>1 DEF q, r
    <2> QED
        BY <2>5, <2>6
<1> QED
    BY <1>6, <1>7, <1>8, <1>9 DEF AudioOK, Stopped, Prerolling

LEMMA OnNoticeOK ==
    ASSUME NEW p, AudioOK(p), p.bus # <<>>, NEW g \in Grants,
           NEW type \in {"EOS", "ASYNC_DONE", "ERROR"}, Head(p.bus) = Notice(type)
    PROVE  /\ type = "EOS" => AudioOK(AudioPlayerOnPlaybackEnded(Taken(p), g))
           /\ type = "ASYNC_DONE" => AudioOK([Taken(p) EXCEPT !.is_seek_completed = TRUE])
           /\ type = "ERROR" => AudioOK(Taken(p))
<1> DEFINE q == Taken(p)
<1>1. p \in StructAudio
    BY DEF AudioOK
<1>2. /\ q \in StructAudio /\ q.failed = p.failed /\ q.heard = p.heard
      /\ q.event_subscribed = p.event_subscribed /\ q.is_initialized = p.is_initialized
      /\ q.is_playing = p.is_playing /\ q.playbin = p.playbin /\ q.busy = p.busy
      /\ q.bus = Tail(p.bus) /\ q.is_seek_completed = p.is_seek_completed
    BY <1>1, TakenEffect
<1>3. p.failed \/ (p.is_initialized /\ ReadyOK(p))
    <2>1. Notice(type).type \in {"EOS", "ASYNC_DONE", "ERROR"}
        BY DEF Notice
    <2>2. StateChanged("NULL", "READY").type = "STATE_CHANGED"
          /\ StateChanged("READY", "PAUSED").type = "STATE_CHANGED"
        BY DEF StateChanged
    <2>3. ~Opened(p) /\ ~Prerolled(p)
        BY <2>1, <2>2 DEF Opened, Prerolled
    <2> QED
        BY <2>3 DEF AudioOK, Stopped, Prerolling
<1>4. ASSUME type # "ASYNC_DONE" PROVE AudioOK(q)
    <2>1. Notice(type) # Notice("ASYNC_DONE")
        BY <1>4 DEF Notice
    <2>2. CASE p.failed
        BY <1>2, <2>2 DEF AudioOK
    <2>3. CASE ~p.failed
        BY <1>1, <1>2, <1>3, <2>1, <2>3, TakenReady DEF AudioOK
    <2> QED
        BY <2>2, <2>3
<1> HIDE DEF q
<1>5. ASSUME AudioOK(q) PROVE AudioOK(AudioPlayerOnPlaybackEnded(q, g))
    BY <1>5, PlayOK, PauseOK, SetPositionOK DEF AudioPlayerOnPlaybackEnded
<1>6. AudioOK([q EXCEPT !.is_seek_completed = TRUE])
    <2> DEFINE u == [q EXCEPT !.is_seek_completed = TRUE]
    <2>1. /\ u \in StructAudio /\ u.failed = p.failed /\ u.heard = p.heard
          /\ u.event_subscribed = p.event_subscribed /\ u.is_initialized = p.is_initialized
          /\ u.is_playing = p.is_playing /\ u.playbin = p.playbin /\ u.busy = p.busy
          /\ u.bus = Tail(p.bus) /\ u.is_seek_completed
        BY <1>2 DEF StructAudio
    <2> HIDE DEF u
    <2>2. CASE p.failed
        BY <2>1, <2>2 DEF AudioOK, u
    <2>3. CASE ~p.failed
        <3>1. u.bus \in Seq(StreamMessages)
            BY <1>3, <2>1, <2>3 DEF ReadyOK
        <3>2. ReadyOK(u)
            BY <1>3, <2>1, <2>3, <3>1 DEF ReadyOK, SeekAnswered
        <3>3. AudioOK(u)
            BY <1>3, <2>1, <2>3, <3>2 DEF AudioOK
        <3> QED
            BY <3>3 DEF u
    <2> QED
        BY <2>2, <2>3
<1> QED
    BY <1>4, <1>5, <1>6 DEF q

LEMMA AudioBusStep == AudioInv /\ AudioPlayerOnBusMessage => AudioInv'
<1> SUFFICES ASSUME AudioInv, AudioPlayerOnBusMessage PROVE AudioInv'
    OBVIOUS
<1> DEFINE p == audioPlayer
           message == Head(p.bus)
<1>1. AudioOK(p) /\ p.bus # <<>> /\ p \in StructAudio
    BY DEF AudioInv, AudioPlayerOnBusMessage, AudioOK
<1>2. message \in BusMessages
    BY <1>1 DEF StructAudio
<1>3. PICK g \in Grants :
          audioPlayer' =
             CASE message.type = "STATE_CHANGED" ->
                     AudioPlayerOnMediaStateChange(Taken(p), message.old, message.new, g)
               [] message.type = "EOS" -> AudioPlayerOnPlaybackEnded(Taken(p), g)
               [] message.type = "ASYNC_DONE" -> [Taken(p) EXCEPT !.is_seek_completed = TRUE]
               [] message.type = "ERROR" -> Taken(p)
    BY DEF AudioPlayerOnBusMessage, Taken
<1> HIDE DEF p
<1>4. CASE message.type = "STATE_CHANGED"
    <2>1. message = StateChanged(message.old, message.new)
          /\ message.old \in AudioStates /\ message.new \in AudioStates
        BY <1>2, <1>4, MessageTypes
    <2>2. audioPlayer' = AudioPlayerOnMediaStateChange(Taken(p), message.old, message.new, g)
        BY <1>3, <1>4
    <2>3. AudioOK(audioPlayer')
        BY <1>1, <2>1, <2>2, OnMediaStateChangeOK
    <2> QED
        BY <2>3 DEF AudioInv
<1>5. CASE message.type # "STATE_CHANGED"
    <2>1. message.type \in {"EOS", "ASYNC_DONE", "ERROR"} /\ message = Notice(message.type)
        BY <1>2, <1>5, MessageTypes
    <2>2. AudioOK(audioPlayer')
        BY <1>1, <1>3, <2>1, OnNoticeOK
    <2> QED
        BY <2>2 DEF AudioInv
<1> QED
    BY <1>4, <1>5

(* Messages that GStreamer adds to the bus.                                *)
LEMMA PrerollStep == AudioInv /\ PrerollDone => AudioInv'
<1> SUFFICES ASSUME AudioInv, PrerollDone PROVE AudioInv'
    OBVIOUS
<1> DEFINE p == audioPlayer
           q == audioPlayer'
           moved == <<StateChanged("READY", "PAUSED"), Notice("ASYNC_DONE")>>
<1>1. AudioOK(p) /\ p \in StructAudio /\ p.bus \in Seq(BusMessages) /\ p.busy = "preroll"
    BY DEF AudioInv, PrerollDone, AudioOK, StructAudio
<1>2. moved \in Seq(BusMessages) /\ <<Notice("ERROR")>> \in Seq(BusMessages)
    BY MessageTypes DEF AudioStates
<1>3. CASE q = Post([p EXCEPT !.busy = "no", !.playbin = "PAUSED"], moved)
    <2> HIDE DEF moved
    <2>1. q = [p EXCEPT !.busy = "no", !.playbin = "PAUSED", !.bus = p.bus \o moved]
        BY <1>1, <1>3 DEF Post, StructAudio
    <2>2. p.bus \o moved \in Seq(BusMessages)
        BY <1>1, <1>2
    <2>3. /\ q \in StructAudio /\ q.failed = p.failed /\ q.heard = p.heard
          /\ q.event_subscribed = p.event_subscribed /\ q.is_initialized = p.is_initialized
          /\ q.playbin = "PAUSED" /\ q.busy = "no" /\ q.bus = p.bus \o moved
        BY <1>1, <2>1, <2>2 DEF StructAudio, AudioStates
    <2>4. p.failed \/ (~p.is_initialized /\ p.bus = <<>>)
        BY <1>1 DEF AudioOK, ReadyOK, Stopped, Opened, Prerolling, Prerolled
    <2>5. p.bus = <<>> => q.bus = moved
        BY <1>2, <2>3
    <2>6. AudioOK(q)
        BY <1>1, <2>3, <2>4, <2>5 DEF AudioOK, Prerolled, moved
    <2> QED
        BY <2>6 DEF AudioInv
<1>4. CASE q = Post([p EXCEPT !.busy = "no", !.failed = TRUE], <<Notice("ERROR")>>)
    <2>1. q = [p EXCEPT !.busy = "no", !.failed = TRUE, !.bus = p.bus \o <<Notice("ERROR")>>]
        BY <1>1, <1>4 DEF Post, StructAudio
    <2>2. p.bus \o <<Notice("ERROR")>> \in Seq(BusMessages)
        BY <1>1, <1>2
    <2>3. q \in StructAudio /\ q.failed /\ q.heard = p.heard
          /\ q.event_subscribed = p.event_subscribed
        BY <1>1, <2>1, <2>2 DEF StructAudio
    <2>4. AudioOK(q)
        BY <1>1, <2>3 DEF AudioOK
    <2> QED
        BY <2>4 DEF AudioInv
<1> QED
    BY <1>3, <1>4 DEF PrerollDone

LEMMA SeekDoneStep == AudioInv /\ SeekDone => AudioInv'
<1> SUFFICES ASSUME AudioInv, SeekDone PROVE AudioInv'
    OBVIOUS
<1> DEFINE p == audioPlayer
           q == audioPlayer'
           m == Notice("ASYNC_DONE")
<1>1. AudioOK(p) /\ p \in StructAudio /\ p.bus \in Seq(BusMessages) /\ p.busy = "seek"
    BY DEF AudioInv, SeekDone, AudioOK, StructAudio
<1>2. m \in BusMessages /\ m \in StreamMessages
    BY MessageTypes DEF StreamMessages
<1>3. q = Post([p EXCEPT !.busy = "no"], <<m>>)
    BY DEF SeekDone
<1>4. q = [p EXCEPT !.busy = "no", !.bus = p.bus \o <<m>>]
    BY <1>1, <1>3 DEF Post, StructAudio
<1> HIDE DEF m
<1>5. p.bus \o <<m>> \in Seq(BusMessages)
    BY <1>1, <1>2
<1>6. /\ q \in StructAudio /\ q.failed = p.failed /\ q.heard = p.heard
      /\ q.event_subscribed = p.event_subscribed /\ q.is_initialized = p.is_initialized
      /\ q.is_playing = p.is_playing /\ q.playbin = p.playbin /\ q.busy = "no"
      /\ q.bus = p.bus \o <<m>>
    BY <1>1, <1>4, <1>5 DEF StructAudio
<1>7. p.failed \/ (p.is_initialized /\ ReadyOK(p))
    BY <1>1 DEF AudioOK, Stopped, Opened, Prerolling, Prerolled
<1>8. CASE p.failed
    BY <1>1, <1>6, <1>8 DEF AudioOK, AudioInv
<1>9. CASE ~p.failed
    <2>1. p.bus \in Seq(StreamMessages)
        BY <1>7, <1>9 DEF ReadyOK
    <2>2. q.bus \in Seq(StreamMessages)
        BY <1>2, <1>6, <2>1
    <2>3. Len(q.bus) \in 1..Len(q.bus) /\ q.bus[Len(q.bus)] = m
        BY <1>6, <2>1
    <2>4. SeekAnswered(q)
        BY <2>3 DEF SeekAnswered, m
    <2>5. ReadyOK(q)
        BY <1>6, <1>7, <1>9, <2>2, <2>4 DEF ReadyOK
    <2> QED
        BY <1>1, <1>6, <1>7, <1>9, <2>5 DEF AudioOK, AudioInv
<1> QED
    BY <1>8, <1>9

LEMMA StreamEndsStep == AudioInv /\ StreamEnds => AudioInv'
<1> SUFFICES ASSUME AudioInv, StreamEnds PROVE AudioInv'
    OBVIOUS
<1> DEFINE p == audioPlayer
           q == audioPlayer'
<1>1. AudioOK(p) /\ p \in StructAudio /\ p.bus \in Seq(BusMessages) /\ p.playbin = "PLAYING"
    BY DEF AudioInv, StreamEnds, AudioOK, StructAudio
<1>2. CASE q = Post(p, <<Notice("EOS")>>)
    <2> DEFINE m == Notice("EOS")
    <2>1. m \in BusMessages /\ m \in StreamMessages
        BY MessageTypes DEF StreamMessages
    <2>2. q = [p EXCEPT !.bus = p.bus \o <<m>>]
        BY <1>1, <1>2 DEF Post, StructAudio
    <2> HIDE DEF m
    <2>3. p.bus \o <<m>> \in Seq(BusMessages)
        BY <1>1, <2>1
    <2>4. /\ q \in StructAudio /\ q.failed = p.failed /\ q.heard = p.heard
          /\ q.event_subscribed = p.event_subscribed /\ q.is_initialized = p.is_initialized
          /\ q.is_playing = p.is_playing /\ q.playbin = p.playbin /\ q.busy = p.busy
          /\ q.bus = p.bus \o <<m>> /\ q.is_seek_completed = p.is_seek_completed
        BY <1>1, <2>2, <2>3 DEF StructAudio
    <2>5. p.failed \/ (p.is_initialized /\ ReadyOK(p))
        BY <1>1 DEF AudioOK, Stopped, Opened, Prerolling, Prerolled
    <2>6. CASE p.failed
        BY <1>1, <2>4, <2>6 DEF AudioOK, AudioInv
    <2>7. CASE ~p.failed
        <3>1. p.bus \in Seq(StreamMessages) /\ SeekAnswered(p)
            BY <2>5, <2>7 DEF ReadyOK
        <3>2. q.bus \in Seq(StreamMessages) /\ Len(q.bus) = Len(p.bus) + 1
              /\ \A i \in 1..Len(p.bus) : q.bus[i] = p.bus[i]
            BY <2>1, <2>4, <3>1
        <3>3. SeekAnswered(q)
            BY <2>4, <3>1, <3>2 DEF SeekAnswered
        <3>4. ReadyOK(q)
            BY <2>4, <2>5, <2>7, <3>2, <3>3 DEF ReadyOK
        <3> QED
            BY <1>1, <2>4, <2>5, <2>7, <3>4 DEF AudioOK, AudioInv
    <2> QED
        BY <2>6, <2>7
<1>3. CASE q = Post([p EXCEPT !.failed = TRUE], <<Notice("ERROR")>>)
    <2>1. <<Notice("ERROR")>> \in Seq(BusMessages)
        BY MessageTypes
    <2>2. p.bus \o <<Notice("ERROR")>> \in Seq(BusMessages)
        BY <1>1, <2>1
    <2>3. q = [p EXCEPT !.failed = TRUE, !.bus = p.bus \o <<Notice("ERROR")>>]
        BY <1>1, <1>3 DEF Post, StructAudio
    <2>4. q \in StructAudio /\ q.failed /\ q.heard = p.heard
          /\ q.event_subscribed = p.event_subscribed
        BY <1>1, <2>2, <2>3 DEF StructAudio
    <2>5. AudioOK(q)
        BY <1>1, <2>4 DEF AudioOK
    <2> QED
        BY <2>5 DEF AudioInv
<1> QED
    BY <1>2, <1>3 DEF StreamEnds
-----------------------------------------------------------------------------
LEMMA NewAudioOK == AudioOK(AudioPlayerNew)
<1>1. <<>> \in Seq(BusMessages) /\ 1 \in Nat \ {0}
    OBVIOUS
<1> QED
    BY <1>1 DEF AudioPlayerNew, AudioOK, StructAudio, AudioStates, Stopped

LEMMA AudioCallStep == AudioInv /\ OnLocalMethodCall => AudioInv'
<1> SUFFICES ASSUME AudioInv, OnLocalMethodCall PROVE AudioInv'
    OBVIOUS
<1> DEFINE p == GetPlayer
<1>1. AudioOK(p)
    BY NewAudioOK DEF AudioInv, GetPlayer
<1>2. PICK g \in Grants :
          \/ audioPlayer' = p
          \/ audioPlayer' = AudioPlayerPause(p, g)
          \/ audioPlayer' = AudioPlayerResume(p, g)
          \/ audioPlayer' = AudioPlayerSetPosition(AudioPlayerPause(p, g), g)
          \/ audioPlayer' = AudioPlayerRelease(p)
          \/ audioPlayer' = AudioPlayerSetPosition(p, g)
          \/ \E url \in Urls : audioPlayer' = AudioPlayerSetSourceUrl(p, url, g)
          \/ \E rate \in 0..2 : audioPlayer' = AudioPlayerSetPlayback(p, rate, g)
          \/ \E looping \in BOOLEAN : audioPlayer' = [p EXCEPT !.is_looping = looping]
    BY DEF OnLocalMethodCall
<1> HIDE DEF p
<1>3. ASSUME NEW looping \in BOOLEAN PROVE AudioOK([p EXCEPT !.is_looping = looping])
    <2> DEFINE q == [p EXCEPT !.is_looping = looping]
    <2>1. /\ q \in StructAudio /\ q.failed = p.failed /\ q.heard = p.heard
          /\ q.event_subscribed = p.event_subscribed /\ q.is_initialized = p.is_initialized
          /\ q.is_playing = p.is_playing /\ q.playbin = p.playbin /\ q.busy = p.busy
          /\ q.bus = p.bus /\ q.is_seek_completed = p.is_seek_completed
        BY <1>1 DEF AudioOK, StructAudio
    <2> HIDE DEF q
    <2>2. AudioOK(q)
        BY <1>1, <2>1 DEF AudioOK, ReadyOK, SeekAnswered, Stopped, Opened, Prerolling,
           Prerolled
    <2> QED
        BY <2>2 DEF q
<1>4. \A rate \in 0..2 : rate \in Nat
    OBVIOUS
<1>5. AudioOK(AudioPlayerSetPosition(AudioPlayerPause(p, g), g))
    BY <1>1, PauseOK, SetPositionOK
<1>6. AudioOK(audioPlayer')
    BY <1>1, <1>2, <1>3, <1>4, <1>5, PauseOK, ResumeOK, ReleaseOK, SetPositionOK,
       SetSourceUrlOK, SetPlaybackOK
<1> QED
    BY <1>6 DEF AudioInv

LEMMA AudioListenStep == AudioInv /\ OnReceiveEventCh => AudioInv'
<1> SUFFICES ASSUME AudioInv, OnReceiveEventCh PROVE AudioInv'
    OBVIOUS
<1> DEFINE p == audioPlayer
           q == audioPlayer'
<1>1. AudioOK(p) /\ p \in StructAudio
    BY DEF AudioInv, OnReceiveEventCh, AudioOK
<1>2. \/ q = [p EXCEPT !.event_subscribed = TRUE]
      \/ q = [p EXCEPT !.event_subscribed = FALSE, !.heard = "deaf"]
    BY DEF OnReceiveEventCh
<1>3. /\ q \in StructAudio /\ q.failed = p.failed /\ q.is_initialized = p.is_initialized
      /\ q.is_playing = p.is_playing /\ q.playbin = p.playbin /\ q.busy = p.busy
      /\ q.bus = p.bus /\ q.is_seek_completed = p.is_seek_completed
      /\ (q.event_subscribed /\ q.heard = p.heard) \/ q.heard = "deaf"
    <2>1. CASE q = [p EXCEPT !.event_subscribed = TRUE]
        BY <1>1, <2>1 DEF StructAudio
    <2>2. CASE q = [p EXCEPT !.event_subscribed = FALSE, !.heard = "deaf"]
        BY <1>1, <2>2 DEF StructAudio
    <2> QED
        BY <1>2, <2>1, <2>2
<1>4. AudioOK(q)
    BY <1>1, <1>3 DEF AudioOK, ReadyOK, SeekAnswered, Stopped, Opened, Prerolling, Prerolled
<1> QED
    BY <1>4 DEF AudioInv

LEMMA AudioStep == AudioInv /\ [AudioNext]_audioPlayer => AudioInv'
<1>1. AudioInv /\ DisposePlayer => AudioInv'
    BY DEF AudioInv, DisposePlayer
<1>2. AudioInv /\ UNCHANGED audioPlayer => AudioInv'
    BY DEF AudioInv
<1> QED
    BY <1>1, <1>2, AudioCallStep, AudioListenStep, AudioBusStep, PrerollStep, SeekDoneStep,
       StreamEndsStep DEF AudioNext

(* A player is on the way to its source being ready or plays as it was     *)
(* asked to, and whatever it still waits for is on the bus or under way.   *)
THEOREM AudioCorrect == AudioSpec => []AudioInv
<1>1. AudioInit => AudioInv
    BY DEF AudioInit, AudioInv
<1> QED
    BY <1>1, AudioStep, PTL DEF AudioSpec

(* However calls and messages of the bus cross, once all messages have     *)
(* been handled the player plays exactly when it was last asked to, its    *)
(* next seek will be accepted and Flutter knows that it is ready           *)
(* (audio_player_on_bus_message).                                          *)
THEOREM PlayerFollowsWish == AudioSpec => []AudioFollows
<1>1. AudioInv => AudioFollows
    <2> SUFFICES ASSUME AudioInv, audioPlayer # NoAudio, audioPlayer.bus = <<>>,
                        audioPlayer.busy = "no", ~audioPlayer.failed
                 PROVE  LET p == audioPlayer
                            ready == p.playbin \in {"PAUSED", "PLAYING"}
                        IN  /\ p.is_initialized = ready
                            /\ (p.playbin = "PLAYING") = (ready /\ p.is_playing)
                            /\ ready => p.is_seek_completed /\ p.heard # "waiting"
        BY DEF AudioFollows
    <2> DEFINE p == audioPlayer
    <2>1. AudioOK(p) /\ p.is_initialized \in BOOLEAN
        BY DEF AudioInv, AudioOK, StructAudio
    <2>2. ~Opened(p) /\ ~Prerolled(p) /\ ~Prerolling(p)
        <3>1. <<StateChanged("NULL", "READY")>> # <<>>
              /\ <<StateChanged("READY", "PAUSED"), Notice("ASYNC_DONE")>> # <<>>
            OBVIOUS
        <3> QED
            BY <3>1 DEF Opened, Prerolled, Prerolling
    <2>3. CASE ~p.is_initialized
        BY <2>1, <2>2, <2>3 DEF AudioOK, Stopped
    <2>4. CASE p.is_initialized
        <3>1. ReadyOK(p)
            BY <2>1, <2>4 DEF AudioOK
        <3>2. p.is_seek_completed
            BY <3>1 DEF ReadyOK, SeekAnswered
        <3> QED
            BY <2>1, <2>4, <3>1, <3>2 DEF ReadyOK
    <2> QED
        BY <2>1, <2>3, <2>4
<1> QED
    BY <1>1, AudioCorrect, PTL

-----------------------------------------------------------------------------
(* The questions of a web page.                                            *)
IdCount == 2 ^ IdBits
Pairs == CallIds \X Questions
Pages ==
    [kind : {"none", "handler", "navigation", "window"}, app : Nat, disposed : Nat,
      mixed : BOOLEAN]
WebTasks == [q : 0..MaxQuestions, by : {"app", "disposed"}, mixed : BOOLEAN, loads : BOOLEAN]

WebTypeOK ==
    /\ page \in [Questions -> Pages]
    /\ player \in {"alive", "closing", "closed", "freed"}
    /\ replies \in SUBSET Pairs /\ decisions \in SUBSET Pairs
    /\ next_web_call_id \in 0..IdCount - 1
    /\ delegate \in BOOLEAN /\ listening \in BOOLEAN
    /\ tasks \in Seq(WebTasks)
    /\ event \in Pairs \cup {<<>>} /\ app \in SUBSET Pairs
    /\ leaked \in SUBSET Questions

(* The tables hold questions of their kinds, each question once, and the   *)
(* WebKit thread has one answer to a question.                             *)
WaitingOnce(table) == \A p, r \in table : p[2] = r[2] => p = r
TablesOK ==
    /\ WaitingOnce(replies) /\ WaitingOnce(decisions)
    /\ \A p \in replies : page[p[2]].kind = "handler"
    /\ \A p \in decisions : page[p[2]].kind \in {"navigation", "window"}
TasksOnce == \A i, j \in DOMAIN tasks : tasks[i].q = tasks[j].q => i = j

Waits(q) == \E p \in replies \cup decisions : p[2] = q
Queued(q) == \E i \in DOMAIN tasks : tasks[i].q = q
AnswersTo(q) == page[q].app + page[q].disposed

(* A question has not been asked, or waits, or its answer does, or it was  *)
(* answered, or its answer was lost.                                       *)
Settled(q) ==
    /\ page[q].kind = "none" =>
       ~Waits(q) /\ ~Queued(q) /\ AnswersTo(q) = 0 /\ ~page[q].mixed /\ q \notin leaked
    /\ Waits(q) => ~Queued(q) /\ AnswersTo(q) = 0 /\ q \notin leaked
    /\ Queued(q) => AnswersTo(q) = 0 /\ q \notin leaked
    /\ page[q].kind # "none" /\ q \notin leaked /\ ~Waits(q) /\ ~Queued(q) => AnswersTo(q) = 1

(* Nothing is queued behind the end of the view, and it is the last task   *)
(* that the platform thread waits for.                                     *)
ViewOK ==
    /\ player = "alive" => ~Queued(0)
    /\ player = "closing" => tasks # <<>> /\ tasks[Len(tasks)].q = 0
    /\ player = "closed" => tasks = <<>>
    /\ player = "freed" => ~Queued(0) /\ \A i \in DOMAIN tasks : ~tasks[i].loads

(* As long as there are ids for all, a question's id is its number.        *)
Own(p) == p[1] = p[2]
InStep(n) ==
    /\ next_web_call_id = IF n + 1 = IdCount THEN 0 ELSE n + 1
    /\ \A p \in replies \cup decisions \cup app : Own(p)
    /\ event # <<>> => Own(event)
    /\ \A i \in DOMAIN tasks : ~tasks[i].mixed
    /\ \A q \in Questions : ~page[q].mixed
Numbered(n) == Asked = 1..n /\ (n < IdCount => InStep(n))

WebInv ==
    /\ WebTypeOK /\ TablesOK /\ TasksOnce
    /\ \A q \in Questions : Settled(q)
    /\ ViewOK
    /\ \E n \in 0..MaxQuestions : Numbered(n)

(* There are ids, and at least one is not 0.                               *)
LEMMA WebIds == IdCount \in Nat /\ IdCount > 1 /\ CallIds = 1..IdCount - 1 /\
  MaxQuestions \in Nat
BY WebBounds, IdsAssumption DEF IdCount, CallIds

(* The id after an id wraps around to 0.                                   *)
LEMMA WebMod == ASSUME NEW id \in CallIds
  PROVE (id + 1) % IdCount = IF id + 1 = IdCount THEN 0 ELSE id + 1
BY WebIds

(* No question has been asked.                                             *)
LEMMA WebInitial == WebInit => WebInv
  <1> SUFFICES ASSUME WebInit PROVE WebInv OBVIOUS
  <1>1. WebTypeOK
    <2>1. NotAsked \in Pages BY DEF NotAsked, Pages
    <2>2. next_web_call_id \in 0..IdCount - 1 BY WebIds DEF WebInit
    <2>3. tasks \in Seq(WebTasks) BY DEF WebInit
    <2> QED BY <2>1, <2>2, <2>3 DEF WebInit, WebTypeOK
  <1>2. TablesOK /\ TasksOnce /\ ViewOK
    BY DEF WebInit, TablesOK, WaitingOnce, TasksOnce, ViewOK, Queued
  <1>3. ASSUME NEW q \in Questions PROVE Settled(q)
    BY DEF WebInit, Settled, Waits, Queued, AnswersTo, NotAsked
  <1>4. Numbered(0)
    <2>1. Asked = {} BY DEF WebInit, Asked, NotAsked
    <2> QED BY <2>1, WebIds DEF Numbered, InStep, WebInit, NotAsked
  <1> QED BY <1>1, <1>2, <1>3, <1>4, WebIds DEF WebInv

(* The invariant implies that questions are answered once.                 *)
LEMMA WebTheEnd == WebInv => QuestionsAnsweredOnce
  <1> SUFFICES ASSUME WebInv PROVE QuestionsAnsweredOnce OBVIOUS
  <1>1. ASSUME NEW q \in Asked \ leaked PROVE InOnePlace(q)
    <2> DEFINE P == {p \in replies \cup decisions : p[2] = q}
               T == {i \in DOMAIN tasks : tasks[i].q = q}
    <2>0. q \in Questions /\ page[q].kind # "none" /\ q \notin leaked BY DEF Asked
    <2>1. Cardinality(P) = IF Waits(q) THEN 1 ELSE 0
      <3>1. CASE ~Waits(q)
        <4>1. P = {} BY <3>1 DEF Waits
        <4> QED BY <4>1, <3>1, FS_EmptySet
      <3>2. CASE Waits(q)
        <4>1. PICK p \in replies \cup decisions : p[2] = q BY <3>2 DEF Waits
        <4>2. P = {p}
          BY <4>1 DEF WebInv, TablesOK, WaitingOnce
        <4> QED BY <4>2, <3>2, FS_Singleton
      <3> QED BY <3>1, <3>2
    <2>2. Cardinality(T) = IF Queued(q) THEN 1 ELSE 0
      <3>1. CASE ~Queued(q)
        <4>1. T = {} BY <3>1 DEF Queued
        <4> QED BY <4>1, <3>1, FS_EmptySet
      <3>2. CASE Queued(q)
        <4>1. PICK i \in DOMAIN tasks : tasks[i].q = q BY <3>2 DEF Queued
        <4>2. T = {i} BY <4>1 DEF WebInv, TasksOnce
        <4> QED BY <4>2, <3>2, FS_Singleton
      <3> QED BY <3>1, <3>2
    <2>3. AnswersTo(q) = page[q].app + page[q].disposed /\ page[q].app \in Nat /\
          page[q].disposed \in Nat
      BY <2>0 DEF AnswersTo, WebInv, WebTypeOK, Pages
    <2>4. Settled(q) BY <2>0 DEF WebInv
    <2> HIDE DEF P, T
    <2>5. Cardinality(P) + Cardinality(T) + page[q].app + page[q].disposed = 1
      BY <2>0, <2>1, <2>2, <2>3, <2>4 DEF Settled
    <2> QED BY <2>5 DEF InOnePlace, P, T
  <1>2. ASSUME Cardinality(Asked) <= Cardinality(CallIds), NEW q \in Asked PROVE ~page[q].mixed
    <2>1. PICK n \in 0..MaxQuestions : Numbered(n) BY DEF WebInv
    <2>2. Cardinality(Asked) = n BY <2>1, WebIds, FS_Interval DEF Numbered
    <2>3. Cardinality(CallIds) = IdCount - 1 BY WebIds, FS_Interval
    <2>4. n < IdCount BY <1>2, <2>2, <2>3, WebIds
    <2> QED BY <2>1, <2>4, <1>2 DEF Numbered, InStep, Asked
  <1>3. ASSUME ~Viewed, NEW i \in DOMAIN tasks PROVE ~tasks[i].loads
    BY <1>3 DEF Viewed, WebInv, ViewOK, WebTypeOK
  <1> QED BY <1>1, <1>2, <1>3 DEF QuestionsAnsweredOnce

(* What is used of the types.                                              *)
LEMMA WebTypes ==
  ASSUME WebInv
  PROVE /\ page \in [Questions -> Pages] /\ tasks \in Seq(WebTasks) /\ Len(tasks) \in Nat
        /\ \A i \in DOMAIN tasks : tasks[i] \in WebTasks /\ i \in 1..Len(tasks)
        /\ replies \subseteq Pairs /\ decisions \subseteq Pairs /\ app \subseteq Pairs
        /\ DOMAIN tasks = 1..Len(tasks)
  BY DEF WebInv, WebTypeOK

(* Steps that leave questions and their answers alone.                     *)
LEMMA WebQuiet ==
  ASSUME WebInv, UNCHANGED <<page, replies, decisions, next_web_call_id, tasks, leaked>>,
         WebTypeOK',
         ViewOK', \A n \in 0..MaxQuestions : InStep(n) => \A p \in app' : Own(p),
         \A n \in 0..MaxQuestions : InStep(n) /\ event' # <<>> => Own(event')
  PROVE WebInv'
  <1>1. TablesOK' /\ TasksOnce' BY DEF WebInv, TablesOK, WaitingOnce, TasksOnce
  <1>2. \A q \in Questions : Settled(q)' BY DEF WebInv, Settled, Waits, Queued, AnswersTo
  <1>3. PICK n \in 0..MaxQuestions : Numbered(n) BY DEF WebInv
  <1>4. InStep(n) => InStep(n)' BY DEF InStep
  <1>5. Numbered(n)' BY <1>3, <1>4 DEF Numbered, Asked
  <1> QED BY <1>1, <1>2, <1>3, <1>5 DEF WebInv

(* Whatever happens to an event, the app knows what it knew, or the event  *)
(* too.                                                                    *)
LEMMA NotifyKeeps ==
  ASSUME WebInv, NEW e \in Pairs \cup {<<>>}, NotifyWebEvent(e)
  PROVE /\ event' \in Pairs \cup {<<>>} /\ app' \in SUBSET Pairs
        /\ event' \in {event, e}
        /\ \A p \in app' : p \in app \/ p = e
  BY DEF NotifyWebEvent, WebInv, WebTypeOK

(* An event that is not a question.                                        *)
LEMMA OtherEventStep == ASSUME WebInv, OtherEvent PROVE WebInv'
  <1>1. /\ event' \in Pairs \cup {<<>>} /\ app' \in SUBSET Pairs
        /\ event' \in {event, <<>>}
        /\ \A p \in app' : p \in app \/ p = <<>>
    BY NotifyKeeps DEF OtherEvent
  <1>2. app' = app \cup {} \/ app' = app BY DEF OtherEvent, NotifyWebEvent
  <1>3. WebTypeOK' BY <1>1 DEF OtherEvent, WebInv, WebTypeOK
  <1>4. ViewOK' BY DEF OtherEvent, WebInv, ViewOK, Queued
  <1> QED BY <1>1, <1>2, <1>3, <1>4, WebQuiet DEF OtherEvent, InStep

(* A new listener is shown the last event.                                 *)
LEMMA WebListenStep == ASSUME WebInv, WebListen PROVE WebInv'
  <1>1. WebTypeOK' BY DEF WebListen, WebInv, WebTypeOK
  <1>2. ViewOK' BY DEF WebListen, WebInv, ViewOK, Queued
  <1>3. \A p \in app' : p \in app \/ (p = event /\ event # <<>>) BY DEF WebListen
  <1> QED BY <1>1, <1>2, <1>3, WebQuiet DEF WebListen, InStep

(* The app stops to listen, or sets its delegates.                         *)
LEMMA WebCancelStep == ASSUME WebInv, WebCancel \/ WebSetDelegates PROVE WebInv'
  <1>1. WebTypeOK' BY DEF WebCancel, WebSetDelegates, WebInv, WebTypeOK
  <1>2. ViewOK' BY DEF WebCancel, WebSetDelegates, WebInv, ViewOK, Queued
  <1> QED BY <1>1, <1>2, WebQuiet DEF WebCancel, WebSetDelegates, InStep

(* A task is appended.                                                     *)
LEMMA WebAppended ==
  ASSUME WebInv, NEW k \in WebTasks, tasks' = Append(tasks, k)
  PROVE /\ tasks' \in Seq(WebTasks) /\ DOMAIN tasks' = 1..Len(tasks) + 1 /\
           DOMAIN tasks = 1..Len(tasks)
        /\ Len(tasks) \in Nat /\ Len(tasks') = Len(tasks) + 1 /\ tasks'[Len(tasks) + 1] = k
        /\ \A i \in DOMAIN tasks : tasks'[i] = tasks[i] /\ i # Len(tasks) + 1
        /\ \A i \in DOMAIN tasks' : i \in DOMAIN tasks \/ i = Len(tasks) + 1
        /\ \A q : Queued(q)' <=> Queued(q) \/ q = k.q
  <1>1. tasks \in Seq(WebTasks) BY WebTypes
  <1>2. /\ tasks' \in Seq(WebTasks) /\ DOMAIN tasks' = 1..Len(tasks) + 1 /\
           DOMAIN tasks = 1..Len(tasks)
        /\ Len(tasks) \in Nat /\ Len(tasks') = Len(tasks) + 1 /\ tasks'[Len(tasks) + 1] = k
        /\ \A i \in DOMAIN tasks : tasks'[i] = tasks[i] /\ i # Len(tasks) + 1
    BY <1>1
  <1>3. \A i \in DOMAIN tasks' : i \in DOMAIN tasks \/ i = Len(tasks) + 1 BY <1>2
  <1>4. \A i \in DOMAIN tasks : i \in DOMAIN tasks' BY <1>2
  <1>5. Len(tasks) + 1 \in DOMAIN tasks' BY <1>2
  <1>6. ASSUME NEW q PROVE Queued(q)' <=> Queued(q) \/ q = k.q
    BY <1>2, <1>3, <1>4, <1>5 DEF Queued
  <1> QED BY <1>2, <1>3, <1>6

(* The answer to a question that waits is queued.                          *)
LEMMA Responded ==
  ASSUME WebInv, NEW heard \in app, NEW p \in replies \cup decisions, p[1] = heard[1],
         NEW k \in WebTasks, k.q = p[2], k.mixed = (p # heard), tasks' = Append(tasks, k),
         player = "alive", replies' = replies \ {p}, decisions' = decisions \ {p},
         UNCHANGED <<page, player, next_web_call_id, delegate, event, listening, app, leaked>>
  PROVE WebInv'
  <1>1. /\ tasks' \in Seq(WebTasks) /\ DOMAIN tasks' = 1..Len(tasks) + 1 /\
           DOMAIN tasks = 1..Len(tasks)
        /\ Len(tasks) \in Nat /\ Len(tasks') = Len(tasks) + 1 /\ tasks'[Len(tasks) + 1] = k
        /\ \A i \in DOMAIN tasks : tasks'[i] = tasks[i] /\ i # Len(tasks) + 1
        /\ \A i \in DOMAIN tasks' : i \in DOMAIN tasks \/ i = Len(tasks) + 1
        /\ \A q : Queued(q)' <=> Queued(q) \/ q = k.q
    BY WebAppended
  <1>2. WebTypeOK' BY <1>1 DEF WebInv, WebTypeOK
  <1>3. p \in Pairs /\ p[2] \in Questions /\ k.q \in Questions /\ k.q # 0
    BY WebTypes, WebIds DEF Pairs, Questions
  <1>4. TablesOK' BY DEF WebInv, TablesOK, WaitingOnce
  <1>5. Waits(k.q) /\ ~Queued(k.q) BY <1>3 DEF Waits, WebInv, Settled
  <1>6. TasksOnce'
    BY <1>1, <1>5 DEF TasksOnce, WebInv, Queued
  <1>7. \A r \in replies \cup decisions : r[2] = p[2] => r = p
    BY DEF WebInv, TablesOK, WaitingOnce
  <1>8. \A q : Waits(q)' <=> Waits(q) /\ q # p[2] BY <1>7 DEF Waits
  <1>9. ASSUME NEW q \in Questions PROVE Settled(q)'
    <2>1. Settled(q) BY DEF WebInv
    <2>2. AnswersTo(q)' = AnswersTo(q) /\ page'[q] = page[q] /\ leaked' = leaked BY DEF AnswersTo
    <2>3. (Queued(q)' <=> Queued(q) \/ q = k.q) /\ (Waits(q)' <=> Waits(q) /\ q # k.q)
      BY <1>1, <1>8
    <2> QED BY <1>5, <2>1, <2>2, <2>3 DEF Settled
  <1>10. ViewOK' BY <1>1, <1>3 DEF ViewOK, WebInv
  <1>11. PICK n \in 0..MaxQuestions : Numbered(n) BY DEF WebInv
  <1>12. ASSUME InStep(n) PROVE InStep(n)'
    <2>1. Own(p) /\ Own(heard) BY <1>12 DEF InStep
    <2>2. heard \in Pairs BY WebTypes
    <2>3. p = heard
      <3>1. p[1] = heard[1] /\ p[2] = heard[2] BY <2>1 DEF Own
      <3>2. p = <<p[1], p[2]>> /\ heard = <<heard[1], heard[2]>> BY <1>3, <2>2 DEF Pairs
      <3> QED BY <3>1, <3>2
    <2>4. ~k.mixed BY <2>3
    <2>5. \A i \in DOMAIN tasks' : ~tasks'[i].mixed BY <1>1, <1>12, <2>4 DEF InStep
    <2> QED BY <1>12, <2>5 DEF InStep
  <1>13. Numbered(n)' BY <1>11, <1>12 DEF Numbered, Asked
  <1> QED BY <1>2, <1>4, <1>6, <1>9, <1>10, <1>13 DEF WebInv

(* The app answers a question it was told of.                              *)
LEMMA RespondStep ==
  ASSUME WebInv, NEW heard \in app, WebRespondToHandler(heard) \/ WebRespondToNavigation(heard)
  PROVE WebInv'
  <1>1. CASE WebRespondToHandler(heard)
    <2>1. PICK p \in At(replies, heard[1]) :
            /\ tasks' = Append(tasks, Task(p[2], "app", p # heard, FALSE))
            /\ replies' = replies \ {p}
      BY <1>1 DEF WebRespondToHandler
    <2>2. p \in replies /\ p[1] = heard[1] BY DEF At
    <2>3. p \in Pairs /\ p[2] \in Questions BY <2>2, WebTypes DEF Pairs
    <2> DEFINE k == Task(p[2], "app", p # heard, FALSE)
    <2>4. k \in WebTasks /\ k.q = p[2] /\ k.mixed = (p # heard)
      BY <2>3 DEF Task, WebTasks, Questions
    <2>5. decisions' = decisions \ {p}
      <3>1. p \notin decisions BY <2>2 DEF WebInv, TablesOK
      <3> QED BY <1>1, <3>1 DEF WebRespondToHandler
    <2> HIDE DEF k
    <2>6. tasks' = Append(tasks, k) BY <2>1 DEF k
    <2> QED BY <1>1, <2>1, <2>2, <2>4, <2>5, <2>6, Responded DEF WebRespondToHandler
  <1>2. CASE WebRespondToNavigation(heard)
    <2>1. PICK p \in At(decisions, heard[1]), allow \in BOOLEAN :
            /\ tasks' = Append(tasks,
               Task(p[2], "app", p # heard, allow /\ page[p[2]].kind = "window"))
            /\ decisions' = decisions \ {p}
      BY <1>2 DEF WebRespondToNavigation
    <2>2. p \in decisions /\ p[1] = heard[1] BY DEF At
    <2>3. p \in Pairs /\ p[2] \in Questions BY <2>2, WebTypes DEF Pairs
    <2> DEFINE k == Task(p[2], "app", p # heard, allow /\ page[p[2]].kind = "window")
    <2>4. k \in WebTasks /\ k.q = p[2] /\ k.mixed = (p # heard)
      BY <2>3 DEF Task, WebTasks, Questions
    <2>5. replies' = replies \ {p}
      <3>1. p \notin replies BY <2>2 DEF WebInv, TablesOK
      <3> QED BY <1>2, <3>1 DEF WebRespondToNavigation
    <2> HIDE DEF k
    <2>6. tasks' = Append(tasks, k) BY <2>1 DEF k
    <2> QED BY <1>2, <2>1, <2>2, <2>4, <2>5, <2>6, Responded DEF WebRespondToNavigation
  <1> QED BY <1>1, <1>2

(* The first task of the WebKit thread is taken.                           *)
LEMMA WebTaken ==
  ASSUME WebInv, tasks # <<>>, tasks' = Tail(tasks)
  PROVE /\ tasks' \in Seq(WebTasks) /\ Head(tasks) \in WebTasks /\ Head(tasks) = tasks[1]
        /\ Len(tasks') = Len(tasks) - 1 /\ Len(tasks) \in Nat /\ Len(tasks) > 0
        /\ DOMAIN tasks' = 1..Len(tasks) - 1 /\ DOMAIN tasks = 1..Len(tasks)
        /\ \A i \in DOMAIN tasks' : i + 1 \in DOMAIN tasks /\ tasks'[i] = tasks[i + 1] /\
           i \in Nat
        /\ \A q : Queued(q)' <=> Queued(q) /\ q # Head(tasks).q
  <1>1. tasks \in Seq(WebTasks) BY WebTypes
  <1>2. /\ tasks' \in Seq(WebTasks) /\ Head(tasks) \in WebTasks /\ Head(tasks) = tasks[1]
        /\ Len(tasks') = Len(tasks) - 1 /\ Len(tasks) \in Nat /\ Len(tasks) > 0
        /\ DOMAIN tasks' = 1..Len(tasks) - 1 /\ DOMAIN tasks = 1..Len(tasks)
    BY <1>1
  <1>3. \A i \in DOMAIN tasks' : i + 1 \in DOMAIN tasks /\ tasks'[i] = tasks[i + 1] /\ i \in Nat
    BY <1>1, <1>2
  <1>4. 1 \in DOMAIN tasks /\
        \A i \in DOMAIN tasks : i # 1 => i - 1 \in DOMAIN tasks' /\ (i - 1) + 1 = i
    BY <1>2
  <1>5. ASSUME NEW q PROVE Queued(q)' <=> Queued(q) /\ q # Head(tasks).q
    <2>1. ASSUME Queued(q)' PROVE Queued(q) /\ q # Head(tasks).q
      <3>1. PICK i \in DOMAIN tasks' : tasks'[i].q = q BY <2>1 DEF Queued
      <3>2. i + 1 \in DOMAIN tasks /\ tasks[i + 1].q = q /\ i + 1 # 1 BY <1>2, <1>3, <3>1
      <3>3. tasks[1].q # q BY <1>4, <3>2 DEF WebInv, TasksOnce
      <3> QED BY <1>2, <3>2, <3>3 DEF Queued
    <2>2. ASSUME Queued(q), q # Head(tasks).q PROVE Queued(q)'
      <3>1. PICK i \in DOMAIN tasks : tasks[i].q = q BY <2>2 DEF Queued
      <3>2. i # 1 BY <1>2, <2>2, <3>1
      <3>3. i - 1 \in DOMAIN tasks' /\ (i - 1) + 1 = i BY <1>4, <3>2
      <3>4. tasks'[i - 1] = tasks[i] BY <1>3, <3>3
      <3> QED BY <3>1, <3>3, <3>4 DEF Queued
    <2> QED BY <2>1, <2>2
  <1> QED BY <1>2, <1>3, <1>5

(* One answer more.                                                        *)
LEMMA AnsweredIs ==
  ASSUME NEW q \in Pages, NEW k \in WebTasks
  PROVE LET r == WithAnswer(q, k)
        IN  /\ r \in Pages /\ r.kind = q.kind /\ r.app + r.disposed = q.app + q.disposed + 1
            /\ ~k.mixed /\ ~q.mixed => ~r.mixed
  <1> DEFINE m == k.mixed
             r == WithAnswer(q, k)
  <1>1. m \in BOOLEAN BY DEF WebTasks
  <1>2. q.app \in Nat /\ q.disposed \in Nat /\ q.mixed \in BOOLEAN /\
        q.kind \in {"none", "handler", "navigation", "window"}
        /\ q = [kind |-> q.kind, app |-> q.app, disposed |-> q.disposed, mixed |-> q.mixed]
    BY DEF Pages
  <1>3. CASE k.by = "app"
    <2>1. r = [q EXCEPT !.app = @ + 1, !.mixed = m] BY <1>3 DEF WithAnswer
    <2> HIDE DEF m, r
    <2>2. r = [kind |-> q.kind, app |-> q.app + 1, disposed |-> q.disposed, mixed |-> m]
      BY <1>2, <2>1
    <2>3. r \in Pages /\ r.kind = q.kind /\ r.mixed = m BY <1>1, <1>2, <2>2 DEF Pages
    <2>4. r.app + r.disposed = q.app + q.disposed + 1 BY <1>2, <2>2
    <2> QED BY <2>3, <2>4 DEF m, r
  <1>4. CASE k.by # "app"
    <2>1. r = [q EXCEPT !.disposed = @ + 1] BY <1>4 DEF WithAnswer
    <2> HIDE DEF m, r
    <2>2. r = [kind |-> q.kind, app |-> q.app, disposed |-> q.disposed + 1, mixed |-> q.mixed]
      BY <1>2, <2>1
    <2>3. r \in Pages /\ r.kind = q.kind /\ r.mixed = q.mixed BY <1>2, <2>2 DEF Pages
    <2>4. r.app + r.disposed = q.app + q.disposed + 1 BY <1>2, <2>2
    <2> QED BY <2>3, <2>4 DEF m, r
  <1> QED BY <1>3, <1>4

(* The WebKit thread answers, or the view goes.                            *)
LEMMA RunTaskStep == ASSUME WebInv, RunTask PROVE WebInv'
  <1> DEFINE k == Head(tasks)
  <1>1. /\ tasks' \in Seq(WebTasks) /\ k \in WebTasks /\ k = tasks[1]
        /\ Len(tasks') = Len(tasks) - 1 /\ Len(tasks) \in Nat /\ Len(tasks) > 0
        /\ DOMAIN tasks' = 1..Len(tasks) - 1 /\ DOMAIN tasks = 1..Len(tasks)
        /\ \A i \in DOMAIN tasks' : i + 1 \in DOMAIN tasks /\ tasks'[i] = tasks[i + 1] /\
           i \in Nat
        /\ \A q : Queued(q)' <=> Queued(q) /\ q # k.q
    BY WebTaken DEF RunTask
  <1>2. 1 \in DOMAIN tasks /\ tasks \in Seq(WebTasks) BY <1>1, WebTypes
  <1>3. UNCHANGED <<replies, decisions, next_web_call_id, delegate, event, listening, app,
          leaked>>
    BY DEF RunTask
  <1>4. TasksOnce'
    <2> SUFFICES ASSUME NEW i \in DOMAIN tasks', NEW j \in DOMAIN tasks',
                        tasks'[i].q = tasks'[j].q
                 PROVE i = j
      BY DEF TasksOnce
    <2>1. i + 1 = j + 1 BY <1>1 DEF WebInv, TasksOnce
    <2> QED BY <1>1, <2>1
  <1>5. \A q : Waits(q)' <=> Waits(q) BY <1>3 DEF Waits
  <1>6. PICK n \in 0..MaxQuestions : Numbered(n) BY DEF WebInv
  <1>7. InStep(n) => \A i \in DOMAIN tasks' : ~tasks'[i].mixed BY <1>1 DEF InStep
  <1>8. CASE k.q = 0
    <2>1. player' = "closed" /\ page' = page BY <1>8 DEF RunTask
    <2>2. Queued(0) BY <1>1, <1>2, <1>8 DEF Queued
    <2>3. player = "closing" BY <1>1, <2>2 DEF WebInv, ViewOK, WebTypeOK
    <2>4. Len(tasks) = 1
      <3>1. Len(tasks) \in DOMAIN tasks /\ tasks[Len(tasks)].q = 0
        BY <1>1, <2>3 DEF WebInv, ViewOK
      <3> QED BY <1>1, <1>2, <1>8, <3>1 DEF WebInv, TasksOnce
    <2>5. tasks' = <<>> BY <1>1, <2>4
    <2>6. ViewOK' BY <2>1, <2>5 DEF ViewOK
    <2>7. WebTypeOK' BY <1>1, <1>3, <2>1 DEF WebInv, WebTypeOK
    <2>8. TablesOK' BY <1>3, <2>1 DEF WebInv, TablesOK, WaitingOnce
    <2>9. ASSUME NEW q \in Questions PROVE Settled(q)'
      <3>1. Settled(q) /\ q # 0 BY WebIds DEF WebInv, Questions
      <3>2. AnswersTo(q)' = AnswersTo(q) /\ page'[q] = page[q] /\ leaked' = leaked
        BY <1>3, <2>1 DEF AnswersTo
      <3>3. (Queued(q)' <=> Queued(q)) /\ (Waits(q)' <=> Waits(q)) BY <1>1, <1>5, <1>8, <3>1
      <3> QED BY <3>1, <3>2, <3>3 DEF Settled
    <2>10. Numbered(n)' BY <1>3, <1>6, <1>7, <2>1 DEF Numbered, Asked, InStep
    <2> QED BY <1>4, <2>6, <2>7, <2>8, <2>9, <2>10 DEF WebInv
  <1>9. CASE k.q # 0
    <2>1. k.q \in Questions /\ k.mixed \in BOOLEAN BY <1>1, <1>9, WebIds DEF WebTasks, Questions
    <2> DEFINE rec == WithAnswer(page[k.q], k)
    <2>3. page \in [Questions -> Pages] /\ page[k.q] \in Pages BY <2>1, WebTypes
    <2>2. page' = [page EXCEPT ![k.q] = rec] /\ player' = player BY <1>9, <2>1, <2>3 DEF RunTask
    <2>4. /\ rec \in Pages /\ rec.kind = page[k.q].kind
          /\ rec.app + rec.disposed = AnswersTo(k.q) + 1
          /\ ~k.mixed /\ ~page[k.q].mixed => ~rec.mixed
      <3>1. rec.app + rec.disposed = page[k.q].app + page[k.q].disposed + 1
            /\ rec \in Pages /\ rec.kind = page[k.q].kind
            /\ (~k.mixed /\ ~page[k.q].mixed => ~rec.mixed)
        BY <1>1, <2>3, AnsweredIs
      <3> QED BY <3>1 DEF AnswersTo
    <2> HIDE DEF rec
    <2>5. page' \in [Questions -> Pages] /\ page'[k.q] = rec /\
          \A q \in Questions : q # k.q => page'[q] = page[q]
      BY <2>1, <2>2, <2>3, <2>4
    <2>6. \A q \in Questions : page'[q].kind = page[q].kind BY <2>4, <2>5
    <2>7. WebTypeOK' BY <1>1, <1>3, <2>2, <2>5 DEF WebInv, WebTypeOK
    <2>8. TablesOK'
      <3>1. \A p \in replies \cup decisions : p[2] \in Questions BY WebTypes DEF Pairs
      <3> QED BY <1>3, <2>6, <3>1 DEF WebInv, TablesOK, WaitingOnce
    <2>9. ViewOK'
      <3>1. Queued(0)' => Queued(0) BY <1>1
      <3>2. ASSUME player = "closing" PROVE tasks' # <<>> /\ tasks'[Len(tasks')].q = 0
        <4>1. tasks[Len(tasks)].q = 0 BY <3>2 DEF WebInv, ViewOK
        <4>2. Len(tasks) # 1 BY <1>1, <1>9, <4>1
        <4>3. Len(tasks') \in DOMAIN tasks' /\ Len(tasks') + 1 = Len(tasks) /\ Len(tasks') > 0
          BY <1>1, <4>2
        <4> QED BY <1>1, <4>1, <4>3
      <3>3. player # "closed" BY <1>1 DEF WebInv, ViewOK
      <3> QED BY <1>1, <2>2, <3>1, <3>2, <3>3 DEF WebInv, ViewOK
    <2>10. Queued(k.q) BY <1>1, <1>2 DEF Queued
    <2>11. ASSUME NEW q \in Questions PROVE Settled(q)'
      <3>1. Settled(q) BY DEF WebInv
      <3>2. (Queued(q)' <=> Queued(q) /\ q # k.q) /\ (Waits(q)' <=> Waits(q)) /\
            leaked' = leaked
        BY <1>1, <1>3, <1>5
      <3>3. CASE q # k.q
        <4>1. page'[q] = page[q] /\ AnswersTo(q)' = AnswersTo(q) BY <2>5, <3>3 DEF AnswersTo
        <4> QED BY <3>1, <3>2, <3>3, <4>1 DEF Settled
      <3>4. CASE q = k.q
        <4>1. AnswersTo(q) = 0 /\ q \notin leaked /\ ~Waits(q) /\ page[q].kind # "none"
          BY <2>10, <3>1, <3>4 DEF Settled
        <4>2. AnswersTo(q)' = 1 /\ page'[q].kind # "none" BY <2>4, <2>5, <3>4, <4>1 DEF AnswersTo
        <4> QED BY <3>2, <3>4, <4>1, <4>2 DEF Settled
      <3> QED BY <3>3, <3>4
    <2>12. InStep(n) => InStep(n)'
      <3> SUFFICES ASSUME InStep(n) PROVE InStep(n)' OBVIOUS
      <3>1. ~k.mixed BY <1>1, <1>2 DEF InStep
      <3>2. \A q \in Questions : ~page'[q].mixed BY <2>1, <2>4, <2>5, <3>1 DEF InStep
      <3> QED BY <1>3, <1>7, <3>2 DEF InStep
    <2>13. Numbered(n)' BY <1>6, <2>6, <2>12 DEF Numbered, Asked
    <2> QED BY <1>4, <2>7, <2>8, <2>9, <2>11, <2>13 DEF WebInv
  <1> QED BY <1>8, <1>9

(* The player is disposed of: the view's end is queued.                    *)
LEMMA WebDeinitStep == ASSUME WebInv, WebDeinit PROVE WebInv'
  <1> DEFINE k == Task(0, "app", FALSE, FALSE)
  <1>0. k \in WebTasks /\ k.q = 0 /\ ~k.mixed BY WebIds DEF Task, WebTasks
  <1> HIDE DEF k
  <1>1. /\ tasks' \in Seq(WebTasks) /\ DOMAIN tasks' = 1..Len(tasks) + 1 /\
           DOMAIN tasks = 1..Len(tasks)
        /\ Len(tasks) \in Nat /\ Len(tasks') = Len(tasks) + 1 /\ tasks'[Len(tasks) + 1] = k
        /\ \A i \in DOMAIN tasks : tasks'[i] = tasks[i] /\ i # Len(tasks) + 1
        /\ \A i \in DOMAIN tasks' : i \in DOMAIN tasks \/ i = Len(tasks) + 1
        /\ \A q : Queued(q)' <=> Queued(q) \/ q = k.q
    <2>1. tasks' = Append(tasks, k) BY DEF WebDeinit, k
    <2> QED BY <1>0, <2>1, WebAppended
  <1>2. UNCHANGED <<page, replies, decisions, next_web_call_id, delegate, event, app, leaked>>
        /\ player' = "closing" /\ player = "alive" /\ listening' = FALSE
    BY DEF WebDeinit
  <1>3. WebTypeOK' BY <1>1, <1>2 DEF WebInv, WebTypeOK
  <1>4. TablesOK' BY <1>2 DEF WebInv, TablesOK, WaitingOnce
  <1>5. ~Queued(0) BY <1>2 DEF WebInv, ViewOK
  <1>6. TasksOnce' BY <1>0, <1>1, <1>5 DEF TasksOnce, WebInv, Queued
  <1>7. ViewOK' BY <1>0, <1>1, <1>2 DEF ViewOK
  <1>8. ASSUME NEW q \in Questions PROVE Settled(q)'
    <2>1. Settled(q) /\ q # 0 BY WebIds DEF WebInv, Questions
    <2>2. AnswersTo(q)' = AnswersTo(q) /\ page'[q] = page[q] /\ leaked' = leaked BY <1>2 DEF AnswersTo
    <2>3. (Queued(q)' <=> Queued(q)) /\ (Waits(q)' <=> Waits(q))
      BY <1>0, <1>1, <1>2, <2>1 DEF Waits
    <2> QED BY <2>1, <2>2, <2>3 DEF Settled
  <1>9. PICK n \in 0..MaxQuestions : Numbered(n) BY DEF WebInv
  <1>10. InStep(n) => InStep(n)' BY <1>0, <1>1, <1>2 DEF InStep
  <1>11. Numbered(n)' BY <1>2, <1>9, <1>10 DEF Numbered, Asked
  <1> QED BY <1>3, <1>4, <1>6, <1>7, <1>8, <1>11 DEF WebInv

(* A finite set as a list.                                                 *)
LEMMA SetToSeqIs ==
  ASSUME NEW S, IsFiniteSet(S)
  PROVE /\ SetToSeq(S) \in [1..Cardinality(S) -> S] /\ Cardinality(S) \in Nat
        /\ \A i, j \in 1..Cardinality(S) : SetToSeq(S)[i] = SetToSeq(S)[j] => i = j
        /\ \A x \in S : \E i \in 1..Cardinality(S) : SetToSeq(S)[i] = x
        /\ Len(SetToSeq(S)) = Cardinality(S)
  <1> DEFINE n == Cardinality(S)
             f == SetToSeq(S)
  <1>1. n \in Nat /\ ExistsBijection(1..n, S) BY FS_CardinalityType
  <1>2. PICK g : g \in Bijection(1..n, S) BY <1>1 DEF ExistsBijection
  <1>3. g \in [1..n -> S] /\ IsInjective(g) BY <1>2 DEF Bijection, Injection
  <1>4. f \in [1..n -> S] /\ IsInjective(f) BY <1>3 DEF SetToSeq
  <1> HIDE DEF f, n
  <1>5. f \in Injection(1..n, S) BY <1>4 DEF Injection
  <1>6. Cardinality(1..n) = n BY <1>1, FS_Interval
  <1>7. Cardinality(1..n) = Cardinality(S) <=> f \in Surjection(1..n, S) BY <1>5, FS_Injection
  <1>8. f \in Surjection(1..n, S) BY <1>6, <1>7 DEF n
  <1>9. \A i, j \in 1..n : f[i] = f[j] => i = j BY <1>4 DEF IsInjective
  <1>10. \A x \in S : \E i \in 1..n : f[i] = x BY <1>8 DEF Surjection
  <1>11. f \in Seq(S) /\ Len(f) = n BY <1>1, <1>4
  <1> QED BY <1>1, <1>4, <1>9, <1>10, <1>11 DEF f, n

(* What waits is finite.                                                   *)
LEMMA WebFinite ==
  ASSUME WebInv PROVE IsFiniteSet(AskedIn(replies) \cup AskedIn(decisions))
  <1>1. \A p \in Pairs : p[2] \in Questions BY DEF Pairs
  <1>2. AskedIn(replies) \cup AskedIn(decisions) \subseteq Questions
    BY <1>1, WebTypes DEF AskedIn
  <1>3. IsFiniteSet(Questions) BY WebIds, FS_Interval DEF Questions
  <1> QED BY <1>2, <1>3, FS_Subset

(* What still waits when the player is freed is answered as disposed of,   *)
(* or lost.                                                                *)
LEMMA GstplayerDestroyStep == ASSUME WebInv, GstplayerDestroy PROVE WebInv'
  <1>0. tasks = <<>> /\ player' = "freed" /\ replies' = {} /\ decisions' = {}
        /\ UNCHANGED <<page, next_web_call_id, delegate, event, listening, app>>
    BY DEF GstplayerDestroy, WebInv, ViewOK
  <1>1. PICK lost \in SUBSET AskedIn(replies) :
          LET order == SetToSeq((AskedIn(replies) \cup AskedIn(decisions)) \ lost)
          IN  /\ leaked' = leaked \cup lost
              /\ tasks' = tasks \o [i \in 1..Len(order) |-> Task(order[i], "disposed", FALSE,
                 FALSE)]
    BY DEF GstplayerDestroy
  <1> DEFINE S == (AskedIn(replies) \cup AskedIn(decisions)) \ lost
             order == SetToSeq(S)
             n == Cardinality(S)
             list == [i \in 1..n |-> Task(order[i], "disposed", FALSE, FALSE)]
  <1>2. IsFiniteSet(S) /\ S \subseteq Questions
    <2>1. \A p \in Pairs : p[2] \in Questions BY DEF Pairs
    <2>2. S \subseteq Questions BY <2>1, WebTypes DEF AskedIn
    <2> QED BY <2>2, WebFinite, FS_Subset
  <1>3. /\ order \in [1..n -> S] /\ n \in Nat
        /\ \A i, j \in 1..n : order[i] = order[j] => i = j
        /\ \A x \in S : \E i \in 1..n : order[i] = x
        /\ Len(order) = n
    BY <1>2, SetToSeqIs
  <1>4. leaked' = leaked \cup lost /\ tasks' = tasks \o list BY <1>1, <1>3
  <1>5. \A r : r \in S <=> Waits(r) /\ r \notin lost BY DEF AskedIn, Waits
  <1>6. \A r \in lost : Waits(r) /\ r \in Questions
    <2>1. \A p \in replies : p[2] \in Questions BY WebTypes DEF Pairs
    <2> QED BY <2>1 DEF AskedIn, Waits
  <1> HIDE DEF S, order, n
  <1>7. /\ list \in Seq(WebTasks) /\ Len(list) = n /\ DOMAIN list = 1..n
        /\ \A i \in 1..n : list[i].q = order[i] /\ ~list[i].mixed /\ ~list[i].loads
    <2>0. \A i \in 1..n : order[i] \in Questions
      <3>1. \A i \in 1..n : order[i] \in S BY <1>3
      <3> QED BY <1>2, <3>1
    <2>1. \A i \in 1..n : order[i] \in 0..MaxQuestions BY <2>0, WebIds DEF Questions
    <2>2. \A i \in 1..n : Task(order[i], "disposed", FALSE, FALSE) \in WebTasks
      BY <2>1 DEF Task, WebTasks
    <2>3. list \in [1..n -> WebTasks] BY <2>2
    <2>4. \A i \in 1..n : list[i].q = order[i] /\ ~list[i].mixed /\ ~list[i].loads BY DEF Task
    <2> HIDE DEF list
    <2>5. list \in Seq(WebTasks) /\ Len(list) = n /\ DOMAIN list = 1..n BY <1>3, <2>3
    <2> QED BY <2>4, <2>5
  <1> HIDE DEF list
  <1>8. tasks' = list BY <1>0, <1>4, <1>7
  <1>9. \A r : Queued(r)' <=> r \in S
    <2>1. DOMAIN tasks' = 1..n /\ \A i \in 1..n : tasks'[i].q = order[i] BY <1>7, <1>8
    <2> QED BY <1>3, <2>1 DEF Queued
  <1>10. TasksOnce' BY <1>3, <1>7, <1>8 DEF TasksOnce
  <1>11. WebTypeOK' BY <1>0, <1>4, <1>6, <1>7, <1>8 DEF WebInv, WebTypeOK
  <1>12. TablesOK' BY <1>0 DEF TablesOK, WaitingOnce
  <1>13. ViewOK'
    <2>1. 0 \notin S BY <1>2, WebIds DEF Questions
    <2> QED BY <1>0, <1>7, <1>8, <1>9, <2>1 DEF ViewOK
  <1>14. ASSUME NEW r \in Questions PROVE Settled(r)'
    <2>1. Settled(r) BY DEF WebInv
    <2>2. AnswersTo(r)' = AnswersTo(r) /\ page'[r] = page[r] BY <1>0 DEF AnswersTo
    <2>3. ~Waits(r)' BY <1>0 DEF Waits
    <2>4. ~Queued(r) BY <1>0 DEF Queued
    <2>5. (Queued(r)' <=> Waits(r) /\ r \notin lost) /\
          (r \in leaked' <=> r \in leaked \/ r \in lost)
      BY <1>4, <1>5, <1>9
    <2>6. r \in lost => Waits(r) BY <1>6
    <2> QED BY <2>1, <2>2, <2>3, <2>4, <2>5, <2>6 DEF Settled
  <1>15. PICK m \in 0..MaxQuestions : Numbered(m) BY DEF WebInv
  <1>16. InStep(m) => InStep(m)' BY <1>0, <1>7, <1>8 DEF InStep
  <1>17. Numbered(m)' BY <1>0, <1>15, <1>16 DEF Numbered, Asked
  <1> QED BY <1>10, <1>11, <1>12, <1>13, <1>14, <1>17 DEF WebInv

(* A question that is asked.                                               *)
LEMMA AskedIs ==
  ASSUME NEW k
  PROVE LET r == [NotAsked EXCEPT !.kind = k]
        IN  r.kind = k /\ r.app = 0 /\ r.disposed = 0 /\ ~r.mixed /\
          (k \in {"handler", "navigation", "window"} => r \in Pages)
  <1> DEFINE r == [NotAsked EXCEPT !.kind = k]
  <1>0. NotAsked \in Pages /\ NotAsked.app = 0 /\ NotAsked.disposed = 0 /\
        NotAsked.mixed = FALSE
    BY DEF NotAsked, Pages
  <1> HIDE DEF NotAsked
  <1>1. r.kind = k /\ r.app = 0 /\ r.disposed = 0 BY <1>0 DEF Pages
  <1>2. r.mixed = NotAsked.mixed BY <1>0 DEF Pages
  <1>3. k \in {"handler", "navigation", "window"} => r \in Pages BY <1>0 DEF Pages
  <1> QED BY <1>0, <1>1, <1>2, <1>3

(* A question under a new id takes the place of those that had it.         *)
LEMMA Asking ==
  ASSUME WebInv, NEW q \in Questions, NEW kind \in {"handler", "navigation", "window"},
         NEW table, Ask(q, kind, table), table \subseteq replies \cup decisions,
         replies' \cup decisions' =
           {p \in replies \cup decisions : p \in table => p[1] # Skipped(next_web_call_id)}
                                       \cup {<<Skipped(next_web_call_id), q>>}
  PROVE /\ page' \in [Questions -> Pages] /\ next_web_call_id' \in 0..IdCount - 1
        /\ leaked' \in SUBSET Questions /\ event' \in Pairs \cup {<<>>} /\ app' \in SUBSET Pairs
        /\ <<Skipped(next_web_call_id), q>> \in Pairs
        /\ page[q].kind = "none" /\ page'[q].kind = kind
        /\ \A r \in Questions : r # q => page'[r].kind = page[r].kind
        /\ \A r \in Questions : Settled(r)'
        /\ \E n \in 0..MaxQuestions : Numbered(n)'
  <1> DEFINE id == Skipped(next_web_call_id)
             old == AskedIn(At(table, id))
  <1>1. id \in CallIds /\ (next_web_call_id # 0 => id = next_web_call_id)
    BY WebIds DEF WebInv, WebTypeOK, Skipped
  <1>2. PICK n \in 0..MaxQuestions : Numbered(n) BY DEF WebInv
  <1>3. q = n + 1
    <2>1. Cardinality(Asked) = n BY <1>2, WebIds, FS_Interval DEF Numbered
    <2> QED BY <2>1 DEF Ask
  <1>4. page[q].kind = "none" BY <1>2, <1>3, WebIds DEF Numbered, Asked
  <1>5. <<id, q>> \in Pairs BY <1>1 DEF Pairs
  <1>6. PICK lost \in {{}, old} :
          /\ leaked' = IF kind = "handler" THEN leaked \cup lost ELSE leaked
          /\ page' = [r \in Questions |->
                        CASE r = q -> [NotAsked EXCEPT !.kind = kind]
                          [] r \in old \ leaked' -> [page[r] EXCEPT !.disposed = @ + 1]
                          [] OTHER -> page[r]]
    BY DEF Ask
  <1>7. next_web_call_id' = (id + 1) % IdCount /\ NotifyWebEvent(<<id, q>>) /\
        UNCHANGED <<player, delegate, tasks, listening>>
    BY DEF Ask, IdCount
  <1>8. \A r : r \in old <=> \E p \in table : p[1] = id /\ p[2] = r BY DEF AskedIn, At
  <1>9. \A r \in old : Waits(r) /\ r \in Questions /\ r # q /\ page[r].kind # "none" /\
        ~Queued(r) /\ AnswersTo(r) = 0 /\ r \notin leaked
    <2> TAKE r \in old
    <2>1. PICK p \in table : p[1] = id /\ p[2] = r BY <1>8
    <2>2. p \in replies \cup decisions /\ Waits(r) BY <2>1 DEF Waits
    <2>3. r \in Questions BY <2>1, <2>2, WebTypes DEF Pairs
    <2>4. page[r].kind # "none" BY <2>1, <2>2 DEF WebInv, TablesOK
    <2>5. Settled(r) BY <2>3 DEF WebInv
    <2> QED BY <1>4, <2>2, <2>3, <2>4, <2>5 DEF Settled
  <1>10. \A r \in Questions : Waits(r)' <=> r = q \/ (Waits(r) /\ r \notin old)
    <2> TAKE r \in Questions
    <2>1. \A p, s \in replies \cup decisions : p[2] = s[2] => p = s
      BY DEF WebInv, TablesOK, WaitingOnce
    <2>2. ASSUME Waits(r)', r # q PROVE Waits(r) /\ r \notin old
      <3>1. PICK p \in replies' \cup decisions' : p[2] = r BY <2>2 DEF Waits
      <3>2. p # <<id, q>> BY <2>2, <3>1
      <3>3. p \in replies \cup decisions /\ (p \in table => p[1] # id) BY <3>1, <3>2
      <3>4. r \notin old BY <1>8, <2>1, <3>1, <3>3
      <3> QED BY <3>1, <3>3, <3>4 DEF Waits
    <2>3. ASSUME r = q \/ (Waits(r) /\ r \notin old) PROVE Waits(r)'
      <3>1. CASE r = q
        <4>1. <<id, q>> \in replies' \cup decisions' /\ <<id, q>>[2] = r BY <3>1
        <4> QED BY <4>1 DEF Waits
      <3>2. CASE Waits(r) /\ r \notin old
        <4>1. PICK p \in replies \cup decisions : p[2] = r BY <3>2 DEF Waits
        <4>2. p \in table => p[1] # id BY <1>8, <3>2, <4>1
        <4> QED BY <4>1, <4>2 DEF Waits
      <3> QED BY <2>3, <3>1, <3>2
    <2> QED BY <2>2, <2>3
  <1> DEFINE gone == leaked' \ leaked
  <1>11. gone \subseteq old /\ leaked' = leaked \cup gone BY <1>6
  <1>12. page \in [Questions -> Pages] BY WebTypes
  <1> HIDE DEF old, gone
  <1>13. /\ page'[q].kind = kind /\ page'[q].app = 0 /\ page'[q].disposed = 0 /\
            ~page'[q].mixed /\ page'[q] \in Pages
         /\ \A r \in Questions : r # q /\ r \in old \ leaked' =>
            page'[r] = [page[r] EXCEPT !.disposed = @ + 1]
         /\ \A r \in Questions : r # q /\ r \notin old \ leaked' => page'[r] = page[r]
    <2>1. \A r \in Questions : page'[r] =
            CASE r = q -> [NotAsked EXCEPT !.kind = kind]
              [] r \in old \ leaked' -> [page[r] EXCEPT !.disposed = @ + 1]
              [] OTHER -> page[r]
      BY <1>6
    <2>2. \A r \in Questions : r # q /\ r \in old \ leaked' =>
          page'[r] = [page[r] EXCEPT !.disposed = @ + 1]
      BY <2>1
    <2>3. \A r \in Questions : r # q /\ r \notin old \ leaked' => page'[r] = page[r] BY <2>1
    <2>4. q \notin old BY <1>9
    <2>5. page'[q] = [NotAsked EXCEPT !.kind = kind] BY <2>1, <2>4
    <2>6. kind \in {"handler", "navigation", "window"} OBVIOUS
    <2> QED BY <2>2, <2>3, <2>5, <2>6, AskedIs
  <1>14. \A r \in Questions : r # q /\ r \in old \ leaked' =>
            /\ page'[r] \in Pages /\ page'[r].kind = page[r].kind
            /\ page'[r].app + page'[r].disposed = page[r].app + page[r].disposed + 1
            /\ page'[r].mixed = page[r].mixed
    <2> SUFFICES ASSUME NEW r \in Questions, NEW x \in Pages, NEW y,
                        y = [x EXCEPT !.disposed = @ + 1]
                 PROVE /\ y \in Pages /\ y.kind = x.kind
                       /\ y.app + y.disposed = x.app + x.disposed + 1
                       /\ y.mixed = x.mixed
      BY <1>12, <1>13
    <2>1. y \in Pages /\ y.kind = x.kind /\ y.mixed = x.mixed BY DEF Pages
    <2>2. y.app + y.disposed = x.app + x.disposed + 1 BY DEF Pages
    <2> QED BY <2>1, <2>2
  <1>15. page' \in [Questions -> Pages]
    <2>1. \A r \in Questions : page'[r] \in Pages BY <1>12, <1>13, <1>14
    <2>2. page' = [r \in Questions |-> page'[r]] BY <1>6
    <2> QED BY <2>1, <2>2
  <1>16. \A r \in Questions : r # q => page'[r].kind = page[r].kind BY <1>13, <1>14
  <1>17. page'[q].kind = kind BY <1>13
  <1>18. ASSUME NEW r \in Questions PROVE Settled(r)'
    <2>1. Settled(r) BY DEF WebInv
    <2>2. Queued(r)' <=> Queued(r) BY <1>7 DEF Queued
    <2>3. Waits(r)' <=> r = q \/ (Waits(r) /\ r \notin old) BY <1>10
    <2>4. CASE r = q
      <3>1. ~Queued(r) /\ r \notin leaked' BY <1>4, <1>9, <1>11, <2>1, <2>4 DEF Settled
      <3>2. AnswersTo(r)' = 0 BY <1>13, <2>4 DEF AnswersTo
      <3> QED BY <1>17, <2>2, <2>3, <2>4, <3>1, <3>2 DEF Settled
    <2>5. CASE r # q /\ r \in old \ leaked'
      <3>1. AnswersTo(r)' = 1 BY <1>9, <1>14, <2>5 DEF AnswersTo
      <3> QED BY <1>9, <1>16, <2>2, <2>3, <2>5, <3>1 DEF Settled
    <2>6. CASE r \in old /\ r \in leaked'
      <3>1. r # q BY <1>9, <2>6
      <3> QED BY <1>9, <1>16, <2>2, <2>3, <2>6, <3>1 DEF Settled
    <2>7. CASE r # q /\ r \notin old
      <3>1. page'[r] = page[r] /\ AnswersTo(r)' = AnswersTo(r) BY <1>13, <2>7 DEF AnswersTo
      <3>2. r \in leaked' <=> r \in leaked BY <1>11, <2>7
      <3> QED BY <2>1, <2>2, <2>3, <2>7, <3>1, <3>2 DEF Settled
    <2> QED BY <2>4, <2>5, <2>6, <2>7
  <1>19. (id + 1) % IdCount = IF id + 1 = IdCount THEN 0 ELSE id + 1 BY <1>1, WebMod
  <1>20. next_web_call_id' \in 0..IdCount - 1 BY <1>1, <1>7, <1>19, WebIds
  <1>21. event' \in Pairs \cup {<<>>} /\ app' \in SUBSET Pairs /\ event' \in {event, <<id, q>>}
         /\ \A p \in app' : p \in app \/ p = <<id, q>>
    BY <1>5, <1>7, NotifyKeeps
  <1>22. Asked' = 1..n + 1 /\ n + 1 \in 0..MaxQuestions
    <2>1. \A r \in Questions : page'[r].kind # "none" <=> page[r].kind # "none" \/ r = q
      BY <1>4, <1>16, <1>17
    <2>2. \A r : r \in 1..n <=> r \in Questions /\ page[r].kind # "none"
      BY <1>2 DEF Numbered, Asked
    <2>3. n + 1 \in 0..MaxQuestions /\ \A r : r \in 1..n + 1 <=> r \in 1..n \/ r = n + 1
      BY <1>3, WebIds DEF Questions
    <2>4. \A r : r \in Asked' <=> r \in 1..n + 1 BY <1>3, <2>1, <2>2, <2>3 DEF Asked
    <2> QED BY <2>3, <2>4
  <1>23. ASSUME n + 1 < IdCount PROVE InStep(n + 1)'
    <2>1. InStep(n) BY <1>2, <1>23, WebIds DEF Numbered
    <2>2. id = n + 1 BY <1>1, <1>23, <2>1 DEF InStep
    <2>3. next_web_call_id' = IF (n + 1) + 1 = IdCount THEN 0 ELSE (n + 1) + 1
      BY <1>7, <1>19, <2>2
    <2>4. Own(<<id, q>>) BY <1>3, <2>2 DEF Own
    <2>5. \A p \in replies' \cup decisions' \cup app' : Own(p) BY <1>21, <2>1, <2>4 DEF InStep
    <2>6. event' # <<>> => Own(event') BY <1>21, <2>1, <2>4 DEF InStep
    <2>7. \A i \in DOMAIN tasks' : ~tasks'[i].mixed BY <1>7, <2>1 DEF InStep
    <2>8. \A r \in Questions : ~page'[r].mixed
      <3>1. \A r \in Questions : ~page[r].mixed BY <2>1 DEF InStep
      <3>2. ~page'[q].mixed BY <1>13
      <3> QED BY <1>13, <1>14, <3>1, <3>2
    <2> QED BY <2>3, <2>5, <2>6, <2>7, <2>8 DEF InStep
  <1>24. Numbered(n + 1)' BY <1>22, <1>23 DEF Numbered
  <1> QED BY <1>4, <1>5, <1>11, <1>15, <1>16, <1>17, <1>18, <1>20, <1>21, <1>22, <1>24,
          <1>9 DEF WebInv, WebTypeOK

(* The page calls a handler.                                               *)
LEMMA OnWebHandlerCallStep ==
  ASSUME WebInv, NEW q \in Questions, OnWebHandlerCall(q)
  PROVE  WebInv'
  <1> DEFINE id == Skipped(next_web_call_id)
  <1>1. Ask(q, "handler", replies) /\ replies' = Put(replies, q) /\ UNCHANGED decisions
    BY DEF OnWebHandlerCall
  <1>2. /\ replies' = {p \in replies : p[1] # id} \cup {<<id, q>>}
        /\ UNCHANGED <<player, delegate, tasks, listening>>
    BY <1>1 DEF Put, Ask
  <1>3. \A p \in decisions : p \notin replies BY DEF WebInv, TablesOK
  <1>4. replies' \cup decisions' =
        {p \in replies \cup decisions : p \in replies => p[1] # id} \cup {<<id, q>>}
    BY <1>1, <1>2, <1>3
  <1>5. /\ page' \in [Questions -> Pages] /\ next_web_call_id' \in 0..IdCount - 1
        /\ leaked' \in SUBSET Questions /\ event' \in Pairs \cup {<<>>} /\ app' \in SUBSET Pairs
        /\ <<id, q>> \in Pairs
        /\ page[q].kind = "none" /\ page'[q].kind = "handler"
        /\ \A r \in Questions : r # q => page'[r].kind = page[r].kind
        /\ \A r \in Questions : Settled(r)'
        /\ \E n \in 0..MaxQuestions : Numbered(n)'
    BY <1>1, <1>4, Asking
  <1>6. \A p \in replies \cup decisions : p[2] \in Questions /\ p[2] # q
    <2>1. \A p \in replies \cup decisions : p[2] \in Questions BY WebTypes DEF Pairs
    <2> QED BY <1>5, <2>1 DEF WebInv, TablesOK
  <1>7. TablesOK'
    <2>1. \A p \in replies' : p \in replies \/ p = <<id, q>> BY <1>2
    <2>2. <<id, q>>[2] = q OBVIOUS
    <2>3. WaitingOnce(replies') BY <1>6, <2>1, <2>2 DEF WaitingOnce, WebInv, TablesOK
    <2>4. WaitingOnce(decisions') BY <1>1 DEF WebInv, TablesOK
    <2>5. \A p \in replies' : page'[p[2]].kind = "handler"
      BY <1>5, <1>6, <2>1, <2>2 DEF WebInv, TablesOK
    <2>6. \A p \in decisions' : page'[p[2]].kind \in {"navigation", "window"}
      BY <1>1, <1>5, <1>6 DEF WebInv, TablesOK
    <2> QED BY <2>3, <2>4, <2>5, <2>6 DEF TablesOK, WaitingOnce
  <1>8. WebTypeOK' BY <1>1, <1>2, <1>5 DEF WebInv, WebTypeOK
  <1>9. TasksOnce' /\ ViewOK'
    <2>1. Viewed BY <1>1 DEF Ask
    <2> QED BY <1>2, <2>1 DEF WebInv, TasksOnce, ViewOK, Queued, Viewed
  <1> QED BY <1>5, <1>7, <1>8, <1>9 DEF WebInv

(* The page wants to navigate or to open a window.                         *)
LEMMA OnWebDecidePolicyStep ==
  ASSUME WebInv, NEW q \in Questions, OnWebDecidePolicy(q)
  PROVE  WebInv'
  <1> DEFINE id == Skipped(next_web_call_id)
  <1>1. PICK kind \in {"navigation", "window"} : Ask(q, kind, decisions)
    BY DEF OnWebDecidePolicy
  <1>2. /\ decisions' = {p \in decisions : p[1] # id} \cup {<<id, q>>} /\ UNCHANGED replies
        /\ UNCHANGED <<player, delegate, tasks, listening>>
    BY <1>1 DEF Put, Ask, OnWebDecidePolicy
  <1>3. \A p \in decisions : p \notin replies BY DEF WebInv, TablesOK
  <1>4. replies' \cup decisions' =
        {p \in replies \cup decisions : p \in decisions => p[1] # id} \cup {<<id, q>>}
    BY <1>2, <1>3
  <1>5. /\ page' \in [Questions -> Pages] /\ next_web_call_id' \in 0..IdCount - 1
        /\ leaked' \in SUBSET Questions /\ event' \in Pairs \cup {<<>>} /\ app' \in SUBSET Pairs
        /\ <<id, q>> \in Pairs
        /\ page[q].kind = "none" /\ page'[q].kind = kind
        /\ \A r \in Questions : r # q => page'[r].kind = page[r].kind
        /\ \A r \in Questions : Settled(r)'
        /\ \E n \in 0..MaxQuestions : Numbered(n)'
    <2>1. kind \in {"handler", "navigation", "window"} OBVIOUS
    <2> QED BY <1>1, <1>4, <2>1, Asking
  <1>6. \A p \in replies \cup decisions : p[2] \in Questions /\ p[2] # q
    <2>1. \A p \in replies \cup decisions : p[2] \in Questions BY WebTypes DEF Pairs
    <2> QED BY <1>5, <2>1 DEF WebInv, TablesOK
  <1>7. TablesOK'
    <2>1. \A p \in decisions' : p \in decisions \/ p = <<id, q>> BY <1>2
    <2>2. <<id, q>>[2] = q OBVIOUS
    <2>3. WaitingOnce(decisions') BY <1>6, <2>1, <2>2 DEF WaitingOnce, WebInv, TablesOK
    <2>4. WaitingOnce(replies') BY <1>2 DEF WebInv, TablesOK
    <2>5. \A p \in replies' : page'[p[2]].kind = "handler"
      BY <1>2, <1>5, <1>6 DEF WebInv, TablesOK
    <2>6. \A p \in decisions' : page'[p[2]].kind \in {"navigation", "window"}
      BY <1>5, <1>6, <2>1, <2>2 DEF WebInv, TablesOK
    <2> QED BY <2>3, <2>4, <2>5, <2>6 DEF TablesOK, WaitingOnce
  <1>8. WebTypeOK' BY <1>2, <1>5 DEF WebInv, WebTypeOK
  <1>9. TasksOnce' /\ ViewOK'
    <2>1. Viewed BY <1>1 DEF Ask
    <2> QED BY <1>2, <2>1 DEF WebInv, TasksOnce, ViewOK, Queued, Viewed
  <1> QED BY <1>5, <1>7, <1>8, <1>9 DEF WebInv

(* Every step of the questions keeps the invariant.                        *)
LEMMA WebStep == WebInv /\ [WebNext]_webVars => WebInv'
  <1> SUFFICES ASSUME WebInv, [WebNext]_webVars PROVE WebInv' OBVIOUS
  <1>1. CASE UNCHANGED webVars
    <2>1. WebTypeOK' /\ ViewOK' BY <1>1 DEF webVars, WebInv, WebTypeOK, ViewOK, Queued
    <2> QED BY <1>1, <2>1, WebQuiet DEF webVars, InStep
  <1>2. CASE WebNext
    BY <1>2, OnWebHandlerCallStep, OnWebDecidePolicyStep, OtherEventStep, WebListenStep,
       WebCancelStep, RespondStep, RunTaskStep, WebDeinitStep, GstplayerDestroyStep DEF WebNext
  <1> QED BY <1>1, <1>2

(* Every question is in one place, and has the id of its number while      *)
(* there are ids for all: the inductive invariant, for any number of       *)
(* questions, any width of the ids and any length of the task queue.       *)
THEOREM WebCallsCorrect == WebSpec => []WebInv
BY WebInitial, WebStep, PTL DEF WebSpec

(* Whatever is asked, answered, answered again after a replay, closed or   *)
(* run out of ids, a question gets one answer, its own as long as there    *)
(* are ids for all (gstplayer_web_respond_to_handler,                      *)
(* gstplayer_web_respond_to_navigation, gstplayer_destroy).                *)
THEOREM EveryQuestionAnsweredOnce == WebSpec => []QuestionsAnsweredOnce
BY WebTheEnd, WebCallsCorrect, PTL
=============================================================================
