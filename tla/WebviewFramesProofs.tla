------------------------- MODULE WebviewFramesProofs -------------------------
(***************************************************************************)
(* Theorems about WebviewFrames for any number of frames and any set of    *)
(* WebKit buffers.                                                         *)
(***************************************************************************)
EXTENDS WebviewFrames, FiniteSetTheorems, SequenceTheorems, TLAPS

One(b) == IF b THEN 1 ELSE 0

Callbacks == listening \cup taken \cup posted
Places == {0} \cup Frames \cup {NoRequest}

ControlTypeOK ==
    /\ pc \in {"loop", "present", "wait", "repaint"} /\ cur \in {0} \cup Frames
    /\ frames \in {0} \cup Frames /\ waiting \in {0} \cup Frames
    /\ onscreen \in BOOLEAN /\ timer \in BOOLEAN
    /\ view \in {"open", "closed", "dropped"} /\ scanout \in BOOLEAN
PlacesTypeOK ==
    /\ nextBuf \in {0, Copied} \cup Frames
    /\ building \in Places /\ mailbox \in Places /\ flight \in Places /\ screen \in Places
CountsTypeOK ==
    /\ tokens \in [Frames -> Nat] /\ vrefs \in Nat /\ holds \in [Frames -> Nat]
    /\ rendered \in [Frames -> Nat] /\ released \in [Frames -> Nat]
    /\ listening \subseteq Frames /\ taken \subseteq Frames /\ posted \subseteq Frames
    /\ releases \subseteq Frames /\ why \in [Frames -> Causes]
WebTypeOK == ControlTypeOK /\ PlacesTypeOK /\ CountsTypeOK

(* Where render_buffer is: it runs for an open view only, and has finished *)
(* the frame before until it registers the new one.                        *)
Rendering == pc \in {"present", "wait"}
ControlOK ==
    /\ pc # "loop" => view = "open" /\ cur = frames /\ cur # 0
    /\ Rendering => waiting = 0
    /\ pc = "repaint" => waiting = cur
    /\ pc = "present" => ~onscreen
    /\ pc = "wait" /\ onscreen => nextBuf = cur
    /\ waiting # 0 => view = "open" /\ waiting <= frames
    /\ waiting # 0 /\ onscreen => nextBuf = waiting
    /\ waiting = 0 /\ pc = "loop" => ~onscreen

(* A frame that has left render_buffer's hands.                            *)
Seen(f) == f <= frames /\ ~(Rendering /\ f = cur)

(* Only the waiting frame's callback is still registered, a frame has one  *)
(* callback, and it was called before it was put on the context.           *)
CallbacksOK ==
    /\ listening \subseteq {waiting}
    /\ listening \cap taken = {} /\ listening \cap posted = {} /\ taken \cap posted = {}
    /\ posted \subseteq called
    /\ \A f \in Callbacks : Seen(f)

(* The tokens and the view's state are counted.                            *)
TokensExact == \A f \in Frames : tokens[f] = One(waiting = f) + One(f \in Callbacks)
ViewCounted == vrefs = Cardinality({f \in Frames : tokens[f] > 0}) + One(view # "dropped")

(* The framebuffers are counted, and only a frame that has been put on the *)
(* plane is held.                                                          *)
HoldsExact ==
    \A f \in Frames :
        holds[f] = One(nextBuf = f) + One(building = f) + One(mailbox = f) + One(flight = f)
                   + One(screen = f)
HeldOnscreen ==
    \A f \in Frames : holds[f] > 0 =>
        f <= frames /\ (f = waiting \/ (Rendering /\ f = cur) => onscreen)

(* What WebKit was told of a frame follows from where the frame is: it is  *)
(* rendered once it has been seen and does not wait, and its buffer is     *)
(* back once nothing holds it and no release is on its way.                *)
RenderedExact == \A f \in Frames : rendered[f] = One(Seen(f) /\ f # waiting)
ReleasedExact ==
    \A f \in Frames :
        released[f] = One(rendered[f] = 1 /\ holds[f] = 0 /\ f \notin releases)
ReleasesOK == \A f \in releases : rendered[f] = 1 /\ holds[f] = 0
FlipsCalled == \A f \in Frames : why[f] = "flip" => f \in called

WebInv ==
    /\ WebTypeOK /\ ControlOK /\ CallbacksOK /\ TokensExact /\ ViewCounted
    /\ HoldsExact /\ HeldOnscreen /\ RenderedExact /\ ReleasedExact /\ ReleasesOK /\ FlipsCalled

-----------------------------------------------------------------------------
(* Frames are numbered from one; no place without a frame is one of them.  *)
LEMMA FrameNumbers ==
    /\ Frames \subseteq Nat /\ 0 \notin Frames /\ NoRequest \notin Frames /\ Copied \notin Frames
    /\ NoRequest # 0 /\ IsFiniteSet(Frames)
    /\ \A n \in {0} \cup Frames : n < MaxFrames => n + 1 \in Frames
<1>1. IsFiniteSet(Frames)
    BY FS_Interval, MaxFramesAssumption DEF Frames
<1> QED
    BY <1>1, MaxFramesAssumption DEF Frames, NoRequest, Copied

(* Counting one element.                                                   *)
LEMMA OneMember == ASSUME NEW f, NEW S PROVE Cardinality({f} \cap S) = One(f \in S)
<1>1. CASE f \in S
    <2>1. {f} \cap S = {f}
        BY <1>1
    <2> QED
        BY <1>1, <2>1, FS_Singleton DEF One
<1>2. CASE f \notin S
    <2>1. {f} \cap S = {}
        BY <1>2
    <2> QED
        BY <1>2, <2>1, FS_EmptySet DEF One
<1> QED
    BY <1>1, <1>2

(* The references in at most two places, as they are added.                *)
LEMMA RefsInNoPlace == ASSUME NEW f PROVE Refs(f, <<>>) = 0
<1>1. {i \in DOMAIN <<>> : <<>>[i] = f} = {}
    OBVIOUS
<1> QED
    BY <1>1, FS_EmptySet DEF Refs

LEMMA RefsInOnePlace == ASSUME NEW f, NEW a PROVE Refs(f, <<a>>) = One(a = f)
<1>1. {i \in DOMAIN <<a>> : <<a>>[i] = f} = IF a = f THEN {1} ELSE {}
    OBVIOUS
<1> QED
    BY <1>1, FS_EmptySet, FS_Singleton DEF Refs, One

LEMMA RefsInTwoPlaces ==
    ASSUME NEW f, NEW a, NEW b PROVE Refs(f, <<a, b>>) = One(a = f) + One(b = f)
<1> DEFINE A == IF a = f THEN {1} ELSE {}
<1>1. {i \in DOMAIN <<a, b>> : <<a, b>>[i] = f} = IF b = f THEN A \cup {2} ELSE A
    OBVIOUS
<1>2. IsFiniteSet(A) /\ Cardinality(A) = One(a = f) /\ 2 \notin A
    BY FS_EmptySet, FS_Singleton DEF One
<1>3. Cardinality(A \cup {2}) = Cardinality(A) + 1
    <2> HIDE DEF A
    <2> QED
        BY <1>2, FS_AddElement
<1> HIDE DEF A
<1> QED
    BY <1>1, <1>2, <1>3 DEF Refs, One

LEMMA PlacesJoined == ASSUME NEW a, NEW b PROVE <<>> \o <<b>> = <<b>> /\ <<a>> \o <<b>> = <<a, b>>
<1> DEFINE q == <<a>> \o <<b>>
<1>1. /\ <<a>> \in Seq({a, b}) /\ <<b>> \in Seq({a, b})
      /\ Len(<<a>>) = 1 /\ Len(<<b>>) = 1 /\ <<a>>[1] = a /\ <<b>>[1] = b
    OBVIOUS
<1>2. /\ q \in Seq({a, b}) /\ Len(q) = Len(<<a>>) + Len(<<b>>)
      /\ \A i \in 1 .. Len(<<a>>) + Len(<<b>>) :
            q[i] = IF i <= Len(<<a>>) THEN <<a>>[i] ELSE <<b>>[i - Len(<<a>>)]
    BY <1>1, ConcatProperties
<1>3. q = <<a, b>>
    <2> HIDE DEF q
    <2>1. q \in Seq({a, b}) /\ Len(q) = 2 /\ q[1] = a /\ q[2] = b
        BY <1>1, <1>2
    <2> QED
        BY <2>1
<1>4. <<>> \o <<b>> = <<b>>
    BY <1>1, ConcatEmptySeq
<1> QED
    BY <1>3, <1>4

(* The order of the places does not matter, so five are counted as one     *)
(* after the other.                                                        *)
LEMMA RefsInAllPlaces ==
    ASSUME NEW f, NEW a, NEW b, NEW c, NEW d, NEW e
    PROVE  Refs(f, <<a, b, c, d, e>>)
           = One(a = f) + One(b = f) + One(c = f) + One(d = f) + One(e = f)
<1> DEFINE A == IF a = f THEN {1} ELSE {}
           B == IF b = f THEN A \cup {2} ELSE A
           C == IF c = f THEN B \cup {3} ELSE B
           D == IF d = f THEN C \cup {4} ELSE C
           E == IF e = f THEN D \cup {5} ELSE D
<1>1. IsFiniteSet(A) /\ Cardinality(A) = One(a = f) /\ A \subseteq {1}
    BY FS_EmptySet, FS_Singleton DEF One
<1>2. IsFiniteSet(B) /\ Cardinality(B) = One(a = f) + One(b = f) /\ B \subseteq {1, 2}
    <2> HIDE DEF A
    <2> QED
        BY <1>1, FS_AddElement DEF One
<1>3. IsFiniteSet(C) /\ Cardinality(C) = One(a = f) + One(b = f) + One(c = f) /\ C \subseteq {1, 2, 3}
    <2> HIDE DEF B
    <2> QED
        BY <1>2, FS_AddElement DEF One
<1>4. /\ IsFiniteSet(D) /\ D \subseteq {1, 2, 3, 4}
      /\ Cardinality(D) = One(a = f) + One(b = f) + One(c = f) + One(d = f)
    <2> HIDE DEF C
    <2> QED
        BY <1>3, FS_AddElement DEF One
<1>5. Cardinality(E) = One(a = f) + One(b = f) + One(c = f) + One(d = f) + One(e = f)
    <2> HIDE DEF D
    <2> QED
        BY <1>4, FS_AddElement DEF One
<1>6. {i \in DOMAIN <<a, b, c, d, e>> : <<a, b, c, d, e>>[i] = f} = E
    OBVIOUS
<1> HIDE DEF E
<1> QED
    BY <1>5, <1>6 DEF Refs

(* DropTokens gives up one reference of each frame in each set; a view's   *)
(* state is referenced once less for each token that is freed.             *)
LEMMA DropTokensEffect ==
    ASSUME tokens \in [Frames -> Nat], vrefs \in Nat, NEW n \in Nat,
           vrefs = Cardinality({f \in Frames : tokens[f] > 0}) + n,
           NEW S \in SUBSET Frames, NEW S2 \in SUBSET Frames,
           \A f \in Frames : tokens[f] >= One(f \in S) + One(f \in S2),
           DropTokens(S, S2)
    PROVE  /\ tokens' \in [Frames -> Nat] /\ vrefs' \in Nat
           /\ \A f \in Frames : tokens'[f] = tokens[f] - One(f \in S) - One(f \in S2)
           /\ vrefs' = Cardinality({f \in Frames : tokens'[f] > 0}) + n
<1> DEFINE A == {f \in Frames : tokens[f] > 0}
           B == {f \in Frames : tokens'[f] > 0}
           L == {f \in S \cup S2 : tokens'[f] = 0}
<1>1. /\ tokens' = [f \in Frames |-> tokens[f] - One(f \in S) - One(f \in S2)]
      /\ vrefs' = vrefs - Cardinality(L)
    BY OneMember DEF DropTokens
<1>2. tokens' \in [Frames -> Nat]
    BY <1>1 DEF One
<1>3. \A f \in Frames : tokens'[f] = tokens[f] - One(f \in S) - One(f \in S2)
    BY <1>1
<1>4. B = A \ L /\ L \subseteq A
    BY <1>2, <1>3 DEF One
<1>5. IsFiniteSet(A) /\ IsFiniteSet(L) /\ IsFiniteSet(B)
    BY <1>4, FrameNumbers, FS_Subset
<1>6. A = B \cup L /\ B \cap L = {}
    BY <1>4
<1>7. Cardinality(A) = Cardinality(B) + Cardinality(L)
    <2> HIDE DEF A, B, L
    <2>1. Cardinality(B \cup L) = Cardinality(B) + Cardinality(L) - Cardinality(B \cap L)
        BY <1>5, FS_Union
    <2>2. Cardinality(B \cap L) = 0
        BY <1>6, FS_EmptySet
    <2>3. Cardinality(B) \in Nat /\ Cardinality(L) \in Nat
        BY <1>5, FS_CardinalityType
    <2>4. Cardinality(A) = Cardinality(B \cup L)
        BY <1>6
    <2> QED
        BY <2>1, <2>2, <2>3, <2>4
<1>8. Cardinality(B) \in Nat /\ Cardinality(L) \in Nat
    BY <1>5, FS_CardinalityType
<1> HIDE DEF L
<1> QED
    BY <1>1, <1>2, <1>3, <1>7, <1>8

-----------------------------------------------------------------------------
LEMMA WebInitially == Init => WebInv
<1> SUFFICES ASSUME Init PROVE WebInv
    OBVIOUS
<1>1. WebTypeOK
    BY FrameNumbers DEF Init, WebTypeOK, ControlTypeOK, PlacesTypeOK, CountsTypeOK, Places,
       Causes
<1>2. /\ ControlOK /\ CallbacksOK /\ TokensExact /\ HoldsExact /\ HeldOnscreen /\ RenderedExact
      /\ ReleasedExact /\ ReleasesOK /\ FlipsCalled
    BY FrameNumbers DEF Init, ControlOK, CallbacksOK, TokensExact, HoldsExact, HeldOnscreen,
       RenderedExact, ReleasedExact, ReleasesOK, FlipsCalled, Seen, Rendering, Callbacks, One
<1>3. ViewCounted
    <2>1. {f \in Frames : tokens[f] > 0} = {}
        BY DEF Init
    <2> QED
        BY <2>1, FS_EmptySet DEF Init, ViewCounted, One
<1> QED
    BY <1>1, <1>2, <1>3 DEF WebInv

(* What becomes of the frame that waits when it is finished, and of the    *)
(* callbacks S of it that the caller finishes with.                        *)
LEMMA FinishEffect ==
    ASSUME WebInv, NEW cause \in Causes, NEW S \in SUBSET posted,
           S \subseteq {waiting}, FinishWaitingFrame(cause, S)
    PROVE  /\ waiting' = 0 /\ onscreen' = FALSE /\ timer' = FALSE /\ listening' = {}
           /\ tokens' \in [Frames -> Nat] /\ vrefs' \in Nat
           /\ \A f \in Frames : tokens'[f] = One(f \in (taken \cup posted) \ S)
           /\ vrefs' = Cardinality({f \in Frames : tokens'[f] > 0}) + One(view # "dropped")
           /\ rendered' \in [Frames -> Nat] /\ released' \in [Frames -> Nat]
           /\ \A f \in Frames :
                /\ rendered'[f] = rendered[f] + One(f = waiting)
                /\ released'[f] = released[f] + One(f = waiting /\ ~onscreen)
                /\ why'[f] = IF f = waiting THEN cause ELSE why[f]
           /\ why' \in [Frames -> Causes]
<1>0. /\ ControlTypeOK /\ CountsTypeOK /\ CallbacksOK /\ TokensExact /\ ViewCounted
    BY DEF WebInv, WebTypeOK
<1> DEFINE C == Waiting \cap listening
           R == IF onscreen THEN {} ELSE Waiting
<1>1. Waiting \subseteq Frames /\ (\A f \in Frames : f \in Waiting <=> f = waiting)
    BY <1>0, FrameNumbers DEF Waiting, ControlTypeOK
<1>2. /\ listening' = listening \ Waiting /\ DropTokens(Waiting, C \cup S)
      /\ waiting' = 0 /\ onscreen' = FALSE /\ timer' = FALSE
      /\ rendered' = [f \in Frames |-> rendered[f] + One(f \in Waiting)]
      /\ released' = [f \in Frames |-> released[f] + One(f \in R)]
      /\ why' = [f \in Frames |-> IF f \in Waiting THEN cause ELSE why[f]]
    BY OneMember DEF FinishWaitingFrame, HandBack
<1>3. listening' = {}
    BY <1>0, <1>1, <1>2 DEF CallbacksOK, CountsTypeOK
<1>4. \A f \in Frames :
        tokens[f] - One(f \in Waiting) - One(f \in C \cup S) = One(f \in (taken \cup posted) \ S)
    BY <1>0, <1>1 DEF TokensExact, Callbacks, CallbacksOK, One
<1>5. \A f \in Frames : tokens[f] >= One(f \in Waiting) + One(f \in C \cup S)
    BY <1>0, <1>1 DEF TokensExact, Callbacks, CallbacksOK, One
<1>6. C \cup S \in SUBSET Frames
    BY <1>0, <1>1 DEF CountsTypeOK
<1>7. /\ tokens' \in [Frames -> Nat] /\ vrefs' \in Nat
      /\ \A f \in Frames : tokens'[f] = tokens[f] - One(f \in Waiting) - One(f \in C \cup S)
      /\ vrefs' = Cardinality({f \in Frames : tokens'[f] > 0}) + One(view # "dropped")
    <2> DEFINE n == One(view # "dropped")
    <2>1. n \in Nat /\ vrefs = Cardinality({f \in Frames : tokens[f] > 0}) + n
        BY <1>0 DEF ViewCounted, One
    <2> HIDE DEF n, C
    <2>2. tokens \in [Frames -> Nat] /\ vrefs \in Nat
        BY <1>0 DEF CountsTypeOK
    <2>3. /\ tokens' \in [Frames -> Nat] /\ vrefs' \in Nat
          /\ \A f \in Frames : tokens'[f] = tokens[f] - One(f \in Waiting) - One(f \in C \cup S)
          /\ vrefs' = Cardinality({f \in Frames : tokens'[f] > 0}) + n
        BY <1>1, <1>2, <1>5, <1>6, <2>1, <2>2, DropTokensEffect
    <2> QED
        BY <2>3 DEF n
<1>8. \A f \in Frames : tokens'[f] = One(f \in (taken \cup posted) \ S)
    BY <1>4, <1>7
<1>9. rendered' \in [Frames -> Nat] /\ released' \in [Frames -> Nat] /\ why' \in [Frames -> Causes]
    BY <1>0, <1>2 DEF CountsTypeOK, One
<1>10. \A f \in Frames :
        /\ rendered'[f] = rendered[f] + One(f = waiting)
        /\ released'[f] = released[f] + One(f = waiting /\ ~onscreen)
        /\ why'[f] = IF f = waiting THEN cause ELSE why[f]
    BY <1>1, <1>2 DEF One
<1> QED
    BY <1>2, <1>3, <1>7, <1>8, <1>9, <1>10

(* The whole step in which the waiting frame is finished, when the frames  *)
(* that were seen, the framebuffers and the releases on their way stay.    *)
LEMMA FinishStep ==
    ASSUME WebInv, NEW cause \in Causes, NEW S \in SUBSET posted, S \subseteq {waiting},
           FinishWaitingFrame(cause, S),
           taken' = taken, posted' = posted \ S, holds' = holds, releases' = releases,
           called \subseteq called', cause = "flip" => waiting \in called' \cup {0},
           \A f \in Frames : Seen(f)' <=> Seen(f),
           view' = "dropped" <=> view = "dropped"
    PROVE  /\ waiting' = 0 /\ onscreen' = FALSE /\ timer' = FALSE
           /\ CountsTypeOK' /\ CallbacksOK' /\ TokensExact' /\ ViewCounted' /\ RenderedExact'
           /\ ReleasedExact' /\ ReleasesOK' /\ FlipsCalled'
<1>0. /\ ControlTypeOK /\ CountsTypeOK /\ ControlOK /\ CallbacksOK /\ HoldsExact /\ HeldOnscreen
      /\ RenderedExact /\ ReleasedExact /\ ReleasesOK /\ FlipsCalled
    BY DEF WebInv, WebTypeOK
<1>1. /\ waiting' = 0 /\ onscreen' = FALSE /\ timer' = FALSE /\ listening' = {}
      /\ tokens' \in [Frames -> Nat] /\ vrefs' \in Nat
      /\ \A f \in Frames : tokens'[f] = One(f \in (taken \cup posted) \ S)
      /\ vrefs' = Cardinality({f \in Frames : tokens'[f] > 0}) + One(view # "dropped")
      /\ rendered' \in [Frames -> Nat] /\ released' \in [Frames -> Nat]
      /\ \A f \in Frames :
           /\ rendered'[f] = rendered[f] + One(f = waiting)
           /\ released'[f] = released[f] + One(f = waiting /\ ~onscreen)
           /\ why'[f] = IF f = waiting THEN cause ELSE why[f]
      /\ why' \in [Frames -> Causes]
    BY FinishEffect
<1>2. CountsTypeOK'
    BY <1>0, <1>1 DEF CountsTypeOK
<1>3. CallbacksOK'
    BY <1>0, <1>1 DEF CallbacksOK, CountsTypeOK, Callbacks
<1>4. TokensExact'
    <2>1. \A f \in Frames : One(f \in Callbacks') = One(f \in (taken \cup posted) \ S)
        BY <1>0, <1>1 DEF Callbacks, CallbacksOK
    <2>2. \A f \in Frames : One(waiting' = f) = 0
        BY <1>1, FrameNumbers DEF One
    <2> QED
        BY <1>1, <2>1, <2>2 DEF TokensExact, One
<1>5. ViewCounted'
    BY <1>1 DEF ViewCounted, One
<1>6. RenderedExact'
    BY <1>0, <1>1, FrameNumbers DEF RenderedExact, ControlOK, ControlTypeOK, Seen, One
<1>7. \A f \in Frames : f = waiting =>
        /\ rendered[f] = 0 /\ released[f] = 0 /\ f \notin releases
        /\ onscreen <=> holds[f] > 0
    <2> SUFFICES ASSUME NEW f \in Frames, f = waiting
                 PROVE  /\ rendered[f] = 0 /\ released[f] = 0 /\ f \notin releases
                        /\ onscreen <=> holds[f] > 0
        OBVIOUS
    <2>1. rendered[f] = 0
        BY <1>0 DEF RenderedExact, One
    <2>2. released[f] = 0 /\ f \notin releases
        BY <1>0, <2>1 DEF ReleasedExact, ReleasesOK, One
    <2>3. holds[f] > 0 => onscreen
        BY <1>0 DEF HeldOnscreen
    <2>4. onscreen => holds[f] > 0
        <3>1. onscreen => nextBuf = f
            BY <1>0, FrameNumbers DEF ControlOK
        <3> QED
            BY <1>0, <3>1 DEF HoldsExact, One
    <2>5. onscreen \in BOOLEAN
        BY <1>0 DEF ControlTypeOK
    <2> QED
        BY <2>1, <2>2, <2>3, <2>4, <2>5
<1>8. ReleasedExact' /\ ReleasesOK'
    BY <1>0, <1>1, <1>7 DEF ReleasedExact, ReleasesOK, CountsTypeOK, One
<1>9. FlipsCalled'
    BY <1>0, <1>1, FrameNumbers DEF FlipsCalled
<1> QED
    BY <1>1, <1>2, <1>3, <1>4, <1>5, <1>6, <1>8, <1>9

-----------------------------------------------------------------------------
(* A held frame has been rendered, unless it is the one on the plane that  *)
(* WebKit waits for.                                                       *)
LEMMA HeldRendered ==
    ASSUME WebInv, NEW f \in Frames, holds[f] > 0,
           f # nextBuf \/ ~onscreen
    PROVE  rendered[f] = 1
<1>0. ControlTypeOK /\ ControlOK /\ HeldOnscreen /\ RenderedExact
    BY DEF WebInv, WebTypeOK
<1> QED
    BY <1>0, FrameNumbers DEF ControlTypeOK, ControlOK, HeldOnscreen, RenderedExact, Seen,
       Rendering, One

(* References that move leave the counts of the buffers exact, whether the *)
(* last one releases the buffer later or at once.                          *)
LEMMA ReleasedLater ==
    ASSUME WebInv, holds' \in [Frames -> Nat],
           \A f \in Frames : holds'[f] > 0 => holds[f] > 0,
           \A f \in Frames : holds[f] > 0 /\ holds'[f] = 0 => rendered[f] = 1,
           releases' = releases \cup DroppedHolds, rendered' = rendered, released' = released
    PROVE  ReleasedExact' /\ ReleasesOK' /\ releases' \subseteq Frames
<1>0. CountsTypeOK /\ ReleasedExact /\ ReleasesOK
    BY DEF WebInv, WebTypeOK
<1> QED
    BY <1>0 DEF CountsTypeOK, ReleasedExact, ReleasesOK, DroppedHolds, One

LEMMA ReleasedAtOnce ==
    ASSUME WebInv, holds' \in [Frames -> Nat], NEW kept,
           \A f \in Frames : holds'[f] > 0 => holds[f] > 0 \/ f = kept,
           kept \in Frames => rendered[kept] = 0,
           \A f \in Frames : holds[f] > 0 /\ holds'[f] = 0 => rendered[f] = 1,
           releases' = releases, rendered' = rendered,
           released' = [f \in Frames |-> released[f] + Cardinality({f} \cap DroppedHolds)]
    PROVE  ReleasedExact' /\ ReleasesOK' /\ released' \in [Frames -> Nat]
<1>0. CountsTypeOK /\ ReleasedExact /\ ReleasesOK
    BY DEF WebInv, WebTypeOK
<1>1. released' = [f \in Frames |-> released[f] + One(f \in DroppedHolds)]
    BY OneMember
<1> QED
    BY <1>0, <1>1 DEF CountsTypeOK, ReleasedExact, ReleasesOK, DroppedHolds, One

(* What PresentKms shows is the next buffer, or nothing.                   *)
LEMMA PresentKmsShows ==
    ASSUME NEW shown, PresentKms(shown)
    PROVE  shown = 0 \/ (shown = nextBuf /\ shown \in Frames)
BY DEF PresentKms, Importable

(* A request that is queued, accepted or dropped takes its references with *)
(* it, and shows nothing that was not held before.                         *)
LEMMA RequestEffect ==
    ASSUME WebInv, nextBuf' = nextBuf, NEW shown \in {0} \cup Frames \cup {NoRequest}, NEW from,
           \/ from = <<>> /\ building' = building /\ (shown = 0 \/ shown = nextBuf)
           \/ from = <<building>> /\ building' = NoRequest /\ shown = building,
           Queue(shown, from) \/ Accept(shown, from) \/ Discard(from)
    PROVE  /\ PlacesTypeOK' /\ HoldsExact' /\ holds' \in [Frames -> Nat]
           /\ \A f \in Frames : holds'[f] > 0 => holds[f] > 0
           /\ \A f \in Frames : f = nextBuf => holds'[f] > 0
<1>0. PlacesTypeOK /\ CountsTypeOK /\ HoldsExact
    BY DEF WebInv, WebTypeOK
<1>1. PlacesTypeOK'
    BY <1>0 DEF PlacesTypeOK, Places, Queue, Accept, Discard
<1>2. \A f \in Frames : One(NoRequest = f) = 0 /\ One(0 = f) = 0
    BY FrameNumbers DEF One
<1> DEFINE H(f) == One(nextBuf' = f) + One(building' = f) + One(mailbox' = f) + One(flight' = f)
                   + One(screen' = f)
<1>3. /\ holds' \in [Frames -> Int]
      /\ \A f \in Frames : holds'[f] = H(f) /\ (holds'[f] > 0 => holds[f] > 0)
    <2>1. \A f \in Frames :
            holds[f] = One(nextBuf = f) + One(building = f) + One(mailbox = f) + One(flight = f)
                       + One(screen = f)
        BY <1>0 DEF HoldsExact
    <2> DEFINE R(f) == One(building = f) - One(building' = f)
    <2>2. \A f \in Frames : Refs(f, from) = R(f) /\ Refs(f, from \o <<mailbox>>) = R(f) + One(mailbox = f)
        <3> SUFFICES ASSUME NEW f \in Frames
                     PROVE  Refs(f, from) = R(f) /\ Refs(f, from \o <<mailbox>>) = R(f) + One(mailbox = f)
            OBVIOUS
        <3>1. CASE from = <<>> /\ building' = building
            <4>1. from = <<>> /\ from \o <<mailbox>> = <<mailbox>>
                BY <3>1, PlacesJoined, Zenon
            <4>2. Refs(f, from) = 0 /\ Refs(f, from \o <<mailbox>>) = One(mailbox = f)
                <5>1. Refs(f, <<>>) = 0 /\ Refs(f, <<mailbox>>) = One(mailbox = f)
                    BY RefsInNoPlace, RefsInOnePlace, ZenonT(30)
                <5> QED
                    BY <4>1, <5>1
            <4> QED
                BY <3>1, <4>2 DEF One
        <3>2. CASE from = <<building>> /\ building' = NoRequest
            <4>1. from = <<building>> /\ from \o <<mailbox>> = <<building, mailbox>>
                BY <3>2, PlacesJoined, Zenon
            <4>2. /\ Refs(f, from) = One(building = f)
                  /\ Refs(f, from \o <<mailbox>>) = One(building = f) + One(mailbox = f)
                <5>1. Refs(f, <<building>>) = One(building = f)
                    BY RefsInOnePlace, Zenon
                <5>2. Refs(f, <<building, mailbox>>) = One(building = f) + One(mailbox = f)
                    BY RefsInTwoPlaces, SMT
                <5> QED
                    BY <4>1, <5>1, <5>2
            <4> QED
                BY <3>2, <4>2, <1>2 DEF One
        <3> QED
            BY <3>1, <3>2
    <2>4. \A f \in Frames :
            /\ One(shown = f) <= One(nextBuf = f) + R(f)
            /\ One(building = f) >= One(building' = f)
        BY <1>2, FrameNumbers DEF One
    <2>5. \A f \in Frames : Refs(f, <<shown>>) = One(shown = f) /\ Refs(f, <<>>) = 0
        BY RefsInNoPlace, RefsInOnePlace, ZenonT(30)
    <2>6. holds \in [Frames -> Nat]
        BY <1>0 DEF CountsTypeOK
    <2>7. CASE Queue(shown, from)
        <3>1. holds' = [f \in Frames |-> holds[f] + Refs(f, <<shown>>) - Refs(f, from \o <<mailbox>>)]
            BY <2>7 DEF Queue, MoveHolds
        <3>2. \A f \in Frames : holds'[f] = holds[f] + One(shown = f) - R(f) - One(mailbox = f)
            <4> SUFFICES ASSUME NEW f \in Frames
                         PROVE  holds'[f] = holds[f] + One(shown = f) - R(f) - One(mailbox = f)
                OBVIOUS
            <4>1. holds'[f] = holds[f] + Refs(f, <<shown>>) - Refs(f, from \o <<mailbox>>)
                BY <3>1, Zenon
            <4>2. Refs(f, from \o <<mailbox>>) = R(f) + One(mailbox = f)
                BY <2>2, Zenon
            <4>3. Refs(f, <<shown>>) = One(shown = f)
                BY <2>5, Zenon
            <4> QED
                BY <2>6, <4>1, <4>2, <4>3 DEF One
        <3>3. mailbox' = shown /\ flight' = flight /\ screen' = screen
            BY <2>7 DEF Queue
        <3>4. DOMAIN holds' = Frames /\ holds' = [f \in Frames |-> holds'[f]]
            BY <3>1
        <3> QED
            BY <2>1, <2>4, <3>2, <3>3, <3>4 DEF One
    <2>8. CASE Accept(shown, from)
        <3>1. holds' = [f \in Frames |-> holds[f] + Refs(f, <<shown>>) - Refs(f, from)]
            BY <2>8 DEF Accept, MoveHolds
        <3>2. \A f \in Frames : holds'[f] = holds[f] + One(shown = f) - R(f)
            BY <2>2, <2>5, <2>6, <3>1 DEF One
        <3>3. mailbox' = mailbox /\ flight = NoRequest /\ flight' = shown /\ screen' = screen
            BY <2>8 DEF Accept
        <3>4. DOMAIN holds' = Frames /\ holds' = [f \in Frames |-> holds'[f]]
            BY <3>1
        <3> QED
            BY <1>2, <2>1, <2>4, <3>2, <3>3, <3>4 DEF One
    <2>9. CASE Discard(from)
        <3>1. holds' = [f \in Frames |-> holds[f] + Refs(f, <<>>) - Refs(f, from)]
            BY <2>9 DEF Discard, MoveHolds
        <3>2. \A f \in Frames : holds'[f] = holds[f] - R(f)
            BY <2>2, <2>5, <2>6, <3>1 DEF One
        <3>3. mailbox' = mailbox /\ flight' = flight /\ screen' = screen
            BY <2>9 DEF Discard
        <3>4. DOMAIN holds' = Frames /\ holds' = [f \in Frames |-> holds'[f]]
            BY <3>1
        <3> QED
            BY <2>1, <2>4, <3>2, <3>3, <3>4 DEF One
    <2> QED
        BY <2>7, <2>8, <2>9
<1>4. HoldsExact'
    BY <1>3 DEF HoldsExact
<1>5. holds' \in [Frames -> Nat] /\ (\A f \in Frames : f = nextBuf => holds'[f] > 0)
    BY <1>3 DEF One
<1> QED
    BY <1>1, <1>3, <1>4, <1>5

-----------------------------------------------------------------------------
(* The steps.                                                              *)
WebParts ==
    /\ ControlTypeOK /\ PlacesTypeOK /\ CountsTypeOK /\ ControlOK /\ CallbacksOK /\ TokensExact
    /\ ViewCounted /\ HoldsExact /\ HeldOnscreen /\ RenderedExact /\ ReleasedExact /\ ReleasesOK
    /\ FlipsCalled

LEMMA WebInvParts == WebInv <=> WebParts
BY DEF WebInv, WebParts, WebTypeOK

LEMMA RenderBufferStep == ASSUME WebInv, NEW b, RenderBuffer(b) PROVE WebInv'
<1>0. WebParts
    BY WebInvParts
<1>1. /\ pc = "loop" /\ frames' = frames + 1 /\ frames' \in Frames /\ frames \in {0} \cup Frames
      /\ UNCHANGED <<view, scanout, surfVars, pipeVars, taken, posted, releases, called>>
    BY <1>0, FrameNumbers, MaxFramesAssumption DEF WebParts, ControlTypeOK, RenderBuffer,
       Frames
<1>2. PlacesTypeOK' /\ HoldsExact'
    BY <1>0, <1>1 DEF WebParts, PlacesTypeOK, HoldsExact, surfVars, pipeVars
<1>3. CASE view = "open"
    <2>1. FinishWaitingFrame("next", {}) /\ pc' = "present" /\ cur' = frames'
        BY <1>1, <1>3 DEF RenderBuffer
    <2>2. \A f \in Frames : Seen(f)' <=> Seen(f)
        BY <1>1, <2>1, FrameNumbers DEF Seen, Rendering
    <2>3. /\ waiting' = 0 /\ onscreen' = FALSE /\ timer' = FALSE
          /\ CountsTypeOK' /\ CallbacksOK' /\ TokensExact' /\ ViewCounted' /\ RenderedExact'
          /\ ReleasedExact' /\ ReleasesOK' /\ FlipsCalled'
        BY <1>1, <2>1, <2>2, FinishStep DEF surfVars, Causes
    <2>4. ControlTypeOK' /\ ControlOK'
        BY <1>0, <1>1, <1>3, <2>1, <2>3, FrameNumbers DEF WebParts, ControlTypeOK,
           ControlOK, Rendering
    <2>5. HeldOnscreen'
        BY <1>0, <1>1, <2>1, <2>3, FrameNumbers DEF WebParts, HeldOnscreen, surfVars
    <2> QED
        BY <1>2, <2>3, <2>4, <2>5 DEF WebInv, WebTypeOK
<1>4. CASE view # "open"
    <2>1. /\ rendered' = [rendered EXCEPT ![frames + 1] = @ + 1]
          /\ released' = [released EXCEPT ![frames + 1] = @ + 1]
          /\ why' = [why EXCEPT ![frames + 1] = "closed"]
          /\ UNCHANGED <<pc, cur, waitVars, listening, tokens, vrefs>>
        BY <1>1, <1>4 DEF RenderBuffer
    <2>2. waiting = 0 /\ ~onscreen
        BY <1>0, <1>1, <1>4 DEF WebParts, ControlOK, ControlTypeOK
    <2>3. \A f \in Frames : (Seen(f) <=> f <= frames) /\ (Seen(f)' <=> f <= frames + 1)
        BY <1>1, <2>1 DEF Seen, Rendering
    <2>4. ControlTypeOK' /\ ControlOK'
        BY <1>0, <1>1, <1>4, <2>1, <2>2 DEF WebParts, ControlTypeOK, ControlOK, Rendering,
           waitVars
    <2>5. CountsTypeOK'
        BY <1>0, <1>1, <2>1 DEF WebParts, CountsTypeOK, surfVars, Causes
    <2>6. CallbacksOK'
        BY <1>0, <1>1, <2>1, <2>3, FrameNumbers
           DEF WebParts, CallbacksOK, Callbacks, CountsTypeOK, waitVars
    <2>7. TokensExact' /\ ViewCounted'
        BY <1>0, <1>1, <2>1 DEF WebParts, TokensExact, ViewCounted, Callbacks, waitVars
    <2>8. HeldOnscreen'
        BY <1>0, <1>1, <2>1, <2>2, FrameNumbers DEF WebParts, HeldOnscreen, Rendering,
           surfVars, waitVars
    <2>9. RenderedExact'
        BY <1>0, <1>1, <2>1, <2>2, <2>3, FrameNumbers
           DEF WebParts, RenderedExact, CountsTypeOK, waitVars, One
    <2>10. LET g == frames + 1 IN
           rendered[g] = 0 /\ released[g] = 0 /\ holds[g] = 0 /\ g \notin releases
        <3> DEFINE g == frames + 1
        <3>1. g \in Frames /\ ~(g <= frames)
            BY <1>1, FrameNumbers
        <3>2. rendered[g] = 0
            BY <1>0, <2>3, <3>1 DEF WebParts, RenderedExact, One
        <3>3. released[g] = 0 /\ g \notin releases
            BY <1>0, <3>1, <3>2 DEF WebParts, ReleasedExact, ReleasesOK, One
        <3>4. holds[g] = 0
            BY <1>0, <3>1 DEF WebParts, HeldOnscreen, CountsTypeOK
        <3> QED
            BY <3>2, <3>3, <3>4
    <2>11. ReleasedExact' /\ ReleasesOK'
        BY <1>0, <1>1, <2>1, <2>10 DEF WebParts, ReleasedExact, ReleasesOK, CountsTypeOK,
           surfVars, One
    <2>12. FlipsCalled'
        BY <1>0, <1>1, <2>1 DEF WebParts, FlipsCalled, CountsTypeOK
    <2> QED
        BY <1>2, <2>4, <2>5, <2>6, <2>7, <2>8, <2>9, <2>11, <2>12 DEF WebInv, WebTypeOK
<1> QED
    BY <1>3, <1>4

LEMMA PresentFrameStep == ASSUME WebInv, PresentFrame PROVE WebInv'
<1>0. WebParts
    BY WebInvParts
<1>1. /\ pc = "present" /\ pc' = "wait"
      /\ MoveHolds(<<nextBuf>>, <<nextBuf'>>)
      /\ released' = [f \in Frames |-> released[f] + Cardinality({f} \cap DroppedHolds)]
      /\ UNCHANGED <<cur, frames, bufOf, waiting, timer, tokens, view, vrefs, import, pipeVars,
                     cbVars, releases, rendered, called, why>>
    BY DEF PresentFrame
<1>2. /\ waiting = 0 /\ ~onscreen /\ view = "open" /\ cur = frames /\ cur \in Frames
      /\ Rendering /\ Rendering' /\ onscreen \in BOOLEAN
    BY <1>0, <1>1 DEF WebParts, ControlOK, ControlTypeOK, Rendering
<1>3. scanout' \in BOOLEAN /\ onscreen' \in BOOLEAN
    BY <1>0, <1>2 DEF WebParts, ControlTypeOK, PresentFrame
<1>4. \/ nextBuf' \in {nextBuf, Copied} /\ ~onscreen'
      \/ nextBuf' = cur /\ onscreen'
    BY <1>2 DEF PresentFrame
<1>5. ControlTypeOK' /\ ControlOK'
    BY <1>0, <1>1, <1>2, <1>3, <1>4, FrameNumbers DEF WebParts, ControlTypeOK, ControlOK,
       Rendering
<1>6. \A f \in Frames : Seen(f)' <=> Seen(f)
    BY <1>1, <1>2 DEF Seen
<1>7. PlacesTypeOK'
    BY <1>0, <1>1, <1>2, <1>4 DEF WebParts, PlacesTypeOK, pipeVars
<1>8. /\ holds' \in [Frames -> Nat] /\ HoldsExact'
      /\ \A f \in Frames : holds'[f] > 0 => holds[f] > 0 \/ (f = cur /\ onscreen')
    <2>1. \A f \in Frames : Refs(f, <<nextBuf>>) = One(nextBuf = f) /\ Refs(f, <<nextBuf'>>) = One(nextBuf' = f)
        BY RefsInOnePlace, Zenon
    <2>2. holds' = [f \in Frames |-> holds[f] + Refs(f, <<nextBuf'>>) - Refs(f, <<nextBuf>>)]
        BY <1>1 DEF MoveHolds
    <2>3. \A f \in Frames : holds'[f] = holds[f] + One(nextBuf' = f) - One(nextBuf = f)
        BY <2>1, <2>2
    <2>4. \A f \in Frames :
            holds'[f] = One(nextBuf' = f) + One(building' = f) + One(mailbox' = f) + One(flight' = f)
                        + One(screen' = f)
        BY <1>0, <1>1, <2>3 DEF WebParts, HoldsExact, pipeVars, One
    <2>5. HoldsExact'
        BY <2>4 DEF HoldsExact
    <2>6. holds' \in [Frames -> Nat]
        BY <2>2, <2>4 DEF One
    <2>7. \A f \in Frames : holds'[f] > 0 => holds[f] > 0 \/ (f = cur /\ onscreen')
        BY <1>0, <1>4, <2>3, FrameNumbers DEF WebParts, CountsTypeOK, One
    <2> QED
        BY <2>5, <2>6, <2>7
<1>9. HeldOnscreen'
    BY <1>0, <1>1, <1>2, <1>8, FrameNumbers DEF WebParts, HeldOnscreen, Rendering
<1>10. ReleasedExact' /\ ReleasesOK' /\ released' \in [Frames -> Nat]
    <2>1. rendered[cur] = 0
        BY <1>0, <1>2 DEF WebParts, RenderedExact, Seen, One
    <2>2. \A f \in Frames : holds[f] > 0 => rendered[f] = 1
        BY <1>2, HeldRendered
    <2> QED
        BY <1>1, <1>8, <2>1, <2>2, ReleasedAtOnce
<1>11. CountsTypeOK'
    BY <1>0, <1>1, <1>8, <1>10 DEF WebParts, CountsTypeOK, cbVars
<1>12. CallbacksOK'
    BY <1>0, <1>1, <1>6 DEF WebParts, CallbacksOK, Callbacks, CountsTypeOK, cbVars
<1>13. TokensExact' /\ ViewCounted'
    BY <1>0, <1>1 DEF WebParts, TokensExact, ViewCounted, Callbacks, cbVars
<1>14. RenderedExact' /\ FlipsCalled'
    BY <1>0, <1>1, <1>6 DEF WebParts, RenderedExact, FlipsCalled
<1> QED
    BY <1>5, <1>7, <1>8, <1>9, <1>10, <1>11, <1>12, <1>13, <1>14 DEF WebInv, WebTypeOK

LEMMA WaitForFrameStep == ASSUME WebInv, WaitForFrame PROVE WebInv'
<1>0. WebParts
    BY WebInvParts
<1>1. /\ pc = "wait"
      /\ UNCHANGED <<cur, frames, bufOf, view, scanout, surfVars, pipeVars, taken, posted,
                     releases, called>>
    BY DEF WaitForFrame
<1>2. /\ waiting = 0 /\ view = "open" /\ cur = frames /\ cur \in Frames /\ Rendering
      /\ onscreen \in BOOLEAN /\ (onscreen => nextBuf = cur)
    BY <1>0, <1>1 DEF WebParts, ControlOK, ControlTypeOK, Rendering
<1>3. PlacesTypeOK' /\ HoldsExact'
    BY <1>0, <1>1 DEF WebParts, PlacesTypeOK, HoldsExact, surfVars, pipeVars
<1>4. \A f \in Frames : Seen(f) <=> f <= frames /\ f # cur
    BY <1>2 DEF Seen
<1>5. /\ rendered[cur] = 0 /\ released[cur] = 0 /\ cur \notin releases /\ cur \notin Callbacks
      /\ tokens[cur] = 0 /\ (holds[cur] > 0 <=> onscreen)
    <2>1. rendered[cur] = 0
        BY <1>0, <1>2, <1>4 DEF WebParts, RenderedExact, One
    <2>2. released[cur] = 0 /\ cur \notin releases
        BY <1>0, <1>2, <2>1 DEF WebParts, ReleasedExact, ReleasesOK, One
    <2>3. cur \notin Callbacks
        BY <1>0, <1>2, <1>4 DEF WebParts, CallbacksOK
    <2>4. tokens[cur] = 0
        BY <1>0, <1>2, <2>3, FrameNumbers DEF WebParts, TokensExact, One
    <2>5. holds[cur] > 0 => onscreen
        BY <1>0, <1>2 DEF WebParts, HeldOnscreen
    <2>6. onscreen => holds[cur] > 0
        BY <1>0, <1>2 DEF WebParts, HoldsExact, One
    <2> QED
        BY <1>2, <2>1, <2>2, <2>3, <2>4, <2>5, <2>6
<1>6. CASE /\ pc' = "repaint" /\ waiting' = cur /\ timer' = TRUE
           /\ tokens' = [tokens EXCEPT ![cur] = 2] /\ vrefs' = vrefs + 1
           /\ listening' = listening \cup {cur}
           /\ UNCHANGED <<onscreen, rendered, released, why>>
    <2>1. ControlTypeOK' /\ ControlOK'
        BY <1>0, <1>1, <1>2, <1>6, FrameNumbers
           DEF WebParts, ControlTypeOK, ControlOK, Rendering, surfVars
    <2>2. \A f \in Frames : Seen(f)' <=> f <= frames
        BY <1>1, <1>6 DEF Seen, Rendering
    <2>3. CountsTypeOK'
        BY <1>0, <1>1, <1>2, <1>6 DEF WebParts, CountsTypeOK, surfVars
    <2>4. Callbacks' = Callbacks \cup {cur} /\ listening = {}
        BY <1>0, <1>1, <1>2, <1>6, FrameNumbers DEF WebParts, Callbacks, CallbacksOK,
           CountsTypeOK
    <2>5. CallbacksOK'
        <3>1. \A f \in Callbacks' : Seen(f)'
            <4>1. Callbacks \subseteq Frames /\ \A f \in Callbacks : Seen(f)
                BY <1>0 DEF WebParts, CallbacksOK, CountsTypeOK, Callbacks
            <4>2. cur <= frames
                BY <1>2, FrameNumbers
            <4> QED
                BY <1>2, <1>4, <2>2, <2>4, <4>1, <4>2
        <3> QED
            BY <1>0, <1>1, <1>5, <1>6, <2>4, <3>1 DEF WebParts, CallbacksOK, Callbacks
    <2>6. TokensExact'
        BY <1>0, <1>2, <1>5, <1>6, <2>4, FrameNumbers DEF WebParts, TokensExact,
           CountsTypeOK, One
    <2>7. ViewCounted'
        <3> DEFINE A == {f \in Frames : tokens[f] > 0}
        <3>1. {f \in Frames : tokens'[f] > 0} = A \cup {cur} /\ cur \notin A
            BY <1>0, <1>2, <1>5, <1>6 DEF WebParts, CountsTypeOK
        <3>2. IsFiniteSet(A)
            BY FrameNumbers, FS_Subset
        <3>3. Cardinality(A \cup {cur}) = Cardinality(A) + 1 /\ Cardinality(A) \in Nat
            <4> HIDE DEF A
            <4> QED
                BY <3>1, <3>2, FS_AddElement, FS_CardinalityType
        <3>4. vrefs = Cardinality(A) + One(view # "dropped")
            BY <1>0 DEF WebParts, ViewCounted
        <3> HIDE DEF A
        <3> QED
            BY <1>1, <1>6, <3>1, <3>3, <3>4 DEF ViewCounted, One
    <2>8. HeldOnscreen'
        BY <1>0, <1>1, <1>2, <1>6 DEF WebParts, HeldOnscreen, Rendering, surfVars
    <2>9. RenderedExact'
        BY <1>0, <1>2, <1>4, <1>6, <2>2, FrameNumbers DEF WebParts, RenderedExact, One
    <2>10. ReleasedExact' /\ ReleasesOK' /\ FlipsCalled'
        BY <1>0, <1>1, <1>6 DEF WebParts, ReleasedExact, ReleasesOK, FlipsCalled, surfVars
    <2> QED
        BY <1>3, <2>1, <2>3, <2>5, <2>6, <2>7, <2>8, <2>9, <2>10 DEF WebInv, WebTypeOK
<1>7. CASE /\ pc' = "loop" /\ onscreen' = FALSE
           /\ rendered' = [rendered EXCEPT ![cur] = @ + 1]
           /\ released' = [released EXCEPT ![cur] = @ + IF onscreen THEN 0 ELSE 1]
           /\ why' = [why EXCEPT ![cur] = "error"]
           /\ UNCHANGED <<waiting, timer, tokens, vrefs, listening>>
    <2>1. ControlTypeOK' /\ ControlOK'
        BY <1>0, <1>1, <1>2, <1>7 DEF WebParts, ControlTypeOK, ControlOK, Rendering
    <2>2. \A f \in Frames : Seen(f)' <=> f <= frames
        BY <1>1, <1>7 DEF Seen, Rendering
    <2>3. CountsTypeOK'
        BY <1>0, <1>1, <1>2, <1>7 DEF WebParts, CountsTypeOK, surfVars, Causes
    <2>4. CallbacksOK'
        BY <1>0, <1>1, <1>4, <1>7, <2>2 DEF WebParts, CallbacksOK, Callbacks, CountsTypeOK
    <2>5. TokensExact' /\ ViewCounted'
        BY <1>0, <1>1, <1>7 DEF WebParts, TokensExact, ViewCounted, Callbacks
    <2>6. HeldOnscreen'
        BY <1>0, <1>1, <1>2, <1>7, FrameNumbers DEF WebParts, HeldOnscreen, Rendering,
           surfVars
    <2>7. RenderedExact'
        BY <1>0, <1>2, <1>4, <1>5, <1>7, <2>2, FrameNumbers
           DEF WebParts, RenderedExact, CountsTypeOK, One
    <2>8. ReleasedExact' /\ ReleasesOK'
        BY <1>0, <1>1, <1>2, <1>5, <1>7
           DEF WebParts, ReleasedExact, ReleasesOK, CountsTypeOK, surfVars, One
    <2>9. FlipsCalled'
        BY <1>0, <1>1, <1>7 DEF WebParts, FlipsCalled, CountsTypeOK
    <2> QED
        BY <1>3, <2>1, <2>3, <2>4, <2>5, <2>6, <2>7, <2>8, <2>9 DEF WebInv, WebTypeOK
<1> QED
    BY <1>6, <1>7 DEF WaitForFrame

LEMMA RepaintStep == ASSUME WebInv, Repaint PROVE WebInv'
<1>0. WebParts
    BY WebInvParts
<1>1. /\ pc = "repaint" /\ pc' = "loop" /\ cur' = 0
      /\ UNCHANGED <<frames, bufOf, view, scanout, nextBuf, building, taken, posted, releases>>
    BY DEF Repaint
<1>2. /\ waiting = cur /\ view = "open" /\ cur \in Frames /\ cur <= frames /\ ~Rendering /\ ~Rendering'
      /\ \A f \in Frames : (Seen(f) <=> f <= frames) /\ (Seen(f)' <=> f <= frames)
    BY <1>0, <1>1, FrameNumbers DEF WebParts, ControlOK, ControlTypeOK, Rendering, Seen
<1>3. ASSUME NEW cause \in {"flip", "error"}, FinishWaitingFrame(cause, {}), Discard(<<>>),
             called' = called \cup listening \/ (called' = called /\ cause = "error"),
             cur \in listening
      PROVE  WebInv'
    <2>1. /\ PlacesTypeOK' /\ HoldsExact' /\ holds' = holds
        <3>1. \A f \in Frames : Refs(f, <<>>) = 0
            BY RefsInNoPlace
        <3>2. holds' = [f \in Frames |-> holds[f] + Refs(f, <<>>) - Refs(f, <<>>)]
            BY <1>3 DEF Discard, MoveHolds
        <3>3. holds' = holds
            BY <1>0, <3>1, <3>2 DEF WebParts, CountsTypeOK
        <3> QED
            BY <1>0, <1>1, <1>3, <3>3 DEF WebParts, PlacesTypeOK, HoldsExact, Discard
    <2>2. /\ waiting' = 0 /\ onscreen' = FALSE /\ timer' = FALSE
          /\ CountsTypeOK' /\ CallbacksOK' /\ TokensExact' /\ ViewCounted' /\ RenderedExact'
          /\ ReleasedExact' /\ ReleasesOK' /\ FlipsCalled'
        <3>1. cause \in Causes /\ (cause = "flip" => waiting \in called' \cup {0})
            BY <1>2, <1>3 DEF Causes
        <3>2. called \subseteq called'
            BY <1>3
        <3> QED
            BY <1>1, <1>2, <1>3, <2>1, <3>1, <3>2, FinishStep
    <2>3. ControlTypeOK' /\ ControlOK'
        BY <1>0, <1>1, <2>2 DEF WebParts, ControlTypeOK, ControlOK, Rendering
    <2>4. HeldOnscreen'
        BY <1>0, <1>1, <1>2, <2>1, <2>2, FrameNumbers DEF WebParts, HeldOnscreen
    <2> QED
        BY <2>1, <2>2, <2>3, <2>4 DEF WebInv, WebTypeOK
<1>4. ASSUME NEW shown, shown = 0 \/ (shown = nextBuf /\ shown \in Frames),
             Queue(shown, <<>>) \/ Accept(shown, <<>>) \/ Discard(<<>>),
             released' = [f \in Frames |-> released[f] + Cardinality({f} \cap DroppedHolds)],
             UNCHANGED <<waitVars, tokens, vrefs, listening, rendered, why>>, called \subseteq called'
      PROVE  WebInv'
    <2>1. /\ PlacesTypeOK' /\ HoldsExact' /\ holds' \in [Frames -> Nat]
          /\ \A f \in Frames : holds'[f] > 0 => holds[f] > 0
          /\ \A f \in Frames : f = nextBuf => holds'[f] > 0
        <3>1. shown \in {0} \cup Frames \cup {NoRequest} /\ (shown = 0 \/ shown = nextBuf)
            BY <1>4
        <3> QED
            BY <1>1, <1>4, <3>1, RequestEffect
    <2>2. \A f \in Frames : holds[f] > 0 /\ holds'[f] = 0 => rendered[f] = 1
        BY <2>1, HeldRendered
    <2>3. ReleasedExact' /\ ReleasesOK' /\ released' \in [Frames -> Nat]
        <3>1. 0 \notin Frames
            BY FrameNumbers
        <3> QED
            BY <1>1, <1>4, <2>1, <2>2, <3>1, ReleasedAtOnce
    <2>4. CountsTypeOK'
        BY <1>0, <1>1, <1>4, <2>1, <2>3 DEF WebParts, CountsTypeOK
    <2>5. ControlTypeOK' /\ ControlOK'
        BY <1>0, <1>1, <1>2, <1>4 DEF WebParts, ControlTypeOK, ControlOK, Rendering,
           waitVars
    <2>6. CallbacksOK'
        BY <1>0, <1>1, <1>2, <1>4 DEF WebParts, CallbacksOK, Callbacks, CountsTypeOK,
           waitVars
    <2>7. TokensExact' /\ ViewCounted'
        BY <1>0, <1>1, <1>4 DEF WebParts, TokensExact, ViewCounted, Callbacks, waitVars
    <2>8. HeldOnscreen'
        BY <1>0, <1>1, <1>2, <1>4, <2>1 DEF WebParts, HeldOnscreen, waitVars
    <2>9. RenderedExact' /\ FlipsCalled'
        BY <1>0, <1>1, <1>2, <1>4 DEF WebParts, RenderedExact, FlipsCalled, waitVars
    <2> QED
        BY <2>1, <2>3, <2>4, <2>5, <2>6, <2>7, <2>8, <2>9 DEF WebInv, WebTypeOK
<1>5. CASE /\ \E shown \in 0 .. MaxFrames :
                 /\ PresentKms(shown)
                 /\ Queue(shown, <<>>) \/ Accept(shown, <<>>) \/ Discard(<<>>)
           /\ released' = [f \in Frames |-> released[f] + Cardinality({f} \cap DroppedHolds)]
           /\ UNCHANGED <<waitVars, tokens, vrefs, listening, rendered, called, why>>
    <2>1. PICK shown \in 0 .. MaxFrames :
                 /\ PresentKms(shown)
                 /\ Queue(shown, <<>>) \/ Accept(shown, <<>>) \/ Discard(<<>>)
        BY <1>5
    <2>2. shown = 0 \/ (shown = nextBuf /\ shown \in Frames)
        BY <2>1, PresentKmsShows
    <2> QED
        BY <1>4, <1>5, <2>1, <2>2
<1>6. ASSUME Discard(<<>>), UNCHANGED <<waitVars, tokens, vrefs, listening, rendered, released, why>>,
             called \subseteq called'
      PROVE  WebInv'
    <2>1. holds' = holds
        <3>1. \A f \in Frames : Refs(f, <<>>) = 0
            BY RefsInNoPlace
        <3>2. holds' = [f \in Frames |-> holds[f] + Refs(f, <<>>) - Refs(f, <<>>)]
            BY <1>6 DEF Discard, MoveHolds
        <3> QED
            BY <1>0, <3>1, <3>2 DEF WebParts, CountsTypeOK
    <2>2. released' = [f \in Frames |-> released[f] + Cardinality({f} \cap DroppedHolds)]
        <3>1. \A f \in Frames : Cardinality({f} \cap DroppedHolds) = 0
            BY <2>1, OneMember DEF DroppedHolds, One
        <3> QED
            BY <1>0, <1>6, <3>1, SMTT(30) DEF WebParts, CountsTypeOK
    <2> QED
        BY <1>4, <1>6, <2>2
<1>7. CASE /\ flight = NoRequest
           /\ \E shown \in 0 .. MaxFrames : PresentKms(shown)
           /\ Discard(<<>>)
           /\ called' = called \cup listening
           /\ IF cur \in listening THEN FinishWaitingFrame("flip", {})
              ELSE UNCHANGED <<waitVars, tokens, vrefs, listening, rendered, released, why>>
    BY <1>3, <1>6, <1>7
<1>8. CASE /\ \/ \E shown \in 0 .. MaxFrames : PresentKms(shown)
              \/ UNCHANGED <<import, importFailed>>
           /\ Discard(<<>>)
           /\ IF cur \in listening THEN FinishWaitingFrame("error", {})
              ELSE UNCHANGED <<waitVars, tokens, vrefs, listening, rendered, released, why>>
           /\ UNCHANGED called
    BY <1>3, <1>6, <1>8
<1> QED
    BY <1>5, <1>7, <1>8 DEF Repaint

(* The listeners are taken: each callback stays the frame's only one.      *)
LEMMA FireListenersEffect ==
    ASSUME WebInv, FireListeners \/ UNCHANGED <<taken, listening>>,
           UNCHANGED <<webkit, waitVars, tokens, viewVars, posted, history>>
    PROVE  /\ ControlTypeOK' /\ CallbacksOK' /\ TokensExact' /\ ViewCounted'
           /\ RenderedExact' /\ FlipsCalled'
           /\ listening' \subseteq Frames /\ taken' \subseteq Frames /\ posted' \subseteq Frames
<1>0. WebParts
    BY WebInvParts
<1>1. Callbacks' = Callbacks
    BY DEF Callbacks, FireListeners
<1>2. \A f : Seen(f)' <=> Seen(f)
    BY DEF Seen, Rendering, webkit
<1>3. CallbacksOK'
    BY <1>0, <1>1, <1>2 DEF WebParts, CallbacksOK, FireListeners, waitVars, history
<1>4. TokensExact' /\ ViewCounted'
    BY <1>0, <1>1 DEF WebParts, TokensExact, ViewCounted, waitVars, viewVars
<1>5. RenderedExact' /\ FlipsCalled'
    BY <1>0, <1>2 DEF WebParts, RenderedExact, FlipsCalled, waitVars, history
<1>6. ControlTypeOK'
    BY <1>0 DEF WebParts, ControlTypeOK, webkit, waitVars, viewVars
<1>7. listening' \subseteq Frames /\ taken' \subseteq Frames /\ posted' \subseteq Frames
    BY <1>0 DEF WebParts, CountsTypeOK, FireListeners
<1> QED
    BY <1>3, <1>4, <1>5, <1>6, <1>7

(* What moves between the surface, the mailbox, the commit and the screen. *)
LEMMA PipeStep ==
    ASSUME WebInv, FireListeners \/ UNCHANGED <<taken, listening>>,
           UNCHANGED <<webkit, waitVars, tokens, viewVars, posted, history, nextBuf>>,
           PlacesTypeOK', HoldsExact', holds' \in [Frames -> Nat],
           \A f \in Frames : holds'[f] > 0 => holds[f] > 0,
           releases' = releases \cup DroppedHolds
    PROVE  WebInv'
<1>0. WebParts
    BY WebInvParts
<1>1. \A f \in Frames : f = nextBuf => holds'[f] > 0
    BY DEF HoldsExact, One
<1>2. \A f \in Frames : holds[f] > 0 /\ holds'[f] = 0 => rendered[f] = 1
    BY <1>1, HeldRendered
<1>3. ReleasedExact' /\ ReleasesOK' /\ releases' \subseteq Frames
    BY <1>2, ReleasedLater DEF history
<1>4. /\ ControlTypeOK' /\ CallbacksOK' /\ TokensExact' /\ ViewCounted'
      /\ RenderedExact' /\ FlipsCalled'
      /\ listening' \subseteq Frames /\ taken' \subseteq Frames /\ posted' \subseteq Frames
    BY FireListenersEffect
<1>5. CountsTypeOK'
    BY <1>0, <1>3, <1>4 DEF WebParts, CountsTypeOK, viewVars, history
<1>6. ControlOK'
    BY <1>0 DEF WebParts, ControlOK, Rendering, webkit, waitVars, viewVars
<1>7. HeldOnscreen'
    BY <1>0 DEF WebParts, HeldOnscreen, Rendering, webkit, waitVars
<1> QED
    BY <1>3, <1>4, <1>5, <1>6, <1>7 DEF WebInv, WebTypeOK

LEMMA BuildRequestStep == ASSUME WebInv, BuildRequest PROVE WebInv'
<1>0. WebParts
    BY WebInvParts
<1>1. /\ building = NoRequest /\ MoveHolds(<<>>, <<building'>>)
      /\ UNCHANGED <<webkit, waitVars, tokens, viewVars, nextBuf, mailbox, flight, screen,
                     cbVars, releases, history>>
    BY DEF BuildRequest
<1>2. building' = 0 \/ (building' = nextBuf /\ building' \in Frames)
    BY PresentKmsShows DEF BuildRequest
<1>3. \A f \in Frames : holds'[f] = holds[f] + One(building' = f)
    <2>1. \A f \in Frames : Refs(f, <<>>) = 0 /\ Refs(f, <<building'>>) = One(building' = f)
        BY RefsInNoPlace, RefsInOnePlace, Zenon
    <2>2. holds' = [f \in Frames |-> holds[f] + Refs(f, <<building'>>) - Refs(f, <<>>)]
        BY <1>1 DEF MoveHolds
    <2> QED
        BY <1>0, <2>1, <2>2 DEF WebParts, CountsTypeOK, One
<1>4. holds' \in [Frames -> Nat]
    <2>1. DOMAIN holds' = Frames /\ holds' = [f \in Frames |-> holds'[f]]
        BY <1>1 DEF MoveHolds
    <2> QED
        BY <1>0, <1>3, <2>1 DEF WebParts, CountsTypeOK, One
<1>5. HoldsExact' /\ PlacesTypeOK'
    BY <1>0, <1>1, <1>2, <1>3, FrameNumbers DEF WebParts, HoldsExact, PlacesTypeOK, Places,
       One
<1>6. \A f \in Frames : holds'[f] >= holds[f] /\ (holds'[f] > 0 => holds[f] > 0)
    <2>1. \A f \in Frames : holds[f] \in Nat /\ (f = nextBuf => holds[f] > 0)
        BY <1>0 DEF WebParts, CountsTypeOK, HoldsExact, One
    <2> QED
        BY <1>2, <1>3, <2>1, FrameNumbers DEF One
<1>7. releases' = releases \cup DroppedHolds
    BY <1>0, <1>1, <1>4, <1>6 DEF DroppedHolds, WebParts, CountsTypeOK
<1> QED
    BY <1>1, <1>4, <1>5, <1>6, <1>7, PipeStep DEF cbVars

LEMMA SubmitRequestStep == ASSUME WebInv, SubmitRequest PROVE WebInv'
<1>0. WebParts
    BY WebInvParts
<1>1. /\ building' = NoRequest /\ releases' = releases \cup DroppedHolds
      /\ UNCHANGED <<webkit, waitVars, tokens, viewVars, nextBuf, posted, history>>
      /\ FireListeners \/ UNCHANGED <<taken, listening>>
      /\ Queue(building, <<building>>) \/ Accept(building, <<building>>) \/ Discard(<<building>>)
    BY DEF SubmitRequest
<1>2. /\ PlacesTypeOK' /\ HoldsExact' /\ holds' \in [Frames -> Nat]
      /\ \A f \in Frames : holds'[f] > 0 => holds[f] > 0
    <2>1. building \in {0} \cup Frames \cup {NoRequest}
        BY <1>0 DEF WebParts, PlacesTypeOK, Places
    <2> QED
        BY <1>1, <2>1, RequestEffect
<1> QED
    BY <1>1, <1>2, PipeStep

LEMMA FlipStep == ASSUME WebInv, Flip PROVE WebInv'
<1>0. WebParts
    BY WebInvParts
<1>1. /\ screen' = flight /\ mailbox' = NoRequest /\ releases' = releases \cup DroppedHolds
      /\ FireListeners
      /\ UNCHANGED <<webkit, waitVars, tokens, viewVars, nextBuf, building, posted, history>>
    BY DEF Flip
<1>2. \A f \in Frames :
        /\ Refs(f, <<>>) = 0 /\ Refs(f, <<screen>>) = One(screen = f)
        /\ Refs(f, <<screen, mailbox>>) = One(screen = f) + One(mailbox = f)
    <2>1. \A f \in Frames : Refs(f, <<screen, mailbox>>) = One(screen = f) + One(mailbox = f)
        BY RefsInTwoPlaces, SMT
    <2>2. \A f \in Frames : Refs(f, <<>>) = 0 /\ Refs(f, <<screen>>) = One(screen = f)
        BY RefsInNoPlace, RefsInOnePlace, Zenon
    <2> QED
        BY <2>1, <2>2
<1>3. \A f \in Frames : One(NoRequest = f) = 0
    BY FrameNumbers DEF One
<1>4. \A f \in Frames :
        holds[f] = One(nextBuf = f) + One(building = f) + One(mailbox = f) + One(flight = f)
                   + One(screen = f)
    BY <1>0 DEF WebParts, HoldsExact
<1>5. /\ holds' = [f \in Frames |-> holds'[f]] /\ PlacesTypeOK'
      /\ \A f \in Frames :
            /\ holds'[f] = One(nextBuf = f) + One(building = f) + One(NoRequest = f) + One(flight' = f)
                           + One(flight = f)
            /\ holds'[f] > 0 => holds[f] > 0
    <2>1. CASE flight' = mailbox /\ MoveHolds(<<screen>>, <<>>)
        <3>1. holds' = [f \in Frames |-> holds[f] + Refs(f, <<>>) - Refs(f, <<screen>>)]
            BY <2>1 DEF MoveHolds
        <3>2. \A f \in Frames : holds'[f] = holds[f] - One(screen = f)
            <4> SUFFICES ASSUME NEW f \in Frames PROVE holds'[f] = holds[f] - One(screen = f)
                OBVIOUS
            <4>1. holds'[f] = holds[f] + Refs(f, <<>>) - Refs(f, <<screen>>)
                BY <3>1, Zenon
            <4> QED
                BY <1>0, <4>1, <1>2 DEF WebParts, CountsTypeOK, One
        <3>3. holds' = [f \in Frames |-> holds'[f]]
            BY <3>1
        <3>4. PlacesTypeOK'
            BY <1>0, <1>1, <2>1 DEF WebParts, PlacesTypeOK, Places
        <3> QED
            BY <1>3, <1>4, <2>1, <3>2, <3>3, <3>4 DEF One
    <2>2. CASE flight' = NoRequest /\ MoveHolds(<<screen, mailbox>>, <<>>)
        <3>1. holds' = [f \in Frames |-> holds[f] + Refs(f, <<>>) - Refs(f, <<screen, mailbox>>)]
            BY <2>2 DEF MoveHolds
        <3>2. \A f \in Frames : holds'[f] = holds[f] - (One(screen = f) + One(mailbox = f))
            <4> SUFFICES ASSUME NEW f \in Frames PROVE holds'[f] = holds[f] - (One(screen = f) + One(mailbox = f))
                OBVIOUS
            <4>1. holds'[f] = holds[f] + Refs(f, <<>>) - Refs(f, <<screen, mailbox>>)
                BY <3>1, Zenon
            <4>2. Refs(f, <<>>) = 0 /\ Refs(f, <<screen, mailbox>>) = One(screen = f) + One(mailbox = f)
                BY <1>2, Zenon
            <4>3. holds[f] \in Nat
                BY <1>0 DEF WebParts, CountsTypeOK
            <4> QED
                BY <4>1, <4>2, <4>3 DEF One
        <3>3. holds' = [f \in Frames |-> holds'[f]]
            BY <3>1
        <3>4. PlacesTypeOK'
            BY <1>0, <1>1, <2>2 DEF WebParts, PlacesTypeOK, Places
        <3> QED
            BY <1>3, <1>4, <2>2, <3>2, <3>3, <3>4 DEF One
    <2> QED
        BY <2>1, <2>2 DEF Flip
<1>6. HoldsExact'
    BY <1>1, <1>5 DEF HoldsExact
<1>7. holds' \in [Frames -> Nat]
    BY <1>5 DEF One
<1> QED
    BY <1>1, <1>5, <1>6, <1>7, PipeStep

LEMMA OnFrameScanoutStep == ASSUME WebInv, NEW f \in Frames, OnFrameScanout(f) PROVE WebInv'
<1>0. WebParts
    BY WebInvParts
<1>1. /\ f \in taken /\ taken' = taken \ {f} /\ posted' = posted \cup {f} /\ called' = called \cup {f}
      /\ UNCHANGED <<webkit, waitVars, tokens, viewVars, surfVars, pipeVars, listening,
                     releases, rendered, released, why>>
    BY DEF OnFrameScanout
<1>2. Callbacks' = Callbacks /\ \A g : Seen(g)' <=> Seen(g)
    BY <1>1 DEF Callbacks, Seen, Rendering, webkit
<1>3. ControlTypeOK' /\ ControlOK' /\ PlacesTypeOK' /\ CountsTypeOK'
    BY <1>0, <1>1 DEF WebParts, ControlTypeOK, ControlOK, PlacesTypeOK, CountsTypeOK,
       Rendering,
       webkit, waitVars, viewVars, surfVars, pipeVars
<1>4. CallbacksOK'
    BY <1>0, <1>1, <1>2 DEF WebParts, CallbacksOK, waitVars
<1>5. TokensExact' /\ ViewCounted' /\ FlipsCalled'
    BY <1>0, <1>1, <1>2 DEF WebParts, TokensExact, ViewCounted, FlipsCalled, waitVars,
       viewVars
<1>6. HoldsExact' /\ HeldOnscreen' /\ RenderedExact' /\ ReleasedExact' /\ ReleasesOK'
    BY <1>0, <1>1, <1>2 DEF WebParts, HoldsExact, HeldOnscreen, RenderedExact,
       ReleasedExact,
       ReleasesOK, Rendering, webkit, waitVars, surfVars, pipeVars
<1> QED
    BY <1>3, <1>4, <1>5, <1>6 DEF WebInv, WebTypeOK

(* A callback of the WebKit thread that finishes the waiting frame.        *)
LEMMA FinishingStep ==
    ASSUME WebInv, NEW cause \in Causes, NEW S \in SUBSET posted, S \subseteq {waiting},
           pc = "loop", FinishWaitingFrame(cause, S), posted' = posted \ S,
           cause = "flip" => waiting \in posted,
           view' = view \/ (view = "open" /\ view' = "closed"),
           UNCHANGED <<webkit, scanout, surfVars, pipeVars, taken, releases, called>>
    PROVE  WebInv'
<1>0. WebParts
    BY WebInvParts
<1>1. \A f \in Frames : Seen(f)' <=> Seen(f)
    BY DEF Seen, Rendering, webkit
<1>2. cause \in Causes /\ (cause = "flip" => waiting \in called' \cup {0})
    BY <1>0 DEF WebParts, CallbacksOK, Causes
<1>3. holds' = holds /\ releases' = releases /\ called \subseteq called' /\ taken' = taken
      /\ (view' = "dropped" <=> view = "dropped")
    BY DEF surfVars
<1>4. /\ waiting' = 0 /\ onscreen' = FALSE /\ timer' = FALSE
      /\ CountsTypeOK' /\ CallbacksOK' /\ TokensExact' /\ ViewCounted' /\ RenderedExact'
      /\ ReleasedExact' /\ ReleasesOK' /\ FlipsCalled'
    BY <1>1, <1>2, <1>3, FinishStep
<1>5. ControlTypeOK' /\ ControlOK'
    BY <1>0, <1>4 DEF WebParts, ControlTypeOK, ControlOK, Rendering, webkit
<1>6. PlacesTypeOK' /\ HoldsExact'
    BY <1>0 DEF WebParts, PlacesTypeOK, HoldsExact, surfVars, pipeVars
<1>7. HeldOnscreen'
    BY <1>0, <1>4, FrameNumbers DEF WebParts, HeldOnscreen, Rendering, webkit, surfVars
<1> QED
    BY <1>4, <1>5, <1>6, <1>7 DEF WebInv, WebTypeOK

LEMMA RunFinishStep == ASSUME WebInv, NEW f \in Frames, RunFinish(f) PROVE WebInv'
<1>0. WebParts
    BY WebInvParts
<1>1. /\ pc = "loop" /\ f \in posted /\ posted' = posted \ {f} /\ FinishOnThread(f)
      /\ UNCHANGED <<webkit, view, scanout, surfVars, pipeVars, taken, releases, called>>
    BY DEF RunFinish
<1>2. CASE waiting = f
    <2>1. FinishWaitingFrame("flip", {f})
        BY <1>1, <1>2 DEF FinishOnThread
    <2> QED
        BY <1>1, <1>2, <2>1, FinishingStep DEF Causes
<1>3. CASE waiting # f
    <2>1. /\ DropTokens({f}, {}) /\ UNCHANGED <<listening, waitVars, rendered, released, why>>
        BY <1>1, <1>3 DEF FinishOnThread
    <2>2. /\ tokens' \in [Frames -> Nat] /\ vrefs' \in Nat
          /\ \A g \in Frames : tokens'[g] = tokens[g] - One(g \in {f}) - One(g \in {})
          /\ vrefs' = Cardinality({g \in Frames : tokens'[g] > 0}) + One(view # "dropped")
        <3> DEFINE n == One(view # "dropped")
        <3>1. /\ n \in Nat /\ vrefs = Cardinality({g \in Frames : tokens[g] > 0}) + n
              /\ tokens \in [Frames -> Nat] /\ vrefs \in Nat
            BY <1>0 DEF WebParts, ViewCounted, CountsTypeOK, One
        <3>2. \A g \in Frames : tokens[g] >= One(g \in {f}) + One(g \in {})
            BY <1>0, <1>1 DEF WebParts, TokensExact, Callbacks, One
        <3> HIDE DEF n
        <3>3. {f} \in SUBSET Frames /\ {} \in SUBSET Frames
            OBVIOUS
        <3>4. /\ tokens' \in [Frames -> Nat] /\ vrefs' \in Nat
              /\ \A g \in Frames : tokens'[g] = tokens[g] - One(g \in {f}) - One(g \in {})
              /\ vrefs' = Cardinality({g \in Frames : tokens'[g] > 0}) + n
            BY <2>1, <3>1, <3>2, <3>3, DropTokensEffect
        <3> QED
            BY <3>4 DEF n
    <2>3. ControlTypeOK' /\ ControlOK' /\ PlacesTypeOK' /\ CountsTypeOK'
        BY <1>0, <1>1, <2>1, <2>2 DEF WebParts, ControlTypeOK, ControlOK, PlacesTypeOK,
           CountsTypeOK,
           Rendering, webkit, waitVars, surfVars, pipeVars
    <2>4. Callbacks' = Callbacks \ {f} /\ f \in Callbacks /\ \A g : Seen(g)' <=> Seen(g)
        BY <1>0, <1>1, <2>1 DEF WebParts, CallbacksOK, Callbacks, Seen, Rendering, webkit
    <2>5. CallbacksOK'
        BY <1>0, <1>1, <2>1, <2>4 DEF WebParts, CallbacksOK, waitVars
    <2>6. TokensExact'
        BY <1>0, <2>1, <2>2, <2>4 DEF WebParts, TokensExact, waitVars, One
    <2>7. ViewCounted'
        BY <1>1, <2>2 DEF ViewCounted
    <2>8. HoldsExact' /\ HeldOnscreen' /\ RenderedExact' /\ ReleasedExact' /\ ReleasesOK' /\ FlipsCalled'
        BY <1>0, <1>1, <2>1, <2>4 DEF WebParts, HoldsExact, HeldOnscreen, RenderedExact,
           ReleasedExact,
           ReleasesOK, FlipsCalled, Rendering, webkit, waitVars, surfVars, pipeVars
    <2> QED
        BY <2>3, <2>5, <2>6, <2>7, <2>8 DEF WebInv, WebTypeOK
<1> QED
    BY <1>2, <1>3

LEMMA OnFrameTimeoutStep == ASSUME WebInv, OnFrameTimeout PROVE WebInv'
<1>1. /\ pc = "loop" /\ FinishWaitingFrame("timeout", {})
      /\ UNCHANGED <<webkit, view, scanout, surfVars, pipeVars, taken, posted, releases, called>>
    BY DEF OnFrameTimeout
<1> QED
    BY <1>1, FinishingStep DEF Causes

LEMMA DestroyOnThreadStep == ASSUME WebInv, DestroyOnThread PROVE WebInv'
<1>1. /\ pc = "loop" /\ FinishWaitingFrame("closed", {}) /\ view = "open" /\ view' = "closed"
      /\ UNCHANGED <<webkit, scanout, surfVars, pipeVars, taken, posted, releases, called>>
    BY DEF DestroyOnThread
<1> QED
    BY <1>1, FinishingStep DEF Causes

LEMMA RunReleaseStep == ASSUME WebInv, NEW f \in Frames, RunRelease(f) PROVE WebInv'
<1>0. WebParts
    BY WebInvParts
<1>1. /\ f \in releases /\ releases' = releases \ {f} /\ released' = [released EXCEPT ![f] = @ + 1]
      /\ UNCHANGED <<webkit, waitVars, tokens, viewVars, surfVars, pipeVars, cbVars,
                     rendered, called, why>>
    BY DEF RunRelease
<1>2. /\ ControlTypeOK' /\ ControlOK' /\ PlacesTypeOK' /\ CountsTypeOK'
    BY <1>0, <1>1 DEF WebParts, ControlTypeOK, ControlOK, PlacesTypeOK, CountsTypeOK,
       Rendering, webkit, waitVars, viewVars, surfVars, pipeVars, cbVars
<1>3. CallbacksOK' /\ TokensExact' /\ ViewCounted'
    BY <1>0, <1>1 DEF WebParts, CallbacksOK, TokensExact, ViewCounted, Callbacks, Seen,
       Rendering,
       webkit, waitVars, viewVars, cbVars
<1>4. HoldsExact' /\ HeldOnscreen' /\ RenderedExact' /\ FlipsCalled'
    BY <1>0, <1>1 DEF WebParts, HoldsExact, HeldOnscreen, RenderedExact, FlipsCalled, Seen,
       Rendering,
       webkit, waitVars, surfVars, pipeVars
<1>5. ReleasedExact' /\ ReleasesOK'
    BY <1>0, <1>1 DEF WebParts, ReleasedExact, ReleasesOK, CountsTypeOK, surfVars, One
<1> QED
    BY <1>2, <1>3, <1>4, <1>5 DEF WebInv, WebTypeOK

LEMMA DropViewStep == ASSUME WebInv, DropView PROVE WebInv'
<1>0. WebParts
    BY WebInvParts
<1>1. /\ view = "closed" /\ view' = "dropped" /\ vrefs' = vrefs - 1 /\ nextBuf' = 0
      /\ MoveHolds(<<nextBuf>>, <<>>) /\ releases' = releases \cup DroppedHolds
      /\ UNCHANGED <<webkit, waitVars, tokens, scanout, import, importFailed, pipeVars,
                     cbVars, history>>
    BY DEF DropView
<1>2. waiting = 0 /\ pc = "loop" /\ ~onscreen
    BY <1>0, <1>1 DEF WebParts, ControlOK, ControlTypeOK
<1>3. ControlTypeOK' /\ ControlOK' /\ PlacesTypeOK'
    BY <1>0, <1>1, <1>2 DEF WebParts, ControlTypeOK, ControlOK, PlacesTypeOK, Rendering,
       webkit, waitVars, pipeVars
<1>4. /\ holds' \in [Frames -> Nat] /\ HoldsExact' /\ \A f \in Frames : holds'[f] > 0 => holds[f] > 0
    <2>1. \A f \in Frames : Refs(f, <<nextBuf>>) = One(nextBuf = f) /\ Refs(f, <<>>) = 0
        BY RefsInNoPlace, RefsInOnePlace, Zenon
    <2>2. holds' = [f \in Frames |-> holds[f] + Refs(f, <<>>) - Refs(f, <<nextBuf>>)]
        BY <1>1 DEF MoveHolds
    <2>3. \A f \in Frames : holds'[f] = holds[f] - One(nextBuf = f)
        <3> SUFFICES ASSUME NEW f \in Frames PROVE holds'[f] = holds[f] - One(nextBuf = f)
            OBVIOUS
        <3>1. holds'[f] = holds[f] + Refs(f, <<>>) - Refs(f, <<nextBuf>>)
            BY <2>2, Zenon
        <3> QED
            BY <1>0, <3>1, <2>1 DEF WebParts, CountsTypeOK, One
    <2>4. \A f \in Frames : One(nextBuf' = f) = 0
        BY <1>1, FrameNumbers DEF One
    <2>5. \A f \in Frames :
            holds[f] = One(nextBuf = f) + One(building = f) + One(mailbox = f) + One(flight = f)
                       + One(screen = f)
        BY <1>0 DEF WebParts, HoldsExact
    <2>6. \A f \in Frames :
            holds'[f] = One(nextBuf' = f) + One(building' = f) + One(mailbox' = f) + One(flight' = f)
                        + One(screen' = f)
        BY <1>1, <2>3, <2>4, <2>5 DEF pipeVars, One
    <2>7. holds' \in [Frames -> Nat]
        BY <2>2, <2>6 DEF One
    <2>8. \A f \in Frames : holds'[f] > 0 => holds[f] > 0
        BY <1>0, <2>3 DEF WebParts, CountsTypeOK, One
    <2> QED
        BY <2>6, <2>7, <2>8 DEF HoldsExact
<1>5. \A f \in Frames : holds[f] > 0 => rendered[f] = 1
    BY <1>2, HeldRendered
<1>6. ReleasedExact' /\ ReleasesOK' /\ releases' \subseteq Frames
    BY <1>1, <1>4, <1>5, ReleasedLater DEF history
<1>7. vrefs' \in Nat /\ ViewCounted'
    <2> DEFINE n == Cardinality({f \in Frames : tokens[f] > 0})
    <2>1. vrefs = n + 1
        BY <1>0, <1>1 DEF WebParts, ViewCounted, One
    <2>2. n \in Nat
        BY FrameNumbers, FS_Subset, FS_CardinalityType
    <2> HIDE DEF n
    <2>3. vrefs' = n /\ vrefs' \in Nat
        BY <1>1, <2>1, <2>2
    <2> QED
        BY <1>1, <2>2, <2>3 DEF n, ViewCounted, One
<1>8. CountsTypeOK'
    BY <1>0, <1>1, <1>4, <1>6, <1>7 DEF WebParts, CountsTypeOK, cbVars, history
<1>9. CallbacksOK' /\ TokensExact'
    BY <1>0, <1>1 DEF WebParts, CallbacksOK, TokensExact, Callbacks, Seen, Rendering,
       webkit, waitVars, cbVars, history
<1>10. HeldOnscreen' /\ RenderedExact' /\ FlipsCalled'
    BY <1>0, <1>1, <1>4 DEF WebParts, HeldOnscreen, RenderedExact, FlipsCalled, Seen,
       Rendering,
       webkit, waitVars, history
<1> QED
    BY <1>3, <1>4, <1>6, <1>7, <1>8, <1>9, <1>10 DEF WebInv, WebTypeOK

LEMMA WebUnchanged == ASSUME WebInv, UNCHANGED vars PROVE WebInv'
<1>0. WebParts
    BY WebInvParts
<1>1. UNCHANGED <<webkit, waitVars, tokens, viewVars, surfVars, pipeVars, cbVars, releases, history>>
    BY DEF vars
<1>2. ControlTypeOK' /\ ControlOK' /\ PlacesTypeOK' /\ CountsTypeOK'
    BY <1>0, <1>1 DEF WebParts, ControlTypeOK, ControlOK, PlacesTypeOK, CountsTypeOK,
       Rendering, webkit, waitVars, viewVars, surfVars, pipeVars, cbVars, history
<1>3. CallbacksOK' /\ TokensExact' /\ ViewCounted'
    BY <1>0, <1>1 DEF WebParts, CallbacksOK, TokensExact, ViewCounted, Callbacks, Seen,
       Rendering,
       webkit, waitVars, viewVars, cbVars, history
<1>4. /\ HoldsExact' /\ HeldOnscreen' /\ RenderedExact' /\ ReleasedExact' /\ ReleasesOK' /\ FlipsCalled'
    BY <1>0, <1>1 DEF WebParts, HoldsExact, HeldOnscreen, RenderedExact, ReleasedExact,
       ReleasesOK,
       FlipsCalled, Seen, Rendering, webkit, waitVars, surfVars, pipeVars, history
<1> QED
    BY <1>2, <1>3, <1>4 DEF WebInv, WebTypeOK

LEMMA WebStep == WebInv /\ [Next]_vars => WebInv'
<1> SUFFICES ASSUME WebInv, [Next]_vars PROVE WebInv'
    OBVIOUS
<1>1. ASSUME NEW f \in Frames, RunFinish(f) PROVE WebInv'
    BY <1>1, RunFinishStep
<1>2. ASSUME NEW f \in Frames, RunRelease(f) PROVE WebInv'
    BY <1>2, RunReleaseStep
<1>3. CASE WebKitThread
    BY <1>1, <1>2, <1>3, PresentFrameStep, WaitForFrameStep, RepaintStep, OnFrameTimeoutStep
       DEF WebKitThread
<1>4. ASSUME NEW b \in Buffers, RenderBuffer(b) PROVE WebInv'
    BY <1>4, RenderBufferStep
<1>5. ASSUME NEW f \in Frames, OnFrameScanout(f) PROVE WebInv'
    BY <1>5, OnFrameScanoutStep
<1>6. CASE UNCHANGED vars
    BY <1>6, WebUnchanged
<1> QED
    BY <1>3, <1>4, <1>5, <1>6, BuildRequestStep, SubmitRequestStep, FlipStep,
       DestroyOnThreadStep,
       DropViewStep DEF Next

(* The control state, the counts and what WebKit was told agree, for any   *)
(* number of frames.                                                       *)
THEOREM WebviewCorrect == Spec => []WebInv
BY WebInitially, WebStep, PTL DEF Spec

-----------------------------------------------------------------------------
(* WebKit hears of each frame once each way, whoever wins the race between *)
(* flip, timeout, next frame, error and closing, and a late callback never *)
(* finishes a newer frame (finish_waiting_frame, finish_on_thread).        *)
THEOREM FramesHandedBackOnce == Spec => []HandedBackOnce
<1>1. WebInv => HandedBackOnce
    <2> SUFFICES ASSUME WebInv, NEW f \in Frames
                 PROVE  /\ rendered[f] <= 1 /\ released[f] <= rendered[f]
                        /\ why[f] = "flip" => f \in called
        BY DEF HandedBackOnce
    <2>0. WebParts
        BY WebInvParts
    <2>1. rendered[f] \in {0, 1} /\ released[f] <= rendered[f]
        BY <2>0 DEF WebParts, RenderedExact, ReleasedExact, One
    <2> QED
        BY <2>0, <2>1 DEF WebParts, FlipsCalled
<1> QED
    BY <1>1, WebviewCorrect, PTL

(* A buffer that the surface, a request, the mailbox, the commit in flight *)
(* or the screen holds is not WebKit's to draw into.                       *)
THEOREM NoBufferReleasedWhileShown == Spec => []NotReleasedWhileShown
<1>1. WebInv => NotReleasedWhileShown
    <2> SUFFICES ASSUME WebInv, NEW f \in Frames, f \in {nextBuf, building, mailbox, flight, screen}
                 PROVE  released[f] = 0
        BY DEF NotReleasedWhileShown
    <2>0. WebParts
        BY WebInvParts
    <2>1. holds[f] > 0
        BY <2>0 DEF WebParts, HoldsExact, One
    <2> QED
        BY <2>0, <2>1 DEF WebParts, ReleasedExact, One
<1> QED
    BY <1>1, WebviewCorrect, PTL

(* Completion tokens, the view's state and the refcounted buffers are      *)
(* counted exactly, so each is freed once and after its last user.         *)
THEOREM WebviewCounts == Spec => []EverythingCounted
<1>1. WebInv => EverythingCounted
    <2> SUFFICES ASSUME WebInv PROVE EverythingCounted
        OBVIOUS
    <2>0. WebParts
        BY WebInvParts
    <2>1. ASSUME NEW f \in Frames
          PROVE  /\ Cardinality({x \in {"waiting"} : waiting = f}) = One(waiting = f)
                 /\ Cardinality({x \in {"callback"} : f \in Callbacks}) = One(f \in Callbacks)
        <3>1. {x \in {"waiting"} : waiting = f} = IF waiting = f THEN {"waiting"} ELSE {}
            OBVIOUS
        <3>2. {x \in {"callback"} : f \in Callbacks} = IF f \in Callbacks THEN {"callback"} ELSE {}
            OBVIOUS
        <3> QED
            BY <3>1, <3>2, FS_EmptySet, FS_Singleton DEF One
    <2>2. Cardinality({x \in {"owner"} : view # "dropped"}) = One(view # "dropped")
        <3>1. {x \in {"owner"} : view # "dropped"} = IF view # "dropped" THEN {"owner"} ELSE {}
            OBVIOUS
        <3> QED
            BY <3>1, FS_EmptySet, FS_Singleton DEF One
    <2>3. TokensCounted
        BY <2>0, <2>1, <2>2 DEF TokensCounted, WebParts, TokensExact, ViewCounted, Callbacks
    <2>4. HoldsCounted
        BY <2>0, RefsInAllPlaces DEF HoldsCounted, WebParts, HoldsExact
    <2> QED
        BY <2>3, <2>4 DEF EverythingCounted
<1> QED
    BY <1>1, WebviewCorrect, PTL
=============================================================================
