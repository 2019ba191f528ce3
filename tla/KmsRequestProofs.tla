-------------------------- MODULE KmsRequestProofs --------------------------
(***************************************************************************)
(* Theorems about KmsRequest for any set of controllers and compositions,  *)
(* and any number of threads, requests and cursor buffers.                 *)
(***************************************************************************)
EXTENDS KmsRequest, FiniteSetTheorems, FunctionTheorems, SequenceTheorems, WellFoundedInduction,
        TLAPS

LayerT == [plane : Nat, fb : Nat, format : Formats, cursor : 0 .. MaxCursors]
PropT == [plane : Nat, fb : Nat, format : Formats, zpos : Nat, blend : Blends]
RequestT ==
    [some : {TRUE}, available : SUBSET Nat, layers : Seq(LayerT), props : Seq(PropT),
     next_zpos : Nat]
Requests == {NoReq} \cup RequestT
Tasks == [op : Ops, req : Requests, cursor : 0 .. MaxCursors]
KernelT == [fb : Nat, format : Formats, zpos : Nat, blend : Blends]
CommittedT == [fb : Nat, format : Formats \cup {"unknown"}]

DeviceTypeOK ==
    /\ dev \in Devices
    /\ kernel \in [Planes -> KernelT] /\ committed \in [Planes -> CommittedT]
    /\ kmode \in Modes /\ cmode \in Modes /\ foreign \subseteq Planes \cup {0}
WindowTypeOK ==
    /\ composition \in Compositions \cup {<<>>} /\ cursor \in 0 .. MaxCursors
    /\ crefs \in [Cursors -> Nat]
FlowTypeOK ==
    /\ builder \in Requests /\ queued \in Requests /\ inflight \in Requests
    /\ screen \in Requests /\ shown \in Requests
    /\ todo \in [Threads -> Seq(Tasks)]
RequestsTypeOK == DeviceTypeOK /\ WindowTypeOK /\ FlowTypeOK

(* A request on controller d: its layers have planes of their own, the     *)
(* rest is available, and only the topmost may be the cursor.              *)
Placed(d, r) ==
    /\ \A i \in DOMAIN r.layers : r.layers[i].plane \in DOMAIN d.planes
    /\ \A i, j \in DOMAIN r.layers : r.layers[i].plane = r.layers[j].plane => i = j
    /\ r.available = DOMAIN d.planes \ {r.layers[i].plane : i \in DOMAIN r.layers}
Pictured(d, r) ==
    /\ \A i \in DOMAIN r.layers :
          IF r.layers[i].cursor = 0
          THEN r.layers[i].fb \in 2 .. 100 /\ d.planes[r.layers[i].plane].type # "cursor"
          ELSE i # 1 /\ i = Len(r.layers) /\ r.layers[i].fb = CursorFb(r.layers[i].cursor)
Matched(d, r) ==
    IF d.atomic
    THEN /\ Len(r.props) = Len(r.layers)
         /\ \A i \in DOMAIN r.layers :
               /\ r.props[i].plane = r.layers[i].plane /\ r.props[i].fb = r.layers[i].fb
               /\ r.props[i].blend = IF i = 1 THEN "none" ELSE "premultiplied"
    ELSE r.props = <<>>

(* The layers are stacked: by zpos, or by the ids where they order planes. *)
OnTop(d) ==
    \A p, q \in DOMAIN d.planes :
        d.planes[p].type = "cursor" /\ d.planes[q].type # "cursor" => p > q
Ranged(d) == \A p, q \in DOMAIN d.planes : p < q => d.planes[p].zmax < d.planes[q].zmin
ByZpos(d, r) ==
    /\ \A i \in DOMAIN r.props : d.planes[r.props[i].plane].zmin <= r.props[i].zpos
    /\ \A i, j \in DOMAIN r.props : i < j => r.props[i].zpos < r.props[j].zpos
    /\ r.props # <<>> => r.next_zpos = r.props[Len(r.props)].zpos + 1
    /\ r.props = <<>> => \A p \in DOMAIN d.planes : r.next_zpos <= d.planes[p].zmin
    /\ OnTop(d) /\ Ranged(d) =>
          \A i \in DOMAIN r.props : r.props[i].zpos <= d.planes[r.props[i].plane].zmax
ById(d, r) == \A i, j \in DOMAIN r.layers : i < j => r.layers[i].plane < r.layers[j].plane
Stacked(d, r) ==
    d.atomic => IF d.zpos THEN ByZpos(d, r) ELSE (OnTop(d) => ById(d, r))
Sane(d, r) == Placed(d, r) /\ Pictured(d, r) /\ Matched(d, r) /\ Stacked(d, r)
Complete(d, r) == Sane(d, r) /\ r.layers # <<>>
RequestsSane ==
    /\ builder.some => Sane(dev, builder)
    /\ \A r \in {queued, inflight, screen, shown} : r.some => Complete(dev, r)

(* What a thread still has to do, counted from the last task.              *)
OpAt(s, n) == s[Len(s) - n].op
Ready(s, b, c) ==
    \A n \in 0 .. Len(s) - 1 :
        /\ OpAt(s, n) = "unlock" => n = 0
        /\ OpAt(s, n) = "submit" => n = 1 /\ OpAt(s, 0) = "unlock" /\ b.some
                                  /\ (b.layers = <<>> => Len(s) > 2 /\ OpAt(s, 2) = "cursor")
        /\ OpAt(s, n) = "cursor" =>
              /\ n = 2 /\ OpAt(s, 1) = "submit" /\ CursorsOf(b) = {}
              /\ b.layers = <<>> => Len(s) > 3 /\ OpAt(s, 3) = "layer"
        /\ OpAt(s, n) = "layer" =>
              n > 2 /\ OpAt(s, 2) = "cursor" /\ n + Len(b.layers) <= Len(c) + 2
Carried(d, s) ==
    \A i \in DOMAIN s :
        /\ s[i].op = "commit" => s[i].req.some /\ Complete(d, s[i].req)
        /\ s[i].op = "release" => s[i].req.some /\ Sane(d, s[i].req)
        /\ s[i].op \notin {"commit", "release"} => s[i].req = NoReq
        /\ i # 1 => s[i].req = NoReq
Locked(s, t, w) == \A n \in 0 .. Len(s) - 1 : OpAt(s, n) = "unlock" => w = {t}
Dropped(s, refs) ==
    \A i \in DOMAIN s :
        IF s[i].op = "rmfb" THEN s[i].cursor \in Cursors /\ refs[s[i].cursor] = 0
        ELSE s[i].cursor = 0
StackOK(t, s) ==
    /\ Ready(s, builder, composition) /\ Carried(dev, s)
    /\ Locked(s, t, winlock) /\ Dropped(s, crefs)
Submits(s) == Len(s) > 1 /\ OpAt(s, 1) = "submit"
StacksOK ==
    /\ \A t \in Threads : StackOK(t, todo[t])
    /\ builder.some => \E t \in Threads : Submits(todo[t])

(* A cursor buffer is referred to as often as it says.                     *)
One(b) == IF b THEN 1 ELSE 0
Has(r, c) == r.some /\ c \in CursorsOf(r)
Holds(s, c) == s # <<>> /\ Has(s[1].req, c)
Holders(c) == {t \in Threads : Holds(todo[t], c)}
Number(c) ==
    One(cursor = c) + One(Has(builder, c)) + One(Has(queued, c)) + One(Has(inflight, c))
    + One(Has(screen, c)) + Cardinality(Holders(c))
Counted(c) == IsFiniteSet(Holders(c)) /\ crefs[c] = Number(c)
CountsOK == \A c \in Cursors : Counted(c)

(* The mode and its blob.                                                  *)
ModeOK ==
    /\ cmode = "other" => blobs = {} /\ cblob = 0
    /\ ~lost => blobs = {cblob} \ {0}
    /\ cmode = "ours" => kmode = "ours" \/ 0 \in foreign
    /\ shown.some => cmode = "ours"

(* What the kernel shows on a plane.                                       *)
NoOnesFb == {Off, ForeignFb}
ShownLast == dev.atomic => shown = IF inflight.some THEN inflight ELSE screen
PlaneOK(p) ==
    /\ p \in foreign \/ ~shown.some => kernel[p].fb \in NoOnesFb
    /\ p \notin foreign /\ shown.some /\ (dev.atomic \/ p = shown.layers[1].plane) =>
          kernel[p].fb = FbMeant(shown, p)
    /\ ~dev.atomic => kernel[p].fb <= 100
    /\ dev.atomic /\ p \notin foreign /\ kernel[p].fb # Off => committed[p].fb # Off
    /\ dev.planes[p].fixed => kernel[p].zpos = dev.planes[p].zmin
LayerOK(i) ==
    LET p == shown.layers[i].plane
    IN  p \notin foreign =>
          /\ dev.planes[p].blends => kernel[p].blend = shown.props[i].blend
          /\ dev.zpos =>
                kernel[p].zpos = IF dev.planes[p].fixed THEN dev.planes[p].zmin
                      ELSE shown.props[i].zpos
KernelOK ==
    /\ ShownLast
    /\ \A p \in Planes : PlaneOK(p)
    /\ dev.atomic /\ shown.some => \A i \in DOMAIN shown.layers : LayerOK(i)

RequestsInv == RequestsTypeOK /\ RequestsSane /\ StacksOK /\ CountsOK /\ ModeOK /\ KernelOK

(* Sets of numbers have a least element.                                   *)
LEMMA MinIs ==
  ASSUME NEW S, S \subseteq Nat, S # {}
  PROVE Min(S) \in S /\ \A y \in S : Min(S) <= y
  <1>1. PICK x \in S : \A y \in S : ~(<<y, x>> \in OpToRel(<, Nat))
    BY NatLessThanWellFounded, WFMin
  <1>2. \A y \in S : ~(y < x) BY <1>1 DEF OpToRel
  <1>3. x \in S /\ \A y \in S : x =< y BY <1>2
  <1> QED BY <1>3 DEF Min

(* The larger of two numbers.                                              *)
LEMMA MaxIs ==
  ASSUME NEW a \in Nat, NEW b \in Nat
  PROVE Max({a, b}) = IF a >= b THEN a ELSE b
  <1> DEFINE m == IF a >= b THEN a ELSE b
  <1>1. m \in {a, b} /\ \A y \in {a, b} : m >= y OBVIOUS
  <1>2. \A x \in {a, b} : (\A y \in {a, b} : x >= y) => x = m OBVIOUS
  <1> HIDE DEF m
  <1>3. Max({a, b}) = m BY <1>1, <1>2 DEF Max
  <1> QED BY <1>3 DEF m

(* What the demands of a list have in common, the chosen plane has.        *)
Within(list, S) == list \in Seq(SUBSET Nat) /\ \A i \in DOMAIN list : list[i] \subseteq S

(* ... also of two lists, one after the other.                             *)
LEMMA WithinConcat ==
  ASSUME NEW S, NEW s, NEW t, Within(s, S), Within(t, S)
  PROVE Within(s \o t, S)
  <1>1. s \in Seq(SUBSET Nat) /\ t \in Seq(SUBSET Nat) BY DEF Within
  <1>2. /\ s \o t \in Seq(SUBSET Nat) /\ Len(s \o t) = Len(s) + Len(t)
        /\ \A i \in 1 .. Len(s) + Len(t) : (s \o t)[i] =
                     IF i <= Len(s) THEN s[i] ELSE t[i - Len(s)]
    BY <1>1, ConcatProperties
  <1>3. Len(s) \in Nat /\ Len(t) \in Nat /\ DOMAIN s = 1 .. Len(s) /\ DOMAIN t = 1 .. Len(t)
        /\ DOMAIN (s \o t) = 1 .. Len(s \o t)
    BY <1>1, <1>2, LenProperties
  <1>4. ASSUME NEW i \in 1 .. Len(s) + Len(t) PROVE (s \o t)[i] \subseteq S
    <2>1. CASE i <= Len(s)
      <3>1. i \in DOMAIN s BY <1>3, <2>1
      <3> QED BY <1>2, <2>1, <3>1 DEF Within
    <2>2. CASE ~(i <= Len(s))
      <3>1. i - Len(s) \in DOMAIN t BY <1>3, <2>2
      <3> QED BY <1>2, <2>2, <3>1 DEF Within
    <2> QED BY <2>1, <2>2
  <1> QED BY <1>2, <1>3, <1>4 DEF Within

(* ... since it is in one of the demands.                                  *)
LEMMA WithinSome ==
  ASSUME NEW S, NEW list, Within(list, S), FirstFit(list) # 0
  PROVE FirstFit(list) \in S
  <1> DEFINE met == {i \in DOMAIN list : list[i] # {}}
             m == Min(met)
  <1>1. met # {} /\ FirstFit(list) = Min(list[m]) BY DEF FirstFit
  <1>2. list \in Seq(SUBSET Nat) BY DEF Within
  <1>3. DOMAIN list = 1 .. Len(list) /\ Len(list) \in Nat BY <1>2, LenProperties
  <1>4. met \subseteq Nat BY <1>3
  <1>5. m \in met BY <1>1, <1>4, MinIs
  <1> HIDE DEF m
  <1>6. m \in DOMAIN list /\ list[m] # {} /\ list[m] \subseteq S BY <1>5 DEF Within
  <1>7. list[m] \subseteq Nat BY <1>2, <1>3, <1>6
  <1>8. Min(list[m]) \in list[m] BY <1>6, <1>7, MinIs
  <1> QED BY <1>1, <1>6, <1>8

(* The planes that a layer may get.                                        *)
Fits(b, l) ==
    {p \in b.available :
        \/ l.prefer_cursor /\ dev.planes[p].type = "cursor"
        \/ b.layers = <<>> /\ dev.planes[p].type = "primary"
        \/ /\ b.layers # <<>> /\ dev.planes[p].type = "overlay"
           /\ \/ dev.zpos /\ b.next_zpos <= dev.planes[p].zmax
              \/ p > b.layers[Len(b.layers)].plane}

(* The plane that is chosen for a layer fits it.                           *)
LEMMA ChosenFits ==
  ASSUME NEW b, b.available \subseteq Nat, NEW l, ChoosePlane(b, l) # 0,
         b.layers # <<>> => b.layers[Len(b.layers)].plane \in Nat
  PROVE ChoosePlane(b, l) \in Fits(b, l)
  <1> DEFINE S == Fits(b, l)
             Cur(r) == DemandsCursor(b, l, r)
             Bot(r) == DemandsBottom(b, l, r)
             Abo(r) == DemandsAbove(b, l, r)
             more == l.rotation /\ ~l.enforce
             cur == Cur(l.rotation) \o (IF more THEN Cur(FALSE) ELSE <<>>)
             bot == Bot(l.rotation) \o (IF more THEN Bot(FALSE) ELSE <<>>)
             abo == Abo(l.rotation) \o (IF more THEN Abo(FALSE) ELSE <<>>)
             list == (IF l.prefer_cursor THEN cur ELSE <<>>)
                     \o (IF b.layers = <<>> THEN bot ELSE abo)
  <1>1. ChoosePlane(b, l) = FirstFit(list) BY DEF ChoosePlane
  <1>2. Within(<<>>, S) BY DEF Within
  <1>3. ASSUME NEW r, l.prefer_cursor PROVE Within(Cur(r), S)
    BY <1>3 DEF Within, DemandsCursor, Qualifying, Fits
  <1>4. ASSUME NEW r, b.layers = <<>> PROVE Within(Bot(r), S)
    BY <1>4 DEF Within, DemandsBottom, Qualifying, Fits
  <1>5. ASSUME NEW r, b.layers # <<>> PROVE Within(Abo(r), S)
    BY <1>5 DEF Within, DemandsAbove, Qualifying, Fits, NoLimit, AtLeast
  <1> HIDE DEF S, Cur, Bot, Abo
  <1>6. l.prefer_cursor => Within(cur, S) BY <1>2, <1>3, WithinConcat
  <1>7. b.layers = <<>> => Within(bot, S) BY <1>2, <1>4, WithinConcat
  <1>8. b.layers # <<>> => Within(abo, S) BY <1>2, <1>5, WithinConcat
  <1> HIDE DEF cur, bot, abo
  <1>9. Within(list, S) BY <1>2, <1>6, <1>7, <1>8, WithinConcat
  <1> HIDE DEF list
  <1> QED BY <1>1, <1>9, WithinSome DEF S

(* A layer as the window asks for it: Flutter's, or its cursor.            *)
Layer(l) ==
    /\ l.cursor \in 0 .. MaxCursors /\ l.fb \in Nat /\ l.format \in Formats
    /\ IF l.cursor = 0 THEN l.fb \in 2 .. 100 /\ ~l.prefer_cursor ELSE l.fb = CursorFb(l.cursor)

(* What is assumed of every controller.                                    *)
LEMMA DeviceIs ==
  ASSUME dev \in Devices
  PROVE /\ dev.atomic \in BOOLEAN /\ dev.zpos \in BOOLEAN
        /\ Planes \subseteq Nat /\ 0 \notin Planes /\ Planes # {}
        /\ \A p \in Planes : /\ dev.planes[p].zmin \in Nat /\ dev.planes[p].zmax \in Nat
                             /\ dev.planes[p].zmin <= dev.planes[p].zmax
                             /\ dev.planes[p].fixed => dev.planes[p].zmin = dev.planes[p].zmax
  BY DevicesAssumption DEF Planes

(* The parts of a request.                                                 *)
LEMMA RequestIs ==
  ASSUME NEW b \in RequestT
  PROVE /\ b.some = TRUE /\ b.available \subseteq Nat /\ b.layers \in Seq(LayerT)
        /\ b.props \in Seq(PropT) /\ b.next_zpos \in Nat
        /\ Len(b.layers) \in Nat /\ DOMAIN b.layers = 1 .. Len(b.layers)
        /\ Len(b.props) \in Nat /\ DOMAIN b.props = 1 .. Len(b.props)
        /\ \A i \in DOMAIN b.layers : b.layers[i] \in LayerT
        /\ \A i \in DOMAIN b.props : b.props[i] \in PropT
  <1>1. /\ b.some = TRUE /\ b.available \subseteq Nat /\ b.layers \in Seq(LayerT)
        /\ b.props \in Seq(PropT) /\ b.next_zpos \in Nat
    BY DEF RequestT
  <1> QED BY <1>1, LenProperties, ElementOfSeq

(* A sequence with one more element.                                       *)
LEMMA AppendIs ==
  ASSUME NEW S, NEW s \in Seq(S), NEW e \in S
  PROVE /\ Append(s, e) \in Seq(S) /\ Len(Append(s, e)) = Len(s) + 1 /\ Append(s, e) # <<>>
        /\ DOMAIN Append(s, e) = 1 .. Len(s) + 1
        /\ \A i \in 1 .. Len(s) : Append(s, e)[i] = s[i]
        /\ Append(s, e)[Len(s) + 1] = e
  <1>1. Append(s, e) \in Seq(S) /\ Len(Append(s, e)) = Len(s) + 1
        /\ \A i \in 1 .. Len(s) : Append(s, e)[i] = s[i]
    OBVIOUS
  <1>2. Append(s, e)[Len(s) + 1] = e OBVIOUS
  <1>3. DOMAIN Append(s, e) = 1 .. Len(s) + 1 BY <1>1, LenProperties
  <1>4. Append(s, e) # <<>> BY <1>1, LenProperties, EmptySeq
  <1> QED BY <1>1, <1>2, <1>3, <1>4

NewLayer(l, p) == [plane |-> p, fb |-> l.fb, format |-> l.format, cursor |-> l.cursor]

(* The zpos of a new layer.                                                *)
LEMMA ZposIs ==
  ASSUME dev \in Devices, NEW b \in RequestT, NEW p \in Planes
  PROVE /\ ZposFor(b, p) \in Nat
        /\ ZposFor(b, p) = IF b.next_zpos >= dev.planes[p].zmin THEN b.next_zpos
              ELSE dev.planes[p].zmin
  <1>1. b.next_zpos \in Nat /\ dev.planes[p].zmin \in Nat BY DeviceIs, RequestIs
  <1> QED BY <1>1, MaxIs DEF ZposFor

(* The parts of a request with one more layer.                             *)
LEMMA PushedIs ==
  ASSUME dev \in Devices, NEW b \in RequestT, NEW l, Layer(l), NEW p \in Planes
  PROVE LET r == PushedLayer(b, l, p)
        IN  /\ r \in RequestT /\ r.available = b.available \ {p}
            /\ r.layers = Append(b.layers, NewLayer(l, p)) /\ NewLayer(l, p) \in LayerT
            /\ r.props = IF dev.atomic THEN Append(b.props, PropsFor(b, l, p)) ELSE b.props
            /\ PropsFor(b, l, p) \in PropT
            /\ r.next_zpos = IF dev.zpos THEN ZposFor(b, p) + 1 ELSE b.next_zpos
  <1> DEFINE avail == b.available \ {p}
             lay == Append(b.layers, NewLayer(l, p))
             pro == IF dev.atomic THEN Append(b.props, PropsFor(b, l, p)) ELSE b.props
             nz == IF dev.zpos THEN ZposFor(b, p) + 1 ELSE b.next_zpos
             r == PushedLayer(b, l, p)
  <1>1. p \in Nat /\ ZposFor(b, p) \in Nat BY DeviceIs, ZposIs
  <1>2. NewLayer(l, p) \in LayerT BY <1>1 DEF NewLayer, LayerT, Layer
  <1>3. PropsFor(b, l, p) \in PropT
    <2>1. BlendFor(b) \in Blends BY DEF BlendFor, Blends
    <2> QED BY <1>1, <2>1 DEF PropsFor, PropT, Layer
  <1>4. avail \in SUBSET Nat /\ lay \in Seq(LayerT) BY <1>2, RequestIs, AppendIs
  <1>5. pro \in Seq(PropT) BY <1>3, RequestIs, AppendIs
  <1>6. nz \in Nat
    <2>1. ZposFor(b, p) + 1 \in Nat BY <1>1
    <2>2. b.next_zpos \in Nat BY RequestIs
    <2> QED BY <2>1, <2>2
  <1>7. r = [b EXCEPT !.available = avail, !.props = pro, !.layers = lay, !.next_zpos = nz]
    BY DEF PushedLayer, AddProperties, RequestT, NewLayer
  <1> HIDE DEF avail, lay, pro, nz, r
  <1>8. r \in RequestT /\ r.available = avail /\ r.layers = lay /\ r.props = pro /\ r.next_zpos = nz
    BY <1>4, <1>5, <1>6, <1>7 DEF RequestT
  <1> QED BY <1>2, <1>3, <1>8 DEF avail, lay, pro, nz, r

(* Taking a layer back leaves the request as it was.                       *)
LEMMA RolledBack ==
  ASSUME NEW b \in RequestT, NEW p \in b.available, NEW pro,
         pro = b.props \/ \E e \in PropT : pro = Append(b.props, e)
  PROVE RollBack([b EXCEPT !.available = @ \ {p}, !.props = pro], Len(b.props), p) = b
  <1> DEFINE c == [b EXCEPT !.available = @ \ {p}, !.props = pro]
             avail == c.available \cup {p}
             old == SubSeq(c.props, 1, Len(b.props))
  <1>1. b.props \in Seq(PropT) /\ Len(b.props) \in Nat BY RequestIs
  <1>2. c.available = b.available \ {p} /\ c.props = pro BY DEF RequestT
  <1>3. avail = b.available BY <1>2
  <1>4. SubSeq(pro, 1, Len(b.props)) = b.props
    <2>1. CASE pro = b.props BY <1>1, <2>1, SubSeqFull
    <2>2. ASSUME NEW e \in PropT, pro = Append(b.props, e)
          PROVE SubSeq(pro, 1, Len(b.props)) = b.props
      <3>1. \A i \in 1 .. Len(b.props) : pro[i] = b.props[i] /\ pro[i] \in PropT
        BY <1>1, <2>2, AppendIs, ElementOfSeq
      <3>2. SubSeq(pro, 1, Len(b.props)) \in Seq(PropT)
                  /\ Len(SubSeq(pro, 1, Len(b.props))) = Len(b.props)
            /\ \A i \in 1 .. Len(b.props) : SubSeq(pro, 1, Len(b.props))[i] = pro[i]
        <4>1. /\ SubSeq(pro, 1, Len(b.props)) \in Seq(PropT)
              /\ Len(SubSeq(pro, 1, Len(b.props))) =
                     IF 1 <= Len(b.props) THEN Len(b.props) - 1 + 1 ELSE 0
              /\ \A i \in 1 .. Len(b.props) - 1 + 1 : SubSeq(pro, 1, Len(b.props))[i]
                    = pro[1 + i - 1]
          BY <1>1, <3>1, SubSeqProperties
        <4> QED BY <1>1, <4>1
      <3> QED BY <1>1, <3>1, <3>2, SeqEqual
    <2> QED BY <2>1, <2>2
  <1>5. old = b.props BY <1>2, <1>4
  <1>6. RollBack(c, Len(b.props), p) = [c EXCEPT !.available = avail, !.props = old]
    BY <1>2 DEF RollBack
  <1> HIDE DEF avail, old
  <1>7. [c EXCEPT !.available = avail, !.props = old] = b
    <2>1. [c EXCEPT !.available = avail, !.props = old] = [b EXCEPT !.available
                = avail, !.props = old]
      BY DEF RequestT
    <2>2. [b EXCEPT !.available = avail, !.props = old] = b BY <1>3, <1>5 DEF RequestT
    <2> QED BY <2>1, <2>2
  <1> QED BY <1>6, <1>7

(* The outcomes of a push: the layer is on top, or nothing has changed.    *)
LEMMA OutcomeIs ==
  ASSUME dev \in Devices, NEW b \in RequestT, Placed(dev, b), NEW l, Layer(l),
         NEW o \in PushFbLayer(b, l)
  PROVE LET p == ChoosePlane(b, l)
        IN  IF o.ok THEN p \in Fits(b, l) /\ o.b = PushedLayer(b, l, p) ELSE o.b = b
  <1> DEFINE p == ChoosePlane(b, l)
             c == [b EXCEPT !.available = @ \ {p}]
             d == AddProperties(b, l, p)
  <1>1. p # 0 => p \in Fits(b, l)
    <2>1. b.available \subseteq Nat /\ (b.layers # <<>> => b.layers[Len(b.layers)].plane \in Nat)
      <3>1. b.available \subseteq Nat BY RequestIs
      <3>2. ASSUME b.layers # <<>> PROVE b.layers[Len(b.layers)].plane \in Nat
        <4>1. b.layers \in Seq(LayerT) BY RequestIs
        <4>2. Len(b.layers) \in 1 .. Len(b.layers) BY <3>2, <4>1, EmptySeq
        <4>3. b.layers[Len(b.layers)] \in LayerT BY <4>1, <4>2, ElementOfSeq
        <4> QED BY <4>3 DEF LayerT
      <3> QED BY <3>1, <3>2
    <2> QED BY <2>1, ChosenFits
  <1>2. Fits(b, l) \subseteq b.available BY DEF Fits
  <1>3. p # 0 => RollBack(c, Len(b.props), p) = b
    <2>1. c = [b EXCEPT !.available = @ \ {p}, !.props = b.props] BY DEF RequestT
    <2> QED BY <1>1, <1>2, <2>1, RolledBack
  <1>4. dev.atomic /\ p # 0 => RollBack(d, Len(b.props), p) = b
    <2> SUFFICES ASSUME dev.atomic, p # 0 PROVE RollBack(d, Len(b.props), p) = b OBVIOUS
    <2> DEFINE pro == Append(b.props, PropsFor(b, l, p))
    <2>1. d = [b EXCEPT !.available = @ \ {p}, !.props = pro] BY DEF AddProperties, RequestT
    <2>2. p \in Planes BY <1>1, <1>2 DEF Placed, Planes
    <2>3. PropsFor(b, l, p) \in PropT BY <2>2, PushedIs
    <2>4. \E e \in PropT : pro = Append(b.props, e) BY <2>3
    <2> HIDE DEF pro, d
    <2> QED BY <1>1, <1>2, <2>1, <2>4, RolledBack
  <1>5. \/ o.b = b /\ o.ok = FALSE
        \/ p # 0 /\ o.b = RollBack(c, Len(b.props), p) /\ o.ok = FALSE
        \/ p # 0 /\ o.b = PushedLayer(b, l, p) /\ o.ok = TRUE
        \/ p # 0 /\ dev.atomic /\ o.b = RollBack(d, Len(b.props), p) /\ o.ok = FALSE
    BY DEF PushFbLayer
  <1> HIDE DEF p, c, d
  <1>6. (o.ok => p \in Fits(b, l) /\ o.b = PushedLayer(b, l, p)) /\ (~o.ok => o.b = b)
    BY <1>1, <1>3, <1>4, <1>5
  <1> QED BY <1>6 DEF p

(* A request b without a cursor, a layer l, and a plane p that fits.       *)
Pushing(b, l, p) ==
    /\ dev \in Devices /\ b \in RequestT /\ Sane(dev, b) /\ Layer(l) /\ p \in Fits(b, l)
    /\ \A i \in DOMAIN b.layers : b.layers[i].cursor = 0
    /\ l.cursor # 0 => b.layers # <<>>

(* The layers of such a request, with the new one on top.                  *)
LEMMA PushingIs ==
  ASSUME NEW b, NEW l, NEW p, Pushing(b, l, p)
  PROVE LET r == PushedLayer(b, l, p)
            n == Len(b.layers)
        IN  /\ p \in Planes /\ p \in b.available
            /\ r \in RequestT /\ r.available = b.available \ {p}
            /\ n \in Nat /\ Len(r.layers) = n + 1 /\ DOMAIN b.layers = 1 .. n
            /\ DOMAIN r.layers = 1 .. n + 1 /\ r.layers # <<>>
            /\ \A i \in 1 .. n : r.layers[i] = b.layers[i]
            /\ r.layers[n + 1] = NewLayer(l, p)
            /\ r.layers[n + 1].plane = p /\ r.layers[n + 1].cursor = l.cursor
  <1>1. p \in b.available BY DEF Pushing, Fits
  <1>2. p \in Planes BY <1>1 DEF Pushing, Sane, Placed, Planes
  <1>3. dev \in Devices /\ b \in RequestT /\ Layer(l) BY DEF Pushing
  <1>4. NewLayer(l, p).plane = p /\ NewLayer(l, p).cursor = l.cursor BY DEF NewLayer
  <1>5. b.layers \in Seq(LayerT) /\ Len(b.layers) \in Nat /\ DOMAIN b.layers = 1 .. Len(b.layers)
    BY <1>3, RequestIs
  <1>6. LET r == PushedLayer(b, l, p)
        IN  /\ r \in RequestT /\ r.available = b.available \ {p}
            /\ r.layers = Append(b.layers, NewLayer(l, p)) /\ NewLayer(l, p) \in LayerT
    BY <1>2, <1>3, PushedIs
  <1> QED BY <1>1, <1>2, <1>4, <1>5, <1>6, AppendIs

(* The new layer has a plane of its own.                                   *)
LEMMA PushedPlaced ==
  ASSUME NEW b, NEW l, NEW p, Pushing(b, l, p)
  PROVE Placed(dev, PushedLayer(b, l, p))
  <1> DEFINE r == PushedLayer(b, l, p)
             n == Len(b.layers)
  <1>1. Placed(dev, b) BY DEF Pushing, Sane
  <1>2. /\ p \in Planes /\ p \in b.available
        /\ n \in Nat /\ DOMAIN b.layers = 1 .. n /\ DOMAIN r.layers = 1 .. n + 1
        /\ r.available = b.available \ {p}
        /\ \A i \in 1 .. n : r.layers[i].plane = b.layers[i].plane
        /\ r.layers[n + 1].plane = p
    BY PushingIs
  <1> HIDE DEF r, n
  <1>3. \A i \in 1 .. n + 1 : i \in 1 .. n \/ i = n + 1 BY <1>2
  <1>4. \A i \in DOMAIN r.layers : r.layers[i].plane \in DOMAIN dev.planes
    BY <1>1, <1>2, <1>3 DEF Placed, Planes
  <1>5. \A i \in 1 .. n : b.layers[i].plane # p BY <1>1, <1>2 DEF Placed
  <1>6. \A i, j \in DOMAIN r.layers : r.layers[i].plane = r.layers[j].plane => i = j
    BY <1>1, <1>2, <1>3, <1>5 DEF Placed
  <1>7. {r.layers[i].plane : i \in DOMAIN r.layers}
              = {b.layers[i].plane : i \in DOMAIN b.layers} \cup {p}
    <2>1. 1 .. n + 1 = (1 .. n) \cup {n + 1} BY <1>2
    <2> QED BY <1>2, <2>1
  <1>8. r.available = DOMAIN dev.planes \ {r.layers[i].plane : i \in DOMAIN r.layers}
    BY <1>1, <1>2, <1>7 DEF Placed
  <1> QED BY <1>4, <1>6, <1>8 DEF Placed, r

(* Only the topmost layer is the cursor.                                   *)
LEMMA PushedPictured ==
  ASSUME NEW b, NEW l, NEW p, Pushing(b, l, p)
  PROVE Pictured(dev, PushedLayer(b, l, p))
  <1> DEFINE r == PushedLayer(b, l, p)
             n == Len(b.layers)
  <1>1. /\ n \in Nat /\ DOMAIN b.layers = 1 .. n /\ DOMAIN r.layers = 1 .. n + 1
              /\ Len(r.layers) = n + 1
        /\ \A i \in 1 .. n : r.layers[i] = b.layers[i]
        /\ r.layers[n + 1] = NewLayer(l, p)
    BY PushingIs
  <1>2. Pictured(dev, b) /\ Layer(l) /\ (\A i \in DOMAIN b.layers : b.layers[i].cursor = 0)
        /\ (l.cursor # 0 => b.layers # <<>>)
    BY DEF Pushing, Sane
  <1>3. \A i \in 1 .. n : /\ r.layers[i].cursor = 0 /\ r.layers[i].fb \in 2 .. 100
                         /\ dev.planes[r.layers[i].plane].type # "cursor"
    <2>1. \A i \in 1 .. n : /\ b.layers[i].cursor = 0 /\ b.layers[i].fb \in 2 .. 100
                           /\ dev.planes[b.layers[i].plane].type # "cursor"
      <3>1. \A i \in DOMAIN b.layers : /\ b.layers[i].cursor = 0 /\ b.layers[i].fb \in 2 .. 100
                                      /\ dev.planes[b.layers[i].plane].type # "cursor"
        BY <1>2 DEF Pictured
      <3> QED BY <1>1, <3>1
    <2> QED BY <1>1, <2>1
  <1>4. l.cursor # 0 => n # 0
    <2>1. b.layers \in Seq(LayerT) BY RequestIs DEF Pushing
    <2> QED BY <1>2, <2>1, EmptySeq
  <1>5. l.cursor = 0 => dev.planes[p].type # "cursor" BY <1>2 DEF Pushing, Fits, Layer
  <1>6. LET e == NewLayer(l, p)
        IN  IF e.cursor = 0 THEN e.fb \in 2 .. 100 /\ dev.planes[e.plane].type # "cursor"
            ELSE n + 1 # 1 /\ e.fb = CursorFb(e.cursor)
    <2>1. NewLayer(l, p).cursor = l.cursor /\ NewLayer(l, p).fb = l.fb /\ NewLayer(l, p).plane = p
      BY DEF NewLayer
    <2> QED BY <1>1, <1>2, <1>4, <1>5, <2>1 DEF Layer
  <1> HIDE DEF r, n
  <1>7. \A i \in 1 .. n + 1 : i \in 1 .. n \/ i = n + 1 BY <1>1
  <1>8. Pictured(dev, r) BY <1>1, <1>3, <1>6, <1>7 DEF Pictured
  <1> QED BY <1>8 DEF r

(* The properties of the new layer are those it asks for.                  *)
LEMMA PushedMatched ==
  ASSUME NEW b, NEW l, NEW p, Pushing(b, l, p)
  PROVE Matched(dev, PushedLayer(b, l, p))
  <1> DEFINE r == PushedLayer(b, l, p)
             n == Len(b.layers)
             q == PropsFor(b, l, p)
  <1>1. /\ n \in Nat /\ DOMAIN b.layers = 1 .. n /\ DOMAIN r.layers = 1 .. n + 1
              /\ Len(r.layers) = n + 1
        /\ \A i \in 1 .. n : r.layers[i] = b.layers[i]
        /\ r.layers[n + 1] = NewLayer(l, p)
    BY PushingIs
  <1>2. Matched(dev, b) /\ b \in RequestT /\ p \in Planes /\ Layer(l) /\ dev \in Devices
    BY PushingIs DEF Pushing, Sane
  <1>3. /\ r.props = IF dev.atomic THEN Append(b.props, q) ELSE b.props
        /\ q \in PropT
    BY <1>2, PushedIs
  <1>4. CASE ~dev.atomic BY <1>2, <1>3, <1>4 DEF Matched
  <1>5. CASE dev.atomic
    <2>1. b.props \in Seq(PropT) /\ Len(b.props) = n BY <1>2, <1>5, RequestIs DEF Matched
    <2>2. /\ Len(r.props) = n + 1 /\ \A i \in 1 .. n : r.props[i] = b.props[i]
          /\ r.props[n + 1] = q
      BY <1>3, <1>5, <2>1, AppendIs
    <2>3. q.plane = p /\ q.fb = l.fb /\ q.blend = BlendFor(b) BY DEF PropsFor
    <2>4. BlendFor(b) = IF n + 1 = 1 THEN "none" ELSE "premultiplied"
      <3>1. b.layers = <<>> <=> n = 0 BY <1>1, <1>2, RequestIs, EmptySeq
      <3> QED BY <1>1, <3>1 DEF BlendFor
    <2>5. NewLayer(l, p).plane = p /\ NewLayer(l, p).fb = l.fb BY DEF NewLayer
    <2> HIDE DEF r, n, q
    <2>6. \A i \in 1 .. n + 1 : i \in 1 .. n \/ i = n + 1 BY <1>1
    <2>7. ASSUME NEW i \in 1 .. n + 1
          PROVE /\ r.props[i].plane = r.layers[i].plane /\ r.props[i].fb = r.layers[i].fb
                /\ r.props[i].blend = IF i = 1 THEN "none" ELSE "premultiplied"
      <3>1. CASE i \in 1 .. n
        <4>1. /\ b.props[i].plane = b.layers[i].plane /\ b.props[i].fb = b.layers[i].fb
              /\ b.props[i].blend = IF i = 1 THEN "none" ELSE "premultiplied"
          BY <1>1, <1>2, <1>5, <3>1 DEF Matched
        <4>2. r.props[i] = b.props[i] /\ r.layers[i] = b.layers[i] BY <1>1, <2>2, <3>1
        <4> QED BY <4>1, <4>2
      <3>2. CASE i = n + 1 BY <1>1, <2>2, <2>3, <2>4, <2>5, <3>2
      <3> QED BY <2>6, <3>1, <3>2
    <2> QED BY <1>1, <1>5, <2>2, <2>7 DEF Matched, r
  <1> QED BY <1>4, <1>5

(* The new layer is above the others.                                      *)
LEMMA PushedById ==
  ASSUME NEW b, NEW l, NEW p, Pushing(b, l, p), ~dev.zpos, OnTop(dev), ById(dev, b)
  PROVE ById(dev, PushedLayer(b, l, p))
  <1> DEFINE r == PushedLayer(b, l, p)
             n == Len(b.layers)
  <1>1. /\ n \in Nat /\ DOMAIN b.layers = 1 .. n /\ DOMAIN r.layers = 1 .. n + 1
        /\ \A i \in 1 .. n : r.layers[i] = b.layers[i]
        /\ r.layers[n + 1].plane = p /\ p \in Planes
    BY PushingIs
  <1>2. ASSUME NEW i \in 1 .. n PROVE b.layers[i].plane < p
    <2>1. b.layers[i].plane \in Planes /\ dev.planes[b.layers[i].plane].type # "cursor"
      BY <1>1 DEF Pushing, Sane, Placed, Pictured, Planes
    <2>2. b.layers[i].plane \in Nat /\ p \in Nat BY <1>1, <2>1, DeviceIs DEF Pushing
    <2>3. CASE dev.planes[p].type = "cursor" BY <1>1, <2>1, <2>2, <2>3 DEF OnTop, Planes
    <2>4. CASE dev.planes[p].type # "cursor"
      <3>1. b.layers # <<>> BY <1>1, EmptySeq DEF Pushing
      <3>2. p > b.layers[n].plane BY <2>4, <3>1 DEF Pushing, Fits
      <3>3. i = n \/ b.layers[i].plane < b.layers[n].plane BY <1>1 DEF ById
      <3>4. b.layers[n].plane \in Nat
        <4>1. b.layers[n].plane \in Planes BY <1>1 DEF Pushing, Sane, Placed, Planes
        <4> QED BY <4>1, DeviceIs DEF Pushing
      <3> QED BY <2>2, <3>2, <3>3, <3>4
    <2> QED BY <2>3, <2>4
  <1> HIDE DEF r, n
  <1>3. \A i, j \in 1 .. n + 1 : i < j => i \in 1 .. n /\ (j \in 1 .. n \/ j = n + 1) BY <1>1
  <1>4. ASSUME NEW i \in 1 .. n + 1, NEW j \in 1 .. n + 1, i < j
        PROVE r.layers[i].plane < r.layers[j].plane
    <2>1. CASE j \in 1 .. n BY <1>1, <1>3, <1>4, <2>1 DEF ById
    <2>2. CASE j = n + 1 BY <1>1, <1>2, <1>3, <1>4, <2>2
    <2> QED BY <1>3, <1>4, <2>1, <2>2
  <1> QED BY <1>1, <1>4 DEF ById, r

(* ... and by zpos where there is one.                                     *)
LEMMA PushedByZpos ==
  ASSUME NEW b, NEW l, NEW p, Pushing(b, l, p), dev.atomic, dev.zpos, ByZpos(dev, b)
  PROVE ByZpos(dev, PushedLayer(b, l, p))
  <1> DEFINE r == PushedLayer(b, l, p)
             n == Len(b.props)
             z == ZposFor(b, p)
  <1>1. /\ dev \in Devices /\ b \in RequestT /\ Layer(l) /\ p \in Planes
        /\ Len(b.layers) = n /\ \A i \in 1 .. n : b.props[i].plane = b.layers[i].plane
    BY PushingIs DEF Pushing, Sane, Matched
  <1>2. b.props \in Seq(PropT) /\ n \in Nat /\ DOMAIN b.props = 1 .. n BY <1>1, RequestIs
  <1>3. /\ r.props = Append(b.props, PropsFor(b, l, p)) /\ PropsFor(b, l, p) \in PropT
        /\ r.next_zpos = z + 1
    BY <1>1, PushedIs
  <1>4. /\ DOMAIN r.props = 1 .. n + 1 /\ Len(r.props) = n + 1 /\ r.props # <<>>
        /\ \A i \in 1 .. n : r.props[i] = b.props[i]
        /\ r.props[n + 1] = PropsFor(b, l, p)
    BY <1>2, <1>3, AppendIs
  <1>5. r.props[n + 1].plane = p /\ r.props[n + 1].zpos = z BY <1>4 DEF PropsFor
  <1>6. /\ z \in Nat /\ b.next_zpos \in Nat /\ b.next_zpos <= z
        /\ dev.planes[p].zmin \in Nat /\ dev.planes[p].zmax \in Nat
        /\ dev.planes[p].zmin <= z /\ dev.planes[p].zmin <= dev.planes[p].zmax
        /\ (z = b.next_zpos \/ z = dev.planes[p].zmin)
    <2>1. /\ z \in Nat /\ z = IF b.next_zpos >= dev.planes[p].zmin THEN b.next_zpos
                ELSE dev.planes[p].zmin
      BY <1>1, ZposIs
    <2>2. b.next_zpos \in Nat BY <1>1, RequestIs
    <2>3. dev.planes[p].zmin \in Nat /\ dev.planes[p].zmax \in Nat
                /\ dev.planes[p].zmin <= dev.planes[p].zmax
      BY <1>1, DeviceIs
    <2> HIDE DEF z
    <2> QED BY <2>1, <2>2, <2>3
  <1>7. \A i \in 1 .. n : b.props[i].zpos \in Nat BY <1>1, <1>2, RequestIs DEF PropT
  <1>8. \A i \in 1 .. n : b.props[i].zpos < z
    <2> TAKE i \in 1 .. n
    <2>1. b.props # <<>> /\ n \in 1 .. n BY <1>2, EmptySeq
    <2>2. b.next_zpos = b.props[n].zpos + 1 BY <2>1 DEF ByZpos
    <2>3. i = n \/ b.props[i].zpos < b.props[n].zpos BY <1>2, <2>1 DEF ByZpos
    <2> HIDE DEF z, n
    <2> QED BY <1>6, <1>7, <2>1, <2>2, <2>3
  <1>9. OnTop(dev) /\ Ranged(dev) => z <= dev.planes[p].zmax
    <2> SUFFICES ASSUME OnTop(dev), Ranged(dev), b.next_zpos > dev.planes[p].zmax PROVE FALSE
      <3> HIDE DEF z
      <3> QED BY <1>6
    <2>1. b.props # <<>> BY <1>1, <1>6 DEF ByZpos, Planes
    <2>2. n \in 1 .. n BY <1>2, <2>1, EmptySeq
    <2>3. b.next_zpos = b.props[n].zpos + 1 /\ b.props[n].zpos <= dev.planes[b.props[n].plane].zmax
      BY <1>2, <2>1, <2>2 DEF ByZpos
    <2> DEFINE q == b.layers[n].plane
    <2>4. q \in Planes /\ dev.planes[q].type # "cursor" /\ b.props[n].plane = q
      <3>1. n \in DOMAIN b.layers BY <1>1, <2>2, RequestIs
      <3> QED BY <1>1, <2>2, <3>1 DEF Pushing, Sane, Placed, Pictured, Planes
    <2>5. b.layers # <<>> BY <1>1, <2>2, EmptySeq
    <2>6. p > q
      <3>1. CASE dev.planes[p].type = "cursor" BY <1>1, <2>4, <3>1 DEF OnTop, Planes
      <3>2. CASE dev.planes[p].type # "cursor"
        <4>1. dev.planes[p].zmax \in Nat /\ b.next_zpos \in Nat BY <1>6
        <4> QED BY <1>1, <2>5, <3>2, <4>1 DEF Pushing, Fits, Layer
      <3> QED BY <3>1, <3>2
    <2>7. p \in Nat /\ q \in Nat /\ dev.planes[q].zmax \in Nat BY <1>1, <2>4, DeviceIs
    <2>8. dev.planes[q].zmax < dev.planes[p].zmin BY <1>1, <2>4, <2>6, <2>7 DEF Ranged, Planes
    <2>9. b.props[n].zpos \in Nat BY <1>7, <2>2
    <2> HIDE DEF q, n, z
    <2> QED BY <1>6, <2>3, <2>4, <2>7, <2>8, <2>9
  <1> HIDE DEF r, n, z
  <1>10. \A i \in 1 .. n + 1 : i \in 1 .. n \/ i = n + 1 BY <1>2
  <1>11. \A i \in DOMAIN r.props : dev.planes[r.props[i].plane].zmin <= r.props[i].zpos
    BY <1>2, <1>4, <1>5, <1>6, <1>10 DEF ByZpos
  <1>12. ASSUME NEW i \in DOMAIN r.props, NEW j \in DOMAIN r.props, i < j
         PROVE r.props[i].zpos < r.props[j].zpos
    <2>1. i \in 1 .. n BY <1>2, <1>4, <1>12
    <2>2. CASE j \in 1 .. n BY <1>2, <1>4, <1>12, <2>1, <2>2 DEF ByZpos
    <2>3. CASE j = n + 1 BY <1>4, <1>5, <1>8, <2>1, <2>3
    <2> QED BY <1>4, <1>10, <2>2, <2>3
  <1>13. r.next_zpos = r.props[Len(r.props)].zpos + 1 BY <1>3, <1>4, <1>5
  <1>14. ASSUME OnTop(dev), Ranged(dev), NEW i \in DOMAIN r.props
         PROVE r.props[i].zpos <= dev.planes[r.props[i].plane].zmax
    BY <1>2, <1>4, <1>5, <1>9, <1>10, <1>14 DEF ByZpos
  <1> QED BY <1>4, <1>11, <1>12, <1>13, <1>14 DEF ByZpos, r

(* Together: a layer more leaves a request sane.                           *)
LEMMA PushedSane ==
  ASSUME NEW b, NEW l, NEW p, Pushing(b, l, p)
  PROVE LET r == PushedLayer(b, l, p)
        IN  r \in RequestT /\ Complete(dev, r) /\ CursorsOf(r) = {l.cursor} \ {0}
  <1> DEFINE r == PushedLayer(b, l, p)
             n == Len(b.layers)
  <1>1. Stacked(dev, r)
    <2>1. Stacked(dev, b) BY DEF Pushing, Sane
    <2> QED BY <2>1, PushedById, PushedByZpos DEF Stacked
  <1>2. Sane(dev, r) BY <1>1, PushedPlaced, PushedPictured, PushedMatched DEF Sane
  <1>3. /\ r \in RequestT /\ r.layers # <<>> /\ DOMAIN r.layers = 1 .. n + 1 /\ n \in Nat
        /\ \A i \in 1 .. n : r.layers[i].cursor = 0
        /\ r.layers[n + 1].cursor = l.cursor
    <2>1. \A i \in DOMAIN b.layers : b.layers[i].cursor = 0 BY DEF Pushing
    <2> QED BY <2>1, PushingIs
  <1>4. CursorsOf(r) = {l.cursor} \ {0}
    <2> HIDE DEF r, n
    <2>1. \A i \in 1 .. n + 1 : i \in 1 .. n \/ i = n + 1 BY <1>3
    <2>2. n + 1 \in 1 .. n + 1 BY <1>3
    <2> QED BY <1>3, <2>1, <2>2 DEF CursorsOf
  <1> QED BY <1>2, <1>3, <1>4 DEF Complete

(* A new request has no layers and every plane.                            *)
LEMMA NewBuilderSane ==
  ASSUME dev \in Devices
  PROVE /\ NewBuilder \in RequestT /\ Sane(dev, NewBuilder) /\ NewBuilder.some
        /\ NewBuilder.layers = <<>> /\ CursorsOf(NewBuilder) = {}
  <1> DEFINE mins == {dev.planes[p].zmin : p \in Planes}
             z == IF dev.zpos THEN Min(mins) ELSE 0
  <1>1. NewBuilder = [some |-> TRUE, available |-> Planes, layers |-> <<>>, props |-> <<>>,
                      next_zpos |-> z]
    BY DEF NewBuilder
  <1>2. mins \subseteq Nat /\ mins # {} BY DeviceIs
  <1>3. Min(mins) \in mins /\ \A y \in mins : Min(mins) <= y BY <1>2, MinIs
  <1>4. z \in Nat BY <1>2, <1>3
  <1>5. dev.zpos => \A p \in Planes : z <= dev.planes[p].zmin BY <1>3
  <1> HIDE DEF mins, z
  <1>6. NewBuilder \in RequestT BY <1>1, <1>4, DeviceIs DEF RequestT
  <1>7. NewBuilder.layers = <<>> /\ NewBuilder.props = <<>> /\ NewBuilder.available = Planes
        /\ NewBuilder.some /\ NewBuilder.next_zpos = z
    BY <1>1
  <1>8. CursorsOf(NewBuilder) = {} BY <1>7 DEF CursorsOf
  <1>9. Placed(dev, NewBuilder) BY <1>7 DEF Placed, Planes
  <1>10. Pictured(dev, NewBuilder) BY <1>7 DEF Pictured
  <1>11. Matched(dev, NewBuilder) BY <1>7 DEF Matched
  <1>12. Stacked(dev, NewBuilder)
    <2>1. dev.zpos => ByZpos(dev, NewBuilder) BY <1>5, <1>7 DEF ByZpos, Planes
    <2>2. ById(dev, NewBuilder) BY <1>7 DEF ById
    <2> QED BY <2>1, <2>2 DEF Stacked
  <1> QED BY <1>6, <1>7, <1>8, <1>9, <1>10, <1>11, <1>12 DEF Sane

(* The first task of s makes way for others.                               *)
LEMMA ReplacedIs ==
  ASSUME NEW s \in Seq(Tasks), s # <<>>, NEW tasks \in Seq(Tasks)
  PROVE LET z == tasks \o Tail(s)
        IN  /\ z \in Seq(Tasks) /\ Len(z) = Len(tasks) + Len(s) - 1 /\ Len(s) \in Nat \ {0}
            /\ Len(tasks) \in Nat /\ DOMAIN tasks = 1 .. Len(tasks)
            /\ DOMAIN z = 1 .. Len(z) /\ DOMAIN s = 1 .. Len(s)
            /\ \A i \in 1 .. Len(tasks) : z[i] = tasks[i]
            /\ \A i \in 1 .. Len(s) - 1 : z[Len(tasks) + i] = s[i + 1]
  <1>1. /\ Tail(s) \in Seq(Tasks) /\ Len(Tail(s)) = Len(s) - 1 /\ Len(s) \in Nat \ {0}
        /\ \A i \in 1 .. Len(s) - 1 : Tail(s)[i] = s[i + 1]
    BY HeadTailProperties, EmptySeq
  <1>2. Len(tasks) \in Nat /\ DOMAIN tasks = 1 .. Len(tasks) /\ DOMAIN s = 1 .. Len(s)
    BY LenProperties
  <1> DEFINE z == tasks \o Tail(s)
             k == Len(tasks)
  <1>3. /\ z \in Seq(Tasks) /\ Len(z) = k + (Len(s) - 1)
        /\ \A i \in 1 .. k + (Len(s) - 1) : z[i] = IF i <= k THEN tasks[i] ELSE Tail(s)[i - k]
    BY <1>1, ConcatProperties
  <1>4. DOMAIN z = 1 .. Len(z) BY <1>3, LenProperties
  <1> HIDE DEF z, k
  <1>5. \A i \in 1 .. k : z[i] = tasks[i] BY <1>1, <1>2, <1>3 DEF k
  <1>6. ASSUME NEW i \in 1 .. Len(s) - 1 PROVE z[k + i] = s[i + 1]
    <2>1. k + i \in 1 .. k + (Len(s) - 1) /\ ~(k + i <= k) /\ (k + i) - k = i BY <1>1, <1>2 DEF k
    <2> QED BY <1>1, <1>3, <2>1
  <1>7. Len(z) = k + Len(s) - 1 BY <1>1, <1>2, <1>3 DEF k
  <1> QED BY <1>1, <1>2, <1>3, <1>4, <1>5, <1>6, <1>7 DEF z, k

(* Counted from the last task, what remains stays where it was.            *)
LEMMA ReplacedAt ==
  ASSUME NEW s \in Seq(Tasks), s # <<>>, NEW tasks \in Seq(Tasks)
  PROVE LET z == tasks \o Tail(s)
        IN  /\ \A n \in 0 .. Len(s) - 2 : OpAt(z, n) = OpAt(s, n)
            /\ \A n \in Len(s) - 1 .. Len(z) - 1 :
                  \E i \in DOMAIN tasks : OpAt(z, n) = tasks[i].op
  <1> DEFINE z == tasks \o Tail(s)
             k == Len(tasks)
             m == Len(s)
  <1>1. /\ Len(z) = k + m - 1 /\ m \in Nat \ {0} /\ k \in Nat /\ DOMAIN tasks = 1 .. k
        /\ \A i \in 1 .. k : z[i] = tasks[i]
        /\ \A i \in 1 .. m - 1 : z[k + i] = s[i + 1]
    BY ReplacedIs
  <1> HIDE DEF z, k, m
  <1>2. ASSUME NEW n \in 0 .. m - 2 PROVE z[Len(z) - n] = s[m - n]
    <2>1. m - 1 - n \in 1 .. m - 1 /\ k + (m - 1 - n) = Len(z) - n /\ (m - 1 - n) + 1 = m - n
      BY <1>1
    <2> QED BY <1>1, <2>1
  <1>3. ASSUME NEW n \in m - 1 .. Len(z) - 1
        PROVE \E i \in DOMAIN tasks : z[Len(z) - n] = tasks[i]
    <2>1. Len(z) - n \in 1 .. k BY <1>1
    <2> QED BY <1>1, <2>1
  <1> QED BY <1>2, <1>3 DEF OpAt, z, k, m

Plain == {"commit", "release", "failed", "scanout", "addfb", "rmfb", "unlist"}

(* Plain tasks that replace one another leave the building of a request    *)
(* alone.                                                                  *)
LEMMA PlainReady ==
  ASSUME NEW s \in Seq(Tasks), s # <<>>, NEW tasks \in Seq(Tasks), NEW b, NEW c,
         Ready(s, b, c), s[1].op \in Plain, \A i \in DOMAIN tasks : tasks[i].op \in Plain
  PROVE LET z == tasks \o Tail(s)
        IN  Ready(z, b, c) /\ (Submits(s) => Submits(z))
            /\ \A n \in 0 .. Len(z) - 1 : OpAt(z, n) = "unlock" => n \in 0 .. Len(s) - 2
                  /\ OpAt(s, n) = "unlock"
  <1> DEFINE z == tasks \o Tail(s)
             m == Len(s)
  <1>1. m \in Nat \ {0} /\ Len(z) \in Nat /\ Len(z) >= m - 1
    <2>1. Len(z) = Len(tasks) + Len(s) - 1 /\ Len(s) \in Nat \ {0} /\ Len(tasks) \in Nat
      BY ReplacedIs
    <2> QED BY <2>1
  <1>2. /\ \A n \in 0 .. m - 2 : OpAt(z, n) = OpAt(s, n)
        /\ \A n \in m - 1 .. Len(z) - 1 : OpAt(z, n) \in Plain
    BY ReplacedAt
  <1>3. OpAt(s, m - 1) \in Plain
    <2>1. m - (m - 1) = 1 BY <1>1
    <2> QED BY <2>1 DEF OpAt
  <1> HIDE DEF z, m
  <1>4. \A n \in 0 .. Len(z) - 1 : OpAt(z, n) \in Plain \/ (n \in 0 .. m - 2
              /\ OpAt(z, n) = OpAt(s, n))
    BY <1>1, <1>2
  <1>5. ASSUME NEW n \in 0 .. m - 1, OpAt(s, n) \notin Plain
        PROVE n \in 0 .. m - 2 /\ n < Len(z) /\ OpAt(z, n) = OpAt(s, n)
    <2>1. n # m - 1 BY <1>3, <1>5
    <2> QED BY <1>1, <1>2, <2>1
  <1>6. ASSUME NEW n \in 0 .. Len(z) - 1
        PROVE /\ OpAt(z, n) = "unlock" => n = 0
              /\ OpAt(z, n) = "submit" => n = 1 /\ OpAt(z, 0) = "unlock" /\ b.some
                                        /\ (b.layers = <<>> => Len(z) > 2 /\ OpAt(z, 2) = "cursor")
              /\ OpAt(z, n) = "cursor" =>
                    /\ n = 2 /\ OpAt(z, 1) = "submit" /\ CursorsOf(b) = {}
                    /\ b.layers = <<>> => Len(z) > 3 /\ OpAt(z, 3) = "layer"
              /\ OpAt(z, n) = "layer" =>
                    n > 2 /\ OpAt(z, 2) = "cursor" /\ n + Len(b.layers) <= Len(c) + 2
    <2>1. CASE OpAt(z, n) \in Plain BY <2>1 DEF Plain
    <2>2. CASE n \in 0 .. m - 2 /\ OpAt(z, n) = OpAt(s, n)
      <3>1. n \in 0 .. m - 1 BY <1>1, <2>2
      <3>2. /\ OpAt(s, n) = "unlock" => n = 0
            /\ OpAt(s, n) = "submit" => n = 1 /\ OpAt(s, 0) = "unlock" /\ b.some
                                      /\ (b.layers = <<>> => m > 2 /\ OpAt(s, 2) = "cursor")
            /\ OpAt(s, n) = "cursor" =>
                  /\ n = 2 /\ OpAt(s, 1) = "submit" /\ CursorsOf(b) = {}
                  /\ b.layers = <<>> => m > 3 /\ OpAt(s, 3) = "layer"
            /\ OpAt(s, n) = "layer" =>
                  n > 2 /\ OpAt(s, 2) = "cursor" /\ n + Len(b.layers) <= Len(c) + 2
        BY <3>1 DEF Ready, m
      <3>3. OpAt(s, n) = "submit" => OpAt(z, 0) = "unlock" /\ (b.layers = <<>> => Len(z) > 2
                  /\ OpAt(z, 2) = "cursor")
        BY <1>1, <1>5, <2>2, <3>2 DEF Plain
      <3>4. OpAt(s, n) = "cursor" => OpAt(z, 1) = "submit" /\ (b.layers = <<>> => Len(z) > 3
                  /\ OpAt(z, 3) = "layer")
        BY <1>1, <1>5, <2>2, <3>2 DEF Plain
      <3>5. OpAt(s, n) = "layer" => OpAt(z, 2) = "cursor"
        <4>1. SUFFICES ASSUME OpAt(s, n) = "layer" PROVE OpAt(z, 2) = "cursor" OBVIOUS
        <4>2. n > 2 /\ OpAt(s, 2) = "cursor" BY <3>2, <4>1
        <4>3. 2 \in 0 .. m - 1 BY <1>1, <2>2, <4>2
        <4>4. OpAt(s, 2) \notin Plain BY <4>2 DEF Plain
        <4> QED BY <1>5, <4>2, <4>3, <4>4
      <3> QED BY <2>2, <3>2, <3>3, <3>4, <3>5
    <2> QED BY <1>4, <2>1, <2>2
  <1>7. Ready(z, b, c) BY <1>6 DEF Ready
  <1>8. Submits(s) => Submits(z) BY <1>1, <1>5 DEF Submits, Plain, m
  <1>9. \A n \in 0 .. Len(z) - 1 : OpAt(z, n) = "unlock" => n \in 0 .. m - 2
              /\ OpAt(s, n) = "unlock"
    BY <1>4 DEF Plain
  <1> QED BY <1>7, <1>8, <1>9 DEF z, m

(* A thread that does not hold the window has no part in the request.      *)
LEMMA NoPart ==
  ASSUME NEW s, NEW b, NEW c, Ready(s, b, c), ~\E n \in 0 .. Len(s) - 1 : OpAt(s, n) = "unlock",
         Len(s) \in Nat, NEW b2, NEW c2
  PROVE Ready(s, b2, c2) /\ ~Submits(s)
  <1>1. \A n \in 0 .. Len(s) - 1 : OpAt(s, n) # "unlock" BY DEF Ready
  <1>2. \A n \in 0 .. Len(s) - 1 : OpAt(s, n) # "submit"
    <2> SUFFICES ASSUME NEW n \in 0 .. Len(s) - 1, OpAt(s, n) = "submit" PROVE FALSE OBVIOUS
    <2>1. OpAt(s, 0) = "unlock" /\ 0 \in 0 .. Len(s) - 1 BY DEF Ready
    <2> QED BY <1>1, <2>1
  <1>3. \A n \in 0 .. Len(s) - 1 : OpAt(s, n) # "cursor"
    <2> SUFFICES ASSUME NEW n \in 0 .. Len(s) - 1, OpAt(s, n) = "cursor" PROVE FALSE OBVIOUS
    <2>1. OpAt(s, 1) = "submit" /\ 1 \in 0 .. Len(s) - 1 BY DEF Ready
    <2> QED BY <1>2, <2>1
  <1>4. \A n \in 0 .. Len(s) - 1 : OpAt(s, n) # "layer"
    <2> SUFFICES ASSUME NEW n \in 0 .. Len(s) - 1, OpAt(s, n) = "layer" PROVE FALSE OBVIOUS
    <2>1. OpAt(s, 2) = "cursor" /\ 2 \in 0 .. Len(s) - 1 BY DEF Ready
    <2> QED BY <1>3, <2>1
  <1>5. Ready(s, b2, c2) BY <1>1, <1>2, <1>3, <1>4 DEF Ready
  <1>6. ~Submits(s) BY <1>2 DEF Submits
  <1> QED BY <1>5, <1>6

(* One stack changes; the request being built does not.                    *)
LEMMA StackSet ==
  ASSUME StacksOK, FlowTypeOK, NEW t \in Threads, NEW z \in Seq(Tasks),
         todo' = [todo EXCEPT ![t] = z],
         dev' = dev, builder' = builder, composition' = composition, winlock' = winlock,
         Ready(z, builder, composition), Carried(dev, z), Locked(z, t, winlock), Dropped(z, crefs'),
         \A c \in Cursors : crefs[c] = 0 => crefs'[c] = 0,
         Submits(todo[t]) => Submits(z)
  PROVE StacksOK' /\ todo' \in [Threads -> Seq(Tasks)]
  <1>1. /\ todo \in [Threads -> Seq(Tasks)] /\ todo' \in [Threads -> Seq(Tasks)]
        /\ todo'[t] = z /\ \A u \in Threads : u # t => todo'[u] = todo[u]
    BY DEF FlowTypeOK
  <1>2. ASSUME NEW u \in Threads, u # t PROVE StackOK(u, todo[u])'
    <2>1. /\ Ready(todo[u], builder, composition) /\ Carried(dev, todo[u])
          /\ Locked(todo[u], u, winlock) /\ Dropped(todo[u], crefs)
      BY DEF StacksOK, StackOK
    <2>2. Dropped(todo[u], crefs') BY <2>1 DEF Dropped
    <2> QED BY <1>1, <1>2, <2>1, <2>2 DEF StackOK
  <1>3. StackOK(t, todo[t])' BY <1>1 DEF StackOK
  <1>4. builder'.some => \E u \in Threads : Submits(todo'[u])
    <2> SUFFICES ASSUME builder.some PROVE \E u \in Threads : Submits(todo'[u]) OBVIOUS
    <2>1. PICK u \in Threads : Submits(todo[u]) BY DEF StacksOK
    <2>2. CASE u = t BY <1>1, <2>1, <2>2
    <2>3. CASE u # t BY <1>1, <2>1, <2>3
    <2> QED BY <2>2, <2>3
  <1> QED BY <1>1, <1>2, <1>3, <1>4 DEF StacksOK, Submits

(* What may be pushed by a call that is no part of building a request.     *)
PushOK(d, tasks) ==
    /\ tasks \in Seq(Tasks) /\ Carried(d, tasks)
    /\ \A i \in DOMAIN tasks : tasks[i].op \in Plain \ {"rmfb"} /\ tasks[i].cursor = 0

(* The requests in the tasks stay where they may be.                       *)
LEMMA CarriedReplaced ==
  ASSUME NEW d, NEW s \in Seq(Tasks), s # <<>>, NEW tasks \in Seq(Tasks), Carried(d, s),
         Carried(d, tasks)
  PROVE Carried(d, tasks \o Tail(s))
  <1> DEFINE z == tasks \o Tail(s)
             k == Len(tasks)
             m == Len(s)
  <1>1. /\ Len(z) = k + m - 1 /\ m \in Nat \ {0} /\ k \in Nat /\ DOMAIN tasks = 1 .. k
        /\ DOMAIN z = 1 .. Len(z) /\ DOMAIN s = 1 .. m
        /\ \A i \in 1 .. k : z[i] = tasks[i]
        /\ \A i \in 1 .. m - 1 : z[k + i] = s[i + 1]
    BY ReplacedIs
  <1> HIDE DEF z, k, m
  <1>2. ASSUME NEW i \in 1 .. k
        PROVE /\ z[i].op = "commit" => z[i].req.some /\ Complete(d, z[i].req)
              /\ z[i].op = "release" => z[i].req.some /\ Sane(d, z[i].req)
              /\ z[i].op \notin {"commit", "release"} => z[i].req = NoReq
              /\ i # 1 => z[i].req = NoReq
    BY <1>1 DEF Carried
  <1>3. ASSUME NEW i \in k + 1 .. Len(z)
        PROVE z[i].op \notin {"commit", "release"} /\ z[i].req = NoReq
    <2>1. i - k \in 1 .. m - 1 /\ k + (i - k) = i /\ (i - k) + 1 \in 1 .. m /\ (i - k) + 1 # 1
      BY <1>1
    <2>2. z[i] = s[(i - k) + 1] BY <1>1, <2>1
    <2>3. s[(i - k) + 1].req = NoReq BY <1>1, <2>1 DEF Carried
    <2>4. s[(i - k) + 1].op \notin {"commit", "release"} BY <1>1, <2>1, <2>3 DEF Carried, NoReq
    <2> QED BY <2>2, <2>3, <2>4
  <1>4. \A i \in 1 .. Len(z) : i \in 1 .. k \/ i \in k + 1 .. Len(z) BY <1>1
  <1>5. Carried(d, z) BY <1>1, <1>2, <1>3, <1>4 DEF Carried
  <1> QED BY <1>5 DEF z

(* Framebuffers that are to be removed stay unused.                        *)
LEMMA DroppedReplaced ==
  ASSUME NEW s \in Seq(Tasks), s # <<>>, NEW tasks \in Seq(Tasks), NEW refs,
         Dropped(s, refs), Dropped(tasks, refs)
  PROVE Dropped(tasks \o Tail(s), refs)
  <1> DEFINE z == tasks \o Tail(s)
             k == Len(tasks)
             m == Len(s)
  <1>1. /\ Len(z) = k + m - 1 /\ m \in Nat \ {0} /\ k \in Nat /\ DOMAIN tasks = 1 .. k
        /\ DOMAIN z = 1 .. Len(z) /\ DOMAIN s = 1 .. m
        /\ \A i \in 1 .. k : z[i] = tasks[i]
        /\ \A i \in 1 .. m - 1 : z[k + i] = s[i + 1]
    BY ReplacedIs
  <1> HIDE DEF z, k, m
  <1>2. \A i \in k + 1 .. Len(z) : z[i] = s[(i - k) + 1] /\ (i - k) + 1 \in 1 .. m
    <2> TAKE i \in k + 1 .. Len(z)
    <2>1. i - k \in 1 .. m - 1 /\ k + (i - k) = i /\ (i - k) + 1 \in 1 .. m BY <1>1
    <2> QED BY <1>1, <2>1
  <1>3. \A i \in 1 .. Len(z) : i \in 1 .. k \/ i \in k + 1 .. Len(z) BY <1>1
  <1>4. Dropped(z, refs) BY <1>1, <1>2, <1>3 DEF Dropped
  <1> QED BY <1>4 DEF z

(* A plain task makes way for others: the stacks.                          *)
LEMMA PlainStep ==
  ASSUME StacksOK, FlowTypeOK, NEW t \in Threads, todo[t] # <<>>, todo[t][1].op \in Plain,
         NEW tasks, PushOK(dev, tasks), todo' = [todo EXCEPT ![t] = tasks \o Tail(todo[t])],
         dev' = dev, builder' = builder, composition' = composition, winlock' = winlock,
         \A c \in Cursors : crefs[c] = 0 => crefs'[c] = 0
  PROVE StacksOK' /\ todo' \in [Threads -> Seq(Tasks)]
  <1> DEFINE s == todo[t]
             z == tasks \o Tail(s)
  <1>1. s \in Seq(Tasks) /\ s # <<>> /\ tasks \in Seq(Tasks) BY DEF FlowTypeOK, PushOK
  <1>2. z \in Seq(Tasks) BY <1>1, ReplacedIs
  <1>3. /\ Ready(s, builder, composition) /\ Carried(dev, s) /\ Locked(s, t, winlock)
              /\ Dropped(s, crefs)
    BY DEF StacksOK, StackOK
  <1>4. /\ Ready(z, builder, composition) /\ (Submits(s) => Submits(z))
        /\ \A n \in 0 .. Len(z) - 1 : OpAt(z, n) = "unlock" => n \in 0 .. Len(s) - 2
              /\ OpAt(s, n) = "unlock"
    <2>1. \A i \in DOMAIN tasks : tasks[i].op \in Plain BY DEF PushOK
    <2> QED BY <1>1, <1>3, <2>1, PlainReady
  <1>5. Carried(dev, z) BY <1>1, <1>3, CarriedReplaced DEF PushOK
  <1>6. Locked(z, t, winlock)
    <2>1. Len(s) \in Nat BY <1>1, LenProperties
    <2>2. \A n \in 0 .. Len(s) - 2 : n \in 0 .. Len(s) - 1 BY <2>1
    <2> QED BY <1>3, <1>4, <2>2 DEF Locked
  <1>7. Dropped(z, crefs')
    <2>1. Dropped(s, crefs') BY <1>3 DEF Dropped
    <2>2. Dropped(tasks, crefs') BY DEF PushOK, Dropped
    <2> QED BY <1>1, <2>1, <2>2, DroppedReplaced
  <1> HIDE DEF s, z
  <1>8. todo' = [todo EXCEPT ![t] = z] BY DEF s, z
  <1>9. Submits(todo[t]) => Submits(z) BY <1>4 DEF s
  <1> QED BY <1>2, <1>4, <1>5, <1>6, <1>7, <1>8, <1>9, StackSet

(* What a thread refers to.                                                *)
LEMMA HoldersChange ==
  ASSUME FlowTypeOK, NEW t \in Threads, NEW z, todo' = [todo EXCEPT ![t] = z],
         NEW c, IsFiniteSet(Holders(c))
  PROVE /\ IsFiniteSet(Holders(c))' /\ Cardinality(Holders(c)) \in Nat
        /\ Cardinality(Holders(c))'
              = Cardinality(Holders(c)) - One(Holds(todo[t], c)) + One(Holds(z, c))
  <1>1. /\ todo'[t] = z /\ \A u \in Threads : u # t => todo'[u] = todo[u] BY DEF FlowTypeOK
  <1>6. Holders(c)' = {u \in Threads : Holds(todo'[u], c)} BY DEF Holders, Holds, Has, CursorsOf
  <1>7. \A u \in Threads : u # t => (Holds(todo'[u], c) <=> Holds(todo[u], c)) BY <1>1
  <1>2. Cardinality(Holders(c)) \in Nat BY FS_CardinalityType
  <1>3. t \in Holders(c) <=> Holds(todo[t], c) BY DEF Holders
  <1>4. CASE Holds(z, c)
    <2>1. Holders(c)' = Holders(c) \cup {t} BY <1>1, <1>4, <1>6, <1>7 DEF Holders
    <2>2. /\ IsFiniteSet(Holders(c) \cup {t})
          /\ Cardinality(Holders(c) \cup {t}) =
                 IF t \in Holders(c) THEN Cardinality(Holders(c)) ELSE Cardinality(Holders(c)) + 1
      BY FS_AddElement
    <2> QED BY <1>2, <1>3, <1>4, <2>1, <2>2 DEF One
  <1>5. CASE ~Holds(z, c)
    <2>1. Holders(c)' = Holders(c) \ {t} BY <1>1, <1>5, <1>6, <1>7 DEF Holders
    <2>2. /\ IsFiniteSet(Holders(c) \ {t})
          /\ Cardinality(Holders(c) \ {t}) =
                 IF t \in Holders(c) THEN Cardinality(Holders(c)) - 1 ELSE Cardinality(Holders(c))
      BY FS_RemoveElement
    <2> QED BY <1>2, <1>3, <1>5, <2>1, <2>2 DEF One
  <1> QED BY <1>4, <1>5

(* A thread refers to what its first task refers to.                       *)
LEMMA HoldsReplaced ==
  ASSUME NEW d, NEW s \in Seq(Tasks), s # <<>>, Carried(d, s), NEW tasks \in Seq(Tasks), NEW c
  PROVE /\ Holds(s, c) <=> Has(s[1].req, c)
        /\ tasks # <<>> => (Holds(tasks \o Tail(s), c) <=> Has(tasks[1].req, c))
        /\ tasks = <<>> => ~Holds(tasks \o Tail(s), c)
  <1> DEFINE z == tasks \o Tail(s)
             k == Len(tasks)
             m == Len(s)
  <1>1. /\ Len(z) = k + m - 1 /\ m \in Nat \ {0} /\ k \in Nat /\ DOMAIN tasks = 1 .. k
        /\ z \in Seq(Tasks) /\ DOMAIN s = 1 .. m
        /\ \A i \in 1 .. k : z[i] = tasks[i]
        /\ \A i \in 1 .. m - 1 : z[k + i] = s[i + 1]
    BY ReplacedIs
  <1>2. Holds(s, c) <=> Has(s[1].req, c) BY DEF Holds
  <1>3. ASSUME tasks # <<>> PROVE Holds(z, c) <=> Has(tasks[1].req, c)
    <2>1. k \in Nat \ {0} BY <1>3, EmptySeq
    <2>2. z # <<>> BY <1>1, <2>1, EmptySeq
    <2>3. z[1] = tasks[1] BY <1>1, <2>1
    <2> QED BY <2>2, <2>3 DEF Holds
  <1>4. ASSUME tasks = <<>> PROVE ~Holds(z, c)
    <2> SUFFICES ASSUME z # <<>> PROVE ~Has(z[1].req, c) BY DEF Holds
    <2>1. k = 0 BY <1>4, EmptySeq
    <2>2. Len(z) \in Nat \ {0} BY <1>1, EmptySeq
    <2>3. m - 1 >= 1 /\ 2 \in 1 .. m /\ z[1] = s[2] BY <1>1, <2>1, <2>2
    <2>4. s[2].req = NoReq BY <1>1, <2>3 DEF Carried
    <2> QED BY <2>3, <2>4 DEF Has, NoReq
  <1> QED BY <1>2, <1>3, <1>4 DEF z

Carry(tasks, c) == tasks # <<>> /\ Has(tasks[1].req, c)
Rest == {"failed", "scanout", "unlist"}

(* Two sequences of one element.                                           *)
LEMMA Joined ==
  ASSUME NEW S, NEW a \in S, NEW b \in S
  PROVE <<a>> \o <<b>> = <<a, b>>
  <1>1. <<a>> \in Seq(S) /\ <<b>> \in Seq(S) /\ Len(<<a>>) = 1 /\ Len(<<b>>) = 1 OBVIOUS
  <1>2. <<a>> \o <<b>> \in Seq(S) /\ Len(<<a>> \o <<b>>) = 2 BY <1>1
  <1>3. (<<a>> \o <<b>>)[1] = a BY <1>1
  <1>4. (<<a>> \o <<b>>)[2] = b BY <1>1, ConcatProperties
  <1>5. <<a, b>> \in Seq(S) /\ Len(<<a, b>>) = 2 /\ <<a, b>>[1] = a /\ <<a, b>>[2] = b OBVIOUS
  <1> DEFINE x == <<a>> \o <<b>>
             y == <<a, b>>
  <1> HIDE DEF x, y
  <1>6. \A i \in 1 .. Len(x) : x[i] = y[i] BY <1>2, <1>3, <1>4, <1>5 DEF x, y
  <1>7. x = y BY <1>2, <1>5, <1>6, SeqEqual DEF x, y
  <1> QED BY <1>7 DEF x, y

(* Nothing to push.                                                        *)
LEMMA PushNone ==
  ASSUME NEW d
  PROVE PushOK(d, <<>>) /\ \A c : ~Carry(<<>>, c)
  BY EmptySeq DEF PushOK, Carried, Carry

(* A call to push.                                                         *)
LEMMA PushCall ==
  ASSUME NEW d, NEW o \in Rest
  PROVE PushOK(d, <<Call(o)>>) /\ \A c : ~Carry(<<Call(o)>>, c)
  <1> DEFINE e == Call(o)
  <1>1. e.op = o /\ e.req = NoReq /\ e.cursor = 0 BY DEF Call, Task
  <1>2. e \in Tasks BY BoundAssumption DEF Call, Task, Tasks, Ops, Rest, Requests
  <1> HIDE DEF e
  <1>3. <<e>> \in Seq(Tasks) BY <1>2
  <1>4. DOMAIN <<e>> = {1} /\ <<e>>[1] = e OBVIOUS
  <1>5. Carried(d, <<e>>) BY <1>1, <1>4 DEF Carried, Rest
  <1>6. PushOK(d, <<e>>) BY <1>1, <1>3, <1>4, <1>5 DEF PushOK, Rest, Plain
  <1>7. \A c : ~Carry(<<e>>, c) BY <1>1, <1>4 DEF Carry, Has, NoReq
  <1> QED BY <1>6, <1>7 DEF e

(* A request to commit or to release.                                      *)
MayBe(d, op, r) ==
    /\ op \in {"commit", "release"} /\ r \in RequestT
    /\ IF op = "commit" THEN Complete(d, r) ELSE Sane(d, r)

(* A task with a request.                                                  *)
LEMMA TaskIs ==
  ASSUME NEW d, NEW op, NEW r, MayBe(d, op, r)
  PROVE LET e == Task(op, r)
        IN  e \in Tasks /\ e.op = op /\ e.req = r /\ e.cursor = 0 /\ r.some
  <1>1. r.some BY DEF MayBe, RequestT
  <1>2. Task(op, r) \in Tasks BY BoundAssumption DEF MayBe, Task, Tasks, Ops, Requests
  <1> QED BY <1>1, <1>2 DEF Task

(* A request to push.                                                      *)
LEMMA PushTask ==
  ASSUME NEW d, NEW op, NEW r, MayBe(d, op, r)
  PROVE PushOK(d, <<Task(op, r)>>) /\ \A c : Carry(<<Task(op, r)>>, c) <=> Has(r, c)
  <1> DEFINE e == Task(op, r)
  <1>1. e \in Tasks /\ e.op = op /\ e.req = r /\ e.cursor = 0 /\ r.some BY TaskIs
  <1> HIDE DEF e
  <1>2. <<e>> \in Seq(Tasks) BY <1>1
  <1>3. DOMAIN <<e>> = {1} /\ <<e>>[1] = e /\ <<e>> # <<>> OBVIOUS
  <1>4. Carried(d, <<e>>) BY <1>1, <1>3 DEF Carried, MayBe
  <1>5. PushOK(d, <<e>>) BY <1>1, <1>2, <1>3, <1>4 DEF PushOK, MayBe, Plain
  <1>6. \A c : Carry(<<e>>, c) <=> Has(r, c) BY <1>1, <1>3 DEF Carry
  <1> QED BY <1>5, <1>6 DEF e

(* A request and a call to push.                                           *)
LEMMA PushTaskCall ==
  ASSUME NEW d, NEW op, NEW r, MayBe(d, op, r), NEW o \in Rest
  PROVE LET two == <<Task(op, r), Call(o)>>
        IN  PushOK(d, two) /\ \A c : Carry(two, c) <=> Has(r, c)
  <1> DEFINE e == Task(op, r)
             f == Call(o)
             two == <<e, f>>
  <1>1. e \in Tasks /\ e.op = op /\ e.req = r /\ e.cursor = 0 /\ r.some BY TaskIs
  <1>2. f.op = o /\ f.req = NoReq /\ f.cursor = 0 BY DEF Call, Task
  <1>3. f \in Tasks BY BoundAssumption DEF Call, Task, Tasks, Ops, Rest, Requests
  <1> HIDE DEF e, f
  <1>4. two \in Seq(Tasks) BY <1>1, <1>3
  <1>5. DOMAIN two = {1, 2} /\ two[1] = e /\ two[2] = f /\ two # <<>> OBVIOUS
  <1> HIDE DEF two
  <1>6. Carried(d, two) BY <1>1, <1>2, <1>5 DEF Carried, MayBe, Rest
  <1>7. PushOK(d, two) BY <1>1, <1>2, <1>4, <1>5, <1>6 DEF PushOK, MayBe, Plain, Rest
  <1>8. \A c : Carry(two, c) <=> Has(r, c) BY <1>1, <1>5 DEF Carry
  <1> QED BY <1>7, <1>8 DEF e, f, two

(* A request that may be there.                                            *)
LEMMA PushSome ==
  ASSUME NEW d, NEW op, NEW r, r \in Requests, r.some => MayBe(d, op, r)
  PROVE LET list == IF r.some THEN <<Task(op, r)>> ELSE <<>>
        IN  PushOK(d, list) /\ \A c : Carry(list, c) <=> Has(r, c)
  <1>1. CASE r.some BY <1>1, PushTask
  <1>2. CASE ~r.some BY <1>2, PushNone DEF Has
  <1> QED BY <1>1, <1>2

(* ... and a call.                                                         *)
LEMMA PushSomeCall ==
  ASSUME NEW d, NEW op, NEW r, r \in Requests, r.some => MayBe(d, op, r), NEW o \in Rest
  PROVE LET list == (IF r.some THEN <<Task(op, r)>> ELSE <<>>) \o <<Call(o)>>
        IN  PushOK(d, list) /\ \A c : Carry(list, c) <=> Has(r, c)
  <1> DEFINE e == Task(op, r)
             f == Call(o)
  <1>1. f \in Tasks BY BoundAssumption DEF Call, Task, Tasks, Ops, Rest, Requests
  <1>2. CASE r.some
    <2>1. MayBe(d, op, r) BY <1>2
    <2>2. e \in Tasks BY <2>1, TaskIs
    <2>3. PushOK(d, <<e, f>>) /\ \A c : Carry(<<e, f>>, c) <=> Has(r, c) BY <2>1, PushTaskCall
    <2> HIDE DEF e, f
    <2>4. <<e>> \o <<f>> = <<e, f>> BY <1>1, <2>2, Joined
    <2> QED BY <1>2, <2>3, <2>4 DEF e, f
  <1>3. CASE ~r.some
    <2>1. PushOK(d, <<f>>) /\ \A c : ~Carry(<<f>>, c) BY PushCall
    <2> HIDE DEF f
    <2>2. <<>> \o <<f>> = <<f>> BY <1>1
    <2> QED BY <1>3, <2>1, <2>2 DEF Has, f
  <1> QED BY <1>2, <1>3

(* A thread at the task op.                                                *)
LEMMA AtIs ==
  ASSUME RequestsInv, NEW t \in Threads, NEW op, At(t, op)
  PROVE LET s == todo[t]
        IN  /\ s \in Seq(Tasks) /\ s # <<>> /\ Head(s) = s[1] /\ s[1] \in Tasks /\ s[1].op = op
            /\ Carried(dev, s)
            /\ op \in {"commit", "release"} => MayBe(dev, op, s[1].req)
            /\ op \notin {"commit", "release"} => s[1].req = NoReq
            /\ op = "rmfb" => s[1].cursor \in Cursors /\ crefs[s[1].cursor] = 0
            /\ op \in Plain => s[1].op \in Plain
  <1> DEFINE s == todo[t]
  <1>1. s \in Seq(Tasks) /\ s # <<>> BY DEF RequestsInv, RequestsTypeOK, FlowTypeOK, At
  <1>2. Head(s) = s[1] /\ s[1] \in Tasks /\ 1 \in DOMAIN s
    <2> HIDE DEF s
    <2>1. Len(s) \in Nat \ {0} /\ DOMAIN s = 1 .. Len(s) BY <1>1, EmptySeq, LenProperties
    <2>2. 1 \in 1 .. Len(s) BY <2>1
    <2> QED BY <1>1, <2>1, <2>2, ElementOfSeq
  <1>3. s[1].op = op BY <1>2 DEF At
  <1>4. Carried(dev, s) /\ Dropped(s, crefs) BY DEF RequestsInv, StacksOK, StackOK
  <1> HIDE DEF s
  <1>5. ASSUME op \in {"commit", "release"} PROVE MayBe(dev, op, s[1].req)
    <2>1. s[1].req.some BY <1>2, <1>3, <1>4, <1>5 DEF Carried
    <2>2. s[1].req \in Requests BY <1>2 DEF Tasks
    <2>3. s[1].req \in RequestT BY <2>1, <2>2 DEF Requests, NoReq
    <2> QED BY <1>2, <1>3, <1>4, <1>5, <2>3 DEF Carried, MayBe
  <1>6. op \notin {"commit", "release"} => s[1].req = NoReq BY <1>2, <1>3, <1>4 DEF Carried
  <1>7. op = "rmfb" => s[1].cursor \in Cursors /\ crefs[s[1].cursor] = 0
    BY <1>2, <1>3, <1>4 DEF Dropped
  <1> QED BY <1>1, <1>2, <1>3, <1>4, <1>5, <1>6, <1>7 DEF s

(* A plain task makes way for others: the stacks, and who refers to what.  *)
LEMMA PlainAct ==
  ASSUME RequestsInv, NEW t \in Threads, NEW op \in Plain, At(t, op),
         NEW tasks, PushOK(dev, tasks), Then(t, tasks),
         dev' = dev, builder' = builder, composition' = composition, winlock' = winlock,
         \A c \in Cursors : crefs[c] = 0 => crefs'[c] = 0
  PROVE /\ StacksOK' /\ todo' \in [Threads -> Seq(Tasks)]
        /\ \A c \in Cursors :
              /\ IsFiniteSet(Holders(c))' /\ Cardinality(Holders(c)) \in Nat
              /\ Cardinality(Holders(c))' =
                     Cardinality(Holders(c)) - One(Has(todo[t][1].req, c)) + One(Carry(tasks, c))
  <1>1. /\ todo[t] \in Seq(Tasks) /\ todo[t] # <<>> /\ todo[t][1].op \in Plain
              /\ Carried(dev, todo[t])
    BY AtIs
  <1>2. todo' = [todo EXCEPT ![t] = tasks \o Tail(todo[t])] BY DEF Then
  <1>3. StacksOK /\ FlowTypeOK /\ CountsOK BY DEF RequestsInv, RequestsTypeOK
  <1>4. StacksOK' /\ todo' \in [Threads -> Seq(Tasks)] BY <1>1, <1>2, <1>3, PlainStep
  <1>5. ASSUME NEW c \in Cursors
        PROVE /\ IsFiniteSet(Holders(c))' /\ Cardinality(Holders(c)) \in Nat
              /\ Cardinality(Holders(c))' =
                     Cardinality(Holders(c)) - One(Has(todo[t][1].req, c)) + One(Carry(tasks, c))
    <2> DEFINE z == tasks \o Tail(todo[t])
    <2>1. IsFiniteSet(Holders(c)) BY <1>3 DEF CountsOK, Counted
    <2>2. (Holds(todo[t], c) <=> Has(todo[t][1].req, c)) /\ (Holds(z, c) <=> Carry(tasks, c))
      BY <1>1, HoldsReplaced DEF PushOK, Carry
    <2>3. One(Holds(todo[t], c)) = One(Has(todo[t][1].req, c))
                /\ One(Holds(z, c)) = One(Carry(tasks, c))
      BY <2>2 DEF One
    <2> HIDE DEF z
    <2>4. todo' = [todo EXCEPT ![t] = z] BY <1>2 DEF z
    <2> QED BY <1>3, <2>1, <2>3, <2>4, HoldersChange
  <1> QED BY <1>4, <1>5

(* Steps that leave the display and what is recorded of it.                *)
LEMMA StillShown ==
  ASSUME RequestsInv, UNCHANGED <<dev, kernel, kmode, foreign, committed, cmode, shown, inflight,
         screen>>
  PROVE DeviceTypeOK' /\ KernelOK'
  <1>1. DeviceTypeOK' BY DEF RequestsInv, RequestsTypeOK, DeviceTypeOK, Planes
  <1>2. ShownLast' BY DEF RequestsInv, KernelOK, ShownLast
  <1>3. ASSUME NEW p \in Planes PROVE PlaneOK(p)'
    <2>1. PlaneOK(p) BY DEF RequestsInv, KernelOK
    <2>2. FbMeant(shown, p)' = FbMeant(shown, p) BY DEF FbMeant, ShownLayers
    <2> QED BY <2>1, <2>2 DEF PlaneOK
  <1>4. (dev.atomic /\ shown.some => \A i \in DOMAIN shown.layers : LayerOK(i))'
    BY DEF RequestsInv, KernelOK, LayerOK
  <1> QED BY <1>1, <1>2, <1>3, <1>4 DEF KernelOK, Planes

(* What the invariant says of a cursor buffer.                             *)
LEMMA StillCounted ==
  ASSUME RequestsInv, NEW c \in Cursors
  PROVE /\ IsFiniteSet(Holders(c)) /\ Cardinality(Holders(c)) \in Nat /\ crefs[c] \in Nat
        /\ crefs[c] = Number(c)
        /\ {One(cursor = c), One(Has(builder, c)), One(Has(queued, c)), One(Has(inflight, c)),
            One(Has(screen, c))} \subseteq {0, 1}
  <1>1. IsFiniteSet(Holders(c)) /\ crefs[c] = Number(c) BY DEF RequestsInv, CountsOK, Counted
  <1>2. crefs[c] \in Nat BY DEF RequestsInv, RequestsTypeOK, WindowTypeOK
  <1> QED BY <1>1, <1>2, FS_CardinalityType DEF One

(* A thread has edited the list of framebuffers.                           *)
LEMMA StepFbsEdited ==
  ASSUME RequestsInv, NEW t \in Threads, FbsEdited(t)
  PROVE RequestsInv'
  <1>1. /\ At(t, "unlist") /\ Then(t, <<>>)
        /\ UNCHANGED <<dev, kernel, kmode, foreign, committed, cmode, cblob, blobs>>
        /\ UNCHANGED <<composition, winlock, builder, queued, inflight, screen, shown, lost>>
        /\ UNCHANGED <<cursor, crefs>>
    BY DEF FbsEdited, kernelVars, stateVars, winVars, flowVars, cursorVars
  <1>2. DeviceTypeOK' /\ KernelOK' BY <1>1, StillShown
  <1>3. PushOK(dev, <<>>) /\ \A c \in Cursors : ~Carry(<<>>, c) BY PushNone
  <1>4. todo[t][1].req = NoReq BY <1>1, AtIs
  <1>5. /\ StacksOK' /\ todo' \in [Threads -> Seq(Tasks)]
        /\ \A c \in Cursors :
              /\ IsFiniteSet(Holders(c))' /\ Cardinality(Holders(c)) \in Nat
              /\ Cardinality(Holders(c))' =
                     Cardinality(Holders(c)) - One(Has(todo[t][1].req, c)) + One(Carry(<<>>, c))
    <2>1. "unlist" \in Plain BY DEF Plain
    <2> QED BY <1>1, <1>3, <2>1, PlainAct
  <1>6. ASSUME NEW c \in Cursors PROVE Counted(c)'
    <2>1. Cardinality(Holders(c))' = Cardinality(Holders(c))
      BY <1>3, <1>4, <1>5 DEF One, Has, NoReq
    <2>2. Number(c)' = Number(c) BY <1>1, <2>1 DEF Number, One, Has, CursorsOf
    <2> QED BY <1>1, <1>5, <2>2, StillCounted DEF Counted
  <1>7. WindowTypeOK' /\ FlowTypeOK' /\ RequestsSane' /\ ModeOK'
    BY <1>1, <1>5 DEF RequestsInv, RequestsTypeOK, WindowTypeOK, FlowTypeOK, RequestsSane, ModeOK
  <1>8. CountsOK' BY <1>6 DEF CountsOK, Cursors
  <1> QED BY <1>2, <1>5, <1>7, <1>8 DEF RequestsInv, RequestsTypeOK

(* The scheduler gives up: the frame in the mailbox is dropped.            *)
LEMMA StepPresentFailed ==
  ASSUME RequestsInv, NEW t \in Threads, OnPresentFailed(t)
  PROVE RequestsInv'
  <1> DEFINE tasks == IF queued.some THEN <<Task("release", queued)>> ELSE <<>>
  <1>1. /\ At(t, "failed") /\ Then(t, tasks) /\ queued' = NoReq
        /\ UNCHANGED <<dev, kernel, kmode, foreign, committed, cmode, cblob, blobs>>
        /\ UNCHANGED <<composition, winlock, builder, inflight, screen, shown, lost>>
        /\ UNCHANGED <<cursor, crefs>>
    BY DEF OnPresentFailed, kernelVars, stateVars, winVars, cursorVars
  <1>2. DeviceTypeOK' /\ KernelOK' BY <1>1, StillShown
  <1>3. PushOK(dev, tasks) /\ \A c : Carry(tasks, c) <=> Has(queued, c)
    <2>1. queued \in Requests BY DEF RequestsInv, RequestsTypeOK, FlowTypeOK
    <2>2. queued.some => queued \in RequestT BY <2>1 DEF Requests, NoReq
    <2>3. queued.some => Sane(dev, queued) BY DEF RequestsInv, RequestsSane, Complete
    <2>4. queued.some => MayBe(dev, "release", queued) BY <2>2, <2>3 DEF MayBe
    <2> QED BY <2>1, <2>4, PushSome
  <1> HIDE DEF tasks
  <1>4. todo[t][1].req = NoReq BY <1>1, AtIs
  <1>5. /\ StacksOK' /\ todo' \in [Threads -> Seq(Tasks)]
        /\ \A c \in Cursors :
              /\ IsFiniteSet(Holders(c))' /\ Cardinality(Holders(c)) \in Nat
              /\ Cardinality(Holders(c))' =
                     Cardinality(Holders(c)) - One(Has(todo[t][1].req, c)) + One(Carry(tasks, c))
    <2>1. "failed" \in Plain BY DEF Plain
    <2> QED BY <1>1, <1>3, <2>1, PlainAct
  <1>6. ASSUME NEW c \in Cursors PROVE Counted(c)'
    <2>1. One(Carry(tasks, c)) = One(Has(queued, c)) BY <1>3 DEF One
    <2>2. One(Has(todo[t][1].req, c)) = 0 /\ One(Has(queued', c)) = 0
      BY <1>1, <1>4 DEF One, Has, NoReq
    <2>3. Number(c)' = Number(c) BY <1>1, <1>5, <2>1, <2>2, StillCounted DEF Number
    <2> QED BY <1>1, <1>5, <2>3, StillCounted DEF Counted
  <1>7. WindowTypeOK' /\ FlowTypeOK' /\ RequestsSane' /\ ModeOK'
    BY <1>1, <1>5 DEF RequestsInv, RequestsTypeOK, WindowTypeOK, FlowTypeOK, RequestsSane, ModeOK,
                      Requests, NoReq
  <1>8. CountsOK' BY <1>6 DEF CountsOK, Cursors
  <1> QED BY <1>2, <1>5, <1>7, <1>8 DEF RequestsInv, RequestsTypeOK

(* The scheduler goes on with the frame in the mailbox.                    *)
LEMMA StepScanout ==
  ASSUME RequestsInv, NEW t \in Threads, OnScanout(t)
  PROVE RequestsInv'
  <1> DEFINE tasks == IF queued.some THEN <<Task("commit", queued)>> ELSE <<>>
  <1>1. /\ At(t, "scanout") /\ Then(t, tasks) /\ queued' = NoReq
        /\ UNCHANGED <<dev, kernel, kmode, foreign, committed, cmode, cblob, blobs>>
        /\ UNCHANGED <<composition, winlock, builder, inflight, screen, shown, lost>>
        /\ UNCHANGED <<cursor, crefs>>
    BY DEF OnScanout, kernelVars, stateVars, winVars, cursorVars
  <1>2. DeviceTypeOK' /\ KernelOK' BY <1>1, StillShown
  <1>3. PushOK(dev, tasks) /\ \A c : Carry(tasks, c) <=> Has(queued, c)
    <2>1. queued \in Requests BY DEF RequestsInv, RequestsTypeOK, FlowTypeOK
    <2>2. queued.some => queued \in RequestT BY <2>1 DEF Requests, NoReq
    <2>3. queued.some => Complete(dev, queued) BY DEF RequestsInv, RequestsSane
    <2>4. queued.some => MayBe(dev, "commit", queued) BY <2>2, <2>3 DEF MayBe
    <2> QED BY <2>1, <2>4, PushSome
  <1> HIDE DEF tasks
  <1>4. todo[t][1].req = NoReq BY <1>1, AtIs
  <1>5. /\ StacksOK' /\ todo' \in [Threads -> Seq(Tasks)]
        /\ \A c \in Cursors :
              /\ IsFiniteSet(Holders(c))' /\ Cardinality(Holders(c)) \in Nat
              /\ Cardinality(Holders(c))' =
                     Cardinality(Holders(c)) - One(Has(todo[t][1].req, c)) + One(Carry(tasks, c))
    <2>1. "scanout" \in Plain BY DEF Plain
    <2> QED BY <1>1, <1>3, <2>1, PlainAct
  <1>6. ASSUME NEW c \in Cursors PROVE Counted(c)'
    <2>1. One(Carry(tasks, c)) = One(Has(queued, c)) BY <1>3 DEF One
    <2>2. One(Has(todo[t][1].req, c)) = 0 /\ One(Has(queued', c)) = 0
      BY <1>1, <1>4 DEF One, Has, NoReq
    <2>3. Number(c)' = Number(c) BY <1>1, <1>5, <2>1, <2>2, StillCounted DEF Number
    <2> QED BY <1>1, <1>5, <2>3, StillCounted DEF Counted
  <1>7. WindowTypeOK' /\ FlowTypeOK' /\ RequestsSane' /\ ModeOK'
    BY <1>1, <1>5 DEF RequestsInv, RequestsTypeOK, WindowTypeOK, FlowTypeOK, RequestsSane, ModeOK,
                      Requests, NoReq
  <1>8. CountsOK' BY <1>6 DEF CountsOK, Cursors
  <1> QED BY <1>2, <1>5, <1>7, <1>8 DEF RequestsInv, RequestsTypeOK

(* A refused commit leaves no blob.                                        *)
LEMMA RefusedIs ==
  ASSUME RequestsInv, NEW t \in Threads, At(t, "commit"), NEW uploaded, uploaded => UploadMode,
         Refused(t, Head(todo[t]).req, uploaded),
         UNCHANGED <<dev, kernel, kmode, foreign, committed, cmode, cblob>>,
         UNCHANGED <<composition, winlock, builder, queued, inflight, screen, shown, lost>>,
         UNCHANGED <<cursor, crefs>>
  PROVE RequestsInv'
  <1> DEFINE r == todo[t][1].req
             tasks == <<Task("release", r), Call("failed")>>
             new == IF uploaded THEN {NewBlob} ELSE {}
  <1>1. Head(todo[t]) = todo[t][1] /\ MayBe(dev, "commit", r) BY AtIs
  <1>2. Then(t, tasks) /\ blobs' = (blobs \cup new) \ new BY <1>1 DEF Refused
  <1>3. DeviceTypeOK' /\ KernelOK' BY StillShown
  <1>4. PushOK(dev, tasks) /\ \A c : Carry(tasks, c) <=> Has(r, c)
    <2>1. MayBe(dev, "release", r) BY <1>1 DEF MayBe, Complete
    <2>2. "failed" \in Rest BY DEF Rest
    <2> QED BY <2>1, <2>2, PushTaskCall
  <1>5. blobs' = blobs
    <2>1. CASE uploaded
      <3>1. cmode = "other" BY <2>1 DEF UploadMode, RequestsInv, RequestsTypeOK, DeviceTypeOK, Modes
      <3>2. blobs = {} BY <3>1 DEF RequestsInv, ModeOK
      <3> HIDE DEF new
      <3> QED BY <1>2, <3>2
    <2>2. CASE ~uploaded BY <1>2, <2>2
    <2> QED BY <2>1, <2>2
  <1> HIDE DEF tasks, r
  <1>6. /\ StacksOK' /\ todo' \in [Threads -> Seq(Tasks)]
        /\ \A c \in Cursors :
              /\ IsFiniteSet(Holders(c))' /\ Cardinality(Holders(c)) \in Nat
              /\ Cardinality(Holders(c))' =
                     Cardinality(Holders(c)) - One(Has(todo[t][1].req, c)) + One(Carry(tasks, c))
    <2>1. "commit" \in Plain BY DEF Plain
    <2> QED BY <1>2, <1>4, <2>1, PlainAct
  <1>7. ASSUME NEW c \in Cursors PROVE Counted(c)'
    <2>1. One(Carry(tasks, c)) = One(Has(todo[t][1].req, c)) BY <1>4 DEF One, r
    <2>2. One(Carry(tasks, c)) \in Nat BY DEF One
    <2>3. Number(c)' = Number(c) BY <1>6, <2>1, <2>2, StillCounted DEF Number
    <2> QED BY <1>6, <2>3, StillCounted DEF Counted
  <1>8. WindowTypeOK' /\ FlowTypeOK' /\ RequestsSane' /\ ModeOK'
    BY <1>5, <1>6 DEF RequestsInv, RequestsTypeOK, WindowTypeOK, FlowTypeOK, RequestsSane, ModeOK
  <1>9. CountsOK' BY <1>7 DEF CountsOK, Cursors
  <1> QED BY <1>3, <1>6, <1>8, <1>9 DEF RequestsInv, RequestsTypeOK

(* A commit that fails, before or in the kernel.                           *)
LEMMA StepCommitRefused ==
  ASSUME RequestsInv, NEW t \in Threads, CommitEarlyFailure(t) \/ CommitRefused(t)
  PROVE RequestsInv'
  <1>1. /\ At(t, "commit")
        /\ UNCHANGED <<dev, kernel, kmode, foreign, committed, cmode, cblob>>
        /\ UNCHANGED <<composition, winlock, builder, queued, inflight, screen, shown, lost>>
        /\ UNCHANGED <<cursor, crefs>>
    BY DEF CommitEarlyFailure, CommitRefused, kernelVars, winVars, flowVars, cursorVars
  <1>2. CASE CommitEarlyFailure(t)
    <2>1. Refused(t, Head(todo[t]).req, FALSE) BY <1>2 DEF CommitEarlyFailure
    <2> QED BY <1>1, <2>1, RefusedIs
  <1>3. CASE CommitRefused(t)
    <2>1. Refused(t, Head(todo[t]).req, UploadMode) BY <1>3 DEF CommitRefused
    <2> QED BY <1>1, <2>1, RefusedIs
  <1> QED BY <1>2, <1>3

(* What a request shows on the planes of its layers, and on the others.    *)
LEMMA FbMeantIs ==
  ASSUME dev \in Devices, NEW r \in RequestT, Complete(dev, r)
  PROVE /\ ShownLayers(r) \subseteq DOMAIN r.layers /\ 1 \in DOMAIN r.layers
        /\ \A i \in ShownLayers(r) : FbMeant(r, r.layers[i].plane) = r.layers[i].fb
        /\ \A p : (\A i \in ShownLayers(r) : r.layers[i].plane # p) => FbMeant(r, p) = Off
  <1>1. Len(r.layers) \in Nat /\ DOMAIN r.layers = 1 .. Len(r.layers) /\ r.layers \in Seq(LayerT)
    BY RequestIs
  <1>2. 1 \in DOMAIN r.layers
    <2>1. Len(r.layers) # 0 BY <1>1, EmptySeq DEF Complete
    <2> QED BY <1>1, <2>1
  <1>3. ShownLayers(r) \subseteq DOMAIN r.layers BY <1>2 DEF ShownLayers
  <1>4. ASSUME NEW i \in ShownLayers(r) PROVE FbMeant(r, r.layers[i].plane) = r.layers[i].fb
    <2> DEFINE at == {j \in ShownLayers(r) : r.layers[j].plane = r.layers[i].plane}
    <2>1. at = {i} BY <1>3, <1>4 DEF Complete, Sane, Placed
    <2>2. (CHOOSE j \in at : TRUE) = i BY <2>1
    <2>3. FbMeant(r, r.layers[i].plane) = IF at = {} THEN Off
                ELSE r.layers[CHOOSE j \in at : TRUE].fb
      BY DEF FbMeant
    <2> HIDE DEF at
    <2> QED BY <2>1, <2>2, <2>3
  <1>5. \A p : (\A i \in ShownLayers(r) : r.layers[i].plane # p) => FbMeant(r, p) = Off
    BY DEF FbMeant
  <1> QED BY <1>2, <1>3, <1>4, <1>5

(* A cursor on the display is a layer of a request that still exists.      *)
LEMMA ShownCursor ==
  ASSUME RequestsInv, dev.atomic, shown.some, NEW p \in Planes, NEW c \in Cursors,
         FbMeant(shown, p) = CursorFb(c)
  PROVE Has(inflight, c) \/ Has(screen, c)
  <1>1. dev \in Devices /\ shown \in Requests /\ Complete(dev, shown)
    BY DEF RequestsInv, RequestsTypeOK, DeviceTypeOK, FlowTypeOK, RequestsSane
  <1>2. shown \in RequestT BY <1>1 DEF Requests, NoReq
  <1>3. c \in Nat \ {0} /\ CursorFb(c) # Off /\ CursorFb(c) > 100 BY DEF Cursors, CursorFb, Off
  <1>4. PICK i \in ShownLayers(shown) : shown.layers[i].plane = p BY <1>1, <1>2, <1>3, FbMeantIs
  <1>5. shown.layers[i].fb = CursorFb(c) /\ i \in DOMAIN shown.layers BY <1>1, <1>2, <1>4, FbMeantIs
  <1>6. shown.layers[i].cursor = c
    <2>1. shown.layers[i] \in LayerT BY <1>2, <1>5, RequestIs
    <2>2. shown.layers[i].cursor \in 0 .. MaxCursors BY <2>1 DEF LayerT
    <2>3. Pictured(dev, shown) BY <1>1 DEF Complete, Sane
    <2>4. shown.layers[i].cursor # 0
      <3> SUFFICES ASSUME shown.layers[i].cursor = 0 PROVE FALSE OBVIOUS
      <3>1. shown.layers[i].fb \in 2 .. 100 BY <1>5, <2>3 DEF Pictured
      <3> DEFINE f == shown.layers[i].fb
      <3>2. f \in 2 .. 100 /\ f = CursorFb(c) BY <1>5, <3>1
      <3> HIDE DEF f
      <3>3. f <= 100 BY <3>2
      <3> QED BY <1>3, <3>2, <3>3
    <2>5. shown.layers[i].fb = CursorFb(shown.layers[i].cursor) BY <1>5, <2>3, <2>4 DEF Pictured
    <2> QED BY <1>3, <1>5, <2>2, <2>5, BoundAssumption DEF CursorFb
  <1>7. Has(shown, c) BY <1>3, <1>5, <1>6 DEF Has, CursorsOf
  <1>8. shown = inflight \/ shown = screen BY DEF RequestsInv, KernelOK, ShownLast
  <1> QED BY <1>7, <1>8

(* Framebuffers of cursors that are no longer referred to disappear.       *)
LEMMA FbsGone ==
  ASSUME RequestsInv, NEW gone, gone \subseteq Cursors,
         \A c \in gone : ~Has(inflight, c) /\ ~Has(screen, c),
         kernel' = [p \in Planes |->
             IF \E c \in gone : kernel[p].fb = CursorFb(c)
             THEN [kernel[p] EXCEPT !.fb = Off] ELSE kernel[p]],
         UNCHANGED <<dev, kmode, foreign, committed, cmode, shown, inflight, screen>>
  PROVE DeviceTypeOK' /\ KernelOK'
  <1>1. dev \in Devices /\ kernel \in [Planes -> KernelT] /\ ShownLast
        /\ \A p \in Planes : PlaneOK(p)
    BY DEF RequestsInv, RequestsTypeOK, DeviceTypeOK, KernelOK
  <1>2. Planes' = Planes BY DEF Planes
  <1>3. \A c \in gone : c \in Nat BY DEF Cursors
  <1>4. ASSUME NEW p \in Planes
        PROVE /\ kernel'[p] \in KernelT /\ kernel'[p].format = kernel[p].format
              /\ kernel'[p].zpos = kernel[p].zpos /\ kernel'[p].blend = kernel[p].blend
              /\ kernel'[p].fb = IF \E c \in gone : kernel[p].fb = CursorFb(c) THEN Off
                    ELSE kernel[p].fb
    <2>1. kernel[p] \in KernelT BY <1>1
    <2>2. kernel'[p] = IF \E c \in gone : kernel[p].fb = CursorFb(c)
                       THEN [kernel[p] EXCEPT !.fb = Off] ELSE kernel[p]
      OBVIOUS
    <2>3. /\ [kernel[p] EXCEPT !.fb = Off] \in KernelT
          /\ [kernel[p] EXCEPT !.fb = Off].fb = Off
          /\ [kernel[p] EXCEPT !.fb = Off].format = kernel[p].format
          /\ [kernel[p] EXCEPT !.fb = Off].zpos = kernel[p].zpos
          /\ [kernel[p] EXCEPT !.fb = Off].blend = kernel[p].blend
      BY <2>1 DEF KernelT, Off
    <2> QED BY <2>1, <2>2, <2>3
  <1>5. DeviceTypeOK'
    <2>1. kernel' \in [Planes -> KernelT] BY <1>4
    <2> QED BY <1>2, <2>1 DEF RequestsInv, RequestsTypeOK, DeviceTypeOK
  <1>6. ASSUME NEW p \in Planes PROVE PlaneOK(p)'
    <2>1. PlaneOK(p) /\ FbMeant(shown, p)' = FbMeant(shown, p) BY <1>1 DEF FbMeant, ShownLayers
    <2>2. CASE kernel'[p].fb = kernel[p].fb BY <1>4, <2>1, <2>2 DEF PlaneOK
    <2>3. CASE kernel'[p].fb # kernel[p].fb
      <3>1. PICK c \in gone : kernel[p].fb = CursorFb(c) BY <1>4, <2>3
      <3> DEFINE f == kernel[p].fb
      <3>2. c \in Nat /\ f = 100 + c /\ c # 0 BY <1>3, <3>1 DEF CursorFb, Cursors
      <3>3. kernel'[p].fb = Off BY <1>4, <2>3
      <3>4. ~dev.atomic => f <= 100 BY <2>1 DEF PlaneOK
      <3> HIDE DEF f
      <3>5. f > 100 /\ f \notin NoOnesFb BY <3>2 DEF NoOnesFb, Off, ForeignFb
      <3>6. dev.atomic BY <3>4, <3>2
      <3>7. p \in foreign
        <4> SUFFICES ASSUME p \notin foreign PROVE FALSE OBVIOUS
        <4>1. shown.some /\ f = FbMeant(shown, p) BY <2>1, <3>5, <3>6 DEF PlaneOK, f
        <4>2. Has(inflight, c) \/ Has(screen, c) BY <3>1, <3>6, <4>1, ShownCursor DEF f
        <4> QED BY <4>2
      <3> QED BY <1>4, <2>1, <3>3, <3>6, <3>7 DEF PlaneOK, NoOnesFb, Off
    <2> QED BY <2>2, <2>3
  <1>7. ShownLast' BY <1>1 DEF ShownLast
  <1>8. (dev.atomic /\ shown.some => \A i \in DOMAIN shown.layers : LayerOK(i))'
    <2> SUFFICES ASSUME dev.atomic, shown.some, NEW i \in DOMAIN shown.layers PROVE LayerOK(i)'
      OBVIOUS
    <2>1. LayerOK(i) BY DEF RequestsInv, KernelOK
    <2>2. shown.layers[i].plane \in Planes
      BY DEF RequestsInv, RequestsSane, Complete, Sane, Placed, Planes
    <2> QED BY <1>4, <2>1, <2>2 DEF LayerOK
  <1> QED BY <1>2, <1>5, <1>6, <1>7, <1>8 DEF KernelOK

(* A buffer nobody refers to is in no request.                             *)
LEMMA NoReference ==
  ASSUME RequestsInv, NEW c \in Cursors, crefs[c] = 0
  PROVE /\ cursor # c /\ ~Has(builder, c) /\ ~Has(queued, c) /\ ~Has(inflight, c) /\ ~Has(screen, c)
        /\ Cardinality(Holders(c)) = 0
  <1> DEFINE n == Cardinality(Holders(c))
             a == One(cursor = c)
             b == One(Has(builder, c))
             d == One(Has(queued, c))
             e == One(Has(inflight, c))
             f == One(Has(screen, c))
  <1>1. a \in Nat /\ b \in Nat /\ d \in Nat /\ e \in Nat /\ f \in Nat BY DEF One
  <1>2. n \in Nat /\ 0 = a + b + d + e + f + n BY StillCounted DEF Number
  <1> HIDE DEF n, a, b, d, e, f
  <1>3. a = 0 /\ b = 0 /\ d = 0 /\ e = 0 /\ f = 0 /\ n = 0 BY <1>1, <1>2
  <1> QED BY <1>3 DEF n, a, b, d, e, f, One

(* A framebuffer is added, or that of a cursor is removed.                 *)
LEMMA StepEditFbs ==
  ASSUME RequestsInv, NEW t \in Threads, EditFbs(t)
  PROVE RequestsInv'
  <1> DEFINE gone == IF At(t, "rmfb") THEN {Head(todo[t]).cursor} ELSE {}
  <1>1. /\ At(t, "addfb") \/ At(t, "rmfb")
        /\ Then(t, <<>>)
        /\ UNCHANGED <<dev, kmode, foreign, committed, cmode, cblob, blobs>>
        /\ UNCHANGED <<composition, winlock, builder, queued, inflight, screen, shown, lost>>
        /\ UNCHANGED <<cursor, crefs>>
    BY DEF EditFbs, stateVars, winVars, flowVars, cursorVars
  <1>2. \A c \in gone : c \in Cursors /\ crefs[c] = 0 BY AtIs
  <1>3. kernel' = [p \in Planes |->
             IF \E c \in gone : kernel[p].fb = CursorFb(c)
             THEN [kernel[p] EXCEPT !.fb = Off] ELSE kernel[p]]
    <2>1. kernel' = [p \in Planes |->
              IF At(t, "rmfb") /\ kernel[p].fb = CursorFb(Head(todo[t]).cursor)
              THEN [kernel[p] EXCEPT !.fb = Off] ELSE kernel[p]]
      BY DEF EditFbs
    <2>2. ASSUME NEW p
          PROVE (At(t, "rmfb") /\ kernel[p].fb = CursorFb(Head(todo[t]).cursor)) <=>
                \E c \in gone : kernel[p].fb = CursorFb(c)
      OBVIOUS
    <2> HIDE DEF gone
    <2> QED BY <2>1, <2>2
  <1> HIDE DEF gone
  <1>4. DeviceTypeOK' /\ KernelOK'
    <2>1. \A c \in gone : ~Has(inflight, c) /\ ~Has(screen, c) BY <1>2, NoReference
    <2>2. gone \subseteq Cursors BY <1>2
    <2> QED BY <1>1, <1>3, <2>1, <2>2, FbsGone
  <1>5. PushOK(dev, <<>>) /\ \A c \in Cursors : ~Carry(<<>>, c) BY PushNone
  <1>6. todo[t][1].req = NoReq BY <1>1, AtIs
  <1>7. /\ StacksOK' /\ todo' \in [Threads -> Seq(Tasks)]
        /\ \A c \in Cursors :
              /\ IsFiniteSet(Holders(c))' /\ Cardinality(Holders(c)) \in Nat
              /\ Cardinality(Holders(c))' =
                     Cardinality(Holders(c)) - One(Has(todo[t][1].req, c)) + One(Carry(<<>>, c))
    <2>1. "addfb" \in Plain /\ "rmfb" \in Plain BY DEF Plain
    <2> QED BY <1>1, <1>5, <2>1, PlainAct
  <1>8. ASSUME NEW c \in Cursors PROVE Counted(c)'
    <2>1. One(Has(todo[t][1].req, c)) = 0 /\ One(Carry(<<>>, c)) = 0
      BY <1>5, <1>6 DEF One, Has, NoReq
    <2>2. Number(c)' = Number(c) BY <1>1, <1>7, <2>1, StillCounted DEF Number
    <2> QED BY <1>1, <1>7, <2>2, StillCounted DEF Counted
  <1>9. WindowTypeOK' /\ FlowTypeOK' /\ RequestsSane' /\ ModeOK'
    BY <1>1, <1>7 DEF RequestsInv, RequestsTypeOK, WindowTypeOK, FlowTypeOK, RequestsSane, ModeOK
  <1>10. CountsOK' BY <1>8 DEF CountsOK, Cursors
  <1> QED BY <1>4, <1>7, <1>9, <1>10 DEF RequestsInv, RequestsTypeOK

(* A request lets go of its cursor.                                        *)
LEMMA StepRelease ==
  ASSUME RequestsInv, NEW t \in Threads, ReleaseRequest(t)
  PROVE RequestsInv'
  <1> DEFINE r == todo[t][1].req
             last == {c \in CursorsOf(r) : crefs[c] = 1}
             tasks == IF last = {} THEN <<>> ELSE <<Call("unlist")>>
  <1>1. /\ At(t, "release") /\ Head(todo[t]) = todo[t][1] /\ MayBe(dev, "release", r)
        /\ UNCHANGED <<dev, kmode, foreign, committed, cmode, cblob, blobs>>
        /\ UNCHANGED <<composition, winlock, builder, queued, inflight, screen, shown, lost>>
        /\ UNCHANGED <<cursor>>
    BY AtIs DEF ReleaseRequest, stateVars, winVars, flowVars
  <1>2. Then(t, tasks) BY <1>1 DEF ReleaseRequest
  <1>3. crefs' = [c \in Cursors |-> IF c \in CursorsOf(r) THEN crefs[c] - 1 ELSE crefs[c]]
    BY <1>1 DEF ReleaseRequest
  <1>4. PushOK(dev, tasks) /\ \A c \in Cursors : ~Carry(tasks, c)
    <2>1. "unlist" \in Rest BY DEF Rest
    <2> QED BY <2>1, PushNone, PushCall
  <1>5. r.some /\ CursorsOf(r) \subseteq Cursors
    <2>1. r \in RequestT BY <1>1 DEF MayBe
    <2>2. ASSUME NEW i \in DOMAIN r.layers PROVE r.layers[i].cursor \in 0 .. MaxCursors
      <3>1. r.layers[i] \in LayerT BY <2>1, RequestIs
      <3> QED BY <3>1 DEF LayerT
    <2>3. CursorsOf(r) \subseteq 0 .. MaxCursors \ {0} BY <2>2 DEF CursorsOf
    <2>4. 0 .. MaxCursors \ {0} \subseteq Cursors BY BoundAssumption DEF Cursors
    <2>5. r.some BY <2>1 DEF RequestT
    <2> QED BY <2>3, <2>4, <2>5
  <1>6. ASSUME NEW c \in CursorsOf(r)
        PROVE c \in Cursors /\ t \in Holders(c) /\ Cardinality(Holders(c)) >= 1 /\ crefs[c] >= 1
    <2>1. c \in Cursors /\ Has(r, c) BY <1>5 DEF Has
    <2>2. todo[t] # <<>> BY <1>1 DEF At
    <2>3. t \in Holders(c) BY <2>1, <2>2 DEF Holders, Holds
    <2>4. IsFiniteSet(Holders(c)) /\ Cardinality(Holders(c)) \in Nat BY <2>1, StillCounted
    <2>5. Cardinality(Holders(c)) # 0 BY <2>3, <2>4, FS_EmptySet
    <2> DEFINE n == Cardinality(Holders(c))
               x == crefs[c]
    <2>6. x = One(cursor = c) + One(Has(builder, c)) + One(Has(queued, c)) + One(Has(inflight, c))
              + One(Has(screen, c)) + n
      BY <2>1, StillCounted DEF Number
    <2>7. /\ One(cursor = c) \in Nat /\ One(Has(builder, c)) \in Nat /\ One(Has(queued, c)) \in Nat
          /\ One(Has(inflight, c)) \in Nat /\ One(Has(screen, c)) \in Nat
      BY DEF One
    <2>8. n \in Nat \ {0} BY <2>4, <2>5
    <2> HIDE DEF n, x
    <2>9. n >= 1 /\ x >= 1 BY <2>6, <2>7, <2>8
    <2> QED BY <2>1, <2>3, <2>9 DEF n, x
  <1>7. kernel' = [p \in Planes |->
             IF \E c \in last : kernel[p].fb = CursorFb(c)
             THEN [kernel[p] EXCEPT !.fb = Off] ELSE kernel[p]]
    <2>1. CASE last = {}
      <3>1. kernel' = kernel BY <1>1, <2>1 DEF ReleaseRequest
      <3>2. kernel = [p \in Planes |-> kernel[p]]
        BY DEF RequestsInv, RequestsTypeOK, DeviceTypeOK
      <3> HIDE DEF last
      <3> QED BY <2>1, <3>1, <3>2
    <2>2. CASE last # {} BY <1>1, <2>2 DEF ReleaseRequest
    <2> QED BY <2>1, <2>2
  <1>8. \A c \in last : c \in Cursors /\ ~Has(inflight, c) /\ ~Has(screen, c)
    <2> SUFFICES ASSUME NEW c \in last PROVE c \in Cursors /\ ~Has(inflight, c) /\ ~Has(screen, c)
      OBVIOUS
    <2> DEFINE n == Cardinality(Holders(c))
               e == One(Has(inflight, c))
               f == One(Has(screen, c))
    <2>1. c \in Cursors /\ n >= 1 /\ crefs[c] = 1 BY <1>6
    <2>2. n \in Nat /\ 1 = One(cursor = c) + One(Has(builder, c)) + One(Has(queued, c)) + e + f + n
      BY <2>1, StillCounted DEF Number
    <2>3. /\ One(cursor = c) \in Nat /\ One(Has(builder, c)) \in Nat /\ One(Has(queued, c)) \in Nat
          /\ e \in Nat /\ f \in Nat
      BY DEF One
    <2> HIDE DEF n, e, f
    <2>4. e = 0 /\ f = 0 BY <2>1, <2>2, <2>3
    <2> QED BY <2>1, <2>4 DEF e, f, One
  <1> HIDE DEF tasks, last, r
  <1>9. DeviceTypeOK' /\ KernelOK'
    <2>1. last \subseteq Cursors BY <1>8
    <2> QED BY <1>1, <1>7, <1>8, <2>1, FbsGone
  <1>10. crefs' \in [Cursors -> Nat] /\ \A c \in Cursors : crefs[c] = 0 => crefs'[c] = 0
    <2>1. ASSUME NEW c \in Cursors PROVE crefs'[c] \in Nat /\ (crefs[c] = 0 => crefs'[c] = 0)
      <3>1. crefs[c] \in Nat BY StillCounted
      <3>2. crefs'[c] = IF c \in CursorsOf(r) THEN crefs[c] - 1 ELSE crefs[c] BY <1>3
      <3>3. c \in CursorsOf(r) => crefs[c] >= 1 BY <1>6
      <3> QED BY <3>1, <3>2, <3>3
    <2> QED BY <1>3, <2>1
  <1>11. /\ StacksOK' /\ todo' \in [Threads -> Seq(Tasks)]
        /\ \A c \in Cursors :
              /\ IsFiniteSet(Holders(c))' /\ Cardinality(Holders(c)) \in Nat
              /\ Cardinality(Holders(c))' =
                     Cardinality(Holders(c)) - One(Has(todo[t][1].req, c)) + One(Carry(tasks, c))
    <2>1. "release" \in Plain BY DEF Plain
    <2> QED BY <1>1, <1>2, <1>4, <1>10, <2>1, PlainAct
  <1>12. ASSUME NEW c \in Cursors PROVE Counted(c)'
    <2>1. One(Has(todo[t][1].req, c)) = One(c \in CursorsOf(r)) /\ One(Carry(tasks, c)) = 0
      BY <1>4, <1>5 DEF One, Has, r
    <2>2. crefs'[c] = crefs[c] - One(c \in CursorsOf(r))
      <3>1. crefs'[c] = IF c \in CursorsOf(r) THEN crefs[c] - 1 ELSE crefs[c] BY <1>3
      <3>2. crefs[c] \in Nat BY StillCounted
      <3> QED BY <3>1, <3>2 DEF One
    <2>3. One(c \in CursorsOf(r)) \in Nat BY DEF One
    <2>4. Number(c)' = Number(c) - One(c \in CursorsOf(r))
      BY <1>1, <1>11, <2>1, <2>3, StillCounted DEF Number
    <2> QED BY <1>11, <2>2, <2>4, StillCounted DEF Counted
  <1>13. WindowTypeOK' /\ FlowTypeOK' /\ RequestsSane' /\ ModeOK'
    BY <1>1, <1>10, <1>11 DEF RequestsInv, RequestsTypeOK, WindowTypeOK, FlowTypeOK, RequestsSane,
                              ModeOK, Cursors
  <1>14. CountsOK' BY <1>12 DEF CountsOK, Cursors
  <1> QED BY <1>9, <1>11, <1>13, <1>14 DEF RequestsInv, RequestsTypeOK

(* A flip: the request in flight is on the screen, the last one leaves it. *)
LEMMA StepPageFlip ==
  ASSUME RequestsInv, OnPageFlip
  PROVE RequestsInv'
  <1> DEFINE t == EventLoop
             tasks == (IF screen.some THEN <<Task("release", screen)>>
                   ELSE <<>>) \o <<Call("scanout")>>
  <1>1. /\ Idle(t) /\ inflight.some /\ inflight' = NoReq /\ screen' = inflight
        /\ todo' = [todo EXCEPT ![t] = tasks]
        /\ UNCHANGED <<dev, kernel, kmode, foreign, committed, cmode, cblob, blobs>>
        /\ UNCHANGED <<composition, winlock, builder, queued, shown, lost>>
        /\ UNCHANGED <<cursor, crefs>>
    BY DEF OnPageFlip, kernelVars, stateVars, winVars, cursorVars
  <1>2. t \in Threads BY ThreadsAssumption
  <1>3. PushOK(dev, tasks) /\ \A c : Carry(tasks, c) <=> Has(screen, c)
    <2>1. screen \in Requests BY DEF RequestsInv, RequestsTypeOK, FlowTypeOK
    <2>2. screen.some => screen \in RequestT BY <2>1 DEF Requests, NoReq
    <2>3. screen.some => Sane(dev, screen) BY DEF RequestsInv, RequestsSane, Complete
    <2>4. screen.some => MayBe(dev, "release", screen) BY <2>2, <2>3 DEF MayBe
    <2>5. "scanout" \in Rest BY DEF Rest
    <2> QED BY <2>1, <2>4, <2>5, PushSomeCall
  <1> HIDE DEF tasks, t
  <1>4. tasks \in Seq(Tasks) /\ Carried(dev, tasks)
        /\ \A i \in DOMAIN tasks : tasks[i].op \in Plain \ {"rmfb"} /\ tasks[i].cursor = 0
    BY <1>3 DEF PushOK
  <1>5. \A n \in 0 .. Len(tasks) - 1 : OpAt(tasks, n) \in Plain
    <2> TAKE n \in 0 .. Len(tasks) - 1
    <2>1. Len(tasks) \in Nat /\ DOMAIN tasks = 1 .. Len(tasks) BY <1>4, LenProperties
    <2>2. Len(tasks) - n \in DOMAIN tasks BY <2>1
    <2> QED BY <1>4, <2>2 DEF OpAt
  <1>6. StacksOK' /\ todo' \in [Threads -> Seq(Tasks)]
    <2>1. Ready(tasks, builder, composition) BY <1>5 DEF Ready, Plain
    <2>2. Locked(tasks, t, winlock) BY <1>5 DEF Locked, Plain
    <2>3. Dropped(tasks, crefs') BY <1>4 DEF Dropped
    <2>4. ~Submits(todo[t])
      <3>1. todo[t] = <<>> BY <1>1 DEF Idle
      <3> QED BY <3>1 DEF Submits
    <2>5. StacksOK /\ FlowTypeOK BY DEF RequestsInv, RequestsTypeOK
    <2> QED BY <1>1, <1>2, <1>4, <2>1, <2>2, <2>3, <2>4, <2>5, StackSet
  <1>7. ASSUME NEW c \in Cursors PROVE Counted(c)'
    <2>1. /\ IsFiniteSet(Holders(c))' /\ Cardinality(Holders(c)) \in Nat
          /\ Cardinality(Holders(c))' =
                 Cardinality(Holders(c)) - One(Holds(todo[t], c)) + One(Holds(tasks, c))
      <3>1. FlowTypeOK /\ IsFiniteSet(Holders(c)) BY StillCounted DEF RequestsInv, RequestsTypeOK
      <3> QED BY <1>1, <1>2, <3>1, HoldersChange
    <2>2. One(Holds(todo[t], c)) = 0 /\ One(Holds(tasks, c)) = One(Has(screen, c))
      BY <1>1, <1>3 DEF One, Holds, Idle, Carry
    <2>3. One(Has(inflight', c)) = 0 /\ One(Has(screen', c)) = One(Has(inflight, c))
      BY <1>1 DEF One, Has, NoReq
    <2>4. Number(c)' = Number(c) BY <1>1, <2>1, <2>2, <2>3, StillCounted DEF Number
    <2> QED BY <1>1, <2>1, <2>4, StillCounted DEF Counted
  <1>8. WindowTypeOK' /\ FlowTypeOK' /\ RequestsSane' /\ ModeOK' /\ DeviceTypeOK'
    BY <1>1, <1>6 DEF RequestsInv, RequestsTypeOK, WindowTypeOK, FlowTypeOK, RequestsSane, ModeOK,
                      Requests, NoReq, DeviceTypeOK, Planes
  <1>9. CountsOK' BY <1>7 DEF CountsOK, Cursors
  <1>10. KernelOK'
    <2>1. ShownLast'
      <3>1. ~inflight'.some BY <1>1 DEF NoReq
      <3>2. ShownLast BY DEF RequestsInv, KernelOK
      <3> QED BY <1>1, <3>1, <3>2 DEF ShownLast
    <2>2. ASSUME NEW p \in Planes PROVE PlaneOK(p)'
      <3>1. PlaneOK(p) BY DEF RequestsInv, KernelOK
      <3>2. FbMeant(shown, p)' = FbMeant(shown, p) BY <1>1 DEF FbMeant, ShownLayers
      <3> QED BY <1>1, <3>1, <3>2 DEF PlaneOK
    <2>3. (dev.atomic /\ shown.some => \A i \in DOMAIN shown.layers : LayerOK(i))'
      BY <1>1 DEF RequestsInv, KernelOK, LayerOK
    <2> QED BY <1>1, <2>1, <2>2, <2>3 DEF KernelOK, Planes
  <1> QED BY <1>6, <1>8, <1>9, <1>10 DEF RequestsInv, RequestsTypeOK

(* Steps that leave the window and the threads.                            *)
LEMMA StacksStay ==
  ASSUME StacksOK, UNCHANGED <<dev, builder, composition, winlock, crefs, todo>>
  PROVE StacksOK'
  <1>1. ASSUME NEW t \in Threads PROVE StackOK(t, todo[t])'
    <2>1. StackOK(t, todo[t]) BY DEF StacksOK
    <2> QED BY <2>1 DEF StackOK, Ready, Carried, Locked, Dropped, OpAt, Cursors
  <1>2. (builder.some => \E t \in Threads : Submits(todo[t]))'
    BY DEF StacksOK, Submits, OpAt
  <1> QED BY <1>1, <1>2 DEF StacksOK

(* Another master.                                                         *)
LEMMA StepSwitchMaster ==
  ASSUME RequestsInv, SwitchMaster
  PROVE RequestsInv'
  <1>1. /\ UNCHANGED <<dev, kernel, kmode, foreign, committed, cmode, cblob, blobs>>
        /\ UNCHANGED <<composition, winlock, builder, queued, inflight, screen, shown, lost>>
        /\ UNCHANGED <<cursor, crefs, todo>>
    BY DEF SwitchMaster, stateVars, winVars, flowVars, cursorVars
  <1>2. DeviceTypeOK' /\ KernelOK' BY <1>1, StillShown
  <1>3. StacksOK' BY <1>1, StacksStay DEF RequestsInv
  <1>4. ASSUME NEW c \in Cursors PROVE Counted(c)'
    <2>1. Holders(c)' = Holders(c) BY <1>1 DEF Holders, Holds, Has, CursorsOf
    <2>2. Number(c)' = Number(c) BY <1>1, <2>1 DEF Number, One, Has, CursorsOf
    <2> QED BY <1>1, <2>1, <2>2, StillCounted DEF Counted
  <1>5. CountsOK' BY <1>4 DEF CountsOK, Cursors
  <1>6. WindowTypeOK' /\ FlowTypeOK' /\ RequestsSane' /\ ModeOK'
    BY <1>1 DEF RequestsInv, RequestsTypeOK, WindowTypeOK, FlowTypeOK, RequestsSane, ModeOK
  <1> QED BY <1>2, <1>3, <1>5, <1>6 DEF RequestsInv, RequestsTypeOK

(* The other master changes the display.                                   *)
LEMMA StepForeign ==
  ASSUME RequestsInv, NEW p \in Planes, ForeignModeset(p)
  PROVE RequestsInv'
  <1>1. /\ kernel' = [q \in Planes |->
               [kernel[q] EXCEPT !.fb = IF q = p THEN ForeignFb ELSE Off, !.blend = "none"]]
        /\ kmode' = "other" /\ foreign' = Planes \cup {0}
        /\ UNCHANGED <<dev, committed, cmode, cblob, blobs>>
        /\ UNCHANGED <<composition, winlock, builder, queued, inflight, screen, shown, lost>>
        /\ UNCHANGED <<cursor, crefs, todo>>
    BY DEF ForeignModeset, stateVars, winVars, flowVars, cursorVars
  <1>2. StacksOK' BY <1>1, StacksStay DEF RequestsInv
  <1>3. ASSUME NEW c \in Cursors PROVE Counted(c)'
    <2>1. Holders(c)' = Holders(c) BY <1>1 DEF Holders, Holds, Has, CursorsOf
    <2>2. Number(c)' = Number(c) BY <1>1, <2>1 DEF Number, One, Has, CursorsOf
    <2> QED BY <1>1, <2>1, <2>2, StillCounted DEF Counted
  <1>4. CountsOK' BY <1>3 DEF CountsOK, Cursors
  <1>5. WindowTypeOK' /\ FlowTypeOK' /\ RequestsSane' /\ ModeOK'
    BY <1>1 DEF RequestsInv, RequestsTypeOK, WindowTypeOK, FlowTypeOK, RequestsSane, ModeOK
  <1>6. dev \in Devices /\ kernel \in [Planes -> KernelT] /\ Planes' = Planes
    BY <1>1 DEF RequestsInv, RequestsTypeOK, DeviceTypeOK, Planes
  <1>7. ASSUME NEW q \in Planes
        PROVE kernel'[q] \in KernelT /\ kernel'[q].fb \in NoOnesFb
                    /\ kernel'[q].zpos = kernel[q].zpos
    <2> DEFINE f == IF q = p THEN ForeignFb ELSE Off
    <2>1. f \in Nat /\ f \in NoOnesFb BY DEF NoOnesFb, ForeignFb, Off
    <2>2. kernel[q] \in KernelT BY <1>6
    <2>3. kernel'[q] = [kernel[q] EXCEPT !.fb = f, !.blend = "none"] BY <1>1
    <2> HIDE DEF f
    <2> QED BY <2>1, <2>2, <2>3 DEF KernelT, Blends
  <1>8. DeviceTypeOK'
    <2>1. kernel' \in [Planes -> KernelT] BY <1>1, <1>7
    <2>2. foreign' \subseteq Planes \cup {0} BY <1>1
    <2> QED BY <1>1, <1>6, <2>1, <2>2
      DEF RequestsInv, RequestsTypeOK, DeviceTypeOK, Modes
  <1>9. KernelOK'
    <2>1. ShownLast' BY <1>1 DEF RequestsInv, KernelOK, ShownLast
    <2>2. ASSUME NEW q \in Planes PROVE PlaneOK(q)'
      <3>1. PlaneOK(q) BY DEF RequestsInv, KernelOK
      <3>2. q \in foreign' BY <1>1
      <3>3. kernel'[q].fb <= 100 BY <1>7 DEF NoOnesFb, Off, ForeignFb
      <3> QED BY <1>1, <1>7, <3>1, <3>2, <3>3 DEF PlaneOK, NoOnesFb, Off, ForeignFb
    <2>3. ASSUME dev.atomic, shown.some, NEW i \in DOMAIN shown.layers PROVE LayerOK(i)'
      <3>1. shown.layers[i].plane \in Planes
        BY <2>3 DEF RequestsInv, RequestsSane, Complete, Sane, Placed, Planes
      <3> QED BY <1>1, <3>1 DEF LayerOK
    <2> QED BY <1>1, <1>6, <2>1, <2>2, <2>3 DEF KernelOK
  <1> QED BY <1>2, <1>4, <1>5, <1>8, <1>9 DEF RequestsInv, RequestsTypeOK

(* The planes of a request.                                                *)
LEMMA PlanesIs ==
  ASSUME dev \in Devices, NEW r \in RequestT, Complete(dev, r)
  PROVE /\ Len(r.layers) \in Nat /\ DOMAIN r.layers = 1 .. Len(r.layers) /\ 1 \in DOMAIN r.layers
        /\ \A i \in DOMAIN r.layers : r.layers[i] \in LayerT /\ r.layers[i].plane \in Planes
        /\ r.available = Planes \ {r.layers[i].plane : i \in DOMAIN r.layers}
        /\ \A i, j \in DOMAIN r.layers : r.layers[i].plane = r.layers[j].plane => i = j
        /\ r.layers[1].fb \in 2 .. 100
  <1>1. Placed(dev, r) /\ Pictured(dev, r) BY DEF Complete, Sane
  <1>2. /\ Len(r.layers) \in Nat /\ DOMAIN r.layers = 1 .. Len(r.layers)
        /\ \A i \in DOMAIN r.layers : r.layers[i] \in LayerT
    BY RequestIs
  <1>3. 1 \in DOMAIN r.layers BY FbMeantIs
  <1>4. r.layers[1].fb \in 2 .. 100 BY <1>1, <1>3 DEF Pictured
  <1> QED BY <1>1, <1>2, <1>3, <1>4 DEF Placed, Planes

(* committed_state after a commit.                                         *)
LEMMA RecordedIs ==
  ASSUME RequestsInv, NEW r \in RequestT, Complete(dev, r), RecordLayers(r)
  PROVE /\ committed' \in [Planes -> CommittedT]
        /\ \A i \in DOMAIN r.layers : committed'[r.layers[i].plane].fb = r.layers[i].fb
        /\ \A p \in Planes : (\A i \in DOMAIN r.layers : r.layers[i].plane # p) =>
                                 committed'[p] = committed[p]
  <1>1. dev \in Devices /\ committed \in [Planes -> CommittedT]
    BY DEF RequestsInv, RequestsTypeOK, DeviceTypeOK
  <1>2. /\ \A i \in DOMAIN r.layers : r.layers[i] \in LayerT /\ r.layers[i].plane \in Planes
        /\ \A i, j \in DOMAIN r.layers : r.layers[i].plane = r.layers[j].plane => i = j
    BY <1>1, PlanesIs
  <1> DEFINE At2(p) == CHOOSE i \in DOMAIN r.layers : r.layers[i].plane = p
             Rec(i) == [fb |-> r.layers[i].fb, format |-> r.layers[i].format]
  <1>3. committed' = [p \in Planes |->
            IF \E i \in DOMAIN r.layers : r.layers[i].plane = p THEN Rec(At2(p)) ELSE committed[p]]
    BY DEF RecordLayers
  <1>4. ASSUME NEW i \in DOMAIN r.layers
        PROVE /\ At2(r.layers[i].plane) = i
              /\ Rec(i) \in CommittedT /\ Rec(i).fb = r.layers[i].fb
    <2>1. At2(r.layers[i].plane) = i BY <1>2
    <2>2. r.layers[i] \in LayerT BY <1>2
    <2> QED BY <2>1, <2>2 DEF LayerT, CommittedT
  <1> HIDE DEF At2, Rec
  <1>5. \A i \in DOMAIN r.layers : committed'[r.layers[i].plane] = Rec(i) BY <1>2, <1>3, <1>4
  <1>6. \A p \in Planes : (\A i \in DOMAIN r.layers : r.layers[i].plane # p) =>
                                 committed'[p] = committed[p]
    BY <1>3
  <1>7. committed' \in [Planes -> CommittedT]
    <2>1. ASSUME NEW p \in Planes PROVE committed'[p] \in CommittedT
      <3>1. CASE \E i \in DOMAIN r.layers : r.layers[i].plane = p BY <1>4, <1>5, <3>1
      <3>2. CASE ~\E i \in DOMAIN r.layers : r.layers[i].plane = p BY <1>1, <1>6, <3>2
      <3> QED BY <3>1, <3>2
    <2> QED BY <1>3, <2>1
  <1> QED BY <1>4, <1>5, <1>6, <1>7

(* The mode and its blob after a commit.                                   *)
LEMMA BlobIs == ASSUME RequestsInv, UploadMode
                PROVE NewBlob \in Nat \ {0} /\ blobs = {} /\ cblob = 0 /\ cmode = "other"
  <1>1. cmode = "other" BY DEF UploadMode, RequestsInv, RequestsTypeOK, DeviceTypeOK, Modes
  <1>2. blobs = {} /\ cblob = 0 BY <1>1 DEF RequestsInv, ModeOK
  <1> DEFINE ids == 1 .. 3
  <1>3. ids \ blobs = ids BY <1>2
  <1>4. ids \subseteq Nat /\ ids # {} /\ 0 \notin ids
    <2>1. 1 \in ids OBVIOUS
    <2> QED BY <2>1
  <1>5. NewBlob = Min(ids) BY <1>3 DEF NewBlob
  <1> HIDE DEF ids
  <1>6. Min(ids) \in ids BY <1>4, MinIs
  <1> QED BY <1>1, <1>2, <1>4, <1>5, <1>6

(* The mode and its blob after an accepted commit.                         *)
LEMMA ModeRecorded ==
  ASSUME RequestsInv, NEW kept, RecordMode(kept),
         (kept = {NewBlob} /\ lost' = lost) \/ lost' = TRUE,
         UploadMode => kmode' = "ours" \/ 0 \in foreign',
         ~UploadMode /\ (kmode = "ours" \/ 0 \in foreign) => kmode' = "ours" \/ 0 \in foreign'
  PROVE ModeOK' /\ cmode' \in Modes /\ cmode' = "ours"
  <1>1. CASE UploadMode
    <2>1. NewBlob \in Nat \ {0} /\ blobs = {} /\ cblob = 0 BY <1>1, BlobIs
    <2>2. cmode' = "ours" /\ cblob' = NewBlob /\ blobs' = (blobs \ {cblob}) \cup kept
      BY <1>1 DEF RecordMode
    <2>3. kept = {NewBlob} => blobs' = {cblob'} \ {0} BY <2>1, <2>2
    <2> QED BY <1>1, <2>2, <2>3 DEF ModeOK, Modes
  <1>2. CASE ~UploadMode
    <2>1. UNCHANGED <<cmode, cblob, blobs>> /\ cmode = "ours" BY <1>2 DEF RecordMode, UploadMode
    <2> QED BY <1>2, <2>1 DEF RequestsInv, ModeOK, Modes
  <1> QED BY <1>1, <1>2

(* What the kernel shows after an atomic commit.                           *)
LEMMA AppliedIs ==
  ASSUME RequestsInv, NEW r \in RequestT, Complete(dev, r), dev.atomic, kernel' = Applied(r)
  PROVE /\ InRequest(r) = {r.layers[i].plane : i \in DOMAIN r.layers}
        /\ \A i \in DOMAIN r.layers :
              LET p == r.layers[i].plane
                  plane == dev.planes[p]
              IN  /\ kernel'[p] \in KernelT /\ kernel'[p].fb = r.layers[i].fb
                  /\ plane.blends => kernel'[p].blend = r.props[i].blend
                  /\ kernel'[p].zpos = IF dev.zpos
                        /\ ~plane.fixed THEN r.props[i].zpos ELSE kernel[p].zpos
        /\ \A p \in Planes \ InRequest(r) :
              kernel'[p] = IF p \in PlanesToDisable(r) THEN [kernel[p] EXCEPT !.fb = Off]
                    ELSE kernel[p]
  <1>1. dev \in Devices /\ kernel \in [Planes -> KernelT]
    BY DEF RequestsInv, RequestsTypeOK, DeviceTypeOK
  <1>2. /\ \A i \in DOMAIN r.layers : r.layers[i] \in LayerT /\ r.layers[i].plane \in Planes
        /\ \A i, j \in DOMAIN r.layers : r.layers[i].plane = r.layers[j].plane => i = j
        /\ Len(r.layers) \in Nat /\ DOMAIN r.layers = 1 .. Len(r.layers)
    BY <1>1, PlanesIs
  <1>3. /\ DOMAIN r.props = DOMAIN r.layers
        /\ \A i \in DOMAIN r.layers :
               /\ r.props[i].plane = r.layers[i].plane /\ r.props[i].fb = r.layers[i].fb
               /\ r.props[i] \in PropT
    <2>1. Matched(dev, r) BY DEF Complete, Sane
    <2>2. /\ Len(r.props) = Len(r.layers)
          /\ \A i \in DOMAIN r.layers :
                 r.props[i].plane = r.layers[i].plane /\ r.props[i].fb = r.layers[i].fb
      BY <2>1 DEF Matched
    <2>3. DOMAIN r.props = 1 .. Len(r.props) /\ \A i \in DOMAIN r.props : r.props[i] \in PropT
      BY RequestIs
    <2> QED BY <1>2, <2>2, <2>3
  <1>4. InRequest(r) = {r.layers[i].plane : i \in DOMAIN r.layers} BY <1>3 DEF InRequest
  <1>5. ASSUME NEW i \in DOMAIN r.layers PROVE PropOf(r, r.layers[i].plane) = i
    BY <1>2, <1>3 DEF PropOf
  <1> DEFINE Kept(p) == IF p \in PlanesToDisable(r) THEN [kernel[p] EXCEPT !.fb = Off]
            ELSE kernel[p]
             Show(p, a, plane) ==
                 [fb |-> a.fb, format |-> a.format,
                  zpos |-> IF dev.zpos /\ ~plane.fixed THEN a.zpos ELSE kernel[p].zpos,
                  blend |-> IF plane.blends /\ a.blend \in Blends THEN a.blend
                            ELSE kernel[p].blend]
  <1>6. kernel' = [p \in Planes |->
            IF p \in InRequest(r) THEN Show(p, r.props[PropOf(r, p)], dev.planes[p]) ELSE Kept(p)]
    BY DEF Applied
  <1>7. ASSUME NEW p \in Planes, NEW a \in PropT, NEW plane
        PROVE /\ Show(p, a, plane) \in KernelT /\ Show(p, a, plane).fb = a.fb
              /\ plane.blends => Show(p, a, plane).blend = a.blend
              /\ Show(p, a, plane).zpos = IF dev.zpos
                    /\ ~plane.fixed THEN a.zpos ELSE kernel[p].zpos
    <2> DEFINE z == IF dev.zpos /\ ~plane.fixed THEN a.zpos ELSE kernel[p].zpos
               bl == IF plane.blends /\ a.blend \in Blends THEN a.blend ELSE kernel[p].blend
    <2>1. kernel[p] \in KernelT BY <1>1
    <2>2. /\ a.fb \in Nat /\ a.format \in Formats /\ a.zpos \in Nat /\ a.blend \in Blends
          /\ kernel[p].zpos \in Nat /\ kernel[p].blend \in Blends
      BY <2>1 DEF PropT, KernelT
    <2>3. z \in Nat /\ bl \in Blends /\ (plane.blends => bl = a.blend) BY <2>2
    <2>4. Show(p, a, plane) = [fb |-> a.fb, format |-> a.format, zpos |-> z, blend |-> bl] OBVIOUS
    <2> HIDE DEF z, bl, Show
    <2>5. /\ Show(p, a, plane) \in KernelT /\ Show(p, a, plane).fb = a.fb
          /\ Show(p, a, plane).zpos = z /\ Show(p, a, plane).blend = bl
      BY <2>2, <2>3, <2>4 DEF KernelT
    <2> QED BY <2>3, <2>5 DEF z
  <1> HIDE DEF Kept, Show
  <1>8. ASSUME NEW i \in DOMAIN r.layers
        PROVE LET p == r.layers[i].plane IN kernel'[p] = Show(p, r.props[i], dev.planes[p])
    BY <1>2, <1>4, <1>5, <1>6
  <1>9. \A p \in Planes \ InRequest(r) : kernel'[p] = Kept(p) BY <1>6
  <1>10. ASSUME NEW i \in DOMAIN r.layers
         PROVE LET p == r.layers[i].plane
                   plane == dev.planes[p]
               IN  /\ kernel'[p] \in KernelT /\ kernel'[p].fb = r.layers[i].fb
                   /\ plane.blends => kernel'[p].blend = r.props[i].blend
                   /\ kernel'[p].zpos =
                          IF dev.zpos /\ ~plane.fixed THEN r.props[i].zpos ELSE kernel[p].zpos
    <2> DEFINE p == r.layers[i].plane
               plane == dev.planes[p]
               a == r.props[i]
    <2>1. p \in Planes /\ a \in PropT /\ a.fb = r.layers[i].fb BY <1>2, <1>3
    <2>2. kernel'[p] = Show(p, a, plane) BY <1>8
    <2> HIDE DEF p, plane, a
    <2>3. /\ Show(p, a, plane) \in KernelT /\ Show(p, a, plane).fb = a.fb
          /\ plane.blends => Show(p, a, plane).blend = a.blend
          /\ Show(p, a, plane).zpos = IF dev.zpos /\ ~plane.fixed THEN a.zpos ELSE kernel[p].zpos
      BY <1>7, <2>1
    <2>4. /\ kernel'[p] \in KernelT /\ kernel'[p].fb = r.layers[i].fb
          /\ plane.blends => kernel'[p].blend = a.blend
          /\ kernel'[p].zpos = IF dev.zpos /\ ~plane.fixed THEN a.zpos ELSE kernel[p].zpos
      BY <2>1, <2>2, <2>3
    <2> QED BY <2>4 DEF p, plane, a
  <1> QED BY <1>4, <1>9, <1>10 DEF Kept

(* The thread that commits goes on with tasks.                             *)
LEMMA CommitStacks ==
  ASSUME RequestsInv, NEW t \in Threads, At(t, "commit"), NEW tasks, PushOK(dev, tasks), Then(t,
         tasks),
         UNCHANGED <<dev, composition, winlock, builder, cursor, crefs>>
  PROVE /\ StacksOK' /\ todo' \in [Threads -> Seq(Tasks)]
        /\ \A c \in Cursors :
              /\ IsFiniteSet(Holders(c))' /\ Cardinality(Holders(c)) \in Nat
              /\ Cardinality(Holders(c))' =
                     Cardinality(Holders(c)) - One(Has(todo[t][1].req, c)) + One(Carry(tasks, c))
  <1>1. "commit" \in Plain BY DEF Plain
  <1> QED BY <1>1, PlainAct

(* What an atomic commit shows, and what is recorded of it.                *)
LEMMA AtomicShown ==
  ASSUME RequestsInv, NEW r \in RequestT, Complete(dev, r), dev.atomic, kernel' = Applied(r),
         RecordLayers(r), NEW more, more \subseteq {0},
         foreign' = foreign \ (InRequest(r) \cup PlanesToDisable(r) \cup more),
         dev' = dev, inflight' = r, shown' = r, kmode' \in Modes, cmode' \in Modes
  PROVE DeviceTypeOK' /\ KernelOK'
  <1>1. /\ dev \in Devices /\ kernel \in [Planes -> KernelT] /\ committed \in [Planes -> CommittedT]
        /\ foreign \subseteq Planes \cup {0} /\ Planes' = Planes /\ 0 \notin Planes
    BY DeviceIs DEF RequestsInv, RequestsTypeOK, DeviceTypeOK, Planes
  <1>2. /\ \A i \in DOMAIN r.layers : r.layers[i] \in LayerT /\ r.layers[i].plane \in Planes
        /\ r.available = Planes \ {r.layers[i].plane : i \in DOMAIN r.layers}
    BY <1>1, PlanesIs
  <1>3. /\ InRequest(r) = {r.layers[i].plane : i \in DOMAIN r.layers}
        /\ \A p \in Planes \ InRequest(r) :
              kernel'[p] = IF p \in PlanesToDisable(r) THEN [kernel[p] EXCEPT !.fb = Off]
                    ELSE kernel[p]
    BY AppliedIs
  <1>4. ASSUME NEW i \in DOMAIN r.layers
        PROVE LET p == r.layers[i].plane
                  plane == dev.planes[p]
              IN  /\ kernel'[p] \in KernelT /\ kernel'[p].fb = r.layers[i].fb
                  /\ plane.blends => kernel'[p].blend = r.props[i].blend
                  /\ kernel'[p].zpos = IF dev.zpos
                        /\ ~plane.fixed THEN r.props[i].zpos ELSE kernel[p].zpos
    BY AppliedIs
  <1>5. r.some BY DEF RequestT
  <1>6. PlanesToDisable(r) = {p \in Planes \ InRequest(r) : committed[p].fb # Off}
    BY <1>2, <1>3 DEF PlanesToDisable
  <1>7. /\ committed' \in [Planes -> CommittedT]
        /\ \A i \in DOMAIN r.layers : committed'[r.layers[i].plane].fb = r.layers[i].fb
        /\ \A p \in Planes \ InRequest(r) : committed'[p] = committed[p]
    BY <1>3, RecordedIs
  <1>8. /\ \A i \in DOMAIN r.layers : FbMeant(r, r.layers[i].plane) = r.layers[i].fb
        /\ \A p \in Planes \ InRequest(r) : FbMeant(r, p) = Off
    <2>1. ShownLayers(r) = DOMAIN r.layers BY DEF ShownLayers
    <2> QED BY <1>1, <1>3, <2>1, FbMeantIs
  <1>9. FbMeant(shown, 0)' = FbMeant(r, 0) /\ \A p : FbMeant(shown, p)' = FbMeant(r, p)
    BY DEF FbMeant, ShownLayers
  <1>10. ASSUME NEW p \in Planes
         PROVE p \in foreign' <=> p \in foreign /\ p \notin InRequest(r)
                     /\ p \notin PlanesToDisable(r)
    BY <1>1
  <1>11. ASSUME NEW p \in Planes \ InRequest(r)
         PROVE /\ kernel'[p] \in KernelT /\ kernel'[p].zpos = kernel[p].zpos
               /\ kernel'[p].fb = IF p \in PlanesToDisable(r) THEN Off ELSE kernel[p].fb
    <2>1. kernel[p] \in KernelT BY <1>1
    <2>2. /\ [kernel[p] EXCEPT !.fb = Off] \in KernelT
          /\ [kernel[p] EXCEPT !.fb = Off].fb = Off
          /\ [kernel[p] EXCEPT !.fb = Off].zpos = kernel[p].zpos
      BY <2>1 DEF KernelT, Off
    <2> QED BY <1>3, <2>1, <2>2
  <1>12. ASSUME NEW p \in Planes PROVE PlaneOK(p)'
    <2>1. PlaneOK(p) BY DEF RequestsInv, KernelOK
    <2>2. CASE p \in InRequest(r)
      <3>1. PICK i \in DOMAIN r.layers : r.layers[i].plane = p BY <1>3, <2>2
      <3>2. kernel'[p].fb = FbMeant(r, p) /\ committed'[p].fb = kernel'[p].fb
        BY <1>4, <1>7, <1>8, <3>1
      <3>3. p \notin foreign' BY <1>10, <2>2
      <3>4. dev.planes[p].fixed => kernel'[p].zpos = dev.planes[p].zmin
        BY <1>4, <2>1, <3>1 DEF PlaneOK
      <3> QED BY <1>5, <1>9, <3>2, <3>3, <3>4 DEF PlaneOK
    <2>3. CASE p \in PlanesToDisable(r)
      <3>1. kernel'[p].fb = Off /\ FbMeant(r, p) = Off /\ kernel'[p].zpos = kernel[p].zpos
        BY <1>6, <1>8, <1>11, <2>3
      <3>2. p \notin foreign' BY <1>10, <2>3
      <3> QED BY <1>5, <1>9, <2>1, <3>1, <3>2 DEF PlaneOK
    <2>4. CASE p \notin InRequest(r) /\ p \notin PlanesToDisable(r)
      <3>1. kernel'[p].fb = kernel[p].fb /\ FbMeant(r, p) = Off /\ kernel'[p].zpos = kernel[p].zpos
            /\ committed'[p] = committed[p]
        BY <1>7, <1>8, <1>11, <2>4
      <3>2. committed[p].fb = Off BY <1>6, <2>4
      <3>3. p \notin foreign => kernel[p].fb = Off BY <2>1, <3>2 DEF PlaneOK
      <3>4. p \in foreign' <=> p \in foreign BY <1>10, <2>4
      <3> QED BY <1>5, <1>9, <2>1, <3>1, <3>2, <3>3, <3>4 DEF PlaneOK
    <2> QED BY <2>2, <2>3, <2>4
  <1>13. (\A i \in DOMAIN shown.layers : LayerOK(i))'
    <2> SUFFICES ASSUME NEW i \in DOMAIN r.layers PROVE LayerOK(i)' OBVIOUS
    <2> DEFINE p == r.layers[i].plane
    <2>1. p \in Planes /\ PlaneOK(p) BY <1>2 DEF RequestsInv, KernelOK
    <2>2. dev.planes[p].fixed => kernel[p].zpos = dev.planes[p].zmin BY <2>1 DEF PlaneOK
    <2>3. /\ dev.planes[p].blends => kernel'[p].blend = r.props[i].blend
          /\ dev.zpos => kernel'[p].zpos =
                IF dev.planes[p].fixed THEN dev.planes[p].zmin ELSE r.props[i].zpos
      BY <1>4, <2>2
    <2> QED BY <2>3 DEF LayerOK
  <1>14. ShownLast' BY <1>5 DEF ShownLast
  <1>15. KernelOK' BY <1>1, <1>12, <1>13, <1>14 DEF KernelOK
  <1>16. DeviceTypeOK'
    <2>1. ASSUME NEW p \in Planes PROVE kernel'[p] \in KernelT
      <3>1. CASE p \in InRequest(r) BY <1>3, <1>4, <3>1
      <3>2. CASE p \notin InRequest(r) BY <1>11, <3>2
      <3> QED BY <3>1, <3>2
    <2>2. kernel' = [p \in Planes |-> kernel'[p]] BY DEF Applied
    <2>3. kernel' \in [Planes -> KernelT] BY <2>1, <2>2
    <2>4. foreign' \subseteq Planes \cup {0} BY <1>1
    <2> QED BY <1>1, <1>7, <2>3, <2>4 DEF DeviceTypeOK
  <1> QED BY <1>15, <1>16

(* An atomic commit.                                                       *)
LEMMA StepCommitAtomic ==
  ASSUME RequestsInv, NEW t \in Threads, CommitAtomic(t)
  PROVE RequestsInv'
  <1> DEFINE r == todo[t][1].req
             more == IF UploadMode THEN {0} ELSE {}
  <1>1. At(t, "commit") /\ Head(todo[t]) = todo[t][1] /\ MayBe(dev, "commit", r)
    BY AtIs DEF CommitAtomic
  <1>2. /\ dev.atomic /\ ~inflight.some /\ kernel' = Applied(r) /\ RecordLayers(r)
        /\ RecordMode({NewBlob})
        /\ kmode' = IF UploadMode THEN "ours" ELSE kmode
        /\ foreign' = foreign \ (InRequest(r) \cup PlanesToDisable(r) \cup more)
        /\ inflight' = r /\ shown' = r /\ Then(t, <<>>)
        /\ UNCHANGED <<dev, composition, winlock, builder, queued, screen, lost, cursor, crefs>>
    BY <1>1 DEF CommitAtomic, winVars, cursorVars
  <1>3. r \in RequestT /\ Complete(dev, r) BY <1>1 DEF MayBe
  <1>4. more \subseteq {0} /\ (UploadMode => 0 \in more) /\ (~UploadMode => more = {}) OBVIOUS
  <1> HIDE DEF r, more
  <1>5. dev \in Devices /\ 0 \notin Planes /\ kmode \in Modes
    BY DeviceIs DEF RequestsInv, RequestsTypeOK, DeviceTypeOK
  <1>6. InRequest(r) \cup PlanesToDisable(r) \subseteq Planes
    <2>1. /\ \A i \in DOMAIN r.layers : r.layers[i].plane \in Planes
          /\ r.available = Planes \ {r.layers[i].plane : i \in DOMAIN r.layers}
      BY <1>3, <1>5, PlanesIs
    <2>2. InRequest(r) = {r.layers[i].plane : i \in DOMAIN r.layers} BY <1>2, <1>3, AppliedIs
    <2> QED BY <2>1, <2>2 DEF PlanesToDisable
  <1>7. ModeOK' /\ cmode' \in Modes /\ cmode' = "ours"
    <2>1. UploadMode => kmode' = "ours" BY <1>2
    <2>2. ~UploadMode /\ (kmode = "ours" \/ 0 \in foreign) => kmode' = "ours" \/ 0 \in foreign'
      BY <1>2, <1>4, <1>5, <1>6
    <2> QED BY <1>2, <2>1, <2>2, ModeRecorded
  <1>8. DeviceTypeOK' /\ KernelOK'
    <2>1. kmode' \in Modes BY <1>2, <1>5 DEF Modes
    <2> QED BY <1>2, <1>3, <1>4, <1>7, <2>1, AtomicShown
  <1>9. PushOK(dev, <<>>) /\ \A c \in Cursors : ~Carry(<<>>, c) BY PushNone
  <1>10. /\ StacksOK' /\ todo' \in [Threads -> Seq(Tasks)]
         /\ \A c \in Cursors :
              /\ IsFiniteSet(Holders(c))' /\ Cardinality(Holders(c)) \in Nat
              /\ Cardinality(Holders(c))' =
                     Cardinality(Holders(c)) - One(Has(todo[t][1].req, c)) + One(Carry(<<>>, c))
    BY <1>1, <1>2, <1>9, CommitStacks
  <1>11. ASSUME NEW c \in Cursors PROVE Counted(c)'
    <2>1. One(Carry(<<>>, c)) = 0 /\ One(Has(inflight, c)) = 0
                /\ One(Has(inflight', c)) = One(Has(r, c))
          /\ One(Has(todo[t][1].req, c)) = One(Has(r, c)) /\ One(Has(r, c)) \in Nat
      BY <1>2, <1>9 DEF One, Has, r
    <2>2. Number(c)' = Number(c) BY <1>2, <1>10, <2>1, StillCounted DEF Number
    <2> QED BY <1>2, <1>10, <2>2, StillCounted DEF Counted
  <1>12. WindowTypeOK' /\ FlowTypeOK' /\ RequestsSane'
    BY <1>2, <1>3, <1>10 DEF RequestsInv, RequestsTypeOK, WindowTypeOK, FlowTypeOK, RequestsSane,
                             Requests
  <1>13. CountsOK' BY <1>11 DEF CountsOK, Cursors
  <1> QED BY <1>7, <1>8, <1>10, <1>12, <1>13 DEF RequestsInv, RequestsTypeOK

(* What the display shows after a legacy commit.                           *)
LEMMA LegacyShown ==
  ASSUME RequestsInv, NEW r \in RequestT, Complete(dev, r), ~dev.atomic, ShowBottom(r),
         RecordLayers(r), NEW more, more \subseteq {0},
         foreign' = foreign \ (more \cup {r.layers[1].plane}),
         dev' = dev, shown' = r, kmode' \in Modes, cmode' \in Modes
  PROVE DeviceTypeOK' /\ KernelOK'
  <1> DEFINE l == r.layers[1]
             q == l.plane
  <1>1. /\ dev \in Devices /\ kernel \in [Planes -> KernelT] /\ foreign \subseteq Planes \cup {0}
        /\ Planes' = Planes /\ 0 \notin Planes
    BY DeviceIs DEF RequestsInv, RequestsTypeOK, DeviceTypeOK, Planes
  <1>2. l \in LayerT /\ q \in Planes /\ l.fb \in 2 .. 100 BY <1>1, PlanesIs
  <1>3. l.fb \in Nat /\ l.fb <= 100 /\ l.format \in Formats
    <2>1. l.format \in Formats BY <1>2 DEF LayerT
    <2> DEFINE f == l.fb
    <2> HIDE DEF f
    <2>2. f \in 2 .. 100 BY <1>2 DEF f
    <2>3. f \in Nat /\ f <= 100 BY <2>2
    <2> QED BY <2>1, <2>3 DEF f
  <1>4. committed' \in [Planes -> CommittedT] BY RecordedIs
  <1>5. FbMeant(r, q) = l.fb
    <2>1. 1 \in ShownLayers(r) BY DEF ShownLayers
    <2> QED BY <1>1, <2>1, FbMeantIs
  <1>6. kernel' = [kernel EXCEPT ![q].fb = l.fb, ![q].format = l.format] BY DEF ShowBottom
  <1>7. r.some BY DEF RequestT
  <1>8. FbMeant(shown, q)' = FbMeant(r, q) BY DEF FbMeant, ShownLayers
  <1> HIDE DEF l, q
  <1>9. /\ kernel'[q] \in KernelT /\ kernel'[q].fb = l.fb /\ kernel'[q].zpos = kernel[q].zpos
        /\ \A p \in Planes \ {q} : kernel'[p] = kernel[p]
        /\ kernel' \in [Planes -> KernelT]
    <2>1. kernel[q] \in KernelT BY <1>1, <1>2
    <2> DEFINE f == l.fb
               g == l.format
    <2>2. f \in Nat /\ g \in Formats BY <1>3
    <2>3. kernel' = [kernel EXCEPT ![q].fb = f, ![q].format = g] BY <1>6
    <2> HIDE DEF f, g
    <2>4. kernel'[q] = [[kernel[q] EXCEPT !.fb = f] EXCEPT !.format = g] BY <1>1, <1>2, <2>3
    <2>5. kernel'[q] \in KernelT /\ kernel'[q].fb = f /\ kernel'[q].zpos = kernel[q].zpos
      BY <2>1, <2>2, <2>4 DEF KernelT
    <2>6. \A p \in Planes \ {q} : kernel'[p] = kernel[p] BY <1>1, <2>3
    <2>7. DOMAIN kernel' = Planes /\ kernel' = [p \in Planes |-> kernel'[p]] BY <1>1, <2>3
    <2>8. \A p \in Planes : kernel'[p] \in KernelT BY <1>1, <2>5, <2>6
    <2>9. kernel' \in [Planes -> KernelT] BY <2>7, <2>8
    <2> QED BY <2>5, <2>6, <2>9 DEF f
  <1>10. q \notin foreign' /\ \A p \in Planes \ {q} : p \in foreign' => p \in foreign
    BY <1>1 DEF q, l
  <1>11. ASSUME NEW p \in Planes PROVE PlaneOK(p)'
    <2>1. PlaneOK(p) BY DEF RequestsInv, KernelOK
    <2>2. CASE p = q
      <3>1. kernel'[p].fb = l.fb /\ kernel'[p].zpos = kernel[p].zpos BY <1>9, <2>2
      <3>2. p \notin foreign' BY <1>10, <2>2
      <3>3. kernel'[p].fb = FbMeant(shown, p)' BY <1>5, <1>8, <2>2, <3>1
      <3>4. kernel'[p].fb <= 100 BY <1>3, <3>1
      <3>5. dev.planes[p].fixed => kernel'[p].zpos = dev.planes[p].zmin BY <2>1, <3>1 DEF PlaneOK
      <3> QED BY <1>7, <3>2, <3>3, <3>4, <3>5 DEF PlaneOK
    <2>3. CASE p # q
      <3>1. kernel'[p] = kernel[p] BY <1>9, <2>3
      <3>2. p \in foreign' => kernel[p].fb \in NoOnesFb BY <1>10, <2>1, <2>3 DEF PlaneOK
      <3>3. p # shown'.layers[1].plane BY <2>3 DEF q, l
      <3> QED BY <1>7, <2>1, <3>1, <3>2, <3>3 DEF PlaneOK
    <2> QED BY <2>2, <2>3
  <1>12. ShownLast' BY DEF ShownLast
  <1>13. KernelOK' BY <1>1, <1>11, <1>12 DEF KernelOK
  <1>14. DeviceTypeOK' BY <1>1, <1>4, <1>9 DEF DeviceTypeOK
  <1> QED BY <1>13, <1>14

(* A commit by drmModePageFlip.                                            *)
LEMMA StepCommitPageFlip ==
  ASSUME RequestsInv, NEW t \in Threads, CommitPageFlip(t)
  PROVE RequestsInv'
  <1> DEFINE r == todo[t][1].req
  <1>1. At(t, "commit") /\ Head(todo[t]) = todo[t][1] /\ MayBe(dev, "commit", r)
    BY AtIs DEF CommitPageFlip
  <1>2. /\ ~dev.atomic /\ ~NeedsSetCrtc(r) /\ ~inflight.some /\ ShowBottom(r) /\ RecordLayers(r)
        /\ foreign' = foreign \ {r.layers[1].plane}
        /\ inflight' = r /\ shown' = r /\ Then(t, <<>>)
        /\ UNCHANGED <<dev, kmode, cmode, cblob, blobs>>
        /\ UNCHANGED <<composition, winlock, builder, queued, screen, lost, cursor, crefs>>
    BY <1>1 DEF CommitPageFlip, winVars, cursorVars
  <1>3. r \in RequestT /\ Complete(dev, r) BY <1>1 DEF MayBe
  <1> HIDE DEF r
  <1>4. dev \in Devices /\ 0 \notin Planes /\ kmode \in Modes /\ cmode \in Modes
    BY DeviceIs DEF RequestsInv, RequestsTypeOK, DeviceTypeOK
  <1>5. cmode = "ours" BY <1>2 DEF NeedsSetCrtc, UploadMode
  <1>6. ModeOK'
    <2>1. r.layers[1].plane \in Planes BY <1>3, <1>4, PlanesIs
    <2>2. 0 \in foreign' <=> 0 \in foreign BY <1>2, <1>4, <2>1
    <2> QED BY <1>2, <1>5, <2>2 DEF RequestsInv, ModeOK
  <1>7. DeviceTypeOK' /\ KernelOK'
    <2>1. foreign' = foreign \ ({} \cup {r.layers[1].plane}) BY <1>2
    <2> QED BY <1>2, <1>3, <1>4, <2>1, LegacyShown
  <1>8. PushOK(dev, <<>>) /\ \A c \in Cursors : ~Carry(<<>>, c) BY PushNone
  <1>9. /\ StacksOK' /\ todo' \in [Threads -> Seq(Tasks)]
        /\ \A c \in Cursors :
              /\ IsFiniteSet(Holders(c))' /\ Cardinality(Holders(c)) \in Nat
              /\ Cardinality(Holders(c))' =
                     Cardinality(Holders(c)) - One(Has(todo[t][1].req, c)) + One(Carry(<<>>, c))
    BY <1>1, <1>2, <1>8, CommitStacks
  <1>10. ASSUME NEW c \in Cursors PROVE Counted(c)'
    <2>1. One(Carry(<<>>, c)) = 0 /\ One(Has(inflight, c)) = 0
                /\ One(Has(inflight', c)) = One(Has(r, c))
          /\ One(Has(todo[t][1].req, c)) = One(Has(r, c)) /\ One(Has(r, c)) \in Nat
      BY <1>2, <1>8 DEF One, Has, r
    <2>2. Number(c)' = Number(c) BY <1>2, <1>9, <2>1, StillCounted DEF Number
    <2> QED BY <1>2, <1>9, <2>2, StillCounted DEF Counted
  <1>11. WindowTypeOK' /\ FlowTypeOK' /\ RequestsSane'
    BY <1>2, <1>3, <1>9 DEF RequestsInv, RequestsTypeOK, WindowTypeOK, FlowTypeOK, RequestsSane,
                            Requests
  <1>12. CountsOK' BY <1>10 DEF CountsOK, Cursors
  <1> QED BY <1>6, <1>7, <1>9, <1>11, <1>12 DEF RequestsInv, RequestsTypeOK

(* A commit by drmModeSetCrtc.                                             *)
LEMMA StepCommitSetCrtc ==
  ASSUME RequestsInv, NEW t \in Threads, CommitSetCrtc(t)
  PROVE RequestsInv'
  <1> DEFINE r == todo[t][1].req
             flipped == (IF screen.some THEN <<Task("release", screen)>> ELSE <<>>)
                        \o <<Call("scanout")>>
             gone == <<Task("release", r)>>
  <1>1. At(t, "commit") /\ Head(todo[t]) = todo[t][1] /\ MayBe(dev, "commit", r)
    BY AtIs DEF CommitSetCrtc
  <1>2. /\ ~dev.atomic /\ ShowBottom(r) /\ RecordLayers(r)
        /\ foreign' = foreign \ {0, r.layers[1].plane} /\ kmode' = "ours" /\ shown' = r
        /\ UNCHANGED <<dev, composition, winlock, builder, queued, inflight, cursor, crefs>>
    BY <1>1 DEF CommitSetCrtc, winVars, cursorVars
  <1>3. \/ RecordMode({NewBlob}) /\ screen' = r /\ Then(t, flipped) /\ lost' = lost
        \/ RecordMode({}) /\ lost' = TRUE /\ Then(t, gone) /\ screen' = screen
    BY <1>1 DEF CommitSetCrtc
  <1>4. r \in RequestT /\ Complete(dev, r) BY <1>1 DEF MayBe
  <1>5. PushOK(dev, flipped) /\ \A c : Carry(flipped, c) <=> Has(screen, c)
    <2>1. screen \in Requests BY DEF RequestsInv, RequestsTypeOK, FlowTypeOK
    <2>2. screen.some => screen \in RequestT BY <2>1 DEF Requests, NoReq
    <2>3. screen.some => Sane(dev, screen) BY DEF RequestsInv, RequestsSane, Complete
    <2>4. screen.some => MayBe(dev, "release", screen) BY <2>2, <2>3 DEF MayBe
    <2>5. "scanout" \in Rest BY DEF Rest
    <2> QED BY <2>1, <2>4, <2>5, PushSomeCall
  <1>6. PushOK(dev, gone) /\ \A c : Carry(gone, c) <=> Has(r, c)
    <2>1. MayBe(dev, "release", r) BY <1>1 DEF MayBe, Complete
    <2> QED BY <2>1, PushTask
  <1> HIDE DEF r, flipped, gone
  <1>7. dev \in Devices /\ 0 \notin Planes
    BY DeviceIs DEF RequestsInv, RequestsTypeOK, DeviceTypeOK
  <1>8. ModeOK' /\ cmode' \in Modes
    <2>1. ASSUME NEW kept, RecordMode(kept),
                 (kept = {NewBlob} /\ lost' = lost) \/ lost' = TRUE
          PROVE ModeOK' /\ cmode' \in Modes
      BY <1>2, <2>1, ModeRecorded
    <2> QED BY <1>3, <2>1
  <1>9. DeviceTypeOK' /\ KernelOK'
    <2>1. foreign' = foreign \ ({0} \cup {r.layers[1].plane}) BY <1>2
    <2>2. kmode' \in Modes BY <1>2 DEF Modes
    <2> QED BY <1>2, <1>4, <1>8, <2>1, <2>2, LegacyShown
  <1>10. ASSUME NEW tasks, PushOK(dev, tasks), Then(t, tasks)
         PROVE /\ StacksOK' /\ todo' \in [Threads -> Seq(Tasks)]
               /\ \A c \in Cursors :
                   /\ IsFiniteSet(Holders(c))' /\ Cardinality(Holders(c)) \in Nat
                   /\ Cardinality(Holders(c))' =
                          Cardinality(Holders(c)) - One(Has(todo[t][1].req, c))
                                + One(Carry(tasks, c))
    BY <1>1, <1>2, <1>10, CommitStacks
  <1>11. StacksOK' /\ todo' \in [Threads -> Seq(Tasks)] BY <1>3, <1>5, <1>6, <1>10
  <1>12. ASSUME NEW c \in Cursors PROVE Counted(c)'
    <2>1. One(Has(todo[t][1].req, c)) = One(Has(r, c)) /\ One(Has(r, c)) \in Nat BY DEF One, r
    <2>2. CASE screen' = r /\ Then(t, flipped)
      <3>1. /\ IsFiniteSet(Holders(c))' /\ Cardinality(Holders(c)) \in Nat
            /\ Cardinality(Holders(c))' =
                  Cardinality(Holders(c)) - One(Has(r, c)) + One(Carry(flipped, c))
        BY <1>5, <1>10, <2>1, <2>2
      <3>2. One(Carry(flipped, c)) = One(Has(screen, c)) /\ One(Has(screen', c)) = One(Has(r, c))
        BY <1>5, <2>2 DEF One
      <3>3. Number(c)' = Number(c) BY <1>2, <2>1, <3>1, <3>2, StillCounted DEF Number
      <3> QED BY <1>2, <3>1, <3>3, StillCounted DEF Counted
    <2>3. CASE screen' = screen /\ Then(t, gone)
      <3>1. /\ IsFiniteSet(Holders(c))' /\ Cardinality(Holders(c)) \in Nat
            /\ Cardinality(Holders(c))' =
                  Cardinality(Holders(c)) - One(Has(r, c)) + One(Carry(gone, c))
        BY <1>6, <1>10, <2>1, <2>3
      <3>2. One(Carry(gone, c)) = One(Has(r, c)) BY <1>6 DEF One
      <3>3. Number(c)' = Number(c) BY <1>2, <2>1, <2>3, <3>1, <3>2, StillCounted DEF Number
      <3> QED BY <1>2, <3>1, <3>3, StillCounted DEF Counted
    <2> QED BY <1>3, <2>2, <2>3
  <1>13. WindowTypeOK' /\ FlowTypeOK' /\ RequestsSane'
    <2>1. screen' = r \/ screen' = screen BY <1>3
    <2>2. WindowTypeOK' BY <1>2 DEF RequestsInv, RequestsTypeOK, WindowTypeOK
    <2>3. FlowTypeOK'
      BY <1>2, <1>4, <1>11, <2>1 DEF RequestsInv, RequestsTypeOK, FlowTypeOK, Requests
    <2>4. RequestsSane' BY <1>2, <1>4, <2>1 DEF RequestsInv, RequestsSane
    <2> QED BY <2>2, <2>3, <2>4
  <1>14. CountsOK' BY <1>12 DEF CountsOK, Cursors
  <1> QED BY <1>8, <1>9, <1>11, <1>13, <1>14 DEF RequestsInv, RequestsTypeOK

(* Nobody but t has a window to unlock, and a part in the request.         *)
Alone(t) ==
    \A u \in Threads \ {t} : ~\E n \in 0 .. Len(todo[u]) - 1 : OpAt(todo[u], n) = "unlock"

(* Nobody else has a window to unlock that t, or nobody, holds.            *)
LEMMA LockedAlone ==
  ASSUME StacksOK, NEW t \in Threads, winlock \subseteq {t}
  PROVE Alone(t)
  <1> SUFFICES ASSUME NEW u \in Threads \ {t}, NEW n \in 0 .. Len(todo[u]) - 1,
                      OpAt(todo[u], n) = "unlock"
               PROVE FALSE
    BY DEF Alone
  <1>1. Locked(todo[u], u, winlock) BY DEF StacksOK, StackOK
  <1>2. winlock = {u} BY <1>1 DEF Locked
  <1> QED BY <1>2

(* The thread that has the window to unlock holds it, alone.               *)
LEMMA HolderAlone ==
  ASSUME StacksOK, NEW t \in Threads, NEW n \in 0 .. Len(todo[t]) - 1, OpAt(todo[t], n) = "unlock"
  PROVE winlock = {t} /\ Alone(t)
  <1>1. Locked(todo[t], t, winlock) BY DEF StacksOK, StackOK
  <1>2. winlock = {t} BY <1>1 DEF Locked
  <1> QED BY <1>2, LockedAlone

(* The thread that holds the window, or takes it, goes on with z.          *)
LEMMA HolderSet ==
  ASSUME StacksOK, FlowTypeOK, NEW t \in Threads, Alone(t), NEW z \in Seq(Tasks),
         todo' = [todo EXCEPT ![t] = z], dev' = dev,
         Ready(z, builder', composition'), Carried(dev, z), Locked(z, t, winlock'), Dropped(z,
         crefs'),
         \A c \in Cursors : \A u \in Threads \ {t} :
             (crefs[c] = 0 /\ \E i \in DOMAIN todo[u] : todo[u][i].cursor = c) => crefs'[c] = 0,
         builder'.some => Submits(z)
  PROVE StacksOK' /\ todo' \in [Threads -> Seq(Tasks)]
  <1>1. /\ todo \in [Threads -> Seq(Tasks)] /\ todo' \in [Threads -> Seq(Tasks)]
        /\ todo'[t] = z /\ \A u \in Threads : u # t => todo'[u] = todo[u]
    BY DEF FlowTypeOK
  <1>2. ASSUME NEW u \in Threads, u # t PROVE StackOK(u, todo[u])'
    <2>1. /\ Ready(todo[u], builder, composition) /\ Carried(dev, todo[u])
          /\ Locked(todo[u], u, winlock) /\ Dropped(todo[u], crefs)
      BY DEF StacksOK, StackOK
    <2>2. ~\E n \in 0 .. Len(todo[u]) - 1 : OpAt(todo[u], n) = "unlock" BY <1>2 DEF Alone
    <2>3. Ready(todo[u], builder', composition')
      <3>1. Len(todo[u]) \in Nat BY <1>1, LenProperties
      <3> QED BY <2>1, <2>2, <3>1, NoPart
    <2>4. Locked(todo[u], u, winlock') BY <2>2 DEF Locked
    <2>5. Dropped(todo[u], crefs') BY <1>2, <2>1 DEF Dropped
    <2> QED BY <1>1, <1>2, <2>1, <2>3, <2>4, <2>5 DEF StackOK
  <1>3. StackOK(t, todo[t])' BY <1>1 DEF StackOK
  <1>4. builder'.some => \E u \in Threads : Submits(todo'[u]) BY <1>1
  <1> QED BY <1>1, <1>2, <1>3, <1>4 DEF StacksOK, Submits, OpAt

(* The request being built belongs to the holder of the window.            *)
LEMMA BuilderHeld ==
  ASSUME StacksOK, FlowTypeOK, builder.some
  PROVE \E t \in Threads : winlock = {t} /\ Submits(todo[t])
  <1>1. PICK t \in Threads : Submits(todo[t]) BY DEF StacksOK
  <1>2. Ready(todo[t], builder, composition) /\ Locked(todo[t], t, winlock) BY DEF StacksOK, StackOK
  <1>3. Len(todo[t]) \in Nat BY LenProperties DEF FlowTypeOK
  <1>4. 1 \in 0 .. Len(todo[t]) - 1 /\ 0 \in 0 .. Len(todo[t]) - 1 BY <1>1, <1>3 DEF Submits
  <1>5. OpAt(todo[t], 0) = "unlock" BY <1>1, <1>2, <1>4 DEF Submits, Ready
  <1> QED BY <1>1, <1>2, <1>4, <1>5 DEF Locked

(* The task at hand, counted from the last.                                *)
LEMMA TopIs ==
  ASSUME NEW s \in Seq(Tasks), s # <<>>
  PROVE LET z == Tail(s)
        IN  /\ Len(s) \in Nat \ {0} /\ Len(s) - 1 \in 0 .. Len(s) - 1
                  /\ OpAt(s, Len(s) - 1) = s[1].op
            /\ z \in Seq(Tasks) /\ Len(z) = Len(s) - 1 /\ DOMAIN z = 1 .. Len(z)
            /\ \A n \in 0 .. Len(s) - 2 : OpAt(z, n) = OpAt(s, n)
            /\ \A i \in DOMAIN z : z[i] = s[i + 1] /\ i + 1 \in DOMAIN s /\ i + 1 # 1
  <1> DEFINE z == Tail(s)
             m == Len(s)
  <1>1. /\ z \in Seq(Tasks) /\ Len(z) = m - 1 /\ \A i \in 1 .. Len(z) : z[i] = s[i + 1]
        /\ m \in Nat \ {0}
    BY HeadTailProperties, EmptySeq
  <1>2. DOMAIN z = 1 .. Len(z) /\ DOMAIN s = 1 .. m BY <1>1, LenProperties
  <1>3. m - (m - 1) = 1 /\ m - 1 \in 0 .. m - 1 BY <1>1
  <1> HIDE DEF z, m
  <1>4. ASSUME NEW n \in 0 .. m - 2 PROVE z[Len(z) - n] = s[m - n]
    <2>1. Len(z) - n \in 1 .. Len(z) /\ (Len(z) - n) + 1 = m - n BY <1>1
    <2> QED BY <1>1, <2>1
  <1>5. \A i \in 1 .. Len(z) : i + 1 \in 1 .. m /\ i + 1 # 1 BY <1>1
  <1> QED BY <1>1, <1>2, <1>3, <1>4, <1>5 DEF OpAt, z, m

(* The tasks behind the one at hand carry no request.                      *)
LEMMA TailCarried ==
  ASSUME NEW s \in Seq(Tasks), s # <<>>, NEW d, Carried(d, s), NEW refs, Dropped(s, refs)
  PROVE Carried(d, Tail(s)) /\ Dropped(Tail(s), refs) /\ \A c : ~Holds(Tail(s), c)
  <1> DEFINE z == Tail(s)
  <1>1. \A i \in DOMAIN z : z[i] = s[i + 1] /\ i + 1 \in DOMAIN s /\ i + 1 # 1 BY TopIs
  <1>2. \A i \in DOMAIN z : z[i].req = NoReq BY <1>1 DEF Carried
  <1>3. \A i \in DOMAIN z : z[i].op \notin {"commit", "release"} BY <1>1, <1>2 DEF Carried, NoReq
  <1>4. Carried(d, z) BY <1>2, <1>3 DEF Carried
  <1>5. Dropped(z, refs) BY <1>1 DEF Dropped
  <1>6. ASSUME NEW c, Holds(z, c) PROVE FALSE
    <2>1. z # <<>> /\ z \in Seq(Tasks) BY <1>6, TopIs DEF Holds
    <2> HIDE DEF z
    <2>2. 1 \in DOMAIN z
      <3>1. Len(z) \in Nat \ {0} /\ DOMAIN z = 1 .. Len(z) BY <2>1, EmptySeq, LenProperties
      <3> QED BY <3>1
    <2> QED BY <1>2, <1>6, <2>2 DEF Holds, Has, NoReq
  <1> QED BY <1>4, <1>5, <1>6

(* The window is unlocked.                                                 *)
LEMMA StepUnlock ==
  ASSUME RequestsInv, NEW t \in Threads, UnlockWindow(t)
  PROVE RequestsInv'
  <1> DEFINE s == todo[t]
  <1>1. /\ At(t, "unlock") /\ Then(t, <<>>) /\ winlock' = {}
        /\ UNCHANGED <<dev, kernel, kmode, foreign, committed, cmode, cblob, blobs>>
        /\ UNCHANGED <<composition, builder, queued, inflight, screen, shown, lost>>
        /\ UNCHANGED <<cursor, crefs>>
    BY DEF UnlockWindow, kernelVars, stateVars, flowVars, cursorVars
  <1>2. StacksOK /\ FlowTypeOK BY DEF RequestsInv, RequestsTypeOK
  <1>3. /\ s \in Seq(Tasks) /\ s # <<>> /\ s[1].op = "unlock" /\ s[1].req = NoReq
    BY <1>1, AtIs
  <1>4. Len(s) \in Nat \ {0} /\ Len(s) - 1 \in 0 .. Len(s) - 1 /\ OpAt(s, Len(s) - 1) = "unlock"
    BY <1>3, TopIs
  <1>5. Ready(s, builder, composition) BY <1>2 DEF StacksOK, StackOK
  <1>6. Len(s) = 1
    <2>1. Len(s) - 1 = 0 BY <1>4, <1>5 DEF Ready
    <2> QED BY <1>4, <2>1
  <1>7. winlock = {t} /\ Alone(t) BY <1>2, <1>4, HolderAlone
  <1>8. ~builder.some
    <2> SUFFICES ASSUME builder.some PROVE FALSE OBVIOUS
    <2>1. PICK u \in Threads : winlock = {u} /\ Submits(todo[u]) BY <1>2, BuilderHeld
    <2>2. u = t BY <1>7, <2>1
    <2>3. Submits(s) BY <2>1, <2>2
    <2> HIDE DEF s
    <2> QED BY <1>6, <2>3 DEF Submits
  <1>9. todo' = [todo EXCEPT ![t] = <<>>]
    <2>1. Tail(s) \in Seq(Tasks) /\ Len(Tail(s)) = 0 BY <1>3, <1>6, TopIs
    <2>2. Tail(s) = <<>> BY <2>1, EmptySeq
    <2>3. <<>> \o Tail(s) = <<>> BY <2>2
    <2> QED BY <1>1, <2>3 DEF Then
  <1> HIDE DEF s
  <1>10. StacksOK' /\ todo' \in [Threads -> Seq(Tasks)]
    <2>1. <<>> \in Seq(Tasks) /\ Len(<<>>) = 0 OBVIOUS
    <2>2. 0 .. 0 - 1 = {} OBVIOUS
    <2>3. Ready(<<>>, builder', composition') BY <2>1, <2>2 DEF Ready
    <2>4. Locked(<<>>, t, winlock') BY <2>1, <2>2 DEF Locked
    <2>5. Carried(dev, <<>>) /\ Dropped(<<>>, crefs') BY DEF Carried, Dropped
    <2>6. ~builder'.some BY <1>1, <1>8
    <2> QED BY <1>1, <1>2, <1>7, <1>9, <2>1, <2>3, <2>4, <2>5, <2>6, HolderSet
  <1>11. ASSUME NEW c \in Cursors PROVE Counted(c)'
    <2>1. /\ IsFiniteSet(Holders(c))' /\ Cardinality(Holders(c)) \in Nat
          /\ Cardinality(Holders(c))' =
                 Cardinality(Holders(c)) - One(Holds(todo[t], c)) + One(Holds(<<>>, c))
      <3>1. IsFiniteSet(Holders(c)) BY StillCounted
      <3> QED BY <1>2, <1>9, <3>1, HoldersChange
    <2>2. One(Holds(todo[t], c)) = 0 /\ One(Holds(<<>>, c)) = 0
      BY <1>3 DEF One, Holds, Has, NoReq, s
    <2>3. Number(c)' = Number(c) BY <1>1, <2>1, <2>2, StillCounted DEF Number
    <2> QED BY <1>1, <2>1, <2>3, StillCounted DEF Counted
  <1>12. DeviceTypeOK' /\ KernelOK' BY <1>1, StillShown
  <1>13. WindowTypeOK' /\ FlowTypeOK' /\ RequestsSane' /\ ModeOK'
    BY <1>1, <1>10 DEF RequestsInv, RequestsTypeOK, WindowTypeOK, FlowTypeOK, RequestsSane, ModeOK
  <1>14. CountsOK' BY <1>11 DEF CountsOK, Cursors
  <1> QED BY <1>10, <1>12, <1>13, <1>14 DEF RequestsInv, RequestsTypeOK

(* The stack of the thread that submits a request.                         *)
LEMMA AtSubmit ==
  ASSUME RequestsInv, NEW t \in Threads, At(t, "submit")
  PROVE LET s == todo[t]
        IN  /\ s \in Seq(Tasks) /\ s # <<>> /\ s[1].req = NoReq /\ Len(s) = 2
            /\ OpAt(s, 0) = "unlock" /\ winlock = {t} /\ Alone(t)
            /\ Carried(dev, s) /\ Dropped(s, crefs)
            /\ builder.some /\ builder \in RequestT /\ Complete(dev, builder)
  <1> DEFINE s == todo[t]
  <1>1. s \in Seq(Tasks) /\ s # <<>> /\ s[1].op = "submit" /\ s[1].req = NoReq BY AtIs
  <1>2. Len(s) \in Nat \ {0} /\ Len(s) - 1 \in 0 .. Len(s) - 1 /\ OpAt(s, Len(s) - 1) = "submit"
    BY <1>1, TopIs
  <1>3. StacksOK /\ StackOK(t, s) BY DEF RequestsInv, StacksOK
  <1>4. Ready(s, builder, composition) /\ Carried(dev, s) /\ Dropped(s, crefs) BY <1>3 DEF StackOK
  <1> HIDE DEF s
  <1>5. /\ Len(s) - 1 = 1 /\ OpAt(s, 0) = "unlock" /\ builder.some
        /\ (builder.layers = <<>> => Len(s) > 2)
    BY <1>2, <1>4 DEF Ready
  <1>6. Len(s) = 2 /\ 0 \in 0 .. Len(s) - 1 BY <1>2, <1>5
  <1>7. winlock = {t} /\ Alone(t) BY <1>3, <1>5, <1>6, HolderAlone DEF s
  <1>8. builder \in RequestT
    BY <1>5 DEF RequestsInv, RequestsTypeOK, FlowTypeOK, Requests, NoReq
  <1>9. builder.layers # <<>> BY <1>5, <1>6
  <1>10. Complete(dev, builder) BY <1>5, <1>9 DEF RequestsInv, RequestsSane, Complete
  <1> QED BY <1>1, <1>4, <1>5, <1>6, <1>7, <1>8, <1>10 DEF s

(* A request is handed over, to the mailbox or to the display.             *)
LEMMA StepSubmit ==
  ASSUME RequestsInv, NEW t \in Threads, SubmitFrame(t)
  PROVE RequestsInv'
  <1> DEFINE s == todo[t]
             old == IF queued.some THEN <<Task("release", queued)>> ELSE <<>>
             commit == <<Task("commit", builder)>>
             gone == <<Task("release", builder)>>
  <1>1. /\ At(t, "submit") /\ builder' = NoReq
        /\ UNCHANGED <<dev, kernel, kmode, foreign, committed, cmode, cblob, blobs>>
        /\ UNCHANGED <<composition, winlock, inflight, screen, shown, lost>>
        /\ UNCHANGED <<cursor, crefs>>
    BY DEF SubmitFrame, kernelVars, stateVars, cursorVars
  <1>2. \/ queued' = builder /\ Then(t, old)
        \/ queued' = queued /\ Then(t, commit)
        \/ queued' = queued /\ Then(t, gone)
    BY DEF SubmitFrame
  <1>3. /\ s \in Seq(Tasks) /\ s # <<>> /\ s[1].req = NoReq /\ Len(s) = 2
        /\ OpAt(s, 0) = "unlock" /\ winlock = {t} /\ Alone(t)
        /\ Carried(dev, s) /\ Dropped(s, crefs)
        /\ builder.some /\ builder \in RequestT /\ Complete(dev, builder)
    BY <1>1, AtSubmit
  <1>4. PushOK(dev, old) /\ \A c : Carry(old, c) <=> Has(queued, c)
    <2>1. queued \in Requests BY DEF RequestsInv, RequestsTypeOK, FlowTypeOK
    <2>2. queued.some => queued \in RequestT BY <2>1 DEF Requests, NoReq
    <2>3. queued.some => Sane(dev, queued) BY DEF RequestsInv, RequestsSane, Complete
    <2>4. queued.some => MayBe(dev, "release", queued) BY <2>2, <2>3 DEF MayBe
    <2> QED BY <2>1, <2>4, PushSome
  <1>5. PushOK(dev, commit) /\ \A c : Carry(commit, c) <=> Has(builder, c)
    <2>1. MayBe(dev, "commit", builder) BY <1>3 DEF MayBe
    <2> QED BY <2>1, PushTask
  <1>6. PushOK(dev, gone) /\ \A c : Carry(gone, c) <=> Has(builder, c)
    <2>1. MayBe(dev, "release", builder) BY <1>3 DEF MayBe, Complete
    <2> QED BY <2>1, PushTask
  <1> HIDE DEF old, commit, gone
  <1>7. StacksOK /\ FlowTypeOK BY DEF RequestsInv, RequestsTypeOK
  <1>8. ASSUME NEW tasks, PushOK(dev, tasks), Then(t, tasks)
        PROVE /\ StacksOK' /\ todo' \in [Threads -> Seq(Tasks)]
              /\ \A c \in Cursors :
                  /\ IsFiniteSet(Holders(c))' /\ Cardinality(Holders(c)) \in Nat
                  /\ Cardinality(Holders(c))' = Cardinality(Holders(c)) + One(Carry(tasks, c))
    <2> DEFINE z == tasks \o Tail(s)
    <2>1. tasks \in Seq(Tasks) /\ Carried(dev, tasks)
          /\ \A i \in DOMAIN tasks : tasks[i].op \in Plain \ {"rmfb"} /\ tasks[i].cursor = 0
      BY <1>8 DEF PushOK
    <2>2. z \in Seq(Tasks) /\ Len(z) = Len(tasks) + 1 /\ Len(tasks) \in Nat
      <3>1. z \in Seq(Tasks) /\ Len(z) = Len(tasks) + Len(s) - 1 /\ Len(tasks) \in Nat
        BY <1>3, <2>1, ReplacedIs
      <3> HIDE DEF z
      <3> QED BY <1>3, <3>1
    <2>3. OpAt(z, 0) = "unlock" /\ \A n \in 1 .. Len(z) - 1 : OpAt(z, n) \in Plain
      <3>1. /\ \A n \in 0 .. Len(s) - 2 : OpAt(z, n) = OpAt(s, n)
            /\ \A n \in Len(s) - 1 .. Len(z) - 1 : \E i \in DOMAIN tasks : OpAt(z, n) = tasks[i].op
        BY <1>3, <2>1, ReplacedAt
      <3>2. 0 \in 0 .. Len(s) - 2 /\ Len(s) - 1 = 1 BY <1>3
      <3> QED BY <1>3, <2>1, <3>1, <3>2
    <2>4. Carried(dev, z) BY <1>3, <2>1, CarriedReplaced
    <2>5. Dropped(z, crefs)
      <3>1. Dropped(tasks, crefs) BY <2>1 DEF Dropped
      <3> QED BY <1>3, <2>1, <3>1, DroppedReplaced
    <2>6. todo' = [todo EXCEPT ![t] = z] BY <1>8 DEF Then
    <2>7. \A c : Holds(z, c) <=> Carry(tasks, c) BY <1>3, <2>1, HoldsReplaced DEF Carry
    <2> HIDE DEF z, s
    <2>8. \A n \in 0 .. Len(z) - 1 : n = 0 \/ n \in 1 .. Len(z) - 1 BY <2>2
    <2>9. Ready(z, builder', composition')
      <3>1. \A n \in 0 .. Len(z) - 1 :
               /\ OpAt(z, n) = "unlock" => n = 0
               /\ OpAt(z, n) \notin {"submit", "cursor", "layer"}
        BY <2>3, <2>8 DEF Plain
      <3> QED BY <3>1 DEF Ready
    <2>10. Locked(z, t, winlock') BY <1>1, <1>3 DEF Locked
    <2>11. ~builder'.some BY <1>1 DEF NoReq
    <2>12. StacksOK' /\ todo' \in [Threads -> Seq(Tasks)]
      BY <1>1, <1>3, <1>7, <2>2, <2>4, <2>5, <2>6, <2>9, <2>10, <2>11, HolderSet
    <2>13. ASSUME NEW c \in Cursors
           PROVE /\ IsFiniteSet(Holders(c))' /\ Cardinality(Holders(c)) \in Nat
                 /\ Cardinality(Holders(c))' = Cardinality(Holders(c)) + One(Carry(tasks, c))
      <3>1. IsFiniteSet(Holders(c)) BY StillCounted
      <3>2. /\ IsFiniteSet(Holders(c))' /\ Cardinality(Holders(c)) \in Nat
            /\ Cardinality(Holders(c))' =
                   Cardinality(Holders(c)) - One(Holds(todo[t], c)) + One(Holds(z, c))
        BY <1>7, <2>6, <3>1, HoldersChange
      <3>3. One(Holds(todo[t], c)) = 0 /\ One(Holds(z, c)) = One(Carry(tasks, c))
        BY <1>3, <2>7 DEF One, Holds, Has, NoReq, s
      <3>4. One(Carry(tasks, c)) \in Nat BY DEF One
      <3> QED BY <3>2, <3>3, <3>4
    <2> QED BY <2>12, <2>13
  <1>9. StacksOK' /\ todo' \in [Threads -> Seq(Tasks)] BY <1>2, <1>4, <1>5, <1>6, <1>8
  <1>10. ASSUME NEW c \in Cursors PROVE Counted(c)'
    <2>1. One(Has(builder', c)) = 0 /\ One(Has(builder, c)) \in Nat BY <1>1 DEF One, Has, NoReq
    <2>2. CASE queued' = builder /\ Then(t, old)
      <3>1. /\ IsFiniteSet(Holders(c))' /\ Cardinality(Holders(c)) \in Nat
            /\ Cardinality(Holders(c))' = Cardinality(Holders(c)) + One(Carry(old, c))
        BY <1>4, <1>8, <2>2
      <3>2. One(Carry(old, c)) = One(Has(queued, c)) /\ One(Has(queued', c)) = One(Has(builder, c))
        BY <1>4, <2>2 DEF One
      <3>3. Number(c)' = Number(c) BY <1>1, <2>1, <3>1, <3>2, StillCounted DEF Number
      <3> QED BY <1>1, <3>1, <3>3, StillCounted DEF Counted
    <2>3. ASSUME NEW tasks, PushOK(dev, tasks), Then(t, tasks), Carry(tasks, c) <=> Has(builder, c),
                 queued' = queued
          PROVE Counted(c)'
      <3>1. /\ IsFiniteSet(Holders(c))' /\ Cardinality(Holders(c)) \in Nat
            /\ Cardinality(Holders(c))' = Cardinality(Holders(c)) + One(Carry(tasks, c))
        BY <1>8, <2>3
      <3>2. One(Carry(tasks, c)) = One(Has(builder, c)) BY <2>3 DEF One
      <3>3. Number(c)' = Number(c) BY <1>1, <2>1, <2>3, <3>1, <3>2, StillCounted DEF Number
      <3> QED BY <1>1, <3>1, <3>3, StillCounted DEF Counted
    <2> QED BY <1>2, <1>5, <1>6, <2>2, <2>3
  <1>11. DeviceTypeOK' /\ KernelOK' BY <1>1, StillShown
  <1>12. WindowTypeOK' /\ FlowTypeOK' /\ RequestsSane' /\ ModeOK'
    <2>1. queued' = queued \/ queued' = builder BY <1>2
    <2>2. WindowTypeOK' /\ ModeOK' BY <1>1 DEF RequestsInv, RequestsTypeOK, WindowTypeOK, ModeOK
    <2>3. FlowTypeOK' BY <1>1, <1>9, <2>1 DEF RequestsInv, RequestsTypeOK, FlowTypeOK, Requests
    <2>4. RequestsSane' BY <1>1, <1>3, <2>1 DEF RequestsInv, RequestsSane, NoReq
    <2> QED BY <2>2, <2>3, <2>4
  <1>13. CountsOK' BY <1>10 DEF CountsOK, Cursors
  <1> QED BY <1>9, <1>11, <1>12, <1>13 DEF RequestsInv, RequestsTypeOK

(* The stack of a thread that fills a request: the number of tasks after   *)
(* this one, and what they are.                                            *)
Filling(t, n) ==
    LET s == todo[t]
    IN  /\ s \in Seq(Tasks) /\ s # <<>> /\ s[1].req = NoReq /\ Len(s) = n + 1
        /\ OpAt(s, 0) = "unlock" /\ OpAt(s, 1) = "submit" /\ winlock = {t} /\ Alone(t)
        /\ Carried(dev, s) /\ Dropped(s, crefs) /\ Ready(s, builder, composition)
        /\ builder.some /\ builder \in RequestT /\ Sane(dev, builder) /\ CursorsOf(builder) = {}
        /\ \A i \in DOMAIN builder.layers : builder.layers[i].cursor = 0

(* Where a thread is that puts the cursor or a layer into the request.     *)
LEMMA FillingIs ==
  ASSUME RequestsInv, NEW t \in Threads, At(t, "cursor") \/ At(t, "layer")
  PROVE /\ At(t, "cursor") => Filling(t, 2) /\ builder.layers # <<>>
        /\ At(t, "layer") => \E n \in Nat :
              /\ n > 2 /\ Filling(t, n) /\ n + Len(builder.layers) <= Len(composition) + 2
              /\ OpAt(todo[t], 2) = "cursor"
  <1> DEFINE s == todo[t]
  <1>1. s \in Seq(Tasks) /\ s # <<>> /\ s[1].req = NoReq
        /\ (At(t, "cursor") => s[1].op = "cursor") /\ (At(t, "layer") => s[1].op = "layer")
    BY AtIs
  <1> DEFINE n == Len(s) - 1
  <1>2. Len(s) \in Nat \ {0} /\ n \in 0 .. Len(s) - 1 /\ OpAt(s, n) = s[1].op BY <1>1, TopIs
  <1>3. StacksOK /\ StackOK(t, s) BY DEF RequestsInv, StacksOK
  <1>4. Ready(s, builder, composition) /\ Carried(dev, s) /\ Dropped(s, crefs) BY <1>3 DEF StackOK
  <1>5. builder \in Requests /\ (builder.some => Sane(dev, builder))
    BY DEF RequestsInv, RequestsTypeOK, FlowTypeOK, RequestsSane
  <1>6. Len(s) = n + 1 /\ n \in Nat BY <1>2
  <1> HIDE DEF s, n
  <1>7. ASSUME OpAt(s, 2) = "cursor", 2 \in 0 .. Len(s) - 1 PROVE Filling(t, n)
    <2>1. OpAt(s, 1) = "submit" /\ CursorsOf(builder) = {} BY <1>4, <1>7 DEF Ready
    <2>2. 1 \in 0 .. Len(s) - 1 /\ 0 \in 0 .. Len(s) - 1 BY <1>2, <1>7
    <2>3. OpAt(s, 0) = "unlock" /\ builder.some BY <1>4, <2>1, <2>2 DEF Ready
    <2>4. winlock = {t} /\ Alone(t) BY <1>3, <2>2, <2>3, HolderAlone DEF s
    <2>5. builder \in RequestT BY <1>5, <2>3 DEF Requests, NoReq
    <2>6. \A i \in DOMAIN builder.layers : builder.layers[i].cursor = 0 BY <2>1 DEF CursorsOf
    <2> QED BY <1>1, <1>4, <1>5, <1>6, <2>1, <2>3, <2>4, <2>5, <2>6 DEF Filling, s
  <1>8. ASSUME At(t, "cursor") PROVE Filling(t, 2) /\ builder.layers # <<>>
    <2>1. n = 2 /\ OpAt(s, 2) = "cursor" /\ (builder.layers = <<>> => Len(s) > 3)
      BY <1>1, <1>2, <1>4, <1>8 DEF Ready
    <2>2. 2 \in 0 .. Len(s) - 1 /\ ~(Len(s) > 3) BY <1>2, <1>6, <2>1
    <2> QED BY <1>7, <2>1, <2>2
  <1>9. ASSUME At(t, "layer")
        PROVE /\ n > 2 /\ Filling(t, n) /\ n + Len(builder.layers) <= Len(composition) + 2
              /\ OpAt(s, 2) = "cursor"
    <2>1. n > 2 /\ OpAt(s, 2) = "cursor" /\ n + Len(builder.layers) <= Len(composition) + 2
      BY <1>1, <1>2, <1>4, <1>9 DEF Ready
    <2>2. 2 \in 0 .. Len(s) - 1 BY <1>2, <1>6, <2>1
    <2> QED BY <1>7, <2>1, <2>2
  <1> QED BY <1>6, <1>8, <1>9 DEF s

(* A task of filling is done, or the cursor is found to have no plane.     *)
LEMMA Filled ==
  ASSUME RequestsInv, NEW t \in Threads, NEW n \in Nat, n >= 2, Filling(t, n), Then(t, <<>>),
         dev' = dev, composition' = composition, winlock' = winlock,
         builder' \in RequestT, builder'.some, builder'.layers # <<>>,
         n > 2 => CursorsOf(builder') = {} /\ OpAt(todo[t], 2) = "cursor"
                  /\ \A m \in 0 .. n - 1 :
                        OpAt(todo[t], m) = "layer" =>
                            m + Len(builder'.layers) <= Len(composition) + 2,
         \A c \in Cursors : crefs[c] = 0 => crefs'[c] = 0
  PROVE /\ StacksOK' /\ todo' \in [Threads -> Seq(Tasks)]
        /\ \A c \in Cursors :
              IsFiniteSet(Holders(c))' /\ Cardinality(Holders(c))' = Cardinality(Holders(c))
  <1> DEFINE s == todo[t]
             z == Tail(s)
  <1>1. /\ s \in Seq(Tasks) /\ s # <<>> /\ s[1].req = NoReq /\ Len(s) = n + 1
        /\ OpAt(s, 0) = "unlock" /\ OpAt(s, 1) = "submit" /\ winlock = {t} /\ Alone(t)
        /\ Carried(dev, s) /\ Dropped(s, crefs) /\ Ready(s, builder, composition)
    BY DEF Filling
  <1>2. z \in Seq(Tasks) /\ Len(z) = n /\ \A m \in 0 .. n - 1 : OpAt(z, m) = OpAt(s, m)
    <2>1. z \in Seq(Tasks) /\ Len(z) = Len(s) - 1
                /\ \A m \in 0 .. Len(s) - 2 : OpAt(z, m) = OpAt(s, m)
      BY <1>1, TopIs
    <2>2. Len(s) - 1 = n /\ Len(s) - 2 = n - 1 BY <1>1
    <2> HIDE DEF z, s
    <2> QED BY <2>1, <2>2
  <1>3. Carried(dev, z) /\ Dropped(z, crefs') /\ \A c : ~Holds(z, c)
    <2>1. Dropped(s, crefs') BY <1>1 DEF Dropped
    <2> QED BY <1>1, <2>1, TailCarried
  <1>4. todo' = [todo EXCEPT ![t] = z]
    <2>1. <<>> \o z = z BY <1>2, ConcatEmptySeq
    <2> QED BY <2>1 DEF Then
  <1>5. StacksOK /\ FlowTypeOK BY DEF RequestsInv, RequestsTypeOK
  <1>6. OpAt(z, 0) = "unlock" /\ OpAt(z, 1) = "submit" /\ (n > 2 => OpAt(z, 2) = "cursor")
    <2>1. 0 \in 0 .. n - 1 /\ 1 \in 0 .. n - 1 /\ (n > 2 => 2 \in 0 .. n - 1) OBVIOUS
    <2> QED BY <1>1, <1>2, <2>1
  <1> HIDE DEF z
  <1>7. Ready(z, builder', composition')
    <2> SUFFICES ASSUME NEW m \in 0 .. n - 1
        PROVE /\ OpAt(z, m) = "unlock" => m = 0
              /\ OpAt(z, m) = "submit" => m = 1
              /\ OpAt(z, m) = "cursor" => m = 2 /\ CursorsOf(builder') = {}
              /\ OpAt(z, m) = "layer" =>
                    m > 2 /\ OpAt(z, 2) = "cursor"
                          /\ m + Len(builder'.layers) <= Len(composition) + 2
      BY <1>2, <1>6 DEF Ready
    <2>1. m \in 0 .. Len(s) - 1
      <3>1. Len(s) = n + 1 BY <1>1
      <3> HIDE DEF s
      <3> QED BY <3>1
    <2>2. OpAt(z, m) = OpAt(s, m) BY <1>2
    <2>3. /\ OpAt(s, m) = "unlock" => m = 0
          /\ OpAt(s, m) = "submit" => m = 1
          /\ OpAt(s, m) = "cursor" => m = 2
          /\ OpAt(s, m) = "layer" => m > 2
      BY <1>1, <2>1 DEF Ready
    <2>4. m = 2 => n > 2 OBVIOUS
    <2>5. m > 2 => n > 2 OBVIOUS
    <2> QED BY <1>6, <2>2, <2>3, <2>4, <2>5
  <1>8. Locked(z, t, winlock') BY <1>1 DEF Locked
  <1>9. Submits(z) BY <1>2, <1>6 DEF Submits
  <1>10. StacksOK' /\ todo' \in [Threads -> Seq(Tasks)]
    BY <1>1, <1>2, <1>3, <1>4, <1>5, <1>7, <1>8, <1>9, HolderSet
  <1>11. ASSUME NEW c \in Cursors
         PROVE IsFiniteSet(Holders(c))' /\ Cardinality(Holders(c))' = Cardinality(Holders(c))
    <2>1. IsFiniteSet(Holders(c)) BY StillCounted
    <2>2. /\ IsFiniteSet(Holders(c))' /\ Cardinality(Holders(c)) \in Nat
          /\ Cardinality(Holders(c))' =
                 Cardinality(Holders(c)) - One(Holds(todo[t], c)) + One(Holds(z, c))
      BY <1>4, <1>5, <2>1, HoldersChange
    <2>3. One(Holds(todo[t], c)) = 0 /\ One(Holds(z, c)) = 0
      BY <1>1, <1>3 DEF One, Holds, Has, NoReq
    <2> QED BY <2>2, <2>3
  <1> QED BY <1>10, <1>11

(* What a push makes of the request.                                       *)
LEMMA Pushes ==
  ASSUME RequestsInv, NEW t \in Threads, NEW n \in Nat, Filling(t, n), NEW l, Layer(l),
         l.cursor # 0 => builder.layers # <<>>, NEW o \in PushFbLayer(builder, l)
  PROVE /\ ~o.ok => o.b = builder
        /\ o.ok => /\ o.b \in RequestT /\ Complete(dev, o.b) /\ CursorsOf(o.b) = {l.cursor} \ {0}
                   /\ Len(o.b.layers) = Len(builder.layers) + 1
  <1>1. /\ builder \in RequestT /\ Sane(dev, builder) /\ dev \in Devices
        /\ \A i \in DOMAIN builder.layers : builder.layers[i].cursor = 0
    BY DEF Filling, RequestsInv, RequestsTypeOK, DeviceTypeOK
  <1> DEFINE p == ChoosePlane(builder, l)
  <1>2. IF o.ok THEN p \in Fits(builder, l) /\ o.b = PushedLayer(builder, l, p) ELSE o.b = builder
    BY <1>1, OutcomeIs DEF Sane
  <1> HIDE DEF p
  <1>3. ASSUME o.ok
        PROVE /\ o.b \in RequestT /\ Complete(dev, o.b) /\ CursorsOf(o.b) = {l.cursor} \ {0}
              /\ Len(o.b.layers) = Len(builder.layers) + 1
    <2>1. Pushing(builder, l, p) BY <1>1, <1>2, <1>3 DEF Pushing
    <2>2. o.b = PushedLayer(builder, l, p) BY <1>2, <1>3
    <2> QED BY <2>1, <2>2, PushedSane, PushingIs
  <1> QED BY <1>2, <1>3

(* The cursor is put on top.                                               *)
LEMMA StepPresentCursor ==
  ASSUME RequestsInv, NEW t \in Threads, PresentCursor(t)
  PROVE RequestsInv'
  <1>1. /\ At(t, "cursor") /\ Then(t, <<>>)
        /\ UNCHANGED <<dev, kernel, kmode, foreign, committed, cmode, cblob, blobs>>
        /\ UNCHANGED <<composition, winlock, queued, inflight, screen, shown, lost>>
        /\ cursor' = cursor
    BY DEF PresentCursor, kernelVars, stateVars, flowVars
  <1>2. Filling(t, 2) /\ builder.layers # <<>> BY <1>1, FillingIs
  <1>3. builder.some /\ builder \in RequestT /\ Sane(dev, builder) /\ CursorsOf(builder) = {}
    BY <1>2 DEF Filling
  <1>4. crefs \in [Cursors -> Nat] /\ cursor \in 0 .. MaxCursors
    BY DEF RequestsInv, RequestsTypeOK, WindowTypeOK
  <1>5. \/ builder' = builder /\ crefs' = crefs
        \/ /\ cursor \in Cursors /\ crefs' = [crefs EXCEPT ![cursor] = @ + 1]
           /\ builder' \in RequestT /\ Complete(dev, builder') /\ CursorsOf(builder') = {cursor}
    <2>1. CASE cursor = 0 BY <2>1 DEF PresentCursor
    <2>2. CASE cursor # 0
      <3> DEFINE l == CursorLayer(cursor)
      <3>1. PICK o \in PushFbLayer(builder, l) :
               builder' = o.b /\ IF o.ok THEN RefCursor(cursor) ELSE UNCHANGED crefs
        BY <2>2 DEF PresentCursor
      <3>2. cursor \in Cursors BY <1>4, <2>2, BoundAssumption DEF Cursors
      <3>3. l.cursor = cursor /\ Layer(l)
        BY <1>4, <2>2 DEF CursorLayer, Layer, CursorFb, Formats
      <3> HIDE DEF l
      <3>4. /\ ~o.ok => o.b = builder
            /\ o.ok => o.b \in RequestT /\ Complete(dev, o.b) /\ CursorsOf(o.b) = {cursor} \ {0}
        BY <1>2, <3>3, Pushes
      <3>5. CASE o.ok BY <2>2, <3>1, <3>2, <3>4, <3>5 DEF RefCursor
      <3>6. CASE ~o.ok BY <3>1, <3>4, <3>6
      <3> QED BY <3>5, <3>6
    <2> QED BY <2>1, <2>2
  <1>6. \A c \in Cursors : crefs[c] = 0 => crefs'[c] = 0 BY <1>4, <1>5, NoReference
  <1>7. builder' \in RequestT /\ builder'.some /\ Sane(dev, builder') /\ builder'.layers # <<>>
    BY <1>2, <1>3, <1>5 DEF Complete, RequestT
  <1>8. /\ StacksOK' /\ todo' \in [Threads -> Seq(Tasks)]
        /\ \A c \in Cursors :
              IsFiniteSet(Holders(c))' /\ Cardinality(Holders(c))' = Cardinality(Holders(c))
    BY <1>1, <1>2, <1>6, <1>7, Filled
  <1>9. ASSUME NEW c \in Cursors PROVE Counted(c)' /\ crefs'[c] \in Nat
    <2>1. One(Has(builder, c)) = 0 BY <1>3 DEF One, Has
    <2>2. CASE builder' = builder /\ crefs' = crefs
      <3>1. Number(c)' = Number(c) BY <1>1, <1>8, <2>2, StillCounted DEF Number
      <3> QED BY <1>8, <2>2, <3>1, StillCounted DEF Counted
    <2>3. CASE /\ cursor \in Cursors /\ crefs' = [crefs EXCEPT ![cursor] = @ + 1]
               /\ CursorsOf(builder') = {cursor}
      <3>1. One(Has(builder', c)) = One(cursor = c) BY <1>7, <2>3 DEF One, Has
      <3>2. crefs'[c] = crefs[c] + One(cursor = c)
        <4>1. crefs[c] \in Nat BY <1>4
        <4>2. crefs'[c] = IF cursor = c THEN crefs[c] + 1 ELSE crefs[c] BY <1>4, <2>3
        <4> QED BY <4>1, <4>2 DEF One
      <3>3. One(cursor = c) \in Nat BY DEF One
      <3> DEFINE m == One(cursor = c)
                 a == One(Has(queued, c))
                 b == One(Has(inflight, c))
                 d == One(Has(screen, c))
                 h == Cardinality(Holders(c))
      <3>4. /\ a \in Nat /\ b \in Nat /\ d \in Nat /\ h \in Nat
            /\ One(Has(queued', c)) = a /\ One(Has(inflight', c)) = b /\ One(Has(screen', c)) = d
            /\ Cardinality(Holders(c))' = h /\ One(cursor' = c) = m
        BY <1>1, <1>8, StillCounted DEF One
      <3>5. Number(c) = m + 0 + a + b + d + h BY <2>1 DEF Number
      <3>6. Number(c)' = m + m + a + b + d + h BY <3>1, <3>4 DEF Number
      <3> HIDE DEF m, a, b, d, h
      <3>7. m \in Nat BY <3>3 DEF m
      <3>8. Number(c)' = Number(c) + m BY <3>4, <3>5, <3>6, <3>7
      <3> QED BY <1>8, <3>2, <3>3, <3>8, StillCounted DEF Counted, m
    <2> QED BY <1>5, <2>2, <2>3
  <1>10. crefs' \in [Cursors -> Nat] BY <1>4, <1>5, <1>9
  <1>11. DeviceTypeOK' /\ KernelOK' BY <1>1, StillShown
  <1>12. WindowTypeOK' /\ FlowTypeOK' /\ RequestsSane' /\ ModeOK'
    BY <1>1, <1>7, <1>8, <1>10 DEF RequestsInv, RequestsTypeOK, WindowTypeOK, FlowTypeOK,
           RequestsSane,
                                   ModeOK, Cursors, Requests
  <1>13. CountsOK' BY <1>9 DEF CountsOK, Cursors
  <1> QED BY <1>8, <1>11, <1>12, <1>13 DEF RequestsInv, RequestsTypeOK

(* The next layer of the composition.                                      *)
LEMMA NextLayer ==
  ASSUME RequestsInv, NEW n \in Nat, n > 2, n + Len(builder.layers) <= Len(composition) + 2,
         builder \in RequestT
  PROVE LET l == composition[Len(builder.layers) + 1]
        IN  Layer(l) /\ l.cursor = 0 /\ Layer([l EXCEPT !.fence = FALSE])
            /\ [l EXCEPT !.fence = FALSE].cursor = 0 /\ Len(composition) \in Nat
  <1> DEFINE k == Len(builder.layers)
             l == composition[k + 1]
  <1>1. k \in Nat BY RequestIs
  <1>2. composition \in Seq(FlutterLayers)
    BY CompositionsAssumption DEF RequestsInv, RequestsTypeOK, WindowTypeOK
  <1>3. DOMAIN composition = 1 .. Len(composition) /\ Len(composition) \in Nat
    BY <1>2, LenProperties
  <1>4. k + 1 \in 1 .. Len(composition)
    <2> HIDE DEF k
    <2>1. n + k <= Len(composition) + 2 BY DEF k
    <2> QED BY <1>1, <1>3, <2>1
  <1>5. l \in FlutterLayers BY <1>2, <1>3, <1>4, ElementOfSeq
  <1> HIDE DEF k, l
  <1>6. ASSUME NEW x \in FlutterLayers PROVE Layer(x) /\ x.cursor = 0
    <2>1. x.fb \in 2 .. 100 /\ x.format \in Formats /\ x.cursor = 0 /\ ~x.prefer_cursor
      BY DEF FlutterLayers
    <2>2. 0 \in 0 .. MaxCursors BY BoundAssumption
    <2> DEFINE f == x.fb
    <2>3. f \in 2 .. 100 BY <2>1
    <2> HIDE DEF f
    <2>4. f \in Nat BY <2>3
    <2> QED BY <2>1, <2>2, <2>4 DEF Layer, f
  <1>7. [l EXCEPT !.fence = FALSE] \in FlutterLayers BY <1>5 DEF FlutterLayers
  <1> QED BY <1>3, <1>5, <1>6, <1>7 DEF l, k

(* A layer that cannot be shown drops the request.                         *)
LEMMA Abandoned ==
  ASSUME RequestsInv, NEW t \in Threads, NEW n \in Nat, n > 2, Filling(t, n), builder' = NoReq,
         todo' = [todo EXCEPT ![t] = <<Task("release", builder), Call("unlock")>>],
         UNCHANGED <<dev, composition, winlock, crefs>>
  PROVE /\ StacksOK' /\ todo' \in [Threads -> Seq(Tasks)]
        /\ \A c \in Cursors :
              IsFiniteSet(Holders(c))' /\ Cardinality(Holders(c))' = Cardinality(Holders(c))
  <1> DEFINE e == Task("release", builder)
             f == Call("unlock")
             z == <<e, f>>
  <1>1. /\ todo[t] # <<>> /\ todo[t][1].req = NoReq /\ winlock = {t} /\ Alone(t)
        /\ builder.some /\ builder \in RequestT /\ Sane(dev, builder) /\ CursorsOf(builder) = {}
    BY DEF Filling
  <1>2. e.op = "release" /\ e.req = builder /\ e.cursor = 0 /\ e \in Tasks
    <2>1. MayBe(dev, "release", builder) BY <1>1 DEF MayBe
    <2> QED BY <2>1, TaskIs
  <1>3. f.op = "unlock" /\ f.req = NoReq /\ f.cursor = 0 /\ f \in Tasks
    BY BoundAssumption DEF Call, Task, Tasks, Ops, Requests
  <1> HIDE DEF e, f
  <1>4. /\ z \in Seq(Tasks) /\ Len(z) = 2 /\ DOMAIN z = {1, 2} /\ z[1] = e /\ z[2] = f
        /\ z # <<>>
    BY <1>2, <1>3
  <1>5. todo' = [todo EXCEPT ![t] = z] BY DEF e, f
  <1> HIDE DEF z
  <1>6. OpAt(z, 0) = "unlock" /\ OpAt(z, 1) = "release" BY <1>2, <1>3, <1>4 DEF OpAt
  <1>7. 0 .. Len(z) - 1 = {0, 1} BY <1>4
  <1>8. Ready(z, builder', composition') BY <1>6, <1>7 DEF Ready
  <1>9. Carried(dev, z) BY <1>1, <1>2, <1>3, <1>4 DEF Carried
  <1>10. Locked(z, t, winlock') BY <1>1 DEF Locked
  <1>11. Dropped(z, crefs') BY <1>2, <1>3, <1>4 DEF Dropped
  <1>12. StacksOK /\ FlowTypeOK BY DEF RequestsInv, RequestsTypeOK
  <1>13. ~builder'.some BY DEF NoReq
  <1>14. StacksOK' /\ todo' \in [Threads -> Seq(Tasks)]
    BY <1>1, <1>4, <1>5, <1>8, <1>9, <1>10, <1>11, <1>12, <1>13, HolderSet
  <1>15. ASSUME NEW c \in Cursors
         PROVE IsFiniteSet(Holders(c))' /\ Cardinality(Holders(c))' = Cardinality(Holders(c))
    <2>1. IsFiniteSet(Holders(c)) BY StillCounted
    <2>2. /\ IsFiniteSet(Holders(c))' /\ Cardinality(Holders(c)) \in Nat
          /\ Cardinality(Holders(c))' =
                 Cardinality(Holders(c)) - One(Holds(todo[t], c)) + One(Holds(z, c))
      BY <1>5, <1>12, <2>1, HoldersChange
    <2>3. One(Holds(todo[t], c)) = 0 /\ One(Holds(z, c)) = 0
      BY <1>1, <1>2, <1>4 DEF One, Holds, Has, NoReq
    <2> QED BY <2>2, <2>3
  <1> QED BY <1>14, <1>15

(* A layer is put into the request, or the request is given up.            *)
LEMMA StepPresentLayer ==
  ASSUME RequestsInv, NEW t \in Threads, PresentLayer(t)
  PROVE RequestsInv'
  <1>1. /\ At(t, "layer")
        /\ UNCHANGED <<dev, kernel, kmode, foreign, committed, cmode, cblob, blobs>>
        /\ UNCHANGED <<composition, winlock, queued, inflight, screen, shown, lost>>
        /\ UNCHANGED <<cursor, crefs>>
    BY DEF PresentLayer, kernelVars, stateVars, flowVars, cursorVars
  <1>2. PICK n \in Nat :
           /\ n > 2 /\ Filling(t, n) /\ n + Len(builder.layers) <= Len(composition) + 2
           /\ OpAt(todo[t], 2) = "cursor"
    BY <1>1, FillingIs
  <1>3. builder.some /\ builder \in RequestT /\ Sane(dev, builder) /\ CursorsOf(builder) = {}
    BY <1>2 DEF Filling
  <1> DEFINE k == Len(builder.layers)
             l == composition[k + 1]
             plain == [l EXCEPT !.fence = FALSE]
             stack == <<Task("release", builder), Call("unlock")>>
  <1>4. Layer(l) /\ l.cursor = 0 /\ Layer(plain) /\ plain.cursor = 0 BY <1>2, <1>3, NextLayer
  <1>5. \/ /\ builder' \in RequestT /\ Complete(dev, builder') /\ CursorsOf(builder') = {}
           /\ Len(builder'.layers) = k + 1 /\ Then(t, <<>>)
        \/ builder' = NoReq /\ todo' = [todo EXCEPT ![t] = stack]
    <2> DEFINE Ok(o) ==
                   /\ ~o.ok => o.b = builder
                   /\ o.ok => /\ o.b \in RequestT /\ Complete(dev, o.b) /\ CursorsOf(o.b) = {}
                              /\ Len(o.b.layers) = k + 1
               first == PushFbLayer(builder, l)
               all == UNION {IF o.again THEN PushFbLayer(o.b, plain) ELSE {o} : o \in first}
    <2>0. ASSUME NEW x, Layer(x), x.cursor = 0, NEW o \in PushFbLayer(builder, x) PROVE Ok(o)
      <3>1. /\ ~o.ok => o.b = builder
            /\ o.ok => /\ o.b \in RequestT /\ Complete(dev, o.b)
                  /\ CursorsOf(o.b) = {x.cursor} \ {0}
                       /\ Len(o.b.layers) = k + 1
        BY <1>2, <2>0, Pushes
      <3>2. {x.cursor} \ {0} = {} BY <2>0
      <3> QED BY <3>1, <3>2
    <2>1. \A o \in PushFbLayer(builder, plain) : Ok(o) BY <1>4, <2>0
    <2>2. \A o \in first : Ok(o) BY <1>4, <2>0
    <2>3. \A o \in first : o.again => ~o.ok BY DEF PushFbLayer
    <2>4. PICK o \in all :
              IF o.ok
              THEN builder' = o.b /\ Then(t, <<>>)
              ELSE /\ builder' = NoReq
                   /\ todo' = [todo EXCEPT ![t] = <<Task("release", o.b), Call("unlock")>>]
      BY DEF PresentLayer
    <2> HIDE DEF Ok, first
    <2>5. Ok(o)
      <3>1. PICK o1 \in first : o \in IF o1.again THEN PushFbLayer(o1.b, plain) ELSE {o1} OBVIOUS
      <3> HIDE DEF all, plain
      <3>2. CASE o1.again
        <4>1. ~o1.ok /\ Ok(o1) BY <2>2, <2>3, <3>2
        <4>2. o1.b = builder BY <4>1 DEF Ok
        <4> QED BY <2>1, <3>1, <3>2, <4>2
      <3>3. CASE ~o1.again BY <2>2, <3>1, <3>3
      <3> QED BY <3>2, <3>3
    <2> HIDE DEF all
    <2> QED BY <2>4, <2>5 DEF Ok
  <1> HIDE DEF l, plain
  <1>6. \A c \in Cursors : crefs[c] = 0 => crefs'[c] = 0 BY <1>1
  <1>7. /\ StacksOK' /\ todo' \in [Threads -> Seq(Tasks)]
        /\ \A c \in Cursors :
              IsFiniteSet(Holders(c))' /\ Cardinality(Holders(c))' = Cardinality(Holders(c))
    <2>1. CASE /\ builder' \in RequestT /\ Complete(dev, builder') /\ CursorsOf(builder') = {}
               /\ Len(builder'.layers) = k + 1 /\ Then(t, <<>>)
      <3>1. builder'.some /\ builder'.layers # <<>> BY <2>1 DEF RequestT, Complete
      <3>2. ASSUME NEW m \in 0 .. n - 1 PROVE m + Len(builder'.layers) <= Len(composition) + 2
        <4>1. k \in Nat BY <1>3, RequestIs
        <4>2. Len(composition) \in Nat BY <1>2, <1>3, NextLayer
        <4>3. n + k <= Len(composition) + 2 BY <1>2
        <4> HIDE DEF k
        <4>4. m + (k + 1) <= Len(composition) + 2 BY <4>1, <4>2, <4>3
        <4> QED BY <2>1, <4>4
      <3>3. n >= 2 BY <1>2
      <3> QED BY <1>1, <1>2, <1>6, <2>1, <3>1, <3>2, <3>3, Filled
    <2>2. CASE builder' = NoReq /\ todo' = [todo EXCEPT ![t] = stack]
      BY <1>1, <1>2, <1>3, <2>2, Abandoned
    <2> QED BY <1>5, <2>1, <2>2
  <1>8. ASSUME NEW c \in Cursors PROVE Counted(c)'
    <2>1. One(Has(builder, c)) = 0 /\ One(Has(builder', c)) = 0 BY <1>3, <1>5 DEF One, Has, NoReq
    <2>2. Number(c)' = Number(c) BY <1>1, <1>7, <2>1, StillCounted DEF Number
    <2> QED BY <1>1, <1>7, <2>2, StillCounted DEF Counted
  <1>9. DeviceTypeOK' /\ KernelOK' BY <1>1, StillShown
  <1>10. builder' \in Requests /\ (builder'.some => Sane(dev, builder'))
    BY <1>5 DEF Requests, NoReq, Complete
  <1>11. WindowTypeOK' /\ FlowTypeOK' /\ RequestsSane' /\ ModeOK'
    BY <1>1, <1>7, <1>10 DEF RequestsInv, RequestsTypeOK, WindowTypeOK, FlowTypeOK, RequestsSane,
                            ModeOK
  <1>12. CountsOK' BY <1>8 DEF CountsOK, Cursors
  <1> QED BY <1>7, <1>9, <1>11, <1>12 DEF RequestsInv, RequestsTypeOK

(* What is done to the list of framebuffers first.                         *)
Edits == {"addfb", "rmfb", "unlist"}
Editing(P) == P \in Seq(Tasks) /\ \A i \in DOMAIN P : P[i].op \in Edits /\ P[i].req = NoReq
Lock == <<Call("unlock")>>
Script(P, c) ==
    ((P \o [i \in DOMAIN c |-> Call("layer")]) \o <<Call("cursor"), Call("submit")>>) \o Lock

(* A task without a request.                                               *)
LEMMA CallIs ==
  ASSUME NEW o \in Ops
  PROVE Call(o) \in Tasks /\ Call(o).op = o /\ Call(o).req = NoReq /\ Call(o).cursor = 0
  BY BoundAssumption DEF Call, Task, Tasks, Requests

(* The elements of s are followed by those of w.                           *)
LEMMA ConcatAt ==
  ASSUME NEW S, NEW s \in Seq(S), NEW w \in Seq(S)
  PROVE /\ s \o w \in Seq(S) /\ Len(s \o w) = Len(s) + Len(w) /\ Len(s) \in Nat /\ Len(w) \in Nat
        /\ \A i \in 1 .. Len(s) : (s \o w)[i] = s[i]
        /\ \A i \in 1 .. Len(w) : (s \o w)[Len(s) + i] = w[i]
  <1> DEFINE z == s \o w
             k == Len(s)
             m == Len(w)
  <1>1. z \in Seq(S) /\ Len(z) = k + m /\ k \in Nat /\ m \in Nat
        /\ \A i \in 1 .. k + m : z[i] = IF i <= k THEN s[i] ELSE w[i - k]
    BY ConcatProperties, LenProperties
  <1> HIDE DEF z, k, m
  <1>2. ASSUME NEW i \in 1 .. k PROVE z[i] = s[i]
    <2>1. i \in 1 .. k + m /\ i <= k BY <1>1
    <2> QED BY <1>1, <2>1
  <1>3. ASSUME NEW i \in 1 .. m PROVE z[k + i] = w[i]
    <2>1. k + i \in 1 .. k + m /\ ~(k + i <= k) /\ k + i - k = i BY <1>1
    <2> QED BY <1>1, <2>1
  <1> QED BY <1>1, <1>2, <1>3 DEF z, k, m

(* The same for tasks.                                                     *)
LEMMA TasksConcat ==
  ASSUME NEW s \in Seq(Tasks), NEW w \in Seq(Tasks)
  PROVE /\ s \o w \in Seq(Tasks) /\ Len(s \o w) = Len(s) + Len(w) /\ Len(s) \in Nat
              /\ Len(w) \in Nat
        /\ \A i \in 1 .. Len(s) : (s \o w)[i] = s[i]
        /\ \A i \in 1 .. Len(w) : (s \o w)[Len(s) + i] = w[i]
  BY ConcatAt

(* The tasks of a script.                                                  *)
LEMMA ScriptAt ==
  ASSUME NEW c \in Compositions, NEW P, Editing(P)
  PROVE LET z == Script(P, c)
            k == Len(P)
            m == Len(c)
        IN  /\ z \in Seq(Tasks) /\ Len(z) = k + m + 3 /\ k \in Nat /\ m \in Nat \ {0}
            /\ DOMAIN z = 1 .. k + m + 3
            /\ z[k + m + 3] = Call("unlock") /\ z[k + m + 2] = Call("submit")
            /\ z[k + m + 1] = Call("cursor")
            /\ \A i \in k + 1 .. k + m : z[i] = Call("layer")
            /\ \A i \in 1 .. k : z[i] = P[i]
  <1> DEFINE e == Call("layer")
             f == Call("cursor")
             g == Call("submit")
             h == Call("unlock")
             L == [i \in DOMAIN c |-> e]
             CS == <<f, g>>
             k == Len(P)
             m == Len(c)
             z1 == P \o L
             z2 == z1 \o CS
             z == z2 \o <<h>>
  <1>1. e \in Tasks /\ f \in Tasks /\ g \in Tasks /\ h \in Tasks BY CallIs DEF Ops
  <1>2. P \in Seq(Tasks) /\ k \in Nat BY LenProperties DEF Editing
  <1>3. c \in Seq(FlutterLayers) /\ c # <<>> BY CompositionsAssumption
  <1>4. m \in Nat \ {0} /\ DOMAIN c = 1 .. m BY <1>3, EmptySeq, LenProperties
  <1> HIDE DEF e, f, g, h
  <1>5. L \in Seq(Tasks) /\ Len(L) = m /\ \A i \in 1 .. m : L[i] = e
    <2> HIDE DEF m
    <2>1. L = [i \in 1 .. m |-> e] BY <1>4
    <2> QED BY <1>1, <1>4, <2>1
  <1>6. CS \in Seq(Tasks) /\ Len(CS) = 2 /\ CS[1] = f /\ CS[2] = g BY <1>1
  <1>7. <<h>> \in Seq(Tasks) /\ Len(<<h>>) = 1 /\ <<h>>[1] = h BY <1>1
  <1> HIDE DEF L, CS, m, k
  <1>8. /\ z1 \in Seq(Tasks) /\ Len(z1) = k + m
        /\ \A i \in 1 .. k : z1[i] = P[i]
        /\ \A i \in 1 .. m : z1[k + i] = L[i]
    <2>1. P \in Seq(Tasks) BY <1>2
    <2>2. L \in Seq(Tasks) BY <1>5
    <2>3. /\ P \o L \in Seq(Tasks) /\ Len(P \o L) = Len(P) + Len(L) /\ Len(P) \in Nat
                /\ Len(L) \in Nat
          /\ \A i \in 1 .. Len(P) : (P \o L)[i] = P[i]
          /\ \A i \in 1 .. Len(L) : (P \o L)[Len(P) + i] = L[i]
      BY <2>1, <2>2, TasksConcat
    <2> QED BY <1>5, <2>3 DEF k
  <1> HIDE DEF z1
  <1>9. /\ z2 \in Seq(Tasks) /\ Len(z2) = Len(z1) + 2
        /\ \A i \in 1 .. Len(z1) : z2[i] = z1[i]
        /\ \A i \in 1 .. 2 : z2[Len(z1) + i] = CS[i]
    <2>1. z1 \in Seq(Tasks) BY <1>8
    <2>2. CS \in Seq(Tasks) BY <1>6
    <2>3. /\ z1 \o CS \in Seq(Tasks) /\ Len(z1 \o CS) = Len(z1) + Len(CS) /\ Len(z1) \in Nat
                /\ Len(CS) \in Nat
          /\ \A i \in 1 .. Len(z1) : (z1 \o CS)[i] = z1[i]
          /\ \A i \in 1 .. Len(CS) : (z1 \o CS)[Len(z1) + i] = CS[i]
      BY <2>1, <2>2, TasksConcat
    <2> QED BY <1>6, <2>3
  <1> HIDE DEF z2
  <1> DEFINE x == <<h>>
  <1>10. /\ z \in Seq(Tasks) /\ Len(z) = Len(z2) + 1
         /\ \A i \in 1 .. Len(z2) : z[i] = z2[i]
         /\ z[Len(z2) + 1] = h
    <2>1. x \in Seq(Tasks) /\ Len(x) = 1 /\ x[1] = h BY <1>7
    <2> HIDE DEF x
    <2>5. z2 \in Seq(Tasks) BY <1>9
    <2>6. x \in Seq(Tasks) BY <2>1
    <2> HIDE DEF z
    <2>2. /\ z2 \o x \in Seq(Tasks) /\ Len(z2 \o x) = Len(z2) + Len(x) /\ Len(z2) \in Nat
                /\ Len(x) \in Nat
          /\ \A i \in 1 .. Len(z2) : (z2 \o x)[i] = z2[i]
          /\ \A i \in 1 .. Len(x) : (z2 \o x)[Len(z2) + i] = x[i]
      BY <2>5, <2>6, TasksConcat
    <2>3. 1 \in 1 .. Len(x) BY <2>1
    <2>4. z = z2 \o x BY DEF x, z
    <2> QED BY <2>1, <2>2, <2>3, <2>4
  <1> HIDE DEF z
  <1>11. Len(z2) = k + m + 2 /\ Len(z) = k + m + 3 BY <1>2, <1>4, <1>8, <1>9, <1>10
  <1>12. DOMAIN z = 1 .. k + m + 3
    <2>1. DOMAIN z = 1 .. Len(z) BY <1>10, LenProperties
    <2> QED BY <1>11, <2>1
  <1>13. z[k + m + 3] = h
    <2>1. k + m + 2 + 1 = k + m + 3 BY <1>2, <1>4
    <2> QED BY <1>10, <1>11, <2>1
  <1>14. \A i \in 1 .. k + m + 2 : z[i] = z2[i] BY <1>10, <1>11
  <1>15. z[k + m + 2] = g /\ z[k + m + 1] = f
    <2>1. k + m + 1 \in 1 .. k + m + 2 /\ k + m + 2 \in 1 .. k + m + 2 BY <1>2, <1>4
    <2>2. z2[k + m + 1] = CS[1] /\ z2[k + m + 2] = CS[2] BY <1>8, <1>9
    <2> QED BY <1>6, <1>14, <2>1, <2>2
  <1>16. \A i \in 1 .. k + m : z[i] = z1[i]
    <2> TAKE i \in 1 .. k + m
    <2>1. i \in 1 .. k + m + 2 BY <1>2, <1>4
    <2> QED BY <1>8, <1>9, <1>14, <2>1
  <1>17. ASSUME NEW i \in k + 1 .. k + m PROVE z[i] = e
    <2>1. i \in 1 .. k + m /\ i - k \in 1 .. m /\ k + (i - k) = i BY <1>2, <1>4
    <2>2. z1[i] = L[i - k] BY <1>8, <2>1
    <2> QED BY <1>5, <1>16, <2>1, <2>2
  <1>18. ASSUME NEW i \in 1 .. k PROVE z[i] = P[i]
    <2>1. i \in 1 .. k + m BY <1>2, <1>4
    <2> QED BY <1>8, <1>16, <2>1
  <1>19. Script(P, c) = z BY DEF Script, Lock, z, z2, z1, CS, L, e, f, g, h
  <1> QED BY <1>2, <1>4, <1>10, <1>11, <1>12, <1>13, <1>15, <1>17, <1>18, <1>19 DEF k, m, e, f, g, h

(* A script is a proper list of tasks for a new request.                   *)
LEMMA ScriptOK ==
  ASSUME NEW c \in Compositions, NEW P, Editing(P), NEW d, NEW refs, Dropped(P, refs),
         NEW b, b.some, b.layers = <<>>, CursorsOf(b) = {}
  PROVE LET z == Script(P, c)
        IN  /\ z \in Seq(Tasks) /\ Ready(z, b, c) /\ Submits(z) /\ Carried(d, z) /\ Dropped(z, refs)
            /\ \A x : ~Holds(z, x)
  <1> DEFINE z == Script(P, c)
             k == Len(P)
             m == Len(c)
             e == Call("layer")
             f == Call("cursor")
             g == Call("submit")
             h == Call("unlock")
  <1>1. /\ z \in Seq(Tasks) /\ Len(z) = k + m + 3 /\ k \in Nat /\ m \in Nat \ {0}
        /\ DOMAIN z = 1 .. k + m + 3 /\ z[k + m + 3] = h /\ z[k + m + 2] = g /\ z[k + m + 1] = f
        /\ \A i \in k + 1 .. k + m : z[i] = e
        /\ \A i \in 1 .. k : z[i] = P[i]
    BY ScriptAt
  <1>2. /\ e.op = "layer" /\ e.req = NoReq /\ e.cursor = 0 /\ f.op = "cursor"
              /\ f.req = NoReq /\ f.cursor = 0
        /\ g.op = "submit" /\ g.req = NoReq /\ g.cursor = 0 /\ h.op = "unlock"
              /\ h.req = NoReq /\ h.cursor = 0
    BY CallIs DEF Ops
  <1>3. DOMAIN P = 1 .. k /\ \A i \in 1 .. k : P[i].op \in Edits /\ P[i].req = NoReq
    BY LenProperties DEF Editing
  <1> HIDE DEF z, k, m, e, f, g, h
  <1>4. OpAt(z, 0) = "unlock" /\ OpAt(z, 1) = "submit" /\ OpAt(z, 2) = "cursor"
    <2>1. Len(z) - 0 = k + m + 3 /\ Len(z) - 1 = k + m + 2 /\ Len(z) - 2 = k + m + 1 BY <1>1
    <2> QED BY <1>1, <1>2, <2>1 DEF OpAt
  <1>5. ASSUME NEW n \in 3 .. m + 2 PROVE OpAt(z, n) = "layer"
    <2>1. Len(z) - n \in k + 1 .. k + m BY <1>1
    <2> QED BY <1>1, <1>2, <2>1 DEF OpAt
  <1>6. ASSUME NEW n \in m + 3 .. k + m + 2 PROVE OpAt(z, n) \in Edits
    <2>1. Len(z) - n \in 1 .. k BY <1>1
    <2> QED BY <1>1, <1>3, <2>1 DEF OpAt
  <1>7. \A n \in 0 .. Len(z) - 1 :
            n = 0 \/ n = 1 \/ n = 2 \/ n \in 3 .. m + 2 \/ n \in m + 3 .. k + m + 2
    BY <1>1
  <1>8. Len(z) > 3 /\ OpAt(z, 3) = "layer"
    <2>1. 3 \in 3 .. m + 2 /\ Len(z) > 3 BY <1>1
    <2> QED BY <1>5, <2>1
  <1>9. Len(b.layers) = 0 /\ Len(c) = m BY EmptySeq DEF m
  <1>10. Ready(z, b, c)
    <2> SUFFICES ASSUME NEW n \in 0 .. Len(z) - 1
        PROVE /\ OpAt(z, n) = "unlock" => n = 0
              /\ OpAt(z, n) = "submit" => n = 1
              /\ OpAt(z, n) = "cursor" => n = 2
              /\ OpAt(z, n) = "layer" => n > 2 /\ n + Len(b.layers) <= Len(c) + 2
      <3>1. Len(z) > 2 BY <1>1
      <3> QED BY <1>4, <1>8, <3>1 DEF Ready
    <2>1. n \in 3 .. m + 2 => n > 2 /\ n + Len(b.layers) <= Len(c) + 2 BY <1>1, <1>9
    <2> QED BY <1>4, <1>5, <1>6, <1>7, <2>1 DEF Edits
  <1>11. Submits(z) BY <1>4, <1>8, <1>1 DEF Submits
  <1>12. \A i \in DOMAIN z : i \in 1 .. k \/ i \in k + 1 .. k + m \/ i = k + m + 1
               \/ i = k + m + 2 \/ i = k + m + 3
    BY <1>1
  <1>13. \A i \in DOMAIN z : z[i].req = NoReq
               /\ z[i].op \in Edits \cup {"layer", "cursor", "submit", "unlock"}
    BY <1>1, <1>2, <1>3, <1>12
  <1>14. Carried(d, z) BY <1>13 DEF Carried, Edits
  <1>15. Dropped(z, refs) BY <1>1, <1>2, <1>3, <1>12 DEF Dropped
  <1>16. \A x : ~Holds(z, x)
    <2>1. 1 \in DOMAIN z BY <1>1
    <2> QED BY <1>13, <2>1 DEF Holds, Has, NoReq
  <1> QED BY <1>1, <1>10, <1>11, <1>14, <1>15, <1>16 DEF z

(* So are edits alone, when nothing is repainted.                          *)
LEMMA EditsOK ==
  ASSUME NEW P, Editing(P), NEW d, NEW refs, Dropped(P, refs), NEW b, NEW c
  PROVE LET z == P \o Lock
        IN  /\ z \in Seq(Tasks) /\ Ready(z, b, c) /\ Carried(d, z) /\ Dropped(z, refs)
            /\ \A x : ~Holds(z, x)
  <1> DEFINE h == Call("unlock")
             x == <<h>>
             k == Len(P)
             z == P \o x
  <1>1. h \in Tasks /\ h.op = "unlock" /\ h.req = NoReq /\ h.cursor = 0 BY CallIs DEF Ops
  <1>2. P \in Seq(Tasks) /\ k \in Nat /\ DOMAIN P = 1 .. k BY LenProperties DEF Editing
  <1>3. \A i \in 1 .. k : P[i].op \in Edits /\ P[i].req = NoReq BY <1>2 DEF Editing
  <1> HIDE DEF h
  <1>4. x \in Seq(Tasks) /\ Len(x) = 1 /\ x[1] = h BY <1>1
  <1> HIDE DEF x
  <1>5. z \in Seq(Tasks) /\ Len(z) = k + 1 /\ z[k + 1] = h /\ \A i \in 1 .. k : z[i] = P[i]
    <2>3. P \in Seq(Tasks) BY <1>2
    <2>4. x \in Seq(Tasks) BY <1>4
    <2> HIDE DEF z, k
    <2>1. /\ P \o x \in Seq(Tasks) /\ Len(P \o x) = Len(P) + Len(x) /\ Len(P) \in Nat
                /\ Len(x) \in Nat
          /\ \A i \in 1 .. Len(P) : (P \o x)[i] = P[i]
          /\ \A i \in 1 .. Len(x) : (P \o x)[Len(P) + i] = x[i]
      BY <2>3, <2>4, TasksConcat
    <2>2. 1 \in 1 .. Len(x) BY <1>4
    <2> QED BY <1>4, <2>1, <2>2 DEF z, k
  <1>6. DOMAIN z = 1 .. k + 1 BY <1>5, LenProperties
  <1> HIDE DEF z, k
  <1>7. z[k + 1] = h /\ \A i \in 1 .. k : z[i] = P[i] BY <1>5
  <1>8. \A i \in DOMAIN z : i \in 1 .. k \/ i = k + 1 BY <1>2, <1>6
  <1>9. ASSUME NEW n \in 0 .. Len(z) - 1 PROVE n = 0 \/ OpAt(z, n) \in Edits
    <2> SUFFICES ASSUME n # 0 PROVE OpAt(z, n) \in Edits OBVIOUS
    <2>1. Len(z) - n \in 1 .. k BY <1>2, <1>5
    <2> QED BY <1>3, <1>7, <2>1 DEF OpAt
  <1>10. OpAt(z, 0) = "unlock"
    <2>1. Len(z) - 0 = k + 1 BY <1>2, <1>5
    <2> QED BY <1>1, <1>7, <2>1 DEF OpAt
  <1>11. Ready(z, b, c)
    <2> SUFFICES ASSUME NEW n \in 0 .. Len(z) - 1
        PROVE /\ OpAt(z, n) = "unlock" => n = 0
              /\ OpAt(z, n) \notin {"submit", "cursor", "layer"}
      BY DEF Ready
    <2> QED BY <1>9, <1>10 DEF Edits
  <1>12. \A i \in DOMAIN z : z[i].req = NoReq /\ z[i].op \in Edits \cup {"unlock"}
    BY <1>1, <1>3, <1>7, <1>8
  <1>13. Carried(d, z) BY <1>12 DEF Carried, Edits
  <1>14. Dropped(z, refs) BY <1>1, <1>2, <1>7, <1>8 DEF Dropped
  <1>15. \A y : ~Holds(z, y)
    <2>1. 1 \in DOMAIN z BY <1>2, <1>6
    <2> QED BY <1>12, <2>1 DEF Holds, Has, NoReq
  <1> QED BY <1>5, <1>11, <1>13, <1>14, <1>15 DEF z, x, Lock, h

(* Edits of the list of framebuffers that only remove what is not used.    *)
Edited(P, refs) == Editing(P) /\ Dropped(P, refs)

(* No edit ...                                                             *)
LEMMA NoEdits ==
  ASSUME NEW refs
  PROVE Edited(<<>>, refs)
  BY DEF Edited, Editing, Dropped

(* ... a new framebuffer ...                                               *)
LEMMA AddEdits ==
  ASSUME NEW refs
  PROVE Edited(<<Call("addfb"), Call("unlist")>>, refs)
  <1> DEFINE a == Call("addfb")
             u == Call("unlist")
             z == <<a, u>>
  <1>1. /\ a \in Tasks /\ a.op = "addfb" /\ a.req = NoReq /\ a.cursor = 0
        /\ u \in Tasks /\ u.op = "unlist" /\ u.req = NoReq /\ u.cursor = 0
    BY CallIs DEF Ops
  <1> HIDE DEF a, u
  <1>2. z \in Seq(Tasks) /\ DOMAIN z = {1, 2} /\ z[1] = a /\ z[2] = u BY <1>1
  <1> HIDE DEF z
  <1>3. \A i \in DOMAIN z : z[i] = a \/ z[i] = u BY <1>2
  <1>4. Editing(z) BY <1>1, <1>2, <1>3 DEF Editing, Edits
  <1>5. Dropped(z, refs) BY <1>1, <1>3 DEF Dropped
  <1> QED BY <1>4, <1>5 DEF Edited, z, a, u

(* ... or one that is removed ...                                          *)
LEMMA DropEdits ==
  ASSUME NEW c \in Cursors, NEW refs, refs[c] = 0
  PROVE Edited(<<Drop(c), Call("unlist")>>, refs)
  <1> DEFINE a == Drop(c)
             u == Call("unlist")
             z == <<a, u>>
  <1>1. u \in Tasks /\ u.op = "unlist" /\ u.req = NoReq /\ u.cursor = 0
    BY CallIs DEF Ops
  <1>2. a.op = "rmfb" /\ a.req = NoReq /\ a.cursor = c BY DEF Drop
  <1>3. a \in Tasks
    <2>1. c \in 0 .. MaxCursors /\ c \in 1 .. MaxCursors BY BoundAssumption DEF Cursors
    <2> QED BY <2>1 DEF Drop, Tasks, Ops, Requests
  <1> HIDE DEF a, u
  <1>4. z \in Seq(Tasks) /\ DOMAIN z = {1, 2} /\ z[1] = a /\ z[2] = u BY <1>1, <1>3
  <1> HIDE DEF z
  <1>5. \A i \in DOMAIN z : z[i] = a \/ z[i] = u BY <1>4
  <1>6. Editing(z) BY <1>1, <1>2, <1>4, <1>5 DEF Editing, Edits
  <1>7. Dropped(z, refs) BY <1>1, <1>2, <1>5 DEF Dropped
  <1> QED BY <1>6, <1>7 DEF Edited, z, a, u

(* ... and edits after one another.                                        *)
LEMMA JoinEdits ==
  ASSUME NEW refs, NEW P, NEW Q, Edited(P, refs), Edited(Q, refs)
  PROVE Edited(P \o Q, refs)
  <1>1. P \in Seq(Tasks) BY DEF Edited, Editing
  <1>2. Q \in Seq(Tasks) BY DEF Edited, Editing
  <1>3. /\ P \o Q \in Seq(Tasks) /\ Len(P \o Q) = Len(P) + Len(Q) /\ Len(P) \in Nat
              /\ Len(Q) \in Nat
        /\ \A i \in 1 .. Len(P) : (P \o Q)[i] = P[i]
        /\ \A i \in 1 .. Len(Q) : (P \o Q)[Len(P) + i] = Q[i]
    BY <1>1, <1>2, TasksConcat
  <1> DEFINE z == P \o Q
             k == Len(P)
             m == Len(Q)
  <1>4. DOMAIN z = 1 .. Len(z) BY <1>3, LenProperties
  <1>5. DOMAIN P = 1 .. k /\ DOMAIN Q = 1 .. m BY <1>1, <1>2, LenProperties
  <1>6. z \in Seq(Tasks) /\ Len(z) = k + m /\ k \in Nat /\ m \in Nat BY <1>3
  <1>7. (\A i \in 1 .. k : z[i] = P[i]) /\ (\A i \in 1 .. m : z[k + i] = Q[i]) BY <1>3
  <1> HIDE DEF z, k, m
  <1>8. ASSUME NEW i \in DOMAIN z
        PROVE (\E j \in DOMAIN P : z[i] = P[j]) \/ (\E j \in DOMAIN Q : z[i] = Q[j])
    <2>1. i \in 1 .. k \/ (i - k \in 1 .. m /\ k + (i - k) = i) BY <1>4, <1>6
    <2> QED BY <1>5, <1>7, <2>1
  <1>9. Editing(z) BY <1>6, <1>8 DEF Edited, Editing
  <1>10. Dropped(z, refs) BY <1>8 DEF Edited, Dropped
  <1> QED BY <1>9, <1>10 DEF Edited, z

(* The window's cursor is counted.                                         *)
LEMMA CursorCounted ==
  ASSUME RequestsInv, cursor # 0
  PROVE cursor \in Cursors /\ crefs[cursor] \in Nat \ {0}
  <1>1. cursor \in Cursors
    BY BoundAssumption DEF RequestsInv, RequestsTypeOK, WindowTypeOK, Cursors
  <1>2. crefs[cursor] = 0 \/ crefs[cursor] \in Nat \ {0} BY <1>1, StillCounted
  <1> QED BY <1>1, <1>2, NoReference

(* The window lets go of its cursor.                                       *)
LEMMA OldEdits ==
  ASSUME RequestsInv, NEW refs, cursor # 0 => refs[cursor] = crefs[cursor] - 1
  PROVE Edited(UnrefOld, refs)
  <1>1. CASE cursor # 0 /\ crefs[cursor] = 1
    <2>1. refs[cursor] = 0 BY <1>1
    <2>2. cursor \in Cursors BY <1>1, CursorCounted
    <2>3. UnrefOld = <<Drop(cursor), Call("unlist")>> BY <1>1 DEF UnrefOld
    <2> QED BY <2>1, <2>2, <2>3, DropEdits
  <1>2. CASE ~(cursor # 0 /\ crefs[cursor] = 1)
    <2>1. UnrefOld = <<>> BY <1>2 DEF UnrefOld
    <2> QED BY <2>1, NoEdits
  <1> QED BY <1>1, <1>2

(* An idle thread finds the window unlocked and goes on with z.            *)
LEMMA WindowTaken ==
  ASSUME RequestsInv, NEW t \in Threads, Idle(t), winlock = {}, dev' = dev,
         NEW z \in Seq(Tasks), todo' = [todo EXCEPT ![t] = z],
         Ready(z, builder', composition'), Carried(dev, z), Locked(z, t, winlock'), Dropped(z,
         crefs'),
         \A x : ~Holds(z, x), builder'.some => Submits(z),
         \A c \in Cursors : \A u \in Threads \ {t} :
             (crefs[c] = 0 /\ \E i \in DOMAIN todo[u] : todo[u][i].cursor = c) => crefs'[c] = 0
  PROVE /\ StacksOK' /\ todo' \in [Threads -> Seq(Tasks)] /\ ~builder.some
        /\ \A c \in Cursors :
              /\ IsFiniteSet(Holders(c))' /\ Cardinality(Holders(c)) \in Nat
              /\ Cardinality(Holders(c))' = Cardinality(Holders(c))
  <1>1. StacksOK /\ FlowTypeOK BY DEF RequestsInv, RequestsTypeOK
  <1>2. Alone(t) BY <1>1, LockedAlone
  <1>3. StacksOK' /\ todo' \in [Threads -> Seq(Tasks)] BY <1>1, <1>2, HolderSet
  <1>4. ~builder.some BY <1>1, BuilderHeld
  <1>5. ASSUME NEW c \in Cursors
        PROVE /\ IsFiniteSet(Holders(c))' /\ Cardinality(Holders(c)) \in Nat
              /\ Cardinality(Holders(c))' = Cardinality(Holders(c))
    <2>1. IsFiniteSet(Holders(c)) BY StillCounted
    <2>2. /\ IsFiniteSet(Holders(c))' /\ Cardinality(Holders(c)) \in Nat
          /\ Cardinality(Holders(c))' =
                 Cardinality(Holders(c)) - One(Holds(todo[t], c)) + One(Holds(z, c))
      BY <1>1, <2>1, HoldersChange
    <2>3. One(Holds(todo[t], c)) = 0 /\ One(Holds(z, c)) = 0 BY DEF One, Idle, Holds
    <2> QED BY <2>2, <2>3
  <1> QED BY <1>3, <1>4, <1>5

(* A thread that has nothing to do.                                        *)
LEMMA NothingToDo ==
  ASSUME NEW b, NEW c, NEW d, NEW refs, NEW t, NEW w
  PROVE LET z == <<>>
        IN  /\ z \in Seq(Tasks) /\ Ready(z, b, c) /\ Carried(d, z) /\ Locked(z, t, w)
            /\ Dropped(z, refs) /\ \A x : ~Holds(z, x)
  <1>1. Len(<<>>) = 0 /\ 0 .. 0 - 1 = {} OBVIOUS
  <1>2. Ready(<<>>, b, c) /\ Locked(<<>>, t, w) BY <1>1 DEF Ready, Locked
  <1>3. Carried(d, <<>>) /\ Dropped(<<>>, refs) BY DEF Carried, Dropped
  <1> QED BY <1>2, <1>3 DEF Holds

(* A step that only takes the window, and its cursor.                      *)
LEMMA WindowStep ==
  ASSUME RequestsInv, StacksOK', todo' \in [Threads -> Seq(Tasks)],
         UNCHANGED <<dev, kernel, kmode, foreign, committed, cmode, cblob, blobs>>,
         UNCHANGED <<queued, inflight, screen, shown, lost>>,
         builder' \in {NoReq, NewBuilder},
         composition' \in Compositions \cup {<<>>}, cursor' \in 0 .. MaxCursors,
         crefs' \in [Cursors -> Nat], \A c \in Cursors : Counted(c)'
  PROVE RequestsInv'
  <1>1. dev \in Devices BY DEF RequestsInv, RequestsTypeOK, DeviceTypeOK
  <1>2. NewBuilder \in RequestT /\ Sane(dev, NewBuilder) BY <1>1, NewBuilderSane
  <1>3. DeviceTypeOK' /\ KernelOK' BY StillShown
  <1>4. WindowTypeOK' BY DEF WindowTypeOK, Cursors
  <1>5. FlowTypeOK'
    BY <1>2 DEF RequestsInv, RequestsTypeOK, FlowTypeOK, Requests
  <1>6. RequestsSane'
    <2>1. builder'.some => Sane(dev', builder') BY <1>2 DEF NoReq
    <2>2. \A r \in {queued', inflight', screen', shown'} : r.some => Complete(dev', r)
      BY DEF RequestsInv, RequestsSane
    <2> QED BY <2>1, <2>2 DEF RequestsSane
  <1>7. ModeOK' BY DEF RequestsInv, ModeOK
  <1>8. CountsOK' BY DEF CountsOK, Cursors
  <1> QED BY <1>3, <1>4, <1>5, <1>6, <1>7, <1>8 DEF RequestsInv, RequestsTypeOK

(* A new request shows no cursor.                                          *)
LEMMA NoCursors ==
  ASSUME RequestsInv, NEW b \in {NoReq, NewBuilder}, NEW c
  PROVE ~Has(b, c)
  <1>1. dev \in Devices BY DEF RequestsInv, RequestsTypeOK, DeviceTypeOK
  <1>2. CursorsOf(NewBuilder) = {} BY <1>1, NewBuilderSane
  <1> QED BY <1>2 DEF Has, NoReq

(* A new composition, with or without the memory for a request.            *)
LEMMA StepPush ==
  ASSUME RequestsInv, NEW c \in Compositions, PushComposition(c)
  PROVE RequestsInv'
  <1> DEFINE P == IF TRUE /\ c[1].fresh THEN <<Call("addfb"), Call("unlist")>> ELSE <<>>
             z == Script(P, c)
  <1>1. /\ Idle(Raster) /\ winlock = {} /\ composition' = c
        /\ UNCHANGED <<dev, kernel, kmode, foreign, committed, cmode, cblob, blobs>>
        /\ UNCHANGED <<queued, inflight, screen, shown, lost>>
        /\ UNCHANGED <<cursor, crefs>>
    BY DEF PushComposition, kernelVars, stateVars, flowVars, cursorVars
  <1>2. \/ /\ winlock' = {Raster} /\ builder' = NewBuilder
           /\ todo' = [todo EXCEPT ![Raster] = z]
        \/ UNCHANGED <<winlock, builder, todo>>
    <2>1. BuildTasks(c, TRUE) \o <<Call("unlock")>> = z BY DEF BuildTasks, Script, Lock, P, z
    <2> HIDE DEF z
    <2> QED BY <2>1 DEF PushComposition
  <1>3. dev \in Devices /\ Raster \in Threads /\ StacksOK /\ FlowTypeOK
    BY ThreadsAssumption DEF RequestsInv, RequestsTypeOK, DeviceTypeOK
  <1>4. ~builder.some BY <1>1, <1>3, BuilderHeld
  <1>5. builder = NoReq
    BY <1>3, <1>4 DEF FlowTypeOK, Requests, RequestT
  <1>6. \A d \in Cursors : \A u \in Threads \ {Raster} :
            (crefs[d] = 0 /\ \E i \in DOMAIN todo[u] : todo[u][i].cursor = d) => crefs'[d] = 0
    BY <1>1
  <1>7. /\ StacksOK' /\ todo' \in [Threads -> Seq(Tasks)] /\ builder' \in {NoReq, NewBuilder}
        /\ \A d \in Cursors :
              /\ IsFiniteSet(Holders(d))' /\ Cardinality(Holders(d)) \in Nat
              /\ Cardinality(Holders(d))' = Cardinality(Holders(d))
    <2>1. CASE winlock' = {Raster} /\ builder' = NewBuilder /\ todo' = [todo EXCEPT ![Raster] = z]
      <3>1. Edited(P, crefs) BY AddEdits, NoEdits
      <3> HIDE DEF P
      <3>2. /\ builder'.some /\ builder'.layers = <<>> /\ CursorsOf(builder') = {}
        BY <1>3, <2>1, NewBuilderSane
      <3>3. /\ z \in Seq(Tasks) /\ Ready(z, builder', c) /\ Submits(z) /\ Carried(dev, z)
            /\ Dropped(z, crefs) /\ \A x : ~Holds(z, x)
        BY <3>1, <3>2, ScriptOK DEF Edited
      <3> HIDE DEF z
      <3>4. Locked(z, Raster, winlock') BY <2>1 DEF Locked
      <3> QED BY <1>1, <1>3, <1>6, <2>1, <3>3, <3>4, WindowTaken
    <2>2. CASE UNCHANGED <<winlock, builder, todo>>
      <3> DEFINE x == <<>>
      <3>1. /\ x \in Seq(Tasks) /\ Ready(x, builder', composition') /\ Carried(dev, x)
            /\ Locked(x, Raster, winlock') /\ Dropped(x, crefs') /\ \A y : ~Holds(x, y)
        BY NothingToDo
      <3>2. todo' = [todo EXCEPT ![Raster] = x]
        BY <1>1, <1>3, <2>2 DEF Idle, FlowTypeOK
      <3>3. ~builder'.some /\ builder' = NoReq BY <1>4, <1>5, <2>2
      <3> HIDE DEF x
      <3> QED BY <1>1, <1>3, <1>6, <2>2, <3>1, <3>2, <3>3, WindowTaken
    <2> QED BY <1>2, <2>1, <2>2
  <1>8. ASSUME NEW d \in Cursors PROVE Counted(d)'
    <2>1. One(Has(builder', d)) = 0 /\ One(Has(builder, d)) = 0
      BY <1>5, <1>7, NoCursors DEF One
    <2>2. Number(d)' = Number(d) BY <1>1, <1>7, <2>1, StillCounted DEF Number
    <2> QED BY <1>1, <1>7, <2>2, StillCounted DEF Counted
  <1>9. /\ composition' \in Compositions \cup {<<>>} /\ cursor' \in 0 .. MaxCursors
        /\ crefs' \in [Cursors -> Nat]
    BY <1>1 DEF RequestsInv, RequestsTypeOK, WindowTypeOK
  <1> QED BY <1>1, <1>7, <1>8, <1>9, WindowStep

(* The cursor is disabled.                                                 *)
LEMMA StepDisableCursor ==
  ASSUME RequestsInv, DisableCursor
  PROVE RequestsInv'
  <1> DEFINE z == UnrefOld \o Lock
  <1>1. /\ Idle(EventLoop) /\ winlock = {} /\ cursor # 0 /\ winlock' = {EventLoop} /\ cursor' = 0
        /\ crefs' = [crefs EXCEPT ![cursor] = @ - 1]
        /\ todo' = [todo EXCEPT ![EventLoop] = z]
        /\ UNCHANGED <<dev, kernel, kmode, foreign, committed, cmode, cblob, blobs>>
        /\ UNCHANGED <<composition, builder, queued, inflight, screen, shown, lost>>
    BY DEF DisableCursor, kernelVars, stateVars, flowVars, Lock
  <1>2. EventLoop \in Threads /\ StacksOK /\ FlowTypeOK /\ crefs \in [Cursors -> Nat]
    BY ThreadsAssumption DEF RequestsInv, RequestsTypeOK, WindowTypeOK
  <1>3. cursor \in Cursors /\ crefs[cursor] \in Nat \ {0} BY <1>1, CursorCounted
  <1>4. crefs'[cursor] = crefs[cursor] - 1 /\ \A d \in Cursors : d # cursor => crefs'[d] = crefs[d]
    BY <1>1, <1>2, <1>3
  <1>5. crefs' \in [Cursors -> Nat]
    <2>1. crefs[cursor] - 1 \in Nat BY <1>3
    <2> QED BY <1>1, <1>2, <2>1
  <1>6. Edited(UnrefOld, crefs') BY <1>4, OldEdits
  <1>7. /\ z \in Seq(Tasks) /\ Ready(z, builder, composition) /\ Carried(dev, z)
        /\ Dropped(z, crefs') /\ \A x : ~Holds(z, x)
    BY <1>6, EditsOK DEF Edited
  <1> HIDE DEF z
  <1>8. Locked(z, EventLoop, winlock') BY <1>1 DEF Locked
  <1>9. ~builder.some BY <1>1, <1>2, BuilderHeld
  <1>10. builder = NoReq BY <1>2, <1>9 DEF FlowTypeOK, Requests, RequestT
  <1>11. \A d \in Cursors : \A u \in Threads \ {EventLoop} :
             (crefs[d] = 0 /\ \E i \in DOMAIN todo[u] : todo[u][i].cursor = d) => crefs'[d] = 0
    BY <1>3, <1>4
  <1>12. /\ StacksOK' /\ todo' \in [Threads -> Seq(Tasks)]
         /\ \A d \in Cursors :
              /\ IsFiniteSet(Holders(d))' /\ Cardinality(Holders(d)) \in Nat
              /\ Cardinality(Holders(d))' = Cardinality(Holders(d))
    BY <1>1, <1>2, <1>7, <1>8, <1>9, <1>11, WindowTaken
  <1>13. ASSUME NEW d \in Cursors PROVE Counted(d)'
    <2>1. One(cursor' = d) = 0 BY <1>1 DEF One, Cursors
    <2>2. CASE d = cursor
      <3>1. One(cursor = d) = 1 BY <2>2 DEF One
      <3>2. Number(d)' = Number(d) - 1 BY <1>1, <1>12, <2>1, <3>1, StillCounted DEF Number
      <3> QED BY <1>4, <1>12, <2>2, <3>2, StillCounted DEF Counted
    <2>3. CASE d # cursor
      <3>1. One(cursor = d) = 0 BY <2>3 DEF One
      <3>2. Number(d)' = Number(d) BY <1>1, <1>12, <2>1, <3>1, StillCounted DEF Number
      <3> QED BY <1>4, <1>12, <2>3, <3>2, StillCounted DEF Counted
    <2> QED BY <2>2, <2>3
  <1>14. /\ composition' \in Compositions \cup {<<>>} /\ cursor' \in 0 .. MaxCursors
         /\ builder' \in {NoReq, NewBuilder}
    BY <1>1, <1>10, BoundAssumption DEF RequestsInv, RequestsTypeOK, WindowTypeOK
  <1> QED BY <1>1, <1>5, <1>12, <1>13, <1>14, WindowStep

(* What the event loop does for a new icon is a script.                    *)
LEMMA RepaintScript ==
  ASSUME NEW P, Editing(P), NEW c \in Compositions
  PROVE (P \o BuildTasks(c, FALSE)) \o Lock = Script(P, c)
  <1> DEFINE e == Call("layer")
             L == [i \in DOMAIN c |-> e]
             f == Call("cursor")
             g == Call("submit")
             CS == <<f, g>>
  <1>1. e \in Tasks /\ f \in Tasks /\ g \in Tasks BY CallIs DEF Ops
  <1> HIDE DEF e, f, g
  <1>2. L \in Seq(Tasks)
    <2>1. c \in Seq(FlutterLayers) BY CompositionsAssumption
    <2>2. Len(c) \in Nat /\ DOMAIN c = 1 .. Len(c) BY <2>1, LenProperties
    <2> DEFINE n == Len(c)
    <2> HIDE DEF n
    <2>3. n \in Nat /\ L = [i \in 1 .. n |-> e] BY <2>2 DEF n
    <2> QED BY <1>1, <2>3
  <1>3. CS \in Seq(Tasks) BY <1>1
  <1>4. P \in Seq(Tasks) BY DEF Editing
  <1>5. BuildTasks(c, FALSE) = (<<>> \o L) \o CS BY DEF BuildTasks, L, CS, e, f, g
  <1>6. Script(P, c) = ((P \o L) \o CS) \o Lock BY DEF Script, L, CS, e, f, g
  <1> HIDE DEF L, CS
  <1>7. <<>> \o L = L BY <1>2, ConcatEmptySeq
  <1>8. (P \o L) \o CS = P \o (L \o CS) BY <1>2, <1>3, <1>4, ConcatAssociative
  <1> QED BY <1>5, <1>6, <1>7, <1>8

(* Another icon.                                                           *)
LEMMA StepCursorIcon ==
  ASSUME RequestsInv, NEW c \in Cursors, SetCursorIcon(c)
  PROVE RequestsInv'
  <1> DEFINE A == <<Call("addfb"), Call("unlist")>>
             P == A \o UnrefOld
             z == (P \o (IF composition = <<>> THEN <<>>
                   ELSE BuildTasks(composition, FALSE))) \o Lock
  <1>1. /\ Idle(EventLoop) /\ winlock = {} /\ c \in FreeCursors /\ winlock' = {EventLoop}
        /\ cursor' = c /\ builder' = IF composition = <<>> THEN NoReq ELSE NewBuilder
        /\ crefs' = [d \in Cursors |->
                       IF d = c THEN 1 ELSE IF d = cursor THEN crefs[d] - 1 ELSE crefs[d]]
        /\ UNCHANGED <<dev, kernel, kmode, foreign, committed, cmode, cblob, blobs>>
        /\ UNCHANGED <<composition, queued, inflight, screen, shown, lost>>
    BY DEF SetCursorIcon, kernelVars, stateVars, flowVars
  <1>2. todo' = [todo EXCEPT ![EventLoop] = z] BY DEF SetCursorIcon, Lock
  <1>3. /\ dev \in Devices /\ EventLoop \in Threads /\ StacksOK /\ FlowTypeOK
        /\ crefs \in [Cursors -> Nat] /\ composition \in Compositions \cup {<<>>}
    BY ThreadsAssumption DEF RequestsInv, RequestsTypeOK, WindowTypeOK, DeviceTypeOK
  <1>4. /\ crefs[c] = 0
        /\ \A u \in Threads : \A i \in DOMAIN todo[u] : todo[u][i].cursor # c
    BY <1>1 DEF FreeCursors
  <1>5. /\ cursor # c /\ ~Has(builder, c) /\ ~Has(queued, c) /\ ~Has(inflight, c) /\ ~Has(screen, c)
        /\ Cardinality(Holders(c)) = 0
    BY <1>4, NoReference
  <1>6. /\ crefs'[c] = 1 /\ \A d \in Cursors : d # c /\ d # cursor => crefs'[d] = crefs[d]
        /\ cursor # 0 => cursor \in Cursors /\ crefs[cursor] \in Nat \ {0}
                         /\ crefs'[cursor] = crefs[cursor] - 1
    BY <1>1, <1>5, CursorCounted
  <1>7. crefs' \in [Cursors -> Nat]
    <2>1. ASSUME NEW d \in Cursors PROVE crefs'[d] \in Nat
      <3>1. crefs[d] \in Nat BY <1>3
      <3>2. d = cursor => cursor # 0 BY DEF Cursors
      <3>3. cursor # 0 => crefs[cursor] - 1 \in Nat BY <1>6
      <3> QED BY <1>6, <3>1, <3>2, <3>3
    <2>2. crefs' = [d \in Cursors |-> crefs'[d]] BY <1>1
    <2> QED BY <2>1, <2>2
  <1>8. Edited(P, crefs')
    <2>1. Edited(A, crefs') BY AddEdits
    <2>2. Edited(UnrefOld, crefs') BY <1>6, OldEdits
    <2> QED BY <2>1, <2>2, JoinEdits
  <1> HIDE DEF P
  <1>9. /\ z \in Seq(Tasks) /\ Ready(z, builder', composition') /\ Carried(dev, z)
        /\ Dropped(z, crefs') /\ (\A x : ~Holds(z, x)) /\ (builder'.some => Submits(z))
        /\ builder' \in {NoReq, NewBuilder}
    <2>1. CASE composition = <<>>
      <3>1. z = P \o Lock
        <4>1. P \in Seq(Tasks) BY <1>8 DEF Edited, Editing
        <4>2. P \o <<>> = P BY <4>1, ConcatEmptySeq
        <4> QED BY <2>1, <4>2
      <3>2. ~builder'.some /\ builder' = NoReq BY <1>1, <2>1 DEF NoReq
      <3>3. /\ P \o Lock \in Seq(Tasks) /\ Ready(P \o Lock, builder', composition')
            /\ Carried(dev, P \o Lock) /\ Dropped(P \o Lock, crefs') /\ \A x : ~Holds(P \o Lock, x)
        BY <1>8, EditsOK DEF Edited
      <3> HIDE DEF z
      <3> QED BY <3>1, <3>2, <3>3
    <2>2. CASE composition # <<>>
      <3>1. composition \in Compositions BY <1>3, <2>2
      <3>2. z = Script(P, composition) BY <1>8, <2>2, <3>1, RepaintScript DEF Edited
      <3>3. /\ builder' = NewBuilder /\ builder'.some /\ builder'.layers = <<>>
                  /\ CursorsOf(builder') = {}
        BY <1>1, <1>3, <2>2, NewBuilderSane
      <3> HIDE DEF z
      <3>4. /\ z \in Seq(Tasks) /\ Ready(z, builder', composition) /\ Submits(z) /\ Carried(dev, z)
            /\ Dropped(z, crefs') /\ \A x : ~Holds(z, x)
        BY <1>8, <3>1, <3>2, <3>3, ScriptOK DEF Edited
      <3> QED BY <1>1, <3>3, <3>4
    <2> QED BY <2>1, <2>2
  <1> HIDE DEF z
  <1>10. Locked(z, EventLoop, winlock') BY <1>1 DEF Locked
  <1>11. \A d \in Cursors : \A u \in Threads \ {EventLoop} :
             (crefs[d] = 0 /\ \E i \in DOMAIN todo[u] : todo[u][i].cursor = d) => crefs'[d] = 0
    <2>1. \A d \in Cursors : d = cursor => cursor # 0 BY DEF Cursors
    <2> QED BY <1>4, <1>6, <2>1
  <1>12. /\ StacksOK' /\ todo' \in [Threads -> Seq(Tasks)] /\ ~builder.some
         /\ \A d \in Cursors :
              /\ IsFiniteSet(Holders(d))' /\ Cardinality(Holders(d)) \in Nat
              /\ Cardinality(Holders(d))' = Cardinality(Holders(d))
    BY <1>1, <1>2, <1>3, <1>9, <1>10, <1>11, WindowTaken
  <1>13. ASSUME NEW d \in Cursors PROVE Counted(d)'
    <2>1. One(Has(builder', d)) = 0 /\ One(Has(builder, d)) = 0
      BY <1>9, <1>12, NoCursors DEF One, Has
    <2>2. CASE d = c
      <3>1. One(cursor = d) = 0 /\ One(cursor' = d) = 1 BY <1>1, <1>5, <2>2 DEF One
      <3>2. Number(d)' = Number(d) + 1
        BY <1>1, <1>12, <2>1, <3>1, StillCounted DEF Number
      <3> QED BY <1>4, <1>6, <1>12, <2>2, <3>2, StillCounted DEF Counted
    <2>3. CASE d = cursor
      <3>1. d # c /\ cursor # 0 BY <1>5, <2>3 DEF Cursors
      <3>2. One(cursor = d) = 1 /\ One(cursor' = d) = 0 BY <1>1, <2>3, <3>1 DEF One
      <3>3. Number(d)' = Number(d) - 1
        BY <1>1, <1>12, <2>1, <3>2, StillCounted DEF Number
      <3> QED BY <1>6, <1>12, <2>3, <3>1, <3>3, StillCounted DEF Counted
    <2>4. CASE d # c /\ d # cursor
      <3>1. One(cursor = d) = 0 /\ One(cursor' = d) = 0 BY <1>1, <2>4 DEF One
      <3>2. Number(d)' = Number(d)
        BY <1>1, <1>12, <2>1, <3>1, StillCounted DEF Number
      <3> QED BY <1>6, <1>12, <2>4, <3>2, StillCounted DEF Counted
    <2> QED BY <2>2, <2>3, <2>4
  <1>14. /\ composition' \in Compositions \cup {<<>>} /\ cursor' \in 0 .. MaxCursors
    BY <1>1, <1>3, BoundAssumption DEF Cursors
  <1> QED BY <1>1, <1>7, <1>9, <1>12, <1>13, <1>14, WindowStep

(* The invariant holds at the start ...                                    *)
LEMMA RequestsStart == Init => RequestsInv
  <1> SUFFICES ASSUME Init PROVE RequestsInv OBVIOUS
  <1>1. /\ dev \in Devices /\ kmode \in Modes /\ cmode = kmode /\ cblob = 0 /\ blobs = {}
        /\ composition = <<>> /\ winlock = {} /\ builder = NoReq /\ queued = NoReq
              /\ inflight = NoReq
        /\ screen = NoReq /\ shown = NoReq /\ cursor = 0 /\ crefs = [c \in Cursors |-> 0]
        /\ todo = [t \in Threads |-> <<>>] /\ foreign = {} /\ lost = FALSE
    BY DEF Init
  <1>2. PICK on \in {{}, {1, Max(DOMAIN dev.planes)}}, f \in {"opaque", "unknown"} :
          /\ kernel = [p \in Planes |->
                 [fb |-> IF p \in on THEN ForeignFb ELSE Off, format |-> "opaque",
                  zpos |-> dev.planes[p].zmin, blend |-> "none"]]
          /\ committed = [p \in Planes |->
                 [fb |-> kernel[p].fb, format |-> IF p \in on THEN f ELSE "unknown"]]
    BY DEF Init
  <1>3. ASSUME NEW p \in Planes
        PROVE /\ kernel[p].fb \in NoOnesFb /\ kernel[p].zpos = dev.planes[p].zmin
              /\ kernel[p] \in KernelT /\ committed[p] \in CommittedT
                    /\ committed[p].fb = kernel[p].fb
    <2> DEFINE fb == IF p \in on THEN ForeignFb ELSE Off
               g == IF p \in on THEN f ELSE "unknown"
               zpos == dev.planes[p].zmin
    <2>1. fb \in NoOnesFb /\ fb \in Nat BY DEF ForeignFb, Off, NoOnesFb
    <2>2. zpos \in Nat BY <1>1, DeviceIs
    <2>3. g \in Formats \cup {"unknown"} BY DEF Formats
    <2>4. kernel[p] = [fb |-> fb, format |-> "opaque", zpos |-> zpos, blend |-> "none"] BY <1>2
    <2>5. committed[p] = [fb |-> kernel[p].fb, format |-> g] BY <1>2
    <2> HIDE DEF fb, g, zpos
    <2>6. kernel[p] \in KernelT BY <2>1, <2>2, <2>4 DEF KernelT, Formats, Blends
    <2>7. kernel[p].fb = fb BY <2>4
    <2>8. committed[p] \in CommittedT /\ committed[p].fb = kernel[p].fb
      BY <2>1, <2>3, <2>5, <2>7 DEF CommittedT
    <2>9. kernel[p].zpos = zpos BY <2>4
    <2> QED BY <2>1, <2>6, <2>7, <2>8, <2>9 DEF zpos
  <1>4. kernel \in [Planes -> KernelT] /\ committed \in [Planes -> CommittedT]
    <2>1. kernel = [p \in Planes |-> kernel[p]] /\ committed = [p \in Planes |-> committed[p]]
      BY <1>2
    <2> QED BY <1>3, <2>1
  <1>5. DeviceTypeOK BY <1>1, <1>4 DEF DeviceTypeOK
  <1>6. WindowTypeOK BY <1>1, BoundAssumption DEF WindowTypeOK
  <1>7. FlowTypeOK BY <1>1 DEF FlowTypeOK, Requests
  <1>8. RequestsSane BY <1>1 DEF RequestsSane, NoReq
  <1>9. StacksOK
    <2>1. ASSUME NEW t \in Threads PROVE StackOK(t, todo[t])
      <3>1. todo[t] = <<>> BY <1>1
      <3> DEFINE z == <<>>
      <3>2. Ready(z, builder, composition) /\ Carried(dev, z) /\ Locked(z, t, winlock)
                  /\ Dropped(z, crefs)
        BY NothingToDo
      <3> QED BY <3>1, <3>2 DEF StackOK
    <2> QED BY <1>1, <2>1 DEF StacksOK, NoReq
  <1>10. ASSUME NEW c \in Cursors PROVE Counted(c)
    <2>1. Holders(c) = {} BY <1>1 DEF Holders, Holds
    <2>2. IsFiniteSet(Holders(c)) /\ Cardinality(Holders(c)) = 0 BY <2>1, FS_EmptySet
    <2>3. /\ One(cursor = c) = 0 /\ One(Has(builder, c)) = 0 /\ One(Has(queued, c)) = 0
          /\ One(Has(inflight, c)) = 0 /\ One(Has(screen, c)) = 0
      BY <1>1 DEF One, Has, NoReq, Cursors
    <2>4. Number(c) = 0 BY <2>2, <2>3 DEF Number
    <2> QED BY <1>1, <2>2, <2>4 DEF Counted
  <1>11. ModeOK BY <1>1 DEF ModeOK, NoReq, Modes
  <1>12. KernelOK
    <2>1. ShownLast BY <1>1 DEF ShownLast
    <2>2. ASSUME NEW p \in Planes PROVE PlaneOK(p)
      <3>1. kernel[p].fb <= 100 BY <1>3 DEF NoOnesFb, Off, ForeignFb
      <3> QED BY <1>1, <1>3, <3>1 DEF PlaneOK, NoReq
    <2> QED BY <1>1, <2>1, <2>2 DEF KernelOK, NoReq
  <1> QED BY <1>5, <1>6, <1>7, <1>8, <1>9, <1>10, <1>11, <1>12
      DEF RequestsInv, RequestsTypeOK, CountsOK

(* ... is kept by a step that changes nothing ...                          *)
LEMMA RequestsStutter ==
  ASSUME RequestsInv, UNCHANGED vars
  PROVE RequestsInv'
  <1>1. /\ UNCHANGED <<dev, kernel, kmode, foreign, committed, cmode, cblob, blobs>>
        /\ UNCHANGED <<composition, winlock, builder, queued, inflight, screen, shown, lost>>
        /\ UNCHANGED <<cursor, crefs, todo>>
    BY DEF vars, kernelVars, stateVars, winVars, flowVars, cursorVars
  <1>2. DeviceTypeOK' /\ KernelOK' BY <1>1, StillShown
  <1>3. StacksOK' BY <1>1, StacksStay DEF RequestsInv
  <1>4. ASSUME NEW c \in Cursors PROVE Counted(c)'
    <2>1. Holders(c)' = Holders(c) BY <1>1 DEF Holders
    <2>2. Number(c)' = Number(c) BY <1>1, <2>1 DEF Number, Has, CursorsOf
    <2> QED BY <1>1, <2>1, <2>2, StillCounted DEF Counted
  <1>5. WindowTypeOK' /\ FlowTypeOK' /\ RequestsSane' /\ ModeOK'
    BY <1>1 DEF RequestsInv, RequestsTypeOK, WindowTypeOK, FlowTypeOK, RequestsSane, ModeOK
  <1>6. CountsOK' BY <1>4 DEF CountsOK, Cursors
  <1> QED BY <1>2, <1>3, <1>5, <1>6 DEF RequestsInv, RequestsTypeOK

(* ... and by every other step.                                            *)
LEMMA RequestsStep ==
  ASSUME RequestsInv, [Next]_vars
  PROVE RequestsInv'
  <1>1. ASSUME NEW t \in Threads, Step(t) PROVE RequestsInv'
    <2>1. CASE PresentLayer(t) BY <2>1, StepPresentLayer
    <2>2. CASE PresentCursor(t) BY <2>2, StepPresentCursor
    <2>3. CASE SubmitFrame(t) BY <2>3, StepSubmit
    <2>4. CASE UnlockWindow(t) BY <2>4, StepUnlock
    <2>5. CASE EditFbs(t) BY <2>5, StepEditFbs
    <2>6. CASE FbsEdited(t) BY <2>6, StepFbsEdited
    <2>7. CASE ReleaseRequest(t) BY <2>7, StepRelease
    <2>8. CASE CommitEarlyFailure(t) \/ CommitRefused(t) BY <2>8, StepCommitRefused
    <2>9. CASE CommitAtomic(t) BY <2>9, StepCommitAtomic
    <2>10. CASE CommitPageFlip(t) BY <2>10, StepCommitPageFlip
    <2>11. CASE CommitSetCrtc(t) BY <2>11, StepCommitSetCrtc
    <2>12. CASE OnPresentFailed(t) BY <2>12, StepPresentFailed
    <2>13. CASE OnScanout(t) BY <2>13, StepScanout
    <2> QED BY <1>1, <2>1, <2>2, <2>3, <2>4, <2>5, <2>6, <2>7, <2>8, <2>9, <2>10, <2>11, <2>12,
               <2>13 DEF Step
  <1>2. CASE \E c \in Compositions : PushComposition(c) BY <1>2, StepPush
  <1>3. CASE \E c \in Cursors : SetCursorIcon(c) BY <1>3, StepCursorIcon
  <1>4. CASE DisableCursor BY <1>4, StepDisableCursor
  <1>5. CASE OnPageFlip BY <1>5, StepPageFlip
  <1>6. CASE SwitchMaster BY <1>6, StepSwitchMaster
  <1>7. CASE \E p \in Planes : ForeignModeset(p) BY <1>7, StepForeign
  <1>8. CASE UNCHANGED vars BY <1>8, RequestsStutter
  <1> QED BY <1>1, <1>2, <1>3, <1>4, <1>5, <1>6, <1>7, <1>8 DEF Next

(* The inductive invariant: at any time every request has planes of its    *)
(* own for its layers, the properties they ask for and an order            *)
(* (RequestsSane), every thread's tasks are where they may be (StacksOK),  *)
(* cursor buffers are counted (CountsOK), and the mode, its blob and every *)
(* plane are as the last accepted commit left them (ModeOK, KernelOK).     *)
THEOREM RequestsCorrect == Spec => []RequestsInv
  <1> QED BY RequestsStart, RequestsStep, PTL DEF Spec

(* After any interleaving of pushes, commits, refusals, flips and changes  *)
(* of the master, the display shows the last accepted request on every     *)
(* plane that no other master touched: kms_req_commit_common disables the  *)
(* others.                                                                 *)
THEOREM ScreenShowsRequest == Spec => []ScreenMatchesRequest
  <1>1. ASSUME RequestsInv PROVE ScreenMatchesRequest
    <2> SUFFICES ASSUME shown.some, ~lost
        PROVE /\ 0 \in foreign \/ kmode = "ours"
              /\ \A p \in Planes \ foreign :
                    (dev.atomic \/ p = shown.layers[1].plane) => kernel[p].fb = FbMeant(shown, p)
      BY DEF ScreenMatchesRequest
    <2>1. 0 \in foreign \/ kmode = "ours" BY <1>1 DEF RequestsInv, ModeOK
    <2>2. ASSUME NEW p \in Planes \ foreign, dev.atomic \/ p = shown.layers[1].plane
          PROVE kernel[p].fb = FbMeant(shown, p)
      <3>1. PlaneOK(p) BY <1>1 DEF RequestsInv, KernelOK
      <3> QED BY <2>2, <3>1 DEF PlaneOK
    <2> QED BY <2>1, <2>2
  <1> QED BY <1>1, RequestsCorrect, PTL

(* The two ways in which a controller is orderly.                          *)
LEMMA OrderlyIs ==
  ASSUME Orderly
  PROVE \/ dev.zpos /\ \A p \in Planes : ~dev.planes[p].fixed
        \/ OnTop(dev) /\ (dev.zpos => Ranged(dev))
  BY DEF Orderly, OnTop, Ranged, Planes

(* What the controller makes of the zpos of a layer.                       *)
LEMMA LayerZpos ==
  ASSUME RequestsInv, shown.some, dev.atomic, dev.zpos, Orderly, NEW i \in DOMAIN shown.layers,
         shown.layers[i].plane \notin foreign
  PROVE kernel[shown.layers[i].plane].zpos = shown.props[i].zpos /\ shown.props[i].zpos \in Nat
        /\ i \in DOMAIN shown.props
  <1> DEFINE p == shown.layers[i].plane
             z == shown.props[i].zpos
  <1>1. dev \in Devices /\ shown \in RequestT /\ Complete(dev, shown)
    BY DEF RequestsInv, RequestsTypeOK, DeviceTypeOK, FlowTypeOK, Requests, RequestsSane, NoReq
  <1>2. /\ i \in DOMAIN shown.props /\ shown.props[i].plane = p /\ p \in Planes
    <2>1. DOMAIN shown.props = 1 .. Len(shown.props) /\ DOMAIN shown.layers = 1 .. Len(shown.layers)
      BY <1>1, RequestIs
    <2>2. Len(shown.props) = Len(shown.layers) /\ shown.props[i].plane = p
      BY <1>1 DEF Complete, Sane, Matched
    <2>3. p \in Planes BY <1>1 DEF Complete, Sane, Placed, Planes
    <2> QED BY <2>1, <2>2, <2>3
  <1>3. z \in Nat
    <2>1. shown.props[i] \in PropT BY <1>1, <1>2, RequestIs
    <2> QED BY <2>1 DEF PropT
  <1>4. ByZpos(dev, shown) BY <1>1 DEF Complete, Sane, Stacked
  <1>5. LayerOK(i) BY DEF RequestsInv, KernelOK
  <1>6. kernel[p].zpos = IF dev.planes[p].fixed THEN dev.planes[p].zmin ELSE z BY <1>5 DEF LayerOK
  <1>7. dev.planes[p].fixed => dev.planes[p].zmin = z
    <2> SUFFICES ASSUME dev.planes[p].fixed PROVE dev.planes[p].zmin = z OBVIOUS
    <2>1. OnTop(dev) /\ Ranged(dev) BY <1>2, OrderlyIs
    <2>2. dev.planes[p].zmin <= z /\ z <= dev.planes[p].zmax BY <1>2, <1>4, <2>1 DEF ByZpos
    <2>3. /\ dev.planes[p].zmin \in Nat /\ dev.planes[p].zmin = dev.planes[p].zmax
      BY <1>1, <1>2, DeviceIs
    <2> DEFINE low == dev.planes[p].zmin
    <2> HIDE DEF z, low
    <2>4. low \in Nat /\ low <= z /\ z <= low BY <2>2, <2>3 DEF z, low
    <2>5. low = z BY <1>3, <2>4 DEF z
    <2> QED BY <2>5 DEF low, z
  <1> QED BY <1>2, <1>3, <1>6, <1>7

(* The planes that kms_req_builder_push_fb_layer chose, and the properties *)
(* it set, stack the layers as Flutter ordered them on every orderly       *)
(* controller.                                                             *)
THEOREM LayersInOrder == Spec => []LayersComposed
  <1>1. ASSUME RequestsInv PROVE LayersComposed
    <2> DEFINE P(i) == shown.layers[i].plane
    <2> SUFFICES ASSUME shown.some, dev.atomic,
                        NEW i \in DOMAIN shown.layers, NEW j \in DOMAIN shown.layers,
                        {P(i), P(j)} \cap foreign = {}
        PROVE /\ i > j => P(i) # P(j) /\ (Orderly => Above(P(i), P(j)))
              /\ dev.planes[P(i)].blends =>
                     kernel[P(i)].blend = IF i = 1 THEN "none" ELSE "premultiplied"
      BY DEF LayersComposed
    <2>1. dev \in Devices /\ shown \in RequestT /\ Complete(dev, shown)
      BY <1>1 DEF RequestsInv, RequestsTypeOK, DeviceTypeOK, FlowTypeOK, Requests, RequestsSane,
             NoReq
    <2>2. i \in Nat /\ j \in Nat
      <3>1. Len(shown.layers) \in Nat /\ DOMAIN shown.layers = 1 .. Len(shown.layers)
        BY <2>1, RequestIs
      <3>2. i \in 1 .. Len(shown.layers) /\ j \in 1 .. Len(shown.layers) BY <3>1
      <3> DEFINE m == Len(shown.layers)
      <3> HIDE DEF m
      <3>3. m \in Nat /\ i \in 1 .. m /\ j \in 1 .. m BY <3>1, <3>2 DEF m
      <3> QED BY <3>3
    <2>3. P(i) \in Planes /\ P(j) \in Planes /\ P(i) \notin foreign /\ P(j) \notin foreign
      <3>1. \A n \in DOMAIN shown.layers : P(n) \in Planes
        BY <2>1 DEF Complete, Sane, Placed, Planes
      <3> HIDE DEF P
      <3> QED BY <3>1
    <2>4. dev.planes[P(i)].blends => kernel[P(i)].blend = IF i = 1 THEN "none" ELSE "premultiplied"
      <3>1. LayerOK(i) BY <1>1 DEF RequestsInv, KernelOK
      <3>2. shown.props[i].blend = IF i = 1 THEN "none" ELSE "premultiplied"
        BY <2>1 DEF Complete, Sane, Matched
      <3> QED BY <2>3, <3>1, <3>2 DEF LayerOK
    <2>5. ASSUME i > j PROVE P(i) # P(j)
      <3>1. i # j BY <2>2, <2>5
      <3> QED BY <2>1, <3>1 DEF Complete, Sane, Placed
    <2>6. ASSUME i > j, Orderly PROVE Above(P(i), P(j))
      <3>1. j < i BY <2>2, <2>6
      <3>2. CASE dev.zpos
        <4>1. /\ kernel[P(i)].zpos = shown.props[i].zpos /\ shown.props[i].zpos \in Nat
              /\ i \in DOMAIN shown.props
          BY <1>1, <2>3, <2>6, <3>2, LayerZpos
        <4>2. /\ kernel[P(j)].zpos = shown.props[j].zpos /\ shown.props[j].zpos \in Nat
              /\ j \in DOMAIN shown.props
          BY <1>1, <2>3, <2>6, <3>2, LayerZpos
        <4>3. ByZpos(dev, shown) BY <2>1, <3>2 DEF Complete, Sane, Stacked
        <4>4. shown.props[j].zpos < shown.props[i].zpos BY <3>1, <4>1, <4>2, <4>3 DEF ByZpos
        <4> DEFINE y == shown.props[i].zpos
                   x == shown.props[j].zpos
        <4> HIDE DEF x, y
        <4>5. y > x BY <4>1, <4>2, <4>4 DEF x, y
        <4>6. kernel[P(i)].zpos = y /\ kernel[P(j)].zpos = x BY <4>1, <4>2 DEF x, y
        <4> QED BY <3>2, <4>5, <4>6 DEF Above
      <3>3. CASE ~dev.zpos
        <4>1. OnTop(dev) BY <2>6, <3>3, OrderlyIs
        <4>2. ById(dev, shown) BY <2>1, <3>3, <4>1 DEF Complete, Sane, Stacked
        <4>3. P(j) < P(i) BY <3>1, <4>2 DEF ById
        <4>4. P(i) \in Nat /\ P(j) \in Nat BY <2>1, <2>3, DeviceIs
        <4> DEFINE y == P(i)
                   x == P(j)
        <4> HIDE DEF x, y, P
        <4>5. y > x BY <4>3, <4>4 DEF x, y
        <4> QED BY <3>3, <4>5 DEF Above, x, y
      <3> QED BY <3>2, <3>3
    <2> QED BY <2>4, <2>5, <2>6
  <1> QED BY <1>1, RequestsCorrect, PTL

(* A set with or without one more element.                                 *)
LEMMA AddOwner ==
  ASSUME NEW S, IsFiniteSet(S), NEW e, e \notin S, NEW b
  PROVE LET T == S \cup (IF b THEN {e} ELSE {})
        IN  IsFiniteSet(T) /\ Cardinality(T) = Cardinality(S) + One(b) /\ Cardinality(S) \in Nat
  <1>0. Cardinality(S) \in Nat BY FS_CardinalityType
  <1>1. CASE b
    <2>1. S \cup (IF b THEN {e} ELSE {}) = S \cup {e} BY <1>1
    <2>2. IsFiniteSet(S \cup {e}) /\ Cardinality(S \cup {e}) = Cardinality(S) + 1 BY FS_AddElement
    <2> QED BY <1>0, <1>1, <2>1, <2>2 DEF One
  <1>2. CASE ~b
    <2>1. S \cup (IF b THEN {e} ELSE {}) = S BY <1>2
    <2> QED BY <1>0, <1>2, <2>1 DEF One
  <1> QED BY <1>1, <1>2

(* A thread that holds a request does so with the task at hand.            *)
LEMMA TaskOwners ==
  ASSUME RequestsInv, NEW c \in Cursors
  PROVE LET T == UNION {{<<"task", <<t, i>>>> : i \in {j \in DOMAIN todo[t] :
                     todo[t][j].req.some /\ c \in CursorsOf(todo[t][j].req)}} : t \in Threads}
        IN  /\ T = {<<"task", <<t, 1>>>> : t \in Holders(c)}
            /\ IsFiniteSet(T) /\ Cardinality(T) = Cardinality(Holders(c))
  <1> DEFINE H == Holders(c)
             Has1(t) == {j \in DOMAIN todo[t] :
                            todo[t][j].req.some /\ c \in CursorsOf(todo[t][j].req)}
             T == UNION {{<<"task", <<t, i>>>> : i \in Has1(t)} : t \in Threads}
             V == {<<"task", <<t, 1>>>> : t \in H}
  <1>1. ASSUME NEW t \in Threads PROVE Has1(t) = IF t \in H THEN {1} ELSE {}
    <2> DEFINE s == todo[t]
    <2>1. s \in Seq(Tasks) BY DEF RequestsInv, RequestsTypeOK, FlowTypeOK
    <2>2. Carried(dev, s) BY DEF RequestsInv, StacksOK, StackOK
    <2>3. s # <<>> <=> 1 \in DOMAIN s
      <3> HIDE DEF s
      <3>1. Len(s) \in Nat /\ DOMAIN s = 1 .. Len(s) BY <2>1, LenProperties
      <3>2. s = <<>> <=> Len(s) = 0 BY <2>1, EmptySeq
      <3> QED BY <3>1, <3>2
    <2>4. t \in H <=> Holds(s, c) BY DEF Holders
    <2>5. Has1(t) = {j \in DOMAIN s : Has(s[j].req, c)} BY DEF Has
    <2> HIDE DEF s, Has1, H
    <2>6. \A j \in DOMAIN s : j # 1 => ~Has(s[j].req, c) BY <2>2 DEF Carried, Has, NoReq
    <2>7. Holds(s, c) <=> 1 \in DOMAIN s /\ Has(s[1].req, c) BY <2>3 DEF Holds
    <2> QED BY <2>4, <2>5, <2>6, <2>7
  <1>2. H \subseteq Threads BY DEF Holders
  <1>3. T = V
    <2> HIDE DEF Has1, H
    <2>1. ASSUME NEW x \in T PROVE x \in V
      <3>1. PICK t \in Threads : x \in {<<"task", <<t, i>>>> : i \in Has1(t)} BY <2>1
      <3>2. PICK i \in Has1(t) : x = <<"task", <<t, i>>>> BY <3>1
      <3>3. i = 1 /\ t \in H BY <1>1, <3>2
      <3> QED BY <3>2, <3>3
    <2>2. ASSUME NEW x \in V PROVE x \in T
      <3>1. PICK t \in H : x = <<"task", <<t, 1>>>> BY <2>2
      <3>2. t \in Threads /\ 1 \in Has1(t) BY <1>1, <1>2, <3>1
      <3> QED BY <3>1, <3>2
    <2> QED BY <2>1, <2>2
  <1>4. IsFiniteSet(H) BY StillCounted
  <1> HIDE DEF T, H, V
  <1>5. ExistsBijection(H, V)
    <2> DEFINE f == [t \in H |-> <<"task", <<t, 1>>>>]
    <2>1. f \in [H -> V] BY DEF V
    <2>2. \A t, u \in H : f[t] = f[u] => t = u OBVIOUS
    <2>3. \A x \in V : \E t \in H : f[t] = x BY DEF V
    <2> HIDE DEF f
    <2>4. f \in Bijection(H, V) BY <2>1, <2>2, <2>3, Fun_IsBij
    <2> QED BY <2>4 DEF ExistsBijection
  <1>6. IsFiniteSet(V) /\ Cardinality(V) = Cardinality(H) BY <1>4, <1>5, FS_Bijection
  <1> QED BY <1>3, <1>6 DEF T, H, V, Has1

(* The owners of a cursor buffer, counted one by one.                      *)
LEMMA OwnersSum ==
  ASSUME RequestsInv, NEW c \in Cursors
  PROVE IsFiniteSet(CursorOwners(c)) /\ Cardinality(CursorOwners(c)) = Number(c)
  <1> DEFINE T == {<<"task", <<t, 1>>>> : t \in Holders(c)}
             w == <<"window", 0>>
             q(n) == <<"request", n>>
             b1 == Has(builder, c)
             b2 == Has(queued, c)
             b3 == Has(inflight, c)
             b4 == Has(screen, c)
             T0 == T \cup (IF cursor = c THEN {w} ELSE {})
             T1 == T0 \cup (IF b1 THEN {q(1)} ELSE {})
             T2 == T1 \cup (IF b2 THEN {q(2)} ELSE {})
             T3 == T2 \cup (IF b3 THEN {q(3)} ELSE {})
             T4 == T3 \cup (IF b4 THEN {q(4)} ELSE {})
             R == {m \in 1 .. 4 : LET r == <<builder, queued, inflight, screen>>[m]
                                  IN  r.some /\ c \in CursorsOf(r)}
             TU == UNION {{<<"task", <<t, i>>>> : i \in {j \in DOMAIN todo[t] :
                        todo[t][j].req.some /\ c \in CursorsOf(todo[t][j].req)}} : t \in Threads}
             W == IF cursor = c THEN {w} ELSE {}
  <1>1. TU = T /\ IsFiniteSet(T) /\ Cardinality(T) = Cardinality(Holders(c)) BY TaskOwners
  <1>2. CursorOwners(c) = (W \cup {q(n) : n \in R}) \cup TU BY DEF CursorOwners
  <1>3. /\ (1 \in R <=> b1) /\ (2 \in R <=> b2) /\ (3 \in R <=> b3) /\ (4 \in R <=> b4)
        /\ R \subseteq {1, 2, 3, 4}
    <2>1. ASSUME NEW m \in 1 .. 4
          PROVE m \in R <=> Has(<<builder, queued, inflight, screen>>[m], c)
      BY DEF Has
    <2>2. R \subseteq 1 .. 4 OBVIOUS
    <2> DEFINE list == <<builder, queued, inflight, screen>>
    <2>3. list[1] = builder /\ list[2] = queued /\ list[3] = inflight /\ list[4] = screen OBVIOUS
    <2>4. \A m \in 1 .. 4 : m \in R <=> Has(list[m], c) BY <2>1
    <2>5. 1 .. 4 = {1, 2, 3, 4} OBVIOUS
    <2> HIDE DEF R, list
    <2> QED BY <2>2, <2>3, <2>4, <2>5
  <1>4. w \notin T BY DEF w, T
  <1>5. q(1) \notin T0 BY DEF T0, T, w, q
  <1>6. q(2) \notin T1 BY DEF T1, T0, T, w, q
  <1>7. q(3) \notin T2 BY DEF T2, T1, T0, T, w, q
  <1>8. q(4) \notin T3 BY DEF T3, T2, T1, T0, T, w, q
  <1>9. CursorOwners(c) = T4
    <2> HIDE DEF R, w, q, T, TU, b1, b2, b3, b4
    <2>1. {q(n) : n \in R} = (IF b1 THEN {q(1)} ELSE {}) \cup (IF b2 THEN {q(2)} ELSE {})
                             \cup (IF b3 THEN {q(3)} ELSE {}) \cup (IF b4 THEN {q(4)} ELSE {})
      <3>1. \A n \in R : n = 1 \/ n = 2 \/ n = 3 \/ n = 4 BY <1>3
      <3> QED BY <1>3, <3>1
    <2> QED BY <1>1, <1>2, <2>1
  <1> HIDE DEF T, w, q, b1, b2, b3, b4
  <1>10. IsFiniteSet(T0) /\ Cardinality(T0) = Cardinality(T) + One(cursor = c)
               /\ Cardinality(T) \in Nat
    BY <1>1, <1>4, AddOwner
  <1> HIDE DEF T0
  <1>11. IsFiniteSet(T1) /\ Cardinality(T1) = Cardinality(T0) + One(b1) BY <1>5, <1>10, AddOwner
  <1> HIDE DEF T1
  <1>12. IsFiniteSet(T2) /\ Cardinality(T2) = Cardinality(T1) + One(b2) BY <1>6, <1>11, AddOwner
  <1> HIDE DEF T2
  <1>13. IsFiniteSet(T3) /\ Cardinality(T3) = Cardinality(T2) + One(b3) BY <1>7, <1>12, AddOwner
  <1> HIDE DEF T3
  <1>14. IsFiniteSet(T4) /\ Cardinality(T4) = Cardinality(T3) + One(b4) BY <1>8, <1>13, AddOwner
  <1> HIDE DEF T4
  <1>15. /\ One(b1) \in Nat /\ One(b2) \in Nat /\ One(b3) \in Nat /\ One(b4) \in Nat
         /\ One(cursor = c) \in Nat
    BY DEF One
  <1>16. Number(c) = One(cursor
               = c) + One(b1) + One(b2) + One(b3) + One(b4) + Cardinality(Holders(c))
    BY DEF Number, b1, b2, b3, b4
  <1>17. Cardinality(T4) = Number(c)
    BY <1>1, <1>10, <1>11, <1>12, <1>13, <1>14, <1>15, <1>16
  <1> QED BY <1>9, <1>14, <1>17

(* No mode blob and no cursor buffer is leaked or destroyed too early: the *)
(* count of a cursor buffer is the number of its owners, and a buffer on   *)
(* the display has one.                                                    *)
THEOREM CursorsAndBlobsOwned == Spec => []ResourcesOwned
  <1>1. ASSUME RequestsInv PROVE ResourcesOwned
    <2> SUFFICES ASSUME ~lost
        PROVE /\ blobs = {cblob} \ {0}
              /\ \A c \in Cursors : crefs[c] = Cardinality(CursorOwners(c))
              /\ \A p \in Planes : \A c \in Cursors : kernel[p].fb = CursorFb(c) => crefs[c] > 0
      BY DEF ResourcesOwned
    <2>1. blobs = {cblob} \ {0} BY <1>1 DEF RequestsInv, ModeOK
    <2>2. \A c \in Cursors : crefs[c] = Cardinality(CursorOwners(c))
      BY <1>1, OwnersSum, StillCounted
    <2>3. ASSUME NEW p \in Planes, NEW c \in Cursors, kernel[p].fb = CursorFb(c) PROVE crefs[c] > 0
      <3>1. c \in Nat /\ c >= 1 BY BoundAssumption DEF Cursors
      <3>2. CursorFb(c) \notin NoOnesFb /\ ~(CursorFb(c) <= 100)
        BY <3>1 DEF CursorFb, NoOnesFb, Off, ForeignFb
      <3>3. PlaneOK(p) BY <1>1 DEF RequestsInv, KernelOK
      <3>4. ~(kernel[p].fb <= 100) /\ kernel[p].fb \notin NoOnesFb BY <2>3, <3>2
      <3>5. dev.atomic /\ p \notin foreign /\ shown.some BY <3>3, <3>4 DEF PlaneOK
      <3>6. FbMeant(shown, p) = CursorFb(c) BY <2>3, <3>3, <3>5 DEF PlaneOK
      <3>7. Has(inflight, c) \/ Has(screen, c) BY <1>1, <3>5, <3>6, ShownCursor
      <3>8. crefs[c] # 0 BY <1>1, <3>7, NoReference
      <3>9. crefs[c] \in Nat BY <1>1, StillCounted
      <3> QED BY <3>8, <3>9
    <2> QED BY <2>1, <2>2, <2>3
  <1> QED BY <1>1, RequestsCorrect, PTL

(* The rest of the type invariant.                                         *)
PlainTypeOK ==
    /\ master \in BOOLEAN /\ waiting \in BOOLEAN /\ lost \in BOOLEAN
    /\ pushes \in 0 .. MaxPushes /\ cblob \in Nat /\ blobs \subseteq Nat
    /\ winlock \subseteq Threads /\ lock \subseteq Threads /\ editing \subseteq Threads

(* Blobs are numbers ...                                                   *)
LEMMA PlainBlobs ==
  ASSUME RequestsInv, PlainTypeOK, NEW kept, kept \subseteq {NewBlob}, RecordMode(kept)
  PROVE cblob' \in Nat /\ blobs' \subseteq Nat
  <1>1. UploadMode => NewBlob \in Nat BY BlobIs
  <1> QED BY <1>1 DEF RecordMode, PlainTypeOK

(* ... also after a refused commit.                                        *)
LEMMA PlainRefused ==
  ASSUME PlainTypeOK, NEW t, NEW r, NEW uploaded, Refused(t, r, uploaded)
  PROVE blobs' \subseteq Nat
  BY DEF Refused, PlainTypeOK

(* At the start.                                                           *)
LEMMA PlainStart == Init => PlainTypeOK
  <1> SUFFICES ASSUME Init PROVE PlainTypeOK OBVIOUS
  <1>1. /\ master = TRUE /\ waiting = FALSE /\ lost = FALSE /\ pushes = 0 /\ cblob = 0
        /\ blobs = {} /\ winlock = {} /\ lock = {} /\ editing = {}
    BY DEF Init
  <1>2. 0 \in 0 .. MaxPushes BY BoundAssumption
  <1> QED BY <1>1, <1>2 DEF PlainTypeOK

(* Requests are counted up to the bound.                                   *)
LEMMA PlainPushes ==
  ASSUME PlainTypeOK, pushes < MaxPushes, pushes' = pushes + 1
  PROVE pushes' \in 0 .. MaxPushes
  BY BoundAssumption DEF PlainTypeOK

(* After every step.                                                       *)
LEMMA PlainMove ==
  ASSUME RequestsInv, PlainTypeOK, [Next]_vars
  PROVE PlainTypeOK'
  <1>1. ASSUME NEW t \in Threads, Step(t) PROVE PlainTypeOK'
    <2>1. CASE PresentLayer(t)
      BY <2>1 DEF PresentLayer, PlainTypeOK, kernelVars, stateVars, flowVars, fbVars
    <2>2. CASE PresentCursor(t)
      BY <2>2 DEF PresentCursor, PlainTypeOK, kernelVars, stateVars, flowVars, fbVars
    <2>3. CASE SubmitFrame(t)
      BY <2>3 DEF SubmitFrame, PlainTypeOK, kernelVars, stateVars, fbVars
    <2>4. CASE UnlockWindow(t)
      BY <2>4 DEF UnlockWindow, PlainTypeOK, kernelVars, stateVars, flowVars, fbVars
    <2>5. CASE EditFbs(t)
      BY <2>5 DEF EditFbs, PlainTypeOK, stateVars, flowVars, winVars
    <2>6. CASE FbsEdited(t)
      BY <2>6 DEF FbsEdited, PlainTypeOK, kernelVars, stateVars, flowVars, winVars
    <2>7. CASE ReleaseRequest(t)
      BY <2>7 DEF ReleaseRequest, PlainTypeOK, stateVars, flowVars, winVars
    <2>8. CASE CommitEarlyFailure(t)
      <3>1. blobs' \subseteq Nat BY <2>8, PlainRefused DEF CommitEarlyFailure
      <3> QED
        BY <2>8, <3>1 DEF CommitEarlyFailure, PlainTypeOK, kernelVars, flowVars, winVars, fbVars
    <2>9. CASE CommitRefused(t)
      <3>1. blobs' \subseteq Nat BY <2>9, PlainRefused DEF CommitRefused
      <3> QED BY <2>9, <3>1 DEF CommitRefused, PlainTypeOK, kernelVars, flowVars, winVars, fbVars
    <2>10. CASE CommitAtomic(t)
      <3>1. cblob' \in Nat /\ blobs' \subseteq Nat BY <2>10, PlainBlobs DEF CommitAtomic
      <3> QED BY <2>10, <3>1 DEF CommitAtomic, PlainTypeOK, winVars, fbVars
    <2>11. CASE CommitPageFlip(t)
      BY <2>11 DEF CommitPageFlip, PlainTypeOK, winVars, fbVars
    <2>12. CASE CommitSetCrtc(t)
      <3>1. \/ RecordMode({NewBlob}) /\ lost' = lost
            \/ RecordMode({}) /\ lost' = TRUE
        <4> HIDE DEF RecordMode, Then, RecordLayers, ShowBottom
        <4> QED BY <2>12 DEF CommitSetCrtc
      <3>2. cblob' \in Nat /\ blobs' \subseteq Nat BY <3>1, PlainBlobs
      <3> QED BY <2>12, <3>1, <3>2 DEF CommitSetCrtc, PlainTypeOK, winVars, fbVars
    <2>13. CASE OnPresentFailed(t)
      BY <2>13 DEF OnPresentFailed, PlainTypeOK, kernelVars, stateVars, winVars, fbVars
    <2>14. CASE OnScanout(t)
      <3>1. queued.some \in BOOLEAN
        <4>1. queued \in Requests BY DEF RequestsInv, RequestsTypeOK, FlowTypeOK
        <4>2. NoReq.some \in BOOLEAN BY DEF NoReq
        <4>3. queued \in RequestT => queued.some = TRUE BY RequestIs
        <4> QED BY <4>1, <4>2, <4>3 DEF Requests
      <3> QED BY <2>14, <3>1 DEF OnScanout, PlainTypeOK, kernelVars, stateVars, winVars, fbVars
    <2> QED BY <1>1, <2>1, <2>2, <2>3, <2>4, <2>5, <2>6, <2>7, <2>8, <2>9, <2>10, <2>11, <2>12,
               <2>13, <2>14 DEF Step
  <1>2. ASSUME NEW c \in Compositions, PushComposition(c) PROVE PlainTypeOK'
    <2>1. pushes' \in 0 .. MaxPushes BY <1>2, PlainPushes DEF PushComposition
    <2> QED BY <1>2, <2>1, ThreadsAssumption
            DEF PushComposition, PlainTypeOK, kernelVars, stateVars, flowVars, fbVars
  <1>3. ASSUME NEW c \in Cursors, SetCursorIcon(c) PROVE PlainTypeOK'
    <2>1. pushes' \in 0 .. MaxPushes BY <1>3, PlainPushes DEF SetCursorIcon
    <2> QED BY <1>3, <2>1, ThreadsAssumption
            DEF SetCursorIcon, PlainTypeOK, kernelVars, stateVars, flowVars, fbVars
  <1>4. CASE DisableCursor
    BY <1>4, ThreadsAssumption DEF DisableCursor, PlainTypeOK, kernelVars, stateVars, flowVars,
           fbVars
  <1>5. CASE OnPageFlip
    BY <1>5 DEF OnPageFlip, PlainTypeOK, kernelVars, stateVars, winVars, fbVars
  <1>6. CASE SwitchMaster
    BY <1>6 DEF SwitchMaster, PlainTypeOK, stateVars, winVars, flowVars, fbVars
  <1>7. ASSUME NEW p \in Planes, ForeignModeset(p) PROVE PlainTypeOK'
    BY <1>7 DEF ForeignModeset, PlainTypeOK, stateVars, winVars, flowVars, fbVars
  <1>8. CASE UNCHANGED vars
    BY <1>8 DEF vars, PlainTypeOK, kernelVars, stateVars, winVars, flowVars, fbVars
  <1> QED BY <1>1, <1>2, <1>3, <1>4, <1>5, <1>6, <1>7, <1>8 DEF Next

(* A sane request names only what there is.                                *)
LEMMA SaneIsReq ==
  ASSUME dev \in Devices, NEW r \in Requests, r.some => Sane(dev, r)
  PROVE IsReq(r)
  <1> SUFFICES ASSUME r.some
      PROVE /\ r.available \subseteq Planes /\ r.next_zpos \in Nat
            /\ \A i \in DOMAIN r.layers :
                   r.layers[i].plane \in Planes /\ r.layers[i].format \in Formats
            /\ \A i \in DOMAIN r.props : r.props[i].plane \in Planes
    BY DEF IsReq
  <1>1. r \in RequestT BY DEF Requests, NoReq
  <1>2. /\ \A i \in DOMAIN r.layers : r.layers[i].plane \in Planes
        /\ r.available \subseteq Planes
    BY DEF Sane, Placed, Planes
  <1>3. ASSUME NEW i \in DOMAIN r.layers PROVE r.layers[i].format \in Formats
    <2>1. r.layers[i] \in LayerT BY <1>1, RequestIs
    <2> QED BY <2>1 DEF LayerT
  <1>4. r.next_zpos \in Nat BY <1>1, RequestIs
  <1>5. ASSUME NEW i \in DOMAIN r.props PROVE r.props[i].plane \in Planes
    <2>1. Matched(dev, r) BY DEF Sane
    <2>2. dev.atomic
      <3> SUFFICES ASSUME ~dev.atomic PROVE FALSE OBVIOUS
      <3>1. r.props = <<>> BY <2>1 DEF Matched
      <3> QED BY <1>5, <3>1
    <2>3. Len(r.props) = Len(r.layers)
                /\ \A j \in DOMAIN r.layers : r.props[j].plane = r.layers[j].plane
      BY <2>1, <2>2 DEF Matched
    <2>4. DOMAIN r.props = 1 .. Len(r.props) /\ DOMAIN r.layers = 1 .. Len(r.layers)
      BY <1>1, RequestIs
    <2>5. i \in DOMAIN r.layers BY <1>5, <2>3, <2>4
    <2> QED BY <1>2, <2>3, <2>5
  <1> QED BY <1>2, <1>3, <1>4, <1>5

(* Every variable keeps its type.                                          *)
THEOREM RequestsTyped == Spec => []TypeOK
  <1>1. ASSUME RequestsInv, PlainTypeOK PROVE TypeOK
    <2>1. /\ dev \in Devices /\ kmode \in Modes /\ cmode \in Modes
                /\ foreign \subseteq Planes \cup {0}
          /\ kernel \in [Planes -> [fb : Nat, format : Formats, zpos : Nat, blend : Blends]]
          /\ committed \in [Planes -> [fb : Nat, format : Formats \cup {"unknown"}]]
      BY <1>1 DEF RequestsInv, RequestsTypeOK, DeviceTypeOK, KernelT, CommittedT
    <2>2. /\ composition \in Compositions \cup {<<>>} /\ cursor \in 0 .. MaxCursors
          /\ crefs \in [Cursors -> Nat]
      BY <1>1 DEF RequestsInv, RequestsTypeOK, WindowTypeOK
    <2>3. ASSUME NEW r \in {builder, queued, inflight, screen, shown} PROVE IsReq(r)
      <3>1. r \in Requests BY <1>1 DEF RequestsInv, RequestsTypeOK, FlowTypeOK
      <3>2. r.some => Sane(dev, r) BY <1>1 DEF RequestsInv, RequestsSane, Complete
      <3> QED BY <2>1, <3>1, <3>2, SaneIsReq
    <2>4. ASSUME NEW t \in Threads, NEW i \in DOMAIN todo[t]
          PROVE todo[t][i].op \in Ops /\ IsReq(todo[t][i].req)
      <3>1. todo[t] \in Seq(Tasks) BY <1>1 DEF RequestsInv, RequestsTypeOK, FlowTypeOK
      <3>2. todo[t][i] \in Tasks BY <3>1, ElementOfSeq, LenProperties
      <3>3. Carried(dev, todo[t]) BY <1>1 DEF RequestsInv, StacksOK, StackOK
      <3> DEFINE e == todo[t][i]
      <3>4. e.op \in Ops /\ e.req \in Requests BY <3>2 DEF Tasks
      <3>5. e.req.some => Sane(dev, e.req) BY <3>3 DEF Carried, Complete, NoReq
      <3> QED BY <2>1, <3>4, <3>5, SaneIsReq
    <2> QED BY <1>1, <2>1, <2>2, <2>3, <2>4 DEF TypeOK, PlainTypeOK
  <1>2. Spec => []PlainTypeOK
    <2>1. RequestsInv /\ PlainTypeOK /\ [Next]_vars => PlainTypeOK' BY PlainMove
    <2> QED BY <2>1, PlainStart, RequestsCorrect, PTL DEF Spec
  <1> QED BY <1>1, <1>2, RequestsCorrect, PTL

=============================================================================
