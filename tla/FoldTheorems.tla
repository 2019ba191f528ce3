-------------------------- MODULE FoldTheorems ---------------------------
(***************************************************************************)
(* What FoldLeft and FlattenSeq do, for any operator: the modules that are *)
(* proved about take an instance of this one for every operator they fold  *)
(* with. Induction is over sets: what is shown for 0 and carried from n to *)
(* n + 1 holds of every natural number, because < is well-founded.         *)
(***************************************************************************)
EXTENDS Integers, Sequences, FiniteSets, SequencesExt, SequenceTheorems, WellFoundedInduction,
        TLAPS

CONSTANT Op(_, _)

(* The fold.                                                               *)
Fold(b, s) == FoldLeft(Op, b, s)

(* Induction, for a set of numbers.                                        *)
LEMMA SetInduction ==
  ASSUME NEW S, 0 \in S, \A n \in Nat : n \in S => n + 1 \in S
  PROVE  \A n \in Nat : n \in S
  <1> DEFINE T == {n \in Nat : n \notin S}
             R == OpToRel(<, Nat)
  <1>1. SUFFICES ASSUME T # {} PROVE FALSE OBVIOUS
  <1>2. T \subseteq Nat OBVIOUS
  <1>3. IsWellFoundedOn(R, Nat) BY NatLessThanWellFounded
  <1>4. \A x, y \in Nat : x < y => <<x, y>> \in R BY DEF OpToRel
  <1> HIDE DEF R, T
  <1>5. PICK m \in T : \A y \in T : ~ (<<y, m>> \in R) BY <1>1, <1>2, <1>3, WFMin
  <1>6. m \in Nat /\ m \notin S BY <1>5 DEF T
  <1>7. m # 0 BY <1>6
  <1>8. m - 1 \in Nat /\ m - 1 < m BY <1>6, <1>7
  <1>9. m - 1 \notin T BY <1>4, <1>5, <1>6, <1>8
  <1>10. m - 1 \in S BY <1>8, <1>9 DEF T
  <1> QED BY <1>6, <1>8, <1>10

(* A set of numbers up to m has a greatest one, which Max finds.           *)
LEMMA MaxExists ==
  ASSUME NEW m \in Nat, NEW u \in SUBSET (1 .. m), u # {}
  PROVE  \E x \in u : \A y \in u : x >= y
  <1> DEFINE S == {n \in Nat : \A w \in SUBSET (1 .. n) :
                                  w # {} => \E x \in w : \A y \in w : x >= y}
  <1>1. 0 \in S
    <2>1. \A w \in SUBSET (1 .. 0) : w = {}
      <3>1. 1 .. 0 = {} OBVIOUS
      <3> QED BY <3>1
    <2> QED BY <2>1
  <1>2. ASSUME NEW n \in Nat, n \in S PROVE n + 1 \in S
    <2>1. SUFFICES ASSUME NEW w \in SUBSET (1 .. n + 1), w # {}
                   PROVE \E x \in w : \A y \in w : x >= y
      OBVIOUS
    <2>2. CASE n + 1 \in w BY <2>1, <2>2
    <2>3. CASE n + 1 \notin w
      <3>1. w \in SUBSET (1 .. n)
        <4>1. \A y \in w : y \in 1 .. n BY <2>1, <2>3
        <4> QED BY <4>1
      <3> QED BY <1>2, <2>1, <3>1
    <2> QED BY <2>2, <2>3
  <1> HIDE DEF S
  <1>3. m \in S BY <1>1, <1>2, SetInduction
  <1> QED BY <1>3 DEF S

LEMMA MaxIs ==
  ASSUME NEW m \in Nat, NEW u \in SUBSET (1 .. m), u # {}
  PROVE  Max(u) \in u /\ \A y \in u : Max(u) >= y
  BY MaxExists DEF Max

LEMMA MaxWith ==
  ASSUME NEW m \in Nat, NEW u \in SUBSET (1 .. m), m \in u
  PROVE  Max(u) = m
  <1>1. Max(u) \in u /\ Max(u) >= m BY MaxIs
  <1>2. Max(u) \in 1 .. m BY <1>1
  <1> QED BY <1>1, <1>2

Iterates(g, m, b, s) ==
  g = [u \in SUBSET (1 .. m) |-> IF u = {} THEN b ELSE Op(g[u \ {Max(u)}], s[Max(u)])]

(* The function that MapThenFoldSet chooses exists: it is defined set by   *)
(* set, taking away the greatest index.                                    *)
LEMMA IteratesExists ==
  ASSUME NEW m \in Nat, NEW b, NEW s
  PROVE  \E g : Iterates(g, m, b, s)
  <1> DEFINE S == {n \in Nat : \E g : Iterates(g, n, b, s)}
  <1>1. 0 \in S
    <2>1. Iterates([u \in SUBSET (1 .. 0) |-> b], 0, b, s) BY DEF Iterates
    <2> QED BY <2>1
  <1>2. ASSUME NEW n \in Nat, n \in S PROVE n + 1 \in S
    <2>1. PICK g : Iterates(g, n, b, s) BY <1>2
    <2> DEFINE h == [u \in SUBSET (1 .. n + 1) |->
                       IF n + 1 \in u THEN Op(g[u \ {n + 1}], s[n + 1]) ELSE g[u]]
    <2>2. ASSUME NEW u \in SUBSET (1 .. n + 1)
          PROVE h[u] = IF u = {} THEN b ELSE Op(h[u \ {Max(u)}], s[Max(u)])
      <3>1. CASE n + 1 \in u
        <4>1. Max(u) = n + 1 BY <3>1, MaxWith
        <4>2. u \ {n + 1} \in SUBSET (1 .. n + 1) /\ n + 1 \notin u \ {n + 1} OBVIOUS
        <4>3. h[u \ {n + 1}] = g[u \ {n + 1}] BY <4>2
        <4> QED BY <3>1, <4>1, <4>3
      <3>2. CASE n + 1 \notin u
        <4>1. u \in SUBSET (1 .. n)
          <5>1. \A y \in u : y \in 1 .. n BY <3>2
          <5> QED BY <5>1
        <4>2. g[u] = IF u = {} THEN b ELSE Op(g[u \ {Max(u)}], s[Max(u)])
          BY <2>1, <4>1 DEF Iterates
        <4>3. h[u] = g[u] BY <3>2
        <4>4. h[u \ {Max(u)}] = g[u \ {Max(u)}] BY <3>2
        <4> QED BY <4>2, <4>3, <4>4
      <3> QED BY <3>1, <3>2
    <2>3. h = [u \in SUBSET (1 .. n + 1) |-> h[u]] OBVIOUS
    <2> HIDE DEF h
    <2>4. Iterates(h, n + 1, b, s) BY <2>2, <2>3 DEF Iterates
    <2> QED BY <2>4
  <1> HIDE DEF S
  <1>3. m \in S BY <1>1, <1>2, SetInduction
  <1> QED BY <1>3 DEF S

LEMMA FoldIterates ==
  ASSUME NEW m \in Nat, NEW b, NEW s, DOMAIN s = 1 .. m
  PROVE  \E g : Iterates(g, m, b, s) /\ Fold(b, s) = g[1 .. m]
  <1> DEFINE G == CHOOSE g : Iterates(g, m, b, s)
  <1>1. Iterates(G, m, b, s) BY IteratesExists
  <1>2. Fold(b, s) = G[1 .. m] BY DEF Fold, FoldLeft, MapThenFoldSet, Iterates
  <1> QED BY <1>1, <1>2

(* The values on the way.                                                  *)
States(v, m, b, s) ==
  /\ v = [k \in 0 .. m |-> v[k]]
  /\ v[0] = b /\ v[m] = Fold(b, s)
  /\ \A k \in 1 .. m : v[k] = Op(v[k - 1], s[k])

LEMMA FoldStates ==
  ASSUME NEW m \in Nat, NEW b, NEW s, DOMAIN s = 1 .. m
  PROVE  \E v : States(v, m, b, s)
  <1>1. PICK g : Iterates(g, m, b, s) /\ Fold(b, s) = g[1 .. m] BY FoldIterates
  <1> DEFINE v == [k \in 0 .. m |-> g[1 .. k]]
  <1>2. v[0] = b
    <2>1. v[0] = g[1 .. 0] OBVIOUS
    <2>2. 1 .. 0 \in SUBSET (1 .. m) /\ 1 .. 0 = {} OBVIOUS
    <2> QED BY <1>1, <2>1, <2>2 DEF Iterates
  <1>3. v[m] = Fold(b, s) BY <1>1
  <1>4. ASSUME NEW k \in 1 .. m PROVE v[k] = Op(v[k - 1], s[k])
    <2> DEFINE u == 1 .. k
    <2>1. u \in SUBSET (1 .. m) /\ u # {} /\ k \in u /\ k \in Nat /\ u \in SUBSET (1 .. k) OBVIOUS
    <2>2. Max(u) = k BY <2>1, MaxWith
    <2>3. u \ {k} = 1 .. (k - 1) OBVIOUS
    <2> HIDE DEF u
    <2>4. g[u] = Op(g[u \ {Max(u)}], s[Max(u)]) BY <1>1, <2>1 DEF Iterates
    <2>5. g[u] = Op(g[1 .. (k - 1)], s[k]) BY <2>2, <2>3, <2>4
    <2>6. v[k] = g[1 .. k] /\ v[k - 1] = g[1 .. (k - 1)] OBVIOUS
    <2> QED BY <2>5, <2>6 DEF u
  <1> HIDE DEF v
  <1>5. v = [k \in 0 .. m |-> v[k]] BY DEF v
  <1>6. States(v, m, b, s) BY <1>2, <1>3, <1>4, <1>5 DEF States
  <1> QED BY <1>6

(* The fold of nothing, of one element more, and of one.                   *)
LEMMA FoldEmpty ==
  ASSUME NEW b
  PROVE  Fold(b, <<>>) = b
  <1>1. DOMAIN <<>> = 1 .. 0 OBVIOUS
  <1>2. PICK v : States(v, 0, b, <<>>) BY <1>1, FoldStates
  <1> QED BY <1>2 DEF States

(* One element more.                                                       *)
LEMMA FoldMore ==
  ASSUME NEW m \in Nat, NEW b, NEW s, DOMAIN s = 1 .. m, NEW t, DOMAIN t = 1 .. m + 1,
         \A i \in 1 .. m : t[i] = s[i]
  PROVE  Fold(b, t) = Op(Fold(b, s), t[m + 1])
  <1> DEFINE p == m + 1
  <1>1. PICK v : States(v, m, b, s) BY FoldStates
  <1>2. /\ v[0] = b /\ v[m] = Fold(b, s)
        /\ \A k \in 1 .. m : v[k] = Op(v[k - 1], s[k])
    BY <1>1 DEF States
  <1>3. p \in Nat /\ DOMAIN t = 1 .. p OBVIOUS
  <1> HIDE DEF p
  <1>4. PICK w : States(w, p, b, t) BY <1>3, FoldStates
  <1>5. /\ w[0] = b /\ w[m + 1] = Fold(b, t)
        /\ \A k \in 1 .. m + 1 : w[k] = Op(w[k - 1], t[k])
    BY <1>4 DEF States, p
  <1> DEFINE S == {k \in Nat : k <= m => v[k] = w[k]}
  <1>6. 0 \in S BY <1>2, <1>5
  <1>7. ASSUME NEW n \in Nat, n \in S PROVE n + 1 \in S
    <2>1. SUFFICES ASSUME n + 1 <= m PROVE v[n + 1] = w[n + 1] OBVIOUS
    <2>2. v[n] = w[n] BY <1>7, <2>1
    <2>3. n + 1 \in 1 .. m /\ n + 1 \in 1 .. m + 1 /\ (n + 1) - 1 = n BY <2>1
    <2>4. v[n + 1] = Op(v[n], s[n + 1]) BY <1>2, <2>3
    <2>5. w[n + 1] = Op(w[n], t[n + 1]) BY <1>5, <2>3
    <2> QED BY <2>2, <2>3, <2>4, <2>5
  <1> HIDE DEF S
  <1>8. m \in S BY <1>6, <1>7, SetInduction
  <1>9. v[m] = w[m] BY <1>8 DEF S
  <1>10. m + 1 \in 1 .. m + 1 /\ (m + 1) - 1 = m OBVIOUS
  <1>11. w[m + 1] = Op(w[m], t[m + 1]) BY <1>5, <1>10
  <1> QED BY <1>2, <1>5, <1>9, <1>11

LEMMA FoldAppend ==
  ASSUME NEW E, NEW b, NEW s \in Seq(E), NEW e \in E
  PROVE  Fold(b, Append(s, e)) = Op(Fold(b, s), e)
  <1> DEFINE m == Len(s)
             t == Append(s, e)
  <1>1. m \in Nat /\ DOMAIN s = 1 .. m BY LenProperties
  <1>2. /\ t \in Seq(E) /\ Len(t) = m + 1
        /\ \A i \in 1 .. m : t[i] = s[i]
        /\ t[m + 1] = e
    BY AppendProperties
  <1>3. DOMAIN t = 1 .. m + 1 BY <1>2, LenProperties
  <1> HIDE DEF m, t
  <1>4. Fold(b, t) = Op(Fold(b, s), t[m + 1]) BY <1>1, <1>2, <1>3, FoldMore
  <1> QED BY <1>2, <1>4 DEF t

LEMMA FoldOne ==
  ASSUME NEW b, NEW e
  PROVE  Fold(b, <<e>>) = Op(b, e)
  <1> DEFINE t == <<e>>
             s == <<>>
  <1>1. PICK z \in Nat : z = 0 OBVIOUS
  <1>2. DOMAIN s = 1 .. z /\ DOMAIN t = 1 .. z + 1 /\ t[z + 1] = e BY <1>1
  <1>3. \A i \in 1 .. z : t[i] = s[i] BY <1>1
  <1> HIDE DEF s, t
  <1>4. Fold(b, t) = Op(Fold(b, s), t[z + 1]) BY <1>2, <1>3, FoldMore
  <1>5. Fold(b, s) = b BY FoldEmpty DEF s
  <1> QED BY <1>2, <1>4, <1>5 DEF t

(* One sequence after the other.                                           *)
LEMMA FoldConcat ==
  ASSUME NEW E, NEW b, NEW s \in Seq(E), NEW t \in Seq(E)
  PROVE  Fold(b, s \o t) = Fold(Fold(b, s), t)
  <1> DEFINE S == {n \in Nat : \A u \in Seq(E) :
                      Len(u) = n => Fold(b, s \o u) = Fold(Fold(b, s), u)}
  <1>1. 0 \in S
    <2>1. SUFFICES ASSUME NEW u \in Seq(E), Len(u) = 0
                   PROVE Fold(b, s \o u) = Fold(Fold(b, s), u)
      OBVIOUS
    <2>2. u = <<>> BY <2>1, EmptySeq
    <2>3. s \o <<>> = s BY ConcatEmptySeq
    <2> QED BY <2>2, <2>3, FoldEmpty
  <1>2. ASSUME NEW n \in Nat, n \in S PROVE n + 1 \in S
    <2>1. SUFFICES ASSUME NEW u \in Seq(E), Len(u) = n + 1
                   PROVE Fold(b, s \o u) = Fold(Fold(b, s), u)
      OBVIOUS
    <2>2. PICK w \in Seq(E), e \in E : u = Append(w, e)
      <3>1. u # <<>> BY <2>1, EmptySeq
      <3> QED BY <3>1, SequenceEmptyOrAppend
    <2>3. Len(w) = n BY <2>1, <2>2, AppendProperties, LenProperties
    <2>4. Fold(b, s \o w) = Fold(Fold(b, s), w) BY <1>2, <2>3
    <2>5. s \o u = Append(s \o w, e) /\ s \o w \in Seq(E)
      BY <2>2
    <2>6. Fold(b, s \o u) = Op(Fold(b, s \o w), e)
      <3>1. \A z \in Seq(E) : Fold(b, Append(z, e)) = Op(Fold(b, z), e) BY FoldAppend
      <3> QED BY <2>5, <3>1
    <2>7. Fold(Fold(b, s), u) = Op(Fold(Fold(b, s), w), e) BY <2>2, FoldAppend
    <2> QED BY <2>4, <2>6, <2>7
  <1> HIDE DEF S
  <1>3. Len(t) \in Nat BY LenProperties
  <1>4. Len(t) \in S BY <1>1, <1>2, <1>3, SetInduction
  <1> QED BY <1>4 DEF S

(* Induction over sequences.                                               *)
LEMMA SeqInduction ==
  ASSUME NEW E, NEW S, <<>> \in S, \A s \in Seq(E), e \in E : s \in S => Append(s, e) \in S
  PROVE  \A s \in Seq(E) : s \in S
  <1> DEFINE T == {n \in Nat : \A s \in Seq(E) : Len(s) = n => s \in S}
  <1>1. 0 \in T
    <2>1. ASSUME NEW s \in Seq(E), Len(s) = 0 PROVE s \in S BY <2>1, EmptySeq
    <2> QED BY <2>1
  <1>2. ASSUME NEW n \in Nat, n \in T PROVE n + 1 \in T
    <2>1. SUFFICES ASSUME NEW s \in Seq(E), Len(s) = n + 1 PROVE s \in S OBVIOUS
    <2>2. PICK w \in Seq(E), e \in E : s = Append(w, e)
      <3>1. s # <<>> BY <2>1, EmptySeq
      <3> QED BY <3>1, SequenceEmptyOrAppend
    <2>3. Len(w) = n BY <2>1, <2>2, AppendProperties, LenProperties
    <2> QED BY <1>2, <2>2, <2>3
  <1> HIDE DEF T
  <1>3. \A n \in Nat : n \in T BY <1>1, <1>2, SetInduction
  <1>4. TAKE s \in Seq(E)
  <1>5. Len(s) \in Nat BY LenProperties
  <1> QED BY <1>3, <1>5 DEF T

(* What every step keeps, the fold keeps.                                  *)
LEMMA FoldType ==
  ASSUME NEW E, NEW T, NEW b \in T, \A x \in T, e \in E : Op(x, e) \in T, NEW s \in Seq(E)
  PROVE  Fold(b, s) \in T
  <1> DEFINE S == {u \in Seq(E) : Fold(b, u) \in T}
  <1>1. <<>> \in S BY FoldEmpty
  <1>2. ASSUME NEW u \in Seq(E), NEW e \in E, u \in S PROVE Append(u, e) \in S
    <2>1. Fold(b, Append(u, e)) = Op(Fold(b, u), e) BY FoldAppend
    <2>2. Append(u, e) \in Seq(E) BY AppendProperties
    <2> QED BY <1>2, <2>1, <2>2
  <1> HIDE DEF S
  <1>3. s \in S BY <1>1, <1>2, SeqInduction
  <1> QED BY <1>3 DEF S

(* An element that may be there.                                           *)
LEMMA FoldMaybe ==
  ASSUME NEW b, NEW c, NEW e
  PROVE  Fold(b, IF c THEN <<e>> ELSE <<>>) = IF c THEN Op(b, e) ELSE b
  BY FoldOne, FoldEmpty

(* Sequences one after the other.                                          *)
Joined(f, n, seqs) == f = [i \in 1 .. n |-> IF i = 1 THEN seqs[i] ELSE f[i - 1] \o seqs[i]]

(* The joined sequences exist, and FlattenSeq is the last of them.         *)
LEMMA JoinedExists ==
  ASSUME NEW seqs, NEW n \in Nat
  PROVE  \E f : Joined(f, n, seqs)
  <1> DEFINE S == {m \in Nat : \E f : Joined(f, m, seqs)}
  <1>1. 0 \in S
    <2>1. Joined([i \in 1 .. 0 |-> i], 0, seqs) BY DEF Joined
    <2> QED BY <2>1
  <1>2. ASSUME NEW m \in Nat, m \in S PROVE m + 1 \in S
    <2>1. PICK f : Joined(f, m, seqs) BY <1>2
    <2> DEFINE last == IF m = 0 THEN seqs[1] ELSE f[m] \o seqs[m + 1]
               h == [i \in 1 .. m + 1 |-> IF i = m + 1 THEN last ELSE f[i]]
    <2>2. ASSUME NEW i \in 1 .. m + 1
          PROVE  h[i] = IF i = 1 THEN seqs[i] ELSE h[i - 1] \o seqs[i]
      <3>1. CASE i = m + 1 /\ m = 0 BY <3>1
      <3>2. CASE i = m + 1 /\ m # 0
        <4>1. h[i] = f[m] \o seqs[i] BY <3>2
        <4>2. i - 1 \in 1 .. m + 1 /\ i - 1 = m /\ i # 1 BY <3>2
        <4>3. h[i - 1] = f[m] BY <4>2
        <4> QED BY <4>1, <4>2, <4>3
      <3>3. CASE i # m + 1
        <4>1. i \in 1 .. m BY <3>3
        <4>2. f[i] = IF i = 1 THEN seqs[i] ELSE f[i - 1] \o seqs[i] BY <2>1, <4>1 DEF Joined
        <4>3. h[i] = f[i] BY <3>3
        <4>4. i # 1 => h[i - 1] = f[i - 1] BY <4>1
        <4> HIDE DEF h
        <4> QED BY <4>2, <4>3, <4>4
      <3> QED BY <3>1, <3>2, <3>3
    <2>3. h = [i \in 1 .. m + 1 |-> h[i]] OBVIOUS
    <2> HIDE DEF h
    <2>4. Joined(h, m + 1, seqs) BY <2>2, <2>3 DEF Joined
    <2> QED BY <2>4
  <1> HIDE DEF S
  <1>3. n \in S BY <1>1, <1>2, SetInduction
  <1> QED BY <1>3 DEF S

LEMMA FlattenIs ==
  ASSUME NEW seqs, Len(seqs) \in Nat, Len(seqs) # 0
  PROVE  \E f : Joined(f, Len(seqs), seqs) /\ FlattenSeq(seqs) = f[Len(seqs)]
  <1> DEFINE F == CHOOSE f : Joined(f, Len(seqs), seqs)
  <1>1. Joined(F, Len(seqs), seqs) BY JoinedExists
  <1>2. FlattenSeq(seqs) = F[Len(seqs)] BY DEF FlattenSeq, Joined
  <1> QED BY <1>1, <1>2
=============================================================================
