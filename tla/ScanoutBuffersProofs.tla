------------------------ MODULE ScanoutBuffersProofs ------------------------
(***************************************************************************)
(* Why every step of a slot keeps the invariant of ScanoutBuffers that     *)
(* ScanoutCommitProofs defines (its rendering, presentation, release and   *)
(* cleaning, the resizing and the end of a surface), and what follows from *)
(* the invariant: the theorems, at the end.                                *)
(***************************************************************************)
EXTENDS ScanoutCommitProofs

(* Counting tasks that name a slot or a surface.                           *)
LEMMA SlotTop ==
  ASSUME ScanoutInv, NEW t \in Threads, todo[t] # <<>>, NEW ops, NEW z
  PROVE Counted(One(Head(todo[t]).op \in ops /\ Head(todo[t]).slot = z),
          Above(todo, t, Len(todo[t]) - 1, Ofs(ops, z)))
  <1>1. todo \in Stacks BY InvIs, StacksTyped
  <1>2. Counted(One(Head(todo[t]) \in Ofs(ops, z)),
          Above(todo, t, Len(todo[t]) - 1, Ofs(ops, z)))
    BY <1>1, AbovePop
  <1>3. Head(todo[t]) \in Tasks BY <1>1, TopIs
  <1>4. (Head(todo[t]) \in Ofs(ops, z)) = (Head(todo[t]).op \in ops /\ Head(todo[t]).slot = z)
    BY <1>3 DEF Ofs
  <1> QED BY <1>2, <1>4, Zenon

(* Tasks of interest in joined lists.                                      *)
LEMMA AmongJoin ==
  ASSUME NEW S, NEW a \in Seq(S), NEW b \in Seq(S), NEW K, NEW n, Counted(n, Among(a, K)),
         NEW k, Counted(k, Among(b, K))
  PROVE Counted(n + k, Among(a \o b, K)) /\ n \in Nat /\ k \in Nat
  <1> DEFINE la == Len(a)
             lb == Len(b)
             r == a \o b
             B == Among(b, K)
             BT == {la + i : i \in B}
             f == [i \in B |-> la + i]
  <1>1. /\ la \in Nat /\ lb \in Nat /\ r \in Seq(S) /\ Len(r) = la + lb
        /\ \A i \in 1 .. la : r[i] = a[i]
        /\ \A i \in 1 .. lb : r[la + i] = b[i]
    BY JoinParts
  <1>2. \A i \in B : i \in 1 .. lb /\ i \in Int BY <1>1 DEF Among
  <1>3. Counted(k, BT)
    <2>1. f \in [B -> BT] OBVIOUS
    <2>2. \A x, y \in B : f[x] = f[y] => x = y BY <1>1, <1>2
    <2>3. \A z \in BT : \E x \in B : f[x] = z OBVIOUS
    <2> HIDE DEF f, BT, B
    <2>4. f \in Bijection(B, BT) BY <2>1, <2>2, <2>3, BijectionIs
    <2>5. Counted(k, B) BY DEF B
    <2> QED BY <2>4, <2>5, CountBijection
  <1> HIDE DEF f, la, lb, r
  <1>4. Among(r, K) = Among(a, K) \cup BT
    <2>1. ASSUME NEW i \in Among(r, K) PROVE i \in Among(a, K) \cup BT
      <3>1. i \in 1 .. la + lb /\ r[i] \in K BY <1>1, <2>1 DEF Among
      <3>2. CASE i <= la
        <4>1. i \in 1 .. la BY <3>1, <3>2
        <4> QED BY <1>1, <3>1, <4>1 DEF Among, la
      <3>3. CASE ~(i <= la)
        <4> DEFINE e == i - la
        <4>1. e \in 1 .. lb /\ la + e = i BY <1>1, <3>1, <3>3
        <4>2. b[e] \in K BY <1>1, <3>1, <4>1
        <4>3. e \in B BY <4>1, <4>2 DEF Among, lb
        <4> QED BY <4>1, <4>3
      <3> QED BY <3>2, <3>3
    <2>2. ASSUME NEW i \in Among(a, K) PROVE i \in Among(r, K)
      <3>1. i \in 1 .. la /\ a[i] \in K BY DEF Among, la
      <3>2. i \in 1 .. la + lb BY <1>1, <3>1
      <3> QED BY <1>1, <3>1, <3>2 DEF Among
    <2>3. ASSUME NEW i \in B PROVE la + i \in Among(r, K)
      <3>1. i \in 1 .. lb /\ b[i] \in K BY DEF Among, lb
      <3>2. la + i \in 1 .. la + lb BY <1>1, <3>1
      <3> QED BY <1>1, <3>1, <3>2 DEF Among
    <2> QED BY <2>1, <2>2, <2>3
  <1>5. Among(a, K) \cap BT = {}
    <2>1. \A i \in Among(a, K) : i \in Int /\ i <= la BY <1>1 DEF Among, la
    <2>2. \A i \in B : la + i > la BY <1>1, <1>2
    <2> QED BY <1>1, <1>2, <2>1, <2>2
  <1> HIDE DEF BT, B
  <1>6. n \in Nat /\ k \in Nat BY CountType DEF Counted
  <1>7. IsFiniteSet(Among(a, K) \cup BT) /\ Cardinality(Among(a, K) \cup BT) = n + k
    <2>1. IsFiniteSet(Among(a, K)) /\ IsFiniteSet(BT) /\ n = Cardinality(Among(a, K)) /\
          k = Cardinality(BT)
      BY <1>3 DEF Counted
    <2>2. Cardinality({}) = 0 BY FS_EmptySet
    <2>3. Cardinality(Among(a, K) \cup BT) =
          Cardinality(Among(a, K)) + Cardinality(BT) - Cardinality(Among(a, K) \cap BT)
          /\ IsFiniteSet(Among(a, K) \cup BT)
      BY <2>1, FS_Union
    <2>4. Cardinality(Among(a, K) \cap BT) = 0 BY <1>5, <2>2
    <2> DEFINE ca == Cardinality(Among(a, K))
               cb == Cardinality(BT)
               ci == Cardinality(Among(a, K) \cap BT)
               cu == Cardinality(Among(a, K) \cup BT)
    <2>5. cu = ca + cb - ci /\ ci = 0 /\ ca = n /\ cb = k BY <2>1, <2>3, <2>4
    <2> HIDE DEF ca, cb, ci, cu
    <2>6. cu = n + k BY <1>6, <2>5
    <2> QED BY <2>3, <2>6 DEF cu
  <1>8. Counted(n + k, Among(r, K)) BY <1>4, <1>7 DEF Counted
  <1> QED BY <1>6, <1>8 DEF r

(* A list of one task.                                                     *)
LEMMA SlotTask ==
  ASSUME NEW a \in Tasks, NEW ops, NEW z
  PROVE Counted(One(a.op \in ops /\ a.slot = z), Among(<<a>>, Ofs(ops, z)))
  <1>1. Counted(One(a \in Ofs(ops, z)), Among(<<a>>, Ofs(ops, z))) BY AmongOne
  <1>2. (a \in Ofs(ops, z)) = (a.op \in ops /\ a.slot = z) BY DEF Ofs
  <1> QED BY <1>1, <1>2, Zenon

(* A list of two tasks.                                                    *)
LEMMA SlotTaskTwo ==
  ASSUME NEW a \in Tasks, NEW b \in Tasks, NEW ops, NEW z
  PROVE Counted(One(a.op \in ops /\ a.slot = z) + One(b.op \in ops /\ b.slot = z),
          Among(<<a, b>>, Ofs(ops, z)))
  <1>1. Counted(One(a \in Ofs(ops, z)) + One(b \in Ofs(ops, z)), Among(<<a, b>>, Ofs(ops, z)))
    BY AmongTwo
  <1>2. (a \in Ofs(ops, z)) = (a.op \in ops /\ a.slot = z) BY DEF Ofs
  <1>3. (b \in Ofs(ops, z)) = (b.op \in ops /\ b.slot = z) BY DEF Ofs
  <1> QED BY <1>1, <1>2, <1>3, Zenon

(* The release of every layer of a composition or request.                 *)
LEMMA UnrefsIs ==
  ASSUME NEW X, \A l \in X : l.slot \in Slots, NEW q \in Seq(X), NEW u, u = Unrefs(q)
  PROVE /\ u \in Seq(Tasks) /\ Len(u) = Len(q) /\ Len(q) \in Nat
        /\ \A i \in 1 .. Len(u) : /\ i \in DOMAIN q /\ u[i].op = "unref" /\
                                     u[i].slot = q[i].slot
                                  /\ q[i].slot \in Slots /\ u[i] \in Tasks
        /\ \A z : Counted(Cardinality(IndicesOn(q, z)), Among(u, Ofs({"unref"}, z)))
        /\ \A ops, z : "unref" \notin ops => Counted(0, Among(u, Ofs(ops, z)))
        /\ \A z : Cardinality(IndicesOn(q, z)) \in Nat
  <1>1. DOMAIN q = 1 .. Len(q) /\ Len(q) \in Nat OBVIOUS
  <1>2. \A i \in DOMAIN q : q[i].slot \in Slots
    <2>1. \A i \in DOMAIN q : q[i] \in X OBVIOUS
    <2> QED BY <2>1
  <1>3. \A i \in DOMAIN q : /\ u[i] \in Tasks /\ u[i].op = "unref" /\ u[i].slot = q[i].slot
    <2> TAKE i \in DOMAIN q
    <2>1. u[i] = Task("unref", q[i].slot) BY DEF Unrefs
    <2>2. q[i].slot \in Slots BY <1>2
    <2> QED BY <2>1, <2>2, PlaceIs
  <1>4. u \in Seq(Tasks) /\ Len(u) = Len(q)
    <2>1. u \in [1 .. Len(q) -> Tasks] BY <1>1, <1>3 DEF Unrefs
    <2> QED BY <1>1, <2>1, MapIs
  <1>5. \A z : Among(u, Ofs({"unref"}, z)) = IndicesOn(q, z)
    BY <1>1, <1>3, <1>4 DEF Among, Ofs, IndicesOn
  <1>6. \A z : Counted(Cardinality(IndicesOn(q, z)), IndicesOn(q, z)) /\
        Cardinality(IndicesOn(q, z)) \in Nat
    BY IndicesCount
  <1>7. ASSUME NEW ops, NEW z, "unref" \notin ops PROVE Counted(0, Among(u, Ofs(ops, z)))
    <2>1. Among(u, Ofs(ops, z)) = {} BY <1>1, <1>3, <1>4, <1>7 DEF Among, Ofs
    <2> QED BY <2>1, CountNone
  <1>8. \A z : Counted(Cardinality(IndicesOn(q, z)), Among(u, Ofs({"unref"}, z))) BY <1>5, <1>6
  <1> QED BY <1>1, <1>2, <1>3, <1>4, <1>6, <1>7, <1>8

-----------------------------------------------------------------------------
(* Counting the owners of a surface.                                       *)
LEMMA SurfaceMore ==
  ASSUME ScanoutInv, NEW t, NEW m, NEW tasks, Stepped(todo, todo', t, m, tasks),
         NEW x \in Surfaces,
         NEW s, NEW k \in Int, \A z \in Slots :
           More(Owners(z), Owners(z)', IF z = s THEN k ELSE 0), s \in Slots \/ k = 0,
         NEW g, Counted(g, Above(todo, t, m, Ofs({"unown"}, <<x, 0>>))),
         NEW j, Counted(j, Among(tasks, Ofs({"unown"}, <<x, 0>>))),
         NEW n, n = srefs[x] +
           ((One(current' = x) - One(current = x)) + (j - g) +
             (IF SurfaceOf(s) = x THEN k ELSE 0))
  PROVE Counted(n, SurfaceOwners(x)')
  <1>0. todo \in Stacks /\ todo' \in Stacks /\ SlotSide BY InvIs, StacksTyped DEF Stepped
  <1> DEFINE F == [z \in Slots |-> Owners(z)]
             G == [z \in Slots |-> Owners(z)']
             H == [F EXCEPT ![s] = G[s]]
             I == {x} \X Pool
             wc == One(current' = x) - One(current = x)
             du == j - g
             kn == IF SurfaceOf(s) = x THEN k ELSE 0
  <1>1. \A z \in I : z \in Slots /\ SurfaceOf(z) = x BY DEF Slots, SurfaceOf
  <1>2. \A z \in Slots : SurfaceOf(z) = x => z \in I BY SlotIs
  <1>3. \A z \in Slots : F[z] = Owners(z) /\ G[z] = Owners(z)' OBVIOUS
  <1>4. \A z \in Slots : H[z] = IF z = s THEN G[z] ELSE F[z] OBVIOUS
  <1> HIDE DEF F, G, H, I
  <1>5. More(Nested(I, F), Nested(I, G), kn) /\ kn \in Int
    <2>1. CASE s \in I
      <3>1. s \in Slots /\ kn = k BY <1>1, <2>1
      <3>2. \A z \in I \ {s} : F[z] = H[z] BY <1>1, <1>4
      <3>3. More(F[s], H[s], k) BY <1>3, <1>4, <3>1
      <3>4. More(Nested(I, F), Nested(I, H), k) BY <2>1, <3>2, <3>3, NestedOne
      <3>5. \A z \in I : More(H[z], G[z], 0)
        <4> TAKE z \in I
        <4>1. z \in Slots BY <1>1
        <4>2. CASE z = s
          <5>1. H[z] = G[z] BY <1>4, <4>1, <4>2
          <5> QED BY <5>1, MoreSame
        <4>3. CASE z # s BY <1>3, <1>4, <4>1, <4>3
        <4> QED BY <4>2, <4>3
      <3>6. More(Nested(I, H), Nested(I, G), 0) BY <3>5, NestedSame
      <3>7. More(Nested(I, F), Nested(I, G), k + 0) BY <3>4, <3>6, MoreTrans
      <3> QED BY <3>1, <3>7
    <2>2. CASE s \notin I
      <3>1. \A z \in I : More(F[z], G[z], 0)
        <4> TAKE z \in I
        <4>1. z \in Slots /\ z # s BY <1>1, <2>2
        <4> QED BY <1>3, <4>1
      <3>2. More(Nested(I, F), Nested(I, G), 0) BY <3>1, NestedSame
      <3>3. kn = 0 BY <1>2, <2>2
      <3> QED BY <3>2, <3>3
    <2> QED BY <2>1, <2>2
  <1>6. wc \in Int /\ More(When(current = x, "window"), When(current' = x, "window"), wc)
    BY WhenMore
  <1>7. g \in Nat /\ j \in Nat /\
        More(StackSet(todo, Ofs({"unown"}, <<x, 0>>)),
          StackSet(todo', Ofs({"unown"}, <<x, 0>>)), j - g)
    BY StackSetMore
  <1>8. du \in Int BY <1>7
  <1>9. n = srefs[x] + (wc + du + kn) OBVIOUS
  <1>10. More(StackSet(todo, Ofs({"unown"}, <<x, 0>>)),
           StackSet(todo', Ofs({"unown"}, <<x, 0>>)), du)
    BY <1>7
  <1> HIDE DEF wc, du, kn
  <1>11. More(SurfaceOwnersOf(current, todo, F, x), SurfaceOwnersOf(current', todo', G, x),
           wc + du + kn)
    BY <1>5, <1>6, <1>8, <1>10, SurfaceOwnersMore DEF I
  <1>12. SurfaceOwners(x) = SurfaceOwnersOf(current, todo, F, x) BY <1>0, SurfaceOwnersNow DEF F
  <1>13. SurfaceOwners(x)' = SurfaceOwnersOf(current', todo', G, x)
    BY <1>0, SurfaceOwnersNext DEF G
  <1>14. Counted(srefs[x], SurfaceOwners(x)) BY <1>0 DEF SlotSide, SurfacesCounted
  <1>15. wc + du + kn \in Int BY <1>5, <1>6, <1>8
  <1>16. Counted(srefs[x] + (wc + du + kn), SurfaceOwners(x)')
    BY <1>11, <1>12, <1>13, <1>14, <1>15, MoreCounted
  <1> QED BY <1>9, <1>16

-----------------------------------------------------------------------------
(* A step that leaves requests and the commit alone.                       *)
LEMMA SlotStep ==
  ASSUME ScanoutInv, NEW A, NEW R, Touches(A, R), A \cap RequestSideOps = {},
         R \cap RequestSideOps = {},
         todo' \in Stacks, Shaped(todo'), TypeOK', UNCHANGED pushes, UNCHANGED winlock,
           UNCHANGED reqVars,
         UNCHANGED schedVars, UNCHANGED kmsVars, SlotSide', LayerFits', RenderedOK'
  PROVE ScanoutInv'
  <1>1. RequestSide' BY RequestSideKept
  <1> QED BY <1>1, InvNext

(* Tasks of a kind that the step leaves alone.                             *)
LEMMA KindSame ==
  ASSUME NEW A, NEW R, Touches(A, R), NEW op, op \notin A, op \notin R, NEW z
  PROVE StackSet(todo', Ofs({op}, z)) = StackSet(todo, Ofs({op}, z))
  <1>1. {op} \cap A = {} /\ {op} \cap R = {} OBVIOUS
  <1> QED BY <1>1, TouchesOfs

(* Other slots have what they had.                                         *)
LEMMA KindElsewhere ==
  ASSUME NEW t \in Threads, todo[t] # <<>>, NEW tasks,
         Stepped(todo, todo', t, Len(todo[t]) - 1, tasks),
         NEW ops, NEW z, Head(todo[t]).slot # z,
           \A i \in 1 .. Len(tasks) : tasks[i].slot # z \/ tasks[i].op \notin ops
  PROVE StackSet(todo', Ofs(ops, z)) = StackSet(todo, Ofs(ops, z))
  <1>1. todo \in Stacks BY DEF Stepped
  <1>2. Head(todo[t]) \notin Ofs(ops, z) BY DEF Ofs
  <1>3. Above(todo, t, Len(todo[t]) - 1, Ofs(ops, z)) = {} BY <1>1, <1>2, AbovePop
  <1>4. Among(tasks, Ofs(ops, z)) = {} BY DEF Among, Ofs
  <1> QED BY <1>3, <1>4, StackSetQuiet

(* A step that leaves the clean-up alone.                                  *)
LEMMA CleaningSame ==
  ASSUME NEW A, NEW R, Touches(A, R), A \cap {"reset", "clear"} = {},
         R \cap {"reset", "clear"} = {}
  PROVE \A z : Clearing(z)' = Clearing(z) /\ Resetting(z)' = Resetting(z)
  <1>1. {"reset"} \cap A = {} /\ {"reset"} \cap R = {} /\ {"clear"} \cap A = {} /\
        {"clear"} \cap R = {} OBVIOUS
  <1> QED BY <1>1, TouchesOfs DEF Clearing, Resetting

(* A slot is filled, or one in use gets one more owner.                    *)
LEMMA CleaningUp ==
  ASSUME CleaningOK, NEW A, NEW R, Touches(A, R), A \cap {"reset", "clear"} = {},
         R \cap {"reset", "clear"} = {},
         NEW s, \A z \in Slots : z # s => /\ nrefs'[z] = nrefs[z] /\ locked'[z] = locked[z]
                                         /\ owner'[z] = owner[z] /\
                                            completion'[z] = completion[z],
         s \in Slots => nrefs'[s] > 0 /\ locked'[s] /\ owner'[s] /\
           (nrefs[s] > 0 \/ ~locked[s]),
         TypeOK, TypeOK'
  PROVE CleaningOK'
  <1>2. \A z : Clearing(z)' = Clearing(z) /\ Resetting(z)' = Resetting(z)
    BY CleaningSame
  <1> SUFFICES ASSUME NEW z \in Slots
               PROVE /\ (Clearing(z) # {})' <=> (nrefs'[z] = 0 /\ locked'[z])
                     /\ Single(Clearing(z))'
                     /\ nrefs'[z] = 0 /\ (owner'[z] \/ completion'[z] # "none") =>
                        Resetting(z)' # {}
                     /\ nrefs'[z] > 0 => locked'[z] /\ owner'[z]
    BY DEF CleaningOK
  <1>3. /\ (Clearing(z) # {}) <=> (nrefs[z] = 0 /\ locked[z])
        /\ Single(Clearing(z))
        /\ nrefs[z] = 0 /\ (owner[z] \/ completion[z] # "none") => Resetting(z) # {}
        /\ nrefs[z] > 0 => locked[z] /\ owner[z]
    BY DEF CleaningOK
  <1>4. CASE z # s BY <1>2, <1>3, <1>4 DEF Single
  <1>5. CASE z = s
    <2>1. nrefs[z] \in Nat /\ nrefs'[z] \in Nat BY DEF TypeOK
    <2>2. Clearing(z) = {} BY <1>3, <1>5, <2>1
    <2> QED BY <1>2, <1>5, <2>1, <2>2 DEF Single
  <1> QED BY <1>4, <1>5

(* The clean-up of slots in a step that puts down none of it.              *)
LEMMA DeinitsKept ==
  ASSUME DeinitFits, NEW A, NEW R, Touches(A, R), "deinit" \notin A,
         \A x \in Surfaces : \/ srefs'[x] = srefs[x] /\ front'[x] = front[x] /\
                                life'[x] = life[x]
                             \/ srefs[x] # 0 \/ life[x] # "live",
         Shaped(todo)
  PROVE DeinitFits'
  <1> SUFFICES ASSUME NEW u \in Threads, NEW d \in Nat, Has(todo', u, d),
                      TaskAt(todo', u, d).op = "deinit"
               PROVE LET x == SurfaceOf(TaskAt(todo', u, d).slot)
                     IN  srefs'[x] = 0 /\ front'[x] = NoSlot /\ life'[x] = "live"
    BY DEF DeinitFits, Deinit1
  <1> DEFINE k == TaskAt(todo', u, d)
             x == SurfaceOf(k.slot)
  <1>1. Has(todo, u, d) /\ TaskAt(todo, u, d) = k BY WasThere
  <1>2. srefs[x] = 0 /\ front[x] = NoSlot /\ life[x] = "live" BY <1>1 DEF DeinitFits, Deinit1
  <1>3. x \in Surfaces
    <2>1. PlaceOK(k, u, d) BY <1>1 DEF Shaped
    <2>2. k.slot \in Surfaces \X {0} BY <2>1 DEF PlaceOK
    <2> QED BY <2>2, SlotIs
  <1> QED BY <1>2, <1>3

(* Stores may change as long as no presentation under way rests on them.   *)
LEMMA StoresKept ==
  ASSUME StoreFits, NEW A, NEW R, Touches(A, R), A \cap {"queue", "snapshot"} = {}, NEW s,
         \A z \in Slots : z # s => store'[z] = store[z], Shaped(todo),
         \A u \in Threads : \A d \in Nat :
             Has(todo, u, d) /\ TaskAt(todo, u, d).op \in {"queue", "snapshot"} =>
               TaskAt(todo, u, d).slot # s
  PROVE StoreFits'
  <1> SUFFICES ASSUME NEW u \in Threads, NEW d \in Nat, Has(todo', u, d),
                      TaskAt(todo', u, d).op \in {"queue", "snapshot"}
               PROVE LET k == TaskAt(todo', u, d)
                     IN  /\ k.op = "queue" => store'[k.slot] \in {"rendered", "presented"}
                         /\ k.op = "snapshot" => store'[k.slot] = "presented"
    BY DEF StoreFits, Store1
  <1> DEFINE k == TaskAt(todo', u, d)
  <1>1. Has(todo, u, d) /\ TaskAt(todo, u, d) = k BY WasThere
  <1>2. Store1(k) BY <1>1 DEF StoreFits
  <1>3. k.slot \in Slots /\ k.slot # s
    <2>1. PlaceOK(k, u, d) BY <1>1 DEF Shaped
    <2> QED BY <1>1, <2>1 DEF PlaceOK
  <1> HIDE DEF k
  <1>4. store'[k.slot] = store[k.slot] BY <1>3
  <1>5. /\ k.op = "queue" => store'[k.slot] \in {"rendered", "presented"}
        /\ k.op = "snapshot" => store'[k.slot] = "presented"
    BY <1>2, <1>4 DEF Store1
  <1> QED BY <1>5 DEF k

(* Only the raster thread fills, so a step of another keeps what is to be  *)
(* filled.                                                                 *)
LEMMA FillsIdle ==
  ASSUME ScanoutInv, NEW A, NEW R, Touches(A, R), "fill" \notin A, NEW t \in Threads,
         t = Raster,
         \A d \in Nat : Has(todo', t, d) => TaskAt(todo', t, d).op # "fill"
  PROVE FillFits'
  <1>1. Shaped(todo) BY InvIs
  <1> SUFFICES ASSUME NEW u \in Threads, NEW d \in Nat, Has(todo', u, d),
                      TaskAt(todo', u, d).op = "fill"
               PROVE FALSE
    BY DEF FillFits, Fill1
  <1>2. Has(todo, u, d) /\ TaskAt(todo, u, d) = TaskAt(todo', u, d) BY WasThere
  <1>3. PlaceOK(TaskAt(todo, u, d), u, d) BY <1>1, <1>2 DEF Shaped
  <1>4. u = Raster BY <1>2, <1>3 DEF PlaceOK
  <1> QED BY <1>4

-----------------------------------------------------------------------------
(* Nothing happens to the slots and surfaces but what the step says.       *)
LEMMA SlotsCountedIs ==
  ASSUME \A z \in Slots : Counted(nrefs'[z], Owners(z)' \cup Pins(z)') PROVE SlotsCounted'
  BY DEF SlotsCounted

(* The counts of surfaces, surface by surface.                             *)
LEMMA SurfacesCountedIs ==
  ASSUME \A x \in Surfaces : Counted(srefs'[x], SurfaceOwners(x)') PROVE SurfacesCounted'
  BY DEF SurfacesCounted

(* Owners that stay are no more and no fewer.                              *)
LEMMA OwnersStay ==
  ASSUME \A z \in Slots : Owners(z)' = Owners(z)
  PROVE \A z \in Slots : More(Owners(z), Owners(z)', 0)
  BY MoreSame

(* The surface of a slot in use, and what a counted surface is.            *)
LEMMA CountedLives ==
  ASSUME ScanoutInv, NEW x \in Surfaces, SurfaceOwners(x) # {}
  PROVE srefs[x] > 0 /\ srefs[x] \in Nat /\ life[x] = "live"
  <1>1. Counted(srefs[x], SurfaceOwners(x)) BY InvIs DEF SlotSide, SurfacesCounted
  <1>2. srefs[x] > 0 /\ srefs[x] \in Nat BY <1>1, CountFacts
  <1> QED BY <1>2, InvIs DEF SlotSide, LivesOK

(* The surface of the window lives.                                        *)
LEMMA WindowSurface ==
  ASSUME ScanoutInv
  PROVE current \in Surfaces /\ srefs[current] > 0 /\ srefs[current] \in Nat /\
        life[current] = "live"
  <1>1. current \in Surfaces BY InvIs DEF TypeOK
  <1>2. SurfaceOwners(current) # {} BY DEF SurfaceOwners, When
  <1> QED BY <1>1, <1>2, CountedLives

(* A slot that is free is nobody's.                                        *)
LEMMA FreeIs ==
  ASSUME ScanoutInv, NEW s \in Slots, ~locked[s]
  PROVE nrefs[s] = 0 /\ Owners(s) = {} /\ Pins(s) = {} /\ store[s] = "none" /\ ~InUse(s)
  <1>1. nrefs[s] \in Nat /\ todo \in Stacks BY InvIs, StacksTyped DEF TypeOK
  <1>2. nrefs[s] = 0 BY <1>1, InvIs DEF SlotSide, CleaningOK
  <1>3. Owners(s) = {} /\ Pins(s) = {}
    <2>1. Counted(nrefs[s], Owners(s) \cup Pins(s)) BY InvIs DEF SlotSide, SlotsCounted
    <2>2. Owners(s) \cup Pins(s) = {} BY <1>2, <2>1, CountFacts
    <2> QED BY <2>2
  <1>4. store[s] = "none" /\ ~InUse(s) BY <1>1, <1>3, OwnersHave DEF InUse
  <1> QED BY <1>2, <1>3, <1>4

(* A task to release a slot has it in use.                                 *)
LEMMA UsedIs ==
  ASSUME ScanoutInv, NEW s \in Slots
  PROVE /\ store[s] # "none" \/ InUse(s) => Owners(s) # {}
        /\ Owners(s) # {} => nrefs[s] > 0 /\ nrefs[s] \in Nat /\ srefs[SurfaceOf(s)] > 0 /\
           srefs[SurfaceOf(s)] \in Nat
                             /\ locked[s] /\ owner[s] /\ life[SurfaceOf(s)] = "live"
  <1>1. todo \in Stacks /\ nrefs[s] \in Nat BY InvIs, StacksTyped DEF TypeOK
  <1>2. store[s] # "none" \/ InUse(s) => Owners(s) # {} BY <1>1, OwnersHave DEF InUse
  <1>3. srefs[SurfaceOf(s)] \in Nat BY SlotIs, InvIs DEF TypeOK
  <1>4. ASSUME NEW o \in Owners(s)
        PROVE  nrefs[s] > 0 /\ srefs[SurfaceOf(s)] > 0 /\ locked[s] /\ owner[s] /\
               life[SurfaceOf(s)] = "live"
    BY OwnerKeeps
  <1> QED BY <1>1, <1>2, <1>3, <1>4

(* The GPU finishing keeps the invariant.                                  *)
LEMMA GpuDoneStep == ASSUME ScanoutInv, NEW s \in Slots, GpuDone(s) PROVE ScanoutInv'
  <1>1. /\ gpu' \subseteq gpu /\ UNCHANGED slotVars /\ UNCHANGED surfVars /\ UNCHANGED sem /\
           UNCHANGED winVars
        /\ UNCHANGED reqVars /\ UNCHANGED schedVars /\ UNCHANGED kmsVars /\ UNCHANGED todo
    BY DEF GpuDone
  <1>2. TypeOK /\ LayerFits /\ RenderedOK /\ Shaped(todo) BY InvIs
  <1>3. UNCHANGED composition /\ UNCHANGED building /\ UNCHANGED winlock /\ UNCHANGED pushes /\
        UNCHANGED layers
        /\ UNCHANGED screen /\ UNCHANGED store /\ UNCHANGED completion
    BY <1>1 DEF winVars, reqVars, kmsVars, slotVars
  <1>4. Touches({}, {}) BY <1>1, NoneTouched
  <1>5. todo' \in Stacks BY <1>1, <1>2, StacksTyped
  <1>6. TypeOK'
    BY <1>1, <1>2 DEF TypeOK, slotVars, surfVars, winVars, reqVars, schedVars, kmsVars
  <1>7. RenderedOK' BY <1>1, <1>2, <1>3 DEF RenderedOK, InUse, ScanoutAfterRender
  <1>8. LayerFits' BY <1>2, <1>3, <1>4, FitsKept
  <1>9. SlotSide' BY <1>1, <1>3, <1>4, <1>5, SlotSideKept
  <1>10. Shaped(todo') BY <1>1, <1>2
  <1> QED BY <1>1, <1>3, <1>4, <1>5, <1>6, <1>7, <1>8, <1>9, <1>10, SlotStep

(* Flutter's request for a backing store keeps the invariant.              *)
LEMMA CreateBackingStoreStep == ASSUME ScanoutInv, CreateBackingStore PROVE ScanoutInv'
  <1> DEFINE k == Call("fill")
             tasks == <<k>>
  <1>1. /\ Idle(Raster) /\ fills < MaxFills /\ todo' = [todo EXCEPT ![Raster] = tasks]
        /\ UNCHANGED slotVars /\ UNCHANGED surfVars /\ UNCHANGED gpuVars /\ UNCHANGED winVars /\
           UNCHANGED reqVars
        /\ UNCHANGED schedVars /\ UNCHANGED kmsVars
    BY DEF CreateBackingStore
  <1>2. Raster \in Threads BY ThreadsAssumption
  <1>3. TypeOK /\ LayerFits /\ RenderedOK /\ Shaped(todo) /\ SlotSide BY InvIs
  <1>4. k \in Tasks /\ k.op = "fill" BY TaskIs DEF Ops
  <1>5. PlaceOK(k, Raster, 0) BY <1>4 DEF PlaceOK
  <1> HIDE DEF k
  <1>6. tasks \in Seq(Tasks) /\ Len(tasks) = 1 /\ tasks[1] = k BY <1>4, ListIs
  <1> HIDE DEF tasks
  <1>7. \A i \in 1 .. Len(tasks) : i = 1 /\ tasks[i] = k BY <1>6
  <1>8. todo \in Stacks /\ todo' \in Stacks /\ Stepped(todo, todo', Raster, 0, tasks) /\
        Touches({"fill"}, {})
    <2>1. \A i \in 1 .. Len(tasks) : tasks[i].op \in {"fill"} BY <1>4, <1>7
    <2> QED BY <1>1, <1>2, <1>6, <2>1, StartIs
  <1>9. Shaped(todo')
    <2>1. \A i \in 1 .. Len(tasks) : PlaceOK(tasks[i], Raster, 0 + Len(tasks) - i) /\
          tasks[i].op \in PlainOps
      <3>1. 0 + Len(tasks) - 1 = 0 BY <1>6
      <3>2. "fill" \in PlainOps BY DEF PlainOps
      <3> QED BY <1>4, <1>5, <1>7, <3>1, <3>2
    <2> QED BY <1>3, <1>8, <2>1, ShapedPlain
  <1>10. UNCHANGED composition /\ UNCHANGED building /\ UNCHANGED winlock /\ UNCHANGED pushes /\
         UNCHANGED layers
         /\ UNCHANGED screen
    BY <1>1 DEF winVars, reqVars, kmsVars
  <1>11. UNCHANGED locked /\ UNCHANGED owner /\ UNCHANGED nrefs /\ UNCHANGED store /\
         UNCHANGED completion
         /\ UNCHANGED image /\ UNCHANGED fills /\ UNCHANGED life /\ UNCHANGED srefs /\
            UNCHANGED front /\ UNCHANGED current
    BY <1>1 DEF slotVars, surfVars
  <1>12. TypeOK'
    BY <1>1, <1>3, <1>8, TypedNext DEF TypeOK, slotVars, surfVars, gpuVars, winVars,
       reqVars, schedVars, kmsVars
  <1>13. RenderedOK' BY <1>1, <1>10, RenderedStays
  <1>14. LayerFits' BY <1>3, <1>8, <1>10, FitsKept
  <1>15. FillFits' BY <1>1, <1>11 DEF FillFits, Fill1
  <1>16. StoreFits' /\ DeinitFits' /\ DeinitsDiffer'
    BY <1>3, <1>8, <1>11, FitsKept, DifferKept DEF SlotSide
  <1>17. \A z \in Slots : Owners(z)' = Owners(z) BY <1>8, <1>10, <1>11, OwnersKept
  <1>18. \A z \in Slots : Pins(z)' = Pins(z) BY <1>8, <1>11, PinsKept
  <1>19. SlotsCounted' BY <1>3, <1>11, <1>17, <1>18, SlotsKept DEF SlotSide
  <1>20. SurfacesCounted' BY <1>3, <1>8, <1>11, <1>17, SurfacesKept DEF SlotSide
  <1>21. CleaningOK' BY <1>3, <1>8, <1>11, CleaningKept DEF SlotSide
  <1>22. LivesOK' /\ ImagesStable' BY <1>3, <1>10, <1>11, LivesKept, ImagesKept DEF SlotSide
  <1>23. SlotSide' BY <1>15, <1>16, <1>19, <1>20, <1>21, <1>22 DEF SlotSide
  <1> QED BY <1>1, <1>8, <1>9, <1>10, <1>12, <1>13, <1>14, <1>23, SlotStep DEF RequestSideOps

(* A presentation under way is the raster thread's.                        *)
LEMMA RasterOnly ==
  ASSUME ScanoutInv, Idle(Raster), NEW u \in Threads, NEW d \in Nat, Has(todo, u, d)
  PROVE TaskAt(todo, u, d).op \notin {"fill", "push", "queue", "snapshot"}
  <1>1. PlaceOK(TaskAt(todo, u, d), u, d) BY InvIs DEF Shaped
  <1> SUFFICES ASSUME TaskAt(todo, u, d).op \in {"fill", "push", "queue", "snapshot"}
               PROVE  FALSE OBVIOUS
  <1>2. u = Raster BY <1>1 DEF PlaceOK
  <1> QED BY <1>2 DEF Has, Idle

(* Rendering a frame keeps the invariant.                                  *)
LEMMA RenderStep == ASSUME ScanoutInv, NEW s \in Slots, Render(s) PROVE ScanoutInv'
  <1>1. /\ Idle(Raster) /\ store[s] = "empty" /\ store' = [store EXCEPT ![s] = "rendered"] /\
           gpu' = gpu \cup {s}
        /\ UNCHANGED locked /\ UNCHANGED owner /\ UNCHANGED nrefs /\ UNCHANGED completion /\
           UNCHANGED image
        /\ UNCHANGED fills /\ UNCHANGED surfVars /\ UNCHANGED sem /\ UNCHANGED winVars
        /\ UNCHANGED reqVars /\ UNCHANGED schedVars /\ UNCHANGED kmsVars /\ UNCHANGED todo
    BY DEF Render
  <1>2. TypeOK /\ LayerFits /\ RenderedOK /\ Shaped(todo) /\ SlotSide BY InvIs
  <1>3. UNCHANGED composition /\ UNCHANGED building /\ UNCHANGED winlock /\ UNCHANGED pushes /\
        UNCHANGED layers
        /\ UNCHANGED screen /\ UNCHANGED life /\ UNCHANGED srefs /\ UNCHANGED front /\
           UNCHANGED current
    BY <1>1 DEF winVars, reqVars, kmsVars, surfVars
  <1>4. Touches({}, {}) BY <1>1, NoneTouched
  <1>5. todo \in Stacks /\ todo' \in Stacks BY <1>1, <1>2, StacksTyped
  <1>6. store' \in [Slots -> {"none", "empty", "rendered", "presented"}] /\
        store'[s] = "rendered"
        /\ \A z \in Slots : z # s => store'[z] = store[z]
    BY <1>1, <1>2 DEF TypeOK
  <1>7. TypeOK'
    BY <1>1, <1>2, <1>6 DEF TypeOK, surfVars, winVars, reqVars, schedVars, kmsVars
  <1>8. ~InUse(s)
    <2>1. InUse(s) => store[s] \in {"none", "presented"} BY <1>2 DEF RenderedOK
    <2> QED BY <1>1, <2>1
  <1>9. completion[s] = "none" BY <1>1, <1>2 DEF RenderedOK
  <1>10. RenderedOK'
    <2>1. \A z : InUse(z)' <=> InUse(z) BY <1>3 DEF InUse
    <2>2. \A r \in Requests : \A i \in DOMAIN layers[r] : layers[r][i].slot # s
      BY <1>8 DEF InUse
    <2>3. \A z : z # s /\ z \notin gpu => z \notin gpu' BY <1>1
    <2>4. \A z \in Slots : /\ InUse(z)' => store'[z] \in {"none", "presented"}
                           /\ completion'[z] = "done" => z \notin gpu'
                           /\ store'[z] \in {"empty", "rendered"} => completion'[z] = "none"
      BY <1>1, <1>2, <1>6, <1>8, <1>9, <2>1, <2>3 DEF RenderedOK
    <2>5. \A r \in Requests : \A i \in DOMAIN layers'[r] :
              /\ ~layers'[r][i].fence => layers'[r][i].slot \notin gpu'
              /\ Legacy => ~layers'[r][i].fence
      BY <1>2, <1>3, <2>2, <2>3 DEF RenderedOK
    <2>6. ScanoutAfterRender'
      <3>1. ScanoutAfterRender BY <1>2 DEF RenderedOK
      <3>2. screen # 0 => screen \in Requests BY <1>2 DEF TypeOK, Requests
      <3> QED BY <1>1, <1>3, <2>2, <2>3, <3>1, <3>2 DEF ScanoutAfterRender
    <2> QED BY <2>4, <2>5, <2>6 DEF RenderedOK
  <1>11. LayerFits' BY <1>2, <1>3, <1>4, FitsKept
  <1>12. FillFits' /\ DeinitFits' /\ DeinitsDiffer'
    BY <1>1, <1>2, <1>3, <1>4, FitsKept, DifferKept DEF SlotSide
  <1>13. StoreFits'
    <2>1. StoreFits BY <1>2 DEF SlotSide
    <2>2. \A u \in Threads : \A d \in Nat :
             Has(todo, u, d) /\ TaskAt(todo, u, d).op \in {"queue", "snapshot"} =>
               TaskAt(todo, u, d).slot # s
      BY <1>1, RasterOnly
    <2> QED BY <1>2, <1>4, <1>6, <2>1, <2>2, StoresKept
  <1>14. \A z \in Slots : Owners(z)' = Owners(z)
    <2>1. \A z \in Slots : (store'[z] # "none") <=> (store[z] # "none") BY <1>1, <1>6
    <2> QED BY <1>3, <1>4, <1>5, <2>1, OwnersKept
  <1>15. \A z \in Slots : Pins(z)' = Pins(z) BY <1>3, <1>4, <1>5, PinsKept
  <1>16. SlotsCounted' BY <1>1, <1>2, <1>14, <1>15, SlotsKept DEF SlotSide
  <1>17. SurfacesCounted' BY <1>2, <1>3, <1>4, <1>5, <1>14, SurfacesKept DEF SlotSide
  <1>18. CleaningOK' BY <1>1, <1>2, <1>4, CleaningKept DEF SlotSide
  <1>19. LivesOK' /\ ImagesStable' BY <1>1, <1>2, <1>3, LivesKept, ImagesKept DEF SlotSide
  <1>20. SlotSide' BY <1>12, <1>13, <1>16, <1>17, <1>18, <1>19 DEF SlotSide
  <1>21. Shaped(todo') BY <1>1, <1>2
  <1> QED BY <1>1, <1>3, <1>4, <1>5, <1>7, <1>10, <1>11, <1>20, <1>21, SlotStep

-----------------------------------------------------------------------------
(* Resetting a released slot keeps the invariant.                          *)
LEMMA ResetSlotStep == ASSUME ScanoutInv, NEW t \in Threads, ResetSlot(t) PROVE ScanoutInv'
  <1> DEFINE s == Head(todo[t]).slot
             m == Len(todo[t]) - 1
  <1>1. /\ At(t, "reset") /\ completion' = [completion EXCEPT ![s] = "none"] /\
           owner' = [owner EXCEPT ![s] = FALSE]
        /\ Then(t, <<>>)
        /\ UNCHANGED locked /\ UNCHANGED nrefs /\ UNCHANGED store /\ UNCHANGED image
        /\ UNCHANGED fills /\ UNCHANGED surfVars /\ UNCHANGED gpuVars /\ UNCHANGED winVars
        /\ UNCHANGED reqVars /\ UNCHANGED schedVars /\ UNCHANGED kmsVars
    BY DEF ResetSlot
  <1>2. TypeOK /\ LayerFits /\ RenderedOK /\ Shaped(todo) /\ SlotSide BY InvIs
  <1>3. UNCHANGED composition /\ UNCHANGED building /\ UNCHANGED winlock /\ UNCHANGED pushes /\
        UNCHANGED layers
        /\ UNCHANGED screen /\ UNCHANGED life /\ UNCHANGED srefs /\ UNCHANGED front /\
           UNCHANGED current
        /\ UNCHANGED gpu /\ UNCHANGED sem
    BY <1>1 DEF winVars, reqVars, kmsVars, surfVars, gpuVars
  <1>4. \A i \in 1 .. Len(<<>>) : <<>>[i].op \in {} BY ListIs
  <1>5. /\ todo \in Stacks /\ todo' \in Stacks /\ todo[t] # <<>> /\ Head(todo[t]).op = "reset"
        /\ Stepped(todo, todo', t, m, <<>>) /\ Touches({}, {"reset"})
    BY <1>1, <1>4, ListIs, PopIs
  <1>6. Shaped(todo') BY <1>2, <1>5, ListIs, ShapedPlain
  <1>7. s \in Slots /\ m \in Nat /\ Clearing(s) # {}
    <2>1. LET k == Head(todo[t])
          IN  m \in Nat /\ Has(todo, t, m) /\ TaskAt(todo, t, m) = k /\ PlaceOK(k, t, m) /\
            BelowOK(todo, t, m)
      BY <1>5, TopOK
    <2>2. s \in Slots BY <1>5, <2>1 DEF PlaceOK
    <2>3. m >= 1 /\ TaskAt(todo, t, m - 1).op = "clear" /\ TaskAt(todo, t, m - 1).slot = s
      BY <1>5, <2>1 DEF BelowOK
    <2> DEFINE d == m - 1
    <2>4. d \in Nat /\ Has(todo, t, d) BY <2>1, <2>3 DEF Has
    <2>5. TaskAt(todo, t, d) \in Ofs({"clear"}, s)
      <3>1. TaskAt(todo, t, d) \in Tasks BY <1>5, <2>4, StackType
      <3> QED BY <2>3, <3>1 DEF Ofs
    <2>6. Tok(t, d) \in Clearing(s) BY <2>4, <2>5, TokIn DEF Clearing
    <2> QED BY <2>1, <2>2, <2>6
  <1> HIDE DEF s, m
  <1>8. nrefs[s] = 0 /\ locked[s] BY <1>2, <1>7 DEF SlotSide, CleaningOK
  <1>9. /\ completion' \in [Slots -> {"none", "fence", "done"}] /\ owner' \in [Slots -> BOOLEAN]
        /\ completion'[s] = "none" /\ owner'[s] = FALSE
        /\ \A z \in Slots : z # s => completion'[z] = completion[z] /\ owner'[z] = owner[z]
    BY <1>1, <1>2, <1>7 DEF TypeOK
  <1>10. TypeOK'
    BY <1>1, <1>2, <1>5, <1>9, TypedNext DEF TypeOK, surfVars, gpuVars, winVars, reqVars,
       schedVars, kmsVars
  <1>11. RenderedOK'
    <2>1. \A z \in Slots : completion'[z] \in {completion[z], "none"} BY <1>9
    <2> QED BY <1>1, <1>2, <1>3, <2>1 DEF RenderedOK, InUse, ScanoutAfterRender
  <1>12. LayerFits' BY <1>2, <1>3, <1>5, FitsKept
  <1>13. FillFits' /\ StoreFits' /\ DeinitFits' /\ DeinitsDiffer'
    BY <1>1, <1>2, <1>3, <1>5, FitsKept, DifferKept DEF SlotSide
  <1>14. \A z \in Slots : Owners(z)' = Owners(z) BY <1>1, <1>3, <1>5, OwnersKept
  <1>15. \A z \in Slots : Pins(z)' = Pins(z) BY <1>3, <1>5, PinsKept
  <1>16. SlotsCounted' BY <1>1, <1>2, <1>14, <1>15, SlotsKept DEF SlotSide
  <1>17. SurfacesCounted' BY <1>2, <1>3, <1>5, <1>14, SurfacesKept DEF SlotSide
  <1>18. CleaningOK'
    <2> SUFFICES ASSUME NEW z \in Slots
                 PROVE /\ (Clearing(z) # {})' <=> (nrefs'[z] = 0 /\ locked'[z])
                       /\ Single(Clearing(z))'
                       /\ nrefs'[z] = 0 /\ (owner'[z] \/ completion'[z] # "none") =>
                          Resetting(z)' # {}
                       /\ nrefs'[z] > 0 => locked'[z] /\ owner'[z]
      BY DEF CleaningOK
    <2> DEFINE A == {}
               R == {"reset"}
    <2>1. "clear" \notin A /\ "clear" \notin R /\ Touches(A, R) BY <1>5
    <2> HIDE DEF A, R
    <2>s. StackSet(todo', Ofs({"clear"}, z)) = StackSet(todo, Ofs({"clear"}, z))
      BY <2>1, KindSame
    <2>2. Clearing(z)' = Clearing(z) BY <2>s DEF Clearing
    <2>3. /\ (Clearing(z) # {}) <=> (nrefs[z] = 0 /\ locked[z])
          /\ Single(Clearing(z))
          /\ nrefs[z] = 0 /\ (owner[z] \/ completion[z] # "none") => Resetting(z) # {}
          /\ nrefs[z] > 0 => locked[z] /\ owner[z]
      BY <1>2 DEF SlotSide, CleaningOK
    <2>4. CASE z = s BY <1>1, <1>8, <1>9, <2>2, <2>3, <2>4 DEF Single
    <2>5. CASE z # s
      <3>1. Resetting(z)' = Resetting(z)
        <4>1. Head(todo[t]).slot # z BY <2>5 DEF s
        <4>2. \A i \in 1 .. Len(<<>>) : <<>>[i].slot # z \/ <<>>[i].op \notin {"reset"}
          BY ListIs
        <4>3. Stepped(todo, todo', t, Len(todo[t]) - 1, <<>>) BY <1>5 DEF m
        <4> QED BY <1>5, <4>1, <4>2, <4>3, KindElsewhere DEF Resetting
      <3> QED BY <1>1, <1>9, <2>2, <2>3, <2>5, <3>1 DEF Single
    <2> QED BY <2>4, <2>5
  <1>19. LivesOK' /\ ImagesStable' BY <1>1, <1>2, <1>3, LivesKept, ImagesKept DEF SlotSide
  <1>20. SlotSide' BY <1>13, <1>16, <1>17, <1>18, <1>19 DEF SlotSide
  <1> QED BY <1>1, <1>3, <1>5, <1>6, <1>10, <1>11, <1>12, <1>20, SlotStep DEF RequestSideOps

(* Clearing a released slot keeps the invariant.                           *)
LEMMA ClearSlotStep == ASSUME ScanoutInv, NEW t \in Threads, ClearSlot(t) PROVE ScanoutInv'
  <1> DEFINE s == Head(todo[t]).slot
             m == Len(todo[t]) - 1
             A == {}
             R == {"clear"}
  <1>1. /\ At(t, "clear") /\ locked' = [locked EXCEPT ![s] = FALSE] /\ Then(t, <<>>)
        /\ UNCHANGED owner /\ UNCHANGED nrefs /\ UNCHANGED store /\ UNCHANGED completion /\
           UNCHANGED image
        /\ UNCHANGED fills /\ UNCHANGED surfVars /\ UNCHANGED gpuVars /\ UNCHANGED winVars
        /\ UNCHANGED reqVars /\ UNCHANGED schedVars /\ UNCHANGED kmsVars
    BY DEF ClearSlot
  <1>2. TypeOK /\ LayerFits /\ RenderedOK /\ Shaped(todo) /\ SlotSide BY InvIs
  <1>3. UNCHANGED composition /\ UNCHANGED building /\ UNCHANGED winlock /\ UNCHANGED pushes /\
        UNCHANGED layers
        /\ UNCHANGED screen /\ UNCHANGED life /\ UNCHANGED srefs /\ UNCHANGED front /\
           UNCHANGED current
        /\ UNCHANGED gpu /\ UNCHANGED sem
    BY <1>1 DEF winVars, reqVars, kmsVars, surfVars, gpuVars
  <1>4. \A i \in 1 .. Len(<<>>) : <<>>[i].op \in {} BY ListIs
  <1>5. /\ todo \in Stacks /\ todo' \in Stacks /\ todo[t] # <<>> /\ Head(todo[t]).op = "clear"
        /\ Stepped(todo, todo', t, m, <<>>) /\ Touches(A, R)
    BY <1>1, <1>4, ListIs, PopIs
  <1>6. Shaped(todo') BY <1>2, <1>5, ListIs, ShapedPlain
  <1>7. s \in Slots /\ m \in Nat /\ Tok(t, m) \in Clearing(s) /\ Has(todo, t, m)
    <2>1. LET k == Head(todo[t])
          IN  k \in Tasks /\ m \in Nat /\ Has(todo, t, m) /\ TaskAt(todo, t, m) = k /\
            PlaceOK(k, t, m)
      BY <1>5, TopOK
    <2>2. s \in Slots BY <1>5, <2>1 DEF PlaceOK
    <2>5. TaskAt(todo, t, m) \in Ofs({"clear"}, s) BY <1>5, <2>1 DEF Ofs
    <2>6. Tok(t, m) \in Clearing(s) BY <2>1, <2>5, TokIn DEF Clearing
    <2> QED BY <2>1, <2>2, <2>6
  <1>v. A \cap RequestSideOps = {} /\ R \cap RequestSideOps = {} /\ "unref" \notin A \cup R /\
        "unpin" \notin A \cup R
        /\ "unown" \notin A \cup R /\ "fill" \notin A /\ A \cap {"queue", "snapshot"} = {} /\
           "deinit" \notin A
        /\ "reset" \notin A /\ "reset" \notin R /\ "present" \notin A
    BY DEF RequestSideOps
  <1> HIDE DEF s, m, A, R
  <1>8. nrefs[s] = 0 /\ locked[s] BY <1>2, <1>7 DEF SlotSide, CleaningOK
  <1>9. /\ locked' \in [Slots -> BOOLEAN] /\ locked'[s] = FALSE
        /\ \A z \in Slots : z # s => locked'[z] = locked[z]
    BY <1>1, <1>2, <1>7 DEF TypeOK
  <1>10. TypeOK'
    BY <1>1, <1>2, <1>5, <1>9, TypedNext DEF TypeOK, surfVars, gpuVars, winVars, reqVars,
       schedVars, kmsVars
  <1>11. RenderedOK' BY <1>1, <1>2, <1>3, RenderedKept
  <1>12. LayerFits' BY <1>2, <1>3, <1>5, <1>v, FitsKept
  <1>13. FillFits' /\ StoreFits' /\ DeinitFits' /\ DeinitsDiffer'
    BY <1>1, <1>2, <1>3, <1>5, <1>v, FitsKept, DifferKept DEF SlotSide
  <1>14. \A z \in Slots : Owners(z)' = Owners(z) BY <1>1, <1>3, <1>5, <1>v, OwnersKept
  <1>15. \A z \in Slots : Pins(z)' = Pins(z) BY <1>3, <1>5, <1>v, PinsKept
  <1>16. SlotsCounted' BY <1>1, <1>2, <1>14, <1>15, SlotsKept DEF SlotSide
  <1>17. SurfacesCounted' BY <1>2, <1>3, <1>5, <1>v, <1>14, SurfacesKept DEF SlotSide
  <1>18. CleaningOK'
    <2> SUFFICES ASSUME NEW z \in Slots
                 PROVE /\ (Clearing(z) # {})' <=> (nrefs'[z] = 0 /\ locked'[z])
                       /\ Single(Clearing(z))'
                       /\ nrefs'[z] = 0 /\ (owner'[z] \/ completion'[z] # "none") =>
                          Resetting(z)' # {}
                       /\ nrefs'[z] > 0 => locked'[z] /\ owner'[z]
      BY DEF CleaningOK
    <2>s. StackSet(todo', Ofs({"reset"}, z)) = StackSet(todo, Ofs({"reset"}, z))
      BY <1>5, <1>v, KindSame
    <2>2. Resetting(z)' = Resetting(z) BY <2>s DEF Resetting
    <2>3. /\ (Clearing(z) # {}) <=> (nrefs[z] = 0 /\ locked[z])
          /\ Single(Clearing(z))
          /\ nrefs[z] = 0 /\ (owner[z] \/ completion[z] # "none") => Resetting(z) # {}
          /\ nrefs[z] > 0 => locked[z] /\ owner[z]
      BY <1>2 DEF SlotSide, CleaningOK
    <2>4. CASE z = s
      <3>1. StackSet(todo', Ofs({"clear"}, s)) = {}
        <4> SUFFICES ASSUME NEW y \in StackSet(todo', Ofs({"clear"}, s)) PROVE FALSE OBVIOUS
        <4>1. Above(todo, t, m, Ofs({"clear"}, s)) = {m}
          <5>1. Counted(One(Head(todo[t]).op \in {"clear"} /\ Head(todo[t]).slot = s),
                  Above(todo, t, m, Ofs({"clear"}, s)))
            BY <1>5, SlotTop DEF m
          <5>2. m \in Above(todo, t, m, Ofs({"clear"}, s))
            <6>1. TaskAt(todo, t, m) \in Ofs({"clear"}, s)
              BY <1>5, <1>7, TopIs, TokIn DEF Clearing
            <6>2. m >= m BY <1>7
            <6> QED BY <1>7, <6>1, <6>2 DEF Above
          <5>3. One(Head(todo[t]).op \in {"clear"} /\ Head(todo[t]).slot = s) = 1
            BY <1>5 DEF One, s
          <5>4. Single(Above(todo, t, m, Ofs({"clear"}, s))) BY <5>1, <5>3, CountFacts
          <5> QED BY <5>2, <5>4 DEF Single
        <4>2. Among(<<>>, Ofs({"clear"}, s)) = {} BY DEF Among
        <4>3. y \in StackSet(todo, Ofs({"clear"}, s)) /\ y # Tok(t, m)
          BY <1>5, <4>1, <4>2, StackSetStep
        <4> QED BY <1>7, <2>3, <2>4, <4>3 DEF Single, Clearing
      <3>2. Clearing(z)' = {} BY <2>4, <3>1 DEF Clearing
      <3> QED BY <1>1, <1>8, <1>9, <2>2, <2>3, <2>4, <3>2 DEF Single
    <2>5. CASE z # s
      <3>1. Clearing(z)' = Clearing(z)
        <4>1. Head(todo[t]).slot # z BY <2>5 DEF s
        <4>2. \A i \in 1 .. Len(<<>>) : <<>>[i].slot # z \/ <<>>[i].op \notin {"clear"}
          BY ListIs
        <4>3. Stepped(todo, todo', t, Len(todo[t]) - 1, <<>>) BY <1>5 DEF m
        <4> QED BY <1>5, <4>1, <4>2, <4>3, KindElsewhere DEF Clearing
      <3> QED BY <1>1, <1>9, <2>2, <2>3, <2>5, <3>1 DEF Single
    <2> QED BY <2>4, <2>5
  <1>l. LivesOK' BY <1>2, <1>3, LivesKept DEF SlotSide
  <1>19. ImagesStable'
    <2>1. ImagesStable BY <1>2 DEF SlotSide
    <2>2. ~InUse(s)
      <3>1. Owners(s) # {} => nrefs[s] > 0 BY <1>7, UsedIs
      <3>2. InUse(s) => Owners(s) # {} BY <1>7, UsedIs
      <3> QED BY <1>8, <3>1, <3>2
    <2>3. \A seq \in {composition, building} \cup {layers[r] : r \in Requests} :
          \A i \in DOMAIN seq : seq[i].slot # s
      BY <2>2 DEF InUse
    <2>4. \A z : z # s => locked'[z] = locked[z] BY <1>1
    <2> QED BY <1>1, <1>3, <2>1, <2>3, <2>4 DEF ImagesStable
  <1>20. SlotSide' BY <1>13, <1>16, <1>17, <1>18, <1>l, <1>19 DEF SlotSide
  <1> QED BY <1>1, <1>3, <1>5, <1>6, <1>v, <1>10, <1>11, <1>12, <1>20, SlotStep

-----------------------------------------------------------------------------
(* The end of a surface keeps the invariant.                               *)
LEMMA SurfaceDeinitStep ==
  ASSUME ScanoutInv, NEW t \in Threads, SurfaceDeinit(t)
  PROVE  ScanoutInv'
  <1> DEFINE x == SurfaceOf(Head(todo[t]).slot)
             m == Len(todo[t]) - 1
             A == {}
             R == {"deinit"}
  <1>1. /\ At(t, "deinit") /\ life' = [life EXCEPT ![x] = "freed"] /\ Then(t, <<>>)
        /\ \/ gpu' = {} /\ sem' = [sem EXCEPT ![x] = NoSemaphore]
           \/ UNCHANGED gpuVars
        /\ UNCHANGED slotVars /\ UNCHANGED srefs /\ UNCHANGED front /\ UNCHANGED current /\
           UNCHANGED winVars
        /\ UNCHANGED reqVars /\ UNCHANGED schedVars /\ UNCHANGED kmsVars
    BY DEF SurfaceDeinit
  <1>2. TypeOK /\ LayerFits /\ RenderedOK /\ Shaped(todo) /\ SlotSide BY InvIs
  <1>3. UNCHANGED composition /\ UNCHANGED building /\ UNCHANGED winlock /\ UNCHANGED pushes /\
        UNCHANGED layers
        /\ UNCHANGED screen /\ UNCHANGED store /\ UNCHANGED completion /\ UNCHANGED fills
        /\ UNCHANGED locked /\ UNCHANGED owner /\ UNCHANGED nrefs /\ UNCHANGED image
    BY <1>1 DEF winVars, reqVars, kmsVars, slotVars
  <1>4. \A i \in 1 .. Len(<<>>) : <<>>[i].op \in {} BY ListIs
  <1>5. /\ todo \in Stacks /\ todo' \in Stacks /\ todo[t] # <<>> /\ Head(todo[t]).op = "deinit"
        /\ Stepped(todo, todo', t, m, <<>>) /\ Touches(A, R)
    BY <1>1, <1>4, ListIs, PopIs
  <1>6. Shaped(todo') BY <1>2, <1>5, ListIs, ShapedPlain
  <1>7. /\ x \in Surfaces /\ m \in Nat /\ Has(todo, t, m) /\
           TaskAt(todo, t, m) \in Ofs({"deinit"}, <<x, 0>>)
        /\ srefs[x] = 0 /\ front[x] = NoSlot /\ life[x] = "live"
    <2>1. LET k == Head(todo[t])
          IN  k \in Tasks /\ m \in Nat /\ Has(todo, t, m) /\ TaskAt(todo, t, m) = k /\
            PlaceOK(k, t, m) /\ Deinit1(k)
      BY <1>5, TopOK
    <2>2. Head(todo[t]).slot \in Surfaces \X {0} BY <1>5, <2>1 DEF PlaceOK
    <2>3. x \in Surfaces /\ Head(todo[t]).slot = <<x, 0>> BY <2>2, SlotIs
    <2>4. TaskAt(todo, t, m) \in Ofs({"deinit"}, <<x, 0>>) BY <1>5, <2>1, <2>3 DEF Ofs
    <2> QED BY <1>5, <2>1, <2>3, <2>4 DEF Deinit1
  <1>v. A \cap RequestSideOps = {} /\ R \cap RequestSideOps = {} /\ "unref" \notin A \cup R /\
        "unpin" \notin A \cup R
        /\ "unown" \notin A \cup R /\ "fill" \notin A /\ A \cap {"queue", "snapshot"} = {} /\
           "deinit" \notin A
        /\ A \cap {"reset", "clear"} = {} /\ R \cap {"reset", "clear"} = {} /\
           "present" \notin A
    BY DEF RequestSideOps
  <1> HIDE DEF x, m, A, R
  <1>8. /\ life' \in [Surfaces -> {"new", "live", "freed"}] /\ life'[x] = "freed"
        /\ \A y \in Surfaces : y # x => life'[y] = life[y]
    BY <1>1, <1>2, <1>7 DEF TypeOK
  <1>9. /\ gpu' \subseteq gpu /\
           sem' \in [Surfaces -> [handle : BOOLEAN, failed : BOOLEAN, signalled : BOOLEAN]]
        /\ \A y \in Surfaces : sem'[y] = sem[y] \/ sem'[y] = NoSemaphore
    <2>1. CASE gpu' = {} /\ sem' = [sem EXCEPT ![x] = NoSemaphore]
      BY <1>2, <2>1 DEF TypeOK, NoSemaphore
    <2>2. CASE UNCHANGED gpuVars BY <1>2, <2>2 DEF TypeOK, gpuVars
    <2> QED BY <1>1, <2>1, <2>2
  <1>10. TypeOK'
    BY <1>1, <1>2, <1>3, <1>5, <1>8, <1>9, TypedNext DEF TypeOK, reqVars, schedVars, kmsVars
  <1>11. RenderedOK'
    <2>1. ~NoSemaphore.handle BY DEF NoSemaphore
    <2> QED BY <1>2, <1>3, <1>9, <2>1 DEF RenderedOK, InUse, ScanoutAfterRender
  <1>12. LayerFits' BY <1>2, <1>3, <1>5, <1>v, FitsKept
  <1>13. FillFits' /\ StoreFits' /\ DeinitsDiffer'
    BY <1>2, <1>3, <1>5, <1>v, FitsKept, DifferKept DEF SlotSide
  <1>d. DeinitFits'
    <2> SUFFICES ASSUME NEW u \in Threads, NEW d \in Nat, Has(todo', u, d),
                        TaskAt(todo', u, d).op = "deinit"
                 PROVE LET y == SurfaceOf(TaskAt(todo', u, d).slot)
                       IN  srefs'[y] = 0 /\ front'[y] = NoSlot /\ life'[y] = "live"
      BY DEF DeinitFits, Deinit1
    <2> DEFINE k == TaskAt(todo', u, d)
               y == SurfaceOf(k.slot)
    <2>1. Has(todo, u, d) /\ TaskAt(todo, u, d) = k BY <1>5, <1>v, WasThere
    <2>2. srefs[y] = 0 /\ front[y] = NoSlot /\ life[y] = "live"
      BY <1>2, <2>1 DEF SlotSide, DeinitFits, Deinit1
    <2>3. y \in Surfaces /\ k.slot = <<y, 0>>
      <3>1. PlaceOK(k, u, d) BY <1>2, <2>1 DEF Shaped
      <3>2. k.slot \in Surfaces \X {0} BY <3>1 DEF PlaceOK
      <3> QED BY <3>2, SlotIs
    <2>4. y # x
      <3> SUFFICES ASSUME y = x PROVE FALSE OBVIOUS
      <3>1. k \in Ofs({"deinit"}, <<x, 0>>)
        <4>1. k \in Tasks BY <1>5, <2>1, StackType
        <4> QED BY <2>3, <4>1 DEF Ofs
      <3>2. Tok(u, d) \in StackSet(todo, Ofs({"deinit"}, <<x, 0>>)) BY <2>1, <3>1, TokIn
      <3>3. Tok(t, m) \in StackSet(todo, Ofs({"deinit"}, <<x, 0>>)) BY <1>7, TokIn
      <3>4. Single(StackSet(todo, Ofs({"deinit"}, <<x, 0>>)))
        BY <1>2, <1>7 DEF SlotSide, DeinitsDiffer
      <3>5. u = t /\ d = m BY <3>2, <3>3, <3>4, TokIs DEF Single
      <3>6. Len(todo'[t]) = m
        <4>1. Len(todo'[t]) = m + Len(<<>>) BY <1>5 DEF Stepped
        <4> QED BY <1>7, <4>1, ListIs
      <3> QED BY <1>7, <3>5, <3>6 DEF Has
    <2> QED BY <1>1, <1>8, <2>2, <2>3, <2>4
  <1>14. \A z \in Slots : Owners(z)' = Owners(z) BY <1>3, <1>5, <1>v, OwnersKept
  <1>15. \A z \in Slots : Pins(z)' = Pins(z) BY <1>1, <1>5, <1>v, PinsKept
  <1>16. SlotsCounted' BY <1>2, <1>3, <1>14, <1>15, SlotsKept DEF SlotSide
  <1>17. SurfacesCounted' BY <1>1, <1>2, <1>5, <1>v, <1>14, SurfacesKept DEF SlotSide
  <1>18. CleaningOK' BY <1>2, <1>3, <1>5, <1>v, CleaningKept DEF SlotSide
  <1>19. LivesOK'
    <2>1. LivesOK BY <1>2 DEF SlotSide
    <2>2. ~(x > current) BY <1>7, <2>1 DEF LivesOK
    <2> QED BY <1>1, <1>7, <1>8, <2>1, <2>2 DEF LivesOK
  <1>20. ImagesStable' BY <1>2, <1>3, ImagesKept DEF SlotSide
  <1>21. SlotSide' BY <1>13, <1>d, <1>16, <1>17, <1>18, <1>19, <1>20 DEF SlotSide
  <1> QED BY <1>1, <1>3, <1>5, <1>6, <1>v, <1>10, <1>11, <1>12, <1>21, SlotStep

(* The owners and the pins of a slot, part by part.                        *)
LEMMA OwnersParts ==
  ASSUME todo \in Stacks, todo' \in Stacks, NEW s,
         NEW kf \in Int, More(When(store[s] # "none", "flutter"),
           When(store'[s] # "none", "flutter"), kf),
         NEW kc \in Int, More(LayersOn("composition", 0, composition, s),
           LayersOn("composition", 0, composition', s), kc),
         NEW kb \in Int, More(LayersOn("building", 0, building, s),
           LayersOn("building", 0, building', s), kb),
         NEW kr \in Int, More(ReqLayers(layers, s), ReqLayers(layers', s), kr),
         NEW kt \in Int, More(StackSet(todo, Ofs({"unref"}, s)),
           StackSet(todo', Ofs({"unref"}, s)), kt)
  PROVE More(Owners(s), Owners(s)', kf + kc + kb + kr + kt)
  <1>1. More(OwnersOf(store, composition, building, layers, todo, s),
             OwnersOf(store', composition', building', layers', todo', s),
               kf + kc + kb + kr + kt)
    BY OwnersMore
  <1>2. Owners(s) = OwnersOf(store, composition, building, layers, todo, s)
         /\ Owners(s)' = OwnersOf(store', composition', building', layers', todo', s)
    BY OwnersNow, OwnersNext
  <1> QED BY <1>1, <1>2

(* ... when only the stores and the tasks change.                          *)
LEMMA OwnersTasked ==
  ASSUME todo \in Stacks, todo' \in Stacks, NEW s,
         UNCHANGED composition, UNCHANGED building, UNCHANGED layers,
         NEW kf \in Int, More(When(store[s] # "none", "flutter"),
           When(store'[s] # "none", "flutter"), kf),
         NEW kt \in Int, More(StackSet(todo, Ofs({"unref"}, s)),
           StackSet(todo', Ofs({"unref"}, s)), kt)
  PROVE More(Owners(s), Owners(s)', kf + kt)
  <1> DEFINE o == 0
  <1>1. o \in Int /\ o = 0 OBVIOUS
  <1>s. /\ More(LayersOn("composition", 0, composition, s),
           LayersOn("composition", 0, composition', s), o)
        /\ More(LayersOn("building", 0, building, s), LayersOn("building", 0, building', s), o)
        /\ More(ReqLayers(layers, s), ReqLayers(layers', s), o)
    BY MoreSame
  <1> HIDE DEF o
  <1>2. More(Owners(s), Owners(s)', kf + o + o + o + kt) BY <1>1, <1>s, OwnersParts
  <1>3. kf + o + o + o + kt = kf + kt BY <1>1
  <1> QED BY <1>2, <1>3

(* The same of the pins.                                                   *)
LEMMA PinsTasked ==
  ASSUME todo \in Stacks, todo' \in Stacks, NEW s,
         NEW kf \in Int, More(When(front[SurfaceOf(s)] = s, "front"),
           When(front'[SurfaceOf(s)] = s, "front"), kf),
         NEW kt \in Int, More(StackSet(todo, Ofs({"unpin"}, s)),
           StackSet(todo', Ofs({"unpin"}, s)), kt)
  PROVE More(Pins(s), Pins(s)', kf + kt)
  <1>1. More(PinsOf(front, todo, s), PinsOf(front', todo', s), kf + kt) BY PinsMore
  <1>2. Pins(s) = PinsOf(front, todo, s) /\ Pins(s)' = PinsOf(front', todo', s)
    BY PinsNow, PinsNext
  <1> QED BY <1>1, <1>2

(* The count of a slot from the changes of its owners and pins.            *)
LEMMA SlotCount ==
  ASSUME ScanoutInv, todo' \in Stacks, NEW s \in Slots, NEW ko \in Int,
         More(Owners(s), Owners(s)', ko),
         NEW kp \in Int, More(Pins(s), Pins(s)', kp), NEW n, n = nrefs[s] + (ko + kp)
  PROVE Counted(n, Owners(s)' \cup Pins(s)')
  <1>0. todo \in Stacks /\ SlotSide BY InvIs, StacksTyped
  <1>11. Owners(s) = OwnersOf(store, composition, building, layers, todo, s)
         /\ Owners(s)' = OwnersOf(store', composition', building', layers', todo', s)
    BY <1>0, OwnersNow, OwnersNext
  <1>12. Pins(s) = PinsOf(front, todo, s) /\ Pins(s)' = PinsOf(front', todo', s)
    BY <1>0, PinsNow, PinsNext
  <1>15. Owners(s) \cap Pins(s) = {} /\ Owners(s)' \cap Pins(s)' = {}
    BY <1>11, <1>12, OwnersNotPins
  <1>16. More(Owners(s) \cup Pins(s), Owners(s)' \cup Pins(s)', ko + kp) BY <1>15, MoreJoin
  <1>17. Counted(nrefs[s], Owners(s) \cup Pins(s)) BY <1>0 DEF SlotSide, SlotsCounted
  <1>18. Counted(nrefs[s] + (ko + kp), Owners(s)' \cup Pins(s)') BY <1>16, <1>17, MoreCounted
  <1> QED BY <1>18

(* What the tasks of a step are to one slot.                               *)
LEMMA StackDelta ==
  ASSUME NEW t, NEW m, NEW tasks, Stepped(todo, todo', t, m, tasks), NEW ops, NEW z,
         NEW g, Counted(g, Above(todo, t, m, Ofs(ops, z))), NEW j,
           Counted(j, Among(tasks, Ofs(ops, z))),
         NEW k, k = j - g
  PROVE k \in Int /\ More(StackSet(todo, Ofs(ops, z)), StackSet(todo', Ofs(ops, z)), k)
  <1>1. g \in Nat /\ j \in Nat /\
        More(StackSet(todo, Ofs(ops, z)), StackSet(todo', Ofs(ops, z)), j - g)
    BY StackSetMore
  <1> QED BY <1>1

(* One reference to a slot less, and the clean-up when it was the last.    *)
LEMMA CleaningDown ==
  ASSUME CleaningOK, TypeOK, NEW t \in Threads, todo[t] # <<>>, NEW m, m = Len(todo[t]) - 1,
         NEW tasks, Stepped(todo, todo', t, m, tasks),
         NEW s \in Slots, Head(todo[t]).slot = s, Head(todo[t]).op \notin {"reset", "clear"},
         nrefs[s] > 0, nrefs'[s] = nrefs[s] - 1, \A z \in Slots : z # s => nrefs'[z] = nrefs[z],
         UNCHANGED locked, UNCHANGED owner, UNCHANGED completion,
         \A i \in 1 .. Len(tasks) : tasks[i].op \in {"reset", "clear"} => tasks[i].slot = s,
         Counted(One(nrefs[s] = 1), Among(tasks, Ofs({"clear"}, s))),
         nrefs[s] = 1 => Among(tasks, Ofs({"reset"}, s)) # {}
  PROVE CleaningOK'
  <1> SUFFICES ASSUME NEW z \in Slots
               PROVE /\ (Clearing(z) # {})' <=> (nrefs'[z] = 0 /\ locked'[z])
                     /\ Single(Clearing(z))'
                     /\ nrefs'[z] = 0 /\ (owner'[z] \/ completion'[z] # "none") =>
                        Resetting(z)' # {}
                     /\ nrefs'[z] > 0 => locked'[z] /\ owner'[z]
    BY DEF CleaningOK
  <1>1. /\ (Clearing(z) # {}) <=> (nrefs[z] = 0 /\ locked[z])
        /\ Single(Clearing(z))
        /\ nrefs[z] = 0 /\ (owner[z] \/ completion[z] # "none") => Resetting(z) # {}
        /\ nrefs[z] > 0 => locked[z] /\ owner[z]
    BY DEF CleaningOK
  <1>2. nrefs[z] \in Nat BY DEF TypeOK
  <1>3. CASE z # s
    <2>1. nrefs'[z] = nrefs[z] BY <1>3 DEF TypeOK
    <2>2. Clearing(z)' = Clearing(z)
      <3>1. \A i \in 1 .. Len(tasks) : tasks[i].slot # z \/ tasks[i].op \notin {"clear"} BY <1>3
      <3> QED BY <1>3, <3>1, KindElsewhere DEF Clearing
    <2>3. Resetting(z)' = Resetting(z)
      <3>1. \A i \in 1 .. Len(tasks) : tasks[i].slot # z \/ tasks[i].op \notin {"reset"} BY <1>3
      <3> QED BY <1>3, <3>1, KindElsewhere DEF Resetting
    <2> QED BY <1>1, <2>1, <2>2, <2>3 DEF Single
  <1>4. CASE z = s
    <2>1. nrefs'[z] = nrefs[z] - 1 BY <1>4 DEF TypeOK
    <2>2. Clearing(z) = {} BY <1>1, <1>2, <1>4
    <2>3. \A x : x \in Clearing(z)' =>
          \E i \in Among(tasks, Ofs({"clear"}, z)) : x = Tok(t, m + Len(tasks) - i)
      BY <2>2, StackSetStep DEF Clearing
    <2>4. \A i \in Among(tasks, Ofs({"clear"}, z)) : Tok(t, m + Len(tasks) - i) \in Clearing(z)'
      BY StackSetStep DEF Clearing
    <2>5. \A i \in Among(tasks, Ofs({"reset"}, z)) :
          Tok(t, m + Len(tasks) - i) \in Resetting(z)'
      BY StackSetStep DEF Resetting
    <2>6. CASE nrefs[s] = 1
      <3>1. Counted(1, Among(tasks, Ofs({"clear"}, s))) BY <2>6 DEF One
      <3>2. Among(tasks, Ofs({"clear"}, s)) # {} /\ Single(Among(tasks, Ofs({"clear"}, s)))
        BY <3>1, CountFacts
      <3>3. Clearing(z)' # {} BY <1>4, <2>4, <3>2
      <3>4. Single(Clearing(z)') BY <1>4, <2>3, <3>2 DEF Single
      <3>5. Resetting(z)' # {} BY <1>4, <2>5, <2>6
      <3> QED BY <1>1, <1>4, <2>1, <2>6, <3>3, <3>4, <3>5 DEF Single
    <2>7. CASE nrefs[s] # 1
      <3>1. Counted(0, Among(tasks, Ofs({"clear"}, s))) BY <2>7 DEF One
      <3>2. Among(tasks, Ofs({"clear"}, s)) = {} BY <3>1, CountFacts
      <3>3. Clearing(z)' = {} BY <1>4, <2>3, <3>2
      <3> QED BY <1>1, <1>2, <1>4, <2>1, <2>7, <3>3 DEF Single
    <2> QED BY <2>6, <2>7
  <1> QED BY <1>3, <1>4

Released(s, last, tasks) ==
    /\ tasks \in Seq(Tasks)
    /\ last => Len(tasks) = 3 /\ tasks[1] = Task("reset", s) /\ tasks[2] = Task("clear", s)
               /\ tasks[3] = Task("unown", <<SurfaceOf(s), 0>>)
    /\ ~last => Len(tasks) = 1 /\ tasks[1] = Task("unown", <<SurfaceOf(s), 0>>)

(* The lists of tasks that the release of a slot calls.                    *)
LEMMA ReleaseIs ==
  ASSUME NEW s \in Slots
  PROVE /\ Task("reset", s) \in Tasks /\ Task("reset", s).op = "reset" /\
           Task("reset", s).slot = s
        /\ Task("clear", s) \in Tasks /\ Task("clear", s).op = "clear" /\
           Task("clear", s).slot = s
        /\ LET c == Task("unown", <<SurfaceOf(s), 0>>)
           IN  c \in Tasks /\ c.op = "unown" /\ c.slot = <<SurfaceOf(s), 0>>
        /\ Released(s, TRUE, Destroy(s) \o <<Task("unown", <<SurfaceOf(s), 0>>)>>)
        /\ Released(s, FALSE, <<>> \o <<Task("unown", <<SurfaceOf(s), 0>>)>>)
  <1> DEFINE a == Task("reset", s)
             b == Task("clear", s)
             c == Task("unown", <<SurfaceOf(s), 0>>)
  <1>1. /\ a \in Tasks /\ a.op = "reset" /\ a.slot = s
        /\ b \in Tasks /\ b.op = "clear" /\ b.slot = s
        /\ c \in Tasks /\ c.op = "unown" /\ c.slot = <<SurfaceOf(s), 0>>
    <2>1. <<SurfaceOf(s), 0>> \in Slots \cup (Surfaces \X {0}) /\
          s \in Slots \cup (Surfaces \X {0})
      BY SlotIs
    <2> QED BY <2>1, TaskIs DEF Ops
  <1>2. Destroy(s) = <<a, b>> BY DEF Destroy
  <1> HIDE DEF a, b, c
  <1>3. Destroy(s) \o <<c>> = <<a, b, c>> /\ <<>> \o <<c>> = <<c>>
    <2>1. a \in Tasks /\ b \in Tasks /\ c \in Tasks BY <1>1
    <2>2. <<a, b>> \o <<c>> = <<a, b, c>> /\ <<>> \o <<c>> = <<c>> BY <2>1, JoinIs
    <2> QED BY <1>2, <2>2
  <1>4. <<a, b, c>> \in Seq(Tasks) /\ Len(<<a, b, c>>) = 3
        /\ <<a, b, c>>[1] = a /\ <<a, b, c>>[2] = b /\ <<a, b, c>>[3] = c
    BY <1>1, ListIs
  <1>5. <<c>> \in Seq(Tasks) /\ Len(<<c>>) = 1 /\ <<c>>[1] = c BY <1>1, ListIs
  <1>6. Released(s, TRUE, <<a, b, c>>) BY <1>4 DEF Released, a, b, c
  <1>7. Released(s, FALSE, <<c>>) BY <1>5 DEF Released, a, b, c
  <1> QED BY <1>1, <1>3, <1>6, <1>7 DEF a, b, c

(* What is called at the release of a slot.                                *)
LEMMA ReleaseTasks ==
  ASSUME NEW s \in Slots, NEW last \in BOOLEAN, NEW tasks, Released(s, last, tasks)
  PROVE /\ \A i \in 1 .. Len(tasks) : tasks[i].op \in {"reset", "clear", "unown"}
               /\ (tasks[i].op \in {"reset", "clear"} => last /\ tasks[i].slot = s)
        /\ \A z : Counted(0, Among(tasks, Ofs({"unref"}, z))) /\
           Counted(0, Among(tasks, Ofs({"unpin"}, z)))
        /\ \A x \in Surfaces :
           Counted(One(SurfaceOf(s) = x), Among(tasks, Ofs({"unown"}, <<x, 0>>)))
        /\ Counted(One(last), Among(tasks, Ofs({"clear"}, s)))
        /\ last => Among(tasks, Ofs({"reset"}, s)) # {}
  <1> DEFINE a == Task("reset", s)
             b == Task("clear", s)
             c == Task("unown", <<SurfaceOf(s), 0>>)
  <1>1. /\ a \in Tasks /\ a.op = "reset" /\ a.slot = s
        /\ b \in Tasks /\ b.op = "clear" /\ b.slot = s
        /\ c \in Tasks /\ c.op = "unown" /\ c.slot = <<SurfaceOf(s), 0>>
    BY ReleaseIs
  <1>x. \A x \in Surfaces : (c \in Ofs({"unown"}, <<x, 0>>)) = (SurfaceOf(s) = x)
    <2> HIDE DEF a, b, c
    <2> QED BY <1>1 DEF Ofs
  <1>6. last => tasks \in Seq(Tasks) /\ Len(tasks) = 3 /\ tasks[1] = a /\ tasks[2] = b /\
        tasks[3] = c
    BY DEF Released
  <1>7. ~last => tasks \in Seq(Tasks) /\ Len(tasks) = 1 /\ tasks[1] = c BY DEF Released
  <1> HIDE DEF a, b, c
  <1>8. \A i \in 1 .. Len(tasks) :
               /\ tasks[i].op \in {"reset", "clear", "unown"}
               /\ (tasks[i].op \in {"reset", "clear"} => last /\ tasks[i].slot = s)
               /\ tasks[i].op = "unown" => i = IF last THEN 3 ELSE 1
               /\ tasks[i].op = "clear" => i = 2
    <2> TAKE i \in 1 .. Len(tasks)
    <2>1. CASE last
      <3>1. i \in 1 .. 3 BY <1>6, <2>1
      <3>2. i = 1 \/ i = 2 \/ i = 3 BY <3>1
      <3> QED BY <1>1, <1>6, <2>1, <3>2
    <2>2. CASE ~last
      <3>1. i = 1 BY <1>7, <2>2
      <3> QED BY <1>1, <1>7, <2>2, <3>1
    <2> QED BY <2>1, <2>2
  <1>9. \A z : Counted(0, Among(tasks, Ofs({"unref"}, z))) /\
        Counted(0, Among(tasks, Ofs({"unpin"}, z)))
    <2> TAKE z
    <2>1. \A j \in 1 .. Len(tasks) : tasks[j] \notin Ofs({"unref"}, z) /\
          tasks[j] \notin Ofs({"unpin"}, z)
      BY <1>8 DEF Ofs
    <2> QED BY <2>1, AmongNot
  <1>10. \A x \in Surfaces :
         Counted(One(SurfaceOf(s) = x), Among(tasks, Ofs({"unown"}, <<x, 0>>)))
    <2> TAKE x \in Surfaces
    <2> DEFINE i == IF last THEN 3 ELSE 1
    <2>1. i \in 1 .. Len(tasks) /\ tasks[i] = c BY <1>6, <1>7
    <2>2. \A j \in 1 .. Len(tasks) : tasks[j] \in Ofs({"unown"}, <<x, 0>>) => j = i
      BY <1>8 DEF Ofs
    <2> HIDE DEF i
    <2>3. Counted(One(tasks[i] \in Ofs({"unown"}, <<x, 0>>)),
            Among(tasks, Ofs({"unown"}, <<x, 0>>)))
      BY <2>1, <2>2, AmongJust
    <2>4. (c \in Ofs({"unown"}, <<x, 0>>)) = (SurfaceOf(s) = x) BY <1>x
    <2> QED BY <2>1, <2>3, <2>4, Zenon
  <1>11. Counted(One(last), Among(tasks, Ofs({"clear"}, s)))
    <2>1. CASE last
      <3>a. b \in Ofs({"clear"}, s) BY <1>1 DEF Ofs
      <3>1. 2 \in 1 .. Len(tasks) /\ tasks[2] = b /\ b \in Ofs({"clear"}, s) BY <1>6, <2>1, <3>a
      <3>2. \A j \in 1 .. Len(tasks) : tasks[j] \in Ofs({"clear"}, s) => j = 2 BY <1>8 DEF Ofs
      <3>3. Counted(One(tasks[2] \in Ofs({"clear"}, s)), Among(tasks, Ofs({"clear"}, s)))
        BY <3>1, <3>2, AmongJust
      <3> QED BY <2>1, <3>1, <3>3 DEF One
    <2>2. CASE ~last
      <3>1. \A j \in 1 .. Len(tasks) : tasks[j] \notin Ofs({"clear"}, s) BY <1>8, <2>2 DEF Ofs
      <3> QED BY <2>2, <3>1, AmongNot DEF One
    <2> QED BY <2>1, <2>2
  <1>12. last => Among(tasks, Ofs({"reset"}, s)) # {}
    <2>1. last => 1 \in Among(tasks, Ofs({"reset"}, s)) BY <1>1, <1>6 DEF Among, Ofs
    <2> QED BY <2>1
  <1>13. \A i \in 1 .. Len(tasks) : tasks[i].op \in {"reset", "clear", "unown"}
               /\ (tasks[i].op \in {"reset", "clear"} => last /\ tasks[i].slot = s)
    BY <1>8
  <1> QED BY <1>9, <1>10, <1>11, <1>12, <1>13

(* The release of a slot rests on the release of its surface.              *)
LEMMA ReleaseShaped ==
  ASSUME NEW stk, NEW new, NEW t, NEW m, NEW tasks, Stepped(stk, new, t, m, tasks), Shaped(stk),
         NEW s \in Slots, NEW last \in BOOLEAN, Released(s, last, tasks)
  PROVE Shaped(new)
  <1> DEFINE a == Task("reset", s)
             b == Task("clear", s)
             c == Task("unown", <<SurfaceOf(s), 0>>)
  <1>1. /\ a \in Tasks /\ a.op = "reset" /\ a.slot = s
        /\ b \in Tasks /\ b.op = "clear" /\ b.slot = s
        /\ c \in Tasks /\ c.op = "unown" /\ c.slot = <<SurfaceOf(s), 0>>
    BY ReleaseIs
  <1>2. last => tasks \in Seq(Tasks) /\ Len(tasks) = 3 /\ tasks[1] = a /\ tasks[2] = b /\
        tasks[3] = c
    BY DEF Released
  <1>3. ~last => tasks \in Seq(Tasks) /\ Len(tasks) = 1 /\ tasks[1] = c BY DEF Released
  <1> HIDE DEF a, b, c
  <1>4. m \in Nat /\ Len(tasks) \in Nat
        /\ \A i \in 1 .. Len(tasks) : TaskAt(new, t, m + Len(tasks) - i) = tasks[i]
    BY SteppedTasks
  <1>5. <<SurfaceOf(s), 0>> \in Surfaces \X {0} BY SlotIs
  <1>6. Covers(c, SurfaceOf(s)) BY <1>1 DEF Covers
  <1>7. \A d : PlaceOK(a, t, d) /\ PlaceOK(b, t, d) /\ PlaceOK(c, t, d)
    BY <1>1, <1>5 DEF PlaceOK
  <1>8. CASE last
    <2>0. Len(tasks) = 3 /\ tasks[1] = a /\ tasks[2] = b /\ tasks[3] = c BY <1>2, <1>8
    <2>1. TaskAt(new, t, m + 2) = a /\ TaskAt(new, t, m + 1) = b /\ TaskAt(new, t, m) = c
      <3>1. 1 \in 1 .. Len(tasks) /\ 2 \in 1 .. Len(tasks) /\ 3 \in 1 .. Len(tasks) BY <2>0
      <3>2. m + Len(tasks) - 1 = m + 2 /\ m + Len(tasks) - 2 = m + 1 /\ m + Len(tasks) - 3 = m
        BY <2>0, <1>4
      <3>3. /\ TaskAt(new, t, m + Len(tasks) - 1) = tasks[1]
            /\ TaskAt(new, t, m + Len(tasks) - 2) = tasks[2]
            /\ TaskAt(new, t, m + Len(tasks) - 3) = tasks[3]
        BY <1>4, <3>1
      <3> QED BY <2>0, <3>2, <3>3
    <2>2. BelowOK(new, t, m)
      <3>1. TaskAt(new, t, m).op \in PlainOps BY <1>1, <2>1 DEF PlainOps
      <3> QED BY <3>1, BelowPlain
    <2>3. BelowOK(new, t, m + 1)
      <3>1. m \in 0 .. (m + 1) - 1 BY <1>4
      <3>2. \E e \in 0 .. (m + 1) - 1 : Covers(TaskAt(new, t, e), SurfaceOf(b.slot))
        BY <1>1, <1>6, <2>1, <3>1
      <3> QED BY <1>1, <2>1, <3>2 DEF BelowOK
    <2>4. BelowOK(new, t, m + 2)
      <3>1. m \in 0 .. (m + 2) - 1 /\ (m + 2) - 1 = m + 1 /\ m + 2 >= 1 BY <1>4
      <3>2. \E e \in 0 .. (m + 2) - 1 : Covers(TaskAt(new, t, e), SurfaceOf(a.slot))
        BY <1>1, <1>6, <2>1, <3>1
      <3> QED BY <1>1, <2>1, <3>1, <3>2 DEF BelowOK
    <2>5. \A i \in 1 .. Len(tasks) : PlaceOK(tasks[i], t, m + Len(tasks) - i) /\
          BelowOK(new, t, m + Len(tasks) - i)
      <3> TAKE i \in 1 .. Len(tasks)
      <3>1. i = 1 \/ i = 2 \/ i = 3 BY <2>0
      <3>2. CASE i = 1
        <4>1. m + Len(tasks) - i = m + 2 BY <2>0, <1>4, <3>2
        <4> QED BY <2>0, <1>7, <2>4, <3>2, <4>1
      <3>3. CASE i = 2
        <4>1. m + Len(tasks) - i = m + 1 BY <2>0, <1>4, <3>3
        <4> QED BY <2>0, <1>7, <2>3, <3>3, <4>1
      <3>4. CASE i = 3
        <4>1. m + Len(tasks) - i = m BY <2>0, <1>4, <3>4
        <4> QED BY <2>0, <1>7, <2>2, <3>4, <4>1
      <3> QED BY <3>1, <3>2, <3>3, <3>4
    <2> QED BY <2>5, ShapedStep
  <1>9. CASE ~last
    <2>0. Len(tasks) = 1 /\ tasks[1] = c BY <1>3, <1>9
    <2>1. \A i \in 1 .. Len(tasks) : PlaceOK(tasks[i], t, m + Len(tasks) - i) /\
          tasks[i].op \in PlainOps
      <3> TAKE i \in 1 .. Len(tasks)
      <3>1. i = 1 BY <2>0
      <3>2. "unown" \in PlainOps BY DEF PlainOps
      <3> QED BY <1>1, <2>0, <1>7, <3>1, <3>2
    <2> QED BY <2>1, ShapedPlain
  <1> QED BY <1>8, <1>9

(* The step is that of a slot which loses one owner.                       *)
LEMMA LockedFbUnrefStep ==
  ASSUME ScanoutInv, NEW t \in Threads, LockedFbUnref(t)
  PROVE  ScanoutInv'
  <1> DEFINE s == Head(todo[t]).slot
             m == Len(todo[t]) - 1
             last == nrefs[s] = 1
             tasks == (IF last THEN Destroy(s)
               ELSE <<>>) \o <<Task("unown", <<SurfaceOf(s), 0>>)>>
             A == {"reset", "clear", "unown"}
             R == {"unref"}
  <1>1. /\ At(t, "unref") /\ nrefs' = [nrefs EXCEPT ![s] = @ - 1] /\ Then(t, tasks)
        /\ UNCHANGED locked /\ UNCHANGED owner /\ UNCHANGED store /\ UNCHANGED completion /\
           UNCHANGED image
        /\ UNCHANGED fills /\ UNCHANGED surfVars /\ UNCHANGED gpuVars /\ UNCHANGED winVars
        /\ UNCHANGED reqVars /\ UNCHANGED schedVars /\ UNCHANGED kmsVars
    BY DEF LockedFbUnref
  <1>2. TypeOK /\ LayerFits /\ RenderedOK /\ Shaped(todo) /\ SlotSide BY InvIs
  <1>3. UNCHANGED composition /\ UNCHANGED building /\ UNCHANGED winlock /\ UNCHANGED pushes /\
        UNCHANGED layers
        /\ UNCHANGED screen /\ UNCHANGED life /\ UNCHANGED srefs /\ UNCHANGED front /\
           UNCHANGED current
        /\ UNCHANGED gpu /\ UNCHANGED sem
    BY <1>1 DEF winVars, reqVars, kmsVars, surfVars, gpuVars
  <1>t. todo \in Stacks /\ todo[t] # <<>> /\ Head(todo[t]).op = "unref"
    BY <1>1, <1>2, StacksTyped DEF At
  <1>7. /\ s \in Slots /\ m \in Nat /\ Tok(t, m) \in Owners(s)
    <2>1. LET k == Head(todo[t])
          IN  k \in Tasks /\ m \in Nat /\ Has(todo, t, m) /\ TaskAt(todo, t, m) = k /\
            PlaceOK(k, t, m)
      BY <1>t, TopOK
    <2>2. s \in Slots BY <1>t, <2>1 DEF PlaceOK
    <2>3. TaskAt(todo, t, m) \in Ofs({"unref"}, s) BY <1>t, <2>1 DEF Ofs
    <2>4. Tok(t, m) \in Owners(s) BY <1>t, <2>1, <2>2, <2>3, OwnersHave
    <2> QED BY <2>1, <2>2, <2>4
  <1>l. last \in BOOLEAN OBVIOUS
  <1>r. Released(s, last, tasks)
    <2>1. CASE last BY <1>7, <2>1, ReleaseIs
    <2>2. CASE ~last BY <1>7, <2>2, ReleaseIs
    <2> QED BY <2>1, <2>2
  <1>v. A \cap RequestSideOps = {} /\ R \cap RequestSideOps = {} /\ "unpin" \notin A \cup R
        /\ "unref" \notin A /\ "fill" \notin A /\ A \cap {"queue", "snapshot"} = {} /\
           "deinit" \notin A
        /\ "present" \notin A /\ \A op : op \in {"reset", "clear", "unown"} => op \in A
    BY DEF RequestSideOps
  <1>s. \A ops, z : Counted(One(Head(todo[t]).op \in ops /\ s = z),
          Above(todo, t, m, Ofs(ops, z)))
    BY <1>t, SlotTop
  <1>h. Head(todo[t]).slot = s /\ m = Len(todo[t]) - 1 /\ (nrefs[s] = 1 <=> last) OBVIOUS
  <1> HIDE DEF tasks, A, s, m, last
  <1>4. tasks \in Seq(Tasks) /\ \A i \in 1 .. Len(tasks) : tasks[i].op \in A
    BY <1>7, <1>l, <1>r, <1>v, ReleaseTasks DEF Released
  <1>5. /\ todo' \in Stacks /\ Stepped(todo, todo', t, m, tasks) /\ Touches(A, R)
    BY <1>1, <1>4, <1>h, PopIs
  <1>q. \A z : /\ Counted(One(s = z), Above(todo, t, m, Ofs({"unref"}, z)))
               /\ Counted(0, Above(todo, t, m, Ofs({"unpin"}, z)))
               /\ Counted(0, Above(todo, t, m, Ofs({"unown"}, z)))
    <2> TAKE z
    <2>1. \A ops : Counted(One(Head(todo[t]).op \in ops /\ s = z),
            Above(todo, t, m, Ofs(ops, z)))
      BY <1>s
    <2>2. /\ One(Head(todo[t]).op \in {"unref"} /\ s = z) = One(s = z)
          /\ One(Head(todo[t]).op \in {"unpin"} /\ s = z) = 0
          /\ One(Head(todo[t]).op \in {"unown"} /\ s = z) = 0
      BY <1>t DEF One
    <2> QED BY <2>1, <2>2
  <1> HIDE DEF R
  <1>6. Shaped(todo') BY <1>2, <1>5, <1>7, <1>l, <1>r, ReleaseShaped
  <1>8. nrefs[s] > 0 /\ nrefs[s] \in Nat BY <1>7, UsedIs
  <1>9. /\ nrefs' \in [Slots -> Nat] /\ nrefs'[s] = nrefs[s] - 1
        /\ \A z \in Slots : z # s => nrefs'[z] = nrefs[z]
    <2>1. nrefs \in [Slots -> Nat] BY <1>2 DEF TypeOK
    <2>2. nrefs[s] - 1 \in Nat BY <1>8
    <2> QED BY <1>1, <1>7, <2>1, <2>2
  <1>10. TypeOK'
    BY <1>1, <1>2, <1>5, <1>9, TypedNext DEF TypeOK, surfVars, gpuVars, winVars, reqVars,
       schedVars, kmsVars
  <1>11. RenderedOK' BY <1>1, <1>2, <1>3, RenderedKept
  <1>12. LayerFits' BY <1>2, <1>3, <1>5, <1>v, FitsKept
  <1>13. FillFits' /\ StoreFits' /\ DeinitFits' /\ DeinitsDiffer'
    BY <1>1, <1>2, <1>3, <1>5, <1>v, FitsKept, DifferKept DEF SlotSide
  <1>14. \A z \in Slots : /\ More(Owners(z), Owners(z)', 0 - One(s = z))
                          /\ Counted(nrefs[z] - One(s = z), Owners(z)' \cup Pins(z)')
    <2> TAKE z \in Slots
    <2>1. Counted(0, Among(tasks, Ofs({"unref"}, z))) /\
          Counted(0, Among(tasks, Ofs({"unpin"}, z)))
      BY <1>7, <1>l, <1>r, ReleaseTasks
    <2> DEFINE g == One(s = z)
               o == 0
               k == 0 - g
    <2>2. /\ Counted(g, Above(todo, t, m, Ofs({"unref"}, z))) /\
             Counted(o, Above(todo, t, m, Ofs({"unpin"}, z)))
          /\ Counted(o, Among(tasks, Ofs({"unref"}, z))) /\
             Counted(o, Among(tasks, Ofs({"unpin"}, z)))
      BY <1>q, <2>1
    <2>3. g \in {0, 1} BY DEF One
    <2>4. k = o - g /\ o = o - o /\ o \in Int /\ k \in Int /\ k = 0 - One(s = z) /\ o + k = k /\
          o + o = o
      BY <2>3
    <2>5. nrefs[z] + (k + o) = nrefs[z] - g
      <3>1. nrefs[z] \in Nat BY <1>2 DEF TypeOK
      <3> QED BY <2>3, <3>1
    <2>6. g = One(s = z) OBVIOUS
    <2> HIDE DEF g, o, k
    <2>7. More(StackSet(todo, Ofs({"unref"}, z)), StackSet(todo', Ofs({"unref"}, z)), k)
      BY <1>5, <2>2, <2>4, StackDelta
    <2>8. More(StackSet(todo, Ofs({"unpin"}, z)), StackSet(todo', Ofs({"unpin"}, z)), o)
      BY <1>5, <2>2, <2>4, StackDelta
    <2>a. More(When(store[z] # "none", "flutter"), When(store'[z] # "none", "flutter"), 0)
      BY <1>1, MoreSame
    <2>b. More(When(front[SurfaceOf(z)] = z, "front"), When(front'[SurfaceOf(z)] = z, "front"),
            0)
      BY <1>3, MoreSame
    <2>c. o = 0 BY DEF o
    <2>9. More(Owners(z), Owners(z)', o + k)
      BY <1>3, <1>t, <1>5, <2>4, <2>7, <2>a, <2>c, OwnersTasked
    <2>10. More(Pins(z), Pins(z)', o + o) BY <1>t, <1>5, <2>4, <2>8, <2>b, <2>c, PinsTasked
    <2>11. Counted(nrefs[z] + (k + o), Owners(z)' \cup Pins(z)')
      BY <1>5, <2>4, <2>9, <2>10, SlotCount
    <2> QED BY <2>4, <2>5, <2>6, <2>9, <2>11
  <1>15. SlotsCounted'
    <2> SUFFICES ASSUME NEW z \in Slots PROVE Counted(nrefs'[z], Owners(z)' \cup Pins(z)')
      BY SlotsCountedIs
    <2>1. nrefs[z] \in Nat BY <1>2 DEF TypeOK
    <2>2. nrefs'[z] = nrefs[z] - One(s = z) BY <1>9, <2>1 DEF One
    <2> QED BY <1>14, <2>2
  <1>16. SurfacesCounted'
    <2> SUFFICES ASSUME NEW x \in Surfaces PROVE Counted(srefs'[x], SurfaceOwners(x)')
      BY SurfacesCountedIs
    <2> DEFINE k == -1
               g == 0
               j == One(SurfaceOf(s) = x)
               n == srefs[x] +
                 ((One(current' = x) - One(current = x)) + (j - g) +
                   (IF SurfaceOf(s) = x THEN k ELSE 0))
    <2>1. k \in Int /\ \A z \in Slots : 0 - One(s = z) = IF z = s THEN k ELSE 0 BY DEF One
    <2>2. Counted(g, Above(todo, t, m, Ofs({"unown"}, <<x, 0>>))) BY <1>q
    <2>3. Counted(j, Among(tasks, Ofs({"unown"}, <<x, 0>>))) BY <1>7, <1>l, <1>r, ReleaseTasks
    <2>4. srefs[x] \in Nat BY <1>2 DEF TypeOK
    <2>5. One(current' = x) = One(current = x) /\ One(current = x) \in Int BY <1>3, OneIs
    <2>6. n = srefs[x] BY <2>4, <2>5 DEF One
    <2>7. n = srefs[x] + ((One(current' = x) - One(current = x)) + (j - g) +
            (IF SurfaceOf(s) = x THEN k ELSE 0)) OBVIOUS
    <2> HIDE DEF k, g, j, n
    <2>8. \A z \in Slots : More(Owners(z), Owners(z)', IF z = s THEN k ELSE 0) BY <1>14, <2>1
    <2>9. Counted(n, SurfaceOwners(x)') BY <1>5, <1>7, <2>1, <2>2, <2>3, <2>7, <2>8, SurfaceMore
    <2> QED BY <1>3, <2>6, <2>9
  <1>17. CleaningOK'
    <2>1. /\ \A i \in 1 .. Len(tasks) : tasks[i].op \in {"reset", "clear"} => tasks[i].slot = s
          /\ Counted(One(last), Among(tasks, Ofs({"clear"}, s)))
          /\ last => Among(tasks, Ofs({"reset"}, s)) # {}
      BY <1>7, <1>l, <1>r, ReleaseTasks
    <2>2. Counted(One(nrefs[s] = 1), Among(tasks, Ofs({"clear"}, s))) /\
          (nrefs[s] = 1 => Among(tasks, Ofs({"reset"}, s)) # {})
      <3>1. One(nrefs[s] = 1) = One(last) BY <1>h DEF One
      <3> QED BY <1>h, <2>1, <3>1
    <2>3. Head(todo[t]).op \notin {"reset", "clear"} BY <1>t
    <2>4. CleaningOK BY <1>2 DEF SlotSide
    <2>5. /\ TypeOK /\ todo[t] # <<>> /\ m = Len(todo[t]) - 1 /\
                                         Stepped(todo, todo', t, m, tasks)
          /\ s \in Slots /\ Head(todo[t]).slot = s /\ nrefs[s] > 0 /\ nrefs'[s] = nrefs[s] - 1
          /\ \A z \in Slots : z # s => nrefs'[z] = nrefs[z]
          /\ UNCHANGED locked /\ UNCHANGED owner /\ UNCHANGED completion
          /\ \A i \in 1 .. Len(tasks) : tasks[i].op \in {"reset", "clear"} => tasks[i].slot = s
      BY <1>1, <1>2, <1>t, <1>5, <1>7, <1>8, <1>9, <1>h, <2>1
    <2> QED BY <2>2, <2>3, <2>4, <2>5, CleaningDown, SMTT(30)
  <1>18. LivesOK' BY <1>2, <1>3, LivesKept DEF SlotSide
  <1>19. ImagesStable' BY <1>1, <1>2, <1>3, ImagesKept DEF SlotSide
  <1>20. SlotSide' BY <1>13, <1>15, <1>16, <1>17, <1>18, <1>19 DEF SlotSide
  <1> QED BY <1>1, <1>3, <1>5, <1>6, <1>v, <1>10, <1>11, <1>12, <1>20, SlotStep

Unpinned(s, last, tasks) ==
    /\ tasks \in Seq(Tasks)
    /\ last => Len(tasks) = 2 /\ tasks[1] = Task("reset", s) /\ tasks[2] = Task("clear", s)
    /\ ~last => Len(tasks) = 0

(* The lists of tasks that the release of a pin calls.                     *)
LEMMA UnpinnedIs ==
  ASSUME NEW s \in Slots
  PROVE Unpinned(s, TRUE, Destroy(s)) /\ Unpinned(s, FALSE, <<>>)
  <1> DEFINE a == Task("reset", s)
             b == Task("clear", s)
  <1>1. a \in Tasks /\ b \in Tasks BY ReleaseIs
  <1>2. Destroy(s) = <<a, b>> BY DEF Destroy
  <1> HIDE DEF a, b
  <1>3. <<a, b>> \in Seq(Tasks) /\ Len(<<a, b>>) = 2 /\ <<a, b>>[1] = a /\ <<a, b>>[2] = b
    BY <1>1, ListIs
  <1>4. Unpinned(s, TRUE, <<a, b>>) BY <1>3 DEF Unpinned, a, b
  <1>5. Unpinned(s, FALSE, <<>>) BY ListIs DEF Unpinned
  <1> QED BY <1>2, <1>4, <1>5

(* What is in them.                                                        *)
LEMMA UnpinnedTasks ==
  ASSUME NEW s \in Slots, NEW last \in BOOLEAN, NEW tasks, Unpinned(s, last, tasks)
  PROVE /\ \A i \in 1 .. Len(tasks) : tasks[i].op \in {"reset", "clear"} /\ tasks[i].slot = s
        /\ \A z : Counted(0, Among(tasks, Ofs({"unpin"}, z)))
        /\ Counted(One(last), Among(tasks, Ofs({"clear"}, s)))
        /\ last => Among(tasks, Ofs({"reset"}, s)) # {}
  <1> DEFINE a == Task("reset", s)
             b == Task("clear", s)
  <1>1. /\ a \in Tasks /\ a.op = "reset" /\ a.slot = s
        /\ b \in Tasks /\ b.op = "clear" /\ b.slot = s
    BY ReleaseIs
  <1>2. last => tasks \in Seq(Tasks) /\ Len(tasks) = 2 /\ tasks[1] = a /\ tasks[2] = b
    BY DEF Unpinned
  <1>3. ~last => tasks \in Seq(Tasks) /\ Len(tasks) = 0 BY DEF Unpinned
  <1> HIDE DEF a, b
  <1>4. CASE last
    <2>0. Len(tasks) = 2 /\ tasks[1] = a /\ tasks[2] = b BY <1>2, <1>4
    <2>1. \A i \in 1 .. Len(tasks) : i = 1 \/ i = 2 BY <2>0
    <2>2. 1 \in 1 .. Len(tasks) /\ 2 \in 1 .. Len(tasks) BY <2>0
    <2>3. \A i \in 1 .. Len(tasks) : tasks[i].op \in {"reset", "clear"} /\ tasks[i].slot = s
      BY <1>1, <2>0, <2>1
    <2>4. \A z : Counted(0, Among(tasks, Ofs({"unpin"}, z)))
      <3> TAKE z
      <3>1. \A i \in 1 .. Len(tasks) : tasks[i] \notin Ofs({"unpin"}, z) BY <2>3 DEF Ofs
      <3> QED BY <3>1, AmongNot
    <2>5. b \in Ofs({"clear"}, s) /\ a \in Ofs({"reset"}, s) /\ a \notin Ofs({"clear"}, s)
      BY <1>1 DEF Ofs
    <2>6. \A j \in 1 .. Len(tasks) : tasks[j] \in Ofs({"clear"}, s) => j = 2 BY <2>0, <2>1, <2>5
    <2>7. Counted(One(tasks[2] \in Ofs({"clear"}, s)), Among(tasks, Ofs({"clear"}, s)))
      BY <2>2, <2>6, AmongJust
    <2>8. One(tasks[2] \in Ofs({"clear"}, s)) = 1 /\ One(last) = 1 BY <1>4, <2>0, <2>5 DEF One
    <2>9. 1 \in Among(tasks, Ofs({"reset"}, s)) BY <2>0, <2>2, <2>5 DEF Among
    <2> QED BY <2>3, <2>4, <2>7, <2>8, <2>9
  <1>5. CASE ~last
    <2>0. Len(tasks) = 0 BY <1>3, <1>5
    <2>1. \A i \in 1 .. Len(tasks) : FALSE BY <2>0
    <2>2. \A K : Counted(0, Among(tasks, K)) BY <2>1, AmongNot
    <2>3. One(last) = 0 BY <1>5 DEF One
    <2> QED BY <1>5, <2>1, <2>2, <2>3
  <1> QED BY <1>4, <1>5

(* They rest on what the pin rested on.                                    *)
LEMMA UnpinnedShaped ==
  ASSUME NEW stk, NEW new, NEW t, NEW m, NEW tasks, Stepped(stk, new, t, m, tasks), Shaped(stk),
         NEW s \in Slots, NEW last \in BOOLEAN, Unpinned(s, last, tasks),
         \E e \in 0 .. m - 1 : Covers(TaskAt(stk, t, e), SurfaceOf(s))
  PROVE Shaped(new)
  <1> DEFINE a == Task("reset", s)
             b == Task("clear", s)
  <1>1. /\ a \in Tasks /\ a.op = "reset" /\ a.slot = s
        /\ b \in Tasks /\ b.op = "clear" /\ b.slot = s
    BY ReleaseIs
  <1>2. last => tasks \in Seq(Tasks) /\ Len(tasks) = 2 /\ tasks[1] = a /\ tasks[2] = b
    BY DEF Unpinned
  <1>3. ~last => tasks \in Seq(Tasks) /\ Len(tasks) = 0 BY DEF Unpinned
  <1> HIDE DEF a, b
  <1>4. /\ m \in Nat /\ Len(tasks) \in Nat
        /\ \A i \in 1 .. Len(tasks) : TaskAt(new, t, m + Len(tasks) - i) = tasks[i]
        /\ \A d \in Nat : d < m => TaskAt(new, t, d) = TaskAt(stk, t, d)
    BY SteppedTasks
  <1>5. PICK e \in 0 .. m - 1 : Covers(TaskAt(stk, t, e), SurfaceOf(s)) OBVIOUS
  <1>6. e \in Nat /\ e < m BY <1>4, <1>5
  <1>d. TaskAt(new, t, e) = TaskAt(stk, t, e) BY <1>4, <1>6
  <1>c. Covers(TaskAt(new, t, e), SurfaceOf(s)) BY <1>5, <1>d
  <1>7. \A d : PlaceOK(a, t, d) /\ PlaceOK(b, t, d) BY <1>1 DEF PlaceOK
  <1>8. CASE last
    <2>0. Len(tasks) = 2 /\ tasks[1] = a /\ tasks[2] = b BY <1>2, <1>8
    <2>1. TaskAt(new, t, m + 1) = a /\ TaskAt(new, t, m) = b
      <3>1. 1 \in 1 .. Len(tasks) /\ 2 \in 1 .. Len(tasks) BY <2>0
      <3>2. m + Len(tasks) - 1 = m + 1 /\ m + Len(tasks) - 2 = m BY <2>0, <1>4
      <3>3. /\ TaskAt(new, t, m + Len(tasks) - 1) = tasks[1]
            /\ TaskAt(new, t, m + Len(tasks) - 2) = tasks[2]
        BY <1>4, <3>1
      <3> QED BY <2>0, <3>2, <3>3
    <2>2. BelowOK(new, t, m)
      <3>2. \E f \in 0 .. m - 1 : Covers(TaskAt(new, t, f), SurfaceOf(b.slot))
        BY <1>1, <1>c, <1>5
      <3> QED BY <1>1, <2>1, <3>2 DEF BelowOK
    <2>3. BelowOK(new, t, m + 1)
      <3>1. e \in 0 .. (m + 1) - 1 /\ (m + 1) - 1 = m /\ m + 1 >= 1 BY <1>4, <1>6
      <3>2. \E f \in 0 .. (m + 1) - 1 : Covers(TaskAt(new, t, f), SurfaceOf(a.slot))
        BY <1>1, <1>c, <3>1
      <3> QED BY <1>1, <2>1, <3>1, <3>2 DEF BelowOK
    <2>5. \A i \in 1 .. Len(tasks) : PlaceOK(tasks[i], t, m + Len(tasks) - i) /\
          BelowOK(new, t, m + Len(tasks) - i)
      <3> TAKE i \in 1 .. Len(tasks)
      <3>1. i = 1 \/ i = 2 BY <2>0
      <3>2. CASE i = 1
        <4>1. m + Len(tasks) - i = m + 1 BY <2>0, <1>4, <3>2
        <4> QED BY <2>0, <1>7, <2>3, <3>2, <4>1
      <3>3. CASE i = 2
        <4>1. m + Len(tasks) - i = m BY <2>0, <1>4, <3>3
        <4> QED BY <2>0, <1>7, <2>2, <3>3, <4>1
      <3> QED BY <3>1, <3>2, <3>3
    <2> QED BY <2>5, ShapedStep
  <1>9. CASE ~last
    <2>0. Len(tasks) = 0 BY <1>3, <1>9
    <2>1. \A i \in 1 .. Len(tasks) : FALSE BY <2>0
    <2> QED BY <2>1, ShapedPlain
  <1> QED BY <1>8, <1>9

-----------------------------------------------------------------------------
(* The release of the front buffer's pin keeps the invariant.              *)
LEMMA UnpinFrontStep == ASSUME ScanoutInv, NEW t \in Threads, UnpinFront(t) PROVE ScanoutInv'
  <1> DEFINE s == Head(todo[t]).slot
             m == Len(todo[t]) - 1
             last == nrefs[s] = 1
             tasks == IF last THEN Destroy(s) ELSE <<>>
             A == {"reset", "clear"}
             R == {"unpin"}
  <1>1. /\ At(t, "unpin") /\ nrefs' = [nrefs EXCEPT ![s] = @ - 1] /\ Then(t, tasks)
        /\ UNCHANGED locked /\ UNCHANGED owner /\ UNCHANGED store /\ UNCHANGED completion /\
           UNCHANGED image
        /\ UNCHANGED fills /\ UNCHANGED surfVars /\ UNCHANGED gpuVars /\ UNCHANGED winVars
        /\ UNCHANGED reqVars /\ UNCHANGED schedVars /\ UNCHANGED kmsVars
    BY DEF UnpinFront
  <1>2. TypeOK /\ LayerFits /\ RenderedOK /\ Shaped(todo) /\ SlotSide BY InvIs
  <1>3. UNCHANGED composition /\ UNCHANGED building /\ UNCHANGED winlock /\ UNCHANGED pushes /\
        UNCHANGED layers
        /\ UNCHANGED screen /\ UNCHANGED life /\ UNCHANGED srefs /\ UNCHANGED front /\
           UNCHANGED current
        /\ UNCHANGED gpu /\ UNCHANGED sem
    BY <1>1 DEF winVars, reqVars, kmsVars, surfVars, gpuVars
  <1>t. todo \in Stacks /\ todo[t] # <<>> /\ Head(todo[t]).op = "unpin"
    BY <1>1, <1>2, StacksTyped DEF At
  <1>7. /\ s \in Slots /\ m \in Nat /\ Tok(t, m) \in Pins(s)
        /\ \E e \in 0 .. m - 1 : Covers(TaskAt(todo, t, e), SurfaceOf(s))
    <2>1. LET k == Head(todo[t])
          IN  k \in Tasks /\ m \in Nat /\ Has(todo, t, m) /\ TaskAt(todo, t, m) = k /\
            PlaceOK(k, t, m) /\ BelowOK(todo, t, m)
      BY <1>t, TopOK
    <2>2. s \in Slots BY <1>t, <2>1 DEF PlaceOK
    <2>3. TaskAt(todo, t, m) \in Ofs({"unpin"}, s) BY <1>t, <2>1 DEF Ofs
    <2>4. Tok(t, m) \in Pins(s) BY <1>t, <2>1, <2>2, <2>3, OwnersHave
    <2>5. TaskAt(todo, t, m).op = "unpin" /\ TaskAt(todo, t, m).slot = s BY <1>t, <2>1
    <2> HIDE DEF s, m
    <2>6. \E e \in 0 .. m - 1 : Covers(TaskAt(todo, t, e), SurfaceOf(s))
      BY <2>1, <2>5 DEF BelowOK
    <2> QED BY <2>1, <2>2, <2>4, <2>6
  <1>l. last \in BOOLEAN OBVIOUS
  <1>r. Unpinned(s, last, tasks)
    <2>1. CASE last BY <1>7, <2>1, UnpinnedIs
    <2>2. CASE ~last BY <1>7, <2>2, UnpinnedIs
    <2> QED BY <2>1, <2>2
  <1>v. A \cap RequestSideOps = {} /\ R \cap RequestSideOps = {} /\ "unown" \notin A \cup R
        /\ "unref" \notin A \cup R /\ "fill" \notin A /\ A \cap {"queue", "snapshot"} = {} /\
           "deinit" \notin A
        /\ "present" \notin A /\ \A op : op \in {"reset", "clear"} => op \in A
    BY DEF RequestSideOps
  <1>s. \A ops, z : Counted(One(Head(todo[t]).op \in ops /\ s = z),
          Above(todo, t, m, Ofs(ops, z)))
    BY <1>t, SlotTop
  <1>h. Head(todo[t]).slot = s /\ m = Len(todo[t]) - 1 /\ (nrefs[s] = 1 <=> last) OBVIOUS
  <1> HIDE DEF tasks, A, s, m, last
  <1>4. tasks \in Seq(Tasks) /\ \A i \in 1 .. Len(tasks) : tasks[i].op \in A
    BY <1>7, <1>l, <1>r, <1>v, UnpinnedTasks DEF Unpinned
  <1>5. /\ todo' \in Stacks /\ Stepped(todo, todo', t, m, tasks) /\ Touches(A, R)
    BY <1>1, <1>4, <1>h, PopIs
  <1>q. \A z : Counted(One(s = z), Above(todo, t, m, Ofs({"unpin"}, z)))
    <2> TAKE z
    <2>1. \A ops : Counted(One(Head(todo[t]).op \in ops /\ s = z),
            Above(todo, t, m, Ofs(ops, z)))
      BY <1>s
    <2>2. /\ One(Head(todo[t]).op \in {"unpin"} /\ s = z) = One(s = z)
      BY <1>t DEF One
    <2> QED BY <2>1, <2>2
  <1> HIDE DEF R
  <1>6. Shaped(todo') BY <1>2, <1>5, <1>7, <1>l, <1>r, UnpinnedShaped
  <1>8. nrefs[s] > 0 /\ nrefs[s] \in Nat
    <2>1. Counted(nrefs[s], Owners(s) \cup Pins(s)) BY <1>2, <1>7 DEF SlotSide, SlotsCounted
    <2> QED BY <1>7, <2>1, CountFacts
  <1>9. /\ nrefs' \in [Slots -> Nat] /\ nrefs'[s] = nrefs[s] - 1
        /\ \A z \in Slots : z # s => nrefs'[z] = nrefs[z]
    <2>1. nrefs \in [Slots -> Nat] BY <1>2 DEF TypeOK
    <2>2. nrefs[s] - 1 \in Nat BY <1>8
    <2> QED BY <1>1, <1>7, <2>1, <2>2
  <1>10. TypeOK'
    BY <1>1, <1>2, <1>5, <1>9, TypedNext DEF TypeOK, surfVars, gpuVars, winVars, reqVars,
       schedVars, kmsVars
  <1>11. RenderedOK' BY <1>1, <1>2, <1>3, RenderedKept
  <1>12. LayerFits' BY <1>2, <1>3, <1>5, <1>v, FitsKept
  <1>13. FillFits' /\ StoreFits' /\ DeinitFits' /\ DeinitsDiffer'
    BY <1>1, <1>2, <1>3, <1>5, <1>v, FitsKept, DifferKept DEF SlotSide
  <1>o. \A z \in Slots : Owners(z)' = Owners(z) BY <1>1, <1>3, <1>t, <1>5, <1>v, OwnersKept
  <1>15. SlotsCounted'
    <2> SUFFICES ASSUME NEW z \in Slots PROVE Counted(nrefs'[z], Owners(z)' \cup Pins(z)')
      BY SlotsCountedIs
    <2>1. Counted(0, Among(tasks, Ofs({"unpin"}, z))) BY <1>7, <1>l, <1>r, UnpinnedTasks
    <2> DEFINE g == One(s = z)
               o == 0
               k == 0 - g
    <2>2. Counted(g, Above(todo, t, m, Ofs({"unpin"}, z))) /\
          Counted(o, Among(tasks, Ofs({"unpin"}, z)))
      BY <1>q, <2>1
    <2>3. g \in {0, 1} BY DEF One
    <2>4. k = o - g /\ o \in Int /\ k \in Int /\ o + k = k /\ o = 0 BY <2>3
    <2>5. nrefs[z] + (o + k) = nrefs'[z]
      <3>1. nrefs[z] \in Nat BY <1>2 DEF TypeOK
      <3>2. nrefs'[z] = nrefs[z] - g BY <1>9, <3>1 DEF One
      <3> QED BY <2>3, <3>1, <3>2
    <2> HIDE DEF g, o, k
    <2>8. More(StackSet(todo, Ofs({"unpin"}, z)), StackSet(todo', Ofs({"unpin"}, z)), k)
      BY <1>5, <2>2, <2>4, StackDelta
    <2>b. More(When(front[SurfaceOf(z)] = z, "front"), When(front'[SurfaceOf(z)] = z, "front"),
            0)
      BY <1>3, MoreSame
    <2>9. More(Owners(z), Owners(z)', o) BY <1>o, <2>4, MoreSame
    <2>10. More(Pins(z), Pins(z)', o + k) BY <1>t, <1>5, <2>4, <2>8, <2>b, PinsTasked
    <2>11. More(Pins(z), Pins(z)', k) BY <2>4, <2>10
    <2> QED BY <1>5, <2>4, <2>5, <2>9, <2>11, SlotCount
  <1>16. SurfacesCounted' BY <1>2, <1>3, <1>t, <1>5, <1>v, <1>o, SurfacesKept DEF SlotSide
  <1>17. CleaningOK'
    <2>1. /\ \A i \in 1 .. Len(tasks) : tasks[i].op \in {"reset", "clear"} => tasks[i].slot = s
          /\ Counted(One(last), Among(tasks, Ofs({"clear"}, s)))
          /\ last => Among(tasks, Ofs({"reset"}, s)) # {}
      BY <1>7, <1>l, <1>r, UnpinnedTasks
    <2>2. Counted(One(nrefs[s] = 1), Among(tasks, Ofs({"clear"}, s))) /\
          (nrefs[s] = 1 => Among(tasks, Ofs({"reset"}, s)) # {})
      <3>1. One(nrefs[s] = 1) = One(last) BY <1>h DEF One
      <3> QED BY <1>h, <2>1, <3>1
    <2>3. Head(todo[t]).op \notin {"reset", "clear"} BY <1>t
    <2>4. CleaningOK BY <1>2 DEF SlotSide
    <2>5. /\ TypeOK /\ todo[t] # <<>> /\ m = Len(todo[t]) - 1 /\
                                         Stepped(todo, todo', t, m, tasks)
          /\ s \in Slots /\ Head(todo[t]).slot = s /\ nrefs[s] > 0 /\ nrefs'[s] = nrefs[s] - 1
          /\ \A z \in Slots : z # s => nrefs'[z] = nrefs[z]
          /\ UNCHANGED locked /\ UNCHANGED owner /\ UNCHANGED completion
          /\ \A i \in 1 .. Len(tasks) : tasks[i].op \in {"reset", "clear"} => tasks[i].slot = s
      BY <1>1, <1>2, <1>t, <1>5, <1>7, <1>8, <1>9, <1>h, <2>1
    <2> QED BY <2>2, <2>3, <2>4, <2>5, CleaningDown, SMTT(30)
  <1>18. LivesOK' BY <1>2, <1>3, LivesKept DEF SlotSide
  <1>19. ImagesStable' BY <1>1, <1>2, <1>3, ImagesKept DEF SlotSide
  <1>20. SlotSide' BY <1>13, <1>15, <1>16, <1>17, <1>18, <1>19 DEF SlotSide
  <1> QED BY <1>1, <1>3, <1>5, <1>6, <1>v, <1>10, <1>11, <1>12, <1>20, SlotStep

(* Flutter's release of a backing store keeps the invariant.               *)
LEMMA ReleaseBackingStoreStep ==
  ASSUME ScanoutInv, NEW s \in Slots, ReleaseBackingStore(s)
  PROVE  ScanoutInv'
  <1> DEFINE k == Task("unref", s)
             tasks == <<k>>
             A == {"unref"}
             R == {}
  <1>1. /\ Idle(Raster) /\ store[s] # "none" /\ store' = [store EXCEPT ![s] = "none"]
        /\ todo' = [todo EXCEPT ![Raster] = tasks]
        /\ UNCHANGED locked /\ UNCHANGED owner /\ UNCHANGED nrefs /\ UNCHANGED completion /\
           UNCHANGED image
        /\ UNCHANGED fills /\ UNCHANGED surfVars /\ UNCHANGED gpuVars /\ UNCHANGED winVars /\
           UNCHANGED reqVars
        /\ UNCHANGED schedVars /\ UNCHANGED kmsVars
    BY DEF ReleaseBackingStore
  <1>2. TypeOK /\ LayerFits /\ RenderedOK /\ Shaped(todo) /\ SlotSide BY InvIs
  <1>3. UNCHANGED composition /\ UNCHANGED building /\ UNCHANGED winlock /\ UNCHANGED pushes /\
        UNCHANGED layers
        /\ UNCHANGED screen /\ UNCHANGED life /\ UNCHANGED srefs /\ UNCHANGED front /\
           UNCHANGED current
        /\ UNCHANGED gpu /\ UNCHANGED sem
    BY <1>1 DEF winVars, reqVars, kmsVars, surfVars, gpuVars
  <1>r. Raster \in Threads BY ThreadsAssumption
  <1>4. k \in Tasks /\ k.op = "unref" /\ k.slot = s /\ PlaceOK(k, Raster, 0) BY PlaceIs
  <1> HIDE DEF k
  <1>5. tasks \in Seq(Tasks) /\ Len(tasks) = 1 /\ tasks[1] = k BY <1>4, ListIs
  <1>6. \A z : Counted(One(s = z), Among(tasks, Ofs({"unref"}, z)))
    <2> TAKE z
    <2>1. Counted(One(k.op \in {"unref"} /\ k.slot = z), Among(<<k>>, Ofs({"unref"}, z)))
      BY <1>4, SlotTask
    <2>2. One(k.op \in {"unref"} /\ k.slot = z) = One(s = z) BY <1>4 DEF One
    <2> QED BY <2>1, <2>2
  <1>v. A \cap RequestSideOps = {} /\ R \cap RequestSideOps = {} /\ "unpin" \notin A \cup R
        /\ "unown" \notin A \cup R /\ "fill" \notin A /\ A \cap {"queue", "snapshot"} = {} /\
           "deinit" \notin A
        /\ A \cap {"reset", "clear"} = {} /\ R \cap {"reset", "clear"} = {} /\
           "present" \notin A
    BY DEF RequestSideOps
  <1> HIDE DEF tasks
  <1>7. \A i \in 1 .. Len(tasks) : i = 1 /\ tasks[i] = k BY <1>5
  <1>8. todo \in Stacks /\ todo' \in Stacks /\ Stepped(todo, todo', Raster, 0, tasks) /\
        Touches(A, R)
    <2>1. \A i \in 1 .. Len(tasks) : tasks[i].op \in A BY <1>4, <1>7
    <2> QED BY <1>1, <1>r, <1>5, <2>1, StartIs
  <1>9. Shaped(todo')
    <2>1. \A i \in 1 .. Len(tasks) : PlaceOK(tasks[i], Raster, 0 + Len(tasks) - i) /\
          tasks[i].op \in PlainOps
      <3>1. 0 + Len(tasks) - 1 = 0 BY <1>5
      <3>2. "unref" \in PlainOps BY DEF PlainOps
      <3> QED BY <1>4, <1>7, <3>1, <3>2
    <2> QED BY <1>2, <1>8, <2>1, ShapedPlain
  <1> HIDE DEF A, R
  <1>10. /\ store' \in [Slots -> {"none", "empty", "rendered", "presented"}] /\
            store'[s] = "none"
         /\ \A z \in Slots : z # s => store'[z] = store[z]
    BY <1>1, <1>2 DEF TypeOK
  <1>11. TypeOK'
    BY <1>1, <1>2, <1>8, <1>10, TypedNext DEF TypeOK, surfVars, gpuVars, winVars, reqVars,
       schedVars, kmsVars
  <1>12. RenderedOK'
    <2>1. \A z : InUse(z)' <=> InUse(z) BY <1>3 DEF InUse
    <2>2. \A z \in Slots : /\ InUse(z)' => store'[z] \in {"none", "presented"}
                           /\ completion'[z] = "done" => z \notin gpu'
                           /\ store'[z] \in {"empty", "rendered"} => completion'[z] = "none"
      BY <1>1, <1>2, <1>3, <1>10, <2>1 DEF RenderedOK
    <2> QED BY <1>2, <1>3, <2>2 DEF RenderedOK, ScanoutAfterRender
  <1>13. LayerFits' BY <1>2, <1>3, <1>8, <1>v, FitsKept
  <1>14. FillFits' /\ DeinitFits' /\ DeinitsDiffer'
    BY <1>1, <1>2, <1>3, <1>8, <1>v, FitsKept, DifferKept DEF SlotSide
  <1>15. StoreFits'
    <2>1. StoreFits BY <1>2 DEF SlotSide
    <2>2. \A u \in Threads : \A d \in Nat :
             Has(todo, u, d) /\ TaskAt(todo, u, d).op \in {"queue", "snapshot"} =>
               TaskAt(todo, u, d).slot # s
      BY <1>1, RasterOnly
    <2> QED BY <1>2, <1>8, <1>v, <1>10, <2>1, <2>2, StoresKept
  <1>16. \A z \in Slots : More(Owners(z), Owners(z)', 0)
    <2> TAKE z \in Slots
    <2> DEFINE j == One(s = z)
               g == 0
               w == One(store'[z] # "none") - One(store[z] # "none")
    <2>1. Counted(j, Among(tasks, Ofs({"unref"}, z))) BY <1>6
    <2>2. Counted(g, Above(todo, Raster, 0, Ofs({"unref"}, z))) BY <1>1, AboveIdle DEF Idle
    <2>3. More(When(store[z] # "none", "flutter"), When(store'[z] # "none", "flutter"), w) /\
          w \in Int
      BY WhenMore
    <2>4. j = j - g /\ j \in Int BY DEF One
    <2>5. w + j = 0 BY <1>1, <1>10 DEF One
    <2> HIDE DEF j, g, w
    <2>6. More(StackSet(todo, Ofs({"unref"}, z)), StackSet(todo', Ofs({"unref"}, z)), j)
      BY <1>8, <2>1, <2>2, <2>4, StackDelta
    <2>7. More(Owners(z), Owners(z)', w + j) BY <1>3, <1>8, <2>3, <2>4, <2>6, OwnersTasked
    <2> QED BY <2>5, <2>7
  <1>17. \A z \in Slots : Pins(z)' = Pins(z) BY <1>3, <1>8, <1>v, PinsKept
  <1>18. SlotsCounted'
    <2> SUFFICES ASSUME NEW z \in Slots PROVE Counted(nrefs'[z], Owners(z)' \cup Pins(z)')
      BY SlotsCountedIs
    <2> DEFINE o == 0
    <2>1. nrefs[z] \in Nat BY <1>2 DEF TypeOK
    <2>2. o \in Int /\ nrefs'[z] = nrefs[z] + (o + o) BY <1>1, <2>1
    <2>3. More(Owners(z), Owners(z)', o) /\ More(Pins(z), Pins(z)', o) BY <1>16, <1>17, MoreSame
    <2> HIDE DEF o
    <2> QED BY <1>8, <2>2, <2>3, SlotCount
  <1>19. SurfacesCounted'
    <2> SUFFICES ASSUME NEW x \in Surfaces PROVE Counted(srefs'[x], SurfaceOwners(x)')
      BY SurfacesCountedIs
    <2> DEFINE o == 0
               n == srefs[x] +
                 ((One(current' = x) - One(current = x)) + (o - o) +
                   (IF SurfaceOf(s) = x THEN o ELSE 0))
    <2>1. o \in Int /\ \A z : (IF z = s THEN o ELSE 0) = 0 OBVIOUS
    <2>2. Counted(o, Above(todo, Raster, 0, Ofs({"unown"}, <<x, 0>>)))
      BY <1>1, AboveIdle DEF Idle
    <2>3. Counted(o, Among(tasks, Ofs({"unown"}, <<x, 0>>)))
      <3>1. \A i \in 1 .. Len(tasks) : tasks[i] \notin Ofs({"unown"}, <<x, 0>>)
        BY <1>4, <1>7 DEF Ofs
      <3> QED BY <3>1, AmongNot
    <2>4. srefs[x] \in Nat BY <1>2 DEF TypeOK
    <2>5. One(current' = x) = One(current = x) /\ One(current = x) \in Int BY <1>3, OneIs
    <2>6. n = srefs[x] BY <2>4, <2>5
    <2>7. n = srefs[x] + ((One(current' = x) - One(current = x)) + (o - o) +
            (IF SurfaceOf(s) = x THEN o ELSE 0)) OBVIOUS
    <2> HIDE DEF o, n
    <2>8. \A z \in Slots : More(Owners(z), Owners(z)', IF z = s THEN o ELSE 0) BY <1>16, <2>1
    <2>9. Counted(n, SurfaceOwners(x)') BY <1>8, <2>1, <2>2, <2>3, <2>7, <2>8, SurfaceMore
    <2> QED BY <1>3, <2>6, <2>9
  <1>20. CleaningOK' BY <1>1, <1>2, <1>8, <1>v, CleaningKept DEF SlotSide
  <1>21. LivesOK' /\ ImagesStable' BY <1>1, <1>2, <1>3, LivesKept, ImagesKept DEF SlotSide
  <1>22. SlotSide' BY <1>14, <1>15, <1>18, <1>19, <1>20, <1>21 DEF SlotSide
  <1> QED BY <1>1, <1>3, <1>8, <1>9, <1>v, <1>11, <1>12, <1>13, <1>22, SlotStep

(* A new surface of another size keeps the invariant.                      *)
LEMMA ResizeStep == ASSUME ScanoutInv, Resize PROVE ScanoutInv'
  <1> DEFINE a == Task("unown", <<current, 0>>)
             b == Call("fill")
             tasks == <<a, b>>
             A == {"unown", "fill"}
             R == {}
             y == current + 1
  <1>1. /\ Idle(Raster) /\ fills < MaxFills /\ y \in Surfaces /\ current' = y
        /\ life' = [life EXCEPT ![y] = "live"] /\ srefs' = [srefs EXCEPT ![y] = 1]
        /\ todo' = [todo EXCEPT ![Raster] = tasks]
        /\ UNCHANGED slotVars /\ UNCHANGED front /\ UNCHANGED gpuVars /\ UNCHANGED winVars /\
           UNCHANGED reqVars
        /\ UNCHANGED schedVars /\ UNCHANGED kmsVars
    BY DEF Resize
  <1>2. TypeOK /\ LayerFits /\ RenderedOK /\ Shaped(todo) /\ SlotSide BY InvIs
  <1>3. UNCHANGED composition /\ UNCHANGED building /\ UNCHANGED winlock /\ UNCHANGED pushes /\
        UNCHANGED layers
        /\ UNCHANGED screen /\ UNCHANGED locked /\ UNCHANGED owner /\ UNCHANGED nrefs /\
           UNCHANGED store
        /\ UNCHANGED completion /\ UNCHANGED image /\ UNCHANGED fills /\ UNCHANGED gpu /\
           UNCHANGED sem
    BY <1>1 DEF winVars, reqVars, kmsVars, slotVars, gpuVars
  <1>r. Raster \in Threads BY ThreadsAssumption
  <1>c. current \in Surfaces /\ current \in Nat BY <1>2, SlotIs DEF TypeOK
  <1>4. /\ a \in Tasks /\ a.op = "unown" /\ a.slot = <<current, 0>> /\ PlaceOK(a, Raster, 1)
        /\ b \in Tasks /\ b.op = "fill" /\ PlaceOK(b, Raster, 0)
    <2>1. a \in Tasks /\ a.op = "unown" /\ a.slot = <<current, 0>> /\ PlaceOK(a, Raster, 1)
      BY <1>c, PlaceIs
    <2>2. b \in Tasks /\ b.op = "fill" BY TaskIs DEF Ops
    <2>3. PlaceOK(b, Raster, 0) BY <2>2 DEF PlaceOK
    <2> QED BY <2>1, <2>2, <2>3
  <1> HIDE DEF a, b
  <1>5. tasks \in Seq(Tasks) /\ Len(tasks) = 2 /\ tasks[1] = a /\ tasks[2] = b BY <1>4, ListIs
  <1>6. \A x \in Surfaces : Counted(One(current = x), Among(tasks, Ofs({"unown"}, <<x, 0>>)))
    <2> TAKE x \in Surfaces
    <2>1. Counted(One(a.op \in {"unown"} /\ a.slot = <<x, 0>>) +
            One(b.op \in {"unown"} /\ b.slot = <<x, 0>>),
                  Among(<<a, b>>, Ofs({"unown"}, <<x, 0>>)))
      BY <1>4, SlotTaskTwo
    <2>2. One(a.op \in {"unown"} /\ a.slot = <<x, 0>>) = One(current = x) BY <1>4 DEF One
    <2>3. One(b.op \in {"unown"} /\ b.slot = <<x, 0>>) = 0 BY <1>4 DEF One
    <2>4. One(current = x) + 0 = One(current = x) BY DEF One
    <2> QED BY <2>1, <2>2, <2>3, <2>4
  <1>v. A \cap RequestSideOps = {} /\ R \cap RequestSideOps = {} /\ "unpin" \notin A \cup R
        /\ "unref" \notin A \cup R /\ A \cap {"queue", "snapshot"} = {} /\ "deinit" \notin A
        /\ A \cap {"reset", "clear"} = {} /\ R \cap {"reset", "clear"} = {} /\
           "present" \notin A
        /\ "unown" \in A /\ "fill" \in A /\ "unown" \in PlainOps /\ "fill" \in PlainOps
    BY DEF RequestSideOps, PlainOps
  <1> HIDE DEF tasks, A
  <1>7. \A i \in 1 .. Len(tasks) : i = 1 \/ i = 2 BY <1>5
  <1>8. todo \in Stacks /\ todo' \in Stacks /\ Stepped(todo, todo', Raster, 0, tasks) /\
        Touches(A, R)
    <2>1. \A i \in 1 .. Len(tasks) : tasks[i].op \in A BY <1>4, <1>5, <1>7, <1>v
    <2> QED BY <1>1, <1>r, <1>5, <2>1, StartIs
  <1>9. Shaped(todo')
    <2>1. \A i \in 1 .. Len(tasks) : PlaceOK(tasks[i], Raster, 0 + Len(tasks) - i) /\
          tasks[i].op \in PlainOps
      <3>1. 0 + Len(tasks) - 1 = 1 /\ 0 + Len(tasks) - 2 = 0 BY <1>5
      <3> QED BY <1>4, <1>5, <1>7, <1>v, <3>1
    <2> QED BY <1>2, <1>8, <2>1, ShapedPlain
  <1>y. y \in Surfaces /\ y # current /\ y > current /\ \A x \in Surfaces : x > y => x > current
    BY <1>1, <1>c, SlotIs
  <1> HIDE DEF R, y
  <1>l. LivesOK BY <1>2 DEF SlotSide
  <1>n. life[y] = "new" /\ srefs[y] = 0
    <2>1. life[y] = "new" BY <1>y, <1>l DEF LivesOK
    <2>2. srefs[y] \in Nat BY <1>2, <1>y DEF TypeOK
    <2>3. srefs[y] > 0 => life[y] = "live" BY <1>y, <1>l DEF LivesOK
    <2> QED BY <2>1, <2>2, <2>3
  <1>10. /\ life' \in [Surfaces -> {"new", "live", "freed"}] /\ life'[y] = "live"
         /\ srefs' \in [Surfaces -> Nat] /\ srefs'[y] = 1
         /\ \A x \in Surfaces : x # y => life'[x] = life[x] /\ srefs'[x] = srefs[x]
    BY <1>1, <1>2, <1>y DEF TypeOK
  <1>11. TypeOK'
    BY <1>1, <1>2, <1>8, <1>y, <1>10, TypedNext DEF TypeOK, slotVars, gpuVars, winVars,
       reqVars, schedVars, kmsVars
  <1>12. RenderedOK' BY <1>2, <1>3, RenderedKept
  <1>13. LayerFits' BY <1>2, <1>3, <1>8, <1>v, FitsKept
  <1>14. StoreFits' /\ DeinitsDiffer'
    BY <1>2, <1>3, <1>8, <1>v, FitsKept, DifferKept DEF SlotSide
  <1>15. FillFits' BY <1>1, <1>3 DEF FillFits, Fill1
  <1>16. DeinitFits'
    <2>1. \A x \in Surfaces : \/ srefs'[x] = srefs[x] /\ front'[x] = front[x] /\
                                 life'[x] = life[x]
                              \/ srefs[x] # 0 \/ life[x] # "live"
      BY <1>1, <1>n, <1>10
    <2>2. DeinitFits BY <1>2 DEF SlotSide
    <2> QED BY <1>2, <1>8, <1>v, <2>1, <2>2, DeinitsKept
  <1>17. \A z \in Slots : Owners(z)' = Owners(z) BY <1>3, <1>8, <1>v, OwnersKept
  <1>18. \A z \in Slots : Pins(z)' = Pins(z) BY <1>1, <1>8, <1>v, PinsKept
  <1>19. SlotsCounted' BY <1>2, <1>3, <1>17, <1>18, SlotsKept DEF SlotSide
  <1>20. SurfacesCounted'
    <2> SUFFICES ASSUME NEW x \in Surfaces PROVE Counted(srefs'[x], SurfaceOwners(x)')
      BY SurfacesCountedIs
    <2> DEFINE o == 0
               s == NoSlot
               j == One(current = x)
               n == srefs[x] +
                 ((One(current' = x) - One(current = x)) + (j - o) +
                   (IF SurfaceOf(s) = x THEN o ELSE 0))
    <2>1. o \in Int /\ o = 0 /\ \A z : (IF z = s THEN o ELSE 0) = o OBVIOUS
    <2>2. Counted(o, Above(todo, Raster, 0, Ofs({"unown"}, <<x, 0>>)))
      BY <1>1, AboveIdle DEF Idle
    <2>3. Counted(j, Among(tasks, Ofs({"unown"}, <<x, 0>>))) BY <1>6
    <2>4. srefs[x] \in Nat BY <1>2 DEF TypeOK
    <2>5. n = srefs[x] + One(y = x)
      <3>1. One(current' = x) = One(y = x) BY <1>1
      <3>2. One(y = x) \in Int /\ j \in Int /\ One(current = x) = j BY DEF One
      <3>3. n = srefs[x] + ((One(y = x) - j) + (j - 0) + 0) BY <3>1
      <3> HIDE DEF j, n
      <3> QED BY <2>4, <3>2, <3>3
    <2>6. srefs[x] + One(y = x) = srefs'[x] BY <1>n, <1>10, <2>4 DEF One
    <2>7. n = srefs[x] + ((One(current' = x) - One(current = x)) + (j - o) +
            (IF SurfaceOf(s) = x THEN o ELSE 0)) OBVIOUS
    <2> HIDE DEF o, n, s, j
    <2>8. \A z \in Slots : More(Owners(z), Owners(z)', IF z = s THEN o ELSE 0)
      <3>1. \A z \in Slots : More(Owners(z), Owners(z)', 0) BY <1>17, OwnersStay
      <3> QED BY <2>1, <3>1
    <2>9. Counted(n, SurfaceOwners(x)') BY <1>8, <2>1, <2>2, <2>3, <2>7, <2>8, SurfaceMore
    <2> QED BY <2>5, <2>6, <2>9
  <1>21. CleaningOK' BY <1>2, <1>3, <1>8, <1>v, CleaningKept DEF SlotSide
  <1>22. LivesOK'
    <2> SUFFICES ASSUME NEW x \in Surfaces
                 PROVE /\ srefs'[x] > 0 => life'[x] = "live"
                       /\ x > current' => life'[x] = "new"
                       /\ front'[x] # NoSlot => srefs'[x] > 0 /\ SurfaceOf(front'[x]) = x
      BY DEF LivesOK
    <2>1. /\ srefs[x] > 0 => life[x] = "live"
          /\ x > current => life[x] = "new"
          /\ front[x] # NoSlot => srefs[x] > 0 /\ SurfaceOf(front[x]) = x
      BY <1>l DEF LivesOK
    <2>y. y \in Surfaces BY <1>y
    <2>z. y \in Nat BY <2>y, SlotIs
    <2>2. ~(y > y) BY <2>z
    <2>3. current' = y /\ front' = front BY <1>1
    <2>4. x > current' => x # y /\ x > current BY <1>y, <2>2, <2>3
    <2>5. CASE x = y BY <1>n, <1>10, <2>1, <2>3, <2>4, <2>5
    <2>6. CASE x # y BY <1>10, <2>1, <2>3, <2>4, <2>6
    <2> QED BY <2>5, <2>6
  <1>23. ImagesStable' BY <1>2, <1>3, ImagesKept DEF SlotSide
  <1>24. SlotSide' BY <1>14, <1>15, <1>16, <1>19, <1>20, <1>21, <1>22, <1>23 DEF SlotSide
  <1> QED BY <1>1, <1>3, <1>8, <1>9, <1>v, <1>11, <1>12, <1>13, <1>24, SlotStep

(* Filling takes the only task of the raster thread.                       *)
LEMMA FillTop ==
  ASSUME ScanoutInv, NEW t \in Threads, At(t, "fill"), Then(t, <<>>)
  PROVE /\ todo \in Stacks /\ todo' \in Stacks /\ todo[t] # <<>> /\ t = Raster /\
                                                                    fills < MaxFills
        /\ Stepped(todo, todo', t, 0, <<>>) /\ Touches({}, {"fill"}) /\ Shaped(todo') /\
           todo[t] # <<>>
        /\ Head(todo[t]).op = "fill" /\ Len(todo[t]) - 1 = 0
        /\ \A d \in Nat : Has(todo', t, d) => TaskAt(todo', t, d).op # "fill"
        /\ \A ops, z : "fill" \notin ops => Counted(0, Above(todo, t, 0, Ofs(ops, z)))
  <1> DEFINE m == Len(todo[t]) - 1
  <1>1. \A i \in 1 .. Len(<<>>) : <<>>[i].op \in {} BY ListIs
  <1>2. /\ todo \in Stacks /\ todo' \in Stacks /\ todo[t] # <<>> /\ Head(todo[t]).op = "fill"
        /\ Stepped(todo, todo', t, m, <<>>) /\ Touches({}, {"fill"})
    BY <1>1, ListIs, PopIs
  <1>3. Shaped(todo') BY <1>2, InvIs, ListIs, ShapedPlain
  <1>4. LET k == Head(todo[t])
        IN  m \in Nat /\ PlaceOK(k, t, m) /\ Fill1(k)
    BY <1>2, TopOK
  <1>s. \A ops, z : Counted(One(Head(todo[t]).op \in ops /\ Head(todo[t]).slot = z),
          Above(todo, t, m, Ofs(ops, z)))
    BY <1>2, SlotTop
  <1>h. m = Len(todo[t]) - 1 OBVIOUS
  <1> HIDE DEF m
  <1>5. m = 0 /\ t = Raster BY <1>2, <1>4 DEF PlaceOK
  <1>6. fills < MaxFills BY <1>2, <1>4 DEF Fill1
  <1>7. Stepped(todo, todo', t, 0, <<>>) BY <1>2, <1>5
  <1>8. Len(todo'[t]) = 0
    <2>1. Len(todo'[t]) = 0 + Len(<<>>) BY <1>7 DEF Stepped
    <2> QED BY <2>1, ListIs
  <1>9. \A d \in Nat : ~Has(todo', t, d) BY <1>8 DEF Has
  <1>10. \A ops, z : "fill" \notin ops => Counted(0, Above(todo, t, 0, Ofs(ops, z)))
    <2> SUFFICES ASSUME NEW ops, NEW z, "fill" \notin ops
                 PROVE  Counted(0, Above(todo, t, 0, Ofs(ops, z))) OBVIOUS
    <2>1. One(Head(todo[t]).op \in ops /\ Head(todo[t]).slot = z) = 0 BY <1>2 DEF One
    <2>2. Counted(One(Head(todo[t]).op \in ops /\ Head(todo[t]).slot = z),
            Above(todo, t, 0, Ofs(ops, z)))
      BY <1>s, <1>5
    <2> QED BY <2>1, <2>2
  <1> QED BY <1>2, <1>3, <1>5, <1>6, <1>7, <1>9, <1>10, <1>h

(* No slot is free.                                                        *)
LEMMA FillNoneStep ==
  ASSUME ScanoutInv, NEW t \in Threads, At(t, "fill"), Then(t, <<>>), UNCHANGED slotVars,
         UNCHANGED srefs,
         UNCHANGED <<life, front, current, gpuVars, winVars, reqVars, schedVars, kmsVars>>
  PROVE ScanoutInv'
  <1> DEFINE A == {}
             R == {"fill"}
  <1>1. /\ UNCHANGED life /\ UNCHANGED front /\ UNCHANGED current /\ UNCHANGED gpuVars /\
           UNCHANGED winVars
        /\ UNCHANGED reqVars /\ UNCHANGED schedVars /\ UNCHANGED kmsVars
    OBVIOUS
  <1>2. TypeOK /\ LayerFits /\ RenderedOK /\ Shaped(todo) /\ SlotSide BY InvIs
  <1>3. UNCHANGED composition /\ UNCHANGED building /\ UNCHANGED winlock /\ UNCHANGED pushes /\
        UNCHANGED layers
        /\ UNCHANGED screen /\ UNCHANGED locked /\ UNCHANGED owner /\ UNCHANGED nrefs /\
           UNCHANGED store
        /\ UNCHANGED completion /\ UNCHANGED image /\ UNCHANGED fills /\ UNCHANGED gpu /\
           UNCHANGED sem
    BY <1>1 DEF winVars, reqVars, kmsVars, slotVars, gpuVars
  <1>4. /\ todo \in Stacks /\ todo' \in Stacks /\ Stepped(todo, todo', t, 0, <<>>) /\
           Touches(A, R) /\ Shaped(todo')
    BY FillTop
  <1>v. A \cap RequestSideOps = {} /\ R \cap RequestSideOps = {} /\ "unpin" \notin A \cup R
        /\ "unref" \notin A \cup R /\ A \cap {"queue", "snapshot"} = {} /\ "deinit" \notin A /\
           "unown" \notin A \cup R
        /\ A \cap {"reset", "clear"} = {} /\ R \cap {"reset", "clear"} = {} /\
           "present" \notin A /\ "fill" \notin A
    BY DEF RequestSideOps
  <1> HIDE DEF A, R
  <1>5. TypeOK'
    BY <1>1, <1>2, <1>4, TypedNext DEF TypeOK, slotVars, gpuVars, winVars, reqVars,
       schedVars, kmsVars
  <1>6. RenderedOK' BY <1>2, <1>3, RenderedKept
  <1>7. LayerFits' BY <1>2, <1>3, <1>4, <1>v, FitsKept
  <1>8. FillFits' /\ StoreFits' /\ DeinitFits' /\ DeinitsDiffer'
    BY <1>1, <1>2, <1>3, <1>4, <1>v, FitsKept, DifferKept DEF SlotSide
  <1>9. \A z \in Slots : Owners(z)' = Owners(z) BY <1>3, <1>4, <1>v, OwnersKept
  <1>10. \A z \in Slots : Pins(z)' = Pins(z) BY <1>1, <1>4, <1>v, PinsKept
  <1>11. SlotsCounted' BY <1>2, <1>3, <1>9, <1>10, SlotsKept DEF SlotSide
  <1>12. SurfacesCounted' BY <1>1, <1>2, <1>4, <1>v, <1>9, SurfacesKept DEF SlotSide
  <1>13. CleaningOK' BY <1>2, <1>3, <1>4, <1>v, CleaningKept DEF SlotSide
  <1>14. LivesOK' /\ ImagesStable' BY <1>1, <1>2, <1>3, LivesKept, ImagesKept DEF SlotSide
  <1>15. SlotSide' BY <1>8, <1>11, <1>12, <1>13, <1>14 DEF SlotSide
  <1> QED BY <1>1, <1>3, <1>4, <1>v, <1>5, <1>6, <1>7, <1>15, SlotStep

(* A free slot is taken.                                                   *)
LEMMA FillSlotStep ==
  ASSUME ScanoutInv, NEW t \in Threads, At(t, "fill"), Then(t, <<>>), NEW s \in FreeSlots,
         locked' = [locked EXCEPT ![s] = TRUE], completion' = [completion EXCEPT ![s] = "none"],
         owner' = [owner EXCEPT ![s] = TRUE], nrefs' = [nrefs EXCEPT ![s] = 1],
           store' = [store EXCEPT ![s] = "empty"],
         srefs' = [srefs EXCEPT ![current] = @ + 1], image' = [image EXCEPT ![s] = fills + 1],
           fills' = fills + 1,
         UNCHANGED <<life, front, current, gpuVars, winVars, reqVars, schedVars, kmsVars>>
  PROVE ScanoutInv'
  <1> DEFINE A == {}
             R == {"fill"}
             tasks == <<>>
  <1>1. /\ UNCHANGED life /\ UNCHANGED front /\ UNCHANGED current /\ UNCHANGED gpuVars /\
           UNCHANGED winVars
        /\ UNCHANGED reqVars /\ UNCHANGED schedVars /\ UNCHANGED kmsVars
    OBVIOUS
  <1>2. TypeOK /\ LayerFits /\ RenderedOK /\ Shaped(todo) /\ SlotSide BY InvIs
  <1>3. UNCHANGED composition /\ UNCHANGED building /\ UNCHANGED winlock /\ UNCHANGED pushes /\
        UNCHANGED layers
        /\ UNCHANGED screen /\ UNCHANGED gpu /\ UNCHANGED sem
    BY <1>1 DEF winVars, reqVars, kmsVars, gpuVars
  <1>4. /\ todo \in Stacks /\ todo' \in Stacks /\ Stepped(todo, todo', t, 0, tasks) /\
           Touches(A, R) /\ Shaped(todo')
        /\ t = Raster /\ fills < MaxFills
        /\ \A d \in Nat : Has(todo', t, d) => TaskAt(todo', t, d).op # "fill"
        /\ \A ops, z : "fill" \notin ops => Counted(0, Above(todo, t, 0, Ofs(ops, z)))
    BY FillTop
  <1>5. s \in Slots /\ ~locked[s] /\ SurfaceOf(s) = current
    <2>1. s \in {current} \X Pool /\ ~locked[s] BY DEF FreeSlots
    <2>2. current \in Surfaces BY <1>2 DEF TypeOK
    <2> QED BY <2>1, <2>2 DEF Slots, SurfaceOf
  <1>6. nrefs[s] = 0 /\ store[s] = "none" /\ ~InUse(s) BY <1>5, FreeIs
  <1>7. current \in Surfaces /\ srefs[current] > 0 /\ srefs[current] \in Nat /\
        life[current] = "live"
    BY WindowSurface
  <1>v. A \cap RequestSideOps = {} /\ R \cap RequestSideOps = {} /\ "unpin" \notin A \cup R
        /\ "unref" \notin A \cup R /\ A \cap {"queue", "snapshot"} = {} /\ "deinit" \notin A /\
           "unown" \notin A \cup R
        /\ A \cap {"reset", "clear"} = {} /\ R \cap {"reset", "clear"} = {} /\
           "present" \notin A /\ "fill" \notin A
    BY DEF RequestSideOps
  <1>w. \A K : Counted(0, Among(tasks, K)) BY AmongNone
  <1> HIDE DEF A, R, tasks
  <1>8. /\ locked' \in [Slots -> BOOLEAN] /\ locked'[s] /\ owner' \in [Slots -> BOOLEAN] /\
           owner'[s]
        /\ nrefs' \in [Slots -> Nat] /\ nrefs'[s] = 1
        /\ \A z \in Slots : z # s =>
           locked'[z] = locked[z] /\ owner'[z] = owner[z] /\ nrefs'[z] = nrefs[z]
    BY <1>2, <1>5 DEF TypeOK
  <1>9. /\ store' \in [Slots -> {"none", "empty", "rendered", "presented"}] /\
           store'[s] = "empty"
        /\ completion' \in [Slots -> {"none", "fence", "done"}] /\ completion'[s] = "none"
        /\ \A z \in Slots : z # s => store'[z] = store[z] /\ completion'[z] = completion[z]
    BY <1>2, <1>5 DEF TypeOK
  <1>10. /\ fills' \in Images /\ image' \in [Slots -> Images] /\
            \A z \in Slots : z # s => image'[z] = image[z]
    <2>1. fills \in Nat /\ fills + 1 \in Images
      BY <1>2, <1>4, BoundsAssumption DEF TypeOK, Images
    <2> QED BY <1>2, <1>5, <2>1 DEF TypeOK
  <1>11. /\ srefs' \in [Surfaces -> Nat] /\ srefs'[current] = srefs[current] + 1
         /\ \A x \in Surfaces : x # current => srefs'[x] = srefs[x]
    BY <1>2, <1>7 DEF TypeOK
  <1>12. TypeOK'
    <2>1. UNCHANGED refs /\ UNCHANGED waiting /\ UNCHANGED queued /\ UNCHANGED inflight /\
          UNCHANGED callback /\ UNCHANGED flips /\ UNCHANGED lost
      BY <1>1 DEF reqVars, schedVars, kmsVars
    <2>2. /\ locked' \in [Slots -> BOOLEAN] /\ owner' \in [Slots -> BOOLEAN] /\
             nrefs' \in [Slots -> Nat]
          /\ store' \in [Slots -> {"none", "empty", "rendered", "presented"}]
          /\ completion' \in [Slots -> {"none", "fence", "done"}]
          /\ image' \in [Slots -> Images] /\ fills' \in Images /\ srefs' \in [Surfaces -> Nat]
      BY <1>8, <1>9, <1>10, <1>11
    <2>3. (todo \in [Threads -> Seq(Tasks)])' BY <1>4, TypedNext
    <2> QED BY <1>1, <1>2, <1>3, <2>1, <2>2, <2>3, ZenonT(60) DEF TypeOK
  <1>13. RenderedOK'
    <2>1. \A z : InUse(z)' <=> InUse(z) BY <1>3 DEF InUse
    <2>2. \A z \in Slots : /\ InUse(z)' => store'[z] \in {"none", "presented"}
                           /\ completion'[z] = "done" => z \notin gpu'
                           /\ store'[z] \in {"empty", "rendered"} => completion'[z] = "none"
      BY <1>2, <1>3, <1>6, <1>9, <2>1 DEF RenderedOK
    <2> QED BY <1>2, <1>3, <2>2 DEF RenderedOK, ScanoutAfterRender
  <1>14. LayerFits' BY <1>2, <1>3, <1>4, <1>v, FitsKept
  <1>15. FillFits' BY <1>4, <1>v, FillsIdle
  <1>16. StoreFits'
    <2>1. StoreFits BY <1>2 DEF SlotSide
    <2>2. \A u \in Threads : \A d \in Nat :
             Has(todo, u, d) /\ TaskAt(todo, u, d).op \in {"queue", "snapshot"} =>
               TaskAt(todo, u, d).slot # s
      BY <1>6, <2>1 DEF StoreFits, Store1
    <2> QED BY <1>2, <1>4, <1>v, <1>9, <2>1, <2>2, StoresKept
  <1>17. DeinitFits'
    <2>1. \A x \in Surfaces : \/ srefs'[x] = srefs[x] /\ front'[x] = front[x] /\
                                 life'[x] = life[x]
                              \/ srefs[x] # 0 \/ life[x] # "live"
      BY <1>1, <1>7, <1>11
    <2>2. DeinitFits BY <1>2 DEF SlotSide
    <2> QED BY <1>2, <1>4, <1>v, <2>1, <2>2, DeinitsKept
  <1>18. DeinitsDiffer' BY <1>2, <1>4, <1>v, DifferKept DEF SlotSide
  <1>19. \A z \in Slots : More(Owners(z), Owners(z)', IF z = s THEN 1 ELSE 0)
    <2> TAKE z \in Slots
    <2> DEFINE o == 0
               w == One(store'[z] # "none") - One(store[z] # "none")
    <2>1. Counted(o, Among(tasks, Ofs({"unref"}, z))) BY <1>w
    <2>2. Counted(o, Above(todo, t, 0, Ofs({"unref"}, z))) BY <1>4
    <2>3. More(When(store[z] # "none", "flutter"), When(store'[z] # "none", "flutter"), w) /\
          w \in Int
      BY WhenMore
    <2>4. o = o - o /\ o \in Int OBVIOUS
    <2>5. w + o = IF z = s THEN 1 ELSE 0 BY <1>6, <1>9 DEF One
    <2> HIDE DEF o, w
    <2>6. More(StackSet(todo, Ofs({"unref"}, z)), StackSet(todo', Ofs({"unref"}, z)), o)
      BY <1>4, <2>1, <2>2, <2>4, StackDelta
    <2>7. More(Owners(z), Owners(z)', w + o) BY <1>3, <1>4, <2>3, <2>4, <2>6, OwnersTasked
    <2> QED BY <2>5, <2>7
  <1>20. \A z \in Slots : Pins(z)' = Pins(z) BY <1>1, <1>4, <1>v, PinsKept
  <1>21. SlotsCounted'
    <2> SUFFICES ASSUME NEW z \in Slots PROVE Counted(nrefs'[z], Owners(z)' \cup Pins(z)')
      BY SlotsCountedIs
    <2> DEFINE o == 0
               k == IF z = s THEN 1 ELSE 0
    <2>1. nrefs[z] \in Nat BY <1>2 DEF TypeOK
    <2>2. o \in Int /\ k \in Int /\ nrefs'[z] = nrefs[z] + (k + o) BY <1>6, <1>8, <2>1
    <2>3. More(Owners(z), Owners(z)', k) /\ More(Pins(z), Pins(z)', o) BY <1>19, <1>20, MoreSame
    <2> HIDE DEF o, k
    <2> QED BY <1>4, <2>2, <2>3, SlotCount
  <1>22. SurfacesCounted'
    <2> SUFFICES ASSUME NEW x \in Surfaces PROVE Counted(srefs'[x], SurfaceOwners(x)')
      BY SurfacesCountedIs
    <2> DEFINE o == 0
               k == 1
               n == srefs[x] +
                 ((One(current' = x) - One(current = x)) + (o - o) +
                   (IF SurfaceOf(s) = x THEN k ELSE 0))
    <2>1. k \in Int /\ \A z : (IF z = s THEN k ELSE 0) = (IF z = s THEN 1 ELSE 0) OBVIOUS
    <2>2. Counted(o, Above(todo, t, 0, Ofs({"unown"}, <<x, 0>>))) BY <1>4
    <2>3. Counted(o, Among(tasks, Ofs({"unown"}, <<x, 0>>))) BY <1>w
    <2>4. srefs[x] \in Nat BY <1>2 DEF TypeOK
    <2>5. One(current' = x) = One(current = x) /\ One(current = x) \in Int BY <1>1, OneIs
    <2>6. n = srefs'[x] BY <1>5, <1>11, <2>4, <2>5
    <2>7. n = srefs[x] + ((One(current' = x) - One(current = x)) + (o - o) +
            (IF SurfaceOf(s) = x THEN k ELSE 0)) OBVIOUS
    <2> HIDE DEF o, n, k
    <2>8. \A z \in Slots : More(Owners(z), Owners(z)', IF z = s THEN k ELSE 0) BY <1>19, <2>1
    <2>9. Counted(n, SurfaceOwners(x)') BY <1>4, <1>5, <2>1, <2>2, <2>3, <2>7, <2>8, SurfaceMore
    <2> QED BY <2>6, <2>9
  <1>23. CleaningOK'
    <2>1. CleaningOK BY <1>2 DEF SlotSide
    <2>2. \A z \in Slots : z # s => /\ nrefs'[z] = nrefs[z] /\ locked'[z] = locked[z]
                                    /\ owner'[z] = owner[z] /\ completion'[z] = completion[z]
      BY <1>8, <1>9
    <2>3. nrefs'[s] > 0 /\ locked'[s] /\ owner'[s] /\ (nrefs[s] > 0 \/ ~locked[s]) BY <1>5, <1>8
    <2> QED BY <1>2, <1>4, <1>v, <1>12, <2>1, <2>2, <2>3, CleaningUp
  <1>24. LivesOK'
    <2>1. LivesOK BY <1>2 DEF SlotSide
    <2> SUFFICES ASSUME NEW x \in Surfaces
                 PROVE /\ srefs'[x] > 0 => life'[x] = "live"
                       /\ x > current' => life'[x] = "new"
                       /\ front'[x] # NoSlot => srefs'[x] > 0 /\ SurfaceOf(front'[x]) = x
      BY DEF LivesOK
    <2>2. /\ srefs[x] > 0 => life[x] = "live"
          /\ x > current => life[x] = "new"
          /\ front[x] # NoSlot => srefs[x] > 0 /\ SurfaceOf(front[x]) = x
      BY <2>1 DEF LivesOK
    <2>3. CASE x = current BY <1>1, <1>7, <1>11, <2>2, <2>3
    <2>4. CASE x # current BY <1>1, <1>11, <2>2, <2>4
    <2> QED BY <2>3, <2>4
  <1>25. ImagesStable'
    <2>1. ImagesStable BY <1>2 DEF SlotSide
    <2>2. \A seq \in {composition, building} \cup {layers[r] : r \in Requests} :
          \A i \in DOMAIN seq : seq[i].slot # s
      BY <1>6 DEF InUse
    <2>3. \A z : z # s => locked'[z] = locked[z] /\ image'[z] = image[z] OBVIOUS
    <2> QED BY <1>3, <2>1, <2>2, <2>3 DEF ImagesStable
  <1>26. SlotSide' BY <1>15, <1>16, <1>17, <1>18, <1>21, <1>22, <1>23, <1>24, <1>25 DEF SlotSide
  <1> QED BY <1>1, <1>3, <1>4, <1>v, <1>12, <1>13, <1>14, <1>26, SlotStep

(* Both keep the invariant.                                                *)
LEMMA FillStep == ASSUME ScanoutInv, NEW t \in Threads, Fill(t) PROVE ScanoutInv'
  <1>1. /\ At(t, "fill") /\ Then(t, <<>>)
        /\ UNCHANGED <<life, front, current, gpuVars, winVars, reqVars, schedVars, kmsVars>>
    BY DEF Fill
  <1>2. CASE UNCHANGED <<slotVars, srefs>> BY <1>1, <1>2, FillNoneStep
  <1>3. CASE \E s \in FreeSlots :
                /\ locked' = [locked EXCEPT ![s] = TRUE] /\
                   completion' = [completion EXCEPT ![s] = "none"]
                /\ owner' = [owner EXCEPT ![s] = TRUE] /\ nrefs' = [nrefs EXCEPT ![s] = 1]
                /\ store' = [store EXCEPT ![s] = "empty"] /\
                   srefs' = [srefs EXCEPT ![current] = @ + 1]
                /\ image' = [image EXCEPT ![s] = fills + 1] /\ fills' = fills + 1
    BY <1>1, <1>3, FillSlotStep
  <1> QED BY <1>2, <1>3 DEF Fill

-----------------------------------------------------------------------------
(* The layers that Flutter presents, and the push behind them.             *)
PresentList(stores, p) == [i \in DOMAIN stores |-> Task("queue",
  stores[i])] \o <<ReqTask("push", p)>>

Listed(stores, p, n, tasks) ==
    /\ n \in Nat /\ tasks \in Seq(Tasks) /\ Len(tasks) = n + 1
    /\ \A i \in 1 .. n : /\ tasks[i].op = "queue" /\ tasks[i].slot = stores[i] /\
                            tasks[i].slot \in Slots
    /\ tasks[n + 1].op = "push" /\ tasks[n + 1].req = p

(* What is in the list of a presentation.                                  *)
LEMMA ListTasks ==
  ASSUME NEW n \in Nat, NEW stores \in [1 .. n -> Slots], NEW p \in Requests
  PROVE Listed(stores, p, n, PresentList(stores, p))
  <1> DEFINE a == [i \in DOMAIN stores |-> Task("queue", stores[i])]
             c == ReqTask("push", p)
             b == <<c>>
             tasks == a \o b
  <1>1. DOMAIN stores = 1 .. n OBVIOUS
  <1>2. \A i \in 1 .. n : a[i] \in Tasks /\ a[i].op = "queue" /\ a[i].slot = stores[i] /\
        stores[i] \in Slots
    BY <1>1, TaskIs DEF Ops
  <1>3. a \in Seq(Tasks) /\ Len(a) = n
    <2>1. a \in [1 .. n -> Tasks] BY <1>1, <1>2
    <2> HIDE DEF a
    <2> QED BY <1>1, <2>1, MapIs
  <1>4. c \in Tasks /\ c.op = "push" /\ c.req = p BY TaskIs DEF Ops
  <1>5. tasks = a \o b OBVIOUS
  <1>6. tasks = PresentList(stores, p) BY DEF PresentList
  <1> HIDE DEF a, c, tasks
  <1>7. b \in Seq(Tasks) /\ Len(b) = 1 /\ b[1] = c BY <1>4, ListIs
  <1> HIDE DEF b
  <1> DEFINE k == 1
  <1>8. n = Len(a) /\ k = Len(b) /\ 1 \in 1 .. k BY <1>3, <1>7
  <1> HIDE DEF k
  <1>9. /\ tasks \in Seq(Tasks) /\ Len(tasks) = n + k
        /\ \A i \in 1 .. n : tasks[i] = a[i]
        /\ \A i \in 1 .. k : tasks[n + i] = b[i]
    <2>1. a \in Seq(Tasks) /\ b \in Seq(Tasks) /\ n = Len(a) /\ k = Len(b) BY <1>3, <1>7, <1>8
    <2> QED BY <1>5, <2>1, JoinParts
  <1>10. Len(tasks) = n + 1 BY <1>9 DEF k
  <1>11. tasks[n + 1] = c BY <1>7, <1>8, <1>9
  <1>12. Listed(stores, p, n, tasks) BY <1>2, <1>4, <1>9, <1>10, <1>11 DEF Listed
  <1> QED BY <1>6, <1>12

(* It rests on nothing.                                                    *)
LEMMA ListShaped ==
  ASSUME NEW n, NEW p \in Requests, NEW stores, NEW tasks, Listed(stores, p, n, tasks),
         Stepped(todo, todo', Raster, 0, tasks), Shaped(todo)
  PROVE Shaped(todo')
  <1>0. n \in Nat /\ Len(tasks) = n + 1 BY DEF Listed
  <1>1. \A i \in 1 .. n + 1 : 0 + Len(tasks) - i \in Nat /\
        TaskAt(todo', Raster, 0 + Len(tasks) - i) = tasks[i]
    BY <1>0, SteppedTasks
  <1>2. \A d \in 0 .. n : n + 1 - d \in 1 .. n + 1 /\ 0 + Len(tasks) - (n + 1 - d) = d BY <1>0
  <1>3. \A d \in 0 .. n : TaskAt(todo', Raster, d) = tasks[n + 1 - d]
    <2> TAKE d \in 0 .. n
    <2> DEFINE i == n + 1 - d
    <2>1. i \in 1 .. n + 1 /\ 0 + Len(tasks) - i = d BY <1>2
    <2> HIDE DEF i
    <2>2. TaskAt(todo', Raster, d) = tasks[i] BY <1>1, <2>1
    <2> QED BY <2>2 DEF i
  <1>4. \A i \in 1 .. n + 1 : tasks[i].op \in {"queue", "push"}
    <2> TAKE i \in 1 .. n + 1
    <2>1. i \in 1 .. n \/ i = n + 1 BY <1>0
    <2> QED BY <2>1 DEF Listed
  <1>5. \A e \in 0 .. n : TaskAt(todo', Raster, e).op \in {"queue", "push"} BY <1>2, <1>3, <1>4
  <1>6. ASSUME NEW i \in 1 .. Len(tasks)
        PROVE PlaceOK(tasks[i], Raster, 0 + Len(tasks) - i) /\
              BelowOK(todo', Raster, 0 + Len(tasks) - i)
    <2> DEFINE d == 0 + Len(tasks) - i
    <2>0. d \in Nat /\ d \in 0 .. n /\ TaskAt(todo', Raster, d) = tasks[i] BY <1>0, <1>1
    <2>1. CASE i \in 1 .. n
      <3> HIDE DEF d
      <3>1. \A e \in 0 .. d - 1 : TaskAt(todo', Raster, e).op \in {"queue", "push"}
        <4>1. \A e \in 0 .. d - 1 : e \in 0 .. n BY <1>0, <2>0
        <4> QED BY <1>5, <4>1
      <3>2. tasks[i].op = "queue" /\ tasks[i].slot \in Slots BY <2>1 DEF Listed
      <3>3. PlaceOK(tasks[i], Raster, d) BY <3>2 DEF PlaceOK
      <3>4. BelowOK(todo', Raster, d) BY <2>0, <3>1, <3>2 DEF BelowOK
      <3> QED BY <3>3, <3>4 DEF d
    <2>2. CASE i = n + 1
      <3>1. d = 0 BY <1>0, <2>2
      <3> HIDE DEF d
      <3>2. tasks[i].op = "push" /\ tasks[i].req = p BY <2>2 DEF Listed
      <3>3. PlaceOK(tasks[i], Raster, d) BY <3>1, <3>2 DEF PlaceOK
      <3>4. BelowOK(todo', Raster, d) BY <2>0, <3>2, BelowPlain DEF PlainOps
      <3> QED BY <3>3, <3>4 DEF d
    <2>3. i \in 1 .. n \/ i = n + 1 BY <1>0
    <2> QED BY <2>1, <2>2, <2>3
  <1> QED BY <1>6, ShapedStep

(* Flutter's presentation of its layers keeps the invariant.               *)
LEMMA PresentLayersStep ==
  ASSUME ScanoutInv, NEW n \in 1 .. MaxLayers, NEW stores \in [1 .. n -> Slots],
         PresentLayers(stores)
  PROVE ScanoutInv'
  <1> DEFINE p == pushes + 1
             tasks == PresentList(stores, p)
             A == {"queue", "push"}
             R == {}
  <1>1. /\ Idle(Raster) /\ pushes < MaxRequests /\ pushes' = p /\
           todo' = [todo EXCEPT ![Raster] = tasks]
        /\ \A i \in DOMAIN stores : store[stores[i]] \in {"rendered", "presented"}
        /\ UNCHANGED slotVars /\ UNCHANGED surfVars /\ UNCHANGED gpuVars /\
           UNCHANGED composition /\ UNCHANGED building
        /\ UNCHANGED winlock /\ UNCHANGED reqVars /\ UNCHANGED schedVars /\ UNCHANGED kmsVars
    BY DEF PresentLayers, PresentList
  <1>2. TypeOK /\ LayerFits /\ RenderedOK /\ Shaped(todo) /\ SlotSide /\ RequestSide BY InvIs
  <1>3. /\ UNCHANGED locked /\ UNCHANGED owner /\ UNCHANGED nrefs /\ UNCHANGED store /\
           UNCHANGED completion
        /\ UNCHANGED image /\ UNCHANGED fills /\ UNCHANGED life /\ UNCHANGED srefs /\
           UNCHANGED front /\ UNCHANGED current
        /\ UNCHANGED refs /\ UNCHANGED layers /\ UNCHANGED waiting /\ UNCHANGED queued /\
           UNCHANGED screen
    BY <1>1 DEF slotVars, surfVars, reqVars, schedVars, kmsVars
  <1>4. pushes \in Nat /\ p \in Requests /\ p \in 0 .. MaxRequests /\ n \in Nat
    BY <1>1, <1>2, BoundsAssumption DEF TypeOK, Requests
  <1>r. Raster \in Threads BY ThreadsAssumption
  <1>p. pushes' = pushes + 1 /\ p = pushes + 1 BY <1>1
  <1> HIDE DEF p
  <1>5. Listed(stores, p, n, tasks) BY <1>4, ListTasks
  <1>v. A \cap SlotSideOps = {"queue"} /\ "unpin" \notin A \cup R /\ "unref" \notin A \cup R
        /\ "unown" \notin A \cup R /\ "fill" \notin A /\ "deinit" \notin A
        /\ A \cap {"reset", "clear"} = {} /\ R \cap {"reset", "clear"} = {} /\
           "present" \notin A
        /\ "submit" \notin A /\ A \cap BatonOps = {} /\ R \cap BatonOps = {} /\
           A \cap ReqOps = {} /\ R \cap ReqOps = {}
        /\ A \cap {"build", "unlock"} = {}
    BY DEF SlotSideOps, BatonOps, ReqOps
  <1>6. tasks \in Seq(Tasks) /\
        \A i \in 1 .. Len(tasks) : tasks[i].op \in A /\ (i \in 1 .. n \/ i = n + 1)
    <2> HIDE DEF tasks
    <2>1. tasks \in Seq(Tasks) /\ Len(tasks) = n + 1 /\ n \in Nat BY <1>5 DEF Listed
    <2>2. \A i \in 1 .. Len(tasks) : i \in 1 .. n \/ i = n + 1 BY <2>1
    <2> QED BY <1>5, <2>1, <2>2 DEF Listed
  <1> HIDE DEF tasks, A, R
  <1>8. todo \in Stacks /\ todo' \in Stacks /\ Stepped(todo, todo', Raster, 0, tasks) /\
        Touches(A, {})
    BY <1>1, <1>r, <1>6, StartIs
  <1>9. Touches(A, R) BY <1>8 DEF R
  <1>10. Shaped(todo') BY <1>2, <1>4, <1>5, <1>8, ListShaped
  <1>11. TypeOK'
    BY <1>1, <1>2, <1>4, <1>8, TypedNext DEF TypeOK, slotVars, surfVars, gpuVars, reqVars,
       schedVars, kmsVars
  <1>12. PushFits' /\ PushesDiffer' /\ LayersCounted'
    <2> DEFINE q == n + 1
    <2>1. q \in 1 .. Len(tasks) BY <1>5 DEF Listed
    <2>2. \A i \in 1 .. Len(tasks) : tasks[i].op \in {"push", "build"} =>
          i = q /\ tasks[i].req = pushes + 1
      BY <1>5, <1>6, <1>p DEF Listed
    <2> HIDE DEF q
    <2>3. pushes' = pushes + 1 /\ pushes' \in Requests BY <1>p, <1>4
    <2> QED BY <1>3, <1>8, <2>1, <2>2, <2>3, PushAdded
  <1>13. LockFits' /\ SubmitFits' /\ LayerFits'
    BY <1>1, <1>2, <1>3, <1>9, <1>v, FitsKept DEF RequestSide
  <1>14. BatonsOK' BY <1>1, <1>2, <1>3, <1>9, <1>v, BatonsKept DEF RequestSide
  <1>15. RequestsCounted' BY <1>1, <1>2, <1>3, <1>8, <1>9, <1>v, RequestsKept DEF RequestSide
  <1>16. RequestSide' BY <1>12, <1>13, <1>14, <1>15 DEF RequestSide
  <1>17. RenderedOK' BY <1>1, <1>3, RenderedStays
  <1>18. FillFits' /\ DeinitFits' /\ DeinitsDiffer'
    BY <1>2, <1>3, <1>9, <1>v, FitsKept, DifferKept DEF SlotSide
  <1>19. StoreFits'
    <2> SUFFICES ASSUME NEW u \in Threads, NEW d \in Nat, Has(todo', u, d),
                        TaskAt(todo', u, d).op \in {"queue", "snapshot"}
                 PROVE LET k == TaskAt(todo', u, d)
                       IN  /\ k.op = "queue" => store'[k.slot] \in {"rendered", "presented"}
                           /\ k.op = "snapshot" => store'[k.slot] = "presented"
      BY DEF StoreFits, Store1
    <2>1. CASE u # Raster
      <3>1. Has(todo, u, d) /\ TaskAt(todo, u, d) = TaskAt(todo', u, d)
        BY <1>8, <2>1, SteppedTasks
      <3> QED BY <1>1, <3>1, RasterOnly
    <2>2. CASE u = Raster
      <3> DEFINE i == 0 + Len(tasks) - d
      <3>1. i \in 1 .. Len(tasks) /\ TaskAt(todo', u, d) = tasks[i] BY <1>8, <2>2, SteppedTasks
      <3> HIDE DEF i
      <3>2. i # n + 1 BY <1>5, <3>1 DEF Listed
      <3>3. i \in 1 .. n BY <1>6, <3>1, <3>2
      <3>4. tasks[i].op = "queue" /\ tasks[i].slot = stores[i] BY <1>5, <3>3 DEF Listed
      <3>5. store[stores[i]] \in {"rendered", "presented"} BY <1>1, <3>3
      <3> QED BY <1>3, <3>1, <3>4, <3>5
    <2> QED BY <2>1, <2>2
  <1>20. \A s \in Slots : Owners(s)' = Owners(s) BY <1>1, <1>3, <1>8, <1>9, <1>v, OwnersKept
  <1>21. \A s \in Slots : Pins(s)' = Pins(s) BY <1>3, <1>8, <1>9, <1>v, PinsKept
  <1>22. SlotsCounted' BY <1>2, <1>3, <1>20, <1>21, SlotsKept DEF SlotSide
  <1>23. SurfacesCounted' BY <1>2, <1>3, <1>8, <1>9, <1>v, <1>20, SurfacesKept DEF SlotSide
  <1>24. CleaningOK' BY <1>2, <1>3, <1>9, <1>v, CleaningKept DEF SlotSide
  <1>25. LivesOK' /\ ImagesStable' BY <1>1, <1>2, <1>3, LivesKept, ImagesKept DEF SlotSide
  <1>26. SlotSide' BY <1>18, <1>19, <1>22, <1>23, <1>24, <1>25 DEF SlotSide
  <1> QED BY <1>10, <1>11, <1>13, <1>16, <1>17, <1>26, InvNext

-----------------------------------------------------------------------------
(* What fits a request whose count goes down fits after.                   *)
LEMMA RequestFitsOf ==
  ASSUME ScanoutInv, NEW A, NEW R, Touches(A, R),
         A \cap {"push", "build", "unlock", "submit"} = {},
         NEW r \in Requests, refs[r] > 0, refs' \in [Requests -> Nat],
           \A q \in Requests : q # r => refs'[q] = refs[q],
         \A u \in Threads : \A e \in Nat :
             ~(Has(todo, u, e) /\ TaskAt(todo, u, e).op = "submit" /\
               TaskAt(todo, u, e).req = r),
         UNCHANGED pushes, UNCHANGED winlock
  PROVE PushFits' /\ LockFits' /\ SubmitFits' /\ PushesDiffer'
  <1>1. refs \in [Requests -> Nat] BY InvIs DEF TypeOK
  <1>2. refs' = [refs EXCEPT ![r] = refs'[r]] BY <1>1
  <1> QED BY <1>2, RequestFitsAt

(* A request loses one reference, and at the last its layers.              *)
Dropping(t, r, m, tasks, n) ==
    /\ t \in Threads /\ At(t, "requnref") /\ r = Head(todo[t]).req /\ m = Len(todo[t]) - 1
    /\ Stepped(todo, todo', t, m, tasks) /\ Touches({"unref"}, {"requnref"})
    /\ \A i \in 1 .. Len(tasks) : tasks[i].op = "unref"
    /\ n \in Nat /\ refs[r] = n + 1 /\ refs' \in [Requests -> Nat] /\ refs'[r] = n
    /\ \A q \in Requests : q # r => refs'[q] = refs[q]
    /\ \A q \in Requests : layers'[q] \in {layers[q], <<>>}
    /\ n = 0 => layers'[r] = <<>>
    /\ UNCHANGED winlock /\ UNCHANGED pushes /\ UNCHANGED schedVars /\ UNCHANGED kmsVars

(* What giving up a reference to a request changes.                        *)
LEMMA DroppingIs ==
  ASSUME NEW t \in Threads, At(t, "requnref"), NEW r, r = Head(todo[t]).req,
         NEW m, m = Len(todo[t]) - 1, NEW tasks, Stepped(todo, todo', t, m, tasks),
         Touches({"unref"}, {"requnref"}), \A i \in 1 .. Len(tasks) : tasks[i].op = "unref",
         NEW n \in Nat, refs[r] = n + 1, refs' \in [Requests -> Nat], refs'[r] = n,
         \A q \in Requests : q # r => refs'[q] = refs[q],
         \A q \in Requests : layers'[q] \in {layers[q], <<>>}, n = 0 => layers'[r] = <<>>,
         UNCHANGED winlock, UNCHANGED pushes, UNCHANGED schedVars, UNCHANGED kmsVars,
         ScanoutInv
  PROVE RequestSide'
  <1> DEFINE A == {"unref"}
             R == {"requnref"}
  <1>v. A \cap {"push", "build", "unlock", "submit"} = {} /\ A \cap BatonOps = {} /\
        R \cap BatonOps = {}
    BY DEF BatonOps
  <1>t. Touches(A, R) OBVIOUS
  <1>0. /\ r \in Requests /\
           \A q \in Requests : Counted(One(r = q), Above(todo, t, m, OfReq(ReqOps, q)))
    BY BatonKind, TopRequest DEF At
  <1>1. RequestSide /\ TypeOK /\ LayersCounted /\ RequestsCounted /\ BatonsOK
    BY InvIs DEF RequestSide
  <1>2. /\ refs[r] > 0 /\ refs[r] \in Nat
        /\ \A u \in Threads : \A e \in Nat :
             ~(Has(todo, u, e) /\ TaskAt(todo, u, e).op = "submit" /\
               TaskAt(todo, u, e).req = r)
    <2>1. LET k == Head(todo[t])
          IN  m \in Nat /\ Has(todo, t, m) /\ TaskAt(todo, t, m) = k
      BY TopOK DEF At
    <2>2. TaskAt(todo, t, m).op \in ReqOps \ {"submit"} /\ TaskAt(todo, t, m).req = r
      BY <2>1, BatonKind DEF At
    <2> QED BY <2>1, <2>2, NoSubmit
  <1> HIDE DEF A, R
  <1>5. refs' \in [Requests -> Nat] /\ refs'[r] = n /\
        \A q \in Requests : q # r => refs'[q] = refs[q] OBVIOUS
  <1>6. PushFits' /\ LockFits' /\ SubmitFits' /\ PushesDiffer'
    <2>1. r \in Requests /\ refs[r] > 0 /\ refs' \in [Requests -> Nat] /\
          \A q \in Requests : q # r => refs'[q] = refs[q]
      BY <1>0, <1>2, <1>5
    <2>2. \A u \in Threads : \A e \in Nat :
             ~(Has(todo, u, e) /\ TaskAt(todo, u, e).op = "submit" /\
               TaskAt(todo, u, e).req = r)
      BY <1>2
    <2>3. A \cap {"push", "build", "unlock", "submit"} = {} BY <1>v
    <2> QED BY <1>t, <2>1, <2>2, <2>3, RequestFitsOf
  <1>7. BatonsOK'
    <2>1. UNCHANGED waiting BY DEF schedVars
    <2> QED BY <1>1, <1>t, <1>v, <2>1, BatonsKept
  <1>8. LayersCounted'
    <2> SUFFICES ASSUME NEW q \in Requests
                 PROVE (layers'[q] # <<>> => refs'[q] > 0) /\ (q > pushes' => refs'[q] = 0)
      BY DEF LayersCounted
    <2>1. (layers[q] # <<>> => refs[q] > 0) /\ (q > pushes => refs[q] = 0)
      BY <1>1 DEF LayersCounted
    <2>2. CASE q # r BY <1>5, <2>1, <2>2
    <2>3. CASE q = r
      <3>1. ~(r > pushes) BY <1>2, <2>1, <2>3
      <3>2. layers'[r] # <<>> => refs'[r] > 0
        <4>1. layers'[r] # <<>> => n # 0 OBVIOUS
        <4>2. n # 0 => n > 0 OBVIOUS
        <4> QED BY <1>5, <4>1, <4>2
      <3> QED BY <2>3, <3>1, <3>2
    <2> QED BY <2>2, <2>3
  <1>9. RequestsCounted'
    <2> SUFFICES ASSUME NEW x \in Requests PROVE Counted(refs'[x], RequestOwners(x)')
      BY DEF RequestsCounted
    <2> DEFINE g == One(r = x)
               j == 0
               kr == 0
               kf == 0
    <2>1. g \in Int /\ j \in Int /\ kr \in Int /\ kf \in Int BY OneIs
    <2>2. Counted(j, Among(tasks, OfReq(ReqOps, x)))
      <3>1. \A i \in 1 .. Len(tasks) : tasks[i] \notin OfReq(ReqOps, x) BY DEF OfReq, ReqOps
      <3> QED BY <3>1, AmongNot
    <2>u. UNCHANGED flips /\ UNCHANGED inflight /\ UNCHANGED callback /\ UNCHANGED screen /\
          UNCHANGED queued
      BY DEF kmsVars, schedVars
    <2>3. More(Retired(flips, x), Retired(flips', x), kr) /\
          More(Flipped(flips, x), Flipped(flips', x), kf)
      BY <2>u, FlipsSame
    <2>g. Counted(g, Above(todo, t, m, OfReq(ReqOps, x))) BY <1>0
    <2> HIDE DEF g, j, kr, kf
    <2>4. Counted(refs[x] + (((j - g) + (One(queued' = x) - One(queued = x)) +
            (One(inflight' = x) - One(inflight = x))
                           + (One(callback' = x) - One(callback = x)) +
                             (One(screen' = x) - One(screen = x))) + kr + kf),
                RequestOwners(x)') /\ refs[x] \in Nat
      BY <2>1, <2>2, <2>3, <2>g, RequestMore
    <2>5. refs'[x] = refs[x] + (((j - g) + (One(queued' = x) - One(queued = x)) +
            (One(inflight' = x) - One(inflight = x))
                           + (One(callback' = x) - One(callback = x)) +
                             (One(screen' = x) - One(screen = x))) + kr + kf)
      BY <1>0, <1>2, <1>5, <2>u, <2>4 DEF g, j, kr, kf, One
    <2> QED BY <2>4, <2>5
  <1> QED BY <1>0, <1>5, <1>6, <1>7, <1>8, <1>9 DEF RequestSide

(* The requests' half of the invariant is kept.                            *)
LEMMA RequestDropped ==
  ASSUME ScanoutInv, NEW t, NEW r, NEW m, NEW tasks, NEW n, Dropping(t, r, m, tasks, n)
  PROVE RequestSide'
  <1>1. /\ t \in Threads /\ At(t, "requnref") /\ r = Head(todo[t]).req /\ m = Len(todo[t]) - 1
        /\ Stepped(todo, todo', t, m, tasks) /\ Touches({"unref"}, {"requnref"})
        /\ \A i \in 1 .. Len(tasks) : tasks[i].op = "unref"
        /\ n \in Nat /\ refs[r] = n + 1 /\ refs' \in [Requests -> Nat] /\ refs'[r] = n
        /\ \A q \in Requests : q # r => refs'[q] = refs[q]
        /\ \A q \in Requests : layers'[q] \in {layers[q], <<>>}
        /\ n = 0 => layers'[r] = <<>>
        /\ UNCHANGED winlock /\ UNCHANGED pushes /\ UNCHANGED schedVars /\ UNCHANGED kmsVars
    BY DEF Dropping
  <1> QED BY <1>1, DroppingIs

(* Layers that go away show nothing new.                                   *)
LEMMA LayersFall ==
  ASSUME RenderedOK, ImagesStable, \A q \in Requests : layers'[q] \in {layers[q], <<>>},
         UNCHANGED composition, UNCHANGED building, UNCHANGED store, UNCHANGED completion,
           UNCHANGED gpu,
         UNCHANGED sem, UNCHANGED screen, UNCHANGED locked, UNCHANGED image,
           screen \in 0 .. MaxRequests
  PROVE RenderedOK' /\ ImagesStable'
  <1>1. \A q \in Requests : \A i \in DOMAIN layers'[q] : layers'[q] = layers[q] OBVIOUS
  <1>2. \A z : InUse(z)' => InUse(z) BY <1>1 DEF InUse
  <1>3. \A s \in Slots : InUse(s)' => store[s] \in {"none", "presented"} BY <1>2 DEF RenderedOK
  <1>4. \A r \in Requests : \A i \in DOMAIN layers'[r] :
          /\ ~layers'[r][i].fence => layers'[r][i].slot \notin gpu
          /\ Legacy => ~layers'[r][i].fence
    BY <1>1 DEF RenderedOK
  <1>5. screen # 0 => screen \in Requests BY BoundsAssumption DEF Requests
  <1>6. ScanoutAfterRender' BY <1>1, <1>5 DEF RenderedOK, ScanoutAfterRender
  <1>7. RenderedOK' BY <1>3, <1>4, <1>6 DEF RenderedOK
  <1>8. ImagesStable'
    <2>1. \A seq \in {composition, building} :
          \A i \in DOMAIN seq : locked[seq[i].slot] /\ image[seq[i].slot] = seq[i].image
      BY DEF ImagesStable
    <2>2. \A r \in Requests : \A i \in DOMAIN layers'[r] :
             locked[layers'[r][i].slot] /\ image[layers'[r][i].slot] = layers'[r][i].image
      BY <1>1 DEF ImagesStable
    <2> QED BY <2>1, <2>2 DEF ImagesStable
  <1> QED BY <1>7, <1>8

-----------------------------------------------------------------------------
(* Owners that only change their kind leave all counts alone.              *)
LEMMA SurfacesMoved ==
  ASSUME ScanoutInv, NEW A, NEW R, Touches(A, R), "unown" \notin A, "unown" \notin R,
         todo' \in Stacks,
         \A z \in Slots : More(Owners(z), Owners(z)', 0), UNCHANGED srefs, UNCHANGED current
  PROVE SurfacesCounted'
  <1>1. todo \in Stacks /\ SurfacesCounted BY InvIs, StacksTyped DEF SlotSide
  <1> SUFFICES ASSUME NEW x \in Surfaces PROVE Counted(srefs'[x], SurfaceOwners(x)')
    BY SurfacesCountedIs
  <1> DEFINE F == [z \in Slots |-> Owners(z)]
             G == [z \in Slots |-> Owners(z)']
             o == 0
  <1>2. \A z \in {x} \X Pool : z \in Slots BY DEF Slots
  <1>3. \A z \in {x} \X Pool : More(F[z], G[z], 0) BY <1>2
  <1>4. SurfaceOwners(x) = SurfaceOwnersOf(current, todo, F, x) BY <1>1, SurfaceOwnersNow
  <1>5. SurfaceOwners(x)' = SurfaceOwnersOf(current', todo', G, x) BY SurfaceOwnersNext
  <1>6. StackSet(todo', Ofs({"unown"}, <<x, 0>>)) = StackSet(todo, Ofs({"unown"}, <<x, 0>>))
    BY KindSame
  <1> HIDE DEF F, G
  <1>7. More(Nested({x} \X Pool, F), Nested({x} \X Pool, G), o) BY <1>3, NestedSame
  <1>8. /\ More(StackSet(todo, Ofs({"unown"}, <<x, 0>>)),
           StackSet(todo', Ofs({"unown"}, <<x, 0>>)), o)
        /\ More(When(current = x, "window"), When(current' = x, "window"), o)
    BY <1>6, MoreSame
  <1>9. o \in Int /\ o + o + o = o /\ o = 0 OBVIOUS
  <1> HIDE DEF o
  <1>10. More(SurfaceOwnersOf(current, todo, F, x), SurfaceOwnersOf(current', todo', G, x),
           o + o + o)
    BY <1>7, <1>8, <1>9, SurfaceOwnersMore
  <1>11. More(SurfaceOwners(x), SurfaceOwners(x)', o) BY <1>4, <1>5, <1>9, <1>10
  <1>12. Counted(srefs[x], SurfaceOwners(x)) /\ srefs[x] \in Nat
    BY <1>1, InvIs DEF SurfacesCounted, TypeOK
  <1>13. Counted(srefs[x] + o, SurfaceOwners(x)') BY <1>9, <1>11, <1>12, MoreCounted
  <1>14. srefs[x] + o = srefs[x] BY <1>9, <1>12
  <1> QED BY <1>13, <1>14

(* The slots' half of the invariant, when owners only change their kind.   *)
LEMMA SlotSideMoved ==
  ASSUME ScanoutInv, NEW A, NEW R, Touches(A, R), A \cap (SlotSideOps \ {"unref"}) = {},
         R \cap (SlotSideOps \ {"unref", "queue", "snapshot"}) = {}, todo' \in Stacks,
         UNCHANGED slotVars, UNCHANGED surfVars,
           \A z \in Slots : More(Owners(z), Owners(z)', 0), ImagesStable'
  PROVE SlotSide'
  <1>1. SlotSide /\ todo \in Stacks /\ TypeOK BY InvIs, StacksTyped
  <1>2. UNCHANGED locked /\ UNCHANGED owner /\ UNCHANGED nrefs /\ UNCHANGED store /\
        UNCHANGED completion
        /\ UNCHANGED image /\ UNCHANGED fills /\ UNCHANGED life /\ UNCHANGED srefs /\
           UNCHANGED front /\ UNCHANGED current
    BY DEF slotVars, surfVars
  <1>3. \A z : z \in SlotSideOps =>
        (z = "unref" \/ z \notin A) /\
          (z \in {"unref", "queue", "snapshot"} \/ z \notin R) OBVIOUS
  <1>4. /\ A \cap {"queue", "snapshot"} = {} /\ "fill" \notin A /\ "deinit" \notin A
        /\ "unpin" \notin A \cup R /\ "unown" \notin A /\ "unown" \notin R
        /\ A \cap {"reset", "clear"} = {} /\ R \cap {"reset", "clear"} = {}
    BY <1>3 DEF SlotSideOps
  <1>5. FillFits' /\ StoreFits' /\ DeinitFits'
    BY <1>1, <1>2, <1>4, FitsKept DEF SlotSide
  <1>6. DeinitsDiffer' BY <1>1, <1>4, DifferKept DEF SlotSide
  <1>8. \A s \in Slots : Pins(s)' = Pins(s) BY <1>1, <1>2, <1>4, PinsKept
  <1>9. SlotsCounted'
    <2> SUFFICES ASSUME NEW z \in Slots PROVE Counted(nrefs'[z], Owners(z)' \cup Pins(z)')
      BY SlotsCountedIs
    <2> DEFINE o == 0
    <2>1. nrefs[z] \in Nat BY <1>1 DEF TypeOK
    <2>2. o \in Int /\ nrefs'[z] = nrefs[z] + (o + o) BY <1>2, <2>1
    <2>3. More(Owners(z), Owners(z)', o) /\ More(Pins(z), Pins(z)', o) BY <1>8, MoreSame
    <2> HIDE DEF o
    <2> QED BY <2>2, <2>3, SlotCount
  <1>10. SurfacesCounted' BY <1>2, <1>4, SurfacesMoved
  <1>11. CleaningOK' BY <1>1, <1>2, <1>4, CleaningKept DEF SlotSide
  <1>12. LivesOK' BY <1>1, <1>2, LivesKept DEF SlotSide
  <1> QED BY <1>5, <1>6, <1>9, <1>10, <1>11, <1>12 DEF SlotSide

(* Layers become releases.                                                 *)
LEMMA UnrefsTasks ==
  ASSUME NEW X, \A l \in X : l.slot \in Slots, NEW q \in Seq(X), NEW u, u = Unrefs(q), NEW t,
         NEW m
  PROVE /\ u \in Seq(Tasks)
        /\ \A i \in 1 .. Len(u) : u[i].op = "unref" /\ "unref" \in PlainOps /\
           PlaceOK(u[i], t, m + Len(u) - i)
        /\ \A z : Counted(Cardinality(IndicesOn(q, z)), Among(u, Ofs({"unref"}, z)))
                  /\ Counted(Cardinality(IndicesOn(q, z)), IndicesOn(q, z))
                  /\ Cardinality(IndicesOn(q, z)) \in Nat
  <1>1. /\ u \in Seq(Tasks) /\ Len(u) = Len(q) /\ Len(q) \in Nat
        /\ \A i \in 1 .. Len(u) : /\ i \in DOMAIN q /\ u[i].op = "unref" /\
                                     u[i].slot = q[i].slot
                                  /\ q[i].slot \in Slots /\ u[i] \in Tasks
        /\ \A z : Counted(Cardinality(IndicesOn(q, z)), Among(u, Ofs({"unref"}, z)))
    BY UnrefsIs
  <1>2. \A z : Counted(Cardinality(IndicesOn(q, z)), IndicesOn(q, z)) /\
        Cardinality(IndicesOn(q, z)) \in Nat
    BY IndicesCount
  <1>3. \A i \in 1 .. Len(u) : \A d : PlaceOK(u[i], t, d) BY <1>1 DEF PlaceOK
  <1>4. "unref" \in PlainOps BY DEF PlainOps
  <1> QED BY <1>1, <1>2, <1>3, <1>4

-----------------------------------------------------------------------------
(* The layers of a request become releases.                                *)
LEMMA OwnersFromRequest ==
  ASSUME TypeOK, todo' \in Stacks, NEW r \in Requests, layers' = [layers EXCEPT ![r] = <<>>],
         NEW t, NEW m, NEW u, u = Unrefs(layers[r]), Stepped(todo, todo', t, m, u),
           NEW z \in Slots,
         Counted(0, Above(todo, t, m, Ofs({"unref"}, z))),
         UNCHANGED store, UNCHANGED composition, UNCHANGED building
  PROVE More(Owners(z), Owners(z)', 0)
  <1> DEFINE X == [slot : Slots, image : Images, fence : BOOLEAN]
             q == layers[r]
             n == Cardinality(IndicesOn(q, z))
             o == 0
             l == -n
  <1>1. layers \in [Requests -> Seq(X)] /\ q \in Seq(X) /\ todo \in Stacks
    BY StacksTyped DEF TypeOK
  <1>2. \A x \in X : x.slot \in Slots OBVIOUS
  <1>3. u = Unrefs(q) OBVIOUS
  <1> HIDE DEF X, q
  <1>4. Counted(n, Among(u, Ofs({"unref"}, z))) /\ Counted(n, IndicesOn(q, z)) /\ n \in Nat
    BY <1>1, <1>2, <1>3, UnrefsTasks
  <1>5. More(ReqLayers(layers, z), ReqLayers(layers', z), l)
    <2>1. layers' = [layers EXCEPT ![r] = <<>>] /\ Counted(n, IndicesOn(layers[r], z))
      BY <1>4 DEF q
    <2> HIDE DEF n
    <2> QED BY <1>1, <2>1, ReqLayersDropped
  <1>6. /\ More(When(store[z] # "none", "flutter"), When(store'[z] # "none", "flutter"), o)
        /\ More(LayersOn("composition", 0, composition, z),
           LayersOn("composition", 0, composition', z), o)
        /\ More(LayersOn("building", 0, building, z), LayersOn("building", 0, building', z), o)
    BY MoreSame
  <1>7. /\ o \in Int /\ l \in Int /\ n \in Int /\ n = n - o /\ o + o + o + l + n = 0 /\
           Counted(o, Above(todo, t, m, Ofs({"unref"}, z)))
    BY <1>4
  <1> HIDE DEF o, l, n
  <1>8. More(StackSet(todo, Ofs({"unref"}, z)), StackSet(todo', Ofs({"unref"}, z)), n)
    BY <1>4, <1>7, StackDelta
  <1>9. More(Owners(z), Owners(z)', o + o + o + l + n)
    BY <1>1, <1>5, <1>6, <1>7, <1>8, OwnersParts
  <1> QED BY <1>7, <1>9

(* The last reference to a request.                                        *)
LEMMA ReqUnrefLast ==
  ASSUME ScanoutInv, NEW t \in Threads, At(t, "requnref"), NEW r, r = Head(todo[t]).req,
         refs[r] = 1,
         refs' = [refs EXCEPT ![r] = @ - 1], layers' = [layers EXCEPT ![r] = <<>>],
           Then(t, Unrefs(layers[r])),
         UNCHANGED slotVars, UNCHANGED surfVars, UNCHANGED gpuVars, UNCHANGED winVars,
           UNCHANGED schedVars, UNCHANGED kmsVars
  PROVE ScanoutInv'
  <1> DEFINE m == Len(todo[t]) - 1
             X == [slot : Slots, image : Images, fence : BOOLEAN]
             q == layers[r]
             u == Unrefs(q)
             A == {"unref"}
             R == {"requnref"}
  <1>2. TypeOK /\ LayerFits /\ RenderedOK /\ Shaped(todo) /\ SlotSide BY InvIs
  <1>3. UNCHANGED composition /\ UNCHANGED building /\ UNCHANGED winlock /\ UNCHANGED pushes
        /\ UNCHANGED screen /\ UNCHANGED store /\ UNCHANGED completion /\ UNCHANGED gpu /\
           UNCHANGED sem
        /\ UNCHANGED locked /\ UNCHANGED image
    BY DEF winVars, kmsVars, slotVars, gpuVars
  <1>0. r \in Requests
    <2>1. LET k == Head(todo[t]) IN PlaceOK(k, t, m) BY TopOK DEF At
    <2> QED BY <2>1 DEF PlaceOK, At
  <1>4. q \in Seq(X) /\ layers \in [Requests -> Seq(X)] /\ \A x \in X : x.slot \in Slots
    BY <1>0, <1>2 DEF TypeOK
  <1>5. u = Unrefs(q) OBVIOUS
  <1> HIDE DEF X, q, u
  <1>6. /\ u \in Seq(Tasks)
        /\ \A i \in 1 .. Len(u) : u[i].op = "unref" /\ "unref" \in PlainOps /\
           PlaceOK(u[i], t, m + Len(u) - i)
    BY <1>4, <1>5, UnrefsTasks
  <1>7. /\ todo \in Stacks /\ todo' \in Stacks /\ todo[t] # <<>> /\
           Head(todo[t]).op = "requnref"
        /\ Stepped(todo, todo', t, m, u) /\ Touches(A, R)
    <2>1. Then(t, u) BY DEF u, q
    <2>2. \A i \in 1 .. Len(u) : u[i].op \in A BY <1>6
    <2>3. At(t, "requnref") OBVIOUS
    <2> QED BY <1>6, <2>1, <2>2, <2>3, PopIs
  <1>8. \A z : Counted(0, Above(todo, t, m, Ofs({"unref"}, z)))
    <2> TAKE z
    <2>1. Counted(One(Head(todo[t]).op \in {"unref"} /\ Head(todo[t]).slot = z),
            Above(todo, t, m, Ofs({"unref"}, z)))
      BY <1>7, SlotTop
    <2>2. One(Head(todo[t]).op \in {"unref"} /\ Head(todo[t]).slot = z) = 0 BY <1>7 DEF One
    <2> QED BY <2>1, <2>2
  <1>9. layers' \in [Requests -> Seq(X)] /\ layers'[r] = <<>> /\
        \A p \in Requests : p # r => layers'[p] = layers[p]
    <2>1. <<>> \in Seq(X) OBVIOUS
    <2> QED BY <1>0, <1>4, <2>1
  <1>10. RequestSide' /\ refs' \in [Requests -> Nat]
    <2>1. refs \in [Requests -> Nat] BY <1>2 DEF TypeOK
    <2>2. refs' \in [Requests -> Nat] /\ refs'[r] = 0 /\
          \A p \in Requests : p # r => refs'[p] = refs[p]
      BY <1>0, <2>1
    <2>3. \A p \in Requests : p # r => refs'[p] = refs[p] /\ layers'[p] = layers[p]
      BY <2>2, <1>9
    <2> DEFINE n == 0
    <2>4. n \in Nat /\ refs[r] = n + 1 /\ refs'[r] = n /\ (n = 0 => layers'[r] = <<>>)
      BY <2>2, <1>9
    <2>5. \A i \in 1 .. Len(u) : u[i].op = "unref" BY <1>6
    <2>6. m = Len(todo[t]) - 1 OBVIOUS
    <2>7. \A p \in Requests : layers'[p] \in {layers[p], <<>>} BY <1>9
    <2> HIDE DEF m, n
    <2>9. Dropping(t, r, m, u, n)
      BY <1>3, <1>7, <2>2, <2>4, <2>5, <2>6, <2>7 DEF Dropping
    <2> QED BY <2>2, <2>9, RequestDropped
  <1>11. Shaped(todo')
    <2>1. \A i \in 1 .. Len(u) : PlaceOK(u[i], t, m + Len(u) - i) /\ u[i].op \in PlainOps
      BY <1>6
    <2> HIDE DEF m
    <2> QED BY <1>2, <1>7, <2>1, ShapedPlain
  <1>12. TypeOK'
    BY <1>2, <1>7, <1>9, <1>10, TypedNext DEF TypeOK, X, slotVars, surfVars, gpuVars,
       winVars, schedVars, kmsVars
  <1>13. \A z \in Slots : More(Owners(z), Owners(z)', 0)
    <2> TAKE z \in Slots
    <2>1. Counted(0, Above(todo, t, m, Ofs({"unref"}, z))) /\ u = Unrefs(layers[r])
      BY <1>8 DEF u, q
    <2> HIDE DEF m
    <2> QED BY <1>0, <1>2, <1>3, <1>7, <2>1, OwnersFromRequest
  <1>14. RenderedOK' /\ ImagesStable'
    <2>1. \A p \in Requests : layers'[p] \in {layers[p], <<>>} BY <1>9
    <2>2. ImagesStable /\ screen \in 0 .. MaxRequests BY <1>2 DEF SlotSide, TypeOK
    <2> QED BY <1>2, <1>3, <2>1, <2>2, LayersFall
  <1>15. SlotSide'
    <2>1. A \cap (SlotSideOps \ {"unref"}) = {} /\
          R \cap (SlotSideOps \ {"unref", "queue", "snapshot"}) = {}
      BY DEF SlotSideOps
    <2> QED BY <1>7, <1>13, <1>14, <2>1, SlotSideMoved
  <1>16. LayerFits' BY <1>2, <1>3, <1>7, FitsKept
  <1> QED BY <1>10, <1>11, <1>12, <1>14, <1>15, <1>16, InvNext

(* A reference to a request that is not the last.                          *)
LEMMA ReqUnrefOther ==
  ASSUME ScanoutInv, NEW t \in Threads, At(t, "requnref"), NEW r, r = Head(todo[t]).req,
         refs[r] # 1,
         refs' = [refs EXCEPT ![r] = @ - 1], UNCHANGED layers, Then(t, <<>>),
         UNCHANGED slotVars, UNCHANGED surfVars, UNCHANGED gpuVars, UNCHANGED winVars,
           UNCHANGED schedVars, UNCHANGED kmsVars
  PROVE ScanoutInv'
  <1> DEFINE m == Len(todo[t]) - 1
             u == <<>>
             A == {"unref"}
             R == {"requnref"}
  <1>2. TypeOK /\ RenderedOK /\ Shaped(todo) BY InvIs
  <1>3. UNCHANGED composition /\ UNCHANGED building /\ UNCHANGED winlock /\ UNCHANGED pushes /\
        UNCHANGED screen
    BY DEF winVars, kmsVars
  <1>6. u \in Seq(Tasks) /\ \A i \in 1 .. Len(u) : FALSE
    <2>1. Len(u) = 0 /\ u \in Seq(Tasks) BY ListIs
    <2> QED BY <2>1
  <1> HIDE DEF u
  <1>7. /\ todo' \in Stacks /\ Stepped(todo, todo', t, m, u) /\ Touches(A, R)
    <2>1. Then(t, u) /\ At(t, "requnref") BY DEF u
    <2> QED BY <1>6, <2>1, PopIs
  <1>10. RequestSide' /\ refs' \in [Requests -> Nat]
    <2> DEFINE n == refs[r] - 1
    <2>1. refs \in [Requests -> Nat] BY <1>2 DEF TypeOK
    <2>2. refs[r] > 0 /\ refs[r] \in Nat /\ r \in Requests
      <3>1. LET k == Head(todo[t]) IN PlaceOK(k, t, m) BY TopOK DEF At
      <3>2. r \in Requests BY <3>1 DEF PlaceOK, At
      <3> QED BY <3>2, TopNoSubmit DEF At
    <2>3. n \in Nat /\ refs[r] = n + 1 /\ n # 0 BY <2>2
    <2>4. refs' \in [Requests -> Nat] /\ refs'[r] = n /\
          \A q \in Requests : q # r => refs'[q] = refs[q]
      BY <2>1, <2>2, <2>3
    <2>5. \A i \in 1 .. Len(u) : u[i].op = "unref" BY <1>6
    <2>6. m = Len(todo[t]) - 1 OBVIOUS
    <2>7. \A q \in Requests : layers'[q] \in {layers[q], <<>>} OBVIOUS
    <2>8. n = 0 => layers'[r] = <<>> BY <2>3
    <2> HIDE DEF m, n
    <2>9. Dropping(t, r, m, u, n)
      BY <1>3, <1>7, <2>3, <2>4, <2>5, <2>6, <2>7, <2>8 DEF Dropping
    <2> QED BY <2>4, <2>9, RequestDropped
  <1>11. Shaped(todo') BY <1>2, <1>6, <1>7, ShapedPlain
  <1>12. TypeOK'
    BY <1>2, <1>7, <1>10, TypedNext DEF TypeOK, slotVars, surfVars, gpuVars, winVars,
       schedVars, kmsVars
  <1>14. RenderedOK' BY <1>3, RenderedStays
  <1>15. SlotSide'
    <2>1. A \cap (SlotSideOps \ {"unref"}) = {} /\
          R \cap (SlotSideOps \ {"unref", "queue", "snapshot"}) = {}
      BY DEF SlotSideOps
    <2> DEFINE B == {}
    <2>2. Touches(B, R)
      <3>1. Then(t, u) /\ At(t, "requnref") BY DEF u
      <3> QED BY <1>6, <3>1, PopIs
    <2>3. B \cap SlotSideOps = {} /\ R \cap SlotSideOps = {} BY DEF SlotSideOps
    <2> HIDE DEF B, R
    <2> QED BY <1>3, <1>7, <2>2, <2>3, SlotSideKept
  <1>16. LayerFits' 
    <2>1. LayerFits BY InvIs
    <2> QED BY <1>3, <1>7, <2>1, FitsKept
  <1> QED BY <1>10, <1>11, <1>12, <1>14, <1>15, <1>16, InvNext

(* Both keep the invariant.                                                *)
LEMMA ReqUnrefStep == ASSUME ScanoutInv, NEW t \in Threads, ReqUnref(t) PROVE ScanoutInv'
  <1> DEFINE r == Head(todo[t]).req
  <1>1. /\ At(t, "requnref") /\ refs' = [refs EXCEPT ![r] = @ - 1]
        /\ refs[r] = 1 => layers' = [layers EXCEPT ![r] = <<>>] /\ Then(t, Unrefs(layers[r]))
        /\ refs[r] # 1 => UNCHANGED layers /\ Then(t, <<>>)
        /\ UNCHANGED slotVars /\ UNCHANGED surfVars /\ UNCHANGED gpuVars /\ UNCHANGED winVars /\
           UNCHANGED schedVars /\ UNCHANGED kmsVars
    BY DEF ReqUnref
  <1>2. r = Head(todo[t]).req OBVIOUS
  <1> HIDE DEF r
  <1>3. CASE refs[r] = 1 BY <1>1, <1>2, <1>3, ReqUnrefLast
  <1>4. CASE refs[r] # 1 BY <1>1, <1>2, <1>4, ReqUnrefOther
  <1> QED BY <1>3, <1>4

-----------------------------------------------------------------------------
(* A new composition.                                                      *)
PushList(q, p) == Unrefs(q) \o <<ReqTask("build", p)>>

Pushed(q, p, n, tasks) ==
    /\ tasks \in Seq(Tasks) /\ n \in Nat /\ Len(tasks) = n + 1
    /\ \A i \in 1 .. n : tasks[i].op = "unref" /\ tasks[i].slot \in Slots
    /\ tasks[n + 1].op = "build" /\ tasks[n + 1].req = p
    /\ \A z : Counted(Cardinality(IndicesOn(q, z)), Among(tasks, Ofs({"unref"}, z)))

(* What is in the list of a push.                                          *)
LEMMA PushTasks ==
  ASSUME NEW X, \A l \in X : l.slot \in Slots, NEW q \in Seq(X), NEW p \in Requests, NEW n,
         n = Len(q)
  PROVE Pushed(q, p, n, PushList(q, p))
  <1> DEFINE u == Unrefs(q)
             k == ReqTask("build", p)
             b == <<k>>
             r == u \o b
             o == 0
             N == [z \in Slots |-> Cardinality(IndicesOn(q, z))]
  <1>1. k \in Tasks /\ k.op = "build" /\ k.req = p BY PlaceIs
  <1>2. r = PushList(q, p) BY DEF PushList
  <1>3. u = Unrefs(q) OBVIOUS
  <1> HIDE DEF u, k
  <1>4. /\ u \in Seq(Tasks) /\ Len(u) = Len(q) /\ Len(q) \in Nat
        /\ \A i \in 1 .. Len(u) : u[i].op = "unref" /\ u[i].slot = q[i].slot /\
           q[i].slot \in Slots
        /\ \A z : Counted(Cardinality(IndicesOn(q, z)), Among(u, Ofs({"unref"}, z)))
    BY <1>3, UnrefsIs
  <1>5. b \in Seq(Tasks) /\ Len(b) = 1 /\ b[1] = k BY <1>1, ListIs
  <1>6. \A z : Counted(o, Among(b, Ofs({"unref"}, z)))
    <2> TAKE z
    <2>1. Counted(One(k.op \in {"unref"} /\ k.slot = z), Among(<<k>>, Ofs({"unref"}, z)))
      BY <1>1, SlotTask
    <2>2. One(k.op \in {"unref"} /\ k.slot = z) = o BY <1>1 DEF One
    <2> QED BY <2>1, <2>2
  <1>7. r = u \o b OBVIOUS
  <1> HIDE DEF b, r
  <1>8. /\ n \in Nat /\ r \in Seq(Tasks) /\ Len(r) = n + 1
        /\ \A i \in 1 .. n : r[i] = u[i]
        /\ r[n + 1] = b[1]
    <2> DEFINE e == 1
    <2>1. n = Len(u) /\ e = Len(b) BY <1>4, <1>5
    <2>2. 1 \in 1 .. e OBVIOUS
    <2> HIDE DEF e
    <2>3. u \in Seq(Tasks) /\ b \in Seq(Tasks) /\ n = Len(u) /\ e = Len(b) BY <1>4, <1>5, <2>1
    <2>4. /\ n \in Nat /\ r \in Seq(Tasks) /\ Len(r) = n + e
          /\ \A i \in 1 .. n : r[i] = u[i]
          /\ \A i \in 1 .. e : r[n + i] = b[i]
      BY <1>7, <2>3, JoinParts
    <2> QED BY <2>2, <2>4 DEF e
  <1>9. \A z : Counted(Cardinality(IndicesOn(q, z)), Among(r, Ofs({"unref"}, z)))
    <2> TAKE z
    <2> DEFINE c == Cardinality(IndicesOn(q, z))
    <2>1. Counted(c, Among(u, Ofs({"unref"}, z))) /\ Counted(o, Among(b, Ofs({"unref"}, z)))
      BY <1>4, <1>6
    <2> HIDE DEF c, o
    <2>2. Counted(c + o, Among(u \o b, Ofs({"unref"}, z))) /\ c \in Nat
      BY <1>4, <1>5, <2>1, AmongJoin
    <2>3. c + o = c BY <2>2 DEF o
    <2> QED BY <1>7, <2>2, <2>3 DEF c
  <1>10. \A i \in 1 .. n : r[i].op = "unref" /\ r[i].slot \in Slots
    <2>1. n = Len(u) BY <1>4
    <2> QED BY <1>4, <1>8, <2>1
  <1>11. r[n + 1].op = "build" /\ r[n + 1].req = p BY <1>1, <1>5, <1>8
  <1>12. Pushed(q, p, n, r) BY <1>8, <1>9, <1>10, <1>11 DEF Pushed
  <1> QED BY <1>2, <1>12

(* It rests on nothing.                                                    *)
LEMMA PushedShaped ==
  ASSUME NEW q, NEW p \in Requests, NEW n, NEW t, NEW tasks, Pushed(q, p, n, tasks),
         Stepped(todo, todo', t, 0, tasks), Shaped(todo)
  PROVE Shaped(todo')
  <1>1. /\ n \in Nat /\ Len(tasks) = n + 1
        /\ \A i \in 1 .. n : tasks[i].op = "unref" /\ tasks[i].slot \in Slots
        /\ tasks[n + 1].op = "build" /\ tasks[n + 1].req = p
    BY DEF Pushed
  <1> SUFFICES ASSUME NEW i \in 1 .. Len(tasks)
               PROVE PlaceOK(tasks[i], t, 0 + Len(tasks) - i) /\ tasks[i].op \in PlainOps
    BY ShapedPlain
  <1>2. i \in 1 .. n \/ i = n + 1 BY <1>1
  <1>3. CASE i \in 1 .. n
    <2>1. tasks[i].op = "unref" /\ tasks[i].slot \in Slots BY <1>1, <1>3
    <2> QED BY <2>1 DEF PlaceOK, PlainOps
  <1>4. CASE i = n + 1
    <2>1. 0 + Len(tasks) - i = 0 BY <1>1, <1>4
    <2>2. tasks[i].op = "build" /\ tasks[i].req \in Requests BY <1>1, <1>4
    <2> QED BY <2>1, <2>2 DEF PlaceOK, PlainOps
  <1> QED BY <1>2, <1>3, <1>4

(* The push that follows is the one that was.                              *)
LEMMA PushedPushes ==
  ASSUME ScanoutInv, NEW t \in Threads, todo[t] # <<>>, Len(todo[t]) - 1 = 0,
         Head(todo[t]).op = "push",
         NEW p, p = Head(todo[t]).req, NEW q, NEW n, NEW tasks, Pushed(q, p, n, tasks),
         Stepped(todo, todo', t, 0, tasks), UNCHANGED refs, UNCHANGED pushes
  PROVE PushFits' /\ PushesDiffer'
  <1>1. /\ n \in Nat /\ Len(tasks) = n + 1 /\ \A i \in 1 .. n : tasks[i].op = "unref"
        /\ tasks[n + 1].op = "build" /\ tasks[n + 1].req = p
    BY DEF Pushed
  <1>2. RequestSide /\ todo \in Stacks BY InvIs, StacksTyped
  <1>3. Head(todo[t]) \in Tasks /\ Has(todo, t, 0) /\ TaskAt(todo, t, 0) = Head(todo[t]) /\
        refs[p] = 0 /\ p <= pushes
    <2>1. LET k == Head(todo[t])
              m == Len(todo[t]) - 1
          IN  k \in Tasks /\ Has(todo, t, m) /\ TaskAt(todo, t, m) = k /\ Push1(k) BY TopOK
    <2> QED BY <2>1 DEF Push1
  <1>4. \A i \in 1 .. Len(tasks) : tasks[i].op # "unref" => i = n + 1 BY <1>1
  <1>5. \A x, K : x \in StackSet(todo', K) <=>
           \/ x \in StackSet(todo, K) /\ \A d \in Above(todo, t, 0, K) : x # Tok(t, d)
           \/ \E i \in Among(tasks, K) : x = Tok(t, 0 + Len(tasks) - i)
    BY StackSetStep
  <1>6. PushFits'
    <2> SUFFICES ASSUME NEW u \in Threads, NEW d \in Nat, Has(todo', u, d),
                        TaskAt(todo', u, d).op \in {"push", "build"}
                 PROVE refs'[TaskAt(todo', u, d).req] = 0 /\ TaskAt(todo', u, d).req <= pushes'
      BY DEF PushFits, Push1
    <2>1. CASE u # t
      <3>1. Has(todo, u, d) /\ TaskAt(todo', u, d) = TaskAt(todo, u, d) BY <2>1, SteppedTasks
      <3>2. Push1(TaskAt(todo, u, d)) BY <1>2, <3>1 DEF RequestSide, PushFits
      <3> QED BY <3>1, <3>2 DEF Push1
    <2>2. CASE u = t
      <3> DEFINE i == 0 + Len(tasks) - d
      <3>1. i \in 1 .. Len(tasks) /\ TaskAt(todo', t, d) = tasks[i]
        <4>1. Has(todo', t, d) /\ d >= 0 /\ d \in Nat BY <2>2
        <4>2. \A e \in Nat : e >= 0 /\ Has(todo', t, e) =>
                 0 + Len(tasks) - e \in 1 .. Len(tasks) /\
                   TaskAt(todo', t, e) = tasks[0 + Len(tasks) - e]
          BY SteppedTasks
        <4> QED BY <4>1, <4>2
      <3>2. i \in 1 .. n \/ i = n + 1 BY <1>1, <3>1
      <3>3. tasks[i].op \in {"push", "build"} => tasks[i].req = p
        <4>1. CASE i \in 1 .. n BY <1>1, <4>1
        <4>2. CASE i = n + 1 BY <1>1, <4>2
        <4> QED BY <3>2, <4>1, <4>2
      <3> HIDE DEF i
      <3>4. TaskAt(todo', u, d).req = p BY <2>2, <3>1, <3>3
      <3> QED BY <1>3, <3>4
    <2> QED BY <2>1, <2>2
  <1>7. PushesDiffer'
    <2> SUFFICES ASSUME NEW r \in Requests
                 PROVE  Single(StackSet(todo', OfReq({"push", "build"}, r)))
      BY DEF PushesDiffer
    <2> DEFINE K == OfReq({"push", "build"}, r)
    <2>1. Single(StackSet(todo, K)) BY <1>2 DEF RequestSide, PushesDiffer
    <2>2. \A x \in StackSet(todo', K) : x \in StackSet(todo, K)
      <3> TAKE x \in StackSet(todo', K)
      <3>1. CASE x \in StackSet(todo, K) BY <3>1
      <3>2. CASE x \notin StackSet(todo, K)
        <4>1. PICK i \in Among(tasks, K) : x = Tok(t, 0 + Len(tasks) - i) BY <1>5, <3>2
        <4>2. i \in 1 .. Len(tasks) /\ tasks[i].op \in {"push", "build"} /\ tasks[i].req = r
          BY <4>1 DEF Among, OfReq
        <4>3. i = n + 1 BY <1>4, <4>2
        <4>4. 0 + Len(tasks) - i = 0 /\ p = r BY <1>1, <4>2, <4>3
        <4>5. TaskAt(todo, t, 0) \in K BY <1>3, <4>4 DEF OfReq
        <4>6. 0 \in Nat OBVIOUS
        <4> HIDE DEF K
        <4>7. Tok(t, 0) \in StackSet(todo, K) BY <1>3, <4>5, <4>6, TokIn
        <4> QED BY <4>1, <4>4, <4>7
      <3> QED BY <3>1, <3>2
    <2> HIDE DEF K
    <2>3. Single(StackSet(todo', K)) BY <2>1, <2>2 DEF Single
    <2> QED BY <2>3 DEF K
  <1> QED BY <1>6, <1>7

(* Making the new composition the window's keeps the invariant.            *)
LEMMA PushCompositionStep ==
  ASSUME ScanoutInv, NEW t \in Threads, PushComposition(t)
  PROVE  ScanoutInv'
  <1> DEFINE p == Head(todo[t]).req
             X == [slot : Slots, image : Images]
             q == composition
             n == Len(q)
             tasks == PushList(q, p)
             A == {"unref", "build"}
             R == {"push"}
  <1>1. /\ At(t, "push") /\ winlock = {} /\ winlock' = {t} /\ composition' = building /\
           building' = <<>>
        /\ Then(t, tasks)
        /\ UNCHANGED slotVars /\ UNCHANGED surfVars /\ UNCHANGED gpuVars /\ UNCHANGED pushes /\
           UNCHANGED reqVars
        /\ UNCHANGED schedVars /\ UNCHANGED kmsVars
    BY DEF PushComposition, PushList
  <1>2. TypeOK /\ LayerFits /\ RenderedOK /\ Shaped(todo) /\ SlotSide /\ RequestSide BY InvIs
  <1>3. /\ UNCHANGED refs /\ UNCHANGED layers /\ UNCHANGED screen /\ UNCHANGED store /\
           UNCHANGED completion
        /\ UNCHANGED gpu /\ UNCHANGED sem /\ UNCHANGED locked /\ UNCHANGED image /\
           UNCHANGED waiting /\ UNCHANGED queued
    BY <1>1 DEF reqVars, kmsVars, slotVars, gpuVars, schedVars
  <1>4. p \in Requests /\ todo[t] # <<>> /\ Head(todo[t]).op = "push" /\ Len(todo[t]) - 1 = 0
    <2>1. LET k == Head(todo[t])
              m == Len(todo[t]) - 1
          IN PlaceOK(k, t, m) BY <1>1, TopOK DEF At
    <2> QED BY <1>1, <2>1 DEF PlaceOK, At
  <1>5. q \in Seq(X) /\ building \in Seq(X) /\ \A x \in X : x.slot \in Slots BY <1>2 DEF TypeOK
  <1>6. Pushed(q, p, n, tasks) /\ p = Head(todo[t]).req /\ q = composition
    <2>1. n = Len(q) OBVIOUS
    <2> HIDE DEF tasks, p, q, n, X
    <2>2. Pushed(q, p, n, PushList(q, p)) BY <1>4, <1>5, <2>1, PushTasks
    <2> QED BY <2>2 DEF tasks, p, q
  <1> HIDE DEF tasks, p, q, n
  <1>7. /\ n \in Nat /\ Len(tasks) = n + 1 /\ tasks \in Seq(Tasks)
        /\ \A i \in 1 .. n : tasks[i].op = "unref"
        /\ tasks[n + 1].op = "build"
        /\ \A z : Counted(Cardinality(IndicesOn(q, z)), Among(tasks, Ofs({"unref"}, z)))
    BY <1>6 DEF Pushed
  <1>8. \A i \in 1 .. Len(tasks) : tasks[i].op \in A
    <2> TAKE i \in 1 .. Len(tasks)
    <2>1. i \in 1 .. n \/ i = n + 1 BY <1>7
    <2> QED BY <1>7, <2>1
  <1>v. /\ A \cap (SlotSideOps \ {"unref"}) = {} /\
           R \cap (SlotSideOps \ {"unref", "queue", "snapshot"}) = {}
        /\ A \cap BatonOps = {} /\ R \cap BatonOps = {} /\ A \cap ReqOps = {} /\
           R \cap ReqOps = {}
        /\ "submit" \notin A /\ "present" \notin A
    BY DEF SlotSideOps, BatonOps, ReqOps
  <1> HIDE DEF A
  <1>9. /\ todo \in Stacks /\ todo' \in Stacks /\ Stepped(todo, todo', t, 0, tasks) /\
           Touches(A, R)
    <2>1. Stepped(todo, todo', t, Len(todo[t]) - 1, tasks) /\ todo \in Stacks /\
          todo' \in Stacks /\ Touches(A, R)
      BY <1>1, <1>7, <1>8, PopIs
    <2> QED BY <1>4, <2>1
  <1> HIDE DEF R
  <1>10. Shaped(todo') BY <1>2, <1>4, <1>6, <1>9, PushedShaped
  <1>11. TypeOK'
    <2>1. <<>> \in Seq(X) OBVIOUS
    <2>2. (composition \in Seq(X) /\ building \in Seq(X))' BY <1>1, <1>5, <2>1
    <2>3. (\A c \in {composition, building} : c \in Seq([slot : Slots, image : Images]))'
      BY <2>2 DEF X
    <2>4. (winlock \in SUBSET Threads)' BY <1>1
    <2> QED BY <1>1, <1>2, <1>9, <2>3, <2>4, TypedNext DEF TypeOK, slotVars, surfVars, gpuVars,
            reqVars, schedVars, kmsVars
  <1>12. LockFits'
    <2>1. winlock \subseteq {t} /\ LockFits BY <1>1, <1>2 DEF RequestSide
    <2> DEFINE m == 0
    <2>2. Stepped(todo, todo', t, m, tasks) BY <1>9
    <2> HIDE DEF m
    <2> QED BY <1>1, <2>1, <2>2, LockNext
  <1>13. RequestSide'
    <2>1. PushFits' /\ PushesDiffer' BY <1>1, <1>3, <1>4, <1>6, <1>9, PushedPushes
    <2>2. SubmitFits' BY <1>2, <1>3, <1>9, <1>v, FitsKept DEF RequestSide
    <2>3. BatonsOK' BY <1>1, <1>2, <1>3, <1>9, <1>v, BatonsKept DEF RequestSide
    <2>4. RequestsCounted' BY <1>1, <1>2, <1>3, <1>9, <1>v, RequestsKept DEF RequestSide
    <2>5. LayersCounted' BY <1>1, <1>2, <1>3, LayersKept DEF RequestSide
    <2> QED BY <1>12, <2>1, <2>2, <2>3, <2>4, <2>5 DEF RequestSide
  <1>14. \A z : InUse(z)' => InUse(z)
    <2>1. DOMAIN building' = {} BY <1>1
    <2> QED BY <1>1, <1>3, <2>1 DEF InUse
  <1>15. RenderedOK'
    <2>1. \A z \in Slots : /\ InUse(z)' => store'[z] \in {"none", "presented"}
                           /\ completion'[z] = "done" => z \notin gpu'
                           /\ store'[z] \in {"empty", "rendered"} => completion'[z] = "none"
      BY <1>2, <1>3, <1>14 DEF RenderedOK
    <2> QED BY <1>2, <1>3, <2>1 DEF RenderedOK, ScanoutAfterRender
  <1>16. ImagesStable'
    <2>1. \A i \in DOMAIN building : locked[building[i].slot] /\
          image[building[i].slot] = building[i].image
      BY <1>2 DEF SlotSide, ImagesStable
    <2>2. \A r \in Requests : \A i \in DOMAIN layers[r] :
             locked[layers[r][i].slot] /\ image[layers[r][i].slot] = layers[r][i].image
      BY <1>2 DEF SlotSide, ImagesStable
    <2>3. DOMAIN building' = {} BY <1>1
    <2> QED BY <1>1, <1>3, <2>1, <2>2, <2>3 DEF ImagesStable
  <1>17. \A z \in Slots : More(Owners(z), Owners(z)', 0)
    <2> TAKE z \in Slots
    <2> DEFINE a == Cardinality(IndicesOn(composition, z))
               b == Cardinality(IndicesOn(building, z))
               o == 0
               kc == b - a
               kb == o - b
    <2>1. /\ Counted(a, IndicesOn(composition, z)) /\ a \in Nat
          /\ Counted(b, IndicesOn(building, z)) /\ b \in Nat
      BY <1>5, <1>6, IndicesCount
    <2>2. Counted(o, IndicesOn(<<>>, z)) BY IndicesNone
    <2>3. Counted(a, Among(tasks, Ofs({"unref"}, z))) BY <1>6, <1>7
    <2>4. Counted(o, Above(todo, t, 0, Ofs({"unref"}, z)))
      <3>1. Counted(One(Head(todo[t]).op \in {"unref"} /\ Head(todo[t]).slot = z),
              Above(todo, t, Len(todo[t]) - 1, Ofs({"unref"}, z)))
        BY <1>4, SlotTop
      <3>2. One(Head(todo[t]).op \in {"unref"} /\ Head(todo[t]).slot = z) = 0 BY <1>4 DEF One
      <3> QED BY <1>4, <3>1, <3>2
    <2>5. o \in Int /\ a \in Int /\ a = a - o /\ kc \in Int /\ kb \in Int /\
          o + kc + kb + o + a = 0
      BY <2>1
    <2>6. Counted(b, IndicesOn(composition', z)) /\ Counted(o, IndicesOn(building', z))
      BY <1>1, <2>1, <2>2
    <2> HIDE DEF a, b, o
    <2>7. /\ More(LayersOn("composition", 0, composition, z),
             LayersOn("composition", 0, composition', z), kc)
          /\ More(LayersOn("building", 0, building, z), LayersOn("building", 0, building', z),
             kb)
      BY <2>1, <2>6, LayersMore
    <2> HIDE DEF kc, kb
    <2>8. More(StackSet(todo, Ofs({"unref"}, z)), StackSet(todo', Ofs({"unref"}, z)), a)
      BY <1>9, <2>3, <2>4, <2>5, StackDelta
    <2>9. More(When(store[z] # "none", "flutter"), When(store'[z] # "none", "flutter"), 0)
          /\ More(ReqLayers(layers, z), ReqLayers(layers', z), 0)
      BY <1>3, MoreSame
    <2>10. More(When(store[z] # "none", "flutter"), When(store'[z] # "none", "flutter"), o)
          /\ More(ReqLayers(layers, z), ReqLayers(layers', z), o)
      BY <2>9 DEF o
    <2>11. More(Owners(z), Owners(z)', o + kc + kb + o + a)
      BY <1>9, <2>5, <2>7, <2>8, <2>10, OwnersParts
    <2> QED BY <2>5, <2>11
  <1>18. SlotSide' BY <1>1, <1>9, <1>v, <1>16, <1>17, SlotSideMoved
  <1>19. LayerFits'
    <2> SUFFICES ASSUME NEW u \in Threads, NEW d \in Nat, Has(todo', u, d),
                        TaskAt(todo', u, d).op = "present"
                 PROVE FALSE
      BY DEF LayerFits, Layer1
    <2>1. Has(todo, u, d) /\ TaskAt(todo, u, d) = TaskAt(todo', u, d) BY <1>9, <1>v, WasThere
    <2>2. BelowOK(todo, u, d) BY <1>2, <2>1 DEF Shaped
    <2>3. d >= 2 /\ TaskAt(todo, u, 0).op = "unlock" BY <2>1, <2>2 DEF BelowOK
    <2>4. Has(todo, u, 0) BY <2>1, <2>3 DEF Has
    <2>5. Lock1(TaskAt(todo, u, 0), u) BY <1>2, <2>4 DEF RequestSide, LockFits
    <2> QED BY <1>1, <2>3, <2>5 DEF Lock1
  <1> QED BY <1>10, <1>11, <1>13, <1>15, <1>18, <1>19, InvNext

-----------------------------------------------------------------------------
(* locked_fb_ref: a slot that has an owner gets another one.               *)
Retaining(t, m, s) ==
    /\ t \in Threads /\ Stepped(todo, todo', t, m, <<>>)
    /\ \A z : Counted(0, Above(todo, t, m, Ofs({"unown"}, z)))
    /\ s \in Slots /\ Owners(s) # {}
    /\ nrefs' \in [Slots -> Nat] /\ nrefs'[s] = nrefs[s] + 1 /\
       \A z \in Slots : z # s => nrefs'[z] = nrefs[z]
    /\ srefs' \in [Surfaces -> Nat] /\ srefs'[SurfaceOf(s)] = srefs[SurfaceOf(s)] + 1
    /\ \A x \in Surfaces : x # SurfaceOf(s) => srefs'[x] = srefs[x]
    /\ \A z \in Slots : More(Owners(z), Owners(z)', IF z = s THEN 1 ELSE 0)
    /\ \A z \in Slots : z # s => completion'[z] = completion[z]
    /\ UNCHANGED locked /\ UNCHANGED owner /\ UNCHANGED store /\ UNCHANGED front /\
       UNCHANGED life
    /\ UNCHANGED current /\ UNCHANGED fills
    /\ TypeOK' /\ ImagesStable'

(* A slot in use gets one owner more.                                      *)
LEMMA Retained ==
  ASSUME ScanoutInv, NEW A, NEW R, Touches(A, R), A = {},
         R \cap SlotSideOps \subseteq {"snapshot"},
         NEW t, NEW m, NEW s, Retaining(t, m, s)
  PROVE SlotSide'
  <1> DEFINE tasks == <<>>
             x0 == SurfaceOf(s)
  <1>1. /\ t \in Threads /\ Stepped(todo, todo', t, m, tasks)
        /\ \A z : Counted(0, Above(todo, t, m, Ofs({"unown"}, z)))
        /\ s \in Slots /\ Owners(s) # {}
    BY DEF Retaining
  <1>2. /\ nrefs' \in [Slots -> Nat] /\ nrefs'[s] = nrefs[s] + 1 /\
           \A z \in Slots : z # s => nrefs'[z] = nrefs[z]
    BY DEF Retaining
  <1>3. /\ srefs' \in [Surfaces -> Nat] /\ srefs'[x0] = srefs[x0] + 1
        /\ \A x \in Surfaces : x # x0 => srefs'[x] = srefs[x]
    BY DEF Retaining
  <1>4. \A z \in Slots : More(Owners(z), Owners(z)', IF z = s THEN 1 ELSE 0) BY DEF Retaining
  <1>5. /\ \A z \in Slots : z # s => completion'[z] = completion[z]
        /\ UNCHANGED locked /\ UNCHANGED owner /\ UNCHANGED store /\ UNCHANGED front /\
           UNCHANGED life
        /\ UNCHANGED current /\ UNCHANGED fills /\ TypeOK' /\ ImagesStable'
    BY DEF Retaining
  <1>6. TypeOK /\ Shaped(todo) /\ SlotSide /\ todo \in Stacks /\ todo' \in Stacks
    BY <1>1, InvIs, StacksTyped DEF Stepped
  <1>v. /\ "unpin" \notin A \cup R /\ A \cap {"queue", "snapshot"} = {} /\ "deinit" \notin A
        /\ A \cap {"reset", "clear"} = {} /\ R \cap {"reset", "clear"} = {} /\ "fill" \notin A
    BY DEF SlotSideOps
  <1>w. \A K : Counted(0, Among(tasks, K)) BY AmongNone
  <1> HIDE DEF tasks
  <1>7. /\ nrefs[s] > 0 /\ nrefs[s] \in Nat /\ srefs[x0] > 0 /\ srefs[x0] \in Nat /\
           locked[s] /\ owner[s]
        /\ life[x0] = "live" /\ x0 \in Surfaces
    BY <1>1, UsedIs, SlotIs
  <1> HIDE DEF x0
  <1>8. FillFits' /\ StoreFits' /\ DeinitsDiffer'
    BY <1>5, <1>6, <1>v, FitsKept, DifferKept DEF SlotSide
  <1>9. DeinitFits'
    <2>1. \A x \in Surfaces : \/ srefs'[x] = srefs[x] /\ front'[x] = front[x] /\
                                 life'[x] = life[x]
                              \/ srefs[x] # 0 \/ life[x] # "live"
      BY <1>3, <1>5, <1>7
    <2>2. DeinitFits BY <1>6 DEF SlotSide
    <2> QED BY <1>6, <1>v, <2>1, <2>2, DeinitsKept
  <1>10. \A z \in Slots : Pins(z)' = Pins(z) BY <1>5, <1>6, <1>v, PinsKept
  <1>11. SlotsCounted'
    <2> SUFFICES ASSUME NEW z \in Slots PROVE Counted(nrefs'[z], Owners(z)' \cup Pins(z)')
      BY SlotsCountedIs
    <2> DEFINE o == 0
               k == IF z = s THEN 1 ELSE 0
    <2>1. nrefs[z] \in Nat BY <1>6 DEF TypeOK
    <2>2. o \in Int /\ k \in Int /\ nrefs'[z] = nrefs[z] + (k + o) BY <1>2, <2>1
    <2>3. More(Owners(z), Owners(z)', k) /\ More(Pins(z), Pins(z)', o) BY <1>4, <1>10, MoreSame
    <2> HIDE DEF o, k
    <2> QED BY <1>6, <2>2, <2>3, SlotCount
  <1>12. SurfacesCounted'
    <2> SUFFICES ASSUME NEW x \in Surfaces PROVE Counted(srefs'[x], SurfaceOwners(x)')
      BY SurfacesCountedIs
    <2> DEFINE o == 0
               k == 1
               n == srefs[x] +
                 ((One(current' = x) - One(current = x)) + (o - o) +
                   (IF SurfaceOf(s) = x THEN k ELSE 0))
    <2>1. k \in Int /\ \A z : (IF z = s THEN k ELSE 0) = (IF z = s THEN 1 ELSE 0) OBVIOUS
    <2>2. Counted(o, Above(todo, t, m, Ofs({"unown"}, <<x, 0>>))) BY <1>1
    <2>3. Counted(o, Among(tasks, Ofs({"unown"}, <<x, 0>>))) BY <1>w
    <2>4. srefs[x] \in Nat BY <1>6 DEF TypeOK
    <2>5. One(current' = x) = One(current = x) /\ One(current = x) \in Int BY <1>5, OneIs
    <2>6. n = srefs'[x] BY <1>3, <2>4, <2>5 DEF x0
    <2>7. n = srefs[x] + ((One(current' = x) - One(current = x)) + (o - o) +
            (IF SurfaceOf(s) = x THEN k ELSE 0)) OBVIOUS
    <2> HIDE DEF o, n, k
    <2>8. \A z \in Slots : More(Owners(z), Owners(z)', IF z = s THEN k ELSE 0) BY <1>4, <2>1
    <2>9. Counted(n, SurfaceOwners(x)') BY <1>1, <2>1, <2>2, <2>3, <2>7, <2>8, SurfaceMore
    <2> QED BY <2>6, <2>9
  <1>13. CleaningOK'
    <2>1. CleaningOK BY <1>6 DEF SlotSide
    <2>2. \A z \in Slots : z # s => /\ nrefs'[z] = nrefs[z] /\ locked'[z] = locked[z]
                                    /\ owner'[z] = owner[z] /\ completion'[z] = completion[z]
      BY <1>2, <1>5
    <2>3. nrefs'[s] > 0 /\ locked'[s] /\ owner'[s] /\ (nrefs[s] > 0 \/ ~locked[s])
      BY <1>2, <1>5, <1>7
    <2> QED BY <1>5, <1>6, <1>v, <2>1, <2>2, <2>3, CleaningUp
  <1>14. LivesOK'
    <2>1. LivesOK BY <1>6 DEF SlotSide
    <2> SUFFICES ASSUME NEW x \in Surfaces
                 PROVE /\ srefs'[x] > 0 => life'[x] = "live"
                       /\ x > current' => life'[x] = "new"
                       /\ front'[x] # NoSlot => srefs'[x] > 0 /\ SurfaceOf(front'[x]) = x
      BY DEF LivesOK
    <2>2. /\ srefs[x] > 0 => life[x] = "live"
          /\ x > current => life[x] = "new"
          /\ front[x] # NoSlot => srefs[x] > 0 /\ SurfaceOf(front[x]) = x
      BY <2>1 DEF LivesOK
    <2>3. CASE x = x0 BY <1>3, <1>5, <1>7, <2>2, <2>3
    <2>4. CASE x # x0 BY <1>3, <1>5, <2>2, <2>4
    <2> QED BY <2>3, <2>4
  <1> QED BY <1>5, <1>8, <1>9, <1>11, <1>12, <1>13, <1>14 DEF SlotSide

-----------------------------------------------------------------------------
(* A layer of the new composition is made.                                 *)
LEMMA SnapshotTaken ==
  ASSUME ScanoutInv, NEW t \in Threads, At(t, "snapshot"), NEW s, s = Head(todo[t]).slot,
         LockedFbRef(s),
         building' = Append(building, [slot |-> s, image |-> image[s]]), Then(t, <<>>),
         UNCHANGED locked, UNCHANGED owner, UNCHANGED store, UNCHANGED completion,
           UNCHANGED image, UNCHANGED fills,
         UNCHANGED life, UNCHANGED front, UNCHANGED current, UNCHANGED gpuVars,
           UNCHANGED composition,
         UNCHANGED winlock, UNCHANGED pushes, UNCHANGED reqVars, UNCHANGED schedVars,
           UNCHANGED kmsVars
  PROVE ScanoutInv'
  <1> DEFINE A == {}
             R == {"snapshot"}
             tasks == <<>>
             m == Len(todo[t]) - 1
             X == [slot : Slots, image : Images]
             l == [slot |-> s, image |-> image[s]]
  <1>2. TypeOK /\ LayerFits /\ RenderedOK /\ Shaped(todo) /\ SlotSide BY InvIs
  <1>3. UNCHANGED layers /\ UNCHANGED refs /\ UNCHANGED screen /\ UNCHANGED gpu /\ UNCHANGED sem
    BY DEF reqVars, kmsVars, gpuVars
  <1>4. s \in Slots /\ store[s] = "presented" /\ todo[t] # <<>> /\ Head(todo[t]).op = "snapshot"
    <2>1. LET k == Head(todo[t])
          IN  PlaceOK(k, t, m) /\ Store1(k)
      BY TopOK DEF At
    <2> QED BY <2>1 DEF PlaceOK, Store1, At
  <1>5. Owners(s) # {} /\ nrefs[s] \in Nat /\ srefs[SurfaceOf(s)] \in Nat /\ locked[s] /\
        SurfaceOf(s) \in Surfaces
    BY <1>4, UsedIs, SlotIs
  <1>6. \A i \in 1 .. Len(tasks) : FALSE
    <2>1. Len(tasks) = 0 BY ListIs
    <2> QED BY <2>1
  <1>7. tasks \in Seq(Tasks) /\ \A K : Counted(0, Among(tasks, K)) BY ListIs, AmongNone
  <1>8. /\ todo \in Stacks /\ todo' \in Stacks /\ Stepped(todo, todo', t, m, tasks) /\
           Touches(A, R)
    <2>1. Then(t, tasks) OBVIOUS
    <2>2. \A i \in 1 .. Len(tasks) : tasks[i].op \in A BY <1>6
    <2> QED BY <1>7, <2>1, <2>2, PopIs
  <1>s. \A ops, z : "snapshot" \notin ops => Counted(0, Above(todo, t, m, Ofs(ops, z)))
    <2> SUFFICES ASSUME NEW ops, NEW z, "snapshot" \notin ops
                 PROVE  Counted(0, Above(todo, t, m, Ofs(ops, z))) OBVIOUS
    <2>1. Counted(One(Head(todo[t]).op \in ops /\ Head(todo[t]).slot = z),
            Above(todo, t, m, Ofs(ops, z)))
      BY <1>4, SlotTop
    <2>2. One(Head(todo[t]).op \in ops /\ Head(todo[t]).slot = z) = 0 BY <1>4 DEF One
    <2> QED BY <2>1, <2>2
  <1>9. Shaped(todo') BY <1>2, <1>6, <1>8, ShapedPlain
  <1>v. /\ A \cap RequestSideOps = {} /\ R \cap RequestSideOps = {} /\ A = {} /\
           R \cap SlotSideOps \subseteq {"snapshot"}
        /\ "present" \notin A
    BY DEF RequestSideOps, SlotSideOps
  <1>10. l \in X /\ building \in Seq(X) /\ l.slot = s /\ l.image = image[s]
    BY <1>2, <1>4 DEF TypeOK
  <1>11. building' = Append(building, l) OBVIOUS
  <1> HIDE DEF A, R, m, l, X
  <1>12. /\ nrefs' \in [Slots -> Nat] /\ nrefs'[s] = nrefs[s] + 1 /\
            \A z \in Slots : z # s => nrefs'[z] = nrefs[z]
    <2>1. nrefs \in [Slots -> Nat] /\ nrefs' = [nrefs EXCEPT ![s] = @ + 1]
      BY <1>2 DEF TypeOK, LockedFbRef
    <2> QED BY <1>4, <1>5, <2>1
  <1>13. /\ srefs' \in [Surfaces -> Nat] /\ srefs'[SurfaceOf(s)] = srefs[SurfaceOf(s)] + 1
         /\ \A x \in Surfaces : x # SurfaceOf(s) => srefs'[x] = srefs[x]
    <2>1. srefs \in [Surfaces -> Nat] /\ srefs' = [srefs EXCEPT ![SurfaceOf(s)] = @ + 1]
      BY <1>2 DEF TypeOK, LockedFbRef
    <2> QED BY <1>5, <2>1
  <1>14. building' \in Seq(X) /\ DOMAIN building = 1 .. Len(building) /\ Len(building) \in Nat
         /\ DOMAIN building' = 1 .. (Len(building) + 1) /\ building'[Len(building) + 1] = l
         /\ \A i \in 1 .. Len(building) : building'[i] = building[i]
    BY <1>10, <1>11
  <1>15. TypeOK'
    <2>1. (composition \in Seq(X) /\ building \in Seq(X))' BY <1>2, <1>14 DEF TypeOK, X
    <2>2. (\A c \in {composition, building} : c \in Seq([slot : Slots, image : Images]))'
      BY <2>1 DEF X
    <2> QED BY <1>2, <1>8, <1>12, <1>13, <2>2, TypedNext DEF TypeOK, gpuVars, reqVars,
            schedVars, kmsVars
  <1>16. \A i \in DOMAIN building' : building'[i] = l \/
         (i \in DOMAIN building /\ building'[i] = building[i])
    <2> TAKE i \in DOMAIN building'
    <2>1. i \in 1 .. Len(building) \/ i = Len(building) + 1 BY <1>14
    <2> QED BY <1>14, <2>1
  <1>17. \A z : InUse(z)' => InUse(z) \/ z = s BY <1>3, <1>10, <1>16 DEF InUse
  <1>18. RenderedOK'
    <2>1. \A z \in Slots : /\ InUse(z)' => store'[z] \in {"none", "presented"}
                           /\ completion'[z] = "done" => z \notin gpu'
                           /\ store'[z] \in {"empty", "rendered"} => completion'[z] = "none"
      BY <1>2, <1>3, <1>4, <1>17 DEF RenderedOK
    <2> QED BY <1>2, <1>3, <2>1 DEF RenderedOK, ScanoutAfterRender
  <1>19. ImagesStable'
    <2>1. /\ \A i \in DOMAIN composition : locked[composition[i].slot] /\
             image[composition[i].slot] = composition[i].image
          /\ \A i \in DOMAIN building : locked[building[i].slot] /\
             image[building[i].slot] = building[i].image
          /\ \A r \in Requests : \A i \in DOMAIN layers[r] :
               locked[layers[r][i].slot] /\ image[layers[r][i].slot] = layers[r][i].image
      BY <1>2 DEF SlotSide, ImagesStable
    <2>2. \A i \in DOMAIN building' : locked[building'[i].slot] /\
          image[building'[i].slot] = building'[i].image
      BY <1>5, <1>10, <1>16, <2>1
    <2> QED BY <1>3, <2>1, <2>2 DEF ImagesStable
  <1>20. \A z \in Slots : More(Owners(z), Owners(z)', IF z = s THEN 1 ELSE 0)
    <2> TAKE z \in Slots
    <2> DEFINE b == Cardinality(IndicesOn(building, z))
               w == One(l.slot = z)
               b2 == b + w
               kb == b2 - b
               o == 0
    <2>1. Counted(b, IndicesOn(building, z)) /\ b \in Nat BY <1>10, IndicesCount
    <2>2. Counted(o, Among(tasks, Ofs({"unref"}, z))) /\
          Counted(o, Above(todo, t, m, Ofs({"unref"}, z)))
      BY <1>7, <1>s
    <2>3. w \in Int /\ w = IF z = s THEN 1 ELSE 0 BY <1>10 DEF One
    <2>4. o \in Int /\ o = o - o /\ kb \in Int /\ o + o + kb + o + o = (IF z = s THEN 1 ELSE 0)
      BY <2>1, <2>3
    <2> HIDE DEF b
    <2>5. Counted(b2, IndicesOn(Append(building, l), z)) BY <1>10, <2>1, IndicesAppend
    <2>6. Counted(b2, IndicesOn(building', z)) BY <1>11, <2>5
    <2> HIDE DEF w, b2, o
    <2>7. More(LayersOn("building", 0, building, z), LayersOn("building", 0, building', z), kb)
      BY <2>1, <2>6, LayersMore
    <2> HIDE DEF kb
    <2>8. More(StackSet(todo, Ofs({"unref"}, z)), StackSet(todo', Ofs({"unref"}, z)), o)
      BY <1>8, <2>2, <2>4, StackDelta
    <2>9. /\ More(When(store[z] # "none", "flutter"), When(store'[z] # "none", "flutter"), 0)
          /\ More(ReqLayers(layers, z), ReqLayers(layers', z), 0)
          /\ More(LayersOn("composition", 0, composition, z),
             LayersOn("composition", 0, composition', z), 0)
      BY <1>3, MoreSame
    <2>10. /\ More(When(store[z] # "none", "flutter"), When(store'[z] # "none", "flutter"), o)
           /\ More(ReqLayers(layers, z), ReqLayers(layers', z), o)
           /\ More(LayersOn("composition", 0, composition, z),
              LayersOn("composition", 0, composition', z), o)
      BY <2>9 DEF o
    <2>11. More(Owners(z), Owners(z)', o + o + kb + o + o)
      BY <1>8, <2>4, <2>7, <2>8, <2>10, OwnersParts
    <2> QED BY <2>4, <2>11
  <1>21. SlotSide'
    <2>1. \A z : Counted(0, Above(todo, t, m, Ofs({"unown"}, z))) BY <1>s
    <2>2. Retaining(t, m, s)
      BY <1>4, <1>5, <1>8, <1>12, <1>13, <1>15, <1>19, <1>20, <2>1 DEF Retaining
    <2> QED BY <1>8, <1>v, <2>2, Retained
  <1>22. LayerFits' BY <1>2, <1>8, <1>v, FitsKept
  <1> QED BY <1>8, <1>9, <1>v, <1>15, <1>18, <1>21, <1>22, SlotStep

-----------------------------------------------------------------------------
(* A layer of the new composition cannot be made.                          *)
LEMMA SnapshotFails ==
  ASSUME ScanoutInv, NEW t \in Threads, At(t, "snapshot"), building' = <<>>,
         todo' = [todo EXCEPT ![t] = Unrefs(building)], UNCHANGED slotVars, UNCHANGED surfVars,
           UNCHANGED gpuVars,
         UNCHANGED composition, UNCHANGED winlock, UNCHANGED pushes, UNCHANGED reqVars,
           UNCHANGED schedVars,
         UNCHANGED kmsVars
  PROVE ScanoutInv'
  <1> DEFINE A == {"unref"}
             R == {"snapshot", "queue", "push"}
             m == Len(todo[t]) - 1
             X == [slot : Slots, image : Images]
             u == Unrefs(building)
  <1>2. TypeOK /\ LayerFits /\ RenderedOK /\ Shaped(todo) /\ SlotSide /\ RequestSide BY InvIs
  <1>3. UNCHANGED layers /\ UNCHANGED refs /\ UNCHANGED screen /\ UNCHANGED gpu /\
        UNCHANGED sem /\ UNCHANGED waiting
        /\ UNCHANGED queued /\ UNCHANGED store /\ UNCHANGED completion /\ UNCHANGED locked /\
           UNCHANGED image
    BY DEF reqVars, kmsVars, gpuVars, schedVars, slotVars
  <1>4. /\ todo[t] # <<>> /\ Head(todo[t]).op = "snapshot"
        /\ \A d \in Nat : Has(todo, t, d) => TaskAt(todo, t, d).op \in R
    <2>0. todo[t] # <<>> /\ Head(todo[t]).op = "snapshot" BY DEF At
    <2>1. LET k == Head(todo[t])
          IN  m \in Nat /\ TaskAt(todo, t, m) = k /\ BelowOK(todo, t, m)
      BY <2>0, TopOK
    <2>2. \A e \in 0 .. m - 1 : TaskAt(todo, t, e).op \in {"queue", "push"}
      BY <2>0, <2>1 DEF BelowOK
    <2>3. \A d \in Nat : Has(todo, t, d) => d \in 0 .. m - 1 \/ d = m BY <2>1 DEF Has
    <2> QED BY <2>0, <2>1, <2>2, <2>3
  <1>5. building \in Seq(X) /\ \A x \in X : x.slot \in Slots BY <1>2 DEF TypeOK
  <1>6. u = Unrefs(building) OBVIOUS
  <1> HIDE DEF X, u, m
  <1>7. /\ u \in Seq(Tasks)
        /\ \A i \in 1 .. Len(u) : u[i].op = "unref" /\ "unref" \in PlainOps /\
           PlaceOK(u[i], t, 0 + Len(u) - i)
        /\ \A z : Counted(Cardinality(IndicesOn(building, z)), Among(u, Ofs({"unref"}, z)))
                  /\ Counted(Cardinality(IndicesOn(building, z)), IndicesOn(building, z))
                  /\ Cardinality(IndicesOn(building, z)) \in Nat
    BY <1>5, <1>6, UnrefsTasks
  <1>v. /\ A \cap (SlotSideOps \ {"unref"}) = {} /\
           R \cap (SlotSideOps \ {"unref", "queue", "snapshot"}) = {}
        /\ A \cap BatonOps = {} /\ R \cap BatonOps = {} /\ A \cap ReqOps = {} /\
           R \cap ReqOps = {}
        /\ A \cap {"push", "build", "unlock", "submit"} = {} /\ "present" \notin A /\
           "unref" \notin R
    BY DEF SlotSideOps, BatonOps, ReqOps
  <1>8. /\ todo \in Stacks /\ todo' \in Stacks /\ Stepped(todo, todo', t, 0, u) /\ Touches(A, R)
    <2>1. todo' = [todo EXCEPT ![t] = u] BY DEF u
    <2>2. \A i \in 1 .. Len(u) : u[i].op \in A BY <1>7
    <2> HIDE DEF A, R
    <2> QED BY <1>4, <1>7, <2>1, <2>2, CutIs
  <1> HIDE DEF A, R
  <1>9. \A z : Counted(0, Above(todo, t, 0, Ofs({"unref"}, z)))
    <2> TAKE z
    <2>1. Above(todo, t, 0, Ofs({"unref"}, z)) = {} BY <1>4, <1>v DEF Above, Ofs
    <2> QED BY <2>1, CountNone
  <1>10. Shaped(todo')
    <2>1. \A i \in 1 .. Len(u) : PlaceOK(u[i], t, 0 + Len(u) - i) /\ u[i].op \in PlainOps
      BY <1>7
    <2> QED BY <1>2, <1>8, <2>1, ShapedPlain
  <1>11. TypeOK'
    <2>1. <<>> \in Seq(X) OBVIOUS
    <2>2. (composition \in Seq(X) /\ building \in Seq(X))' BY <1>2, <2>1 DEF TypeOK, X
    <2>3. (\A c \in {composition, building} : c \in Seq([slot : Slots, image : Images]))'
      BY <2>2 DEF X
    <2> QED BY <1>2, <1>8, <2>3, TypedNext DEF TypeOK, slotVars, surfVars, gpuVars, reqVars,
            schedVars, kmsVars
  <1>12. RequestSide'
    <2>1. PushFits' /\ LockFits' /\ SubmitFits' /\ PushesDiffer'
      BY <1>3, <1>8, <1>v, RequestFits
    <2>3. BatonsOK' BY <1>2, <1>3, <1>8, <1>v, BatonsKept DEF RequestSide
    <2>4. RequestsCounted' BY <1>2, <1>3, <1>8, <1>v, RequestsKept DEF RequestSide
    <2>5. LayersCounted' BY <1>2, <1>3, LayersKept DEF RequestSide
    <2> QED BY <2>1, <2>3, <2>4, <2>5 DEF RequestSide
  <1>14. \A z : InUse(z)' => InUse(z)
    <2>1. DOMAIN building' = {} OBVIOUS
    <2> QED BY <1>3, <2>1 DEF InUse
  <1>15. RenderedOK'
    <2>1. \A z \in Slots : /\ InUse(z)' => store'[z] \in {"none", "presented"}
                           /\ completion'[z] = "done" => z \notin gpu'
                           /\ store'[z] \in {"empty", "rendered"} => completion'[z] = "none"
      BY <1>2, <1>3, <1>14 DEF RenderedOK
    <2> QED BY <1>2, <1>3, <2>1 DEF RenderedOK, ScanoutAfterRender
  <1>16. ImagesStable'
    <2>1. \A i \in DOMAIN composition : locked[composition[i].slot] /\
          image[composition[i].slot] = composition[i].image
      BY <1>2 DEF SlotSide, ImagesStable
    <2>2. \A r \in Requests : \A i \in DOMAIN layers[r] :
             locked[layers[r][i].slot] /\ image[layers[r][i].slot] = layers[r][i].image
      BY <1>2 DEF SlotSide, ImagesStable
    <2>3. DOMAIN building' = {} OBVIOUS
    <2> QED BY <1>3, <2>1, <2>2, <2>3 DEF ImagesStable
  <1>17. \A z \in Slots : More(Owners(z), Owners(z)', 0)
    <2> TAKE z \in Slots
    <2> DEFINE b == Cardinality(IndicesOn(building, z))
               o == 0
               kb == o - b
    <2>1. Counted(b, IndicesOn(building, z)) /\ b \in Nat BY <1>7
    <2>2. Counted(o, IndicesOn(building', z)) BY IndicesNone
    <2>3. Counted(b, Among(u, Ofs({"unref"}, z))) BY <1>7
    <2>4. Counted(o, Above(todo, t, 0, Ofs({"unref"}, z))) BY <1>9
    <2>5. o \in Int /\ b \in Int /\ b = b - o /\ kb \in Int /\ o + o + kb + o + b = 0 BY <2>1
    <2> HIDE DEF b, o
    <2>7. More(LayersOn("building", 0, building, z), LayersOn("building", 0, building', z), kb)
      BY <2>1, <2>2, LayersMore
    <2> HIDE DEF kb
    <2>8. More(StackSet(todo, Ofs({"unref"}, z)), StackSet(todo', Ofs({"unref"}, z)), b)
      BY <1>8, <2>3, <2>4, <2>5, StackDelta
    <2>9. /\ More(When(store[z] # "none", "flutter"), When(store'[z] # "none", "flutter"), 0)
          /\ More(ReqLayers(layers, z), ReqLayers(layers', z), 0)
          /\ More(LayersOn("composition", 0, composition, z),
             LayersOn("composition", 0, composition', z), 0)
      BY <1>3, MoreSame
    <2>10. /\ More(When(store[z] # "none", "flutter"), When(store'[z] # "none", "flutter"), o)
           /\ More(ReqLayers(layers, z), ReqLayers(layers', z), o)
           /\ More(LayersOn("composition", 0, composition, z),
              LayersOn("composition", 0, composition', z), o)
      BY <2>9 DEF o
    <2>11. More(Owners(z), Owners(z)', o + o + kb + o + b)
      BY <1>8, <2>5, <2>7, <2>8, <2>10, OwnersParts
    <2> QED BY <2>5, <2>11
  <1>18. SlotSide' BY <1>8, <1>v, <1>16, <1>17, SlotSideMoved
  <1>19. LayerFits' BY <1>2, <1>8, <1>v, FitsKept
  <1> QED BY <1>10, <1>11, <1>12, <1>15, <1>18, <1>19, InvNext

(* Both keep the invariant.                                                *)
LEMMA SnapshotStep == ASSUME ScanoutInv, NEW t \in Threads, Snapshot(t) PROVE ScanoutInv'
  <1> DEFINE s == Head(todo[t]).slot
  <1>1. /\ At(t, "snapshot")
        /\ UNCHANGED locked /\ UNCHANGED owner /\ UNCHANGED store /\ UNCHANGED completion /\
           UNCHANGED image /\ UNCHANGED fills
        /\ UNCHANGED life /\ UNCHANGED front /\ UNCHANGED current /\ UNCHANGED gpuVars /\
           UNCHANGED composition
        /\ UNCHANGED winlock /\ UNCHANGED pushes /\ UNCHANGED reqVars /\ UNCHANGED schedVars /\
           UNCHANGED kmsVars
    BY DEF Snapshot
  <1>2. \/ LockedFbRef(s) /\ building' = Append(building, [slot |-> s, image |-> image[s]]) /\
           Then(t, <<>>)
        \/ building' = <<>> /\ todo' = [todo EXCEPT ![t] = Unrefs(building)] /\
                               UNCHANGED nrefs /\ UNCHANGED srefs
    BY DEF Snapshot
  <1>3. s = Head(todo[t]).slot OBVIOUS
  <1> HIDE DEF s
  <1>4. CASE LockedFbRef(s) /\ building' = Append(building, [slot |-> s, image |-> image[s]]) /\
        Then(t, <<>>)
    BY <1>1, <1>3, <1>4, SnapshotTaken
  <1>5. CASE building' = <<>> /\ todo' = [todo EXCEPT ![t] = Unrefs(building)] /\
                                 UNCHANGED nrefs /\ UNCHANGED srefs
    <2>1. UNCHANGED slotVars /\ UNCHANGED surfVars BY <1>1, <1>5 DEF slotVars, surfVars
    <2> QED BY <1>1, <1>5, <2>1, SnapshotFails
  <1> QED BY <1>2, <1>4, <1>5

-----------------------------------------------------------------------------
(* What set_front_fb leaves to do in queue_present.                        *)
Queued(s, old, swap, tasks) ==
    /\ tasks \in Seq(Tasks)
    /\ swap => Len(tasks) = 2 /\ tasks[1] = Task("unpin", old) /\ tasks[2] = Task("snapshot", s)
    /\ ~swap => Len(tasks) = 1 /\ tasks[1] = Task("snapshot", s)

(* The tasks of a queued layer.                                            *)
LEMMA PinIs ==
  ASSUME NEW s \in Slots
  PROVE /\ Task("unpin", s) \in Tasks /\ Task("unpin", s).op = "unpin" /\
           Task("unpin", s).slot = s
        /\ Task("snapshot", s) \in Tasks /\ Task("snapshot", s).op = "snapshot" /\
           Task("snapshot", s).slot = s
  BY TaskIs DEF Ops

(* The lists of tasks that queueing a layer calls.                         *)
LEMMA QueuedIs ==
  ASSUME NEW s \in Slots, NEW old
  PROVE /\ Queued(s, old, FALSE, <<>> \o <<Task("snapshot", s)>>)
        /\ old \in Slots =>
           Queued(s, old, TRUE, <<Task("unpin", old)>> \o <<Task("snapshot", s)>>)
  <1> DEFINE b == Task("snapshot", s)
             a == Task("unpin", old)
  <1>1. b \in Tasks BY PinIs
  <1>2. old \in Slots => a \in Tasks BY PinIs
  <1> HIDE DEF a, b
  <1>3. <<>> \o <<b>> = <<b>> BY <1>1, JoinIs
  <1>4. <<b>> \in Seq(Tasks) /\ Len(<<b>>) = 1 /\ <<b>>[1] = b BY <1>1, ListIs
  <1>5. Queued(s, old, FALSE, <<>> \o <<b>>) BY <1>3, <1>4 DEF Queued, b
  <1>6. ASSUME old \in Slots PROVE Queued(s, old, TRUE, <<a>> \o <<b>>)
    <2>1. <<a>> \o <<b>> = <<a, b>> BY <1>1, <1>2, <1>6, JoinIs
    <2>2. <<a, b>> \in Seq(Tasks) /\ Len(<<a, b>>) = 2 /\ <<a, b>>[1] = a /\ <<a, b>>[2] = b
      BY <1>1, <1>2, <1>6, ListIs
    <2> QED BY <2>1, <2>2 DEF Queued, a, b
  <1> QED BY <1>5, <1>6 DEF a, b

(* What is in them.                                                        *)
LEMMA QueuedTasks ==
  ASSUME NEW s \in Slots, NEW old, NEW swap \in BOOLEAN, swap =>
         old \in Slots, NEW tasks, Queued(s, old, swap, tasks)
  PROVE /\ \A i \in 1 .. Len(tasks) : tasks[i].op \in {"unpin", "snapshot"} /\
           (tasks[i].op = "snapshot" => tasks[i].slot = s)
        /\ \A z : Counted(One(swap /\ old = z), Among(tasks, Ofs({"unpin"}, z)))
  <1> DEFINE a == Task("unpin", old)
             b == Task("snapshot", s)
  <1>1. b \in Tasks /\ b.op = "snapshot" /\ b.slot = s BY PinIs
  <1>2. swap => a \in Tasks /\ a.op = "unpin" /\ a.slot = old BY PinIs
  <1>3. swap => tasks \in Seq(Tasks) /\ Len(tasks) = 2 /\ tasks[1] = a /\ tasks[2] = b
    BY DEF Queued
  <1>4. ~swap => tasks \in Seq(Tasks) /\ Len(tasks) = 1 /\ tasks[1] = b BY DEF Queued
  <1> HIDE DEF a, b
  <1>5. CASE swap
    <2>0. Len(tasks) = 2 /\ tasks[1] = a /\ tasks[2] = b /\ a \in Tasks /\ a.op = "unpin" /\
          a.slot = old
      BY <1>2, <1>3, <1>5
    <2>1. \A i \in 1 .. Len(tasks) : i = 1 \/ i = 2 BY <2>0
    <2>2. 1 \in 1 .. Len(tasks) BY <2>0
    <2>3. \A i \in 1 .. Len(tasks) : tasks[i].op \in {"unpin", "snapshot"} /\
          (tasks[i].op = "snapshot" => tasks[i].slot = s)
      BY <1>1, <2>0, <2>1
    <2>4. \A z : Counted(One(swap /\ old = z), Among(tasks, Ofs({"unpin"}, z)))
      <3> TAKE z
      <3>1. \A j \in 1 .. Len(tasks) : tasks[j] \in Ofs({"unpin"}, z) => j = 1
        BY <1>1, <2>0, <2>1 DEF Ofs
      <3>2. Counted(One(tasks[1] \in Ofs({"unpin"}, z)), Among(tasks, Ofs({"unpin"}, z)))
        BY <2>2, <3>1, AmongJust
      <3>3. tasks[1] \in Ofs({"unpin"}, z) <=> (swap /\ old = z) BY <1>5, <2>0 DEF Ofs
      <3>4. One(tasks[1] \in Ofs({"unpin"}, z)) = One(swap /\ old = z) BY <3>3 DEF One
      <3> QED BY <3>2, <3>4
    <2> QED BY <2>3, <2>4
  <1>6. CASE ~swap
    <2>0. Len(tasks) = 1 /\ tasks[1] = b BY <1>4, <1>6
    <2>1. \A i \in 1 .. Len(tasks) : i = 1 BY <2>0
    <2>3. \A i \in 1 .. Len(tasks) : tasks[i].op \in {"unpin", "snapshot"} /\
          (tasks[i].op = "snapshot" => tasks[i].slot = s)
      BY <1>1, <2>0, <2>1
    <2>4. \A z : Counted(One(swap /\ old = z), Among(tasks, Ofs({"unpin"}, z)))
      <3> TAKE z
      <3>1. \A j \in 1 .. Len(tasks) : tasks[j] \notin Ofs({"unpin"}, z)
        BY <1>1, <2>0, <2>1 DEF Ofs
      <3>2. One(swap /\ old = z) = 0 BY <1>6 DEF One
      <3> QED BY <3>1, <3>2, AmongNot
    <2> QED BY <2>3, <2>4
  <1> QED BY <1>5, <1>6

(* They rest on the surface's owner below.                                 *)
LEMMA QueuedShaped ==
  ASSUME NEW stk, NEW new, NEW t, t = Raster, NEW m, NEW tasks, Stepped(stk, new, t, m, tasks),
         Shaped(stk),
         NEW s \in Slots, NEW old, NEW swap \in BOOLEAN, swap =>
           old \in Slots /\ SurfaceOf(old) = SurfaceOf(s),
         Queued(s, old, swap, tasks),
         \A e \in 0 .. m - 1 : TaskAt(stk, t, e).op \in {"queue", "push"}
  PROVE Shaped(new)
  <1> DEFINE a == Task("unpin", old)
             b == Task("snapshot", s)
  <1>1. b \in Tasks /\ b.op = "snapshot" /\ b.slot = s BY PinIs
  <1>2. swap => a \in Tasks /\ a.op = "unpin" /\ a.slot = old BY PinIs
  <1>3. swap => tasks \in Seq(Tasks) /\ Len(tasks) = 2 /\ tasks[1] = a /\ tasks[2] = b
    BY DEF Queued
  <1>4. ~swap => tasks \in Seq(Tasks) /\ Len(tasks) = 1 /\ tasks[1] = b BY DEF Queued
  <1> HIDE DEF a, b
  <1>5. /\ m \in Nat /\ Len(tasks) \in Nat
        /\ \A i \in 1 .. Len(tasks) : TaskAt(new, t, m + Len(tasks) - i) = tasks[i]
        /\ \A d \in Nat : d < m => TaskAt(new, t, d) = TaskAt(stk, t, d)
    BY SteppedTasks
  <1>6. \A e \in 0 .. m - 1 : TaskAt(new, t, e).op \in {"queue", "push"}
    <2>1. \A e \in 0 .. m - 1 : e \in Nat /\ e < m BY <1>5
    <2> QED BY <1>5, <2>1
  <1>7. \A d : PlaceOK(b, t, d) BY <1>1 DEF PlaceOK
  <1>8. swap => \A d : PlaceOK(a, t, d) BY <1>2 DEF PlaceOK
  <1>9. TaskAt(new, t, m) = b => BelowOK(new, t, m) BY <1>1, <1>6 DEF BelowOK
  <1>10. CASE swap
    <2>0. Len(tasks) = 2 /\ tasks[1] = a /\ tasks[2] = b /\ a.op = "unpin" /\ a.slot = old
      BY <1>2, <1>3, <1>10
    <2>1. TaskAt(new, t, m + 1) = a /\ TaskAt(new, t, m) = b
      <3>1. 1 \in 1 .. Len(tasks) /\ 2 \in 1 .. Len(tasks) BY <2>0
      <3>2. m + Len(tasks) - 1 = m + 1 /\ m + Len(tasks) - 2 = m BY <2>0, <1>5
      <3>3. /\ TaskAt(new, t, m + Len(tasks) - 1) = tasks[1]
            /\ TaskAt(new, t, m + Len(tasks) - 2) = tasks[2]
        BY <1>5, <3>1
      <3> QED BY <2>0, <3>2, <3>3
    <2>2. BelowOK(new, t, m) BY <1>9, <2>1
    <2>3. BelowOK(new, t, m + 1)
      <3>1. m \in 0 .. (m + 1) - 1 BY <1>5
      <3>2. Covers(TaskAt(new, t, m), SurfaceOf(a.slot)) BY <1>1, <1>10, <2>0, <2>1 DEF Covers
      <3>3. \E f \in 0 .. (m + 1) - 1 : Covers(TaskAt(new, t, f), SurfaceOf(a.slot))
        BY <3>1, <3>2
      <3> QED BY <2>0, <2>1, <3>3 DEF BelowOK
    <2>5. \A i \in 1 .. Len(tasks) : PlaceOK(tasks[i], t, m + Len(tasks) - i) /\
          BelowOK(new, t, m + Len(tasks) - i)
      <3> TAKE i \in 1 .. Len(tasks)
      <3>1. i = 1 \/ i = 2 BY <2>0
      <3>2. CASE i = 1
        <4>1. m + Len(tasks) - i = m + 1 BY <2>0, <1>5, <3>2
        <4> QED BY <2>0, <1>8, <1>10, <2>3, <3>2, <4>1
      <3>3. CASE i = 2
        <4>1. m + Len(tasks) - i = m BY <2>0, <1>5, <3>3
        <4> QED BY <2>0, <1>7, <2>2, <3>3, <4>1
      <3> QED BY <3>1, <3>2, <3>3
    <2> QED BY <2>5, ShapedStep
  <1>11. CASE ~swap
    <2>0. Len(tasks) = 1 /\ tasks[1] = b BY <1>4, <1>11
    <2>1. \A i \in 1 .. Len(tasks) : i = 1 BY <2>0
    <2>2. m + Len(tasks) - 1 = m BY <1>5, <2>0
    <2>3. 1 \in 1 .. Len(tasks) BY <2>0
    <2>4. TaskAt(new, t, m) = b BY <1>5, <2>0, <2>2, <2>3
    <2>5. \A i \in 1 .. Len(tasks) : PlaceOK(tasks[i], t, m + Len(tasks) - i) /\
          BelowOK(new, t, m + Len(tasks) - i)
      BY <1>7, <1>9, <2>0, <2>1, <2>2, <2>4
    <2> QED BY <2>5, ShapedStep
  <1> QED BY <1>10, <1>11

-----------------------------------------------------------------------------
(* queue_present leaves the slots as follows.                              *)
Queueing(t, m, s, old, swap, tasks) ==
    /\ t \in Threads /\ t = Raster /\ s \in Slots /\ swap \in BOOLEAN /\
       Queued(s, old, swap, tasks)
    /\ Stepped(todo, todo', t, m, tasks) /\ todo \in Stacks /\ todo' \in Stacks
    /\ \A ops, z : "queue" \notin ops => Counted(0, Above(todo, t, m, Ofs(ops, z)))
    /\ old = front[SurfaceOf(s)] /\ (swap <=> old # s /\ old # NoSlot) /\
       (swap => old \in Slots /\ SurfaceOf(old) = SurfaceOf(s))
    /\ front' = [front EXCEPT ![SurfaceOf(s)] = s]
    /\ nrefs' \in [Slots -> Nat] /\
       \A z \in Slots : nrefs'[z] = nrefs[z] + (IF z = s /\ old # s THEN 1 ELSE 0)
    /\ store[s] \in {"rendered", "presented"} /\ store' = [store EXCEPT ![s] = "presented"]
    /\ \A z \in Slots : z # s => completion'[z] = completion[z]
    /\ UNCHANGED locked /\ UNCHANGED owner /\ UNCHANGED image /\ UNCHANGED fills /\
       UNCHANGED life /\ UNCHANGED srefs
    /\ UNCHANGED current /\ UNCHANGED composition /\ UNCHANGED building /\ UNCHANGED layers
    /\ TypeOK'

(* The slots' half of the invariant when a layer is queued.                *)
LEMMA QueueingSlots ==
  ASSUME ScanoutInv, Touches({"unpin", "snapshot"}, {"queue"}), NEW t, NEW m, NEW s, NEW old,
         NEW swap, NEW tasks,
         Queueing(t, m, s, old, swap, tasks)
  PROVE SlotSide'
  <1> DEFINE A == {"unpin", "snapshot"}
             R == {"queue"}
             x0 == SurfaceOf(s)
  <1>1. /\ t \in Threads /\ t = Raster /\ s \in Slots /\ swap \in BOOLEAN /\
           Queued(s, old, swap, tasks)
        /\ Stepped(todo, todo', t, m, tasks) /\ todo \in Stacks /\ todo' \in Stacks
        /\ old = front[x0] /\ (swap <=> old # s /\ old # NoSlot) /\
           (swap => old \in Slots /\ SurfaceOf(old) = x0)
        /\ front' = [front EXCEPT ![x0] = s]
    BY DEF Queueing
  <1>a. \A ops, z : "queue" \notin ops => Counted(0, Above(todo, t, m, Ofs(ops, z)))
    BY Zenon DEF Queueing
  <1>2. nrefs' \in [Slots -> Nat] /\
        \A z \in Slots : nrefs'[z] = nrefs[z] + (IF z = s /\ old # s THEN 1 ELSE 0)
    BY DEF Queueing
  <1>3. /\ store[s] \in {"rendered", "presented"} /\ store' = [store EXCEPT ![s] = "presented"]
        /\ \A z \in Slots : z # s => completion'[z] = completion[z]
        /\ UNCHANGED locked /\ UNCHANGED owner /\ UNCHANGED image /\ UNCHANGED fills /\
           UNCHANGED life /\ UNCHANGED srefs
        /\ UNCHANGED current /\ UNCHANGED composition /\ UNCHANGED building /\ UNCHANGED layers
        /\ TypeOK'
    BY DEF Queueing
  <1>4. TypeOK /\ Shaped(todo) /\ SlotSide BY InvIs
  <1>5. Touches(A, R) OBVIOUS
  <1>v. /\ "unref" \notin A \cup R /\ "unown" \notin A \cup R /\ "fill" \notin A /\
           "deinit" \notin A
        /\ A \cap {"reset", "clear"} = {} /\ R \cap {"reset", "clear"} = {}
    OBVIOUS
  <1> HIDE DEF A, R
  <1>6. /\ \A i \in 1 .. Len(tasks) : tasks[i].op \in {"unpin", "snapshot"} /\
           (tasks[i].op = "snapshot" => tasks[i].slot = s)
        /\ \A z : Counted(One(swap /\ old = z), Among(tasks, Ofs({"unpin"}, z)))
    <2>1. s \in Slots /\ swap \in BOOLEAN /\ Queued(s, old, swap, tasks) BY <1>1
    <2>2. swap => old \in Slots BY <1>1
    <2> QED BY <2>1, <2>2, QueuedTasks, ZenonT(60)
  <1>7. /\ Owners(s) # {} /\ nrefs[s] > 0 /\ srefs[x0] > 0 /\ srefs[x0] \in Nat /\ locked[s] /\
           owner[s] /\ x0 \in Surfaces
    BY <1>1, <1>3, UsedIs, SlotIs
  <1>8. /\ front' \in [Surfaces -> Slots \cup {NoSlot}] /\ front'[x0] = s
        /\ \A x \in Surfaces : x # x0 => front'[x] = front[x]
    BY <1>1, <1>4, <1>7 DEF TypeOK
  <1>9. store'[s] = "presented" /\ \A z \in Slots : z # s => store'[z] = store[z]
    BY <1>1, <1>3, <1>4 DEF TypeOK
  <1>10. FillFits' /\ DeinitsDiffer'
    BY <1>3, <1>4, <1>5, <1>v, FitsKept, DifferKept DEF SlotSide
  <1>11. DeinitFits'
    <2>1. srefs[x0] # 0 BY <1>7
    <2> HIDE DEF x0
    <2>2. \A x \in Surfaces : \/ srefs'[x] = srefs[x] /\ front'[x] = front[x] /\
                                 life'[x] = life[x]
                              \/ srefs[x] # 0 \/ life[x] # "live"
      BY <1>3, <1>8, <2>1
    <2>3. DeinitFits BY <1>4 DEF SlotSide
    <2> QED BY <1>4, <1>5, <1>v, <2>2, <2>3, DeinitsKept
  <1>12. StoreFits'
    <2> SUFFICES ASSUME NEW u \in Threads, NEW d \in Nat, Has(todo', u, d), NEW k,
                        k = TaskAt(todo', u, d)
                 PROVE /\ k.op = "queue" => store'[k.slot] \in {"rendered", "presented"}
                       /\ k.op = "snapshot" => store'[k.slot] = "presented"
      BY DEF StoreFits, Store1
    <2>1. CASE Has(todo, u, d) /\ TaskAt(todo', u, d) = TaskAt(todo, u, d)
      <3>0. k = TaskAt(todo, u, d) BY <2>1
      <3>1. Store1(k) BY <1>4, <2>1, <3>0 DEF SlotSide, StoreFits
      <3>2. k.op \in {"queue", "snapshot"} => k.slot \in Slots
        BY <1>4, <2>1, <3>0 DEF Shaped, PlaceOK
      <3> QED BY <1>9, <3>1, <3>2 DEF Store1
    <2>2. CASE ~(Has(todo, u, d) /\ TaskAt(todo', u, d) = TaskAt(todo, u, d))
      <3>0. Stepped(todo, todo', t, m, tasks) BY <1>1
      <3>1. m \in Nat /\ Len(tasks) \in Nat
            /\ \A w \in Threads : \A e \in Nat : w # t =>
                  (Has(todo', w, e) <=> Has(todo, w, e)) /\
                    TaskAt(todo', w, e) = TaskAt(todo, w, e)
        BY <3>0, SteppedTasks
      <3>2. \A e \in Nat : e < m =>
            Has(todo', t, e) /\ Has(todo, t, e) /\ TaskAt(todo', t, e) = TaskAt(todo, t, e)
        BY <3>0, SteppedTasks
      <3>3. \A e \in Nat : e >= m /\ Has(todo', t, e) =>
                    m + Len(tasks) - e \in 1 .. Len(tasks) /\
                      TaskAt(todo', t, e) = tasks[m + Len(tasks) - e]
        BY <3>0, SteppedTasks
      <3>4. u = t BY <2>2, <3>1
      <3>5. d >= m BY <2>2, <3>1, <3>2, <3>4
      <3>6. m + Len(tasks) - d \in 1 .. Len(tasks) /\ k = tasks[m + Len(tasks) - d]
        BY <3>3, <3>4, <3>5
      <3>7. k.op \in {"unpin", "snapshot"} /\ (k.op = "snapshot" => k.slot = s) BY <1>6, <3>6
      <3> QED BY <1>9, <3>7
    <2> QED BY <2>1, <2>2
  <1>13. \A z \in Slots : Owners(z)' = Owners(z)
    <2>1. \A z \in Slots : (store'[z] # "none") <=> (store[z] # "none") BY <1>3, <1>9
    <2> QED BY <1>1, <1>3, <1>5, <1>v, <2>1, OwnersKept
  <1>14. SlotsCounted'
    <2> SUFFICES ASSUME NEW z \in Slots PROVE Counted(nrefs'[z], Owners(z)' \cup Pins(z)')
      BY SlotsCountedIs
    <2> DEFINE g == 0
               j == One(swap /\ old = z)
               kt == j
               kf == One(front'[SurfaceOf(z)] = z) - One(front[SurfaceOf(z)] = z)
               k == IF z = s /\ old # s THEN 1 ELSE 0
    <2>1. Counted(g, Above(todo, t, m, Ofs({"unpin"}, z))) BY <1>a
    <2>2. Counted(j, Among(tasks, Ofs({"unpin"}, z))) BY <1>6
    <2>3. kt \in Int /\ kt = j - g /\ g \in Int /\ k \in Int BY DEF One
    <2>4. /\ kf \in Int
          /\ More(When(front[SurfaceOf(z)] = z, "front"),
             When(front'[SurfaceOf(z)] = z, "front"), kf)
      BY WhenMore
    <2>5. kf + kt = k
      <3>1. SurfaceOf(z) \in Surfaces /\ z # NoSlot BY SlotIs
      <3>2. CASE SurfaceOf(z) # x0
        <4>1. front'[SurfaceOf(z)] = front[SurfaceOf(z)] /\ z # s /\ ~(swap /\ old = z)
          BY <1>1, <1>8, <3>1, <3>2
        <4> QED BY <4>1 DEF One
      <3>3. CASE SurfaceOf(z) = x0
        <4>1. front'[SurfaceOf(z)] = s /\ front[SurfaceOf(z)] = old BY <1>1, <1>8, <3>3
        <4>2. CASE z = s BY <1>1, <4>1, <4>2 DEF One
        <4>3. CASE z # s BY <1>1, <3>1, <4>1, <4>3 DEF One
        <4> QED BY <4>2, <4>3
      <3> QED BY <3>2, <3>3
    <2>6. nrefs[z] \in Nat /\ nrefs'[z] = nrefs[z] + (g + k)
      <3>1. nrefs[z] \in Nat BY <1>4 DEF TypeOK
      <3>2. nrefs'[z] = nrefs[z] + k BY <1>2
      <3> QED BY <2>3, <3>1, <3>2
    <2>7. More(Owners(z), Owners(z)', g) BY <1>13, MoreSame
    <2> HIDE DEF g, j, kt, kf, k
    <2>8. More(StackSet(todo, Ofs({"unpin"}, z)), StackSet(todo', Ofs({"unpin"}, z)), kt)
      BY <1>1, <2>1, <2>2, <2>3, StackDelta
    <2>9. More(Pins(z), Pins(z)', kf + kt) BY <1>1, <2>3, <2>4, <2>8, PinsTasked
    <2>10. More(Pins(z), Pins(z)', k) BY <2>5, <2>9
    <2> QED BY <1>1, <2>3, <2>6, <2>7, <2>10, SlotCount
  <1>15. SurfacesCounted' BY <1>1, <1>3, <1>4, <1>5, <1>v, <1>13, SurfacesKept DEF SlotSide
  <1>16. CleaningOK'
    <2>1. CleaningOK BY <1>4 DEF SlotSide
    <2>2. nrefs[s] \in Nat /\ nrefs'[s] >= nrefs[s] /\
          \A z \in Slots : z # s => nrefs'[z] = nrefs[z]
      BY <1>1, <1>2, <1>4 DEF TypeOK
    <2>3. \A z \in Slots : z # s => /\ nrefs'[z] = nrefs[z] /\ locked'[z] = locked[z]
                                    /\ owner'[z] = owner[z] /\ completion'[z] = completion[z]
      BY <1>3, <2>2
    <2>4. nrefs'[s] > 0 /\ locked'[s] /\ owner'[s] /\ (nrefs[s] > 0 \/ ~locked[s])
      <3>1. nrefs'[s] \in Nat BY <1>1, <1>2
      <3> QED BY <1>3, <1>7, <2>2, <3>1
    <2> QED BY <1>3, <1>4, <1>5, <1>v, <2>1, <2>3, <2>4, CleaningUp
  <1>17. LivesOK'
    <2>1. LivesOK BY <1>4 DEF SlotSide
    <2> SUFFICES ASSUME NEW x \in Surfaces
                 PROVE /\ srefs'[x] > 0 => life'[x] = "live"
                       /\ x > current' => life'[x] = "new"
                       /\ front'[x] # NoSlot => srefs'[x] > 0 /\ SurfaceOf(front'[x]) = x
      BY DEF LivesOK
    <2>2. /\ srefs[x] > 0 => life[x] = "live"
          /\ x > current => life[x] = "new"
          /\ front[x] # NoSlot => srefs[x] > 0 /\ SurfaceOf(front[x]) = x
      BY <2>1 DEF LivesOK
    <2>3. CASE x = x0 BY <1>3, <1>7, <1>8, <2>2, <2>3
    <2>4. CASE x # x0 BY <1>3, <1>8, <2>2, <2>4
    <2> QED BY <2>3, <2>4
  <1>18. ImagesStable' BY <1>3, <1>4, ImagesKept DEF SlotSide
  <1> QED BY <1>10, <1>11, <1>12, <1>14, <1>15, <1>16, <1>17, <1>18 DEF SlotSide

(* The kinds of the tasks of a queued layer.                               *)
LEMMA QueuedOps ==
  ASSUME NEW s \in Slots, NEW old, NEW swap \in BOOLEAN, NEW tasks, Queued(s, old, swap, tasks)
  PROVE tasks \in Seq(Tasks) /\ \A i \in 1 .. Len(tasks) : tasks[i].op \in {"unpin", "snapshot"}
  <1> DEFINE a == Task("unpin", old)
             b == Task("snapshot", s)
  <1>1. b.op = "snapshot" /\ a.op = "unpin" BY DEF Task
  <1>2. tasks \in Seq(Tasks) BY DEF Queued
  <1>3. swap => Len(tasks) = 2 /\ tasks[1] = a /\ tasks[2] = b BY DEF Queued
  <1>4. ~swap => Len(tasks) = 1 /\ tasks[1] = b BY DEF Queued
  <1> HIDE DEF a, b
  <1>5. CASE swap
    <2>0. Len(tasks) = 2 BY <1>3, <1>5
    <2>1. \A i \in 1 .. Len(tasks) : i = 1 \/ i = 2 BY <2>0
    <2> QED BY <1>1, <1>2, <1>3, <1>5, <2>1
  <1>6. CASE ~swap
    <2>0. Len(tasks) = 1 BY <1>4, <1>6
    <2>1. \A i \in 1 .. Len(tasks) : i = 1 BY <2>0
    <2> QED BY <1>1, <1>2, <1>4, <1>6, <2>1
  <1> QED BY <1>5, <1>6

(* Queueing a layer keeps the invariant.                                   *)
LEMMA QueuePresentStep ==
  ASSUME ScanoutInv, NEW t \in Threads, QueuePresent(t)
  PROVE  ScanoutInv'
  <1> DEFINE s == Head(todo[t]).slot
             x == SurfaceOf(s)
             old == front[x]
             swap == old # s /\ old # NoSlot
             tasks == UnpinOld(x, s) \o <<Task("snapshot", s)>>
             m == Len(todo[t]) - 1
             A == {"unpin", "snapshot"}
             R == {"queue"}
  <1>1. /\ At(t, "queue") /\ store' = [store EXCEPT ![s] = "presented"] /\ SetFrontFb(x, s) /\
           Then(t, tasks)
        /\ completion' = (IF store[s] = "rendered" THEN [completion EXCEPT ![s] = "none"]
           ELSE completion)
        /\ UNCHANGED locked /\ UNCHANGED owner /\ UNCHANGED image /\ UNCHANGED fills /\
           UNCHANGED life
        /\ UNCHANGED srefs /\ UNCHANGED current /\ UNCHANGED gpuVars /\ UNCHANGED winVars
        /\ UNCHANGED reqVars /\ UNCHANGED schedVars /\ UNCHANGED kmsVars
    BY DEF QueuePresent
  <1>2. TypeOK /\ LayerFits /\ RenderedOK /\ Shaped(todo) /\ SlotSide BY InvIs
  <1>3. UNCHANGED composition /\ UNCHANGED building /\ UNCHANGED winlock /\ UNCHANGED pushes /\
        UNCHANGED layers
        /\ UNCHANGED screen /\ UNCHANGED gpu /\ UNCHANGED sem
    BY <1>1 DEF winVars, reqVars, kmsVars, gpuVars
  <1>t. todo \in Stacks /\ todo[t] # <<>> /\ Head(todo[t]).op = "queue"
    BY <1>1, <1>2, StacksTyped DEF At
  <1>4. /\ s \in Slots /\ m \in Nat /\ t = Raster /\ store[s] \in {"rendered", "presented"}
        /\ \A e \in 0 .. m - 1 : TaskAt(todo, t, e).op \in {"queue", "push"}
    <2>1. LET k == Head(todo[t])
          IN  k \in Tasks /\ m \in Nat /\ TaskAt(todo, t, m) = k /\ PlaceOK(k, t, m) /\
            BelowOK(todo, t, m) /\ Store1(k)
      BY <1>t, TopOK
    <2>2. s \in Slots /\ t = Raster BY <1>t, <2>1 DEF PlaceOK
    <2>3. store[s] \in {"rendered", "presented"} BY <1>t, <2>1 DEF Store1
    <2>4. TaskAt(todo, t, m).op = "queue" BY <1>t, <2>1
    <2> HIDE DEF m
    <2>5. \A e \in 0 .. m - 1 : TaskAt(todo, t, e).op \in {"queue", "push"}
      BY <2>4, <2>1 DEF BelowOK
    <2> QED BY <2>1, <2>2, <2>3, <2>5
  <1>5. x \in Surfaces /\ s # NoSlot BY <1>4, SlotIs
  <1>6. swap \in BOOLEAN /\ (swap => old \in Slots /\ SurfaceOf(old) = x)
    <2>1. old \in Slots \cup {NoSlot} BY <1>2, <1>5 DEF TypeOK
    <2>2. old # NoSlot => SurfaceOf(old) = x BY <1>2, <1>5 DEF SlotSide, LivesOK
    <2> QED BY <2>1, <2>2
  <1>7. Queued(s, old, swap, tasks)
    <2>1. CASE swap
      <3>1. UnpinOld(x, s) = <<Task("unpin", old)>> BY <2>1 DEF UnpinOld
      <3> QED BY <1>4, <1>6, <2>1, <3>1, QueuedIs
    <2>2. CASE ~swap
      <3>1. UnpinOld(x, s) = <<>> BY <2>2 DEF UnpinOld
      <3> QED BY <1>4, <2>2, <3>1, QueuedIs
    <2> QED BY <2>1, <2>2
  <1>v. A \cap RequestSideOps = {} /\ R \cap RequestSideOps = {} /\ "present" \notin A
    BY DEF RequestSideOps
  <1>s. \A ops, z : "queue" \notin ops => Counted(0, Above(todo, t, m, Ofs(ops, z)))
    <2> SUFFICES ASSUME NEW ops, NEW z, "queue" \notin ops
                 PROVE  Counted(0, Above(todo, t, m, Ofs(ops, z))) OBVIOUS
    <2>1. Counted(One(Head(todo[t]).op \in ops /\ Head(todo[t]).slot = z),
            Above(todo, t, m, Ofs(ops, z)))
      BY <1>t, SlotTop
    <2>2. One(Head(todo[t]).op \in ops /\ Head(todo[t]).slot = z) = 0 BY <1>t DEF One
    <2> QED BY <2>1, <2>2
  <1>8. nrefs' \in [Slots -> Nat] /\
        \A z \in Slots : nrefs'[z] = nrefs[z] + (IF z = s /\ old # s THEN 1 ELSE 0)
    <2>1. nrefs \in [Slots -> Nat] BY <1>2 DEF TypeOK
    <2>2. nrefs' = IF old = s THEN nrefs ELSE [nrefs EXCEPT ![s] = @ + 1]
      BY <1>1, <1>5 DEF SetFrontFb
    <2>3. CASE old = s
      <3>1. \A z \in Slots : nrefs[z] + 0 = nrefs[z] BY <2>1
      <3> QED BY <2>1, <2>2, <2>3, <3>1
    <2>4. CASE old # s
      <3>0. nrefs' = [nrefs EXCEPT ![s] = @ + 1] BY <2>2, <2>4
      <3>1. nrefs[s] + 1 \in Nat BY <1>4, <2>1
      <3>2. nrefs'[s] = nrefs[s] + 1 /\
            \A z \in Slots : z # s => nrefs'[z] = nrefs[z] /\ nrefs[z] + 0 = nrefs[z]
        BY <1>4, <2>1, <3>0
      <3>3. nrefs' \in [Slots -> Nat] BY <2>1, <3>0, <3>1
      <3> QED BY <2>4, <3>2, <3>3
    <2> QED BY <2>3, <2>4
  <1>9. front' = [front EXCEPT ![x] = s] BY <1>1 DEF SetFrontFb
  <1>h. x = SurfaceOf(s) /\ old = front[x] /\ (swap <=> old # s /\ old # NoSlot) /\
        m = Len(todo[t]) - 1 OBVIOUS
  <1>r. "snapshot" \in A /\ "unpin" \in A /\ A = {"unpin", "snapshot"} OBVIOUS
  <1> HIDE DEF s, m, x, old, swap, tasks, A
  <1>10. tasks \in Seq(Tasks) /\ \A i \in 1 .. Len(tasks) : tasks[i].op \in A
    <2>1. swap \in BOOLEAN BY <1>6
    <2>2. tasks \in Seq(Tasks) /\
          \A i \in 1 .. Len(tasks) : tasks[i].op \in {"unpin", "snapshot"}
      BY <1>4, <1>7, <2>1, QueuedOps
    <2> QED BY <1>r, <2>2
  <1>11. /\ todo' \in Stacks /\ Stepped(todo, todo', t, m, tasks) /\ Touches(A, R)
    BY <1>1, <1>10, <1>h, PopIs
  <1>12. Shaped(todo')
    <2>1. swap => old \in Slots /\ SurfaceOf(old) = SurfaceOf(s) BY <1>6, <1>h
    <2>2. swap \in BOOLEAN BY <1>6
    <2> QED BY <1>2, <1>4, <1>7, <1>11, <2>1, <2>2, QueuedShaped
  <1>13. /\ completion' \in [Slots -> {"none", "fence", "done"}]
         /\ \A z \in Slots : z # s => completion'[z] = completion[z]
         /\ store[s] = "rendered" => completion'[s] = "none"
         /\ completion'[s] \in {"none", completion[s]}
    <2>1. completion \in [Slots -> {"none", "fence", "done"}] BY <1>2 DEF TypeOK
    <2> QED BY <1>1, <1>4, <2>1
  <1>14. /\ store' \in [Slots -> {"none", "empty", "rendered", "presented"}] /\
            store'[s] = "presented"
         /\ \A z \in Slots : z # s => store'[z] = store[z]
    BY <1>1, <1>2, <1>4 DEF TypeOK
  <1>15. front' \in [Surfaces -> Slots \cup {NoSlot}] BY <1>2, <1>4, <1>9 DEF TypeOK
  <1>16. TypeOK'
    BY <1>1, <1>2, <1>8, <1>11, <1>13, <1>14, <1>15, TypedNext DEF TypeOK, gpuVars, winVars,
       reqVars, schedVars, kmsVars
  <1>17. RenderedOK'
    <2>1. \A z \in Slots : InUse(z)' = InUse(z) BY <1>3 DEF InUse
    <2>2. \A z \in Slots : /\ InUse(z)' => store'[z] \in {"none", "presented"}
                           /\ completion'[z] = "done" => z \notin gpu'
                           /\ store'[z] \in {"empty", "rendered"} => completion'[z] = "none"
      <3> TAKE z \in Slots
      <3>1. /\ InUse(z) => store[z] \in {"none", "presented"}
            /\ completion[z] = "done" => z \notin gpu
            /\ store[z] \in {"empty", "rendered"} => completion[z] = "none"
        BY <1>2 DEF RenderedOK
      <3>2. CASE z = s BY <1>3, <1>13, <1>14, <3>1, <3>2
      <3>3. CASE z # s BY <1>3, <1>13, <1>14, <2>1, <3>1, <3>3
      <3> QED BY <3>2, <3>3
    <2> QED BY <1>2, <1>3, <2>2 DEF RenderedOK, ScanoutAfterRender
  <1>18. SlotSide'
    <2>1. Queueing(t, m, s, old, swap, tasks)
      BY <1>1, <1>3, <1>4, <1>6, <1>7, <1>8, <1>9, <1>11, <1>13, <1>16, <1>h, <1>s, <1>t
         DEF Queueing
    <2>2. Touches({"unpin", "snapshot"}, {"queue"}) BY <1>11, <1>r
    <2> QED BY <2>1, <2>2, QueueingSlots
  <1>19. LayerFits' BY <1>2, <1>3, <1>11, <1>v, FitsKept
  <1> QED BY <1>1, <1>3, <1>11, <1>12, <1>v, <1>16, <1>17, <1>18, <1>19, SlotStep

-----------------------------------------------------------------------------
(* The task on top of the stack that lets go of a surface.                 *)
LEMMA DisownTop ==
  ASSUME ScanoutInv, NEW t \in Threads, At(t, "unown"), NEW y, y = Head(todo[t]).slot, NEW x,
         x = SurfaceOf(y),
         NEW m, m = Len(todo[t]) - 1
  PROVE /\ x \in Surfaces /\ y = <<x, 0>> /\ srefs[x] > 0 /\ srefs[x] \in Nat /\
                                             life[x] = "live"
        /\ todo \in Stacks /\ todo[t] # <<>> /\ Head(todo[t]).op = "unown"
        /\ \A ops, z : "unown" \notin ops => Counted(0, Above(todo, t, m, Ofs(ops, z)))
        /\ \A w \in Surfaces : Counted(One(x = w), Above(todo, t, m, Ofs({"unown"}, <<w, 0>>)))
  <1>1. todo \in Stacks /\ todo[t] # <<>> /\ Head(todo[t]).op = "unown"
    BY InvIs, StacksTyped DEF At
  <1>2. LET k == Head(todo[t])
        IN  k \in Tasks /\ m \in Nat /\ Has(todo, t, m) /\ TaskAt(todo, t, m) = k /\
          PlaceOK(k, t, m)
    BY <1>1, TopOK
  <1>3. x \in Surfaces /\ y = <<x, 0>>
    <2>1. y \in Surfaces \X {0} BY <1>1, <1>2 DEF PlaceOK
    <2> QED BY <2>1, SlotIs
  <1>4. SurfaceOwners(x) # {}
    <2>1. TaskAt(todo, t, m) \in Ofs({"unown"}, <<x, 0>>) BY <1>1, <1>2, <1>3 DEF Ofs
    <2>2. Tok(t, m) \in StackSet(todo, Ofs({"unown"}, <<x, 0>>)) BY <1>2, <2>1, TokIn
    <2>3. Tok(t, m) \in TasksOn({"unown"}, <<x, 0>>) BY <1>1, <2>2, TasksOnNow
    <2> QED BY <2>3, Zenon DEF SurfaceOwners
  <1>5. srefs[x] > 0 /\ srefs[x] \in Nat /\ life[x] = "live" BY <1>3, <1>4, CountedLives
  <1>6. ASSUME NEW ops, NEW z, "unown" \notin ops
        PROVE  Counted(0, Above(todo, t, m, Ofs(ops, z)))
    <2>1. Counted(One(Head(todo[t]).op \in ops /\ Head(todo[t]).slot = z),
            Above(todo, t, m, Ofs(ops, z)))
      BY <1>1, SlotTop
    <2>2. One(Head(todo[t]).op \in ops /\ Head(todo[t]).slot = z) = 0 BY <1>1, <1>6 DEF One
    <2> QED BY <2>1, <2>2
  <1>7. ASSUME NEW w \in Surfaces
        PROVE  Counted(One(x = w), Above(todo, t, m, Ofs({"unown"}, <<w, 0>>)))
    <2>1. Counted(One(Head(todo[t]).op \in {"unown"} /\ Head(todo[t]).slot = <<w, 0>>),
            Above(todo, t, m, Ofs({"unown"}, <<w, 0>>)))
      BY <1>1, SlotTop
    <2>2. One(Head(todo[t]).op \in {"unown"} /\ Head(todo[t]).slot = <<w, 0>>) = One(x = w)
      BY <1>1, <1>3 DEF One
    <2> QED BY <2>1, <2>2
  <1> QED BY <1>1, <1>3, <1>5, <1>6, <1>7

(* Letting go of x, the slots' owners staying who they are.                *)
LEMMA SurfacesDrop ==
  ASSUME ScanoutInv, NEW t, NEW m, NEW tasks, Stepped(todo, todo', t, m, tasks),
         NEW x \in Surfaces, srefs[x] > 0,
         \A w \in Surfaces : Counted(One(x = w), Above(todo, t, m, Ofs({"unown"}, <<w, 0>>))),
         \A w \in Surfaces : Counted(0, Among(tasks, Ofs({"unown"}, <<w, 0>>))),
         srefs'[x] = srefs[x] - 1, \A w \in Surfaces : w # x => srefs'[w] = srefs[w],
         \A z \in Slots : Owners(z)' = Owners(z), UNCHANGED current
  PROVE SurfacesCounted'
  <1> SUFFICES ASSUME NEW w \in Surfaces PROVE Counted(srefs'[w], SurfaceOwners(w)')
    BY SurfacesCountedIs
  <1> DEFINE g == One(x = w)
             o == 0
             s == NoSlot
             n == srefs[w] + ((One(current' = w) - One(current = w)) + (o - g) +
               (IF SurfaceOf(s) = w THEN o ELSE 0))
  <1>1. srefs[w] \in Nat /\ srefs[x] \in Nat BY InvIs DEF TypeOK
  <1>2. Counted(g, Above(todo, t, m, Ofs({"unown"}, <<w, 0>>))) OBVIOUS
  <1>3. Counted(o, Among(tasks, Ofs({"unown"}, <<w, 0>>))) OBVIOUS
  <1>4. o \in Int /\ o = 0 /\ \A z : (IF z = s THEN o ELSE 0) = o OBVIOUS
  <1>5. One(current' = w) = One(current = w) /\ One(current = w) \in Int BY OneIs
  <1>6. n = srefs'[w]
    <2>1. n = srefs[w] + (0 - g) BY <1>1, <1>5 DEF One
    <2>2. srefs'[w] = srefs[w] + (0 - g) BY <1>1 DEF One
    <2> QED BY <2>1, <2>2
  <1>7. n = srefs[w] + ((One(current' = w) - One(current = w)) + (o - g) +
          (IF SurfaceOf(s) = w THEN o ELSE 0)) OBVIOUS
  <1> HIDE DEF g, o, s, n
  <1>8. \A z \in Slots : More(Owners(z), Owners(z)', IF z = s THEN o ELSE 0)
    <2>1. \A z \in Slots : More(Owners(z), Owners(z)', 0) BY OwnersStay
    <2> QED BY <1>4, <2>1
  <1>9. Counted(n, SurfaceOwners(w)') BY <1>2, <1>3, <1>4, <1>7, <1>8, SurfaceMore
  <1> QED BY <1>6, <1>9

(* A reference to a surface that is not the last.                          *)
LEMMA SurfaceStays ==
  ASSUME ScanoutInv, NEW t \in Threads, At(t, "unown"), NEW x,
         x = SurfaceOf(Head(todo[t]).slot), srefs[x] # 1,
         srefs' = [srefs EXCEPT ![x] = @ - 1], Then(t, <<>>), UNCHANGED slotVars,
           UNCHANGED life, UNCHANGED front,
         UNCHANGED current, UNCHANGED gpuVars, UNCHANGED winVars, UNCHANGED reqVars,
           UNCHANGED schedVars, UNCHANGED kmsVars
  PROVE ScanoutInv'
  <1> DEFINE A == {}
             R == {"unown"}
             tasks == <<>>
             m == Len(todo[t]) - 1
  <1>2. TypeOK /\ LayerFits /\ RenderedOK /\ Shaped(todo) /\ SlotSide BY InvIs
  <1>3. UNCHANGED composition /\ UNCHANGED building /\ UNCHANGED winlock /\ UNCHANGED pushes /\
        UNCHANGED layers
        /\ UNCHANGED screen /\ UNCHANGED locked /\ UNCHANGED owner /\ UNCHANGED nrefs /\
           UNCHANGED store
        /\ UNCHANGED completion /\ UNCHANGED image /\ UNCHANGED fills /\ UNCHANGED gpu /\
           UNCHANGED sem
    BY DEF winVars, reqVars, kmsVars, slotVars, gpuVars
  <1>4. /\ x \in Surfaces /\ srefs[x] > 0 /\ srefs[x] \in Nat /\ life[x] = "live"
        /\ \A w \in Surfaces : Counted(One(x = w), Above(todo, t, m, Ofs({"unown"}, <<w, 0>>)))
    BY DisownTop
  <1>5. tasks \in Seq(Tasks) /\ \A K : Counted(0, Among(tasks, K)) BY ListIs, AmongNone
  <1>6. \A i \in 1 .. Len(tasks) : FALSE
    <2>1. Len(tasks) = 0 BY ListIs
    <2> QED BY <2>1
  <1>7. todo \in Stacks /\ todo' \in Stacks /\ Stepped(todo, todo', t, m, tasks) /\
        Touches(A, R)
    <2>1. Then(t, tasks) OBVIOUS
    <2>2. \A i \in 1 .. Len(tasks) : tasks[i].op \in A BY <1>6
    <2> QED BY <1>5, <2>1, <2>2, PopIs
  <1>8. Shaped(todo') BY <1>2, <1>6, <1>7, ShapedPlain
  <1>v. A \cap RequestSideOps = {} /\ R \cap RequestSideOps = {} /\ "unref" \notin A \cup R /\
        "unpin" \notin A \cup R
        /\ "fill" \notin A /\ A \cap {"queue", "snapshot"} = {} /\ "deinit" \notin A /\
           "present" \notin A
        /\ A \cap {"reset", "clear"} = {} /\ R \cap {"reset", "clear"} = {}
    BY DEF RequestSideOps
  <1> HIDE DEF A, R, m
  <1>9. /\ srefs' \in [Surfaces -> Nat] /\ srefs'[x] = srefs[x] - 1 /\
           \A w \in Surfaces : w # x => srefs'[w] = srefs[w]
        /\ srefs'[x] > 0
    <2>1. srefs \in [Surfaces -> Nat] BY <1>2 DEF TypeOK
    <2>2. srefs[x] - 1 \in Nat /\ srefs[x] - 1 > 0 BY <1>4
    <2> QED BY <1>4, <2>1, <2>2
  <1>10. TypeOK'
    BY <1>2, <1>7, <1>9, TypedNext DEF TypeOK, slotVars, gpuVars, winVars, reqVars,
       schedVars, kmsVars
  <1>11. RenderedOK' BY <1>2, <1>3, RenderedKept
  <1>12. LayerFits' BY <1>2, <1>3, <1>7, <1>v, FitsKept
  <1>13. FillFits' /\ StoreFits' /\ DeinitsDiffer'
    BY <1>2, <1>3, <1>7, <1>v, FitsKept, DifferKept DEF SlotSide
  <1>14. DeinitFits'
    <2>0. srefs[x] # 0 BY <1>4
    <2>1. \A w \in Surfaces : \/ srefs'[w] = srefs[w] /\ front'[w] = front[w] /\
                                 life'[w] = life[w]
                              \/ srefs[w] # 0 \/ life[w] # "live"
      BY <1>9, <2>0
    <2>2. DeinitFits BY <1>2 DEF SlotSide
    <2> QED BY <1>2, <1>7, <1>v, <2>1, <2>2, DeinitsKept
  <1>15. \A z \in Slots : Owners(z)' = Owners(z) BY <1>3, <1>7, <1>v, OwnersKept
  <1>16. \A z \in Slots : Pins(z)' = Pins(z) BY <1>7, <1>v, PinsKept
  <1>17. SlotsCounted' BY <1>2, <1>3, <1>15, <1>16, SlotsKept DEF SlotSide
  <1>18. SurfacesCounted'
    <2>1. \A w \in Surfaces : Counted(0, Among(tasks, Ofs({"unown"}, <<w, 0>>))) BY <1>5
    <2> QED BY <1>4, <1>7, <1>9, <1>15, <2>1, SurfacesDrop
  <1>19. CleaningOK' BY <1>2, <1>3, <1>7, <1>v, CleaningKept DEF SlotSide
  <1>20. LivesOK'
    <2>1. LivesOK BY <1>2 DEF SlotSide
    <2> SUFFICES ASSUME NEW w \in Surfaces
                 PROVE /\ srefs'[w] > 0 => life'[w] = "live"
                       /\ w > current' => life'[w] = "new"
                       /\ front'[w] # NoSlot => srefs'[w] > 0 /\ SurfaceOf(front'[w]) = w
      BY DEF LivesOK
    <2>2. /\ srefs[w] > 0 => life[w] = "live"
          /\ w > current => life[w] = "new"
          /\ front[w] # NoSlot => srefs[w] > 0 /\ SurfaceOf(front[w]) = w
      BY <2>1 DEF LivesOK
    <2>3. CASE w = x BY <1>4, <1>9, <2>2, <2>3
    <2>4. CASE w # x BY <1>9, <2>2, <2>4
    <2> QED BY <2>3, <2>4
  <1>21. ImagesStable' BY <1>2, <1>3, ImagesKept DEF SlotSide
  <1>22. SlotSide' BY <1>13, <1>14, <1>17, <1>18, <1>19, <1>20, <1>21 DEF SlotSide
  <1> QED BY <1>3, <1>7, <1>8, <1>v, <1>10, <1>11, <1>12, <1>22, SlotStep

(* What the last reference of a surface leaves to do: n = 2 with a front   *)
(* buffer to unpin, n = 1 without.                                         *)
Disowned(x, old, n, tasks) ==
    /\ tasks \in Seq(Tasks) /\ n \in {1, 2} /\ Len(tasks) = n
    /\ tasks[n].op = "deinit" /\ tasks[n].slot = <<x, 0>>
    /\ n = 2 => tasks[1].op = "unpin" /\ tasks[1].slot = old

(* The task that ends a surface.                                           *)
LEMMA DeinitIs ==
  ASSUME NEW x \in Surfaces
  PROVE LET b == Task("deinit", <<x, 0>>) IN b \in Tasks /\ b.op = "deinit" /\ b.slot = <<x, 0>>
  BY PlaceIs

(* The lists of tasks that the last release of a surface calls.            *)
LEMMA DisownedIs ==
  ASSUME NEW x \in Surfaces, NEW old
  PROVE /\ Disowned(x, old, 1, <<>> \o <<Task("deinit", <<x, 0>>)>>)
        /\ old \in Slots =>
           Disowned(x, old, 2, <<Task("unpin", old)>> \o <<Task("deinit", <<x, 0>>)>>)
  <1> DEFINE b == Task("deinit", <<x, 0>>)
             a == Task("unpin", old)
  <1>1. b \in Tasks /\ b.op = "deinit" /\ b.slot = <<x, 0>> BY DeinitIs
  <1>2. old \in Slots => a \in Tasks /\ a.op = "unpin" /\ a.slot = old BY PinIs
  <1> HIDE DEF a, b
  <1>3. <<>> \o <<b>> = <<b>> BY <1>1, JoinIs
  <1>4. <<b>> \in Seq(Tasks) /\ Len(<<b>>) = 1 /\ <<b>>[1] = b BY <1>1, ListIs
  <1>5. Disowned(x, old, 1, <<>> \o <<b>>) BY <1>1, <1>3, <1>4 DEF Disowned
  <1>6. ASSUME old \in Slots PROVE Disowned(x, old, 2, <<a>> \o <<b>>)
    <2>1. <<a>> \o <<b>> = <<a, b>> BY <1>1, <1>2, <1>6, JoinIs
    <2>2. <<a, b>> \in Seq(Tasks) /\ Len(<<a, b>>) = 2 /\ <<a, b>>[1] = a /\ <<a, b>>[2] = b
      BY <1>1, <1>2, <1>6, ListIs
    <2> QED BY <1>1, <1>2, <1>6, <2>1, <2>2 DEF Disowned
  <1> QED BY <1>5, <1>6 DEF a, b

(* What is in them.                                                        *)
LEMMA DisownedTasks ==
  ASSUME NEW x, NEW old, NEW n, NEW tasks, Disowned(x, old, n, tasks)
  PROVE /\ tasks \in Seq(Tasks)
        /\ \A i \in 1 .. Len(tasks) : tasks[i].op \in {"unpin", "deinit"} /\
           (tasks[i].op = "deinit" => i = n)
        /\ \A z : Counted(0, Among(tasks, Ofs({"unown"}, z)))
        /\ \A z : Counted(One(n = 2 /\ old = z), Among(tasks, Ofs({"unpin"}, z)))
  <1>1. tasks \in Seq(Tasks) /\ n \in {1, 2} /\ Len(tasks) = n BY DEF Disowned
  <1>2. tasks[n].op = "deinit" /\ (n = 2 => tasks[1].op = "unpin" /\ tasks[1].slot = old)
    BY DEF Disowned
  <1>3. \A i \in 1 .. Len(tasks) : i = n \/ (n = 2 /\ i = 1) BY <1>1
  <1>4. \A i \in 1 .. Len(tasks) : tasks[i].op \in {"unpin", "deinit"} /\
        (tasks[i].op = "deinit" => i = n)
    BY <1>2, <1>3
  <1>5. ASSUME NEW z PROVE Counted(0, Among(tasks, Ofs({"unown"}, z)))
    <2>1. \A i \in 1 .. Len(tasks) : tasks[i] \notin Ofs({"unown"}, z) BY <1>4 DEF Ofs
    <2> QED BY <2>1, AmongNot
  <1>6. ASSUME NEW z PROVE Counted(One(n = 2 /\ old = z), Among(tasks, Ofs({"unpin"}, z)))
    <2>1. CASE n = 2
      <3>2. tasks[1].op = "unpin" /\ tasks[1].slot = old /\ 1 \in 1 .. Len(tasks) /\
            tasks[1] \in Tasks
        BY <1>1, <1>2, <2>1
      <3>3. \A i \in 1 .. Len(tasks) : tasks[i] \in Ofs({"unpin"}, z) => i = 1
        BY <1>2, <1>3 DEF Ofs
      <3>4. Counted(One(tasks[1] \in Ofs({"unpin"}, z)), Among(tasks, Ofs({"unpin"}, z)))
        BY <3>2, <3>3, AmongJust
      <3>5. tasks[1] \in Ofs({"unpin"}, z) <=> (n = 2 /\ old = z) BY <2>1, <3>2 DEF Ofs
      <3>6. One(tasks[1] \in Ofs({"unpin"}, z)) = One(n = 2 /\ old = z) BY <3>5 DEF One
      <3> QED BY <3>4, <3>6
    <2>2. CASE n # 2
      <3>1. \A i \in 1 .. Len(tasks) : tasks[i] \notin Ofs({"unpin"}, z)
        BY <1>2, <1>3, <2>2 DEF Ofs
      <3>2. One(n = 2 /\ old = z) = 0 BY <2>2 DEF One
      <3> QED BY <3>1, <3>2, AmongNot
    <2> QED BY <2>1, <2>2
  <1> QED BY <1>1, <1>4, <1>5, <1>6

(* The pin rests on the end of the surface.                                *)
LEMMA DisownedShaped ==
  ASSUME NEW stk, NEW new, NEW t, NEW m, NEW tasks, Stepped(stk, new, t, m, tasks), Shaped(stk),
         NEW x \in Surfaces, NEW old, NEW n, n = 2 => old \in Slots /\ SurfaceOf(old) = x,
         Disowned(x, old, n, tasks)
  PROVE Shaped(new)
  <1>1. tasks \in Seq(Tasks) /\ n \in {1, 2} /\ Len(tasks) = n BY DEF Disowned
  <1>2. /\ tasks[n].op = "deinit" /\ tasks[n].slot = <<x, 0>>
        /\ n = 2 => tasks[1].op = "unpin" /\ tasks[1].slot = old
    BY DEF Disowned
  <1>3. m \in Nat /\ \A i \in 1 .. Len(tasks) : TaskAt(new, t, m + Len(tasks) - i) = tasks[i]
    BY SteppedTasks
  <1>4. <<x, 0>> \in Surfaces \X {0} OBVIOUS
  <1> SUFFICES ASSUME NEW i \in 1 .. Len(tasks), NEW d, d = m + Len(tasks) - i
               PROVE PlaceOK(tasks[i], t, d) /\ BelowOK(new, t, d)
    BY ShapedStep
  <1>5. TaskAt(new, t, d) = tasks[i] BY <1>3
  <1>6. i = n \/ (n = 2 /\ i = 1) BY <1>1
  <1>7. CASE i = n
    <2>1. tasks[i].op = "deinit" /\ tasks[i].slot = <<x, 0>> BY <1>2, <1>7
    <2> QED BY <1>4, <1>5, <2>1 DEF PlaceOK, BelowOK
  <1>8. CASE n = 2 /\ i = 1
    <2>1. tasks[i].op = "unpin" /\ tasks[i].slot = old /\ old \in Slots BY <1>2, <1>8
    <2>2. d = m + 1 /\ m \in 0 .. d - 1 BY <1>1, <1>3, <1>8
    <2>3. TaskAt(new, t, m) = tasks[2] /\ tasks[2].op = "deinit" /\ tasks[2].slot = <<x, 0>>
      <3>1. 2 \in 1 .. Len(tasks) /\ m + Len(tasks) - 2 = m BY <1>1, <1>3, <1>8
      <3>2. TaskAt(new, t, m + Len(tasks) - 2) = tasks[2] BY <1>3, <3>1
      <3> QED BY <1>2, <1>8, <3>1, <3>2
    <2>5. Covers(TaskAt(new, t, m), SurfaceOf(old)) BY <1>8, <2>3 DEF Covers
    <2>6. \E f \in 0 .. d - 1 : Covers(TaskAt(new, t, f), SurfaceOf(tasks[i].slot))
      BY <2>1, <2>2, <2>5
    <2> QED BY <1>5, <2>1, <2>6 DEF PlaceOK, BelowOK
  <1> QED BY <1>6, <1>7, <1>8

(* The last reference of a surface: its front buffer is unpinned.          *)
LEMMA DeinitsNew ==
  ASSUME ScanoutInv, Touches({"unpin", "deinit"}, {"unown"}), NEW t, NEW m, NEW tasks,
         Stepped(todo, todo', t, m, tasks),
         NEW x \in Surfaces, NEW old, NEW n, Disowned(x, old, n, tasks), srefs[x] = 1,
           life[x] = "live",
         srefs' \in [Surfaces -> Nat], srefs'[x] = 0,
           \A w \in Surfaces : w # x => srefs'[w] = srefs[w],
         front'[x] = NoSlot, \A w \in Surfaces : w # x => front'[w] = front[w], UNCHANGED life
  PROVE DeinitFits' /\ DeinitsDiffer'
  <1>1. DeinitFits /\ DeinitsDiffer /\ Shaped(todo) BY InvIs DEF SlotSide
  <1>2. tasks \in Seq(Tasks) /\ n \in {1, 2} /\ Len(tasks) = n /\ tasks[n].op = "deinit" /\
        tasks[n].slot = <<x, 0>>
    BY DEF Disowned
  <1>3. \A i \in 1 .. Len(tasks) : tasks[i].op \in {"unpin", "deinit"} /\
        (tasks[i].op = "deinit" => i = n)
    BY DisownedTasks
  <1>4. m \in Nat /\ Len(tasks) \in Nat /\ t \in Threads /\ todo \in Stacks /\ todo' \in Stacks
    BY SteppedTasks
  <1>5. ASSUME NEW u \in Threads, NEW d \in Nat, Has(todo', u, d),
               TaskAt(todo', u, d).op = "deinit"
        PROVE \/ u = t /\ d = m /\ TaskAt(todo', u, d).slot = <<x, 0>>
              \/ Has(todo, u, d) /\ TaskAt(todo, u, d) = TaskAt(todo', u, d)
    <2>1. \A w \in Threads : \A e \in Nat : w # t =>
              (Has(todo', w, e) <=> Has(todo, w, e)) /\ TaskAt(todo', w, e) = TaskAt(todo, w, e)
      BY SteppedTasks
    <2>2. \A e \in Nat : e < m =>
          Has(todo', t, e) /\ Has(todo, t, e) /\ TaskAt(todo', t, e) = TaskAt(todo, t, e)
      BY SteppedTasks
    <2>3. \A e \in Nat : e >= m /\ Has(todo', t, e) =>
              m + Len(tasks) - e \in 1 .. Len(tasks) /\
                TaskAt(todo', t, e) = tasks[m + Len(tasks) - e]
      BY SteppedTasks
    <2>4. CASE u # t BY <1>5, <2>1, <2>4
    <2>5. CASE u = t /\ d < m BY <1>5, <2>2, <2>5
    <2>6. CASE u = t /\ ~(d < m)
      <3>1. d >= m BY <1>4, <2>6
      <3>2. m + Len(tasks) - d \in 1 .. Len(tasks) /\
            TaskAt(todo', u, d) = tasks[m + Len(tasks) - d]
        BY <1>5, <2>3, <2>6, <3>1
      <3>3. m + Len(tasks) - d = n BY <1>3, <1>5, <3>2
      <3>4. d = m BY <1>2, <1>4, <3>3
      <3> QED BY <1>2, <2>6, <3>2, <3>3, <3>4
    <2> QED BY <2>4, <2>5, <2>6
  <1>6. ASSUME NEW u \in Threads, NEW d \in Nat, Has(todo, u, d),
               TaskAt(todo, u, d).op = "deinit"
        PROVE LET y == SurfaceOf(TaskAt(todo, u, d).slot)
              IN  y \in Surfaces /\ y # x /\ TaskAt(todo, u, d).slot = <<y, 0>>
                  /\ srefs[y] = 0 /\ front[y] = NoSlot /\ life[y] = "live"
    <2>1. Deinit1(TaskAt(todo, u, d)) /\ PlaceOK(TaskAt(todo, u, d), u, d)
      BY <1>1, <1>6 DEF DeinitFits, Shaped
    <2>2. TaskAt(todo, u, d).slot \in Surfaces \X {0} BY <1>6, <2>1 DEF PlaceOK
    <2>3. LET y == SurfaceOf(TaskAt(todo, u, d).slot) IN srefs[y] = 0 /\ front[y] = NoSlot /\
          life[y] = "live"
      BY <1>6, <2>1 DEF Deinit1
    <2> QED BY <2>2, <2>3, SlotIs
  <1>7. DeinitFits'
    <2> SUFFICES ASSUME NEW u \in Threads, NEW d \in Nat, Has(todo', u, d), NEW k,
                        k = TaskAt(todo', u, d), k.op = "deinit",
                        NEW y, y = SurfaceOf(k.slot)
                 PROVE srefs'[y] = 0 /\ front'[y] = NoSlot /\ life'[y] = "live"
      BY DEF DeinitFits, Deinit1
    <2>1. CASE u = t /\ d = m /\ TaskAt(todo', u, d).slot = <<x, 0>>
      <3>1. y = x BY <2>1, SlotIs
      <3> QED BY <3>1
    <2>2. CASE Has(todo, u, d) /\ TaskAt(todo, u, d) = TaskAt(todo', u, d)
      <3>1. y \in Surfaces /\ y # x /\ srefs[y] = 0 /\ front[y] = NoSlot /\ life[y] = "live"
        BY <1>6, <2>2
      <3> QED BY <3>1
    <2> QED BY <1>5, <2>1, <2>2
  <1>8. DeinitsDiffer'
    <2> SUFFICES ASSUME NEW w \in Surfaces,
                        NEW a \in StackSet(todo', Ofs({"deinit"}, <<w, 0>>)),
                        NEW b \in StackSet(todo', Ofs({"deinit"}, <<w, 0>>))
                 PROVE a = b
      BY DEF DeinitsDiffer, Single
    <2>1. PICK u \in Threads, d \in Nat : a = Tok(u, d) /\ Has(todo', u, d) /\
          TaskAt(todo', u, d) \in Ofs({"deinit"}, <<w, 0>>)
      BY StackSetIs
    <2>2. PICK v \in Threads, e \in Nat : b = Tok(v, e) /\ Has(todo', v, e) /\
          TaskAt(todo', v, e) \in Ofs({"deinit"}, <<w, 0>>)
      BY StackSetIs
    <2>3. /\ TaskAt(todo', u, d).op = "deinit" /\ TaskAt(todo', u, d).slot = <<w, 0>>
          /\ TaskAt(todo', v, e).op = "deinit" /\ TaskAt(todo', v, e).slot = <<w, 0>>
      BY <2>1, <2>2 DEF Ofs
    <2>4. CASE w = x
      <3>1. ASSUME NEW q \in Threads, NEW f \in Nat, Has(todo', q, f),
                   TaskAt(todo', q, f).op = "deinit",
                   TaskAt(todo', q, f).slot = <<w, 0>>
            PROVE q = t /\ f = m
        <4>1. CASE Has(todo, q, f) /\ TaskAt(todo, q, f) = TaskAt(todo', q, f)
          <5>1. SurfaceOf(TaskAt(todo, q, f).slot) # x BY <1>6, <3>1, <4>1
          <5>2. SurfaceOf(TaskAt(todo, q, f).slot) = w BY <3>1, <4>1, SlotIs
          <5> QED BY <2>4, <5>1, <5>2
        <4> QED BY <1>5, <3>1, <4>1
      <3>2. u = t /\ d = m /\ v = t /\ e = m BY <2>1, <2>2, <2>3, <3>1
      <3> QED BY <2>1, <2>2, <3>2
    <2>5. CASE w # x
      <3>1. <<w, 0>> # <<x, 0>> BY <2>5
      <3>2. Has(todo, u, d) /\ TaskAt(todo, u, d) = TaskAt(todo', u, d)
        BY <1>5, <2>1, <2>3, <3>1
      <3>3. Has(todo, v, e) /\ TaskAt(todo, v, e) = TaskAt(todo', v, e)
        BY <1>5, <2>2, <2>3, <3>1
      <3>4. a \in StackSet(todo, Ofs({"deinit"}, <<w, 0>>)) BY <2>1, <3>2, TokIn
      <3>5. b \in StackSet(todo, Ofs({"deinit"}, <<w, 0>>)) BY <2>2, <3>3, TokIn
      <3> QED BY <1>1, <3>4, <3>5 DEF DeinitsDiffer, Single
    <2> QED BY <2>4, <2>5
  <1> QED BY <1>7, <1>8

(* The last reference to a surface.                                        *)
LEMMA SurfaceLast ==
  ASSUME ScanoutInv, NEW t \in Threads, At(t, "unown"), NEW x,
         x = SurfaceOf(Head(todo[t]).slot), srefs[x] = 1,
         srefs' = [srefs EXCEPT ![x] = @ - 1], SetFrontFb(x, NoSlot),
         Then(t, UnpinOld(x, NoSlot) \o <<Task("deinit", <<x, 0>>)>>),
         UNCHANGED locked, UNCHANGED owner, UNCHANGED store, UNCHANGED completion,
           UNCHANGED image, UNCHANGED fills,
         UNCHANGED life, UNCHANGED current, UNCHANGED gpuVars, UNCHANGED winVars,
           UNCHANGED reqVars,
         UNCHANGED schedVars, UNCHANGED kmsVars
  PROVE ScanoutInv'
  <1> DEFINE old == front[x]
             n == IF old = NoSlot THEN 1 ELSE 2
             tasks == UnpinOld(x, NoSlot) \o <<Task("deinit", <<x, 0>>)>>
             m == Len(todo[t]) - 1
             A == {"unpin", "deinit"}
             R == {"unown"}
  <1>2. TypeOK /\ LayerFits /\ RenderedOK /\ Shaped(todo) /\ SlotSide BY InvIs
  <1>3. UNCHANGED composition /\ UNCHANGED building /\ UNCHANGED winlock /\ UNCHANGED pushes /\
        UNCHANGED layers
        /\ UNCHANGED screen /\ UNCHANGED gpu /\ UNCHANGED sem
    BY DEF winVars, reqVars, kmsVars, gpuVars
  <1>4. /\ x \in Surfaces /\ srefs[x] \in Nat /\ life[x] = "live"
        /\ todo \in Stacks /\ todo[t] # <<>> /\ Head(todo[t]).op = "unown"
        /\ \A ops, z : "unown" \notin ops => Counted(0, Above(todo, t, m, Ofs(ops, z)))
        /\ \A w \in Surfaces : Counted(One(x = w), Above(todo, t, m, Ofs({"unown"}, <<w, 0>>)))
    BY DisownTop
  <1>5. n = 2 => old \in Slots /\ SurfaceOf(old) = x
    <2>1. old \in Slots \cup {NoSlot} BY <1>2, <1>4 DEF TypeOK
    <2>2. old # NoSlot => SurfaceOf(old) = x BY <1>2, <1>4 DEF SlotSide, LivesOK
    <2> QED BY <2>1, <2>2
  <1>6. n \in {1, 2} /\ (n = 2 <=> old # NoSlot) OBVIOUS
  <1>7. Disowned(x, old, n, tasks)
    <2>1. CASE old = NoSlot
      <3>1. UnpinOld(x, NoSlot) = <<>> /\ n = 1 BY <2>1 DEF UnpinOld
      <3> QED BY <1>4, <3>1, DisownedIs
    <2>2. CASE old # NoSlot
      <3>1. UnpinOld(x, NoSlot) = <<Task("unpin", old)>> /\ n = 2 BY <2>2 DEF UnpinOld
      <3> QED BY <1>4, <1>5, <3>1, DisownedIs
    <2> QED BY <2>1, <2>2
  <1>v. A \cap RequestSideOps = {} /\ R \cap RequestSideOps = {} /\ "present" \notin A
        /\ "unref" \notin A \cup R /\ "fill" \notin A /\ A \cap {"queue", "snapshot"} = {}
        /\ A \cap {"reset", "clear"} = {} /\ R \cap {"reset", "clear"} = {} /\
           A = {"unpin", "deinit"} /\ "unown" \in R
    BY DEF RequestSideOps
  <1>h. old = front[x] /\ m = Len(todo[t]) - 1 /\ Then(t, tasks) OBVIOUS
  <1> HIDE DEF old, n, tasks, m, A
  <1>8. /\ tasks \in Seq(Tasks)
        /\ \A i \in 1 .. Len(tasks) : tasks[i].op \in {"unpin", "deinit"} /\
           (tasks[i].op = "deinit" => i = n)
        /\ \A z : Counted(0, Among(tasks, Ofs({"unown"}, z)))
        /\ \A z : Counted(One(n = 2 /\ old = z), Among(tasks, Ofs({"unpin"}, z)))
    BY <1>7, DisownedTasks
  <1>9. todo' \in Stacks /\ Stepped(todo, todo', t, m, tasks) /\ Touches(A, R)
    <2>1. \A i \in 1 .. Len(tasks) : tasks[i].op \in A BY <1>8, <1>v
    <2> QED BY <1>8, <1>h, <2>1, PopIs
  <1> HIDE DEF R
  <1>10. Shaped(todo') BY <1>2, <1>4, <1>5, <1>7, <1>9, DisownedShaped
  <1>11. /\ srefs' \in [Surfaces -> Nat] /\ srefs'[x] = 0 /\
            \A w \in Surfaces : w # x => srefs'[w] = srefs[w]
    <2>1. srefs \in [Surfaces -> Nat] BY <1>2 DEF TypeOK
    <2>2. srefs[x] - 1 \in Nat /\ srefs[x] - 1 = 0 OBVIOUS
    <2> QED BY <1>4, <2>1, <2>2
  <1>12. /\ UNCHANGED nrefs /\ front' \in [Surfaces -> Slots \cup {NoSlot}] /\
            front'[x] = NoSlot
         /\ \A w \in Surfaces : w # x => front'[w] = front[w]
    BY <1>2, <1>4 DEF TypeOK, SetFrontFb
  <1>13. TypeOK'
    BY <1>2, <1>9, <1>11, <1>12, TypedNext DEF TypeOK, gpuVars, winVars, reqVars, schedVars,
       kmsVars
  <1>14. RenderedOK' BY <1>2, <1>3, RenderedKept
  <1>15. LayerFits' BY <1>2, <1>3, <1>9, <1>v, FitsKept
  <1>16. FillFits' /\ StoreFits' BY <1>2, <1>3, <1>9, <1>v, FitsKept DEF SlotSide
  <1>17. DeinitFits' /\ DeinitsDiffer'
    <2>1. Touches({"unpin", "deinit"}, {"unown"}) BY <1>9, <1>v DEF R
    <2> QED BY <1>4, <1>7, <1>9, <1>11, <1>12, <2>1, DeinitsNew
  <1>18. \A z \in Slots : Owners(z)' = Owners(z) BY <1>3, <1>4, <1>9, <1>v, OwnersKept
  <1>19. SlotsCounted'
    <2> SUFFICES ASSUME NEW z \in Slots PROVE Counted(nrefs'[z], Owners(z)' \cup Pins(z)')
      BY SlotsCountedIs
    <2> DEFINE g == 0
               j == One(n = 2 /\ old = z)
               kf == One(front'[SurfaceOf(z)] = z) - One(front[SurfaceOf(z)] = z)
    <2>1. Counted(g, Above(todo, t, m, Ofs({"unpin"}, z))) BY <1>4
    <2>2. Counted(j, Among(tasks, Ofs({"unpin"}, z))) BY <1>8
    <2>3. j \in Int /\ j = j - g /\ g \in Int BY DEF One
    <2>4. /\ kf \in Int
          /\ More(When(front[SurfaceOf(z)] = z, "front"),
             When(front'[SurfaceOf(z)] = z, "front"), kf)
      BY WhenMore
    <2>5. kf + j = g
      <3>1. SurfaceOf(z) \in Surfaces /\ z # NoSlot BY SlotIs
      <3>2. CASE SurfaceOf(z) # x
        <4>1. front'[SurfaceOf(z)] = front[SurfaceOf(z)] /\ ~(n = 2 /\ old = z)
          BY <1>5, <1>12, <3>1, <3>2
        <4> QED BY <4>1 DEF One
      <3>3. CASE SurfaceOf(z) = x
        <4>1. front'[SurfaceOf(z)] = NoSlot /\ front[SurfaceOf(z)] = old BY <1>h, <1>12, <3>3
        <4>2. (n = 2 /\ old = z) <=> old = z BY <1>6, <3>1
        <4> QED BY <3>1, <4>1, <4>2 DEF One
      <3> QED BY <3>2, <3>3
    <2>6. nrefs[z] \in Nat /\ nrefs'[z] = nrefs[z] + (g + g)
      <3>1. nrefs[z] \in Nat BY <1>2 DEF TypeOK
      <3> QED BY <1>12, <3>1
    <2>7. More(Owners(z), Owners(z)', g) BY <1>18, MoreSame
    <2> HIDE DEF g, j, kf
    <2>8. More(StackSet(todo, Ofs({"unpin"}, z)), StackSet(todo', Ofs({"unpin"}, z)), j)
      BY <1>9, <2>1, <2>2, <2>3, StackDelta
    <2>9. More(Pins(z), Pins(z)', kf + j) BY <1>4, <1>9, <2>3, <2>4, <2>8, PinsTasked
    <2>10. More(Pins(z), Pins(z)', g) BY <2>5, <2>9
    <2> QED BY <1>9, <2>3, <2>6, <2>7, <2>10, SlotCount
  <1>20. SurfacesCounted'
    <2>1. \A w \in Surfaces : Counted(0, Among(tasks, Ofs({"unown"}, <<w, 0>>))) BY <1>8
    <2>2. srefs[x] > 0 /\ srefs'[x] = srefs[x] - 1 BY <1>11
    <2> QED BY <1>4, <1>9, <1>11, <1>18, <2>1, <2>2, SurfacesDrop
  <1>21. CleaningOK' BY <1>2, <1>9, <1>12, <1>v, CleaningKept DEF SlotSide
  <1>22. LivesOK'
    <2>1. LivesOK BY <1>2 DEF SlotSide
    <2> SUFFICES ASSUME NEW w \in Surfaces
                 PROVE /\ srefs'[w] > 0 => life'[w] = "live"
                       /\ w > current' => life'[w] = "new"
                       /\ front'[w] # NoSlot => srefs'[w] > 0 /\ SurfaceOf(front'[w]) = w
      BY DEF LivesOK
    <2>2. /\ srefs[w] > 0 => life[w] = "live"
          /\ w > current => life[w] = "new"
          /\ front[w] # NoSlot => srefs[w] > 0 /\ SurfaceOf(front[w]) = w
      BY <2>1 DEF LivesOK
    <2>3. CASE w = x BY <1>4, <1>11, <1>12, <2>2, <2>3
    <2>4. CASE w # x BY <1>11, <1>12, <2>2, <2>4
    <2> QED BY <2>3, <2>4
  <1>23. ImagesStable' BY <1>2, <1>3, ImagesKept DEF SlotSide
  <1>24. SlotSide' BY <1>16, <1>17, <1>19, <1>20, <1>21, <1>22, <1>23 DEF SlotSide
  <1> QED BY <1>3, <1>9, <1>10, <1>v, <1>13, <1>14, <1>15, <1>24, SlotStep

(* Both keep the invariant.                                                *)
LEMMA SurfaceUnrefStep ==
  ASSUME ScanoutInv, NEW t \in Threads, SurfaceUnref(t)
  PROVE  ScanoutInv'
  <1> DEFINE x == SurfaceOf(Head(todo[t]).slot)
  <1>1. /\ At(t, "unown") /\ srefs' = [srefs EXCEPT ![x] = @ - 1]
        /\ UNCHANGED locked /\ UNCHANGED owner /\ UNCHANGED store /\ UNCHANGED completion /\
           UNCHANGED image
        /\ UNCHANGED fills /\ UNCHANGED life /\ UNCHANGED current /\ UNCHANGED gpuVars /\
           UNCHANGED winVars
        /\ UNCHANGED reqVars /\ UNCHANGED schedVars /\ UNCHANGED kmsVars
    BY DEF SurfaceUnref
  <1>2. /\ srefs[x] = 1 => SetFrontFb(x, NoSlot) /\
           Then(t, UnpinOld(x, NoSlot) \o <<Task("deinit", <<x, 0>>)>>)
        /\ srefs[x] # 1 => Then(t, <<>>) /\ UNCHANGED front /\ UNCHANGED nrefs
    BY DEF SurfaceUnref
  <1>3. x = SurfaceOf(Head(todo[t]).slot) OBVIOUS
  <1> HIDE DEF x
  <1>4. CASE srefs[x] = 1 BY <1>1, <1>2, <1>3, <1>4, SurfaceLast
  <1>5. CASE srefs[x] # 1
    <2>1. UNCHANGED slotVars BY <1>1, <1>2, <1>5 DEF slotVars
    <2> QED BY <1>1, <1>2, <1>3, <1>5, <2>1, SurfaceStays
  <1> QED BY <1>4, <1>5

-----------------------------------------------------------------------------
(* present_fb: below it on the stack lie its siblings, the frame's         *)
(* submission and the release of the window lock.                          *)
LEMMA PresentTop ==
  ASSUME ScanoutInv, NEW t \in Threads, At(t, "present"), NEW s, s = Head(todo[t]).slot, NEW r,
         r = Head(todo[t]).req
  PROVE /\ s \in Slots /\ r \in Requests /\ todo[t] # <<>> /\ Head(todo[t]).op = "present"
        /\ Has(todo, t, 1) /\ TaskAt(todo, t, 1).op = "submit" /\ TaskAt(todo, t, 1).req = r /\
           winlock = {t}
        /\ refs[r] = 1 /\ screen # r /\ Owners(s) # {} /\ store[s] \in {"none", "presented"} /\
           InUse(s)
        /\ \A d \in Nat : Has(todo, t, d) =>
           TaskAt(todo, t, d).op \in {"present", "submit", "unlock"}
        /\ \A d \in Nat : Has(todo, t, d) /\ TaskAt(todo, t, d).op = "submit" => d = 1
  <1> DEFINE m == Len(todo[t]) - 1
             k == Head(todo[t])
  <1>0. TypeOK /\ Shaped(todo) /\ RequestSide /\ RenderedOK BY InvIs
  <1>1. todo[t] # <<>> /\ k.op = "present" BY DEF At
  <1>2. m \in Nat /\ Has(todo, t, m) /\ TaskAt(todo, t, m) = k /\ PlaceOK(k, t, m) /\
        BelowOK(todo, t, m) /\ Layer1(k)
    BY <1>1, TopOK
  <1>3. s \in Slots /\ r \in Requests BY <1>1, <1>2 DEF PlaceOK
  <1>4. /\ m >= 2 /\ TaskAt(todo, t, 0).op = "unlock"
        /\ TaskAt(todo, t, 1).op = "submit" /\ TaskAt(todo, t, 1).req = r
        /\ \A e \in 2 .. m : TaskAt(todo, t, e).op = "present"
    BY <1>1, <1>2 DEF BelowOK
  <1>5. Has(todo, t, 0) /\ Has(todo, t, 1) /\
        \A d \in Nat : Has(todo, t, d) => d = 0 \/ d = 1 \/ d \in 2 .. m
    BY <1>2, <1>4 DEF Has
  <1> HIDE DEF m, k
  <1>6. refs[r] = 1 /\ winlock = {t}
    <2>1. Submit1(TaskAt(todo, t, 1)) /\ Lock1(TaskAt(todo, t, 0), t)
      BY <1>0, <1>5 DEF RequestSide, SubmitFits, LockFits
    <2> QED BY <1>4, <2>1 DEF Submit1, Lock1
  <1>7. screen # r
    <2> SUFFICES ASSUME screen = r PROVE FALSE OBVIOUS
    <2>0. todo \in Stacks BY <1>0, StacksTyped
    <2>1. TaskAt(todo, t, 1) \in OfReq(ReqOps, r)
      <3>1. TaskAt(todo, t, 1) \in Tasks BY <1>5, <2>0, StackType
      <3> QED BY <1>4, <3>1 DEF OfReq, ReqOps
    <2>2. Tok(t, 1) \in RequestOwners(r) BY <1>3, <1>5, <2>0, <2>1, RequestHas
    <2>3. <<"last_flipped", 0, 0>> \in RequestOwners(r) BY <1>3, <2>0, RequestHas
    <2>4. Counted(1, RequestOwners(r))
      <3>1. Counted(refs[r], RequestOwners(r)) BY <1>0, <1>3 DEF RequestSide, RequestsCounted
      <3> QED BY <1>6, <3>1
    <2>5. Tok(t, 1) = <<"last_flipped", 0, 0>> BY <2>2, <2>3, <2>4, CountFacts DEF Single
    <2> QED BY <2>5 DEF Tok
  <1>8. InUse(s) /\ Owners(s) # {} /\ store[s] \in {"none", "presented"}
    <2>1. \E i \in DOMAIN composition : composition[i].slot = s BY <1>1, <1>2 DEF Layer1, k
    <2>2. InUse(s) BY <2>1 DEF InUse
    <2> QED BY <1>0, <1>3, <2>2, UsedIs DEF RenderedOK
  <1> QED BY <1>1, <1>3, <1>4, <1>5, <1>6, <1>7, <1>8 DEF k

-----------------------------------------------------------------------------
SemStates == [handle : BOOLEAN, failed : BOOLEAN, signalled : BOOLEAN]
Sound(e) == e.handle /\ ~e.failed => ~e.signalled

(* A semaphore that is waited for or fails stays sound.                    *)
LEMMA FailingSem ==
  ASSUME NEW e \in SemStates
  PROVE /\ \A w \in SemaphoreAtWait(e) : w \in SemStates /\ (Sound(e) => Sound(w))
        /\ [NoSemaphore EXCEPT !.failed = TRUE] \in SemStates /\
           Sound([NoSemaphore EXCEPT !.failed = TRUE])
  <1>1. SubmitFails(e) \in SemStates /\ SubmitFails(e).failed BY DEF SubmitFails, SemStates
  <1>2. ExportFails(e) \in SemStates /\ ExportFails(e).failed BY DEF ExportFails, SemStates
  <1>3. [NoSemaphore EXCEPT !.failed = TRUE] \in SemStates /\
        [NoSemaphore EXCEPT !.failed = TRUE].failed
    BY DEF NoSemaphore, SemStates
  <1>4. \A w \in SemaphoreAtWait(e) : w = SubmitFails(e) \/ w = ExportFails(e) \/ w = e
    BY DEF SemaphoreAtWait
  <1> QED BY <1>1, <1>2, <1>3, <1>4 DEF Sound

(* What the capture of a completion can return.                            *)
Captured(s, e, c) ==
    /\ c.sem \in SemStates /\ (Sound(e) => Sound(c.sem))
    /\ c.by \in {"none", "fence", "done"}
    /\ c.ok => c.by \in {"fence", "done"}
    /\ c.by = "done" => c.idle \/ completion[s] = "done" \/ s \notin gpu

(* Taking the fence of a slot tells how its rendering completes.           *)
LEMMA CapturedIs ==
  ASSUME NEW s, NEW e, e = sem[SurfaceOf(s)], e \in SemStates,
         completion[s] \in {"none", "fence", "done"},
         NEW c \in CaptureOutcomes(s)
  PROVE Captured(s, e, c)
  <1>1. CASE completion[s] # "none"
    <2>1. c = [ok |-> TRUE, by |-> completion[s], idle |-> FALSE, sem |-> e]
      BY <1>1 DEF CaptureOutcomes
    <2> QED BY <1>1, <2>1 DEF Captured
  <1>2. CASE completion[s] = "none"
    <2>1. c \in CaptureByExport(s, e) \/ c \in CaptureByWait(e) BY <1>2 DEF CaptureOutcomes
    <2>2. CASE c \in CaptureByExport(s, e)
      <3>1. \E b \in {"fence"} \cup (IF s \in gpu THEN {} ELSE {"done"}) :
               c = [ok |-> TRUE, sem |-> e, by |-> b, idle |-> FALSE]
        BY <2>2 DEF CaptureByExport
      <3>2. PICK b \in {"fence"} \cup (IF s \in gpu THEN {} ELSE {"done"}) :
               c = [ok |-> TRUE, sem |-> e, by |-> b, idle |-> FALSE]
        BY <3>1
      <3>3. b = "fence" \/ (b = "done" /\ s \notin gpu) BY <3>2
      <3> QED BY <3>2, <3>3 DEF Captured
    <2>3. CASE c \in CaptureByWait(e)
      <3> DEFINE W(w) == {[ok |-> TRUE, by |-> "done", idle |-> TRUE,
                           sem |-> IF w.failed /\
                             w.handle THEN [NoSemaphore EXCEPT !.failed = TRUE] ELSE w],
                          [ok |-> FALSE, by |-> "none", idle |-> FALSE, sem |-> w]}
      <3>1. PICK w \in SemaphoreAtWait(e) : c \in W(w) BY <2>3 DEF CaptureByWait
      <3>2. w \in SemStates /\ (Sound(e) => Sound(w)) /\
            [NoSemaphore EXCEPT !.failed = TRUE] \in SemStates
            /\ Sound([NoSemaphore EXCEPT !.failed = TRUE])
        BY <3>1, FailingSem
      <3>3. CASE c = [ok |-> FALSE, by |-> "none", idle |-> FALSE, sem |-> w]
        BY <3>2, <3>3 DEF Captured
      <3>4. CASE c = [ok |-> TRUE, by |-> "done", idle |-> TRUE,
                      sem |-> IF w.failed /\
                        w.handle THEN [NoSemaphore EXCEPT !.failed = TRUE] ELSE w]
        <4>1. c.ok /\ c.by = "done" /\ c.idle BY <3>4
        <4>2. c.sem = w \/ c.sem = [NoSemaphore EXCEPT !.failed = TRUE] BY <3>4
        <4> QED BY <3>2, <4>1, <4>2 DEF Captured
      <3> QED BY <3>1, <3>3, <3>4
    <2> QED BY <2>1, <2>2, <2>3
  <1> QED BY <1>1, <1>2

(* Capture and push together, whether they succeed or not.                 *)
Presented(s) ==
    /\ gpu' \subseteq gpu /\ sem' \in [Surfaces -> SemStates] /\
       \A x \in Surfaces : Sound(sem'[x])
    /\ completion' \in [Slots -> {"none", "fence", "done"}]
    /\ \A z \in Slots : z # s => completion'[z] = completion[z]
    /\ completion'[s] = "done" => s \notin gpu'

(* Giving the fence to KMS tells it too.                                   *)
LEMMA PresentedIs ==
  ASSUME ScanoutInv, NEW s \in Slots, NEW c \in CaptureOutcomes(s),
         NEW p \in PushOutcomes(c.by),
         sem' = [sem EXCEPT ![SurfaceOf(s)] = c.sem],
         gpu' = IF c.idle THEN {} ELSE IF p.polled THEN gpu \ {s} ELSE gpu,
         completion' = [completion EXCEPT ![s] = IF p.polled THEN "done" ELSE c.by]
  PROVE /\ Presented(s) /\ p.fence \in BOOLEAN
        /\ c.ok /\ p.ok /\ ~p.fence => s \notin gpu'
        /\ Legacy => ~p.fence
  <1> DEFINE e == sem[SurfaceOf(s)]
             x0 == SurfaceOf(s)
  <1>1. TypeOK /\ RenderedOK BY InvIs
  <1>2. x0 \in Surfaces BY SlotIs
  <1>3. sem \in [Surfaces -> SemStates] /\
        completion \in [Slots -> {"none", "fence", "done"}] /\ gpu \subseteq Slots
    BY <1>1 DEF TypeOK, SemStates
  <1>4. Captured(s, e, c)
    <2>1. e \in SemStates /\ completion[s] \in {"none", "fence", "done"} BY <1>2, <1>3
    <2> QED BY <2>1, CapturedIs
  <1>5. /\ p.ok \in BOOLEAN /\ p.fence \in BOOLEAN /\ p.polled \in BOOLEAN
        /\ p.polled => c.by = "fence"
        /\ p.fence = (p.ok /\ c.by = "fence" /\ ~p.polled)
        /\ p.fence => ~Legacy
    BY DEF PushOutcomes
  <1>6. \A x \in Surfaces : Sound(sem[x]) BY <1>1 DEF RenderedOK, ScanoutAfterRender, Sound
  <1>7. completion[s] = "done" => s \notin gpu BY <1>1 DEF RenderedOK
  <1>8. sem' \in [Surfaces -> SemStates] /\ \A x \in Surfaces : Sound(sem'[x])
    <2>1. c.sem \in SemStates /\ Sound(c.sem) BY <1>2, <1>4, <1>6 DEF Captured
    <2>2. sem'[x0] = c.sem /\ \A x \in Surfaces : x # x0 => sem'[x] = sem[x] BY <1>2, <1>3
    <2>3. sem' \in [Surfaces -> SemStates] BY <1>2, <1>3, <2>1
    <2>4. ASSUME NEW x \in Surfaces PROVE Sound(sem'[x])
      <3>1. CASE x = x0 BY <2>1, <2>2, <3>1
      <3>2. CASE x # x0
        <4>1. sem'[x] = sem[x] BY <2>2, <3>2
        <4> QED BY <1>6, <4>1
      <3> QED BY <3>1, <3>2
    <2> QED BY <2>3, <2>4
  <1> HIDE DEF e, x0
  <1>9. gpu' \subseteq gpu OBVIOUS
  <1>10. /\ completion'[s] = (IF p.polled THEN "done" ELSE c.by)
         /\ completion' \in [Slots -> {"none", "fence", "done"}]
         /\ \A z \in Slots : z # s => completion'[z] = completion[z]
    <2>1. c.by \in {"none", "fence", "done"} BY <1>4 DEF Captured
    <2> QED BY <1>3, <2>1
  <1>11. p.polled \/ c.by = "done" => s \notin gpu' BY <1>4, <1>7 DEF Captured
  <1>12. c.ok /\ p.ok /\ ~p.fence => p.polled \/ c.by = "done"
    <2>1. c.ok => c.by = "fence" \/ c.by = "done" BY <1>4 DEF Captured
    <2>2. p.ok /\ c.by = "fence" /\ ~p.polled => p.fence BY <1>5
    <2> QED BY <2>1, <2>2, Zenon
  <1>13. completion'[s] = "done" => s \notin gpu'
    <2>1. CASE p.polled BY <1>11, <2>1
    <2>2. CASE ~p.polled
      <3>1. completion'[s] = c.by BY <1>10, <2>2
      <3> QED BY <1>11, <3>1
    <2> QED BY <2>1, <2>2
  <1>14. Presented(s) BY <1>8, <1>9, <1>10, <1>13, Zenon DEF Presented
  <1>15. c.ok /\ p.ok /\ ~p.fence => s \notin gpu' BY <1>11, <1>12
  <1> QED BY <1>5, <1>14, <1>15, Zenon

(* What is rendered after a layer was presented.                           *)
LEMMA PresentedRendered ==
  ASSUME ScanoutInv, NEW s \in Slots, Presented(s), store[s] \in {"none", "presented"},
         UNCHANGED store, UNCHANGED screen,
         \A z : InUse(z)' => InUse(z), screen # 0 => layers'[screen] = layers[screen],
         \A r \in Requests : \A i \in DOMAIN layers'[r] :
             /\ ~layers'[r][i].fence => layers'[r][i].slot \notin gpu'
             /\ Legacy => ~layers'[r][i].fence
  PROVE RenderedOK'
  <1>1. RenderedOK BY InvIs
  <1>2. \A z \in Slots : /\ InUse(z)' => store'[z] \in {"none", "presented"}
                         /\ completion'[z] = "done" => z \notin gpu'
                         /\ store'[z] \in {"empty", "rendered"} => completion'[z] = "none"
    <2> TAKE z \in Slots
    <2>1. /\ InUse(z) => store[z] \in {"none", "presented"}
          /\ completion[z] = "done" => z \notin gpu
          /\ store[z] \in {"empty", "rendered"} => completion[z] = "none"
      BY <1>1 DEF RenderedOK
    <2>2. CASE z = s BY <2>1, <2>2 DEF Presented
    <2>3. CASE z # s BY <2>1, <2>3 DEF Presented
    <2> QED BY <2>2, <2>3
  <1>3. ScanoutAfterRender'
    <2>1. \A x \in Surfaces : sem'[x].handle /\ ~sem'[x].failed => ~sem'[x].signalled
      BY DEF Presented, Sound
    <2>2. screen # 0 => \A i \in DOMAIN layers[screen] : layers[screen][i].slot \notin gpu
      BY <1>1 DEF RenderedOK, ScanoutAfterRender
    <2>3. gpu' \subseteq gpu BY DEF Presented
    <2> QED BY <2>1, <2>2, <2>3 DEF ScanoutAfterRender
  <1> QED BY <1>2, <1>3 DEF RenderedOK

(* Images in use stay the same when only requests change.                  *)
LEMMA ImagesLater ==
  ASSUME UNCHANGED composition, UNCHANGED building, UNCHANGED locked, UNCHANGED image,
         ImagesStable,
         \A q \in Requests : \A i \in DOMAIN layers'[q] :
             locked[layers'[q][i].slot] /\ image[layers'[q][i].slot] = layers'[q][i].image
  PROVE ImagesStable'
  BY DEF ImagesStable

(* A layer is presented.                                                   *)
LEMMA PresentTaken ==
  ASSUME ScanoutInv, NEW t \in Threads, At(t, "present"), NEW s, s = Head(todo[t]).slot, NEW r,
         r = Head(todo[t]).req,
         Presented(s), NEW b \in BOOLEAN, ~b => s \notin gpu', Legacy => ~b, LockedFbRef(s),
         layers' = [layers EXCEPT ![r] =
           Append(@, [slot |-> s, image |-> image[s], fence |-> b])], Then(t, <<>>),
         UNCHANGED locked, UNCHANGED owner, UNCHANGED store, UNCHANGED image, UNCHANGED fills,
         UNCHANGED life, UNCHANGED front, UNCHANGED current, UNCHANGED winVars, UNCHANGED refs,
         UNCHANGED schedVars, UNCHANGED kmsVars
  PROVE ScanoutInv'
  <1> DEFINE A == {}
             R == {"present"}
             tasks == <<>>
             m == Len(todo[t]) - 1
             X == [slot : Slots, image : Images, fence : BOOLEAN]
             l == [slot |-> s, image |-> image[s], fence |-> b]
  <1>2. TypeOK /\ LayerFits /\ RenderedOK /\ Shaped(todo) /\ SlotSide /\ RequestSide BY InvIs
  <1>3. /\ UNCHANGED composition /\ UNCHANGED building /\ UNCHANGED winlock /\ UNCHANGED pushes
        /\ UNCHANGED waiting /\ UNCHANGED queued /\ UNCHANGED inflight /\ UNCHANGED callback
        /\ UNCHANGED screen /\ UNCHANGED flips /\ UNCHANGED lost
    BY DEF winVars, schedVars, kmsVars
  <1>4. /\ s \in Slots /\ r \in Requests /\ todo[t] # <<>> /\ Head(todo[t]).op = "present"
        /\ refs[r] = 1 /\ screen # r /\ Owners(s) # {} /\ store[s] \in {"none", "presented"} /\
           InUse(s)
    BY PresentTop
  <1>5. nrefs[s] \in Nat /\ srefs[SurfaceOf(s)] \in Nat /\ locked[s] /\
        SurfaceOf(s) \in Surfaces
    BY <1>4, UsedIs, SlotIs
  <1>6. \A i \in 1 .. Len(tasks) : FALSE
    <2>1. Len(tasks) = 0 BY ListIs
    <2> QED BY <2>1
  <1>7. tasks \in Seq(Tasks) /\ \A K : Counted(0, Among(tasks, K)) BY ListIs, AmongNone
  <1>8. /\ todo \in Stacks /\ todo' \in Stacks /\ Stepped(todo, todo', t, m, tasks) /\
           Touches(A, R)
    <2>1. Then(t, tasks) OBVIOUS
    <2>2. \A i \in 1 .. Len(tasks) : tasks[i].op \in A BY <1>6
    <2> QED BY <1>7, <2>1, <2>2, PopIs
  <1>s. \A ops, z : "present" \notin ops => Counted(0, Above(todo, t, m, Ofs(ops, z)))
    <2> SUFFICES ASSUME NEW ops, NEW z, "present" \notin ops
                 PROVE  Counted(0, Above(todo, t, m, Ofs(ops, z))) OBVIOUS
    <2>1. Counted(One(Head(todo[t]).op \in ops /\ Head(todo[t]).slot = z),
            Above(todo, t, m, Ofs(ops, z)))
      BY <1>4, SlotTop
    <2>2. One(Head(todo[t]).op \in ops /\ Head(todo[t]).slot = z) = 0 BY <1>4 DEF One
    <2> QED BY <2>1, <2>2
  <1>9. Shaped(todo') BY <1>2, <1>6, <1>8, ShapedPlain
  <1>v. /\ A \cap RequestSideOps = {} /\ R \cap RequestSideOps = {} /\ A = {} /\
           R \cap SlotSideOps \subseteq {"snapshot"}
        /\ A \cap BatonOps = {} /\ R \cap BatonOps = {} /\ A \cap ReqOps = {} /\
           R \cap ReqOps = {}
        /\ A \cap {"push", "build", "unlock", "submit"} = {} /\ "present" \notin A
    BY DEF RequestSideOps, SlotSideOps, BatonOps, ReqOps
  <1>10. l \in X /\ layers \in [Requests -> Seq(X)] /\ l.slot = s /\ l.image = image[s] /\
         l.fence = b
    BY <1>2, <1>4 DEF TypeOK
  <1>11. layers' = [layers EXCEPT ![r] = Append(@, l)] OBVIOUS
  <1> HIDE DEF A, R, m, l, X
  <1>12. /\ nrefs' \in [Slots -> Nat] /\ nrefs'[s] = nrefs[s] + 1 /\
            \A z \in Slots : z # s => nrefs'[z] = nrefs[z]
    <2>1. nrefs \in [Slots -> Nat] /\ nrefs' = [nrefs EXCEPT ![s] = @ + 1]
      BY <1>2 DEF TypeOK, LockedFbRef
    <2> QED BY <1>4, <1>5, <2>1
  <1>13. /\ srefs' \in [Surfaces -> Nat] /\ srefs'[SurfaceOf(s)] = srefs[SurfaceOf(s)] + 1
         /\ \A x \in Surfaces : x # SurfaceOf(s) => srefs'[x] = srefs[x]
    <2>1. srefs \in [Surfaces -> Nat] /\ srefs' = [srefs EXCEPT ![SurfaceOf(s)] = @ + 1]
      BY <1>2 DEF TypeOK, LockedFbRef
    <2> QED BY <1>5, <2>1
  <1>14. /\ layers' \in [Requests -> Seq(X)] /\
            \A q \in Requests : q # r => layers'[q] = layers[q]
         /\ \A i \in DOMAIN layers'[r] : layers'[r][i] = l \/
            (i \in DOMAIN layers[r] /\ layers'[r][i] = layers[r][i])
    <2>1. layers[r] \in Seq(X) /\ layers'[r] = Append(layers[r], l) BY <1>4, <1>10, <1>11
    <2>2. layers'[r] \in Seq(X) BY <1>10, <2>1
    <2>3. layers' \in [Requests -> Seq(X)] BY <1>4, <1>10, <1>11, <2>2
    <2>4. \A q \in Requests : q # r => layers'[q] = layers[q] BY <1>10, <1>11
    <2>5. \A i \in DOMAIN layers'[r] : layers'[r][i] = l \/
          (i \in DOMAIN layers[r] /\ layers'[r][i] = layers[r][i])
      <3>1. DOMAIN layers[r] = 1 .. Len(layers[r]) /\ Len(layers[r]) \in Nat
            /\ DOMAIN layers'[r] = 1 .. (Len(layers[r]) + 1) /\
               layers'[r][Len(layers[r]) + 1] = l
            /\ \A i \in 1 .. Len(layers[r]) : layers'[r][i] = layers[r][i]
        <4>1. l \in X BY <1>10
        <4> QED BY <2>1, <4>1
      <3> TAKE i \in DOMAIN layers'[r]
      <3>2. i \in 1 .. Len(layers[r]) \/ i = Len(layers[r]) + 1 BY <3>1
      <3> QED BY <3>1, <3>2
    <2> QED BY <2>3, <2>4, <2>5
  <1>15. TypeOK'
    <2>1. layers' \in [Requests -> Seq([slot : Slots, image : Images, fence : BOOLEAN])]
      BY <1>14 DEF X
    <2>2. /\ sem' \in [Surfaces -> [handle : BOOLEAN, failed : BOOLEAN, signalled : BOOLEAN]] /\
             gpu' \subseteq gpu
          /\ completion' \in [Slots -> {"none", "fence", "done"}]
      BY DEF Presented, SemStates
    <2>3. (todo \in [Threads -> Seq(Tasks)])' BY <1>8, TypedNext
    <2>4. gpu' \subseteq Slots BY <1>2, <2>2 DEF TypeOK
    <2>5. (\A c \in {composition, building} : c \in Seq([slot : Slots, image : Images]))'
      BY <1>2, <1>3 DEF TypeOK
    <2> QED BY <1>2, <1>3, <1>12, <1>13, <2>1, <2>2, <2>3, <2>4, <2>5 DEF TypeOK
  <1>16. \A z : InUse(z)' => InUse(z)
    <2> TAKE z
    <2> SUFFICES ASSUME NEW q \in Requests, NEW i \in DOMAIN layers'[q], layers'[q][i].slot = z
                 PROVE  InUse(z)
      BY <1>3 DEF InUse
    <2>1. CASE q = r
      <3>1. layers'[r][i] = l \/ (i \in DOMAIN layers[r] /\ layers'[r][i] = layers[r][i])
        BY <1>14, <2>1
      <3>2. CASE layers'[r][i] = l
        <4>1. z = s BY <1>10, <2>1, <3>2
        <4> QED BY <1>4, <4>1
      <3>3. CASE i \in DOMAIN layers[r] /\ layers'[r][i] = layers[r][i]
        <4>1. layers[r][i].slot = z BY <2>1, <3>3
        <4> QED BY <1>4, <3>3, <4>1 DEF InUse
      <3> QED BY <3>1, <3>2, <3>3
    <2>2. CASE q # r
      <3>1. layers'[q] = layers[q] BY <1>14, <2>2
      <3> QED BY <3>1 DEF InUse
    <2> QED BY <2>1, <2>2
  <1>17. ASSUME NEW q \in Requests, NEW i \in DOMAIN layers'[q]
         PROVE layers'[q][i] = l \/ (i \in DOMAIN layers[q] /\ layers'[q][i] = layers[q][i])
    BY <1>14, <1>17
  <1>18. RenderedOK'
    <2>1. ASSUME NEW q \in Requests, NEW i \in DOMAIN layers'[q]
          PROVE /\ ~layers'[q][i].fence => layers'[q][i].slot \notin gpu'
                /\ Legacy => ~layers'[q][i].fence
      <3>1. CASE layers'[q][i] = l BY <1>10, <3>1
      <3>2. CASE i \in DOMAIN layers[q] /\ layers'[q][i] = layers[q][i]
        <4>1. /\ ~layers[q][i].fence => layers[q][i].slot \notin gpu
              /\ Legacy => ~layers[q][i].fence
          BY <1>2, <3>2 DEF RenderedOK
        <4>2. gpu' \subseteq gpu BY DEF Presented
        <4> QED BY <3>2, <4>1, <4>2
      <3> QED BY <1>17, <2>1, <3>1, <3>2
    <2>2. screen # 0 => layers'[screen] = layers[screen]
      <3>1. screen # 0 => screen \in Requests BY <1>2, BoundsAssumption DEF TypeOK, Requests
      <3> QED BY <1>4, <1>14, <3>1
    <2> QED BY <1>3, <1>4, <1>16, <2>1, <2>2, PresentedRendered
  <1>19. ImagesStable'
    <2>1. /\ \A i \in DOMAIN composition : locked[composition[i].slot] /\
             image[composition[i].slot] = composition[i].image
          /\ \A i \in DOMAIN building : locked[building[i].slot] /\
             image[building[i].slot] = building[i].image
          /\ \A q \in Requests : \A i \in DOMAIN layers[q] :
               locked[layers[q][i].slot] /\ image[layers[q][i].slot] = layers[q][i].image
      BY <1>2 DEF SlotSide, ImagesStable
    <2>2. ASSUME NEW q \in Requests, NEW i \in DOMAIN layers'[q]
          PROVE locked[layers'[q][i].slot] /\ image[layers'[q][i].slot] = layers'[q][i].image
      <3>1. CASE layers'[q][i] = l BY <1>5, <1>10, <3>1
      <3>2. CASE i \in DOMAIN layers[q] /\ layers'[q][i] = layers[q][i] BY <2>1, <3>2
      <3> QED BY <1>17, <2>2, <3>1, <3>2
    <2>3. ImagesStable BY <1>2 DEF SlotSide
    <2> QED BY <1>3, <2>2, <2>3, ImagesLater
  <1>20. \A z \in Slots : More(Owners(z), Owners(z)', IF z = s THEN 1 ELSE 0)
    <2> TAKE z \in Slots
    <2>0. More(ReqLayers(layers, z), ReqLayers(layers', z), One(l.slot = z))
      <3> DEFINE lay2 == layers'
      <3>1. lay2 = [layers EXCEPT ![r] = Append(@, l)] BY <1>11
      <3> HIDE DEF lay2
      <3>2. More(ReqLayers(layers, z), ReqLayers(lay2, z), One(l.slot = z))
        BY <1>4, <1>10, <3>1, ReqLayersAppend
      <3> QED BY <3>2 DEF lay2
    <2> DEFINE kr == One(l.slot = z)
               o == 0
    <2>1. More(ReqLayers(layers, z), ReqLayers(layers', z), kr) BY <2>0
    <2>2. Counted(o, Among(tasks, Ofs({"unref"}, z))) /\
          Counted(o, Above(todo, t, m, Ofs({"unref"}, z)))
      BY <1>7, <1>s
    <2>3. kr \in Int /\ kr = IF z = s THEN 1 ELSE 0 BY <1>10 DEF One
    <2>4. o \in Int /\ o = o - o /\ o + o + o + kr + o = (IF z = s THEN 1 ELSE 0) BY <2>3
    <2> HIDE DEF kr, o
    <2>8. More(StackSet(todo, Ofs({"unref"}, z)), StackSet(todo', Ofs({"unref"}, z)), o)
      BY <1>8, <2>2, <2>4, StackDelta
    <2>9. /\ More(When(store[z] # "none", "flutter"), When(store'[z] # "none", "flutter"), 0)
          /\ More(LayersOn("building", 0, building, z), LayersOn("building", 0, building', z),
             0)
          /\ More(LayersOn("composition", 0, composition, z),
             LayersOn("composition", 0, composition', z), 0)
      BY <1>3, MoreSame
    <2>10. /\ More(When(store[z] # "none", "flutter"), When(store'[z] # "none", "flutter"), o)
           /\ More(LayersOn("building", 0, building, z), LayersOn("building", 0, building', z),
              o)
           /\ More(LayersOn("composition", 0, composition, z),
              LayersOn("composition", 0, composition', z), o)
      BY <2>9 DEF o
    <2>11. More(Owners(z), Owners(z)', o + o + o + kr + o)
      BY <1>8, <2>1, <2>3, <2>4, <2>8, <2>10, OwnersParts
    <2> QED BY <2>4, <2>11
  <1>21. SlotSide'
    <2>1. \A z : Counted(0, Above(todo, t, m, Ofs({"unown"}, z))) BY <1>s
    <2>3. \A z \in Slots : z # s => completion'[z] = completion[z] BY DEF Presented
    <2>2. Retaining(t, m, s)
      BY <1>3, <1>4, <1>8, <1>12, <1>13, <1>15, <1>19, <1>20, <2>1, <2>3 DEF Retaining
    <2> QED BY <1>8, <1>v, <2>2, Retained
  <1>22. LayerFits' BY <1>2, <1>3, <1>8, <1>v, FitsKept
  <1>23. RequestSide'
    <2>1. PushFits' /\ LockFits' /\ SubmitFits' /\ PushesDiffer'
      BY <1>3, <1>8, <1>v, RequestFits
    <2>2. BatonsOK' BY <1>2, <1>3, <1>8, <1>v, BatonsKept DEF RequestSide
    <2>3. RequestsCounted' BY <1>2, <1>3, <1>8, <1>v, RequestsKept DEF RequestSide
    <2>4. LayersCounted'
      <3>1. LayersCounted BY <1>2 DEF RequestSide
      <3>2. ASSUME NEW q \in Requests
            PROVE  (layers'[q] # <<>> => refs[q] > 0) /\ (q > pushes => refs[q] = 0)
        <4>1. CASE q = r
          <5>1. r > pushes => refs[r] = 0 BY <1>4, <3>1 DEF LayersCounted
          <5> QED BY <1>4, <4>1, <5>1
        <4>2. CASE q # r
          <5>1. layers'[q] = layers[q] BY <1>14, <4>2
          <5> QED BY <3>1, <5>1 DEF LayersCounted
        <4> QED BY <4>1, <4>2
      <3> QED BY <1>3, <3>2 DEF LayersCounted
    <2> QED BY <2>1, <2>2, <2>3, <2>4 DEF RequestSide
  <1> QED BY <1>9, <1>15, <1>18, <1>21, <1>22, <1>23, InvNext

(* A layer cannot be presented.                                            *)
LEMMA PresentFails ==
  ASSUME ScanoutInv, NEW t \in Threads, At(t, "present"), NEW s, s = Head(todo[t]).slot, NEW r,
         r = Head(todo[t]).req,
         Presented(s), todo' = [todo EXCEPT ![t] = <<ReqTask("requnref", r), Call("unlock")>>],
         UNCHANGED nrefs, UNCHANGED srefs, UNCHANGED layers,
         UNCHANGED locked, UNCHANGED owner, UNCHANGED store, UNCHANGED image, UNCHANGED fills,
         UNCHANGED life, UNCHANGED front, UNCHANGED current, UNCHANGED winVars, UNCHANGED refs,
         UNCHANGED schedVars, UNCHANGED kmsVars
  PROVE ScanoutInv'
  <1> DEFINE A == {"requnref", "unlock"}
             R == {"present", "submit", "unlock"}
             k1 == ReqTask("requnref", r)
             k2 == Call("unlock")
             tasks == <<k1, k2>>
  <1>2. TypeOK /\ LayerFits /\ RenderedOK /\ Shaped(todo) /\ SlotSide /\ RequestSide BY InvIs
  <1>3. /\ UNCHANGED composition /\ UNCHANGED building /\ UNCHANGED winlock /\ UNCHANGED pushes
        /\ UNCHANGED waiting /\ UNCHANGED queued /\ UNCHANGED inflight /\ UNCHANGED callback
        /\ UNCHANGED screen /\ UNCHANGED flips /\ UNCHANGED lost
    BY DEF winVars, schedVars, kmsVars
  <1>4. /\ s \in Slots /\ r \in Requests /\ winlock = {t} /\
           store[s] \in {"none", "presented"} /\ Owners(s) # {}
        /\ Has(todo, t, 1) /\ TaskAt(todo, t, 1).op = "submit" /\ TaskAt(todo, t, 1).req = r
        /\ \A d \in Nat : Has(todo, t, d) => TaskAt(todo, t, d).op \in R
        /\ \A d \in Nat : Has(todo, t, d) /\ TaskAt(todo, t, d).op = "submit" => d = 1
    BY PresentTop
  <1>5. nrefs[s] > 0 /\ locked[s] /\ owner[s] BY <1>4, UsedIs
  <1>6. /\ k1 \in Tasks /\ k1.op = "requnref" /\ k1.req = r /\ PlaceOK(k1, t, 1)
        /\ k2 \in Tasks /\ k2.op = "unlock" /\ PlaceOK(k2, t, 0)
    BY <1>4, PlaceIs
  <1>7. todo' = [todo EXCEPT ![t] = tasks] OBVIOUS
  <1> HIDE DEF k1, k2
  <1>8. tasks \in Seq(Tasks) /\ Len(tasks) = 2 /\ tasks[1] = k1 /\ tasks[2] = k2 BY <1>6, ListIs
  <1>o. \A x : Counted(One(k1 \in OfReq(ReqOps, x)) + One(k2 \in OfReq(ReqOps, x)),
          Among(tasks, OfReq(ReqOps, x)))
    BY AmongTwo
  <1> HIDE DEF tasks
  <1>9. \A i \in 1 .. Len(tasks) : (i = 1 /\ tasks[i] = k1) \/ (i = 2 /\ tasks[i] = k2)
    <2>1. \A i \in 1 .. Len(tasks) : i = 1 \/ i = 2 BY <1>8
    <2> QED BY <1>8, <2>1
  <1>v. /\ A \cap SlotSideOps = {} /\ "unref" \notin A \cup R /\ "unpin" \notin A \cup R /\
           "unown" \notin A \cup R
        /\ A \cap BatonOps = {} /\ R \cap BatonOps = {} /\ A \cap {"push", "build"} = {} /\
           "submit" \notin A
        /\ "present" \notin A /\ "fill" \notin A /\ "deinit" \notin A /\
           A \cap {"queue", "snapshot"} = {}
        /\ A \cap {"reset", "clear"} = {} /\ R \cap {"reset", "clear"} = {}
    BY DEF SlotSideOps, BatonOps
  <1>w. "requnref" \in A /\ "unlock" \in A OBVIOUS
  <1>10. /\ todo \in Stacks /\ todo' \in Stacks /\ Stepped(todo, todo', t, 0, tasks) /\
            Touches(A, R)
    <2>1. \A i \in 1 .. Len(tasks) : tasks[i].op \in A BY <1>6, <1>9, <1>w
    <2> HIDE DEF A, R
    <2> QED BY <1>4, <1>7, <1>8, <2>1, CutIs
  <1> HIDE DEF A, R
  <1>11. Shaped(todo')
    <2>1. 0 + Len(tasks) - 1 = 1 /\ 0 + Len(tasks) - 2 = 0 BY <1>8
    <2>2. "requnref" \in PlainOps /\ "unlock" \in PlainOps BY DEF PlainOps
    <2>3. \A i \in 1 .. Len(tasks) : PlaceOK(tasks[i], t, 0 + Len(tasks) - i) /\
          tasks[i].op \in PlainOps
      BY <1>6, <1>9, <2>1, <2>2
    <2> QED BY <1>2, <1>10, <2>3, ShapedPlain
  <1>12. TypeOK'
    <2>2. /\ sem' \in [Surfaces -> [handle : BOOLEAN, failed : BOOLEAN, signalled : BOOLEAN]] /\
             gpu' \subseteq gpu
          /\ completion' \in [Slots -> {"none", "fence", "done"}]
      BY DEF Presented, SemStates
    <2>3. (todo \in [Threads -> Seq(Tasks)])' BY <1>10, TypedNext
    <2>4. gpu' \subseteq Slots BY <1>2, <2>2 DEF TypeOK
    <2>5. (\A c \in {composition, building} : c \in Seq([slot : Slots, image : Images]))'
      BY <1>2, <1>3 DEF TypeOK
    <2> QED BY <1>2, <1>3, <2>2, <2>3, <2>4, <2>5 DEF TypeOK
  <1>13. RenderedOK'
    <2>1. \A z : InUse(z)' => InUse(z) BY <1>3 DEF InUse
    <2>2. ASSUME NEW q \in Requests, NEW i \in DOMAIN layers'[q]
          PROVE /\ ~layers'[q][i].fence => layers'[q][i].slot \notin gpu'
                /\ Legacy => ~layers'[q][i].fence
      <3>1. i \in DOMAIN layers[q] BY <2>2
      <3>2. /\ ~layers[q][i].fence => layers[q][i].slot \notin gpu
            /\ Legacy => ~layers[q][i].fence
        BY <1>2, <3>1 DEF RenderedOK
      <3>3. gpu' \subseteq gpu BY DEF Presented
      <3> QED BY <3>2, <3>3
    <2> QED BY <1>3, <1>4, <2>1, <2>2, PresentedRendered
  <1>14. \A z \in Slots : Owners(z)' = Owners(z) /\ Pins(z)' = Pins(z)
    BY <1>3, <1>10, <1>v, OwnersKept, PinsKept
  <1>15. SlotSide'
    <2>1. FillFits' /\ StoreFits' /\ DeinitFits' /\ DeinitsDiffer'
      BY <1>2, <1>10, <1>v, FitsKept, DifferKept DEF SlotSide
    <2>2. SlotsCounted' BY <1>2, <1>14, SlotsKept DEF SlotSide
    <2>3. SurfacesCounted' BY <1>2, <1>10, <1>14, <1>v, SurfacesKept DEF SlotSide
    <2>4. CleaningOK'
      <3>1. \A z \in Slots : z # s => /\ nrefs'[z] = nrefs[z] /\ locked'[z] = locked[z]
                                      /\ owner'[z] = owner[z] /\ completion'[z] = completion[z]
        BY DEF Presented
      <3>2. nrefs'[s] > 0 /\ locked'[s] /\ owner'[s] /\ (nrefs[s] > 0 \/ ~locked[s]) BY <1>5
      <3>3. CleaningOK BY <1>2 DEF SlotSide
      <3> QED BY <1>2, <1>10, <1>12, <1>v, <3>1, <3>2, <3>3, CleaningUp
    <2>5. LivesOK' BY <1>2, LivesKept DEF SlotSide
    <2>6. ImagesStable' BY <1>2, <1>3, ImagesKept DEF SlotSide
    <2> QED BY <2>1, <2>2, <2>3, <2>4, <2>5, <2>6 DEF SlotSide
  <1>16. LayerFits' BY <1>2, <1>3, <1>10, <1>v, FitsKept
  <1>17. PushFits' /\ SubmitFits' /\ PushesDiffer'
    BY <1>2, <1>3, <1>10, <1>v, FitsKept, DifferKept DEF RequestSide
  <1>18. LockFits'
    <2>1. LockFits /\ winlock \subseteq {t} /\ winlock' = {t}
      BY <1>2, <1>3, <1>4 DEF RequestSide
    <2> QED BY <1>10, <2>1, LockNext
  <1>19. BatonsOK'
    <2>1. UNCHANGED kmsVars OBVIOUS
    <2> QED BY <1>2, <1>3, <1>10, <1>v, <2>1, BatonsKept DEF RequestSide
  <1>20. LayersCounted' BY <1>2, <1>3, LayersKept DEF RequestSide
  <1>21. RequestsCounted'
    <2> SUFFICES ASSUME NEW x \in Requests PROVE Counted(refs'[x], RequestOwners(x)')
      BY DEF RequestsCounted
    <2> DEFINE g == One(r = x)
               o == 0
    <2>1. g \in Int /\ o \in Int BY OneIs
    <2>2. Counted(g, Above(todo, t, 0, OfReq(ReqOps, x)))
      <3>1. \A d \in Nat : Has(todo, t, d) /\ TaskAt(todo, t, d) \in OfReq(ReqOps, x) =>
            d = 1 /\ r = x
        <4> SUFFICES ASSUME NEW d \in Nat, Has(todo, t, d),
                            TaskAt(todo, t, d) \in OfReq(ReqOps, x)
                     PROVE d = 1 /\ r = x
          OBVIOUS
        <4>1. TaskAt(todo, t, d).op \in ReqOps /\ TaskAt(todo, t, d).req = x BY DEF OfReq
        <4>2. TaskAt(todo, t, d).op = "submit" BY <1>4, <4>1 DEF ReqOps, R
        <4>3. d = 1 BY <1>4, <4>2
        <4> QED BY <1>4, <4>1, <4>3
      <3>2. TaskAt(todo, t, 1) \in OfReq(ReqOps, r)
        <4>1. TaskAt(todo, t, 1) \in Tasks BY <1>4, <1>10, StackType
        <4> QED BY <1>4, <4>1 DEF OfReq, ReqOps
      <3>3. CASE r = x
        <4>1. Above(todo, t, 0, OfReq(ReqOps, x)) = {1} BY <1>4, <3>1, <3>2, <3>3 DEF Above
        <4>2. g = 1 BY <3>3 DEF One
        <4> QED BY <4>1, <4>2, CountOne
      <3>4. CASE r # x
        <4>1. Above(todo, t, 0, OfReq(ReqOps, x)) = {} BY <3>1, <3>4 DEF Above
        <4>2. g = 0 BY <3>4 DEF One
        <4> QED BY <4>1, <4>2, CountNone
      <3> QED BY <3>3, <3>4
    <2>3. Counted(g, Among(tasks, OfReq(ReqOps, x)))
      <3>1. One(k1 \in OfReq(ReqOps, x)) + One(k2 \in OfReq(ReqOps, x)) = g
        BY <1>6 DEF One, OfReq, ReqOps
      <3> QED BY <1>o, <3>1
    <2>4. More(Retired(flips, x), Retired(flips', x), o) /\
          More(Flipped(flips, x), Flipped(flips', x), o)
      BY <1>3, FlipsSame
    <2> HIDE DEF g, o
    <2>5. Counted(refs[x] + (((g - g) + (One(queued' = x) - One(queued = x)) +
            (One(inflight' = x) - One(inflight = x))
                           + (One(callback' = x) - One(callback = x)) +
                             (One(screen' = x) - One(screen = x))) + o + o),
                RequestOwners(x)') /\ refs[x] \in Nat
      BY <1>10, <2>1, <2>2, <2>3, <2>4, RequestMore
    <2>6. refs'[x] = refs[x] + (((g - g) + (One(queued' = x) - One(queued = x)) +
            (One(inflight' = x) - One(inflight = x))
                           + (One(callback' = x) - One(callback = x)) +
                             (One(screen' = x) - One(screen = x))) + o + o)
      <3>1. refs'[x] = refs[x] OBVIOUS
      <3> QED BY <1>3, <2>1, <2>5, <3>1 DEF o, One
    <2> QED BY <2>5, <2>6
  <1>22. RequestSide' BY <1>17, <1>18, <1>19, <1>20, <1>21 DEF RequestSide
  <1> QED BY <1>11, <1>12, <1>13, <1>15, <1>16, <1>22, InvNext

(* Both keep the invariant.                                                *)
LEMMA PresentFbStep == ASSUME ScanoutInv, NEW t \in Threads, PresentFb(t) PROVE ScanoutInv'
  <1> DEFINE s == Head(todo[t]).slot
             r == Head(todo[t]).req
  <1>1. /\ At(t, "present")
        /\ UNCHANGED locked /\ UNCHANGED owner /\ UNCHANGED store /\ UNCHANGED image /\
           UNCHANGED fills
        /\ UNCHANGED life /\ UNCHANGED front /\ UNCHANGED current /\ UNCHANGED winVars /\
           UNCHANGED refs
        /\ UNCHANGED schedVars /\ UNCHANGED kmsVars
    BY DEF PresentFb
  <1>2. PICK c \in CaptureOutcomes(s) : \E p \in PushOutcomes(c.by) :
              /\ sem' = [sem EXCEPT ![SurfaceOf(s)] = c.sem]
              /\ gpu' = IF c.idle THEN {} ELSE IF p.polled THEN gpu \ {s} ELSE gpu
              /\ completion' = [completion EXCEPT ![s] = IF p.polled THEN "done" ELSE c.by]
              /\ IF c.ok /\ p.ok
                 THEN /\ LockedFbRef(s)
                      /\ layers' = [layers EXCEPT ![r] = Append(@,
                             [slot |-> s, image |-> image[s], fence |-> p.fence])]
                      /\ Then(t, <<>>)
                 ELSE /\ todo' = [todo EXCEPT ![t] = <<ReqTask("requnref", r), Call("unlock")>>]
                      /\ UNCHANGED <<nrefs, srefs, layers>>
    BY DEF PresentFb
  <1>3. PICK p \in PushOutcomes(c.by) :
              /\ sem' = [sem EXCEPT ![SurfaceOf(s)] = c.sem]
              /\ gpu' = IF c.idle THEN {} ELSE IF p.polled THEN gpu \ {s} ELSE gpu
              /\ completion' = [completion EXCEPT ![s] = IF p.polled THEN "done" ELSE c.by]
              /\ IF c.ok /\ p.ok
                 THEN /\ LockedFbRef(s)
                      /\ layers' = [layers EXCEPT ![r] = Append(@,
                             [slot |-> s, image |-> image[s], fence |-> p.fence])]
                      /\ Then(t, <<>>)
                 ELSE /\ todo' = [todo EXCEPT ![t] = <<ReqTask("requnref", r), Call("unlock")>>]
                      /\ UNCHANGED <<nrefs, srefs, layers>>
    BY <1>2
  <1>4. s = Head(todo[t]).slot /\ r = Head(todo[t]).req OBVIOUS
  <1> HIDE DEF s, r
  <1>5. s \in Slots BY <1>1, <1>4, PresentTop
  <1>6. /\ Presented(s) /\ p.fence \in BOOLEAN
        /\ c.ok /\ p.ok /\ ~p.fence => s \notin gpu'
        /\ Legacy => ~p.fence
    BY <1>3, <1>5, PresentedIs
  <1>7. CASE c.ok /\ p.ok
    <2> DEFINE b == p.fence
    <2>1. b \in BOOLEAN /\ (~b => s \notin gpu') /\ (Legacy => ~b) BY <1>6, <1>7
    <2>2. LockedFbRef(s) /\ layers' =
          [layers EXCEPT ![r] = Append(@, [slot |-> s, image |-> image[s], fence |-> b])]
          /\ Then(t, <<>>)
      BY <1>3, <1>7
    <2> HIDE DEF b
    <2> QED BY <1>1, <1>4, <1>6, <2>1, <2>2, PresentTaken
  <1>8. CASE ~(c.ok /\ p.ok)
    <2>1. todo' = [todo EXCEPT ![t] = <<ReqTask("requnref", r), Call("unlock")>>]
          /\ UNCHANGED nrefs /\ UNCHANGED srefs /\ UNCHANGED layers
      BY <1>3, <1>8
    <2> QED BY <1>1, <1>4, <1>6, <2>1, PresentFails
  <1> QED BY <1>7, <1>8

-----------------------------------------------------------------------------
(* Nothing is owned at first, but for the window's surface.                *)
LEMMA NothingYet ==
  ASSUME Init
  PROVE /\ TypeOK /\ todo \in Stacks
        /\ \A u, d : ~(u \in Threads /\ d \in Nat /\ Has(todo, u, d))
        /\ \A K : StackSet(todo, K) = {}
        /\ \A ops, z : TasksOn(ops, z) = {} /\ TasksOnReq(ops, z) = {}
  <1>1. todo = [t \in Threads |-> <<>>] BY DEF Init
  <1>2. \A t \in Threads : Len(todo[t]) = 0 /\ DOMAIN todo[t] = {} BY <1>1
  <1>3. \A u, d : ~(u \in Threads /\ d \in Nat /\ Has(todo, u, d)) BY <1>2 DEF Has
  <1>4. \A K : StackSet(todo, K) = {} BY <1>3, StackSetIs
  <1>5. \A ops, z : TasksOn(ops, z) = {} /\ TasksOnReq(ops, z) = {}
    <2> TAKE ops, z
    <2>1. TasksOn(ops, z) = {}
      <3> SUFFICES ASSUME NEW t \in Threads, NEW i \in DOMAIN todo[t] PROVE FALSE BY DEF TasksOn
      <3> QED BY <1>2
    <2>2. TasksOnReq(ops, z) = {}
      <3> SUFFICES ASSUME NEW t \in Threads, NEW i \in DOMAIN todo[t] PROVE FALSE
        BY DEF TasksOnReq
      <3> QED BY <1>2
    <2> QED BY <2>1, <2>2
  <1>6. todo \in Stacks BY <1>1 DEF Stacks
  <1>7. TypeOK
    <2>0. MaxFills \in Nat /\ MaxRequests \in Nat /\ MaxSurfaces \in Nat \ {0}
      BY BoundsAssumption
    <2>1. \A e \in {Semaphore, NoSemaphore} : e \in SemStates
      <3>1. NoSemaphore \in SemStates BY DEF NoSemaphore, SemStates
      <3>2. Semaphore \in SemStates BY <3>1 DEF Semaphore, SemStates
      <3> QED BY <3>1, <3>2
    <2>2. sem \in [Surfaces -> [handle : BOOLEAN, failed : BOOLEAN, signalled : BOOLEAN]]
      <3>1. PICK e \in {Semaphore, NoSemaphore} : sem = [x \in Surfaces |-> e] BY DEF Init
      <3>2. e \in SemStates BY <2>1
      <3> QED BY <3>1, <3>2 DEF SemStates
    <2>3. 0 \in Images /\ 1 \in Surfaces /\ 0 \in 0 .. MaxRequests BY <2>0 DEF Images, Surfaces
    <2>4. \A c \in {composition, building} : c \in Seq([slot : Slots, image : Images])
      <3> DEFINE X == [slot : Slots, image : Images]
      <3>1. composition = <<>> /\ building = <<>> BY DEF Init
      <3> HIDE DEF X
      <3>2. composition \in Seq(X) /\ building \in Seq(X) BY <3>1
      <3> QED BY <3>2 DEF X
    <2>5. layers \in [Requests -> Seq([slot : Slots, image : Images, fence : BOOLEAN])]
          /\ flips \in Seq([retired : 0 .. MaxRequests, frame : 0 .. MaxRequests])
          /\ todo \in [Threads -> Seq(Tasks)]
      BY <1>1 DEF Init
    <2>6. /\ locked \in [Slots -> BOOLEAN] /\ owner \in [Slots -> BOOLEAN] /\
             nrefs \in [Slots -> Nat]
          /\ store \in [Slots -> {"none", "empty", "rendered", "presented"}]
          /\ completion \in [Slots -> {"none", "fence", "done"}] /\ image \in [Slots -> Images]
          /\ life \in [Surfaces -> {"new", "live", "freed"}] /\ srefs \in [Surfaces -> Nat]
          /\ front \in [Surfaces -> Slots \cup {NoSlot}] /\ refs \in [Requests -> Nat]
      BY <2>3 DEF Init
    <2>7. /\ fills \in Images /\ gpu \subseteq Slots /\ current \in Surfaces /\
             winlock \in SUBSET Threads
          /\ pushes \in 0 .. MaxRequests /\ waiting \in BOOLEAN
          /\ queued \in 0 .. MaxRequests /\ inflight \in 0 .. MaxRequests
          /\ callback \in 0 .. MaxRequests /\ screen \in 0 .. MaxRequests
          /\ lost \in 0 .. MaxRequests
      BY <2>3 DEF Init
    <2> QED BY <2>2, <2>4, <2>5, <2>6, <2>7 DEF TypeOK
  <1> QED BY <1>3, <1>4, <1>5, <1>6, <1>7

(* At the start only the window owns its surface.                          *)
LEMMA NoOwnersYet ==
  ASSUME Init
  PROVE /\ \A s \in Slots : Owners(s) = {} /\ Pins(s) = {}
        /\ \A x \in Surfaces : SurfaceOwners(x) = When(current = x, "window")
        /\ \A r \in Requests : RequestOwners(r) = {}
        /\ \A z : ~InUse(z)
  <1>1. \A ops, z : TasksOn(ops, z) = {} /\ TasksOnReq(ops, z) = {} BY NothingYet
  <1>2. /\ composition = <<>> /\ building = <<>> /\ flips = <<>> /\
                                                    \A r \in Requests : layers[r] = <<>>
        /\ \A s \in Slots : store[s] = "none" /\ \A x \in Surfaces : front[x] = NoSlot
        /\ queued = 0 /\ inflight = 0 /\ callback = 0 /\ screen = 0
    BY DEF Init
  <1>3. \A name, n, z : LayersOn(name, n, <<>>, z) = {} BY DEF LayersOn
  <1>4. \A s \in Slots : Owners(s) = {}
    <2> TAKE s \in Slots
    <2>1. When(store[s] # "none", "flutter") = {} BY <1>2 DEF When
    <2>2. UNION {LayersOn("request", r, layers[r], s) : r \in Requests} = {} BY <1>2, <1>3
    <2> QED BY <1>1, <1>2, <1>3, <2>1, <2>2 DEF Owners
  <1>5. \A s \in Slots : Pins(s) = {}
    <2> TAKE s \in Slots
    <2>1. front[SurfaceOf(s)] # s
      <3>1. SurfaceOf(s) \in Surfaces /\ s # NoSlot BY SlotIs
      <3>2. \A x \in Surfaces : front[x] = NoSlot BY DEF Init
      <3> QED BY <3>1, <3>2
    <2> QED BY <1>1, <2>1 DEF Pins, When
  <1>6. \A x \in Surfaces : SurfaceOwners(x) = When(current = x, "window")
    <2> TAKE x \in Surfaces
    <2>1. UNION {{<<"slot", s, o>> : o \in Owners(s)} : s \in {x} \X Pool} = {}
      <3>1. \A s \in {x} \X Pool : s \in Slots BY DEF Slots
      <3> QED BY <1>4, <3>1
    <2> QED BY <1>1, <2>1 DEF SurfaceOwners
  <1>7. \A r \in Requests : RequestOwners(r) = {}
    <2> TAKE r \in Requests
    <2>1. r # 0 BY RequestIs
    <2>2. DOMAIN flips = {} BY <1>2
    <2>3. {<<"retired", 0, i>> : i \in {j \in DOMAIN flips : flips[j].retired = r}} = {}
          /\ {<<"flipped", 0, i>> : i \in {j \in DOMAIN flips : flips[j].frame = r}} = {}
      BY <2>2
    <2>4. queued = 0 /\ inflight = 0 /\ callback = 0 /\ screen = 0 BY DEF Init
    <2> QED BY <1>1, <2>1, <2>3, <2>4 DEF RequestOwners, When
  <1>8. \A z : ~InUse(z)
    <2>1. DOMAIN composition = {} /\ DOMAIN building = {} /\
          \A r \in Requests : DOMAIN layers[r] = {}
      BY <1>2
    <2> QED BY <2>1 DEF InUse
  <1> QED BY <1>4, <1>5, <1>6, <1>7, <1>8

(* The invariant holds at the start.                                       *)
LEMMA ScanoutInitial == ASSUME Init PROVE ScanoutInv
  <1>1. /\ TypeOK /\ \A u, d : ~(u \in Threads /\ d \in Nat /\ Has(todo, u, d)) BY NothingYet
  <1>2. \A K : StackSet(todo, K) = {} BY NothingYet
  <1>3. Shaped(todo) /\ TasksFit
    BY <1>1 DEF Shaped, TasksFit, FillFits, PushFits, LockFits, SubmitFits, StoreFits,
       LayerFits, DeinitFits
  <1>4. PushesDiffer /\ DeinitsDiffer BY <1>2 DEF PushesDiffer, DeinitsDiffer, Single
  <1>5. BatonsOK
    <2>1. waiting = FALSE /\ lost = 0 /\ inflight = 0 /\ callback = 0 /\ flips = <<>> BY DEF Init
    <2>2. BatonsOf(todo, inflight, flips) = {}
      <3>1. DOMAIN flips = {} BY <2>1
      <3> QED BY <1>2, <2>1, <3>1 DEF BatonsOf, When, Recorded
    <2>3. One(Busy) = 0 BY <2>1 DEF One, Busy
    <2>4. Counted(One(Busy), BatonsOf(todo, inflight, flips)) BY <2>2, <2>3, CountNone
    <2>5. \A i \in DOMAIN flips : flips[i].frame # 0
      <3>1. DOMAIN flips = {} BY <2>1
      <3> QED BY <3>1
    <2> QED BY <2>1, <2>4, <2>5 DEF BatonsOK
  <1>6. /\ \A s \in Slots : ~locked[s] /\ ~owner[s] /\ nrefs[s] = 0 /\ completion[s] = "none" /\
           store[s] = "none"
        /\ \A r \in Requests : refs[r] = 0 /\ layers[r] = <<>>
        /\ \A x \in Surfaces : /\ front[x] = NoSlot /\ srefs[x] = (IF x = 1 THEN 1 ELSE 0)
                               /\ life[x] = IF x = 1 THEN "live" ELSE "new"
    BY DEF Init
  <1>7. current = 1 /\ gpu = {} /\ screen = 0 /\ composition = <<>> /\ building = <<>>
    BY DEF Init
  <1>8. SlotsCounted
    <2> SUFFICES ASSUME NEW s \in Slots PROVE Counted(nrefs[s], Owners(s) \cup Pins(s))
      BY DEF SlotsCounted
    <2>1. Owners(s) \cup Pins(s) = {} BY NoOwnersYet
    <2> QED BY <1>6, <2>1, CountNone
  <1>9. SurfacesCounted
    <2> SUFFICES ASSUME NEW x \in Surfaces PROVE Counted(srefs[x], SurfaceOwners(x))
      BY DEF SurfacesCounted
    <2>1. SurfaceOwners(x) = When(current = x, "window") BY NoOwnersYet
    <2>2. CASE x = 1
      <3>1. SurfaceOwners(x) = {<<"window", 0, 0>>} BY <1>7, <2>1, <2>2 DEF When
      <3> QED BY <1>6, <2>2, <3>1, CountOne
    <2>3. CASE x # 1
      <3>1. SurfaceOwners(x) = {} BY <1>7, <2>1, <2>3 DEF When
      <3> QED BY <1>6, <2>3, <3>1, CountNone
    <2> QED BY <2>2, <2>3
  <1>10. RequestsCounted
    <2> SUFFICES ASSUME NEW r \in Requests PROVE Counted(refs[r], RequestOwners(r))
      BY DEF RequestsCounted
    <2>1. RequestOwners(r) = {} BY NoOwnersYet
    <2> QED BY <1>6, <2>1, CountNone
  <1>11. LayersCounted BY <1>6 DEF LayersCounted
  <1>12. CleaningOK BY <1>2, <1>6 DEF CleaningOK, Clearing, Resetting, Single
  <1>13. LivesOK
    <2> SUFFICES ASSUME NEW x \in Surfaces
                 PROVE /\ srefs[x] > 0 => life[x] = "live"
                       /\ x > current => life[x] = "new"
                       /\ front[x] # NoSlot => srefs[x] > 0 /\ SurfaceOf(front[x]) = x
      BY DEF LivesOK
    <2>1. front[x] = NoSlot /\ srefs[x] = (IF x = 1 THEN 1 ELSE 0) /\
          life[x] = IF x = 1 THEN "live" ELSE "new"
      BY <1>6
    <2>2. CASE x = 1
      <3>1. ~(x > current) BY <1>7, <2>2
      <3> QED BY <2>1, <2>2, <3>1
    <2>3. CASE x # 1
      <3>1. srefs[x] = 0 /\ life[x] = "new" BY <2>1, <2>3
      <3> QED BY <2>1, <3>1
    <2> QED BY <2>2, <2>3
  <1>14. RenderedOK
    <2>1. \A z : ~InUse(z) BY NoOwnersYet
    <2>2. \A r \in Requests : DOMAIN layers[r] = {} BY <1>6
    <2>3. ScanoutAfterRender
      <3>1. PICK e \in {Semaphore, NoSemaphore} : sem = [x \in Surfaces |-> e] BY DEF Init
      <3>2. ~e.signalled BY DEF Semaphore, NoSemaphore
      <3> QED BY <1>7, <3>1, <3>2 DEF ScanoutAfterRender
    <2> QED BY <1>6, <1>7, <2>1, <2>2, <2>3 DEF RenderedOK
  <1>15. ImagesStable
    <2>1. DOMAIN composition = {} /\ DOMAIN building = {} /\
          \A r \in Requests : DOMAIN layers[r] = {}
      BY <1>6, <1>7
    <2> QED BY <2>1 DEF ImagesStable
  <1> QED
    BY <1>1, <1>3, <1>4, <1>5, <1>8, <1>9, <1>10, <1>11, <1>12, <1>13, <1>14, <1>15
       DEF ScanoutInv

-----------------------------------------------------------------------------
(* Every step keeps the invariant.                                         *)
LEMMA ScanoutNoStep == ASSUME ScanoutInv, UNCHANGED vars PROVE ScanoutInv'
  <1>1. Touches({}, {})
    <2>1. UNCHANGED todo BY DEF vars
    <2> QED BY <2>1, NoneTouched
  <1>2. TypeOK /\ Shaped(todo) /\ LayerFits BY InvIs
  <1>3. UNCHANGED todo /\ UNCHANGED slotVars /\ UNCHANGED surfVars /\ UNCHANGED gpuVars /\
        UNCHANGED winVars
        /\ UNCHANGED reqVars /\ UNCHANGED schedVars /\ UNCHANGED kmsVars
    BY DEF vars
  <1>4. UNCHANGED composition /\ UNCHANGED building /\ UNCHANGED winlock /\ UNCHANGED pushes /\
        UNCHANGED layers
        /\ UNCHANGED screen
    BY <1>3 DEF winVars, reqVars, kmsVars
  <1>5. todo' \in Stacks BY <1>2, <1>3, StacksTyped
  <1>6. TypeOK'
    BY <1>2, <1>3 DEF TypeOK, slotVars, surfVars, gpuVars, winVars, reqVars, schedVars,
       kmsVars
  <1>7. Shaped(todo') BY <1>2, <1>3
  <1>8. RequestSide' BY <1>1, <1>3, <1>4, <1>5, RequestSideKept
  <1>9. SlotSide' BY <1>1, <1>3, <1>4, <1>5, SlotSideKept
  <1>10. LayerFits' BY <1>1, <1>2, <1>4, FitsKept
  <1>11. RenderedOK' BY <1>3, <1>4, RenderedStays
  <1> QED BY <1>6, <1>7, <1>8, <1>9, <1>10, <1>11, InvNext

(* Every step keeps the invariant.                                         *)
LEMMA ScanoutStep == ASSUME ScanoutInv, [Next]_vars PROVE ScanoutInv'
  <1>1. CASE Engine
    BY <1>1, CreateBackingStoreStep, ResizeStep, RenderStep, ReleaseBackingStoreStep,
       PresentLayersStep DEF Engine
  <1>2. ASSUME NEW t \in Threads, Step(t) PROVE ScanoutInv'
    BY <1>2, FillStep, QueuePresentStep, SnapshotStep, PushCompositionStep,
       CreateRequestStep, UnlockWindowStep,
       PresentFbStep, SubmitFrameStep, CommitFrameStep, OnPresentFailedStep, DispatchStep,
         OnScanoutStep,
       ReqUnrefStep, LockedFbUnrefStep, UnpinFrontStep, ResetSlotStep, ClearSlotStep,
         SurfaceUnrefStep,
       SurfaceDeinitStep
       DEF Step
  <1>3. ASSUME NEW t \in Threads, RequestRepaint(t) PROVE ScanoutInv'
    BY <1>3, RequestRepaintStep
  <1>4. CASE OnEventFdReady BY <1>4, OnEventFdReadyStep
  <1>5. ASSUME NEW s \in Slots, GpuDone(s) PROVE ScanoutInv' BY <1>5, GpuDoneStep
  <1>6. CASE UNCHANGED vars BY <1>6, ScanoutNoStep
  <1> QED BY <1>1, <1>2, <1>3, <1>4, <1>5, <1>6 DEF Next

(* In every state that slots, surfaces, requests and threads can reach,    *)
(* the inductive invariant holds, for any numbers of them.                 *)
THEOREM ScanoutCorrect == Spec => []ScanoutInv
  <1>1. Init => ScanoutInv BY ScanoutInitial
  <1>2. ScanoutInv /\ [Next]_vars => ScanoutInv' BY ScanoutStep
  <1> QED BY <1>1, <1>2, PTL DEF Spec

-----------------------------------------------------------------------------
(* A request that is being built has one reference.                        *)
LEMMA PresentingCounted ==
  ASSUME ScanoutInv, NEW t \in Threads, NEW i \in DOMAIN todo[t], todo[t][i].op = "present"
  PROVE refs[todo[t][i].req] = 1
  <1> DEFINE n == Len(todo[t])
             d == n - i
  <1>1. todo \in Stacks /\ Shaped(todo) /\ SubmitFits BY InvIs, StacksTyped DEF RequestSide
  <1>2. todo[t] \in Seq(Tasks) /\ n \in Nat BY <1>1, StackType
  <1>3. i \in 1 .. n BY <1>2
  <1>4. d \in 0 .. n - 1 /\ n - d = i /\ d \in Nat BY <1>2, <1>3
  <1>5. Has(todo, t, d) /\ TaskAt(todo, t, d) = todo[t][i] BY <1>4 DEF Has, TaskAt
  <1>6. d \in Nat /\ d <= n - 1 BY <1>2, <1>3
  <1> HIDE DEF d
  <1>7. BelowOK(todo, t, d) BY <1>1, <1>5, <1>6 DEF Shaped
  <1>8. d >= 2 /\ TaskAt(todo, t, 1).op = "submit" /\ TaskAt(todo, t, 1).req = todo[t][i].req
    BY <1>5, <1>7 DEF BelowOK
  <1>9. Has(todo, t, 1) BY <1>2, <1>6, <1>8 DEF Has
  <1>10. Submit1(TaskAt(todo, t, 1)) BY <1>1, <1>9 DEF SubmitFits
  <1> QED BY <1>8, <1>10 DEF Submit1

(* The invariant implies CountsMatchOwners.                                *)
LEMMA ScanoutCounts == ASSUME ScanoutInv PROVE CountsMatchOwners
  <1>1. RefsMatchOwners BY InvIs DEF SlotSide, SlotsCounted, Counted, RefsMatchOwners
  <1>2. SurfaceRefsMatchOwners
    BY InvIs DEF SlotSide, SurfacesCounted, Counted, SurfaceRefsMatchOwners
  <1>3. RequestRefsMatchOwners
    <2> SUFFICES ASSUME NEW r \in Requests
                 PROVE /\ \A t \in Threads : \A i \in DOMAIN todo[t] :
                             todo[t][i].op = "present" /\ todo[t][i].req = r => refs[r] = 1
                       /\ refs[r] = Cardinality(RequestOwners(r))
                       /\ layers[r] # <<>> => refs[r] > 0
      BY DEF RequestRefsMatchOwners
    <2>1. \A t \in Threads : \A i \in DOMAIN todo[t] :
             todo[t][i].op = "present" /\ todo[t][i].req = r => refs[r] = 1
      BY PresentingCounted
    <2>2. refs[r] = Cardinality(RequestOwners(r))
      BY InvIs DEF RequestSide, RequestsCounted, Counted
    <2>3. layers[r] # <<>> => refs[r] > 0 BY InvIs DEF RequestSide, LayersCounted
    <2> QED BY <2>1, <2>2, <2>3
  <1> QED BY <1>1, <1>2, <1>3 DEF CountsMatchOwners

(* A slot that is reset is cleared afterwards.                             *)
LEMMA ResettingClears ==
  ASSUME ScanoutInv, NEW s \in Slots, Resetting(s) # {}
  PROVE Clearing(s) # {}
  <1>1. todo \in Stacks /\ Shaped(todo) BY InvIs, StacksTyped
  <1>2. PICK x : x \in StackSet(todo, Ofs({"reset"}, s)) BY DEF Resetting
  <1>3. PICK t \in Threads :
        \E d \in Nat : Has(todo, t, d) /\ TaskAt(todo, t, d) \in Ofs({"reset"}, s)
    BY <1>2, StackSetIs
  <1>4. PICK d \in Nat : Has(todo, t, d) /\ TaskAt(todo, t, d) \in Ofs({"reset"}, s) BY <1>3
  <1>5. TaskAt(todo, t, d).op = "reset" /\ TaskAt(todo, t, d).slot = s BY <1>4 DEF Ofs
  <1>6. BelowOK(todo, t, d) BY <1>1, <1>4 DEF Shaped
  <1> DEFINE e == d - 1
  <1>7. d >= 1 /\ TaskAt(todo, t, e).op = "clear" /\ TaskAt(todo, t, e).slot = s
    BY <1>5, <1>6 DEF BelowOK
  <1>8. e \in Nat /\ Has(todo, t, e)
    <2>1. Len(todo[t]) \in Nat BY <1>1, StackType
    <2> QED BY <1>4, <1>7, <2>1 DEF Has
  <1> HIDE DEF e
  <1>9. TaskAt(todo, t, e) \in Ofs({"clear"}, s)
    <2>1. TaskAt(todo, t, e) \in Tasks BY <1>1, <1>8, StackType
    <2> QED BY <1>7, <2>1 DEF Ofs
  <1>10. Tok(t, e) \in StackSet(todo, Ofs({"clear"}, s)) BY <1>8, <1>9, TokIn
  <1> QED BY <1>10 DEF Clearing

(* The invariant implies CleanWhenFree.                                    *)
LEMMA ScanoutClean == ASSUME ScanoutInv PROVE CleanWhenFree
  <1> SUFFICES ASSUME NEW s \in Slots
               PROVE /\ ~locked[s] => nrefs[s] = 0 /\ ~owner[s] /\ completion[s] = "none"
                     /\ nrefs[s] > 0 => locked[s] /\ owner[s]
    BY DEF CleanWhenFree
  <1>1. /\ (Clearing(s) # {}) <=> (nrefs[s] = 0 /\ locked[s])
        /\ nrefs[s] = 0 /\ (owner[s] \/ completion[s] # "none") => Resetting(s) # {}
        /\ nrefs[s] > 0 => locked[s] /\ owner[s]
    BY InvIs DEF SlotSide, CleaningOK
  <1>2. Resetting(s) # {} => Clearing(s) # {} BY ResettingClears
  <1>3. nrefs[s] \in Nat BY InvIs DEF TypeOK
  <1>4. ~locked[s] => nrefs[s] = 0 BY <1>1, <1>3
  <1> QED BY <1>1, <1>2, <1>4

(* What keeps a surface while one of its slots is being cleaned up.        *)
LEMMA CoveredLives ==
  ASSUME ScanoutInv, NEW t \in Threads, NEW d \in Nat, Has(todo, t, d), NEW x \in Surfaces,
         Covers(TaskAt(todo, t, d), x)
  PROVE life[x] = "live"
  <1> DEFINE k == TaskAt(todo, t, d)
  <1>1. todo \in Stacks /\ Shaped(todo) /\ StoreFits /\ DeinitFits
    BY InvIs, StacksTyped DEF SlotSide
  <1>2. k \in Tasks /\ PlaceOK(k, t, d) /\ Store1(k) /\ Deinit1(k)
    BY <1>1, StackType DEF Shaped, StoreFits, DeinitFits
  <1>3. SurfaceOf(<<x, 0>>) = x BY SlotIs
  <1>4. CASE k.op = "unown" /\ k.slot = <<x, 0>>
    <2>1. k \in Ofs({"unown"}, <<x, 0>>) BY <1>2, <1>4 DEF Ofs
    <2>2. Tok(t, d) \in StackSet(todo, Ofs({"unown"}, <<x, 0>>)) BY <2>1, TokIn
    <2>3. TasksOn({"unown"}, <<x, 0>>) = StackSet(todo, Ofs({"unown"}, <<x, 0>>))
      BY <1>1, TasksOnNow
    <2>4. SurfaceOwners(x) # {} BY <2>2, <2>3 DEF SurfaceOwners
    <2> QED BY <2>4, CountedLives
  <1>5. CASE k.op = "deinit" /\ k.slot = <<x, 0>> BY <1>2, <1>3, <1>5 DEF Deinit1
  <1>6. CASE k.op = "snapshot" /\ SurfaceOf(k.slot) = x
    <2>1. k.slot \in Slots /\ store[k.slot] = "presented" BY <1>2, <1>6 DEF PlaceOK, Store1
    <2> QED BY <1>6, <2>1, UsedIs
  <1>7. Covers(k, x) OBVIOUS
  <1> HIDE DEF k
  <1> QED BY <1>4, <1>5, <1>6, <1>7 DEF Covers

(* The surface of a slot that is released lives.                           *)
LEMMA CleanedLives ==
  ASSUME ScanoutInv, NEW s \in Slots, NEW op \in {"unpin", "clear"},
         StackSet(todo, Ofs({op}, s)) # {}
  PROVE life[SurfaceOf(s)] = "live"
  <1>1. todo \in Stacks /\ Shaped(todo) BY InvIs, StacksTyped
  <1>2. PICK y : y \in StackSet(todo, Ofs({op}, s)) OBVIOUS
  <1>3. PICK t \in Threads :
        \E d \in Nat : Has(todo, t, d) /\ TaskAt(todo, t, d) \in Ofs({op}, s)
    BY <1>2, StackSetIs
  <1>4. PICK d \in Nat : Has(todo, t, d) /\ TaskAt(todo, t, d) \in Ofs({op}, s) BY <1>3
  <1>5. TaskAt(todo, t, d).op = op /\ TaskAt(todo, t, d).slot = s BY <1>4 DEF Ofs
  <1>6. BelowOK(todo, t, d) BY <1>1, <1>4 DEF Shaped
  <1>7. \E e \in 0 .. d - 1 : Covers(TaskAt(todo, t, e), SurfaceOf(s)) BY <1>5, <1>6 DEF BelowOK
  <1>8. PICK e \in 0 .. d - 1 : Covers(TaskAt(todo, t, e), SurfaceOf(s)) BY <1>7
  <1>9. e \in Nat /\ Has(todo, t, e)
    <2>1. Len(todo[t]) \in Nat BY <1>1, StackType
    <2> QED BY <1>4, <2>1 DEF Has
  <1>10. SurfaceOf(s) \in Surfaces BY SlotIs
  <1> QED BY <1>8, <1>9, <1>10, CoveredLives

(* The invariant implies SurfaceOutlivesOwners.                            *)
LEMMA ScanoutLives == ASSUME ScanoutInv PROVE SurfaceOutlivesOwners
  <1> SUFFICES ASSUME NEW s \in Slots, locked[s] \/ Owners(s) # {}
               PROVE  life[SurfaceOf(s)] = "live"
    BY DEF SurfaceOutlivesOwners
  <1>1. todo \in Stacks /\ TypeOK /\ SlotSide BY InvIs, StacksTyped
  <1>2. CASE Owners(s) # {} BY <1>2, UsedIs
  <1>3. CASE Owners(s) = {}
    <2>1. locked[s] BY <1>3
    <2>2. nrefs[s] \in Nat /\ SurfaceOf(s) \in Surfaces BY <1>1, SlotIs DEF TypeOK
    <2>3. CASE nrefs[s] = 0
      <3>1. Clearing(s) # {} BY <1>1, <2>1, <2>3 DEF SlotSide, CleaningOK
      <3>2. StackSet(todo, Ofs({"clear"}, s)) # {} BY <3>1 DEF Clearing
      <3> QED BY <3>2, CleanedLives
    <2>4. CASE nrefs[s] # 0
      <3>1. Counted(nrefs[s], Owners(s) \cup Pins(s)) BY <1>1 DEF SlotSide, SlotsCounted
      <3>2. nrefs[s] > 0 BY <2>2, <2>4
      <3>3. Owners(s) \cup Pins(s) # {} BY <3>1, <3>2, CountFacts
      <3>4. Pins(s) = When(front[SurfaceOf(s)] = s, "front") \cup
            StackSet(todo, Ofs({"unpin"}, s))
        BY <1>1, TasksOnNow DEF Pins
      <3>5. front[SurfaceOf(s)] = s \/ StackSet(todo, Ofs({"unpin"}, s)) # {}
        BY <1>3, <3>3, <3>4 DEF When
      <3>6. CASE front[SurfaceOf(s)] = s
        <4>1. s # NoSlot BY SlotIs
        <4> QED BY <1>1, <2>2, <3>6, <4>1 DEF SlotSide, LivesOK
      <3>7. CASE StackSet(todo, Ofs({"unpin"}, s)) # {} BY <3>7, CleanedLives
      <3> QED BY <3>5, <3>6, <3>7
    <2> QED BY <2>3, <2>4
  <1> QED BY <1>2, <1>3

-----------------------------------------------------------------------------
(* The reference counts of slots, surfaces and requests are the numbers of *)
(* their owners, whatever thread is in the middle of a release             *)
(* (locked_fb_unref, surface_unref, kms_req_unref and all that call them). *)
THEOREM CountsAlwaysMatch == Spec => []CountsMatchOwners
  <1>1. ScanoutInv => CountsMatchOwners BY ScanoutCounts
  <1> QED BY <1>1, ScanoutCorrect, PTL

(* A slot that a composition or a request refers to is not handed out      *)
(* again and holds the image that was presented                            *)
(* (vk_gbm_render_surface_fill against releases).                          *)
THEOREM ImagesNeverReused == Spec => []ImagesStable
  <1>1. ScanoutInv => ImagesStable BY InvIs DEF SlotSide
  <1> QED BY <1>1, ScanoutCorrect, PTL

(* What the display shows is rendered, and no semaphore is signalled twice *)
(* without an export (present_fb).                                         *)
THEOREM DisplayAfterRender == Spec => []ScanoutAfterRender
  <1>1. ScanoutInv => ScanoutAfterRender BY InvIs DEF RenderedOK
  <1> QED BY <1>1, ScanoutCorrect, PTL

(* A slot back in the pool carries nothing over to its next user, and a    *)
(* slot in use has its surface (locked_fb_destroy against fill).           *)
THEOREM PoolClean == Spec => []CleanWhenFree
  <1>1. ScanoutInv => CleanWhenFree BY ScanoutClean
  <1> QED BY <1>1, ScanoutCorrect, PTL

(* A surface that a resize replaced lives until the last of its buffers    *)
(* has left Flutter, composition, mailbox and screen.                      *)
THEOREM SurfacesOutlive == Spec => []SurfaceOutlivesOwners
  <1>1. ScanoutInv => SurfaceOutlivesOwners BY ScanoutLives
  <1> QED BY <1>1, ScanoutCorrect, PTL
=============================================================================
