------------------------ MODULE ScanoutCommitProofs -------------------------
(***************************************************************************)
(* The inductive invariant of ScanoutBuffers, for any number of slots,     *)
(* surfaces and requests, and why every step of a frame request keeps it:  *)
(* its repaint, building, submission, commit, flip and release of the one  *)
(* before.  The steps of the slots, and the theorems, are in               *)
(* ScanoutBuffersProofs.                                                   *)
(***************************************************************************)
EXTENDS ScanoutBuffers, Integers, FiniteSetTheorems, FunctionTheorems, SequenceTheorems, TLAPS

Counted(n, S) == IsFiniteSet(S) /\ n = Cardinality(S)

-----------------------------------------------------------------------------
(* Counting.  T has k elements more than S, k also negative.               *)
More(S, T, k) == IsFiniteSet(S) => IsFiniteSet(T) /\ Cardinality(T) = Cardinality(S) + k

(* A count is a number.                                                    *)
LEMMA CountType == ASSUME NEW S, IsFiniteSet(S) PROVE Cardinality(S) \in Nat
  BY FS_CardinalityType

(* Counting T by counting S.                                               *)
LEMMA MoreCounted ==
  ASSUME NEW S, NEW T, NEW k \in Int, NEW n, Counted(n, S), More(S, T, k)
  PROVE Counted(n + k, T) /\ n \in Nat /\ n + k \in Nat
  BY CountType DEF Counted, More

(* A set has no more elements than itself.                                 *)
LEMMA MoreSame == ASSUME NEW S, NEW T, S = T PROVE More(S, T, 0)
  BY CountType DEF More

(* Differences of disjoint parts add up.                                   *)
LEMMA MoreJoin ==
  ASSUME NEW A, NEW B, NEW C, NEW D, NEW k \in Int, NEW l \in Int,
         More(A, B, k), More(C, D, l), A \cap C = {}, B \cap D = {}
  PROVE More(A \cup C, B \cup D, k + l)
  <1> SUFFICES ASSUME IsFiniteSet(A \cup C)
               PROVE IsFiniteSet(B \cup D) /\
                     Cardinality(B \cup D) = Cardinality(A \cup C) + (k + l)
    BY DEF More
  <1>1. IsFiniteSet(A) /\ IsFiniteSet(C)
    BY FS_Subset
  <1>2. IsFiniteSet(B) /\ IsFiniteSet(D) /\ Cardinality(B) = Cardinality(A) + k /\
        Cardinality(D) = Cardinality(C) + l
    BY <1>1 DEF More
  <1>3. Cardinality(A \cup C) = Cardinality(A) + Cardinality(C) - Cardinality({})
    BY <1>1, FS_Union
  <1>4. IsFiniteSet(B \cup D) /\
        Cardinality(B \cup D) = Cardinality(B) + Cardinality(D) - Cardinality({})
    BY <1>2, FS_Union
  <1>5. Cardinality({}) = 0
    BY FS_EmptySet
  <1>6. Cardinality(A) \in Nat /\ Cardinality(C) \in Nat
    BY <1>1, CountType
  <1> QED BY <1>2, <1>3, <1>4, <1>5, <1>6

(* Differences of successive steps add up.                                 *)
LEMMA MoreTrans ==
  ASSUME NEW A, NEW B, NEW C, NEW k \in Int, NEW l \in Int, More(A, B, k), More(B, C, l)
  PROVE More(A, C, k + l)
  BY CountType DEF More

(* A set of one element.                                                   *)
LEMMA CountOne == \A o : Counted(1, {o})
  BY FS_Singleton DEF Counted

(* The empty set.                                                          *)
LEMMA CountNone == Counted(0, {})
  BY FS_EmptySet DEF Counted

(* Elements of two sets that correspond to the same indices.               *)
LEMMA CountBijection ==
  ASSUME NEW S, NEW T, NEW n, NEW f \in Bijection(S, T), Counted(n, S)
  PROVE Counted(n, T)
  BY FS_Bijection, Fun_ExistsBij DEF Counted, ExistsBijection

(* Sets in bijection have as many elements.                                *)
LEMMA MoreBijection ==
  ASSUME NEW S, NEW T, NEW f \in Bijection(S, T)
  PROVE More(S, T, 0)
  <1>1. ASSUME IsFiniteSet(S) PROVE IsFiniteSet(T) /\ Cardinality(T) = Cardinality(S) + 0
    <2>1. ExistsBijection(S, T) BY DEF ExistsBijection
    <2> QED BY <1>1, <2>1, FS_Bijection, CountType
  <1> QED BY <1>1 DEF More

(* What makes a function a bijection.                                      *)
LEMMA BijectionIs ==
  ASSUME NEW S, NEW T, NEW f,
         f \in [S -> T],
         \A x, y \in S : f[x] = f[y] => x = y,
         \A z \in T : \E x \in S : f[x] = z
  PROVE f \in Bijection(S, T)
  BY DEF Bijection, Injection, Surjection, IsInjective

-----------------------------------------------------------------------------
(* The owners of the slots of one surface, F[s] for each slot s.           *)
Nested(I, F) == UNION {{<<"slot", s, o>> : o \in F[s]} : s \in I}
SlotToken(s, o) == <<"slot", s, o>>

(* The owners of the slots of a surface are the slots' owners, each with   *)
(* its slot.                                                               *)
LEMMA NestedIs ==
  ASSUME NEW I, NEW F
  PROVE /\ \A p : p \in Nested(I, F) <=> \E s \in I : \E o \in F[s] : p = SlotToken(s, o)
        /\ \A s \in I : \A o \in F[s] : SlotToken(s, o) \in Nested(I, F)
  BY DEF Nested, SlotToken

(* An owner's name tells the slot and the slot's owner.                    *)
LEMMA SlotTokenIs == \A s, t, o, q : SlotToken(s, o) = SlotToken(t, q) => s = t /\ o = q
  BY DEF SlotToken

(* The owners of one slot, named with the slot, are as many as without.    *)
LEMMA SliceCount ==
  ASSUME NEW s, NEW S
  PROVE More(S, {SlotToken(s, o) : o \in S}, 0)
  <1> DEFINE f == [o \in S |-> SlotToken(s, o)]
             T == {SlotToken(s, o) : o \in S}
  <1>1. f \in [S -> T] OBVIOUS
  <1>2. \A x, y \in S : f[x] = f[y] => x = y BY SlotTokenIs
  <1>3. \A z \in T : \E x \in S : f[x] = z OBVIOUS
  <1>4. f \in Bijection(S, T) BY <1>1, <1>2, <1>3, BijectionIs
  <1> QED BY <1>4, MoreBijection

(* ... and the other way round.                                            *)
LEMMA SliceBack ==
  ASSUME NEW s, NEW S
  PROVE More({SlotToken(s, o) : o \in S}, S, 0)
  <1> DEFINE T == {SlotToken(s, o) : o \in S}
             f == [p \in T |-> CHOOSE o \in S : p = SlotToken(s, o)]
  <1>0. \A o \in S : f[SlotToken(s, o)] = o
    <2> TAKE o \in S
    <2>1. \A q \in S : SlotToken(s, o) = SlotToken(s, q) <=> q = o BY SlotTokenIs
    <2>2. (CHOOSE q \in S : SlotToken(s, o) = SlotToken(s, q)) = o BY <2>1
    <2> QED BY <2>2
  <1> HIDE DEF f
  <1>1. f \in [T -> S] BY <1>0 DEF f
  <1>2. \A x, y \in T : f[x] = f[y] => x = y BY <1>0
  <1>3. \A z \in S : \E x \in T : f[x] = z BY <1>0
  <1>4. f \in Bijection(T, S) BY <1>1, <1>2, <1>3, BijectionIs
  <1> QED BY <1>4, MoreBijection

(* When one slot gets k owners more, so does its surface.                  *)
LEMMA NestedOne ==
  ASSUME NEW I, NEW F, NEW G, NEW s \in I, NEW k \in Int,
         \A r \in I \ {s} : F[r] = G[r], More(F[s], G[s], k)
  PROVE More(Nested(I, F), Nested(I, G), k)
  <1> DEFINE N(H) == Nested(I \ {s}, H)
             L(H) == {SlotToken(s, o) : o \in H[s]}
  <1>1. N(F) = N(G)
    BY DEF Nested
  <1>2. More(L(F), G[s], k)
    <2>1. More(L(F), F[s], 0) BY SliceBack
    <2> QED BY <2>1, MoreTrans, 0 + k = k
  <1>3. More(L(F), L(G), k)
    <2>1. More(G[s], L(G), 0) BY SliceCount
    <2> QED BY <1>2, <2>1, MoreTrans, k + 0 = k
  <1>4. ASSUME NEW H PROVE Nested(I, H) = N(H) \cup L(H) /\ N(H) \cap L(H) = {}
    <2>1. ASSUME NEW p
          PROVE  p \in N(H) <=> \E r \in I : r # s /\ \E o \in H[r] : p = SlotToken(r, o)
      BY DEF Nested, SlotToken
    <2>2. ASSUME NEW p
          PROVE  p \in Nested(I, H) <=> \E r \in I : \E o \in H[r] : p = SlotToken(r, o)
      BY NestedIs
    <2>3. ASSUME NEW p PROVE p \in L(H) <=> \E o \in H[s] : p = SlotToken(s, o)
      OBVIOUS
    <2> HIDE DEF N, L
    <2>4. \A p : p \in Nested(I, H) <=> p \in N(H) \/ p \in L(H)
      BY <2>1, <2>2, <2>3
    <2>5. \A p : ~(p \in N(H) /\ p \in L(H))
      BY <2>1, <2>3, SlotTokenIs
    <2> QED BY <2>4, <2>5
  <1>5. More(N(F), N(G), 0)
    <2> HIDE DEF N
    <2> QED BY <1>1, MoreSame
  <1> HIDE DEF N, L
  <1>6a. N(F) \cap L(F) = {} /\ N(G) \cap L(G) = {}
    BY <1>4
  <1>6. More(N(F) \cup L(F), N(G) \cup L(G), 0 + k)
    BY <1>3, <1>5, <1>6a, MoreJoin
  <1> QED BY <1>4, <1>6, 0 + k = k

(* When no slot's owners change in number, neither do those of the         *)
(* surface.                                                                *)
LEMMA NestedSame ==
  ASSUME NEW I, NEW F, NEW G, \A s \in I : More(F[s], G[s], 0)
  PROVE More(Nested(I, F), Nested(I, G), 0)
  <1> SUFFICES ASSUME IsFiniteSet(Nested(I, F)) PROVE More(Nested(I, F), Nested(I, G), 0)
    BY DEF More
  <1>1. ASSUME NEW s \in I PROVE ExistsBijection(F[s], G[s])
    <2>1. {SlotToken(s, o) : o \in F[s]} \subseteq Nested(I, F)
      BY NestedIs
    <2>2. IsFiniteSet({SlotToken(s, o) : o \in F[s]})
      BY <2>1, FS_Subset
    <2>3. IsFiniteSet(F[s])
      BY <2>2, SliceBack DEF More
    <2>4. IsFiniteSet(G[s]) /\ Cardinality(G[s]) = Cardinality(F[s]) + 0
      BY <2>3 DEF More
    <2> QED BY <2>3, <2>4, CountType, FS_SameCardinalityBij
  <1> DEFINE h == [s \in I |-> CHOOSE f : f \in Bijection(F[s], G[s])]
  <1>2. \A s \in I : h[s] \in Bijection(F[s], G[s])
    BY <1>1 DEF ExistsBijection
  <1> HIDE DEF h
  <1>3. \A s \in I : /\ h[s] \in [F[s] -> G[s]]
                     /\ \A x, y \in F[s] : h[s][x] = h[s][y] => x = y
                     /\ \A z \in G[s] : \E x \in F[s] : h[s][x] = z
    BY <1>2 DEF Bijection, Injection, Surjection, IsInjective
  <1> DEFINE P == Nested(I, F)
             Q == Nested(I, G)
             g == [p \in P |-> SlotToken(p[2], h[p[2]][p[3]])]
  <1>4. \A s \in I : \A o \in F[s] : g[SlotToken(s, o)] = SlotToken(s, h[s][o])
    <2> SUFFICES ASSUME NEW s \in I, NEW o \in F[s]
                 PROVE  g[SlotToken(s, o)] = SlotToken(s, h[s][o])
      OBVIOUS
    <2>1. SlotToken(s, o)[2] = s /\ SlotToken(s, o)[3] = o
      BY DEF SlotToken
    <2>2. SlotToken(s, o) \in P
      BY NestedIs
    <2> QED BY <2>1, <2>2
  <1>5. ASSUME NEW p \in P PROVE g[p] \in Q
    <2>1. PICK s \in I : \E o \in F[s] : p = SlotToken(s, o) BY NestedIs
    <2>1a. PICK o \in F[s] : p = SlotToken(s, o) BY <2>1
    <2>2. h[s][o] \in G[s] BY <1>3
    <2>3. SlotToken(s, h[s][o]) \in Q BY <2>2, NestedIs
    <2> QED BY <1>4, <2>1a, <2>3
  <1>6. ASSUME NEW x \in P, NEW y \in P, g[x] = g[y] PROVE x = y
    <2>1. PICK s \in I : \E o \in F[s] : x = SlotToken(s, o) BY NestedIs
    <2>1a. PICK o \in F[s] : x = SlotToken(s, o) BY <2>1
    <2>2. PICK t \in I : \E q \in F[t] : y = SlotToken(t, q) BY NestedIs
    <2>2a. PICK q \in F[t] : y = SlotToken(t, q) BY <2>2
    <2>3. SlotToken(s, h[s][o]) = SlotToken(t, h[t][q]) BY <1>4, <1>6, <2>1a, <2>2a
    <2>4. s = t /\ h[s][o] = h[t][q] BY <2>3, SlotTokenIs
    <2>5. o = q BY <1>3, <2>4
    <2> QED BY <2>1a, <2>2a, <2>4, <2>5
  <1>7. ASSUME NEW z \in Q PROVE \E x \in P : g[x] = z
    <2>1. PICK s \in I : \E o \in G[s] : z = SlotToken(s, o) BY NestedIs
    <2>1a. PICK o \in G[s] : z = SlotToken(s, o) BY <2>1
    <2>2. PICK q \in F[s] : h[s][q] = o BY <1>3
    <2>3. g[SlotToken(s, q)] = z BY <1>4, <2>1a, <2>2
    <2> QED BY <2>3, NestedIs
  <1>8. g \in [P -> Q]
    <2>1. g = [p \in P |-> g[p]] OBVIOUS
    <2> HIDE DEF g
    <2> QED BY <1>5, <2>1
  <1> HIDE DEF g
  <1>9. g \in Bijection(P, Q)
    BY <1>6, <1>7, <1>8, BijectionIs
  <1> QED BY <1>9, MoreBijection

Stacks == [Threads -> Seq(Tasks)]
Has(stk, t, d) == d \in 0 .. Len(stk[t]) - 1
TaskAt(stk, t, d) == stk[t][Len(stk[t]) - d]
Tok(t, d) == <<"task", t, d>>
StackSet(stk, K) ==
    {Tok(p[1], p[2]) : p \in {q \in Threads \X Nat :
        Has(stk, q[1], q[2]) /\ TaskAt(stk, q[1], q[2]) \in K}}

Ofs(ops, s) == {k \in Tasks : k.op \in ops /\ k.slot = s}
OfReq(ops, r) == {k \in Tasks : k.op \in ops /\ k.req = r}
OfOps(ops) == {k \in Tasks : k.op \in ops}

(* Thread t replaces what is above depth m by tasks.                       *)
Stepped(stk, new, t, m, tasks) ==
    /\ stk \in Stacks /\ new \in Stacks /\ t \in Threads
    /\ tasks \in Seq(Tasks) /\ m \in 0 .. Len(stk[t])
    /\ \A u \in Threads \ {t} : new[u] = stk[u]
    /\ Len(new[t]) = m + Len(tasks)
    /\ \A d \in 0 .. m - 1 : TaskAt(new, t, d) = TaskAt(stk, t, d)
    /\ \A i \in 1 .. Len(tasks) : TaskAt(new, t, m + Len(tasks) - i) = tasks[i]

-----------------------------------------------------------------------------
(* The stack of a thread, and the task at a depth of it.                   *)
LEMMA StackType ==
  ASSUME NEW stk \in Stacks, NEW t \in Threads
  PROVE /\ stk[t] \in Seq(Tasks) /\ Len(stk[t]) \in Nat
        /\ \A d : Has(stk, t, d) =>
           /\ d \in Nat /\ d < Len(stk[t]) /\ TaskAt(stk, t, d) \in Tasks
                                    /\ Len(stk[t]) - d \in 1 .. Len(stk[t])
  <1>1. stk[t] \in Seq(Tasks) BY DEF Stacks
  <1>2. Len(stk[t]) \in Nat BY <1>1
  <1> QED BY <1>1, <1>2 DEF Has, TaskAt

(* Replacing the head of a list by other elements, depth by depth.         *)
LEMMA JoinedIs ==
  ASSUME NEW S, NEW q \in Seq(S), q # <<>>, NEW a \in Seq(S), NEW r, r = a \o Tail(q),
         NEW n, n = Len(a), NEW L, L = Len(q) - 1
  PROVE /\ r \in Seq(S) /\ Len(r) = n + L /\ n \in Nat /\ L \in Nat /\ Len(q) = L + 1
        /\ \A i \in 1 .. n : r[n + L - (L + n - i)] = a[i]
        /\ \A d \in 0 .. L - 1 : r[n + L - d] = q[Len(q) - d]
  <1>1. Tail(q) \in Seq(S) /\ Len(Tail(q)) = L /\ \A i \in 1 .. L : Tail(q)[i] = q[i + 1]
    BY EmptySeq
  <1>2. n \in Nat /\ L \in Nat /\ Len(q) = L + 1
    BY EmptySeq
  <1>3. r \in Seq(S) /\ Len(r) = n + L
    BY <1>1
  <1>4. \A i \in 1 .. n : r[i] = a[i]
    BY <1>1
  <1>5. \A i \in n + 1 .. n + L : r[i] = Tail(q)[i - n]
    BY <1>1
  <1>6. ASSUME NEW i \in 1 .. n PROVE r[n + L - (L + n - i)] = a[i]
    <2>1. n + L - (L + n - i) = i BY <1>2
    <2>2. r[i] = a[i] BY <1>4
    <2> QED BY <2>1, <2>2
  <1>7. ASSUME NEW d \in 0 .. L - 1 PROVE r[n + L - d] = q[Len(q) - d]
    <2>1. n + L - d \in n + 1 .. n + L /\ n + L - d - n = L - d /\ L - d \in 1 .. L /\
          L - d + 1 = L + 1 - d
      BY <1>2
    <2>2. r[n + L - d] = Tail(q)[L - d]
      <3> DEFINE i == n + L - d
      <3>1. i \in n + 1 .. n + L /\ i - n = L - d BY <2>1
      <3>2. r[i] = Tail(q)[i - n] BY <1>5, <3>1
      <3> QED BY <3>1, <3>2
    <2>3. Tail(q)[L - d] = q[L - d + 1] BY <1>1, <2>1
    <2> QED BY <1>2, <2>1, <2>2, <2>3
  <1> QED BY <1>2, <1>3, <1>6, <1>7

(* Then replaces the task at the top.                                      *)
LEMMA ThenStepped ==
  ASSUME NEW stk \in Stacks, NEW t \in Threads, stk[t] # <<>>, NEW tasks \in Seq(Tasks),
         NEW new, new = [stk EXCEPT ![t] = tasks \o Tail(@)]
  PROVE Stepped(stk, new, t, Len(stk[t]) - 1, tasks)
  <1> DEFINE r == tasks \o Tail(stk[t])
             L == Len(stk[t]) - 1
  <1>1. stk[t] \in Seq(Tasks)
    BY DEF Stacks
  <1>2. /\ r \in Seq(Tasks) /\ Len(r) = Len(tasks) + L /\ Len(tasks) \in Nat /\ L \in Nat /\
           Len(stk[t]) = L + 1
        /\ \A i \in 1 .. Len(tasks) : r[Len(tasks) + L - (L + Len(tasks) - i)] = tasks[i]
        /\ \A d \in 0 .. L - 1 : r[Len(tasks) + L - d] = stk[t][Len(stk[t]) - d]
    BY <1>1, JoinedIs
  <1>3. new[t] = r /\ \A u \in Threads \ {t} : new[u] = stk[u]
    BY DEF Stacks
  <1>4. new \in Stacks
    BY <1>2 DEF Stacks
  <1> HIDE DEF r, L
  <1>5. L \in 0 .. Len(stk[t]) /\ Len(tasks) + L = L + Len(tasks)
    BY <1>2
  <1>6. \A d \in 0 .. L - 1 : TaskAt(new, t, d) = TaskAt(stk, t, d)
    BY <1>2, <1>3 DEF TaskAt
  <1>7. \A i \in 1 .. Len(tasks) : TaskAt(new, t, L + Len(tasks) - i) = tasks[i]
    BY <1>2, <1>3 DEF TaskAt
  <1>8. Len(new[t]) = L + Len(tasks)
    BY <1>2, <1>3, <1>5
  <1>9. Stepped(stk, new, t, L, tasks)
    BY <1>3, <1>4, <1>5, <1>6, <1>7, <1>8 DEF Stepped
  <1> QED BY <1>9 DEF L

(* A thread that starts anew gets just its new tasks.                      *)
LEMMA StartStepped ==
  ASSUME NEW stk \in Stacks, NEW t \in Threads, NEW tasks \in Seq(Tasks),
         NEW new, new = [stk EXCEPT ![t] = tasks]
  PROVE Stepped(stk, new, t, 0, tasks)
  <1>1. new[t] = tasks /\ \A u \in Threads \ {t} : new[u] = stk[u]
    BY DEF Stacks
  <1>2. new \in Stacks
    BY DEF Stacks
  <1>3. Len(stk[t]) \in Nat /\ Len(tasks) \in Nat
    BY StackType
  <1>4. \A i \in 1 .. Len(tasks) : TaskAt(new, t, 0 + Len(tasks) - i) = tasks[i]
    <2> TAKE i \in 1 .. Len(tasks)
    <2>1. Len(tasks) - (0 + Len(tasks) - i) = i BY <1>3
    <2> QED BY <1>1, <2>1 DEF TaskAt
  <1>5. \A d \in 0 .. 0 - 1 : TaskAt(new, t, d) = TaskAt(stk, t, d)
    OBVIOUS
  <1>6. Len(new[t]) = 0 + Len(tasks) /\ 0 \in 0 .. Len(stk[t])
    BY <1>1, <1>3
  <1> QED BY <1>1, <1>2, <1>4, <1>5, <1>6 DEF Stepped

-----------------------------------------------------------------------------
(* A task's name tells its thread and depth.                               *)
LEMMA TokIs == \A t, d, u, e : Tok(t, d) = Tok(u, e) => t = u /\ d = e
  BY DEF Tok

(* The names of the tasks in K.                                            *)
LEMMA StackSetIs ==
  ASSUME NEW stk, NEW K
  PROVE \A x : x \in StackSet(stk, K) <=>
           \E t \in Threads :
             \E d \in Nat : x = Tok(t, d) /\ Has(stk, t, d) /\ TaskAt(stk, t, d) \in K
  <1> TAKE x
  <1>1. ASSUME x \in StackSet(stk, K)
        PROVE \E t \in Threads :
              \E d \in Nat : x = Tok(t, d) /\ Has(stk, t, d) /\ TaskAt(stk, t, d) \in K
    BY <1>1 DEF StackSet
  <1>2. ASSUME NEW t \in Threads, NEW d \in Nat, x = Tok(t, d), Has(stk, t, d),
               TaskAt(stk, t, d) \in K
        PROVE x \in StackSet(stk, K)
    <2>1. <<t, d>> \in Threads \X Nat /\ <<t, d>>[1] = t /\ <<t, d>>[2] = d
      OBVIOUS
    <2> QED BY <1>2, <2>1 DEF StackSet
  <1> QED BY <1>1, <1>2

(* Whether a task's name is among those of K.                              *)
LEMMA TokIn ==
  ASSUME NEW stk, NEW K, NEW t \in Threads, NEW d
  PROVE Tok(t, d) \in StackSet(stk, K) <=>
        d \in Nat /\ Has(stk, t, d) /\ TaskAt(stk, t, d) \in K
  BY StackSetIs, TokIs

(* What a step leaves alone and what it puts down.                         *)
LEMMA SteppedTasks ==
  ASSUME NEW stk, NEW new, NEW t, NEW m, NEW tasks, Stepped(stk, new, t, m, tasks)
  PROVE /\ m \in Nat /\ Len(tasks) \in Nat /\ t \in Threads /\ new \in Stacks /\ stk \in Stacks
        /\ \A u \in Threads : \A d \in Nat : u # t =>
              (Has(new, u, d) <=> Has(stk, u, d)) /\ TaskAt(new, u, d) = TaskAt(stk, u, d)
        /\ \A d \in Nat : d < m =>
              Has(new, t, d) /\ Has(stk, t, d) /\ TaskAt(new, t, d) = TaskAt(stk, t, d)
        /\ \A d \in Nat : d >= m /\ Has(new, t, d) =>
              m + Len(tasks) - d \in 1 .. Len(tasks) /\
                TaskAt(new, t, d) = tasks[m + Len(tasks) - d]
        /\ \A i \in 1 .. Len(tasks) :
              /\ m + Len(tasks) - i \in Nat /\ m + Len(tasks) - i >= m
              /\ Has(new, t, m + Len(tasks) - i)
              /\ TaskAt(new, t, m + Len(tasks) - i) = tasks[i]
  <1>1. stk \in Stacks /\ new \in Stacks /\ t \in Threads /\ tasks \in Seq(Tasks) /\
        m \in 0 .. Len(stk[t])
    BY DEF Stepped
  <1>2. m \in Nat /\ Len(tasks) \in Nat /\ Len(stk[t]) \in Nat /\ m <= Len(stk[t])
    BY <1>1, StackType
  <1>3. Len(new[t]) = m + Len(tasks)
    BY DEF Stepped
  <1>4. \A u \in Threads : \A d \in Nat : u # t =>
              (Has(new, u, d) <=> Has(stk, u, d)) /\ TaskAt(new, u, d) = TaskAt(stk, u, d)
    BY DEF Stepped, Has, TaskAt
  <1>5. \A d \in Nat : d < m =>
              Has(new, t, d) /\ Has(stk, t, d) /\ TaskAt(new, t, d) = TaskAt(stk, t, d)
    <2> TAKE d \in Nat
    <2> HAVE d < m
    <2>1. d \in 0 .. m - 1 /\ d \in 0 .. (m + Len(tasks)) - 1 /\ d \in 0 .. Len(stk[t]) - 1
      BY <1>2
    <2> QED BY <1>3, <2>1 DEF Stepped, Has
  <1>6. \A i \in 1 .. Len(tasks) :
              /\ m + Len(tasks) - i \in Nat /\ m + Len(tasks) - i >= m
              /\ Has(new, t, m + Len(tasks) - i)
              /\ TaskAt(new, t, m + Len(tasks) - i) = tasks[i]
    <2> TAKE i \in 1 .. Len(tasks)
    <2>1. m + Len(tasks) - i \in Nat /\ m + Len(tasks) - i >= m /\
          m + Len(tasks) - i \in 0 .. (m + Len(tasks)) - 1
      BY <1>2
    <2> QED BY <1>3, <2>1 DEF Stepped, Has
  <1>7. \A d \in Nat : d >= m /\ Has(new, t, d) =>
              m + Len(tasks) - d \in 1 .. Len(tasks) /\
                TaskAt(new, t, d) = tasks[m + Len(tasks) - d]
    <2> TAKE d \in Nat
    <2> HAVE d >= m /\ Has(new, t, d)
    <2>1. d \in 0 .. (m + Len(tasks)) - 1
      BY <1>3 DEF Has
    <2>2. m + Len(tasks) - d \in 1 .. Len(tasks) /\ m + Len(tasks) - (m + Len(tasks) - d) = d
      BY <1>2, <2>1
    <2> QED BY <1>6, <2>2
  <1> QED BY <1>1, <1>2, <1>4, <1>5, <1>6, <1>7

(* The tasks that a step takes away, and those in K that it puts down.     *)
Above(stk, t, m, K) == {d \in Nat : d >= m /\ Has(stk, t, d) /\ TaskAt(stk, t, d) \in K}
Among(tasks, K) == {i \in 1 .. Len(tasks) : tasks[i] \in K}

(* The tasks in K after a step: those before, without what it takes away,  *)
(* and what it puts down.                                                  *)
LEMMA StackSetStep ==
  ASSUME NEW stk, NEW new, NEW t, NEW m, NEW tasks, Stepped(stk, new, t, m, tasks), NEW K
  PROVE \A x : x \in StackSet(new, K) <=>
           \/ x \in StackSet(stk, K) /\ \A d \in Above(stk, t, m, K) : x # Tok(t, d)
           \/ \E i \in Among(tasks, K) : x = Tok(t, m + Len(tasks) - i)
  <1> TAKE x
  <1>0. m \in Nat /\ t \in Threads BY SteppedTasks
  <1>1. ASSUME x \in StackSet(new, K)
        PROVE \/ x \in StackSet(stk, K) /\ \A d \in Above(stk, t, m, K) : x # Tok(t, d)
              \/ \E i \in Among(tasks, K) : x = Tok(t, m + Len(tasks) - i)
    <2>1. PICK u \in Threads :
          \E d \in Nat : x = Tok(u, d) /\ Has(new, u, d) /\ TaskAt(new, u, d) \in K
      BY <1>1, StackSetIs
    <2>2. PICK d \in Nat : x = Tok(u, d) /\ Has(new, u, d) /\ TaskAt(new, u, d) \in K
      BY <2>1
    <2>3. CASE u # t
      <3>1. Has(stk, u, d) /\ TaskAt(stk, u, d) \in K BY <2>2, <2>3, SteppedTasks
      <3>2. x \in StackSet(stk, K) BY <2>2, <3>1, StackSetIs
      <3> QED BY <2>2, <2>3, <3>2, TokIs
    <2>4. CASE u = t /\ d < m
      <3>1. Has(stk, u, d) /\ TaskAt(stk, u, d) \in K BY <2>2, <2>4, SteppedTasks
      <3>2. x \in StackSet(stk, K) BY <2>2, <3>1, StackSetIs
      <3>3. \A e \in Above(stk, t, m, K) : d # e BY <1>0, <2>4 DEF Above
      <3> QED BY <2>2, <3>2, <3>3, TokIs
    <2>5. CASE u = t /\ d >= m
      <3>1. m + Len(tasks) - d \in 1 .. Len(tasks) /\
            TaskAt(new, t, d) = tasks[m + Len(tasks) - d]
        BY <2>2, <2>5, SteppedTasks
      <3>2. m + Len(tasks) - d \in Among(tasks, K)
        BY <2>2, <2>5, <3>1 DEF Among
      <3>3. Len(tasks) \in Nat BY SteppedTasks
      <3>4. m + Len(tasks) - (m + Len(tasks) - d) = d BY <1>0, <3>3
      <3> QED BY <2>2, <2>5, <3>2, <3>4
    <2> QED BY <1>0, <2>3, <2>4, <2>5
  <1>2. ASSUME x \in StackSet(stk, K), \A d \in Above(stk, t, m, K) : x # Tok(t, d)
        PROVE x \in StackSet(new, K)
    <2>1. PICK u \in Threads :
          \E d \in Nat : x = Tok(u, d) /\ Has(stk, u, d) /\ TaskAt(stk, u, d) \in K
      BY <1>2, StackSetIs
    <2>2. PICK d \in Nat : x = Tok(u, d) /\ Has(stk, u, d) /\ TaskAt(stk, u, d) \in K
      BY <2>1
    <2>3. u # t \/ d < m
      <3>1. u = t => d \notin Above(stk, t, m, K) BY <1>2, <2>2
      <3>2. u = t => ~(d >= m) BY <2>2, <3>1 DEF Above
      <3> QED BY <1>0, <3>2
    <2>4. Has(new, u, d) /\ TaskAt(new, u, d) \in K BY <2>2, <2>3, SteppedTasks
    <2> QED BY <2>2, <2>4, StackSetIs
  <1>3. ASSUME NEW i \in Among(tasks, K), x = Tok(t, m + Len(tasks) - i)
        PROVE x \in StackSet(new, K)
    <2>1. i \in 1 .. Len(tasks) /\ tasks[i] \in K BY DEF Among
    <2>2. m + Len(tasks) - i \in Nat /\ Has(new, t, m + Len(tasks) - i) /\
          TaskAt(new, t, m + Len(tasks) - i) \in K
      BY <2>1, SteppedTasks, SMTT(30)
    <2> QED BY <1>0, <1>3, <2>2, StackSetIs
  <1> QED BY <1>1, <1>2, <1>3

(* A step that neither takes away nor puts down tasks in K.                *)
LEMMA StackSetQuiet ==
  ASSUME NEW stk, NEW new, NEW t, NEW m, NEW tasks, Stepped(stk, new, t, m, tasks), NEW K,
         Above(stk, t, m, K) = {}, Among(tasks, K) = {}
  PROVE StackSet(new, K) = StackSet(stk, K)
  <1>1. \A x : x \in StackSet(new, K) <=> x \in StackSet(stk, K)
    BY StackSetStep
  <1> QED BY <1>1

(* How many more tasks in K there are after a step.                        *)
LEMMA StackSetMore ==
  ASSUME NEW stk, NEW new, NEW t, NEW m, NEW tasks, Stepped(stk, new, t, m, tasks), NEW K,
         NEW g, Counted(g, Above(stk, t, m, K)), NEW j, Counted(j, Among(tasks, K))
  PROVE g \in Nat /\ j \in Nat /\ More(StackSet(stk, K), StackSet(new, K), j - g)
  <1> DEFINE G == Above(stk, t, m, K)
             J == Among(tasks, K)
             GT == {Tok(t, d) : d \in G}
             JT == {Tok(t, m + Len(tasks) - i) : i \in J}
             S == StackSet(stk, K)
             N == StackSet(new, K)
  <1>0. m \in Nat /\ t \in Threads /\ Len(tasks) \in Nat BY SteppedTasks
  <1>1. g \in Nat /\ j \in Nat BY CountType DEF Counted
  <1>2. Counted(g, GT)
    <2> DEFINE f == [d \in G |-> Tok(t, d)]
    <2>1. f \in [G -> GT] OBVIOUS
    <2>2. \A x, y \in G : f[x] = f[y] => x = y BY TokIs
    <2>3. \A z \in GT : \E x \in G : f[x] = z OBVIOUS
    <2>4. f \in Bijection(G, GT) BY <2>1, <2>2, <2>3, BijectionIs
    <2> HIDE DEF f, G, GT
    <2> QED BY <2>4, CountBijection DEF G
  <1>3. Counted(j, JT)
    <2> DEFINE f == [i \in J |-> Tok(t, m + Len(tasks) - i)]
    <2>1. f \in [J -> JT] OBVIOUS
    <2>2. ASSUME NEW x \in J, NEW y \in J, f[x] = f[y] PROVE x = y
      <3>1. m + Len(tasks) - x = m + Len(tasks) - y BY <2>2, TokIs
      <3>2. x \in Nat /\ y \in Nat BY DEF Among
      <3> QED BY <1>0, <3>1, <3>2
    <2>3. \A z \in JT : \E x \in J : f[x] = z OBVIOUS
    <2>4. f \in Bijection(J, JT) BY <2>1, <2>2, <2>3, BijectionIs
    <2> HIDE DEF f, J, JT
    <2> QED BY <2>4, CountBijection DEF J
  <1>4. GT \subseteq S
    BY <1>0, TokIn DEF Above
  <1>5. \A x : x \in N <=> (x \in S /\ x \notin GT) \/ x \in JT
    <2>1. \A x : x \in GT <=> \E d \in G : x = Tok(t, d) OBVIOUS
    <2>2. \A x : x \in JT <=> \E i \in J : x = Tok(t, m + Len(tasks) - i) OBVIOUS
    <2>3. \A x : x \in N <=> \/ x \in S /\ \A d \in G : x # Tok(t, d)
                             \/ \E i \in J : x = Tok(t, m + Len(tasks) - i)
      BY StackSetStep
    <2> HIDE DEF G, J, S, N, GT, JT
    <2> QED BY <2>1, <2>2, <2>3
  <1>6. \A x : ~(x \in JT /\ x \in S /\ x \notin GT)
    <2> SUFFICES ASSUME NEW i \in J, Tok(t, m + Len(tasks) - i) \in S
                 PROVE  Tok(t, m + Len(tasks) - i) \in GT
      OBVIOUS
    <2> DEFINE d == m + Len(tasks) - i
    <2>1. d \in Nat /\ d >= m
      <3>1. i \in 1 .. Len(tasks) BY DEF Among
      <3> QED BY <1>0, <3>1
    <2>2. Has(stk, t, d) /\ TaskAt(stk, t, d) \in K
      BY <1>0, TokIn
    <2>3. d \in G
      BY <2>1, <2>2 DEF Above
    <2> QED BY <2>3
  <1> HIDE DEF GT, JT, S, N
  <1>7. N = (S \ GT) \cup JT /\ (S \ GT) \cap JT = {}
    BY <1>5, <1>6
  <1>8. ASSUME IsFiniteSet(S) PROVE IsFiniteSet(N) /\ Cardinality(N) = Cardinality(S) + (j - g)
    <2>1. S \cap GT = GT
      BY <1>4
    <2>2. IsFiniteSet(S \ GT) /\ Cardinality(S \ GT) = Cardinality(S) - g
      BY <1>2, <1>8, <2>1, FS_Difference DEF Counted
    <2>3. IsFiniteSet(N) /\
          Cardinality(N) = Cardinality(S \ GT) + Cardinality(JT) - Cardinality({})
      BY <1>3, <1>7, <2>2, FS_Union DEF Counted
    <2>4. Cardinality({}) = 0 /\ Cardinality(JT) = j /\ Cardinality(S) \in Nat
      BY <1>3, <1>8, FS_EmptySet, CountType DEF Counted
    <2> QED BY <1>1, <2>2, <2>3, <2>4
  <1> QED BY <1>1, <1>8 DEF More, S, N

One(p) == IF p THEN 1 ELSE 0

(* No task put down.                                                       *)
LEMMA AmongNone == ASSUME NEW K PROVE Counted(0, Among(<<>>, K))
  <1>1. Among(<<>>, K) = {} BY DEF Among
  <1> QED BY <1>1, CountNone

(* One task put down.                                                      *)
LEMMA AmongOne == ASSUME NEW K, NEW a PROVE Counted(One(a \in K), Among(<<a>>, K))
  <1>1. Among(<<a>>, K) = IF a \in K THEN {1} ELSE {} BY DEF Among
  <1> QED BY <1>1, CountNone, CountOne DEF One

(* Two tasks put down.                                                     *)
LEMMA AmongTwo ==
  ASSUME NEW K, NEW a, NEW b
  PROVE Counted(One(a \in K) + One(b \in K), Among(<<a, b>>, K))
  <1>1. Among(<<a, b>>, K) = {i \in {1, 2} : <<a, b>>[i] \in K} BY DEF Among
  <1>2. Counted(2, {1, 2})
    <2>1. IsFiniteSet({1}) /\ Cardinality({1}) = 1 BY CountOne DEF Counted
    <2>2. IsFiniteSet({1} \cup {2}) /\ Cardinality({1} \cup {2}) = 2 BY <2>1, FS_AddElement
    <2>3. {1} \cup {2} = {1, 2} OBVIOUS
    <2> QED BY <2>2, <2>3 DEF Counted
  <1>3. CASE a \in K /\ b \in K
    <2>1. Among(<<a, b>>, K) = {1, 2} BY <1>1, <1>3
    <2> QED BY <1>2, <1>3, <2>1 DEF One
  <1>4. CASE a \in K /\ b \notin K
    <2>0. <<a, b>>[1] \in K /\ <<a, b>>[2] \notin K BY <1>4
    <2>1. Among(<<a, b>>, K) = {1} BY <1>1, <2>0
    <2>2. One(a \in K) + One(b \in K) = 1 BY <1>4 DEF One
    <2> QED BY CountOne, <2>1, <2>2
  <1>5. CASE a \notin K /\ b \in K
    <2>1. Among(<<a, b>>, K) = {2} BY <1>1, <1>5
    <2> QED BY CountOne, <1>5, <2>1 DEF One
  <1>6. CASE a \notin K /\ b \notin K
    <2>1. Among(<<a, b>>, K) = {} BY <1>1, <1>6
    <2> QED BY CountNone, <1>6, <2>1 DEF One
  <1> QED BY <1>3, <1>4, <1>5, <1>6

(* A longer list, of which all but one task is of no interest.             *)
LEMMA AmongJust ==
  ASSUME NEW K, NEW tasks, NEW i \in 1 .. Len(tasks),
         \A j \in 1 .. Len(tasks) : tasks[j] \in K => j = i
  PROVE Counted(One(tasks[i] \in K), Among(tasks, K))
  <1>1. Among(tasks, K) = IF tasks[i] \in K THEN {i} ELSE {} BY DEF Among
  <1> QED BY <1>1, CountNone, CountOne DEF One

(* Tasks put down of which none is of interest.                            *)
LEMMA AmongNot ==
  ASSUME NEW K, NEW tasks, \A j \in 1 .. Len(tasks) : tasks[j] \notin K
  PROVE Counted(0, Among(tasks, K)) /\ Among(tasks, K) = {}
  <1>1. Among(tasks, K) = {} BY DEF Among
  <1> QED BY <1>1, CountNone

(* The task that a step of t handles is the top of its stack.              *)
LEMMA TopIs ==
  ASSUME NEW stk \in Stacks, NEW t \in Threads, stk[t] # <<>>
  PROVE /\ Len(stk[t]) - 1 \in Nat /\ Has(stk, t, Len(stk[t]) - 1)
        /\ TaskAt(stk, t, Len(stk[t]) - 1) = Head(stk[t]) /\ Head(stk[t]) \in Tasks
  <1>1. stk[t] \in Seq(Tasks) BY DEF Stacks
  <1>2. Len(stk[t]) \in Nat /\ Len(stk[t]) # 0 /\ Head(stk[t]) = stk[t][1] /\
        Head(stk[t]) \in Tasks
    BY <1>1, EmptySeq
  <1>3. Len(stk[t]) - (Len(stk[t]) - 1) = 1 BY <1>2
  <1> QED BY <1>2, <1>3 DEF Has, TaskAt

(* A step of the top task takes away just that.                            *)
LEMMA AbovePop ==
  ASSUME NEW stk \in Stacks, NEW t \in Threads, stk[t] # <<>>, NEW K
  PROVE /\ Counted(One(Head(stk[t]) \in K), Above(stk, t, Len(stk[t]) - 1, K))
        /\ Head(stk[t]) \notin K => Above(stk, t, Len(stk[t]) - 1, K) = {}
  <1> DEFINE m == Len(stk[t]) - 1
  <1>1. m \in Nat /\ Has(stk, t, m) /\ TaskAt(stk, t, m) = Head(stk[t]) BY TopIs
  <1>2. \A d \in Nat : d >= m /\ Has(stk, t, d) => d = m BY <1>1 DEF Has
  <1>3. Above(stk, t, m, K) = IF Head(stk[t]) \in K THEN {m} ELSE {} BY <1>1, <1>2 DEF Above
  <1> QED BY <1>3, CountNone, CountOne DEF One

(* A step of an idle thread takes away nothing.                            *)
LEMMA AboveIdle ==
  ASSUME NEW stk, NEW t, stk[t] = <<>>, NEW m, NEW K
  PROVE Above(stk, t, m, K) = {} /\ Counted(0, Above(stk, t, m, K))
  <1>1. Above(stk, t, m, K) = {} BY DEF Above, Has
  <1> QED BY <1>1, CountNone

-----------------------------------------------------------------------------
(* Names of owners.                                                        *)
Named(S, names) == \A x \in S : x[1] \in names

(* Sets of owners with different names are disjoint.                       *)
LEMMA Apart ==
  ASSUME NEW A, NEW B, NEW X, NEW Y, Named(A, X), Named(B, Y), X \cap Y = {}
  PROVE  A \cap B = {}
  BY DEF Named

(* The names in a union.                                                   *)
LEMMA NamedJoin ==
  ASSUME NEW A, NEW B, NEW X, NEW Y, Named(A, X), Named(B, Y)
  PROVE Named(A \cup B, X \cup Y)
  BY DEF Named

(* The name of an owner there is or is not.                                *)
LEMMA NamedWhen == ASSUME NEW p, NEW name PROVE Named(When(p, name), {name})
  BY DEF Named, When

(* The names of the layers of a composition or request.                    *)
LEMMA NamedLayers ==
  ASSUME NEW name, NEW n, NEW seq, NEW s
  PROVE  Named(LayersOn(name, n, seq, s), {name})
  BY DEF Named, LayersOn

(* The name of the tasks.                                                  *)
LEMMA NamedStack == ASSUME NEW stk, NEW K PROVE Named(StackSet(stk, K), {"task"})
  BY DEF Named, StackSet, Tok

(* An owner that comes or goes.                                            *)
LEMMA WhenMore ==
  ASSUME NEW p, NEW q, NEW name
  PROVE More(When(p, name), When(q, name), One(q) - One(p)) /\ One(q) - One(p) \in Int
  <1>1. IsFiniteSet(When(p, name)) /\ Cardinality(When(p, name)) = One(p)
    BY CountOne, CountNone DEF When, One, Counted
  <1>2. IsFiniteSet(When(q, name)) /\ Cardinality(When(q, name)) = One(q)
    BY CountOne, CountNone DEF When, One, Counted
  <1>3. One(p) \in Nat /\ One(q) \in Nat BY DEF One
  <1> QED BY <1>1, <1>2, <1>3 DEF More

(* The indices of a sequence of layers at which slot s is.                 *)
IndicesOn(seq, s) == {j \in DOMAIN seq : seq[j].slot = s}

(* The layers at which a slot is are finitely many.                        *)
LEMMA IndicesCount ==
  ASSUME NEW X, NEW seq \in Seq(X), NEW s
  PROVE Counted(Cardinality(IndicesOn(seq, s)), IndicesOn(seq, s)) /\
        Cardinality(IndicesOn(seq, s)) \in Nat
  <1>1. DOMAIN seq = 1 .. Len(seq) /\ Len(seq) \in Nat OBVIOUS
  <1>2. IsFiniteSet(1 .. Len(seq)) BY <1>1, FS_Interval
  <1>3. IndicesOn(seq, s) \subseteq 1 .. Len(seq) BY <1>1 DEF IndicesOn
  <1>4. IsFiniteSet(IndicesOn(seq, s)) BY <1>2, <1>3, FS_Subset
  <1> QED BY <1>4, CountType DEF Counted

(* As many owners as layers at which the slot is.                          *)
LEMMA LayersCount ==
  ASSUME NEW name, NEW m, NEW seq, NEW s, NEW n, Counted(n, IndicesOn(seq, s))
  PROVE Counted(n, LayersOn(name, m, seq, s))
  <1> DEFINE J == IndicesOn(seq, s)
             T == LayersOn(name, m, seq, s)
             f == [i \in J |-> <<name, m, i>>]
  <1>1. f \in [J -> T] BY DEF LayersOn, IndicesOn
  <1>2. \A x, y \in J : f[x] = f[y] => x = y OBVIOUS
  <1>3. \A z \in T : \E x \in J : f[x] = z BY DEF LayersOn, IndicesOn
  <1>4. f \in Bijection(J, T) BY <1>1, <1>2, <1>3, BijectionIs
  <1> HIDE DEF f, J, T
  <1> QED BY <1>4, CountBijection DEF J, T

(* A list of layers replaced by another.                                   *)
LEMMA LayersMore ==
  ASSUME NEW name, NEW m, NEW seq, NEW new, NEW s, NEW k, NEW l,
         Counted(k, IndicesOn(seq, s)), Counted(l, IndicesOn(new, s))
  PROVE More(LayersOn(name, m, seq, s), LayersOn(name, m, new, s), l - k) /\ l - k \in Int
  <1>1. k \in Nat /\ l \in Nat BY CountType DEF Counted
  <1>2. Counted(k, LayersOn(name, m, seq, s)) /\ Counted(l, LayersOn(name, m, new, s))
    BY LayersCount
  <1> QED BY <1>1, <1>2 DEF More, Counted

(* No layers.                                                              *)
LEMMA IndicesNone == ASSUME NEW s PROVE Counted(0, IndicesOn(<<>>, s))
  <1>1. IndicesOn(<<>>, s) = {} BY DEF IndicesOn
  <1> QED BY <1>1, CountNone

(* One layer more.                                                         *)
LEMMA IndicesAppend ==
  ASSUME NEW X, NEW seq \in Seq(X), NEW l \in X, NEW s, NEW n, Counted(n, IndicesOn(seq, s))
  PROVE Counted(n + One(l.slot = s), IndicesOn(Append(seq, l), s)) /\ n \in Nat
  <1> DEFINE q == Append(seq, l)
             k == Len(seq) + 1
  <1>1. DOMAIN seq = 1 .. Len(seq) /\ Len(seq) \in Nat OBVIOUS
  <1>2. DOMAIN q = 1 .. k /\ (\A i \in 1 .. Len(seq) : q[i] = seq[i]) /\ q[k] = l
    <2>1. q \in Seq(X) /\ Len(q) = k BY AppendProperties
    <2> QED BY <1>1, <2>1, AppendProperties
  <1>3. k \notin IndicesOn(seq, s) BY <1>1 DEF IndicesOn
  <1>4. n \in Nat BY CountType DEF Counted
  <1> HIDE DEF q
  <1>5. \A i : i \in IndicesOn(q, s) <=> i \in IndicesOn(seq, s) \/ (i = k /\ l.slot = s)
    BY <1>1, <1>2 DEF IndicesOn
  <1>6. CASE l.slot = s
    <2>1. IndicesOn(q, s) = IndicesOn(seq, s) \cup {k} BY <1>5, <1>6
    <2> HIDE DEF k
    <2> QED BY <1>3, <1>4, <1>6, <2>1, FS_AddElement DEF Counted, One, q
  <1>7. CASE l.slot # s
    <2>1. IndicesOn(q, s) = IndicesOn(seq, s) BY <1>5, <1>7
    <2> QED BY <1>4, <1>7, <2>1 DEF One, Counted, q
  <1> QED BY <1>4, <1>6, <1>7

-----------------------------------------------------------------------------
(* The model's sets of owners.                                             *)
LEMMA TasksOnIs ==
  ASSUME NEW stk \in Stacks, NEW ops, NEW s
  PROVE UNION {{<<"task", t, Len(stk[t]) - i>> :
               i \in {j \in DOMAIN stk[t] : stk[t][j].op \in ops /\ stk[t][j].slot = s}} :
           t \in Threads} = StackSet(stk, Ofs(ops, s))
  <1> DEFINE U == UNION {{<<"task", t, Len(stk[t]) - i>> :
               i \in {j \in DOMAIN stk[t] : stk[t][j].op \in ops /\ stk[t][j].slot = s}} :
                 t \in Threads}
  <1>1. ASSUME NEW x PROVE x \in U <=> \E t \in Threads : \E i \in DOMAIN stk[t] :
            x = Tok(t, Len(stk[t]) - i) /\ stk[t][i].op \in ops /\ stk[t][i].slot = s
    BY DEF Tok
  <1> HIDE DEF U
  <1>2. ASSUME NEW t \in Threads, NEW i \in DOMAIN stk[t], stk[t][i].op \in ops,
               stk[t][i].slot = s
        PROVE Tok(t, Len(stk[t]) - i) \in StackSet(stk, Ofs(ops, s))
    <2>1. stk[t] \in Seq(Tasks) /\ Len(stk[t]) \in Nat BY StackType
    <2>2. i \in 1 .. Len(stk[t]) /\ stk[t][i] \in Tasks BY <2>1
    <2> DEFINE d == Len(stk[t]) - i
    <2>3. d \in Nat /\ Has(stk, t, d) /\ Len(stk[t]) - d = i BY <2>1, <2>2 DEF Has
    <2>4. TaskAt(stk, t, d) = stk[t][i] BY <2>3 DEF TaskAt
    <2> HIDE DEF d
    <2>5. TaskAt(stk, t, d) \in Ofs(ops, s) BY <1>2, <2>2, <2>4 DEF Ofs
    <2>6. Tok(t, d) \in StackSet(stk, Ofs(ops, s)) BY <2>3, <2>5, TokIn
    <2> QED BY <2>6 DEF d
  <1>3. ASSUME NEW t \in Threads, NEW d \in Nat, Has(stk, t, d),
               TaskAt(stk, t, d) \in Ofs(ops, s)
        PROVE \E i \in DOMAIN stk[t] : Tok(t, d) = Tok(t, Len(stk[t]) - i) /\
              stk[t][i].op \in ops /\ stk[t][i].slot = s
    <2>1. stk[t] \in Seq(Tasks) /\ Len(stk[t]) \in Nat BY StackType
    <2> DEFINE i == Len(stk[t]) - d
    <2>2. i \in 1 .. Len(stk[t]) /\ Len(stk[t]) - i = d BY <1>3, <2>1 DEF Has
    <2>3. i \in DOMAIN stk[t] BY <2>1, <2>2
    <2>4. stk[t][i].op \in ops /\ stk[t][i].slot = s BY <1>3 DEF TaskAt, Ofs
    <2> HIDE DEF i
    <2> QED BY <2>2, <2>3, <2>4
  <1>4. ASSUME NEW x PROVE x \in U <=> x \in StackSet(stk, Ofs(ops, s))
    BY <1>1, <1>2, <1>3, StackSetIs
  <1>5. U = StackSet(stk, Ofs(ops, s)) BY <1>4
  <1> QED BY <1>5 DEF U

(* The tasks on a request, as a set of names.                              *)
LEMMA TasksOnReqIs ==
  ASSUME NEW stk \in Stacks, NEW ops, NEW r
  PROVE UNION {{<<"task", t, Len(stk[t]) - i>> :
               i \in {j \in DOMAIN stk[t] : stk[t][j].op \in ops /\ stk[t][j].req = r}} :
           t \in Threads} = StackSet(stk, OfReq(ops, r))
  <1> DEFINE U == UNION {{<<"task", t, Len(stk[t]) - i>> :
               i \in {j \in DOMAIN stk[t] : stk[t][j].op \in ops /\ stk[t][j].req = r}} :
                 t \in Threads}
  <1>1. ASSUME NEW x PROVE x \in U <=> \E t \in Threads : \E i \in DOMAIN stk[t] :
            x = Tok(t, Len(stk[t]) - i) /\ stk[t][i].op \in ops /\ stk[t][i].req = r
    BY DEF Tok
  <1> HIDE DEF U
  <1>2. ASSUME NEW t \in Threads, NEW i \in DOMAIN stk[t], stk[t][i].op \in ops,
               stk[t][i].req = r
        PROVE Tok(t, Len(stk[t]) - i) \in StackSet(stk, OfReq(ops, r))
    <2>1. stk[t] \in Seq(Tasks) /\ Len(stk[t]) \in Nat BY StackType
    <2>2. i \in 1 .. Len(stk[t]) /\ stk[t][i] \in Tasks BY <2>1
    <2> DEFINE d == Len(stk[t]) - i
    <2>3. d \in Nat /\ Has(stk, t, d) /\ Len(stk[t]) - d = i BY <2>1, <2>2 DEF Has
    <2>4. TaskAt(stk, t, d) = stk[t][i] BY <2>3 DEF TaskAt
    <2> HIDE DEF d
    <2>5. TaskAt(stk, t, d) \in OfReq(ops, r) BY <1>2, <2>2, <2>4 DEF OfReq
    <2>6. Tok(t, d) \in StackSet(stk, OfReq(ops, r)) BY <2>3, <2>5, TokIn
    <2> QED BY <2>6 DEF d
  <1>3. ASSUME NEW t \in Threads, NEW d \in Nat, Has(stk, t, d),
               TaskAt(stk, t, d) \in OfReq(ops, r)
        PROVE \E i \in DOMAIN stk[t] : Tok(t, d) = Tok(t, Len(stk[t]) - i) /\
              stk[t][i].op \in ops /\ stk[t][i].req = r
    <2>1. stk[t] \in Seq(Tasks) /\ Len(stk[t]) \in Nat BY StackType
    <2> DEFINE i == Len(stk[t]) - d
    <2>2. i \in 1 .. Len(stk[t]) /\ Len(stk[t]) - i = d BY <1>3, <2>1 DEF Has
    <2>3. i \in DOMAIN stk[t] BY <2>1, <2>2
    <2>4. stk[t][i].op \in ops /\ stk[t][i].req = r BY <1>3 DEF TaskAt, OfReq
    <2> HIDE DEF i
    <2> QED BY <2>2, <2>3, <2>4
  <1>4. ASSUME NEW x PROVE x \in U <=> x \in StackSet(stk, OfReq(ops, r))
    BY <1>1, <1>2, <1>3, StackSetIs
  <1>5. U = StackSet(stk, OfReq(ops, r)) BY <1>4
  <1> QED BY <1>5 DEF U

ReqLayers(lay, s) == UNION {LayersOn("request", r, lay[r], s) : r \in Requests}
OwnersOf(st, comp, bld, lay, stk, s) ==
    When(st[s] # "none", "flutter") \cup LayersOn("composition", 0, comp, s)
    \cup LayersOn("building", 0, bld, s) \cup ReqLayers(lay, s)
    \cup StackSet(stk, Ofs({"unref"}, s))
PinsOf(fr, stk, s) == When(fr[SurfaceOf(s)] = s, "front") \cup StackSet(stk, Ofs({"unpin"}, s))
SurfaceOwnersOf(cur, stk, F, x) ==
    When(cur = x, "window") \cup StackSet(stk, Ofs({"unown"}, <<x, 0>>)) \cup
      Nested({x} \X Pool, F)
RequestOwnersOf(stk, q, e, c, l, fl, r) ==
    StackSet(stk, OfReq({"submit", "commit", "scanout", "requnref"}, r))
    \cup When(q = r, "mailbox") \cup When(e = r, "event")
    \cup When(c = r, "callback") \cup When(l = r, "last_flipped")
    \cup {<<"retired", 0, i>> : i \in {j \in DOMAIN fl : fl[j].retired = r}}
    \cup {<<"flipped", 0, i>> : i \in {j \in DOMAIN fl : fl[j].frame = r}}

(* TasksOn as a function of the stacks.                                    *)
LEMMA TasksOnNow ==
  ASSUME todo \in Stacks, NEW ops, NEW s
  PROVE  TasksOn(ops, s) = StackSet(todo, Ofs(ops, s))
  BY TasksOnIs, Zenon DEF TasksOn
(* ... after a step.                                                       *)
LEMMA TasksOnNext ==
  ASSUME todo' \in Stacks, NEW ops, NEW s
  PROVE  TasksOn(ops, s)' = StackSet(todo', Ofs(ops, s))
  BY TasksOnIs, Zenon DEF TasksOn
(* Owners as a function of the state.                                      *)
LEMMA OwnersNow ==
  ASSUME todo \in Stacks, NEW s
  PROVE  Owners(s) = OwnersOf(store, composition, building, layers, todo, s)
  <1>1. TasksOn({"unref"}, s) = StackSet(todo, Ofs({"unref"}, s)) BY TasksOnNow
  <1> QED BY <1>1, Zenon DEF Owners, OwnersOf, ReqLayers
(* ... after a step.                                                       *)
LEMMA OwnersNext ==
  ASSUME todo' \in Stacks, NEW s
  PROVE Owners(s)' = OwnersOf(store', composition', building', layers', todo', s)
  <1>1. TasksOn({"unref"}, s)' = StackSet(todo', Ofs({"unref"}, s)) BY TasksOnNext
  <1> QED BY <1>1, Zenon DEF Owners, OwnersOf, ReqLayers
(* Pins as a function of the state.                                        *)
LEMMA PinsNow == ASSUME todo \in Stacks, NEW s PROVE Pins(s) = PinsOf(front, todo, s)
  <1>1. TasksOn({"unpin"}, s) = StackSet(todo, Ofs({"unpin"}, s)) BY TasksOnNow
  <1> QED BY <1>1, Zenon DEF Pins, PinsOf
(* ... after a step.                                                       *)
LEMMA PinsNext == ASSUME todo' \in Stacks, NEW s PROVE Pins(s)' = PinsOf(front', todo', s)
  <1>1. TasksOn({"unpin"}, s)' = StackSet(todo', Ofs({"unpin"}, s)) BY TasksOnNext
  <1> QED BY <1>1, Zenon DEF Pins, PinsOf
(* SurfaceOwners as a function of the state.                               *)
LEMMA SurfaceOwnersNow ==
  ASSUME todo \in Stacks, NEW x \in Surfaces
  PROVE SurfaceOwners(x) = SurfaceOwnersOf(current, todo, [z \in Slots |-> Owners(z)], x)
  <1>1. TasksOn({"unown"}, <<x, 0>>) = StackSet(todo, Ofs({"unown"}, <<x, 0>>)) BY TasksOnNow
  <1>2. \A z \in {x} \X Pool : [y \in Slots |-> Owners(y)][z] = Owners(z) BY DEF Slots
  <1>3. UNION {{<<"slot", z, o>> : o \in Owners(z)} : z \in {x} \X Pool} =
        Nested({x} \X Pool, [z \in Slots |-> Owners(z)])
    <2> DEFINE F == [z \in Slots |-> Owners(z)]
    <2>1. \A z \in {x} \X Pool : F[z] = Owners(z) BY <1>2
    <2> HIDE DEF F
    <2>2. \A p : p \in Nested({x} \X Pool, F) <=>
          p \in UNION {{<<"slot", z, o>> : o \in Owners(z)} : z \in {x} \X Pool}
      BY <2>1, NestedIs DEF SlotToken
    <2> QED BY <2>2 DEF F
  <1> QED BY <1>1, <1>3, Zenon DEF SurfaceOwners, SurfaceOwnersOf
(* ... after a step.                                                       *)
LEMMA SurfaceOwnersNext ==
  ASSUME todo' \in Stacks, NEW x \in Surfaces
  PROVE SurfaceOwners(x)' = SurfaceOwnersOf(current', todo', [z \in Slots |-> Owners(z)'], x)
  <1>1. TasksOn({"unown"}, <<x, 0>>)' = StackSet(todo', Ofs({"unown"}, <<x, 0>>)) BY TasksOnNext
  <1>2. \A z \in {x} \X Pool : [y \in Slots |-> Owners(y)'][z] = Owners(z)' BY DEF Slots
  <1>3. UNION {{<<"slot", z, o>> : o \in Owners(z)'} : z \in {x} \X Pool} =
        Nested({x} \X Pool, [z \in Slots |-> Owners(z)'])
    <2> DEFINE F == [z \in Slots |-> Owners(z)']
    <2>1. \A z \in {x} \X Pool : F[z] = Owners(z)' BY <1>2
    <2> HIDE DEF F
    <2>2. \A p : p \in Nested({x} \X Pool, F) <=>
          p \in UNION {{<<"slot", z, o>> : o \in Owners(z)'} : z \in {x} \X Pool}
      BY <2>1, NestedIs DEF SlotToken
    <2> QED BY <2>2 DEF F
  <1> QED BY <1>1, <1>3, Zenon DEF SurfaceOwners, SurfaceOwnersOf
(* RequestOwners as a function of the state.                               *)
LEMMA RequestOwnersNow ==
  ASSUME todo \in Stacks, NEW r
  PROVE RequestOwners(r) = RequestOwnersOf(todo, queued, inflight, callback, screen, flips, r)
  <1>1. TasksOnReq({"submit", "commit", "scanout", "requnref"}, r)
           = StackSet(todo, OfReq({"submit", "commit", "scanout", "requnref"}, r))
    BY TasksOnReqIs, Zenon DEF TasksOnReq
  <1> QED BY <1>1, Zenon DEF RequestOwners, RequestOwnersOf
(* ... after a step.                                                       *)
LEMMA RequestOwnersNext ==
  ASSUME todo' \in Stacks, NEW r
  PROVE RequestOwners(r)' =
        RequestOwnersOf(todo', queued', inflight', callback', screen', flips', r)
  <1>1. TasksOnReq({"submit", "commit", "scanout", "requnref"}, r)'
           = StackSet(todo', OfReq({"submit", "commit", "scanout", "requnref"}, r))
    BY TasksOnReqIs, Zenon DEF TasksOnReq
  <1> QED BY <1>1, Zenon DEF RequestOwners, RequestOwnersOf

-----------------------------------------------------------------------------
(* How the sets of owners change, part by part.                            *)
LEMMA NamedReqLayers == ASSUME NEW lay, NEW s PROVE Named(ReqLayers(lay, s), {"request"})
  BY DEF Named, ReqLayers, LayersOn

(* The owners of a slot change by what each part of them does.             *)
LEMMA OwnersMore ==
  ASSUME NEW st, NEW comp, NEW bld, NEW lay, NEW stk, NEW st2, NEW comp2, NEW bld2, NEW lay2,
         NEW stk2, NEW s,
         NEW kf \in Int, NEW kc \in Int, NEW kb \in Int, NEW kr \in Int, NEW kt \in Int,
         More(When(st[s] # "none", "flutter"), When(st2[s] # "none", "flutter"), kf),
         More(LayersOn("composition", 0, comp, s), LayersOn("composition", 0, comp2, s), kc),
         More(LayersOn("building", 0, bld, s), LayersOn("building", 0, bld2, s), kb),
         More(ReqLayers(lay, s), ReqLayers(lay2, s), kr),
         More(StackSet(stk, Ofs({"unref"}, s)), StackSet(stk2, Ofs({"unref"}, s)), kt)
  PROVE More(OwnersOf(st, comp, bld, lay, stk, s), OwnersOf(st2, comp2, bld2, lay2, stk2, s),
          kf + kc + kb + kr + kt)
  <1> DEFINE F(a) == When(a[s] # "none", "flutter")
             C(a) == LayersOn("composition", 0, a, s)
             B(a) == LayersOn("building", 0, a, s)
             R(a) == ReqLayers(a, s)
             T(a) == StackSet(a, Ofs({"unref"}, s))
  <1>1. \A a : Named(F(a), {"flutter"}) /\ Named(C(a), {"composition"}) /\
        Named(B(a), {"building"})
               /\ Named(R(a), {"request"}) /\ Named(T(a), {"task"})
    BY NamedWhen, NamedLayers, NamedReqLayers, NamedStack
  <1> HIDE DEF F, C, B, R, T
  <1>2. \A a, b : F(a) \cap C(b) = {} BY <1>1, Apart, {"flutter"} \cap {"composition"} = {}
  <1>3. \A a, b, c : (F(a) \cup C(b)) \cap B(c) = {}
    BY <1>1, NamedJoin, Apart, ({"flutter"} \cup {"composition"}) \cap {"building"} = {}
  <1>4. \A a, b, c, d : (F(a) \cup C(b) \cup B(c)) \cap R(d) = {}
    BY <1>1, NamedJoin, Apart,
       ({"flutter"} \cup {"composition"} \cup {"building"}) \cap {"request"} = {}
  <1>5. \A a, b, c, d, e : (F(a) \cup C(b) \cup B(c) \cup R(d)) \cap T(e) = {}
    BY <1>1, NamedJoin, Apart,
       ({"flutter"} \cup {"composition"} \cup {"building"} \cup {"request"}) \cap {"task"} = {}
  <1>6. More(F(st), F(st2), kf) /\ More(C(comp), C(comp2), kc) /\ More(B(bld), B(bld2), kb)
        /\ More(R(lay), R(lay2), kr) /\ More(T(stk), T(stk2), kt)
    BY DEF F, C, B, R, T
  <1>7. More(F(st) \cup C(comp), F(st2) \cup C(comp2), kf + kc)
    BY <1>2, <1>6, MoreJoin
  <1>7a. kf + kc \in Int /\ kf + kc + kb \in Int /\ kf + kc + kb + kr \in Int OBVIOUS
  <1>8. More(F(st) \cup C(comp) \cup B(bld), F(st2) \cup C(comp2) \cup B(bld2), kf + kc + kb)
    BY <1>3, <1>6, <1>7, <1>7a, MoreJoin
  <1>9. More(F(st) \cup C(comp) \cup B(bld) \cup R(lay),
          F(st2) \cup C(comp2) \cup B(bld2) \cup R(lay2), kf + kc + kb + kr)
    BY <1>4, <1>6, <1>7a, <1>8, MoreJoin
  <1>10. More(F(st) \cup C(comp) \cup B(bld) \cup R(lay) \cup T(stk),
              F(st2) \cup C(comp2) \cup B(bld2) \cup R(lay2) \cup T(stk2),
                kf + kc + kb + kr + kt)
    BY <1>5, <1>6, <1>7a, <1>9, MoreJoin
  <1> QED BY <1>10 DEF OwnersOf, F, C, B, R, T

(* The pins of a slot likewise.                                            *)
LEMMA PinsMore ==
  ASSUME NEW fr, NEW stk, NEW fr2, NEW stk2, NEW s, NEW kf \in Int, NEW kt \in Int,
         More(When(fr[SurfaceOf(s)] = s, "front"), When(fr2[SurfaceOf(s)] = s, "front"), kf),
         More(StackSet(stk, Ofs({"unpin"}, s)), StackSet(stk2, Ofs({"unpin"}, s)), kt)
  PROVE More(PinsOf(fr, stk, s), PinsOf(fr2, stk2, s), kf + kt)
  <1> DEFINE F(a) == When(a[SurfaceOf(s)] = s, "front")
             T(a) == StackSet(a, Ofs({"unpin"}, s))
  <1>1. \A a : Named(F(a), {"front"}) /\ Named(T(a), {"task"})
    BY NamedWhen, NamedStack
  <1>2. More(F(fr), F(fr2), kf) /\ More(T(stk), T(stk2), kt)
    OBVIOUS
  <1> HIDE DEF F, T
  <1>3. \A a, b : F(a) \cap T(b) = {} BY <1>1, Apart, {"front"} \cap {"task"} = {}
  <1>4. More(F(fr) \cup T(stk), F(fr2) \cup T(stk2), kf + kt)
    BY <1>2, <1>3, MoreJoin
  <1> QED BY <1>4 DEF PinsOf, F, T

(* No owner of a slot is a pin.                                            *)
LEMMA OwnersNotPins ==
  ASSUME NEW st, NEW comp, NEW bld, NEW lay, NEW stk, NEW fr, NEW s
  PROVE OwnersOf(st, comp, bld, lay, stk, s) \cap PinsOf(fr, stk, s) = {}
  <1> DEFINE A == When(st[s] # "none", "flutter") \cup LayersOn("composition", 0, comp, s)
                  \cup LayersOn("building", 0, bld, s) \cup ReqLayers(lay, s)
             X == {"flutter"} \cup {"composition"} \cup {"building"} \cup {"request"}
             T == StackSet(stk, Ofs({"unref"}, s))
             P == When(fr[SurfaceOf(s)] = s, "front")
             U == StackSet(stk, Ofs({"unpin"}, s))
  <1>1. Named(A, X) BY NamedWhen, NamedLayers, NamedReqLayers, NamedJoin
  <1>2. Named(T, {"task"}) /\ Named(U, {"task"}) /\ Named(P, {"front"}) BY NamedWhen, NamedStack
  <1>3. T \cap U = {}
    <2> SUFFICES ASSUME NEW x, x \in T, x \in U PROVE FALSE OBVIOUS
    <2>1. PICK t \in Threads : \E d \in Nat : x = Tok(t, d) /\ Has(stk, t, d) /\
            TaskAt(stk, t, d) \in Ofs({"unref"}, s)
      BY StackSetIs
    <2>2. PICK d \in Nat : x = Tok(t, d) /\ Has(stk, t, d) /\
          TaskAt(stk, t, d) \in Ofs({"unref"}, s)
      BY <2>1
    <2>3. TaskAt(stk, t, d) \in Ofs({"unpin"}, s) BY <2>2, TokIn
    <2> QED BY <2>2, <2>3 DEF Ofs
  <1> HIDE DEF A, X, T, P, U
  <1>4. A \cap P = {} BY <1>1, <1>2, Apart, X \cap {"front"} = {} DEF X
  <1>5. A \cap U = {} BY <1>1, <1>2, Apart, X \cap {"task"} = {} DEF X
  <1>6. T \cap P = {} BY <1>2, Apart, {"task"} \cap {"front"} = {}
  <1>7. (A \cup T) \cap (P \cup U) = {} BY <1>3, <1>4, <1>5, <1>6
  <1> QED BY <1>7 DEF OwnersOf, PinsOf, A, T, P, U

(* The owners of a surface likewise.                                       *)
LEMMA SurfaceOwnersMore ==
  ASSUME NEW cur, NEW stk, NEW F, NEW cur2, NEW stk2, NEW G, NEW x,
         NEW kw \in Int, NEW kt \in Int, NEW kn \in Int,
         More(When(cur = x, "window"), When(cur2 = x, "window"), kw),
         More(StackSet(stk, Ofs({"unown"}, <<x, 0>>)), StackSet(stk2, Ofs({"unown"}, <<x, 0>>)),
           kt),
         More(Nested({x} \X Pool, F), Nested({x} \X Pool, G), kn)
  PROVE More(SurfaceOwnersOf(cur, stk, F, x), SurfaceOwnersOf(cur2, stk2, G, x), kw + kt + kn)
  <1> DEFINE W(a) == When(a = x, "window")
             T(a) == StackSet(a, Ofs({"unown"}, <<x, 0>>))
             N(a) == Nested({x} \X Pool, a)
  <1>1. \A a : Named(W(a), {"window"}) /\ Named(T(a), {"task"}) /\ Named(N(a), {"slot"})
    <2>1. \A a : Named(N(a), {"slot"}) BY NestedIs DEF Named, SlotToken
    <2> QED BY <2>1, NamedWhen, NamedStack
  <1>2. More(W(cur), W(cur2), kw) /\ More(T(stk), T(stk2), kt) /\ More(N(F), N(G), kn)
    OBVIOUS
  <1> HIDE DEF W, T, N
  <1>3. \A a, b : W(a) \cap T(b) = {} BY <1>1, Apart, {"window"} \cap {"task"} = {}
  <1>4. \A a, b, c : (W(a) \cup T(b)) \cap N(c) = {}
    BY <1>1, NamedJoin, Apart, ({"window"} \cup {"task"}) \cap {"slot"} = {}
  <1>5. More(W(cur) \cup T(stk), W(cur2) \cup T(stk2), kw + kt) BY <1>2, <1>3, MoreJoin
  <1>5a. kw + kt \in Int OBVIOUS
  <1>6. More(W(cur) \cup T(stk) \cup N(F), W(cur2) \cup T(stk2) \cup N(G), kw + kt + kn)
    BY <1>2, <1>4, <1>5, <1>5a, MoreJoin
  <1> QED BY <1>6 DEF SurfaceOwnersOf, W, T, N

(* Layers of one request that change.                                      *)
LEMMA ReqLayersMore ==
  ASSUME NEW lay, NEW lay2, NEW r \in Requests, NEW s, NEW k \in Int,
         \A q \in Requests \ {r} : lay2[q] = lay[q],
         More(LayersOn("request", r, lay[r], s), LayersOn("request", r, lay2[r], s), k)
  PROVE More(ReqLayers(lay, s), ReqLayers(lay2, s), k)
  <1> DEFINE Rest(a) == UNION {LayersOn("request", q, a[q], s) : q \in Requests \ {r}}
             This(a) == LayersOn("request", r, a[r], s)
  <1>1. \A q \in Requests \ {r} :
        LayersOn("request", q, lay[q], s) = LayersOn("request", q, lay2[q], s)
    OBVIOUS
  <1>2. Rest(lay) = Rest(lay2)
    BY <1>1
  <1>3. ASSUME NEW a PROVE ReqLayers(a, s) = Rest(a) \cup This(a) /\ Rest(a) \cap This(a) = {}
    <2>1. \A q : \A x \in LayersOn("request", q, a[q], s) : x[2] = q BY DEF LayersOn
    <2>2. Rest(a) \cap This(a) = {}
      <3> SUFFICES ASSUME NEW x, x \in Rest(a), x \in This(a) PROVE FALSE OBVIOUS
      <3>1. PICK q \in Requests \ {r} : x \in LayersOn("request", q, a[q], s) OBVIOUS
      <3>2. x[2] = q BY <2>1, <3>1
      <3>3. x[2] = r BY <2>1
      <3> QED BY <3>2, <3>3
    <2>3. ReqLayers(a, s) = Rest(a) \cup This(a) BY DEF ReqLayers
    <2> QED BY <2>2, <2>3
  <1>4. More(This(lay), This(lay2), k)
    OBVIOUS
  <1> HIDE DEF Rest, This
  <1>5. More(Rest(lay), Rest(lay2), 0) BY <1>2, MoreSame
  <1>6. More(Rest(lay) \cup This(lay), Rest(lay2) \cup This(lay2), 0 + k)
    <2>1. Rest(lay) \cap This(lay) = {} /\ Rest(lay2) \cap This(lay2) = {} BY <1>3
    <2>2. 0 \in Int OBVIOUS
    <2> QED BY <1>4, <1>5, <2>1, <2>2, MoreJoin, Zenon
  <1> QED BY <1>3, <1>6, 0 + k = k

(* A request gets a layer.                                                 *)
LEMMA ReqLayersAppend ==
  ASSUME NEW X, NEW lay \in [Requests -> Seq(X)], NEW r \in Requests, NEW l \in X, NEW lay2,
         lay2 = [lay EXCEPT ![r] = Append(@, l)], NEW s
  PROVE More(ReqLayers(lay, s), ReqLayers(lay2, s), One(l.slot = s))
  <1>1. lay2[r] = Append(lay[r], l) /\ lay[r] \in Seq(X) /\
        \A q \in Requests \ {r} : lay2[q] = lay[q]
    OBVIOUS
  <1> DEFINE n == Cardinality(IndicesOn(lay[r], s))
  <1>2. Counted(n, IndicesOn(lay[r], s)) /\ n \in Nat BY <1>1, IndicesCount
  <1>3. Counted(n + One(l.slot = s), IndicesOn(lay2[r], s)) BY <1>1, <1>2, IndicesAppend
  <1> HIDE DEF n
  <1>4. One(l.slot = s) \in Int BY DEF One
  <1>5. More(LayersOn("request", r, lay[r], s), LayersOn("request", r, lay2[r], s),
          (n + One(l.slot = s)) - n)
    BY <1>2, <1>3, LayersMore
  <1>6. (n + One(l.slot = s)) - n = One(l.slot = s) BY <1>2, <1>4
  <1> QED BY <1>1, <1>4, <1>5, <1>6, ReqLayersMore

(* A request loses its layers.                                             *)
LEMMA ReqLayersDropped ==
  ASSUME NEW X, NEW lay \in [Requests -> Seq(X)], NEW r \in Requests, NEW lay2,
         lay2 = [lay EXCEPT ![r] = <<>>], NEW s, NEW n, Counted(n, IndicesOn(lay[r], s))
  PROVE More(ReqLayers(lay, s), ReqLayers(lay2, s), -n) /\ n \in Nat
  <1>1. lay2[r] = <<>> /\ \A q \in Requests \ {r} : lay2[q] = lay[q]
    OBVIOUS
  <1>2. n \in Nat BY CountType DEF Counted
  <1>3. Counted(0, IndicesOn(lay2[r], s)) BY <1>1, IndicesNone
  <1>4. More(LayersOn("request", r, lay[r], s), LayersOn("request", r, lay2[r], s), 0 - n)
    BY <1>3, LayersMore
  <1>5. 0 - n = -n /\ -n \in Int BY <1>2
  <1> QED BY <1>1, <1>2, <1>4, <1>5, ReqLayersMore

-----------------------------------------------------------------------------
Retired(fl, r) == {<<"retired", 0, i>> : i \in {j \in DOMAIN fl : fl[j].retired = r}}
Flipped(fl, r) == {<<"flipped", 0, i>> : i \in {j \in DOMAIN fl : fl[j].frame = r}}

(* The requests that a recorded flip names.                                *)
LEMMA FlipsCount ==
  ASSUME NEW r
  PROVE /\ Counted(0, Retired(<<>>, r)) /\ Counted(0, Flipped(<<>>, r))
        /\ \A f : Counted(One(f.retired = r), Retired(<<f>>, r)) /\
           Counted(One(f.frame = r), Flipped(<<f>>, r))
  <1>1. Retired(<<>>, r) = {} /\ Flipped(<<>>, r) = {} BY DEF Retired, Flipped
  <1>2. ASSUME NEW f
        PROVE  Counted(One(f.retired = r), Retired(<<f>>, r)) /\
               Counted(One(f.frame = r), Flipped(<<f>>, r))
    <2>1. Retired(<<f>>, r) = IF f.retired = r THEN {<<"retired", 0, 1>>} ELSE {} BY DEF Retired
    <2>2. Flipped(<<f>>, r) = IF f.frame = r THEN {<<"flipped", 0, 1>>} ELSE {} BY DEF Flipped
    <2>3. Counted(One(f.retired = r), Retired(<<f>>, r)) BY <2>1, CountOne, CountNone DEF One
    <2>4. Counted(One(f.frame = r), Flipped(<<f>>, r)) BY <2>2, CountOne, CountNone DEF One
    <2> QED BY <2>3, <2>4
  <1> QED BY <1>1, <1>2, CountNone

(* Two counts and their difference.                                        *)
LEMMA CountedMore ==
  ASSUME NEW S, NEW T, NEW k, NEW l, Counted(k, S), Counted(l, T)
  PROVE More(S, T, l - k) /\ l - k \in Int /\ k \in Nat /\ l \in Nat
  <1>1. k \in Nat /\ l \in Nat BY CountType DEF Counted
  <1> QED BY <1>1 DEF More, Counted

ReqOps == {"submit", "commit", "scanout", "requnref"}
(* The owners of a request, but for the flips that are recorded.           *)
HeldOf(stk, q, e, c, l, r) ==
    StackSet(stk, OfReq({"submit", "commit", "scanout", "requnref"}, r))
    \cup When(q = r, "mailbox") \cup When(e = r, "event")
    \cup When(c = r, "callback") \cup When(l = r, "last_flipped")

(* How the owners of a request change, but for recorded flips.             *)
LEMMA HeldMore ==
  ASSUME NEW stk, NEW q, NEW e, NEW c, NEW l, NEW stk2, NEW q2, NEW e2, NEW c2, NEW l2, NEW r,
         NEW kt \in Int,
         More(StackSet(stk, OfReq(ReqOps, r)), StackSet(stk2, OfReq(ReqOps, r)), kt)
  PROVE LET k == kt + (One(q2 = r) - One(q = r)) + (One(e2 = r) - One(e = r))
                    + (One(c2 = r) - One(c = r)) + (One(l2 = r) - One(l = r))
        IN  More(HeldOf(stk, q, e, c, l, r), HeldOf(stk2, q2, e2, c2, l2, r), k) /\ k \in Int
  <1> DEFINE T(a) == StackSet(a, OfReq(ReqOps, r))
             M(a) == When(a = r, "mailbox")
             E(a) == When(a = r, "event")
             C(a) == When(a = r, "callback")
             L(a) == When(a = r, "last_flipped")
             kq == One(q2 = r) - One(q = r)
             ke == One(e2 = r) - One(e = r)
             kc == One(c2 = r) - One(c = r)
             kl == One(l2 = r) - One(l = r)
  <1>1. \A a : Named(T(a), {"task"}) /\ Named(M(a), {"mailbox"}) /\ Named(E(a), {"event"})
               /\ Named(C(a), {"callback"}) /\ Named(L(a), {"last_flipped"})
    BY NamedWhen, NamedStack
  <1>2. More(T(stk), T(stk2), kt) /\ More(M(q), M(q2), kq) /\ More(E(e), E(e2), ke)
        /\ More(C(c), C(c2), kc) /\ More(L(l), L(l2), kl)
    BY WhenMore
  <1>3. kq \in Int /\ ke \in Int /\ kc \in Int /\ kl \in Int
    BY WhenMore
  <1>4. HeldOf(stk, q, e, c, l, r) = T(stk) \cup M(q) \cup E(e) \cup C(c) \cup L(l)
        /\ HeldOf(stk2, q2, e2, c2, l2, r) = T(stk2) \cup M(q2) \cup E(e2) \cup C(c2) \cup L(l2)
    BY DEF HeldOf, ReqOps
  <1> HIDE DEF T, M, E, C, L, kq, ke, kc, kl
  <1>5. \A a, b : T(a) \cap M(b) = {}
    BY <1>1, Apart, {"task"} \cap {"mailbox"} = {}
  <1>6. \A a, b, d : (T(a) \cup M(b)) \cap E(d) = {}
    BY <1>1, NamedJoin, Apart, ({"task"} \cup {"mailbox"}) \cap {"event"} = {}
  <1>7. \A a, b, d, f : (T(a) \cup M(b) \cup E(d)) \cap C(f) = {}
    BY <1>1, NamedJoin, Apart,
       ({"task"} \cup {"mailbox"} \cup {"event"}) \cap {"callback"} = {}
  <1>8. \A a, b, d, f, g : (T(a) \cup M(b) \cup E(d) \cup C(f)) \cap L(g) = {}
    BY <1>1, NamedJoin, Apart,
       ({"task"} \cup {"mailbox"} \cup {"event"} \cup {"callback"}) \cap {"last_flipped"} = {}
  <1>9. kt + kq \in Int /\ kt + kq + ke \in Int /\ kt + kq + ke + kc \in Int /\
        kt + kq + ke + kc + kl \in Int
    BY <1>3
  <1>10. More(T(stk) \cup M(q), T(stk2) \cup M(q2), kt + kq)
    BY <1>2, <1>3, <1>5, MoreJoin
  <1>11. More(T(stk) \cup M(q) \cup E(e), T(stk2) \cup M(q2) \cup E(e2), kt + kq + ke)
    BY <1>2, <1>3, <1>6, <1>9, <1>10, MoreJoin
  <1>12. More(T(stk) \cup M(q) \cup E(e) \cup C(c), T(stk2) \cup M(q2) \cup E(e2) \cup C(c2),
           kt + kq + ke + kc)
    BY <1>2, <1>3, <1>7, <1>9, <1>11, MoreJoin
  <1>13. More(T(stk) \cup M(q) \cup E(e) \cup C(c) \cup L(l),
              T(stk2) \cup M(q2) \cup E(e2) \cup C(c2) \cup L(l2), kt + kq + ke + kc + kl)
    BY <1>2, <1>3, <1>8, <1>9, <1>12, MoreJoin
  <1> QED BY <1>4, <1>9, <1>13 DEF kq, ke, kc, kl

(* ... with the recorded flips.                                            *)
LEMMA RequestOwnersMore ==
  ASSUME NEW stk, NEW q, NEW e, NEW c, NEW l, NEW fl, NEW stk2, NEW q2, NEW e2, NEW c2, NEW l2,
         NEW fl2, NEW r,
         NEW kh \in Int, More(HeldOf(stk, q, e, c, l, r), HeldOf(stk2, q2, e2, c2, l2, r), kh),
         NEW kr \in Int, More(Retired(fl, r), Retired(fl2, r), kr),
         NEW kf \in Int, More(Flipped(fl, r), Flipped(fl2, r), kf)
  PROVE More(RequestOwnersOf(stk, q, e, c, l, fl, r),
          RequestOwnersOf(stk2, q2, e2, c2, l2, fl2, r), kh + kr + kf)
  <1> DEFINE X == {"task"} \cup {"mailbox"} \cup {"event"} \cup {"callback"} \cup
      {"last_flipped"}
             H == HeldOf(stk, q, e, c, l, r)
             G == HeldOf(stk2, q2, e2, c2, l2, r)
  <1>1. Named(H, X) /\ Named(G, X)
    <2> DEFINE K == OfReq({"submit", "commit", "scanout", "requnref"}, r)
    <2>1. \A a, b, d, f, g :
            Named(StackSet(a, K) \cup When(b, "mailbox") \cup When(d, "event") \cup
              When(f, "callback") \cup When(g, "last_flipped"), X)
      <3> HIDE DEF K
      <3> TAKE a, b, d, f, g
      <3>1. Named(StackSet(a, K) \cup When(b, "mailbox"), {"task"} \cup {"mailbox"})
        BY NamedWhen, NamedStack, NamedJoin
      <3>2. Named(StackSet(a, K) \cup When(b, "mailbox") \cup When(d, "event"),
              {"task"} \cup {"mailbox"} \cup {"event"})
        BY <3>1, NamedWhen, NamedJoin
      <3>3. Named(StackSet(a, K) \cup When(b, "mailbox") \cup When(d, "event") \cup
              When(f, "callback"),
                  {"task"} \cup {"mailbox"} \cup {"event"} \cup {"callback"})
        BY <3>2, NamedWhen, NamedJoin
      <3> QED BY <3>3, NamedWhen, NamedJoin
    <2> HIDE DEF X
    <2> QED BY <2>1 DEF HeldOf
  <1>2. \A a : Named(Retired(a, r), {"retired"}) /\ Named(Flipped(a, r), {"flipped"})
    BY DEF Named, Retired, Flipped
  <1>3. RequestOwnersOf(stk, q, e, c, l, fl, r) = H \cup Retired(fl, r) \cup Flipped(fl, r)
        /\ RequestOwnersOf(stk2, q2, e2, c2, l2, fl2, r) = G \cup Retired(fl2, r) \cup
           Flipped(fl2, r)
    BY DEF RequestOwnersOf, HeldOf, Retired, Flipped
  <1>4. X \cap {"retired"} = {} /\ (X \cup {"retired"}) \cap {"flipped"} = {}
    OBVIOUS
  <1> HIDE DEF X, H, G
  <1>5. H \cap Retired(fl, r) = {} /\ G \cap Retired(fl2, r) = {}
    BY <1>1, <1>2, <1>4, Apart
  <1>6. Named(H \cup Retired(fl, r), X \cup {"retired"}) /\
        Named(G \cup Retired(fl2, r), X \cup {"retired"})
    BY <1>1, <1>2, NamedJoin
  <1>7. (H \cup Retired(fl, r)) \cap Flipped(fl, r) = {} /\
        (G \cup Retired(fl2, r)) \cap Flipped(fl2, r) = {}
    BY <1>2, <1>4, <1>6, Apart
  <1>8. More(H, G, kh) BY DEF H, G
  <1>9. kh + kr \in Int OBVIOUS
  <1>10. More(H \cup Retired(fl, r), G \cup Retired(fl2, r), kh + kr) BY <1>5, <1>8, MoreJoin
  <1>11. More(H \cup Retired(fl, r) \cup Flipped(fl, r),
           G \cup Retired(fl2, r) \cup Flipped(fl2, r), kh + kr + kf)
    BY <1>7, <1>9, <1>10, MoreJoin
  <1> QED BY <1>3, <1>11

(* What a task says of the tasks below it.  Releases of a slot are covered *)
(* by something that keeps its surface, or by the release of the surface.  *)
Covers(k, x) ==
    \/ k.op \in {"unown", "deinit"} /\ k.slot = <<x, 0>>
    \/ k.op = "snapshot" /\ SurfaceOf(k.slot) = x

PlaceOK(k, t, d) ==
    /\ k.op \in {"fill", "push", "build", "unlock"} => d = 0
    /\ k.op \in {"fill", "push", "queue", "snapshot"} => t = Raster
    /\ k.op \in {"queue", "snapshot", "present", "unref", "unpin", "reset", "clear"} =>
       k.slot \in Slots
    /\ k.op \in {"unown", "deinit"} => k.slot \in Surfaces \X {0}
    /\ k.op \in {"push", "build", "present", "submit", "commit", "scanout", "requnref"} =>
          k.req \in Requests

BelowOK(stk, t, d) ==
    LET k == TaskAt(stk, t, d)
    IN  /\ k.op \in {"queue", "snapshot"} =>
              \A e \in 0 .. d - 1 : TaskAt(stk, t, e).op \in {"queue", "push"}
        /\ k.op = "submit" => d = 1 /\ TaskAt(stk, t, 0).op = "unlock"
        /\ k.op = "present" =>
              /\ d >= 2 /\ TaskAt(stk, t, 0).op = "unlock"
              /\ TaskAt(stk, t, 1).op = "submit" /\ TaskAt(stk, t, 1).req = k.req
              /\ \A e \in 2 .. d : TaskAt(stk, t, e).op = "present"
        /\ k.op = "reset" =>
              d >= 1 /\ TaskAt(stk, t, d - 1).op = "clear" /\
                TaskAt(stk, t, d - 1).slot = k.slot
        /\ k.op \in {"unpin", "reset", "clear"} =>
              \E e \in 0 .. d - 1 : Covers(TaskAt(stk, t, e), SurfaceOf(k.slot))

Shaped(stk) ==
    \A t \in Threads : \A d \in Nat :
        Has(stk, t, d) => PlaceOK(TaskAt(stk, t, d), t, d) /\ BelowOK(stk, t, d)

InUse(s) ==
    \/ \E i \in DOMAIN composition : composition[i].slot = s
    \/ \E i \in DOMAIN building : building[i].slot = s
    \/ \E r \in Requests : \E i \in DOMAIN layers[r] : layers[r][i].slot = s

Fill1(k) == k.op = "fill" => fills < MaxFills
Push1(k) == k.op \in {"push", "build"} => refs[k.req] = 0 /\ k.req <= pushes
Lock1(k, t) == k.op \in {"build", "unlock"} => winlock = {t}
Submit1(k) == k.op = "submit" => refs[k.req] = 1
Store1(k) ==
    /\ k.op = "queue" => store[k.slot] \in {"rendered", "presented"}
    /\ k.op = "snapshot" => store[k.slot] = "presented"
Layer1(k) == k.op = "present" => \E i \in DOMAIN composition : composition[i].slot = k.slot
Deinit1(k) ==
    k.op = "deinit" =>
        LET x == SurfaceOf(k.slot) IN srefs[x] = 0 /\ front[x] = NoSlot /\ life[x] = "live"

FillFits == \A t \in Threads : \A d \in Nat : Has(todo, t, d) => Fill1(TaskAt(todo, t, d))
PushFits == \A t \in Threads : \A d \in Nat : Has(todo, t, d) => Push1(TaskAt(todo, t, d))
LockFits == \A t \in Threads : \A d \in Nat : Has(todo, t, d) => Lock1(TaskAt(todo, t, d), t)
SubmitFits == \A t \in Threads : \A d \in Nat : Has(todo, t, d) => Submit1(TaskAt(todo, t, d))
StoreFits == \A t \in Threads : \A d \in Nat : Has(todo, t, d) => Store1(TaskAt(todo, t, d))
LayerFits == \A t \in Threads : \A d \in Nat : Has(todo, t, d) => Layer1(TaskAt(todo, t, d))
DeinitFits == \A t \in Threads : \A d \in Nat : Has(todo, t, d) => Deinit1(TaskAt(todo, t, d))

Single(S) == \A x, y \in S : x = y

(* Two pushes are for two requests, two deinits for two surfaces.          *)
PushesDiffer == \A r \in Requests : Single(StackSet(todo, OfReq({"push", "build"}, r)))
DeinitsDiffer == \A x \in Surfaces : Single(StackSet(todo, Ofs({"deinit"}, <<x, 0>>)))

(* One commit is under way when `waiting`, until a flip is lost: then      *)
(* `waiting` stays and nothing is under way any more.                      *)
BatonOps == {"commit", "failed", "scanout"}
Recorded(fl) == {<<"flipped", 0, i>> : i \in DOMAIN fl}
BatonsOf(stk, e, fl) == StackSet(stk, OfOps(BatonOps)) \cup When(e # 0, "event") \cup
  Recorded(fl)
Busy == waiting /\ lost = 0
BatonsOK ==
    /\ Counted(One(Busy), BatonsOf(todo, inflight, flips))
    /\ lost # 0 => waiting
    /\ callback = inflight
    /\ \A i \in DOMAIN flips : flips[i].frame # 0

SlotsCounted == \A s \in Slots : Counted(nrefs[s], Owners(s) \cup Pins(s))
SurfacesCounted == \A x \in Surfaces : Counted(srefs[x], SurfaceOwners(x))
RequestsCounted == \A r \in Requests : Counted(refs[r], RequestOwners(r))
LayersCounted ==
    \A r \in Requests :
        /\ layers[r] # <<>> => refs[r] > 0
        /\ r > pushes => refs[r] = 0

Clearing(s) == StackSet(todo, Ofs({"clear"}, s))
Resetting(s) == StackSet(todo, Ofs({"reset"}, s))
CleaningOK ==
    \A s \in Slots :
        /\ (Clearing(s) # {}) <=> (nrefs[s] = 0 /\ locked[s])
        /\ Single(Clearing(s))
        /\ nrefs[s] = 0 /\ (owner[s] \/ completion[s] # "none") => Resetting(s) # {}
        /\ nrefs[s] > 0 => locked[s] /\ owner[s]

LivesOK ==
    \A x \in Surfaces :
        /\ srefs[x] > 0 => life[x] = "live"
        /\ x > current => life[x] = "new"
        /\ front[x] # NoSlot => srefs[x] > 0 /\ SurfaceOf(front[x]) = x

(* What is rendered, and when it is known to be.                           *)
RenderedOK ==
    /\ \A s \in Slots :
          /\ InUse(s) => store[s] \in {"none", "presented"}
          /\ completion[s] = "done" => s \notin gpu
          /\ store[s] \in {"empty", "rendered"} => completion[s] = "none"
    /\ \A r \in Requests : \A i \in DOMAIN layers[r] :
          /\ ~layers[r][i].fence => layers[r][i].slot \notin gpu
          /\ Legacy => ~layers[r][i].fence
    /\ ScanoutAfterRender

TasksFit == FillFits /\ PushFits /\ LockFits /\ SubmitFits /\ StoreFits /\ LayerFits /\
  DeinitFits
(* The inductive invariant: the stacks of calls are ones that the code can *)
(* make and fit the state, counts are exact, one commit is under way, the  *)
(* clean-up of a slot is under way exactly while nobody owns it, and what  *)
(* is shown is rendered.                                                   *)
ScanoutInv ==
    /\ TypeOK /\ Shaped(todo) /\ TasksFit /\ PushesDiffer /\ DeinitsDiffer /\ BatonsOK
    /\ SlotsCounted /\ SurfacesCounted /\ RequestsCounted /\ LayersCounted
    /\ CleaningOK /\ LivesOK /\ RenderedOK /\ ImagesStable

-----------------------------------------------------------------------------
(* A step that takes away tasks of kinds R only and puts down some of      *)
(* kinds A only.                                                           *)
Touches(A, R) ==
    /\ \A K : (\A k \in K : k.op \notin A /\ k.op \notin R) =>
       StackSet(todo', K) = StackSet(todo, K)
    /\ \A K : (\A k \in K : k.op \notin A) => StackSet(todo', K) \subseteq StackSet(todo, K)

(* A step of the top task touches its kind.                                *)
LEMMA PopTouches ==
  ASSUME NEW t \in Threads, todo[t] # <<>>, NEW tasks,
         Stepped(todo, todo', t, Len(todo[t]) - 1, tasks),
         NEW A, \A i \in 1 .. Len(tasks) : tasks[i].op \in A
  PROVE Touches(A, {Head(todo[t]).op})
  <1>0. todo \in Stacks BY DEF Stepped
  <1>1. ASSUME NEW K, \A k \in K : k.op \notin A PROVE Among(tasks, K) = {}
    BY <1>1 DEF Among
  <1>2. ASSUME NEW K, \A k \in K : k.op \notin A /\ k.op \notin {Head(todo[t]).op}
        PROVE StackSet(todo', K) = StackSet(todo, K)
    <2>1. Head(todo[t]) \notin K BY <1>2
    <2>2. Above(todo, t, Len(todo[t]) - 1, K) = {} BY <1>0, <2>1, AbovePop
    <2> QED BY <1>1, <1>2, <2>2, StackSetQuiet
  <1>3. ASSUME NEW K, \A k \in K : k.op \notin A
        PROVE  StackSet(todo', K) \subseteq StackSet(todo, K)
    <2>1. Among(tasks, K) = {} BY <1>1, <1>3
    <2> QED BY <2>1, StackSetStep
  <1> QED BY <1>2, <1>3 DEF Touches

(* A thread that starts anew.                                              *)
LEMMA StartTouches ==
  ASSUME NEW t \in Threads, NEW tasks, Stepped(todo, todo', t, 0, tasks),
         NEW R, \A d \in Nat : Has(todo, t, d) => TaskAt(todo, t, d).op \in R,
         NEW A, \A i \in 1 .. Len(tasks) : tasks[i].op \in A
  PROVE Touches(A, R)
  <1>1. ASSUME NEW K, \A k \in K : k.op \notin A PROVE Among(tasks, K) = {}
    BY <1>1 DEF Among
  <1>2. ASSUME NEW K, \A k \in K : k.op \notin A /\ k.op \notin R
        PROVE StackSet(todo', K) = StackSet(todo, K)
    <2>1. Above(todo, t, 0, K) = {} BY <1>2 DEF Above
    <2> QED BY <1>1, <1>2, <2>1, StackSetQuiet
  <1>3. ASSUME NEW K, \A k \in K : k.op \notin A
        PROVE  StackSet(todo', K) \subseteq StackSet(todo, K)
    <2>1. Among(tasks, K) = {} BY <1>1, <1>3
    <2> QED BY <2>1, StackSetStep
  <1> QED BY <1>2, <1>3 DEF Touches

(* An idle thread that starts takes away nothing.                          *)
LEMMA IdleTouches ==
  ASSUME NEW t \in Threads, Idle(t), NEW tasks, Stepped(todo, todo', t, 0, tasks),
         NEW A, \A i \in 1 .. Len(tasks) : tasks[i].op \in A
  PROVE Touches(A, {})
  <1>1. \A d \in Nat : ~Has(todo, t, d) BY DEF Idle, Has
  <1> QED BY <1>1, StartTouches

(* A step that leaves the stacks alone.                                    *)
LEMMA NoneTouched == ASSUME UNCHANGED todo PROVE Touches({}, {})
  BY DEF Touches

(* A task of a kind that was not put down was there before.                *)
LEMMA WasThere ==
  ASSUME NEW A, NEW R, Touches(A, R), NEW t \in Threads, NEW d \in Nat, Has(todo', t, d),
         TaskAt(todo', t, d).op \notin A
  PROVE Has(todo, t, d) /\ TaskAt(todo, t, d) = TaskAt(todo', t, d)
  <1> DEFINE K == {TaskAt(todo', t, d)}
  <1>1. Tok(t, d) \in StackSet(todo', K) BY TokIn
  <1>2. StackSet(todo', K) \subseteq StackSet(todo, K) BY DEF Touches
  <1>3. Tok(t, d) \in StackSet(todo, K) BY <1>1, <1>2
  <1> QED BY <1>3, TokIn

(* Tasks of kinds not put down do not get more, and of kinds not touched   *)
(* stay.                                                                   *)
LEMMA TouchesOfs ==
  ASSUME NEW A, NEW R, Touches(A, R), NEW ops
  PROVE /\ ops \cap A = {} =>
           \A z : /\ StackSet(todo', Ofs(ops, z)) \subseteq StackSet(todo, Ofs(ops, z))
                                     /\ StackSet(todo', OfReq(ops, z)) \subseteq StackSet(todo,
                                        OfReq(ops, z))
        /\ ops \cap A = {} /\ ops \cap R = {} =>
              /\ \A z : /\ StackSet(todo', Ofs(ops, z)) = StackSet(todo, Ofs(ops, z))
                        /\ StackSet(todo', OfReq(ops, z)) = StackSet(todo, OfReq(ops, z))
              /\ StackSet(todo', OfOps(ops)) = StackSet(todo, OfOps(ops))
  <1>1. \A z : (\A k \in Ofs(ops, z) : k.op \in ops) /\ (\A k \in OfReq(ops, z) : k.op \in ops)
    BY DEF Ofs, OfReq
  <1>2. \A k \in OfOps(ops) : k.op \in ops BY DEF OfOps
  <1>3. ASSUME ops \cap A = {}, NEW z
        PROVE /\ StackSet(todo', Ofs(ops, z)) \subseteq StackSet(todo, Ofs(ops, z))
              /\ StackSet(todo', OfReq(ops, z)) \subseteq StackSet(todo, OfReq(ops, z))
    <2>1. \A k : k \in ops => k \notin A BY <1>3
    <2> QED BY <1>1, <2>1, Zenon DEF Touches
  <1>4. ASSUME ops \cap A = {}, ops \cap R = {}
        PROVE /\ \A z : /\ StackSet(todo', Ofs(ops, z)) = StackSet(todo, Ofs(ops, z))
                        /\ StackSet(todo', OfReq(ops, z)) = StackSet(todo, OfReq(ops, z))
              /\ StackSet(todo', OfOps(ops)) = StackSet(todo, OfOps(ops))
    <2>1. \A k : k \in ops => k \notin A /\ k \notin R BY <1>4
    <2> QED BY <1>1, <1>2, <2>1, Zenon DEF Touches
  <1> QED BY <1>3, <1>4, Zenon

-----------------------------------------------------------------------------
(* What a step that leaves them alone does to the parts of the invariant.  *)
LEMMA FitsKept ==
  ASSUME NEW A, NEW R, Touches(A, R)
  PROVE /\ FillFits /\ "fill" \notin A /\ UNCHANGED fills => FillFits'
        /\ PushFits /\ A \cap {"push", "build"} = {} /\ UNCHANGED refs /\ UNCHANGED pushes =>
           PushFits'
        /\ LockFits /\ A \cap {"build", "unlock"} = {} /\ UNCHANGED winlock => LockFits'
        /\ SubmitFits /\ "submit" \notin A /\ UNCHANGED refs => SubmitFits'
        /\ StoreFits /\ A \cap {"queue", "snapshot"} = {} /\ UNCHANGED store => StoreFits'
        /\ LayerFits /\ "present" \notin A /\ UNCHANGED composition => LayerFits'
        /\ DeinitFits /\ "deinit" \notin A /\ UNCHANGED srefs /\ UNCHANGED front /\
           UNCHANGED life => DeinitFits'
  <1>1. ASSUME FillFits, "fill" \notin A, UNCHANGED fills PROVE FillFits'
    BY <1>1, WasThere DEF FillFits, Fill1
  <1>2. ASSUME PushFits, A \cap {"push", "build"} = {}, UNCHANGED refs, UNCHANGED pushes
        PROVE  PushFits'
    BY <1>2, WasThere DEF PushFits, Push1
  <1>3. ASSUME LockFits, A \cap {"build", "unlock"} = {}, UNCHANGED winlock PROVE LockFits'
    BY <1>3, WasThere DEF LockFits, Lock1
  <1>4. ASSUME SubmitFits, "submit" \notin A, UNCHANGED refs PROVE SubmitFits'
    BY <1>4, WasThere DEF SubmitFits, Submit1
  <1>5. ASSUME StoreFits, A \cap {"queue", "snapshot"} = {}, UNCHANGED store PROVE StoreFits'
    BY <1>5, WasThere DEF StoreFits, Store1
  <1>6. ASSUME LayerFits, "present" \notin A, UNCHANGED composition PROVE LayerFits'
    BY <1>6, WasThere DEF LayerFits, Layer1
  <1>7. ASSUME DeinitFits, "deinit" \notin A, UNCHANGED srefs, UNCHANGED front, UNCHANGED life
        PROVE  DeinitFits'
    BY <1>7, WasThere DEF DeinitFits, Deinit1
  <1> QED BY <1>1, <1>2, <1>3, <1>4, <1>5, <1>6, <1>7

(* Pushes and deinits stay different.                                      *)
LEMMA DifferKept ==
  ASSUME NEW A, NEW R, Touches(A, R)
  PROVE /\ PushesDiffer /\ A \cap {"push", "build"} = {} => PushesDiffer'
        /\ DeinitsDiffer /\ "deinit" \notin A => DeinitsDiffer'
  <1>1. ASSUME PushesDiffer, A \cap {"push", "build"} = {} PROVE PushesDiffer'
    <2>1. \A z : StackSet(todo', OfReq({"push", "build"}, z)) \subseteq StackSet(todo,
            OfReq({"push", "build"}, z))
      BY <1>1, TouchesOfs
    <2> QED BY <1>1, <2>1 DEF PushesDiffer, Single
  <1>2. ASSUME DeinitsDiffer, "deinit" \notin A PROVE DeinitsDiffer'
    <2>1. {"deinit"} \cap A = {} BY <1>2
    <2>2. \A z : StackSet(todo', Ofs({"deinit"}, z)) \subseteq StackSet(todo,
            Ofs({"deinit"}, z))
      BY <2>1, TouchesOfs
    <2> QED BY <1>2, <2>2 DEF DeinitsDiffer, Single
  <1> QED BY <1>1, <1>2

(* The one commit under way stays one.                                     *)
LEMMA BatonsKept ==
  ASSUME NEW A, NEW R, Touches(A, R), A \cap BatonOps = {}, R \cap BatonOps = {}, BatonsOK,
         UNCHANGED waiting, UNCHANGED kmsVars
  PROVE BatonsOK'
  <1>1. StackSet(todo', OfOps(BatonOps)) = StackSet(todo, OfOps(BatonOps))
    <2>1. BatonOps \cap A = {} /\ BatonOps \cap R = {} OBVIOUS
    <2> QED BY <2>1, TouchesOfs
  <1>2. UNCHANGED <<inflight, callback, flips, lost>> BY DEF kmsVars
  <1> QED BY <1>1, <1>2 DEF BatonsOK, BatonsOf, Busy

(* The owners of every slot stay.                                          *)
LEMMA OwnersKept ==
  ASSUME NEW A, NEW R, Touches(A, R), "unref" \notin A \cup R, todo \in Stacks,
         todo' \in Stacks,
         \A s \in Slots : (store'[s] # "none") <=> (store[s] # "none"),
         UNCHANGED composition, UNCHANGED building, UNCHANGED layers
  PROVE \A s \in Slots : Owners(s)' = Owners(s)
  <1> TAKE s \in Slots
  <1>1. StackSet(todo', Ofs({"unref"}, s)) = StackSet(todo, Ofs({"unref"}, s))
    <2>1. {"unref"} \cap A = {} /\ {"unref"} \cap R = {} OBVIOUS
    <2> QED BY <2>1, TouchesOfs
  <1>2. When(store'[s] # "none", "flutter") = When(store[s] # "none", "flutter")
    BY DEF When
  <1>3. Owners(s)' = OwnersOf(store', composition, building, layers, todo', s) BY OwnersNext
  <1>4. Owners(s) = OwnersOf(store, composition, building, layers, todo, s) BY OwnersNow
  <1> QED BY <1>1, <1>2, <1>3, <1>4, Zenon DEF OwnersOf

(* The pins of every slot stay.                                            *)
LEMMA PinsKept ==
  ASSUME NEW A, NEW R, Touches(A, R), "unpin" \notin A \cup R, todo \in Stacks,
         todo' \in Stacks, UNCHANGED front
  PROVE \A s \in Slots : Pins(s)' = Pins(s)
  <1> TAKE s \in Slots
  <1>1. StackSet(todo', Ofs({"unpin"}, s)) = StackSet(todo, Ofs({"unpin"}, s))
    <2>1. {"unpin"} \cap A = {} /\ {"unpin"} \cap R = {} OBVIOUS
    <2> QED BY <2>1, TouchesOfs
  <1>2. Pins(s)' = PinsOf(front, todo', s) BY PinsNext
  <1>3. Pins(s) = PinsOf(front, todo, s) BY PinsNow
  <1> QED BY <1>1, <1>2, <1>3, Zenon DEF PinsOf

(* The counts of slots stay exact.                                         *)
LEMMA SlotsKept ==
  ASSUME \A s \in Slots : Owners(s)' = Owners(s),
         \A s \in Slots : Pins(s)' = Pins(s), UNCHANGED nrefs, SlotsCounted
  PROVE SlotsCounted'
  BY DEF SlotsCounted

(* The counts of surfaces stay exact.                                      *)
LEMMA SurfacesKept ==
  ASSUME NEW A, NEW R, Touches(A, R), "unown" \notin A \cup R, todo \in Stacks,
         todo' \in Stacks,
         \A s \in Slots : Owners(s)' = Owners(s), UNCHANGED current, UNCHANGED srefs,
           SurfacesCounted
  PROVE SurfacesCounted'
  <1>1. \A x : StackSet(todo', Ofs({"unown"}, x)) = StackSet(todo, Ofs({"unown"}, x))
    <2>1. {"unown"} \cap A = {} /\ {"unown"} \cap R = {} OBVIOUS
    <2> QED BY <2>1, TouchesOfs
  <1>2. [z \in Slots |-> Owners(z)'] = [z \in Slots |-> Owners(z)]
    OBVIOUS
  <1>3. ASSUME NEW x \in Surfaces PROVE SurfaceOwners(x)' = SurfaceOwners(x)
    <2>1. SurfaceOwners(x)' = SurfaceOwnersOf(current, todo', [z \in Slots |-> Owners(z)'], x)
      BY SurfaceOwnersNext
    <2>2. SurfaceOwners(x) = SurfaceOwnersOf(current, todo, [z \in Slots |-> Owners(z)], x)
      BY SurfaceOwnersNow
    <2> QED BY <1>1, <1>2, <2>1, <2>2, Zenon DEF SurfaceOwnersOf
  <1> QED BY <1>3 DEF SurfacesCounted

(* The counts of requests stay exact.                                      *)
LEMMA RequestsKept ==
  ASSUME NEW A, NEW R, Touches(A, R), A \cap ReqOps = {}, R \cap ReqOps = {}, todo \in Stacks,
         todo' \in Stacks,
         UNCHANGED queued, UNCHANGED kmsVars, UNCHANGED refs, RequestsCounted
  PROVE RequestsCounted'
  <1>1. \A r : StackSet(todo', OfReq(ReqOps, r)) = StackSet(todo, OfReq(ReqOps, r))
    <2>1. ReqOps \cap A = {} /\ ReqOps \cap R = {} OBVIOUS
    <2> QED BY <2>1, TouchesOfs
  <1>2. UNCHANGED <<inflight, callback, screen, flips>> BY DEF kmsVars
  <1>3. ASSUME NEW r \in Requests PROVE RequestOwners(r)' = RequestOwners(r)
    <2>1. RequestOwners(r)' =
          RequestOwnersOf(todo', queued, inflight, callback, screen, flips, r)
      BY <1>2, RequestOwnersNext
    <2>2. RequestOwners(r) = RequestOwnersOf(todo, queued, inflight, callback, screen, flips, r)
      BY RequestOwnersNow
    <2> QED BY <1>1, <2>1, <2>2, ZenonT(30) DEF RequestOwnersOf, ReqOps
  <1> QED BY <1>3 DEF RequestsCounted

(* Only requests with a count have layers.                                 *)
LEMMA LayersKept ==
  ASSUME LayersCounted, UNCHANGED layers, UNCHANGED refs, UNCHANGED pushes PROVE LayersCounted'
  BY DEF LayersCounted

(* The clean-up of slots stays as it was.                                  *)
LEMMA CleaningKept ==
  ASSUME NEW A, NEW R, Touches(A, R), A \cap {"reset", "clear"} = {},
         R \cap {"reset", "clear"} = {},
         UNCHANGED nrefs, UNCHANGED locked, UNCHANGED owner, UNCHANGED completion, CleaningOK
  PROVE CleaningOK'
  <1>1. {"reset"} \cap A = {} /\ {"reset"} \cap R = {} /\ {"clear"} \cap A = {} /\
        {"clear"} \cap R = {} OBVIOUS
  <1>2. \A s : Clearing(s)' = Clearing(s) /\ Resetting(s)' = Resetting(s)
    BY <1>1, TouchesOfs DEF Clearing, Resetting
  <1> QED BY <1>2 DEF CleaningOK

(* The life of the surfaces stays as it was.                               *)
LEMMA LivesKept ==
  ASSUME LivesOK, UNCHANGED srefs, UNCHANGED life, UNCHANGED current, UNCHANGED front
  PROVE  LivesOK'
  BY DEF LivesOK

(* What is rendered stays rendered.                                        *)
LEMMA RenderedKept ==
  ASSUME RenderedOK, UNCHANGED composition, UNCHANGED building, UNCHANGED layers,
         UNCHANGED store,
         UNCHANGED completion, UNCHANGED gpu, UNCHANGED screen, UNCHANGED sem
  PROVE RenderedOK'
  BY DEF RenderedOK, InUse, ScanoutAfterRender

(* Images in use stay the same.                                            *)
LEMMA ImagesKept ==
  ASSUME ImagesStable, UNCHANGED composition, UNCHANGED building, UNCHANGED layers,
         UNCHANGED locked, UNCHANGED image
  PROVE ImagesStable'
  BY DEF ImagesStable

-----------------------------------------------------------------------------
(* The shape of a stack after a step.                                      *)
LEMMA ShapedStep ==
  ASSUME NEW stk, NEW new, NEW t, NEW m, NEW tasks, Stepped(stk, new, t, m, tasks), Shaped(stk),
         \A i \in 1 .. Len(tasks) : PlaceOK(tasks[i], t, m + Len(tasks) - i) /\
           BelowOK(new, t, m + Len(tasks) - i)
  PROVE Shaped(new)
  <1> SUFFICES ASSUME NEW u \in Threads, NEW d \in Nat, Has(new, u, d)
               PROVE PlaceOK(TaskAt(new, u, d), u, d) /\ BelowOK(new, u, d)
    BY DEF Shaped
  <1>0. m \in Nat /\ t \in Threads BY SteppedTasks
  <1>1. CASE u # t \/ d < m
    <2>1. Has(stk, u, d) /\ TaskAt(new, u, d) = TaskAt(stk, u, d) BY <1>1, SteppedTasks
    <2>2. \A e \in Nat : e <= d => TaskAt(new, u, e) = TaskAt(stk, u, e)
      <3> TAKE e \in Nat
      <3> HAVE e <= d
      <3>1. u # t \/ e < m BY <1>0, <1>1
      <3> QED BY <3>1, SteppedTasks
    <2>3. PlaceOK(TaskAt(stk, u, d), u, d) /\ BelowOK(stk, u, d) BY <2>1 DEF Shaped
    <2>4. \A e \in 0 .. d - 1 : TaskAt(new, u, e) = TaskAt(stk, u, e) BY <2>2
    <2>5. \A e \in 2 .. d : TaskAt(new, u, e) = TaskAt(stk, u, e) BY <2>2
    <2>6. d >= 1 => TaskAt(new, u, d - 1) = TaskAt(stk, u, d - 1) /\
          TaskAt(new, u, 1) = TaskAt(stk, u, 1)
      BY <2>2
    <2>7. TaskAt(new, u, 0) = TaskAt(stk, u, 0) BY <2>2
    <2>8. BelowOK(new, u, d)
      BY <2>1, <2>3, <2>4, <2>5, <2>6, <2>7 DEF BelowOK
    <2> QED BY <2>1, <2>3, <2>8
  <1>2. CASE u = t /\ d >= m
    <2> DEFINE i == m + Len(tasks) - d
    <2>1. i \in 1 .. Len(tasks) /\ TaskAt(new, t, d) = tasks[i] BY <1>2, SteppedTasks
    <2>2. m + Len(tasks) - i = d /\ Len(tasks) \in Nat BY <1>0, SteppedTasks
    <2> QED BY <1>2, <2>1, <2>2
  <1> QED BY <1>0, <1>1, <1>2

(* Tasks that rest on nothing.                                             *)
PlainOps == {"fill", "push", "build", "unlock", "commit", "failed", "dispatch", "scanout",
             "requnref", "unref", "unown", "deinit"}
(* Plain tasks rest on anything.                                           *)
LEMMA BelowPlain ==
  ASSUME NEW stk, NEW t, NEW d, TaskAt(stk, t, d).op \in PlainOps
  PROVE  BelowOK(stk, t, d)
  BY DEF BelowOK, PlainOps

(* A step that puts down plain tasks.                                      *)
LEMMA ShapedPlain ==
  ASSUME NEW stk, NEW new, NEW t, NEW m, NEW tasks, Stepped(stk, new, t, m, tasks), Shaped(stk),
         \A i \in 1 .. Len(tasks) : PlaceOK(tasks[i], t, m + Len(tasks) - i) /\
           tasks[i].op \in PlainOps
  PROVE Shaped(new)
  <1>1. \A i \in 1 .. Len(tasks) : TaskAt(new, t, m + Len(tasks) - i) = tasks[i]
    BY SteppedTasks
  <1>2. \A i \in 1 .. Len(tasks) : BelowOK(new, t, m + Len(tasks) - i)
    BY <1>1, BelowPlain
  <1> QED BY <1>2, ShapedStep

(* What a count tells of a set.                                            *)
LEMMA CountFacts ==
  ASSUME NEW n, NEW S, Counted(n, S)
  PROVE /\ n \in Nat
        /\ \A x \in S : n > 0
        /\ \A x, y \in S : x # y => n > 1
        /\ n > 0 => S # {}
        /\ n = 0 => S = {}
        /\ n = 1 => Single(S)
  <1>1. n \in Nat BY CountType DEF Counted
  <1>2. n = 0 <=> S = {} BY FS_EmptySet DEF Counted
  <1>3. ASSUME n = 1 PROVE Single(S)
    <2>1. \E x : S = {x} BY <1>3, FS_Singleton DEF Counted
    <2> QED BY <2>1 DEF Single
  <1> QED BY <1>1, <1>2, <1>3 DEF Single

(* Slots, surfaces and the names of surfaces among slots.                  *)
LEMMA SlotIs ==
  /\ \A s \in Slots : SurfaceOf(s) \in Surfaces /\ s \in {SurfaceOf(s)} \X Pool /\ s # NoSlot /\
     s[2] \in Pool
                      /\ s # <<SurfaceOf(s), 0>> /\ s \notin Surfaces \X {0}
  /\ \A x \in Surfaces : x \in Nat /\ x > 0 /\ <<x, 0>> \in Surfaces \X {0} /\
     SurfaceOf(<<x, 0>>) = x /\ <<x, 0>> # NoSlot
  /\ \A z \in Surfaces \X {0} : SurfaceOf(z) \in Surfaces /\ z = <<SurfaceOf(z), 0>>
  <1>1. 0 \notin Pool BY BoundsAssumption
  <1> QED BY <1>1 DEF Slots, Surfaces, SurfaceOf, NoSlot

(* Requests are numbers other than 0.                                      *)
LEMMA RequestIs == \A r \in Requests : r \in Nat /\ r # 0 /\ r \in 0 .. MaxRequests
  BY BoundsAssumption DEF Requests

(* The fields of a task.                                                   *)
LEMMA TaskIs ==
  /\ \A op \in Ops : \A z \in Slots \cup (Surfaces \X {0}) : /\ Task(op, z) \in Tasks /\
                                                                Task(op, z).op = op
                                                               /\ Task(op, z).slot = z /\
                                                                  Task(op, z).req = 0
  /\ \A op \in Ops : \A r \in Requests : /\ ReqTask(op, r) \in Tasks /\ ReqTask(op, r).op = op
                                          /\ ReqTask(op, r).req = r /\
                                             ReqTask(op, r).slot = NoSlot
  /\ \A op \in Ops : Call(op) \in Tasks /\ Call(op).op = op /\ Call(op).req = 0 /\
     Call(op).slot = NoSlot
  /\ \A r \in Requests : \A l : l.slot \in Slots =>
         Present(r, l) \in Tasks /\ Present(r, l).op = "present" /\ Present(r, l).req = r /\
           Present(r, l).slot = l.slot
  <1>1. 0 \in 0 .. MaxRequests BY BoundsAssumption
  <1> QED BY <1>1, RequestIs DEF Task, ReqTask, Call, Present, Tasks, Ops

(* The stacks are well typed.                                              *)
LEMMA StacksTyped == TypeOK => todo \in Stacks
  BY DEF TypeOK, Stacks

(* The task at the top of a stack is in its place and fits the state.      *)
LEMMA TopOK ==
  ASSUME ScanoutInv, NEW t \in Threads, todo[t] # <<>>
  PROVE LET k == Head(todo[t])
            m == Len(todo[t]) - 1
        IN  /\ k \in Tasks /\ m \in Nat /\ Has(todo, t, m) /\ TaskAt(todo, t, m) = k
            /\ PlaceOK(k, t, m) /\ BelowOK(todo, t, m)
            /\ Fill1(k) /\ Push1(k) /\ Lock1(k, t) /\ Submit1(k) /\ Store1(k) /\ Layer1(k) /\
               Deinit1(k)
  <1> DEFINE k == Head(todo[t])
             m == Len(todo[t]) - 1
  <1>1. todo \in Stacks BY StacksTyped DEF ScanoutInv
  <1>2. k \in Tasks /\ m \in Nat /\ Has(todo, t, m) /\ TaskAt(todo, t, m) = k BY <1>1, TopIs
  <1> HIDE DEF k, m
  <1>3. PlaceOK(k, t, m) /\ BelowOK(todo, t, m) BY <1>2 DEF ScanoutInv, Shaped
  <1>4. TasksFit BY DEF ScanoutInv
  <1>5. Fill1(k) /\ Push1(k) /\ Lock1(k, t)
    BY <1>2, <1>4 DEF TasksFit, FillFits, PushFits, LockFits
  <1>6. Submit1(k) /\ Store1(k) /\ Layer1(k) /\ Deinit1(k)
    BY <1>2, <1>4 DEF TasksFit, SubmitFits, StoreFits, LayerFits, DeinitFits
  <1> QED BY <1>2, <1>3, <1>5, <1>6 DEF k, m

(* What an owner of a slot keeps alive.                                    *)
LEMMA OwnerKeeps ==
  ASSUME ScanoutInv, NEW s \in Slots, NEW o \in Owners(s)
  PROVE /\ nrefs[s] > 0 /\ srefs[SurfaceOf(s)] > 0 /\ locked[s] /\ owner[s]
        /\ life[SurfaceOf(s)] = "live" /\ SurfaceOf(s) \in Surfaces /\ SurfaceOf(s) <= current
  <1>1. todo \in Stacks BY StacksTyped DEF ScanoutInv
  <1>2. SurfaceOf(s) \in Surfaces /\ s \in {SurfaceOf(s)} \X Pool BY SlotIs
  <1>3. nrefs[s] > 0
    <2>1. Counted(nrefs[s], Owners(s) \cup Pins(s)) BY DEF ScanoutInv, SlotsCounted
    <2> QED BY <2>1, CountFacts
  <1>4. srefs[SurfaceOf(s)] > 0
    <2>1. Counted(srefs[SurfaceOf(s)], SurfaceOwners(SurfaceOf(s)))
      BY <1>2 DEF ScanoutInv, SurfacesCounted
    <2> DEFINE F == [z \in Slots |-> Owners(z)]
    <2>2. F[s] = Owners(s) OBVIOUS
    <2> HIDE DEF F
    <2>3. SlotToken(s, o) \in Nested({SurfaceOf(s)} \X Pool, F) BY <1>2, <2>2, NestedIs
    <2>4. SurfaceOwners(SurfaceOf(s)) = SurfaceOwnersOf(current, todo, F, SurfaceOf(s))
      BY <1>1, <1>2, SurfaceOwnersNow DEF F
    <2>5. SlotToken(s, o) \in SurfaceOwners(SurfaceOf(s)) BY <2>3, <2>4 DEF SurfaceOwnersOf
    <2> QED BY <2>1, <2>5, CountFacts
  <1>5. locked[s] /\ owner[s] BY <1>3 DEF ScanoutInv, CleaningOK
  <1>6. life[SurfaceOf(s)] = "live" BY <1>2, <1>4 DEF ScanoutInv, LivesOK
  <1>7. SurfaceOf(s) <= current
    <2>1. current \in Surfaces BY DEF ScanoutInv, TypeOK
    <2>2. ~(SurfaceOf(s) > current) BY <1>2, <1>6 DEF ScanoutInv, LivesOK
    <2>3. current \in Nat /\ SurfaceOf(s) \in Nat BY <1>2, <2>1, SlotIs
    <2> QED BY <2>2, <2>3
  <1> QED BY <1>2, <1>3, <1>4, <1>5, <1>6, <1>7

(* Whatever holds a slot is among its owners.                              *)
LEMMA OwnersHave ==
  ASSUME todo \in Stacks, NEW s \in Slots
  PROVE /\ store[s] # "none" => Owners(s) # {}
        /\ \A i \in DOMAIN composition : composition[i].slot = s => Owners(s) # {}
        /\ \A i \in DOMAIN building : building[i].slot = s => Owners(s) # {}
        /\ \A r \in Requests :
           \A i \in DOMAIN layers[r] : layers[r][i].slot = s => Owners(s) # {}
        /\ \A t \in Threads : \A d \in Nat :
              Has(todo, t, d) /\ TaskAt(todo, t, d) \in Ofs({"unref"}, s) =>
                Tok(t, d) \in Owners(s)
        /\ \A t \in Threads : \A d \in Nat :
              Has(todo, t, d) /\ TaskAt(todo, t, d) \in Ofs({"unpin"}, s) =>
                Tok(t, d) \in Pins(s)
  <1>1. Owners(s) = OwnersOf(store, composition, building, layers, todo, s) BY OwnersNow
  <1>2. store[s] # "none" => Owners(s) # {} BY <1>1 DEF OwnersOf, When
  <1>3. \A i \in DOMAIN composition : composition[i].slot = s => Owners(s) # {}
    BY <1>1 DEF OwnersOf, LayersOn
  <1>4. \A i \in DOMAIN building : building[i].slot = s => Owners(s) # {}
    BY <1>1 DEF OwnersOf, LayersOn
  <1>5. ASSUME NEW r \in Requests, NEW i \in DOMAIN layers[r], layers[r][i].slot = s
        PROVE  Owners(s) # {}
    <2>1. <<"request", r, i>> \in LayersOn("request", r, layers[r], s) BY <1>5 DEF LayersOn
    <2>2. <<"request", r, i>> \in ReqLayers(layers, s) BY <2>1 DEF ReqLayers
    <2> QED BY <1>1, <2>2 DEF OwnersOf
  <1>6. \A t \in Threads : \A d \in Nat :
              Has(todo, t, d) /\ TaskAt(todo, t, d) \in Ofs({"unref"}, s) =>
                Tok(t, d) \in Owners(s)
    BY <1>1, TokIn DEF OwnersOf
  <1>7. Pins(s) = PinsOf(front, todo, s) BY PinsNow
  <1>8. \A t \in Threads : \A d \in Nat :
              Has(todo, t, d) /\ TaskAt(todo, t, d) \in Ofs({"unpin"}, s) =>
                Tok(t, d) \in Pins(s)
    BY <1>7, TokIn DEF PinsOf
  <1> QED BY <1>2, <1>3, <1>4, <1>5, <1>6, <1>8

(* Owners of a request.                                                    *)
LEMMA RequestHas ==
  ASSUME todo \in Stacks, NEW r \in Requests
  PROVE /\ \A t \in Threads : \A d \in Nat :
              Has(todo, t, d) /\ TaskAt(todo, t, d) \in OfReq(ReqOps, r) =>
                Tok(t, d) \in RequestOwners(r)
        /\ queued = r => <<"mailbox", 0, 0>> \in RequestOwners(r)
        /\ inflight = r => <<"event", 0, 0>> \in RequestOwners(r)
        /\ screen = r => <<"last_flipped", 0, 0>> \in RequestOwners(r)
        /\ \A i \in DOMAIN flips : flips[i].retired = r =>
           <<"retired", 0, i>> \in RequestOwners(r)
        /\ \A i \in DOMAIN flips : flips[i].frame = r =>
           <<"flipped", 0, i>> \in RequestOwners(r)
  <1>1. RequestOwners(r) = RequestOwnersOf(todo, queued, inflight, callback, screen, flips, r)
    BY RequestOwnersNow
  <1>2. \A t \in Threads : \A d \in Nat :
              Has(todo, t, d) /\ TaskAt(todo, t, d) \in OfReq(ReqOps, r) =>
                Tok(t, d) \in RequestOwners(r)
    BY <1>1, TokIn DEF RequestOwnersOf, ReqOps
  <1>3. /\ queued = r => <<"mailbox", 0, 0>> \in RequestOwners(r)
        /\ inflight = r => <<"event", 0, 0>> \in RequestOwners(r)
        /\ screen = r => <<"last_flipped", 0, 0>> \in RequestOwners(r)
    BY <1>1 DEF RequestOwnersOf, When
  <1>4. \A i \in DOMAIN flips : flips[i].retired = r => <<"retired", 0, i>> \in RequestOwners(r)
    BY <1>1 DEF RequestOwnersOf
  <1>5. \A i \in DOMAIN flips : flips[i].frame = r => <<"flipped", 0, i>> \in RequestOwners(r)
    BY <1>1 DEF RequestOwnersOf
  <1> QED BY <1>2, <1>3, <1>4, <1>5

(* A list of length one.                                                   *)
LEMMA OneLong ==
  ASSUME NEW X, NEW q \in Seq(X), Len(q) = 1
  PROVE q = <<q[1]>> /\ Head(q) = q[1] /\ Tail(q) = <<>> /\ q[1] \in X
  <1>1. q[1] \in X OBVIOUS
  <1>2. q = <<q[1]>> OBVIOUS
  <1>3. Head(q) = q[1] OBVIOUS
  <1>4. Tail(q) = <<>> 
    <2>1. Tail(q) \in Seq(X) /\ Len(Tail(q)) = 0 OBVIOUS
    <2> QED BY <2>1, EmptySeq
  <1> QED BY <1>1, <1>2, <1>3, <1>4

(* The baton excludes every other commit.                                  *)
LEMMA BatonAlone ==
  ASSUME ScanoutInv
  PROVE /\ \A t \in Threads :
           \A d \in Nat : Has(todo, t, d) /\ TaskAt(todo, t, d).op \in BatonOps =>
              /\ Busy /\ inflight = 0 /\ callback = 0 /\ flips = <<>>
        /\ inflight # 0 => Busy /\ flips = <<>>
        /\ Len(flips) \in {0, 1} /\
           (flips # <<>> => Len(flips) = 1 /\ inflight = 0 /\ callback = 0 /\ Busy)
        /\ flips # <<>> => flips = <<flips[1]>> /\ Head(flips) = flips[1] /\ Tail(flips) = <<>>
              /\ flips[1] \in [retired : 0 .. MaxRequests, frame : 0 .. MaxRequests] /\
                 flips[1].frame # 0
        /\ callback = inflight
  <1>1. Counted(One(Busy), BatonsOf(todo, inflight, flips)) /\ callback = inflight
    BY DEF ScanoutInv, BatonsOK
  <1>2. Busy \in BOOLEAN /\
        flips \in Seq([retired : 0 .. MaxRequests, frame : 0 .. MaxRequests]) /\ todo \in Stacks
    BY StacksTyped DEF ScanoutInv, TypeOK, Busy
  <1>3. ASSUME NEW x \in BatonsOf(todo, inflight, flips)
        PROVE  Busy /\ \A y \in BatonsOf(todo, inflight, flips) : y = x
    <2>1. One(Busy) > 0 BY <1>1, CountFacts
    <2>2. Busy /\ One(Busy) = 1 BY <1>2, <2>1 DEF One
    <2>3. Single(BatonsOf(todo, inflight, flips)) BY <1>1, <2>2, CountFacts
    <2> QED BY <2>2, <2>3 DEF Single
  <1>4. ASSUME NEW t \in Threads, NEW d \in Nat, Has(todo, t, d),
               TaskAt(todo, t, d).op \in BatonOps
        PROVE Busy /\ inflight = 0 /\ flips = <<>>
    <2>1. TaskAt(todo, t, d) \in OfOps(BatonOps) BY <1>2, <1>4, StackType DEF OfOps
    <2>2. Tok(t, d) \in BatonsOf(todo, inflight, flips) BY <1>4, <2>1, TokIn DEF BatonsOf
    <2>3. \A i : Tok(t, d) # <<"flipped", 0, i>> BY DEF Tok
    <2>4. Tok(t, d) # <<"event", 0, 0>> BY DEF Tok
    <2>5. inflight # 0 => <<"event", 0, 0>> \in BatonsOf(todo, inflight, flips)
      BY DEF BatonsOf, When
    <2>6. \A i \in DOMAIN flips : <<"flipped", 0, i>> \in BatonsOf(todo, inflight, flips)
      BY DEF BatonsOf, Recorded
    <2>7. DOMAIN flips = {} BY <1>3, <2>2, <2>3, <2>6
    <2> QED BY <1>2, <1>3, <2>2, <2>4, <2>5, <2>7
  <1>5. ASSUME inflight # 0 PROVE Busy /\ flips = <<>>
    <2>5. <<"event", 0, 0>> \in BatonsOf(todo, inflight, flips) BY <1>5 DEF BatonsOf, When
    <2>6. \A i \in DOMAIN flips : <<"flipped", 0, i>> \in BatonsOf(todo, inflight, flips)
      BY DEF BatonsOf, Recorded
    <2>7. DOMAIN flips = {} BY <1>3, <2>5, <2>6
    <2> QED BY <1>2, <1>3, <2>5, <2>7
  <1>6. ASSUME flips # <<>> PROVE Len(flips) = 1 /\ inflight = 0 /\ Busy
    <2>6. \A i \in DOMAIN flips : <<"flipped", 0, i>> \in BatonsOf(todo, inflight, flips)
      BY DEF BatonsOf, Recorded
    <2>7. \A i, j \in DOMAIN flips : i = j BY <1>3, <2>6
    <2>8. DOMAIN flips = 1 .. Len(flips) /\ Len(flips) \in Nat /\ Len(flips) # 0 BY <1>2, <1>6
    <2>9. 1 \in DOMAIN flips /\ Len(flips) \in DOMAIN flips BY <2>8
    <2>10. Busy BY <1>3, <2>6, <2>9
    <2> QED BY <1>5, <1>6, <2>7, <2>9, <2>10
  <1>7. ASSUME flips # <<>>
        PROVE flips = <<flips[1]>> /\ Head(flips) = flips[1] /\ Tail(flips) = <<>>
              /\ flips[1] \in [retired : 0 .. MaxRequests, frame : 0 .. MaxRequests] /\
                 flips[1].frame # 0
    <2>1. Len(flips) = 1 BY <1>6, <1>7
    <2>2. /\ flips = <<flips[1]>> /\ Head(flips) = flips[1] /\ Tail(flips) = <<>>
          /\ flips[1] \in [retired : 0 .. MaxRequests, frame : 0 .. MaxRequests]
      BY <1>2, <2>1, OneLong, Zenon
    <2>3. 1 \in DOMAIN flips BY <1>2, <2>1
    <2> QED BY <2>2, <2>3 DEF ScanoutInv, BatonsOK
  <1>8. Len(flips) \in {0, 1} BY <1>2, <1>6
  <1>9. inflight \in Nat BY BoundsAssumption DEF ScanoutInv, TypeOK
  <1> QED BY <1>1, <1>4, <1>5, <1>6, <1>7, <1>8

-----------------------------------------------------------------------------
(* The invariant in two halves: requests, and slots with their surfaces.   *)
RequestSide ==
    /\ PushFits /\ LockFits /\ SubmitFits /\ PushesDiffer /\ BatonsOK
    /\ RequestsCounted /\ LayersCounted
SlotSide ==
    /\ FillFits /\ StoreFits /\ DeinitFits /\ DeinitsDiffer /\ SlotsCounted
    /\ SurfacesCounted /\ CleaningOK /\ LivesOK /\ ImagesStable

(* The invariant in halves.                                                *)
LEMMA InvIs ==
  ScanoutInv <=> TypeOK /\ Shaped(todo) /\ RequestSide /\ SlotSide /\ LayerFits /\ RenderedOK
  BY DEF ScanoutInv, TasksFit, RequestSide, SlotSide

(* ... put together after a step.                                          *)
LEMMA InvNext ==
  ASSUME TypeOK', Shaped(todo'), RequestSide', SlotSide', LayerFits', RenderedOK'
  PROVE  ScanoutInv'
  <1>1. Shaped(todo)' OBVIOUS
  <1> QED BY <1>1 DEF ScanoutInv, TasksFit, RequestSide, SlotSide

RequestSideOps == {"push", "build", "unlock", "submit", "commit", "failed", "scanout",
  "requnref"}
SlotSideOps == {"fill", "queue", "snapshot", "unref", "unpin", "reset", "clear", "unown",
  "deinit"}

(* A step that leaves requests and commits alone.                          *)
LEMMA RequestSideKept ==
  ASSUME ScanoutInv, NEW A, NEW R, Touches(A, R), A \cap RequestSideOps = {},
         R \cap RequestSideOps = {},
         todo' \in Stacks, UNCHANGED pushes, UNCHANGED winlock, UNCHANGED reqVars,
           UNCHANGED schedVars, UNCHANGED kmsVars
  PROVE RequestSide'
  <1>1. RequestSide /\ todo \in Stacks BY InvIs, StacksTyped
  <1>2. UNCHANGED refs /\ UNCHANGED layers /\ UNCHANGED waiting /\ UNCHANGED queued
    BY DEF reqVars, schedVars
  <1>3. \A z : z \in RequestSideOps => z \notin A /\ z \notin R OBVIOUS
  <1>4. /\ A \cap {"push", "build"} = {} /\ A \cap {"build", "unlock"} = {} /\ "submit" \notin A
        /\ A \cap BatonOps = {} /\ R \cap BatonOps = {} /\ A \cap ReqOps = {} /\
           R \cap ReqOps = {}
    BY <1>3 DEF RequestSideOps, BatonOps, ReqOps
  <1>5. PushFits' /\ LockFits' /\ SubmitFits'
    BY <1>1, <1>2, <1>4, FitsKept DEF RequestSide
  <1>6. PushesDiffer' BY <1>1, <1>4, DifferKept DEF RequestSide
  <1>7. BatonsOK' BY <1>1, <1>2, <1>4, BatonsKept DEF RequestSide
  <1>8. RequestsCounted' BY <1>1, <1>2, <1>4, RequestsKept DEF RequestSide
  <1>9. LayersCounted' BY <1>1, <1>2, LayersKept DEF RequestSide
  <1> QED BY <1>5, <1>6, <1>7, <1>8, <1>9 DEF RequestSide

(* A step that leaves slots and surfaces alone.                            *)
LEMMA SlotSideKept ==
  ASSUME ScanoutInv, NEW A, NEW R, Touches(A, R), A \cap SlotSideOps = {},
         R \cap SlotSideOps = {},
         todo' \in Stacks, UNCHANGED slotVars, UNCHANGED surfVars, UNCHANGED composition,
           UNCHANGED building,
         UNCHANGED layers
  PROVE SlotSide'
  <1>1. SlotSide /\ todo \in Stacks BY InvIs, StacksTyped
  <1>2. UNCHANGED locked /\ UNCHANGED owner /\ UNCHANGED nrefs /\ UNCHANGED store /\
        UNCHANGED completion
        /\ UNCHANGED image /\ UNCHANGED fills /\ UNCHANGED life /\ UNCHANGED srefs /\
           UNCHANGED front /\ UNCHANGED current
    BY DEF slotVars, surfVars
  <1>3. \A z : z \in SlotSideOps => z \notin A /\ z \notin R OBVIOUS
  <1>4. /\ A \cap {"queue", "snapshot"} = {} /\ "fill" \notin A /\ "deinit" \notin A
        /\ "unref" \notin A \cup R /\ "unpin" \notin A \cup R /\ "unown" \notin A \cup R
        /\ A \cap {"reset", "clear"} = {} /\ R \cap {"reset", "clear"} = {}
    BY <1>3 DEF SlotSideOps
  <1>5. FillFits' /\ StoreFits' /\ DeinitFits'
    BY <1>1, <1>2, <1>4, FitsKept DEF SlotSide
  <1>6. DeinitsDiffer' BY <1>1, <1>4, DifferKept DEF SlotSide
  <1>7. \A s \in Slots : Owners(s)' = Owners(s) BY <1>1, <1>2, <1>4, OwnersKept
  <1>8. \A s \in Slots : Pins(s)' = Pins(s) BY <1>1, <1>2, <1>4, PinsKept
  <1>9. SlotsCounted' BY <1>1, <1>2, <1>7, <1>8, SlotsKept DEF SlotSide
  <1>10. SurfacesCounted' BY <1>1, <1>2, <1>4, <1>7, SurfacesKept DEF SlotSide
  <1>11. CleaningOK' BY <1>1, <1>2, <1>4, CleaningKept DEF SlotSide
  <1>12. LivesOK' BY <1>1, <1>2, LivesKept DEF SlotSide
  <1>13. ImagesStable' BY <1>1, <1>2, ImagesKept DEF SlotSide
  <1> QED BY <1>5, <1>6, <1>9, <1>10, <1>11, <1>12, <1>13 DEF SlotSide

(* A step that leaves rendering and the screen alone.                      *)
LEMMA RenderedStays ==
  ASSUME ScanoutInv, UNCHANGED slotVars, UNCHANGED gpuVars, UNCHANGED composition,
         UNCHANGED building,
         UNCHANGED layers, UNCHANGED screen
  PROVE RenderedOK'
  <1>1. UNCHANGED store /\ UNCHANGED completion /\ UNCHANGED gpu /\ UNCHANGED sem
    BY DEF slotVars, gpuVars
  <1>2. RenderedOK BY InvIs
  <1> QED BY <1>1, <1>2, RenderedKept

-----------------------------------------------------------------------------
(* Steps.                                                                  *)
LEMMA ListIs ==
  /\ <<>> \in Seq(Tasks) /\ Len(<<>>) = 0
  /\ \A a \in Tasks : <<a>> \in Seq(Tasks) /\ Len(<<a>>) = 1 /\ <<a>>[1] = a
  /\ \A a, b \in Tasks : <<a, b>> \in Seq(Tasks) /\ Len(<<a, b>>) = 2 /\ <<a, b>>[1] = a /\
     <<a, b>>[2] = b
  /\ \A a, b, c \in Tasks : <<a, b, c>> \in Seq(Tasks) /\ Len(<<a, b, c>>) = 3
        /\ <<a, b, c>>[1] = a /\ <<a, b, c>>[2] = b /\ <<a, b, c>>[3] = c
  OBVIOUS

(* Equal lists of length two.                                              *)
LEMMA TwoLong ==
  ASSUME NEW S, NEW r \in Seq(S), NEW q \in Seq(S), Len(r) = 2, Len(q) = 2, r[1] = q[1],
         r[2] = q[2]
  PROVE r = q
  <1>1. \A i \in 1 .. Len(r) : r[i] = q[i] OBVIOUS
  <1> QED BY <1>1, SeqEqual

(* Equal lists of length three.                                            *)
LEMMA ThreeLong ==
  ASSUME NEW S, NEW r \in Seq(S), NEW q \in Seq(S), Len(r) = 3, Len(q) = 3, r[1] = q[1],
         r[2] = q[2], r[3] = q[3]
  PROVE r = q
  <1>1. \A i \in 1 .. Len(r) : r[i] = q[i] OBVIOUS
  <1> QED BY <1>1, SeqEqual

(* Lists of up to three tasks, joined.                                     *)
LEMMA JoinIs ==
  ASSUME NEW a \in Tasks, NEW b \in Tasks, NEW c \in Tasks
  PROVE /\ <<>> \o <<a>> = <<a>> /\ <<a>> \o <<>> = <<a>> /\ <<a>> \o <<b>> = <<a, b>>
        /\ <<>> \o <<>> = <<>>
        /\ <<a, b>> \o <<c>> = <<a, b, c>> /\ <<a, b>> \o <<>> = <<a, b>>
  <1>0. \A q \in Seq(Tasks) : q \o <<>> = q /\ <<>> \o q = q BY ConcatEmptySeq
  <1>1. <<>> \o <<a>> = <<a>> BY <1>0, ListIs
  <1>2. <<a>> \o <<>> = <<a>> BY <1>0, ListIs
  <1>3. <<a>> \o <<b>> = <<a, b>>
    <2>1. <<a>> \o <<b>> \in Seq(Tasks) /\ Len(<<a>> \o <<b>>) = 2 BY ListIs
    <2>2. (<<a>> \o <<b>>)[1] = a /\ (<<a>> \o <<b>>)[2] = b BY ListIs
    <2>3. <<a, b>> \in Seq(Tasks) /\ Len(<<a, b>>) = 2 /\ <<a, b>>[1] = a /\ <<a, b>>[2] = b
      BY ListIs
    <2> DEFINE r == <<a>> \o <<b>>
               q == <<a, b>>
    <2>4. r \in Seq(Tasks) /\ q \in Seq(Tasks) /\ Len(r) = 2 /\ Len(q) = 2 /\ r[1] = q[1] /\
          r[2] = q[2]
      BY <2>1, <2>2, <2>3
    <2> HIDE DEF r, q
    <2>5. r = q BY <2>4, TwoLong
    <2> QED BY <2>5 DEF r, q
  <1>4. <<>> \o <<>> = <<>> BY <1>0, ListIs
  <1>5. <<a, b>> \o <<c>> = <<a, b, c>>
    <2>1. <<a, b>> \o <<c>> \in Seq(Tasks) /\ Len(<<a, b>> \o <<c>>) = 3 BY ListIs
    <2>2. (<<a, b>> \o <<c>>)[1] = a /\ (<<a, b>> \o <<c>>)[2] = b /\ (<<a, b>> \o <<c>>)[3] = c
      BY ListIs
    <2>3. <<a, b, c>> \in Seq(Tasks) /\ Len(<<a, b, c>>) = 3
          /\ <<a, b, c>>[1] = a /\ <<a, b, c>>[2] = b /\ <<a, b, c>>[3] = c
      BY ListIs
    <2> DEFINE r == <<a, b>> \o <<c>>
               q == <<a, b, c>>
    <2>4. r \in Seq(Tasks) /\ q \in Seq(Tasks) /\ Len(r) = 3 /\ Len(q) = 3 /\ r[1] = q[1] /\
          r[2] = q[2] /\ r[3] = q[3]
      BY <2>1, <2>2, <2>3
    <2> HIDE DEF r, q
    <2>5. r = q BY <2>4, ThreeLong
    <2> QED BY <2>5 DEF r, q
  <1>6. <<a, b>> \o <<>> = <<a, b>> BY <1>0, ListIs
  <1> QED BY <1>1, <1>2, <1>3, <1>4, <1>5, <1>6

(* What every step of a top task does to the stacks.                       *)
LEMMA PopIs ==
  ASSUME ScanoutInv, NEW t \in Threads, NEW op, At(t, op), NEW tasks \in Seq(Tasks),
         Then(t, tasks),
         NEW A, \A i \in 1 .. Len(tasks) : tasks[i].op \in A
  PROVE /\ todo \in Stacks /\ todo' \in Stacks /\ todo[t] # <<>> /\ Head(todo[t]).op = op
        /\ Stepped(todo, todo', t, Len(todo[t]) - 1, tasks) /\ Touches(A, {op})
  <1>1. todo \in Stacks BY InvIs, StacksTyped
  <1>2. todo[t] # <<>> /\ Head(todo[t]).op = op BY DEF At
  <1>3. Stepped(todo, todo', t, Len(todo[t]) - 1, tasks) BY <1>1, <1>2, ThenStepped DEF Then
  <1>4. Touches(A, {op}) BY <1>2, <1>3, PopTouches
  <1>5. todo' \in Stacks BY <1>3 DEF Stepped
  <1> QED BY <1>1, <1>2, <1>3, <1>4, <1>5

(* What every start of an idle thread does to the stacks.                  *)
LEMMA StartIs ==
  ASSUME ScanoutInv, NEW t \in Threads, Idle(t), NEW tasks \in Seq(Tasks),
         todo' = [todo EXCEPT ![t] = tasks],
         NEW A, \A i \in 1 .. Len(tasks) : tasks[i].op \in A
  PROVE todo \in Stacks /\ todo' \in Stacks /\ Stepped(todo, todo', t, 0, tasks) /\
        Touches(A, {})
  <1>1. todo \in Stacks BY InvIs, StacksTyped
  <1>2. Stepped(todo, todo', t, 0, tasks) BY <1>1, StartStepped
  <1>3. Touches(A, {}) BY <1>2, IdleTouches
  <1>4. todo' \in Stacks BY <1>2 DEF Stepped
  <1> QED BY <1>1, <1>2, <1>3, <1>4

(* A stack is cut down to nothing and given other tasks.                   *)
LEMMA CutIs ==
  ASSUME ScanoutInv, NEW t \in Threads, NEW tasks \in Seq(Tasks),
         todo' = [todo EXCEPT ![t] = tasks],
         NEW R, \A d \in Nat : Has(todo, t, d) => TaskAt(todo, t, d).op \in R,
         NEW A, \A i \in 1 .. Len(tasks) : tasks[i].op \in A
  PROVE todo \in Stacks /\ todo' \in Stacks /\ Stepped(todo, todo', t, 0, tasks) /\
        Touches(A, R)
  <1>1. todo \in Stacks BY InvIs, StacksTyped
  <1>2. Stepped(todo, todo', t, 0, tasks) BY <1>1, StartStepped
  <1>3. Touches(A, R) BY <1>2, StartTouches
  <1>4. todo' \in Stacks BY <1>2 DEF Stepped
  <1> QED BY <1>1, <1>2, <1>3, <1>4

(* The type of the stacks after a step.                                    *)
LEMMA TypedNext ==
  ASSUME todo' \in Stacks PROVE (todo \in [Threads -> Seq(Tasks)])'
  BY DEF Stacks

-----------------------------------------------------------------------------
(* Giving up the window lock keeps the invariant.                          *)
LEMMA UnlockWindowStep ==
  ASSUME ScanoutInv, NEW t \in Threads, UnlockWindow(t) PROVE ScanoutInv'
  <1>1. At(t, "unlock") /\ winlock' = {} /\ Then(t, <<>>)
        /\ UNCHANGED <<slotVars, surfVars, gpuVars, composition, building, pushes, reqVars,
           schedVars, kmsVars>>
    BY DEF UnlockWindow
  <1>2. \A i \in 1 .. Len(<<>>) : <<>>[i].op \in {} BY ListIs
  <1>3. /\ todo \in Stacks /\ todo' \in Stacks /\ todo[t] # <<>> /\ Head(todo[t]).op = "unlock"
        /\ Stepped(todo, todo', t, Len(todo[t]) - 1, <<>>) /\ Touches({}, {"unlock"})
    BY <1>1, <1>2, ListIs, PopIs
  <1>4. Shaped(todo') BY <1>3, InvIs, ListIs, ShapedPlain
  <1>5. TypeOK'
    <2>1. TypeOK BY InvIs
    <2> QED BY <1>1, <1>3, <2>1, TypedNext DEF TypeOK, slotVars, surfVars, gpuVars, reqVars,
            schedVars, kmsVars
  <1>6. SlotSide'
    BY <1>1, <1>3, SlotSideKept DEF SlotSideOps, reqVars
  <1>7. RenderedOK' BY <1>1, RenderedStays DEF reqVars, kmsVars
  <1>8. LayerFits' BY <1>1, <1>3, InvIs, FitsKept
  <1>9. RequestSide'
    <2>1. RequestSide BY InvIs
    <2>2. UNCHANGED refs /\ UNCHANGED waiting /\ UNCHANGED queued /\ UNCHANGED layers
      BY <1>1 DEF reqVars, schedVars
    <2>3. PushFits' /\ SubmitFits' BY <1>1, <1>3, <2>1, <2>2, FitsKept DEF RequestSide
    <2>4. PushesDiffer' BY <1>3, <2>1, DifferKept DEF RequestSide
    <2>5. BatonsOK' BY <1>1, <1>3, <2>1, <2>2, BatonsKept DEF RequestSide, BatonOps
    <2>6. RequestsCounted' BY <1>1, <1>3, <2>1, <2>2, RequestsKept DEF RequestSide, ReqOps
    <2>7. LayersCounted' BY <1>1, <2>1, <2>2, LayersKept DEF RequestSide
    <2>8. LockFits'
      <3>1. Lock1(Head(todo[t]), t) /\ Len(todo[t]) - 1 = 0 BY <1>3, TopOK DEF PlaceOK
      <3>2. winlock = {t} BY <1>3, <3>1 DEF Lock1
      <3> SUFFICES ASSUME NEW u \in Threads, NEW d \in Nat, Has(todo', u, d),
                          TaskAt(todo', u, d).op \in {"build", "unlock"}
                   PROVE FALSE
        BY DEF LockFits, Lock1
      <3>3. Has(todo, u, d) /\ TaskAt(todo, u, d).op \in {"build", "unlock"}
        BY <1>3, WasThere
      <3>4. winlock = {u} BY <2>1, <3>3 DEF RequestSide, LockFits, Lock1
      <3>5. Len(todo'[t]) = 0 BY <1>3, <3>1, ListIs DEF Stepped
      <3>6. u = t BY <3>2, <3>4
      <3> QED BY <3>5, <3>6 DEF Has
    <2> QED BY <2>3, <2>4, <2>5, <2>6, <2>7, <2>8 DEF RequestSide
  <1> QED BY <1>4, <1>5, <1>6, <1>7, <1>8, <1>9, InvNext

(* Tasks that may be anywhere.                                             *)
LEMMA PlaceIs ==
  ASSUME NEW t, NEW d
  PROVE /\ \A r \in Requests : \A op \in {"commit", "scanout", "requnref"} :
              /\ ReqTask(op, r) \in Tasks /\ PlaceOK(ReqTask(op, r), t, d)
              /\ ReqTask(op, r).op = op /\ ReqTask(op, r).req = r /\ op \in PlainOps
        /\ \A op \in {"dispatch", "failed"} :
              Call(op) \in Tasks /\ PlaceOK(Call(op), t, d) /\ Call(op).op = op /\
                op \in PlainOps
        /\ \A s \in Slots : Task("unref", s) \in Tasks /\ PlaceOK(Task("unref", s), t, d)
              /\ Task("unref", s).op = "unref" /\ Task("unref", s).slot = s
        /\ \A x \in Surfaces : \A op \in {"unown", "deinit"} :
              /\ Task(op, <<x, 0>>) \in Tasks /\ PlaceOK(Task(op, <<x, 0>>), t, d)
              /\ Task(op, <<x, 0>>).op = op /\ Task(op, <<x, 0>>).slot = <<x, 0>> /\
                 op \in PlainOps
        /\ d = 0 => PlaceOK(Call("unlock"), t, d) /\
           \A r \in Requests : PlaceOK(ReqTask("build", r), t, d)
        /\ Call("unlock") \in Tasks /\ Call("unlock").op = "unlock"
        /\ \A r \in Requests : ReqTask("build", r) \in Tasks /\
           ReqTask("build", r).op = "build" /\ ReqTask("build", r).req = r
  <1>1. /\ \A r \in Requests : \A op \in {"commit", "scanout", "requnref"} :
              /\ ReqTask(op, r) \in Tasks /\ PlaceOK(ReqTask(op, r), t, d)
              /\ ReqTask(op, r).op = op /\ ReqTask(op, r).req = r /\ op \in PlainOps
    BY TaskIs DEF Ops, PlaceOK, PlainOps
  <1>2. \A op \in {"dispatch", "failed"} :
              Call(op) \in Tasks /\ PlaceOK(Call(op), t, d) /\ Call(op).op = op /\
                op \in PlainOps
    BY TaskIs DEF Ops, PlaceOK, PlainOps
  <1>3. \A s \in Slots : Task("unref", s) \in Tasks /\ PlaceOK(Task("unref", s), t, d)
              /\ Task("unref", s).op = "unref" /\ Task("unref", s).slot = s
    BY TaskIs DEF Ops, PlaceOK
  <1>4. \A x \in Surfaces : \A op \in {"unown", "deinit"} :
              /\ Task(op, <<x, 0>>) \in Tasks /\ PlaceOK(Task(op, <<x, 0>>), t, d)
              /\ Task(op, <<x, 0>>).op = op /\ Task(op, <<x, 0>>).slot = <<x, 0>> /\
                 op \in PlainOps
    BY TaskIs, SlotIs DEF Ops, PlaceOK, PlainOps
  <1>5. Call("unlock") \in Tasks /\ Call("unlock").op = "unlock"
        /\ (d = 0 => PlaceOK(Call("unlock"), t, d))
    BY TaskIs DEF Ops, PlaceOK
  <1>6. \A r \in Requests : ReqTask("build", r) \in Tasks /\ ReqTask("build", r).op = "build" /\
        ReqTask("build", r).req = r
        /\ (d = 0 => PlaceOK(ReqTask("build", r), t, d))
    BY TaskIs DEF Ops, PlaceOK
  <1> QED BY <1>1, <1>2, <1>3, <1>4, <1>5, <1>6

(* One counts a condition.                                                 *)
LEMMA OneIs ==
  /\ \A p : One(p) \in Nat /\ One(p) \in Int
  /\ One(TRUE) = 1 /\ One(FALSE) = 0
  BY DEF One

(* Three tasks put down, the last of no interest.                          *)
LEMMA AmongThree ==
  ASSUME NEW K, NEW a, NEW b, NEW c, c \notin K
  PROVE Counted(One(a \in K) + One(b \in K), Among(<<a, b, c>>, K))
  <1>1. Among(<<a, b, c>>, K) = Among(<<a, b>>, K)
    BY DEF Among
  <1> QED BY <1>1, AmongTwo

(* The parts of the invariant about a request whose count stays.           *)
LEMMA RequestFits ==
  ASSUME ScanoutInv, NEW A, NEW R, Touches(A, R),
         A \cap {"push", "build", "unlock", "submit"} = {},
         UNCHANGED refs, UNCHANGED pushes, UNCHANGED winlock
  PROVE PushFits' /\ LockFits' /\ SubmitFits' /\ PushesDiffer'
  <1>1. RequestSide BY InvIs
  <1>2. A \cap {"push", "build"} = {} /\ A \cap {"build", "unlock"} = {} /\
        "submit" \notin A OBVIOUS
  <1>3. PushFits' /\ LockFits' /\ SubmitFits' BY <1>1, <1>2, FitsKept DEF RequestSide
  <1>4. PushesDiffer' BY <1>1, <1>2, DifferKept DEF RequestSide
  <1> QED BY <1>3, <1>4

(* A request that is counted is not submitted twice.                       *)
LEMMA NoSubmit ==
  ASSUME ScanoutInv, NEW t \in Threads, NEW d \in Nat, Has(todo, t, d),
         TaskAt(todo, t, d).op \in ReqOps \ {"submit"}
  PROVE LET r == TaskAt(todo, t, d).req
        IN  /\ r \in Requests /\ refs[r] > 0 /\ refs[r] \in Nat
            /\ \A u \in Threads : \A e \in Nat :
                  ~(Has(todo, u, e) /\ TaskAt(todo, u, e).op = "submit" /\
                    TaskAt(todo, u, e).req = r)
  <1> DEFINE r == TaskAt(todo, t, d).req
  <1>0. todo \in Stacks /\ RequestSide /\ Shaped(todo) BY InvIs, StacksTyped
  <1>1. PlaceOK(TaskAt(todo, t, d), t, d) BY <1>0 DEF Shaped
  <1>2. r \in Requests BY <1>1 DEF PlaceOK, ReqOps
  <1>3. TaskAt(todo, t, d) \in OfReq(ReqOps, r) BY <1>0, StackType DEF OfReq
  <1>4. Tok(t, d) \in RequestOwners(r) BY <1>0, <1>2, <1>3, RequestHas
  <1>5. Counted(refs[r], RequestOwners(r)) BY <1>0, <1>2 DEF RequestSide, RequestsCounted
  <1>6. refs[r] > 0 /\ refs[r] \in Nat BY <1>4, <1>5, CountFacts
  <1>7. ASSUME NEW u \in Threads, NEW e \in Nat, Has(todo, u, e),
               TaskAt(todo, u, e).op = "submit",
               TaskAt(todo, u, e).req = r
        PROVE FALSE
    <2>1. TaskAt(todo, u, e) \in OfReq(ReqOps, r) BY <1>0, <1>7, StackType DEF OfReq, ReqOps
    <2>2. Tok(u, e) \in RequestOwners(r) BY <1>0, <1>2, <1>7, <2>1, RequestHas
    <2>3. Tok(u, e) # Tok(t, d)
      <3>1. TaskAt(todo, u, e) # TaskAt(todo, t, d) BY <1>7
      <3> QED BY <3>1, TokIs
    <2>4. refs[r] > 1 BY <1>4, <1>5, <2>2, <2>3, CountFacts
    <2>5. Submit1(TaskAt(todo, u, e)) BY <1>0, <1>7 DEF RequestSide, SubmitFits
    <2> QED BY <1>7, <2>4, <2>5 DEF Submit1
  <1> QED BY <1>2, <1>6, <1>7

(* ... nor built when its count goes up or down.                           *)
LEMMA RequestFitsAt ==
  ASSUME ScanoutInv, NEW A, NEW R, Touches(A, R),
         A \cap {"push", "build", "unlock", "submit"} = {},
         NEW r \in Requests, refs[r] > 0, NEW n, refs' = [refs EXCEPT ![r] = n],
         \A u \in Threads : \A e \in Nat :
             ~(Has(todo, u, e) /\ TaskAt(todo, u, e).op = "submit" /\
               TaskAt(todo, u, e).req = r),
         UNCHANGED pushes, UNCHANGED winlock
  PROVE PushFits' /\ LockFits' /\ SubmitFits' /\ PushesDiffer'
  <1>1. RequestSide /\ TypeOK BY InvIs
  <1>2. A \cap {"push", "build"} = {} /\ A \cap {"build", "unlock"} = {} /\
        "submit" \notin A OBVIOUS
  <1>3. LockFits' BY <1>1, <1>2, FitsKept DEF RequestSide
  <1>4. PushesDiffer' BY <1>1, <1>2, DifferKept DEF RequestSide
  <1>5. refs \in [Requests -> Nat] BY <1>1 DEF TypeOK
  <1>6. \A q : q # r => refs'[q] = refs[q] BY <1>5
  <1>7. PushFits'
    <2> SUFFICES ASSUME NEW u \in Threads, NEW d \in Nat, Has(todo', u, d),
                        TaskAt(todo', u, d).op \in {"push", "build"}
                 PROVE refs'[TaskAt(todo', u, d).req] = 0 /\ TaskAt(todo', u, d).req <= pushes
      BY DEF PushFits, Push1
    <2>1. Has(todo, u, d) /\ TaskAt(todo, u, d) = TaskAt(todo', u, d) BY <1>2, WasThere
    <2>2. Push1(TaskAt(todo, u, d)) BY <1>1, <2>1 DEF RequestSide, PushFits
    <2>3. refs[TaskAt(todo', u, d).req] = 0 /\ TaskAt(todo', u, d).req <= pushes
      BY <2>1, <2>2 DEF Push1
    <2>4. TaskAt(todo', u, d).req # r BY <2>3
    <2> QED BY <1>6, <2>3, <2>4
  <1>8. SubmitFits'
    <2> SUFFICES ASSUME NEW u \in Threads, NEW d \in Nat, Has(todo', u, d),
                        TaskAt(todo', u, d).op = "submit"
                 PROVE refs'[TaskAt(todo', u, d).req] = 1
      BY DEF SubmitFits, Submit1
    <2>1. Has(todo, u, d) /\ TaskAt(todo, u, d) = TaskAt(todo', u, d) BY <1>2, WasThere
    <2>2. Submit1(TaskAt(todo, u, d)) BY <1>1, <2>1 DEF RequestSide, SubmitFits
    <2>3. refs[TaskAt(todo', u, d).req] = 1 BY <2>1, <2>2 DEF Submit1
    <2>4. TaskAt(todo', u, d).req # r BY <2>1
    <2> QED BY <1>6, <2>3, <2>4
  <1> QED BY <1>3, <1>4, <1>7, <1>8

-----------------------------------------------------------------------------
(* Counting the owners of a request over a step.                           *)
LEMMA RequestMore ==
  ASSUME ScanoutInv, NEW t, NEW m, NEW tasks, Stepped(todo, todo', t, m, tasks),
         NEW r \in Requests,
         NEW g, Counted(g, Above(todo, t, m, OfReq(ReqOps, r))),
         NEW j, Counted(j, Among(tasks, OfReq(ReqOps, r))),
         NEW kr \in Int, More(Retired(flips, r), Retired(flips', r), kr),
         NEW kf \in Int, More(Flipped(flips, r), Flipped(flips', r), kf)
  PROVE Counted(refs[r] + (((j - g) + (One(queued' = r) - One(queued = r)) +
          (One(inflight' = r) - One(inflight = r))
                           + (One(callback' = r) - One(callback = r)) +
                             (One(screen' = r) - One(screen = r))) + kr + kf),
                RequestOwners(r)')
        /\ refs[r] \in Nat
  <1>0. todo \in Stacks /\ todo' \in Stacks /\ RequestSide BY InvIs, StacksTyped DEF Stepped
  <1>1. g \in Nat /\ j \in Nat
        /\ More(StackSet(todo, OfReq(ReqOps, r)), StackSet(todo', OfReq(ReqOps, r)), j - g)
    BY StackSetMore
  <1>2. j - g \in Int BY <1>1
  <1> DEFINE kh == (j - g) + (One(queued' = r) - One(queued = r)) +
      (One(inflight' = r) - One(inflight = r))
                           + (One(callback' = r) - One(callback = r)) +
                             (One(screen' = r) - One(screen = r))
  <1>3. More(HeldOf(todo, queued, inflight, callback, screen, r),
             HeldOf(todo', queued', inflight', callback', screen', r), kh) /\ kh \in Int
    BY <1>1, <1>2, HeldMore
  <1> HIDE DEF kh
  <1>4. More(RequestOwnersOf(todo, queued, inflight, callback, screen, flips, r),
             RequestOwnersOf(todo', queued', inflight', callback', screen', flips', r),
               kh + kr + kf)
    BY <1>3, RequestOwnersMore
  <1>5. RequestOwners(r)' =
        RequestOwnersOf(todo', queued', inflight', callback', screen', flips', r)
    BY <1>0, RequestOwnersNext
  <1>6. RequestOwners(r) = RequestOwnersOf(todo, queued, inflight, callback, screen, flips, r)
    BY <1>0, RequestOwnersNow
  <1>7. Counted(refs[r], RequestOwners(r)) BY <1>0 DEF RequestSide, RequestsCounted
  <1>8. kh + kr + kf \in Int BY <1>3
  <1>9. Counted(refs[r] + (kh + kr + kf), RequestOwners(r)') /\ refs[r] \in Nat
    BY <1>4, <1>5, <1>6, <1>7, <1>8, MoreCounted
  <1> QED BY <1>9 DEF kh

(* Counting the commit under way.                                          *)
LEMMA BatonsMore ==
  ASSUME ScanoutInv, NEW t, NEW m, NEW tasks, Stepped(todo, todo', t, m, tasks),
         NEW g, Counted(g, Above(todo, t, m, OfOps(BatonOps))),
         NEW j, Counted(j, Among(tasks, OfOps(BatonOps))),
         NEW kf \in Int, More(Recorded(flips), Recorded(flips'), kf),
         NEW n, n = One(Busy) + ((j - g) + (One(inflight' # 0) - One(inflight # 0)) + kf)
  PROVE Counted(n, BatonsOf(todo', inflight', flips'))
  <1>0. todo \in Stacks /\ RequestSide BY InvIs, StacksTyped
  <1>1. g \in Nat /\ j \in Nat
        /\ More(StackSet(todo, OfOps(BatonOps)), StackSet(todo', OfOps(BatonOps)), j - g)
    BY StackSetMore
  <1>2. j - g \in Int BY <1>1
  <1>3. More(When(inflight # 0, "event"), When(inflight' # 0, "event"),
          One(inflight' # 0) - One(inflight # 0))
        /\ One(inflight' # 0) - One(inflight # 0) \in Int
    BY WhenMore
  <1> DEFINE ke == One(inflight' # 0) - One(inflight # 0)
  <1>4. ke \in Int /\ More(When(inflight # 0, "event"), When(inflight' # 0, "event"), ke)
    BY <1>3
  <1> HIDE DEF ke
  <1>5. /\ StackSet(todo, OfOps(BatonOps)) \cap When(inflight # 0, "event") = {}
        /\ StackSet(todo', OfOps(BatonOps)) \cap When(inflight' # 0, "event") = {}
    <2>1. {"task"} \cap {"event"} = {} OBVIOUS
    <2> QED BY <2>1, Apart, NamedStack, NamedWhen
  <1>6. More(StackSet(todo, OfOps(BatonOps)) \cup When(inflight # 0, "event"),
             StackSet(todo', OfOps(BatonOps)) \cup When(inflight' # 0, "event"), (j - g) + ke)
    BY <1>1, <1>2, <1>4, <1>5, MoreJoin
  <1>7. Named(Recorded(flips), {"flipped"}) /\ Named(Recorded(flips'), {"flipped"})
    BY DEF Named, Recorded
  <1>8. /\ Named(StackSet(todo, OfOps(BatonOps)) \cup When(inflight # 0, "event"),
           {"task"} \cup {"event"})
        /\ Named(StackSet(todo', OfOps(BatonOps)) \cup When(inflight' # 0, "event"),
           {"task"} \cup {"event"})
    BY NamedStack, NamedWhen, NamedJoin
  <1>9. ({"task"} \cup {"event"}) \cap {"flipped"} = {} OBVIOUS
  <1>10. /\ (StackSet(todo, OfOps(BatonOps)) \cup
            When(inflight # 0, "event")) \cap Recorded(flips) = {}
         /\ (StackSet(todo', OfOps(BatonOps)) \cup
            When(inflight' # 0, "event")) \cap Recorded(flips') = {}
    BY <1>7, <1>8, <1>9, Apart
  <1>11. (j - g) + ke \in Int BY <1>2, <1>4
  <1>12. More(BatonsOf(todo, inflight, flips), BatonsOf(todo', inflight', flips'),
           (j - g) + ke + kf)
    BY <1>6, <1>10, <1>11, MoreJoin DEF BatonsOf
  <1>13. Counted(One(Busy), BatonsOf(todo, inflight, flips))
    BY <1>0 DEF RequestSide, BatonsOK
  <1>14. (j - g) + ke + kf \in Int BY <1>11
  <1>15. Counted(One(Busy) + ((j - g) + ke + kf), BatonsOf(todo', inflight', flips'))
    BY <1>12, <1>13, <1>14, MoreCounted
  <1> QED BY <1>15 DEF ke

(* A recorded flip is one.                                                 *)
LEMMA RecordedCount ==
  Counted(0, Recorded(<<>>)) /\ \A f : Counted(1, Recorded(<<f>>))
  <1>1. Recorded(<<>>) = {} BY DEF Recorded
  <1>2. ASSUME NEW f PROVE Recorded(<<f>>) = {<<"flipped", 0, 1>>}
    BY DEF Recorded
  <1> QED BY <1>1, <1>2, CountNone, CountOne

(* A request step: what is left to show.                                   *)
LEMMA RequestStep ==
  ASSUME ScanoutInv, NEW A, NEW R, Touches(A, R), A \cap SlotSideOps = {},
         R \cap SlotSideOps = {}, "present" \notin A,
         todo' \in Stacks, Shaped(todo'), UNCHANGED slotVars, UNCHANGED surfVars,
           UNCHANGED composition,
         UNCHANGED building, UNCHANGED layers, TypeOK', RequestSide', RenderedOK'
  PROVE ScanoutInv'
  <1>1. SlotSide' BY SlotSideKept
  <1>2. LayerFits' BY InvIs, FitsKept
  <1> QED BY <1>1, <1>2, InvNext

(* Giving up the frame in the mailbox, if there is one.                    *)
LEMMA MailboxTasks ==
  ASSUME ScanoutInv, NEW tasks,
         tasks = IF queued = 0 THEN <<>> ELSE <<ReqTask("requnref", queued)>>
  PROVE /\ tasks \in Seq(Tasks)
        /\ \A i \in 1 .. Len(tasks) : tasks[i].op \in {"requnref"} /\ tasks[i].op \in PlainOps
        /\ \A t, d : \A i \in 1 .. Len(tasks) : PlaceOK(tasks[i], t, d)
        /\ \A r \in Requests : Counted(One(queued = r), Among(tasks, OfReq(ReqOps, r)))
        /\ Counted(0, Among(tasks, OfOps(BatonOps)))
  <1>0. queued \in 0 .. MaxRequests BY InvIs DEF TypeOK
  <1>1. CASE queued = 0
    <2>1. tasks = <<>> BY <1>1
    <2>2. \A r \in Requests : One(queued = r) = 0 BY <1>1, RequestIs DEF One
    <2> QED BY <2>1, <2>2, ListIs, AmongNone
  <1>2. CASE queued # 0
    <2> DEFINE k == ReqTask("requnref", queued)
    <2>1. queued \in Requests BY <1>0, <1>2, BoundsAssumption DEF Requests
    <2>2. tasks = <<k>> BY <1>2
    <2>3. k \in Tasks /\ k.op = "requnref" /\ k.req = queued /\ (\A t, d : PlaceOK(k, t, d)) /\
          k.op \in PlainOps
      BY <2>1, PlaceIs
    <2> HIDE DEF k
    <2>4. \A r \in Requests : One(k \in OfReq(ReqOps, r)) = One(queued = r)
      BY <2>3 DEF One, OfReq, ReqOps
    <2>5. One(k \in OfOps(BatonOps)) = 0 BY <2>3 DEF One, OfOps, BatonOps
    <2>6. \A K : Counted(One(k \in K), Among(tasks, K)) BY <2>2, AmongOne
    <2>7. tasks \in Seq(Tasks) /\ Len(tasks) = 1 /\ tasks[1] = k BY <2>2, <2>3, ListIs
    <2>8. \A r \in Requests : Counted(One(queued = r), Among(tasks, OfReq(ReqOps, r)))
      BY <2>4, <2>6
    <2>9. Counted(0, Among(tasks, OfOps(BatonOps))) BY <2>5, <2>6
    <2> QED BY <2>3, <2>7, <2>8, <2>9
  <1> QED BY <1>1, <1>2

(* The request at the top of a stack, with the counts of its removal.      *)
LEMMA TopRequest ==
  ASSUME ScanoutInv, NEW t \in Threads, todo[t] # <<>>, Head(todo[t]).op \in ReqOps
  PROVE /\ Head(todo[t]).req \in Requests
        /\ \A r \in Requests :
           Counted(One(Head(todo[t]).req = r),
             Above(todo, t, Len(todo[t]) - 1, OfReq(ReqOps, r)))
        /\ Head(todo[t]).op \in BatonOps =>
           Counted(1, Above(todo, t, Len(todo[t]) - 1, OfOps(BatonOps)))
        /\ Head(todo[t]).op \notin BatonOps =>
           Counted(0, Above(todo, t, Len(todo[t]) - 1, OfOps(BatonOps)))
  <1> DEFINE k == Head(todo[t])
  <1>1. k \in Tasks /\ k.req \in Requests /\ todo \in Stacks
    BY InvIs, StacksTyped, TopOK DEF PlaceOK, ReqOps
  <1>2. \A K : Counted(One(k \in K), Above(todo, t, Len(todo[t]) - 1, K)) BY <1>1, AbovePop
  <1> HIDE DEF k
  <1>3. k.op \in ReqOps BY DEF k
  <1>4. \A r \in Requests : One(k \in OfReq(ReqOps, r)) = One(k.req = r)
    BY <1>1, <1>3 DEF One, OfReq
  <1>5. One(k \in OfOps(BatonOps)) = One(k.op \in BatonOps) BY <1>1 DEF One, OfOps
  <1>6. \A r \in Requests :
        Counted(One(k.req = r), Above(todo, t, Len(todo[t]) - 1, OfReq(ReqOps, r)))
    BY <1>2, <1>4
  <1>7. Counted(One(k.op \in BatonOps), Above(todo, t, Len(todo[t]) - 1, OfOps(BatonOps)))
    BY <1>2, <1>5
  <1>8. /\ k.op \in BatonOps => Counted(1, Above(todo, t, Len(todo[t]) - 1, OfOps(BatonOps)))
        /\ k.op \notin BatonOps => Counted(0, Above(todo, t, Len(todo[t]) - 1, OfOps(BatonOps)))
    BY <1>7 DEF One
  <1> QED BY <1>1, <1>6, <1>8 DEF k

(* One request task is replaced by another.                                *)
LEMMA OneRequest ==
  ASSUME NEW op \in {"commit", "scanout", "requnref"}, NEW r \in Requests
  PROVE LET tasks == <<ReqTask(op, r)>>
        IN  /\ tasks \in Seq(Tasks) /\ Len(tasks) = 1 /\ tasks[1] = ReqTask(op, r)
            /\ \A i \in 1 .. Len(tasks) : tasks[i].op \in {op} /\ tasks[i].op \in PlainOps
            /\ \A t, d : \A i \in 1 .. Len(tasks) : PlaceOK(tasks[i], t, d)
            /\ \A q \in Requests : Counted(One(r = q), Among(tasks, OfReq(ReqOps, q)))
            /\ op \in BatonOps => Counted(1, Among(tasks, OfOps(BatonOps)))
            /\ op \notin BatonOps => Counted(0, Among(tasks, OfOps(BatonOps)))
  <1> DEFINE k == ReqTask(op, r)
             tasks == <<k>>
  <1>1. k \in Tasks /\ k.op = op /\ k.req = r /\ (\A t, d : PlaceOK(k, t, d)) /\ op \in PlainOps
    BY PlaceIs
  <1>2. op \in ReqOps BY DEF ReqOps
  <1> HIDE DEF k
  <1>3. \A q \in Requests : One(k \in OfReq(ReqOps, q)) = One(r = q)
    BY <1>1, <1>2 DEF One, OfReq
  <1>4. One(k \in OfOps(BatonOps)) = One(op \in BatonOps) BY <1>1 DEF One, OfOps
  <1>5. \A K : Counted(One(k \in K), Among(tasks, K)) BY AmongOne
  <1>6. tasks \in Seq(Tasks) /\ Len(tasks) = 1 /\ tasks[1] = k BY <1>1, ListIs
  <1> HIDE DEF tasks
  <1>7. \A q \in Requests : Counted(One(r = q), Among(tasks, OfReq(ReqOps, q))) BY <1>3, <1>5
  <1>8. Counted(One(op \in BatonOps), Among(tasks, OfOps(BatonOps))) BY <1>4, <1>5
  <1>9. /\ op \in BatonOps => Counted(1, Among(tasks, OfOps(BatonOps)))
        /\ op \notin BatonOps => Counted(0, Among(tasks, OfOps(BatonOps)))
    BY <1>8 DEF One
  <1>10. /\ \A i \in 1 .. Len(tasks) : tasks[i].op \in {op} /\ tasks[i].op \in PlainOps
         /\ \A t, d : \A i \in 1 .. Len(tasks) : PlaceOK(tasks[i], t, d)
    BY <1>1, <1>6
  <1> QED BY <1>6, <1>7, <1>9, <1>10 DEF tasks, k

(* No flip recorded or dispatched.                                         *)
LEMMA FlipsSame ==
  ASSUME UNCHANGED flips
  PROVE /\ More(Recorded(flips), Recorded(flips'), 0)
        /\ \A r : More(Retired(flips, r), Retired(flips', r), 0) /\
           More(Flipped(flips, r), Flipped(flips', r), 0)
  BY MoreSame

(* Which kinds of tasks carry the commit and which own a request.          *)
LEMMA BatonKind ==
  /\ "commit" \in BatonOps /\ "failed" \in BatonOps /\ "scanout" \in BatonOps
  /\ "submit" \notin BatonOps /\ "requnref" \notin BatonOps /\ "dispatch" \notin BatonOps
  /\ "submit" \in ReqOps /\ "commit" \in ReqOps /\ "scanout" \in ReqOps /\ "requnref" \in ReqOps
  /\ "failed" \notin ReqOps /\ "dispatch" \notin ReqOps
  BY DEF BatonOps, ReqOps

-----------------------------------------------------------------------------
(* A submitted frame goes to the mailbox.                                  *)
LEMMA SubmitToMailbox ==
  ASSUME ScanoutInv, NEW t \in Threads, At(t, "submit"), waiting, queued' = Head(todo[t]).req,
         UNCHANGED waiting,
         Then(t, IF queued = 0 THEN <<>> ELSE <<ReqTask("requnref", queued)>>),
         UNCHANGED slotVars, UNCHANGED surfVars, UNCHANGED gpuVars, UNCHANGED winVars,
           UNCHANGED reqVars, UNCHANGED kmsVars
  PROVE ScanoutInv'
  <1> DEFINE tasks == IF queued = 0 THEN <<>> ELSE <<ReqTask("requnref", queued)>>
  <1>1. /\ tasks \in Seq(Tasks)
        /\ \A i \in 1 .. Len(tasks) : tasks[i].op \in {"requnref"} /\ tasks[i].op \in PlainOps
        /\ \A d : \A i \in 1 .. Len(tasks) : PlaceOK(tasks[i], t, d)
        /\ \A r \in Requests : Counted(One(queued = r), Among(tasks, OfReq(ReqOps, r)))
        /\ Counted(0, Among(tasks, OfOps(BatonOps)))
    BY MailboxTasks
  <1>2. Then(t, tasks) OBVIOUS
  <1> HIDE DEF tasks
  <1>3. /\ todo \in Stacks /\ todo' \in Stacks /\ todo[t] # <<>> /\ Head(todo[t]).op = "submit"
        /\ Stepped(todo, todo', t, Len(todo[t]) - 1, tasks) /\ Touches({"requnref"}, {"submit"})
    BY <1>1, <1>2, PopIs
  <1>4. Shaped(todo')
    <2>1. Shaped(todo) BY InvIs
    <2>2. \A i \in 1 .. Len(tasks) : PlaceOK(tasks[i], t, Len(todo[t]) - 1 + Len(tasks) - i) /\
          tasks[i].op \in PlainOps
      BY <1>1
    <2> QED BY <1>3, <2>1, <2>2, ShapedPlain
  <1>5. Head(todo[t]).req \in Requests
        /\ \A r \in Requests :
           Counted(One(Head(todo[t]).req = r),
             Above(todo, t, Len(todo[t]) - 1, OfReq(ReqOps, r)))
        /\ Counted(0, Above(todo, t, Len(todo[t]) - 1, OfOps(BatonOps)))
    BY <1>3, BatonKind, TopRequest
  <1>6. UNCHANGED composition /\ UNCHANGED building /\ UNCHANGED winlock /\ UNCHANGED pushes /\
        UNCHANGED refs
        /\ UNCHANGED layers /\ UNCHANGED inflight /\ UNCHANGED callback /\ UNCHANGED lost /\
           UNCHANGED screen /\
           UNCHANGED flips
    BY DEF winVars, reqVars, kmsVars
  <1>7. TypeOK'
    <2>1. TypeOK /\ queued' \in 0 .. MaxRequests BY <1>5, InvIs, RequestIs
    <2> QED BY <1>3, <1>6, <2>1, TypedNext DEF TypeOK, slotVars, surfVars, gpuVars
  <1>8. RequestSide /\ BatonsOK /\ LayersCounted BY InvIs DEF RequestSide
  <1>9. BatonsOK' BY <1>3, <1>8, BatonsKept DEF BatonOps
  <1>10. RequestsCounted'
    <2> SUFFICES ASSUME NEW x \in Requests PROVE Counted(refs[x], RequestOwners(x)')
      BY <1>6 DEF RequestsCounted
    <2> DEFINE r == Head(todo[t]).req
    <2>1. Counted(refs[x] + (((One(queued = x) - One(r = x)) +
            (One(queued' = x) - One(queued = x)) + (One(inflight' = x) - One(inflight = x))
                           + (One(callback' = x) - One(callback = x)) +
                             (One(screen' = x) - One(screen = x))) + 0 + 0),
                RequestOwners(x)') /\ refs[x] \in Nat
      BY <1>1, <1>3, <1>5, <1>6, FlipsSame, RequestMore
    <2> QED BY <1>6, <2>1, OneIs
  <1>11. LayersCounted' BY <1>6, <1>8, LayersKept
  <1>12. PushFits' /\ LockFits' /\ SubmitFits' /\ PushesDiffer' BY <1>3, <1>6, RequestFits
  <1>13. RequestSide' BY <1>9, <1>10, <1>11, <1>12 DEF RequestSide
  <1>14. RenderedOK' BY <1>6, RenderedStays
  <1> QED BY <1>3, <1>4, <1>6, <1>7, <1>13, <1>14, RequestStep DEF SlotSideOps
(* A submitted frame is committed.                                         *)
LEMMA SubmitToCommit ==
  ASSUME ScanoutInv, NEW t \in Threads, At(t, "submit"), ~waiting, waiting' = TRUE,
         UNCHANGED queued,
         Then(t, <<ReqTask("commit", Head(todo[t]).req)>>),
         UNCHANGED slotVars, UNCHANGED surfVars, UNCHANGED gpuVars, UNCHANGED winVars,
           UNCHANGED reqVars, UNCHANGED kmsVars
  PROVE ScanoutInv'
  <1> DEFINE r == Head(todo[t]).req
             tasks == <<ReqTask("commit", r)>>
  <1>0. r \in Requests
        /\ (\A q \in Requests :
           Counted(One(r = q), Above(todo, t, Len(todo[t]) - 1, OfReq(ReqOps, q))))
        /\ Counted(0, Above(todo, t, Len(todo[t]) - 1, OfOps(BatonOps)))
    BY BatonKind, TopRequest DEF At
  <1>1. /\ tasks \in Seq(Tasks)
        /\ \A i \in 1 .. Len(tasks) : tasks[i].op \in {"commit"} /\ tasks[i].op \in PlainOps
        /\ \A d : \A i \in 1 .. Len(tasks) : PlaceOK(tasks[i], t, d)
        /\ \A q \in Requests : Counted(One(r = q), Among(tasks, OfReq(ReqOps, q)))
        /\ Counted(1, Among(tasks, OfOps(BatonOps)))
    BY <1>0, BatonKind, OneRequest
  <1>2. Then(t, tasks) OBVIOUS
  <1> HIDE DEF tasks, r
  <1>3. /\ todo \in Stacks /\ todo' \in Stacks /\ todo[t] # <<>> /\ Head(todo[t]).op = "submit"
        /\ Stepped(todo, todo', t, Len(todo[t]) - 1, tasks) /\ Touches({"commit"}, {"submit"})
    BY <1>1, <1>2, PopIs
  <1>4. Shaped(todo')
    <2>1. Shaped(todo) BY InvIs
    <2>2. \A i \in 1 .. Len(tasks) : PlaceOK(tasks[i], t, Len(todo[t]) - 1 + Len(tasks) - i) /\
          tasks[i].op \in PlainOps
      BY <1>1
    <2> QED BY <1>3, <2>1, <2>2, ShapedPlain
  <1>6. UNCHANGED composition /\ UNCHANGED building /\ UNCHANGED winlock /\ UNCHANGED pushes /\
        UNCHANGED refs
        /\ UNCHANGED layers /\ UNCHANGED inflight /\ UNCHANGED callback /\ UNCHANGED lost /\
           UNCHANGED screen /\
           UNCHANGED flips
    BY DEF winVars, reqVars, kmsVars
  <1>7. TypeOK'
    <2>1. TypeOK BY InvIs
    <2> QED BY <1>3, <1>6, <2>1, TypedNext DEF TypeOK, slotVars, surfVars, gpuVars
  <1>8. RequestSide /\ BatonsOK /\ LayersCounted BY InvIs DEF RequestSide
  <1>9. BatonsOK'
    <2> DEFINE g == 0
               j == 1
               n == One(Busy')
    <2>1. g \in Int /\ j \in Int /\
          n = One(Busy) + ((j - g) + (One(inflight' # 0) - One(inflight # 0)) + g)
      BY <1>6, <1>8 DEF One, Busy, BatonsOK
    <2>2. Counted(g, Above(todo, t, Len(todo[t]) - 1, OfOps(BatonOps))) /\
          Counted(j, Among(tasks, OfOps(BatonOps)))
          /\ More(Recorded(flips), Recorded(flips'), g)
      BY <1>0, <1>1, <1>6, FlipsSame
    <2> HIDE DEF g, j, n
    <2>3. Counted(n, BatonsOf(todo', inflight', flips'))
      BY <1>3, <2>1, <2>2, BatonsMore
    <2> QED BY <1>6, <1>8, <2>3 DEF BatonsOK, Busy, n
  <1>10. RequestsCounted'
    <2> SUFFICES ASSUME NEW x \in Requests PROVE Counted(refs[x], RequestOwners(x)')
      BY <1>6 DEF RequestsCounted
    <2>1. Counted(refs[x] + (((One(r = x) - One(r = x)) + (One(queued' = x) - One(queued = x)) +
            (One(inflight' = x) - One(inflight = x))
                           + (One(callback' = x) - One(callback = x)) +
                             (One(screen' = x) - One(screen = x))) + 0 + 0),
                RequestOwners(x)') /\ refs[x] \in Nat
      BY <1>0, <1>1, <1>3, <1>6, FlipsSame, RequestMore
    <2> QED BY <1>6, <2>1, OneIs
  <1>11. LayersCounted' BY <1>6, <1>8, LayersKept
  <1>12. PushFits' /\ LockFits' /\ SubmitFits' /\ PushesDiffer' BY <1>3, <1>6, RequestFits
  <1>13. RequestSide' BY <1>9, <1>10, <1>11, <1>12 DEF RequestSide
  <1>14. RenderedOK' BY <1>6, RenderedStays
  <1> QED BY <1>3, <1>4, <1>6, <1>7, <1>13, <1>14, RequestStep DEF SlotSideOps

(* A top task that owns no request.                                        *)
LEMMA TopOther ==
  ASSUME ScanoutInv, NEW t \in Threads, todo[t] # <<>>, Head(todo[t]).op \notin ReqOps
  PROVE /\ \A r \in Requests : Counted(0, Above(todo, t, Len(todo[t]) - 1, OfReq(ReqOps, r)))
        /\ Head(todo[t]).op \in BatonOps =>
           Counted(1, Above(todo, t, Len(todo[t]) - 1, OfOps(BatonOps)))
        /\ Head(todo[t]).op \notin BatonOps =>
           Counted(0, Above(todo, t, Len(todo[t]) - 1, OfOps(BatonOps)))
  <1> DEFINE k == Head(todo[t])
  <1>1. k \in Tasks /\ todo \in Stacks BY InvIs, StacksTyped, TopOK
  <1>2. \A K : Counted(One(k \in K), Above(todo, t, Len(todo[t]) - 1, K)) BY <1>1, AbovePop
  <1> HIDE DEF k
  <1>3. k.op \notin ReqOps BY DEF k
  <1>4. \A r \in Requests : One(k \in OfReq(ReqOps, r)) = 0 BY <1>1, <1>3 DEF One, OfReq
  <1>5. One(k \in OfOps(BatonOps)) = One(k.op \in BatonOps) BY <1>1 DEF One, OfOps
  <1>6. \A r \in Requests : Counted(0, Above(todo, t, Len(todo[t]) - 1, OfReq(ReqOps, r)))
    BY <1>2, <1>4
  <1>7. Counted(One(k.op \in BatonOps), Above(todo, t, Len(todo[t]) - 1, OfOps(BatonOps)))
    BY <1>2, <1>5
  <1>8. /\ k.op \in BatonOps => Counted(1, Above(todo, t, Len(todo[t]) - 1, OfOps(BatonOps)))
        /\ k.op \notin BatonOps => Counted(0, Above(todo, t, Len(todo[t]) - 1, OfOps(BatonOps)))
    BY <1>7 DEF One
  <1> QED BY <1>6, <1>8 DEF k

(* The list of one dispatch.                                               *)
LEMMA JustDispatch ==
  LET tasks == <<Call("dispatch")>>
  IN  /\ tasks \in Seq(Tasks)
      /\ \A i \in 1 .. Len(tasks) : tasks[i].op \in {"dispatch"} /\ tasks[i].op \in PlainOps
      /\ \A t, d : \A i \in 1 .. Len(tasks) : PlaceOK(tasks[i], t, d)
      /\ \A q \in Requests : Counted(0, Among(tasks, OfReq(ReqOps, q)))
      /\ Counted(0, Among(tasks, OfOps(BatonOps)))
  <1> DEFINE k == Call("dispatch")
             tasks == <<k>>
  <1>1. k \in Tasks /\ k.op = "dispatch" /\ (\A t, d : PlaceOK(k, t, d)) /\ k.op \in PlainOps
    BY PlaceIs
  <1> HIDE DEF k
  <1>2. tasks \in Seq(Tasks) /\ Len(tasks) = 1 /\ tasks[1] = k BY <1>1, ListIs
  <1> HIDE DEF tasks
  <1>3. \A j \in 1 .. Len(tasks) : tasks[j].op \notin ReqOps /\ tasks[j].op \notin BatonOps
    BY <1>1, <1>2, BatonKind
  <1>4. \A q \in Requests : Counted(0, Among(tasks, OfReq(ReqOps, q)))
    <2> TAKE q \in Requests
    <2>1. \A j \in 1 .. Len(tasks) : tasks[j] \notin OfReq(ReqOps, q) BY <1>3 DEF OfReq
    <2> QED BY <2>1, AmongNot
  <1>5. Counted(0, Among(tasks, OfOps(BatonOps)))
    <2>1. \A j \in 1 .. Len(tasks) : tasks[j] \notin OfOps(BatonOps) BY <1>3 DEF OfOps
    <2> QED BY <2>1, AmongNot
  <1> QED BY <1>1, <1>2, <1>4, <1>5 DEF tasks, k

(* What is called after a refused commit.                                  *)
LEMMA RefusedTasks ==
  ASSUME NEW r \in Requests
  PROVE LET tasks == <<ReqTask("requnref", r), Call("failed")>>
        IN  /\ tasks \in Seq(Tasks)
            /\ \A i \in 1 .. Len(tasks) : tasks[i].op \in {"requnref", "failed"} /\
               tasks[i].op \in PlainOps
            /\ \A t, d : \A i \in 1 .. Len(tasks) : PlaceOK(tasks[i], t, d)
            /\ \A q \in Requests : Counted(One(r = q), Among(tasks, OfReq(ReqOps, q)))
            /\ Counted(1, Among(tasks, OfOps(BatonOps)))
  <1> DEFINE a == ReqTask("requnref", r)
             b == Call("failed")
             tasks == <<a, b>>
  <1>1. /\ a \in Tasks /\ a.op = "requnref" /\ a.req = r /\ (\A t, d : PlaceOK(a, t, d)) /\
           a.op \in PlainOps
        /\ b \in Tasks /\ b.op = "failed" /\ (\A t, d : PlaceOK(b, t, d)) /\ b.op \in PlainOps
    BY PlaceIs
  <1> HIDE DEF a, b
  <1>2. tasks \in Seq(Tasks) /\ Len(tasks) = 2 /\ tasks[1] = a /\ tasks[2] = b BY <1>1, ListIs
  <1>3. \A K : Counted(One(a \in K) + One(b \in K), Among(tasks, K)) BY AmongTwo
  <1> HIDE DEF tasks
  <1>4. \A q \in Requests :
        One(a \in OfReq(ReqOps, q)) + One(b \in OfReq(ReqOps, q)) = One(r = q)
    BY <1>1, BatonKind DEF One, OfReq
  <1>5. One(a \in OfOps(BatonOps)) + One(b \in OfOps(BatonOps)) = 1
    BY <1>1, BatonKind DEF One, OfOps
  <1>6. \A q \in Requests : Counted(One(r = q), Among(tasks, OfReq(ReqOps, q))) BY <1>3, <1>4
  <1>7. Counted(1, Among(tasks, OfOps(BatonOps))) BY <1>3, <1>5
  <1>8. /\ \A i \in 1 .. Len(tasks) : tasks[i].op \in {"requnref", "failed"} /\
           tasks[i].op \in PlainOps
        /\ \A t, d : \A i \in 1 .. Len(tasks) : PlaceOK(tasks[i], t, d)
    BY <1>1, <1>2
  <1> QED BY <1>2, <1>6, <1>7, <1>8 DEF tasks, a, b

(* The commit under way, seen by the task that carries it.                 *)
LEMMA TopBaton ==
  ASSUME ScanoutInv, NEW t \in Threads, todo[t] # <<>>, Head(todo[t]).op \in BatonOps
  PROVE Busy /\ inflight = 0 /\ callback = 0 /\ flips = <<>>
  <1>1. Len(todo[t]) - 1 \in Nat /\ Has(todo, t, Len(todo[t]) - 1) /\
        TaskAt(todo, t, Len(todo[t]) - 1) = Head(todo[t])
    BY TopOK
  <1> QED BY <1>1, BatonAlone

(* The request of a top task past submission is not submitted again.       *)
LEMMA TopNoSubmit ==
  ASSUME ScanoutInv, NEW t \in Threads, todo[t] # <<>>,
         Head(todo[t]).op \in {"commit", "scanout", "requnref"}
  PROVE /\ refs[Head(todo[t]).req] > 0 /\ refs[Head(todo[t]).req] \in Nat
        /\ \A u \in Threads : \A e \in Nat :
              ~(Has(todo, u, e) /\ TaskAt(todo, u, e).op = "submit" /\
                TaskAt(todo, u, e).req = Head(todo[t]).req)
  <1> DEFINE d == Len(todo[t]) - 1
  <1>1. d \in Nat /\ Has(todo, t, d) /\ TaskAt(todo, t, d) = Head(todo[t])
    BY TopOK
  <1>2. TaskAt(todo, t, d).op \in ReqOps \ {"submit"} BY <1>1 DEF ReqOps
  <1> HIDE DEF d
  <1> QED BY <1>1, <1>2, NoSubmit

(* What is called when the next frame is committed.                        *)
LEMMA NextTasks ==
  ASSUME NEW q \in Requests, NEW r \in Requests
  PROVE LET tasks == <<ReqTask("commit", q), ReqTask("requnref", r)>>
        IN  /\ tasks \in Seq(Tasks)
            /\ \A i \in 1 .. Len(tasks) : tasks[i].op \in {"commit", "requnref"} /\
               tasks[i].op \in PlainOps
            /\ \A t, d : \A i \in 1 .. Len(tasks) : PlaceOK(tasks[i], t, d)
            /\ \A x \in Requests :
               Counted(One(q = x) + One(r = x), Among(tasks, OfReq(ReqOps, x)))
            /\ Counted(1, Among(tasks, OfOps(BatonOps)))
  <1> DEFINE a == ReqTask("commit", q)
             b == ReqTask("requnref", r)
             tasks == <<a, b>>
  <1>1. /\ a \in Tasks /\ a.op = "commit" /\ a.req = q /\ (\A t, d : PlaceOK(a, t, d)) /\
           a.op \in PlainOps
        /\ b \in Tasks /\ b.op = "requnref" /\ b.req = r /\ (\A t, d : PlaceOK(b, t, d)) /\
           b.op \in PlainOps
    BY PlaceIs
  <1> HIDE DEF a, b
  <1>2. tasks \in Seq(Tasks) /\ Len(tasks) = 2 /\ tasks[1] = a /\ tasks[2] = b BY <1>1, ListIs
  <1>3. \A K : Counted(One(a \in K) + One(b \in K), Among(tasks, K)) BY AmongTwo
  <1> HIDE DEF tasks
  <1>4. \A x \in Requests : One(a \in OfReq(ReqOps, x)) + One(b \in OfReq(ReqOps, x)) =
        One(q = x) + One(r = x)
    BY <1>1, BatonKind DEF One, OfReq
  <1>5. One(a \in OfOps(BatonOps)) + One(b \in OfOps(BatonOps)) = 1
    BY <1>1, BatonKind DEF One, OfOps
  <1>6. \A x \in Requests : Counted(One(q = x) + One(r = x), Among(tasks, OfReq(ReqOps, x)))
    <2> TAKE x \in Requests
    <2>1. Counted(One(a \in OfReq(ReqOps, x)) + One(b \in OfReq(ReqOps, x)),
            Among(tasks, OfReq(ReqOps, x)))
      BY <1>3
    <2> QED BY <1>4, <2>1
  <1>7. Counted(1, Among(tasks, OfOps(BatonOps))) BY <1>3, <1>5
  <1>8. /\ \A i \in 1 .. Len(tasks) : tasks[i].op \in {"commit", "requnref"} /\
           tasks[i].op \in PlainOps
        /\ \A t, d : \A i \in 1 .. Len(tasks) : PlaceOK(tasks[i], t, d)
    BY <1>1, <1>2
  <1> QED BY <1>2, <1>6, <1>7, <1>8 DEF tasks, a, b

(* A submitted frame is given up.                                          *)
LEMMA SubmitGivenUp ==
  ASSUME ScanoutInv, NEW t \in Threads, At(t, "submit"),
         Then(t, <<ReqTask("requnref", Head(todo[t]).req)>>),
         UNCHANGED slotVars, UNCHANGED surfVars, UNCHANGED gpuVars, UNCHANGED winVars,
           UNCHANGED reqVars, UNCHANGED schedVars, UNCHANGED kmsVars
  PROVE ScanoutInv'
  <1> DEFINE r == Head(todo[t]).req
             tasks == <<ReqTask("requnref", r)>>
  <1>0. r \in Requests
        /\ (\A q \in Requests :
           Counted(One(r = q), Above(todo, t, Len(todo[t]) - 1, OfReq(ReqOps, q))))
        /\ Counted(0, Above(todo, t, Len(todo[t]) - 1, OfOps(BatonOps)))
    BY BatonKind, TopRequest DEF At
  <1>1. /\ tasks \in Seq(Tasks)
        /\ \A i \in 1 .. Len(tasks) : tasks[i].op \in {"requnref"} /\ tasks[i].op \in PlainOps
        /\ \A d : \A i \in 1 .. Len(tasks) : PlaceOK(tasks[i], t, d)
        /\ \A q \in Requests : Counted(One(r = q), Among(tasks, OfReq(ReqOps, q)))
        /\ Counted(0, Among(tasks, OfOps(BatonOps)))
    BY <1>0, BatonKind, OneRequest
  <1>2. Then(t, tasks) OBVIOUS
  <1> HIDE DEF tasks, r
  <1>3. /\ todo \in Stacks /\ todo' \in Stacks /\ todo[t] # <<>> /\ Head(todo[t]).op = "submit"
        /\ Stepped(todo, todo', t, Len(todo[t]) - 1, tasks) /\ Touches({"requnref"}, {"submit"})
    BY <1>1, <1>2, PopIs
  <1>4. Shaped(todo')
    <2>1. Shaped(todo) BY InvIs
    <2>2. \A i \in 1 .. Len(tasks) : PlaceOK(tasks[i], t, Len(todo[t]) - 1 + Len(tasks) - i) /\
          tasks[i].op \in PlainOps
      BY <1>1
    <2> QED BY <1>3, <2>1, <2>2, ShapedPlain
  <1>6. UNCHANGED composition /\ UNCHANGED building /\ UNCHANGED winlock /\ UNCHANGED pushes /\
        UNCHANGED refs /\ UNCHANGED layers /\ UNCHANGED waiting /\ UNCHANGED queued /\
          UNCHANGED inflight /\ UNCHANGED callback /\ UNCHANGED lost /\
          UNCHANGED screen /\ UNCHANGED flips
    BY DEF winVars, reqVars, kmsVars, schedVars
  <1>7. TypeOK'
    <2>1. TypeOK BY InvIs
    <2> QED BY <1>3, <1>6, <2>1, TypedNext DEF TypeOK, slotVars, surfVars, gpuVars
  <1>8. RequestSide /\ BatonsOK /\ LayersCounted /\ RequestsCounted BY InvIs DEF RequestSide
  <1>9. BatonsOK' BY <1>3, <1>6, <1>8, BatonsKept DEF BatonOps
  <1>10. RequestsCounted'
    <2> SUFFICES ASSUME NEW x \in Requests PROVE Counted(refs'[x], RequestOwners(x)')
      BY DEF RequestsCounted
    <2> DEFINE g == One(r = x)
               j == One(r = x)
               kr == 0
               kf == 0
    <2>1. g \in Int /\ j \in Int /\ kr \in Int /\ kf \in Int BY OneIs
    <2>2. Counted(g, Above(todo, t, Len(todo[t]) - 1, OfReq(ReqOps, x))) /\
          Counted(j, Among(tasks, OfReq(ReqOps, x)))
      BY <1>0, <1>1
    <2>3. More(Retired(flips, x), Retired(flips', x), kr) /\
          More(Flipped(flips, x), Flipped(flips', x), kf)
      BY <1>0, <1>6, FlipsSame
    <2> HIDE DEF g, j, kr, kf
    <2>4. Counted(refs[x] + (((j - g) + (One(queued' = x) - One(queued = x)) +
            (One(inflight' = x) - One(inflight = x))
                           + (One(callback' = x) - One(callback = x)) +
                             (One(screen' = x) - One(screen = x))) + kr + kf),
                RequestOwners(x)') /\ refs[x] \in Nat
      BY <1>3, <2>1, <2>2, <2>3, RequestMore
    <2>5. refs'[x] = refs[x] + (((j - g) + (One(queued' = x) - One(queued = x)) +
            (One(inflight' = x) - One(inflight = x))
                           + (One(callback' = x) - One(callback = x)) +
                             (One(screen' = x) - One(screen = x))) + kr + kf)
      BY <1>0, <1>6, <2>4, RequestIs DEF g, j, kr, kf, One
    <2> QED BY <2>4, <2>5
  <1>11. LayersCounted' BY <1>6, <1>8, LayersKept
  <1>12. PushFits' /\ LockFits' /\ SubmitFits' /\ PushesDiffer' BY <1>3, <1>6, RequestFits
  <1>13. RequestSide' BY <1>9, <1>10, <1>11, <1>12 DEF RequestSide
  <1>14. RenderedOK' BY <1>6, RenderedStays
  <1> QED BY <1>3, <1>4, <1>6, <1>7, <1>13, <1>14, RequestStep DEF SlotSideOps

(* A commit accepted by the kernel.                                        *)
LEMMA CommitAccepted ==
  ASSUME ScanoutInv, NEW t \in Threads, At(t, "commit"),
         refs' = [refs EXCEPT ![Head(todo[t]).req] = @ + 1],
         inflight' = Head(todo[t]).req, callback' = Head(todo[t]).req,
           Then(t, <<Call("dispatch")>>),
         UNCHANGED slotVars, UNCHANGED surfVars, UNCHANGED gpuVars, UNCHANGED winVars,
           UNCHANGED layers, UNCHANGED schedVars, UNCHANGED screen, UNCHANGED flips,
           UNCHANGED lost
  PROVE ScanoutInv'
  <1> DEFINE r == Head(todo[t]).req
             tasks == <<Call("dispatch")>>
  <1>0. r \in Requests
        /\ (\A q \in Requests :
           Counted(One(r = q), Above(todo, t, Len(todo[t]) - 1, OfReq(ReqOps, q))))
        /\ Counted(1, Above(todo, t, Len(todo[t]) - 1, OfOps(BatonOps)))
    BY BatonKind, TopRequest DEF At
  <1>a. Busy /\ inflight = 0 /\ callback = 0 /\ flips = <<>> BY BatonKind, TopBaton DEF At
  <1>b. inflight' = r /\ callback' = r /\ refs' = [refs EXCEPT ![r] = @ + 1] /\
        refs \in [Requests -> Nat]
    BY InvIs DEF TypeOK
  <1>1. /\ tasks \in Seq(Tasks)
        /\ \A i \in 1 .. Len(tasks) : tasks[i].op \in {"dispatch"} /\ tasks[i].op \in PlainOps
        /\ \A d : \A i \in 1 .. Len(tasks) : PlaceOK(tasks[i], t, d)
        /\ \A q \in Requests : Counted(0, Among(tasks, OfReq(ReqOps, q)))
        /\ Counted(0, Among(tasks, OfOps(BatonOps)))
    BY JustDispatch
  <1>2. Then(t, tasks) OBVIOUS
  <1> HIDE DEF tasks, r
  <1>3. /\ todo \in Stacks /\ todo' \in Stacks /\ todo[t] # <<>> /\ Head(todo[t]).op = "commit"
        /\ Stepped(todo, todo', t, Len(todo[t]) - 1, tasks) /\ Touches({"dispatch"}, {"commit"})
    BY <1>1, <1>2, PopIs
  <1>4. Shaped(todo')
    <2>1. Shaped(todo) BY InvIs
    <2>2. \A i \in 1 .. Len(tasks) : PlaceOK(tasks[i], t, Len(todo[t]) - 1 + Len(tasks) - i) /\
          tasks[i].op \in PlainOps
      BY <1>1
    <2> QED BY <1>3, <2>1, <2>2, ShapedPlain
  <1>6. UNCHANGED composition /\ UNCHANGED building /\ UNCHANGED winlock /\ UNCHANGED pushes /\
        UNCHANGED layers /\ UNCHANGED waiting /\ UNCHANGED queued /\ UNCHANGED lost /\
        UNCHANGED screen /\
          UNCHANGED flips
    BY DEF winVars, reqVars, kmsVars, schedVars
  <1>7. TypeOK'
    <2>1. TypeOK BY InvIs
    <2>2. refs' \in [Requests -> Nat] /\ refs \in [Requests -> Nat]
      <3>1. refs[r] + 1 \in Nat BY <1>0, <1>b
      <3> QED BY <1>b, <3>1
    <2>3. r \in 0 .. MaxRequests /\ inflight' \in 0 .. MaxRequests /\
          callback' \in 0 .. MaxRequests
      BY <1>0, <1>b, RequestIs
    <2> QED BY <1>3, <1>6, <2>1, <2>2, <2>3, TypedNext DEF TypeOK, slotVars, surfVars, gpuVars
  <1>8. RequestSide /\ BatonsOK /\ LayersCounted /\ RequestsCounted BY InvIs DEF RequestSide
  <1>9. BatonsOK'
    <2> DEFINE g == 1
               j == 0
               k == 0
               n == One(Busy')
    <2>1. k \in Int /\ n =
          One(Busy) + ((j - g) + (One(inflight' # 0) - One(inflight # 0)) + k)
      BY <1>0, <1>6, <1>a, <1>b, RequestIs DEF One, Busy
    <2>2. Counted(g, Above(todo, t, Len(todo[t]) - 1, OfOps(BatonOps))) /\
          Counted(j, Among(tasks, OfOps(BatonOps)))
          /\ More(Recorded(flips), Recorded(flips'), k)
      BY <1>0, <1>1, <1>6, FlipsSame
    <2> HIDE DEF g, j, k, n
    <2>3. Counted(n, BatonsOf(todo', inflight', flips'))
      BY <1>3, <2>1, <2>2, BatonsMore
    <2>4. callback' = inflight' /\ \A i \in DOMAIN flips' : flips'[i].frame # 0
      BY <1>0, <1>6, <1>a, <1>b, RequestIs, <1>8, RequestIs DEF BatonsOK
    <2> QED BY <1>6, <1>8, <1>a, <2>3, <2>4 DEF BatonsOK, Busy, n
  <1>10. RequestsCounted'
    <2> SUFFICES ASSUME NEW x \in Requests PROVE Counted(refs'[x], RequestOwners(x)')
      BY DEF RequestsCounted
    <2> DEFINE g == One(r = x)
               j == 0
               kr == 0
               kf == 0
    <2>1. g \in Int /\ j \in Int /\ kr \in Int /\ kf \in Int BY OneIs
    <2>2. Counted(g, Above(todo, t, Len(todo[t]) - 1, OfReq(ReqOps, x))) /\
          Counted(j, Among(tasks, OfReq(ReqOps, x)))
      BY <1>0, <1>1
    <2>3. More(Retired(flips, x), Retired(flips', x), kr) /\
          More(Flipped(flips, x), Flipped(flips', x), kf)
      BY <1>0, <1>6, FlipsSame
    <2> HIDE DEF g, j, kr, kf
    <2>4. Counted(refs[x] + (((j - g) + (One(queued' = x) - One(queued = x)) +
            (One(inflight' = x) - One(inflight = x))
                           + (One(callback' = x) - One(callback = x)) +
                             (One(screen' = x) - One(screen = x))) + kr + kf),
                RequestOwners(x)') /\ refs[x] \in Nat
      BY <1>3, <2>1, <2>2, <2>3, RequestMore
    <2>5. refs'[x] = refs[x] + (((j - g) + (One(queued' = x) - One(queued = x)) +
            (One(inflight' = x) - One(inflight = x))
                           + (One(callback' = x) - One(callback = x)) +
                             (One(screen' = x) - One(screen = x))) + kr + kf)
      BY <1>0, <1>6, <2>4, <1>a, <1>b, RequestIs DEF g, j, kr, kf, One
    <2> QED BY <2>4, <2>5
  <1>11. LayersCounted'
    <2>1. refs[r] > 0 /\ refs[r] \in Nat BY <1>3, TopNoSubmit DEF r
    <2>2. \A q \in Requests : q # r => refs'[q] = refs[q] BY <1>b
    <2>3. refs \in [Requests -> Nat] BY InvIs DEF TypeOK
    <2>4. refs'[r] = refs[r] + 1 BY <1>0, <1>b, <2>3
    <2>5. \A q \in Requests : (refs[q] > 0 => refs'[q] > 0) /\ (refs[q] = 0 => refs'[q] = 0)
      BY <1>0, <2>1, <2>2, <2>3, <2>4
    <2>6. ~(r > pushes) BY <1>0, <1>8, <2>1 DEF LayersCounted
    <2> QED BY <1>6, <1>8, <2>1, <2>5, <2>6 DEF LayersCounted
  <1>12. PushFits' /\ LockFits' /\ SubmitFits' /\ PushesDiffer'
    <2>1. /\ refs[r] > 0 /\ refs' = [refs EXCEPT ![r] = refs[r] + 1]
          /\ \A u \in Threads : \A e \in Nat :
                ~(Has(todo, u, e) /\ TaskAt(todo, u, e).op = "submit" /\
                  TaskAt(todo, u, e).req = r)
      BY <1>3, TopNoSubmit DEF r
    <2>2. {"dispatch"} \cap {"push", "build", "unlock", "submit"} = {} OBVIOUS
    <2> QED BY <1>0, <1>3, <1>6, <2>1, <2>2, RequestFitsAt
  <1>13. RequestSide' BY <1>9, <1>10, <1>11, <1>12 DEF RequestSide
  <1>14. RenderedOK' BY <1>6, RenderedStays
  <1> QED BY <1>3, <1>4, <1>6, <1>7, <1>13, <1>14, RequestStep DEF SlotSideOps

(* A commit refused by the kernel.                                         *)
LEMMA CommitRefused ==
  ASSUME ScanoutInv, NEW t \in Threads, At(t, "commit"),
         Then(t, <<ReqTask("requnref", Head(todo[t]).req), Call("failed")>>),
         UNCHANGED slotVars, UNCHANGED surfVars, UNCHANGED gpuVars, UNCHANGED winVars,
           UNCHANGED reqVars, UNCHANGED schedVars, UNCHANGED kmsVars
  PROVE ScanoutInv'
  <1> DEFINE r == Head(todo[t]).req
             tasks == <<ReqTask("requnref", r), Call("failed")>>
  <1>0. r \in Requests
        /\ (\A q \in Requests :
           Counted(One(r = q), Above(todo, t, Len(todo[t]) - 1, OfReq(ReqOps, q))))
        /\ Counted(1, Above(todo, t, Len(todo[t]) - 1, OfOps(BatonOps)))
    BY BatonKind, TopRequest DEF At
  <1>1. /\ tasks \in Seq(Tasks)
        /\ \A i \in 1 .. Len(tasks) : tasks[i].op \in {"requnref", "failed"} /\
           tasks[i].op \in PlainOps
        /\ \A d : \A i \in 1 .. Len(tasks) : PlaceOK(tasks[i], t, d)
        /\ \A q \in Requests : Counted(One(r = q), Among(tasks, OfReq(ReqOps, q)))
        /\ Counted(1, Among(tasks, OfOps(BatonOps)))
    BY <1>0, RefusedTasks
  <1>2. Then(t, tasks) OBVIOUS
  <1> HIDE DEF tasks, r
  <1>3. /\ todo \in Stacks /\ todo' \in Stacks /\ todo[t] # <<>> /\ Head(todo[t]).op = "commit"
        /\ Stepped(todo, todo', t, Len(todo[t]) - 1, tasks) /\
           Touches({"requnref", "failed"}, {"commit"})
    BY <1>1, <1>2, PopIs
  <1>4. Shaped(todo')
    <2>1. Shaped(todo) BY InvIs
    <2>2. \A i \in 1 .. Len(tasks) : PlaceOK(tasks[i], t, Len(todo[t]) - 1 + Len(tasks) - i) /\
          tasks[i].op \in PlainOps
      BY <1>1
    <2> QED BY <1>3, <2>1, <2>2, ShapedPlain
  <1>6. UNCHANGED composition /\ UNCHANGED building /\ UNCHANGED winlock /\ UNCHANGED pushes /\
        UNCHANGED refs /\ UNCHANGED layers /\ UNCHANGED waiting /\ UNCHANGED queued /\
          UNCHANGED inflight /\ UNCHANGED callback /\ UNCHANGED lost /\
          UNCHANGED screen /\ UNCHANGED flips
    BY DEF winVars, reqVars, kmsVars, schedVars
  <1>7. TypeOK'
    <2>1. TypeOK BY InvIs
    <2> QED BY <1>3, <1>6, <2>1, TypedNext DEF TypeOK, slotVars, surfVars, gpuVars
  <1>8. RequestSide /\ BatonsOK /\ LayersCounted /\ RequestsCounted BY InvIs DEF RequestSide
  <1>9. BatonsOK'
    <2> DEFINE g == 1
               j == 1
               k == 0
               n == One(Busy')
    <2>1. k \in Int /\ n =
          One(Busy) + ((j - g) + (One(inflight' # 0) - One(inflight # 0)) + k)
      BY <1>6 DEF One, Busy
    <2>2. Counted(g, Above(todo, t, Len(todo[t]) - 1, OfOps(BatonOps))) /\
          Counted(j, Among(tasks, OfOps(BatonOps)))
          /\ More(Recorded(flips), Recorded(flips'), k)
      BY <1>0, <1>1, <1>6, FlipsSame
    <2> HIDE DEF g, j, k, n
    <2>3. Counted(n, BatonsOf(todo', inflight', flips'))
      BY <1>3, <2>1, <2>2, BatonsMore
    <2>4. callback' = inflight' /\ \A i \in DOMAIN flips' : flips'[i].frame # 0
      BY <1>6, <1>8, RequestIs DEF BatonsOK
    <2> QED BY <1>6, <1>8, <2>3, <2>4 DEF BatonsOK, Busy, n
  <1>10. RequestsCounted'
    <2> SUFFICES ASSUME NEW x \in Requests PROVE Counted(refs'[x], RequestOwners(x)')
      BY DEF RequestsCounted
    <2> DEFINE g == One(r = x)
               j == One(r = x)
               kr == 0
               kf == 0
    <2>1. g \in Int /\ j \in Int /\ kr \in Int /\ kf \in Int BY OneIs
    <2>2. Counted(g, Above(todo, t, Len(todo[t]) - 1, OfReq(ReqOps, x))) /\
          Counted(j, Among(tasks, OfReq(ReqOps, x)))
      BY <1>0, <1>1
    <2>3. More(Retired(flips, x), Retired(flips', x), kr) /\
          More(Flipped(flips, x), Flipped(flips', x), kf)
      BY <1>0, <1>6, FlipsSame
    <2> HIDE DEF g, j, kr, kf
    <2>4. Counted(refs[x] + (((j - g) + (One(queued' = x) - One(queued = x)) +
            (One(inflight' = x) - One(inflight = x))
                           + (One(callback' = x) - One(callback = x)) +
                             (One(screen' = x) - One(screen = x))) + kr + kf),
                RequestOwners(x)') /\ refs[x] \in Nat
      BY <1>3, <2>1, <2>2, <2>3, RequestMore
    <2>5. refs'[x] = refs[x] + (((j - g) + (One(queued' = x) - One(queued = x)) +
            (One(inflight' = x) - One(inflight = x))
                           + (One(callback' = x) - One(callback = x)) +
                             (One(screen' = x) - One(screen = x))) + kr + kf)
      BY <1>0, <1>6, <2>4, RequestIs DEF g, j, kr, kf, One
    <2> QED BY <2>4, <2>5
  <1>11. LayersCounted' BY <1>6, <1>8, LayersKept
  <1>12. PushFits' /\ LockFits' /\ SubmitFits' /\ PushesDiffer' BY <1>3, <1>6, RequestFits
  <1>13. RequestSide' BY <1>9, <1>10, <1>11, <1>12 DEF RequestSide
  <1>14. RenderedOK' BY <1>6, RenderedStays
  <1> QED BY <1>3, <1>4, <1>6, <1>7, <1>13, <1>14, RequestStep DEF SlotSideOps

(* The flip of a commit is lost: nothing is under way, `waiting` stays.     *)
LEMMA CommitLost ==
  ASSUME ScanoutInv, NEW t \in Threads, At(t, "commit"),
         lost' = Head(todo[t]).req, Then(t, <<ReqTask("requnref", Head(todo[t]).req)>>),
         UNCHANGED slotVars, UNCHANGED surfVars, UNCHANGED gpuVars, UNCHANGED winVars,
           UNCHANGED reqVars, UNCHANGED schedVars, UNCHANGED inflight, UNCHANGED callback,
           UNCHANGED screen, UNCHANGED flips
  PROVE ScanoutInv'
  <1> DEFINE r == Head(todo[t]).req
             tasks == <<ReqTask("requnref", r)>>
  <1>0. r \in Requests
        /\ (\A q \in Requests :
           Counted(One(r = q), Above(todo, t, Len(todo[t]) - 1, OfReq(ReqOps, q))))
        /\ Counted(1, Above(todo, t, Len(todo[t]) - 1, OfOps(BatonOps)))
    BY BatonKind, TopRequest DEF At
  <1>a. Busy /\ inflight = 0 /\ callback = 0 /\ flips = <<>> BY BatonKind, TopBaton DEF At
  <1>b. lost' = r OBVIOUS
  <1>1. /\ tasks \in Seq(Tasks)
        /\ \A i \in 1 .. Len(tasks) : tasks[i].op \in {"requnref"} /\ tasks[i].op \in PlainOps
        /\ \A d : \A i \in 1 .. Len(tasks) : PlaceOK(tasks[i], t, d)
        /\ \A q \in Requests : Counted(One(r = q), Among(tasks, OfReq(ReqOps, q)))
        /\ Counted(0, Among(tasks, OfOps(BatonOps)))
    BY <1>0, BatonKind, OneRequest
  <1>2. Then(t, tasks) OBVIOUS
  <1> HIDE DEF tasks, r
  <1>3. /\ todo \in Stacks /\ todo' \in Stacks /\ todo[t] # <<>> /\ Head(todo[t]).op = "commit"
        /\ Stepped(todo, todo', t, Len(todo[t]) - 1, tasks) /\
           Touches({"requnref"}, {"commit"})
    BY <1>1, <1>2, PopIs
  <1>4. Shaped(todo')
    <2>1. Shaped(todo) BY InvIs
    <2>2. \A i \in 1 .. Len(tasks) : PlaceOK(tasks[i], t, Len(todo[t]) - 1 + Len(tasks) - i) /\
          tasks[i].op \in PlainOps
      BY <1>1
    <2> QED BY <1>3, <2>1, <2>2, ShapedPlain
  <1>6. UNCHANGED composition /\ UNCHANGED building /\ UNCHANGED winlock /\ UNCHANGED pushes /\
        UNCHANGED refs /\ UNCHANGED layers /\ UNCHANGED waiting /\ UNCHANGED queued /\
          UNCHANGED inflight /\ UNCHANGED callback /\ UNCHANGED screen /\ UNCHANGED flips
    BY DEF winVars, reqVars, kmsVars, schedVars
  <1>7. TypeOK'
    <2>1. TypeOK /\ lost' \in 0 .. MaxRequests BY <1>0, <1>b, InvIs, RequestIs
    <2> QED BY <1>3, <1>6, <2>1, TypedNext DEF TypeOK, slotVars, surfVars, gpuVars
  <1>8. RequestSide /\ BatonsOK /\ LayersCounted /\ RequestsCounted BY InvIs DEF RequestSide
  <1>9. BatonsOK'
    <2> DEFINE g == 1
               j == 0
               k == 0
               n == One(Busy')
    <2>1. k \in Int /\ n =
          One(Busy) + ((j - g) + (One(inflight' # 0) - One(inflight # 0)) + k)
      BY <1>0, <1>6, <1>a, <1>b, RequestIs DEF One, Busy
    <2>2. Counted(g, Above(todo, t, Len(todo[t]) - 1, OfOps(BatonOps))) /\
          Counted(j, Among(tasks, OfOps(BatonOps)))
          /\ More(Recorded(flips), Recorded(flips'), k)
      BY <1>0, <1>1, <1>6, FlipsSame
    <2> HIDE DEF g, j, k, n
    <2>3. Counted(n, BatonsOf(todo', inflight', flips'))
      BY <1>3, <2>1, <2>2, BatonsMore
    <2>4. callback' = inflight' /\ \A i \in DOMAIN flips' : flips'[i].frame # 0
      BY <1>6, <1>8, RequestIs DEF BatonsOK
    <2> QED BY <1>6, <1>8, <1>a, <2>3, <2>4 DEF BatonsOK, Busy, n
  <1>10. RequestsCounted'
    <2> SUFFICES ASSUME NEW x \in Requests PROVE Counted(refs'[x], RequestOwners(x)')
      BY DEF RequestsCounted
    <2> DEFINE g == One(r = x)
               j == One(r = x)
               kr == 0
               kf == 0
    <2>1. g \in Int /\ j \in Int /\ kr \in Int /\ kf \in Int BY OneIs
    <2>2. Counted(g, Above(todo, t, Len(todo[t]) - 1, OfReq(ReqOps, x))) /\
          Counted(j, Among(tasks, OfReq(ReqOps, x)))
      BY <1>0, <1>1
    <2>3. More(Retired(flips, x), Retired(flips', x), kr) /\
          More(Flipped(flips, x), Flipped(flips', x), kf)
      BY <1>0, <1>6, FlipsSame
    <2> HIDE DEF g, j, kr, kf
    <2>4. Counted(refs[x] + (((j - g) + (One(queued' = x) - One(queued = x)) +
            (One(inflight' = x) - One(inflight = x))
                           + (One(callback' = x) - One(callback = x)) +
                             (One(screen' = x) - One(screen = x))) + kr + kf),
                RequestOwners(x)') /\ refs[x] \in Nat
      BY <1>3, <2>1, <2>2, <2>3, RequestMore
    <2>5. refs'[x] = refs[x] + (((j - g) + (One(queued' = x) - One(queued = x)) +
            (One(inflight' = x) - One(inflight = x))
                           + (One(callback' = x) - One(callback = x)) +
                             (One(screen' = x) - One(screen = x))) + kr + kf)
      BY <1>0, <1>6, <2>4, RequestIs DEF g, j, kr, kf, One
    <2> QED BY <2>4, <2>5
  <1>11. LayersCounted' BY <1>6, <1>8, LayersKept
  <1>12. PushFits' /\ LockFits' /\ SubmitFits' /\ PushesDiffer' BY <1>3, <1>6, RequestFits
  <1>13. RequestSide' BY <1>9, <1>10, <1>11, <1>12 DEF RequestSide
  <1>14. RenderedOK' BY <1>6, RenderedStays
  <1> QED BY <1>3, <1>4, <1>6, <1>7, <1>13, <1>14, RequestStep DEF SlotSideOps

(* The pipeline is reset after a refused commit.                           *)
LEMMA PresentFailed ==
  ASSUME ScanoutInv, NEW t \in Threads, At(t, "failed"), waiting' = FALSE, queued' = 0,
         Then(t, IF queued = 0 THEN <<>> ELSE <<ReqTask("requnref", queued)>>),
         UNCHANGED slotVars, UNCHANGED surfVars, UNCHANGED gpuVars, UNCHANGED winVars,
           UNCHANGED reqVars, UNCHANGED kmsVars
  PROVE ScanoutInv'
  <1> DEFINE r == Head(todo[t]).req
             tasks == IF queued = 0 THEN <<>> ELSE <<ReqTask("requnref", queued)>>
  <1>0. (\A q \in Requests : Counted(0, Above(todo, t, Len(todo[t]) - 1, OfReq(ReqOps, q))))
        /\ Counted(1, Above(todo, t, Len(todo[t]) - 1, OfOps(BatonOps)))
    BY BatonKind, TopOther DEF At
  <1>a. Busy /\ inflight = 0 /\ callback = 0 /\ flips = <<>> BY BatonKind, TopBaton DEF At
  <1>1. /\ tasks \in Seq(Tasks)
        /\ \A i \in 1 .. Len(tasks) : tasks[i].op \in {"requnref"} /\ tasks[i].op \in PlainOps
        /\ \A d : \A i \in 1 .. Len(tasks) : PlaceOK(tasks[i], t, d)
        /\ \A q \in Requests : Counted(One(queued = q), Among(tasks, OfReq(ReqOps, q)))
        /\ Counted(0, Among(tasks, OfOps(BatonOps)))
    BY MailboxTasks
  <1>2. Then(t, tasks) OBVIOUS
  <1> HIDE DEF tasks, r
  <1>3. /\ todo \in Stacks /\ todo' \in Stacks /\ todo[t] # <<>> /\ Head(todo[t]).op = "failed"
        /\ Stepped(todo, todo', t, Len(todo[t]) - 1, tasks) /\ Touches({"requnref"}, {"failed"})
    BY <1>1, <1>2, PopIs
  <1>4. Shaped(todo')
    <2>1. Shaped(todo) BY InvIs
    <2>2. \A i \in 1 .. Len(tasks) : PlaceOK(tasks[i], t, Len(todo[t]) - 1 + Len(tasks) - i) /\
          tasks[i].op \in PlainOps
      BY <1>1
    <2> QED BY <1>3, <2>1, <2>2, ShapedPlain
  <1>6. UNCHANGED composition /\ UNCHANGED building /\ UNCHANGED winlock /\ UNCHANGED pushes /\
        UNCHANGED refs /\ UNCHANGED layers /\ UNCHANGED inflight /\ UNCHANGED callback /\
        UNCHANGED lost /\
          UNCHANGED screen /\ UNCHANGED flips
    BY DEF winVars, reqVars, kmsVars, schedVars
  <1>7. TypeOK'
    <2>1. TypeOK BY InvIs
    <2>2. 0 \in 0 .. MaxRequests BY BoundsAssumption
    <2> QED BY <1>3, <1>6, <2>1, <2>2, TypedNext DEF TypeOK, slotVars, surfVars, gpuVars
  <1>8. RequestSide /\ BatonsOK /\ LayersCounted /\ RequestsCounted BY InvIs DEF RequestSide
  <1>9. BatonsOK'
    <2> DEFINE g == 1
               j == 0
               k == 0
               n == One(Busy')
    <2>1. k \in Int /\ n =
          One(Busy) + ((j - g) + (One(inflight' # 0) - One(inflight # 0)) + k)
      BY <1>6, <1>a DEF One, Busy
    <2>2. Counted(g, Above(todo, t, Len(todo[t]) - 1, OfOps(BatonOps))) /\
          Counted(j, Among(tasks, OfOps(BatonOps)))
          /\ More(Recorded(flips), Recorded(flips'), k)
      BY <1>0, <1>1, <1>6, FlipsSame
    <2> HIDE DEF g, j, k, n
    <2>3. Counted(n, BatonsOf(todo', inflight', flips'))
      BY <1>3, <2>1, <2>2, BatonsMore
    <2>4. callback' = inflight' /\ \A i \in DOMAIN flips' : flips'[i].frame # 0
      BY <1>6, <1>a, <1>8, RequestIs DEF BatonsOK
    <2> QED BY <1>6, <1>8, <1>a, <2>3, <2>4 DEF BatonsOK, Busy, n
  <1>10. RequestsCounted'
    <2> SUFFICES ASSUME NEW x \in Requests PROVE Counted(refs'[x], RequestOwners(x)')
      BY DEF RequestsCounted
    <2> DEFINE g == 0
               j == One(queued = x)
               kr == 0
               kf == 0
    <2>1. g \in Int /\ j \in Int /\ kr \in Int /\ kf \in Int BY OneIs
    <2>2. Counted(g, Above(todo, t, Len(todo[t]) - 1, OfReq(ReqOps, x))) /\
          Counted(j, Among(tasks, OfReq(ReqOps, x)))
      BY <1>0, <1>1
    <2>3. More(Retired(flips, x), Retired(flips', x), kr) /\
          More(Flipped(flips, x), Flipped(flips', x), kf)
      BY <1>0, <1>6, FlipsSame
    <2> HIDE DEF g, j, kr, kf
    <2>4. Counted(refs[x] + (((j - g) + (One(queued' = x) - One(queued = x)) +
            (One(inflight' = x) - One(inflight = x))
                           + (One(callback' = x) - One(callback = x)) +
                             (One(screen' = x) - One(screen = x))) + kr + kf),
                RequestOwners(x)') /\ refs[x] \in Nat
      BY <1>3, <2>1, <2>2, <2>3, RequestMore
    <2>5. refs'[x] = refs[x] + (((j - g) + (One(queued' = x) - One(queued = x)) +
            (One(inflight' = x) - One(inflight = x))
                           + (One(callback' = x) - One(callback = x)) +
                             (One(screen' = x) - One(screen = x))) + kr + kf)
      BY <1>0, <1>6, <2>4, RequestIs DEF g, j, kr, kf, One
    <2> QED BY <2>4, <2>5
  <1>11. LayersCounted' BY <1>6, <1>8, LayersKept
  <1>12. PushFits' /\ LockFits' /\ SubmitFits' /\ PushesDiffer' BY <1>3, <1>6, RequestFits
  <1>13. RequestSide' BY <1>9, <1>10, <1>11, <1>12 DEF RequestSide
  <1>14. RenderedOK' BY <1>6, RenderedStays
  <1> QED BY <1>3, <1>4, <1>6, <1>7, <1>13, <1>14, RequestStep DEF SlotSideOps

(* The queued frame is committed when the one before is on screen.         *)
LEMMA ScanoutNext ==
  ASSUME ScanoutInv, NEW t \in Threads, At(t, "scanout"), waiting, queued # 0, waiting' = TRUE,
         queued' = 0,
         Then(t, <<ReqTask("commit", queued), ReqTask("requnref", Head(todo[t]).req)>>),
         UNCHANGED slotVars, UNCHANGED surfVars, UNCHANGED gpuVars, UNCHANGED winVars,
           UNCHANGED reqVars, UNCHANGED kmsVars
  PROVE ScanoutInv'
  <1> DEFINE r == Head(todo[t]).req
             tasks == <<ReqTask("commit", queued), ReqTask("requnref", r)>>
  <1>0. r \in Requests
        /\ (\A q \in Requests :
           Counted(One(r = q), Above(todo, t, Len(todo[t]) - 1, OfReq(ReqOps, q))))
        /\ Counted(1, Above(todo, t, Len(todo[t]) - 1, OfOps(BatonOps)))
    BY BatonKind, TopRequest DEF At
  <1>a. queued \in Requests BY InvIs, BoundsAssumption DEF TypeOK, Requests
  <1>1. /\ tasks \in Seq(Tasks)
        /\ \A i \in 1 .. Len(tasks) : tasks[i].op \in {"commit", "requnref"} /\
           tasks[i].op \in PlainOps
        /\ \A d : \A i \in 1 .. Len(tasks) : PlaceOK(tasks[i], t, d)
        /\ \A q \in Requests :
           Counted(One(queued = q) + One(r = q), Among(tasks, OfReq(ReqOps, q)))
        /\ Counted(1, Among(tasks, OfOps(BatonOps)))
    BY <1>0, <1>a, NextTasks
  <1>2. Then(t, tasks) OBVIOUS
  <1> HIDE DEF tasks, r
  <1>3. /\ todo \in Stacks /\ todo' \in Stacks /\ todo[t] # <<>> /\ Head(todo[t]).op = "scanout"
        /\ Stepped(todo, todo', t, Len(todo[t]) - 1, tasks) /\
           Touches({"commit", "requnref"}, {"scanout"})
    BY <1>1, <1>2, PopIs
  <1>4. Shaped(todo')
    <2>1. Shaped(todo) BY InvIs
    <2>2. \A i \in 1 .. Len(tasks) : PlaceOK(tasks[i], t, Len(todo[t]) - 1 + Len(tasks) - i) /\
          tasks[i].op \in PlainOps
      BY <1>1
    <2> QED BY <1>3, <2>1, <2>2, ShapedPlain
  <1>6. UNCHANGED composition /\ UNCHANGED building /\ UNCHANGED winlock /\ UNCHANGED pushes /\
        UNCHANGED refs /\ UNCHANGED layers /\ UNCHANGED inflight /\ UNCHANGED callback /\
        UNCHANGED lost /\
          UNCHANGED screen /\ UNCHANGED flips
    BY DEF winVars, reqVars, kmsVars, schedVars
  <1>7. TypeOK'
    <2>1. TypeOK BY InvIs
    <2>2. 0 \in 0 .. MaxRequests BY BoundsAssumption
    <2> QED BY <1>3, <1>6, <2>1, <2>2, TypedNext DEF TypeOK, slotVars, surfVars, gpuVars
  <1>8. RequestSide /\ BatonsOK /\ LayersCounted /\ RequestsCounted BY InvIs DEF RequestSide
  <1>9. BatonsOK'
    <2> DEFINE g == 1
               j == 1
               k == 0
               n == One(Busy')
    <2>1. k \in Int /\ n =
          One(Busy) + ((j - g) + (One(inflight' # 0) - One(inflight # 0)) + k)
      BY <1>6 DEF One, Busy
    <2>2. Counted(g, Above(todo, t, Len(todo[t]) - 1, OfOps(BatonOps))) /\
          Counted(j, Among(tasks, OfOps(BatonOps)))
          /\ More(Recorded(flips), Recorded(flips'), k)
      BY <1>0, <1>1, <1>6, FlipsSame
    <2> HIDE DEF g, j, k, n
    <2>3. Counted(n, BatonsOf(todo', inflight', flips'))
      BY <1>3, <2>1, <2>2, BatonsMore
    <2>4. callback' = inflight' /\ \A i \in DOMAIN flips' : flips'[i].frame # 0
      BY <1>6, <1>8, RequestIs DEF BatonsOK
    <2> QED BY <1>6, <1>8, <2>3, <2>4 DEF BatonsOK, Busy, n
  <1>10. RequestsCounted'
    <2> SUFFICES ASSUME NEW x \in Requests PROVE Counted(refs'[x], RequestOwners(x)')
      BY DEF RequestsCounted
    <2> DEFINE g == One(r = x)
               j == One(queued = x) + One(r = x)
               kr == 0
               kf == 0
    <2>1. g \in Int /\ j \in Int /\ kr \in Int /\ kf \in Int BY OneIs
    <2>2. Counted(g, Above(todo, t, Len(todo[t]) - 1, OfReq(ReqOps, x))) /\
          Counted(j, Among(tasks, OfReq(ReqOps, x)))
      BY <1>0, <1>1
    <2>3. More(Retired(flips, x), Retired(flips', x), kr) /\
          More(Flipped(flips, x), Flipped(flips', x), kf)
      BY <1>0, <1>6, FlipsSame
    <2> HIDE DEF g, j, kr, kf
    <2>4. Counted(refs[x] + (((j - g) + (One(queued' = x) - One(queued = x)) +
            (One(inflight' = x) - One(inflight = x))
                           + (One(callback' = x) - One(callback = x)) +
                             (One(screen' = x) - One(screen = x))) + kr + kf),
                RequestOwners(x)') /\ refs[x] \in Nat
      BY <1>3, <2>1, <2>2, <2>3, RequestMore
    <2>5. refs'[x] = refs[x] + (((j - g) + (One(queued' = x) - One(queued = x)) +
            (One(inflight' = x) - One(inflight = x))
                           + (One(callback' = x) - One(callback = x)) +
                             (One(screen' = x) - One(screen = x))) + kr + kf)
      BY <1>0, <1>6, <2>4, RequestIs DEF g, j, kr, kf, One
    <2> QED BY <2>4, <2>5
  <1>11. LayersCounted' BY <1>6, <1>8, LayersKept
  <1>12. PushFits' /\ LockFits' /\ SubmitFits' /\ PushesDiffer' BY <1>3, <1>6, RequestFits
  <1>13. RequestSide' BY <1>9, <1>10, <1>11, <1>12 DEF RequestSide
  <1>14. RenderedOK' BY <1>6, RenderedStays
  <1> QED BY <1>3, <1>4, <1>6, <1>7, <1>13, <1>14, RequestStep DEF SlotSideOps

(* The frame on screen is the last for now.                                *)
LEMMA ScanoutLast ==
  ASSUME ScanoutInv, NEW t \in Threads, At(t, "scanout"), waiting' = FALSE, queued = 0,
         queued' = 0,
         Then(t, <<ReqTask("requnref", Head(todo[t]).req)>>),
         UNCHANGED slotVars, UNCHANGED surfVars, UNCHANGED gpuVars, UNCHANGED winVars,
           UNCHANGED reqVars, UNCHANGED kmsVars
  PROVE ScanoutInv'
  <1> DEFINE r == Head(todo[t]).req
             tasks == <<ReqTask("requnref", r)>>
  <1>0. r \in Requests
        /\ (\A q \in Requests :
           Counted(One(r = q), Above(todo, t, Len(todo[t]) - 1, OfReq(ReqOps, q))))
        /\ Counted(1, Above(todo, t, Len(todo[t]) - 1, OfOps(BatonOps)))
    BY BatonKind, TopRequest DEF At
  <1>a. Busy /\ inflight = 0 /\ callback = 0 /\ flips = <<>> BY BatonKind, TopBaton DEF At
  <1>1. /\ tasks \in Seq(Tasks)
        /\ \A i \in 1 .. Len(tasks) : tasks[i].op \in {"requnref"} /\ tasks[i].op \in PlainOps
        /\ \A d : \A i \in 1 .. Len(tasks) : PlaceOK(tasks[i], t, d)
        /\ \A q \in Requests : Counted(One(r = q), Among(tasks, OfReq(ReqOps, q)))
        /\ Counted(0, Among(tasks, OfOps(BatonOps)))
    BY <1>0, BatonKind, OneRequest
  <1>2. Then(t, tasks) OBVIOUS
  <1> HIDE DEF tasks, r
  <1>3. /\ todo \in Stacks /\ todo' \in Stacks /\ todo[t] # <<>> /\ Head(todo[t]).op = "scanout"
        /\ Stepped(todo, todo', t, Len(todo[t]) - 1, tasks) /\
           Touches({"requnref"}, {"scanout"})
    BY <1>1, <1>2, PopIs
  <1>4. Shaped(todo')
    <2>1. Shaped(todo) BY InvIs
    <2>2. \A i \in 1 .. Len(tasks) : PlaceOK(tasks[i], t, Len(todo[t]) - 1 + Len(tasks) - i) /\
          tasks[i].op \in PlainOps
      BY <1>1
    <2> QED BY <1>3, <2>1, <2>2, ShapedPlain
  <1>6. UNCHANGED composition /\ UNCHANGED building /\ UNCHANGED winlock /\ UNCHANGED pushes /\
        UNCHANGED refs /\ UNCHANGED layers /\ UNCHANGED queued /\ UNCHANGED inflight /\
          UNCHANGED callback /\ UNCHANGED lost /\ UNCHANGED screen /\ UNCHANGED flips
    BY RequestIs DEF winVars, reqVars, kmsVars, schedVars
  <1>7. TypeOK'
    <2>1. TypeOK BY InvIs
    <2> QED BY <1>3, <1>6, <2>1, TypedNext DEF TypeOK, slotVars, surfVars, gpuVars
  <1>8. RequestSide /\ BatonsOK /\ LayersCounted /\ RequestsCounted BY InvIs DEF RequestSide
  <1>9. BatonsOK'
    <2> DEFINE g == 1
               j == 0
               k == 0
               n == One(Busy')
    <2>1. k \in Int /\ n =
          One(Busy) + ((j - g) + (One(inflight' # 0) - One(inflight # 0)) + k)
      BY <1>6, <1>a DEF One, Busy
    <2>2. Counted(g, Above(todo, t, Len(todo[t]) - 1, OfOps(BatonOps))) /\
          Counted(j, Among(tasks, OfOps(BatonOps)))
          /\ More(Recorded(flips), Recorded(flips'), k)
      BY <1>0, <1>1, <1>6, FlipsSame
    <2> HIDE DEF g, j, k, n
    <2>3. Counted(n, BatonsOf(todo', inflight', flips'))
      BY <1>3, <2>1, <2>2, BatonsMore
    <2>4. callback' = inflight' /\ \A i \in DOMAIN flips' : flips'[i].frame # 0
      BY <1>6, <1>a, <1>8, RequestIs DEF BatonsOK
    <2> QED BY <1>6, <1>8, <1>a, <2>3, <2>4 DEF BatonsOK, Busy, n
  <1>10. RequestsCounted'
    <2> SUFFICES ASSUME NEW x \in Requests PROVE Counted(refs'[x], RequestOwners(x)')
      BY DEF RequestsCounted
    <2> DEFINE g == One(r = x)
               j == One(r = x)
               kr == 0
               kf == 0
    <2>1. g \in Int /\ j \in Int /\ kr \in Int /\ kf \in Int BY OneIs
    <2>2. Counted(g, Above(todo, t, Len(todo[t]) - 1, OfReq(ReqOps, x))) /\
          Counted(j, Among(tasks, OfReq(ReqOps, x)))
      BY <1>0, <1>1
    <2>3. More(Retired(flips, x), Retired(flips', x), kr) /\
          More(Flipped(flips, x), Flipped(flips', x), kf)
      BY <1>0, <1>6, FlipsSame
    <2> HIDE DEF g, j, kr, kf
    <2>4. Counted(refs[x] + (((j - g) + (One(queued' = x) - One(queued = x)) +
            (One(inflight' = x) - One(inflight = x))
                           + (One(callback' = x) - One(callback = x)) +
                             (One(screen' = x) - One(screen = x))) + kr + kf),
                RequestOwners(x)') /\ refs[x] \in Nat
      BY <1>3, <2>1, <2>2, <2>3, RequestMore
    <2>5. refs'[x] = refs[x] + (((j - g) + (One(queued' = x) - One(queued = x)) +
            (One(inflight' = x) - One(inflight = x))
                           + (One(callback' = x) - One(callback = x)) +
                             (One(screen' = x) - One(screen = x))) + kr + kf)
      BY <1>0, <1>6, <2>4, RequestIs DEF g, j, kr, kf, One
    <2> QED BY <2>4, <2>5
  <1>11. LayersCounted' BY <1>6, <1>8, LayersKept
  <1>12. PushFits' /\ LockFits' /\ SubmitFits' /\ PushesDiffer' BY <1>3, <1>6, RequestFits
  <1>13. RequestSide' BY <1>9, <1>10, <1>11, <1>12 DEF RequestSide
  <1>14. RenderedOK' BY <1>6, RenderedStays
  <1> QED BY <1>3, <1>4, <1>6, <1>7, <1>13, <1>14, RequestStep DEF SlotSideOps

FlipOf(r, q) == [retired |-> r, frame |-> q]

(* The list of one recorded flip.                                          *)
LEMMA FlipIs ==
  ASSUME NEW r \in 0 .. MaxRequests, NEW q \in 0 .. MaxRequests
  PROVE /\ Append(<<>>, FlipOf(r, q)) = <<FlipOf(r, q)>>
        /\ <<FlipOf(r, q)>> \in Seq([retired : 0 .. MaxRequests, frame : 0 .. MaxRequests])
        /\ FlipOf(r, q).retired = r /\ FlipOf(r, q).frame = q
        /\ DOMAIN <<FlipOf(r, q)>> = {1} /\ <<FlipOf(r, q)>>[1] = FlipOf(r, q)
  <1> DEFINE f == FlipOf(r, q)
             X == [retired : 0 .. MaxRequests, frame : 0 .. MaxRequests]
  <1>1. f \in X /\ f.retired = r /\ f.frame = q BY DEF FlipOf
  <1> HIDE DEF f, X
  <1>2. Append(<<>>, f) = <<f>> OBVIOUS
  <1>3. <<f>> \in Seq(X) BY <1>1
  <1>4. DOMAIN <<f>> = {1} /\ <<f>>[1] = f OBVIOUS
  <1> QED BY <1>1, <1>2, <1>3, <1>4 DEF f, X

(* A flip is recorded, or the one recorded is dispatched.                  *)
LEMMA FlipAdded ==
  ASSUME flips = <<>>, NEW f, flips' = <<f>>
  PROVE /\ More(Recorded(flips), Recorded(flips'), 1)
        /\ \A r : More(Retired(flips, r), Retired(flips', r), One(f.retired = r))
                  /\ More(Flipped(flips, r), Flipped(flips', r), One(f.frame = r))
  <1>1. Counted(0, Recorded(flips)) /\ Counted(1, Recorded(flips')) BY RecordedCount
  <1>2. More(Recorded(flips), Recorded(flips'), 1 - 0) BY <1>1, CountedMore
  <1>3. ASSUME NEW r
        PROVE More(Retired(flips, r), Retired(flips', r), One(f.retired = r))
              /\ More(Flipped(flips, r), Flipped(flips', r), One(f.frame = r))
    <2> DEFINE a == One(f.retired = r)
               b == One(f.frame = r)
               z == 0
    <2>1. Counted(z, Retired(flips, r)) /\ Counted(z, Flipped(flips, r)) BY FlipsCount
    <2>2. Counted(a, Retired(flips', r)) /\ Counted(b, Flipped(flips', r)) BY FlipsCount
    <2>3. a - z = a /\ b - z = b BY OneIs
    <2> HIDE DEF a, b, z
    <2>4. More(Retired(flips, r), Retired(flips', r), a - z) BY <2>1, <2>2, CountedMore
    <2>5. More(Flipped(flips, r), Flipped(flips', r), b - z) BY <2>1, <2>2, CountedMore
    <2> QED BY <2>3, <2>4, <2>5 DEF a, b
  <1> QED BY <1>2, <1>3

(* The recorded flip is taken.                                             *)
LEMMA FlipTaken ==
  ASSUME flips' = <<>>, NEW f, flips = <<f>>
  PROVE /\ More(Recorded(flips), Recorded(flips'), -1)
        /\ \A r : More(Retired(flips, r), Retired(flips', r), -One(f.retired = r))
                  /\ More(Flipped(flips, r), Flipped(flips', r), -One(f.frame = r))
  <1>1. Counted(1, Recorded(flips)) /\ Counted(0, Recorded(flips')) BY RecordedCount
  <1>2. More(Recorded(flips), Recorded(flips'), 0 - 1) BY <1>1, CountedMore
  <1>3. ASSUME NEW r
        PROVE More(Retired(flips, r), Retired(flips', r), -One(f.retired = r))
              /\ More(Flipped(flips, r), Flipped(flips', r), -One(f.frame = r))
    <2> DEFINE a == One(f.retired = r)
               b == One(f.frame = r)
               z == 0
    <2>1. Counted(z, Retired(flips', r)) /\ Counted(z, Flipped(flips', r)) BY FlipsCount
    <2>2. Counted(a, Retired(flips, r)) /\ Counted(b, Flipped(flips, r)) BY FlipsCount
    <2>3. z - a = -a /\ z - b = -b BY OneIs
    <2> HIDE DEF a, b, z
    <2>4. More(Retired(flips, r), Retired(flips', r), z - a) BY <2>1, <2>2, CountedMore
    <2>5. More(Flipped(flips, r), Flipped(flips', r), z - b) BY <2>1, <2>2, CountedMore
    <2> QED BY <2>3, <2>4, <2>5 DEF a, b
  <1> QED BY <1>2, <1>3

(* What a recorded flip calls.                                             *)
LEMMA FlipTasks ==
  ASSUME NEW f \in [retired : 0 .. MaxRequests, frame : 0 .. MaxRequests], f.frame # 0
  PROVE LET tasks == (IF f.retired = 0 THEN <<>> ELSE <<ReqTask("requnref", f.retired)>>)
                     \o (IF f.frame = 0 THEN <<>> ELSE <<ReqTask("scanout", f.frame)>>)
                     \o <<Call("dispatch")>>
        IN  /\ tasks \in Seq(Tasks)
            /\ \A i \in 1 .. Len(tasks) : tasks[i].op \in {"requnref", "scanout", "dispatch"} /\
               tasks[i].op \in PlainOps
            /\ \A t, d : \A i \in 1 .. Len(tasks) : PlaceOK(tasks[i], t, d)
            /\ \A x \in Requests :
               Counted(One(f.retired = x) + One(f.frame = x), Among(tasks, OfReq(ReqOps, x)))
            /\ Counted(1, Among(tasks, OfOps(BatonOps)))
  <1> DEFINE a == ReqTask("requnref", f.retired)
             b == ReqTask("scanout", f.frame)
             c == Call("dispatch")
             tasks == (IF f.retired = 0 THEN <<>> ELSE <<a>>) \o (IF f.frame = 0 THEN <<>>
               ELSE <<b>>) \o <<c>>
  <1>1. f.frame \in Requests /\ (f.retired # 0 => f.retired \in Requests)
    BY BoundsAssumption DEF Requests
  <1>2. /\ b \in Tasks /\ b.op = "scanout" /\ b.req = f.frame /\ (\A t, d : PlaceOK(b, t, d)) /\
           b.op \in PlainOps
        /\ c \in Tasks /\ c.op = "dispatch" /\ (\A t, d : PlaceOK(c, t, d)) /\ c.op \in PlainOps
    <2>1. b \in Tasks /\ b.op = "scanout" /\ b.req = f.frame /\ (\A t, d : PlaceOK(b, t, d)) /\
          b.op \in PlainOps
      <3>1. \A q \in Requests : /\ ReqTask("scanout", q) \in Tasks /\
                                   ReqTask("scanout", q).op = "scanout"
                                /\ ReqTask("scanout", q).req = q /\
                                   (\A t, d : PlaceOK(ReqTask("scanout", q), t, d))
                                /\ "scanout" \in PlainOps
        BY PlaceIs
      <3> QED BY <1>1, <3>1
    <2>2. c \in Tasks /\ c.op = "dispatch" /\ (\A t, d : PlaceOK(c, t, d)) /\ c.op \in PlainOps
      BY PlaceIs
    <2> QED BY <2>1, <2>2
  <1>3. f.retired # 0 => /\ a \in Tasks /\ a.op = "requnref" /\ a.req = f.retired /\
                            (\A t, d : PlaceOK(a, t, d))
                         /\ a.op \in PlainOps
    <2>1. \A q \in Requests : /\ ReqTask("requnref", q) \in Tasks
                               /\ ReqTask("requnref", q).op = "requnref"
                               /\ ReqTask("requnref", q).req = q
                               /\ (\A t, d : PlaceOK(ReqTask("requnref", q), t, d))
                               /\ "requnref" \in PlainOps
      BY PlaceIs
    <2> QED BY <1>1, <2>1
  <1> HIDE DEF a, b, c
  <1>4. \A x \in Requests : One(b \in OfReq(ReqOps, x)) = One(f.frame = x) /\
        c \notin OfReq(ReqOps, x)
    BY <1>2, BatonKind DEF One, OfReq
  <1>5. One(b \in OfOps(BatonOps)) = 1 /\ c \notin OfOps(BatonOps)
    BY <1>2, BatonKind DEF One, OfOps
  <1>6. CASE f.retired = 0
    <2>1. tasks = <<b, c>> BY <1>2, <1>6, JoinIs
    <2> HIDE DEF tasks
    <2>2. tasks \in Seq(Tasks) /\ Len(tasks) = 2 /\ tasks[1] = b /\ tasks[2] = c
      BY <1>2, <2>1, ListIs
    <2>3. \A K : Counted(One(b \in K) + One(c \in K), Among(tasks, K)) BY <2>1, AmongTwo
    <2>4. \A x \in Requests :
          Counted(One(f.retired = x) + One(f.frame = x), Among(tasks, OfReq(ReqOps, x)))
      <3> TAKE x \in Requests
      <3>1. Counted(One(b \in OfReq(ReqOps, x)) + One(c \in OfReq(ReqOps, x)),
              Among(tasks, OfReq(ReqOps, x)))
        BY <2>3
      <3>2. One(c \in OfReq(ReqOps, x)) = 0 /\ One(f.retired = x) = 0
        BY <1>4, <1>6, RequestIs DEF One
      <3>3. One(b \in OfReq(ReqOps, x)) + One(c \in OfReq(ReqOps, x)) =
            One(f.retired = x) + One(f.frame = x)
        BY <1>4, <3>2, OneIs
      <3> QED BY <3>1, <3>3
    <2>5. Counted(1, Among(tasks, OfOps(BatonOps)))
      <3>1. Counted(One(b \in OfOps(BatonOps)) + One(c \in OfOps(BatonOps)),
              Among(tasks, OfOps(BatonOps)))
        BY <2>3
      <3>2. One(b \in OfOps(BatonOps)) + One(c \in OfOps(BatonOps)) = 1 BY <1>5 DEF One
      <3> QED BY <3>1, <3>2
    <2>6. /\ \A i \in 1 .. Len(tasks) : tasks[i].op \in {"requnref", "scanout", "dispatch"} /\
             tasks[i].op \in PlainOps
          /\ \A t, d : \A i \in 1 .. Len(tasks) : PlaceOK(tasks[i], t, d)
      BY <1>2, <2>2
    <2> QED BY <2>2, <2>4, <2>5, <2>6 DEF tasks, a, b, c
  <1>7. CASE f.retired # 0
    <2>1. tasks = <<a, b, c>>
      <3>1. a \in Tasks /\ b \in Tasks /\ c \in Tasks BY <1>2, <1>3, <1>7
      <3>2. <<a>> \o <<b>> = <<a, b>> /\ <<a, b>> \o <<c>> = <<a, b, c>> BY <3>1, JoinIs
      <3>3. tasks = (<<a>> \o <<b>>) \o <<c>> BY <1>7
      <3> HIDE DEF tasks
      <3> QED BY <3>2, <3>3
    <2> HIDE DEF tasks
    <2>2. tasks \in Seq(Tasks) /\ Len(tasks) = 3 /\ tasks[1] = a /\ tasks[2] = b /\ tasks[3] = c
      BY <1>2, <1>3, <1>7, <2>1, ListIs
    <2>3. \A K : c \notin K => Counted(One(a \in K) + One(b \in K), Among(tasks, K))
      BY <2>1, AmongThree
    <2>4. \A x \in Requests :
          Counted(One(f.retired = x) + One(f.frame = x), Among(tasks, OfReq(ReqOps, x)))
      <3> TAKE x \in Requests
      <3>1. Counted(One(a \in OfReq(ReqOps, x)) + One(b \in OfReq(ReqOps, x)),
              Among(tasks, OfReq(ReqOps, x)))
        BY <1>4, <2>3
      <3>2. One(a \in OfReq(ReqOps, x)) = One(f.retired = x)
        BY <1>3, <1>7, BatonKind DEF One, OfReq
      <3> QED BY <1>4, <3>1, <3>2
    <2>5. Counted(1, Among(tasks, OfOps(BatonOps)))
      <3>1. Counted(One(a \in OfOps(BatonOps)) + One(b \in OfOps(BatonOps)),
              Among(tasks, OfOps(BatonOps)))
        BY <1>5, <2>3
      <3>2. One(a \in OfOps(BatonOps)) = 0 BY <1>3, <1>7, BatonKind DEF One, OfOps
      <3> QED BY <1>5, <3>1, <3>2
    <2>6. /\ \A i \in 1 .. Len(tasks) : tasks[i].op \in {"requnref", "scanout", "dispatch"} /\
             tasks[i].op \in PlainOps
          /\ \A t, d : \A i \in 1 .. Len(tasks) : PlaceOK(tasks[i], t, d)
      BY <1>2, <1>3, <1>7, <2>2
    <2> QED BY <2>2, <2>4, <2>5, <2>6 DEF tasks, a, b, c
  <1> QED BY <1>6, <1>7

(* drmModeSetCrtc has flipped when it returns.                             *)
LEMMA CommitLegacy ==
  ASSUME ScanoutInv, NEW t \in Threads, At(t, "commit"), Legacy,
         refs' = [refs EXCEPT ![Head(todo[t]).req] = @ + 1],
         RecordFlip(Head(todo[t]).req, Head(todo[t]).req), Then(t, <<Call("dispatch")>>),
         UNCHANGED slotVars, UNCHANGED surfVars, UNCHANGED gpuVars, UNCHANGED winVars,
           UNCHANGED layers, UNCHANGED schedVars, UNCHANGED inflight, UNCHANGED lost
  PROVE ScanoutInv'
  <1> DEFINE r == Head(todo[t]).req
             tasks == <<Call("dispatch")>>
  <1>0. r \in Requests
        /\ (\A q \in Requests :
           Counted(One(r = q), Above(todo, t, Len(todo[t]) - 1, OfReq(ReqOps, q))))
        /\ Counted(1, Above(todo, t, Len(todo[t]) - 1, OfOps(BatonOps)))
    BY BatonKind, TopRequest DEF At
  <1>a. Busy /\ inflight = 0 /\ callback = 0 /\ flips = <<>> BY BatonKind, TopBaton DEF At
  <1>b. refs' = [refs EXCEPT ![r] = @ + 1] /\ refs \in [Requests -> Nat]
    BY InvIs DEF TypeOK
  <1>c. /\ flips' = <<FlipOf(screen, r)>> /\ screen' = r /\ callback' = 0
        /\ DOMAIN flips' = {1} /\ flips'[1].frame = r /\ flips'[1].retired = screen
        /\ flips' \in Seq([retired : 0 .. MaxRequests, frame : 0 .. MaxRequests])
    <2>1. r \in 0 .. MaxRequests /\ screen \in 0 .. MaxRequests
      BY <1>0, InvIs, RequestIs DEF TypeOK
    <2>2. flips' = Append(<<>>, FlipOf(screen, r)) /\ screen' = r /\ callback' = 0
      BY <1>a DEF RecordFlip, FlipOf
    <2> QED BY <2>1, <2>2, FlipIs
  <1>d. /\ More(Recorded(flips), Recorded(flips'), 1)
        /\ \A q : More(Retired(flips, q), Retired(flips', q), One(screen = q)) /\
           More(Flipped(flips, q), Flipped(flips', q), One(r = q))
    <2>1. FlipOf(screen, r).retired = screen /\ FlipOf(screen, r).frame = r BY DEF FlipOf
    <2>2. /\ More(Recorded(flips), Recorded(flips'), 1)
          /\ \A q : More(Retired(flips, q), Retired(flips', q),
             One(FlipOf(screen, r).retired = q))
                    /\ More(Flipped(flips, q), Flipped(flips', q),
                       One(FlipOf(screen, r).frame = q))
      BY <1>a, <1>c, FlipAdded
    <2> QED BY <2>1, <2>2
  <1>1. /\ tasks \in Seq(Tasks)
        /\ \A i \in 1 .. Len(tasks) : tasks[i].op \in {"dispatch"} /\ tasks[i].op \in PlainOps
        /\ \A d : \A i \in 1 .. Len(tasks) : PlaceOK(tasks[i], t, d)
        /\ \A q \in Requests : Counted(0, Among(tasks, OfReq(ReqOps, q)))
        /\ Counted(0, Among(tasks, OfOps(BatonOps)))
    BY JustDispatch
  <1>2. Then(t, tasks) OBVIOUS
  <1> HIDE DEF tasks, r
  <1>3. /\ todo \in Stacks /\ todo' \in Stacks /\ todo[t] # <<>> /\ Head(todo[t]).op = "commit"
        /\ Stepped(todo, todo', t, Len(todo[t]) - 1, tasks) /\ Touches({"dispatch"}, {"commit"})
    BY <1>1, <1>2, PopIs
  <1>4. Shaped(todo')
    <2>1. Shaped(todo) BY InvIs
    <2>2. \A i \in 1 .. Len(tasks) : PlaceOK(tasks[i], t, Len(todo[t]) - 1 + Len(tasks) - i) /\
          tasks[i].op \in PlainOps
      BY <1>1
    <2> QED BY <1>3, <2>1, <2>2, ShapedPlain
  <1>6. UNCHANGED composition /\ UNCHANGED building /\ UNCHANGED winlock /\ UNCHANGED pushes /\
        UNCHANGED layers /\ UNCHANGED waiting /\ UNCHANGED queued /\ UNCHANGED lost /\
        UNCHANGED inflight
    BY DEF winVars, reqVars, kmsVars, schedVars
  <1>7. TypeOK'
    <2>1. TypeOK BY InvIs
    <2>2. refs' \in [Requests -> Nat] /\ refs \in [Requests -> Nat]
      <3>1. refs[r] + 1 \in Nat BY <1>0, <1>b
      <3> QED BY <1>b, <3>1
    <2>3. screen' \in 0 .. MaxRequests /\ callback' \in 0 .. MaxRequests
          /\ flips' \in Seq([retired : 0 .. MaxRequests, frame : 0 .. MaxRequests])
      BY <1>0, <1>c, BoundsAssumption, RequestIs
    <2> QED BY <1>3, <1>6, <2>1, <2>2, <2>3, TypedNext DEF TypeOK, slotVars, surfVars, gpuVars
  <1>8. RequestSide /\ BatonsOK /\ LayersCounted /\ RequestsCounted BY InvIs DEF RequestSide
  <1>9. BatonsOK'
    <2> DEFINE g == 1
               j == 0
               k == 1
               n == One(Busy')
    <2>1. k \in Int /\ n =
          One(Busy) + ((j - g) + (One(inflight' # 0) - One(inflight # 0)) + k)
      BY <1>0, <1>6, <1>a, <1>c DEF One, Busy
    <2>2. Counted(g, Above(todo, t, Len(todo[t]) - 1, OfOps(BatonOps))) /\
          Counted(j, Among(tasks, OfOps(BatonOps)))
          /\ More(Recorded(flips), Recorded(flips'), k)
      BY <1>0, <1>1, <1>6, <1>d
    <2> HIDE DEF g, j, k, n
    <2>3. Counted(n, BatonsOf(todo', inflight', flips'))
      BY <1>3, <2>1, <2>2, BatonsMore
    <2>4. callback' = inflight' /\ \A i \in DOMAIN flips' : flips'[i].frame # 0
      BY <1>0, <1>6, <1>a, <1>c, <1>8, RequestIs DEF BatonsOK
    <2> QED BY <1>6, <1>8, <1>a, <2>3, <2>4 DEF BatonsOK, Busy, n
  <1>10. RequestsCounted'
    <2> SUFFICES ASSUME NEW x \in Requests PROVE Counted(refs'[x], RequestOwners(x)')
      BY DEF RequestsCounted
    <2> DEFINE g == One(r = x)
               j == 0
               kr == One(screen = x)
               kf == One(r = x)
    <2>1. g \in Int /\ j \in Int /\ kr \in Int /\ kf \in Int BY OneIs
    <2>2. Counted(g, Above(todo, t, Len(todo[t]) - 1, OfReq(ReqOps, x))) /\
          Counted(j, Among(tasks, OfReq(ReqOps, x)))
      BY <1>0, <1>1
    <2>3. More(Retired(flips, x), Retired(flips', x), kr) /\
          More(Flipped(flips, x), Flipped(flips', x), kf)
      BY <1>0, <1>6, <1>d
    <2> HIDE DEF g, j, kr, kf
    <2>4. Counted(refs[x] + (((j - g) + (One(queued' = x) - One(queued = x)) +
            (One(inflight' = x) - One(inflight = x))
                           + (One(callback' = x) - One(callback = x)) +
                             (One(screen' = x) - One(screen = x))) + kr + kf),
                RequestOwners(x)') /\ refs[x] \in Nat
      BY <1>3, <2>1, <2>2, <2>3, RequestMore
    <2>5. refs'[x] = refs[x] + (((j - g) + (One(queued' = x) - One(queued = x)) +
            (One(inflight' = x) - One(inflight = x))
                           + (One(callback' = x) - One(callback = x)) +
                             (One(screen' = x) - One(screen = x))) + kr + kf)
      BY <1>0, <1>6, <2>4, <1>a, <1>b, <1>c, RequestIs DEF g, j, kr, kf, One
    <2> QED BY <2>4, <2>5
  <1>11. LayersCounted'
    <2>1. refs[r] > 0 /\ refs[r] \in Nat BY <1>3, TopNoSubmit DEF r
    <2>2. \A q \in Requests : q # r => refs'[q] = refs[q] BY <1>b
    <2>3. refs \in [Requests -> Nat] BY InvIs DEF TypeOK
    <2>4. refs'[r] = refs[r] + 1 BY <1>0, <1>b, <2>3
    <2>5. \A q \in Requests : (refs[q] > 0 => refs'[q] > 0) /\ (refs[q] = 0 => refs'[q] = 0)
      BY <1>0, <2>1, <2>2, <2>3, <2>4
    <2>6. ~(r > pushes) BY <1>0, <1>8, <2>1 DEF LayersCounted
    <2> QED BY <1>6, <1>8, <2>1, <2>5, <2>6 DEF LayersCounted
  <1>12. PushFits' /\ LockFits' /\ SubmitFits' /\ PushesDiffer'
    <2>1. /\ refs[r] > 0 /\ refs' = [refs EXCEPT ![r] = refs[r] + 1]
          /\ \A u \in Threads : \A e \in Nat :
                ~(Has(todo, u, e) /\ TaskAt(todo, u, e).op = "submit" /\
                  TaskAt(todo, u, e).req = r)
      BY <1>3, TopNoSubmit DEF r
    <2>2. {"dispatch"} \cap {"push", "build", "unlock", "submit"} = {} OBVIOUS
    <2> QED BY <1>0, <1>3, <1>6, <2>1, <2>2, RequestFitsAt
  <1>13. RequestSide' BY <1>9, <1>10, <1>11, <1>12 DEF RequestSide
  <1>14. RenderedOK'
    <2>1. RenderedOK BY InvIs
    <2>2. \A i \in DOMAIN layers[r] : layers[r][i].slot \notin gpu
      BY <1>0, <1>a, <2>1 DEF RenderedOK
    <2>3. UNCHANGED store /\ UNCHANGED completion /\ UNCHANGED gpu /\ UNCHANGED sem
      BY DEF slotVars, gpuVars
    <2> QED BY <1>6, <1>c, <2>1, <2>2, <2>3 DEF RenderedOK, InUse, ScanoutAfterRender
  <1> QED BY <1>3, <1>4, <1>6, <1>7, <1>13, <1>14, RequestStep DEF SlotSideOps

(* The kernel's flip of the request in flight.                             *)
LEMMA KernelFlips ==
  ASSUME ScanoutInv, NEW t \in Threads, t = EventLoop, Idle(t), inflight # 0, inflight' = 0,
         RecordFlip(inflight, callback),
         \A i \in DOMAIN layers[inflight] : layers[inflight][i].fence =>
           layers[inflight][i].slot \notin gpu,
         todo' = [todo EXCEPT ![t] = <<Call("dispatch")>>],
         UNCHANGED slotVars, UNCHANGED surfVars, UNCHANGED gpuVars, UNCHANGED winVars,
           UNCHANGED reqVars, UNCHANGED schedVars, UNCHANGED lost
  PROVE ScanoutInv'
  <1> DEFINE r == inflight
             tasks == <<Call("dispatch")>>
  <1>a. Busy /\ flips = <<>> /\ callback = r /\ inflight = r BY BatonAlone
  <1>0. /\ r \in Requests
        /\ \A q \in Requests : Counted(0, Above(todo, t, 0, OfReq(ReqOps, q)))
        /\ Counted(0, Above(todo, t, 0, OfOps(BatonOps)))
    <2>1. r \in Requests BY InvIs, BoundsAssumption DEF TypeOK, Requests
    <2> QED BY <2>1, AboveIdle DEF Idle
  <1>c. /\ flips' = <<FlipOf(screen, r)>> /\ screen' = r /\ callback' = 0
        /\ DOMAIN flips' = {1} /\ flips'[1].frame = r /\ flips'[1].retired = screen
        /\ flips' \in Seq([retired : 0 .. MaxRequests, frame : 0 .. MaxRequests])
    <2>1. r \in 0 .. MaxRequests /\ screen \in 0 .. MaxRequests
      BY <1>0, InvIs, RequestIs DEF TypeOK
    <2>2. flips' = Append(<<>>, FlipOf(screen, r)) /\ screen' = r /\ callback' = 0
      BY <1>a DEF RecordFlip, FlipOf
    <2> QED BY <2>1, <2>2, FlipIs
  <1>d. /\ More(Recorded(flips), Recorded(flips'), 1)
        /\ \A q : More(Retired(flips, q), Retired(flips', q), One(screen = q)) /\
           More(Flipped(flips, q), Flipped(flips', q), One(r = q))
    <2>1. FlipOf(screen, r).retired = screen /\ FlipOf(screen, r).frame = r BY DEF FlipOf
    <2>2. /\ More(Recorded(flips), Recorded(flips'), 1)
          /\ \A q : More(Retired(flips, q), Retired(flips', q),
             One(FlipOf(screen, r).retired = q))
                    /\ More(Flipped(flips, q), Flipped(flips', q),
                       One(FlipOf(screen, r).frame = q))
      BY <1>a, <1>c, FlipAdded
    <2> QED BY <2>1, <2>2
  <1>1. /\ tasks \in Seq(Tasks)
        /\ \A i \in 1 .. Len(tasks) : tasks[i].op \in {"dispatch"} /\ tasks[i].op \in PlainOps
        /\ \A d : \A i \in 1 .. Len(tasks) : PlaceOK(tasks[i], t, d)
        /\ \A q \in Requests : Counted(0, Among(tasks, OfReq(ReqOps, q)))
        /\ Counted(0, Among(tasks, OfOps(BatonOps)))
    BY JustDispatch
  <1>2. todo' = [todo EXCEPT ![t] = tasks] OBVIOUS
  <1> HIDE DEF tasks, r
  <1>3. /\ todo \in Stacks /\ todo' \in Stacks
        /\ Stepped(todo, todo', t, 0, tasks) /\ Touches({"dispatch"}, {})
    BY <1>1, <1>2, StartIs
  <1>4. Shaped(todo')
    <2>1. Shaped(todo) BY InvIs
    <2>2. \A i \in 1 .. Len(tasks) : PlaceOK(tasks[i], t, 0 + Len(tasks) - i) /\
          tasks[i].op \in PlainOps
      BY <1>1
    <2> QED BY <1>3, <2>1, <2>2, ShapedPlain
  <1>6. UNCHANGED composition /\ UNCHANGED building /\ UNCHANGED winlock /\ UNCHANGED pushes /\
        UNCHANGED refs /\ UNCHANGED layers /\ UNCHANGED waiting /\ UNCHANGED lost /\
        UNCHANGED queued
    BY DEF winVars, reqVars, kmsVars, schedVars
  <1>7. TypeOK'
    <2>1. TypeOK BY InvIs
    <2>2. inflight' \in 0 .. MaxRequests BY BoundsAssumption
    <2>3. screen' \in 0 .. MaxRequests /\ callback' \in 0 .. MaxRequests
          /\ flips' \in Seq([retired : 0 .. MaxRequests, frame : 0 .. MaxRequests])
      BY <1>0, <1>c, BoundsAssumption, RequestIs
    <2> QED BY <1>3, <1>6, <2>1, <2>2, <2>3, TypedNext DEF TypeOK, slotVars, surfVars, gpuVars
  <1>8. RequestSide /\ BatonsOK /\ LayersCounted /\ RequestsCounted BY InvIs DEF RequestSide
  <1>9. BatonsOK'
    <2> DEFINE g == 0
               j == 0
               k == 1
               n == One(Busy')
    <2>1. k \in Int /\ n =
          One(Busy) + ((j - g) + (One(inflight' # 0) - One(inflight # 0)) + k)
      BY <1>0, <1>6, <1>a, <1>c DEF One, Busy
    <2>2. Counted(g, Above(todo, t, 0, OfOps(BatonOps))) /\
          Counted(j, Among(tasks, OfOps(BatonOps)))
          /\ More(Recorded(flips), Recorded(flips'), k)
      BY <1>0, <1>1, <1>6, <1>d
    <2> HIDE DEF g, j, k, n
    <2>3. Counted(n, BatonsOf(todo', inflight', flips'))
      BY <1>3, <2>1, <2>2, BatonsMore
    <2>4. callback' = inflight' /\ \A i \in DOMAIN flips' : flips'[i].frame # 0
      BY <1>0, <1>6, <1>a, <1>c, <1>8, RequestIs DEF BatonsOK
    <2> QED BY <1>6, <1>8, <1>a, <2>3, <2>4 DEF BatonsOK, Busy, n
  <1>10. RequestsCounted'
    <2> SUFFICES ASSUME NEW x \in Requests PROVE Counted(refs'[x], RequestOwners(x)')
      BY DEF RequestsCounted
    <2> DEFINE g == 0
               j == 0
               kr == One(screen = x)
               kf == One(r = x)
    <2>1. g \in Int /\ j \in Int /\ kr \in Int /\ kf \in Int BY OneIs
    <2>2. Counted(g, Above(todo, t, 0, OfReq(ReqOps, x))) /\
          Counted(j, Among(tasks, OfReq(ReqOps, x)))
      BY <1>0, <1>1
    <2>3. More(Retired(flips, x), Retired(flips', x), kr) /\
          More(Flipped(flips, x), Flipped(flips', x), kf)
      BY <1>0, <1>6, <1>d
    <2> HIDE DEF g, j, kr, kf
    <2>4. Counted(refs[x] + (((j - g) + (One(queued' = x) - One(queued = x)) +
            (One(inflight' = x) - One(inflight = x))
                           + (One(callback' = x) - One(callback = x)) +
                             (One(screen' = x) - One(screen = x))) + kr + kf),
                RequestOwners(x)') /\ refs[x] \in Nat
      BY <1>3, <2>1, <2>2, <2>3, RequestMore
    <2>5. refs'[x] = refs[x] + (((j - g) + (One(queued' = x) - One(queued = x)) +
            (One(inflight' = x) - One(inflight = x))
                           + (One(callback' = x) - One(callback = x)) +
                             (One(screen' = x) - One(screen = x))) + kr + kf)
      BY <1>0, <1>6, <2>4, <1>a, <1>c, RequestIs DEF g, j, kr, kf, One
    <2> QED BY <2>4, <2>5
  <1>11. LayersCounted' BY <1>6, <1>8, LayersKept
  <1>12. PushFits' /\ LockFits' /\ SubmitFits' /\ PushesDiffer' BY <1>3, <1>6, RequestFits
  <1>13. RequestSide' BY <1>9, <1>10, <1>11, <1>12 DEF RequestSide
  <1>14. RenderedOK'
    <2>1. RenderedOK BY InvIs
    <2>2. \A i \in DOMAIN layers[r] : layers[r][i].slot \notin gpu
      BY <1>0, <1>a, <2>1 DEF RenderedOK
    <2>3. UNCHANGED store /\ UNCHANGED completion /\ UNCHANGED gpu /\ UNCHANGED sem
      BY DEF slotVars, gpuVars
    <2> QED BY <1>6, <1>c, <2>1, <2>2, <2>3 DEF RenderedOK, InUse, ScanoutAfterRender
  <1> QED BY <1>3, <1>4, <1>6, <1>7, <1>13, <1>14, RequestStep DEF SlotSideOps

(* A recorded flip is dispatched.                                          *)
LEMMA DispatchOne ==
  ASSUME ScanoutInv, NEW t \in Threads, At(t, "dispatch"), flips # <<>>, flips' = Tail(flips),
         LET f == Head(flips)
         IN  Then(t, (IF f.retired = 0 THEN <<>> ELSE <<ReqTask("requnref", f.retired)>>)
                     \o (IF f.frame = 0 THEN <<>> ELSE <<ReqTask("scanout", f.frame)>>)
                     \o <<Call("dispatch")>>),
         UNCHANGED slotVars, UNCHANGED surfVars, UNCHANGED gpuVars, UNCHANGED winVars,
           UNCHANGED reqVars, UNCHANGED schedVars, UNCHANGED inflight, UNCHANGED callback,
             UNCHANGED screen, UNCHANGED lost
  PROVE ScanoutInv'
  <1> DEFINE r == Head(todo[t]).req
             tasks == (IF Head(flips).retired = 0 THEN <<>>
               ELSE <<ReqTask("requnref", Head(flips).retired)>>)
                      \o (IF Head(flips).frame = 0 THEN <<>>
                        ELSE <<ReqTask("scanout", Head(flips).frame)>>)
                      \o <<Call("dispatch")>>
             f == Head(flips)
  <1>0. (\A q \in Requests : Counted(0, Above(todo, t, Len(todo[t]) - 1, OfReq(ReqOps, q))))
        /\ Counted(0, Above(todo, t, Len(todo[t]) - 1, OfOps(BatonOps)))
    BY BatonKind, TopOther DEF At
  <1>a. /\ f \in [retired : 0 .. MaxRequests, frame : 0 .. MaxRequests] /\ f.frame # 0 /\
           f.frame \in Requests
        /\ flips = <<f>> /\ flips' = <<>> /\ Busy /\ inflight = 0 /\ callback = 0
    <2>1. /\ f \in [retired : 0 .. MaxRequests, frame : 0 .. MaxRequests] /\ f.frame # 0
          /\ flips = <<f>> /\ flips' = <<>> /\ Busy /\ inflight = 0 /\ callback = 0
      BY BatonAlone
    <2>2. f.frame \in Requests BY <2>1, BoundsAssumption DEF Requests
    <2> QED BY <2>1, <2>2
  <1>d. /\ More(Recorded(flips), Recorded(flips'), -1)
        /\ \A q : More(Retired(flips, q), Retired(flips', q), -One(f.retired = q)) /\
           More(Flipped(flips, q), Flipped(flips', q), -One(f.frame = q))
    BY <1>a, FlipTaken

  <1>1. /\ tasks \in Seq(Tasks)
        /\ \A i \in 1 .. Len(tasks) : tasks[i].op \in {"requnref", "scanout", "dispatch"} /\
           tasks[i].op \in PlainOps
        /\ \A d : \A i \in 1 .. Len(tasks) : PlaceOK(tasks[i], t, d)
        /\ \A q \in Requests :
           Counted(One(f.retired = q) + One(f.frame = q), Among(tasks, OfReq(ReqOps, q)))
        /\ Counted(1, Among(tasks, OfOps(BatonOps)))
    BY <1>a, FlipTasks
  <1>2. Then(t, tasks) OBVIOUS
  <1> HIDE DEF tasks, r
  <1>3. /\ todo \in Stacks /\ todo' \in Stacks /\ todo[t] # <<>> /\
           Head(todo[t]).op = "dispatch"
        /\ Stepped(todo, todo', t, Len(todo[t]) - 1, tasks) /\
           Touches({"requnref", "scanout", "dispatch"}, {"dispatch"})
    BY <1>1, <1>2, PopIs
  <1>4. Shaped(todo')
    <2>1. Shaped(todo) BY InvIs
    <2>2. \A i \in 1 .. Len(tasks) : PlaceOK(tasks[i], t, Len(todo[t]) - 1 + Len(tasks) - i) /\
          tasks[i].op \in PlainOps
      BY <1>1
    <2> QED BY <1>3, <2>1, <2>2, ShapedPlain
  <1>6. UNCHANGED composition /\ UNCHANGED building /\ UNCHANGED winlock /\ UNCHANGED pushes /\
        UNCHANGED refs /\ UNCHANGED layers /\ UNCHANGED waiting /\ UNCHANGED lost /\
        UNCHANGED queued /\
          UNCHANGED inflight /\ UNCHANGED callback /\ UNCHANGED screen
    BY DEF winVars, reqVars, kmsVars, schedVars
  <1>7. TypeOK'
    <2>1. TypeOK BY InvIs
    <2>2. flips' \in Seq([retired : 0 .. MaxRequests, frame : 0 .. MaxRequests])
      <3>1. flips' = <<>> BY <1>a
      <3>2. \A X : <<>> \in Seq(X) OBVIOUS
      <3> QED BY <3>1, <3>2
    <2> QED BY <1>3, <1>6, <2>1, <2>2, TypedNext DEF TypeOK, slotVars, surfVars, gpuVars
  <1>8. RequestSide /\ BatonsOK /\ LayersCounted /\ RequestsCounted BY InvIs DEF RequestSide
  <1>9. BatonsOK'
    <2> DEFINE g == 0
               j == 1
               k == -1
               n == One(Busy')
    <2>1. k \in Int /\ n =
          One(Busy) + ((j - g) + (One(inflight' # 0) - One(inflight # 0)) + k)
      BY <1>6, <1>a DEF One, Busy
    <2>2. Counted(g, Above(todo, t, Len(todo[t]) - 1, OfOps(BatonOps))) /\
          Counted(j, Among(tasks, OfOps(BatonOps)))
          /\ More(Recorded(flips), Recorded(flips'), k)
      BY <1>0, <1>1, <1>6, <1>d
    <2> HIDE DEF g, j, k, n
    <2>3. Counted(n, BatonsOf(todo', inflight', flips'))
      BY <1>3, <2>1, <2>2, BatonsMore
    <2>4. callback' = inflight' /\ \A i \in DOMAIN flips' : flips'[i].frame # 0
      BY <1>6, <1>a, <1>8, RequestIs DEF BatonsOK
    <2> QED BY <1>6, <1>8, <1>a, <2>3, <2>4 DEF BatonsOK, Busy, n
  <1>10. RequestsCounted'
    <2> SUFFICES ASSUME NEW x \in Requests PROVE Counted(refs'[x], RequestOwners(x)')
      BY DEF RequestsCounted
    <2> DEFINE g == 0
               j == One(f.retired = x) + One(f.frame = x)
               kr == -One(f.retired = x)
               kf == -One(f.frame = x)
    <2>1. g \in Int /\ j \in Int /\ kr \in Int /\ kf \in Int BY OneIs
    <2>2. Counted(g, Above(todo, t, Len(todo[t]) - 1, OfReq(ReqOps, x))) /\
          Counted(j, Among(tasks, OfReq(ReqOps, x)))
      BY <1>0, <1>1
    <2>3. More(Retired(flips, x), Retired(flips', x), kr) /\
          More(Flipped(flips, x), Flipped(flips', x), kf)
      BY <1>0, <1>6, <1>d
    <2> HIDE DEF g, j, kr, kf
    <2>4. Counted(refs[x] + (((j - g) + (One(queued' = x) - One(queued = x)) +
            (One(inflight' = x) - One(inflight = x))
                           + (One(callback' = x) - One(callback = x)) +
                             (One(screen' = x) - One(screen = x))) + kr + kf),
                RequestOwners(x)') /\ refs[x] \in Nat
      BY <1>3, <2>1, <2>2, <2>3, RequestMore
    <2>5. refs'[x] = refs[x] + (((j - g) + (One(queued' = x) - One(queued = x)) +
            (One(inflight' = x) - One(inflight = x))
                           + (One(callback' = x) - One(callback = x)) +
                             (One(screen' = x) - One(screen = x))) + kr + kf)
      BY <1>0, <1>6, <2>4, RequestIs DEF g, j, kr, kf, One
    <2> QED BY <2>4, <2>5
  <1>11. LayersCounted' BY <1>6, <1>8, LayersKept
  <1>12. PushFits' /\ LockFits' /\ SubmitFits' /\ PushesDiffer' BY <1>3, <1>6, RequestFits
  <1>13. RequestSide' BY <1>9, <1>10, <1>11, <1>12 DEF RequestSide
  <1>14. RenderedOK' BY <1>6, RenderedStays
  <1> QED BY <1>3, <1>4, <1>6, <1>7, <1>13, <1>14, RequestStep DEF SlotSideOps

(* With no flip recorded, dispatching ends.                                *)
LEMMA DispatchNone ==
  ASSUME ScanoutInv, NEW t \in Threads, At(t, "dispatch"), Then(t, <<>>), UNCHANGED flips,
         UNCHANGED slotVars, UNCHANGED surfVars, UNCHANGED gpuVars, UNCHANGED winVars,
           UNCHANGED reqVars, UNCHANGED schedVars,
         UNCHANGED inflight, UNCHANGED callback, UNCHANGED screen, UNCHANGED lost
  PROVE ScanoutInv'
  <1>1. \A i \in 1 .. Len(<<>>) : <<>>[i].op \in {} BY ListIs
  <1>2. /\ todo \in Stacks /\ todo' \in Stacks
        /\ Stepped(todo, todo', t, Len(todo[t]) - 1, <<>>) /\ Touches({}, {"dispatch"})
    BY <1>1, ListIs, PopIs
  <1>3. Shaped(todo') BY <1>2, InvIs, ListIs, ShapedPlain
  <1>4. UNCHANGED composition /\ UNCHANGED building /\ UNCHANGED winlock /\ UNCHANGED pushes /\
        UNCHANGED refs
        /\ UNCHANGED layers /\ UNCHANGED waiting /\ UNCHANGED queued /\ UNCHANGED kmsVars
    BY DEF winVars, reqVars, kmsVars, schedVars
  <1>5. TypeOK'
    <2>1. TypeOK BY InvIs
    <2> QED BY <1>2, <1>4, <2>1, TypedNext DEF TypeOK, slotVars, surfVars, gpuVars
  <1>6. RequestSide' BY <1>2, <1>4, RequestSideKept DEF RequestSideOps
  <1>7. RenderedOK' BY <1>4, RenderedStays
  <1> QED BY <1>2, <1>3, <1>4, <1>5, <1>6, <1>7, RequestStep DEF SlotSideOps

-----------------------------------------------------------------------------
(* The window lock is held by the thread that takes a step.                *)
LEMMA LockNext ==
  ASSUME LockFits, NEW t, NEW m, NEW tasks, Stepped(todo, todo', t, m, tasks),
         winlock \subseteq {t}, winlock' = {t}
  PROVE LockFits'
  <1> SUFFICES ASSUME NEW u \in Threads, NEW d \in Nat, Has(todo', u, d),
                      TaskAt(todo', u, d).op \in {"build", "unlock"}
               PROVE winlock' = {u}
    BY DEF LockFits, Lock1
  <1>1. CASE u = t BY <1>1
  <1>2. CASE u # t
    <2>1. Has(todo, u, d) /\ TaskAt(todo, u, d) = TaskAt(todo', u, d) BY <1>2, SteppedTasks
    <2>2. winlock = {u} BY <2>1 DEF LockFits, Lock1
    <2> QED BY <1>2, <2>2
  <1> QED BY <1>1, <1>2

(* A new composition is pushed: one push or build more.                    *)
LEMMA PushAdded ==
  ASSUME ScanoutInv, NEW t, NEW m, NEW tasks, Stepped(todo, todo', t, m, tasks),
         pushes' = pushes + 1, pushes' \in Requests, UNCHANGED refs, UNCHANGED layers,
         NEW p \in 1 .. Len(tasks),
         \A i \in 1 .. Len(tasks) : tasks[i].op \in {"push", "build"} =>
           i = p /\ tasks[i].req = pushes + 1
  PROVE PushFits' /\ PushesDiffer' /\ LayersCounted'
  <1>0. RequestSide /\ TypeOK BY InvIs
  <1>1. pushes \in Nat BY <1>0, BoundsAssumption DEF TypeOK
  <1>2. LayersCounted /\ PushesDiffer /\ PushFits BY <1>0 DEF RequestSide
  <1>3. LayersCounted'
    <2>1. \A r \in Requests : r > pushes + 1 => r > pushes BY <1>1, RequestIs
    <2> QED BY <1>2, <2>1 DEF LayersCounted
  <1>4. refs[pushes + 1] = 0
    <2>1. pushes + 1 > pushes BY <1>1
    <2> QED BY <1>2, <2>1 DEF LayersCounted
  <1>5. ASSUME NEW u \in Threads, NEW d \in Nat, Has(todo', u, d),
               TaskAt(todo', u, d).op \in {"push", "build"}
        PROVE \/ /\ Has(todo, u, d) /\ TaskAt(todo, u, d) = TaskAt(todo', u, d)
                 /\ refs[TaskAt(todo', u, d).req] = 0 /\ TaskAt(todo', u, d).req <= pushes
              \/ u = t /\ d = m + Len(tasks) - p /\ TaskAt(todo', u, d).req = pushes + 1
    <2>0. m \in Nat /\ Len(tasks) \in Nat BY SteppedTasks
    <2>1. CASE u # t \/ d < m
      <3>1. Has(todo, u, d) /\ TaskAt(todo, u, d) = TaskAt(todo', u, d)
        BY <1>5, <2>1, SteppedTasks, SMTT(30)
      <3>2. Push1(TaskAt(todo, u, d)) BY <1>2, <3>1 DEF PushFits
      <3> QED BY <1>5, <3>1, <3>2 DEF Push1
    <2>2. CASE u = t /\ d >= m
      <3> DEFINE i == m + Len(tasks) - d
      <3>1. i \in 1 .. Len(tasks) /\ TaskAt(todo', t, d) = tasks[i] BY <1>5, <2>2, SteppedTasks
      <3>2. i = p /\ tasks[i].req = pushes + 1 BY <1>5, <2>2, <3>1
      <3>3. d = m + Len(tasks) - p BY <2>0, <3>2
      <3> QED BY <2>2, <3>1, <3>2, <3>3
    <2> QED BY <2>0, <2>1, <2>2
  <1>6. PushFits'
    <2> SUFFICES ASSUME NEW u \in Threads, NEW d \in Nat, Has(todo', u, d),
                        TaskAt(todo', u, d).op \in {"push", "build"}
                 PROVE refs'[TaskAt(todo', u, d).req] = 0 /\ TaskAt(todo', u, d).req <= pushes'
      BY DEF PushFits, Push1
    <2>1. CASE refs[TaskAt(todo', u, d).req] = 0 /\ TaskAt(todo', u, d).req <= pushes /\
          Has(todo, u, d)
               /\ TaskAt(todo, u, d) = TaskAt(todo', u, d)
      <3>1. TaskAt(todo', u, d).req \in Requests
        <4>1. Shaped(todo) BY InvIs
        <4>2. PlaceOK(TaskAt(todo, u, d), u, d) BY <2>1, <4>1 DEF Shaped
        <4> QED BY <2>1, <4>2 DEF PlaceOK
      <3>2. TaskAt(todo', u, d).req \in Nat BY <3>1, RequestIs
      <3>3. TaskAt(todo', u, d).req <= pushes + 1 BY <1>1, <2>1, <3>2
      <3>4. refs'[TaskAt(todo', u, d).req] = 0 BY <2>1
      <3> QED BY <3>3, <3>4
    <2>2. CASE TaskAt(todo', u, d).req = pushes + 1 BY <1>1, <1>4, <2>2
    <2> QED BY <1>5, <2>1, <2>2
  <1>7. PushesDiffer'
    <2> SUFFICES ASSUME NEW r \in Requests,
                        NEW x \in StackSet(todo', OfReq({"push", "build"}, r)),
                        NEW y \in StackSet(todo', OfReq({"push", "build"}, r))
                 PROVE x = y
      BY DEF PushesDiffer, Single
    <2>1. ASSUME NEW z \in StackSet(todo', OfReq({"push", "build"}, r))
          PROVE \/ z \in StackSet(todo, OfReq({"push", "build"}, r)) /\ r <= pushes
                \/ z = Tok(t, m + Len(tasks) - p) /\ r = pushes + 1
      <3>1. PICK u \in Threads : \E d \in Nat : z = Tok(u, d) /\ Has(todo', u, d) /\
              TaskAt(todo', u, d) \in OfReq({"push", "build"}, r)
        BY StackSetIs
      <3>2. PICK d \in Nat : z = Tok(u, d) /\ Has(todo', u, d) /\
            TaskAt(todo', u, d) \in OfReq({"push", "build"}, r)
        BY <3>1
      <3>3. TaskAt(todo', u, d).op \in {"push", "build"} /\ TaskAt(todo', u, d).req = r
        BY <3>2 DEF OfReq
      <3>4. CASE Has(todo, u, d) /\ TaskAt(todo, u, d) = TaskAt(todo', u, d) /\
            TaskAt(todo', u, d).req <= pushes
        <4>1. z \in StackSet(todo, OfReq({"push", "build"}, r)) BY <3>2, <3>4, StackSetIs
        <4> QED BY <3>3, <3>4, <4>1
      <3>5. CASE u = t /\ d = m + Len(tasks) - p /\ TaskAt(todo', u, d).req = pushes + 1
        BY <3>2, <3>3, <3>5
      <3> QED BY <1>5, <3>2, <3>3, <3>4, <3>5
    <2>2. ~(r <= pushes /\ r = pushes + 1) BY <1>1
    <2>3. Single(StackSet(todo, OfReq({"push", "build"}, r))) BY <1>2 DEF PushesDiffer
    <2> QED BY <2>1, <2>2, <2>3 DEF Single
  <1> QED BY <1>3, <1>6, <1>7

(* Pushing the current composition again keeps the invariant.             *)
LEMMA RequestRepaintStep ==
  ASSUME ScanoutInv, NEW t \in Threads, RequestRepaint(t) PROVE ScanoutInv'
  <1> DEFINE p == pushes + 1
             k == ReqTask("build", p)
             tasks == <<k>>
  <1>1. /\ Idle(t) /\ winlock = {} /\ winlock' = {t} /\ pushes' = p /\
           todo' = [todo EXCEPT ![t] = tasks] /\ pushes < MaxRequests
        /\ UNCHANGED slotVars /\ UNCHANGED surfVars /\ UNCHANGED gpuVars /\
           UNCHANGED composition /\ UNCHANGED building
        /\ UNCHANGED reqVars /\ UNCHANGED schedVars /\ UNCHANGED kmsVars
    BY DEF RequestRepaint
  <1>2. UNCHANGED refs /\ UNCHANGED layers /\ UNCHANGED waiting /\ UNCHANGED queued /\
        UNCHANGED inflight
        /\ UNCHANGED callback /\ UNCHANGED screen /\ UNCHANGED flips /\ UNCHANGED lost
    BY <1>1 DEF reqVars, schedVars, kmsVars
  <1>3. TypeOK /\ RequestSide BY InvIs
  <1>4. pushes \in Nat /\ p \in Requests /\ p \in 0 .. MaxRequests
    BY <1>1, <1>3, BoundsAssumption DEF TypeOK, Requests
  <1>5. k \in Tasks /\ k.op = "build" /\ k.req = p /\ PlaceOK(k, t, 0) BY <1>4, PlaceIs
  <1> HIDE DEF k, p
  <1>6. tasks \in Seq(Tasks) /\ Len(tasks) = 1 /\ tasks[1] = k BY <1>5, ListIs
  <1> HIDE DEF tasks
  <1>7. \A i \in 1 .. Len(tasks) : i = 1 /\ tasks[i] = k BY <1>6
  <1>8. /\ todo \in Stacks /\ todo' \in Stacks /\ Stepped(todo, todo', t, 0, tasks) /\
           Touches({"build"}, {})
    <2>1. \A i \in 1 .. Len(tasks) : tasks[i].op \in {"build"} BY <1>5, <1>7
    <2> QED BY <1>1, <1>6, <2>1, StartIs
  <1>9. Shaped(todo')
    <2>1. Shaped(todo) BY InvIs
    <2>2. \A i \in 1 .. Len(tasks) : PlaceOK(tasks[i], t, 0 + Len(tasks) - i) /\
          tasks[i].op \in PlainOps
      <3>1. 0 + Len(tasks) - 1 = 0 BY <1>6
      <3>2. "build" \in PlainOps BY DEF PlainOps
      <3> QED BY <1>5, <1>7, <3>1, <3>2
    <2> QED BY <1>8, <2>1, <2>2, ShapedPlain
  <1>10. TypeOK'
    BY <1>1, <1>2, <1>3, <1>4, <1>8, TypedNext DEF TypeOK, slotVars, surfVars, gpuVars, p
  <1>11. PushFits' /\ PushesDiffer' /\ LayersCounted'
    <2>1. 1 \in 1 .. Len(tasks) BY <1>6
    <2>2. \A i \in 1 .. Len(tasks) : tasks[i].op \in {"push", "build"} =>
          i = 1 /\ tasks[i].req = pushes + 1
      BY <1>5, <1>7 DEF p
    <2>3. pushes' = pushes + 1 /\ pushes' \in Requests BY <1>1, <1>4 DEF p
    <2> QED BY <1>2, <1>8, <2>1, <2>2, <2>3, PushAdded
  <1>12. LockFits'
    <2>1. LockFits /\ winlock \subseteq {t} BY <1>1, <1>3 DEF RequestSide
    <2> QED BY <1>1, <1>8, <2>1, LockNext
  <1>13. SubmitFits' BY <1>2, <1>3, <1>8, FitsKept DEF RequestSide
  <1>14. BatonsOK' BY <1>1, <1>2, <1>3, <1>8, BatonsKept DEF RequestSide, BatonOps
  <1>15. RequestsCounted' BY <1>1, <1>2, <1>3, <1>8, RequestsKept DEF RequestSide, ReqOps
  <1>16. RequestSide' BY <1>11, <1>12, <1>13, <1>14, <1>15 DEF RequestSide
  <1>17. RenderedOK' BY <1>1, <1>2, RenderedStays
  <1> QED BY <1>1, <1>2, <1>8, <1>9, <1>10, <1>16, <1>17, RequestStep DEF SlotSideOps

-----------------------------------------------------------------------------
(* The elements of joined lists.                                           *)
LEMMA JoinParts ==
  ASSUME NEW S, NEW a \in Seq(S), NEW b \in Seq(S), NEW n, n = Len(a), NEW k, k = Len(b), NEW r,
         r = a \o b
  PROVE /\ n \in Nat /\ k \in Nat /\ r \in Seq(S) /\ Len(r) = n + k
        /\ \A i \in 1 .. n : r[i] = a[i]
        /\ \A i \in 1 .. k : r[n + i] = b[i]
  <1>1. n \in Nat /\ k \in Nat OBVIOUS
  <1>2. r \in Seq(S) /\ Len(r) = n + k OBVIOUS
  <1>3. \A i \in 1 .. n : r[i] = a[i] OBVIOUS
  <1>4. \A j \in n + 1 .. n + k : r[j] = b[j - n] OBVIOUS
  <1>5. ASSUME NEW i \in 1 .. k PROVE r[n + i] = b[i]
    <2> DEFINE j == n + i
    <2>1. j \in n + 1 .. n + k /\ j - n = i BY <1>1
    <2>2. r[j] = b[j - n] BY <1>4, <2>1
    <2> QED BY <2>1, <2>2
  <1> QED BY <1>1, <1>2, <1>3, <1>5

(* A function on the first n numbers is a list.                            *)
LEMMA MapIs ==
  ASSUME NEW S, NEW n \in Nat, NEW a \in [1 .. n -> S]
  PROVE a \in Seq(S) /\ Len(a) = n /\ DOMAIN a = 1 .. n
  <1>1. a \in Seq(S) OBVIOUS
  <1>2. DOMAIN a = 1 .. n OBVIOUS
  <1>3. Len(a) \in Nat /\ DOMAIN a = 1 .. Len(a) BY <1>1
  <1> QED BY <1>1, <1>2, <1>3

BuildList(r, q) == [i \in DOMAIN q |-> Present(r, q[i])] \o <<ReqTask("submit", r),
  Call("unlock")>>

Built(q, r, n, tasks) ==
    /\ n \in Nat /\ tasks \in Seq(Tasks) /\ Len(tasks) = n + 2
    /\ \A i \in 1 .. n : /\ i \in DOMAIN q /\ tasks[i].op = "present" /\ tasks[i].req = r
                         /\ tasks[i].slot = q[i].slot /\ tasks[i].slot \in Slots
    /\ tasks[n + 1].op = "submit" /\ tasks[n + 1].req = r
    /\ tasks[n + 2].op = "unlock"

(* What a builder puts down: the presentations, the submission, the        *)
(* unlock.                                                                 *)
LEMMA BuildTasks ==
  ASSUME NEW X, NEW q \in Seq(X),
         \A i \in DOMAIN q : q[i].slot \in Slots, NEW r \in Requests, NEW n, n = Len(q)
  PROVE Built(q, r, n, BuildList(r, q))
  <1> DEFINE a == [i \in DOMAIN q |-> Present(r, q[i])]
             b == <<ReqTask("submit", r), Call("unlock")>>
             tasks == a \o b
  <1>1. n \in Nat /\ DOMAIN q = 1 .. n OBVIOUS
  <1>2. \A i \in 1 .. n : a[i] \in Tasks /\ a[i].op = "present" /\ a[i].req = r /\
        a[i].slot = q[i].slot
    BY <1>1, TaskIs
  <1>3. a \in Seq(Tasks) /\ Len(a) = n
    <2>1. a \in [1 .. n -> Tasks] BY <1>1, <1>2
    <2> HIDE DEF a
    <2> QED BY <1>1, <2>1, MapIs
  <1>4. b \in Seq(Tasks) /\ Len(b) = 2 /\ b[1].op = "submit" /\ b[1].req = r /\
        b[2].op = "unlock"
    <2>1. ReqTask("submit", r) \in Tasks /\ ReqTask("submit", r).op = "submit" /\
          ReqTask("submit", r).req = r
      BY TaskIs DEF Ops
    <2>2. Call("unlock") \in Tasks /\ Call("unlock").op = "unlock" BY PlaceIs
    <2> QED BY <2>1, <2>2, ListIs
  <1>5. tasks = a \o b OBVIOUS
  <1> HIDE DEF a, b, tasks
  <1>j. /\ tasks \in Seq(Tasks) /\ Len(tasks) = n + 2
        /\ \A i \in 1 .. n : tasks[i] = a[i]
        /\ \A i \in 1 .. 2 : tasks[n + i] = b[i]
    <2> DEFINE k == 2
    <2>1. n = Len(a) /\ k = Len(b) /\ a \in Seq(Tasks) /\ b \in Seq(Tasks) BY <1>3, <1>4
    <2> HIDE DEF k
    <2>2. /\ tasks \in Seq(Tasks) /\ Len(tasks) = n + k
          /\ \A i \in 1 .. n : tasks[i] = a[i]
          /\ \A i \in 1 .. k : tasks[n + i] = b[i]
      BY <1>5, <2>1, JoinParts
    <2> QED BY <2>2 DEF k
  <1>6. tasks \in Seq(Tasks) /\ Len(tasks) = n + 2 BY <1>j
  <1>7. \A i \in 1 .. n : tasks[i] = a[i] BY <1>j
  <1>8. tasks[n + 1] = b[1] /\ tasks[n + 2] = b[2]
    <2>1. \A i \in 1 .. 2 : tasks[n + i] = b[i] BY <1>j
    <2> QED BY <2>1
  <1>9. \A i \in 1 .. n : q[i].slot \in Slots BY <1>1
  <1>10. \A i \in 1 .. n : i \in DOMAIN q /\ tasks[i].op = "present" /\ tasks[i].req = r /\
         tasks[i].slot = q[i].slot /\ tasks[i].slot \in Slots
    BY <1>1, <1>2, <1>7, <1>9
  <1>11. tasks[n + 1].op = "submit" /\ tasks[n + 1].req = r /\ tasks[n + 2].op = "unlock"
    BY <1>4, <1>8
  <1>12. tasks = BuildList(r, q) BY DEF tasks, a, b, BuildList
  <1>13. Built(q, r, n, tasks) BY <1>1, <1>6, <1>10, <1>11 DEF Built
  <1> QED BY <1>12, <1>13

(* The shape of what a builder puts on its stack.                          *)
LEMMA BuildShaped ==
  ASSUME NEW t, NEW n, NEW r \in Requests, NEW tasks, Stepped(todo, todo', t, 0, tasks),
         Shaped(todo),
         n \in Nat, Len(tasks) = n + 2,
         \A i \in 1 .. n : tasks[i].op = "present" /\ tasks[i].req = r /\
           tasks[i].slot \in Slots,
         tasks[n + 1].op = "submit", tasks[n + 1].req = r, tasks[n + 2].op = "unlock"
  PROVE Shaped(todo')
  <1>1. \A i \in 1 .. n + 2 : 0 + Len(tasks) - i \in Nat /\
        TaskAt(todo', t, 0 + Len(tasks) - i) = tasks[i]
    BY SteppedTasks
  <1>2. \A d \in 0 .. n + 1 : n + 2 - d \in 1 .. n + 2 /\
        0 + Len(tasks) - (n + 2 - d) = d OBVIOUS
  <1>3. \A d \in 0 .. n + 1 : TaskAt(todo', t, d) = tasks[n + 2 - d]
    <2> TAKE d \in 0 .. n + 1
    <2> DEFINE i == n + 2 - d
    <2>1. i \in 1 .. n + 2 /\ 0 + Len(tasks) - i = d BY <1>2
    <2> HIDE DEF i
    <2>2. TaskAt(todo', t, d) = tasks[i] BY <1>1, <2>1
    <2> QED BY <2>2 DEF i
  <1>4. TaskAt(todo', t, 0).op = "unlock" /\ TaskAt(todo', t, 1).op = "submit" /\
        TaskAt(todo', t, 1).req = r
    <2>1. 0 \in 0 .. n + 1 /\ n + 2 - 0 = n + 2 /\ 1 \in 0 .. n + 1 /\ n + 2 - 1 = n + 1 OBVIOUS
    <2>2. TaskAt(todo', t, 0) = tasks[n + 2 - 0] /\ TaskAt(todo', t, 1) = tasks[n + 2 - 1]
      BY <1>3, <2>1
    <2> QED BY <2>1, <2>2
  <1>5. \A e \in 2 .. n + 1 : TaskAt(todo', t, e).op = "present"
    <2> TAKE e \in 2 .. n + 1
    <2>1. e \in 0 .. n + 1 /\ n + 2 - e \in 1 .. n OBVIOUS
    <2>2. TaskAt(todo', t, e) = tasks[n + 2 - e] BY <1>3, <2>1
    <2> QED BY <2>1, <2>2
  <1>6. ASSUME NEW i \in 1 .. Len(tasks)
        PROVE PlaceOK(tasks[i], t, 0 + Len(tasks) - i) /\ BelowOK(todo', t, 0 + Len(tasks) - i)
    <2> DEFINE d == 0 + Len(tasks) - i
    <2>0. d \in Nat /\ d \in 0 .. n + 1 /\ TaskAt(todo', t, d) = tasks[i] BY <1>1
    <2>1. CASE i \in 1 .. n
      <3>1. d >= 2 BY <2>1
      <3> HIDE DEF d
      <3>2. \A e \in 2 .. d : TaskAt(todo', t, e).op = "present"
        <4>1. \A e \in 2 .. d : e \in 2 .. n + 1 BY <2>0
        <4> QED BY <1>5, <4>1
      <3>3. tasks[i].op = "present" /\ tasks[i].req = r /\ tasks[i].slot \in Slots BY <2>1
      <3>4. PlaceOK(tasks[i], t, d) BY <3>3 DEF PlaceOK
      <3>5. BelowOK(todo', t, d) BY <1>4, <2>0, <3>1, <3>2, <3>3 DEF BelowOK
      <3> QED BY <3>4, <3>5 DEF d
    <2>2. CASE i = n + 1
      <3>1. d = 1 BY <2>2
      <3> HIDE DEF d
      <3>2. PlaceOK(tasks[i], t, d) BY <2>2 DEF PlaceOK
      <3>3. BelowOK(todo', t, d) BY <1>4, <2>0, <2>2, <3>1 DEF BelowOK
      <3> QED BY <3>2, <3>3 DEF d
    <2>3. CASE i = n + 2
      <3>1. d = 0 BY <2>3
      <3> HIDE DEF d
      <3>2. PlaceOK(tasks[i], t, d) BY <2>3, <3>1 DEF PlaceOK
      <3>3. BelowOK(todo', t, d) BY <2>0, <2>3, BelowPlain DEF PlainOps
      <3> QED BY <3>2, <3>3 DEF d
    <2>4. i \in 1 .. n \/ i = n + 1 \/ i = n + 2 OBVIOUS
    <2> QED BY <2>1, <2>2, <2>3, <2>4
  <1> QED BY <1>6, ShapedStep

(* A request is made.                                                      *)
LEMMA CreateRequestNew ==
  ASSUME ScanoutInv, NEW t \in Threads, At(t, "build"),
         refs' = [refs EXCEPT ![Head(todo[t]).req] = 1],
         Then(t, [i \in DOMAIN composition |-> Present(Head(todo[t]).req, composition[i])]
                 \o <<ReqTask("submit", Head(todo[t]).req), Call("unlock")>>),
         UNCHANGED slotVars, UNCHANGED surfVars, UNCHANGED gpuVars, UNCHANGED winVars,
           UNCHANGED layers,
         UNCHANGED schedVars, UNCHANGED kmsVars
  PROVE ScanoutInv'
  <1> DEFINE r == Head(todo[t]).req
             n == Len(composition)
             tasks == BuildList(r, composition)
  <1>0. TypeOK /\ RequestSide /\ LayerFits /\ Shaped(todo) BY InvIs
  <1>1. todo[t] # <<>> /\ Head(todo[t]).op = "build" BY DEF At
  <1>2. LET k == Head(todo[t])
            m == Len(todo[t]) - 1
        IN  k \in Tasks /\ m \in Nat /\ Has(todo, t, m) /\ TaskAt(todo, t, m) = k
            /\ PlaceOK(k, t, m) /\ Push1(k) /\ Lock1(k, t)
    BY <1>1, TopOK
  <1>3. r \in Requests /\ Len(todo[t]) - 1 = 0 /\ refs[r] = 0 /\ r <= pushes /\ winlock = {t}
    BY <1>1, <1>2 DEF PlaceOK, Push1, Lock1
  <1>4. composition \in Seq([slot : Slots, image : Images]) BY <1>0 DEF TypeOK
  <1>5. \A i \in DOMAIN composition : composition[i].slot \in Slots
    <2> DEFINE X == [slot : Slots, image : Images]
    <2>1. \A l \in X : l.slot \in Slots OBVIOUS
    <2>2. composition \in Seq(X) BY <1>4
    <2> HIDE DEF X
    <2>3. \A i \in DOMAIN composition : composition[i] \in X BY <2>2
    <2> QED BY <2>1, <2>3
  <1> HIDE DEF r, n, tasks
  <1>6. /\ n \in Nat /\ tasks \in Seq(Tasks) /\ Len(tasks) = n + 2
        /\ \A i \in 1 .. n : /\ i \in DOMAIN composition /\ tasks[i].op = "present" /\
                                tasks[i].req = r
                             /\ tasks[i].slot = composition[i].slot /\ tasks[i].slot \in Slots
        /\ tasks[n + 1].op = "submit" /\ tasks[n + 1].req = r
        /\ tasks[n + 2].op = "unlock"
    <2> DEFINE X == [slot : Slots, image : Images]
    <2>1. composition \in Seq(X) /\ r \in Requests /\ n = Len(composition) BY <1>3, <1>4 DEF n
    <2> HIDE DEF X
    <2>2. Built(composition, r, n, BuildList(r, composition)) BY <1>5, <2>1, BuildTasks
    <2>3. tasks = BuildList(r, composition) BY DEF tasks
    <2>4. Built(composition, r, n, tasks) BY <2>2, <2>3
    <2> QED BY <2>4 DEF Built
  <1>7. Then(t, tasks) BY DEF tasks, r, BuildList
  <1>8. \A i \in 1 .. Len(tasks) : i \in 1 .. n \/ i = n + 1 \/ i = n + 2 BY <1>6
  <1>9. /\ todo \in Stacks /\ todo' \in Stacks
        /\ Stepped(todo, todo', t, 0, tasks) /\
           Touches({"present", "submit", "unlock"}, {"build"})
    <2>1. \A i \in 1 .. Len(tasks) : tasks[i].op \in {"present", "submit", "unlock"}
      BY <1>6, <1>8
    <2>2. /\ todo \in Stacks /\ todo' \in Stacks
          /\ Stepped(todo, todo', t, Len(todo[t]) - 1, tasks) /\
             Touches({"present", "submit", "unlock"}, {"build"})
      BY <1>6, <1>7, <2>1, PopIs
    <2> DEFINE m == Len(todo[t]) - 1
    <2>3. m = 0 BY <1>3
    <2>4. Stepped(todo, todo', t, m, tasks) BY <2>2
    <2> HIDE DEF m
    <2>5. Stepped(todo, todo', t, 0, tasks) BY <2>3, <2>4
    <2> QED BY <2>2, <2>5, Zenon
  <1>10. Shaped(todo')
    <2>1. \A i \in 1 .. n : tasks[i].op = "present" /\ tasks[i].req = r /\
          tasks[i].slot \in Slots
      BY <1>6
    <2> QED BY <1>0, <1>3, <1>6, <1>9, <2>1, BuildShaped
  <1>11. UNCHANGED composition /\ UNCHANGED building /\ UNCHANGED winlock /\ UNCHANGED pushes
         /\ UNCHANGED waiting /\ UNCHANGED queued /\ UNCHANGED inflight /\ UNCHANGED callback /\
            UNCHANGED screen /\ UNCHANGED flips /\ UNCHANGED lost
    BY DEF winVars, schedVars, kmsVars
  <1>12. refs \in [Requests -> Nat] /\ refs' = [refs EXCEPT ![r] = 1] BY <1>0 DEF TypeOK, r
  <1>r. r \in Requests /\ Len(todo[t]) - 1 = 0 /\ refs[r] = 0 /\ r <= pushes /\ winlock = {t}
    BY <1>3
  <1>13. TypeOK'
    <2>1. refs' \in [Requests -> Nat]
      <3>1. 1 \in Nat OBVIOUS
      <3> QED BY <1>12, <3>1
    <2> QED BY <1>0, <1>9, <1>11, <2>1, TypedNext DEF TypeOK, slotVars, surfVars, gpuVars
  <1>14. \A i \in 1 .. Len(tasks) : tasks[i] \in Tasks BY <1>6
  (* The request has neither owners nor other tasks that build it.         *)
  <1>15. refs'[r] = 1 /\ \A q : q # r => refs'[q] = refs[q] BY <1>3, <1>12
  <1>16. PushFits'
    <2> SUFFICES ASSUME NEW u \in Threads, NEW d \in Nat, Has(todo', u, d),
                        TaskAt(todo', u, d).op \in {"push", "build"}
                 PROVE refs'[TaskAt(todo', u, d).req] = 0 /\ TaskAt(todo', u, d).req <= pushes'
      BY DEF PushFits, Push1
    <2>1. Has(todo, u, d) /\ TaskAt(todo, u, d) = TaskAt(todo', u, d) BY <1>9, WasThere
    <2>2. Push1(TaskAt(todo, u, d)) BY <1>0, <2>1 DEF RequestSide, PushFits
    <2>3. TaskAt(todo, u, d).req # r
      <3> SUFFICES ASSUME TaskAt(todo, u, d).req = r PROVE FALSE OBVIOUS
      <3>1. Tok(u, d) \in StackSet(todo, OfReq({"push", "build"}, r))
        <4>1. TaskAt(todo, u, d) \in OfReq({"push", "build"}, r)
          BY <1>9, <2>1, StackType DEF OfReq
        <4> QED BY <2>1, <4>1, TokIn
      <3>2. Tok(t, 0) \in StackSet(todo, OfReq({"push", "build"}, r))
        <4>1. Has(todo, t, 0) /\ TaskAt(todo, t, 0) = Head(todo[t]) /\ Head(todo[t]) \in Tasks
          BY <1>2, <1>3
        <4>2. TaskAt(todo, t, 0) \in OfReq({"push", "build"}, r) BY <1>1, <4>1 DEF OfReq, r
        <4> QED BY <4>1, <4>2, TokIn
      <3>3. Tok(u, d) = Tok(t, 0)
        BY <1>0, <1>3, <3>1, <3>2 DEF RequestSide, PushesDiffer, Single
      <3>4. u = t /\ d = 0 BY <3>3, TokIs
      <3> DEFINE i == n + 2
      <3>5. i \in 1 .. Len(tasks) /\ 0 + Len(tasks) - i = 0
        <4>1. n \in Nat /\ Len(tasks) = n + 2 BY <1>6
        <4> QED BY <4>1
      <3> HIDE DEF i
      <3>7. TaskAt(todo', t, 0 + Len(tasks) - i) = tasks[i] BY <1>9, <3>5, SteppedTasks
      <3>6. TaskAt(todo', t, 0) = tasks[n + 2] BY <3>5, <3>7 DEF i
      <3> QED BY <1>6, <3>4, <3>6
    <2> QED BY <1>11, <1>15, <2>1, <2>2, <2>3 DEF Push1
  <1>17. PushesDiffer' BY <1>0, <1>9, DifferKept DEF RequestSide
  <1>18. LockFits'
    <2>1. LockFits /\ winlock \subseteq {t} /\ winlock' = {t}
      BY <1>0, <1>3, <1>11 DEF RequestSide
    <2> QED BY <1>9, <2>1, LockNext
  <1>19. RequestOwners(r) = {}
    <2>1. Counted(refs[r], RequestOwners(r)) BY <1>0, <1>3 DEF RequestSide, RequestsCounted
    <2> QED BY <1>3, <2>1, CountFacts
  <1>20. ASSUME NEW u \in Threads, NEW d \in Nat, Has(todo', u, d),
                TaskAt(todo', u, d).op \in {"submit", "present"}
         PROVE \/ Has(todo, u, d) /\ TaskAt(todo, u, d) = TaskAt(todo', u, d)
               \/ \E i \in 1 .. n + 1 : TaskAt(todo', u, d) = tasks[i]
    <2>1. CASE u # t BY <1>20, <2>1, SteppedTasks, <1>9
    <2>2. CASE u = t
      <3> DEFINE i == 0 + Len(tasks) - d
      <3>1. i \in 1 .. Len(tasks) /\ TaskAt(todo', t, d) = tasks[i]
        BY <1>9, <1>20, <2>2, SteppedTasks
      <3> HIDE DEF i
      <3>2. i # n + 2 BY <1>6, <1>20, <2>2, <3>1
      <3>3. i \in 1 .. n + 1 BY <1>6, <3>1, <3>2
      <3> QED BY <2>2, <3>1, <3>3
    <2> QED BY <2>1, <2>2
  <1>21. SubmitFits'
    <2> SUFFICES ASSUME NEW u \in Threads, NEW d \in Nat, Has(todo', u, d),
                        TaskAt(todo', u, d).op = "submit"
                 PROVE refs'[TaskAt(todo', u, d).req] = 1
      BY DEF SubmitFits, Submit1
    <2>1. CASE Has(todo, u, d) /\ TaskAt(todo, u, d) = TaskAt(todo', u, d)
      <3>1. Submit1(TaskAt(todo, u, d)) BY <1>0, <2>1 DEF RequestSide, SubmitFits
      <3>2. refs[TaskAt(todo', u, d).req] = 1 BY <2>1, <3>1 DEF Submit1
      <3>3. TaskAt(todo', u, d).req # r BY <1>3, <3>2
      <3> QED BY <1>15, <3>2, <3>3
    <2>2. CASE \E i \in 1 .. n + 1 : TaskAt(todo', u, d) = tasks[i]
      <3>1. PICK i \in 1 .. n + 1 : TaskAt(todo', u, d) = tasks[i] BY <2>2
      <3>2. i \in 1 .. n \/ i = n + 1 BY <1>6
      <3>3. tasks[i].req = r BY <1>6, <3>2
      <3> QED BY <1>15, <3>1, <3>3
    <2> QED BY <1>20, <2>1, <2>2
  <1>22. LayerFits'
    <2> SUFFICES ASSUME NEW u \in Threads, NEW d \in Nat, Has(todo', u, d),
                        TaskAt(todo', u, d).op = "present"
                 PROVE \E i \in DOMAIN composition :
                       composition[i].slot = TaskAt(todo', u, d).slot
      BY <1>11 DEF LayerFits, Layer1
    <2>1. CASE Has(todo, u, d) /\ TaskAt(todo, u, d) = TaskAt(todo', u, d)
      BY <1>0, <2>1 DEF LayerFits, Layer1
    <2>2. CASE \E i \in 1 .. n + 1 : TaskAt(todo', u, d) = tasks[i]
      <3>1. PICK i \in 1 .. n + 1 : TaskAt(todo', u, d) = tasks[i] BY <2>2
      <3>2. i \in 1 .. n \/ i = n + 1 BY <1>6
      <3>3. i \in 1 .. n BY <1>6, <3>1, <3>2
      <3> QED BY <1>6, <3>1, <3>3
    <2> QED BY <1>20, <2>1, <2>2
  <1>23. BatonsOK' BY <1>0, <1>9, <1>11, BatonsKept DEF RequestSide, BatonOps
  <1>24. LayersCounted'
    <2>1. LayersCounted BY <1>0 DEF RequestSide
    <2>2. ~(r > pushes)
      <3>1. pushes \in Nat /\ r \in Nat BY <1>0, <1>3, BoundsAssumption, RequestIs DEF TypeOK
      <3> QED BY <1>3, <3>1
    <2> QED BY <1>11, <1>15, <2>1, <2>2 DEF LayersCounted
  <1>25. RequestsCounted'
    <2> SUFFICES ASSUME NEW x \in Requests PROVE Counted(refs'[x], RequestOwners(x)')
      BY DEF RequestsCounted
    <2> DEFINE g == 0
               j == One(r = x)
    <2>1. g \in Int /\ j \in Int BY OneIs
    <2>2. Counted(g, Above(todo, t, 0, OfReq(ReqOps, x)))
      <3>1. Counted(0, Above(todo, t, Len(todo[t]) - 1, OfReq(ReqOps, x)))
        <4>1. Head(todo[t]).op \notin ReqOps BY <1>1 DEF ReqOps
        <4> QED BY <1>1, <4>1, TopOther
      <3> QED BY <1>3, <3>1
    <2>3. Counted(j, Among(tasks, OfReq(ReqOps, x)))
      <3>1. n + 1 \in 1 .. Len(tasks) BY <1>6
      <3>2. \A i \in 1 .. Len(tasks) : tasks[i] \in OfReq(ReqOps, x) => i = n + 1
        BY <1>6, <1>8 DEF OfReq, ReqOps
      <3>3. Counted(One(tasks[n + 1] \in OfReq(ReqOps, x)), Among(tasks, OfReq(ReqOps, x)))
        BY <3>1, <3>2, AmongJust
      <3>4. One(tasks[n + 1] \in OfReq(ReqOps, x)) = One(r = x)
        BY <1>6, <1>14, <3>1 DEF One, OfReq, ReqOps
      <3> QED BY <3>3, <3>4
    <2>4. More(Retired(flips, x), Retired(flips', x), g) /\
          More(Flipped(flips, x), Flipped(flips', x), g)
      BY <1>11, FlipsSame
    <2> HIDE DEF g, j
    <2>5. Counted(refs[x] + (((j - g) + (One(queued' = x) - One(queued = x)) +
            (One(inflight' = x) - One(inflight = x))
                           + (One(callback' = x) - One(callback = x)) +
                             (One(screen' = x) - One(screen = x))) + g + g),
                RequestOwners(x)') /\ refs[x] \in Nat
      BY <1>9, <2>1, <2>2, <2>3, <2>4, RequestMore
    <2>6. refs'[x] = refs[x] + (((j - g) + (One(queued' = x) - One(queued = x)) +
            (One(inflight' = x) - One(inflight = x))
                           + (One(callback' = x) - One(callback = x)) +
                             (One(screen' = x) - One(screen = x))) + g + g)
      BY <1>3, <1>11, <1>15, <2>5 DEF g, j, One
    <2> QED BY <2>5, <2>6
  <1>26. RequestSide' BY <1>16, <1>17, <1>18, <1>21, <1>23, <1>24, <1>25 DEF RequestSide
  <1>27. RenderedOK' BY <1>11, RenderedStays
  <1>28. SlotSide' BY <1>9, <1>11, SlotSideKept DEF SlotSideOps
  <1> QED BY <1>10, <1>13, <1>22, <1>26, <1>27, <1>28, InvNext

(* A request cannot be made.                                               *)
LEMMA CreateRequestFails ==
  ASSUME ScanoutInv, NEW t \in Threads, At(t, "build"), Then(t, <<Call("unlock")>>),
         UNCHANGED refs,
         UNCHANGED slotVars, UNCHANGED surfVars, UNCHANGED gpuVars, UNCHANGED winVars,
           UNCHANGED layers,
         UNCHANGED schedVars, UNCHANGED kmsVars
  PROVE ScanoutInv'
  <1> DEFINE k == Call("unlock")
             tasks == <<k>>
             m == Len(todo[t]) - 1
  <1>0. TypeOK /\ RequestSide /\ LayerFits /\ Shaped(todo) BY InvIs
  <1>1. todo[t] # <<>> /\ Head(todo[t]).op = "build" BY DEF At
  <1>2. m = 0 /\ winlock = {t}
    <2>1. PlaceOK(Head(todo[t]), t, m) /\ Lock1(Head(todo[t]), t) BY <1>1, TopOK
    <2> QED BY <1>1, <2>1 DEF PlaceOK, Lock1
  <1>3. k \in Tasks /\ k.op = "unlock" /\ PlaceOK(k, t, 0) BY PlaceIs
  <1>4. Then(t, tasks) OBVIOUS
  <1> HIDE DEF k
  <1>5. tasks \in Seq(Tasks) /\ Len(tasks) = 1 /\ tasks[1] = k BY <1>3, ListIs
  <1> HIDE DEF tasks
  <1>6. \A i \in 1 .. Len(tasks) : i = 1 /\ tasks[i] = k BY <1>5
  <1>7. todo \in Stacks /\ todo' \in Stacks /\ Stepped(todo, todo', t, m, tasks) /\
        Touches({"unlock"}, {"build"})
    <2>1. \A i \in 1 .. Len(tasks) : tasks[i].op \in {"unlock"} BY <1>3, <1>6
    <2> QED BY <1>4, <1>5, <2>1, PopIs
  <1> HIDE DEF m
  <1>8. Stepped(todo, todo', t, 0, tasks) BY <1>2, <1>7
  <1>9. Shaped(todo')
    <2>1. \A i \in 1 .. Len(tasks) : PlaceOK(tasks[i], t, 0 + Len(tasks) - i) /\
          tasks[i].op \in PlainOps
      <3>1. 0 + Len(tasks) - 1 = 0 BY <1>5
      <3>2. "unlock" \in PlainOps BY DEF PlainOps
      <3> QED BY <1>3, <1>6, <3>1, <3>2
    <2> QED BY <1>0, <1>8, <2>1, ShapedPlain
  <1>10. UNCHANGED composition /\ UNCHANGED building /\ UNCHANGED winlock /\ UNCHANGED pushes
         /\ UNCHANGED waiting /\ UNCHANGED queued /\ UNCHANGED screen
    BY DEF winVars, schedVars, kmsVars
  <1>11. TypeOK'
    BY <1>0, <1>7, <1>10, TypedNext DEF TypeOK, slotVars, surfVars, gpuVars, kmsVars
  <1>12. PushFits'
    <2> SUFFICES ASSUME NEW u \in Threads, NEW d \in Nat, Has(todo', u, d),
                        TaskAt(todo', u, d).op \in {"push", "build"}
                 PROVE refs'[TaskAt(todo', u, d).req] = 0 /\ TaskAt(todo', u, d).req <= pushes'
      BY DEF PushFits, Push1
    <2>1. Has(todo, u, d) /\ TaskAt(todo, u, d) = TaskAt(todo', u, d) BY <1>7, WasThere
    <2>2. Push1(TaskAt(todo, u, d)) BY <1>0, <2>1 DEF RequestSide, PushFits
    <2> QED BY <1>10, <2>1, <2>2 DEF Push1
  <1>13. PushesDiffer'
    <2> SUFFICES ASSUME NEW r \in Requests
                 PROVE Single(StackSet(todo', OfReq({"push", "build"}, r)))
      BY DEF PushesDiffer
    <2>1. \A a \in OfReq({"push", "build"}, r) : a.op \notin {"unlock"} BY DEF OfReq
    <2>2. StackSet(todo', OfReq({"push", "build"}, r)) \subseteq StackSet(todo,
            OfReq({"push", "build"}, r))
      BY <1>7, <2>1, Zenon DEF Touches
    <2>3. Single(StackSet(todo, OfReq({"push", "build"}, r)))
      BY <1>0 DEF RequestSide, PushesDiffer
    <2> QED BY <2>2, <2>3 DEF Single
  <1>14. LockFits'
    <2>1. LockFits /\ winlock \subseteq {t} /\ winlock' = {t}
      BY <1>0, <1>2, <1>10 DEF RequestSide
    <2> QED BY <1>8, <2>1, LockNext
  <1>15. SubmitFits' /\ LayerFits' BY <1>0, <1>7, <1>10, FitsKept DEF RequestSide
  <1>16. BatonsOK' BY <1>0, <1>7, <1>10, BatonsKept DEF RequestSide, BatonOps
  <1>17. RequestsCounted' BY <1>0, <1>7, <1>10, RequestsKept DEF RequestSide, ReqOps
  <1>18. LayersCounted' BY <1>0, <1>10, LayersKept DEF RequestSide
  <1>19. RequestSide' BY <1>12, <1>13, <1>14, <1>15, <1>16, <1>17, <1>18 DEF RequestSide
  <1>20. RenderedOK' BY <1>10, RenderedStays
  <1>21. SlotSide' BY <1>7, <1>10, SlotSideKept DEF SlotSideOps
  <1> QED BY <1>9, <1>11, <1>15, <1>19, <1>20, <1>21, InvNext

(* Both keep the invariant.                                                *)
LEMMA CreateRequestStep ==
  ASSUME ScanoutInv, NEW t \in Threads, CreateRequest(t)
  PROVE  ScanoutInv'
  BY CreateRequestNew, CreateRequestFails DEF CreateRequest

(* Submitting a frame keeps the invariant, whichever way it goes.          *)
LEMMA SubmitFrameStep == ASSUME ScanoutInv, NEW t \in Threads, SubmitFrame(t) PROVE ScanoutInv'
  BY SubmitToMailbox, SubmitToCommit, SubmitGivenUp DEF SubmitFrame, schedVars

(* Committing a frame keeps the invariant, whichever way it goes.          *)
LEMMA CommitFrameStep == ASSUME ScanoutInv, NEW t \in Threads, CommitFrame(t) PROVE ScanoutInv'
  <1>1. At(t, "commit") /\ UNCHANGED slotVars /\ UNCHANGED surfVars /\ UNCHANGED gpuVars /\
        UNCHANGED winVars
        /\ UNCHANGED layers /\ UNCHANGED schedVars
    BY DEF CommitFrame
  <1>2. \/ /\ refs' = [refs EXCEPT ![Head(todo[t]).req] = @ + 1]
           /\ inflight' = Head(todo[t]).req /\ callback' = Head(todo[t]).req
           /\ Then(t, <<Call("dispatch")>>) /\ UNCHANGED screen /\ UNCHANGED flips
           /\ UNCHANGED lost
        \/ /\ Legacy /\ refs' = [refs EXCEPT ![Head(todo[t]).req] = @ + 1]
           /\ RecordFlip(Head(todo[t]).req, Head(todo[t]).req)
           /\ Then(t, <<Call("dispatch")>>) /\ UNCHANGED inflight /\ UNCHANGED lost
        \/ /\ lost' = Head(todo[t]).req
           /\ Then(t, <<ReqTask("requnref", Head(todo[t]).req)>>)
           /\ UNCHANGED refs /\ UNCHANGED inflight /\ UNCHANGED callback /\ UNCHANGED screen
           /\ UNCHANGED flips
        \/ /\ Then(t, <<ReqTask("requnref", Head(todo[t]).req), Call("failed")>>)
           /\ UNCHANGED refs /\ UNCHANGED kmsVars
    BY DEF CommitFrame
  <1>3. UNCHANGED refs => UNCHANGED reqVars BY <1>1 DEF reqVars
  <1> QED BY <1>1, <1>2, <1>3, CommitAccepted, CommitLegacy, CommitLost,
            CommitRefused

(* The reset after a refused commit keeps the invariant.                   *)
LEMMA OnPresentFailedStep ==
  ASSUME ScanoutInv, NEW t \in Threads, OnPresentFailed(t)
  PROVE  ScanoutInv'
  BY PresentFailed DEF OnPresentFailed

(* The kernel's flip keeps the invariant.                                  *)
LEMMA OnEventFdReadyStep == ASSUME ScanoutInv, OnEventFdReady PROVE ScanoutInv'
  BY KernelFlips, ThreadsAssumption DEF OnEventFdReady

(* Dispatching flips keeps the invariant.                                  *)
LEMMA DispatchStep ==
  ASSUME ScanoutInv, NEW t \in Threads, DispatchPageFlips(t)
  PROVE  ScanoutInv'
  BY DispatchNone, DispatchOne DEF DispatchPageFlips

(* The callback of a flip keeps the invariant.                             *)
LEMMA OnScanoutStep == ASSUME ScanoutInv, NEW t \in Threads, OnScanout(t) PROVE ScanoutInv'
  <1> DEFINE r == Head(todo[t]).req
             a == ReqTask("commit", queued)
             b == ReqTask("requnref", r)
  <1>1. At(t, "scanout") /\ waiting' = (waiting /\ queued # 0) /\
        queued' = (IF waiting THEN 0 ELSE queued)
        /\ Then(t, (IF waiting /\ queued # 0 THEN <<a>> ELSE <<>>) \o <<b>>)
        /\ UNCHANGED slotVars /\ UNCHANGED surfVars /\ UNCHANGED gpuVars /\ UNCHANGED winVars /\
           UNCHANGED reqVars
        /\ UNCHANGED kmsVars
    BY DEF OnScanout
  <1>2. todo[t] # <<>> /\ Head(todo[t]).op = "scanout" BY <1>1 DEF At
  <1>3. waiting
    <2>1. LET k == Head(todo[t])
              m == Len(todo[t]) - 1
          IN  m \in Nat /\ Has(todo, t, m) /\ TaskAt(todo, t, m) = k
      BY <1>2, TopOK
    <2> QED BY <1>2, <2>1, BatonKind, BatonAlone DEF Busy
  <1>4. r \in Requests /\ b \in Tasks
    <2>1. r \in Requests BY <1>2, BatonKind, TopRequest
    <2> QED BY <2>1, PlaceIs
  <1>5. CASE queued # 0
    <2>1. a \in Tasks
      <3>1. queued \in Requests BY <1>5, InvIs DEF TypeOK, Requests
      <3> QED BY <3>1, PlaceIs
    <2>2. <<a>> \o <<b>> = <<a, b>> BY <1>4, <2>1, JoinIs
    <2>3. Then(t, <<a>> \o <<b>>) BY <1>1, <1>3, <1>5, Zenon
    <2>4. Then(t, <<a, b>>) BY <2>2, <2>3, Zenon
    <2> QED BY <1>1, <1>3, <1>5, <2>4, ScanoutNext
  <1>6. CASE queued = 0
    <2>2. <<>> \o <<b>> = <<b>> BY <1>4, JoinIs
    <2>3. Then(t, <<>> \o <<b>>) BY <1>1, <1>3, <1>6, Zenon
    <2>4. Then(t, <<b>>) BY <2>2, <2>3, Zenon
    <2> QED BY <1>1, <1>3, <1>6, <2>4, ScanoutLast
  <1> QED BY <1>5, <1>6
=============================================================================
