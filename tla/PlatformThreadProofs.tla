---------------------- MODULE PlatformThreadProofs -----------------------
(***************************************************************************)
(* Theorems about what the platform thread runs: PlatformTasks, for any    *)
(* number of tasks and any size of the eventfd's counter; and UserInput,   *)
(* for any set of devices, any number of touch slots and of Flutter's ids, *)
(* and any width of the display.                                           *)
(***************************************************************************)
EXTENDS PlatformTasks, UserInput, FiniteSetTheorems, SequenceTheorems, TLAPS

(* The sequence q is the set S of numbers in ascending order.              *)
Lists(q, S) ==
    /\ q \in Seq(Nat)
    /\ \A i \in 1..Len(q) : q[i] \in S
    /\ \A k \in S : \E i \in 1..Len(q) : q[i] = k
    /\ \A i, j \in 1..Len(q) : i < j => q[i] < q[j]

Waiting(route) == {k \in Tasks : via[k] = route /\ status[k] = "waiting"}

(* Each way of posting has its own place, which holds exactly the tasks    *)
(* posted on it that wait, in the order they were posted; a timer's source *)
(* may outlive its task.                                                   *)
TasksFiled ==
    /\ \A k \in Tasks : /\ via[k] = "none" <=> k > posted
                        /\ status[k] = "none" <=> k > posted
    /\ Lists(queue, Waiting("queue"))
    /\ Lists(defer, Waiting("defer"))
    /\ Waiting("timer") \subseteq timers
    /\ \A k \in timers : via[k] = "timer" /\ status[k] \in {"waiting", "freed"}

(* Work in the queue has woken the loop or is being drained; the loop went *)
(* to sleep with nothing to do, and was woken for what came after.         *)
WakeupKept ==
    /\ queue # <<>> => efd > 0 \/ phase = "drain" \/ (phase = "callback" /\ draining)
    /\ phase = "armed" => /\ timers \subseteq armed \/ efd > 0
                          /\ defer = <<>> /\ ~exit

TasksInv == TypeOK /\ TasksFiled /\ WakeupKept /\ TasksInOrder
-----------------------------------------------------------------------------
(* Ascending sequences.                                                    *)
LEMMA ListsEmpty == Lists(<<>>, {})
BY DEF Lists

(* Appending a number above all the others.                                *)
LEMMA ListsAppend ==
    ASSUME NEW S, NEW q, Lists(q, S), NEW n \in Nat, \A k \in S : k < n
    PROVE  Lists(Append(q, n), S \cup {n})
<1>1. q \in Seq(Nat) /\ Len(q) \in Nat
  BY LenProperties DEF Lists
<1>2. /\ Append(q, n) \in Seq(Nat) /\ Len(Append(q, n)) = Len(q) + 1
      /\ \A i \in 1..Len(q) : Append(q, n)[i] = q[i] /\ q[i] \in Nat
      /\ Append(q, n)[Len(q) + 1] = n
  BY <1>1, AppendProperties, ElementOfSeq
<1>3. \A i \in 1..Len(q) + 1 : Append(q, n)[i] \in S \cup {n}
  BY <1>1, <1>2 DEF Lists
<1>4. ASSUME NEW k \in S \cup {n} PROVE \E i \in 1..Len(q) + 1 : Append(q, n)[i] = k
  BY <1>1, <1>2 DEF Lists
<1>5. ASSUME NEW i \in 1..Len(q) + 1, NEW j \in 1..Len(q) + 1, i < j
      PROVE  Append(q, n)[i] < Append(q, n)[j]
  <2>1. i \in 1..Len(q) /\ q[i] \in S
    BY <1>1, <1>5 DEF Lists
  <2>2. CASE j = Len(q) + 1
    BY <1>2, <2>1, <2>2
  <2>3. CASE j \in 1..Len(q)
    BY <1>2, <1>5, <2>1, <2>3 DEF Lists
  <2> QED BY <1>1, <2>2, <2>3
<1> QED BY <1>2, <1>3, <1>4, <1>5 DEF Lists

(* The head is the least, and the tail is what is left without it.         *)
LEMMA ListsTail ==
    ASSUME NEW S, NEW q, Lists(q, S), q # <<>>
    PROVE  /\ Head(q) \in S /\ \A k \in S : Head(q) <= k
           /\ Lists(Tail(q), S \ {Head(q)})
<1>1. q \in Seq(Nat) /\ Len(q) \in Nat \ {0} /\ Head(q) = q[1]
  BY EmptySeq DEF Lists
<1>2. /\ Tail(q) \in Seq(Nat) /\ Len(Tail(q)) = Len(q) - 1
      /\ \A i \in 1..Len(q) - 1 : Tail(q)[i] = q[i + 1]
      /\ \A i \in 1..Len(q) : q[i] \in Nat
  BY <1>1, HeadTailProperties, ElementOfSeq
<1>3. ASSUME NEW k \in S PROVE Head(q) <= k
  <2>1. PICK i \in 1..Len(q) : q[i] = k
    BY DEF Lists
  <2>2. i = 1 \/ q[1] < q[i]
    BY <1>1 DEF Lists
  <2> QED BY <1>1, <1>2, <2>1, <2>2
<1>4. ASSUME NEW i \in 1..Len(q) - 1 PROVE Tail(q)[i] \in S \ {Head(q)}
  <2>1. i + 1 \in 1..Len(q) /\ 1 \in 1..Len(q) /\ Tail(q)[i] = q[i + 1]
    BY <1>1, <1>2
  <2>2. q[1] < q[i + 1] /\ q[1] \in Nat /\ q[i + 1] \in S /\ q[i + 1] \in Nat
    BY <1>2, <2>1 DEF Lists
  <2> QED BY <1>1, <2>1, <2>2
<1>5. ASSUME NEW k \in S \ {Head(q)} PROVE \E i \in 1..Len(q) - 1 : Tail(q)[i] = k
  <2>1. PICK i \in 1..Len(q) : q[i] = k
    BY DEF Lists
  <2>2. i # 1
    BY <1>1, <2>1
  <2>3. i - 1 \in 1..Len(q) - 1 /\ Tail(q)[i - 1] = k
    BY <1>1, <1>2, <2>1, <2>2
  <2> QED BY <2>3
<1>6. ASSUME NEW i \in 1..Len(q) - 1, NEW j \in 1..Len(q) - 1, i < j
      PROVE  Tail(q)[i] < Tail(q)[j]
  <2>1. i + 1 \in 1..Len(q) /\ j + 1 \in 1..Len(q) /\ i + 1 < j + 1
    BY <1>1, <1>6
  <2> QED BY <1>2, <2>1 DEF Lists
<1>7. Head(q) \in S
  BY <1>1 DEF Lists
<1> QED BY <1>2, <1>3, <1>4, <1>5, <1>6, <1>7 DEF Lists

(* Which task is where, in the invariant's own words.                      *)
LEMMA ListsCount ==
    ASSUME NEW S, NEW q, Lists(q, S), NEW k
    PROVE  Cardinality({i \in DOMAIN q : q[i] = k}) = (IF k \in S THEN 1 ELSE 0)
<1>1. DOMAIN q = 1..Len(q) /\ Len(q) \in Nat /\ \A i \in 1..Len(q) : q[i] \in Nat
  BY LenProperties, ElementOfSeq DEF Lists
<1>2. CASE k \in S
  <2>1. PICK i \in 1..Len(q) : q[i] = k
    BY <1>2 DEF Lists
  <2>2. \A j \in 1..Len(q) : q[j] = k => j = i
    BY <1>1, <2>1 DEF Lists
  <2>3. {j \in DOMAIN q : q[j] = k} = {i}
    BY <1>1, <2>1, <2>2
  <2> QED BY <1>2, <2>3, FS_Singleton
<1>3. CASE k \notin S
  <2>1. {i \in DOMAIN q : q[i] = k} = {}
    BY <1>1, <1>3 DEF Lists
  <2> QED BY <1>3, <2>1, FS_EmptySet
<1> QED BY <1>2, <1>3
-----------------------------------------------------------------------------
Sources == {"queue", "defer", "timer"}
Statuses == {"none", "waiting", "running", "ran", "refused", "freed"}

(* Tasks are numbered from one, and the two other sources are no tasks.    *)
LEMMA TaskNumbers ==
    /\ Tasks \subseteq Nat /\ 0 \notin Tasks /\ 0 .. MaxTasks = {0} \cup Tasks
    /\ \A n \in 0 .. MaxTasks : n < MaxTasks => n + 1 \in Tasks /\ n + 1 \in 0 .. MaxTasks
    /\ Wake \notin Tasks /\ Io \notin Tasks /\ Wake # Io
BY LimitsAssumption DEF Tasks, Wake, Io

(* Posting gives a number to a task that waits, or is over at once.        *)
LEMMA PostingEffect ==
    ASSUME TypeOK, TasksFiled, NEW route \in Sources, NEW result \in Statuses \ {"none"},
           Posting(route, result)
    PROVE  /\ posted + 1 \in Tasks /\ posted' = posted + 1 /\ posted' \in 0 .. MaxTasks
           /\ via' \in [Tasks -> Routes] /\ status' \in [Tasks -> Statuses]
           /\ status'[posted + 1] = result /\ via'[posted + 1] = route
           /\ \A k \in Tasks : k # posted + 1 => via'[k] = via[k] /\ status'[k] = status[k]
           /\ \A k \in Tasks : /\ via'[k] = "none" <=> k > posted'
                               /\ status'[k] = "none" <=> k > posted'
           /\ \A r \in Sources : /\ \A k \in Waiting(r) : k < posted + 1
                                 /\ r = route /\ result = "waiting"
                                        => Waiting(r)' = Waiting(r) \cup {posted + 1}
                                 /\ r # route \/ result # "waiting" => Waiting(r)' = Waiting(r)
           /\ \A k \in timers : via'[k] = "timer" /\ status'[k] \in {"waiting", "freed"}
<1>1. posted \in 0 .. MaxTasks /\ posted \in Nat /\ posted + 1 \in Tasks /\ posted' = posted + 1
  BY TaskNumbers DEF Posting, TypeOK, Tasks
<1>2. posted' \in 0 .. MaxTasks
  BY <1>1, TaskNumbers
<1>3. /\ via' \in [Tasks -> Routes] /\ status' \in [Tasks -> Statuses]
      /\ status'[posted + 1] = result /\ via'[posted + 1] = route
      /\ \A k \in Tasks : k # posted + 1 => via'[k] = via[k] /\ status'[k] = status[k]
  BY <1>1 DEF Posting, TypeOK, Routes, Sources, Statuses
<1>4. ASSUME NEW k \in Tasks
      PROVE  /\ via'[k] = "none" <=> k > posted'
             /\ status'[k] = "none" <=> k > posted'
  <2>1. k \in Nat
    BY TaskNumbers
  <2>2. CASE k = posted + 1
    BY <1>1, <1>3, <2>2 DEF Sources
  <2>3. CASE k # posted + 1
    BY <1>1, <1>3, <2>1, <2>3 DEF TasksFiled
  <2> QED BY <2>2, <2>3
<1>5. ASSUME NEW r \in Sources
      PROVE  /\ \A k \in Waiting(r) : k < posted + 1
             /\ r = route /\ result = "waiting" => Waiting(r)' = Waiting(r) \cup {posted + 1}
             /\ r # route \/ result # "waiting" => Waiting(r)' = Waiting(r)
  <2>1. \A k \in Waiting(r) : k < posted + 1
    BY <1>1, TaskNumbers DEF Waiting, TasksFiled
  <2>2. posted + 1 \notin Waiting(r)
    BY <1>1, <2>1
  <2>3. Waiting(r)' = {k \in Tasks : via'[k] = r /\ status'[k] = "waiting"}
    BY DEF Waiting
  <2> QED BY <1>1, <1>3, <2>1, <2>2, <2>3 DEF Waiting
<1>6. ASSUME NEW k \in timers PROVE via'[k] = "timer" /\ status'[k] \in {"waiting", "freed"}
  <2>1. k \in Tasks /\ via[k] = "timer" /\ status[k] \in {"waiting", "freed"}
    BY DEF TasksFiled, TypeOK
  <2>2. via[posted + 1] = "none"
    BY <1>1 DEF TasksFiled
  <2> QED BY <1>3, <2>1, <2>2
<1> QED BY <1>1, <1>2, <1>3, <1>4, <1>5, <1>6

(* Calling a task takes it from those that wait.                           *)
LEMMA CallEffect ==
    ASSUME TypeOK, TasksFiled, NEW k \in Tasks, NEW b, Call(k, b), via' = via, posted' = posted,
           status[k] # "none"
    PROVE  /\ status' \in [Tasks -> Statuses]
           /\ status'[k] = (IF status[k] = "freed" THEN "freed" ELSE "running")
           /\ \A j \in Tasks : j # k => status'[j] = status[j]
           /\ \A j \in Tasks : /\ via'[j] = "none" <=> j > posted'
                               /\ status'[j] = "none" <=> j > posted'
           /\ \A r \in Sources : Waiting(r)' = Waiting(r) \ {k}
<1>1. status' = [status EXCEPT ![k] = IF @ = "freed" THEN "freed" ELSE "running"]
  BY DEF Call
<1>2. /\ status' \in [Tasks -> Statuses]
      /\ status'[k] = (IF status[k] = "freed" THEN "freed" ELSE "running")
      /\ \A j \in Tasks : j # k => status'[j] = status[j]
  BY <1>1 DEF TypeOK, Statuses
<1>3. \A j \in Tasks : /\ via'[j] = "none" <=> j > posted'
                       /\ status'[j] = "none" <=> j > posted'
  BY <1>2 DEF TasksFiled
<1>4. ASSUME NEW r \in Sources PROVE Waiting(r)' = Waiting(r) \ {k}
  BY <1>2 DEF Waiting
<1> QED BY <1>2, <1>3, <1>4

(* The steps that touch no task.                                           *)
QuietStep ==
    \/ ScheduleExit \/ IoReady \/ SdEventPrepare \/ Select \/ SdEventWait \/ DispatchExit
    \/ DispatchIo \/ OnWakeupMainLoop \/ \E k \in Tasks : TimePasses(k)

LEMMA QuietTasks == QuietStep => UNCHANGED taskVars
BY DEF QuietStep, ScheduleExit, IoReady, SdEventPrepare, Select, SdEventWait, DispatchExit,
   DispatchIo, OnWakeupMainLoop, TimePasses

(* Every step keeps each task in its place.                                *)
LEMMA FiledStep == TypeOK /\ TasksFiled /\ [Next]_vars => TasksFiled'
<1> SUFFICES ASSUME TypeOK, TasksFiled, [Next]_vars PROVE TasksFiled'
  OBVIOUS
<1>1. /\ Lists(queue, Waiting("queue")) /\ Lists(defer, Waiting("defer"))
      /\ Waiting("timer") \subseteq timers /\ timers \subseteq Tasks
      /\ \A k \in timers : via[k] = "timer" /\ status[k] \in {"waiting", "freed"}
  BY DEF TasksFiled, TypeOK
<1>2. posted + 1 \in Nat
  BY DEF TypeOK
<1>3. CASE QuietStep \/ UNCHANGED vars
  BY <1>3, QuietTasks DEF vars, taskVars, TasksFiled, Waiting
<1>4. CASE PostFromThread
  <2>1. /\ defer' = defer /\ timers' = timers
        /\ \/ Posting("queue", "waiting") /\ queue' = Append(queue, posted + 1)
           \/ Posting("queue", "refused") /\ queue' = queue
    BY <1>4 DEF PostFromThread
  <2>2. CASE Posting("queue", "waiting") /\ queue' = Append(queue, posted + 1)
    <3>1. /\ Waiting("queue")' = Waiting("queue") \cup {posted + 1}
          /\ \A k \in Waiting("queue") : k < posted + 1
          /\ Waiting("defer")' = Waiting("defer") /\ Waiting("timer")' = Waiting("timer")
          /\ \A k \in Tasks : /\ via'[k] = "none" <=> k > posted'
                              /\ status'[k] = "none" <=> k > posted'
          /\ \A k \in timers : via'[k] = "timer" /\ status'[k] \in {"waiting", "freed"}
      BY <2>2, PostingEffect DEF Sources, Statuses
    <3>2. Lists(queue', Waiting("queue")')
      BY <1>1, <1>2, <2>2, <3>1, ListsAppend
    <3> QED BY <1>1, <2>1, <3>1, <3>2 DEF TasksFiled
  <2>3. CASE Posting("queue", "refused") /\ queue' = queue
    <3>1. /\ \A r \in Sources : Waiting(r)' = Waiting(r)
          /\ \A k \in Tasks : /\ via'[k] = "none" <=> k > posted'
                              /\ status'[k] = "none" <=> k > posted'
          /\ \A k \in timers : via'[k] = "timer" /\ status'[k] \in {"waiting", "freed"}
      BY <2>3, PostingEffect DEF Sources, Statuses
    <3> QED BY <1>1, <2>1, <2>3, <3>1 DEF TasksFiled, Sources
  <2> QED BY <2>1, <2>2, <2>3
<1>5. CASE PostFromLoop
  <2>1. /\ queue' = queue /\ timers' = timers /\ defer' = Append(defer, posted + 1)
        /\ Posting("defer", "waiting")
    BY <1>5 DEF PostFromLoop
  <2>2. /\ Waiting("defer")' = Waiting("defer") \cup {posted + 1}
        /\ \A k \in Waiting("defer") : k < posted + 1
        /\ Waiting("queue")' = Waiting("queue") /\ Waiting("timer")' = Waiting("timer")
        /\ \A k \in Tasks : /\ via'[k] = "none" <=> k > posted'
                            /\ status'[k] = "none" <=> k > posted'
        /\ \A k \in timers : via'[k] = "timer" /\ status'[k] \in {"waiting", "freed"}
    BY <2>1, PostingEffect DEF Sources, Statuses
  <2>3. Lists(defer', Waiting("defer")')
    BY <1>1, <1>2, <2>1, <2>2, ListsAppend
  <2> QED BY <1>1, <2>1, <2>2, <2>3 DEF TasksFiled
<1>6. CASE PostTimedFromThread \/ PostTimedFromLoop
  <2>1. PICK result \in {"waiting", "freed"} :
            /\ queue' = queue /\ defer' = defer /\ timers' = timers \cup {posted + 1}
            /\ Posting("timer", result)
    BY <1>6 DEF PostTimedFromThread, PostTimedFromLoop
  <2>2. /\ Waiting("timer")' \subseteq Waiting("timer") \cup {posted + 1}
        /\ Waiting("queue")' = Waiting("queue") /\ Waiting("defer")' = Waiting("defer")
        /\ \A k \in Tasks : /\ via'[k] = "none" <=> k > posted'
                            /\ status'[k] = "none" <=> k > posted'
        /\ \A k \in timers : via'[k] = "timer" /\ status'[k] \in {"waiting", "freed"}
        /\ via'[posted + 1] = "timer" /\ status'[posted + 1] = result
    <3>1. result \in Statuses \ {"none"} /\ "timer" \in Sources
      BY DEF Statuses, Sources
    <3> QED BY <2>1, <3>1, PostingEffect DEF Sources
  <2> QED BY <1>1, <2>1, <2>2 DEF TasksFiled
<1>7. CASE DispatchDeferred
  <2> DEFINE k == Head(defer)
  <2>1. /\ defer # <<>> /\ defer' = Tail(defer) /\ Call(k, FALSE)
        /\ UNCHANGED <<queue, timers, posted, via>>
    BY <1>7 DEF DispatchDeferred, DeferTurn
  <2>2. k \in Waiting("defer") /\ Lists(defer', Waiting("defer") \ {k})
    BY <1>1, <2>1, ListsTail
  <2>3. k \in Tasks /\ via[k] = "defer" /\ status[k] = "waiting"
    BY <2>2 DEF Waiting
  <2> HIDE DEF k
  <2>4. /\ \A r \in Sources : Waiting(r)' = Waiting(r) \ {k}
        /\ \A j \in Tasks : j # k => status'[j] = status[j]
        /\ \A j \in Tasks : /\ via'[j] = "none" <=> j > posted'
                            /\ status'[j] = "none" <=> j > posted'
    BY <2>1, <2>3, CallEffect
  <2>5. k \notin Waiting("queue") /\ k \notin timers
    BY <1>1, <2>3 DEF Waiting
  <2> QED BY <1>1, <2>1, <2>2, <2>4, <2>5 DEF TasksFiled, Sources
<1>8. ASSUME NEW k \in Tasks, DispatchTimer(k) PROVE TasksFiled'
  <2>1. /\ k \in timers /\ timers' = timers \ {k} /\ Call(k, FALSE)
        /\ UNCHANGED <<queue, defer, posted, via>>
    BY <1>8 DEF DispatchTimer
  <2>2. via[k] = "timer" /\ status[k] # "none"
    BY <1>1, <2>1
  <2>3. /\ \A r \in Sources : Waiting(r)' = Waiting(r) \ {k}
        /\ \A j \in Tasks : j # k => status'[j] = status[j]
        /\ \A j \in Tasks : /\ via'[j] = "none" <=> j > posted'
                            /\ status'[j] = "none" <=> j > posted'
    BY <2>1, <2>2, CallEffect
  <2>4. k \notin Waiting("queue") /\ k \notin Waiting("defer")
    BY <2>2 DEF Waiting
  <2> QED BY <1>1, <2>1, <2>3, <2>4 DEF TasksFiled, Sources
<1>9. CASE TakeQueued
  <2>1. CASE queue = <<>>
    <3>1. UNCHANGED taskVars
      BY <1>9, <2>1 DEF TakeQueued, taskVars
    <3> QED BY <3>1 DEF taskVars, TasksFiled, Waiting
  <2>2. CASE queue # <<>>
    <3> DEFINE k == Head(queue)
    <3>1. /\ queue' = Tail(queue) /\ Call(k, TRUE)
          /\ UNCHANGED <<defer, timers, posted, via>>
      BY <1>9, <2>2 DEF TakeQueued
    <3>2. k \in Waiting("queue") /\ Lists(queue', Waiting("queue") \ {k})
      BY <1>1, <2>2, <3>1, ListsTail
    <3>3. k \in Tasks /\ via[k] = "queue" /\ status[k] = "waiting"
      BY <3>2 DEF Waiting
    <3> HIDE DEF k
    <3>4. /\ \A r \in Sources : Waiting(r)' = Waiting(r) \ {k}
          /\ \A j \in Tasks : j # k => status'[j] = status[j]
          /\ \A j \in Tasks : /\ via'[j] = "none" <=> j > posted'
                              /\ status'[j] = "none" <=> j > posted'
      BY <3>1, <3>3, CallEffect
    <3>5. k \notin Waiting("defer") /\ k \notin timers
      BY <1>1, <3>3 DEF Waiting
    <3> QED BY <1>1, <3>1, <3>2, <3>4, <3>5 DEF TasksFiled, Sources
  <2> QED BY <2>1, <2>2
<1>10. CASE TaskDone
  <2>1. /\ UNCHANGED <<queue, defer, timers, posted, via>>
        /\ \A k \in Tasks :
                status'[k] = IF k = cur /\ status[k] = "running" THEN "ran" ELSE status[k]
    BY <1>10 DEF TaskDone
  <2>2. \A r \in Sources : Waiting(r)' = Waiting(r)
    BY <2>1 DEF Waiting
  <2>3. \A k \in Tasks : status'[k] = "none" <=> status[k] = "none"
    BY <2>1
  <2>4. \A k \in timers : status'[k] = status[k]
    BY <1>1, <2>1
  <2> QED BY <1>1, <2>1, <2>2, <2>3, <2>4 DEF TasksFiled, Sources
<1>11. CASE Destroy
  <2>1. /\ queue' = <<>> /\ defer' = <<>> /\ timers' = {} /\ UNCHANGED <<posted, via>>
        /\ \A k \in Tasks : status'[k] = IF status[k] = "waiting" THEN "freed" ELSE status[k]
    BY <1>11 DEF Destroy
  <2>2. \A r \in Sources : Waiting(r)' = {}
    BY <2>1 DEF Waiting
  <2>3. \A k \in Tasks : status'[k] = "none" <=> status[k] = "none"
    BY <2>1
  <2> QED BY <2>1, <2>2, <2>3, ListsEmpty DEF TasksFiled, Sources
<1> QED
  BY <1>3, <1>4, <1>5, <1>6, <1>7, <1>8, <1>9, <1>10, <1>11 DEF Next, Loop, QuietStep

(* Every step keeps the types.                                             *)
LEMMA TasksTypeStep == TypeOK /\ TasksFiled /\ [Next]_vars => TypeOK'
<1> SUFFICES ASSUME TypeOK, TasksFiled, [Next]_vars PROVE TypeOK'
  OBVIOUS
<1>1. CASE ScheduleExit \/ Select \/ DispatchExit \/ UNCHANGED vars
  BY <1>1 DEF ScheduleExit, Select, DispatchExit, vars, TypeOK, Phases, taskVars, sdVars
<1>2. CASE SdEventPrepare \/ SdEventWait
  <2>1. Collected \subseteq Tasks \cup {Wake, Io}
    BY DEF Collected, TypeOK
  <2>2. /\ phase' \in Phases /\ pend' \subseteq Tasks \cup {Wake, Io} /\ armed' \subseteq Tasks
        /\ UNCHANGED <<cur, draining, efd, queue, defer, timers, posted, via, status, due, io, ioLeft, exit>>
    BY <1>2, <2>1 DEF SdEventPrepare, SdEventWait, TypeOK, Phases, taskVars
  <2> QED BY <2>2 DEF TypeOK
<1>3. CASE IoReady \/ DispatchIo \/ OnWakeupMainLoop \/ \E k \in Tasks : TimePasses(k)
  <2>1. /\ efd' \in 0 .. EventFdMax /\ ioLeft' \in 0 .. MaxIo /\ cur' \in 0 .. MaxTasks
        /\ UNCHANGED taskVars
    BY <1>3, LimitsAssumption
    DEF IoReady, DispatchIo, OnWakeupMainLoop, TimePasses, TypeOK, taskVars, sdVars
  <2>2. /\ phase' \in Phases /\ pend' \subseteq Tasks \cup {Wake, Io} /\ armed' \subseteq Tasks
        /\ due' \subseteq Tasks /\ io' \in BOOLEAN /\ draining' \in BOOLEAN /\ exit' \in BOOLEAN
    BY <1>3 DEF IoReady, DispatchIo, OnWakeupMainLoop, TimePasses, TypeOK, Phases
  <2> QED BY <2>1, <2>2 DEF TypeOK, taskVars
<1>4. CASE PostFromThread
  <2>1. PICK result \in {"waiting", "refused"} : Posting("queue", result)
    BY <1>4 DEF PostFromThread
  <2>2. /\ posted + 1 \in Tasks /\ posted' \in 0 .. MaxTasks
        /\ via' \in [Tasks -> Routes] /\ status' \in [Tasks -> Statuses]
    BY <2>1, PostingEffect DEF Sources, Statuses
  <2>3. queue' \in Seq(Tasks)
    <3>1. queue \in Seq(Tasks)
      BY DEF TypeOK
    <3>2. queue' = queue \/ queue' = Append(queue, posted + 1)
      BY <1>4 DEF PostFromThread
    <3> QED BY <2>2, <3>1, <3>2, AppendProperties
  <2>4. efd' \in 0 .. EventFdMax
    BY <1>4, LimitsAssumption DEF PostFromThread, TypeOK
  <2> QED BY <1>4, <2>2, <2>3, <2>4 DEF PostFromThread, TypeOK, Statuses, sdVars
<1>5. CASE PostFromLoop
  <2>1. Posting("defer", "waiting")
    BY <1>5 DEF PostFromLoop
  <2>2. /\ posted + 1 \in Tasks /\ posted' \in 0 .. MaxTasks
        /\ via' \in [Tasks -> Routes] /\ status' \in [Tasks -> Statuses]
    BY <2>1, PostingEffect DEF Sources, Statuses
  <2>3. defer' \in Seq(Tasks)
    BY <1>5, <2>2, AppendProperties DEF PostFromLoop, TypeOK
  <2> QED BY <1>5, <2>2, <2>3 DEF PostFromLoop, TypeOK, Statuses, sdVars
<1>6. CASE PostTimedFromThread \/ PostTimedFromLoop
  <2>1. PICK result \in {"waiting", "freed"} : Posting("timer", result)
    BY <1>6 DEF PostTimedFromThread, PostTimedFromLoop
  <2>2. /\ posted + 1 \in Tasks /\ posted' \in 0 .. MaxTasks
        /\ via' \in [Tasks -> Routes] /\ status' \in [Tasks -> Statuses]
    <3>1. result \in Statuses \ {"none"} /\ "timer" \in Sources
      BY DEF Statuses, Sources
    <3> QED BY <2>1, <3>1, PostingEffect
  <2>3. timers' \subseteq Tasks /\ efd' \in 0 .. EventFdMax
    BY <1>6, <2>2, LimitsAssumption DEF PostTimedFromThread, PostTimedFromLoop, TypeOK
  <2> QED BY <1>6, <2>2, <2>3 DEF PostTimedFromThread, PostTimedFromLoop, TypeOK, Statuses, sdVars
<1>7. CASE DispatchDeferred
  <2>1. defer # <<>> /\ defer \in Seq(Tasks) /\ Call(Head(defer), FALSE)
    BY <1>7 DEF DispatchDeferred, DeferTurn, TypeOK
  <2>2. Head(defer) \in Tasks /\ Tail(defer) \in Seq(Tasks)
    BY <2>1, HeadTailProperties
  <2> QED BY <1>7, <2>1, <2>2, TaskNumbers, ZenonT(60) DEF DispatchDeferred, Call, TypeOK, Phases, sdVars
<1>8. ASSUME NEW k \in Tasks, DispatchTimer(k) PROVE TypeOK'
  BY <1>8, TaskNumbers DEF DispatchTimer, Call, TypeOK, Phases
<1>9. CASE TakeQueued
  <2>1. CASE queue = <<>>
    BY <1>9, <2>1 DEF TakeQueued, TypeOK, Phases, sdVars
  <2>2. CASE queue # <<>>
    <3>1. Head(queue) \in Tasks /\ Tail(queue) \in Seq(Tasks)
      BY <2>2, HeadTailProperties DEF TypeOK
    <3> QED BY <1>9, <2>2, <3>1, TaskNumbers DEF TakeQueued, Call, TypeOK, Phases, sdVars
  <2> QED BY <2>1, <2>2
<1>10. CASE TaskDone
  <2>1. status' \in [Tasks -> Statuses]
    BY <1>10 DEF TaskDone, TypeOK, Statuses
  <2>2. cur' \in 0 .. MaxTasks
    BY <1>10, LimitsAssumption DEF TaskDone
  <2> QED BY <1>10, <2>1, <2>2 DEF TaskDone, TypeOK, Phases, Statuses, sdVars
<1>11. CASE Destroy
  BY <1>11 DEF Destroy, TypeOK, Phases
<1> QED
  BY <1>1, <1>2, <1>4, <1>5, <1>6, <1>7, <1>8, <1>9, <1>10, <1>11, <1>3 DEF Next, Loop

(* Every step leaves the loop awake, or awakened, while there is work.     *)
LEMMA WakeupStep == TypeOK /\ WakeupKept /\ [Next]_vars => WakeupKept'
<1> SUFFICES ASSUME TypeOK, WakeupKept, [Next]_vars PROVE WakeupKept'
  OBVIOUS
<1>1. efd \in Nat /\ EventFdMax \in Nat /\ TimedWake \in Nat \ {0} /\ TimedWake <= EventFdMax
  BY LimitsAssumption DEF TypeOK
<1>2. CASE ScheduleExit \/ IoReady \/ Select \/ SdEventWait \/ UNCHANGED vars
  BY <1>2 DEF ScheduleExit, IoReady, Select, SdEventWait, vars, taskVars, sdVars, WakeupKept
<1>3. CASE DispatchExit \/ DispatchIo \/ OnWakeupMainLoop \/ \E k \in Tasks : TimePasses(k)
  BY <1>3 DEF DispatchExit, DispatchIo, OnWakeupMainLoop, TimePasses, taskVars, sdVars,
     WakeupKept
<1>4. CASE SdEventPrepare
  BY <1>4 DEF SdEventPrepare, taskVars, WakeupKept
<1>5. CASE PostFromThread
  BY <1>1, <1>5 DEF PostFromThread, sdVars, WakeupKept
<1>6. CASE PostFromLoop \/ PostTimedFromLoop
  BY <1>6 DEF PostFromLoop, PostTimedFromLoop, sdVars, WakeupKept
<1>7. CASE PostTimedFromThread
  <2>1. \/ efd' = efd + TimedWake
        \/ efd + TimedWake > EventFdMax /\ efd' = efd
    BY <1>7 DEF PostTimedFromThread
  <2>2. efd' > 0
    BY <1>1, <2>1
  <2> QED BY <1>7, <2>2 DEF PostTimedFromThread, sdVars, WakeupKept
<1>8. CASE DispatchDeferred
  BY <1>8 DEF DispatchDeferred, Call, sdVars, WakeupKept
<1>9. ASSUME NEW k \in Tasks, DispatchTimer(k) PROVE WakeupKept'
  BY <1>9 DEF DispatchTimer, Call, WakeupKept
<1>10. CASE TakeQueued
  BY <1>10 DEF TakeQueued, Call, sdVars, WakeupKept
<1>11. CASE TaskDone
  BY <1>11 DEF TaskDone, sdVars, WakeupKept
<1>12. CASE Destroy
  BY <1>12 DEF Destroy, WakeupKept
<1> QED
  BY <1>2, <1>3, <1>4, <1>5, <1>6, <1>7, <1>8, <1>9, <1>10, <1>11, <1>12 DEF Next, Loop

(* Every step starts the oldest of the tasks that wait in its place.       *)
LEMMA OrderStep == TypeOK /\ TasksFiled /\ TasksInOrder /\ [Next]_vars => TasksInOrder'
<1> SUFFICES ASSUME TypeOK, TasksFiled, TasksInOrder, [Next]_vars PROVE TasksInOrder'
  OBVIOUS
<1>1. posted \in Nat /\ 1 .. posted \subseteq Tasks /\ posted' \in Nat
  <2>1. TypeOK'
    BY TasksTypeStep
  <2>2. posted \in 0 .. MaxTasks /\ posted' \in 0 .. MaxTasks
    BY <2>1 DEF TypeOK
  <2> QED BY <2>2, LimitsAssumption DEF Tasks
<1>2. CASE QuietStep \/ UNCHANGED vars
  BY <1>2, QuietTasks DEF vars, taskVars, TasksInOrder
<1>3. CASE PostFromThread \/ PostFromLoop \/ PostTimedFromThread \/ PostTimedFromLoop
  <2>1. PICK route \in Sources, result \in {"waiting", "refused", "freed"} :
            Posting(route, result) /\ (result = "freed" => route = "timer")
    BY <1>3 DEF PostFromThread, PostFromLoop, PostTimedFromThread, PostTimedFromLoop,
       Sources
  <2>2. result \in Statuses \ {"none"}
    BY DEF Statuses
  <2>3. /\ posted' = posted + 1 /\ status'[posted + 1] = result /\ via'[posted + 1] = route
        /\ \A k \in Tasks : k # posted + 1 => via'[k] = via[k] /\ status'[k] = status[k]
    BY <2>1, <2>2, PostingEffect
  <2>4. \A k \in 1 .. posted' : k \in 1 .. posted \/ k = posted + 1
    BY <1>1, <2>3
  <2>5. \A k \in 1 .. posted : k # posted + 1 /\ ~(posted + 1 < k) /\ k \in Tasks
    BY <1>1
  <2>6. ASSUME NEW j \in 1 .. posted', NEW k \in 1 .. posted', j < k, via'[j] = via'[k],
               via'[j] \in {"queue", "defer"}, status'[j] = "waiting"
        PROVE  status'[k] \in {"waiting", "refused"}
    <3>1. CASE k = posted + 1
      BY <2>1, <2>3, <2>6, <3>1
    <3>2. CASE k \in 1 .. posted
      <4>1. j \in 1 .. posted
        BY <1>1, <2>4, <2>5, <2>6, <3>2
      <4> QED BY <2>3, <2>5, <2>6, <3>2, <4>1 DEF TasksInOrder
    <3> QED BY <2>4, <3>1, <3>2
  <2> QED BY <2>6 DEF TasksInOrder
<1>4. ASSUME NEW k \in Tasks, NEW b, Call(k, b), via' = via, posted' = posted, status[k] # "none",
             \A r \in {"queue", "defer"} : via[k] = r => k \in Waiting(r) /\ \A j \in Waiting(r) : k <= j
      PROVE  TasksInOrder'
  <2>1. /\ status'[k] \in {"freed", "running"}
        /\ \A j \in Tasks : j # k => status'[j] = status[j]
    BY <1>4, CallEffect
  <2>2. ASSUME NEW i \in 1 .. posted, NEW j \in 1 .. posted, i < j, via[i] = via[j],
               via[i] \in {"queue", "defer"}, status'[i] = "waiting"
        PROVE  status'[j] \in {"waiting", "refused"}
    <3>1. i \in Tasks /\ j \in Tasks /\ i # k /\ status[i] = "waiting"
      BY <1>1, <2>1, <2>2
    <3>2. i \in Waiting(via[i])
      BY <3>1 DEF Waiting
    <3>3. j # k
      BY <1>4, <2>2, <3>1, <3>2, TaskNumbers
    <3> QED BY <2>1, <2>2, <3>1, <3>3 DEF TasksInOrder
  <2> QED BY <1>4, <2>2 DEF TasksInOrder
<1>5. CASE DispatchDeferred
  <2>1. /\ defer # <<>> /\ Lists(defer, Waiting("defer")) /\ Call(Head(defer), FALSE)
        /\ via' = via /\ posted' = posted
    BY <1>5 DEF DispatchDeferred, DeferTurn, TasksFiled
  <2>2. Head(defer) \in Waiting("defer") /\ \A j \in Waiting("defer") : Head(defer) <= j
    BY <2>1, ListsTail
  <2>3. Head(defer) \in Tasks /\ via[Head(defer)] = "defer" /\ status[Head(defer)] = "waiting"
    BY <2>2 DEF Waiting
  <2> QED BY <1>4, <2>1, <2>2, <2>3
<1>6. ASSUME NEW k \in Tasks, DispatchTimer(k) PROVE TasksInOrder'
  <2>1. k \in timers /\ Call(k, FALSE) /\ via' = via /\ posted' = posted
    BY <1>6 DEF DispatchTimer
  <2>2. via[k] = "timer" /\ status[k] # "none"
    BY <2>1 DEF TasksFiled
  <2> QED BY <1>4, <2>1, <2>2
<1>7. CASE TakeQueued
  <2>1. CASE queue = <<>>
    BY <1>7, <2>1 DEF TakeQueued, TasksInOrder
  <2>2. CASE queue # <<>>
    <3>1. /\ Lists(queue, Waiting("queue")) /\ Call(Head(queue), TRUE)
          /\ via' = via /\ posted' = posted
      BY <1>7, <2>2 DEF TakeQueued, TasksFiled
    <3>2. Head(queue) \in Waiting("queue") /\ \A j \in Waiting("queue") : Head(queue) <= j
      BY <2>2, <3>1, ListsTail
    <3>3. Head(queue) \in Tasks /\ via[Head(queue)] = "queue" /\ status[Head(queue)] = "waiting"
      BY <3>2 DEF Waiting
    <3> QED BY <1>4, <3>1, <3>2, <3>3
  <2> QED BY <2>1, <2>2
<1>8. CASE TaskDone
  <2>1. /\ via' = via /\ posted' = posted
        /\ \A k \in Tasks :
                status'[k] = IF k = cur /\ status[k] = "running" THEN "ran" ELSE status[k]
    BY <1>8 DEF TaskDone
  <2> QED BY <1>1, <2>1 DEF TasksInOrder
<1>9. CASE Destroy
  <2>1. /\ posted' = posted
        /\ \A k \in Tasks : status'[k] = IF status[k] = "waiting" THEN "freed" ELSE status[k]
    BY <1>9 DEF Destroy
  <2> QED BY <1>1, <2>1 DEF TasksInOrder
<1> QED
  BY <1>2, <1>3, <1>5, <1>6, <1>7, <1>8, <1>9 DEF Next, Loop, QuietStep
-----------------------------------------------------------------------------
(* The invariant of the loop and its tasks holds for good: every task that *)
(* waits is filed under the way it was posted, and work keeps the loop     *)
(* awake.                                                                  *)
THEOREM TasksCorrect == Spec => []TasksInv
<1>1. Init => TasksInv
  <2> SUFFICES ASSUME Init PROVE TasksInv
    OBVIOUS
  <2>1. TypeOK
    <3>1. 0 \in 0 .. MaxTasks /\ 0 \in 0 .. EventFdMax /\ MaxIo \in 0 .. MaxIo
      BY LimitsAssumption
    <3>2. <<>> \in Seq(Tasks)
      BY EmptySeq
    <3> QED BY <3>1, <3>2 DEF Init, TypeOK, Phases, Routes
  <2>2. \A r \in Sources : Waiting(r) = {}
    BY DEF Init, Waiting, Sources
  <2>3. TasksFiled
    <3>1. posted = 0 /\ \A k \in Tasks : k > 0 /\ via[k] = "none" /\ status[k] = "none"
      BY TaskNumbers DEF Init
    <3> QED BY <2>2, <3>1, ListsEmpty DEF Init, TasksFiled, Sources
  <2> QED BY <2>1, <2>3 DEF Init, TasksInv, WakeupKept, TasksInOrder
<1>2. TasksInv /\ [Next]_vars => TasksInv'
  BY TasksTypeStep, FiledStep, WakeupStep, OrderStep DEF TasksInv
<1> QED BY <1>1, <1>2, PTL DEF Spec

(* The platform thread never sleeps in select on work it was given.        *)
THEOREM WakeupNeverLost == Spec => []NoLostWakeup
<1>1. TasksInv => NoLostWakeup
  BY DEF TasksInv, WakeupKept, NoLostWakeup
<1> QED BY <1>1, TasksCorrect, PTL

(* Tasks posted on the same way start in the order they were posted.       *)
THEOREM PostedOrderKept == Spec => []TasksInOrder
<1>1. TasksInv => TasksInOrder
  BY DEF TasksInv
<1> QED BY <1>1, TasksCorrect, PTL

(* A task that waits is in one place once, and no other task is in any.    *)
THEOREM EveryTaskOwnedOnce == Spec => []TasksOwnedOnce
<1>1. TasksInv => TasksOwnedOnce
  <2> SUFFICES ASSUME TypeOK, TasksFiled, NEW k \in Tasks
               PROVE  /\ status[k] = "waiting" => Places(k) = 1
                      /\ status[k] \in {"none", "running", "ran", "refused"} => Places(k) = 0
    BY DEF TasksInv, TasksOwnedOnce
  <2>1. Cardinality({i \in DOMAIN queue : queue[i] = k}) = (IF k \in Waiting("queue") THEN 1 ELSE 0)
    BY ListsCount DEF TasksFiled
  <2>2. Cardinality({i \in DOMAIN defer : defer[i] = k}) = (IF k \in Waiting("defer") THEN 1 ELSE 0)
    BY ListsCount DEF TasksFiled
  <2>3. Cardinality({k} \cap timers) = (IF k \in timers THEN 1 ELSE 0)
    <3>1. {k} \cap timers = IF k \in timers THEN {k} ELSE {}
      OBVIOUS
    <3> QED BY <3>1, FS_Singleton, FS_EmptySet
  <2>4. CASE status[k] = "waiting"
    <3>1. via[k] # "none" /\ via[k] \in Routes
      BY <2>4 DEF TasksFiled, TypeOK
    <3>2. via[k] = "queue" <=> k \in Waiting("queue")
      BY <2>4 DEF Waiting
    <3>3. via[k] = "defer" <=> k \in Waiting("defer")
      BY <2>4 DEF Waiting
    <3>4. via[k] = "timer" <=> k \in timers
      BY <2>4 DEF Waiting, TasksFiled
    <3> QED BY <2>1, <2>2, <2>3, <2>4, <3>1, <3>2, <3>3, <3>4 DEF Places, Routes
  <2>5. CASE status[k] \in {"none", "running", "ran", "refused"}
    <3>1. k \notin Waiting("queue") /\ k \notin Waiting("defer") /\ k \notin timers
      BY <2>5 DEF Waiting, TasksFiled
    <3> QED BY <2>1, <2>2, <2>3, <2>5, <3>1 DEF Places
  <2> QED BY <2>4, <2>5
<1> QED BY <1>1, TasksCorrect, PTL
-----------------------------------------------------------------------------
Scrolls == [device_id : Int, added : BOOLEAN, active : BOOLEAN, x : BOOLEAN, y : BOOLEAN]
Datas ==
    [state : {"null", "live", "freed"}, buttons : SUBSET Buttons, emitted : BOOLEAN, tip : BOOLEAN,
     touch_id : Int, stylus_id : Int, scroll : Scrolls, keyboard : BOOLEAN]
Inputs ==
    [next_id : Int, n_cursor_devices : Int, cursor_id : Int, cursor : Int, kbdcfg : BOOLEAN,
     suspended : BOOLEAN, destroyed : BOOLEAN]

InputTypeOK ==
    /\ data \in [Devices -> Datas] /\ input \in Inputs
    /\ batch \in [running : BOOLEAN, enabled : BOOLEAN, cursor : Int]
    /\ shown \in [enabled : BOOLEAN, cursor : Int]

(* The devices that spoke are pointers whose data is there, and counted.   *)
Speakers == {d \in Devices : data[d].emitted}
SpeakersOK ==
    /\ \A d \in Speakers : "pointer" \in Capabilities[d] /\ data[d].state = "live"
    /\ IsFiniteSet(Speakers) /\ input.n_cursor_devices = Cardinality(Speakers)

(* The compositor was told of the cursor as it is, or, while a batch runs, *)
(* as it was when the batch began.                                         *)
Told(enabled, cursor) ==
    /\ shown.enabled <=> enabled
    /\ "moved and left" \notin excused => shown.cursor = cursor
CompositorTold ==
    "failed" \notin excused /\ ~input.destroyed =>
        IF batch.running THEN Told(batch.enabled, batch.cursor)
        ELSE Told(input.n_cursor_devices > 0, input.cursor)

(* The inductive invariant.                                                *)
InputInv == InputTypeOK /\ SpeakersOK /\ CompositorTold

(* At the start nobody has spoken and nothing is shown.                    *)
LEMMA InputInitial == InputInit => InputInv
  <1> SUFFICES ASSUME InputInit PROVE InputInv OBVIOUS
  <1>1. NoScroll \in Scrolls BY DEF NoScroll, Scrolls
  <1>2. NoData \in Datas /\ NoData.emitted = FALSE BY <1>1 DEF NoData, Datas
  <1>3. data \in [Devices -> Datas] /\ \A d \in Devices : data[d].emitted = FALSE
    BY <1>2 DEF InputInit
  <1>4. Speakers = {} BY <1>3 DEF Speakers
  <1>5. PICK kbdcfg \in BOOLEAN :
          input = [next_id |-> 0, n_cursor_devices |-> 0, cursor_id |-> -1, cursor |-> 0,
                   kbdcfg |-> kbdcfg, suspended |-> FALSE, destroyed |-> FALSE]
    BY DEF InputInit
  <1>6. input \in Inputs /\ input.n_cursor_devices = 0 /\ input.cursor = 0 BY <1>5 DEF Inputs
  <1>7. InputTypeOK BY <1>3, <1>6 DEF InputInit, InputTypeOK
  <1>8. SpeakersOK BY <1>4, <1>6, FS_EmptySet DEF SpeakersOK
  <1>9. CompositorTold BY <1>6 DEF CompositorTold, Told, InputInit
  <1> QED BY <1>7, <1>8, <1>9 DEF InputInv

(* The invariant says all of CursorInStep.                                 *)
LEMMA InputTheEnd == InputInv => CursorInStep
  BY DEF InputInv, InputTypeOK, SpeakersOK, Speakers, CompositorTold, Told, CursorInStep,
     Idle, Inputs

(* Steps in a batch that tell the compositor nothing.                      *)
LEMMA InBatch ==
  ASSUME InputInv, batch.running, batch' = batch, shown' = shown, excused \subseteq excused',
         input'.destroyed = input.destroyed, data' \in [Devices -> Datas],
         input' \in Inputs, SpeakersOK'
  PROVE InputInv'
  <1>1. InputTypeOK' BY DEF InputInv, InputTypeOK
  <1>2. CompositorTold' BY DEF InputInv, CompositorTold, Told
  <1> QED BY <1>1, <1>2 DEF InputInv

(* The same, when no device begins or ceases to be counted.                *)
LEMMA NobodySpoke ==
  ASSUME InputInv, input'.n_cursor_devices = input.n_cursor_devices,
         \A d \in Devices : data'[d].emitted = data[d].emitted
                            /\ (data[d].emitted => data'[d].state = data[d].state)
  PROVE SpeakersOK'
  <1>1. Speakers' = Speakers BY DEF Speakers
  <1> QED BY <1>1 DEF InputInv, SpeakersOK, Speakers

(* Touches, the stylus and keys leave the mice and the cursor alone.       *)
LEMMA TouchOrTablet ==
  ASSUME InputInv, NEW d \in Devices,
         \/ OnEventOfFreed(d)
         \/ \E slot \in 0..(TouchCount[d] - 1) :
                OnTouchDown(d, slot) \/ OnTouchMotion(d, slot)
                \/ OnTouchUp(d, slot) \/ OnTouchCancel(d, slot)
         \/ OnTabletToolAxis(d) \/ OnTabletToolProximity(d)
         \/ \E key \in Keys, p \in BOOLEAN : OnKeyEvent(d, key, p)
  PROVE InputInv'
  <1>1. /\ batch.running /\ batch' = batch /\ shown' = shown /\ excused \subseteq excused'
        /\ UNCHANGED <<input, data>>
    BY DEF OnEventOfFreed, OnTouchDown, OnTouchMotion, OnTouchUp, OnTouchCancel, TouchEvent,
       OnTabletToolAxis, OnTabletToolProximity, OnKeyEvent, Live, Handling, Uses, Quiet
  <1>2. data' \in [Devices -> Datas] /\ input' \in Inputs BY <1>1 DEF InputInv, InputTypeOK
  <1>3. SpeakersOK' BY <1>1, NobodySpoke
  <1> QED BY <1>1, <1>2, <1>3, InBatch

(* The tip of a stylus is no mouse.                                        *)
LEMMA OnTabletToolTipStep ==
  ASSUME InputInv, NEW d \in Devices, NEW down \in BOOLEAN, OnTabletToolTip(d, down)
  PROVE InputInv'
  <1>1. /\ batch.running /\ batch' = batch /\ shown' = shown /\ excused' = excused /\ input' = input
        /\ data' = [data EXCEPT ![d].tip = down]
    BY DEF OnTabletToolTip, Live, Handling, Quiet
  <1>2. data \in [Devices -> Datas] /\ input' \in Inputs BY <1>1 DEF InputInv, InputTypeOK
  <1>3. /\ [data[d] EXCEPT !.tip = down] \in Datas
        /\ [data[d] EXCEPT !.tip = down].emitted = data[d].emitted
        /\ [data[d] EXCEPT !.tip = down].state = data[d].state
    BY <1>2 DEF Datas
  <1>4. data' = [data EXCEPT ![d] = [data[d] EXCEPT !.tip = down]] BY <1>1
  <1>5. data' \in [Devices -> Datas] BY <1>2, <1>3, <1>4
  <1>6. \A e \in Devices : data'[e].emitted = data[e].emitted /\ data'[e].state = data[e].state
    BY <1>2, <1>3, <1>4
  <1>7. SpeakersOK' BY <1>1, <1>6, NobodySpoke
  <1> QED BY <1>1, <1>2, <1>5, <1>7, InBatch

(* What the first event of a pointer does to the input.                    *)
LEMMA SpeaksIs ==
  ASSUME InputInv, NEW d \in Devices
  PROVE LET s == PointerSpeaks(d)[1]
        IN  /\ s \in Inputs /\ s.destroyed = input.destroyed /\ s.cursor = input.cursor
            /\ s.n_cursor_devices =
                   IF data[d].emitted THEN input.n_cursor_devices ELSE input.n_cursor_devices + 1
  <1> DEFINE n == input.n_cursor_devices + 1
             new == n = 1 /\ input.cursor_id = -1
             id == IF new THEN input.next_id ELSE input.cursor_id
             nid == IF new THEN input.next_id + 1 ELSE input.next_id
             s == PointerSpeaks(d)[1]
  <1>1. input \in Inputs BY DEF InputInv, InputTypeOK
  <1>2. CASE data[d].emitted
    <2>1. s = input BY <1>2 DEF PointerSpeaks
    <2> QED BY <1>1, <1>2, <2>1
  <1>3. CASE ~data[d].emitted
    <2>1. n \in Int /\ id \in Int /\ nid \in Int BY <1>1 DEF Inputs
    <2>2. s = [input EXCEPT !.n_cursor_devices = n, !.cursor_id = id, !.next_id = nid]
      BY <1>1, <1>3 DEF PointerSpeaks, Inputs
    <2> HIDE DEF n, new, id, nid, s
    <2>3. s \in Inputs /\ s.destroyed = input.destroyed /\ s.cursor = input.cursor
          /\ s.n_cursor_devices = n
      BY <1>1, <2>1, <2>2 DEF Inputs
    <2> QED BY <1>3, <2>3 DEF n, s
  <1> QED BY <1>2, <1>3

(* A pointer whose data is there has spoken, for the first time or again.  *)
LEMMA Spoke ==
  ASSUME InputInv, NEW d \in Devices, "pointer" \in Capabilities[d], data[d].state = "live",
         NEW x \in Datas, x.emitted = TRUE, x.state = "live", data' = [data EXCEPT ![d] = x],
         input'.n_cursor_devices = PointerSpeaks(d)[1].n_cursor_devices
  PROVE data' \in [Devices -> Datas] /\ SpeakersOK'
  <1>1. data \in [Devices -> Datas] BY DEF InputInv, InputTypeOK
  <1>2. data' \in [Devices -> Datas] /\ data'[d] = x
        /\ \A e \in Devices : e # d => data'[e] = data[e]
    BY <1>1
  <1>3. Speakers' = Speakers \cup {d} BY <1>2 DEF Speakers
  <1>4. IsFiniteSet(Speakers) /\ input.n_cursor_devices = Cardinality(Speakers)
    BY DEF InputInv, SpeakersOK
  <1>5. d \in Speakers <=> data[d].emitted BY DEF Speakers
  <1>6. IsFiniteSet(Speakers') /\ Cardinality(Speakers') =
            IF data[d].emitted THEN Cardinality(Speakers) ELSE Cardinality(Speakers) + 1
    BY <1>3, <1>4, <1>5, FS_AddElement
  <1>7. input'.n_cursor_devices = Cardinality(Speakers') BY <1>4, <1>6, SpeaksIs
  <1>8. \A e \in Speakers' : "pointer" \in Capabilities[e] /\ data'[e].state = "live"
    BY <1>2, <1>3 DEF InputInv, SpeakersOK
  <1> QED BY <1>2, <1>6, <1>7, <1>8 DEF SpeakersOK

(* A mouse that moves speaks, and moves the cursor.                        *)
LEMMA MovedToStep ==
  ASSUME InputInv, NEW d \in Devices, NEW pos \in Int, MovedTo(d, pos)
  PROVE InputInv'
  <1> DEFINE s == PointerSpeaks(d)[1]
             x == [data[d] EXCEPT !.emitted = TRUE]
  <1>1. /\ batch.running /\ batch' = batch /\ shown' = shown /\ excused' = excused
        /\ "pointer" \in Capabilities[d] /\ data[d].state = "live"
        /\ input' = [s EXCEPT !.cursor = pos] /\ data' = [data EXCEPT ![d] = x]
    BY DEF MovedTo, Live, Handling, Quiet
  <1>2. data[d] \in Datas BY DEF InputInv, InputTypeOK
  <1>3. x \in Datas /\ x.emitted = TRUE /\ x.state = "live" BY <1>1, <1>2 DEF Datas
  <1>4. s \in Inputs /\ s.destroyed = input.destroyed BY SpeaksIs
  <1> HIDE DEF s, x
  <1>5. input' \in Inputs /\ input'.destroyed = input.destroyed
        /\ input'.n_cursor_devices = s.n_cursor_devices
    BY <1>1, <1>4 DEF Inputs
  <1>6. data' \in [Devices -> Datas] /\ SpeakersOK'
    <2>1. input'.n_cursor_devices = PointerSpeaks(d)[1].n_cursor_devices BY <1>5 DEF s
    <2> QED BY <1>1, <1>3, <2>1, Spoke
  <1> QED BY <1>1, <1>5, <1>6, InBatch

(* A motion in steps, or to a position.                                    *)
LEMMA OnMouseMotionStep ==
  ASSUME InputInv, NEW d \in Devices, NEW delta \in {-1, 1}, OnMouseMotion(d, delta)
  PROVE InputInv'
  <1>1. input.cursor + delta \in Int BY DEF InputInv, InputTypeOK, Inputs
  <1>2. Clamp(input.cursor + delta) \in Int BY <1>1, InputConstants DEF Clamp
  <1> QED BY <1>2, MovedToStep DEF OnMouseMotion

(* An absolute motion.                                                     *)
LEMMA OnMouseMotionAbsoluteStep ==
  ASSUME InputInv, NEW d \in Devices, NEW pos \in 0..(DisplayWidth - 1),
         OnMouseMotionAbsolute(d, pos)
  PROVE InputInv'
  BY MovedToStep DEF OnMouseMotionAbsolute

(* A button speaks, and the cursor stays.                                  *)
LEMMA OnMouseButtonStep ==
  ASSUME InputInv, NEW d \in Devices, NEW button, NEW pressed \in BOOLEAN,
         OnMouseButton(d, button, pressed)
  PROVE InputInv'
  <1> DEFINE s == PointerSpeaks(d)[1]
             before == data[d].buttons
             after == IF pressed THEN before \cup ({button} \cap Buttons) ELSE before \ {button}
             x == [data[d] EXCEPT !.emitted = TRUE, !.buttons = after]
  <1>1. data \in [Devices -> Datas] /\ data[d] \in Datas BY DEF InputInv, InputTypeOK
  <1>2. /\ batch.running /\ batch' = batch /\ shown' = shown
        /\ "pointer" \in Capabilities[d] /\ data[d].state = "live"
        /\ input' = s
    BY DEF OnMouseButton, Live, Handling, Quiet
  <1>3. excused \subseteq excused' BY DEF OnMouseButton
  <1>4. data' = [data EXCEPT ![d].emitted = TRUE, ![d].buttons = after] BY DEF OnMouseButton
  <1>5. after \in SUBSET Buttons BY <1>1 DEF Datas
  <1> HIDE DEF after
  <1>6. data' = [data EXCEPT ![d] = x] BY <1>1, <1>4
  <1>7. x \in Datas /\ x.emitted = TRUE /\ x.state = "live" BY <1>1, <1>2, <1>5 DEF Datas
  <1>8. s \in Inputs /\ s.destroyed = input.destroyed BY SpeaksIs
  <1> HIDE DEF s, x
  <1>9. data' \in [Devices -> Datas] /\ SpeakersOK'
    <2>1. input'.n_cursor_devices = PointerSpeaks(d)[1].n_cursor_devices BY <1>2 DEF s
    <2> QED BY <1>2, <1>6, <1>7, <2>1, Spoke
  <1>10. input' \in Inputs /\ input'.destroyed = input.destroyed BY <1>2, <1>8
  <1> QED BY <1>2, <1>3, <1>9, <1>10, InBatch

(* A gesture keeps the id of the touchpad's scroll events.                 *)
LEMMA ScrollFingerIs ==
  ASSUME NEW scroll \in Scrolls, NEW dx \in Axis, NEW dy \in Axis
  PROVE ScrollFinger(scroll, dx, dy)[1] \in Scrolls
  <1> DEFINE started == [scroll EXCEPT !.added = TRUE, !.active = TRUE,
                                       !.x = @ /\ scroll.active, !.y = @ /\ scroll.active]
             sx == IF dx = "none" THEN started.x ELSE dx = "delta"
             sy == IF dy = "none" THEN started.y ELSE dy = "delta"
             s == [started EXCEPT !.x = sx, !.y = sy]
             e == [s EXCEPT !.active = ~(~s.x /\ ~s.y)]
  <1>1. started \in Scrolls BY DEF Scrolls
  <1>2. sx \in BOOLEAN /\ sy \in BOOLEAN BY <1>1 DEF Scrolls
  <1>3. ScrollFinger(scroll, dx, dy)[1] \in {scroll, e} BY DEF ScrollFinger
  <1> HIDE DEF started, sx, sy
  <1>4. s \in Scrolls BY <1>1, <1>2 DEF Scrolls
  <1> HIDE DEF s
  <1>5. e \in Scrolls BY <1>4 DEF Scrolls
  <1> QED BY <1>3, <1>5

(* A wheel or a touchpad speaks, and the cursor stays.                     *)
LEMMA OnMouseAxisStep ==
  ASSUME InputInv, NEW d \in Devices, NEW finger \in BOOLEAN, NEW dx \in Axis, NEW dy \in Axis,
         OnMouseAxis(d, finger, dx, dy)
  PROVE InputInv'
  <1> DEFINE s == PointerSpeaks(d)[1]
             pan == ScrollFinger(data[d].scroll, dx, dy)
             scroll == IF finger THEN pan[1] ELSE data[d].scroll
             x == [data[d] EXCEPT !.emitted = TRUE, !.scroll = scroll]
  <1>1. data \in [Devices -> Datas] /\ data[d] \in Datas BY DEF InputInv, InputTypeOK
  <1>2. /\ batch.running /\ batch' = batch /\ shown' = shown /\ excused' = excused
        /\ "pointer" \in Capabilities[d] /\ data[d].state = "live"
        /\ input' = s
    BY DEF OnMouseAxis, Live, Handling, Quiet
  <1>4. data' = [data EXCEPT ![d].emitted = TRUE, ![d].scroll = IF finger THEN pan[1] ELSE @]
    BY DEF OnMouseAxis
  <1>5. scroll \in Scrolls
    <2>1. data[d].scroll \in Scrolls BY <1>1 DEF Datas
    <2> QED BY <2>1, ScrollFingerIs
  <1> HIDE DEF pan
  <1>6. data' = [data EXCEPT ![d] = x] BY <1>1, <1>4 DEF Datas
  <1> HIDE DEF scroll
  <1>7. x \in Datas /\ x.emitted = TRUE /\ x.state = "live" BY <1>1, <1>2, <1>5 DEF Datas
  <1>8. s \in Inputs /\ s.destroyed = input.destroyed BY SpeaksIs
  <1> HIDE DEF s, x
  <1>9. data' \in [Devices -> Datas] /\ SpeakersOK'
    <2>1. input'.n_cursor_devices = PointerSpeaks(d)[1].n_cursor_devices BY <1>2 DEF s
    <2> QED BY <1>2, <1>6, <1>7, <2>1, Spoke
  <1>10. input' \in Inputs /\ input'.destroyed = input.destroyed BY <1>2, <1>8
  <1> QED BY <1>2, <1>9, <1>10, InBatch

(* A device that comes has not spoken, whether its set-up succeeds or      *)
(* fails.                                                                  *)
LEMMA OnDeviceAddedStep == ASSUME InputInv, NEW d \in Devices, OnDeviceAdded(d) PROVE InputInv'
  <1> DEFINE caps == Capabilities[d]
             pointer == IF "pointer" \in caps THEN 1 ELSE 0
             slots == IF "touch" \in caps THEN TouchCount[d] ELSE 0
             stylus == IF "tablet" \in caps THEN 1 ELSE 0
             touchAt == input.next_id + pointer
             scroll == [NoScroll EXCEPT !.device_id = IF pointer = 1 THEN input.next_id ELSE -1]
             touch == IF slots > 0 THEN touchAt ELSE -1
             fresh == [NoData EXCEPT !.state = "live", !.scroll = scroll, !.touch_id = touch]
             id == IF stylus = 1 THEN touchAt + slots ELSE -1
  <1>1. input \in Inputs /\ data \in [Devices -> Datas] /\ data[d].state = "null"
    BY DEF InputInv, InputTypeOK, OnDeviceAdded
  <1>2. pointer \in Int /\ slots \in Int /\ stylus \in Int /\ touchAt \in Int
        /\ input.next_id \in Int
    <2>1. pointer \in Int /\ stylus \in Int OBVIOUS
    <2>2. TouchCount[d] \in Nat BY InputConstants
    <2>3. slots \in Int BY <2>2
    <2>4. input.next_id \in Int BY <1>1 DEF Inputs
    <2> HIDE DEF pointer, slots, stylus
    <2> QED BY <2>1, <2>3, <2>4
  <1>3. scroll \in Scrolls
    <2> DEFINE at == IF pointer = 1 THEN input.next_id ELSE -1
    <2> HIDE DEF pointer
    <2>1. at \in Int BY <1>2
    <2>2. scroll = [NoScroll EXCEPT !.device_id = at] OBVIOUS
    <2> HIDE DEF at, scroll
    <2> QED BY <2>1, <2>2 DEF NoScroll, Scrolls
  <1>4. touch \in Int /\ id \in Int BY <1>2
  <1>5. ~data[d].emitted BY <1>1 DEF InputInv, SpeakersOK, Speakers
  <1>6. batch.running /\ shown' = shown /\ excused \subseteq excused' BY DEF OnDeviceAdded, Handling
  <1>7. \/ /\ input' = [input EXCEPT !.next_id = @ + pointer + slots + stylus]
           /\ \E created \in BOOLEAN :
                 data' = [data EXCEPT ![d] = [fresh EXCEPT !.stylus_id = id,
                     !.keyboard = "keyboard" \in caps /\ input.kbdcfg /\ created]]
           /\ batch' = batch
        \/ /\ input' = [input EXCEPT !.next_id = @ + pointer + slots]
           /\ data' = [data EXCEPT ![d] = [fresh EXCEPT !.state = "freed"]]
           /\ batch' = [batch EXCEPT !.running = FALSE]
           /\ "failed" \in excused'
    BY DEF OnDeviceAdded
  <1> HIDE DEF scroll, touch, id
  <1>8. NoData \in Datas /\ NoData.emitted = FALSE BY DEF NoData, Datas, NoScroll, Scrolls
  <1>9. fresh \in Datas /\ fresh.emitted = FALSE BY <1>3, <1>4, <1>8 DEF Datas
  <1> HIDE DEF fresh, pointer, slots, stylus, touchAt
  <1>10. input' \in Inputs /\ input'.destroyed = input.destroyed
         /\ input'.n_cursor_devices = input.n_cursor_devices
    <2> DEFINE all == input.next_id + pointer + slots + stylus
               some == input.next_id + pointer + slots
    <2>1. all \in Int /\ some \in Int BY <1>2
    <2>2. input' = [input EXCEPT !.next_id = all] \/ input' = [input EXCEPT !.next_id = some]
      BY <1>1, <1>7 DEF Inputs
    <2> HIDE DEF all, some
    <2> QED BY <1>1, <2>1, <2>2 DEF Inputs
  <1>11. PICK x \in Datas : data' = [data EXCEPT ![d] = x] /\ x.emitted = FALSE
    <2>1. ASSUME NEW k \in BOOLEAN PROVE LET x == [fresh EXCEPT !.stylus_id = id, !.keyboard = k]
                                       IN  x \in Datas /\ x.emitted = FALSE
      BY <1>4, <1>9 DEF Datas
    <2>2. LET x == [fresh EXCEPT !.state = "freed"] IN x \in Datas /\ x.emitted = FALSE
      BY <1>9 DEF Datas
    <2>3. ASSUME NEW created \in BOOLEAN
          PROVE ("keyboard" \in caps /\ input.kbdcfg /\ created) \in BOOLEAN
      OBVIOUS
    <2> HIDE DEF caps
    <2> QED BY <1>7, <2>1, <2>2, <2>3
  <1>12. data' \in [Devices -> Datas] BY <1>1, <1>11
  <1>13. SpeakersOK'
    <2>1. \A e \in Devices : data'[e].emitted = data[e].emitted
                            /\ (data[e].emitted => data'[e].state = data[e].state)
      BY <1>1, <1>5, <1>11 DEF Datas
    <2> QED BY <1>10, <2>1, NobodySpoke
  <1>14. CASE batch' = batch BY <1>6, <1>10, <1>12, <1>13, <1>14, InBatch
  <1>15. CASE batch' = [batch EXCEPT !.running = FALSE] /\ "failed" \in excused'
    <2>1. batch' \in [running : BOOLEAN, enabled : BOOLEAN, cursor : Int]
      BY <1>15 DEF InputInv, InputTypeOK
    <2>2. InputTypeOK' BY <1>6, <1>10, <1>12, <2>1 DEF InputInv, InputTypeOK
    <2>3. CompositorTold' BY <1>15 DEF CompositorTold
    <2> QED BY <1>13, <2>2, <2>3 DEF InputInv
  <1> QED BY <1>7, <1>14, <1>15

(* A device that leaves is counted out if it spoke.                        *)
LEMMA OnDeviceRemovedStep == ASSUME InputInv, NEW d \in Devices, OnDeviceRemoved(d) PROVE InputInv'
  <1>1. input \in Inputs /\ data \in [Devices -> Datas] /\ data[d] \in Datas
    BY DEF InputInv, InputTypeOK
  <1>2. /\ batch.running /\ batch' = batch /\ shown' = shown /\ excused \subseteq excused'
        /\ input' = RemovedInput(d) /\ data' = [data EXCEPT ![d] = NoData]
    BY DEF OnDeviceRemoved, Handling, Quiet, Uses
  <1>3. NoData \in Datas /\ NoData.emitted = FALSE BY DEF NoData, Datas, NoScroll, Scrolls
  <1>4. data[d].emitted => "pointer" \in Capabilities[d] BY DEF InputInv, SpeakersOK, Speakers
  <1>5. input' \in Inputs /\ input'.destroyed = input.destroyed /\ input'.n_cursor_devices =
            IF data[d].emitted THEN input.n_cursor_devices - 1 ELSE input.n_cursor_devices
    <2> DEFINE n == IF "pointer" \in Capabilities[d] /\ data[d].emitted
                    THEN input.n_cursor_devices - 1 ELSE input.n_cursor_devices
    <2>1. n \in Int BY <1>1 DEF Inputs
    <2>2. input' = [input EXCEPT !.n_cursor_devices = n] BY <1>1, <1>2 DEF RemovedInput, Inputs
    <2>3. n = IF data[d].emitted THEN input.n_cursor_devices - 1 ELSE input.n_cursor_devices
      BY <1>4
    <2> HIDE DEF n
    <2>4. input' \in Inputs /\ input'.destroyed = input.destroyed /\ input'.n_cursor_devices = n
      BY <1>1, <2>1, <2>2 DEF Inputs
    <2> QED BY <2>3, <2>4
  <1>6. data' \in [Devices -> Datas] /\ data'[d] = NoData
        /\ \A e \in Devices : e # d => data'[e] = data[e]
    BY <1>1, <1>2, <1>3
  <1>7. Speakers' = Speakers \ {d} BY <1>3, <1>6 DEF Speakers
  <1>8. IsFiniteSet(Speakers) /\ input.n_cursor_devices = Cardinality(Speakers)
    BY DEF InputInv, SpeakersOK
  <1>9. d \in Speakers <=> data[d].emitted BY DEF Speakers
  <1>10. IsFiniteSet(Speakers') /\ Cardinality(Speakers') =
             IF data[d].emitted THEN Cardinality(Speakers) - 1 ELSE Cardinality(Speakers)
    BY <1>7, <1>8, <1>9, FS_RemoveElement
  <1>11. \A e \in Speakers' : "pointer" \in Capabilities[e] /\ data'[e].state = "live"
    BY <1>6, <1>7 DEF InputInv, SpeakersOK, Speakers
  <1>12. SpeakersOK' BY <1>5, <1>8, <1>10, <1>11 DEF SpeakersOK
  <1> QED BY <1>2, <1>5, <1>6, <1>12, InBatch

(* A batch begins with the cursor the compositor knows.                    *)
LEMMA BeginBatchStep == ASSUME InputInv, BeginBatch PROVE InputInv'
  <1> DEFINE some == input.n_cursor_devices > 0
  <1>1. /\ ~batch.running
        /\ batch' = [running |-> TRUE, enabled |-> some, cursor |-> input.cursor]
        /\ UNCHANGED <<data, input, shown, excused>>
    BY DEF BeginBatch
  <1>2. input.cursor \in Int BY DEF InputInv, InputTypeOK, Inputs
  <1>3. some \in BOOLEAN OBVIOUS
  <1> HIDE DEF some
  <1>4. batch' \in [running : BOOLEAN, enabled : BOOLEAN, cursor : Int] BY <1>1, <1>2, <1>3
  <1>5. batch'.running /\ (batch'.enabled <=> some) /\ batch'.cursor = input.cursor BY <1>1
  <1>6. InputTypeOK' BY <1>1, <1>4 DEF InputInv, InputTypeOK
  <1>7. SpeakersOK' BY <1>1 DEF InputInv, SpeakersOK, Speakers
  <1>8. CompositorTold' BY <1>1, <1>5 DEF InputInv, CompositorTold, Told, some
  <1> QED BY <1>6, <1>7, <1>8 DEF InputInv

(* A batch ends telling the compositor what changed since it began.        *)
LEMMA EndBatchStep == ASSUME InputInv, EndBatch PROVE InputInv'
  <1> DEFINE enabled == input.n_cursor_devices > 0
             moved == input.cursor # batch.cursor
             b == IF enabled # batch.enabled THEN enabled
                  ELSE IF enabled /\ moved THEN TRUE ELSE shown.enabled
             c == shown.cursor + (IF enabled THEN input.cursor - batch.cursor ELSE 0)
  <1>1. /\ batch.running
        /\ shown' = [enabled |-> b, cursor |-> c]
        /\ batch' = [batch EXCEPT !.running = FALSE]
        /\ excused' = IF moved /\ ~enabled THEN excused \cup {"moved and left"} ELSE excused
        /\ UNCHANGED <<data, input>>
    BY DEF EndBatch
  <1>2. /\ input.cursor \in Int /\ input.n_cursor_devices \in Int /\ batch.cursor \in Int
        /\ batch.enabled \in BOOLEAN /\ shown.enabled \in BOOLEAN /\ shown.cursor \in Int
    BY DEF InputInv, InputTypeOK, Inputs
  <1>3. b \in BOOLEAN /\ c \in Int
    <2>1. c \in Int BY <1>2
    <2>2. enabled \in BOOLEAN OBVIOUS
    <2> HIDE DEF enabled, moved, c
    <2>3. b \in BOOLEAN BY <1>2, <2>2
    <2> QED BY <2>1, <2>3
  <1>4. (shown.enabled <=> batch.enabled) => (b <=> enabled)
    <2>1. enabled \in BOOLEAN OBVIOUS
    <2> HIDE DEF enabled, moved
    <2> QED BY <1>2, <2>1
  <1>5. shown.cursor = batch.cursor => c = input.cursor \/ (moved /\ ~enabled) BY <1>2
  <1> HIDE DEF b, c
  <1>6. shown' \in [enabled : BOOLEAN, cursor : Int] /\ shown'.enabled = b /\ shown'.cursor = c
    BY <1>1, <1>3
  <1>7. batch' \in [running : BOOLEAN, enabled : BOOLEAN, cursor : Int] /\ ~batch'.running
    BY <1>1 DEF InputInv, InputTypeOK
  <1>8. InputTypeOK' BY <1>1, <1>6, <1>7 DEF InputInv, InputTypeOK
  <1>9. SpeakersOK' BY <1>1 DEF InputInv, SpeakersOK, Speakers
  <1>10. CompositorTold'
    <2> SUFFICES ASSUME "failed" \notin excused', ~input'.destroyed
                 PROVE (Told(input.n_cursor_devices > 0, input.cursor))'
      BY <1>7 DEF CompositorTold
    <2>1. Told(batch.enabled, batch.cursor) BY <1>1 DEF InputInv, CompositorTold
    <2>2. shown'.enabled <=> enabled BY <1>4, <1>6, <2>1 DEF Told
    <2>3. "moved and left" \notin excused' => shown'.cursor = input.cursor
      BY <1>1, <1>5, <1>6, <2>1 DEF Told
    <2> QED BY <1>1, <2>2, <2>3 DEF Told
  <1> QED BY <1>8, <1>9, <1>10 DEF InputInv

(* Suspending and resuming changes no device.                              *)
LEMMA SessionStep == ASSUME InputInv, Suspend \/ Resume PROVE InputInv'
  <1>1. PICK b \in BOOLEAN : input' = [input EXCEPT !.suspended = b] BY DEF Suspend, Resume
  <1>2. UNCHANGED <<data, batch, shown, excused>> BY DEF Suspend, Resume
  <1>3. input' \in Inputs /\ input'.n_cursor_devices = input.n_cursor_devices
        /\ input'.cursor = input.cursor /\ input'.destroyed = input.destroyed
    BY <1>1 DEF InputInv, InputTypeOK, Inputs
  <1>4. InputTypeOK' BY <1>2, <1>3 DEF InputInv, InputTypeOK
  <1>5. SpeakersOK' BY <1>2, <1>3 DEF InputInv, SpeakersOK, Speakers
  <1>6. CompositorTold' BY <1>2, <1>3 DEF InputInv, CompositorTold, Told
  <1> QED BY <1>4, <1>5, <1>6 DEF InputInv

(* At the end every device leaves at once, and nobody is told.             *)
LEMMA UserInputDestroyStep == ASSUME InputInv, UserInputDestroy PROVE InputInv'
  <1> DEFINE gone == {d \in Devices : libinput[d].present}
             leaving == {d \in gone : data[d].emitted}
             n == input.n_cursor_devices - Cardinality(leaving)
  <1>1. /\ data' = [d \in Devices |-> IF d \in gone THEN NoData ELSE data[d]]
        /\ input' = [input EXCEPT !.destroyed = TRUE, !.n_cursor_devices =
               @ - Cardinality(leaving)]
        /\ UNCHANGED <<batch, shown>>
    BY DEF UserInputDestroy
  <1>2. input \in Inputs /\ data \in [Devices -> Datas] BY DEF InputInv, InputTypeOK
  <1>3. NoData \in Datas /\ NoData.emitted = FALSE BY DEF NoData, Datas, NoScroll, Scrolls
  <1>4. data' \in [Devices -> Datas] BY <1>1, <1>2, <1>3
  <1>5. IsFiniteSet(Speakers) /\ input.n_cursor_devices = Cardinality(Speakers)
    BY DEF InputInv, SpeakersOK
  <1>6. Speakers' = Speakers \ leaving BY <1>1, <1>3 DEF Speakers
  <1>7. leaving = Speakers \cap leaving BY DEF Speakers
  <1> HIDE DEF gone, leaving
  <1>8. IsFiniteSet(Speakers') /\ Cardinality(Speakers') = n
    BY <1>5, <1>6, <1>7, FS_Difference
  <1>9. n \in Int BY <1>8, FS_CardinalityType
  <1>10. input' = [input EXCEPT !.destroyed = TRUE, !.n_cursor_devices = n] BY <1>1, <1>2 DEF Inputs
  <1> HIDE DEF n
  <1>11. input' \in Inputs /\ input'.n_cursor_devices = n /\ input'.destroyed
    BY <1>2, <1>9, <1>10 DEF Inputs
  <1>12. \A d \in Speakers' : "pointer" \in Capabilities[d] /\ data'[d].state = "live"
    <2> TAKE d \in Speakers'
    <2>1. d \in Speakers /\ d \in Devices BY <1>6 DEF Speakers
    <2>2. d \notin gone BY <1>1, <1>3, <2>1 DEF Speakers
    <2> QED BY <1>1, <2>1, <2>2 DEF InputInv, SpeakersOK
  <1>13. SpeakersOK' BY <1>8, <1>11, <1>12 DEF SpeakersOK
  <1>14. InputTypeOK' BY <1>1, <1>4, <1>11 DEF InputInv, InputTypeOK
  <1>15. CompositorTold' BY <1>11 DEF CompositorTold
  <1> QED BY <1>13, <1>14, <1>15 DEF InputInv

(* Every step of the input keeps the invariant.                            *)
LEMMA InputStep == InputInv /\ [InputNext]_inputVars => InputInv'
  <1> SUFFICES ASSUME InputInv, [InputNext]_inputVars PROVE InputInv' OBVIOUS
  <1>1. CASE UNCHANGED inputVars
    BY <1>1 DEF inputVars, InputInv, InputTypeOK, SpeakersOK, Speakers, CompositorTold, Told
  <1>2. ASSUME NEW d \in Devices, OnDeviceAdded(d) \/ OnDeviceRemoved(d) PROVE InputInv'
    BY <1>2, OnDeviceAddedStep, OnDeviceRemovedStep
  <1>3. ASSUME NEW d \in Devices,
               \/ \E delta \in {-1, 1} : OnMouseMotion(d, delta)
               \/ \E pos \in 0..(DisplayWidth - 1) : OnMouseMotionAbsolute(d, pos)
               \/ \E b \in Buttons \cup {"other"}, p \in BOOLEAN : OnMouseButton(d, b, p)
               \/ \E f \in BOOLEAN, dx \in Axis, dy \in Axis : OnMouseAxis(d, f, dx, dy)
        PROVE InputInv'
    BY <1>3, OnMouseMotionStep, OnMouseMotionAbsoluteStep, OnMouseButtonStep, OnMouseAxisStep
  <1>4. ASSUME NEW d \in Devices, \E down \in BOOLEAN : OnTabletToolTip(d, down) PROVE InputInv'
    BY <1>4, OnTabletToolTipStep
  <1>5. CASE BeginBatch \/ EndBatch \/ Suspend \/ Resume \/ UserInputDestroy
    BY <1>5, BeginBatchStep, EndBatchStep, SessionStep, UserInputDestroyStep
  <1> QED BY <1>1, <1>2, <1>3, <1>4, <1>5, TouchOrTablet DEF InputNext

(* The mice that spoke are counted, and the compositor was told of the     *)
(* cursor as it was when the batch began: the inductive invariant of the   *)
(* input, for any devices.                                                 *)
THEOREM InputCorrect == InputSpec => []InputInv
BY InputInitial, InputStep, PTL DEF InputSpec

(* However devices come, speak, fail and leave within and between batches, *)
(* the cursor is shown exactly while a mouse that spoke is there, where    *)
(* the input believes it to be (user_input_on_fd_ready,                    *)
(* on_device_removed, maybe_enable_mouse_cursor, user_input_destroy).      *)
THEOREM CursorFollows == InputSpec => []CursorInStep
BY InputTheEnd, InputCorrect, PTL
-----------------------------------------------------------------------------
Accepting == INSTANCE FoldTheorems WITH Op <- Accept
Emitting == INSTANCE FoldTheorems WITH Op <- EmitPointerEvent

(* What Flutter may know of a pointer, the events it gets, and what it     *)
(* will know once it has what was collected.                               *)
PointerStates == {"absent", "up", "down", "pan", "breach"}
PhaseNames == {"add", "remove", "start", "update", "end", "down", "up", "hover", "move"}
Events == [id : Ids, phase : PhaseNames]
Knowledge == [Ids -> PointerStates]
Outs == [buffer : Seq(Events), flutter : Knowledge]
Known(o) == FoldLeft(Accept, o.flutter, o.buffer)

(* What becomes of one pointer, event by event.                            *)
After(was, ph) ==
    IF was = "breach" THEN was
    ELSE CASE ph = "add" -> IF was = "absent" THEN "up" ELSE "breach"
           [] ph = "remove" -> IF was \in {"up", "down"} THEN "absent" ELSE "breach"
           [] ph = "start" -> IF was = "up" THEN "pan" ELSE "breach"
           [] ph = "update" -> IF was = "pan" THEN "pan" ELSE "breach"
           [] ph = "end" -> IF was = "pan" THEN "up" ELSE "breach"
           [] ph \in {"down", "up"} -> IF was \in {"up", "down"} THEN ph ELSE "breach"
           [] ph \in {"hover", "move"} -> IF was \in {"up", "down"} THEN was ELSE "breach"

Acting == INSTANCE FoldTheorems WITH Op <- After
Track(k, es) == FoldLeft(Accept, k, es)
Path(was, phases) == FoldLeft(After, was, phases)

(* The folds of the model are the folds of FoldTheorems.                   *)
LEMMA TrackIs == \A k, es : Track(k, es) = Accepting!Fold(k, es)
  BY DEF Track, Accepting!Fold, FoldLeft, Accepting!FoldLeft, MapThenFoldSet,
     Accepting!MapThenFoldSet, Max, Accepting!Max
LEMMA EmitIs == \A o, es : EmitPointerEvents(o, es) = Emitting!Fold(o, es)
  BY DEF EmitPointerEvents, Emitting!Fold, FoldLeft, Emitting!FoldLeft, MapThenFoldSet,
     Emitting!MapThenFoldSet, Max, Emitting!Max
LEMMA PathIs == \A was, phases : Path(was, phases) = Acting!Fold(was, phases)
  BY DEF Path, Acting!Fold, FoldLeft, Acting!FoldLeft, MapThenFoldSet,
     Acting!MapThenFoldSet, Max, Acting!Max

(* A pointer stays in one of its states.                                   *)
LEMMA AfterType == \A was \in PointerStates, ph \in PhaseNames : After(was, ph) \in PointerStates
  BY DEF After, PointerStates, PhaseNames

(* An event changes what Flutter knows of its own pointer, and of no       *)
(* other.                                                                  *)
LEMMA AcceptIs ==
  ASSUME NEW k \in Knowledge, NEW e \in Events
  PROVE  /\ Accept(k, e) \in Knowledge
         /\ Accept(k, e)[e.id] = After(k[e.id], e.phase)
         /\ \A id \in Ids : id # e.id => Accept(k, e)[id] = k[id]
  <1>1. e.id \in Ids /\ e.phase \in PhaseNames BY DEF Events
  <1>2. k[e.id] \in PointerStates BY <1>1 DEF Knowledge
  <1>3. Accept(k, e) = [k EXCEPT ![e.id] = After(k[e.id], e.phase)] BY DEF Accept, After
  <1>4. After(k[e.id], e.phase) \in PointerStates BY <1>1, <1>2, AfterType
  <1> QED BY <1>1, <1>3, <1>4 DEF Knowledge

(* Following events one by one.                                            *)
LEMMA TrackType == \A k \in Knowledge, es \in Seq(Events) : Track(k, es) \in Knowledge
  <1> TAKE k \in Knowledge, es \in Seq(Events)
  <1>1. \A x \in Knowledge, e \in Events : Accept(x, e) \in Knowledge BY AcceptIs
  <1>2. Accepting!Fold(k, es) \in Knowledge BY <1>1, Accepting!FoldType
  <1> QED BY <1>2, TrackIs

(* What Flutter knows after no event, one, one more, and two lists of      *)
(* them.                                                                   *)
LEMMA TrackEmpty == \A k : Track(k, <<>>) = k BY TrackIs, Accepting!FoldEmpty
LEMMA TrackOne == \A k, e : Track(k, <<e>>) = Accept(k, e) BY TrackIs, Accepting!FoldOne
LEMMA TrackAppend ==
  \A k : \A es \in Seq(Events), e \in Events : Track(k, Append(es, e)) = Accept(Track(k, es), e)
  BY TrackIs, Accepting!FoldAppend
LEMMA TrackConcat ==
  \A k : \A es \in Seq(Events), fs \in Seq(Events) : Track(k, es \o fs) = Track(Track(k, es), fs)
  BY TrackIs, Accepting!FoldConcat

(* What Flutter will know: what it knows now and what is collected for it. *)
LEMMA KnownIs ==
  ASSUME NEW o \in Outs
  PROVE  Known(o) = Track(o.flutter, o.buffer) /\ Known(o) \in Knowledge
  BY TrackType DEF Known, Track, Outs

(* Where the buffer is cut makes no difference.                            *)
LEMMA EmitOne ==
  ASSUME NEW o \in Outs, NEW e \in Events
  PROVE  EmitPointerEvent(o, e) \in Outs /\ Known(EmitPointerEvent(o, e)) = Accept(Known(o), e)
  <1> DEFINE room == IF Len(o.buffer) = MaxCollected THEN FlushPointerEvents(o) ELSE o
             more == Append(room.buffer, e)
             p == [room EXCEPT !.buffer = more]
  <1>1. EmitPointerEvent(o, e) = p BY DEF EmitPointerEvent
  <1>2. room \in Outs /\ Known(room) = Known(o)
    <2>1. CASE Len(o.buffer) = MaxCollected
      <3>1. room = [buffer |-> <<>>, flutter |-> Known(o)] BY <2>1 DEF FlushPointerEvents, Known
      <3>2. Known(o) \in Knowledge BY KnownIs
      <3>3. <<>> \in Seq(Events) OBVIOUS
      <3>4. room \in Outs
        <4> HIDE DEF room
        <4> QED BY <3>1, <3>2, <3>3 DEF Outs
      <3>5. Known(room) = Track(Known(o), <<>>) BY <3>1 DEF Known, Track
      <3> QED BY <3>5, <3>4, TrackEmpty
    <2>2. CASE Len(o.buffer) # MaxCollected BY <2>2
    <2> QED BY <2>1, <2>2
  <1> HIDE DEF room
  <1>3. room.buffer \in Seq(Events) /\ room.flutter \in Knowledge BY <1>2 DEF Outs
  <1>4. more \in Seq(Events) BY <1>3
  <1> HIDE DEF more
  <1>5. p \in Outs /\ p.buffer = more /\ p.flutter = room.flutter BY <1>2, <1>4 DEF Outs
  <1>6. Known(p) = Track(room.flutter, more) BY <1>5 DEF Known, Track
  <1>7. Track(room.flutter, more) = Accept(Track(room.flutter, room.buffer), e)
    BY <1>3, TrackAppend DEF more
  <1>8. Known(room) = Track(room.flutter, room.buffer) BY <1>2, KnownIs
  <1> QED BY <1>1, <1>2, <1>5, <1>6, <1>7, <1>8

(* Emitting events, flushed in between or not, adds them to what Flutter   *)
(* will know.                                                              *)
LEMMA EmitMany ==
  ASSUME NEW o \in Outs, NEW es \in Seq(Events)
  PROVE  EmitPointerEvents(o, es) \in Outs /\ Known(EmitPointerEvents(o, es)) = Track(Known(o), es)
  <1> DEFINE S == {s \in Seq(Events) : /\ EmitPointerEvents(o, s) \in Outs
                                       /\ Known(EmitPointerEvents(o, s)) = Track(Known(o), s)}
  <1>1. <<>> \in S
    <2>1. EmitPointerEvents(o, <<>>) = o BY EmitIs, Emitting!FoldEmpty
    <2>2. Track(Known(o), <<>>) = Known(o) BY TrackEmpty
    <2>3. <<>> \in Seq(Events) OBVIOUS
    <2> QED BY <2>1, <2>2, <2>3
  <1>2. ASSUME NEW s \in Seq(Events), NEW e \in Events, s \in S PROVE Append(s, e) \in S
    <2>1. EmitPointerEvents(o, Append(s, e)) = EmitPointerEvent(EmitPointerEvents(o, s), e)
      <3>1. Emitting!Fold(o, Append(s, e)) = EmitPointerEvent(Emitting!Fold(o, s), e)
        BY Emitting!FoldAppend
      <3> QED BY <3>1, EmitIs
    <2>2. Track(Known(o), Append(s, e)) = Accept(Track(Known(o), s), e) BY TrackAppend
    <2>3. EmitPointerEvents(o, s) \in Outs /\ Known(EmitPointerEvents(o, s)) = Track(Known(o), s)
      BY <1>2
    <2>4. EmitPointerEvent(EmitPointerEvents(o, s), e) \in Outs
          /\ Known(EmitPointerEvent(EmitPointerEvents(o, s), e))
                 = Accept(Known(EmitPointerEvents(o, s)), e)
      BY <2>3, EmitOne
    <2>5. Append(s, e) \in Seq(Events) BY AppendProperties
    <2> QED BY <2>1, <2>2, <2>3, <2>4, <2>5
  <1> HIDE DEF S
  <1>3. es \in S BY <1>1, <1>2, Accepting!SeqInduction
  <1> QED BY <1>3 DEF S

(* Flushing hands over what was collected and adds nothing.                *)
LEMMA FlushIs ==
  ASSUME NEW o \in Outs
  PROVE  FlushPointerEvents(o) \in Outs /\ Known(FlushPointerEvents(o)) = Known(o)
         /\ FlushPointerEvents(o).flutter = Known(o)
  <1>1. FlushPointerEvents(o) = [buffer |-> <<>>, flutter |-> Known(o)]
    BY DEF FlushPointerEvents, Known
  <1>2. Known(o) \in Knowledge BY KnownIs
  <1>3. FlushPointerEvents(o) \in Outs BY <1>1, <1>2 DEF Outs
  <1>4. Known(FlushPointerEvents(o)) = Track(Known(o), <<>>) BY <1>1 DEF Known, Track
  <1> QED BY <1>1, <1>3, <1>4, TrackEmpty

(* A device id that no event names is left as it is.                       *)
LEMMA Untouched ==
  ASSUME NEW k \in Knowledge, NEW id \in Ids, NEW es \in Seq(Events),
         \A i \in 1 .. Len(es) : es[i].id # id
  PROVE  Track(k, es)[id] = k[id]
  <1> DEFINE S == {s \in Seq(Events) : (\A i \in 1 .. Len(s) : s[i].id # id) => Track(k, s)[id]
                 = k[id]}
  <1>1. <<>> \in S BY TrackEmpty
  <1>2. ASSUME NEW s \in Seq(Events), NEW e \in Events, s \in S PROVE Append(s, e) \in S
    <2> DEFINE t == Append(s, e)
    <2>1. /\ t \in Seq(Events) /\ Len(t) = Len(s) + 1 /\ t[Len(s) + 1] = e
          /\ \A i \in 1 .. Len(s) : t[i] = s[i]
      BY AppendProperties
    <2>2. Track(k, t) = Accept(Track(k, s), e) BY TrackAppend
    <2>3. Len(s) \in Nat BY LenProperties
    <2> HIDE DEF t
    <2>4. SUFFICES ASSUME \A i \in 1 .. Len(t) : t[i].id # id PROVE Track(k, t)[id] = k[id]
      BY <2>1 DEF t
    <2>5. e.id # id BY <2>1, <2>3, <2>4
    <2>6. \A i \in 1 .. Len(s) : s[i].id # id
      <3> TAKE i \in 1 .. Len(s)
      <3>1. i \in 1 .. Len(t) BY <2>1, <2>3
      <3> QED BY <2>1, <2>4, <3>1
    <2>7. Track(k, s)[id] = k[id] BY <1>2, <2>6
    <2>8. Track(k, s) \in Knowledge BY TrackType
    <2> QED BY <2>2, <2>5, <2>7, <2>8, AcceptIs
  <1> HIDE DEF S
  <1>3. es \in S BY <1>1, <1>2, Accepting!SeqInduction
  <1> QED BY <1>3 DEF S

(* A device id that one event names follows that event.                    *)
LEMMA Once ==
  ASSUME NEW k \in Knowledge, NEW id \in Ids, NEW es \in Seq(Events), NEW j \in 1 .. Len(es),
         es[j].id = id, \A i \in 1 .. Len(es) : i # j => es[i].id # id
  PROVE  Track(k, es)[id] = After(k[id], es[j].phase)
  <1> DEFINE Only(s, n) == n \in 1 .. Len(s) /\ s[n].id = id
                 /\ \A i \in 1 .. Len(s) : i # n => s[i].id # id
             S == {s \in Seq(Events) : \A n \in Nat : Only(s, n) => Track(k, s)[id]
                 = After(k[id], s[n].phase)}
  <1>1. <<>> \in S OBVIOUS
  <1>2. ASSUME NEW s \in Seq(Events), NEW e \in Events, s \in S PROVE Append(s, e) \in S
    <2> DEFINE t == Append(s, e)
    <2>1. /\ t \in Seq(Events) /\ Len(t) = Len(s) + 1 /\ t[Len(s) + 1] = e
          /\ \A i \in 1 .. Len(s) : t[i] = s[i]
      BY AppendProperties
    <2>2. Track(k, t) = Accept(Track(k, s), e) BY TrackAppend
    <2>3. Len(s) \in Nat BY LenProperties
    <2> HIDE DEF t
    <2>4. SUFFICES ASSUME NEW n \in Nat, Only(t, n) PROVE Track(k, t)[id] = After(k[id], t[n].phase)
      BY <2>1 DEF t
    <2>5. Track(k, s) \in Knowledge BY TrackType
    <2>6. CASE n = Len(s) + 1
      <3>1. \A i \in 1 .. Len(s) : s[i].id # id
        <4> TAKE i \in 1 .. Len(s)
        <4>1. i \in 1 .. Len(t) /\ i # n BY <2>1, <2>3, <2>6
        <4> QED BY <2>1, <2>4, <4>1
      <3>2. Track(k, s)[id] = k[id] BY <3>1, Untouched
      <3>3. e.id = id /\ t[n] = e BY <2>1, <2>4, <2>6
      <3>4. Accept(Track(k, s), e)[e.id] = After(Track(k, s)[e.id], e.phase) BY <2>5, AcceptIs
      <3> QED BY <2>2, <3>2, <3>3, <3>4
    <2>7. CASE n # Len(s) + 1
      <3>1. n \in 1 .. Len(s) BY <2>1, <2>3, <2>4, <2>7
      <3>2. Only(s, n)
        <4>1. s[n].id = id BY <2>1, <2>4, <3>1
        <4>2. ASSUME NEW i \in 1 .. Len(s), i # n PROVE s[i].id # id
          <5>1. i \in 1 .. Len(t) BY <2>1, <2>3
          <5> QED BY <2>1, <2>4, <4>2, <5>1
        <4> QED BY <3>1, <4>1, <4>2
      <3>3. Len(s) + 1 \in 1 .. Len(t) BY <2>1, <2>3
      <3>4. e.id # id BY <2>1, <2>4, <2>7, <3>3
      <3>5. Track(k, s)[id] = After(k[id], s[n].phase) BY <1>2, <3>2
      <3>6. Accept(Track(k, s), e)[id] = Track(k, s)[id] BY <2>5, <3>4, AcceptIs
      <3> QED BY <2>1, <2>2, <3>1, <3>5, <3>6
    <2> QED BY <2>6, <2>7
  <1>3. j \in Nat /\ Only(es, j)
    <2>1. Len(es) \in Nat BY LenProperties
    <2> QED BY <2>1
  <1> HIDE DEF S, Only
  <1>4. es \in S BY <1>1, <1>2, Accepting!SeqInduction
  <1> QED BY <1>3, <1>4 DEF S

(* The ids of a device, and the devices that have some.                    *)
ScrollIds(d) == IF "pointer" \in Capabilities[d] THEN {data[d].scroll.device_id} ELSE {}
TouchIds(d) ==
    IF "touch" \in Capabilities[d]
    THEN data[d].touch_id .. data[d].touch_id + TouchCount[d] - 1 ELSE {}
StylusIds(d) == IF "tablet" \in Capabilities[d] THEN {data[d].stylus_id} ELSE {}
Owned(d) == ScrollIds(d) \cup TouchIds(d) \cup StylusIds(d)
Alive == {d \in Devices : data[d].state = "live"}

(* No id is used twice.                                                    *)
IdsOK ==
    /\ input.next_id \in 0 .. MaxIds /\ input.cursor_id \in -1 .. input.next_id - 1
    /\ \A d \in Alive :
          /\ Owned(d) \subseteq 0 .. input.next_id - 1 /\ input.cursor_id \notin Owned(d)
          /\ ScrollIds(d) \cap TouchIds(d) = {} /\ ScrollIds(d) \cap StylusIds(d) = {}
          /\ TouchIds(d) \cap StylusIds(d) = {}
    /\ \A d, e \in Alive : d # e => Owned(d) \cap Owned(e) = {}

(* What libinput reports and what the input keeps of it.                   *)
Libinputs ==
    [exists : BOOLEAN, present : BOOLEAN, touched : SUBSET Int,
     buttons : SUBSET (Buttons \cup {"other"}), tip : BOOLEAN, keys : SUBSET Keys]
LibinputOK ==
    /\ libinput \in [Devices -> Libinputs]
    /\ IsFiniteSet({d \in Devices : libinput[d].present})
    /\ \A d \in Devices :
          /\ libinput[d].present <=> data[d].state # "null"
          /\ data[d].state # "live" => Released(d) /\ data[d].buttons = {} /\ ~data[d].keyboard
          /\ data[d].buttons = libinput[d].buttons \cap Buttons
          /\ data[d].tip = libinput[d].tip
          /\ data[d].buttons # {} => data[d].emitted
          /\ data[d].scroll.active => data[d].scroll.added

(* What Flutter knows of the pointers of a device,                         *)
ScrollState(scroll) == IF scroll.active THEN "pan" ELSE IF scroll.added THEN "up" ELSE "absent"
ScrollKnown(k, d) == k[data[d].scroll.device_id] = ScrollState(data[d].scroll)
TouchKnown(k, d) ==
    \A s \in 0 .. TouchCount[d] - 1 :
        /\ k[data[d].touch_id + s] \in {"up", "down"}
        /\ s \in libinput[d].touched => k[data[d].touch_id + s] = "down"
        /\ s \notin libinput[d].touched => k[data[d].touch_id + s] = "up" \/ "cancelled" \in excused
StylusKnown(k, d) == k[data[d].stylus_id] = IF data[d].tip THEN "down" ELSE "up"
DeviceKnown(k, d) ==
    /\ "pointer" \in Capabilities[d] => ScrollKnown(k, d)
    /\ "touch" \in Capabilities[d] => TouchKnown(k, d)
    /\ "tablet" \in Capabilities[d] => StylusKnown(k, d)

(* of the cursor, which is down while a mouse button is,                   *)
Pressing == {d \in Devices : data[d].buttons # {}}
CursorKnown(k) ==
    /\ input.cursor_id = -1 => Speakers = {}
    /\ input.cursor_id # -1 => k[input.cursor_id] \in
          IF Speakers = {} THEN {"absent"} ELSE {"up", "down"}
    /\ input.cursor_id # -1 /\ k[input.cursor_id] = "down" => Pressing # {}
    /\ "two mice" \notin excused =>
          /\ Pressing # {} => k[input.cursor_id] = "down"
          /\ \A d, e \in Pressing : d = e

(* and of the keys. Ids not given yet are unknown to it.                   *)
KeysKnown ==
    /\ \A key \in keysDown : \E d \in Devices : data[d].keyboard /\ key \in libinput[d].keys
    /\ "two keyboards" \notin excused =>
          /\ \A d \in Devices : data[d].keyboard => libinput[d].keys \subseteq keysDown
          /\ \A d, e \in Devices : d # e => libinput[d].keys \cap libinput[e].keys = {}
Unused(k) == \A id \in Ids : id >= input.next_id => k[id] = "absent"
NoBreach(k) == \A id \in Ids : k[id] # "breach"

(* All of it, and nothing was ever out of place. It is lost once an event  *)
(* of a freed device was handled.                                          *)
Followed(k) ==
    /\ NoBreach(k)
    /\ ~input.destroyed =>
          /\ LibinputOK /\ IdsOK /\ CursorKnown(k) /\ KeysKnown /\ Unused(k)
          /\ \A d \in Alive : DeviceKnown(k, d)

Following == out \in Outs /\ Followed(Known(out))
PointersInv ==
    /\ input.destroyed => ~batch.running
    /\ "freed" \notin excused => Following

(* What a step may use: k is what Flutter will know.                       *)
Before(k) ==
    /\ InputInv /\ k \in Knowledge /\ out \in Outs /\ Known(out) = k
    /\ ~input.destroyed /\ Followed(k)

(* A step is shown by what Flutter will know after it.                     *)
LEMMA FollowingFrom ==
  ASSUME NEW k1, k1 = Known(out'), out' \in Outs, (Followed(k1))'
  PROVE  Following'
  BY DEF Following, Followed, NoBreach, CursorKnown, Unused, DeviceKnown, ScrollKnown, TouchKnown,
         StylusKnown

(* The parts of the invariant before a step.                               *)
LEMMA BeforeIs ==
  ASSUME NEW k, Before(k)
  PROVE  /\ input \in Inputs /\ data \in [Devices -> Datas] /\ libinput \in [Devices -> Libinputs]
         /\ \A d \in Devices : data[d] \in Datas /\ data[d].scroll \in Scrolls
                /\ libinput[d] \in Libinputs
         /\ LibinputOK /\ IdsOK /\ CursorKnown(k) /\ KeysKnown /\ Unused(k) /\ NoBreach(k)
         /\ \A d \in Alive : DeviceKnown(k, d)
         /\ k \in Knowledge /\ out \in Outs /\ Known(out) = k
         /\ input.next_id \in Int /\ input.cursor_id \in Int
  <1>1. input \in Inputs /\ data \in [Devices -> Datas] BY DEF Before, InputInv, InputTypeOK
  <1>2. LibinputOK /\ IdsOK /\ CursorKnown(k) /\ KeysKnown /\ Unused(k) /\ NoBreach(k)
         /\ \A d \in Alive : DeviceKnown(k, d)
    BY DEF Before, Followed
  <1>3. libinput \in [Devices -> Libinputs] BY <1>2 DEF LibinputOK
  <1>4. \A d \in Devices : data[d] \in Datas /\ libinput[d] \in Libinputs BY <1>1, <1>3
  <1>5. \A d \in Devices : data[d].scroll \in Scrolls BY <1>4 DEF Datas
  <1>6. k \in Knowledge /\ out \in Outs /\ Known(out) = k BY DEF Before
  <1>7. input.next_id \in Int /\ input.cursor_id \in Int BY <1>1 DEF Inputs
  <1> QED BY <1>1, <1>2, <1>3, <1>4, <1>5, <1>6, <1>7

(* Every device has a number of touch slots.                               *)
LEMMA SlotsIs == \A d \in Devices : TouchCount[d] \in Nat
  BY InputConstants

(* A device whose state and ids are left alone stays known.                *)
LEMMA DeviceKept ==
  ASSUME NEW k, NEW k1, NEW d \in Devices, Before(k), DeviceKnown(k, d),
         data'[d].scroll = data[d].scroll, data'[d].touch_id = data[d].touch_id,
         data'[d].stylus_id = data[d].stylus_id, data'[d].tip = data[d].tip,
         libinput'[d].touched = libinput[d].touched, excused \subseteq excused',
         \A id \in Owned(d) : k1[id] = k[id]
  PROVE  (DeviceKnown(k1, d))'
  <1>1. data[d] \in Datas BY BeforeIs
  <1>2. data[d].touch_id \in Int /\ TouchCount[d] \in Nat BY <1>1, SlotsIs DEF Datas
  <1>3. ASSUME "pointer" \in Capabilities[d] PROVE (ScrollKnown(k1, d))'
    <2>1. data[d].scroll.device_id \in Owned(d) BY <1>3 DEF Owned, ScrollIds
    <2>2. ScrollKnown(k, d) BY <1>3 DEF DeviceKnown
    <2> QED BY <2>1, <2>2 DEF ScrollKnown
  <1>4. ASSUME "touch" \in Capabilities[d] PROVE (TouchKnown(k1, d))'
    <2>1. \A s \in 0 .. TouchCount[d] - 1 : data[d].touch_id + s \in Owned(d)
      BY <1>2, <1>4 DEF Owned, TouchIds
    <2>2. TouchKnown(k, d) BY <1>4 DEF DeviceKnown
    <2> QED BY <2>1, <2>2 DEF TouchKnown
  <1>5. ASSUME "tablet" \in Capabilities[d] PROVE (StylusKnown(k1, d))'
    <2>1. data[d].stylus_id \in Owned(d) BY <1>5 DEF Owned, StylusIds
    <2>2. StylusKnown(k, d) BY <1>5 DEF DeviceKnown
    <2> QED BY <2>1, <2>2 DEF StylusKnown
  <1> QED BY <1>3, <1>4, <1>5 DEF DeviceKnown

(* Ids stay apart when at most the cursor is given one.                    *)
LEMMA IdsKept ==
  ASSUME NEW k, Before(k), 
         \A d \in Devices :
            /\ data'[d].state = "live" <=> data[d].state = "live"
            /\ data'[d].scroll.device_id = data[d].scroll.device_id
            /\ data'[d].touch_id = data[d].touch_id /\ data'[d].stylus_id = data[d].stylus_id,
         \/ input'.next_id = input.next_id /\ input'.cursor_id = input.cursor_id
         \/ /\ input.cursor_id = -1 /\ input'.cursor_id = input.next_id
            /\ input'.next_id = input.next_id + 1 /\ input.next_id + 1 <= MaxIds
  PROVE  IdsOK'
  <1>1. Alive' = Alive /\ Alive \subseteq Devices BY DEF Alive
  <1>2. \A d \in Devices : ScrollIds(d)' = ScrollIds(d) /\ TouchIds(d)' = TouchIds(d)
                           /\ StylusIds(d)' = StylusIds(d)
    BY DEF ScrollIds, TouchIds, StylusIds
  <1>3. \A d \in Devices : Owned(d)' = Owned(d) BY <1>2 DEF Owned
  <1>4. IdsOK BY BeforeIs
  <1>5. MaxIds \in Nat BY InputConstants
  <1>6. input.next_id \in 0 .. MaxIds /\ input.cursor_id \in -1 .. input.next_id - 1
    BY <1>4 DEF IdsOK
  <1>7. input'.next_id \in 0 .. MaxIds /\ input'.cursor_id \in -1 .. input'.next_id - 1
    BY <1>5, <1>6
  <1>8. ASSUME NEW d \in Alive
        PROVE Owned(d) \subseteq 0 .. input'.next_id - 1 /\ input'.cursor_id \notin Owned(d)
    <2>1. Owned(d) \subseteq 0 .. input.next_id - 1 /\ input.cursor_id \notin Owned(d)
      BY <1>4, <1>8 DEF IdsOK
    <2> HIDE DEF Owned
    <2> QED BY <1>6, <2>1
  <1>9. \A d \in Alive : ScrollIds(d) \cap TouchIds(d) = {} /\ ScrollIds(d) \cap StylusIds(d) = {}
          /\ TouchIds(d) \cap StylusIds(d) = {}
    BY <1>4 DEF IdsOK
  <1>10. \A d, e \in Alive : d # e => Owned(d) \cap Owned(e) = {} BY <1>4 DEF IdsOK
  <1> QED BY <1>1, <1>2, <1>3, <1>7, <1>8, <1>9, <1>10 DEF IdsOK

(* The cursor's pointer is known as long as no button changes.             *)
LEMMA CursorKept ==
  ASSUME NEW k, NEW k1, Before(k), input'.cursor_id = input.cursor_id,
         input.cursor_id # -1 => k1[input.cursor_id] = k[input.cursor_id],
         \A d \in Devices : data'[d].emitted = data[d].emitted
             /\ data'[d].buttons = data[d].buttons,
         excused \subseteq excused'
  PROVE  (CursorKnown(k1))'
  <1>1. Speakers' = Speakers BY DEF Speakers
  <1>2. Pressing' = Pressing BY DEF Pressing
  <1>3. Pressing \subseteq Speakers BY BeforeIs DEF Pressing, Speakers, LibinputOK
  <1>4. CursorKnown(k) BY BeforeIs
  <1>5. CASE input.cursor_id = -1
    <2>1. Pressing = {} BY <1>3, <1>5, <1>4 DEF CursorKnown
    <2> QED BY <1>1, <1>2, <1>5, <1>4, <2>1 DEF CursorKnown
  <1>6. CASE input.cursor_id # -1
    BY <1>1, <1>2, <1>6, <1>4 DEF CursorKnown
  <1> QED BY <1>5, <1>6

(* So are the keys, as long as none changes,                               *)
LEMMA KeysKept ==
  ASSUME KeysKnown, keysDown' = keysDown, excused \subseteq excused',
         \A d \in Devices : libinput'[d].keys = libinput[d].keys
             /\ data'[d].keyboard = data[d].keyboard
  PROVE  KeysKnown'
  BY DEF KeysKnown

(* and the ids not yet given, as long as none of them is spoken of.        *)
LEMMA UnusedKept ==
  ASSUME NEW k, NEW k1, Unused(k), input.next_id \in Int, input'.next_id \in Int, 
         input'.next_id >= input.next_id, \A id \in Ids : id >= input'.next_id => k1[id] = k[id]
  PROVE  (Unused(k1))'
  <1>1. Ids \subseteq Int BY DEF Ids
  <1>2. ASSUME NEW id \in Ids, id >= input'.next_id PROVE k1[id] = "absent"
    <2>1. id \in Int BY <1>1
    <2>2. id >= input.next_id BY <1>2, <2>1
    <2> QED BY <1>2, <2>2 DEF Unused
  <1> QED BY <1>2 DEF Unused

(* Nothing but the batch and the session changes.                          *)
LEMMA QuietFollowed ==
  ASSUME NEW k, Before(k), UNCHANGED <<libinput, data, keysDown>>, excused \subseteq excused',
         input'.next_id = input.next_id, input'.cursor_id = input.cursor_id
  PROVE  (Followed(k))'
  <1>1. \A d \in Devices : Released(d)' = Released(d) BY DEF Released
  <1>2. LibinputOK' BY <1>1, BeforeIs DEF LibinputOK
  <1>3. IdsOK' BY IdsKept
  <1>4. (CursorKnown(k))' BY CursorKept
  <1>5. KeysKnown' BY BeforeIs, KeysKept
  <1>6. (Unused(k))' BY BeforeIs, UnusedKept
  <1>7. \A d \in Alive' : d \in Alive /\ d \in Devices BY DEF Alive
  <1>8. \A d \in Alive' : (DeviceKnown(k, d))' BY <1>7, BeforeIs, DeviceKept
  <1>9. NoBreach(k) BY BeforeIs
  <1> QED BY <1>2, <1>3, <1>4, <1>5, <1>6, <1>8, <1>9 DEF Followed, NoBreach

(* The ends of a batch, suspending and resuming change none of it.         *)
LEMMA BatchPointers ==
  ASSUME NEW k, Before(k), BeginBatch \/ EndBatch \/ Suspend \/ Resume
  PROVE  Following'
  <1>1. UNCHANGED <<libinput, data, keysDown>> /\ excused \subseteq excused'
    BY DEF BeginBatch, EndBatch, Suspend, Resume
  <1>2. out' = out \/ out' = FlushPointerEvents(out) BY DEF BeginBatch, EndBatch, Suspend, Resume
  <1>3. input'.next_id = input.next_id /\ input'.cursor_id = input.cursor_id
    <2>1. input \in Inputs BY BeforeIs
    <2>2. input' = input \/ \E b \in BOOLEAN : input' = [input EXCEPT !.suspended = b]
      BY DEF BeginBatch, EndBatch, Suspend, Resume
    <2> QED BY <2>1, <2>2 DEF Inputs
  <1>4. (Followed(k))' BY <1>1, <1>3, QuietFollowed
  <1>5. out' \in Outs /\ k = Known(out') BY <1>2, BeforeIs, FlushIs
  <1> QED BY <1>4, <1>5, FollowingFrom

(* The events the input makes.                                             *)
LEMMA EventIs ==
  ASSUME NEW id \in Ids, NEW ph \in PhaseNames
  PROVE  Event(id, ph) \in Events /\ Event(id, ph).id = id /\ Event(id, ph).phase = ph
  BY DEF Event, Events

(* Emitting one event.                                                     *)
LEMMA OneEvent ==
  ASSUME NEW k \in Knowledge, NEW o \in Outs, k = Known(o), NEW id \in Ids, NEW ph \in PhaseNames
  PROVE  LET p == EmitPointerEvent(o, Event(id, ph))
         IN  /\ p \in Outs /\ Known(p) \in Knowledge
             /\ Known(p)[id] = After(k[id], ph)
             /\ \A j \in Ids : j # id => Known(p)[j] = k[j]
  <1> DEFINE e == Event(id, ph)
             p == EmitPointerEvent(o, e)
  <1>1. e \in Events /\ e.id = id /\ e.phase = ph BY EventIs
  <1> HIDE DEF e
  <1>2. p \in Outs /\ Known(p) = Accept(k, e) BY <1>1, EmitOne
  <1> QED BY <1>1, <1>2, AcceptIs DEF e

(* A device whose ids are its own.                                         *)
LEMMA AliveIs ==
  ASSUME NEW k, Before(k), NEW d \in Devices, data[d].state = "live"
  PROVE  /\ d \in Alive /\ DeviceKnown(k, d)
         /\ Owned(d) \subseteq Ids /\ input.cursor_id \notin Owned(d)
         /\ \A id \in Owned(d) : id < input.next_id
         /\ \A e \in Alive : e # d => Owned(e) \cap Owned(d) = {}
         /\ "pointer" \in Capabilities[d] => data[d].scroll.device_id \in Owned(d)
         /\ "touch" \in Capabilities[d] =>
                \A s \in 0 .. TouchCount[d] - 1 : data[d].touch_id + s \in Owned(d)
         /\ "tablet" \in Capabilities[d] => data[d].stylus_id \in Owned(d)
  <1>1. d \in Alive BY DEF Alive
  <1>2. IdsOK /\ DeviceKnown(k, d) BY <1>1, BeforeIs
  <1>3. Owned(d) \subseteq 0 .. input.next_id - 1 /\ input.cursor_id \notin Owned(d)
        /\ input.next_id \in 0 .. MaxIds
    BY <1>1, <1>2 DEF IdsOK
  <1>4. MaxIds \in Nat BY InputConstants
  <1>5. \A id \in Owned(d) : id \in Ids /\ id < input.next_id
    <2> HIDE DEF Owned
    <2> QED BY <1>3, <1>4 DEF Ids
  <1>6. \A e \in Alive : e # d => Owned(e) \cap Owned(d) = {} BY <1>1, <1>2 DEF IdsOK
  <1>7. "pointer" \in Capabilities[d] => data[d].scroll.device_id \in Owned(d)
    BY DEF Owned, ScrollIds
  <1>8. "tablet" \in Capabilities[d] => data[d].stylus_id \in Owned(d) BY DEF Owned, StylusIds
  <1>9. ASSUME "touch" \in Capabilities[d], NEW s \in 0 .. TouchCount[d] - 1
        PROVE data[d].touch_id + s \in Owned(d)
    <2>1. data[d] \in Datas BY BeforeIs
    <2>2. data[d].touch_id \in Int /\ TouchCount[d] \in Nat BY <2>1, SlotsIs DEF Datas
    <2> QED BY <1>9, <2>2 DEF Owned, TouchIds
  <1> QED BY <1>1, <1>2, <1>3, <1>5, <1>6, <1>7, <1>8, <1>9

(* What happens on the ids of one device, while the mice, the keys and the *)
(* ids stay.                                                               *)
LEMMA OnOwnIds ==
  ASSUME NEW k, Before(k), NEW k1 \in Knowledge, NEW d \in Devices, data[d].state = "live",
         \A id \in Ids : id \notin Owned(d) => k1[id] = k[id],
         \A id \in Owned(d) : k1[id] # "breach",
         input' = input, keysDown' = keysDown, excused \subseteq excused',
         \A e \in Devices : /\ data'[e].scroll = data[e].scroll
                            /\ data'[e].touch_id = data[e].touch_id
                            /\ data'[e].stylus_id = data[e].stylus_id
                            /\ data'[e].state = data[e].state
                            /\ data'[e].emitted = data[e].emitted
                            /\ data'[e].buttons = data[e].buttons
                            /\ data'[e].keyboard = data[e].keyboard
                            /\ libinput'[e].keys = libinput[e].keys,
         \A e \in Devices : e # d => libinput'[e].touched = libinput[e].touched
             /\ data'[e].tip = data[e].tip,
         LibinputOK', (DeviceKnown(k1, d))'
  PROVE  (Followed(k1))'
  <1>1. IdsOK' BY IdsKept
  <1>2. /\ d \in Alive /\ Owned(d) \subseteq Ids /\ input.cursor_id \notin Owned(d)
        /\ \A id \in Owned(d) : id < input.next_id
        /\ \A e \in Alive : e # d => Owned(e) \cap Owned(d) = {}
    BY AliveIs
  <1>3. input.cursor_id # -1 => k1[input.cursor_id] = k[input.cursor_id]
    <2>1. IdsOK /\ input.next_id \in Int BY BeforeIs
    <2>2. MaxIds \in Nat BY InputConstants
    <2>3. input.cursor_id # -1 => input.cursor_id \in Ids BY <2>1, <2>2 DEF IdsOK, Ids
    <2> QED BY <1>2, <2>3
  <1>4. (CursorKnown(k1))' BY <1>3, CursorKept
  <1>5. KeysKnown' BY BeforeIs, KeysKept
  <1>6. (Unused(k1))'
    <2>1. input.next_id \in Int BY BeforeIs
    <2>2. \A id \in Ids : id >= input.next_id => id \notin Owned(d)
      <3>1. SUFFICES ASSUME NEW id \in Ids, id >= input.next_id, id \in Owned(d) PROVE FALSE
        OBVIOUS
      <3>2. id < input.next_id BY <1>2, <3>1
      <3>3. id \in Int BY DEF Ids
      <3> QED BY <2>1, <3>1, <3>2, <3>3
    <2> QED BY <2>1, <2>2, BeforeIs, UnusedKept
  <1>7. NoBreach(k1) BY BeforeIs, <1>2 DEF NoBreach
  <1>8. ASSUME NEW e \in Alive' PROVE (DeviceKnown(k1, e))'
    <2>1. CASE e = d BY <2>1
    <2>2. CASE e # d
      <3>1. e \in Alive /\ e \in Devices /\ data[e].state = "live" BY DEF Alive
      <3>2. \A id \in Owned(e) : k1[id] = k[id] BY <1>2, <2>2, <3>1, AliveIs
      <3>3. DeviceKnown(k, e) BY <3>1, AliveIs
      <3> QED BY <2>2, <3>1, <3>2, <3>3, DeviceKept
    <2> QED BY <2>1, <2>2
  <1> QED BY <1>1, <1>4, <1>5, <1>6, <1>7, <1>8 DEF Followed, NoBreach

(* Something happens to a device that is there.                            *)
LEMMA LibinputKept ==
  ASSUME NEW k, Before(k), NEW d \in Devices, data[d].state = "live", data'[d].state = "live",
         libinput' \in [Devices -> Libinputs], libinput'[d].present = libinput[d].present,
         \A e \in Devices : e # d => libinput'[e] = libinput[e] /\ data'[e] = data[e],
         data'[d].buttons = libinput'[d].buttons \cap Buttons, data'[d].tip = libinput'[d].tip,
         data'[d].buttons # {} => data'[d].emitted, data'[d].scroll.active => data'[d].scroll.added
  PROVE  LibinputOK'
  <1>1. LibinputOK BY BeforeIs
  <1>2. {e \in Devices : libinput'[e].present} = {e \in Devices : libinput[e].present} OBVIOUS
  <1>3. IsFiniteSet({e \in Devices : libinput'[e].present}) BY <1>1, <1>2 DEF LibinputOK
  <1>4. ASSUME NEW e \in Devices
        PROVE  /\ libinput'[e].present <=> data'[e].state # "null"
               /\ data'[e].state # "live" => Released(e)' /\ data'[e].buttons = {}
                      /\ ~data'[e].keyboard
               /\ data'[e].buttons = libinput'[e].buttons \cap Buttons
               /\ data'[e].tip = libinput'[e].tip
               /\ data'[e].buttons # {} => data'[e].emitted
               /\ data'[e].scroll.active => data'[e].scroll.added
    <2>1. CASE e = d BY <1>1, <2>1 DEF LibinputOK
    <2>2. CASE e # d
      <3>1. libinput'[e] = libinput[e] /\ data'[e] = data[e] BY <2>2
      <3>2. Released(e)' = Released(e) BY <3>1 DEF Released
      <3> QED BY <1>1, <3>1, <3>2 DEF LibinputOK
    <2> QED BY <2>1, <2>2
  <1> QED BY <1>3, <1>4 DEF LibinputOK

(* The states of a slot or a stylus.                                       *)
LEMMA PressIs == \A was \in {"up", "down"} :
    /\ After(was, "down") = "down" /\ After(was, "up") = "up"
    /\ After(was, "move") = was /\ After(was, "hover") = was
    /\ After(was, "remove") = "absent"
  BY DEF After

(* The phases used below.                                                  *)
LEMMA PhasesAre == {"up", "down", "move", "hover", "add", "remove"} \subseteq PhaseNames
  BY DEF PhaseNames

(* A touch of a slot that libinput reports.                                *)
LEMMA TouchPointers ==
  ASSUME NEW k, Before(k), NEW d \in Devices, NEW slot \in 0..(TouchCount[d] - 1),
         OnTouchDown(d, slot) \/ OnTouchMotion(d, slot) \/ OnTouchUp(d, slot)
             \/ OnTouchCancel(d, slot)
  PROVE  Following'
  <1> DEFINE id == data[d].touch_id + slot
             L == libinput[d].touched
  <1>1. PICK ph \in {"down", "move", "up", "cancel"} :
          /\ data[d].state = "live" /\ "touch" \in Capabilities[d]
          /\ UNCHANGED <<data, input, keysDown>> /\ excused \subseteq excused'
          /\ ph = "cancel" => out' = out /\ "cancelled" \in excused'
          /\ ph # "cancel" => out' = EmitPointerEvent(out, Event(id, ph))
          /\ libinput' = IF ph = "move" THEN libinput
                         ELSE [libinput EXCEPT ![d].touched =
                                   IF ph = "down" THEN @ \cup {slot} ELSE @ \ {slot}]
          /\ ph = "move" => slot \in L
    <2>1. CASE OnTouchDown(d, slot) BY <2>1 DEF OnTouchDown, TouchEvent, Live, Quiet
    <2>2. CASE OnTouchMotion(d, slot) BY <2>2 DEF OnTouchMotion, TouchEvent, Live, Quiet
    <2>3. CASE OnTouchUp(d, slot) BY <2>3 DEF OnTouchUp, TouchEvent, Live, Quiet
    <2>4. CASE OnTouchCancel(d, slot) BY <2>4 DEF OnTouchCancel, Live, Quiet
    <2> QED BY <2>1, <2>2, <2>3, <2>4
  <1> DEFINE T == IF ph = "down" THEN L \cup {slot} ELSE IF ph = "move" THEN L ELSE L \ {slot}
  <1>2. data[d] \in Datas /\ libinput[d] \in Libinputs /\ libinput \in [Devices -> Libinputs]
    BY BeforeIs
  <1>3. data[d].touch_id \in Int /\ TouchCount[d] \in Nat /\ slot \in Int BY <1>2, SlotsIs DEF Datas
  <1>4. L \in SUBSET Int BY <1>2 DEF Libinputs
  <1>5. T \in SUBSET Int BY <1>3, <1>4
  <1>6. libinput' = [libinput EXCEPT ![d] = [libinput[d] EXCEPT !.touched = T]]
    <2>1. libinput[d] = [libinput[d] EXCEPT !.touched = libinput[d].touched] BY <1>2 DEF Libinputs
    <2> QED BY <1>1, <1>2, <2>1
  <1> DEFINE m == [libinput[d] EXCEPT !.touched = T]
  <1> HIDE DEF T
  <1>7. m \in Libinputs /\ m.touched = T /\ m.present = libinput[d].present
            /\ m.keys = libinput[d].keys
        /\ m.buttons = libinput[d].buttons /\ m.tip = libinput[d].tip
    BY <1>2, <1>5 DEF Libinputs
  <1> HIDE DEF m
  <1>8. libinput' \in [Devices -> Libinputs] /\ libinput'[d] = m
        /\ \A e \in Devices : e # d => libinput'[e] = libinput[e]
    BY <1>2, <1>6, <1>7 DEF m
  <1>9. LibinputOK'
    <2>1. LibinputOK BY BeforeIs
    <2>2. /\ data[d].buttons = libinput[d].buttons \cap Buttons /\ data[d].tip = libinput[d].tip
          /\ data[d].buttons # {} => data[d].emitted
          /\ data[d].scroll.active => data[d].scroll.added
      BY <2>1 DEF LibinputOK
    <2>3. \A e \in Devices : e # d => libinput'[e] = libinput[e] /\ data'[e] = data[e] BY <1>1, <1>8
    <2>4. /\ libinput'[d].present = libinput[d].present
          /\ libinput'[d].buttons = libinput[d].buttons /\ libinput'[d].tip = libinput[d].tip
      BY <1>7, <1>8
    <2>5. data[d].state = "live" /\ data' = data /\ libinput' \in [Devices -> Libinputs]
      BY <1>1, <1>8
    <2> HIDE DEF id, L
    <2> QED BY <2>2, <2>3, <2>4, <2>5, LibinputKept
  <1>10. /\ DeviceKnown(k, d) /\ Owned(d) \subseteq Ids /\ id \in Owned(d) BY <1>1, AliveIs
  <1>11. id \in Ids BY <1>10
  <1>12. TouchKnown(k, d) BY <1>1, <1>10 DEF DeviceKnown
  <1>13. k[id] \in {"up", "down"} /\ (slot \in L => k[id] = "down") BY <1>12 DEF TouchKnown
  <1>14. PICK k1 : k1 = Known(out') OBVIOUS
  <1>15. /\ out' \in Outs /\ k1 \in Knowledge
         /\ k1[id] = IF ph = "cancel" THEN k[id] ELSE After(k[id], ph)
         /\ \A j \in Ids : j # id => k1[j] = k[j]
    <2>1. k \in Knowledge /\ out \in Outs /\ k = Known(out) BY BeforeIs
    <2>2. CASE ph = "cancel" BY <1>1, <1>14, <2>1, <2>2
    <2>3. CASE ph # "cancel"
      <3>1. ph \in PhaseNames BY <2>3, PhasesAre
      <3> QED BY <1>1, <1>11, <1>14, <2>1, <2>3, <3>1, OneEvent
    <2> QED BY <2>2, <2>3
  <1>16. k1[id] = (IF ph \in {"down", "up"} THEN ph ELSE k[id]) /\ k1[id] \in {"up", "down"}
    BY <1>13, <1>15, PressIs
  <1>17. (TouchKnown(k1, d))'
    <2>1. SUFFICES ASSUME NEW s \in 0 .. TouchCount[d] - 1
                   PROVE  /\ k1[data[d].touch_id + s] \in {"up", "down"}
                          /\ s \in T => k1[data[d].touch_id + s] = "down"
                          /\ s \notin T => k1[data[d].touch_id + s] = "up"
                                 \/ "cancelled" \in excused'
      BY <1>1, <1>7, <1>8 DEF TouchKnown
    <2>2. CASE s = slot BY <1>1, <1>13, <1>16, <2>2 DEF T
    <2>3. CASE s # slot
      <3>1. data[d].touch_id + s \in Ids /\ data[d].touch_id + s # id
        <4>1. data[d].touch_id + s \in Owned(d) BY <1>1, AliveIs
        <4> QED BY <1>3, <1>10, <2>3, <4>1
      <3>2. k1[data[d].touch_id + s] = k[data[d].touch_id + s] BY <1>15, <3>1
      <3>3. s \in T <=> s \in L BY <2>3 DEF T
      <3> QED BY <1>1, <1>12, <3>2, <3>3 DEF TouchKnown
    <2> QED BY <2>2, <2>3
  <1>18. (DeviceKnown(k1, d))'
    <2>1. \A j \in Ids : j # id => k1[j] = k[j] BY <1>15
    <2>2. "pointer" \in Capabilities[d] => data[d].scroll.device_id # id
              /\ data[d].scroll.device_id \in Ids
          /\ ("tablet" \in Capabilities[d] => data[d].stylus_id # id)
      <3>1. IdsOK /\ d \in Alive BY <1>1, BeforeIs, AliveIs
      <3>2. ScrollIds(d) \cap TouchIds(d) = {} /\ TouchIds(d) \cap StylusIds(d) = {}
        BY <3>1 DEF IdsOK
      <3>3. id \in TouchIds(d) BY <1>1, <1>3 DEF TouchIds
      <3>4. "pointer" \in Capabilities[d] => data[d].scroll.device_id \in Ids
        BY <1>1, <1>10, AliveIs
      <3> QED BY <3>2, <3>3, <3>4 DEF ScrollIds, StylusIds
    <2>3. "tablet" \in Capabilities[d] => data[d].stylus_id # id /\ data[d].stylus_id \in Ids
      <3>1. IdsOK /\ d \in Alive BY <1>1, BeforeIs, AliveIs
      <3>2. TouchIds(d) \cap StylusIds(d) = {} BY <3>1 DEF IdsOK
      <3>3. id \in TouchIds(d) BY <1>1, <1>3 DEF TouchIds
      <3>4. "tablet" \in Capabilities[d] => data[d].stylus_id \in Ids BY <1>1, <1>10, AliveIs
      <3> QED BY <3>2, <3>3, <3>4 DEF StylusIds
    <2>4. "pointer" \in Capabilities[d] => (ScrollKnown(k1, d))'
      BY <1>1, <1>10, <2>1, <2>2 DEF DeviceKnown, ScrollKnown
    <2>5. "tablet" \in Capabilities[d] => (StylusKnown(k1, d))'
      BY <1>1, <1>10, <2>1, <2>3 DEF DeviceKnown, StylusKnown
    <2> QED BY <1>17, <2>4, <2>5 DEF DeviceKnown
  <1>19. (Followed(k1))'
    <2>1. \A j \in Ids : j \notin Owned(d) => k1[j] = k[j] BY <1>10, <1>15
    <2>2. \A j \in Owned(d) : k1[j] # "breach"
      <3>1. NoBreach(k) BY BeforeIs
      <3> QED BY <1>10, <1>15, <1>16, <3>1 DEF NoBreach
    <2>3. \A e \in Devices : e # d => libinput'[e].touched = libinput[e].touched
              /\ data'[e].tip = data[e].tip
      BY <1>1, <1>8
    <2>4. \A e \in Devices : libinput'[e].keys = libinput[e].keys BY <1>7, <1>8
    <2> HIDE DEF id, L
    <2> QED BY <1>1, <1>9, <1>15, <1>18, <2>1, <2>2, <2>3, <2>4, OnOwnIds
  <1> QED BY <1>14, <1>15, <1>19, FollowingFrom

(* A stylus that moves, comes near or touches.                             *)
LEMMA TabletPointers ==
  ASSUME NEW k, Before(k), NEW d \in Devices,
         OnTabletToolAxis(d) \/ OnTabletToolProximity(d)
             \/ \E down \in BOOLEAN : OnTabletToolTip(d, down)
  PROVE  Following'
  <1> DEFINE id == data[d].stylus_id
  <1>1. data[d] \in Datas /\ libinput[d] \in Libinputs /\ libinput \in [Devices -> Libinputs]
        /\ data \in [Devices -> Datas] /\ data[d].tip = libinput[d].tip
    BY BeforeIs DEF LibinputOK
  <1>2. PICK ph \in {"move", "hover", "down", "up"}, t \in BOOLEAN :
          /\ data[d].state = "live" /\ "tablet" \in Capabilities[d]
          /\ UNCHANGED <<input, keysDown>> /\ excused \subseteq excused'
          /\ out' = EmitPointerEvent(out, Event(id, ph))
          /\ libinput' = [libinput EXCEPT ![d] = [libinput[d] EXCEPT !.tip = t]]
          /\ data' = [data EXCEPT ![d] = [data[d] EXCEPT !.tip = t]]
          /\ ph \in {"down", "up"} => ph = IF t THEN "down" ELSE "up"
          /\ ph \in {"move", "hover"} => t = data[d].tip
    <2> DEFINE t == data[d].tip
    <2>1. t \in BOOLEAN BY <1>1 DEF Datas
    <2>2. data = [data EXCEPT ![d] = [data[d] EXCEPT !.tip = t]]
      <3>1. data[d] = [data[d] EXCEPT !.tip = t] BY <1>1 DEF Datas
      <3> QED BY <1>1, <3>1
    <2>3. libinput = [libinput EXCEPT ![d] = [libinput[d] EXCEPT !.tip = t]]
      <3>1. libinput[d] = [libinput[d] EXCEPT !.tip = t] BY <1>1 DEF Libinputs
      <3> QED BY <1>1, <3>1
    <2>4. CASE OnTabletToolAxis(d) \/ OnTabletToolProximity(d)
      <3> DEFINE p == IF OnTabletToolAxis(d) /\ t THEN "move" ELSE "hover"
      <3>1. /\ data[d].state = "live" /\ "tablet" \in Capabilities[d]
            /\ UNCHANGED <<input, keysDown, libinput, data, excused>>
            /\ out' = EmitPointerEvent(out, Event(id, "move"))
                   \/ out' = EmitPointerEvent(out, Event(id, "hover"))
        BY <2>4 DEF OnTabletToolAxis, OnTabletToolProximity, Live, Quiet
      <3> HIDE DEF t
      <3>2. data' = [data EXCEPT ![d] = [data[d] EXCEPT !.tip = t]]
            /\ libinput' = [libinput EXCEPT ![d] = [libinput[d] EXCEPT !.tip = t]]
        BY <2>2, <2>3, <3>1
      <3> QED BY <2>1, <3>1, <3>2 DEF t
    <2>5. ASSUME NEW down \in BOOLEAN, OnTabletToolTip(d, down)
          PROVE /\ data[d].state = "live" /\ "tablet" \in Capabilities[d]
                /\ UNCHANGED <<input, keysDown, excused>>
                /\ out' = EmitPointerEvent(out, Event(id, IF down THEN "down" ELSE "up"))
                /\ libinput' = [libinput EXCEPT ![d] = [libinput[d] EXCEPT !.tip = down]]
                /\ data' = [data EXCEPT ![d] = [data[d] EXCEPT !.tip = down]]
      BY <1>1, <2>5 DEF OnTabletToolTip, Live, Quiet
    <2> QED BY <2>4, <2>5
  <1> DEFINE m == [libinput[d] EXCEPT !.tip = t]
             x == [data[d] EXCEPT !.tip = t]
  <1>3. m \in Libinputs /\ m.touched = libinput[d].touched /\ m.present = libinput[d].present
        /\ m.keys = libinput[d].keys /\ m.buttons = libinput[d].buttons /\ m.tip = t
    BY <1>1 DEF Libinputs
  <1>4. x \in Datas /\ x.state = data[d].state /\ x.buttons = data[d].buttons
            /\ x.emitted = data[d].emitted
        /\ x.tip = t /\ x.touch_id = data[d].touch_id /\ x.stylus_id = id
        /\ x.scroll = data[d].scroll
        /\ x.keyboard = data[d].keyboard
    BY <1>1 DEF Datas
  <1> HIDE DEF m, x
  <1>5. libinput' \in [Devices -> Libinputs] /\ libinput'[d] = m /\ data'[d] = x
        /\ \A e \in Devices : e # d => libinput'[e] = libinput[e] /\ data'[e] = data[e]
    BY <1>1, <1>2, <1>3, <1>4 DEF m, x
  <1>6. LibinputOK'
    <2>1. LibinputOK BY BeforeIs
    <2>2. /\ data[d].buttons = libinput[d].buttons \cap Buttons
          /\ data[d].buttons # {} => data[d].emitted
          /\ data[d].scroll.active => data[d].scroll.added
      BY <2>1 DEF LibinputOK
    <2> HIDE DEF id
    <2>3. /\ libinput'[d].present = libinput[d].present
          /\ libinput'[d].buttons = libinput[d].buttons /\ libinput'[d].tip = t
          /\ data'[d].state = "live" /\ data'[d].buttons = data[d].buttons /\ data'[d].tip = t
          /\ data'[d].emitted = data[d].emitted /\ data'[d].scroll = data[d].scroll
      BY <1>2, <1>3, <1>4, <1>5
    <2> QED BY <1>2, <1>5, <2>2, <2>3, LibinputKept
  <1>7. /\ DeviceKnown(k, d) /\ Owned(d) \subseteq Ids /\ id \in Owned(d) BY <1>2, AliveIs
  <1>8. id \in Ids BY <1>7
  <1>9. k[id] = IF data[d].tip THEN "down" ELSE "up" BY <1>2, <1>7 DEF DeviceKnown, StylusKnown
  <1>10. PICK k1 : k1 = Known(out') OBVIOUS
  <1>11. /\ out' \in Outs /\ k1 \in Knowledge /\ k1[id] = After(k[id], ph)
         /\ \A j \in Ids : j # id => k1[j] = k[j]
    <2>1. k \in Knowledge /\ out \in Outs /\ k = Known(out) BY BeforeIs
    <2>2. ph \in PhaseNames BY PhasesAre
    <2> HIDE DEF id
    <2> QED BY <1>2, <1>8, <1>10, <2>1, <2>2, OneEvent
  <1>12. k1[id] = IF t THEN "down" ELSE "up"
    <2>1. k[id] \in {"up", "down"} BY <1>9
    <2>2. CASE ph \in {"down", "up"} BY <1>2, <1>11, <2>1, <2>2, PressIs
    <2>3. CASE ph \in {"move", "hover"} BY <1>2, <1>9, <1>11, <2>1, <2>3, PressIs
    <2> QED BY <2>2, <2>3
  <1>13. (DeviceKnown(k1, d))'
    <2>1. ScrollIds(d) \cap StylusIds(d) = {} /\ TouchIds(d) \cap StylusIds(d) = {}
      <3>1. IdsOK /\ d \in Alive BY <1>2, BeforeIs, AliveIs
      <3> QED BY <3>1 DEF IdsOK
    <2>2. id \in StylusIds(d) BY <1>2 DEF StylusIds
    <2>3. ASSUME "pointer" \in Capabilities[d] PROVE (ScrollKnown(k1, d))'
      <3>1. data[d].scroll.device_id \in Ids BY <1>2, <1>7, <2>3, AliveIs
      <3>2. data[d].scroll.device_id # id BY <2>1, <2>2, <2>3 DEF ScrollIds
      <3>3. ScrollKnown(k, d) BY <1>7, <2>3 DEF DeviceKnown
      <3> QED BY <1>4, <1>5, <1>11, <3>1, <3>2, <3>3 DEF ScrollKnown
    <2>4. ASSUME "touch" \in Capabilities[d] PROVE (TouchKnown(k1, d))'
      <3>1. ASSUME NEW s \in 0 .. TouchCount[d] - 1
            PROVE k1[data[d].touch_id + s] = k[data[d].touch_id + s]
        <4>1. data[d].touch_id + s \in Ids BY <1>2, <1>7, <2>4, AliveIs
        <4>2. data[d].touch_id \in Int /\ TouchCount[d] \in Nat BY <1>1, SlotsIs DEF Datas
        <4>3. data[d].touch_id + s \in TouchIds(d) BY <2>4, <4>2 DEF TouchIds
        <4>4. data[d].touch_id + s # id BY <2>1, <2>2, <4>3
        <4> QED BY <1>11, <4>1, <4>4
      <3>2. TouchKnown(k, d) BY <1>7, <2>4 DEF DeviceKnown
      <3>3. libinput'[d].touched = libinput[d].touched /\ data'[d].touch_id = data[d].touch_id
        BY <1>3, <1>4, <1>5
      <3> QED BY <1>2, <3>1, <3>2, <3>3 DEF TouchKnown
    <2>5. (StylusKnown(k1, d))' BY <1>4, <1>5, <1>12 DEF StylusKnown
    <2> QED BY <2>3, <2>4, <2>5 DEF DeviceKnown
  <1>14. (Followed(k1))'
    <2>1. \A j \in Ids : j \notin Owned(d) => k1[j] = k[j] BY <1>7, <1>11
    <2>2. \A j \in Owned(d) : k1[j] # "breach"
      <3>1. NoBreach(k) BY BeforeIs
      <3> QED BY <1>7, <1>11, <1>12, <3>1 DEF NoBreach
    <2>3. \A e \in Devices : e # d => libinput'[e].touched = libinput[e].touched
              /\ data'[e].tip = data[e].tip
      BY <1>5
    <2>4. \A e \in Devices : /\ data'[e].scroll = data[e].scroll
                             /\ data'[e].touch_id = data[e].touch_id
                            /\ data'[e].stylus_id = data[e].stylus_id
                            /\ data'[e].state = data[e].state
                            /\ data'[e].emitted = data[e].emitted
                            /\ data'[e].buttons = data[e].buttons
                            /\ data'[e].keyboard = data[e].keyboard
                            /\ libinput'[e].keys = libinput[e].keys
      BY <1>3, <1>4, <1>5
    <2> HIDE DEF id
    <2> QED BY <1>2, <1>6, <1>11, <1>13, <2>1, <2>2, <2>3, <2>4, OnOwnIds
  <1> QED BY <1>10, <1>11, <1>14, FollowingFrom

(* A key, whose state is kept over all keyboards.                          *)
LEMMA KeyPointers ==
  ASSUME NEW k, Before(k), NEW d \in Devices, NEW key \in Keys, NEW pressed \in BOOLEAN,
         OnKeyEvent(d, key, pressed)
  PROVE  Following'
  <1> DEFINE L == libinput[d].keys
             T == IF pressed THEN L \cup {key} ELSE L \ {key}
             m == [libinput[d] EXCEPT !.keys = T]
  <1>1. data[d] \in Datas /\ libinput[d] \in Libinputs /\ libinput \in [Devices -> Libinputs]
        /\ data \in [Devices -> Datas]
    BY BeforeIs
  <1>2. /\ data[d].state = "live" /\ UNCHANGED <<data, input, out>> /\ excused \subseteq excused'
        /\ key \in L <=> ~pressed
        /\ libinput' = [libinput EXCEPT ![d].keys = IF pressed THEN @ \cup {key} ELSE @ \ {key}]
        /\ keysDown' = IF ~data[d].keyboard THEN keysDown
                       ELSE IF pressed THEN keysDown \cup {key} ELSE keysDown \ {key}
        /\ (pressed
               /\ \E e \in Devices \ {d} : key \in libinput[e].keys) => "two keyboards" \in excused'
    BY DEF OnKeyEvent, Live
  <1>3. T \in SUBSET Keys BY <1>1 DEF Libinputs
  <1>4. libinput' = [libinput EXCEPT ![d] = m] BY <1>1, <1>2
  <1>5. m \in Libinputs /\ m.touched = libinput[d].touched /\ m.present = libinput[d].present
        /\ m.keys = T /\ m.buttons = libinput[d].buttons /\ m.tip = libinput[d].tip
    <2> HIDE DEF T
    <2> QED BY <1>1, <1>3 DEF Libinputs
  <1> HIDE DEF m
  <1>6. libinput' \in [Devices -> Libinputs] /\ libinput'[d] = m
        /\ \A e \in Devices : e # d => libinput'[e] = libinput[e]
    BY <1>1, <1>4, <1>5
  <1>7. LibinputOK'
    <2>1. LibinputOK BY BeforeIs
    <2>2. /\ data[d].buttons = libinput[d].buttons \cap Buttons /\ data[d].tip = libinput[d].tip
          /\ data[d].buttons # {} => data[d].emitted
          /\ data[d].scroll.active => data[d].scroll.added
      BY <2>1 DEF LibinputOK
    <2>3. /\ libinput'[d].present = libinput[d].present
          /\ libinput'[d].buttons = libinput[d].buttons /\ libinput'[d].tip = libinput[d].tip
      BY <1>5, <1>6
    <2>4. data' = data /\ data[d].state = "live" BY <1>2
    <2>5. /\ data'[d].state = "live" /\ data'[d].tip = libinput'[d].tip
          /\ data'[d].buttons = libinput'[d].buttons \cap Buttons
          /\ data'[d].buttons # {} => data'[d].emitted
          /\ data'[d].scroll.active => data'[d].scroll.added
      BY <2>2, <2>3, <2>4
    <2>6. \A e \in Devices : e # d => libinput'[e] = libinput[e] /\ data'[e] = data[e]
      BY <1>6, <2>4
    <2>7. libinput' \in [Devices -> Libinputs] BY <1>6
    <2> HIDE DEF T, L
    <2> QED BY <2>3, <2>4, <2>5, <2>6, <2>7, LibinputKept
  <1>8. IdsOK' BY <1>2, IdsKept
  <1>9. (CursorKnown(k))' BY <1>2, CursorKept
  <1>10. (Unused(k))'
    <2>1. Unused(k) /\ input.next_id \in Int /\ input' = input BY <1>2, BeforeIs
    <2> HIDE DEF T, L
    <2> QED BY <2>1, UnusedKept
  <1>11. ASSUME NEW e \in Alive' PROVE (DeviceKnown(k, e))'
    <2>1. e \in Alive /\ e \in Devices /\ data[e].state = "live" BY <1>2 DEF Alive
    <2>2. DeviceKnown(k, e) BY <2>1, AliveIs
    <2>3. libinput'[e].touched = libinput[e].touched BY <1>5, <1>6, <2>1
    <2> HIDE DEF T, L
    <2> QED BY <1>2, <2>1, <2>2, <2>3, DeviceKept
  <1>12. KeysKnown'
    <2>1. KeysKnown BY BeforeIs
    <2>2. libinput'[d].keys = T /\ \A e \in Devices : e # d => libinput'[e].keys = libinput[e].keys
      BY <1>5, <1>6
    <2>3. ASSUME NEW j \in keysDown'
          PROVE \E e \in Devices : data'[e].keyboard /\ j \in libinput'[e].keys
      <3>1. CASE j = key /\ data[d].keyboard
        <4>1. pressed BY <1>2, <2>3, <3>1
        <4>2. key \in T BY <4>1
        <4> HIDE DEF T
        <4>3. data'[d].keyboard /\ j \in libinput'[d].keys BY <1>2, <2>2, <3>1, <4>2
        <4> QED BY <4>3
      <3>2. CASE j # key
        <4>1. j \in keysDown BY <1>2, <2>3, <3>2
        <4>2. PICK e \in Devices : data[e].keyboard /\ j \in libinput[e].keys
          BY <2>1, <4>1 DEF KeysKnown
        <4>3. j \in libinput'[e].keys BY <2>2, <3>2, <4>2
        <4> QED BY <1>2, <4>2, <4>3
      <3>3. CASE j = key /\ ~data[d].keyboard
        <4>1. j \in keysDown BY <1>2, <2>3, <3>3
        <4>2. PICK e \in Devices : data[e].keyboard /\ j \in libinput[e].keys
          BY <2>1, <4>1 DEF KeysKnown
        <4>3. e # d BY <3>3, <4>2
        <4> QED BY <1>2, <2>2, <4>2, <4>3
      <3> QED BY <3>1, <3>2, <3>3
    <2>4. ASSUME "two keyboards" \notin excused'
          PROVE  /\ \A e \in Devices : data'[e].keyboard => libinput'[e].keys \subseteq keysDown'
                 /\ \A e, f \in Devices : e # f => libinput'[e].keys \cap libinput'[f].keys = {}
      <3>1. "two keyboards" \notin excused BY <1>2, <2>4
      <3>2. /\ \A e \in Devices : data[e].keyboard => libinput[e].keys \subseteq keysDown
            /\ \A e, f \in Devices : e # f => libinput[e].keys \cap libinput[f].keys = {}
        BY <2>1, <3>1 DEF KeysKnown
      <3>3. \A e \in Devices : e # d => key \notin libinput[e].keys
        <4>1. CASE pressed BY <1>2, <2>4, <4>1
        <4>2. CASE ~pressed
          <5>1. key \in L BY <1>2, <4>2
          <5> QED BY <3>2, <5>1
        <4> QED BY <4>1, <4>2
      <3>4. ASSUME NEW e \in Devices, data'[e].keyboard, NEW j \in libinput'[e].keys
            PROVE j \in keysDown'
        <4>1. data[e].keyboard BY <1>2, <3>4
        <4>2. CASE e = d
          <5>1. j \in T BY <2>2, <3>4, <4>2
          <5> QED BY <1>2, <3>2, <4>1, <4>2, <5>1
        <4>3. CASE e # d
          <5>1. j \in libinput[e].keys /\ j # key BY <2>2, <3>3, <3>4, <4>3
          <5>2. j \in keysDown BY <3>2, <4>1, <5>1
          <5> QED BY <1>2, <5>1, <5>2
        <4> QED BY <4>2, <4>3
      <3>5. ASSUME NEW e \in Devices, NEW f \in Devices, e # f
            PROVE libinput'[e].keys \cap libinput'[f].keys = {}
        <4>1. CASE e = d
          <5>1. libinput'[f].keys = libinput[f].keys /\ key \notin libinput[f].keys
                    /\ L \cap libinput[f].keys = {}
            BY <2>2, <3>2, <3>3, <3>5, <4>1
          <5>2. T \subseteq L \cup {key} OBVIOUS
          <5> QED BY <2>2, <4>1, <5>1, <5>2
        <4>2. CASE f = d
          <5>1. libinput'[e].keys = libinput[e].keys /\ key \notin libinput[e].keys
                    /\ L \cap libinput[e].keys = {}
            BY <2>2, <3>2, <3>3, <3>5, <4>2
          <5>2. T \subseteq L \cup {key} OBVIOUS
          <5> QED BY <2>2, <4>2, <5>1, <5>2
        <4>3. CASE e # d /\ f # d BY <2>2, <3>2, <3>5, <4>3
        <4> QED BY <4>1, <4>2, <4>3
      <3> QED BY <3>4, <3>5
    <2> HIDE DEF T, L
    <2> QED BY <2>3, <2>4 DEF KeysKnown
  <1>13. NoBreach(k) BY BeforeIs
  <1>14. (Followed(k))' BY <1>7, <1>8, <1>9, <1>10, <1>11, <1>12, <1>13 DEF Followed, NoBreach
  <1>15. out' \in Outs /\ k = Known(out') BY <1>2, BeforeIs
  <1> QED BY <1>14, <1>15, FollowingFrom

PhaseSeqs == Seq(PhaseNames)

(* What becomes of one pointer in a list of phases and in one that may be  *)
(* empty.                                                                  *)
LEMMA PathConcat == \A w : \A p, q \in PhaseSeqs : Path(w, p \o q) = Path(Path(w, p), q)
  BY PathIs, Acting!FoldConcat DEF PhaseSeqs
LEMMA PathMaybe == \A w, c, p : Path(w, IF c THEN <<p>> ELSE <<>>) = IF c THEN After(w, p) ELSE w
  BY PathIs, Acting!FoldMaybe
LEMMA MaybeIs == \A c : \A p \in PhaseNames : (IF c THEN <<p>> ELSE <<>>) \in PhaseSeqs
  BY DEF PhaseSeqs
LEMMA ConcatIs == \A p, q \in PhaseSeqs : p \o q \in PhaseSeqs
  BY ConcatProperties DEF PhaseSeqs

(* The phases of one device id.                                            *)
LEMMA PhaseEventsAre ==
  ASSUME NEW id \in Ids, NEW ps \in PhaseSeqs
  PROVE  /\ PhaseEvents(id, ps) \in Seq(Events) /\ Len(PhaseEvents(id, ps)) = Len(ps)
         /\ \A i \in 1 .. Len(ps) : PhaseEvents(id, ps)[i].id = id
  <1>1. Len(ps) \in Nat /\ \A i \in 1 .. Len(ps) : ps[i] \in PhaseNames
    BY LenProperties, ElementOfSeq DEF PhaseSeqs
  <1>2. \A i \in 1 .. Len(ps) : Event(id, ps[i]) \in Events /\ Event(id, ps[i]).id = id
    BY <1>1, EventIs
  <1>3. PhaseEvents(id, ps) \in [1 .. Len(ps) -> Events] BY <1>2 DEF PhaseEvents
  <1>4. PhaseEvents(id, ps) \in Seq(Events) BY <1>1, <1>3, IsASeq
  <1>5. Len(PhaseEvents(id, ps)) = Len(ps)
    <2>1. DOMAIN PhaseEvents(id, ps) = 1 .. Len(ps) BY <1>3
    <2> QED BY <1>1, <1>4, <2>1, LenProperties
  <1> QED BY <1>2, <1>4, <1>5 DEF PhaseEvents

(* The events of a list of phases, one more.                               *)
LEMMA PhasesAppend ==
  ASSUME NEW id \in Ids, NEW ps \in PhaseSeqs, NEW p \in PhaseNames
  PROVE  PhaseEvents(id, Append(ps, p)) = Append(PhaseEvents(id, ps), Event(id, p))
  <1> DEFINE qs == Append(ps, p)
             l == PhaseEvents(id, qs)
             r == Append(PhaseEvents(id, ps), Event(id, p))
  <1>1. /\ qs \in PhaseSeqs /\ Len(qs) = Len(ps) + 1 /\ qs[Len(ps) + 1] = p
        /\ \A i \in 1 .. Len(ps) : qs[i] = ps[i]
    BY AppendProperties DEF PhaseSeqs
  <1>2. Len(ps) \in Nat BY LenProperties DEF PhaseSeqs
  <1>3. PhaseEvents(id, ps) \in Seq(Events) /\ Len(PhaseEvents(id, ps)) = Len(ps) BY PhaseEventsAre
  <1>4. Event(id, p) \in Events BY EventIs
  <1>5. /\ r \in Seq(Events) /\ Len(r) = Len(ps) + 1 /\ r[Len(ps) + 1] = Event(id, p)
        /\ \A i \in 1 .. Len(ps) : r[i] = PhaseEvents(id, ps)[i]
    BY <1>3, <1>4, AppendProperties
  <1>6. l \in Seq(Events) /\ Len(l) = Len(ps) + 1 BY <1>1, PhaseEventsAre
  <1>7. ASSUME NEW i \in 1 .. Len(ps) + 1 PROVE l[i] = r[i]
    <2>1. l[i] = Event(id, qs[i]) BY <1>1, <1>2 DEF PhaseEvents
    <2>2. CASE i = Len(ps) + 1 BY <1>1, <1>5, <2>1, <2>2
    <2>3. CASE i # Len(ps) + 1
      <3>1. i \in 1 .. Len(ps) BY <1>2, <2>3
      <3>2. PhaseEvents(id, ps)[i] = Event(id, ps[i]) BY <3>1 DEF PhaseEvents
      <3> QED BY <1>1, <1>5, <2>1, <3>1, <3>2
    <2> QED BY <2>2, <2>3
  <1> HIDE DEF l, r
  <1>8. l = r BY <1>5, <1>6, <1>7, SeqEqual
  <1> QED BY <1>8 DEF l, r, qs

(* Several phases of one pointer: it goes through them, the others stay.   *)
LEMMA TrackPhases ==
  ASSUME NEW k \in Knowledge, NEW id \in Ids, NEW ps \in PhaseSeqs
  PROVE  LET k1 == Track(k, PhaseEvents(id, ps))
         IN  /\ k1 \in Knowledge /\ k1[id] = Path(k[id], ps)
             /\ \A j \in Ids : j # id => k1[j] = k[j]
  <1> DEFINE S == {p \in PhaseSeqs : Track(k, PhaseEvents(id, p))[id] = Path(k[id], p)}
  <1>1. <<>> \in S
    <2>1. <<>> \in PhaseSeqs BY DEF PhaseSeqs
    <2>2. PhaseEvents(id, <<>>) = <<>> BY DEF PhaseEvents
    <2>3. Path(k[id], <<>>) = k[id] BY PathIs, Acting!FoldEmpty
    <2> QED BY <2>1, <2>2, <2>3, TrackEmpty
  <1>2. ASSUME NEW p \in Seq(PhaseNames), NEW e \in PhaseNames, p \in S PROVE Append(p, e) \in S
    <2>1. p \in PhaseSeqs BY DEF PhaseSeqs
    <2>2. Append(p, e) \in PhaseSeqs BY AppendProperties DEF PhaseSeqs
    <2>3. PhaseEvents(id, Append(p, e)) = Append(PhaseEvents(id, p), Event(id, e))
      BY <2>1, PhasesAppend
    <2>4. PhaseEvents(id, p) \in Seq(Events) BY <2>1, PhaseEventsAre
    <2>5. Event(id, e) \in Events /\ Event(id, e).id = id /\ Event(id, e).phase = e BY EventIs
    <2>6. Track(k, PhaseEvents(id, Append(p, e)))
              = Accept(Track(k, PhaseEvents(id, p)), Event(id, e))
      BY <2>3, <2>4, <2>5, TrackAppend
    <2>7. Track(k, PhaseEvents(id, p)) \in Knowledge BY <2>4, TrackType
    <2>8. Accept(Track(k, PhaseEvents(id, p)), Event(id, e))[id]
              = After(Track(k, PhaseEvents(id, p))[id], e)
      BY <2>5, <2>7, AcceptIs
    <2>9. Path(k[id], Append(p, e)) = After(Path(k[id], p), e) BY PathIs, Acting!FoldAppend
    <2> QED BY <1>2, <2>2, <2>6, <2>8, <2>9
  <1> HIDE DEF S
  <1>3. ps \in S
    <2>1. ps \in Seq(PhaseNames) BY DEF PhaseSeqs
    <2> QED BY <1>1, <1>2, <2>1, Accepting!SeqInduction
  <1>4. PhaseEvents(id, ps) \in Seq(Events)
            /\ \A i \in 1 .. Len(PhaseEvents(id, ps)) : PhaseEvents(id, ps)[i].id = id
    BY PhaseEventsAre
  <1>5. ASSUME NEW j \in Ids, j # id PROVE Track(k, PhaseEvents(id, ps))[j] = k[j]
    BY <1>4, <1>5, Untouched
  <1>6. Track(k, PhaseEvents(id, ps)) \in Knowledge BY <1>4, TrackType
  <1> QED BY <1>3, <1>5, <1>6 DEF S

(* A gesture.                                                              *)
LEMMA ScrollFingerKnown ==
  ASSUME NEW scroll \in Scrolls, scroll.active => scroll.added, NEW dx \in Axis, NEW dy \in Axis
  PROVE  LET r == ScrollFinger(scroll, dx, dy)
         IN  /\ r[2] \in PhaseSeqs /\ Path(ScrollState(scroll), r[2]) = ScrollState(r[1])
             /\ r[1].device_id = scroll.device_id /\ (r[1].active => r[1].added)
  <1> DEFINE moves == dx = "delta" \/ dy = "delta"
             started == [scroll EXCEPT !.added = TRUE, !.active = TRUE,
                                       !.x = @ /\ scroll.active, !.y = @ /\ scroll.active]
             sx == IF dx = "none" THEN started.x ELSE dx = "delta"
             sy == IF dy = "none" THEN started.y ELSE dy = "delta"
             s == [started EXCEPT !.x = sx, !.y = sy]
             stopped == ~s.x /\ ~s.y
             A == IF ~scroll.added THEN <<"add">> ELSE <<>>
             B == IF ~scroll.active THEN <<"start">> ELSE <<>>
             C == IF moves THEN <<"update">> ELSE <<>>
             D == IF stopped THEN <<"end">> ELSE <<>>
             r == ScrollFinger(scroll, dx, dy)
             was == ScrollState(scroll)
  <1>1. CASE ~scroll.active /\ ~moves
    <2>1. r = <<scroll, <<>>>> BY <1>1 DEF ScrollFinger
    <2>2. <<>> \in PhaseSeqs BY DEF PhaseSeqs
    <2>3. Path(was, <<>>) = was BY PathIs, Acting!FoldEmpty
    <2> QED BY <2>1, <2>2, <2>3
  <1>2. CASE scroll.active \/ moves
    <2>1. r = <<[s EXCEPT !.active = ~stopped], A \o B \o C \o D>> BY <1>2 DEF ScrollFinger
    <2>2. started \in Scrolls /\ started.device_id = scroll.device_id /\ started.added
      BY DEF Scrolls
    <2>3. sx \in BOOLEAN /\ sy \in BOOLEAN BY <2>2 DEF Scrolls
    <2> HIDE DEF started, sx, sy
    <2>4. s \in Scrolls /\ s.device_id = scroll.device_id /\ s.added BY <2>2, <2>3 DEF Scrolls
    <2>5. stopped \in BOOLEAN OBVIOUS
    <2> HIDE DEF s, stopped
    <2> DEFINE t == [s EXCEPT !.active = ~stopped]
    <2>6. t.device_id = scroll.device_id /\ t.added /\ (t.active <=> ~stopped)
      BY <2>4, <2>5 DEF Scrolls
    <2> HIDE DEF t
    <2>7. {"add", "start", "update", "end"} \subseteq PhaseNames BY DEF PhaseNames
    <2>8. A \in PhaseSeqs /\ B \in PhaseSeqs /\ C \in PhaseSeqs /\ D \in PhaseSeqs BY <2>7, MaybeIs
    <2> DEFINE w1 == IF ~scroll.added THEN After(was, "add") ELSE was
               w2 == IF ~scroll.active THEN After(w1, "start") ELSE w1
               w3 == IF moves THEN After(w2, "update") ELSE w2
               w4 == IF stopped THEN After(w3, "end") ELSE w3
    <2>9. Path(was, A) = w1 /\ Path(w1, B) = w2 /\ Path(w2, C) = w3 /\ Path(w3, D) = w4 BY PathMaybe
    <2> HIDE DEF A, B, C, D
    <2>10. w1 = IF scroll.active THEN "pan" ELSE "up" BY DEF ScrollState, After
    <2> HIDE DEF w1
    <2>11. w2 = "pan" BY <2>10 DEF After
    <2> HIDE DEF w2
    <2>12. w3 = "pan" BY <2>11 DEF After
    <2> HIDE DEF w3
    <2>13. w4 = IF stopped THEN "up" ELSE "pan" BY <2>12 DEF After
    <2>14. ScrollState(t) = IF stopped THEN "up" ELSE "pan" BY <2>6 DEF ScrollState
    <2> HIDE DEF w4
    <2>15. A \o B \in PhaseSeqs BY <2>8, ConcatIs
    <2>16. (A \o B) \o C \in PhaseSeqs BY <2>8, <2>15, ConcatIs
    <2>17. ((A \o B) \o C) \o D \in PhaseSeqs BY <2>8, <2>16, ConcatIs
    <2>18. Path(was, ((A \o B) \o C) \o D) = Path(Path(was, (A \o B) \o C), D)
      BY <2>8, <2>16, PathConcat
    <2>19. Path(was, (A \o B) \o C) = Path(Path(was, A \o B), C) BY <2>8, <2>15, PathConcat
    <2>20. Path(was, A \o B) = Path(Path(was, A), B) BY <2>8, PathConcat
    <2>21. Path(was, ((A \o B) \o C) \o D) = w4 BY <2>9, <2>18, <2>19, <2>20
    <2>22. r[1] = t /\ r[2] = ((A \o B) \o C) \o D BY <2>1 DEF t
    <2> HIDE DEF r, was
    <2> QED BY <2>6, <2>13, <2>14, <2>17, <2>21, <2>22 DEF r, was
  <1> QED BY <1>1, <1>2

(* A scroll pointer that is removed leaves, whatever it was doing.         *)
LEMMA ScrollRemoveKnown ==
  ASSUME NEW scroll \in Scrolls, scroll.active => scroll.added
  PROVE  ScrollRemove(scroll)[2] \in PhaseSeqs
             /\ Path(ScrollState(scroll), ScrollRemove(scroll)[2]) = "absent"
  <1> DEFINE A == IF scroll.active THEN <<"end">> ELSE <<>>
             B == IF scroll.added THEN <<"remove">> ELSE <<>>
             was == ScrollState(scroll)
             w1 == IF scroll.active THEN After(was, "end") ELSE was
             w2 == IF scroll.added THEN After(w1, "remove") ELSE w1
  <1>1. ScrollRemove(scroll)[2] = A \o B BY DEF ScrollRemove
  <1>2. "end" \in PhaseNames /\ "remove" \in PhaseNames BY DEF PhaseNames
  <1>3. A \in PhaseSeqs /\ B \in PhaseSeqs BY <1>2, MaybeIs
  <1>4. Path(was, A) = w1 /\ Path(w1, B) = w2 BY PathMaybe
  <1>5. w2 = "absent" BY DEF ScrollState, After
  <1> HIDE DEF A, B, w1, w2, was
  <1>6. Path(was, A \o B) = Path(Path(was, A), B) BY <1>3, PathConcat
  <1>7. A \o B \in PhaseSeqs BY <1>3, ConcatIs
  <1> QED BY <1>1, <1>4, <1>5, <1>6, <1>7 DEF was

(* What the input and Flutter know of the cursor once a mouse has spoken.  *)
CursorGiven(c, n) ==
    \/ c = input.cursor_id /\ n = input.next_id /\ input.cursor_id # -1
    \/ c = input.next_id /\ n = input.next_id + 1 /\ input.cursor_id = -1 /\ n <= MaxIds

(* The cursor's id was given, and there is room for the next.              *)
LEMMA CursorIdIs ==
  ASSUME NEW k, Before(k)
  PROVE  /\ input.cursor_id # -1 => input.cursor_id \in Ids /\ input.cursor_id < input.next_id
         /\ input.next_id + 1 <= MaxIds => input.next_id \in Ids
         /\ input.next_id \in Int /\ input.cursor_id \in Int /\ Ids \subseteq Int
  <1>1. IdsOK /\ input.next_id \in Int /\ input.cursor_id \in Int BY BeforeIs
  <1>2. MaxIds \in Nat BY InputConstants
  <1> QED BY <1>1, <1>2 DEF IdsOK, Ids

(* The cursor is pressed as the one mouse that presses it says.            *)
PressedBy(w) ==
    /\ w \in {"up", "down"} /\ (w = "down" => Pressing # {})
    /\ "two mice" \notin excused =>
          /\ Pressing # {} => w = "down"
          /\ \A d, e \in Pressing : d = e

(* A mouse that speaks for the first time gives the cursor an id and adds  *)
(* its pointer.                                                            *)
LEMMA SpeaksKnown ==
  ASSUME NEW k, Before(k), NEW d \in Devices, data[d].state = "live", Room(1)
  PROVE  LET s == PointerSpeaks(d)
         IN  /\ CursorGiven(s[1].cursor_id, s[1].next_id)
             /\ s[2] \in Outs /\ Known(s[2]) \in Knowledge
             /\ s[1].cursor_id \in Ids
             /\ \A id \in Ids : id # s[1].cursor_id => Known(s[2])[id] = k[id]
             /\ PressedBy(Known(s[2])[s[1].cursor_id])
  <1> DEFINE s == PointerSpeaks(d)
             n == input.n_cursor_devices + 1
             new == n = 1 /\ input.cursor_id = -1
             id == IF new THEN input.next_id ELSE input.cursor_id
             nid == IF new THEN input.next_id + 1 ELSE input.next_id
  <1>1. /\ input \in Inputs /\ CursorKnown(k) /\ Unused(k) /\ LibinputOK
        /\ k \in Knowledge /\ out \in Outs /\ k = Known(out)
    BY BeforeIs
  <1>2. IsFiniteSet(Speakers) /\ input.n_cursor_devices = Cardinality(Speakers)
    BY DEF Before, InputInv, SpeakersOK
  <1>3. Cardinality(Speakers) \in Nat /\ (Cardinality(Speakers) = 0 <=> Speakers = {})
    BY <1>2, FS_CardinalityType, FS_EmptySet
  <1>4. n \in Int /\ (n = 1 <=> Speakers = {}) BY <1>2, <1>3
  <1>5. input.next_id + 1 <= MaxIds BY DEF Room
  <1>6. Pressing \subseteq Speakers BY <1>1 DEF Pressing, Speakers, LibinputOK
  <1>7. CASE Speakers # {}
    <2>1. input.cursor_id # -1 /\ k[input.cursor_id] \in {"up", "down"}
      BY <1>1, <1>7 DEF CursorKnown
    <2>2. s[1].cursor_id = input.cursor_id /\ s[1].next_id = input.next_id /\ s[2] = out
      <3>1. CASE data[d].emitted BY <3>1 DEF PointerSpeaks
      <3>2. CASE ~data[d].emitted
        <4>1. n # 1 BY <1>4, <1>7
        <4>2. s = <<[input EXCEPT !.n_cursor_devices = n, !.cursor_id = id, !.next_id = nid],
                    IF n = 1 THEN EmitPointerEvent(out, Event(id, "add")) ELSE out>>
          BY <3>2, <1>1 DEF PointerSpeaks, Inputs
        <4>3. id = input.cursor_id /\ nid = input.next_id BY <4>1
        <4> HIDE DEF id, nid, n, s
        <4> QED BY <1>1, <4>1, <4>2, <4>3 DEF Inputs
      <3> QED BY <3>1, <3>2
    <2>3. PressedBy(k[input.cursor_id]) BY <1>1, <2>1 DEF PressedBy, CursorKnown
    <2>4. input.cursor_id \in Ids BY <2>1, CursorIdIs
    <2> HIDE DEF s
    <2> QED BY <1>1, <2>1, <2>2, <2>3, <2>4 DEF s, CursorGiven
  <1>8. CASE Speakers = {}
    <2>1. n = 1 /\ ~data[d].emitted BY <1>4, <1>8 DEF Speakers
    <2>2. s = <<[input EXCEPT !.n_cursor_devices = n, !.cursor_id = id, !.next_id = nid],
                EmitPointerEvent(out, Event(id, "add"))>>
      BY <1>1, <2>1 DEF PointerSpeaks, Inputs
    <2>3. id \in Ids /\ k[id] = "absent" /\ CursorGiven(id, nid)
      <3>1. CASE input.cursor_id = -1
        <4>1. id = input.next_id /\ nid = input.next_id + 1 BY <2>1, <3>1
        <4>2. input.next_id \in Ids BY <1>5, CursorIdIs
        <4>3. k[input.next_id] = "absent" BY <1>1, <4>2, CursorIdIs DEF Unused
        <4> QED BY <1>5, <3>1, <4>1, <4>2, <4>3 DEF CursorGiven
      <3>2. CASE input.cursor_id # -1
        <4>1. id = input.cursor_id /\ nid = input.next_id BY <3>2
        <4>2. input.cursor_id \in Ids BY <3>2, CursorIdIs
        <4>3. k[input.cursor_id] = "absent" BY <1>1, <1>8, <3>2 DEF CursorKnown
        <4> QED BY <3>2, <4>1, <4>2, <4>3 DEF CursorGiven
      <3> QED BY <3>1, <3>2
    <2> HIDE DEF id, nid, new, n, s
    <2>4. s[1].cursor_id = id /\ s[1].next_id = nid
              /\ s[2] = EmitPointerEvent(out, Event(id, "add"))
      BY <1>1, <2>2 DEF Inputs
    <2>5. "add" \in PhaseNames BY DEF PhaseNames
    <2>6. /\ s[2] \in Outs /\ Known(s[2]) \in Knowledge /\ Known(s[2])[id] = After(k[id], "add")
          /\ \A j \in Ids : j # id => Known(s[2])[j] = k[j]
      BY <1>1, <2>3, <2>4, <2>5, OneEvent
    <2>7. Known(s[2])[id] = "up" BY <2>3, <2>6 DEF After
    <2>8. PressedBy("up")
      <3>1. Pressing = {} BY <1>6, <1>8
      <3> QED BY <3>1 DEF PressedBy
    <2> QED BY <2>3, <2>4, <2>6, <2>7, <2>8 DEF s
  <1> QED BY <1>7, <1>8

(* What a mouse does on the ids of the cursor and of its scroll events.    *)
MouseStep(k, k1, d, x, m) ==
    /\ data[d].state = "live" /\ "pointer" \in Capabilities[d]
    /\ CursorGiven(input'.cursor_id, input'.next_id) /\ input'.destroyed = input.destroyed
    /\ data' = [data EXCEPT ![d] = x] /\ x.state = "live" /\ x.emitted = TRUE
    /\ x.touch_id = data[d].touch_id /\ x.stylus_id = data[d].stylus_id
    /\ x.tip = data[d].tip /\ x.keyboard = data[d].keyboard
    /\ x.scroll.device_id = data[d].scroll.device_id
    /\ x.scroll.active => x.scroll.added
    /\ libinput' = [libinput EXCEPT ![d] = m]
    /\ m.present = libinput[d].present /\ m.touched = libinput[d].touched
    /\ m.keys = libinput[d].keys /\ m.tip = libinput[d].tip
    /\ x.buttons = m.buttons \cap Buttons
    /\ keysDown' = keysDown /\ excused \subseteq excused'
    /\ \A id \in Ids :
          id # input'.cursor_id /\ id # data[d].scroll.device_id => k1[id] = k[id]
    /\ k1[data[d].scroll.device_id] = ScrollState(x.scroll)
    /\ (PressedBy(k1[input.cursor_id]))'

(* Such a step keeps what is known of the pointers.                        *)
LEMMA MouseActs ==
  ASSUME NEW k, Before(k), NEW k1 \in Knowledge, NEW d \in Devices, NEW x \in Datas,
         NEW m \in Libinputs, MouseStep(k, k1, d, x, m)
  PROVE  (Followed(k1))'
  <1> USE DEF MouseStep
  <1> DEFINE c == input'.cursor_id
             sid == data[d].scroll.device_id
  <1>1. /\ data \in [Devices -> Datas] /\ libinput \in [Devices -> Libinputs] /\ LibinputOK /\ IdsOK
        /\ KeysKnown /\ Unused(k) /\ NoBreach(k) /\ CursorKnown(k)
    BY BeforeIs
  <1>2. data'[d] = x /\ libinput'[d] = m /\ libinput' \in [Devices -> Libinputs]
        /\ \A e \in Devices : e # d => libinput'[e] = libinput[e] /\ data'[e] = data[e]
    BY <1>1
  <1>3. /\ d \in Alive /\ DeviceKnown(k, d) /\ Owned(d) \subseteq Ids /\ sid \in Owned(d)
        /\ input.cursor_id \notin Owned(d) /\ (\A id \in Owned(d) : id < input.next_id)
        /\ \A e \in Alive : e # d => Owned(e) \cap Owned(d) = {}
    BY AliveIs
  <1>4. LibinputOK'
    <2>1. data[d].tip = libinput[d].tip BY <1>1 DEF LibinputOK
    <2>2. /\ libinput'[d].present = libinput[d].present /\ data'[d].state = "live"
          /\ data'[d].buttons = libinput'[d].buttons \cap Buttons /\ data'[d].tip = libinput'[d].tip
          /\ data'[d].emitted /\ (data'[d].scroll.active => data'[d].scroll.added)
      BY <1>2, <2>1
    <2> HIDE DEF c, sid
    <2> QED BY <1>2, <2>2, LibinputKept
  <1>5. IdsOK'
    <2>1. \A e \in Devices :
            /\ data'[e].state = "live" <=> data[e].state = "live"
            /\ data'[e].scroll.device_id = data[e].scroll.device_id
            /\ data'[e].touch_id = data[e].touch_id /\ data'[e].stylus_id = data[e].stylus_id
      BY <1>2
    <2>2. \/ input'.next_id = input.next_id /\ input'.cursor_id = input.cursor_id
          \/ /\ input.cursor_id = -1 /\ input'.cursor_id = input.next_id
             /\ input'.next_id = input.next_id + 1 /\ input.next_id + 1 <= MaxIds
      BY DEF CursorGiven
    <2> QED BY <2>1, <2>2, IdsKept
  <1>6. Alive' = Alive /\ Alive \subseteq Devices BY <1>2 DEF Alive
  <1>7. \A e \in Alive : Owned(e)' = Owned(e)
    <2> TAKE e \in Alive
    <2>1. ScrollIds(e)' = ScrollIds(e) /\ TouchIds(e)' = TouchIds(e) /\ StylusIds(e)' = StylusIds(e)
      <3>1. /\ data'[e].scroll.device_id = data[e].scroll.device_id
            /\ data'[e].touch_id = data[e].touch_id /\ data'[e].stylus_id = data[e].stylus_id
        BY <1>2, <1>6
      <3> QED BY <3>1 DEF ScrollIds, TouchIds, StylusIds
    <2> QED BY <2>1 DEF Owned
  <1>8. \A e \in Alive : c \notin Owned(e)
    <2> TAKE e \in Alive
    <2>1. c \notin Owned(e)' BY <1>5, <1>6 DEF IdsOK
    <2> QED BY <1>7, <2>1
  <1>9. c \in Ids /\ c \in Int /\ c # -1 /\ c < input'.next_id /\ input'.next_id >= input.next_id
            /\ input'.next_id \in Int
    <2>1. input.cursor_id \in -1 .. input.next_id - 1 /\ input.next_id \in 0 .. MaxIds
      BY <1>1 DEF IdsOK
    <2>2. MaxIds \in Nat BY InputConstants
    <2> QED BY <2>1, <2>2, CursorIdIs DEF CursorGiven
  <1>10. (CursorKnown(k1))'
    <2>1. d \in Speakers' BY <1>2 DEF Speakers
    <2> QED BY <1>9, <2>1 DEF CursorKnown, PressedBy
  <1>11. KeysKnown'
    <2>1. \A e \in Devices : libinput'[e].keys = libinput[e].keys
              /\ data'[e].keyboard = data[e].keyboard BY <1>2
    <2> QED BY <1>1, <2>1, KeysKept
  <1>12. (Unused(k1))'
    <2>1. input.next_id \in Int BY BeforeIs
    <2>2. \A id \in Ids : id >= input'.next_id => k1[id] = k[id]
      <3> TAKE id \in Ids
      <3>1. id \in Int /\ sid \in Int /\ sid < input.next_id BY <1>3, CursorIdIs
      <3> QED BY <1>9, <2>1, <3>1
    <2> QED BY <1>1, <1>9, <2>1, <2>2, UnusedKept
  <1>13. NoBreach(k1)
    <2>1. k1[c] \in {"up", "down"} BY DEF PressedBy
    <2>2. k1[sid] # "breach" BY DEF ScrollState
    <2>3. ASSUME NEW id \in Ids PROVE k1[id] # "breach"
      <3>1. CASE id = c BY <2>1, <3>1
      <3>2. CASE id = sid BY <2>2, <3>2
      <3>3. CASE id # c /\ id # sid BY <1>1, <3>3 DEF NoBreach
      <3> QED BY <3>1, <3>2, <3>3
    <2> QED BY <2>3 DEF NoBreach
  <1>14. ASSUME NEW e \in Alive' PROVE (DeviceKnown(k1, e))'
    <2>1. e \in Alive /\ e \in Devices /\ data[e].state = "live" BY <1>6 DEF Alive
    <2>2. DeviceKnown(k, e) /\ Owned(e) \subseteq Ids BY <2>1, AliveIs
    <2>3. CASE e # d
      <3>1. \A id \in Owned(e) : k1[id] = k[id] BY <1>3, <1>8, <2>1, <2>2, <2>3
      <3> HIDE DEF c, sid
      <3>2. data'[e] = data[e] /\ libinput'[e] = libinput[e] BY <1>2, <2>1, <2>3
      <3> QED BY <2>1, <2>2, <3>1, <3>2, DeviceKept
    <2>4. CASE e = d
      <3>1. ScrollIds(d) \cap TouchIds(d) = {} /\ ScrollIds(d) \cap StylusIds(d) = {}
        BY <1>1, <1>3 DEF IdsOK
      <3>2. sid \in ScrollIds(d) BY DEF ScrollIds
      <3>3. (ScrollKnown(k1, d))' BY <1>2 DEF ScrollKnown
      <3>4. ASSUME "touch" \in Capabilities[d] PROVE (TouchKnown(k1, d))'
        <4>1. ASSUME NEW s \in 0 .. TouchCount[d] - 1
              PROVE k1[data[d].touch_id + s] = k[data[d].touch_id + s]
          <5>1. data[d].touch_id + s \in Owned(d) BY <3>4, AliveIs
          <5>2. data[d] \in Datas BY BeforeIs
          <5>3. data[d].touch_id \in Int /\ TouchCount[d] \in Nat BY <5>2, SlotsIs DEF Datas
          <5>4. data[d].touch_id + s \in TouchIds(d) BY <3>4, <5>3 DEF TouchIds
          <5>5. data[d].touch_id + s # sid BY <3>1, <3>2, <5>4
          <5>6. data[d].touch_id + s # c BY <1>3, <1>8, <5>1
          <5> QED BY <1>3, <5>1, <5>5, <5>6
        <4>2. TouchKnown(k, d) BY <1>3, <3>4 DEF DeviceKnown
        <4>3. libinput'[d].touched = libinput[d].touched /\ data'[d].touch_id = data[d].touch_id
          BY <1>2
        <4> QED BY <4>1, <4>2, <4>3 DEF TouchKnown
      <3>5. ASSUME "tablet" \in Capabilities[d] PROVE (StylusKnown(k1, d))'
        <4>1. data[d].stylus_id \in Owned(d) BY <3>5, AliveIs
        <4>2. data[d].stylus_id # sid BY <3>1, <3>2, <3>5 DEF StylusIds
        <4>3. data[d].stylus_id # c BY <1>3, <1>8, <4>1
        <4>4. StylusKnown(k, d) BY <1>3, <3>5 DEF DeviceKnown
        <4> QED BY <1>2, <1>3, <4>1, <4>2, <4>3, <4>4 DEF StylusKnown
      <3> QED BY <2>4, <3>3, <3>4, <3>5 DEF DeviceKnown
    <2> QED BY <2>3, <2>4
  <1> HIDE DEF c, sid
  <1> QED BY <1>4, <1>5, <1>10, <1>11, <1>12, <1>13, <1>14 DEF Followed, NoBreach

(* The cursor's id belongs to no device.                                   *)
LEMMA CursorApart ==
  ASSUME NEW k, Before(k), NEW c, NEW n, CursorGiven(c, n), NEW d \in Devices,
         data[d].state = "live"
  PROVE  c \notin Owned(d)
  <1>1. input.cursor_id \notin Owned(d) /\ (\A id \in Owned(d) : id < input.next_id)
            /\ Owned(d) \subseteq Ids
    BY AliveIs
  <1>2. input.next_id \notin Owned(d)
    <2>1. SUFFICES ASSUME input.next_id \in Owned(d) PROVE FALSE OBVIOUS
    <2>2. input.next_id < input.next_id BY <1>1, <2>1
    <2> QED BY <2>2, CursorIdIs
  <1> QED BY <1>1, <1>2 DEF CursorGiven

(* An event of the cursor's pointer when a mouse speaks.                   *)
LEMMA MouseEvent ==
  ASSUME NEW k, Before(k), NEW d \in Devices, data[d].state = "live", Room(1), NEW ph \in PhaseNames
  PROVE  LET s == PointerSpeaks(d)
             c == s[1].cursor_id
             p == EmitPointerEvent(s[2], Event(c, ph))
         IN  /\ p \in Outs /\ Known(p) \in Knowledge
             /\ Known(p)[c] = After(Known(s[2])[c], ph)
             /\ \A id \in Ids : id # c => Known(p)[id] = k[id]
  <1> DEFINE s == PointerSpeaks(d)
             c == s[1].cursor_id
             h == Known(s[2])
             p == EmitPointerEvent(s[2], Event(c, ph))
  <1>1. /\ s[2] \in Outs /\ h \in Knowledge /\ c \in Ids
        /\ \A id \in Ids : id # c => h[id] = k[id]
    BY SpeaksKnown
  <1> HIDE DEF s
  <1>2. /\ p \in Outs /\ Known(p) \in Knowledge /\ Known(p)[c] = After(h[c], ph)
        /\ \A j \in Ids : j # c => Known(p)[j] = h[j]
    BY <1>1, OneEvent
  <1> QED BY <1>1, <1>2 DEF s

(* A step of a live mouse: its data, its device and the ids.               *)
LEMMA MouseIs ==
  ASSUME NEW k, Before(k), NEW d \in Devices, data[d].state = "live", "pointer" \in Capabilities[d]
  PROVE  /\ data[d] \in Datas /\ data[d].scroll \in Scrolls /\ libinput[d] \in Libinputs
         /\ data \in [Devices -> Datas] /\ libinput \in [Devices -> Libinputs]
         /\ data[d].buttons = libinput[d].buttons \cap Buttons
         /\ (data[d].scroll.active => data[d].scroll.added)
         /\ data[d].scroll.device_id \in Ids /\ data[d].scroll.device_id \in Owned(d)
         /\ k[data[d].scroll.device_id] = ScrollState(data[d].scroll)
  <1>1. /\ data[d] \in Datas /\ data[d].scroll \in Scrolls /\ libinput[d] \in Libinputs
        /\ LibinputOK
        /\ data \in [Devices -> Datas] /\ libinput \in [Devices -> Libinputs]
    BY BeforeIs
  <1>2. DeviceKnown(k, d) /\ Owned(d) \subseteq Ids /\ data[d].scroll.device_id \in Owned(d)
    BY AliveIs
  <1>3. ScrollKnown(k, d) BY <1>2 DEF DeviceKnown
  <1> QED BY <1>1, <1>2, <1>3 DEF LibinputOK, ScrollKnown

(* Moving and hovering presses nothing.                                    *)
LEMMA MoveIs ==
  ASSUME NEW d, NEW w \in {"up", "down"}
  PROVE  MovePhase(d) \in PhaseNames /\ After(w, MovePhase(d)) = w
  BY PressIs, PhasesAre DEF MovePhase

(* A mouse that moves.                                                     *)
LEMMA MovedToPointers ==
  ASSUME NEW k, Before(k), NEW d \in Devices, NEW pos, MovedTo(d, pos)
  PROVE  Following'
  <1> DEFINE s == PointerSpeaks(d)
             c == s[1].cursor_id
             x == [data[d] EXCEPT !.emitted = TRUE]
             sid == data[d].scroll.device_id
             ph == MovePhase(d)
             w == Known(s[2])[c]
  <1>1. /\ data[d].state = "live" /\ "pointer" \in Capabilities[d] /\ Room(1)
        /\ input' = [s[1] EXCEPT !.cursor = pos]
        /\ out' = EmitPointerEvent(s[2], Event(c, ph))
        /\ data' = [data EXCEPT ![d].emitted = TRUE]
        /\ UNCHANGED <<libinput, excused, keysDown>>
    BY DEF MovedTo, Live, Quiet
  <1>2. /\ data[d] \in Datas /\ libinput[d] \in Libinputs
        /\ data \in [Devices -> Datas] /\ libinput \in [Devices -> Libinputs]
        /\ data[d].buttons = libinput[d].buttons \cap Buttons
        /\ (data[d].scroll.active => data[d].scroll.added)
        /\ sid \in Ids /\ sid \in Owned(d) /\ k[sid] = ScrollState(data[d].scroll)
    BY <1>1, MouseIs
  <1>3. data' = [data EXCEPT ![d] = x] BY <1>1, <1>2
  <1>4. /\ x \in Datas /\ x.state = "live" /\ x.emitted = TRUE /\ x.touch_id = data[d].touch_id
        /\ x.stylus_id = data[d].stylus_id /\ x.tip = data[d].tip /\ x.keyboard = data[d].keyboard
        /\ x.scroll = data[d].scroll /\ x.buttons = data[d].buttons
    BY <1>1, <1>2 DEF Datas
  <1>5. CursorGiven(c, s[1].next_id) /\ PressedBy(w) BY <1>1, SpeaksKnown
  <1>6. s[1] \in Inputs /\ s[1].destroyed = input.destroyed BY SpeaksIs DEF Before
  <1>7. c # sid BY <1>1, <1>2, <1>5, CursorApart
  <1>8. ph \in PhaseNames /\ After(w, ph) = w BY <1>5, MoveIs DEF PressedBy
  <1>9. PICK k1 : k1 = Known(out') OBVIOUS
  <1>10. /\ out' \in Outs /\ k1 \in Knowledge /\ k1[c] = w
         /\ \A id \in Ids : id # c => k1[id] = k[id]
    <2> HIDE DEF ph, sid, x
    <2> QED BY <1>1, <1>8, <1>9, MouseEvent
  <1> HIDE DEF s, x, ph, w
  <1>11. input'.cursor_id = c /\ input'.next_id = s[1].next_id /\ input'.destroyed = input.destroyed
    BY <1>1, <1>6 DEF Inputs
  <1>12. (PressedBy(k1[input.cursor_id]))'
    <2>1. Pressing' = Pressing BY <1>2, <1>3, <1>4 DEF Pressing
    <2> QED BY <1>1, <1>5, <1>10, <1>11, <2>1 DEF PressedBy
  <1>13. libinput' = [libinput EXCEPT ![d] = libinput[d]] BY <1>1, <1>2
  <1> HIDE DEF c, sid
  <1>14. CursorGiven(input'.cursor_id, input'.next_id) BY <1>5, <1>11
  <1>15. \A id \in Ids : id # input'.cursor_id /\ id # sid => k1[id] = k[id] BY <1>10, <1>11
  <1>16. k1[sid] = ScrollState(x.scroll) BY <1>2, <1>4, <1>7, <1>10
  <1>17. (Followed(k1))'
    <2>1. k1[data[d].scroll.device_id] = ScrollState(x.scroll)
          /\ \A id \in Ids : id # input'.cursor_id
                 /\ id # data[d].scroll.device_id => k1[id] = k[id]
      BY <1>15, <1>16 DEF sid
    <2>2. /\ x.scroll.device_id = data[d].scroll.device_id /\ (x.scroll.active => x.scroll.added)
          /\ x.buttons = libinput[d].buttons \cap Buttons
      BY <1>2, <1>4
    <2>3. data[d].state = "live" /\ "pointer" \in Capabilities[d]
          /\ keysDown' = keysDown /\ excused \subseteq excused'
      BY <1>1
    <2>4. k1 \in Knowledge /\ input'.destroyed = input.destroyed /\ libinput[d] \in Libinputs
      BY <1>2, <1>10, <1>11
    <2>5. /\ x \in Datas /\ data' = [data EXCEPT ![d] = x] /\ x.state = "live" /\ x.emitted = TRUE
          /\ x.touch_id = data[d].touch_id /\ x.stylus_id = data[d].stylus_id
          /\ x.tip = data[d].tip /\ x.keyboard = data[d].keyboard
      BY <1>3, <1>4
    <2>6. PICK m : m = libinput[d] OBVIOUS
    <2>7. /\ m \in Libinputs /\ libinput' = [libinput EXCEPT ![d] = m]
          /\ m.present = libinput[d].present /\ m.touched = libinput[d].touched
          /\ m.keys = libinput[d].keys /\ m.tip = libinput[d].tip
          /\ x.buttons = m.buttons \cap Buttons
      BY <1>13, <2>2, <2>4, <2>6
    <2>8. k1 \in Knowledge /\ input'.destroyed = input.destroyed BY <2>4
    <2>9. x.scroll.device_id = data[d].scroll.device_id /\ (x.scroll.active => x.scroll.added)
      BY <2>2
    <2>10. MouseStep(k, k1, d, x, m)
      BY <1>12, <1>14, <2>1, <2>3, <2>5, <2>7, <2>8, <2>9 DEF MouseStep
    <2> QED BY <2>5, <2>7, <2>8, <2>10, MouseActs
  <1> QED BY <1>9, <1>10, <1>17, FollowingFrom

(* A mouse button: down with the first, up with the last of all mice.      *)
LEMMA ButtonPointers ==
  ASSUME NEW k, Before(k), NEW d \in Devices, NEW button \in Buttons \cup {"other"},
         NEW pressed \in BOOLEAN,
         OnMouseButton(d, button, pressed)
  PROVE  Following'
  <1> DEFINE s == PointerSpeaks(d)
             c == s[1].cursor_id
             before == data[d].buttons
             after == IF pressed THEN before \cup ({button} \cap Buttons) ELSE before \ {button}
             others == {e \in Devices \ {d} : data[e].buttons # {}}
             L == libinput[d].buttons
             T == IF pressed THEN L \cup {button} ELSE L \ {button}
             x == [data[d] EXCEPT !.emitted = TRUE, !.buttons = after]
             m == [libinput[d] EXCEPT !.buttons = T]
             sid == data[d].scroll.device_id
             ph == ButtonPhase(before, after)
             w == Known(s[2])[c]
  <1>1. /\ data[d].state = "live" /\ "pointer" \in Capabilities[d] /\ Room(1)
        /\ libinput' = [libinput EXCEPT ![d].buttons
               = IF pressed THEN @ \cup {button} ELSE @ \ {button}]
        /\ input' = s[1]
        /\ out' = IF after = before THEN s[2] ELSE EmitPointerEvent(s[2], Event(c, ph))
        /\ data' = [data EXCEPT ![d].emitted = TRUE, ![d].buttons = after]
        /\ excused' = IF after # {} /\ others # {} THEN excused \cup {"two mice"} ELSE excused
        /\ keysDown' = keysDown
    BY DEF OnMouseButton, Live, Quiet
  <1>2. /\ data[d] \in Datas /\ libinput[d] \in Libinputs
        /\ data \in [Devices -> Datas] /\ libinput \in [Devices -> Libinputs]
        /\ before = L \cap Buttons
        /\ (data[d].scroll.active => data[d].scroll.added)
        /\ sid \in Ids /\ sid \in Owned(d) /\ k[sid] = ScrollState(data[d].scroll)
    BY <1>1, MouseIs
  <1>3. before \in SUBSET Buttons /\ L \in SUBSET (Buttons \cup {"other"})
    BY <1>2 DEF Datas, Libinputs
  <1>4. after \in SUBSET Buttons /\ T \in SUBSET (Buttons \cup {"other"}) /\ after = T \cap Buttons
    BY <1>2, <1>3
  <1>5. libinput' = [libinput EXCEPT ![d] = m]
    <2>1. libinput' = [libinput EXCEPT ![d].buttons = T] BY <1>1
    <2> HIDE DEF T
    <2> QED BY <1>2, <2>1
  <1>6. data' = [data EXCEPT ![d] = x]
    <2> HIDE DEF after
    <2> QED BY <1>1, <1>2
  <1>7. /\ x \in Datas /\ x.state = "live" /\ x.emitted = TRUE /\ x.touch_id = data[d].touch_id
        /\ x.stylus_id = data[d].stylus_id /\ x.tip = data[d].tip /\ x.keyboard = data[d].keyboard
        /\ x.scroll = data[d].scroll /\ x.buttons = after
    <2> HIDE DEF after
    <2> QED BY <1>1, <1>2, <1>4 DEF Datas
  <1>8. /\ m \in Libinputs /\ m.present = libinput[d].present /\ m.touched = libinput[d].touched
        /\ m.keys = libinput[d].keys /\ m.tip = libinput[d].tip /\ m.buttons = T
    <2> HIDE DEF T
    <2> QED BY <1>2, <1>4 DEF Libinputs
  <1>9. CursorGiven(c, s[1].next_id) /\ PressedBy(w) BY <1>1, SpeaksKnown
  <1>10. /\ s[2] \in Outs /\ Known(s[2]) \in Knowledge /\ c \in Ids
         /\ \A id \in Ids : id # c => Known(s[2])[id] = k[id]
    BY <1>1, SpeaksKnown
  <1>11. s[1] \in Inputs /\ s[1].destroyed = input.destroyed BY SpeaksIs DEF Before
  <1>12. c # sid BY <1>1, <1>2, <1>9, CursorApart
  <1>13. ph \in PhaseNames /\ ph \in {"up", "down", "move"} BY PhasesAre DEF ButtonPhase
  <1>14. PICK k1 : k1 = Known(out') OBVIOUS
  <1>15. /\ out' \in Outs /\ k1 \in Knowledge /\ \A id \in Ids : id # c => k1[id] = k[id]
         /\ k1[c] = IF after = before THEN w ELSE After(w, ph)
    <2>1. CASE after = before
      <3> HIDE DEF after, before, s
      <3> QED BY <1>1, <1>10, <1>14, <2>1
    <2>2. CASE after # before
      <3>1. out' = EmitPointerEvent(s[2], Event(c, ph)) BY <1>1, <2>2
      <3> HIDE DEF ph, after, before, sid, x, T, m
      <3>2. data[d].state = "live" /\ Room(1) BY <1>1
      <3>3. /\ EmitPointerEvent(s[2], Event(c, ph)) \in Outs
            /\ Known(EmitPointerEvent(s[2], Event(c, ph))) \in Knowledge
            /\ Known(EmitPointerEvent(s[2], Event(c, ph)))[c] = After(w, ph)
            /\ \A id \in Ids : id # c => Known(EmitPointerEvent(s[2], Event(c, ph)))[id] = k[id]
        BY <1>13, <3>2, MouseEvent
      <3> HIDE DEF s, c, w
      <3> QED BY <1>14, <2>2, <3>1, <3>3
    <2> QED BY <2>1, <2>2
  <1> HIDE DEF s, x, m, T
  <1>16. k1[c] = (IF after = before \/ ph = "move" THEN w ELSE ph) /\ k1[c] \in {"up", "down"}
    <2>1. w \in {"up", "down"} BY <1>9 DEF PressedBy
    <2> HIDE DEF ph, after, before, w, c
    <2> QED BY <1>13, <1>15, <2>1, PressIs
  <1>17. input'.cursor_id = c /\ input'.next_id = s[1].next_id /\ input'.destroyed = input.destroyed
    BY <1>1, <1>11
  <1>18. (PressedBy(k1[input.cursor_id]))'
    <2>1. Pressing' = IF after = {} THEN Pressing \ {d} ELSE Pressing \cup {d}
      <3>1. data'[d].buttons = after /\ \A e \in Devices : e # d => data'[e] = data[e]
        BY <1>2, <1>6, <1>7
      <3> HIDE DEF after
      <3> QED BY <3>1 DEF Pressing
    <2>2. d \in Pressing <=> before # {} BY DEF Pressing
    <2>3. others = Pressing \ {d} BY DEF Pressing
    <2>4. excused \subseteq excused' /\ (after # {} /\ others # {} => "two mice" \in excused')
      BY <1>1
    <2>5. /\ w \in {"up", "down"} /\ (w = "down" => Pressing # {})
          /\ "two mice" \notin excused =>
                (Pressing # {} => w = "down") /\ (\A e, f \in Pressing : e = f)
      BY <1>9 DEF PressedBy
    <2>6. ph = IF after = {} THEN "up" ELSE IF before = {} THEN "down" ELSE "move"
      BY DEF ButtonPhase
    <2> HIDE DEF after, before, others, ph, w
    <2>7. /\ k1[c] \in {"up", "down"} /\ (k1[c] = "down" => Pressing' # {})
          /\ "two mice" \notin excused' =>
                (Pressing' # {} => k1[c] = "down") /\ (\A e, f \in Pressing' : e = f)
      <3>1. CASE after = before BY <1>16, <2>1, <2>2, <2>4, <2>5, <3>1
      <3>2. CASE after # before /\ after = {}
        <4>1. k1[c] = "up" BY <1>16, <2>6, <3>2
        <4>2. "two mice" \notin excused' => Pressing' = {} BY <2>1, <2>2, <2>4, <2>5, <3>2
        <4> QED BY <4>1, <4>2
      <3>3. CASE after # before /\ after # {} /\ before = {}
        <4>1. k1[c] = "down" BY <1>16, <2>6, <3>3
        <4>2. "two mice" \notin excused' => Pressing' = {d} BY <2>1, <2>3, <2>4, <3>3
        <4>3. d \in Pressing' BY <2>1, <3>3
        <4> QED BY <4>1, <4>2, <4>3
      <3>4. CASE after # before /\ after # {} /\ before # {}
        <4>1. k1[c] = w BY <1>16, <2>6, <3>4
        <4>2. Pressing' = Pressing /\ Pressing # {} BY <2>1, <2>2, <3>4
        <4> QED BY <2>4, <2>5, <4>1, <4>2
      <3> QED BY <3>1, <3>2, <3>3, <3>4
    <2> QED BY <1>17, <2>7 DEF PressedBy
  <1> HIDE DEF c, sid, w, ph
  <1>19. CursorGiven(input'.cursor_id, input'.next_id) BY <1>9, <1>17
  <1>20. (Followed(k1))'
    <2>1. k1[data[d].scroll.device_id] = ScrollState(x.scroll)
          /\ \A id \in Ids : id # input'.cursor_id
                 /\ id # data[d].scroll.device_id => k1[id] = k[id]
      BY <1>2, <1>7, <1>12, <1>15, <1>17 DEF sid
    <2>2. /\ x.scroll.device_id = data[d].scroll.device_id /\ (x.scroll.active => x.scroll.added)
          /\ x.buttons = m.buttons \cap Buttons
      BY <1>2, <1>4, <1>7, <1>8
    <2>3. data[d].state = "live" /\ "pointer" \in Capabilities[d]
          /\ keysDown' = keysDown /\ excused \subseteq excused'
      BY <1>1
    <2>4. k1 \in Knowledge /\ input'.destroyed = input.destroyed BY <1>15, <1>17
    <2> HIDE DEF after, before, others, L
    <2>5. /\ x \in Datas /\ data' = [data EXCEPT ![d] = x] /\ x.state = "live" /\ x.emitted = TRUE
          /\ x.touch_id = data[d].touch_id /\ x.stylus_id = data[d].stylus_id
          /\ x.tip = data[d].tip /\ x.keyboard = data[d].keyboard
      BY <1>6, <1>7
    <2>6. /\ m \in Libinputs /\ libinput' = [libinput EXCEPT ![d] = m]
          /\ m.present = libinput[d].present /\ m.touched = libinput[d].touched
          /\ m.keys = libinput[d].keys /\ m.tip = libinput[d].tip
      BY <1>5, <1>8
    <2>7. MouseStep(k, k1, d, x, m)
      BY <1>18, <1>19, <2>1, <2>2, <2>3, <2>4, <2>5, <2>6 DEF MouseStep
    <2> QED BY <2>4, <2>5, <2>6, <2>7, MouseActs
  <1> QED BY <1>14, <1>15, <1>20, FollowingFrom

(* A wheel, or a finger on a touchpad, which pans with a pointer of its    *)
(* own.                                                                    *)
LEMMA AxisPointers ==
  ASSUME NEW k, Before(k), NEW d \in Devices, NEW finger \in BOOLEAN, NEW dx \in Axis,
         NEW dy \in Axis,
         OnMouseAxis(d, finger, dx, dy)
  PROVE  Following'
  <1> DEFINE s == PointerSpeaks(d)
             c == s[1].cursor_id
             pan == ScrollFinger(data[d].scroll, dx, dy)
             scroll == IF finger THEN pan[1] ELSE data[d].scroll
             x == [data[d] EXCEPT !.emitted = TRUE, !.scroll = scroll]
             sid == data[d].scroll.device_id
             ph == MovePhase(d)
             w == Known(s[2])[c]
             h == Known(s[2])
  <1>1. /\ data[d].state = "live" /\ "pointer" \in Capabilities[d] /\ Room(1)
        /\ input' = s[1]
        /\ out' = IF finger THEN EmitPointerEvents(s[2], PhaseEvents(sid, pan[2]))
                  ELSE EmitPointerEvent(s[2], Event(c, ph))
        /\ data' = [data EXCEPT ![d].emitted = TRUE, ![d].scroll = IF finger THEN pan[1] ELSE @]
        /\ UNCHANGED <<libinput, excused, keysDown>>
    BY DEF OnMouseAxis, Live, Quiet
  <1>2. /\ data[d] \in Datas /\ data[d].scroll \in Scrolls /\ libinput[d] \in Libinputs
        /\ data \in [Devices -> Datas] /\ libinput \in [Devices -> Libinputs]
        /\ data[d].buttons = libinput[d].buttons \cap Buttons
        /\ (data[d].scroll.active => data[d].scroll.added)
        /\ sid \in Ids /\ sid \in Owned(d) /\ k[sid] = ScrollState(data[d].scroll)
    BY <1>1, MouseIs
  <1>3. /\ pan[1] \in Scrolls /\ pan[2] \in PhaseSeqs
        /\ Path(ScrollState(data[d].scroll), pan[2]) = ScrollState(pan[1])
        /\ pan[1].device_id = sid /\ (pan[1].active => pan[1].added)
    BY <1>2, ScrollFingerIs, ScrollFingerKnown
  <1> HIDE DEF pan
  <1>4. scroll \in Scrolls /\ scroll.device_id = sid /\ (scroll.active => scroll.added)
    BY <1>2, <1>3
  <1>5. data' = [data EXCEPT ![d] = x] BY <1>1, <1>2 DEF Datas
  <1> HIDE DEF scroll
  <1>6. /\ x \in Datas /\ x.state = "live" /\ x.emitted = TRUE /\ x.touch_id = data[d].touch_id
        /\ x.stylus_id = data[d].stylus_id /\ x.tip = data[d].tip /\ x.keyboard = data[d].keyboard
        /\ x.scroll = scroll /\ x.buttons = data[d].buttons
    BY <1>1, <1>2, <1>4 DEF Datas
  <1>7. /\ CursorGiven(c, s[1].next_id) /\ PressedBy(w)
        /\ s[2] \in Outs /\ h \in Knowledge /\ c \in Ids
        /\ \A id \in Ids : id # c => h[id] = k[id]
    BY <1>1, SpeaksKnown
  <1>8. s[1] \in Inputs /\ s[1].destroyed = input.destroyed BY SpeaksIs DEF Before
  <1>9. c # sid BY <1>1, <1>2, <1>7, CursorApart
  <1>10. ph \in PhaseNames /\ After(w, ph) = w BY <1>7, MoveIs DEF PressedBy
  <1>11. PICK k1 : k1 = Known(out') OBVIOUS
  <1>12. /\ out' \in Outs /\ k1 \in Knowledge /\ k1[c] = w /\ k1[sid] = ScrollState(scroll)
         /\ \A id \in Ids : id # c /\ id # sid => k1[id] = k[id]
    <2>1. CASE finger
      <3> DEFINE es == PhaseEvents(sid, pan[2])
      <3>1. out' = EmitPointerEvents(s[2], es) BY <1>1, <2>1
      <3>2. es \in Seq(Events) BY <1>2, <1>3, PhaseEventsAre
      <3>3. /\ Track(h, es) \in Knowledge /\ Track(h, es)[sid] = Path(h[sid], pan[2])
            /\ \A j \in Ids : j # sid => Track(h, es)[j] = h[j]
        BY <1>2, <1>3, <1>7, TrackPhases
      <3> HIDE DEF es
      <3>4. out' \in Outs /\ k1 = Track(h, es) BY <1>7, <1>11, <3>1, <3>2, EmitMany
      <3>5. h[sid] = ScrollState(data[d].scroll) BY <1>2, <1>7, <1>9
      <3>6. scroll = pan[1] BY <2>1 DEF scroll
      <3> HIDE DEF h, s, c, sid
      <3>7. w = h[c] BY DEF h
      <3> QED BY <1>3, <1>7, <1>9, <3>3, <3>4, <3>5, <3>6, <3>7
    <2>2. CASE ~finger
      <3>1. out' = EmitPointerEvent(s[2], Event(c, ph)) /\ scroll = data[d].scroll
        BY <1>1, <2>2 DEF scroll
      <3>2. /\ out' \in Outs /\ k1 \in Knowledge /\ k1[c] = w
                   /\ \A id \in Ids : id # c => k1[id] = k[id]
        <4> HIDE DEF ph, sid, x
        <4> QED BY <1>1, <1>10, <1>11, <3>1, MouseEvent
      <3> QED BY <1>2, <1>9, <3>1, <3>2
    <2> QED BY <2>1, <2>2
  <1> HIDE DEF s, x, ph, w
  <1>13. input'.cursor_id = c /\ input'.next_id = s[1].next_id /\ input'.destroyed = input.destroyed
    BY <1>1, <1>8
  <1>14. (PressedBy(k1[input.cursor_id]))'
    <2>1. Pressing' = Pressing BY <1>2, <1>5, <1>6 DEF Pressing
    <2> QED BY <1>1, <1>7, <1>12, <1>13, <2>1 DEF PressedBy
  <1>15. libinput' = [libinput EXCEPT ![d] = libinput[d]] BY <1>1, <1>2
  <1> HIDE DEF c, sid, h
  <1>16. CursorGiven(input'.cursor_id, input'.next_id) BY <1>7, <1>13
  <1>17. (Followed(k1))'
    <2>1. k1[data[d].scroll.device_id] = ScrollState(x.scroll)
          /\ \A id \in Ids : id # input'.cursor_id
                 /\ id # data[d].scroll.device_id => k1[id] = k[id]
      BY <1>6, <1>12, <1>13 DEF sid
    <2>2. /\ x.scroll.device_id = data[d].scroll.device_id /\ (x.scroll.active => x.scroll.added)
          /\ x.buttons = libinput[d].buttons \cap Buttons
      BY <1>2, <1>4, <1>6 DEF sid
    <2>3. data[d].state = "live" /\ "pointer" \in Capabilities[d]
          /\ keysDown' = keysDown /\ excused \subseteq excused'
      BY <1>1
    <2>4. k1 \in Knowledge /\ input'.destroyed = input.destroyed /\ libinput[d] \in Libinputs
      BY <1>2, <1>12, <1>13
    <2>5. PICK m : m = libinput[d] OBVIOUS
    <2>6. /\ m \in Libinputs /\ libinput' = [libinput EXCEPT ![d] = m]
          /\ m.present = libinput[d].present /\ m.touched = libinput[d].touched
          /\ m.keys = libinput[d].keys /\ m.tip = libinput[d].tip
          /\ x.buttons = m.buttons \cap Buttons
      BY <1>15, <2>2, <2>4, <2>5
    <2>7. /\ x \in Datas /\ data' = [data EXCEPT ![d] = x] /\ x.state = "live" /\ x.emitted = TRUE
          /\ x.touch_id = data[d].touch_id /\ x.stylus_id = data[d].stylus_id
          /\ x.tip = data[d].tip /\ x.keyboard = data[d].keyboard
      BY <1>5, <1>6
    <2>8. k1 \in Knowledge /\ input'.destroyed = input.destroyed BY <2>4
    <2>9. x.scroll.device_id = data[d].scroll.device_id /\ (x.scroll.active => x.scroll.added)
      BY <2>2
    <2>10. MouseStep(k, k1, d, x, m)
      BY <1>14, <1>16, <2>1, <2>3, <2>6, <2>7, <2>8, <2>9 DEF MouseStep
    <2> QED BY <2>6, <2>7, <2>8, <2>10, MouseActs
  <1> QED BY <1>11, <1>12, <1>17, FollowingFrom

(* One event for every id of a range, and for a slot more.                 *)
EventsOf(a, n, ph) == [i \in 1 .. n |-> Event(a + i - 1, ph)]
Announces(a, n, stylus) ==
    EventsOf(a, n, "add") \o (IF stylus = 1 THEN <<Event(a + n, "add")>> ELSE <<>>)

(* The events of a range of ids.                                           *)
LEMMA RangeIs ==
  ASSUME NEW a \in Int, NEW n \in Nat, a .. a + n - 1 \subseteq Ids, NEW ph \in PhaseNames
  PROVE  LET es == EventsOf(a, n, ph)
         IN  /\ es \in Seq(Events) /\ Len(es) = n
             /\ \A i \in 1 .. n : es[i].id = a + i - 1 /\ es[i].phase = ph
  <1> DEFINE es == EventsOf(a, n, ph)
  <1>1. es = [i \in 1 .. n |-> Event(a + i - 1, ph)] BY DEF EventsOf
  <1>2. ASSUME NEW i \in 1 .. n
        PROVE es[i] \in Events /\ es[i].id = a + i - 1 /\ es[i].phase = ph
    <2>1. a + i - 1 \in Ids OBVIOUS
    <2>2. es[i] = Event(a + i - 1, ph) BY <1>1
    <2> QED BY <2>1, <2>2, EventIs
  <1>3. es = [i \in 1 .. n |-> es[i]] BY <1>1
  <1> HIDE DEF es
  <1>4. es \in [1 .. n -> Events] BY <1>2, <1>3
  <1>5. es \in Seq(Events) BY <1>4, IsASeq
  <1>6. Len(es) = n
    <2>1. DOMAIN es = 1 .. n BY <1>4
    <2> QED BY <1>5, <2>1, LenProperties
  <1> QED BY <1>2, <1>5, <1>6 DEF es

(* Each of a range's pointers goes through the phase, the others stay.     *)
LEMMA RangeEvents ==
  ASSUME NEW k \in Knowledge, NEW a \in Int, NEW n \in Nat, a .. a + n - 1 \subseteq Ids,
         NEW ph \in PhaseNames
  PROVE  LET h == Track(k, EventsOf(a, n, ph))
         IN  /\ h \in Knowledge
             /\ \A id \in Ids : h[id] = IF id \in a .. a + n - 1 THEN After(k[id], ph) ELSE k[id]
  <1> DEFINE es == EventsOf(a, n, ph)
  <1>1. es \in Seq(Events) /\ Len(es) = n BY RangeIs
  <1>2. \A i \in 1 .. n : es[i].id = a + i - 1 /\ es[i].phase = ph BY RangeIs
  <1> HIDE DEF es
  <1>3. ASSUME NEW id \in Ids, id \in a .. a + n - 1 PROVE Track(k, es)[id] = After(k[id], ph)
    <2> DEFINE j == id - a + 1
    <2>1. j \in 1 .. n /\ a + j - 1 = id BY <1>3
    <2>2. es[j].id = id /\ es[j].phase = ph BY <1>2, <2>1
    <2>3. ASSUME NEW i \in 1 .. n, i # j PROVE es[i].id # id
      <3>1. es[i].id = a + i - 1 BY <1>2
      <3> QED BY <2>1, <2>3, <3>1
    <2> HIDE DEF j
    <2> QED BY <1>1, <2>1, <2>2, <2>3, Once
  <1>4. ASSUME NEW id \in Ids, id \notin a .. a + n - 1 PROVE Track(k, es)[id] = k[id]
    <2>1. ASSUME NEW i \in 1 .. n PROVE es[i].id # id
      <3>1. es[i].id = a + i - 1 /\ a + i - 1 \in a .. a + n - 1 BY <1>2
      <3> QED BY <1>4, <3>1
    <2> QED BY <1>1, <2>1, Untouched
  <1>5. Track(k, es) \in Knowledge BY <1>1, TrackType
  <1> QED BY <1>3, <1>4, <1>5 DEF es

(* The slots of a device and its stylus are announced.                     *)
LEMMA Announced ==
  ASSUME NEW k, Before(k), NEW a \in Int, NEW n \in Nat, NEW stylus \in {0, 1},
         a >= input.next_id, NEW all \in Int, all = a + n + stylus, all <= MaxIds
  PROVE  LET p == EmitPointerEvents(out, Announces(a, n, stylus))
         IN  /\ p \in Outs /\ Known(p) \in Knowledge
             /\ \A id \in Ids : Known(p)[id] = IF id \in a .. all - 1 THEN "up" ELSE k[id]
  <1> DEFINE r == EventsOf(a, n, "add")
             e == Event(a + n, "add")
             t == IF stylus = 1 THEN <<e>> ELSE <<>>
             p == EmitPointerEvents(out, r \o t)
             h == Track(k, r)
  <1>1. Announces(a, n, stylus) = r \o t BY DEF Announces
  <1>2. k \in Knowledge /\ out \in Outs /\ Known(out) = k /\ Unused(k) BY BeforeIs
  <1>3. "add" \in PhaseNames BY DEF PhaseNames
  <1>4. MaxIds \in Nat /\ input.next_id \in 0 .. MaxIds BY BeforeIs, InputConstants DEF IdsOK
  <1>5. a .. a + n - 1 \subseteq Ids BY <1>4 DEF Ids
  <1>6. r \in Seq(Events) BY <1>3, <1>5, RangeIs
  <1>7. h \in Knowledge
        /\ \A id \in Ids : h[id] = IF id \in a .. a + n - 1 THEN After(k[id], "add") ELSE k[id]
    BY <1>2, <1>3, <1>5, RangeEvents
  <1> HIDE DEF r, h
  <1>8. \A id \in Ids : id >= a => k[id] = "absent"
    <2> TAKE id \in Ids
    <2>1. id \in Int BY CursorIdIs
    <2> QED BY <1>2, <1>4, <2>1 DEF Unused
  <1>9. After("absent", "add") = "up" BY DEF After
  <1>10. \A id \in Ids : h[id] = IF id \in a .. a + n - 1 THEN "up" ELSE k[id]
    <2> TAKE id \in Ids
    <2> QED BY <1>7, <1>8, <1>9
  <1>11. CASE stylus = 1
    <2>1. a + n \in Ids BY <1>4, <1>11 DEF Ids
    <2>2. e \in Events /\ e.id = a + n /\ e.phase = "add" BY <1>3, <2>1, EventIs
    <2>3. t = <<e>> BY <1>11
    <2> HIDE DEF e, t
    <2>4. t \in Seq(Events) BY <2>2, <2>3
    <2>5. r \o t \in Seq(Events) BY <1>6, <2>4, ConcatProperties
    <2>6. Track(k, r \o t) = Accept(h, e)
      <3>1. Track(k, r \o t) = Track(Track(k, r), t) BY <1>6, <2>4, TrackConcat
      <3> QED BY <2>3, <3>1, TrackOne DEF h
    <2>7. /\ Accept(h, e) \in Knowledge /\ Accept(h, e)[a + n] = After(h[a + n], "add")
          /\ \A id \in Ids : id # a + n => Accept(h, e)[id] = h[id]
      BY <1>7, <2>2, AcceptIs
    <2>8. h[a + n] = "absent" BY <1>8, <1>10, <2>1
    <2>9. p \in Outs /\ Known(p) = Accept(h, e) BY <1>2, <2>5, <2>6, EmitMany
    <2>10. ASSUME NEW id \in Ids PROVE Known(p)[id] = IF id \in a .. all - 1 THEN "up" ELSE k[id]
      <3>1. id \in Int BY CursorIdIs
      <3> HIDE DEF p
      <3>2. CASE id = a + n BY <1>9, <1>11, <2>7, <2>8, <2>9, <3>2
      <3>3. CASE id # a + n
        <4>1. Known(p)[id] = h[id] BY <2>7, <2>9, <3>3
        <4>2. id \in a .. all - 1 <=> id \in a .. a + n - 1 BY <1>11, <3>1, <3>3
        <4> QED BY <1>10, <4>1, <4>2
      <3> QED BY <3>2, <3>3
    <2> HIDE DEF p
    <2> QED BY <1>1, <2>7, <2>9, <2>10 DEF p
  <1>12. CASE stylus = 0
    <2>1. t = <<>> BY <1>12
    <2>2. r \o t = r BY <1>6, <2>1, ConcatEmptySeq
    <2>3. p \in Outs /\ Known(p) = h BY <1>2, <1>6, <2>2, EmitMany DEF h
    <2> HIDE DEF p
    <2>4. ASSUME NEW id \in Ids PROVE Known(p)[id] = IF id \in a .. all - 1 THEN "up" ELSE k[id]
      BY <1>10, <1>12, <2>3
    <2> QED BY <1>1, <1>7, <2>3, <2>4 DEF p
  <1> QED BY <1>11, <1>12

(* A device is there that was not.                                         *)
LEMMA DeviceComes ==
  ASSUME NEW k, Before(k), NEW k1 \in Knowledge, NEW d \in Devices, data[d].state = "null",
         NEW x \in Datas, data' = [data EXCEPT ![d] = x], x.state \in {"live", "freed"},
         x.buttons = {}, x.emitted = FALSE, x.tip = FALSE, x.scroll.active = FALSE,
         x.state = "freed" => x.keyboard = FALSE,
         libinput' = [libinput EXCEPT ![d].present = TRUE],
         input'.cursor_id = input.cursor_id, input'.next_id \in input.next_id .. MaxIds,
         keysDown' = keysDown, excused \subseteq excused',
         \A id \in Ids : id < input.next_id => k1[id] = k[id],
         \A id \in Ids : id >= input'.next_id => k1[id] = "absent",
         \A id \in Ids : k1[id] # "breach",
         x.state = "live" =>
            /\ Owned(d)' \subseteq input.next_id .. input'.next_id - 1
            /\ ScrollIds(d)' \cap TouchIds(d)' = {} /\ ScrollIds(d)' \cap StylusIds(d)' = {}
            /\ TouchIds(d)' \cap StylusIds(d)' = {}
            /\ (DeviceKnown(k1, d))'
  PROVE  (Followed(k1))'
  <1> DEFINE m == [libinput[d] EXCEPT !.present = TRUE]
  <1>1. /\ data \in [Devices -> Datas] /\ libinput \in [Devices -> Libinputs] /\ LibinputOK /\ IdsOK
        /\ KeysKnown /\ Unused(k) /\ NoBreach(k) /\ CursorKnown(k) /\ libinput[d] \in Libinputs
        /\ input.next_id \in Int
    BY BeforeIs
  <1>2. ~data[d].emitted BY DEF Before, InputInv, SpeakersOK, Speakers
  <1>3. Released(d) /\ data[d].buttons = {} /\ ~data[d].keyboard BY <1>1 DEF LibinputOK
  <1>4. m \in Libinputs /\ m.present /\ m.touched = {} /\ m.buttons = {} /\ m.keys = {} /\ ~m.tip
        /\ libinput[d].keys = {}
    BY <1>1, <1>3 DEF Released, Libinputs
  <1>5. libinput' = [libinput EXCEPT ![d] = m] BY <1>1
  <1> HIDE DEF m
  <1>6. /\ data'[d] = x /\ libinput'[d] = m /\ libinput' \in [Devices -> Libinputs]
        /\ \A e \in Devices : e # d => libinput'[e] = libinput[e] /\ data'[e] = data[e]
    BY <1>1, <1>4, <1>5
  <1>7. LibinputOK'
    <2>1. {e \in Devices : libinput'[e].present} = {e \in Devices : libinput[e].present} \cup {d}
      BY <1>4, <1>6
    <2>2. IsFiniteSet({e \in Devices : libinput'[e].present})
      <3> DEFINE P == {e \in Devices : libinput[e].present}
      <3>1. IsFiniteSet(P) BY <1>1 DEF LibinputOK
      <3> HIDE DEF P
      <3>2. IsFiniteSet(P \cup {d}) BY <3>1, FS_AddElement
      <3> QED BY <2>1, <3>2 DEF P
    <2>3. ASSUME NEW e \in Devices
          PROVE  /\ libinput'[e].present <=> data'[e].state # "null"
                 /\ data'[e].state # "live" => Released(e)' /\ data'[e].buttons = {}
                        /\ ~data'[e].keyboard
                 /\ data'[e].buttons = libinput'[e].buttons \cap Buttons
                 /\ data'[e].tip = libinput'[e].tip
                 /\ data'[e].buttons # {} => data'[e].emitted
                 /\ data'[e].scroll.active => data'[e].scroll.added
      <3>1. CASE e = d
        <4>1. Released(d)' BY <1>4, <1>6 DEF Released
        <4>2. libinput'[d].tip \in BOOLEAN BY <1>4, <1>6 DEF Libinputs
        <4> QED BY <1>4, <1>6, <3>1, <4>1, <4>2
      <3>2. CASE e # d
        <4>1. libinput'[e] = libinput[e] /\ data'[e] = data[e] BY <1>6, <3>2
        <4>2. Released(e)' = Released(e) BY <4>1 DEF Released
        <4> QED BY <1>1, <4>1, <4>2 DEF LibinputOK
      <3> QED BY <3>1, <3>2
    <2> QED BY <1>6, <2>2, <2>3 DEF LibinputOK
  <1>8. /\ \A e \in Alive : e # d /\ e \in Devices /\ e \in Alive'
        /\ \A e \in Alive' : e = d \/ e \in Alive
        /\ d \in Alive' => x.state = "live"
    BY <1>6 DEF Alive
  <1>9. ASSUME NEW e \in Alive
        PROVE  /\ ScrollIds(e)' = ScrollIds(e) /\ TouchIds(e)' = TouchIds(e)
               /\ StylusIds(e)' = StylusIds(e) /\ Owned(e)' = Owned(e)
    <2>1. data'[e] = data[e] BY <1>6, <1>8
    <2> QED BY <2>1 DEF ScrollIds, TouchIds, StylusIds, Owned
  <1>10. IdsOK'
    <2>1. MaxIds \in Nat /\ input.next_id \in 0 .. MaxIds
              /\ input.cursor_id \in -1 .. input.next_id - 1
      BY <1>1, InputConstants DEF IdsOK
    <2>2. input'.next_id \in 0 .. MaxIds /\ input'.cursor_id \in -1 .. input'.next_id - 1 BY <2>1
    <2>3. \A e \in Alive : Owned(e) \subseteq 0 .. input.next_id - 1
              /\ input.cursor_id \notin Owned(e)
      BY <1>1 DEF IdsOK
    <2>4. ASSUME NEW e \in Alive'
          PROVE  /\ Owned(e)' \subseteq 0 .. input'.next_id - 1 /\ input'.cursor_id \notin Owned(e)'
                 /\ ScrollIds(e)' \cap TouchIds(e)' = {} /\ ScrollIds(e)' \cap StylusIds(e)' = {}
                 /\ TouchIds(e)' \cap StylusIds(e)' = {}
      <3>1. CASE e \in Alive
        <4>1. Owned(e)' = Owned(e) /\ Owned(e) \subseteq 0 .. input.next_id - 1
              /\ input.cursor_id \notin Owned(e)
          BY <1>9, <2>3, <3>1
        <4>2. Owned(e)' \subseteq 0 .. input'.next_id - 1 BY <2>1, <4>1
        <4> QED BY <1>1, <1>9, <3>1, <4>1, <4>2 DEF IdsOK
      <3>2. CASE e = d
        <4>1. Owned(d)' \subseteq input.next_id .. input'.next_id - 1 BY <1>8, <3>2
        <4> QED BY <1>8, <2>1, <3>2, <4>1
      <3> QED BY <1>8, <3>1, <3>2
    <2>5. ASSUME NEW e \in Alive', NEW f \in Alive', e # f PROVE Owned(e)' \cap Owned(f)' = {}
      <3>1. CASE e \in Alive /\ f \in Alive BY <1>1, <1>9, <2>5, <3>1 DEF IdsOK
      <3>2. CASE e = d /\ f \in Alive
        <4>1. Owned(d)' \subseteq input.next_id .. input'.next_id - 1 BY <1>8, <3>2
        <4>2. Owned(f)' \subseteq 0 .. input.next_id - 1 BY <1>9, <2>3, <3>2
        <4> QED BY <2>1, <3>2, <4>1, <4>2
      <3>3. CASE f = d /\ e \in Alive
        <4>1. Owned(d)' \subseteq input.next_id .. input'.next_id - 1 BY <1>8, <3>3
        <4>2. Owned(e)' \subseteq 0 .. input.next_id - 1 BY <1>9, <2>3, <3>3
        <4> QED BY <2>1, <3>3, <4>1, <4>2
      <3> QED BY <1>8, <2>5, <3>1, <3>2, <3>3
    <2> QED BY <2>2, <2>4, <2>5 DEF IdsOK
  <1>11. (CursorKnown(k1))'
    <2>1. input.cursor_id # -1 => k1[input.cursor_id] = k[input.cursor_id] BY CursorIdIs
    <2>2. \A e \in Devices : data'[e].emitted = data[e].emitted
              /\ data'[e].buttons = data[e].buttons
      <3>1. data[d].emitted = FALSE
        <4>1. data[d].emitted \in BOOLEAN BY <1>1 DEF Datas
        <4> QED BY <1>2, <4>1
      <3> QED BY <1>3, <1>6, <3>1
    <2> QED BY <2>1, <2>2, CursorKept
  <1>12. KeysKnown'
    <2>1. \A e \in Devices : libinput'[e].keys = libinput[e].keys BY <1>4, <1>6
    <2>2. \A e \in Devices : data[e].keyboard => data'[e].keyboard BY <1>3, <1>6
    <2>3. \A e \in Devices : data'[e].keyboard => data[e].keyboard \/ libinput[e].keys = {}
      BY <1>4, <1>6
    <2> QED BY <1>1, <2>1, <2>2, <2>3 DEF KeysKnown
  <1>13. (Unused(k1))' BY DEF Unused
  <1>14. ASSUME NEW e \in Alive' PROVE (DeviceKnown(k1, e))'
    <2>1. CASE e = d BY <1>8, <2>1
    <2>2. CASE e \in Alive
      <3>1. e # d /\ e \in Devices /\ data[e].state = "live" BY <1>8, <2>2 DEF Alive
      <3>2. DeviceKnown(k, e) /\ Owned(e) \subseteq Ids /\ \A id \in Owned(e) : id < input.next_id
        BY <3>1, AliveIs
      <3>3. \A id \in Owned(e) : k1[id] = k[id] BY <3>2
      <3>4. data'[e] = data[e] /\ libinput'[e] = libinput[e] BY <1>6, <3>1
      <3> QED BY <3>1, <3>2, <3>3, <3>4, DeviceKept
    <2> QED BY <1>8, <2>1, <2>2
  <1> QED BY <1>7, <1>10, <1>11, <1>12, <1>13, <1>14 DEF Followed, NoBreach

(* A device that is added gets ids of its own and announces its pointers.  *)
LEMMA AddedPointers ==
  ASSUME NEW k, Before(k), NEW d \in Devices, OnDeviceAdded(d)
  PROVE  Following'
  <1> DEFINE caps == Capabilities[d]
             pointer == IF "pointer" \in caps THEN 1 ELSE 0
             slots == IF "touch" \in caps THEN TouchCount[d] ELSE 0
             stylus == IF "tablet" \in caps THEN 1 ELSE 0
             touchAt == input.next_id + pointer
             touches == [i \in 1..slots |-> Event(touchAt + i - 1, "add")]
             scroll == [NoScroll EXCEPT !.device_id = IF pointer = 1 THEN input.next_id ELSE -1]
             touch == IF slots > 0 THEN touchAt ELSE -1
             fresh == [NoData EXCEPT !.state = "live", !.scroll = scroll, !.touch_id = touch]
             id == IF stylus = 1 THEN touchAt + slots ELSE -1
             some == input.next_id + pointer + slots
  <1>1. /\ data[d].state = "null" /\ Room(pointer + slots + stylus + 1)
        /\ libinput' = [libinput EXCEPT ![d].present = TRUE]
        /\ keysDown' = keysDown
    BY DEF OnDeviceAdded
  <1>2. \/ /\ "touch" \in caps => slots > 0
           /\ input' = [input EXCEPT !.next_id = @ + pointer + slots + stylus]
           /\ out' = EmitPointerEvents(out, touches \o
                         (IF stylus = 1 THEN <<Event(touchAt + slots, "add")>> ELSE <<>>))
           /\ \E created \in BOOLEAN :
                 data' = [data EXCEPT ![d] = [fresh EXCEPT !.stylus_id = id,
                     !.keyboard = "keyboard" \in caps /\ input.kbdcfg /\ created]]
           /\ excused' = excused
        \/ /\ input' = [input EXCEPT !.next_id = @ + pointer + slots]
           /\ out' = EmitPointerEvents(out, touches)
           /\ data' = [data EXCEPT ![d] = [fresh EXCEPT !.state = "freed"]]
           /\ excused' = excused \cup {"failed"}
    BY DEF OnDeviceAdded
  <1>3. /\ input \in Inputs /\ input.next_id \in Int /\ k \in Knowledge /\ Unused(k) /\ NoBreach(k)
        /\ input.next_id \in 0 .. MaxIds /\ MaxIds \in Nat
    BY BeforeIs, InputConstants DEF IdsOK
  <1>4. /\ pointer \in {0, 1} /\ (pointer = 1 <=> "pointer" \in caps)
        /\ stylus \in {0, 1} /\ (stylus = 1 <=> "tablet" \in caps)
        /\ slots \in Nat /\ ("touch" \in caps => slots = TouchCount[d])
        /\ ("touch" \notin caps => slots = 0)
    BY SlotsIs
  <1>5. Room(pointer + slots + stylus + 1)
            => input.next_id + (pointer + slots + stylus + 1) <= MaxIds
    BY DEF Room
  <1> HIDE DEF pointer, slots, stylus
  <1>6. input.next_id + pointer + slots + stylus + 1 <= MaxIds /\ touchAt \in Int /\ id \in Int
            /\ touch \in Int
    BY <1>1, <1>3, <1>4, <1>5
  <1>7. scroll \in Scrolls /\ scroll.active = FALSE /\ scroll.added = FALSE
        /\ (pointer = 1 => scroll.device_id = input.next_id)
    <2> DEFINE at == IF pointer = 1 THEN input.next_id ELSE -1
    <2>1. at \in Int /\ (pointer = 1 => at = input.next_id) BY <1>3
    <2> HIDE DEF at
    <2>2. [NoScroll EXCEPT !.device_id = at] \in Scrolls
          /\ [NoScroll EXCEPT !.device_id = at].active = FALSE
          /\ [NoScroll EXCEPT !.device_id = at].added = FALSE
          /\ [NoScroll EXCEPT !.device_id = at].device_id = at
      BY <2>1 DEF NoScroll, Scrolls
    <2> QED BY <2>1, <2>2 DEF at
  <1> HIDE DEF scroll
  <1>8. /\ fresh \in Datas /\ fresh.state = "live" /\ fresh.buttons = {} /\ fresh.emitted = FALSE
        /\ fresh.tip = FALSE /\ fresh.scroll = scroll /\ fresh.keyboard = FALSE
        /\ fresh.touch_id = touch
    <2>1. NoData \in Datas /\ NoData.buttons = {} /\ NoData.emitted = FALSE /\ NoData.tip = FALSE
          /\ NoData.keyboard = FALSE
      BY DEF NoData, Datas, NoScroll, Scrolls
    <2> HIDE DEF touch
    <2> QED BY <1>6, <1>7, <2>1 DEF Datas
  <1> HIDE DEF fresh
  <1>9. PICK k1 : k1 = Known(out') OBVIOUS
  <1>10. ASSUME NEW all \in Int, all = some + stylus,
                input' = [input EXCEPT !.next_id = @ + pointer + slots + stylus],
                out' = EmitPointerEvents(out, touches \o
                         (IF stylus = 1 THEN <<Event(touchAt + slots, "add")>> ELSE <<>>)),
                "touch" \in caps => slots > 0,
                NEW kb \in BOOLEAN,
                data' = [data EXCEPT ![d] = [fresh EXCEPT !.stylus_id = id, !.keyboard = kb]],
                excused' = excused
         PROVE Following'
    <2> DEFINE x == [fresh EXCEPT !.stylus_id = id, !.keyboard = kb]
    <2>1. /\ x \in Datas /\ x.state = "live" /\ x.buttons = {} /\ x.emitted = FALSE /\ x.tip = FALSE
          /\ x.scroll = scroll /\ x.touch_id = touch /\ x.stylus_id = id
      <3> HIDE DEF id
      <3> QED BY <1>6, <1>8 DEF Datas
    <2>2. input'.next_id = all /\ input'.cursor_id = input.cursor_id
              /\ input'.destroyed = input.destroyed
      <3>1. all = input.next_id + pointer + slots + stylus BY <1>10
      <3>2. input' = [input EXCEPT !.next_id = all] BY <1>3, <1>10, <3>1 DEF Inputs
      <3> QED BY <1>3, <3>2 DEF Inputs
    <2>3. all \in input.next_id .. MaxIds
      <3>1. input.next_id \in Int /\ MaxIds \in Int /\ all \in Int BY <1>3, <1>10
      <3>2. all = input.next_id + pointer + slots + stylus BY <1>10
      <3>3. pointer \in Nat /\ slots \in Nat /\ stylus \in Nat BY <1>4
      <3>4. input.next_id + pointer + slots + stylus + 1 <= MaxIds BY <1>6
      <3> QED BY <3>1, <3>2, <3>3, <3>4
    <2>4. /\ out' \in Outs /\ k1 \in Knowledge
          /\ \A j \in Ids : k1[j] = IF j \in touchAt .. all - 1 THEN "up" ELSE k[j]
      <3>1. touchAt >= input.next_id /\ all = touchAt + slots + stylus /\ all <= MaxIds
        BY <1>3, <1>4, <1>6, <1>10
      <3> HIDE DEF x, id, touch, some, caps
      <3>2. out' = EmitPointerEvents(out, Announces(touchAt, slots, stylus))
        BY <1>10 DEF Announces, EventsOf
      <3> HIDE DEF touchAt
      <3> QED BY <1>4, <1>6, <1>9, <3>1, <3>2, Announced
    <2> HIDE DEF touches
    <2>5. /\ \A j \in Ids : j < input.next_id => k1[j] = k[j]
          /\ \A j \in Ids : j >= input'.next_id => k1[j] = "absent"
          /\ \A j \in Ids : k1[j] # "breach"
      <3>1. ASSUME NEW j \in Ids, j < input.next_id PROVE k1[j] = k[j]
        <4>1. j \notin touchAt .. all - 1 BY <1>3, <1>4, <3>1, CursorIdIs
        <4> QED BY <2>4, <4>1
      <3>2. ASSUME NEW j \in Ids, j >= input'.next_id PROVE k1[j] = "absent"
        <4>1. j \notin touchAt .. all - 1 /\ j >= input.next_id
          BY <1>3, <2>2, <2>3, <3>2, CursorIdIs
        <4> QED BY <1>3, <2>4, <4>1 DEF Unused
      <3>3. \A j \in Ids : k1[j] # "breach" BY <1>3, <2>4 DEF NoBreach
      <3> QED BY <3>1, <3>2, <3>3
    <2>6. data'[d] = x
      <3>1. data \in [Devices -> Datas] BY BeforeIs
      <3> QED BY <1>10, <3>1
    <2> HIDE DEF x
    <2>7. ScrollIds(d)' = IF pointer = 1 THEN {input.next_id} ELSE {}
      BY <1>4, <1>7, <2>1, <2>6 DEF ScrollIds
    <2>8. TouchIds(d)' = touchAt .. touchAt + slots - 1
      <3>1. CASE "touch" \in caps
        <4>1. slots > 0 /\ touch = touchAt /\ slots = TouchCount[d] BY <1>4, <1>10, <3>1
        <4> HIDE DEF touch, touchAt
        <4> QED BY <2>1, <2>6, <3>1, <4>1 DEF TouchIds
      <3>2. CASE "touch" \notin caps
        <4>1. slots = 0 BY <1>4, <3>2
        <4>2. touchAt .. touchAt + slots - 1 = {} BY <1>6, <4>1
        <4> QED BY <3>2, <4>2 DEF TouchIds
      <3> QED BY <3>1, <3>2
    <2>9. StylusIds(d)' = IF stylus = 1 THEN {touchAt + slots} ELSE {}
      BY <1>4, <2>1, <2>6 DEF StylusIds
    <2>10. /\ Owned(d)' \subseteq input.next_id .. input'.next_id - 1
           /\ ScrollIds(d)' \cap TouchIds(d)' = {} /\ ScrollIds(d)' \cap StylusIds(d)' = {}
           /\ TouchIds(d)' \cap StylusIds(d)' = {}
      <3>1. PICK at : at = touchAt OBVIOUS
      <3>2. /\ at = input.next_id + pointer /\ at \in Int BY <1>3, <1>4, <3>1
      <3>3. /\ input'.next_id = at + slots + stylus /\ slots \in Nat /\ stylus \in {0, 1}
            /\ pointer \in {0, 1} /\ input.next_id \in Int
        BY <1>3, <1>4, <1>10, <2>2, <3>1
      <3>4. /\ TouchIds(d)' = at .. at + slots - 1
            /\ StylusIds(d)' = IF stylus = 1 THEN {at + slots} ELSE {}
        BY <2>8, <2>9, <3>1
      <3> HIDE DEF touchAt
      <3>5. PICK lo, hi : lo = input.next_id /\ hi = input'.next_id OBVIOUS
      <3>6. /\ lo \in Int /\ pointer \in Int /\ slots \in Int /\ stylus \in Int
            /\ pointer >= 0 /\ slots >= 0 /\ stylus >= 0
            /\ at = lo + pointer /\ hi = lo + pointer + slots + stylus
        BY <3>2, <3>3, <3>5
      <3>7. /\ ScrollIds(d)' \subseteq input.next_id .. input'.next_id - 1
            /\ TouchIds(d)' \subseteq input.next_id .. input'.next_id - 1
            /\ StylusIds(d)' \subseteq input.next_id .. input'.next_id - 1
        <4>1. pointer = 1 => lo \in lo .. hi - 1 BY <3>6
        <4>2. ScrollIds(d)' \subseteq lo .. hi - 1 BY <2>7, <3>5, <4>1
        <4>3. at .. at + slots - 1 \subseteq lo .. hi - 1 BY <3>6
        <4>4. stylus = 1 => at + slots \in lo .. hi - 1 BY <3>6
        <4>5. StylusIds(d)' \subseteq lo .. hi - 1 BY <3>4, <4>4
        <4> QED BY <3>4, <3>5, <4>2, <4>3, <4>5
      <3>8. ScrollIds(d)' \cap TouchIds(d)' = {} /\ ScrollIds(d)' \cap StylusIds(d)' = {}
        <4>1. pointer = 1 => lo \notin at .. at + slots - 1 /\ lo # at + slots BY <3>6
        <4> QED BY <2>7, <3>4, <3>5, <4>1
      <3>9. TouchIds(d)' \cap StylusIds(d)' = {}
        <4>1. at + slots \notin at .. at + slots - 1 BY <3>6
        <4> QED BY <3>4, <4>1
      <3> QED BY <3>7, <3>8, <3>9 DEF Owned
    <2>11. (DeviceKnown(k1, d))'
      <3>1. ASSUME "pointer" \in caps PROVE (ScrollKnown(k1, d))'
        <4>1. pointer = 1 /\ scroll.device_id = input.next_id BY <1>4, <1>7, <3>1
        <4>2. input.next_id \in Ids BY <1>3, <1>4, <1>6 DEF Ids
        <4>3. input.next_id \notin touchAt .. all - 1 BY <1>3, <4>1
        <4>4. k1[input.next_id] = "absent" BY <1>3, <2>4, <4>2, <4>3 DEF Unused
        <4>5. ScrollState(scroll) = "absent" BY <1>7 DEF ScrollState
        <4> QED BY <2>1, <2>6, <4>1, <4>4, <4>5 DEF ScrollKnown
      <3>2. ASSUME "touch" \in caps PROVE (TouchKnown(k1, d))'
        <4>1. slots > 0 /\ touch = touchAt /\ slots = TouchCount[d] BY <1>4, <1>10, <3>2
        <4>2. ASSUME NEW s \in 0 .. slots - 1 PROVE k1[touchAt + s] = "up"
          <5>1. /\ touchAt \in Int /\ touchAt >= 0 /\ all = touchAt + slots + stylus
                /\ all <= MaxIds /\ stylus >= 0
            <6>1. input.next_id \in Int /\ input.next_id >= 0 /\ MaxIds \in Int BY <1>3
            <6>2. all = some + stylus BY <1>10
            <6>3. pointer \in Int /\ pointer >= 0 /\ slots \in Int /\ slots >= 0 /\ stylus \in Int
                  /\ stylus >= 0
              BY <1>4
            <6>4. input.next_id + pointer + slots + stylus + 1 <= MaxIds BY <1>6
            <6> QED BY <6>1, <6>2, <6>3, <6>4
          <5> HIDE DEF touchAt
          <5>2. touchAt + s \in Ids /\ touchAt + s \in touchAt .. all - 1
            BY <1>3, <1>4, <4>2, <5>1 DEF Ids
          <5> QED BY <2>4, <5>2
        <4>3. libinput'[d].touched = {}
          <5>1. libinput \in [Devices -> Libinputs] /\ libinput[d] \in Libinputs /\ Released(d)
            BY <1>1, BeforeIs DEF LibinputOK
          <5> QED BY <1>1, <5>1 DEF Released, Libinputs
        <4> HIDE DEF touch, touchAt
        <4> QED BY <2>1, <2>6, <4>1, <4>2, <4>3 DEF TouchKnown
      <3>3. ASSUME "tablet" \in caps PROVE (StylusKnown(k1, d))'
        <4>1. stylus = 1 /\ id = touchAt + slots BY <1>4, <3>3
        <4>2. id \in Ids /\ id \in touchAt .. all - 1 BY <1>3, <1>4, <1>6, <1>10, <4>1 DEF Ids
        <4>3. k1[id] = "up" BY <2>4, <4>2
        <4> HIDE DEF id
        <4> QED BY <2>1, <2>6, <4>3 DEF StylusKnown
      <3> QED BY <3>1, <3>2, <3>3 DEF DeviceKnown
    <2>12. (Followed(k1))'
      <3>1. data' = [data EXCEPT ![d] = x] /\ excused \subseteq excused' BY <1>10 DEF x
      <3>2. x.scroll.active = FALSE /\ x.state \in {"live", "freed"} BY <1>7, <2>1
      <3>3. input'.next_id \in input.next_id .. MaxIds BY <2>2, <2>3
      <3> HIDE DEF touchAt, id, touch, some
      <3> QED BY <1>1, <2>1, <2>2, <2>4, <2>5, <2>10, <2>11, <3>1, <3>2, <3>3, DeviceComes
    <2> QED BY <1>9, <2>4, <2>12, FollowingFrom
  <1>11. ASSUME input' = [input EXCEPT !.next_id = @ + pointer + slots],
                out' = EmitPointerEvents(out, touches),
                data' = [data EXCEPT ![d] = [fresh EXCEPT !.state = "freed"]],
                excused' = excused \cup {"failed"}
         PROVE Following'
    <2> DEFINE x == [fresh EXCEPT !.state = "freed"]
    <2>1. /\ x \in Datas /\ x.state = "freed" /\ x.buttons = {} /\ x.emitted = FALSE
          /\ x.tip = FALSE
          /\ x.scroll = scroll /\ x.keyboard = FALSE
      BY <1>8 DEF Datas
    <2>2. some \in Int /\ some = touchAt + slots BY <1>3, <1>4
    <2>3. input'.next_id = some /\ input'.cursor_id = input.cursor_id
      <3>1. input' = [input EXCEPT !.next_id = some] BY <1>3, <1>11 DEF Inputs
      <3> QED BY <1>3, <2>2, <3>1 DEF Inputs
    <2>4. some \in input.next_id .. MaxIds BY <1>3, <1>4, <1>6
    <2>5. /\ out' \in Outs /\ k1 \in Knowledge
          /\ \A j \in Ids : k1[j] = IF j \in touchAt .. some - 1 THEN "up" ELSE k[j]
      <3>1. touchAt >= input.next_id /\ some = touchAt + slots + 0 /\ some <= MaxIds
        BY <1>3, <1>4, <1>6
      <3>2. touchAt .. touchAt + slots - 1 \subseteq Ids BY <1>3, <1>4, <1>6 DEF Ids
      <3>3. "add" \in PhaseNames BY DEF PhaseNames
      <3> HIDE DEF x, id, touch, some, caps, touchAt
      <3>4. touches = EventsOf(touchAt, slots, "add") BY DEF EventsOf
      <3>5. EventsOf(touchAt, slots, "add") \in Seq(Events) BY <1>4, <1>6, <3>2, <3>3, RangeIs
      <3>6. Announces(touchAt, slots, 0) = touches
        <4>1. (IF 0 = 1 THEN <<Event(touchAt + slots, "add")>> ELSE <<>>) = <<>> OBVIOUS
        <4> HIDE DEF touches
        <4> QED BY <3>4, <3>5, <4>1, ConcatEmptySeq DEF Announces
      <3>7. out' = EmitPointerEvents(out, Announces(touchAt, slots, 0)) BY <1>11, <3>6
      <3> QED BY <1>4, <1>6, <1>9, <2>2, <3>1, <3>7, Announced
    <2> HIDE DEF touches
    <2>6. /\ \A j \in Ids : j < input.next_id => k1[j] = k[j]
          /\ \A j \in Ids : j >= input'.next_id => k1[j] = "absent"
          /\ \A j \in Ids : k1[j] # "breach"
      <3>1. ASSUME NEW j \in Ids, j < input.next_id PROVE k1[j] = k[j]
        <4>1. j \notin touchAt .. some - 1 BY <1>3, <1>4, <3>1, CursorIdIs
        <4> QED BY <2>5, <4>1
      <3>2. ASSUME NEW j \in Ids, j >= input'.next_id PROVE k1[j] = "absent"
        <4>1. j \notin touchAt .. some - 1 /\ j >= input.next_id
          BY <1>3, <2>3, <2>4, <3>2, CursorIdIs
        <4> QED BY <1>3, <2>5, <4>1 DEF Unused
      <3>3. \A j \in Ids : k1[j] # "breach" BY <1>3, <2>5 DEF NoBreach
      <3> QED BY <3>1, <3>2, <3>3
    <2> HIDE DEF x
    <2>7. (Followed(k1))'
      <3>1. data' = [data EXCEPT ![d] = x] /\ excused \subseteq excused' BY <1>11 DEF x
      <3>2. x.scroll.active = FALSE /\ x.state \in {"live", "freed"} /\ x.state # "live"
        BY <1>7, <2>1
      <3>3. input'.next_id \in input.next_id .. MaxIds BY <2>3, <2>4
      <3> HIDE DEF touchAt, id, touch, some
      <3> QED BY <1>1, <2>1, <2>3, <2>5, <2>6, <3>1, <3>2, <3>3, DeviceComes
    <2> QED BY <1>9, <2>5, <2>7, FollowingFrom
  <1>12. some + stylus \in Int BY <1>3, <1>4
  <1>13. \A created \in BOOLEAN : ("keyboard" \in caps /\ input.kbdcfg /\ created) \in BOOLEAN
    OBVIOUS
  <1> HIDE DEF caps, touches, id, touchAt, touch, some
  <1> QED BY <1>2, <1>10, <1>11, <1>12, <1>13 DEF some, caps

(* One event that may be there.                                            *)
LEMMA MaybeEvent ==
  ASSUME NEW h \in Knowledge, NEW c \in BOOLEAN, NEW id, c => id \in Ids, NEW ph \in PhaseNames
  PROVE  LET es == IF c THEN <<Event(id, ph)>> ELSE <<>>
         IN  /\ es \in Seq(Events) /\ Track(h, es) \in Knowledge
             /\ c => Track(h, es)[id] = After(h[id], ph)
             /\ \A j \in Ids : ~(c /\ j = id) => Track(h, es)[j] = h[j]
  <1> DEFINE e == Event(id, ph)
  <1>1. CASE c
    <2>1. e \in Events /\ e.id = id /\ e.phase = ph BY <1>1, EventIs
    <2> HIDE DEF e
    <2>2. <<e>> \in Seq(Events) BY <2>1
    <2>3. Track(h, <<e>>) = Accept(h, e) BY TrackOne
    <2>4. /\ Accept(h, e) \in Knowledge /\ Accept(h, e)[id] = After(h[id], ph)
          /\ \A j \in Ids : j # id => Accept(h, e)[j] = h[j]
      BY <2>1, AcceptIs
    <2> QED BY <1>1, <2>2, <2>3, <2>4 DEF e
  <1>2. CASE ~c
    <2>1. <<>> \in Seq(Events) /\ Track(h, <<>>) = h BY TrackEmpty
    <2> QED BY <1>2, <2>1
  <1> QED BY <1>1, <1>2

(* The stylus of a device leaves,                                          *)
LEMMA StylusRemovedKnown ==
  ASSUME NEW k, Before(k), NEW h \in Knowledge, NEW d \in Devices, data[d].state = "live"
  PROVE  /\ StylusRemoved(d) \in Seq(Events) /\ Track(h, StylusRemoved(d)) \in Knowledge
         /\ \A id \in Ids : Track(h, StylusRemoved(d))[id] =
               IF id \in StylusIds(d) THEN After(h[id], "remove") ELSE h[id]
  <1> DEFINE c == "tablet" \in Capabilities[d]
             id == data[d].stylus_id
  <1>1. c => id \in Ids BY AliveIs
  <1>2. "remove" \in PhaseNames /\ c \in BOOLEAN BY PhasesAre
  <1>3. StylusRemoved(d) = IF c THEN <<Event(id, "remove")>> ELSE <<>> BY DEF StylusRemoved
  <1>4. StylusIds(d) = IF c THEN {id} ELSE {} BY DEF StylusIds
  <1> HIDE DEF c, id
  <1>5. CASE c
    <2>1. StylusRemoved(d) = <<Event(id, "remove")>> /\ StylusIds(d) = {id} BY <1>3, <1>4, <1>5
    <2> DEFINE e == Event(id, "remove")
    <2>2. id \in Ids /\ e \in Events /\ e.id = id /\ e.phase = "remove" BY <1>1, <1>2, <1>5, EventIs
    <2> HIDE DEF e
    <2>3. <<e>> \in Seq(Events) /\ Track(h, <<e>>) = Accept(h, e) BY <2>2, TrackOne
    <2>4. /\ Accept(h, e) \in Knowledge /\ Accept(h, e)[id] = After(h[id], "remove")
          /\ \A j \in Ids : j # id => Accept(h, e)[j] = h[j]
      BY <2>2, AcceptIs
    <2>5. StylusRemoved(d) = <<e>> BY <2>1 DEF e
    <2> QED BY <2>1, <2>3, <2>4, <2>5
  <1>6. CASE ~c
    <2>1. StylusRemoved(d) = <<>> /\ StylusIds(d) = {} BY <1>3, <1>4, <1>6
    <2>2. <<>> \in Seq(Events) /\ Track(h, <<>>) = h BY TrackEmpty
    <2> QED BY <2>1, <2>2
  <1> QED BY <1>5, <1>6

(* and with it its fingers, its scroll pointer and, with the last mouse,   *)
(* the cursor.                                                             *)
LEMMA RemovedKnown ==
  ASSUME NEW k, Before(k), NEW d \in Devices, data[d].state = "live"
  PROVE  LET es == RemovedEvents(d) \o StylusRemoved(d)
             leaves == Speakers = {d}
         IN  /\ es \in Seq(Events) /\ Track(k, es) \in Knowledge
             /\ \A id \in Owned(d) : Track(k, es)[id] = "absent"
             /\ leaves => Track(k, es)[input.cursor_id] = "absent"
             /\ \A id \in Ids : id \notin Owned(d)
                    /\ (leaves => id # input.cursor_id) => Track(k, es)[id] = k[id]
  <1> DEFINE caps == Capabilities[d]
             sid == data[d].scroll.device_id
             leaves == Speakers = {d}
             A == IF "pointer" \in caps THEN PhaseEvents(sid,
             ScrollRemove(data[d].scroll)[2]) ELSE <<>>
             B == IF leaves THEN <<Event(input.cursor_id, "remove")>> ELSE <<>>
             C == IF "touch" \in caps THEN EventsOf(data[d].touch_id, TouchCount[d],
             "remove") ELSE <<>>
             D == StylusRemoved(d)
             h1 == Track(k, A)
             h2 == Track(h1, B)
             h3 == Track(h2, C)
             h4 == Track(h3, D)
  <1>1. /\ k \in Knowledge /\ CursorKnown(k) /\ DeviceKnown(k, d) /\ Owned(d) \subseteq Ids
        /\ input.cursor_id \notin Owned(d) /\ data[d] \in Datas /\ data[d].scroll \in Scrolls
        /\ TouchCount[d] \in Nat /\ d \in Alive
    BY BeforeIs, AliveIs, SlotsIs
  <1>2. /\ ScrollIds(d) \cap TouchIds(d) = {} /\ ScrollIds(d) \cap StylusIds(d) = {}
        /\ TouchIds(d) \cap StylusIds(d) = {}
        /\ (data[d].scroll.active => data[d].scroll.added)
    BY <1>1, BeforeIs DEF IdsOK, LibinputOK
  <1>3. "remove" \in PhaseNames BY PhasesAre
  <1>4. leaves <=> "pointer" \in caps /\ data[d].emitted /\ input.n_cursor_devices = 1
    <2>1. IsFiniteSet(Speakers) /\ input.n_cursor_devices = Cardinality(Speakers)
          /\ (d \in Speakers => "pointer" \in caps)
      BY DEF Before, InputInv, SpeakersOK
    <2>2. d \in Speakers <=> data[d].emitted BY DEF Speakers
    <2>3. Cardinality(Speakers) = 1 <=> \E x : Speakers = {x} BY <2>1, FS_Singleton
    <2> QED BY <2>1, <2>2, <2>3
  <1>5. RemovedEvents(d) = (A \o B) \o C
    BY <1>4 DEF RemovedEvents, EventsOf
  <1>6. /\ A \in Seq(Events) /\ h1 \in Knowledge
        /\ \A id \in Ids : h1[id] = IF id \in ScrollIds(d) THEN "absent" ELSE k[id]
    <2>1. CASE "pointer" \in caps
      <3> DEFINE ps == ScrollRemove(data[d].scroll)[2]
      <3>1. ps \in PhaseSeqs /\ Path(ScrollState(data[d].scroll), ps) = "absent"
        BY <1>1, <1>2, ScrollRemoveKnown
      <3>2. sid \in Ids /\ k[sid] = ScrollState(data[d].scroll) BY <2>1, MouseIs
      <3>3. A = PhaseEvents(sid, ps) /\ ScrollIds(d) = {sid} BY <2>1 DEF ScrollIds
      <3> HIDE DEF ps, A, sid
      <3>4. A \in Seq(Events) BY <3>1, <3>2, <3>3, PhaseEventsAre
      <3>5. h1 \in Knowledge /\ h1[sid] = "absent" /\ \A j \in Ids : j # sid => h1[j] = k[j]
        BY <1>1, <3>1, <3>2, <3>3, TrackPhases
      <3> HIDE DEF h1
      <3> QED BY <3>3, <3>4, <3>5
    <2>2. CASE "pointer" \notin caps
      <3>1. A = <<>> /\ ScrollIds(d) = {} BY <2>2 DEF ScrollIds
      <3>2. <<>> \in Seq(Events) /\ Track(k, <<>>) = k BY TrackEmpty
      <3> HIDE DEF A
      <3> QED BY <1>1, <3>1, <3>2
    <2> QED BY <2>1, <2>2
  <1> HIDE DEF A, h1
  <1>7. leaves => input.cursor_id \in Ids
    <2>1. leaves => input.cursor_id # -1 BY <1>1 DEF CursorKnown
    <2> QED BY <2>1, CursorIdIs
  <1>8. /\ B \in Seq(Events) /\ h2 \in Knowledge
        /\ leaves => h2[input.cursor_id] = After(h1[input.cursor_id], "remove")
        /\ \A j \in Ids : ~(leaves /\ j = input.cursor_id) => h2[j] = h1[j]
    <2>1. leaves \in BOOLEAN OBVIOUS
    <2> HIDE DEF leaves
    <2> QED BY <1>3, <1>6, <1>7, <2>1, MaybeEvent
  <1> HIDE DEF B, h2
  <1>9. /\ C \in Seq(Events) /\ h3 \in Knowledge
        /\ \A id \in Ids : h3[id] = IF id \in TouchIds(d) THEN After(h2[id], "remove") ELSE h2[id]
    <2>1. CASE "touch" \in caps
      <3> DEFINE a == data[d].touch_id
                 n == TouchCount[d]
      <3>1. a \in Int /\ n \in Nat BY <1>1 DEF Datas
      <3>2. TouchIds(d) = a .. a + n - 1 BY <2>1 DEF TouchIds
      <3>3. a .. a + n - 1 \subseteq Ids BY <1>1, <3>2 DEF Owned
      <3>4. C = EventsOf(a, n, "remove") BY <2>1
      <3> HIDE DEF a, n, C
      <3>5. C \in Seq(Events) BY <1>3, <3>1, <3>3, <3>4, RangeIs
      <3>6. /\ h3 \in Knowledge
            /\ \A id \in Ids : h3[id]
                   = IF id \in a .. a + n - 1 THEN After(h2[id], "remove") ELSE h2[id]
        BY <1>3, <1>8, <3>1, <3>3, <3>4, RangeEvents
      <3> HIDE DEF h3
      <3> QED BY <3>2, <3>5, <3>6
    <2>2. CASE "touch" \notin caps
      <3>1. C = <<>> /\ TouchIds(d) = {} BY <2>2 DEF TouchIds
      <3>2. <<>> \in Seq(Events) /\ Track(h2, <<>>) = h2 BY TrackEmpty
      <3> HIDE DEF C
      <3> QED BY <1>8, <3>1, <3>2
    <2> QED BY <2>1, <2>2
  <1> HIDE DEF C, h3
  <1>10. /\ D \in Seq(Events) /\ h4 \in Knowledge
         /\ \A id \in Ids : h4[id] = IF id \in StylusIds(d) THEN After(h3[id], "remove") ELSE h3[id]
    BY <1>9, StylusRemovedKnown
  <1> HIDE DEF D, h4
  <1>11. ((A \o B) \o C) \o D \in Seq(Events) /\ Track(k, ((A \o B) \o C) \o D) = h4
    <2>1. A \o B \in Seq(Events) /\ Track(k, A \o B) = h2
      BY <1>6, <1>8, ConcatProperties, TrackConcat DEF h1, h2
    <2> DEFINE AB == A \o B
    <2> HIDE DEF AB
    <2>2. AB \o C \in Seq(Events) /\ Track(k, AB \o C) = h3
      BY <1>9, <2>1, ConcatProperties, TrackConcat DEF h3, AB
    <2> DEFINE ABC == AB \o C
    <2> HIDE DEF ABC
    <2>3. ABC \o D \in Seq(Events) /\ Track(k, ABC \o D) = h4
      BY <1>10, <2>2, ConcatProperties, TrackConcat DEF h4, ABC
    <2> QED BY <2>3 DEF AB, ABC
  <1>12. \A id \in Owned(d) : h4[id] = "absent"
    <2> TAKE id \in Owned(d)
    <2>1. id \in Ids /\ id # input.cursor_id BY <1>1
    <2>2. h2[id] = h1[id] BY <1>8, <2>1
    <2>3. CASE id \in ScrollIds(d)
      <3>1. h3[id] = "absent" BY <1>2, <1>6, <1>9, <2>1, <2>2, <2>3
      <3> QED BY <1>2, <1>10, <2>1, <2>3, <3>1
    <2>4. CASE id \in TouchIds(d)
      <3>1. h2[id] = k[id] BY <1>2, <1>6, <2>1, <2>2, <2>4
      <3>2. k[id] \in {"up", "down"}
        <4>1. "touch" \in caps /\ id \in data[d].touch_id .. data[d].touch_id + TouchCount[d] - 1
          BY <2>4 DEF TouchIds
        <4>2. data[d].touch_id \in Int BY <1>1 DEF Datas
        <4>3. id - data[d].touch_id \in 0 .. TouchCount[d] - 1
              /\ data[d].touch_id + (id - data[d].touch_id) = id
          BY <1>1, <4>1, <4>2
        <4>4. TouchKnown(k, d) BY <1>1, <4>1 DEF DeviceKnown
        <4> QED BY <4>3, <4>4 DEF TouchKnown
      <3>3. h3[id] = "absent" BY <1>9, <2>1, <2>4, <3>1, <3>2, PressIs
      <3> QED BY <1>2, <1>10, <2>1, <2>4, <3>3
    <2>5. CASE id \in StylusIds(d)
      <3>1. h3[id] = k[id] BY <1>2, <1>6, <1>9, <2>1, <2>2, <2>5
      <3>2. k[id] \in {"up", "down"}
        <4>1. "tablet" \in caps /\ id = data[d].stylus_id BY <2>5 DEF StylusIds
        <4>2. StylusKnown(k, d) BY <1>1, <4>1 DEF DeviceKnown
        <4> QED BY <4>1, <4>2 DEF StylusKnown
      <3> QED BY <1>10, <2>1, <2>5, <3>1, <3>2, PressIs
    <2> QED BY <2>3, <2>4, <2>5 DEF Owned
  <1>13. ASSUME leaves PROVE h4[input.cursor_id] = "absent"
    <2> DEFINE c == input.cursor_id
    <2>1. c \in Ids /\ c \notin ScrollIds(d) /\ c \notin TouchIds(d) /\ c \notin StylusIds(d)
      BY <1>1, <1>7, <1>13 DEF Owned
    <2>2. k[c] \in {"up", "down"}
      <3>1. c # -1 BY <2>1 DEF Ids
      <3>2. Speakers # {} BY <1>13
      <3> QED BY <1>1, <3>1, <3>2 DEF CursorKnown
    <2>3. h2[c] = "absent"
      <3>1. h2[c] = After(h1[c], "remove") BY <1>8, <1>13
      <3>2. h1[c] = k[c] BY <1>6, <2>1
      <3> QED BY <2>2, <3>1, <3>2, PressIs
    <2>4. h3[c] = h2[c] BY <1>9, <2>1
    <2> QED BY <1>10, <2>1, <2>3, <2>4
  <1>14. ASSUME NEW id \in Ids, id \notin Owned(d), leaves => id # input.cursor_id
         PROVE h4[id] = k[id]
    <2>1. id \notin ScrollIds(d) /\ id \notin TouchIds(d) /\ id \notin StylusIds(d)
      BY <1>14 DEF Owned
    <2>2. h2[id] = h1[id] BY <1>8, <1>14
    <2> QED BY <1>6, <1>9, <1>10, <2>1, <2>2
  <1> HIDE DEF leaves
  <1>15. RemovedEvents(d) \o StylusRemoved(d) = ((A \o B) \o C) \o D BY <1>5 DEF D
  <1> QED BY <1>10, <1>11, <1>12, <1>13, <1>14, <1>15 DEF leaves

(* A device that is removed leaves no pointer behind.                      *)
LEMMA RemovedPointers ==
  ASSUME NEW k, Before(k), NEW d \in Devices, OnDeviceRemoved(d), "freed" \notin excused'
  PROVE  Following'
  <1> DEFINE leaves == Speakers = {d}
             es == RemovedEvents(d) \o StylusRemoved(d)
  <1>1. /\ libinput[d].present /\ Released(d) /\ libinput' = [libinput EXCEPT ![d] = Unplugged]
        /\ Uses(d) /\ input' = RemovedInput(d) /\ out' = EmitPointerEvents(out, es)
        /\ data' = [data EXCEPT ![d] = NoData] /\ keysDown' = keysDown
    BY DEF OnDeviceRemoved, Quiet
  <1>2. /\ data \in [Devices -> Datas] /\ libinput \in [Devices -> Libinputs] /\ LibinputOK /\ IdsOK
        /\ KeysKnown /\ Unused(k) /\ NoBreach(k) /\ CursorKnown(k) /\ data[d] \in Datas
        /\ libinput[d] \in Libinputs /\ input \in Inputs /\ out \in Outs /\ Known(out) = k
    BY BeforeIs
  <1>3. data[d].state = "live" /\ excused' = excused
    <2>1. data[d].state # "freed" BY <1>1 DEF Uses
    <2>2. data[d].state # "null" BY <1>1, <1>2 DEF LibinputOK
    <2>3. data[d].state \in {"null", "live", "freed"} BY <1>2 DEF Datas
    <2> QED BY <1>1, <2>1, <2>2, <2>3 DEF Uses
  <1>4. /\ es \in Seq(Events) /\ Track(k, es) \in Knowledge
        /\ \A id \in Owned(d) : Track(k, es)[id] = "absent"
        /\ leaves => Track(k, es)[input.cursor_id] = "absent"
        /\ \A id \in Ids : id \notin Owned(d)
               /\ (leaves => id # input.cursor_id) => Track(k, es)[id] = k[id]
    BY <1>3, RemovedKnown
  <1> HIDE DEF es
  <1>5. PICK k1 : k1 = Known(out') OBVIOUS
  <1>6. out' \in Outs /\ k1 = Track(k, es) BY <1>1, <1>2, <1>4, <1>5, EmitMany
  <1>7. /\ k1 \in Knowledge /\ \A id \in Owned(d) : k1[id] = "absent"
        /\ leaves => k1[input.cursor_id] = "absent"
        /\ \A id \in Ids : id \notin Owned(d) /\ (leaves => id # input.cursor_id) => k1[id] = k[id]
    BY <1>4, <1>6
  <1>8. /\ NoData \in Datas /\ NoData.state = "null" /\ NoData.buttons = {}
        /\ NoData.emitted = FALSE
        /\ NoData.tip = FALSE /\ NoData.keyboard = FALSE /\ NoData.scroll.active = FALSE
    BY DEF NoData, Datas, NoScroll, Scrolls
  <1>9. /\ Unplugged \in Libinputs /\ ~Unplugged.present /\ Unplugged.touched = {}
        /\ Unplugged.buttons = {}
        /\ Unplugged.keys = {} /\ Unplugged.tip = FALSE
    BY DEF Unplugged, Libinputs
  <1>10. /\ data'[d] = NoData /\ libinput'[d] = Unplugged /\ libinput' \in [Devices -> Libinputs]
         /\ \A e \in Devices : e # d => libinput'[e] = libinput[e] /\ data'[e] = data[e]
    BY <1>1, <1>2, <1>8, <1>9
  <1>11. input'.next_id = input.next_id /\ input'.cursor_id = input.cursor_id
    <2> DEFINE n == IF "pointer" \in Capabilities[d] /\ data[d].emitted
                    THEN input.n_cursor_devices - 1 ELSE input.n_cursor_devices
    <2>1. input' = [input EXCEPT !.n_cursor_devices = n] BY <1>1, <1>2 DEF RemovedInput, Inputs
    <2> HIDE DEF n
    <2> QED BY <1>2, <2>1 DEF Inputs
  <1>12. LibinputOK'
    <2>1. IsFiniteSet({e \in Devices : libinput'[e].present})
      <3> DEFINE P == {e \in Devices : libinput[e].present}
      <3>1. IsFiniteSet(P) BY <1>2 DEF LibinputOK
      <3>2. {e \in Devices : libinput'[e].present} \subseteq P BY <1>9, <1>10
      <3> HIDE DEF P
      <3> QED BY <3>1, <3>2, FS_Subset
    <2>2. ASSUME NEW e \in Devices
          PROVE  /\ libinput'[e].present <=> data'[e].state # "null"
                 /\ data'[e].state # "live" => Released(e)' /\ data'[e].buttons = {}
                        /\ ~data'[e].keyboard
                 /\ data'[e].buttons = libinput'[e].buttons \cap Buttons
                 /\ data'[e].tip = libinput'[e].tip
                 /\ data'[e].buttons # {} => data'[e].emitted
                 /\ data'[e].scroll.active => data'[e].scroll.added
      <3>1. CASE e = d
        <4>1. Released(d)' BY <1>9, <1>10 DEF Released
        <4> QED BY <1>8, <1>9, <1>10, <3>1, <4>1
      <3>2. CASE e # d
        <4>1. libinput'[e] = libinput[e] /\ data'[e] = data[e] BY <1>10, <3>2
        <4>2. Released(e)' = Released(e) BY <4>1 DEF Released
        <4> QED BY <1>2, <4>1, <4>2 DEF LibinputOK
      <3> QED BY <3>1, <3>2
    <2> QED BY <1>10, <2>1, <2>2 DEF LibinputOK
  <1>13. \A e \in Alive' : e \in Alive /\ e # d /\ e \in Devices /\ data'[e] = data[e]
                           /\ libinput'[e] = libinput[e] /\ data[e].state = "live"
    BY <1>8, <1>10 DEF Alive
  <1>14. ASSUME NEW e \in Alive'
         PROVE  /\ ScrollIds(e)' = ScrollIds(e) /\ TouchIds(e)' = TouchIds(e)
                /\ StylusIds(e)' = StylusIds(e) /\ Owned(e)' = Owned(e)
    <2>1. data'[e] = data[e] BY <1>13
    <2> QED BY <2>1 DEF ScrollIds, TouchIds, StylusIds, Owned
  <1>15. IdsOK'
    <2>1. ASSUME NEW e \in Alive'
          PROVE  /\ Owned(e)' \subseteq 0 .. input'.next_id - 1 /\ input'.cursor_id \notin Owned(e)'
                 /\ ScrollIds(e)' \cap TouchIds(e)' = {} /\ ScrollIds(e)' \cap StylusIds(e)' = {}
                 /\ TouchIds(e)' \cap StylusIds(e)' = {}
      BY <1>2, <1>11, <1>13, <1>14 DEF IdsOK
    <2>2. ASSUME NEW e \in Alive', NEW f \in Alive', e # f PROVE Owned(e)' \cap Owned(f)' = {}
      BY <1>2, <1>13, <1>14, <2>2 DEF IdsOK
    <2> QED BY <1>2, <1>11, <2>1, <2>2 DEF IdsOK
  <1>16. (CursorKnown(k1))'
    <2>1. Speakers' = Speakers \ {d} BY <1>8, <1>10 DEF Speakers
    <2>2. Pressing' = Pressing
      <3>1. data[d].buttons = {} BY <1>1, <1>2 DEF LibinputOK, Released
      <3> QED BY <1>8, <1>10, <3>1 DEF Pressing
    <2>3. Pressing \subseteq Speakers BY <1>2 DEF Pressing, Speakers, LibinputOK
    <2>4. input.cursor_id # -1 => k1[input.cursor_id]
              = IF leaves THEN "absent" ELSE k[input.cursor_id]
      <3>1. input.cursor_id \notin Owned(d) BY <1>3, AliveIs
      <3> QED BY <1>7, <3>1, CursorIdIs
    <2>5. leaves => Pressing = {}
      <3>1. d \notin Pressing
        <4>1. data[d].buttons = {} BY <1>1, <1>2 DEF LibinputOK, Released
        <4> QED BY <4>1 DEF Pressing
      <3> QED BY <2>3, <3>1
    <2>6. Speakers' = {} <=> leaves \/ Speakers = {} BY <2>1
    <2> HIDE DEF leaves
    <2>7. CASE input.cursor_id = -1
      <3>1. Speakers = {} /\ Pressing = {} BY <1>2, <2>3, <2>7 DEF CursorKnown
      <3> QED BY <1>11, <2>2, <2>6, <2>7, <3>1 DEF CursorKnown
    <2>8. CASE input.cursor_id # -1 /\ leaves
      <3>1. k1[input.cursor_id] = "absent" /\ Speakers' = {} /\ Pressing' = {}
        BY <2>2, <2>4, <2>5, <2>6, <2>8
      <3> QED BY <1>11, <2>8, <3>1 DEF CursorKnown
    <2>9. CASE input.cursor_id # -1 /\ ~leaves
      <3>1. k1[input.cursor_id] = k[input.cursor_id] /\ (Speakers' = {} <=> Speakers = {})
                /\ Pressing' = Pressing
        BY <2>2, <2>4, <2>6, <2>9
      <3> QED BY <1>2, <1>3, <1>11, <2>9, <3>1 DEF CursorKnown
    <2> QED BY <2>7, <2>8, <2>9
  <1>17. KeysKnown'
    <2>1. \A e \in Devices : libinput'[e].keys = libinput[e].keys BY <1>1, <1>9, <1>10 DEF Released
    <2>2. \A e \in Devices : data'[e].keyboard => data[e].keyboard BY <1>8, <1>10
    <2>3. \A e \in Devices : data[e].keyboard => data'[e].keyboard \/ libinput[e].keys = {}
      BY <1>1, <1>10 DEF Released
    <2> QED BY <1>1, <1>2, <1>3, <2>1, <2>2, <2>3 DEF KeysKnown
  <1>18. (Unused(k1))'
    <2>1. ASSUME NEW id \in Ids, id >= input.next_id PROVE k1[id] = "absent"
      <3>1. k[id] = "absent" BY <1>2, <2>1 DEF Unused
      <3>2. CASE id \in Owned(d) BY <1>7, <3>2
      <3>3. CASE id \notin Owned(d) /\ leaves /\ id = input.cursor_id BY <1>7, <3>3
      <3>4. CASE id \notin Owned(d) /\ (leaves => id # input.cursor_id) BY <1>7, <3>1, <3>4
      <3> QED BY <3>2, <3>3, <3>4
    <2> QED BY <1>11, <2>1 DEF Unused
  <1>19. NoBreach(k1)
    <2>1. ASSUME NEW id \in Ids PROVE k1[id] # "breach"
      <3>1. CASE id \in Owned(d) BY <1>7, <3>1
      <3>2. CASE id \notin Owned(d) /\ leaves /\ id = input.cursor_id BY <1>7, <3>2
      <3>3. CASE id \notin Owned(d) /\ (leaves => id # input.cursor_id)
        BY <1>2, <1>7, <3>3 DEF NoBreach
      <3> QED BY <3>1, <3>2, <3>3
    <2> QED BY <2>1 DEF NoBreach
  <1>20. ASSUME NEW e \in Alive' PROVE (DeviceKnown(k1, e))'
    <2>1. e \in Alive /\ e # d /\ e \in Devices /\ data[e].state = "live" BY <1>13
    <2>2. /\ DeviceKnown(k, e) /\ Owned(e) \subseteq Ids /\ input.cursor_id \notin Owned(e)
          /\ Owned(e) \cap Owned(d) = {}
      <3>1. d \in Alive BY <1>3, AliveIs
      <3> QED BY <2>1, <3>1, AliveIs
    <2>3. \A id \in Owned(e) : k1[id] = k[id] BY <1>7, <2>2
    <2> HIDE DEF leaves
    <2>4. data'[e] = data[e] /\ libinput'[e] = libinput[e] /\ excused \subseteq excused'
      BY <1>3, <1>13
    <2> QED BY <2>1, <2>2, <2>3, <2>4, DeviceKept
  <1>21. (Followed(k1))'
    <2> HIDE DEF leaves
    <2> QED BY <1>12, <1>15, <1>16, <1>17, <1>18, <1>19, <1>20 DEF Followed, NoBreach
  <1> QED BY <1>5, <1>6, <1>21, FollowingFrom

(* Sequences one after the other.                                          *)
Joined(f, n, seqs) == f = [i \in 1 .. n |-> IF i = 1 THEN seqs[i] ELSE f[i - 1] \o seqs[i]]

(* What FlattenSeq returns is the last of them.                            *)
LEMMA FlattenIs ==
  ASSUME NEW seqs, Len(seqs) \in Nat, Len(seqs) # 0
  PROVE  \E f : Joined(f, Len(seqs), seqs) /\ FlattenSeq(seqs) = f[Len(seqs)]
  <1>1. FlattenSeq(seqs) = Accepting!FlattenSeq(seqs) BY DEF FlattenSeq, Accepting!FlattenSeq
  <1> QED BY <1>1, Accepting!FlattenIs DEF Joined, Accepting!Joined

(* The sequence of a finite set has every element once.                    *)
LEMMA SequenceOfSet ==
  ASSUME NEW S, IsFiniteSet(S)
  PROVE  /\ Cardinality(S) \in Nat /\ SetToSeq(S) \in [1 .. Cardinality(S) -> S]
         /\ \A i, j \in 1 .. Cardinality(S) : i # j => SetToSeq(S)[i] # SetToSeq(S)[j]
  <1> DEFINE n == Cardinality(S)
  <1>1. n \in Nat BY FS_CardinalityType
  <1>2. PICK f : f \in Bijection(1 .. n, S) BY FS_CardinalityType DEF ExistsBijection
  <1>3. f \in [1 .. n -> S] /\ IsInjective(f)
    BY <1>2 DEF Bijection, Injection, IsInjective
  <1> DEFINE g == CHOOSE f1 \in [1 .. n -> S] : IsInjective(f1)
  <1>4. g \in [1 .. n -> S] /\ IsInjective(g) BY <1>3
  <1>5. SetToSeq(S) = g BY DEF SetToSeq
  <1> HIDE DEF g, n
  <1>6. \A i, j \in 1 .. n : i # j => g[i] # g[j] BY <1>4 DEF IsInjective
  <1> QED BY <1>1, <1>4, <1>5, <1>6 DEF n

(* Styluses of different devices, one after the other.                     *)
StylusesGone(g, n) == UNION {StylusIds(g[j]) : j \in 1 .. n}

(* Styluses of different devices, removed one after the other.             *)
LEMMA StylusesRemoved ==
  ASSUME NEW k, Before(k), NEW n \in Nat, NEW g \in [1 .. n -> Alive],
         \A i, j \in 1 .. n : i # j => g[i] # g[j],
         NEW f, Joined(f, n, [i \in 1 .. n |-> StylusRemoved(g[i])]), n # 0
  PROVE  /\ f[n] \in Seq(Events) /\ Track(k, f[n]) \in Knowledge
         /\ \A id \in Ids : Track(k, f[n])[id] # "breach"
  <1> DEFINE Good(m) ==
               /\ f[m] \in Seq(Events) /\ Track(k, f[m]) \in Knowledge
               /\ \A id \in Ids :
                    Track(k, f[m])[id] = IF id \in StylusesGone(g, m) THEN "absent" ELSE k[id]
             S == {m \in Nat : m + 1 \in 1 .. n => Good(m + 1)}
  <1>1. \A d \in Alive : d \in Devices /\ data[d].state = "live" BY DEF Alive
  <1>2. k \in Knowledge /\ NoBreach(k) BY BeforeIs
  <1>3. ASSUME NEW d \in Alive, NEW id \in StylusIds(d)
        PROVE  id \in Ids /\ k[id] \in {"up", "down"}
                   /\ \A e \in Alive : e # d => id \notin StylusIds(e)
    <2>1. /\ DeviceKnown(k, d) /\ Owned(d) \subseteq Ids
          /\ \A e \in Alive : e # d => Owned(e) \cap Owned(d) = {}
      BY <1>1, AliveIs
    <2>2. "tablet" \in Capabilities[d] /\ id = data[d].stylus_id BY <1>3 DEF StylusIds
    <2>3. id \in Owned(d) BY <1>3 DEF Owned
    <2>4. \A e \in Alive : StylusIds(e) \subseteq Owned(e) BY DEF Owned
    <2>5. k[id] \in {"up", "down"} BY <2>1, <2>2 DEF DeviceKnown, StylusKnown
    <2> HIDE DEF Owned, StylusIds
    <2> QED BY <2>1, <2>3, <2>4, <2>5
  <1>4. 0 \in S
    <2>1. SUFFICES ASSUME 1 \in 1 .. n PROVE Good(1) OBVIOUS
    <2>2. f[1] = StylusRemoved(g[1]) BY <2>1 DEF Joined
    <2>3. StylusesGone(g, 1) = StylusIds(g[1]) BY DEF StylusesGone
    <2>4. g[1] \in Alive BY <2>1
    <2>5. /\ f[1] \in Seq(Events) /\ Track(k, f[1]) \in Knowledge
          /\ \A id \in Ids : Track(k, f[1])[id] =
                IF id \in StylusIds(g[1]) THEN After(k[id], "remove") ELSE k[id]
      BY <1>1, <1>2, <2>2, <2>4, StylusRemovedKnown
    <2>6. \A id \in StylusIds(g[1]) : After(k[id], "remove") = "absent" BY <1>3, <2>4, PressIs
    <2> QED BY <2>3, <2>5, <2>6
  <1>5. ASSUME NEW m \in Nat, m \in S PROVE m + 1 \in S
    <2> DEFINE p == m + 1
               q == m + 2
    <2>1. SUFFICES ASSUME q \in 1 .. n PROVE Good(q) OBVIOUS
    <2>2. p \in 1 .. n /\ q # 1 /\ q - 1 = p /\ p \in Nat /\ q \in Nat /\ q = p + 1 BY <2>1
    <2>3. Good(p) BY <1>5, <2>2
    <2> HIDE DEF p, q
    <2>4. f[q] = f[p] \o StylusRemoved(g[q]) BY <2>1, <2>2 DEF Joined
    <2>5. g[q] \in Alive /\ \A j \in 1 .. p : j \in 1 .. n /\ g[j] \in Alive /\ g[j] # g[q]
      BY <2>1, <2>2
    <2>6. StylusesGone(g, q) = StylusesGone(g, p) \cup StylusIds(g[q])
      <3>1. 1 .. q = (1 .. p) \cup {q} BY <2>2
      <3> QED BY <3>1 DEF StylusesGone
    <2>7. \A id \in StylusIds(g[q]) : id \notin StylusesGone(g, p)
      <3>1. ASSUME NEW id \in StylusIds(g[q]), NEW j \in 1 .. p PROVE id \notin StylusIds(g[j])
        BY <1>3, <2>5
      <3> QED BY <3>1 DEF StylusesGone
    <2> DEFINE h == Track(k, f[p])
               es == StylusRemoved(g[q])
    <2>8. f[p] \in Seq(Events) /\ h \in Knowledge BY <2>3
    <2>9. /\ es \in Seq(Events) /\ Track(h, es) \in Knowledge
          /\ \A id \in Ids : Track(h, es)[id]
                 = IF id \in StylusIds(g[q]) THEN After(h[id], "remove") ELSE h[id]
      <3> HIDE DEF h
      <3> QED BY <1>1, <2>5, <2>8, StylusRemovedKnown
    <2>10. f[q] \in Seq(Events) BY <2>4, <2>8, <2>9, ConcatProperties
    <2>11. Track(k, f[q]) = Track(h, es)
      <3> HIDE DEF es
      <3> QED BY <2>4, <2>8, <2>9, TrackConcat DEF es
    <2>12. \A id \in Ids : h[id] = IF id \in StylusesGone(g, p) THEN "absent" ELSE k[id] BY <2>3
    <2> HIDE DEF h, es, Good
    <2>13. ASSUME NEW id \in Ids
           PROVE  Track(k, f[q])[id] = IF id \in StylusesGone(g, q) THEN "absent" ELSE k[id]
      <3>1. CASE id \in StylusIds(g[q])
        <4>1. h[id] = k[id] /\ k[id] \in {"up", "down"} BY <1>3, <2>5, <2>7, <2>12, <3>1
        <4>2. After(h[id], "remove") = "absent" BY <4>1, PressIs
        <4> QED BY <2>6, <2>9, <2>11, <3>1, <4>2
      <3>2. CASE id \notin StylusIds(g[q]) BY <2>6, <2>9, <2>11, <2>12, <3>2
      <3> QED BY <3>1, <3>2
    <2> QED BY <2>9, <2>10, <2>11, <2>13 DEF Good
  <1> HIDE DEF S, Good
  <1>6. n - 1 \in Nat OBVIOUS
  <1>7. n - 1 \in S BY <1>4, <1>5, <1>6, Accepting!SetInduction
  <1>8. Good(n)
    <2>1. (n - 1) + 1 = n /\ n \in 1 .. n OBVIOUS
    <2> QED BY <1>7, <2>1 DEF S
  <1> QED BY <1>2, <1>8 DEF Good, NoBreach

(* Destroying the input removes every stylus, and no pointer twice.        *)
LEMMA DestroyPointers ==
  ASSUME NEW k, Before(k), UserInputDestroy, "freed" \notin excused'
  PROVE  Following'
  <1> DEFINE gone == {d \in Devices : libinput[d].present}
             n == Cardinality(gone)
             g == SetToSeq(gone)
             seqs == [i \in 1 .. n |-> StylusRemoved(g[i])]
             es == FlattenSeq(seqs)
  <1>1. /\ out' = EmitPointerEvents(out, es) /\ input'.destroyed
        /\ ~\E d \in gone : data[d].state = "freed"
    <2>1. input \in Inputs BY BeforeIs
    <2> QED BY <2>1 DEF UserInputDestroy, Inputs
  <1>2. LibinputOK /\ NoBreach(k) /\ k \in Knowledge /\ out \in Outs /\ Known(out) = k
        /\ \A d \in Devices : data[d] \in Datas
    BY BeforeIs
  <1>3. gone \subseteq Alive
    <2>1. ASSUME NEW d \in gone PROVE d \in Alive
      <3>1. data[d].state # "null" /\ data[d].state # "freed" BY <1>1, <1>2 DEF LibinputOK
      <3>2. data[d].state \in {"null", "live", "freed"} BY <1>2 DEF Datas
      <3> QED BY <3>1, <3>2 DEF Alive
    <2> QED BY <2>1
  <1>4. IsFiniteSet(gone) BY <1>2 DEF LibinputOK
  <1>5. /\ n \in Nat /\ g \in [1 .. n -> gone]
        /\ \A i, j \in 1 .. n : i # j => g[i] # g[j]
    <2> HIDE DEF gone
    <2> QED BY <1>4, SequenceOfSet
  <1> HIDE DEF gone, n, g
  <1>6. g \in [1 .. n -> Alive] BY <1>3, <1>5
  <1>7. /\ es \in Seq(Events) /\ Track(k, es) \in Knowledge
        /\ \A id \in Ids : Track(k, es)[id] # "breach"
    <2>1. CASE n = 0
      <3>1. seqs = <<>> BY <2>1
      <3> HIDE DEF seqs
      <3>2. es = <<>> BY <3>1 DEF FlattenSeq
      <3>3. <<>> \in Seq(Events) /\ Track(k, <<>>) = k BY TrackEmpty
      <3> QED BY <1>2, <3>2, <3>3 DEF NoBreach
    <2>2. CASE n # 0
      <3>1. Len(seqs) = n BY <1>5
      <3> DEFINE sq == seqs
      <3> HIDE DEF sq
      <3>2. Len(sq) = n /\ Len(sq) \in Nat /\ Len(sq) # 0 BY <1>5, <2>2, <3>1 DEF sq
      <3>3. PICK f : Joined(f, Len(sq), sq) /\ FlattenSeq(sq) = f[Len(sq)] BY <3>2, FlattenIs
      <3>4. Joined(f, n, seqs) /\ es = f[n] BY <3>2, <3>3 DEF sq
      <3>5. /\ f[n] \in Seq(Events) /\ Track(k, f[n]) \in Knowledge
            /\ \A id \in Ids : Track(k, f[n])[id] # "breach"
        BY <1>5, <1>6, <2>2, <3>4, StylusesRemoved
      <3> HIDE DEF es
      <3> QED BY <3>4, <3>5
    <2> QED BY <2>1, <2>2
  <1> HIDE DEF es
  <1>8. PICK k1 : k1 = Known(out') OBVIOUS
  <1>9. out' \in Outs /\ k1 = Track(k, es) BY <1>1, <1>2, <1>7, <1>8, EmitMany
  <1>10. NoBreach(k1) BY <1>7, <1>9 DEF NoBreach
  <1>11. (Followed(k1))' BY <1>1, <1>10 DEF Followed, NoBreach
  <1> QED BY <1>8, <1>9, <1>11, FollowingFrom

(* At the start Flutter knows of no pointer.                               *)
LEMMA PointersInitial == InputInit => PointersInv
  <1> SUFFICES ASSUME InputInit PROVE PointersInv OBVIOUS
  <1>1. PICK devices \in Setups :
          libinput = [d \in Devices |-> [Unplugged EXCEPT !.exists = d \in devices]]
    BY DEF InputInit
  <1>2. ASSUME NEW d \in Devices
        PROVE  /\ libinput[d] \in Libinputs /\ libinput[d].present = FALSE
               /\ libinput[d].touched = {}
               /\ libinput[d].buttons = {} /\ libinput[d].tip = FALSE /\ libinput[d].keys = {}
    <2> DEFINE b == d \in devices
    <2>1. libinput[d] = [Unplugged EXCEPT !.exists = b] /\ b \in BOOLEAN BY <1>1
    <2> HIDE DEF b
    <2> QED BY <2>1 DEF Unplugged, Libinputs
  <1>3. libinput \in [Devices -> Libinputs] BY <1>1, <1>2
  <1>4. /\ NoData.state = "null" /\ NoData.buttons = {} /\ NoData.emitted = FALSE
        /\ NoData.tip = FALSE /\ NoData.keyboard = FALSE /\ NoData.scroll.active = FALSE
    BY DEF NoData, NoScroll
  <1>5. \A d \in Devices : data[d] = NoData BY DEF InputInit
  <1>6. /\ input.next_id = 0 /\ input.cursor_id = -1 /\ input.destroyed = FALSE
        /\ batch.running = FALSE
        /\ keysDown = {} /\ excused = {}
    BY DEF InputInit
  <1>7. LibinputOK
    <2>1. {d \in Devices : libinput[d].present} = {} BY <1>2
    <2>2. IsFiniteSet({d \in Devices : libinput[d].present}) BY <2>1, FS_EmptySet
    <2>3. \A d \in Devices : Released(d) BY <1>2 DEF Released
    <2> QED BY <1>2, <1>3, <1>4, <1>5, <2>2, <2>3 DEF LibinputOK
  <1>8. Alive = {} BY <1>4, <1>5 DEF Alive
  <1>9. IdsOK BY <1>6, <1>8, InputConstants DEF IdsOK
  <1>10. Speakers = {} /\ Pressing = {} BY <1>4, <1>5 DEF Speakers, Pressing
  <1>11. KeysKnown BY <1>2, <1>4, <1>5, <1>6 DEF KeysKnown
  <1> DEFINE none == [id \in Ids |-> "absent"]
  <1>12. out.buffer = <<>> /\ out.flutter = none /\ out = [buffer |-> <<>>, flutter |-> none]
    BY DEF InputInit
  <1>13. none \in Knowledge BY DEF Knowledge, PointerStates
  <1>14. out \in Outs
    <2>1. <<>> \in Seq(Events) OBVIOUS
    <2> HIDE DEF none
    <2> QED BY <1>12, <1>13, <2>1 DEF Outs
  <1>15. Known(out) = none BY <1>12, TrackEmpty DEF Known, Track
  <1>16. Unused(none) /\ NoBreach(none) BY DEF Unused, NoBreach
  <1>17. CursorKnown(none)
    <2> HIDE DEF none
    <2> QED BY <1>6, <1>10 DEF CursorKnown
  <1> HIDE DEF none
  <1>18. Followed(none) BY <1>7, <1>8, <1>9, <1>11, <1>16, <1>17 DEF Followed
  <1> QED BY <1>6, <1>14, <1>15, <1>18 DEF PointersInv, Following

(* The input is destroyed between batches, and stays so.                   *)
LEMMA NotDestroyed ==
  ASSUME InputInv, InputNext, ~UserInputDestroy
  PROVE  input'.destroyed = input.destroyed
  <1>1. input \in Inputs BY DEF InputInv, InputTypeOK
  <1>2. CASE BeginBatch \/ EndBatch \/ Suspend \/ Resume
    BY <1>1, <1>2 DEF BeginBatch, EndBatch, Suspend, Resume, Inputs
  <1>3. ASSUME NEW d \in Devices, OnDeviceAdded(d) \/ OnDeviceRemoved(d)
        PROVE input'.destroyed = input.destroyed
    <2>1. CASE OnDeviceAdded(d)
      <3>1. \E n \in {input'.next_id} : input' = [input EXCEPT !.next_id = n]
        BY <1>1, <2>1 DEF OnDeviceAdded, Inputs
      <3> QED BY <1>1, <3>1 DEF Inputs
    <2>2. CASE OnDeviceRemoved(d) BY <1>1, <2>2 DEF OnDeviceRemoved, RemovedInput, Inputs
    <2> QED BY <1>3, <2>1, <2>2
  <1>4. ASSUME NEW d \in Devices, NEW pos, MovedTo(d, pos) PROVE input'.destroyed = input.destroyed
    <2> DEFINE s == PointerSpeaks(d)[1]
    <2>1. s \in Inputs /\ s.destroyed = input.destroyed BY SpeaksIs
    <2>2. input' = [s EXCEPT !.cursor = pos] BY <1>4 DEF MovedTo
    <2> HIDE DEF s
    <2> QED BY <2>1, <2>2 DEF Inputs
  <1>5. ASSUME NEW d \in Devices,
               \/ \E b \in Buttons \cup {"other"}, p \in BOOLEAN : OnMouseButton(d, b, p)
               \/ \E f \in BOOLEAN, dx \in Axis, dy \in Axis : OnMouseAxis(d, f, dx, dy)
        PROVE input'.destroyed = input.destroyed
    <2>1. input' = PointerSpeaks(d)[1] BY <1>5 DEF OnMouseButton, OnMouseAxis
    <2> QED BY <2>1, SpeaksIs
  <1>6. ASSUME NEW d \in Devices,
               \/ OnEventOfFreed(d)
               \/ \E slot \in 0..(TouchCount[d] - 1) :
                     OnTouchDown(d, slot) \/ OnTouchMotion(d, slot) \/ OnTouchUp(d, slot)
                         \/ OnTouchCancel(d, slot)
               \/ OnTabletToolAxis(d) \/ OnTabletToolProximity(d)
               \/ \E down \in BOOLEAN : OnTabletToolTip(d, down)
               \/ \E key \in Keys, p \in BOOLEAN : OnKeyEvent(d, key, p)
        PROVE input' = input
    BY <1>6 DEF OnEventOfFreed, OnTouchDown, OnTouchMotion, OnTouchUp, OnTouchCancel, TouchEvent,
                OnTabletToolAxis, OnTabletToolProximity, OnTabletToolTip, OnKeyEvent
  <1> QED BY <1>2, <1>3, <1>4, <1>5, <1>6 DEF InputNext, OnMouseMotion, OnMouseMotionAbsolute

(* What is excused stays so, and nothing happens after the end.            *)
LEMMA Excuses == InputNext => excused \subseteq excused' /\ (batch.running \/ ~input.destroyed)
  <1> SUFFICES ASSUME InputNext PROVE excused \subseteq excused'
                   /\ (batch.running \/ ~input.destroyed)
    OBVIOUS
  <1>1. CASE BeginBatch \/ EndBatch \/ Suspend \/ Resume \/ UserInputDestroy
    BY <1>1 DEF BeginBatch, EndBatch, Suspend, Resume, UserInputDestroy
  <1>2. ASSUME NEW d \in Devices, OnDeviceAdded(d) \/ OnDeviceRemoved(d) \/ OnEventOfFreed(d)
        PROVE excused \subseteq excused' /\ batch.running
    BY <1>2 DEF OnDeviceAdded, OnDeviceRemoved, OnEventOfFreed, Uses, Handling
  <1>3. ASSUME NEW d \in Devices, NEW pos, MovedTo(d, pos)
        PROVE excused \subseteq excused' /\ batch.running
    BY <1>3 DEF MovedTo, Live, Handling
  <1>4. ASSUME NEW d \in Devices, NEW b, NEW p, OnMouseButton(d, b, p)
        PROVE excused \subseteq excused' /\ batch.running
    BY <1>4 DEF OnMouseButton, Live, Handling
  <1>5. ASSUME NEW d \in Devices, NEW f, NEW dx, NEW dy, OnMouseAxis(d, f, dx, dy)
        PROVE excused \subseteq excused' /\ batch.running
    BY <1>5 DEF OnMouseAxis, Live, Handling
  <1>6. ASSUME NEW d \in Devices, NEW slot,
               OnTouchDown(d, slot) \/ OnTouchMotion(d, slot) \/ OnTouchUp(d, slot)
                   \/ OnTouchCancel(d, slot)
        PROVE excused \subseteq excused' /\ batch.running
    BY <1>6 DEF OnTouchDown, OnTouchMotion, OnTouchUp, OnTouchCancel, TouchEvent, Live, Handling
  <1>7. ASSUME NEW d \in Devices,
               OnTabletToolAxis(d) \/ OnTabletToolProximity(d)
                   \/ \E down \in BOOLEAN : OnTabletToolTip(d, down)
        PROVE excused \subseteq excused' /\ batch.running
    BY <1>7 DEF OnTabletToolAxis, OnTabletToolProximity, OnTabletToolTip, Live, Handling
  <1>8. ASSUME NEW d \in Devices, NEW key, NEW p, OnKeyEvent(d, key, p)
        PROVE excused \subseteq excused' /\ batch.running
    BY <1>8 DEF OnKeyEvent, Live, Handling
  <1> QED BY <1>1, <1>2, <1>3, <1>4, <1>5, <1>6, <1>7, <1>8
             DEF InputNext, OnMouseMotion, OnMouseMotionAbsolute

(* Every step of the input keeps what Flutter knows in step.               *)
LEMMA PointersStep == InputInv /\ PointersInv /\ [InputNext]_inputVars => PointersInv'
  <1> SUFFICES ASSUME InputInv, PointersInv, [InputNext]_inputVars PROVE PointersInv' OBVIOUS
  <1>1. CASE UNCHANGED inputVars
    <2>1. /\ out' = out /\ input' = input /\ batch' = batch /\ excused' = excused
          /\ UNCHANGED <<libinput, data, keysDown>>
      BY <1>1 DEF inputVars
    <2>2. ASSUME "freed" \notin excused PROVE Following'
      <3>1. PICK k : k = Known(out) OBVIOUS
      <3>2. out \in Outs /\ Followed(k) BY <2>2, <3>1 DEF PointersInv, Following
      <3>3. k \in Knowledge BY <3>2, <3>1, KnownIs
      <3>4. k = Known(out') BY <2>1, <3>1
      <3>5. CASE input.destroyed
        <4>1. NoBreach(k) BY <3>2 DEF Followed
        <4>2. (Followed(k))' BY <2>1, <3>5, <4>1 DEF Followed, NoBreach
        <4> QED BY <2>1, <3>2, <3>4, <4>2, FollowingFrom
      <3>6. CASE ~input.destroyed
        <4>1. Before(k) BY <3>2, <3>3, <3>1, <3>6 DEF Before
        <4>2. (Followed(k))' BY <2>1, <4>1, QuietFollowed
        <4> QED BY <2>1, <3>2, <3>4, <4>2, FollowingFrom
      <3> QED BY <3>5, <3>6
    <2> QED BY <2>1, <2>2 DEF PointersInv
  <1>2. CASE InputNext
    <2>1. excused \subseteq excused' /\ ~input.destroyed BY <1>2, Excuses DEF PointersInv
    <2>2. input'.destroyed => ~batch'.running
      <3>1. CASE UserInputDestroy BY <3>1 DEF UserInputDestroy
      <3>2. CASE ~UserInputDestroy BY <1>2, <2>1, <3>2, NotDestroyed
      <3> QED BY <3>1, <3>2
    <2>3. ASSUME "freed" \notin excused' PROVE Following'
      <3>1. Following BY <2>1, <2>3 DEF PointersInv
      <3> DEFINE k == Known(out)
      <3>2. k \in Knowledge /\ out \in Outs /\ Known(out) = k BY <3>1, KnownIs DEF Following
      <3>3. Before(k) BY <2>1, <3>1, <3>2 DEF Before, Following
      <3> HIDE DEF k
      <3>4. CASE BeginBatch \/ EndBatch \/ Suspend \/ Resume BY <3>3, <3>4, BatchPointers
      <3>5. CASE UserInputDestroy BY <2>3, <3>3, <3>5, DestroyPointers
      <3>6. ASSUME NEW d \in Devices, OnDeviceAdded(d) \/ OnDeviceRemoved(d) PROVE Following'
        BY <2>3, <3>3, <3>6, AddedPointers, RemovedPointers
      <3>7. ASSUME NEW d \in Devices, OnEventOfFreed(d) PROVE FALSE
        BY <2>3, <3>7 DEF OnEventOfFreed, Uses
      <3>8. ASSUME NEW d \in Devices,
                   \/ \E delta \in {-1, 1} : OnMouseMotion(d, delta)
                   \/ \E pos \in 0..(DisplayWidth - 1) : OnMouseMotionAbsolute(d, pos)
            PROVE Following'
        BY <3>3, <3>8, MovedToPointers DEF OnMouseMotion, OnMouseMotionAbsolute
      <3>9. ASSUME NEW d \in Devices,
                   \E b \in Buttons \cup {"other"}, p \in BOOLEAN : OnMouseButton(d, b, p)
            PROVE Following'
        BY <3>3, <3>9, ButtonPointers
      <3>10. ASSUME NEW d \in Devices,
                    \E f \in BOOLEAN, dx \in Axis, dy \in Axis : OnMouseAxis(d, f, dx, dy)
             PROVE Following'
        BY <3>3, <3>10, AxisPointers
      <3>11. ASSUME NEW d \in Devices,
                    \E slot \in 0..(TouchCount[d] - 1) :
                        OnTouchDown(d, slot) \/ OnTouchMotion(d, slot) \/ OnTouchUp(d, slot)
                            \/ OnTouchCancel(d, slot)
             PROVE Following'
        BY <3>3, <3>11, TouchPointers
      <3>12. ASSUME NEW d \in Devices,
                    OnTabletToolAxis(d) \/ OnTabletToolProximity(d)
                        \/ \E down \in BOOLEAN : OnTabletToolTip(d, down)
             PROVE Following'
        BY <3>3, <3>12, TabletPointers
      <3>13. ASSUME NEW d \in Devices, \E key \in Keys, p \in BOOLEAN : OnKeyEvent(d, key, p)
             PROVE Following'
        BY <3>3, <3>13, KeyPointers
      <3> QED BY <1>2, <3>4, <3>5, <3>6, <3>7, <3>8, <3>9, <3>10, <3>11, <3>12, <3>13 DEF InputNext
    <2> QED BY <2>2, <2>3 DEF PointersInv
  <1> QED BY <1>1, <1>2

(* What is known agrees with what is pressed.                              *)
LEMMA PointersTheEnd == InputInv /\ PointersInv => PointersAgree
  <1> SUFFICES ASSUME InputInv, PointersInv PROVE PointersAgree OBVIOUS
  <1> DEFINE k == Known(out)
  <1>1. ASSUME "freed" \notin excused
        PROVE out \in Outs /\ Followed(k) /\ FlushPointerEvents(out).flutter = k
    BY <1>1, FlushIs DEF PointersInv, Following
  <1>2. PointerProtocol BY <1>1 DEF PointerProtocol, Followed, NoBreach
  <1>3. ASSUME Idle, "freed" \notin excused
        PROVE /\ LibinputOK /\ CursorKnown(k) /\ KeysKnown /\ \A d \in Alive : DeviceKnown(k, d)
              /\ \A id : Sees(id) = k[id]
    <2>1. out.buffer = <<>> /\ ~input.destroyed BY <1>3 DEF Idle
    <2>2. k = out.flutter BY <2>1, TrackEmpty DEF Known, Track
    <2>3. Followed(k) BY <1>1, <1>3
    <2> HIDE DEF k
    <2> QED BY <2>1, <2>2, <2>3 DEF Followed, Sees
  <1>4. PressedAgrees
    <2> HIDE DEF k
    <2> SUFFICES ASSUME Idle, "freed" \notin excused PROVE PressedAgrees BY DEF PressedAgrees
    <2>1. /\ LibinputOK /\ CursorKnown(k) /\ KeysKnown /\ \A d \in Alive : DeviceKnown(k, d)
          /\ \A id : Sees(id) = k[id]
      BY <1>3
    <2>2. ASSUME NEW d \in Devices, data[d].state = "live", "touch" \in Capabilities[d],
                 NEW s \in 0..(TouchCount[d] - 1)
          PROVE /\ s \in libinput[d].touched => Sees(data[d].touch_id + s) = "down"
                /\ s \notin libinput[d].touched =>
                      Sees(data[d].touch_id + s) = "up" \/ "cancelled" \in excused
      BY <2>1, <2>2 DEF Alive, DeviceKnown, TouchKnown
    <2>3. ASSUME NEW d \in Devices, data[d].state = "live", "tablet" \in Capabilities[d]
          PROVE Sees(data[d].stylus_id) = IF libinput[d].tip THEN "down" ELSE "up"
      <3>1. StylusKnown(k, d) BY <2>1, <2>3 DEF Alive, DeviceKnown
      <3>2. data[d].tip = libinput[d].tip BY <2>1 DEF LibinputOK
      <3> QED BY <2>1, <3>1, <3>2 DEF StylusKnown
    <2>4. \A d \in Devices : libinput[d].buttons \cap Buttons # {} <=> d \in Pressing
      BY <2>1 DEF LibinputOK, Pressing
    <2>5. ASSUME NEW d \in Devices, libinput[d].buttons \cap Buttons # {}
          PROVE Sees(input.cursor_id) = "down" \/ "two mice" \in excused
      BY <2>1, <2>4, <2>5 DEF CursorKnown
    <2>6. ASSUME NEW d \in Devices, data[d].keyboard
          PROVE libinput[d].keys \subseteq keysDown \/ "two keyboards" \in excused
      BY <2>1, <2>6 DEF KeysKnown
    <2>7. (\A d \in Devices : libinput[d].buttons \cap Buttons = {}) /\ input.cursor_id # -1 =>
              Sees(input.cursor_id) # "down"
      <3>1. Pressing \subseteq Devices BY DEF Pressing
      <3> QED BY <2>1, <2>4, <3>1 DEF CursorKnown
    <2>8. \A key \in keysDown : \E d \in Devices : key \in libinput[d].keys BY <2>1 DEF KeysKnown
    <2> QED BY <2>2, <2>3, <2>5, <2>6, <2>7, <2>8 DEF PressedAgrees
  <1> QED BY <1>2, <1>4 DEF PointersAgree

(* InputSpec keeps PointersInv: ids are given once and apart, and of every *)
(* pointer Flutter will know, once it has read what is collected for it,   *)
(* what the devices do. No event it is sent is out of place.               *)
THEOREM PointersCorrect == InputSpec => [](InputInv /\ PointersInv)
  <1>1. InputInit => InputInv /\ PointersInv BY InputInitial, PointersInitial
  <1>2. (InputInv /\ PointersInv) /\ [InputNext]_inputVars => (InputInv /\ PointersInv)'
    BY InputStep, PointersStep
  <1> QED BY <1>1, <1>2, PTL DEF InputSpec

(* PointersAgree: outside the cases its definition excuses, Flutter never  *)
(* gets an event that does not fit the pointer's state, and between        *)
(* batches the pointers it has down are the fingers, tips and buttons that *)
(* are pressed.                                                            *)
THEOREM PointersFollow == InputSpec => []PointersAgree
  BY PointersTheEnd, PointersCorrect, PTL
=============================================================================
