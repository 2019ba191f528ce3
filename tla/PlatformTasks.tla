---------------------------- MODULE PlatformTasks ----------------------------
(***************************************************************************)
(* The platform thread's event loop and the tasks posted to it:            *)
(* src/flutter-pi.c.                                                       *)
(*                                                                         *)
(* The platform thread runs sd-event by hand: prepare, then, without       *)
(* event_loop_mutex, select on the loop's epoll fd, then wait and dispatch *)
(* one source at a time with the mutex held.  Work arrives on four ways:   *)
(* another thread appends to platform_task_queue and writes the wake-up    *)
(* eventfd, never waiting for the mutex; the platform thread itself adds a *)
(* deferred source with a priority that grows with each task; any thread   *)
(* adds a timer (a foreign one with the mutex held); and file descriptors  *)
(* become readable.  A foreign thread needs no state of its own here: each *)
(* of its calls is one critical section.                                   *)
(***************************************************************************)
EXTENDS Naturals, Sequences, FiniteSets

CONSTANTS
    MaxTasks,      \* bound on the tasks posted
    MaxIo,         \* bound on the events of other file descriptors
    EventFdMax,    \* the eventfd's counter cannot exceed this (2^64 - 2)
    TimedWake      \* what the 8 bytes 0,..,0,1 add to it (2^56, little endian)

ASSUME LimitsAssumption ==
    /\ MaxTasks \in Nat /\ MaxIo \in Nat
    /\ EventFdMax \in Nat \ {0} /\ TimedWake \in 1 .. EventFdMax

Tasks == 1 .. MaxTasks

VARIABLES
    phase,                \* the platform thread in flutterpi_run
    cur, draining,        \* task being called (0: none), called from on_wakeup_main_loop
    efd,                  \* counter of wakeup_event_loop_fd
    queue,                \* platform_task_queue
    defer,                \* deferred sources, by priority
    timers, armed, due,   \* timer sources; those in the kernel's timer; those whose time has come
    io,                   \* readable descriptors: 0, or 1 and how many are still to come
    ioLeft,
    pend,                 \* sources sd-event has marked pending
    exit,                 \* sd_event_exit was called
    posted, via,          \* tasks posted so far, and how
    status                \* history of every task

vars == <<phase, cur, draining, efd, queue, defer, timers, armed, due, io, ioLeft,
          pend, exit, posted, via, status>>

taskVars == <<queue, defer, timers, posted, via, status>>
sdVars == <<armed, due, io, ioLeft, pend>>

Routes == {"none", "queue", "defer", "timer"}
Phases == {"initial", "armed", "woken", "pending", "callback", "drain", "finished", "gone"}

(* Pending sources other than deferred ones: "wakeup", "io" and timers.    *)
Wake == MaxTasks + 1
Io == MaxTasks + 2

TypeOK ==
    /\ phase \in Phases
    /\ cur \in 0 .. MaxTasks /\ draining \in BOOLEAN
    /\ efd \in 0 .. EventFdMax
    /\ queue \in Seq(Tasks) /\ defer \in Seq(Tasks)
    /\ timers \subseteq Tasks /\ armed \subseteq Tasks /\ due \subseteq Tasks
    /\ io \in BOOLEAN /\ ioLeft \in 0 .. MaxIo
    /\ pend \subseteq Tasks \cup {Wake, Io}
    /\ exit \in BOOLEAN
    /\ posted \in 0 .. MaxTasks
    /\ via \in [Tasks -> Routes]
    /\ status \in [Tasks -> {"none", "waiting", "running", "ran", "refused", "freed"}]

Init ==
    /\ phase = "initial" /\ cur = 0 /\ draining = FALSE
    /\ efd = 0
    /\ queue = <<>> /\ defer = <<>>
    /\ timers = {} /\ armed = {} /\ due = {}
    /\ io = FALSE /\ ioLeft = MaxIo
    /\ pend = {} /\ exit = FALSE
    /\ posted = 0
    /\ via = [k \in Tasks |-> "none"] /\ status = [k \in Tasks |-> "none"]

-----------------------------------------------------------------------------
(* Posting.  The task posted is number posted + 1.                         *)

Posting(route, result) ==
    /\ posted < MaxTasks
    /\ posted' = posted + 1
    /\ via' = [via EXCEPT ![posted + 1] = route]
    /\ status' = [status EXCEPT ![posted + 1] = result]

(* Mutants: the task goes to the head of the queue; a task whose wake-up   *)
(* write fails stays in the queue.                                         *)
MutPostAtHead ==
    /\ phase # "gone"
    /\ efd + 1 <= EventFdMax
    /\ Posting("queue", "waiting")
    /\ queue' = <<posted + 1>> \o queue
    /\ efd' = efd + 1
    /\ UNCHANGED <<phase, cur, draining, defer, timers, sdVars, exit>>
MutPostNotUndone ==
    /\ phase # "gone"
    /\ Posting("queue", IF efd + 1 <= EventFdMax THEN "waiting" ELSE "refused")
    /\ queue' = Append(queue, posted + 1)
    /\ efd' = IF efd + 1 <= EventFdMax THEN efd + 1 ELSE efd
    /\ UNCHANGED <<phase, cur, draining, defer, timers, sdVars, exit>>

(* flutterpi_post_platform_task on another thread: append and write in one *)
(* section of platform_task_queue_mutex; a full eventfd undoes the append. *)
PostFromThread ==
    /\ phase # "gone"
    /\ \/ /\ efd + 1 <= EventFdMax
          /\ Posting("queue", "waiting")
          /\ queue' = Append(queue, posted + 1)
          /\ efd' = efd + 1
       \/ /\ efd + 1 > EventFdMax
          /\ Posting("queue", "refused")
          /\ UNCHANGED <<queue, efd>>
    /\ UNCHANGED <<phase, cur, draining, defer, timers, sdVars, exit>>

(* flutterpi_post_platform_task on the platform thread, from a callback.   *)
PostFromLoop ==
    /\ phase = "callback"
    /\ Posting("defer", "waiting")
    /\ defer' = Append(defer, posted + 1)
    /\ UNCHANGED <<phase, cur, draining, efd, queue, timers, sdVars, exit>>

(* The platform thread holds event_loop_mutex except around select.        *)
MutexFree == phase \in {"armed", "woken", "finished"}

(* Mutant: the loop is not woken.                                          *)
MutTimedNoWake ==
    /\ MutexFree
    /\ Posting("timer", "waiting")
    /\ timers' = timers \cup {posted + 1}
    /\ UNCHANGED <<phase, cur, draining, efd, queue, defer, sdVars, exit>>

(* flutterpi_post_platform_task_with_time on another thread.  The kernel's *)
(* timer does not know the new source, so the loop has to be woken.  If    *)
(* the write fails, the task is freed and its source stays.                *)
PostTimedFromThread ==
    /\ MutexFree
    /\ \/ /\ efd + TimedWake <= EventFdMax
          /\ Posting("timer", "waiting")
          /\ efd' = efd + TimedWake
       \/ /\ efd + TimedWake > EventFdMax
          /\ Posting("timer", "freed")
          /\ UNCHANGED efd
    /\ timers' = timers \cup {posted + 1}
    /\ UNCHANGED <<phase, cur, draining, queue, defer, sdVars, exit>>

PostTimedFromLoop ==
    /\ phase = "callback"
    /\ Posting("timer", "waiting")
    /\ timers' = timers \cup {posted + 1}
    /\ UNCHANGED <<phase, cur, draining, efd, queue, defer, sdVars, exit>>

(* flutterpi_schedule_exit, called from a platform message handler.        *)
ScheduleExit ==
    /\ phase = "callback"
    /\ exit' = TRUE
    /\ UNCHANGED <<phase, cur, draining, efd, taskVars, sdVars>>

-----------------------------------------------------------------------------
(* The environment: time passes, descriptors become readable.              *)

TimePasses(k) ==
    /\ k \in timers \ due
    /\ due' = due \cup {k}
    /\ UNCHANGED <<phase, cur, draining, efd, taskVars, armed, io, ioLeft, pend, exit>>

IoReady ==
    /\ ioLeft > 0 /\ ~io
    /\ io' = TRUE /\ ioLeft' = ioLeft - 1
    /\ UNCHANGED <<phase, cur, draining, efd, taskVars, armed, due, pend, exit>>

-----------------------------------------------------------------------------
(* sd-event, as flutterpi_run drives it.                                   *)

(* What epoll and the clocks report: wait marks these sources pending.     *)
Collected ==
    (timers \cap due) \cup (IF efd > 0 THEN {Wake} ELSE {}) \cup (IF io THEN {Io} ELSE {})

(* sd_event_prepare: arms the kernel's timer.  With something pending it   *)
(* polls the rest and goes straight to dispatching.                        *)
SdEventPrepare ==
    /\ phase = "initial"
    /\ armed' = timers
    /\ \/ /\ exit
          /\ phase' = "pending" /\ UNCHANGED pend
       \/ /\ ~exit /\ (pend # {} \/ defer # <<>>)
          /\ phase' = "pending" /\ pend' = pend \cup Collected
       \/ /\ ~exit /\ pend = {} /\ defer = <<>>
          /\ phase' = "armed" /\ UNCHANGED pend
    /\ UNCHANGED <<cur, draining, efd, taskVars, due, io, ioLeft, exit>>

(* select: returns for the eventfd, a descriptor or the kernel's timer.    *)
Select ==
    /\ phase = "armed"
    /\ efd > 0 \/ io \/ armed \cap timers \cap due # {}
    /\ phase' = "woken"
    /\ UNCHANGED <<cur, draining, efd, taskVars, sdVars, exit>>

SdEventWait ==
    /\ phase = "woken"
    /\ pend' = Collected
    /\ phase' = IF Collected = {} THEN "initial" ELSE "pending"
    /\ UNCHANGED <<cur, draining, efd, taskVars, armed, due, io, ioLeft, exit>>

(* Descriptors and timers have priority 0; the k-th deferred task has      *)
(* priority k - 1, so all but the first wait for everything else.          *)
DeferTurn ==
    /\ defer # <<>>
    /\ pend = {} \/ \A k \in 1 .. Head(defer) - 1 : via[k] # "defer"

Call(k, fromQueue) ==
    /\ phase' = "callback" /\ cur' = k /\ draining' = fromQueue
    /\ status' = [status EXCEPT ![k] = IF @ = "freed" THEN "freed" ELSE "running"]

(* sd_event_dispatch: one source.                                          *)
DispatchExit ==
    /\ phase = "pending" /\ exit
    /\ phase' = "finished"
    /\ UNCHANGED <<cur, draining, efd, taskVars, sdVars, exit>>

DispatchDeferred ==
    /\ phase = "pending" /\ ~exit
    /\ DeferTurn
    /\ defer' = Tail(defer)
    /\ Call(Head(defer), FALSE)
    /\ UNCHANGED <<efd, queue, timers, sdVars, exit, posted, via>>

DispatchTimer(k) ==
    /\ phase = "pending" /\ ~exit
    /\ k \in pend \cap timers
    /\ timers' = timers \ {k}
    /\ pend' = pend \ {k} /\ due' = due \ {k}
    /\ Call(k, FALSE)
    /\ UNCHANGED <<efd, queue, defer, armed, io, ioLeft, exit, posted, via>>

DispatchIo ==
    /\ phase = "pending" /\ ~exit
    /\ Io \in pend
    /\ pend' = pend \ {Io} /\ io' = FALSE
    /\ phase' = "callback" /\ cur' = 0 /\ draining' = FALSE
    /\ UNCHANGED <<efd, taskVars, armed, due, ioLeft, exit>>

(* on_wakeup_main_loop: read, then take tasks until the queue is empty.    *)
OnWakeupMainLoop ==
    /\ phase = "pending" /\ ~exit
    /\ Wake \in pend
    /\ pend' = pend \ {Wake}
    /\ efd' = 0
    /\ phase' = "drain"
    /\ UNCHANGED <<cur, draining, taskVars, armed, due, io, ioLeft, exit>>

TakeQueued ==
    /\ phase = "drain"
    /\ \/ /\ queue # <<>>
          /\ queue' = Tail(queue)
          /\ Call(Head(queue), TRUE)
       \/ /\ queue = <<>>
          /\ phase' = "initial"
          /\ UNCHANGED <<cur, draining, queue, status>>
    /\ UNCHANGED <<efd, defer, timers, sdVars, exit, posted, via>>

(* on_execute_platform_task and its kin: free the task and its source.     *)
TaskDone ==
    /\ phase = "callback"
    /\ phase' = IF draining THEN "drain" ELSE "initial"
    /\ cur' = 0 /\ draining' = FALSE
    /\ status' = [k \in Tasks |->
                     IF k = cur /\ status[k] = "running" THEN "ran" ELSE status[k]]
    /\ UNCHANGED <<efd, queue, defer, timers, sdVars, exit, posted, via>>

(* flutterpi_destroy: the tasks left in the queue are freed, the sources   *)
(* go with the loop.                                                       *)
Destroy ==
    /\ phase = "finished"
    /\ phase' = "gone"
    /\ queue' = <<>> /\ defer' = <<>> /\ timers' = {}
    /\ pend' = {}
    /\ status' = [k \in Tasks |-> IF status[k] = "waiting" THEN "freed" ELSE status[k]]
    /\ UNCHANGED <<cur, draining, efd, armed, due, io, ioLeft, exit, posted, via>>

Loop ==
    \/ SdEventPrepare \/ Select \/ SdEventWait
    \/ DispatchExit \/ DispatchDeferred \/ DispatchIo \/ OnWakeupMainLoop
    \/ \E k \in Tasks : DispatchTimer(k)
    \/ TakeQueued \/ TaskDone

Next ==
    \/ Loop
    \/ PostFromThread \/ PostFromLoop \/ PostTimedFromThread \/ PostTimedFromLoop
    \/ ScheduleExit
    \/ \E k \in Tasks : TimePasses(k)
    \/ IoReady
    \/ Destroy

Spec == Init /\ [][Next]_vars

(* The platform thread runs and time passes.                               *)
FairSpec ==
    /\ Spec
    /\ WF_vars(Loop)
    /\ \A k \in Tasks : WF_vars(TimePasses(k))

-----------------------------------------------------------------------------
(* Properties.                                                             *)

(* The loop never sleeps on work: while it is in select, a task in the     *)
(* queue, or a timer that the kernel was not told of, has left the eventfd *)
(* readable, and nothing deferred is left.                                 *)
NoLostWakeup ==
    phase = "armed" =>
        /\ queue # <<>> => efd > 0
        /\ ~(timers \subseteq armed) => efd > 0
        /\ defer = <<>> /\ ~exit

(* "Tasks are FIFO": of two tasks posted on the same way, the later one    *)
(* never starts before the earlier one.                                    *)
TasksInOrder ==
    \A j, k \in 1 .. posted :
        /\ j < k /\ via[j] = via[k] /\ via[j] \in {"queue", "defer"}
        /\ status[j] = "waiting"
        => status[k] \in {"waiting", "refused"}

(* A task that waits is in exactly one place, once, and nothing else is in *)
(* any: it cannot be lost, and it cannot run twice.                        *)
Places(k) ==
    Cardinality({i \in DOMAIN queue : queue[i] = k})
    + Cardinality({i \in DOMAIN defer : defer[i] = k})
    + Cardinality({k} \cap timers)
TasksOwnedOnce ==
    \A k \in Tasks :
        /\ status[k] = "waiting" => Places(k) = 1
        /\ status[k] \in {"none", "running", "ran", "refused"} => Places(k) = 0

(* The embedder API asks that a task given to post_task_callback be run    *)
(* "at the given target time": it is not freed while the application runs. *)
TimedTaskNotFreed ==
    phase # "gone" => \A k \in Tasks : via[k] = "timer" => status[k] # "freed"

(* Every accepted task runs, unless the application exits, and an exit is  *)
(* taken up, whatever is still pending.                                    *)
EveryTaskRuns ==
    /\ \A k \in Tasks : status[k] = "waiting" ~> (status[k] = "ran" \/ exit)
    /\ exit ~> phase \in {"finished", "gone"}

=============================================================================
