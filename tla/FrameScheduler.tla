--------------------------- MODULE FrameScheduler ---------------------------
(***************************************************************************)
(* src/frame_scheduler.c: the page-flip paced presentation pipeline, with  *)
(* the present/cancel callbacks window.c gives it (on_present_frame,       *)
(* on_scanout, on_cancel_frame) and the page-flip dispatch of              *)
(* modesetting.c that calls it back.                                       *)
(*                                                                         *)
(* Every section between frame_scheduler_lock and frame_scheduler_unlock   *)
(* is one step.  Callbacks run WITHOUT the lock, so each callback is a     *)
(* step of its own and any other thread may run in between: that is where  *)
(* this component can go wrong.  A thread keeps its position in pc and the *)
(* C locals that survive an unlock in cur, drop, reply and taken.          *)
(*                                                                         *)
(* Frames are numbered in the order frame_scheduler_present_frame takes    *)
(* the lock for them; 0 is "no frame", and 0 is "no baton" as in the code. *)
(***************************************************************************)
EXTENDS Naturals, FiniteSets

CONSTANTS
    Threads,        \* threads that call into the scheduler
    EventLoop,      \* the thread that polls the DRM fd (flutter-pi's main loop)
    Batons,         \* vsync batons the engine may hand out
    Listeners,      \* (cb, userdata) pairs passed to on_next_scanout
    MaxFrames,      \* bound on the number of frames submitted
    MaxListeners,   \* FRAME_SCHEDULER_MAX_SCANOUT_LISTENERS
    MaxRequests,    \* vsync requests the engine keeps outstanding (1 by contract)
    DoubleBuffered  \* present_mode = kDoubleBufferedVsync_PresentMode

ASSUME ThreadsAssumption == EventLoop \in Threads
ASSUME BatonsAssumption == Batons \subseteq Nat \ {0}
ASSUME BoundsAssumption ==
    MaxFrames \in Nat /\ MaxListeners \in Nat /\ MaxRequests \in Nat
ASSUME ModeAssumption == DoubleBuffered \in BOOLEAN
ASSUME ListenersAssumption == IsFiniteSet(Listeners)

VARIABLES
    waiting,    \* waiting_for_scanout
    queued,     \* queued_frame, or 0 when ~has_queued_frame
    baton,      \* pending_vsync_baton
    listeners,  \* scanout_listeners[0 .. n_scanout_listeners)
    life,       \* reference count, up to what can be told apart
    inflight,   \* frame the kernel has accepted and not flipped yet
    flipped,    \* frame whose page flip is recorded but not dispatched
    pc, cur, drop, reply, taken, acts,     \* per thread
    submitted, fate, asked, owed,          \* history: who is still owed what
    dropped     \* history: batons whose reply could not be handed over

scheduler == <<waiting, queued, baton, listeners, life>>
kernel == <<inflight, flipped>>
locals == <<cur, drop, reply, taken, acts>>
history == <<submitted, fate, asked, owed, dropped>>
vars == <<waiting, queued, baton, listeners, life, inflight, flipped,
          pc, cur, drop, reply, taken, acts, submitted, fate, asked, owed, dropped>>

Frames == 1 .. MaxFrames
FrameOrNone == 0 .. MaxFrames
BatonOrNone == Batons \cup {0}

PCs == {"idle", "cancel", "reply", "dispatch", "vsync", "present", "fire",
        "notify", "failed", "failcancel", "failfire", "failnotify", "failvsync"}

Fates == {"new", "live", "shown", "failed", "cancelled", "lost"}

TypeOK ==
    /\ waiting \in BOOLEAN
    /\ queued \in FrameOrNone
    /\ baton \in BatonOrNone
    /\ listeners \in SUBSET Listeners
    /\ life \in {"owned", "released", "destroyed"}
    /\ inflight \in FrameOrNone
    /\ flipped \in FrameOrNone
    /\ pc \in [Threads -> PCs]
    /\ cur \in [Threads -> FrameOrNone]
    /\ drop \in [Threads -> FrameOrNone]
    /\ reply \in [Threads -> BatonOrNone]
    /\ taken \in [Threads -> SUBSET Listeners]
    /\ acts \in [Threads -> Nat]
    /\ submitted \in FrameOrNone
    /\ fate \in [Frames -> Fates]
    /\ asked \in SUBSET Batons
    /\ owed \in SUBSET Listeners
    /\ dropped \in SUBSET Batons

-----------------------------------------------------------------------------
(* frame_scheduler_new *)
New ==
    /\ waiting = FALSE /\ queued = 0 /\ baton = 0
    /\ listeners = {} /\ life = "owned"

Init ==
    /\ New
    /\ inflight = 0
    /\ flipped = 0
    /\ pc = [t \in Threads |-> "idle"]
    /\ cur = [t \in Threads |-> 0]
    /\ drop = [t \in Threads |-> 0]
    /\ reply = [t \in Threads |-> 0]
    /\ taken = [t \in Threads |-> {}]
    /\ acts = [t \in Threads |-> 0]
    /\ submitted = 0
    /\ fate = [f \in Frames |-> "new"]
    /\ asked = {}
    /\ owed = {}
    /\ dropped = {}

(* A thread outside the scheduler whose caller still holds a reference.    *)
CanCall(t) == pc[t] = "idle" /\ life = "owned"

Goto(t, label) == pc' = [pc EXCEPT ![t] = label]

-----------------------------------------------------------------------------
(* frame_scheduler_on_fl_vsync_request, called by the engine: defer the    *)
(* reply to the next flip, or answer at once.  A baton that is displaced   *)
(* (only when the engine keeps several requests outstanding) is answered   *)
(* at once.                                                                *)
OnFlVsyncRequest(t, b) ==
    LET deferred == DoubleBuffered /\ waiting
    IN  /\ CanCall(t)
        /\ b \in Batons \ asked
        /\ Cardinality(asked) < MaxRequests
        /\ asked' = asked \cup {b}
        /\ baton' = IF deferred THEN b ELSE baton
        /\ reply' = [reply EXCEPT ![t] = IF deferred THEN baton ELSE b]
        /\ Goto(t, IF deferred /\ baton = 0 THEN "idle" ELSE "reply")
        /\ UNCHANGED <<waiting, queued, listeners, life, kernel,
                       cur, drop, taken, acts, submitted, fate, owed, dropped>>

(* Mutant: the displaced frame is overwritten and never cancelled.         *)
MutQueueForgets(t, f) ==
    /\ waiting
    /\ queued' = f
    /\ UNCHANGED <<pc, waiting, cur, drop>>

(* Mutant: the newer frame is the one that gives way.                      *)
MutQueueDropsNew(t, f) ==
    /\ waiting
    /\ queued' = IF queued = 0 THEN f ELSE queued
    /\ drop' = [drop EXCEPT ![t] = IF queued = 0 THEN 0 ELSE f]
    /\ Goto(t, IF queued = 0 THEN "idle" ELSE "cancel")
    /\ UNCHANGED <<waiting, cur>>

(* A commit is in flight: take the mailbox slot, displacing its frame.     *)
QueueFrame(t, f) ==
    /\ waiting
    /\ queued' = f
    /\ drop' = [drop EXCEPT ![t] = queued]
    /\ Goto(t, IF queued = 0 THEN "idle" ELSE "cancel")
    /\ UNCHANGED <<waiting, cur>>

(* Mutant: the flag is not tested, a second commit is started.             *)
MutStartUnchecked(t, f) ==
    /\ waiting' = TRUE
    /\ cur' = [cur EXCEPT ![t] = f]
    /\ Goto(t, "present")
    /\ UNCHANGED <<queued, drop>>

(* Nothing is in flight: own the pipeline.                                 *)
StartFrame(t, f) ==
    /\ ~waiting
    /\ waiting' = TRUE
    /\ cur' = [cur EXCEPT ![t] = f]
    /\ Goto(t, "present")
    /\ UNCHANGED <<queued, drop>>

(* frame_scheduler_present_frame up to its unlock.                         *)
PresentFrame(t) ==
    LET f == submitted + 1
    IN  /\ CanCall(t)
        /\ submitted < MaxFrames
        /\ submitted' = f
        /\ fate' = [fate EXCEPT ![f] = "live"]
        /\ QueueFrame(t, f) \/ StartFrame(t, f)
        /\ UNCHANGED <<baton, listeners, life, kernel, reply, taken, acts,
                       asked, owed, dropped>>

(* frame_scheduler_on_next_scanout, when there is room in the table; the   *)
(* call that finds it full returns false and changes nothing.              *)
OnNextScanout(t, l) ==
    /\ CanCall(t)
    /\ l \notin owed
    /\ Cardinality(listeners) < MaxListeners
    /\ listeners' = listeners \cup {l}
    /\ owed' = owed \cup {l}
    /\ UNCHANGED <<waiting, queued, baton, life, kernel, pc, locals,
                   submitted, fate, asked, dropped>>

(* frame_scheduler_cancel_scanout_listener, when it returns true; a call   *)
(* that returns false changes nothing.                                     *)
CancelScanoutListener(t, l) ==
    /\ CanCall(t)
    /\ l \in listeners
    /\ listeners' = listeners \ {l}
    /\ owed' = owed \ {l}
    /\ UNCHANGED <<waiting, queued, baton, life, kernel, pc, locals,
                   submitted, fate, asked, dropped>>

(* cancel_cb = on_cancel_frame, for the frame this thread displaced or     *)
(* found queued when its commit failed: frame_destroy.                     *)
CancelFrame(t) ==
    /\ pc[t] \in {"cancel", "failcancel"}
    /\ fate' = [fate EXCEPT ![drop[t]] = "cancelled"]
    /\ drop' = [drop EXCEPT ![t] = 0]
    /\ Goto(t, IF pc[t] = "cancel" THEN "idle" ELSE "failfire")
    /\ UNCHANGED <<scheduler, kernel, cur, reply, taken, acts,
                   submitted, asked, owed, dropped>>

(* present_cb = on_present_frame: kms_req_commit_nonblocking.  A commit    *)
(* the kernel accepts flips later, or at once where legacy modesetting     *)
(* needs drmModeSetCrtc; either way this thread goes on to                 *)
(* drmdev_dispatch_page_flips.  A commit it refuses destroys the frame and *)
(* reports the failure.  In the last case drmModeSetCrtc has worked but    *)
(* drmCrtcGetSequence then fails: its error stays in an inner variable     *)
(* (modesetting.c:3271-3279), so the commit skips the page flip and        *)
(* returns success.  Nothing refuses the frame and nothing flips it: the   *)
(* struct frame is lost, and waiting_for_scanout is never cleared.         *)
CommitFrame(t) ==
    /\ pc[t] = "present"
    /\ cur' = [cur EXCEPT ![t] = 0]
    /\ \/ /\ inflight' = cur[t]
          /\ Goto(t, "dispatch")
          /\ UNCHANGED <<flipped, fate>>
       \/ /\ flipped' = cur[t]
          /\ Goto(t, "dispatch")
          /\ UNCHANGED <<inflight, fate>>
       \/ /\ fate' = [fate EXCEPT ![cur[t]] = "failed"]
          /\ Goto(t, "failed")
          /\ UNCHANGED <<inflight, flipped>>
       \/ /\ fate' = [fate EXCEPT ![cur[t]] = "lost"]
          /\ Goto(t, IF acts[t] > 0 THEN "fire" ELSE "idle")
          /\ UNCHANGED <<inflight, flipped>>
    /\ UNCHANGED <<scheduler, drop, reply, taken, acts, submitted, asked, owed,
                   dropped>>

(* The kernel has completed the flip: the event loop finds the DRM fd      *)
(* readable, records the flip under the drmdev lock                        *)
(* (drmdev_on_page_flip_locked) and goes on to dispatch it.                *)
OnEventFdReady ==
    /\ pc[EventLoop] = "idle"
    /\ inflight # 0
    /\ flipped' = inflight
    /\ inflight' = 0
    /\ Goto(EventLoop, "dispatch")
    /\ UNCHANGED <<scheduler, locals, history>>

(* Mutant: a baton that is taken but stays pending.                        *)
MutTakeBatonNoReset(t) ==
    reply' = [reply EXCEPT ![t] = baton] /\ UNCHANGED baton

(* Take the deferred vsync request out under the lock, to answer it        *)
(* without.                                                                *)
TakeBaton(t) ==
    /\ reply' = [reply EXCEPT ![t] = baton]
    /\ baton' = 0

(* Mutant: the pipeline is declared idle with a frame to commit.           *)
MutTakeQueuedIdle(t) ==
    /\ waiting' = FALSE
    /\ cur' = [cur EXCEPT ![t] = queued]
    /\ queued' = 0

(* The flip hands the pipeline to the queued frame, or frees it.           *)
TakeQueued(t) ==
    /\ waiting' = (queued # 0)
    /\ cur' = [cur EXCEPT ![t] = queued]
    /\ queued' = 0

(* drmdev_dispatch_page_flips pops a recorded flip and calls on_scanout -> *)
(* frame_scheduler_on_scanout, up to its unlock.  acts counts the          *)
(* on_scanout activations on this thread's stack: a commit made by         *)
(* on_scanout dispatches flips itself, so they nest.                       *)
OnScanout(t) ==
    /\ pc[t] = "dispatch"
    /\ flipped # 0
    /\ flipped' = 0
    /\ fate' = [fate EXCEPT ![flipped] = "shown"]
    /\ acts' = [acts EXCEPT ![t] = @ + 1]
    /\ IF waiting
       THEN /\ TakeQueued(t)
            /\ TakeBaton(t)
            /\ Goto(t, IF baton # 0 THEN "vsync"
                       ELSE IF queued # 0 THEN "present" ELSE "fire")
       ELSE /\ Goto(t, "fire")
            /\ UNCHANGED <<waiting, cur, queued, reply, baton>>
    /\ UNCHANGED <<listeners, life, inflight, drop, taken,
                   submitted, asked, owed, dropped>>

(* drmdev_dispatch_page_flips finds no flip and returns, to the            *)
(* on_scanout activation whose commit called it or out of the scheduler.   *)
DispatchReturn(t) ==
    /\ pc[t] = "dispatch"
    /\ flipped = 0
    /\ Goto(t, IF acts[t] > 0 THEN "fire" ELSE "idle")
    /\ UNCHANGED <<scheduler, kernel, locals, history>>

(* on_scheduler_vsync_reply calls the engine on the platform thread; any   *)
(* other thread posts a task that will (PlatformTasks), and when it cannot *)
(* allocate or post it, logs the error and returns: the engine keeps       *)
(* waiting for this baton (flutter-pi.c:542-557).                          *)
AnswerBaton(t) ==
    \/ asked' = asked \ {reply[t]} /\ UNCHANGED dropped
    \/ t # EventLoop /\ dropped' = dropped \cup {reply[t]} /\ UNCHANGED asked

(* vsync_cb for the baton this thread took out under the lock.             *)
VsyncReply(t) ==
    /\ pc[t] \in {"reply", "vsync", "failvsync"}
    /\ AnswerBaton(t)
    /\ reply' = [reply EXCEPT ![t] = 0]
    /\ Goto(t, CASE pc[t] = "reply" -> "idle"
                 [] pc[t] = "vsync" -> IF cur[t] # 0 THEN "present" ELSE "fire"
                 [] pc[t] = "failvsync" -> IF acts[t] > 0 THEN "fire" ELSE "idle")
    /\ UNCHANGED <<scheduler, kernel, cur, drop, taken, acts,
                   submitted, fate, owed>>

(* frame_scheduler_on_present_failed up to its unlock: reset the pipeline. *)
OnPresentFailed(t) ==
    /\ pc[t] = "failed"
    /\ waiting' = FALSE
    /\ drop' = [drop EXCEPT ![t] = queued]
    /\ queued' = 0
    /\ TakeBaton(t)
    /\ Goto(t, IF queued # 0 THEN "failcancel" ELSE "failfire")
    /\ UNCHANGED <<listeners, life, kernel, cur, taken, acts, history>>

(* Mutant: the table is copied but not emptied.                            *)
MutFireKeepsTable(t) ==
    /\ pc[t] \in {"fire", "failfire"}
    /\ taken' = [taken EXCEPT ![t] = listeners]
    /\ Goto(t, IF pc[t] = "fire" THEN "notify" ELSE "failnotify")
    /\ UNCHANGED <<scheduler, kernel, cur, drop, reply, acts, history>>

(* Mutant: a failed commit does not call the listeners.                    *)
MutFireSkips(t) ==
    /\ pc[t] \in {"fire", "failfire"}
    /\ taken' = [taken EXCEPT ![t] = IF pc[t] = "fire" THEN listeners ELSE {}]
    /\ listeners' = IF pc[t] = "fire" THEN {} ELSE listeners
    /\ Goto(t, IF pc[t] = "fire" THEN "notify" ELSE "failnotify")
    /\ UNCHANGED <<waiting, queued, baton, life, kernel,
                   cur, drop, reply, acts, history>>

(* frame_scheduler_fire_scanout_listeners: take them out under the lock. *)
FireListeners(t) ==
    /\ pc[t] \in {"fire", "failfire"}
    /\ taken' = [taken EXCEPT ![t] = listeners]
    /\ listeners' = {}
    /\ Goto(t, IF pc[t] = "fire" THEN "notify" ELSE "failnotify")
    /\ UNCHANGED <<waiting, queued, baton, life, kernel,
                   cur, drop, reply, acts, history>>

(* ... and call them, one after the other, without it. *)
NotifyListener(t, l) ==
    /\ pc[t] \in {"notify", "failnotify"}
    /\ l \in taken[t]
    /\ taken' = [taken EXCEPT ![t] = @ \ {l}]
    /\ owed' = owed \ {l}
    /\ UNCHANGED <<scheduler, kernel, pc, cur, drop, reply, acts,
                   submitted, fate, asked, dropped>>

(* All are called: on_scanout returns to the dispatch loop,                *)
(* on_present_failed goes on to answer the baton it took.                  *)
NotifyDone(t) ==
    /\ pc[t] \in {"notify", "failnotify"}
    /\ taken[t] = {}
    /\ IF pc[t] = "notify"
       THEN /\ acts' = [acts EXCEPT ![t] = IF @ > 0 THEN @ - 1 ELSE 0]
            /\ Goto(t, "dispatch")
       ELSE /\ UNCHANGED acts
            /\ Goto(t, CASE reply[t] # 0 -> "failvsync"
                         [] reply[t] = 0 /\ acts[t] > 0 -> "fire"
                         [] OTHER -> "idle")
    /\ UNCHANGED <<scheduler, kernel, cur, drop, reply, taken, history>>

(* The owners (flutterpi, window) drop their references.                   *)
Release ==
    /\ life = "owned"
    /\ life' = "released"
    /\ UNCHANGED <<waiting, queued, baton, listeners, kernel, pc, locals,
                   history>>

(* Mutant: a frame does not keep the scheduler alive (no                   *)
(* frame_scheduler_ref in kms_window_push_composition_locked).             *)
MutDestroyEarly(t) ==
    /\ life = "released"
    /\ \A u \in Threads : pc[u] = "idle"
    /\ life' = "destroyed"
    /\ fate' = IF queued = 0 THEN fate
               ELSE [fate EXCEPT ![queued] = "cancelled"]
    /\ Goto(t, "fire")
    /\ UNCHANGED <<waiting, queued, baton, listeners, kernel, locals,
                   submitted, asked, owed, dropped>>

(* frame_scheduler_destroy, by the last unref.  A live frame and a running *)
(* callback hold a reference (frame->scheduler, on_present_frame), so this *)
(* waits for them; a lost frame keeps its reference for good.              *)
Destroy(t) ==
    /\ life = "released"
    /\ \A u \in Threads : pc[u] = "idle"
    /\ \A f \in Frames : fate[f] \notin {"live", "lost"}
    /\ life' = "destroyed"
    /\ fate' = IF queued = 0 THEN fate
               ELSE [fate EXCEPT ![queued] = "cancelled"]
    /\ Goto(t, "fire")
    /\ UNCHANGED <<waiting, queued, baton, listeners, kernel, locals,
                   submitted, asked, owed, dropped>>

-----------------------------------------------------------------------------
(* The steps of a thread that is inside the scheduler. *)
Step(t) ==
    \/ CancelFrame(t)
    \/ CommitFrame(t)
    \/ OnScanout(t)
    \/ DispatchReturn(t)
    \/ VsyncReply(t)
    \/ OnPresentFailed(t)
    \/ FireListeners(t)
    \/ \E l \in Listeners : NotifyListener(t, l)
    \/ NotifyDone(t)

(* The calls its clients make. *)
Call(t) ==
    \/ PresentFrame(t)
    \/ \E b \in Batons : OnFlVsyncRequest(t, b)
    \/ \E l \in Listeners : OnNextScanout(t, l) \/ CancelScanoutListener(t, l)

Next ==
    \/ \E t \in Threads : Step(t) \/ Call(t) \/ Destroy(t)
    \/ OnEventFdReady
    \/ Release

(* Threads run, the kernel completes every flip it was asked for and the   *)
(* event loop comes back to a readable fd after finitely many other        *)
(* events.  The last unref runs the destructor.                            *)
Fairness ==
    /\ \A t \in Threads : WF_vars(Step(t))
    /\ SF_vars(OnEventFdReady)
    /\ WF_vars(\E t \in Threads : Destroy(t))

Spec == Init /\ [][Next]_vars
FairSpec == Spec /\ Fairness

-----------------------------------------------------------------------------
(* The right to commit: held by the thread about to commit, or about to    *)
(* report that its commit failed.                                          *)
Committing(t) == cur[t] # 0 \/ pc[t] = "failed"

(* Some commit reported success and will never flip.                       *)
FlipLost == \E f \in Frames : fate[f] = "lost"

(* At most one commit is on its way (frame_scheduler.c:31-35): the right   *)
(* to commit, a commit in the kernel and a flip not yet dispatched exclude *)
(* one another, and waiting_for_scanout says whether there is any of them. *)
(* A thread about to commit therefore never meets EBUSY, and the flag is   *)
(* never left set with nobody to clear it, but for a lost flip, after      *)
(* which nothing is committed any more.                                    *)
SingleCommit ==
    /\ waiting <=> \/ inflight # 0 \/ flipped # 0 \/ FlipLost
                   \/ \E t \in Threads : Committing(t)
    /\ \A t, u \in Threads : Committing(t) /\ Committing(u) => t = u
    /\ inflight # 0 => flipped = 0
    /\ inflight # 0 \/ flipped # 0 \/ FlipLost => \A t \in Threads : ~Committing(t)
    /\ FlipLost => inflight = 0 /\ flipped = 0

(* frame_scheduler.c:33-35 says of "At most one atomic commit is in flight *)
(* (submitted to the kernel, page flip not yet observed)" that it is       *)
(* tracked by waiting_for_scanout: the flag is set only for a commit whose *)
(* flip or failure will clear it.                                          *)
TracksTheCommit ==
    waiting => inflight # 0 \/ flipped # 0 \/ \E t \in Threads : Committing(t)

(* A C local that survives an unlock is consumed before the thread leaves  *)
(* the function it belongs to: a frame to commit before the listeners are  *)
(* called, a displaced frame before anything else, a baton before          *)
(* returning.  A thread outside the scheduler holds nothing.               *)
LocalsConsumed ==
    \A t \in Threads :
        /\ cur[t] # 0 => pc[t] \in {"vsync", "present"}
        /\ pc[t] = "present" => cur[t] # 0
        /\ drop[t] # 0 <=> pc[t] \in {"cancel", "failcancel"}
        /\ reply[t] # 0 => pc[t] \in {"reply", "vsync", "failvsync",
                                      "failcancel", "failfire", "failnotify"}
        /\ pc[t] \in {"reply", "vsync", "failvsync"} => reply[t] # 0
        /\ taken[t] # {} => pc[t] \in {"notify", "failnotify"}
        /\ pc[t] \in {"idle", "cancel", "reply"} => acts[t] = 0

(* Nobody waits with the pipeline idle: a queued frame or a deferred vsync *)
(* request implies a commit on its way (SingleCommit), whose flip or       *)
(* failure serves them unless the flip is lost.                            *)
NothingStranded == queued # 0 \/ baton # 0 => waiting

(* The places that own a struct frame. *)
Owned(f) ==
    \/ f \in {queued, inflight, flipped}
    \/ \E t \in Threads : f \in {cur[t], drop[t]}

(* Every accepted frame has exactly one owner until it is scanned out,     *)
(* refused by the kernel or cancelled, and none afterwards: present_cb and *)
(* cancel_cb are never both called, never twice, and never forgotten, so   *)
(* on_scanout and on_cancel_frame destroy each struct frame exactly once.  *)
(* A frame whose flip is lost has no owner left, and is never destroyed.   *)
FrameOwnership ==
    /\ \A f \in Frames :
        /\ fate[f] = "live" <=> Owned(f)
        /\ fate[f] = "new" <=> f > submitted
    /\ queued # 0 => queued \notin {inflight, flipped}
    /\ inflight # 0 => inflight # flipped
    /\ \A t \in Threads :
        /\ cur[t] # 0 => cur[t] \notin {queued, inflight, flipped}
        /\ drop[t] # 0 => drop[t] \notin {queued, inflight, flipped}
        /\ \A u \in Threads :
            /\ cur[t] # 0 => cur[t] # drop[u] /\ (t # u => cur[t] # cur[u])
            /\ drop[t] # 0 /\ t # u => drop[t] # drop[u]

(* Mailbox semantics (frame_scheduler.c:37-39): what waits in the mailbox  *)
(* is the newest frame, and no frame reaches the kernel after a newer one. *)
MailboxOrder ==
    /\ queued # 0 => queued = submitted
    /\ \A f, g \in Frames :
        /\ fate[f] \in {"shown", "failed", "lost"} \/ f \in {inflight, flipped}
        /\ g = queued \/ \E t \in Threads : g = cur[t]
        => f < g

(* The newest frame is dropped only when a commit failed: when an          *)
(* application stops drawing, its last frame gets to the screen.           *)
SomeCommitFailed == \E f \in Frames : fate[f] = "failed"
LastFrameKept ==
    /\ submitted # 0 /\ fate[submitted] = "cancelled" => SomeCommitFailed
    /\ \A t \in Threads :
        \/ drop[t] # 0 /\ drop[t] = submitted
        \/ pc[t] = "failed"
        => SomeCommitFailed

(* Both: the mailbox shows the newest frame last and does not lose it.     *)
MailboxSemantics == MailboxOrder /\ LastFrameKept

(* Every vsync request not yet answered is held in exactly one place, so   *)
(* it is answered exactly once (FlutterEngineOnVsync must see each baton   *)
(* once) and a deferred one is not lost when flips and failures race.  The *)
(* only one held nowhere is one whose reply could not be posted.           *)
BatonAccounting ==
    /\ asked \ dropped = ({baton} \cup {reply[t] : t \in Threads}) \ {0}
    /\ dropped \subseteq asked
    /\ \A t \in Threads : reply[t] # 0 => reply[t] # baton
    /\ \A t, u \in Threads : reply[t] = reply[u] /\ reply[t] # 0 => t = u

(* Every accepted listener that was neither called nor cancelled is in     *)
(* exactly one place (the table, or the stack of the one thread that took  *)
(* it), so its callback reference is released exactly once                 *)
(* (frame_scheduler.h:93-97).                                              *)
ListenerAccounting ==
    /\ owed = listeners \cup UNION {taken[t] : t \in Threads}
    /\ \A t \in Threads : taken[t] \cap listeners = {}
    /\ \A t, u \in Threads : t # u => taken[t] \cap taken[u] = {}

(* What the scheduler owes its callers, batons and listeners alike, is     *)
(* owed from exactly one place and settled exactly once.                   *)
CallbackAccounting == BatonAccounting /\ ListenerAccounting

(* After frame_scheduler_destroy nothing can call back into the scheduler, *)
(* and it holds no vsync request.                                          *)
NoUseAfterDestroy ==
    life = "destroyed" =>
        /\ ~waiting /\ baton = 0 /\ asked \subseteq dropped
        /\ \A t \in Threads : pc[t] \in {"idle", "fire", "notify", "dispatch"}
        /\ \A f \in Frames : ~Owned(f)

(* Every vsync request is answered, also when commits fail: the engine     *)
(* never stalls (frame_scheduler.h:76-79), unless the answer cannot be     *)
(* posted to the platform thread, or a flip is lost and the request is     *)
(* deferred to it.                                                         *)
EveryBatonAnswered ==
    \A b \in Batons :
        b \in asked ~> \/ b \notin asked
                       \/ b \in dropped
                       \/ FlipLost /\ b = baton

(* Every accepted frame is scanned out, refused or cancelled, or waits     *)
(* behind one whose flip is lost.                                          *)
EveryFrameSettled ==
    \A f \in Frames : fate[f] = "live" ~> fate[f] # "live" \/ (FlipLost /\ f = queued)

(* A listener registered while a commit is on its way, and one left when   *)
(* the scheduler is released, is called (or cancelled by its owner), or    *)
(* stays in the table for a flip that is lost (the lost frame keeps the    *)
(* scheduler alive).                                                       *)
EveryListenerServed ==
    \A l \in Listeners :
        /\ l \in listeners /\ waiting ~> l \notin owed \/ (FlipLost /\ l \in listeners)
        /\ l \in owed /\ life = "released" ~> l \notin owed \/ (FlipLost /\ l \in listeners)

(* Every baton is answered, every frame settled, every listener served.    *)
EveryRequestServed == EveryBatonAnswered /\ EveryFrameSettled /\ EveryListenerServed

(* The scheduler implements FrameDisplay: the screen shows the newest      *)
(* frame scanned out so far.                                               *)
NewestIn(S) == IF S = {} THEN 0 ELSE CHOOSE f \in S : \A g \in S : g <= f
Display == INSTANCE FrameDisplay WITH
    latest <- submitted,
    screen <- NewestIn({f \in Frames : fate[f] = "shown"}),
    broken <- SomeCommitFailed \/ FlipLost

(* Frames get to the screen in order, and the newest one does get there    *)
(* unless a commit is refused or its flip is lost, whatever flips,         *)
(* displacements and concurrent submissions do to the mailbox.             *)
ImplementsDisplay == Display!FairSpec

=============================================================================
