------------------------ MODULE FrameSchedulerProofs ------------------------
(***************************************************************************)
(* Theorems about FrameScheduler for any number of threads, frames,        *)
(* batons and listeners.                                                   *)
(***************************************************************************)
EXTENDS FrameScheduler, TLAPS

-----------------------------------------------------------------------------
(* The arithmetic of frame numbers, so that Frames stays opaque elsewhere. *)
LEMMA FrameNumbers ==
    /\ 0 \in FrameOrNone /\ 0 \notin Frames
    /\ Frames \subseteq FrameOrNone /\ FrameOrNone \subseteq Nat
    /\ \A f \in FrameOrNone : f # 0 => f \in Frames
    /\ \A f \in FrameOrNone : f < MaxFrames => f + 1 \in Frames
BY BoundsAssumption DEF Frames, FrameOrNone

(* TypeOK and LocalsConsumed are inductive together: LocalsConsumed gives  *)
(* CancelFrame and CommitFrame a frame number to work on.                  *)
TypeInv == TypeOK /\ LocalsConsumed

(* Every step keeps the types. *)
LEMMA TypeStep == TypeInv /\ [Next]_vars => TypeOK'
<1> SUFFICES ASSUME TypeOK, LocalsConsumed, [Next]_vars PROVE TypeOK'
  BY DEF TypeInv
<1> USE FrameNumbers, ThreadsAssumption DEF TypeOK, PCs, Fates, Goto, BatonOrNone
<1>1. ASSUME NEW t \in Threads, NEW b \in Batons, OnFlVsyncRequest(t, b)
      PROVE  TypeOK'
  BY <1>1 DEF OnFlVsyncRequest, CanCall, kernel
<1>2. ASSUME NEW t \in Threads, PresentFrame(t) PROVE TypeOK'
  BY <1>2, ZenonT(60) DEF PresentFrame, QueueFrame, StartFrame, CanCall, kernel
<1>3. ASSUME NEW t \in Threads, NEW l \in Listeners,
             OnNextScanout(t, l) \/ CancelScanoutListener(t, l)
      PROVE  TypeOK'
  BY <1>3 DEF OnNextScanout, CancelScanoutListener, kernel, locals
<1>4. ASSUME NEW t \in Threads, CancelFrame(t) PROVE TypeOK'
  BY <1>4 DEF CancelFrame, scheduler, kernel
<1>5. ASSUME NEW t \in Threads, CommitFrame(t) PROVE TypeOK'
  BY <1>5 DEF CommitFrame, scheduler
<1>6. ASSUME NEW t \in Threads, OnScanout(t) PROVE TypeOK'
  <2>1. CASE waiting
    <3>1. pc' \in [Threads -> PCs]
      BY <1>6, <2>1 DEF OnScanout
    <3>2. QED BY <1>6, <2>1, <3>1 DEF OnScanout, TakeQueued, TakeBaton
  <2>2. CASE ~waiting
    BY <1>6, <2>2 DEF OnScanout
  <2> QED BY <2>1, <2>2
<1>7. ASSUME NEW t \in Threads, DispatchReturn(t) PROVE TypeOK'
  BY <1>7 DEF DispatchReturn, scheduler, kernel, locals, history
<1>8. ASSUME NEW t \in Threads, VsyncReply(t) PROVE TypeOK'
  <2>1. asked' \in SUBSET Batons /\ dropped' \in SUBSET Batons
    <3>1. reply[t] \in Batons
      BY <1>8 DEF VsyncReply, LocalsConsumed
    <3> QED BY <1>8, <3>1 DEF VsyncReply, AnswerBaton
  <2>2. pc' \in [Threads -> PCs] /\ reply' \in [Threads -> BatonOrNone]
    BY <1>8 DEF VsyncReply
  <2> QED BY <1>8, <2>1, <2>2 DEF VsyncReply, scheduler, kernel
<1>9. ASSUME NEW t \in Threads, OnPresentFailed(t) PROVE TypeOK'
  BY <1>9 DEF OnPresentFailed, TakeBaton, kernel, history
<1>10. ASSUME NEW t \in Threads, FireListeners(t) PROVE TypeOK'
  BY <1>10 DEF FireListeners, kernel, history
<1>11. ASSUME NEW t \in Threads, NEW l \in Listeners, NotifyListener(t, l)
       PROVE  TypeOK'
  BY <1>11 DEF NotifyListener, scheduler, kernel
<1>12. ASSUME NEW t \in Threads, NotifyDone(t) PROVE TypeOK'
  BY <1>12 DEF NotifyDone, scheduler, kernel, history
<1>13. ASSUME NEW t \in Threads, Destroy(t) PROVE TypeOK'
  BY <1>13 DEF Destroy, kernel, locals
<1>15. CASE OnEventFdReady
  BY <1>15 DEF OnEventFdReady, scheduler, locals, history
<1>16. CASE Release
  BY <1>16 DEF Release, kernel, locals, history
<1>17. CASE UNCHANGED vars
  BY <1>17 DEF vars
<1> QED
  BY <1>1, <1>2, <1>3, <1>4, <1>5, <1>6, <1>7, <1>8, <1>9, <1>10, <1>11,
     <1>12, <1>13, <1>15, <1>16, <1>17 DEF Next, Step, Call

(* Every step leaves each local to the code that consumes it. *)
LEMMA LocalsStep == TypeOK /\ LocalsConsumed /\ [Next]_vars => LocalsConsumed'
<1> SUFFICES ASSUME TypeOK, LocalsConsumed, [Next]_vars PROVE LocalsConsumed'
  OBVIOUS
<1> USE FrameNumbers, ThreadsAssumption DEF TypeOK, LocalsConsumed, Goto
<1>1. ASSUME NEW t \in Threads, NEW b \in Batons, OnFlVsyncRequest(t, b)
      PROVE  LocalsConsumed'
  BY <1>1, BatonsAssumption DEF OnFlVsyncRequest, CanCall, kernel
<1>2. ASSUME NEW t \in Threads, PresentFrame(t) PROVE LocalsConsumed'
  BY <1>2 DEF PresentFrame, QueueFrame, StartFrame, CanCall, kernel
<1>3. ASSUME NEW t \in Threads, NEW l \in Listeners, OnNextScanout(t, l)
      PROVE  LocalsConsumed'
  BY <1>3 DEF OnNextScanout, CanCall, kernel, locals
<1>4. ASSUME NEW t \in Threads, NEW l \in Listeners, CancelScanoutListener(t, l)
      PROVE  LocalsConsumed'
  BY <1>4 DEF CancelScanoutListener, CanCall, kernel, locals
<1>5. ASSUME NEW t \in Threads, CancelFrame(t) PROVE LocalsConsumed'
  BY <1>5 DEF CancelFrame, scheduler, kernel
<1>6. ASSUME NEW t \in Threads, CommitFrame(t) PROVE LocalsConsumed'
  BY <1>6 DEF CommitFrame, scheduler
<1>7. ASSUME NEW t \in Threads, OnScanout(t) PROVE LocalsConsumed'
  BY <1>7 DEF OnScanout, TakeQueued, TakeBaton
<1>8. ASSUME NEW t \in Threads, DispatchReturn(t) PROVE LocalsConsumed'
  BY <1>8 DEF DispatchReturn, scheduler, kernel, locals, history
<1>9. ASSUME NEW t \in Threads, VsyncReply(t) PROVE LocalsConsumed'
  BY <1>9 DEF VsyncReply, AnswerBaton, scheduler, kernel
<1>10. ASSUME NEW t \in Threads, OnPresentFailed(t) PROVE LocalsConsumed'
  BY <1>10 DEF OnPresentFailed, TakeBaton, kernel, history
<1>11. ASSUME NEW t \in Threads, FireListeners(t) PROVE LocalsConsumed'
  BY <1>11 DEF FireListeners, kernel, history
<1>12. ASSUME NEW t \in Threads, NEW l \in Listeners, NotifyListener(t, l)
      PROVE  LocalsConsumed'
  BY <1>12 DEF NotifyListener, scheduler, kernel
<1>13. ASSUME NEW t \in Threads, NotifyDone(t) PROVE LocalsConsumed'
  BY <1>13 DEF NotifyDone, scheduler, kernel, history
<1>14. ASSUME NEW t \in Threads, Destroy(t) PROVE LocalsConsumed'
  BY <1>14 DEF Destroy, kernel, locals
<1>16. CASE OnEventFdReady
  BY <1>16 DEF OnEventFdReady, SingleCommit, Committing, scheduler, locals, history
<1>17. CASE Release
  BY <1>17 DEF Release, kernel, locals, history
<1>18. CASE UNCHANGED vars
  BY <1>18 DEF vars
<1> QED
  BY <1>1, <1>2, <1>3, <1>4, <1>5, <1>6, <1>7, <1>8, <1>9, <1>10,
     <1>11, <1>12, <1>13, <1>14, <1>16, <1>17, <1>18 DEF Next, Step, Call

(* The right to commit passes from one holder to the next. *)
LEMMA CommitStep == TypeOK /\ LocalsConsumed /\ FrameOwnership /\ SingleCommit /\ [Next]_vars => SingleCommit'
<1> SUFFICES ASSUME TypeOK, LocalsConsumed, FrameOwnership, SingleCommit, [Next]_vars PROVE SingleCommit'
  OBVIOUS
<1> USE FrameNumbers, ThreadsAssumption DEF TypeOK, LocalsConsumed, SingleCommit, Committing, FlipLost, Goto
<1>1. ASSUME NEW t \in Threads, NEW b \in Batons, OnFlVsyncRequest(t, b)
      PROVE  SingleCommit'
  BY <1>1 DEF OnFlVsyncRequest, CanCall, kernel
<1>2. ASSUME NEW t \in Threads, PresentFrame(t) PROVE SingleCommit'
  <2>1. FlipLost' = FlipLost
    <3>1. submitted + 1 \in Frames /\ fate' = [fate EXCEPT ![submitted + 1] = "live"]
      BY <1>2 DEF PresentFrame
    <3>2. fate[submitted + 1] = "new"
      BY <3>1 DEF FrameOwnership
    <3> QED BY <3>1, <3>2
  <2> HIDE DEF FlipLost
  <2> QED BY <1>2, <2>1 DEF PresentFrame, QueueFrame, StartFrame, CanCall, kernel
<1>3. ASSUME NEW t \in Threads, NEW l \in Listeners, OnNextScanout(t, l)
      PROVE  SingleCommit'
  BY <1>3 DEF OnNextScanout, CanCall, kernel, locals
<1>4. ASSUME NEW t \in Threads, NEW l \in Listeners, CancelScanoutListener(t, l)
      PROVE  SingleCommit'
  BY <1>4 DEF CancelScanoutListener, CanCall, kernel, locals
<1>5. ASSUME NEW t \in Threads, CancelFrame(t) PROVE SingleCommit'
  <2>1. FlipLost' = FlipLost
    <3>1. drop[t] \in Frames /\ fate' = [fate EXCEPT ![drop[t]] = "cancelled"]
      BY <1>5 DEF CancelFrame
    <3>2. fate[drop[t]] = "live"
      BY <3>1 DEF FrameOwnership, Owned
    <3> QED BY <3>1, <3>2
  <2> HIDE DEF FlipLost
  <2> QED BY <1>5, <2>1 DEF CancelFrame, scheduler, kernel
<1>6. ASSUME NEW t \in Threads, CommitFrame(t) PROVE SingleCommit'
  <2>1. /\ cur[t] \in Frames /\ fate[cur[t]] = "live" /\ ~FlipLost
        /\ waiting /\ inflight = 0 /\ flipped = 0
        /\ \A u \in Threads : u # t => cur[u] = 0 /\ pc[u] # "failed"
    <3>1. cur[t] \in Frames /\ Committing(t)
      BY <1>6 DEF CommitFrame
    <3> QED BY <3>1 DEF FrameOwnership, Owned
  <2>2. /\ waiting' /\ cur' = [cur EXCEPT ![t] = 0]
        /\ \A u \in Threads : cur'[u] = 0
    BY <1>6, <2>1 DEF CommitFrame, scheduler
  <2>3. CASE /\ inflight' = cur[t] /\ Goto(t, "dispatch") /\ UNCHANGED <<flipped, fate>>
    BY <2>1, <2>2, <2>3
  <2>4. CASE /\ flipped' = cur[t] /\ Goto(t, "dispatch") /\ UNCHANGED <<inflight, fate>>
    BY <2>1, <2>2, <2>4
  <2>5. CASE /\ fate' = [fate EXCEPT ![cur[t]] = "failed"]
             /\ Goto(t, "failed") /\ UNCHANGED <<inflight, flipped>>
    BY <2>1, <2>2, <2>5
  <2>6. CASE /\ fate' = [fate EXCEPT ![cur[t]] = "lost"]
             /\ Goto(t, IF acts[t] > 0 THEN "fire" ELSE "idle")
             /\ UNCHANGED <<inflight, flipped>>
    BY <2>1, <2>2, <2>6
  <2> QED BY <1>6, <2>3, <2>4, <2>5, <2>6 DEF CommitFrame
<1>7. ASSUME NEW t \in Threads, OnScanout(t) PROVE SingleCommit'
  <2>1. waiting /\ inflight = 0 /\ \A u \in Threads : cur[u] = 0 /\ pc[u] # "failed"
    BY <1>7 DEF OnScanout
  <2>5. ~FlipLost'
    <3>1. flipped \in Frames /\ fate' = [fate EXCEPT ![flipped] = "shown"] /\ ~FlipLost
      BY <1>7 DEF OnScanout
    <3> QED BY <3>1
  <2>2. /\ waiting' = (queued # 0) /\ cur' = [cur EXCEPT ![t] = queued]
        /\ inflight' = 0 /\ flipped' = 0
    BY <1>7, <2>1 DEF OnScanout, TakeQueued
  <2>3. \A u \in Threads : pc'[u] # "failed"
    BY <1>7, <2>1 DEF OnScanout
  <2>4. \A u \in Threads : cur'[u] # 0 <=> u = t /\ queued # 0
    BY <2>1, <2>2
  <2> QED
    BY <2>2, <2>3, <2>4, <2>5
<1>8. ASSUME NEW t \in Threads, DispatchReturn(t) PROVE SingleCommit'
  BY <1>8 DEF DispatchReturn, scheduler, kernel, locals, history
<1>9. ASSUME NEW t \in Threads, VsyncReply(t) PROVE SingleCommit'
  BY <1>9 DEF VsyncReply, AnswerBaton, scheduler, kernel
<1>10. ASSUME NEW t \in Threads, OnPresentFailed(t) PROVE SingleCommit'
  BY <1>10 DEF OnPresentFailed, TakeBaton, kernel, history
<1>11. ASSUME NEW t \in Threads, FireListeners(t) PROVE SingleCommit'
  BY <1>11 DEF FireListeners, kernel, history
<1>12. ASSUME NEW t \in Threads, NEW l \in Listeners, NotifyListener(t, l)
      PROVE  SingleCommit'
  BY <1>12 DEF NotifyListener, scheduler, kernel
<1>13. ASSUME NEW t \in Threads, NotifyDone(t) PROVE SingleCommit'
  BY <1>13 DEF NotifyDone, scheduler, kernel, history
<1>14. ASSUME NEW t \in Threads, Destroy(t) PROVE SingleCommit'
  <2>1. fate' = fate
    BY <1>14 DEF Destroy, FrameOwnership, Owned
  <2> QED BY <1>14, <2>1 DEF Destroy, kernel, locals
<1>16. CASE OnEventFdReady
  BY <1>16 DEF OnEventFdReady, SingleCommit, Committing, scheduler, locals, history
<1>17. CASE Release
  BY <1>17 DEF Release, kernel, locals, history
<1>18. CASE UNCHANGED vars
  BY <1>18 DEF vars
<1> QED
  BY <1>1, <1>2, <1>3, <1>4, <1>5, <1>6, <1>7, <1>8, <1>9, <1>10,
     <1>11, <1>12, <1>13, <1>14, <1>16, <1>17, <1>18 DEF Next, Step, Call

(* Whoever clears waiting_for_scanout takes what was waiting for it. *)
LEMMA StrandedStep == TypeOK /\ SingleCommit /\ NothingStranded /\ [Next]_vars => NothingStranded'
<1> SUFFICES ASSUME TypeOK, SingleCommit, NothingStranded, [Next]_vars PROVE NothingStranded'
  OBVIOUS
<1> USE FrameNumbers, ThreadsAssumption DEF TypeOK, SingleCommit, NothingStranded
<1>1. ASSUME NEW t \in Threads, NEW b \in Batons, OnFlVsyncRequest(t, b)
      PROVE  NothingStranded'
  BY <1>1 DEF OnFlVsyncRequest, CanCall, kernel
<1>2. ASSUME NEW t \in Threads, PresentFrame(t) PROVE NothingStranded'
  BY <1>2 DEF PresentFrame, QueueFrame, StartFrame, CanCall, kernel
<1>3. ASSUME NEW t \in Threads, NEW l \in Listeners, OnNextScanout(t, l)
      PROVE  NothingStranded'
  BY <1>3 DEF OnNextScanout, CanCall, kernel, locals
<1>4. ASSUME NEW t \in Threads, NEW l \in Listeners, CancelScanoutListener(t, l)
      PROVE  NothingStranded'
  BY <1>4 DEF CancelScanoutListener, CanCall, kernel, locals
<1>5. ASSUME NEW t \in Threads, CancelFrame(t) PROVE NothingStranded'
  BY <1>5 DEF CancelFrame, scheduler, kernel
<1>6. ASSUME NEW t \in Threads, CommitFrame(t) PROVE NothingStranded'
  BY <1>6 DEF CommitFrame, scheduler
<1>7. ASSUME NEW t \in Threads, OnScanout(t) PROVE NothingStranded'
  BY <1>7 DEF OnScanout, TakeQueued, TakeBaton
<1>8. ASSUME NEW t \in Threads, DispatchReturn(t) PROVE NothingStranded'
  BY <1>8 DEF DispatchReturn, scheduler, kernel, locals, history
<1>9. ASSUME NEW t \in Threads, VsyncReply(t) PROVE NothingStranded'
  BY <1>9 DEF VsyncReply, AnswerBaton, scheduler, kernel
<1>10. ASSUME NEW t \in Threads, OnPresentFailed(t) PROVE NothingStranded'
  BY <1>10 DEF OnPresentFailed, TakeBaton, kernel, history
<1>11. ASSUME NEW t \in Threads, FireListeners(t) PROVE NothingStranded'
  BY <1>11 DEF FireListeners, kernel, history
<1>12. ASSUME NEW t \in Threads, NEW l \in Listeners, NotifyListener(t, l)
      PROVE  NothingStranded'
  BY <1>12 DEF NotifyListener, scheduler, kernel
<1>13. ASSUME NEW t \in Threads, NotifyDone(t) PROVE NothingStranded'
  BY <1>13 DEF NotifyDone, scheduler, kernel, history
<1>14. ASSUME NEW t \in Threads, Destroy(t) PROVE NothingStranded'
  BY <1>14 DEF Destroy, kernel, locals
<1>16. CASE OnEventFdReady
  BY <1>16 DEF OnEventFdReady, SingleCommit, Committing, scheduler, locals, history
<1>17. CASE Release
  BY <1>17 DEF Release, kernel, locals, history
<1>18. CASE UNCHANGED vars
  BY <1>18 DEF vars
<1> QED
  BY <1>1, <1>2, <1>3, <1>4, <1>5, <1>6, <1>7, <1>8, <1>9, <1>10,
     <1>11, <1>12, <1>13, <1>14, <1>16, <1>17, <1>18 DEF Next, Step, Call

(* A baton moves from the engine to the scheduler to one thread, and back. *)
LEMMA BatonStep == TypeOK /\ LocalsConsumed /\ SingleCommit /\ NothingStranded /\ BatonAccounting /\ [Next]_vars => BatonAccounting'
<1> SUFFICES ASSUME TypeOK, LocalsConsumed, SingleCommit, NothingStranded, BatonAccounting, [Next]_vars PROVE BatonAccounting'
  OBVIOUS
<1> USE ThreadsAssumption, BatonsAssumption DEF TypeOK, LocalsConsumed, BatonAccounting, Goto, BatonOrNone
<1>1. ASSUME NEW t \in Threads, NEW b \in Batons, OnFlVsyncRequest(t, b)
      PROVE  BatonAccounting'
  BY <1>1 DEF OnFlVsyncRequest, CanCall, kernel
<1>2. ASSUME NEW t \in Threads, PresentFrame(t) PROVE BatonAccounting'
  BY <1>2 DEF PresentFrame, QueueFrame, StartFrame, CanCall, kernel
<1>3. ASSUME NEW t \in Threads, NEW l \in Listeners, OnNextScanout(t, l)
      PROVE  BatonAccounting'
  BY <1>3 DEF OnNextScanout, CanCall, kernel, locals
<1>4. ASSUME NEW t \in Threads, NEW l \in Listeners, CancelScanoutListener(t, l)
      PROVE  BatonAccounting'
  BY <1>4 DEF CancelScanoutListener, CanCall, kernel, locals
<1>5. ASSUME NEW t \in Threads, CancelFrame(t) PROVE BatonAccounting'
  BY <1>5 DEF CancelFrame, scheduler, kernel
<1>6. ASSUME NEW t \in Threads, CommitFrame(t) PROVE BatonAccounting'
  BY <1>6 DEF CommitFrame, scheduler
<1>7. ASSUME NEW t \in Threads, OnScanout(t) PROVE BatonAccounting'
  BY <1>7 DEF OnScanout, TakeQueued, TakeBaton
<1>8. ASSUME NEW t \in Threads, DispatchReturn(t) PROVE BatonAccounting'
  BY <1>8 DEF DispatchReturn, scheduler, kernel, locals, history
<1>9. ASSUME NEW t \in Threads, VsyncReply(t) PROVE BatonAccounting'
  <2> DEFINE b == reply[t]
  <2>1. /\ baton' = baton /\ reply' = [reply EXCEPT ![t] = 0]
        /\ asked' \ dropped' = (asked \ dropped) \ {b}
        /\ dropped' \subseteq asked'
    <3>1. b # 0 => b \in asked /\ b \notin dropped
      OBVIOUS
    <3>2. b # 0
      BY <1>9 DEF VsyncReply
    <3> QED BY <1>9, <3>1, <3>2 DEF VsyncReply, AnswerBaton, scheduler
  <2>2. (asked \ dropped) \ {b}
            = ({baton'} \cup {reply'[u] : u \in Threads}) \ {0}
    BY <2>1
  <2>3. /\ \A u \in Threads : reply'[u] # 0 => reply'[u] # baton'
        /\ \A u, v \in Threads : reply'[u] = reply'[v] /\ reply'[u] # 0 => u = v
    BY <2>1
  <2> QED BY <2>1, <2>2, <2>3
<1>10. ASSUME NEW t \in Threads, OnPresentFailed(t) PROVE BatonAccounting'
  BY <1>10 DEF OnPresentFailed, TakeBaton, kernel, history
<1>11. ASSUME NEW t \in Threads, FireListeners(t) PROVE BatonAccounting'
  BY <1>11 DEF FireListeners, kernel, history
<1>12. ASSUME NEW t \in Threads, NEW l \in Listeners, NotifyListener(t, l)
      PROVE  BatonAccounting'
  BY <1>12 DEF NotifyListener, scheduler, kernel
<1>13. ASSUME NEW t \in Threads, NotifyDone(t) PROVE BatonAccounting'
  BY <1>13 DEF NotifyDone, scheduler, kernel, history
<1>14. ASSUME NEW t \in Threads, Destroy(t) PROVE BatonAccounting'
  BY <1>14 DEF Destroy, kernel, locals
<1>16. CASE OnEventFdReady
  BY <1>16 DEF OnEventFdReady, SingleCommit, Committing, scheduler, locals, history
<1>17. CASE Release
  BY <1>17 DEF Release, kernel, locals, history
<1>18. CASE UNCHANGED vars
  BY <1>18 DEF vars
<1> QED
  BY <1>1, <1>2, <1>3, <1>4, <1>5, <1>6, <1>7, <1>8, <1>9, <1>10,
     <1>11, <1>12, <1>13, <1>14, <1>16, <1>17, <1>18 DEF Next, Step, Call

(* A listener moves from the table to one thread, and is called there. *)
LEMMA ListenerStep == TypeOK /\ LocalsConsumed /\ ListenerAccounting /\ [Next]_vars => ListenerAccounting'
<1> SUFFICES ASSUME TypeOK, LocalsConsumed, ListenerAccounting, [Next]_vars PROVE ListenerAccounting'
  OBVIOUS
<1> USE ThreadsAssumption DEF TypeOK, LocalsConsumed, ListenerAccounting, Goto
<1>1. ASSUME NEW t \in Threads, NEW b \in Batons, OnFlVsyncRequest(t, b)
      PROVE  ListenerAccounting'
  BY <1>1 DEF OnFlVsyncRequest, CanCall, kernel
<1>2. ASSUME NEW t \in Threads, PresentFrame(t) PROVE ListenerAccounting'
  BY <1>2 DEF PresentFrame, QueueFrame, StartFrame, CanCall, kernel
<1>3. ASSUME NEW t \in Threads, NEW l \in Listeners, OnNextScanout(t, l)
      PROVE  ListenerAccounting'
  BY <1>3 DEF OnNextScanout, CanCall, kernel, locals
<1>4. ASSUME NEW t \in Threads, NEW l \in Listeners, CancelScanoutListener(t, l)
      PROVE  ListenerAccounting'
  BY <1>4 DEF CancelScanoutListener, CanCall, kernel, locals
<1>5. ASSUME NEW t \in Threads, CancelFrame(t) PROVE ListenerAccounting'
  BY <1>5 DEF CancelFrame, scheduler, kernel
<1>6. ASSUME NEW t \in Threads, CommitFrame(t) PROVE ListenerAccounting'
  BY <1>6 DEF CommitFrame, scheduler
<1>7. ASSUME NEW t \in Threads, OnScanout(t) PROVE ListenerAccounting'
  BY <1>7 DEF OnScanout, TakeQueued, TakeBaton
<1>8. ASSUME NEW t \in Threads, DispatchReturn(t) PROVE ListenerAccounting'
  BY <1>8 DEF DispatchReturn, scheduler, kernel, locals, history
<1>9. ASSUME NEW t \in Threads, VsyncReply(t) PROVE ListenerAccounting'
  BY <1>9 DEF VsyncReply, AnswerBaton, scheduler, kernel
<1>10. ASSUME NEW t \in Threads, OnPresentFailed(t) PROVE ListenerAccounting'
  BY <1>10 DEF OnPresentFailed, TakeBaton, kernel, history
<1>11. ASSUME NEW t \in Threads, FireListeners(t) PROVE ListenerAccounting'
  BY <1>11 DEF FireListeners, kernel, history
<1>12. ASSUME NEW t \in Threads, NEW l \in Listeners, NotifyListener(t, l)
      PROVE  ListenerAccounting'
  BY <1>12 DEF NotifyListener, scheduler, kernel
<1>13. ASSUME NEW t \in Threads, NotifyDone(t) PROVE ListenerAccounting'
  BY <1>13 DEF NotifyDone, scheduler, kernel, history
<1>14. ASSUME NEW t \in Threads, Destroy(t) PROVE ListenerAccounting'
  BY <1>14 DEF Destroy, kernel, locals
<1>16. CASE OnEventFdReady
  BY <1>16 DEF OnEventFdReady, SingleCommit, Committing, scheduler, locals, history
<1>17. CASE Release
  BY <1>17 DEF Release, kernel, locals, history
<1>18. CASE UNCHANGED vars
  BY <1>18 DEF vars
<1> QED
  BY <1>1, <1>2, <1>3, <1>4, <1>5, <1>6, <1>7, <1>8, <1>9, <1>10,
     <1>11, <1>12, <1>13, <1>14, <1>16, <1>17, <1>18 DEF Next, Step, Call

(* A frame moves from one owner to the next, and is destroyed by the last. *)
LEMMA OwnershipStep == TypeOK /\ LocalsConsumed /\ SingleCommit /\ NothingStranded /\ FrameOwnership /\ [Next]_vars => FrameOwnership'
<1> SUFFICES ASSUME TypeOK, LocalsConsumed, SingleCommit, NothingStranded, FrameOwnership, [Next]_vars PROVE FrameOwnership'
  OBVIOUS
<1> USE FrameNumbers, ThreadsAssumption DEF TypeOK, LocalsConsumed, FrameOwnership, Owned, Goto
<1>1. ASSUME NEW t \in Threads, NEW b \in Batons, OnFlVsyncRequest(t, b)
      PROVE  FrameOwnership'
  BY <1>1 DEF OnFlVsyncRequest, CanCall, kernel
<1>2. ASSUME NEW t \in Threads, PresentFrame(t) PROVE FrameOwnership'
  <2> DEFINE f == submitted + 1
  <2>1. /\ f \in Frames /\ submitted' = f
        /\ fate' = [fate EXCEPT ![f] = "live"]
        /\ UNCHANGED <<inflight, flipped>>
        /\ cur[t] = 0 /\ drop[t] = 0
    BY <1>2 DEF PresentFrame, CanCall, kernel
  <2>2. ~Owned(f)
    BY <2>1
  <2>3. \A g \in Frames : fate'[g] = "new" <=> g > submitted'
    BY <2>1
  <2> HIDE DEF f
  <2>4. CASE QueueFrame(t, f)
    BY <2>1, <2>2, <2>3, <2>4 DEF QueueFrame
  <2>5. CASE StartFrame(t, f)
    BY <2>1, <2>2, <2>3, <2>5 DEF StartFrame
  <2> QED BY <1>2, <2>4, <2>5 DEF PresentFrame, f
<1>3. ASSUME NEW t \in Threads, NEW l \in Listeners, OnNextScanout(t, l)
      PROVE  FrameOwnership'
  BY <1>3 DEF OnNextScanout, CanCall, kernel, locals
<1>4. ASSUME NEW t \in Threads, NEW l \in Listeners, CancelScanoutListener(t, l)
      PROVE  FrameOwnership'
  BY <1>4 DEF CancelScanoutListener, CanCall, kernel, locals
<1>5. ASSUME NEW t \in Threads, CancelFrame(t) PROVE FrameOwnership'
  BY <1>5 DEF CancelFrame, scheduler, kernel
<1>6. ASSUME NEW t \in Threads, CommitFrame(t) PROVE FrameOwnership'
  <2>1. inflight = 0 /\ flipped = 0 /\ cur[t] \in Frames
    BY <1>6 DEF CommitFrame, SingleCommit, Committing
  <2>2. \A u \in Threads : u # t => cur[u] = 0
    BY <1>6, <2>1 DEF SingleCommit, Committing
  <2>3. CASE inflight' = cur[t] /\ UNCHANGED <<flipped, fate>>
    BY <1>6, <2>1, <2>2, <2>3 DEF CommitFrame, scheduler
  <2>4. CASE flipped' = cur[t] /\ UNCHANGED <<inflight, fate>>
    BY <1>6, <2>1, <2>2, <2>4 DEF CommitFrame, scheduler
  <2>5. ASSUME NEW end \in {"failed", "lost"}, fate' = [fate EXCEPT ![cur[t]] = end],
               UNCHANGED <<inflight, flipped>>
        PROVE  FrameOwnership'
    BY <1>6, <2>1, <2>2, <2>5 DEF CommitFrame, scheduler
  <2> QED BY <1>6, <2>3, <2>4, <2>5 DEF CommitFrame
<1>7. ASSUME NEW t \in Threads, OnScanout(t) PROVE FrameOwnership'
  BY <1>7 DEF OnScanout, TakeQueued, TakeBaton
<1>8. ASSUME NEW t \in Threads, DispatchReturn(t) PROVE FrameOwnership'
  BY <1>8 DEF DispatchReturn, scheduler, kernel, locals, history
<1>9. ASSUME NEW t \in Threads, VsyncReply(t) PROVE FrameOwnership'
  BY <1>9 DEF VsyncReply, AnswerBaton, scheduler, kernel
<1>10. ASSUME NEW t \in Threads, OnPresentFailed(t) PROVE FrameOwnership'
  BY <1>10 DEF OnPresentFailed, TakeBaton, kernel, history
<1>11. ASSUME NEW t \in Threads, FireListeners(t) PROVE FrameOwnership'
  BY <1>11 DEF FireListeners, kernel, history
<1>12. ASSUME NEW t \in Threads, NEW l \in Listeners, NotifyListener(t, l)
      PROVE  FrameOwnership'
  BY <1>12 DEF NotifyListener, scheduler, kernel
<1>13. ASSUME NEW t \in Threads, NotifyDone(t) PROVE FrameOwnership'
  BY <1>13 DEF NotifyDone, scheduler, kernel, history
<1>14. ASSUME NEW t \in Threads, Destroy(t) PROVE FrameOwnership'
  BY <1>14 DEF Destroy, kernel, locals
<1>16. CASE OnEventFdReady
  BY <1>16 DEF OnEventFdReady, SingleCommit, Committing, scheduler, locals, history
<1>17. CASE Release
  BY <1>17 DEF Release, kernel, locals, history
<1>18. CASE UNCHANGED vars
  BY <1>18 DEF vars
<1> QED
  BY <1>1, <1>2, <1>3, <1>4, <1>5, <1>6, <1>7, <1>8, <1>9, <1>10,
     <1>11, <1>12, <1>13, <1>14, <1>16, <1>17, <1>18 DEF Next, Step, Call

(* A frame enters the pipeline only when it is newer than all that left it. *)
LEMMA OrderStep == TypeOK /\ LocalsConsumed /\ SingleCommit /\ NothingStranded /\ FrameOwnership /\ MailboxOrder /\ [Next]_vars => MailboxOrder'
<1> SUFFICES ASSUME TypeOK, LocalsConsumed, SingleCommit, NothingStranded, FrameOwnership, MailboxOrder, [Next]_vars PROVE MailboxOrder'
  OBVIOUS
<1> USE FrameNumbers, ThreadsAssumption DEF TypeOK, LocalsConsumed, MailboxOrder, Goto
<1>1. ASSUME NEW t \in Threads, NEW b \in Batons, OnFlVsyncRequest(t, b)
      PROVE  MailboxOrder'
  BY <1>1 DEF OnFlVsyncRequest, CanCall, kernel
<1>2. ASSUME NEW t \in Threads, PresentFrame(t) PROVE MailboxOrder'
  <2> DEFINE f == submitted + 1
  <2>1. /\ f \in Frames /\ submitted' = f
        /\ fate' = [fate EXCEPT ![f] = "live"]
        /\ UNCHANGED <<inflight, flipped>>
    BY <1>2 DEF PresentFrame, CanCall, kernel
  <2>2. /\ \A g \in Frames : fate[g] \in {"shown", "failed", "lost", "live"} => g < f
        /\ \A g \in Frames : g \in {inflight, flipped} => g < f
    BY <2>1 DEF FrameOwnership, Owned
  <2> HIDE DEF f
  <2>3. CASE QueueFrame(t, f)
    BY <2>1, <2>2, <2>3 DEF QueueFrame
  <2>4. CASE StartFrame(t, f)
    BY <2>1, <2>2, <2>4 DEF StartFrame, NothingStranded
  <2> QED BY <1>2, <2>3, <2>4 DEF PresentFrame, f
<1>3. ASSUME NEW t \in Threads, NEW l \in Listeners, OnNextScanout(t, l)
      PROVE  MailboxOrder'
  BY <1>3 DEF OnNextScanout, CanCall, kernel, locals
<1>4. ASSUME NEW t \in Threads, NEW l \in Listeners, CancelScanoutListener(t, l)
      PROVE  MailboxOrder'
  BY <1>4 DEF CancelScanoutListener, CanCall, kernel, locals
<1>5. ASSUME NEW t \in Threads, CancelFrame(t) PROVE MailboxOrder'
  BY <1>5 DEF CancelFrame, scheduler, kernel
<1>6. ASSUME NEW t \in Threads, CommitFrame(t) PROVE MailboxOrder'
  <2>1. inflight = 0 /\ flipped = 0 /\ cur[t] \in Frames
    BY <1>6 DEF CommitFrame, SingleCommit, Committing
  <2>2. \A u \in Threads : cur'[u] = 0
    BY <1>6, <2>1 DEF CommitFrame, SingleCommit, Committing
  <2>3. queued # 0 => cur[t] < queued
    <3>1. fate[cur[t]] = "live" /\ (queued # 0 => cur[t] # queued)
      BY <2>1 DEF FrameOwnership, Owned
    <3>2. ~(cur[t] > submitted)
      BY <2>1, <3>1 DEF FrameOwnership
    <3>3. cur[t] \in Nat /\ submitted \in Nat
      BY <2>1
    <3> QED BY <3>1, <3>2, <3>3
  <2>4. /\ \A g \in Frames :
            fate'[g] \in {"shown", "failed", "lost"}
                => g = cur[t] \/ fate[g] \in {"shown", "failed", "lost"}
        /\ inflight' \in {0, cur[t]} /\ flipped' \in {0, cur[t]}
        /\ UNCHANGED <<queued, submitted>>
    BY <1>6, <2>1 DEF CommitFrame, scheduler
  <2> QED BY <2>1, <2>2, <2>3, <2>4
<1>7. ASSUME NEW t \in Threads, OnScanout(t) PROVE MailboxOrder'
  BY <1>7 DEF OnScanout, TakeQueued, TakeBaton
<1>8. ASSUME NEW t \in Threads, DispatchReturn(t) PROVE MailboxOrder'
  BY <1>8 DEF DispatchReturn, scheduler, kernel, locals, history
<1>9. ASSUME NEW t \in Threads, VsyncReply(t) PROVE MailboxOrder'
  BY <1>9 DEF VsyncReply, AnswerBaton, scheduler, kernel
<1>10. ASSUME NEW t \in Threads, OnPresentFailed(t) PROVE MailboxOrder'
  BY <1>10 DEF OnPresentFailed, TakeBaton, kernel, history
<1>11. ASSUME NEW t \in Threads, FireListeners(t) PROVE MailboxOrder'
  BY <1>11 DEF FireListeners, kernel, history
<1>12. ASSUME NEW t \in Threads, NEW l \in Listeners, NotifyListener(t, l)
      PROVE  MailboxOrder'
  BY <1>12 DEF NotifyListener, scheduler, kernel
<1>13. ASSUME NEW t \in Threads, NotifyDone(t) PROVE MailboxOrder'
  BY <1>13 DEF NotifyDone, scheduler, kernel, history
<1>14. ASSUME NEW t \in Threads, Destroy(t) PROVE MailboxOrder'
  BY <1>14 DEF Destroy, kernel, locals
<1>16. CASE OnEventFdReady
  BY <1>16 DEF OnEventFdReady, SingleCommit, Committing, scheduler, locals, history
<1>17. CASE Release
  BY <1>17 DEF Release, kernel, locals, history
<1>18. CASE UNCHANGED vars
  BY <1>18 DEF vars
<1> QED
  BY <1>1, <1>2, <1>3, <1>4, <1>5, <1>6, <1>7, <1>8, <1>9, <1>10,
     <1>11, <1>12, <1>13, <1>14, <1>16, <1>17, <1>18 DEF Next, Step, Call

(* Only a newer frame, or a failed commit, displaces a frame. *)
LEMMA KeptStep == TypeOK /\ LocalsConsumed /\ FrameOwnership /\ MailboxOrder /\ LastFrameKept /\ [Next]_vars => LastFrameKept'
<1> SUFFICES ASSUME TypeOK, LocalsConsumed, FrameOwnership, MailboxOrder, LastFrameKept, [Next]_vars PROVE LastFrameKept'
  OBVIOUS
<1> USE FrameNumbers, ThreadsAssumption DEF TypeOK, LocalsConsumed, LastFrameKept, SomeCommitFailed, Goto
<1>1. ASSUME NEW t \in Threads, NEW b \in Batons, OnFlVsyncRequest(t, b)
      PROVE  LastFrameKept'
  BY <1>1 DEF OnFlVsyncRequest, CanCall, kernel
<1>2. ASSUME NEW t \in Threads, PresentFrame(t) PROVE LastFrameKept'
  <2> DEFINE f == submitted + 1
  <2>1. /\ f \in Frames /\ submitted' = f
        /\ fate' = [fate EXCEPT ![f] = "live"] /\ fate[f] = "new"
    BY <1>2 DEF PresentFrame, FrameOwnership
  <2>2. SomeCommitFailed => SomeCommitFailed'
    BY <2>1
  <2>3. queued # f /\ \A u \in Threads : drop[u] # f
    BY <2>1 DEF FrameOwnership, Owned
  <2> HIDE DEF f
  <2>4. \A u \in Threads : drop'[u] # f /\ (pc'[u] = "failed" => pc[u] = "failed")
    BY <1>2, <2>3 DEF PresentFrame, QueueFrame, StartFrame
  <2> QED BY <2>1, <2>2, <2>4 DEF SomeCommitFailed
<1>3. ASSUME NEW t \in Threads, NEW l \in Listeners, OnNextScanout(t, l)
      PROVE  LastFrameKept'
  BY <1>3 DEF OnNextScanout, CanCall, kernel, locals
<1>4. ASSUME NEW t \in Threads, NEW l \in Listeners, CancelScanoutListener(t, l)
      PROVE  LastFrameKept'
  BY <1>4 DEF CancelScanoutListener, CanCall, kernel, locals
<1>5. ASSUME NEW t \in Threads, CancelFrame(t) PROVE LastFrameKept'
  <2>1. /\ drop[t] \in Frames /\ fate[drop[t]] = "live"
        /\ fate' = [fate EXCEPT ![drop[t]] = "cancelled"]
        /\ drop' = [drop EXCEPT ![t] = 0] /\ UNCHANGED submitted
    BY <1>5 DEF CancelFrame, FrameOwnership, Owned
  <2>2. SomeCommitFailed => SomeCommitFailed'
    BY <2>1
  <2>3. \A u \in Threads : pc'[u] = "failed" => pc[u] = "failed"
    BY <1>5 DEF CancelFrame
  <2> QED BY <2>1, <2>2, <2>3
<1>6. ASSUME NEW t \in Threads, CommitFrame(t) PROVE LastFrameKept'
  <2>1. cur[t] \in Frames /\ UNCHANGED <<drop, submitted>>
    BY <1>6 DEF CommitFrame
  <2>2. CASE UNCHANGED fate /\ Goto(t, "dispatch")
    BY <2>1, <2>2
  <2>3. CASE fate' = [fate EXCEPT ![cur[t]] = "failed"]
    BY <2>1, <2>3
  <2>4. CASE /\ fate' = [fate EXCEPT ![cur[t]] = "lost"]
             /\ \A u \in Threads : pc'[u] = "failed" => pc[u] = "failed"
    <3>1. fate[cur[t]] = "live"
      BY <2>1 DEF FrameOwnership, Owned
    <3>2. SomeCommitFailed => SomeCommitFailed'
      BY <2>1, <2>4, <3>1
    <3> QED BY <2>1, <2>4, <3>2
  <2> QED BY <1>6, <2>2, <2>3, <2>4 DEF CommitFrame
<1>7. ASSUME NEW t \in Threads, OnScanout(t) PROVE LastFrameKept'
  <2>1. /\ flipped \in Frames /\ fate[flipped] = "live"
        /\ fate' = [fate EXCEPT ![flipped] = "shown"]
        /\ UNCHANGED <<drop, submitted>>
    BY <1>7 DEF OnScanout, FrameOwnership, Owned
  <2>2. SomeCommitFailed => SomeCommitFailed'
    BY <2>1
  <2>3. \A u \in Threads : pc'[u] = "failed" => pc[u] = "failed"
    BY <1>7 DEF OnScanout
  <2> QED BY <2>1, <2>2, <2>3
<1>8. ASSUME NEW t \in Threads, DispatchReturn(t) PROVE LastFrameKept'
  BY <1>8 DEF DispatchReturn, scheduler, kernel, locals, history
<1>9. ASSUME NEW t \in Threads, VsyncReply(t) PROVE LastFrameKept'
  BY <1>9 DEF VsyncReply, AnswerBaton, scheduler, kernel
<1>10. ASSUME NEW t \in Threads, OnPresentFailed(t) PROVE LastFrameKept'
  BY <1>10 DEF OnPresentFailed, TakeBaton, kernel, history
<1>11. ASSUME NEW t \in Threads, FireListeners(t) PROVE LastFrameKept'
  BY <1>11 DEF FireListeners, kernel, history
<1>12. ASSUME NEW t \in Threads, NEW l \in Listeners, NotifyListener(t, l)
      PROVE  LastFrameKept'
  BY <1>12 DEF NotifyListener, scheduler, kernel
<1>13. ASSUME NEW t \in Threads, NotifyDone(t) PROVE LastFrameKept'
  BY <1>13 DEF NotifyDone, scheduler, kernel, history
<1>14. ASSUME NEW t \in Threads, Destroy(t) PROVE LastFrameKept'
  <2>1. fate' = fate /\ UNCHANGED <<drop, submitted>>
    BY <1>14 DEF Destroy, FrameOwnership, Owned, locals
  <2>2. \A u \in Threads : pc'[u] = "failed" => pc[u] = "failed"
    BY <1>14 DEF Destroy
  <2> QED BY <2>1, <2>2
<1>16. CASE OnEventFdReady
  BY <1>16 DEF OnEventFdReady, SingleCommit, Committing, scheduler, locals, history
<1>17. CASE Release
  BY <1>17 DEF Release, kernel, locals, history
<1>18. CASE UNCHANGED vars
  BY <1>18 DEF vars
<1> QED
  BY <1>1, <1>2, <1>3, <1>4, <1>5, <1>6, <1>7, <1>8, <1>9, <1>10,
     <1>11, <1>12, <1>13, <1>14, <1>16, <1>17, <1>18 DEF Next, Step, Call

-----------------------------------------------------------------------------
(* The inductive invariant: the safety invariants, each of which needs the *)
(* ones before it.                                                         *)
IndInv ==
    /\ TypeOK /\ LocalsConsumed
    /\ SingleCommit /\ NothingStranded
    /\ BatonAccounting /\ ListenerAccounting
    /\ FrameOwnership /\ MailboxOrder /\ LastFrameKept

(* frame_scheduler_new establishes it.                                     *)
LEMMA InitIndInv == Init => IndInv
<1> SUFFICES ASSUME Init PROVE IndInv
  OBVIOUS
<1> USE FrameNumbers DEF Init, New
<1>1. TypeOK
  BY DEF TypeOK, PCs, Fates, BatonOrNone
<1>2. LocalsConsumed
  BY DEF LocalsConsumed
<1>3. SingleCommit /\ NothingStranded
  BY DEF SingleCommit, NothingStranded, Committing, FlipLost
<1>4. BatonAccounting /\ ListenerAccounting
  BY DEF BatonAccounting, ListenerAccounting
<1>5. FrameOwnership
  <2>1. \A f \in Frames : f > 0 /\ ~Owned(f)
    BY DEF Owned, FrameOrNone
  <2> QED BY <2>1 DEF FrameOwnership
<1>6. MailboxOrder /\ LastFrameKept
  BY DEF MailboxOrder, LastFrameKept
<1> QED BY <1>1, <1>2, <1>3, <1>4, <1>5, <1>6 DEF IndInv

(* Every step of every thread keeps it.                                    *)
LEMMA NextIndInv == IndInv /\ [Next]_vars => IndInv'
BY TypeStep, LocalsStep, CommitStep, StrandedStep, BatonStep, ListenerStep,
   OwnershipStep, OrderStep, KeptStep DEF IndInv, TypeInv

(* The invariant holds throughout.                                         *)
THEOREM IndInvHolds == Spec => []IndInv
BY InitIndInv, NextIndInv, PTL DEF Spec

(* Every variable keeps its type.                                          *)
THEOREM TypeCorrect == Spec => []TypeOK
BY IndInvHolds, PTL DEF IndInv

(* For any number of threads, at most one commit is on its way, and        *)
(* waiting_for_scanout says so exactly, but for a commit whose flip is     *)
(* lost: then the flag stays set and nothing is committed any more.        *)
THEOREM OneCommitInFlight == Spec => []SingleCommit
BY IndInvHolds, PTL DEF IndInv

(* No queued frame and no deferred vsync request is left with the pipeline *)
(* idle.                                                                   *)
THEOREM NoneStranded == Spec => []NothingStranded
BY IndInvHolds, PTL DEF IndInv

(* Every frame is destroyed exactly once: presented or cancelled, never    *)
(* both, and neither only when its flip is lost.                           *)
THEOREM FramesOwnedOnce == Spec => []FrameOwnership
BY IndInvHolds, PTL DEF IndInv

(* Frames reach the kernel in the order they were submitted, and the       *)
(* newest one is given up only after a failed commit.                      *)
THEOREM FramesInOrder == Spec => []MailboxSemantics
BY IndInvHolds, PTL DEF IndInv, MailboxSemantics

(* Every vsync request is answered, and every listener called, at most     *)
(* once, and neither is forgotten while it is owed, but for a reply that   *)
(* could not be posted.                                                    *)
THEOREM CallbacksOnce == Spec => []CallbackAccounting
BY IndInvHolds, PTL DEF IndInv, CallbackAccounting
-----------------------------------------------------------------------------
(* What NoUseAfterDestroy says of a destroyed scheduler.                   *)
OutOfUse ==
    /\ ~waiting /\ baton = 0 /\ asked \subseteq dropped
    /\ \A t \in Threads : pc[t] \in {"idle", "fire", "notify", "dispatch"}
    /\ \A f \in Frames : ~Owned(f)

(* Every step keeps a destroyed scheduler out of use: what would lead back *)
(* into it has been consumed before the last reference was dropped.        *)
LEMMA DestroyedStep == IndInv /\ NoUseAfterDestroy /\ [Next]_vars => NoUseAfterDestroy'
<1> SUFFICES ASSUME IndInv, NoUseAfterDestroy, [Next]_vars, life' = "destroyed"
             PROVE  OutOfUse'
  BY DEF NoUseAfterDestroy, OutOfUse
<1>1. TypeOK /\ LocalsConsumed /\ SingleCommit /\ NothingStranded /\ BatonAccounting /\ FrameOwnership
  BY DEF IndInv
<1>2. CASE life = "destroyed"
  <2>1. /\ ~waiting /\ baton = 0 /\ asked \subseteq dropped
        /\ \A t \in Threads : pc[t] \in {"idle", "fire", "notify", "dispatch"}
        /\ \A f \in Frames : ~Owned(f)
    BY <1>2 DEF NoUseAfterDestroy
  <2>2. /\ queued = 0 /\ inflight = 0 /\ flipped = 0
        /\ \A t \in Threads : cur[t] = 0 /\ drop[t] = 0
    BY <1>1, <2>1, FrameNumbers DEF TypeOK, Owned
  <2>3. ASSUME UNCHANGED <<waiting, baton, asked, dropped, queued, inflight, flipped, cur, drop>>,
               NEW t \in Threads, NEW label \in {"idle", "fire", "notify", "dispatch"},
               Goto(t, label) \/ UNCHANGED pc
        PROVE  OutOfUse'
    <3>1. \A u \in Threads : pc'[u] \in {"idle", "fire", "notify", "dispatch"}
      BY <1>1, <2>1, <2>3 DEF Goto, TypeOK
    <3>2. \A f \in Frames : ~Owned(f)'
      BY <2>1, <2>3 DEF Owned
    <3> QED BY <2>1, <2>3, <3>1, <3>2 DEF OutOfUse
  <2>4. CASE UNCHANGED vars
    BY <1>1, <2>3, <2>4, ThreadsAssumption DEF vars
  <2>5. ASSUME NEW t \in Threads, DispatchReturn(t) \/ FireListeners(t)
        PROVE  OutOfUse'
    <3>1. UNCHANGED <<waiting, baton, asked, dropped, queued, inflight, flipped, cur, drop>>
      BY <2>5 DEF DispatchReturn, FireListeners, scheduler, kernel, locals, history
    <3>2. PICK label \in {"idle", "fire", "notify", "dispatch"} : Goto(t, label)
      BY <2>1, <2>5 DEF DispatchReturn, FireListeners
    <3> QED BY <2>3, <3>1, <3>2
  <2>6. ASSUME NEW t \in Threads, NEW l \in Listeners, NotifyListener(t, l)
        PROVE  OutOfUse'
    <3>1. UNCHANGED <<waiting, baton, asked, dropped, queued, inflight, flipped, cur, drop>>
      BY <2>6 DEF NotifyListener, scheduler, kernel
    <3>2. UNCHANGED pc
      BY <2>6 DEF NotifyListener
    <3> QED BY <2>3, <3>1, <3>2
  <2>7. ASSUME NEW t \in Threads, NotifyDone(t)
        PROVE  OutOfUse'
    <3>1. UNCHANGED <<waiting, baton, asked, dropped, queued, inflight, flipped, cur, drop>>
      BY <2>7 DEF NotifyDone, scheduler, kernel, history
    <3>2. Goto(t, "dispatch")
      BY <2>1, <2>7 DEF NotifyDone
    <3> QED BY <2>3, <3>1, <3>2
  <2>8. \A t \in Threads : ~(\/ CancelFrame(t) \/ CommitFrame(t) \/ OnScanout(t) \/ VsyncReply(t)
                             \/ OnPresentFailed(t) \/ Call(t) \/ Destroy(t))
    BY <1>2, <2>1, <2>2 DEF CancelFrame, CommitFrame, OnScanout, VsyncReply,
       OnPresentFailed, Call,
       PresentFrame, OnFlVsyncRequest, OnNextScanout, CancelScanoutListener, CanCall, Destroy
  <2>9. ~OnEventFdReady /\ ~Release
    BY <1>2, <2>2 DEF OnEventFdReady, Release
  <2> QED BY <2>4, <2>5, <2>6, <2>7, <2>8, <2>9 DEF Next, Step
<1>3. CASE life # "destroyed"
  <2>1. PICK t \in Threads : Destroy(t)
    <3>1. \A t \in Threads : Step(t) \/ Call(t) => life' = life
      BY DEF Step, Call, CancelFrame, CommitFrame, OnScanout, DispatchReturn, VsyncReply,
         OnPresentFailed, FireListeners, NotifyListener, NotifyDone, PresentFrame, OnFlVsyncRequest,
         OnNextScanout, CancelScanoutListener, scheduler
    <3>2. OnEventFdReady \/ Release \/ UNCHANGED vars => life' # "destroyed"
      BY <1>3 DEF OnEventFdReady, Release, scheduler, vars
    <3> QED BY <1>3, <3>1, <3>2 DEF Next
  <2>2. /\ \A u \in Threads : pc[u] = "idle"
        /\ \A f \in Frames : ~Owned(f)
    BY <1>1, <2>1 DEF Destroy, FrameOwnership
  <2>3. inflight = 0 /\ flipped = 0 /\ \A u \in Threads : ~Committing(u) /\ reply[u] = 0
    BY <1>1, <2>2, FrameNumbers DEF TypeOK, Owned, LocalsConsumed, Committing
  <2>4. ~waiting /\ baton = 0
    BY <1>1, <2>1, <2>3 DEF SingleCommit, NothingStranded, FlipLost, Destroy
  <2>5. asked \subseteq dropped
    BY <1>1, <2>3, <2>4 DEF BatonAccounting
  <2>6. /\ UNCHANGED <<waiting, baton, asked, dropped, queued, inflight, flipped, cur, drop>>
        /\ Goto(t, "fire")
    BY <2>1 DEF Destroy, kernel, locals
  <2>7. \A f \in Frames : ~Owned(f)'
    BY <2>2, <2>6 DEF Owned
  <2> QED BY <1>1, <2>2, <2>4, <2>5, <2>6, <2>7 DEF Goto, TypeOK, OutOfUse
<1> QED BY <1>2, <1>3

(* Nothing calls back into the scheduler after frame_scheduler_destroy.    *)
THEOREM DestroyedForGood == Spec => []NoUseAfterDestroy
<1>1. Init => NoUseAfterDestroy
  BY DEF Init, New, NoUseAfterDestroy
<1>2. IndInv /\ NoUseAfterDestroy /\ [Next]_vars => NoUseAfterDestroy'
  BY DestroyedStep
<1> QED BY <1>1, <1>2, IndInvHolds, PTL DEF Spec
-----------------------------------------------------------------------------
(* The scheduler implements the safety part of FrameDisplay.  The mapping  *)
(* is that of ImplementsDisplay; what it rests on is that the frames on    *)
(* the screen so far have a newest one and are older than the frame on its *)
(* way there.                                                              *)
Shown == {f \in Frames : fate[f] = "shown"}

ShownInv ==
    /\ Shown # {} => \E f \in Shown : \A g \in Shown : g <= f
    /\ \A f \in Shown : /\ inflight # 0 => f < inflight
                        /\ flipped # 0 => f < flipped

(* NewestIn is the greatest, if there is one.                              *)
LEMMA NewestUnique ==
    ASSUME NEW S \in SUBSET Nat, NEW f \in S, \A g \in S : g <= f
    PROVE  NewestIn(S) = f
<1>1. \A g \in S : (\A h \in S : h <= g) => g = f
  OBVIOUS
<1> QED BY <1>1 DEF NewestIn

(* A flip puts a newer frame on the screen.                                *)
LEMMA ScanoutShows ==
    ASSUME IndInv, ShownInv, NEW t \in Threads, OnScanout(t)
    PROVE  /\ Shown' = Shown \cup {flipped} /\ flipped \in Frames
           /\ NewestIn(Shown) < flipped /\ NewestIn(Shown) \in Nat
           /\ NewestIn(Shown') = flipped /\ ShownInv'
<1>1. TypeOK /\ SingleCommit /\ FrameOwnership
  BY DEF IndInv
<1>2. /\ flipped \in Frames /\ flipped' = 0 /\ inflight' = inflight
      /\ fate' = [fate EXCEPT ![flipped] = "shown"]
  BY <1>1, FrameNumbers DEF OnScanout, TypeOK
<1>3. Shown' = Shown \cup {flipped}
  BY <1>1, <1>2 DEF Shown, TypeOK
<1>4. inflight = 0
  BY <1>2, <1>1, FrameNumbers DEF SingleCommit
<1>5. \A f \in Shown : f < flipped
  BY <1>2, FrameNumbers DEF ShownInv
<1>6. Frames \subseteq Nat /\ Shown \subseteq Nat
  BY FrameNumbers DEF Shown
<1>7. NewestIn(Shown) < flipped /\ NewestIn(Shown) \in Nat
  <2>1. CASE Shown = {}
    BY <1>2, <1>6, <2>1, FrameNumbers DEF NewestIn
  <2>2. CASE Shown # {}
    <3>1. PICK f \in Shown : \A g \in Shown : g <= f
      BY <2>2 DEF ShownInv
    <3>2. NewestIn(Shown) = f
      BY <1>6, <3>1, NewestUnique
    <3> QED BY <1>5, <1>6, <3>1, <3>2
  <2> QED BY <2>1, <2>2
<1>8. \A g \in Shown' : g <= flipped
  BY <1>2, <1>3, <1>5, <1>6
<1>9. NewestIn(Shown') = flipped
  BY <1>2, <1>3, <1>6, <1>8, NewestUnique
<1>10. ShownInv'
  BY <1>2, <1>3, <1>4, <1>8, FrameNumbers DEF ShownInv
<1> QED BY <1>2, <1>3, <1>7, <1>9, <1>10

(* No other step changes what was shown.                                   *)
LEMMA OthersShowNothing ==
    ASSUME IndInv, ShownInv, [Next]_vars, \A t \in Threads : ~OnScanout(t)
    PROVE  Shown' = Shown /\ ShownInv'
<1>1. TypeOK /\ LocalsConsumed /\ SingleCommit /\ FrameOwnership /\ MailboxOrder
  BY DEF IndInv
<1>2. Frames \subseteq Nat /\ 0 \notin Frames
  BY FrameNumbers
<1>3. ASSUME UNCHANGED <<inflight, flipped>>, fate' \in [Frames -> Fates],
             \A f \in Frames : fate'[f] = "shown" <=> fate[f] = "shown"
      PROVE  Shown' = Shown /\ ShownInv'
  <2>1. Shown' = Shown
    BY <1>3 DEF Shown
  <2> QED BY <1>3, <2>1 DEF ShownInv
<1>4. fate \in [Frames -> Fates]
  BY <1>1 DEF TypeOK
<1>5. ASSUME NEW t \in Threads, PresentFrame(t) PROVE Shown' = Shown /\ ShownInv'
  <2>1. /\ submitted + 1 \in Frames /\ fate' = [fate EXCEPT ![submitted + 1] = "live"]
        /\ UNCHANGED <<inflight, flipped>>
    BY <1>1, <1>5, FrameNumbers DEF PresentFrame, TypeOK, kernel
  <2>2. fate[submitted + 1] = "new"
    BY <1>1, <2>1, FrameNumbers DEF FrameOwnership, TypeOK
  <2> QED BY <1>3, <1>4, <2>1, <2>2 DEF Fates
<1>6. ASSUME NEW t \in Threads, CancelFrame(t) PROVE Shown' = Shown /\ ShownInv'
  <2>1. /\ drop[t] \in Frames /\ fate' = [fate EXCEPT ![drop[t]] = "cancelled"]
        /\ UNCHANGED <<inflight, flipped>>
    BY <1>1, <1>6, FrameNumbers DEF CancelFrame, TypeOK, LocalsConsumed, kernel
  <2>2. fate[drop[t]] = "live"
    BY <1>1, <2>1 DEF FrameOwnership, Owned
  <2> QED BY <1>3, <1>4, <2>1, <2>2 DEF Fates
<1>7. ASSUME NEW t \in Threads, CommitFrame(t) PROVE Shown' = Shown /\ ShownInv'
  <2>1. cur[t] \in Frames
    BY <1>1, <1>7, FrameNumbers DEF CommitFrame, TypeOK, LocalsConsumed
  <2>2. fate[cur[t]] = "live" /\ \A f \in Shown : f < cur[t]
    BY <1>1, <2>1 DEF FrameOwnership, Owned, MailboxOrder, Shown
  <2>3. inflight = 0 /\ flipped = 0
    BY <1>1, <1>2, <2>1 DEF SingleCommit, Committing
  <2>4. CASE fate' = fate
    <3>1. Shown' = Shown
      BY <2>4 DEF Shown
    <3>2. (inflight' = 0 \/ inflight' = cur[t]) /\ (flipped' = 0 \/ flipped' = cur[t])
      <4>1. \/ inflight' = cur[t] /\ flipped' = flipped
            \/ flipped' = cur[t] /\ inflight' = inflight
            \/ UNCHANGED <<inflight, flipped>>
        BY <1>7 DEF CommitFrame
      <4> QED BY <2>3, <4>1
    <3> QED BY <2>2, <3>1, <3>2 DEF ShownInv
  <2>5. ASSUME NEW end \in {"failed", "lost"}, fate' = [fate EXCEPT ![cur[t]] = end],
               UNCHANGED <<inflight, flipped>>
        PROVE  Shown' = Shown /\ ShownInv'
    BY <1>3, <1>4, <2>1, <2>2, <2>5 DEF Fates
  <2> QED BY <1>7, <2>4, <2>5 DEF CommitFrame
<1>8. CASE OnEventFdReady
  <2>1. Shown' = Shown /\ flipped' = inflight /\ inflight' = 0
    BY <1>8 DEF OnEventFdReady, history, Shown
  <2> QED BY <2>1 DEF ShownInv
<1>9. ASSUME NEW t \in Threads, Destroy(t) PROVE Shown' = Shown /\ ShownInv'
  <2>1. fate' = fate /\ UNCHANGED <<inflight, flipped>>
    BY <1>1, <1>9, FrameNumbers DEF Destroy, FrameOwnership, Owned, TypeOK, kernel
  <2> QED BY <1>3, <1>4, <2>1
<1>10. CASE UNCHANGED <<inflight, flipped, fate>>
  BY <1>3, <1>4, <1>10
<1>11. \A t \in Threads :
          DispatchReturn(t) \/ VsyncReply(t) \/ OnPresentFailed(t) \/ FireListeners(t)
          \/ NotifyDone(t) \/ (\E l \in Listeners : NotifyListener(t, l))
          => UNCHANGED <<inflight, flipped, fate>>
  BY DEF DispatchReturn, VsyncReply, OnPresentFailed, FireListeners, NotifyDone,
     NotifyListener,
     kernel, history
<1>12. \A t \in Threads :
          \/ \E b \in Batons : OnFlVsyncRequest(t, b)
          \/ \E l \in Listeners : OnNextScanout(t, l) \/ CancelScanoutListener(t, l)
          => UNCHANGED <<inflight, flipped, fate>>
  BY DEF OnFlVsyncRequest, OnNextScanout, CancelScanoutListener, kernel
<1>13. Release \/ UNCHANGED vars => UNCHANGED <<inflight, flipped, fate>>
  BY DEF Release, kernel, history, vars
<1> QED
  BY <1>5, <1>6, <1>7, <1>8, <1>9, <1>10, <1>11, <1>12, <1>13 DEF Next, Step, Call

(* A commit was refused, or its flip is lost.                              *)
Broken == SomeCommitFailed \/ FlipLost

(* A step of the scheduler is a step of the display, or none.              *)
LEMMA DisplayStep ==
    ASSUME IndInv, ShownInv, [Next]_vars
    PROVE  [Display!Next]_Display!vars
<1>1. TypeOK /\ LocalsConsumed /\ FrameOwnership
  BY DEF IndInv
<1> DEFINE screen == NewestIn(Shown)
<1>2. ASSUME NEW t \in Threads, OnScanout(t) PROVE Display!Show
  <2>1. submitted' = submitted /\ Broken' = Broken
    <3>1. /\ flipped \in Frames /\ fate' = [fate EXCEPT ![flipped] = "shown"]
          /\ submitted' = submitted
      BY <1>1, <1>2, FrameNumbers DEF OnScanout, TypeOK
    <3>2. fate[flipped] = "live"
      BY <1>1, <3>1 DEF FrameOwnership, Owned
    <3> QED BY <1>1, <3>1, <3>2 DEF Broken, SomeCommitFailed, FlipLost, TypeOK
  <2>2. flipped \in (screen + 1) .. submitted
    <3>1. flipped \in Frames /\ fate[flipped] = "live" /\ screen < flipped /\ screen \in Nat
      BY <1>1, <1>2, ScanoutShows DEF FrameOwnership, Owned
    <3>2. ~(flipped > submitted)
      BY <1>1, <3>1 DEF FrameOwnership
    <3> QED BY <1>1, <3>1, <3>2, FrameNumbers DEF TypeOK
  <2>3. screen' = flipped
    BY <1>2, ScanoutShows
  <2> QED BY <2>1, <2>2, <2>3 DEF Display!Show, Shown, Broken
<1>3. CASE \A t \in Threads : ~OnScanout(t)
  <2>1. screen' = screen
    BY <1>3, OthersShowNothing
  <2>2. ASSUME fate' \in [Frames -> Fates], submitted' = submitted,
               \A f \in Frames : fate'[f] = "failed" <=> fate[f] = "failed",
               \A f \in Frames : fate'[f] = "lost" <=> fate[f] = "lost"
        PROVE  UNCHANGED Display!vars
    <3>1. SomeCommitFailed' = SomeCommitFailed /\ FlipLost' = FlipLost
      BY <2>2 DEF SomeCommitFailed, FlipLost
    <3> QED BY <2>1, <2>2, <3>1 DEF Display!vars, Shown
  <2>3. fate \in [Frames -> Fates]
    BY <1>1 DEF TypeOK
  <2>4. ASSUME NEW t \in Threads, PresentFrame(t) PROVE Display!Submit
    <3>1. /\ submitted + 1 \in Frames /\ fate' = [fate EXCEPT ![submitted + 1] = "live"]
          /\ submitted' = submitted + 1
      BY <1>1, <2>4, FrameNumbers DEF PresentFrame, TypeOK
    <3>2. fate[submitted + 1] = "new"
      BY <1>1, <3>1, FrameNumbers DEF FrameOwnership, TypeOK
    <3>3. Broken' = Broken
      BY <2>3, <3>1, <3>2 DEF Broken, SomeCommitFailed, FlipLost
    <3> QED BY <2>1, <3>1, <3>3 DEF Display!Submit, Shown, Broken
  <2>5. ASSUME NEW t \in Threads, CancelFrame(t) PROVE UNCHANGED Display!vars
    <3>1. /\ drop[t] \in Frames /\ fate' = [fate EXCEPT ![drop[t]] = "cancelled"]
          /\ submitted' = submitted
      BY <1>1, <2>5, FrameNumbers DEF CancelFrame, TypeOK, LocalsConsumed
    <3>2. fate[drop[t]] = "live"
      BY <1>1, <3>1 DEF FrameOwnership, Owned
    <3> QED BY <2>2, <2>3, <3>1, <3>2 DEF Fates
  <2>6. ASSUME NEW t \in Threads, CommitFrame(t)
        PROVE  Display!Break \/ UNCHANGED Display!vars
    <3>1. cur[t] \in Frames /\ submitted' = submitted
      BY <1>1, <2>6, FrameNumbers DEF CommitFrame, TypeOK, LocalsConsumed
    <3>2. CASE fate' = fate
      BY <2>2, <2>3, <3>1, <3>2
    <3>3. ASSUME NEW end \in {"failed", "lost"}, fate' = [fate EXCEPT ![cur[t]] = end]
          PROVE  Display!Break
      <4>1. Broken' = TRUE
        BY <2>3, <3>1, <3>3 DEF Broken, SomeCommitFailed, FlipLost
      <4> QED BY <2>1, <3>1, <4>1 DEF Display!Break, Shown, Broken
    <3> QED BY <2>6, <3>2, <3>3 DEF CommitFrame
  <2>7. ASSUME NEW t \in Threads, Destroy(t) PROVE UNCHANGED Display!vars
    <3>1. fate' = fate /\ submitted' = submitted
      BY <1>1, <2>7, FrameNumbers DEF Destroy, FrameOwnership, Owned, TypeOK
    <3> QED BY <2>2, <2>3, <3>1
  <2>8. CASE UNCHANGED <<submitted, fate>>
    BY <2>2, <2>3, <2>8
  <2>9. \A t \in Threads :
            DispatchReturn(t) \/ VsyncReply(t) \/ OnPresentFailed(t) \/ FireListeners(t)
            \/ NotifyDone(t) \/ (\E l \in Listeners : NotifyListener(t, l))
            => UNCHANGED <<submitted, fate>>
    BY DEF DispatchReturn, VsyncReply, OnPresentFailed, FireListeners, NotifyDone,
       NotifyListener,
       history
  <2>10. \A t \in Threads :
            \/ \E b \in Batons : OnFlVsyncRequest(t, b)
            \/ \E l \in Listeners : OnNextScanout(t, l) \/ CancelScanoutListener(t, l)
            => UNCHANGED <<submitted, fate>>
    BY DEF OnFlVsyncRequest, OnNextScanout, CancelScanoutListener
  <2>11. OnEventFdReady \/ Release \/ UNCHANGED vars => UNCHANGED <<submitted, fate>>
    BY DEF OnEventFdReady, Release, history, vars
  <2> QED
    BY <1>3, <2>4, <2>5, <2>6, <2>7, <2>8, <2>9, <2>10, <2>11
    DEF Next, Step, Call, Display!Next
<1> QED BY <1>2, <1>3 DEF Display!Next

(* The scheduler implements the safety part of FrameDisplay: the screen    *)
(* only moves forward, to a newer frame that was submitted.  (That it gets *)
(* to the newest, the fairness of ImplementsDisplay, stays with TLC.)      *)
THEOREM SchedulerImplementsDisplay == Spec => Display!Spec
<1>1. Init => Display!Init /\ ShownInv
  <2> SUFFICES ASSUME Init PROVE Display!Init /\ ShownInv
    OBVIOUS
  <2>1. Shown = {} /\ ~SomeCommitFailed /\ ~FlipLost
    BY DEF Init, Shown, SomeCommitFailed, FlipLost
  <2>2. NewestIn(Shown) = 0
    BY <2>1 DEF NewestIn
  <2> QED BY <2>1, <2>2 DEF Init, Display!Init, ShownInv, Shown
<1>2. IndInv /\ ShownInv /\ [Next]_vars => ShownInv'
  <2> SUFFICES ASSUME IndInv, ShownInv, [Next]_vars PROVE ShownInv'
    OBVIOUS
  <2>1. CASE \E t \in Threads : OnScanout(t)
    BY <2>1, ScanoutShows
  <2>2. CASE \A t \in Threads : ~OnScanout(t)
    BY <2>2, OthersShowNothing
  <2> QED BY <2>1, <2>2
<1>3. IndInv /\ ShownInv /\ [Next]_vars => [Display!Next]_Display!vars
  BY DisplayStep
<1> QED BY <1>1, <1>2, <1>3, IndInvHolds, PTL DEF Spec, Display!Spec
=============================================================================
