------------------- MODULE FrameSchedulerListenerHistory --------------------
(***************************************************************************)
(* FrameScheduler with one more history variable: the frame that was       *)
(* queued when each listener was registered.                               *)
(***************************************************************************)
EXTENDS FrameScheduler

VARIABLE ahead      \* ahead[l]: queued_frame when l was registered, or 0

HistoryInit == Init /\ ahead = [l \in Listeners |-> 0]

HistoryNext ==
    /\ Next
    /\ ahead' = [l \in Listeners |->
                    IF l \in owed' \ owed THEN queued ELSE ahead[l]]

HistorySpec == HistoryInit /\ [][HistoryNext]_<<vars, ahead>>

(* frame_scheduler.h:86-87: a listener is called "at the next page flip    *)
(* (after any queued frame has been committed)": the frame that was queued *)
(* when it was registered is not still waiting in the mailbox.             *)
CalledAfterQueuedFrame ==
    [][\A t \in Threads, l \in Listeners :
        NotifyListener(t, l) /\ pc[t] = "notify" /\ life # "destroyed"
            => ahead[l] = 0 \/ ahead[l] # queued]_<<vars, ahead>>
=============================================================================
