---------------------------- MODULE FrameDisplay ----------------------------
(***************************************************************************)
(* What the presentation pipeline promises to whoever draws, with nothing  *)
(* of how it does it: the screen only ever moves forward to a newer frame, *)
(* may skip frames, and reaches the newest one unless a commit fails.      *)
(***************************************************************************)
EXTENDS Naturals

VARIABLES
    latest,     \* the newest frame submitted
    screen,     \* the frame on the screen, 0 before the first
    broken      \* some commit was refused, or its flip never came

vars == <<latest, screen, broken>>

Init == latest = 0 /\ screen = 0 /\ broken = FALSE

Submit == latest' = latest + 1 /\ UNCHANGED <<screen, broken>>

Show == \E f \in (screen + 1) .. latest : screen' = f /\ UNCHANGED <<latest, broken>>

Break == broken' = TRUE /\ UNCHANGED <<latest, screen>>

Next == Submit \/ Show \/ Break

Spec == Init /\ [][Next]_vars

FairSpec == Spec /\ WF_vars(~broken /\ Show)
=============================================================================
