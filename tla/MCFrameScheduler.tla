-------------------------- MODULE MCFrameScheduler --------------------------
(* FrameScheduler on small instances.                                      *)
EXTENDS FrameScheduler
=============================================================================
