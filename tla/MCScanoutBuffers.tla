-------------------------- MODULE MCScanoutBuffers --------------------------
(* ScanoutBuffers on small instances.                                      *)
EXTENDS ScanoutBuffers, TLC

(* The slots of a pool are alike: fill takes any free one.                 *)
SlotSymmetry == Permutations(Pool)

=============================================================================
