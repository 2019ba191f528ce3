--------------------------- MODULE MCPlatformTasks ---------------------------
(* PlatformTasks on small instances.                                       *)
EXTENDS PlatformTasks

=============================================================================
