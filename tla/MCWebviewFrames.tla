--------------------------- MODULE MCWebviewFrames ---------------------------
(* WebviewFrames on small instances.                                        *)
EXTENDS WebviewFrames
=============================================================================
