---------------------------- MODULE MCTextInput ----------------------------
(***************************************************************************)
(* Text input for TLC: an app that puts the cursor behind a symbol of two  *)
(* UTF-16 units, which is offset 2 for Flutter.                            *)
(***************************************************************************)
EXTENDS TextInput

MCBehindEmoji == {[text |-> <<"g4">>, base |-> 2, extent |-> 2]}
=============================================================================
