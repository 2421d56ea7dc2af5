---------------------------- MODULE MCInteractive ----------------------------
(***************************************************************************)
(* Instances of Interactive for TLC: a note that may be reported and a key  *)
(* file that may not.                                                       *)
(***************************************************************************)
EXTENDS Interactive

CONSTANTS note, key

TwoPaths == {note, key}
OnlyNote == {note}
==============================================================================
