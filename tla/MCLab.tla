-------------------------------- MODULE MCLab --------------------------------
(***************************************************************************)
(* An instance of Lab for TLC: two rules and a parameter, and a Dreamer     *)
(* that may report one insight.                                             *)
(***************************************************************************)
EXTENDS Lab

CONSTANTS think, verify, temperature, insight

TwoRules == <<think, verify>>
OneParam == <<temperature>>
SomeReports == {<<>>, <<insight>>}
WorseOrNot == {-1}
==============================================================================
