---------------------------- MODULE MCLineEditor ----------------------------
(* Instances of LineEditor for TLC: a letter and the three characters that  *)
(* mean something to pre_parseInput.                                       *)
EXTENDS LineEditor

Keyboard == {"a", "\"", "\\", ";"}
=============================================================================
