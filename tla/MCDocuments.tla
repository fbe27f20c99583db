---------------------------- MODULE MCDocuments ----------------------------
(***************************************************************************)
(* One task with two source files, two rules and up to three renderings.   *)
(***************************************************************************)
EXTENDS Documents, TLC

CONSTANTS f1, f2, r1, r2

TwoFiles == {f1, f2}
TwoRules == {r1, r2}
Alike    == Permutations(TwoFiles) \cup Permutations(TwoRules)
=============================================================================
