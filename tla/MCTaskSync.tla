----------------------------- MODULE MCTaskSync -----------------------------
(* Two tasks started one after the other, with room for two overlapping     *)
(* synchronizations.  The first task ends; the second has an event more, so *)
(* that its synchronizer may fall behind the passes and take a snapshot.    *)
EXTENDS TaskSync

Overlapping == <<<<"plain", "end">>, <<"plain", "plain", "plain">>>>
=============================================================================
