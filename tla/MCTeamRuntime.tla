---------------------------- MODULE MCTeamRuntime ----------------------------
(* A team of three: "c" joins the packets of "a" and "b".                  *)
EXTENDS TeamRuntime

TeamOrder == <<"a", "b", "c">>
TeamNeeds == [x \in {"a", "b", "c"} |-> IF x = "c" THEN {"a", "b"} ELSE {}]
=============================================================================
