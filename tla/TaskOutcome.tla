---------------------------- MODULE TaskOutcome ----------------------------
(***************************************************************************)
(* What the life cycle of a task promises to whoever looks only at how it   *)
(* ends: an open task is judged, possibly several times; it is completed    *)
(* on the strength of a judgement that stands, or it is stopped; and what   *)
(* has ended never moves again, with one exception: a request for review    *)
(* that was under way when the task ended opens it again.  No such request  *)
(* starts once the task has ended.                                          *)
(***************************************************************************)

VARIABLES
  outcome,   \* whether the task is absent, open, or how it ended
  standing,  \* the judgement that stands, until work resumes
  asking     \* whether a request for review is under way

Endings    == {"completed", "failed", "cancelled"}
Outcomes   == {"absent", "open"} \cup Endings
Judgements == {"none", "passed", "review", "failed"}

Init == outcome = "absent" /\ standing = "none" /\ asking = FALSE

Create == outcome = "absent" /\ outcome' = "open" /\ standing' = "none" /\ asking' = asking

AskForReview ==
  /\ outcome = "open"
  /\ asking' = TRUE
  /\ UNCHANGED <<outcome, standing>>

\* It could not be recorded.
GiveUpAsking == asking' = FALSE /\ UNCHANGED <<outcome, standing>>

\* Work goes on, or a verification, a reviewer or a barrier pronounces; a request
\* for review that is recorded may have been the only one under way.
Judge(j) ==
  /\ outcome = "open"
  /\ outcome' = "open"
  /\ standing' = j
  /\ \/ asking' = asking
     \/ j = "review" /\ asking' = FALSE

Complete ==
  /\ outcome = "open"
  /\ standing \in {"passed", "review"}
  /\ outcome' = "completed"
  /\ standing' = "none"
  /\ asking' = asking

Stop ==
  /\ outcome = "open"
  /\ outcome' \in {"failed", "cancelled"}
  /\ standing' = "none"
  /\ asking' = asking

\* The one way out of an ending.
ReviewReopens ==
  /\ outcome \in Endings
  /\ asking
  /\ outcome' = "open"
  /\ standing' = "review"
  /\ asking' \in BOOLEAN

Next ==
  \/ Create
  \/ AskForReview
  \/ GiveUpAsking
  \/ \E j \in Judgements : Judge(j)
  \/ Complete
  \/ Stop
  \/ ReviewReopens

Spec == Init /\ [][Next]_<<outcome, standing, asking>>
=============================================================================
