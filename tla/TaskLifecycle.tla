--------------------------- MODULE TaskLifecycle ---------------------------
(***************************************************************************)
(* The life of one task, as two parts of the program read it off the same   *)
(* ledger events: the orchestrator's state() and its table _ALLOWED         *)
(* (src/src/contracts/execution/orchestrator.py), and the ledger's replay() *)
(* and its _check_transition (src/src/contracts/provenance/ledger.py).      *)
(*                                                                         *)
(* The orchestrator consults the first before it appends; the ledger        *)
(* consults the second at every append.  Between the two others may append: *)
(* other callers, and the components that append without the orchestrator.  *)
(* A repeated call with the same content is answered from the record and is *)
(* no step; only execute_step has keys that do not depend on the content.   *)
(***************************************************************************)
EXTENDS Integers

CONSTANTS
  Callers,      \* bound: the threads and processes that call transition()
  Steps,        \* step identities given to execute_step
  Kinds,        \* bound: the kinds of step that are run
  MaxAttempts,  \* max_attempts of every step
  Sources       \* bound: the components that append directly

\* The consequential events each component appends to the ledger itself; the
\* coordinator records the outcome of a barrier, but no status.
HandoffEvents      == {"worker.handoff", "join_barrier.waiting", "join_barrier.completed",
                       "join_barrier.resolved"}
VerificationEvents == {"verification.requested", "verification.completed"}
AutonomyEvents     == {"escalation.required"}
ToolEvents         == {"tool.requested"}
FileEvents         == {"artifact.staged", "artifact.checked"}
DeliveryEvents     == {"artifact.staged", "artifact.checked"}
AccessEvents       == {"artifact.previewed", "artifact.downloaded"}
KnowledgeEvents    == {"retrieval.requested", "world_model.requested"}

Appends == [handoffs |-> HandoffEvents, verification |-> VerificationEvents,
            autonomy |-> AutonomyEvents, tools |-> ToolEvents, files |-> FileEvents,
            delivery |-> DeliveryEvents, access |-> AccessEvents,
            knowledge |-> KnowledgeEvents]

RequestOf == [
  model |-> "model.requested", retrieval |-> "retrieval.requested", tool |-> "tool.requested",
  world_model |-> "world_model.requested", verification |-> "verification.requested"]

ASSUME StepAssumption == MaxAttempts \in Nat \ {0} /\ Kinds \subseteq DOMAIN RequestOf
ASSUME SourceAssumption == Sources \subseteq DOMAIN Appends

VARIABLES
  orch,      \* Orchestrator.state(task)
  replayed,  \* EventLedger.replay(task).state
  verdict,   \* history: the last judgement recorded on the task
  checked,   \* the transition each caller has checked and not yet appended, if any
  step,      \* the execute_step call in progress
  recorded   \* the idempotency keys of steps that are in the ledger

vars == <<orch, replayed, verdict, checked, step, recorded>>
-----------------------------------------------------------------------------
OrchStates ==
  {"absent", "created", "authorized", "planned", "executing", "awaiting_check",
   "awaiting_review", "rendering", "deliverable_verified", "needs_review", "blocked",
   "complete", "failed", "cancelled"}

LedgerStates ==
  {"absent", "created", "authorized", "planned", "queued", "executing", "awaiting_check",
   "verified", "needs_review", "blocked", "completed", "failed", "cancelled"}

Working   == {"executing", "awaiting_check"}
Unsettled == Working \cup {"created", "authorized", "planned", "awaiting_review", "rendering"}

\* _ALLOWED: the states in which the orchestrator takes an event; none for the
\* events that are not its transitions.
Allowed(type) ==
  CASE type = "task.authorized" -> {"created"}
    [] type = "task.plan.committed" -> {"authorized"}
    [] type \in {"task.plan.approved", "worker.assigned", "resource.plan.admitted"} -> {"planned"}
    [] type \in {"worker.handoff", "worker.completed", "worker.failed", "verification.requested",
                 "join_barrier.waiting", "join_barrier.completed"} -> Working
    [] type \in {"worker.started", "worker.cancelled"} -> Working \cup {"planned"}
    [] type \in {"model.requested", "retrieval.requested", "world_model.requested",
                 "tool.requested"} -> {"planned", "executing"}
    [] type = "barrier.waiting" -> {"executing"}
    [] type = "join_barrier.resolved" -> {"awaiting_check", "needs_review"}
    [] type = "verification.completed" -> {"awaiting_check"}
    [] type = "human.review.required" -> {"deliverable_verified", "needs_review", "awaiting_review"}
    [] type = "artifact.staged" -> {"deliverable_verified", "awaiting_review"}
    [] type = "artifact.checked" -> {"rendering"}
    [] type = "completion.recorded" -> {"deliverable_verified"}
    [] type = "task.failed" -> Unsettled
    [] type = "task.cancelled" -> Unsettled \cup {"needs_review"}
    [] OTHER -> {}

\* "observation" stands for every catalogued event that moves neither reading.
EventTypes ==
  {"task.created", "task.authorized", "task.plan.committed", "task.plan.approved",
   "worker.assigned", "worker.handoff", "worker.started", "worker.completed", "worker.failed",
   "worker.cancelled", "resource.plan.admitted", "resource.plan.queued", "model.requested",
   "retrieval.requested", "world_model.requested", "tool.requested", "barrier.waiting",
   "join_barrier.waiting", "join_barrier.completed", "join_barrier.resolved",
   "verification.requested", "verification.completed", "human.review.required",
   "human.signoff", "escalation.required", "artifact.staged", "artifact.checked",
   "artifact.previewed", "artifact.downloaded", "completion.recorded", "task.failed",
   "task.cancelled", "observation"}

\* payload["status"], which two of the events are read by.
StatusesOf(type) ==
  CASE type = "verification.completed" -> {"passed", "needs_review", "failed", "unset"}
    [] type = "join_barrier.resolved" -> {"cancelled", "needs_review", "unset"}
    [] OTHER -> {"unset"}

Events == {e \in [type: EventTypes, status: UNION {StatusesOf(t) : t \in EventTypes}] :
             e.status \in StatusesOf(e.type)}

Event(type) == [type |-> type, status |-> "unset"]

\* _TARGETS
OrchTarget(e) ==
  CASE e.type = "task.created" -> "created"
    [] e.type = "task.authorized" -> "authorized"
    [] e.type \in {"task.plan.committed", "task.plan.approved", "worker.assigned"} -> "planned"
    [] e.type \in {"worker.handoff", "worker.started", "resource.plan.admitted",
                   "model.requested", "retrieval.requested", "world_model.requested",
                   "verification.requested", "tool.requested",
                   "join_barrier.completed"} -> "executing"
    [] e.type \in {"barrier.waiting", "join_barrier.waiting"} -> "awaiting_check"
    [] e.type = "join_barrier.resolved" /\ e.status = "cancelled" -> "cancelled"
    [] e.type = "join_barrier.resolved" /\ e.status # "cancelled" -> "needs_review"
    [] e.type = "verification.completed" /\ e.status = "passed" -> "deliverable_verified"
    [] e.type = "verification.completed" /\ e.status = "failed" -> "blocked"
    [] e.type = "verification.completed" /\ e.status \notin {"passed", "failed"} -> "needs_review"
    [] e.type = "human.review.required" -> "awaiting_review"
    [] e.type = "artifact.staged" -> "rendering"
    [] e.type = "artifact.checked" -> "deliverable_verified"
    [] e.type = "completion.recorded" -> "complete"
    [] e.type = "task.failed" -> "failed"
    [] e.type = "task.cancelled" -> "cancelled"
    [] OTHER -> "unmoved"

\* The table of _apply_event, which names the ledger's own states.
LedgerTarget(e) ==
  CASE e.type = "task.created" -> "created"
    [] e.type = "task.authorized" -> "authorized"
    [] e.type = "task.plan.committed" -> "planned"
    [] e.type \in {"resource.plan.admitted", "worker.started", "worker.handoff",
                   "model.requested", "tool.requested", "join_barrier.completed"} -> "executing"
    [] e.type = "resource.plan.queued" -> "queued"
    [] e.type = "join_barrier.waiting" -> "awaiting_check"
    [] e.type = "join_barrier.resolved" /\ e.status = "cancelled" -> "cancelled"
    [] e.type = "join_barrier.resolved" /\ e.status # "cancelled" -> "needs_review"
    [] e.type = "verification.completed" /\ e.status = "passed" -> "verified"
    [] e.type = "verification.completed" /\ e.status = "failed" -> "blocked"
    [] e.type = "verification.completed" /\ e.status \notin {"passed", "failed"} -> "needs_review"
    [] e.type \in {"human.review.required", "escalation.required"} -> "needs_review"
    [] e.type = "human.signoff" -> "verified"
    [] e.type = "completion.recorded" -> "completed"
    [] e.type = "task.failed" -> "failed"
    [] e.type = "task.cancelled" -> "cancelled"
    [] OTHER -> "unmoved"

Moved(state, target) == IF target = "unmoved" THEN state ELSE target

\* TERMINAL_STATES, the states completion may be recorded in, and the events a
\* task that has ended still takes.
EndedInTheOtherWords == {"complete", "failed", "cancelled"}
Ended == {"completed", "failed", "cancelled"}

CompletableOnceBlocked == {"verified", "needs_review", "blocked"}
Completable == {"verified", "needs_review"}

TakenAfterTheEndWithFiles ==
  {"human.review.required", "artifact.previewed", "artifact.downloaded", "artifact.staged"}
TakenAfterTheEnd == {"human.review.required", "artifact.previewed", "artifact.downloaded"}

\* EventLedger._check_transition.
Accepts(e) ==
  /\ (e.type = "task.created") = (replayed = "absent")
  /\ replayed \in Ended => e.type \in TakenAfterTheEnd
  /\ e.type = "completion.recorded" => replayed \in Completable
  /\ e.type = "verification.completed" => e.status # "unset"

\* What an event says of the task's fitness to be completed.
Says(e) ==
  CASE e.type = "verification.completed" -> e.status
    [] e.type = "human.signoff" -> "signed"
    [] e.type \in {"human.review.required", "escalation.required"} -> "needs_review"
    [] e.type = "join_barrier.resolved" -> "needs_review"
    [] OTHER -> "unmoved"

Nothing == [type |-> "none", status |-> "unset"]

Append(e) ==
  /\ Accepts(e)
  /\ orch' = Moved(orch, OrchTarget(e))
  /\ replayed' = Moved(replayed, LedgerTarget(e))
  /\ verdict' = Moved(verdict, Says(e))
-----------------------------------------------------------------------------
Idle == [phase |-> "idle"]
StepCalls ==
  {Idle} \cup [phase: {"requesting", "attempting", "exhausted", "failing"}, id: Steps, kind: Kinds, attempt: 1 .. MaxAttempts]

Keys == [what: DOMAIN RequestOf, id: Steps, attempt: {0}]
          \cup [what: {"result", "retry"}, id: Steps, attempt: 1 .. MaxAttempts]

\* A request is keyed by step and event type, a result or retry by step and attempt.
Key(what, id, attempt) == [what |-> what, id |-> id, attempt |-> attempt]

Init ==
  /\ orch = "absent"
  /\ replayed = "absent"
  /\ verdict = "none"
  /\ checked = [c \in Callers |-> Nothing]
  /\ step = Idle
  /\ recorded = {}

CreateTask ==
  /\ Append(Event("task.created"))
  /\ UNCHANGED <<checked, step, recorded>>

\* transition(), and through it authorize, commit_plan, approve_plan,
\* assign_worker, cancel, request_review and finalize_with_completion_gate: the
\* state is checked first, on a reading that others may move before the append.
CheckTransition(c, e) ==
  /\ checked[c] = Nothing
  /\ orch \in Allowed(e.type)
  /\ checked' = [checked EXCEPT ![c] = e]
  /\ UNCHANGED <<orch, replayed, verdict, step, recorded>>

CommitTransition(c) ==
  /\ checked[c] # Nothing
  /\ Append(checked[c])
  /\ checked' = [checked EXCEPT ![c] = Nothing]
  /\ UNCHANGED <<step, recorded>>

\* StorageFailure: the ledger refused the event, or could not take it.
TransitionFails(c) ==
  /\ checked[c] # Nothing
  /\ checked' = [checked EXCEPT ![c] = Nothing]
  /\ UNCHANGED <<orch, replayed, verdict, step, recorded>>

\* audit_event(): any catalogued event that is not a transition. That there is a
\* task is never unsaid, so that it does not matter when it is checked.
AuditEvent(e) ==
  /\ Allowed(e.type) = {} /\ e.type # "task.created"
  /\ orch # "absent"
  /\ Append(e)
  /\ UNCHANGED <<checked, step, recorded>>

DirectAppend(e) ==
  /\ \E s \in Sources : e.type \in Appends[s]
  /\ e.type = "join_barrier.resolved" => e.status = "unset"
  /\ Append(e)
  /\ UNCHANGED <<checked, step, recorded>>
-----------------------------------------------------------------------------
\* execute_step: the request is a transition, checked and then appended unless it
\* is already on record; the call is over at once if its checkpoint cannot be
\* written.
StepBegins(s, k) ==
  /\ step = Idle
  /\ orch \in Allowed(RequestOf[k])
  /\ step' = [phase |-> "requesting", id |-> s, kind |-> k, attempt |-> 1]
  /\ UNCHANGED <<orch, replayed, verdict, checked, recorded>>

StepRequested ==
  LET request == Key(step.kind, step.id, 0)
  IN /\ step.phase = "requesting"
     /\ \/ request \in recorded /\ UNCHANGED <<orch, replayed, verdict, recorded>>
        \/ /\ request \notin recorded
           /\ Append(Event(RequestOf[step.kind]))
           /\ recorded' = recorded \cup {request}
     /\ step' \in {Idle, [step EXCEPT !.phase = "attempting"]}
     /\ UNCHANGED checked

\* The result is appended without asking the orchestrator; only that of a
\* verification moves the task.
AttemptReturns ==
  LET result == Key("result", step.id, step.attempt)
  IN /\ step.phase = "attempting"
     /\ result \notin recorded
     /\ \E e \in Events :
          /\ e.type = IF step.kind = "verification" THEN "verification.completed" ELSE "observation"
          /\ Append(e)
     /\ recorded' = recorded \cup {result}
     /\ step' = Idle
     /\ UNCHANGED checked

AttemptFails ==
  LET retry == Key("retry", step.id, step.attempt)
  IN /\ step.phase = "attempting"
     /\ retry \notin recorded
     /\ Append(Event("observation"))
     /\ recorded' = recorded \cup {retry}
     /\ step' = IF step.attempt = MaxAttempts THEN [step EXCEPT !.phase = "exhausted"]
                ELSE [step EXCEPT !.attempt = @ + 1]
     /\ UNCHANGED checked

\* task.failed is a transition too.
StepGivesUp ==
  /\ step.phase = "exhausted"
  /\ orch \in Allowed("task.failed")
  /\ step' = [step EXCEPT !.phase = "failing"]
  /\ UNCHANGED <<orch, replayed, verdict, checked, recorded>>

StepFailsTask ==
  /\ step.phase = "failing"
  /\ Append(Event("task.failed"))
  /\ step' = Idle
  /\ UNCHANGED <<checked, recorded>>

\* StorageFailure or TransitionRejected out of execute_step, or the process dies.
StepRaises ==
  /\ step # Idle
  /\ step' = Idle
  /\ UNCHANGED <<orch, replayed, verdict, checked, recorded>>

Next ==
  \/ CreateTask
  \/ \E c \in Callers, e \in Events : CheckTransition(c, e)
  \/ \E c \in Callers : CommitTransition(c)
  \/ \E c \in Callers : TransitionFails(c)
  \/ \E e \in Events : AuditEvent(e)
  \/ \E e \in Events : DirectAppend(e)
  \/ \E s \in Steps, k \in Kinds : StepBegins(s, k)
  \/ StepRequested
  \/ AttemptReturns
  \/ AttemptFails
  \/ StepGivesUp
  \/ StepFailsTask
  \/ StepRaises

Spec == Init /\ [][Next]_vars
-----------------------------------------------------------------------------
TypeOK ==
  /\ orch \in OrchStates
  /\ replayed \in LedgerStates
  /\ verdict \in {"none", "passed", "needs_review", "failed", "signed"}
  /\ checked \in [Callers -> Events \cup {Nothing}]
  /\ step \in StepCalls
  /\ recorded \in SUBSET Keys

\* How each reading of the events says the task stands.
OutcomeOf(state) ==
  CASE state = "absent" -> "absent"
    [] state \in {"complete", "completed"} -> "completed"
    [] state \in {"failed", "cancelled"} -> state
    [] OTHER -> "open"

StandingOf(state) ==
  CASE state = "verified" -> "passed"
    [] state = "needs_review" -> "review"
    [] state = "blocked" -> "failed"
    [] OTHER -> "none"

\* The orchestrator and the ledger, with two tables and two vocabularies over one
\* stream, never disagree on whether the task has ended and how.
ReadingsAgree == OutcomeOf(orch) = OutcomeOf(replayed)

\* Whoever appends what in whatever order, a task is completed only when the last
\* judgement recorded on it was not a failure, and there was one.
CompletionFollowsAVerdict ==
  orch = "complete" => verdict \in {"passed", "needs_review", "signed"}

\* A request for review that was checked and not appended: the ledger takes it
\* whatever happens to the task in between.
ReviewIsUnderWay == \E c \in Callers : checked[c].type = "human.review.required"

\* The life cycle implements TaskOutcome, the ending read by the orchestrator and
\* the judgement by the ledger: what has ended never moves again, unless a review
\* was being asked for when it ended; and a task is completed on a judgement that
\* still stands.
Promise == INSTANCE TaskOutcome
             WITH outcome <- OutcomeOf(orch), standing <- StandingOf(replayed),
                  asking <- ReviewIsUnderWay
KeepsPromise == Promise!Spec
=============================================================================
