------------------------ MODULE TaskLifecycleProofs ------------------------
(***************************************************************************)
(* The safety of TaskLifecycle, for every set of steps, kinds and sources   *)
(* and every number of attempts, and that it implements TaskOutcome.        *)
(*                                                                         *)
(* The two tables are compared once, event by event (TargetsAgree,          *)
(* VerdictMoves); every action is an Append or leaves the readings alone,   *)
(* so that one lemma about Append (AppendKeeps) carries the induction.      *)
(***************************************************************************)
EXTENDS TaskLifecycle, TLAPS

OrchOpen   == OrchStates \ {"absent", "complete", "failed", "cancelled"}
LedgerOpen == LedgerStates \ {"absent", "completed", "failed", "cancelled"}

StatesOK ==
  /\ orch \in OrchStates
  /\ replayed \in LedgerStates
  /\ verdict \in {"none", "passed", "needs_review", "failed", "signed"}

\* Why the ledger's guard on completion suffices: the state it looks at is the
\* trace of the judgement it stands for.
VerdictBehindState ==
  /\ replayed = "verified" => verdict \in {"passed", "signed"}
  /\ replayed = "needs_review" => verdict = "needs_review"
  /\ replayed = "completed" => verdict \in {"passed", "needs_review", "signed"}

Readings == StatesOK /\ ReadingsAgree /\ VerdictBehindState

CallsOK ==
  /\ checked \in [Callers -> Events \cup {Nothing}]
  /\ step \in StepCalls
  /\ recorded \in SUBSET Keys

IInv == Readings /\ CallsOK
-----------------------------------------------------------------------------
LEMMA EventFields ==
  ASSUME NEW e \in Events
  PROVE  e.type \in EventTypes /\ e.status \in StatusesOf(e.type)
BY DEF Events

\* Every event with no status of its own is an event.
LEMMA PlainEvents ==
  ASSUME NEW type \in EventTypes,
         type \notin {"verification.completed", "join_barrier.resolved"}
  PROVE  /\ Event(type) \in Events
         /\ Event(type).type = type
<1>1. StatusesOf(type) = {"unset"}
  BY DEF StatusesOf
<1>2. "unset" \in UNION {StatusesOf(t) : t \in EventTypes}
  BY <1>1
<1> QED
  BY <1>1, <1>2 DEF Event, Events

\* The tables of the orchestrator and of the ledger: an event that ends the task
\* in one reading ends it alike in the other, and no event makes a task absent.
LEMMA TargetsAgree ==
  ASSUME NEW e \in Events
  PROVE  \/ /\ OrchTarget(e) \in OrchOpen \cup {"unmoved"}
            /\ LedgerTarget(e) \in LedgerOpen \cup {"unmoved"}
            /\ e.type # "completion.recorded"
         \/ /\ OrchTarget(e) = "complete" /\ LedgerTarget(e) = "completed"
            /\ e.type = "completion.recorded"
         \/ /\ OrchTarget(e) = "failed" /\ LedgerTarget(e) = "failed"
            /\ e.type # "completion.recorded"
         \/ /\ OrchTarget(e) = "cancelled" /\ LedgerTarget(e) = "cancelled"
            /\ e.type # "completion.recorded"
BY EventFields DEF EventTypes, StatusesOf, OrchTarget, LedgerTarget, OrchOpen, LedgerOpen,
     OrchStates, LedgerStates

LEMMA CreationMoves ==
  ASSUME NEW e \in Events, e.type = "task.created"
  PROVE  OrchTarget(e) = "created" /\ LedgerTarget(e) = "created" /\ Says(e) = "unmoved"
BY DEF OrchTarget, LedgerTarget, Says

\* What the ledger moves to on an event is what the event says of the task.
LEMMA VerdictMoves ==
  ASSUME NEW e \in Events, e.type = "verification.completed" => e.status # "unset"
  PROVE  /\ Says(e) \in {"unmoved", "passed", "needs_review", "failed", "signed"}
         /\ LedgerTarget(e) = "verified" => Says(e) \in {"passed", "signed"}
         /\ LedgerTarget(e) = "needs_review" => Says(e) = "needs_review"
         /\ LedgerTarget(e) \in {"completed", "unmoved"} => Says(e) = "unmoved"
BY EventFields DEF EventTypes, StatusesOf, LedgerTarget, Says
-----------------------------------------------------------------------------
\* What OutcomeOf makes of each kind of state.
LEMMA OutcomeOfStates ==
  /\ OutcomeOf("absent") = "absent" /\ OutcomeOf("complete") = "completed"
  /\ OutcomeOf("completed") = "completed"
  /\ OutcomeOf("failed") = "failed" /\ OutcomeOf("cancelled") = "cancelled"
  /\ \A s \in OrchOpen \cup LedgerOpen : OutcomeOf(s) = "open"
BY DEF OutcomeOf, OrchOpen, LedgerOpen, OrchStates, LedgerStates

\* While the readings agree, either both are absent, or both open, or both ended
\* the same way.
LEMMA AgreedStates ==
  ASSUME StatesOK, ReadingsAgree
  PROVE  \/ orch = "absent" /\ replayed = "absent" /\ OutcomeOf(orch) = "absent"
         \/ orch \in OrchOpen /\ replayed \in LedgerOpen /\ OutcomeOf(orch) = "open"
         \/ orch = "complete" /\ replayed = "completed" /\ OutcomeOf(orch) = "completed"
         \/ orch = "failed" /\ replayed = "failed" /\ OutcomeOf(orch) = "failed"
         \/ orch = "cancelled" /\ replayed = "cancelled" /\ OutcomeOf(orch) = "cancelled"
BY OutcomeOfStates DEF StatesOK, ReadingsAgree, OrchOpen, LedgerOpen, OrchStates, LedgerStates

\* A task that has ended takes no event that moves either reading, but for a
\* request for review.
LEMMA EndedStays ==
  ASSUME Readings, replayed \in Ended, NEW e \in Events, e.type # "human.review.required",
         Append(e)
  PROVE  orch' = orch /\ replayed' = replayed /\ verdict' = verdict
<1>1. e.type \in {"artifact.previewed", "artifact.downloaded"}
  BY DEF Append, Accepts, TakenAfterTheEnd
<1>2. OrchTarget(e) = "unmoved" /\ LedgerTarget(e) = "unmoved" /\ Says(e) = "unmoved"
  BY <1>1 DEF OrchTarget, LedgerTarget, Says
<1> QED
  BY <1>2 DEF Append, Moved

\* A request for review opens it again, in both readings.
LEMMA ReviewMoves ==
  ASSUME NEW e \in Events, e.type = "human.review.required", Append(e)
  PROVE  /\ orch' = "awaiting_review"
         /\ replayed' = "needs_review"
         /\ verdict' = "needs_review"
         /\ replayed # "absent"
<1>1. /\ OrchTarget(e) = "awaiting_review"
      /\ LedgerTarget(e) = "needs_review"
      /\ Says(e) = "needs_review"
  BY DEF OrchTarget, LedgerTarget, Says
<1> QED
  BY <1>1 DEF Append, Accepts, Moved

\* An append to an open task: the states it may lead to.
LEMMA OpenMoves ==
  ASSUME Readings, orch \in OrchOpen, replayed \in LedgerOpen, NEW e \in Events, Append(e)
  PROVE  \/ orch' \in OrchOpen /\ replayed' \in LedgerOpen
         \/ orch' = "complete" /\ replayed' = "completed" /\ replayed \in Completable
         \/ orch' = "failed" /\ replayed' = "failed"
         \/ orch' = "cancelled" /\ replayed' = "cancelled"
<1>1. /\ orch' = Moved(orch, OrchTarget(e))
      /\ replayed' = Moved(replayed, LedgerTarget(e))
      /\ e.type = "completion.recorded" => replayed \in Completable
  BY DEF Append, Accepts
<1> QED
  BY <1>1, TargetsAgree DEF Moved

\* The creation of a task is the only append to an absent one.
LEMMA AbsentMoves ==
  ASSUME Readings, replayed = "absent", NEW e \in Events, Append(e)
  PROVE  orch' = "created" /\ replayed' = "created" /\ verdict' = verdict
<1>1. e.type = "task.created"
  BY DEF Append, Accepts
<1> QED
  BY <1>1, CreationMoves DEF Append, Moved

\* The induction step of the readings: whichever component appends.
LEMMA AppendKeeps ==
  ASSUME Readings, NEW e \in Events, Append(e)
  PROVE  Readings'
<1>1. CASE replayed \in Ended
  <2>1. CASE e.type = "human.review.required"
    BY <2>1, ReviewMoves, OutcomeOfStates
       DEF Readings, StatesOK, ReadingsAgree, VerdictBehindState, OrchOpen, LedgerOpen,
           OrchStates, LedgerStates
  <2>2. CASE e.type # "human.review.required"
    BY <1>1, <2>2, EndedStays DEF Readings, StatesOK, ReadingsAgree, VerdictBehindState
  <2> QED
    BY <2>1, <2>2
<1>2. CASE replayed = "absent"
  BY <1>2, AbsentMoves, OutcomeOfStates
     DEF Readings, StatesOK, ReadingsAgree, VerdictBehindState, OrchOpen, LedgerOpen,
         OrchStates, LedgerStates
<1>3. CASE orch \in OrchOpen /\ replayed \in LedgerOpen
  <2>1. StatesOK' /\ ReadingsAgree'
    <3>1. verdict' = Moved(verdict, Says(e))
      BY DEF Append
    <3>2. e.type = "verification.completed" => e.status # "unset"
      BY DEF Append, Accepts
    <3>3. verdict' \in {"none", "passed", "needs_review", "failed", "signed"}
      BY <3>1, <3>2, VerdictMoves DEF Moved, Readings, StatesOK
    <3> QED
      BY <1>3, <3>3, OpenMoves, OutcomeOfStates
         DEF StatesOK, ReadingsAgree, OrchOpen, LedgerOpen, OrchStates, LedgerStates
  <2>2. VerdictBehindState'
    <3>1. /\ replayed' = Moved(replayed, LedgerTarget(e))
          /\ verdict' = Moved(verdict, Says(e))
          /\ e.type = "verification.completed" => e.status # "unset"
      BY DEF Append, Accepts
    <3>2. LedgerTarget(e) = "completed" => replayed \in Completable
      BY TargetsAgree DEF Append, Accepts, LedgerOpen
    <3>3. VerdictBehindState
      BY DEF Readings
    <3>4. CASE LedgerTarget(e) = "unmoved"
      BY <3>1, <3>3, <3>4, VerdictMoves DEF Moved, VerdictBehindState
    <3>5. CASE LedgerTarget(e) = "completed"
      BY <3>1, <3>2, <3>3, <3>5, VerdictMoves DEF Moved, VerdictBehindState, Completable
    <3>6. CASE LedgerTarget(e) \notin {"unmoved", "completed"}
      BY <3>1, <3>6, VerdictMoves DEF Moved, VerdictBehindState
    <3> QED
      BY <3>4, <3>5, <3>6
  <2> QED
    BY <2>1, <2>2 DEF Readings
<1> QED
  BY <1>1, <1>2, <1>3, AgreedStates DEF Readings, Ended, StatesOK
-----------------------------------------------------------------------------
\* What every step is, for the readings and for the requests for review: nothing,
\* and then a review comes under way only while the task is open; or an append to
\* the ledger, and then a review that is recorded was under way.
StaysAs ==
  /\ UNCHANGED <<orch, replayed, verdict>>
  /\ ReviewIsUnderWay' => ReviewIsUnderWay \/ orch \in OrchOpen

Appended(e) ==
  /\ Append(e)
  /\ IF e.type = "human.review.required" THEN ReviewIsUnderWay
     ELSE ReviewIsUnderWay' = ReviewIsUnderWay

LEMMA StepIsAppend ==
  ASSUME IInv, [Next]_vars
  PROVE  StaysAs \/ \E e \in Events : Appended(e)
<1> DEFINE Good == StaysAs \/ \E e \in Events : Appended(e)
<1> SUFFICES Good
  OBVIOUS
<1>0. checked' = checked => ReviewIsUnderWay' = ReviewIsUnderWay
  BY DEF ReviewIsUnderWay
<1>1. CASE CreateTask
  <2>1. Event("task.created") \in Events /\ Event("task.created").type = "task.created"
    BY PlainEvents DEF EventTypes
  <2> QED
    BY <1>0, <1>1, <2>1 DEF CreateTask, Appended
<1>2. CASE \E c \in Callers, e \in Events : CheckTransition(c, e)
  <2>1. PICK c \in Callers, e \in Events : CheckTransition(c, e)
    BY <1>2
  <2>2. CASE e.type = "human.review.required"
    BY <2>1, <2>2 DEF CheckTransition, Allowed, OrchOpen, OrchStates, StaysAs
  <2>3. CASE e.type # "human.review.required"
    <3>1. \A d \in Callers : checked'[d] = IF d = c THEN e ELSE checked[d]
      BY <2>1 DEF CheckTransition, IInv, CallsOK
    <3>2. ReviewIsUnderWay' => ReviewIsUnderWay
      BY <2>3, <3>1 DEF ReviewIsUnderWay
    <3> QED
      BY <2>1, <3>2 DEF CheckTransition, StaysAs
  <2> QED
    BY <2>2, <2>3
<1>3. CASE \E c \in Callers : CommitTransition(c)
  <2>1. PICK c \in Callers : CommitTransition(c)
    BY <1>3
  <2>2. checked[c] \in Events
    BY <2>1 DEF CommitTransition, IInv, CallsOK
  <2>3. \A d \in Callers : checked'[d] = IF d = c THEN Nothing ELSE checked[d]
    BY <2>1 DEF CommitTransition, IInv, CallsOK
  <2>4. CASE checked[c].type = "human.review.required"
    BY <2>1, <2>2, <2>4 DEF CommitTransition, Appended, ReviewIsUnderWay
  <2>5. CASE checked[c].type # "human.review.required"
    <3>1. ReviewIsUnderWay' = ReviewIsUnderWay
      BY <2>3, <2>5 DEF ReviewIsUnderWay, Nothing
    <3> QED
      BY <2>1, <2>2, <2>5, <3>1 DEF CommitTransition, Appended
  <2> QED
    BY <2>4, <2>5
<1>4. CASE \E c \in Callers : TransitionFails(c)
  <2>1. PICK c \in Callers : TransitionFails(c)
    BY <1>4
  <2>2. \A d \in Callers : checked'[d] = IF d = c THEN Nothing ELSE checked[d]
    BY <2>1 DEF TransitionFails, IInv, CallsOK
  <2>3. ReviewIsUnderWay' => ReviewIsUnderWay
    BY <2>2 DEF ReviewIsUnderWay, Nothing
  <2> QED
    BY <2>1, <2>3 DEF TransitionFails, StaysAs
<1>5. CASE \E e \in Events : AuditEvent(e)
  <2>1. PICK e \in Events : AuditEvent(e)
    BY <1>5
  <2>2. e.type # "human.review.required"
    BY <2>1 DEF AuditEvent, Allowed
  <2> QED
    BY <1>0, <2>1, <2>2 DEF AuditEvent, Appended
<1>6. CASE \E e \in Events : DirectAppend(e)
  <2>1. PICK e \in Events : DirectAppend(e)
    BY <1>6
  <2>2. e.type # "human.review.required"
    BY <2>1, SourceAssumption
       DEF DirectAppend, Appends, HandoffEvents, VerificationEvents, AutonomyEvents, ToolEvents,
           FileEvents, DeliveryEvents, AccessEvents, KnowledgeEvents
  <2> QED
    BY <1>0, <2>1, <2>2 DEF DirectAppend, Appended
<1>7. CASE StepRequested
  <2>1. CASE UNCHANGED <<orch, replayed, verdict>>
    BY <1>0, <1>7, <2>1 DEF StepRequested, StaysAs
  <2>2. CASE Append(Event(RequestOf[step.kind]))
    <3>1. step.kind \in DOMAIN RequestOf
      BY <1>7, StepAssumption DEF StepRequested, IInv, CallsOK, StepCalls, Idle
    <3>2. /\ Event(RequestOf[step.kind]) \in Events
          /\ Event(RequestOf[step.kind]).type # "human.review.required"
      BY <3>1, PlainEvents DEF RequestOf, EventTypes
    <3> QED
      BY <1>0, <1>7, <2>2, <3>2 DEF StepRequested, Appended
  <2> QED
    BY <1>7, <2>1, <2>2 DEF StepRequested
<1>8. CASE AttemptReturns
  <2>1. PICK e \in Events :
          /\ e.type = IF step.kind = "verification" THEN "verification.completed" ELSE "observation"
          /\ Append(e)
    BY <1>8 DEF AttemptReturns
  <2> QED
    BY <1>0, <1>8, <2>1 DEF AttemptReturns, Appended
<1>9. CASE AttemptFails
  <2>1. Event("observation") \in Events /\ Event("observation").type = "observation"
    BY PlainEvents DEF EventTypes
  <2> QED
    BY <1>0, <1>9, <2>1 DEF AttemptFails, Appended
<1>10. CASE StepFailsTask
  <2>1. Event("task.failed") \in Events /\ Event("task.failed").type = "task.failed"
    BY PlainEvents DEF EventTypes
  <2> QED
    BY <1>0, <1>10, <2>1 DEF StepFailsTask, Appended
<1>11. CASE \/ \E s \in Steps, k \in Kinds : StepBegins(s, k)
            \/ StepGivesUp \/ StepRaises \/ UNCHANGED vars
  BY <1>0, <1>11 DEF StepBegins, StepGivesUp, StepRaises, vars, StaysAs
<1> QED
  BY <1>1, <1>2, <1>3, <1>4, <1>5, <1>6, <1>7, <1>8, <1>9, <1>10, <1>11 DEF Next

LEMMA ReadingsKept ==
  ASSUME IInv, [Next]_vars
  PROVE  Readings'
<1>1. CASE StaysAs
  BY <1>1 DEF StaysAs, IInv, Readings, StatesOK, ReadingsAgree, VerdictBehindState
<1>2. CASE \E e \in Events : Appended(e)
  BY <1>2, AppendKeeps DEF IInv, Appended
<1> QED
  BY <1>1, <1>2, StepIsAppend

\* The transitions under way and the calls and keys of execute_step stay within
\* their types.
LEMMA CallsKept ==
  ASSUME IInv, [Next]_vars
  PROVE  CallsOK'
<1> USE StepAssumption DEF CallsOK
<1>0. CallsOK
  BY DEF IInv
<1>1. Idle \in StepCalls
  BY DEF StepCalls
<1>2. \A s \in Steps, k \in Kinds :
        [phase |-> "requesting", id |-> s, kind |-> k, attempt |-> 1] \in StepCalls
  BY DEF StepCalls
<1>3. ASSUME step # Idle
      PROVE  /\ step.id \in Steps /\ step.kind \in Kinds /\ step.attempt \in 1 .. MaxAttempts
             /\ \A p \in {"attempting", "exhausted", "failing"} :
                  [step EXCEPT !.phase = p] \in StepCalls
             /\ step.attempt # MaxAttempts => [step EXCEPT !.attempt = @ + 1] \in StepCalls
  BY <1>0, <1>3 DEF StepCalls
<1>4. \A p \in {"requesting", "attempting", "exhausted", "failing"} :
        step.phase = p => step # Idle
  BY DEF Idle
<1>5. CASE \E s \in Steps, k \in Kinds : StepBegins(s, k)
  BY <1>0, <1>2, <1>5 DEF StepBegins
<1>6. CASE StepRequested
  BY <1>0, <1>1, <1>3, <1>4, <1>6 DEF StepRequested, Key, Keys
<1>7. CASE AttemptReturns
  BY <1>0, <1>1, <1>3, <1>4, <1>7 DEF AttemptReturns, Key, Keys
<1>8. CASE AttemptFails
  BY <1>0, <1>3, <1>4, <1>8 DEF AttemptFails, Key, Keys
<1>9. CASE StepGivesUp
  BY <1>0, <1>3, <1>4, <1>9 DEF StepGivesUp
<1>10. CASE StepFailsTask \/ StepRaises
  BY <1>0, <1>1, <1>10 DEF StepFailsTask, StepRaises
<1>11. CASE \E c \in Callers, e \in Events : CheckTransition(c, e)
  BY <1>0, <1>11 DEF CheckTransition
<1>12. CASE \E c \in Callers : CommitTransition(c) \/ TransitionFails(c)
  BY <1>0, <1>12 DEF CommitTransition, TransitionFails
<1>13. CASE CreateTask \/ UNCHANGED vars \/ \E e \in Events : AuditEvent(e) \/ DirectAppend(e)
  BY <1>0, <1>13 DEF CreateTask, AuditEvent, DirectAppend, vars
<1> QED
  BY <1>5, <1>6, <1>7, <1>8, <1>9, <1>10, <1>11, <1>12, <1>13 DEF Next

LEMMA InitIInv == Init => IInv
BY OutcomeOfStates
   DEF Init, IInv, Readings, StatesOK, CallsOK, ReadingsAgree, VerdictBehindState, OrchStates,
       LedgerStates, StepCalls

LEMMA NextIInv == IInv /\ [Next]_vars => IInv'
BY ReadingsKept, CallsKept DEF IInv

LEMMA AlwaysIInv == Spec => []IInv
BY InitIInv, NextIInv, PTL DEF Spec
-----------------------------------------------------------------------------
\* Every reachable state is well typed, whatever is appended by whom.
THEOREM TypeCorrect == Spec => []TypeOK
<1>1. IInv => TypeOK
  BY DEF IInv, Readings, StatesOK, CallsOK, TypeOK
<1> QED
  BY <1>1, AlwaysIInv, PTL

\* The orchestrator's reading of the ledger and the ledger's own agree at all
\* times on whether the task has ended and how.
THEOREM ReadingsAlwaysAgree == Spec => []ReadingsAgree
<1>1. IInv => ReadingsAgree
  BY DEF IInv, Readings
<1> QED
  BY <1>1, AlwaysIInv, PTL

\* No order of appends completes a task that was never judged, or whose last
\* judgement was a failure.
THEOREM CompletionAlwaysFollowsAVerdict == Spec => []CompletionFollowsAVerdict
<1>1. IInv => CompletionFollowsAVerdict
  BY AgreedStates DEF IInv, Readings, VerdictBehindState, CompletionFollowsAVerdict, OrchOpen
<1> QED
  BY <1>1, AlwaysIInv, PTL
-----------------------------------------------------------------------------
\* A step of the life cycle is a step of the promise or a stutter of it.
LEMMA StepKeepsPromise ==
  IInv /\ [Next]_vars
    => [Promise!Next]_<<OutcomeOf(orch), StandingOf(replayed), ReviewIsUnderWay>>
<1> DEFINE Kept == [Promise!Next]_<<OutcomeOf(orch), StandingOf(replayed), ReviewIsUnderWay>>
<1> SUFFICES ASSUME IInv, [Next]_vars PROVE Kept
  OBVIOUS
<1>1. Readings
  BY DEF IInv
<1>2. ReviewIsUnderWay \in BOOLEAN /\ ReviewIsUnderWay' \in BOOLEAN
  BY DEF ReviewIsUnderWay
<1>3. CASE StaysAs
  <2>1. /\ OutcomeOf(orch)' = OutcomeOf(orch)
        /\ StandingOf(replayed)' = StandingOf(replayed)
    BY <1>3 DEF StaysAs, OutcomeOf, StandingOf
  <2>2. CASE ReviewIsUnderWay' = FALSE
    BY <2>1, <2>2 DEF Promise!Next, Promise!GiveUpAsking
  <2>3. CASE ReviewIsUnderWay' = TRUE /\ ReviewIsUnderWay = TRUE
    BY <2>1, <2>3
  <2>4. CASE ReviewIsUnderWay' = TRUE /\ orch \in OrchOpen
    <3>1. OutcomeOf(orch) = "open"
      BY <2>4, OutcomeOfStates
    <3> QED
      BY <2>1, <2>4, <3>1 DEF Promise!Next, Promise!AskForReview
  <2> QED
    BY <1>2, <1>3, <2>2, <2>3, <2>4 DEF StaysAs
<1>4. ASSUME NEW e \in Events, Appended(e)
      PROVE  Kept
  <2>0. Append(e)
    BY <1>4 DEF Appended
  <2>1. CASE e.type = "human.review.required"
    <3>1. /\ OutcomeOf(orch)' = "open" /\ StandingOf(replayed)' = "review"
          /\ replayed # "absent"
      BY <2>0, <2>1, ReviewMoves DEF OutcomeOf, StandingOf
    <3>2. ReviewIsUnderWay = TRUE
      BY <1>2, <1>4, <2>1 DEF Appended
    <3>3. OutcomeOf(orch) = "open" \/ OutcomeOf(orch) \in {"completed", "failed", "cancelled"}
      BY <1>1, <3>1, AgreedStates DEF Readings
    <3>4. CASE OutcomeOf(orch) = "open"
      BY <1>2, <3>1, <3>2, <3>4 DEF Promise!Next, Promise!Judge, Promise!Judgements
    <3>5. CASE OutcomeOf(orch) \in {"completed", "failed", "cancelled"}
      BY <1>2, <3>1, <3>2, <3>5 DEF Promise!Next, Promise!ReviewReopens, Promise!Endings
    <3> QED
      BY <3>3, <3>4, <3>5
  <2>2. CASE e.type # "human.review.required"
    <3>0. ReviewIsUnderWay' = ReviewIsUnderWay
      BY <1>4, <2>2 DEF Appended
    <3>1. CASE replayed \in Ended
      BY <1>1, <2>0, <2>2, <3>0, <3>1, EndedStays DEF OutcomeOf, StandingOf
    <3>2. CASE replayed = "absent"
      <4>1. orch = "absent" /\ orch' = "created" /\ replayed' = "created"
        BY <1>1, <2>0, <3>2, AbsentMoves, AgreedStates DEF Readings, LedgerOpen
      <4> QED
        BY <3>0, <3>2, <4>1 DEF Promise!Next, Promise!Create, OutcomeOf, StandingOf
    <3>3. CASE orch \in OrchOpen /\ replayed \in LedgerOpen
      BY <1>1, <2>0, <3>0, <3>3, OpenMoves
         DEF Promise!Next, Promise!Judge, Promise!Complete, Promise!Stop, Promise!Judgements,
             OrchOpen, LedgerOpen, OrchStates, LedgerStates, Completable, OutcomeOf, StandingOf
    <3> QED
      BY <1>1, <3>1, <3>2, <3>3, AgreedStates DEF Readings, Ended
  <2> QED
    BY <2>1, <2>2
<1> QED
  BY <1>3, <1>4, StepIsAppend

\* The life cycle, with its tables, its direct appends and its retries, implements
\* TaskOutcome: the ending of a task is earned by a judgement, and is final but for
\* a request for review that was under way.
THEOREM LifecycleKeepsPromise == Spec => KeepsPromise
<1>1. Init => Promise!Init
  BY DEF Init, Promise!Init, OutcomeOf, StandingOf, ReviewIsUnderWay, Nothing
<1>2. Spec => [][Promise!Next]_<<OutcomeOf(orch), StandingOf(replayed), ReviewIsUnderWay>>
  BY AlwaysIInv, StepKeepsPromise, PTL DEF Spec
<1> QED
  BY <1>1, <1>2, PTL DEF Spec, KeepsPromise, Promise!Spec
=============================================================================
