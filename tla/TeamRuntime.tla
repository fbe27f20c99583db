----------------------------- MODULE TeamRuntime -----------------------------
(***************************************************************************)
(* TeamRuntime.execute: one admitted team, its assignments in waves of     *)
(* worker threads, and what is committed of their results                  *)
(* (airbench/orchestration/team_runtime.py and worker_context.py).         *)
(*                                                                         *)
(* teamTask, outcomes, joins, leases and done are read back from the       *)
(* ledger and survive the process.  The rest is memory: a crash loses it,  *)
(* and the next execute() replays the worker events.  The scheduler, the   *)
(* hand-off coordinator and the orchestrator appear as the answers they    *)
(* give the runtime; they have modules of their own.                       *)
(***************************************************************************)
EXTENDS TeamPromises, FiniteSets

CONSTANTS Scheduled,   \* the assignments whose lease was granted with the plan
          Capacity,    \* 1 for a serial virtual team, else concurrency_ceiling
          MaxCrashes   \* bound on restarts

Joins == {d \in Team : Needs[d] # {}}
Feeds(a) == {d \in Joins : a \in Needs[d]}
None == "none"

ASSUME TeamAssumption ==
  /\ Order \in Seq(Team)
  /\ \A i, j \in 1..Len(Order) : Order[i] = Order[j] => i = j
  /\ Needs \in [Team -> SUBSET Team]
  /\ Scheduled \subseteq Team
  /\ Unsettled \subseteq WorkerPackets /\ None \notin WorkerPackets
  /\ Capacity \in Nat \ {0} /\ MaxCrashes \in Nat

VARIABLES done,      \* whether team.execution.completed is recorded
          waves,     \* how far each member of the running wave is
          cancel,    \* the cancellation token
          passed,    \* the assignments whose deadline has passed
          crashes

lent == <<leases, unreleased>>
durable == <<teamTask, outcomes, joins, lent, done>>
clock == <<cancel, passed, crashes>>
vars == <<durable, at, waves, thread, clock>>

Pending == {a \in Team : outcomes[a] = None}
Completed == {a \in Team : outcomes[a] = "completed"}
First(S) == CHOOSE a \in S : \A i \in 1..Len(Order) :
              Order[i] \in S => \E j \in 1..i : Order[j] = a
NoWave == [a \in Team |-> None]
InWave(stages) == {a \in Team : waves[a] \in stages}

Unopened == [status |-> None, got |-> NoWave, known |-> {}]

Init ==
  /\ teamTask = "planned"
  /\ outcomes = [a \in Team |-> None]
  /\ joins = [d \in Joins |-> Unopened]
  /\ leases = [a \in Team |-> IF a \in Scheduled THEN "granted" ELSE None]
  /\ unreleased = {} /\ done = FALSE
  /\ at = "idle" /\ waves = NoWave /\ thread = {}
  /\ cancel = FALSE /\ passed = {} /\ crashes = 0
-----------------------------------------------------------------------------
(* Ways for execute() to end.                                              *)

TriedActive == {a \in Team : leases[a] = "active"}                             \* a mutant
\* _cleanup_active_leases tries each lease of the team, and passes over a
\* release that raises; the ledger takes no lease event of an ended task.
Tried == {a \in Team : leases[a] \in Held}

Stops(t) ==
  /\ teamTask' = t /\ at' = "idle" /\ waves' = NoWave
  /\ \E stuck \in SUBSET Tried :
       /\ teamTask \in Ended => stuck = Tried
       /\ leases' = [a \in Team |-> IF a \in Tried \ stuck THEN "failed" ELSE leases[a]]
       /\ unreleased' = stuck

\* A TeamRuntimeError (an interceptor's veto) leaves the task as it is.
Vetoed(t) == Stops(t)

\* _fail_team; the orchestrator refuses task.failed in other states, and then
\* the exception leaves the task where it is.
CanFail(t) == t \in {"planned", "executing", "awaiting_check"}
FailsTeam == Stops(IF CanFail(teamTask) THEN "failed" ELSE teamTask)

\* What the orchestrator's _ALLOWED says of the worker events.
MayStart == teamTask \in {"planned", "executing", "awaiting_check"}
MaySettle(o) ==
  teamTask \in {"executing", "awaiting_check"} \/ (o = "cancelled" /\ teamTask = "planned")
-----------------------------------------------------------------------------
(* The loop of execute().                                                  *)

\* A task in another state is refused, and its leases are cleaned up all the same.
Execute ==
  /\ at = "idle"
  /\ \/ MayStart /\ at' = "ready" /\ unreleased' = {} /\ UNCHANGED <<teamTask, leases, waves>>
     \/ Vetoed(teamTask)
  /\ UNCHANGED <<outcomes, joins, done, thread, clock>>

ReadyWhenFed(a) == Needs[a] = {} \/ joins[a].status = "completed"        \* a mutant
Ready(a) ==
  /\ Needs[a] \subseteq Completed
  /\ Needs[a] # {} => joins[a].status = "completed"
Runnable == {a \in Pending : Ready(a)}
Place(a, S) == Cardinality({b \in S : \E i, j \in 1..Len(Order) : i < j /\ Order[i] = b /\ Order[j] = a})

NextWave ==
  /\ at = "ready" /\ ~cancel /\ Runnable # {}
  /\ waves' = [a \in Team |->
                 IF a \in Runnable /\ Place(a, Runnable) < Capacity THEN "queued" ELSE None]
  /\ at' = "preparing"
  /\ UNCHANGED <<durable, thread, clock>>

NothingReady ==
  /\ at = "ready" /\ ~cancel /\ Pending # {} /\ Runnable = {}
  /\ FailsTeam
  /\ UNCHANGED <<outcomes, joins, done, thread, clock>>

\* An interceptor may veto before the completion is recorded, or after it.
TeamCompletes ==
  /\ at = "ready" /\ ~cancel /\ Pending = {}
  /\ \/ done' = TRUE /\ at' = "idle" /\ UNCHANGED <<teamTask, lent, waves>>
     \/ done' \in {done, TRUE} /\ Vetoed(teamTask)
  /\ UNCHANGED <<outcomes, joins, thread, clock>>

\* _cancel_pending: one worker.cancelled after the other.
CancelPending ==
  LET a == First(Pending) IN
  /\ at = "ready" /\ cancel /\ Pending # {}
  /\ IF MaySettle("cancelled")
     THEN /\ outcomes' = [outcomes EXCEPT ![a] = "cancelled"]
          /\ UNCHANGED <<teamTask, lent, at, waves>>
     ELSE FailsTeam /\ UNCHANGED outcomes
  /\ UNCHANGED <<joins, done, thread, clock>>

FinishesCancelled == Stops("cancelled") \/ Vetoed(teamTask)

FinishCancelled ==
  /\ at = "ready" /\ cancel /\ Pending = {}
  /\ FinishesCancelled
  /\ UNCHANGED <<outcomes, joins, done, thread, clock>>
-----------------------------------------------------------------------------
(* _run_batch: prepare the members one by one, run them, and wait.         *)

\* The worker's lease, or a new one: a lease that has ended is not granted again.
LeaseFor(a) == leases[a] \in Held \union {None}

StartWorker ==
  LET a == First(InWave({"queued"})) IN
  /\ at = "preparing" /\ InWave({"queued"}) # {}
  /\ \/ /\ LeaseFor(a) /\ MayStart
        /\ leases' = [leases EXCEPT ![a] = "active"]
        /\ teamTask' = "executing"
        /\ waves' = [waves EXCEPT ![a] = "started"]
        /\ UNCHANGED <<at, unreleased>>
     \/ leases[a] \notin {"active"} /\ FailsTeam
     \/ Vetoed(teamTask)
  /\ UNCHANGED <<outcomes, joins, done, thread, clock>>

\* create_worker_context refuses a deadline that has passed; the barriers of
\* the destinations are opened.
EquipWorker ==
  LET a == First(InWave({"started"}))
      new == {d \in Feeds(a) : joins[d].status = None}
      opened == IF new = {} THEN teamTask ELSE "awaiting_check"
  IN
  /\ at = "preparing" /\ InWave({"started"}) # {}
  /\ \/ /\ a \notin passed
        /\ joins' = [d \in Joins |->
                       IF d \in new THEN [joins[d] EXCEPT !.status = "waiting"] ELSE joins[d]]
        /\ \/ /\ teamTask' = opened
              /\ waves' = [waves EXCEPT ![a] = "prepared"]
              /\ UNCHANGED <<lent, at>>
           \/ Vetoed(opened)
     \/ /\ a \in passed /\ FailsTeam
        /\ UNCHANGED joins
     \/ Vetoed(teamTask) /\ UNCHANGED joins
  /\ UNCHANGED <<outcomes, done, thread, clock>>

Launch ==
  /\ at = "preparing" /\ InWave({"queued", "started"}) = {}
  /\ thread' = thread \union InWave({"prepared"})
  /\ waves' = [a \in Team |-> IF waves[a] = "prepared" THEN "running" ELSE waves[a]]
  /\ at' = "waiting"
  /\ UNCHANGED <<durable, clock>>

\* A worker's thread ends. Its result counts while the runtime waits for it;
\* _call_worker drops it when the token is set.
WorkerEnds(a) ==
  /\ a \in thread
  /\ thread' = thread \ {a}
  /\ \/ /\ at = "waiting" /\ waves[a] = "running"
        /\ waves' \in {[waves EXCEPT ![a] = s] :
                         s \in {"raised"} \union (IF cancel THEN {} ELSE {"returned"})}
     \/ /\ ~(at = "waiting" /\ waves[a] = "running")
        /\ UNCHANGED waves
  /\ UNCHANGED <<durable, at, clock>>

WaitsForAll == InWave({"running"}) = {}                                      \* a mutant
\* wait() returns with the last result or with the first deadline of the wave.
WaitIsOver == InWave({"running"}) = {} \/ \E a \in passed : waves[a] # None

WaitEnds ==
  /\ at = "waiting" /\ WaitIsOver
  /\ at' = "committing"
  /\ waves' = [a \in Team |->
       CASE waves[a] = "running" -> "timeout"
         [] waves[a] = "raised" /\ cancel -> "cancelled"
         [] OTHER -> waves[a]]
  /\ UNCHANGED <<durable, thread, clock>>
-----------------------------------------------------------------------------
(* _commit_outcome, in the order of the assignments.                       *)

Member == First({a \in Team : waves[a] # None})

Settles(a, o) ==
  IF MaySettle(o)
  THEN /\ outcomes' = [outcomes EXCEPT ![a] = o]
       /\ at' = "releasing"
       /\ UNCHANGED <<teamTask, lent, waves>>
  ELSE FailsTeam /\ UNCHANGED outcomes

CommitCancelled ==
  LET a == Member IN
  /\ at = "committing"
  /\ waves[a] = "cancelled" \/ (waves[a] = "raised" /\ cancel)
  /\ Settles(a, "cancelled")
  /\ UNCHANGED <<joins, done, thread, clock>>

\* No result in time, an exception, a result with another identity or status, or
\* hand-offs that were not all accepted.
CommitFailed ==
  LET a == Member IN
  /\ at = "committing"
  /\ waves[a] \in {"timeout", "returned", "refused"} \/ (waves[a] = "raised" /\ ~cancel)
  /\ Settles(a, "failed")
  /\ UNCHANGED <<joins, done, thread, clock>>

\* HandoffCoordinator.submit_handoff, as far as the runtime tells answers apart.
Answer(a, d, p) ==
  LET b == joins[d] IN
  IF p = None THEN "duplicate"
  ELSE IF leases[a] \notin Held THEN "rejected"
  ELSE IF <<a, p>> \in b.known THEN "duplicate"
  ELSE IF d \in passed THEN "late"
  ELSE IF b.status # "waiting" THEN "rejected"
  ELSE IF b.got[a] = None THEN "accepted"
  ELSE "conflicting"

\* _barrier_after_accept
IsJoined(b, d, got) == \A s \in Needs[d] : got[s] # None /\ got[s] \notin Unsettled

After(a, d, p) ==
  LET b == joins[d]
      got == [b.got EXCEPT ![a] = p]
      heard == b.known \union {<<a, p>>}
      answer == Answer(a, d, p)
  IN
  CASE answer = "accepted" -> [status |-> IF IsJoined(b, d, got) THEN "completed" ELSE "waiting",
                               got |-> got, known |-> heard]
    [] answer = "conflicting" -> [b EXCEPT !.status = "conflicting", !.known = heard]
    [] answer = "late" -> [b EXCEPT !.known = heard]
    [] OTHER -> b

\* The task's state after the last event of those that were appended.
TaskAfter(a, sent) ==
  {CASE Answer(a, d, sent[d]) = "conflicting" -> "needs_review"
     [] After(a, d, sent[d]).status = "completed" -> "executing"
     [] OTHER -> "awaiting_check" : d \in {e \in Feeds(a) : Answer(a, e, sent[e]) \in {"accepted", "conflicting"}}}

SubmitHandoffs ==
  LET a == Member IN
  /\ at = "committing" /\ waves[a] = "returned"
  /\ \E sent \in [Feeds(a) -> WorkerPackets \union {None}] :
       /\ joins' = [d \in Joins |-> IF d \in Feeds(a) THEN After(a, d, sent[d]) ELSE joins[d]]
       /\ teamTask' \in IF TaskAfter(a, sent) = {} THEN {teamTask} ELSE TaskAfter(a, sent)
       /\ \E s \in {"submitted", "refused"} :
            /\ s = "submitted" => \A d \in Feeds(a) : Answer(a, d, sent[d]) \in {"accepted", "duplicate"}
            /\ waves' = [waves EXCEPT ![a] = s]
  /\ UNCHANGED <<outcomes, lent, done, at, thread, clock>>

CommitCompleted ==
  LET a == Member IN
  /\ at = "committing" /\ waves[a] = "submitted"
  /\ Settles(a, "completed")
  /\ UNCHANGED <<joins, done, thread, clock>>

EndOf(o) == CASE o = "completed" -> "released" [] o = "failed" -> "failed" [] OTHER -> "cancelled"

\* _release, and what execute() does with the record. The scheduler refuses to
\* end a lease twice.
ReleaseLease ==
  LET a == Member
      rest == [waves EXCEPT ![a] = None]
  IN
  /\ at = "releasing"
  /\ IF leases[a] \in Held
     THEN CASE outcomes[a] = "completed" ->
                 /\ leases' = [leases EXCEPT ![a] = EndOf(outcomes[a])]
                 /\ waves' = rest
                 /\ at' = IF rest = NoWave THEN "ready" ELSE "committing"
                 /\ UNCHANGED <<teamTask, unreleased>>
            [] outcomes[a] = "failed" -> FailsTeam
            [] outcomes[a] = "cancelled" -> FinishesCancelled
     ELSE FailsTeam
  /\ UNCHANGED <<outcomes, joins, done, thread, clock>>

\* An append raises, a lease's release among them: execute() cleans up and fails
\* the team, unless that append raises too.
StorageFails ==
  /\ at \notin {"idle", "waiting"}
  /\ FailsTeam \/ Vetoed(teamTask)
  /\ UNCHANGED <<outcomes, joins, done, thread, clock>>
-----------------------------------------------------------------------------
(* The host, the clock, the scheduler and the process.                     *)

RequestCancel ==
  /\ ~cancel /\ cancel' = TRUE
  /\ UNCHANGED <<durable, at, waves, thread, passed, crashes>>

DeadlinePasses(a) ==
  /\ a \notin passed /\ passed' = passed \union {a}
  /\ UNCHANGED <<durable, at, waves, thread, cancel, crashes>>

\* expire_leases, called while another team is granted one.
LeaseExpires(a) ==
  /\ a \in passed /\ leases[a] \in Held /\ teamTask \notin Ended
  /\ leases' = [leases EXCEPT ![a] = "expired"]
  /\ UNCHANGED <<teamTask, outcomes, joins, unreleased, done, at, waves, thread, clock>>

Crash ==
  /\ crashes < MaxCrashes /\ at # "idle"
  /\ crashes' = crashes + 1
  /\ at' = "idle" /\ waves' = NoWave /\ thread' = {} /\ cancel' = FALSE
  /\ UNCHANGED <<durable, passed>>

RuntimeSteps ==
  \/ NextWave \/ NothingReady \/ TeamCompletes \/ CancelPending \/ FinishCancelled
  \/ StartWorker \/ EquipWorker \/ Launch \/ WaitEnds
  \/ CommitCancelled \/ CommitFailed \/ SubmitHandoffs \/ CommitCompleted \/ ReleaseLease

Next ==
  \/ Execute \/ RuntimeSteps \/ StorageFails \/ RequestCancel \/ Crash
  \/ \E a \in Team : WorkerEnds(a) \/ DeadlinePasses(a) \/ LeaseExpires(a)

Spec == Init /\ [][Next]_vars

\* execute() goes on while it can and the clock advances; no worker has to end.
FairSpec == Spec /\ WF_vars(RuntimeSteps) /\ \A a \in Team : WF_vars(DeadlinePasses(a))
-----------------------------------------------------------------------------
(* Properties, beside those of TeamPromises.                               *)

\* An execution returns, though a worker's thread may never do so.
ExecutionReturns == at # "idle" ~> at = "idle"
=============================================================================
