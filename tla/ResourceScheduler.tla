-------------------------- MODULE ResourceScheduler --------------------------
(***************************************************************************)
(* ResourceScheduler of src/src/contracts/execution/scheduler.py: admission *)
(* of virtual teams, the queue, and the worker leases, over the durable     *)
(* ledger it commits every decision to and is rebuilt from.                 *)
(*                                                                         *)
(* The ledger is kept as its fold: what reconcile() would read back.  The   *)
(* scheduler's own dictionaries are separate variables, lost at a restart.  *)
(* One step is one ledger append together with the memory updates that      *)
(* follow it; a call that makes several appends (drain_queue, cancel_team,  *)
(* expire_leases, grant_worker_lease) is a sequence of such steps, during   *)
(* which the scheduler accepts no other call, but which a crash or a failed *)
(* append may cut short.                                                    *)
(***************************************************************************)
EXTENDS Integers, FiniteSets, Functions, FiniteSums

CONSTANTS
  Teams,            \* team identities
  Workers,          \* worker identities
  Tasks,            \* task identities
  Dimensions,       \* the measured RESOURCE_DIMENSIONS the model keeps
  Gpus,             \* GPU indices, each with a VRAM capacity of its own
  Request,          \* the AdmissionRequest every team submits
  Measurements,     \* the capacities a node may measure when it starts
  MaxVersion,       \* bound: plan versions run over 1..MaxVersion
  CallOps,          \* bound: the calls of several appends that are made
  CancelledTeams,   \* bound: the teams that cancel_team is called for
  ExpiringTeams,    \* bound: the teams whose leases live past their deadline
  ReleaseStatuses,  \* terminal statuses a caller passes to release_lease
  ClosableTasks,    \* the tasks that may reach a terminal ledger state
  StorageMayFail    \* whether a ledger append may fail for want of storage

Versions  == 1 .. MaxVersion
Resources == Dimensions \cup Gpus

\* reservation[w][d] is an amount; gpus[w] the devices w's VRAM is spread over.
RequestType ==
  [task: Tasks, crew: SUBSET Workers, wellFormed: BOOLEAN, staged: BOOLEAN,
   mode: {"auto", "parallel", "pipelined", "serial"}, rank: Nat,
   reservation: [Workers -> [Dimensions -> Nat]], gpus: [Workers -> SUBSET Gpus]]

PlanIds  == Teams \X Versions
LeaseIds == Teams \X Versions \X Workers

ActiveStatuses   == {"granted", "active"}
TerminalStatuses == {"released", "expired", "cancelled", "revoked", "failed"}
LeaseStatuses    == {"none"} \cup ActiveStatuses \cup TerminalStatuses

\* The outcome of an admission: an execution mode, or why there is none.
Concurrent == {"parallel", "pipelined"}
Admitted   == Concurrent \cup {"serial"}
Decisions  == Admitted \cup {"queued", "stopped"}

ASSUME RequestAssumption == Request \in [Teams -> RequestType]
ASSUME FiniteAssumption ==
  /\ IsFiniteSet(Teams) /\ IsFiniteSet(Workers)
  /\ IsFiniteSet(Dimensions) /\ IsFiniteSet(Gpus)
ASSUME CapacityAssumption ==
  /\ Dimensions \cap Gpus = {}
  /\ Measurements \subseteq [Resources -> Nat] /\ Measurements # {}
ASSUME BoundsAssumption ==
  /\ MaxVersion \in Nat \ {0}
  /\ CallOps \subseteq {"expire", "grant", "cancel", "drain"}
  /\ CancelledTeams \subseteq Teams /\ ExpiringTeams \subseteq Teams
  /\ ReleaseStatuses \subseteq TerminalStatuses
  /\ ClosableTasks \subseteq Tasks
  /\ StorageMayFail \in BOOLEAN

VARIABLES
  ledgerPlan,       \* the committed decision of every plan, or "none"
  ledgerLatest,     \* the version of the team's last plan event, 0 if none
  ledgerCancelled,  \* the plans with a team.resource_plan.cancelled event
  ledgerLease,      \* the status in the last event of every lease, or "none"
  closed,           \* the tasks in a terminal ledger state
  plan,             \* self._plans
  latest,           \* self._plans_by_team, as a version
  lease,            \* self._leases and self._lease_key_index
  used,             \* self._used and self._used_gpu
  queue,            \* self._queue: the place of a waiting plan, else 0
  rebuilt,          \* the plans whose request was rebuilt from the ledger
  call,             \* the call in progress
  capacity,         \* the measurement this scheduler was built with
  overdue,          \* the leases whose expires_at has passed
  dropped           \* history: what calls took off the queue before they failed

ledger == <<ledgerPlan, ledgerLatest, ledgerCancelled, ledgerLease, closed>>
memory == <<plan, latest, lease, used, queue, rebuilt, call>>
vars   == <<ledger, memory, capacity, overdue, dropped>>
-----------------------------------------------------------------------------
TaskOf(t)   == Request[t].task
LeasesOf(p) == {<<p[1], p[2], w>> : w \in Request[p[1]].crew}
PlanOf(l)   == <<l[1], l[2]>>

Vram(l)    == IF "vram" \in Dimensions THEN Request[l[1]].reservation[l[3]]["vram"] ELSE 0
Devices(l) == Request[l[1]].gpus[l[3]]

DemandRoundedDown(l, r) ==
  IF r \in Dimensions THEN Request[l[1]].reservation[l[3]][r]
  ELSE IF r \in Devices(l) THEN Vram(l) \div Cardinality(Devices(l)) ELSE 0

\* What one lease takes of a resource.  On a GPU it is the worker's VRAM split
\* evenly over its devices and rounded up (_add_gpu_usage).
Demand(l, r) ==
  LET n == Cardinality(Devices(l))
  IN IF r \in Dimensions THEN Request[l[1]].reservation[l[3]][r]
     ELSE IF r \in Devices(l) THEN (Vram(l) + n - 1) \div n ELSE 0

Load(leases, r) == SumOver([l \in LeaseIds |-> Demand(l, r)])[leases]

FitsOneByOne(base, leases) ==
  /\ \A l \in leases, r \in Resources : base[r] + Demand(l, r) <= capacity[r]
  /\ \A l \in leases : Vram(l) > 0 => Devices(l) # {}

\* Every dimension is compared, but a GPU only when something is asked of it.  A
\* worker that needs VRAM and names no device fits nowhere.
Fits(base, leases) ==
  /\ \A r \in Resources :
       r \in Dimensions \/ Load(leases, r) > 0 => base[r] + Load(leases, r) <= capacity[r]
  /\ \A l \in leases : Vram(l) > 0 => Devices(l) # {}

Active(status) == {l \in LeaseIds : status[l] \in ActiveStatuses}

Nothing == [r \in Resources |-> 0]

\* _validate_request_shape, _build_reservations and _select_mode, of a request that
\* has its stages or has lost them.
SelectMode(p, withStages) ==
  LET request  == Request[p[1]]
      mine     == LeasesOf(p)
      staged   == request.staged /\ withStages
      together == Fits(used, mine)
      oneByOne == \A l \in mine : Fits(used, {l})
      alone    == \A l \in mine : Fits(Nothing, {l})
  IN IF ~request.wellFormed \/ mine = {} \/ (request.mode = "pipelined" /\ ~staged) THEN "stopped"
     ELSE IF together /\ staged /\ request.mode \in {"auto", "pipelined"} THEN "pipelined"
     ELSE IF together /\ request.mode # "serial" THEN "parallel"
     ELSE IF oneByOne THEN "serial"
     ELSE IF alone THEN "queued"
     ELSE "stopped"

\* self._queue, as the places 1, 2, ... of the waiting plans in the order of
\* their sequence numbers, which is all that is read of them.
Waiting(q) == {p \in PlanIds : q[p] # 0}

ClosedUp(q) ==
  [p \in PlanIds |-> Cardinality({o \in Waiting(q) : q[o] <= q[p]})]

Enqueue(q, p) == [q EXCEPT ![p] = Cardinality(Waiting(q)) + 1]
Dequeue(q, p) == ClosedUp([q EXCEPT ![p] = 0])

\* The first of a snapshot's plans in sorted(self._queue): the lowest priority
\* rank, then the lowest sequence number.
FirstArrived(plans) == CHOOSE p \in plans : \A o \in plans : queue[p] <= queue[o]

Rank(p) == Request[p[1]].rank
First(plans) ==
  CHOOSE p \in plans : \A o \in plans :
    \/ Rank(p) < Rank(o)
    \/ Rank(p) = Rank(o) /\ queue[p] <= queue[o]

NextVersion(p) == <<p[1], p[2] + 1>>

LosesItsStages(p) == FALSE

\* What a rebuilt request has lost, its retries have lost too.
KeepsItsStages(p) == p \notin rebuilt

Idle == [op |-> "none"]
Calls ==
  {Idle, [op |-> "expire"]}
    \cup [op: {"grant"}, team: Teams, worker: Workers]
    \cup [op: {"cancel"}, team: Teams]
    \cup [op: {"drain"}, rest: SUBSET PlanIds]

\* The ledger refuses scheduler events of a task in a terminal state.
Accepts(t) == TaskOf(t) \notin closed
-----------------------------------------------------------------------------
Init ==
  /\ ledgerPlan = [p \in PlanIds |-> "none"]
  /\ ledgerLatest = [t \in Teams |-> 0]
  /\ ledgerCancelled = {}
  /\ ledgerLease = [l \in LeaseIds |-> "none"]
  /\ closed = {}
  /\ plan = ledgerPlan
  /\ latest = ledgerLatest
  /\ lease = ledgerLease
  /\ used = Nothing
  /\ queue = [p \in PlanIds |-> 0]
  /\ rebuilt = {}
  /\ call = Idle
  /\ capacity \in Measurements
  /\ overdue = {}
  /\ dropped = {}

\* Commit decision d for plan p in one batch: the plan events and, for a team
\* admitted to run concurrently, the grant of every lease of the team.
Commit(p, d) ==
  LET granted == IF d \in Concurrent THEN LeasesOf(p) ELSE {}
  IN /\ ledgerPlan' = [ledgerPlan EXCEPT ![p] = d]
     /\ ledgerLatest' = [ledgerLatest EXCEPT ![p[1]] = p[2]]
     /\ ledgerLease' = [l \in LeaseIds |-> IF l \in granted THEN "granted" ELSE ledgerLease[l]]
     /\ plan' = [plan EXCEPT ![p] = d]
     /\ latest' = [latest EXCEPT ![p[1]] = p[2]]
     /\ lease' = [l \in LeaseIds |-> IF l \in granted THEN "granted" ELSE lease[l]]
     /\ used' = [r \in Resources |-> used[r] + Load(granted, r)]
     /\ UNCHANGED <<ledgerCancelled, closed, capacity, overdue, dropped>>

\* admit: a request already decided is answered from the record, which changes
\* nothing the model keeps.  Callers number a team's plans upwards from 1.
Admit(p) ==
  LET d == SelectMode(p, TRUE)
  IN /\ call = Idle
     /\ p[2] = latest[p[1]] + 1
     /\ Accepts(p[1])
     /\ Commit(p, d)
     /\ queue' = IF d = "queued" THEN Enqueue(queue, p) ELSE queue
     /\ UNCHANGED <<rebuilt, call>>

\* The usage counters once lease l is in status s.
UsedForgettingExpiry(l, s) ==
  IF s \in TerminalStatuses \ {"expired"} THEN [r \in Resources |-> used[r] - Demand(l, r)]
  ELSE used

UsedAfter(l, s) ==
  IF s \in TerminalStatuses
  THEN [r \in Resources |-> IF used[r] >= Demand(l, r) THEN used[r] - Demand(l, r) ELSE 0]
  ELSE used

\* Memory first: the lease has changed when the ledger refuses the event.
SetLeaseMemoryFirst(l, s) ==
  /\ ledgerLease' = IF Accepts(l[1]) THEN [ledgerLease EXCEPT ![l] = s] ELSE ledgerLease
  /\ lease' = [lease EXCEPT ![l] = s]
  /\ used' = UsedAfter(l, s)
  /\ UNCHANGED <<ledgerPlan, ledgerLatest, ledgerCancelled, closed, plan, latest,
                 queue, rebuilt, capacity, overdue, dropped>>

\* Append one lease event, then change the lease in memory; a lease that stops
\* being active gives back what it holds, never below zero.
SetLease(l, s) ==
  /\ Accepts(l[1])
  /\ ledgerLease' = [ledgerLease EXCEPT ![l] = s]
  /\ lease' = [lease EXCEPT ![l] = s]
  /\ used' = UsedAfter(l, s)
  /\ UNCHANGED <<ledgerPlan, ledgerLatest, ledgerCancelled, closed, plan, latest,
                 queue, rebuilt, capacity, overdue, dropped>>

ActivateLease(l) ==
  /\ call = Idle
  /\ lease[l] = "granted"
  /\ SetLease(l, "active")
  /\ UNCHANGED call

ReleaseLease(l, s) ==
  /\ call = Idle
  /\ lease[l] \in ActiveStatuses
  /\ SetLease(l, s)
  /\ UNCHANGED call
-----------------------------------------------------------------------------
\* The calls that make several appends.  CallBegins is the part before the
\* first append, and it changes nothing else.
CallBegins ==
  /\ call = Idle
  /\ \/ call' = [op |-> "expire"]
     \/ \E t \in Teams, w \in Workers : call' = [op |-> "grant", team |-> t, worker |-> w]
     \/ \E t \in CancelledTeams : latest[t] # 0 /\ call' = [op |-> "cancel", team |-> t]
     \/ /\ Waiting(queue) # {}
        /\ \A p \in Waiting(queue) : p[2] < MaxVersion
        /\ call' = [op |-> "drain", rest |-> Waiting(queue)]
  /\ call'.op \in CallOps
  /\ UNCHANGED <<ledger, plan, latest, lease, used, queue, rebuilt, capacity, overdue, dropped>>

Overdue == Active(lease) \cap overdue

\* One round of the loop of expire_leases, which a grant runs first.
ExpireStep(l) ==
  /\ call.op \in {"expire", "grant"}
  /\ l \in Overdue
  /\ SetLease(l, "expired")
  /\ UNCHANGED call

ExpireReturns ==
  /\ call.op = "expire"
  /\ Overdue = {}
  /\ call' = Idle
  /\ UNCHANGED <<ledger, plan, latest, lease, used, queue, rebuilt, capacity, overdue, dropped>>

\* The lease grant_worker_lease asks for: the worker's, under the team's last plan.
Asked == <<call.team, latest[call.team], call.worker>>

GrantableToQueued ==
  LET t == call.team
  IN /\ latest[t] # 0
     /\ plan[<<t, latest[t]>>] # "stopped"
     /\ Asked \in LeasesOf(<<t, latest[t]>>)
     /\ lease[Asked] = "none"
     /\ Fits(used, {Asked})

GrantableInParallel ==
  LET t == call.team
  IN /\ latest[t] # 0
     /\ plan[<<t, latest[t]>>] \in Admitted
     /\ Asked \in LeasesOf(<<t, latest[t]>>)
     /\ lease[Asked] = "none"
     /\ Fits(used, {Asked})

GrantableTwice ==
  LET t == call.team
      p == <<t, latest[t]>>
  IN /\ latest[t] # 0
     /\ plan[p] \in Admitted
     /\ Asked \in LeasesOf(p)
     /\ lease[Asked] \notin ActiveStatuses
     /\ plan[p] = "serial" => \A l \in Active(lease) : l[1] # t
     /\ Fits(used, {Asked})

Grantable ==
  LET t == call.team
      p == <<t, latest[t]>>
  IN /\ latest[t] # 0
     /\ plan[p] \in Admitted
     /\ Asked \in LeasesOf(p)
     /\ lease[Asked] = "none"
     /\ plan[p] = "serial" => \A l \in Active(lease) : l[1] # t
     /\ Fits(used, {Asked})

GrantWorkerLease ==
  /\ call.op = "grant"
  /\ Overdue = {}
  /\ Grantable
  /\ Accepts(call.team)
  /\ ledgerLease' = [ledgerLease EXCEPT ![Asked] = "granted"]
  /\ lease' = [lease EXCEPT ![Asked] = "granted"]
  /\ used' = [r \in Resources |-> used[r] + Demand(Asked, r)]
  /\ call' = Idle
  /\ UNCHANGED <<ledgerPlan, ledgerLatest, ledgerCancelled, closed, plan, latest,
                 queue, rebuilt, capacity, overdue, dropped>>

\* LeaseUnavailable, or the lease the worker already holds.
GrantRefused ==
  /\ call.op = "grant"
  /\ Overdue = {}
  /\ ~Grantable
  /\ call' = Idle
  /\ UNCHANGED <<ledger, plan, latest, lease, used, queue, rebuilt, capacity, overdue, dropped>>

TeamsLeases(t) == {l \in Active(lease) : l[1] = t}
WithoutTeam(q, t) == ClosedUp([p \in PlanIds |-> IF p[1] = t THEN 0 ELSE q[p]])

CancelStep(l) ==
  /\ call.op = "cancel"
  /\ l \in TeamsLeases(call.team)
  /\ SetLease(l, "cancelled")
  /\ UNCHANGED call

\* The plan's own event carries one idempotency key: a second cancellation of
\* the same plan is a conflict (CallFails).
CancelCommits ==
  LET p == <<call.team, latest[call.team]>>
  IN /\ call.op = "cancel"
     /\ TeamsLeases(call.team) = {}
     /\ Accepts(call.team)
     /\ p \notin ledgerCancelled
     /\ ledgerCancelled' = ledgerCancelled \cup {p}
     /\ queue' = WithoutTeam(queue, call.team)
     /\ rebuilt' = {o \in rebuilt : o[1] # call.team}
     /\ call' = Idle
     /\ UNCHANGED <<ledgerPlan, ledgerLatest, ledgerLease, closed, plan, latest, lease,
                    used, capacity, overdue, dropped>>

\* One round of drain_queue: take the first entry of the snapshot off the queue
\* and admit its next version.  The loop ends at the first one still queued.
DrainStep ==
  LET e    == First(call.rest)
      next == NextVersion(e)
      known == plan[next] # "none"
      d    == IF known THEN plan[next] ELSE SelectMode(next, KeepsItsStages(e))
      left == Dequeue(queue, e)
      rest == call.rest \ {e}
  IN /\ call.op = "drain"
     /\ IF known
        THEN UNCHANGED <<ledger, plan, latest, lease, used, capacity, overdue, dropped>>
        ELSE Accepts(e[1]) /\ Commit(next, d)
     /\ queue' = IF d = "queued" /\ ~known THEN Enqueue(left, next) ELSE left
     /\ rebuilt' = (rebuilt \ {e}) \cup
                     IF d = "queued" /\ ~known /\ e \in rebuilt THEN {next} ELSE {}
     /\ call' = IF d = "queued" \/ rest = {} THEN Idle ELSE [op |-> "drain", rest |-> rest]

\* Whether the step the call is at raises: its append is refused, or fails.
AppendFails(t) == ~Accepts(t) \/ StorageMayFail

\* SchedulerError out of a call.  What the call did before stays done, and what
\* it took off the queue before the failing append stays off.
CallFails ==
  /\ \/ /\ call.op \in {"expire", "grant"} /\ \E l \in Overdue : AppendFails(l[1])
        /\ UNCHANGED queue
     \/ /\ call.op = "grant" /\ Overdue = {} /\ Grantable /\ AppendFails(call.team)
        /\ UNCHANGED queue
     \/ /\ call.op = "cancel" /\ TeamsLeases(call.team) # {} /\ AppendFails(call.team)
        /\ UNCHANGED queue
     \/ /\ call.op = "cancel" /\ TeamsLeases(call.team) = {}
        /\ \/ AppendFails(call.team)
           \/ <<call.team, latest[call.team]>> \in ledgerCancelled
        /\ queue' = WithoutTeam(queue, call.team)
     \/ /\ call.op = "drain"
        /\ plan[NextVersion(First(call.rest))] = "none"
        /\ AppendFails(First(call.rest)[1])
        /\ queue' = Dequeue(queue, First(call.rest))
  /\ dropped' = dropped \cup (Waiting(queue) \ Waiting(queue'))
  /\ call' = Idle
  /\ UNCHANGED <<ledger, plan, latest, lease, used, rebuilt, capacity, overdue>>
-----------------------------------------------------------------------------
\* The process dies, at any point of any call, and __init__ calls reconcile():
\* the queue is rebuilt in the order of the plan ids, which are hashes, out of
\* requests that _request_from_plan makes of the plans, without their stages.
RequeuedTeamwise ==
  {p \in PlanIds : ledgerPlan[p] = "queued" /\ \A c \in ledgerCancelled : c[1] # p[1]}

Requeued == {p \in PlanIds : ledgerPlan[p] = "queued" /\ p \notin ledgerCancelled}

Restart ==
  /\ plan' = ledgerPlan
  /\ latest' = ledgerLatest
  /\ lease' = ledgerLease
  /\ used' = [r \in Resources |-> Load(Active(ledgerLease), r)]
  /\ \E order \in Bijection(Requeued, 1 .. Cardinality(Requeued)) :
       queue' = [p \in PlanIds |-> IF p \in Requeued THEN order[p] ELSE 0]
  /\ rebuilt' = Requeued
  /\ call' = Idle
  /\ capacity' \in Measurements
  /\ dropped' = {}
  /\ UNCHANGED <<ledger, overdue>>

\* The clock: a lease's fixed deadline passes.  A call reads the clock once.
DeadlinePasses(l) ==
  /\ call = Idle
  /\ l \in Active(lease) \ overdue /\ l[1] \in ExpiringTeams
  /\ overdue' = overdue \cup {l}
  /\ UNCHANGED <<ledger, memory, capacity, dropped>>

\* The orchestrator records the task's completion, failure or cancellation.
CloseTask(k) ==
  /\ k \in ClosableTasks \ closed
  /\ closed' = closed \cup {k}
  /\ UNCHANGED <<ledgerPlan, ledgerLatest, ledgerCancelled, ledgerLease, memory,
                 capacity, overdue, dropped>>

\* The one consequential event the ledger takes for such a task, a request for
\* human review, replays to a state that is not terminal.
ReviewTask(k) ==
  /\ k \in closed
  /\ closed' = closed \ {k}
  /\ UNCHANGED <<ledgerPlan, ledgerLatest, ledgerCancelled, ledgerLease, memory,
                 capacity, overdue, dropped>>

Next ==
  \/ \E p \in PlanIds : Admit(p)
  \/ \E l \in LeaseIds : ActivateLease(l)
  \/ \E l \in LeaseIds, s \in ReleaseStatuses : ReleaseLease(l, s)
  \/ CallBegins
  \/ \E l \in LeaseIds : ExpireStep(l)
  \/ ExpireReturns
  \/ GrantWorkerLease
  \/ GrantRefused
  \/ \E l \in LeaseIds : CancelStep(l)
  \/ CancelCommits
  \/ DrainStep
  \/ CallFails
  \/ Restart
  \/ \E l \in LeaseIds : DeadlinePasses(l)
  \/ \E k \in Tasks : CloseTask(k)
  \/ \E k \in Tasks : ReviewTask(k)

Spec == Init /\ [][Next]_vars

\* The most that could be hoped for: every call returns, the callers keep asking
\* for expiry, and an expiry whose append the ledger accepts again and again is
\* appended in the end.
CallReturns == ExpireReturns \/ GrantWorkerLease \/ GrantRefused \/ CallFails

Fairness ==
  /\ SF_vars(CallBegins /\ call'.op = "expire")
  /\ WF_vars(CallReturns)
  /\ \A l \in LeaseIds : SF_vars(ExpireStep(l))

FairSpec == Spec /\ Fairness
-----------------------------------------------------------------------------
TypeOK ==
  /\ ledgerPlan \in [PlanIds -> Decisions \cup {"none"}]
  /\ ledgerLatest \in [Teams -> {0} \cup Versions]
  /\ ledgerCancelled \in SUBSET PlanIds
  /\ ledgerLease \in [LeaseIds -> LeaseStatuses]
  /\ closed \in SUBSET Tasks
  /\ plan \in [PlanIds -> Decisions \cup {"none"}]
  /\ latest \in [Teams -> {0} \cup Versions]
  /\ lease \in [LeaseIds -> LeaseStatuses]
  /\ used \in [Resources -> Nat]
  /\ queue \in [PlanIds -> Nat]
  /\ rebuilt \in SUBSET PlanIds
  /\ call \in Calls
  /\ capacity \in Measurements
  /\ overdue \in SUBSET LeaseIds
  /\ dropped \in SUBSET PlanIds

\* What the scheduler remembers of plans and leases is what reconcile() would
\* rebuild: a failed append never leaves memory ahead of the ledger, nor behind
\* it, in any call and after any part of one.
MemoryIsReplay == plan = ledgerPlan /\ latest = ledgerLatest /\ lease = ledgerLease

\* The usage counters are exactly the reservations of the active leases: nothing
\* is added twice, given back twice, or clamped at zero by max(0, ...).
UsageIsHeld == \A r \in Resources : used[r] = Load(Active(lease), r)

\* A serial virtual team never has two of its plan's leases active at once.
SerialExclusive ==
  \A l, m \in Active(lease) :
    PlanOf(l) = PlanOf(m) /\ plan[PlanOf(l)] = "serial" => l = m

\* Only an admitted plan has leases, only for its own crew; and a team admitted
\* to run concurrently never has some of its leases granted and others not.
LeasesFollowAdmission ==
  \A p \in PlanIds :
    /\ \A l \in LeaseIds :
         PlanOf(l) = p /\ lease[l] # "none" => plan[p] \in Admitted /\ l \in LeasesOf(p)
    /\ plan[p] \in Concurrent => \A l \in LeasesOf(p) : lease[l] # "none"

\* The queue holds queued plans only, each in a place of its own, over retries,
\* cancellations and restarts; and it holds the last plan of each team that is
\* queued and was not cancelled, unless a call that took it off (drain_queue,
\* cancel_team) failed afterwards.  A restart brings back even those.
QueueHoldsTheWaiting ==
  /\ \A p \in Waiting(queue) : plan[p] = "queued"
  /\ \A p, o \in Waiting(queue) : queue[p] = queue[o] => p = o
  /\ \A t \in Teams :
       LET p == <<t, latest[t]>>
       IN latest[t] # 0 /\ plan[p] = "queued" /\ p \notin ledgerCancelled
            => p \in Waiting(queue) \cup dropped

\* drain_queue refuses a team that was told to wait only if a restart came in
\* between, and then only one that was to be pipelined, whose stages reconcile has
\* lost, or one that the node measured since cannot hold at all.
RefusedOnlyAfterARestart ==
  [][\A p \in PlanIds :
       call.op = "drain" /\ plan[p] = "none" /\ plan'[p] = "stopped"
         => /\ <<p[1], p[2] - 1>> \in rebuilt
            /\ \/ Request[p[1]].mode = "pipelined"
               \/ \E l \in LeasesOf(p) : ~Fits(Nothing, {l})]_vars

\* No step takes more of a resource than the node has measured: not the grant of
\* a whole team, not one worker's, not a retry out of the queue.
NeverOvercommits ==
  [][\A r \in Resources : used'[r] > used[r] => used'[r] <= capacity'[r]]_vars

\* The devices really hold what is placed on them: however a worker's VRAM lies on
\* its devices, the workers confined to a set of devices fit in that set.
DevicesHoldTheirLeases ==
  \A D \in SUBSET Gpus :
    LET confined == {l \in Active(lease) : Devices(l) \subseteq D}
    IN Load(confined, "vram") <= SumOver(capacity)[D]

\* A lease moves forward only: granted, then active, then one terminal status,
\* which no later call and no restart changes.
StatusRank(s) ==
  CASE s = "none" -> 0 [] s = "granted" -> 1 [] s = "active" -> 2 [] OTHER -> 3
LeasesMoveForward ==
  [][\A l \in LeaseIds :
       lease'[l] # lease[l] => StatusRank(lease'[l]) > StatusRank(lease[l])]_vars

\* drain_queue admits no queued team while one of a better priority class, whose
\* turn came first, is left waiting.
DrainHonoursPriority ==
  [][\A p \in PlanIds :
       call.op = "drain" /\ plan[p] = "none" /\ plan'[p] \in Admitted
         => \A o \in Waiting(queue') : Rank(o) >= Rank(p)]_vars

\* A lease whose deadline has passed does not stay active for ever, as the
\* docstring of expire_leases has it: "Expire all active leases whose fixed
\* deadline has passed."
OverdueLeasesEnd ==
  \A l \in LeaseIds : l \in overdue ~> lease[l] \notin ActiveStatuses
=============================================================================
