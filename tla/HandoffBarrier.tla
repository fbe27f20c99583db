-------------------------- MODULE HandoffBarrier --------------------------
(***************************************************************************)
(* The handoff coordinator (src/src/contracts/execution/handoffs.py): the   *)
(* workers that an assignment depends on each hand one packet over, and a   *)
(* join barrier, in one or more versions, completes when all are in.        *)
(*                                                                         *)
(* The coordinator's dictionaries are a projection of the ledger, which     *)
(* reconcile() rebuilds after a restart from the events alone. One step is  *)
(* one call, with the one batch it appends. A call that only answers, with  *)
(* the record of a duplicate or with a rejection, changes nothing.          *)
(***************************************************************************)
EXTENDS Integers

CONSTANTS
  Predecessors,   \* the assignments the destination depends on
  Versions,       \* bound: versions of the barrier
  Offers,         \* bound: the submissions workers make, each any number of times
  OpenQuestions,  \* packets with a failed check or an unresolved question
  None

Ids     == {o.id : o \in Offers}
Keys    == {o.key : o \in Offers}
Packets == {o.packet : o \in Offers}
Leases  == {o.lease : o \in Offers}

ASSUME OffersAssumption ==
  \A o \in Offers :
    /\ o = [id |-> o.id, key |-> o.key, source |-> o.source, version |-> o.version,
            packet |-> o.packet, lease |-> o.lease]
    /\ o.source \in Predecessors
    /\ o.version \in Versions
ASSUME NoneAssumption == None \notin Ids /\ None \notin Packets /\ None \notin Offers
ASSUME VersionAssumption == Versions \subseteq Nat /\ 1 \in Versions

VARIABLES
  memory,  \* _barriers, _handoffs, _handoffs_by_idempotency and _accepted_by_source
  ledger,  \* what reconcile() reads back into them
  live,    \* the source leases that are active
  due      \* the versions whose deadline has passed

vars == <<memory, ledger, live, due>>
-----------------------------------------------------------------------------
\* What resolve_barrier takes; it asks for the deadline for the first two.
Overdue     == {"missing", "timed_out"}
Resolutions == Overdue \cup {"conflicting", "cancelled", "needs_review"}

Barriers ==
  [status: {"waiting", "completed"} \cup Resolutions, accepted: SUBSET Ids,
   hashes: [Predecessors -> Packets \cup {None}], conflicts: SUBSET (Ids \X Packets)]

Projections ==
  [barriers: [Versions -> Barriers \cup {[status |-> "absent"]}],
   handoffs: [Ids -> Offers \cup {None}],
   byKey: [Keys -> Ids \cup {None}],
   acceptedBySource: [Versions \X Predecessors -> Ids \cup {None}]]

Absent == [status |-> "absent"]
Opened == [status |-> "waiting", accepted |-> {}, hashes |-> [s \in Predecessors |-> None],
           conflicts |-> {}]

Empty ==
  [barriers |-> [v \in Versions |-> Absent], handoffs |-> [i \in Ids |-> None],
   byKey |-> [k \in Keys |-> None],
   acceptedBySource |-> [vs \in Versions \X Predecessors |-> None]]

Init ==
  /\ memory = Empty
  /\ ledger = Empty
  /\ live = Leases
  /\ due = {}

\* The loop body of reconcile(): what an event of either kind is read back as.
ReadBarrier(p, v, b) == [p EXCEPT !.barriers[v] = b]
ReadHandoff(p, o) == [p EXCEPT !.handoffs[o.id] = o, !.byKey[o.key] = o.id]
ReadAccepted(p, o) == [ReadHandoff(p, o) EXCEPT !.acceptedBySource[<<o.version, o.source>>] = o.id]

\* The assignments a call makes once its batch is in: _handoffs and
\* _handoffs_by_idempotency.
Remembered(p, o) == [p EXCEPT !.handoffs[o.id] = o, !.byKey[o.key] = o.id]

CommitMemoryFirst(read, kept) ==
  /\ memory' = kept
  /\ ledger' \in {read, ledger}

\* _append_events: the whole batch is in, or it is refused and nothing is kept.
Commit(read, kept) ==
  \/ ledger' = read /\ memory' = kept
  \/ UNCHANGED <<ledger, memory>>
-----------------------------------------------------------------------------
OpenBarrier(v) ==
  /\ memory.barriers[v] = Absent
  /\ Commit(ReadBarrier(ledger, v, Opened), [memory EXCEPT !.barriers[v] = Opened])
  /\ UNCHANGED <<live, due>>

\* _validate_handoff, for submissions that are well formed: the barrier exists and
\* the source still holds its lease.
Valid(o) == memory.barriers[o.version] # Absent /\ o.lease \in live

\* submit_handoff goes on past the answer to a known idempotency key.
New(o) == Valid(o) /\ memory.byKey[o.key] = None

InTimeOrLate(o) == New(o) /\ memory.barriers[o.version].status = "waiting"

InTimeForAny(o) == New(o) /\ o.version \notin due

\* The submission is in time for a barrier that waits.
InTime(o) ==
  /\ New(o)
  /\ o.version \notin due
  /\ memory.barriers[o.version].status = "waiting"

SubmitLate(o) ==
  /\ New(o) /\ o.version \in due
  /\ Commit(ReadHandoff(ledger, o), Remembered(memory, o))
  /\ UNCHANGED <<live, due>>

FirstFromThisId(o) ==
  IF memory.handoffs[o.id] = None THEN None ELSE memory.acceptedBySource[<<o.version, o.source>>]

FirstFrom(o) == memory.acceptedBySource[<<o.version, o.source>>]

\* _barrier_with_conflict
InConflict(b, first, second) ==
  [b EXCEPT !.status = "conflicting",
            !.conflicts = @ \cup {<<first.id, first.packet>>, <<second.id, second.packet>>}]

\* A different packet from a predecessor whose packet is in; an equal one is
\* answered as a duplicate.
SubmitConflicting(o) ==
  LET first == memory.handoffs[FirstFrom(o)]
      conflict == InConflict(memory.barriers[o.version], first, o)
  IN /\ InTime(o)
     /\ FirstFrom(o) # None /\ first.packet # o.packet
     /\ Commit(ReadBarrier(ReadHandoff(ledger, o), o.version, conflict),
               [Remembered(memory, o) EXCEPT !.barriers[o.version] = conflict])
     /\ UNCHANGED <<live, due>>

SatisfiedOnceCovered(hashes) == \A s \in Predecessors : hashes[s] # None

\* Nothing is missing and no check or question is left open.
Satisfied(hashes) == \A s \in Predecessors : hashes[s] \notin OpenQuestions \cup {None}

\* _barrier_after_accept
AfterAccept(b, o) ==
  LET hashes == [b.hashes EXCEPT ![o.source] = o.packet]
  IN [b EXCEPT !.accepted = @ \cup {o.id}, !.hashes = hashes,
               !.status = IF Satisfied(hashes) THEN "completed" ELSE "waiting"]

\* The event of a barrier that still waits is keyed by the ids accepted so far: the
\* batch is refused when the id adds nothing to them.
SubmitAccepted(o) ==
  LET before == memory.barriers[o.version]
      after == AfterAccept(before, o)
  IN /\ InTime(o)
     /\ FirstFrom(o) = None
     /\ after.status = "waiting" => o.id \notin before.accepted
     /\ Commit(ReadBarrier(ReadAccepted(ledger, o), o.version, after),
               [Remembered(memory, o) EXCEPT
                  !.acceptedBySource[<<o.version, o.source>>] = o.id,
                  !.barriers[o.version] = after])
     /\ UNCHANGED <<live, due>>

\* resolve_barrier looks the barrier up without a version: it is the first.
ResolveBarrier(outcome) ==
  LET resolved == [memory.barriers[1] EXCEPT !.status = outcome]
  IN /\ memory.barriers[1].status = "waiting"
     /\ outcome \in Overdue => 1 \in due
     /\ Commit(ReadBarrier(ledger, 1, resolved), [memory EXCEPT !.barriers[1] = resolved])
     /\ UNCHANGED <<live, due>>

\* __init__ of the next process calls reconcile().
Restart ==
  /\ memory' = ledger
  /\ UNCHANGED <<ledger, live, due>>

LeaseEnds(l) ==
  /\ l \in live
  /\ live' = live \ {l}
  /\ UNCHANGED <<memory, ledger, due>>

DeadlinePasses(v) ==
  /\ v \notin due
  /\ due' = due \cup {v}
  /\ UNCHANGED <<memory, ledger, live>>

Next ==
  \/ \E v \in Versions : OpenBarrier(v) \/ DeadlinePasses(v)
  \/ \E o \in Offers : SubmitLate(o) \/ SubmitConflicting(o) \/ SubmitAccepted(o)
  \/ \E outcome \in Resolutions : ResolveBarrier(outcome)
  \/ \E l \in Leases : LeaseEnds(l)
  \/ Restart

Spec == Init /\ [][Next]_vars
-----------------------------------------------------------------------------
TypeOK ==
  /\ memory \in Projections
  /\ ledger \in Projections
  /\ live \subseteq Leases
  /\ due \subseteq Versions

\* "A failed ledger append does not update the coordinator projection"
\* (src/docs/evidence/backend/m4_3_implementation_evidence.md), and reconcile reads
\* back what the calls assigned, refused batches and conflicts included.
MemoryIsReplay == memory = ledger

\* What the runtime gives the destination's worker: the submissions it finds under
\* the ids the barrier accepted.
Inputs(v) == {memory.handoffs[i] : i \in memory.barriers[v].accepted}

\* An id under which two submissions with keys of their own were kept: _handoffs
\* has the later one only. Nothing refuses the second, whatever its packet.
Resubmitted(i) == \E k, l \in Keys : k # l /\ memory.byKey[k] = i /\ memory.byKey[l] = i

\* A worker that depends on a barrier starts with the packet the barrier accepted
\* from each predecessor, and with no other packet, except under an id that was
\* used again: what it is given there may be any later submission's.
InputsAreTheAccepted ==
  \A v \in Versions :
    LET barrier == memory.barriers[v]
    IN barrier.status = "completed" =>
         /\ \A s \in Predecessors :
              LET i == memory.acceptedBySource[<<v, s>>]
              IN /\ i \in barrier.accepted
                 /\ \/ Resubmitted(i)
                    \/ \E o \in Inputs(v) : o.id = i /\ o.source = s /\ o.packet = barrier.hashes[s]
         /\ \A i \in barrier.accepted :
              \/ Resubmitted(i)
              \/ LET o == memory.handoffs[i]
                 IN o.version = v /\ o.packet = barrier.hashes[o.source]

\* A barrier completes only with every predecessor's packet and no open question,
\* whatever came late, twice or in conflict.
CompletedIsEarned ==
  \A v \in Versions :
    memory.barriers[v].status = "completed" =>
      /\ \A s \in Predecessors : memory.barriers[v].hashes[s] \notin OpenQuestions \cup {None}
      /\ memory.barriers[v].conflicts = {}

StaysSettled(v) ==
  memory.barriers[v] # Absent =>
    /\ memory.barriers[v].status # "waiting" => memory'.barriers[v] = memory.barriers[v]
    /\ memory'.barriers[v] # Absent
    /\ \A s \in Predecessors :
         memory.barriers[v].hashes[s] \in {None, memory'.barriers[v].hashes[s]}

\* A barrier that is no longer waiting never changes, over restarts and further
\* submissions; one that waits keeps every packet it accepted.
BarriersSettle == [][\A v \in Versions : StaysSettled(v)]_vars

TakesNothing(v) ==
  memory.barriers[v] # Absent =>
    /\ memory'.barriers[v].hashes = memory.barriers[v].hashes
    /\ memory'.barriers[v].status = "completed" => memory.barriers[v].status = "completed"

\* "Late packets produce worker.handoff.late and do not satisfy the old barrier
\* version" (the same document): after its deadline a barrier accepts nothing more.
NothingAfterTheDeadline == [][\A v \in due : TakesNothing(v)]_vars
=============================================================================
