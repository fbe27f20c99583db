----------------------- MODULE HandoffBarrierProofs -----------------------
(***************************************************************************)
(* What holds of a team's hand-offs, for any team, predecessors, versions   *)
(* and submissions. The module extends HandoffBarrier; TeamRuntime is the   *)
(* instance Runtime, of which the last part speaks, and TeamPromises has    *)
(* what is to be shown of it.                                              *)
(*                                                                         *)
(* Barriers: that the projection equals the replay is half of the type's   *)
(* induction, so both are proved first; the rest is about memory alone.    *)
(*                                                                         *)
(* Runtime: outcomes and packets are recorded once, so an assignment whose *)
(* inputs were complete when it was chosen keeps them, and of a wave only  *)
(* the member that is released has an outcome.                             *)
(***************************************************************************)
EXTENDS HandoffBarrier, TeamPromises, FiniteSetTheorems, WellFoundedInduction, TLAPS

CONSTANTS Scheduled, Capacity, MaxCrashes
VARIABLES done, waves, cancel, passed, crashes

Runtime == INSTANCE TeamRuntime
-----------------------------------------------------------------------------
(***************************************************************************)
(* The barriers.                                                           *)
(***************************************************************************)
IsOpen(v) == memory.barriers[v] # Absent

\* _accepted_by_source and the packet hashes of a barrier know the same predecessors.
Indexed ==
  \A v \in Versions, s \in Predecessors :
    IF IsOpen(v)
    THEN memory.acceptedBySource[<<v, s>>] = None <=> memory.barriers[v].hashes[s] = None
    ELSE memory.acceptedBySource[<<v, s>>] = None

\* A barrier with a conflict is neither waiting nor completed.
Settled ==
  \A v \in Versions : IsOpen(v) =>
    /\ memory.barriers[v].status \in {"waiting", "completed"} => memory.barriers[v].conflicts = {}
    /\ memory.barriers[v].status = "completed" => Satisfied(memory.barriers[v].hashes)

\* What _accepted_by_source names is among _handoffs.
Known ==
  \A v \in Versions, s \in Predecessors :
    LET i == memory.acceptedBySource[<<v, s>>] IN i # None => memory.handoffs[i] # None

IInv == TypeOK /\ MemoryIsReplay /\ Known /\ Indexed /\ Settled

\* The assignments of a call that accepted o.
Indexing(p, o, b) ==
  [p EXCEPT !.acceptedBySource[<<o.version, o.source>>] = o.id, !.barriers[o.version] = b]
-----------------------------------------------------------------------------
LEMMA OfferType ==
  ASSUME NEW o \in Offers
  PROVE  /\ o.id \in Ids /\ o.key \in Keys /\ o.packet \in Packets /\ o.lease \in Leases
         /\ o.source \in Predecessors /\ o.version \in Versions
         /\ o.id # None /\ o.packet # None /\ o # None
BY OffersAssumption, NoneAssumption DEF Ids, Keys, Packets, Leases

\* The reading of a call's batch and the call's own assignments agree.
LEMMA ReadIsKept ==
  ASSUME NEW p \in Projections, NEW o \in Offers, NEW b
  PROVE  /\ ReadHandoff(p, o) = Remembered(p, o)
         /\ ReadBarrier(Remembered(p, o), o.version, b)
              = [Remembered(p, o) EXCEPT !.barriers[o.version] = b]
         /\ ReadBarrier(ReadAccepted(p, o), o.version, b)
              = Indexing(Remembered(p, o), o, b)
BY DEF ReadHandoff, Remembered, ReadBarrier, ReadAccepted, Indexing, Projections

LEMMA BarrierTypes ==
  ASSUME NEW b \in Barriers, NEW o \in Offers, NEW first \in Offers
  PROVE  /\ Opened \in Barriers /\ Opened # Absent /\ b # Absent
         /\ InConflict(b, first, o) \in Barriers
         /\ AfterAccept(b, o) \in Barriers
         /\ \A outcome \in Resolutions : [b EXCEPT !.status = outcome] \in Barriers
<1> USE OfferType DEF Barriers
<1>1. Opened \in Barriers /\ Opened # Absent /\ b # Absent
  BY DEF Opened, Absent, Resolutions, Overdue
<1>2. InConflict(b, first, o) \in Barriers
  <2>1. b.conflicts \cup {<<first.id, first.packet>>, <<o.id, o.packet>>} \in SUBSET (Ids \X Packets)
    OBVIOUS
  <2> QED BY <2>1 DEF InConflict, Resolutions
<1>3. AfterAccept(b, o) \in Barriers
  BY DEF AfterAccept
<1>4. \A outcome \in Resolutions : [b EXCEPT !.status = outcome] \in Barriers
  OBVIOUS
<1> QED BY <1>1, <1>2, <1>3, <1>4

LEMMA RememberedType ==
  ASSUME NEW p \in Projections, NEW o \in Offers
  PROVE  /\ Remembered(p, o) \in Projections
         /\ Remembered(p, o).barriers = p.barriers
         /\ Remembered(p, o).acceptedBySource = p.acceptedBySource
         /\ Remembered(p, o).handoffs = [p.handoffs EXCEPT ![o.id] = o]
         /\ Remembered(p, o).byKey = [p.byKey EXCEPT ![o.key] = o.id]
BY OfferType DEF Remembered, Projections

LEMMA PutType ==
  ASSUME NEW p \in Projections, NEW v \in Versions, NEW b \in Barriers
  PROVE  /\ ReadBarrier(p, v, b) \in Projections
         /\ ReadBarrier(p, v, b).barriers = [p.barriers EXCEPT ![v] = b]
         /\ ReadBarrier(p, v, b).acceptedBySource = p.acceptedBySource
         /\ ReadBarrier(p, v, b).handoffs = p.handoffs
         /\ ReadBarrier(p, v, b).byKey = p.byKey
BY DEF Projections, ReadBarrier

LEMMA IndexType ==
  ASSUME NEW p \in Projections, NEW o \in Offers, NEW b \in Barriers
  PROVE  /\ Indexing(p, o, b) \in Projections
         /\ Indexing(p, o, b).barriers = [p.barriers EXCEPT ![o.version] = b]
         /\ Indexing(p, o, b).acceptedBySource
              = [p.acceptedBySource EXCEPT ![<<o.version, o.source>>] = o.id]
         /\ Indexing(p, o, b).handoffs = p.handoffs
         /\ Indexing(p, o, b).byKey = p.byKey
BY OfferType DEF Projections, Indexing
-----------------------------------------------------------------------------
(***************************************************************************)
(* A step seen from memory: it leaves the barriers alone, or it opens one,   *)
(* ends one without its packets, or accepts a packet for one.                *)
(***************************************************************************)
SameBarriers ==
  /\ memory'.barriers = memory.barriers
  /\ memory'.acceptedBySource = memory.acceptedBySource

Opens(v) ==
  /\ ~IsOpen(v)
  /\ memory'.barriers = [memory.barriers EXCEPT ![v] = Opened]
  /\ memory'.acceptedBySource = memory.acceptedBySource

GivesUp(v) ==
  /\ IsOpen(v)
  /\ memory.barriers[v].status = "waiting"
  /\ \E b \in Barriers :
       /\ b.status \in Resolutions
       /\ b.hashes = memory.barriers[v].hashes
       /\ b.accepted = memory.barriers[v].accepted
       /\ memory'.barriers = [memory.barriers EXCEPT ![v] = b]
  /\ memory'.acceptedBySource = memory.acceptedBySource

Remembers(o) ==
  /\ memory.byKey[o.key] = None
  /\ memory'.handoffs = [memory.handoffs EXCEPT ![o.id] = o]
  /\ memory'.byKey = [memory.byKey EXCEPT ![o.key] = o.id]

Takes(o) ==
  /\ IsOpen(o.version)
  /\ memory.barriers[o.version].status = "waiting"
  /\ o.version \notin due
  /\ FirstFrom(o) = None
  /\ memory'.barriers = [memory.barriers EXCEPT ![o.version] = AfterAccept(@, o)]
  /\ memory'.acceptedBySource = [memory.acceptedBySource EXCEPT ![<<o.version, o.source>>] = o.id]
  /\ Remembers(o)

Moves ==
  \/ /\ SameBarriers \/ \E v \in Versions : Opens(v) \/ GivesUp(v)
     /\ \/ memory'.handoffs = memory.handoffs /\ memory'.byKey = memory.byKey
        \/ \E o \in Offers : Remembers(o)
  \/ \E o \in Offers : Takes(o)

Sound == TypeOK' /\ MemoryIsReplay' /\ Moves

LEMMA NothingChanged ==
  ASSUME TypeOK, MemoryIsReplay, memory' = memory, ledger' = ledger,
         live' \subseteq Leases, due' \subseteq Versions
  PROVE  Sound
BY DEF TypeOK, MemoryIsReplay, Sound, Moves, SameBarriers

LEMMA CallMoves ==
  ASSUME TypeOK, MemoryIsReplay, Known,
         \/ \E v \in Versions : OpenBarrier(v)
         \/ \E o \in Offers : SubmitLate(o) \/ SubmitConflicting(o) \/ SubmitAccepted(o)
         \/ \E outcome \in Resolutions : ResolveBarrier(outcome)
  PROVE  Sound
<1> USE DEF TypeOK, MemoryIsReplay
<1>0. SUFFICES ASSUME ~UNCHANGED <<ledger, memory>> PROVE Sound
  BY NothingChanged DEF OpenBarrier, SubmitLate, SubmitConflicting, SubmitAccepted, ResolveBarrier
<1>1. live' \subseteq Leases /\ due' \subseteq Versions
  BY DEF OpenBarrier, SubmitLate, SubmitConflicting, SubmitAccepted, ResolveBarrier
<1>2. ASSUME NEW v \in Versions, OpenBarrier(v) PROVE Sound
  <2>1. /\ ledger' = ReadBarrier(ledger, v, Opened)
        /\ memory' = [memory EXCEPT !.barriers[v] = Opened]
    BY <1>0, <1>2 DEF OpenBarrier, Commit
  <2>0. memory' = ReadBarrier(memory, v, Opened) /\ ledger' = memory'
    BY <2>1 DEF ReadBarrier
  <2>2. Opened \in Barriers
    BY DEF Opened, Barriers
  <2>3. Opens(v) /\ memory'.handoffs = memory.handoffs /\ memory'.byKey = memory.byKey
    BY <1>2, <2>0, <2>2, PutType DEF Opens, IsOpen, OpenBarrier
  <2> QED BY <1>1, <2>0, <2>2, <2>3, PutType DEF Sound, Moves
<1>3. ASSUME NEW o \in Offers, SubmitLate(o) PROVE Sound
  <2>1. memory' = Remembered(memory, o) /\ ledger' = memory'
    BY <1>0, <1>3, ReadIsKept DEF SubmitLate, Commit
  <2>2. SameBarriers /\ Remembers(o)
    BY <1>3, <2>1, RememberedType DEF SameBarriers, Remembers, SubmitLate, New
  <2> QED BY <1>1, <2>1, <2>2, RememberedType DEF Sound, Moves
<1>4. ASSUME NEW o \in Offers, SubmitConflicting(o) PROVE Sound
  <2> DEFINE first == memory.handoffs[FirstFrom(o)]
             b == memory.barriers[o.version]
             conflict == InConflict(b, first, o)
  <2>1. /\ ledger' = ReadBarrier(ReadHandoff(ledger, o), o.version, conflict)
        /\ memory' = [Remembered(memory, o) EXCEPT !.barriers[o.version] = conflict]
    BY <1>0, <1>4 DEF SubmitConflicting, Commit
  <2>2. memory' = ReadBarrier(Remembered(memory, o), o.version, conflict) /\ ledger' = memory'
    BY <2>1, ReadIsKept DEF ReadBarrier
  <2>3. b \in Barriers /\ b.status = "waiting" /\ IsOpen(o.version)
    BY <1>4, OfferType DEF SubmitConflicting, InTime, New, Valid, IsOpen, Projections
  <2>4. first \in Offers
    <3>1. FirstFrom(o) # None /\ o.source \in Predecessors /\ o.version \in Versions
      BY <1>4, OfferType DEF SubmitConflicting
    <3>2. FirstFrom(o) \in Ids /\ first # None
      BY <3>1 DEF FirstFrom, Known, Projections
    <3> QED BY <3>2 DEF Projections
  <2>5. conflict \in Barriers
    BY <2>3, <2>4, BarrierTypes
  <2>6. conflict.status = "conflicting" /\ conflict.hashes = b.hashes
        /\ conflict.accepted = b.accepted
    BY <2>3 DEF InConflict, Barriers
  <2>7. Remembered(memory, o) \in Projections
    BY RememberedType
  <2> HIDE DEF conflict
  <2>8. /\ memory' \in Projections
        /\ memory'.barriers = [memory.barriers EXCEPT ![o.version] = conflict]
        /\ memory'.acceptedBySource = memory.acceptedBySource
        /\ memory'.handoffs = [memory.handoffs EXCEPT ![o.id] = o]
        /\ memory'.byKey = [memory.byKey EXCEPT ![o.key] = o.id]
    BY <2>2, <2>5, <2>7, PutType, OfferType, RememberedType
  <2>9. GivesUp(o.version)
    BY <2>3, <2>5, <2>6, <2>8 DEF GivesUp, Resolutions
  <2>10. Remembers(o)
    BY <1>4, <2>8 DEF Remembers, SubmitConflicting, InTime, New
  <2> QED BY <1>1, <2>2, <2>8, <2>9, <2>10, OfferType DEF Sound, Moves
<1>5. ASSUME NEW o \in Offers, SubmitAccepted(o) PROVE Sound
  <2> DEFINE b == memory.barriers[o.version]
             after == AfterAccept(b, o)
  <2>1. /\ ledger' = ReadBarrier(ReadAccepted(ledger, o), o.version, after)
        /\ memory' = Indexing(Remembered(memory, o), o, after)
    BY <1>0, <1>5 DEF SubmitAccepted, Commit, Indexing
  <2>2. /\ b \in Barriers /\ b.status = "waiting" /\ IsOpen(o.version)
        /\ o.version \notin due /\ FirstFrom(o) = None
    <3>1. InTime(o) /\ FirstFrom(o) = None
      BY <1>5 DEF SubmitAccepted
    <3> QED BY <3>1, OfferType DEF InTime, New, Valid, IsOpen, Projections
  <2>3. after \in Barriers
    BY <2>2, BarrierTypes
  <2>4. Remembered(memory, o) \in Projections
    BY RememberedType
  <2> HIDE DEF after
  <2>5. ledger' = memory'
    BY <2>1, ReadIsKept
  <2>6. /\ memory' \in Projections
        /\ memory'.barriers = [memory.barriers EXCEPT ![o.version] = after]
        /\ memory'.acceptedBySource
             = [memory.acceptedBySource EXCEPT ![<<o.version, o.source>>] = o.id]
        /\ memory'.handoffs = [memory.handoffs EXCEPT ![o.id] = o]
        /\ memory'.byKey = [memory.byKey EXCEPT ![o.key] = o.id]
    <3> DEFINE p == Remembered(memory, o)
    <3> HIDE DEF p
    <3>1. /\ Indexing(p, o, after) \in Projections
          /\ Indexing(p, o, after).barriers = [p.barriers EXCEPT ![o.version] = after]
          /\ Indexing(p, o, after).acceptedBySource
               = [p.acceptedBySource EXCEPT ![<<o.version, o.source>>] = o.id]
          /\ Indexing(p, o, after).handoffs = p.handoffs
          /\ Indexing(p, o, after).byKey = p.byKey
      BY <2>3, <2>4, IndexType DEF p
    <3> QED BY <2>1, <3>1, RememberedType DEF p
  <2>7. Takes(o)
    BY <1>5, <2>2, <2>6 DEF Takes, Remembers, after, SubmitAccepted, InTime, New
  <2> QED BY <1>1, <2>5, <2>6, <2>7 DEF Sound, Moves
<1>6. ASSUME NEW outcome \in Resolutions, ResolveBarrier(outcome) PROVE Sound
  <2> DEFINE b == memory.barriers[1]
             resolved == [b EXCEPT !.status = outcome]
  <2>1. memory' = ReadBarrier(memory, 1, resolved) /\ ledger' = memory'
    BY <1>0, <1>6 DEF ResolveBarrier, Commit, ReadBarrier
  <2>2. 1 \in Versions /\ b \in Barriers /\ b.status = "waiting" /\ IsOpen(1)
    BY <1>6, VersionAssumption DEF ResolveBarrier, IsOpen, Projections, Absent
  <2>3. resolved \in Barriers /\ resolved.status = outcome /\ resolved.hashes = b.hashes
        /\ resolved.accepted = b.accepted
    BY <2>2 DEF Barriers
  <2> HIDE DEF resolved
  <2>4. /\ memory' \in Projections
        /\ memory'.barriers = [memory.barriers EXCEPT ![1] = resolved]
        /\ memory'.acceptedBySource = memory.acceptedBySource
        /\ memory'.handoffs = memory.handoffs
        /\ memory'.byKey = memory.byKey
    BY <2>1, <2>2, <2>3, PutType
  <2>5. GivesUp(1)
    BY <2>2, <2>3, <2>4 DEF GivesUp
  <2> QED BY <1>1, <2>1, <2>2, <2>4, <2>5 DEF Sound, Moves
<1> QED BY <1>2, <1>3, <1>4, <1>5, <1>6

LEMMA StepMoves ==
  ASSUME TypeOK, MemoryIsReplay, Known, [Next]_vars
  PROVE  Sound
<1>1. ASSUME Restart PROVE Sound
  BY <1>1, NothingChanged DEF Restart, MemoryIsReplay, TypeOK
<1>2. ASSUME NEW l \in Leases, LeaseEnds(l) PROVE Sound
  BY <1>2, NothingChanged DEF LeaseEnds, TypeOK
<1>3. ASSUME NEW v \in Versions, DeadlinePasses(v) PROVE Sound
  BY <1>3, NothingChanged DEF DeadlinePasses, TypeOK
<1>4. ASSUME UNCHANGED vars PROVE Sound
  BY <1>4, NothingChanged DEF vars, TypeOK
<1> QED BY <1>1, <1>2, <1>3, <1>4, CallMoves DEF Next

LEMMA InitIInv == Init => IInv
<1> SUFFICES ASSUME Init PROVE IInv
  OBVIOUS
<1>1. memory \in Projections /\ memory.barriers = [v \in Versions |-> Absent]
  BY DEF Init, Empty, Projections, Absent
<1>2. memory.acceptedBySource = [vs \in Versions \X Predecessors |-> None]
  BY DEF Init, Empty
<1> QED BY <1>1, <1>2 DEF Init, IInv, TypeOK, MemoryIsReplay, Known, Indexed, Settled, IsOpen

\* Taking a packet enters it under its predecessor and nowhere else.
LEMMA TakenBarrier ==
  ASSUME TypeOK, NEW o \in Offers, Takes(o)
  PROVE  LET b == memory.barriers[o.version]
             after == AfterAccept(b, o)
         IN /\ memory'.barriers[o.version] = after
            /\ \A v \in Versions \ {o.version} : memory'.barriers[v] = memory.barriers[v]
            /\ b \in Barriers /\ after \in Barriers /\ after # Absent
            /\ after.hashes = [b.hashes EXCEPT ![o.source] = o.packet]
            /\ after.accepted = b.accepted \cup {o.id}
            /\ after.conflicts = b.conflicts
            /\ after.status = IF Satisfied(after.hashes) THEN "completed" ELSE "waiting"
<1> DEFINE b == memory.barriers[o.version]
           after == AfterAccept(b, o)
<1>1. b \in Barriers
  BY OfferType DEF TypeOK, Projections, Takes, IsOpen
<1>2. after \in Barriers /\ after # Absent
  BY <1>1, BarrierTypes
<1>3. /\ memory'.barriers[o.version] = after
      /\ \A v \in Versions \ {o.version} : memory'.barriers[v] = memory.barriers[v]
  BY OfferType DEF TypeOK, Projections, Takes
<1>4. /\ after.hashes = [b.hashes EXCEPT ![o.source] = o.packet]
      /\ after.accepted = b.accepted \cup {o.id}
      /\ after.conflicts = b.conflicts
      /\ after.status = IF Satisfied(after.hashes) THEN "completed" ELSE "waiting"
  BY <1>1 DEF AfterAccept, Barriers
<1> QED BY <1>1, <1>2, <1>3, <1>4

LEMMA KnownKept == ASSUME IInv, Sound PROVE Known'
<1> SUFFICES ASSUME NEW v \in Versions, NEW s \in Predecessors,
                    memory'.acceptedBySource[<<v, s>>] # None
             PROVE  memory'.handoffs[memory'.acceptedBySource[<<v, s>>]] # None
  BY DEF Known
<1> DEFINE i == memory'.acceptedBySource[<<v, s>>]
<1>1. i \in Ids
  BY DEF Sound, TypeOK, Projections
<1>2. \/ memory'.handoffs = memory.handoffs
      \/ \E o \in Offers : memory'.handoffs = [memory.handoffs EXCEPT ![o.id] = o]
  BY DEF Sound, Moves, Takes, Remembers
<1>3. memory.handoffs[i] # None => memory'.handoffs[i] # None
  BY <1>1, <1>2, OfferType DEF IInv, TypeOK, Projections
<1>4. CASE memory'.acceptedBySource = memory.acceptedBySource
  BY <1>3, <1>4 DEF IInv, Known
<1>5. ASSUME NEW o \in Offers, Takes(o) PROVE memory'.handoffs[i] # None
  BY <1>1, <1>3, <1>5, OfferType DEF Takes, Remembers, IInv, TypeOK, Projections, Known
<1> QED BY <1>4, <1>5 DEF Sound, Moves, SameBarriers, Opens, GivesUp

LEMMA IndexedKept == ASSUME IInv, Sound PROVE Indexed'
<1> USE DEF IInv
<1>1. CASE SameBarriers
  BY <1>1 DEF SameBarriers, Indexed, IsOpen
<1>2. ASSUME NEW v \in Versions, Opens(v) PROVE Indexed'
  <2>1. memory'.barriers[v] = Opened /\ \A w \in Versions \ {v} : memory'.barriers[w] = memory.barriers[w]
    BY <1>2 DEF Opens, TypeOK, Projections
  <2>2. Opened # Absent /\ \A s \in Predecessors : Opened.hashes[s] = None
    BY DEF Opened, Absent
  <2> SUFFICES ASSUME NEW w \in Versions, NEW s \in Predecessors
               PROVE  IF memory'.barriers[w] # Absent
                      THEN memory'.acceptedBySource[<<w, s>>] = None <=> memory'.barriers[w].hashes[s] = None
                      ELSE memory'.acceptedBySource[<<w, s>>] = None
    BY DEF Indexed, IsOpen
  <2>3. CASE w = v
    BY <1>2, <2>1, <2>2, <2>3 DEF Opens, Indexed, IsOpen
  <2>4. CASE w # v
    BY <1>2, <2>1, <2>4 DEF Opens, Indexed, IsOpen
  <2> QED BY <2>3, <2>4
<1>3. ASSUME NEW v \in Versions, GivesUp(v) PROVE Indexed'
  <2>1. PICK b \in Barriers :
          b.hashes = memory.barriers[v].hashes /\ memory'.barriers = [memory.barriers EXCEPT ![v] = b]
    BY <1>3 DEF GivesUp
  <2>2. memory'.barriers[v] = b /\ \A w \in Versions \ {v} : memory'.barriers[w] = memory.barriers[w]
    BY <2>1 DEF TypeOK, Projections
  <2>3. b # Absent
    BY DEF Barriers, Absent, Resolutions, Overdue
  <2> SUFFICES ASSUME NEW w \in Versions, NEW s \in Predecessors
               PROVE  IF memory'.barriers[w] # Absent
                      THEN memory'.acceptedBySource[<<w, s>>] = None <=> memory'.barriers[w].hashes[s] = None
                      ELSE memory'.acceptedBySource[<<w, s>>] = None
    BY DEF Indexed, IsOpen
  <2>4. CASE w = v
    BY <1>3, <2>1, <2>2, <2>3, <2>4 DEF GivesUp, Indexed, IsOpen
  <2>5. CASE w # v
    BY <1>3, <2>2, <2>5 DEF GivesUp, Indexed, IsOpen
  <2> QED BY <2>4, <2>5
<1>4. ASSUME NEW o \in Offers, Takes(o) PROVE Indexed'
  <2>1. ASSUME NEW v \in Versions, NEW s \in Predecessors
        PROVE  memory'.acceptedBySource[<<v, s>>]
                 = IF v = o.version /\ s = o.source THEN o.id ELSE memory.acceptedBySource[<<v, s>>]
    BY <1>4, OfferType DEF Takes, TypeOK, Projections
  <2>2. ASSUME NEW s \in Predecessors
        PROVE  memory'.barriers[o.version].hashes[s]
                 = IF s = o.source THEN o.packet ELSE memory.barriers[o.version].hashes[s]
    <3>1. memory.barriers[o.version].hashes \in [Predecessors -> Packets \cup {None}]
      BY <1>4, TakenBarrier DEF Barriers
    <3>2. memory'.barriers[o.version].hashes = [memory.barriers[o.version].hashes EXCEPT ![o.source] = o.packet]
      BY <1>4, TakenBarrier
    <3> QED BY <3>1, <3>2
  <2>3. IsOpen(o.version) /\ memory'.barriers[o.version] # Absent
    BY <1>4, TakenBarrier DEF Takes
  <2>4. \A v \in Versions \ {o.version} : memory'.barriers[v] = memory.barriers[v]
    BY <1>4, TakenBarrier
  <2> SUFFICES ASSUME NEW w \in Versions, NEW s \in Predecessors
               PROVE  IF memory'.barriers[w] # Absent
                      THEN memory'.acceptedBySource[<<w, s>>] = None <=> memory'.barriers[w].hashes[s] = None
                      ELSE memory'.acceptedBySource[<<w, s>>] = None
    BY DEF Indexed, IsOpen
  <2>5. CASE w = o.version
    BY <2>1, <2>2, <2>3, <2>5, OfferType DEF Indexed, IsOpen
  <2>6. CASE w # o.version
    BY <2>1, <2>4, <2>6 DEF Indexed, IsOpen
  <2> QED BY <2>5, <2>6
<1> QED BY <1>1, <1>2, <1>3, <1>4 DEF Sound, Moves

LEMMA SettledKept == ASSUME IInv, Sound PROVE Settled'
<1> USE DEF IInv
<1>1. CASE SameBarriers
  BY <1>1 DEF SameBarriers, Settled, IsOpen
<1>2. ASSUME NEW v \in Versions, Opens(v) PROVE Settled'
  <2>1. memory'.barriers[v] = Opened /\ \A w \in Versions \ {v} : memory'.barriers[w] = memory.barriers[w]
    BY <1>2 DEF Opens, TypeOK, Projections
  <2>2. Opened.status = "waiting" /\ Opened.conflicts = {}
    BY DEF Opened
  <2> QED BY <2>1, <2>2 DEF Settled, IsOpen
<1>3. ASSUME NEW v \in Versions, GivesUp(v) PROVE Settled'
  <2>1. PICK b \in Barriers :
          b.status \in Resolutions /\ memory'.barriers = [memory.barriers EXCEPT ![v] = b]
    BY <1>3 DEF GivesUp
  <2>2. memory'.barriers[v] = b /\ \A w \in Versions \ {v} : memory'.barriers[w] = memory.barriers[w]
    BY <2>1 DEF TypeOK, Projections
  <2> QED BY <2>1, <2>2 DEF Settled, IsOpen, Resolutions, Overdue
<1>4. ASSUME NEW o \in Offers, Takes(o) PROVE Settled'
  <2>1. memory.barriers[o.version].conflicts = {}
    BY <1>4, OfferType DEF Takes, Settled
  <2> QED BY <1>4, <2>1, TakenBarrier DEF Settled, IsOpen
<1> QED BY <1>1, <1>2, <1>3, <1>4 DEF Sound, Moves

LEMMA Inductive == IInv /\ [Next]_vars => IInv'
<1> SUFFICES ASSUME IInv, [Next]_vars PROVE IInv'
  OBVIOUS
<1>1. Sound
  BY StepMoves DEF IInv
<1> QED BY <1>1, KnownKept, IndexedKept, SettledKept DEF IInv, Sound
-----------------------------------------------------------------------------
LEMMA Invariance == Spec => []IInv
BY InitIInv, Inductive, PTL DEF Spec

\* The projections, the leases and the deadlines keep their types.
THEOREM TypeCorrect == Spec => []TypeOK
<1>1. IInv => TypeOK
  BY DEF IInv
<1> QED BY <1>1, Invariance, PTL

\* The coordinator's memory is what reconcile() would read back from the ledger, after
\* any refused batch, any conflict and any restart.
THEOREM AlwaysReplayable == Spec => []MemoryIsReplay
<1>1. IInv => MemoryIsReplay
  BY DEF IInv
<1> QED BY <1>1, Invariance, PTL

\* A completed barrier has a packet without open questions from every predecessor and
\* never saw a conflict.
THEOREM CompletionIsEarned == Spec => []CompletedIsEarned
<1>1. IInv => CompletedIsEarned
  <2> SUFFICES ASSUME IInv, NEW v \in Versions, memory.barriers[v].status = "completed"
               PROVE  /\ Satisfied(memory.barriers[v].hashes)
                      /\ memory.barriers[v].conflicts = {}
    BY DEF CompletedIsEarned, Satisfied
  <2>1. IsOpen(v)
    BY DEF IsOpen, Absent
  <2> QED BY <2>1 DEF IInv, Settled
<1> QED BY <1>1, Invariance, PTL
-----------------------------------------------------------------------------
\* How a step may change one barrier that is open.
LEMMA BarrierMoves ==
  ASSUME IInv, Sound, NEW v \in Versions, IsOpen(v)
  PROVE  LET b == memory.barriers[v]  after == memory'.barriers[v] IN
         \/ after = b
         \/ /\ b.status = "waiting" /\ after \in Barriers
            /\ after.status \in Resolutions /\ after.hashes = b.hashes
            /\ after.accepted = b.accepted
         \/ /\ b.status = "waiting" /\ after \in Barriers /\ v \notin due
            /\ \E o \in Offers : /\ Takes(o) /\ v = o.version
                                 /\ b.hashes[o.source] = None
                                 /\ after.hashes = [b.hashes EXCEPT ![o.source] = o.packet]
                                 /\ after.accepted = b.accepted \cup {o.id}
<1> USE DEF IInv
<1>1. CASE SameBarriers
  BY <1>1 DEF SameBarriers
<1>2. ASSUME NEW w \in Versions, Opens(w) PROVE memory'.barriers[v] = memory.barriers[v]
  BY <1>2 DEF Opens, TypeOK, Projections
<1>3. ASSUME NEW w \in Versions, GivesUp(w)
      PROVE  \/ memory'.barriers[v] = memory.barriers[v]
             \/ /\ memory.barriers[v].status = "waiting" /\ memory'.barriers[v] \in Barriers
                /\ memory'.barriers[v].status \in Resolutions
                /\ memory'.barriers[v].hashes = memory.barriers[v].hashes
                /\ memory'.barriers[v].accepted = memory.barriers[v].accepted
  <2>1. PICK b \in Barriers :
          /\ b.status \in Resolutions /\ b.hashes = memory.barriers[w].hashes
          /\ b.accepted = memory.barriers[w].accepted
          /\ memory'.barriers = [memory.barriers EXCEPT ![w] = b]
    BY <1>3 DEF GivesUp
  <2>2. memory'.barriers[v] = IF v = w THEN b ELSE memory.barriers[v]
    BY <2>1 DEF TypeOK, Projections
  <2> QED BY <1>3, <2>1, <2>2 DEF GivesUp
<1>4. ASSUME NEW o \in Offers, Takes(o), v = o.version
      PROVE  /\ memory.barriers[v].status = "waiting" /\ memory'.barriers[v] \in Barriers /\ v \notin due
             /\ memory.barriers[v].hashes[o.source] = None
             /\ memory'.barriers[v].hashes = [memory.barriers[v].hashes EXCEPT ![o.source] = o.packet]
             /\ memory'.barriers[v].accepted = memory.barriers[v].accepted \cup {o.id}
  BY <1>4, TakenBarrier, OfferType DEF Takes, Indexed, FirstFrom
<1>5. ASSUME NEW o \in Offers, Takes(o), v # o.version
      PROVE  memory'.barriers[v] = memory.barriers[v]
  BY <1>5, TakenBarrier
<1> QED BY <1>1, <1>2, <1>3, <1>4, <1>5 DEF Sound, Moves

\* A barrier that is settled stays as it is, and one that waits forgets no packet.
THEOREM BarriersAlwaysSettle == Spec => BarriersSettle
<1>1. ASSUME IInv, [Next]_vars, NEW v \in Versions, memory.barriers[v] # Absent
      PROVE  StaysSettled(v)
  <2>1. Sound
    BY <1>1, StepMoves DEF IInv
  <2>2. memory.barriers[v] \in Barriers
    BY <1>1 DEF IInv, TypeOK, Projections, Absent
  <2>3. memory.barriers[v].hashes \in [Predecessors -> Packets \cup {None}]
    BY <2>2 DEF Barriers
  <2>4. \A b \in Barriers : b # Absent
    BY DEF Barriers, Absent, Resolutions, Overdue
  <2> QED BY <1>1, <2>1, <2>3, <2>4, BarrierMoves, OfferType DEF IsOpen, StaysSettled
<1>2. IInv /\ [Next]_vars => [\A v \in Versions : StaysSettled(v)]_vars
  BY <1>1 DEF StaysSettled
<1> QED BY <1>2, Invariance, PTL DEF BarriersSettle, Spec

\* Once its deadline has passed a barrier takes no packet and is not completed.
THEOREM DeadlinesHold == Spec => NothingAfterTheDeadline
<1>1. ASSUME IInv, [Next]_vars, NEW v \in due, memory.barriers[v] # Absent
      PROVE  TakesNothing(v)
  <2>1. Sound /\ v \in Versions
    BY <1>1, StepMoves DEF IInv, TypeOK
  <2>2. "completed" \notin Resolutions
    BY DEF Resolutions, Overdue
  <2>3. Known
    BY <1>1 DEF IInv
  <2> QED BY <1>1, <2>1, <2>2, <2>3, BarrierMoves DEF IsOpen, TakesNothing
<1>2. IInv /\ [Next]_vars => [\A v \in due : TakesNothing(v)]_vars
  BY <1>1 DEF TakesNothing
<1> QED BY <1>2, Invariance, PTL DEF NothingAfterTheDeadline, Spec
-----------------------------------------------------------------------------
(***************************************************************************)
(* What the destination's worker is given is what the barrier accepted,     *)
(* except under an id that was used again.  A key is never given away, so   *)
(* the accepted submission is found under its id until another is kept      *)
(* there under another key, which both keys then tell.                      *)
(***************************************************************************)
\* What is found under an id is kept under its own key.
Named ==
  \A i \in Ids : memory.handoffs[i] # None =>
    memory.handoffs[i].id = i /\ memory.byKey[memory.handoffs[i].key] = i

\* A submission that was kept is found under its id, or another is, with another key.
Kept(o) ==
  /\ memory.byKey[o.key] = o.id
  /\ memory.handoffs[o.id] # None
  /\ memory.handoffs[o.id] = o \/ memory.handoffs[o.id].key # o.key

\* The submission the barrier's packet of s is from.
TakenFrom(v, s, o) ==
  /\ o.id = memory.acceptedBySource[<<v, s>>]
  /\ o.source = s /\ o.version = v
  /\ o.packet = memory.barriers[v].hashes[s]
  /\ Kept(o)

MatchedAt(v) ==
  /\ \A s \in Predecessors : memory.acceptedBySource[<<v, s>>] # None =>
       /\ memory.acceptedBySource[<<v, s>>] \in memory.barriers[v].accepted
       /\ \E o \in Offers : TakenFrom(v, s, o)
  /\ \A i \in memory.barriers[v].accepted :
       \E s \in Predecessors : memory.acceptedBySource[<<v, s>>] = i

Matched == \A v \in Versions : IsOpen(v) => MatchedAt(v)

LEMMA HandoffsKept ==
  ASSUME TypeOK, Named, Sound
  PROVE  Named' /\ \A o \in Offers : Kept(o) => Kept(o)'
<1>1. CASE memory'.handoffs = memory.handoffs /\ memory'.byKey = memory.byKey
  BY <1>1 DEF Named, Kept
<1>2. ASSUME NEW p \in Offers, Remembers(p)
      PROVE  Named' /\ \A o \in Offers : Kept(o) => Kept(o)'
  <2>1. \A i \in Ids : memory'.handoffs[i] = IF i = p.id THEN p ELSE memory.handoffs[i]
    BY <1>2, OfferType DEF Remembers, TypeOK, Projections
  <2>2. \A k \in Keys : memory'.byKey[k] = IF k = p.key THEN p.id ELSE memory.byKey[k]
    BY <1>2, OfferType DEF Remembers, TypeOK, Projections
  <2>3. memory.byKey[p.key] = None
    BY <1>2 DEF Remembers
  <2>4. \A i \in Ids : memory.handoffs[i] # None => memory.handoffs[i] \in Offers
    BY DEF TypeOK, Projections
  <2>5. Named'
    <3> SUFFICES ASSUME NEW i \in Ids, memory'.handoffs[i] # None
                 PROVE  memory'.handoffs[i].id = i /\ memory'.byKey[memory'.handoffs[i].key] = i
      BY DEF Named
    <3>1. CASE i = p.id
      BY <2>1, <2>2, <3>1, OfferType
    <3>2. CASE i # p.id
      <4>1. /\ memory'.handoffs[i] = memory.handoffs[i] /\ memory.handoffs[i] \in Offers
            /\ memory.byKey[memory.handoffs[i].key] = i /\ memory.handoffs[i].id = i
        BY <2>1, <2>4, <3>2 DEF Named
      <4>2. memory.handoffs[i].key # p.key /\ memory.handoffs[i].key \in Keys
        BY <2>3, <4>1, OfferType
      <4> QED BY <2>2, <4>1, <4>2
    <3> QED BY <3>1, <3>2
  <2>6. ASSUME NEW o \in Offers, Kept(o) PROVE Kept(o)'
    <3>1. o.key # p.key /\ o.key \in Keys /\ o.id \in Ids
      BY <2>3, <2>6, OfferType DEF Kept
    <3>2. memory'.byKey[o.key] = o.id
      BY <2>2, <2>6, <3>1 DEF Kept
    <3>3. memory'.handoffs[o.id] = p \/ memory'.handoffs[o.id] = memory.handoffs[o.id]
      BY <2>1, <3>1
    <3> QED BY <2>6, <3>1, <3>2, <3>3, OfferType DEF Kept
  <2> QED BY <2>5, <2>6
<1> QED BY <1>1, <1>2 DEF Sound, Moves, Takes

LEMMA MatchedKept == ASSUME IInv, Named, Matched, Sound PROVE Matched'
<1> USE DEF IInv
<1> SUFFICES ASSUME NEW v \in Versions, memory'.barriers[v] # Absent PROVE MatchedAt(v)'
  BY DEF Matched, IsOpen
<1>1. \A o \in Offers : Kept(o) => Kept(o)'
  BY HandoffsKept
<1>2. ASSUME IsOpen(v) PROVE memory.barriers[v] \in Barriers /\ MatchedAt(v)
  <2>1. memory.barriers[v] \in Barriers
    BY <1>2 DEF IsOpen, TypeOK, Projections, Absent
  <2> QED BY <1>2, <2>1 DEF Matched
<1>3. ASSUME IsOpen(v),
             memory'.barriers[v].accepted = memory.barriers[v].accepted,
             memory'.barriers[v].hashes = memory.barriers[v].hashes,
             \A s \in Predecessors :
               memory'.acceptedBySource[<<v, s>>] = memory.acceptedBySource[<<v, s>>]
      PROVE  MatchedAt(v)'
  <2>1. ASSUME NEW s \in Predecessors, NEW o \in Offers, TakenFrom(v, s, o)
        PROVE  TakenFrom(v, s, o)'
    BY <1>1, <1>3, <2>1 DEF TakenFrom
  <2> QED BY <1>2, <1>3, <2>1 DEF MatchedAt
<1>4. ASSUME ~IsOpen(v) PROVE MatchedAt(v)'
  <2>1. PICK w \in Versions : Opens(w) /\ w = v
    BY <1>4, TakenBarrier, OfferType DEF Sound, Moves, SameBarriers, Opens, GivesUp, Takes, IsOpen,
       TypeOK, Projections
  <2>2. memory'.barriers[v] = Opened
    BY <2>1 DEF Opens, TypeOK, Projections
  <2>3. Opened.accepted = {}
    BY DEF Opened
  <2>4. \A s \in Predecessors : memory'.acceptedBySource[<<v, s>>] = None
    BY <1>4, <2>1 DEF Opens, Indexed
  <2> QED BY <2>2, <2>3, <2>4 DEF MatchedAt
<1>5. ASSUME IsOpen(v), NEW o \in Offers, Takes(o), v = o.version,
             memory.barriers[v].hashes[o.source] = None,
             memory'.barriers[v].hashes = [memory.barriers[v].hashes EXCEPT ![o.source] = o.packet],
             memory'.barriers[v].accepted = memory.barriers[v].accepted \cup {o.id}
      PROVE  MatchedAt(v)'
  <2> DEFINE b == memory.barriers[v]
  <2>1. b \in Barriers /\ MatchedAt(v)
    BY <1>2, <1>5
  <2>2. b.accepted \subseteq Ids /\ b.hashes \in [Predecessors -> Packets \cup {None}]
    BY <2>1 DEF Barriers
  <2>3. \A s \in Predecessors : memory'.acceptedBySource[<<v, s>>]
          = IF s = o.source THEN o.id ELSE memory.acceptedBySource[<<v, s>>]
    BY <1>5, OfferType DEF Takes, TypeOK, Projections
  <2>4. Kept(o)'
    BY <1>5, OfferType DEF Takes, Remembers, Kept, TypeOK, Projections
  <2>5. memory.acceptedBySource[<<v, o.source>>] = None
    BY <1>5, OfferType DEF Takes, FirstFrom
  <2>6. ASSUME NEW s \in Predecessors, memory'.acceptedBySource[<<v, s>>] # None
        PROVE  /\ memory'.acceptedBySource[<<v, s>>] \in memory'.barriers[v].accepted
               /\ \E p \in Offers : TakenFrom(v, s, p)'
    <3>1. CASE s = o.source
      <4>1. memory'.barriers[v].hashes[s] = o.packet
        BY <1>5, <2>2, <3>1
      <4>2. TakenFrom(v, s, o)'
        BY <1>5, <2>3, <2>4, <3>1, <4>1 DEF TakenFrom
      <4> QED BY <1>5, <2>3, <3>1, <4>2
    <3>2. CASE s # o.source
      <4>1. memory'.acceptedBySource[<<v, s>>] = memory.acceptedBySource[<<v, s>>]
            /\ memory'.barriers[v].hashes[s] = b.hashes[s]
        BY <1>5, <2>2, <2>3, <3>2
      <4>2. PICK p \in Offers : TakenFrom(v, s, p)
        BY <2>1, <2>6, <4>1 DEF MatchedAt
      <4>3. TakenFrom(v, s, p)'
        BY <1>1, <4>1, <4>2 DEF TakenFrom
      <4>4. memory.acceptedBySource[<<v, s>>] \in b.accepted
        BY <2>1, <2>6, <4>1 DEF MatchedAt
      <4> QED BY <1>5, <4>1, <4>3, <4>4
    <3> QED BY <3>1, <3>2
  <2>7. ASSUME NEW i \in memory'.barriers[v].accepted
        PROVE  \E s \in Predecessors : memory'.acceptedBySource[<<v, s>>] = i
    <3>1. CASE i = o.id
      BY <2>3, <3>1, OfferType
    <3>2. CASE i \in b.accepted
      <4>1. PICK s \in Predecessors : memory.acceptedBySource[<<v, s>>] = i
        BY <2>1, <3>2 DEF MatchedAt
      <4>2. s # o.source
        BY <2>2, <2>5, <3>2, <4>1, NoneAssumption
      <4> QED BY <2>3, <4>1, <4>2
    <3> QED BY <1>5, <3>1, <3>2
  <2> QED BY <2>6, <2>7 DEF MatchedAt
<1>6. ASSUME IsOpen(v),
             \/ memory'.barriers[v] = memory.barriers[v]
             \/ /\ memory'.barriers[v].hashes = memory.barriers[v].hashes
                /\ memory'.barriers[v].accepted = memory.barriers[v].accepted,
             ~ \E o \in Offers : Takes(o) /\ v = o.version
      PROVE  MatchedAt(v)'
  <2>1. \A s \in Predecessors :
          memory'.acceptedBySource[<<v, s>>] = memory.acceptedBySource[<<v, s>>]
    <3>1. CASE memory'.acceptedBySource = memory.acceptedBySource
      BY <3>1
    <3>2. ASSUME NEW o \in Offers, Takes(o)
          PROVE  \A s \in Predecessors :
                   memory'.acceptedBySource[<<v, s>>] = memory.acceptedBySource[<<v, s>>]
      BY <1>6, <3>2, OfferType DEF Takes, TypeOK, Projections
    <3> QED BY <3>1, <3>2 DEF Sound, Moves, SameBarriers, Opens, GivesUp
  <2> QED BY <1>3, <1>6, <2>1
<1>7. ASSUME IsOpen(v), NEW o \in Offers, Takes(o), v = o.version
      PROVE  MatchedAt(v)'
  <2>1. memory.barriers[v].hashes[o.source] = None
    BY <1>7, OfferType DEF Takes, FirstFrom, Indexed
  <2> QED BY <1>5, <1>7, <2>1, TakenBarrier
<1>8. CASE IsOpen(v)
  BY <1>6, <1>7, <1>8, BarrierMoves
<1> QED BY <1>4, <1>8

\* Every packet a completed barrier accepted reaches the destination, and no other,
\* unless the id it is found under was used again under another key.
THEOREM InputsAreAlwaysTheAccepted == Spec => []InputsAreTheAccepted
<1> DEFINE Inv == IInv /\ Named /\ Matched
<1>1. Init => Inv
  <2>1. Init => Named
    BY DEF Init, Empty, Named
  <2>2. Init => Matched
    BY DEF Init, Empty, Matched, IsOpen
  <2> QED BY <2>1, <2>2, InitIInv
<1>2. Inv /\ [Next]_vars => Inv'
  <2> SUFFICES ASSUME Inv, [Next]_vars PROVE Inv'
    OBVIOUS
  <2>1. Sound
    BY StepMoves DEF IInv
  <2> QED BY <2>1, Inductive, HandoffsKept, MatchedKept DEF IInv
<1>3. Inv => InputsAreTheAccepted
  <2> SUFFICES ASSUME Inv, NEW v \in Versions, memory.barriers[v].status = "completed"
               PROVE  LET barrier == memory.barriers[v] IN
         /\ \A s \in Predecessors :
              LET i == memory.acceptedBySource[<<v, s>>]
              IN /\ i \in barrier.accepted
                 /\ \/ Resubmitted(i)
                    \/ \E o \in Inputs(v) : o.id = i /\ o.source = s /\ o.packet = barrier.hashes[s]
         /\ \A i \in barrier.accepted :
              \/ Resubmitted(i)
              \/ LET o == memory.handoffs[i]
                 IN o.version = v /\ o.packet = barrier.hashes[o.source]
    BY DEF InputsAreTheAccepted
  <2>1. IsOpen(v)
    BY DEF IsOpen, Absent
  <2>2. MatchedAt(v) /\ Satisfied(memory.barriers[v].hashes)
    BY <2>1 DEF Matched, IInv, Settled
  <2>3. ASSUME NEW o \in Offers, Kept(o)
        PROVE  Resubmitted(o.id) \/ memory.handoffs[o.id] = o
    <3>1. CASE memory.handoffs[o.id].key # o.key /\ memory.handoffs[o.id] # None
      <4>1. memory.handoffs[o.id] \in Offers
        BY <3>1, OfferType DEF IInv, TypeOK, Projections
      <4>2. memory.byKey[memory.handoffs[o.id].key] = o.id
        BY <3>1, OfferType DEF Named
      <4> QED BY <2>3, <3>1, <4>1, <4>2, OfferType DEF Kept, Resubmitted
    <3> QED BY <2>3, <3>1 DEF Kept
  <2>4. ASSUME NEW s \in Predecessors
        PROVE  LET i == memory.acceptedBySource[<<v, s>>]
               IN /\ i \in memory.barriers[v].accepted
                  /\ \E o \in Offers : TakenFrom(v, s, o)
    <3>1. memory.barriers[v].hashes[s] # None
      BY <2>2 DEF Satisfied
    <3>2. memory.acceptedBySource[<<v, s>>] # None
      BY <2>1, <3>1 DEF IInv, Indexed
    <3> QED BY <2>2, <3>2 DEF MatchedAt
  <2>5. ASSUME NEW s \in Predecessors
        PROVE  LET i == memory.acceptedBySource[<<v, s>>]
               IN \/ Resubmitted(i)
                  \/ \E o \in Inputs(v) :
                       /\ o.id = i /\ o.source = s /\ o.version = v
                       /\ o.packet = memory.barriers[v].hashes[s]
                       /\ memory.handoffs[i] = o
    BY <2>3, <2>4 DEF TakenFrom, Inputs
  <2>6. ASSUME NEW i \in memory.barriers[v].accepted
        PROVE  \/ Resubmitted(i)
               \/ LET o == memory.handoffs[i]
                  IN o.version = v /\ o.packet = memory.barriers[v].hashes[o.source]
    <3>1. PICK s \in Predecessors : memory.acceptedBySource[<<v, s>>] = i
      BY <2>2, <2>6 DEF MatchedAt
    <3> QED BY <2>5, <3>1
  <2> QED BY <2>4, <2>5, <2>6
<1> QED BY <1>1, <1>2, <1>3, PTL DEF Spec
-----------------------------------------------------------------------------
(***************************************************************************)
(* The runtime.                                                            *)
(***************************************************************************)
Stages == {Runtime!None, "queued", "started", "prepared", "running", "raised", "returned", "timeout",
           "cancelled", "submitted", "refused"}
WorkerOutcomes == {Runtime!None, "completed", "failed", "cancelled"}
JoinBarriers ==
  [status: {Runtime!None, "waiting", "completed", "conflicting"},
   got: [Runtime!Team -> WorkerPackets \cup {Runtime!None}],
   known: SUBSET (Runtime!Team \X WorkerPackets)]

TeamTypes ==
  /\ outcomes \in [Runtime!Team -> WorkerOutcomes]
  /\ joins \in [Runtime!Joins -> JoinBarriers]
  /\ leases \in [Runtime!Team -> {Runtime!None, "granted", "active", "released", "failed", "cancelled", "expired"}]
  /\ waves \in [Runtime!Team -> Stages]
  /\ thread \in SUBSET Runtime!Team
  /\ at \in {"idle", "ready", "preparing", "waiting", "committing", "releasing"}

\* The inputs of an assignment are complete.
Fed(a) ==
  \A p \in Needs[a] : outcomes[p] = "completed" /\ joins[a].got[p] \in WorkerPackets \ Unsettled

\* A completed barrier has a packet with nothing open from each predecessor.
JoinedIsComplete ==
  \A d \in Runtime!Joins : joins[d].status = "completed" =>
    \A s \in Needs[d] : joins[d].got[s] \in WorkerPackets \ Unsettled

Busy(a) == waves[a] # Runtime!None

\* A wave has members until the next is looked for; each has its inputs, and of
\* none is an outcome recorded, but of the one whose lease is to be released.
WaveIsPending ==
  /\ at \in {"idle", "ready"} => waves = Runtime!NoWave
  /\ at \notin {"idle", "ready"} => \E a \in Runtime!Team : Busy(a)
  /\ \A a \in Runtime!Team : Busy(a) =>
       /\ Fed(a)
       /\ outcomes[a] = Runtime!None \/ (at = "releasing" /\ a = Runtime!Member)
  /\ at = "releasing" => outcomes[Runtime!Member] # Runtime!None

\* The execution that ended the task has returned and left no lease it did not
\* try to release.
EndedIsTried ==
  teamTask \in Runtime!Ended =>
    /\ at = "idle"
    /\ \A a \in Runtime!Team : leases[a] \in Runtime!Held => a \in unreleased

TeamInv ==
  /\ TeamTypes /\ JoinedIsComplete /\ WaveIsPending /\ EndedIsTried
  /\ \A a \in thread : Fed(a)
-----------------------------------------------------------------------------
LEMMA Least ==
  ASSUME NEW n \in Nat, NEW S \in SUBSET (1..n), S # {}
  PROVE  \E k \in S : \A m \in S : k <= m
<1> DEFINE R == StrictSubsetOrdering(1..n)
           T == {1..k : k \in S}
<1>1. T \subseteq SUBSET (1..n) /\ T # {}
  <2>1. \A k \in S : 1..k \subseteq 1..n
    OBVIOUS
  <2> QED BY <2>1
<1>2. IsWellFoundedOn(R, SUBSET (1..n))
  <2>1. IsFiniteSet(1..n)
    BY FS_Interval
  <2> QED BY <2>1, FS_StrictSubsetOrderingWellFounded, FS_FiniteSubsetsOfFinite
<1>3. PICK X \in T : \A Y \in T : ~ (<<Y, X>> \in R)
  BY <1>1, <1>2, WFMin
<1>4. PICK k \in S : X = 1..k
  OBVIOUS
<1>5. ASSUME NEW m \in S, m < k
      PROVE  FALSE
  <2>1. 1..m \in T /\ 1..m \in SUBSET (1..n) /\ 1..k \in SUBSET (1..n)
    BY <1>1, <1>4
  <2>2. 1..m \subseteq 1..k /\ k \in 1..k /\ k \notin 1..m
    BY <1>5
  <2>3. <<1..m, 1..k>> \in R
    BY <2>1, <2>2 DEF StrictSubsetOrdering
  <2> QED BY <1>3, <1>4, <2>1, <2>3
<1>6. \A m \in S : k <= m
  BY <1>5
<1> QED BY <1>6

\* The first of some assignments is one of them, and none is placed before it.
LEMMA FirstLeads ==
  ASSUME Runtime!TeamAssumption, NEW S \in SUBSET Runtime!Team, S # {}
  PROVE  Runtime!First(S) \in S /\ Runtime!Place(Runtime!First(S), S) = 0
<1> DEFINE I == {i \in 1..Len(Order) : Order[i] \in S}
           Leads(a) == \A i \in 1..Len(Order) : Order[i] \in S => \E j \in 1..i : Order[j] = a
<1>1. Len(Order) \in Nat
  BY DEF Runtime!TeamAssumption
<1>2. I # {} /\ I \in SUBSET (1..Len(Order))
  BY DEF Runtime!Team
<1>3. PICK k \in I : \A m \in I : k <= m
  <2> HIDE DEF I
  <2> QED BY <1>1, <1>2, Least
<1>4. Order[k] \in S /\ Leads(Order[k])
  BY <1>1, <1>3
<1>5. Runtime!First(S) \in S /\ Leads(Runtime!First(S))
  BY <1>4 DEF Runtime!First
<1> DEFINE a == Runtime!First(S)
           Before == {b \in S : \E i, j \in 1..Len(Order) : i < j /\ Order[i] = b /\ Order[j] = a}
<1>6. ASSUME NEW b \in S, NEW i \in 1..Len(Order), NEW j \in 1..Len(Order),
             i < j, Order[i] = b, Order[j] = a
      PROVE  FALSE
  <2>1. PICK h \in 1..i : Order[h] = a
    BY <1>5, <1>6
  <2>2. h \in 1..Len(Order) /\ h < j
    BY <1>1, <1>6
  <2> QED BY <1>6, <2>1, <2>2 DEF Runtime!TeamAssumption
<1>7. Before = {}
  BY <1>6
<1>8. Runtime!Place(a, S) = 0
  <2>1. Runtime!Cardinality(Before) = Cardinality(Before)
    BY DEF Cardinality, Runtime!Cardinality
  <2>2. Runtime!Place(a, S) = Runtime!Cardinality(Before)
    BY DEF Runtime!Place
  <2> QED BY <1>7, <2>1, <2>2, FS_EmptySet
<1> QED BY <1>5, <1>8
-----------------------------------------------------------------------------
\* What is recorded is not recorded anew.
OutcomesStay == \A a \in Runtime!Team : outcomes[a] # Runtime!None => outcomes'[a] = outcomes[a]
PacketsStay ==
  \A d \in Runtime!Joins : \A s \in Runtime!Team :
    joins[d].got[s] # Runtime!None => joins'[d].got[s] = joins[d].got[s]

LEMMA FedStays ==
  ASSUME Runtime!TeamAssumption, TeamTypes, OutcomesStay, PacketsStay, NEW a \in Runtime!Team, Fed(a)
  PROVE  Fed(a)'
<1>1. ASSUME NEW p \in Needs[a]
      PROVE  outcomes'[p] = "completed" /\ joins'[a].got[p] \in WorkerPackets \ Unsettled
  <2>1. p \in Runtime!Team /\ a \in Runtime!Joins
    BY <1>1 DEF Runtime!TeamAssumption, Runtime!Joins
  <2>2. outcomes[p] = "completed" /\ joins[a].got[p] \in WorkerPackets \ Unsettled
    BY <1>1 DEF Fed
  <2>3. outcomes[p] # Runtime!None /\ joins[a].got[p] # Runtime!None
    BY <2>2 DEF Runtime!TeamAssumption, Runtime!None
  <2> QED BY <2>1, <2>2, <2>3 DEF OutcomesStay, PacketsStay
<1> QED BY <1>1 DEF Fed

\* execute() ends, whatever it has written before.
LEMMA StopsKeeps ==
  ASSUME Runtime!TeamAssumption, TeamInv, NEW t, Runtime!Stops(t),
         outcomes' = outcomes, thread' = thread,
         joins' \in [Runtime!Joins -> JoinBarriers], JoinedIsComplete', PacketsStay
  PROVE  TeamInv'
<1>1. TeamTypes /\ WaveIsPending /\ (\A a \in thread : Fed(a)) /\ OutcomesStay
  BY DEF TeamInv, OutcomesStay
<1>2. at' = "idle" /\ waves' = Runtime!NoWave
  BY DEF Runtime!Stops
<1>8. PICK stuck \in SUBSET Runtime!Tried :
        /\ leases' = [a \in Runtime!Team |-> IF a \in Runtime!Tried \ stuck THEN "failed" ELSE leases[a]]
        /\ unreleased' = stuck
  BY DEF Runtime!Stops
<1>3. Runtime!NoWave \in [Runtime!Team -> Stages]
  BY DEF Runtime!NoWave, Stages
<1>4. TeamTypes'
  BY <1>1, <1>2, <1>3, <1>8 DEF TeamTypes
<1>5. EndedIsTried'
  BY <1>2, <1>8 DEF EndedIsTried, Runtime!Held, Runtime!Tried
<1>6. WaveIsPending'
  <2>1. \A a \in Runtime!Team : waves'[a] = Runtime!None
    BY <1>2 DEF Runtime!NoWave
  <2> QED BY <1>2, <2>1 DEF WaveIsPending, Busy, Runtime!NoWave
<1>7. \A a \in thread : Fed(a)'
  BY <1>1, FedStays DEF TeamTypes
<1> QED BY <1>4, <1>5, <1>6, <1>7 DEF TeamInv

LEMMA BarriersSame ==
  ASSUME TeamInv, joins' = joins
  PROVE  joins' \in [Runtime!Joins -> JoinBarriers] /\ JoinedIsComplete' /\ PacketsStay
BY DEF TeamInv, TeamTypes, JoinedIsComplete, PacketsStay

\* A step that records no outcome and opens no lease.
LEMMA WaveSteps ==
  ASSUME Runtime!TeamAssumption, TeamInv, outcomes' = outcomes, joins' = joins,
         at # "idle", at' # "idle", teamTask' \notin Runtime!Ended,
         leases' \in [Runtime!Team -> {Runtime!None, "granted", "active", "released", "failed", "cancelled", "expired"}],
         waves' \in [Runtime!Team -> Stages], thread' \in SUBSET Runtime!Team,
         at' \in {"idle", "ready", "preparing", "waiting", "committing", "releasing"},
         at' \in {"idle", "ready"} => waves' = Runtime!NoWave,
         at' \notin {"idle", "ready"} => \E a \in Runtime!Team : waves'[a] # Runtime!None,
         \A a \in Runtime!Team : waves'[a] # Runtime!None => Fed(a)
           /\ (outcomes[a] = Runtime!None \/ (at' = "releasing" /\ a = Runtime!Member')),
         at' = "releasing" => outcomes[Runtime!Member'] # Runtime!None,
         \A a \in thread' : Fed(a)
  PROVE  TeamInv'
<1>1. TeamTypes /\ OutcomesStay /\ joins' \in [Runtime!Joins -> JoinBarriers] /\ JoinedIsComplete'
      /\ PacketsStay
  BY BarriersSame DEF TeamInv, OutcomesStay
<1>2. TeamTypes'
  BY <1>1 DEF TeamTypes
<1>3. \A a \in Runtime!Team : Fed(a) => Fed(a)'
  BY <1>1, FedStays
<1>4. WaveIsPending'
  BY <1>3 DEF WaveIsPending, Busy, Runtime!NoWave
<1>5. EndedIsTried'
  BY DEF EndedIsTried
<1>6. \A a \in thread' : Fed(a)'
  BY <1>3
<1> QED BY <1>1, <1>2, <1>4, <1>5, <1>6 DEF TeamInv


WorkerLeases ==
  [Runtime!Team -> {Runtime!None, "granted", "active", "released", "failed", "cancelled", "expired"}]

LEMMA TeamInit == Runtime!TeamAssumption /\ Runtime!Init => TeamInv
<1> SUFFICES ASSUME Runtime!TeamAssumption, Runtime!Init PROVE TeamInv
  OBVIOUS
<1>1. Runtime!Unopened \in JoinBarriers /\ Runtime!Unopened.status = Runtime!None
  BY DEF Runtime!Unopened, JoinBarriers, Runtime!NoWave
<1>2. joins \in [Runtime!Joins -> JoinBarriers] /\ \A d \in Runtime!Joins : joins[d].status = Runtime!None
  BY <1>1 DEF Runtime!Init
<1>3. TeamTypes
  BY <1>2 DEF Runtime!Init, TeamTypes, WorkerOutcomes, Stages, Runtime!NoWave
<1>4. JoinedIsComplete
  BY <1>2 DEF JoinedIsComplete, Runtime!None
<1>5. WaveIsPending
  BY DEF Runtime!Init, WaveIsPending, Busy, Runtime!NoWave
<1>6. EndedIsTried
  BY DEF Runtime!Init, EndedIsTried, Runtime!Ended
<1> QED BY <1>3, <1>4, <1>5, <1>6 DEF TeamInv, Runtime!Init

\* The task goes on while execute() runs.
LEMMA NotEnded ==
  ASSUME TeamInv, at # "idle"
  PROVE  teamTask \notin Runtime!Ended
BY DEF TeamInv, EndedIsTried

\* The member that is committed next is one of the wave.
LEMMA MemberIsBusy ==
  ASSUME Runtime!TeamAssumption, TeamInv, at \notin {"idle", "ready"}
  PROVE  Runtime!Member \in Runtime!Team /\ Busy(Runtime!Member) /\ Fed(Runtime!Member)
<1> DEFINE S == {a \in Runtime!Team : waves[a] # Runtime!None}
<1>1. S # {}
  BY DEF TeamInv, WaveIsPending, Busy
<1>2. Runtime!First(S) \in S
  <2> HIDE DEF S
  <2>1. S \in SUBSET Runtime!Team
    BY DEF S
  <2> QED BY <1>1, <2>1, FirstLeads
<1>3. Runtime!Member \in S
  BY <1>2 DEF Runtime!Member
<1> QED BY <1>3 DEF TeamInv, WaveIsPending, Busy

\* An execution fails, is vetoed or is cancelled, and no barrier changes.
LEMMA StopsHere ==
  ASSUME Runtime!TeamAssumption, TeamInv, NEW t, Runtime!Stops(t),
         outcomes' = outcomes, joins' = joins, thread' = thread
  PROVE  TeamInv'
BY BarriersSame, StopsKeeps

LEMMA FailsHere ==
  ASSUME Runtime!TeamAssumption, TeamInv, Runtime!FailsTeam,
         outcomes' = outcomes, joins' = joins, thread' = thread
  PROVE  TeamInv'
<1>1. PICK t : Runtime!Stops(t)
  BY DEF Runtime!FailsTeam
<1> QED BY <1>1, StopsHere

LEMMA VetoedHere ==
  ASSUME Runtime!TeamAssumption, TeamInv, NEW t, Runtime!Vetoed(t),
         outcomes' = outcomes, joins' = joins, thread' = thread
  PROVE  TeamInv'
BY StopsHere DEF Runtime!Vetoed

\* An outcome is recorded of an assignment that has none.
LEMMA SettlesKeeps ==
  ASSUME Runtime!TeamAssumption, TeamInv, at # "idle", NEW a \in Runtime!Team,
         outcomes[a] = Runtime!None, NEW o \in WorkerOutcomes \ {Runtime!None},
         outcomes' = [outcomes EXCEPT ![a] = o], UNCHANGED <<teamTask, joins, leases, waves, thread>>,
         \/ at = "ready" /\ at' = "ready"
         \/ at \notin {"idle", "ready"} /\ a = Runtime!Member /\ at' = "releasing" /\ at # "releasing"
  PROVE  TeamInv'
<1>1. TeamTypes /\ WaveIsPending /\ teamTask \notin Runtime!Ended /\ (\A b \in thread : Fed(b))
  BY NotEnded DEF TeamInv
<1>2. TeamTypes'
  BY <1>1 DEF TeamTypes
<1>3. JoinedIsComplete' /\ PacketsStay
  BY BarriersSame
<1>4. OutcomesStay
  BY <1>1 DEF TeamTypes, OutcomesStay
<1>5. \A b \in Runtime!Team : Fed(b) => Fed(b)'
  BY <1>1, <1>3, <1>4, FedStays
<1>6. \A b \in Runtime!Team : b # a => outcomes'[b] = outcomes[b]
  BY <1>1 DEF TeamTypes
<1>7. Runtime!Member' = Runtime!Member
  BY DEF Runtime!Member
<1>8. WaveIsPending'
  <2>1. outcomes'[a] # Runtime!None
    BY <1>1 DEF TeamTypes
  <2> QED BY <1>1, <1>5, <1>6, <1>7, <2>1 DEF WaveIsPending, Busy, Runtime!NoWave
<1>9. EndedIsTried'
  BY <1>1 DEF EndedIsTried
<1>10. \A b \in thread' : Fed(b)'
  BY <1>1, <1>5 DEF TeamTypes
<1> QED BY <1>2, <1>3, <1>8, <1>9, <1>10 DEF TeamInv

LEMMA MemberSettles ==
  ASSUME Runtime!TeamAssumption, TeamInv, at = "committing", NEW o \in WorkerOutcomes \ {Runtime!None},
         Runtime!Settles(Runtime!Member, o),
         UNCHANGED <<joins, thread>>
  PROVE  TeamInv'
<1>1. teamTask \notin Runtime!Ended /\ Runtime!Member \in Runtime!Team /\ Busy(Runtime!Member)
  BY NotEnded, MemberIsBusy
<1>2. outcomes[Runtime!Member] = Runtime!None
  BY <1>1 DEF TeamInv, WaveIsPending
<1>3. CASE Runtime!MaySettle(o)
  <2>1. outcomes' = [outcomes EXCEPT ![Runtime!Member] = o] /\ at' = "releasing"
        /\ UNCHANGED <<teamTask, leases, waves>>
    BY <1>3 DEF Runtime!Settles, Runtime!lent
  <2> QED BY <1>1, <1>2, <2>1, SettlesKeeps
<1>4. CASE ~Runtime!MaySettle(o)
  <2>1. Runtime!FailsTeam /\ outcomes' = outcomes
    BY <1>4 DEF Runtime!Settles
  <2> QED BY <1>1, <2>1, FailsHere
<1> QED BY <1>3, <1>4
-----------------------------------------------------------------------------
(* The steps of execute().                                                 *)

LEMMA ExecuteKeeps ==
  ASSUME Runtime!TeamAssumption, TeamInv, Runtime!Execute
  PROVE  TeamInv'
<1>1. at = "idle" /\ UNCHANGED <<outcomes, joins, thread>>
  BY DEF Runtime!Execute
<1>2. CASE Runtime!MayStart /\ at' = "ready" /\ UNCHANGED <<teamTask, leases, waves>>
  <2>1. TeamTypes' /\ JoinedIsComplete'
    BY <1>1, <1>2 DEF TeamInv, TeamTypes, JoinedIsComplete
  <2>2. WaveIsPending' /\ EndedIsTried'
    BY <1>1, <1>2 DEF TeamInv, WaveIsPending, EndedIsTried, Busy, Runtime!NoWave, Runtime!MayStart, Runtime!Ended
  <2>3. \A a \in thread' : Fed(a)'
    BY <1>1 DEF TeamInv, Fed
  <2> QED BY <2>1, <2>2, <2>3 DEF TeamInv
<1>3. CASE Runtime!Vetoed(teamTask)
  BY <1>1, <1>3, VetoedHere
<1> QED BY <1>2, <1>3 DEF Runtime!Execute

LEMMA NextWaveKeeps ==
  ASSUME Runtime!TeamAssumption, TeamInv, Runtime!NextWave
  PROVE  TeamInv'
<1>1. at = "ready" /\ Runtime!Runnable # {} /\ at' = "preparing"
      /\ UNCHANGED <<teamTask, outcomes, joins, leases, thread>>
  BY DEF Runtime!NextWave, Runtime!durable, Runtime!lent
<1>2. waves' = [a \in Runtime!Team |-> IF a \in Runtime!Runnable /\ Runtime!Place(a, Runtime!Runnable) < Capacity THEN "queued" ELSE Runtime!None]
  BY DEF Runtime!NextWave
<1>3. Runtime!Runnable \in SUBSET Runtime!Team
  BY DEF Runtime!Runnable, Runtime!Pending
<1>4. Runtime!First(Runtime!Runnable) \in Runtime!Runnable
      /\ Runtime!Place(Runtime!First(Runtime!Runnable), Runtime!Runnable) = 0
  BY <1>1, <1>3, FirstLeads
<1>5. waves'[Runtime!First(Runtime!Runnable)] # Runtime!None
      /\ Runtime!First(Runtime!Runnable) \in Runtime!Team
  BY <1>2, <1>3, <1>4 DEF Runtime!TeamAssumption, Runtime!None
<1>6. \A a \in Runtime!Runnable : Fed(a) /\ outcomes[a] = Runtime!None
  <2>1. TAKE a \in Runtime!Runnable
  <2>2. a \in Runtime!Team /\ outcomes[a] = Runtime!None /\ Needs[a] \subseteq Runtime!Completed
        /\ (Needs[a] # {} => joins[a].status = "completed")
    BY <2>1 DEF Runtime!Runnable, Runtime!Ready, Runtime!Pending
  <2>3. ASSUME Needs[a] # {}
        PROVE  \A s \in Needs[a] : joins[a].got[s] \in WorkerPackets \ Unsettled
    BY <2>2, <2>3 DEF TeamInv, JoinedIsComplete, Runtime!Joins
  <2> QED BY <2>2, <2>3 DEF Fed, Runtime!Completed
<1>7. \A a \in Runtime!Team : waves'[a] # Runtime!None => Fed(a) /\ outcomes[a] = Runtime!None
  BY <1>2, <1>6
<1>8. waves' \in [Runtime!Team -> Stages]
  BY <1>2 DEF Stages
<1>9. teamTask' \notin Runtime!Ended /\ leases' \in WorkerLeases /\ thread' \in SUBSET Runtime!Team
      /\ \A a \in thread' : Fed(a)
  BY <1>1, NotEnded DEF TeamInv, TeamTypes, WorkerLeases
<1> QED BY <1>1, <1>5, <1>7, <1>8, <1>9, WaveSteps DEF WorkerLeases

LEMMA EndsKeep ==
  ASSUME Runtime!TeamAssumption, TeamInv, Runtime!NothingReady \/ Runtime!TeamCompletes
         \/ Runtime!FinishCancelled
  PROVE  TeamInv'
<1>1. at = "ready" /\ teamTask \notin Runtime!Ended /\ UNCHANGED <<outcomes, joins, thread>>
  BY NotEnded DEF Runtime!NothingReady, Runtime!TeamCompletes, Runtime!FinishCancelled
<1>2. CASE Runtime!NothingReady
  BY <1>1, <1>2, FailsHere DEF Runtime!NothingReady
<1>3. CASE Runtime!FinishCancelled
  BY <1>1, <1>3, StopsHere, VetoedHere DEF Runtime!FinishCancelled, Runtime!FinishesCancelled
<1>4. CASE Runtime!TeamCompletes
  <2>1. CASE at' = "idle" /\ UNCHANGED <<teamTask, leases, waves>>
    <3>1. TeamTypes' /\ JoinedIsComplete'
      BY <1>1, <2>1 DEF TeamInv, TeamTypes, JoinedIsComplete
    <3>2. WaveIsPending' /\ EndedIsTried'
      BY <1>1, <2>1 DEF TeamInv, WaveIsPending, EndedIsTried, Busy, Runtime!NoWave
    <3>3. \A a \in thread' : Fed(a)'
      BY <1>1 DEF TeamInv, Fed
    <3> QED BY <3>1, <3>2, <3>3 DEF TeamInv
  <2>2. CASE Runtime!Vetoed(teamTask)
    BY <1>1, <2>2, VetoedHere
  <2> QED BY <1>4, <2>1, <2>2 DEF Runtime!TeamCompletes, Runtime!lent
<1> QED BY <1>2, <1>3, <1>4

LEMMA CancelPendingKeeps ==
  ASSUME Runtime!TeamAssumption, TeamInv, Runtime!CancelPending
  PROVE  TeamInv'
<1> DEFINE a == Runtime!First(Runtime!Pending)
<1>1. at = "ready" /\ Runtime!Pending # {} /\ teamTask \notin Runtime!Ended /\ UNCHANGED <<joins, thread>>
  BY NotEnded DEF Runtime!CancelPending
<1>2. a \in Runtime!Team /\ outcomes[a] = Runtime!None
  <2>1. Runtime!Pending \in SUBSET Runtime!Team
    BY DEF Runtime!Pending
  <2>2. Runtime!First(Runtime!Pending) \in Runtime!Pending
    BY <1>1, <2>1, FirstLeads
  <2> QED BY <2>2 DEF Runtime!Pending
<1>3. CASE Runtime!MaySettle("cancelled")
  <2>1. outcomes' = [outcomes EXCEPT ![a] = "cancelled"] /\ UNCHANGED <<teamTask, leases, at, waves>>
    BY <1>3 DEF Runtime!CancelPending, Runtime!lent
  <2>2. "cancelled" \in WorkerOutcomes \ {Runtime!None}
    BY DEF WorkerOutcomes, Runtime!None
  <2> HIDE DEF a
  <2> QED BY <1>1, <1>2, <2>1, <2>2, SettlesKeeps
<1>4. CASE ~Runtime!MaySettle("cancelled")
  BY <1>1, <1>4, FailsHere DEF Runtime!CancelPending
<1> QED BY <1>3, <1>4

LEMMA StartWorkerKeeps ==
  ASSUME Runtime!TeamAssumption, TeamInv, Runtime!StartWorker
  PROVE  TeamInv'
<1> DEFINE S == Runtime!InWave({"queued"})
           a == Runtime!First(S)
<1>1. at = "preparing" /\ S # {} /\ teamTask \notin Runtime!Ended /\ UNCHANGED <<outcomes, joins, thread>>
  BY NotEnded DEF Runtime!StartWorker
<1>2. a \in Runtime!Team /\ waves[a] = "queued"
  <2>1. S \in SUBSET Runtime!Team /\ \A b \in S : waves[b] = "queued"
    BY DEF Runtime!InWave
  <2> HIDE DEF S
  <2> QED BY <1>1, <2>1, FirstLeads
<1>3. CASE leases' = [leases EXCEPT ![a] = "active"] /\ teamTask' = "executing"
           /\ waves' = [waves EXCEPT ![a] = "started"] /\ at' = at
  <2> HIDE DEF a, S
  <2>1. waves \in [Runtime!Team -> Stages] /\ leases \in WorkerLeases /\ thread \in SUBSET Runtime!Team
        /\ \A b \in thread : Fed(b)
    BY DEF TeamInv, TeamTypes, WorkerLeases
  <2>2. waves' \in [Runtime!Team -> Stages] /\ leases' \in WorkerLeases
    BY <1>3, <2>1 DEF Stages, WorkerLeases
  <2>3. waves'[a] # Runtime!None
    BY <1>2, <1>3, <2>1 DEF Runtime!None
  <2>4. \A b \in Runtime!Team : waves'[b] # Runtime!None => waves[b] # Runtime!None
    BY <1>2, <1>3, <2>1 DEF Runtime!None
  <2>5. \A b \in Runtime!Team : waves[b] # Runtime!None => Fed(b) /\ outcomes[b] = Runtime!None
    BY <1>1 DEF TeamInv, WaveIsPending, Busy
  <2>6. teamTask' \notin Runtime!Ended
    BY <1>3 DEF Runtime!Ended
  <2> QED BY <1>1, <1>2, <1>3, <2>1, <2>2, <2>3, <2>4, <2>5, <2>6, WaveSteps DEF WorkerLeases
<1>4. CASE Runtime!FailsTeam
  BY <1>1, <1>4, FailsHere
<1>5. CASE Runtime!Vetoed(teamTask)
  BY <1>1, <1>5, VetoedHere
<1> QED BY <1>3, <1>4, <1>5 DEF Runtime!StartWorker


\* A step that changes how far members of the wave are, and neither the lease
\* nor what is recorded.
LEMMA MembersMove ==
  ASSUME Runtime!TeamAssumption, TeamInv, at \notin {"idle", "ready"}, at # "releasing",
         at' \notin {"idle", "ready"},
         at' \in {"preparing", "waiting", "committing"},
         UNCHANGED <<teamTask, outcomes, joins, leases>>,
         waves' \in [Runtime!Team -> Stages],
         \A a \in Runtime!Team : waves'[a] = Runtime!None <=> waves[a] = Runtime!None,
         thread' \in SUBSET Runtime!Team, \A a \in thread' : a \in thread \/ waves[a] # Runtime!None
  PROVE  TeamInv'
<1>1. leases' \in WorkerLeases /\ teamTask' \notin Runtime!Ended
  BY NotEnded DEF TeamInv, TeamTypes, WorkerLeases
<1>2. \A a \in Runtime!Team : waves[a] # Runtime!None => Fed(a) /\ outcomes[a] = Runtime!None
  BY DEF TeamInv, WaveIsPending, Busy
<1>3. \E a \in Runtime!Team : waves'[a] # Runtime!None
  BY DEF TeamInv, WaveIsPending, Busy
<1>4. \A a \in thread' : Fed(a)
  BY <1>2 DEF TeamInv
<1> QED BY <1>1, <1>2, <1>3, <1>4, WaveSteps DEF WorkerLeases

LEMMA EquipWorkerKeeps ==
  ASSUME Runtime!TeamAssumption, TeamInv, Runtime!EquipWorker
  PROVE  TeamInv'
<1> DEFINE S == Runtime!InWave({"started"})
           a == Runtime!First(S)
           new == {d \in Runtime!Feeds(a) : joins[d].status = Runtime!None}
           opened == IF new = {} THEN teamTask ELSE "awaiting_check"
<1>1. at = "preparing" /\ S # {} /\ teamTask \notin Runtime!Ended /\ UNCHANGED <<outcomes, thread>>
  BY NotEnded DEF Runtime!EquipWorker
<1>2. a \in Runtime!Team /\ waves[a] = "started"
  <2>1. S \in SUBSET Runtime!Team /\ \A b \in S : waves[b] = "started"
    BY DEF Runtime!InWave
  <2> HIDE DEF S
  <2> QED BY <1>1, <2>1, FirstLeads
<1>3. CASE /\ joins' = [d \in Runtime!Joins |-> IF d \in new THEN [joins[d] EXCEPT !.status = "waiting"] ELSE joins[d]]
           /\ \/ teamTask' = opened /\ waves' = [waves EXCEPT ![a] = "prepared"] /\ UNCHANGED <<leases, at>>
              \/ Runtime!Vetoed(opened)
  <2>1. \A d \in Runtime!Joins : joins'[d].got = joins[d].got /\ joins'[d] \in JoinBarriers
                         /\ joins'[d].status \in {"waiting", joins[d].status}
    <3>1. TAKE d \in Runtime!Joins
    <3>2. joins[d] \in JoinBarriers
      BY <3>1 DEF TeamInv, TeamTypes
    <3>3. [joins[d] EXCEPT !.status = "waiting"] \in JoinBarriers
      BY <3>2 DEF JoinBarriers
    <3> HIDE DEF new
    <3> QED BY <1>3, <3>1, <3>2, <3>3 DEF JoinBarriers
  <2>2. joins' \in [Runtime!Joins -> JoinBarriers]
    <3> HIDE DEF new
    <3> QED BY <1>3, <2>1
  <2>3. JoinedIsComplete' /\ PacketsStay
    <3>1. \A d \in Runtime!Joins : joins'[d].status = "completed" => joins[d].status = "completed"
      BY <2>1
    <3>2. JoinedIsComplete
      BY DEF TeamInv
    <3> QED BY <2>1, <3>1, <3>2 DEF JoinedIsComplete, PacketsStay
  <2>4. opened \notin Runtime!Ended
    BY <1>1 DEF Runtime!Ended
  <2>5. CASE Runtime!Vetoed(opened)
    <3> HIDE DEF opened, new
    <3>1. Runtime!Stops(opened)
      BY <2>5 DEF Runtime!Vetoed
    <3> QED BY <1>1, <2>2, <2>3, <3>1, StopsKeeps
  <2>6. CASE teamTask' = opened /\ waves' = [waves EXCEPT ![a] = "prepared"] /\ UNCHANGED <<leases, at>>
    <3> HIDE DEF opened, new, a, S
    <3>1. TeamTypes /\ OutcomesStay
      BY <1>1 DEF TeamInv, OutcomesStay
    <3>2. waves' \in [Runtime!Team -> Stages]
          /\ \A b \in Runtime!Team : waves'[b] # Runtime!None <=> waves[b] # Runtime!None
      BY <1>2, <2>6, <3>1 DEF TeamTypes, Stages, Runtime!None
    <3>3. TeamTypes'
      BY <1>1, <2>2, <2>6, <3>1, <3>2 DEF TeamTypes
    <3>4. \A b \in Runtime!Team : Fed(b) => Fed(b)'
      BY <2>3, <3>1, FedStays
    <3>5. WaveIsPending'
      <4>1. WaveIsPending /\ at = "preparing" /\ at' = "preparing" /\ outcomes' = outcomes
        BY <1>1, <2>6 DEF TeamInv
      <4> QED BY <3>2, <3>4, <4>1 DEF WaveIsPending, Busy
    <3>6. EndedIsTried'
      BY <2>4, <2>6 DEF EndedIsTried
    <3>7. \A b \in thread' : Fed(b)'
      BY <1>1, <3>1, <3>4 DEF TeamInv, TeamTypes
    <3> QED BY <2>3, <3>3, <3>5, <3>6, <3>7 DEF TeamInv
  <2> QED BY <1>3, <2>5, <2>6
<1>4. CASE Runtime!FailsTeam /\ UNCHANGED joins
  BY <1>1, <1>4, FailsHere
<1>5. CASE Runtime!Vetoed(teamTask) /\ UNCHANGED joins
  BY <1>1, <1>5, VetoedHere
<1> QED BY <1>3, <1>4, <1>5 DEF Runtime!EquipWorker, Runtime!lent

LEMMA LaunchKeeps ==
  ASSUME Runtime!TeamAssumption, TeamInv, Runtime!Launch
  PROVE  TeamInv'
<1>1. at = "preparing" /\ at' = "waiting" /\ UNCHANGED <<teamTask, outcomes, joins, leases>>
      /\ thread' = thread \union Runtime!InWave({"prepared"})
      /\ waves' = [a \in Runtime!Team |-> IF waves[a] = "prepared" THEN "running" ELSE waves[a]]
  BY DEF Runtime!Launch, Runtime!durable, Runtime!lent
<1>2. waves \in [Runtime!Team -> Stages] /\ thread \in SUBSET Runtime!Team
  BY DEF TeamInv, TeamTypes
<1>3. waves' \in [Runtime!Team -> Stages]
      /\ \A a \in Runtime!Team : waves'[a] = Runtime!None <=> waves[a] = Runtime!None
  BY <1>1, <1>2 DEF Stages, Runtime!None
<1>4. thread' \in SUBSET Runtime!Team /\ \A a \in thread' : a \in thread \/ waves[a] # Runtime!None
  BY <1>1, <1>2 DEF Runtime!InWave, Runtime!None
<1> QED BY <1>1, <1>3, <1>4, MembersMove

LEMMA WorkerEndsKeeps ==
  ASSUME Runtime!TeamAssumption, TeamInv, NEW a \in Runtime!Team, Runtime!WorkerEnds(a)
  PROVE  TeamInv'
<1>1. UNCHANGED <<teamTask, outcomes, joins, leases, unreleased, at>> /\ thread' = thread \ {a}
  BY DEF Runtime!WorkerEnds, Runtime!durable, Runtime!lent
<1>2. waves \in [Runtime!Team -> Stages] /\ thread' \in SUBSET Runtime!Team
  BY <1>1 DEF TeamInv, TeamTypes
<1>3. CASE at = "waiting" /\ waves[a] = "running"
  <2>1. PICK s \in {"raised", "returned"} : waves' = [waves EXCEPT ![a] = s]
    BY <1>3 DEF Runtime!WorkerEnds
  <2>2. waves' \in [Runtime!Team -> Stages]
        /\ \A b \in Runtime!Team : waves'[b] = Runtime!None <=> waves[b] = Runtime!None
    BY <1>2, <1>3, <2>1 DEF Stages, Runtime!None
  <2> QED BY <1>1, <1>2, <1>3, <2>2, MembersMove
<1>4. CASE waves' = waves
  <2>1. TeamTypes' /\ JoinedIsComplete' /\ EndedIsTried'
    BY <1>1, <1>2, <1>4 DEF TeamInv, TeamTypes, JoinedIsComplete, EndedIsTried
  <2>2. \A b \in Runtime!Team : Fed(b) <=> Fed(b)'
    BY <1>1 DEF Fed
  <2>3. WaveIsPending'
    <3>1. Runtime!Member' = Runtime!Member
      BY <1>4 DEF Runtime!Member
    <3> QED BY <1>1, <1>4, <2>2, <3>1 DEF TeamInv, WaveIsPending, Busy
  <2>4. \A b \in thread' : Fed(b)'
    BY <1>1, <2>2 DEF TeamInv, TeamTypes
  <2> QED BY <2>1, <2>3, <2>4 DEF TeamInv
<1> QED BY <1>3, <1>4 DEF Runtime!WorkerEnds

LEMMA WaitEndsKeeps ==
  ASSUME Runtime!TeamAssumption, TeamInv, Runtime!WaitEnds
  PROVE  TeamInv'
<1>1. at = "waiting" /\ at' = "committing" /\ UNCHANGED <<teamTask, outcomes, joins, leases, thread>>
  BY DEF Runtime!WaitEnds, Runtime!durable, Runtime!lent
<1>2. waves \in [Runtime!Team -> Stages] /\ thread' \in SUBSET Runtime!Team
  BY <1>1 DEF TeamInv, TeamTypes
<1>3. waves' \in [Runtime!Team -> Stages]
      /\ \A a \in Runtime!Team : waves'[a] = Runtime!None <=> waves[a] = Runtime!None
  <2> DEFINE w(a) == CASE waves[a] = "running" -> "timeout"
                       [] waves[a] = "raised" /\ cancel -> "cancelled"
                       [] OTHER -> waves[a]
  <2>1. waves' = [a \in Runtime!Team |-> w(a)]
    BY DEF Runtime!WaitEnds
  <2>2. \A a \in Runtime!Team : w(a) \in Stages /\ (w(a) = Runtime!None <=> waves[a] = Runtime!None)
    BY <1>2 DEF Stages, Runtime!None
  <2> HIDE DEF w
  <2> QED BY <2>1, <2>2
<1> QED BY <1>1, <1>2, <1>3, MembersMove


LEMMA CommitKeeps ==
  ASSUME Runtime!TeamAssumption, TeamInv, Runtime!CommitCancelled \/ Runtime!CommitFailed
         \/ Runtime!CommitCompleted
  PROVE  TeamInv'
<1>1. {"completed", "failed", "cancelled"} \subseteq WorkerOutcomes \ {Runtime!None}
  BY DEF WorkerOutcomes, Runtime!None
<1>2. PICK o \in {"completed", "failed", "cancelled"} : Runtime!Settles(Runtime!Member, o)
  BY DEF Runtime!CommitCancelled, Runtime!CommitFailed, Runtime!CommitCompleted
<1>3. at = "committing" /\ UNCHANGED <<joins, thread>>
  BY DEF Runtime!CommitCancelled, Runtime!CommitFailed, Runtime!CommitCompleted
<1> QED BY <1>1, <1>2, <1>3, MemberSettles

\* A barrier that hears of a packet stays one, keeps its packets, and completes
\* with a packet of each predecessor.
LEMMA AfterKeeps ==
  ASSUME Runtime!TeamAssumption, TeamInv, NEW a \in Runtime!Team, NEW d \in Runtime!Feeds(a),
         NEW p \in WorkerPackets \cup {Runtime!None}
  PROVE  /\ Runtime!After(a, d, p) \in JoinBarriers
         /\ \A s \in Runtime!Team : joins[d].got[s] # Runtime!None =>
              Runtime!After(a, d, p).got[s] = joins[d].got[s]
         /\ Runtime!After(a, d, p).status = "completed" =>
              \A s \in Needs[d] : Runtime!After(a, d, p).got[s] \in WorkerPackets \ Unsettled
         /\ Runtime!Answer(a, d, p) = "conflicting" => Runtime!After(a, d, p).status = "conflicting"
<1> DEFINE b == joins[d]
           got == [b.got EXCEPT ![a] = p]
           heard == b.known \union {<<a, p>>}
<1>1. d \in Runtime!Joins /\ b \in JoinBarriers
  BY DEF Runtime!Feeds, TeamInv, TeamTypes
<1>2. b.got \in [Runtime!Team -> WorkerPackets \cup {Runtime!None}]
      /\ b.known \in SUBSET (Runtime!Team \X WorkerPackets)
      /\ b = [status |-> b.status, got |-> b.got, known |-> b.known]
  BY <1>1 DEF JoinBarriers
<1>3. b.status = "completed" => \A s \in Needs[d] : b.got[s] \in WorkerPackets \ Unsettled
  BY <1>1 DEF TeamInv, JoinedIsComplete
<1>4. Needs[d] \subseteq Runtime!Team
  BY <1>1 DEF Runtime!TeamAssumption, Runtime!Joins
<1>5. CASE Runtime!Answer(a, d, p) = "accepted"
  <2>1. p \in WorkerPackets /\ b.got[a] = Runtime!None
    BY <1>5 DEF Runtime!Answer
  <2>2. Runtime!After(a, d, p) = [status |-> IF Runtime!IsJoined(b, d, got) THEN "completed" ELSE "waiting",
                          got |-> got, known |-> heard]
    BY <1>5 DEF Runtime!After
  <2>3. got \in [Runtime!Team -> WorkerPackets \cup {Runtime!None}]
        /\ heard \in SUBSET (Runtime!Team \X WorkerPackets)
    BY <1>2, <2>1
  <2>4. \A s \in Runtime!Team : b.got[s] # Runtime!None => got[s] = b.got[s]
    BY <1>2, <2>1
  <2>5. Runtime!IsJoined(b, d, got) => \A s \in Needs[d] : got[s] \in WorkerPackets \ Unsettled
    BY <1>4, <2>3 DEF Runtime!IsJoined
  <2> HIDE DEF b, got, heard
  <2>6. Runtime!After(a, d, p) \in JoinBarriers
    BY <2>2, <2>3 DEF JoinBarriers
  <2>7. Runtime!After(a, d, p).got = got /\ (Runtime!After(a, d, p).status = "completed" => Runtime!IsJoined(b, d, got))
    BY <2>2
  <2> QED BY <1>5, <2>4, <2>5, <2>6, <2>7 DEF b
<1>6. CASE Runtime!Answer(a, d, p) = "conflicting"
  <2>1. p \in WorkerPackets
    BY <1>6 DEF Runtime!Answer
  <2>2. Runtime!After(a, d, p) = [b EXCEPT !.status = "conflicting", !.known = heard]
    BY <1>6 DEF Runtime!After
  <2>3. heard \in SUBSET (Runtime!Team \X WorkerPackets)
    BY <1>2, <2>1
  <2>4. Runtime!After(a, d, p) = [status |-> "conflicting", got |-> b.got, known |-> heard]
    <3> HIDE DEF heard, b
    <3> QED BY <1>2, <2>2
  <2> HIDE DEF b, heard
  <2> QED BY <1>2, <2>3, <2>4 DEF JoinBarriers, b
<1>7. CASE Runtime!Answer(a, d, p) = "late"
  <2>1. p \in WorkerPackets
    BY <1>7 DEF Runtime!Answer
  <2>2. Runtime!After(a, d, p) = [b EXCEPT !.known = heard]
    BY <1>7 DEF Runtime!After
  <2>3. heard \in SUBSET (Runtime!Team \X WorkerPackets)
    BY <1>2, <2>1
  <2>4. Runtime!After(a, d, p) = [status |-> b.status, got |-> b.got, known |-> heard]
    <3> HIDE DEF heard, b
    <3> QED BY <1>2, <2>2
  <2>5. b.status \in {Runtime!None, "waiting", "completed", "conflicting"}
    BY <1>1 DEF JoinBarriers
  <2> HIDE DEF b, heard
  <2>6. Runtime!After(a, d, p) \in JoinBarriers
    BY <1>2, <2>3, <2>4, <2>5 DEF JoinBarriers
  <2>7. Runtime!After(a, d, p).got = b.got /\ Runtime!After(a, d, p).status = b.status
    BY <2>4
  <2> QED BY <1>3, <1>7, <2>6, <2>7 DEF b
<1>8. CASE Runtime!Answer(a, d, p) \notin {"accepted", "conflicting", "late"}
  <2>1. Runtime!After(a, d, p) = b
    BY <1>8 DEF Runtime!After
  <2> QED BY <1>1, <1>3, <1>8, <2>1
<1> QED BY <1>5, <1>6, <1>7, <1>8

LEMMA SubmitHandoffsKeeps ==
  ASSUME Runtime!TeamAssumption, TeamInv, Runtime!SubmitHandoffs
  PROVE  TeamInv'
<1> DEFINE a == Runtime!Member
<1>1. at = "committing" /\ waves[a] = "returned" /\ UNCHANGED <<outcomes, leases, at, thread>>
  BY DEF Runtime!SubmitHandoffs, Runtime!lent
<1>2. a \in Runtime!Team /\ teamTask \notin Runtime!Ended
  BY <1>1, MemberIsBusy, NotEnded
<1>3. PICK sent \in [Runtime!Feeds(a) -> WorkerPackets \union {Runtime!None}] :
        /\ joins' = [d \in Runtime!Joins |-> IF d \in Runtime!Feeds(a) THEN Runtime!After(a, d, sent[d]) ELSE joins[d]]
        /\ teamTask' \in IF Runtime!TaskAfter(a, sent) = {} THEN {teamTask} ELSE Runtime!TaskAfter(a, sent)
        /\ \E s \in {"submitted", "refused"} : waves' = [waves EXCEPT ![a] = s]
  BY DEF Runtime!SubmitHandoffs, Runtime!lent
<1> HIDE DEF a
<1>4. TeamTypes /\ OutcomesStay
  BY <1>1 DEF TeamInv, OutcomesStay
<1>5. \A d \in Runtime!Joins :
        /\ joins'[d] \in JoinBarriers
        /\ \A s \in Runtime!Team : joins[d].got[s] # Runtime!None => joins'[d].got[s] = joins[d].got[s]
        /\ joins'[d].status = "completed" =>
             \A s \in Needs[d] : joins'[d].got[s] \in WorkerPackets \ Unsettled
  <2>1. TAKE d \in Runtime!Joins
  <2>2. CASE d \in Runtime!Feeds(a)
    <3>1. sent[d] \in WorkerPackets \cup {Runtime!None} /\ joins'[d] = Runtime!After(a, d, sent[d])
      BY <1>3, <2>1, <2>2
    <3> QED BY <1>2, <2>2, <3>1, AfterKeeps
  <2>3. CASE d \notin Runtime!Feeds(a)
    <3>1. joins'[d] = joins[d]
      BY <1>3, <2>1, <2>3
    <3> QED BY <2>1, <3>1 DEF TeamInv, TeamTypes, JoinedIsComplete
  <2> QED BY <2>2, <2>3
<1>6. joins' \in [Runtime!Joins -> JoinBarriers]
  BY <1>3, <1>5
<1>7. JoinedIsComplete' /\ PacketsStay
  BY <1>5 DEF JoinedIsComplete, PacketsStay
<1>8. Runtime!TaskAfter(a, sent) \subseteq {"needs_review", "executing", "awaiting_check"}
  <2>1. \A d \in Runtime!Feeds(a) : sent[d] \in WorkerPackets \cup {Runtime!None}
    BY <1>3
  <2>2. \A d \in Runtime!Feeds(a) : Runtime!Answer(a, d, sent[d]) = "conflicting" =>
          Runtime!After(a, d, sent[d]).status = "conflicting"
    BY <1>2, <2>1, AfterKeeps
  <2> QED BY <2>2 DEF Runtime!TaskAfter
<1>9. teamTask' \notin Runtime!Ended
  BY <1>2, <1>3, <1>8 DEF Runtime!Ended
<1>10. waves' \in [Runtime!Team -> Stages]
       /\ \A b \in Runtime!Team : waves'[b] # Runtime!None <=> waves[b] # Runtime!None
  <2>1. PICK s \in {"submitted", "refused"} : waves' = [waves EXCEPT ![a] = s]
    BY <1>3
  <2> QED BY <1>1, <1>2, <1>4, <2>1 DEF TeamTypes, Stages, Runtime!None
<1>11. \A b \in Runtime!Team : Fed(b) => Fed(b)'
  BY <1>4, <1>7, FedStays
<1>12. TeamTypes'
  BY <1>1, <1>4, <1>6, <1>10 DEF TeamTypes
<1>13. WaveIsPending'
  <2>1. WaveIsPending
    BY DEF TeamInv
  <2> QED BY <1>1, <1>10, <1>11, <2>1 DEF WaveIsPending, Busy
<1>14. EndedIsTried'
  BY <1>9 DEF EndedIsTried
<1>15. \A b \in thread' : Fed(b)'
  BY <1>1, <1>4, <1>11 DEF TeamInv, TeamTypes
<1> QED BY <1>7, <1>12, <1>13, <1>14, <1>15 DEF TeamInv

LEMMA ReleaseLeaseKeeps ==
  ASSUME Runtime!TeamAssumption, TeamInv, Runtime!ReleaseLease
  PROVE  TeamInv'
<1> DEFINE a == Runtime!Member
           rest == [waves EXCEPT ![a] = Runtime!None]
<1>1. at = "releasing" /\ UNCHANGED <<outcomes, joins, thread>>
  BY DEF Runtime!ReleaseLease
<1>2. a \in Runtime!Team /\ waves[a] # Runtime!None /\ teamTask \notin Runtime!Ended
  BY <1>1, MemberIsBusy, NotEnded DEF Busy
<1>3. \A b \in Runtime!Team : waves[b] # Runtime!None => Fed(b) /\ (outcomes[b] = Runtime!None \/ b = a)
  BY <1>1 DEF TeamInv, WaveIsPending, Busy
<1>4. waves \in [Runtime!Team -> Stages] /\ leases \in WorkerLeases /\ thread \in SUBSET Runtime!Team
      /\ outcomes \in [Runtime!Team -> WorkerOutcomes]
      /\ \A b \in thread : Fed(b)
  BY DEF TeamInv, TeamTypes, WorkerLeases
<1>5. CASE leases[a] \in Runtime!Held /\ outcomes[a] = "completed"
  <2>1. leases' = [leases EXCEPT ![a] = Runtime!EndOf(outcomes[a])] /\ waves' = rest
        /\ at' = (IF rest = Runtime!NoWave THEN "ready" ELSE "committing") /\ teamTask' = teamTask
    BY <1>5 DEF Runtime!ReleaseLease
  <2>2. Runtime!EndOf(outcomes[a]) = "released"
    BY <1>5 DEF Runtime!EndOf
  <2> HIDE DEF a
  <2>3. rest \in [Runtime!Team -> Stages]
        /\ \A b \in Runtime!Team : rest[b] # Runtime!None => waves[b] # Runtime!None /\ b # a
    BY <1>2, <1>4 DEF Stages
  <2> HIDE DEF rest
  <2>4. waves' \in [Runtime!Team -> Stages]
        /\ \A b \in Runtime!Team : waves'[b] # Runtime!None => Fed(b) /\ outcomes[b] = Runtime!None
    BY <1>3, <2>1, <2>3
  <2>5. leases' \in WorkerLeases
    BY <1>2, <1>4, <2>1, <2>2 DEF WorkerLeases
  <2>6. at' \in {"idle", "ready"} => waves' = Runtime!NoWave
    BY <2>1
  <2>7. at' \notin {"idle", "ready"} => \E b \in Runtime!Team : waves'[b] # Runtime!None
    <3> SUFFICES ASSUME rest # Runtime!NoWave
                 PROVE  \E b \in Runtime!Team : rest[b] # Runtime!None
      BY <2>1
    <3>1. Runtime!NoWave = [b \in Runtime!Team |-> Runtime!None]
      BY DEF Runtime!NoWave
    <3> QED BY <2>3, <3>1
  <2>8. at' \in {"ready", "committing"} /\ teamTask' \notin Runtime!Ended
    BY <1>2, <2>1
  <2> QED BY <1>1, <1>4, <2>4, <2>5, <2>6, <2>7, <2>8, WaveSteps DEF WorkerLeases
<1>6. CASE leases[a] \notin Runtime!Held \/ outcomes[a] = "failed"
  <2>1. Runtime!FailsTeam
    BY <1>6 DEF Runtime!ReleaseLease
  <2> QED BY <1>1, <1>2, <2>1, FailsHere
<1>7. CASE leases[a] \in Runtime!Held /\ outcomes[a] = "cancelled"
  <2>1. Runtime!FinishesCancelled
    BY <1>7 DEF Runtime!ReleaseLease
  <2> QED BY <1>1, <1>2, <2>1, StopsHere, VetoedHere DEF Runtime!FinishesCancelled
<1>8. outcomes[a] \in {"completed", "failed", "cancelled"}
  <2>1. outcomes[a] # Runtime!None
    BY <1>1 DEF TeamInv, WaveIsPending
  <2> QED BY <1>2, <1>4, <2>1 DEF WorkerOutcomes
<1> QED BY <1>5, <1>6, <1>7, <1>8


\* The host, the clock and the scheduler touch neither the wave nor what is recorded.
LEMMA OutsideKeeps ==
  ASSUME Runtime!TeamAssumption, TeamInv, UNCHANGED <<outcomes, joins, waves, thread, at, teamTask, unreleased>>,
         leases' = leases \/ \E a \in Runtime!Team : Runtime!LeaseExpires(a)
  PROVE  TeamInv'
<1>1. \A a \in Runtime!Team : Fed(a) <=> Fed(a)'
  BY DEF Fed
<1>2. leases' \in WorkerLeases /\ EndedIsTried'
  <2>1. leases \in WorkerLeases /\ EndedIsTried
    BY DEF TeamInv, TeamTypes, WorkerLeases
  <2>2. CASE leases' = leases
    BY <2>1, <2>2 DEF EndedIsTried
  <2>3. ASSUME NEW a \in Runtime!Team, Runtime!LeaseExpires(a)
        PROVE  leases' \in WorkerLeases /\ EndedIsTried'
    BY <2>1, <2>3 DEF Runtime!LeaseExpires, WorkerLeases, EndedIsTried
  <2> QED BY <2>2, <2>3
<1>3. TeamTypes' /\ JoinedIsComplete' /\ EndedIsTried'
  BY <1>2 DEF TeamInv, TeamTypes, JoinedIsComplete, WorkerLeases
<1>4. Runtime!Member' = Runtime!Member
  BY DEF Runtime!Member
<1>5. WaveIsPending'
  BY <1>1, <1>4 DEF TeamInv, WaveIsPending, Busy
<1>6. \A a \in thread' : Fed(a)'
  BY <1>1 DEF TeamInv, TeamTypes
<1> QED BY <1>3, <1>5, <1>6 DEF TeamInv

LEMMA CrashKeeps ==
  ASSUME Runtime!TeamAssumption, TeamInv, Runtime!Crash
  PROVE  TeamInv'
<1>1. UNCHANGED <<teamTask, outcomes, joins, leases>> /\ at' = "idle" /\ waves' = Runtime!NoWave
      /\ thread' = {}
      /\ teamTask \notin Runtime!Ended
  BY NotEnded DEF Runtime!Crash, Runtime!durable, Runtime!lent
<1>2. Runtime!NoWave \in [Runtime!Team -> Stages]
      /\ \A a \in Runtime!Team : Runtime!NoWave[a] = Runtime!None
  BY DEF Runtime!NoWave, Stages
<1>3. TeamTypes' /\ JoinedIsComplete'
  BY <1>1, <1>2 DEF TeamInv, TeamTypes, JoinedIsComplete
<1>4. EndedIsTried'
  BY <1>1 DEF EndedIsTried
<1>5. WaveIsPending'
  BY <1>1, <1>2 DEF WaveIsPending, Busy, Runtime!NoWave
<1> QED BY <1>1, <1>3, <1>4, <1>5 DEF TeamInv

LEMMA TeamStep == Runtime!TeamAssumption /\ TeamInv /\ [Runtime!Next]_(Runtime!vars) => TeamInv'
<1> SUFFICES ASSUME Runtime!TeamAssumption, TeamInv, [Runtime!Next]_(Runtime!vars)
             PROVE  TeamInv'
  OBVIOUS
<1>1. CASE Runtime!Execute
  BY <1>1, ExecuteKeeps
<1>2. CASE Runtime!RuntimeSteps
  BY <1>2, NextWaveKeeps, EndsKeep, CancelPendingKeeps, StartWorkerKeeps, EquipWorkerKeeps, LaunchKeeps,
     WaitEndsKeeps, CommitKeeps, SubmitHandoffsKeeps, ReleaseLeaseKeeps DEF Runtime!RuntimeSteps
<1>3. CASE Runtime!RequestCancel
  BY <1>3, OutsideKeeps DEF Runtime!RequestCancel, Runtime!durable, Runtime!lent
<1>4. CASE Runtime!Crash
  BY <1>4, CrashKeeps
<1>5. ASSUME NEW a \in Runtime!Team, Runtime!WorkerEnds(a) \/ Runtime!DeadlinePasses(a)
             \/ Runtime!LeaseExpires(a)
      PROVE  TeamInv'
  <2>1. CASE Runtime!WorkerEnds(a)
    BY <2>1, WorkerEndsKeeps
  <2>2. CASE Runtime!DeadlinePasses(a)
    BY <2>2, OutsideKeeps DEF Runtime!DeadlinePasses, Runtime!durable, Runtime!lent
  <2>3. CASE Runtime!LeaseExpires(a)
    <3>1. UNCHANGED <<outcomes, joins, waves, thread, at, teamTask, unreleased>>
      BY <2>3 DEF Runtime!LeaseExpires
    <3> QED BY <2>3, <3>1, OutsideKeeps
  <2> QED BY <1>5, <2>1, <2>2, <2>3
<1>7. CASE Runtime!StorageFails
  BY <1>7, FailsHere, VetoedHere DEF Runtime!StorageFails
<1>6. CASE UNCHANGED Runtime!vars
  BY <1>6, OutsideKeeps DEF Runtime!vars, Runtime!durable, Runtime!lent
<1> QED BY <1>1, <1>2, <1>3, <1>4, <1>5, <1>6, <1>7 DEF Runtime!Next

\* What execute() has recorded, what its wave and its threads are doing, and what
\* the leases say stay in step, through failures, vetoes and restarts.
THEOREM TeamInductive ==
  ASSUME Runtime!TeamAssumption
  PROVE  Runtime!Spec => []TeamInv
<1>1. Runtime!Init => TeamInv
  BY TeamInit
<1>2. TeamInv /\ [Runtime!Next]_(Runtime!vars) => TeamInv'
  BY TeamStep
<1> QED BY <1>1, <1>2, PTL DEF Runtime!Spec

\* While the thread of a worker runs, each assignment it depends on is recorded as
\* completed, and a packet of each with nothing left open is in its barrier.
THEOREM WorkersAreFed ==
  ASSUME Runtime!TeamAssumption
  PROVE  Runtime!Spec => []WorkFollowsItsInputs
<1>1. TeamInv => WorkFollowsItsInputs
  BY DEF TeamInv, WorkFollowsItsInputs, Fed
<1> QED BY <1>1, TeamInductive, PTL

\* A team whose task execute() failed or cancelled keeps a lease granted or active
\* only if the clean-up of the execution that returned last tried to release it.
THEOREM EndedTeamsTriedEveryLease ==
  ASSUME Runtime!TeamAssumption
  PROVE  Runtime!Spec => []EndedTeamTriedEveryLease
<1>1. TeamInv => EndedTeamTriedEveryLease
  BY DEF TeamInv, EndedIsTried, EndedTeamTriedEveryLease, Team, Ended, Held, Runtime!Team, Runtime!Ended, Runtime!Held
<1> QED BY <1>1, TeamInductive, PTL
=============================================================================
