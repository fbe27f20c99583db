-------------------------- MODULE LedgerStoreProofs --------------------------
(***************************************************************************)
(* The durable ledger for any number of processes, keys, batches and       *)
(* retries: what was answered is in the file, the events are one chain,    *)
(* and an effect whose outcome is unknown is never executed again.         *)
(*                                                                         *)
(* Core says that the file is sound (a chain, made of whole batches), that *)
(* a snapshot is an earlier state of the file, and that a batch was built  *)
(* on events that are still there.  Once adds where each process stands    *)
(* with its key: the one that is about to run the effect never ran it, and *)
(* is alone with it until the effect is on record as completed; and one    *)
(* that ran it comes to reserve it again only on a snapshot of before its  *)
(* completion, which lets it write nothing.                                *)
(***************************************************************************)
EXTENDS LedgerStore, SequenceTheorems, TLAPS

\* The events of f are linked and distinct.
IsChain(f) ==
  /\ \A i \in 1..Len(f.events) :
        f.events[i].prev = IF i = 1 THEN NoEvent ELSE f.events[i - 1].id
  /\ \A i, j \in 1..Len(f.events) : f.events[i].id = f.events[j].id => i = j

HasEvent(f, e) == \E i \in 1..Len(f.events) : f.events[i].id = e

\* A batch is there with all its events or not at all.
IsWhole(f) ==
  \A b \in Batches : HasTransaction(f, b) => \A n \in 1..Size[b] : HasEvent(f, Id(b, n))

Sound(f) == f \in Files /\ IsChain(f) /\ IsWhole(f)

\* g is f or a later state of the file.
Grows(f, g) ==
  /\ Len(f.events) <= Len(g.events)
  /\ \A i \in 1..Len(f.events) : g.events[i] = f.events[i]
  /\ \A k \in Keys : f.effects[k].status = "completed" => g.effects[k].status = "completed"
  /\ \A k \in Keys : f.effects[k] # NoRow => g.effects[k] # NoRow
  /\ f.points \subseteq g.points /\ f.retries \subseteq g.retries

\* A batch was built on a prefix of the committed events.
BuiltOn(j, f) ==
  /\ j.base <= Len(f.events)
  /\ j.prev = IF j.base = 0 THEN NoEvent ELSE f.events[j.base].id

Busy == {"reserve", "run", "complete"}

Core ==
  /\ TypeOK
  /\ Sound(file)
  /\ \A p \in Procs : tx[p] = "reading" => Grows(seen[p], file)
  /\ \A p \in Procs : job[p] # NoJob => BuiltOn(job[p], file)
  /\ \A p \in Procs : at[p] \in {"append", "insert"} => job[p] \in Jobs /\ BuiltOn(job[p], file)
  /\ \A p \in Procs : at[p] \in Busy => call[p] \in Calls
  /\ AnswersAreDurable

Ran(p, k) == ran[<<p, k>>] > 0
Completed(k) == file.effects[k].status = "completed"

\* Where p stands with its key.
ReservesOnAnOldView(p) ==
  LET k == call[p].key
  IN Ran(p, k) /\ Completed(k) => tx[p] = "reading" /\ seen[p].effects[k].status # "completed"

RunsAlone(p) ==
  LET k == call[p].key
  IN /\ ~Ran(p, k)
     /\ file.effects[k] # NoRow
     /\ ~Completed(k) =>
          \A q \in Procs : ~Ran(q, k) /\ (q # p /\ at[q] = "run" => call[q].key # k)

Stands(p) ==
  /\ at[p] = "reserve" => ReservesOnAnOldView(p)
  /\ at[p] = "run" => RunsAlone(p)
  /\ at[p] = "complete" => Ran(p, call[p].key)

Once ==
  /\ UnknownIsNotRepeated
  /\ \A p \in Procs, k \in Keys : Ran(p, k) => file.effects[k] # NoRow
  /\ \A p \in Procs : Stands(p)
-----------------------------------------------------------------------------
(* A file that grows.                                                      *)

LEMMA FileFacts ==
  ASSUME NEW f \in Files
  PROVE  /\ f.events \in Seq(Events) /\ Len(f.events) \in Nat
         /\ \A i \in 1..Len(f.events) : f.events[i] \in Events
         /\ f.effects \in [Keys -> Rows \union {NoRow}]
         /\ f.points \subseteq Points /\ f.retries \subseteq Retries
BY LenProperties, ElementOfSeq DEF Files

LEMMA GrowsReflexive == \A f : Grows(f, f)
BY DEF Grows

LEMMA GrowsTransitive ==
  ASSUME NEW f \in Files, NEW g \in Files, NEW h \in Files, Grows(f, g), Grows(g, h)
  PROVE  Grows(f, h)
<1> f.events \in Seq(Events) /\ g.events \in Seq(Events) /\ h.events \in Seq(Events)
  BY DEF Files
<1> Len(f.events) \in Nat /\ Len(g.events) \in Nat /\ Len(h.events) \in Nat
  BY LenProperties
<1> QED BY DEF Grows

LEMMA EventsStay ==
  ASSUME NEW f \in Files, NEW g \in Files, Grows(f, g)
  PROVE  /\ \A e : HasEvent(f, e) => HasEvent(g, e)
         /\ \A b : HasTransaction(f, b) => HasTransaction(g, b)
<1> Len(f.events) \in Nat /\ Len(g.events) \in Nat
  BY FileFacts
<1> QED BY DEF Grows, HasEvent, HasTransaction

LEMMA BuiltOnStays ==
  ASSUME NEW f \in Files, NEW g \in Files, Grows(f, g), NEW j, j.base \in Nat, BuiltOn(j, f)
  PROVE  BuiltOn(j, g)
<1> Len(f.events) \in Nat /\ Len(g.events) \in Nat
  BY FileFacts
<1> QED BY DEF Grows, BuiltOn

\* A row that is not completed is given another.
LEMMA RowWritten ==
  ASSUME NEW f, Sound(f), NEW k \in Keys, NEW row \in Rows, f.effects[k].status # "completed"
  PROVE  /\ Sound([f EXCEPT !.effects[k] = row])
         /\ Grows(f, [f EXCEPT !.effects[k] = row])
<1> DEFINE g == [f EXCEPT !.effects[k] = row]
<1>1. /\ g.events = f.events /\ g.points = f.points /\ g.retries = f.retries
      /\ g.effects = [f.effects EXCEPT ![k] = row] /\ g \in Files
  BY DEF Sound, Files
<1>2. row # NoRow
  BY DEF Rows, NoRow
<1>3. \A l \in Keys : g.effects[l] = IF l = k THEN row ELSE f.effects[l]
  BY <1>1 DEF Sound, Files
<1> HIDE DEF g
<1>4. Sound(g)
  BY <1>1 DEF Sound, IsChain, IsWhole, HasTransaction, HasEvent
<1>5. Grows(f, g)
  BY <1>1, <1>2, <1>3, FileFacts DEF Grows, Sound
<1> QED BY <1>4, <1>5 DEF g

\* A point, or a retry, is added.
LEMMA RecordAdded ==
  ASSUME NEW f, Sound(f), NEW g \in Files, g.events = f.events, g.effects = f.effects,
         f.points \subseteq g.points, f.retries \subseteq g.retries
  PROVE  Sound(g) /\ Grows(f, g)
BY FileFacts DEF Sound, Grows, IsChain, IsWhole, HasTransaction, HasEvent

LEMMA BatchRows ==
  ASSUME NEW j \in Jobs
  PROVE  /\ RowsOf(j) \in Seq(Events)
         /\ Len(RowsOf(j)) = Size[j.batch]
         /\ Size[j.batch] \in Nat \ {0}
         /\ \A n \in 1..Size[j.batch] :
              /\ RowsOf(j)[n].id = <<j.batch, n>>
              /\ RowsOf(j)[n].prev = IF n = 1 THEN j.prev ELSE <<j.batch, n - 1>>
<1>1. Size[j.batch] \in Nat \ {0} /\ j.batch \in Batches
  BY StoreAssumption DEF Jobs
<1>2. \A n \in 1..Size[j.batch] :
        [id |-> Id(j.batch, n), prev |-> IF n = 1 THEN j.prev ELSE Id(j.batch, n - 1)] \in Events
  BY <1>1 DEF Events, Ids, Id, Jobs
<1>3. RowsOf(j) \in [1..Size[j.batch] -> Events]
  BY <1>2 DEF RowsOf
<1>4. RowsOf(j) \in Seq(Events)
  BY <1>1, <1>3, SeqDef
<1>5. Len(RowsOf(j)) = Size[j.batch]
  BY <1>1, <1>3, <1>4, LenProperties
<1>6. \A n \in 1..Size[j.batch] :
        RowsOf(j)[n] = [id |-> Id(j.batch, n), prev |-> IF n = 1 THEN j.prev ELSE Id(j.batch, n - 1)]
  BY DEF RowsOf
<1>7. ASSUME NEW n \in 1..Size[j.batch]
      PROVE  /\ RowsOf(j)[n].id = <<j.batch, n>>
             /\ RowsOf(j)[n].prev = IF n = 1 THEN j.prev ELSE <<j.batch, n - 1>>
  <2>1. RowsOf(j)[n] = [id |-> <<j.batch, n>>, prev |-> IF n = 1 THEN j.prev ELSE <<j.batch, n - 1>>]
    BY <1>6, Zenon DEF Id
  <2> QED BY ONLY <2>1
<1> QED BY <1>1, <1>4, <1>5, <1>7

\* A batch that is not there is added at the end it was built on.
LEMMA BatchAppended ==
  ASSUME NEW f, Sound(f), NEW j \in Jobs, BuiltOn(j, f), Len(f.events) = j.base,
         ~HasTransaction(f, j.batch)
  PROVE  /\ Sound([f EXCEPT !.events = @ \o RowsOf(j)])
         /\ Grows(f, [f EXCEPT !.events = @ \o RowsOf(j)])
         /\ \A n \in 1..Size[j.batch] :
              HasEvent([f EXCEPT !.events = @ \o RowsOf(j)], Id(j.batch, n))
<1> DEFINE g == [f EXCEPT !.events = @ \o RowsOf(j)]
           N == Len(f.events)
           M == Size[j.batch]
<1>1. f \in Files /\ f.events \in Seq(Events) /\ N \in Nat
  BY FileFacts DEF Sound
<1>2. /\ RowsOf(j) \in Seq(Events) /\ Len(RowsOf(j)) = M /\ M \in Nat \ {0}
      /\ \A n \in 1..M : RowsOf(j)[n].id = <<j.batch, n>>
      /\ \A n \in 1..M : RowsOf(j)[n].prev = IF n = 1 THEN j.prev ELSE <<j.batch, n - 1>>
  BY BatchRows
<1>3. /\ g.events = f.events \o RowsOf(j)
      /\ g.points = f.points /\ g.retries = f.retries /\ g.effects = f.effects
  BY <1>1 DEF Files
<1>4. /\ g.events \in Seq(Events) /\ Len(g.events) = N + M
      /\ \A i \in 1..N + M : g.events[i] = IF i <= N THEN f.events[i] ELSE RowsOf(j)[i - N]
  <2>1. /\ f.events \o RowsOf(j) \in Seq(Events)
        /\ Len(f.events \o RowsOf(j)) = Len(f.events) + Len(RowsOf(j))
        /\ \A i \in 1 .. Len(f.events) + Len(RowsOf(j)) : (f.events \o RowsOf(j))[i] =
             IF i <= Len(f.events) THEN f.events[i] ELSE RowsOf(j)[i - Len(f.events)]
    BY <1>1, <1>2, ConcatProperties
  <2> HIDE DEF g
  <2> QED BY <2>1, <1>2, <1>3
<1>5. g \in Files
  BY <1>1, <1>3, <1>4 DEF Files
<1> HIDE DEF g
<1>6. /\ \A i \in 1..N : g.events[i] = f.events[i]
      /\ \A n \in 1..M : N + n \in 1..N + M /\ g.events[N + n] = RowsOf(j)[n]
      /\ \A i \in 1..N + M : i \notin 1..N => i - N \in 1..M /\ i = N + (i - N)
  <2>1. ASSUME NEW i \in 1..N PROVE g.events[i] = f.events[i]
    <3> HIDE DEF N, M
    <3>1. N \in Nat /\ M \in Nat
      BY <1>1, <1>2
    <3>2. i \in 1..N + M /\ i <= N
      BY <3>1
    <3> QED BY <3>2, <1>4
  <2>2. ASSUME NEW n \in 1..M
        PROVE  N + n \in 1..N + M /\ g.events[N + n] = RowsOf(j)[n]
    <3>1. N + n \in 1..N + M /\ ~(N + n <= N) /\ (N + n) - N = n
      BY <1>1, <1>2
    <3> QED BY <3>1, <1>4
  <2>3. \A i \in 1..N + M : i \notin 1..N => i - N \in 1..M /\ i = N + (i - N)
    BY <1>1, <1>2
  <2> QED BY <2>1, <2>2, <2>3
<1> HIDE DEF N, M
<1>7. /\ N \in Nat /\ M \in Nat \ {0} /\ j.batch \in Batches
      /\ N = Len(f.events) /\ M = Size[j.batch]
  BY <1>1, <1>2 DEF N, M, Jobs
<1>8. \A i \in 1..N : f.events[i].id[1] # j.batch
  BY <1>7 DEF HasTransaction
<1>9. \A n \in 1..M : g.events[N + n].id = <<j.batch, n>>
  BY <1>2, <1>6, <1>7
<1>10. IsChain(g)
  <2>1. ASSUME NEW i \in 1..N + M
        PROVE  g.events[i].prev = IF i = 1 THEN NoEvent ELSE g.events[i - 1].id
    <3>1. CASE i \in 1..N
      <4>1. f.events[i].prev = IF i = 1 THEN NoEvent ELSE f.events[i - 1].id
        BY <3>1, <1>7 DEF Sound, IsChain
      <4>2. g.events[i] = f.events[i] /\ (i # 1 => g.events[i - 1] = f.events[i - 1])
        BY <3>1, <1>6, <1>7
      <4> QED BY <4>1, <4>2
    <3>2. CASE i = N + 1
      <4>1. g.events[i].prev = j.prev
        <5>1. 1 \in 1..M
          BY <1>7
        <5>2. g.events[i] = RowsOf(j)[1]
          BY <5>1, <3>2, <1>6
        <5> QED BY <5>1, <5>2, <1>2
      <4>2. j.prev = IF N = 0 THEN NoEvent ELSE f.events[N].id
        BY <1>7 DEF BuiltOn
      <4>3. i - 1 = N /\ (N # 0 => N \in 1..N)
        BY <3>2, <1>7
      <4>5. N # 0 => g.events[N] = f.events[N]
        BY <4>3, <1>6
      <4> QED BY <3>2, <4>1, <4>2, <4>3, <4>5, <1>7
    <3>3. CASE i \notin 1..N /\ i # N + 1
      <4> DEFINE n == i - N
      <4>0. i \in Nat /\ i > N + 1 /\ i <= N + M
        BY <3>3, <1>7
      <4>a. N \in Nat /\ M \in Nat
        BY <1>7
      <4>1. n \in 1..M /\ n # 1 /\ n - 1 \in 1..M /\ i = N + n /\ i - 1 = N + (n - 1) /\ i # 1
        BY ONLY <4>0, <4>a
      <4> HIDE DEF n
      <4>2. g.events[i].prev = <<j.batch, n - 1>>
        BY <4>1, <1>2, <1>6
      <4>3. g.events[i - 1].id = <<j.batch, n - 1>>
        BY <4>1, <1>9
      <4> QED BY <4>1, <4>2, <4>3
    <3> QED BY <3>1, <3>2, <3>3
  <2>2. ASSUME NEW i \in 1..N + M, NEW l \in 1..N + M, g.events[i].id = g.events[l].id
        PROVE  i = l
    <3>1. CASE i \in 1..N /\ l \in 1..N
      BY <3>1, <2>2, <1>6, <1>7 DEF Sound, IsChain
    <3>2. CASE i \in 1..N /\ l \notin 1..N
      BY <3>2, <2>2, <1>6, <1>8, <1>9
    <3>3. CASE i \notin 1..N /\ l \in 1..N
      BY <3>3, <2>2, <1>6, <1>8, <1>9
    <3>4. CASE i \notin 1..N /\ l \notin 1..N
      <4>1. <<j.batch, i - N>> = <<j.batch, l - N>>
        BY <3>4, <2>2, <1>6, <1>9
      <4>2. i - N = l - N
        BY <4>1
      <4> QED BY <4>2, <1>7
    <3> QED BY <3>1, <3>2, <3>3, <3>4
  <2> QED BY <2>1, <2>2, <1>4, <1>7 DEF IsChain, N, M
<1>11. \A n \in 1..M : HasEvent(g, Id(j.batch, n))
  BY <1>4, <1>6, <1>7, <1>9 DEF HasEvent, Id, N, M
<1>12. Grows(f, g)
  BY <1>3, <1>4, <1>6, <1>7, FileFacts DEF Grows, Sound
<1>13. IsWhole(g)
  <2> SUFFICES ASSUME NEW b \in Batches, HasTransaction(g, b)
               PROVE  \A n \in 1..Size[b] : HasEvent(g, Id(b, n))
    BY DEF IsWhole
  <2>1. CASE b = j.batch
    BY <2>1, <1>11, <1>7
  <2>2. CASE b # j.batch
    <3>1. PICK i \in 1..N + M : g.events[i].id[1] = b
      BY <1>4, <1>7 DEF HasTransaction, N, M
    <3>2. i \in 1..N
      BY <3>1, <2>2, <1>6, <1>9
    <3>3. HasTransaction(f, b)
      BY <3>1, <3>2, <1>6, <1>7 DEF HasTransaction
    <3> QED BY <3>3, <1>12, <1>5, <1>1, EventsStay DEF Sound, IsWhole
  <2> QED BY <2>1, <2>2
<1> QED BY <1>5, <1>10, <1>11, <1>12, <1>13, <1>7 DEF Sound, g, M
-----------------------------------------------------------------------------
(* What the statements of one process do to the file and the connections.  *)

Modes == {"none", "begun", "reading", "writing"}

\* The file grows, and a snapshot is the file or the snapshot of before.
StorageStep ==
  /\ Sound(file') /\ Grows(file, file')
  /\ tx' \in [Procs -> Modes] /\ seen' \in [Procs -> Files]
  /\ \A q \in Procs : tx'[q] = "reading" =>
        \/ seen'[q] = file
        \/ tx[q] = "reading" /\ seen'[q] = seen[q]

LEMMA EmptyIsAFile == Empty \in Files
<1>1. <<>> \in Seq(Events)
  BY EmptySeq
<1>2. [k \in Keys |-> NoRow] \in [Keys -> Rows \union {NoRow}]
  OBVIOUS
<1> QED BY <1>1, <1>2 DEF Empty, Files

LEMMA ViewIsOfTheFile ==
  ASSUME Core, NEW p \in Procs
  PROVE  /\ View(p) \in Files /\ Grows(View(p), file)
         /\ CanWrite(p) => View(p) = file
BY GrowsReflexive DEF Core, TypeOK, View, CanWrite

LEMMA StorageSame ==
  ASSUME Core, UNCHANGED <<file, connection>>
  PROVE  StorageStep
BY GrowsReflexive DEF Core, TypeOK, StorageStep, Modes, connection

LEMMA StorageSelect ==
  ASSUME Core, NEW p \in Procs, Select(p), UNCHANGED file
  PROVE  StorageStep
<1> Sound(file') /\ Grows(file, file') /\ file \in Files
  BY GrowsReflexive DEF Core, Sound
<1>1. CASE tx[p] = "begun"
  BY <1>1 DEF Core, TypeOK, StorageStep, Select, Modes
<1>2. CASE tx[p] # "begun"
  BY <1>2 DEF Core, TypeOK, StorageStep, Select, Modes, connection
<1> QED BY <1>1, <1>2

LEMMA StorageCommitted ==
  ASSUME Core, NEW p \in Procs, NEW f, Sound(f), Grows(file, f), Committed(p, f)
  PROVE  StorageStep
<1>1. tx' \in [Procs -> Modes] /\ seen' \in [Procs -> Files]
  BY EmptyIsAFile DEF Core, TypeOK, Committed, Modes
<1>2. \A q \in Procs : tx'[q] = "reading" => tx[q] = "reading" /\ seen'[q] = seen[q]
  BY DEF Core, TypeOK, Committed
<1> QED BY <1>1, <1>2 DEF StorageStep, Committed

LEMMA StorageRolledBack ==
  ASSUME Core, NEW p \in Procs, RolledBack(p)
  PROVE  StorageStep /\ file' = file
BY StorageCommitted, GrowsReflexive DEF RolledBack, Core, Committed

LEMMA StorageRefused ==
  ASSUME Core, NEW p \in Procs, Refused(p)
  PROVE  StorageStep
<1>1. tx' \in [Procs -> Modes] /\ seen' \in [Procs -> Files]
  BY EmptyIsAFile DEF Core, TypeOK, Refused, Modes
<1>2. \A q \in Procs : tx'[q] = "reading" => tx[q] = "reading" /\ seen'[q] = seen[q]
  BY DEF Core, TypeOK, Refused
<1> QED BY <1>1, <1>2, GrowsReflexive DEF StorageStep, Refused, Core

LEMMA StorageLocked ==
  ASSUME Core, NEW p \in Procs, Locked(p)
  PROVE  StorageStep
<1>1. tx' \in [Procs -> Modes] /\ seen' \in [Procs -> Files]
  BY DEF Core, TypeOK, Locked, Modes
<1>2. \A q \in Procs : tx'[q] = "reading" => tx[q] = "reading" /\ seen'[q] = seen[q]
  BY DEF Core, TypeOK, Locked
<1> QED BY <1>1, <1>2, GrowsReflexive DEF StorageStep, Locked, Core

\* The row of a key is written, unless it is completed.
LEMMA StorageRow ==
  ASSUME Core, NEW p \in Procs, NEW k \in Keys, NEW row \in Rows,
         file.effects[k].status # "completed", Committed(p, [file EXCEPT !.effects[k] = row])
  PROVE  StorageStep
BY RowWritten, StorageCommitted DEF Core

\* A started row changes its status.
LEMMA StorageStatus ==
  ASSUME Core, NEW p \in Procs, NEW k \in Keys, Started(k), NEW s \in {"completed", "uncertain"},
         Committed(p, [file EXCEPT !.effects[k].status = s])
  PROVE  /\ StorageStep
         /\ file'.effects = [file.effects EXCEPT ![k] = [status |-> s, action |-> file.effects[k].action]]
<1> DEFINE row == [status |-> s, action |-> file.effects[k].action]
<1>1. file.effects \in [Keys -> Rows \union {NoRow}] /\ file \in Files
  BY DEF Core, TypeOK, Files
<1>2. file.effects[k] \in Rows
  BY <1>1 DEF Started, NoRow
<1>3. row \in Rows
  BY <1>2 DEF Rows
<1>4. [file.effects[k] EXCEPT !.status = s] = row
  BY <1>2 DEF Rows
<1>5. [file EXCEPT !.effects[k].status = s] = [file EXCEPT !.effects[k] = row]
  BY <1>4
<1>6. file'.effects = [file.effects EXCEPT ![k] = row]
  BY <1>1, <1>5 DEF Committed, Files
<1> QED BY <1>3, <1>5, <1>6, StorageRow DEF Started

-----------------------------------------------------------------------------
(* What the calls do to the processes and their answers.                   *)

Where == {"idle", "reserve", "run", "complete", "append", "insert"}

ProcessStep ==
  /\ at' \in [Procs -> Where]
  /\ call' \in [Procs -> Calls \union {NoCall}]
  /\ job' \in [Procs -> Jobs \union {NoJob}]
  /\ ran' \in [Procs \X Keys -> Nat]
  /\ \A q \in Procs : job'[q] # NoJob => BuiltOn(job'[q], file)
  /\ \A q \in Procs : at'[q] \in {"append", "insert"} => job'[q] \in Jobs /\ BuiltOn(job'[q], file)
  /\ \A q \in Procs : at'[q] \in Busy => call'[q] \in Calls

AnswerStep == said' \subseteq Answers /\ AnswersAreDurable'

\* Old answers stay in a file that grows.
LEMMA AnswersStay ==
  ASSUME Core, Sound(file'), Grows(file, file'), said' = said
  PROVE  AnswerStep
<1>1. file \in Files /\ file' \in Files /\ said \subseteq Answers /\ AnswersAreDurable
  BY DEF Core, TypeOK, Sound
<1>2. \A e : HasEvent(file, e) => HasEvent(file', e)
  BY <1>1, EventsStay
<1>3. \A k \in Keys : <<"effect", k>> \in said' => file'.effects[k].status = "completed"
  BY <1>1 DEF Grows, AnswersAreDurable
<1>4. \A b \in Batches : <<"batch", b>> \in said' => \A n \in 1..Size[b] : HasEvent(file', Id(b, n))
  BY <1>1, <1>2 DEF AnswersAreDurable, HasEvent
<1>5. \A b \in Batches : <<"point", b>> \in said' => \E c \in file'.points : c.batch = b
  BY <1>1 DEF Grows, AnswersAreDurable
<1>6. \A r \in Retries : <<"retry", r>> \in said' => r \in file'.retries
  BY <1>1 DEF Grows, AnswersAreDurable
<1> QED BY <1>1, <1>3, <1>4, <1>5, <1>6 DEF AnswerStep, AnswersAreDurable, HasEvent

\* A new answer x, of which the file has what it says.
Backed(x, f) ==
  /\ \A k \in Keys : x = <<"effect", k>> => f.effects[k].status = "completed"
  /\ \A b \in Batches : x = <<"batch", b>> => \A n \in 1..Size[b] : HasEvent(f, Id(b, n))
  /\ \A b \in Batches : x = <<"point", b>> => \E c \in f.points : c.batch = b
  /\ \A r \in Retries : x = <<"retry", r>> => r \in f.retries

LEMMA AnswerGiven ==
  ASSUME Core, Sound(file'), Grows(file, file'), NEW x \in Answers, said' = said \union {x},
         Backed(x, file')
  PROVE  AnswerStep
<1>1. file \in Files /\ file' \in Files /\ said \subseteq Answers /\ AnswersAreDurable
  BY DEF Core, TypeOK, Sound
<1>2. \A e : HasEvent(file, e) => HasEvent(file', e)
  BY <1>1, EventsStay
<1>3. \A k \in Keys : <<"effect", k>> \in said' => file'.effects[k].status = "completed"
  BY <1>1 DEF Grows, AnswersAreDurable, Backed
<1>4. \A b \in Batches : <<"batch", b>> \in said' => \A n \in 1..Size[b] : HasEvent(file', Id(b, n))
  BY <1>1, <1>2 DEF AnswersAreDurable, HasEvent, Backed
<1>5. \A b \in Batches : <<"point", b>> \in said' => \E c \in file'.points : c.batch = b
  BY <1>1 DEF Grows, AnswersAreDurable, Backed
<1>6. \A r \in Retries : <<"retry", r>> \in said' => r \in file'.retries
  BY <1>1 DEF Grows, AnswersAreDurable, Backed
<1> QED BY <1>1, <1>3, <1>4, <1>5, <1>6 DEF AnswerStep, AnswersAreDurable, HasEvent

LEMMA CoreKept ==
  ASSUME Core, StorageStep, ProcessStep, AnswerStep
  PROVE  Core'
<1>1. file \in Files /\ file' \in Files /\ seen \in [Procs -> Files]
  BY DEF Core, TypeOK, StorageStep, Sound
<1>2. TypeOK'
  BY <1>1 DEF TypeOK, StorageStep, ProcessStep, AnswerStep, Modes, Where
<1>3. ASSUME NEW q \in Procs, tx'[q] = "reading"
      PROVE  Grows(seen'[q], file')
  <2>1. CASE seen'[q] = file
    BY <2>1 DEF StorageStep
  <2>2. CASE tx[q] = "reading" /\ seen'[q] = seen[q]
    BY <2>2, <1>1, GrowsTransitive DEF Core, StorageStep
  <2> QED BY <1>3, <2>1, <2>2 DEF StorageStep
<1>4. ASSUME NEW q \in Procs, BuiltOn(job'[q], file)
      PROVE  BuiltOn(job'[q], file')
  <2>1. job'[q].base \in Nat
    BY DEF ProcessStep, Jobs, NoJob
  <2> QED BY <1>4, <1>1, <2>1, BuiltOnStays DEF StorageStep
<1> QED BY <1>2, <1>3, <1>4 DEF Core, StorageStep, ProcessStep, AnswerStep
-----------------------------------------------------------------------------
(* Every action keeps Core.                                                *)

LEMMA ProcessesSame ==
  ASSUME Core, UNCHANGED <<at, call, job, ran>>
  PROVE  ProcessStep
BY DEF Core, TypeOK, ProcessStep, Where

LEMMA ProcessReturns ==
  ASSUME Core, NEW p \in Procs, Returns(p), UNCHANGED <<job, ran>>
  PROVE  ProcessStep
BY DEF Core, TypeOK, ProcessStep, Where, Returns, Busy

Steps == StorageStep /\ ProcessStep /\ AnswerStep

LEMMA RunOnceKeeps ==
  ASSUME Core, NEW p \in Procs, NEW k \in Keys, NEW a \in Actions, RunOnce(p, k, a)
  PROVE  Steps
<1>1. StorageStep
  BY StorageSelect DEF RunOnce
<1>2. CASE HasResult(View(p).effects[k])
  <2>1. ProcessStep
    BY <1>2, ProcessesSame DEF RunOnce
  <2>2. file.effects[k].status = "completed" /\ file' = file
    BY <1>2, ViewIsOfTheFile DEF HasResult, Grows, RunOnce
  <2>3. Backed(<<"effect", k>>, file')
    BY <2>2 DEF Backed
  <2>4. said' = said \union {<<"effect", k>>} /\ <<"effect", k>> \in Answers
    BY <1>2 DEF RunOnce, Answers
  <2> QED BY <1>1, <2>1, <2>3, <2>4, AnswerGiven DEF Steps, StorageStep
<1>3. CASE ~HasResult(View(p).effects[k])
  <2>1. ProcessStep
    BY <1>3 DEF RunOnce, Core, TypeOK, ProcessStep, Where, Busy, Calls
  <2>2. AnswerStep
    BY <1>1, <1>3, AnswersStay DEF RunOnce, StorageStep
  <2> QED BY <1>1, <2>1, <2>2 DEF Steps
<1> QED BY <1>2, <1>3

LEMMA ReserveSideEffectKeeps ==
  ASSUME Core, NEW p \in Procs, ReserveSideEffect(p)
  PROVE  Steps
<1> DEFINE k == call[p].key
           row == file.effects[k]
<1>1. at[p] = "reserve" /\ call[p] \in Calls /\ k \in Keys /\ call[p].action \in Actions
  BY DEF ReserveSideEffect, Core, Busy, Calls
<1>2. ASSUME Runs(p) PROVE ProcessStep
  BY <1>1, <1>2 DEF ReserveSideEffect, Runs, Core, TypeOK, ProcessStep, Where, Busy
<1>3. CASE Locked(p) /\ Returns(p)
  BY <1>3, StorageLocked, ProcessReturns, AnswersStay DEF ReserveSideEffect, Steps, StorageStep
<1>4. CASE /\ CanWrite(p) /\ row = NoRow
           /\ Committed(p, [file EXCEPT !.effects[k] =
                              [status |-> "started", action |-> call[p].action]])
           /\ Runs(p)
  <2>1. [status |-> "started", action |-> call[p].action] \in Rows /\ row.status # "completed"
    BY <1>1, <1>4 DEF Rows, NoRow
  <2>2. StorageStep
    BY <1>1, <1>4, <2>1, StorageRow
  <2> QED BY <1>2, <1>4, <2>2, AnswersStay DEF ReserveSideEffect, Steps, StorageStep
<1>5. CASE /\ CanWrite(p) /\ row # NoRow
           /\ Refused(p)
           /\ IF Accepts(row, call[p].action) THEN Runs(p) ELSE Returns(p)
  <2>1. ProcessStep
    BY <1>2, <1>5, ProcessReturns DEF ReserveSideEffect
  <2> QED BY <1>5, <2>1, StorageRefused, AnswersStay DEF ReserveSideEffect, Steps, StorageStep
<1> QED BY <1>3, <1>4, <1>5 DEF ReserveSideEffect

LEMMA ExecuteKeeps ==
  ASSUME Core, NEW p \in Procs, Execute(p)
  PROVE  Steps
<1>1. StorageStep /\ AnswerStep
  BY StorageSame, AnswersStay DEF Execute, StorageStep
<1>2. at[p] = "run" /\ call[p] \in Calls /\ call[p].key \in Keys
  BY DEF Execute, Core, Busy, Calls
<1>3. ran' \in [Procs \X Keys -> Nat]
  BY <1>2 DEF Execute, Core, TypeOK
<1>4. CASE at' = [at EXCEPT ![p] = "complete"] /\ UNCHANGED call
  BY <1>1, <1>2, <1>3, <1>4 DEF Execute, Core, TypeOK, ProcessStep, Where, Busy, Steps
<1>5. CASE Returns(p)
  BY <1>1, <1>3, <1>5 DEF Execute, Core, TypeOK, ProcessStep, Where, Busy, Steps, Returns
<1> QED BY <1>4, <1>5 DEF Execute

LEMMA CompleteSideEffectKeeps ==
  ASSUME Core, NEW p \in Procs, CompleteSideEffect(p)
  PROVE  Steps
<1> DEFINE k == call[p].key
<1>1. ProcessStep
  BY ProcessReturns DEF CompleteSideEffect
<1>2. k \in Keys
  BY DEF CompleteSideEffect, Core, Busy, Calls
<1>3. CASE Locked(p) /\ UNCHANGED said
  BY <1>1, <1>3, StorageLocked, AnswersStay DEF Steps, StorageStep
<1>4. CASE /\ CanWrite(p) /\ Started(k)
           /\ Committed(p, [file EXCEPT !.effects[k].status = "completed"])
           /\ said' = said \union {<<"effect", k>>}
  <2>1. /\ StorageStep
        /\ file'.effects = [file.effects EXCEPT
                              ![k] = [status |-> "completed", action |-> file.effects[k].action]]
    BY <1>2, <1>4, StorageStatus
  <2>2. file'.effects[k].status = "completed"
    BY <1>2, <2>1 DEF Core, TypeOK, Files
  <2>3. Backed(<<"effect", k>>, file') /\ <<"effect", k>> \in Answers
    BY <1>2, <2>2 DEF Backed, Answers
  <2> QED BY <1>1, <1>4, <2>1, <2>3, AnswerGiven DEF Steps, StorageStep
<1>5. CASE CanWrite(p) /\ ~Started(k) /\ Refused(p) /\ UNCHANGED said
  BY <1>1, <1>5, StorageRefused, AnswersStay DEF Steps, StorageStep
<1> QED BY <1>3, <1>4, <1>5 DEF CompleteSideEffect

LEMMA MarkUncertainKeeps ==
  ASSUME Core, NEW p \in Procs, NEW k \in Keys, MarkUncertain(p, k)
  PROVE  Steps
<1>1. ProcessStep
  BY ProcessesSame DEF MarkUncertain
<1>2. StorageStep
  BY StorageLocked, StorageStatus, StorageRefused DEF MarkUncertain
<1> QED BY <1>1, <1>2, AnswersStay DEF Steps, StorageStep, MarkUncertain

LEMMA RecordRetryKeeps ==
  ASSUME Core, NEW p \in Procs, NEW r \in Retries, RecordRetry(p, r)
  PROVE  Steps
<1>1. ProcessStep
  BY ProcessesSame DEF RecordRetry
<1>2. CASE Locked(p) /\ UNCHANGED said
  BY <1>1, <1>2, StorageLocked, AnswersStay DEF Steps, StorageStep
<1>3. CASE /\ CanWrite(p) /\ r \notin file.retries
           /\ Committed(p, [file EXCEPT !.retries = @ \union {r}])
           /\ said' = said \union {<<"retry", r>>}
  <2> DEFINE g == [file EXCEPT !.retries = @ \union {r}]
  <2>1. /\ g \in Files /\ g.events = file.events /\ g.effects = file.effects
        /\ g.points = file.points /\ g.retries = file.retries \union {r}
    BY DEF Core, TypeOK, Files
  <2> HIDE DEF g
  <2>2. Sound(g) /\ Grows(file, g)
    BY <2>1, RecordAdded DEF Core
  <2>3. Committed(p, g)
    BY <1>3 DEF g
  <2>4. StorageStep /\ file' = g
    BY <2>2, <2>3, StorageCommitted DEF Committed
  <2>5. Backed(<<"retry", r>>, file') /\ <<"retry", r>> \in Answers
    BY <2>1, <2>4 DEF Backed, Answers
  <2> QED BY <1>1, <1>3, <2>4, <2>5, AnswerGiven DEF Steps, StorageStep
<1>4. CASE CanWrite(p) /\ r \in file.retries /\ Refused(p) /\ UNCHANGED said
  BY <1>1, <1>4, StorageRefused, AnswersStay DEF Steps, StorageStep
<1> QED BY <1>2, <1>3, <1>4 DEF RecordRetry

LEMMA HeadIsTheLast ==
  ASSUME NEW f \in Files
  PROVE  /\ HeadOf(f) = IF Len(f.events) = 0 THEN NoEvent ELSE f.events[Len(f.events)].id
         /\ HeadOf(f) \in Ids \union {NoEvent}
<1>1. f.events \in Seq(Events) /\ Len(f.events) \in Nat
  BY FileFacts
<1>2. f.events = <<>> <=> Len(f.events) = 0
  BY <1>1, EmptySeq
<1>3. Len(f.events) # 0 => f.events[Len(f.events)] \in Events
  BY <1>1, FileFacts
<1> QED BY <1>2, <1>3 DEF HeadOf, Events

LEMMA BuildBatchKeeps ==
  ASSUME Core, NEW p \in Procs, NEW b \in Batches, BuildBatch(p, b)
  PROVE  Steps
<1> DEFINE f == View(p)
           j == [batch |-> b, base |-> Len(f.events), prev |-> HeadOf(f)]
<1>1. StorageStep /\ AnswerStep
  BY StorageSelect, AnswersStay DEF BuildBatch, StorageStep
<1>2. f \in Files /\ Grows(f, file) /\ Len(f.events) \in Nat
  BY ViewIsOfTheFile, FileFacts
<1>3. j \in Jobs
  BY <1>2, HeadIsTheLast DEF Jobs
<1>4. BuiltOn(j, f)
  BY <1>2, HeadIsTheLast DEF BuiltOn
<1>5. BuiltOn(j, file)
  BY <1>2, <1>4, BuiltOnStays DEF Core, TypeOK
<1>6. job' = [job EXCEPT ![p] = j] /\ at' = [at EXCEPT ![p] = "append"] /\ UNCHANGED <<call, ran>>
  BY DEF BuildBatch
<1> HIDE DEF j
<1>7. ProcessStep
  BY <1>3, <1>5, <1>6 DEF Core, TypeOK, ProcessStep, Where, Busy
<1> QED BY <1>1, <1>7 DEF Steps

LEMMA SendAgainKeeps ==
  ASSUME Core, NEW p \in Procs, SendAgain(p)
  PROVE  Steps
<1>1. StorageStep /\ AnswerStep
  BY StorageSame, AnswersStay DEF SendAgain, StorageStep
<1>2. ProcessStep
  BY DEF SendAgain, Core, TypeOK, ProcessStep, Where, Busy
<1> QED BY <1>1, <1>2 DEF Steps

LEMMA ValidateBatchKeeps ==
  ASSUME Core, NEW p \in Procs, ValidateBatch(p)
  PROVE  Steps
<1> DEFINE f == View(p)
           b == job[p].batch
<1>1. StorageStep
  BY StorageSelect DEF ValidateBatch
<1>2. file' = file /\ UNCHANGED <<job, ran>> /\ at[p] = "append" /\ job[p] \in Jobs /\ b \in Batches
  BY DEF ValidateBatch, Core, Jobs
<1>3. CASE /\ HasTransaction(f, b)
           /\ Returns(p)
           /\ said' = IF AnswersAgain(f, job[p]) THEN said \union {<<"batch", b>>} ELSE said
  <2>1. ProcessStep
    BY <1>2, <1>3, ProcessReturns
  <2>2. HasTransaction(file, b)
    BY <1>3, ViewIsOfTheFile, EventsStay DEF Core, TypeOK
  <2>3. Backed(<<"batch", b>>, file')
    BY <1>2, <2>2 DEF Core, Sound, IsWhole, Backed
  <2>4. <<"batch", b>> \in Answers
    BY <1>2 DEF Answers
  <2>5. AnswerStep
    BY <1>1, <1>3, <2>3, <2>4, AnswerGiven, AnswersStay DEF StorageStep
  <2> QED BY <1>1, <2>1, <2>5 DEF Steps
<1>4. CASE /\ ~HasTransaction(f, b)
           /\ IF job[p].base = Len(f.events) /\ job[p].prev = HeadOf(f)
              THEN at' = [at EXCEPT ![p] = "insert"] /\ UNCHANGED call
              ELSE Returns(p)
           /\ UNCHANGED said
  <2>1. AnswerStep
    BY <1>1, <1>4, AnswersStay DEF StorageStep
  <2>2. CASE Returns(p)
    BY <1>1, <1>2, <2>1, <2>2, ProcessReturns DEF Steps
  <2>3. CASE at' = [at EXCEPT ![p] = "insert"] /\ UNCHANGED call
    <3> ProcessStep
      BY <1>2, <2>3 DEF Core, TypeOK, ProcessStep, Where, Busy
    <3> QED BY <1>1, <2>1 DEF Steps
  <2> QED BY <1>4, <2>2, <2>3
<1> QED BY <1>3, <1>4 DEF ValidateBatch

LEMMA InsertBatchKeeps ==
  ASSUME Core, NEW p \in Procs, InsertBatch(p)
  PROVE  Steps
<1>1. ProcessStep
  BY ProcessReturns DEF InsertBatch
<1>2. CASE CanBegin(p) /\ RowsAreFree(p)
  <2> DEFINE g == [file EXCEPT !.events = @ \o RowsOf(job[p])]
             b == job[p].batch
  <2>1. job[p] \in Jobs /\ BuiltOn(job[p], file) /\ b \in Batches
    BY DEF InsertBatch, Core, Jobs
  <2>2. Committed(p, g) /\ said' = said \union {<<"batch", b>>}
    BY <1>2 DEF InsertBatch
  <2>3. Sound(g) /\ Grows(file, g) /\ \A n \in 1..Size[b] : HasEvent(g, Id(b, n))
    BY <1>2, <2>1, BatchAppended DEF RowsAreFree, Core
  <2> HIDE DEF g
  <2>4. StorageStep /\ file' = g
    BY <2>2, <2>3, StorageCommitted DEF Committed
  <2>5. Backed(<<"batch", b>>, file') /\ <<"batch", b>> \in Answers
    BY <2>1, <2>3, <2>4 DEF Backed, Answers
  <2> QED BY <1>1, <2>2, <2>4, <2>5, AnswerGiven DEF Steps, StorageStep
<1>3. CASE ~(CanBegin(p) /\ RowsAreFree(p))
  BY <1>1, <1>3, StorageRolledBack, AnswersStay DEF InsertBatch, Steps, StorageStep
<1> QED BY <1>2, <1>3

LEMMA TakeCheckpointKeeps ==
  ASSUME Core, NEW p \in Procs, NEW b \in Batches, TakeCheckpoint(p, b)
  PROVE  Steps
<1> DEFINE f == View(p)
           point == [batch |-> b, seq |-> LastOf(f, b), head |-> f.events[LastOf(f, b)].id]
<1>1. ProcessStep
  BY ProcessesSame DEF TakeCheckpoint
<1>2. CASE ~HasTransaction(f, b) /\ Select(p) /\ UNCHANGED <<file, said>>
  BY <1>1, <1>2, StorageSelect, AnswersStay DEF Steps, StorageStep
<1>3. CASE /\ HasTransaction(f, b)
           /\ CanWrite(p) /\ \A c \in file.points : c.batch # b
           /\ Committed(p, [file EXCEPT !.points = @ \union {point}])
           /\ said' = said \union {<<"point", b>>}
  <2> DEFINE g == [file EXCEPT !.points = @ \union {point}]
  <2>1. f = file /\ file \in Files /\ Size[b] \in 1..Size[b]
    BY <1>3, ViewIsOfTheFile, StoreAssumption DEF Core, TypeOK
  <2>2. HasEvent(file, Id(b, Size[b]))
    BY <1>3, <2>1 DEF Core, Sound, IsWhole
  <2>3. LastOf(f, b) \in 1..Len(file.events)
    BY <2>1, <2>2 DEF LastOf, HasEvent
  <2>4. point \in Points /\ point.batch = b
    BY <2>1, <2>3, FileFacts DEF Points, Events
  <2> HIDE DEF point
  <2>5. /\ g \in Files /\ g.events = file.events /\ g.effects = file.effects
        /\ g.points = file.points \union {point} /\ g.retries = file.retries
    BY <2>1, <2>4 DEF Files
  <2> HIDE DEF g
  <2>6. Sound(g) /\ Grows(file, g)
    BY <2>5, RecordAdded DEF Core
  <2>7. Committed(p, g)
    BY <1>3 DEF g
  <2>8. StorageStep /\ file' = g
    BY <2>6, <2>7, StorageCommitted DEF Committed
  <2>9. Backed(<<"point", b>>, file') /\ <<"point", b>> \in Answers
    BY <2>4, <2>5, <2>8 DEF Backed, Answers
  <2> QED BY <1>1, <1>3, <2>8, <2>9, AnswerGiven DEF Steps, StorageStep
<1>4. CASE RolledBack(p) /\ UNCHANGED said
  BY <1>1, <1>4, StorageRolledBack, AnswersStay DEF Steps, StorageStep
<1> QED BY <1>2, <1>3, <1>4 DEF TakeCheckpoint

LEMMA LookKeeps ==
  ASSUME Core, NEW p \in Procs, Look(p)
  PROVE  Steps
BY StorageSelect, ProcessesSame, AnswersStay DEF Look, Steps, StorageStep

LEMMA RestartKeeps ==
  ASSUME Core, NEW p \in Procs, Restart(p)
  PROVE  Steps
<1>1. StorageStep /\ AnswerStep
  BY StorageRolledBack, AnswersStay DEF Restart, StorageStep
<1>2. ProcessStep
  BY DEF Restart, Returns, Core, TypeOK, ProcessStep, Where, Busy
<1> QED BY <1>1, <1>2 DEF Steps

LEMMA CoreInit == Init => Core
<1> SUFFICES ASSUME Init PROVE Core
  OBVIOUS
<1>1. file \in Files /\ file.events = <<>> /\ Len(file.events) = 0
  BY EmptyIsAFile, EmptySeq DEF Init, Empty
<1>2. Sound(file)
  BY <1>1 DEF Sound, IsChain, IsWhole, HasTransaction
<1>3. TypeOK
  BY <1>1, EmptyIsAFile DEF Init, TypeOK
<1> QED BY <1>2, <1>3 DEF Init, Core, Busy, AnswersAreDurable

LEMMA CoreNext == Core /\ [Next]_vars => Core'
<1> SUFFICES ASSUME Core, [Next]_vars PROVE Core'
  OBVIOUS
<1>1. CASE UNCHANGED vars
  BY <1>1, StorageSame, ProcessesSame, AnswersStay, CoreKept DEF vars, connection, StorageStep
<1>2. CASE Next
  <2> PICK p \in Procs :
        \/ \E k \in Keys, a \in Actions : RunOnce(p, k, a)
        \/ ReserveSideEffect(p) \/ Execute(p) \/ CompleteSideEffect(p)
        \/ \E k \in Keys : MarkUncertain(p, k)
        \/ \E r \in Retries : RecordRetry(p, r)
        \/ \E b \in Batches : BuildBatch(p, b) \/ TakeCheckpoint(p, b)
        \/ SendAgain(p) \/ ValidateBatch(p) \/ InsertBatch(p)
        \/ Look(p) \/ Restart(p)
    BY <1>2 DEF Next
  <2>1. Steps
    BY RunOnceKeeps, ReserveSideEffectKeeps, ExecuteKeeps, CompleteSideEffectKeeps,
       MarkUncertainKeeps, RecordRetryKeeps, BuildBatchKeeps, TakeCheckpointKeeps,
       SendAgainKeeps, ValidateBatchKeeps, InsertBatchKeeps, LookKeeps, RestartKeeps
  <2> QED BY <2>1, CoreKept DEF Steps
<1> QED BY <1>1, <1>2
-----------------------------------------------------------------------------
(* Every action keeps Once.                                                *)

\* A call that executes nothing, over a file where no effect is completed and no
\* row vanishes, and whose process does not go on to the effect.
LEMMA OnceKept ==
  ASSUME Core, Once, StorageStep, ran' = ran,
         \A q \in Procs : at'[q] \in Busy => at'[q] = at[q] /\ call'[q] = call[q],
         \A k \in Keys : Completed(k)' => Completed(k),
         \A q \in Procs : at'[q] = "reserve" => tx'[q] = tx[q] /\ seen'[q] = seen[q]
  PROVE  Once'
<1>1. \A k \in Keys : file.effects[k] # NoRow => file'.effects[k] # NoRow
  BY DEF StorageStep, Grows
<1>2. \A k \in Keys : Completed(k)' = Completed(k)
  BY DEF StorageStep, Grows, Completed
<1>3. \A q \in Procs : at[q] \in Busy => call[q].key \in Keys
  BY DEF Core, Calls
<1>4. UnknownIsNotRepeated'
  BY <1>2 DEF Once, UnknownIsNotRepeated, Completed
<1>5. ASSUME NEW q \in Procs PROVE Stands(q)'
  <2>1. CASE at'[q] = "reserve"
    <3>1. at[q] = "reserve" /\ call'[q] = call[q] /\ call[q].key \in Keys
      BY <2>1, <1>3 DEF Busy
    <3>2. ReservesOnAnOldView(q)
      BY <3>1 DEF Once, Stands
    <3> QED BY <2>1, <3>1, <3>2, <1>2 DEF Stands, ReservesOnAnOldView, Ran
  <2>2. CASE at'[q] = "run"
    <3>1. at[q] = "run" /\ call'[q] = call[q] /\ call[q].key \in Keys
      BY <2>2, <1>3 DEF Busy
    <3>2. RunsAlone(q)
      BY <3>1 DEF Once, Stands
    <3>3. \A r \in Procs : at'[r] = "run" => at[r] = "run" /\ call'[r] = call[r]
      BY DEF Busy
    <3> QED BY <2>2, <3>1, <3>2, <3>3, <1>1, <1>2 DEF Stands, RunsAlone, Ran
  <2>3. CASE at'[q] = "complete"
    <3>1. at[q] = "complete" /\ call'[q] = call[q]
      BY <2>3 DEF Busy
    <3> QED BY <2>3, <3>1 DEF Once, Stands, Ran
  <2> QED BY <2>1, <2>2, <2>3 DEF Stands
<1> QED BY <1>1, <1>4, <1>5 DEF Once, Ran

\* Where the others stand when one process goes on, and the file keeps what it has.
LEMMA OthersStand ==
  ASSUME Core, Once, NEW p \in Procs, ran' = ran, NEW q \in Procs \ {p},
         tx'[q] = tx[q] /\ seen'[q] = seen[q] /\ at'[q] = at[q] /\ call'[q] = call[q],
         \A r \in Procs \ {p} : at'[r] = at[r] /\ call'[r] = call[r],
         \A k \in Keys : Completed(k)' = Completed(k),
         \A k \in Keys : file.effects[k] # NoRow => file'.effects[k] # NoRow,
         at'[p] = "run" /\ at[q] = "run" => Completed(call[q].key) \/ call'[p].key # call[q].key
  PROVE  Stands(q)'
<1>1. at[q] \in Busy => call[q].key \in Keys
  BY DEF Core, Calls
<1>2. Stands(q)
  BY DEF Once
<1>3. CASE at[q] = "reserve"
  BY <1>1, <1>2, <1>3 DEF Stands, ReservesOnAnOldView, Ran, Busy
<1>4. CASE at[q] = "run"
  <2>1. RunsAlone(q) /\ call[q].key \in Keys
    BY <1>1, <1>2, <1>4 DEF Stands, Busy
  <2> QED BY <2>1, <1>4 DEF Stands, RunsAlone, Ran
<1>5. CASE at[q] = "complete"
  BY <1>1, <1>2, <1>5 DEF Stands, Ran, Busy
<1> QED BY <1>3, <1>4, <1>5 DEF Stands

LEMMA RunOnceOnce ==
  ASSUME Core, Once, NEW p \in Procs, NEW k \in Keys, NEW a \in Actions, RunOnce(p, k, a)
  PROVE  Once'
<1>1. /\ file' = file /\ ran' = ran /\ at[p] = "idle"
      /\ \A q \in Procs \ {p} : tx'[q] = tx[q] /\ seen'[q] = seen[q]
  BY DEF RunOnce, Select, connection, Core, TypeOK
<1>0. \A l \in Keys : Completed(l)' = Completed(l)
  BY <1>1 DEF Completed
<1>2. CASE HasResult(View(p).effects[k])
  <2>1. at' = at /\ call' = call
    BY <1>2 DEF RunOnce
  <2>2. StorageStep
    BY RunOnceKeeps DEF Steps
  <2> QED BY <1>0, <1>1, <2>1, <2>2, OnceKept DEF Busy
<1>3. CASE ~HasResult(View(p).effects[k])
  <2>1. /\ at' = [at EXCEPT ![p] = "reserve"]
        /\ call' = [call EXCEPT ![p] = [key |-> k, action |-> a]]
    BY <1>3 DEF RunOnce
  <2>2. /\ at'[p] = "reserve" /\ call'[p].key = k
        /\ \A q \in Procs \ {p} : at'[q] = at[q] /\ call'[q] = call[q]
    BY <2>1 DEF Core, TypeOK
  <2>4. Completed(k) => tx'[p] = "reading" /\ seen'[p].effects[k].status # "completed"
    <3>1. CASE tx[p] = "reading"
      BY <3>1, <1>3 DEF RunOnce, Select, connection, View, HasResult, Core, TypeOK
    <3>2. CASE tx[p] # "reading"
      BY <3>2, <1>3 DEF View, HasResult, Completed
    <3> QED BY <3>1, <3>2
  <2>5. ASSUME NEW q \in Procs PROVE Stands(q)'
    <3>1. CASE q = p
      BY <3>1, <1>0, <2>2, <2>4 DEF Stands, ReservesOnAnOldView
    <3>2. CASE q # p
      BY <3>2, <1>0, <1>1, <2>2, OthersStand
    <3> QED BY <3>1, <3>2
  <2> QED BY <1>1, <2>5 DEF Once, UnknownIsNotRepeated, Ran
<1> QED BY <1>2, <1>3

\* A new reservation leads on to the effect, and one that is completed does.
LEMMA ReserveSideEffectOnce ==
  ASSUME Core, Once, NEW p \in Procs, ReserveSideEffect(p)
  PROVE  Once'
<1> DEFINE k == call[p].key
           row == file.effects[k]
<1>1. /\ at[p] = "reserve" /\ ran' = ran /\ k \in Keys /\ call[p].action \in Actions
      /\ StorageStep
  BY ReserveSideEffectKeeps DEF ReserveSideEffect, Core, Busy, Calls, Steps
<1>2. /\ \A q \in Procs \ {p} : tx'[q] = tx[q] /\ seen'[q] = seen[q]
      /\ \A q \in Procs \ {p} : at'[q] = at[q] /\ call'[q] = call[q]
  BY DEF ReserveSideEffect, Locked, Committed, Refused, Returns, Runs, Core, TypeOK
<1>3. ASSUME Returns(p), file' = file
      PROVE  Once'
  <2>1. at'[p] = "idle"
    BY <1>3 DEF Returns, Core, TypeOK
  <2>2. \A l \in Keys : Completed(l)' = Completed(l)
    BY <1>3 DEF Completed
  <2> QED BY <1>1, <1>2, <1>3, <2>1, <2>2, OnceKept DEF Busy
<1>4. CASE Locked(p) /\ Returns(p)
  BY <1>4, <1>3 DEF Locked
<1>5. CASE /\ CanWrite(p) /\ row = NoRow
           /\ Committed(p, [file EXCEPT !.effects[k] =
                              [status |-> "started", action |-> call[p].action]])
           /\ Runs(p)
  <2> DEFINE new == [status |-> "started", action |-> call[p].action]
  <2>1. /\ file'.effects = [file.effects EXCEPT ![k] = new]
        /\ file.effects \in [Keys -> Rows \union {NoRow}]
    BY <1>5 DEF Committed, Core, TypeOK, Files
  <2>2. new # NoRow /\ new.status # "completed" /\ NoRow.status # "completed"
    BY DEF NoRow
  <2> HIDE DEF new
  <2>3. /\ file'.effects[k] # NoRow
        /\ \A l \in Keys : l # k => file'.effects[l] = file.effects[l]
        /\ \A l \in Keys : Completed(l)' = Completed(l)
    BY <2>1, <2>2, <1>1, <1>5 DEF Completed
  <2>4. at'[p] = "run" /\ call' = call
    BY <1>5 DEF Runs, Core, TypeOK
  <2>5. \A q \in Procs : ~Ran(q, k)
    BY <1>1, <1>5 DEF Once
  <2>6. ASSUME NEW q \in Procs \ {p}, at[q] = "run"
        PROVE  call[q].key # k
    BY <2>6, <1>5 DEF Once, Stands, RunsAlone
  <2>7. ASSUME NEW q \in Procs PROVE Stands(q)'
    <3>1. CASE q = p
      <4>1. \A r \in Procs : ~Ran(r, k)' /\ (r # p /\ at'[r] = "run" => call'[r].key # k)
        BY <1>1, <1>2, <2>4, <2>5, <2>6 DEF Ran
      <4> QED BY <3>1, <2>3, <2>4, <4>1 DEF Stands, RunsAlone
    <3>2. CASE q # p
      <4>1. at'[p] = "run" /\ at[q] = "run" => Completed(call[q].key) \/ call'[p].key # call[q].key
        BY <3>2, <2>4, <2>6
      <4>2. \A l \in Keys : file.effects[l] # NoRow => file'.effects[l] # NoRow
        BY <2>3
      <4> QED BY <3>2, <4>1, <4>2, <1>1, <1>2, <2>3, OthersStand
    <3> QED BY <3>1, <3>2
  <2>8. \A q \in Procs, l \in Keys : Ran(q, l)' => file'.effects[l] # NoRow
    BY <1>1, <2>3 DEF Once, Ran
  <2>9. UnknownIsNotRepeated'
    BY <1>1, <2>3 DEF Once, UnknownIsNotRepeated, Completed
  <2> QED BY <2>7, <2>8, <2>9 DEF Once
<1>6. CASE /\ CanWrite(p) /\ row # NoRow
           /\ Refused(p)
           /\ IF Accepts(row, call[p].action) THEN Runs(p) ELSE Returns(p)
  <2>1. file' = file
    BY <1>6 DEF Refused
  <2>2. CASE Returns(p)
    BY <2>1, <2>2, <1>3
  <2>3. CASE Runs(p) /\ Accepts(row, call[p].action)
    <3>1. file.effects[k].status = "completed" /\ file'.effects[k] # NoRow
      BY <2>1, <2>3, <1>6 DEF Accepts
    <3>2. ~Ran(p, k)
      <4>1. ReservesOnAnOldView(p)
        BY <1>1 DEF Once, Stands
      <4> QED BY <3>1, <4>1, <1>6 DEF ReservesOnAnOldView, CanWrite, Completed
    <3>3. at'[p] = "run" /\ call' = call
      BY <2>3 DEF Runs, Core, TypeOK
    <3>4. \A l \in Keys : Completed(l)' = Completed(l)
      BY <2>1 DEF Completed
    <3>5. ASSUME NEW q \in Procs PROVE Stands(q)'
      <4>1. CASE q = p
        <5>1. RunsAlone(p)'
          BY <1>1, <1>2, <2>1, <3>1, <3>2, <3>3 DEF RunsAlone, Ran, Completed
        <5> QED BY <4>1, <5>1, <3>3 DEF Stands
      <4>2. CASE q # p
        <5>1. at'[p] = "run" /\ at[q] = "run" =>
                Completed(call[q].key) \/ call'[p].key # call[q].key
          BY <3>1, <3>3 DEF Completed
        <5> QED BY <4>2, <5>1, <1>1, <1>2, <2>1, <3>4, OthersStand
      <4> QED BY <4>1, <4>2
    <3> QED BY <1>1, <2>1, <3>5 DEF Once, UnknownIsNotRepeated, Ran
  <2> QED BY <2>2, <2>3, <1>6
<1> QED BY <1>4, <1>5, <1>6 DEF ReserveSideEffect

LEMMA ExecuteOnce ==
  ASSUME Core, Once, NEW p \in Procs, Execute(p)
  PROVE  Once'
<1> DEFINE k == call[p].key
<1>1. /\ at[p] = "run" /\ k \in Keys /\ RunsAlone(p)
      /\ UNCHANGED <<file, tx, seen>>
  BY DEF Execute, Core, Busy, Calls, Once, Stands, connection
<1>2. /\ ran[<<p, k>>] = 0 /\ ran'[<<p, k>>] = 1
      /\ \A q \in Procs, l \in Keys : q # p \/ l # k => ran'[<<q, l>>] = ran[<<q, l>>]
  BY <1>1 DEF Execute, Core, TypeOK, RunsAlone, Ran
<1>3. /\ at'[p] \in {"idle", "complete"} /\ (at'[p] # "idle" => call'[p] = call[p])
      /\ \A q \in Procs \ {p} : at'[q] = at[q] /\ call'[q] = call[q]
  BY DEF Execute, Returns, Core, TypeOK
<1>4. \A l \in Keys : Completed(l)' = Completed(l)
  BY <1>1 DEF Completed
<1>5. UnknownIsNotRepeated'
  <2>1. \A q \in Procs, l \in Keys : ran'[<<q, l>>] <= 1
    <3>1. ASSUME NEW q \in Procs, NEW l \in Keys
          PROVE  ran'[<<q, l>>] <= 1
      <4>1. CASE q = p /\ l = k
        BY <4>1, <1>2
      <4>2. CASE q # p \/ l # k
        BY <4>2, <1>2 DEF Once, UnknownIsNotRepeated
      <4> QED BY <4>1, <4>2
    <3> QED BY <3>1
  <2>2. ASSUME NEW q \in Procs, NEW r \in Procs, NEW l \in Keys,
               q # r, ran'[<<q, l>>] > 0, ran'[<<r, l>>] > 0
        PROVE  file'.effects[l].status = "completed"
    <3>1. CASE l # k \/ (q # p /\ r # p)
      BY <1>1, <1>2, <2>2, <3>1 DEF Once, UnknownIsNotRepeated
    <3>2. CASE l = k /\ (q = p \/ r = p)
      <4>1. Ran(q, k) \/ Ran(r, k)
        BY <1>2, <2>2, <3>2 DEF Ran
      <4> QED BY <4>1, <3>2, <1>1 DEF RunsAlone, Completed
    <3> QED BY <3>1, <3>2
  <2> QED BY <2>1, <2>2 DEF UnknownIsNotRepeated
<1>6. \A q \in Procs, l \in Keys : Ran(q, l)' => file'.effects[l] # NoRow
  BY <1>1, <1>2 DEF Once, Ran, RunsAlone
<1>7. ASSUME NEW q \in Procs PROVE Stands(q)'
  <2>1. CASE q = p
    BY <2>1, <1>2, <1>3 DEF Stands, Ran
  <2>2. CASE q # p /\ at[q] = "reserve"
    <3>1. call[q].key \in Keys /\ ReservesOnAnOldView(q)
      BY <2>2 DEF Once, Stands, Core, Busy, Calls
    <3>2. Ran(q, call[q].key)' = Ran(q, call[q].key)
      BY <1>2, <1>3, <2>2, <3>1 DEF Ran
    <3> QED BY <2>2, <3>1, <3>2, <1>1, <1>3, <1>4 DEF Stands, ReservesOnAnOldView
  <2>3. CASE q # p /\ at[q] = "run"
    <3>1. call[q].key \in Keys /\ RunsAlone(q)
      BY <2>3 DEF Once, Stands, Core, Busy, Calls
    <3>2. Completed(call[q].key) \/ call[q].key # k
      BY <1>1, <2>3 DEF RunsAlone
    <3>3. ~Ran(q, call[q].key)'
      BY <1>2, <1>3, <2>3, <3>1 DEF RunsAlone, Ran
    <3>4. ~Completed(call[q].key) =>
            \A r \in Procs : ~Ran(r, call[q].key)' /\ (r # q /\ at'[r] = "run" => call'[r].key # call[q].key)
      <4> SUFFICES ASSUME ~Completed(call[q].key), NEW r \in Procs
                   PROVE  ~Ran(r, call[q].key)' /\ (r # q /\ at'[r] = "run" => call'[r].key # call[q].key)
        OBVIOUS
      <4>1. ran'[<<r, call[q].key>>] = ran[<<r, call[q].key>>]
        BY <1>2, <3>1, <3>2
      <4> QED BY <1>3, <2>3, <3>1, <4>1 DEF RunsAlone, Ran
    <3> QED BY <2>3, <3>1, <3>3, <3>4, <1>1, <1>3, <1>4 DEF Stands, RunsAlone
  <2>4. CASE q # p /\ at[q] = "complete"
    <3>1. call[q].key \in Keys /\ Ran(q, call[q].key)
      BY <2>4 DEF Once, Stands, Core, Busy, Calls
    <3> QED BY <2>4, <3>1, <1>2, <1>3 DEF Stands, Ran
  <2> QED BY <2>1, <2>2, <2>3, <2>4, <1>3 DEF Stands
<1> QED BY <1>5, <1>6, <1>7 DEF Once

\* The record is made by the one process that ran the effect, so nobody who ran it
\* is at its reservation.
LEMMA CompleteSideEffectOnce ==
  ASSUME Core, Once, NEW p \in Procs, CompleteSideEffect(p)
  PROVE  Once'
<1> DEFINE k == call[p].key
<1>1. /\ at[p] = "complete" /\ ran' = ran /\ k \in Keys /\ StorageStep /\ Ran(p, k)
  BY CompleteSideEffectKeeps DEF CompleteSideEffect, Core, Busy, Calls, Steps, Once, Stands
<1>2. /\ \A q \in Procs \ {p} : tx'[q] = tx[q] /\ seen'[q] = seen[q]
      /\ \A q \in Procs \ {p} : at'[q] = at[q] /\ call'[q] = call[q]
      /\ at'[p] = "idle"
  BY DEF CompleteSideEffect, Locked, Committed, Refused, Returns, Core, TypeOK
<1>3. CASE UNCHANGED file
  <2>1. \A l \in Keys : Completed(l)' = Completed(l)
    BY <1>3 DEF Completed
  <2> QED BY <1>1, <1>2, <2>1, OnceKept DEF Busy
<1>4. CASE Started(k) /\ Committed(p, [file EXCEPT !.effects[k].status = "completed"])
  <2>1. file'.effects = [file.effects EXCEPT
                           ![k] = [status |-> "completed", action |-> file.effects[k].action]]
    BY <1>4, <1>1, StorageStatus
  <2>2. file.effects \in [Keys -> Rows \union {NoRow}]
    BY DEF Core, TypeOK, Files
  <2>3. \A l \in Keys : l # k => file'.effects[l] = file.effects[l]
    BY <2>1, <2>2
  <2>4. \A l \in Keys : Completed(l) => Completed(l)'
    BY <1>1 DEF StorageStep, Grows, Completed
  <2>5. \A l \in Keys : file.effects[l] # NoRow => file'.effects[l] # NoRow
    BY <1>1 DEF StorageStep, Grows
  <2>6. ~Completed(k)
    BY <1>4 DEF Started, Completed
  <2>7. \A q \in Procs \ {p} : ~Ran(q, k)
    BY <1>1, <2>6 DEF Once, UnknownIsNotRepeated, Completed, Ran
  <2>8. ASSUME NEW q \in Procs PROVE Stands(q)'
    <3>1. CASE q = p
      BY <3>1, <1>2 DEF Stands
    <3>2. CASE q # p /\ at[q] = "reserve"
      <4>1. call[q].key \in Keys /\ ReservesOnAnOldView(q)
        BY <3>2 DEF Once, Stands, Core, Busy, Calls
      <4>2. CASE call[q].key = k
        BY <3>2, <4>2, <1>1, <1>2, <2>7 DEF Stands, ReservesOnAnOldView, Ran
      <4>3. CASE call[q].key # k
        BY <3>2, <4>1, <4>3, <1>1, <1>2, <2>3 DEF Stands, ReservesOnAnOldView, Ran, Completed
      <4> QED BY <4>2, <4>3
    <3>3. CASE q # p /\ at[q] = "run"
      <4>1. call[q].key \in Keys /\ RunsAlone(q)
        BY <3>3 DEF Once, Stands, Core, Busy, Calls
      <4>2. \A r \in Procs : at'[r] = "run" => at[r] = "run" /\ call'[r] = call[r]
        BY <1>2
      <4> QED BY <3>3, <4>1, <4>2, <1>1, <1>2, <2>4, <2>5 DEF Stands, RunsAlone, Ran
    <3>4. CASE q # p /\ at[q] = "complete"
      BY <3>4, <1>1, <1>2 DEF Once, Stands, Ran
    <3> QED BY <3>1, <3>2, <3>3, <3>4, <1>2 DEF Stands
  <2>9. UnknownIsNotRepeated'
    BY <1>1, <2>4 DEF Once, UnknownIsNotRepeated, Completed
  <2>10. \A q \in Procs, l \in Keys : Ran(q, l)' => file'.effects[l] # NoRow
    BY <1>1, <2>5 DEF Once, Ran
  <2> QED BY <2>8, <2>9, <2>10 DEF Once
<1> QED BY <1>3, <1>4 DEF CompleteSideEffect, Locked, Refused

LEMMA MarkUncertainOnce ==
  ASSUME Core, Once, NEW p \in Procs, NEW k \in Keys, MarkUncertain(p, k)
  PROVE  Once'
<1>1. at[p] = "idle" /\ UNCHANGED <<at, call, ran>> /\ StorageStep
  BY MarkUncertainKeeps DEF MarkUncertain, Steps
<1>2. \A q \in Procs \ {p} : tx'[q] = tx[q] /\ seen'[q] = seen[q]
  BY DEF MarkUncertain, Locked, Committed, Refused, Core, TypeOK
<1>3. \A l \in Keys : Completed(l)' => Completed(l)
  <2>1. CASE Started(k) /\ Committed(p, [file EXCEPT !.effects[k].status = "uncertain"])
    <3>1. file'.effects = [file.effects EXCEPT
                             ![k] = [status |-> "uncertain", action |-> file.effects[k].action]]
      BY <2>1, StorageStatus
    <3>2. file.effects \in [Keys -> Rows \union {NoRow}]
      BY DEF Core, TypeOK, Files
    <3> QED BY <3>1, <3>2 DEF Completed
  <2>2. CASE UNCHANGED file
    BY <2>2 DEF Completed
  <2> QED BY <2>1, <2>2 DEF MarkUncertain, Locked, Refused
<1> QED BY <1>1, <1>2, <1>3, OnceKept

\* The other calls leave the rows alone, and the process is at no key.
LEMMA OthersOnce ==
  ASSUME Core, Once, NEW p \in Procs, StorageStep, ran' = ran,
         file'.effects = file.effects, at'[p] \notin Busy,
         \A q \in Procs \ {p} : /\ tx'[q] = tx[q] /\ seen'[q] = seen[q]
                                /\ at'[q] = at[q] /\ call'[q] = call[q]
  PROVE  Once'
<1>1. \A k \in Keys : Completed(k)' => Completed(k)
  BY DEF Completed
<1> QED BY <1>1, OnceKept DEF Busy

LEMMA OnceInit == Init => Once
BY DEF Init, Once, UnknownIsNotRepeated, Ran, Stands

LEMMA OnceNext == Core /\ Once /\ [Next]_vars => Once'
<1> SUFFICES ASSUME Core, Once, [Next]_vars PROVE Once'
  OBVIOUS
<1>1. CASE UNCHANGED vars
  <2>1. UNCHANGED <<file, tx, seen, at, call, ran>>
    BY <1>1 DEF vars, connection
  <2> QED BY <2>1, StorageSame, OnceKept DEF connection, Completed
<1>2. ASSUME NEW p \in Procs, NEW k \in Keys, NEW a \in Actions, RunOnce(p, k, a)
      PROVE  Once'
  BY <1>2, RunOnceOnce
<1>3. ASSUME NEW p \in Procs, ReserveSideEffect(p) \/ Execute(p) \/ CompleteSideEffect(p)
      PROVE  Once'
  BY <1>3, ReserveSideEffectOnce, ExecuteOnce, CompleteSideEffectOnce
<1>4. ASSUME NEW p \in Procs, NEW k \in Keys, MarkUncertain(p, k)
      PROVE  Once'
  BY <1>4, MarkUncertainOnce
<1>5. ASSUME NEW p \in Procs, NEW r \in Retries, RecordRetry(p, r)
      PROVE  Once'
  <2>1. StorageStep /\ ran' = ran /\ at' = at /\ call' = call /\ at[p] = "idle"
    BY <1>5, RecordRetryKeeps DEF RecordRetry, Steps
  <2>2. file'.effects = file.effects
    BY <1>5 DEF RecordRetry, Locked, Refused, Committed, Core, TypeOK, Files
  <2>3. \A q \in Procs \ {p} : tx'[q] = tx[q] /\ seen'[q] = seen[q]
    BY <1>5 DEF RecordRetry, Locked, Refused, Committed, Core, TypeOK
  <2> QED BY <2>1, <2>2, <2>3, OthersOnce DEF Busy
<1>6. ASSUME NEW p \in Procs, NEW b \in Batches, BuildBatch(p, b)
      PROVE  Once'
  <2>1. StorageStep /\ ran' = ran /\ call' = call /\ file' = file
    BY <1>6, BuildBatchKeeps DEF BuildBatch, Steps
  <2>2. \A q \in Procs \ {p} : tx'[q] = tx[q] /\ seen'[q] = seen[q] /\ at'[q] = at[q]
    BY <1>6 DEF BuildBatch, Select, connection, Core, TypeOK
  <2>3. at'[p] = "append"
    BY <1>6 DEF BuildBatch, Core, TypeOK
  <2> QED BY <2>1, <2>2, <2>3, OthersOnce DEF Busy
<1>7. ASSUME NEW p \in Procs, NEW b \in Batches, TakeCheckpoint(p, b)
      PROVE  Once'
  <2>1. StorageStep /\ ran' = ran /\ at' = at /\ call' = call /\ at[p] = "idle"
    BY <1>7, TakeCheckpointKeeps DEF TakeCheckpoint, Steps
  <2>2. file'.effects = file.effects
    BY <1>7 DEF TakeCheckpoint, RolledBack, Committed, Core, TypeOK, Files
  <2>3. \A q \in Procs \ {p} : tx'[q] = tx[q] /\ seen'[q] = seen[q]
    BY <1>7 DEF TakeCheckpoint, RolledBack, Committed, Select, connection, Core, TypeOK
  <2> QED BY <2>1, <2>2, <2>3, OthersOnce DEF Busy
<1>8. ASSUME NEW p \in Procs, SendAgain(p)
      PROVE  Once'
  <2>1. StorageStep /\ ran' = ran /\ call' = call /\ UNCHANGED <<file, tx, seen>>
    BY <1>8, SendAgainKeeps DEF SendAgain, Steps, connection
  <2>2. at'[p] = "append" /\ \A q \in Procs \ {p} : at'[q] = at[q]
    BY <1>8 DEF SendAgain, Core, TypeOK
  <2> QED BY <2>1, <2>2, OthersOnce DEF Busy
<1>9. ASSUME NEW p \in Procs, ValidateBatch(p)
      PROVE  Once'
  <2>1. StorageStep /\ ran' = ran /\ file' = file
    BY <1>9, ValidateBatchKeeps DEF ValidateBatch, Steps
  <2>2. /\ at'[p] \in {"idle", "insert"}
        /\ \A q \in Procs \ {p} : at'[q] = at[q] /\ call'[q] = call[q]
    BY <1>9 DEF ValidateBatch, Returns, Core, TypeOK
  <2>3. \A q \in Procs \ {p} : tx'[q] = tx[q] /\ seen'[q] = seen[q]
    BY <1>9 DEF ValidateBatch, Select, connection, Core, TypeOK
  <2> QED BY <2>1, <2>2, <2>3, OthersOnce DEF Busy
<1>10. ASSUME NEW p \in Procs, InsertBatch(p)
       PROVE  Once'
  <2>1. StorageStep /\ ran' = ran
    BY <1>10, InsertBatchKeeps DEF InsertBatch, Steps
  <2>2. at'[p] = "idle" /\ \A q \in Procs \ {p} : at'[q] = at[q] /\ call'[q] = call[q]
    BY <1>10 DEF InsertBatch, Returns, Core, TypeOK
  <2>3. file'.effects = file.effects
    BY <1>10 DEF InsertBatch, RolledBack, Committed, Core, TypeOK, Files
  <2>4. \A q \in Procs \ {p} : tx'[q] = tx[q] /\ seen'[q] = seen[q]
    BY <1>10 DEF InsertBatch, RolledBack, Committed, Core, TypeOK
  <2> QED BY <2>1, <2>2, <2>3, <2>4, OthersOnce DEF Busy
<1>11. ASSUME NEW p \in Procs, Look(p)
       PROVE  Once'
  <2>1. StorageStep /\ ran' = ran /\ at' = at /\ call' = call /\ at[p] = "idle" /\ file' = file
    BY <1>11, LookKeeps DEF Look, Steps
  <2>2. \A q \in Procs \ {p} : tx'[q] = tx[q] /\ seen'[q] = seen[q]
    BY <1>11 DEF Look, Select, connection, Core, TypeOK
  <2> QED BY <2>1, <2>2, OthersOnce DEF Busy
<1>12. ASSUME NEW p \in Procs, Restart(p)
       PROVE  Once'
  <2>1. StorageStep /\ ran' = ran /\ file' = file
    BY <1>12, RestartKeeps DEF Restart, RolledBack, Committed, Steps
  <2>2. at'[p] = "idle" /\ \A q \in Procs \ {p} : at'[q] = at[q] /\ call'[q] = call[q]
    BY <1>12 DEF Restart, Returns, Core, TypeOK
  <2>3. \A q \in Procs \ {p} : tx'[q] = tx[q] /\ seen'[q] = seen[q]
    BY <1>12 DEF Restart, RolledBack, Committed, Core, TypeOK
  <2> QED BY <2>1, <2>2, <2>3, OthersOnce DEF Busy
<1> QED BY <1>1, <1>2, <1>3, <1>4, <1>5, <1>6, <1>7, <1>8, <1>9, <1>10, <1>11, <1>12 DEF Next

-----------------------------------------------------------------------------
(* The theorems.                                                           *)

\* Core holds in every reachable state, whatever the processes do.
THEOREM Invariance == Spec => []Core
<1> QED BY CoreInit, CoreNext, PTL DEF Spec

\* The file, the connections and the calls of SQLiteLedgerStore and
\* RecoveryManager stay in their types.
THEOREM TypeCorrectness == Spec => []TypeOK
<1>1. Core => TypeOK
  BY DEF Core
<1> QED BY <1>1, Invariance, PTL

\* What append_batch, checkpoint, record_retry and run_once answered is in
\* the file from then on, although refused statements leave transactions open
\* and processes die between any two statements.
THEOREM AnswersStayDurable == Spec => []AnswersAreDurable
<1>1. Core => AnswersAreDurable
  BY DEF Core
<1> QED BY <1>1, Invariance, PTL

\* However many processes build batches on one head of SQLiteLedgerStore, the
\* committed events are one chain.
THEOREM ChainStaysOne == Spec => []OneChain
<1>1. Core => OneChain
  BY DEF Core, Sound, IsChain, OneChain
<1> QED BY <1>1, Invariance, PTL

\* run_once never executes an effect again whose outcome is not on record as
\* completed, whoever calls it, over crashes and repeated calls; and no process
\* executes one twice.
THEOREM UnknownIsNeverRepeated == Spec => []UnknownIsNotRepeated
<1>1. Once => UnknownIsNotRepeated
  BY DEF Once
<1>2. (Core /\ Once) /\ [Next]_vars => (Core /\ Once)'
  BY CoreNext, OnceNext
<1>3. Init => Core /\ Once
  BY CoreInit, OnceInit
<1> QED BY <1>1, <1>2, <1>3, PTL DEF Spec
=============================================================================
