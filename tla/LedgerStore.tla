----------------------------- MODULE LedgerStore -----------------------------
(***************************************************************************)
(* The durable ledger and the recovery tables beside it:                   *)
(* contracts/provenance/ledger.py (SQLiteLedgerStore) and                  *)
(* contracts/execution/recovery.py (RecoveryManager).                      *)
(*                                                                         *)
(* Several processes open one SQLite file; each is one thread and its      *)
(* statements interleave with those of the others.  A process may die      *)
(* between any two statements and be started again.  A statement and the   *)
(* commit that follows it are one step: in between nobody else can write,  *)
(* and a death there leaves the file as it was.                            *)
(*                                                                         *)
(* Python's sqlite3 opens a transaction before an INSERT or UPDATE.  A     *)
(* write refused by a constraint, or that changes no row, leaves that      *)
(* transaction and its write lock behind; one refused because the file is  *)
(* locked leaves it open without a lock, and the next SELECT then pins     *)
(* what the process sees until it commits or rolls back.                   *)
(***************************************************************************)
EXTENDS Naturals, Sequences, FiniteSets

CONSTANTS Procs,      \* processes with a connection to the file
          Keys,       \* idempotency keys of side effects
          Actions,    \* the (task_id, action_id) pairs that use the keys
          Batches,    \* batches of events, each one transaction
          Size,       \* how many events a batch has
          Retries     \* retry ids

ASSUME StoreAssumption == Size \in [Batches -> Nat \ {0}]

VARIABLES file,   \* the committed rows of the five tables
          tx,     \* each connection's implicit transaction
          seen,   \* the rows a transaction that is reading sees
          at,     \* where each process is in its call
          call,   \* the key and action of its run_once
          job,    \* the batch it built, and the chain it built it on
          ran,    \* how often each process executed each key's effect, over its restarts
          said    \* what the calls answered their callers

vars == <<file, tx, seen, at, call, job, ran, said>>
connection == <<tx, seen>>

NoEvent == <<"none", 0>>
NoJob == [batch |-> "none", base |-> 0, prev |-> NoEvent]
NoRow == [status |-> "none", action |-> "none"]
NoCall == [key |-> "none", action |-> "none"]

\* The events of a batch, and the rows they become when appended after prev.
Id(b, n) == <<b, n>>
RowsOf(j) == [n \in 1..Size[j.batch] |->
                [id |-> Id(j.batch, n), prev |-> IF n = 1 THEN j.prev ELSE Id(j.batch, n - 1)]]
HeadOf(f) == IF f.events = <<>> THEN NoEvent ELSE f.events[Len(f.events)].id
HasTransaction(f, b) == \E i \in 1..Len(f.events) : f.events[i].id[1] = b
LastOf(f, b) == CHOOSE i \in 1..Len(f.events) : f.events[i].id = Id(b, Size[b])

Empty == [events |-> <<>>, points |-> {}, retries |-> {}, effects |-> [k \in Keys |-> NoRow]]

Init ==
  /\ file = Empty
  /\ tx = [p \in Procs |-> "none"]
  /\ seen = [p \in Procs |-> Empty]
  /\ at = [p \in Procs |-> "idle"]
  /\ call = [p \in Procs |-> NoCall]
  /\ job = [p \in Procs |-> NoJob]
  /\ ran = [pk \in Procs \X Keys |-> 0]
  /\ said = {}
-----------------------------------------------------------------------------
(* What a connection sees and what becomes of its statements.              *)

View(p) == IF tx[p] = "reading" THEN seen[p] ELSE file

\* A SELECT inside a transaction that has no snapshot yet takes one.
Select(p) ==
  IF tx[p] = "begun"
  THEN /\ tx' = [tx EXCEPT ![p] = "reading"]
       /\ seen' = [seen EXCEPT ![p] = file]
  ELSE UNCHANGED connection

\* A write needs the file's one write lock and an up-to-date snapshot.
CanWrite(p) ==
  /\ \A q \in Procs \ {p} : tx[q] # "writing"
  /\ tx[p] = "reading" => seen[p] = file

Committed(p, f) ==
  /\ file' = f
  /\ tx' = [tx EXCEPT ![p] = "none"]
  /\ seen' = [seen EXCEPT ![p] = Empty]

RolledBack(p) == Committed(p, file)

\* The constraint refused the row, or no row matched: the transaction stays
\* open with the lock.
Refused(p) ==
  /\ tx' = [tx EXCEPT ![p] = "writing"]
  /\ seen' = [seen EXCEPT ![p] = Empty]
  /\ UNCHANGED file

\* The file is locked: the transaction stays open without the lock.
Locked(p) ==
  /\ ~CanWrite(p)
  /\ tx' = [tx EXCEPT ![p] = IF @ = "none" THEN "begun" ELSE @]
  /\ UNCHANGED <<file, seen>>

Returns(p) ==
  /\ at' = [at EXCEPT ![p] = "idle"]
  /\ call' = [call EXCEPT ![p] = NoCall]
-----------------------------------------------------------------------------
(* RecoveryManager.run_once: look, reserve, execute, complete.             *)

HasResultIfAnyRow(row) == row # NoRow      \* a mutant
HasResult(row) == row.status = "completed"

RunOnce(p, k, a) ==
  /\ at[p] = "idle"
  /\ Select(p)
  /\ IF HasResult(View(p).effects[k])
     THEN /\ said' = said \union {<<"effect", k>>}
          /\ UNCHANGED <<at, call>>
     ELSE /\ at' = [at EXCEPT ![p] = "reserve"]
          /\ call' = [call EXCEPT ![p] = [key |-> k, action |-> a]]
          /\ UNCHANGED said
  /\ UNCHANGED <<file, job, ran>>

\* A reservation that turns out to be there is accepted when it is completed: the
\* call then goes on to the effect as if the reservation were its own.
AcceptsAnyOwn(row, a) == row.action = a    \* a mutant
Accepts(row, a) == row.action = a /\ row.status = "completed"

Runs(p) ==
  /\ at' = [at EXCEPT ![p] = "run"]
  /\ UNCHANGED call

ReserveSideEffect(p) ==
  LET k == call[p].key
      row == file.effects[k]
  IN
  /\ at[p] = "reserve"
  /\ \/ /\ Locked(p)
        /\ Returns(p)
     \/ /\ CanWrite(p) /\ row = NoRow
        /\ Committed(p, [file EXCEPT !.effects[k] =
                           [status |-> "started", action |-> call[p].action]])
        /\ Runs(p)
     \/ /\ CanWrite(p) /\ row # NoRow
        /\ Refused(p)
        /\ IF Accepts(row, call[p].action) THEN Runs(p) ELSE Returns(p)
  /\ UNCHANGED <<job, ran, said>>

\* The effect happens; its callback may then return or raise.
Execute(p) ==
  /\ at[p] = "run"
  /\ ran' = [ran EXCEPT ![<<p, call[p].key>>] = @ + 1]
  /\ \/ at' = [at EXCEPT ![p] = "complete"] /\ UNCHANGED call
     \/ Returns(p)
  /\ UNCHANGED <<file, connection, job, said>>

Started(k) == file.effects[k].status = "started"

CompleteSideEffect(p) ==
  LET k == call[p].key IN
  /\ at[p] = "complete"
  /\ Returns(p)
  /\ \/ /\ Locked(p)
        /\ UNCHANGED said
     \/ /\ CanWrite(p) /\ Started(k)
        /\ Committed(p, [file EXCEPT !.effects[k].status = "completed"])
        /\ said' = said \union {<<"effect", k>>}
     \/ /\ CanWrite(p) /\ ~Started(k)
        /\ Refused(p)
        /\ UNCHANGED said
  /\ UNCHANGED <<job, ran>>

MarkUncertain(p, k) ==
  /\ at[p] = "idle"
  /\ \/ Locked(p)
     \/ /\ CanWrite(p) /\ Started(k)
        /\ Committed(p, [file EXCEPT !.effects[k].status = "uncertain"])
     \/ /\ CanWrite(p) /\ ~Started(k)
        /\ Refused(p)
  /\ UNCHANGED <<at, call, job, ran, said>>

RecordRetry(p, r) ==
  /\ at[p] = "idle"
  /\ \/ Locked(p) /\ UNCHANGED said
     \/ /\ CanWrite(p) /\ r \notin file.retries
        /\ Committed(p, [file EXCEPT !.retries = @ \union {r}])
        /\ said' = said \union {<<"retry", r>>}
     \/ /\ CanWrite(p) /\ r \in file.retries
        /\ Refused(p)
        /\ UNCHANGED said
  /\ UNCHANGED <<at, call, job, ran>>
-----------------------------------------------------------------------------
(* SQLiteLedgerStore.append_batch: the caller builds the events on the     *)
(* chain it reads; the store reads again, validates, and then writes.      *)

BuildBatch(p, b) ==
  /\ at[p] = "idle"
  /\ Select(p)
  /\ job' = [job EXCEPT ![p] = [batch |-> b, base |-> Len(View(p).events), prev |-> HeadOf(View(p))]]
  /\ at' = [at EXCEPT ![p] = "append"]
  /\ UNCHANGED <<file, call, ran, said>>

\* The caller sends the events it built before once more.
SendAgain(p) ==
  /\ at[p] = "idle" /\ job[p] # NoJob
  /\ at' = [at EXCEPT ![p] = "append"]
  /\ UNCHANGED <<file, connection, call, job, ran, said>>

\* The rows with the idempotency keys of the batch are these very events.
SameEvents(f, j) ==
  \E i \in 1..Len(f.events) : f.events[i] = RowsOf(j)[1] /\ i = j.base + 1

\* The number of transactions that have the events is compared with the number of
\* events: of the batches that are sent again only one of a single event is
\* answered as committed, any other is an IdempotencyConflict.
AnswersAgain(f, j) == SameEvents(f, j) /\ Size[j.batch] = 1

ValidateBatch(p) ==
  LET f == View(p) IN
  /\ at[p] = "append"
  /\ Select(p)
  /\ \/ /\ HasTransaction(f, job[p].batch)
        /\ Returns(p)
        /\ said' = IF AnswersAgain(f, job[p]) THEN said \union {<<"batch", job[p].batch>>} ELSE said
     \/ /\ ~HasTransaction(f, job[p].batch)
        /\ IF job[p].base = Len(f.events) /\ job[p].prev = HeadOf(f)
           THEN at' = [at EXCEPT ![p] = "insert"] /\ UNCHANGED call
           ELSE Returns(p)
        /\ UNCHANGED said
  /\ UNCHANGED <<file, job, ran>>

\* BEGIN IMMEDIATE succeeds outside a transaction and while nobody writes.
CanBegin(p) == tx[p] = "none" /\ CanWrite(p)
\* PRIMARY KEY(sequence) and UNIQUE(idempotency_key).
KeysAreFree(p) == ~HasTransaction(file, job[p].batch)      \* a mutant
RowsAreFree(p) == Len(file.events) = job[p].base /\ ~HasTransaction(file, job[p].batch)

InsertBatch(p) ==
  /\ at[p] = "insert"
  /\ Returns(p)
  /\ IF CanBegin(p) /\ RowsAreFree(p)
     THEN /\ Committed(p, [file EXCEPT !.events = @ \o RowsOf(job[p])])
          /\ said' = said \union {<<"batch", job[p].batch>>}
     ELSE /\ RolledBack(p)
          /\ UNCHANGED said
  /\ UNCHANGED <<job, ran>>

\* A checkpoint of a committed transaction; one id for each transaction.
TakeCheckpoint(p, b) ==
  LET f == View(p)
      point == [batch |-> b, seq |-> LastOf(f, b), head |-> f.events[LastOf(f, b)].id]
  IN
  /\ at[p] = "idle"
  /\ \/ /\ ~HasTransaction(f, b)
        /\ Select(p)
        /\ UNCHANGED <<file, said>>
     \/ /\ HasTransaction(f, b)
        /\ CanWrite(p) /\ \A c \in file.points : c.batch # b
        /\ Committed(p, [file EXCEPT !.points = @ \union {point}])
        /\ said' = said \union {<<"point", b>>}
     \/ /\ HasTransaction(f, b)
        /\ ~CanWrite(p) \/ \E c \in file.points : c.batch = b
        /\ RolledBack(p)
        /\ UNCHANGED said
  /\ UNCHANGED <<at, call, job, ran>>

\* events, replay, retries, latest_checkpoint, recover, projection.
Look(p) ==
  /\ at[p] = "idle" /\ tx[p] = "begun"
  /\ Select(p)
  /\ UNCHANGED <<file, at, call, job, ran, said>>

\* The process dies and is started again; SQLite drops its transaction.
Restart(p) ==
  /\ at[p] # "idle" \/ tx[p] # "none"
  /\ RolledBack(p)
  /\ Returns(p)
  /\ job' = [job EXCEPT ![p] = NoJob]
  /\ UNCHANGED <<ran, said>>

Next ==
  \E p \in Procs :
    \/ \E k \in Keys, a \in Actions : RunOnce(p, k, a)
    \/ ReserveSideEffect(p) \/ Execute(p) \/ CompleteSideEffect(p)
    \/ \E k \in Keys : MarkUncertain(p, k)
    \/ \E r \in Retries : RecordRetry(p, r)
    \/ \E b \in Batches : BuildBatch(p, b) \/ TakeCheckpoint(p, b)
    \/ SendAgain(p) \/ ValidateBatch(p) \/ InsertBatch(p)
    \/ Look(p) \/ Restart(p)

Spec == Init /\ [][Next]_vars
-----------------------------------------------------------------------------
(* Properties.                                                             *)

Ids == Batches \X (Nat \ {0})
Events == [id : Ids, prev : Ids \union {NoEvent}]
Points == [batch : Batches, seq : Nat, head : Ids]
Rows == [status : {"started", "completed", "uncertain"}, action : Actions]
Files == [events : Seq(Events), points : SUBSET Points, retries : SUBSET Retries,
          effects : [Keys -> Rows \union {NoRow}]]
Calls == [key : Keys, action : Actions]
Jobs == [batch : Batches, base : Nat, prev : Ids \union {NoEvent}]
Answers == ({"effect"} \X Keys) \union ({"retry"} \X Retries) \union ({"batch", "point"} \X Batches)

\* The file, the connections and the calls in progress have the forms the
\* statements give them.
TypeOK ==
  /\ file \in Files
  /\ tx \in [Procs -> {"none", "begun", "reading", "writing"}]
  /\ seen \in [Procs -> Files]
  /\ at \in [Procs -> {"idle", "reserve", "run", "complete", "append", "insert"}]
  /\ call \in [Procs -> Calls \union {NoCall}]
  /\ job \in [Procs -> Jobs \union {NoJob}]
  /\ ran \in [Procs \X Keys -> Nat]
  /\ said \subseteq Answers

\* run_once: no process executes a key's effect twice, over its restarts; and a
\* second process executes it only when its first execution is on record as
\* completed. An effect of unknown outcome, whose process died or failed before
\* the record, is never repeated by anybody.
UnknownIsNotRepeated ==
  /\ \A p \in Procs, k \in Keys : ran[<<p, k>>] <= 1
  /\ \A p, q \in Procs, k \in Keys :
       p # q /\ ran[<<p, k>>] > 0 /\ ran[<<q, k>>] > 0 => file.effects[k].status = "completed"

\* What a call has answered its caller is in the file: an effect's recorded
\* completion, a batch with all its events, a checkpoint, a retry record. A
\* transaction that some refused statement left open holds nothing of it.
AnswersAreDurable ==
  /\ \A k \in Keys : <<"effect", k>> \in said => file.effects[k].status = "completed"
  /\ \A b \in Batches : <<"batch", b>> \in said =>
       \A n \in 1..Size[b] : \E i \in 1..Len(file.events) : file.events[i].id = Id(b, n)
  /\ \A b \in Batches : <<"point", b>> \in said => \E c \in file.points : c.batch = b
  /\ \A r \in Retries : <<"retry", r>> \in said => r \in file.retries

\* The committed events are one chain, each built on the one before it and
\* committed once, although two processes may build on the same head.
OneChain ==
  \A i \in 1..Len(file.events) :
    /\ file.events[i].prev = IF i = 1 THEN NoEvent ELSE file.events[i - 1].id
    /\ \A j \in 1..Len(file.events) : file.events[i].id = file.events[j].id => i = j
=============================================================================
