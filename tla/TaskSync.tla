------------------------------ MODULE TaskSync ------------------------------
(***************************************************************************)
(* The desktop's view of a task: the event synchronizer, its polling loop   *)
(* and the handlers of App.tsx (apps/desktop) over the event batches and    *)
(* snapshots of the Node's API (src/airbench/node/api.py).                 *)
(*                                                                         *)
(* The desktop is one thread whose handlers interleave at every await.      *)
(* Each task the operator starts has a synchronizer of its own.  What they  *)
(* share is synchronizationRef: a synchronization that is in progress is    *)
(* joined, whoever asks and for whichever synchronizer.                    *)
(***************************************************************************)
EXTENDS ViewPromises, FiniteSets

CONSTANTS Script,           \* bound: the kinds of the events each task will have
          Slots,            \* bound: synchronizations in progress at once
          MAX_EVENT_BATCH,  \* events in a batch
          MaxPasses,        \* batches of one attempt, then a snapshot
          MaxAttempts       \* attempts of one synchronization

ASSUME SyncAssumption ==
  /\ SyncTasks \subseteq Nat \ {0} /\ Slots \subseteq Nat \ {0}
  /\ Script \in [SyncTasks -> Seq(STRING)]
  /\ MAX_EVENT_BATCH \in Nat \ {0} /\ MaxPasses \in Nat \ {0} /\ MaxAttempts \in Nat \ {0}

VARIABLES
  op,         \* the synchronizations in progress
  ref,        \* synchronizationRef: its slot, or 0
  cur,        \* synchronizerRef, by its task
  loop,       \* the synchronizer the running TaskEventLoop polls
  connected,  \* nodeConnected
  starting    \* startTask: its task, and the step it has reached

shown == <<projection, connected>>
vars == <<streams, store, op, ref, cur, loop, shown, starting>>

NoTask == 0
NoStore == [seen |-> <<>>, health |-> "none"]
NoView == [task |-> NoTask, seen |-> <<>>, health |-> "none", sync |-> "idle"]
NoOp == [task |-> NoTask, at |-> "free", waits |-> {}]
NoStart == [task |-> NoTask, step |-> "none"]

Init ==
  /\ streams = [t \in SyncTasks |-> <<>>]
  /\ store = [t \in SyncTasks |-> NoStore]
  /\ op = [i \in Slots |-> NoOp] /\ ref = 0
  /\ cur = NoTask /\ loop = NoTask
  /\ projection = NoView /\ connected = TRUE
  /\ starting = NoStart

Has(events, kind) == \E i \in 1..Len(events) : events[i].kind = kind
From(s, n) == SubSeq(s, n + 1, Len(s))
ProjectionFromSnapshot(events) == [seen |-> events, health |-> "current"]

Event(n, kind) == [n |-> n, kind |-> kind]

\* The Node's other clients and parts write the stream; a task that has ended
\* is still looked at, and that is an event too.
Write(t) ==
  LET n == Len(streams[t]) + 1 IN
  /\ n <= Len(Script[t])
  /\ streams' = [streams EXCEPT ![t] = Append(@, Event(n, Script[t][n]))]
  /\ UNCHANGED <<store, op, ref, cur, loop, shown, starting>>
-----------------------------------------------------------------------------
(* Who synchronizes.                                                       *)

NewOp(t, who) ==
  [task |-> t, at |-> "ask", from |-> Len(store[t].seen), pass |-> 1, attempt |-> 1,
   reply |-> <<>>, more |-> FALSE, waits |-> {who}]

Joins(t) == ref # 0

\* synchronize(synchronizer), beside what the caller has changed in op
Synchronize(t, new, who, ops) ==
  IF Joins(t)
  THEN op' = [ops EXCEPT ![ref].waits = @ \cup {who}] /\ UNCHANGED ref
  ELSE \E i \in Slots :
         /\ ops[i] = NoOp /\ \A j \in Slots : j < i => ops[j] # NoOp
         /\ op' = [ops EXCEPT ![i] = new]
         /\ ref' = i

Waits(who) == \E i \in Slots : who \in op[i].waits
\* A stopped loop does not take the result it is waiting for.
WithoutLoop(ops) == [i \in Slots |-> [ops[i] EXCEPT !.waits = @ \ {"loop"}]]

Tick ==
  /\ loop # NoTask /\ ~Waits("loop")
  /\ Synchronize(loop, NewOp(loop, "loop"), "loop", op)
  /\ UNCHANGED <<streams, store, cur, loop, shown, starting>>

\* refreshTask, after a stop and whenever the operator asks: nothing keeps one
\* from asking again.
RefreshTask ==
  /\ cur # NoTask
  /\ Synchronize(cur, NewOp(cur, "refresh"), "refresh", op)
  /\ UNCHANGED <<streams, store, cur, loop, shown, starting>>

\* startTask stops the loop and forgets the synchronization in progress; then
\* it creates and authorizes a task, which may fail (NodeCommands).
StartTask(t) ==
  /\ connected /\ starting = NoStart /\ store[t] = NoStore
  /\ \A u \in SyncTasks : u < t => store[u] # NoStore
  /\ starting' = [task |-> t, step |-> "asking"]
  /\ loop' = NoTask /\ ref' = 0
  /\ op' = WithoutLoop(op)
  /\ UNCHANGED <<streams, store, cur, shown>>

StartFails ==
  /\ starting.step = "asking"
  /\ starting' = NoStart
  /\ UNCHANGED <<streams, store, op, ref, cur, loop, shown>>

\* The effect on [nodeConnected, taskProjection.taskId] replaces the loop.
LoopFor(isConnected, c) == IF isConnected THEN c ELSE NoTask

\* syncTask, with the snapshot that startTask read some events ago
SyncTask ==
  LET t == starting.task
      changed == projection.task # t
  IN
  /\ starting.step = "asking"
  /\ \E n \in 1..Len(streams[t]) :
       LET p == ProjectionFromSnapshot(Upto(streams[t], n)) IN
       /\ store' = [store EXCEPT ![t] = p]
       /\ projection' = [task |-> t, seen |-> p.seen, health |-> p.health, sync |-> "idle"]
       /\ Synchronize(t, [NewOp(t, "start") EXCEPT !.from = n], "start",
                      IF changed THEN WithoutLoop(op) ELSE op)
  /\ cur' = t
  /\ loop' = IF changed THEN LoopFor(connected, t) ELSE loop
  /\ starting' = [starting EXCEPT !.step = "syncing"]
  /\ UNCHANGED <<streams, connected>>

\* NodeConnectionController.reconnect succeeds, and the effect runs.
Reconnect ==
  /\ ~connected
  /\ connected' = TRUE
  /\ loop' = IF projection.task = NoTask THEN NoTask ELSE cur
  /\ op' = WithoutLoop(op)
  /\ UNCHANGED <<streams, store, ref, cur, projection, starting>>
-----------------------------------------------------------------------------
(* TaskEventSynchronizer.                                                  *)

\* event_batch, and snapshot
BatchAfter(s, n) == Upto(From(s, n), MAX_EVENT_BATCH)

Answer(i) ==
  LET o == op[i]
      s == streams[o.task]
      batch == BatchAfter(s, o.from)
  IN
  /\ \/ /\ o.at = "ask"
        /\ op' = [op EXCEPT ![i].at = "got", ![i].reply = batch,
                            ![i].more = o.from + Len(batch) < Len(s)]
     \/ /\ o.at = "ask snapshot"
        /\ op' = [op EXCEPT ![i].at = "got snapshot", ![i].reply = s]
  /\ UNCHANGED <<streams, store, ref, cur, loop, shown, starting>>

\* applyEvent over a batch: what the projection has is skipped, and an event
\* of a type the desktop does not know stops it.
Unknown == "worker.context.compacted"
AllEvents(p, batch) == batch                                    \* a mutant
NewEvents(p, batch) ==
  LET new == {j \in 1..Len(batch) : batch[j].n > Len(p.seen)}
  IN IF new = {} THEN <<>> ELSE From(batch, (CHOOSE j \in new : \A k \in new : j <= k) - 1)
HasGap(p, batch) ==
  LET new == NewEvents(p, batch) IN new # <<>> /\ new[1].n > Len(p.seen) + 1
Meets(p, batch) == ~HasGap(p, batch) /\ Has(NewEvents(p, batch), Unknown)
Applied(p, batch) ==
  LET new == NewEvents(p, batch)
      known == {k \in 0..Len(new) : \A i \in 1..k : new[i].kind # Unknown}
      n == CHOOSE k \in known : \A g \in known : g <= k
  IN [seen |-> p.seen \o Upto(new, n), health |->
        IF n < Len(new) THEN "blocked" ELSE IF n > 0 THEN "current" ELSE p.health]

KeepsRef(i) == ref                                              \* a mutant
RefAfter(i) == IF ref = i THEN 0 ELSE ref

\* The promise settles: every caller that still waits for it shows the result.
Finish(i, kind, p) ==
  LET o == op[i]
      isShown == o.waits # {}
      stays == connected /\ (isShown => kind # "reconnecting")
      effect == isShown /\ (stays # connected \/ projection.task # o.task)
      stops == "loop" \in o.waits /\ (kind = "blocked" \/ Has(p.seen, "end"))
      rest == [op EXCEPT ![i] = NoOp]
  IN
  /\ store' = [store EXCEPT ![o.task] = p]
  /\ ref' = RefAfter(i)
  /\ projection' = IF isShown THEN [task |-> o.task, seen |-> p.seen, health |-> p.health, sync |-> kind]
             ELSE projection
  /\ connected' = stays
  /\ loop' = IF effect THEN LoopFor(stays, cur) ELSE IF stops THEN NoTask ELSE loop
  /\ op' = IF effect THEN WithoutLoop(rest) ELSE rest
  /\ starting' = IF "start" \in o.waits THEN NoStart ELSE starting

\* The next batch; when the passes are used up, a snapshot.
Continue(i, p) ==
  LET o == op[i] IN
  /\ store' = [store EXCEPT ![o.task] = p]
  /\ op' = [op EXCEPT ![i] = [o EXCEPT !.reply = <<>>, !.from = Len(p.seen),
              !.at = IF o.pass < MaxPasses THEN "ask" ELSE "ask snapshot",
              !.pass = @ + 1]]
  /\ UNCHANGED <<ref, loop, shown, starting>>

GotBatch(i) ==
  LET o == op[i]
      had == store[o.task]
      gap == HasGap(had, o.reply)
      p == Applied(had, o.reply)
  IN
  /\ o.at = "got"
  /\ IF Meets(had, o.reply) THEN Finish(i, "blocked", p)
     ELSE IF gap \/ o.more THEN Continue(i, IF gap THEN [had EXCEPT !.health = "resynchronizing"] ELSE p)
     ELSE Finish(i, "current", p)
  /\ UNCHANGED <<streams, cur>>

Blocked(t) == [store[t] EXCEPT !.health = "blocked"]

\* A snapshot that rewinds what was seen when it was asked for is refused.
Rewinds(i) == Len(op[i].reply) < op[i].from

GotSnapshot(i) ==
  /\ op[i].at = "got snapshot"
  /\ IF Rewinds(i) THEN Finish(i, "blocked", Blocked(op[i].task))
     ELSE Finish(i, "current", ProjectionFromSnapshot(op[i].reply))
  /\ UNCHANGED <<streams, cur>>

\* The request or its answer is lost: synchronizeWithRetry tries again.
FetchFails(i) ==
  LET o == op[i] IN
  /\ o.at # "free"
  /\ IF o.at \in {"ask snapshot", "got snapshot"} THEN Finish(i, "blocked", Blocked(o.task))
     ELSE IF o.attempt = MaxAttempts THEN Finish(i, "reconnecting", store[o.task])
     ELSE /\ op' = [op EXCEPT ![i] = [NewOp(o.task, "none") EXCEPT
                                        !.attempt = o.attempt + 1, !.waits = o.waits]]
          /\ UNCHANGED <<store, ref, loop, shown, starting>>
  /\ UNCHANGED <<streams, cur>>

Next ==
  \/ \E t \in SyncTasks : Write(t) \/ StartTask(t)
  \/ StartFails \/ SyncTask \/ Tick \/ RefreshTask \/ Reconnect
  \/ \E i \in Slots : Answer(i) \/ GotBatch(i) \/ GotSnapshot(i) \/ FetchFails(i)

Spec == Init /\ [][Next]_vars

\* JavaScript runs the timers that are due and the promises that are settled,
\* and the transport answers or reports that it cannot.
Fairness ==
  /\ WF_vars(Tick)
  /\ \A i \in Slots : WF_vars(Answer(i) \/ GotBatch(i) \/ GotSnapshot(i) \/ FetchFails(i))
FairSpec == Spec /\ Fairness
-----------------------------------------------------------------------------
(* Properties, beside ViewsArePrefixes of ViewPromises.                    *)

\* While the loop polls a task, all the events the task ever has come to be
\* shown, or the loop stops: the Node cannot be reached, the task has ended,
\* its view is blocked, or another task is shown.
LoopCatchesUp ==
  \A t \in SyncTasks :
    (loop = t /\ Len(streams[t]) = Len(Script[t]))
      ~> (loop # t \/ (projection.task = t /\ Len(projection.seen) = Len(Script[t])))
=============================================================================
