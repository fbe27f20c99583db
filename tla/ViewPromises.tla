---------------------------- MODULE ViewPromises ----------------------------
(***************************************************************************)
(* What the desktop shows of a task, and what is promised of it.  TaskSync *)
(* is how it comes to be shown.                                            *)
(***************************************************************************)
EXTENDS Naturals, Sequences

CONSTANT SyncTasks  \* bound: the tasks, numbered as the operator starts them

VARIABLES
  streams,    \* the Node: the events of each task
  store,      \* the projection of each task's synchronizer
  projection  \* taskProjection and eventSyncState; its task is 0 when none is shown

Upto(s, n) == SubSeq(s, 1, IF n < Len(s) THEN n ELSE Len(s))
-----------------------------------------------------------------------------
IsPrefix(seen, t) == seen = Upto(streams[t], Len(seen))

\* What the desktop shows of a task, and what each synchronizer holds, is a
\* beginning of the task's stream, no event missing, repeated or out of order,
\* however the synchronizations overlap.
ViewsArePrefixes ==
  /\ \A t \in SyncTasks : IsPrefix(store[t].seen, t)
  /\ projection.task # 0 => IsPrefix(projection.seen, projection.task)
=============================================================================
