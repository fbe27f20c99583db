---------------------------- MODULE TeamPromises ----------------------------
(***************************************************************************)
(* What the execution of a team leaves for others to see, and what is      *)
(* promised of it: docs/evidence/backend/m4_3 and m4_4 state it of the     *)
(* worker threads, the join barriers and the leases.  TeamRuntime is the   *)
(* execution.                                                              *)
(***************************************************************************)
EXTENDS Naturals, Sequences

CONSTANTS Order,          \* the assignments, in _topological_order
          Needs,          \* dependency_graph: the predecessors of each
          WorkerPackets,  \* the hand-off packets a worker may submit
          Unsettled       \* those that leave a question or a check open

VARIABLES teamTask,  \* the task's state as the orchestrator replays it
          outcomes,  \* worker.completed, worker.failed or worker.cancelled
          joins,     \* the join barrier of each dependent assignment
          leases,    \* the lease of each worker
          unreleased, \* those whose lease the last clean-up released in vain
          at,        \* where execute() is, "idle" between two calls
          thread     \* the worker threads that run

Team == {Order[i] : i \in 1..Len(Order)}
Ended == {"failed", "cancelled"}
Held == {"granted", "active"}
-----------------------------------------------------------------------------
\* "Dependent work cannot start until a coordinator-owned barrier is completed by
\* accepted handoffs": when a worker's thread runs, each predecessor is recorded
\* as completed and a packet of each, with nothing left open, is in its barrier.
WorkFollowsItsInputs ==
  \A a \in thread : \A p \in Needs[a] :
    outcomes[p] = "completed" /\ joins[a].got[p] \in WorkerPackets \ Unsettled

\* A task that a team's execution has failed or cancelled holds no lease of the
\* team but those whose release was tried in vain, wherever the execution was
\* when it ended, and after any restart.
EndedTeamTriedEveryLease ==
  at = "idle" /\ teamTask \in Ended => \A a \in Team : leases[a] \in Held => a \in unreleased
=============================================================================
