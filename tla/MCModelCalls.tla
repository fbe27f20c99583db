---------------------------- MODULE MCModelCalls ----------------------------
(* Two targets of a roster that lists the efficient one first; the capable  *)
(* one is a remote endpoint.  The first request escalates its stage and has *)
(* an idempotency key; the second is settled work of the same stage.        *)
EXTENDS ModelCalls

MCRoster == <<"small", "large">>
MCTier == [t \in Targets |-> IF t = "small" THEN "efficient" ELSE "capable"]
MCStage == [r \in Requests |-> "draft"]
MCSignals == [r \in Requests |-> IF r = "r1" THEN "escalating" ELSE "settled"]
MCFaults == [t \in Targets |-> IF t = "small" THEN {"queued"} ELSE {"down", "lapsed"}]
MCScope == Targets \X Requests

\* The local adapter alone has the ledger, and the endpoint repeats what has a
\* key, or everything; or both have the ledger, and are asked for streams, which
\* the local backend cannot give.
Local(streamed, keyedOnly) ==
  [ledger |-> {"small"}, streamed |-> streamed, streams |-> Targets, declared |-> Remote,
   keyedOnly |-> keyedOnly]
MCSetups ==
  {Local({"r2"}, TRUE), Local({}, TRUE), Local({}, FALSE),
   [Local(Requests, TRUE) EXCEPT !.ledger = Targets, !.streams = Remote]}
=============================================================================
