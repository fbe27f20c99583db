----------------------------- MODULE ModelCalls -----------------------------
(***************************************************************************)
(* The model calls of one task: the signed registry                        *)
(* (contracts/model/model_registry.py), the router (router.py), the        *)
(* orchestrator's execute_model_call and execute_step, and the adapters    *)
(* that reach a backend (contracts/adapters: vllm, nim, remote).           *)
(*                                                                         *)
(* The orchestrator makes one call at a time.  Around it the backends come *)
(* and go, qualifications lapse and capacity is taken and given back, and  *)
(* the process may die and be started again on the same ledger.            *)
(*                                                                         *)
(* Every record of a call has an idempotency key made from the request id  *)
(* and the kind of record; only the orchestrator's own results and retries *)
(* also carry the attempt.  The ledger raises on a key it already has.     *)
(***************************************************************************)
EXTENDS Integers, Sequences

CONSTANTS
  Roster,      \* the targets of the registry, in the order of its manifest
  Tier,        \* the routing_tier of each target
  Setups,      \* how the adapters may be set up, and the requests be made
  Remote,      \* the targets behind a RemoteEndpointAdapter
  Requests,    \* request ids
  Stage,       \* the stage each request belongs to
  Signals,     \* what the stage signals of each request ask for
  Keyed,       \* the requests with an idempotency key of their own
  Scope,       \* which targets are qualified for which requests
  MaxAttempts, \* max_attempts of the calls
  MaxRetries,  \* max_retries of the remote endpoints
  Blemishes,   \* bound: what may be wrong with a target's entry before loading
  Faults       \* bound: what may befall each target after loading

Targets == {Roster[i] : i \in DOMAIN Roster}
Stages  == {Stage[r] : r \in Requests}

ASSUME ModelAssumption ==
  /\ Roster \in Seq(Targets)
  /\ Tier \in [Targets -> {"capable", "efficient"}]
  /\ Setups \subseteq [ledger : SUBSET Targets, streamed : SUBSET Requests, streams : SUBSET Targets,
                        declared : SUBSET Remote, keyedOnly : BOOLEAN]
  /\ Remote \subseteq Targets /\ Keyed \subseteq Requests
  /\ Signals \in [Requests -> {"escalating", "settled", "ordinary"}]
  /\ Scope \subseteq Targets \X Requests
  /\ MaxAttempts \in Nat \ {0} /\ MaxRetries \in Nat
  /\ Blemishes \subseteq {"malformed", "unsigned", "altered"}
  /\ Faults \in [Targets -> SUBSET {"down", "queued", "review", "refused", "lapsed"}]

VARIABLES
  setup,      \* the targets whose adapter has the ledger, the requests made as
              \* streams, the targets whose backend or profile can stream, and
              \* whether only requests with a key are retried at an endpoint
  entry,      \* each target's manifest entry and staged artifact
  loaded,     \* whether the registry has been loaded
  condition,  \* each target's qualification, backend and resource admission
  sticky,     \* ModelRouter._sticky_routes of the task
  call,       \* the execute_model_call in progress
  log,        \* the keys of the records in the ledger
  over,       \* whether the task has failed
  left,       \* history: the target an escalation left to each stage, until a
              \* turn of the stage finds it out
  posts       \* history: requests sent to a backend by adapters with the ledger

vars == <<setup, entry, loaded, condition, sticky, call, log, over, left, posts>>
world == <<setup, entry, loaded, condition>>
routes == <<sticky, left>>

None == "none"
Idle == [at |-> "idle"]
Conditions(t) == {"ready"} \cup Faults[t]

Key(what, r, n) == <<what, r, n>>
Has(what) == Key(what, call.req, 0) \in log
Note(what) == log' = log \cup {Key(what, call.req, 0)}

Init ==
  /\ setup \in Setups
  /\ entry \in [Targets -> {"sound"} \cup Blemishes]
  /\ loaded = FALSE
  /\ condition = [t \in Targets |-> "ready"]
  /\ sticky = [s \in Stages |-> None] /\ left = sticky
  /\ call = Idle
  /\ log = {}
  /\ over = FALSE
  /\ posts = [r \in Requests |-> 0]
-----------------------------------------------------------------------------
(* The registry: every entry is read, signed and compared with the files   *)
(* that are staged for it, or nothing is loaded.                           *)

WellFormed(t) == entry[t] # "malformed"
SignatureHolds(t) == entry[t] # "unsigned"

ArtifactIsThere(t) == t \in Targets      \* a mutant
ArtifactIsAsSigned(t) == entry[t] # "altered"

Provision(t) ==
  /\ ~loaded
  /\ entry' = [entry EXCEPT ![t] = "sound"]
  /\ UNCHANGED <<setup, loaded, condition, routes, call, log, over, posts>>

LoadRegistry ==
  /\ ~loaded
  /\ \A t \in Targets : WellFormed(t) /\ SignatureHolds(t) /\ ArtifactIsAsSigned(t)
  /\ loaded' = TRUE
  /\ UNCHANGED <<setup, entry, condition, routes, call, log, over, posts>>

\* The backends, the endpoints and the admission of resources change by
\* themselves; a qualification that has expired stays expired.
Changes(t, c) ==
  /\ loaded
  /\ condition[t] \notin {c, "lapsed"}
  /\ condition' = [condition EXCEPT ![t] = c]
  /\ UNCHANGED <<setup, entry, loaded, routes, call, log, over, posts>>
-----------------------------------------------------------------------------
(* The router.                                                             *)

Escalates(r) == Signals[r] = "escalating"
Settled(r) == Signals[r] = "settled"

Matches(t, r) == <<t, r>> \in Scope /\ condition[t] # "lapsed"

Candidates(r) == {t \in Targets : Matches(t, r) /\ (Escalates(r) => Tier[t] = "capable")}

Held(r) == sticky[Stage[r]]
KeepsHeld(r) == ~Escalates(r) /\ Held(r) \in Candidates(r)

TurnedAwayBySignals(r, t) ==      \* a mutant
  CASE Escalates(r) -> 0
    [] Settled(r) -> IF Tier[t] = "efficient" THEN 0 ELSE 1
    [] OTHER -> IF Tier[t] = "capable" THEN 0 ELSE 1

\* The order of the candidates: 0 before 1, and the registry's order within.
TurnedAway(r, t) ==
  CASE Escalates(r) -> 0
    [] ~Escalates(r) /\ Held(r) # None -> IF t = Held(r) THEN 0 ELSE 1
    [] ~Escalates(r) /\ Held(r) = None /\ Settled(r) -> IF Tier[t] = "efficient" THEN 0 ELSE 1
    [] OTHER -> IF Tier[t] = "capable" THEN 0 ELSE 1

Position(t) == CHOOSE i \in DOMAIN Roster : Roster[i] = t
Before(r, t, u) ==
  \/ TurnedAway(r, t) < TurnedAway(r, u)
  \/ TurnedAway(r, t) = TurnedAway(r, u) /\ Position(t) < Position(u)

\* The first candidate whose backend is up and which is admitted, if any.
Chosen(r) ==
  {t \in Candidates(r) :
     /\ condition[t] = "ready"
     /\ \A u \in Candidates(r) : condition[u] = "ready" => ~Before(r, u, t)}

\* What the decision says when no target is chosen.
Standing(r) ==
  IF \E t \in Candidates(r) : condition[t] = "queued" THEN "queued"
  ELSE IF \E t \in Candidates(r) : condition[t] = "review" THEN "needs_review"
  ELSE "rejected"

Routed(r, t, said) ==
  [at |-> "routed", req |-> r, target |-> t, said |-> said, attempt |-> 1, try |-> 1,
   sends |-> 0, reply |-> None]

IsOut(t) == t # None /\ condition[t] # "ready"

\* route(): the routes of the stage change before anything is recorded.  A turn
\* that keeps to the stage's route, and has to fall back, leaves its fallback there.
Route(r) ==
  /\ loaded /\ call = Idle
  /\ \/ /\ Chosen(r) = {}
        /\ call' = Routed(r, None, Standing(r))
        /\ UNCHANGED sticky
     \/ \E t \in Chosen(r) :
          /\ call' = Routed(r, t, t)
          /\ sticky' = IF Escalates(r) \/ KeepsHeld(r)
                       THEN [sticky EXCEPT ![Stage[r]] = t] ELSE sticky
  /\ left' = IF Escalates(r) THEN sticky'
             ELSE IF IsOut(left[Stage[r]]) THEN [left EXCEPT ![Stage[r]] = None] ELSE left
  /\ UNCHANGED <<world, log, over, posts>>
-----------------------------------------------------------------------------
(* execute_model_call and execute_step.                                    *)

Goes(place) == call' = [call EXCEPT !.at = place]

\* _append_once: a decision, and the request of the step that follows it, which
\* are on record are not recorded again.
RecordDecision ==
  /\ call.at = "routed"
  /\ ~over
  /\ log' = log \cup {Key("decision", call.req, call.said)}
  /\ IF call.target = None THEN call' = Idle ELSE Goes("begin")
  /\ UNCHANGED <<world, routes, over, posts>>

\* A result that comes late, or a stream that ends without its final chunk, is a
\* failure of the step.
StepReturns ==
  LET result == Key("responded", call.req, call.attempt)
  IN /\ call.at = "answered"
     /\ \/ result \notin log /\ log' = log \cup {result} /\ call' = Idle
        \/ Goes("failed") /\ UNCHANGED log
     /\ UNCHANGED <<world, routes, over, posts>>

LastAttempt == call.attempt = MaxAttempts

\* Whatever the adapter raised, the step retries while it has attempts.
StepRetries ==
  LET retry == Key("retry", call.req, call.attempt)
  IN /\ call.at = "failed"
     /\ retry \notin log
     /\ log' = log \cup {retry}
     /\ IF LastAttempt
        THEN over' = TRUE /\ call' = Idle
        ELSE /\ call' = [call EXCEPT !.at = "begin", !.attempt = @ + 1, !.try = 1]
             /\ UNCHANGED over
     /\ UNCHANGED <<world, routes, posts>>

\* The ledger refuses a record, or a checkpoint cannot be written.
CallRaises ==
  /\ call # Idle
  /\ call' = Idle
  /\ UNCHANGED <<world, routes, log, over, posts>>

\* The process dies: the ledger stays, the router's memory does not.
Restart ==
  /\ call # Idle \/ \E s \in Stages : sticky[s] # None
  /\ call' = Idle
  /\ sticky' = [s \in Stages |-> None] /\ left' = sticky'
  /\ UNCHANGED <<world, log, over, posts>>
-----------------------------------------------------------------------------
(* The adapters.  A local adapter makes one try of an attempt; a remote    *)
(* endpoint may make more, but not of a stream, and where its profile says  *)
(* so only of a request that has an idempotency key.                       *)

WithLedger == call.target \in setup.ledger
AtEndpoint == call.target \in Remote
AsStream == call.req \in setup.streamed

Repeatable(r) == r \notin setup.streamed /\ (r \in Keyed \/ ~setup.keyedOnly)

TriesOfAny(r, t) == IF t \in Remote THEN MaxRetries + 1 ELSE 1      \* a mutant
Tries(r, t) == IF t \in Remote /\ Repeatable(r) THEN MaxRetries + 1 ELSE 1

\* A typed failure: the remote endpoint tries again what is worth it.
Fails(retryable) ==
  call' = IF AtEndpoint /\ retryable /\ call.try < Tries(call.req, call.target)
          THEN [call EXCEPT !.at = "begin", !.try = @ + 1]
          ELSE [call EXCEPT !.at = "failed"]

\* The remote preflight, once for each attempt, and the records of the endpoint.
EndpointBegins ==
  /\ call.at = "begin" /\ AtEndpoint
  /\ IF \/ call.try = 1 /\ condition[call.target] = "lapsed"
        \/ WithLedger /\ Has("selected")
        \/ AsStream /\ call.target \notin setup.declared
     THEN Goes("failed") /\ UNCHANGED log
     ELSE /\ Goes("check")
          /\ IF WithLedger THEN Note("selected") ELSE UNCHANGED log
  /\ UNCHANGED <<world, routes, over, posts>>

LocalBegins ==
  /\ call.at = "begin" /\ ~AtEndpoint
  /\ Goes("check")
  /\ UNCHANGED <<world, routes, log, over, posts>>

\* complete() and stream(): health and readiness first, then cancellation, the
\* capabilities and the budget; the call is started once these hold.  What a
\* backend cannot stream is recorded as failed, and was not started.
CanStream == AsStream => call.target \in setup.streams
MayStartUnlessDone == ~(WithLedger /\ Has("completed"))      \* a mutant
MayStart == ~(WithLedger /\ Has("started"))

Check ==
  /\ call.at = "check"
  /\ \/ condition[call.target] = "down" /\ Fails(TRUE) /\ UNCHANGED log
     \/ condition[call.target] # "down" /\ Fails(FALSE) /\ UNCHANGED log
     \/ /\ condition[call.target] # "down"
        /\ ~CanStream
        /\ Goes("failed") /\ IF WithLedger THEN Note("failed") ELSE UNCHANGED log
     \/ /\ condition[call.target] # "down"
        /\ CanStream
        /\ IF MayStart
           THEN Goes("post") /\ IF WithLedger THEN Note("started") ELSE UNCHANGED log
           ELSE Goes("failed") /\ UNCHANGED log
  /\ UNCHANGED <<world, routes, over, posts>>

\* What comes back: an answer; a failure of the server or of the connection,
\* which is worth another try; a refusal, or an answer no parser takes; an error
\* that is none of the adapter's own.
Replies == {"answer", "outage", "refusal", "stray"}
Answered == call.reply = "answer"
Stray == call.reply = "stray"

Post ==
  /\ call.at = "post"
  /\ \E reply \in Replies :
       call' = [call EXCEPT !.at = "reply", !.sends = @ + 1, !.reply = reply]
  /\ posts' = IF WithLedger THEN [posts EXCEPT ![call.req] = @ + 1] ELSE posts
  /\ UNCHANGED <<world, routes, log, over>>

\* The remote endpoint's stream overrides the one that records its completion.
Silent == Answered /\ AtEndpoint /\ AsStream

Reply ==
  /\ call.at = "reply"
  /\ \/ Answered /\ Goes(IF AtEndpoint THEN "arrived" ELSE "answered")
     \/ Stray /\ Goes("failed")
     \/ ~Answered /\ ~Stray /\ Fails(call.reply = "outage")
  /\ IF ~WithLedger \/ Stray \/ Silent THEN UNCHANGED log
     ELSE Note(IF Answered THEN "completed" ELSE "failed")
  /\ UNCHANGED <<world, routes, over, posts>>

\* The endpoint's own record that its request was completed.
EndpointCompletes ==
  /\ call.at = "arrived"
  /\ Goes("answered")
  /\ IF WithLedger THEN Note("delivered") ELSE UNCHANGED log
  /\ UNCHANGED <<world, routes, over, posts>>

Next ==
  \/ \E t \in Targets : Provision(t)
  \/ LoadRegistry
  \/ \E t \in Targets : \E c \in Conditions(t) : Changes(t, c)
  \/ \E r \in Requests : Route(r)
  \/ RecordDecision
  \/ EndpointBegins \/ LocalBegins \/ Check \/ Post \/ Reply \/ EndpointCompletes
  \/ StepReturns \/ StepRetries
  \/ CallRaises \/ Restart

Spec == Init /\ [][Next]_vars
-----------------------------------------------------------------------------
(* Properties.                                                             *)

Places == {"routed", "begin", "check", "post", "reply", "arrived", "answered", "failed"}
Calls ==
  [at : Places, req : Requests, target : Targets \cup {None},
   said : Targets \cup {"queued", "needs_review", "rejected"}, attempt : 1 .. MaxAttempts,
   try : 1 .. MaxRetries + 1, sends : Nat, reply : Replies \cup {None}]

\* The registry, the routes and the call in progress have the forms the code
\* gives them.
TypeOK ==
  /\ setup \in Setups
  /\ entry \in [Targets -> {"sound"} \cup Blemishes]
  /\ loaded \in BOOLEAN
  /\ condition \in [Targets -> {"ready", "down", "queued", "review", "refused", "lapsed"}]
  /\ sticky \in [Stages -> Targets \cup {None}]
  /\ left \in [Stages -> Targets \cup {None}]
  /\ call = Idle \/ call \in Calls
  /\ posts \in [Requests -> Nat]

\* execute_model_call: a backend is asked only under an accepted decision that is
\* in the ledger and names it, taken from a registry that was sound when loaded.
AskedUnderADecision ==
  call # Idle /\ call.at \notin {"routed"} =>
    /\ Key("decision", call.req, call.target) \in log
    /\ \A t \in Targets : entry[t] = "sound"

\* Sends are bounded: an adapter with the ledger sends a request once, however
\* often the endpoint, the step, the caller or a restarted process repeats it;
\* without the ledger a call stays within its attempts, which an endpoint
\* multiplies only for what its profile lets it repeat, and never for a stream.
SendsAreBounded ==
  /\ \A r \in Requests : posts[r] <= 1
  /\ call # Idle /\ call.target # None =>
       call.sends <= MaxAttempts * (IF Repeatable(call.req) THEN MaxRetries + 1 ELSE 1)

\* A backend that cannot stream was asked for a stream, by an adapter with the ledger.
FailedUnstarted(r) ==
  r \in setup.streamed /\ \E t \in setup.ledger \ setup.streams : Key("decision", r, t) \in log

\* The ledger tells one outcome of a call that was started, and an answer only of a
\* call that was completed or delivered there, or made without the ledger.  Only a
\* stream that some backend could not give may be on record as failed unstarted,
\* and as completed besides, by another one.
LedgerTellsOneOutcome ==
  \A r \in Requests :
    LET on(what) == Key(what, r, 0) \in log
    IN /\ on("completed") => on("started")
       /\ on("failed") => (on("started") /\ ~on("completed")) \/ FailedUnstarted(r)
       /\ \A n \in 1 .. MaxAttempts :
            Key("responded", r, n) \in log =>
              \/ on("completed") \/ (r \in setup.streamed /\ on("delivered"))
              \/ \E t \in Targets \ setup.ledger : Key("decision", r, t) \in log

\* ModelRouter: from an escalation until a turn of its stage finds the target it
\* chose out, turns that do not escalate again go to that target, whatever they
\* signal.  (After such a turn they may stay with its fallback for good.)
KeepsTheRoute(r) ==
  LET t == left[Stage[r]]
  IN /\ call = Idle /\ call' # Idle /\ call'.req = r /\ ~Escalates(r)
     /\ t # None /\ <<t, r>> \in Scope /\ condition[t] = "ready"
     => call'.target = t
EscalationIsKept == [][\A r \in Requests : KeepsTheRoute(r)]_vars
=============================================================================
