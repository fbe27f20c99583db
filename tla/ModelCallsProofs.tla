-------------------------- MODULE ModelCallsProofs --------------------------
(***************************************************************************)
(* Theorems about ModelCalls, for any registry, requests, scopes and        *)
(* bounds.  A call that has a backend to ask goes there once its decision   *)
(* is in the ledger; the ledger's record that a call was started is what    *)
(* keeps a second sender out; and a try is counted before it is sent.       *)
(***************************************************************************)
EXTENDS ModelCalls, TLAPS

OnRecord(what, r) == Key(what, r, 0) \in log

\* The most tries the endpoint and the step make of one attempt of a request.
TriesOf(r) == IF Repeatable(r) THEN MaxRetries + 1 ELSE 1

\* What is routed comes from a sound registry, and what is past its routing has
\* a decision in the ledger that names its target.
CallIsDecided ==
  /\ loaded => \A t \in Targets : entry[t] = "sound"
  /\ call # Idle => loaded /\ (call.target # None => call.said = call.target)
  /\ call # Idle /\ call.at # "routed" =>
       call.target \in Targets /\ Key("decision", call.req, call.target) \in log

\* A request is sent by the call that recorded its start, and is on record as
\* completed only after that; while it is out, a failure that is on record is one
\* of a backend that could not stream.
CallIsStarted ==
  /\ \A r \in Requests :
       ~OnRecord("started", r) => posts[r] = 0 /\ ~OnRecord("completed", r)
  /\ call # Idle /\ WithLedger /\ call.at \in {"post", "reply"} =>
       /\ OnRecord("started", call.req) /\ ~OnRecord("completed", call.req)
       /\ OnRecord("failed", call.req) => FailedUnstarted(call.req)
       /\ call.at = "post" => posts[call.req] = 0
  /\ call # Idle /\ WithLedger /\ call.at = "arrived" => OnRecord("completed", call.req) \/ AsStream
  /\ call # Idle /\ WithLedger /\ call.at = "answered" =>
       OnRecord("completed", call.req) \/ (AsStream /\ OnRecord("delivered", call.req))
  /\ \A r \in Requests : posts[r] <= 1

\* The sends of a call: those of its earlier attempts, and its tries of this one.
SendsAreCounted ==
  call # Idle =>
    /\ call.try <= TriesOf(call.req)
    /\ call.at = "routed" => call.sends = 0 /\ call.try = 1 /\ call.attempt = 1
    /\ call.at \in {"begin", "check", "post"} =>
         call.sends <= (call.attempt - 1) * TriesOf(call.req) + call.try - 1
    /\ call.at \in {"reply", "arrived", "answered", "failed"} =>
         call.sends <= (call.attempt - 1) * TriesOf(call.req) + call.try

\* What an escalation left to a stage is the stage's route until it is found out.
RouteIsLeft == \A s \in Stages : left[s] \in {None, sticky[s]}

IInv ==
  /\ TypeOK /\ CallIsDecided /\ CallIsStarted /\ SendsAreCounted /\ LedgerTellsOneOutcome
  /\ RouteIsLeft
-----------------------------------------------------------------------------
(***************************************************************************)
(* Keys, bounds and the order of the candidates.                            *)
(***************************************************************************)
LEMMA KeysDiffer ==
  ASSUME NEW w, NEW r, NEW n, NEW v, NEW q, NEW m, Key(w, r, n) = Key(v, q, m)
  PROVE  w = v /\ r = q /\ n = m
BY DEF Key

LEMMA Bounds ==
  /\ MaxAttempts \in Nat /\ 1 \in 1 .. MaxAttempts
  /\ MaxRetries \in Nat /\ 1 \in 1 .. MaxRetries + 1
BY ModelAssumption

LEMMA TriesBounds ==
  ASSUME NEW r
  PROVE  TriesOf(r) \in Nat /\ 1 <= TriesOf(r)
BY Bounds DEF TriesOf

\* Whatever its target, a request has no more tries than it may have at all.
LEMMA TriesWithin ==
  ASSUME NEW r, NEW t
  PROVE  Tries(r, t) \in Nat /\ Tries(r, t) <= TriesOf(r) /\ Tries(r, t) <= MaxRetries + 1
BY Bounds DEF TriesOf, Tries

LEMMA Times ==
  ASSUME NEW a \in Nat, NEW k \in Nat
  PROVE  a * k \in Nat /\ (a + 1) * k = a * k + k
OBVIOUS

LEMMA TimesGrows ==
  ASSUME NEW a \in Nat, NEW b \in Nat, NEW k \in Nat, a <= b
  PROVE  a * k <= b * k
<1>1. PICK d \in Nat : b = a + d
  <2>1. b - a \in Nat /\ b = a + (b - a)
    OBVIOUS
  <2> QED BY <2>1
<1>2. b * k = a * k + d * k /\ a * k \in Nat /\ d * k \in Nat
  BY <1>1
<1> QED BY <1>2

\* The target of a stage's route is the one the router chooses, while it is up.
LEMMA HeldIsChosen ==
  ASSUME TypeOK, NEW r \in Requests, Held(r) # None, ~Escalates(r),
         <<Held(r), r>> \in Scope, condition[Held(r)] = "ready"
  PROVE  Chosen(r) = {Held(r)}
<1> DEFINE h == Held(r)
<1>1. Stage[r] \in Stages
  BY DEF Stages
<1>2. h \in Targets
  BY <1>1 DEF Held, TypeOK
<1>3. h \in Candidates(r)
  BY <1>2 DEF Candidates, Matches
<1>4. Position(h) \in Int
  <2>1. DOMAIN Roster \subseteq Int
    BY ModelAssumption
  <2>2. \E i \in DOMAIN Roster : Roster[i] = h
    BY <1>2 DEF Targets
  <2> HIDE DEF h
  <2>3. Position(h) \in DOMAIN Roster
    BY <2>2 DEF Position
  <2> QED BY <2>1, <2>3
<1>5. \A t : TurnedAway(r, t) = IF t = h THEN 0 ELSE 1
  BY DEF TurnedAway
<1> HIDE DEF h
<1>6. \A u : ~Before(r, u, h)
  BY <1>4, <1>5 DEF Before
<1>7. \A u : u # h => Before(r, h, u)
  BY <1>5 DEF Before
<1> QED BY <1>3, <1>6, <1>7 DEF Chosen, h
-----------------------------------------------------------------------------
LEMMA Initially == Init => IInv
<1> SUFFICES ASSUME Init PROVE IInv
  OBVIOUS
<1> USE DEF Init
<1>1. TypeOK
  BY DEF TypeOK
<1>2. CallIsDecided /\ SendsAreCounted /\ RouteIsLeft
  BY DEF CallIsDecided, SendsAreCounted, RouteIsLeft
<1>3. CallIsStarted /\ LedgerTellsOneOutcome
  BY DEF CallIsStarted, OnRecord, LedgerTellsOneOutcome
<1> QED BY <1>1, <1>2, <1>3 DEF IInv
-----------------------------------------------------------------------------
LEMMA IdleIsNoCall == Idle.at = "idle" /\ Idle \notin Calls
BY DEF Idle, Calls, Places

\* route(): the call it leaves has no target, or one of its candidates.
LEMMA Routing ==
  ASSUME TypeOK, NEW r \in Requests, Route(r)
  PROVE  /\ loaded /\ call = Idle /\ call' \in Calls /\ call'.at = "routed" /\ call'.req = r
         /\ call'.target # None => call'.said = call'.target
         /\ call'.sends = 0 /\ call'.try = 1 /\ call'.attempt = 1
         /\ sticky' \in [Stages -> Targets \cup {None}] /\ left' \in [Stages -> Targets \cup {None}]
         /\ call'.target = None \/ call'.target \in Chosen(r)
         /\ Chosen(r) # {} => call'.target \in Chosen(r)
<1>1. Chosen(r) \subseteq Targets
  BY DEF Chosen, Candidates
<1>0. ASSUME sticky' \in [Stages -> Targets \cup {None}]
      PROVE  left' \in [Stages -> Targets \cup {None}]
  BY <1>0 DEF Route, TypeOK
<1>2. CASE Chosen(r) = {} /\ call' = Routed(r, None, Standing(r)) /\ UNCHANGED sticky
  <2>1. Standing(r) \in {"queued", "needs_review", "rejected"}
    BY DEF Standing
  <2> QED BY <1>0, <1>2, <2>1, Bounds DEF Route, Routed, Calls, Places, TypeOK
<1>3. CASE \E t \in Chosen(r) :
             /\ call' = Routed(r, t, t)
             /\ sticky' = IF Escalates(r) \/ KeepsHeld(r)
                          THEN [sticky EXCEPT ![Stage[r]] = t] ELSE sticky
  <2>1. PICK t \in Chosen(r) :
             /\ call' = Routed(r, t, t)
             /\ sticky' = IF Escalates(r) \/ KeepsHeld(r)
                          THEN [sticky EXCEPT ![Stage[r]] = t] ELSE sticky
    BY <1>3
  <2>2. t \in Targets
    BY <1>1, <2>1
  <2>3. call' \in Calls
    BY <2>1, <2>2, Bounds DEF Routed, Calls, Places
  <2>4. sticky' \in [Stages -> Targets \cup {None}]
    BY <2>1, <2>2 DEF TypeOK
  <2> QED BY <1>0, <2>1, <2>3, <2>4 DEF Route, Routed
<1> QED BY <1>2, <1>3 DEF Route

\* A typed failure ends the attempt, or counts another try of it.
LEMMA Failing ==
  ASSUME call \in Calls, NEW b, Fails(b)
  PROVE  /\ call' \in Calls
         /\ \/ call' = [call EXCEPT !.at = "failed"]
            \/ /\ call' = [call EXCEPT !.at = "begin", !.try = @ + 1]
               /\ call.try < Tries(call.req, call.target)
<1>1. CASE AtEndpoint /\ b /\ call.try < Tries(call.req, call.target)
  <2>1. call.try + 1 \in 1 .. MaxRetries + 1
    BY <1>1, TriesWithin, Bounds DEF Calls
  <2>2. call' = [call EXCEPT !.at = "begin", !.try = @ + 1]
    BY <1>1 DEF Fails
  <2>3. call' \in Calls
    BY <2>1, <2>2 DEF Calls, Places
  <2> QED BY <1>1, <2>2, <2>3
<1>2. CASE ~(AtEndpoint /\ b /\ call.try < Tries(call.req, call.target))
  BY <1>2 DEF Fails, Calls, Places
<1> QED BY <1>1, <1>2

\* A call that moves to another place stays the call it is.
LEMMA Going ==
  ASSUME call \in Calls, NEW place \in Places, Goes(place)
  PROVE  call' \in Calls /\ call' = [call EXCEPT !.at = place]
BY DEF Goes, Calls

LEMMA TypeStep == ASSUME TypeOK, [Next]_vars PROVE TypeOK'
<1> USE DEF TypeOK, world, routes
<1>0. ASSUME call # Idle PROVE call \in Calls
  BY <1>0
<1>1. CASE \E t \in Targets : Provision(t)
  BY <1>1 DEF Provision
<1>2. CASE LoadRegistry
  BY <1>2 DEF LoadRegistry
<1>3. CASE \E t \in Targets : \E c \in Conditions(t) : Changes(t, c)
  <2>1. \A t \in Targets : Conditions(t) \subseteq {"ready", "down", "queued", "review", "refused", "lapsed"}
    BY ModelAssumption DEF Conditions
  <2> QED BY <1>3, <2>1 DEF Changes
<1>4. CASE \E r \in Requests : Route(r)
  BY <1>4, Routing DEF Route
<1>5. CASE RecordDecision
  BY <1>5, <1>0, IdleIsNoCall, Going DEF RecordDecision, Places
<1>6. CASE EndpointBegins \/ LocalBegins
  BY <1>6, <1>0, IdleIsNoCall, Going DEF EndpointBegins, LocalBegins, Places
<1>7. CASE Check
  BY <1>7, <1>0, IdleIsNoCall, Going, Failing DEF Check, Places
<1>8. CASE Post
  <2>1. call \in Calls
    BY <1>0, <1>8, IdleIsNoCall DEF Post
  <2>2. call' \in Calls
    <3>1. PICK reply \in Replies :
            call' = [call EXCEPT !.at = "reply", !.sends = @ + 1, !.reply = reply]
      BY <1>8 DEF Post
    <3>2. call.sends + 1 \in Nat
      BY <2>1 DEF Calls
    <3> QED BY <2>1, <3>1, <3>2 DEF Calls, Places
  <2>3. posts' \in [Requests -> Nat]
    <3>1. call.req \in Requests
      BY <2>1 DEF Calls
    <3>2. posts' = posts \/ posts' = [posts EXCEPT ![call.req] = @ + 1]
      BY <1>8 DEF Post
    <3> QED BY <3>1, <3>2
  <2> QED BY <1>8, <2>2, <2>3 DEF Post
<1>9. CASE Reply
  <2>1. call \in Calls
    BY <1>0, <1>9, IdleIsNoCall DEF Reply
  <2> QED BY <1>9, <2>1, Going, Failing DEF Reply, Places
<1>10. CASE StepReturns \/ EndpointCompletes
  BY <1>10, <1>0, IdleIsNoCall, Going DEF StepReturns, EndpointCompletes, Places
<1>11. CASE StepRetries
  <2>1. call \in Calls
    BY <1>0, <1>11, IdleIsNoCall DEF StepRetries
  <2>2. CASE LastAttempt
    BY <1>11, <2>2 DEF StepRetries
  <2>3. CASE ~LastAttempt
    <3>1. call.attempt + 1 \in 1 .. MaxAttempts
      BY <2>1, <2>3, Bounds DEF LastAttempt, Calls
    <3>2. call' \in Calls
      BY <1>11, <2>1, <2>3, <3>1, Bounds DEF StepRetries, Calls, Places
    <3> QED BY <1>11, <3>2 DEF StepRetries
  <2> QED BY <2>2, <2>3
<1>12. CASE CallRaises \/ Restart
  BY <1>12 DEF CallRaises, Restart
<1>13. CASE UNCHANGED vars
  BY <1>13 DEF vars
<1> QED
  BY <1>1, <1>2, <1>3, <1>4, <1>5, <1>6, <1>7, <1>8, <1>9, <1>10, <1>11, <1>12, <1>13 DEF Next
-----------------------------------------------------------------------------
(***************************************************************************)
(* What holds of a call, its records and its sends, step by step.           *)
(***************************************************************************)
\* What happens within a call leaves it the call it is, and takes no record back.
InCall ==
  \/ EndpointBegins \/ LocalBegins \/ Check \/ Post \/ Reply \/ EndpointCompletes
  \/ StepReturns \/ StepRetries

LEMMA Within ==
  ASSUME TypeOK, InCall
  PROVE  /\ call \in Calls /\ call # Idle /\ call.at # "routed"
         /\ log \subseteq log' /\ UNCHANGED <<world, routes>>
         /\ \/ call' = Idle
            \/ /\ call'.req = call.req /\ call'.target = call.target /\ call'.said = call.said
               /\ call' # Idle /\ call'.at # "routed"
<1>0. TypeOK' /\ (call.at # "idle" => call \in Calls)
  <2>1. [Next]_vars
    BY DEF InCall, Next
  <2> QED BY <2>1, TypeStep, IdleIsNoCall DEF TypeOK
<1> USE IdleIsNoCall
<1>1. CASE EndpointBegins \/ LocalBegins
  BY <1>0, <1>1, Going DEF EndpointBegins, LocalBegins, Places, Note, Calls
<1>2. CASE Check
  <2>1. call \in Calls /\ call.at = "check" /\ UNCHANGED <<world, routes>>
    BY <1>0, <1>2 DEF Check
  <2>2. log \subseteq log'
    BY <1>2 DEF Check, Note
  <2>3. \/ call' = [call EXCEPT !.at = "post"] \/ call' = [call EXCEPT !.at = "failed"]
        \/ call' = [call EXCEPT !.at = "begin", !.try = @ + 1]
    BY <2>1, <1>2, Failing DEF Check, Goes
  <2> QED BY <2>1, <2>2, <2>3 DEF Calls
<1>3. CASE Post
  <2>1. call \in Calls
    BY <1>0, <1>3 DEF Post
  <2> QED BY <2>1, <1>0, <1>3 DEF Post, Calls
<1>4. CASE Reply
  <2>1. call \in Calls /\ UNCHANGED <<world, routes>>
    BY <1>0, <1>4 DEF Reply
  <2>2. log \subseteq log'
    BY <1>4 DEF Reply, Note
  <2>3. \/ call' = [call EXCEPT !.at = "answered"] \/ call' = [call EXCEPT !.at = "failed"]
        \/ call' = [call EXCEPT !.at = "arrived"]
        \/ call' = [call EXCEPT !.at = "begin", !.try = @ + 1]
    BY <2>1, <1>4, Failing DEF Reply, Goes
  <2>4. call.at = "reply"
    BY <1>4 DEF Reply
  <2> QED BY <2>1, <2>2, <2>3, <2>4 DEF Calls
<1>5. CASE StepReturns \/ EndpointCompletes
  BY <1>0, <1>5, Going DEF StepReturns, EndpointCompletes, Places, Calls, Note
<1>6. CASE StepRetries
  BY <1>0, <1>6 DEF StepRetries, Calls
<1> QED BY <1>1, <1>2, <1>3, <1>4, <1>5, <1>6 DEF InCall

LEMMA DecidedStep == ASSUME IInv, [Next]_vars PROVE CallIsDecided'
<1> USE DEF IInv, CallIsDecided, world
<1>0. TypeOK /\ (call # Idle => call \in Calls)
  BY DEF TypeOK
<1>1. CASE \E t \in Targets : Provision(t)
  BY <1>1 DEF Provision
<1>2. CASE LoadRegistry
  <2>1. \A t \in Targets : entry[t] \in {"sound", "malformed", "unsigned", "altered"}
    BY ModelAssumption DEF TypeOK
  <2> QED BY <1>2, <2>1 DEF LoadRegistry, WellFormed, SignatureHolds, ArtifactIsAsSigned
<1>3. CASE \E t \in Targets : \E c \in Conditions(t) : Changes(t, c)
  BY <1>3 DEF Changes
<1>4. CASE \E r \in Requests : Route(r)
  BY <1>4, <1>0, Routing DEF Route
<1>5. CASE RecordDecision
  <2>1. call \in Calls /\ call # Idle /\ call.at = "routed"
    BY <1>5, <1>0, IdleIsNoCall DEF RecordDecision
  <2>2. CASE call.target = None
    BY <1>5, <2>2 DEF RecordDecision
  <2>3. CASE call.target # None
    <3>1. call.target \in Targets /\ call.said = call.target /\ loaded
      BY <2>1, <2>3 DEF Calls
    <3>2. call' \in Calls /\ call' = [call EXCEPT !.at = "begin"]
      BY <1>5, <2>1, <2>3, Going DEF RecordDecision, Places
    <3>3. call'.target = call.target /\ call'.req = call.req /\ call'.said = call.said
      BY <2>1, <3>2 DEF Calls
    <3>4. Key("decision", call.req, call.target) \in log'
      BY <1>5, <3>1 DEF RecordDecision
    <3> QED BY <1>5, <3>1, <3>3, <3>4 DEF RecordDecision
  <2> QED BY <2>2, <2>3
<1>6. CASE InCall
  BY <1>0, <1>6, Within
<1>7. CASE CallRaises \/ Restart
  BY <1>7 DEF CallRaises, Restart
<1>8. CASE UNCHANGED vars
  BY <1>8 DEF vars
<1> QED BY <1>1, <1>2, <1>3, <1>4, <1>5, <1>6, <1>7, <1>8 DEF Next, InCall

\* Only the adapters write of a start or an outcome, and of no request but theirs.
LEMMA OtherRecords ==
  ASSUME NEW r, NEW w \in {"started", "completed", "failed", "delivered"}, NEW v, NEW q, NEW m,
         log' = log \cup {Key(v, q, m)}, v # w
  PROVE  OnRecord(w, r)' <=> OnRecord(w, r)
BY KeysDiffer DEF OnRecord

LEMMA Noted ==
  ASSUME NEW r, NEW w \in {"started", "completed", "failed", "delivered"},
         NEW v \in {"started", "completed", "failed", "delivered"}, Note(v)
  PROVE  OnRecord(w, r)' <=> (OnRecord(w, r) \/ (w = v /\ r = call.req))
BY KeysDiffer DEF OnRecord, Note

\* A backend that could not stream is never forgotten.
LEMMA UnstartedStays ==
  ASSUME NEW r, FailedUnstarted(r), log \subseteq log', setup' = setup
  PROVE  FailedUnstarted(r)'
BY DEF FailedUnstarted, Key

LEMMA SetupStays == ASSUME IInv, [Next]_vars PROVE setup' = setup /\ log \subseteq log'
<1>1. CASE InCall
  BY <1>1, Within DEF IInv, world
<1> QED BY <1>1 DEF Next, InCall, vars, world, Provision, LoadRegistry, Changes, Route, RecordDecision,
                    CallRaises, Restart

LEMMA StartedStep == ASSUME IInv, [Next]_vars PROVE CallIsStarted'
<1> USE DEF IInv, CallIsStarted
<1>0. /\ TypeOK /\ (call # Idle => call \in Calls) /\ posts \in [Requests -> Nat]
      /\ setup' = setup /\ log \subseteq log'
  BY SetupStays DEF TypeOK
<1>1. CASE \/ \E t \in Targets : Provision(t)
           \/ LoadRegistry
           \/ \E t \in Targets : \E c \in Conditions(t) : Changes(t, c)
  BY <1>1, <1>0 DEF Provision, LoadRegistry, Changes, OnRecord, WithLedger, AsStream, FailedUnstarted
<1>2. CASE \E r \in Requests : Route(r)
  BY <1>2, <1>0, Routing DEF Route, OnRecord
<1>3. CASE RecordDecision
  <2>1. \A r, w : w \in {"started", "completed", "failed", "delivered"} => OnRecord(w, r)' <=> OnRecord(w, r)
    BY <1>3, OtherRecords DEF RecordDecision
  <2>2. call' = Idle \/ call'.at = "begin"
    BY <1>3, <1>0, IdleIsNoCall, Going DEF RecordDecision, Places, Calls
  <2> QED BY <1>3, <2>1, <2>2 DEF RecordDecision
<1>4. CASE EndpointBegins \/ LocalBegins
  <2>1. \A r, w : w \in {"started", "completed", "failed", "delivered"} => OnRecord(w, r)' <=> OnRecord(w, r)
    BY <1>4, OtherRecords DEF EndpointBegins, LocalBegins, Note, OnRecord
  <2>2. call'.at \in {"failed", "check"} /\ call' \in Calls /\ posts' = posts
    BY <1>4, <1>0, IdleIsNoCall, Going DEF EndpointBegins, LocalBegins, Places, Calls
  <2> QED BY <2>1, <2>2
<1>5. CASE Check
  <2>1. call \in Calls /\ posts' = posts
    BY <1>5, <1>0, IdleIsNoCall DEF Check
  <2>2. CASE UNCHANGED log /\ call'.at # "post"
    <3>1. call'.at \in {"failed", "begin"}
      BY <1>5, <2>1, <2>2, Going, Failing DEF Check, Places, Calls
    <3> QED BY <2>1, <2>2, <3>1 DEF OnRecord
  <2>5. CASE WithLedger /\ Note("failed") /\ Goes("failed")
    <3>1. \A r, w : w \in {"started", "completed", "delivered"} => OnRecord(w, r)' <=> OnRecord(w, r)
      BY <2>5, Noted
    <3>2. call'.at = "failed"
      BY <2>1, <2>5, Going DEF Places, Calls
    <3> QED BY <2>1, <3>1, <3>2
  <2>3. CASE WithLedger /\ MayStart /\ Goes("post") /\ Note("started")
    <3>1. ~OnRecord("started", call.req)
      BY <2>3 DEF MayStart, Has, OnRecord
    <3>2. call' = [call EXCEPT !.at = "post"] /\ call.req \in Requests
      BY <2>1, <2>3, Going DEF Places, Calls
    <3>0. \A r, w : w \in {"started", "completed", "failed", "delivered"} =>
             OnRecord(w, r)' <=> (OnRecord(w, r) \/ (w = "started" /\ r = call.req))
      BY <2>3, Noted
    <3>3. /\ \A r : OnRecord("started", r)' <=> (OnRecord("started", r) \/ r = call.req)
          /\ \A r : OnRecord("completed", r)' <=> OnRecord("completed", r)
          /\ \A r : OnRecord("failed", r)' <=> OnRecord("failed", r)
      BY <3>0
    <3>4. call'.req = call.req /\ call'.at = "post"
      BY <2>1, <3>2 DEF Calls
    <3>5. OnRecord("failed", call.req) => FailedUnstarted(call.req)
      BY <3>1, <3>2 DEF LedgerTellsOneOutcome, OnRecord
    <3>6. \A r : FailedUnstarted(r) => FailedUnstarted(r)'
      BY <1>0, UnstartedStays
    <3>7. posts[call.req] = 0 /\ ~OnRecord("completed", call.req)
      BY <3>1, <3>2
    <3> QED BY <1>0, <2>1, <3>2, <3>3, <3>4, <3>5, <3>6, <3>7
  <2>4. CASE ~WithLedger /\ Goes("post") /\ UNCHANGED log
    <3>1. call'.target = call.target /\ call'.at = "post"
      BY <2>1, <2>4, Going DEF Places, Calls
    <3>2. ~WithLedger' /\ \A r, w : OnRecord(w, r)' <=> OnRecord(w, r)
      BY <1>0, <2>4, <3>1 DEF OnRecord, WithLedger
    <3> QED BY <2>1, <3>1, <3>2
  <2> QED BY <1>5, <2>1, <2>2, <2>3, <2>4, <2>5, Going, Failing DEF Check, Places, Calls
<1>6. CASE Post
  <2>1. call \in Calls /\ call.req \in Requests /\ call.at = "post" /\ UNCHANGED log
    BY <1>6, <1>0, IdleIsNoCall DEF Post, Calls
  <2>2. call'.at = "reply" /\ call'.req = call.req /\ call'.target = call.target
    BY <1>6, <2>1 DEF Post, Calls
  <2>3. CASE WithLedger
    <3>1. OnRecord("started", call.req) /\ posts[call.req] = 0
      BY <2>1, <2>3, IdleIsNoCall
    <3>2. posts' = [posts EXCEPT ![call.req] = 1]
      BY <1>6, <2>3, <3>1, <1>0, <2>1 DEF Post
    <3>3. ~OnRecord("completed", call.req) /\ (OnRecord("failed", call.req) => FailedUnstarted(call.req))
      BY <2>1, <2>3, IdleIsNoCall
    <3>4. \A r : FailedUnstarted(r) => FailedUnstarted(r)'
      BY <1>0, UnstartedStays
    <3>5. \A r, w : OnRecord(w, r)' <=> OnRecord(w, r)
      BY <2>1 DEF OnRecord
    <3> QED BY <1>0, <2>1, <2>2, <3>1, <3>2, <3>3, <3>4, <3>5
  <2>4. CASE ~WithLedger
    <3>1. ~WithLedger' /\ posts' = posts
      BY <1>0, <1>6, <2>2, <2>4 DEF Post, WithLedger
    <3>2. \A r, w : OnRecord(w, r)' <=> OnRecord(w, r)
      BY <2>1 DEF OnRecord
    <3> QED BY <2>2, <3>1, <3>2
  <2> QED BY <2>3, <2>4
<1>7. CASE Reply
  <2>1. call \in Calls /\ call.at = "reply" /\ call # Idle /\ posts' = posts
    BY <1>7, <1>0, IdleIsNoCall DEF Reply
  <2>2. CASE ~WithLedger \/ Stray \/ Silent
    <3>1. UNCHANGED log
      BY <1>7, <2>2 DEF Reply
    <3>2. /\ call'.at \in {"arrived", "answered", "failed", "begin"}
          /\ call'.target = call.target /\ call'.req = call.req
          /\ call'.at = "answered" => ~WithLedger
          /\ call'.at = "arrived" => ~WithLedger \/ AsStream
      BY <1>7, <2>1, <2>2, Going, Failing DEF Reply, Silent, Places, Calls, Answered, Stray
    <3> QED BY <1>0, <2>1, <3>1, <3>2 DEF OnRecord, WithLedger, AsStream
  <2>3. CASE WithLedger /\ ~Stray /\ ~Silent
    <3> DEFINE kind == IF Answered THEN "completed" ELSE "failed"
    <3>1. Note(kind) /\ kind \in {"started", "completed", "failed"}
      BY <1>7, <2>3 DEF Reply
    <3>2. /\ call'.at \in {"arrived", "answered", "failed", "begin"} /\ call'.req = call.req
          /\ call'.at \in {"arrived", "answered"} => kind = "completed"
      BY <1>7, <2>1, <2>3, Going, Failing DEF Reply, Places, Calls, Answered, Stray
    <3>3. kind # "started"
      OBVIOUS
    <3> HIDE DEF kind
    <3>4. \A r, w : w \in {"started", "completed", "failed", "delivered"} =>
             OnRecord(w, r)' <=> (OnRecord(w, r) \/ (w = kind /\ r = call.req))
      BY <3>1, Noted
    <3>5. OnRecord("started", call.req)
      BY <2>1, <2>3
    <3> QED BY <2>1, <3>2, <3>3, <3>4, <3>5
  <2> QED BY <2>2, <2>3
<1>8. CASE StepReturns \/ StepRetries
  <2>1. \A r, w : w \in {"started", "completed", "failed", "delivered"} => OnRecord(w, r)' <=> OnRecord(w, r)
    BY <1>8, OtherRecords DEF StepReturns, StepRetries, OnRecord
  <2>2. (call' = Idle \/ call'.at \in {"failed", "begin"}) /\ posts' = posts
    BY <1>8, <1>0, IdleIsNoCall, Going DEF StepReturns, StepRetries, Places, Calls
  <2> QED BY <2>1, <2>2
<1>11. CASE EndpointCompletes
  <2>1. call \in Calls /\ call.at = "arrived" /\ call # Idle /\ posts' = posts
    BY <1>11, <1>0, IdleIsNoCall DEF EndpointCompletes
  <2>2. call'.at = "answered" /\ call'.req = call.req /\ call'.target = call.target
    BY <1>11, <2>1, Going DEF EndpointCompletes, Places, Calls
  <2>3. CASE WithLedger
    <3>1. Note("delivered")
      BY <1>11, <2>3 DEF EndpointCompletes
    <3>2. /\ \A r : OnRecord("started", r)' <=> OnRecord("started", r)
          /\ \A r : OnRecord("completed", r)' <=> OnRecord("completed", r)
          /\ \A r : OnRecord("delivered", r)' <=> (OnRecord("delivered", r) \/ r = call.req)
      BY <3>1, Noted
    <3>3. OnRecord("completed", call.req) \/ AsStream
      BY <2>1, <2>3
    <3>4. AsStream' <=> AsStream
      BY <1>0, <2>2 DEF AsStream
    <3> QED BY <2>1, <2>2, <3>2, <3>3, <3>4
  <2>4. CASE ~WithLedger
    <3>1. UNCHANGED log /\ ~WithLedger'
      BY <1>0, <1>11, <2>2, <2>4 DEF EndpointCompletes, WithLedger
    <3> QED BY <2>1, <2>2, <3>1 DEF OnRecord
  <2> QED BY <2>3, <2>4
<1>9. CASE CallRaises \/ Restart
  BY <1>9 DEF CallRaises, Restart, OnRecord
<1>10. CASE UNCHANGED vars
  BY <1>10 DEF vars, OnRecord, WithLedger, AsStream, FailedUnstarted
<1> QED
  BY <1>1, <1>2, <1>3, <1>4, <1>5, <1>6, <1>7, <1>8, <1>9, <1>10, <1>11 DEF Next

\* The records of one request tell one outcome.
OneOutcome(r) ==
  /\ OnRecord("completed", r) => OnRecord("started", r)
  /\ OnRecord("failed", r) =>
       (OnRecord("started", r) /\ ~OnRecord("completed", r)) \/ FailedUnstarted(r)
  /\ \A n \in 1 .. MaxAttempts :
       Key("responded", r, n) \in log =>
         \/ OnRecord("completed", r) \/ (r \in setup.streamed /\ OnRecord("delivered", r))
         \/ \E t \in Targets \ setup.ledger : Key("decision", r, t) \in log

LEMMA OutcomesAsRecords == LedgerTellsOneOutcome <=> \A r \in Requests : OneOutcome(r)
BY DEF LedgerTellsOneOutcome, OneOutcome, OnRecord

\* No record is lost, and but for the adapters' and the result none of an outcome comes.
LEMMA OutcomesStay ==
  ASSUME NEW r, OneOutcome(r), log \subseteq log', setup' = setup,
         ~OnRecord("completed", r)' \/ OnRecord("completed", r),
         ~OnRecord("failed", r)' \/ OnRecord("failed", r),
         \A n : Key("responded", r, n) \in log' => Key("responded", r, n) \in log
  PROVE  OneOutcome(r)'
BY UnstartedStays DEF OneOutcome, OnRecord, Key

LEMMA OutcomeStep == ASSUME IInv, [Next]_vars PROVE LedgerTellsOneOutcome'
<1> USE DEF IInv
<1>0. /\ TypeOK /\ (call # Idle => call \in Calls) /\ (\A r \in Requests : OneOutcome(r))
      /\ setup' = setup /\ log \subseteq log'
  BY OutcomesAsRecords, SetupStays DEF TypeOK
<1> SUFFICES ASSUME NEW r \in Requests PROVE OneOutcome(r)'
  BY DEF LedgerTellsOneOutcome, OneOutcome, OnRecord, FailedUnstarted
<1>1. CASE UNCHANGED log
  BY <1>0, <1>1, OutcomesStay DEF OnRecord
<1>2. CASE RecordDecision
  BY <1>0, <1>2, OutcomesStay, KeysDiffer DEF RecordDecision, OnRecord
<1>3. CASE Note("selected")
  BY <1>0, <1>3, OutcomesStay, KeysDiffer DEF Note, OnRecord
<1>4. CASE Note("started")
  BY <1>0, <1>4, OutcomesStay, KeysDiffer DEF Note, OnRecord
<1>9. CASE Note("delivered")
  BY <1>0, <1>9, OutcomesStay, KeysDiffer DEF Note, OnRecord
<1>10. CASE Check /\ Note("failed") /\ WithLedger /\ ~CanStream
  <2>1. call \in Calls /\ call # Idle /\ call.at = "check"
    BY <1>0, <1>10, IdleIsNoCall DEF Check
  <2>2. Key("decision", call.req, call.target) \in log /\ call.target \in Targets
    BY <2>1 DEF CallIsDecided
  <2>3. FailedUnstarted(call.req)
    BY <1>10, <2>2 DEF FailedUnstarted, CanStream, AsStream, WithLedger
  <2>4. /\ OnRecord("started", r)' <=> OnRecord("started", r)
        /\ OnRecord("completed", r)' <=> OnRecord("completed", r)
        /\ OnRecord("delivered", r)' <=> OnRecord("delivered", r)
        /\ OnRecord("failed", r)' <=> (OnRecord("failed", r) \/ r = call.req)
    BY <1>10, Noted
  <2>5. \A n : Key("responded", r, n) \in log' => Key("responded", r, n) \in log
    BY <1>10, KeysDiffer DEF Note
  <2>6. FailedUnstarted(r) \/ r = call.req => FailedUnstarted(r)'
    BY <1>0, <2>3, UnstartedStays
  <2>7. (\E t \in Targets \ setup.ledger : Key("decision", r, t) \in log)
          => (\E t \in Targets \ setup.ledger : Key("decision", r, t) \in log)'
    BY <1>0
  <2>8. OneOutcome(r)
    BY <1>0
  <2> QED BY <1>0, <2>4, <2>5, <2>6, <2>7, <2>8 DEF OneOutcome
<1>5. CASE StepRetries
  BY <1>0, <1>5, OutcomesStay, KeysDiffer DEF StepRetries, OnRecord
<1>6. CASE StepReturns /\ log' # log
  <2>1. call \in Calls /\ call.at = "answered" /\ call # Idle
    BY <1>0, <1>6, IdleIsNoCall DEF StepReturns
  <2>2. log' = log \cup {Key("responded", call.req, call.attempt)}
    BY <1>6 DEF StepReturns
  <2>3. /\ OnRecord("completed", r)' <=> OnRecord("completed", r)
        /\ OnRecord("failed", r)' <=> OnRecord("failed", r)
        /\ OnRecord("started", r)' <=> OnRecord("started", r)
        /\ OnRecord("delivered", r)' <=> OnRecord("delivered", r)
    BY <2>2, OtherRecords
  <2>4. \A n : Key("responded", r, n) \in log' => Key("responded", r, n) \in log \/ r = call.req
    BY <2>2, KeysDiffer
  <2>5. \/ OnRecord("completed", call.req)
        \/ call.req \in setup.streamed /\ OnRecord("delivered", call.req)
        \/ \E t \in Targets \ setup.ledger : Key("decision", call.req, t) \in log
    BY <2>1 DEF CallIsStarted, CallIsDecided, WithLedger, AsStream
  <2>6. OneOutcome(r) /\ (FailedUnstarted(r) => FailedUnstarted(r)')
    BY <1>0, UnstartedStays
  <2> QED BY <1>0, <2>3, <2>4, <2>5, <2>6 DEF OneOutcome
<1>7. CASE Reply /\ log' # log
  <2>1. call \in Calls /\ call.at = "reply" /\ call # Idle
    BY <1>0, <1>7, IdleIsNoCall DEF Reply
  <2>2. WithLedger /\ Note(IF Answered THEN "completed" ELSE "failed")
    BY <1>7 DEF Reply
  <2>3. /\ OnRecord("started", call.req)
        /\ ~OnRecord("completed", call.req)
        /\ OnRecord("failed", call.req) => FailedUnstarted(call.req)
    BY <2>1, <2>2 DEF CallIsStarted
  <2>4. ASSUME NEW kind \in {"completed", "failed"}, Note(kind) PROVE OneOutcome(r)'
    <3>1. \A w : w \in {"started", "completed", "failed", "delivered"} =>
            OnRecord(w, r)' <=> (OnRecord(w, r) \/ (w = kind /\ r = call.req))
      BY <2>4, Noted
    <3>2. \A n : Key("responded", r, n) \in log' => Key("responded", r, n) \in log
      BY <2>4, KeysDiffer DEF Note
    <3>3. log \subseteq log'
      BY <2>4 DEF Note
    <3>4. OneOutcome(r) /\ (FailedUnstarted(r) => FailedUnstarted(r)')
      BY <1>0, UnstartedStays
    <3> QED BY <1>0, <2>3, <3>1, <3>2, <3>3, <3>4 DEF OneOutcome
  <2> QED BY <2>2, <2>4
<1>8. \/ UNCHANGED log \/ RecordDecision \/ StepRetries \/ StepReturns \/ Reply
      \/ Note("selected") \/ Note("started") \/ Note("delivered")
      \/ (Check /\ Note("failed") /\ WithLedger /\ ~CanStream)
  BY DEF Next, vars, Provision, LoadRegistry, Changes, Route, EndpointBegins, LocalBegins, Check,
         Post, EndpointCompletes, CallRaises, Restart
<1> QED BY <1>1, <1>2, <1>3, <1>4, <1>5, <1>6, <1>7, <1>8, <1>9, <1>10
-----------------------------------------------------------------------------
\* Another try is counted before it is sent, and another attempt when the tries of
\* the last one are spent.
LEMMA AnotherAttempt ==
  ASSUME NEW a \in Nat \ {0}, NEW k \in Nat, NEW n \in Nat, NEW s \in Nat,
         n <= k, s <= (a - 1) * k + n
  PROVE  s <= (a + 1 - 1) * k + 1 - 1
<1>1. (a - 1) + 1 = a /\ a - 1 \in Nat /\ a + 1 - 1 = a
  OBVIOUS
<1>2. a * k = (a - 1) * k + k /\ (a - 1) * k \in Nat
  BY <1>1, Times
<1> QED BY <1>1, <1>2

LEMMA SendsStep == ASSUME IInv, [Next]_vars PROVE SendsAreCounted'
<1> USE DEF IInv, SendsAreCounted
<1>0. /\ TypeOK /\ TypeOK' /\ (call.at # "idle" => call \in Calls /\ call # Idle)
      /\ \A r : TriesOf(r)' = TriesOf(r)
  BY TypeStep, SetupStays, IdleIsNoCall DEF TypeOK, TriesOf, Repeatable
<1>1. CASE call' = call
  BY <1>0, <1>1
<1>2. CASE call' = Idle
  BY <1>2
<1>3. CASE \E r \in Requests : Route(r)
  <2>1. call' \in Calls /\ call'.at = "routed" /\ call'.sends = 0 /\ call'.try = 1
        /\ call'.attempt = 1
    BY <1>0, <1>3, Routing
  <2> QED BY <1>0, <2>1, TriesBounds
<1>4. CASE RecordDecision /\ Goes("begin")
  <2>1. call \in Calls /\ call # Idle /\ call.at = "routed"
    BY <1>0, <1>4 DEF RecordDecision
  <2>2. /\ call'.at = "begin" /\ call'.sends = 0 /\ call'.try = 1 /\ call'.attempt = 1
        /\ call'.req = call.req
    BY <1>4, <2>1 DEF Goes, Calls
  <2>3. (1 - 1) * TriesOf(call.req) + 1 - 1 = 0
    BY TriesBounds
  <2> QED BY <1>0, <2>1, <2>2, <2>3, TriesBounds
<1>5. CASE /\ call \in Calls /\ call # Idle /\ call.at # "routed" 
           /\ \E place \in Places \ {"routed"} :
                /\ call' = [call EXCEPT !.at = place]
                /\ call.at \in {"begin", "check"} \/ place \in {"arrived", "answered", "failed"}
  <2>1. PICK place \in Places \ {"routed"} :
                /\ call' = [call EXCEPT !.at = place]
                /\ call.at \in {"begin", "check"} \/ place \in {"arrived", "answered", "failed"}
    BY <1>5
  <2>2. /\ call'.at = place /\ call'.req = call.req /\ call'.sends = call.sends
        /\ call'.try = call.try /\ call'.attempt = call.attempt
    BY <1>5, <2>1 DEF Calls
  <2>3. call.sends \in Nat /\ call.try \in Nat /\ call.attempt - 1 \in Nat
    BY <1>5, Bounds DEF Calls
  <2>4. (call.attempt - 1) * TriesOf(call.req) \in Nat
    BY <2>3, TriesBounds
  <2>5. call.sends <= (call.attempt - 1) * TriesOf(call.req) + call.try
    BY <1>5, <2>3, <2>4 DEF Places, Calls
  <2>6. (call'.attempt - 1) * TriesOf(call'.req) = (call.attempt - 1) * TriesOf(call.req)
    BY <2>2
  <2>7. call.try <= TriesOf(call.req)
    BY <1>5
  <2>8. CASE place \in {"arrived", "answered", "failed", "reply"}
    BY <1>0, <2>2, <2>5, <2>6, <2>7, <2>8
  <2>9. CASE place \in {"begin", "check", "post"}
    <3>1. call.sends <= (call.attempt - 1) * TriesOf(call.req) + call.try - 1
      BY <1>5, <2>1, <2>9
    <3> QED BY <1>0, <2>2, <2>6, <2>7, <2>9, <3>1
  <2> QED BY <2>1, <2>8, <2>9 DEF Places
<1>6. CASE /\ call \in Calls /\ call.at \in {"check", "reply"}
           /\ call' = [call EXCEPT !.at = "begin", !.try = @ + 1]
           /\ call.try < Tries(call.req, call.target)
  <2>1. /\ call'.at = "begin" /\ call'.req = call.req /\ call'.sends = call.sends
        /\ call'.try = call.try + 1 /\ call'.attempt = call.attempt
    BY <1>6 DEF Calls
  <2>2. call.sends \in Nat /\ call.try \in Nat /\ call.attempt - 1 \in Nat /\ call # Idle
    BY <1>6, Bounds, IdleIsNoCall DEF Calls
  <2>3. (call.attempt - 1) * TriesOf(call.req) \in Nat
    BY <2>2, TriesBounds
  <2>4. call.try + 1 <= TriesOf(call.req)
    BY <1>6, <2>2, TriesWithin, TriesBounds
  <2>5. call.sends <= (call.attempt - 1) * TriesOf(call.req) + call.try
    BY <1>6, <2>2, <2>3
  <2> QED BY <1>0, <2>1, <2>2, <2>3, <2>4, <2>5
<1>7. CASE Post
  <2>1. call \in Calls /\ call.at = "post" /\ call # Idle
    BY <1>0, <1>7 DEF Post
  <2>2. /\ call'.at = "reply" /\ call'.req = call.req /\ call'.sends = call.sends + 1
        /\ call'.try = call.try /\ call'.attempt = call.attempt
    BY <1>7, <2>1 DEF Post, Calls
  <2>3. call.sends \in Nat /\ call.try \in Nat /\ call.attempt - 1 \in Nat
    BY <2>1, Bounds DEF Calls
  <2>4. (call.attempt - 1) * TriesOf(call.req) \in Nat
    BY <2>3, TriesBounds
  <2> QED BY <1>0, <2>1, <2>2, <2>3, <2>4
<1>8. CASE StepRetries /\ ~LastAttempt
  <2>1. call \in Calls /\ call.at = "failed" /\ call # Idle
    BY <1>0, <1>8 DEF StepRetries
  <2>2. /\ call'.at = "begin" /\ call'.req = call.req /\ call'.sends = call.sends
        /\ call'.try = 1 /\ call'.attempt = call.attempt + 1
    BY <1>8, <2>1 DEF StepRetries, Calls
  <2>3. call.sends \in Nat /\ call.try \in Nat /\ call.attempt \in Nat \ {0}
    BY <2>1, Bounds DEF Calls
  <2>4. call.sends <= (call.attempt + 1 - 1) * TriesOf(call.req) + 1 - 1
    BY <2>1, <2>3, TriesBounds, AnotherAttempt
  <2>5. (call'.attempt - 1) * TriesOf(call'.req) = (call.attempt + 1 - 1) * TriesOf(call.req)
    BY <2>2, <2>3, TriesBounds
  <2>6. 1 <= TriesOf(call.req) /\ (call.attempt + 1 - 1) * TriesOf(call.req) \in Nat
    BY <2>3, TriesBounds
  <2>7. call'.sends <= (call'.attempt - 1) * TriesOf(call'.req) + call'.try - 1
    BY <2>2, <2>3, <2>4, <2>5, <2>6
  <2> QED BY <1>0, <2>2, <2>6, <2>7
<1>9. CASE EndpointBegins \/ LocalBegins \/ Check \/ Reply \/ EndpointCompletes \/ StepReturns
  <2>1. call \in Calls /\ call # Idle /\ call.at # "routed"
    BY <1>0, <1>9, Within DEF InCall
  <2>2. CASE EndpointBegins \/ LocalBegins
    BY <1>5, <2>1, <2>2 DEF EndpointBegins, LocalBegins, Goes, Places
  <2>3. CASE Check
    BY <1>5, <1>6, <2>1, <2>3, Failing DEF Check, Goes, Places
  <2>4. CASE Reply
    BY <1>5, <1>6, <2>1, <2>4, Failing DEF Reply, Goes, Places
  <2>5. CASE StepReturns \/ EndpointCompletes
    BY <1>2, <1>5, <2>1, <2>5 DEF StepReturns, EndpointCompletes, Goes, Places
  <2> QED BY <1>9, <2>2, <2>3, <2>4, <2>5
<1>10. \/ call' = call \/ call' = Idle \/ (\E r \in Requests : Route(r))
       \/ (RecordDecision /\ Goes("begin")) \/ Post \/ (StepRetries /\ ~LastAttempt)
       \/ EndpointBegins \/ LocalBegins \/ Check \/ Reply \/ EndpointCompletes \/ StepReturns
  BY DEF Next, vars, Provision, LoadRegistry, Changes, RecordDecision, StepRetries, CallRaises,
         Restart
<1> QED BY <1>1, <1>2, <1>3, <1>4, <1>7, <1>8, <1>9, <1>10
-----------------------------------------------------------------------------
\* A turn that keeps to a route that is up leaves it as it is.
LEMMA LeftStep == ASSUME IInv, [Next]_vars PROVE RouteIsLeft'
<1> USE DEF IInv, RouteIsLeft
<1>1. CASE UNCHANGED routes
  BY <1>1 DEF routes
<1>2. CASE Restart
  BY <1>2 DEF Restart
<1>3. CASE \E r \in Requests : Route(r)
  <2>1. PICK r \in Requests : Route(r)
    BY <1>3
  <2>2. Stage[r] \in Stages /\ TypeOK
    BY DEF Stages
  <2>3. CASE Escalates(r) \/ UNCHANGED sticky
    BY <2>1, <2>2, <2>3 DEF Route, TypeOK
  <2>4. CASE ~Escalates(r) /\ KeepsHeld(r) /\ (left[Stage[r]] = None \/ IsOut(left[Stage[r]]))
    <3>1. left'[Stage[r]] = None /\ \A s \in Stages \ {Stage[r]} : left'[s] = left[s]
      BY <2>1, <2>2, <2>4 DEF Route, TypeOK
    <3>2. \A s \in Stages \ {Stage[r]} : sticky'[s] = sticky[s]
      BY <2>1, <2>2 DEF Route, TypeOK
    <3> QED BY <3>1, <3>2
  <2>5. CASE ~Escalates(r) /\ KeepsHeld(r) /\ left[Stage[r]] # None /\ ~IsOut(left[Stage[r]])
    <3>1. Held(r) # None /\ condition[Held(r)] = "ready" /\ <<Held(r), r>> \in Scope
      BY <2>2, <2>5 DEF Held, IsOut, KeepsHeld, Candidates, Matches
    <3>2. Chosen(r) = {Held(r)}
      BY <2>2, <2>5, <3>1, HeldIsChosen
    <3>3. sticky' = sticky
      BY <2>1, <2>2, <3>2 DEF Route, Held, TypeOK
    <3>4. left' = left
      BY <2>1, <2>5 DEF Route
    <3> QED BY <3>3, <3>4
  <2> QED BY <2>1, <2>3, <2>4, <2>5 DEF Route
<1> QED BY <1>1, <1>2, <1>3, Within
    DEF Next, InCall, vars, routes, Provision, LoadRegistry, Changes, RecordDecision, EndpointBegins,
        LocalBegins, Check, Post, Reply, EndpointCompletes, StepReturns, StepRetries, CallRaises
-----------------------------------------------------------------------------
LEMMA Inductive == ASSUME IInv, [Next]_vars PROVE IInv'
<1>1. TypeOK
  BY DEF IInv
<1> QED BY <1>1, TypeStep, DecidedStep, StartedStep, SendsStep, OutcomeStep, LeftStep DEF IInv

\* The strengthening of every invariant below is one of the task's model calls.
THEOREM Invariance == Spec => []IInv
<1>1. Init => IInv
  BY Initially
<1>2. IInv /\ [Next]_vars => IInv'
  BY Inductive
<1> QED BY <1>1, <1>2, PTL DEF Spec

\* Type correctness: the call in progress has the form execute_model_call gives it,
\* and its attempts and tries stay in their ranges.
THEOREM TypeCorrectness == Spec => []TypeOK
<1>1. IInv => TypeOK
  BY DEF IInv
<1> QED BY <1>1, Invariance, PTL

\* execute_model_call asks a backend only under a decision on record that names it,
\* from a registry that was sound when it was loaded.
THEOREM BackendsAreAskedUnderADecision == Spec => []AskedUnderADecision
<1>1. IInv => AskedUnderADecision
  BY DEF IInv, CallIsDecided, AskedUnderADecision
<1> QED BY <1>1, Invariance, PTL

\* An adapter with the ledger sends a request once, whoever repeats it, and any
\* other call stays within its attempts, times the tries an endpoint makes of a
\* request its profile lets it repeat, and of no stream.
THEOREM SendsStayBounded == Spec => []SendsAreBounded
<1>1. ASSUME IInv PROVE SendsAreBounded
  <2>1. ASSUME call # Idle, call.target # None
        PROVE  call.sends <= MaxAttempts * TriesOf(call.req)
    <3>1. call \in Calls
      BY <1>1, <2>1 DEF IInv, TypeOK
    <3>2. /\ call.attempt \in Nat /\ call.attempt - 1 \in Nat /\ call.attempt <= MaxAttempts
          /\ call.sends \in Nat /\ call.try \in Nat /\ MaxAttempts \in Nat
      BY <3>1, Bounds DEF Calls
    <3>3. /\ (call.attempt - 1) * TriesOf(call.req) \in Nat
          /\ call.attempt * TriesOf(call.req) \in Nat
          /\ MaxAttempts * TriesOf(call.req) \in Nat
      BY <3>2, TriesBounds, Times
    <3>4. call.attempt * TriesOf(call.req) = (call.attempt - 1) * TriesOf(call.req) + TriesOf(call.req)
      <4>1. (call.attempt - 1) + 1 = call.attempt
        BY <3>2
      <4> QED BY <4>1, <3>2, TriesBounds, Times
    <3>5. call.attempt * TriesOf(call.req) <= MaxAttempts * TriesOf(call.req)
      BY <3>2, TriesBounds, TimesGrows
    <3>6. call.sends <= (call.attempt - 1) * TriesOf(call.req) + call.try
      BY <1>1, <2>1, <3>1, <3>2, <3>3 DEF IInv, SendsAreCounted, Calls, Places
    <3>7. call.try <= TriesOf(call.req)
      BY <1>1, <2>1 DEF IInv, SendsAreCounted
    <3> QED BY <3>2, <3>3, <3>4, <3>5, <3>6, <3>7, TriesBounds
  <2> QED BY <1>1, <2>1 DEF IInv, CallIsStarted, SendsAreBounded, TriesOf
<1> QED BY <1>1, Invariance, PTL

\* The ledger tells one outcome of a call that was started, but for a stream that
\* some backend could not give; and a result only of a call that was completed or
\* delivered there, or made without the ledger.
THEOREM OutcomesAreUnique == Spec => []LedgerTellsOneOutcome
<1>1. IInv => LedgerTellsOneOutcome
  BY DEF IInv
<1> QED BY <1>1, Invariance, PTL

\* From an escalation until a turn of its stage finds its target out, the turns of
\* the stage that do not escalate go to that target.
THEOREM RoutesAreHeld == Spec => EscalationIsKept
<1>1. ASSUME IInv, [Next]_vars, NEW r \in Requests,
             call = Idle, call' # Idle, call'.req = r, ~Escalates(r), left[Stage[r]] # None,
             <<left[Stage[r]], r>> \in Scope, condition[left[Stage[r]]] = "ready"
      PROVE  call'.target = left[Stage[r]]
  <2>1. TypeOK /\ Held(r) = left[Stage[r]]
    BY <1>1 DEF IInv, RouteIsLeft, Held, Stages
  <2>2. \E q \in Requests : Route(q)
    BY <1>1, IdleIsNoCall
       DEF Next, vars, Provision, LoadRegistry, Changes, RecordDecision, EndpointBegins,
           LocalBegins, Check, Post, Reply, EndpointCompletes, StepReturns, StepRetries,
           CallRaises, Restart
  <2>3. Route(r)
    BY <1>1, <2>1, <2>2, Routing
  <2> QED BY <1>1, <2>1, <2>3, HeldIsChosen, Routing
<1>2. IInv /\ [Next]_vars => [\A r \in Requests : KeepsTheRoute(r)]_vars
  BY <1>1 DEF KeepsTheRoute
<1> QED BY <1>2, Invariance, PTL DEF Spec, EscalationIsKept
=============================================================================
