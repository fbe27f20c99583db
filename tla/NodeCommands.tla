---------------------------- MODULE NodeCommands ----------------------------
(***************************************************************************)
(* The Node's task API (src/airbench/node: api.py, server.py and the two    *)
(* gateways) and the commands its clients send it (apps/desktop: App.tsx    *)
(* and the command builders).                                              *)
(*                                                                         *)
(* The Node serves one request at a time under its lock, from a ledger      *)
(* that outlives it and that its other parts write to without that lock: a  *)
(* restart loses the request in progress and nothing else.  A command that  *)
(* was sent arrives never, once or several times, also after its client     *)
(* gave it up; its answer may be lost.  The desktop acts on what it last    *)
(* read, which may be any earlier state of the task.                        *)
(***************************************************************************)
EXTENDS Naturals, Sequences, FiniteSets

CONSTANTS Tasks,      \* task ids: each stands for one request of the operator
          Emits,      \* the kinds of event the Node's other parts write
          MaxEvents,  \* bound: the events of each task's stream
          MaxUploads, \* bound: a stream as long as this has no more uploads and reads
          MaxClicks,  \* bound: the commands the operator issues
          MaxRetries  \* bound: the commands sent again for a later sequence

ASSUME CommandAssumption == MaxEvents \in [Tasks -> Nat]

VARIABLES
  stream,   \* the Node: the events of each task, in the ledger
  wire,     \* the commands sent to the Node
  said,     \* the answers the Node gave, each with its command
  serving,  \* the command the Node is at, and how far it is with it
  clicks,   \* how many commands the desktop has issued
  asked,    \* desktop: the command each handler waits for
  start,    \* startTask: its task, its step, the sequence it goes by
  view,     \* taskProjection: its task and lastAppliedSequence
  review    \* planReview

node == <<stream, wire, said, serving>>
shown == <<view, review>>
vars == <<node, clicks, asked, start, shown>>

NoTask == "no task"
NoCommand == [key |-> 0]
Nobody == [cmd |-> NoCommand, step |-> "none"]
NoStart == [task |-> NoTask, step |-> "none", asOf |-> 0]
NoView == [task |-> NoTask, seq |-> 0]
NoReview == [task |-> NoTask, seq |-> 0, state |-> "none"]

Init ==
  /\ stream = [t \in Tasks |-> <<>>]
  /\ wire = {} /\ said = {} /\ serving = Nobody /\ clicks = 0
  /\ asked = [h \in {"start", "approve", "stop"} |-> NoCommand]
  /\ start = NoStart /\ view = NoView /\ review = NoReview
-----------------------------------------------------------------------------
(* The Node.                                                               *)

Has(s, kind) == \E i \in 1..Len(s) : s[i].kind = kind

\* Orchestrator.state, as far as a command or an event depends on it: the last
\* event that moves it decides, also one that was appended late.
TargetOf ==
  [authorized |-> "authorized", plan |-> "planned", approved |-> "planned",
   checked |-> "deliverable_verified", review |-> "awaiting_review",
   completed |-> "ended", failed |-> "ended", stopped |-> "ended"]

IsLastMove(s, i) ==
  /\ s[i].kind \in DOMAIN TargetOf
  /\ \A j \in (i + 1)..Len(s) : s[j].kind \notin DOMAIN TargetOf

StateOf(s) ==
  IF s = <<>> THEN "absent"
  ELSE IF \E i \in 1..Len(s) : IsLastMove(s, i)
       THEN TargetOf[s[CHOOSE i \in 1..Len(s) : IsLastMove(s, i)].kind] ELSE "created"

\* The admission of the last resource plan decides whether a plan is approvable.
Admission(s) ==
  LET resources == {i \in 1..Len(s) : s[i].kind \in {"admitted", "degraded"}}
  IN IF resources = {} THEN "missing"
     ELSE s[CHOOSE i \in resources : \A j \in resources : j <= i].kind

PlanState(s) ==
  IF ~Has(s, "plan") THEN "not_ready" ELSE IF Admission(s) = "admitted" THEN "ready" ELSE "needs_review"

Plan(t) == [task |-> t, seq |-> Len(stream[t]), state |-> PlanState(stream[t])]
AsOfSequence(t) == Len(stream[t])

MayCreate(s) == StateOf(s) = "absent"
MayAuthorize(s) == StateOf(s) = "created"
MayApprove(s) == StateOf(s) = "planned" /\ PlanState(s) = "ready"
MayStop(s) == StateOf(s) \notin {"absent", "ended", "deliverable_verified"}
MayReview(s) == StateOf(s) \in {"deliverable_verified", "awaiting_review"}

Allowed(type, s) ==
  \/ type = "created" /\ MayCreate(s)
  \/ type = "authorized" /\ MayAuthorize(s)
  \/ type = "approved" /\ MayApprove(s)
  \/ type = "stopped" /\ MayStop(s)
  \/ type = "review" /\ MayReview(s)

\* _existing_command: the events recorded under a key, in whatever stream.
RecordedUnder(key) ==
  {e \in UNION {{stream[t][i] : i \in 1..Len(stream[t])} : t \in Tasks} : e.cmd.key = key}

Known(c) == RecordedUnder(c.key)

\* _check_expected_sequence, and its absence from task.create
SequenceNotAhead(c) == c.type = "created" \/ c.expected <= Len(stream[c.task])  \* a mutant
SequenceMatches(c) == c.type = "created" \/ c.expected = Len(stream[c.task])

ReplaysAnyContent(c) == Known(c) # {}                                \* a mutant
Replays(c) == \E e \in Known(c) : e.cmd = c

SequenceFirst(c) ==                                                  \* a mutant
  IF ~SequenceMatches(c) THEN "refused" ELSE IF Replays(c) THEN "accepted" ELSE "proceeds"
\* First what the key did before, then the sequence.
AnswerTo(c) ==
  IF Known(c) = {} /\ SequenceMatches(c) THEN "proceeds"
  ELSE IF Replays(c) THEN "accepted" ELSE "refused"

HasRoom(t) == Len(stream[t]) < MaxEvents[t]

\* EventLedger._check_transition: what a task that has ended still takes.
TakenAfterTheEnd == {"review", "previewed", "downloaded"}
Takes(t, kind) == StateOf(stream[t]) = "ended" => kind \in TakenAfterTheEnd
Record(t, kind, c) == stream' = [stream EXCEPT ![t] = Append(@, [kind |-> kind, cmd |-> c])]

Answers(answer, c) == said' = said \cup {<<answer, c>>}

ReceiveCommand(c) ==
  /\ c \in wire /\ serving = Nobody
  /\ IF AnswerTo(c) = "proceeds"
     THEN serving' = [cmd |-> c, step |-> "checked"] /\ UNCHANGED said
     ELSE Answers(AnswerTo(c), c) /\ UNCHANGED serving
  /\ UNCHANGED <<stream, wire, clicks, asked, start, shown>>

\* The plan and the task's state, which may have changed since the sequence was read.
DecideCommand ==
  LET c == serving.cmd IN
  /\ serving.step = "checked"
  /\ IF Allowed(c.type, stream[c.task])
     THEN serving' = [serving EXCEPT !.step = "allowed"] /\ UNCHANGED said
     ELSE serving' = Nobody /\ Answers("rejected", c)
  /\ UNCHANGED <<stream, wire, clicks, asked, start, shown>>

\* The transitions after which the state is saved, which may fail in its turn.
Checkpointed == {"authorized", "approved", "review"}

\* The append, and a 503 when it or the checkpoint after it fails.  A 503 comes
\* with the command recorded or not, so it tells its sender nothing: `said` has none.
CommitCommand ==
  LET c == serving.cmd IN
  /\ serving.step = "allowed" /\ serving' = Nobody
  /\ \/ /\ HasRoom(c.task) /\ Takes(c.task, c.type) /\ Record(c.task, c.type, c)
        /\ Answers("accepted", c) \/ (c.type \in Checkpointed /\ UNCHANGED said)
     \/ UNCHANGED <<stream, said>>
  /\ UNCHANGED <<wire, clicks, asked, start, shown>>

Restart ==
  /\ serving # Nobody /\ serving' = Nobody
  /\ UNCHANGED <<stream, wire, said, clicks, asked, start, shown>>

\* A client sends a command again under its key, for the stream as it is now.
RebuildCommand(c) ==
  /\ c \in wire /\ c.type # "created"
  /\ c.expected < Len(stream[c.task])
  /\ Cardinality(wire) < clicks + MaxRetries
  /\ wire' = wire \cup {[c EXCEPT !.expected = Len(stream[c.task])]}
  /\ UNCHANGED <<stream, said, serving, clicks, asked, start, shown>>

Writes(t, kind) ==
  /\ kind \in Emits /\ HasRoom(t) /\ Takes(t, kind)
  /\ Record(t, kind, NoCommand)
  /\ UNCHANGED <<wire, said, serving, clicks, asked, start, shown>>

\* The orchestrator, the scheduler and the runtime write to the stream.
\* "checked" stands for the run of a plan up to its passed verification.
MayWrite(s, kind) ==
  \/ kind = "plan" /\ StateOf(s) = "authorized"
  \/ kind \in {"admitted", "degraded"} /\ Has(s, "plan") /\ StateOf(s) # "ended"
  \/ kind = "checked" /\ StateOf(s) = "planned"
  \/ kind = "completed" /\ StateOf(s) = "deliverable_verified"
  \/ kind = "failed" /\ MayStop(s)

Work(t, kind) == MayWrite(stream[t], kind) /\ Writes(t, kind)

\* An upload, and the first preview or download of what was uploaded, are
\* events of the task too, the reads also when it has ended; the Node serves
\* them under its lock.
QueryUpload(t) ==
  /\ serving = Nobody
  /\ stream[t] # <<>> /\ ~Has(stream[t], "upload")
  /\ Len(stream[t]) < MaxUploads
  /\ Writes(t, "upload")

RecordAccess(t, kind) ==
  /\ kind \in {"previewed", "downloaded"} /\ serving = Nobody
  /\ Has(stream[t], "upload") /\ ~Has(stream[t], kind)
  /\ Len(stream[t]) < MaxUploads
  /\ Writes(t, kind)
-----------------------------------------------------------------------------
(* The desktop.                                                            *)

Command(key, type, t, expected) ==
  [key |-> key, type |-> type, task |-> t, expected |-> expected]

\* Every click has a command of its own, with a key of its own.
Issue(handler, type, t, expected) ==
  LET c == Command(clicks + 1, type, t, expected)
  IN /\ clicks < MaxClicks
     /\ asked[handler] = NoCommand
     /\ clicks' = clicks + 1
     /\ asked' = [asked EXCEPT ![handler] = c]
     /\ wire' = wire \cup {c}
     /\ UNCHANGED <<stream, said, serving>>

Settles(handler) ==
  /\ asked[handler] # NoCommand
  /\ asked' = [asked EXCEPT ![handler] = NoCommand]

Accepted(handler) == Settles(handler) /\ <<"accepted", asked[handler]>> \in said
\* Refused, or given up: then it may still arrive, or be in the ledger already.
Fails(handler) == Settles(handler)

\* startTask: create, upload and read, authorize, read, read the plan.  The
\* Node names the task: t is the name it will give to this request.
StartTask(t) ==
  /\ start = NoStart
  /\ \A c \in wire : c.task # t
  /\ Issue("start", "created", t, 0)
  /\ start' = [task |-> t, step |-> "create", asOf |-> 0]
  /\ review' = NoReview
  /\ UNCHANGED view

GoesTo(step, asOf) == start' = [start EXCEPT !.step = step, !.asOf = asOf]

TaskCreated ==
  /\ start.step = "create"
  /\ \/ Accepted("start") /\ GoesTo("read", 1)
     \/ Fails("start") /\ start' = NoStart
  /\ UNCHANGED <<node, clicks, shown>>

\* When the snapshot after the upload cannot be read, the first one is used.
Authorize ==
  /\ start.step = "read"
  /\ \E asOf \in {start.asOf, AsOfSequence(start.task)} :
       /\ Issue("start", "authorized", start.task, asOf)
       /\ GoesTo("authorize", asOf)
  /\ UNCHANGED shown

\* The upload returned no manifest: authorization is paused.
UploadFails ==
  /\ start.step = "read"
  /\ start' = NoStart
  /\ UNCHANGED <<node, clicks, asked, shown>>

TaskAuthorized ==
  /\ start.step = "authorize"
  /\ \/ Accepted("start") /\ GoesTo("plan", AsOfSequence(start.task))
     \/ Fails("start") /\ start' = NoStart
  /\ UNCHANGED <<node, clicks, shown>>

ReadPlan ==
  /\ start.step = "plan"
  /\ review' \in {NoReview, Plan(start.task)}
  /\ view' = [task |-> start.task, seq |-> start.asOf]
  /\ start' = NoStart
  /\ UNCHANGED <<node, clicks, asked>>

\* A synchronization brings the view up to what the stream holds (TaskSync).
Synchronize ==
  /\ view # NoView
  /\ view' = [view EXCEPT !.seq = Len(stream[view.task])]
  /\ UNCHANGED <<node, clicks, asked, start, review>>

ReviewIsCurrent == review.state = "ready" /\ review.seq = view.seq

ApprovePlan ==
  /\ view # NoView /\ ReviewIsCurrent
  /\ Issue("approve", "approved", review.task, review.seq)
  /\ UNCHANGED <<start, shown>>

StopTask ==
  /\ view # NoView
  /\ Issue("stop", "stopped", view.task, view.seq)
  /\ UNCHANGED <<start, shown>>

\* No button of the desktop asks for a review; another client of the API may.
RequestReview(t) ==
  /\ stream[t] # <<>>
  /\ Issue("stop", "review", t, Len(stream[t]))
  /\ UNCHANGED <<start, shown>>

CommandSettled ==
  /\ Fails("approve") \/ Fails("stop")
  /\ UNCHANGED <<node, clicks, start, shown>>

Next ==
  \/ \E c \in wire : ReceiveCommand(c) \/ RebuildCommand(c)
  \/ DecideCommand \/ CommitCommand \/ Restart
  \/ \E t \in Tasks, k \in Emits : Work(t, k) \/ RecordAccess(t, k)
  \/ \E t \in Tasks : QueryUpload(t) \/ StartTask(t) \/ RequestReview(t)
  \/ TaskCreated \/ Authorize \/ UploadFails \/ TaskAuthorized \/ ReadPlan
  \/ Synchronize \/ ApprovePlan \/ StopTask \/ CommandSettled

Spec == Init /\ [][Next]_vars
-----------------------------------------------------------------------------
(* Properties.                                                             *)

Recorded(c) == \E t \in Tasks : \E i \in 1..Len(stream[t]) : stream[t][i].cmd = c

\* A key is recorded once at most, however often its commands arrive and
\* whatever changed in between; a client told that its command was accepted
\* finds that very command in the ledger.
OncePerKey ==
  /\ \A t \in Tasks, u \in Tasks : \A i \in 1..Len(stream[t]), j \in 1..Len(stream[u]) :
       stream[t][i].cmd.key = stream[u][j].cmd.key /\ stream[t][i].cmd # NoCommand
         => t = u /\ i = j
  /\ \A c \in wire : <<"accepted", c>> \in said => Recorded(c)

\* A command refused as stale, or for its key, is never carried out.  One that
\* was rejected for the task's state may be, but only by a copy that was past its
\* sequence check when another part of the Node wrote to the stream.
RefusedForGood ==
  \A c \in wire :
    /\ <<"refused", c>> \in said => ~Recorded(c)
    /\ <<"rejected", c>> \in said =>
         \A t \in Tasks : \A i \in 1..Len(stream[t]) :
           stream[t][i].cmd = c => c.type # "created" /\ c.expected + 1 < i

\* What no client asks for, nor an upload or a preview.
OfItsParts == {"plan", "admitted", "degraded", "checked", "completed", "failed"}

\* Between what the operator of a command saw of a task and the command stands
\* no other command, nothing of the Node's API, and only what its other parts
\* wrote while it was served; a plan is approved that was approvable then.
ActsOnWhatWasSeen ==
  \A t \in Tasks : \A i \in 1..Len(stream[t]) :
    LET c == stream[t][i].cmd IN
    /\ c # NoCommand /\ c.type # "created" =>
         /\ c.task = t /\ c.expected < i
         /\ \A j \in (c.expected + 1)..(i - 1) : stream[t][j].kind \in OfItsParts
    /\ stream[t][i].kind = "approved" =>
         \E n \in c.expected..(i - 1) : PlanState(SubSeq(stream[t], 1, n)) = "ready"
=============================================================================
