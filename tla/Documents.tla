------------------------------ MODULE Documents ------------------------------
(***************************************************************************)
(* The documents of one task: source files taken in (src/src/airbench/     *)
(* intake/layer.py), the verification of facts (verification/runner.py),   *)
(* the deliverable rendered from them (delivery/engine.py), and the Node's *)
(* gateways that take uploads and serve both (node/intake_gateway.py and   *)
(* deliverable_gateway.py).                                                *)
(*                                                                         *)
(* The Node serves one call at a time.  One run at a time verifies and     *)
(* renders, on a thread of its own; both append to one ledger.  An append  *)
(* or a file operation is one step, so that a crash, a refusal by the      *)
(* ledger or the end of the task may come between any two.                 *)
(***************************************************************************)
EXTENDS Integers

CONSTANTS
  Uploads,         \* the source files sent for the task, by identity
  Rules,           \* the rules of the task's one verification request
  Inspected,       \* whether the template requires a visual check
  MaxRenderings,   \* bound: documents rendered; each has bytes of its own
  MaxCrashes,      \* bound: restarts of the process
  StorageMayFail,  \* whether a ledger append or a file write may fail
  Deliverable,     \* the rendered document, among the documents served
  None, Damaged    \* model values: nothing there; bytes that changed on disk

ASSUME DocumentsAssumption ==
  /\ Rules # {} /\ MaxRenderings \in Nat \ {0} /\ MaxCrashes \in Nat
  /\ Inspected \in BOOLEAN /\ StorageMayFail \in BOOLEAN
  /\ Deliverable \notin Uploads /\ None # Damaged
  /\ {None, Damaged} \cap (Nat \cup Uploads) = {}

Bytes == 1 .. MaxRenderings

\* What a rule finds in its facts: they are not there, above the request's
\* clearance, below the confidence floor, not to be evaluated; or they break
\* the rule, or satisfy it.  None: the time was up before.
Findings == {"missing", "above", "doubtful", "unreadable", "broken", "holds"}
Outcomes == {"passed", "failed", "needs_review"}
Visuals  == IF Inspected THEN {"passed", "unavailable", "failed"} ELSE {"not_required"}

\* The payloads of verification.completed and of artifact.checked.
Verdicts == [outcome : Outcomes, checks : [Rules -> Findings \cup {None}]]
Checks   == [bytes : Bytes, visual : Visuals]

ASSUME NoneIsNoPayload == None \notin Verdicts \cup Checks

VARIABLES
  task,        \* the task's state, as Orchestrator.state folds it
  evidence,    \* the uploads with an evidence.created event
  requested,   \* whether verification.requested is in the ledger
  verdict,     \* verification.completed: its outcome and checks, or None
  staged,      \* artifact.staged: the bytes it tells, or None
  checked,     \* artifact.checked: the bytes it tells and the visual check, or None
  accessed,    \* the documents with a download record in the ledger
  stored,      \* the source in each upload's directory, itself while intact, or None
  file,        \* the bytes of the deliverable's file, or None
  call,        \* the upload the Node works on, and how far it is
  run,         \* the run that verifies and renders, and what it holds
  rendered,    \* documents rendered so far
  served,      \* the documents and bytes given to clients so far
  crashes      \* restarts so far

ledger == <<task, evidence, requested, verdict, staged, checked, accessed>>
files  == <<stored, file>>
vars   == <<ledger, files, call, run, rendered, served, crashes>>

TaskStates == {"executing", "deliverable_verified", "blocked", "needs_review",
               "rendering", "awaiting_review", "ended"}

NoCall == [at |-> "idle", of |-> None]
NoRun  == [at |-> "idle", verdict |-> None, bytes |-> None, visual |-> None]

Init ==
  /\ task = "executing" /\ evidence = {} /\ requested = FALSE
  /\ verdict = None /\ staged = None /\ checked = None /\ accessed = {}
  /\ stored = [u \in Uploads |-> None] /\ file = None
  /\ call = NoCall /\ run = NoRun /\ rendered = 0
  /\ served = {} /\ crashes = 0

\* The ledger takes no consequential event of an ended task.
Takes   == task # "ended"
Refuses == task = "ended" \/ StorageMayFail
-----------------------------------------------------------------------------
(* FileIntakeLayer.intake, called by LocalNodeIntakeGateway.query_upload.  *)

\* LocalIntakeStore.load finds no manifest.  A stored upload is answered as it
\* is, or with an error if its source has changed.
Unknown(u) == stored[u] = None

\* LocalIntakeStore.stage: the files are prepared in a directory of their own.
Prepared(u) == [at |-> "staged", of |-> u]

\* A new upload is parsed; one the parser refuses changes nothing.
StageUpload(u) ==
  /\ call = NoCall /\ Unknown(u)
  /\ call' = Prepared(u)
  /\ UNCHANGED <<ledger, files, run, rendered, served, crashes>>

\* _append_evidence_event: an upload recorded before is not recorded again.
RecordEvidence ==
  /\ call.at = "staged" /\ (call.of \in evidence \/ Takes)
  /\ evidence' = evidence \cup {call.of}
  /\ call' = [call EXCEPT !.at = "recorded"]
  /\ UNCHANGED <<task, requested, verdict, staged, checked, accessed, files, run, rendered,
                 served, crashes>>

\* The stage is aborted when the evidence cannot be recorded.
EvidenceRefused ==
  /\ call.at = "staged" /\ call.of \notin evidence /\ Refuses
  /\ call' = NoCall
  /\ UNCHANGED <<ledger, files, run, rendered, served, crashes>>

Committable      == call.at = "recorded"

\* _LocalIntakeStage.commit: the directory is renamed into its place, or removed.
CommitUpload ==
  /\ Committable
  /\ \/ stored' = [stored EXCEPT ![call.of] = call.of]
     \/ StorageMayFail /\ UNCHANGED stored
  /\ call' = NoCall
  /\ UNCHANGED <<ledger, file, run, rendered, served, crashes>>
-----------------------------------------------------------------------------
(* VerificationRunner.run.                                                 *)

\* The order in which _evaluate weighs what the rules found; an unreached rule
\* counts as time-out.
OutcomeOfReached(checks) ==                                                \* a mutant
  IF \E r \in Rules : checks[r] = "above" THEN "needs_review"
  ELSE IF \E r \in Rules : checks[r] = "broken" THEN "failed"
  ELSE IF \A r \in Rules : checks[r] \in {"holds", None} THEN "passed"
  ELSE "needs_review"
OutcomeOf(checks) ==
  IF \E r \in Rules : checks[r] \in {None, "above"} THEN "needs_review"
  ELSE IF \E r \in Rules : checks[r] = "broken" THEN "failed"
  ELSE IF \A r \in Rules : checks[r] = "holds" THEN "passed"
  ELSE "needs_review"

StateAfter == [passed |-> "deliverable_verified", failed |-> "blocked",
               needs_review |-> "needs_review"]

\* A sealed verdict is returned as it is, whatever the facts say now.  A request that
\* names other rules, facts or evidence than the one on record, whose verdict is not,
\* raises VerificationError before anything changes: no step.
BeginRun ==
  /\ run = NoRun
  /\ IF verdict # None
     THEN /\ run' = [NoRun EXCEPT !.at = "judged", !.verdict = verdict]
          /\ UNCHANGED <<requested, task>>
     ELSE /\ run' = [NoRun EXCEPT !.at = "evaluating"]
          /\ \/ requested /\ UNCHANGED <<requested, task>>
             \/ ~requested /\ Takes /\ requested' = TRUE /\ task' = "executing"
  /\ UNCHANGED <<evidence, verdict, staged, checked, accessed, files, call, rendered,
                 served, crashes>>

\* The time may be up at any rule.  The facts named may have other values, confidence
\* or clearance than at an earlier try: the request on record tells only their ids.
Evaluate ==
  /\ run.at = "evaluating"
  /\ \E reached \in SUBSET Rules : \E found \in [reached -> Findings] :
       LET checks == [r \in Rules |-> IF r \in reached THEN found[r] ELSE None]
       IN run' = [run EXCEPT !.at = "evaluated",
                    !.verdict = [outcome |-> OutcomeOf(checks), checks |-> checks]]
  /\ UNCHANGED <<ledger, files, call, rendered, served, crashes>>

Seal ==
  /\ run.at = "evaluated" /\ Takes
  /\ verdict' = run.verdict
  /\ task' = StateAfter[run.verdict.outcome]
  /\ run' = [run EXCEPT !.at = "judged"]
  /\ UNCHANGED <<evidence, requested, staged, checked, accessed, files, call, rendered,
                 served, crashes>>
-----------------------------------------------------------------------------
(* DeliverableEngine.render, called with the verdict at hand.              *)

RenderStates == {"rendering", "awaiting_review", "deliverable_verified"}

MayRenderAgain == run.verdict.outcome = "passed" /\ task \in RenderStates  \* a mutant
\* The caller raises unless the verdict is a pass; render() looks at the task's
\* state once, and renders nothing once a check is recorded.
MayRender ==
  /\ run.verdict.outcome = "passed"
  /\ task \in RenderStates
  /\ checked = None

BeginRender ==
  /\ run.at = "judged" /\ MayRender /\ rendered < MaxRenderings
  /\ run' = [run EXCEPT !.at = "rendering"]
  /\ UNCHANGED <<ledger, files, call, rendered, served, crashes>>

\* LocalArtifactStore.write replaces the file; then the visual checker sees it,
\* and an answer of its own invention ends the call there.
WriteFile ==
  /\ run.at = "rendering"
  /\ rendered' = rendered + 1
  /\ file' = rendered'
  /\ \/ \E v \in Visuals :
          run' = [run EXCEPT !.at = "written", !.bytes = rendered', !.visual = v]
     \/ Inspected /\ run' = NoRun
  /\ UNCHANGED <<ledger, stored, call, served, crashes>>

\* An artifact staged by an earlier try keeps the bytes it told.
StageArtifact ==
  /\ run.at = "written"
  /\ \/ staged # None /\ UNCHANGED <<staged, task>>
     \/ staged = None /\ Takes /\ staged' = run.bytes /\ task' = "rendering"
  /\ run' = [run EXCEPT !.at = "staged"]
  /\ UNCHANGED <<evidence, requested, verdict, checked, accessed, files, call, rendered,
                 served, crashes>>

CheckArtifact ==
  /\ run.at = "staged" /\ Takes
  /\ checked' = [bytes |-> run.bytes, visual |-> run.visual]
  /\ task' = "deliverable_verified"
  /\ run' = NoRun
  /\ UNCHANGED <<evidence, requested, verdict, staged, accessed, files, call, rendered,
                 served, crashes>>

\* The call ends early: it may not render, or an append or the write fails.
EndRun ==
  /\ \/ run.at = "judged" /\ ~MayRender
     \/ run.at = "rendering" /\ StorageMayFail
     \/ run.at \in {"evaluated", "staged"} /\ Refuses
     \/ run.at = "written" /\ staged = None /\ Refuses
  /\ run' = NoRun
  /\ UNCHANGED <<ledger, files, call, rendered, served, crashes>>
-----------------------------------------------------------------------------
(* The gateways' downloads, and what else happens.                         *)

OnDisk(d)    == IF d = Deliverable THEN file ELSE stored[d]
Published(d) == IF d = Deliverable THEN checked # None ELSE stored[d] # None

ExpectedUnread(d) == OnDisk(d)                                             \* a mutant
\* The bytes the record of the document tells: the checked hash, the manifest's.
Expected(d) == IF d = Deliverable THEN checked.bytes ELSE d

\* Recorded once for each document.
RecordAccess(d) == accessed' = accessed \cup {d}

\* The first download of a document is recorded, which an ended task allows; only
\* bytes of the recorded hash are given.
Download(d) ==
  /\ call = NoCall
  /\ Published(d) /\ OnDisk(d) = Expected(d)
  /\ RecordAccess(d)
  /\ served' = served \cup {<<d, OnDisk(d)>>}
  /\ UNCHANGED <<task, evidence, requested, verdict, staged, checked, files, call, run,
                 rendered, crashes>>

\* Bytes on the disk may change under the Node.
Decay ==
  /\ \/ \E u \in Uploads : stored[u] = u /\ stored' = [stored EXCEPT ![u] = Damaged]
                           /\ UNCHANGED file
     \/ file # None /\ file' = Damaged /\ UNCHANGED stored
  /\ UNCHANGED <<ledger, call, run, rendered, served, crashes>>

\* request_review, and the ways a task ends (_ALLOWED of the orchestrator).
OtherTransition ==
  /\ \/ task \in {"deliverable_verified", "needs_review", "awaiting_review"}
        /\ task' = "awaiting_review"
     \/ task \notin {"blocked", "ended"} /\ task' = "ended"
  /\ UNCHANGED <<evidence, requested, verdict, staged, checked, accessed, files, call, run,
                 rendered, served, crashes>>

Restart ==
  /\ crashes < MaxCrashes
  /\ crashes' = crashes + 1
  /\ call' = NoCall /\ run' = NoRun
  /\ UNCHANGED <<ledger, files, rendered, served>>

Next ==
  \/ \E u \in Uploads : StageUpload(u)
  \/ RecordEvidence \/ EvidenceRefused \/ CommitUpload
  \/ BeginRun \/ Evaluate \/ Seal
  \/ BeginRender \/ WriteFile \/ StageArtifact \/ CheckArtifact \/ EndRun
  \/ \E d \in Uploads \cup {Deliverable} : Download(d)
  \/ Decay \/ OtherTransition \/ Restart

Spec == Init /\ [][Next]_vars
-----------------------------------------------------------------------------
\* The type invariant; the places are those of the Node's call and of the run.
CallPlaces == {"idle", "staged", "recorded"}
RunPlaces  == {"idle", "evaluating", "evaluated", "judged", "rendering", "written", "staged"}

TypeOK ==
  /\ task \in TaskStates /\ requested \in BOOLEAN
  /\ evidence \subseteq Uploads /\ accessed \subseteq Uploads \cup {Deliverable}
  /\ verdict \in Verdicts \cup {None}
  /\ staged \in Bytes \cup {None} /\ checked \in Checks \cup {None}
  /\ stored \in [Uploads -> Uploads \cup {None, Damaged}]
  /\ file \in Bytes \cup {None, Damaged}
  /\ call \in [at : CallPlaces, of : Uploads \cup {None}]
  /\ call.at # "idle" => call.of \in Uploads
  /\ run \in [at : RunPlaces, verdict : Verdicts \cup {None}, bytes : Bytes \cup {None},
              visual : Visuals \cup {None}]
  /\ rendered \in 0 .. MaxRenderings /\ crashes \in 0 .. MaxCrashes
  /\ served \subseteq (Uploads \cup {Deliverable}) \X (Uploads \cup Bytes \cup {None, Damaged})

\* A checked deliverable rests on a sealed verdict under which every rule was
\* reached and holds, over retries with other facts, time-outs and reviews.
RenderedOnAPass ==
  checked # None =>
    verdict # None /\ \A r \in Rules : verdict.checks[r] = "holds"

\* Once a check is recorded no try overwrites the file it is about: it holds the
\* checked bytes, or was damaged on the disk.
CheckedFileStays ==
  checked # None => file \in {checked.bytes, Damaged}

\* What clients were given is what the ledger tells of the document: the hash of
\* its evidence or of its check; and the ledger tells that it was given.
ServedAsRecorded ==
  \A s \in served :
    /\ s[1] \in accessed
    /\ IF s[1] = Deliverable THEN checked # None /\ s[2] = checked.bytes
                             ELSE s[1] \in evidence /\ s[2] = s[1]

=============================================================================
