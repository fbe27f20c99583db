-------------------------- MODULE DocumentsProofs --------------------------
(***************************************************************************)
(* Theorems about Documents, for any uploads, rules and bounds.  A run that *)
(* renders was let in by a sealed pass and before any check was recorded;   *)
(* as a sealed verdict never changes and one run at a time renders, this    *)
(* still holds when the check is recorded.                                  *)
(***************************************************************************)
EXTENDS Documents, TLAPS

IsPass(v) == v # None /\ \A r \in Rules : v.checks[r] = "holds"

\* What the verdict a run holds has to do with the sealed one.
RunKeepsTheVerdict ==
  /\ verdict # None => verdict.outcome = OutcomeOf(verdict.checks)
  /\ run.at \in {"evaluating", "evaluated"} => verdict = None
  /\ run.at = "evaluated" =>
       run.verdict # None /\ run.verdict.outcome = OutcomeOf(run.verdict.checks)
  /\ run.at = "judged" => verdict # None /\ run.verdict = verdict

\* A run renders on a pass and beside no check, and finds its bytes on the disk.
RunIsAlone ==
  /\ run.at \in {"rendering", "written", "staged"} => checked = None /\ IsPass(verdict)
  /\ run.at = "rendering" => rendered < MaxRenderings
  /\ run.at \in {"written", "staged"} =>
       run.bytes \in Bytes /\ run.visual \in Visuals /\ file \in {run.bytes, Damaged}

\* No upload is in the store, or about to be, before its evidence is in the ledger,
\* and what is there is its own source or damaged.
StoredIsRecorded ==
  /\ call.at = "recorded" => call.of \in evidence
  /\ \A u \in Uploads : stored[u] \in {u, None, Damaged} /\ (stored[u] # None => u \in evidence)

IInv ==
  /\ TypeOK /\ RunKeepsTheVerdict /\ RunIsAlone /\ StoredIsRecorded
  /\ RenderedOnAPass /\ CheckedFileStays /\ ServedAsRecorded
-----------------------------------------------------------------------------
LEMMA Values ==
  /\ \A n \in Nat : n # None /\ n # Damaged
  /\ \A u \in Uploads : u # None /\ u # Damaged /\ u # Deliverable
  /\ \A v \in Verdicts : v # None
  /\ \A c \in Checks : c # None
BY DocumentsAssumption, NoneIsNoPayload

\* VerificationRunner passes a request only when every rule was reached and holds.
LEMMA PassMeansAllHold ==
  ASSUME NEW v \in Verdicts, v.outcome = OutcomeOf(v.checks), v.outcome = "passed"
  PROVE  IsPass(v)
BY Values DEF OutcomeOf, IsPass

LEMMA OutcomesAreOutcomes == ASSUME NEW c PROVE OutcomeOf(c) \in Outcomes
BY DEF OutcomeOf, Outcomes

LEMMA Initially == Init => IInv
<1> SUFFICES ASSUME Init PROVE IInv
  OBVIOUS
<1> USE DEF Init, NoCall, NoRun
<1>1. TypeOK
  <2>1. /\ call \in [at : CallPlaces, of : Uploads \cup {None}]
        /\ run \in [at : RunPlaces, verdict : Verdicts \cup {None}, bytes : Bytes \cup {None},
                    visual : Visuals \cup {None}]
    BY DEF CallPlaces, RunPlaces
  <2>2. rendered \in 0 .. MaxRenderings /\ crashes \in 0 .. MaxCrashes
    BY DocumentsAssumption
  <2> QED BY <2>1, <2>2 DEF TypeOK, TaskStates
<1>2. RunKeepsTheVerdict /\ RunIsAlone /\ StoredIsRecorded
  BY DEF RunKeepsTheVerdict, RunIsAlone, StoredIsRecorded
<1>3. RenderedOnAPass /\ CheckedFileStays /\ ServedAsRecorded
  BY DEF RenderedOnAPass, CheckedFileStays, ServedAsRecorded
<1> QED BY <1>1, <1>2, <1>3 DEF IInv
-----------------------------------------------------------------------------
\* A rendering is within its bound, and its bytes are on the disk.
LEMMA Written ==
  ASSUME IInv, WriteFile
  PROVE  /\ rendered' \in Bytes /\ rendered' \in 0 .. MaxRenderings /\ file' = rendered'
         /\ run' \in [at : RunPlaces, verdict : Verdicts \cup {None}, bytes : Bytes \cup {None},
                     visual : Visuals \cup {None}]
         /\ \/ run' = NoRun
            \/ run'.at = "written" /\ run'.bytes = rendered' /\ run'.visual \in Visuals
<1>1. rendered \in 0 .. MaxRenderings /\ rendered < MaxRenderings /\ rendered' = rendered + 1
  BY DEF IInv, TypeOK, RunIsAlone, WriteFile
<1>2. rendered' \in Bytes /\ rendered' \in 0 .. MaxRenderings /\ file' = rendered'
  <2>1. MaxRenderings \in Nat
    BY DocumentsAssumption
  <2>2. rendered' \in 1 .. MaxRenderings /\ rendered' \in 0 .. MaxRenderings
    BY <1>1, <2>1
  <2> QED BY <2>2 DEF Bytes, WriteFile
<1>3. run \in [at : RunPlaces, verdict : Verdicts \cup {None}, bytes : Bytes \cup {None},
              visual : Visuals \cup {None}]
  BY DEF IInv, TypeOK
<1>4. CASE run' = NoRun
  BY <1>2, <1>4 DEF NoRun, RunPlaces
<1>5. CASE \E v \in Visuals :
             run' = [run EXCEPT !.at = "written", !.bytes = rendered', !.visual = v]
  BY <1>2, <1>3, <1>5 DEF RunPlaces
<1> QED BY <1>4, <1>5, <1>2 DEF WriteFile
-----------------------------------------------------------------------------
LEMMA TypeStep == ASSUME IInv, [Next]_vars PROVE TypeOK'
<1> USE DEF IInv, TypeOK
<1>1. CASE \E u \in Uploads : StageUpload(u)
  BY <1>1 DEF StageUpload, Prepared, CallPlaces, ledger, files
<1>2. CASE RecordEvidence \/ EvidenceRefused \/ CommitUpload
  BY <1>2 DEF RecordEvidence, EvidenceRefused, CommitUpload, Committable, NoCall, CallPlaces, ledger, files
<1>3. CASE BeginRun
  <2>1. run' \in [at : RunPlaces, verdict : Verdicts \cup {None}, bytes : Bytes \cup {None},
                  visual : Visuals \cup {None}]
    BY <1>3 DEF BeginRun, NoRun, RunPlaces
  <2>2. task' \in TaskStates /\ requested' \in BOOLEAN
    BY <1>3 DEF BeginRun, TaskStates
  <2> QED BY <1>3, <2>1, <2>2 DEF BeginRun, files
<1>4. CASE Evaluate
  <2>1. PICK c \in [Rules -> Findings \cup {None}] :
          run' = [run EXCEPT !.at = "evaluated",
                             !.verdict = [outcome |-> OutcomeOf(c), checks |-> c]]
    BY <1>4 DEF Evaluate
  <2>2. [outcome |-> OutcomeOf(c), checks |-> c] \in Verdicts
    BY OutcomesAreOutcomes DEF Verdicts
  <2> QED BY <1>4, <2>1, <2>2 DEF Evaluate, RunPlaces, ledger, files
<1>5. CASE Seal
  <2>1. run.verdict \in Verdicts
    BY <1>5 DEF Seal, RunKeepsTheVerdict
  <2>2. \A o \in Outcomes : StateAfter[o] \in TaskStates
    BY DEF Outcomes, StateAfter, TaskStates
  <2> QED BY <1>5, <2>1, <2>2 DEF Seal, Verdicts, RunPlaces, files
<1>6. CASE BeginRender
  BY <1>6 DEF BeginRender, RunPlaces, ledger, files
<1>7. CASE WriteFile
  BY <1>7, Written DEF WriteFile, ledger
<1>8. CASE StageArtifact
  BY <1>8 DEF StageArtifact, RunIsAlone, RunPlaces, TaskStates, files
<1>9. CASE CheckArtifact
  BY <1>9 DEF CheckArtifact, RunIsAlone, NoRun, RunPlaces, Checks, TaskStates, files
<1>10. CASE EndRun
  BY <1>10 DEF EndRun, NoRun, RunPlaces, ledger, files
<1>11. CASE \E d \in Uploads \cup {Deliverable} : Download(d)
  BY <1>11 DEF Download, RecordAccess, OnDisk, files
<1>12. CASE Decay \/ OtherTransition \/ Restart
  BY <1>12, DocumentsAssumption
     DEF Decay, OtherTransition, Restart, NoCall, NoRun, CallPlaces, RunPlaces, TaskStates, ledger, files
<1>13. CASE UNCHANGED vars
  BY <1>13 DEF vars, ledger, files
<1> QED
  BY <1>1, <1>2, <1>3, <1>4, <1>5, <1>6, <1>7, <1>8, <1>9, <1>10, <1>11, <1>12, <1>13 DEF Next
-----------------------------------------------------------------------------
(***************************************************************************)
(* The run, the upload, the check and the downloads, step by step.          *)
(***************************************************************************)
LEMMA RunStep == ASSUME IInv, [Next]_vars PROVE RunKeepsTheVerdict' /\ RunIsAlone'
<1> USE DEF IInv, RunKeepsTheVerdict, RunIsAlone, NoRun
<1>1. CASE BeginRun
  BY <1>1 DEF BeginRun, files, TypeOK
<1>2. CASE Evaluate
  <2>1. PICK c \in [Rules -> Findings \cup {None}] :
          run' = [run EXCEPT !.at = "evaluated",
                             !.verdict = [outcome |-> OutcomeOf(c), checks |-> c]]
    BY <1>2 DEF Evaluate
  <2>2. [outcome |-> OutcomeOf(c), checks |-> c] \in Verdicts
    BY OutcomesAreOutcomes DEF Verdicts
  <2> QED BY <1>2, <2>1, <2>2, Values DEF Evaluate, ledger, files, TypeOK
<1>3. CASE Seal
  BY <1>3 DEF Seal, files, TypeOK
<1>4. CASE BeginRender
  <2>1. IsPass(verdict)
    BY <1>4, PassMeansAllHold DEF BeginRender, MayRender, TypeOK
  <2> QED BY <1>4, <2>1 DEF BeginRender, MayRender, ledger, files, TypeOK, IsPass
<1>5. CASE WriteFile
  <2>1. UNCHANGED <<verdict, checked>> /\ (IsPass(verdict) => IsPass(verdict)')
    BY <1>5 DEF WriteFile, ledger, IsPass
  <2>2. /\ rendered' \in Bytes /\ file' = rendered'
        /\ \/ run' = NoRun
           \/ run'.at = "written" /\ run'.bytes = rendered' /\ run'.visual \in Visuals
    BY <1>5, Written
  <2>3. run.at = "rendering"
    BY <1>5 DEF WriteFile
  <2> HIDE DEF IInv
  <2> QED BY <2>1, <2>2, <2>3 DEF IInv
<1>6. CASE StageArtifact
  BY <1>6 DEF StageArtifact, files, TypeOK, IsPass
<1>7. CASE CheckArtifact \/ EndRun \/ Restart
  BY <1>7 DEF CheckArtifact, EndRun, Restart, ledger, files
<1>8. CASE Decay
  BY <1>8 DEF Decay, ledger, files, IsPass
<1>9. CASE OtherTransition
  BY <1>9 DEF OtherTransition, files, IsPass
<1>10. CASE \E d \in Uploads \cup {Deliverable} : Download(d)
  BY <1>10 DEF Download, files, IsPass
<1>11. CASE \/ \E u \in Uploads : StageUpload(u)
            \/ RecordEvidence \/ EvidenceRefused \/ CommitUpload
  BY <1>11 DEF StageUpload, RecordEvidence, EvidenceRefused, CommitUpload, ledger, files, IsPass
<1>12. CASE UNCHANGED vars
  BY <1>12 DEF vars, ledger, files, IsPass
<1> QED
  BY <1>1, <1>2, <1>3, <1>4, <1>5, <1>6, <1>7, <1>8, <1>9, <1>10, <1>11, <1>12 DEF Next

LEMMA StoreStep == ASSUME IInv, [Next]_vars PROVE StoredIsRecorded'
<1> USE DEF IInv, StoredIsRecorded
<1>1. CASE \E u \in Uploads : StageUpload(u)
  BY <1>1 DEF StageUpload, Prepared, ledger, files
<1>2. CASE RecordEvidence
  BY <1>2 DEF RecordEvidence, TypeOK, files
<1>3. CASE CommitUpload
  BY <1>3 DEF CommitUpload, Committable, NoCall, TypeOK, ledger
<1>4. CASE Decay
  BY <1>4, Values DEF Decay, TypeOK, ledger
<1>5. CASE EvidenceRefused \/ Restart
  BY <1>5 DEF EvidenceRefused, Restart, NoCall, ledger, files
<1>6. CASE ~(RecordEvidence \/ CommitUpload \/ Decay \/ EvidenceRefused \/ Restart)
           /\ UNCHANGED call
  BY <1>6 DEF Next, vars, StageUpload, BeginRun, Evaluate, Seal, BeginRender, WriteFile,
              StageArtifact, CheckArtifact, EndRun, Download, OtherTransition, ledger, files
<1> QED
  BY <1>1, <1>2, <1>3, <1>4, <1>5, <1>6
     DEF Next, vars, BeginRun, Evaluate, Seal, BeginRender, WriteFile,
         StageArtifact, CheckArtifact, EndRun, Download, OtherTransition

\* The two halves of a check: it stays, and a new one is of a pass and of the file.
LEMMA CheckStep == ASSUME IInv, [Next]_vars PROVE RenderedOnAPass' /\ CheckedFileStays'
<1> USE DEF IInv, RenderedOnAPass, CheckedFileStays
<1>1. CASE CheckArtifact
  BY <1>1 DEF CheckArtifact, RunIsAlone, IsPass, files
<1>2. CASE Seal
  BY <1>2 DEF Seal, RunKeepsTheVerdict, files
<1>3. CASE WriteFile
  BY <1>3 DEF WriteFile, RunIsAlone, ledger
<1>4. CASE Decay
  BY <1>4 DEF Decay, ledger
<1>5. CASE UNCHANGED <<checked, verdict, file>>
  BY <1>5
<1> QED
  BY <1>1, <1>2, <1>3, <1>4, <1>5
     DEF Next, vars, ledger, files, StageUpload, RecordEvidence, EvidenceRefused, CommitUpload,
         BeginRun, Evaluate, BeginRender, StageArtifact, EndRun, Download, OtherTransition, Restart

LEMMA ServedStep == ASSUME IInv, [Next]_vars PROVE ServedAsRecorded'
<1> USE DEF IInv, ServedAsRecorded
<1>1. CASE \E d \in Uploads \cup {Deliverable} : Download(d)
  <2>1. PICK d \in Uploads \cup {Deliverable} : Download(d)
    BY <1>1
  <2>2. d = Deliverable => checked # None /\ OnDisk(d) = checked.bytes
    BY <2>1 DEF Download, Published, Expected
  <2>3. d # Deliverable => d \in evidence /\ OnDisk(d) = d
    BY <2>1 DEF Download, Published, Expected, StoredIsRecorded
  <2> QED BY <2>1, <2>2, <2>3 DEF Download, RecordAccess
<1>2. CASE RecordEvidence
  BY <1>2 DEF RecordEvidence
<1>3. CASE CheckArtifact
  BY <1>3 DEF CheckArtifact, RunIsAlone
<1>4. CASE UNCHANGED <<served, accessed, evidence, checked>>
  BY <1>4
<1> QED
  BY <1>1, <1>2, <1>3, <1>4
     DEF Next, vars, ledger, StageUpload, EvidenceRefused, CommitUpload, BeginRun, Evaluate, Seal,
         BeginRender, WriteFile, StageArtifact, EndRun, Decay, OtherTransition, Restart
-----------------------------------------------------------------------------
THEOREM Invariance == Spec => []IInv
<1>1. IInv /\ [Next]_vars => IInv'
  BY TypeStep, RunStep, StoreStep, CheckStep, ServedStep DEF IInv
<1> QED BY Initially, <1>1, PTL DEF Spec

\* The ledger, the files, the upload and the run keep their types.
THEOREM TypeCorrect == Spec => []TypeOK
<1>1. IInv => TypeOK
  BY DEF IInv
<1> QED BY Invariance, <1>1, PTL

\* A deliverable is checked only on a sealed verdict under which every rule was
\* reached and holds (VerificationRunner.run, DeliverableEngine.render).
THEOREM RendersOnlyOnAPass == Spec => []RenderedOnAPass
<1>1. IInv => RenderedOnAPass
  BY DEF IInv
<1> QED BY Invariance, <1>1, PTL

\* No retry overwrites the file a recorded check is about (DeliverableEngine.render).
THEOREM CheckedFileAlwaysStays == Spec => []CheckedFileStays
<1>1. IInv => CheckedFileStays
  BY DEF IInv
<1> QED BY Invariance, <1>1, PTL

\* Downloads give what the ledger tells, and the ledger tells of the download
\* (LocalNodeIntakeGateway.download, LocalDeliverableGateway.download).
THEOREM ServesOnlyTheRecorded == Spec => []ServedAsRecorded
<1>1. IInv => ServedAsRecorded
  BY DEF IInv
<1> QED BY Invariance, <1>1, PTL

\* No upload is in the store before its evidence is recorded, wherever the intake
\* was cut short (FileIntakeLayer.intake).
THEOREM StoresOnlyTheRecorded == Spec => []StoredIsRecorded
<1>1. IInv => StoredIsRecorded
  BY DEF IInv
<1> QED BY Invariance, <1>1, PTL
=============================================================================
