--------------------------- MODULE ToolRunsProofs ---------------------------
(***************************************************************************)
(* Theorems about ToolRuns, for any tests, providers, contents and number   *)
(* of tries.  The ledger's keys carry the argument: a decision comes before *)
(* the start it admits, a result is recorded once and of the last run of    *)
(* its action, and what the run in memory says of earlier actions is what   *)
(* the ledger says of them.                                                 *)
(***************************************************************************)
EXTENDS ToolRuns, SequenceTheorems, TLAPS

Decided(a) == DecisionsFor(a) \X {a} \subseteq decisions

\* The decision is in the ledger before code is launched, and code that goes by the
\* sandbox's own decision is not launched under an older one.
LaunchesAreDecided ==
    /\ \A a \in permits : Decided(a)
    /\ run.at = "launch" => Decided(Current) /\ (Current \notin setup.gated => starts[Current] = 0)

\* What is left of a run is of one that was started, and its result tells of it.
LeftoversAreOfRuns ==
    /\ \A r \in live \cup kept : r[2] <= starts[r[1]]
    /\ \A a \in Actions : results[a] # None => results[a].run <= starts[a]
    /\ setup.provider # "podman" => kept = {}
    /\ run.at = "ended" =>
          /\ run.got \in Statuses
          /\ run.unread => run.got = "failed"
    /\ run.at = "record" => run.got \in Statuses
    /\ run.at = "record" /\ setup.provider = "podman" =>
          /\ run.got = "succeeded" => ThisRun \notin live \cup kept
          /\ ThisRun \in live \cup kept => "failed" \in {run.got, run.cleanup}

Recorded(a, status) == results[a] # None /\ results[a].status = status
TestsRecorded(tests) ==
    Len(tests) <= Len(Tests) /\ \A i \in 1 .. Len(tests) : Recorded(Tests[i], tests[i])

\* What the run in memory says of its earlier actions is on record, and after the last
\* of them it says so of all; so does the manifest.
MemoryIsOnRecord ==
    /\ run.at \in {"start", "launch", "running", "ended", "record"} /\ run.of > 0 =>
          /\ run.main = "succeeded" /\ Recorded(Main, run.main)
          /\ TestsRecorded(run.tests) /\ Len(run.tests) = run.of - 1
    /\ run.at \in {"capture", "seal"} =>
          /\ run.main \in Statuses /\ Recorded(Main, run.main)
          /\ TestsRecorded(run.tests)
          /\ run.main = "succeeded" => Len(run.tests) = Len(Tests)
    /\ manifest # None => Recorded(Main, manifest.main) /\ TestsRecorded(manifest.tests)

\* What is about to be recorded of the file is something it had.
FileWasSeen ==
    /\ file \in had \cup {Missing}
    /\ tool # NoTool => tool.content \in had
    /\ run.at = "seal" => run.saw \in had \cup {Missing}

IInv ==
    /\ TypeOK /\ LaunchesAreDecided /\ LeftoversAreOfRuns /\ MemoryIsOnRecord /\ FileWasSeen
    /\ CodeStartsAsDecided /\ LeftoversAreReported /\ ManifestRestsOnResults /\ FileRecordsAreTrue
-----------------------------------------------------------------------------
Memory == [at : Places, of : 0 .. Len(Tests), main : Statuses \cup {None},
           tests : Seq(Statuses), got : Statuses \cup {None}, unread : BOOLEAN,
           cleanup : Cleanups, saw : FileStates]

LEMMA TestsAreCounted ==
    /\ Len(Tests) \in Nat /\ DOMAIN Tests = 1 .. Len(Tests)
    /\ \A i \in 1 .. Len(Tests) : Tests[i] \in Actions /\ Tests[i] # Main
BY ToolsAssumption DEF Actions, TestActions

LEMMA IdleIsMemory == Idle \in Memory
<1>1. <<>> \in Seq(Statuses) /\ 0 \in 0 .. Len(Tests)
    BY TestsAreCounted
<1> QED BY <1>1 DEF Idle, Memory, Places, Cleanups, FileStates

LEMMA CurrentIsAction == ASSUME run \in Memory PROVE Current \in Actions
<1>1. run.of \in 0 .. Len(Tests)
    BY DEF Memory
<1> QED BY <1>1, TestsAreCounted DEF Current, Actions

LEMMA Initially == Init => IInv
<1> SUFFICES ASSUME Init PROVE IInv
    OBVIOUS
<1> USE DEF Init
<1>1. TypeOK
  <2>1. run \in Memory
    BY IdleIsMemory
  <2> QED BY <2>1, ToolsAssumption DEF TypeOK, Memory, FileStates, NoTool
<1>2. LaunchesAreDecided /\ LeftoversAreOfRuns /\ MemoryIsOnRecord /\ FileWasSeen
    BY DEF LaunchesAreDecided, LeftoversAreOfRuns, MemoryIsOnRecord, FileWasSeen, Idle
<1>3. CodeStartsAsDecided /\ LeftoversAreReported /\ ManifestRestsOnResults /\ FileRecordsAreTrue
    BY DEF CodeStartsAsDecided, LeftoversAreReported, ManifestRestsOnResults, FileRecordsAreTrue
<1> QED BY <1>1, <1>2, <1>3 DEF IInv
-----------------------------------------------------------------------------
LEMMA TestsSoFar ==
    ASSUME run \in Memory, run.got \in Statuses
    PROVE  AfterResult \in Memory
<1> DEFINE main == IF run.of = 0 THEN run.got ELSE run.main
<1>1. main \in Statuses \cup {None}
    BY DEF Memory
<1>2. (IF AnotherTest(main) THEN run.of + 1 ELSE run.of) \in 0 .. Len(Tests)
    BY TestsAreCounted DEF Memory, AnotherTest
<1>3. (IF run.of = 0 THEN <<>> ELSE Append(run.tests, run.got)) \in Seq(Statuses)
    BY DEF Memory
<1>4. (IF AnotherTest(main) THEN "start" ELSE "capture") \in Places
    BY DEF Places
<1> HIDE DEF main
<1> QED BY <1>1, <1>2, <1>3, <1>4, IdleIsMemory DEF AfterResult, Memory, main

LEMMA Advance ==
    /\ AfterResult.at \in {"start", "capture"}
    /\ AfterResult.of = IF AfterResult.at = "start" THEN run.of + 1 ELSE run.of
    /\ AfterResult.main = IF run.of = 0 THEN run.got ELSE run.main
    /\ AfterResult.tests = IF run.of = 0 THEN <<>> ELSE Append(run.tests, run.got)
    /\ AfterResult.at = "start" <=> AfterResult.main = "succeeded" /\ run.of < Len(Tests)
BY DEF AfterResult, Idle, AnotherTest

LEMMA VerdictIsStatus ==
    ASSUME run \in Memory, run.main \in Statuses, NEW b PROVE Verdict(b) \in ManifestStatuses
BY DEF Verdict, ManifestStatuses, Statuses

\* The run in memory keeps its form; a step that leaves it alone keeps it so anyway.
LEMMA MemoryStep ==
    ASSUME run \in Memory, run.at = "record" => run.got \in Statuses,
           file \in FileStates, [Next]_vars
    PROVE  run' \in Memory
<1>1. CASE StartCode
    BY <1>1, IdleIsMemory DEF StartCode, Memory, Places
<1>2. CASE StartAction
    BY <1>2, IdleIsMemory DEF StartAction, StartRefused, Raises, Memory, Places
<1>3. CASE Launch \/ NotLaunched
    BY <1>3, IdleIsMemory DEF Launch, NotLaunched, ProviderRaises, Raises, Memory, Places, Statuses
<1>4. CASE \E status \in Statuses, unread \in BOOLEAN : RunEnds(status, unread)
  <2>1. PICK status \in Statuses, unread \in BOOLEAN : RunEnds(status, unread)
    BY <1>4
  <2> QED BY <2>1 DEF RunEnds, GoesOn, Memory, Places
<1>5. CASE \E removed, swept \in BOOLEAN : CleanUp(removed, swept)
  <2>1. PICK removed \in BOOLEAN, swept \in BOOLEAN : CleanUp(removed, swept)
    BY <1>5
  <2> QED BY <2>1 DEF CleanUp, Memory, Places, Statuses, Cleanups
<1>6. CASE RecordResult
    BY <1>6, IdleIsMemory, TestsSoFar DEF RecordResult, Raises
<1>7. CASE Capture \/ \E calculated \in BOOLEAN : Seal(calculated)
    BY <1>7, IdleIsMemory DEF Capture, Seal, Raises, Memory, Places, FileStates
<1>8. CASE Crash
    BY <1>8, IdleIsMemory DEF Crash, Raises
<1>9. CASE UNCHANGED run
    BY <1>9
<1> QED
    BY <1>1, <1>2, <1>3, <1>4, <1>5, <1>6, <1>7, <1>8, <1>9
       DEF Next, Authorize, WritesOutput, WriteFile, ReadFile, FileRecorded, OrphanEnds, vars

LEMMA TypeStep == ASSUME IInv, [Next]_vars PROVE TypeOK'
<1> USE DEF IInv, TypeOK
<1> USE DEF ledger, world, disk
<1>0. run \in Memory /\ Current \in Actions
    BY CurrentIsAction DEF Memory
<1>00. /\ run' \in Memory
       /\ run' \in [at : Places, of : 0 .. Len(Tests), main : Statuses \cup {None},
                    tests : Seq(Statuses), got : Statuses \cup {None}, unread : BOOLEAN,
                    cleanup : Cleanups, saw : FileStates]
  <2>1. run' \in Memory
    BY <1>0, MemoryStep DEF LeftoversAreOfRuns
  <2> QED BY <2>1 DEF Memory
<1>1. CASE \E a \in Actions, scope \in ScopesUsed : Authorize(a, scope)
    BY <1>1 DEF Authorize, GatewayRecords, EventTypes
<1>2. CASE StartCode
    BY <1>2, <1>00, ToolsAssumption DEF StartCode
<1>3. CASE StartAction
  <2>1. <<"own requested", Current>> \in EventTypes \X Actions
        /\ <<"own authorized", Current>> \in EventTypes \X Actions
    BY <1>0 DEF EventTypes
  <2>2. decisions' \subseteq decisions \cup
            {<<"own requested", Current>>, <<"own authorized", Current>>}
    BY <1>3 DEF StartAction, Admitted, HalfAdmitted, StartRefused
  <2>3. decisions' \subseteq EventTypes \X Actions
    BY <2>1, <2>2
  <2> QED BY <1>3, <2>3, <1>00 DEF StartAction
<1>4. CASE Launch
  <2>1. <<Current, starts[Current] + 1>> \in Runs
    BY <1>0 DEF Runs
  <2>2. starts' \in [Actions -> Nat]
    BY <1>4, <1>0 DEF Launch
  <2>3. live' \subseteq Runs /\ kept' \subseteq Runs
    BY <1>4, <2>1 DEF Launch
  <2> QED BY <1>4, <2>2, <2>3, <1>00 DEF Launch
<1>5. CASE NotLaunched
    BY <1>5, <1>00 DEF NotLaunched
<1>6. CASE \E r \in live, c \in Contents : WritesOutput(r, c)
    BY <1>6 DEF WritesOutput, FileStates
<1>7. CASE \E status \in Statuses, unread \in BOOLEAN : RunEnds(status, unread)
    BY <1>7, <1>00 DEF RunEnds, GoesOn
<1>8. CASE \E removed, swept \in BOOLEAN : CleanUp(removed, swept)
    BY <1>8, <1>00 DEF CleanUp
<1>9. CASE RecordResult
  <2>1. run.at = "record" /\ run.got \in Statuses
    BY <1>9 DEF RecordResult, LeftoversAreOfRuns
  <2>2. [status |-> run.got, cleanup |-> run.cleanup, run |-> starts[Current]] \in Results
    BY <2>1, <1>0 DEF Results, Memory
  <2> QED BY <1>9, <2>2, <1>0, <1>00 DEF RecordResult
<1>10. CASE Capture
    BY <1>10, <1>00 DEF Capture
<1>11. CASE \E calculated \in BOOLEAN : Seal(calculated)
  <2>1. PICK calculated \in BOOLEAN : Seal(calculated)
    BY <1>11
  <2>2. [status |-> Verdict(calculated), main |-> run.main, tests |-> run.tests, saw |-> run.saw]
          \in Manifests
    BY <2>1, <1>0, VerdictIsStatus DEF Seal, MemoryIsOnRecord, Manifests, Memory
  <2> QED BY <2>1, <2>2, <1>00 DEF Seal
<1>12. CASE \E op \in FileOps, c \in Contents : WriteFile(op, c)
    BY <1>12 DEF WriteFile, FileStates
<1>13. CASE \E op \in FileOps : ReadFile(op)
    BY <1>13 DEF ReadFile, FileStates
<1>14. CASE FileRecorded
  <2>1. tool \in [op : FileOps, kind : {"staged", "checked"}, content : Contents \cup {Torn}]
    BY <1>14 DEF FileRecorded
  <2>2. FileRecord \in FileRecords
    BY <2>1 DEF FileRecord, FileRecords
  <2>3. filed' = filed \/ filed' = [filed EXCEPT ![FileRecord] = tool.content]
    BY <1>14 DEF FileRecorded
  <2>4. filed' \in [FileRecords -> Contents \cup {Torn, None}]
    BY <2>1, <2>2, <2>3
  <2> QED BY <1>14, <2>4 DEF FileRecorded
<1>15. CASE Crash
    BY <1>15, <1>00 DEF Crash
<1>16. CASE \E r \in live : OrphanEnds(r)
    BY <1>16 DEF OrphanEnds
<1>17. CASE UNCHANGED vars
    BY <1>17 DEF vars
<1> QED
    BY <1>1, <1>2, <1>3, <1>4, <1>5, <1>6, <1>7, <1>8, <1>9, <1>10, <1>11, <1>12, <1>13, <1>14,
       <1>15, <1>16, <1>17 DEF Next
-----------------------------------------------------------------------------
(***************************************************************************)
(* The decisions, what runs leave behind, the results and the file, step by *)
(* step.                                                                    *)
(***************************************************************************)
LEMMA PairsWith ==
    ASSUME NEW D, NEW a, NEW E, \A k \in D : <<k, a>> \in E
    PROVE  D \X {a} \subseteq E
OBVIOUS

LEMMA DecisionsStay ==
    ASSUME setup' = setup, decisions \subseteq decisions', NEW a, Decided(a)
    PROVE  Decided(a)'
BY DEF Decided, DecisionsFor

LEMMA DecidedStep == ASSUME IInv, [Next]_vars PROVE LaunchesAreDecided' /\ CodeStartsAsDecided'
<1> USE DEF IInv, LaunchesAreDecided
<1>0. /\ run \in Memory /\ Current \in Actions /\ starts \in [Actions -> Nat]
      /\ permits \subseteq Actions
    BY CurrentIsAction, ToolsAssumption DEF TypeOK, Memory, Actions
<1>00. /\ \A a \in Actions : starts[a] > 0 => Decided(a)
       /\ \A a \in Actions : a \notin setup.gated => starts[a] <= 1
    BY DEF CodeStartsAsDecided, Decided
<1> SUFFICES /\ \A a \in permits' : Decided(a)'
             /\ run'.at = "launch" =>
                    Decided(Current)' /\ (Current' \notin setup'.gated => starts'[Current'] = 0)
             /\ \A a \in Actions : starts'[a] > 0 => Decided(a)'
             /\ \A a \in Actions : a \notin setup'.gated => starts'[a] <= 1
    BY DEF CodeStartsAsDecided, Decided
<1>1. CASE \E a \in Actions, scope \in ScopesUsed : Authorize(a, scope)
  <2>1. PICK a \in Actions, scope \in ScopesUsed : Authorize(a, scope)
    BY <1>1
  <2>2. /\ setup' = setup /\ decisions \subseteq decisions' /\ starts' = starts /\ run' = run
        /\ run.at = "idle"
    BY <2>1 DEF Authorize, GatewayRecords, world
  <2>3. permits' \subseteq permits \/ (permits' = permits \cup {a} /\ Decided(a)')
    BY <2>1 DEF Authorize, GatewayRecords, Decided, DecisionsFor
  <2> QED BY <1>00, <2>2, <2>3, DecisionsStay
<1>2. CASE StartAction
  <2>1. /\ setup' = setup /\ decisions \subseteq decisions' /\ starts' = starts /\ permits' = permits
        /\ run.at = "start"
    BY <1>2 DEF StartAction, Admitted, HalfAdmitted, StartRefused, world
  <2>2. CASE run' = Idle
    BY <1>00, <2>1, <2>2, DecisionsStay DEF Idle
  <2>3. CASE Admitted(Current) /\ run' = [run EXCEPT !.at = "launch"]
    <3>1. Current' = Current
      BY <1>0, <2>3 DEF Current, Memory
    <3>2. Decided(Current)'
      <4>1. CASE Current \in setup.gated
        BY <2>1, <2>3, <3>1, <4>1, DecisionsStay DEF Admitted, Decided
      <4>2. CASE Current \notin setup.gated
        <5>1. decisions' =
                  decisions \cup {<<"own requested", Current>>, <<"own authorized", Current>>}
          BY <2>3, <4>2 DEF Admitted
        <5>2. Decided(Current)' <=> DecisionsFor(Current)' \X {Current} \subseteq decisions'
          BY <3>1 DEF Decided
        <5>3. DecisionsFor(Current)' = {"own requested", "own authorized"}
          BY <2>1, <3>1, <4>2 DEF DecisionsFor
        <5>4. {"own requested", "own authorized"} \X {Current} \subseteq decisions'
          <6>1. \A k \in {"own requested", "own authorized"} : <<k, Current>> \in decisions'
            BY <5>1
          <6> QED BY <6>1, PairsWith
        <5> QED BY <5>2, <5>3, <5>4
      <4> QED BY <4>1, <4>2
    <3>3. Current \notin setup.gated => starts[Current] = 0
      <4>1. Current \notin setup.gated => <<"own requested", Current>> \notin decisions
        BY <2>3 DEF Admitted, OwnKeyIsFree
      <4>2. Current \notin setup.gated => ~Decided(Current)
        BY <4>1 DEF Decided, DecisionsFor
      <4> QED BY <1>0, <1>00, <4>2
    <3> QED BY <1>00, <2>1, <3>1, <3>2, <3>3, DecisionsStay
  <2> QED BY <1>2, <2>2, <2>3 DEF StartAction, StartRefused, Raises
<1>3. CASE Launch
  <2>1. /\ setup' = setup /\ decisions' = decisions /\ permits' = permits /\ run.at = "launch"
        /\ starts' = [starts EXCEPT ![Current] = starts[Current] + 1] /\ run'.at = "running"
    BY <1>3, <1>0 DEF Launch, ledger, Memory
  <2>2. \A a : Decided(a) => Decided(a)'
    BY <2>1, DecisionsStay
  <2>3. \A a \in Actions : starts'[a] = IF a = Current THEN starts[Current] + 1 ELSE starts[a]
    BY <1>0, <2>1
  <2> QED BY <1>0, <1>00, <2>1, <2>2, <2>3
<1>4. CASE /\ setup' = setup /\ decisions' = decisions /\ starts' = starts
           /\ permits' \subseteq permits
           /\ run' = run \/ run'.at # "launch"
  <2>1. \A a : Decided(a) => Decided(a)'
    BY <1>4, DecisionsStay
  <2>2. run' = run => Current' = Current
    BY DEF Current
  <2> QED BY <1>00, <1>4, <2>1, <2>2
<1>5. CASE StartCode \/ NotLaunched \/ RecordResult \/ Capture \/ Crash
           \/ (\E status \in Statuses, unread \in BOOLEAN : RunEnds(status, unread))
           \/ (\E removed, swept \in BOOLEAN : CleanUp(removed, swept))
           \/ (\E calculated \in BOOLEAN : Seal(calculated))
  <2>1. setup' = setup /\ decisions' = decisions /\ starts' = starts /\ permits' \subseteq permits
    BY <1>5 DEF StartCode, NotLaunched, RecordResult, Capture, Crash, RunEnds, CleanUp, Seal,
                ledger, world
  <2>2. run'.at # "launch"
    <3>1. CASE StartCode \/ Crash \/ \E calculated \in BOOLEAN : Seal(calculated)
      BY <3>1 DEF StartCode, Crash, Seal, Raises, Idle
    <3>2. CASE RecordResult
      BY <3>2, Advance DEF RecordResult, Raises, Idle
    <3>4. CASE NotLaunched
      <4>1. run'.at = "record" \/ run' = Idle
        BY <3>4, <1>0 DEF NotLaunched, ProviderRaises, Raises, Memory
      <4> QED BY <4>1 DEF Idle
    <3>5. CASE Capture
      <4>1. run'.at = "seal"
        BY <3>5, <1>0 DEF Capture, Memory
      <4> QED BY <4>1
    <3>3. CASE \/ \E status \in Statuses, unread \in BOOLEAN : RunEnds(status, unread)
               \/ \E removed, swept \in BOOLEAN : CleanUp(removed, swept)
      <4>1. run'.at = "ended" \/ run'.at = "record"
        BY <3>3, <1>0 DEF RunEnds, GoesOn, CleanUp, Memory
      <4> QED BY <4>1
    <3> QED BY <1>5, <3>1, <3>2, <3>3, <3>4, <3>5
  <2> QED BY <1>4, <2>1, <2>2
<1>6. CASE \/ \E r \in live, c \in Contents : WritesOutput(r, c)
           \/ \E op \in FileOps, c \in Contents : WriteFile(op, c)
           \/ \E op \in FileOps : ReadFile(op)
           \/ FileRecorded \/ (\E r \in live : OrphanEnds(r)) \/ UNCHANGED vars
    BY <1>4, <1>6 DEF WritesOutput, WriteFile, ReadFile, FileRecorded, OrphanEnds, vars, ledger, world
<1> QED BY <1>1, <1>2, <1>3, <1>5, <1>6 DEF Next

LEMMA LeftStep == ASSUME IInv, [Next]_vars PROVE LeftoversAreOfRuns' /\ LeftoversAreReported'
<1> USE DEF IInv
<1>0. /\ run \in Memory /\ Current \in Actions /\ starts \in [Actions -> Nat]
      /\ live \cup kept \subseteq Runs
      /\ \A a \in Actions : results[a] # None => results[a].run \in Nat
    BY CurrentIsAction DEF TypeOK, Memory, Results
<1>00. ThisRun = <<Current, starts[Current]>>
    BY DEF ThisRun
<1>1. CASE Launch
  <2>1. /\ setup' = setup /\ results' = results /\ run'.at = "running"
        /\ starts' = [starts EXCEPT ![Current] = starts[Current] + 1]
    BY <1>1, <1>0 DEF Launch, ledger, Memory
  <2> DEFINE new == <<Current, starts[Current] + 1>>
  <2>2. /\ live' \cup kept' \subseteq live \cup kept \cup {new}
        /\ setup.provider # "podman" => kept' = kept
    BY <1>1 DEF Launch
  <2>3. /\ \A a \in Actions : starts[a] <= starts'[a]
        /\ starts'[Current] = starts[Current] + 1 /\ starts[Current] \in Nat
        /\ \A a \in Actions : starts[a] \in Nat /\ starts'[a] \in Nat
    BY <2>1, <1>0
  <2>4. \A r \in live' \cup kept' : r[2] <= starts'[r[1]]
    <3> SUFFICES ASSUME NEW r \in live \cup kept \cup {new} PROVE r[2] <= starts'[r[1]]
      BY <2>2
    <3>1. CASE r = new
      BY <2>3, <3>1
    <3>2. CASE r \in live \cup kept
      <4>1. r[1] \in Actions /\ r[2] \in Nat /\ r[2] <= starts[r[1]]
        BY <3>2, <1>0 DEF LeftoversAreOfRuns, Runs
      <4> QED BY <2>3, <4>1
    <3> QED BY <3>1, <3>2
  <2>5. \A a \in Actions : results[a] # None => results[a].run <= starts[a] /\ results[a].run <= starts'[a]
    BY <2>3, <1>0 DEF LeftoversAreOfRuns
  <2>6. \A a \in Actions : results[a] # None =>
            (<<a, results[a].run>> \in live' \cup kept' => <<a, results[a].run>> \in live \cup kept)
    <3> SUFFICES ASSUME NEW a \in Actions, results[a] # None, <<a, results[a].run>> = new PROVE FALSE
      BY <2>2
    <3>1. a = Current /\ results[a].run = starts[Current] + 1
      OBVIOUS
    <3> QED BY <2>3, <2>5, <3>1
  <2> HIDE DEF new
  <2>7. LeftoversAreReported'
    BY <2>1, <2>6 DEF LeftoversAreReported
  <2> QED BY <2>1, <2>2, <2>4, <2>5, <2>7 DEF LeftoversAreOfRuns
<1>2. CASE RecordResult
  <2>1. /\ live' = live /\ kept' = kept /\ starts' = starts /\ setup' = setup
        /\ run.at = "record" /\ run'.at \notin {"ended", "record"}
    BY <1>2, Advance DEF RecordResult, world, Raises, Idle
  <2> DEFINE new == [status |-> run.got, cleanup |-> run.cleanup, run |-> starts[Current]]
  <2>2. CASE results' = results
    BY <2>1, <2>2 DEF LeftoversAreOfRuns, LeftoversAreReported
  <2>3. CASE results' = [results EXCEPT ![Current] = new]
    <3>1. \A a \in Actions : results'[a] = IF a = Current THEN new ELSE results[a]
      BY <2>3, <1>0 DEF TypeOK
    <3>2. new.run = starts[Current] /\ new.status = run.got /\ new.cleanup = run.cleanup
      OBVIOUS
    <3> HIDE DEF new
    <3>3. \A a \in Actions : results'[a] # None => results'[a].run <= starts[a]
      BY <3>1, <3>2, <1>0 DEF LeftoversAreOfRuns
    <3>4. setup.provider = "podman" =>
          /\ new.status = "succeeded" => <<Current, new.run>> \notin live \cup kept
          /\ <<Current, new.run>> \in live \cup kept => "failed" \in {new.status, new.cleanup}
      BY <2>1, <3>2, <1>00 DEF LeftoversAreOfRuns
    <3>5. LeftoversAreReported'
      BY <2>1, <3>1, <3>4 DEF LeftoversAreReported
    <3> QED BY <2>1, <3>3, <3>5 DEF LeftoversAreOfRuns
  <2> QED BY <1>2, <2>2, <2>3 DEF RecordResult
<1>3. CASE /\ live' \subseteq live /\ kept' \subseteq kept
           /\ UNCHANGED <<setup, starts, results>>
           /\ run' = run \/ run'.at \notin {"ended", "record"}
  <2>1. run' = run => ThisRun' = ThisRun
    BY <1>3 DEF ThisRun, Current
  <2> QED BY <1>3, <2>1 DEF LeftoversAreOfRuns, LeftoversAreReported
<1>4. CASE \E status \in Statuses, unread \in BOOLEAN : RunEnds(status, unread)
  <2>1. PICK status \in Statuses, unread \in BOOLEAN : RunEnds(status, unread)
    BY <1>4
  <2>2. /\ run'.at = "ended" /\ run'.got = status /\ run'.unread = unread
        /\ run'.of = run.of /\ (unread => status = "failed")
        /\ UNCHANGED <<setup, starts, results, kept>> /\ live' \subseteq live
    BY <2>1, <1>0 DEF RunEnds, GoesOn, ledger, Memory
  <2>3. ThisRun' = ThisRun
    BY <2>2 DEF ThisRun, Current
  <2> QED BY <2>2, <2>3 DEF LeftoversAreOfRuns, LeftoversAreReported
<1>5. CASE \E removed, swept \in BOOLEAN : CleanUp(removed, swept)
  <2>1. PICK removed \in BOOLEAN, swept \in BOOLEAN : CleanUp(removed, swept)
    BY <1>5
  <2>2. /\ run.at = "ended" /\ run'.at = "record" /\ run'.of = run.of
        /\ run'.got = IF Stays(removed) /\ run.got = "succeeded" THEN "failed" ELSE run.got
        /\ Stays(removed) => run'.cleanup = "failed"
        /\ UNCHANGED <<setup, starts, results>> /\ live' \subseteq live /\ kept' \subseteq kept
        /\ Removes /\ removed => ThisRun \notin live' \cup kept'
    BY <2>1, <1>0 DEF CleanUp, ledger, Memory
  <2>3. ThisRun' = ThisRun
    BY <2>2 DEF ThisRun, Current
  <2>4. run'.got \in Statuses
    BY <2>2 DEF LeftoversAreOfRuns, Statuses
  <2>5. setup.provider = "podman" =>
        /\ run'.got = "succeeded" => ThisRun \notin live' \cup kept'
        /\ ThisRun \in live' \cup kept' => "failed" \in {run'.got, run'.cleanup}
    <3>1. CASE Removes /\ removed
      BY <2>2, <3>1
    <3>2. CASE Stays(removed)
      BY <2>2, <3>2
    <3>3. CASE ~Removes /\ setup.provider = "podman"
      BY <2>2, <3>3 DEF Removes, Stays, LeftoversAreOfRuns
    <3> QED BY <3>1, <3>2, <3>3 DEF Removes, Stays
  <2> QED BY <2>2, <2>3, <2>4, <2>5 DEF LeftoversAreOfRuns, LeftoversAreReported
<1>6. CASE NotLaunched
  <2>1. UNCHANGED <<setup, starts, results, live, kept>>
    BY <1>6 DEF NotLaunched, ledger, world
  <2>2. CASE run' = [run EXCEPT !.at = "record", !.got = "failed"]
    <3>1. run'.at = "record" /\ run'.got = "failed" /\ run'.of = run.of
      BY <2>2, <1>0 DEF Memory
    <3>2. ThisRun' = ThisRun
      BY <2>1, <3>1 DEF ThisRun, Current
    <3> QED BY <2>1, <3>1, <3>2 DEF LeftoversAreOfRuns, LeftoversAreReported, Statuses
  <2>3. CASE run' = Idle
    BY <1>3, <2>1, <2>3 DEF Idle
  <2> QED BY <1>6, <2>2, <2>3 DEF NotLaunched, ProviderRaises, Raises
<1>7. CASE StartCode \/ StartAction \/ Capture \/ Crash \/ \E calculated \in BOOLEAN : Seal(calculated)
  <2>1. UNCHANGED <<setup, starts, results, live, kept>>
    BY <1>7 DEF StartCode, StartAction, Capture, Crash, Seal, ledger, world
  <2>2. \/ run'.at = "start" \/ run'.at = "launch" \/ run'.at = "seal" \/ run'.at = "idle"
    <3>1. CASE StartCode \/ Crash \/ \E calculated \in BOOLEAN : Seal(calculated)
      BY <3>1 DEF StartCode, Crash, Seal, Raises, Idle
    <3>2. CASE StartAction
      <4>1. run'.at = "launch" \/ run' = Idle
        BY <3>2, <1>0 DEF StartAction, StartRefused, Raises, Memory
      <4> QED BY <4>1 DEF Idle
    <3>3. CASE Capture
      BY <3>3, <1>0 DEF Capture, Memory
    <3> QED BY <1>7, <3>1, <3>2, <3>3
  <2> QED BY <1>3, <2>1, <2>2
<1>8. CASE \/ \E a \in Actions, scope \in ScopesUsed : Authorize(a, scope)
           \/ \E r \in live, c \in Contents : WritesOutput(r, c)
           \/ \E op \in FileOps, c \in Contents : WriteFile(op, c)
           \/ \E op \in FileOps : ReadFile(op)
           \/ FileRecorded \/ (\E r \in live : OrphanEnds(r)) \/ UNCHANGED vars
    BY <1>3, <1>8 DEF Authorize, WritesOutput, WriteFile, ReadFile, FileRecorded, OrphanEnds, vars,
                      ledger, world
<1> QED BY <1>1, <1>2, <1>4, <1>5, <1>6, <1>7, <1>8 DEF Next

\* A result is recorded of a key that had none: what is recorded of others stays.
LEMMA Recording ==
    ASSUME IInv, RecordResult
    PROVE  \/ run' = Idle /\ results' = results
           \/ /\ run' = AfterResult
              /\ results'[Current] # None /\ results'[Current].status = run.got
              /\ \A a \in Actions : results[a] # None => results'[a] = results[a]
              /\ run.got \in Statuses
<1>0. /\ run \in Memory /\ Current \in Actions /\ run.got \in Statuses /\ starts[Current] \in Nat
      /\ results \in [Actions -> Results \cup {None}]
    BY CurrentIsAction DEF IInv, TypeOK, Memory, RecordResult, LeftoversAreOfRuns
<1> DEFINE new == [status |-> run.got, cleanup |-> run.cleanup, run |-> starts[Current]]
<1>1. new \in Results /\ new.status = run.got
    BY <1>0 DEF Results, Memory
<1>2. new # None
    BY <1>1, NoneIsNoResult
<1> HIDE DEF new
<1>3. \/ run' = Idle /\ results' = results
      \/ /\ results[Current] = None
         /\ results' = [results EXCEPT ![Current] = new] /\ run' = AfterResult
    BY DEF RecordResult, Raises, ResultKeyIsFree, new
<1> QED BY <1>0, <1>1, <1>2, <1>3

\* What is on record stays there.
LEMMA RecordsStay ==
    ASSUME \A a \in Actions : results[a] # None => results'[a] = results[a], NEW m,
           NEW tests \in Seq(Statuses)
    PROVE  /\ Recorded(Main, m) => results'[Main] # None /\ results'[Main].status = m
           /\ TestsRecorded(tests) =>
                 \A i \in 1 .. Len(tests) :
                    results'[Tests[i]] # None /\ results'[Tests[i]].status = tests[i]
<1>1. Main \in Actions
    BY DEF Actions
<1>2. ASSUME Len(tests) <= Len(Tests), NEW i \in 1 .. Len(tests) PROVE Tests[i] \in Actions
  <2>1. i \in 1 .. Len(Tests)
    BY <1>2, TestsAreCounted
  <2> QED BY <2>1, TestsAreCounted
<1> QED BY <1>1, <1>2 DEF Recorded, TestsRecorded

LEMMA MemoryOnRecordStep == ASSUME IInv, [Next]_vars PROVE MemoryIsOnRecord'
<1> USE DEF IInv, MemoryIsOnRecord
<1>0. /\ run \in Memory /\ run.of \in 0 .. Len(Tests) /\ run.tests \in Seq(Statuses)
      /\ run.main \in Statuses \cup {None} /\ Idle.at = "idle"
      /\ manifest # None => manifest.tests \in Seq(Statuses)
    BY DEF TypeOK, Memory, Idle, Manifests
<1>1. CASE RecordResult /\ run' = AfterResult
  <2>1. /\ results'[Current] # None /\ results'[Current].status = run.got /\ run.got \in Statuses
        /\ \A a \in Actions : results[a] # None => results'[a] = results[a]
        /\ manifest' = manifest /\ run.at = "record"
    BY <1>1, <1>0, Recording DEF RecordResult, AfterResult, Idle
  <2>2. manifest' # None => Recorded(Main, manifest.main)' /\ TestsRecorded(manifest.tests)'
    <3> SUFFICES ASSUME manifest # None
                 PROVE  Recorded(Main, manifest.main)' /\ TestsRecorded(manifest.tests)'
      BY <2>1
    <3>1. /\ Recorded(Main, manifest.main) /\ TestsRecorded(manifest.tests)
          /\ manifest.tests \in Seq(Statuses)
      BY <1>0
    <3>2. /\ results'[Main] # None /\ results'[Main].status = manifest.main
          /\ \A i \in 1 .. Len(manifest.tests) :
                results'[Tests[i]] # None /\ results'[Tests[i]].status = manifest.tests[i]
      BY <2>1, <3>1, RecordsStay
    <3>3. Len(manifest.tests) <= Len(Tests)
      BY <3>1 DEF TestsRecorded
    <3> QED BY <2>1, <3>2, <3>3 DEF Recorded, TestsRecorded
  <2>3. CASE run.of = 0
    <3>1. Current = Main /\ run'.main = run.got /\ run'.tests = <<>>
      BY <1>1, <2>3, Advance DEF Current
    <3>2. run'.at = "start" => run'.of = 1 /\ run'.main = "succeeded"
      BY <1>1, <2>3, Advance
    <3>3. run'.at = "capture" => (run'.main = "succeeded" => 0 = Len(Tests))
      BY <1>1, <2>3, <3>1, TestsAreCounted, Advance
    <3>4. TestsRecorded(<<>>)' /\ Len(<<>>) = 0
      BY TestsAreCounted DEF TestsRecorded
    <3>5. Recorded(Main, run.main)' /\ TestsRecorded(run.tests)'
      BY <2>1, <3>1, <3>4 DEF Recorded
    <3> QED BY <1>1, <2>1, <2>2, <3>1, <3>2, <3>3, <3>4, <3>5, Advance
  <2>4. CASE run.of > 0
    <3>1. /\ run.main = "succeeded" /\ Recorded(Main, run.main) /\ TestsRecorded(run.tests)
          /\ Len(run.tests) = run.of - 1
      BY <2>1, <2>4
    <3>2. Current = Tests[run.of] /\ run'.main = run.main /\ run'.tests = Append(run.tests, run.got)
      BY <1>1, <2>4, Advance, <1>0 DEF Current
    <3>3. /\ Len(run'.tests) = run.of /\ run.of \in 1 .. Len(Tests) /\ Len(Tests) \in Nat
          /\ \A i \in 1 .. Len(run.tests) : run'.tests[i] = run.tests[i]
          /\ run'.tests[run.of] = run.got
      BY <1>0, <2>1, <2>4, <3>1, <3>2, TestsAreCounted
    <3>4. /\ results'[Main] # None /\ results'[Main].status = run.main
          /\ \A i \in 1 .. Len(run.tests) :
                results'[Tests[i]] # None /\ results'[Tests[i]].status = run.tests[i]
      BY <1>0, <2>1, <3>1, RecordsStay
    <3>5. \A i \in 1 .. run.of :
              results'[Tests[i]] # None /\ results'[Tests[i]].status = run'.tests[i]
      <4> SUFFICES ASSUME NEW i \in 1 .. run.of
                   PROVE  results'[Tests[i]] # None /\ results'[Tests[i]].status = run'.tests[i]
        OBVIOUS
      <4>1. CASE i = run.of
        BY <2>1, <3>2, <3>3, <4>1
      <4>2. CASE i # run.of
        <5>1. i \in 1 .. Len(run.tests)
          BY <3>1, <3>3, <4>2
        <5> QED BY <3>3, <3>4, <5>1
      <4> QED BY <4>1, <4>2
    <3>6. Recorded(Main, run.main)' /\ TestsRecorded(run.tests)'
      BY <3>2, <3>3, <3>4, <3>5 DEF Recorded, TestsRecorded
    <3>7. run'.at = "start" => run'.of = run.of + 1
      BY <1>1, Advance
    <3>8. run'.at = "capture" => Len(run'.tests) = Len(Tests)
      BY <1>1, <3>1, <3>2, <3>3, Advance
    <3> QED BY <1>1, <2>2, <3>1, <3>2, <3>3, <3>6, <3>7, <3>8, Advance DEF Statuses
  <2> QED BY <1>0, <2>3, <2>4
<1>2. CASE /\ UNCHANGED <<results, manifest>>
           /\ run'.at \notin {"start", "launch", "running", "ended", "record", "capture", "seal"}
  BY <1>2 DEF Recorded, TestsRecorded
<1>3. CASE /\ UNCHANGED <<results, manifest>> /\ run'.of = run.of /\ run'.main = run.main
           /\ run'.tests = run.tests
           /\ \/ run'.at = run.at
              \/ {run.at, run'.at} \subseteq {"start", "launch", "running", "ended", "record"}
              \/ {run.at, run'.at} \subseteq {"capture", "seal"}
  <2>1. /\ Recorded(Main, run.main)' <=> Recorded(Main, run.main)
        /\ TestsRecorded(run.tests)' <=> TestsRecorded(run.tests)
        /\ Recorded(Main, manifest.main)' <=> Recorded(Main, manifest.main)
        /\ TestsRecorded(manifest.tests)' <=> TestsRecorded(manifest.tests)
    BY <1>3 DEF Recorded, TestsRecorded
  <2> QED BY <1>3, <2>1
<1>4. CASE StartCode
  <2>1. UNCHANGED <<results, manifest>> /\ run'.at = "start" /\ run'.of = 0
    BY <1>4 DEF StartCode, ledger, Idle
  <2> QED BY <2>1 DEF Recorded, TestsRecorded
<1>5. CASE \E calculated \in BOOLEAN : Seal(calculated)
  <2>1. PICK calculated \in BOOLEAN : Seal(calculated)
    BY <1>5
  <2>2. /\ run.at = "seal" /\ run' = Idle /\ results' = results
        /\ \/ manifest' = manifest
           \/ /\ manifest'.main = run.main /\ manifest'.tests = run.tests
    BY <2>1 DEF Seal, Raises
  <2> QED BY <1>0, <2>2 DEF Recorded, TestsRecorded
<1>6. CASE StartAction \/ Launch \/ NotLaunched \/ Capture
           \/ (\E status \in Statuses, unread \in BOOLEAN : RunEnds(status, unread))
           \/ (\E removed, swept \in BOOLEAN : CleanUp(removed, swept))
  <2>1. UNCHANGED <<results, manifest>>
    BY <1>6 DEF StartAction, Launch, NotLaunched, Capture, RunEnds, CleanUp, ledger
  <2>2. CASE run' = Idle
    BY <1>0, <1>2, <2>1, <2>2
  <2>3. CASE run' # Idle
    <3>1. run'.of = run.of /\ run'.main = run.main /\ run'.tests = run.tests
      BY <1>6, <2>3, <1>0 DEF StartAction, StartRefused, Launch, NotLaunched, ProviderRaises,
            Raises, Capture, RunEnds, CleanUp, Memory
    <3>2. \/ run.at = "start" /\ run'.at = "launch"
          \/ run.at = "launch" /\ run'.at = "running"
          \/ run.at = "launch" /\ run'.at = "record"
          \/ run.at = "running" /\ run'.at = "ended"
          \/ run.at = "ended" /\ run'.at = "record"
          \/ run.at = "capture" /\ run'.at = "seal"
      BY <1>6, <2>3, <1>0 DEF StartAction, StartRefused, Launch, NotLaunched, ProviderRaises,
            Raises, Capture, RunEnds, CleanUp, Memory
    <3> QED BY <1>3, <2>1, <3>1, <3>2
  <2> QED BY <2>2, <2>3
<1>7. CASE RecordResult /\ run' = Idle /\ results' = results
    BY <1>0, <1>2, <1>7 DEF RecordResult
<1>8. CASE Crash
    BY <1>0, <1>2, <1>8 DEF Crash, Raises, ledger
<1>9. CASE \/ \E a \in Actions, scope \in ScopesUsed : Authorize(a, scope)
           \/ \E r \in live, c \in Contents : WritesOutput(r, c)
           \/ \E op \in FileOps, c \in Contents : WriteFile(op, c)
           \/ \E op \in FileOps : ReadFile(op)
           \/ FileRecorded \/ (\E r \in live : OrphanEnds(r)) \/ UNCHANGED vars
    BY <1>3, <1>9 DEF Authorize, WritesOutput, WriteFile, ReadFile, FileRecorded, OrphanEnds, vars,
                      ledger
<1> QED BY <1>1, <1>4, <1>5, <1>6, <1>7, <1>8, <1>9, Recording DEF Next

AllSucceeded == \A a \in Actions : results[a] # None /\ results[a].status = "succeeded"

LEMMA ManifestStep == ASSUME IInv, [Next]_vars PROVE ManifestRestsOnResults'
<1> USE DEF IInv
<1>0. /\ manifest # None => manifest.tests \in Seq(Statuses)
      /\ manifest' # None => manifest'.tests \in Seq(Statuses)
    BY TypeStep DEF TypeOK, Manifests
<1>1. MemoryIsOnRecord'
    BY MemoryOnRecordStep
<1>2. /\ manifest # None /\ manifest.status = "succeeded" => AllSucceeded
      /\ \A a \in Actions : results[a] # None => results'[a] = results[a]
  <2>1. \A a \in Actions : results[a] # None => results'[a] = results[a]
    <3>1. CASE RecordResult
      BY <3>1, Recording
    <3>2. CASE results' = results
      BY <3>2
    <3> QED BY <3>1, <3>2 DEF Next, vars, Authorize, StartCode, StartAction, Launch, NotLaunched,
          WritesOutput, RunEnds, CleanUp, Capture, Seal, WriteFile, ReadFile, FileRecorded, Crash,
          OrphanEnds, ledger
  <2> QED BY <2>1 DEF ManifestRestsOnResults, AllSucceeded
<1>3. manifest' = manifest \/ \E calculated \in BOOLEAN : Seal(calculated)
    BY DEF Next, vars, Authorize, StartCode, StartAction, Launch, NotLaunched, WritesOutput,
           RunEnds, CleanUp, RecordResult, Capture, WriteFile, ReadFile, FileRecorded, Crash,
           OrphanEnds, ledger
<1>4. manifest' # None /\ manifest'.status = "succeeded" => AllSucceeded'
  <2>1. CASE manifest' = manifest
    BY <1>2, <2>1 DEF AllSucceeded
  <2>2. CASE manifest' # manifest /\ manifest'.status = "succeeded"
    <3>1. PICK calculated \in BOOLEAN : Seal(calculated)
      BY <1>3, <2>2
    <3>2. /\ run.at = "seal" /\ Verdict(calculated) = "succeeded" /\ results' = results
      BY <2>2, <3>1 DEF Seal
    <3>3. run.main = "succeeded" /\ TestsPassed
      BY <3>2 DEF Verdict
    <3>4. /\ Recorded(Main, run.main) /\ TestsRecorded(run.tests) /\ Len(run.tests) = Len(Tests)
          /\ run.tests \in Seq(Statuses)
      BY <3>2, <3>3 DEF MemoryIsOnRecord, TypeOK
    <3>5. \A i \in DOMAIN Tests : Recorded(Tests[i], "succeeded")
      BY <3>3, <3>4, TestsAreCounted DEF TestsPassed, TestsRecorded
    <3> QED BY <3>2, <3>3, <3>4, <3>5 DEF AllSucceeded, Actions, TestActions, Recorded
  <2> QED BY <2>1, <2>2
<1>5. manifest' # None =>
        /\ results'[Main] # None /\ results'[Main].status = manifest'.main
        /\ \A i \in DOMAIN manifest'.tests :
              results'[Tests[i]] # None /\ results'[Tests[i]].status = manifest'.tests[i]
    BY <1>0, <1>1 DEF MemoryIsOnRecord, Recorded, TestsRecorded
<1> QED BY <1>4, <1>5 DEF ManifestRestsOnResults, AllSucceeded

LEMMA FileStep == ASSUME IInv, [Next]_vars PROVE FileWasSeen' /\ FileRecordsAreTrue'
<1> USE DEF IInv, FileWasSeen, FileRecordsAreTrue
<1>0. /\ run \in Memory
      /\ filed \in [FileRecords -> Contents \cup {Torn, None}]
    BY DEF TypeOK, Memory
<1>1. CASE /\ UNCHANGED <<file, had, filed, manifest, tool>>
           /\ run'.at = "seal" => run' = run
    BY <1>1
<1>2. CASE Capture
  <2>1. run'.saw \in {file, Missing} /\ UNCHANGED <<file, had, filed, manifest, tool>>
    BY <1>2, <1>0 DEF Capture, Memory, ledger, disk
  <2> QED BY <2>1
<1>3. CASE \E calculated \in BOOLEAN : Seal(calculated)
  <2>1. PICK calculated \in BOOLEAN : Seal(calculated)
    BY <1>3
  <2>2. /\ UNCHANGED <<file, had, filed, tool>> /\ run.at = "seal" /\ run'.at = "idle"
        /\ manifest' = manifest \/ manifest'.saw = run.saw
    BY <2>1 DEF Seal, Raises, Idle, disk
  <2> QED BY <2>2
<1>4. CASE \/ \E r \in live, c \in Contents : WritesOutput(r, c)
           \/ \E op \in FileOps, c \in Contents : WriteFile(op, c)
  <2>1. /\ UNCHANGED <<filed, manifest, run>> /\ had \subseteq had' /\ file' \in had'
        /\ tool' = tool \/ tool'.content = file'
    BY <1>4 DEF WritesOutput, WriteFile, ledger
  <2> QED BY <2>1
<1>5. CASE \E op \in FileOps : ReadFile(op)
  <2>1. /\ UNCHANGED <<filed, manifest, run, file, had>> /\ file # Missing /\ tool'.content = file
    BY <1>5 DEF ReadFile, ledger, disk
  <2> QED BY <2>1
<1>6. CASE FileRecorded
  <2>1. /\ UNCHANGED <<manifest, run, file, had>> /\ tool' = NoTool /\ tool # NoTool
        /\ \/ filed' = filed
           \/ filed' = [filed EXCEPT ![FileRecord] = tool.content]
    BY <1>6 DEF FileRecorded, disk
  <2> QED BY <1>0, <2>1
<1>7. CASE Crash
  <2>1. UNCHANGED <<filed, manifest, file, had>> /\ run'.at = "idle" /\ tool' = NoTool
    BY <1>7 DEF Crash, Raises, Idle, ledger, disk
  <2> QED BY <2>1
<1>8. CASE StartCode \/ StartAction \/ Launch \/ NotLaunched \/ RecordResult
           \/ (\E status \in Statuses, unread \in BOOLEAN : RunEnds(status, unread))
           \/ (\E removed, swept \in BOOLEAN : CleanUp(removed, swept))
  <2>1. UNCHANGED <<file, had, filed, manifest, tool>>
    BY <1>8 DEF StartCode, StartAction, Launch, NotLaunched, RecordResult, RunEnds, CleanUp,
                ledger, disk
  <2>2. run'.at \in {"idle", "start", "launch", "running", "record", "ended", "capture"}
    <3>1. CASE StartCode \/ RecordResult
      BY <3>1, Advance DEF StartCode, RecordResult, Raises, Idle
    <3>2. CASE StartAction \/ Launch \/ NotLaunched
      <4>1. run' = Idle \/ run'.at \in {"launch", "running", "record"}
        BY <3>2, <1>0 DEF StartAction, StartRefused, Launch, NotLaunched, ProviderRaises, Raises,
                          Memory
      <4> QED BY <4>1 DEF Idle
    <3>3. CASE \/ \E status \in Statuses, unread \in BOOLEAN : RunEnds(status, unread)
               \/ \E removed, swept \in BOOLEAN : CleanUp(removed, swept)
      BY <3>3, <1>0 DEF RunEnds, GoesOn, CleanUp, Memory
    <3> QED BY <1>8, <3>1, <3>2, <3>3
  <2> QED BY <1>1, <2>1, <2>2
<1>9. CASE \/ \E a \in Actions, scope \in ScopesUsed : Authorize(a, scope)
           \/ (\E r \in live : OrphanEnds(r)) \/ UNCHANGED vars
    BY <1>1, <1>9 DEF Authorize, OrphanEnds, vars, ledger, disk
<1> QED BY <1>2, <1>3, <1>4, <1>5, <1>6, <1>7, <1>8, <1>9 DEF Next
-----------------------------------------------------------------------------
LEMMA Inductive == ASSUME IInv, [Next]_vars PROVE IInv'
BY TypeStep, DecidedStep, LeftStep, MemoryOnRecordStep, ManifestStep, FileStep DEF IInv

\* The strengthening of every invariant below is one of the tools on one ledger.
THEOREM Invariance == Spec => []IInv
<1>1. Init => IInv
    BY Initially
<1>2. IInv /\ [Next]_vars => IInv'
    BY Inductive
<1> QED BY <1>1, <1>2, PTL DEF Spec

\* Type correctness: ledger, memory, processes and disk keep their forms.
THEOREM TypeCorrectness == Spec => []TypeOK
<1>1. IInv => TypeOK
    BY DEF IInv
<1> QED BY <1>1, Invariance, PTL

\* Code is started under a recorded request and authorization of its action, and the
\* sandbox's own decision stands for one start (SandboxRunner.execute).
THEOREM StartsAreDecided == Spec => []CodeStartsAsDecided
<1>1. IInv => CodeStartsAsDecided
    BY DEF IInv
<1> QED BY <1>1, Invariance, PTL

\* What CodeExecutionRunner seals rests on recorded results, of every declared test
\* when it says succeeded.
THEOREM ManifestsRestOnResults == Spec => []ManifestRestsOnResults
<1>1. IInv => ManifestRestsOnResults
    BY DEF IInv
<1> QED BY <1>1, Invariance, PTL

\* A recorded success left neither code nor container, and what else is left is told.
THEOREM LeftoversAreAlwaysReported == Spec => []LeftoversAreReported
<1>1. IInv => LeftoversAreReported
    BY DEF IInv
<1> QED BY <1>1, Invariance, PTL

\* The ledger tells of the output file only what it held.
THEOREM FileRecordsStayTrue == Spec => []FileRecordsAreTrue
<1>1. IInv => FileRecordsAreTrue
    BY DEF IInv
<1> QED BY <1>1, Invariance, PTL
=============================================================================
