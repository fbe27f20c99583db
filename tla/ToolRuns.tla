------------------------------ MODULE ToolRuns ------------------------------
(***************************************************************************)
(* The tools of airbench/tools: the Tool Gateway that decides an action,   *)
(* the sandbox that runs one action's code through a provider (a local     *)
(* subprocess, or a Podman container), the code execution that runs a main *)
(* action and its declared tests and seals one manifest, and the file      *)
(* tool that works on the same workspace.  They share one ledger, and each *)
(* has its own answer to a key the ledger already holds: the gateway, the  *)
(* file tool and the manifest return the old event, the sandbox fails.     *)
(*                                                                         *)
(* The workspace is one output file.  A run of code is a pair of the       *)
(* action and how many times it has been started; the code may outlive the *)
(* process that started it.  Every append may fail.                        *)
(***************************************************************************)
EXTENDS Naturals, Sequences, FiniteSets

CONSTANTS
    Main,       \* the action of the code execution
    Tests,      \* its declared tests, in order
    FileOps,    \* operation ids of the file tool
    Contents,   \* what a write may put in the output file
    Torn,       \* what a write that failed half-way leaves
    Missing,    \* the output file is not there
    None,       \* nothing
    Setups,     \* the providers, each with the actions that go through the gateway
    MaxTries    \* how often the caller asks for the code execution

TestActions == {Tests[i] : i \in DOMAIN Tests}
Actions == {Main} \cup TestActions

ASSUME ToolsAssumption ==
    /\ Tests \in Seq(TestActions) /\ Main \notin TestActions
    /\ \A i, j \in DOMAIN Tests : Tests[i] = Tests[j] => i = j
    /\ Missing \notin Contents /\ Torn \notin Contents /\ Torn # Missing
    /\ MaxTries \in Nat
    /\ Setups \subseteq [provider : {"local", "podman"}, gated : {{}, {Main}, Actions}]
    /\ None \notin FileOps /\ None \notin Contents /\ None \notin {Torn, Missing}

Statuses == {"succeeded", "failed", "timed_out"}
Cleanups == {"completed", "failed"}
Runs == Actions \X Nat
FileRecords == {"staged", "checked"} \X FileOps
FileStates == Contents \cup {Torn, Missing}
EventTypes == {"requested", "authorized", "denied", "own requested", "own authorized"}
Results == [status : Statuses, cleanup : Cleanups, run : Nat]
ManifestStatuses == Statuses \cup {"needs_review"}
Manifests == [status : ManifestStatuses, main : Statuses, tests : Seq(Statuses), saw : FileStates]
Places == {"idle", "start", "launch", "running", "ended", "record", "capture", "seal"}
\* A capability scope: whether it has lapsed, and the actions within its identity,
\* tools, risk classes, clearance, time limit, paths and schemas.
Scopes == [lapsed : BOOLEAN, covers : SUBSET Actions]

ASSUME NoneIsNoResult == None \notin Results \cup Statuses

VARIABLES
    setup,      \* the provider, and the actions that go through the gateway
    decisions,  \* ledger: the decisions of the gateway and the sandbox's own
    results,    \* ledger: the tool.result of each action, if any
    manifest,   \* ledger: the execution manifest, if any
    filed,      \* ledger: what each file operation recorded
    permits,    \* actions the caller holds an allowed authorization for
    run,        \* the code execution in progress, in memory
    tries,      \* how often it was asked for
    starts,     \* how often each action's code was started
    live,       \* runs whose code is executing
    kept,       \* runs whose container exists
    file,       \* the output file
    had,        \* every content the output file has had
    tool        \* the file operation in progress, in memory

ledger == <<decisions, results, manifest, filed>>
world == <<starts, live, kept>>
disk == <<file, had>>
vars == <<setup, ledger, permits, run, tries, world, disk, tool>>

Idle == [at |-> "idle", of |-> 0, main |-> None, tests |-> <<>>,
         got |-> None, unread |-> FALSE, cleanup |-> "completed", saw |-> Missing]
NoTool == [op |-> None, kind |-> None, content |-> Missing]

Init ==
    /\ setup \in Setups
    /\ decisions = {}
    /\ results = [a \in Actions |-> None]
    /\ manifest = None
    /\ filed = [k \in FileRecords |-> None]
    /\ permits = {}
    /\ run = Idle
    /\ tries = 0
    /\ starts = [a \in Actions |-> 0]
    /\ live = {}
    /\ kept = {}
    /\ file = Missing
    /\ had = {}
    /\ tool = NoTool

-----------------------------------------------------------------------------
(* The gateway.                                                            *)

DenyReason(scope, a) == scope.lapsed \/ a \notin scope.covers

\* _append returns the event that has the key, so recording again changes nothing.
GatewayRecords(kinds, a) == decisions' = decisions \cup (kinds \X {a})

Authorize(a, scope) ==
    /\ a \in setup.gated
    /\ run.at = "idle"
    /\ \/ \* the decision itself could not be recorded
          /\ GatewayRecords({"requested"}, a)
          /\ UNCHANGED permits
       \/ /\ DenyReason(scope, a)
          /\ GatewayRecords({"requested", "denied"}, a)
          /\ permits' = permits \ {a}
       \/ /\ ~DenyReason(scope, a)
          /\ GatewayRecords({"requested", "authorized"}, a)
          /\ permits' = permits \cup {a}
    /\ UNCHANGED <<setup, results, manifest, filed, run, tries, world, disk, tool>>

-----------------------------------------------------------------------------
(* The sandbox and the code execution.                                     *)

Current == IF run.of = 0 THEN Main ELSE Tests[run.of]
ThisRun == <<Current, starts[Current]>>

StartCode ==
    /\ run.at = "idle"
    /\ tries < MaxTries
    /\ tries' = tries + 1
    /\ run' = [Idle EXCEPT !.at = "start"]
    /\ UNCHANGED <<setup, ledger, permits, world, disk, tool>>

\* An error leaves the call with no result.
Raises == run' = Idle

OwnKeyIsFree(kind, a) == <<kind, a>> \notin decisions

\* Mutant: an authorization object is enough, allowed or not.
AdmittedWhenAsked(a) ==
    IF a \in setup.gated
    THEN <<"requested", a>> \in decisions /\ UNCHANGED decisions
    ELSE /\ OwnKeyIsFree("own requested", a)
         /\ OwnKeyIsFree("own authorized", a)
         /\ decisions' = decisions \cup {<<"own requested", a>>, <<"own authorized", a>>}

\* Without an authorization the sandbox records the decision itself, and fails if
\* the ledger already has one of its keys.
Admitted(a) ==
    IF a \in setup.gated
    THEN a \in permits /\ UNCHANGED decisions
    ELSE /\ OwnKeyIsFree("own requested", a)
         /\ OwnKeyIsFree("own authorized", a)
         /\ decisions' = decisions \cup {<<"own requested", a>>, <<"own authorized", a>>}

\* Only the request could be recorded.
HalfAdmitted(a) ==
    /\ a \notin setup.gated
    /\ OwnKeyIsFree("own requested", a)
    /\ decisions' = decisions \cup {<<"own requested", a>>}

\* The policy, the provider's capabilities, the code or the authorization is refused,
\* or the ledger fails.
StartRefused == Raises /\ UNCHANGED decisions

StartAction ==
    /\ run.at = "start"
    /\ \/ Admitted(Current) /\ run' = [run EXCEPT !.at = "launch"]
       \/ HalfAdmitted(Current) /\ Raises
       \/ StartRefused
    /\ UNCHANGED <<setup, results, manifest, filed, permits, tries, world, disk, tool>>

Launch ==
    /\ run.at = "launch"
    /\ starts' = [starts EXCEPT ![Current] = @ + 1]
    /\ live' = live \cup {<<Current, starts[Current] + 1>>}
    /\ kept' = IF setup.provider = "podman"
               THEN kept \cup {<<Current, starts[Current] + 1>>} ELSE kept
    /\ run' = [run EXCEPT !.at = "running"]
    /\ UNCHANGED <<setup, ledger, permits, tries, disk, tool>>

\* Podman is verified again for each run; its SandboxError goes through to the caller.
ProviderRaises == setup.provider = "podman" /\ Raises

\* The worker or its directory could not be made, or the provider failed.
NotLaunched ==
    /\ run.at = "launch"
    /\ \/ run' = [run EXCEPT !.at = "record", !.got = "failed"]
       \/ ProviderRaises
    /\ UNCHANGED <<setup, ledger, permits, tries, world, disk, tool>>

WritesOutput(r, c) ==
    /\ r \in live
    /\ file' = c
    /\ had' = had \cup {c}
    /\ UNCHANGED <<setup, ledger, permits, run, tries, world, tool>>

\* What the worker ended with.  Out of time, or with output that does not decode, it
\* is the client of Podman that ends: the container goes on until it is removed.  A
\* local worker ends, or is killed, alone: the children its code has forked, which
\* the worker's guard does not deny it, go on.
GoesOn(status, unread) ==
    IF setup.provider = "podman" THEN {unread \/ status = "timed_out"} ELSE BOOLEAN

RunEnds(status, unread) ==
    /\ run.at = "running"
    /\ unread => status = "failed"
    /\ \E goesOn \in GoesOn(status, unread) :
          live' = IF goesOn THEN live ELSE live \ {ThisRun}
    /\ run' = [run EXCEPT !.at = "ended", !.got = status, !.unread = unread]
    /\ UNCHANGED <<setup, ledger, permits, tries, starts, kept, disk, tool>>

\* The provider gets to removing the container.
Removes == setup.provider = "podman" /\ ~run.unread

\* Mutant: the answer of the removal is dropped.
StaysUnnoticed(removed) == FALSE

Stays(removed) == Removes /\ ~removed

\* Removing the container and the run's directory; a container that stays turns a
\* success into a failure.
CleanUp(removed, swept) ==
    /\ run.at = "ended"
    /\ kept' = IF Removes /\ removed THEN kept \ {ThisRun} ELSE kept
    /\ live' = IF Removes /\ removed THEN live \ {ThisRun} ELSE live
    /\ run' = [run EXCEPT
           !.at = "record",
           !.got = IF Stays(removed) /\ @ = "succeeded" THEN "failed" ELSE @,
           !.cleanup = IF Stays(removed) \/ ~swept THEN "failed" ELSE "completed"]
    /\ UNCHANGED <<setup, ledger, permits, tries, starts, disk, tool>>

\* Mutant: the last declared test is not run.
StopsEarly(main) == main = "succeeded" /\ run.of + 1 < Len(Tests)

\* After main's success every declared test is run, whatever the others did.
AnotherTest(main) == main = "succeeded" /\ run.of < Len(Tests)

AfterResult ==
    LET main == IF run.of = 0 THEN run.got ELSE run.main
    IN  [Idle EXCEPT
            !.at = IF AnotherTest(main) THEN "start" ELSE "capture",
            !.of = IF AnotherTest(main) THEN run.of + 1 ELSE run.of,
            !.main = main,
            !.tests = IF run.of = 0 THEN <<>> ELSE Append(run.tests, run.got)]

ResultKeyIsFree == results[Current] = None

RecordResult ==
    /\ run.at = "record"
    /\ \/ /\ ResultKeyIsFree
          /\ results' = [results EXCEPT ![Current] =
                 [status |-> run.got, cleanup |-> run.cleanup, run |-> starts[Current]]]
          /\ run' = AfterResult
       \/ Raises /\ UNCHANGED results
    /\ UNCHANGED <<setup, decisions, manifest, filed, permits, tries, world, disk, tool>>

\* The output file is read when the tests are over, if main succeeded.
Capture ==
    /\ run.at = "capture"
    /\ run' = [run EXCEPT !.at = "seal",
                          !.saw = IF run.main = "succeeded" THEN file ELSE Missing]
    /\ UNCHANGED <<setup, ledger, permits, tries, world, disk, tool>>

TestsPassed == \A i \in DOMAIN run.tests : run.tests[i] = "succeeded"

Verdict(calculated) ==
    CASE run.main # "succeeded" -> run.main
      [] run.main = "succeeded" /\ (~TestsPassed \/ run.saw = Missing) -> "failed"
      [] OTHER -> IF calculated THEN "succeeded" ELSE "needs_review"

Seal(calculated) ==
    /\ run.at = "seal"
    /\ \/ manifest' = IF manifest # None THEN manifest
                      ELSE [status |-> Verdict(calculated), main |-> run.main,
                            tests |-> run.tests, saw |-> run.saw]
       \/ UNCHANGED manifest
    /\ Raises
    /\ UNCHANGED <<setup, decisions, results, filed, permits, tries, world, disk, tool>>

-----------------------------------------------------------------------------
(* The file tool.                                                          *)

\* Mutant: a write that failed is recorded like one that was done.
WriteFileRegardless(op, c) ==
    /\ tool = NoTool
    /\ file' \in {c, Torn}
    /\ tool' = [op |-> op, kind |-> "staged", content |-> c]
    /\ had' = had \cup {file'}
    /\ UNCHANGED <<setup, ledger, permits, run, tries, world>>

WriteFile(op, c) ==
    /\ tool = NoTool
    /\ \/ /\ file' = c
          /\ tool' = [op |-> op, kind |-> "staged", content |-> c]
       \/ /\ file' = Torn
          /\ UNCHANGED tool
    /\ had' = had \cup {file'}
    /\ UNCHANGED <<setup, ledger, permits, run, tries, world>>

ReadFile(op) ==
    /\ tool = NoTool
    /\ file # Missing
    /\ tool' = [op |-> op, kind |-> "checked", content |-> file]
    /\ UNCHANGED <<setup, ledger, permits, run, tries, world, disk>>

FileRecord == <<tool.kind, tool.op>>

FileRecorded ==
    /\ tool # NoTool
    /\ \/ filed' = IF filed[FileRecord] # None THEN filed
                   ELSE [filed EXCEPT ![FileRecord] = tool.content]
       \/ UNCHANGED filed
    /\ tool' = NoTool
    /\ UNCHANGED <<setup, decisions, results, manifest, permits, run, tries, world, disk>>

-----------------------------------------------------------------------------
\* The process stops: what it held in memory is gone, what it started goes on.
Crash ==
    /\ run.at # "idle" \/ tool # NoTool \/ permits # {}
    /\ Raises
    /\ tool' = NoTool
    /\ permits' = {}
    /\ UNCHANGED <<setup, ledger, tries, world, disk>>

Watched(r) == run.at = "running" /\ r = ThisRun

\* Code that nobody waits for comes to its end.
OrphanEnds(r) ==
    /\ r \in live
    /\ ~Watched(r)
    /\ live' = live \ {r}
    /\ UNCHANGED <<setup, ledger, permits, run, tries, starts, kept, disk, tool>>

ScopesUsed == [lapsed : BOOLEAN, covers : {Actions, TestActions}]

Next ==
    \/ \E a \in Actions, scope \in ScopesUsed : Authorize(a, scope)
    \/ StartCode
    \/ StartAction
    \/ Launch
    \/ NotLaunched
    \/ \E r \in live, c \in Contents : WritesOutput(r, c)
    \/ \E status \in Statuses, unread \in BOOLEAN : RunEnds(status, unread)
    \/ \E removed, swept \in BOOLEAN : CleanUp(removed, swept)
    \/ RecordResult
    \/ Capture
    \/ \E calculated \in BOOLEAN : Seal(calculated)
    \/ \E op \in FileOps, c \in Contents : WriteFile(op, c)
    \/ \E op \in FileOps : ReadFile(op)
    \/ FileRecorded
    \/ Crash
    \/ \E r \in live : OrphanEnds(r)

Spec == Init /\ [][Next]_vars

-----------------------------------------------------------------------------
(* Properties.                                                             *)

\* The type invariant: ledger, memory, processes and disk.
TypeOK ==
    /\ setup \in Setups
    /\ decisions \subseteq EventTypes \X Actions
    /\ results \in [Actions -> Results \cup {None}]
    /\ manifest \in Manifests \cup {None}
    /\ filed \in [FileRecords -> Contents \cup {Torn, None}]
    /\ permits \subseteq setup.gated
    /\ run \in [at : Places, of : 0 .. Len(Tests), main : Statuses \cup {None},
                tests : Seq(Statuses), got : Statuses \cup {None}, unread : BOOLEAN,
                cleanup : Cleanups, saw : FileStates]
    /\ tries \in 0 .. MaxTries
    /\ starts \in [Actions -> Nat]
    /\ live \subseteq Runs
    /\ kept \subseteq Runs
    /\ file \in FileStates
    /\ had \subseteq Contents \cup {Torn}
    /\ tool \in [op : FileOps, kind : {"staged", "checked"}, content : Contents \cup {Torn}]
               \cup {NoTool}

DecisionsFor(a) == IF a \in setup.gated THEN {"requested", "authorized"}
                   ELSE {"own requested", "own authorized"}

\* Code is started only when the ledger holds the request and the authorization of its
\* action, the gateway's or the sandbox's own, whatever append failed or process died
\* before (ToolGateway.authorize, SandboxRunner.execute); and the sandbox's own decision
\* stands for one start, however often the execution is asked for again after an error
\* or a crash, as its records hold its keys (_append_tool_event).
CodeStartsAsDecided ==
    \A a \in Actions :
        /\ starts[a] > 0 => DecisionsFor(a) \X {a} \subseteq decisions
        /\ a \notin setup.gated => starts[a] <= 1

\* What the manifest says of main and of each test is what the ledger recorded of
\* them, and a manifest that says succeeded has a recorded success of main and of
\* every declared test (CodeExecutionRunner.run).
ManifestRestsOnResults ==
    manifest # None =>
        /\ results[Main] # None /\ results[Main].status = manifest.main
        /\ \A i \in DOMAIN manifest.tests :
              /\ results[Tests[i]] # None
              /\ results[Tests[i]].status = manifest.tests[i]
        /\ manifest.status = "succeeded" =>
              \A a \in Actions : results[a] # None /\ results[a].status = "succeeded"

\* With Podman, a recorded success left neither its container nor its code behind, and
\* whatever else was left is recorded as a failure, of the run or of its clean-up
\* (PodmanProvider.execute).  LocalSubprocessProvider promises no such thing.
LeftoversAreReported ==
    \A a \in Actions : setup.provider = "podman" /\ results[a] # None =>
        LET r == results[a]
        IN  /\ r.status = "succeeded" => <<a, r.run>> \notin live \cup kept
            /\ <<a, r.run>> \in live \cup kept => "failed" \in {r.status, r.cleanup}

\* The ledger tells of the file only contents that it had: those of the file tool's
\* records, and the artifact of the manifest.
FileRecordsAreTrue ==
    /\ \A k \in DOMAIN filed : filed[k] # None => filed[k] \in had
    /\ manifest # None => manifest.saw \in had \cup {Missing}
=============================================================================
