--------------------------- MODULE DesktopProofs ---------------------------
(***************************************************************************)
(* What holds of the desktop's commands and of its view of a task, for all  *)
(* tasks, clients and bounds.  The module extends NodeCommands; TaskSync    *)
(* is the instance Sync, of which the last part speaks, and ViewPromises   *)
(* has what is to be shown of it.                                          *)
(*                                                                         *)
(* Commands: the Node's streams only grow, and what a client goes by is    *)
(* some beginning of a stream, so a command that is behind the stream will  *)
(* always be: only one that is past that check can still be recorded.      *)
(*                                                                         *)
(* Views: whatever a synchronizer holds or waits for is, event by event, a  *)
(* beginning or a piece of the stream, numbered by its place in it.        *)
(***************************************************************************)
EXTENDS NodeCommands, ViewPromises, SequenceTheorems, FiniteSetTheorems, WellFoundedInduction, TLAPS

CONSTANTS Script, Slots, MAX_EVENT_BATCH, MaxPasses, MaxAttempts
VARIABLES op, ref, cur, loop, connected, starting

Sync == INSTANCE TaskSync
-----------------------------------------------------------------------------
(***************************************************************************)
(* The commands and the Node.                                              *)
(***************************************************************************)

CommandTypes == {"created", "authorized", "approved", "stopped", "review"}
Commands == [key: Nat \ {0}, type: CommandTypes, task: Tasks, expected: Nat]
Events == [kind: Emits \cup CommandTypes, cmd: Commands \cup {NoCommand}]

Answered == {"accepted", "refused", "rejected"}

TypeOK ==
  /\ stream \in [Tasks -> Seq(Events)]
  /\ wire \in SUBSET Commands
  /\ said \in SUBSET (Answered \X wire)
  /\ serving \in [cmd: wire \cup {NoCommand}, step: {"none", "checked", "allowed"}]
  /\ clicks \in Nat
  /\ asked \in [{"start", "approve", "stop"} -> wire \cup {NoCommand}]
  /\ start \in [task: Tasks \cup {NoTask}, step: {"none", "create", "read", "authorize", "plan"}, asOf: Nat]

\* What the desktop goes by is something it read: a task's stream, some events ago.
ReadsThePast ==
  /\ \A c \in wire : c.type # "created" => c.expected <= Len(stream[c.task])
  /\ start.step # "none" => start.task \in Tasks /\ start.asOf <= Len(stream[start.task])
  /\ start.step = "create" => asked["start"] # NoCommand /\ asked["start"].task = start.task
  /\ view # NoView => view.task \in Tasks /\ view.seq \in 0..Len(stream[view.task])
  /\ review # NoReview => review.task \in Tasks /\ review.seq \in 0..Len(stream[review.task])

PartsOnly(s, m, n) == \A j \in (m + 1)..n : s[j].kind \in OfItsParts
ReadyWithin(s, m, n) == \E k \in m..n : PlanState(SubSeq(s, 1, k)) = "ready"

\* An event that was recorded for a command is that command's, and the Node's
\* other parts wrote what stands between what its sender saw and the event.
RecordedAsSent ==
  \A t \in Tasks : \A i \in 1..Len(stream[t]) :
    LET e == stream[t][i] IN
    /\ e.cmd # NoCommand =>
         /\ e.cmd \in wire /\ e.cmd.task = t /\ e.kind = e.cmd.type
         /\ e.cmd.type # "created" =>
              e.cmd.expected < i /\ PartsOnly(stream[t], e.cmd.expected, i - 1)
    /\ e.kind = "approved" =>
         e.cmd # NoCommand /\ ReadyWithin(stream[t], e.cmd.expected, i - 1)

\* What is refused for its key or its sequence would be refused again.
IsStale(c) == Known(c) # {} \/ (c.type # "created" /\ c.expected < Len(stream[c.task]))

\* What is rejected would not be recorded, unless another part of the Node
\* writes after the sequence is checked again.
IsPast(c) ==
  \/ Known(c) # {}
  \/ c.type = "created" /\ stream[c.task] # <<>>
  \/ c.type # "created" /\ c.expected < Len(stream[c.task])
  \/ c.type # "created" /\ c.expected = Len(stream[c.task]) /\ ~Allowed(c.type, stream[c.task])

RecordedLate(c) ==
  \A t \in Tasks : \A i \in 1..Len(stream[t]) :
    stream[t][i].cmd = c => c.type # "created" /\ c.expected + 1 < i

RefusedIsPast ==
  \A c \in wire :
    /\ <<"refused", c>> \in said => ~Recorded(c) /\ IsStale(c)
    /\ <<"rejected", c>> \in said => IsPast(c) /\ RecordedLate(c)

\* The command that is being served has passed what was checked of it so far.
ServingIsMet ==
  serving.step # "none" =>
    LET c == serving.cmd
        n == Len(stream[c.task])
    IN /\ c \in wire /\ Known(c) = {} /\ <<"refused", c>> \notin said
       /\ c.type # "created" => c.expected <= n /\ PartsOnly(stream[c.task], c.expected, n)
       /\ serving.step = "allowed" =>
            /\ c.type = "approved" => ReadyWithin(stream[c.task], c.expected, n)
            /\ <<"rejected", c>> \in said => c.type # "created" /\ c.expected < n

IInv == TypeOK /\ ReadsThePast /\ RecordedAsSent /\ OncePerKey /\ RefusedIsPast /\ ServingIsMet

-----------------------------------------------------------------------------
(***************************************************************************)
(* The ledger's streams only grow.                                         *)
(***************************************************************************)
LEMMA AppendKeepsPrefix ==
  ASSUME NEW S, NEW s \in Seq(S), NEW e \in S, NEW n \in 0..Len(s)
  PROVE  SubSeq(Append(s, e), 1, n) = SubSeq(s, 1, n)
<1>1. /\ Append(s, e) \in Seq(S) /\ Len(Append(s, e)) = Len(s) + 1
      /\ \A i \in 1..Len(s) : Append(s, e)[i] = s[i]
  BY AppendProperties
<1>2. \A i \in 1..n : s[i] \in S /\ Append(s, e)[i] = s[i]
  BY <1>1, ElementOfSeq
<1>3. /\ SubSeq(s, 1, n) \in Seq(S) /\ Len(SubSeq(s, 1, n)) = n
      /\ \A i \in 1..n : SubSeq(s, 1, n)[i] = s[i]
  BY <1>2, SubSeqProperties
<1>4. /\ SubSeq(Append(s, e), 1, n) \in Seq(S) /\ Len(SubSeq(Append(s, e), 1, n)) = n
      /\ \A i \in 1..n : SubSeq(Append(s, e), 1, n)[i] = Append(s, e)[i]
  BY <1>2, SubSeqProperties
<1> QED BY <1>2, <1>3, <1>4, SeqEqual

\* What an append to one stream leaves of all of them.
Grows ==
  \A t \in Tasks :
    /\ Len(stream[t]) <= Len(stream'[t])
    /\ \A i \in 1..Len(stream[t]) : stream'[t][i] = stream[t][i]
    /\ \A n \in 0..Len(stream[t]) : SubSeq(stream'[t], 1, n) = SubSeq(stream[t], 1, n)

LEMMA RecordAppends ==
  ASSUME TypeOK, NEW t \in Tasks, NEW kind \in Emits \cup CommandTypes,
         NEW c \in Commands \cup {NoCommand}, Record(t, kind, c)
  PROVE  /\ stream' \in [Tasks -> Seq(Events)]
         /\ Grows
         /\ \A u \in Tasks \ {t} : stream'[u] = stream[u]
         /\ Len(stream'[t]) = Len(stream[t]) + 1
         /\ stream'[t][Len(stream[t]) + 1] = [kind |-> kind, cmd |-> c]
         /\ SubSeq(stream'[t], 1, Len(stream[t])) = stream[t]
<1> DEFINE e == [kind |-> kind, cmd |-> c]
<1>1. e \in Events /\ stream[t] \in Seq(Events)
  BY DEF Events, TypeOK
<1>2. stream' = [stream EXCEPT ![t] = Append(stream[t], e)]
  BY DEF Record
<1>3. stream'[t] = Append(stream[t], e) /\ \A u \in Tasks \ {t} : stream'[u] = stream[u]
  BY <1>2 DEF TypeOK
<1> HIDE DEF e
<1>4. /\ stream'[t] \in Seq(Events) /\ Len(stream'[t]) = Len(stream[t]) + 1
      /\ \A i \in 1..Len(stream[t]) : stream'[t][i] = stream[t][i]
      /\ stream'[t][Len(stream[t]) + 1] = e
  BY <1>1, <1>3, AppendProperties
<1>5. \A n \in 0..Len(stream[t]) : SubSeq(stream'[t], 1, n) = SubSeq(stream[t], 1, n)
  BY <1>1, <1>3, AppendKeepsPrefix
<1>6. Len(stream[t]) \in Nat
  BY <1>1, LenProperties
<1>7. stream' \in [Tasks -> Seq(Events)]
  BY <1>2, <1>3, <1>4 DEF TypeOK
<1>8. Grows
  <2>1. ASSUME NEW u \in Tasks
        PROVE  /\ Len(stream[u]) <= Len(stream'[u])
               /\ \A i \in 1..Len(stream[u]) : stream'[u][i] = stream[u][i]
               /\ \A n \in 0..Len(stream[u]) : SubSeq(stream'[u], 1, n) = SubSeq(stream[u], 1, n)
    <3>1. Len(stream[u]) \in Nat
      BY LenProperties DEF TypeOK
    <3>2. CASE u = t
      BY <1>4, <1>5, <1>6, <3>2
    <3>3. CASE u # t
      BY <1>3, <3>1, <3>3
    <3> QED BY <3>2, <3>3
  <2> QED BY <2>1 DEF Grows
<1>9. SubSeq(stream'[t], 1, Len(stream[t])) = stream[t]
  BY <1>1, <1>5, <1>6, SubSeqFull
<1> QED BY <1>3, <1>4, <1>7, <1>8, <1>9 DEF e

LEMMA LengthType ==
  ASSUME stream \in [Tasks -> Seq(Events)], NEW t \in Tasks
  PROVE  /\ Len(stream[t]) \in Nat
         /\ \A i \in 1..Len(stream[t]) : stream[t][i] \in Events
         /\ stream[t] = <<>> <=> Len(stream[t]) = 0
BY LenProperties, ElementOfSeq, EmptySeq

LEMMA KeyApart == \A c \in Commands : c # NoCommand /\ c.key # NoCommand.key
BY DEF Commands, NoCommand

\* The event a command's key is known by, and the one that is the command.
LEMMA KnownMeans ==
  ASSUME NEW c
  PROVE  /\ Known(c) # {} <=> \E t \in Tasks : \E i \in 1..Len(stream[t]) : stream[t][i].cmd.key = c.key
         /\ Replays(c) <=> Recorded(c)
<1>1. \A e : e \in Known(c) <=>
        e.cmd.key = c.key /\ \E t \in Tasks : \E i \in 1..Len(stream[t]) : e = stream[t][i]
  BY DEF Known, RecordedUnder
<1> QED BY <1>1 DEF Replays, Recorded

LEMMA GrowingKeeps ==
  ASSUME TypeOK, Grows, stream' \in [Tasks -> Seq(Events)], NEW c
  PROVE  /\ Recorded(c) => Recorded(c)'
         /\ Known(c) # {} => Known(c)' # {}
<1>1. \A t \in Tasks : \A i \in 1..Len(stream[t]) :
        i \in 1..Len(stream'[t]) /\ stream'[t][i] = stream[t][i]
  BY LengthType DEF TypeOK, Grows
<1>2. Recorded(c) => Recorded(c)'
  BY <1>1 DEF Recorded
<1>3. ASSUME Known(c) # {}
      PROVE  \E t \in Tasks : \E i \in 1..Len(stream'[t]) : stream'[t][i].cmd.key = c.key
  <2>1. PICK t \in Tasks : \E i \in 1..Len(stream[t]) : stream[t][i].cmd.key = c.key
    BY <1>3, KnownMeans
  <2>2. PICK i \in 1..Len(stream[t]) : stream[t][i].cmd.key = c.key
    BY <2>1
  <2>3. i \in 1..Len(stream'[t]) /\ stream'[t][i].cmd.key = c.key
    BY <1>1, <2>2
  <2> QED BY <2>3
<1>4. (\E t \in Tasks : \E i \in 1..Len(stream'[t]) : stream'[t][i].cmd.key = c.key) => Known(c)' # {}
  BY DEF Known, RecordedUnder
<1> QED BY <1>2, <1>3, <1>4
-----------------------------------------------------------------------------
(***************************************************************************)
(* What the Node's answers promise.                                        *)
(***************************************************************************)
Node == RecordedAsSent /\ OncePerKey /\ RefusedIsPast /\ ServingIsMet

\* What stands in a stream up to some event stays there.
LEMMA PiecesStay ==
  ASSUME TypeOK, Grows, NEW t \in Tasks, NEW m \in Nat, NEW n \in Nat, n <= Len(stream[t])
  PROVE  /\ PartsOnly(stream'[t], m, n) <=> PartsOnly(stream[t], m, n)
         /\ ReadyWithin(stream'[t], m, n) <=> ReadyWithin(stream[t], m, n)
<1>1. Len(stream[t]) \in Nat
  BY LengthType DEF TypeOK
<1>2. \A j \in (m + 1)..n : stream'[t][j] = stream[t][j]
  BY <1>1 DEF Grows
<1>3. \A k \in m..n : SubSeq(stream'[t], 1, k) = SubSeq(stream[t], 1, k)
  BY <1>1 DEF Grows
<1> QED BY <1>2, <1>3 DEF PartsOnly, ReadyWithin

\* A command that is stale or past stays so while the streams grow.
LEMMA PastStaysPast ==
  ASSUME TypeOK, Grows, stream' \in [Tasks -> Seq(Events)], NEW c \in Commands,
         \A t \in Tasks : Len(stream'[t]) = Len(stream[t]) => stream'[t] = stream[t]
  PROVE  /\ IsPast(c) => IsPast(c)'
         /\ IsStale(c) => IsStale(c)'
<1>1. c.task \in Tasks /\ c.expected \in Nat
  BY DEF Commands
<1> DEFINE t == c.task
<1>2. Len(stream[t]) \in Nat /\ Len(stream'[t]) \in Nat /\ Len(stream[t]) <= Len(stream'[t])
  BY <1>1, LengthType DEF TypeOK, Grows
<1>3. (stream[t] = <<>> <=> Len(stream[t]) = 0) /\ (stream'[t] = <<>> <=> Len(stream'[t]) = 0)
  BY <1>1, EmptySeq, LengthType DEF TypeOK
<1>4. CASE Known(c) # {}
  BY <1>4, GrowingKeeps DEF IsPast, IsStale
<1>5. CASE c.type = "created" /\ stream[t] # <<>>
  BY <1>2, <1>3, <1>5, GrowingKeeps DEF IsPast, IsStale
<1>6. CASE c.type # "created" /\ c.expected < Len(stream[t])
  BY <1>1, <1>2, <1>6 DEF IsPast, IsStale
<1>7. CASE c.type # "created" /\ c.expected = Len(stream[t]) /\ ~Allowed(c.type, stream[t]) /\ Known(c) = {}
  <2>1. ~IsStale(c)
    BY <1>1, <1>2, <1>7 DEF IsStale
  <2>2. CASE Len(stream'[t]) = Len(stream[t])
    <3>1. stream'[t] = stream[t]
      BY <1>1, <2>2
    <3> QED BY <1>7, <2>1, <3>1 DEF IsPast
  <2>3. CASE Len(stream'[t]) # Len(stream[t])
    BY <1>1, <1>2, <1>7, <2>1, <2>3 DEF IsPast
  <2> QED BY <2>2, <2>3
<1> QED BY <1>4, <1>5, <1>6, <1>7 DEF IsPast, IsStale

\* A step that answers no command and records none.
LEMMA NodeKeeps ==
  ASSUME TypeOK, Node, UNCHANGED <<stream, said>>, wire \subseteq wire',
         serving' = serving \/ serving'.step = "none"
  PROVE  Node'
<1>1. \A c, a : <<a, c>> \in said => c \in wire
  BY DEF TypeOK
<1>2. RecordedAsSent'
  BY DEF Node, RecordedAsSent
<1>3. OncePerKey'
  BY <1>1 DEF Node, OncePerKey, Recorded
<1>4. \A c : /\ Recorded(c)' <=> Recorded(c)
             /\ IsStale(c)' <=> IsStale(c)
             /\ IsPast(c)' <=> IsPast(c)
             /\ RecordedLate(c)' <=> RecordedLate(c)
             /\ Known(c)' = Known(c)
  BY DEF Recorded, IsPast, IsStale, RecordedLate, Known, RecordedUnder
<1>5. RefusedIsPast'
  BY <1>1, <1>4 DEF Node, RefusedIsPast
<1>6. ServingIsMet'
  BY <1>4 DEF Node, ServingIsMet
<1> QED BY <1>2, <1>3, <1>5, <1>6 DEF Node

KeysApart ==
  \A t \in Tasks, u \in Tasks : \A i \in 1..Len(stream[t]), j \in 1..Len(stream[u]) :
    stream[t][i].cmd.key = stream[u][j].cmd.key /\ stream[t][i].cmd # NoCommand
      => t = u /\ i = j

\* One event more: of no command, or of one whose key no event has.
LEMMA RecordingKeepsTheRecord ==
  ASSUME TypeOK, RecordedAsSent, KeysApart, wire' = wire,
         NEW t \in Tasks, NEW kind \in Emits \cup CommandTypes,
         NEW c \in Commands \cup {NoCommand}, Record(t, kind, c),
         c # NoCommand =>
           /\ c \in wire /\ c.task = t /\ kind = c.type
           /\ c.type # "created" =>
                c.expected <= Len(stream[t]) /\ PartsOnly(stream[t], c.expected, Len(stream[t]))
           /\ Known(c) = {},
         kind = "approved" => c # NoCommand /\ ReadyWithin(stream[t], c.expected, Len(stream[t]))
  PROVE  /\ RecordedAsSent' /\ KeysApart'
         /\ \A d : d # c /\ Recorded(d)' => Recorded(d)
         /\ \A d : d # c /\ RecordedLate(d) => RecordedLate(d)'
         /\ Recorded(c)'
         /\ Known(c) = {} /\ c.type # "created" /\ c.expected < Len(stream[t]) /\ c # NoCommand
              => RecordedLate(c)'
<1> DEFINE n == Len(stream[t]) + 1
           e == [kind |-> kind, cmd |-> c]
<1>1. /\ stream' \in [Tasks -> Seq(Events)] /\ Grows
      /\ \A u \in Tasks \ {t} : stream'[u] = stream[u]
      /\ Len(stream'[t]) = n /\ stream'[t][n] = e
      /\ SubSeq(stream'[t], 1, n - 1) = stream[t]
  <2>1. n - 1 = Len(stream[t])
    BY LengthType DEF TypeOK
  <2> QED BY <2>1, RecordAppends
<1>2. n \in Nat /\ n > 0 /\ Len(stream[t]) = n - 1
  BY LengthType DEF TypeOK
<1>3. \A u \in Tasks : \A i \in 1..Len(stream'[u]) :
        \/ i \in 1..Len(stream[u]) /\ stream'[u][i] = stream[u][i]
        \/ u = t /\ i = n /\ stream'[u][i] = e
  BY <1>1, <1>2, LengthType DEF TypeOK, Grows
<1>4. e.cmd = c /\ e.kind = kind
  OBVIOUS
<1>5. \A u \in Tasks : \A i \in 1..Len(stream[u]) : stream[u][i].cmd \in Commands \cup {NoCommand}
  BY LengthType DEF TypeOK, Events
<1>6. c # NoCommand => \A u \in Tasks : \A i \in 1..Len(stream[u]) : stream[u][i].cmd.key # c.key
  BY KnownMeans
<1> HIDE DEF e, n
<1>7. RecordedAsSent'
  <2>1. ASSUME NEW u \in Tasks, NEW i \in 1..Len(stream'[u])
        PROVE  /\ stream'[u][i].cmd # NoCommand =>
                    /\ stream'[u][i].cmd \in wire' /\ stream'[u][i].cmd.task = u
                    /\ stream'[u][i].kind = stream'[u][i].cmd.type
                    /\ stream'[u][i].cmd.type # "created" =>
                         /\ stream'[u][i].cmd.expected < i
                         /\ PartsOnly(stream'[u], stream'[u][i].cmd.expected, i - 1)
               /\ stream'[u][i].kind = "approved" =>
                    /\ stream'[u][i].cmd # NoCommand
                    /\ ReadyWithin(stream'[u], stream'[u][i].cmd.expected, i - 1)
    <3>1. CASE i \in 1..Len(stream[u]) /\ stream'[u][i] = stream[u][i]
      <4> DEFINE d == stream[u][i].cmd
      <4>1. i - 1 \in Nat /\ i - 1 <= Len(stream[u])
        BY <3>1, LengthType DEF TypeOK
      <4>2. d # NoCommand => d \in Commands /\ d.expected \in Nat
        BY <1>5, <3>1 DEF Commands
      <4>3. /\ d # NoCommand =>
                 /\ d \in wire /\ d.task = u /\ stream[u][i].kind = d.type
                 /\ d.type # "created" => d.expected < i /\ PartsOnly(stream[u], d.expected, i - 1)
            /\ stream[u][i].kind = "approved" => d # NoCommand /\ ReadyWithin(stream[u], d.expected, i - 1)
        BY <3>1 DEF RecordedAsSent
      <4>4. d # NoCommand =>
              /\ PartsOnly(stream'[u], d.expected, i - 1) <=> PartsOnly(stream[u], d.expected, i - 1)
              /\ ReadyWithin(stream'[u], d.expected, i - 1) <=> ReadyWithin(stream[u], d.expected, i - 1)
        BY <1>1, <4>1, <4>2, PiecesStay
      <4> QED BY <3>1, <4>3, <4>4
    <3>2. CASE u = t /\ i = n /\ stream'[u][i] = e
      <4>1. c # NoCommand => c.expected \in Nat
        BY DEF Commands
      <4>2. c # NoCommand =>
              /\ PartsOnly(stream'[t], c.expected, n - 1) <=> PartsOnly(stream[t], c.expected, n - 1)
              /\ ReadyWithin(stream'[t], c.expected, n - 1) <=> ReadyWithin(stream[t], c.expected, n - 1)
        BY <1>1, <1>2, <4>1, PiecesStay
      <4>3. c # NoCommand /\ c.type # "created" => c.expected < n
        BY <1>2, <4>1
      <4> QED BY <1>2, <1>4, <3>2, <4>2, <4>3
    <3> QED BY <1>3, <3>1, <3>2
  <2> QED BY <2>1 DEF RecordedAsSent
<1>8. KeysApart'
  <2>1. ASSUME NEW u \in Tasks, NEW v \in Tasks,
               NEW i \in 1..Len(stream'[u]), NEW j \in 1..Len(stream'[v]),
               stream'[u][i].cmd.key = stream'[v][j].cmd.key, stream'[u][i].cmd # NoCommand
        PROVE  u = v /\ i = j
    <3>1. CASE i \in 1..Len(stream[u]) /\ stream'[u][i] = stream[u][i]
      <4>1. CASE j \in 1..Len(stream[v]) /\ stream'[v][j] = stream[v][j]
        BY <2>1, <3>1, <4>1 DEF KeysApart
      <4>2. CASE v = t /\ j = n /\ stream'[v][j] = e
        <5>1. stream[u][i].cmd.key = c.key /\ stream[u][i].cmd \in Commands
          BY <1>4, <1>5, <2>1, <3>1, <4>2
        <5>2. stream[u][i].cmd.key # NoCommand.key
          BY <5>1, KeyApart
        <5> QED BY <1>6, <3>1, <5>1, <5>2
      <4> QED BY <1>3, <4>1, <4>2
    <3>2. CASE u = t /\ i = n /\ stream'[u][i] = e
      <4>1. CASE j \in 1..Len(stream[v]) /\ stream'[v][j] = stream[v][j]
        BY <1>4, <1>6, <2>1, <3>2, <4>1
      <4>2. CASE v = t /\ j = n /\ stream'[v][j] = e
        BY <3>2, <4>2
      <4> QED BY <1>3, <4>1, <4>2
    <3> QED BY <1>3, <3>1, <3>2
  <2> QED BY <2>1 DEF KeysApart
<1>9. ASSUME NEW d, d # c, Recorded(d)'
      PROVE  Recorded(d)
  <2>1. PICK u \in Tasks : \E i \in 1..Len(stream'[u]) : stream'[u][i].cmd = d
    BY <1>9 DEF Recorded
  <2>2. PICK i \in 1..Len(stream'[u]) : stream'[u][i].cmd = d
    BY <2>1
  <2>3. i \in 1..Len(stream[u]) /\ stream[u][i].cmd = d
    BY <1>3, <1>4, <1>9, <2>2
  <2> QED BY <2>3 DEF Recorded
<1>10. Recorded(c)'
  <2>1. n \in 1..Len(stream'[t]) /\ stream'[t][n].cmd = c
    BY <1>1, <1>2, <1>4
  <2> QED BY <2>1 DEF Recorded
<1>11. ASSUME NEW d, d # c, RecordedLate(d)
       PROVE  RecordedLate(d)'
  BY <1>3, <1>4, <1>11 DEF RecordedLate
<1>12. ASSUME Known(c) = {}, c.type # "created", c.expected < Len(stream[t]), c # NoCommand
       PROVE  RecordedLate(c)'
  <2>1. c.expected \in Nat /\ c.expected + 1 < n
    BY <1>2, <1>12 DEF Commands
  <2>2. \A u \in Tasks : \A i \in 1..Len(stream'[u]) : stream'[u][i].cmd = c => i = n
    BY <1>3, <1>6, <1>12
  <2> QED BY <1>12, <2>1, <2>2 DEF RecordedLate
<1> QED BY <1>7, <1>8, <1>9, <1>10, <1>11, <1>12

LEMMA OncePerKeyIs == OncePerKey <=> KeysApart /\ \A c \in wire : <<"accepted", c>> \in said => Recorded(c)
BY DEF OncePerKey, KeysApart

\* What is appended behind a command in service is of no API and of no key.
LEMMA ServedStaysMet ==
  ASSUME TypeOK, ServingIsMet, NEW t \in Tasks, NEW kind \in Emits,
         serving.step # "none" => kind \in OfItsParts,
         Record(t, kind, NoCommand), UNCHANGED <<wire, said, serving>>
  PROVE  ServingIsMet'
<1> SUFFICES ASSUME serving.step # "none" PROVE ServingIsMet'
  BY DEF ServingIsMet
<1> DEFINE c == serving.cmd
           u == c.task
           n == Len(stream[u])
           m == Len(stream'[u])
<1>1. /\ stream' \in [Tasks -> Seq(Events)] /\ Grows
      /\ \A v \in Tasks \ {t} : stream'[v] = stream[v]
      /\ Len(stream'[t]) = Len(stream[t]) + 1
      /\ stream'[t][Len(stream[t]) + 1] = [kind |-> kind, cmd |-> NoCommand]
  BY RecordAppends
<1>2. /\ c \in wire /\ Known(c) = {} /\ <<"refused", c>> \notin said
      /\ c.type # "created" => c.expected <= n /\ PartsOnly(stream[u], c.expected, n)
      /\ serving.step = "allowed" =>
           /\ c.type = "approved" => ReadyWithin(stream[u], c.expected, n)
           /\ <<"rejected", c>> \in said => c.type # "created" /\ c.expected < n
  BY DEF ServingIsMet
<1>3. c \in Commands /\ u \in Tasks /\ c.expected \in Nat /\ c # NoCommand /\ c.key # NoCommand.key
  BY <1>2, KeyApart DEF TypeOK, Commands
<1>4. n \in Nat /\ m \in Nat /\ n <= m /\ (m = n \/ (u = t /\ m = n + 1))
  BY <1>1, <1>3, LengthType DEF TypeOK, Grows
<1>5. \A v \in Tasks : \A i \in 1..Len(stream'[v]) : stream'[v][i].cmd.key # c.key
  <2>1. ASSUME NEW v \in Tasks, NEW i \in 1..Len(stream'[v]) PROVE stream'[v][i].cmd.key # c.key
    <3>1. Len(stream[v]) \in Nat /\ (i \in 1..Len(stream[v]) \/ (v = t /\ i = Len(stream[t]) + 1))
      BY <1>1, LengthType DEF TypeOK
    <3>2. CASE i \in 1..Len(stream[v])
      <4>1. stream'[v][i] = stream[v][i] /\ stream[v][i].cmd.key # c.key
        BY <1>1, <1>2, <3>2, KnownMeans DEF Grows
      <4> QED BY <4>1
    <3>3. CASE v = t /\ i = Len(stream[t]) + 1
      BY <1>1, <1>3, <3>3
    <3> QED BY <3>1, <3>2, <3>3
  <2> QED BY <2>1
<1>6. Known(c)' = {}
  BY <1>5 DEF Known, RecordedUnder
<1>7. c.type # "created" => PartsOnly(stream'[u], c.expected, m)
  <2>1. ASSUME c.type # "created", NEW j \in (c.expected + 1)..m PROVE stream'[u][j].kind \in OfItsParts
    <3>1. PartsOnly(stream'[u], c.expected, n)
      BY <1>1, <1>2, <1>3, <1>4, <2>1, PiecesStay
    <3>2. CASE j \in (c.expected + 1)..n
      BY <3>1, <3>2 DEF PartsOnly
    <3>3. CASE u = t /\ j = n + 1
      BY <1>1, <3>3
    <3> QED BY <1>3, <1>4, <3>2, <3>3
  <2> QED BY <2>1 DEF PartsOnly
<1>8. ReadyWithin(stream[u], c.expected, n) => ReadyWithin(stream'[u], c.expected, m)
  <2>1. ASSUME ReadyWithin(stream[u], c.expected, n) PROVE ReadyWithin(stream'[u], c.expected, m)
    <3>1. ReadyWithin(stream'[u], c.expected, n)
      BY <1>1, <1>3, <1>4, <2>1, PiecesStay
    <3> QED BY <1>3, <1>4, <3>1 DEF ReadyWithin
  <2> QED BY <2>1
<1>9. c.type # "created" => c.expected <= m
  BY <1>2, <1>3, <1>4
<1>10. c.expected < n => c.expected < m
  BY <1>3, <1>4
<1> QED BY <1>2, <1>6, <1>7, <1>8, <1>9, <1>10 DEF ServingIsMet

\* The Node's other parts write.
LEMMA WritingKeepsNode ==
  ASSUME TypeOK, Node, NEW t \in Tasks, NEW kind \in Emits, kind # "approved",
         serving.step # "none" => kind \in OfItsParts,
         Record(t, kind, NoCommand), UNCHANGED <<wire, said, serving>>
  PROVE  stream' \in [Tasks -> Seq(Events)] /\ Grows /\ Node'
<1>1. /\ stream' \in [Tasks -> Seq(Events)] /\ Grows
      /\ \A u \in Tasks \ {t} : stream'[u] = stream[u]
      /\ Len(stream'[t]) = Len(stream[t]) + 1
  BY RecordAppends
<1>2. RecordedAsSent /\ OncePerKey /\ RefusedIsPast /\ KeysApart /\ ServingIsMet
  BY OncePerKeyIs DEF Node
<1>3. /\ RecordedAsSent' /\ KeysApart'
      /\ \A d : d # NoCommand /\ Recorded(d)' => Recorded(d)
      /\ \A d : d # NoCommand /\ RecordedLate(d) => RecordedLate(d)'
  BY <1>2, RecordingKeepsTheRecord
<1>4. \A c \in wire' : <<"accepted", c>> \in said' => Recorded(c)'
  BY <1>1, <1>2, GrowingKeeps DEF OncePerKey
<1>5. RefusedIsPast'
  <2>1. \A u \in Tasks : Len(stream'[u]) = Len(stream[u]) => stream'[u] = stream[u]
    BY <1>1, LengthType DEF TypeOK
  <2>2. ASSUME NEW c \in wire
        PROVE  /\ <<"refused", c>> \in said => ~Recorded(c)' /\ IsStale(c)'
               /\ <<"rejected", c>> \in said => IsPast(c)' /\ RecordedLate(c)'
    <3>1. c \in Commands /\ c # NoCommand
      BY KeyApart DEF TypeOK
    <3>2. (IsPast(c) => IsPast(c)') /\ (IsStale(c) => IsStale(c)')
      BY <1>1, <2>1, <3>1, PastStaysPast
    <3> QED BY <1>2, <1>3, <3>1, <3>2 DEF RefusedIsPast
  <2> QED BY <2>2 DEF RefusedIsPast
<1>6. OncePerKey'
  BY <1>3, <1>4 DEF OncePerKey, KeysApart
<1>7. ServingIsMet'
  BY <1>2, ServedStaysMet
<1> QED BY <1>1, <1>3, <1>5, <1>6, <1>7 DEF Node

LEMMA OnlyAnEmptyStreamIsAbsent ==
  ASSUME NEW s, s # <<>>
  PROVE  StateOf(s) # "absent"
<1>1. CASE \E i \in 1..Len(s) : IsLastMove(s, i)
  <2> DEFINE i == CHOOSE i \in 1..Len(s) : IsLastMove(s, i)
  <2>1. IsLastMove(s, i)
    BY <1>1
  <2>2. s[i].kind \in DOMAIN TargetOf
    BY <2>1 DEF IsLastMove
  <2>3. TargetOf[s[i].kind] # "absent"
    BY <2>2 DEF TargetOf
  <2>4. StateOf(s) = TargetOf[s[i].kind]
    BY <1>1 DEF StateOf
  <2> QED BY <2>3, <2>4
<1>2. CASE ~\E i \in 1..Len(s) : IsLastMove(s, i)
  BY <1>2 DEF StateOf
<1> QED BY <1>1, <1>2

-----------------------------------------------------------------------------
(***************************************************************************)
(* What the desktop goes by.                                               *)
(***************************************************************************)
Handlers == {"start", "approve", "stop"}

LEMMA GrowingKeepsThePast ==
  ASSUME TypeOK, ReadsThePast, stream' \in [Tasks -> Seq(Events)], Grows,
         wire' = wire, UNCHANGED <<asked, start, shown>>
  PROVE  ReadsThePast'
<1>1. \A t \in Tasks : /\ Len(stream[t]) \in Nat /\ Len(stream'[t]) \in Nat
                       /\ Len(stream[t]) <= Len(stream'[t])
  BY LengthType, LenProperties DEF TypeOK, Grows
<1>2. \A c \in wire : c.task \in Tasks /\ c.expected \in Nat
  BY DEF TypeOK, Commands
<1>3. start.asOf \in Nat
  BY DEF TypeOK
<1>4. view' = view /\ review' = review /\ start' = start /\ asked' = asked
  BY DEF shown
<1>5. \A c \in wire' : c.type # "created" => c.expected <= Len(stream'[c.task])
  BY <1>1, <1>2 DEF ReadsThePast
<1>6. start'.step # "none" => start'.task \in Tasks /\ start'.asOf <= Len(stream'[start'.task])
  BY <1>1, <1>3, <1>4 DEF ReadsThePast
<1>7. view' # NoView => view'.task \in Tasks /\ view'.seq \in 0..Len(stream'[view'.task])
  BY <1>1, <1>4 DEF ReadsThePast
<1>8. review' # NoReview => review'.task \in Tasks /\ review'.seq \in 0..Len(stream'[review'.task])
  BY <1>1, <1>4 DEF ReadsThePast
<1>9. start'.step = "create" => asked'["start"] # NoCommand /\ asked'["start"].task = start'.task
  BY <1>4 DEF ReadsThePast
<1> QED BY <1>5, <1>6, <1>7, <1>8, <1>9 DEF ReadsThePast

LEMMA IssueSends ==
  ASSUME TypeOK, NEW h \in Handlers, NEW type \in CommandTypes, NEW t \in Tasks, NEW n \in Nat,
         Issue(h, type, t, n)
  PROVE  /\ wire' \in SUBSET Commands /\ wire \subseteq wire' /\ clicks' \in Nat
         /\ said' = said /\ stream' = stream /\ serving' = serving
         /\ said' \in SUBSET (Answered \X wire')
         /\ serving' \in [cmd: wire' \cup {NoCommand}, step: {"none", "checked", "allowed"}]
         /\ asked' \in [Handlers -> wire' \cup {NoCommand}]
         /\ asked'[h] # NoCommand /\ asked'[h].task = t
         /\ \A g \in Handlers \ {h} : asked'[g] = asked[g]
         /\ \A c \in wire' : c \in wire \/ (c.type = type /\ c.task = t /\ c.expected = n)
<1> DEFINE c == [key |-> clicks + 1, type |-> type, task |-> t, expected |-> n]
<1>1. clicks \in Nat /\ asked \in [Handlers -> wire \cup {NoCommand}] /\ wire \in SUBSET Commands
  BY DEF TypeOK, Handlers
<1>2. c \in Commands
  BY <1>1 DEF Commands
<1>3. /\ clicks' = clicks + 1 /\ asked' = [asked EXCEPT ![h] = c] /\ wire' = wire \cup {c}
      /\ stream' = stream /\ said' = said /\ serving' = serving
  BY DEF Issue, Command
<1>4. c.type = type /\ c.task = t /\ c.expected = n
  OBVIOUS
<1>5. c # NoCommand
  BY <1>2, KeyApart
<1> HIDE DEF c
<1>6. asked' \in [Handlers -> wire' \cup {NoCommand}] /\ asked'[h] = c
      /\ \A g \in Handlers \ {h} : asked'[g] = asked[g]
  BY <1>1, <1>3
<1>7. /\ said' \in SUBSET (Answered \X wire')
      /\ serving' \in [cmd: wire' \cup {NoCommand}, step: {"none", "checked", "allowed"}]
  BY <1>3 DEF TypeOK
<1> QED BY <1>1, <1>2, <1>3, <1>4, <1>5, <1>6, <1>7

\* A step of the Node: the desktop is as it was.
LEMMA NodeSteps ==
  ASSUME IInv, stream' \in [Tasks -> Seq(Events)], Grows, Node',
         wire' = wire, said' \in SUBSET (Answered \X wire),
         serving' \in [cmd: wire \cup {NoCommand}, step: {"none", "checked", "allowed"}],
         UNCHANGED <<clicks, asked, start, shown>>
  PROVE  IInv'
<1>1. TypeOK /\ ReadsThePast
  BY DEF IInv
<1>2. TypeOK'
  BY <1>1 DEF TypeOK
<1>3. ReadsThePast'
  BY <1>1, GrowingKeepsThePast
<1> QED BY <1>2, <1>3 DEF IInv, Node

\* A step of the desktop that sends nothing.
LEMMA DesktopSteps ==
  ASSUME IInv, UNCHANGED <<node, clicks>>,
         asked' \in [Handlers -> wire \cup {NoCommand}],
         asked'["start"] = asked["start"] \/ start'.step # "create",
         start' = start \/ /\ start' \in [task: Tasks \cup {NoTask}, step: {"none", "read", "authorize", "plan"}, asOf: Nat]
                           /\ start'.step # "none" =>
                                start'.task \in Tasks /\ start'.asOf <= Len(stream[start'.task]),
         view' # NoView => view'.task \in Tasks /\ view'.seq \in 0..Len(stream[view'.task]),
         review' # NoReview => review'.task \in Tasks /\ review'.seq \in 0..Len(stream[review'.task])
  PROVE  IInv'
<1>1. TypeOK /\ ReadsThePast /\ Node
  BY DEF IInv, Node
<1>2. stream' = stream /\ wire' = wire /\ said' = said /\ serving' = serving /\ clicks' = clicks
  BY DEF node
<1>5. start' \in [task: Tasks \cup {NoTask}, step: {"none", "create", "read", "authorize", "plan"}, asOf: Nat]
  BY <1>1 DEF TypeOK
<1>6. TypeOK'
  BY <1>1, <1>2, <1>5 DEF TypeOK, Handlers
<1>7. start'.step # "none" => start'.task \in Tasks /\ start'.asOf <= Len(stream[start'.task])
  BY <1>1 DEF ReadsThePast
<1>8. start'.step = "create" => start' = start /\ asked'["start"] = asked["start"]
  OBVIOUS
<1>9. start'.step = "create" => asked'["start"] # NoCommand /\ asked'["start"].task = start'.task
  BY <1>1, <1>8 DEF ReadsThePast
<1>10. ReadsThePast'
  BY <1>1, <1>2, <1>7, <1>9 DEF ReadsThePast
<1>11. Node'
  BY <1>1, <1>2, NodeKeeps
<1> QED BY <1>6, <1>10, <1>11 DEF IInv, Node

\* A step of the desktop that sends a command for what it has read.
LEMMA SendingSteps ==
  ASSUME IInv, NEW h \in Handlers, NEW type \in CommandTypes, NEW t \in Tasks, NEW n \in Nat,
         Issue(h, type, t, n), type # "created" => n <= Len(stream[t]),
         start' = start \/ h = "start",
         start' \in [task: Tasks \cup {NoTask}, step: {"none", "create", "read", "authorize", "plan"}, asOf: Nat],
         start'.step # "none" => (start'.task = t /\ start'.asOf <= Len(stream[t])) \/ start' = start,
         view' = view, review' \in {review, NoReview}
  PROVE  IInv'
<1>1. TypeOK /\ ReadsThePast /\ Node
  BY DEF IInv, Node
<1>2. /\ wire' \in SUBSET Commands /\ wire \subseteq wire' /\ clicks' \in Nat
      /\ said' = said /\ stream' = stream /\ serving' = serving
      /\ said' \in SUBSET (Answered \X wire')
      /\ serving' \in [cmd: wire' \cup {NoCommand}, step: {"none", "checked", "allowed"}]
      /\ asked' \in [Handlers -> wire' \cup {NoCommand}]
      /\ asked'[h] # NoCommand /\ asked'[h].task = t
      /\ \A g \in Handlers \ {h} : asked'[g] = asked[g]
      /\ \A c \in wire' : c \in wire \/ (c.type = type /\ c.task = t /\ c.expected = n)
  BY <1>1, IssueSends
<1>3. TypeOK'
  BY <1>1, <1>2 DEF TypeOK, Handlers
<1>4. \A c \in wire' : c.type # "created" => c.expected <= Len(stream[c.task])
  BY <1>1, <1>2 DEF ReadsThePast
<1>5. start'.step # "none" => start'.task \in Tasks /\ start'.asOf <= Len(stream[start'.task])
  BY <1>1 DEF ReadsThePast
<1>6. start'.step = "create" => asked'["start"] # NoCommand /\ asked'["start"].task = start'.task
  <2>1. CASE h = "start" /\ start'.task = t
    BY <1>2, <2>1
  <2>2. CASE h # "start" /\ start' = start
    BY <1>1, <1>2, <2>2 DEF ReadsThePast, Handlers
  <2>3. CASE h = "start" /\ start' = start /\ start'.step = "create"
    BY <1>1, <2>3 DEF ReadsThePast, Issue, Command
  <2> QED BY <2>1, <2>2, <2>3
<1>7. view' # NoView => view'.task \in Tasks /\ view'.seq \in 0..Len(stream[view'.task])
  BY <1>1 DEF ReadsThePast
<1>8. review' # NoReview => review'.task \in Tasks /\ review'.seq \in 0..Len(stream[review'.task])
  BY <1>1 DEF ReadsThePast
<1>9. ReadsThePast'
  BY <1>2, <1>4, <1>5, <1>6, <1>7, <1>8 DEF ReadsThePast
<1>10. Node'
  BY <1>1, <1>2, NodeKeeps
<1> QED BY <1>3, <1>9, <1>10 DEF IInv, Node

-----------------------------------------------------------------------------
(***************************************************************************)
(* The inductive invariant.                                                *)
(***************************************************************************)
LEMMA IInvInit == Init => IInv
<1> SUFFICES ASSUME Init PROVE IInv
  OBVIOUS
<1>1. \A t \in Tasks : stream[t] = <<>>
  BY DEF Init
<1>2. \A t \in Tasks : Len(stream[t]) = 0
  BY <1>1
<1>3. TypeOK
  <2>1. stream \in [Tasks -> Seq(Events)]
    BY EmptySeq DEF Init
  <2>2. wire = {} /\ said = {} /\ clicks \in Nat
        /\ serving \in [cmd: wire \cup {NoCommand}, step: {"none", "checked", "allowed"}]
    BY DEF Init, Nobody
  <2>3. asked \in [Handlers -> wire \cup {NoCommand}]
    BY DEF Init, Handlers
  <2>4. start \in [task: Tasks \cup {NoTask}, step: {"none", "create", "read", "authorize", "plan"}, asOf: Nat]
    BY DEF Init, NoStart
  <2> QED BY <2>1, <2>2, <2>3, <2>4 DEF TypeOK, Handlers
<1>4. ReadsThePast
  BY DEF Init, ReadsThePast, NoStart
<1>5. RecordedAsSent /\ OncePerKey /\ RefusedIsPast /\ ServingIsMet
  BY <1>2 DEF Init, RecordedAsSent, OncePerKey, RefusedIsPast, ServingIsMet, Nobody
<1> QED BY <1>3, <1>4, <1>5 DEF IInv

\* A step of the Node that records nothing: the first two of three.
LEMMA QuietNodeStep ==
  ASSUME IInv, stream' = stream, wire' = wire, said \subseteq said', said' \in SUBSET (Answered \X wire),
         serving' \in [cmd: wire \cup {NoCommand}, step: {"none", "checked", "allowed"}],
         UNCHANGED <<clicks, asked, start, shown>>,
         \A c \in wire :
           /\ <<"accepted", c>> \in said' => <<"accepted", c>> \in said \/ Recorded(c)
           /\ <<"refused", c>> \in said' => <<"refused", c>> \in said \/ (~Recorded(c) /\ IsStale(c))
           /\ <<"rejected", c>> \in said' => <<"rejected", c>> \in said \/ (IsPast(c) /\ RecordedLate(c)),
         ServingIsMet'
  PROVE  IInv'
<1>1. TypeOK /\ Node
  BY DEF IInv, Node
<1>2. \A c : /\ Recorded(c)' <=> Recorded(c)
             /\ IsStale(c)' <=> IsStale(c)
             /\ IsPast(c)' <=> IsPast(c)
             /\ RecordedLate(c)' <=> RecordedLate(c)
  BY DEF Recorded, IsPast, IsStale, RecordedLate, Known, RecordedUnder
<1>3. RecordedAsSent'
  BY <1>1 DEF Node, RecordedAsSent
<1>4. OncePerKey'
  BY <1>1, <1>2 DEF Node, OncePerKey
<1>5. RefusedIsPast'
  BY <1>1, <1>2 DEF Node, RefusedIsPast
<1>6. stream' \in [Tasks -> Seq(Events)] /\ Grows
  BY <1>1, LengthType DEF TypeOK, Grows
<1> QED BY <1>3, <1>4, <1>5, <1>6, NodeSteps DEF Node

\* The Node looks for the command's key, then at its sequence.
LEMMA ReceiveKeeps ==
  ASSUME IInv, NEW c \in wire, ReceiveCommand(c)
  PROVE  IInv'
<1>1. TypeOK /\ ReadsThePast /\ Node
  BY DEF IInv, Node
<1>2. stream' = stream /\ wire' = wire /\ UNCHANGED <<clicks, asked, start, shown>>
  BY DEF ReceiveCommand
<1>3. c \in Commands /\ c.task \in Tasks /\ c.expected \in Nat /\ Len(stream[c.task]) \in Nat
  BY <1>1, LengthType DEF TypeOK, Commands
<1>4. c.type # "created" => c.expected <= Len(stream[c.task])
  BY <1>1 DEF ReadsThePast
<1>5. CASE AnswerTo(c) = "proceeds"
  <2>1. serving' = [cmd |-> c, step |-> "checked"] /\ said' = said
    BY <1>5 DEF ReceiveCommand
  <2>2. Known(c) = {} /\ (c.type # "created" => c.expected = Len(stream[c.task]))
    BY <1>5 DEF AnswerTo, SequenceMatches
  <2>3. <<"refused", c>> \notin said
    <3>1. ~IsStale(c)
      BY <1>3, <2>2 DEF IsStale
    <3> QED BY <1>1, <3>1 DEF Node, RefusedIsPast
  <2>4. PartsOnly(stream[c.task], Len(stream[c.task]), Len(stream[c.task]))
    BY <1>3 DEF PartsOnly
  <2>5. Known(c)' = Known(c)
    BY <1>2 DEF Known, RecordedUnder
  <2>6. ServingIsMet'
    BY <1>2, <1>3, <2>1, <2>2, <2>3, <2>4, <2>5 DEF ServingIsMet
  <2> QED BY <1>1, <1>2, <2>1, <2>6, QuietNodeStep DEF TypeOK
<1>6. CASE AnswerTo(c) # "proceeds"
  <2>1. serving' = serving /\ said' = said \cup {<<AnswerTo(c), c>>} /\ serving.step = "none"
    BY <1>6 DEF ReceiveCommand, Answers, Nobody
  <2>2. AnswerTo(c) \in {"accepted", "refused"} /\ (AnswerTo(c) = "accepted" <=> Recorded(c))
    BY <1>6, KnownMeans DEF AnswerTo
  <2>3. IsStale(c)
    BY <1>3, <1>4, <1>6 DEF AnswerTo, IsStale, SequenceMatches
  <2>4. ServingIsMet'
    BY <2>1 DEF ServingIsMet
  <2>5. said' \in SUBSET (Answered \X wire)
    BY <1>1, <2>1, <2>2 DEF TypeOK, Answered
  <2>6. \A d \in wire :
          /\ <<"accepted", d>> \in said' => <<"accepted", d>> \in said \/ Recorded(d)
          /\ <<"refused", d>> \in said' => <<"refused", d>> \in said \/ (~Recorded(d) /\ IsStale(d))
          /\ <<"rejected", d>> \in said' => <<"rejected", d>> \in said
    BY <2>1, <2>2, <2>3
  <2> QED BY <1>1, <1>2, <2>1, <2>4, <2>5, <2>6, QuietNodeStep DEF TypeOK
<1> QED BY <1>5, <1>6

\* The plan and the state it finds then.
LEMMA DecideKeeps ==
  ASSUME IInv, DecideCommand
  PROVE  IInv'
<1>1. TypeOK /\ ReadsThePast /\ Node
  BY DEF IInv, Node
<1>2. /\ stream' = stream /\ wire' = wire /\ UNCHANGED <<clicks, asked, start, shown>>
      /\ serving.step = "checked"
  BY DEF DecideCommand
<1> PICK c \in wire : c = serving.cmd
  BY <1>1, <1>2 DEF Node, ServingIsMet
<1> DEFINE n == Len(stream[c.task])
<1>3. /\ Known(c) = {} /\ <<"refused", c>> \notin said
      /\ c.type # "created" => c.expected <= n /\ PartsOnly(stream[c.task], c.expected, n)
  BY <1>1, <1>2 DEF Node, ServingIsMet
<1>4. c \in Commands /\ c.task \in Tasks /\ c.expected \in Nat /\ n \in Nat
  BY <1>1, <1>3, LengthType DEF TypeOK, Commands
<1>5. c.type = "created" => (Allowed(c.type, stream[c.task]) => stream[c.task] = <<>>)
  BY OnlyAnEmptyStreamIsAbsent DEF Allowed, MayCreate
<1>6. CASE Allowed(c.type, stream[c.task])
  <2>1. serving' = [cmd |-> c, step |-> "allowed"] /\ said' = said
    BY <1>1, <1>2, <1>6 DEF DecideCommand, TypeOK
  <2>2. c.type = "approved" => ReadyWithin(stream[c.task], c.expected, n)
    <3>1. ASSUME c.type = "approved" PROVE ReadyWithin(stream[c.task], c.expected, n)
      <4>1. PlanState(stream[c.task]) = "ready"
        BY <1>6, <3>1 DEF Allowed, MayApprove
      <4>2. SubSeq(stream[c.task], 1, n) = stream[c.task]
        BY <1>1, <1>4, SubSeqFull DEF TypeOK
      <4>3. c.expected <= n
        BY <1>3, <3>1
      <4>4. n \in c.expected..n
        BY <1>4, <4>3
      <4>5. PlanState(SubSeq(stream[c.task], 1, n)) = "ready"
        BY <4>1, <4>2, Zenon
      <4> QED BY <4>4, <4>5 DEF ReadyWithin
    <3> QED BY <3>1
  <2>3. <<"rejected", c>> \in said => c.type # "created" /\ c.expected < n
    <3>1. <<"rejected", c>> \in said => IsPast(c)
      BY <1>1, <1>3 DEF Node, RefusedIsPast
    <3> QED BY <1>3, <1>5, <1>6, <3>1 DEF IsPast
  <2>4. Known(c)' = Known(c)
    BY <1>2 DEF Known, RecordedUnder
  <2>5. ServingIsMet'
    BY <1>2, <1>3, <2>1, <2>2, <2>3, <2>4 DEF ServingIsMet
  <2>6. serving' \in [cmd: wire \cup {NoCommand}, step: {"none", "checked", "allowed"}]
    BY <1>3, <2>1
  <2> QED BY <1>1, <1>2, <2>1, <2>5, <2>6, QuietNodeStep DEF TypeOK
<1>7. CASE ~Allowed(c.type, stream[c.task])
  <2>1. serving' = Nobody /\ said' = said \cup {<<"rejected", c>>}
    BY <1>7 DEF DecideCommand, Answers
  <2>2. IsPast(c)
    <3>1. c.type = "created" => stream[c.task] # <<>>
      BY <1>7 DEF Allowed, MayCreate, StateOf
    <3>2. c.type # "created" => c.expected < n \/ c.expected = n
      BY <1>3, <1>4
    <3> QED BY <1>7, <3>1, <3>2 DEF IsPast
  <2>3. RecordedLate(c)
    <3>1. ~Recorded(c)
      BY <1>3, KnownMeans DEF Recorded
    <3> QED BY <3>1 DEF Recorded, RecordedLate
  <2>4. ServingIsMet'
    BY <2>1 DEF ServingIsMet, Nobody
  <2>5. said' \in SUBSET (Answered \X wire)
    BY <1>1, <1>3, <2>1 DEF TypeOK, Answered
  <2>6. serving' \in [cmd: wire \cup {NoCommand}, step: {"none", "checked", "allowed"}]
    BY <2>1 DEF Nobody
  <2>7. \A d \in wire :
          /\ <<"accepted", d>> \in said' => <<"accepted", d>> \in said
          /\ <<"refused", d>> \in said' => <<"refused", d>> \in said
          /\ <<"rejected", d>> \in said' => <<"rejected", d>> \in said \/ (IsPast(d) /\ RecordedLate(d))
    BY <2>1, <2>2, <2>3
  <2> QED BY <1>2, <2>1, <2>4, <2>5, <2>6, <2>7, QuietNodeStep
<1> QED BY <1>6, <1>7

\* The append.
LEMMA CommitKeeps ==
  ASSUME IInv, CommitCommand
  PROVE  IInv'
<1>1. TypeOK /\ ReadsThePast /\ Node
  BY DEF IInv, Node
<1>2. /\ wire' = wire /\ UNCHANGED <<clicks, asked, start, shown>>
      /\ serving.step = "allowed" /\ serving' = Nobody
  BY DEF CommitCommand
<1> PICK c \in wire : c = serving.cmd
  BY <1>1, <1>2 DEF Node, ServingIsMet
<1> DEFINE n == Len(stream[c.task])
<1>3. serving' \in [cmd: wire \cup {NoCommand}, step: {"none", "checked", "allowed"}] /\ ServingIsMet'
  BY <1>2 DEF Nobody, ServingIsMet
<1>4. /\ Known(c) = {} /\ <<"refused", c>> \notin said
      /\ c.type # "created" => c.expected <= n /\ PartsOnly(stream[c.task], c.expected, n)
      /\ c.type = "approved" => ReadyWithin(stream[c.task], c.expected, n)
      /\ <<"rejected", c>> \in said => c.type # "created" /\ c.expected < n
  BY <1>1, <1>2 DEF Node, ServingIsMet
<1>5. c \in Commands /\ c.task \in Tasks /\ c.type \in CommandTypes /\ c # NoCommand
  BY <1>1, <1>4, KeyApart DEF TypeOK, Commands
<1>6. RecordedAsSent /\ OncePerKey /\ RefusedIsPast /\ KeysApart
  BY <1>1, OncePerKeyIs DEF Node
<1>7. CASE Record(c.task, c.type, c) /\ (said' = said \cup {<<"accepted", c>>} \/ said' = said)
  <2>1. /\ stream' \in [Tasks -> Seq(Events)] /\ Grows
        /\ \A u \in Tasks \ {c.task} : stream'[u] = stream[u]
        /\ Len(stream'[c.task]) = Len(stream[c.task]) + 1
    BY <1>1, <1>5, <1>7, RecordAppends
  <2>2. /\ RecordedAsSent' /\ KeysApart' /\ Recorded(c)'
        /\ \A d : d # c /\ Recorded(d)' => Recorded(d)
        /\ \A d : d # c /\ RecordedLate(d) => RecordedLate(d)'
        /\ c.type # "created" /\ c.expected < n => RecordedLate(c)'
    BY <1>1, <1>2, <1>4, <1>5, <1>6, <1>7, RecordingKeepsTheRecord
  <2>3. \A d \in wire' : <<"accepted", d>> \in said' => Recorded(d)'
    BY <1>1, <1>2, <1>6, <1>7, <2>1, <2>2, GrowingKeeps DEF OncePerKey
  <2>4. \A u \in Tasks : Len(stream'[u]) = Len(stream[u]) => stream'[u] = stream[u]
    BY <1>1, <1>5, <2>1, LengthType DEF TypeOK
  <2>5. ASSUME NEW d \in wire
        PROVE  /\ <<"refused", d>> \in said' => ~Recorded(d)' /\ IsStale(d)'
               /\ <<"rejected", d>> \in said' => IsPast(d)' /\ RecordedLate(d)'
    <3>1. d \in Commands
      BY <1>1 DEF TypeOK
    <3>2. (IsPast(d) => IsPast(d)') /\ (IsStale(d) => IsStale(d)')
      BY <1>1, <2>1, <2>4, <3>1, PastStaysPast
    <3>3. /\ <<"refused", d>> \in said' => <<"refused", d>> \in said
          /\ <<"rejected", d>> \in said' => <<"rejected", d>> \in said
      BY <1>7
    <3>4. <<"refused", d>> \in said => d # c
      BY <1>4
    <3>5. <<"rejected", d>> \in said => RecordedLate(d)'
      BY <1>4, <1>6, <2>2 DEF RefusedIsPast
    <3> QED BY <1>6, <2>2, <3>2, <3>3, <3>4, <3>5 DEF RefusedIsPast
  <2>6. RefusedIsPast'
    BY <1>2, <2>5 DEF RefusedIsPast
  <2>7. OncePerKey'
    BY <2>2, <2>3 DEF OncePerKey, KeysApart
  <2>8. said' \in SUBSET (Answered \X wire)
    BY <1>1, <1>4, <1>7 DEF TypeOK, Answered
  <2>9. Node'
    BY <1>3, <2>2, <2>6, <2>7 DEF Node
  <2> QED BY <1>2, <1>3, <2>1, <2>8, <2>9, NodeSteps
<1>8. CASE UNCHANGED <<stream, said>>
  <2>1. said' \in SUBSET (Answered \X wire)
    BY <1>1, <1>8 DEF TypeOK
  <2> QED BY <1>2, <1>3, <1>8, <2>1, QuietNodeStep
<1> QED BY <1>7, <1>8 DEF CommitCommand, Answers

LEMMA RestartKeeps ==
  ASSUME IInv, Restart
  PROVE  IInv'
<1>1. stream' = stream /\ wire' = wire /\ said' = said /\ serving' = Nobody /\ UNCHANGED <<clicks, asked, start, shown>>
  BY DEF Restart
<1>2. serving' \in [cmd: wire \cup {NoCommand}, step: {"none", "checked", "allowed"}] /\ ServingIsMet'
  BY <1>1 DEF Nobody, ServingIsMet
<1>3. said' \in SUBSET (Answered \X wire)
  BY <1>1 DEF IInv, TypeOK
<1> QED BY <1>1, <1>2, <1>3, QuietNodeStep

LEMMA WritesKeeps ==
  ASSUME IInv, NEW t \in Tasks, NEW kind, kind # "approved",
         serving.step # "none" => kind \in OfItsParts, Writes(t, kind)
  PROVE  IInv'
<1>1. TypeOK /\ Node
  BY DEF IInv, Node
<1>2. /\ kind \in Emits /\ Record(t, kind, NoCommand)
      /\ UNCHANGED <<wire, said, serving, clicks, asked, start, shown>>
  BY DEF Writes
<1>3. stream' \in [Tasks -> Seq(Events)] /\ Grows /\ Node'
  BY <1>1, <1>2, WritingKeepsNode
<1>4. /\ said' \in SUBSET (Answered \X wire)
      /\ serving' \in [cmd: wire \cup {NoCommand}, step: {"none", "checked", "allowed"}]
  BY <1>1, <1>2 DEF TypeOK
<1> QED BY <1>2, <1>3, <1>4, NodeSteps

LEMMA OthersKeep ==
  ASSUME IInv, NEW t \in Tasks, NEW kind,
         Work(t, kind) \/ RecordAccess(t, kind) \/ QueryUpload(t)
  PROVE  IInv'
<1>1. CASE Work(t, kind)
  <2>1. kind # "approved" /\ kind \in OfItsParts
    BY <1>1 DEF Work, MayWrite, OfItsParts
  <2> QED BY <1>1, <2>1, WritesKeeps DEF Work
<1>2. CASE RecordAccess(t, kind)
  BY <1>2, WritesKeeps DEF RecordAccess, Nobody
<1>3. CASE QueryUpload(t)
  BY <1>3, WritesKeeps DEF QueryUpload, Nobody
<1> QED BY <1>1, <1>2, <1>3

\* A client sends a command again.
LEMMA RebuildCommandKeeps ==
  ASSUME IInv, NEW c \in wire, RebuildCommand(c)
  PROVE  IInv'
<1> DEFINE d == [c EXCEPT !.expected = Len(stream[c.task])]
<1>1. TypeOK /\ ReadsThePast /\ Node
  BY DEF IInv, Node
<1>2. wire' = wire \cup {d} /\ UNCHANGED <<stream, said, serving, clicks, asked, start, shown>>
  BY DEF RebuildCommand
<1>3. c \in Commands /\ Len(stream[c.task]) \in Nat
  BY <1>1, LengthType DEF TypeOK, Commands
<1>4. d \in Commands /\ d.task = c.task /\ d.expected = Len(stream[c.task])
  BY <1>3 DEF Commands
<1> HIDE DEF d
<1>5. TypeOK'
  <2>1. wire' \in SUBSET Commands /\ wire \subseteq wire'
    BY <1>1, <1>2, <1>4 DEF TypeOK
  <2>2. stream' \in [Tasks -> Seq(Events)] /\ clicks' \in Nat
        /\ start' \in [task: Tasks \cup {NoTask}, step: {"none", "create", "read", "authorize", "plan"}, asOf: Nat]
    BY <1>1, <1>2 DEF TypeOK
  <2>3. /\ said' \in SUBSET (Answered \X wire')
        /\ serving' \in [cmd: wire' \cup {NoCommand}, step: {"none", "checked", "allowed"}]
    BY <1>1, <1>2, <2>1 DEF TypeOK
  <2>4. asked' \in [{"start", "approve", "stop"} -> wire' \cup {NoCommand}]
    BY <1>1, <1>2, <2>1 DEF TypeOK
  <2> QED BY <2>1, <2>2, <2>3, <2>4 DEF TypeOK
<1>6. ReadsThePast'
  <2>1. \A b \in wire' : b.type # "created" => b.expected <= Len(stream[b.task])
    BY <1>1, <1>2, <1>3, <1>4 DEF ReadsThePast
  <2>2. view' = view /\ review' = review
    BY <1>2 DEF shown
  <2> QED BY <1>1, <1>2, <2>1, <2>2 DEF ReadsThePast
<1>7. Node'
  BY <1>1, <1>2, NodeKeeps
<1> QED BY <1>5, <1>6, <1>7 DEF IInv, Node

LEMMA Forgetting ==
  ASSUME TypeOK, NEW h \in Handlers, asked' = [asked EXCEPT ![h] = NoCommand]
  PROVE  /\ asked' \in [Handlers -> wire \cup {NoCommand}]
         /\ h # "start" => asked'["start"] = asked["start"]
BY DEF TypeOK, Handlers

\* The steps of the desktop's handlers.
StartSteps == TaskCreated \/ Authorize \/ UploadFails \/ TaskAuthorized \/ ReadPlan
ViewSteps == Synchronize \/ ApprovePlan \/ StopTask \/ CommandSettled

LEMMA StartKeeps ==
  ASSUME IInv, StartSteps
  PROVE  IInv'
<1> DEFINE t == start.task
<1>1. TypeOK /\ ReadsThePast /\ Node
  BY DEF IInv, Node
<1>2. start \in [task: Tasks \cup {NoTask}, step: {"none", "create", "read", "authorize", "plan"}, asOf: Nat]
  BY <1>1 DEF TypeOK
<1>3. start.step # "none" =>
        t \in Tasks /\ start.asOf <= Len(stream[t]) /\ Len(stream[t]) \in Nat
  BY <1>1, LengthType DEF TypeOK, ReadsThePast
<1>4. /\ view # NoView => view.task \in Tasks /\ view.seq \in 0..Len(stream[view.task])
      /\ review # NoReview => review.task \in Tasks /\ review.seq \in 0..Len(stream[review.task])
  BY <1>1 DEF ReadsThePast
<1>5. NoStart \in [task: Tasks \cup {NoTask}, step: {"none", "read", "authorize", "plan"}, asOf: Nat]
      /\ NoStart.step = "none"
  BY DEF NoStart
<1>6. ASSUME NEW step \in {"read", "authorize", "plan"}, NEW n \in Nat, GoesTo(step, n),
             start.step # "none", n <= Len(stream[t])
      PROVE  /\ start' \in [task: Tasks \cup {NoTask}, step: {"none", "read", "authorize", "plan"}, asOf: Nat]
             /\ start'.task = t /\ start'.asOf = n /\ start'.step = step
  BY <1>2, <1>3, <1>6 DEF GoesTo
<1>12. asked \in [Handlers -> wire \cup {NoCommand}] /\ "start" \in Handlers
  BY <1>1 DEF TypeOK, Handlers
<1>7. CASE TaskCreated
  <2>1. /\ UNCHANGED <<node, clicks>> /\ view' = view /\ review' = review
        /\ asked' \in [Handlers -> wire \cup {NoCommand}] /\ start.step = "create"
    BY <1>1, <1>12, Forgetting, <1>7 DEF TaskCreated, Accepted, Fails, Settles, shown
  <2>2. CASE Accepted("start") /\ GoesTo("read", 1)
    <3>1. asked["start"] \in wire /\ asked["start"].task = t /\ <<"accepted", asked["start"]>> \in said
      BY <1>1, <2>1, <2>2 DEF TypeOK, ReadsThePast, Accepted
    <3>2. Recorded(asked["start"])
      BY <1>1, <3>1 DEF Node, OncePerKey
    <3>3. PICK u \in Tasks : \E i \in 1..Len(stream[u]) : stream[u][i].cmd = asked["start"]
      BY <3>2 DEF Recorded
    <3>4. PICK i \in 1..Len(stream[u]) : stream[u][i].cmd = asked["start"]
      BY <3>3
    <3>5. u = t
      BY <1>1, <2>1, <3>1, <3>4 DEF Node, RecordedAsSent, ReadsThePast
    <3>6. 1 <= Len(stream[t])
      BY <1>3, <2>1, <3>4, <3>5
    <3>7. /\ start' \in [task: Tasks \cup {NoTask}, step: {"none", "read", "authorize", "plan"}, asOf: Nat]
          /\ start'.task = t /\ start'.asOf = 1 /\ start'.step = "read"
      BY <1>6, <2>1, <2>2, <3>6
    <3>8. t \in Tasks
      BY <1>3, <2>1
    <3> QED BY <1>4, <2>1, <3>6, <3>7, <3>8, DesktopSteps
  <2>3. CASE start' = NoStart
    BY <1>4, <1>5, <2>1, <2>3, DesktopSteps
  <2> QED BY <1>7, <2>2, <2>3 DEF TaskCreated
<1>8. CASE Authorize
  <2>1. PICK n \in {start.asOf, AsOfSequence(t)} :
          Issue("start", "authorized", t, n) /\ GoesTo("authorize", n)
    BY <1>8 DEF Authorize
  <2>2. start.step = "read" /\ view' = view /\ review' = review
    BY <1>8 DEF Authorize, shown
  <2>3. n \in Nat /\ n <= Len(stream[t]) /\ t \in Tasks
    BY <1>2, <1>3, <2>2 DEF AsOfSequence
  <2>4. /\ start' \in [task: Tasks \cup {NoTask}, step: {"none", "read", "authorize", "plan"}, asOf: Nat]
        /\ start'.task = t /\ start'.asOf = n
    BY <1>6, <2>1, <2>2, <2>3
  <2>5. "start" \in Handlers /\ "authorized" \in CommandTypes
    BY DEF Handlers, CommandTypes
  <2> QED BY <2>1, <2>2, <2>3, <2>4, <2>5, SendingSteps
<1>9. CASE UploadFails
  <2>1. UNCHANGED <<node, clicks>> /\ asked' = asked /\ view' = view /\ review' = review /\ start' = NoStart
    BY <1>9 DEF UploadFails, shown
  <2> QED BY <1>4, <1>5, <1>12, <2>1, DesktopSteps
<1>10. CASE TaskAuthorized
  <2>1. /\ UNCHANGED <<node, clicks>> /\ view' = view /\ review' = review
        /\ asked' \in [Handlers -> wire \cup {NoCommand}] /\ start.step = "authorize"
    BY <1>1, <1>12, Forgetting, <1>10 DEF TaskAuthorized, Accepted, Fails, Settles, shown
  <2>2. CASE GoesTo("plan", AsOfSequence(t))
    <3>1. t \in Tasks /\ AsOfSequence(t) \in Nat /\ AsOfSequence(t) <= Len(stream[t])
      BY <1>3, <2>1 DEF AsOfSequence
    <3>2. /\ start' \in [task: Tasks \cup {NoTask}, step: {"none", "read", "authorize", "plan"}, asOf: Nat]
          /\ start'.task = t /\ start'.asOf = AsOfSequence(t) /\ start'.step = "plan"
      BY <1>6, <2>1, <2>2, <3>1
    <3> QED BY <1>4, <2>1, <3>1, <3>2, DesktopSteps
  <2>3. CASE start' = NoStart
    BY <1>4, <1>5, <2>1, <2>3, DesktopSteps
  <2> QED BY <1>10, <2>2, <2>3 DEF TaskAuthorized
<1>11. CASE ReadPlan
  <2>1. /\ start.step = "plan" /\ UNCHANGED <<node, clicks>> /\ asked' = asked /\ start' = NoStart
        /\ view' = [task |-> t, seq |-> start.asOf] /\ review' \in {NoReview, Plan(t)}
    BY <1>11 DEF ReadPlan
  <2>2. view'.task \in Tasks /\ view'.seq \in 0..Len(stream[view'.task])
    BY <1>2, <1>3, <2>1
  <2>3. review' # NoReview => review'.task \in Tasks /\ review'.seq \in 0..Len(stream[review'.task])
    BY <1>3, <2>1 DEF Plan
  <2> QED BY <1>5, <1>12, <2>1, <2>2, <2>3, DesktopSteps
<1> QED BY <1>7, <1>8, <1>9, <1>10, <1>11 DEF StartSteps

LEMMA StartTaskKeeps ==
  ASSUME IInv, NEW t \in Tasks, StartTask(t)
  PROVE  IInv'
<1>1. /\ Issue("start", "created", t, 0) /\ view' = view
      /\ start' = [task |-> t, step |-> "create", asOf |-> 0] /\ review' \in {review, NoReview}
  BY DEF StartTask
<1>2. "start" \in Handlers /\ "created" \in CommandTypes
  BY DEF Handlers, CommandTypes
<1>3. Len(stream[t]) \in Nat
  BY LengthType DEF IInv, TypeOK
<1>4. start'.task = t /\ start'.asOf <= Len(stream[t])
  BY <1>1, <1>3
<1>5. start' \in [task: Tasks \cup {NoTask}, step: {"none", "create", "read", "authorize", "plan"}, asOf: Nat]
  BY <1>1
<1> QED BY <1>1, <1>2, <1>4, <1>5, SendingSteps

LEMMA RequestReviewKeeps ==
  ASSUME IInv, NEW t \in Tasks, RequestReview(t)
  PROVE  IInv'
<1>1. Issue("stop", "review", t, Len(stream[t])) /\ start' = start /\ view' = view /\ review' = review
  BY DEF RequestReview, shown
<1>2. "stop" \in Handlers /\ "review" \in CommandTypes
  BY DEF Handlers, CommandTypes
<1>3. Len(stream[t]) \in Nat /\ Len(stream[t]) <= Len(stream[t])
  BY LengthType DEF IInv, TypeOK
<1>4. start' \in [task: Tasks \cup {NoTask}, step: {"none", "create", "read", "authorize", "plan"}, asOf: Nat]
  BY <1>1 DEF IInv, TypeOK
<1> QED BY <1>1, <1>2, <1>3, <1>4, SendingSteps

LEMMA ViewKeeps ==
  ASSUME IInv, ViewSteps
  PROVE  IInv'
<1>1. TypeOK /\ ReadsThePast
  BY DEF IInv
<1>2. /\ view # NoView => view.task \in Tasks /\ view.seq \in 0..Len(stream[view.task])
      /\ review # NoReview => review.task \in Tasks /\ review.seq \in 0..Len(stream[review.task])
      /\ \A t \in Tasks : Len(stream[t]) \in Nat
  BY <1>1, LengthType DEF TypeOK, ReadsThePast
<1>9. asked \in [Handlers -> wire \cup {NoCommand}]
  BY <1>1 DEF TypeOK, Handlers
<1>3. CASE Synchronize
  <2>1. /\ UNCHANGED <<node, clicks>> /\ asked' = asked /\ start' = start /\ review' = review
        /\ view # NoView /\ view' = [view EXCEPT !.seq = Len(stream[view.task])]
    BY <1>3 DEF Synchronize
  <2>2. view' # NoView => view'.task \in Tasks /\ view'.seq \in 0..Len(stream[view'.task])
    BY <1>2, <2>1
  <2> QED BY <1>2, <1>9, <2>1, <2>2, DesktopSteps
<1>4. start \in [task: Tasks \cup {NoTask}, step: {"none", "create", "read", "authorize", "plan"}, asOf: Nat]
  BY <1>1 DEF TypeOK
<1>5. {"approve", "stop"} \subseteq Handlers /\ {"approved", "stopped"} \subseteq CommandTypes
  BY DEF Handlers, CommandTypes
<1>6. CASE ApprovePlan
  <2>1. /\ Issue("approve", "approved", review.task, review.seq)
        /\ start' = start /\ view' = view /\ review' = review
    BY <1>6 DEF ApprovePlan, shown
  <2>2. review # NoReview
    BY <1>6 DEF ApprovePlan, ReviewIsCurrent, NoReview
  <2>3. review.task \in Tasks /\ review.seq \in Nat /\ review.seq <= Len(stream[review.task])
    BY <1>2, <2>2
  <2> QED BY <1>4, <1>5, <2>1, <2>3, SendingSteps
<1>7. CASE StopTask
  <2>1. /\ Issue("stop", "stopped", view.task, view.seq) /\ view # NoView
        /\ start' = start /\ view' = view /\ review' = review
    BY <1>7 DEF StopTask, shown
  <2>2. view.task \in Tasks /\ view.seq \in Nat /\ view.seq <= Len(stream[view.task])
    BY <1>2, <2>1
  <2> QED BY <1>4, <1>5, <2>1, <2>2, SendingSteps
<1>8. CASE CommandSettled
  <2>1. /\ UNCHANGED <<node, clicks>> /\ start' = start /\ view' = view /\ review' = review
        /\ \E h \in {"approve", "stop"} : asked' = [asked EXCEPT ![h] = NoCommand]
    BY <1>8 DEF CommandSettled, Fails, Settles, shown
  <2>2. PICK h \in {"approve", "stop"} : asked' = [asked EXCEPT ![h] = NoCommand]
    BY <2>1
  <2>3. h \in Handlers /\ h # "start"
    BY DEF Handlers
  <2>4. asked' \in [Handlers -> wire \cup {NoCommand}] /\ asked'["start"] = asked["start"]
    BY <1>1, <2>2, <2>3, Forgetting
  <2> QED BY <1>2, <2>1, <2>4, DesktopSteps
<1> QED BY <1>3, <1>6, <1>7, <1>8 DEF ViewSteps

\* The commands under way, what the ledger holds of them and what the desktop
\* goes by stay in step, through every step of the Node and of the desktop.
THEOREM CommandsInductive == Spec => []IInv
<1>1. IInv /\ [Next]_vars => IInv'
  <2> SUFFICES ASSUME IInv, [Next]_vars PROVE IInv'
    OBVIOUS
  <2>1. CASE \E c \in wire : ReceiveCommand(c) \/ RebuildCommand(c)
    BY <2>1, ReceiveKeeps, RebuildCommandKeeps
  <2>7. CASE DecideCommand \/ CommitCommand \/ Restart
    BY <2>7, DecideKeeps, CommitKeeps, RestartKeeps
  <2>2. CASE \E t \in Tasks, k \in Emits : Work(t, k) \/ RecordAccess(t, k)
    BY <2>2, OthersKeep
  <2>3. CASE \E t \in Tasks : QueryUpload(t) \/ StartTask(t) \/ RequestReview(t)
    BY <2>3, OthersKeep, StartTaskKeeps, RequestReviewKeeps
  <2>4. CASE StartSteps
    BY <2>4, StartKeeps
  <2>5. CASE ViewSteps
    BY <2>5, ViewKeeps
  <2>6. CASE UNCHANGED vars
    <3>1. UNCHANGED <<node, clicks>> /\ asked' = asked /\ start' = start /\ view' = view /\ review' = review
      BY <2>6 DEF vars, shown
    <3>2. /\ view # NoView => view.task \in Tasks /\ view.seq \in 0..Len(stream[view.task])
          /\ review # NoReview => review.task \in Tasks /\ review.seq \in 0..Len(stream[review.task])
      BY DEF IInv, ReadsThePast
    <3>3. asked \in [Handlers -> wire \cup {NoCommand}]
      BY DEF IInv, TypeOK, Handlers
    <3> QED BY <3>1, <3>2, <3>3, DesktopSteps
  <2> QED BY <2>1, <2>2, <2>3, <2>4, <2>5, <2>6, <2>7 DEF Next, StartSteps, ViewSteps
<1> QED BY <1>1, IInvInit, PTL DEF Spec

\* However often a command arrives, one event is recorded under its key, and a
\* client that was told "accepted" finds its command in the ledger.
THEOREM CommandsOnce == Spec => []OncePerKey
<1>1. IInv => OncePerKey
  BY DEF IInv
<1> QED BY <1>1, CommandsInductive, PTL

\* A command that was refused is not carried out by a later copy of it; one that
\* was rejected only behind something that was written while it was served.
THEOREM RefusedNeverApplied == Spec => []RefusedForGood
<1>1. IInv => RefusedForGood
  BY DEF IInv, RefusedIsPast, RecordedLate, RefusedForGood
<1> QED BY <1>1, CommandsInductive, PTL

\* Between what the sender of a command saw and the command stands only what the
\* Node's other parts wrote, and an approved plan was approvable in between.
THEOREM CommandsMeetWhatWasSeen == Spec => []ActsOnWhatWasSeen
<1>1. IInv => ActsOnWhatWasSeen
  BY DEF IInv, RecordedAsSent, PartsOnly, ReadyWithin, ActsOnWhatWasSeen
<1> QED BY <1>1, CommandsInductive, PTL

-----------------------------------------------------------------------------
(***************************************************************************)
(* The view of a task.                                                     *)
(***************************************************************************)
TaskEvents == [n: Nat, kind: STRING]
Callers == {"loop", "refresh", "start", "none"}
Shapes == [seen: Seq(TaskEvents), health: {"none", "current", "blocked", "resynchronizing"}]
Busy == [task: SyncTasks, at: {"ask", "got", "ask snapshot", "got snapshot"}, from: Nat, pass: Nat,
         attempt: Nat, reply: Seq(TaskEvents), more: BOOLEAN, waits: SUBSET Callers]
Free == [task: {Sync!NoTask}, at: {"free"}, waits: SUBSET Callers]

\* The beginning of a stream, and a piece of it after n events, event by event.
Begins(seen, t) ==
  /\ seen \in Seq(TaskEvents)
  /\ Len(seen) <= Len(streams[t])
  /\ \A i \in 1..Len(seen) : seen[i] = streams[t][i]
Follows(batch, t, n) ==
  /\ batch \in Seq(TaskEvents)
  /\ n + Len(batch) <= Len(streams[t])
  /\ \A i \in 1..Len(batch) : batch[i] = streams[t][n + i]

SyncTypes ==
  /\ streams \in [SyncTasks -> Seq(TaskEvents)]
  /\ \A t \in SyncTasks : \A i \in 1..Len(streams[t]) : streams[t][i].n = i
  /\ store \in [SyncTasks -> Shapes]
  /\ op \in [Slots -> Busy \cup Free]
  /\ ref \in Slots \cup {0}
  /\ cur \in SyncTasks \cup {Sync!NoTask} /\ loop \in SyncTasks \cup {Sync!NoTask}
  /\ starting.step # "none" => starting.task \in SyncTasks

OpHolds(o) ==
  o \in Busy =>
    /\ o.from <= Len(streams[o.task])
    /\ o.at = "got" => Follows(o.reply, o.task, o.from)
    /\ o.at = "got snapshot" => Begins(o.reply, o.task)

SyncInv ==
  /\ SyncTypes
  /\ \A t \in SyncTasks : Begins(store[t].seen, t)
  /\ \A i \in Slots : OpHolds(op[i])
  /\ projection.task # Sync!NoTask => projection.task \in SyncTasks
       /\ Begins(projection.seen, projection.task)

-----------------------------------------------------------------------------
(***************************************************************************)
(* Pieces of a stream.                                                     *)
(***************************************************************************)
LEMMA UptoLaw ==
  ASSUME NEW S, NEW s \in Seq(S), NEW n \in Nat
  PROVE  /\ Sync!Upto(s, n) \in Seq(S)
         /\ Len(Sync!Upto(s, n)) <= n /\ Len(Sync!Upto(s, n)) <= Len(s)
         /\ n <= Len(s) => Len(Sync!Upto(s, n)) = n
         /\ \A i \in 1..Len(Sync!Upto(s, n)) : Sync!Upto(s, n)[i] = s[i]
<1> DEFINE m == IF n < Len(s) THEN n ELSE Len(s)
<1>1. Len(s) \in Nat /\ m \in Nat /\ m <= n /\ m <= Len(s) /\ (n <= Len(s) => m = n)
  BY LenProperties
<1>2. Sync!Upto(s, n) = SubSeq(s, 1, m)
  BY DEF Sync!Upto
<1> HIDE DEF m
<1>3. \A i \in 1..m : s[i] \in S
  BY <1>1, ElementOfSeq
<1>4. /\ SubSeq(s, 1, m) \in Seq(S) /\ Len(SubSeq(s, 1, m)) = m
      /\ \A i \in 1..m : SubSeq(s, 1, m)[i] = s[i]
  BY <1>1, <1>3, SubSeqProperties
<1> QED BY <1>1, <1>2, <1>4

LEMMA FromLaw ==
  ASSUME NEW S, NEW s \in Seq(S), NEW n \in 0..Len(s)
  PROVE  /\ Sync!From(s, n) \in Seq(S) /\ Len(Sync!From(s, n)) = Len(s) - n
         /\ \A i \in 1..Len(s) - n : Sync!From(s, n)[i] = s[n + i]
<1>1. Len(s) \in Nat
  BY LenProperties
<1>2. \A i \in n + 1..Len(s) : s[i] \in S
  BY <1>1, ElementOfSeq
<1>3. /\ SubSeq(s, n + 1, Len(s)) \in Seq(S)
      /\ Len(SubSeq(s, n + 1, Len(s))) = Len(s) - n
      /\ \A i \in 1..Len(s) - n : SubSeq(s, n + 1, Len(s))[i] = s[n + i]
  BY <1>1, <1>2, SubSeqProperties
<1> QED BY <1>3 DEF Sync!From

\* The set of numbers that are not above m and have a property P has a greatest.
LEMMA Greatest ==
  ASSUME NEW m \in Nat, NEW K \in SUBSET (0..m), K # {}
  PROVE  \E k \in K : \A g \in K : g <= k
<1> DEFINE R == StrictSubsetOrdering(0..m)
           T == {k..m : k \in K}
<1>1. T \subseteq SUBSET (0..m) /\ T # {}
  <2>1. \A k \in K : k..m \subseteq 0..m
    OBVIOUS
  <2> QED BY <2>1
<1>2. IsWellFoundedOn(R, SUBSET (0..m))
  <2>1. IsFiniteSet(0..m)
    BY FS_Interval
  <2> QED BY <2>1, FS_StrictSubsetOrderingWellFounded, FS_FiniteSubsetsOfFinite
<1>3. PICK X \in T : \A Y \in T : ~ (<<Y, X>> \in R)
  BY <1>1, <1>2, WFMin
<1>4. PICK k \in K : X = k..m
  OBVIOUS
<1>5. ASSUME NEW g \in K, g > k
      PROVE  FALSE
  <2>1. g..m \in T /\ g..m \in SUBSET (0..m) /\ k..m \in SUBSET (0..m)
    BY <1>1, <1>4
  <2>2. g..m \subseteq k..m /\ k \in k..m /\ k \notin g..m
    BY <1>5
  <2>3. <<g..m, k..m>> \in R
    BY <2>1, <2>2 DEF StrictSubsetOrdering
  <2> QED BY <1>3, <1>4, <2>1, <2>3
<1>6. \A g \in K : g <= k
  BY <1>5
<1> QED BY <1>6

LEMMA BeginsIsPrefix ==
  ASSUME streams \in [SyncTasks -> Seq(TaskEvents)], NEW t \in SyncTasks, NEW seen, Begins(seen, t)
  PROVE  IsPrefix(seen, t)
<1>1. seen \in Seq(TaskEvents) /\ Len(seen) \in Nat /\ Len(seen) <= Len(streams[t])
  BY LenProperties DEF Begins
<1>2. /\ Sync!Upto(streams[t], Len(seen)) \in Seq(TaskEvents)
      /\ Len(Sync!Upto(streams[t], Len(seen))) = Len(seen)
      /\ \A i \in 1..Len(seen) : Sync!Upto(streams[t], Len(seen))[i] = streams[t][i]
  BY <1>1, UptoLaw
<1> QED BY <1>1, <1>2, SeqEqual DEF Begins, IsPrefix, Upto, Sync!Upto

LEMMA NoEventsBegin ==
  ASSUME streams \in [SyncTasks -> Seq(TaskEvents)], NEW t \in SyncTasks
  PROVE  Begins(<<>>, t) /\ Begins(streams[t], t)
<1>1. Len(streams[t]) \in Nat /\ Len(<<>>) = 0 /\ <<>> \in Seq(TaskEvents)
  BY LenProperties, EmptySeq
<1> QED BY <1>1 DEF Begins

LEMMA UptoBegins ==
  ASSUME streams \in [SyncTasks -> Seq(TaskEvents)], NEW t \in SyncTasks, NEW n \in Nat
  PROVE  Begins(Sync!Upto(streams[t], n), t)
<1>1. streams[t] \in Seq(TaskEvents)
  OBVIOUS
<1> DEFINE s == streams[t]
<1> HIDE DEF s
<1>2. /\ Sync!Upto(s, n) \in Seq(TaskEvents) /\ Len(Sync!Upto(s, n)) <= Len(s)
      /\ \A i \in 1..Len(Sync!Upto(s, n)) : Sync!Upto(s, n)[i] = s[i]
  <2>1. s \in Seq(TaskEvents)
    BY <1>1 DEF s
  <2> QED BY <2>1, UptoLaw
<1> QED BY <1>2 DEF Begins, s

\* What the Node answers follows what it was asked for.
LEMMA BatchFollows ==
  ASSUME Sync!SyncAssumption, streams \in [SyncTasks -> Seq(TaskEvents)], NEW t \in SyncTasks,
         NEW n \in 0..Len(streams[t])
  PROVE  Follows(Sync!BatchAfter(streams[t], n), t, n)
<1> DEFINE rest == Sync!From(streams[t], n)
<1>6. streams[t] \in Seq(TaskEvents)
  OBVIOUS
<1>7. Len(streams[t]) \in Nat
  BY <1>6, LenProperties
<1>1. /\ rest \in Seq(TaskEvents) /\ Len(rest) = Len(streams[t]) - n
      /\ \A i \in 1..Len(streams[t]) - n : rest[i] = streams[t][n + i]
  BY <1>6, FromLaw
<1> HIDE DEF rest
<1>2. MAX_EVENT_BATCH \in Nat
  BY DEF Sync!SyncAssumption
<1>3. /\ Sync!Upto(rest, MAX_EVENT_BATCH) \in Seq(TaskEvents)
      /\ Len(Sync!Upto(rest, MAX_EVENT_BATCH)) <= Len(rest)
      /\ \A i \in 1..Len(Sync!Upto(rest, MAX_EVENT_BATCH)) : Sync!Upto(rest, MAX_EVENT_BATCH)[i] = rest[i]
  <2>1. rest \in Seq(TaskEvents)
    BY <1>1
  <2> QED BY <1>2, <2>1, UptoLaw
<1>4. Len(Sync!Upto(rest, MAX_EVENT_BATCH)) \in Nat
  BY <1>3, LenProperties
<1>5. Sync!BatchAfter(streams[t], n) = Sync!Upto(rest, MAX_EVENT_BATCH)
  BY DEF Sync!BatchAfter, rest
<1> QED BY <1>1, <1>3, <1>4, <1>5, <1>7 DEF Follows

\* The new events of a batch, when nothing is missing before them, follow
\* what the projection has.
LEMMA NewEventsFollow ==
  ASSUME SyncTypes, NEW t \in SyncTasks, NEW p, NEW batch, NEW n \in Nat,
         Begins(p.seen, t), Follows(batch, t, n)
  PROVE  /\ Sync!NewEvents(p, batch) \in Seq(TaskEvents)
         /\ ~Sync!HasGap(p, batch) => Follows(Sync!NewEvents(p, batch), t, Len(p.seen))
<1> DEFINE L == Len(p.seen)
           new == {j \in 1..Len(batch) : batch[j].n > L}
           j0 == CHOOSE j \in new : \A k \in new : j <= k
<1>1. L \in Nat /\ L <= Len(streams[t]) /\ batch \in Seq(TaskEvents) /\ Len(batch) \in Nat
      /\ Len(streams[t]) \in Nat
  BY LenProperties DEF Begins, Follows, SyncTypes
<1>2. \A j \in 1..Len(batch) : batch[j] = streams[t][n + j] /\ n + j \in 1..Len(streams[t])
  BY <1>1 DEF Follows
<1>3. \A j \in 1..Len(batch) : batch[j].n = n + j
  BY <1>2 DEF SyncTypes
<1>4. CASE new = {}
  <2>1. Sync!NewEvents(p, batch) = <<>>
    BY <1>4 DEF Sync!NewEvents
  <2> QED BY <1>1, <2>1, EmptySeq DEF Follows
<1>5. CASE new # {}
  <2>1. j0 \in new
    <3>1. PICK j \in new : TRUE
      BY <1>5
    <3>2. n + j > L /\ j \in 1..Len(batch)
      BY <1>3, <3>1
    <3>3. CASE n >= L
      <4>1. 1 \in new /\ \A k \in new : 1 <= k
        BY <1>1, <1>3, <3>2, <3>3
      <4> QED BY <4>1
    <3>4. CASE n < L
      <4>1. L - n + 1 \in 1..Len(batch)
        BY <1>1, <3>2, <3>4
      <4>2. L - n + 1 \in new
        <5>1. batch[L - n + 1].n = n + (L - n + 1)
          BY <1>3, <4>1
        <5>2. batch[L - n + 1].n > L
          BY <1>1, <5>1
        <5> QED BY <4>1, <5>2
      <4>3. \A k \in new : L - n + 1 <= k
        BY <1>1, <1>3, <3>4
      <4> QED BY <4>2, <4>3
    <3> QED BY <1>1, <3>3, <3>4
  <2> DEFINE rest == Sync!From(batch, j0 - 1)
  <2>2. Sync!NewEvents(p, batch) = rest
    BY <1>5 DEF Sync!NewEvents
  <2> HIDE DEF j0
  <2>3. j0 \in 1..Len(batch) /\ n + j0 > L
    BY <1>3, <2>1
  <2>4. /\ rest \in Seq(TaskEvents) /\ Len(rest) = Len(batch) - (j0 - 1)
        /\ \A i \in 1..Len(batch) - (j0 - 1) : rest[i] = batch[(j0 - 1) + i]
    <3>1. j0 - 1 \in 0..Len(batch) /\ batch \in Seq(TaskEvents)
      BY <1>1, <2>3
    <3> HIDE DEF new, L
    <3> QED BY <3>1, FromLaw
  <2> HIDE DEF rest
  <2>5. rest # <<>> /\ rest[1].n = n + j0
    <3>1. Len(rest) > 0 /\ rest[1] = batch[j0]
      BY <1>1, <2>3, <2>4
    <3> QED BY <1>3, <2>3, <3>1
  <2>6. ASSUME ~Sync!HasGap(p, batch)
        PROVE  Follows(rest, t, L)
    <3>1. n + j0 = L + 1
      BY <1>1, <2>2, <2>3, <2>5, <2>6 DEF Sync!HasGap
    <3>2. L + Len(rest) <= Len(streams[t])
      <4>1. n + Len(batch) <= Len(streams[t])
        BY DEF Follows
      <4>2. Len(rest) = Len(batch) - (j0 - 1)
        BY <2>4
      <4> HIDE DEF new, L
      <4> QED BY <1>1, <2>3, <3>1, <4>1, <4>2
    <3>3. ASSUME NEW i \in 1..Len(rest)
          PROVE  rest[i] = streams[t][L + i]
      <4>1. i \in 1..Len(batch) - (j0 - 1) /\ (j0 - 1) + i \in 1..Len(batch)
        BY <1>1, <2>3, <2>4
      <4>2. n + ((j0 - 1) + i) = L + i
        BY <1>1, <2>3, <3>1
      <4> QED BY <1>2, <2>4, <4>1, <4>2
    <3> QED BY <2>4, <3>2, <3>3 DEF Follows
  <2> QED BY <2>2, <2>4, <2>6
<1> QED BY <1>4, <1>5

LEMMA AppliedBegins ==
  ASSUME SyncTypes, NEW t \in SyncTasks, NEW p, NEW batch, NEW n \in Nat,
         Begins(p.seen, t), Follows(batch, t, n), ~Sync!HasGap(p, batch)
  PROVE  Begins(Sync!Applied(p, batch).seen, t)
<1> DEFINE new == Sync!NewEvents(p, batch)
           known == {k \in 0..Len(new) : \A i \in 1..k : new[i].kind # Sync!Unknown}
           m == CHOOSE k \in known : \A g \in known : g <= k
           L == Len(p.seen)
<1>1. new \in Seq(TaskEvents) /\ Follows(new, t, L)
  BY NewEventsFollow
<1>2. Sync!Applied(p, batch).seen = p.seen \o Sync!Upto(new, m)
  BY DEF Sync!Applied
<1> HIDE DEF new
<1>3. Len(new) \in Nat /\ L \in Nat /\ p.seen \in Seq(TaskEvents) /\ Len(streams[t]) \in Nat
  BY <1>1, LenProperties DEF Begins, SyncTypes
<1>4. 0 \in known
  BY <1>3
<1>5. m \in 0..Len(new)
  <2>1. \E k \in known : \A g \in known : g <= k
    BY <1>3, <1>4, Greatest
  <2> QED BY <2>1
<1> HIDE DEF m
<1> DEFINE more == Sync!Upto(new, m)
<1>6. /\ more \in Seq(TaskEvents) /\ Len(more) = m
      /\ \A i \in 1..m : more[i] = new[i]
  BY <1>1, <1>3, <1>5, UptoLaw
<1> HIDE DEF more
<1>7. /\ p.seen \o more \in Seq(TaskEvents) /\ Len(p.seen \o more) = L + m
      /\ \A i \in 1..L + m : (p.seen \o more)[i] = IF i <= L THEN p.seen[i] ELSE more[i - L]
  BY <1>3, <1>6, ConcatProperties
<1>8. ASSUME NEW i \in 1..L + m
      PROVE  (p.seen \o more)[i] = streams[t][i]
  <2>1. CASE i <= L
    BY <1>3, <1>5, <1>7, <2>1 DEF Begins
  <2>2. CASE i > L
    <3>1. i - L \in 1..m /\ i - L \in 1..Len(new) /\ L + (i - L) = i
      <4> HIDE DEF known, L
      <4> QED BY <1>3, <1>5, <2>2
    <3>2. (p.seen \o more)[i] = more[i - L]
      BY <1>3, <1>7, <2>2
    <3>3. more[i - L] = new[i - L]
      BY <1>6, <3>1
    <3>4. new[i - L] = streams[t][L + (i - L)]
      BY <1>1, <3>1 DEF Follows
    <3> QED BY <3>1, <3>2, <3>3, <3>4
  <2>3. L + m \in Int
    BY <1>3, <1>5
  <2>4. i <= L \/ i > L
    BY <1>3, <2>3
  <2> QED BY <2>1, <2>2, <2>4
<1>9. L + m <= Len(streams[t])
  BY <1>1, <1>3, <1>5 DEF Follows
<1> QED BY <1>2, <1>7, <1>8, <1>9 DEF Begins, more


-----------------------------------------------------------------------------
(***************************************************************************)
(* Synchronizations.                                                       *)
(***************************************************************************)
OpsHold(ops) == ops \in [Slots -> Busy \cup Free] /\ \A i \in Slots : OpHolds(ops[i])

LEMMA SlotKinds ==
  /\ \A o \in Busy : o.task \in SyncTasks /\ o.at # "free" /\ o \notin Free
  /\ \A o \in Free : o.at = "free" /\ o \notin Busy
  /\ Sync!NoOp \in Free
BY DEF Busy, Free, Sync!NoOp

LEMMA WaitsAside ==
  ASSUME NEW o \in Busy \cup Free, OpHolds(o), NEW w \in SUBSET Callers
  PROVE  [o EXCEPT !.waits = w] \in Busy \cup Free /\ OpHolds([o EXCEPT !.waits = w])
<1> DEFINE d == [o EXCEPT !.waits = w]
<1>1. CASE o \in Busy
  <2>1. d \in Busy /\ d.from = o.from /\ d.task = o.task /\ d.at = o.at /\ d.reply = o.reply
    BY <1>1 DEF Busy
  <2> QED BY <1>1, <2>1 DEF OpHolds
<1>2. CASE o \in Free
  <2>1. d \in Free
    BY <1>2 DEF Free
  <2> QED BY <2>1, SlotKinds DEF OpHolds
<1> QED BY <1>1, <1>2

LEMMA WithoutLoopHolds ==
  ASSUME NEW ops, OpsHold(ops)
  PROVE  OpsHold(Sync!WithoutLoop(ops))
<1>1. ASSUME NEW i \in Slots
      PROVE  /\ [ops[i] EXCEPT !.waits = @ \ {"loop"}] \in Busy \cup Free
             /\ OpHolds([ops[i] EXCEPT !.waits = @ \ {"loop"}])
  <2>1. ops[i] \in Busy \cup Free /\ OpHolds(ops[i])
    BY DEF OpsHold
  <2>2. ops[i].waits \ {"loop"} \in SUBSET Callers
    BY <2>1 DEF Busy, Free
  <2> QED BY <2>1, <2>2, WaitsAside
<1> QED BY <1>1 DEF OpsHold, Sync!WithoutLoop

LEMMA ReplacingHolds ==
  ASSUME NEW ops, OpsHold(ops), NEW i \in Slots, NEW o \in Busy \cup Free, OpHolds(o)
  PROVE  OpsHold([ops EXCEPT ![i] = o])
BY DEF OpsHold

LEMMA SynchronizeHolds ==
  ASSUME NEW ops, OpsHold(ops), ref \in Slots \cup {0}, NEW t \in SyncTasks,
         NEW new \in Busy, OpHolds(new), NEW who \in Callers, Sync!Synchronize(t, new, who, ops)
  PROVE  OpsHold(op') /\ ref' \in Slots \cup {0}
<1>1. CASE ref # 0
  <2>1. op' = [ops EXCEPT ![ref].waits = @ \cup {who}] /\ ref' = ref
    BY <1>1 DEF Sync!Synchronize, Sync!Joins
  <2>2. ref \in Slots /\ ops[ref] \in Busy \cup Free /\ OpHolds(ops[ref])
    BY <1>1 DEF OpsHold
  <2>3. ops[ref].waits \cup {who} \in SUBSET Callers
    BY <2>2 DEF Busy, Free
  <2> DEFINE o == [ops[ref] EXCEPT !.waits = ops[ref].waits \cup {who}]
  <2>4. o \in Busy \cup Free /\ OpHolds(o)
    BY <2>2, <2>3, WaitsAside
  <2>5. op' = [ops EXCEPT ![ref] = o]
    BY <2>1
  <2> HIDE DEF o
  <2>6. OpsHold([ops EXCEPT ![ref] = o])
    BY <2>2, <2>4, ReplacingHolds
  <2>7. ref' \in Slots \cup {0}
    BY <2>1
  <2> QED BY <2>5, <2>6, <2>7
<1>2. CASE ref = 0
  <2>1. PICK i \in Slots : op' = [ops EXCEPT ![i] = new] /\ ref' = i
    BY <1>2 DEF Sync!Synchronize, Sync!Joins
  <2> QED BY <2>1, ReplacingHolds
<1> QED BY <1>1, <1>2

Beginnings == \A t \in SyncTasks : Begins(store[t].seen, t)

\* Where a new synchronization begins, whatever it replaces.
LEMMA AskingHolds ==
  ASSUME NEW o \in Busy, o.at = "ask", o.from <= Len(streams[o.task])
  PROVE  OpHolds(o)
BY DEF OpHolds

LEMMA NewOpHolds ==
  ASSUME SyncTypes, Beginnings, NEW t \in SyncTasks, NEW who \in Callers
  PROVE  /\ Sync!NewOp(t, who) \in Busy /\ OpHolds(Sync!NewOp(t, who))
         /\ Sync!NewOp(t, who).task = t /\ Sync!NewOp(t, who).at = "ask"
         /\ Sync!NewOp(t, who).from <= Len(streams[t])
<1>1. Len(store[t].seen) \in Nat /\ Len(store[t].seen) <= Len(streams[t]) /\ <<>> \in Seq(TaskEvents)
  BY LenProperties, EmptySeq DEF Beginnings, Begins
<1>2. /\ Sync!NewOp(t, who) \in Busy /\ Sync!NewOp(t, who).at = "ask" /\ Sync!NewOp(t, who).task = t
      /\ Sync!NewOp(t, who).from = Len(store[t].seen)
  BY <1>1 DEF Sync!NewOp, Busy
<1> QED BY <1>1, <1>2, AskingHolds

LEMMA SyncInvIs ==
  SyncInv <=>
    /\ SyncTypes /\ Beginnings /\ OpsHold(op)
    /\ projection.task # Sync!NoTask => projection.task \in SyncTasks
         /\ Begins(projection.seen, projection.task)
BY DEF SyncInv, SyncTypes, Beginnings, OpsHold

\* A step that leaves the streams as they are.
LEMMA StreamsStay ==
  ASSUME SyncInv, UNCHANGED streams, OpsHold(op'), ref' \in Slots \cup {0},
         cur' \in SyncTasks \cup {Sync!NoTask}, loop' \in SyncTasks \cup {Sync!NoTask},
         starting'.step # "none" => starting'.task \in SyncTasks,
         store' \in [SyncTasks -> Shapes],
         \A t \in SyncTasks : Begins(store'[t].seen, t),
         projection'.task # Sync!NoTask => projection'.task \in SyncTasks
           /\ Begins(projection'.seen, projection'.task)
  PROVE  SyncInv'
<1>1. SyncTypes'
  BY DEF SyncInv, SyncTypes, OpsHold
<1>2. \A seen, t : Begins(seen, t) => Begins(seen, t)'
  BY DEF Begins
<1>3. \A i \in Slots : OpHolds(op[i])'
  BY DEF OpsHold, OpHolds, Begins, Follows
<1>4. \A t \in SyncTasks : Begins(store[t].seen, t)'
  BY DEF Begins
<1>5. (projection.task # Sync!NoTask => projection.task \in SyncTasks /\ Begins(projection.seen, projection.task))'
  BY DEF Begins
<1> QED BY <1>1, <1>3, <1>4, <1>5 DEF SyncInv


\* The end of a synchronization.
LEMMA FinishKeeps ==
  ASSUME SyncInv, NEW i \in Slots, op[i] \in Busy, NEW kind, NEW p \in Shapes,
         Begins(p.seen, op[i].task), Sync!Finish(i, kind, p), UNCHANGED <<streams, cur>>
  PROVE  SyncInv'
<1> DEFINE t == op[i].task
           rest == [op EXCEPT ![i] = Sync!NoOp]
<1>1. SyncTypes /\ Beginnings /\ OpsHold(op) /\ t \in SyncTasks
      /\ (projection.task # Sync!NoTask => projection.task \in SyncTasks /\ Begins(projection.seen, projection.task))
  BY SyncInvIs, SlotKinds
<1>2. OpsHold(rest)
  <2>1. Sync!NoOp \in Busy \cup Free /\ OpHolds(Sync!NoOp)
    BY SlotKinds DEF OpHolds
  <2> QED BY <1>1, <2>1, ReplacingHolds
<1>3. OpsHold(op')
  <2>1. op' = rest \/ op' = Sync!WithoutLoop(rest)
    BY DEF Sync!Finish
  <2> HIDE DEF rest
  <2> QED BY <1>2, <2>1, WithoutLoopHolds
<1>4. ref' \in Slots \cup {0}
  BY <1>1 DEF Sync!Finish, Sync!RefAfter, SyncTypes
<1>5. cur' \in SyncTasks \cup {Sync!NoTask} /\ loop' \in SyncTasks \cup {Sync!NoTask}
  BY <1>1 DEF Sync!Finish, Sync!LoopFor, SyncTypes
<1>6. starting'.step # "none" => starting'.task \in SyncTasks
  BY <1>1 DEF Sync!Finish, SyncTypes, Sync!NoStart
<1>7. /\ store' \in [SyncTasks -> Shapes]
      /\ \A u \in SyncTasks : Begins(store'[u].seen, u)
  <2>1. store' = [store EXCEPT ![t] = p]
    BY DEF Sync!Finish
  <2> QED BY <1>1, <2>1 DEF SyncTypes, Beginnings, Shapes
<1>8. projection'.task # Sync!NoTask => projection'.task \in SyncTasks
      /\ Begins(projection'.seen, projection'.task)
  BY <1>1 DEF Sync!Finish
<1> QED BY <1>3, <1>4, <1>5, <1>6, <1>7, <1>8, StreamsStay

LEMMA ContinueKeeps ==
  ASSUME SyncInv, NEW i \in Slots, op[i] \in Busy, NEW p \in Shapes,
         Begins(p.seen, op[i].task), Sync!Continue(i, p), UNCHANGED <<streams, cur>>
  PROVE  SyncInv'
<1> DEFINE t == op[i].task
           next == op[i].pass + 1
           asks == IF op[i].pass < MaxPasses THEN "ask" ELSE "ask snapshot"
           o == [op[i] EXCEPT !.reply = <<>>, !.from = Len(p.seen),
                   !.at = asks, !.pass = next]
<1>1. SyncTypes /\ Beginnings /\ OpsHold(op) /\ t \in SyncTasks
      /\ (projection.task # Sync!NoTask => projection.task \in SyncTasks /\ Begins(projection.seen, projection.task))
  BY SyncInvIs, SlotKinds
<1>2. Len(p.seen) \in Nat /\ Len(p.seen) <= Len(streams[t]) /\ <<>> \in Seq(TaskEvents)
  BY LenProperties, EmptySeq DEF Begins
<1>3. o \in Busy /\ o.task = t /\ o.from = Len(p.seen) /\ o.at \in {"ask", "ask snapshot"}
  <2>1. asks \in {"ask", "ask snapshot"}
    OBVIOUS
  <2>2. next \in Nat
    <3>1. op[i].pass \in Nat
      BY DEF Busy
    <3> QED BY <3>1
  <2> HIDE DEF asks, next
  <2>3. <<>> \in Seq(TaskEvents) /\ Len(p.seen) \in Nat
    BY <1>2
  <2> DEFINE a == [op[i] EXCEPT !.reply = <<>>]
             b == [a EXCEPT !.from = Len(p.seen)]
             c == [b EXCEPT !.at = asks]
             d == [c EXCEPT !.pass = next]
  <2>4. o = d
    OBVIOUS
  <2> HIDE DEF o
  <2>5. a \in Busy /\ a.task = t
    BY <2>3 DEF Busy
  <2> HIDE DEF a
  <2>6. b \in Busy /\ b.task = t /\ b.from = Len(p.seen)
    BY <2>3, <2>5 DEF Busy
  <2> HIDE DEF b
  <2>7. c \in Busy /\ c.task = t /\ c.from = Len(p.seen) /\ c.at = asks
    BY <2>1, <2>6 DEF Busy
  <2> HIDE DEF c
  <2>8. d \in Busy /\ d.task = t /\ d.from = Len(p.seen) /\ d.at = asks
    BY <2>2, <2>7 DEF Busy
  <2> QED BY <2>1, <2>4, <2>8
<1>4. op' = [op EXCEPT ![i] = o] /\ store' = [store EXCEPT ![t] = p]
      /\ ref' = ref /\ loop' = loop /\ projection' = projection /\ starting' = starting
  BY DEF Sync!Continue, Sync!shown
<1> HIDE DEF o
<1>5. OpHolds(o)
  BY <1>2, <1>3 DEF OpHolds
<1>6. OpsHold(op')
  BY <1>1, <1>3, <1>4, <1>5, ReplacingHolds
<1>7. /\ store' \in [SyncTasks -> Shapes]
      /\ \A u \in SyncTasks : Begins(store'[u].seen, u)
  BY <1>1, <1>4 DEF SyncTypes, Beginnings, Shapes
<1>8. /\ ref' \in Slots \cup {0} /\ cur' \in SyncTasks \cup {Sync!NoTask}
         /\ loop' \in SyncTasks \cup {Sync!NoTask}
      /\ starting'.step # "none" => starting'.task \in SyncTasks
      /\ projection'.task # Sync!NoTask => projection'.task \in SyncTasks
           /\ Begins(projection'.seen, projection'.task)
  BY <1>1, <1>4 DEF SyncTypes
<1> QED BY <1>6, <1>7, <1>8, StreamsStay

LEMMA SyncInit == Sync!SyncAssumption /\ Sync!Init => SyncInv
<1> SUFFICES ASSUME Sync!SyncAssumption, Sync!Init PROVE SyncInv
  OBVIOUS
<1>1. streams \in [SyncTasks -> Seq(TaskEvents)] /\ \A t \in SyncTasks : Len(streams[t]) = 0
  BY EmptySeq DEF Sync!Init
<1>2. store \in [SyncTasks -> Shapes] /\ \A t \in SyncTasks : store[t].seen = <<>>
  <2>1. Sync!NoStore \in Shapes /\ Sync!NoStore.seen = <<>>
    BY EmptySeq DEF Sync!NoStore, Shapes
  <2>2. store = [t \in SyncTasks |-> Sync!NoStore]
    BY DEF Sync!Init
  <2> QED BY <2>1, <2>2
<1>3. op \in [Slots -> Busy \cup Free] /\ \A i \in Slots : op[i] \in Free
  BY SlotKinds DEF Sync!Init
<1>4. SyncTypes
  BY <1>1, <1>2, <1>3 DEF Sync!Init, SyncTypes, Sync!NoStart, Shapes
<1>5. \A t \in SyncTasks : Begins(store[t].seen, t)
  BY <1>1, <1>2, NoEventsBegin
<1>6. \A i \in Slots : OpHolds(op[i])
  BY <1>3, SlotKinds DEF OpHolds
<1>7. projection.task = Sync!NoTask
  BY DEF Sync!Init, Sync!NoView
<1> QED BY <1>4, <1>5, <1>6, <1>7 DEF SyncInv

\* The Node writes; what was read stays a beginning.
LEMMA WriteKeepsViews ==
  ASSUME Sync!SyncAssumption, SyncInv, NEW t \in SyncTasks, Sync!Write(t)
  PROVE  SyncInv'
<1> DEFINE n == Len(streams[t]) + 1
           e == [n |-> n, kind |-> Script[t][n]]
<1>1. streams[t] \in Seq(TaskEvents) /\ n \in Nat /\ n > 0 /\ SyncTypes
  BY LenProperties DEF SyncInv, SyncTypes
<1>2. Script[t] \in Seq(STRING) /\ n \in 1..Len(Script[t])
  BY <1>1 DEF Sync!SyncAssumption, Sync!Write
<1>3. Script[t][n] \in STRING
  BY <1>2, ElementOfSeq
<1>4. e \in TaskEvents /\ e.n = n
  BY <1>1, <1>3 DEF TaskEvents
<1>5. streams' = [streams EXCEPT ![t] = Append(streams[t], e)]
      /\ UNCHANGED <<store, op, ref, cur, loop, projection, starting>>
  BY DEF Sync!Write, Sync!Event, Sync!shown
<1> HIDE DEF e
<1>6. /\ Append(streams[t], e) \in Seq(TaskEvents) /\ Len(Append(streams[t], e)) = n
      /\ \A i \in 1..n - 1 : Append(streams[t], e)[i] = streams[t][i]
      /\ Append(streams[t], e)[n] = e
  <2>1. n - 1 = Len(streams[t])
    BY <1>1
  <2> QED BY <1>1, <1>4, <2>1, AppendProperties
<1>7. streams' \in [SyncTasks -> Seq(TaskEvents)] /\ streams'[t] = Append(streams[t], e)
      /\ \A u \in SyncTasks \ {t} : streams'[u] = streams[u]
  BY <1>1, <1>5, <1>6 DEF SyncTypes
<1>8. \A u \in SyncTasks : /\ Len(streams[u]) \in Nat /\ Len(streams'[u]) \in Nat
                           /\ Len(streams[u]) <= Len(streams'[u])
                           /\ \A i \in 1..Len(streams[u]) : streams'[u][i] = streams[u][i]
  <2>1. \A u \in SyncTasks : Len(streams[u]) \in Nat /\ Len(streams'[u]) \in Nat
    BY <1>1, <1>7, LenProperties DEF SyncTypes
  <2>2. /\ Len(streams[t]) <= Len(streams'[t])
        /\ \A i \in 1..Len(streams[t]) : streams'[t][i] = streams[t][i]
    BY <1>1, <1>6, <1>7
  <2>3. ASSUME NEW u \in SyncTasks \ {t}
        PROVE  /\ Len(streams[u]) <= Len(streams'[u])
               /\ \A i \in 1..Len(streams[u]) : streams'[u][i] = streams[u][i]
    <3>1. streams'[u] = streams[u] /\ Len(streams[u]) \in Nat
      BY <1>7, <2>1
    <3> QED BY <3>1
  <2> QED BY <2>1, <2>2, <2>3
<1>9. \A u \in SyncTasks : \A i \in 1..Len(streams'[u]) : streams'[u][i].n = i
  <2>1. ASSUME NEW i \in 1..Len(streams'[t])
        PROVE  streams'[t][i].n = i
    BY <1>1, <1>4, <1>6, <1>7 DEF SyncTypes
  <2>2. ASSUME NEW u \in SyncTasks \ {t}, NEW i \in 1..Len(streams'[u])
        PROVE  streams'[u][i].n = i
    BY <1>1, <1>7 DEF SyncTypes
  <2> QED BY <2>1, <2>2
<1>10. ASSUME NEW u \in SyncTasks, NEW seen, Begins(seen, u)
       PROVE  Begins(seen, u)'
  <2>1. seen \in Seq(TaskEvents) /\ Len(seen) \in Nat /\ Len(seen) <= Len(streams[u])
        /\ \A i \in 1..Len(seen) : seen[i] = streams[u][i]
    BY <1>10, LenProperties DEF Begins
  <2>2. Len(seen) <= Len(streams'[u])
    BY <1>8, <2>1
  <2>3. \A i \in 1..Len(seen) : i \in 1..Len(streams[u])
    BY <1>8, <2>1
  <2>4. \A i \in 1..Len(seen) : seen[i] = streams'[u][i]
    BY <1>8, <2>1, <2>3
  <2> QED BY <2>1, <2>2, <2>4 DEF Begins
<1>11. ASSUME NEW u \in SyncTasks, NEW batch, NEW m \in Nat, Follows(batch, u, m)
       PROVE  Follows(batch, u, m)'
  <2>1. batch \in Seq(TaskEvents) /\ Len(batch) \in Nat /\ m + Len(batch) <= Len(streams[u])
        /\ \A i \in 1..Len(batch) : batch[i] = streams[u][m + i]
    BY <1>11, LenProperties DEF Follows
  <2>2. \A i \in 1..Len(batch) : m + i \in 1..Len(streams[u])
    BY <1>8, <2>1
  <2>3. m + Len(batch) <= Len(streams'[u])
    BY <1>8, <2>1
  <2> QED BY <1>8, <2>1, <2>2, <2>3 DEF Follows
<1>12. SyncTypes'
  BY <1>1, <1>5, <1>7, <1>9 DEF SyncTypes
<1>13. \A u \in SyncTasks : Begins(store[u].seen, u)'
  BY <1>5, <1>10 DEF SyncInv
<1>14. ASSUME NEW i \in Slots
       PROVE  OpHolds(op[i])'
  <2>1. CASE op[i] \in Busy
    <3>1. op[i].task \in SyncTasks /\ op[i].from \in Nat /\ OpHolds(op[i]) /\ op'[i] = op[i]
      BY <1>5, <2>1 DEF SyncInv, Busy
    <3>2. op[i].from <= Len(streams'[op[i].task])
      <4>1. op[i].from <= Len(streams[op[i].task])
        BY <2>1, <3>1 DEF OpHolds
      <4>2. Len(streams[op[i].task]) \in Nat /\ Len(streams'[op[i].task]) \in Nat
            /\ Len(streams[op[i].task]) <= Len(streams'[op[i].task])
        BY <1>8, <3>1
      <4> QED BY <3>1, <4>1, <4>2
    <3>3. op[i].at = "got" => Follows(op[i].reply, op[i].task, op[i].from)'
      BY <1>5, <1>11, <2>1, <3>1 DEF OpHolds
    <3>4. op[i].at = "got snapshot" => Begins(op[i].reply, op[i].task)'
      BY <1>5, <1>10, <2>1, <3>1 DEF OpHolds
    <3> QED BY <1>5, <3>2, <3>3, <3>4 DEF OpHolds
  <2>2. CASE op[i] \notin Busy
    BY <1>5, <2>2 DEF OpHolds, Busy, TaskEvents
  <2> QED BY <2>1, <2>2
<1>15. (projection.task # Sync!NoTask => projection.task \in SyncTasks /\ Begins(projection.seen, projection.task))'
  BY <1>5, <1>10 DEF SyncInv
<1> QED BY <1>12, <1>13, <1>14, <1>15 DEF SyncInv

\* Someone asks for a synchronization, or joins one.
LEMMA AsksKeep ==
  ASSUME SyncInv, Sync!Tick \/ Sync!RefreshTask
  PROVE  SyncInv'
<1>1. SyncTypes /\ Beginnings /\ OpsHold(op)
      /\ (projection.task # Sync!NoTask => projection.task \in SyncTasks /\ Begins(projection.seen, projection.task))
  BY SyncInvIs
<1>2. UNCHANGED <<streams, store, cur, loop, projection, starting>>
  BY DEF Sync!Tick, Sync!RefreshTask, Sync!shown
<1>3. PICK t \in SyncTasks, who \in Callers : Sync!Synchronize(t, Sync!NewOp(t, who), who, op)
  <2>1. CASE Sync!Tick
    <3>1. loop \in SyncTasks /\ "loop" \in Callers
          /\ Sync!Synchronize(loop, Sync!NewOp(loop, "loop"), "loop", op)
      BY <1>1, <2>1 DEF Sync!Tick, SyncTypes, Callers
    <3> QED BY <3>1
  <2>2. CASE Sync!RefreshTask
    <3>1. cur \in SyncTasks /\ "refresh" \in Callers
          /\ Sync!Synchronize(cur, Sync!NewOp(cur, "refresh"), "refresh", op)
      BY <1>1, <2>2 DEF Sync!RefreshTask, SyncTypes, Callers
    <3> QED BY <3>1
  <2> QED BY <2>1, <2>2
<1>4. Sync!NewOp(t, who) \in Busy /\ OpHolds(Sync!NewOp(t, who))
  BY <1>1, NewOpHolds
<1>5. OpsHold(op') /\ ref' \in Slots \cup {0}
  BY <1>1, <1>3, <1>4, SynchronizeHolds DEF SyncTypes
<1>6. /\ cur' \in SyncTasks \cup {Sync!NoTask} /\ loop' \in SyncTasks \cup {Sync!NoTask}
      /\ starting'.step # "none" => starting'.task \in SyncTasks
      /\ store' \in [SyncTasks -> Shapes]
      /\ \A u \in SyncTasks : Begins(store'[u].seen, u)
      /\ projection'.task # Sync!NoTask => projection'.task \in SyncTasks
           /\ Begins(projection'.seen, projection'.task)
  BY <1>1, <1>2 DEF SyncTypes, Beginnings
<1> QED BY <1>2, <1>5, <1>6, StreamsStay

LEMMA StartKeepsViews ==
  ASSUME SyncInv, (\E t \in SyncTasks : Sync!StartTask(t)) \/ Sync!StartFails \/ Sync!Reconnect
  PROVE  SyncInv'
<1>1. SyncTypes /\ Beginnings /\ OpsHold(op)
      /\ (projection.task # Sync!NoTask => projection.task \in SyncTasks /\ Begins(projection.seen, projection.task))
  BY SyncInvIs
<1>2. OpsHold(op')
  <2>1. op' = op \/ op' = Sync!WithoutLoop(op)
    BY DEF Sync!StartTask, Sync!StartFails, Sync!Reconnect
  <2> QED BY <1>1, <2>1, WithoutLoopHolds
<1>3. /\ ref' \in Slots \cup {0}
      /\ cur' \in SyncTasks \cup {Sync!NoTask} /\ loop' \in SyncTasks \cup {Sync!NoTask}
      /\ starting'.step # "none" => starting'.task \in SyncTasks
  <2>1. CASE \E t \in SyncTasks : Sync!StartTask(t)
    BY <1>1, <2>1 DEF Sync!StartTask, SyncTypes
  <2>2. CASE Sync!StartFails
    BY <1>1, <2>2 DEF Sync!StartFails, SyncTypes, Sync!NoStart
  <2>3. CASE Sync!Reconnect
    BY <1>1, <2>3 DEF Sync!Reconnect, SyncTypes
  <2> QED BY <2>1, <2>2, <2>3
<1>4. UNCHANGED <<streams, store, projection>>
  BY DEF Sync!StartTask, Sync!StartFails, Sync!Reconnect, Sync!shown
<1>5. /\ store' \in [SyncTasks -> Shapes]
      /\ \A u \in SyncTasks : Begins(store'[u].seen, u)
      /\ projection'.task # Sync!NoTask => projection'.task \in SyncTasks
           /\ Begins(projection'.seen, projection'.task)
  BY <1>1, <1>4 DEF SyncTypes, Beginnings
<1> QED BY <1>2, <1>3, <1>4, <1>5, StreamsStay

LEMMA SyncTaskKeeps ==
  ASSUME SyncInv, Sync!SyncTask
  PROVE  SyncInv'
<1> DEFINE t == starting.task
           changed == projection.task # t
           ops == IF changed THEN Sync!WithoutLoop(op) ELSE op
<1>1. SyncTypes /\ Beginnings /\ OpsHold(op) /\ t \in SyncTasks
  BY SyncInvIs DEF Sync!SyncTask, SyncTypes
<1>2. PICK n \in 1..Len(streams[t]) :
        LET p == [seen |-> Sync!Upto(streams[t], n), health |-> "current"] IN
        /\ store' = [store EXCEPT ![t] = p]
        /\ projection' = [task |-> t, seen |-> p.seen, health |-> p.health, sync |-> "idle"]
        /\ Sync!Synchronize(t, [Sync!NewOp(t, "start") EXCEPT !.from = n], "start", ops)
  BY DEF Sync!SyncTask, Sync!ProjectionFromSnapshot
<1> DEFINE p == [seen |-> Sync!Upto(streams[t], n), health |-> "current"]
<1>3. n \in Nat /\ n \in 0..Len(streams[t]) /\ streams[t] \in Seq(TaskEvents)
  BY <1>1, LenProperties DEF SyncTypes
<1>4. p \in Shapes /\ Begins(p.seen, t)
  <2>1. Begins(Sync!Upto(streams[t], n), t)
    BY <1>1, <1>3, UptoBegins DEF SyncTypes
  <2>2. Sync!Upto(streams[t], n) \in Seq(TaskEvents)
    BY <2>1 DEF Begins
  <2> QED BY <2>1, <2>2 DEF Shapes
<1>5. /\ store' = [store EXCEPT ![t] = p] /\ projection'.task = t /\ projection'.seen = p.seen
      /\ Sync!Synchronize(t, [Sync!NewOp(t, "start") EXCEPT !.from = n], "start", ops)
  BY <1>2
<1> HIDE DEF p
<1>6. OpsHold(op') /\ ref' \in Slots \cup {0}
  <2>1. OpsHold(ops)
    BY <1>1, WithoutLoopHolds
  <2> DEFINE o == [Sync!NewOp(t, "start") EXCEPT !.from = n]
  <2>2. Sync!Synchronize(t, o, "start", ops)
    BY <1>5
  <2>3. t \in SyncTasks /\ ref \in Slots \cup {0} /\ "start" \in Callers
    BY <1>1 DEF SyncTypes, Callers
  <2> HIDE DEF ops
  <2>4. Sync!NewOp(t, "start") \in Busy /\ Sync!NewOp(t, "start").task = t
        /\ Sync!NewOp(t, "start").at = "ask"
    BY <1>1, <2>3, NewOpHolds
  <2>5. o \in Busy /\ o.task = t /\ o.at = "ask" /\ o.from = n
    BY <1>3, <2>4 DEF Busy
  <2> HIDE DEF o
  <2>6. n <= Len(streams[t])
    BY <1>3
  <2>7. OpHolds(o)
    BY <2>5, <2>6, AskingHolds
  <2> QED BY <2>1, <2>2, <2>3, <2>5, <2>7, SynchronizeHolds
<1>7. /\ streams' = streams /\ cur' = t /\ loop' \in SyncTasks \cup {Sync!NoTask}
      /\ starting'.step # "none" => starting'.task \in SyncTasks
  BY <1>1 DEF Sync!SyncTask, Sync!LoopFor, SyncTypes
<1>8. /\ store' \in [SyncTasks -> Shapes]
      /\ \A u \in SyncTasks : Begins(store'[u].seen, u)
  BY <1>1, <1>4, <1>5 DEF SyncTypes, Beginnings, Shapes
<1>9. projection'.task # Sync!NoTask => projection'.task \in SyncTasks
      /\ Begins(projection'.seen, projection'.task)
  BY <1>1, <1>4, <1>5
<1> QED BY <1>1, <1>6, <1>7, <1>8, <1>9, StreamsStay

\* The Node answers.
LEMMA AnswerKeeps ==
  ASSUME Sync!SyncAssumption, SyncInv, NEW i \in Slots, Sync!Answer(i)
  PROVE  SyncInv'
<1> DEFINE o == op[i]
           s == streams[o.task]
           batch == Sync!BatchAfter(s, o.from)
<1>1. SyncTypes /\ Beginnings /\ OpsHold(op)
      /\ (projection.task # Sync!NoTask => projection.task \in SyncTasks /\ Begins(projection.seen, projection.task))
  BY SyncInvIs
<1>2. o \in Busy /\ OpHolds(o)
  <2>1. o.at # "free" /\ o \in Busy \cup Free
    BY <1>1 DEF Sync!Answer, OpsHold
  <2> QED BY <1>1, <2>1, SlotKinds DEF OpsHold
<1>3. o.task \in SyncTasks /\ o.from \in 0..Len(s) /\ s \in Seq(TaskEvents) /\ Len(s) \in Nat
  <2>1. o.task \in SyncTasks /\ o.from \in Nat /\ o.from <= Len(s)
    BY <1>2 DEF Busy, OpHolds
  <2>2. s \in Seq(TaskEvents)
    BY <1>1, <2>1 DEF SyncTypes
  <2>3. Len(s) \in Nat
    BY <2>2, LenProperties
  <2> QED BY <2>1, <2>2, <2>3
<1>4. UNCHANGED <<streams, store, ref, cur, loop, projection, starting>>
  BY DEF Sync!Answer, Sync!shown
<1>5. OpsHold(op')
  <2>1. CASE op' = [op EXCEPT ![i].at = "got", ![i].reply = batch,
                              ![i].more = o.from + Len(batch) < Len(s)]
    <3> DEFINE goes == o.from + Len(batch) < Len(s)
               a == [o EXCEPT !.at = "got"]
               b == [a EXCEPT !.reply = batch]
               c == [b EXCEPT !.more = goes]
    <3>1. Follows(batch, o.task, o.from)
      BY <1>1, <1>3, BatchFollows DEF SyncTypes
    <3>2. batch \in Seq(TaskEvents) /\ goes \in BOOLEAN
      BY <3>1 DEF Follows
    <3>3. op' = [op EXCEPT ![i] = c]
      BY <1>1, <2>1 DEF OpsHold
    <3> HIDE DEF batch, goes
    <3>4. a \in Busy /\ a.task = o.task /\ a.from = o.from /\ a.at = "got"
      BY <1>2 DEF Busy
    <3> HIDE DEF a
    <3>5. b \in Busy /\ b.task = o.task /\ b.from = o.from /\ b.at = "got" /\ b.reply = batch
      BY <3>2, <3>4 DEF Busy
    <3> HIDE DEF b
    <3>6. c \in Busy /\ c.task = o.task /\ c.from = o.from /\ c.at = "got" /\ c.reply = batch
      BY <3>2, <3>5 DEF Busy
    <3> HIDE DEF c
    <3>7. OpHolds(c)
      BY <1>2, <3>1, <3>6 DEF OpHolds
    <3> QED BY <1>1, <3>3, <3>6, <3>7, ReplacingHolds
  <2>2. CASE op' = [op EXCEPT ![i].at = "got snapshot", ![i].reply = s]
    <3> DEFINE a == [o EXCEPT !.at = "got snapshot"]
               b == [a EXCEPT !.reply = s]
    <3>1. Begins(s, o.task)
      BY <1>1, <1>3, NoEventsBegin DEF SyncTypes
    <3>2. op' = [op EXCEPT ![i] = b]
      BY <1>1, <2>2 DEF OpsHold
    <3> HIDE DEF s
    <3>3. a \in Busy /\ a.task = o.task /\ a.from = o.from /\ a.at = "got snapshot"
      BY <1>2 DEF Busy
    <3> HIDE DEF a
    <3>4. b \in Busy /\ b.task = o.task /\ b.from = o.from /\ b.at = "got snapshot" /\ b.reply = s
      BY <1>3, <3>3 DEF Busy
    <3> HIDE DEF b
    <3>5. OpHolds(b)
      BY <1>2, <3>1, <3>4 DEF OpHolds
    <3> QED BY <1>1, <3>2, <3>4, <3>5, ReplacingHolds
  <2> QED BY <2>1, <2>2 DEF Sync!Answer
<1>6. /\ ref' \in Slots \cup {0} /\ cur' \in SyncTasks \cup {Sync!NoTask}
         /\ loop' \in SyncTasks \cup {Sync!NoTask}
      /\ starting'.step # "none" => starting'.task \in SyncTasks
      /\ store' \in [SyncTasks -> Shapes]
      /\ \A u \in SyncTasks : Begins(store'[u].seen, u)
      /\ projection'.task # Sync!NoTask => projection'.task \in SyncTasks
           /\ Begins(projection'.seen, projection'.task)
  BY <1>1, <1>4 DEF SyncTypes, Beginnings
<1> QED BY <1>4, <1>5, <1>6, StreamsStay

\* The synchronizer takes an answer, or does not get one.
LEMMA GotKeeps ==
  ASSUME SyncInv, NEW i \in Slots, Sync!GotBatch(i) \/ Sync!GotSnapshot(i) \/ Sync!FetchFails(i)
  PROVE  SyncInv'
<1> DEFINE o == op[i]
           had == store[o.task]
<1>1. SyncTypes /\ Beginnings /\ OpsHold(op)
      /\ (projection.task # Sync!NoTask => projection.task \in SyncTasks /\ Begins(projection.seen, projection.task))
  BY SyncInvIs
<1>2. o \in Busy /\ OpHolds(o)
  <2>1. o.at # "free" /\ o \in Busy \cup Free
    BY <1>1 DEF Sync!GotBatch, Sync!GotSnapshot, Sync!FetchFails, OpsHold
  <2> QED BY <1>1, <2>1, SlotKinds DEF OpsHold
<1>3. o.task \in SyncTasks /\ o.from \in Nat /\ had \in Shapes /\ Begins(had.seen, o.task)
  BY <1>1, <1>2 DEF Busy, SyncTypes, Beginnings
<1>4. UNCHANGED <<streams, cur>>
  BY DEF Sync!GotBatch, Sync!GotSnapshot, Sync!FetchFails
<1>5. Sync!Blocked(o.task) \in Shapes /\ Sync!Blocked(o.task).seen = had.seen
      /\ [had EXCEPT !.health = "resynchronizing"] \in Shapes
      /\ [had EXCEPT !.health = "resynchronizing"].seen = had.seen
  <2> HIDE DEF had
  <2>1. Sync!Blocked(o.task) = [had EXCEPT !.health = "blocked"]
    BY DEF Sync!Blocked, had
  <2> QED BY <1>3, <2>1 DEF Shapes
<1>6. CASE Sync!GotBatch(i)
  <2> DEFINE p == Sync!Applied(had, o.reply)
             held == [had EXCEPT !.health = "resynchronizing"]
  <2>1. Follows(o.reply, o.task, o.from)
    BY <1>2, <1>6 DEF Sync!GotBatch, OpHolds
  <2>2. ~Sync!HasGap(had, o.reply) => p \in Shapes /\ Begins(p.seen, o.task)
    <3> SUFFICES ASSUME ~Sync!HasGap(had, o.reply) PROVE p \in Shapes /\ Begins(p.seen, o.task)
      OBVIOUS
    <3>1. Begins(p.seen, o.task)
      BY <1>1, <1>3, <2>1, AppliedBegins
    <3>2. p.seen \in Seq(TaskEvents)
      BY <3>1 DEF Begins
    <3>3. p.health \in {"none", "current", "blocked", "resynchronizing"}
      BY <1>3 DEF Sync!Applied, Shapes
    <3>4. p = [seen |-> p.seen, health |-> p.health]
      BY DEF Sync!Applied
    <3> HIDE DEF p
    <3> QED BY <3>1, <3>2, <3>3, <3>4 DEF Shapes
  <2>3. \/ ~Sync!HasGap(had, o.reply) /\ Sync!Finish(i, "blocked", p)
        \/ Sync!HasGap(had, o.reply) /\ Sync!Continue(i, held)
        \/ ~Sync!HasGap(had, o.reply) /\ Sync!Continue(i, p)
        \/ ~Sync!HasGap(had, o.reply) /\ Sync!Finish(i, "current", p)
    BY <1>6 DEF Sync!GotBatch, Sync!Meets
  <2> HIDE DEF p, held
  <2>4. held \in Shapes /\ Begins(held.seen, o.task)
    BY <1>3, <1>5 DEF held
  <2>5. CASE ~Sync!HasGap(had, o.reply) /\ (Sync!Finish(i, "blocked", p) \/ Sync!Finish(i, "current", p))
    BY <1>2, <1>4, <2>2, <2>5, FinishKeeps
  <2>6. CASE ~Sync!HasGap(had, o.reply) /\ Sync!Continue(i, p)
    BY <1>2, <1>4, <2>2, <2>6, ContinueKeeps
  <2>7. CASE Sync!HasGap(had, o.reply) /\ Sync!Continue(i, held)
    BY <1>2, <1>4, <2>4, <2>7, ContinueKeeps
  <2> QED BY <2>3, <2>5, <2>6, <2>7
<1>7. ASSUME NEW kind, Sync!Finish(i, kind, Sync!Blocked(o.task))
      PROVE  SyncInv'
  BY <1>2, <1>3, <1>4, <1>5, <1>7, FinishKeeps
<1>8. CASE Sync!GotSnapshot(i)
  <2> DEFINE p == [seen |-> o.reply, health |-> "current"]
  <2>1. Begins(o.reply, o.task) /\ o.reply \in Seq(TaskEvents)
    BY <1>2, <1>8 DEF Sync!GotSnapshot, OpHolds, Begins
  <2>2. p \in Shapes /\ Begins(p.seen, o.task)
    BY <2>1 DEF Shapes
  <2>3. Sync!Finish(i, "blocked", Sync!Blocked(o.task)) \/ Sync!Finish(i, "current", p)
    BY <1>8 DEF Sync!GotSnapshot, Sync!ProjectionFromSnapshot
  <2> HIDE DEF p
  <2> QED BY <1>2, <1>4, <1>7, <2>2, <2>3, FinishKeeps
<1>9. CASE Sync!FetchFails(i)
  <2>1. CASE Sync!Finish(i, "blocked", Sync!Blocked(o.task))
    BY <1>7, <2>1
  <2>2. CASE Sync!Finish(i, "reconnecting", had)
    BY <1>2, <1>3, <1>4, <2>2, FinishKeeps
  <2>3. CASE /\ op' = [op EXCEPT ![i] = [Sync!NewOp(o.task, "none") EXCEPT
                                          !.attempt = o.attempt + 1, !.waits = o.waits]]
             /\ UNCHANGED <<store, ref, loop, Sync!shown, starting>>
    <3> DEFINE new == Sync!NewOp(o.task, "none")
               next == o.attempt + 1
               a == [new EXCEPT !.attempt = next]
               b == [a EXCEPT !.waits = o.waits]
    <3>1. /\ new \in Busy /\ new.task = o.task /\ new.at = "ask" /\ new.from <= Len(streams[o.task])
      BY <1>1, <1>3, NewOpHolds DEF Callers
    <3>2. op' = [op EXCEPT ![i] = b]
      BY <2>3
    <3>3. o.attempt \in Nat /\ o.waits \in SUBSET Callers
      BY <1>2 DEF Busy
    <3>4. next \in Nat
      BY <3>3
    <3> HIDE DEF new, next
    <3>5. a \in Busy /\ a.task = o.task /\ a.at = "ask" /\ a.from = new.from
      BY <3>1, <3>4 DEF Busy
    <3> HIDE DEF a
    <3>6. b \in Busy /\ b.task = o.task /\ b.at = "ask" /\ b.from = new.from
      BY <3>3, <3>5 DEF Busy
    <3> HIDE DEF b
    <3>7. OpHolds(b)
      BY <3>1, <3>6, AskingHolds
    <3>8. OpsHold(op')
      BY <1>1, <3>2, <3>6, <3>7, ReplacingHolds
    <3>9. /\ ref' \in Slots \cup {0} /\ cur' \in SyncTasks \cup {Sync!NoTask}
             /\ loop' \in SyncTasks \cup {Sync!NoTask}
          /\ starting'.step # "none" => starting'.task \in SyncTasks
          /\ store' \in [SyncTasks -> Shapes]
          /\ \A u \in SyncTasks : Begins(store'[u].seen, u)
          /\ projection'.task # Sync!NoTask => projection'.task \in SyncTasks
               /\ Begins(projection'.seen, projection'.task)
      BY <1>1, <1>4, <2>3 DEF SyncTypes, Beginnings, Sync!shown
    <3> QED BY <1>4, <3>8, <3>9, StreamsStay
  <2> QED BY <1>9, <2>1, <2>2, <2>3 DEF Sync!FetchFails
<1> QED BY <1>6, <1>8, <1>9

\* Whatever synchronizations overlap, every projection, batch and snapshot is a
\* beginning or a piece of its stream.
THEOREM ViewsInductive ==
  ASSUME Sync!SyncAssumption
  PROVE  Sync!Spec => []SyncInv
<1>1. Sync!Init => SyncInv
  BY SyncInit
<1>2. SyncInv /\ [Sync!Next]_(Sync!vars) => SyncInv'
  <2> SUFFICES ASSUME SyncInv, [Sync!Next]_(Sync!vars) PROVE SyncInv'
    OBVIOUS
  <2>1. CASE \E t \in SyncTasks : Sync!Write(t) \/ Sync!StartTask(t)
    BY <2>1, WriteKeepsViews, StartKeepsViews
  <2>2. CASE Sync!StartFails \/ Sync!Reconnect
    BY <2>2, StartKeepsViews
  <2>3. CASE Sync!SyncTask
    BY <2>3, SyncTaskKeeps
  <2>4. CASE Sync!Tick \/ Sync!RefreshTask
    BY <2>4, AsksKeep
  <2>5. CASE \E i \in Slots : Sync!Answer(i) \/ Sync!GotBatch(i) \/ Sync!GotSnapshot(i)
             \/ Sync!FetchFails(i)
    BY <2>5, AnswerKeeps, GotKeeps
  <2>6. CASE UNCHANGED Sync!vars
    <3>1. UNCHANGED <<streams, store, op, ref, cur, loop, projection, starting>>
      BY <2>6 DEF Sync!vars, Sync!shown
    <3>2. SyncTypes /\ Beginnings /\ OpsHold(op)
          /\ (projection.task # Sync!NoTask => projection.task \in SyncTasks /\ Begins(projection.seen, projection.task))
      BY SyncInvIs
    <3>3. /\ OpsHold(op') /\ ref' \in Slots \cup {0}
          /\ cur' \in SyncTasks \cup {Sync!NoTask} /\ loop' \in SyncTasks \cup {Sync!NoTask}
          /\ starting'.step # "none" => starting'.task \in SyncTasks
          /\ store' \in [SyncTasks -> Shapes]
      BY <3>1, <3>2 DEF SyncTypes
    <3>4. /\ \A t \in SyncTasks : Begins(store'[t].seen, t)
          /\ projection'.task # Sync!NoTask => projection'.task \in SyncTasks
               /\ Begins(projection'.seen, projection'.task)
      BY <3>1, <3>2 DEF Beginnings
    <3> QED BY <3>1, <3>3, <3>4, StreamsStay
  <2> QED BY <2>1, <2>2, <2>3, <2>4, <2>5, <2>6 DEF Sync!Next
<1> QED BY <1>1, <1>2, PTL DEF Sync!Spec

\* What the desktop shows of a task is a beginning of the task's stream.
THEOREM ViewsArePrefixesOfStreams ==
  ASSUME Sync!SyncAssumption
  PROVE  Sync!Spec => []ViewsArePrefixes
<1>1. SyncInv => ViewsArePrefixes
  BY BeginsIsPrefix DEF SyncInv, SyncTypes, Sync!NoTask, ViewsArePrefixes
<1> QED BY <1>1, ViewsInductive, PTL
=============================================================================
