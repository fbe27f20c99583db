------------------------ MODULE MCResourceScheduler ------------------------
(***************************************************************************)
(* Small nodes for ResourceScheduler: the requests and the measurements the *)
(* .cfg files choose from.                                                  *)
(***************************************************************************)
EXTENDS ResourceScheduler, TLC

\* A request of a crew whose members each reserve n slots and no VRAM.
Plain(task, crew, mode, rank, n) ==
  [task |-> task, crew |-> crew, wellFormed |-> TRUE, staged |-> FALSE,
   mode |-> mode, rank |-> rank,
   reservation |-> [w \in Workers |-> [d \in Dimensions |-> IF d = "slots" THEN n ELSE 0]],
   gpus |-> [w \in Workers |-> {}]]

\* Two teams of two: one wants all at once, the other one worker at a time.
TwoTeams ==
  "a" :> Plain("ta", {"w1", "w2"}, "parallel", 1, 1) @@
  "b" :> Plain("tb", {"w1", "w2"}, "serial", 1, 1)

\* Two teams of one worker each, one of them serial.
SingleTeams ==
  "a" :> Plain("ta", {"w1"}, "parallel", 1, 1) @@
  "b" :> Plain("tb", {"w1"}, "serial", 1, 1)

\* For one slot each of two: "p" spreads an odd share of VRAM over two devices,
\* "u" has the better priority class and needs one of them; both do not fit.
MixedTeams ==
  LET team(task, mode, rank, vram, gpus) ==
        [Plain(task, {"w1"}, mode, rank, 1) EXCEPT
           !.staged = TRUE,
           !.reservation = [w \in Workers |-> [d \in Dimensions |-> IF d = "vram" THEN vram ELSE 1]],
           !.gpus = [w \in Workers |-> gpus]]
  IN "p" :> team("tp", "pipelined", 1, 3, {"gpu0", "gpu1"}) @@
     "u" :> team("tu", "auto", 0, 2, {"gpu1"})

MixedNode ==
  {[r \in Resources |-> CASE r = "slots" -> 2 [] r = "vram" -> 6 [] r = "gpu0" -> 2 [] OTHER -> 3]}
OneSlot      == {[r \in Resources |-> IF r = "slots" THEN 1 ELSE 0]}
OneOrTwoSlots ==
  {[r \in Resources |-> IF r = "slots" THEN n ELSE 0] : n \in 1 .. 2}
=============================================================================
