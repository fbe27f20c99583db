----------------------------- MODULE FiniteSums -----------------------------
(***************************************************************************)
(* SumOver(f)[T] is the sum of f over T, a finite part of f's domain.  It is *)
(* a recursive function, and not a fold, so that its laws can be proved      *)
(* (ResourceSchedulerProofs).                                                *)
(***************************************************************************)
EXTENDS Integers

Pick(T) == CHOOSE x \in T : TRUE

SumOver(f) ==
  LET sum[T \in SUBSET DOMAIN f] ==
        IF T = {} THEN 0 ELSE f[Pick(T)] + sum[T \ {Pick(T)}]
  IN sum
=============================================================================
