---------------------------- MODULE MCLedgerStore ----------------------------
(* The ledger's file on a small instance: two processes, batches of two    *)
(* events and of one, one key that two actions use.                        *)
EXTENDS LedgerStore, TLC

CONSTANTS p1, p2, b1, b2, a1, a2

BatchSize == (b1 :> 2) @@ (b2 :> 1)
Symmetry == Permutations({p1, p2}) \union Permutations({a1, a2})
=============================================================================
