---------------------------- MODULE MCChipLedger ----------------------------
(* Model-checking instance of ChipLedger and the refinement of ChipAccount. *)
EXTENDS ChipLedger, TLC

CONSTANTS k1, k2, k3, c1, c2

MCCost == (k1 :> 2) @@ (k2 :> 1) @@ (k3 :> 1)
MCValue == (c1 :> 2) @@ (c2 :> 1)

Account == INSTANCE ChipAccount

(* Every behaviour of the transactions is, seen through the committed rows, *)
(* a behaviour of the account: commits are atomic and serializable, keys    *)
(* are applied once, chips are conserved and never overdrawn.               *)
ImplementsAccount == Account!Spec
=============================================================================
