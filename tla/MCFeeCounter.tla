---------------------------- MODULE MCFeeCounter -----------------------------
(***************************************************************************)
(* FeeCounter on a small instance.                                         *)
(***************************************************************************)
EXTENDS FeeCounter, TLC

CONSTANT MaxNet   \* no invoice is fined beyond this

Symmetry == Permutations(Payment) \cup Permutations(Clerk)

BoundedNext == Next /\ \A i \in Invoice : invoices'[i].net <= MaxNet
BoundedSpec == Init /\ [][BoundedNext]_vars
=============================================================================
