--------------------------- MODULE MCOfflineWrites ----------------------------
(***************************************************************************)
(* Small instances of OfflineWrites for TLC.                               *)
(***************************************************************************)
EXTENDS OfflineWrites, TLC

CONSTANT MaxForgotten   \* how often one key's row may be thrown away

Symmetry ==
    Permutations(Write) \cup Permutations(Key) \cup Permutations(Slot) \cup Permutations(Tab)

BoundedNext == Next /\ \A k \in Key : forgotten'[k] <= MaxForgotten
BoundedSpec == Init /\ [][BoundedNext]_vars

(* The tabs flush, nobody signs in or out, no row grows old or is dropped. *)
FlushNext ==
    /\ BoundedNext
    /\ UNCHANGED cookie
    /\ \A w \in Write : row'[w].state \notin {"stale", "discarded"}
FlushSpec == Init /\ [][FlushNext]_vars
=============================================================================
