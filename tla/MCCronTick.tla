----------------------------- MODULE MCCronTick ------------------------------
(***************************************************************************)
(* CronTick on small instances.                                            *)
(***************************************************************************)
EXTENDS CronTick, TLC

(* An entry due every minute but the first. *)
LateMinutes == 2 .. LastMinute

Symmetry == Permutations(Job) \cup Permutations(Tick)
=============================================================================
