-------------------------- MODULE MCMessageDispatch --------------------------
(***************************************************************************)
(* MessageDispatch on small instances.                                     *)
(***************************************************************************)
EXTENDS MessageDispatch, TLC

CONSTANTS m1, m2, m3, p1, p2

(* An SMS with the bell as its fallback, and a notice that starts in the bell. *)
SmallLadders == {<<"phone", "in_app">>, <<"in_app", "email">>}

Symmetry == Permutations({p1, p2}) \cup Permutations({m2, m3})
=============================================================================
