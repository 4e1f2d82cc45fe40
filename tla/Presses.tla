------------------------------- MODULE Presses --------------------------------
(***************************************************************************)
(* The vocabulary of keyed writes, shared by the browser's outbox (Outbox) *)
(* and the Worker's idempotency middleware (Idempotency).                  *)
(***************************************************************************)
EXTENDS Naturals, Sequences, FiniteSets

CONSTANTS
    Write,    \* one press of one button: a method, a path and a body
    Key,      \* values of the Idempotency-Key header
    User,     \* people who sign in
    Tab,      \* open pages of one browser
    Slot,     \* HTTP requests in flight
    NoKey, NoWrite, NoUser, NoTab

ASSUME SlotAssumption == IsFiniteSet(Slot)
ASSUME NobodyAssumption ==
    NoKey \notin Key /\ NoWrite \notin Write /\ NoUser \notin User /\ NoTab \notin Tab

(* What a handler answers: 2xx, 4xx, a 409 of its own, 5xx. *)
Kept == {"ok", "refused", "changed"}
Results == Kept \cup {"error"}

(* The middleware's own 409s: idempotency_key_reused, _conflict, _in_flight. *)
Answers == Results \cup {"reused", "mismatch", "inflight"}
=============================================================================
