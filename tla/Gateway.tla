------------------------------- MODULE Gateway -------------------------------
(***************************************************************************)
(* The vocabulary of the phone SMS gateway, shared by the server's half    *)
(* (GatewayServer: worker/src/routes/comms/sms_gateway.ts) and the         *)
(* handset's half (Handset: mobile/apps/sms-gateway).                      *)
(*                                                                         *)
(* TIME.  No clock is modelled.  What the code compares with a clock is    *)
(* replaced by a set that a step of its own extends at any moment: the     *)
(* leases that have run out (lapsed), the messages older than the          *)
(* collection window (closed), and on the handset a choice of which rows   *)
(* are old enough.  Every order of those events is explored.               *)
(***************************************************************************)
EXTENDS Naturals, FiniteSets

CONSTANTS
    Message,      \* rows of message_log handed to the provider 'sms:phone'
    Phone,        \* handsets
    Device,       \* ids of sms_gateway_devices rows, one per enrolment
    Request,      \* slots for HTTP calls in flight between phones and server
    NoPhone, NoDevice, NoMessage,
    MaxAttempts,  \* MAX_ATTEMPTS, sms_gateway.ts:26
    MaxBatch,     \* MAX_BATCH, sms_gateway.ts:30
    Parts         \* segments a message is divided into

ASSUME BudgetAssumption == MaxAttempts \in Nat \ {0}
ASSUME BatchAssumption == MaxBatch \in Nat \ {0}
ASSUME PartsAssumption == Parts \in Nat \ {0}
ASSUME SentinelAssumption ==
    NoPhone \notin Phone /\ NoDevice \notin Device /\ NoMessage \notin Message
ASSUME FiniteAssumption == IsFiniteSet(Message) /\ IsFiniteSet(Device)

(***************************************************************************)
(* One HTTP call.  pc is the await the handler is suspended at, or the     *)
(* answer that travels back.                                               *)
(***************************************************************************)
Kinds == {"none", "outbox", "receipts", "heartbeat"}

Answers == {"200", "401", "403", "404", "500"}

Steps == {"free", "auth", "sweep", "select", "claim", "bodies",
          "known", "apply"} \cup Answers

Exchange == [kind : Kinds, pc : Steps, phone : Phone \cup {NoPhone},
             device : Device \cup {NoDevice},  \* the id inside the bearer token
             paused : {"no", "yes"},           \* what authenticate() read
             fresh : SUBSET Message,           \* candidates with no dispatch row
             again : SUBSET Message,           \* candidates with one
             won : SUBSET Message,             \* messages the outbox call claimed
             sent : SUBSET Message,            \* receipts with status 'sent'
             failed : SUBSET Message]          \* receipts with status 'failed'

FreeSlot == [kind |-> "none", pc |-> "free", phone |-> NoPhone, device |-> NoDevice,
             paused |-> "no", fresh |-> {}, again |-> {}, won |-> {},
             sent |-> {}, failed |-> {}]

(* A call as the handset puts it on the wire. *)
Call(kind, p, d, sent, failed) ==
    [FreeSlot EXCEPT !.kind = kind, !.pc = "auth", !.phone = p, !.device = d,
                     !.sent = sent, !.failed = failed]
=============================================================================
