------------------------------- MODULE Courier -------------------------------
(***************************************************************************)
(* What the phone SMS gateway promises the school, with no leases, polls,  *)
(* receipts or crashes in it.  A message is told to be queued, sent or     *)
(* failed; it is open until it is confirmed or given up; phones take it    *)
(* and it goes out.  Leases, retries, lost answers and restarts may repeat *)
(* or delay these moves but add none.                                      *)
(***************************************************************************)
EXTENDS Naturals

CONSTANTS Message, Phone

VARIABLES
    told,      \* what the school reads of each message
    outcome,   \* open, confirmed or given up
    handed,    \* how often each phone's radio took each message
    gone       \* the phones and messages of which every segment went out

vars == <<told, outcome, handed, gone>>

Init ==
    /\ told = [m \in Message |-> "queued"]
    /\ outcome = [m \in Message |-> "open"]
    /\ handed = [pm \in Phone \X Message |-> 0]
    /\ gone = {}

(* The school hands the message over and reads that it was sent. *)
HandedOver(m) == told[m] = "queued" /\ told'[m] = "sent" /\ outcome'[m] = outcome[m]

(* Never an optimistic confirmation: some phone has sent all of it. *)
Confirmed(m) ==
    /\ outcome[m] = "open" /\ \E p \in Phone : <<p, m>> \in gone
    /\ outcome'[m] = "confirmed" /\ told'[m] = told[m]

(* Giving up is never silent, and nothing confirmed is ever written off. *)
WrittenOff(m) ==
    /\ outcome[m] = "open" /\ told[m] # "queued"
    /\ told'[m] = "failed" /\ outcome'[m] \in {"open", "given up"}

(* A batch of receipts or a sweep moves any number of messages at once. *)
Reported ==
    /\ told' = [m \in Message |-> told'[m]] /\ outcome' = [m \in Message |-> outcome'[m]]
    /\ \A m \in Message :
          \/ told'[m] = told[m] /\ outcome'[m] = outcome[m]
          \/ HandedOver(m) \/ Confirmed(m) \/ WrittenOff(m)
    /\ UNCHANGED <<handed, gone>>

(* A phone takes a message once, and none the school has not handed over. *)
Taken(p, m) ==
    /\ handed[<<p, m>>] = 0 /\ told[m] # "queued"
    /\ handed' = [handed EXCEPT ![<<p, m>>] = 1]
    /\ UNCHANGED <<told, outcome, gone>>

WentOut(p, m) ==
    /\ handed[<<p, m>>] = 1
    /\ gone' = gone \cup {<<p, m>>}
    /\ UNCHANGED <<told, outcome, handed>>

Next == Reported \/ \E p \in Phone, m \in Message : Taken(p, m) \/ WentOut(p, m)

Spec == Init /\ [][Next]_vars
=============================================================================
