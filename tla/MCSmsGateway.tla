---------------------------- MODULE MCSmsGateway -----------------------------
(***************************************************************************)
(* Small instances of SmsGateway for TLC.  The whole Next explodes with a  *)
(* second phone or a second call in flight, so each run leaves some events *)
(* out by keeping the variables that record them unchanged.                *)
(***************************************************************************)
EXTENDS SmsGateway, TLC

Symmetry == Permutations(Message) \cup Permutations(Phone)
            \cup Permutations(Device) \cup Permutations(Request)

(* Every device is let in on arrival and paused only by being revoked. *)
NoAdmin == UNCHANGED hushed /\ paused' \subseteq revoked' /\ approved' = enrolled'

(* Two phones race for messages: nobody crashes, is revoked or unpaired, waits
   ten minutes for the radio or twelve hours for a poll.  A poll sweeps as a
   heartbeat does, so the heartbeats are left out. *)
RaceNext ==
    /\ Next
    /\ NoAdmin
    /\ UNCHANGED <<up, closed, revoked, stuck>>
    /\ \A p \in Phone : token[p] # NoDevice => token'[p] = token[p]
    /\ \A r \in Request : request'[r].kind # "heartbeat"
RaceSpec == Init /\ [][RaceNext]_vars

(* Phones crash and restart, and the collection window closes. *)
CrashNext == Next /\ NoAdmin /\ UNCHANGED revoked
CrashSpec == Init /\ [][CrashNext]_vars

CrashPhoneSpec == CrashSpec /\ PhoneFairness

(* The number of slots is this model's bound, not the phone's: a heartbeat never
   waits for a poll or a receipt to finish, so it has a slot of its own. *)
HeartbeatSlot == CHOOSE r \in Request : TRUE

CrashSweepNext ==
    /\ CrashNext
    /\ \A r \in Request : \/ request'[r].kind = "none"
                          \/ (request'[r].kind = "heartbeat") <=> (r = HeartbeatSlot)
CrashSweepSpec == Init /\ [][CrashSweepNext]_vars /\ SweepFairness
=============================================================================
