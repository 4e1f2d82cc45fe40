------------------------------- MODULE Handset -------------------------------
(***************************************************************************)
(* The Android handset of the phone SMS gateway (mobile/apps/sms-gateway): *)
(* the local queue (MessageDao), the repository (GatewayRepository), the   *)
(* loops of GatewayEngine and the radio as SmsSender and SmsResultReceiver *)
(* see it.                                                                 *)
(*                                                                         *)
(* row survives a crash: it is SQLite.  token and hushed survive too (the  *)
(* preference stores).  batch, sending and stuck are local variables of    *)
(* the loops, lost with the process.  The loops run concurrently, so an    *)
(* action is one DAO call or one radio call of one loop.                   *)
(***************************************************************************)
EXTENDS Gateway

VARIABLES
    row,      \* [Phone \X Message -> Row], table queued_message
    token,    \* [Phone -> Device or NoDevice], TokenStore
    up,       \* phones whose service is running
    hushed,   \* phones whose settings say pausedByServer
    batch,    \* [Phone -> rows of the dispatch pass not yet reached]
    sending,  \* [Phone -> the row marked SENDING and not yet at the radio]
    stuck,    \* [Phone -> rows sweepStuckSends has read and not yet settled]
    waiting,  \* requests whose phone still waits for the answer
    radio     \* [Phone \X Message -> [handed, left, good]]

handsetVars == <<row, token, up, hushed, batch, sending, stuck, waiting, radio>>

memory == <<batch, sending, stuck>>
pairing == <<token, hushed>>

Row == [state : {"none", "QUEUED", "SENDING", "SENT", "FAILED"},
        pending : Nat,              \* partsPending
        error : {"no", "yes"},      \* some segment, or the send, failed
        accepted : {"no", "yes"}]   \* receiptAccepted

NoRow == [state |-> "none", pending |-> 0, error |-> "no", accepted |-> "no"]

(* handed: how often SmsManager took the message; left: segment results it
   still owes; good: segments it has reported RESULT_OK for. *)
RadioLog == [handed : Nat, left : Nat, good : Nat]

HandsetTypeOK ==
    /\ row \in [Phone \X Message -> Row]
    /\ token \in [Phone -> Device \cup {NoDevice}]
    /\ up \subseteq Phone
    /\ hushed \subseteq Phone
    /\ batch \in [Phone -> SUBSET Message]
    /\ sending \in [Phone -> Message \cup {NoMessage}]
    /\ stuck \in [Phone -> SUBSET Message]
    /\ waiting \subseteq Request
    /\ radio \in [Phone \X Message -> RadioLog]

HandsetInit ==
    /\ row = [pm \in Phone \X Message |-> NoRow]
    /\ token = [p \in Phone |-> NoDevice]
    /\ up = Phone
    /\ hushed = {}
    /\ batch = [p \in Phone |-> {}]
    /\ sending = [p \in Phone |-> NoMessage]
    /\ stuck = [p \in Phone |-> {}]
    /\ waiting = {}
    /\ radio = [pm \in Phone \X Message |-> [handed |-> 0, left |-> 0, good |-> 0]]

-----------------------------------------------------------------------------
(***************************************************************************)
(* dispatchLoop.                                                           *)
(***************************************************************************)
InState(p, state) == {m \in Message : row[<<p, m>>].state = state}

Idle(p) == p \in up /\ batch[p] = {} /\ sending[p] = NoMessage

(* nextQueued(DISPATCH_BATCH): the pause is looked at here and not again until
   the whole page has gone out.  Which rows make the page is not modelled. *)
NextQueued(p) ==
    /\ Idle(p) /\ p \notin hushed
    /\ \E page \in SUBSET InState(p, "QUEUED") :
          page # {} /\ batch' = [batch EXCEPT ![p] = page]
    /\ UNCHANGED <<row, pairing, up, sending, stuck, waiting, radio>>

(* markSending: the row is claimed locally before the radio is touched.  When
   the divider throws, the count is 1 instead and the send throws as well. *)
Marked(old) == [old EXCEPT !.state = "SENDING", !.pending = Parts]

MarkSending(p, m) ==
    /\ p \in up /\ sending[p] = NoMessage /\ m \in batch[p]
    /\ batch' = [batch EXCEPT ![p] = @ \ {m}]
    /\ IF row[<<p, m>>].state = "QUEUED"
       THEN /\ sending' = [sending EXCEPT ![p] = m]
            /\ row' = [row EXCEPT ![<<p, m>>] = Marked(row[<<p, m>>])]
       ELSE UNCHANGED <<sending, row>>
    /\ UNCHANGED <<pairing, up, stuck, waiting, radio>>

(* SmsSender.send returns: the radio has it and owes one result per segment. *)
Taken(log) == [log EXCEPT !.handed = log.handed + 1, !.left = log.left + Parts]

HandToRadio(p) ==
    /\ p \in up /\ sending[p] # NoMessage
    /\ radio' = [radio EXCEPT ![<<p, sending[p]>>] = Taken(radio[<<p, sending[p]>>])]
    /\ sending' = [sending EXCEPT ![p] = NoMessage]
    /\ UNCHANGED <<row, pairing, up, batch, stuck, waiting>>

(* MessageDao.settle: UPDATE ... WHERE id = :id, whatever the row's state. *)
Failed(old) ==
    IF old.state = "none" THEN old ELSE [old EXCEPT !.state = "FAILED", !.error = "yes"]

Settle(p, m) == row' = [row EXCEPT ![<<p, m>>] = Failed(row[<<p, m>>])]

(* SmsSender.send throws: no permission, blank body, a bad destination. *)
RadioRefuses(p) ==
    /\ p \in up /\ sending[p] # NoMessage
    /\ Settle(p, sending[p])
    /\ sending' = [sending EXCEPT ![p] = NoMessage]
    /\ UNCHANGED <<pairing, up, batch, stuck, waiting, radio>>

(* handleBlocked, after the grace: no SIM or no permission, so the queued rows
   are reported failed.  One settle at a time; it is the dispatch loop itself,
   so nothing else can be taking them. *)
ReportBlocked(p, m) ==
    /\ Idle(p) /\ p \notin hushed
    /\ row[<<p, m>>].state = "QUEUED"
    /\ Settle(p, m)
    /\ UNCHANGED <<pairing, up, memory, waiting, radio>>

-----------------------------------------------------------------------------
(***************************************************************************)
(* SmsResultReceiver: declared in the manifest, so a result is delivered   *)
(* to a stopped app too, unless Android loses it.                          *)
(***************************************************************************)
(* recordPartResult, one transaction: count the segment, keep the first
   failure, and settle the row when no segment is outstanding. *)
Counted(old, ok) ==
    [old EXCEPT !.pending = IF old.pending > 0 THEN old.pending - 1 ELSE 0,
                !.error = IF ok THEN old.error ELSE "yes"]

(* Mutant: the last segment's result alone decides. *)
PartRecordedLastWins(old, ok) ==
    IF old.state # "SENDING" THEN old
    ELSE IF old.pending > 1 THEN [Counted(old, ok) EXCEPT !.error = "no"]
    ELSE [Counted(old, ok) EXCEPT !.state = IF ok THEN "SENT" ELSE "FAILED"]

PartRecorded(old, ok) ==
    IF old.state # "SENDING" THEN old
    ELSE IF Counted(old, ok).pending > 0 THEN Counted(old, ok)
    ELSE [Counted(old, ok) EXCEPT
              !.state = IF Counted(old, ok).error = "no" THEN "SENT" ELSE "FAILED"]

Reported(log, ok) ==
    [log EXCEPT !.left = log.left - 1, !.good = IF ok THEN log.good + 1 ELSE log.good]

PartResult(p, m, ok) ==
    /\ radio[<<p, m>>].left > 0
    /\ radio' = [radio EXCEPT ![<<p, m>>] = Reported(radio[<<p, m>>], ok)]
    /\ row' = [row EXCEPT ![<<p, m>>] = PartRecorded(row[<<p, m>>], ok)]
    /\ UNCHANGED <<pairing, up, memory, waiting>>

(* The segment went out (or did not) and the broadcast never arrived. *)
ResultLost(p, m, ok) ==
    /\ radio[<<p, m>>].left > 0
    /\ radio' = [radio EXCEPT ![<<p, m>>] = Reported(radio[<<p, m>>], ok)]
    /\ UNCHANGED <<row, pairing, up, memory, waiting>>

-----------------------------------------------------------------------------
(***************************************************************************)
(* upkeepLoop.                                                             *)
(***************************************************************************)
(* Mutant: only rows some of whose segments have answered are looked at. *)
StuckReadHalfAnswered(p) ==
    /\ p \in up /\ stuck[p] = {}
    /\ \E old \in SUBSET {m \in InState(p, "SENDING") : row[<<p, m>>].pending < Parts} :
          old # {} /\ stuck' = [stuck EXCEPT ![p] = old]
    /\ UNCHANGED <<row, pairing, up, batch, sending, waiting, radio>>

(* sweepStuckSends reads the rows that have been SENDING for ten minutes ... *)
StuckRead(p) ==
    /\ p \in up /\ stuck[p] = {}
    /\ \E old \in SUBSET InState(p, "SENDING") :
          old # {} /\ stuck' = [stuck EXCEPT ![p] = old]
    /\ UNCHANGED <<row, pairing, up, batch, sending, waiting, radio>>

(* ... and then settles them one by one, by id alone. *)
StuckSettle(p, m) ==
    /\ p \in up /\ m \in stuck[p]
    /\ stuck' = [stuck EXCEPT ![p] = @ \ {m}]
    /\ Settle(p, m)
    /\ UNCHANGED <<pairing, up, batch, sending, waiting, radio>>

(* pruneSettledBefore(a week): receiptAccepted and old. *)
Prune(p, m) ==
    /\ p \in up
    /\ row[<<p, m>>].accepted = "yes"
    /\ m \notin batch[p] \cup stuck[p] /\ sending[p] # m
    /\ row' = [row EXCEPT ![<<p, m>>] = NoRow]
    /\ UNCHANGED <<pairing, up, memory, waiting, radio>>

-----------------------------------------------------------------------------
(***************************************************************************)
(* What the repository does with answers.                                  *)
(***************************************************************************)
(* Mutant: REPLACE instead of IGNORE on a re-delivered id. *)
InsertReplacing(old) == [NoRow EXCEPT !.state = "QUEUED"]

(* insertIgnoringKnown: a known id keeps its row. *)
Inserted(old) == IF old.state = "none" THEN [NoRow EXCEPT !.state = "QUEUED"] ELSE old

InsertIgnoringKnown(p, ids) ==
    row' = [pm \in Phone \X Message |->
        IF pm[1] = p /\ pm[2] \in ids THEN Inserted(row[pm]) ELSE row[pm]]

Accepted(old) == [old EXCEPT !.accepted = "yes"]

MarkReceiptsAccepted(p, ids) ==
    row' = [pm \in Phone \X Message |->
        IF pm[1] = p /\ pm[2] \in ids /\ row[pm].state # "none"
        THEN Accepted(row[pm]) ELSE row[pm]]

(* unpair: the token goes, and with the settings the remembered pause. *)
Unpair(p) ==
    /\ token' = [token EXCEPT ![p] = NoDevice]
    /\ hushed' = hushed \ {p}

-----------------------------------------------------------------------------
(***************************************************************************)
(* The process.                                                            *)
(***************************************************************************)
Forget(p) ==
    /\ batch' = [batch EXCEPT ![p] = {}]
    /\ sending' = [sending EXCEPT ![p] = NoMessage]
    /\ stuck' = [stuck EXCEPT ![p] = {}]

(* Killed, swiped away, out of battery, or stopped by the operator. *)
Crash(p, calls) ==
    /\ p \in up
    /\ up' = up \ {p}
    /\ Forget(p)
    /\ waiting' = waiting \ calls
    /\ UNCHANGED <<row, pairing, radio>>

(* BootReceiver, START_STICKY, GatewayRestartWorker or the operator. *)
Restart(p) ==
    /\ p \notin up
    /\ up' = up \cup {p}
    /\ UNCHANGED <<row, pairing, memory, waiting, radio>>

(* The status screen's Unpair button also stops the service. *)
OperatorUnpairs(p, calls) ==
    /\ token[p] # NoDevice
    /\ Unpair(p)
    /\ up' = up \ {p}
    /\ Forget(p)
    /\ waiting' = waiting \ calls
    /\ UNCHANGED <<row, radio>>
=============================================================================
