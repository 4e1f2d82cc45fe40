---------------------------- MODULE GatewayServer ----------------------------
(***************************************************************************)
(* The server's half of the phone SMS gateway:                             *)
(* worker/src/routes/comms/sms_gateway.ts and the enrolment routes of      *)
(* sms_gateway_public.ts.                                                  *)
(*                                                                         *)
(* D1 gives no interactive transaction.  One prepared statement, or one    *)
(* db.batch, is atomic; between two of them any other request may run.  An *)
(* action below is therefore one batch or one statement of a handler, and  *)
(* request[r].pc is the await it is suspended at.                          *)
(***************************************************************************)
EXTENDS Gateway

VARIABLES
    message_log,  \* [Message -> [status, error]]
    dispatch,     \* [Message -> [state, device, attempt]], sms_gateway_dispatch
    lapsed,       \* messages whose dispatch row has lease_expires_at in the past
    closed,       \* messages whose sent_at is older than COLLECT_WINDOW_S
    enrolled, approved, revoked, paused,  \* sms_gateway_devices, column by column
    request,      \* [Request -> Exchange]
    offers        \* history: how often an outbox call has claimed a message

serverVars == <<message_log, dispatch, lapsed, closed,
                enrolled, approved, revoked, paused, request, offers>>

tables == <<message_log, dispatch, lapsed, offers>>
clocks == <<closed>>
deviceTable == <<enrolled, approved, revoked, paused>>

LogRow == [status : {"queued", "sent", "failed"},
           error : {"none", "unconfirmed", "uncollected", "phone"}]

DispatchRow == [state : {"none", "queued", "dispatching", "sent", "failed", "expired"},
                device : Device \cup {NoDevice}, attempt : Nat]

ServerTypeOK ==
    /\ message_log \in [Message -> LogRow]
    /\ dispatch \in [Message -> DispatchRow]
    /\ lapsed \subseteq Message
    /\ closed \subseteq Message
    /\ enrolled \subseteq Device
    /\ approved \subseteq Device
    /\ revoked \subseteq Device
    /\ paused \subseteq Device
    /\ request \in [Request -> Exchange]
    /\ offers \in [Message -> Nat]

ServerInit ==
    /\ message_log = [m \in Message |-> [status |-> "queued", error |-> "none"]]
    /\ dispatch = [m \in Message |-> [state |-> "none", device |-> NoDevice, attempt |-> 0]]
    /\ lapsed = {} /\ closed = {}
    /\ enrolled = {} /\ approved = {} /\ revoked = {} /\ paused = {}
    /\ request = [r \in Request |-> FreeSlot]
    /\ offers = [m \in Message |-> 0]

-----------------------------------------------------------------------------
(***************************************************************************)
(* sweepStmts: four statements of one batch, each seeing the ones before.  *)
(***************************************************************************)
Lapsed(m) == dispatch[m].state = "dispatching" /\ m \in lapsed

(* Mutant: a state the table does not have. *)
SweptDispatchMisnamed(m) ==
    IF Lapsed(m) THEN [dispatch[m] EXCEPT !.state = "pending"] ELSE dispatch[m]

(* Statements 1 and 3: a lapsed lease goes back to the queue, or expires. *)
SweptDispatch(m) ==
    IF ~Lapsed(m) THEN dispatch[m]
    ELSE IF dispatch[m].attempt < MaxAttempts
         THEN [dispatch[m] EXCEPT !.state = "queued", !.device = NoDevice]
         ELSE [dispatch[m] EXCEPT !.state = "expired"]

(* Statements 2 and 4: what the school reads in the message log. *)
Unconfirmed(m) == Lapsed(m) /\ dispatch[m].attempt >= MaxAttempts

Uncollected(m) ==
    /\ message_log[m].status = "sent"
    /\ m \in closed
    /\ SweptDispatch(m).state \in {"none", "queued"}

SweptLog(m) ==
    IF Unconfirmed(m) /\ message_log[m].status # "failed"
    THEN [status |-> "failed", error |-> "unconfirmed"]
    ELSE IF Uncollected(m)
    THEN [status |-> "failed", error |-> "uncollected"]
    ELSE message_log[m]

(* Mutant: the sweep's budget comparisons are off by one. *)
SweepOffByOne ==
    /\ dispatch' = [m \in Message |->
           IF Lapsed(m) /\ dispatch[m].attempt <= MaxAttempts
           THEN [dispatch[m] EXCEPT !.state = "queued", !.device = NoDevice]
           ELSE SweptDispatch(m)]
    /\ message_log' = [m \in Message |->
           IF Lapsed(m) /\ dispatch[m].attempt <= MaxAttempts
           THEN message_log[m] ELSE SweptLog(m)]
    /\ lapsed' = {m \in lapsed : ~Lapsed(m)}
    /\ UNCHANGED offers

(* Mutant: the log is not told of a row the sweep expires. *)
SweepSilently ==
    /\ dispatch' = [m \in Message |-> SweptDispatch(m)]
    /\ message_log' = [m \in Message |->
           IF Uncollected(m) THEN [status |-> "failed", error |-> "uncollected"]
                             ELSE message_log[m]]
    /\ lapsed' = {m \in lapsed : ~Lapsed(m)}
    /\ UNCHANGED offers

(* Mutant: an expired row is never written off, only requeued when young. *)
SweepForgetsExpiry ==
    /\ dispatch' = [m \in Message |->
           IF Unconfirmed(m) THEN dispatch[m] ELSE SweptDispatch(m)]
    /\ message_log' = [m \in Message |->
           IF Uncollected(m) THEN [status |-> "failed", error |-> "uncollected"]
                             ELSE message_log[m]]
    /\ lapsed' = {m \in lapsed : ~Lapsed(m) \/ Unconfirmed(m)}
    /\ UNCHANGED offers

Sweep ==
    /\ dispatch' = [m \in Message |-> SweptDispatch(m)]
    /\ message_log' = [m \in Message |-> SweptLog(m)]
    /\ lapsed' = {m \in lapsed : ~Lapsed(m)}
    /\ UNCHANGED offers

-----------------------------------------------------------------------------
At(r, kind, pc) == request[r].kind = kind /\ request[r].pc = pc

Goto(r, pc) == request' = [request EXCEPT ![r].pc = pc]

(***************************************************************************)
(* authenticate: one read of the device row decides 401, 403 or a Device   *)
(* value that the rest of the handler keeps, whatever the row becomes.     *)
(* A paused device's outbox answer is empty and nothing else happens.      *)
(***************************************************************************)
FirstStep(r) ==
    LET d == request[r].device
        kind == request[r].kind
    IN  IF d \notin enrolled \/ d \in revoked THEN "401"
        ELSE IF d \notin approved THEN "403"
        ELSE IF kind = "receipts" THEN "known"
        ELSE IF kind = "outbox" /\ d \in paused THEN "200"
        ELSE "sweep"

Authenticate(r) ==
    /\ request[r].pc = "auth"
    /\ request' = [request EXCEPT ![r] = [request[r] EXCEPT
           !.pc = FirstStep(r),
           !.paused = IF request[r].device \in paused THEN "yes" ELSE "no"]]
    /\ UNCHANGED <<tables, clocks, deviceTable>>

(* outbox: the sweep batch, before the candidates are read. *)
OutboxSweep(r) ==
    /\ At(r, "outbox", "sweep")
    /\ Sweep
    /\ Goto(r, "select")
    /\ UNCHANGED <<clocks, deviceTable>>

(* heartbeat: the device's vitals and the sweep, in one batch. *)
HeartbeatBatch(r) ==
    /\ At(r, "heartbeat", "sweep")
    /\ Sweep
    /\ Goto(r, "200")
    /\ UNCHANGED <<clocks, deviceTable>>

Claimable(m) ==
    \/ dispatch[m].state \in {"none", "queued"}
    \/ Lapsed(m) /\ dispatch[m].attempt < MaxAttempts

(* Mutant: a message is offered before the dispatcher has handed it over. *)
CandidatesUnsent == {m \in Message :
    message_log[m].status # "failed" /\ m \notin closed /\ Claimable(m)}

Candidates == {m \in Message :
    message_log[m].status = "sent" /\ m \notin closed /\ Claimable(m)}

(* outbox: SELECT ... ORDER BY queued_at LIMIT max; queued_at is not modelled,
   so any full page of the candidates may be the oldest one. *)
OutboxSelect(r) ==
    /\ At(r, "outbox", "select")
    /\ \E page \in SUBSET Candidates :
          /\ Cardinality(page) <= MaxBatch
          /\ page = Candidates \/ Cardinality(page) = MaxBatch
          /\ request' = [request EXCEPT ![r] = [request[r] EXCEPT
                 !.pc = IF page = {} THEN "200" ELSE "claim",
                 !.fresh = {m \in page : dispatch[m].state = "none"},
                 !.again = {m \in page : dispatch[m].state # "none"}]]
    /\ UNCHANGED <<tables, clocks, deviceTable>>

(* Each claim re-checks its own predicate: INSERT ... WHERE NOT EXISTS, or
   UPDATE ... WHERE state = 'queued' OR (lapsed AND attempt < MAX_ATTEMPTS). *)
Won(r) ==
    {m \in request[r].fresh : dispatch[m].state = "none"} \cup
    {m \in request[r].again :
        \/ dispatch[m].state = "queued"
        \/ Lapsed(m) /\ dispatch[m].attempt < MaxAttempts}

ClaimRows(r, won) ==
    /\ dispatch' = [m \in Message |->
           IF m \in won
           THEN [state |-> "dispatching", device |-> request[r].device,
                 attempt |-> dispatch[m].attempt + 1]
           ELSE dispatch[m]]
    /\ lapsed' = lapsed \ won
    /\ offers' = [m \in Message |-> IF m \in won THEN offers[m] + 1 ELSE offers[m]]
    /\ request' = [request EXCEPT ![r] =
           [request[r] EXCEPT !.pc = IF won = {} THEN "200" ELSE "bodies",
                              !.won = won, !.fresh = {}, !.again = {}]]
    /\ UNCHANGED message_log

(* Mutant: the claim trusts the candidates it read before the await. *)
OutboxClaimUnchecked(r) ==
    /\ At(r, "outbox", "claim")
    /\ ClaimRows(r, request[r].fresh \cup request[r].again)
    /\ UNCHANGED <<clocks, deviceTable>>

OutboxClaim(r) ==
    /\ At(r, "outbox", "claim")
    /\ ClaimRows(r, Won(r))
    /\ UNCHANGED <<clocks, deviceTable>>

(* outbox: the claims are committed; the bodies are read and the answer sent. *)
OutboxBodies(r) ==
    /\ At(r, "outbox", "bodies")
    /\ Goto(r, "200")
    /\ UNCHANGED <<tables, clocks, deviceTable>>

(* receipts: an id the school has no dispatch row for refuses the whole call. *)
ReceiptsKnown(r) ==
    /\ At(r, "receipts", "known")
    /\ Goto(r, IF \A m \in request[r].sent \cup request[r].failed :
                     dispatch[m].state # "none"
               THEN "apply" ELSE "404")
    /\ UNCHANGED <<tables, clocks, deviceTable>>

(* The rows this call settles: still dispatching, and to this very device. *)
Settles(r, m) ==
    /\ m \in request[r].sent \cup request[r].failed
    /\ dispatch[m].state = "dispatching"
    /\ dispatch[m].device = request[r].device

Receipt(r, m) == IF m \in request[r].sent THEN "sent" ELSE "failed"

(* Mutant: a receipt settles the row whatever state it is in. *)
ReceiptsReopen(r) ==
    /\ At(r, "receipts", "apply")
    /\ dispatch' = [m \in Message |->
           IF m \in request[r].sent \cup request[r].failed /\ dispatch[m].device = request[r].device
           THEN [dispatch[m] EXCEPT !.state = Receipt(r, m)] ELSE dispatch[m]]
    /\ message_log' = [m \in Message |->
           IF m \in request[r].failed /\ dispatch[m].device = request[r].device
           THEN [status |-> "failed", error |-> "phone"] ELSE message_log[m]]
    /\ Goto(r, "200")
    /\ UNCHANGED <<lapsed, offers, clocks, deviceTable>>

ReceiptsApply(r) ==
    /\ At(r, "receipts", "apply")
    /\ dispatch' = [m \in Message |->
           IF Settles(r, m) THEN [dispatch[m] EXCEPT !.state = Receipt(r, m)]
                            ELSE dispatch[m]]
    /\ message_log' = [m \in Message |->
           IF ~Settles(r, m) THEN message_log[m]
           ELSE IF Receipt(r, m) = "failed" THEN [status |-> "failed", error |-> "phone"]
           ELSE IF message_log[m].status = "sent" THEN [message_log[m] EXCEPT !.error = "none"]
           ELSE message_log[m]]
    /\ Goto(r, "200")
    /\ UNCHANGED <<lapsed, offers, clocks, deviceTable>>

(* A D1 error, an evicted isolate: the handler stops between two batches and
   answers 500, keeping what it has already written. *)
HandlerFails(r) ==
    /\ request[r].pc \notin Answers \cup {"free"}
    /\ Goto(r, "500")
    /\ UNCHANGED <<tables, clocks, deviceTable>>

Handle(r) ==
    \/ Authenticate(r)
    \/ OutboxSweep(r) \/ OutboxSelect(r) \/ OutboxClaim(r) \/ OutboxBodies(r)
    \/ ReceiptsKnown(r) \/ ReceiptsApply(r)
    \/ HeartbeatBatch(r)

-----------------------------------------------------------------------------
(* The messaging dispatcher's success branch with the provider 'sms:phone': the
   row is marked sent, which makes it available here.  smsGatewayReason() was ''
   when the dispatch pass began: a device that has reported in, so an approved
   one, was then neither revoked nor paused; it may be both by now. *)
HandOver(m) ==
    /\ message_log[m].status = "queued"
    /\ approved # {}
    /\ message_log' = [message_log EXCEPT ![m].status = "sent"]
    /\ UNCHANGED <<dispatch, lapsed, offers, clocks, deviceTable, request>>

(* Five minutes pass under a lease; twelve hours pass over a message. *)
LeaseRunsOut(m) ==
    /\ dispatch[m].state = "dispatching" /\ m \notin lapsed
    /\ lapsed' = lapsed \cup {m}
    /\ UNCHANGED <<message_log, dispatch, offers, clocks, deviceTable, request>>

WindowCloses(m) ==
    /\ message_log[m].status # "queued" /\ m \notin closed
    /\ closed' = closed \cup {m}
    /\ UNCHANGED <<tables, deviceTable, request>>

-----------------------------------------------------------------------------
(* The admin screen. *)
SetPaused(d, on) ==
    /\ d \in enrolled \ revoked
    /\ paused' = IF on THEN paused \cup {d} ELSE paused \ {d}
    /\ UNCHANGED <<tables, clocks, enrolled, approved, revoked, request>>

Approve(d) ==
    /\ d \in enrolled \ revoked
    /\ approved' = approved \cup {d}
    /\ UNCHANGED <<tables, clocks, enrolled, revoked, paused, request>>

Held(m, d) == dispatch[m].state = "dispatching" /\ dispatch[m].device = d

(* revokeSMSGatewayDevice: its claims return to the queue in the same batch. *)
Revoke(d) ==
    /\ d \in enrolled \ revoked
    /\ revoked' = revoked \cup {d}
    /\ paused' = paused \cup {d}
    /\ dispatch' = [m \in Message |->
           IF Held(m, d) THEN [dispatch[m] EXCEPT !.state = "queued", !.device = NoDevice]
                         ELSE dispatch[m]]
    /\ lapsed' = {m \in lapsed : ~Held(m, d)}
    /\ UNCHANGED <<message_log, offers, clocks, enrolled, approved, request>>

(* claim (pair code, approved on arrival) and enrol (staff login): a new device
   row; enrol first revokes the rows that carry the same handset name, and,
   unlike Revoke, leaves their claims to their leases. *)
AddDevice(d, isApproved, replaced) ==
    /\ d \notin enrolled
    /\ enrolled' = enrolled \cup {d}
    /\ approved' = IF isApproved THEN approved \cup {d} ELSE approved
    /\ revoked' = revoked \cup replaced
    /\ UNCHANGED <<tables, clocks, paused, request>>
=============================================================================
