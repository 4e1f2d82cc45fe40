----------------------------- MODULE SmsGateway ------------------------------
(***************************************************************************)
(* The phone SMS gateway: the server and its handsets, joined by HTTP      *)
(* calls that may be lost, answered late, or answered after the phone has  *)
(* stopped listening.  docs/SMS_GATEWAY_CONTRACT.md is the wire contract   *)
(* both halves are written against.                                        *)
(***************************************************************************)
EXTENDS GatewayServer, Handset

vars == <<serverVars, handsetVars>>

CallsOf(p) == {r \in Request : request[r].phone = p}

OpenCalls(p, kind) == {r \in CallsOf(p) \cap waiting : request[r].kind = kind}

Init == ServerInit /\ HandsetInit

(* A slot in use belongs to a phone. *)
CallerKnown == \A r \in Request : request[r].pc = "free" \/ request[r].phone \in Phone

(* The columns, preferences and in-memory fields of both programs keep their
   types, whatever handler or loop writes them. *)
TypeOK == ServerTypeOK /\ HandsetTypeOK /\ CallerKnown

-----------------------------------------------------------------------------
(***************************************************************************)
(* A phone starts a call.                                                  *)
(***************************************************************************)
Send(r, call) ==
    /\ request[r].pc = "free"
    /\ request' = [request EXCEPT ![r] = call]
    /\ waiting' = waiting \cup {r}
    /\ UNCHANGED <<tables, clocks, deviceTable>>
    /\ UNCHANGED <<row, pairing, up, memory, radio>>

(* pollLoop: one poll at a time, none while paused or unpaired. *)
Poll(p, r) ==
    /\ p \in up \ hushed /\ token[p] # NoDevice /\ OpenCalls(p, "outbox") = {}
    /\ Send(r, Call("outbox", p, token[p], {}, {}))

(* heartbeatLoop: goes on while paused. *)
Heartbeat(p, r) ==
    /\ p \in up /\ token[p] # NoDevice /\ OpenCalls(p, "heartbeat") = {}
    /\ Send(r, Call("heartbeat", p, token[p], {}, {}))

(* flushReceipts, from receiptLoop or, service running or not, from
   GatewayRestartWorker: so up to two at once.  Each row has a backoff of its
   own, so any of the unreported rows may be the ones that are due. *)
Due(p) == {m \in Message : row[<<p, m>>].state \in {"SENT", "FAILED"} /\ row[<<p, m>>].accepted = "no"}

FlushReceipts(p, r) ==
    /\ token[p] # NoDevice /\ Cardinality(OpenCalls(p, "receipts")) < 2
    /\ \E ids \in SUBSET Due(p) :
          /\ ids # {}
          /\ Send(r, Call("receipts", p, token[p],
                          {m \in ids : row[<<p, m>>].state = "SENT"},
                          {m \in ids : row[<<p, m>>].state = "FAILED"}))

-----------------------------------------------------------------------------
(***************************************************************************)
(* The answer reaches the phone.                                           *)
(***************************************************************************)
Answered(r, answers) ==
    /\ r \in waiting /\ request[r].pc \in answers
    /\ request' = [request EXCEPT ![r] = FreeSlot]
    /\ waiting' = waiting \ {r}
    /\ UNCHANGED <<tables, clocks, deviceTable>>

(* poll: claim, then persist; sending comes much later. *)
PollAnswered(r) ==
    /\ request[r].kind = "outbox" /\ Answered(r, {"200"})
    /\ InsertIgnoringKnown(request[r].phone, request[r].won)
    /\ UNCHANGED <<pairing, up, memory, radio>>

(* The contract's accepted: n counts every well-formed receipt, so it always
   covers the batch. *)
ReceiptsAnswered(r) ==
    /\ request[r].kind = "receipts" /\ Answered(r, {"200"})
    /\ MarkReceiptsAccepted(request[r].phone, request[r].sent \cup request[r].failed)
    /\ UNCHANGED <<pairing, up, memory, radio>>

(* The pause the server read when it authenticated the heartbeat. *)
HeartbeatAnswered(r) ==
    /\ request[r].kind = "heartbeat" /\ Answered(r, {"200"})
    /\ hushed' = IF request[r].paused = "yes" THEN hushed \cup {request[r].phone}
                                             ELSE hushed \ {request[r].phone}
    /\ UNCHANGED <<row, token, up, memory, radio>>

(* 401: the credential is cleared; the service goes on running. *)
TokenRefused(r) ==
    /\ Answered(r, {"401"})
    /\ Unpair(request[r].phone)
    /\ UNCHANGED <<row, up, memory, radio>>

(* 403 awaiting_approval, 404, 5xx: back off and try again. *)
CallRefused(r) ==
    /\ Answered(r, {"403", "404", "500"})
    /\ UNCHANGED <<row, pairing, up, memory, radio>>

(* Timeout or lost connection: the handler, if it was reached, runs on. *)
GiveUp(r) ==
    /\ r \in waiting
    /\ waiting' = waiting \ {r}
    /\ UNCHANGED <<serverVars, row, pairing, up, memory, radio>>

(* The answer to a call nobody waits for goes nowhere. *)
AnswerLost(r) ==
    /\ r \notin waiting /\ request[r].pc \in Answers
    /\ request' = [request EXCEPT ![r] = FreeSlot]
    /\ UNCHANGED <<tables, clocks, deviceTable, handsetVars>>

-----------------------------------------------------------------------------
(***************************************************************************)
(* Enrolment, from the pair screen of an unpaired phone.  The answer may   *)
(* be lost, which leaves a device row that no phone holds a token for.     *)
(***************************************************************************)
Enrol(p, d) ==
    /\ token[p] = NoDevice
    /\ \/ AddDevice(d, TRUE, {})                                  \* claim
       \/ \E replaced \in SUBSET (enrolled \ revoked), ok \in BOOLEAN :
             AddDevice(d, ok, replaced)                           \* enrol
    /\ \/ /\ token' = [token EXCEPT ![p] = d]
          /\ hushed' = hushed \ {p}
       \/ UNCHANGED pairing
    /\ UNCHANGED <<row, up, memory, waiting, radio>>

(***************************************************************************)
(* RETENTION_MILLIS (7 days) exceeds COLLECT_WINDOW_S (12 hours) by more   *)
(* than any HTTP call lasts: a pruned row's message is past its window and *)
(* in no answer still on its way to this phone.                            *)
(***************************************************************************)
Offered(r) == request[r].fresh \cup request[r].again \cup request[r].won

PruneOld(p, m) ==
    /\ m \in closed
    /\ \A r \in CallsOf(p) : m \notin Offered(r)
    /\ Prune(p, m)
    /\ UNCHANGED serverVars

-----------------------------------------------------------------------------
Local(p) ==
    /\ \/ NextQueued(p)
       \/ \E m \in Message : MarkSending(p, m)
       \/ HandToRadio(p)
       \/ RadioRefuses(p)
       \/ \E m \in Message : ReportBlocked(p, m)
       \/ \E m \in Message, ok \in BOOLEAN : PartResult(p, m, ok)
       \/ \E m \in Message, ok \in BOOLEAN : ResultLost(p, m, ok)
       \/ StuckRead(p)
       \/ \E m \in Message : StuckSettle(p, m)
       \/ Crash(p, CallsOf(p))
       \/ Restart(p)
       \/ OperatorUnpairs(p, CallsOf(p))
    /\ UNCHANGED serverVars

Served(r) ==
    /\ Handle(r) \/ HandlerFails(r)
    /\ UNCHANGED handsetVars

Answer(r) ==
    \/ PollAnswered(r) \/ ReceiptsAnswered(r) \/ HeartbeatAnswered(r)
    \/ TokenRefused(r) \/ CallRefused(r) \/ GiveUp(r) \/ AnswerLost(r)

Calls(p, r) == Poll(p, r) \/ Heartbeat(p, r) \/ FlushReceipts(p, r)

Office ==
    /\ \/ \E m \in Message : HandOver(m) \/ LeaseRunsOut(m) \/ WindowCloses(m)
       \/ \E d \in Device : \/ \E on \in BOOLEAN : SetPaused(d, on)
                            \/ Approve(d)
                            \/ Revoke(d)
    /\ UNCHANGED handsetVars

Next ==
    \/ Office
    \/ \E r \in Request : Served(r) \/ Answer(r)
    \/ \E p \in Phone, r \in Request : Calls(p, r)
    \/ \E p \in Phone : Local(p)
    \/ \E p \in Phone, d \in Device : Enrol(p, d)
    \/ \E p \in Phone, m \in Message : PruneOld(p, m)

Spec == Init /\ [][Next]_vars

-----------------------------------------------------------------------------
(***************************************************************************)
(* What the two halves promise together.                                   *)
(***************************************************************************)
Settled == {"sent", "failed", "expired"}

(* The budget of MAX_ATTEMPTS bounds how often an outbox answer carries one
   message, however polls, lapsed leases, lost answers and crashes interleave:
   only a revoked device, once each, can return a claim without spending it. *)
OfferBound == \A m \in Message : offers[m] <= MaxAttempts + Cardinality(revoked)

(* While a lease runs, no poll takes the message from the device that holds it:
   its row changes only by that claim's own receipt, or because the device was
   revoked (outbox reads candidates and claims them in two round trips). *)
LeaseRespected ==
    [][\A m \in Message :
          dispatch[m].state = "dispatching" /\ m \notin lapsed =>
             \/ dispatch'[m] = dispatch[m]
             \/ dispatch'[m].state \in {"sent", "failed"}
                   /\ dispatch'[m].attempt = dispatch[m].attempt
                   /\ dispatch'[m].device = dispatch[m].device
             \/ dispatch[m].device \in revoked']_vars

(* A retried, late or duplicated receipt changes nothing once a row has an
   outcome, and a message the school was told has failed stays failed. *)
SettledIsFinal ==
    [][\A m \in Message :
          /\ dispatch[m].state \in Settled => dispatch'[m] = dispatch[m]
          /\ message_log[m].status = "failed" => message_log'[m].status = "failed"]_vars

(* Whatever the gateway gave up on, the message log says so. *)
FailedIsLogged ==
    \A m \in Message :
        dispatch[m].state \in {"failed", "expired"} => message_log[m].status = "failed"

(* Never an optimistic sent: the server records 'sent' only for a message all
   of whose segments some handset's radio reported as gone out. *)
SentIsTrue ==
    \A m \in Message :
        dispatch[m].state = "sent" => \E p \in Phone : radio[<<p, m>>].good >= Parts

(* One handset hands one message to its radio at most once, whatever is
   re-delivered to it and whenever it crashes. *)
OneSendPerPhone == \A p \in Phone, m \in Message : radio[<<p, m>>].handed <= 1

(* Both halves together keep the courier's promise: every poll, claim, lease,
   receipt, sweep, crash and retry is one of its moves, or nothing at all. *)
OutcomeOf(state) ==
    IF state = "sent" THEN "confirmed"
    ELSE IF state \in {"failed", "expired"} THEN "given up" ELSE "open"

Promise == INSTANCE Courier
               WITH told <- [m \in Message |-> message_log[m].status],
                    outcome <- [m \in Message |-> OutcomeOf(dispatch[m].state)],
                    handed <- [pm \in Phone \X Message |-> radio[pm].handed],
                    gone <- {pm \in Phone \X Message : radio[pm].good >= Parts}

KeepsPromise == Promise!Spec

-----------------------------------------------------------------------------
(***************************************************************************)
(* Why they hold: the inductive strengthening of the state invariants.     *)
(***************************************************************************)
(* Every offer is counted in attempt, and a row waits in the queue with the
   whole budget spent only if a revoked device put it there. *)
BudgetInv ==
    \A m \in Message :
        /\ offers[m] = dispatch[m].attempt
        /\ dispatch[m].state = "none" => dispatch[m].attempt = 0
        /\ dispatch[m].attempt <= MaxAttempts + Cardinality(revoked)
        /\ dispatch[m].state = "queued" =>
              dispatch[m].attempt + 1 <= MaxAttempts + Cardinality(revoked)

(* Success is never claimed ahead of the radio: not by the row, not by a
   receipt on its way, not by the server. *)
Truthful(x, log) ==
    /\ x.state = "SENDING" /\ x.error = "no" => log.good + x.pending >= Parts
    /\ x.state = "SENT" => log.good >= Parts

TruthInv ==
    /\ \A p \in Phone, m \in Message : Truthful(row[<<p, m>>], radio[<<p, m>>])
    /\ \A r \in Request : \A m \in request[r].sent :
          \E p \in Phone : radio[<<p, m>>].good >= Parts
    /\ SentIsTrue

(* A message that has been at a phone's radio has a row there that is past
   QUEUED, or had one, and then the message can no longer come back. *)
OnceInv ==
    \A p \in Phone, m \in Message :
        /\ radio[<<p, m>>].handed <= 1
        /\ row[<<p, m>>].state = "QUEUED" => radio[<<p, m>>].handed = 0
        /\ sending[p] = m =>
              radio[<<p, m>>].handed = 0 /\ row[<<p, m>>].state \notin {"none", "QUEUED"}
        /\ row[<<p, m>>].state = "none" /\ radio[<<p, m>>].handed > 0 =>
              m \in closed /\ \A r \in CallsOf(p) : m \notin Offered(r)

(* The inductive invariant: the parts above and the log's agreement with the
   dispatch rows, for all interleavings of phones, calls, sweeps and crashes. *)
GatewayInv == BudgetInv /\ TruthInv /\ OnceInv /\ FailedIsLogged

(* What the school has not handed over is nowhere: in no dispatch row, answer,
   phone or radio.  And the radio reports on nothing it did not take. *)
UntouchedInv ==
    /\ \A m \in Message : message_log[m].status = "queued" =>
          /\ dispatch[m].state = "none"
          /\ \A r \in Request : m \notin Offered(r)
          /\ \A p \in Phone : row[<<p, m>>].state = "none" /\ sending[p] # m
    /\ \A pm \in Phone \X Message :
          radio[pm].handed = 0 => radio[pm].left = 0 /\ radio[pm].good = 0

(***************************************************************************)
(* Liveness.  Time passes; a handler that is not refused by D1 runs on;    *)
(* calls are answered or given up; the service is brought back when it     *)
(* dies; neither crashes nor failures hit every heartbeat.  Nothing is     *)
(* assumed of the office, nor of any poll or receipt.                      *)
(***************************************************************************)
SweepFairness ==
    /\ \A m \in Message :
          /\ WF_vars(LeaseRunsOut(m) /\ UNCHANGED handsetVars)
          /\ WF_vars(WindowCloses(m) /\ UNCHANGED handsetVars)
    /\ \A r \in Request :
          /\ WF_vars(Handle(r) /\ UNCHANGED handsetVars)
          /\ WF_vars(Answer(r))
    /\ \A p \in Phone :
          /\ WF_vars(Restart(p) /\ UNCHANGED serverVars)
          /\ SF_vars(\E r \in Request : Heartbeat(p, r))
    /\ SF_vars(\E r \in Request : At(r, "heartbeat", "auth") /\ Authenticate(r)
                                    /\ UNCHANGED handsetVars)
    /\ SF_vars(\E r \in Request : HeartbeatBatch(r) /\ UNCHANGED handsetVars)

(* The loops of a phone, each of which gets through its next step at some time
   although the process may be killed again and again. *)
PhoneFairness ==
    \A p \in Phone :
        /\ WF_vars(Restart(p) /\ UNCHANGED serverVars)
        /\ SF_vars(NextQueued(p) /\ UNCHANGED serverVars)
        /\ SF_vars((HandToRadio(p) \/ RadioRefuses(p)) /\ UNCHANGED serverVars)
        /\ SF_vars(StuckRead(p) /\ UNCHANGED serverVars)
        /\ \A m \in Message :
              /\ SF_vars(MarkSending(p, m) /\ UNCHANGED serverVars)
              /\ SF_vars(StuckSettle(p, m) /\ UNCHANGED serverVars)

(* A message handed to the gateway does not stay 'sent' in the log for ever
   while nobody knows: as long as a phone is paired and let in, the sweeps bring
   every message to an outcome. *)
HandedOverSettles ==
    \A m \in Message :
        message_log[m].status = "sent" ~>
            \/ dispatch[m].state \in Settled \/ message_log[m].status = "failed"
            \/ \A p \in Phone : token[p] \notin approved \ revoked

(* A message a phone has stored is not held for ever: sent, refused, or
   reported as lost by the stuck sweep, it gets an outcome on the phone, across
   crashes, unless the server has paused the phone. *)
StoredGetsOutcome ==
    \A p \in Phone, m \in Message :
        row[<<p, m>>].state \in {"QUEUED", "SENDING"} ~>
            row[<<p, m>>].state \in {"SENT", "FAILED"} \/ p \in hushed
=============================================================================
