-------------------------- MODULE SmsGatewayProofs ---------------------------
(***************************************************************************)
(* Theorems about SmsGateway, for every number of phones, devices, calls   *)
(* in flight and messages, every budget, page size and segment count.      *)
(***************************************************************************)
EXTENDS SmsGateway, FiniteSetTheorems, TLAPS

(* The typing facts the step proofs share. *)
LEMMA GotoType ==
    ASSUME request \in [Request -> Exchange], NEW r \in Request, NEW pc \in Steps,
           Goto(r, pc)
    PROVE  request' \in [Request -> Exchange]
  BY DEF Goto, Exchange

LEMMA FreeSlotType == FreeSlot \in Exchange
  BY DEF FreeSlot, Exchange, Kinds, Steps, Answers

LEMMA CallType ==
    ASSUME NEW kind \in Kinds, NEW p \in Phone, NEW d \in Device,
           NEW sent \in SUBSET Message, NEW failed \in SUBSET Message
    PROVE  Call(kind, p, d, sent, failed) \in Exchange
  BY FreeSlotType DEF Call, FreeSlot, Exchange, Kinds, Steps, Answers

LEMMA SweepType ==
    ASSUME ServerTypeOK, Sweep
    PROVE  /\ message_log' \in [Message -> LogRow]
           /\ dispatch' \in [Message -> DispatchRow]
           /\ lapsed' \subseteq Message
           /\ offers' \in [Message -> Nat]
  <1>1. \A m \in Message : SweptDispatch(m) \in DispatchRow
    BY DEF ServerTypeOK, SweptDispatch, DispatchRow
  <1>2. \A m \in Message : SweptLog(m) \in LogRow
    BY DEF ServerTypeOK, SweptLog, LogRow
  <1> QED BY <1>1, <1>2 DEF Sweep, ServerTypeOK

LEMMA HandleType ==
    ASSUME ServerTypeOK, NEW r \in Request, Handle(r) \/ HandlerFails(r)
    PROVE  ServerTypeOK'
  <1>1. CASE Authenticate(r)
    <2>1. FirstStep(r) \in Steps
      BY DEF FirstStep, Steps, Answers
    <2>2. [request[r] EXCEPT !.pc = FirstStep(r),
                             !.paused = IF request[r].device \in paused THEN "yes" ELSE "no"]
             \in Exchange
      BY <2>1 DEF ServerTypeOK, Exchange
    <2>3. request' \in [Request -> Exchange]
      BY <1>1, <2>2 DEF Authenticate, ServerTypeOK
    <2> QED BY <1>1, <2>3 DEF Authenticate, ServerTypeOK, tables, clocks, deviceTable
  <1>2. CASE OutboxSweep(r) \/ HeartbeatBatch(r)
    <2>1. Sweep /\ (Goto(r, "select") \/ Goto(r, "200"))
      BY <1>2 DEF OutboxSweep, HeartbeatBatch
    <2>2. request' \in [Request -> Exchange]
      BY <2>1, GotoType DEF ServerTypeOK, Steps, Answers
    <2> QED BY <1>2, <2>1, <2>2, SweepType
        DEF OutboxSweep, HeartbeatBatch, ServerTypeOK, clocks, deviceTable
  <1>3. CASE OutboxSelect(r)
    <2>1. \A f \in Steps, a \in SUBSET Message, b \in SUBSET Message :
             [request[r] EXCEPT !.pc = f, !.fresh = a, !.again = b] \in Exchange
      BY DEF ServerTypeOK, Exchange
    <2>2. request' \in [Request -> Exchange]
      <3>1. PICK page \in SUBSET Message :
               request' = [request EXCEPT ![r] = [request[r] EXCEPT
                   !.pc = IF page = {} THEN "200" ELSE "claim",
                   !.fresh = {m \in page : dispatch[m].state = "none"},
                   !.again = {m \in page : dispatch[m].state # "none"}]]
        BY <1>3 DEF OutboxSelect, Candidates
      <3>2. (IF page = {} THEN "200" ELSE "claim") \in Steps
        BY DEF Steps, Answers
      <3>3. /\ {m \in page : dispatch[m].state = "none"} \in SUBSET Message
            /\ {m \in page : dispatch[m].state # "none"} \in SUBSET Message
        OBVIOUS
      <3> QED BY <2>1, <3>1, <3>2, <3>3 DEF ServerTypeOK
    <2> QED BY <1>3, <2>2 DEF OutboxSelect, ServerTypeOK, tables, clocks, deviceTable
  <1>4. CASE OutboxClaim(r)
    <2>1. Won(r) \subseteq Message
      BY DEF Won, ServerTypeOK, Exchange
    <2>2. ClaimRows(r, Won(r))
      BY <1>4 DEF OutboxClaim
    <2>3. dispatch' \in [Message -> DispatchRow]
      BY <2>2 DEF ClaimRows, ServerTypeOK, DispatchRow, Exchange
    <2>4. request' \in [Request -> Exchange]
      <3> DEFINE f == IF Won(r) = {} THEN "200" ELSE "bodies"
      <3>2. f \in Steps
        BY DEF Steps, Answers
      <3>1. [request[r] EXCEPT !.pc = f, !.won = Won(r), !.fresh = {}, !.again = {}] \in Exchange
        BY <2>1, <3>2 DEF ServerTypeOK, Exchange
      <3> QED BY <2>2, <3>1 DEF ClaimRows, ServerTypeOK
    <2>5. offers' \in [Message -> Nat] /\ lapsed' \subseteq Message /\ UNCHANGED message_log
      BY <2>2 DEF ClaimRows, ServerTypeOK
    <2> QED BY <1>4, <2>3, <2>4, <2>5 DEF OutboxClaim, ServerTypeOK, clocks, deviceTable
  <1>5. CASE ReceiptsKnown(r)
    <2>1. Goto(r, "apply") \/ Goto(r, "404")
      BY <1>5 DEF ReceiptsKnown
    <2>2. request' \in [Request -> Exchange]
      BY <2>1, GotoType DEF ServerTypeOK, Steps, Answers
    <2> QED BY <1>5, <2>2 DEF ReceiptsKnown, ServerTypeOK, tables, clocks, deviceTable
  <1>6. CASE ReceiptsApply(r)
    <2>1. request' \in [Request -> Exchange]
      BY <1>6, GotoType DEF ReceiptsApply, ServerTypeOK, Steps, Answers
    <2>2. dispatch' \in [Message -> DispatchRow]
      BY <1>6 DEF ReceiptsApply, Receipt, ServerTypeOK, DispatchRow
    <2>3. message_log' \in [Message -> LogRow]
      BY <1>6 DEF ReceiptsApply, ServerTypeOK, LogRow
    <2> QED BY <1>6, <2>1, <2>2, <2>3 DEF ReceiptsApply, ServerTypeOK, clocks, deviceTable
  <1>7. CASE HandlerFails(r) \/ OutboxBodies(r)
    <2>1. request' \in [Request -> Exchange]
      BY <1>7, GotoType DEF HandlerFails, OutboxBodies, ServerTypeOK, Steps, Answers
    <2> QED BY <1>7, <2>1 DEF HandlerFails, OutboxBodies, ServerTypeOK, tables, clocks, deviceTable
  <1> QED BY <1>1, <1>2, <1>3, <1>4, <1>5, <1>6, <1>7 DEF Handle

LEMMA RowTypes ==
    ASSUME NEW old \in Row, NEW ok \in BOOLEAN
    PROVE  /\ Failed(old) \in Row
           /\ PartRecorded(old, ok) \in Row
           /\ Marked(old) \in Row
           /\ Accepted(old) \in Row
           /\ Inserted(old) \in Row
           /\ NoRow \in Row
  <1>1. Counted(old, ok) \in Row
    <2>1. (IF old.pending > 0 THEN old.pending - 1 ELSE 0) \in Nat
      BY DEF Row
    <2>2. (IF ok THEN old.error ELSE "yes") \in {"no", "yes"}
      BY DEF Row
    <2>3. \A n \in Nat, e \in {"no", "yes"} : [old EXCEPT !.pending = n, !.error = e] \in Row
      BY DEF Row
    <2> QED BY <2>1, <2>2, <2>3 DEF Counted
  <1>2. \A x \in Row : \A st \in {"SENT", "FAILED"} : [x EXCEPT !.state = st] \in Row
    BY DEF Row
  <1>3. PartRecorded(old, ok) \in Row
    BY <1>1, <1>2 DEF PartRecorded
  <1> QED BY <1>3, PartsAssumption DEF Failed, Marked, Accepted, Inserted, NoRow, Row

LEMMA RadioTypes ==
    ASSUME NEW log \in RadioLog, NEW ok \in BOOLEAN
    PROVE  /\ Taken(log) \in RadioLog
           /\ log.left > 0 => Reported(log, ok) \in RadioLog
  <1>1. Taken(log) \in RadioLog
    <2>1. log.handed + 1 \in Nat /\ log.left + Parts \in Nat
      BY PartsAssumption DEF RadioLog
    <2>2. \A h, n \in Nat : [log EXCEPT !.handed = h, !.left = n] \in RadioLog
      BY DEF RadioLog
    <2> QED BY <2>1, <2>2 DEF Taken
  <1>2. ASSUME log.left > 0 PROVE Reported(log, ok) \in RadioLog
    <2>1. log.left - 1 \in Nat
      BY <1>2 DEF RadioLog
    <2>2. (IF ok THEN log.good + 1 ELSE log.good) \in Nat
      BY DEF RadioLog
    <2>3. \A n, g \in Nat : [log EXCEPT !.left = n, !.good = g] \in RadioLog
      BY DEF RadioLog
    <2> QED BY <2>1, <2>2, <2>3 DEF Reported
  <1> QED BY <1>1, <1>2

LEMMA LocalType ==
    ASSUME HandsetTypeOK, NEW p \in Phone, Local(p)
    PROVE  HandsetTypeOK'
  <1> USE RowTypes, RadioTypes DEF HandsetTypeOK, pairing, memory
  <1>1. CASE NextQueued(p)
    BY <1>1 DEF NextQueued, InState
  <1>2. ASSUME NEW m \in Message, MarkSending(p, m) PROVE HandsetTypeOK'
    <2>1. row' \in [Phone \X Message -> Row]
      <3>1. row' = row \/ row' = [row EXCEPT ![<<p, m>>] = Marked(row[<<p, m>>])]
        BY <1>2 DEF MarkSending
      <3>2. Marked(row[<<p, m>>]) \in Row
        BY RowTypes
      <3> QED BY <3>1, <3>2
    <2>2. sending' \in [Phone -> Message \cup {NoMessage}]
      BY <1>2 DEF MarkSending
    <2>3. batch' \in [Phone -> SUBSET Message]
      BY <1>2 DEF MarkSending
    <2> QED BY <1>2, <2>1, <2>2, <2>3 DEF MarkSending
  <1>3. CASE HandToRadio(p)
    <2>1. sending[p] \in Message
      BY <1>3 DEF HandToRadio
    <2> QED BY <1>3, <2>1 DEF HandToRadio
  <1>4. CASE RadioRefuses(p)
    <2>1. sending[p] \in Message
      BY <1>4 DEF RadioRefuses
    <2> QED BY <1>4, <2>1 DEF RadioRefuses, Settle
  <1>5. ASSUME NEW m \in Message, ReportBlocked(p, m) PROVE HandsetTypeOK'
    BY <1>5 DEF ReportBlocked, Settle
  <1>6. ASSUME NEW m \in Message, NEW ok \in BOOLEAN, PartResult(p, m, ok) PROVE HandsetTypeOK'
    BY <1>6 DEF PartResult
  <1>7. ASSUME NEW m \in Message, NEW ok \in BOOLEAN, ResultLost(p, m, ok) PROVE HandsetTypeOK'
    BY <1>7 DEF ResultLost
  <1>8. CASE StuckRead(p)
    BY <1>8 DEF StuckRead, InState
  <1>9. ASSUME NEW m \in Message, StuckSettle(p, m) PROVE HandsetTypeOK'
    BY <1>9 DEF StuckSettle, Settle
  <1>10. CASE Crash(p, CallsOf(p)) \/ Restart(p) \/ OperatorUnpairs(p, CallsOf(p))
    BY <1>10 DEF Crash, Restart, OperatorUnpairs, Forget, Unpair
  <1> QED BY <1>1, <1>2, <1>3, <1>4, <1>5, <1>6, <1>7, <1>8, <1>9, <1>10 DEF Local

LEMMA OfficeType ==
    ASSUME ServerTypeOK, Office
    PROVE  ServerTypeOK'
  <1> USE DEF ServerTypeOK, tables, clocks, deviceTable
  <1>1. ASSUME NEW m \in Message, HandOver(m) PROVE ServerTypeOK'
    BY <1>1 DEF HandOver, LogRow
  <1>2. ASSUME NEW m \in Message, LeaseRunsOut(m) \/ WindowCloses(m) PROVE ServerTypeOK'
    BY <1>2 DEF LeaseRunsOut, WindowCloses
  <1>3. ASSUME NEW d \in Device, NEW on \in BOOLEAN, SetPaused(d, on) PROVE ServerTypeOK'
    BY <1>3 DEF SetPaused
  <1>4. ASSUME NEW d \in Device, Approve(d) PROVE ServerTypeOK'
    BY <1>4 DEF Approve
  <1>5. ASSUME NEW d \in Device, Revoke(d) PROVE ServerTypeOK'
    <2>1. \A m \in Message : [dispatch[m] EXCEPT !.state = "queued", !.device = NoDevice]
                                \in DispatchRow
      BY DEF DispatchRow
    <2>2. dispatch' \in [Message -> DispatchRow]
      BY <1>5, <2>1 DEF Revoke
    <2> QED BY <1>5, <2>2 DEF Revoke
  <1> QED BY <1>1, <1>2, <1>3, <1>4, <1>5 DEF Office

LEMMA AnswerType ==
    ASSUME TypeOK, NEW r \in Request, Answer(r)
    PROVE  ServerTypeOK' /\ HandsetTypeOK'
  <1> USE DEF TypeOK, ServerTypeOK, HandsetTypeOK, tables, clocks, deviceTable, pairing, memory
  <1>1. ASSUME NEW S, Answered(r, S)
        PROVE  ServerTypeOK' /\ waiting' \subseteq Request
    BY <1>1, FreeSlotType DEF Answered
  <1>2. ASSUME NEW p, NEW ids, InsertIgnoringKnown(p, ids) \/ MarkReceiptsAccepted(p, ids)
        PROVE  row' \in [Phone \X Message -> Row]
    <2>1. \A x \in Row : Inserted(x) \in Row /\ Accepted(x) \in Row
      BY RowTypes
    <2>2. CASE InsertIgnoringKnown(p, ids)
      BY <2>1, <2>2 DEF InsertIgnoringKnown
    <2>3. CASE MarkReceiptsAccepted(p, ids)
      BY <2>1, <2>3 DEF MarkReceiptsAccepted
    <2> QED BY <1>2, <2>2, <2>3
  <1>3. CASE PollAnswered(r) \/ ReceiptsAnswered(r)
    <2>1. ServerTypeOK' /\ waiting' \subseteq Request
      BY <1>1, <1>3 DEF PollAnswered, ReceiptsAnswered
    <2>2. row' \in [Phone \X Message -> Row]
      BY <1>2, <1>3 DEF PollAnswered, ReceiptsAnswered
    <2> QED BY <1>3, <2>1, <2>2 DEF PollAnswered, ReceiptsAnswered
  <1>4. CASE HeartbeatAnswered(r)
    <2>1. ServerTypeOK' /\ waiting' \subseteq Request
      BY <1>1, <1>4 DEF HeartbeatAnswered
    <2>2. request[r].kind = "heartbeat" /\ request[r].pc = "200"
      BY <1>4 DEF HeartbeatAnswered, Answered
    <2>3. request[r].phone \in Phone
      BY <2>2 DEF CallerKnown
    <2> QED BY <1>4, <2>1, <2>3 DEF HeartbeatAnswered
  <1>5. CASE TokenRefused(r)
    <2>1. ServerTypeOK' /\ waiting' \subseteq Request
      BY <1>1, <1>5 DEF TokenRefused
    <2> QED BY <1>5, <2>1 DEF TokenRefused, Unpair
  <1>6. CASE CallRefused(r)
    <2>1. ServerTypeOK' /\ waiting' \subseteq Request
      BY <1>1, <1>6 DEF CallRefused
    <2> QED BY <1>6, <2>1 DEF CallRefused
  <1>7. CASE GiveUp(r)
    BY <1>7 DEF GiveUp, serverVars
  <1>8. CASE AnswerLost(r)
    BY <1>8, FreeSlotType DEF AnswerLost, handsetVars
  <1> QED BY <1>3, <1>4, <1>5, <1>6, <1>7, <1>8 DEF Answer

LEMMA CallsType ==
    ASSUME TypeOK, NEW p \in Phone, NEW r \in Request, Calls(p, r)
    PROVE  /\ ServerTypeOK' /\ HandsetTypeOK'
           /\ request'[r].phone = p
           /\ \A q \in Request : q # r => request'[q] = request[q]
  <1>1. PICK kind \in Kinds, sent \in SUBSET Message, failed \in SUBSET Message :
           Send(r, Call(kind, p, token[p], sent, failed)) /\ token[p] # NoDevice
    BY DEF Calls, Poll, Heartbeat, FlushReceipts, Due, Kinds
  <1>2. token[p] \in Device
    BY <1>1 DEF TypeOK, HandsetTypeOK
  <1>3. Call(kind, p, token[p], sent, failed) \in Exchange
    BY <1>2, CallType
  <1>4. request' = [request EXCEPT ![r] = Call(kind, p, token[p], sent, failed)]
    BY <1>1 DEF Send
  <1>5. request' \in [Request -> Exchange]
    BY <1>3, <1>4 DEF TypeOK, ServerTypeOK
  <1>6. Call(kind, p, token[p], sent, failed).phone = p
    BY DEF Call, FreeSlot
  <1> QED BY <1>1, <1>4, <1>5, <1>6
      DEF Send, TypeOK, ServerTypeOK, HandsetTypeOK, tables, clocks, deviceTable, pairing, memory

LEMMA EnrolType ==
    ASSUME TypeOK, NEW p \in Phone, NEW d \in Device, Enrol(p, d)
    PROVE  TypeOK'
  <1>1. PICK ok \in BOOLEAN, replaced \in SUBSET Device : AddDevice(d, ok, replaced)
    BY DEF Enrol, TypeOK, ServerTypeOK
  <1>2. ServerTypeOK' /\ UNCHANGED request
    BY <1>1 DEF AddDevice, TypeOK, ServerTypeOK, tables, clocks
  <1>3. HandsetTypeOK'
    BY DEF Enrol, TypeOK, HandsetTypeOK, pairing, memory
  <1> QED BY <1>2, <1>3 DEF TypeOK, CallerKnown

LEMMA PruneType ==
    ASSUME TypeOK, NEW p \in Phone, NEW m \in Message, PruneOld(p, m)
    PROVE  TypeOK'
  <1>1. NoRow \in Row
    BY DEF NoRow, Row
  <1>2. HandsetTypeOK'
    BY <1>1 DEF PruneOld, Prune, TypeOK, HandsetTypeOK, pairing, memory
  <1> QED BY <1>2 DEF PruneOld, TypeOK, ServerTypeOK, CallerKnown, serverVars

(* What a handler never touches: other calls, and who it was called by. *)
LEMMA HandleKeeps ==
    ASSUME ServerTypeOK, NEW r \in Request, Handle(r) \/ HandlerFails(r)
    PROVE  /\ request[r].pc # "free"
           /\ \A q \in Request : q # r => request'[q] = request[q]
           /\ request'[r].phone = request[r].phone
           /\ request'[r].sent = request[r].sent
  <1> USE DEF ServerTypeOK
  <1>1. CASE Authenticate(r)
    BY <1>1 DEF Authenticate, Exchange
  <1>2. ASSUME NEW pc, Goto(r, pc)
        PROVE  /\ \A q \in Request : q # r => request'[q] = request[q]
               /\ request'[r].phone = request[r].phone
               /\ request'[r].sent = request[r].sent
    BY <1>2 DEF Goto, Exchange
  <1>3. CASE OutboxSweep(r) \/ HeartbeatBatch(r) \/ ReceiptsKnown(r) \/ ReceiptsApply(r)
             \/ OutboxBodies(r)
    <2>1. PICK pc : Goto(r, pc)
      BY <1>3 DEF OutboxSweep, HeartbeatBatch, ReceiptsKnown, ReceiptsApply, OutboxBodies
    <2>2. request[r].pc # "free"
      BY <1>3 DEF OutboxSweep, HeartbeatBatch, ReceiptsKnown, ReceiptsApply, OutboxBodies, At
    <2> QED BY <1>2, <2>1, <2>2
  <1>4. CASE OutboxSelect(r)
    BY <1>4 DEF OutboxSelect, At, Exchange
  <1>5. CASE OutboxClaim(r)
    BY <1>5 DEF OutboxClaim, ClaimRows, At, Exchange
  <1>6. CASE HandlerFails(r)
    BY <1>2, <1>6 DEF HandlerFails
  <1> QED BY <1>1, <1>3, <1>4, <1>5, <1>6 DEF Handle

(* Every column of the gateway's tables, every local row and every field of a
   loop keeps its type, for all interleavings of handlers, loops and crashes. *)
LEMMA TypeStep ==
    ASSUME TypeOK, Next
    PROVE  TypeOK'
  <1>1. CASE Office
    <2>1. UNCHANGED <<request, handsetVars>>
      BY <1>1 DEF Office, HandOver, LeaseRunsOut, WindowCloses, SetPaused, Approve, Revoke
    <2> QED BY <1>1, <2>1, OfficeType DEF TypeOK, HandsetTypeOK, CallerKnown, handsetVars
  <1>2. ASSUME NEW r \in Request, Served(r) PROVE TypeOK'
    <2>1. ServerTypeOK' /\ UNCHANGED handsetVars
      BY <1>2, HandleType DEF Served, TypeOK
    <2>2. CallerKnown'
      BY <1>2, HandleKeeps DEF Served, TypeOK, CallerKnown
    <2> QED BY <2>1, <2>2 DEF TypeOK, HandsetTypeOK, handsetVars
  <1>3. ASSUME NEW r \in Request, Answer(r) PROVE TypeOK'
    <2>1. \/ request' = [request EXCEPT ![r] = FreeSlot]
          \/ UNCHANGED request
      BY <1>3 DEF Answer, PollAnswered, ReceiptsAnswered, HeartbeatAnswered, TokenRefused,
                  CallRefused, Answered, GiveUp, AnswerLost, serverVars
    <2>2. CallerKnown'
      BY <2>1 DEF TypeOK, ServerTypeOK, CallerKnown, FreeSlot
    <2> QED BY <1>3, <2>2, AnswerType DEF TypeOK
  <1>4. ASSUME NEW p \in Phone, NEW r \in Request, Calls(p, r) PROVE TypeOK'
    BY <1>4, CallsType DEF TypeOK, CallerKnown
  <1>5. ASSUME NEW p \in Phone, Local(p) PROVE TypeOK'
    <2>1. UNCHANGED serverVars
      BY <1>5 DEF Local
    <2> QED BY <1>5, <2>1, LocalType DEF TypeOK, ServerTypeOK, CallerKnown, serverVars
  <1> QED BY <1>1, <1>2, <1>3, <1>4, <1>5, EnrolType, PruneType DEF Next

LEMMA TypeInit == Init => TypeOK
  <1> SUFFICES ASSUME Init PROVE TypeOK
    OBVIOUS
  <1>1. ServerTypeOK
    BY FreeSlotType DEF Init, ServerInit, ServerTypeOK, LogRow, DispatchRow
  <1>2. HandsetTypeOK
    BY DEF Init, HandsetInit, HandsetTypeOK, Row, NoRow, RadioLog
  <1>3. CallerKnown
    BY DEF Init, ServerInit, CallerKnown, FreeSlot
  <1> QED BY <1>1, <1>2, <1>3 DEF TypeOK

(* The columns and the loops' variables keep their types in every behaviour. *)
THEOREM TypeCorrect == Spec => []TypeOK
  <1>1. TypeOK /\ [Next]_vars => TypeOK'
    <2>1. ASSUME TypeOK, UNCHANGED vars PROVE TypeOK'
      BY <2>1 DEF vars, serverVars, handsetVars, TypeOK, ServerTypeOK, HandsetTypeOK, CallerKnown
    <2> QED BY <2>1, TypeStep
  <1> QED BY <1>1, TypeInit, PTL DEF Spec
=============================================================================
