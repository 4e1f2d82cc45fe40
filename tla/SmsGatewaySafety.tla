-------------------------- MODULE SmsGatewaySafety ---------------------------
(***************************************************************************)
(* GatewayInv is an inductive invariant of SmsGateway, and the safety      *)
(* properties that follow from it.  One lemma per conjunct of GatewayInv;  *)
(* in each, one step per action that can disturb it.  At the end, the      *)
(* proof that SmsGateway implements Courier.                               *)
(***************************************************************************)
EXTENDS SmsGatewayProofs

(* What the groups of actions leave alone. *)
LEMMA LocalFrame == ASSUME NEW p \in Phone, Local(p) PROVE UNCHANGED serverVars
  BY DEF Local

LEMMA AnswerFrame ==
    ASSUME NEW r \in Request, Answer(r)
    PROVE  /\ UNCHANGED <<tables, clocks, deviceTable, radio, sending>>
           /\ request' = [request EXCEPT ![r] = FreeSlot] \/ UNCHANGED request
  BY DEF Answer, PollAnswered, ReceiptsAnswered, HeartbeatAnswered, TokenRefused, CallRefused,
         Answered, GiveUp, AnswerLost, serverVars, handsetVars, tables, clocks, deviceTable, memory

LEMMA CallsFrame ==
    ASSUME NEW p \in Phone, NEW r \in Request, Calls(p, r)
    PROVE  UNCHANGED <<tables, clocks, deviceTable, row, memory, radio>>
  BY DEF Calls, Poll, Heartbeat, FlushReceipts, Send, tables, clocks, deviceTable, memory

LEMMA EnrolFrame ==
    ASSUME NEW p \in Phone, NEW d \in Device, Enrol(p, d)
    PROVE  /\ UNCHANGED <<tables, clocks, request, row, memory, radio>>
           /\ revoked \subseteq revoked'
  BY DEF Enrol, AddDevice, tables, clocks, memory

LEMMA ServedFrame == ASSUME NEW r \in Request, Served(r)
                     PROVE  UNCHANGED <<clocks, deviceTable, handsetVars>>
  BY DEF Served, Handle, HandlerFails, Authenticate, OutboxSweep, OutboxSelect, OutboxClaim,
         OutboxBodies, ReceiptsKnown, ReceiptsApply, HeartbeatBatch, clocks, deviceTable, handsetVars

-----------------------------------------------------------------------------
(* The devices that are revoked can be counted, and the count only grows. *)
LEMMA RevokedCount ==
    ASSUME NEW S \in SUBSET Device, NEW T \in SUBSET Device, S \subseteq T
    PROVE  /\ Cardinality(S) \in Nat /\ Cardinality(T) \in Nat
           /\ Cardinality(S) <= Cardinality(T)
           /\ \A d \in Device \ S : Cardinality(S \cup {d}) = Cardinality(S) + 1
  <1>1. IsFiniteSet(S) /\ IsFiniteSet(T)
    BY FiniteAssumption, FS_Subset
  <1>2. Cardinality(S) \in Nat /\ Cardinality(T) \in Nat
    BY <1>1, FS_CardinalityType
  <1>3. Cardinality(S) <= Cardinality(T)
    BY <1>1, FS_Subset
  <1>4. \A d \in Device \ S : Cardinality(S \cup {d}) = Cardinality(S) + 1
    BY <1>1, FS_AddElement
  <1> QED BY <1>2, <1>3, <1>4

(* What a sweep does to one row of the budget. *)
LEMMA SweptBudget ==
    ASSUME ServerTypeOK, Sweep, NEW b \in Nat, MaxAttempts <= b, NEW m \in Message,
           offers[m] = dispatch[m].attempt,
           dispatch[m].state = "none" => dispatch[m].attempt = 0,
           dispatch[m].attempt <= b,
           dispatch[m].state = "queued" => dispatch[m].attempt + 1 <= b
    PROVE  /\ offers'[m] = dispatch'[m].attempt
           /\ dispatch'[m].state = "none" => dispatch'[m].attempt = 0
           /\ dispatch'[m].attempt <= b
           /\ dispatch'[m].state = "queued" => dispatch'[m].attempt + 1 <= b
  <1>1. dispatch'[m] = SweptDispatch(m) /\ offers'[m] = offers[m]
    BY DEF Sweep
  <1>2. dispatch[m] \in DispatchRow
    BY DEF ServerTypeOK
  <1>3. CASE ~Lapsed(m)
    BY <1>1, <1>3 DEF SweptDispatch
  <1>4. CASE Lapsed(m) /\ dispatch[m].attempt < MaxAttempts
    <2>1. SweptDispatch(m) = [dispatch[m] EXCEPT !.state = "queued", !.device = NoDevice]
      BY <1>4 DEF SweptDispatch
    <2>2. SweptDispatch(m).attempt = dispatch[m].attempt /\ SweptDispatch(m).state = "queued"
      BY <1>2, <2>1 DEF DispatchRow
    <2> QED BY <1>1, <1>2, <1>4, <2>2, BudgetAssumption DEF DispatchRow
  <1>5. CASE Lapsed(m) /\ ~(dispatch[m].attempt < MaxAttempts)
    <2>1. SweptDispatch(m) = [dispatch[m] EXCEPT !.state = "expired"]
      BY <1>5 DEF SweptDispatch
    <2>2. SweptDispatch(m).attempt = dispatch[m].attempt /\ SweptDispatch(m).state = "expired"
      BY <1>2, <2>1 DEF DispatchRow
    <2> QED BY <1>1, <2>2
  <1> QED BY <1>3, <1>4, <1>5

LEMMA BudgetStep ==
    ASSUME TypeOK, BudgetInv, Next
    PROVE  BudgetInv'
  <1> DEFINE b == MaxAttempts + Cardinality(revoked)
             Within(o, x, c) == /\ o = x.attempt
                                /\ x.state = "none" => x.attempt = 0
                                /\ x.attempt <= c
                                /\ x.state = "queued" => x.attempt + 1 <= c
  <1>1. \A m \in Message : Within(offers[m], dispatch[m], b)
    BY DEF BudgetInv
  <1>2. revoked \in SUBSET Device /\ revoked' \in SUBSET Device
    BY TypeStep DEF TypeOK, ServerTypeOK
  <1>3. b \in Nat /\ MaxAttempts <= b /\ Cardinality(revoked) \in Nat
    BY <1>2, RevokedCount, BudgetAssumption
  <1>4. \A m \in Message : dispatch[m] \in DispatchRow /\ offers[m] \in Nat
    BY DEF TypeOK, ServerTypeOK
  <1>5. ASSUME UNCHANGED <<dispatch, offers>>, revoked \subseteq revoked'
        PROVE  BudgetInv'
    <2>1. Cardinality(revoked') \in Nat /\ Cardinality(revoked) <= Cardinality(revoked')
      BY <1>2, <1>5, RevokedCount
    <2> QED BY <1>1, <1>3, <1>4, <1>5, <2>1, BudgetAssumption DEF BudgetInv, DispatchRow
  <1>6. ASSUME \A m \in Message : Within(offers'[m], dispatch'[m], b), UNCHANGED revoked
        PROVE  BudgetInv'
    BY <1>6 DEF BudgetInv
  <1>7. ASSUME NEW d \in Device, Revoke(d) PROVE BudgetInv'
    <2>1. Cardinality(revoked') = Cardinality(revoked) + 1
      BY <1>2, <1>7, RevokedCount DEF Revoke
    <2>2. ASSUME NEW m \in Message
          PROVE  Within(offers'[m], dispatch'[m], b + 1)
      <3>3. offers'[m] = offers[m] /\ dispatch[m].attempt \in Nat
        BY <1>4, <1>7 DEF Revoke, DispatchRow
      <3> HIDE DEF b
      <3>1. CASE Held(m, d)
        <4>1. dispatch'[m] = [dispatch[m] EXCEPT !.state = "queued", !.device = NoDevice]
          BY <1>7, <3>1 DEF Revoke
        <4>2. dispatch'[m].state = "queued" /\ dispatch'[m].attempt = dispatch[m].attempt
          BY <1>4, <4>1 DEF DispatchRow
        <4> QED BY <1>1, <1>3, <3>3, <4>2
      <3>2. CASE ~Held(m, d)
        <4>1. dispatch'[m] = dispatch[m]
          BY <1>7, <3>2 DEF Revoke
        <4> QED BY <1>1, <1>3, <3>3, <4>1
      <3> QED BY <3>1, <3>2
    <2>3. MaxAttempts + Cardinality(revoked') = b + 1
      BY <1>3, <2>1, BudgetAssumption
    <2> QED BY <2>2, <2>3 DEF BudgetInv
  <1>8. CASE Office
    <2>1. ASSUME NEW m \in Message, HandOver(m) \/ LeaseRunsOut(m) \/ WindowCloses(m)
          PROVE  BudgetInv'
      BY <1>5, <2>1 DEF HandOver, LeaseRunsOut, WindowCloses, tables, deviceTable
    <2>2. ASSUME NEW d \in Device, NEW on \in BOOLEAN, SetPaused(d, on) \/ Approve(d)
          PROVE  BudgetInv'
      BY <1>5, <2>2 DEF SetPaused, Approve, tables
    <2> QED BY <1>7, <1>8, <2>1, <2>2 DEF Office
  <1>9. ASSUME NEW r \in Request, Served(r) PROVE BudgetInv'
    <2>1. UNCHANGED revoked
      BY <1>9, ServedFrame DEF deviceTable
    <2>2. CASE OutboxSweep(r) \/ HeartbeatBatch(r)
      <3>1. Sweep
        BY <2>2 DEF OutboxSweep, HeartbeatBatch
      <3>2. \A m \in Message : Within(offers'[m], dispatch'[m], b)
        BY <1>1, <1>3, <3>1, SweptBudget DEF TypeOK
      <3> QED BY <1>6, <2>1, <3>2
    <2>3. CASE OutboxClaim(r)
      <3>1. ASSUME NEW m \in Message PROVE Within(offers'[m], dispatch'[m], b)
        <4>1. CASE m \in Won(r)
          <5>1. /\ dispatch'[m].state = "dispatching"
                /\ dispatch'[m].attempt = dispatch[m].attempt + 1
                /\ offers'[m] = offers[m] + 1
            BY <2>3, <4>1 DEF OutboxClaim, ClaimRows
          <5>2. dispatch[m].state \in {"none", "queued"} \/ dispatch[m].attempt < MaxAttempts
            BY <4>1 DEF Won
          <5>3. dispatch[m].attempt + 1 <= b
            BY <1>1, <1>3, <1>4, <5>2, BudgetAssumption DEF DispatchRow
          <5> QED BY <1>1, <5>1, <5>3
        <4>2. CASE m \notin Won(r)
          BY <1>1, <2>3, <4>2 DEF OutboxClaim, ClaimRows
        <4> QED BY <4>1, <4>2
      <3> QED BY <1>6, <2>1, <3>1
    <2>4. CASE ReceiptsApply(r)
      <3>1. ASSUME NEW m \in Message PROVE Within(offers'[m], dispatch'[m], b)
        <4>1. \/ dispatch'[m] = dispatch[m]
              \/ dispatch'[m] = [dispatch[m] EXCEPT !.state = Receipt(r, m)]
          BY <2>4 DEF ReceiptsApply
        <4>2. Receipt(r, m) \in {"sent", "failed"}
          BY DEF Receipt
        <4>3. \/ dispatch'[m] = dispatch[m]
              \/ dispatch'[m].attempt = dispatch[m].attempt /\ dispatch'[m].state \in {"sent", "failed"}
          BY <1>4, <4>1, <4>2 DEF DispatchRow
        <4> QED BY <1>1, <2>4, <4>3 DEF ReceiptsApply
      <3> QED BY <1>6, <2>1, <3>1
    <2>5. CASE Authenticate(r) \/ OutboxSelect(r) \/ OutboxBodies(r) \/ ReceiptsKnown(r)
               \/ HandlerFails(r)
      BY <1>5, <2>1, <2>5
      DEF Authenticate, OutboxSelect, OutboxBodies, ReceiptsKnown, HandlerFails, tables
    <2> QED BY <1>9, <2>2, <2>3, <2>4, <2>5 DEF Served, Handle
  <1>10. ASSUME NEW r \in Request, Answer(r) PROVE BudgetInv'
    BY <1>5, <1>10, AnswerFrame DEF tables, deviceTable
  <1>11. ASSUME NEW p \in Phone, NEW r \in Request, Calls(p, r) PROVE BudgetInv'
    BY <1>5, <1>11, CallsFrame DEF tables, deviceTable
  <1>12. ASSUME NEW p \in Phone, Local(p) PROVE BudgetInv'
    BY <1>5, <1>12, LocalFrame DEF serverVars
  <1>13. ASSUME NEW p \in Phone, NEW d \in Device, Enrol(p, d) PROVE BudgetInv'
    BY <1>5, <1>13, EnrolFrame DEF tables
  <1>14. ASSUME NEW p \in Phone, NEW m \in Message, PruneOld(p, m) PROVE BudgetInv'
    BY <1>5, <1>14 DEF PruneOld, serverVars
  <1> QED BY <1>8, <1>9, <1>10, <1>11, <1>12, <1>13, <1>14 DEF Next

-----------------------------------------------------------------------------
(* A sweep that expires a row fails it in the log, in the same batch. *)
LEMMA SweptLogged ==
    ASSUME ServerTypeOK, FailedIsLogged, Sweep
    PROVE  FailedIsLogged'
  <1> SUFFICES ASSUME NEW m \in Message, dispatch'[m].state \in {"failed", "expired"}
               PROVE  message_log'[m].status = "failed"
    BY DEF FailedIsLogged
  <1>1. dispatch'[m] = SweptDispatch(m) /\ message_log'[m] = SweptLog(m)
    BY DEF Sweep
  <1>2. dispatch[m] \in DispatchRow
    BY DEF ServerTypeOK
  <1>3. CASE ~Lapsed(m)
    <2>1. message_log[m].status = "failed"
      BY <1>1, <1>3 DEF SweptDispatch, FailedIsLogged
    <2> QED BY <1>1, <1>3, <2>1 DEF SweptLog, Uncollected, Unconfirmed
  <1>4. CASE Lapsed(m) /\ dispatch[m].attempt < MaxAttempts
    <2>1. SweptDispatch(m) = [dispatch[m] EXCEPT !.state = "queued", !.device = NoDevice]
      BY <1>4 DEF SweptDispatch
    <2>2. SweptDispatch(m).state = "queued"
      BY <1>2, <2>1 DEF DispatchRow
    <2> QED BY <1>1, <2>2
  <1>5. CASE Lapsed(m) /\ ~(dispatch[m].attempt < MaxAttempts)
    <2>1. Unconfirmed(m)
      BY <1>2, <1>5, BudgetAssumption DEF Unconfirmed, DispatchRow
    <2> QED BY <1>1, <2>1 DEF SweptLog, Uncollected
  <1> QED BY <1>3, <1>4, <1>5

LEMMA LoggedStep ==
    ASSUME TypeOK, FailedIsLogged, Next
    PROVE  FailedIsLogged'
  <1>1. ASSUME UNCHANGED <<dispatch, message_log>> PROVE FailedIsLogged'
    BY <1>1 DEF FailedIsLogged
  <1>2. \A m \in Message : dispatch[m] \in DispatchRow /\ message_log[m] \in LogRow
    BY DEF TypeOK, ServerTypeOK
  <1>3. CASE Office
    <2>1. ASSUME NEW m \in Message, HandOver(m) PROVE FailedIsLogged'
      <3>1. \A n \in Message : message_log[n].status = "failed" => message_log'[n] = message_log[n]
        BY <2>1, <1>2 DEF HandOver, TypeOK, ServerTypeOK
      <3> QED BY <2>1, <3>1 DEF HandOver, FailedIsLogged
    <2>2. ASSUME NEW m \in Message, LeaseRunsOut(m) \/ WindowCloses(m) PROVE FailedIsLogged'
      BY <1>1, <2>2 DEF LeaseRunsOut, WindowCloses, tables
    <2>3. ASSUME NEW d \in Device, NEW on \in BOOLEAN, SetPaused(d, on) \/ Approve(d)
          PROVE  FailedIsLogged'
      BY <1>1, <2>3 DEF SetPaused, Approve, tables
    <2>4. ASSUME NEW d \in Device, Revoke(d) PROVE FailedIsLogged'
      <3>1. UNCHANGED message_log
        BY <2>4 DEF Revoke
      <3>2. ASSUME NEW m \in Message
            PROVE  dispatch'[m] = dispatch[m] \/ dispatch'[m].state = "queued"
        <4>1. \/ dispatch'[m] = dispatch[m]
              \/ dispatch'[m] = [dispatch[m] EXCEPT !.state = "queued", !.device = NoDevice]
          BY <2>4 DEF Revoke
        <4> QED BY <1>2, <4>1 DEF DispatchRow
      <3> QED BY <3>1, <3>2 DEF FailedIsLogged
    <2> QED BY <1>3, <2>1, <2>2, <2>3, <2>4 DEF Office
  <1>4. ASSUME NEW r \in Request, Served(r) PROVE FailedIsLogged'
    <2>1. CASE OutboxSweep(r) \/ HeartbeatBatch(r)
      BY <2>1, SweptLogged DEF OutboxSweep, HeartbeatBatch, TypeOK
    <2>2. CASE OutboxClaim(r)
      <3>1. \A m \in Message : dispatch'[m] = dispatch[m] \/ dispatch'[m].state = "dispatching"
        BY <2>2 DEF OutboxClaim, ClaimRows
      <3> QED BY <2>2, <3>1 DEF OutboxClaim, ClaimRows, FailedIsLogged
    <2>3. CASE ReceiptsApply(r)
      <3> SUFFICES ASSUME NEW m \in Message, dispatch'[m].state \in {"failed", "expired"}
                   PROVE  message_log'[m].status = "failed"
        BY DEF FailedIsLogged
      <3>1. CASE ~Settles(r, m)
        BY <2>3, <3>1 DEF ReceiptsApply, FailedIsLogged
      <3>2. CASE Settles(r, m)
        <4>1. dispatch'[m] = [dispatch[m] EXCEPT !.state = Receipt(r, m)]
          BY <2>3, <3>2 DEF ReceiptsApply
        <4>2. dispatch'[m].state = Receipt(r, m)
          BY <1>2, <4>1 DEF DispatchRow
        <4>3. Receipt(r, m) = "failed"
          BY <4>2 DEF Receipt
        <4> QED BY <2>3, <3>2, <4>3 DEF ReceiptsApply
      <3> QED BY <3>1, <3>2
    <2>4. CASE Authenticate(r) \/ OutboxSelect(r) \/ OutboxBodies(r) \/ ReceiptsKnown(r)
               \/ HandlerFails(r)
      BY <1>1, <2>4 DEF Authenticate, OutboxSelect, OutboxBodies, ReceiptsKnown, HandlerFails, tables
    <2> QED BY <1>4, <2>1, <2>2, <2>3, <2>4 DEF Served, Handle
  <1>5. ASSUME NEW r \in Request, Answer(r) PROVE FailedIsLogged'
    BY <1>1, <1>5, AnswerFrame DEF tables
  <1>6. ASSUME NEW p \in Phone, NEW r \in Request, Calls(p, r) PROVE FailedIsLogged'
    BY <1>1, <1>6, CallsFrame DEF tables
  <1>7. ASSUME NEW p \in Phone, Local(p) PROVE FailedIsLogged'
    BY <1>1, <1>7, LocalFrame DEF serverVars
  <1>8. ASSUME NEW p \in Phone, NEW d \in Device, Enrol(p, d) PROVE FailedIsLogged'
    BY <1>1, <1>8, EnrolFrame DEF tables
  <1>9. ASSUME NEW p \in Phone, NEW m \in Message, PruneOld(p, m) PROVE FailedIsLogged'
    BY <1>1, <1>9 DEF PruneOld, serverVars
  <1> QED BY <1>3, <1>4, <1>5, <1>6, <1>7, <1>8, <1>9 DEF Next

-----------------------------------------------------------------------------
LEMMA CellUpdate ==
    ASSUME NEW S, NEW f \in [Phone \X Message -> S], NEW p \in Phone, NEW m \in Message, NEW v
    PROVE  \A q \in Phone, n \in Message :
              [f EXCEPT ![<<p, m>>] = v][<<q, n>>] = IF q = p /\ n = m THEN v ELSE f[<<q, n>>]
  OBVIOUS

(* The outcome of one segment, recorded in the row and in the radio together. *)
LEMMA TruthfulPart ==
    ASSUME NEW x \in Row, NEW log \in RadioLog, NEW ok \in BOOLEAN, Truthful(x, log), log.left > 0
    PROVE  /\ Truthful(PartRecorded(x, ok), Reported(log, ok))
           /\ Truthful(x, Reported(log, ok))
           /\ Reported(log, ok).good >= log.good
           /\ Reported(log, ok).handed = log.handed
  <1> DEFINE g == IF ok THEN log.good + 1 ELSE log.good
             n == IF x.pending > 0 THEN x.pending - 1 ELSE 0
             e == IF ok THEN x.error ELSE "yes"
  <1>1. Reported(log, ok).good = g /\ Reported(log, ok).handed = log.handed
    BY DEF Reported, RadioLog
  <1>2. /\ log.good \in Nat /\ x.pending \in Nat /\ g \in Nat /\ n \in Nat /\ g >= log.good
        /\ Parts \in Nat
    BY PartsAssumption DEF RadioLog, Row
  <1>3. Truthful(x, Reported(log, ok))
    BY <1>1, <1>2 DEF Truthful
  <1>4. CASE x.state # "SENDING"
    BY <1>1, <1>2, <1>3, <1>4 DEF PartRecorded
  <1>5. CASE x.state = "SENDING"
    <2>1. /\ Counted(x, ok).pending = n /\ Counted(x, ok).error = e
          /\ Counted(x, ok).state = "SENDING" /\ Counted(x, ok) \in Row
      <3>1. Counted(x, ok) = [x EXCEPT !.pending = n, !.error = e]
        BY DEF Counted
      <3>2. e \in {"no", "yes"}
        BY DEF Row
      <3> QED BY <1>2, <1>5, <3>1, <3>2 DEF Row
    <2>2. e = "no" => g + n >= Parts
      <3>1. SUFFICES ASSUME e = "no" PROVE g + n >= Parts
        OBVIOUS
      <3>2. ok /\ x.error = "no"
        BY <3>1
      <3>3. log.good + x.pending >= Parts /\ g = log.good + 1
        BY <1>5, <3>2 DEF Truthful
      <3> QED BY <1>2, <3>3
    <2>3. CASE n > 0
      <3>1. PartRecorded(x, ok) = Counted(x, ok)
        BY <1>5, <2>1, <2>3 DEF PartRecorded
      <3> QED BY <1>1, <1>2, <1>3, <2>1, <2>2, <3>1 DEF Truthful
    <2>4. CASE ~(n > 0)
      <3>1. n = 0
        BY <1>2, <2>4
      <3>2. PartRecorded(x, ok).state = IF e = "no" THEN "SENT" ELSE "FAILED"
        BY <1>5, <2>1, <2>4 DEF PartRecorded, Row
      <3>3. e = "no" => g >= Parts
        BY <1>2, <2>2, <3>1
      <3> QED BY <1>1, <1>2, <1>3, <3>2, <3>3 DEF Truthful
    <2> QED BY <2>3, <2>4
  <1> QED BY <1>4, <1>5

LEMMA TruthfulRows ==
    ASSUME NEW x \in Row, NEW log \in RadioLog, Truthful(x, log)
    PROVE  /\ Truthful(Failed(x), log)
           /\ Truthful(Marked(x), log)
           /\ Truthful(Accepted(x), log)
           /\ Truthful(Inserted(x), log)
           /\ Truthful(NoRow, log)
           /\ Truthful(x, Taken(log))
           /\ Taken(log).good = log.good
  <1>1. Failed(x) = x \/ Failed(x).state = "FAILED"
    BY DEF Failed, Row
  <1>2. /\ Marked(x).state = "SENDING"
        /\ Marked(x).pending = Parts
        /\ log.good \in Nat
    BY DEF Marked, Row, RadioLog
  <1>3. \/ Inserted(x) = x
        \/ Inserted(x).state = "QUEUED"
    BY DEF Inserted, NoRow
  <1>4. Taken(log).good = log.good
    BY DEF Taken, RadioLog
  <1>5. /\ Accepted(x).state = x.state
        /\ Accepted(x).error = x.error
        /\ Accepted(x).pending = x.pending
    BY DEF Accepted, Row
  <1>6. NoRow.state = "none"
    BY DEF NoRow
  <1> QED BY <1>1, <1>2, <1>3, <1>4, <1>5, <1>6, PartsAssumption DEF Truthful

LEMMA LocalTruth ==
    ASSUME TypeOK, TruthInv, NEW p \in Phone, Local(p), NEW q \in Phone, NEW n \in Message
    PROVE  /\ Truthful(row'[<<q, n>>], radio'[<<q, n>>])
           /\ radio'[<<q, n>>].good >= radio[<<q, n>>].good
  <1> DEFINE Goal == /\ Truthful(row'[<<q, n>>], radio'[<<q, n>>])
                     /\ radio'[<<q, n>>].good >= radio[<<q, n>>].good
  <1>1. /\ row \in [Phone \X Message -> Row] /\ row[<<q, n>>] \in Row
        /\ radio \in [Phone \X Message -> RadioLog] /\ radio[<<q, n>>] \in RadioLog
        /\ radio[<<q, n>>].good \in Nat
    BY DEF TypeOK, HandsetTypeOK, RadioLog
  <1>2. Truthful(row[<<q, n>>], radio[<<q, n>>])
    BY DEF TruthInv
  <1> DEFINE x == row[<<q, n>>]
             log == radio[<<q, n>>]
  <1>12. /\ Truthful(Failed(x), log)
         /\ Truthful(Marked(x), log)
         /\ Truthful(x, Taken(log)) /\ Taken(log).good = log.good
         /\ log.good >= log.good
    BY <1>1, <1>2, TruthfulRows
  <1>3. CASE UNCHANGED <<row, radio>>
    BY <1>1, <1>2, <1>3
  <1>4. CASE UNCHANGED radio /\ \E m \in Message : Settle(p, m)
    <2>1. row'[<<q, n>>] = row[<<q, n>>] \/ row'[<<q, n>>] = Failed(row[<<q, n>>])
      BY <1>1, <1>4, CellUpdate DEF Settle
    <2> QED BY <1>2, <1>4, <1>12, <2>1
  <1>5. ASSUME NEW m \in Message, MarkSending(p, m) PROVE Goal
    <2>1. \/ row'[<<q, n>>] = row[<<q, n>>]
          \/ row'[<<q, n>>] = Marked(row[<<q, n>>])
      <3>1. \/ row' = row
            \/ row' = [row EXCEPT ![<<p, m>>] = Marked(row[<<p, m>>])]
        BY <1>5 DEF MarkSending
      <3> QED BY <1>1, <3>1, CellUpdate
    <2>2. UNCHANGED radio
      BY <1>5 DEF MarkSending
    <2> QED BY <1>2, <1>12, <2>1, <2>2
  <1>6. CASE HandToRadio(p)
    <2>1. sending[p] \in Message
      BY <1>6 DEF HandToRadio, TypeOK, HandsetTypeOK
    <2>2. radio'[<<q, n>>] = radio[<<q, n>>] \/ radio'[<<q, n>>] = Taken(radio[<<q, n>>])
      BY <1>1, <1>6, <2>1, CellUpdate DEF HandToRadio
    <2>3. UNCHANGED row
      BY <1>6 DEF HandToRadio
    <2> QED BY <1>2, <1>12, <2>2, <2>3
  <1>7. ASSUME NEW m \in Message, NEW ok \in BOOLEAN, PartResult(p, m, ok) PROVE Goal
    <2>1. CASE q = p /\ n = m
      <3>1. /\ row'[<<q, n>>] = PartRecorded(row[<<q, n>>], ok)
            /\ radio'[<<q, n>>] = Reported(radio[<<q, n>>], ok)
            /\ radio[<<q, n>>].left > 0
        BY <1>1, <1>7, <2>1, CellUpdate DEF PartResult
      <3> QED BY <1>1, <1>2, <3>1, TruthfulPart
    <2>2. CASE ~(q = p /\ n = m)
      <3>1. row'[<<q, n>>] = row[<<q, n>>] /\ radio'[<<q, n>>] = radio[<<q, n>>]
        BY <1>1, <1>7, <2>2, CellUpdate DEF PartResult
      <3> QED BY <1>1, <1>2, <3>1
    <2> QED BY <2>1, <2>2
  <1>8. ASSUME NEW m \in Message, NEW ok \in BOOLEAN, ResultLost(p, m, ok) PROVE Goal
    <2>1. CASE q = p /\ n = m
      <3>1. /\ row'[<<q, n>>] = row[<<q, n>>]
            /\ radio'[<<q, n>>] = Reported(radio[<<q, n>>], ok)
            /\ radio[<<q, n>>].left > 0
        BY <1>1, <1>8, <2>1, CellUpdate DEF ResultLost
      <3> QED BY <1>1, <1>2, <3>1, TruthfulPart
    <2>2. CASE ~(q = p /\ n = m)
      <3>1. row'[<<q, n>>] = row[<<q, n>>] /\ radio'[<<q, n>>] = radio[<<q, n>>]
        BY <1>1, <1>8, <2>2, CellUpdate DEF ResultLost
      <3> QED BY <1>1, <1>2, <3>1
    <2> QED BY <2>1, <2>2
  <1>9. CASE NextQueued(p) \/ StuckRead(p) \/ Crash(p, CallsOf(p)) \/ Restart(p)
             \/ OperatorUnpairs(p, CallsOf(p))
    BY <1>3, <1>9 DEF NextQueued, StuckRead, Crash, Restart, OperatorUnpairs
  <1>10. CASE RadioRefuses(p)
    BY <1>4, <1>10 DEF RadioRefuses, TypeOK, HandsetTypeOK
  <1>11. ASSUME NEW m \in Message, ReportBlocked(p, m) \/ StuckSettle(p, m) PROVE Goal
    BY <1>4, <1>11 DEF ReportBlocked, StuckSettle
  <1> QED BY <1>5, <1>6, <1>7, <1>8, <1>9, <1>10, <1>11 DEF Local

LEMMA TruthStep ==
    ASSUME TypeOK, TruthInv, Next
    PROVE  TruthInv'
  <1> DEFINE Gone(m) == \E p \in Phone : radio[<<p, m>>].good >= Parts
             Rows == \A p \in Phone, m \in Message : Truthful(row[<<p, m>>], radio[<<p, m>>])
             Wire == \A r \in Request : \A m \in request[r].sent : Gone(m)
  <1>1. Rows /\ Wire /\ SentIsTrue
    BY DEF TruthInv
  <1>2. /\ \A p \in Phone, m \in Message : row[<<p, m>>] \in Row /\ radio[<<p, m>>] \in RadioLog
        /\ \A m \in Message : dispatch[m] \in DispatchRow
        /\ \A r \in Request : request[r].sent \subseteq Message
    BY DEF TypeOK, ServerTypeOK, HandsetTypeOK, Exchange
  <1>3. SUFFICES Rows' /\ Wire' /\ SentIsTrue'
    BY DEF TruthInv
  <1>4. ASSUME UNCHANGED <<row, radio>>,
               \A r \in Request : request'[r].sent = request[r].sent \/ request'[r].sent = {},
               \A m \in Message : dispatch'[m].state = "sent" => dispatch[m].state = "sent"
        PROVE  Rows' /\ Wire' /\ SentIsTrue'
    BY <1>1, <1>4 DEF SentIsTrue
  <1>5. CASE Office
    <2>1. UNCHANGED <<row, radio, request>>
      BY <1>5 DEF Office, handsetVars, HandOver, LeaseRunsOut, WindowCloses, SetPaused, Approve,
                  Revoke
    <2>2. ASSUME NEW d \in Device, Revoke(d), NEW m \in Message, dispatch'[m].state = "sent"
          PROVE  dispatch[m].state = "sent"
      <3>1. \/ dispatch'[m] = dispatch[m]
            \/ dispatch'[m] = [dispatch[m] EXCEPT !.state = "queued", !.device = NoDevice]
        BY <2>2 DEF Revoke
      <3> QED BY <1>2, <2>2, <3>1 DEF DispatchRow
    <2>3. \A m \in Message : dispatch'[m].state = "sent" => dispatch[m].state = "sent"
      BY <1>5, <2>2 DEF Office, HandOver, LeaseRunsOut, WindowCloses, SetPaused, Approve, tables
    <2> QED BY <1>4, <2>1, <2>3
  <1>6. ASSUME NEW r \in Request, Served(r) PROVE Rows' /\ Wire' /\ SentIsTrue'
    <2>1. UNCHANGED <<row, radio>> /\ \A q \in Request : request'[q].sent = request[q].sent
      BY <1>6, ServedFrame, HandleKeeps DEF Served, handsetVars, TypeOK
    <2>2. CASE ReceiptsApply(r)
      <3>1. ASSUME NEW m \in Message, dispatch'[m].state = "sent" PROVE Gone(m)
        <4>1. CASE ~Settles(r, m)
          BY <1>1, <2>2, <3>1, <4>1 DEF ReceiptsApply, SentIsTrue
        <4>2. CASE Settles(r, m)
          <5>1. dispatch'[m] = [dispatch[m] EXCEPT !.state = Receipt(r, m)]
            BY <2>2, <4>2 DEF ReceiptsApply
          <5>2. Receipt(r, m) = "sent"
            BY <1>2, <3>1, <5>1 DEF DispatchRow
          <5> QED BY <1>1, <5>2 DEF Receipt
        <4> QED BY <4>1, <4>2
      <3> QED BY <1>1, <2>1, <3>1 DEF SentIsTrue
    <2>3. CASE OutboxSweep(r) \/ HeartbeatBatch(r)
      <3>1. ASSUME NEW m \in Message, dispatch'[m].state = "sent" PROVE dispatch[m].state = "sent"
        <4>1. dispatch'[m] = SweptDispatch(m)
          BY <2>3 DEF OutboxSweep, HeartbeatBatch, Sweep
        <4>2. \/ SweptDispatch(m) = dispatch[m]
              \/ SweptDispatch(m) = [dispatch[m] EXCEPT !.state = "queued", !.device = NoDevice]
              \/ SweptDispatch(m) = [dispatch[m] EXCEPT !.state = "expired"]
          BY DEF SweptDispatch
        <4> QED BY <1>2, <3>1, <4>1, <4>2 DEF DispatchRow
      <3> QED BY <1>4, <2>1, <3>1
    <2>4. CASE OutboxClaim(r)
      <3>1. \A m \in Message : dispatch'[m] = dispatch[m] \/ dispatch'[m].state = "dispatching"
        BY <2>4 DEF OutboxClaim, ClaimRows
      <3> QED BY <1>4, <2>1, <3>1
    <2>5. CASE Authenticate(r) \/ OutboxSelect(r) \/ OutboxBodies(r) \/ ReceiptsKnown(r)
               \/ HandlerFails(r)
      <3>1. UNCHANGED dispatch
        BY <2>5 DEF Authenticate, OutboxSelect, OutboxBodies, ReceiptsKnown, HandlerFails, tables
      <3> QED BY <1>4, <2>1, <3>1
    <2> QED BY <1>6, <2>2, <2>3, <2>4, <2>5 DEF Served, Handle
  <1>7. ASSUME NEW r \in Request, Answer(r) PROVE Rows' /\ Wire' /\ SentIsTrue'
    <2>1. UNCHANGED <<dispatch, radio>>
      BY <1>7, AnswerFrame DEF tables
    <2>2. \A q \in Request : request'[q].sent = request[q].sent \/ request'[q].sent = {}
      BY <1>7, AnswerFrame DEF FreeSlot, TypeOK, ServerTypeOK
    <2>3. ASSUME NEW p \in Phone, NEW m \in Message
          PROVE  \/ row'[<<p, m>>] = row[<<p, m>>]
                 \/ row'[<<p, m>>] = Inserted(row[<<p, m>>])
                 \/ row'[<<p, m>>] = Accepted(row[<<p, m>>])
      <3>1. CASE PollAnswered(r)
        BY <3>1 DEF PollAnswered, InsertIgnoringKnown
      <3>2. CASE ReceiptsAnswered(r)
        BY <3>2 DEF ReceiptsAnswered, MarkReceiptsAccepted
      <3>3. CASE UNCHANGED row
        BY <3>3
      <3> QED BY <1>7, <3>1, <3>2, <3>3 DEF Answer, HeartbeatAnswered, TokenRefused, CallRefused,
                                            GiveUp, AnswerLost, handsetVars
    <2>4. Rows'
      <3>1. ASSUME NEW p \in Phone, NEW m \in Message
            PROVE  Truthful(row'[<<p, m>>], radio'[<<p, m>>])
        <4>1. /\ Truthful(row[<<p, m>>], radio[<<p, m>>])
              /\ Truthful(Inserted(row[<<p, m>>]), radio[<<p, m>>])
              /\ Truthful(Accepted(row[<<p, m>>]), radio[<<p, m>>])
          BY <1>1, <1>2, TruthfulRows
        <4> QED BY <2>1, <2>3, <4>1
      <3> QED BY <3>1
    <2> QED BY <1>1, <2>1, <2>2, <2>4 DEF SentIsTrue
  <1>8. ASSUME NEW p \in Phone, NEW r \in Request, Calls(p, r) PROVE Rows' /\ Wire' /\ SentIsTrue'
    <2>1. UNCHANGED <<dispatch, row, radio>>
      BY <1>8, CallsFrame DEF tables
    <2>2. \A q \in Request : q # r => request'[q] = request[q]
      BY <1>8, CallsType
    <2>3. PICK kind, sent, failed : /\ Send(r, Call(kind, p, token[p], sent, failed))
                                   /\ \A m \in sent : m \in Message /\ row[<<p, m>>].state = "SENT"
      <3>1. CASE Poll(p, r)
        BY <3>1 DEF Poll
      <3>2. CASE Heartbeat(p, r)
        BY <3>2 DEF Heartbeat
      <3>3. CASE FlushReceipts(p, r)
        <4>1. PICK ids \in SUBSET Due(p) :
                 Send(r, Call("receipts", p, token[p], {m \in ids : row[<<p, m>>].state = "SENT"},
                                                       {m \in ids : row[<<p, m>>].state = "FAILED"}))
          BY <3>3 DEF FlushReceipts
        <4>2. \A m \in {i \in ids : row[<<p, i>>].state = "SENT"} :
                 m \in Message /\ row[<<p, m>>].state = "SENT"
          BY DEF Due
        <4> QED BY <4>1, <4>2
      <3> QED BY <1>8, <3>1, <3>2, <3>3 DEF Calls
    <2>4. request'[r].sent = sent
      BY <2>3 DEF Send, Call, FreeSlot, TypeOK, ServerTypeOK
    <2>5. \A m \in sent : Gone(m)
      BY <1>1, <2>3 DEF Truthful
    <2> QED BY <1>1, <2>1, <2>2, <2>4, <2>5 DEF SentIsTrue
  <1>9. ASSUME NEW p \in Phone, Local(p) PROVE Rows' /\ Wire' /\ SentIsTrue'
    <2>1. UNCHANGED <<dispatch, request>>
      BY <1>9, LocalFrame DEF serverVars
    <2>2. \A q \in Phone, n \in Message : /\ Truthful(row'[<<q, n>>], radio'[<<q, n>>])
                                          /\ radio'[<<q, n>>].good >= radio[<<q, n>>].good
      BY <1>9, LocalTruth
    <2>3. \A q \in Phone, n \in Message :
             radio'[<<q, n>>].good \in Nat /\ radio[<<q, n>>].good \in Nat
      BY TypeStep DEF TypeOK, HandsetTypeOK, RadioLog
    <2>4. \A m \in Message : Gone(m) => Gone(m)'
      BY <2>2, <2>3, PartsAssumption
    <2> QED BY <1>1, <1>2, <2>1, <2>2, <2>4 DEF SentIsTrue
  <1>10. ASSUME NEW p \in Phone, NEW d \in Device, Enrol(p, d) PROVE Rows' /\ Wire' /\ SentIsTrue'
    BY <1>4, <1>10, EnrolFrame DEF tables
  <1>11. ASSUME NEW p \in Phone, NEW m \in Message, PruneOld(p, m) PROVE Rows' /\ Wire' /\ SentIsTrue'
    <2>1. UNCHANGED <<dispatch, request, radio>>
      BY <1>11 DEF PruneOld, Prune, serverVars
    <2>2. \A q \in Phone, n \in Message :
             row'[<<q, n>>] = row[<<q, n>>] \/ row'[<<q, n>>] = NoRow
      BY <1>11, CellUpdate DEF PruneOld, Prune, TypeOK, HandsetTypeOK
    <2> QED BY <1>1, <1>2, <2>1, <2>2, TruthfulRows DEF SentIsTrue
  <1> QED BY <1>5, <1>6, <1>7, <1>8, <1>9, <1>10, <1>11 DEF Next

-----------------------------------------------------------------------------
(* Once a message is past its window and in no call of a phone, it is never
   offered to that phone again. *)
LEMMA AbsentStep ==
    ASSUME TypeOK, Next, NEW p \in Phone, NEW m \in closed,
           \A r \in Request : request[r].phone = p => m \notin Offered(r)
    PROVE  m \in closed' /\ \A r \in Request : request'[r].phone = p => m \notin Offered(r)'
  <1> DEFINE Goal == m \in closed' /\ \A r \in Request : request'[r].phone = p => m \notin Offered(r)'
  <1> USE DEF Offered
  <1>1. ASSUME UNCHANGED request, closed \subseteq closed' PROVE Goal
    BY <1>1
  <1>2. ASSUME UNCHANGED closed, NEW r \in Request,
               \A q \in Request : q # r => request'[q] = request[q],
               request'[r].phone = p => m \notin Offered(r)'
        PROVE  Goal
    BY <1>2
  <1>3. request \in [Request -> Exchange]
    BY DEF TypeOK, ServerTypeOK
  <1>4. CASE Office
    BY <1>1, <1>4 DEF Office, HandOver, LeaseRunsOut, WindowCloses, SetPaused, Approve, Revoke,
                      clocks
  <1>5. ASSUME NEW r \in Request, Served(r) PROVE Goal
    <2>1. /\ UNCHANGED closed
          /\ \A q \in Request : q # r => request'[q] = request[q]
          /\ request'[r].phone = request[r].phone
      BY <1>5, ServedFrame, HandleKeeps DEF Served, TypeOK, clocks
    <2>2. ASSUME NEW pc, Goto(r, pc) PROVE Offered(r)' = Offered(r)
      BY <1>3, <2>2 DEF Goto, Exchange
    <2>3. CASE Authenticate(r)
      <3>1. Offered(r)' = Offered(r)
        BY <1>3, <2>3 DEF Authenticate, Exchange
      <3> QED BY <1>2, <2>1, <3>1
    <2>4. CASE OutboxSweep(r) \/ HeartbeatBatch(r) \/ ReceiptsKnown(r) \/ ReceiptsApply(r)
               \/ OutboxBodies(r) \/ HandlerFails(r)
      <3>1. Offered(r)' = Offered(r)
        BY <2>2, <2>4 DEF OutboxSweep, HeartbeatBatch, ReceiptsKnown, ReceiptsApply, OutboxBodies,
                          HandlerFails
      <3> QED BY <1>2, <2>1, <3>1
    <2>5. CASE OutboxSelect(r)
      <3>1. /\ request'[r].fresh \subseteq Candidates /\ request'[r].again \subseteq Candidates
            /\ request'[r].won = request[r].won
        BY <1>3, <2>5 DEF OutboxSelect, Exchange
      <3>2. m \notin Candidates
        BY DEF Candidates
      <3> QED BY <1>2, <2>1, <3>1, <3>2
    <2>6. CASE OutboxClaim(r)
      <3>1. /\ request'[r].fresh = {} /\ request'[r].again = {}
            /\ request'[r].won \subseteq Offered(r)
        BY <1>3, <2>6 DEF OutboxClaim, ClaimRows, Won, Exchange
      <3> QED BY <1>2, <2>1, <3>1
    <2> QED BY <1>5, <2>3, <2>4, <2>5, <2>6 DEF Served, Handle
  <1>6. ASSUME NEW r \in Request, Answer(r) PROVE Goal
    <2>1. UNCHANGED closed /\ (request' = [request EXCEPT ![r] = FreeSlot] \/ UNCHANGED request)
      BY <1>6, AnswerFrame DEF clocks
    <2> QED BY <1>1, <1>2, <1>3, <2>1 DEF FreeSlot
  <1>7. ASSUME NEW q \in Phone, NEW r \in Request, Calls(q, r) PROVE Goal
    <2>1. UNCHANGED closed
      BY <1>7, CallsFrame DEF clocks
    <2>2. \A c \in Request : c # r => request'[c] = request[c]
      BY <1>7, CallsType
    <2>3. PICK kind, sent, failed : Send(r, Call(kind, q, token[q], sent, failed))
      BY <1>7 DEF Calls, Poll, Heartbeat, FlushReceipts
    <2>4. Offered(r)' = {}
      BY <1>3, <2>3 DEF Send, Call, FreeSlot
    <2> QED BY <1>2, <2>1, <2>2, <2>4
  <1>8. ASSUME NEW q \in Phone, Local(q) PROVE Goal
    BY <1>1, <1>8, LocalFrame DEF serverVars
  <1>9. ASSUME NEW q \in Phone, NEW d \in Device, Enrol(q, d) PROVE Goal
    BY <1>1, <1>9, EnrolFrame DEF clocks
  <1>10. ASSUME NEW q \in Phone, NEW n \in Message, PruneOld(q, n) PROVE Goal
    BY <1>1, <1>10 DEF PruneOld, serverVars
  <1> QED BY <1>4, <1>5, <1>6, <1>7, <1>8, <1>9, <1>10 DEF Next

LEMMA OnceStep ==
    ASSUME TypeOK, OnceInv, Next
    PROVE  OnceInv'
  <1> SUFFICES ASSUME NEW p \in Phone, NEW m \in Message
               PROVE  /\ radio'[<<p, m>>].handed <= 1
                      /\ row'[<<p, m>>].state = "QUEUED" => radio'[<<p, m>>].handed = 0
                      /\ sending'[p] = m => /\ radio'[<<p, m>>].handed = 0
                                            /\ row'[<<p, m>>].state \notin {"none", "QUEUED"}
                      /\ row'[<<p, m>>].state = "none" /\ radio'[<<p, m>>].handed > 0 =>
                            /\ m \in closed'
                            /\ \A r \in Request : request'[r].phone = p => m \notin Offered(r)'
    BY DEF OnceInv, CallsOf
  <1> DEFINE x == row[<<p, m>>]
             log == radio[<<p, m>>]
             Absent == m \in closed /\ \A r \in Request : request[r].phone = p => m \notin Offered(r)
             Once(y, l, s) == /\ l.handed <= 1
                              /\ y.state = "QUEUED" => l.handed = 0
                              /\ s = m => l.handed = 0 /\ y.state \notin {"none", "QUEUED"}
  <1>1. Once(x, log, sending[p]) /\ (x.state = "none" /\ log.handed > 0 => Absent)
    BY DEF OnceInv, CallsOf
  <1>2. /\ row \in [Phone \X Message -> Row] /\ x \in Row
        /\ radio \in [Phone \X Message -> RadioLog] /\ log \in RadioLog /\ log.handed \in Nat
        /\ sending \in [Phone -> Message \cup {NoMessage}]
    BY DEF TypeOK, HandsetTypeOK, RadioLog
  <1>3. Absent => Absent'
    BY AbsentStep
  <1>4. SUFFICES /\ Once(row'[<<p, m>>], radio'[<<p, m>>], sending'[p])
                 /\ row'[<<p, m>>].state = "none" /\ radio'[<<p, m>>].handed > 0 => Absent'
    OBVIOUS
  <1> DEFINE Goal == /\ Once(row'[<<p, m>>], radio'[<<p, m>>], sending'[p])
                     /\ row'[<<p, m>>].state = "none" /\ radio'[<<p, m>>].handed > 0 => Absent'
  (* The row moves on within the states past QUEUED, or not at all. *)
  <1>5. ASSUME radio'[<<p, m>>].handed = log.handed,
               sending'[p] = m => sending[p] = m,
               \/ row'[<<p, m>>].state = x.state
               \/ row'[<<p, m>>].state \notin {"none", "QUEUED"}
        PROVE  Goal
    BY <1>1, <1>2, <1>3, <1>5
  <1>6. CASE UNCHANGED <<row, radio, sending>>
    BY <1>5, <1>6
  <1>7. ASSUME NEW r \in Request, Answer(r) PROVE Goal
    <2>1. UNCHANGED <<radio, sending>>
      BY <1>7, AnswerFrame
    <2>2. CASE PollAnswered(r)
      <3>1. CASE request[r].phone = p /\ m \in request[r].won /\ x.state = "none"
        <4>1. row'[<<p, m>>].state = "QUEUED"
          BY <2>2, <3>1 DEF PollAnswered, InsertIgnoringKnown, Inserted, NoRow
        <4>2. ~Absent
          BY <3>1 DEF Offered
        <4>3. log.handed = 0
          BY <1>1, <1>2, <3>1, <4>2
        <4>4. sending[p] # m
          BY <1>1, <3>1
        <4> QED BY <2>1, <4>1, <4>3, <4>4
      <3>2. CASE ~(request[r].phone = p /\ m \in request[r].won /\ x.state = "none")
        <4>1. row'[<<p, m>>] = x
          BY <2>2, <3>2 DEF PollAnswered, InsertIgnoringKnown, Inserted
        <4> QED BY <1>5, <2>1, <4>1
      <3> QED BY <3>1, <3>2
    <2>3. CASE ReceiptsAnswered(r)
      <3>1. row'[<<p, m>>] = x \/ row'[<<p, m>>] = Accepted(x)
        BY <2>3 DEF ReceiptsAnswered, MarkReceiptsAccepted
      <3>2. Accepted(x).state = x.state
        BY <1>2 DEF Accepted, Row
      <3> QED BY <1>5, <2>1, <3>1, <3>2
    <2>4. CASE UNCHANGED row
      BY <1>6, <2>1, <2>4
    <2> QED BY <1>7, <2>2, <2>3, <2>4 DEF Answer, HeartbeatAnswered, TokenRefused, CallRefused,
                                          GiveUp, AnswerLost, handsetVars
  <1>8. ASSUME NEW q \in Phone, NEW n \in Message, PruneOld(q, n) PROVE Goal
    <2>1. UNCHANGED <<radio, sending>>
      BY <1>8 DEF PruneOld, Prune, memory
    <2>2. CASE q = p /\ n = m
      <3>1. Absent /\ sending[p] # m
        BY <1>8, <2>2 DEF PruneOld, Prune, CallsOf
      <3>2. row'[<<p, m>>].state = "none"
        BY <1>2, <1>8, <2>2, CellUpdate DEF PruneOld, Prune, NoRow
      <3> QED BY <1>1, <1>3, <2>1, <3>1, <3>2
    <2>3. CASE ~(q = p /\ n = m)
      <3>1. row'[<<p, m>>] = x
        BY <1>2, <1>8, <2>3, CellUpdate DEF PruneOld, Prune
      <3> QED BY <1>5, <2>1, <3>1
    <2> QED BY <2>2, <2>3
  <1>9. ASSUME NEW q \in Phone, Local(q) PROVE Goal
    <2>1. ASSUME NEW n \in Message, Settle(q, n), UNCHANGED radio,
                 sending'[p] = m => sending[p] = m
          PROVE  Goal
      <3>1. row'[<<p, m>>] = x \/ row'[<<p, m>>] = Failed(x)
        BY <1>2, <2>1, CellUpdate DEF Settle
      <3>2. Failed(x) = x \/ Failed(x).state = "FAILED"
        BY <1>2 DEF Failed, Row
      <3> QED BY <1>5, <2>1, <3>1, <3>2
    <2>2. ASSUME NEW n \in Message, MarkSending(q, n) PROVE Goal
      <3>1. CASE q = p /\ n = m /\ x.state = "QUEUED"
        <4>1. row'[<<p, m>>] = Marked(x) /\ UNCHANGED radio
          BY <1>2, <2>2, <3>1, CellUpdate DEF MarkSending
        <4>2. row'[<<p, m>>].state = "SENDING"
          BY <1>2, <4>1 DEF Marked, Row
        <4> QED BY <1>1, <1>2, <3>1, <4>1, <4>2
      <3>2. CASE ~(q = p /\ n = m /\ x.state = "QUEUED")
        <4>1. row'[<<p, m>>] = x
          <5>1. \/ row' = row
                \/ /\ row[<<q, n>>].state = "QUEUED"
                   /\ row' = [row EXCEPT ![<<q, n>>] = Marked(row[<<q, n>>])]
            BY <2>2 DEF MarkSending
          <5> QED BY <1>2, <3>2, <5>1, CellUpdate
        <4>2. sending'[p] = m => sending[p] = m
          <5>1. \/ sending' = sending
                \/ row[<<q, n>>].state = "QUEUED" /\ sending' = [sending EXCEPT ![q] = n]
            BY <2>2 DEF MarkSending
          <5> QED BY <1>2, <3>2, <5>1
        <4> QED BY <1>5, <2>2, <4>1, <4>2 DEF MarkSending
      <3> QED BY <3>1, <3>2
    <2>3. CASE HandToRadio(q)
      <3>1. sending[q] \in Message /\ UNCHANGED row
        BY <1>2, <2>3 DEF HandToRadio
      <3>2. sending'[p] = m => q # p /\ sending[p] = m
        BY <1>2, <2>3, SentinelAssumption DEF HandToRadio
      <3>3. CASE q = p /\ sending[q] = m
        <4>1. radio'[<<p, m>>] = Taken(log)
          BY <1>2, <2>3, <3>1, <3>3, CellUpdate DEF HandToRadio
        <4>2. radio'[<<p, m>>].handed = log.handed + 1
          BY <1>2, <4>1 DEF Taken, RadioLog
        <4> QED BY <1>1, <1>2, <3>1, <3>2, <3>3, <4>2
      <3>4. CASE ~(q = p /\ sending[q] = m)
        <4>1. radio'[<<p, m>>] = log
          BY <1>2, <2>3, <3>1, <3>4, CellUpdate DEF HandToRadio
        <4> QED BY <1>5, <3>1, <3>2, <4>1
      <3> QED BY <3>3, <3>4
    <2>4. CASE RadioRefuses(q)
      <3>1. sending[q] \in Message /\ (sending'[p] = m => sending[p] = m)
        BY <1>2, <2>4, SentinelAssumption DEF RadioRefuses
      <3> QED BY <2>1, <2>4, <3>1 DEF RadioRefuses
    <2>5. ASSUME NEW n \in Message, ReportBlocked(q, n) \/ StuckSettle(q, n) PROVE Goal
      BY <2>1, <2>5 DEF ReportBlocked, StuckSettle, memory
    <2>6. ASSUME NEW n \in Message, NEW ok \in BOOLEAN, PartResult(q, n, ok) \/ ResultLost(q, n, ok)
          PROVE  Goal
      <3>1. UNCHANGED sending
        BY <2>6 DEF PartResult, ResultLost, memory
      <3>2. radio'[<<p, m>>] = log \/ radio'[<<p, m>>] = Reported(log, ok)
        BY <1>2, <2>6, CellUpdate DEF PartResult, ResultLost
      <3>3. Reported(log, ok).handed = log.handed
        BY <1>2 DEF Reported, RadioLog
      <3>4. row'[<<p, m>>] = x \/ row'[<<p, m>>] = PartRecorded(x, ok)
        BY <1>2, <2>6, CellUpdate DEF PartResult, ResultLost
      <3>5. PartRecorded(x, ok) = x \/ PartRecorded(x, ok).state \in {"SENDING", "SENT", "FAILED"}
        <4>1. CASE x.state # "SENDING"
          BY <4>1 DEF PartRecorded
        <4>2. CASE x.state = "SENDING"
          <5>1. Counted(x, ok).state = "SENDING"
            BY <1>2, <4>2 DEF Counted, Row
          <5>2. \A st : [Counted(x, ok) EXCEPT !.state = st].state = st
            BY <1>2 DEF Counted, Row
          <5> QED BY <4>2, <5>1, <5>2 DEF PartRecorded
        <4> QED BY <4>1, <4>2
      <3> QED BY <1>5, <3>1, <3>2, <3>3, <3>4, <3>5
    <2>7. CASE NextQueued(q) \/ StuckRead(q) \/ Restart(q)
      BY <1>6, <2>7 DEF NextQueued, StuckRead, Restart, memory
    <2>8. CASE Crash(q, CallsOf(q)) \/ OperatorUnpairs(q, CallsOf(q))
      <3>1. sending' = [sending EXCEPT ![q] = NoMessage] /\ UNCHANGED <<row, radio>>
        BY <2>8 DEF Crash, OperatorUnpairs, Forget
      <3>2. sending'[p] = m => sending[p] = m
        BY <1>2, <3>1, SentinelAssumption
      <3> QED BY <1>5, <3>1, <3>2
    <2> QED BY <1>9, <2>2, <2>3, <2>4, <2>5, <2>6, <2>7, <2>8 DEF Local
  <1>10. CASE Office
    BY <1>6, <1>10 DEF Office, handsetVars
  <1>11. ASSUME NEW r \in Request, Served(r) PROVE Goal
    BY <1>6, <1>11, ServedFrame DEF handsetVars
  <1>12. ASSUME NEW q \in Phone, NEW r \in Request, Calls(q, r) PROVE Goal
    BY <1>6, <1>12, CallsFrame DEF memory
  <1>13. ASSUME NEW q \in Phone, NEW d \in Device, Enrol(q, d) PROVE Goal
    BY <1>6, <1>13, EnrolFrame DEF memory
  <1> QED BY <1>7, <1>8, <1>9, <1>10, <1>11, <1>12, <1>13 DEF Next

-----------------------------------------------------------------------------
LEMMA GatewayInit == Init => GatewayInv
  <1> SUFFICES ASSUME Init PROVE GatewayInv
    OBVIOUS
  <1>1. TypeOK
    BY TypeInit
  <1>2. Cardinality(revoked) \in Nat
    BY <1>1, RevokedCount DEF TypeOK, ServerTypeOK
  <1>3. BudgetInv
    BY <1>2, BudgetAssumption DEF Init, ServerInit, BudgetInv
  <1>4. TruthInv
    BY DEF Init, ServerInit, HandsetInit, TruthInv, Truthful, SentIsTrue, NoRow, FreeSlot
  <1>5. OnceInv
    BY SentinelAssumption DEF Init, HandsetInit, OnceInv, NoRow
  <1>6. FailedIsLogged
    BY DEF Init, ServerInit, FailedIsLogged
  <1> QED BY <1>3, <1>4, <1>5, <1>6 DEF GatewayInv

(* The inductive invariant: the attempt budget, the honesty of every claim of
   success, at most one hand-over to a phone's radio, and the log's agreement
   with the dispatch rows, hold in every reachable state. *)
THEOREM GatewayInvariant == Spec => []GatewayInv
  <1>1. TypeOK /\ GatewayInv /\ [Next]_vars => GatewayInv'
    <2> SUFFICES ASSUME TypeOK, GatewayInv, [Next]_vars PROVE GatewayInv'
      OBVIOUS
    <2>1. CASE Next
      BY <2>1, BudgetStep, TruthStep, OnceStep, LoggedStep DEF GatewayInv
    <2>2. CASE UNCHANGED vars
      BY <2>2 DEF vars, serverVars, handsetVars, GatewayInv, BudgetInv, TruthInv, SentIsTrue, OnceInv,
                  CallsOf, Offered, FailedIsLogged
    <2> QED BY <2>1, <2>2
  <1> QED BY <1>1, GatewayInit, TypeCorrect, PTL DEF Spec

(* However polls, sweeps, lost answers and crashes interleave, the outbox
   offers a message at most MAX_ATTEMPTS times plus once per revoked device. *)
THEOREM OffersBounded == Spec => []OfferBound
  <1>1. TypeOK /\ GatewayInv => OfferBound
    <2> SUFFICES ASSUME TypeOK, GatewayInv, NEW m \in Message
                 PROVE  offers[m] <= MaxAttempts + Cardinality(revoked)
      BY DEF OfferBound
    <2> QED BY DEF GatewayInv, BudgetInv
  <1> QED BY <1>1, GatewayInvariant, TypeCorrect, PTL

(* The server records 'sent' only for a message a radio reported gone. *)
THEOREM SentOnlyIfSent == Spec => []SentIsTrue
  <1>1. GatewayInv => SentIsTrue
    BY DEF GatewayInv, TruthInv
  <1> QED BY <1>1, GatewayInvariant, PTL

(* One phone hands one message to its radio at most once. *)
THEOREM SentOncePerPhone == Spec => []OneSendPerPhone
  <1>1. GatewayInv => OneSendPerPhone
    BY DEF GatewayInv, OnceInv, OneSendPerPhone
  <1> QED BY <1>1, GatewayInvariant, PTL

(* What the gateway gave up on, the message log shows as failed. *)
THEOREM GivenUpIsLogged == Spec => []FailedIsLogged
  <1>1. GatewayInv => FailedIsLogged
    BY DEF GatewayInv
  <1> QED BY <1>1, GatewayInvariant, PTL

-----------------------------------------------------------------------------
(* Which steps may write a row that has an outcome, or a failed log entry. *)
LEMMA FinalStep ==
    ASSUME TypeOK, Next, NEW m \in Message
    PROVE  /\ dispatch[m].state \in Settled => dispatch'[m] = dispatch[m]
           /\ message_log[m].status = "failed" => message_log'[m].status = "failed"
  <1> DEFINE Goal == /\ dispatch[m].state \in Settled => dispatch'[m] = dispatch[m]
                     /\ message_log[m].status = "failed" => message_log'[m].status = "failed"
  <1> USE DEF Settled
  <1>1. CASE UNCHANGED <<dispatch, message_log>>
    BY <1>1
  <1>2. CASE Office
    <2>1. ASSUME NEW n \in Message, HandOver(n) PROVE Goal
      BY <2>1 DEF HandOver, TypeOK, ServerTypeOK
    <2>2. ASSUME NEW d \in Device, Revoke(d) PROVE Goal
      BY <2>2 DEF Revoke, Held
    <2> QED BY <1>1, <1>2, <2>1, <2>2 DEF Office, LeaseRunsOut, WindowCloses, SetPaused, Approve,
                                          tables
  <1>3. ASSUME NEW r \in Request, Served(r) PROVE Goal
    <2>1. CASE OutboxSweep(r) \/ HeartbeatBatch(r)
      <3>1. dispatch'[m] = SweptDispatch(m) /\ message_log'[m] = SweptLog(m)
        BY <2>1 DEF OutboxSweep, HeartbeatBatch, Sweep
      <3> QED BY <3>1 DEF SweptDispatch, SweptLog, Lapsed, Uncollected
    <2>2. CASE OutboxClaim(r)
      <3>1. m \in Won(r) => dispatch[m].state \in {"none", "queued", "dispatching"}
        BY DEF Won, Lapsed
      <3> QED BY <2>2, <3>1 DEF OutboxClaim, ClaimRows
    <2>3. CASE ReceiptsApply(r)
      <3>1. CASE ~Settles(r, m)
        BY <2>3, <3>1 DEF ReceiptsApply
      <3>2. CASE Settles(r, m)
        <4>1. dispatch[m].state = "dispatching"
          BY <3>2 DEF Settles
        <4>2. message_log'[m] = [status |-> "failed", error |-> "phone"] \/ message_log'[m] = message_log[m]
              \/ message_log[m].status = "sent"
          BY <2>3 DEF ReceiptsApply
        <4> QED BY <4>1, <4>2
      <3> QED BY <3>1, <3>2
    <2>4. CASE Authenticate(r) \/ OutboxSelect(r) \/ OutboxBodies(r) \/ ReceiptsKnown(r)
               \/ HandlerFails(r)
      BY <1>1, <2>4 DEF Authenticate, OutboxSelect, OutboxBodies, ReceiptsKnown, HandlerFails, tables
    <2> QED BY <1>3, <2>1, <2>2, <2>3, <2>4 DEF Served, Handle
  <1>4. ASSUME NEW r \in Request, Answer(r) PROVE Goal
    BY <1>1, <1>4, AnswerFrame DEF tables
  <1>5. ASSUME NEW p \in Phone, NEW r \in Request, Calls(p, r) PROVE Goal
    BY <1>1, <1>5, CallsFrame DEF tables
  <1>6. ASSUME NEW p \in Phone, Local(p) PROVE Goal
    BY <1>1, <1>6, LocalFrame DEF serverVars
  <1>7. ASSUME NEW p \in Phone, NEW d \in Device, Enrol(p, d) PROVE Goal
    BY <1>1, <1>7, EnrolFrame DEF tables
  <1>8. ASSUME NEW p \in Phone, NEW n \in Message, PruneOld(p, n) PROVE Goal
    BY <1>1, <1>8 DEF PruneOld, serverVars
  <1> QED BY <1>2, <1>3, <1>4, <1>5, <1>6, <1>7, <1>8 DEF Next

(* No retried, late or duplicated receipt, and no sweep, claim or revocation,
   ever touches a row that has its outcome or revives a failed log entry. *)
THEOREM OutcomesAreFinal == Spec => SettledIsFinal
  <1>1. TypeOK /\ [Next]_vars =>
           [\A m \in Message :
               /\ dispatch[m].state \in Settled => dispatch'[m] = dispatch[m]
               /\ message_log[m].status = "failed" => message_log'[m].status = "failed"]_vars
    BY FinalStep
  <1> QED BY <1>1, TypeCorrect, PTL DEF Spec, SettledIsFinal

(* A lease that runs is broken by nobody but its own receipt or a revocation. *)
LEMMA LeaseStep ==
    ASSUME TypeOK, Next, NEW m \in Message,
           dispatch[m].state = "dispatching", m \notin lapsed
    PROVE  \/ dispatch'[m] = dispatch[m]
           \/ dispatch'[m].state \in {"sent", "failed"}
                 /\ dispatch'[m].attempt = dispatch[m].attempt
                 /\ dispatch'[m].device = dispatch[m].device
           \/ dispatch[m].device \in revoked'
  <1> DEFINE Goal == \/ dispatch'[m] = dispatch[m]
                     \/ dispatch'[m].state \in {"sent", "failed"}
                           /\ dispatch'[m].attempt = dispatch[m].attempt
                           /\ dispatch'[m].device = dispatch[m].device
                     \/ dispatch[m].device \in revoked'
  <1>1. CASE UNCHANGED dispatch
    BY <1>1
  <1>2. CASE Office
    <2>1. ASSUME NEW d \in Device, Revoke(d) PROVE Goal
      BY <2>1 DEF Revoke, Held
    <2> QED BY <1>1, <1>2, <2>1 DEF Office, HandOver, LeaseRunsOut, WindowCloses, SetPaused, Approve,
                                    tables
  <1>3. ASSUME NEW r \in Request, Served(r) PROVE Goal
    <2>1. CASE OutboxSweep(r) \/ HeartbeatBatch(r)
      <3>1. dispatch'[m] = SweptDispatch(m)
        BY <2>1 DEF OutboxSweep, HeartbeatBatch, Sweep
      <3> QED BY <3>1 DEF SweptDispatch, Lapsed
    <2>2. CASE OutboxClaim(r)
      <3>1. m \notin Won(r)
        BY DEF Won, Lapsed
      <3> QED BY <2>2, <3>1 DEF OutboxClaim, ClaimRows
    <2>3. CASE ReceiptsApply(r)
      <3>1. dispatch'[m] = dispatch[m] \/ dispatch'[m] = [dispatch[m] EXCEPT !.state = Receipt(r, m)]
        BY <2>3 DEF ReceiptsApply
      <3>2. Receipt(r, m) \in {"sent", "failed"} /\ dispatch[m] \in DispatchRow
        BY DEF Receipt, TypeOK, ServerTypeOK
      <3> QED BY <3>1, <3>2 DEF DispatchRow
    <2>4. CASE Authenticate(r) \/ OutboxSelect(r) \/ OutboxBodies(r) \/ ReceiptsKnown(r)
               \/ HandlerFails(r)
      BY <1>1, <2>4 DEF Authenticate, OutboxSelect, OutboxBodies, ReceiptsKnown, HandlerFails, tables
    <2> QED BY <1>3, <2>1, <2>2, <2>3, <2>4 DEF Served, Handle
  <1>4. ASSUME NEW r \in Request, Answer(r) PROVE Goal
    BY <1>1, <1>4, AnswerFrame DEF tables
  <1>5. ASSUME NEW p \in Phone, NEW r \in Request, Calls(p, r) PROVE Goal
    BY <1>1, <1>5, CallsFrame DEF tables
  <1>6. ASSUME NEW p \in Phone, Local(p) PROVE Goal
    BY <1>1, <1>6, LocalFrame DEF serverVars
  <1>7. ASSUME NEW p \in Phone, NEW d \in Device, Enrol(p, d) PROVE Goal
    BY <1>1, <1>7, EnrolFrame DEF tables
  <1>8. ASSUME NEW p \in Phone, NEW n \in Message, PruneOld(p, n) PROVE Goal
    BY <1>1, <1>8 DEF PruneOld, serverVars
  <1> QED BY <1>2, <1>3, <1>4, <1>5, <1>6, <1>7, <1>8 DEF Next

(* While a lease runs, no poll takes the message from the device that holds
   it, for any number of phones polling at once. *)
THEOREM LeasesRespected == Spec => LeaseRespected
  <1>1. TypeOK /\ [Next]_vars =>
           [\A m \in Message :
               dispatch[m].state = "dispatching" /\ m \notin lapsed =>
                  \/ dispatch'[m] = dispatch[m]
                  \/ dispatch'[m].state \in {"sent", "failed"}
                        /\ dispatch'[m].attempt = dispatch[m].attempt
                        /\ dispatch'[m].device = dispatch[m].device
                  \/ dispatch[m].device \in revoked']_vars
    BY LeaseStep
  <1> QED BY <1>1, TypeCorrect, PTL DEF Spec, LeaseRespected

-----------------------------------------------------------------------------
(***************************************************************************)
(* The gateway keeps the courier's promise.                                *)
(***************************************************************************)
(* No step takes back the hand-over, and only a claim makes a dispatch row. *)
LEMMA HandOverStep ==
    ASSUME TypeOK, UntouchedInv, Next, NEW m \in Message, message_log'[m].status = "queued"
    PROVE  message_log[m].status = "queued" /\ dispatch'[m].state = "none"
  <1> DEFINE Goal == message_log[m].status = "queued" /\ dispatch'[m].state = "none"
  <1>1. message_log[m].status = "queued" =>
          dispatch[m].state = "none" /\ \A r \in Request : m \notin Offered(r)
    BY DEF UntouchedInv
  <1>2. CASE UNCHANGED <<dispatch, message_log>>
    BY <1>1, <1>2
  <1>3. CASE Office
    <2>1. ASSUME NEW n \in Message, HandOver(n) PROVE Goal
      <3>1. m # n /\ message_log'[m] = message_log[m]
        BY <2>1 DEF HandOver, TypeOK, ServerTypeOK, LogRow
      <3> QED BY <1>1, <2>1, <3>1 DEF HandOver
    <2>2. ASSUME NEW d \in Device, Revoke(d) PROVE Goal
      BY <1>1, <2>2 DEF Revoke, Held
    <2> QED BY <1>2, <1>3, <2>1, <2>2 DEF Office, LeaseRunsOut, WindowCloses, SetPaused, Approve,
                                          tables
  <1>4. ASSUME NEW r \in Request, Served(r) PROVE Goal
    <2>1. CASE OutboxSweep(r) \/ HeartbeatBatch(r)
      <3>1. dispatch'[m] = SweptDispatch(m) /\ message_log'[m] = SweptLog(m)
        BY <2>1 DEF OutboxSweep, HeartbeatBatch, Sweep
      <3>2. message_log[m].status = "queued"
        BY <3>1 DEF SweptLog
      <3> QED BY <1>1, <3>1, <3>2 DEF SweptDispatch, Lapsed
    <2>2. CASE OutboxClaim(r)
      <3>1. message_log[m].status = "queued"
        BY <2>2 DEF OutboxClaim, ClaimRows
      <3>2. m \notin Won(r)
        BY <1>1, <3>1 DEF Won, Offered
      <3> QED BY <1>1, <2>2, <3>1, <3>2 DEF OutboxClaim, ClaimRows
    <2>3. CASE ReceiptsApply(r)
      <3>1. CASE ~Settles(r, m)
        BY <1>1, <2>3, <3>1 DEF ReceiptsApply
      <3>2. CASE Settles(r, m)
        <4>1. dispatch[m].state = "dispatching"
          BY <3>2 DEF Settles
        <4>2. message_log[m] \in LogRow
          BY DEF TypeOK, ServerTypeOK
        <4>3. [message_log[m] EXCEPT !.error = "none"].status = message_log[m].status
          BY <4>2 DEF LogRow
        <4>4. CASE Receipt(r, m) = "failed"
          BY <2>3, <3>2, <4>4 DEF ReceiptsApply
        <4>5. CASE Receipt(r, m) # "failed" /\ message_log[m].status = "sent"
          <5>1. message_log'[m] = [message_log[m] EXCEPT !.error = "none"]
            BY <2>3, <3>2, <4>5 DEF ReceiptsApply
          <5> QED BY <4>3, <4>5, <5>1
        <4>6. CASE Receipt(r, m) # "failed" /\ message_log[m].status # "sent"
          <5>1. message_log'[m] = message_log[m]
            BY <2>3, <3>2, <4>6 DEF ReceiptsApply
          <5> QED BY <1>1, <4>1, <5>1
        <4> QED BY <4>4, <4>5, <4>6
      <3> QED BY <3>1, <3>2
    <2>4. CASE Authenticate(r) \/ OutboxSelect(r) \/ OutboxBodies(r) \/ ReceiptsKnown(r)
               \/ HandlerFails(r)
      BY <1>2, <2>4 DEF Authenticate, OutboxSelect, OutboxBodies, ReceiptsKnown, HandlerFails, tables
    <2> QED BY <1>4, <2>1, <2>2, <2>3, <2>4 DEF Served, Handle
  <1>5. ASSUME NEW r \in Request, Answer(r) PROVE Goal
    BY <1>2, <1>5, AnswerFrame DEF tables
  <1>6. ASSUME NEW p \in Phone, NEW r \in Request, Calls(p, r) PROVE Goal
    BY <1>2, <1>6, CallsFrame DEF tables
  <1>7. ASSUME NEW p \in Phone, Local(p) PROVE Goal
    BY <1>2, <1>7, LocalFrame DEF serverVars
  <1>8. ASSUME NEW p \in Phone, NEW d \in Device, Enrol(p, d) PROVE Goal
    BY <1>2, <1>8, EnrolFrame DEF tables
  <1>9. ASSUME NEW p \in Phone, NEW n \in Message, PruneOld(p, n) PROVE Goal
    BY <1>2, <1>9 DEF PruneOld, serverVars
  <1> QED BY <1>3, <1>4, <1>5, <1>6, <1>7, <1>8, <1>9 DEF Next

(* Only messages the log has as sent are put into an answer. *)
LEMMA NotOfferedStep ==
    ASSUME TypeOK, Next, NEW m \in Message, message_log[m].status = "queued",
           \A r \in Request : m \notin Offered(r)
    PROVE  \A c \in Request : m \notin Offered(c)'
  <1> DEFINE Goal == \A c \in Request : m \notin Offered(c)'
  <1> USE DEF Offered
  <1>1. CASE UNCHANGED request
    BY <1>1
  <1>2. request \in [Request -> Exchange]
    BY DEF TypeOK, ServerTypeOK
  <1>3. CASE Office
    BY <1>1, <1>3 DEF Office, HandOver, LeaseRunsOut, WindowCloses, SetPaused, Approve, Revoke
  <1>4. ASSUME NEW r \in Request, Served(r) PROVE Goal
    <2>1. ASSUME NEW pc, Goto(r, pc) PROVE Goal
      BY <1>2, <2>1 DEF Goto, Exchange
    <2>2. CASE Authenticate(r)
      <3>1. /\ request'[r].fresh = request[r].fresh /\ request'[r].again = request[r].again
            /\ request'[r].won = request[r].won
        BY <1>2, <2>2 DEF Authenticate, Exchange
      <3>2. \A c \in Request : c # r => request'[c] = request[c]
        BY <1>2, <2>2 DEF Authenticate
      <3> QED BY <3>1, <3>2
    <2>3. CASE OutboxSelect(r)
      <3>1. PICK page \in SUBSET Candidates :
               request' = [request EXCEPT ![r] = [request[r] EXCEPT
                   !.pc = IF page = {} THEN "200" ELSE "claim",
                   !.fresh = {n \in page : dispatch[n].state = "none"},
                   !.again = {n \in page : dispatch[n].state # "none"}]]
        BY <2>3 DEF OutboxSelect
      <3>2. m \notin page
        BY DEF Candidates
      <3>3. m \notin request'[r].fresh /\ m \notin request'[r].again /\ request'[r].won = request[r].won
        BY <1>2, <3>1, <3>2 DEF Exchange
      <3>4. \A c \in Request : c # r => request'[c] = request[c]
        BY <1>2, <3>1
      <3> QED BY <3>3, <3>4
    <2>4. CASE OutboxClaim(r)
      <3>1. request' = [request EXCEPT ![r] =
               [request[r] EXCEPT !.pc = IF Won(r) = {} THEN "200" ELSE "bodies",
                                  !.won = Won(r), !.fresh = {}, !.again = {}]]
        BY <2>4 DEF OutboxClaim, ClaimRows
      <3>2. m \notin Won(r)
        BY DEF Won
      <3>3. request'[r].fresh = {} /\ request'[r].again = {} /\ request'[r].won = Won(r)
        BY <1>2, <3>1 DEF Exchange
      <3>4. \A c \in Request : c # r => request'[c] = request[c]
        BY <1>2, <3>1
      <3> QED BY <3>2, <3>3, <3>4
    <2>5. CASE OutboxSweep(r) \/ HeartbeatBatch(r) \/ OutboxBodies(r) \/ ReceiptsKnown(r)
               \/ ReceiptsApply(r) \/ HandlerFails(r)
      BY <2>1, <2>5 DEF OutboxSweep, HeartbeatBatch, OutboxBodies, ReceiptsKnown, ReceiptsApply,
                        HandlerFails
    <2> QED BY <1>4, <2>2, <2>3, <2>4, <2>5 DEF Served, Handle
  <1>5. ASSUME NEW r \in Request, Answer(r) PROVE Goal
    <2>1. request' = [request EXCEPT ![r] = FreeSlot] \/ UNCHANGED request
      BY <1>5, AnswerFrame
    <2> QED BY <1>2, <2>1 DEF FreeSlot
  <1>6. ASSUME NEW q \in Phone, NEW r \in Request, Calls(q, r) PROVE Goal
    <2>1. \A c \in Request : c # r => request'[c] = request[c]
      BY <1>6, CallsType
    <2>2. PICK kind, sent, failed : Send(r, Call(kind, q, token[q], sent, failed))
      BY <1>6 DEF Calls, Poll, Heartbeat, FlushReceipts
    <2>3. Offered(r)' = {}
      BY <1>2, <2>2 DEF Send, Call, FreeSlot
    <2> QED BY <2>1, <2>3
  <1>7. ASSUME NEW q \in Phone, Local(q) PROVE Goal
    BY <1>1, <1>7, LocalFrame DEF serverVars
  <1>8. ASSUME NEW q \in Phone, NEW d \in Device, Enrol(q, d) PROVE Goal
    BY <1>1, <1>8, EnrolFrame
  <1>9. ASSUME NEW q \in Phone, NEW n \in Message, PruneOld(q, n) PROVE Goal
    BY <1>1, <1>9 DEF PruneOld, serverVars
  <1> QED BY <1>3, <1>4, <1>5, <1>6, <1>7, <1>8, <1>9 DEF Next

(* A row is made by an answer that offers its message, and by nothing else. *)
LEMMA NoRowStep ==
    ASSUME TypeOK, Next, NEW m \in Message, NEW p \in Phone,
           \A r \in Request : m \notin Offered(r),
           row[<<p, m>>].state = "none", sending[p] # m
    PROVE  row'[<<p, m>>].state = "none" /\ sending'[p] # m
  <1> DEFINE x == row[<<p, m>>]
             Goal == row'[<<p, m>>].state = "none" /\ sending'[p] # m
  <1>1. /\ row \in [Phone \X Message -> Row] /\ x \in Row
        /\ sending \in [Phone -> Message \cup {NoMessage}]
    BY DEF TypeOK, HandsetTypeOK
  <1>2. CASE UNCHANGED <<row, sending>>
    BY <1>2
  <1>3. ASSUME NEW r \in Request, Answer(r) PROVE Goal
    <2>1. UNCHANGED sending
      BY <1>3, AnswerFrame
    <2>2. CASE PollAnswered(r)
      <3>1. m \notin request[r].won
        BY DEF Offered
      <3>2. row'[<<p, m>>] = x
        BY <2>2, <3>1 DEF PollAnswered, InsertIgnoringKnown
      <3> QED BY <2>1, <3>2
    <2>3. CASE ReceiptsAnswered(r)
      <3>1. row'[<<p, m>>] = x
        BY <2>3 DEF ReceiptsAnswered, MarkReceiptsAccepted
      <3> QED BY <2>1, <3>1
    <2>4. CASE UNCHANGED row
      BY <2>1, <2>4
    <2> QED BY <1>3, <2>2, <2>3, <2>4 DEF Answer, HeartbeatAnswered, TokenRefused, CallRefused,
                                          GiveUp, AnswerLost, handsetVars
  <1>4. ASSUME NEW q \in Phone, NEW n \in Message, PruneOld(q, n) PROVE Goal
    <2>1. row'[<<p, m>>] = x \/ row'[<<p, m>>] = NoRow
      BY <1>1, <1>4, CellUpdate DEF PruneOld, Prune
    <2> QED BY <1>4, <2>1 DEF PruneOld, Prune, memory, NoRow
  <1>5. ASSUME NEW q \in Phone, Local(q) PROVE Goal
    <2>1. ASSUME NEW n \in Message, Settle(q, n), sending'[p] = m => sending[p] = m
          PROVE  Goal
      <3>1. row'[<<p, m>>] = x \/ row'[<<p, m>>] = Failed(x)
        BY <1>1, <2>1, CellUpdate DEF Settle
      <3> QED BY <2>1, <3>1 DEF Failed
    <2>2. ASSUME NEW n \in Message, MarkSending(q, n) PROVE Goal
      <3>1. \/ row' = row /\ sending' = sending
            \/ /\ row[<<q, n>>].state = "QUEUED"
               /\ row' = [row EXCEPT ![<<q, n>>] = Marked(row[<<q, n>>])]
               /\ sending' = [sending EXCEPT ![q] = n]
        BY <2>2 DEF MarkSending
      <3>2. row[<<q, n>>].state = "QUEUED" => ~(q = p /\ n = m)
        OBVIOUS
      <3> QED BY <1>1, <3>1, <3>2, CellUpdate
    <2>3. CASE HandToRadio(q)
      BY <1>1, <2>3, SentinelAssumption DEF HandToRadio
    <2>4. CASE RadioRefuses(q)
      <3>1. sending[q] \in Message /\ (sending'[p] = m => sending[p] = m)
        BY <1>1, <2>4, SentinelAssumption DEF RadioRefuses
      <3> QED BY <2>1, <2>4, <3>1 DEF RadioRefuses
    <2>5. ASSUME NEW n \in Message, ReportBlocked(q, n) \/ StuckSettle(q, n) PROVE Goal
      BY <2>1, <2>5 DEF ReportBlocked, StuckSettle, memory
    <2>6. ASSUME NEW n \in Message, NEW ok \in BOOLEAN, PartResult(q, n, ok) \/ ResultLost(q, n, ok)
          PROVE  Goal
      <3>1. UNCHANGED sending
        BY <2>6 DEF PartResult, ResultLost, memory
      <3>2. row'[<<p, m>>] = x \/ row'[<<p, m>>] = PartRecorded(x, ok)
        BY <1>1, <2>6, CellUpdate DEF PartResult, ResultLost
      <3> QED BY <3>1, <3>2 DEF PartRecorded
    <2>7. CASE NextQueued(q) \/ StuckRead(q) \/ Restart(q)
      BY <1>2, <2>7 DEF NextQueued, StuckRead, Restart, memory
    <2>8. CASE Crash(q, CallsOf(q)) \/ OperatorUnpairs(q, CallsOf(q))
      <3>1. sending' = [sending EXCEPT ![q] = NoMessage] /\ UNCHANGED row
        BY <2>8 DEF Crash, OperatorUnpairs, Forget
      <3> QED BY <1>1, <3>1, SentinelAssumption
    <2> QED BY <1>5, <2>2, <2>3, <2>4, <2>5, <2>6, <2>7, <2>8 DEF Local
  <1>6. CASE Office
    BY <1>2, <1>6 DEF Office, handsetVars
  <1>7. ASSUME NEW r \in Request, Served(r) PROVE Goal
    BY <1>2, <1>7, ServedFrame DEF handsetVars
  <1>8. ASSUME NEW q \in Phone, NEW r \in Request, Calls(q, r) PROVE Goal
    BY <1>2, <1>8, CallsFrame DEF memory
  <1>9. ASSUME NEW q \in Phone, NEW d \in Device, Enrol(q, d) PROVE Goal
    BY <1>2, <1>9, EnrolFrame DEF memory
  <1> QED BY <1>3, <1>4, <1>5, <1>6, <1>7, <1>8, <1>9 DEF Next

(* What the radio has been through in one step, for one phone and message. *)
LEMMA RadioStep ==
    ASSUME TypeOK, Next
    PROVE  \/ UNCHANGED radio
           \/ UNCHANGED serverVars /\ \E p \in Phone :
                \/ HandToRadio(p)
                \/ \E m \in Message, ok \in BOOLEAN :
                      /\ radio[<<p, m>>].left > 0
                      /\ radio' = [radio EXCEPT ![<<p, m>>] = Reported(radio[<<p, m>>], ok)]
  <1>1. ASSUME NEW p \in Phone, Local(p)
        PROVE  \/ UNCHANGED radio
               \/ HandToRadio(p)
               \/ \E m \in Message, ok \in BOOLEAN :
                     /\ radio[<<p, m>>].left > 0
                     /\ radio' = [radio EXCEPT ![<<p, m>>] = Reported(radio[<<p, m>>], ok)]
    BY <1>1 DEF Local, NextQueued, MarkSending, RadioRefuses, ReportBlocked, PartResult, ResultLost,
                StuckRead, StuckSettle, Crash, Restart, OperatorUnpairs
  <1>2. CASE Office
    BY <1>2 DEF Office, handsetVars
  <1>3. ASSUME NEW r \in Request, Served(r) \/ Answer(r) PROVE UNCHANGED radio
    BY <1>3, ServedFrame, AnswerFrame DEF handsetVars
  <1>4. ASSUME NEW q \in Phone, NEW r \in Request, Calls(q, r) PROVE UNCHANGED radio
    BY <1>4, CallsFrame
  <1>5. ASSUME NEW q \in Phone, NEW d \in Device, Enrol(q, d) PROVE UNCHANGED radio
    BY <1>5, EnrolFrame
  <1>6. ASSUME NEW q \in Phone, NEW n \in Message, PruneOld(q, n) PROVE UNCHANGED radio
    BY <1>6 DEF PruneOld, Prune
  <1> QED BY <1>1, <1>2, <1>3, <1>4, <1>5, <1>6, LocalFrame DEF Next

(* UntouchedInv is kept by every step. *)
LEMMA UntouchedStep ==
    ASSUME TypeOK, UntouchedInv, Next
    PROVE  UntouchedInv'
  <1>1. ASSUME NEW m \in Message, message_log'[m].status = "queued"
        PROVE  /\ dispatch'[m].state = "none"
               /\ \A r \in Request : m \notin Offered(r)'
               /\ \A p \in Phone : row'[<<p, m>>].state = "none" /\ sending'[p] # m
    <2>1. message_log[m].status = "queued" /\ dispatch'[m].state = "none"
      BY <1>1, HandOverStep
    <2>2. /\ \A r \in Request : m \notin Offered(r)
          /\ \A p \in Phone : row[<<p, m>>].state = "none" /\ sending[p] # m
      BY <2>1 DEF UntouchedInv
    <2> QED BY <2>1, <2>2, NotOfferedStep, NoRowStep
  <1>2. ASSUME NEW pm \in Phone \X Message, radio'[pm].handed = 0
        PROVE  radio'[pm].left = 0 /\ radio'[pm].good = 0
    <2>1. radio \in [Phone \X Message -> RadioLog]
      BY DEF TypeOK, HandsetTypeOK
    <2>2. radio[pm].handed = 0 => radio[pm].left = 0 /\ radio[pm].good = 0
      BY DEF UntouchedInv
    <2>3. PICK q \in Phone, n \in Message : pm = <<q, n>>
      OBVIOUS
    <2>4. PICK log \in RadioLog : log = radio[pm]
      BY <2>1
    <2>5. log.handed \in Nat
      BY DEF RadioLog
    <2>6. CASE UNCHANGED radio
      BY <1>2, <2>2, <2>6
    <2>7. ASSUME NEW p \in Phone, HandToRadio(p) PROVE radio'[pm].left = 0 /\ radio'[pm].good = 0
      <3>1. sending[p] \in Message
        BY <2>7 DEF HandToRadio, TypeOK, HandsetTypeOK
      <3>2. radio'[pm] = log \/ radio'[pm] = Taken(log)
        BY <2>1, <2>3, <2>4, <2>7, <3>1, CellUpdate DEF HandToRadio
      <3>3. Taken(log).handed = log.handed + 1
        BY DEF Taken, RadioLog
      <3> QED BY <1>2, <2>2, <2>4, <2>5, <3>2, <3>3
    <2>8. ASSUME NEW p \in Phone, NEW m \in Message, NEW ok \in BOOLEAN, radio[<<p, m>>].left > 0,
                 radio' = [radio EXCEPT ![<<p, m>>] = Reported(radio[<<p, m>>], ok)]
          PROVE  radio'[pm].left = 0 /\ radio'[pm].good = 0
      <3>1. radio'[pm] = log \/ (radio'[pm] = Reported(log, ok) /\ log.left > 0)
        BY <2>1, <2>3, <2>4, <2>8, CellUpdate
      <3>2. Reported(log, ok).handed = log.handed
        BY DEF Reported, RadioLog
      <3> QED BY <1>2, <2>2, <2>4, <3>1, <3>2
    <2> QED BY <2>6, <2>7, <2>8, RadioStep
  <1> QED BY <1>1, <1>2 DEF UntouchedInv

(* What the courier sees of the gateway. *)
Told == [m \in Message |-> message_log[m].status]
Outcomes == [m \in Message |-> OutcomeOf(dispatch[m].state)]
HandedTimes == [pm \in Phone \X Message |-> radio[pm].handed]
GoneOut == {pm \in Phone \X Message : radio[pm].good >= Parts}

(* The courier's moves, of one message. *)
Stays(m) == Told'[m] = Told[m] /\ Outcomes'[m] = Outcomes[m]

Moves(m) ==
    \/ Stays(m)
    \/ Told[m] = "queued" /\ Told'[m] = "sent" /\ Outcomes'[m] = Outcomes[m]
    \/ /\ Outcomes[m] = "open" /\ \E p \in Phone : <<p, m>> \in GoneOut
       /\ Outcomes'[m] = "confirmed" /\ Told'[m] = Told[m]
    \/ /\ Outcomes[m] = "open" /\ Told[m] # "queued"
       /\ Told'[m] = "failed" /\ Outcomes'[m] \in {"open", "given up"}

(* Whatever the server does is, for each message, one of these moves. *)
LEMMA MoveStep ==
    ASSUME TypeOK, GatewayInv, UntouchedInv, Next, NEW m \in Message
    PROVE  Moves(m)
  <1>1. /\ Told[m] = message_log[m].status /\ Told'[m] = message_log'[m].status
        /\ Outcomes[m] = OutcomeOf(dispatch[m].state)
        /\ Outcomes'[m] = OutcomeOf(dispatch'[m].state)
    BY DEF Told, Outcomes
  <1>2. message_log[m] \in LogRow /\ dispatch[m] \in DispatchRow
    BY DEF TypeOK, ServerTypeOK
  <1>3. dispatch[m].state \in {"queued", "dispatching"} => message_log[m].status # "queued"
    BY DEF UntouchedInv
  <1>4. CASE UNCHANGED <<dispatch, message_log>>
    BY <1>1, <1>4 DEF Moves, Stays
  <1>5. CASE Office
    <2>1. ASSUME NEW n \in Message, HandOver(n) PROVE Moves(m)
      <3>1. message_log'[m].status = IF m = n THEN "sent" ELSE message_log[m].status
        BY <1>2, <2>1 DEF HandOver, TypeOK, ServerTypeOK, LogRow
      <3>2. m = n => message_log[m].status = "queued"
        BY <2>1 DEF HandOver
      <3>3. dispatch' = dispatch
        BY <2>1 DEF HandOver
      <3> QED BY <1>1, <3>1, <3>2, <3>3 DEF Moves, Stays
    <2>2. ASSUME NEW d \in Device, Revoke(d) PROVE Moves(m)
      <3>1. \/ dispatch'[m] = dispatch[m]
            \/ /\ dispatch[m].state = "dispatching"
               /\ dispatch'[m] = [dispatch[m] EXCEPT !.state = "queued", !.device = NoDevice]
        BY <2>2 DEF Revoke, Held
      <3>2. [dispatch[m] EXCEPT !.state = "queued", !.device = NoDevice].state = "queued"
        BY <1>2 DEF DispatchRow
      <3>3. message_log' = message_log
        BY <2>2 DEF Revoke
      <3> QED BY <1>1, <3>1, <3>2, <3>3 DEF Moves, Stays, OutcomeOf
    <2> QED BY <1>4, <1>5, <2>1, <2>2 DEF Office, LeaseRunsOut, WindowCloses, SetPaused, Approve,
                                          tables
  <1>6. ASSUME NEW r \in Request, Served(r) PROVE Moves(m)
    <2>1. CASE OutboxSweep(r) \/ HeartbeatBatch(r)
      <3>1. dispatch'[m] = SweptDispatch(m) /\ message_log'[m] = SweptLog(m)
        BY <2>1 DEF OutboxSweep, HeartbeatBatch, Sweep
      <3>2. CASE Lapsed(m) /\ dispatch[m].attempt < MaxAttempts
        <4>1. SweptDispatch(m) = [dispatch[m] EXCEPT !.state = "queued", !.device = NoDevice]
          BY <3>2 DEF SweptDispatch
        <4>2. SweptDispatch(m).state = "queued" /\ dispatch[m].state = "dispatching"
          BY <1>2, <3>2, <4>1 DEF DispatchRow, Lapsed
        <4>3. SweptLog(m) = message_log[m] \/ SweptLog(m).status = "failed"
          BY DEF SweptLog
        <4> QED BY <1>1, <1>3, <3>1, <4>2, <4>3 DEF Moves, Stays, OutcomeOf
      <3>3. CASE Lapsed(m) /\ ~(dispatch[m].attempt < MaxAttempts)
        <4>1. SweptDispatch(m) = [dispatch[m] EXCEPT !.state = "expired"]
          BY <3>3 DEF SweptDispatch
        <4>2. SweptDispatch(m).state = "expired" /\ dispatch[m].state = "dispatching"
          BY <1>2, <3>3, <4>1 DEF DispatchRow, Lapsed
        <4>3. Unconfirmed(m)
          BY <1>2, <3>3, BudgetAssumption DEF Unconfirmed, DispatchRow
        <4>4. SweptLog(m).status = "failed"
          BY <4>3 DEF SweptLog
        <4> QED BY <1>1, <1>3, <3>1, <4>2, <4>4 DEF Moves, OutcomeOf
      <3>4. CASE ~Lapsed(m)
        <4>1. SweptDispatch(m) = dispatch[m]
          BY <3>4 DEF SweptDispatch
        <4>2. \/ SweptLog(m) = message_log[m]
              \/ /\ SweptLog(m).status = "failed" /\ message_log[m].status = "sent"
                 /\ dispatch[m].state \in {"none", "queued"}
          BY <3>4, <4>1 DEF SweptLog, Unconfirmed, Uncollected
        <4> QED BY <1>1, <3>1, <4>1, <4>2 DEF Moves, Stays, OutcomeOf
      <3> QED BY <3>2, <3>3, <3>4
    <2>2. CASE OutboxClaim(r)
      <3>1. m \in Won(r) => dispatch[m].state \in {"none", "queued", "dispatching"}
        BY DEF Won, Lapsed
      <3>2. message_log' = message_log
        BY <2>2 DEF OutboxClaim, ClaimRows
      <3>3. dispatch'[m] = dispatch[m] \/ (m \in Won(r) /\ dispatch'[m].state = "dispatching")
        BY <2>2 DEF OutboxClaim, ClaimRows
      <3> QED BY <1>1, <3>1, <3>2, <3>3 DEF Moves, Stays, OutcomeOf
    <2>3. CASE ReceiptsApply(r)
      <3>1. CASE ~Settles(r, m)
        BY <1>1, <2>3, <3>1 DEF ReceiptsApply, Moves, Stays
      <3>2. CASE Settles(r, m)
        <4>1. dispatch[m].state = "dispatching" /\ m \in request[r].sent \cup request[r].failed
          BY <3>2 DEF Settles
        <4>2. dispatch'[m] = [dispatch[m] EXCEPT !.state = Receipt(r, m)]
          BY <2>3, <3>2 DEF ReceiptsApply
        <4>3. dispatch'[m].state = Receipt(r, m)
          BY <1>2, <4>2 DEF DispatchRow
        <4>4. CASE Receipt(r, m) = "failed"
          <5>1. message_log'[m].status = "failed"
            BY <2>3, <3>2, <4>4 DEF ReceiptsApply
          <5> QED BY <1>1, <1>3, <4>1, <4>3, <4>4, <5>1 DEF Moves, OutcomeOf
        <4>5. CASE Receipt(r, m) = "sent"
          <5>1. m \in request[r].sent
            BY <4>1, <4>5 DEF Receipt
          <5>2. \E p \in Phone : <<p, m>> \in GoneOut
            BY <5>1 DEF GatewayInv, TruthInv, GoneOut
          <5>3. message_log'[m] = message_log[m] \/ message_log'[m] = [message_log[m] EXCEPT !.error = "none"]
            BY <2>3, <3>2, <4>5 DEF ReceiptsApply
          <5>4. message_log'[m].status = message_log[m].status
            BY <1>2, <5>3 DEF LogRow
          <5> QED BY <1>1, <4>1, <4>3, <4>5, <5>2, <5>4 DEF Moves, OutcomeOf
        <4> QED BY <4>4, <4>5 DEF Receipt
      <3> QED BY <3>1, <3>2
    <2>4. CASE Authenticate(r) \/ OutboxSelect(r) \/ OutboxBodies(r) \/ ReceiptsKnown(r)
               \/ HandlerFails(r)
      BY <1>4, <2>4 DEF Authenticate, OutboxSelect, OutboxBodies, ReceiptsKnown, HandlerFails, tables
    <2> QED BY <1>6, <2>1, <2>2, <2>3, <2>4 DEF Served, Handle
  <1>7. ASSUME NEW r \in Request, Answer(r) PROVE Moves(m)
    BY <1>4, <1>7, AnswerFrame DEF tables
  <1>8. ASSUME NEW p \in Phone, NEW r \in Request, Calls(p, r) PROVE Moves(m)
    BY <1>4, <1>8, CallsFrame DEF tables
  <1>9. ASSUME NEW p \in Phone, Local(p) PROVE Moves(m)
    BY <1>4, <1>9, LocalFrame DEF serverVars
  <1>10. ASSUME NEW p \in Phone, NEW d \in Device, Enrol(p, d) PROVE Moves(m)
    BY <1>4, <1>10, EnrolFrame DEF tables
  <1>11. ASSUME NEW p \in Phone, NEW n \in Message, PruneOld(p, n) PROVE Moves(m)
    BY <1>4, <1>11 DEF PruneOld, serverVars
  <1> QED BY <1>5, <1>6, <1>7, <1>8, <1>9, <1>10, <1>11 DEF Next

courierVars == <<Told, Outcomes, HandedTimes, GoneOut>>

(* A radio takes a message, or reports a segment. *)
LEMMA AirStep ==
    ASSUME TypeOK, GatewayInv, UntouchedInv, NEW p \in Phone, UNCHANGED serverVars,
           \/ HandToRadio(p)
           \/ \E m \in Message, ok \in BOOLEAN :
                 /\ radio[<<p, m>>].left > 0
                 /\ radio' = [radio EXCEPT ![<<p, m>>] = Reported(radio[<<p, m>>], ok)]
    PROVE  (\E m \in Message : Promise!Taken(p, m) \/ Promise!WentOut(p, m))
           \/ UNCHANGED courierVars
  <1>1. radio \in [Phone \X Message -> RadioLog]
    BY DEF TypeOK, HandsetTypeOK
  <1>2. UNCHANGED <<Told, Outcomes>>
    BY DEF serverVars, Told, Outcomes
  <1>3. CASE HandToRadio(p)
    <2>1. PICK m \in Message : m = sending[p]
      BY <1>3 DEF HandToRadio, TypeOK, HandsetTypeOK
    <2>2. radio' = [radio EXCEPT ![<<p, m>>] = Taken(radio[<<p, m>>])]
      BY <1>3, <2>1 DEF HandToRadio
    <2>3. radio[<<p, m>>].handed = 0 /\ message_log[m].status # "queued"
      BY <2>1 DEF GatewayInv, OnceInv, UntouchedInv
    <2>4. PICK log \in RadioLog : log = radio[<<p, m>>]
      BY <1>1
    <2>5. Taken(log).handed = 1 /\ Taken(log).good = log.good
      BY <2>3, <2>4 DEF Taken, RadioLog
    <2>6. HandedTimes' = [HandedTimes EXCEPT ![<<p, m>>] = 1]
      BY <1>1, <2>2, <2>4, <2>5 DEF HandedTimes
    <2>7. GoneOut' = GoneOut
      BY <1>1, <2>2, <2>4, <2>5 DEF GoneOut
    <2>8. HandedTimes[<<p, m>>] = 0 /\ Told[m] # "queued"
      BY <2>3 DEF HandedTimes, Told
    <2>9. Promise!Taken(p, m)
      BY <1>2, <2>6, <2>7, <2>8 DEF Promise!Taken, Told, Outcomes, HandedTimes, GoneOut
    <2> QED BY <2>9
  <1>4. ASSUME NEW m \in Message, NEW ok \in BOOLEAN, radio[<<p, m>>].left > 0,
               radio' = [radio EXCEPT ![<<p, m>>] = Reported(radio[<<p, m>>], ok)]
        PROVE  Promise!WentOut(p, m) \/ UNCHANGED courierVars
    <2>1. PICK log \in RadioLog : log = radio[<<p, m>>]
      BY <1>1
    <2>2. /\ Reported(log, ok).handed = log.handed /\ log.handed \in Nat /\ log.good \in Nat
          /\ Reported(log, ok).good \in {log.good, log.good + 1}
      BY DEF Reported, RadioLog
    <2>3. HandedTimes' = HandedTimes
      BY <1>1, <1>4, <2>1, <2>2 DEF HandedTimes
    <2>4. HandedTimes[<<p, m>>] = 1
      <3>1. log.handed # 0 /\ log.handed <= 1
        BY <1>4, <2>1 DEF UntouchedInv, GatewayInv, OnceInv
      <3> QED BY <2>1, <2>2, <3>1 DEF HandedTimes
    <2>5. GoneOut' = GoneOut \/ GoneOut' = GoneOut \cup {<<p, m>>}
      <3>1. \A pm \in Phone \X Message : pm # <<p, m>> => radio'[pm] = radio[pm]
        BY <1>1, <1>4
      <3>2. radio'[<<p, m>>] = Reported(log, ok)
        BY <1>1, <1>4, <2>1
      <3>3. log.good >= Parts => Reported(log, ok).good >= Parts
        BY <2>2, PartsAssumption
      <3> QED BY <2>1, <3>1, <3>2, <3>3 DEF GoneOut
    <2> QED BY <1>2, <2>3, <2>4, <2>5
            DEF Promise!WentOut, courierVars, Told, Outcomes, HandedTimes, GoneOut
  <1> QED BY <1>3, <1>4

(* Every step of the gateway is a step of the courier, or none. *)
LEMMA CourierStep ==
    ASSUME TypeOK, GatewayInv, UntouchedInv, [Next]_vars
    PROVE  [Promise!Next]_courierVars
  <1>1. CASE UNCHANGED vars
    BY <1>1 DEF vars, serverVars, handsetVars, courierVars, Told, Outcomes, HandedTimes, GoneOut
  <1>2. CASE Next /\ UNCHANGED radio
    <2>1. \A m \in Message : Moves(m)
      BY <1>2, MoveStep
    <2>2. UNCHANGED <<HandedTimes, GoneOut>>
      BY <1>2 DEF HandedTimes, GoneOut
    <2>3. /\ Told' = [m \in Message |-> Told'[m]]
          /\ Outcomes' = [m \in Message |-> Outcomes'[m]]
      BY DEF Told, Outcomes
    <2>4. Promise!Reported
      BY <2>1, <2>2, <2>3
         DEF Moves, Stays, Told, Outcomes, HandedTimes, GoneOut,
             Promise!Reported, Promise!HandedOver, Promise!Confirmed, Promise!WrittenOff
    <2> QED BY <2>4 DEF Promise!Next
  <1>3. CASE Next /\ ~UNCHANGED radio
    BY <1>3, RadioStep, AirStep DEF Promise!Next
  <1> QED BY <1>1, <1>2, <1>3

(* Polls, claims, leases, receipts, sweeps, lost answers, crashes and retries
   implement the courier: nothing is taken before it is handed over, twice by
   one phone, confirmed before it is gone, given up in silence or changed
   after its outcome, for any number of phones and messages. *)
THEOREM PromiseKept == Spec => KeepsPromise
  <1>1. Init => UntouchedInv
    BY SentinelAssumption DEF Init, ServerInit, HandsetInit, UntouchedInv, Offered, FreeSlot, NoRow
  <1>2. TypeOK /\ UntouchedInv /\ [Next]_vars => UntouchedInv'
    <2>1. ASSUME UntouchedInv, UNCHANGED vars PROVE UntouchedInv'
      BY <2>1 DEF vars, serverVars, handsetVars, UntouchedInv, Offered
    <2> QED BY <2>1, UntouchedStep
  <1>3. Init => Promise!Init
    BY PartsAssumption DEF Init, ServerInit, HandsetInit, Promise!Init, OutcomeOf
  <1>4. TypeOK /\ GatewayInv /\ UntouchedInv /\ [Next]_vars => [Promise!Next]_courierVars
    BY CourierStep
  <1> QED BY <1>1, <1>2, <1>3, <1>4, TypeCorrect, GatewayInvariant, PTL
          DEF Spec, KeepsPromise, Promise!Spec, Promise!vars, courierVars,
              Told, Outcomes, HandedTimes, GoneOut
=============================================================================
