------------------------- MODULE OfflineWritesProofs --------------------------
(***************************************************************************)
(* Theorems about OfflineWrites, for every number of presses, keys, users, *)
(* open tabs and requests in flight.                                       *)
(***************************************************************************)
EXTENDS OfflineWrites, FiniteSetTheorems, TLAPS

Pcs == {"free", "gates", "claim", "look", "run", "settle", "answered"}

(* What a request that moves on keeps, and the others. *)
LEMMA MovedFields ==
    ASSUME ServerTypeOK, NEW c \in Slot, NEW pc, NEW res, call' = Moved(c, pc, res)
    PROVE  /\ call'[c].pc = pc /\ call'[c].res = res
           /\ call'[c].key = call[c].key /\ call'[c].write = call[c].write
           /\ call'[c].user = call[c].user
           /\ \A d \in Slot : d # c => call'[d] = call[d]
  <1>1. call[c] \in Request
    BY DEF ServerTypeOK
  <1>2. call' = [call EXCEPT ![c] = [call[c] EXCEPT !.pc = pc, !.res = res]]
    BY DEF Moved
  <1>3. call'[c] = [call[c] EXCEPT !.pc = pc, !.res = res]
    BY <1>2 DEF ServerTypeOK
  <1>4. /\ call'[c].pc = pc /\ call'[c].res = res
        /\ call'[c].key = call[c].key /\ call'[c].write = call[c].write
        /\ call'[c].user = call[c].user
    BY <1>1, <1>3 DEF Request
  <1>5. \A d \in Slot : d # c => call'[d] = call[d]
    BY <1>2 DEF ServerTypeOK
  <1> QED BY <1>4, <1>5

LEMMA MovedFacts ==
    ASSUME ServerTypeOK, NEW c \in Slot, NEW pc \in Pcs, NEW res \in Answers \cup {"none"},
           call' = Moved(c, pc, res), call[c].pc # "free", pc = "settle" => res \in Results,
           pc \in {"claim", "look", "run", "settle"} => call[c].user \in User
    PROVE  /\ call' \in [Slot -> Request]
           /\ \A d \in Slot : call'[d].pc # "free" => call'[d].key \in Key /\ call'[d].write \in Write
           /\ \A d \in Slot : call'[d].pc = "settle" => call'[d].res \in Results
           /\ \A d \in Slot :
                 call'[d].pc \in {"claim", "look", "run", "settle"} => call'[d].user \in User
  <1>1. call[c] \in Request
    BY DEF ServerTypeOK
  <1>2. [call[c] EXCEPT !.pc = pc, !.res = res] \in Request
    BY <1>1 DEF Request, Pcs
  <1>3. call' \in [Slot -> Request]
    BY <1>2 DEF Moved, ServerTypeOK
  <1> QED BY <1>3, MovedFields DEF ServerTypeOK

LEMMA ReplyType ==
    ASSUME ServerTypeOK, NEW c \in Slot, call[c].pc # "free"
    PROVE  Replied(c) \in Answers \cup {"none"}
  BY DEF ServerTypeOK, Replied, Receipt, Answers, Results, Kept

LEMMA ReceiptTypes ==
    ASSUME ServerTypeOK, NEW c \in Slot, call[c].pc # "free", NEW k \in Key, NEW res \in Kept
    PROVE  /\ NoReceipt \in Receipt
           /\ Claimed(c) \in Receipt
           /\ Answered(receipt[k], res) \in Receipt
  <1>1. call[c] \in Request /\ receipt[k] \in Receipt
    BY DEF ServerTypeOK
  <1>2. NoReceipt \in Receipt
    BY DEF NoReceipt, Receipt
  <1>3. Claimed(c) \in Receipt
    BY <1>1 DEF Claimed, Receipt, Request
  <1>4. Answered(receipt[k], res) \in Receipt
    BY <1>1 DEF Answered, Receipt
  <1> QED BY <1>2, <1>3, <1>4

(* Every step of the middleware keeps the types. *)
LEMMA HandleType ==
    ASSUME ServerTypeOK, NEW c \in Slot, Handle(c) \/ Killed(c)
    PROVE  ServerTypeOK'
  <1>0. call[c] \in Request
    BY DEF ServerTypeOK
  <1>1. CASE Gates(c)
    <2>1. PICK pc \in {"claim", "answered"}, res \in {"none", "refused"} :
             /\ call[c].pc # "free" /\ call' = Moved(c, pc, res)
             /\ pc = "claim" => call[c].user # NoUser
      BY <1>1 DEF Gates
    <2>2. /\ pc \in Pcs /\ res \in Answers \cup {"none"}
          /\ pc = "claim" => call[c].user \in User
      BY <1>0, <2>1 DEF Pcs, Answers, Results, Kept, Request
    <2> QED BY <1>1, <2>1, <2>2, MovedFacts DEF Gates, ServerTypeOK
  <1>2. CASE Claim(c)
    <2>1. /\ call[c].pc # "free" /\ call[c].user \in User
          /\ call' = Moved(c, "run", "none") \/ call' = Moved(c, "look", "none")
      BY <1>2 DEF Claim, ServerTypeOK
    <2>2. /\ call' \in [Slot -> Request]
          /\ \A d \in Slot : call'[d].pc # "free" => call'[d].key \in Key /\ call'[d].write \in Write
          /\ \A d \in Slot : call'[d].pc = "settle" => call'[d].res \in Results
          /\ \A d \in Slot :
                call'[d].pc \in {"claim", "look", "run", "settle"} => call'[d].user \in User
      BY <2>1, MovedFacts DEF Pcs
    <2>3. call[c].key \in Key
      BY <2>1 DEF ServerTypeOK
    <2>4. Claimed(c) \in Receipt
      BY <2>1, <2>3, ReceiptTypes DEF Kept
    <2>5. receipt' \in [Key -> Receipt] /\ old' \subseteq Key /\ forgotten' \in [Key -> Nat]
      BY <1>2, <2>3, <2>4 DEF Claim, ServerTypeOK
    <2>6. Claimed(c).write \in Write
      BY <2>1 DEF Claimed, ServerTypeOK
    <2>7. \A k \in Key : receipt'[k].state # "none" => receipt'[k].write \in Write
      BY <1>2, <2>3, <2>6 DEF Claim, ServerTypeOK
    <2> QED BY <1>2, <2>2, <2>5, <2>7 DEF Claim, ServerTypeOK
  <1>3. CASE Look(c)
    BY <1>3, MovedFacts, ReplyType DEF Look, ServerTypeOK, Pcs
  <1>4. CASE \E res \in Results : Run(c, res)
    <2>1. PICK res \in Results : Run(c, res)
      BY <1>4
    <2>2. /\ call[c].pc # "free" /\ call[c].key \in Key /\ call[c].write \in Write
          /\ call[c].user \in User
      BY <2>1 DEF Run, ServerTypeOK
    <2>3. res \in Answers \cup {"none"}
      BY DEF Answers
    <2>4. worked' \in [Key -> SUBSET Write] /\ done' \in [Key -> Nat]
      BY <2>1, <2>2 DEF Run, ServerTypeOK
    <2> QED BY <2>1, <2>2, <2>3, <2>4, MovedFacts DEF Run, ServerTypeOK, Pcs
  <1>5. CASE Settle(c)
    <2>1. call[c].pc # "free" /\ call[c].key \in Key
      BY <1>5 DEF Settle, ServerTypeOK
    <2>2. call[c].res \in Results /\ call[c].res \in Answers \cup {"none"}
      BY <1>0, <1>5 DEF Settle, ServerTypeOK, Request
    <2>3. NoReceipt \in Receipt
      BY DEF NoReceipt, Receipt
    <2>4. call[c].res # "error" => Answered(receipt[call[c].key], call[c].res) \in Receipt
      BY <2>1, <2>2, ReceiptTypes DEF Results
    <2>5. receipt' \in [Key -> Receipt] /\ old' \subseteq Key
      BY <1>5, <2>1, <2>3, <2>4 DEF Settle, ServerTypeOK
    <2>6. \A r \in Receipt : \A res \in Kept : Answered(r, res).write = r.write
      BY DEF Answered, Receipt
    <2>7. receipt[call[c].key] \in Receipt /\ NoReceipt.state = "none"
      BY <2>1 DEF ServerTypeOK, NoReceipt
    <2>8. \A k \in Key : receipt'[k].state # "none" => receipt'[k].write \in Write
      BY <1>5, <2>1, <2>2, <2>6, <2>7 DEF Settle, ServerTypeOK, Results
    <2> QED BY <1>5, <2>1, <2>2, <2>5, <2>8, MovedFacts DEF Settle, ServerTypeOK, Pcs
  <1>6. CASE SettleFails(c)
    <2>1. call[c].pc # "free" /\ call[c].res \in Answers \cup {"none"}
      BY <1>0, <1>6 DEF SettleFails, Request
    <2> QED BY <1>6, <2>1, MovedFacts DEF SettleFails, ServerTypeOK, Pcs
  <1>7. CASE Killed(c)
    <2>1. call[c].pc # "free" /\ "error" \in Answers
      BY <1>7 DEF Killed, Answers, Results
    <2> QED BY <1>7, <2>1, MovedFacts DEF Killed, ServerTypeOK, Pcs
  <1> QED BY <1>1, <1>2, <1>3, <1>4, <1>5, <1>6, <1>7 DEF Handle

(* No step of the middleware frees a slot. *)
LEMMA HandleStays ==
    ASSUME ServerTypeOK, NEW c \in Slot, Handle(c) \/ Killed(c)
    PROVE  \A d \in Slot : call[d].pc # "free" => call'[d].pc # "free"
  <1>0. call[c] \in Request
    BY DEF ServerTypeOK
  <1>1. PICK pc, res : call' = Moved(c, pc, res) /\ pc # "free"
    BY DEF Handle, Killed, Gates, Claim, Look, Run, Settle, SettleFails
  <1>2. call'[c] = [call[c] EXCEPT !.pc = pc, !.res = res]
        /\ \A d \in Slot : d # c => call'[d] = call[d]
    BY <1>1 DEF Moved, ServerTypeOK
  <1> QED BY <1>0, <1>1, <1>2 DEF Request

(* A request arrives with a key minted for its press, or its slot is freed. *)
LEMMA ArriveFacts ==
    ASSUME ServerTypeOK, NEW c \in Slot, NEW k \in Key, NEW w \in Write,
           NEW u \in User \cup {NoUser}, Arrive(c, k, u, w)
    PROVE  /\ ServerTypeOK'
           /\ call[c].pc = "free"
           /\ call'[c].key = k /\ call'[c].write = w /\ call'[c].user = u
           /\ call'[c].pc = "gates" /\ call'[c].res = "none"
           /\ \A d \in Slot : d # c => call'[d] = call[d]
           /\ UNCHANGED <<receipt, old, worked, done, forgotten>>
  <1> DEFINE new == [pc |-> "gates", key |-> k, user |-> u, write |-> w, res |-> "none"]
  <1>1. new \in Request
    BY DEF Request
  <1>2. call' = [call EXCEPT ![c] = new]
    BY DEF Arrive
  <1>3. call'[c] = new /\ \A d \in Slot : d # c => call'[d] = call[d]
    BY <1>2 DEF ServerTypeOK
  <1>4. call' \in [Slot -> Request]
    BY <1>1, <1>2 DEF ServerTypeOK
  <1>5. UNCHANGED <<receipt, old, worked, done, forgotten>> /\ call[c].pc = "free"
    BY DEF Arrive
  <1> QED BY <1>3, <1>4, <1>5 DEF ServerTypeOK

LEMMA FreeFacts ==
    ASSUME ServerTypeOK, NEW c \in Slot, Free(c)
    PROVE  /\ ServerTypeOK'
           /\ call'[c] = FreeSlot
           /\ \A d \in Slot : d # c => call'[d] = call[d]
           /\ UNCHANGED <<receipt, old, worked, done, forgotten>>
  <1>1. FreeSlot \in Request
    BY DEF FreeSlot, Request
  <1>2. call'[c] = FreeSlot /\ \A d \in Slot : d # c => call'[d] = call[d]
    BY DEF Free, ServerTypeOK
  <1>3. FreeSlot.pc = "free"
    BY DEF FreeSlot
  <1> QED BY <1>1, <1>2, <1>3 DEF Free, ServerTypeOK

LEMMA AgesAndPruneType ==
    ASSUME ServerTypeOK, NEW k \in Key, ClaimAges(k) \/ PruneReceipt(k)
    PROVE  ServerTypeOK'
  <1>1. NoReceipt \in Receipt
    BY DEF NoReceipt, Receipt
  <1>2. NoReceipt.state = "none"
    BY DEF NoReceipt
  <1> QED BY <1>1, <1>2 DEF ServerTypeOK, ClaimAges, PruneReceipt

(***************************************************************************)
(* The ways a step of the system can touch the server.                     *)
(***************************************************************************)
ServerStep ==
    \/ \E c \in Slot : Handle(c) \/ Killed(c)
    \/ \E c \in Slot, k \in Key, w \in Write : minted'[k] = w /\ Arrive(c, k, cookie, w)
    \/ \E c \in Slot : call[c].pc \in {"gates", "answered"} /\ Free(c)
    \/ \E k \in Key : ClaimAges(k) \/ PruneReceipt(k)
    \/ UNCHANGED serverVars

LEMMA SnapshotType ==
    ASSUME NEW rows, NEW u
    PROVE  Snapshot(rows, u) \in SUBSET (Write \X Key)
  BY DEF Snapshot

LEMMA FlushedType ==
    ASSUME OutboxTypeOK, NEW t \in Tab, NEW rows, NEW u
    PROVE  Flushed(t, rows, u) \in [Tab -> SUBSET (Write \X Key)]
  BY SnapshotType DEF Flushed, OutboxTypeOK

LEMMA RowTypes ==
    ASSUME NEW r \in Row, NEW k \in Key, NEW u \in User \cup {NoUser},
           NEW st \in {"over", "pending", "stale", "sent", "failed", "conflict", "discarded"}
    PROVE  /\ [r EXCEPT !.state = st] \in Row
           /\ [r EXCEPT !.state = "pending", !.user = u] \in Row
           /\ [r EXCEPT !.state = "pending", !.key = k, !.again = "no"] \in Row
           /\ [r EXCEPT !.state = "pending", !.again = "yes"] \in Row
           /\ [state |-> "sending", key |-> k, author |-> u, user |-> u, again |-> "no"] \in Row
  BY DEF Row

LEMMA StateOfType ==
    ASSUME NEW res
    PROVE  StateOf(res) \in {"sent", "failed", "conflict"}
  BY DEF StateOf

(* Type correctness, one step per action. *)
LEMMA StepType ==
    ASSUME TypeOK, [Next]_vars
    PROVE  TypeOK'
  <1> USE DEF TypeOK
  <1>0. Nobody \in Listener /\ \A t \in Tab, kind \in {"screen", "pass"} :
            [kind |-> kind, tab |-> t] \in Listener
    BY DEF Nobody, Listener
  <1>1. CASE Server
    <2>1. ServerTypeOK'
      BY <1>1, HandleType, AgesAndPruneType DEF Server
    <2>2. Attended'
      BY <1>1, HandleStays DEF Server, Attended, ClaimAges
    <2> QED BY <1>1, <2>1, <2>2 DEF Server, outboxVars, OutboxTypeOK
  <1>2. ASSUME NEW t \in Tab, NEW w \in Write, NEW k \in Key, NEW c \in Slot, Press(t, w, k, c)
        PROVE  TypeOK'
    <2>1. who[t] \in User \cup {NoUser} /\ cookie \in User \cup {NoUser} /\ Arrive(c, k, cookie, w)
      BY <1>2 DEF OutboxTypeOK, Press
    <2>2. [state |-> "sending", key |-> k, author |-> who[t], user |-> who[t], again |-> "no"] \in Row
      BY <2>1 DEF Row
    <2>3. OutboxTypeOK'
      BY <1>2, <2>2 DEF Press, Mint, OutboxTypeOK
    <2>4. ServerTypeOK' /\ call'[c].pc = "gates" /\ \A d \in Slot : d # c => call'[d] = call[d]
      BY <2>1, ArriveFacts
    <2>5. listener' = [listener EXCEPT ![c] = [kind |-> "screen", tab |-> t]]
      BY <1>2 DEF Press
    <2>6. listener' \in [Slot -> Listener] /\ Attended'
      BY <1>0, <2>4, <2>5 DEF Attended
    <2> QED BY <2>3, <2>4, <2>6
  <1>3. ASSUME NEW w \in Write, GrowsStale(w) \/ \E t \in Tab : Discard(t, w),
               UNCHANGED <<serverVars, listener>>
        PROVE  TypeOK'
    <2>1. row[w] \in Row
      BY DEF OutboxTypeOK
    <2>2. [row[w] EXCEPT !.state = "discarded"] \in Row /\ [row[w] EXCEPT !.state = "stale"] \in Row
      BY <2>1 DEF Row
    <2>3. OutboxTypeOK'
      BY <1>3, <2>2 DEF Discard, GrowsStale, OutboxTypeOK
    <2> QED BY <1>3, <2>3 DEF serverVars, ServerTypeOK, Attended
  <1>4. ASSUME NEW t \in Tab, NEW w \in Write, NEW k \in Key, Retry(t, w, k),
               UNCHANGED <<serverVars, listener>>
        PROVE  TypeOK'
    <2>1. row[w] \in Row
      BY DEF OutboxTypeOK
    <2>2. /\ [row[w] EXCEPT !.state = "pending", !.key = k, !.again = "no"] \in Row
          /\ [row[w] EXCEPT !.state = "pending", !.again = "yes"] \in Row
      BY <2>1 DEF Row
    <2>3. row' \in [Write -> Row] /\ minted' \in [Key -> Write \cup {NoWrite}]
      BY <1>4, <2>2 DEF Retry, Mint, OutboxTypeOK
    <2>4. pass' \in [Tab -> SUBSET (Write \X Key)]
      BY <1>4, FlushedType DEF Retry
    <2> QED BY <1>4, <2>3, <2>4 DEF Retry, OutboxTypeOK, serverVars, ServerTypeOK, Attended
  <1>5. ASSUME NEW u \in User \cup {NoUser}, SignIn(u), UNCHANGED <<serverVars, listener>>
        PROVE  TypeOK'
    BY <1>5 DEF SignIn, OutboxTypeOK, serverVars, ServerTypeOK, Attended
  <1>6. ASSUME NEW t \in Tab, Reload(t)
        PROVE  TypeOK'
    <2>1. \A w \in Write : row[w] \in Row /\ [row[w] EXCEPT !.state = "over"] \in Row
      BY DEF OutboxTypeOK, Row
    <2>2. row' \in [Write -> Row]
      BY <1>6, <2>1 DEF Reload
    <2>3. Snapshot(row, cookie) \in SUBSET (Write \X Key)
      BY SnapshotType
    <2>4. OutboxTypeOK'
      BY <1>6, <2>2, <2>3 DEF Reload, OutboxTypeOK
    <2>5. listener' = [c \in Slot |-> IF listener[c].tab = t THEN Nobody ELSE listener[c]]
          /\ UNCHANGED serverVars
      BY <1>6 DEF Reload
    <2>6. listener' \in [Slot -> Listener] /\ Attended'
      BY <1>0, <2>5 DEF Attended, Nobody, serverVars
    <2> QED BY <2>4, <2>5, <2>6 DEF serverVars, ServerTypeOK
  <1>7. ASSUME NEW t \in Tab, StartPass(t) \/ SessionRefetched(t), UNCHANGED <<serverVars, listener>>
        PROVE  TypeOK'
    <2>1. pass' \in [Tab -> SUBSET (Write \X Key)]
      BY <1>7, FlushedType DEF StartPass, SessionRefetched
    <2> QED BY <1>7, <2>1 DEF StartPass, SessionRefetched, OutboxTypeOK, serverVars, ServerTypeOK,
                              Attended
  <1>8. ASSUME NEW t \in Tab, NEW c \in Slot, SendNext(t, c)
        PROVE  TypeOK'
    <2>1. PICK e \in pass[t] : Arrive(c, e[2], cookie, e[1])
      BY <1>8 DEF SendNext, Oldest
    <2>2. e[1] \in Write /\ e[2] \in Key /\ cookie \in User \cup {NoUser}
      BY DEF OutboxTypeOK
    <2>3. ServerTypeOK' /\ call'[c].pc = "gates" /\ \A d \in Slot : d # c => call'[d] = call[d]
      BY <2>1, <2>2, ArriveFacts
    <2>4. listener' = [listener EXCEPT ![c] = [kind |-> "pass", tab |-> t]]
      BY <1>8 DEF SendNext
    <2>5. listener' \in [Slot -> Listener] /\ Attended'
      BY <1>0, <2>3, <2>4 DEF Attended
    <2> QED BY <1>8, <2>3, <2>5 DEF SendNext, outboxVars, OutboxTypeOK
  <1>9. ASSUME NEW t \in Tab, BackOff(t)
        PROVE  TypeOK'
    BY <1>9 DEF BackOff, EndPass, OutboxTypeOK, serverVars, ServerTypeOK, Attended
  <1>h. ASSUME NEW c \in Slot, Hung(c), Free(c) \/ UNCHANGED serverVars
        PROVE  ServerTypeOK' /\ listener' \in [Slot -> Listener] /\ Attended'
    <2>1. ServerTypeOK' /\ \A d \in Slot : d # c => call'[d] = call[d]
      BY <1>h, FreeFacts DEF serverVars, ServerTypeOK
    <2>2. listener' = [listener EXCEPT ![c] = Nobody]
      BY <1>h DEF Hung
    <2> QED BY <1>0, <2>1, <2>2 DEF Attended, Nobody
  <1>10. ASSUME NEW c \in Slot, ScreenAnswered(c)
         PROVE  TypeOK'
    <2>1. call[c].write \in Write
      BY <1>10 DEF ScreenAnswered, ServerTypeOK
    <2>2. row[call[c].write] \in Row
      BY <2>1 DEF OutboxTypeOK
    <2>3. [row[call[c].write] EXCEPT !.state = "over"] \in Row
      BY <2>2 DEF Row
    <2> QED BY <1>h, <1>10, <2>1, <2>3 DEF ScreenAnswered, OutboxTypeOK
  <1>11. ASSUME NEW c \in Slot, PassAnswered(c)
         PROVE  TypeOK'
    <2>1. call[c].write \in Write
      BY <1>11 DEF PassAnswered, ServerTypeOK
    <2>2. row[call[c].write] \in Row
      BY <2>1 DEF OutboxTypeOK
    <2>3. [row[call[c].write] EXCEPT !.state = StateOf(call[c].res)] \in Row
      BY <2>2, StateOfType DEF Row
    <2>4. row' \in [Write -> Row]
      BY <1>11, <2>1, <2>3 DEF PassAnswered, Marked, OutboxTypeOK
    <2>5. pass' \in [Tab -> SUBSET (Write \X Key)]
      BY <1>11 DEF PassAnswered, EndPass, OutboxTypeOK
    <2> QED BY <1>h, <1>11, <2>4, <2>5 DEF PassAnswered, OutboxTypeOK
  <1>12. ASSUME NEW c \in Slot, NoResponse(c)
         PROVE  TypeOK'
    <2>1. CASE Waits(c, "screen")
      <3>1. call[c].write \in Write /\ listener[c].tab \in Tab
        BY <2>1 DEF Waits, Attended, ServerTypeOK
      <3>2. row[call[c].write] \in Row /\ who[listener[c].tab] \in User \cup {NoUser}
        BY <3>1 DEF OutboxTypeOK
      <3>3. [row[call[c].write] EXCEPT !.state = "pending", !.user = who[listener[c].tab]] \in Row
        BY <3>2 DEF Row
      <3>4. row' \in [Write -> Row] /\ queue' \in Seq(Write) /\ UNCHANGED pass
        BY <1>12, <2>1, <3>1, <3>3 DEF NoResponse, Enqueued, OutboxTypeOK
      <3> QED BY <1>h, <1>12, <3>4 DEF NoResponse, OutboxTypeOK
    <2>2. CASE ~Waits(c, "screen")
      <3>1. pass' \in [Tab -> SUBSET (Write \X Key)] /\ UNCHANGED <<row, queue>>
        BY <1>12, <2>2 DEF NoResponse, EndPass, OutboxTypeOK
      <3> QED BY <1>h, <1>12, <3>1 DEF NoResponse, OutboxTypeOK
    <2> QED BY <2>1, <2>2
  <1>13. ASSUME NEW c \in Slot, ResponseLost(c)
         PROVE  TypeOK'
    <2>1. ServerTypeOK' /\ \A d \in Slot : d # c => call'[d] = call[d]
      BY <1>13, FreeFacts DEF ResponseLost
    <2>2. Attended' /\ listener' = listener
      BY <1>13, <2>1 DEF ResponseLost, Attended, Nobody
    <2> QED BY <1>13, <2>1, <2>2 DEF ResponseLost, outboxVars, OutboxTypeOK
  <1>14. ASSUME NEW k \in Key, Prune(k)
         PROVE  TypeOK'
    <2>1. ServerTypeOK'
      BY <1>14, AgesAndPruneType DEF Prune
    <2> QED BY <1>14, <2>1 DEF Prune, PruneReceipt, outboxVars, OutboxTypeOK, Attended
  <1>15. CASE UNCHANGED vars
    BY <1>15 DEF vars, serverVars, outboxVars, ServerTypeOK, OutboxTypeOK, Attended
  <1> QED BY <1>1, <1>2, <1>3, <1>4, <1>5, <1>6, <1>7, <1>8, <1>9, <1>10, <1>11, <1>12, <1>13,
             <1>14, <1>15 DEF Next, Person, Page, Network

(* Every table row, list row, snapshot and request of the offline writes keeps
   its type: the whole program of a keyed write, from the press to the answer. *)
THEOREM WritesTypeCorrect == Spec => []TypeOK
  <1>1. Init => TypeOK
    <2> SUFFICES ASSUME Init PROVE TypeOK
      OBVIOUS
    <2>1. ServerTypeOK
      <3>1. /\ NoReceipt \in Receipt /\ NoReceipt.state = "none"
            /\ FreeSlot \in Request /\ FreeSlot.pc = "free"
        BY DEF NoReceipt, Receipt, FreeSlot, Request
      <3> QED BY <3>1 DEF Init, ServerInit, ServerTypeOK
    <2>2. OutboxTypeOK
      <3>1. NoRow \in Row
        BY DEF NoRow, Row
      <3> QED BY <3>1 DEF Init, OutboxInit, OutboxTypeOK
    <2>3. listener \in [Slot -> Listener] /\ Attended
      BY DEF Init, Nobody, Listener, Attended
    <2> QED BY <2>1, <2>2, <2>3 DEF TypeOK
  <1>2. TypeOK /\ [Next]_vars => TypeOK'
    BY StepType
  <1> QED BY <1>1, <1>2, PTL DEF Spec
=============================================================================
