------------------------- MODULE OfflineWritesSafety --------------------------
(***************************************************************************)
(* The safety theorems of the offline writes.  WriteInv is inductive       *)
(* relative to TypeOK; its parts are proved preserved one by one:          *)
(*                                                                         *)
(*   ClaimInv          counts, per key, the completed runs and the runs    *)
(*                     that may still complete or have yet to release the  *)
(*                     key, against the row and the rows thrown away;      *)
(*   KeyNamesOnePress  ties every copy of a key to the press it was minted *)
(*                     for, which Settle (by key alone) needs;             *)
(*   AnswerInv         an "ok" anywhere is the result of a run;            *)
(*   SentMeansDone     the tick the person sees.                           *)
(***************************************************************************)
EXTENDS OfflineWritesProofs

(* What a step of the system does to the requests of one key. *)
LEMMA NextIsServerStep ==
    ASSUME TypeOK, KeyNamesOnePress, [Next]_vars
    PROVE  ServerStep
  <1> USE DEF TypeOK
  <1>1. CASE Server
    BY <1>1 DEF Server, ServerStep
  <1>2. ASSUME NEW t \in Tab, NEW w \in Write, NEW k \in Key, NEW c \in Slot, Press(t, w, k, c)
        PROVE  ServerStep
    <2>1. minted'[k] = w /\ Arrive(c, k, cookie, w)
      BY <1>2 DEF Press, Mint, OutboxTypeOK
    <2> QED BY <2>1 DEF ServerStep
  <1>3. ASSUME NEW t \in Tab, NEW c \in Slot, SendNext(t, c)
        PROVE  ServerStep
    <2>1. PICK e \in pass[t] : Arrive(c, e[2], cookie, e[1])
      BY <1>3 DEF SendNext, Oldest
    <2>2. e[1] \in Write /\ e[2] \in Key
      BY DEF OutboxTypeOK
    <2>3. minted'[e[2]] = e[1]
      BY <1>3 DEF SendNext, outboxVars, KeyNamesOnePress
    <2> QED BY <2>1, <2>2, <2>3 DEF ServerStep
  <1>4. ASSUME NEW c \in Slot,
               ScreenAnswered(c) \/ PassAnswered(c) \/ NoResponse(c) \/ ResponseLost(c)
        PROVE  ServerStep
    <2>1. UNCHANGED serverVars \/ (call[c].pc \in {"gates", "answered"} /\ Free(c))
      BY <1>4 DEF ScreenAnswered, PassAnswered, NoResponse, ResponseLost
    <2> QED BY <2>1 DEF ServerStep
  <1>5. ASSUME NEW k \in Key, Prune(k)
        PROVE  ServerStep
    BY <1>5 DEF Prune, ServerStep
  <1>6. CASE UNCHANGED serverVars
    BY <1>6 DEF ServerStep
  <1>7. ASSUME NEW t \in Tab, Reload(t) \/ BackOff(t)
        PROVE  UNCHANGED serverVars
    BY <1>7 DEF Reload, BackOff
  <1> QED BY <1>1, <1>2, <1>3, <1>4, <1>5, <1>6, <1>7 DEF Next, Person, Page, Network, vars

-----------------------------------------------------------------------------
(* The count of one key's runs. *)
LEMMA UnpaidFinite ==
    ASSUME NEW k
    PROVE  IsFiniteSet(Unpaid(k)) /\ Cardinality(Unpaid(k)) \in Nat
  <1>1. Unpaid(k) \subseteq Slot
    BY DEF Unpaid
  <1> QED BY <1>1, SlotAssumption, FS_Subset, FS_CardinalityType

LEMMA UnpaidMoved ==
    ASSUME ServerTypeOK, NEW c \in Slot, NEW pc, NEW res, call' = Moved(c, pc, res), NEW k \in Key
    PROVE  Unpaid(k)' = IF k = call[c].key /\ (pc = "run" \/ (pc = "settle" /\ res = "error"))
                        THEN Unpaid(k) \cup {c} ELSE Unpaid(k) \ {c}
  <1>1. /\ call'[c].pc = pc /\ call'[c].res = res /\ call'[c].key = call[c].key
        /\ \A d \in Slot : d # c => call'[d] = call[d]
    BY MovedFields
  <1> QED BY <1>1 DEF Unpaid

LEMMA CardChange ==
    ASSUME NEW k, NEW c
    PROVE  /\ c \notin Unpaid(k) => Cardinality(Unpaid(k) \cup {c}) = Cardinality(Unpaid(k)) + 1
           /\ c \in Unpaid(k) => Unpaid(k) \cup {c} = Unpaid(k)
           /\ c \in Unpaid(k) => Cardinality(Unpaid(k) \ {c}) = Cardinality(Unpaid(k)) - 1
           /\ c \notin Unpaid(k) => Unpaid(k) \ {c} = Unpaid(k)
           /\ Cardinality(Unpaid(k) \ {c}) <= Cardinality(Unpaid(k))
           /\ Cardinality(Unpaid(k)) \in Nat
           /\ Cardinality(Unpaid(k) \ {c}) \in Nat
  <1>1. IsFiniteSet(Unpaid(k)) /\ Cardinality(Unpaid(k)) \in Nat
    BY UnpaidFinite
  <1>2. IsFiniteSet(Unpaid(k) \ {c}) /\ Cardinality(Unpaid(k) \ {c}) =
            IF c \in Unpaid(k) THEN Cardinality(Unpaid(k)) - 1 ELSE Cardinality(Unpaid(k))
    BY <1>1, FS_RemoveElement
  <1>3. Cardinality(Unpaid(k) \cup {c}) =
            IF c \in Unpaid(k) THEN Cardinality(Unpaid(k)) ELSE Cardinality(Unpaid(k)) + 1
    BY <1>1, FS_AddElement
  <1>4. Cardinality(Unpaid(k) \ {c}) \in Nat
    BY <1>2, FS_CardinalityType
  <1> QED BY <1>1, <1>2, <1>3, <1>4

(* ClaimInv for one key. *)
Paid(k) ==
    /\ done[k] + Cardinality(Unpaid(k)) <=
          forgotten[k] + (IF receipt[k].state = "none" THEN 0 ELSE 1)
    /\ receipt[k].state = "none" => receipt[k] = NoReceipt

LEMMA ClaimStep ==
    ASSUME ServerTypeOK, ClaimInv, ServerStep, cookie \in User \cup {NoUser}
    PROVE  ClaimInv'
  <1> SUFFICES ASSUME NEW k \in Key PROVE Paid(k)'
    BY DEF ClaimInv, Paid
  <1>0. Paid(k) /\ done[k] \in Nat /\ forgotten[k] \in Nat /\ Cardinality(Unpaid(k)) \in Nat
    BY UnpaidFinite DEF ClaimInv, Paid, ServerTypeOK
  <1>s. ASSUME NEW c \in Slot, NEW pc, NEW res, call' = Moved(c, pc, res),
               ~(pc = "run" \/ (pc = "settle" /\ res = "error")),
               UNCHANGED <<receipt, done, forgotten>>
        PROVE  Paid(k)'
    <2>1. Unpaid(k)' = Unpaid(k) \ {c}
      BY <1>s, UnpaidMoved
    <2>2. Cardinality(Unpaid(k))' <= Cardinality(Unpaid(k)) /\ Cardinality(Unpaid(k))' \in Nat
      BY <2>1, CardChange
    <2> QED BY <1>0, <1>s, <2>2 DEF Paid
  <1>1. ASSUME NEW c \in Slot, Gates(c)
        PROVE  Paid(k)'
    BY <1>s, <1>1 DEF Gates
  <1>2. ASSUME NEW c \in Slot, Claim(c)
        PROVE  Paid(k)'
    <2>1. call[c].pc = "claim" /\ call[c].key \in Key
      BY <1>2 DEF Claim, ServerTypeOK
    <2>2. CASE receipt[call[c].key].state = "none" \/ Wreckage(call[c].key)
      <3>1. Unpaid(k)' = IF k = call[c].key THEN Unpaid(k) \cup {c} ELSE Unpaid(k) \ {c}
        BY <1>2, <2>1, <2>2, UnpaidMoved DEF Claim
      <3>2. c \notin Unpaid(k)
        BY <2>1 DEF Unpaid
      <3>3. UNCHANGED done
        BY <1>2 DEF Claim
      <3>4. CASE k = call[c].key
        <4>1. Cardinality(Unpaid(k))' = Cardinality(Unpaid(k)) + 1
          BY <3>1, <3>2, <3>4, CardChange
        <4>2. receipt'[k].state = "claimed"
          BY <1>2, <2>1, <2>2, <3>4 DEF Claim, Claimed, ServerTypeOK
        <4>3. forgotten'[k] = IF receipt[k].state = "none" THEN forgotten[k] ELSE forgotten[k] + 1
          BY <1>2, <2>1, <2>2, <3>4 DEF Claim, Wreckage, ServerTypeOK
        <4> QED BY <1>0, <3>3, <4>1, <4>2, <4>3 DEF Paid
      <3>5. CASE k # call[c].key
        <4>1. Unpaid(k)' = Unpaid(k)
          BY <3>1, <3>2, <3>5
        <4>2. receipt'[k] = receipt[k] /\ forgotten'[k] = forgotten[k]
          BY <1>2, <2>1, <2>2, <3>5 DEF Claim, ServerTypeOK
        <4> QED BY <1>0, <3>3, <4>1, <4>2 DEF Paid
      <3> QED BY <3>4, <3>5
    <2>3. CASE ~(receipt[call[c].key].state = "none" \/ Wreckage(call[c].key))
      BY <1>s, <1>2, <2>1, <2>3 DEF Claim
    <2> QED BY <2>2, <2>3
  <1>3. ASSUME NEW c \in Slot, Look(c)
        PROVE  Paid(k)'
    BY <1>s, <1>3 DEF Look
  <1>4. ASSUME NEW c \in Slot, NEW res \in Results, Run(c, res)
        PROVE  Paid(k)'
    <2>1. call[c].pc = "run" /\ call[c].key \in Key
      BY <1>4 DEF Run, ServerTypeOK
    <2>2. Unpaid(k)' = IF k = call[c].key /\ res = "error" THEN Unpaid(k) \cup {c}
                       ELSE Unpaid(k) \ {c}
      BY <1>4, <2>1, UnpaidMoved DEF Run
    <2>3. c \in Unpaid(k) <=> k = call[c].key
      BY <2>1 DEF Unpaid
    <2>4. UNCHANGED <<receipt, forgotten>>
      BY <1>4 DEF Run
    <2>5. CASE k = call[c].key /\ res = "error"
      <3>1. Unpaid(k)' = Unpaid(k) /\ UNCHANGED done
        BY <1>4, <2>2, <2>3, <2>5 DEF Run, Kept
      <3> QED BY <1>0, <2>4, <3>1 DEF Paid
    <2>6. CASE k = call[c].key /\ res # "error"
      <3>1. Cardinality(Unpaid(k))' = Cardinality(Unpaid(k)) - 1
        BY <2>2, <2>3, <2>6, CardChange
      <3>2. done'[k] = done[k] + 1
        BY <1>4, <2>1, <2>6 DEF Run, Results, ServerTypeOK
      <3> QED BY <1>0, <2>4, <3>1, <3>2 DEF Paid
    <2>7. CASE k # call[c].key
      <3>1. Unpaid(k)' = Unpaid(k)
        BY <2>2, <2>3, <2>7
      <3>2. done'[k] = done[k]
        BY <1>4, <2>1, <2>7 DEF Run, ServerTypeOK
      <3> QED BY <1>0, <2>4, <3>1, <3>2 DEF Paid
    <2> QED BY <2>5, <2>6, <2>7
  <1>5. ASSUME NEW c \in Slot, Settle(c)
        PROVE  Paid(k)'
    <2>1. call[c].pc = "settle" /\ call[c].key \in Key /\ call[c].res \in Results
      BY <1>5 DEF Settle, ServerTypeOK
    <2>2. Unpaid(k)' = Unpaid(k) \ {c}
      BY <1>5, <2>1, UnpaidMoved DEF Settle
    <2>3. UNCHANGED <<done, forgotten>>
      BY <1>5 DEF Settle
    <2>4. Cardinality(Unpaid(k))' \in Nat /\ Cardinality(Unpaid(k))' <= Cardinality(Unpaid(k))
      BY <2>2, CardChange
    <2>5. CASE k = call[c].key /\ call[c].res = "error"
      <3>1. c \in Unpaid(k)
        BY <2>1, <2>5 DEF Unpaid
      <3>2. Cardinality(Unpaid(k))' = Cardinality(Unpaid(k)) - 1
        BY <2>2, <3>1, CardChange
      <3>3. receipt'[k] = NoReceipt
        BY <1>5, <2>1, <2>5 DEF Settle, ServerTypeOK
      <3>4. NoReceipt.state = "none"
        BY DEF NoReceipt
      <3> QED BY <1>0, <2>3, <3>2, <3>3, <3>4 DEF Paid
    <2>6. CASE k = call[c].key /\ call[c].res # "error"
      <3>1. receipt[k] \in Receipt
        BY DEF ServerTypeOK
      <3>2. receipt'[k] = IF receipt[k].state = "none" THEN receipt[k]
                                                      ELSE Answered(receipt[k], call[c].res)
        BY <1>5, <2>1, <2>6 DEF Settle, ServerTypeOK
      <3>3. Answered(receipt[k], call[c].res).state = "answered"
        BY <3>1 DEF Answered, Receipt
      <3> QED BY <1>0, <2>3, <2>4, <3>2, <3>3 DEF Paid
    <2>7. CASE k # call[c].key
      <3>1. receipt'[k] = receipt[k]
        BY <1>5, <2>1, <2>7 DEF Settle, ServerTypeOK
      <3> QED BY <1>0, <2>3, <2>4, <3>1 DEF Paid
    <2> QED BY <2>5, <2>6, <2>7
  <1>6. ASSUME NEW c \in Slot, SettleFails(c)
        PROVE  Paid(k)'
    BY <1>s, <1>6 DEF SettleFails
  <1>7. ASSUME NEW c \in Slot, Killed(c)
        PROVE  Paid(k)'
    BY <1>s, <1>7 DEF Killed
  <1>8. ASSUME NEW c \in Slot, NEW j \in Key, NEW w \in Write, Arrive(c, j, cookie, w)
        PROVE  Paid(k)'
    <2>1. Unpaid(k)' = Unpaid(k)
      BY <1>8, ArriveFacts DEF Unpaid
    <2> QED BY <1>0, <1>8, <2>1, ArriveFacts DEF Paid
  <1>9. ASSUME NEW c \in Slot, call[c].pc \in {"gates", "answered"}, Free(c)
        PROVE  Paid(k)'
    <2>1. FreeSlot.pc = "free"
      BY DEF FreeSlot
    <2>2. Unpaid(k)' = Unpaid(k)
      BY <1>9, <2>1, FreeFacts DEF Unpaid
    <2> QED BY <1>0, <1>9, <2>2, FreeFacts DEF Paid
  <1>10. ASSUME NEW j \in Key, ClaimAges(j)
         PROVE  Paid(k)'
    <2>1. Unpaid(k)' = Unpaid(k)
      BY <1>10 DEF ClaimAges, Unpaid
    <2> QED BY <1>0, <1>10, <2>1 DEF ClaimAges, Paid
  <1>11. ASSUME NEW j \in Key, PruneReceipt(j)
         PROVE  Paid(k)'
    <2>1. Unpaid(k)' = Unpaid(k) /\ UNCHANGED done
      BY <1>11 DEF PruneReceipt, Unpaid
    <2>2. NoReceipt.state = "none"
      BY DEF NoReceipt
    <2>3. CASE k = j
      <3>1. receipt'[k] = NoReceipt /\ forgotten'[k] = forgotten[k] + 1
        BY <1>11, <2>3 DEF PruneReceipt, ServerTypeOK
      <3> QED BY <1>0, <2>1, <2>2, <3>1 DEF Paid
    <2>4. CASE k # j
      <3>1. receipt'[k] = receipt[k] /\ forgotten'[k] = forgotten[k]
        BY <1>11, <2>4 DEF PruneReceipt, ServerTypeOK
      <3> QED BY <1>0, <2>1, <3>1 DEF Paid
    <2> QED BY <2>3, <2>4
  <1>12. CASE UNCHANGED serverVars
    <2>1. Unpaid(k)' = Unpaid(k)
      BY <1>12 DEF serverVars, Unpaid
    <2> QED BY <1>0, <1>12, <2>1 DEF serverVars, Paid
  <1> QED BY <1>1, <1>2, <1>3, <1>4, <1>5, <1>6, <1>7, <1>8, <1>9, <1>10, <1>11, <1>12
          DEF ServerStep, Handle

-----------------------------------------------------------------------------
(* A key once minted names its press for good. *)
LEMMA MintedStays ==
    ASSUME TypeOK, [Next]_vars
    PROVE  \A k \in Key : minted[k] \in Write => minted'[k] = minted[k]
  <1>1. \A k \in Key, w \in Write : Mint(k, w) =>
            \A j \in Key : minted[j] \in Write => minted'[j] = minted[j]
    BY NobodyAssumption DEF Mint, TypeOK, OutboxTypeOK
  <1>2. CASE UNCHANGED minted
    BY <1>2
  <1>3. UNCHANGED minted \/ \E k \in Key, w \in Write : Mint(k, w)
    <2>1. CASE Server \/ Page \/ Network \/ UNCHANGED vars \/ \E k \in Key : Prune(k)
      BY <2>1 DEF Server, Page, Network, Prune, StartPass, SessionRefetched, SendNext, BackOff,
                  GrowsStale, ScreenAnswered, PassAnswered, NoResponse, ResponseLost, vars, outboxVars
    <2>2. CASE Person
      BY <2>2 DEF Person, Press, Discard, Retry, SignIn, Reload
    <2> QED BY <2>1, <2>2 DEF Next
  <1> QED BY <1>1, <1>2, <1>3

(* The answers a step adds to the requests and the table are never
   idempotency_key_conflict, and "ok" only where a run gave it. *)
LEMMA AnswerStep ==
    ASSUME TypeOK, WriteInv, [Next]_vars
    PROVE  /\ \A k \in Key : receipt'[k].state # "none" => receipt'[k].write = minted'[k]
           /\ \A c \in Slot : call'[c].pc # "free" => call'[c].write = minted'[call'[c].key]
           /\ \A c \in Slot : call'[c].res # "mismatch"
           /\ AnswerInv'
           /\ \A k \in Key : worked[k] \subseteq worked'[k]
  <1> DEFINE Goal == /\ \A k \in Key : receipt'[k].state # "none" => receipt'[k].write = minted'[k]
                     /\ \A c \in Slot : call'[c].pc # "free" => call'[c].write = minted'[call'[c].key]
                     /\ \A c \in Slot : call'[c].res # "mismatch"
                     /\ AnswerInv'
                     /\ \A k \in Key : worked[k] \subseteq worked'[k]
  <1>0. ServerTypeOK /\ KeyNamesOnePress /\ AnswerInv /\ ClaimInv
    BY DEF TypeOK, WriteInv
  <1>m. \A k \in Key : minted[k] \in Write => minted'[k] = minted[k]
    BY MintedStays
  <1>r. \A k \in Key : receipt[k].state # "none" => receipt[k].write = minted'[k]
    BY <1>0, <1>m DEF ServerTypeOK, KeyNamesOnePress
  <1>c. \A c \in Slot : call[c].pc # "free" => call[c].write = minted'[call[c].key]
    BY <1>0, <1>m DEF ServerTypeOK, KeyNamesOnePress
  <1>s. ASSUME NEW c \in Slot, NEW pc, NEW res, call' = Moved(c, pc, res), call[c].pc # "free",
               res # "mismatch", res = "ok" => call[c].write \in worked'[call[c].key],
               \A k \in Key : receipt'[k].state # "none" => receipt'[k].write = minted'[k],
               \A k \in Key : receipt'[k].answer = "ok" => receipt'[k].write \in worked'[k],
               \A k \in Key : worked[k] \subseteq worked'[k]
        PROVE  Goal
    <2>1. /\ call'[c].res = res /\ call'[c].key = call[c].key /\ call'[c].write = call[c].write
          /\ \A d \in Slot : d # c => call'[d] = call[d]
      BY <1>0, <1>s, MovedFields
    <2>2. \A d \in Slot : call'[d].pc # "free" => call'[d].write = minted'[call'[d].key]
      BY <1>c, <1>s, <2>1
    <2>3. \A d \in Slot : call[d].pc # "free" /\ call[d].res = "ok" =>
             call[d].write \in worked'[call[d].key]
      BY <1>0, <1>s DEF AnswerInv, ServerTypeOK
    <2>4. \A d \in Slot : call'[d].pc # "free" /\ call'[d].res = "ok" =>
             call'[d].write \in worked'[call'[d].key]
      BY <1>s, <2>1, <2>3
    <2>5. \A d \in Slot : call'[d].res # "mismatch"
      BY <1>0, <1>s, <2>1 DEF KeyNamesOnePress
    <2> QED BY <1>s, <2>2, <2>4, <2>5 DEF AnswerInv
  <1>1. ASSUME NEW c \in Slot, NEW pc, NEW res, call' = Moved(c, pc, res), call[c].pc # "free",
               res # "mismatch", res = "ok" => call[c].write \in worked[call[c].key],
               UNCHANGED <<receipt, worked>>
        PROVE  Goal
    <2>1. \A k \in Key : receipt'[k].answer = "ok" => receipt'[k].write \in worked'[k]
      BY <1>0, <1>1 DEF AnswerInv
    <2> QED BY <1>r, <1>s, <1>1, <2>1
  <1>2. ASSUME NEW c \in Slot, Gates(c)
        PROVE  Goal
    BY <1>1, <1>2 DEF Gates
  <1>3. ASSUME NEW c \in Slot, Claim(c)
        PROVE  Goal
    <2>1. call[c].pc = "claim" /\ call[c].key \in Key /\ UNCHANGED worked
      BY <1>0, <1>3 DEF Claim, ServerTypeOK
    <2>2. CASE receipt[call[c].key].state = "none" \/ Wreckage(call[c].key)
      <3>1. receipt' = [receipt EXCEPT ![call[c].key] = Claimed(c)] /\ call' = Moved(c, "run", "none")
        BY <1>3, <2>2 DEF Claim
      <3>2. Claimed(c).write = call[c].write /\ Claimed(c).answer = "none"
        BY DEF Claimed
      <3>3. \A k \in Key : receipt'[k] = IF k = call[c].key THEN Claimed(c) ELSE receipt[k]
        BY <1>0, <3>1 DEF ServerTypeOK
      <3>4. \A k \in Key : receipt'[k].state # "none" => receipt'[k].write = minted'[k]
        BY <1>r, <1>c, <2>1, <3>2, <3>3
      <3>5. \A k \in Key : receipt'[k].answer = "ok" => receipt'[k].write \in worked'[k]
        BY <1>0, <2>1, <3>2, <3>3 DEF AnswerInv
      <3> QED BY <1>s, <2>1, <3>1, <3>4, <3>5
    <2>3. CASE ~(receipt[call[c].key].state = "none" \/ Wreckage(call[c].key))
      BY <1>1, <1>3, <2>1, <2>3 DEF Claim
    <2> QED BY <2>2, <2>3
  <1>4. ASSUME NEW c \in Slot, Look(c)
        PROVE  Goal
    <2> DEFINE prev == receipt[call[c].key]
    <2>1. /\ call[c].pc = "look" /\ call[c].key \in Key /\ call[c].user \in User
          /\ prev \in Receipt
      BY <1>0, <1>4 DEF Look, ServerTypeOK
    <2>2. prev.user = call[c].user => prev.write = call[c].write
      <3>1. prev.state = "none" => prev.user = NoUser
        BY <1>0, <2>1 DEF ClaimInv, NoReceipt
      <3> QED BY <1>c, <1>r, <2>1, <3>1, NobodyAssumption
    <2>3. Replied(c) # "mismatch"
      BY <2>1, <2>2 DEF Replied, Receipt, Kept
    <2>4. Replied(c) = "ok" => call[c].write \in worked[call[c].key]
      BY <1>0, <2>1, <2>2 DEF Replied, AnswerInv
    <2> QED BY <1>1, <1>4, <2>1, <2>3, <2>4 DEF Look
  <1>5. ASSUME NEW c \in Slot, NEW res \in Results, Run(c, res)
        PROVE  Goal
    <2>1. /\ call[c].pc = "run" /\ call[c].key \in Key /\ UNCHANGED receipt
          /\ call' = Moved(c, "settle", res) /\ res # "mismatch"
      BY <1>0, <1>5 DEF Run, ServerTypeOK, Results, Kept
    <2>2. worked' = IF res = "ok"
                    THEN [worked EXCEPT ![call[c].key] = worked[call[c].key] \cup {call[c].write}]
                    ELSE worked
      BY <1>5 DEF Run
    <2>3. \A k \in Key : worked[k] \subseteq worked'[k]
      BY <1>0, <2>2 DEF ServerTypeOK
    <2>4. res = "ok" => call[c].write \in worked'[call[c].key]
      BY <1>0, <2>1, <2>2 DEF ServerTypeOK
    <2>5. \A k \in Key : receipt'[k].answer = "ok" => receipt'[k].write \in worked'[k]
      BY <1>0, <2>1, <2>3 DEF AnswerInv
    <2> QED BY <1>r, <1>s, <2>1, <2>3, <2>4, <2>5
  <1>6. ASSUME NEW c \in Slot, Settle(c)
        PROVE  Goal
    <2> DEFINE key == call[c].key
               res == call[c].res
    <2>1. /\ call[c].pc = "settle" /\ key \in Key /\ res \in Results
          /\ call' = Moved(c, "answered", res) /\ UNCHANGED worked
      BY <1>0, <1>6 DEF Settle, ServerTypeOK
    <2>2. NoReceipt.state = "none" /\ NoReceipt.answer = "none"
      BY DEF NoReceipt
    <2>3. receipt[key] \in Receipt
      BY <1>0, <2>1 DEF ServerTypeOK
    <2>4. Answered(receipt[key], res).write = receipt[key].write
          /\ Answered(receipt[key], res).answer = res
      BY <2>3 DEF Answered, Receipt
    <2>5. \A k \in Key : receipt'[k] =
              IF k # key \/ (res # "error" /\ receipt[k].state = "none") THEN receipt[k]
              ELSE IF res = "error" THEN NoReceipt ELSE Answered(receipt[key], res)
      BY <1>0, <1>6, <2>1 DEF Settle, ServerTypeOK
    <2>6. \A k \in Key : receipt'[k].state # "none" => receipt'[k].write = minted'[k]
      BY <1>r, <2>1, <2>2, <2>4, <2>5
    <2>7. res = "ok" => call[c].write \in worked[key]
      BY <1>0, <2>1 DEF AnswerInv
    <2>8. receipt[key].state # "none" => receipt[key].write = call[c].write
      BY <1>c, <1>r, <2>1
    <2>9. \A k \in Key : receipt'[k].answer = "ok" => receipt'[k].write \in worked'[k]
      BY <1>0, <2>1, <2>2, <2>4, <2>5, <2>7, <2>8 DEF AnswerInv
    <2> QED BY <1>s, <2>1, <2>6, <2>7, <2>9 DEF Results, Kept
  <1>7. ASSUME NEW c \in Slot, SettleFails(c) \/ Killed(c)
        PROVE  Goal
    <2>1. CASE SettleFails(c)
      <3>1. call[c].res # "mismatch"
        BY <1>0 DEF KeyNamesOnePress
      <3> QED BY <1>0, <1>1, <2>1, <3>1 DEF SettleFails, AnswerInv
    <2>2. CASE Killed(c)
      BY <1>1, <2>2 DEF Killed
    <2> QED BY <1>7, <2>1, <2>2
  <1>8. ASSUME NEW c \in Slot, NEW k \in Key, NEW w \in Write, minted'[k] = w, Arrive(c, k, cookie, w)
        PROVE  Goal
    <2>1. cookie \in User \cup {NoUser}
      BY DEF TypeOK, OutboxTypeOK
    <2>2. /\ call'[c].key = k /\ call'[c].write = w /\ call'[c].res = "none"
          /\ \A d \in Slot : d # c => call'[d] = call[d]
          /\ UNCHANGED <<receipt, worked>>
      BY <1>0, <1>8, <2>1, ArriveFacts
    <2> QED BY <1>0, <1>c, <1>r, <1>8, <2>2 DEF AnswerInv, KeyNamesOnePress
  <1>9. ASSUME NEW c \in Slot, Free(c)
        PROVE  Goal
    <2>1. FreeSlot.pc = "free" /\ FreeSlot.res = "none"
      BY DEF FreeSlot
    <2>2. /\ call'[c] = FreeSlot
          /\ \A d \in Slot : d # c => call'[d] = call[d]
          /\ UNCHANGED <<receipt, worked>>
      BY <1>0, <1>9, FreeFacts
    <2> QED BY <1>0, <1>c, <1>r, <2>1, <2>2 DEF AnswerInv, KeyNamesOnePress
  <1>10. ASSUME NEW k \in Key, ClaimAges(k) \/ PruneReceipt(k)
         PROVE  Goal
    <2>1. NoReceipt.state = "none" /\ NoReceipt.answer = "none"
      BY DEF NoReceipt
    <2>2. \A j \in Key : receipt'[j] = receipt[j] \/ receipt'[j] = NoReceipt
      BY <1>0, <1>10 DEF ClaimAges, PruneReceipt, ServerTypeOK
    <2>3. UNCHANGED <<call, worked>>
      BY <1>10 DEF ClaimAges, PruneReceipt
    <2> QED BY <1>0, <1>c, <1>r, <2>1, <2>2, <2>3 DEF AnswerInv, KeyNamesOnePress
  <1>11. CASE UNCHANGED serverVars
    BY <1>0, <1>c, <1>r, <1>11 DEF serverVars, AnswerInv, KeyNamesOnePress
  <1>12. ServerStep
    BY <1>0, NextIsServerStep
  <1> QED BY <1>2, <1>3, <1>4, <1>5, <1>6, <1>7, <1>8, <1>9, <1>10, <1>11, <1>12
          DEF ServerStep, Handle

-----------------------------------------------------------------------------
(* What a step does to a row of the outbox: it keeps the row's key or gives it
   one minted for it, and makes it "sent" only on an answer "ok". *)
RowStep(w) ==
    /\ \/ row'[w].key = row[w].key
       \/ row'[w].key \in Key /\ minted'[row'[w].key] = w
    /\ row'[w].state = "sent" =>
          \/ row[w].state = "sent"
          \/ \E c \in Slot : call[c].pc = "answered" /\ call[c].write = w /\ call[c].res = "ok"

(* What a step does to a pass: entries go, or come from the lists. *)
PassStep ==
    \A t \in Tab : \A e \in pass'[t] :
        \/ e \in pass[t]
        \/ row[e[1]].key = e[2]
        \/ row'[e[1]].key = e[2]

LEMMA FlushedEntries ==
    ASSUME OutboxTypeOK, NEW t \in Tab, NEW rows, NEW u, pass' = Flushed(t, rows, u)
    PROVE  \A s \in Tab : \A e \in pass'[s] : e \in pass[s] \/ rows[e[1]].key = e[2]
  <1>1. \A e \in Snapshot(rows, u) : rows[e[1]].key = e[2]
    BY DEF Snapshot
  <1> QED BY <1>1 DEF Flushed, OutboxTypeOK

LEMMA ListStep ==
    ASSUME TypeOK, [Next]_vars
    PROVE  PassStep /\ \A w \in Write : RowStep(w)
  <1> USE DEF TypeOK
  <1>0. \A w \in Write : row[w] \in Row
    BY DEF OutboxTypeOK
  <1>u. ASSUME UNCHANGED row PROVE \A w \in Write : RowStep(w)
    BY <1>u DEF RowStep
  <1>k. ASSUME NEW v \in Write, NEW r, row' = [row EXCEPT ![v] = r], r.key = row[v].key,
               r.state # "sent"
        PROVE  \A w \in Write : RowStep(w)
    BY <1>k DEF RowStep, OutboxTypeOK
  <1>n. ASSUME NEW v \in Write, NEW k \in Key, NEW r, row' = [row EXCEPT ![v] = r], r.key = k,
               minted'[k] = v, r.state # "sent"
        PROVE  \A w \in Write : RowStep(w)
    BY <1>n DEF RowStep, OutboxTypeOK
  <1>p. ASSUME UNCHANGED pass PROVE PassStep
    BY <1>p DEF PassStep
  <1>e. ASSUME NEW t, EndPass(t) PROVE PassStep
    BY <1>e DEF EndPass, PassStep, OutboxTypeOK
  <1>1. ASSUME UNCHANGED <<row, pass>>
        PROVE  PassStep /\ \A w \in Write : RowStep(w)
    BY <1>u, <1>p, <1>1
  <1>2. ASSUME NEW t \in Tab, NEW w \in Write, NEW k \in Key, NEW c \in Slot, Press(t, w, k, c)
        PROVE  PassStep /\ \A x \in Write : RowStep(x)
    <2>1. minted'[k] = w
      BY <1>2 DEF Press, Mint, OutboxTypeOK
    <2> DEFINE r == [state |-> "sending", key |-> k, author |-> who[t], user |-> who[t], again |-> "no"]
    <2>2. row' = [row EXCEPT ![w] = r] /\ UNCHANGED pass
      BY <1>2 DEF Press
    <2>3. r.key = k /\ r.state # "sent"
      OBVIOUS
    <2> HIDE DEF r
    <2> QED BY <1>n, <1>p, <2>1, <2>2, <2>3
  <1>3. ASSUME NEW w \in Write, GrowsStale(w) \/ \E t \in Tab : Discard(t, w)
        PROVE  PassStep /\ \A x \in Write : RowStep(x)
    <2>1. \A st \in {"stale", "discarded"} : /\ [row[w] EXCEPT !.state = st].key = row[w].key
                                             /\ [row[w] EXCEPT !.state = st].state = st
      BY <1>0 DEF Row
    <2> QED BY <1>k, <1>p, <1>3, <2>1 DEF GrowsStale, Discard
  <1>4. ASSUME NEW t \in Tab, NEW w \in Write, NEW k \in Key, Retry(t, w, k)
        PROVE  PassStep /\ \A x \in Write : RowStep(x)
    <2> DEFINE fresh == [row[w] EXCEPT !.state = "pending", !.key = k, !.again = "no"]
               again == [row[w] EXCEPT !.state = "pending", !.again = "yes"]
    <2>1. /\ fresh.key = k /\ fresh.state = "pending"
          /\ again.key = row[w].key /\ again.state = "pending"
      BY <1>0 DEF Row
    <2>2. \/ row' = [row EXCEPT ![w] = fresh] /\ minted'[k] = w
          \/ row' = [row EXCEPT ![w] = again]
      BY <1>4 DEF Retry, Mint, OutboxTypeOK
    <2> HIDE DEF fresh, again
    <2>3. \A x \in Write : RowStep(x)
      BY <1>k, <1>n, <2>1, <2>2
    <2>4. PassStep
      BY <1>4, FlushedEntries DEF Retry, PassStep
    <2> QED BY <2>3, <2>4
  <1>5. ASSUME NEW t \in Tab, Reload(t)
        PROVE  PassStep /\ \A x \in Write : RowStep(x)
    <2>1. \A w \in Write : /\ [row[w] EXCEPT !.state = "over"].key = row[w].key
                           /\ [row[w] EXCEPT !.state = "over"].state = "over"
      BY <1>0 DEF Row
    <2>2. \A w \in Write : row'[w] = row[w] \/ row'[w] = [row[w] EXCEPT !.state = "over"]
      BY <1>5 DEF Reload
    <2>3. \A e \in Snapshot(row, cookie) : row[e[1]].key = e[2]
      BY DEF Snapshot
    <2>4. PassStep
      BY <1>5, <2>3 DEF Reload, PassStep, OutboxTypeOK
    <2>5. \A w \in Write : row'[w].key = row[w].key /\ (row'[w].state = "sent" => row[w].state = "sent")
      BY <2>1, <2>2
    <2> QED BY <2>4, <2>5 DEF RowStep
  <1>6. ASSUME NEW t \in Tab, StartPass(t) \/ SessionRefetched(t)
        PROVE  PassStep /\ \A x \in Write : RowStep(x)
    <2>1. PassStep
      BY <1>6, FlushedEntries DEF StartPass, SessionRefetched, PassStep
    <2> QED BY <1>u, <1>6, <2>1 DEF StartPass, SessionRefetched
  <1>7. ASSUME NEW t \in Tab, BackOff(t)
        PROVE  PassStep /\ \A x \in Write : RowStep(x)
    BY <1>e, <1>u, <1>7 DEF BackOff
  <1>8. ASSUME NEW c \in Slot, ScreenAnswered(c)
        PROVE  PassStep /\ \A x \in Write : RowStep(x)
    <2>1. call[c].write \in Write
      BY <1>8 DEF ScreenAnswered, ServerTypeOK
    <2>2. \A w \in Write : /\ [row[w] EXCEPT !.state = "over"].key = row[w].key
                           /\ [row[w] EXCEPT !.state = "over"].state = "over"
      BY <1>0 DEF Row
    <2> QED BY <1>k, <1>p, <1>8, <2>1, <2>2 DEF ScreenAnswered
  <1>9. ASSUME NEW c \in Slot, PassAnswered(c)
        PROVE  PassStep /\ \A x \in Write : RowStep(x)
    <2> DEFINE v == call[c].write
               r == [row[v] EXCEPT !.state = StateOf(call[c].res)]
    <2>1. v \in Write /\ call[c].pc = "answered"
      BY <1>9 DEF PassAnswered, ServerTypeOK
    <2>2. r.key = row[v].key /\ r.state = StateOf(call[c].res)
      BY <1>0, <2>1 DEF Row
    <2>3. StateOf(call[c].res) = "sent" => call[c].res = "ok"
      BY DEF StateOf
    <2>4. UNCHANGED row \/ row' = [row EXCEPT ![v] = r]
      BY <1>9 DEF PassAnswered, Marked
    <2>5. \A x \in Write : RowStep(x)
      <3>1. CASE UNCHANGED row
        BY <1>u, <3>1
      <3>2. CASE row' = [row EXCEPT ![v] = r]
        <4>1. row'[v] = r /\ \A x \in Write : x # v => row'[x] = row[x]
          BY <2>1, <3>2 DEF OutboxTypeOK
        <4>2. RowStep(v)
          BY <2>1, <2>2, <2>3, <4>1 DEF RowStep
        <4>3. \A x \in Write : x # v => RowStep(x)
          BY <4>1 DEF RowStep
        <4> QED BY <4>2, <4>3
      <3> QED BY <2>4, <3>1, <3>2
    <2>6. PassStep
      BY <1>e, <1>9 DEF PassAnswered, PassStep, OutboxTypeOK
    <2> QED BY <2>5, <2>6
  <1>10. ASSUME NEW c \in Slot, NoResponse(c)
         PROVE  PassStep /\ \A x \in Write : RowStep(x)
    <2>1. CASE Waits(c, "screen")
      <3> DEFINE v == call[c].write
                 r == [row[v] EXCEPT !.state = "pending", !.user = who[listener[c].tab]]
      <3>1. v \in Write
        BY <2>1 DEF Waits, Attended, ServerTypeOK
      <3>2. r.key = row[v].key /\ r.state = "pending"
        BY <1>0, <3>1 DEF Row
      <3> QED BY <1>k, <1>p, <1>10, <2>1, <3>1, <3>2 DEF NoResponse, Enqueued
    <2>2. CASE ~Waits(c, "screen")
      BY <1>e, <1>u, <1>10, <2>2 DEF NoResponse
    <2> QED BY <2>1, <2>2
  <1> QED
    <2>1. CASE Server \/ UNCHANGED vars \/ \E k \in Key : Prune(k)
      BY <1>1, <2>1 DEF Server, Prune, vars, outboxVars
    <2>2. CASE Person
      BY <1>1, <1>2, <1>3, <1>4, <1>5, <2>2 DEF Person, SignIn
    <2>3. CASE Page
      BY <1>1, <1>3, <1>6, <1>7, <2>3 DEF Page, SendNext, outboxVars
    <2>4. CASE Network
      BY <1>1, <1>8, <1>9, <1>10, <2>4 DEF Network, ResponseLost, outboxVars
    <2> QED BY <2>1, <2>2, <2>3, <2>4 DEF Next

-----------------------------------------------------------------------------
LEMMA WriteInvStep ==
    ASSUME TypeOK, WriteInv, [Next]_vars
    PROVE  WriteInv'
  <1>0. TypeOK' /\ ServerTypeOK /\ OutboxTypeOK /\ cookie \in User \cup {NoUser}
    BY StepType DEF TypeOK, OutboxTypeOK
  <1>1. ClaimInv'
    BY <1>0, NextIsServerStep, ClaimStep DEF WriteInv
  <1>2. /\ \A k \in Key : receipt'[k].state # "none" => receipt'[k].write = minted'[k]
        /\ \A c \in Slot : call'[c].pc # "free" => call'[c].write = minted'[call'[c].key]
        /\ \A c \in Slot : call'[c].res # "mismatch"
        /\ AnswerInv'
        /\ \A k \in Key : worked[k] \subseteq worked'[k]
    BY AnswerStep
  <1>3. \A k \in Key : minted[k] \in Write => minted'[k] = minted[k]
    BY MintedStays
  <1>4. PassStep /\ \A w \in Write : RowStep(w)
    BY ListStep
  <1>5. \A w \in Write : row[w].key # NoKey => minted'[row[w].key] = w
    BY <1>0, <1>3 DEF WriteInv, KeyNamesOnePress, OutboxTypeOK, Row
  <1>6. \A w \in Write : row'[w].key # NoKey => minted'[row'[w].key] = w
    BY <1>4, <1>5 DEF RowStep
  <1>7. \A t \in Tab : \A e \in pass'[t] : minted'[e[2]] = e[1]
    <2> SUFFICES ASSUME NEW t \in Tab, NEW e \in pass'[t]
                 PROVE  minted'[e[2]] = e[1]
      OBVIOUS
    <2>1. e[1] \in Write /\ e[2] \in Key
      BY <1>0 DEF TypeOK, OutboxTypeOK
    <2>2. e[2] # NoKey
      BY <2>1, NobodyAssumption
    <2>3. CASE e \in pass[t]
      BY <1>3, <2>1, <2>3 DEF WriteInv, KeyNamesOnePress
    <2>4. CASE row[e[1]].key = e[2] \/ row'[e[1]].key = e[2]
      BY <1>5, <1>6, <2>1, <2>2, <2>4
    <2> QED BY <1>4, <2>3, <2>4 DEF PassStep
  <1>8. SentMeansDone'
    <2> SUFFICES ASSUME NEW w \in Write, row'[w].state = "sent"
                 PROVE  \E k \in Key : w \in worked'[k]
      BY DEF SentMeansDone, DoneUnder
    <2>1. \E k \in Key : w \in worked[k]
      <3>1. CASE row[w].state = "sent"
        BY <3>1 DEF WriteInv, SentMeansDone, DoneUnder
      <3>2. CASE \E c \in Slot : call[c].pc = "answered" /\ call[c].write = w /\ call[c].res = "ok"
        BY <1>0, <3>2 DEF WriteInv, AnswerInv, ServerTypeOK
      <3> QED BY <1>4, <3>1, <3>2 DEF RowStep
    <2> QED BY <1>2, <2>1
  <1>9. KeyNamesOnePress'
    BY <1>2, <1>6, <1>7 DEF KeyNamesOnePress
  <1> QED BY <1>1, <1>2, <1>8, <1>9 DEF WriteInv

(* The inductive invariant: the middleware's bookkeeping, the identity of keys
   and the truth of stored answers hold throughout. *)
THEOREM WriteInvariant == Spec => []WriteInv
  <1>1. Init => WriteInv
    <2> SUFFICES ASSUME Init PROVE WriteInv
      OBVIOUS
    <2>1. /\ NoReceipt.state = "none" /\ NoReceipt.answer = "none"
          /\ FreeSlot.pc = "free" /\ FreeSlot.res = "none"
          /\ NoRow.key = NoKey /\ NoRow.state = "none"
      BY DEF NoReceipt, FreeSlot, NoRow
    <2>2. ClaimInv
      <3> SUFFICES ASSUME NEW k \in Key PROVE Paid(k)
        BY DEF ClaimInv, Paid
      <3>1. Unpaid(k) = {}
        BY <2>1 DEF Init, ServerInit, Unpaid
      <3>2. Cardinality(Unpaid(k)) = 0
        BY <3>1, FS_EmptySet
      <3> QED BY <2>1, <3>2 DEF Init, ServerInit, Paid
    <2>3. KeyNamesOnePress
      BY <2>1 DEF Init, ServerInit, OutboxInit, KeyNamesOnePress
    <2>4. AnswerInv
      BY <2>1 DEF Init, ServerInit, AnswerInv
    <2>5. SentMeansDone
      BY <2>1 DEF Init, OutboxInit, SentMeansDone
    <2> QED BY <2>2, <2>3, <2>4, <2>5 DEF WriteInv
  <1>2. TypeOK /\ WriteInv /\ [Next]_vars => WriteInv'
    BY WriteInvStep
  <1> QED BY <1>1, <1>2, WritesTypeCorrect, PTL DEF Spec

(* A key's handler completes at most once more than its row was thrown away,
   however many tabs, retries, lost answers and killed isolates there are. *)
THEOREM RunsAreBounded == Spec => []RunsBounded
  <1>1. TypeOK /\ WriteInv => RunsBounded
    <2> SUFFICES ASSUME TypeOK, WriteInv, NEW k \in Key PROVE done[k] <= 1 + forgotten[k]
      BY DEF RunsBounded
    <2>1. done[k] \in Nat /\ forgotten[k] \in Nat /\ Cardinality(Unpaid(k)) \in Nat
      BY UnpaidFinite DEF TypeOK, ServerTypeOK
    <2> QED BY <2>1 DEF WriteInv, ClaimInv
  <1> QED BY <1>1, WriteInvariant, WritesTypeCorrect, PTL

(* While a key's row has never been thrown away, at most one request at a time
   runs its handler: the one-statement claim is a lock. *)
THEOREM ClaimIsALock == Spec => []OneAtATime
  <1>1. TypeOK /\ WriteInv => OneAtATime
    <2> SUFFICES ASSUME TypeOK, WriteInv, NEW k \in Key, forgotten[k] = 0,
                        NEW c \in Running(k), NEW d \in Running(k), c # d
                 PROVE  FALSE
      BY DEF OneAtATime
    <2>1. done[k] \in Nat /\ IsFiniteSet(Unpaid(k)) /\ Cardinality(Unpaid(k)) \in Nat
      BY UnpaidFinite DEF TypeOK, ServerTypeOK
    <2>2. Cardinality(Unpaid(k)) <= 1
      BY <2>1 DEF WriteInv, ClaimInv
    <2>3. {c, d} \subseteq Unpaid(k)
      BY DEF Running, Unpaid
    <2>4. Cardinality({c, d}) <= Cardinality(Unpaid(k))
      BY <2>1, <2>3, FS_Subset
    <2>5. IsFiniteSet({c}) /\ Cardinality({c}) = 1
      BY FS_Singleton
    <2>6. Cardinality({c} \cup {d}) = IF d \in {c} THEN Cardinality({c}) ELSE Cardinality({c}) + 1
      BY ONLY <2>5, FS_AddElement, Zenon
    <2>7. d \notin {c} /\ {c, d} = {c} \cup {d}
      OBVIOUS
    <2>8. Cardinality({c, d}) = 2
      BY ONLY <2>5, <2>6, <2>7
    <2> QED BY ONLY <2>1, <2>2, <2>4, <2>8
  <1> QED BY <1>1, WriteInvariant, WritesTypeCorrect, PTL

(* The tick is true: a row the outbox shows as sent was done by the server. *)
THEOREM TickIsTrue == Spec => []SentMeansDone
  <1>1. WriteInv => SentMeansDone
    BY DEF WriteInv
  <1> QED BY <1>1, WriteInvariant, PTL

(* Every copy of a key, on either side, belongs to the one press it was minted
   for, and the answer idempotency_key_conflict never reaches this client. *)
THEOREM KeysAreIntents == Spec => []KeyNamesOnePress
  <1>1. WriteInv => KeyNamesOnePress
    BY DEF WriteInv
  <1> QED BY <1>1, WriteInvariant, PTL
-----------------------------------------------------------------------------
(* HolderInv, one key at a time. *)
Held(k) ==
    forgotten[k] = 0 => \A c \in Holders(k) : receipt[k].state = "claimed" /\ Holders(k) = {c}

LEMMA HoldersMoved ==
    ASSUME ServerTypeOK, NEW c \in Slot, NEW pc, NEW res, call' = Moved(c, pc, res), NEW k \in Key
    PROVE  Holders(k)' = IF k = call[c].key /\ pc \in {"run", "settle"}
                         THEN Holders(k) \cup {c} ELSE Holders(k) \ {c}
  <1>1. /\ call'[c].pc = pc /\ call'[c].key = call[c].key
        /\ \A d \in Slot : d # c => call'[d] = call[d]
    BY MovedFields
  <1> QED BY <1>1 DEF Holders

LEMMA HolderStep ==
    ASSUME ServerTypeOK, HolderInv, ServerStep, cookie \in User \cup {NoUser}
    PROVE  HolderInv'
  <1> SUFFICES ASSUME NEW k \in Key PROVE Held(k)'
    BY DEF HolderInv, Held
  <1>0. Held(k) /\ forgotten[k] \in Nat
    BY DEF HolderInv, Held, ServerTypeOK
  <1>s. ASSUME NEW c \in Slot, NEW pc, NEW res, call' = Moved(c, pc, res),
               pc \notin {"run", "settle"}, UNCHANGED <<receipt, forgotten>>
        PROVE  Held(k)'
    <2>1. Holders(k)' = Holders(k) \ {c}
      BY <1>s, HoldersMoved
    <2> QED BY <1>0, <1>s, <2>1 DEF Held
  <1>1. ASSUME NEW c \in Slot, Gates(c) PROVE Held(k)'
    BY <1>s, <1>1 DEF Gates
  <1>2. ASSUME NEW c \in Slot, Claim(c) PROVE Held(k)'
    <2>1. call[c].pc = "claim" /\ call[c].key \in Key
      BY <1>2 DEF Claim, ServerTypeOK
    <2>2. CASE receipt[call[c].key].state = "none" \/ Wreckage(call[c].key)
      <3>1. Holders(k)' = IF k = call[c].key THEN Holders(k) \cup {c} ELSE Holders(k) \ {c}
        BY <1>2, <2>1, <2>2, HoldersMoved DEF Claim
      <3>2. CASE k # call[c].key
        <4>1. receipt'[k] = receipt[k] /\ forgotten'[k] = forgotten[k]
          BY <1>2, <2>1, <2>2, <3>2 DEF Claim, ServerTypeOK
        <4> QED BY <1>0, <3>1, <3>2, <4>1 DEF Held
      <3>3. CASE k = call[c].key /\ forgotten'[k] = 0
        <4>1. receipt[k].state = "none" /\ forgotten[k] = 0
          BY <1>0, <1>2, <2>1, <2>2, <3>3 DEF Claim, Wreckage, ServerTypeOK
        <4>2. Holders(k) = {}
          BY <1>0, <4>1 DEF Held
        <4>3. receipt'[k].state = "claimed"
          BY <1>2, <2>1, <2>2, <3>3 DEF Claim, Claimed, ServerTypeOK
        <4> QED BY <3>1, <3>3, <4>2, <4>3 DEF Held
      <3> QED BY <3>2, <3>3 DEF Held
    <2>3. CASE ~(receipt[call[c].key].state = "none" \/ Wreckage(call[c].key))
      BY <1>s, <1>2, <2>1, <2>3 DEF Claim
    <2> QED BY <2>2, <2>3
  <1>3. ASSUME NEW c \in Slot, Look(c) PROVE Held(k)'
    BY <1>s, <1>3 DEF Look
  <1>4. ASSUME NEW c \in Slot, NEW res \in Results, Run(c, res) PROVE Held(k)'
    <2>1. c \in Holders(k) <=> k = call[c].key
      BY <1>4 DEF Run, Holders
    <2>2. Holders(k)' = Holders(k)
      BY <1>4, <2>1, HoldersMoved DEF Run
    <2> QED BY <1>0, <1>4, <2>2 DEF Run, Held
  <1>5. ASSUME NEW c \in Slot, Settle(c) PROVE Held(k)'
    <2>1. call[c].pc = "settle" /\ call[c].key \in Key
      BY <1>5 DEF Settle, ServerTypeOK
    <2>2. Holders(k)' = Holders(k) \ {c} /\ UNCHANGED forgotten
      BY <1>5, <2>1, HoldersMoved DEF Settle
    <2>3. CASE k = call[c].key
      <3>1. c \in Holders(k)
        BY <2>1, <2>3 DEF Holders
      <3> QED BY <1>0, <2>2, <3>1 DEF Held
    <2>4. CASE k # call[c].key
      <3>1. receipt'[k] = receipt[k]
        BY <1>5, <2>1, <2>4 DEF Settle, ServerTypeOK
      <3> QED BY <1>0, <2>2, <3>1 DEF Held
    <2> QED BY <2>3, <2>4
  <1>6. ASSUME NEW c \in Slot, SettleFails(c) PROVE Held(k)'
    BY <1>s, <1>6 DEF SettleFails
  <1>7. ASSUME NEW c \in Slot, Killed(c) PROVE Held(k)'
    BY <1>s, <1>7 DEF Killed
  <1>8. ASSUME NEW c \in Slot, NEW j \in Key, NEW w \in Write, Arrive(c, j, cookie, w)
        PROVE  Held(k)'
    <2>1. Holders(k)' = Holders(k)
      BY <1>8, ArriveFacts DEF Holders
    <2> QED BY <1>0, <1>8, <2>1, ArriveFacts DEF Held
  <1>9. ASSUME NEW c \in Slot, call[c].pc \in {"gates", "answered"}, Free(c) PROVE Held(k)'
    <2>1. FreeSlot.pc = "free"
      BY DEF FreeSlot
    <2>2. Holders(k)' = Holders(k)
      BY <1>9, <2>1, FreeFacts DEF Holders
    <2> QED BY <1>0, <1>9, <2>2, FreeFacts DEF Held
  <1>10. ASSUME NEW j \in Key, ClaimAges(j) PROVE Held(k)'
    <2>1. Holders(k)' = Holders(k)
      BY <1>10 DEF ClaimAges, Holders
    <2> QED BY <1>0, <1>10, <2>1 DEF ClaimAges, Held
  <1>11. ASSUME NEW j \in Key, PruneReceipt(j) PROVE Held(k)'
    <2>1. Holders(k)' = Holders(k)
      BY <1>11 DEF PruneReceipt, Holders
    <2>2. k = j => forgotten'[k] # 0
      BY <1>0, <1>11 DEF PruneReceipt, ServerTypeOK
    <2>3. k # j => receipt'[k] = receipt[k] /\ forgotten'[k] = forgotten[k]
      BY <1>11 DEF PruneReceipt, ServerTypeOK
    <2> QED BY <1>0, <2>1, <2>2, <2>3 DEF Held
  <1>12. CASE UNCHANGED serverVars
    <2>1. Holders(k)' = Holders(k)
      BY <1>12 DEF serverVars, Holders
    <2> QED BY <1>0, <1>12, <2>1 DEF serverVars, Held
  <1> QED BY <1>1, <1>2, <1>3, <1>4, <1>5, <1>6, <1>7, <1>8, <1>9, <1>10, <1>11, <1>12
          DEF ServerStep, Handle

(* Nothing but a settling request writes an answer, and one that settles has
   the claim. *)
LEMMA StandsStep ==
    ASSUME ServerTypeOK, HolderInv, ServerStep, NEW k \in Key,
           receipt[k].state = "answered", forgotten'[k] = 0
    PROVE  receipt'[k] = receipt[k]
  <1>0. forgotten[k] \in Nat /\ Held(k)
    BY DEF ServerTypeOK, HolderInv, Held
  <1>1. CASE UNCHANGED receipt
    BY <1>1
  <1>2. ASSUME NEW c \in Slot, Claim(c) PROVE receipt'[k] = receipt[k]
    BY <1>2 DEF Claim, Wreckage, ServerTypeOK
  <1>3. ASSUME NEW c \in Slot, Settle(c) PROVE receipt'[k] = receipt[k]
    <2>1. call[c].pc = "settle" /\ UNCHANGED forgotten
      BY <1>3 DEF Settle
    <2>2. call[c].key # k
      BY <1>0, <2>1 DEF Held, Holders
    <2> QED BY <1>3, <2>2 DEF Settle, ServerTypeOK
  <1>4. ASSUME NEW j \in Key, PruneReceipt(j) PROVE receipt'[k] = receipt[k]
    <2>1. k # j
      BY <1>0, <1>4 DEF PruneReceipt, ServerTypeOK
    <2> QED BY <1>4, <2>1 DEF PruneReceipt, ServerTypeOK
  <1>5. ASSUME NEW c \in Slot, NEW res \in Results,
               Gates(c) \/ Look(c) \/ Run(c, res) \/ SettleFails(c) \/ Killed(c) \/ Free(c)
        PROVE  UNCHANGED receipt
    BY <1>5 DEF Gates, Look, Run, SettleFails, Killed, Free
  <1>6. ASSUME NEW c \in Slot, NEW j \in Key, NEW w \in Write, Arrive(c, j, cookie, w)
        PROVE  UNCHANGED receipt
    BY <1>6 DEF Arrive
  <1>7. ASSUME NEW j \in Key, ClaimAges(j) PROVE UNCHANGED receipt
    BY <1>7 DEF ClaimAges
  <1>8. "error" \in Results
    BY DEF Results
  <1> QED BY <1>1, <1>2, <1>3, <1>4, <1>5, <1>6, <1>7, <1>8 DEF ServerStep, Handle, serverVars

(* Until its row is thrown away, what a key's repeats are told never changes,
   although settling writes by key alone: for any number of requests. *)
THEOREM AnswersStand == Spec => AnswerStands
  <1>1. Init => HolderInv
    BY DEF Init, ServerInit, FreeSlot, HolderInv, Holders
  <1>2. TypeOK /\ WriteInv /\ [Next]_vars => ServerTypeOK /\ ServerStep /\ cookie \in User \cup {NoUser}
    BY NextIsServerStep DEF TypeOK, WriteInv, OutboxTypeOK
  <1>3. TypeOK /\ WriteInv /\ HolderInv /\ [Next]_vars => HolderInv'
    BY <1>2, HolderStep
  <1>4. TypeOK /\ WriteInv /\ HolderInv /\ [Next]_vars =>
           [\A k \in Key : receipt[k].state = "answered" /\ forgotten'[k] = 0 =>
                              receipt'[k] = receipt[k]]_vars
    BY <1>2, StandsStep
  <1> QED BY <1>1, <1>3, <1>4, WritesTypeCorrect, WriteInvariant, PTL DEF Spec, AnswerStands
=============================================================================
