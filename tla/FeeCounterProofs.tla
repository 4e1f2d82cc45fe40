-------------------------- MODULE FeeCounterProofs ---------------------------
(***************************************************************************)
(* The receipt series of FeeCounter, for any numbers of payments, clerks,  *)
(* years and invoices.                                                     *)
(***************************************************************************)
EXTENDS FeeCounter, Sums

(* What a request that has only read leaves behind. *)
ClerkType == [pc : {"idle", "scheme", "seed", "counter", "dues", "allocs", "write"},
              op : {"none", "cash", "cheque", "clear", "bounce", "void"},
              pay : Payment \cup {NoPayment}, amount : Nat, year : 0 .. Years,
              scheme : Scheme, seq : Nat, fresh : BOOLEAN,
              plan : [Invoice -> Nat], seen : SUBSET Invoice]

LEMMA IdleType == Idle \in ClerkType
BY FeeAssumption DEF Idle, ClerkType, Nothing, Scheme

LEMMA TypesInit == Init => CounterTypes
BY FeeAssumption, IdleType
   DEF Init, CounterTypes, Scheme, NoReceipt, Nothing, ClerkType, Idle, Year, Invoice

(* A request that reads and goes on. *)
LEMMA TypesStep ==
    ASSUME CounterTypes, NEW c \in Clerk, NEW next \in ClerkType, Step(c, next), UNCHANGED Books
    PROVE  CounterTypes'
BY DEF CounterTypes, Step, Books, ClerkType

PaymentType == [status : {"none", "pending", "success", "bounced", "cancelled"},
                amount : Nat, seq : Nat, fy : 0 .. Years]

(* A request that commits its batch. *)
LEMMA TypesCommit ==
    ASSUME CounterTypes, NEW c \in Clerk, Step(c, Idle), scheme' \in Scheme,
           counter' \in [Year -> Nat], payments' \in [Payment -> PaymentType],
           alloc' \in [Payment -> [Invoice -> Nat]]
    PROVE  CounterTypes'
<1>1. clerk' \in [Clerk -> ClerkType]
  BY IdleType DEF CounterTypes, Step, ClerkType
<1>2. QED BY <1>1 DEF CounterTypes, ClerkType, PaymentType

(* UPDATE payments SET status = ? WHERE id = ? *)
LEMMA StatusType ==
    ASSUME CounterTypes, NEW p \in Payment, NEW status \in {"success", "bounced", "cancelled"}
    PROVE  [payments EXCEPT ![p].status = status] \in [Payment -> PaymentType]
<1>1. payments \in [Payment -> PaymentType]
  BY DEF CounterTypes, PaymentType
<1>2. [payments[p] EXCEPT !.status = status] \in PaymentType
  BY <1>1 DEF PaymentType
<1>3. QED BY <1>1, <1>2

LEMMA TypesNext == CounterTypes /\ ClerkInv /\ [Next]_vars => CounterTypes'
<1> SUFFICES ASSUME CounterTypes, ClerkInv, [Next]_vars PROVE CounterTypes'
  OBVIOUS
<1> USE FeeAssumption, IdleType
<1>a. \A c \in Clerk : clerk[c] \in ClerkType
  BY DEF CounterTypes, ClerkType
<1>b. \A c \in Clerk : RequestOK(clerk[c])
  BY DEF ClerkInv
<1>1. CASE UNCHANGED vars
  BY <1>1 DEF vars, CounterTypes
<1>2. ASSUME NEW c \in Clerk, NEW p \in Payment, NEW amount \in 1 .. Net * Invoices,
             NEW year \in Year, Collect(c, p, amount, year)
      PROVE  CounterTypes'
  <2>1. PICK op \in {"cash", "cheque"} :
          Step(c, [Idle EXCEPT !.pc = "scheme", !.op = op, !.pay = p,
                               !.amount = amount, !.year = year])
    BY <1>2 DEF Collect
  <2>2. [Idle EXCEPT !.pc = "scheme", !.op = op, !.pay = p,
                     !.amount = amount, !.year = year] \in ClerkType
    <3>1. amount \in Nat /\ year \in 0 .. Years
      BY DEF Year
    <3>2. QED BY <3>1 DEF ClerkType
  <2>3. QED BY <1>2, <2>1, <2>2, TypesStep DEF Collect
<1>3. ASSUME NEW c \in Clerk, ReadScheme(c) PROVE CounterTypes'
  <2>1. \A pc \in {"counter", "seed"} :
          [clerk[c] EXCEPT !.pc = pc, !.scheme = scheme, !.seq = scheme.next] \in ClerkType
    <3>1. scheme \in Scheme /\ scheme.next \in Nat
      BY DEF CounterTypes, Scheme
    <3>2. QED BY <1>a, <3>1 DEF ClerkType
  <2>2. QED BY <1>3, <2>1, TypesStep DEF ReadScheme
<1>4. ASSUME NEW c \in Clerk, ReadSeed(c) PROVE CounterTypes'
  <2>1. PICK last \in Numbers(clerk[c].year) \cup {0} :
          Step(c, [clerk[c] EXCEPT !.pc = "counter", !.seq = last + 1])
    BY <1>4 DEF ReadSeed
  <2>2. last \in Nat
    <3>1. \A p \in Payment : payments[p].seq \in Nat
      BY DEF CounterTypes
    <3>2. QED BY <2>1, <3>1 DEF Numbers, Series
  <2>3. [clerk[c] EXCEPT !.pc = "counter", !.seq = last + 1] \in ClerkType
    <3>1. last + 1 \in Nat
      BY <2>2
    <3>2. QED BY <1>a, <3>1 DEF ClerkType
  <2>4. QED BY <1>4, <2>1, <2>3, TypesStep DEF ReadSeed
<1>5. ASSUME NEW c \in Clerk, ReadCounter(c) PROVE CounterTypes'
  <2>1. counter[clerk[c].year] \in Nat
    BY <1>5, <1>b DEF CounterTypes, RequestOK, ReadCounter, At
  <2>2. \A pc \in {"write", "dues"}, seq \in Nat, fresh \in BOOLEAN :
          [clerk[c] EXCEPT !.pc = pc, !.seq = seq, !.fresh = fresh] \in ClerkType
    BY <1>a DEF ClerkType
  <2>3. clerk[c].seq \in Nat
    BY <1>a DEF ClerkType
  <2> DEFINE n == counter[clerk[c].year]
             pc == IF clerk[c].op = "cheque" THEN "write" ELSE "dues"
             seq == IF n = 0 THEN clerk[c].seq ELSE n
  <2>4. Step(c, [clerk[c] EXCEPT !.pc = pc, !.seq = seq, !.fresh = (n = 0)])
    BY <1>5 DEF ReadCounter
  <2>5. pc \in {"write", "dues"} /\ seq \in Nat /\ (n = 0) \in BOOLEAN
    BY <2>1, <2>3
  <2> HIDE DEF n, pc, seq
  <2>6. QED BY <1>5, <2>2, <2>4, <2>5, TypesStep DEF ReadCounter
<1>6. ASSUME NEW c \in Clerk, ReadDues(c) PROVE CounterTypes'
  <2>1. PICK plan \in [Invoice -> 0 .. clerk[c].amount] :
          Step(c, [clerk[c] EXCEPT !.pc = "write", !.plan = plan])
    BY <1>6 DEF ReadDues
  <2>2. clerk[c].amount \in Nat
    BY <1>a DEF ClerkType
  <2>3. plan \in [Invoice -> Nat]
    BY <2>2
  <2>4. [clerk[c] EXCEPT !.pc = "write", !.plan = plan] \in ClerkType
    BY <1>a, <2>3 DEF ClerkType
  <2>5. QED BY <1>6, <2>1, <2>4, TypesStep DEF ReadDues
<1>7. ASSUME NEW c \in Clerk, ReadAllocs(c) PROVE CounterTypes'
  <2>1. [clerk[c] EXCEPT !.pc = "write", !.seen = Touched(alloc[clerk[c].pay])] \in ClerkType
    BY <1>a DEF ClerkType, Touched
  <2>2. QED BY <1>7, <2>1, TypesStep DEF ReadAllocs
<1>8. ASSUME NEW c \in Clerk, NEW p \in Payment, Starts(c, p) PROVE CounterTypes'
  <2>1. payments[p].amount \in Nat
    BY DEF CounterTypes
  <2>2. /\ [Idle EXCEPT !.pc = "dues", !.op = "clear", !.pay = p,
                         !.amount = payments[p].amount] \in ClerkType
        /\ [Idle EXCEPT !.pc = "allocs", !.op = "bounce", !.pay = p] \in ClerkType
        /\ [Idle EXCEPT !.pc = "allocs", !.op = "void", !.pay = p] \in ClerkType
    BY <2>1 DEF ClerkType
  <2>3. QED BY <1>8, <2>2, TypesStep DEF Starts, StartClear, StartBounce, StartVoid
<1>9. ASSUME NEW c \in Clerk, NumberTaken(c) \/ Dies(c) PROVE CounterTypes'
  BY <1>9, TypesStep DEF NumberTaken, Dies
<1>10. ASSUME NEW c \in Clerk, WriteReceipt(c) PROVE CounterTypes'
  <2> DEFINE me == clerk[c]
  <2>1. me \in ClerkType /\ me.pay \in Payment /\ me.year \in Year
    BY <1>10, <1>a, <1>b DEF WriteReceipt, RequestOK, Takings
  <2>2. /\ me.seq + 1 \in Nat /\ me.seq \in Nat /\ me.year \in 0 .. Years
        /\ me.amount \in Nat /\ me.plan \in [Invoice -> Nat]
    BY <2>1 DEF ClerkType
  <2>3. counter' \in [Year -> Nat]
    BY <1>10, <2>1, <2>2 DEF WriteReceipt, CounterTypes
  <2>4. scheme' \in Scheme
    BY <1>10, <2>2 DEF WriteReceipt, Scheme, CounterTypes
  <2>5. payments' \in [Payment -> PaymentType]
    <3>1. payments' = [payments EXCEPT ![me.pay] =
                         [status |-> IF me.op = "cheque" THEN "pending" ELSE "success",
                          amount |-> me.amount, seq |-> me.seq, fy |-> me.year]]
      BY <1>10 DEF WriteReceipt
    <3>2. payments \in [Payment -> PaymentType]
      BY DEF CounterTypes, PaymentType
    <3> HIDE DEF me
    <3>3. QED BY <2>1, <2>2, <3>1, <3>2 DEF PaymentType
  <2>6. alloc' \in [Payment -> [Invoice -> Nat]]
    BY <1>10, <2>1, <2>2 DEF WriteReceipt, CounterTypes
  <2>7. QED BY <1>10, <2>3, <2>4, <2>5, <2>6, TypesCommit DEF WriteReceipt
<1>11. ASSUME NEW c \in Clerk, WriteClear(c) PROVE CounterTypes'
  <2> DEFINE me == clerk[c]
             kept == [i \in Invoice |-> IF me.plan[i] > 0 THEN me.plan[i] ELSE alloc[me.pay][i]]
  <2>1. me \in ClerkType /\ me.pay \in Payment
    BY <1>11, <1>a, <1>b DEF WriteClear, RequestOK
  <2>2. kept \in [Invoice -> Nat]
    BY <2>1 DEF ClerkType, CounterTypes
  <2>3. Step(c, Idle) /\ scheme' = scheme /\ counter' = counter
    BY <1>11 DEF WriteClear, Books
  <2>4. \/ payments' = payments /\ alloc' = alloc
        \/ /\ payments' = [payments EXCEPT ![me.pay].status = "success"]
           /\ alloc' = [alloc EXCEPT ![me.pay] = kept]
    BY <1>11 DEF WriteClear, Books
  <2> HIDE DEF me, kept
  <2>5. payments' \in [Payment -> PaymentType]
    <3>1. payments \in [Payment -> PaymentType]
      BY DEF CounterTypes, PaymentType
    <3>2. QED BY <2>1, <2>4, <3>1, StatusType
  <2>6. alloc' \in [Payment -> [Invoice -> Nat]]
    BY <2>1, <2>2, <2>4 DEF CounterTypes
  <2>7. scheme' \in Scheme /\ counter' \in [Year -> Nat]
    BY <2>3 DEF CounterTypes
  <2>8. QED BY <2>3, <2>5, <2>6, <2>7, TypesCommit
<1>12. ASSUME NEW c \in Clerk, NEW status \in {"bounced", "cancelled"}, NEW fine,
              clerk[c].op \in {"bounce", "void"}, TakeOff(c, status, fine)
       PROVE  CounterTypes'
  <2> DEFINE me == clerk[c]
  <2>1. me \in ClerkType /\ me.pay \in Payment
    BY <1>12, <1>a, <1>b DEF RequestOK
  <2>2. /\ payments' = [payments EXCEPT ![me.pay].status = status]
        /\ alloc' = [alloc EXCEPT ![me.pay] = Nothing]
        /\ scheme' = scheme /\ counter' = counter
        /\ Step(c, Idle)
    BY <1>12 DEF TakeOff
  <2>3. Nothing \in [Invoice -> Nat]
    BY DEF Nothing
  <2> HIDE DEF me
  <2>4. payments' \in [Payment -> PaymentType]
    BY <2>1, <2>2, StatusType
  <2>5. alloc' \in [Payment -> [Invoice -> Nat]]
    BY <2>1, <2>2, <2>3 DEF CounterTypes
  <2>6. scheme' \in Scheme /\ counter' \in [Year -> Nat]
    BY <2>2 DEF CounterTypes
  <2>7. QED BY <2>2, <2>4, <2>5, <2>6, TypesCommit
<1>13. QED
  BY <1>1, <1>2, <1>3, <1>4, <1>5, <1>6, <1>7, <1>8, <1>9, <1>10, <1>11, <1>12
     DEF Next, Reads, Writes, WriteBounce, WriteVoid

-----------------------------------------------------------------------------
(* A request alone with the payment it is taking. *)
Alone(c, next) ==
    \A d \in Clerk \ {c} :
        next.op \in Takings \/ clerk[d].op \in Takings => clerk[d].pay # next.pay

(* A change of status leaves the series alone. *)
LEMMA SeriesFrame ==
    ASSUME ReceiptsGapless, counter' = counter,
           \A p \in Payment : payments'[p].fy = payments[p].fy /\ payments'[p].seq = payments[p].seq
    PROVE  ReceiptsGapless'
<1>1. \A y \in Year : Series(y)' = Series(y)
  BY DEF Series
<1>2. \A y \in Year : Numbers(y)' = Numbers(y)
  BY <1>1 DEF Numbers, Series
<1>3. QED BY <1>1, <1>2 DEF ReceiptsGapless, Series
(* The books stay as they are: only the request that moved is looked at. *)
LEMMA InvStep ==
    ASSUME CounterTypes, FeesInv, NEW c \in Clerk, NEW next, Step(c, next), UNCHANGED Books,
           RequestOK(next), Alone(c, next)
    PROVE  FeesInv'
<1>1. scheme' = scheme /\ counter' = counter /\ payments' = payments /\ alloc' = alloc
  BY DEF Books
<1>2. ReceiptsGapless' /\ SchemeInv' /\ OffTheBooks'
  <2>1. ReceiptsGapless'
    BY <1>1, SeriesFrame DEF FeesInv
  <2>2. SchemeInv' /\ OffTheBooks'
    BY <1>1 DEF FeesInv, SchemeInv, OffTheBooks
  <2>3. QED BY <2>1, <2>2
<1>3. clerk' = [clerk EXCEPT ![c] = next] /\ DOMAIN clerk = Clerk
  BY DEF Step, CounterTypes
<1>4. ASSUME NEW d \in Clerk PROVE RequestOK(clerk[d])'
  <2>1. RequestOK(clerk[d]) /\ RequestOK(next)
    BY DEF FeesInv, ClerkInv
  <2>2. clerk'[d] = IF d = c THEN next ELSE clerk[d]
    BY <1>3
  <2>3. QED BY <1>1, <2>1, <2>2 DEF RequestOK
<1>5. ASSUME NEW d \in Clerk, NEW e \in Clerk \ {d}, clerk'[d].op \in Takings
      PROVE  clerk'[e].pay # clerk'[d].pay
  BY <1>3, <1>5 DEF FeesInv, ClerkInv, Alone
<1>6. ClerkInv'
  BY <1>4, <1>5 DEF ClerkInv
<1>7. QED BY <1>2, <1>6 DEF FeesInv

(* Going on with the same payment is being as alone with it as before. *)
LEMMA StillAlone ==
    ASSUME ClerkInv, NEW c \in Clerk, NEW next, next.op = clerk[c].op, next.pay = clerk[c].pay
    PROVE  Alone(c, next)
BY DEF ClerkInv, Alone

LEMMA IdleAlone ==
    ASSUME ClerkInv, NEW c \in Clerk
    PROVE  RequestOK(Idle) /\ Alone(c, Idle)
<1>1. /\ Idle.pc = "idle" /\ Idle.op = "none" /\ Idle.pay = NoPayment
      /\ Idle.plan = Nothing
  BY DEF Idle
<1>2. RequestOK(Idle)
  BY <1>1 DEF RequestOK, Takings
<1>3. \A d \in Clerk : clerk[d].op \in Takings => clerk[d].pay \in Payment
  BY DEF ClerkInv, RequestOK, Takings
<1>4. QED BY <1>1, <1>2, <1>3, FeeAssumption DEF Alone, Takings

(* A batch is committed: no receipt is unwritten, no counter taken back, and
   nobody else's payment in the making is touched. *)
LEMMA ClerkCommit ==
    ASSUME CounterTypes, ClerkInv, NEW c \in Clerk, Step(c, Idle),
           \A p \in Payment : payments[p].status # "none" => payments'[p].status # "none",
           \A d \in Clerk \ {c} : clerk[d].op \in Takings =>
               payments'[clerk[d].pay] = payments[clerk[d].pay],
           \A y \in Year : counter[y] # 0 => counter'[y] # 0
    PROVE  ClerkInv'
<1>1. clerk' = [clerk EXCEPT ![c] = Idle] /\ DOMAIN clerk = Clerk
  BY DEF Step, CounterTypes
<1>2. RequestOK(Idle) /\ Alone(c, Idle)
  BY IdleAlone
<1>3. /\ Idle.pc = "idle" /\ Idle.op = "none" /\ Idle.pay = NoPayment
      /\ Idle.plan = Nothing
  BY DEF Idle
<1>4. ASSUME NEW d \in Clerk PROVE RequestOK(clerk[d])'
  <2>1. CASE d = c
    <3>1. clerk'[d] = Idle
      BY <1>1, <2>1
    <3>2. QED BY <1>3, <3>1 DEF RequestOK, Takings
  <2>2. CASE d # c
    <3>1. clerk'[d] = clerk[d] /\ RequestOK(clerk[d])
      BY <1>1, <2>2 DEF ClerkInv
    <3>2. clerk[d].op \in Takings => payments'[clerk[d].pay] = payments[clerk[d].pay]
      BY <2>2
    <3>3. QED BY <3>1, <3>2 DEF RequestOK, Takings
  <2>3. QED BY <2>1, <2>2
<1>5. ASSUME NEW d \in Clerk, NEW e \in Clerk \ {d}, clerk'[d].op \in Takings
      PROVE  clerk'[e].pay # clerk'[d].pay
  BY <1>1, <1>2, <1>3, <1>5 DEF ClerkInv, Alone, Takings
<1>6. QED BY <1>4, <1>5 DEF ClerkInv

-----------------------------------------------------------------------------
LEMMA InvInit == Init => FeesInv
<1> SUFFICES ASSUME Init PROVE FeesInv
  OBVIOUS
<1>1. \A c \in Clerk : clerk[c] = Idle
  BY DEF Init
<1>2. \A y \in Year : Series(y) = {} /\ counter[y] = 0
  BY DEF Init, Series, Year, NoReceipt
<1>3. ReceiptsGapless
  BY <1>2 DEF ReceiptsGapless, Numbers
<1>4. Idle.pc = "idle" /\ Idle.op = "none"
  BY DEF Idle
<1>5. RequestOK(Idle)
  BY <1>4 DEF RequestOK, Takings
<1>6. ClerkInv
  BY <1>1, <1>4, <1>5 DEF ClerkInv, Takings
<1>7. SchemeInv /\ OffTheBooks
  BY DEF Init, SchemeInv, OffTheBooks
<1>8. QED BY <1>3, <1>6, <1>7 DEF FeesInv

(* A year without a counter has no receipts. *)
LEMMA NoCounterNoReceipts ==
    ASSUME FeesInv, NEW y \in Year, counter[y] = 0
    PROVE  Numbers(y) = {}
BY DEF FeesInv, ReceiptsGapless

LEMMA ReadSchemeInv ==
    ASSUME CounterTypes, FeesInv, NEW c \in Clerk, ReadScheme(c)
    PROVE  FeesInv'
<1> DEFINE me == clerk[c]
           pc == IF scheme.fy \in {0, me.year} THEN "counter" ELSE "seed"
           next == [me EXCEPT !.pc = pc, !.scheme = scheme, !.seq = scheme.next]
<1>1. Step(c, next) /\ UNCHANGED Books /\ me.pc = "scheme"
  BY DEF ReadScheme, At
<1>2. me \in ClerkType /\ RequestOK(me)
  BY DEF CounterTypes, ClerkType, FeesInv, ClerkInv
<1>3. /\ next.pc = pc /\ next.op = me.op /\ next.pay = me.pay /\ next.year = me.year
      /\ next.seq = scheme.next /\ next.plan = me.plan
  BY <1>2 DEF ClerkType
<1>4. me.op \in Takings /\ me.year \in Year
  BY <1>1, <1>2 DEF RequestOK
<1>5. pc = "counter" => counter[me.year] # 0 \/ scheme.next = 1
  BY <1>4 DEF FeesInv, SchemeInv, Year
<1>6. pc \in {"counter", "seed"}
  OBVIOUS
<1> HIDE DEF me, pc, next
<1>7. RequestOK(next)
  BY <1>1, <1>2, <1>3, <1>4, <1>5, <1>6 DEF RequestOK, Takings
<1>8. Alone(c, next)
  BY <1>3, StillAlone DEF FeesInv, me
<1>9. QED BY <1>1, <1>7, <1>8, InvStep

LEMMA ReadSeedInv ==
    ASSUME CounterTypes, FeesInv, NEW c \in Clerk, ReadSeed(c)
    PROVE  FeesInv'
<1> DEFINE me == clerk[c]
<1>1. PICK last \in Numbers(me.year) \cup {0} :
        Step(c, [me EXCEPT !.pc = "counter", !.seq = last + 1])
  BY DEF ReadSeed
<1> DEFINE next == [me EXCEPT !.pc = "counter", !.seq = last + 1]
<1>2. me \in ClerkType /\ RequestOK(me) /\ me.pc = "seed" /\ UNCHANGED Books
  BY DEF CounterTypes, ClerkType, FeesInv, ClerkInv, ReadSeed, At
<1>3. /\ next.pc = "counter" /\ next.op = me.op /\ next.pay = me.pay /\ next.year = me.year
      /\ next.seq = last + 1 /\ next.plan = me.plan
  BY <1>2 DEF ClerkType
<1>4. me.op \in Takings /\ me.year \in Year
  BY <1>2 DEF RequestOK
<1>5. counter[me.year] # 0 \/ last + 1 = 1
  BY <1>1, <1>4, NoCounterNoReceipts
<1>6. Step(c, next)
  BY <1>1
<1> HIDE DEF me, next
<1>7. RequestOK(next)
  BY <1>2, <1>3, <1>4, <1>5 DEF RequestOK, Takings
<1>8. Alone(c, next)
  BY <1>3, StillAlone DEF FeesInv, me
<1>9. QED BY <1>2, <1>6, <1>7, <1>8, InvStep

LEMMA ReadCounterInv ==
    ASSUME CounterTypes, FeesInv, NEW c \in Clerk, ReadCounter(c)
    PROVE  FeesInv'
<1> DEFINE me == clerk[c]
           n == counter[me.year]
           pc == IF me.op = "cheque" THEN "write" ELSE "dues"
           seq == IF n = 0 THEN me.seq ELSE n
           next == [me EXCEPT !.pc = pc, !.seq = seq, !.fresh = (n = 0)]
<1>1. Step(c, next) /\ UNCHANGED Books /\ me.pc = "counter"
  BY DEF ReadCounter, At
<1>2. me \in ClerkType /\ RequestOK(me)
  BY DEF CounterTypes, ClerkType, FeesInv, ClerkInv
<1>3. /\ next.pc = pc /\ next.op = me.op /\ next.pay = me.pay /\ next.year = me.year
      /\ next.seq = seq /\ next.fresh = (n = 0) /\ next.plan = me.plan
  BY <1>2 DEF ClerkType
<1>4. me.op \in Takings /\ me.year \in Year
  BY <1>1, <1>2 DEF RequestOK
<1>5. seq > 0 /\ (n = 0 => seq = 1)
  <2>1. n \in Nat /\ (n # 0 \/ me.seq = 1)
    BY <1>1, <1>2, <1>4 DEF RequestOK, CounterTypes
  <2>2. QED BY <2>1
<1>6. /\ pc \in {"write", "dues"}
      /\ me.op = "cheque" => pc # "dues"
  OBVIOUS
<1> HIDE DEF me, n, pc, seq, next
<1>7. RequestOK(next)
  BY <1>1, <1>2, <1>3, <1>4, <1>5, <1>6 DEF RequestOK, Takings
<1>8. Alone(c, next)
  BY <1>3, StillAlone DEF FeesInv, me
<1>9. QED BY <1>1, <1>7, <1>8, InvStep

LEMMA ReadDuesInv ==
    ASSUME CounterTypes, FeesInv, NEW c \in Clerk, ReadDues(c)
    PROVE  FeesInv'
<1> DEFINE me == clerk[c]
<1>1. PICK plan \in [Invoice -> 0 .. me.amount] :
        Step(c, [me EXCEPT !.pc = "write", !.plan = plan])
  BY DEF ReadDues
<1> DEFINE next == [me EXCEPT !.pc = "write", !.plan = plan]
<1>2. me \in ClerkType /\ RequestOK(me) /\ me.pc = "dues" /\ UNCHANGED Books
  BY DEF CounterTypes, ClerkType, FeesInv, ClerkInv, ReadDues, At
<1>3. /\ next.pc = "write" /\ next.op = me.op /\ next.pay = me.pay /\ next.year = me.year
      /\ next.seq = me.seq /\ next.fresh = me.fresh
  BY <1>2 DEF ClerkType
<1>4. Step(c, next)
  BY <1>1
<1> HIDE DEF me, next
<1>5. RequestOK(next)
  BY <1>2, <1>3 DEF RequestOK, Takings
<1>6. Alone(c, next)
  BY <1>3, StillAlone DEF FeesInv, me
<1>7. QED BY <1>2, <1>4, <1>5, <1>6, InvStep

LEMMA ReadAllocsInv ==
    ASSUME CounterTypes, FeesInv, NEW c \in Clerk, ReadAllocs(c)
    PROVE  FeesInv'
<1> DEFINE me == clerk[c]
           next == [me EXCEPT !.pc = "write", !.seen = Touched(alloc[me.pay])]
<1>1. Step(c, next) /\ UNCHANGED Books /\ me.pc = "allocs"
  BY DEF ReadAllocs, At
<1>2. me \in ClerkType /\ RequestOK(me)
  BY DEF CounterTypes, ClerkType, FeesInv, ClerkInv
<1>3. next.pc = "write" /\ next.op = me.op /\ next.pay = me.pay
  BY <1>2 DEF ClerkType
<1> HIDE DEF me, next
<1>4. RequestOK(next)
  BY <1>1, <1>2, <1>3 DEF RequestOK, Takings
<1>5. Alone(c, next)
  BY <1>3, StillAlone DEF FeesInv, me
<1>6. QED BY <1>1, <1>4, <1>5, InvStep

LEMMA CollectInv ==
    ASSUME CounterTypes, FeesInv, NEW c \in Clerk, NEW p \in Payment, NEW amount,
           NEW year \in Year, Collect(c, p, amount, year)
    PROVE  FeesInv'
<1>1. PICK op \in Takings :
        Step(c, [Idle EXCEPT !.pc = "scheme", !.op = op, !.pay = p,
                             !.amount = amount, !.year = year])
  BY DEF Collect, Takings
<1> DEFINE next == [Idle EXCEPT !.pc = "scheme", !.op = op, !.pay = p,
                                !.amount = amount, !.year = year]
<1>2. /\ next.pc = "scheme" /\ next.op = op /\ next.pay = p /\ next.year = year
      /\ next.plan = Nothing
  BY DEF Idle
<1>3. payments[p] = NoReceipt /\ UNCHANGED Books /\ \A d \in Clerk : clerk[d].pay # p
  BY DEF Collect
<1>4. Step(c, next)
  BY <1>1
<1> HIDE DEF next
<1>5. RequestOK(next)
  BY <1>1, <1>2, <1>3 DEF RequestOK, Takings
<1>6. Alone(c, next)
  BY <1>2, <1>3 DEF Alone
<1>7. QED BY <1>3, <1>4, <1>5, <1>6, InvStep

LEMMA StartInv ==
    ASSUME CounterTypes, FeesInv, NEW c \in Clerk, NEW p \in Payment, Starts(c, p)
    PROVE  FeesInv'
<1> DEFINE cleared == [Idle EXCEPT !.pc = "dues", !.op = "clear", !.pay = p,
                                   !.amount = payments[p].amount]
           bounced == [Idle EXCEPT !.pc = "allocs", !.op = "bounce", !.pay = p]
           voided == [Idle EXCEPT !.pc = "allocs", !.op = "void", !.pay = p]
<1>1. PICK next \in {cleared, bounced, voided} : Step(c, next)
  BY DEF Starts, StartClear, StartBounce, StartVoid
<1>2. UNCHANGED Books /\ payments[p].status # "none"
  BY DEF Starts, StartClear, StartBounce, StartVoid
<1>3. /\ next.pay = p
      /\ \/ next.pc = "dues" /\ next.op = "clear"
         \/ next.pc = "allocs" /\ next.op \in {"bounce", "void"}
  BY <1>1 DEF Idle
<1> HIDE DEF cleared, bounced, voided
<1>4. RequestOK(next)
  BY <1>2, <1>3 DEF RequestOK, Takings
<1>5. \A d \in Clerk : clerk[d].op \in Takings => clerk[d].pay # p
  BY <1>2 DEF FeesInv, ClerkInv, RequestOK, NoReceipt
<1>6. Alone(c, next)
  BY <1>3, <1>5 DEF Alone, Takings
<1>7. QED BY <1>1, <1>2, <1>4, <1>6, InvStep

(* The batch of a receipt: the number it writes is the one after the last. *)
LEMMA WriteReceiptInv ==
    ASSUME CounterTypes, FeesInv, NEW c \in Clerk, WriteReceipt(c)
    PROVE  FeesInv'
<1>me. PICK me \in ClerkType : me = clerk[c]
  BY DEF CounterTypes, ClerkType
<1> DEFINE row == [status |-> IF me.op = "cheque" THEN "pending" ELSE "success",
                  amount |-> me.amount, seq |-> me.seq, fy |-> me.year]
<1>1. /\ me.pc = "write" /\ me.op \in Takings /\ NumberStands(c)
      /\ counter' = [counter EXCEPT ![me.year] = me.seq + 1]
      /\ scheme' = IF me.scheme.fy <= me.year
                   THEN [next |-> me.seq + 1, fy |-> me.year] ELSE scheme
      /\ payments' = [payments EXCEPT ![me.pay] = row]
      /\ alloc' = [alloc EXCEPT ![me.pay] = me.plan]
      /\ Step(c, Idle)
  BY <1>me DEF WriteReceipt, At, Takings
<1>2. me \in ClerkType /\ RequestOK(me)
  BY <1>me DEF FeesInv, ClerkInv
<1>3. /\ me.year \in Year /\ me.pay \in Payment /\ payments[me.pay] = NoReceipt
      /\ me.seq \in Nat /\ me.seq > 0 /\ (me.fresh => me.seq = 1)
      /\ (me.op = "cheque" => me.plan = Nothing)
  BY <1>1, <1>2 DEF RequestOK, ClerkType, Takings
<1>4. /\ row.status # "none" /\ row.seq = me.seq /\ row.fy = me.year
      /\ (row.status = "success" \/ me.op = "cheque")
  OBVIOUS
<1>5. Numbers(me.year) = 1 .. me.seq - 1
  <2>1. counter[me.year] = IF me.fresh THEN 0 ELSE me.seq
    BY <1>me, <1>1 DEF NumberStands
  <2>2. Numbers(me.year) = IF counter[me.year] = 0 THEN {} ELSE 1 .. counter[me.year] - 1
    BY <1>3 DEF FeesInv, ReceiptsGapless
  <2>3. CASE me.fresh
    BY <1>3, <2>1, <2>2, <2>3
  <2>4. CASE ~me.fresh
    BY <1>3, <2>1, <2>2, <2>4
  <2>5. QED BY <2>3, <2>4
<1> HIDE DEF row
<1>6. \A p \in Payment : payments'[p] = IF p = me.pay THEN row ELSE payments[p]
  BY <1>1, <1>3 DEF CounterTypes
<1>7. \A y \in Year : counter'[y] = IF y = me.year THEN me.seq + 1 ELSE counter[y]
  BY <1>1, <1>3 DEF CounterTypes
<1>8. \A y \in Year : Series(y)' = IF y = me.year THEN Series(y) \cup {me.pay} ELSE Series(y)
  BY <1>3, <1>4, <1>6 DEF Series, NoReceipt, Year
<1>9. \A y \in Year : me.pay \notin Series(y)
  BY <1>3 DEF Series, NoReceipt, Year
<1>10. ReceiptsGapless'
  <2>1. ASSUME NEW y \in Year, y # me.year
        PROVE  Series(y)' = Series(y) /\ counter'[y] = counter[y] /\ Numbers(y)' = Numbers(y)
    <3>1. Series(y)' = Series(y) /\ counter'[y] = counter[y]
      BY <1>7, <1>8, <2>1
    <3>2. \A p \in Series(y) : payments'[p].seq = payments[p].seq
      BY <1>6, <1>9 DEF Series
    <3>3. Numbers(y)' = {payments'[p].seq : p \in Series(y)}
      BY <3>1 DEF Numbers
    <3>4. QED BY <3>1, <3>2, <3>3 DEF Numbers
  <2>2. Numbers(me.year)' = Numbers(me.year) \cup {me.seq}
    <3>1. \A p \in Series(me.year) : payments'[p].seq = payments[p].seq
      BY <1>3, <1>6, <1>9 DEF Series
    <3>2. payments'[me.pay].seq = me.seq
      BY <1>3, <1>4, <1>6
    <3>3. Numbers(me.year)' = {payments'[p].seq : p \in Series(me.year) \cup {me.pay}}
      BY <1>3, <1>8 DEF Numbers
    <3>4. QED BY <3>1, <3>2, <3>3 DEF Numbers
  <2>3. Numbers(me.year)' = 1 .. counter'[me.year] - 1 /\ counter'[me.year] # 0
    <3>1. counter'[me.year] = me.seq + 1
      BY <1>3, <1>7
    <3>2. (1 .. me.seq - 1) \cup {me.seq} = 1 .. (me.seq + 1) - 1
      BY <1>3
    <3>3. QED BY <1>3, <1>5, <2>2, <3>1, <3>2
  <2>4. \A p \in Series(me.year) : payments'[p] = payments[p] /\ payments[p].seq # me.seq
    <3>1. me.seq \notin Numbers(me.year)
      BY <1>3, <1>5
    <3>2. QED BY <1>3, <1>6, <1>9, <3>1 DEF Numbers, Series
  <2>5. ASSUME NEW p \in Series(me.year)', NEW q \in Series(me.year)',
               payments'[p].seq = payments'[q].seq
        PROVE  p = q
    BY <1>3, <1>4, <1>6, <1>8, <2>4, <2>5 DEF FeesInv, ReceiptsGapless
  <2>6. ASSUME NEW y \in Year
        PROVE  /\ Numbers(y)' = IF counter'[y] = 0 THEN {} ELSE 1 .. counter'[y] - 1
               /\ \A p, q \in Series(y)' : payments'[p].seq = payments'[q].seq => p = q
    <3>1. CASE y = me.year
      BY <2>3, <2>5, <3>1
    <3>2. CASE y # me.year
      <4>1. \A p \in Series(y) : payments'[p] = payments[p]
        BY <1>6, <1>9 DEF Series
      <4>2. QED BY <2>1, <3>2, <4>1 DEF FeesInv, ReceiptsGapless
    <3>3. QED BY <3>1, <3>2
  <2>7. QED BY <2>6 DEF ReceiptsGapless
<1>11. SchemeInv'
  <2>1. \A y \in Year : counter[y] # 0 => counter'[y] # 0
    BY <1>3, <1>7
  <2>2. counter'[me.year] # 0 /\ me.year # 0
    BY <1>3, <1>7 DEF Year
  <2>3. CASE scheme' = scheme
    BY <2>1, <2>3 DEF FeesInv, SchemeInv, CounterTypes, Scheme, Year
  <2>4. CASE scheme' = [next |-> me.seq + 1, fy |-> me.year]
    BY <2>2, <2>4 DEF SchemeInv
  <2>5. QED BY <1>1, <2>3, <2>4
<1>12. OffTheBooks'
  BY <1>1, <1>3, <1>4, <1>6 DEF FeesInv, OffTheBooks, CounterTypes
<1>13. ClerkInv'
  <2>1. \A p \in Payment : payments[p].status # "none" => payments'[p].status # "none"
    BY <1>4, <1>6
  <2>2. \A d \in Clerk \ {c} : clerk[d].op \in Takings =>
            payments'[clerk[d].pay] = payments[clerk[d].pay]
    <3>1. \A d \in Clerk \ {c} : clerk[d].op \in Takings =>
              clerk[d].pay # me.pay /\ clerk[d].pay \in Payment
      BY <1>me, <1>1 DEF FeesInv, ClerkInv, RequestOK, Takings
    <3>2. QED BY <1>6, <3>1
  <2>3. \A y \in Year : counter[y] # 0 => counter'[y] # 0
    BY <1>3, <1>7
  <2>4. QED BY <1>1, <2>1, <2>2, <2>3, ClerkCommit DEF FeesInv
<1>14. QED BY <1>10, <1>11, <1>12, <1>13 DEF FeesInv

(* A batch that sets the status of a written payment and its allocations. *)
LEMMA SettleInv ==
    ASSUME CounterTypes, FeesInv, NEW c \in Clerk, NEW p \in Payment,
           NEW status \in {"success", "bounced", "cancelled"}, payments[p].status # "none",
           payments' = [payments EXCEPT ![p].status = status],
           \A q \in Payment \ {p} : alloc'[q] = alloc[q],
           status = "success" \/ alloc'[p] = Nothing,
           scheme' = scheme, counter' = counter, Step(c, Idle)
    PROVE  FeesInv'
<1>1. \A q \in Payment : /\ payments'[q].fy = payments[q].fy /\ payments'[q].seq = payments[q].seq
                         /\ payments'[q].status = IF q = p THEN status ELSE payments[q].status
  BY DEF CounterTypes
<1>2. ReceiptsGapless'
  BY <1>1, SeriesFrame DEF FeesInv
<1>3. SchemeInv' /\ OffTheBooks'
  BY <1>1 DEF FeesInv, SchemeInv, OffTheBooks
<1>4. ClerkInv'
  <2>1. \A q \in Payment : payments[q].status # "none" => payments'[q].status # "none"
    BY <1>1
  <2>2. \A d \in Clerk \ {c} : clerk[d].op \in Takings =>
            payments'[clerk[d].pay] = payments[clerk[d].pay]
    <3>1. \A d \in Clerk : clerk[d].op \in Takings =>
              clerk[d].pay \in Payment /\ clerk[d].pay # p
      BY DEF FeesInv, ClerkInv, RequestOK, Takings, NoReceipt
    <3>2. QED BY <3>1 DEF CounterTypes
  <2>3. \A y \in Year : counter[y] # 0 => counter'[y] # 0
    OBVIOUS
  <2>4. QED BY <2>1, <2>2, <2>3, ClerkCommit DEF FeesInv
<1>5. QED BY <1>2, <1>3, <1>4 DEF FeesInv

LEMMA WriteClearInv ==
    ASSUME CounterTypes, FeesInv, NEW c \in Clerk, WriteClear(c)
    PROVE  FeesInv'
<1>1. PICK p \in Payment : p = clerk[c].pay /\ payments[p].status # "none"
  BY DEF FeesInv, ClerkInv, RequestOK, WriteClear
<1>2. /\ Step(c, Idle)
      /\ \/ UNCHANGED Books
         \/ /\ payments' = [payments EXCEPT ![p].status = "success"]
            /\ \A q \in Payment \ {p} : alloc'[q] = alloc[q]
            /\ scheme' = scheme /\ counter' = counter
  BY <1>1 DEF WriteClear, CounterTypes
<1>3. CASE UNCHANGED Books
  BY <1>2, <1>3, InvStep, IdleAlone DEF FeesInv
<1>4. CASE ~UNCHANGED Books
  BY <1>1, <1>2, <1>4, SettleInv
<1>5. QED BY <1>3, <1>4

LEMMA TakeOffInv ==
    ASSUME CounterTypes, FeesInv, NEW c \in Clerk, NEW status \in {"bounced", "cancelled"},
           NEW fine, clerk[c].op \in {"bounce", "void"}, TakeOff(c, status, fine)
    PROVE  FeesInv'
<1>1. PICK p \in Payment : p = clerk[c].pay /\ payments[p].status # "none"
  BY DEF FeesInv, ClerkInv, RequestOK
<1>2. /\ payments' = [payments EXCEPT ![p].status = status]
      /\ alloc' = [alloc EXCEPT ![p] = Nothing]
      /\ scheme' = scheme /\ counter' = counter /\ Step(c, Idle)
  BY <1>1 DEF TakeOff
<1>3. (\A q \in Payment \ {p} : alloc'[q] = alloc[q]) /\ alloc'[p] = Nothing
  BY <1>2 DEF CounterTypes
<1>4. status \in {"success", "bounced", "cancelled"}
  OBVIOUS
<1>5. QED BY <1>1, <1>2, <1>3, <1>4, SettleInv

LEMMA InvNext == CounterTypes /\ FeesInv /\ [Next]_vars => FeesInv'
<1> SUFFICES ASSUME CounterTypes, FeesInv, [Next]_vars PROVE FeesInv'
  OBVIOUS
<1>1. CASE UNCHANGED vars
  <2>1. \A d \in Clerk : clerk'[d] = clerk[d]
    BY <1>1 DEF vars
  <2>2. /\ scheme' = scheme /\ counter' = counter /\ payments' = payments
        /\ alloc' = alloc
    BY <1>1 DEF vars
  <2>3. ReceiptsGapless'
    BY <2>2, SeriesFrame DEF FeesInv
  <2>4. SchemeInv' /\ OffTheBooks'
    BY <2>2 DEF FeesInv, SchemeInv, OffTheBooks
  <2>5. ClerkInv'
    BY <2>1, <2>2 DEF FeesInv, ClerkInv, RequestOK
  <2>6. QED BY <2>3, <2>4, <2>5 DEF FeesInv
<1>2. ASSUME NEW c \in Clerk, NumberTaken(c) \/ Dies(c) PROVE FeesInv'
  <2>1. Step(c, Idle) /\ UNCHANGED Books
    BY <1>2 DEF NumberTaken, Dies
  <2>2. QED BY <2>1, IdleAlone, InvStep DEF FeesInv
<1>3. ASSUME NEW c \in Clerk, Reads(c) PROVE FeesInv'
  BY <1>3, ReadSchemeInv, ReadSeedInv, ReadCounterInv, ReadDuesInv, ReadAllocsInv DEF Reads
<1>4. ASSUME NEW c \in Clerk, WriteBounce(c) \/ WriteVoid(c) PROVE FeesInv'
  BY <1>4, TakeOffInv DEF WriteBounce, WriteVoid
<1>5. QED
  BY <1>1, <1>2, <1>3, <1>4, CollectInv, StartInv, WriteReceiptInv, WriteClearInv
     DEF Next, Writes

-----------------------------------------------------------------------------
(***************************************************************************)
(* What the invoices add up to.                                            *)
(***************************************************************************)
InvoiceType == [net : Nat, paid : Nat, settled : BOOLEAN]

(* What the allocations of an invoice add up to is a natural number. *)
LEMMA PaidType ==
    ASSUME NEW rows \in [Payment -> [Invoice -> Nat]], NEW i \in Invoice
    PROVE  SumFunction([p \in Payment |-> rows[p][i]]) \in Nat
<1>1. PICK f : f = [p \in Payment |-> rows[p][i]]
  OBVIOUS
<1>2. DOMAIN f = Payment /\ \A p \in Payment : f[p] \in Nat
  BY <1>1
<1>3. SumFunctionOnSet(f, Payment) \in Nat
  BY <1>2, SumNat, FeeAssumption
<1>4. QED BY <1>1, <1>2, <1>3 DEF SumFunction

LEMMA SyncType ==
    ASSUME TypeOK, NEW rows \in [Payment -> [Invoice -> Nat]], NEW touched
    PROVE  SyncInvoices(touched, rows) \in [Invoice -> InvoiceType]
<1>1. ASSUME NEW i \in Invoice PROVE Synced(i, rows) \in InvoiceType /\ invoices[i] \in InvoiceType
  <2>1. PICK paid \in Nat : paid = SumFunction([p \in Payment |-> rows[p][i]])
    BY PaidType
  <2>2. PICK inv \in InvoiceType : inv = invoices[i]
    BY DEF TypeOK, InvoiceType
  <2>3. PICK settled \in BOOLEAN : settled = (paid >= inv.net /\ inv.net > 0)
    OBVIOUS
  <2>4. Synced(i, rows) = [inv EXCEPT !.paid = paid, !.settled = settled]
    BY <2>1, <2>2, <2>3 DEF Synced
  <2>5. [inv EXCEPT !.paid = paid, !.settled = settled] \in InvoiceType
    BY DEF InvoiceType
  <2>6. QED BY <2>2, <2>4, <2>5
<1>2. QED BY <1>1 DEF SyncInvoices

LEMMA FinedType ==
    ASSUME NEW after \in [Invoice -> InvoiceType], NEW fine \in Nat
    PROVE  Fined(after, fine) \in [Invoice -> InvoiceType]
<1>1. ASSUME NEW i \in Invoice PROVE [after[i] EXCEPT !.net = @ + fine] \in InvoiceType
  <2>1. PICK inv \in InvoiceType : inv = after[i]
    OBVIOUS
  <2>2. inv.net + fine \in Nat
    BY DEF InvoiceType
  <2>3. [inv EXCEPT !.net = inv.net + fine] \in InvoiceType
    BY <2>2 DEF InvoiceType
  <2>4. QED BY <2>1, <2>3
<1>2. QED BY <1>1 DEF Fined

LEMMA InvoicesTyped ==
    ASSUME TypeOK, FeesInv, [Next]_vars, CounterTypes'
    PROVE  TypeOK'
<1>1. invoices \in [Invoice -> InvoiceType] /\ alloc' \in [Payment -> [Invoice -> Nat]]
  BY DEF TypeOK, InvoiceType, CounterTypes
<1>2. SUFFICES invoices' \in [Invoice -> InvoiceType]
  BY DEF TypeOK, InvoiceType
<1>3. CASE invoices' = invoices
  BY <1>1, <1>3
<1>4. ASSUME NEW c \in Clerk, WriteReceipt(c) PROVE invoices' \in [Invoice -> InvoiceType]
  <2>1. invoices' = SyncInvoices(Touched(clerk[c].plan), alloc')
    BY <1>4 DEF WriteReceipt
  <2>2. QED BY <1>1, <2>1, SyncType
<1>5. ASSUME NEW c \in Clerk, WriteClear(c), invoices' # invoices
      PROVE  invoices' \in [Invoice -> InvoiceType]
  <2>1. invoices' = SyncInvoices(Touched(clerk[c].plan), alloc')
    BY <1>5 DEF WriteClear, Books
  <2>2. QED BY <1>1, <2>1, SyncType
<1>6. ASSUME NEW c \in Clerk, NEW status, NEW fine \in {0, Fine}, TakeOff(c, status, fine)
      PROVE  invoices' \in [Invoice -> InvoiceType]
  <2>1. invoices' = Fined(SyncInvoices(clerk[c].seen, alloc'), fine)
    BY <1>6 DEF TakeOff
  <2>2. SyncInvoices(clerk[c].seen, alloc') \in [Invoice -> InvoiceType]
    BY <1>1, SyncType
  <2>3. fine \in Nat
    BY FeeAssumption
  <2>4. QED BY <2>1, <2>2, <2>3, FinedType
<1>7. QED
  BY <1>3, <1>4, <1>5, <1>6
     DEF Next, vars, Books, Reads, Writes, Starts, Collect, ReadScheme, ReadSeed, ReadCounter,
         ReadDues, ReadAllocs, StartClear, StartBounce, StartVoid, NumberTaken, Dies,
         WriteBounce, WriteVoid

(* Every column the counter writes keeps its type, what an invoice has been
   paid, which is a sum over the allocations, included. *)
THEOREM CounterTyped == Spec => []TypeOK
<1>1. TypeOK /\ FeesInv /\ [Next]_vars => (TypeOK /\ FeesInv)'
  <2>1. TypeOK => CounterTypes
    BY DEF TypeOK
  <2>2. QED BY <2>1, TypesNext, InvNext, InvoicesTyped DEF FeesInv
<1>2. Init => TypeOK
  BY TypesInit, FeeAssumption DEF Init, TypeOK
<1>3. QED BY <1>1, <1>2, InvInit, PTL DEF Spec

(* The inductive invariant: a request between its reads and its batch has a
   number that is right unless the counter moves, and a payment nobody else is
   taking. *)
THEOREM CounterInvariant == Spec => []FeesInv
<1>1. CounterTypes /\ FeesInv /\ [Next]_vars => (CounterTypes /\ FeesInv)'
  BY TypesNext, InvNext DEF FeesInv
<1>2. QED BY <1>1, TypesInit, InvInit, PTL DEF Spec

(* Receipts are numbered without a gap or a repeat in every financial year,
   however many clerks write them at once. *)
THEOREM SeriesGapless == Spec => []ReceiptsGapless
<1>1. FeesInv => ReceiptsGapless
  BY DEF FeesInv
<1>2. QED BY <1>1, CounterInvariant, PTL

(* A payment that is waiting, bounced or void pays for nothing. *)
THEOREM OnlyReceivedPays == Spec => []OffTheBooks
<1>1. FeesInv => OffTheBooks
  BY DEF FeesInv
<1>2. QED BY <1>1, CounterInvariant, PTL

-----------------------------------------------------------------------------
(***************************************************************************)
(* Settled exactly when paid.                                              *)
(***************************************************************************)
Right(inv) ==
    /\ inv.settled <=> inv.paid >= inv.net /\ inv.net > 0
    /\ inv.net = 0 => inv.paid = 0

LEMMA SyncRight ==
    ASSUME TypeOK, InvoiceInv, NEW touched, NEW rows \in [Payment -> [Invoice -> Nat]],
           \A i \in Invoice : invoices[i].net = 0 => \A p \in Payment : rows[p][i] = 0,
           NEW i \in Invoice
    PROVE  /\ Right(SyncInvoices(touched, rows)[i])
           /\ SyncInvoices(touched, rows)[i].net = invoices[i].net
<1>1. PICK inv \in InvoiceType : inv = invoices[i]
  BY DEF TypeOK, InvoiceType
<1>2. PICK f : f = [p \in Payment |-> rows[p][i]]
  OBVIOUS
<1>3. PICK paid \in Nat : paid = SumFunction(f)
  BY <1>2, PaidType
<1>4. inv.net = 0 => paid = 0
  <2>1. SUFFICES ASSUME inv.net = 0 PROVE paid = 0
    OBVIOUS
  <2>2. DOMAIN f = Payment /\ \A p \in Payment : f[p] = 0
    BY <1>1, <1>2, <2>1
  <2>3. SumFunctionOnSet(f, Payment) = 0
    BY <2>2, SumZero, FeeAssumption
  <2>4. QED BY <1>3, <2>2, <2>3 DEF SumFunction
<1>5. Right(inv)
  BY <1>1 DEF InvoiceInv, SettledWhenPaid, Right
<1>6. PICK settled \in BOOLEAN : settled = (paid >= inv.net /\ inv.net > 0)
  OBVIOUS
<1>7. Synced(i, rows) = [inv EXCEPT !.paid = paid, !.settled = settled]
  BY <1>1, <1>2, <1>3, <1>6 DEF Synced
<1>8. PICK new \in InvoiceType : new = Synced(i, rows)
  BY <1>7 DEF InvoiceType
<1>9. new.net = inv.net /\ new.paid = paid /\ new.settled = settled
  BY <1>7, <1>8 DEF InvoiceType
<1>10. Right(new)
  BY <1>4, <1>6, <1>9 DEF Right
<1>11. SyncInvoices(touched, rows)[i] = IF i \in touched THEN new ELSE inv
  BY <1>1, <1>8 DEF SyncInvoices
<1>12. QED BY <1>1, <1>5, <1>9, <1>10, <1>11

(* A fine goes on an unsettled invoice and leaves it unsettled. *)
LEMMA FinedRight ==
    ASSUME NEW after \in [Invoice -> InvoiceType], NEW fine \in Nat, NEW i \in Invoice,
           Right(after[i])
    PROVE  Right(Fined(after, fine)[i]) /\ (Fined(after, fine)[i].net = 0 => after[i].net = 0)
<1>1. PICK inv \in InvoiceType : inv = after[i]
  OBVIOUS
<1>2. PICK new \in InvoiceType : new = [inv EXCEPT !.net = inv.net + fine]
  <2>1. inv.net + fine \in Nat
    BY DEF InvoiceType
  <2>2. [inv EXCEPT !.net = inv.net + fine] \in InvoiceType
    BY <2>1 DEF InvoiceType
  <2>3. QED BY <2>2
<1>3. new.net = inv.net + fine /\ new.paid = inv.paid /\ new.settled = inv.settled
  BY <1>2 DEF InvoiceType
<1>4. inv.net \in Nat /\ inv.paid \in Nat
  BY DEF InvoiceType
<1>5. \/ Fined(after, fine)[i] = inv
      \/ Fined(after, fine)[i] = new /\ ~inv.settled
  BY <1>1, <1>2 DEF Fined
<1>6. ~inv.settled => Right(new)
  BY <1>1, <1>3, <1>4 DEF Right
<1>7. QED BY <1>1, <1>3, <1>4, <1>5, <1>6

(* A request reads, dies or is turned away. *)
LEMMA InvoiceStep ==
    ASSUME TypeOK, InvoiceInv, NEW c \in Clerk, NEW next, Step(c, next), UNCHANGED Books,
           \A i \in Invoice : invoices[i].net = 0 => next.plan[i] = 0
    PROVE  InvoiceInv'
<1>1. clerk' = [clerk EXCEPT ![c] = next] /\ DOMAIN clerk = Clerk
  BY DEF Step, TypeOK, CounterTypes
<1>2. invoices' = invoices /\ alloc' = alloc
  BY DEF Books
<1>3. SettledWhenPaid'
  BY <1>2 DEF InvoiceInv, SettledWhenPaid
<1>4. \A d \in Clerk : clerk'[d] = IF d = c THEN next ELSE clerk[d]
  BY <1>1
<1>5. QED BY <1>2, <1>3, <1>4 DEF InvoiceInv

(* A request commits its batch. *)
LEMMA InvoiceCommit ==
    ASSUME TypeOK, InvoiceInv, NEW c \in Clerk, Step(c, Idle),
           \A i \in Invoice : invoices[i].net = 0 => \A p \in Payment : alloc'[p][i] = 0,
           \A i \in Invoice : Right(invoices'[i]),
           \A i \in Invoice : invoices'[i].net = 0 => invoices[i].net = 0
    PROVE  InvoiceInv'
<1>1. clerk' = [clerk EXCEPT ![c] = Idle] /\ DOMAIN clerk = Clerk
  BY DEF Step, TypeOK, CounterTypes
<1>2. \A i \in Invoice : Idle.plan[i] = 0
  BY DEF Idle, Nothing
<1>3. \A d \in Clerk : clerk'[d] = IF d = c THEN Idle ELSE clerk[d]
  BY <1>1
<1>4. SettledWhenPaid'
  BY DEF Right, SettledWhenPaid
<1>5. ASSUME NEW i \in Invoice, invoices'[i].net = 0
      PROVE  /\ invoices'[i].paid = 0
             /\ \A p \in Payment : alloc'[p][i] = 0
             /\ \A d \in Clerk : clerk'[d].plan[i] = 0
  BY <1>2, <1>3, <1>5 DEF InvoiceInv, Right
<1>6. QED BY <1>4, <1>5 DEF InvoiceInv

LEMMA InvoiceNext == TypeOK /\ FeesInv /\ InvoiceInv /\ [Next]_vars => InvoiceInv'
<1> SUFFICES ASSUME TypeOK, FeesInv, InvoiceInv, [Next]_vars PROVE InvoiceInv'
  OBVIOUS
<1>t. CounterTypes
  BY DEF TypeOK
<1>a. \A c \in Clerk : clerk[c] \in ClerkType
  BY <1>t DEF CounterTypes, ClerkType
<1>b. Idle.plan = Nothing /\ \A i \in Invoice : Nothing[i] = 0
  BY DEF Idle, Nothing
<1>c. TypeOK'
  BY <1>t, TypesNext, InvoicesTyped DEF FeesInv
<1>d. alloc' \in [Payment -> [Invoice -> Nat]]
  BY <1>c DEF TypeOK, CounterTypes
<1>e. \A c \in Clerk, i \in Invoice : invoices[i].net = 0 => clerk[c].plan[i] = 0
  BY DEF InvoiceInv
<1>1. CASE UNCHANGED vars
  BY <1>1 DEF vars, InvoiceInv, SettledWhenPaid
<1>2. ASSUME NEW c \in Clerk, ReadDues(c) PROVE InvoiceInv'
  <2>1. PICK plan \in [Invoice -> 0 .. clerk[c].amount] :
          /\ Spreads(plan, clerk[c].amount, Dues)
          /\ Step(c, [clerk[c] EXCEPT !.pc = "write", !.plan = plan])
    BY <1>2 DEF ReadDues
  <2>2. ASSUME NEW i \in Invoice, invoices[i].net = 0 PROVE plan[i] = 0
    <3>1. Dues[i] = 0
      BY <2>2 DEF Dues, InvoiceInv
    <3>2. plan[i] \in Nat
      <4>1. clerk[c].amount \in Nat
        BY <1>a DEF ClerkType
      <4>2. QED BY <2>1, <4>1
    <3>3. PICK left : plan[i] = IF Dues[i] < left THEN Dues[i] ELSE left
      BY <2>1 DEF Spreads
    <3>4. QED BY <3>1, <3>2, <3>3
  <2>3. PICK next : next = [clerk[c] EXCEPT !.pc = "write", !.plan = plan]
    OBVIOUS
  <2>4. next.plan = plan
    BY <1>a, <2>3 DEF ClerkType
  <2>5. UNCHANGED Books
    BY <1>2 DEF ReadDues
  <2>6. QED BY <2>1, <2>2, <2>3, <2>4, <2>5, InvoiceStep
<1>3. ASSUME NEW c \in Clerk, NEW p \in Payment, NEW amount, NEW year, Collect(c, p, amount, year)
      PROVE  InvoiceInv'
  <2>1. PICK op \in {"cash", "cheque"} :
          Step(c, [Idle EXCEPT !.pc = "scheme", !.op = op, !.pay = p,
                               !.amount = amount, !.year = year])
    BY <1>3 DEF Collect
  <2>2. [Idle EXCEPT !.pc = "scheme", !.op = op, !.pay = p,
                     !.amount = amount, !.year = year].plan = Nothing
    BY DEF Idle
  <2>3. UNCHANGED Books
    BY <1>3 DEF Collect
  <2>4. QED BY <1>b, <2>1, <2>2, <2>3, InvoiceStep
<1>4. ASSUME NEW c \in Clerk, NEW p \in Payment, Starts(c, p) PROVE InvoiceInv'
  <2>1. /\ [Idle EXCEPT !.pc = "dues", !.op = "clear", !.pay = p,
                        !.amount = payments[p].amount].plan = Nothing
        /\ [Idle EXCEPT !.pc = "allocs", !.op = "bounce", !.pay = p].plan = Nothing
        /\ [Idle EXCEPT !.pc = "allocs", !.op = "void", !.pay = p].plan = Nothing
    BY DEF Idle
  <2>2. UNCHANGED Books
    BY <1>4 DEF Starts, StartClear, StartBounce, StartVoid
  <2>3. QED BY <1>4, <1>b, <2>1, <2>2, InvoiceStep DEF Starts, StartClear, StartBounce, StartVoid
<1>5. ASSUME NEW c \in Clerk, NumberTaken(c) \/ Dies(c) PROVE InvoiceInv'
  BY <1>5, <1>b, InvoiceStep DEF NumberTaken, Dies
<1>6. ASSUME NEW c \in Clerk, ReadScheme(c) \/ ReadSeed(c) \/ ReadCounter(c) \/ ReadAllocs(c)
      PROVE  InvoiceInv'
  <2>1. PICK me \in ClerkType : me = clerk[c]
    BY <1>a
  <2>2. UNCHANGED Books
    BY <1>6 DEF ReadScheme, ReadSeed, ReadCounter, ReadAllocs
  <2>3. \A pc, sch, seq, fresh, seen :
          /\ [me EXCEPT !.pc = pc, !.scheme = sch, !.seq = seq].plan = me.plan
          /\ [me EXCEPT !.pc = pc, !.seq = seq].plan = me.plan
          /\ [me EXCEPT !.pc = pc, !.seq = seq, !.fresh = fresh].plan = me.plan
          /\ [me EXCEPT !.pc = pc, !.seen = seen].plan = me.plan
    BY DEF ClerkType
  <2>4. PICK next : Step(c, next) /\ next.plan = me.plan
    <3>1. CASE ReadScheme(c)
      <4> DEFINE pc == IF scheme.fy \in {0, me.year} THEN "counter" ELSE "seed"
                 n == [me EXCEPT !.pc = pc, !.scheme = scheme, !.seq = scheme.next]
      <4>1. Step(c, n)
        BY <2>1, <3>1 DEF ReadScheme
      <4>2. n.plan = me.plan
        BY <2>3
      <4>3. QED BY <4>1, <4>2
    <3>2. CASE ReadSeed(c)
      <4>1. PICK last : Step(c, [me EXCEPT !.pc = "counter", !.seq = last + 1])
        BY <2>1, <3>2 DEF ReadSeed
      <4>2. [me EXCEPT !.pc = "counter", !.seq = last + 1].plan = me.plan
        BY <2>3
      <4>3. QED BY <4>1, <4>2
    <3>3. CASE ReadCounter(c)
      <4> DEFINE m == counter[me.year]
                 pc == IF me.op = "cheque" THEN "write" ELSE "dues"
                 seq == IF m = 0 THEN me.seq ELSE m
                 n == [me EXCEPT !.pc = pc, !.seq = seq, !.fresh = (m = 0)]
      <4>1. Step(c, n)
        BY <2>1, <3>3 DEF ReadCounter
      <4>2. n.plan = me.plan
        BY <2>3
      <4>3. QED BY <4>1, <4>2
    <3>4. CASE ReadAllocs(c)
      <4>1. Step(c, [me EXCEPT !.pc = "write", !.seen = Touched(alloc[me.pay])])
        BY <2>1, <3>4 DEF ReadAllocs
      <4>2. [me EXCEPT !.pc = "write", !.seen = Touched(alloc[me.pay])].plan = me.plan
        BY <2>3
      <4>3. QED BY <4>1, <4>2
    <3>5. QED BY <1>6, <3>1, <3>2, <3>3, <3>4
  <2>5. QED BY <1>e, <2>1, <2>2, <2>4, InvoiceStep
<1>7. ASSUME NEW c \in Clerk, invoices' = SyncInvoices(Touched(clerk[c].plan), alloc'),
             Step(c, Idle),
             \A p \in Payment, i \in Invoice : alloc'[p][i] \in {alloc[p][i], clerk[c].plan[i]}
      PROVE  InvoiceInv'
  <2>1. \A i \in Invoice : invoices[i].net = 0 => \A p \in Payment : alloc'[p][i] = 0
    BY <1>7, <1>e DEF InvoiceInv
  <2>2. \A i \in Invoice : Right(invoices'[i]) /\ invoices'[i].net = invoices[i].net
    BY <1>7, <1>d, <2>1, SyncRight
  <2>3. QED BY <1>7, <2>1, <2>2, InvoiceCommit
<1>8. ASSUME NEW c \in Clerk, WriteReceipt(c) PROVE InvoiceInv'
  <2>1. /\ invoices' = SyncInvoices(Touched(clerk[c].plan), alloc') /\ Step(c, Idle)
        /\ alloc' = [alloc EXCEPT ![clerk[c].pay] = clerk[c].plan]
    BY <1>8 DEF WriteReceipt
  <2>2. \A p \in Payment, i \in Invoice : alloc'[p][i] \in {alloc[p][i], clerk[c].plan[i]}
    BY <1>t, <2>1 DEF CounterTypes
  <2>3. QED BY <1>7, <2>1, <2>2
<1>9. ASSUME NEW c \in Clerk, WriteClear(c) PROVE InvoiceInv'
  <2>1. CASE UNCHANGED Books
    <3>1. Step(c, Idle)
      BY <1>9 DEF WriteClear
    <3>2. QED BY <1>b, <2>1, <3>1, InvoiceStep
  <2>2. CASE ~UNCHANGED Books
    <3>1. /\ invoices' = SyncInvoices(Touched(clerk[c].plan), alloc') /\ Step(c, Idle)
          /\ alloc' = [alloc EXCEPT ![clerk[c].pay] =
               [i \in Invoice |-> IF clerk[c].plan[i] > 0 THEN clerk[c].plan[i]
                                  ELSE alloc[clerk[c].pay][i]]]
      BY <1>9, <2>2 DEF WriteClear
    <3>2. \A p \in Payment, i \in Invoice : alloc'[p][i] \in {alloc[p][i], clerk[c].plan[i]}
      BY <1>t, <3>1 DEF CounterTypes
    <3>3. QED BY <1>7, <3>1, <3>2
  <2>3. QED BY <2>1, <2>2
<1>10. ASSUME NEW c \in Clerk, NEW status, NEW fine \in {0, Fine}, TakeOff(c, status, fine)
       PROVE  InvoiceInv'
  <2>1. /\ alloc' = [alloc EXCEPT ![clerk[c].pay] = Nothing] /\ Step(c, Idle)
        /\ invoices' = Fined(SyncInvoices(clerk[c].seen, alloc'), fine)
    BY <1>10 DEF TakeOff
  <2>2. \A i \in Invoice : invoices[i].net = 0 => \A p \in Payment : alloc'[p][i] = 0
    <3>1. \A p \in Payment, i \in Invoice : alloc'[p][i] \in {alloc[p][i], 0}
      BY <1>b, <1>t, <2>1 DEF CounterTypes
    <3>2. QED BY <3>1 DEF InvoiceInv
  <2>3. PICK after : after = SyncInvoices(clerk[c].seen, alloc')
    OBVIOUS
  <2>4. after \in [Invoice -> InvoiceType] /\ fine \in Nat
    BY <1>d, <2>3, SyncType, FeeAssumption
  <2>5. \A i \in Invoice : Right(after[i]) /\ after[i].net = invoices[i].net
    BY <1>d, <2>2, <2>3, SyncRight
  <2>6. \A i \in Invoice : Right(invoices'[i]) /\ (invoices'[i].net = 0 => invoices[i].net = 0)
    BY <2>1, <2>3, <2>4, <2>5, FinedRight
  <2>7. QED BY <2>1, <2>2, <2>6, InvoiceCommit
<1>11. QED
  BY <1>1, <1>2, <1>3, <1>4, <1>5, <1>6, <1>8, <1>9, <1>10
     DEF Next, Reads, Writes, WriteBounce, WriteVoid

(* A bill reads paid exactly when what is recorded against it covers it: no
   clear, bounce, void or fine, however interleaved, parts the two. *)
THEOREM PaidMeansCovered == Spec => []SettledWhenPaid
<1>1. TypeOK /\ FeesInv /\ InvoiceInv /\ [Next]_vars => InvoiceInv'
  BY InvoiceNext
<1>2. Init => InvoiceInv
  <2>1. Idle.plan = Nothing
    BY DEF Idle
  <2>2. QED BY <2>1, FeeAssumption DEF Init, InvoiceInv, SettledWhenPaid, Nothing
<1>3. InvoiceInv => SettledWhenPaid
  BY DEF InvoiceInv
<1>4. QED BY <1>1, <1>2, <1>3, CounterTyped, CounterInvariant, PTL DEF Spec

-----------------------------------------------------------------------------
(***************************************************************************)
(* What allocate computes.                                                 *)
(***************************************************************************)
Least(a, b) == IF a < b THEN a ELSE b

(* The plan takes, of each due, what the totals before it leave. *)
Takes(plan, amount, dues, totals) ==
    \A i \in DOMAIN dues :
        plan[i] = Least(dues[i], amount - Least(amount, SumFunctionOnSet(totals, 1 .. i - 1)))

LEMMA RunningTotals ==
    ASSUME NEW N \in Nat, NEW amount \in Nat, NEW dues \in [1 .. N -> Nat],
           NEW plan \in [1 .. N -> Nat],
           Takes(plan, amount, dues, plan) \/ Takes(plan, amount, dues, dues),
           NEW n \in 0 .. N
    PROVE  SumFunctionOnSet(plan, 1 .. n) = Least(amount, SumFunctionOnSet(dues, 1 .. n))
<1> DEFINE Agrees(m) == SumFunctionOnSet(plan, 1 .. m) = Least(amount, SumFunctionOnSet(dues, 1 .. m))
           Bad == {m \in 0 .. N : ~Agrees(m)}
<1>1. Agrees(0)
  <2>1. 1 .. 0 = {}
    OBVIOUS
  <2>2. SumFunctionOnSet(plan, 1 .. 0) = 0 /\ SumFunctionOnSet(dues, 1 .. 0) = 0
    BY <2>1, SumEmpty
  <2>3. QED BY <2>2 DEF Least
<1>2. SUFFICES ASSUME Bad # {} PROVE FALSE
  OBVIOUS
<1>3. PICK m \in Bad : \A k \in Bad : m <= k
  <2>1. Bad \in SUBSET Nat
    OBVIOUS
  <2> HIDE DEF Bad
  <2>2. QED BY <1>2, <2>1, LeastNatural
<1>4. m \in 1 .. N /\ ~Agrees(m)
  BY <1>1
<1>5. PICK k \in Nat : k = m - 1 /\ m = k + 1 /\ k \in 0 .. N
  BY <1>4
<1>6. Agrees(k)
  <2>1. k \notin Bad
    BY <1>3, <1>5
  <2>2. QED BY <1>5, <2>1
<1>7. \A i \in 1 .. k + 1 : plan[i] \in Nat /\ dues[i] \in Nat
  BY <1>4, <1>5
<1>8. PICK P \in Nat : P = SumFunctionOnSet(plan, 1 .. k)
                       /\ SumFunctionOnSet(plan, 1 .. m) = plan[m] + P
  BY <1>5, <1>7, SumNext
<1>9. PICK D \in Nat : D = SumFunctionOnSet(dues, 1 .. k)
                       /\ SumFunctionOnSet(dues, 1 .. m) = dues[m] + D
  BY <1>5, <1>7, SumNext
<1>10. P = Least(amount, D)
  BY <1>6, <1>8, <1>9
<1>11. plan[m] = Least(dues[m], amount - Least(amount, P))
       \/ plan[m] = Least(dues[m], amount - Least(amount, D))
  BY <1>4, <1>5, <1>8, <1>9 DEF Takes
<1>12. PICK d \in Nat, x \in Nat : d = dues[m] /\ x = plan[m]
  BY <1>4
<1>13. x + P = Least(amount, d + D)
  <2>1. x = Least(d, amount - Least(amount, P))
        \/ x = Least(d, amount - Least(amount, D))
    BY <1>11, <1>12
  <2>2. CASE amount < D
    BY <1>10, <2>1, <2>2 DEF Least
  <2>3. CASE ~(amount < D)
    BY <1>10, <2>1, <2>3 DEF Least
  <2>4. QED BY <2>2, <2>3
<1>14. QED BY <1>4, <1>8, <1>9, <1>12, <1>13

LEMMA SpreadsLeast ==
    ASSUME NEW amount \in Nat, NEW dues \in [Invoice -> Nat], NEW plan \in [Invoice -> Nat]
    PROVE  Spreads(plan, amount, dues) <=>
             Takes(plan, amount, dues, plan)
<1>1. ASSUME NEW i \in Invoice
      PROVE  LET spent == SumFunctionOnSet(plan, 1 .. i - 1)
                 left == IF amount > spent THEN amount - spent ELSE 0
             IN  (IF dues[i] < left THEN dues[i] ELSE left)
                   = Least(dues[i], amount - Least(amount, spent))
  <2>1. i - 1 \in Int /\ IsFiniteSet(1 .. i - 1) /\ \A j \in 1 .. i - 1 : j \in Invoice
    BY FS_Interval, FeeAssumption DEF Invoice
  <2>2. PICK spent \in Nat : spent = SumFunctionOnSet(plan, 1 .. i - 1)
    BY <2>1, SumNat
  <2>3. QED BY <2>2 DEF Least
<1>2. QED BY <1>1 DEF Spreads, Takes

(* allocate spreads a payment over the dues oldest first: it gives each bill at
   most what is due, a later bill only when the earlier ones are covered, and
   altogether the payment or all that is due, whichever is less. *)
THEOREM AllocateOldestFirst ==
    ASSUME NEW amount \in Nat, NEW dues \in [Invoice -> Nat], NEW plan \in [Invoice -> Nat],
           Spreads(plan, amount, dues)
    PROVE  /\ \A i \in Invoice : plan[i] <= dues[i]
           /\ \A i, j \in Invoice : i < j /\ plan[j] > 0 => plan[i] = dues[i]
           /\ SumFunction(plan) = Least(amount, SumFunction(dues))
<1>1. Invoices \in Nat /\ Invoice = 1 .. Invoices
  BY FeeAssumption DEF Invoice
<1>t. Takes(plan, amount, dues, plan)
  BY SpreadsLeast
<1>2. \A i \in Invoice :
        plan[i] = Least(dues[i], amount - Least(amount, SumFunctionOnSet(plan, 1 .. i - 1)))
  BY <1>t DEF Takes
<1>3. \A n \in 0 .. Invoices :
        SumFunctionOnSet(plan, 1 .. n) = Least(amount, SumFunctionOnSet(dues, 1 .. n))
  BY <1>1, <1>t, RunningTotals
<1>4. ASSUME NEW n \in 0 .. Invoices
      PROVE  SumFunctionOnSet(plan, 1 .. n) \in Nat /\ SumFunctionOnSet(dues, 1 .. n) \in Nat
  <2>1. IsFiniteSet(1 .. n) /\ \A j \in 1 .. n : j \in Invoice
    BY <1>1, FS_Interval
  <2>2. QED BY <2>1, SumNat
<1>5. ASSUME NEW i \in Invoice PROVE plan[i] <= dues[i]
  BY <1>2 DEF Least
<1>6. ASSUME NEW i \in Invoice, NEW j \in Invoice, i < j, plan[j] > 0
      PROVE  plan[i] = dues[i]
  <2>1. PICK k \in Nat : k = i - 1 /\ i = k + 1 /\ k \in 0 .. Invoices
    BY <1>1
  <2>2. PICK P \in Nat : P = SumFunctionOnSet(plan, 1 .. k)
    BY <1>4, <2>1
  <2>3. plan[i] = Least(dues[i], amount - Least(amount, P))
    BY <1>2, <2>1, <2>2
  <2>4. SumFunctionOnSet(plan, 1 .. i) = plan[i] + P
    <3>1. \A l \in 1 .. k + 1 : plan[l] \in Nat
      BY <1>1, <2>1
    <3>2. QED BY <2>1, <2>2, <3>1, SumNext
  <2>5. PICK n \in 0 .. Invoices : n = j - 1
    BY <1>1
  <2>6. PICK Q \in Nat : Q = SumFunctionOnSet(plan, 1 .. n)
    BY <1>4
  <2>7. Q < amount
    <3>1. plan[j] = Least(dues[j], amount - Least(amount, Q))
      BY <1>2, <2>5, <2>6
    <3>2. QED BY <1>6, <3>1 DEF Least
  <2>8. SumFunctionOnSet(plan, 1 .. i) <= Q
    <3>1. i <= n /\ n \in Nat /\ i \in Nat
      BY <1>1, <1>6, <2>5
    <3>2. QED BY <2>6, <3>1, TotalsGrow, <1>1
  <2>9. plan[i] + P < amount /\ plan[i] \in Nat /\ dues[i] \in Nat
    BY <2>4, <2>7, <2>8
  <2>10. QED BY <2>3, <2>9 DEF Least
<1>7. SumFunction(plan) = Least(amount, SumFunction(dues))
  <2>1. DOMAIN plan = 1 .. Invoices /\ DOMAIN dues = 1 .. Invoices /\ Invoices \in 0 .. Invoices
    BY <1>1
  <2>2. QED BY <1>3, <2>1 DEF SumFunction
<1>8. QED BY <1>5, <1>6, <1>7

(* There is exactly one such plan, whatever is paid and whatever is due: the
   step that reads the dues always goes on, and never has a choice. *)
THEOREM AllocateDetermined ==
    ASSUME NEW amount \in Nat, NEW dues \in [Invoice -> Nat]
    PROVE  /\ \E plan \in [Invoice -> 0 .. amount] : Spreads(plan, amount, dues)
           /\ \A p, q \in [Invoice -> Nat] :
                  Spreads(p, amount, dues) /\ Spreads(q, amount, dues) => p = q
<1>1. Invoices \in Nat /\ Invoice = 1 .. Invoices
  BY FeeAssumption DEF Invoice
<1>2. ASSUME NEW i \in Invoice
      PROVE  i - 1 \in 0 .. Invoices /\ SumFunctionOnSet(dues, 1 .. i - 1) \in Nat
  <2>1. IsFiniteSet(1 .. i - 1) /\ \A j \in 1 .. i - 1 : j \in Invoice
    BY <1>1, FS_Interval
  <2>2. QED BY <1>1, <2>1, SumNat
<1>3. ASSUME NEW plan \in [Invoice -> Nat], Spreads(plan, amount, dues), NEW i \in Invoice
      PROVE  plan[i] = Least(dues[i], amount - Least(amount, SumFunctionOnSet(dues, 1 .. i - 1)))
  <2>1. Takes(plan, amount, dues, plan)
    BY <1>3, SpreadsLeast
  <2>2. PICK n \in 0 .. Invoices : n = i - 1
    BY <1>2
  <2>3. SumFunctionOnSet(plan, 1 .. n) = Least(amount, SumFunctionOnSet(dues, 1 .. n))
    BY <1>1, <2>1, RunningTotals
  <2>4. PICK D \in Nat : D = SumFunctionOnSet(dues, 1 .. n)
    BY <1>2, <2>2
  <2>5. plan[i] = Least(dues[i], amount - Least(amount, Least(amount, D)))
    BY <2>1, <2>2, <2>3, <2>4 DEF Takes
  <2>6. Least(amount, Least(amount, D)) = Least(amount, D)
    BY DEF Least
  <2>7. QED BY <2>2, <2>4, <2>5, <2>6
<1>4. PICK plan : plan = [i \in Invoice |->
            Least(dues[i], amount - Least(amount, SumFunctionOnSet(dues, 1 .. i - 1)))]
  OBVIOUS
<1>5. ASSUME NEW i \in Invoice PROVE plan[i] \in 0 .. amount
  <2>1. PICK D \in Nat : D = SumFunctionOnSet(dues, 1 .. i - 1)
    BY <1>2
  <2>2. plan[i] = Least(dues[i], amount - Least(amount, D))
    BY <1>4, <2>1
  <2>3. QED BY <2>2 DEF Least
<1>6. plan \in [Invoice -> 0 .. amount] /\ plan \in [Invoice -> Nat]
  BY <1>4, <1>5
<1>t. Takes(plan, amount, dues, dues)
  BY <1>4 DEF Takes
<1>7. Spreads(plan, amount, dues)
  <2>1. ASSUME NEW i \in Invoice
        PROVE  plan[i] = Least(dues[i], amount - Least(amount, SumFunctionOnSet(plan, 1 .. i - 1)))
    <3>1. PICK n \in 0 .. Invoices : n = i - 1
      BY <1>2
    <3>2. SumFunctionOnSet(plan, 1 .. n) = Least(amount, SumFunctionOnSet(dues, 1 .. n))
      <4>1. plan \in [1 .. Invoices -> Nat] /\ dues \in [1 .. Invoices -> Nat]
        BY <1>1, <1>6
      <4>2. QED BY <1>1, <1>t, <4>1, RunningTotals
    <3>3. PICK D \in Nat : D = SumFunctionOnSet(dues, 1 .. n)
      BY <1>2, <3>1
    <3>4. Least(amount, Least(amount, D)) = Least(amount, D)
      BY DEF Least
    <3>5. QED BY <1>4, <3>1, <3>2, <3>3, <3>4
  <2>2. Takes(plan, amount, dues, plan)
    BY <2>1 DEF Takes
  <2>3. QED BY <1>6, <2>2, SpreadsLeast
<1>8. ASSUME NEW p \in [Invoice -> Nat], NEW q \in [Invoice -> Nat],
             Spreads(p, amount, dues), Spreads(q, amount, dues)
      PROVE  p = q
  <2>1. \A i \in Invoice : p[i] = q[i]
    BY <1>3, <1>8
  <2>2. QED BY <2>1
<1>9. QED BY <1>6, <1>7, <1>8

-----------------------------------------------------------------------------
(***************************************************************************)
(* The optimistic counter implements the locked one.                       *)
(***************************************************************************)
LastOf == [y \in Year |-> IF counter[y] = 0 THEN 0 ELSE counter[y] - 1]
NumberOf == [p \in Payment |-> [fy |-> payments[p].fy, seq |-> payments[p].seq]]

LEMMA ReceiptsInit == Init => Receipts!Init
BY DEF Init, Receipts!Init, Receipts!Unnumbered, NoReceipt

(* A commit that touches no number is a stutter. *)
LEMMA ReceiptsStutter ==
    ASSUME counter' = counter,
           \A p \in Payment : payments'[p].fy = payments[p].fy /\ payments'[p].seq = payments[p].seq
    PROVE  LastOf' = LastOf /\ NumberOf' = NumberOf
BY DEF LastOf, NumberOf

(* The batch of a receipt is the locked step. *)
LEMMA ReceiptIssues ==
    ASSUME CounterTypes, FeesInv, NEW c \in Clerk, WriteReceipt(c)
    PROVE  \E p \in Payment, y \in Year : Receipts!Issue(p, y)
<1>me. PICK me \in ClerkType : me = clerk[c]
  BY DEF CounterTypes, ClerkType
<1> DEFINE row == [status |-> IF me.op = "cheque" THEN "pending" ELSE "success",
                  amount |-> me.amount, seq |-> me.seq, fy |-> me.year]
<1>1. /\ me.pc = "write" /\ me.op \in Takings /\ NumberStands(c)
      /\ counter' = [counter EXCEPT ![me.year] = me.seq + 1]
      /\ payments' = [payments EXCEPT ![me.pay] = row]
  BY <1>me DEF WriteReceipt, At, Takings
<1>2. RequestOK(me)
  BY <1>me DEF FeesInv, ClerkInv
<1>3. /\ me.year \in Year /\ me.pay \in Payment /\ payments[me.pay] = NoReceipt
      /\ me.seq \in Nat /\ me.seq > 0 /\ (me.fresh => me.seq = 1)
  BY <1>1, <1>2 DEF RequestOK, ClerkType, Takings
<1>4. row.seq = me.seq /\ row.fy = me.year
  OBVIOUS
<1> HIDE DEF row
<1>5. LastOf[me.year] + 1 = me.seq
  <2>1. counter[me.year] = IF me.fresh THEN 0 ELSE me.seq
    BY <1>me, <1>1 DEF NumberStands
  <2>2. LastOf[me.year] = IF counter[me.year] = 0 THEN 0 ELSE counter[me.year] - 1
    BY <1>3 DEF LastOf
  <2>3. QED BY <1>3, <2>1, <2>2
<1>6. LastOf' = [LastOf EXCEPT ![me.year] = me.seq]
  <2>1. \A y \in Year : counter'[y] = IF y = me.year THEN me.seq + 1 ELSE counter[y]
    BY <1>1, <1>3 DEF CounterTypes
  <2>2. me.seq + 1 # 0 /\ (me.seq + 1) - 1 = me.seq
    BY <1>3
  <2>3. QED BY <1>3, <2>1, <2>2 DEF LastOf
<1>7. NumberOf' = [NumberOf EXCEPT ![me.pay] = [fy |-> me.year, seq |-> me.seq]]
  BY <1>1, <1>3, <1>4 DEF CounterTypes, NumberOf
<1>8. NumberOf[me.pay] = Receipts!Unnumbered
  BY <1>3 DEF NumberOf, NoReceipt, Receipts!Unnumbered
<1>9. Receipts!Issue(me.pay, me.year)
  BY <1>3, <1>5, <1>6, <1>7, <1>8 DEF Receipts!Issue, LastOf, NumberOf
<1>10. QED BY <1>3, <1>9

LEMMA ReceiptsStep ==
    ASSUME CounterTypes, FeesInv, [Next]_vars
    PROVE  Receipts!Next \/ (LastOf' = LastOf /\ NumberOf' = NumberOf)
<1>1. ASSUME NEW c \in Clerk, NEW p \in Payment, NEW status,
             payments' = [payments EXCEPT ![p].status = status], counter' = counter
      PROVE  LastOf' = LastOf /\ NumberOf' = NumberOf
  <2>1. \A q \in Payment : payments'[q].fy = payments[q].fy /\ payments'[q].seq = payments[q].seq
    BY <1>1 DEF CounterTypes
  <2>2. QED BY <1>1, <2>1, ReceiptsStutter
<1>2. CASE UNCHANGED <<payments, counter>>
  BY <1>2, ReceiptsStutter
<1>3. ASSUME NEW c \in Clerk, WriteReceipt(c) PROVE Receipts!Next
  BY <1>3, ReceiptIssues DEF Receipts!Next
<1>4. ASSUME NEW c \in Clerk, WriteClear(c), ~UNCHANGED <<payments, counter>>
      PROVE  LastOf' = LastOf /\ NumberOf' = NumberOf
  <2>1. PICK p \in Payment : p = clerk[c].pay
    BY <1>4 DEF FeesInv, ClerkInv, RequestOK, WriteClear
  <2>2. QED BY <1>1, <1>4, <2>1 DEF WriteClear, Books
<1>5. ASSUME NEW c \in Clerk, WriteBounce(c) \/ WriteVoid(c)
      PROVE  LastOf' = LastOf /\ NumberOf' = NumberOf
  <2>1. PICK p \in Payment : p = clerk[c].pay
    BY <1>5 DEF FeesInv, ClerkInv, RequestOK, WriteBounce, WriteVoid
  <2>2. QED BY <1>1, <1>5, <2>1 DEF WriteBounce, WriteVoid, TakeOff
<1>6. QED
  BY <1>2, <1>3, <1>4, <1>5
     DEF Next, vars, Books, Reads, Writes, Starts, Collect, ReadScheme, ReadSeed, ReadCounter,
         ReadDues, ReadAllocs, StartClear, StartBounce, StartVoid, NumberTaken, Dies

(* The Worker's assertInBatch series is the row-locked series of the Go server:
   every step of the counter draws the next number or leaves the series as is. *)
THEOREM RowLockImplemented == Spec => ImplementsRowLock
<1>1. CounterTypes /\ FeesInv /\ [Next]_vars
        => Receipts!Next \/ UNCHANGED <<LastOf, NumberOf>>
  BY ReceiptsStep
<1>2. CounterTypes /\ FeesInv /\ [Next]_vars => [Receipts!Next]_<<LastOf, NumberOf>>
  BY <1>1
<1>t. TypeOK => CounterTypes
  BY DEF TypeOK
<1>3. QED
  BY <1>2, <1>t, ReceiptsInit, CounterTyped, CounterInvariant, PTL
     DEF Spec, ImplementsRowLock, Receipts!Spec, LastOf, NumberOf
=============================================================================
