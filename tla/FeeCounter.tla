----------------------------- MODULE FeeCounter ------------------------------
(***************************************************************************)
(* The fee counter of one child: receipts taken, cheques cleared or        *)
(* bounced, receipts voided (worker/src/routes/fees/counter.ts and         *)
(* corrections.ts), and the receipt series they draw on (numbering.ts).    *)
(* D1 has no row locks: a handler reads in several round trips and writes  *)
(* in one atomic batch.  Each await is a step, and clerks interleave.      *)
(***************************************************************************)
EXTENDS Naturals, FiniteSets, Functions

CONSTANTS
    Payment,      \* payment ids
    Clerk,        \* requests in progress at the same time
    Years,        \* the financial years are 1 .. Years
    Invoices,     \* the child's invoices are 1 .. Invoices, oldest first
    Net,          \* what each one is for
    Fine,         \* the fine for a bounced cheque
    NoPayment

ASSUME FeeAssumption == /\ NoPayment \notin Payment /\ IsFiniteSet(Payment)
                        /\ Years \in Nat /\ Invoices \in Nat /\ Net \in Nat /\ Fine \in Nat

Year == 1 .. Years
Invoice == 1 .. Invoices

VARIABLES
    scheme,    \* numbering_schemes: next_value and current_fy, 0 if it is NULL
    counter,   \* numbering_fy_counters.next_value per year, 0 if there is no row
    payments,  \* status, amount_paise, receipt_seq, receipt_fy
    alloc,     \* payment_allocations, UNIQUE (payment, invoice); 0 if there is no row
    invoices,  \* net_paise, paid_paise, and whether status is paid
    clerk      \* per request: the await it is at and what it has read

vars == <<scheme, counter, payments, alloc, invoices, clerk>>

Nothing == [i \in Invoice |-> 0]
NoReceipt == [status |-> "none", amount |-> 0, seq |-> 0, fy |-> 0]
Idle == [pc |-> "idle", op |-> "none", pay |-> NoPayment, amount |-> 0, year |-> 0,
         scheme |-> [next |-> 1, fy |-> 0], seq |-> 0, fresh |-> FALSE,
         plan |-> Nothing, seen |-> {}]

Init ==
    /\ scheme = [next |-> 1, fy |-> 0]
    /\ counter = [y \in Year |-> 0]
    /\ payments = [p \in Payment |-> NoReceipt]
    /\ alloc = [p \in Payment |-> Nothing]
    /\ invoices = [i \in Invoice |-> [net |-> Net, paid |-> 0, settled |-> FALSE]]
    /\ clerk = [c \in Clerk |-> Idle]

At(c, pc) == clerk[c].pc = pc
Step(c, next) == clerk' = [clerk EXCEPT ![c] = next]
Books == <<scheme, counter, payments, alloc, invoices>>

-----------------------------------------------------------------------------
(***************************************************************************)
(* Dues and allocation.                                                    *)
(***************************************************************************)
(* outstanding: what is owed on each unsettled invoice. *)
Dues ==
    [i \in Invoice |-> IF ~invoices[i].settled /\ invoices[i].net > invoices[i].paid
                       THEN invoices[i].net - invoices[i].paid ELSE 0]

(* allocate: plan spreads amount over the dues, oldest first. *)
Spreads(plan, amount, dues) ==
    \A i \in Invoice :
        LET spent == SumFunctionOnSet(plan, 1 .. i - 1)
            left == IF amount > spent THEN amount - spent ELSE 0
        IN plan[i] = IF dues[i] < left THEN dues[i] ELSE left

Touched(plan) == {i \in Invoice : plan[i] > 0}

(* syncInvoice: the triggers of the old database, in the writing batch. *)
Synced(i, rows) ==
    LET paid == SumFunction([p \in Payment |-> rows[p][i]])
    IN [invoices[i] EXCEPT !.paid = paid,
                           !.settled = paid >= invoices[i].net /\ invoices[i].net > 0]

SyncInvoices(touched, rows) ==
    [i \in Invoice |-> IF i \in touched THEN Synced(i, rows) ELSE invoices[i]]

-----------------------------------------------------------------------------
(***************************************************************************)
(* POST /fees/payments.                                                    *)
(***************************************************************************)
(* "Never more than is owed": checked here, on this read. *)
Collect(c, p, amount, year) ==
    /\ At(c, "idle") /\ payments[p] = NoReceipt
    /\ \A d \in Clerk : clerk[d].pay # p
    /\ amount > 0 /\ amount <= SumFunction(Dues)
    /\ \E op \in {"cash", "cheque"} :
          Step(c, [Idle EXCEPT !.pc = "scheme", !.op = op, !.pay = p,
                               !.amount = amount, !.year = year])
    /\ UNCHANGED Books

(* nextNumber: the scheme; the last receipt of a year other than the scheme's;
   the year's counter.  The number is in the year's series, from its seed. *)
ReadScheme(c) ==
    /\ At(c, "scheme")
    /\ LET known == scheme.fy \in {0, clerk[c].year}
       IN Step(c, [clerk[c] EXCEPT !.pc = IF known THEN "counter" ELSE "seed",
                                   !.scheme = scheme, !.seq = scheme.next])
    /\ UNCHANGED Books

Series(y) == {p \in Payment : payments[p].fy = y}
Numbers(y) == {payments[p].seq : p \in Series(y)}

(* Mutant: a new year goes on from the number of the current one. *)
ReadSeedCarriesOn(c) ==
    /\ At(c, "seed")
    /\ Step(c, [clerk[c] EXCEPT !.pc = "counter"])
    /\ UNCHANGED Books

ReadSeed(c) ==
    /\ At(c, "seed")
    /\ \E last \in Numbers(clerk[c].year) \cup {0} :
          /\ \A n \in Numbers(clerk[c].year) : n <= last
          /\ Step(c, [clerk[c] EXCEPT !.pc = "counter", !.seq = last + 1])
    /\ UNCHANGED Books

(* Mutant: a cheque is allocated when it is taken, not when it clears. *)
ReadCounterThenDues(c) ==
    /\ At(c, "counter")
    /\ LET n == counter[clerk[c].year]
       IN Step(c, [clerk[c] EXCEPT !.pc = "dues", !.seq = IF n = 0 THEN @ ELSE n,
                                   !.fresh = (n = 0)])
    /\ UNCHANGED Books

ReadCounter(c) ==
    /\ At(c, "counter")
    /\ LET n == counter[clerk[c].year]
       IN Step(c, [clerk[c] EXCEPT !.pc = IF clerk[c].op = "cheque" THEN "write" ELSE "dues",
                                   !.seq = IF n = 0 THEN @ ELSE n, !.fresh = (n = 0)])
    /\ UNCHANGED Books

ReadDues(c) ==
    /\ At(c, "dues")
    /\ \E plan \in [Invoice -> 0 .. clerk[c].amount] :
          /\ Spreads(plan, clerk[c].amount, Dues)
          /\ Step(c, [clerk[c] EXCEPT !.pc = "write", !.plan = plan])
    /\ UNCHANGED Books

(* Mutant: nothing in the batch asks whether the counter has moved. *)
NumberUnasserted(c) == clerk[c].fresh => counter[clerk[c].year] = 0

(* assertInBatch, or the counter's primary key: the number is still the next.
   The unique index over (fy, seq) would refuse as well; it never has to. *)
NumberStands(c) ==
    counter[clerk[c].year] = IF clerk[c].fresh THEN 0 ELSE clerk[c].seq

WriteReceipt(c) ==
    LET me == clerk[c]
        rows == [alloc EXCEPT ![me.pay] = me.plan]
    IN /\ At(c, "write") /\ me.op \in {"cash", "cheque"} /\ NumberStands(c)
       /\ counter' = [counter EXCEPT ![me.year] = me.seq + 1]
       /\ scheme' = IF me.scheme.fy <= me.year
                    THEN [next |-> me.seq + 1, fy |-> me.year] ELSE scheme
       /\ payments' = [payments EXCEPT ![me.pay] =
                         [status |-> IF me.op = "cheque" THEN "pending" ELSE "success",
                          amount |-> me.amount, seq |-> me.seq, fy |-> me.year]]
       /\ alloc' = rows
       /\ invoices' = SyncInvoices(Touched(me.plan), rows)
       /\ Step(c, Idle)

(* 409: another receipt was issued at the same moment. *)
NumberTaken(c) ==
    /\ At(c, "write") /\ clerk[c].op \in {"cash", "cheque"} /\ ~NumberStands(c)
    /\ Step(c, Idle)
    /\ UNCHANGED Books

-----------------------------------------------------------------------------
(***************************************************************************)
(* Cheques cleared and bounced, receipts voided.  Each reads the status    *)
(* first and writes WHERE id = ? later.                                    *)
(***************************************************************************)
StartClear(c, p) ==
    /\ At(c, "idle") /\ payments[p].status = "pending"
    /\ Step(c, [Idle EXCEPT !.pc = "dues", !.op = "clear", !.pay = p,
                            !.amount = payments[p].amount])
    /\ UNCHANGED Books

(* The UNIQUE key fails the batch if the payment already pays the invoice. *)
WriteClear(c) ==
    LET me == clerk[c]
        clash == \E i \in Touched(me.plan) : alloc[me.pay][i] > 0
        rows == [alloc EXCEPT ![me.pay] =
                   [i \in Invoice |-> IF me.plan[i] > 0 THEN me.plan[i] ELSE alloc[me.pay][i]]]
    IN /\ At(c, "write") /\ me.op = "clear"
       /\ IF clash THEN UNCHANGED Books
          ELSE /\ payments' = [payments EXCEPT ![me.pay].status = "success"]
               /\ alloc' = rows
               /\ invoices' = SyncInvoices(Touched(me.plan), rows)
               /\ UNCHANGED <<scheme, counter>>
       /\ Step(c, Idle)

StartBounce(c, p) ==
    /\ At(c, "idle") /\ payments[p].status # "none"
    /\ Step(c, [Idle EXCEPT !.pc = "allocs", !.op = "bounce", !.pay = p])
    /\ UNCHANGED Books

StartVoid(c, p) ==
    /\ At(c, "idle") /\ payments[p].status \in {"pending", "success"}
    /\ Step(c, [Idle EXCEPT !.pc = "allocs", !.op = "void", !.pay = p])
    /\ UNCHANGED Books

ReadAllocs(c) ==
    /\ At(c, "allocs")
    /\ Step(c, [clerk[c] EXCEPT !.pc = "write", !.seen = Touched(alloc[clerk[c].pay])])
    /\ UNCHANGED Books

(* Mutant: the fine goes on the oldest invoice, settled or not. *)
FinedAnyway(after, fine) ==
    [i \in Invoice |-> IF i = 1 THEN [after[i] EXCEPT !.net = @ + fine] ELSE after[i]]

(* The fine goes on the oldest invoice that is not settled. *)
Fined(after, fine) ==
    [i \in Invoice |->
        IF ~after[i].settled /\ \A j \in 1 .. i - 1 : after[j].settled
        THEN [after[i] EXCEPT !.net = @ + fine] ELSE after[i]]

TakeOff(c, status, fine) ==
    LET rows == [alloc EXCEPT ![clerk[c].pay] = Nothing]
    IN /\ payments' = [payments EXCEPT ![clerk[c].pay].status = status]
       /\ alloc' = rows
       /\ invoices' = Fined(SyncInvoices(clerk[c].seen, rows), fine)
       /\ UNCHANGED <<scheme, counter>>
       /\ Step(c, Idle)

WriteBounce(c) ==
    /\ At(c, "write") /\ clerk[c].op = "bounce"
    /\ \E fine \in {0, Fine} : TakeOff(c, "bounced", fine)

(* Mutant: a status the schema does not know. *)
WriteVoidMisnamed(c) == At(c, "write") /\ clerk[c].op = "void" /\ TakeOff(c, "void", 0)

WriteVoid(c) == At(c, "write") /\ clerk[c].op = "void" /\ TakeOff(c, "cancelled", 0)

(* The Worker is evicted, or a read throws: nothing was written. *)
Dies(c) == ~At(c, "idle") /\ Step(c, Idle) /\ UNCHANGED Books

-----------------------------------------------------------------------------
Reads(c) == ReadScheme(c) \/ ReadSeed(c) \/ ReadCounter(c) \/ ReadDues(c) \/ ReadAllocs(c)

Writes(c) == WriteReceipt(c) \/ NumberTaken(c) \/ WriteClear(c) \/ WriteBounce(c) \/ WriteVoid(c)

Starts(c, p) == StartClear(c, p) \/ StartBounce(c, p) \/ StartVoid(c, p)

Next ==
    \/ \E c \in Clerk : Reads(c) \/ Writes(c) \/ Dies(c)
    \/ \E c \in Clerk, p \in Payment : Starts(c, p)
    \/ \E c \in Clerk, p \in Payment, amount \in 1 .. Net * Invoices, year \in Year :
          Collect(c, p, amount, year)

Spec == Init /\ [][Next]_vars

-----------------------------------------------------------------------------
(***************************************************************************)
(* What the counter keeps to.                                              *)
(***************************************************************************)
Scheme == [next : Nat, fy : 0 .. Years]

(* The part of the type invariant that no sum over a table takes part in. *)
CounterTypes ==
    /\ scheme \in Scheme /\ counter \in [Year -> Nat]
    /\ payments \in [Payment -> [status : {"none", "pending", "success", "bounced", "cancelled"},
                                 amount : Nat, seq : Nat, fy : 0 .. Years]]
    /\ alloc \in [Payment -> [Invoice -> Nat]]
    /\ clerk \in [Clerk -> [pc : {"idle", "scheme", "seed", "counter", "dues", "allocs", "write"},
                            op : {"none", "cash", "cheque", "clear", "bounce", "void"},
                            pay : Payment \cup {NoPayment}, amount : Nat, year : 0 .. Years,
                            scheme : Scheme, seq : Nat, fresh : BOOLEAN,
                            plan : [Invoice -> Nat], seen : SUBSET Invoice]]

(* The columns of the fee tables and what a request has read keep their types:
   no sum goes below zero, no status is left unset. *)
TypeOK ==
    /\ CounterTypes
    /\ invoices \in [Invoice -> [net : Nat, paid : Nat, settled : BOOLEAN]]

(* "The series stays gapless and unique, which is what the auditor reads it
   for": each year's receipts are numbered 1, 2, ... without a hole or a
   repeat, back-dated receipts and simultaneous clerks included. *)
ReceiptsGapless ==
    \A y \in Year :
        /\ Numbers(y) = IF counter[y] = 0 THEN {} ELSE 1 .. counter[y] - 1
        /\ \A p, q \in Series(y) : payments[p].seq = payments[q].seq => p = q

(* Money that was not received pays for nothing: a waiting, bounced or void
   payment has no allocation, whichever of two clerks' batches lands last. *)
OffTheBooks ==
    \A p \in Payment : payments[p].status # "success" => alloc[p] = Nothing

(* An invoice reads paid exactly when what is recorded against it covers it,
   a fine put on by a bounce and a stale sync included. *)
SettledWhenPaid ==
    \A i \in Invoice :
        invoices[i].settled <=> invoices[i].paid >= invoices[i].net /\ invoices[i].net > 0

(* Reading the number, and asserting in the writing batch that the counter has
   not moved since, does what the row lock did. *)
Receipts == INSTANCE ReceiptSeries
                WITH last <- [y \in Year |-> IF counter[y] = 0 THEN 0 ELSE counter[y] - 1],
                     number <- [p \in Payment |-> [fy |-> payments[p].fy,
                                                   seq |-> payments[p].seq]]

ImplementsRowLock == Receipts!Spec

-----------------------------------------------------------------------------
(***************************************************************************)
(* Why: a year without a counter has no receipts, and whoever saw it       *)
(* without one starts at 1.                                                *)
(***************************************************************************)
Takings == {"cash", "cheque"}

SchemeInv ==
    /\ scheme.fy = 0 => scheme.next = 1
    /\ scheme.fy # 0 => counter[scheme.fy] # 0

RequestOK(r) ==
    /\ r.pc = "idle" <=> r.op = "none"
    /\ r.op # "none" => r.pay \in Payment
    /\ r.pc \in {"scheme", "seed", "counter"} => r.op \in Takings
    /\ r.pc = "allocs" => r.op \in {"bounce", "void"}
    /\ r.op \in {"clear", "bounce", "void"} => payments[r.pay].status # "none"
    /\ r.op \in Takings => r.year \in Year /\ payments[r.pay] = NoReceipt
    /\ r.pc = "counter" => counter[r.year] # 0 \/ r.seq = 1
    /\ r.op \in Takings /\ r.pc \in {"dues", "write"} =>
          r.seq > 0 /\ (r.fresh => r.seq = 1)
    /\ r.op = "cheque" => r.plan = Nothing /\ r.pc # "dues"

ClerkInv ==
    \A c \in Clerk :
        /\ RequestOK(clerk[c])
        /\ clerk[c].op \in Takings => \A d \in Clerk \ {c} : clerk[d].pay # clerk[c].pay

(* The inductive invariant. *)
FeesInv == ReceiptsGapless /\ SchemeInv /\ ClerkInv /\ OffTheBooks

(* Nothing is paid, or about to be paid, towards an invoice for nothing. *)
InvoiceInv ==
    /\ SettledWhenPaid
    /\ \A i \in Invoice : invoices[i].net = 0 =>
          /\ invoices[i].paid = 0
          /\ \A p \in Payment : alloc[p][i] = 0
          /\ \A c \in Clerk : clerk[c].plan[i] = 0

-----------------------------------------------------------------------------
(***************************************************************************)
(* A comment the code does not keep.                                       *)
(***************************************************************************)
(* "after any change to payment_allocations, paid_paise = sum(allocations)". *)
PaidIsAllocated ==
    \A i \in Invoice : invoices[i].paid = SumFunction([p \in Payment |-> alloc[p][i]])
=============================================================================
