------------------------ MODULE MessageDispatchProofs ------------------------
(***************************************************************************)
(* The dispatcher, for any numbers of rows, passes, rungs and credits.     *)
(***************************************************************************)
EXTENDS MessageDispatch, FiniteSetTheorems, TLAPS

LEMMA IdleTyped == Idle \in PassType /\ Blank \in RowType
BY DEF Idle, PassType, Steps, Errors, Blank, RowType, Status, Channel

(***************************************************************************)
(* Records with several fields replaced.                                   *)
(***************************************************************************)
LEMMA TriedRow ==
    ASSUME NEW row \in RowType, NEW status \in Status
    PROVE  /\ Tried(row, status) \in RowType
           /\ Tried(row, status).status = status
           /\ Tried(row, status).channel = row.channel
           /\ Tried(row, status).ladder = row.ladder
           /\ Tried(row, status).fallback_of = row.fallback_of
<1>1. PICK one \in RowType : one = [row EXCEPT !.status = status]
  BY DEF RowType
<1>2. one.status = status /\ one.channel = row.channel /\ one.ladder = row.ladder
      /\ one.fallback_of = row.fallback_of /\ one.attempts = row.attempts
  BY <1>1 DEF RowType
<1>3. PICK n \in Nat : n = row.attempts + 1
  BY DEF RowType
<1>4. PICK two \in RowType : two = [one EXCEPT !.attempts = n]
  BY DEF RowType
<1>5. two.status = one.status /\ two.channel = one.channel /\ two.ladder = one.ladder
      /\ two.fallback_of = one.fallback_of
  BY <1>4 DEF RowType
<1>6. Tried(row, status) = two
  BY <1>1, <1>3, <1>4 DEF Tried
<1>7. QED BY <1>2, <1>5, <1>6

LEMMA ToResultPass ==
    ASSUME NEW me \in PassType, NEW error \in Errors
    PROVE  /\ ToResult(me, error) \in PassType
           /\ ToResult(me, error).pc = "result" /\ ToResult(me, error).error = error
           /\ ToResult(me, error).row = me.row /\ ToResult(me, error).todo = me.todo
           /\ ToResult(me, error).marked = me.marked
<1>1. PICK one \in PassType : one = [me EXCEPT !.pc = "result"]
  BY DEF PassType, Steps
<1>2. one.pc = "result" /\ one.row = me.row /\ one.todo = me.todo /\ one.marked = me.marked
  BY <1>1 DEF PassType
<1>3. PICK two \in PassType : two = [one EXCEPT !.error = error]
  BY DEF PassType
<1>4. two.error = error /\ two.pc = one.pc /\ two.row = one.row /\ two.todo = one.todo
      /\ two.marked = one.marked
  BY <1>3 DEF PassType
<1>5. ToResult(me, error) = two
  BY <1>1, <1>3 DEF ToResult
<1>6. QED BY <1>2, <1>4, <1>5

LEMMA ToSendPass ==
    ASSUME NEW me \in PassType
    PROVE  /\ ToSend(me) \in PassType
           /\ ToSend(me).pc = "send" /\ ToSend(me).marked
           /\ ToSend(me).row = me.row /\ ToSend(me).todo = me.todo
<1>1. PICK one \in PassType : one = [me EXCEPT !.pc = "send"]
  BY DEF PassType, Steps
<1>2. one.pc = "send" /\ one.row = me.row /\ one.todo = me.todo
  BY <1>1 DEF PassType
<1>3. PICK two \in PassType : two = [one EXCEPT !.marked = TRUE]
  BY DEF PassType
<1>4. two.marked = TRUE /\ two.pc = one.pc /\ two.row = one.row /\ two.todo = one.todo
  BY <1>3 DEF PassType
<1>5. ToSend(me) = two
  BY <1>1, <1>3 DEF ToSend
<1>6. QED BY <1>2, <1>4, <1>5

LEMMA ToInsertPass ==
    ASSUME NEW me \in PassType, NEW rungs \in Seq(Channel)
    PROVE  /\ ToInsert(me, rungs) \in PassType
           /\ ToInsert(me, rungs).pc = "insert"
           /\ ToInsert(me, rungs).row = me.row /\ ToInsert(me, rungs).todo = me.todo
<1>1. PICK one \in PassType : one = [me EXCEPT !.pc = "insert"]
  BY DEF PassType, Steps
<1>2. one.pc = "insert" /\ one.row = me.row /\ one.todo = me.todo
  BY <1>1 DEF PassType
<1>3. PICK two \in PassType : two = [one EXCEPT !.rungs = rungs]
  BY DEF PassType
<1>4. two.pc = one.pc /\ two.row = one.row /\ two.todo = one.todo
  BY <1>3 DEF PassType
<1>5. ToInsert(me, rungs) = two
  BY <1>1, <1>3 DEF ToInsert
<1>6. QED BY <1>2, <1>4, <1>5

LEMMA TypesInit == Init => TypeOK
BY IdleTyped, NumberAssumption DEF Init, TypeOK

LEMMA StepTyped ==
    ASSUME TypeOK, NEW p \in Pass, NEW next \in PassType, Step(p, next)
    PROVE  pass' \in [Pass -> PassType]
BY DEF TypeOK, Step

LEMMA GotoTyped ==
    ASSUME TypeOK, NEW p \in Pass, NEW pc \in Steps, Goto(p, pc)
    PROVE  pass' \in [Pass -> PassType]
<1>1. [pass[p] EXCEPT !.pc = pc] \in PassType
  BY DEF TypeOK, PassType
<1>2. QED BY <1>1, StepTyped DEF Goto

LEMMA ResumeTyped ==
    ASSUME TypeOK, NEW p \in Pass, Resume(p)
    PROVE  pass' \in [Pass -> PassType]
<1> DEFINE next == [Idle EXCEPT !.pc = pass[p].back, !.back = pass[p].back,
                                !.todo = pass[p].todo]
<1>1. pass[p].back \in {"idle", "select", "unreached"} /\ pass[p].todo \in SUBSET Row
  BY DEF TypeOK, PassType
<1>2. next \in PassType
  BY <1>1, IdleTyped DEF PassType, Steps, Idle
<1>3. QED BY <1>2, StepTyped DEF Resume

(* A row rewritten whole. *)
LEMMA WriteRowTyped ==
    ASSUME TypeOK, NEW m \in Row, NEW row \in RowType, WriteRow(m, row)
    PROVE  /\ log' \in [Row -> RowType]
           /\ due' \subseteq Row /\ overdue' \subseteq Row /\ readers' \subseteq Pass
BY DEF TypeOK, WriteRow

LEMMA StatusTyped ==
    ASSUME TypeOK, NEW m \in Row, NEW status \in Status
    PROVE  [log[m] EXCEPT !.status = status] \in RowType
BY DEF TypeOK, RowType

LEMMA OutcomeTyped ==
    ASSUME TypeOK, NEW p \in Pass, pass[p].row \in Row, NEW status \in Status,
           Outcome(p, status)
    PROVE  /\ log' \in [Row -> RowType]
           /\ due' \subseteq Row /\ overdue' \subseteq Row /\ readers' \subseteq Pass
<1>1. log[pass[p].row] \in RowType
  BY DEF TypeOK
<1>2. Tried(log[pass[p].row], status) \in RowType
  BY <1>1, TriedRow
<1>3. QED BY <1>2, WriteRowTyped DEF Outcome

LEMMA InsertTyped ==
    ASSUME TypeOK, NEW m \in Row, NEW channel \in Channel, NEW rungs \in Seq(Channel),
           NEW parent \in Row \cup {NoRow}, InsertRow(m, channel, rungs, parent)
    PROVE  /\ log' \in [Row -> RowType]
           /\ due' \subseteq Row /\ overdue' \subseteq Row /\ readers' \subseteq Pass
<1> DEFINE row == [status |-> "queued", attempts |-> 0, channel |-> channel,
                   ladder |-> rungs, fallback_of |-> parent]
<1>1. row \in RowType
  BY DEF RowType, Status
<1>2. QED BY <1>1 DEF TypeOK, InsertRow

-----------------------------------------------------------------------------
(***************************************************************************)
(* What most steps leave alone.                                            *)
(***************************************************************************)
Only(p) == \A q \in Pass : q # p => pass'[q] = pass[q]

SameUse(m) ==
    /\ log'[m].channel = log[m].channel
    /\ log'[m].fallback_of = log[m].fallback_of
    /\ log'[m].status = "none" <=> log[m].status = "none"

UseKept == \A m \in Row : SameUse(m)

SameRow(m) == SameUse(m) /\ log'[m].ladder = log[m].ladder

Kept == \A m \in Row : SameRow(m)

LEMMA KeptIsUse == Kept => UseKept
BY DEF Kept, UseKept, SameRow

(* No row enters the queue, and p is no sender or payer after the step. *)
Waits(m) == log[m].status \in {"queued", "cancelled"}

StillWaits == \A m \in Row : Waits(m)' => Waits(m)

Bystander(me) ==
    /\ me.pc \in {"send", "result"} => ~me.marked
    /\ me.pc = "result" => me.error # "none"
    /\ me.pc # "spend"

Uncounted == handed' = handed /\ charged' = charged /\ revived' = revived

(* The books of rows that do not exist stay empty. *)
UnusedKept ==
    \A m \in Row : log[m].status = "none" =>
        handed'[m] = handed[m] /\ charged'[m] = charged[m] /\ (m \in bell' => m \in bell)

TodoOK(me) == \A m \in me.todo : log[m].status # "none"

LEMMA PassFollows ==
    ASSUME TypeOK, PassInv, UseKept, NEW p \in Pass, Only(p), PassOK(pass[p])'
    PROVE  PassInv'
<1>1. SUFFICES ASSUME NEW q \in Pass PROVE PassOK(pass[q])'
  BY DEF PassInv
<1>2. CASE q = p
  BY <1>2
<1>3. CASE q # p
  <2>1. PICK me \in PassType : me = pass[q]
    BY DEF TypeOK
  <2>2. pass'[q] = me /\ PassOK(me)
    BY <1>3, <2>1 DEF Only, PassInv
  <2>3. me.row \in Row => SameUse(me.row)
    BY DEF UseKept
  <2>4. me.pc \in {"send", "spend"} => me.row \in Row
    BY <2>2 DEF PassOK, OnARow, Steps
  <2>5. PassOK(me)'
    BY <2>2, <2>3, <2>4 DEF PassOK, SameUse
  <2>6. QED BY <2>2, <2>5
<1>4. QED BY <1>2, <1>3

LEMMA UnusedFollows ==
    ASSUME TypeOK, UnusedInv, UseKept, UnusedKept, NEW p \in Pass, Only(p), TodoOK(pass'[p])
    PROVE  UnusedInv'
<1>1. SUFFICES ASSUME NEW m \in Row, log'[m].status = "none"
               PROVE  /\ handed'[m] = 0 /\ charged'[m] = 0 /\ m \notin bell'
                      /\ \A n \in Row : log'[n].fallback_of # m
                      /\ \A q \in Pass : m \notin pass'[q].todo
  BY DEF UnusedInv
<1>2. log[m].status = "none"
  BY <1>1 DEF UseKept, SameUse
<1>3. handed'[m] = 0 /\ charged'[m] = 0 /\ m \notin bell'
  BY <1>2 DEF UnusedInv, UnusedKept
<1>4. \A n \in Row : log'[n].fallback_of # m
  BY <1>2 DEF UnusedInv, UseKept, SameUse
<1>5. \A q \in Pass : m \notin pass'[q].todo
  BY <1>2 DEF UnusedInv, Only, TodoOK
<1>6. QED BY <1>3, <1>4, <1>5

LEMMA LadderFollows ==
    ASSUME TypeOK, PassInv, LadderInv, Kept, NEW p \in Pass, Only(p), pass'[p].pc # "insert"
    PROVE  LadderInv'
<1>1. FallbackOnce'
  BY DEF LadderInv, FallbackOnce, Kept, SameRow, SameUse
<1>2. \A m \in Row : log'[m].fallback_of # NoRow => log'[log'[m].fallback_of].ladder = << >>
  <2>1. SUFFICES ASSUME NEW m \in Row, log'[m].fallback_of # NoRow
                 PROVE  log'[log'[m].fallback_of].ladder = << >>
    OBVIOUS
  <2>2. PICK n : n = log[m].fallback_of
    OBVIOUS
  <2>3. n \in Row /\ log[n].ladder = << >> /\ log'[m].fallback_of = n
    BY <2>1, <2>2 DEF LadderInv, Kept, SameRow, SameUse, TypeOK, RowType
  <2>4. QED BY <2>3 DEF Kept, SameRow, SameUse
<1>3. ASSUME NEW q \in Pass, pass'[q].pc = "insert"
      PROVE  /\ log'[pass'[q].row].ladder = << >>
             /\ \A m \in Row : log'[m].fallback_of # pass'[q].row
             /\ \A r \in Pass \ {q} : pass'[r].pc = "insert" => pass'[r].row # pass'[q].row
  <2>1. q # p /\ pass'[q] = pass[q]
    BY <1>3 DEF Only
  <2>2. PICK n : n = pass[q].row
    OBVIOUS
  <2>3. n \in Row
    BY <1>3, <2>1, <2>2 DEF PassInv, PassOK, OnARow, Steps
  <2>4. log[n].ladder = << >> /\ \A m \in Row : log[m].fallback_of # n
    BY <1>3, <2>1, <2>2 DEF LadderInv
  <2>5. ASSUME NEW r \in Pass \ {q}, pass'[r].pc = "insert"
        PROVE  pass'[r].row # n
    <3>1. pass'[r] = pass[r]
      BY <2>5 DEF Only
    <3>2. QED BY <1>3, <2>1, <2>2, <2>5, <3>1 DEF LadderInv
  <2>6. log'[n].ladder = << >> /\ \A m \in Row : log'[m].fallback_of # n
    BY <2>3, <2>4 DEF Kept, SameRow, SameUse
  <2>7. QED BY <2>1, <2>2, <2>5, <2>6
<1>4. QED BY <1>1, <1>2, <1>3 DEF LadderInv

-----------------------------------------------------------------------------
(***************************************************************************)
(* Counting senders and payers.                                            *)
(***************************************************************************)
LEMMA SetShrinks ==
    ASSUME NEW S, IsFiniteSet(S), NEW T \in SUBSET S, NEW x
    PROVE  /\ Cardinality(S) \in Nat /\ Cardinality(T) \in Nat
           /\ Cardinality(T) <= Cardinality(S)
           /\ x \in S /\ x \notin T => Cardinality(T) + 1 <= Cardinality(S)
<1>1. IsFiniteSet(T) /\ Cardinality(T) <= Cardinality(S)
  BY FS_Subset
<1>2. Cardinality(S) \in Nat /\ Cardinality(T) \in Nat
  BY <1>1, FS_CardinalityType
<1>3. ASSUME x \in S, x \notin T
      PROVE  Cardinality(T) + 1 <= Cardinality(S)
  <2>1. IsFiniteSet(S \ {x}) /\ Cardinality(S \ {x}) = Cardinality(S) - 1
    BY <1>3, FS_RemoveElement
  <2>2. T \in SUBSET (S \ {x})
    BY <1>3
  <2>3. Cardinality(T) <= Cardinality(S \ {x})
    BY <2>1, <2>2, FS_Subset
  <2>4. QED BY <1>2, <2>1, <2>3
<1>4. QED BY <1>1, <1>2, <1>3

LEMMA SetGrows ==
    ASSUME NEW S, IsFiniteSet(S), NEW x, NEW T \in SUBSET (S \cup {x})
    PROVE  Cardinality(S) \in Nat /\ Cardinality(T) \in Nat /\ Cardinality(T) <= Cardinality(S) + 1
<1>1. IsFiniteSet(S \cup {x}) /\ Cardinality(S \cup {x}) <= Cardinality(S) + 1
  <2>1. IsFiniteSet(S \cup {x})
    BY FS_AddElement
  <2>2. Cardinality(S) \in Nat
    BY FS_CardinalityType
  <2>3. CASE x \in S
    <3>1. S \cup {x} = S
      BY <2>3
    <3>2. QED BY <2>1, <2>2, <3>1
  <2>4. CASE x \notin S
    BY <2>1, <2>2, <2>4, FS_AddElement
  <2>5. QED BY <2>3, <2>4
<1>2. Cardinality(T) <= Cardinality(S \cup {x}) /\ IsFiniteSet(T)
  BY <1>1, FS_Subset
<1>3. Cardinality(S) \in Nat /\ Cardinality(T) \in Nat /\ Cardinality(S \cup {x}) \in Nat
  BY <1>1, <1>2, FS_CardinalityType
<1>4. QED BY <1>1, <1>2, <1>3

LEMMA CountsFinite ==
    ASSUME NEW m PROVE IsFiniteSet(Senders(m)) /\ IsFiniteSet(Payers(m))
<1>1. Senders(m) \in SUBSET Pass /\ Payers(m) \in SUBSET Pass
  BY DEF Senders, Payers
<1>2. QED BY <1>1, PassAssumption, FS_Subset

LEMMA SendersCount ==
    ASSUME NEW p \in Pass, Only(p), NEW m
    PROVE  /\ Cardinality(Senders(m)) \in Nat /\ Cardinality(Senders(m)') \in Nat
           /\ Cardinality(Senders(m)') <= Cardinality(Senders(m)) + 1
           /\ ~Sender(p, m)' \/ Sender(p, m) => Cardinality(Senders(m)') <= Cardinality(Senders(m))
           /\ ~Sender(p, m)' /\ Sender(p, m) => Cardinality(Senders(m)') + 1 <= Cardinality(Senders(m))
<1>1. \A q \in Pass : q # p => (Sender(q, m)' <=> Sender(q, m))
  BY DEF Only, Sender
<1>2. Senders(m)' \in SUBSET (Senders(m) \cup {p})
  BY <1>1 DEF Senders
<1>3. ~Sender(p, m)' \/ Sender(p, m) => Senders(m)' \in SUBSET Senders(m)
  BY <1>1 DEF Senders
<1>4. /\ ~Sender(p, m)' => p \notin Senders(m)'
      /\ Sender(p, m) => p \in Senders(m)
  BY DEF Senders
<1>5. IsFiniteSet(Senders(m))
  BY CountsFinite
<1>6. QED BY <1>2, <1>3, <1>4, <1>5, SetGrows, SetShrinks

LEMMA PayersCount ==
    ASSUME NEW p \in Pass, Only(p), NEW m
    PROVE  /\ Cardinality(Payers(m)) \in Nat /\ Cardinality(Payers(m)') \in Nat
           /\ Cardinality(Payers(m)') <= Cardinality(Payers(m)) + 1
           /\ ~Payer(p, m)' \/ Payer(p, m) => Cardinality(Payers(m)') <= Cardinality(Payers(m))
           /\ ~Payer(p, m)' /\ Payer(p, m) => Cardinality(Payers(m)') + 1 <= Cardinality(Payers(m))
<1>1. \A q \in Pass : q # p => (Payer(q, m)' <=> Payer(q, m))
  BY DEF Only, Payer
<1>2. Payers(m)' \in SUBSET (Payers(m) \cup {p})
  BY <1>1 DEF Payers
<1>3. ~Payer(p, m)' \/ Payer(p, m) => Payers(m)' \in SUBSET Payers(m)
  BY <1>1 DEF Payers
<1>4. /\ ~Payer(p, m)' => p \notin Payers(m)'
      /\ Payer(p, m) => p \in Payers(m)
  BY DEF Payers
<1>5. IsFiniteSet(Payers(m))
  BY CountsFinite
<1>6. QED BY <1>2, <1>3, <1>4, <1>5, SetGrows, SetShrinks

(* One credit sum, for the products of ChargeInv. *)
LEMMA Products ==
    ASSUME NEW k \in Nat, NEW n \in Nat
    PROVE  /\ Segments * k \in Nat /\ Segments * n \in Nat
           /\ k <= n => Segments * k <= Segments * n
           /\ k + 1 <= n => Segments * k + Segments <= Segments * n
           /\ Segments * (k + 1) = Segments * k + Segments
<1>1. Segments \in Nat
  BY NumberAssumption
<1>2. Segments * k \in Nat /\ Segments * n \in Nat
  BY <1>1
<1>3. k <= n => Segments * k <= Segments * n
  <2>1. HAVE k <= n
  <2>2. PICK d \in Nat : n = k + d
    BY <2>1
  <2>3. Segments * n = Segments * k + Segments * d /\ Segments * d \in Nat
    BY <1>1, <2>2
  <2>4. QED BY <1>2, <2>3
<1>4. k + 1 <= n => Segments * k + Segments <= Segments * n
  <2>1. HAVE k + 1 <= n
  <2>2. PICK d \in Nat : n = k + 1 + d
    BY <2>1
  <2>3. Segments * n = Segments * k + Segments + Segments * d /\ Segments * d \in Nat
    BY <1>1, <2>2
  <2>4. QED BY <1>1, <1>2, <2>3
<1>5. Segments * (k + 1) = Segments * k + Segments
  BY <1>1
<1>6. QED BY <1>2, <1>3, <1>4, <1>5

LEMMA WaitingIsOne == \A m : Waiting(m) = IF Waits(m) THEN 1 ELSE 0
BY DEF Waiting, Waits

LEMMA SendFollows ==
    ASSUME TypeOK, SendInv, UseKept, StillWaits, Uncounted, NEW p \in Pass, Only(p),
           \A m \in Row : ~Sender(p, m)'
    PROVE  SendInv'
<1>1. SUFFICES ASSUME NEW m \in Row, log'[m].channel = "phone"
               PROVE  handed'[m] + Waiting(m)' + Cardinality(Senders(m)') <= 1 + revived'[m]
  BY DEF SendInv
<1>2. log[m].channel = "phone"
  BY <1>1 DEF UseKept, SameUse
<1>3. handed[m] + Waiting(m) + Cardinality(Senders(m)) <= 1 + revived[m]
  BY <1>2 DEF SendInv
<1>4. ~Sender(p, m)'
  OBVIOUS
<1>5. /\ Cardinality(Senders(m)) \in Nat /\ Cardinality(Senders(m)') \in Nat
      /\ Cardinality(Senders(m)') <= Cardinality(Senders(m))
  BY <1>4, SendersCount
<1>6. Waiting(m)' \in 0 .. 1 /\ Waiting(m) \in 0 .. 1 /\ Waiting(m)' <= Waiting(m)
  BY DEF StillWaits, Waits, Waiting
<1>7. handed[m] \in Nat /\ revived[m] \in Nat /\ handed'[m] = handed[m] /\ revived'[m] = revived[m]
  BY DEF TypeOK, Uncounted
<1>8. QED BY <1>3, <1>5, <1>6, <1>7

LEMMA ChargeFollows ==
    ASSUME TypeOK, ChargeInv, UseKept, handed' = handed, charged' = charged, NEW p \in Pass, Only(p),
           \A m \in Row : log[m].channel = "phone" /\ Payer(p, m)' => Payer(p, m)
    PROVE  ChargeInv'
<1>1. SUFFICES ASSUME NEW m \in Row, log'[m].channel = "phone"
               PROVE  charged'[m] + Segments * Cardinality(Payers(m)') <= Segments * handed'[m]
  BY DEF ChargeInv
<1>2. log[m].channel = "phone"
  BY <1>1 DEF UseKept, SameUse
<1>3. charged[m] + Segments * Cardinality(Payers(m)) <= Segments * handed[m]
  BY <1>2 DEF ChargeInv
<1>4. ~Payer(p, m)' \/ Payer(p, m)
  BY <1>2
<1>5. /\ Cardinality(Payers(m)) \in Nat /\ Cardinality(Payers(m)') \in Nat
      /\ Cardinality(Payers(m)') <= Cardinality(Payers(m))
  BY <1>4, PayersCount
<1>6. Segments * Cardinality(Payers(m)') <= Segments * Cardinality(Payers(m))
      /\ Segments * Cardinality(Payers(m)') \in Nat /\ Segments * Cardinality(Payers(m)) \in Nat
  BY <1>5, Products
<1>7. charged[m] \in Nat /\ charged'[m] = charged[m] /\ handed'[m] = handed[m]
  BY DEF TypeOK
<1>8. PICK a, b, k \in Nat : a = Segments * Cardinality(Payers(m)')
                             /\ b = Segments * Cardinality(Payers(m)) /\ k = charged[m]
  BY <1>6, <1>7
<1>9. PICK h \in Nat : h = Segments * handed[m]
  BY NumberAssumption DEF TypeOK
<1>10. k + b <= h /\ a <= b
  BY <1>3, <1>6, <1>8, <1>9
<1>11. k + a <= h
  BY <1>10
<1>12. QED BY <1>7, <1>8, <1>9, <1>11

(* The steps of one invocation that send, charge and requeue nothing. *)
LEMMA BystanderStep ==
    ASSUME TypeOK, DispatchInv, Kept, StillWaits, Uncounted, UnusedKept,
           NEW p \in Pass, Only(p), PassOK(pass[p])', TodoOK(pass'[p]),
           Bystander(pass'[p]), pass'[p].pc # "insert"
    PROVE  DispatchInv'
<1>1. PassInv' /\ UnusedInv' /\ LadderInv'
  BY KeptIsUse, PassFollows, UnusedFollows, LadderFollows DEF DispatchInv
<1>2. \A m \in Row : ~Payer(p, m)' /\ ~Sender(p, m)'
  BY DEF Payer, Sender, Bystander
<1>3. SendInv'
  BY <1>2, KeptIsUse, SendFollows DEF DispatchInv
<1>4. ChargeInv'
  BY <1>2, KeptIsUse, ChargeFollows DEF DispatchInv, Uncounted
<1>5. QED BY <1>1, <1>3, <1>4 DEF DispatchInv

(* The steps of the office, the clock and the recipient on rows that exist. *)
LEMMA OutsideStep ==
    ASSUME TypeOK, DispatchInv, Kept, StillWaits, Uncounted, bell' = bell, pass' = pass
    PROVE  DispatchInv'
<1> USE DEF DispatchInv
<1>1. PassInv'
  <2>1. SUFFICES ASSUME NEW q \in Pass PROVE PassOK(pass[q])'
    BY DEF PassInv
  <2>2. PICK me \in PassType : me = pass[q]
    BY DEF TypeOK
  <2>3. PassOK(me) /\ (me.row \in Row => SameRow(me.row))
    BY <2>2 DEF PassInv, Kept
  <2>4. me.pc \in {"send", "spend"} => me.row \in Row
    BY <2>3 DEF PassOK, OnARow, Steps
  <2>5. PassOK(me)'
    BY <2>3, <2>4 DEF PassOK, SameRow, SameUse
  <2>6. QED BY <2>2, <2>5
<1>2. UnusedInv'
  BY DEF UnusedInv, Kept, SameRow, SameUse, Uncounted
<1>3. SendInv'
  <2>1. SUFFICES ASSUME NEW m \in Row, log'[m].channel = "phone"
                 PROVE  handed'[m] + Waiting(m)' + Cardinality(Senders(m)') <= 1 + revived'[m]
    BY DEF SendInv
  <2>2. handed[m] + Waiting(m) + Cardinality(Senders(m)) <= 1 + revived[m]
    BY <2>1 DEF SendInv, Kept, SameRow, SameUse
  <2>3. Senders(m)' = Senders(m)
    BY DEF Senders, Sender
  <2>4. Cardinality(Senders(m)) \in Nat
    BY CountsFinite, FS_CardinalityType
  <2>5. Waiting(m)' \in 0 .. 1 /\ Waiting(m) \in 0 .. 1 /\ Waiting(m)' <= Waiting(m)
    BY DEF StillWaits, Waits, Waiting
  <2>6. handed[m] \in Nat /\ revived[m] \in Nat /\ handed'[m] = handed[m] /\ revived'[m] = revived[m]
    BY DEF TypeOK, Uncounted
  <2>7. QED BY <2>2, <2>3, <2>4, <2>5, <2>6
<1>4. ChargeInv'
  <2>1. \A m : Payers(m)' = Payers(m)
    BY DEF Payers, Payer
  <2>2. QED BY <2>1 DEF ChargeInv, Kept, SameRow, SameUse, Uncounted
<1>5. LadderInv'
  <2>1. FallbackOnce'
    BY DEF LadderInv, FallbackOnce, Kept, SameRow, SameUse
  <2>2. \A m \in Row : log'[m].fallback_of # NoRow => log'[log'[m].fallback_of].ladder = << >>
    <3>1. SUFFICES ASSUME NEW m \in Row, log'[m].fallback_of # NoRow
                   PROVE  log'[log'[m].fallback_of].ladder = << >>
      OBVIOUS
    <3>2. PICK n : n = log[m].fallback_of
      OBVIOUS
    <3>3. n \in Row /\ log[n].ladder = << >> /\ log'[m].fallback_of = n
      BY <3>1, <3>2 DEF LadderInv, Kept, SameRow, SameUse, TypeOK, RowType
    <3>4. QED BY <3>3 DEF Kept, SameRow, SameUse
  <2>3. ASSUME NEW q \in Pass, pass[q].pc = "insert"
        PROVE  /\ log'[pass[q].row].ladder = << >>
               /\ \A m \in Row : log'[m].fallback_of # pass[q].row
    <3>1. PICK n : n = pass[q].row
      OBVIOUS
    <3>2. n \in Row /\ log[n].ladder = << >> /\ \A m \in Row : log[m].fallback_of # n
      BY <2>3, <3>1 DEF PassInv, PassOK, OnARow, Steps, LadderInv
    <3>3. QED BY <3>1, <3>2 DEF Kept, SameRow, SameUse
  <2>4. QED BY <2>1, <2>2, <2>3 DEF LadderInv
<1>6. QED BY <1>1, <1>2, <1>3, <1>4, <1>5
-----------------------------------------------------------------------------
(***************************************************************************)
(* Shapes of steps.                                                        *)
(***************************************************************************)
LEMMA StepShape ==
    ASSUME TypeOK, NEW p \in Pass, NEW next, Step(p, next)
    PROVE  Only(p) /\ pass'[p] = next
BY DEF TypeOK, Step, Only

LEMMA GotoShape ==
    ASSUME TypeOK, NEW p \in Pass, NEW pc, Goto(p, pc)
    PROVE  /\ Only(p) /\ pass'[p].pc = pc /\ pass'[p].row = pass[p].row
           /\ pass'[p].todo = pass[p].todo /\ pass'[p].marked = pass[p].marked
           /\ pass'[p].error = pass[p].error
<1>1. PICK me \in PassType : me = pass[p]
  BY DEF TypeOK
<1>2. Only(p) /\ pass'[p] = [me EXCEPT !.pc = pc]
  BY <1>1, StepShape DEF Goto
<1>3. QED BY <1>1, <1>2 DEF PassType

(* An invocation that holds no row. *)
LEMMA OffRow ==
    ASSUME NEW p \in Pass, pass'[p].pc \in {"idle", "settle", "select", "push", "unreached"}
    PROVE  PassOK(pass[p])' /\ Bystander(pass'[p]) /\ pass'[p].pc # "insert"
BY DEF PassOK, OnARow, Steps, Bystander

LEMMA TodoUsed ==
    ASSUME TypeOK, UnusedInv, NEW p \in Pass PROVE TodoOK(pass[p])
BY DEF TypeOK, PassType, UnusedInv, TodoOK

Apart(p) ==
    /\ pass'[p].pc \in {"idle", "settle", "select", "push", "unreached"}
    /\ pass'[p].todo = pass[p].todo

LEMMA ResumeShape ==
    ASSUME TypeOK, UnusedInv, NEW p \in Pass, Resume(p)
    PROVE  /\ Only(p) /\ pass' \in [Pass -> PassType]
           /\ PassOK(pass[p])' /\ Bystander(pass'[p]) /\ pass'[p].pc # "insert"
           /\ TodoOK(pass'[p]) /\ Apart(p)
<1> DEFINE next == [Idle EXCEPT !.pc = pass[p].back, !.back = pass[p].back,
                                !.todo = pass[p].todo]
<1>1. Only(p) /\ pass'[p] = next
  BY StepShape DEF Resume
<1>2. next.pc = pass[p].back /\ next.todo = pass[p].todo
  BY DEF Idle
<1>3. pass[p].back \in {"idle", "select", "unreached"}
  BY DEF TypeOK, PassType
<1>4. pass'[p].pc \in {"idle", "select", "unreached"} /\ pass'[p].todo = pass[p].todo
  BY <1>1, <1>2, <1>3
<1>5. TodoOK(pass'[p])
  BY <1>4, TodoUsed DEF TodoOK
<1>6. QED BY <1>1, <1>4, <1>5, OffRow, ResumeTyped DEF Apart

LEMMA SameLog ==
    ASSUME log' = log PROVE Kept /\ StillWaits
BY DEF Kept, SameRow, SameUse, StillWaits, Waits

LEMMA SameBooks ==
    ASSUME UNCHANGED aside PROVE Uncounted /\ UnusedKept /\ bell' = bell
BY DEF aside, Uncounted, UnusedKept

(* The row in hand. *)
LEMMA RowInHand ==
    ASSUME TypeOK, PassInv, NEW p \in Pass, pass[p].pc \in OnARow
    PROVE  /\ pass[p].row \in Row /\ log[pass[p].row].status # "none"
           /\ log[pass[p].row] \in RowType
BY DEF PassInv, PassOK, TypeOK

(* A row rewritten with the same channel, ladder and parent. *)
LEMMA WriteShape ==
    ASSUME TypeOK, NEW m \in Row, log[m].status # "none", NEW row \in RowType,
           row.status # "none", row.channel = log[m].channel, row.ladder = log[m].ladder,
           row.fallback_of = log[m].fallback_of, WriteRow(m, row)
    PROVE  /\ Kept
           /\ log'[m] = row /\ \A n \in Row : n # m => log'[n] = log[n]
           /\ row.status \notin {"queued", "cancelled"} \/ Waits(m) => StillWaits
           /\ log' \in [Row -> RowType]
           /\ due' \subseteq Row /\ overdue' \subseteq Row /\ readers' \subseteq Pass
<1>1. log'[m] = row /\ \A n \in Row : n # m => log'[n] = log[n]
  BY DEF WriteRow, TypeOK
<1>2. Kept
  BY <1>1 DEF Kept, SameRow, SameUse
<1>3. row.status \notin {"queued", "cancelled"} \/ Waits(m) => StillWaits
  BY <1>1 DEF StillWaits, Waits
<1>4. QED BY <1>1, <1>2, <1>3, WriteRowTyped

LEMMA StatusShape ==
    ASSUME TypeOK, NEW m \in Row, log[m].status # "none", NEW status \in Status \ {"none"},
           WriteRow(m, [log[m] EXCEPT !.status = status])
    PROVE  /\ Kept
           /\ status \notin {"queued", "cancelled"} \/ Waits(m) => StillWaits
           /\ log' \in [Row -> RowType]
           /\ due' \subseteq Row /\ overdue' \subseteq Row /\ readers' \subseteq Pass
<1>1. PICK row \in RowType : row = [log[m] EXCEPT !.status = status]
  BY StatusTyped
<1>2. row.status = status /\ row.channel = log[m].channel /\ row.ladder = log[m].ladder
      /\ row.fallback_of = log[m].fallback_of
  BY <1>1 DEF TypeOK, RowType
<1>3. WriteRow(m, row)
  BY <1>1
<1>4. QED BY <1>2, <1>3, WriteShape

LEMMA OutcomeShape ==
    ASSUME TypeOK, PassInv, NEW p \in Pass, pass[p].pc = "result",
           NEW status \in Status \ {"none"}, Outcome(p, status)
    PROVE  /\ Kept
           /\ log'[pass[p].row].status = status
           /\ \A n \in Row : n # pass[p].row => log'[n] = log[n]
           /\ status \notin {"queued", "cancelled"} => StillWaits
           /\ log' \in [Row -> RowType]
           /\ due' \subseteq Row /\ overdue' \subseteq Row /\ readers' \subseteq Pass
<1>1. pass[p].row \in Row /\ log[pass[p].row].status # "none" /\ log[pass[p].row] \in RowType
  BY RowInHand DEF OnARow, Steps
<1>2. PICK m \in Row : m = pass[p].row
  BY <1>1
<1>3. PICK row \in RowType : row = Tried(log[m], status)
  BY <1>1, <1>2, TriedRow
<1>4. row.status = status /\ row.channel = log[m].channel /\ row.ladder = log[m].ladder
      /\ row.fallback_of = log[m].fallback_of
  BY <1>1, <1>2, <1>3, TriedRow
<1>5. WriteRow(m, row)
  BY <1>2, <1>3 DEF Outcome
<1>6. QED BY <1>1, <1>2, <1>4, <1>5, WriteShape
-----------------------------------------------------------------------------
(***************************************************************************)
(* The steps around a pass.                                                *)
(***************************************************************************)
LEMMA WithdrawKeeps ==
    ASSUME TypeOK, DispatchInv, NEW m \in Row, Withdraw(m)
    PROVE  TypeOK' /\ DispatchInv'
<1>1. log[m].status = "queued" /\ Waits(m) /\ "cancelled" \in Status \ {"none"}
  BY DEF Withdraw, Waits, Status
<1>2. WriteRow(m, [log[m] EXCEPT !.status = "cancelled"])
  BY DEF Withdraw
<1>3. /\ Kept /\ StillWaits /\ log' \in [Row -> RowType]
      /\ due' \subseteq Row /\ overdue' \subseteq Row /\ readers' \subseteq Pass
  BY <1>1, <1>2, StatusShape
<1>4. pass' = pass /\ UNCHANGED aside
  BY DEF Withdraw
<1>5. TypeOK'
  BY <1>3, <1>4 DEF TypeOK, aside
<1>6. DispatchInv'
  BY <1>3, <1>4, SameBooks, OutsideStep
<1>7. QED BY <1>5, <1>6

LEMMA ReportKeeps ==
    ASSUME TypeOK, DispatchInv, NEW m \in Row, Report(m)
    PROVE  TypeOK' /\ DispatchInv'
<1>1. PICK status \in {"sent", "delivered", "read"} :
         log[m].status \in Below(status) /\ WriteRow(m, [log[m] EXCEPT !.status = status])
  BY DEF Report
<1>2. log[m].status # "none" /\ status \in Status \ {"none"}
      /\ status \notin {"queued", "cancelled"}
  BY <1>1 DEF Below, Status
<1>3. /\ Kept /\ StillWaits /\ log' \in [Row -> RowType]
      /\ due' \subseteq Row /\ overdue' \subseteq Row /\ readers' \subseteq Pass
  BY <1>1, <1>2, StatusShape
<1>4. pass' = pass /\ UNCHANGED aside
  BY DEF Report
<1>5. TypeOK'
  BY <1>3, <1>4 DEF TypeOK, aside
<1>6. DispatchInv'
  BY <1>3, <1>4, SameBooks, OutsideStep
<1>7. QED BY <1>5, <1>6

LEMMA TimeKeeps ==
    ASSUME TypeOK, DispatchInv, NEW m \in Row, TimePasses(m)
    PROVE  TypeOK' /\ DispatchInv'
<1>1. TypeOK'
  BY DEF TimePasses, TypeOK, aside
<1>2. log' = log /\ pass' = pass /\ UNCHANGED aside
  BY DEF TimePasses
<1>3. QED BY <1>1, <1>2, SameLog, SameBooks, OutsideStep

LEMMA TopUpKeeps ==
    ASSUME TypeOK, DispatchInv, TopUp
    PROVE  TypeOK' /\ DispatchInv'
<1>1. TypeOK'
  BY NumberAssumption DEF TopUp, TypeOK, clock
<1>2. log' = log /\ pass' = pass /\ bell' = bell /\ Uncounted
  BY DEF TopUp, Uncounted
<1>3. QED BY <1>1, <1>2, SameLog, OutsideStep

-----------------------------------------------------------------------------
(***************************************************************************)
(* Steps that write nothing but the invocation's own state.                *)
(***************************************************************************)
LEMMA ReadStep ==
    ASSUME TypeOK, DispatchInv, NEW p \in Pass, Only(p), pass' \in [Pass -> PassType],
           log' = log, UNCHANGED aside,
           due' \subseteq Row /\ overdue' \subseteq Row /\ readers' \subseteq Pass,
           PassOK(pass[p])', TodoOK(pass'[p]), Bystander(pass'[p]), pass'[p].pc # "insert"
    PROVE  TypeOK' /\ DispatchInv'
<1>1. TypeOK'
  BY DEF TypeOK, aside
<1>2. QED BY <1>1, SameLog, SameBooks, BystanderStep

LEMMA StartPassKeeps ==
    ASSUME TypeOK, DispatchInv, NEW p \in Pass, StartPass(p)
    PROVE  TypeOK' /\ DispatchInv'
<1> DEFINE stale == {m \in overdue : log[m].status = "sending"}
           next == [Idle EXCEPT !.pc = "settle", !.back = "select", !.todo = stale]
<1>1. stale \in SUBSET Row /\ \A m \in stale : log[m].status # "none"
  BY DEF TypeOK
<1>2. next \in PassType /\ next.pc = "settle" /\ next.todo = stale
  BY <1>1, IdleTyped DEF Idle, PassType, Steps
<1>3. Step(p, next) /\ log' = log /\ UNCHANGED aside /\ UNCHANGED clock
  BY DEF StartPass
<1> HIDE DEF next, stale
<1>4. Only(p) /\ pass'[p] = next /\ pass' \in [Pass -> PassType]
  BY <1>2, <1>3, StepShape, StepTyped
<1>5. TodoOK(pass'[p]) /\ pass'[p].pc = "settle"
  BY <1>1, <1>2, <1>4 DEF TodoOK
<1>6. due' \subseteq Row /\ overdue' \subseteq Row /\ readers' \subseteq Pass
  BY <1>3 DEF clock, TypeOK
<1>7. QED BY <1>3, <1>4, <1>5, <1>6, OffRow, ReadStep

(* Back to idle: the end of a pass, of the pump, or of the isolate. *)
LEMMA IdleKeeps ==
    ASSUME TypeOK, DispatchInv, NEW p \in Pass, Step(p, Idle), log' = log, UNCHANGED aside,
           due' = due /\ overdue' = overdue /\ readers' \subseteq readers
    PROVE  TypeOK' /\ DispatchInv'
<1>1. Only(p) /\ pass'[p] = Idle /\ pass' \in [Pass -> PassType]
  BY IdleTyped, StepShape, StepTyped
<1>2. pass'[p].pc = "idle" /\ TodoOK(pass'[p])
  BY <1>1 DEF Idle, TodoOK
<1>3. due' \subseteq Row /\ overdue' \subseteq Row /\ readers' \subseteq Pass
  BY DEF TypeOK
<1>4. QED BY <1>1, <1>2, <1>3, OffRow, ReadStep

LEMMA SelectKeeps ==
    ASSUME TypeOK, DispatchInv, NEW p \in Pass, NEW m \in Row, Select(p, m)
    PROVE  TypeOK' /\ DispatchInv'
<1> DEFINE next == [Idle EXCEPT !.pc = "claim", !.row = m, !.attempts = log[m].attempts,
                                !.more = (log[m].ladder # << >>), !.back = "select"]
<1>1. log[m].attempts \in Nat /\ log[m].status = "queued"
  BY DEF TypeOK, RowType, Select, Queued
<1>2. next \in PassType /\ next.pc = "claim" /\ next.todo = {} /\ next.row = m /\ next.marked = FALSE
  BY <1>1, IdleTyped DEF Idle, PassType, Steps
<1>3. Step(p, next) /\ log' = log /\ UNCHANGED aside
      /\ readers' = readers \cup {p} /\ due' = due /\ overdue' = overdue
  BY DEF Select
<1> HIDE DEF next
<1>4. Only(p) /\ pass'[p] = next /\ pass' \in [Pass -> PassType]
  BY <1>2, <1>3, StepShape, StepTyped
<1>5. TodoOK(pass'[p]) /\ Bystander(pass'[p]) /\ pass'[p].pc # "insert"
  BY <1>2, <1>4 DEF TodoOK, Bystander
<1>6. PassOK(pass[p])'
  BY <1>1, <1>2, <1>3, <1>4 DEF PassOK
<1>7. due' \subseteq Row /\ overdue' \subseteq Row /\ readers' \subseteq Pass
  BY <1>3 DEF TypeOK
<1>8. QED BY <1>3, <1>4, <1>5, <1>6, <1>7, ReadStep

LEMMA ClaimKeeps ==
    ASSUME TypeOK, DispatchInv, NEW p \in Pass, Claim(p)
    PROVE  TypeOK' /\ DispatchInv'
<1> USE DEF DispatchInv
<1>1. PICK m \in Row : m = pass[p].row /\ log[m].status # "none" /\ log[m] \in RowType
  BY RowInHand DEF Claim, At, OnARow, Steps
<1>2. CASE log[m].status = "queued" /\ p \in readers
  <2>1. WriteRow(m, log[m]) /\ Goto(p, "check") /\ UNCHANGED aside
    BY <1>1, <1>2 DEF Claim
  <2>2. log' = log
    BY <2>1 DEF WriteRow, TypeOK
  <2>3. due' \subseteq Row /\ overdue' \subseteq Row /\ readers' \subseteq Pass
    BY <2>1 DEF WriteRow, TypeOK
  <2>4. "check" \in Steps
    BY DEF Steps
  <2>5. /\ Only(p) /\ pass'[p].pc = "check" /\ pass'[p].row = m /\ pass'[p].todo = pass[p].todo
        /\ pass'[p].marked = pass[p].marked /\ pass' \in [Pass -> PassType]
    BY <1>1, <2>1, <2>4, GotoShape, GotoTyped
  <2>6. ~pass[p].marked
    BY DEF Claim, At, PassInv, PassOK
  <2>7. TodoOK(pass'[p])
    BY <2>5, TodoUsed DEF TodoOK
  <2>8. Bystander(pass'[p]) /\ pass'[p].pc # "insert"
    BY <2>5 DEF Bystander
  <2>9. PassOK(pass[p])'
    BY <1>1, <2>2, <2>5, <2>6 DEF PassOK
  <2>10. QED BY <2>1, <2>2, <2>3, <2>5, <2>7, <2>8, <2>9, ReadStep
<1>3. CASE ~(log[m].status = "queued" /\ p \in readers)
  <2>1. Resume(p) /\ log' = log /\ due' = due /\ overdue' = overdue /\ readers' \subseteq readers
        /\ UNCHANGED aside
    BY <1>1, <1>3 DEF Claim
  <2>2. due' \subseteq Row /\ overdue' \subseteq Row /\ readers' \subseteq Pass
    BY <2>1 DEF TypeOK
  <2>3. QED BY <2>1, <2>2, ResumeShape, ReadStep
<1>4. QED BY <1>2, <1>3

LEMMA PrepareKeeps ==
    ASSUME TypeOK, DispatchInv, NEW p \in Pass, Prepare(p)
    PROVE  TypeOK' /\ DispatchInv'
<1> USE DEF DispatchInv
<1>1. PICK m \in Row : m = pass[p].row /\ log[m].status # "none"
  BY RowInHand DEF Prepare, At, OnARow, Steps
<1>2. ~pass[p].marked
  BY DEF Prepare, At, PassInv, PassOK
<1>3. log' = log /\ UNCHANGED aside /\ UNCHANGED clock
  BY DEF Prepare
<1>4. due' \subseteq Row /\ overdue' \subseteq Row /\ readers' \subseteq Pass
  BY <1>3 DEF clock, TypeOK
<1>5. CASE Goto(p, "mark")
  <2>1. "mark" \in Steps
    BY DEF Steps
  <2>2. /\ Only(p) /\ pass'[p].pc = "mark" /\ pass'[p].row = m /\ pass'[p].todo = pass[p].todo
        /\ pass'[p].marked = pass[p].marked /\ pass' \in [Pass -> PassType]
    BY <1>1, <1>5, <2>1, GotoShape, GotoTyped
  <2>3. TodoOK(pass'[p]) /\ Bystander(pass'[p]) /\ pass'[p].pc # "insert"
    BY <2>2, TodoUsed DEF TodoOK, Bystander
  <2>4. PassOK(pass[p])'
    BY <1>1, <1>2, <1>3, <2>2 DEF PassOK
  <2>5. QED BY <1>3, <1>4, <2>2, <2>3, <2>4, ReadStep
<1>6. ASSUME NEW error \in {"permanent", "transient"}, Step(p, ToResult(pass[p], error))
      PROVE  TypeOK' /\ DispatchInv'
  <2>1. PICK me \in PassType : me = pass[p]
    BY DEF TypeOK
  <2>2. error \in Errors
    BY DEF Errors
  <2>3. PICK next \in PassType : next = ToResult(me, error)
    BY <2>2, ToResultPass
  <2>4. next.pc = "result" /\ next.error = error /\ next.row = m /\ next.todo = me.todo
        /\ next.marked = me.marked
    BY <1>1, <2>1, <2>2, <2>3, ToResultPass
  <2>5. Only(p) /\ pass'[p] = next /\ pass' \in [Pass -> PassType]
    BY <1>6, <2>1, <2>3, StepShape, StepTyped
  <2>6. TodoOK(pass'[p]) /\ Bystander(pass'[p]) /\ pass'[p].pc # "insert"
    BY <1>2, <2>1, <2>4, <2>5, TodoUsed DEF TodoOK, Bystander
  <2>7. PassOK(pass[p])'
    BY <1>1, <1>3, <2>4, <2>5 DEF PassOK
  <2>8. QED BY <1>3, <1>4, <2>5, <2>6, <2>7, ReadStep
<1>7. QED BY <1>5, <1>6 DEF Prepare

LEMMA PumpReadKeeps ==
    ASSUME TypeOK, DispatchInv, NEW p \in Pass, PumpRead(p)
    PROVE  TypeOK' /\ DispatchInv'
<1> DEFINE unpushed == bell \ pushed
           next == [Idle EXCEPT !.pc = "push", !.todo = unpushed, !.back = "unreached"]
<1>1. unpushed \in SUBSET Row /\ \A m \in unpushed : log[m].status # "none"
  BY DEF TypeOK, DispatchInv, UnusedInv
<1>2. next \in PassType /\ next.pc = "push" /\ next.todo = unpushed
  BY <1>1, IdleTyped DEF Idle, PassType, Steps
<1>3. Step(p, next) /\ log' = log /\ UNCHANGED aside /\ UNCHANGED clock
  BY DEF PumpRead
<1> HIDE DEF next, unpushed
<1>4. Only(p) /\ pass'[p] = next /\ pass' \in [Pass -> PassType]
  BY <1>2, <1>3, StepShape, StepTyped
<1>5. TodoOK(pass'[p]) /\ pass'[p].pc = "push"
  BY <1>1, <1>2, <1>4 DEF TodoOK
<1>6. due' \subseteq Row /\ overdue' \subseteq Row /\ readers' \subseteq Pass
  BY <1>3 DEF clock, TypeOK
<1>7. QED BY <1>3, <1>4, <1>5, <1>6, OffRow, ReadStep

LEMMA PumpMarkKeeps ==
    ASSUME TypeOK, DispatchInv, NEW p \in Pass, PumpMark(p)
    PROVE  TypeOK' /\ DispatchInv'
<1>1. PICK unreached \in SUBSET pass[p].todo :
         Step(p, [Idle EXCEPT !.pc = "unreached", !.back = "unreached", !.todo = unreached])
  BY DEF PumpMark
<1> DEFINE next == [Idle EXCEPT !.pc = "unreached", !.back = "unreached", !.todo = unreached]
<1>2. pass[p].todo \subseteq Row /\ TodoOK(pass[p])
  BY TodoUsed DEF TypeOK, PassType, DispatchInv
<1>3. next \in PassType /\ next.pc = "unreached" /\ next.todo = unreached
  BY <1>2, IdleTyped DEF Idle, PassType, Steps
<1> HIDE DEF next
<1>4. Only(p) /\ pass'[p] = next /\ pass' \in [Pass -> PassType]
  BY <1>1, <1>3, StepShape, StepTyped DEF next
<1>5. TodoOK(pass'[p]) /\ pass'[p].pc = "unreached"
  BY <1>2, <1>3, <1>4 DEF TodoOK
<1>6. TypeOK'
  BY <1>2, <1>4 DEF PumpMark, TypeOK, clock
<1>7. log' = log /\ Uncounted /\ UnusedKept
  BY DEF PumpMark, Uncounted, UnusedKept
<1>8. QED BY <1>4, <1>5, <1>6, <1>7, OffRow, SameLog, BystanderStep

LEMMA PumpFallbackKeeps ==
    ASSUME TypeOK, DispatchInv, NEW p \in Pass, PumpFallback(p)
    PROVE  TypeOK' /\ DispatchInv'
<1>1. log' = log /\ UNCHANGED aside /\ UNCHANGED clock
  BY DEF PumpFallback
<1>2. due' = due /\ overdue' = overdue /\ readers' = readers
  BY <1>1 DEF clock
<1>3. CASE Step(p, Idle)
  BY <1>1, <1>2, <1>3, IdleKeeps
<1>4. ASSUME NEW m \in pass[p].todo,
             Step(p, [Idle EXCEPT !.pc = "fallback", !.back = "unreached", !.row = m,
                                  !.todo = pass[p].todo \ {m}])
      PROVE  TypeOK' /\ DispatchInv'
  <2> DEFINE next == [Idle EXCEPT !.pc = "fallback", !.back = "unreached", !.row = m,
                                  !.todo = pass[p].todo \ {m}]
  <2>1. pass[p].todo \subseteq Row /\ TodoOK(pass[p]) /\ m \in Row
    BY TodoUsed DEF TypeOK, PassType, DispatchInv
  <2>2. next \in PassType /\ next.pc = "fallback" /\ next.todo = pass[p].todo \ {m} /\ next.row = m
    BY <2>1, IdleTyped DEF Idle, PassType, Steps
  <2> HIDE DEF next
  <2>3. Only(p) /\ pass'[p] = next /\ pass' \in [Pass -> PassType]
    BY <1>4, <2>2, StepShape, StepTyped DEF next
  <2>4. TodoOK(pass'[p]) /\ Bystander(pass'[p]) /\ pass'[p].pc # "insert"
    BY <2>1, <2>2, <2>3 DEF TodoOK, Bystander
  <2>5. log[m].status # "none"
    BY <2>1 DEF TodoOK
  <2>6. PassOK(pass[p])'
    BY <1>1, <2>1, <2>2, <2>3, <2>5 DEF PassOK
  <2>7. due' \subseteq Row /\ overdue' \subseteq Row /\ readers' \subseteq Pass
    BY <1>2 DEF TypeOK
  <2>8. QED BY <1>1, <2>3, <2>4, <2>6, <2>7, ReadStep
<1>5. QED BY <1>3, <1>4 DEF PumpFallback

-----------------------------------------------------------------------------
(***************************************************************************)
(* Steps that write a row and send, charge or requeue nothing.             *)
(***************************************************************************)
LEMMA WriteStep ==
    ASSUME TypeOK, DispatchInv, NEW p \in Pass, Only(p), pass' \in [Pass -> PassType],
           Kept, StillWaits, UNCHANGED aside,
           /\ log' \in [Row -> RowType]
           /\ due' \subseteq Row /\ overdue' \subseteq Row /\ readers' \subseteq Pass,
           PassOK(pass[p])', TodoOK(pass'[p]), Bystander(pass'[p]), pass'[p].pc # "insert"
    PROVE  TypeOK' /\ DispatchInv'
<1>1. TypeOK'
  BY DEF TypeOK, aside
<1>2. QED BY <1>1, SameBooks, BystanderStep

LEMMA SettleKeeps ==
    ASSUME TypeOK, DispatchInv, NEW p \in Pass, NEW m \in Row, SettleStaleSend(p, m)
    PROVE  TypeOK' /\ DispatchInv'
<1> USE DEF DispatchInv
<1>1. PICK me \in PassType : me = pass[p]
  BY DEF TypeOK
<1>2. PICK next \in PassType : next = [me EXCEPT !.todo = me.todo \ {m}]
  BY DEF PassType
<1>3. next.pc = me.pc /\ next.todo = me.todo \ {m} /\ me.pc = "settle"
  BY <1>1, <1>2 DEF PassType, SettleStaleSend, At
<1>4. Step(p, next)
  BY <1>1, <1>2 DEF SettleStaleSend
<1>5. Only(p) /\ pass'[p] = next /\ pass' \in [Pass -> PassType]
  BY <1>4, StepShape, StepTyped
<1>6. TodoOK(pass'[p]) /\ pass'[p].pc = "settle"
  BY <1>1, <1>3, <1>5, TodoUsed DEF TodoOK
<1>7. UNCHANGED aside
  BY DEF SettleStaleSend
<1>8. CASE log[m].status = "sending"
  <2>1. WriteRow(m, [log[m] EXCEPT !.status = "failed"])
    BY <1>8 DEF SettleStaleSend
  <2>2. "failed" \in Status \ {"none"} /\ log[m].status # "none"
    BY <1>8 DEF Status
  <2>3. /\ Kept /\ StillWaits /\ log' \in [Row -> RowType]
        /\ due' \subseteq Row /\ overdue' \subseteq Row /\ readers' \subseteq Pass
    BY <2>1, <2>2, StatusShape
  <2>4. QED BY <1>5, <1>6, <1>7, <2>3, OffRow, WriteStep
<1>9. CASE log[m].status # "sending"
  <2>1. log' = log /\ due' \subseteq Row /\ overdue' \subseteq Row /\ readers' \subseteq Pass
    BY <1>9 DEF SettleStaleSend, clock, TypeOK
  <2>2. QED BY <1>5, <1>6, <1>7, <2>1, OffRow, ReadStep
<1>10. QED BY <1>8, <1>9

LEMMA SuppressKeeps ==
    ASSUME TypeOK, DispatchInv, NEW p \in Pass, Suppress(p)
    PROVE  TypeOK' /\ DispatchInv'
<1> USE DEF DispatchInv
<1>1. PICK m \in Row : m = pass[p].row /\ log[m].status # "none"
  BY RowInHand DEF Suppress, At, OnARow, Steps
<1>2. WriteRow(m, [log[m] EXCEPT !.status = "suppressed"]) /\ Resume(p) /\ UNCHANGED aside
  BY <1>1 DEF Suppress
<1>3. "suppressed" \in Status \ {"none"}
  BY DEF Status
<1>4. /\ Kept /\ StillWaits /\ log' \in [Row -> RowType]
      /\ due' \subseteq Row /\ overdue' \subseteq Row /\ readers' \subseteq Pass
  BY <1>1, <1>2, <1>3, StatusShape
<1>5. QED BY <1>2, <1>4, ResumeShape, WriteStep

LEMMA UnknownKeeps ==
    ASSUME TypeOK, DispatchInv, NEW p \in Pass, OutcomeUnknown(p)
    PROVE  TypeOK' /\ DispatchInv'
<1> USE DEF DispatchInv
<1>1. pass[p].pc = "result" /\ Outcome(p, "failed") /\ Resume(p) /\ UNCHANGED aside
  BY DEF OutcomeUnknown, At
<1>2. "failed" \in Status \ {"none"}
  BY DEF Status
<1>3. /\ Kept /\ StillWaits /\ log' \in [Row -> RowType]
      /\ due' \subseteq Row /\ overdue' \subseteq Row /\ readers' \subseteq Pass
  BY <1>1, <1>2, OutcomeShape
<1>4. QED BY <1>1, <1>3, ResumeShape, WriteStep

(* To a place on the same row that neither sends nor pays. *)
LEMMA OnRowShape ==
    ASSUME TypeOK, PassInv, UnusedInv, Kept, NEW p \in Pass, pass[p].pc \in OnARow,
           NEW pc \in {"bell", "fallback"}, Goto(p, pc)
    PROVE  /\ Only(p) /\ pass' \in [Pass -> PassType]
           /\ PassOK(pass[p])' /\ Bystander(pass'[p]) /\ pass'[p].pc # "insert"
           /\ TodoOK(pass'[p])
<1>1. pc \in Steps
  BY DEF Steps
<1>2. /\ Only(p) /\ pass'[p].pc = pc /\ pass'[p].row = pass[p].row
      /\ pass'[p].todo = pass[p].todo /\ pass' \in [Pass -> PassType]
  BY <1>1, GotoShape, GotoTyped
<1>3. PICK m \in Row : m = pass[p].row /\ log[m].status # "none"
  BY RowInHand
<1>4. log'[m].status # "none"
  BY <1>3 DEF Kept, SameRow, SameUse
<1>5. PassOK(pass[p])'
  BY <1>2, <1>3, <1>4 DEF PassOK
<1>6. Bystander(pass'[p]) /\ pass'[p].pc # "insert"
  BY <1>2 DEF Bystander
<1>7. TodoOK(pass'[p])
  BY <1>2, TodoUsed DEF TodoOK
<1>8. QED BY <1>2, <1>5, <1>6, <1>7

LEMMA GiveUpKeeps ==
    ASSUME TypeOK, DispatchInv, NEW p \in Pass, GiveUp(p)
    PROVE  TypeOK' /\ DispatchInv'
<1> USE DEF DispatchInv
<1>1. pass[p].pc = "result" /\ Outcome(p, "failed") /\ UNCHANGED aside
  BY DEF GiveUp, At
<1>2. "failed" \in Status \ {"none"} /\ pass[p].pc \in OnARow
  BY <1>1 DEF Status, OnARow, Steps
<1>3. /\ Kept /\ StillWaits /\ log' \in [Row -> RowType]
      /\ due' \subseteq Row /\ overdue' \subseteq Row /\ readers' \subseteq Pass
  BY <1>1, <1>2, OutcomeShape
<1>4. CASE Goto(p, "fallback")
  BY <1>1, <1>2, <1>3, <1>4, OnRowShape, WriteStep
<1>5. CASE Resume(p)
  BY <1>1, <1>3, <1>5, ResumeShape, WriteStep
<1>6. QED BY <1>4, <1>5 DEF GiveUp

LEMMA ReportFailedKeeps ==
    ASSUME TypeOK, DispatchInv, NEW p \in Pass, NEW m \in Row, ReportFailed(p, m)
    PROVE  TypeOK' /\ DispatchInv'
<1> DEFINE next == [Idle EXCEPT !.pc = "fallback", !.row = m]
<1>1. next \in PassType /\ next.pc = "fallback" /\ next.row = m /\ next.todo = {}
  BY IdleTyped DEF Idle, PassType, Steps
<1>2. Step(p, next) /\ UNCHANGED aside /\ WriteRow(m, [log[m] EXCEPT !.status = "failed"])
      /\ log[m].status # "none"
  BY DEF ReportFailed
<1> HIDE DEF next
<1>3. "failed" \in Status \ {"none"}
  BY DEF Status
<1>4. /\ Kept /\ StillWaits /\ log' \in [Row -> RowType]
      /\ due' \subseteq Row /\ overdue' \subseteq Row /\ readers' \subseteq Pass
  BY <1>2, <1>3, StatusShape
<1>5. Only(p) /\ pass'[p] = next /\ pass' \in [Pass -> PassType]
  BY <1>1, <1>2, StepShape, StepTyped
<1>6. TodoOK(pass'[p]) /\ Bystander(pass'[p]) /\ pass'[p].pc # "insert"
  BY <1>1, <1>5 DEF TodoOK, Bystander
<1>7. PassOK(pass[p])'
  BY <1>1, <1>2, <1>4, <1>5 DEF PassOK, Kept, SameRow, SameUse
<1>8. QED BY <1>2, <1>4, <1>5, <1>6, <1>7, WriteStep

LEMMA RingBellKeeps ==
    ASSUME TypeOK, DispatchInv, NEW p \in Pass, RingBell(p)
    PROVE  TypeOK' /\ DispatchInv'
<1> USE DEF DispatchInv
<1>1. PICK m \in Row : m = pass[p].row /\ log[m].status # "none" /\ pass[p].pc \in OnARow
  BY RowInHand DEF RingBell, At, OnARow, Steps
<1>2. log' = log /\ Uncounted /\ UnusedKept /\ bell' \subseteq Row
  BY <1>1 DEF RingBell, Uncounted, UnusedKept, TypeOK
<1>3. /\ Only(p) /\ pass' \in [Pass -> PassType]
      /\ PassOK(pass[p])' /\ Bystander(pass'[p]) /\ pass'[p].pc # "insert"
      /\ TodoOK(pass'[p])
  <2>1. CASE Resume(p)
    BY <2>1, ResumeShape
  <2>2. CASE Goto(p, "fallback")
    BY <1>1, <1>2, <2>2, SameLog, OnRowShape
  <2>3. QED BY <2>1, <2>2 DEF RingBell
<1>4. TypeOK'
  BY <1>2, <1>3 DEF RingBell, TypeOK, clock
<1>5. QED BY <1>2, <1>3, <1>4, SameLog, BystanderStep

-----------------------------------------------------------------------------
(***************************************************************************)
(* The steps that move a row's one permission to be sent, or pay for it.   *)
(***************************************************************************)
Allowed(m) ==
    log[m].channel = "phone" =>
        handed[m] + Waiting(m) + Cardinality(Senders(m)) <= 1 + revived[m]

Covered(m) ==
    log[m].channel = "phone" =>
        charged[m] + Segments * Cardinality(Payers(m)) <= Segments * handed[m]

(* The numbers of one row, before and after a step of p. *)
LEMMA SendNumbers ==
    ASSUME TypeOK, SendInv, NEW p \in Pass, Only(p), NEW m \in Row, log[m].channel = "phone"
    PROVE  /\ handed[m] \in Nat /\ revived[m] \in Nat
           /\ Waiting(m) = (IF Waits(m) THEN 1 ELSE 0)
           /\ Waiting(m)' = (IF Waits(m)' THEN 1 ELSE 0)
           /\ handed[m] + Waiting(m) + Cardinality(Senders(m)) <= 1 + revived[m]
           /\ Cardinality(Senders(m)) \in Nat /\ Cardinality(Senders(m)') \in Nat
           /\ Cardinality(Senders(m)') <= Cardinality(Senders(m)) + 1
           /\ ~Sender(p, m)' \/ Sender(p, m) => Cardinality(Senders(m)') <= Cardinality(Senders(m))
           /\ ~Sender(p, m)' /\ Sender(p, m) => Cardinality(Senders(m)') + 1 <= Cardinality(Senders(m))
<1>1. handed[m] \in Nat /\ revived[m] \in Nat
  BY DEF TypeOK
<1>2. handed[m] + Waiting(m) + Cardinality(Senders(m)) <= 1 + revived[m]
  BY DEF SendInv
<1>3. Waiting(m) = (IF Waits(m) THEN 1 ELSE 0) /\ Waiting(m)' = (IF Waits(m)' THEN 1 ELSE 0)
  BY DEF Waiting, Waits
<1>4. QED BY <1>1, <1>2, <1>3, SendersCount

(* A row the step does not touch. *)
LEMMA SendOther ==
    ASSUME TypeOK, SendInv, NEW p \in Pass, Only(p), NEW m \in Row, log'[m] = log[m],
           handed'[m] = handed[m], revived'[m] = revived[m], ~Sender(p, m)'
    PROVE  Allowed(m)'
<1>1. SUFFICES ASSUME log[m].channel = "phone"
               PROVE  handed'[m] + Waiting(m)' + Cardinality(Senders(m)') <= 1 + revived'[m]
  BY DEF Allowed
<1>2. Waiting(m)' = Waiting(m) /\ Waiting(m) \in 0 .. 1
  BY DEF Waiting
<1>3. QED BY <1>1, <1>2, SendNumbers

LEMMA MarkKeeps ==
    ASSUME TypeOK, DispatchInv, NEW p \in Pass, Mark(p)
    PROVE  TypeOK' /\ DispatchInv'
<1> USE DEF DispatchInv
<1>1. PICK m \in Row : m = pass[p].row /\ log[m].status # "none"
  BY RowInHand DEF Mark, At, OnARow, Steps
<1>2. UNCHANGED clock /\ UNCHANGED aside /\ ~pass[p].marked /\ TodoOK(pass[p])
  BY TodoUsed DEF Mark, At, PassInv, PassOK
<1>3. due' \subseteq Row /\ overdue' \subseteq Row /\ readers' \subseteq Pass
  BY <1>2 DEF clock, TypeOK
<1>4. CASE log[m].channel = "in_app"
  <2>1. Goto(p, "send") /\ log' = log /\ "send" \in Steps
    BY <1>1, <1>4 DEF Mark, Steps
  <2>2. /\ Only(p) /\ pass'[p].pc = "send" /\ pass'[p].row = m /\ pass'[p].todo = pass[p].todo
        /\ pass'[p].marked = pass[p].marked /\ pass' \in [Pass -> PassType]
    BY <1>1, <2>1, GotoShape, GotoTyped
  <2>3. TodoOK(pass'[p]) /\ Bystander(pass'[p]) /\ pass'[p].pc # "insert"
    BY <1>2, <2>1, <2>2 DEF TodoOK, Bystander
  <2>4. PassOK(pass[p])'
    BY <1>1, <1>4, <2>1, <2>2 DEF PassOK
  <2>5. QED BY <1>2, <1>3, <2>1, <2>2, <2>3, <2>4, ReadStep
<1>5. CASE log[m].channel # "in_app" /\ log[m].status # "queued"
  <2>1. Resume(p) /\ log' = log
    BY <1>1, <1>5 DEF Mark
  <2>2. QED BY <1>2, <1>3, <2>1, ResumeShape, ReadStep
<1>6. CASE log[m].channel # "in_app" /\ log[m].status = "queued"
  <2>1. log' = [log EXCEPT ![m].status = "sending"] /\ Step(p, ToSend(pass[p]))
    BY <1>1, <1>6 DEF Mark
  <2>2. PICK row \in RowType : row = [log[m] EXCEPT !.status = "sending"]
    BY StatusTyped DEF Status
  <2>3. row.status = "sending" /\ row.channel = log[m].channel /\ row.ladder = log[m].ladder
        /\ row.fallback_of = log[m].fallback_of
    BY <2>2 DEF TypeOK, RowType
  <2>4. log' \in [Row -> RowType] /\ log'[m] = row /\ \A n \in Row : n # m => log'[n] = log[n]
    BY <2>1, <2>2 DEF TypeOK
  <2>5. Kept
    BY <1>1, <2>3, <2>4 DEF Kept, SameRow, SameUse
  <2>6. PICK me \in PassType : me = pass[p]
    BY DEF TypeOK
  <2>7. PICK next \in PassType : next = ToSend(me)
    BY ToSendPass
  <2>8. next.pc = "send" /\ next.marked /\ next.row = m /\ next.todo = me.todo
    BY <1>1, <2>6, <2>7, ToSendPass
  <2>9. Only(p) /\ pass'[p] = next /\ pass' \in [Pass -> PassType]
    BY <2>1, <2>6, <2>7, StepShape, StepTyped
  <2>10. TodoOK(pass'[p])
    BY <1>2, <2>6, <2>8, <2>9 DEF TodoOK
  <2>11. PassOK(pass[p])'
    BY <2>3, <2>4, <2>8, <2>9 DEF PassOK
  <2>12. pass'[p].pc # "insert" /\ \A n \in Row : ~Payer(p, n)'
    BY <2>8, <2>9 DEF Payer
  <2>13. Uncounted /\ UnusedKept
    BY <1>2, SameBooks
  <2>14. PassInv' /\ UnusedInv' /\ LadderInv'
    BY <2>5, <2>9, <2>10, <2>11, <2>12, <2>13, KeptIsUse, PassFollows, UnusedFollows, LadderFollows
  <2>15. ChargeInv'
    BY <2>5, <2>9, <2>12, <2>13, KeptIsUse, ChargeFollows DEF Uncounted
  <2>16. SendInv'
    <3>1. ASSUME NEW n \in Row, n # m PROVE Allowed(n)'
      <4>1. ~Sender(p, n)'
        BY <2>8, <2>9, <3>1 DEF Sender
      <4>2. QED BY <2>4, <2>9, <2>13, <3>1, <4>1, SendOther DEF Uncounted
    <3>2. Allowed(m)'
      <4>1. SUFFICES ASSUME log[m].channel = "phone"
                     PROVE  handed'[m] + Waiting(m)' + Cardinality(Senders(m)') <= 1 + revived'[m]
        BY <2>3, <2>4 DEF Allowed
      <4>2. Waits(m) /\ ~Waits(m)'
        BY <1>6, <2>3, <2>4 DEF Waits
      <4>3. handed'[m] = handed[m] /\ revived'[m] = revived[m]
        BY <2>13 DEF Uncounted
      <4>4. QED BY <2>9, <4>1, <4>2, <4>3, SendNumbers
    <3>3. QED BY <3>1, <3>2 DEF SendInv, Allowed
  <2>17. TypeOK'
    BY <1>2, <1>3, <2>4, <2>9 DEF TypeOK, aside
  <2>18. QED BY <2>14, <2>15, <2>16, <2>17
<1>7. QED BY <1>4, <1>5, <1>6

LEMMA PayNumbers ==
    ASSUME TypeOK, ChargeInv, NEW p \in Pass, Only(p), NEW m \in Row, log[m].channel = "phone"
    PROVE  \E c, h, k, b, a \in Nat :
              /\ c = charged[m] /\ h = handed[m] /\ k = Segments * handed[m]
              /\ b = Segments * Cardinality(Payers(m)) /\ a = Segments * Cardinality(Payers(m)')
              /\ c + b <= k /\ a <= b + Segments
              /\ Segments * (handed[m] + 1) = k + Segments
              /\ ~Payer(p, m)' \/ Payer(p, m) => a <= b
              /\ ~Payer(p, m)' /\ Payer(p, m) => a + Segments <= b
<1>1. handed[m] \in Nat /\ charged[m] \in Nat /\ Segments \in Nat
  BY NumberAssumption DEF TypeOK
<1>2. charged[m] + Segments * Cardinality(Payers(m)) <= Segments * handed[m]
  BY DEF ChargeInv
<1>3. PICK x, y \in Nat : x = Cardinality(Payers(m)) /\ y = Cardinality(Payers(m)')
  BY PayersCount
<1>4. /\ y <= x + 1
      /\ ~Payer(p, m)' \/ Payer(p, m) => y <= x
      /\ ~Payer(p, m)' /\ Payer(p, m) => y + 1 <= x
  BY <1>3, PayersCount
<1>5. x + 1 \in Nat
  OBVIOUS
<1>6. Segments * y <= Segments * (x + 1) /\ Segments * (x + 1) = Segments * x + Segments
      /\ Segments * (x + 1) \in Nat
  BY <1>4, <1>5, Products
<1>7. Segments * x \in Nat /\ Segments * y \in Nat /\ Segments * handed[m] \in Nat
      /\ Segments * (handed[m] + 1) = Segments * handed[m] + Segments
  BY <1>1, Products
<1>8. (y <= x => Segments * y <= Segments * x)
      /\ (y + 1 <= x => Segments * y + Segments <= Segments * x)
  BY Products
<1>9. PICK a, b, k \in Nat : a = Segments * y /\ b = Segments * x /\ k = Segments * handed[m]
  BY <1>7
<1>10. a <= b + Segments
  BY <1>1, <1>6, <1>9
<1>11. charged[m] + b <= k
  BY <1>2, <1>3, <1>9
<1>12. Segments * (handed[m] + 1) = k + Segments
  BY <1>7, <1>9
<1>13. (~Payer(p, m)' \/ Payer(p, m) => a <= b)
       /\ (~Payer(p, m)' /\ Payer(p, m) => a + Segments <= b)
  BY <1>4, <1>8, <1>9
<1>14. a = Segments * Cardinality(Payers(m)') /\ b = Segments * Cardinality(Payers(m))
  BY <1>3, <1>9
<1>15. QED BY <1>1, <1>9, <1>10, <1>11, <1>12, <1>13, <1>14

LEMMA ChargeOther ==
    ASSUME TypeOK, ChargeInv, NEW p \in Pass, Only(p), NEW m \in Row, log'[m].channel = log[m].channel,
           handed'[m] = handed[m], charged'[m] = charged[m], ~Payer(p, m)'
    PROVE  Covered(m)'
<1>1. SUFFICES ASSUME log[m].channel = "phone"
               PROVE  charged'[m] + Segments * Cardinality(Payers(m)') <= Segments * handed'[m]
  BY DEF Covered
<1>2. PICK c, h, k, b, a \in Nat :
              /\ c = charged[m] /\ h = handed[m] /\ k = Segments * handed[m]
              /\ b = Segments * Cardinality(Payers(m)) /\ a = Segments * Cardinality(Payers(m)')
              /\ c + b <= k /\ a <= b
  BY <1>1, PayNumbers
<1>3. c + a <= k
  BY <1>2
<1>4. QED BY <1>2, <1>3

LEMMA SendKeeps ==
    ASSUME TypeOK, DispatchInv, NEW p \in Pass, Send(p)
    PROVE  TypeOK' /\ DispatchInv'
<1> USE DEF DispatchInv
<1>1. PICK m \in Row : m = pass[p].row /\ log[m].status # "none"
  BY RowInHand DEF Send, At, OnARow, Steps
<1>2. PICK me \in PassType : me = pass[p]
  BY DEF TypeOK
<1>3. PassOK(me) /\ me.pc = "send" /\ me.row = m /\ TodoOK(me)
  BY <1>1, <1>2, TodoUsed DEF Send, At, PassInv
<1>4. log[m].channel = "phone" => Sender(p, m)
  BY <1>2, <1>3 DEF PassOK, Sender
<1> DEFINE taken == [handed EXCEPT ![m] = IF log[m].channel \in RepeatSafe THEN 1 ELSE @ + 1]
<1>5. PICK error \in Errors :
         /\ Step(p, ToResult(pass[p], error))
         /\ \/ error \in {"none", "ambiguous"} /\ handed' = taken
            \/ error # "none" /\ handed' = handed
  BY <1>1 DEF Send, Errors
<1>6. log' = log /\ UNCHANGED clock /\ charged' = charged /\ revived' = revived /\ bell' = bell
      /\ pushed' = pushed /\ balance' = balance
  BY DEF Send
<1>7. PICK next \in PassType : next = ToResult(me, error)
  BY ToResultPass
<1>8. next.pc = "result" /\ next.error = error /\ next.row = m /\ next.todo = me.todo
      /\ next.marked = me.marked
  BY <1>3, <1>7, ToResultPass
<1>9. Only(p) /\ pass'[p] = next /\ pass' \in [Pass -> PassType]
  BY <1>2, <1>5, <1>7, StepShape, StepTyped
<1>10. taken \in [Row -> Nat] /\ (\A n \in Row : n # m => taken[n] = handed[n])
       /\ (log[m].channel = "phone" => taken[m] = handed[m] + 1)
  BY DEF TypeOK, RepeatSafe
<1> HIDE DEF taken
<1>11. handed' \in [Row -> Nat] /\ \A n \in Row : n # m => handed'[n] = handed[n]
  BY <1>5, <1>10 DEF TypeOK
<1>12. UnusedKept
  BY <1>1, <1>6, <1>11 DEF UnusedKept
<1>13. TodoOK(pass'[p]) /\ pass'[p].pc # "insert"
  BY <1>3, <1>6, <1>8, <1>9 DEF TodoOK
<1>14. PassOK(pass[p])'
  BY <1>1, <1>6, <1>8, <1>9 DEF PassOK
<1>15. PassInv' /\ UnusedInv' /\ LadderInv'
  BY <1>6, <1>9, <1>12, <1>13, <1>14, SameLog, KeptIsUse, PassFollows, UnusedFollows, LadderFollows
<1>16. \A n \in Row : n # m => ~Sender(p, n)' /\ ~Payer(p, n)'
  BY <1>8, <1>9 DEF Sender, Payer
<1>17. Waits(m)' = Waits(m)
  BY <1>6 DEF Waits
<1>18. SendInv'
  <2>1. ASSUME NEW n \in Row, n # m PROVE Allowed(n)'
    BY <1>6, <1>9, <1>11, <1>16, <2>1, SendOther
  <2>2. Allowed(m)'
    <3>1. SUFFICES ASSUME log[m].channel = "phone"
                   PROVE  handed'[m] + Waiting(m)' + Cardinality(Senders(m)') <= 1 + revived'[m]
      BY <1>6 DEF Allowed
    <3>2. CASE error \in {"none", "ambiguous"} /\ handed' = taken
      <4>1. ~Sender(p, m)' /\ handed'[m] = handed[m] + 1
        BY <1>8, <1>9, <1>10, <3>1, <3>2 DEF Sender
      <4>2. QED BY <1>4, <1>6, <1>9, <1>17, <3>1, <4>1, SendNumbers
    <3>3. CASE handed' = handed
      BY <1>4, <1>6, <1>9, <1>17, <3>1, <3>3, SendNumbers
    <3>4. QED BY <1>5, <3>2, <3>3
  <2>3. QED BY <2>1, <2>2 DEF SendInv, Allowed
<1>19. ChargeInv'
  <2>1. ASSUME NEW n \in Row, n # m PROVE Covered(n)'
    BY <1>6, <1>9, <1>11, <1>16, <2>1, ChargeOther
  <2>2. Covered(m)'
    <3>1. CASE error # "none" /\ handed' = handed
      <4>1. ~Payer(p, m)'
        BY <1>8, <1>9, <3>1 DEF Payer
      <4>2. QED BY <1>6, <1>9, <3>1, <4>1, ChargeOther
    <3>2. CASE handed' = taken
      <4>1. SUFFICES ASSUME log[m].channel = "phone"
                     PROVE  charged'[m] + Segments * Cardinality(Payers(m)') <= Segments * handed'[m]
        BY <1>6 DEF Covered
      <4>2. PICK c, h, k, b, a \in Nat :
              /\ c = charged[m] /\ h = handed[m] /\ k = Segments * handed[m]
              /\ b = Segments * Cardinality(Payers(m)) /\ a = Segments * Cardinality(Payers(m)')
              /\ c + b <= k /\ a <= b + Segments
              /\ Segments * (handed[m] + 1) = k + Segments
        BY <1>9, <4>1, PayNumbers
      <4>3. handed'[m] = handed[m] + 1
        BY <1>10, <3>2, <4>1
      <4>4. c + a <= k + Segments
        BY <4>2, NumberAssumption
      <4>5. QED BY <1>6, <4>2, <4>3, <4>4
    <3>3. QED BY <1>5, <3>1, <3>2
  <2>3. QED BY <2>1, <2>2 DEF ChargeInv, Covered
<1>20. TypeOK'
  BY <1>6, <1>9, <1>11 DEF TypeOK, clock
<1>21. QED BY <1>15, <1>18, <1>19, <1>20

LEMMA RetryKeeps ==
    ASSUME TypeOK, DispatchInv, NEW p \in Pass, Retry(p)
    PROVE  TypeOK' /\ DispatchInv'
<1> USE DEF DispatchInv
<1>1. pass[p].pc = "result" /\ pass[p].pc \in OnARow
  BY DEF Retry, At, OnARow, Steps
<1>2. PICK m \in Row : m = pass[p].row /\ log[m].status # "none"
  BY <1>1, RowInHand
<1>3. Outcome(p, "queued") /\ Resume(p) /\ Refused(p) /\ "queued" \in Status \ {"none"}
  BY DEF Retry, Status
<1>4. /\ Kept /\ log'[m].status = "queued" /\ \A n \in Row : n # m => log'[n] = log[n]
      /\ log' \in [Row -> RowType]
      /\ due' \subseteq Row /\ overdue' \subseteq Row /\ readers' \subseteq Pass
  BY <1>1, <1>2, <1>3, OutcomeShape
<1>5. /\ Only(p) /\ pass' \in [Pass -> PassType] /\ TodoOK(pass'[p])
      /\ PassOK(pass[p])' /\ Bystander(pass'[p]) /\ pass'[p].pc # "insert"
  BY <1>3, ResumeShape
<1>6. handed' = handed /\ charged' = charged /\ bell' = bell /\ pushed' = pushed
      /\ balance' = balance
  BY DEF Retry
<1>7. /\ revived' \in [Row -> Nat]
      /\ \A n \in Row : n # m => revived'[n] = revived[n]
      /\ Revives(p, m) => revived'[m] = revived[m] + 1
      /\ ~Revives(p, m) => revived'[m] = revived[m]
  BY <1>2 DEF Retry, TypeOK
<1>8. \A n \in Row : ~Sender(p, n)' /\ ~Payer(p, n)'
  BY <1>5 DEF Bystander, Sender, Payer
<1>9. UnusedKept
  BY <1>6 DEF UnusedKept
<1>10. PassInv' /\ UnusedInv' /\ LadderInv'
  BY <1>4, <1>5, <1>9, KeptIsUse, PassFollows, UnusedFollows, LadderFollows
<1>11. ChargeInv'
  BY <1>4, <1>5, <1>6, <1>8, KeptIsUse, ChargeFollows
<1>12. SendInv'
  <2>1. ASSUME NEW n \in Row, n # m PROVE Allowed(n)'
    BY <1>4, <1>5, <1>6, <1>7, <1>8, <2>1, SendOther
  <2>2. Allowed(m)'
    <3>1. SUFFICES ASSUME log[m].channel = "phone"
                   PROVE  handed'[m] + Waiting(m)' + Cardinality(Senders(m)') <= 1 + revived'[m]
      BY <1>4 DEF Allowed, Kept, SameRow, SameUse
    <3>2. Waits(m)' /\ handed'[m] = handed[m]
      BY <1>4, <1>6 DEF Waits
    <3>3. pass[p].error \in {"permanent", "transient"}
      <4>1. pass[p].error \in Errors
        BY DEF TypeOK, PassType
      <4>2. QED BY <1>2, <1>3, <3>1, <4>1 DEF Refused, Unknown, Errors, RepeatSafe
    <3>4. CASE pass[p].marked
      <4>1. Sender(p, m) /\ revived'[m] = revived[m]
        BY <1>1, <1>2, <1>7, <3>3, <3>4 DEF Sender, Revives
      <4>2. QED BY <1>5, <1>8, <3>1, <3>2, <4>1, SendNumbers
    <3>5. CASE ~pass[p].marked /\ log[m].status = "queued"
      <4>1. Waits(m) /\ revived'[m] = revived[m]
        BY <1>7, <3>5 DEF Waits, Revives
      <4>2. QED BY <1>5, <1>8, <3>1, <3>2, <4>1, SendNumbers
    <3>6. CASE ~pass[p].marked /\ log[m].status # "queued"
      <4>1. revived'[m] = revived[m] + 1
        BY <1>7, <3>6 DEF Revives
      <4>2. QED BY <1>5, <1>8, <3>1, <3>2, <4>1, SendNumbers
    <3>7. QED BY <3>4, <3>5, <3>6
  <2>3. QED BY <2>1, <2>2 DEF SendInv, Allowed
<1>13. TypeOK'
  BY <1>4, <1>5, <1>6, <1>7 DEF TypeOK
<1>14. QED BY <1>10, <1>11, <1>12, <1>13

LEMMA SentKeeps ==
    ASSUME TypeOK, DispatchInv, NEW p \in Pass, Sent(p)
    PROVE  TypeOK' /\ DispatchInv'
<1> USE DEF DispatchInv
<1>1. pass[p].pc = "result" /\ pass[p].pc \in OnARow /\ pass[p].error = "none"
  BY DEF Sent, At, OnARow, Steps
<1>2. PICK m \in Row : m = pass[p].row /\ log[m].status # "none" /\ log[m] \in RowType
  BY <1>1, RowInHand
<1>3. Outcome(p, "sent") /\ UNCHANGED aside /\ "sent" \in Status \ {"none"}
  BY DEF Sent, Status
<1>4. /\ Kept /\ StillWaits /\ log' \in [Row -> RowType]
      /\ due' \subseteq Row /\ overdue' \subseteq Row /\ readers' \subseteq Pass
  BY <1>1, <1>3, OutcomeShape
<1>5. CASE log[m].channel = "in_app"
  <2>1. Goto(p, "bell")
    BY <1>2, <1>5 DEF Sent
  <2>2. QED BY <1>1, <1>3, <1>4, <2>1, OnRowShape, WriteStep
<1>6. CASE log[m].channel = "email"
  <2>1. Resume(p)
    BY <1>2, <1>6 DEF Sent
  <2>2. QED BY <1>3, <1>4, <2>1, ResumeShape, WriteStep
<1>7. CASE log[m].channel = "phone"
  <2>1. Goto(p, "spend") /\ "spend" \in Steps
    BY <1>2, <1>7 DEF Sent, Steps
  <2>2. /\ Only(p) /\ pass'[p].pc = "spend" /\ pass'[p].row = m /\ pass'[p].todo = pass[p].todo
        /\ pass' \in [Pass -> PassType]
    BY <1>2, <2>1, GotoShape, GotoTyped
  <2>3. TodoOK(pass'[p])
    <3>1. TodoOK(pass[p]) /\ pass[p].todo \subseteq Row
      BY TodoUsed DEF TypeOK, PassType
    <3>2. QED BY <1>4, <2>2, <3>1 DEF TodoOK, Kept, SameRow, SameUse
  <2>4. log'[m].channel = "phone" /\ log'[m].status # "none"
    BY <1>2, <1>4, <1>7 DEF Kept, SameRow, SameUse
  <2>5. PassOK(pass[p])'
    BY <2>2, <2>4 DEF PassOK
  <2>6. Uncounted /\ UnusedKept
    BY <1>3, SameBooks
  <2>7. \A n \in Row : ~Sender(p, n)' /\ (Payer(p, n)' => Payer(p, n))
    BY <1>1, <1>2, <2>2 DEF Sender, Payer
  <2>8. pass'[p].pc # "insert"
    BY <2>2
  <2>9. PassInv' /\ UnusedInv' /\ LadderInv'
    BY <1>4, <2>2, <2>3, <2>5, <2>6, <2>8, KeptIsUse, PassFollows, UnusedFollows, LadderFollows
  <2>10. SendInv'
    BY <1>4, <2>2, <2>6, <2>7, KeptIsUse, SendFollows
  <2>11. ChargeInv'
    BY <1>4, <2>2, <2>6, <2>7, KeptIsUse, ChargeFollows DEF Uncounted
  <2>12. TypeOK'
    BY <1>3, <1>4, <2>2 DEF TypeOK, aside
  <2>13. QED BY <2>9, <2>10, <2>11, <2>12
<1>8. QED BY <1>2, <1>5, <1>6, <1>7 DEF RowType, Channel

LEMMA SpendKeeps ==
    ASSUME TypeOK, DispatchInv, NEW p \in Pass, SpendCredit(p)
    PROVE  TypeOK' /\ DispatchInv'
<1> USE DEF DispatchInv
<1>1. pass[p].pc = "spend" /\ pass[p].pc \in OnARow
  BY DEF SpendCredit, At, OnARow, Steps
<1>2. PICK m \in Row : m = pass[p].row /\ log[m].status # "none"
  BY <1>1, RowInHand
<1>3. PICK n \in Nat : n = IF balance < Segments THEN balance ELSE Segments
  BY NumberAssumption DEF TypeOK
<1>4. n <= Segments /\ n <= balance
  BY <1>3, NumberAssumption DEF TypeOK
<1>5. balance' = balance - n /\ charged' = [charged EXCEPT ![m] = charged[m] + n]
  BY <1>2, <1>3 DEF SpendCredit
<1>6. log' = log /\ UNCHANGED clock /\ bell' = bell /\ pushed' = pushed /\ handed' = handed
      /\ revived' = revived /\ Resume(p)
  BY DEF SpendCredit
<1>7. /\ Only(p) /\ pass' \in [Pass -> PassType] /\ TodoOK(pass'[p])
      /\ PassOK(pass[p])' /\ Bystander(pass'[p]) /\ pass'[p].pc # "insert"
  BY <1>6, ResumeShape
<1>8. /\ charged' \in [Row -> Nat] /\ charged'[m] = charged[m] + n
      /\ \A r \in Row : r # m => charged'[r] = charged[r]
  BY <1>5 DEF TypeOK
<1>9. \A r \in Row : ~Sender(p, r)' /\ ~Payer(p, r)'
  BY <1>7 DEF Bystander, Sender, Payer
<1>10. UnusedKept
  BY <1>2, <1>6, <1>8 DEF UnusedKept
<1>11. PassInv' /\ UnusedInv' /\ LadderInv'
  BY <1>6, <1>7, <1>10, SameLog, KeptIsUse, PassFollows, UnusedFollows, LadderFollows
<1>12. SendInv'
  <2>1. ASSUME NEW r \in Row PROVE Allowed(r)'
    BY <1>6, <1>7, <1>9, <2>1, SendOther
  <2>2. QED BY <2>1 DEF SendInv, Allowed
<1>13. ChargeInv'
  <2>1. ASSUME NEW r \in Row, r # m PROVE Covered(r)'
    BY <1>6, <1>7, <1>8, <1>9, <2>1, ChargeOther
  <2>2. Covered(m)'
    <3>1. SUFFICES ASSUME log[m].channel = "phone"
                   PROVE  charged'[m] + Segments * Cardinality(Payers(m)') <= Segments * handed'[m]
      BY <1>6 DEF Covered
    <3>2. Payer(p, m)
      BY <1>1, <1>2 DEF Payer
    <3>3. PICK c, h, k, b, a \in Nat :
              /\ c = charged[m] /\ h = handed[m] /\ k = Segments * handed[m]
              /\ b = Segments * Cardinality(Payers(m)) /\ a = Segments * Cardinality(Payers(m)')
              /\ c + b <= k /\ a + Segments <= b
      BY <1>7, <1>9, <3>1, <3>2, PayNumbers
    <3>4. c + n + a <= k
      BY <1>4, <3>3, NumberAssumption
    <3>5. QED BY <1>6, <1>8, <3>3, <3>4
  <2>3. QED BY <2>1, <2>2 DEF ChargeInv, Covered
<1>14. balance' \in Nat
  BY <1>4, <1>5 DEF TypeOK
<1>15. TypeOK'
  BY <1>6, <1>7, <1>8, <1>14 DEF TypeOK, clock
<1>16. QED BY <1>11, <1>12, <1>13, <1>15

-----------------------------------------------------------------------------
(***************************************************************************)
(* The ladder.                                                             *)
(***************************************************************************)
LEMMA ClaimLadderKeeps ==
    ASSUME TypeOK, DispatchInv, NEW p \in Pass, ClaimLadder(p)
    PROVE  TypeOK' /\ DispatchInv'
<1> USE DEF DispatchInv
<1>1. PICK m \in Row : m = pass[p].row /\ log[m].status # "none" /\ log[m] \in RowType
  BY RowInHand DEF ClaimLadder, At, OnARow, Steps
<1>2. UNCHANGED clock /\ UNCHANGED aside
  BY DEF ClaimLadder
<1>3. due' \subseteq Row /\ overdue' \subseteq Row /\ readers' \subseteq Pass
  BY <1>2 DEF clock, TypeOK
<1>4. CASE log[m].ladder = << >>
  <2>1. Resume(p) /\ log' = log
    BY <1>1, <1>4 DEF ClaimLadder
  <2>2. QED BY <1>2, <1>3, <2>1, ResumeShape, ReadStep
<1>5. CASE log[m].ladder # << >>
  <2>1. log' = [log EXCEPT ![m].ladder = << >>] /\ Step(p, ToInsert(pass[p], log[m].ladder))
    BY <1>1, <1>5 DEF ClaimLadder
  <2>2. PICK row \in RowType : row = [log[m] EXCEPT !.ladder = << >>]
    <3>1. << >> \in Seq(Channel)
      OBVIOUS
    <3>2. PICK none \in Seq(Channel) : none = << >>
      BY <3>1
    <3>3. [log[m] EXCEPT !.ladder = none] \in RowType
      BY <1>1 DEF RowType
    <3>4. QED BY <3>2, <3>3
  <2>3. row.status = log[m].status /\ row.channel = log[m].channel /\ row.ladder = << >>
        /\ row.fallback_of = log[m].fallback_of
    BY <1>1, <2>2 DEF RowType
  <2>4. log' \in [Row -> RowType] /\ log'[m] = row /\ \A n \in Row : n # m => log'[n] = log[n]
    BY <2>1, <2>2 DEF TypeOK
  <2>5. UseKept /\ StillWaits
    BY <2>3, <2>4 DEF UseKept, SameUse, StillWaits, Waits
  <2>6. PICK me \in PassType : me = pass[p]
    BY DEF TypeOK
  <2>7. PICK rungs \in Seq(Channel) : rungs = log[m].ladder
    BY <1>1 DEF RowType
  <2>8. PICK next \in PassType : next = ToInsert(me, rungs)
    BY ToInsertPass
  <2>9. next.pc = "insert" /\ next.row = m /\ next.todo = me.todo
    BY <1>1, <2>6, <2>8, ToInsertPass
  <2>10. Only(p) /\ pass'[p] = next /\ pass' \in [Pass -> PassType]
    BY <2>1, <2>6, <2>7, <2>8, StepShape, StepTyped
  <2>11. TodoOK(pass'[p])
    <3>1. TodoOK(me) /\ me.todo \subseteq Row
      BY <2>6, TodoUsed DEF PassType
    <3>2. QED BY <2>5, <2>9, <2>10, <3>1 DEF TodoOK, UseKept, SameUse
  <2>12. PassOK(pass[p])'
    BY <1>1, <2>3, <2>4, <2>9, <2>10 DEF PassOK
  <2>13. \A n \in Row : ~Sender(p, n)' /\ ~Payer(p, n)'
    BY <2>9, <2>10 DEF Sender, Payer
  <2>14. Uncounted /\ UnusedKept
    BY <1>2, SameBooks
  <2>15. PassInv' /\ UnusedInv'
    BY <2>5, <2>10, <2>11, <2>12, <2>14, PassFollows, UnusedFollows
  <2>16. SendInv'
    BY <2>5, <2>10, <2>13, <2>14, SendFollows
  <2>17. ChargeInv'
    BY <2>5, <2>10, <2>13, <2>14, ChargeFollows DEF Uncounted
  <2>18. LadderInv'
    <3>1. FallbackOnce'
      BY <2>5 DEF LadderInv, FallbackOnce, UseKept, SameUse
    <3>2. \A n \in Row : log[n].ladder = << >> => log'[n].ladder = << >>
      BY <2>3, <2>4
    <3>3. \A n \in Row : log'[n].fallback_of # NoRow => log'[log'[n].fallback_of].ladder = << >>
      <4>1. SUFFICES ASSUME NEW n \in Row, log'[n].fallback_of # NoRow
                     PROVE  log'[log'[n].fallback_of].ladder = << >>
        OBVIOUS
      <4>2. PICK x : x = log[n].fallback_of
        OBVIOUS
      <4>3. x \in Row /\ log[x].ladder = << >> /\ log'[n].fallback_of = x
        BY <2>5, <4>1, <4>2 DEF LadderInv, UseKept, SameUse, TypeOK, RowType
      <4>4. QED BY <3>2, <4>3
    <3>4. \A n \in Row : log'[n].fallback_of # m
      <4>1. m # NoRow
        BY RowAssumption
      <4>2. QED BY <1>5, <2>5, <4>1 DEF LadderInv, UseKept, SameUse
    <3>5. \A q \in Pass : q # p /\ pass[q].pc = "insert" => pass[q].row # m
      BY <1>5 DEF LadderInv
    <3>6. ASSUME NEW q \in Pass, pass'[q].pc = "insert"
          PROVE  /\ log'[pass'[q].row].ladder = << >>
                 /\ \A n \in Row : log'[n].fallback_of # pass'[q].row
                 /\ \A r \in Pass \ {q} : pass'[r].pc = "insert" => pass'[r].row # pass'[q].row
      <4>1. CASE q = p
        BY <2>3, <2>4, <2>9, <2>10, <3>4, <3>5, <4>1 DEF Only
      <4>2. CASE q # p
        <5>1. PICK n : n = pass[q].row /\ pass'[q] = pass[q]
          BY <2>10, <4>2 DEF Only
        <5>2. n \in Row /\ log[n].ladder = << >> /\ \A x \in Row : log[x].fallback_of # n
          BY <3>6, <5>1 DEF PassInv, PassOK, OnARow, Steps, LadderInv
        <5>3. log'[n].ladder = << >> /\ \A x \in Row : log'[x].fallback_of # n
          BY <2>5, <3>2, <5>2 DEF UseKept, SameUse
        <5>4. ASSUME NEW r \in Pass \ {q}, pass'[r].pc = "insert"
              PROVE  pass'[r].row # n
          <6>1. CASE r = p
            BY <2>9, <2>10, <3>5, <3>6, <4>2, <5>1, <6>1
          <6>2. CASE r # p
            <7>1. pass'[r] = pass[r]
              BY <2>10, <6>2 DEF Only
            <7>2. QED BY <3>6, <5>1, <5>4, <7>1 DEF LadderInv
          <6>3. QED BY <6>1, <6>2
        <5>5. QED BY <5>1, <5>3, <5>4
      <4>3. QED BY <4>1, <4>2
    <3>7. QED BY <3>1, <3>3, <3>6 DEF LadderInv
  <2>19. TypeOK'
    BY <1>2, <1>3, <2>4, <2>10 DEF TypeOK, aside
  <2>20. QED BY <2>15, <2>16, <2>17, <2>18, <2>19
<1>6. QED BY <1>4, <1>5

(* The INSERT of a row, by the office or by a pass that claimed a ladder. *)
LEMMA InsertStep ==
    ASSUME TypeOK, TypeOK', DispatchInv, Uncounted, bell' = bell,
           NEW m \in Row, log[m].status = "none", log'[m].status = "queued",
           NEW parent, log'[m].fallback_of = parent,
           \A n \in Row : n # m => log'[n] = log[n],
           \A q \in Pass : pass'[q] = pass[q] \/ Apart(q),
           \/ parent = NoRow
           \/ \E p \in Pass : pass[p].pc = "insert" /\ pass[p].row = parent /\ Apart(p)
    PROVE  DispatchInv'
<1> USE DEF DispatchInv
<1>1. \A q \in Pass : pass[q].pc \in OnARow => pass[q].row \in Row /\ pass[q].row # m
  BY DEF PassInv, PassOK
<1>2. \A q \in Pass : pass'[q].pc \in OnARow => pass'[q] = pass[q] /\ pass'[q].row # m
  BY <1>1 DEF Apart, OnARow, Steps
<1>3. \A q \in Pass : pass'[q].todo = pass[q].todo
  BY DEF Apart
<1>4. parent # NoRow => parent \in Row /\ parent # m /\ log[parent].status # "none"
                        /\ log[parent].ladder = << >>
                        /\ \A n \in Row : log[n].fallback_of # parent
  <2>1. SUFFICES ASSUME parent # NoRow
                 PROVE  /\ parent \in Row /\ parent # m /\ log[parent].status # "none"
                        /\ log[parent].ladder = << >>
                        /\ \A n \in Row : log[n].fallback_of # parent
    OBVIOUS
  <2>2. PICK p \in Pass : pass[p].pc = "insert" /\ pass[p].row = parent
    BY <2>1
  <2>3. pass[p].pc \in OnARow
    BY <2>2 DEF OnARow, Steps
  <2>4. parent \in Row /\ log[parent].status # "none"
    BY <2>2, <2>3 DEF PassInv, PassOK
  <2>5. QED BY <2>2, <2>4 DEF LadderInv
<1>5. PassInv'
  <2>1. SUFFICES ASSUME NEW q \in Pass PROVE PassOK(pass[q])'
    BY DEF PassInv
  <2>2. CASE pass'[q].pc \notin OnARow
    BY <2>2 DEF PassOK, OnARow, Steps
  <2>3. CASE pass'[q].pc \in OnARow
    <3>1. PICK me \in PassType : me = pass[q]
      BY DEF TypeOK
    <3>2. pass'[q] = me /\ me.row # m /\ PassOK(me) /\ me.pc \in OnARow
      BY <1>2, <2>3, <3>1 DEF PassInv
    <3>3. me.row \in Row /\ log'[me.row] = log[me.row]
      BY <3>2 DEF PassOK
    <3>4. PassOK(me)'
      BY <3>2, <3>3 DEF PassOK
    <3>5. QED BY <3>2, <3>4
  <2>4. QED BY <2>2, <2>3
<1>6. UnusedInv'
  <2>1. SUFFICES ASSUME NEW n \in Row, log'[n].status = "none"
                 PROVE  /\ handed'[n] = 0 /\ charged'[n] = 0 /\ n \notin bell'
                        /\ \A x \in Row : log'[x].fallback_of # n
                        /\ \A q \in Pass : n \notin pass'[q].todo
    BY DEF UnusedInv
  <2>2. n # m /\ log[n].status = "none"
    BY <2>1
  <2>3. handed'[n] = 0 /\ charged'[n] = 0 /\ n \notin bell'
    BY <2>2 DEF UnusedInv, Uncounted
  <2>4. \A q \in Pass : n \notin pass'[q].todo
    BY <1>3, <2>2 DEF UnusedInv
  <2>5. parent # n
    BY <1>4, <2>2, RowAssumption
  <2>6. \A x \in Row : log'[x].fallback_of # n
    BY <2>2, <2>5 DEF UnusedInv
  <2>7. QED BY <2>3, <2>4, <2>6
<1>7. \A n : Senders(n)' \in SUBSET Senders(n) /\ Payers(n)' \in SUBSET Payers(n)
  BY <1>2 DEF Senders, Sender, Payers, Payer, OnARow, Steps
<1>8. Senders(m)' = {} /\ Payers(m)' = {}
  BY <1>2 DEF Senders, Sender, Payers, Payer, OnARow, Steps
<1>9. SendInv'
  <2>1. SUFFICES ASSUME NEW n \in Row, log'[n].channel = "phone"
                 PROVE  handed'[n] + Waiting(n)' + Cardinality(Senders(n)') <= 1 + revived'[n]
    BY DEF SendInv
  <2>2. handed[n] \in Nat /\ revived[n] \in Nat /\ handed'[n] = handed[n] /\ revived'[n] = revived[n]
    BY DEF TypeOK, Uncounted
  <2>3. CASE n = m
    <3>1. handed[m] = 0 /\ Waiting(m)' = 1 /\ Cardinality(Senders(m)') = 0
      BY <1>8, FS_EmptySet DEF UnusedInv, Waiting
    <3>2. QED BY <2>2, <2>3, <3>1
  <2>4. CASE n # m
    <3>1. handed[n] + Waiting(n) + Cardinality(Senders(n)) <= 1 + revived[n]
      BY <2>1, <2>4 DEF SendInv
    <3>2. Waiting(n)' = Waiting(n) /\ Waiting(n) \in 0 .. 1
      BY <2>4 DEF Waiting
    <3>3. /\ Cardinality(Senders(n)) \in Nat /\ Cardinality(Senders(n)') \in Nat
          /\ Cardinality(Senders(n)') <= Cardinality(Senders(n))
      BY <1>7, CountsFinite, SetShrinks
    <3>4. QED BY <2>2, <3>1, <3>2, <3>3
  <2>5. QED BY <2>3, <2>4
<1>10. ChargeInv'
  <2>1. SUFFICES ASSUME NEW n \in Row, log'[n].channel = "phone"
                 PROVE  charged'[n] + Segments * Cardinality(Payers(n)') <= Segments * handed'[n]
    BY DEF ChargeInv
  <2>2. handed[n] \in Nat /\ charged[n] \in Nat /\ handed'[n] = handed[n] /\ charged'[n] = charged[n]
    BY DEF TypeOK, Uncounted
  <2>3. CASE n = m
    <3>1. handed[m] = 0 /\ charged[m] = 0 /\ Cardinality(Payers(m)') = 0
      BY <1>8, FS_EmptySet DEF UnusedInv
    <3>2. Segments * 0 = 0
      BY NumberAssumption
    <3>3. QED BY <2>2, <2>3, <3>1, <3>2
  <2>4. CASE n # m
    <3>1. charged[n] + Segments * Cardinality(Payers(n)) <= Segments * handed[n]
      BY <2>1, <2>4 DEF ChargeInv
    <3>2. PICK x, y \in Nat : x = Cardinality(Payers(n)) /\ y = Cardinality(Payers(n)') /\ y <= x
      BY <1>7, CountsFinite, SetShrinks
    <3>3. PICK b, a \in Nat : b = Segments * x /\ a = Segments * y /\ a <= b
      BY <3>2, Products
    <3>4. PICK k \in Nat : k = Segments * handed[n]
      BY <2>2, Products
    <3>5. charged[n] + a <= k
      BY <2>2, <3>1, <3>2, <3>3, <3>4
    <3>6. QED BY <2>2, <3>2, <3>3, <3>4, <3>5
  <2>5. QED BY <2>3, <2>4
<1>11. LadderInv'
  <2>1. \A n \in Row : log[n].fallback_of # m
    BY DEF UnusedInv
  <2>2. FallbackOnce'
    <3>1. \A n \in Row : n # m /\ log[n].fallback_of = parent => parent = NoRow
      BY <1>4
    <3>2. QED BY <3>1 DEF LadderInv, FallbackOnce
  <2>3. \A n \in Row : log'[n].fallback_of # NoRow => log'[log'[n].fallback_of].ladder = << >>
    <3>1. SUFFICES ASSUME NEW n \in Row, log'[n].fallback_of # NoRow
                   PROVE  log'[log'[n].fallback_of].ladder = << >>
      OBVIOUS
    <3>2. CASE n = m
      BY <1>4, <3>1, <3>2
    <3>3. CASE n # m
      <4>1. PICK x : x = log[n].fallback_of
        OBVIOUS
      <4>2. x \in Row /\ x # m /\ log[x].ladder = << >> /\ log'[n].fallback_of = x
        BY <2>1, <3>1, <3>3, <4>1 DEF LadderInv, TypeOK, RowType
      <4>3. QED BY <4>2
    <3>4. QED BY <3>2, <3>3
  <2>4. ASSUME NEW q \in Pass, pass'[q].pc = "insert"
        PROVE  /\ log'[pass'[q].row].ladder = << >>
               /\ \A n \in Row : log'[n].fallback_of # pass'[q].row
               /\ \A r \in Pass \ {q} : pass'[r].pc = "insert" => pass'[r].row # pass'[q].row
    <3>1. PICK x : x = pass[q].row
      OBVIOUS
    <3>2. pass'[q] = pass[q] /\ x # m /\ x \in Row
      BY <1>1, <1>2, <2>4, <3>1 DEF OnARow, Steps
    <3>3. log[x].ladder = << >> /\ \A n \in Row : log[n].fallback_of # x
      BY <2>4, <3>1, <3>2 DEF LadderInv
    <3>4. parent # x
      <4>1. CASE parent = NoRow
        BY <3>2, <4>1, RowAssumption
      <4>2. CASE parent # NoRow
        <5>1. PICK p \in Pass : pass[p].pc = "insert" /\ pass[p].row = parent /\ Apart(p)
          BY <4>2
        <5>2. p # q
          BY <2>4, <5>1 DEF Apart
        <5>3. QED BY <2>4, <3>1, <3>2, <5>1, <5>2 DEF LadderInv
      <4>3. QED BY <4>1, <4>2
    <3>5. \A n \in Row : log'[n].fallback_of # x
      BY <3>3, <3>4
    <3>6. ASSUME NEW r \in Pass \ {q}, pass'[r].pc = "insert"
          PROVE  pass'[r].row # x
      <4>1. pass'[r] = pass[r]
        BY <1>2, <3>6 DEF OnARow, Steps
      <4>2. QED BY <2>4, <3>1, <3>2, <3>6, <4>1 DEF LadderInv
    <3>7. QED BY <3>1, <3>2, <3>3, <3>5, <3>6
  <2>5. QED BY <2>2, <2>3, <2>4 DEF LadderInv
<1>12. QED BY <1>5, <1>6, <1>9, <1>10, <1>11

LEMMA InsertShape ==
    ASSUME TypeOK, NEW m \in Row, NEW channel, NEW rungs, NEW parent,
           InsertRow(m, channel, rungs, parent)
    PROVE  /\ log[m].status = "none" /\ log'[m].status = "queued"
           /\ log'[m].fallback_of = parent
           /\ \A n \in Row : n # m => log'[n] = log[n]
BY DEF InsertRow, TypeOK

LEMMA QueueKeeps ==
    ASSUME TypeOK, DispatchInv, NEW m \in Row, Queue(m)
    PROVE  TypeOK' /\ DispatchInv'
<1>1. PICK rungs \in Ladders : InsertRow(m, Head(rungs), Tail(rungs), NoRow)
  BY DEF Queue
<1>2. rungs \in Seq(Channel) /\ rungs # << >>
  BY LadderAssumption
<1>3. Head(rungs) \in Channel /\ Tail(rungs) \in Seq(Channel)
  BY <1>2
<1>4. pass' = pass /\ UNCHANGED aside
  BY DEF Queue
<1>5. TypeOK'
  <2>1. /\ log' \in [Row -> RowType]
        /\ due' \subseteq Row /\ overdue' \subseteq Row /\ readers' \subseteq Pass
    BY <1>1, <1>3, InsertTyped
  <2>2. QED BY <1>4, <2>1 DEF TypeOK, aside
<1>6. /\ log[m].status = "none" /\ log'[m].status = "queued" /\ log'[m].fallback_of = NoRow
      /\ \A n \in Row : n # m => log'[n] = log[n]
  BY <1>1, InsertShape
<1>7. Uncounted /\ bell' = bell /\ \A q \in Pass : pass'[q] = pass[q] \/ Apart(q)
  BY <1>4, SameBooks
<1>8. QED BY <1>5, <1>6, <1>7, InsertStep

LEMMA InsertFallbackKeeps ==
    ASSUME TypeOK, DispatchInv, NEW p \in Pass, InsertFallback(p)
    PROVE  TypeOK' /\ DispatchInv'
<1> USE DEF DispatchInv
<1>1. PICK parent \in Row : parent = pass[p].row /\ pass[p].pc = "insert"
  BY RowInHand DEF InsertFallback, At, OnARow, Steps
<1>2. UNCHANGED aside /\ Resume(p)
  BY DEF InsertFallback
<1>3. /\ Only(p) /\ pass' \in [Pass -> PassType] /\ TodoOK(pass'[p]) /\ Apart(p)
      /\ PassOK(pass[p])' /\ Bystander(pass'[p]) /\ pass'[p].pc # "insert"
  BY <1>2, ResumeShape
<1>4. CASE UNCHANGED <<log, clock>>
  <2>1. log' = log /\ due' \subseteq Row /\ overdue' \subseteq Row /\ readers' \subseteq Pass
    BY <1>4 DEF clock, TypeOK
  <2>2. QED BY <1>2, <1>3, <2>1, ReadStep
<1>5. ASSUME NEW k \in 1 .. Len(pass[p].rungs), NEW m \in Row,
             InsertRow(m, pass[p].rungs[k], Rest(pass[p].rungs, k), pass[p].row)
      PROVE  TypeOK' /\ DispatchInv'
  <2>1. PICK rungs \in Seq(Channel) : rungs = pass[p].rungs
    BY DEF TypeOK, PassType
  <2>2. rungs[k] \in Channel /\ Rest(rungs, k) \in Seq(Channel)
    BY <1>5, <2>1 DEF Rest
  <2>3. InsertRow(m, rungs[k], Rest(rungs, k), parent)
    BY <1>1, <1>5, <2>1
  <2>4. TypeOK'
    <3>1. /\ log' \in [Row -> RowType]
          /\ due' \subseteq Row /\ overdue' \subseteq Row /\ readers' \subseteq Pass
      BY <2>2, <2>3, InsertTyped
    <3>2. QED BY <1>2, <1>3, <3>1 DEF TypeOK, aside
  <2>5. /\ log[m].status = "none" /\ log'[m].status = "queued" /\ log'[m].fallback_of = parent
        /\ \A n \in Row : n # m => log'[n] = log[n]
    BY <2>3, InsertShape
  <2>6. Uncounted /\ bell' = bell /\ \A q \in Pass : pass'[q] = pass[q] \/ Apart(q)
    BY <1>2, <1>3, SameBooks DEF Only
  <2>7. QED BY <1>1, <1>3, <2>4, <2>5, <2>6, InsertStep
<1>6. QED BY <1>4, <1>5 DEF InsertFallback

-----------------------------------------------------------------------------
(***************************************************************************)
(* The theorems.                                                           *)
(***************************************************************************)
LEMMA InvInit == Init => DispatchInv
<1> SUFFICES ASSUME Init PROVE DispatchInv
  OBVIOUS
<1>1. \A m \in Row : log[m] = Blank /\ handed[m] = 0 /\ charged[m] = 0 /\ revived[m] = 0
  BY DEF Init
<1>2. \A p \in Pass : pass[p] = Idle
  BY DEF Init
<1>3. PassInv
  BY <1>2 DEF PassInv, PassOK, OnARow, Steps, Idle
<1>4. UnusedInv
  BY <1>1, <1>2, RowAssumption DEF Init, UnusedInv, Blank, Idle
<1>5. \A m \in Row : log[m].channel # "phone"
  BY <1>1 DEF Blank
<1>6. SendInv /\ ChargeInv
  BY <1>5 DEF SendInv, ChargeInv
<1>7. LadderInv
  BY <1>1, <1>2 DEF LadderInv, FallbackOnce, Blank, Idle
<1>8. QED BY <1>3, <1>4, <1>6, <1>7 DEF DispatchInv

LEMMA NextKeeps == TypeOK /\ DispatchInv /\ [Next]_vars => TypeOK' /\ DispatchInv'
<1> SUFFICES ASSUME TypeOK, DispatchInv, [Next]_vars PROVE TypeOK' /\ DispatchInv'
  OBVIOUS
<1>1. CASE UNCHANGED vars
  <2>1. log' = log /\ pass' = pass /\ UNCHANGED aside /\ UNCHANGED clock
    BY <1>1 DEF vars
  <2>2. TypeOK'
    BY <2>1 DEF TypeOK, aside, clock
  <2>3. QED BY <2>1, <2>2, SameLog, SameBooks, OutsideStep
<1>2. CASE TopUp
  BY <1>2, TopUpKeeps
<1>3. ASSUME NEW m \in Row, Around(m) PROVE TypeOK' /\ DispatchInv'
  BY <1>3, QueueKeeps, WithdrawKeeps, TimeKeeps, ReportKeeps DEF Around
<1>4. ASSUME NEW p \in Pass, NEW m \in Row, OnRow(p, m) PROVE TypeOK' /\ DispatchInv'
  BY <1>4, SettleKeeps, SelectKeeps, ReportFailedKeeps DEF OnRow
<1>5. ASSUME NEW p \in Pass, Loop(p) PROVE TypeOK' /\ DispatchInv'
  <2>1. CASE EndPass(p)
    BY <2>1, IdleKeeps DEF EndPass, clock
  <2>2. CASE Crash(p)
    BY <2>2, IdleKeeps DEF Crash
  <2>3. CASE StartPass(p) \/ Claim(p) \/ Suppress(p) \/ Prepare(p) \/ Mark(p) \/ Send(p)
    BY <2>3, StartPassKeeps, ClaimKeeps, SuppressKeeps, PrepareKeeps, MarkKeeps, SendKeeps
  <2>4. CASE OutcomeUnknown(p) \/ GiveUp(p) \/ Retry(p) \/ Sent(p) \/ SpendCredit(p) \/ RingBell(p)
    BY <2>4, UnknownKeeps, GiveUpKeeps, RetryKeeps, SentKeeps, SpendKeeps, RingBellKeeps
  <2>5. CASE \/ ClaimLadder(p) \/ InsertFallback(p)
             \/ PumpRead(p) \/ PumpMark(p) \/ PumpFallback(p)
    BY <2>5, ClaimLadderKeeps, InsertFallbackKeeps, PumpReadKeeps, PumpMarkKeeps, PumpFallbackKeeps
  <2>6. QED BY <1>5, <2>1, <2>2, <2>3, <2>4, <2>5 DEF Loop
<1>6. QED BY <1>1, <1>2, <1>3, <1>4, <1>5 DEF Next

LEMMA Reachable == Spec => [](TypeOK /\ DispatchInv)
<1>1. Init => TypeOK /\ DispatchInv
  BY TypesInit, InvInit
<1>2. QED BY <1>1, NextKeeps, PTL DEF Spec

LEMMA InvBounds ==
    ASSUME TypeOK, DispatchInv
    PROVE  HandedBounded /\ WithdrawnIsNotSent /\ ChargedBounded /\ FallbackOnce
<1> USE DEF DispatchInv
<1>1. \A m \in Row : Cardinality(Senders(m)) \in Nat /\ Cardinality(Payers(m)) \in Nat
  BY CountsFinite, FS_CardinalityType
<1>2. \A m \in Row : handed[m] \in Nat /\ revived[m] \in Nat /\ charged[m] \in Nat
  BY DEF TypeOK
<1>3. HandedBounded /\ WithdrawnIsNotSent
  <2>1. ASSUME NEW m \in Row, log[m].channel = "phone"
        PROVE  /\ handed[m] <= 1 + revived[m]
               /\ log[m].status = "cancelled" => handed[m] <= revived[m]
    <3>1. handed[m] + Waiting(m) + Cardinality(Senders(m)) <= 1 + revived[m]
      BY <2>1 DEF SendInv
    <3>2. Waiting(m) \in 0 .. 1 /\ (log[m].status = "cancelled" => Waiting(m) = 1)
      BY DEF Waiting
    <3>3. QED BY <1>1, <1>2, <3>1, <3>2
  <2>2. QED BY <2>1 DEF HandedBounded, WithdrawnIsNotSent
<1>4. ChargedBounded
  <2>1. ASSUME NEW m \in Row, log[m].channel = "phone"
        PROVE  charged[m] <= Segments * handed[m]
    <3>1. charged[m] + Segments * Cardinality(Payers(m)) <= Segments * handed[m]
      BY <2>1 DEF ChargeInv
    <3>2. PICK a, k \in Nat : a = Segments * Cardinality(Payers(m)) /\ k = Segments * handed[m]
      BY <1>1, <1>2, Products
    <3>3. charged[m] <= k
      BY <1>2, <3>1, <3>2
    <3>4. QED BY <3>2, <3>3
  <2>2. QED BY <2>1 DEF ChargedBounded
<1>5. QED BY <1>3, <1>4 DEF LadderInv

(* The rows of message_log and the state of every invocation keep their types
   through all the writers of the dispatcher. *)
THEOREM DispatchTypeCorrect == Spec => []TypeOK
BY Reachable, PTL

(* A row's one permission to be sent is in the queue, with a withdrawn row or
   with the one pass that marked it; the payers of a row never outnumber its
   unpaid requests; a ladder is claimed before its rung is inserted. *)
THEOREM DispatchInvariant == Spec => []DispatchInv
BY Reachable, PTL

(* However many passes share the queue and whichever of them die, the provider
   is asked for an SMS or WhatsApp message at most once, and once more for each
   time a pass that had sent nothing put the row back. *)
THEOREM HandedAtMostOnce == Spec => []HandedBounded
<1>1. TypeOK /\ DispatchInv => HandedBounded
  BY InvBounds
<1>2. QED BY <1>1, Reachable, PTL

(* A reminder withdrawn from the queue has not gone out and is marked by no
   pass that still could send it. *)
THEOREM WithdrawnStays == Spec => []WithdrawnIsNotSent
<1>1. TypeOK /\ DispatchInv => WithdrawnIsNotSent
  BY InvBounds
<1>2. QED BY <1>1, Reachable, PTL

(* A refused send, a webhook and the push pump together queue one fallback. *)
THEOREM LadderMovesOnce == Spec => []FallbackOnce
<1>1. TypeOK /\ DispatchInv => FallbackOnce
  BY InvBounds
<1>2. QED BY <1>1, Reachable, PTL

(* The credits taken for a message never exceed the price of the requests the
   provider took for it. *)
THEOREM NothingOvercharged == Spec => []ChargedBounded
<1>1. TypeOK /\ DispatchInv => ChargedBounded
  BY InvBounds
<1>2. QED BY <1>1, Reachable, PTL
=============================================================================
