--------------------------- MODULE MessageDispatch ---------------------------
(***************************************************************************)
(* The dispatcher of one school's message_log: dispatchMessages and what   *)
(* it shares rows with (settleStaleSends, queueFallback, applyStatus,      *)
(* pushOnce of worker/src/services/messaging.ts, and the withdrawal of     *)
(* queued reminders).  Any number of passes run at once: the cron's, the   *)
(* one kicked by every insert, the ones the office starts by hand.  Each   *)
(* await of the code is a step; a pass may die between any two of them.    *)
(*                                                                         *)
(* TIME is two sets: due holds the rows whose send_after has passed, and   *)
(* overdue the ones for which it passed LEASE_SECONDS ago.  The column     *)
(* itself is compared with the value a pass read only by the claim; the    *)
(* passes for which the two still agree are the set readers.               *)
(***************************************************************************)
EXTENDS Naturals, Sequences, FiniteSets

CONSTANTS
    Row,            \* message_log ids, used or not
    Asked,          \* the ones a caller's message may take (bounds the callers)
    Pass,           \* invocations that run at the same time
    NoRow,
    RetryAttempts,  \* RETRY_ATTEMPTS, messaging.ts:823
    Ladders,        \* the channels a message may be sent by, in order
    Credits,        \* bounds message_credits.balance
    Segments        \* credits one phone message costs

ASSUME RowAssumption == NoRow \notin Row /\ Asked \subseteq Row
ASSUME PassAssumption == IsFiniteSet(Pass)
ASSUME NumberAssumption == RetryAttempts \in Nat /\ Credits \in Nat /\ Segments \in Nat \ {0}

(* "phone" is sms and whatsapp: metered, and never safe to repeat. *)
Channel == {"in_app", "email", "phone"}

ASSUME LadderAssumption == Ladders \subseteq Seq(Channel) \ {<< >>}

RepeatSafe == {"in_app", "email"}

Status == {"none", "queued", "sending", "sent", "delivered", "read",
           "failed", "suppressed", "cancelled"}

VARIABLES
    log,        \* message_log: status, attempts, channel, ladder, fallback_of
    due, overdue, readers,
    pass,       \* per invocation: the await it is at and what it has read
    bell,       \* rows with a notification in the recipient's bell
    pushed,     \* rows whose notification has pushed_at
    balance,    \* message_credits.balance of the phone channel
    handed,     \* requests the provider took, per row
    charged,    \* credits taken, per row
    revived     \* times a pass that sent nothing put a row back in the queue

clock == <<due, overdue, readers>>
aside == <<bell, pushed, balance, handed, charged, revived>>
vars == <<log, clock, pass, aside>>

Blank == [status |-> "none", attempts |-> 0, channel |-> "email",
          ladder |-> << >>, fallback_of |-> NoRow]

Idle == [pc |-> "idle", row |-> NoRow, attempts |-> 0, more |-> FALSE,
         rungs |-> << >>, todo |-> {}, error |-> "none", marked |-> FALSE,
         back |-> "idle"]

Init ==
    /\ log = [m \in Row |-> Blank]
    /\ due = {} /\ overdue = {} /\ readers = {}
    /\ pass = [p \in Pass |-> Idle]
    /\ bell = {} /\ pushed = {} /\ balance = Credits
    /\ handed = [m \in Row |-> 0] /\ charged = [m \in Row |-> 0]
    /\ revived = [m \in Row |-> 0]

-----------------------------------------------------------------------------
(***************************************************************************)
(* The office, the clock and the recipient.                                *)
(***************************************************************************)
(* The INSERT of Messenger.insert; quiet hours may hold the row. *)
InsertRow(m, channel, rungs, parent) ==
    /\ log[m].status = "none"
    /\ log' = [log EXCEPT ![m] = [status |-> "queued", attempts |-> 0, channel |-> channel,
                                  ladder |-> rungs, fallback_of |-> parent]]
    /\ due' = due \cup {m} \/ due' = due
    /\ UNCHANGED <<overdue, readers>>

Queue(m) ==
    /\ m \in Asked
    /\ \E rungs \in Ladders : InsertRow(m, Head(rungs), Tail(rungs), NoRow)
    /\ UNCHANGED <<pass, aside>>

(* Every other write to a row replaces send_after or takes the row out of the
   queue, so no claim that read it before can succeed. *)
WriteRow(m, row) ==
    /\ log' = [log EXCEPT ![m] = row]
    /\ due' = due \ {m} /\ overdue' = overdue \ {m}
    /\ readers' = {q \in readers : pass[q].row # m}

(* Mutant: a reminder is withdrawn without looking at its status. *)
WithdrawLate(m) ==
    /\ log[m].status \in {"queued", "sending"}
    /\ WriteRow(m, [log[m] EXCEPT !.status = "cancelled"])
    /\ UNCHANGED <<pass, aside>>

(* cancelSettled and the deletion of a reminder plan. *)
Withdraw(m) ==
    /\ log[m].status = "queued"
    /\ WriteRow(m, [log[m] EXCEPT !.status = "cancelled"])
    /\ UNCHANGED <<pass, aside>>

(* Credits are added or taken back, never below zero. *)
TopUp ==
    /\ balance' \in 0 .. Credits
    /\ UNCHANGED <<log, clock, pass, bell, pushed, handed, charged, revived>>

TimePasses(m) ==
    /\ log[m].status \in {"queued", "sending"}
    /\ \/ due' = due \cup {m} /\ UNCHANGED overdue
       \/ m \in due /\ overdue' = overdue \cup {m} /\ UNCHANGED due
    /\ UNCHANGED <<log, readers, pass, aside>>

-----------------------------------------------------------------------------
(***************************************************************************)
(* A dispatch pass.                                                        *)
(***************************************************************************)
At(p, pc) == pass[p].pc = pc
Step(p, next) == pass' = [pass EXCEPT ![p] = next]
Goto(p, pc) == Step(p, [pass[p] EXCEPT !.pc = pc])
Resume(p) == Step(p, [Idle EXCEPT !.pc = pass[p].back, !.back = pass[p].back,
                                  !.todo = pass[p].todo])
ToResult(me, error) == [me EXCEPT !.pc = "result", !.error = error]
ToSend(me) == [me EXCEPT !.pc = "send", !.marked = TRUE]
ToInsert(me, rungs) == [me EXCEPT !.pc = "insert", !.rungs = rungs]
Queued == {m \in due : log[m].status = "queued"}

(* The queue delivers 'message.send', or the office presses "send now". *)
StartPass(p) ==
    /\ At(p, "idle")
    /\ Step(p, [Idle EXCEPT !.pc = "settle", !.back = "select",
                            !.todo = {m \in overdue : log[m].status = "sending"}])
    /\ UNCHANGED <<log, clock, aside>>

SettleStaleSend(p, m) ==
    /\ At(p, "settle") /\ m \in pass[p].todo
    /\ Step(p, [pass[p] EXCEPT !.todo = @ \ {m}])
    /\ IF log[m].status = "sending"
       THEN WriteRow(m, [log[m] EXCEPT !.status = "failed"])
       ELSE UNCHANGED <<log, clock>>
    /\ UNCHANGED aside

Looping(p) == At(p, "select") \/ (At(p, "settle") /\ pass[p].todo = {})

Select(p, m) ==
    /\ Looping(p) /\ m \in Queued
    /\ Step(p, [Idle EXCEPT !.pc = "claim", !.row = m, !.attempts = log[m].attempts,
                            !.more = (log[m].ladder # << >>), !.back = "select"])
    /\ readers' = readers \cup {p}
    /\ UNCHANGED <<log, due, overdue, aside>>

(* Nothing due, or the caller's limit reached. *)
EndPass(p) ==
    /\ Looping(p) /\ (Queued = {} \/ At(p, "select"))
    /\ Step(p, Idle)
    /\ UNCHANGED <<log, clock, aside>>

Claim(p) ==
    /\ At(p, "claim")
    /\ LET m == pass[p].row
       IN IF log[m].status = "queued" /\ p \in readers
          THEN WriteRow(m, log[m]) /\ Goto(p, "check")
          ELSE readers' = readers \ {p} /\ UNCHANGED <<log, due, overdue>> /\ Resume(p)
    /\ UNCHANGED aside

(* Mutant: a status the schema does not know. *)
SuppressMisnamed(p) ==
    /\ At(p, "check")
    /\ WriteRow(pass[p].row, [log[pass[p].row] EXCEPT !.status = "skipped"])
    /\ Resume(p)
    /\ UNCHANGED aside

(* The guard or an opt-out: WHERE id only. *)
Suppress(p) ==
    /\ At(p, "check")
    /\ LET m == pass[p].row
       IN WriteRow(m, [log[m] EXCEPT !.status = "suppressed"])
    /\ Resume(p)
    /\ UNCHANGED aside

(* Route, provider, wording and credits, up to the mark.  A WhatsApp wording
   whose parameters do not fit throws; an empty balance is a MessagingError,
   unless the route is not metered or the provider not set up. *)
Prepare(p) ==
    /\ At(p, "check")
    /\ LET metered == log[pass[p].row].channel = "phone"
       IN \/ Goto(p, "mark")
          \/ metered /\ balance = 0
                /\ Step(p, ToResult(pass[p], "permanent"))
          \/ metered /\ Step(p, ToResult(pass[p], "transient"))
    /\ UNCHANGED <<log, clock, aside>>

(* Mutant: the mark does not ask whether the row is still queued. *)
MarkAnyway(p) ==
    /\ At(p, "mark")
    /\ LET m == pass[p].row
       IN /\ log' = [log EXCEPT ![m].status = "sending"]
          /\ Step(p, ToSend(pass[p]))
    /\ UNCHANGED <<clock, aside>>

Mark(p) ==
    /\ At(p, "mark")
    /\ LET m == pass[p].row
       IN IF log[m].channel = "in_app"
          THEN Goto(p, "send") /\ UNCHANGED log
          ELSE IF log[m].status = "queued"
               THEN /\ log' = [log EXCEPT ![m].status = "sending"]
                    /\ Step(p, ToSend(pass[p]))
               ELSE Resume(p) /\ UNCHANGED log
    /\ UNCHANGED <<clock, aside>>

(* The provider takes the request, or not, and says so, or not.  A repeated
   request for one row is a no-op where RepeatSafe; the bell cannot fail. *)
Send(p) ==
    /\ At(p, "send")
    /\ LET m == pass[p].row
           taken == [handed EXCEPT ![m] = IF log[m].channel \in RepeatSafe THEN 1 ELSE @ + 1]
       IN \E error \in {"none", "permanent", "transient", "ambiguous"} :
             /\ log[m].channel = "in_app" => error = "none"
             /\ Step(p, ToResult(pass[p], error))
             /\ \/ error \in {"none", "ambiguous"} /\ handed' = taken
                \/ error # "none" /\ UNCHANGED handed
    /\ UNCHANGED <<log, clock, bell, pushed, balance, charged, revived>>

-----------------------------------------------------------------------------
(***************************************************************************)
(* The result is written WHERE id = ?, whatever the row has become.        *)
(***************************************************************************)
Tried(row, status) == [row EXCEPT !.status = status, !.attempts = @ + 1]

Outcome(p, status) == WriteRow(pass[p].row, Tried(log[pass[p].row], status))

Unknown(p) ==
    pass[p].error = "ambiguous" /\ log[pass[p].row].channel \notin RepeatSafe

Refused(p) == pass[p].error # "none" /\ ~Unknown(p)

GivesUp(p) ==
    \/ pass[p].attempts + 1 >= RetryAttempts
    \/ pass[p].more /\ (pass[p].error = "permanent" \/ pass[p].attempts + 1 >= 2)

(* Mutant: a send whose outcome is unknown is paid for as well. *)
OutcomeUnknownPays(p) ==
    /\ At(p, "result") /\ Unknown(p)
    /\ Outcome(p, "failed") /\ Goto(p, "spend")
    /\ UNCHANGED aside

OutcomeUnknown(p) ==
    /\ At(p, "result") /\ Unknown(p)
    /\ Outcome(p, "failed") /\ Resume(p)
    /\ UNCHANGED aside

GiveUp(p) ==
    /\ At(p, "result") /\ Refused(p) /\ GivesUp(p)
    /\ Outcome(p, "failed")
    /\ IF pass[p].more THEN Goto(p, "fallback") ELSE Resume(p)
    /\ UNCHANGED aside

Revives(p, m) == ~pass[p].marked /\ log[m].status # "queued"

Retry(p) ==
    /\ At(p, "result") /\ Refused(p) /\ ~GivesUp(p)
    /\ Outcome(p, "queued") /\ Resume(p)
    /\ LET m == pass[p].row
       IN revived' = [revived EXCEPT ![m] = IF Revives(p, m) THEN @ + 1 ELSE @]
    /\ UNCHANGED <<bell, pushed, balance, handed, charged>>

Sent(p) ==
    /\ At(p, "result") /\ pass[p].error = "none"
    /\ Outcome(p, "sent")
    /\ CASE log[pass[p].row].channel = "phone" -> Goto(p, "spend")
         [] log[pass[p].row].channel = "in_app" -> Goto(p, "bell")
         [] log[pass[p].row].channel = "email" -> Resume(p)
    /\ UNCHANGED aside

(* spendCredit: MAX(balance - n, 0) WHERE balance > 0.  Its ledger line and the
   low-credit mail follow in awaits of their own and are read by no pass. *)
SpendCredit(p) ==
    /\ At(p, "spend")
    /\ LET m == pass[p].row
           n == IF balance < Segments THEN balance ELSE Segments
       IN balance' = balance - n /\ charged' = [charged EXCEPT ![m] = @ + n]
    /\ Resume(p)
    /\ UNCHANGED <<log, clock, bell, pushed, handed, revived>>

(* The notification, once per row; the ladder goes on if no phone has the app. *)
RingBell(p) ==
    /\ At(p, "bell")
    /\ bell' = bell \cup {pass[p].row}
    /\ \/ Resume(p)
       \/ pass[p].more /\ Goto(p, "fallback")
    /\ UNCHANGED <<log, clock, pushed, balance, handed, charged, revived>>

-----------------------------------------------------------------------------
(***************************************************************************)
(* queueFallback: claim the ladder, then insert the next rung that can     *)
(* reach the person.  Called by a pass, a webhook and the push pump.       *)
(***************************************************************************)
(* Mutant: the ladder is read and not claimed. *)
ClaimLadderByReading(p) ==
    /\ At(p, "fallback")
    /\ Step(p, ToInsert(pass[p], log[pass[p].row].ladder))
    /\ UNCHANGED <<log, clock, aside>>

ClaimLadder(p) ==
    /\ At(p, "fallback")
    /\ LET m == pass[p].row
       IN IF log[m].ladder # << >>
          THEN /\ log' = [log EXCEPT ![m].ladder = << >>]
               /\ Step(p, ToInsert(pass[p], log[m].ladder))
          ELSE Resume(p) /\ UNCHANGED log
    /\ UNCHANGED <<clock, aside>>

Rest(rungs, k) == SubSeq(rungs, k + 1, Len(rungs))

InsertFallback(p) ==
    /\ At(p, "insert")
    /\ \/ \E k \in 1 .. Len(pass[p].rungs), m \in Row :
             InsertRow(m, pass[p].rungs[k], Rest(pass[p].rungs, k), pass[p].row)
       \/ UNCHANGED <<log, clock>>
    /\ Resume(p)
    /\ UNCHANGED aside

(* applyStatus, for a message the provider took.  'sending' has no rank. *)
Below(status) ==
    CASE status = "sent" -> {"queued"}
      [] status = "delivered" -> {"queued", "sent"}
      [] status = "read" -> {"queued", "sent", "delivered"}

Report(m) ==
    /\ handed[m] > 0
    /\ \E status \in {"sent", "delivered", "read"} :
          /\ log[m].status \in Below(status)
          /\ WriteRow(m, [log[m] EXCEPT !.status = status])
    /\ UNCHANGED <<pass, aside>>

ReportFailed(p, m) ==
    /\ At(p, "idle") /\ handed[m] > 0 /\ log[m].status \in {"queued", "sent"}
    /\ WriteRow(m, [log[m] EXCEPT !.status = "failed"])
    /\ Step(p, [Idle EXCEPT !.pc = "fallback", !.row = m])
    /\ UNCHANGED aside

(* pushOnce: read the unpushed, push, mark them all, then move on the ladder of
   those every phone refused. *)
PumpRead(p) ==
    /\ At(p, "idle") /\ bell \ pushed # {}
    /\ Step(p, [Idle EXCEPT !.pc = "push", !.todo = bell \ pushed, !.back = "unreached"])
    /\ UNCHANGED <<log, clock, aside>>

PumpMark(p) ==
    /\ At(p, "push")
    /\ pushed' = pushed \cup pass[p].todo
    /\ \E unreached \in SUBSET pass[p].todo :
          Step(p, [Idle EXCEPT !.pc = "unreached", !.back = "unreached", !.todo = unreached])
    /\ UNCHANGED <<log, clock, bell, balance, handed, charged, revived>>

PumpFallback(p) ==
    /\ At(p, "unreached")
    /\ \/ \E m \in pass[p].todo :
             Step(p, [Idle EXCEPT !.pc = "fallback", !.back = "unreached", !.row = m,
                                  !.todo = pass[p].todo \ {m}])
       \/ pass[p].todo = {} /\ Step(p, Idle)
    /\ UNCHANGED <<log, clock, aside>>

(* The isolate is evicted, or a statement throws. *)
Crash(p) ==
    /\ ~At(p, "idle")
    /\ Step(p, Idle)
    /\ readers' = readers \ {p}
    /\ UNCHANGED <<log, due, overdue, aside>>

-----------------------------------------------------------------------------
Around(m) == Queue(m) \/ Withdraw(m) \/ TimePasses(m) \/ Report(m)

Loop(p) ==
    \/ StartPass(p) \/ EndPass(p) \/ Claim(p) \/ Suppress(p) \/ Prepare(p)
    \/ Mark(p) \/ Send(p)
    \/ OutcomeUnknown(p) \/ GiveUp(p) \/ Retry(p) \/ Sent(p)
    \/ SpendCredit(p) \/ RingBell(p) \/ ClaimLadder(p) \/ InsertFallback(p)
    \/ PumpRead(p) \/ PumpMark(p) \/ PumpFallback(p)
    \/ Crash(p)

OnRow(p, m) == SettleStaleSend(p, m) \/ Select(p, m) \/ ReportFailed(p, m)

Next ==
    \/ TopUp
    \/ \E m \in Row : Around(m)
    \/ \E p \in Pass : Loop(p)
    \/ \E p \in Pass, m \in Row : OnRow(p, m)

Spec == Init /\ [][Next]_vars

-----------------------------------------------------------------------------
(***************************************************************************)
(* What the dispatcher keeps to.                                           *)
(***************************************************************************)
Steps == {"idle", "settle", "select", "claim", "check", "mark", "send", "result",
          "spend", "bell", "fallback", "insert", "push", "unreached"}

Errors == {"none", "permanent", "transient", "ambiguous"}

RowType == [status : Status, attempts : Nat, channel : Channel,
            ladder : Seq(Channel), fallback_of : Row \cup {NoRow}]

PassType == [pc : Steps, row : Row \cup {NoRow}, attempts : Nat, more : BOOLEAN,
             rungs : Seq(Channel), todo : SUBSET Row, error : Errors, marked : BOOLEAN,
             back : {"idle", "select", "unreached"}]

(* The columns of message_log and what an invocation holds between two awaits
   keep their types, whichever of the writers above runs. *)
TypeOK ==
    /\ log \in [Row -> RowType]
    /\ due \subseteq Row /\ overdue \subseteq Row /\ readers \subseteq Pass
    /\ pass \in [Pass -> PassType]
    /\ bell \subseteq Row /\ pushed \subseteq Row /\ balance \in Nat
    /\ handed \in [Row -> Nat] /\ charged \in [Row -> Nat] /\ revived \in [Row -> Nat]

(* An SMS or WhatsApp message reaches the provider a second time only if a pass
   that had lost its lease, and had itself sent nothing, put the row back. *)
HandedBounded ==
    \A m \in Row : log[m].channel = "phone" => handed[m] <= 1 + revived[m]

(* A reminder withdrawn from the queue has not gone out, however long a pass
   had held it. *)
WithdrawnIsNotSent ==
    \A m \in Row :
        log[m].channel = "phone" /\ log[m].status = "cancelled" => handed[m] <= revived[m]

(* One refusal moves a message one rung: a failed send, a webhook and a push
   failure arriving together queue the fallback once. *)
FallbackOnce ==
    \A m, n \in Row :
        m # n /\ log[m].fallback_of = log[n].fallback_of => log[m].fallback_of = NoRow

(* A school pays for what the provider took, once each. *)
ChargedBounded ==
    \A m \in Row : log[m].channel = "phone" => charged[m] <= Segments * handed[m]

-----------------------------------------------------------------------------
(***************************************************************************)
(* Why: the row's one permission to be sent is either in the queue, with a *)
(* withdrawn row, or with the one pass that marked it.                     *)
(***************************************************************************)
OnARow == Steps \ {"idle", "settle", "select", "push", "unreached"}

(* What an invocation holds names rows that exist. *)
PassOK(me) ==
    /\ me.pc \in OnARow => me.row \in Row /\ log[me.row].status # "none"
    /\ me.pc \in {"claim", "check", "mark"} => ~me.marked
    /\ me.pc = "send" /\ log[me.row].channel # "in_app" => me.marked
    /\ me.pc = "spend" => log[me.row].channel = "phone"

PassInv == \A p \in Pass : PassOK(pass[p])

UnusedInv ==
    \A m \in Row :
        log[m].status = "none" =>
            /\ handed[m] = 0 /\ charged[m] = 0 /\ m \notin bell
            /\ \A n \in Row : log[n].fallback_of # m
            /\ \A p \in Pass : m \notin pass[p].todo

Sender(p, m) ==
    /\ pass[p].row = m /\ pass[p].marked
    /\ pass[p].pc = "send" \/ (pass[p].pc = "result" /\ pass[p].error \in {"permanent", "transient"})

Senders(m) == {p \in Pass : Sender(p, m)}

Waiting(m) == IF log[m].status \in {"queued", "cancelled"} THEN 1 ELSE 0

SendInv ==
    \A m \in Row :
        log[m].channel = "phone" =>
            handed[m] + Waiting(m) + Cardinality(Senders(m)) <= 1 + revived[m]

Payer(p, m) ==
    /\ pass[p].row = m
    /\ pass[p].pc = "spend" \/ (pass[p].pc = "result" /\ pass[p].error = "none")

Payers(m) == {p \in Pass : Payer(p, m)}

ChargeInv ==
    \A m \in Row :
        log[m].channel = "phone" =>
            charged[m] + Segments * Cardinality(Payers(m)) <= Segments * handed[m]

LadderInv ==
    /\ FallbackOnce
    /\ \A m \in Row : log[m].fallback_of # NoRow => log[log[m].fallback_of].ladder = << >>
    /\ \A p \in Pass : pass[p].pc = "insert" =>
          /\ log[pass[p].row].ladder = << >>
          /\ \A m \in Row : log[m].fallback_of # pass[p].row
          /\ \A q \in Pass \ {p} : pass[q].pc = "insert" => pass[q].row # pass[p].row

(* The inductive invariant. *)
DispatchInv == PassInv /\ UnusedInv /\ SendInv /\ ChargeInv /\ LadderInv

=============================================================================
