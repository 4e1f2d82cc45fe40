----------------------------- MODULE Idempotency -----------------------------
(***************************************************************************)
(* The Worker's idempotency middleware (worker/src/idempotency.ts) and the *)
(* gates in front of it (worker/src/index.ts).  A write that carries a key *)
(* claims the key's row, runs its handler, and leaves the answer in the    *)
(* row for the repeats.  One school: the table is keyed by (school, key).  *)
(*                                                                         *)
(* Claim, look, run and settle are separate round trips to D1, so an       *)
(* action is one of them and call[c].pc is the await the request is at.    *)
(* The two minutes after which a claim is wreckage are a set, old, that    *)
(* a claim may join at any moment.                                         *)
(***************************************************************************)
EXTENDS Presses

VARIABLES
    receipt,   \* [Key -> Receipt], table idempotency_keys
    old,       \* keys whose claim was made more than two minutes ago
    call,      \* [Slot -> Request]
    worked,    \* history: [Key -> the writes its handler runs did, answering 2xx]
    done,      \* history: [Key -> how many runs gave an answer below 500]
    forgotten  \* history: [Key -> how often a row went away other than by a 5xx]

serverVars == <<receipt, old, call, worked, done, forgotten>>

Receipt == [state : {"none", "claimed", "answered"}, user : User \cup {NoUser},
            write : Write \cup {NoWrite}, answer : Kept \cup {"none"}]

NoReceipt == [state |-> "none", user |-> NoUser, write |-> NoWrite, answer |-> "none"]

Request == [pc : {"free", "gates", "claim", "look", "run", "settle", "answered"},
            key : Key \cup {NoKey}, user : User \cup {NoUser},
            write : Write \cup {NoWrite}, res : Answers \cup {"none"}]

FreeSlot == [pc |-> "free", key |-> NoKey, user |-> NoUser, write |-> NoWrite, res |-> "none"]

ServerTypeOK ==
    /\ receipt \in [Key -> Receipt]
    /\ old \subseteq Key
    /\ call \in [Slot -> Request]
    /\ \A c \in Slot : call[c].pc # "free" => call[c].key \in Key /\ call[c].write \in Write
    /\ \A c \in Slot : call[c].pc = "settle" => call[c].res \in Results
    /\ \A c \in Slot : call[c].pc \in {"claim", "look", "run", "settle"} => call[c].user \in User
    /\ \A k \in Key : receipt[k].state # "none" => receipt[k].write \in Write
    /\ worked \in [Key -> SUBSET Write]
    /\ done \in [Key -> Nat]
    /\ forgotten \in [Key -> Nat]

ServerInit ==
    /\ receipt = [k \in Key |-> NoReceipt]
    /\ old = {}
    /\ call = [c \in Slot |-> FreeSlot]
    /\ worked = [k \in Key |-> {}]
    /\ done = [k \in Key |-> 0]
    /\ forgotten = [k \in Key |-> 0]

-----------------------------------------------------------------------------
(* A keyed JSON write reaches the Worker with whatever session cookie the
   browser holds by now. *)
Arrive(c, k, u, w) ==
    /\ call[c].pc = "free"
    /\ call' = [call EXCEPT ![c] =
           [pc |-> "gates", key |-> k, user |-> u, write |-> w, res |-> "none"]]
    /\ UNCHANGED <<receipt, old, worked, done, forgotten>>

Moved(c, pc, res) == [call EXCEPT ![c] = [call[c] EXCEPT !.pc = pc, !.res = res]]

(* Sign-in, permission, password and subscription gates come first, and what
   they refuse is stored under no key. *)
Gates(c) ==
    /\ call[c].pc = "gates"
    /\ \/ call[c].user # NoUser /\ call' = Moved(c, "claim", "none")
       \/ call' = Moved(c, "answered", "refused")
    /\ UNCHANGED <<receipt, old, worked, done, forgotten>>

Wreckage(k) == receipt[k].state = "claimed" /\ k \in old

Claimed(c) == [state |-> "claimed", user |-> call[c].user, write |-> call[c].write,
               answer |-> "none"]

(* Mutant: the row is read first and inserted later, so anyone may win. *)
ClaimByLooking(c) ==
    /\ call[c].pc = "claim"
    /\ receipt[call[c].key].state # "answered"
    /\ receipt' = [receipt EXCEPT ![call[c].key] = Claimed(c)]
    /\ call' = Moved(c, "run", "none")
    /\ UNCHANGED <<old, worked, done, forgotten>>

(* One batch: DELETE the wreckage, INSERT ... ON CONFLICT DO NOTHING. *)
Claim(c) ==
    LET k == call[c].key IN
    /\ call[c].pc = "claim"
    /\ IF receipt[k].state = "none" \/ Wreckage(k)
       THEN /\ receipt' = [receipt EXCEPT ![k] = Claimed(c)]
            /\ call' = Moved(c, "run", "none")
            /\ old' = old \ {k}
            /\ forgotten' = IF Wreckage(k) THEN [forgotten EXCEPT ![k] = forgotten[k] + 1]
                                           ELSE forgotten
       ELSE /\ call' = Moved(c, "look", "none")
            /\ UNCHANGED <<receipt, old, forgotten>>
    /\ UNCHANGED <<worked, done>>

(* Mutant: a claim without an answer is replayed as success. *)
RepliedEagerly(c) ==
    LET prev == receipt[call[c].key] IN
    IF prev.user # call[c].user THEN "reused"
    ELSE IF prev.write # call[c].write THEN "mismatch"
    ELSE IF prev.state = "claimed" THEN "ok"
    ELSE prev.answer

(* What a request that did not win the claim is told.  A row that has gone in
   the meantime has no user, and reads as somebody else's. *)
Replied(c) ==
    LET prev == receipt[call[c].key] IN
    IF prev.user # call[c].user THEN "reused"
    ELSE IF prev.write # call[c].write THEN "mismatch"
    ELSE IF prev.state = "claimed" THEN "inflight"
    ELSE prev.answer

Look(c) ==
    /\ call[c].pc = "look"
    /\ call' = Moved(c, "answered", Replied(c))
    /\ UNCHANGED <<receipt, old, worked, done, forgotten>>

(* The handler runs to its end.  An error it throws is an answer too. *)
Run(c, res) ==
    LET k == call[c].key IN
    /\ call[c].pc = "run"
    /\ call' = Moved(c, "settle", res)
    /\ worked' = IF res = "ok" THEN [worked EXCEPT ![k] = worked[k] \cup {call[c].write}] ELSE worked
    /\ done' = IF res \in Kept THEN [done EXCEPT ![k] = done[k] + 1] ELSE done
    /\ UNCHANGED <<receipt, old, forgotten>>

Answered(old_row, res) == [old_row EXCEPT !.state = "answered", !.answer = res]

(* Mutant: a refusal releases the key as a 5xx does. *)
SettleReleasesRefusals(c) ==
    LET k == call[c].key IN
    /\ call[c].pc = "settle"
    /\ receipt' = IF call[c].res # "ok" THEN [receipt EXCEPT ![k] = NoReceipt]
                  ELSE IF receipt[k].state = "none" THEN receipt
                  ELSE [receipt EXCEPT ![k] = Answered(receipt[k], call[c].res)]
    /\ old' = old \ {k}
    /\ call' = Moved(c, "answered", call[c].res)
    /\ UNCHANGED <<worked, done, forgotten>>

(* DELETE on a 5xx, else UPDATE: both by key alone, whoever holds the row. *)
Settle(c) ==
    LET k == call[c].key IN
    /\ call[c].pc = "settle"
    /\ receipt' = IF call[c].res = "error" THEN [receipt EXCEPT ![k] = NoReceipt]
                  ELSE IF receipt[k].state = "none" THEN receipt
                  ELSE [receipt EXCEPT ![k] = Answered(receipt[k], call[c].res)]
    /\ old' = old \ {k}
    /\ call' = Moved(c, "answered", call[c].res)
    /\ UNCHANGED <<worked, done, forgotten>>

(* Settling must not fail the response: a D1 error is logged and swallowed. *)
SettleFails(c) ==
    /\ call[c].pc = "settle"
    /\ call' = Moved(c, "answered", call[c].res)
    /\ UNCHANGED <<receipt, old, worked, done, forgotten>>

(* The isolate dies or D1 refuses: a 5xx, or nothing, comes back. *)
Killed(c) ==
    /\ call[c].pc \in {"gates", "claim", "look", "run", "settle"}
    /\ call' = Moved(c, "answered", "error")
    /\ UNCHANGED <<receipt, old, worked, done, forgotten>>

Handle(c) ==
    \/ Gates(c) \/ Claim(c) \/ Look(c)
    \/ \E res \in Results : Run(c, res)
    \/ Settle(c) \/ SettleFails(c)

(* Two minutes pass over a claim nobody has settled. *)
ClaimAges(k) ==
    /\ receipt[k].state = "claimed" /\ k \notin old
    /\ old' = old \cup {k}
    /\ UNCHANGED <<receipt, call, worked, done, forgotten>>

(* session:prune, daily: rows fourteen days old go, whatever their state. *)
PruneReceipt(k) ==
    /\ receipt[k].state # "none"
    /\ receipt' = [receipt EXCEPT ![k] = NoReceipt]
    /\ old' = old \ {k}
    /\ forgotten' = [forgotten EXCEPT ![k] = forgotten[k] + 1]
    /\ UNCHANGED <<call, worked, done>>

-----------------------------------------------------------------------------
(* Requests whose handler is running under k. *)
Running(k) == {c \in Slot : call[c].key = k /\ call[c].pc = "run"}

(* A key's handler completes once, and once more only for every time its row
   was thrown away: a claim two minutes old, or a receipt fourteen days old.
   Releases after a 5xx, replays, lost answers and killed isolates add none. *)
RunsBounded == \A k \in Key : done[k] <= 1 + forgotten[k]

(* While the row has never been thrown away, no two requests run the handler
   of one key at a time. *)
OneAtATime ==
    \A k \in Key : forgotten[k] = 0 =>
        \A c, d \in Running(k) : c = d

(* The strengthening: every run that could still complete, or has still to
   release the key, is paid for by the row or by a forgotten one. *)
Unpaid(k) == {c \in Slot : /\ call[c].key = k
                           /\ \/ call[c].pc = "run"
                              \/ call[c].pc = "settle" /\ call[c].res = "error"}

ClaimInv ==
    \A k \in Key :
        /\ done[k] + Cardinality(Unpaid(k)) <=
              forgotten[k] + (IF receipt[k].state = "none" THEN 0 ELSE 1)
        /\ receipt[k].state = "none" => receipt[k] = NoReceipt

(* Until a row is thrown away, its claim belongs to one request, and nobody
   else is left to settle it. *)
Holders(k) == {c \in Slot : call[c].key = k /\ call[c].pc \in {"run", "settle"}}

HolderInv ==
    \A k \in Key : forgotten[k] = 0 =>
        \A c \in Holders(k) : receipt[k].state = "claimed" /\ Holders(k) = {c}
=============================================================================
