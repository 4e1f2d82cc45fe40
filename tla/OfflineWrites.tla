---------------------------- MODULE OfflineWrites -----------------------------
(***************************************************************************)
(* A person's writes on a bad line: web/src/lib/api.ts sends each press    *)
(* once, the outbox keeps what got no response and sends it again, and the *)
(* Worker's idempotency middleware is to make the repeats harmless.        *)
(* Requests and responses get lost; a request whose sender has given up    *)
(* runs on; every open tab flushes the same list.                          *)
(***************************************************************************)
EXTENDS Idempotency, Outbox

VARIABLE listener  \* [Slot -> who waits for the response]

vars == <<serverVars, outboxVars, listener>>

Listener == [kind : {"none", "screen", "pass"}, tab : Tab \cup {NoTab}]
Nobody == [kind |-> "none", tab |-> NoTab]

Init == ServerInit /\ OutboxInit /\ listener = [c \in Slot |-> Nobody]

(* Whoever waits, waits in a tab for a request. *)
Attended ==
    \A c \in Slot : listener[c].kind # "none" => listener[c].tab \in Tab /\ call[c].pc # "free"

(* Table, localStorage, page state and requests in flight keep their types. *)
TypeOK == ServerTypeOK /\ OutboxTypeOK /\ listener \in [Slot -> Listener] /\ Attended

Waits(c, kind) == listener[c].kind = kind

Sending(t) == \E c \in Slot : listener[c] = [kind |-> "pass", tab |-> t]

-----------------------------------------------------------------------------
(* A button is pressed: the key is minted once and the request sent. *)
Press(t, w, k, c) ==
    /\ row[w].state = "none" /\ who[t] # NoUser
    /\ Mint(k, w)
    /\ row' = [row EXCEPT ![w] = [state |-> "sending", key |-> k,
                               author |-> who[t], user |-> who[t], again |-> "no"]]
    /\ Arrive(c, k, cookie, w)
    /\ listener' = [listener EXCEPT ![c] = [kind |-> "screen", tab |-> t]]
    /\ UNCHANGED <<queue, pass, who, cookie>>

(* run(): the oldest row left of the pass, with the key the snapshot has. *)
SendNext(t, c) ==
    /\ ~Sending(t)
    /\ \E e \in Oldest(pass[t]) : Arrive(c, e[2], cookie, e[1])
    /\ listener' = [listener EXCEPT ![c] = [kind |-> "pass", tab |-> t]]
    /\ UNCHANGED outboxVars

(* run(): the row's backoff has not passed, so the pass ends. *)
BackOff(t) ==
    /\ pass[t] # {} /\ ~Sending(t)
    /\ EndPass(t)
    /\ UNCHANGED <<row, queue, minted, who, cookie, serverVars, listener>>

-----------------------------------------------------------------------------
Hung(c) == listener' = [listener EXCEPT ![c] = Nobody]

Free(c) ==
    /\ call' = [call EXCEPT ![c] = FreeSlot]
    /\ UNCHANGED <<receipt, old, worked, done, forgotten>>

(* The screen shows the answer, whatever it is, and nothing is queued. *)
ScreenAnswered(c) ==
    /\ Waits(c, "screen") /\ call[c].pc = "answered"
    /\ row' = [row EXCEPT ![call[c].write] = [row[call[c].write] EXCEPT !.state = "over"]]
    /\ Free(c) /\ Hung(c)
    /\ UNCHANGED <<queue, minted, pass, who, cookie>>

(* Mutant: a 5xx too is taken for the server's answer. *)
PassAnsweredTakes5xx(c) ==
    LET t == listener[c].tab IN
    /\ Waits(c, "pass") /\ call[c].pc = "answered"
    /\ row' = Marked(call[c].write, IF call[c].res = "error" THEN "ok" ELSE call[c].res)
    /\ pass' = [pass EXCEPT ![t] = pass[t] \ {<<call[c].write, call[c].key>>}]
    /\ Free(c) /\ Hung(c)
    /\ UNCHANGED <<queue, minted, who, cookie>>

(* run(): a 5xx keeps the row and ends the pass; any other answer marks it, if
   it is there to be marked, and the pass goes on. *)
PassAnswered(c) ==
    LET t == listener[c].tab
        w == call[c].write IN
    /\ Waits(c, "pass") /\ call[c].pc = "answered"
    /\ IF call[c].res = "error"
       THEN EndPass(t) /\ UNCHANGED row
       ELSE /\ pass' = [pass EXCEPT ![t] = pass[t] \ {<<w, call[c].key>>}]
            /\ \/ Listed(t, w) /\ row' = Marked(w, call[c].res)
               \/ (~Listed(t, w) \/ row[w].state = "sent") /\ UNCHANGED row
    /\ Free(c) /\ Hung(c)
    /\ UNCHANGED <<queue, minted, who, cookie>>

(* fetch rejects: the request never arrived, or its response was lost and the
   handler runs on.  A press goes to the outbox, a pass ends. *)
NoResponse(c) ==
    /\ listener[c] # Nobody
    /\ IF Waits(c, "screen")
       THEN /\ row' = Enqueued(call[c].write, who[listener[c].tab])
            /\ queue' = Append(queue, call[c].write)
            /\ UNCHANGED pass
       ELSE EndPass(listener[c].tab) /\ UNCHANGED <<row, queue>>
    /\ \/ call[c].pc = "gates" /\ Free(c)
       \/ UNCHANGED serverVars
    /\ Hung(c)
    /\ UNCHANGED <<minted, who, cookie>>

(* A response nobody waits for goes nowhere. *)
ResponseLost(c) ==
    /\ listener[c] = Nobody /\ call[c].pc = "answered"
    /\ Free(c)
    /\ UNCHANGED <<outboxVars, listener>>

(* The tab is closed or reloaded: its pass and its waiting screens are gone,
   and the new page takes the session of the cookie, and flushes. *)
Reload(t) ==
    /\ row' = [w \in Write |->
           IF \E c \in Slot : listener[c] = [kind |-> "screen", tab |-> t] /\ call[c].write = w
           THEN [row[w] EXCEPT !.state = "over"] ELSE row[w]]
    /\ pass' = [pass EXCEPT ![t] = Snapshot(row, cookie)]
    /\ who' = [who EXCEPT ![t] = cookie]
    /\ listener' = [c \in Slot |-> IF listener[c].tab = t THEN Nobody ELSE listener[c]]
    /\ UNCHANGED <<queue, minted, cookie, serverVars>>

(***************************************************************************)
(* A receipt is pruned at fourteen days, a row grows stale at seven: no    *)
(* request in flight, and no row within its first week, has a key that     *)
(* old.  A row whose week was restarted by Retry may have.                 *)
(***************************************************************************)
Prune(k) ==
    /\ \A c \in Slot : call[c].key # k
    /\ \A w \in Write : row[w].key = k => row[w].state # "pending" \/ row[w].again = "yes"
    /\ \A t \in Tab : \A e \in pass[t] : e[2] # k
    /\ PruneReceipt(k)
    /\ UNCHANGED <<outboxVars, listener>>

-----------------------------------------------------------------------------
Server ==
    /\ \/ \E c \in Slot : Handle(c) \/ Killed(c)
       \/ \E k \in Key : ClaimAges(k)
    /\ UNCHANGED <<outboxVars, listener>>

Person ==
    \/ \E t \in Tab, w \in Write, k \in Key, c \in Slot : Press(t, w, k, c)
    \/ /\ \/ \E t \in Tab, w \in Write : Discard(t, w)
          \/ \E t \in Tab, w \in Write, k \in Key : Retry(t, w, k)
          \/ \E u \in User \cup {NoUser} : SignIn(u)
       /\ UNCHANGED <<serverVars, listener>>
    \/ \E t \in Tab : Reload(t)

Page ==
    \/ \E t \in Tab : (StartPass(t) \/ SessionRefetched(t)) /\ UNCHANGED <<serverVars, listener>>
    \/ \E t \in Tab, c \in Slot : SendNext(t, c)
    \/ \E t \in Tab : BackOff(t)
    \/ \E w \in Write : GrowsStale(w) /\ UNCHANGED <<serverVars, listener>>

Network ==
    \E c \in Slot : ScreenAnswered(c) \/ PassAnswered(c) \/ NoResponse(c) \/ ResponseLost(c)

Next == Server \/ Person \/ Page \/ Network \/ \E k \in Key : Prune(k)

Spec == Init /\ [][Next]_vars

-----------------------------------------------------------------------------
(***************************************************************************)
(* What the outbox and the middleware promise together.                    *)
(***************************************************************************)
DoneUnder(w) == {k \in Key : w \in worked[k]}

(* The tick is true: a row shown as sent was done by the server, whichever
   attempt, tab or replay its answer came from. *)
SentMeansDone == \A w \in Write : row[w].state = "sent" => DoneUnder(w) # {}

(* A key names one press for good: in the table, in the requests, in the lists
   and in every snapshot of them.  So the middleware's idempotency_key_conflict
   is an answer this client never gets. *)
KeyNamesOnePress ==
    /\ \A k \in Key : receipt[k].state # "none" => receipt[k].write = minted[k]
    /\ \A c \in Slot : call[c].pc # "free" => call[c].write = minted[call[c].key]
    /\ \A w \in Write : row[w].key # NoKey => minted[row[w].key] = w
    /\ \A t \in Tab : \A e \in pass[t] : minted[e[2]] = e[1]
    /\ \A c \in Slot : call[c].res # "mismatch"

(* Until a key's row is thrown away, the answer stored under it is final.
   Settling updates by key alone, so a second request that ran, or one that
   settles late, would change what the repeats are told. *)
AnswerStands ==
    [][\A k \in Key :
          receipt[k].state = "answered" /\ forgotten'[k] = 0 => receipt'[k] = receipt[k]]_vars

(* An answer "ok", stored or on its way, repeats what a run of the same press
   gave. *)
AnswerInv ==
    /\ \A k \in Key : receipt[k].answer = "ok" => receipt[k].write \in worked[k]
    /\ \A c \in Slot : call[c].pc # "free" /\ call[c].res = "ok" =>
           call[c].write \in worked[call[c].key]

(* The inductive invariant of the proofs. *)
WriteInv == ClaimInv /\ KeyNamesOnePress /\ AnswerInv /\ SentMeansDone

-----------------------------------------------------------------------------
(***************************************************************************)
(* What a comment in the code says, and the code does not do.              *)
(***************************************************************************)

(* outbox.ts: the work happens once no matter how many times this file asks. *)
WorkHappensOnce == \A w \in Write : Cardinality(DoneUnder(w)) <= 1
=============================================================================
