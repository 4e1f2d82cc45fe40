-------------------------------- MODULE Outbox --------------------------------
(***************************************************************************)
(* The browser's offline outbox (web/src/lib/outbox.ts): the rows kept in  *)
(* localStorage, one list per account, and the flush passes of the open    *)
(* tabs.  localStorage is shared by the tabs and outlives them; a pass,    *)
(* and the user a tab thinks is signed in, do not outlive a reload.        *)
(*                                                                         *)
(* A read-modify-write of the list has no await inside, so it is atomic.   *)
(***************************************************************************)
EXTENDS Presses

VARIABLES
    row,     \* [Write -> Row]
    queue,   \* the writes in the order they were pushed, dropped ones included
    minted,  \* [Key -> the write it was minted for, or NoWrite]
    pass,    \* [Tab -> what is left of run()'s snapshot, a set of <<write, key>>]
    who,     \* [Tab -> User or NoUser], currentUser of the page
    cookie   \* the session cookie, one for all tabs

outboxVars == <<row, queue, minted, pass, who, cookie>>

(* "sending" and "over" are presses still, or no longer, with the screen that
   made them; "stale" is a row stateOf calls failed for its age alone.  A row
   "sent" more than two minutes ago may be gone: write() drops it. *)
Row == [state : {"none", "sending", "over", "pending", "stale",
                 "sent", "failed", "conflict", "discarded"},
        key : Key \cup {NoKey},
        author : User \cup {NoUser},   \* who pressed the button
        user : User \cup {NoUser},     \* whose list the row is in
        again : {"no", "yes"}]         \* queued_at was reset and the key kept

NoRow == [state |-> "none", key |-> NoKey, author |-> NoUser, user |-> NoUser, again |-> "no"]

OutboxTypeOK ==
    /\ row \in [Write -> Row]
    /\ queue \in Seq(Write)
    /\ minted \in [Key -> Write \cup {NoWrite}]
    /\ pass \in [Tab -> SUBSET (Write \X Key)]
    /\ who \in [Tab -> User \cup {NoUser}]
    /\ cookie \in User \cup {NoUser}

OutboxInit ==
    /\ row = [w \in Write |-> NoRow]
    /\ queue = <<>>
    /\ minted = [k \in Key |-> NoWrite]
    /\ pass = [t \in Tab |-> {}]
    /\ cookie \in User
    /\ who = [t \in Tab |-> cookie]

-----------------------------------------------------------------------------
(* read().filter(pending): what waits in u's list, each with its key. *)
Snapshot(rows, u) ==
    {e \in Write \X Key : LET w == e[1] IN
        rows[w].user = u /\ rows[w].state = "pending" /\ rows[w].key = e[2]}

(* The list is in the order of the pushes. *)
Before(v, w) == \E i, j \in 1..Len(queue) : i < j /\ queue[i] = v /\ queue[j] = w

Oldest(entries) == {e \in entries : \A f \in entries : ~Before(f[1], e[1])}

(* flush(): one pass per page at a time; a pass reads its rows once. *)
Flushed(t, rows, u) ==
    IF pass[t] # {} THEN pass ELSE [pass EXCEPT ![t] = Snapshot(rows, u)]

(* The timer, the online event, a page shown again, the service worker. *)
StartPass(t) ==
    /\ who[t] # NoUser /\ pass[t] = {}
    /\ Snapshot(row, who[t]) # {}
    /\ pass' = Flushed(t, row, who[t])
    /\ UNCHANGED <<row, queue, minted, who, cookie>>

EndPass(t) == pass' = [pass EXCEPT ![t] = {}]

(* enqueue, from takeOffline: the failed attempt's own key, in the list of the
   user the page has by now. *)
Enqueued(w, u) == [row EXCEPT ![w] = [row[w] EXCEPT !.state = "pending", !.user = u]]

(* Mutant: the server's word is shown as it came. *)
StateOfRaw(res) == res

(* How stateOf reads the status an answered row was given. *)
StateOf(res) ==
    CASE res = "ok" -> "sent"
      [] res = "refused" -> "failed"
      [] OTHER -> "conflict"        \* every 409, the middleware's own too

(* run() marks the row by its id, if the list of the page's user has it. *)
Listed(t, w) == row[w].user = who[t] /\ row[w].state # "discarded"

Marked(w, res) == [row EXCEPT ![w] = [row[w] EXCEPT !.state = StateOf(res)]]

-----------------------------------------------------------------------------
(* Mutant: the key is made from what several presses have in common. *)
MintColliding(k, w) == minted' = [minted EXCEPT ![k] = w]

(* crypto.randomUUID(): a key never given out before. *)
Mint(k, w) == minted[k] = NoWrite /\ minted' = [minted EXCEPT ![k] = w]

(* The Retry button.  An answered row gets a new key; one that only grew old
   keeps its key and starts a new week.  Then flush. *)
Retry(t, w, k) ==
    /\ row[w].user = who[t]
    /\ \/ /\ row[w].state \in {"failed", "conflict"}
          /\ Mint(k, w)
          /\ row' = [row EXCEPT ![w] = [row[w] EXCEPT
                !.state = "pending", !.key = k, !.again = "no"]]
       \/ /\ row[w].state = "stale" /\ k = row[w].key
          /\ row' = [row EXCEPT ![w] = [row[w] EXCEPT !.state = "pending", !.again = "yes"]]
          /\ UNCHANGED minted
    /\ pass' = Flushed(t, row', who[t])
    /\ UNCHANGED <<queue, who, cookie>>

Discard(t, w) ==
    /\ row[w].user = who[t]
    /\ row[w].state \in {"pending", "stale", "failed", "conflict"}
    /\ row' = [row EXCEPT ![w] = [row[w] EXCEPT !.state = "discarded"]]
    /\ UNCHANGED <<queue, minted, pass, who, cookie>>

(* GIVE_UP_AFTER_MS: a week passes over a row nobody has answered. *)
GrowsStale(w) ==
    /\ row[w].state = "pending"
    /\ row' = [row EXCEPT ![w] = [row[w] EXCEPT !.state = "stale"]]
    /\ UNCHANGED <<queue, minted, pass, who, cookie>>

(* Somebody signs in, or the session ends, in some tab: /login and /logout are
   full navigations of that tab, and the others are not told. *)
SignIn(u) ==
    /\ u # cookie
    /\ cookie' = u
    /\ UNCHANGED <<row, queue, minted, pass, who>>

(* The page asks for the session again: setOutboxUser follows the answer in
   place, and flushes.  A pass under way goes on with the rows it has read. *)
SessionRefetched(t) ==
    /\ cookie # NoUser /\ who[t] # cookie
    /\ who' = [who EXCEPT ![t] = cookie]
    /\ pass' = Flushed(t, row, cookie)
    /\ UNCHANGED <<row, queue, minted, cookie>>
=============================================================================
