------------------------------ MODULE CronTick -------------------------------
(***************************************************************************)
(* The every-minute tick of worker/src/services/cron.ts, for one entry of  *)
(* the schedule and one school, and the job queue it feeds.  Ticks may be  *)
(* skipped, overlap and die between any two awaits.                        *)
(***************************************************************************)
EXTENDS JobQueue

CONSTANTS
    Others,       \* jobs of the other callers of enqueue (bounds them)
    Tick,         \* ticks that run at the same time
    Occurrence,   \* the minutes the entry's cron spec matches
    Lookback,     \* MAX_LOOKBACK_MIN, cron.ts:140
    LastMinute    \* bounds the clock

ASSUME ClockAssumption == LastMinute \in Nat /\ Lookback \in Nat /\ Occurrence \subseteq Nat
ASSUME CallerAssumption == Others \subseteq Job

VARIABLES
    now,      \* the current minute
    last,     \* cron_runs.last_run_at; 0 before the entry is first seen
    base,     \* the last minute recorded by a tick that saw no row
    tick,     \* per tick: its minute, the job it queues, the await
    stamp     \* per job: the minute of the tick that queued it

cronVars == <<now, last, base, tick, stamp>>
vars == <<jobVars, cronVars>>

Resting == [pc |-> "rest", at |-> 0, job |-> NoJob, first |-> FALSE]

Init ==
    /\ JobInit
    /\ now = 1 /\ last = 0 /\ base = 0
    /\ tick = [t \in Tick |-> Resting]
    /\ stamp = [j \in Job |-> 0]

(* due(): an occurrence in (last, now], not looking back too far. *)
Due(from, to) == \E o \in Occurrence : from < o /\ to <= o + Lookback /\ o <= to

Minute ==
    /\ now < LastMinute
    /\ now' = now + 1
    /\ UNCHANGED <<jobVars, last, base, tick, stamp>>

(* Mutant: remember first, then enqueue. *)
EvaluateRemembering(t) ==
    /\ tick[t] = Resting /\ (last = 0 \/ Due(last, now))
    /\ last' = now
    /\ base' = IF last = 0 THEN now ELSE base
    /\ tick' = [tick EXCEPT ![t] = IF last = 0 THEN Resting
                                   ELSE [Resting EXCEPT !.pc = "enqueue", !.at = now]]
    /\ UNCHANGED <<jobVars, now, stamp>>

(* evaluate: one read of cron_runs.  An `only` that finds nothing to do, and an
   entry that is not due, end the tick here. *)
Evaluate(t) ==
    /\ tick[t] = Resting
    /\ \/ last = 0
       \/ Due(last, now)
    /\ tick' = [tick EXCEPT ![t] = [pc |-> IF last = 0 THEN "record" ELSE "enqueue",
                                    at |-> now, job |-> NoJob, first |-> (last = 0)]]
    /\ UNCHANGED <<jobVars, now, last, base, stamp>>

TickInserts(t, j) ==
    /\ tick[t].pc = "enqueue" /\ j \notin Others
    /\ InsertJob(j)
    /\ tick' = [tick EXCEPT ![t].pc = "send", ![t].job = j]
    /\ stamp' = [stamp EXCEPT ![j] = tick[t].at]
    /\ UNCHANGED <<now, last, base>>

(* Mutant: a queue that is down does not stop the tick. *)
TickSendsAnyway(t) ==
    /\ tick[t].pc = "send"
    /\ SendJob(tick[t].job) \/ SendFails(tick[t].job)
    /\ tick' = [tick EXCEPT ![t].pc = "record"]
    /\ UNCHANGED <<now, last, base, stamp>>

TickSends(t) ==
    /\ tick[t].pc = "send"
    /\ \/ SendJob(tick[t].job) /\ tick' = [tick EXCEPT ![t].pc = "record"]
       \/ SendFails(tick[t].job) /\ tick' = [tick EXCEPT ![t] = Resting]
    /\ UNCHANGED <<now, last, base, stamp>>

(* "Enqueue first, then remember". *)
Remember(t) ==
    /\ tick[t].pc = "record"
    /\ last' = tick[t].at
    /\ base' = IF tick[t].first THEN tick[t].at ELSE base
    /\ tick' = [tick EXCEPT ![t] = Resting]
    /\ UNCHANGED <<jobVars, now, stamp>>

TickDies(t) ==
    /\ tick[t].pc \in {"enqueue", "record"}
    /\ tick' = [tick EXCEPT ![t] = Resting]
    /\ UNCHANGED <<jobVars, now, last, base, stamp>>

Produce(j) ==
    /\ j \in Others
    /\ InsertJob(j) \/ SendJob(j) \/ SendFails(j)
    /\ UNCHANGED cronVars

Next ==
    \/ Minute
    \/ \E j \in Job : Produce(j)
    \/ \E t \in Tick : Evaluate(t) \/ TickSends(t) \/ Remember(t) \/ TickDies(t)
    \/ \E t \in Tick, j \in Job : TickInserts(t, j)
    \/ QueueNext /\ UNCHANGED cronVars

Spec == Init /\ [][Next]_vars

-----------------------------------------------------------------------------
(***************************************************************************)
(* What holds of jobs and ticks together.                                  *)
(***************************************************************************)
WorkerType == [batch : SUBSET Job, job : Job \cup {NoJob},
               pc : {"next", "run", "returned", "threw", "skip", "ack", "retry"}]

TickType == [pc : {"rest", "enqueue", "send", "record"}, at : Nat,
             job : Job \cup {NoJob}, first : BOOLEAN]

JobTypes ==
    /\ jobs \in [Job -> {"none", "pending", "active", "retry", "completed", "archived", "dead"}]
    /\ queue \in [Job -> {"new", "recorded", "unsent", "waiting", "out", "acked",
                          "dead", "lettered", "buried"}]
    /\ tries \in [Job -> Nat]
    /\ worker \in [Worker -> WorkerType]
    /\ letters \subseteq Job /\ done \subseteq Job /\ refused \subseteq Job

(* The columns of jobs and cron_runs, the queue's places and what each
   invocation holds keep their types. *)
TypeOK ==
    /\ JobTypes
    /\ now \in Nat /\ last \in Nat /\ base \in Nat
    /\ tick \in [Tick -> TickType] /\ stamp \in [Job -> Nat]

Sent(j) == queue[j] \notin {"new", "recorded", "unsent"}

(* A message is acknowledged only once its work is done, or its handler has
   said that no retry can help: whatever dies, no job is dropped silently. *)
AckedIsSettled == \A j \in Job : queue[j] = "acked" => j \in done \cup refused

(* What GET /jobs/{id} answers is true: 'completed' was done, 'archived' was
   refused by its handler or has had its last delivery (MAX_ATTEMPTS and
   max_retries agree to the delivery), 'dead' has its dead letter. *)
JobRowIsTrue ==
    \A j \in Job :
        /\ jobs[j] = "completed" => j \in done
        /\ jobs[j] = "archived" => j \in refused \/ tries[j] = MaxRetries + 1
        /\ jobs[j] = "dead" => j \in letters /\ queue[j] = "buried"

(* cron_runs is never ahead of the queue: a minute it remembers, other than the
   one an entry was first seen at, has a job sent for it or for a later one. *)
RunNotLost ==
    last # base => \E j \in Job : Sent(j) /\ stamp[j] >= last

(* The inductive invariant. *)
WorkerInv ==
    \A w \in Worker :
        /\ \A j \in worker[w].batch : queue[j] = "out"
        /\ \A v \in Worker \ {w} : worker[w].batch \cap worker[v].batch = {}
        /\ worker[w].pc = "next" <=> worker[w].job = NoJob
        /\ worker[w].pc # "next" => worker[w].job \in worker[w].batch
        /\ worker[w].pc = "returned" => worker[w].job \in done
        /\ worker[w].pc = "skip" => worker[w].job \in refused
        /\ worker[w].pc = "ack" => worker[w].job \in done \cup refused

TriesInv ==
    \A j \in Job :
        /\ tries[j] <= MaxRetries + 1
        /\ queue[j] \in {"new", "recorded", "waiting"} => tries[j] <= MaxRetries
        /\ queue[j] \in {"dead", "lettered", "buried"} => tries[j] = MaxRetries + 1
        /\ queue[j] = "lettered" => j \in letters

CronInv ==
    /\ RunNotLost
    /\ \A t \in Tick :
          /\ tick[t].pc = "send" \/ (tick[t].pc = "record" /\ ~tick[t].first) =>
                /\ tick[t].job \in Job /\ queue[tick[t].job] # "new"
                /\ stamp[tick[t].job] = tick[t].at
          /\ tick[t].pc = "record" /\ ~tick[t].first => Sent(tick[t].job)
          /\ tick[t].first => tick[t].pc = "record"

JobInv == WorkerInv /\ TriesInv /\ AckedIsSettled /\ JobRowIsTrue /\ CronInv

(***************************************************************************)
(* Liveness.  The queue delivers every message it holds, a consumer that   *)
(* does not die goes on, and the dead-letter consumer does not die at the  *)
(* same place for ever.  Nothing is assumed of the main consumer's deaths: *)
(* each of them uses up a delivery.                                        *)
(***************************************************************************)
QueueFairness ==
    /\ \A j \in Job :
          /\ SF_vars(\E w \in Worker, batch \in SUBSET Job :
                       j \in batch /\ Deliver(w, batch) /\ UNCHANGED cronVars)
          /\ WF_vars(RecordLetter(j) /\ UNCHANGED cronVars)
          /\ SF_vars(BuryLetter(j) /\ UNCHANGED cronVars)
    /\ \A w \in Worker : WF_vars(Consume(w) /\ UNCHANGED cronVars)

FairSpec == Spec /\ QueueFairness

(* A job that was sent is acknowledged, or ends as a dead letter, however often
   the consumers die: nothing circulates for ever. *)
SentIsDecided ==
    \A j \in Job : queue[j] = "waiting" ~> queue[j] \in {"acked", "buried"}
=============================================================================
