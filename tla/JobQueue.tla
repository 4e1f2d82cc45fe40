------------------------------ MODULE JobQueue -------------------------------
(***************************************************************************)
(* Background jobs: enqueue and runBatch of worker/src/services/jobs.ts,   *)
(* and consumeDeadLetters of dead_letters.ts.  The queue between them is   *)
(* Cloudflare's: it delivers in batches, at least once, counts deliveries, *)
(* takes back what a batch did not acknowledge, and moves a message to the *)
(* dead-letter queue after MaxRetries retries (wrangler.jsonc).            *)
(***************************************************************************)
EXTENDS Naturals, FiniteSets

CONSTANTS
    Job,          \* ids of jobs
    Worker,       \* invocations of queue() that run at the same time
    NoJob,
    NoHandler,    \* jobs of a type no module registered
    MaxAttempts,  \* MAX_ATTEMPTS, jobs.ts:56
    MaxRetries,   \* max_retries, wrangler.jsonc:52
    MaxBatch      \* max_batch_size, wrangler.jsonc:52

ASSUME JobAssumption == NoJob \notin Job /\ NoHandler \subseteq Job
ASSUME RetryAssumption == MaxRetries \in Nat /\ MaxAttempts = MaxRetries + 1
ASSUME BatchAssumption == MaxBatch \in Nat \ {0}

VARIABLES
    jobs,      \* CONTROL.jobs.state, "none" if the row was never written
    queue,     \* where the message is
    tries,     \* msg.attempts: deliveries so far
    worker,    \* per invocation: its batch, the message in hand, the await
    letters,   \* jobs with a row in CONTROL.dead_letters
    done,      \* jobs whose handler has returned
    refused    \* jobs whose handler threw SkipRetry

jobVars == <<jobs, queue, tries, worker, letters, done, refused>>

Unbatched == [batch |-> {}, job |-> NoJob, pc |-> "next"]

JobInit ==
    /\ jobs = [j \in Job |-> "none"]
    /\ queue = [j \in Job |-> "new"]
    /\ tries = [j \in Job |-> 0]
    /\ worker = [w \in Worker |-> Unbatched]
    /\ letters = {} /\ done = {} /\ refused = {}

(* setState: an UPDATE that touches nothing if there is no row, and whose
   failure is only logged. *)
SetState(j, state) ==
    \/ jobs' = [jobs EXCEPT ![j] = IF @ = "none" THEN @ ELSE state]
    \/ UNCHANGED jobs

-----------------------------------------------------------------------------
(***************************************************************************)
(* enqueue: the row, best effort, then the message.                        *)
(***************************************************************************)
InsertJob(j) ==
    /\ queue[j] = "new"
    /\ queue' = [queue EXCEPT ![j] = "recorded"]
    /\ \/ jobs' = [jobs EXCEPT ![j] = "pending"]
       \/ UNCHANGED jobs
    /\ UNCHANGED <<tries, worker, letters, done, refused>>

SendJob(j) ==
    /\ queue[j] = "recorded"
    /\ queue' = [queue EXCEPT ![j] = "waiting"]
    /\ UNCHANGED <<jobs, tries, worker, letters, done, refused>>

(* JOBS.send throws, or the caller dies first: the row says pending for ever. *)
SendFails(j) ==
    /\ queue[j] = "recorded"
    /\ queue' = [queue EXCEPT ![j] = "unsent"]
    /\ UNCHANGED <<jobs, tries, worker, letters, done, refused>>

-----------------------------------------------------------------------------
(***************************************************************************)
(* The queue.                                                              *)
(***************************************************************************)
Deliver(w, batch) ==
    /\ worker[w] = Unbatched
    /\ batch # {} /\ Cardinality(batch) <= MaxBatch
    /\ \A j \in batch : queue[j] = "waiting"
    /\ worker' = [worker EXCEPT ![w].batch = batch]
    /\ queue' = [j \in Job |-> IF j \in batch THEN "out" ELSE queue[j]]
    /\ tries' = [j \in Job |-> IF j \in batch THEN tries[j] + 1 ELSE tries[j]]
    /\ UNCHANGED <<jobs, letters, done, refused>>

(* Where a message goes that was delivered and not acknowledged. *)
Back(j) == IF tries[j] > MaxRetries THEN "dead" ELSE "waiting"

(* The invocation dies: everything in the batch goes back, run or not. *)
BatchDies(w) ==
    /\ worker[w].batch # {}
    /\ worker' = [worker EXCEPT ![w] = Unbatched]
    /\ queue' = [j \in Job |-> IF j \in worker[w].batch THEN Back(j) ELSE queue[j]]
    /\ UNCHANGED <<jobs, tries, letters, done, refused>>

-----------------------------------------------------------------------------
(***************************************************************************)
(* runBatch, one message after the other.                                  *)
(***************************************************************************)
At(w, pc) == worker[w].pc = pc
Goto(w, pc) == worker' = [worker EXCEPT ![w].pc = pc]

Leaves(w, place) ==
    LET j == worker[w].job
    IN /\ queue' = [queue EXCEPT ![j] = place]
       /\ worker' = [worker EXCEPT ![w] = [batch |-> worker[w].batch \ {j}, job |-> NoJob,
                                           pc |-> "next"]]

TakeNext(w, j) ==
    /\ At(w, "next") /\ j \in worker[w].batch
    /\ worker' = [worker EXCEPT ![w].job = j,
                                ![w].pc = IF j \in NoHandler THEN "ack" ELSE "run"]
    /\ SetState(j, IF j \in NoHandler THEN "archived" ELSE "active")
    /\ refused' = IF j \in NoHandler THEN refused \cup {j} ELSE refused
    /\ UNCHANGED <<queue, tries, letters, done>>

HandlerReturns(w) ==
    /\ At(w, "run")
    /\ done' = done \cup {worker[w].job}
    /\ Goto(w, "returned")
    /\ UNCHANGED <<jobs, queue, tries, letters, refused>>

HandlerThrows(w) ==
    /\ At(w, "run")
    /\ \/ Goto(w, "threw") /\ UNCHANGED refused
       \/ Goto(w, "skip") /\ refused' = refused \cup {worker[w].job}
    /\ UNCHANGED <<jobs, queue, tries, letters, done>>

(* Mutant: a failure is recorded under a name of its own. *)
OutcomeMisnamed(w) ==
    IF At(w, "returned") THEN "completed" ELSE "failed"

(* Mutant: the job is given up one delivery before the queue gives it up. *)
OutcomeEarly(w) ==
    CASE At(w, "returned") -> "completed"
      [] At(w, "skip") -> "archived"
      [] At(w, "threw") -> IF tries[worker[w].job] + 1 >= MaxAttempts THEN "archived" ELSE "retry"

Outcome(w) ==
    CASE At(w, "returned") -> "completed"
      [] At(w, "skip") -> "archived"
      [] At(w, "threw") -> IF tries[worker[w].job] >= MaxAttempts THEN "archived" ELSE "retry"

(* Mutant: a failed job is acknowledged too. *)
RecordOutcomeAcks(w) ==
    /\ worker[w].pc \in {"returned", "skip", "threw"}
    /\ SetState(worker[w].job, Outcome(w))
    /\ Goto(w, "ack")
    /\ UNCHANGED <<queue, tries, letters, done, refused>>

RecordOutcome(w) ==
    /\ worker[w].pc \in {"returned", "skip", "threw"}
    /\ SetState(worker[w].job, Outcome(w))
    /\ Goto(w, IF At(w, "threw") THEN "retry" ELSE "ack")
    /\ UNCHANGED <<queue, tries, letters, done, refused>>

Ack(w) ==
    /\ At(w, "ack")
    /\ Leaves(w, "acked")
    /\ UNCHANGED <<jobs, tries, letters, done, refused>>

RetryLater(w) ==
    /\ At(w, "retry")
    /\ Leaves(w, Back(worker[w].job))
    /\ UNCHANGED <<jobs, tries, letters, done, refused>>

-----------------------------------------------------------------------------
(***************************************************************************)
(* consumeDeadLetters: the record, then the state, then always ack; a dead *)
(* letter that could not be recorded is only logged.                       *)
(***************************************************************************)
RecordLetter(j) ==
    /\ queue[j] = "dead"
    /\ \/ /\ letters' = letters \cup {j}
          /\ queue' = [queue EXCEPT ![j] = "lettered"]
       \/ /\ queue' = [queue EXCEPT ![j] = "buried"]
          /\ UNCHANGED letters
    /\ UNCHANGED <<jobs, tries, worker, done, refused>>

(* Mutant: a recorded dead letter is not acknowledged. *)
BuryLetterUnacked(j) ==
    /\ queue[j] = "lettered"
    /\ queue' = [queue EXCEPT ![j] = "dead"]
    /\ SetState(j, "dead")
    /\ UNCHANGED <<tries, worker, letters, done, refused>>

BuryLetter(j) ==
    /\ queue[j] = "lettered"
    /\ queue' = [queue EXCEPT ![j] = "buried"]
    /\ SetState(j, "dead")
    /\ UNCHANGED <<tries, worker, letters, done, refused>>

(* The consumer dies between the two: the dead letter is delivered again. *)
LetterAgain(j) ==
    /\ queue[j] = "lettered"
    /\ queue' = [queue EXCEPT ![j] = "dead"]
    /\ UNCHANGED <<jobs, tries, worker, letters, done, refused>>

-----------------------------------------------------------------------------
Consume(w) ==
    \/ HandlerReturns(w) \/ HandlerThrows(w) \/ RecordOutcome(w)
    \/ Ack(w) \/ RetryLater(w)
    \/ \E j \in Job : TakeNext(w, j)

Bury(j) == RecordLetter(j) \/ BuryLetter(j) \/ LetterAgain(j)

QueueNext ==
    \/ \E j \in Job : Bury(j)
    \/ \E w \in Worker : Consume(w) \/ BatchDies(w)
    \/ \E w \in Worker, batch \in SUBSET Job : Deliver(w, batch)
=============================================================================
