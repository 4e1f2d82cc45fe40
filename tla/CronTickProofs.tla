---------------------------- MODULE CronTickProofs ---------------------------
(***************************************************************************)
(* Jobs and ticks, for any numbers of jobs, consumers, ticks and retries.  *)
(***************************************************************************)
EXTENDS CronTick, TLAPS

Places == {"new", "recorded", "unsent", "waiting", "out", "acked", "dead", "lettered", "buried"}
States == {"none", "pending", "active", "retry", "completed", "archived", "dead"}

LEMMA TypesInit == Init => TypeOK
BY JobAssumption
   DEF Init, JobInit, TypeOK, JobTypes, WorkerType, TickType, Unbatched, Resting

LEMMA SetStateTypes ==
    ASSUME NEW j \in Job, NEW state \in States, jobs \in [Job -> States], SetState(j, state)
    PROVE  jobs' \in [Job -> States]
BY DEF SetState, States

(* What Leaves does to the types. *)
LEMMA LeavesTypes ==
    ASSUME JobTypes, NEW w \in Worker, NEW place \in Places, worker[w].job \in Job,
           Leaves(w, place)
    PROVE  queue' \in [Job -> Places] /\ worker' \in [Worker -> WorkerType]
<1>1. [batch |-> worker[w].batch \ {worker[w].job}, job |-> NoJob, pc |-> "next"] \in WorkerType
  BY DEF JobTypes, WorkerType
<1>2. QED BY <1>1 DEF Leaves, JobTypes, Places

LEMMA GotoTypes ==
    ASSUME JobTypes, NEW w \in Worker,
           NEW pc \in {"next", "run", "returned", "threw", "skip", "ack", "retry"}, Goto(w, pc)
    PROVE  worker' \in [Worker -> WorkerType]
<1>1. [worker[w] EXCEPT !.pc = pc] \in WorkerType
  BY DEF JobTypes, WorkerType
<1>2. QED BY <1>1 DEF Goto, JobTypes

(* The three steps of enqueue. *)
LEMMA EnqueueTypes ==
    ASSUME JobTypes, NEW j \in Job, InsertJob(j) \/ SendJob(j) \/ SendFails(j)
    PROVE  JobTypes'
BY DEF JobTypes, InsertJob, SendJob, SendFails

LEMMA InHand ==
    ASSUME JobTypes, WorkerInv, NEW w \in Worker, worker[w].pc # "next"
    PROVE  worker[w].job \in Job /\ worker[w].job \in worker[w].batch
BY DEF JobTypes, WorkerInv, WorkerType

LEMMA ConsumeTypes ==
    ASSUME JobTypes, WorkerInv, NEW w \in Worker, Consume(w)
    PROVE  JobTypes'
<1> DEFINE job == worker[w].job
<1>0. jobs \in [Job -> States]
  BY DEF JobTypes, States
<1>1. CASE HandlerReturns(w)
  <2>1. job \in Job
    BY <1>1, InHand DEF HandlerReturns, At
  <2>2. worker' \in [Worker -> WorkerType]
    BY <1>1, GotoTypes DEF HandlerReturns
  <2>3. QED BY <1>1, <2>1, <2>2 DEF HandlerReturns, JobTypes
<1>2. CASE HandlerThrows(w)
  <2>1. job \in Job
    BY <1>2, InHand DEF HandlerThrows, At
  <2>2. worker' \in [Worker -> WorkerType]
    BY <1>2, GotoTypes DEF HandlerThrows
  <2>3. QED BY <1>2, <2>1, <2>2 DEF HandlerThrows, JobTypes
<1>3. CASE RecordOutcome(w)
  <2>1. job \in Job
    BY <1>3, InHand DEF RecordOutcome
  <2>2. worker' \in [Worker -> WorkerType]
    BY <1>3, GotoTypes DEF RecordOutcome
  <2>3. Outcome(w) \in States
    BY <1>3 DEF RecordOutcome, Outcome, At, States
  <2>4. jobs' \in [Job -> States]
    BY <1>0, <1>3, <2>1, <2>3, SetStateTypes DEF RecordOutcome
  <2>5. QED BY <1>3, <2>2, <2>4 DEF RecordOutcome, JobTypes, States
<1>4. CASE Ack(w)
  <2>1. job \in Job
    BY <1>4, InHand DEF Ack, At
  <2>2. queue' \in [Job -> Places] /\ worker' \in [Worker -> WorkerType]
    BY <1>4, <2>1, LeavesTypes DEF Ack, Places
  <2>3. QED BY <1>4, <2>2 DEF Ack, JobTypes, Places
<1>5. CASE RetryLater(w)
  <2>1. job \in Job
    BY <1>5, InHand DEF RetryLater, At
  <2>2. Back(job) \in Places
    BY DEF Back, Places
  <2>3. queue' \in [Job -> Places] /\ worker' \in [Worker -> WorkerType]
    BY <1>5, <2>1, <2>2, LeavesTypes DEF RetryLater
  <2>4. QED BY <1>5, <2>3 DEF RetryLater, JobTypes, Places
<1>6. ASSUME NEW j \in Job, TakeNext(w, j) PROVE JobTypes'
  <2>1. \A pc \in {"ack", "run"} : [worker[w] EXCEPT !.job = j, !.pc = pc] \in WorkerType
    BY DEF JobTypes, WorkerType
  <2>2. worker' = [worker EXCEPT ![w] = [worker[w] EXCEPT !.job = j,
                                 !.pc = IF j \in NoHandler THEN "ack" ELSE "run"]]
    BY <1>6 DEF TakeNext
  <2>3. worker' \in [Worker -> WorkerType]
    BY <2>1, <2>2 DEF JobTypes
  <2>4. jobs' \in [Job -> States]
    BY <1>0, <1>6, SetStateTypes DEF TakeNext, States
  <2>5. QED BY <1>6, <2>3, <2>4 DEF TakeNext, JobTypes, States
<1>7. QED BY <1>1, <1>2, <1>3, <1>4, <1>5, <1>6 DEF Consume

LEMMA QueueTypes ==
    ASSUME JobTypes, WorkerInv, QueueNext
    PROVE  JobTypes'
<1>1. ASSUME NEW j \in Job, Bury(j) PROVE JobTypes'
  <2>1. CASE BuryLetter(j)
    <3>1. jobs' \in [Job -> States]
      BY <2>1, SetStateTypes DEF BuryLetter, States, JobTypes
    <3>2. QED BY <2>1, <3>1 DEF BuryLetter, JobTypes, States
  <2>2. QED BY <1>1, <2>1 DEF Bury, RecordLetter, LetterAgain, JobTypes
<1>2. ASSUME NEW w \in Worker, BatchDies(w) PROVE JobTypes'
  <2>1. Unbatched \in WorkerType
    BY DEF Unbatched, WorkerType
  <2>2. \A j \in Job : Back(j) \in Places
    BY DEF Back, Places
  <2>3. worker' \in [Worker -> WorkerType]
    BY <1>2, <2>1 DEF BatchDies, JobTypes
  <2>4. queue' \in [Job -> Places]
    BY <1>2, <2>2 DEF BatchDies, JobTypes, Places
  <2>5. QED BY <1>2, <2>3, <2>4 DEF BatchDies, JobTypes, Places
<1>3. ASSUME NEW w \in Worker, NEW batch \in SUBSET Job, Deliver(w, batch) PROVE JobTypes'
  <2>1. [worker[w] EXCEPT !.batch = batch] \in WorkerType
    BY DEF JobTypes, WorkerType
  <2>2. worker' \in [Worker -> WorkerType]
    BY <1>3, <2>1 DEF Deliver, JobTypes
  <2>3. queue' \in [Job -> Places] /\ tries' \in [Job -> Nat]
    BY <1>3 DEF Deliver, JobTypes, Places
  <2>4. QED BY <1>3, <2>2, <2>3 DEF Deliver, JobTypes, Places
<1>4. QED BY <1>1, <1>2, <1>3, ConsumeTypes DEF QueueNext

LEMMA TypesNext == TypeOK /\ WorkerInv /\ CronInv /\ [Next]_vars => TypeOK'
<1> SUFFICES ASSUME TypeOK, WorkerInv, CronInv, [Next]_vars PROVE TypeOK'
  OBVIOUS
<1> USE ClockAssumption
<1>0. JobTypes
  BY DEF TypeOK
<1>1. CASE UNCHANGED vars
  BY <1>1 DEF vars, jobVars, cronVars, TypeOK, JobTypes
<1>2. CASE Minute
  <2>1. JobTypes'
    BY <1>0, <1>2 DEF Minute, jobVars, JobTypes
  <2>2. QED BY <1>2, <2>1 DEF Minute, TypeOK
<1>3. ASSUME NEW j \in Job, Produce(j) PROVE TypeOK'
  <2>1. JobTypes'
    BY <1>0, <1>3, EnqueueTypes DEF Produce
  <2>2. QED BY <1>3, <2>1 DEF Produce, cronVars, TypeOK
<1>4. ASSUME NEW t \in Tick, Evaluate(t) \/ Remember(t) \/ TickDies(t) PROVE TypeOK'
  <2>1. JobTypes'
    BY <1>0, <1>4 DEF Evaluate, Remember, TickDies, jobVars, JobTypes
  <2>2. tick[t] \in TickType /\ tick[t].at \in Nat
    BY DEF TypeOK, TickType
  <2>3. Resting \in TickType /\ \A pc \in {"record", "enqueue"} :
          [pc |-> pc, at |-> now, job |-> NoJob, first |-> (last = 0)] \in TickType
    BY DEF TypeOK, TickType, Resting
  <2>4. tick' \in [Tick -> TickType]
    BY <1>4, <2>3 DEF TypeOK, Evaluate, Remember, TickDies
  <2>5. QED BY <1>4, <2>1, <2>2, <2>4 DEF Evaluate, Remember, TickDies, TypeOK
<1>5. ASSUME NEW t \in Tick, TickSends(t) PROVE TypeOK'
  <2>1. tick[t].job \in Job
    BY <1>5 DEF TickSends, CronInv
  <2>2. JobTypes'
    BY <1>0, <1>5, <2>1, EnqueueTypes DEF TickSends
  <2>3. Resting \in TickType /\ [tick[t] EXCEPT !.pc = "record"] \in TickType
    BY DEF TypeOK, TickType, Resting
  <2>4. tick' \in [Tick -> TickType]
    BY <1>5, <2>3 DEF TypeOK, TickSends
  <2>5. QED BY <1>5, <2>2, <2>4 DEF TickSends, TypeOK
<1>6. ASSUME NEW t \in Tick, NEW j \in Job, TickInserts(t, j) PROVE TypeOK'
  <2>1. JobTypes'
    BY <1>0, <1>6, EnqueueTypes DEF TickInserts
  <2>2. [tick[t] EXCEPT !.pc = "send", !.job = j] \in TickType /\ tick[t].at \in Nat
    BY DEF TypeOK, TickType
  <2>3. tick' = [tick EXCEPT ![t] = [tick[t] EXCEPT !.pc = "send", !.job = j]]
    BY <1>6 DEF TickInserts
  <2>4. QED BY <1>6, <2>1, <2>2, <2>3 DEF TickInserts, TypeOK
<1>7. CASE QueueNext /\ UNCHANGED cronVars
  <2>1. JobTypes'
    BY <1>0, <1>7, QueueTypes
  <2>2. QED BY <1>7, <2>1 DEF cronVars, TypeOK
<1>8. QED BY <1>1, <1>2, <1>3, <1>4, <1>5, <1>6, <1>7 DEF Next

-----------------------------------------------------------------------------
QueueInv == WorkerInv /\ TriesInv /\ AckedIsSettled /\ JobRowIsTrue

LEMMA InvInit == Init => JobInv
<1> SUFFICES ASSUME Init PROVE JobInv
  OBVIOUS
<1>1. WorkerInv
  BY JobAssumption DEF Init, JobInit, WorkerInv, Unbatched
<1>2. TriesInv /\ AckedIsSettled /\ JobRowIsTrue
  BY RetryAssumption DEF Init, JobInit, TriesInv, AckedIsSettled, JobRowIsTrue
<1>3. CronInv
  BY DEF Init, CronInv, RunNotLost, Resting
<1>4. QED BY <1>1, <1>2, <1>3 DEF JobInv

(* A message that no consumer holds moves on. *)
LEMMA MoveInv ==
    ASSUME JobTypes, QueueInv, NEW j \in Job, NEW place,
           queue[j] \notin {"out", "buried"}, place \notin {"out", "acked"},
           queue' = [queue EXCEPT ![j] = place],
           place \in {"new", "recorded", "waiting"} => tries[j] <= MaxRetries,
           place \in {"dead", "lettered", "buried"} => tries[j] = MaxRetries + 1,
           place = "lettered" => j \in letters', letters \subseteq letters',
           \A i \in Job : jobs'[i] # jobs[i] =>
               i = j /\ (jobs'[i] = "pending" \/ (jobs'[i] = "dead" /\ place = "buried" /\ j \in letters)),
           UNCHANGED <<tries, worker, done, refused>>
    PROVE  QueueInv'
<1>1. \A i \in Job : queue'[i] = IF i = j THEN place ELSE queue[i]
  BY DEF JobTypes
<1>2. tries' = tries /\ worker' = worker /\ done' = done /\ refused' = refused
  OBVIOUS
<1>3. WorkerInv'
  <2>1. \A w \in Worker : j \notin worker[w].batch
    BY DEF QueueInv, WorkerInv
  <2>2. \A w \in Worker : worker[w].batch \subseteq Job
    BY DEF JobTypes, WorkerType
  <2>3. QED BY <1>1, <1>2, <2>1, <2>2 DEF QueueInv, WorkerInv
<1>4. TriesInv'
  BY <1>1, <1>2 DEF QueueInv, TriesInv
<1>5. AckedIsSettled'
  BY <1>1, <1>2 DEF QueueInv, AckedIsSettled
<1>6. JobRowIsTrue'
  BY <1>1, <1>2 DEF QueueInv, JobRowIsTrue
<1>7. QED BY <1>3, <1>4, <1>5, <1>6 DEF QueueInv

LEMMA EnqueueInv ==
    ASSUME JobTypes, QueueInv, NEW j \in Job, InsertJob(j) \/ SendJob(j) \/ SendFails(j)
    PROVE  QueueInv'
<1>1. PICK place \in {"recorded", "waiting", "unsent"} : queue' = [queue EXCEPT ![j] = place]
  BY DEF InsertJob, SendJob, SendFails
<1>2. /\ queue[j] \in {"new", "recorded"} /\ tries[j] <= MaxRetries
      /\ UNCHANGED <<tries, worker, letters, done, refused>>
  BY DEF InsertJob, SendJob, SendFails, QueueInv, TriesInv
<1>3. \A i \in Job : jobs'[i] # jobs[i] => i = j /\ jobs'[i] = "pending"
  BY DEF InsertJob, SendJob, SendFails, JobTypes
<1>4. QED BY <1>1, <1>2, <1>3, MoveInv

LEMMA BuryInv ==
    ASSUME JobTypes, QueueInv, NEW j \in Job, Bury(j)
    PROVE  QueueInv'
<1>1. PICK place \in {"dead", "lettered", "buried"} : queue' = [queue EXCEPT ![j] = place]
  BY DEF Bury, RecordLetter, BuryLetter, LetterAgain
<1>2. /\ queue[j] \in {"dead", "lettered"} /\ letters \subseteq letters'
      /\ UNCHANGED <<tries, worker, done, refused>>
  BY DEF Bury, RecordLetter, BuryLetter, LetterAgain
<1>3. tries[j] = MaxRetries + 1
  BY <1>2 DEF QueueInv, TriesInv
<1>4. place = "lettered" => j \in letters'
  BY <1>1 DEF Bury, RecordLetter, BuryLetter, LetterAgain, JobTypes
<1>5. \A i \in Job : jobs'[i] # jobs[i] =>
          i = j /\ jobs'[i] = "dead" /\ place = "buried" /\ j \in letters
  <2>1. CASE BuryLetter(j)
    <3>1. j \in letters
      BY <2>1 DEF BuryLetter, QueueInv, TriesInv
    <3>2. place = "buried"
      BY <1>1, <2>1 DEF BuryLetter, JobTypes
    <3>3. \A i \in Job : jobs'[i] # jobs[i] => i = j /\ jobs'[i] = "dead"
      BY <2>1 DEF BuryLetter, SetState, JobTypes
    <3>4. QED BY <3>1, <3>2, <3>3
  <2>2. CASE ~BuryLetter(j)
    BY <2>2 DEF Bury, RecordLetter, LetterAgain
  <2>3. QED BY <2>1, <2>2
<1>6. QED BY <1>1, <1>2, <1>3, <1>4, <1>5, MoveInv

(* A consumer goes on with the message in hand: only its own place, and the
   row of that message, change. *)
LEMMA HoldInv ==
    ASSUME JobTypes, QueueInv, NEW w \in Worker, NEW j \in worker[w].batch, NEW pc,
           worker' = [worker EXCEPT ![w] = [batch |-> worker[w].batch, job |-> j, pc |-> pc]],
           pc \in {"run", "returned", "threw", "skip", "ack", "retry"},
           pc = "returned" => j \in done', pc = "skip" => j \in refused',
           pc = "ack" => j \in done' \cup refused',
           done \subseteq done', refused \subseteq refused',
           \A i \in Job : jobs'[i] # jobs[i] =>
               /\ i = j /\ jobs'[i] # "dead"
               /\ jobs'[i] = "completed" => j \in done'
               /\ jobs'[i] = "archived" => j \in refused' \/ tries[j] = MaxRetries + 1,
           UNCHANGED <<queue, tries, letters>>
    PROVE  QueueInv'
<1>0. j \in Job
  BY DEF JobTypes, WorkerType
<1>1. \A v \in Worker : worker'[v] = IF v = w
                             THEN [batch |-> worker[w].batch, job |-> j, pc |-> pc]
                             ELSE worker[v]
  BY DEF JobTypes
<1>2. queue' = queue /\ tries' = tries /\ letters' = letters
  OBVIOUS
<1>3. WorkerInv'
  <2>1. \A v \in Worker : worker'[v].batch = worker[v].batch
    BY <1>1
  <2>2. j # NoJob
    BY <1>0, JobAssumption
  <2>3. ASSUME NEW v \in Worker
        PROVE  /\ \A i \in worker'[v].batch : queue'[i] = "out"
               /\ \A u \in Worker \ {v} : worker'[v].batch \cap worker'[u].batch = {}
    BY <1>2, <2>1 DEF QueueInv, WorkerInv
  <2>4. ASSUME NEW v \in Worker
        PROVE  /\ worker'[v].pc = "next" <=> worker'[v].job = NoJob
               /\ worker'[v].pc # "next" => worker'[v].job \in worker'[v].batch
               /\ worker'[v].pc = "returned" => worker'[v].job \in done'
               /\ worker'[v].pc = "skip" => worker'[v].job \in refused'
               /\ worker'[v].pc = "ack" => worker'[v].job \in done' \cup refused'
    <3>1. CASE v = w
      BY <1>1, <2>2, <3>1
    <3>2. CASE v # w
      BY <1>1, <3>2 DEF QueueInv, WorkerInv
    <3>3. QED BY <3>1, <3>2
  <2>5. QED BY <2>3, <2>4 DEF WorkerInv
<1>4. TriesInv' /\ AckedIsSettled'
  BY <1>2 DEF QueueInv, TriesInv, AckedIsSettled
<1>5. JobRowIsTrue'
  BY <1>0, <1>2 DEF QueueInv, JobRowIsTrue
<1>6. QED BY <1>3, <1>4, <1>5 DEF QueueInv

(* A message leaves the batch. *)
LEMMA LeaveInv ==
    ASSUME JobTypes, QueueInv, NEW w \in Worker, worker[w].pc # "next", NEW place, Leaves(w, place),
           \/ place = "acked" /\ worker[w].job \in done \cup refused
           \/ place = Back(worker[w].job),
           UNCHANGED <<jobs, tries, letters, done, refused>>
    PROVE  QueueInv'
<1>j. PICK j \in Job : j = worker[w].job /\ j \in worker[w].batch
  BY InHand DEF QueueInv
<1>1. \A i \in Job : queue'[i] = IF i = j THEN place ELSE queue[i]
  BY <1>j DEF Leaves, JobTypes
<1>2. \A v \in Worker : worker'[v] = IF v = w
                             THEN [batch |-> worker[w].batch \ {j}, job |-> NoJob, pc |-> "next"]
                             ELSE worker[v]
  BY <1>j DEF Leaves, JobTypes
<1>3. /\ jobs' = jobs /\ tries' = tries /\ letters' = letters
      /\ done' = done /\ refused' = refused
  OBVIOUS
<1>4. queue[j] = "out" /\ tries[j] \in Nat /\ tries[j] <= MaxRetries + 1
  BY <1>j DEF QueueInv, WorkerInv, TriesInv, JobTypes
<1>5. \/ place = "acked" /\ j \in done \cup refused
      \/ place = "dead" /\ tries[j] = MaxRetries + 1
      \/ place = "waiting" /\ tries[j] <= MaxRetries
  BY <1>j, <1>4, RetryAssumption DEF Back
<1>6. WorkerInv'
  <2>1. \A v \in Worker \ {w} : j \notin worker[v].batch
    BY <1>j DEF QueueInv, WorkerInv
  <2>2. \A v \in Worker : worker[v].batch \subseteq Job
    BY DEF JobTypes, WorkerType
  <2>3. \A v \in Worker : worker'[v].batch = IF v = w THEN worker[v].batch \ {j} ELSE worker[v].batch
    BY <1>2
  <2>4. ASSUME NEW v \in Worker
        PROVE  /\ \A i \in worker'[v].batch : queue'[i] = "out"
               /\ \A u \in Worker \ {v} : worker'[v].batch \cap worker'[u].batch = {}
    <3>1. \A i \in worker'[v].batch : i \in worker[v].batch /\ i # j /\ i \in Job
      BY <2>1, <2>2, <2>3
    <3>2. \A u \in Worker : worker'[u].batch \subseteq worker[u].batch
      BY <2>3
    <3>3. QED BY <1>1, <3>1, <3>2 DEF QueueInv, WorkerInv
  <2>5. ASSUME NEW v \in Worker
        PROVE  /\ worker'[v].pc = "next" <=> worker'[v].job = NoJob
               /\ worker'[v].pc # "next" => worker'[v].job \in worker'[v].batch
               /\ worker'[v].pc = "returned" => worker'[v].job \in done'
               /\ worker'[v].pc = "skip" => worker'[v].job \in refused'
               /\ worker'[v].pc = "ack" => worker'[v].job \in done' \cup refused'
    <3>1. CASE v = w
      BY <1>2, <3>1
    <3>2. CASE v # w
      BY <1>2, <1>3, <3>2 DEF QueueInv, WorkerInv
    <3>3. QED BY <3>1, <3>2
  <2>6. QED BY <2>4, <2>5 DEF WorkerInv
<1>7. TriesInv'
  BY <1>1, <1>3, <1>4, <1>5 DEF QueueInv, TriesInv
<1>8. AckedIsSettled'
  BY <1>1, <1>3, <1>5 DEF QueueInv, AckedIsSettled
<1>9. JobRowIsTrue'
  BY <1>1, <1>3, <1>4 DEF QueueInv, JobRowIsTrue
<1>10. QED BY <1>6, <1>7, <1>8, <1>9 DEF QueueInv

LEMMA ConsumeInv ==
    ASSUME JobTypes, QueueInv, NEW w \in Worker, Consume(w)
    PROVE  QueueInv'
<1> DEFINE held(job, pc) == [batch |-> worker[w].batch, job |-> job, pc |-> pc]
<1>0. worker[w] \in WorkerType
  BY DEF JobTypes
<1>a. ASSUME NEW pc, worker[w].pc # "next"
      PROVE  [worker[w] EXCEPT !.pc = pc] = held(worker[w].job, pc)
  BY <1>0 DEF WorkerType
<1>b. worker[w].pc # "next" => worker[w].job \in Job /\ worker[w].job \in worker[w].batch
  BY InHand DEF QueueInv
<1>1. CASE HandlerReturns(w)
  <2>1. PICK pc \in {"returned"} : worker' = [worker EXCEPT ![w] = held(worker[w].job, pc)]
    BY <1>1, <1>a DEF HandlerReturns, At, Goto
  <2>2. worker[w].pc # "next" /\ worker[w].job \in done' /\ done \subseteq done'
    BY <1>1 DEF HandlerReturns, At
  <2>3. jobs' = jobs /\ refused' = refused /\ UNCHANGED <<queue, tries, letters>>
    BY <1>1 DEF HandlerReturns
  <2>4. QED BY <1>b, <2>1, <2>2, <2>3, HoldInv
<1>2. CASE HandlerThrows(w)
  <2>1. PICK pc \in {"threw", "skip"} :
          /\ worker' = [worker EXCEPT ![w] = held(worker[w].job, pc)]
          /\ pc = "skip" => worker[w].job \in refused'
    BY <1>2, <1>a DEF HandlerThrows, At, Goto
  <2>2. refused \subseteq refused' /\ UNCHANGED <<jobs, queue, tries, letters, done>>
    BY <1>2 DEF HandlerThrows
  <2>3. worker[w].pc # "next"
    BY <1>2 DEF HandlerThrows, At
  <2>4. QED BY <1>b, <2>1, <2>2, <2>3, HoldInv
<1>3. CASE RecordOutcome(w)
  <2> DEFINE j == worker[w].job
  <2>1. /\ worker[w].pc \in {"returned", "skip", "threw"}
        /\ UNCHANGED <<queue, tries, letters, done, refused>>
    BY <1>3 DEF RecordOutcome
  <2>2. PICK pc \in {"retry", "ack"} :
          /\ worker' = [worker EXCEPT ![w] = held(j, pc)]
          /\ pc = "ack" => worker[w].pc # "threw"
    BY <1>3, <1>a, <2>1 DEF RecordOutcome, At, Goto
  <2>3. pc = "ack" => j \in done' \cup refused'
    BY <2>1, <2>2 DEF QueueInv, WorkerInv
  <2>4. j \in Job /\ j \in worker[w].batch
    BY <1>b, <2>1
  <2>5. /\ Outcome(w) # "dead"
        /\ Outcome(w) = "completed" => j \in done'
        /\ Outcome(w) = "archived" => j \in refused' \/ tries[j] = MaxRetries + 1
    <3>1. tries[j] \in Nat /\ tries[j] <= MaxRetries + 1
      BY <2>4 DEF QueueInv, TriesInv, JobTypes
    <3>2. CASE worker[w].pc = "returned"
      BY <2>1, <3>2 DEF Outcome, At, QueueInv, WorkerInv
    <3>3. CASE worker[w].pc = "skip"
      BY <2>1, <3>3 DEF Outcome, At, QueueInv, WorkerInv
    <3>4. CASE worker[w].pc = "threw"
      BY <3>1, <3>4, RetryAssumption DEF Outcome, At
    <3>5. QED BY <2>1, <3>2, <3>3, <3>4
  <2>6. \A i \in Job : jobs'[i] # jobs[i] => i = j /\ jobs'[i] = Outcome(w)
    BY <1>3, <2>4 DEF RecordOutcome, SetState, JobTypes
  <2>7. \A i \in Job : jobs'[i] # jobs[i] =>
            /\ i = j /\ jobs'[i] # "dead"
            /\ jobs'[i] = "completed" => j \in done'
            /\ jobs'[i] = "archived" => j \in refused' \/ tries[j] = MaxRetries + 1
    BY <2>5, <2>6
  <2>8. done \subseteq done' /\ refused \subseteq refused' /\ UNCHANGED <<queue, tries, letters>>
    BY <2>1
  <2> HIDE DEF j
  <2>9. QED BY <2>2, <2>3, <2>4, <2>7, <2>8, HoldInv
<1>4. CASE Ack(w)
  <2>1. worker[w].pc # "next" /\ worker[w].job \in done \cup refused
    BY <1>4 DEF Ack, At, QueueInv, WorkerInv
  <2>2. QED BY <1>4, <2>1, LeaveInv DEF Ack
<1>5. CASE RetryLater(w)
  BY <1>5, LeaveInv DEF RetryLater, At
<1>6. ASSUME NEW j \in Job, TakeNext(w, j) PROVE QueueInv'
  <2>1. j \in worker[w].batch /\ UNCHANGED <<queue, tries, letters, done>>
    BY <1>6 DEF TakeNext
  <2>2. PICK pc \in {"ack", "run"} :
          /\ worker' = [worker EXCEPT ![w] = held(j, pc)]
          /\ pc = "ack" => j \in refused'
    <3>1. ASSUME NEW pc PROVE [worker[w] EXCEPT !.job = j, !.pc = pc] = held(j, pc)
      <4>1. [worker[w] EXCEPT !.job = j] = held(j, worker[w].pc)
        BY <1>0 DEF WorkerType
      <4>2. [held(j, worker[w].pc) EXCEPT !.pc = pc] = held(j, pc)
        OBVIOUS
      <4>3. [worker[w] EXCEPT !.job = j, !.pc = pc]
              = [[worker[w] EXCEPT !.job = j] EXCEPT !.pc = pc]
        BY <1>0 DEF WorkerType
      <4>4. QED BY <4>1, <4>2, <4>3
    <3>2. worker' = [worker EXCEPT ![w] = [worker[w] EXCEPT !.job = j,
                                   !.pc = IF j \in NoHandler THEN "ack" ELSE "run"]]
      BY <1>6 DEF TakeNext
    <3>3. j \in NoHandler => j \in refused'
      BY <1>6 DEF TakeNext
    <3> HIDE DEF held
    <3>4. QED BY <3>1, <3>2, <3>3
  <2>3. refused \subseteq refused'
    BY <1>6 DEF TakeNext
  <2>4. \A i \in Job : jobs'[i] # jobs[i] =>
            /\ i = j /\ jobs'[i] \notin {"dead", "completed"}
            /\ jobs'[i] = "archived" => j \in refused'
    BY <1>6 DEF TakeNext, SetState, JobTypes
  <2>5. \A i \in Job : jobs'[i] # jobs[i] =>
            /\ i = j /\ jobs'[i] # "dead"
            /\ jobs'[i] = "completed" => j \in done'
            /\ jobs'[i] = "archived" => j \in refused' \/ tries[j] = MaxRetries + 1
    BY <2>4
  <2>6. done \subseteq done' /\ UNCHANGED <<queue, tries, letters>>
    BY <2>1
  <2>7. QED BY <2>1, <2>2, <2>3, <2>5, <2>6, HoldInv
<1>7. QED BY <1>1, <1>2, <1>3, <1>4, <1>5, <1>6 DEF Consume

LEMMA BatchDiesInv ==
    ASSUME JobTypes, QueueInv, NEW w \in Worker, BatchDies(w)
    PROVE  QueueInv'
<1> DEFINE batch == worker[w].batch
<1>1. \A j \in Job : queue'[j] = IF j \in batch THEN Back(j) ELSE queue[j]
  BY DEF BatchDies
<1>2. \A v \in Worker : worker'[v] = IF v = w THEN Unbatched ELSE worker[v]
  BY DEF BatchDies, JobTypes
<1>3. /\ jobs' = jobs /\ tries' = tries /\ letters' = letters
      /\ done' = done /\ refused' = refused
  BY DEF BatchDies
<1>4. \A j \in batch : /\ queue[j] = "out" /\ j \in Job
                       /\ \/ Back(j) = "dead" /\ tries[j] = MaxRetries + 1
                          \/ Back(j) = "waiting" /\ tries[j] <= MaxRetries
  BY RetryAssumption DEF QueueInv, WorkerInv, TriesInv, JobTypes, WorkerType, Back
<1>5. Unbatched.batch = {} /\ Unbatched.job = NoJob /\ Unbatched.pc = "next"
  BY DEF Unbatched
<1>6. WorkerInv'
  <2>1. \A v \in Worker \ {w} : worker[v].batch \cap batch = {}
    BY DEF QueueInv, WorkerInv
  <2>2. \A v \in Worker : worker[v].batch \subseteq Job
    BY DEF JobTypes, WorkerType
  <2> HIDE DEF batch
  <2>3. QED BY <1>1, <1>2, <1>3, <1>5, <2>1, <2>2 DEF QueueInv, WorkerInv
<1> HIDE DEF batch
<1>7. TriesInv'
  BY <1>1, <1>3, <1>4 DEF QueueInv, TriesInv
<1>8. AckedIsSettled'
  BY <1>1, <1>3, <1>4 DEF QueueInv, AckedIsSettled
<1>9. JobRowIsTrue'
  BY <1>1, <1>3, <1>4 DEF QueueInv, JobRowIsTrue
<1>10. QED BY <1>6, <1>7, <1>8, <1>9 DEF QueueInv

LEMMA DeliverInv ==
    ASSUME JobTypes, QueueInv, NEW w \in Worker, NEW batch \in SUBSET Job, Deliver(w, batch)
    PROVE  QueueInv'
<1>1. \A j \in Job : /\ queue'[j] = IF j \in batch THEN "out" ELSE queue[j]
                     /\ tries'[j] = IF j \in batch THEN tries[j] + 1 ELSE tries[j]
  BY DEF Deliver
<1>2. worker[w] = Unbatched /\ \A j \in batch : queue[j] = "waiting"
  BY DEF Deliver
<1>3. \A v \in Worker : worker'[v] = IF v = w THEN [Unbatched EXCEPT !.batch = batch] ELSE worker[v]
  BY <1>2 DEF Deliver, JobTypes
<1>4. /\ jobs' = jobs /\ letters' = letters /\ done' = done /\ refused' = refused
  BY DEF Deliver
<1>5. \A j \in Job : tries[j] \in Nat
  BY DEF JobTypes
<1>6. WorkerInv'
  <2>1. \A v \in Worker : worker[v].batch \cap batch = {}
    BY <1>2 DEF QueueInv, WorkerInv
  <2>2. \A v \in Worker : worker[v].batch \subseteq Job
    BY DEF JobTypes, WorkerType
  <2> DEFINE taken == [Unbatched EXCEPT !.batch = batch]
  <2>3. taken.batch = batch /\ taken.job = NoJob /\ taken.pc = "next"
    BY DEF Unbatched
  <2> HIDE DEF taken
  <2>4. \A v \in Worker : worker'[v] = IF v = w THEN taken ELSE worker[v]
    BY <1>3 DEF taken
  <2>5. QED BY <1>1, <1>4, <2>1, <2>2, <2>3, <2>4 DEF QueueInv, WorkerInv
<1>7. TriesInv'
  BY <1>1, <1>2, <1>4, <1>5, RetryAssumption DEF QueueInv, TriesInv
<1>8. AckedIsSettled'
  BY <1>1, <1>4 DEF QueueInv, AckedIsSettled
<1>9. JobRowIsTrue'
  <2>1. \A j \in batch : tries[j] <= MaxRetries
    BY <1>2 DEF QueueInv, TriesInv
  <2>2. QED BY <1>1, <1>2, <1>4, <1>5, <2>1, RetryAssumption DEF QueueInv, JobRowIsTrue
<1>10. QED BY <1>6, <1>7, <1>8, <1>9 DEF QueueInv

LEMMA QueueNextInv ==
    ASSUME JobTypes, QueueInv, QueueNext
    PROVE  QueueInv'
BY ConsumeInv, BatchDiesInv, DeliverInv, BuryInv DEF QueueNext

LEMMA QueueFrame ==
    ASSUME QueueInv, UNCHANGED jobVars
    PROVE  QueueInv'
<1>1. /\ jobs' = jobs /\ queue' = queue /\ tries' = tries /\ worker' = worker
      /\ letters' = letters /\ done' = done /\ refused' = refused
  BY DEF jobVars
<1>2. WorkerInv'
  BY <1>1 DEF QueueInv, WorkerInv
<1>3. TriesInv' /\ AckedIsSettled' /\ JobRowIsTrue'
  BY <1>1 DEF QueueInv, TriesInv, AckedIsSettled, JobRowIsTrue
<1>4. QED BY <1>2, <1>3 DEF QueueInv

-----------------------------------------------------------------------------
(* The queue never takes back that a message was sent. *)
LEMMA SentStays ==
    ASSUME JobTypes, QueueInv,
           \/ QueueNext
           \/ \E j \in Job : InsertJob(j) \/ SendJob(j) \/ SendFails(j)
           \/ UNCHANGED jobVars
    PROVE  \A j \in Job : /\ Sent(j) => Sent(j)'
                          /\ queue[j] # "new" => queue'[j] # "new"
<1>1. ASSUME NEW i \in Job, InsertJob(i) \/ SendJob(i) \/ SendFails(i), NEW j \in Job
      PROVE  /\ Sent(j) => Sent(j)'
             /\ queue[j] # "new" => queue'[j] # "new"
  BY <1>1 DEF InsertJob, SendJob, SendFails, Sent, JobTypes
<1>2. ASSUME NEW w \in Worker, Ack(w) \/ RetryLater(w), NEW j \in Job
      PROVE  /\ Sent(j) => Sent(j)'
             /\ queue[j] # "new" => queue'[j] # "new"
  BY <1>2 DEF Ack, RetryLater, Leaves, Back, Sent, JobTypes
<1>3. ASSUME NEW w \in Worker, BatchDies(w), NEW j \in Job
      PROVE  /\ Sent(j) => Sent(j)'
             /\ queue[j] # "new" => queue'[j] # "new"
  BY <1>3 DEF BatchDies, Back, Sent, JobTypes
<1>4. ASSUME NEW w \in Worker, NEW batch \in SUBSET Job, Deliver(w, batch), NEW j \in Job
      PROVE  /\ Sent(j) => Sent(j)'
             /\ queue[j] # "new" => queue'[j] # "new"
  BY <1>4 DEF Deliver, Sent, JobTypes
<1>5. ASSUME NEW i \in Job, Bury(i), NEW j \in Job
      PROVE  /\ Sent(j) => Sent(j)'
             /\ queue[j] # "new" => queue'[j] # "new"
  BY <1>5 DEF Bury, RecordLetter, BuryLetter, LetterAgain, Sent, JobTypes
<1>6. ASSUME queue' = queue, NEW j \in Job
      PROVE  /\ Sent(j) => Sent(j)'
             /\ queue[j] # "new" => queue'[j] # "new"
  BY <1>6 DEF Sent
<1>7. QED
  BY <1>1, <1>2, <1>3, <1>4, <1>5, <1>6
     DEF QueueNext, Consume, HandlerReturns, HandlerThrows, RecordOutcome, TakeNext, jobVars

(* Nobody but a consumer or another caller moves: the tick's part stands. *)
LEMMA CronFrame ==
    ASSUME TypeOK, CronInv, UNCHANGED cronVars,
           \A j \in Job : (Sent(j) => Sent(j)') /\ (queue[j] # "new" => queue'[j] # "new")
    PROVE  CronInv'
<1>1. tick' = tick /\ stamp' = stamp /\ last' = last /\ base' = base
  BY DEF cronVars
<1>2. RunNotLost'
  BY <1>1 DEF CronInv, RunNotLost
<1>3. \A t \in Tick :
          /\ tick[t].pc = "send" \/ (tick[t].pc = "record" /\ ~tick[t].first) =>
                queue'[tick[t].job] # "new"
          /\ tick[t].pc = "record" /\ ~tick[t].first => Sent(tick[t].job)'
  BY <1>1 DEF CronInv, Sent
<1>4. QED BY <1>1, <1>2, <1>3 DEF CronInv, Sent

LEMMA TickInv ==
    ASSUME TypeOK, CronInv, NEW t \in Tick, NEW next, tick' = [tick EXCEPT ![t] = next],
           UNCHANGED <<last, base>>,
           \A j \in Job : (Sent(j) => Sent(j)') /\ (queue[j] # "new" => queue'[j] # "new"),
           \A j \in Job : queue[j] # "new" => stamp'[j] = stamp[j],
           next.pc = "send" \/ (next.pc = "record" /\ ~next.first) =>
               next.job \in Job /\ queue'[next.job] # "new" /\ stamp'[next.job] = next.at,
           next.pc = "record" /\ ~next.first =>
               queue'[next.job] \notin {"new", "recorded", "unsent"},
           next.first => next.pc = "record"
    PROVE  CronInv'
<1>1. \A u \in Tick : tick'[u] = IF u = t THEN next ELSE tick[u]
  BY DEF TypeOK
<1>2. RunNotLost'
  <2>1. last' = last /\ base' = base
    OBVIOUS
  <2>2. \A j \in Job : Sent(j) => stamp'[j] = stamp[j]
    BY DEF Sent
  <2>3. QED BY <2>1, <2>2 DEF CronInv, RunNotLost
<1>3. ASSUME NEW u \in Tick
      PROVE  /\ tick'[u].pc = "send" \/ (tick'[u].pc = "record" /\ ~tick'[u].first) =>
                  /\ tick'[u].job \in Job /\ queue'[tick'[u].job] # "new"
                  /\ stamp'[tick'[u].job] = tick'[u].at
             /\ tick'[u].pc = "record" /\ ~tick'[u].first =>
                  queue'[tick'[u].job] \notin {"new", "recorded", "unsent"}
             /\ tick'[u].first => tick'[u].pc = "record"
  <2>1. CASE u = t
    BY <1>1, <2>1
  <2>2. CASE u # t
    BY <1>1, <2>2 DEF CronInv, Sent
  <2>3. QED BY <2>1, <2>2
<1>4. QED BY <1>2, <1>3 DEF CronInv, Sent

LEMMA InvNext == TypeOK /\ JobInv /\ [Next]_vars => JobInv'
<1> SUFFICES ASSUME TypeOK, JobInv, [Next]_vars PROVE JobInv'
  OBVIOUS
<1>0. JobTypes /\ QueueInv /\ CronInv
  BY DEF TypeOK, JobInv, QueueInv
<1>a. QueueInv' /\ CronInv' => JobInv'
  BY DEF JobInv, QueueInv
<1>1. CASE UNCHANGED vars
  <2>1. UNCHANGED jobVars /\ UNCHANGED cronVars
    BY <1>1 DEF vars
  <2>2. QED BY <1>0, <1>a, <2>1, QueueFrame, SentStays, CronFrame
<1>2. CASE Minute
  <2>1. QueueInv'
    BY <1>0, <1>2, QueueFrame DEF Minute
  <2>2. queue' = queue /\ tick' = tick /\ stamp' = stamp /\ last' = last /\ base' = base
    BY <1>2 DEF Minute, jobVars
  <2>3. CronInv'
    BY <1>0, <2>2 DEF CronInv, RunNotLost, Sent
  <2>4. QED BY <1>a, <2>1, <2>3
<1>3. ASSUME NEW j \in Job, Produce(j) PROVE JobInv'
  <2>1. (InsertJob(j) \/ SendJob(j) \/ SendFails(j)) /\ UNCHANGED cronVars
    BY <1>3 DEF Produce
  <2>2. QED BY <1>0, <1>a, <2>1, EnqueueInv, SentStays, CronFrame
<1>4. CASE QueueNext /\ UNCHANGED cronVars
  BY <1>0, <1>a, <1>4, QueueNextInv, SentStays, CronFrame
<1>5. ASSUME NEW t \in Tick, Evaluate(t) \/ TickDies(t) PROVE JobInv'
  <2>1. QueueInv'
    BY <1>0, <1>5, QueueFrame DEF Evaluate, TickDies
  <2>2. PICK next : /\ tick' = [tick EXCEPT ![t] = next]
                    /\ next.pc # "send"
                    /\ next.pc = "record" => next.first
                    /\ next.first => next.pc = "record"
    <3>1. CASE Evaluate(t)
      <4> DEFINE next == [pc |-> IF last = 0 THEN "record" ELSE "enqueue", at |-> now,
                          job |-> NoJob, first |-> (last = 0)]
      <4>1. tick' = [tick EXCEPT ![t] = next]
        BY <3>1 DEF Evaluate
      <4>2. /\ next.pc # "send" /\ (next.pc = "record" => next.first)
            /\ (next.first => next.pc = "record")
        OBVIOUS
      <4> HIDE DEF next
      <4>3. QED BY <4>1, <4>2
    <3>2. CASE TickDies(t)
      <4>1. Resting.pc = "rest" /\ Resting.first = FALSE
        BY DEF Resting
      <4>2. QED BY <3>2, <4>1 DEF TickDies
    <3>3. QED BY <1>5, <3>1, <3>2
  <2>3. queue' = queue /\ stamp' = stamp /\ last' = last /\ base' = base
    BY <1>5 DEF Evaluate, TickDies, jobVars
  <2>4. \A j \in Job : (Sent(j) => Sent(j)') /\ (queue[j] # "new" => queue'[j] # "new")
    BY <2>3 DEF Sent
  <2>5. CronInv'
    BY <1>0, <2>2, <2>3, <2>4, TickInv
  <2>6. QED BY <1>a, <2>1, <2>5
<1>6. ASSUME NEW t \in Tick, NEW j \in Job, TickInserts(t, j) PROVE JobInv'
  <2>1. InsertJob(j) /\ queue[j] = "new" /\ queue'[j] # "new"
    BY <1>0, <1>6 DEF TickInserts, InsertJob, JobTypes
  <2>2. QueueInv'
    BY <1>0, <2>1, EnqueueInv
  <2>3. \A i \in Job : (Sent(i) => Sent(i)') /\ (queue[i] # "new" => queue'[i] # "new")
    BY <1>0, <2>1, SentStays
  <2> DEFINE next == [tick[t] EXCEPT !.pc = "send", !.job = j]
  <2>4. /\ tick' = [tick EXCEPT ![t] = next]
        /\ stamp' = [stamp EXCEPT ![j] = tick[t].at] /\ last' = last /\ base' = base
    BY <1>6 DEF TickInserts
  <2>5. next.pc = "send" /\ next.job = j /\ next.at = tick[t].at /\ ~next.first
    <3>1. tick[t] \in TickType
      BY DEF TypeOK
    <3>2. ~tick[t].first
      BY <1>0, <1>6 DEF TickInserts, CronInv
    <3>3. QED BY <3>1, <3>2 DEF TickType
  <2>6. stamp'[j] = tick[t].at /\ \A i \in Job : queue[i] # "new" => stamp'[i] = stamp[i]
    BY <2>1, <2>4 DEF TypeOK
  <2> HIDE DEF next
  <2>7. CronInv'
    BY <1>0, <2>1, <2>3, <2>4, <2>5, <2>6, TickInv
  <2>8. QED BY <1>a, <2>2, <2>7
<1>7. ASSUME NEW t \in Tick, TickSends(t) PROVE JobInv'
  <2> DEFINE j == tick[t].job
  <2>1. j \in Job /\ stamp[j] = tick[t].at /\ tick[t].pc = "send"
    BY <1>0, <1>7 DEF TickSends, CronInv
  <2>2. QueueInv'
    BY <1>0, <1>7, <2>1, EnqueueInv DEF TickSends
  <2>3. \A i \in Job : (Sent(i) => Sent(i)') /\ (queue[i] # "new" => queue'[i] # "new")
    BY <1>0, <1>7, <2>1, SentStays DEF TickSends
  <2>4. stamp' = stamp /\ last' = last /\ base' = base
    BY <1>7 DEF TickSends
  <2>5. CASE SendJob(j) /\ tick' = [tick EXCEPT ![t].pc = "record"]
    <3> DEFINE next == [tick[t] EXCEPT !.pc = "record"]
    <3>1. next.pc = "record" /\ next.job = j /\ next.at = tick[t].at
      BY DEF TypeOK, TickType
    <3>2. queue'[j] = "waiting" /\ tick' = [tick EXCEPT ![t] = next]
      BY <1>0, <2>1, <2>5 DEF SendJob, JobTypes
    <3> HIDE DEF next, j
    <3>3. CronInv'
      BY <1>0, <2>1, <2>3, <2>4, <3>1, <3>2, TickInv
    <3>4. QED BY <1>a, <2>2, <3>3
  <2>6. CASE tick' = [tick EXCEPT ![t] = Resting]
    <3>1. Resting.pc = "rest" /\ Resting.first = FALSE
      BY DEF Resting
    <3>2. CronInv'
      BY <1>0, <2>3, <2>4, <2>6, <3>1, TickInv
    <3>3. QED BY <1>a, <2>2, <3>2
  <2>7. QED BY <1>7, <2>5, <2>6 DEF TickSends
<1>8. ASSUME NEW t \in Tick, Remember(t) PROVE JobInv'
  <2>1. QueueInv'
    BY <1>0, <1>8, QueueFrame DEF Remember
  <2>2. /\ queue' = queue /\ stamp' = stamp /\ tick' = [tick EXCEPT ![t] = Resting]
        /\ last' = tick[t].at /\ base' = IF tick[t].first THEN tick[t].at ELSE base
        /\ tick[t].pc = "record"
    BY <1>8 DEF Remember, jobVars
  <2>3. RunNotLost'
    <3>1. CASE tick[t].first
      BY <2>2, <3>1 DEF RunNotLost
    <3>2. CASE ~tick[t].first
      <4>1. tick[t].job \in Job /\ Sent(tick[t].job) /\ stamp[tick[t].job] = tick[t].at
        BY <1>0, <2>2, <3>2 DEF CronInv
      <4>2. tick[t].at \in Nat
        BY DEF TypeOK, TickType
      <4>3. stamp'[tick[t].job] >= last' /\ queue'[tick[t].job] \notin {"new", "recorded", "unsent"}
        BY <2>2, <4>1, <4>2 DEF Sent
      <4>4. QED BY <4>1, <4>3 DEF RunNotLost, Sent
    <3>3. QED BY <3>1, <3>2
  <2>4. \A u \in Tick : tick'[u] = IF u = t THEN Resting ELSE tick[u]
    BY <2>2 DEF TypeOK
  <2>5. Resting.pc = "rest" /\ Resting.first = FALSE
    BY DEF Resting
  <2>6. CronInv'
    BY <1>0, <2>2, <2>3, <2>4, <2>5 DEF CronInv, Sent
  <2>7. QED BY <1>a, <2>1, <2>6
<1>9. QED BY <1>1, <1>2, <1>3, <1>4, <1>5, <1>6, <1>7, <1>8 DEF Next

-----------------------------------------------------------------------------
LEMMA TypedAndSafe == Spec => [](TypeOK /\ JobInv)
<1>1. TypeOK /\ JobInv /\ [Next]_vars => (TypeOK /\ JobInv)'
  BY TypesNext, InvNext DEF JobInv
<1>2. QED BY <1>1, TypesInit, InvInit, PTL DEF Spec

(* The columns of jobs and cron_runs, and what every invocation holds, keep
   their types. *)
THEOREM TypeCorrect == Spec => []TypeOK
BY TypedAndSafe, PTL

(* The inductive invariant: a message is held by at most one consumer, its
   deliveries are counted, and a tick about to remember has queued its job. *)
THEOREM JobInvariant == Spec => []JobInv
BY TypedAndSafe, PTL

(* No job is acknowledged undone, whatever dies and however often it is
   delivered. *)
THEOREM NothingDropped == Spec => []AckedIsSettled
<1>1. JobInv => AckedIsSettled
  BY DEF JobInv
<1>2. QED BY <1>1, JobInvariant, PTL

(* The state of a job that the office is shown is true. *)
THEOREM RowsTrue == Spec => []JobRowIsTrue
<1>1. JobInv => JobRowIsTrue
  BY DEF JobInv
<1>2. QED BY <1>1, JobInvariant, PTL

(* The schedule remembers no run that was not queued, however ticks overlap or
   die. *)
THEOREM NoRunLost == Spec => []RunNotLost
<1>1. JobInv => RunNotLost
  BY DEF JobInv, CronInv
<1>2. QED BY <1>1, JobInvariant, PTL
=============================================================================
