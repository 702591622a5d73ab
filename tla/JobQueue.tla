------------------------------ MODULE JobQueue ------------------------------
(***************************************************************************)
(* services/job_queue.py: the in-memory queue of background jobs, its       *)
(* worker thread, and the lifespan hook of main.py that starts and stops    *)
(* it.  Request handlers enqueue; the worker executes one job after the     *)
(* other, sleeps before a retry and puts the job back at the end.           *)
(*                                                                         *)
(* start() makes a new thread every time and stop() waits five seconds at   *)
(* most for the old one, so that a queue stopped and started again in one   *)
(* process can have two workers for a while.                                *)
(*                                                                         *)
(* Left out: JOBS_SYNCHRONOUS and JOB_WORKER_ENABLED = False, where the     *)
(* caller executes its job itself, and reset(), which only tests call.      *)
(***************************************************************************)
EXTENDS Naturals, Sequences

CONSTANTS Jobs,        \* the jobs the request handlers enqueue
          StopJob,     \* the "__stop__" job; stands for no job in a thread's hands
          Workers,     \* the worker threads of a process
          NoWorker,    \* _worker is None
          MaxRetries,  \* MaxRetries[j]: the max_retries of job j
          MaxStarts    \* bound: how often start() runs

ASSUME JobQueueAssumption ==
  /\ MaxRetries \in [Jobs -> Nat]
  /\ MaxStarts \in Nat
  /\ StopJob \notin Jobs
  /\ NoWorker \notin Workers

VARIABLES jobs,       \* _jobs, the queue
          stopEvent,  \* _stop_event
          worker,     \* _worker
          thread,     \* what each worker thread is doing
          lifespan,   \* where the lifespan hook is
          status,     \* the last event recorded for each job
          attempts,   \* job.attempts
          starts      \* the number of calls of start() so far

vars == <<jobs, stopEvent, worker, thread, lifespan, status, attempts, starts>>

Status == {"new", "queued", "running", "retry", "success", "failed", "lost"}

Thread == [pc : {"dead", "loop", "get", "run", "sleep"}, job : Jobs \cup {StopJob}]
Dead   == [pc |-> "dead", job |-> StopJob]
Loop   == [pc |-> "loop", job |-> StopJob]

Alive(w) == thread[w].pc # "dead"

TypeOK ==
  /\ jobs \in Seq(Jobs \cup {StopJob})
  /\ stopEvent \in BOOLEAN
  /\ worker \in Workers \cup {NoWorker}
  /\ thread \in [Workers -> Thread]
  /\ \A w \in Workers : thread[w].pc \in {"run", "sleep"} <=> thread[w].job \in Jobs
  /\ lifespan \in {"down", "up", "stopping", "joining"}
  /\ status \in [Jobs -> Status]
  /\ attempts \in [Jobs -> Nat]
  /\ starts \in Nat

Init ==
  /\ jobs = <<>> /\ stopEvent = FALSE /\ worker = NoWorker
  /\ thread = [w \in Workers |-> Dead]
  /\ lifespan = "down"
  /\ status = [j \in Jobs |-> "new"] /\ attempts = [j \in Jobs |-> 0]
  /\ starts = 0

Record(j, s) == status' = [status EXCEPT ![j] = s]

-----------------------------------------------------------------------------
(* The lifespan hook *)

\* start(): no new worker while _worker is one that lives.
Start ==
  /\ lifespan = "down" /\ starts < MaxStarts
  /\ worker \in Workers => ~ Alive(worker)
  /\ \E w \in Workers :
       /\ ~ Alive(w)
       /\ worker' = w
       /\ thread' = [thread EXCEPT ![w] = Loop]
  /\ stopEvent' = FALSE
  /\ lifespan' = "up" /\ starts' = starts + 1
  /\ UNCHANGED <<jobs, status, attempts>>

\* stop(), in three steps: the event is set, the sentinel is put, and the worker
\* is joined until it is dead or five seconds are over.
StopSet ==
  /\ lifespan = "up" /\ worker \in Workers
  /\ stopEvent' = TRUE
  /\ lifespan' = "stopping"
  /\ UNCHANGED <<jobs, worker, thread, status, attempts, starts>>

\* Mutant: stop() relies on the event alone.
StopPut_NoSentinel ==
  /\ lifespan = "stopping"
  /\ lifespan' = "joining"
  /\ UNCHANGED <<jobs, stopEvent, worker, thread, status, attempts, starts>>

StopPut ==
  /\ lifespan = "stopping"
  /\ jobs' = Append(jobs, StopJob)
  /\ lifespan' = "joining"
  /\ UNCHANGED <<stopEvent, worker, thread, status, attempts, starts>>

StopJoin ==
  /\ lifespan = "joining"
  /\ worker' = NoWorker
  /\ lifespan' = "down"
  /\ UNCHANGED <<jobs, stopEvent, thread, status, attempts, starts>>

\* The process dies with everything it has in memory.
Crash ==
  /\ jobs' = <<>> /\ stopEvent' = FALSE /\ worker' = NoWorker
  /\ thread' = [w \in Workers |-> Dead]
  /\ lifespan' = "down"
  /\ status' = [j \in Jobs |-> IF status[j] \in {"queued", "running", "retry"}
                               THEN "lost" ELSE status[j]]
  /\ UNCHANGED <<attempts, starts>>

-----------------------------------------------------------------------------
(* A request handler, and the worker threads *)

Enqueue(j) ==
  /\ lifespan = "up" /\ status[j] = "new"
  /\ Record(j, "queued")
  /\ jobs' = Append(jobs, j)
  /\ UNCHANGED <<stopEvent, worker, thread, lifespan, attempts, starts>>

\* while not self._stop_event.is_set()
CheckStop(w) ==
  /\ thread[w].pc = "loop"
  /\ thread' = [thread EXCEPT ![w] = IF stopEvent THEN Dead ELSE [@ EXCEPT !.pc = "get"]]
  /\ UNCHANGED <<jobs, stopEvent, worker, lifespan, status, attempts, starts>>

Get(w) ==
  /\ thread[w].pc = "get" /\ jobs # <<>>
  /\ jobs' = Tail(jobs)
  /\ LET j == Head(jobs) IN
     \/ j = StopJob /\ thread' = [thread EXCEPT ![w] = Dead] /\ UNCHANGED status
     \/ /\ j \in Jobs
        /\ thread' = [thread EXCEPT ![w] = [pc |-> "run", job |-> j]]
        /\ Record(j, "running")
  /\ UNCHANGED <<stopEvent, worker, lifespan, attempts, starts>>

Finish(w, s) ==
  /\ Record(thread[w].job, s)
  /\ thread' = [thread EXCEPT ![w] = Loop]

Succeed(w) ==
  /\ thread[w].pc = "run"
  /\ Finish(w, "success")
  /\ UNCHANGED <<jobs, stopEvent, worker, lifespan, attempts, starts>>

\* Mutant: the attempt that just failed is not counted.
MayRetry_OffByOne(j) == attempts[j] <= MaxRetries[j]

MayRetry(j) == attempts[j] + 1 <= MaxRetries[j]

\* The handler raised: the job is tried again later, or given up.
Fail(w) ==
  /\ thread[w].pc = "run"
  /\ LET j == thread[w].job IN
     /\ attempts' = [attempts EXCEPT ![j] = @ + 1]
     /\ \/ /\ MayRetry(j)
           /\ Record(j, "retry")
           /\ thread' = [thread EXCEPT ![w].pc = "sleep"]
        \/ ~ MayRetry(j) /\ Finish(w, "failed")
  /\ UNCHANGED <<jobs, stopEvent, worker, lifespan, starts>>

\* Mutant: the worker puts the job back without taking it out of its hands.
Requeue_Twice(w) ==
  /\ thread[w].pc = "sleep"
  /\ Finish(w, "queued")
  /\ jobs' = jobs \o <<thread[w].job, thread[w].job>>
  /\ UNCHANGED <<stopEvent, worker, lifespan, attempts, starts>>

\* Mutant: the retry is announced and never put into the queue.
Requeue_Forgotten(w) ==
  /\ thread[w].pc = "sleep"
  /\ Finish(w, "queued")
  /\ UNCHANGED <<jobs, stopEvent, worker, lifespan, attempts, starts>>

\* After time.sleep(delay), which holds up every other job of this worker.
Requeue(w) ==
  /\ thread[w].pc = "sleep"
  /\ Finish(w, "queued")
  /\ jobs' = Append(jobs, thread[w].job)
  /\ UNCHANGED <<stopEvent, worker, lifespan, attempts, starts>>

-----------------------------------------------------------------------------
LifespanNext == Start \/ StopSet \/ StopPut \/ StopJoin

WorkerNext(w) == CheckStop(w) \/ Get(w) \/ Succeed(w) \/ Fail(w) \/ Requeue(w)

Next ==
  \/ LifespanNext
  \/ Crash
  \/ \E j \in Jobs : Enqueue(j)
  \/ \E w \in Workers : WorkerNext(w)

Spec == Init /\ [][Next]_vars

\* A thread that can go on goes on: the interpreter runs every thread, job
\* handlers return or raise, and a shutdown that began goes through.
Fairness ==
  /\ \A w \in Workers : WF_vars(WorkerNext(w))
  /\ WF_vars(StopPut \/ StopJoin)

FairSpec == Spec /\ Fairness

-----------------------------------------------------------------------------
(* Where a job is *)

Places(j) == {i \in DOMAIN jobs : jobs[i] = j}
Hands(j)  == {w \in Workers : thread[w].job = j}

\* The events tell where a job is: "queued" once in the queue, "running" or
\* "retry" with exactly one worker, anything else nowhere.  No job is executed
\* by two workers, or executed while another copy waits, even when a slow
\* worker of the previous lifespan is still there.
JobInOnePlace ==
  \A j \in Jobs :
    /\ \/ status[j] = "queued" /\ \E i \in DOMAIN jobs : Places(j) = {i}
       \/ status[j] # "queued" /\ Places(j) = {}
    /\ \/ status[j] \in {"running", "retry"} /\ \E w \in Workers : Hands(j) = {w}
       \/ status[j] \notin {"running", "retry"} /\ Hands(j) = {}

\* A job is given up after max_retries retries, never before and never later.
RetryBudget ==
  \A j \in Jobs :
    /\ attempts[j] <= MaxRetries[j] + 1
    /\ status[j] = "failed" => attempts[j] = MaxRetries[j] + 1
    /\ attempts[j] = MaxRetries[j] + 1 => status[j] = "failed"

\* A job that succeeded or was given up is never executed again.
SettledJobStays ==
  [][\A j \in Jobs : status[j] \in {"success", "failed"} => status'[j] = status[j]]_vars

\* While the application is up, every job queued in the first lifespan of a
\* process ends: it succeeds or is given up.  Later lifespans do not promise it: a
\* busy worker leaves the sentinel in the queue when the event stops it, and that
\* sentinel kills the next worker, while jobs go on queueing.
JobSettles ==
  \A j \in Jobs :
    status[j] = "queued" /\ starts = 1
      ~> status[j] \in {"success", "failed"} \/ lifespan # "up"

\* stop() ends every worker, also one that was waiting on an empty queue and one
\* that outlived an earlier lifespan, unless the queue is started again first.
WorkerStops == stopEvent ~> lifespan = "up" \/ \A w \in Workers : ~ Alive(w)
=============================================================================
