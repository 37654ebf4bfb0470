------------------------------- MODULE JobQueue -------------------------------
(***************************************************************************)
(* Background jobs, the processes that run them, and how those start and   *)
(* stop: the API server (app/server.js) and the worker (worker.js), which  *)
(* both run BullMQ workers (initJobs, shutdownJobs).                       *)
(*                                                                         *)
(* The queue in Redis is external: it delivers a job at least once, again  *)
(* after a failure that may be retried, and again when its process died.   *)
(* A processor either returns, throws, or hangs: nothing bounds the time   *)
(* of a job.                                                               *)
(***************************************************************************)
EXTENDS Naturals, FiniteSets

CONSTANTS
    Job,
    Api, WorkerProcess,   \* processes of the two kinds
    JobAttempts,          \* DEFAULT_JOB_OPTIONS[queue].attempts
    MaxMishaps,           \* bound on deaths, hangs and restarts
    NoJob

ASSUME ProcessAssumption == Api \cap WorkerProcess = {}
ASSUME JobAttemptsAssumption == JobAttempts \in Nat \ {0} /\ MaxMishaps \in Nat
ASSUME NoJobAssumption == NoJob \notin Job

Process == Api \cup WorkerProcess

VARIABLES
    job,      \* jobs by their jobId
    process,  \* how far each process is in its life
    armed,    \* processes whose hard exit timer is set
    running,  \* the job each process runs
    hung,     \* processes whose processor will never return
    started,  \* how often the processor was called for a job
    mishaps

queueVars == <<job, process, armed, running, hung, started, mishaps>>

JobRows == [at : {"none", "waiting", "active", "completed", "failed"},
            attempt : 0..JobAttempts, stalls : 0..1, permanent : BOOLEAN]
Mishap == mishaps < MaxMishaps /\ mishaps' = mishaps + 1
Tally == JobAttempts + 2   \* `started` is not counted any further
New == [at |-> "waiting", attempt |-> 0, stalls |-> 0, permanent |-> FALSE]

QueueInit ==
    /\ job = [j \in Job |-> [New EXCEPT !.at = "none"]]
    /\ process = [p \in Process |-> "up"]
    /\ armed = {} /\ hung = {} /\ mishaps = 0
    /\ running = [p \in Process |-> NoJob]
    /\ started = [j \in Job |-> 0]

-----------------------------------------------------------------------------
(* enqueue...: a jobId that the queue still knows is not added again. *)
Enqueue(j) ==
    /\ job[j].at = "none"
    /\ job' = [job EXCEPT ![j] = New]
    /\ UNCHANGED <<process, armed, running, hung, started, mishaps>>

(* createWorker: the processor of the job's name is called; a worker that is closing takes no more. *)
TakeJob(p, j) ==
    /\ process[p] = "up" /\ running[p] = NoJob /\ job[j].at = "waiting"
    /\ job' = [job EXCEPT ![j].at = "active"]
    /\ running' = [running EXCEPT ![p] = j]
    /\ started' = [started EXCEPT ![j] = IF @ = Tally THEN @ ELSE @ + 1]
    /\ UNCHANGED <<process, armed, hung, mishaps>>

Returns(p, outcome) ==
    /\ running[p] # NoJob /\ p \notin hung
    /\ job' = [job EXCEPT ![running[p]] = outcome]
    /\ running' = [running EXCEPT ![p] = NoJob]
    /\ UNCHANGED <<process, armed, hung, started, mishaps>>
Completes(p) == running[p] # NoJob /\ Returns(p, [job[running[p]] EXCEPT !.at = "completed"])
(* Whatever a processor throws is tried again... *)
ThrowsUncounted(p) ==
    running[p] # NoJob /\ Returns(p, [job[running[p]] EXCEPT !.at = "waiting"])
Throws(p) ==
    running[p] # NoJob /\
    LET attempt == job[running[p]].attempt + 1
    IN Returns(p, [job[running[p]] EXCEPT !.attempt = attempt, !.at = IF attempt < JobAttempts THEN "waiting" ELSE "failed"])
(* ...unless it will never work (isRetryableError): then it throws an UnrecoverableError. *)
ThrowsUnrecoverable(p) ==
    running[p] # NoJob /\ Returns(p, [job[running[p]] EXCEPT !.at = "failed", !.permanent = TRUE])
Hangs(p) ==
    /\ running[p] # NoJob /\ p \notin hung /\ Mishap
    /\ hung' = hung \cup {p}
    /\ UNCHANGED <<job, process, armed, running, started>>

-----------------------------------------------------------------------------
(* SIGTERM, or an uncaught exception: the API sets its hard exit timer at once; it stops its workers
   when the HTTP server has closed.  The worker stops them first. *)
ShutDownApiTrusting(p) ==
    /\ p \in Api /\ process[p] = "up"
    /\ process' = [process EXCEPT ![p] = "closing"]
    /\ UNCHANGED <<job, armed, running, hung, started, mishaps>>
ShutDownApi(p) ==
    /\ p \in Api /\ process[p] = "up"
    /\ process' = [process EXCEPT ![p] = "closing"]
    /\ armed' = armed \cup {p}
    /\ UNCHANGED <<job, running, hung, started, mishaps>>
ServerClosed(p) == \* the last HTTP request is answered
    /\ process[p] = "closing"
    /\ process' = [process EXCEPT ![p] = "draining"]
    /\ UNCHANGED <<job, armed, running, hung, started, mishaps>>
ShutDownWorker(p) ==
    /\ p \in WorkerProcess /\ process[p] = "up"
    /\ process' = [process EXCEPT ![p] = "draining"]
    /\ UNCHANGED <<job, armed, running, hung, started, mishaps>>
(* stopWorkers awaits the jobs in progress; then the queues, Redis and the database are closed.
   Nothing is left to keep the process alive. *)
AbandonJobs(p) ==
    /\ process[p] = "draining"
    /\ process' = [process EXCEPT ![p] = "exited"]
    /\ running' = [running EXCEPT ![p] = NoJob]
    /\ UNCHANGED <<job, armed, hung, started, mishaps>>
ShutDownJobs(p) ==
    /\ process[p] = "draining" /\ running[p] = NoJob
    /\ process' = [process EXCEPT ![p] = "exited"]
    /\ UNCHANGED <<job, armed, running, hung, started, mishaps>>

Gone(p) ==
    /\ process' = [process EXCEPT ![p] = "exited"]
    /\ running' = [running EXCEPT ![p] = NoJob]
    /\ hung' = hung \ {p}
    /\ UNCHANGED <<job, armed, started>>
HardExit(p) == p \in armed /\ process[p] \in {"closing", "draining"} /\ Gone(p) /\ UNCHANGED mishaps
ProcessDies(p) == process[p] # "exited" /\ Mishap /\ Gone(p)
(* The supervisor starts it again: start, initJobs. *)
StartProcess(p) ==
    /\ process[p] = "exited"
    /\ process' = [process EXCEPT ![p] = "up"]
    /\ armed' = armed \ {p}
    /\ UNCHANGED <<job, running, hung, started, mishaps>>

(* The lock of an active job nobody runs expires: it is delivered again, once. *)
Stalled(j) ==
    /\ job[j].at = "active" /\ \A p \in Process : running[p] # j
    /\ job' = [job EXCEPT ![j] = IF @.stalls < 1 THEN [@ EXCEPT !.at = "waiting", !.stalls = 1]
                                                 ELSE [@ EXCEPT !.at = "failed"]]
    /\ UNCHANGED <<process, armed, running, hung, started, mishaps>>

Runs(p) == Completes(p) \/ Throws(p) \/ ThrowsUnrecoverable(p)
ShutsDown(p) == ServerClosed(p) \/ ShutDownJobs(p)
Delivers(j) == \E p \in Process : TakeJob(p, j)

QueueNext ==
    \/ \E j \in Job : Enqueue(j) \/ Delivers(j) \/ Stalled(j)
    \/ \E p \in Process : \/ Runs(p) \/ Hangs(p) \/ ShutDownApi(p) \/ ShutDownWorker(p) \/ ShutsDown(p)
                          \/ HardExit(p) \/ ProcessDies(p) \/ StartProcess(p)

QueueSpec == QueueInit /\ [][QueueNext]_queueVars

-----------------------------------------------------------------------------
(* Jobs and processes have the values of BullMQ and of the two programs, and a job runs in one process
   at most. *)
QueueTypeOK ==
    /\ job \in [Job -> JobRows]
    /\ process \in [Process -> {"up", "closing", "draining", "exited"}]
    /\ armed \subseteq Api /\ hung \subseteq {p \in Process : running[p] # NoJob}
    /\ started \in [Job -> 0..Tally] /\ running \in [Process -> Job \cup {NoJob}] /\ mishaps \in 0..MaxMishaps
    /\ \A p \in Process : running[p] # NoJob =>
          /\ job[running[p]].at = "active" /\ process[p] # "exited"
          /\ \A q \in Process \ {p} : running[q] # running[p]

(* What can never work is not tried again, and nothing is tried more often than its attempts and one
   stall allow (isRetryableError, DEFAULT_JOB_OPTIONS). *)
TriedWithinReason ==
    \A j \in Job : /\ started[j] <= JobAttempts + 1
                   /\ job[j].permanent => job[j].at = "failed"

(* A shutdown that runs to its end leaves no job cut short (stopWorkers): the job that a process runs
   is lost to a death or to the hard exit, never to the graceful path. *)
NothingCutShort ==
    [][\A p \in Process : running[p] # NoJob /\ running'[p] = NoJob /\ job'[running[p]].at = "active"
          => p \in armed \/ mishaps' > mishaps]_queueVars

(* Every job that was accepted is in the end completed or failed, through failures, deaths and
   restarts; unless its processor hangs. *)
EveryJobEnds == \A j \in Job : []<>(job[j].at # "none" => job[j].at \in {"completed", "failed"} \/ hung # {})

(* "setTimeout(() => process.exit(1), 10000)" (app/server.js:82): an API server that was told to stop
   does, whatever its requests and jobs are doing. *)
ApiStops == \A p \in Api : process[p] = "closing" ~> process[p] = "exited"

(* "Hard timeout - force exit if graceful path hangs" (worker.js:52). *)
WorkerStops == \A p \in WorkerProcess : process[p] = "draining" ~> process[p] = "exited"

=============================================================================
