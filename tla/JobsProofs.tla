----------------------------- MODULE JobsProofs -----------------------------
(***************************************************************************)
(* Proofs about what runs in the background and what is cached (MCJobs):   *)
(* the queues, reports, their schedules, notifications, files, and the     *)
(* permissions of staff.  Every part has an inductive invariant of its     *)
(* own, and a section here; the parts meet at the end.                     *)
(***************************************************************************)
EXTENDS MCJobs, FiniteSetTheorems, TLAPS

-----------------------------------------------------------------------------
(* The queues (JobQueue). *)

(* What the row of a job tells of how often its processor was called for it. *)
JobAccount(rec, calls) ==
    /\ rec.at = "none" => calls = 0
    /\ rec.at \in {"waiting", "active"} => rec.attempt < JobAttempts
    /\ rec.at = "waiting" => calls = rec.attempt + rec.stalls
    /\ rec.at = "active" => calls = rec.attempt + rec.stalls + 1
    /\ calls <= JobAttempts + 1
    /\ rec.permanent => rec.at = "failed"
QueueInv == QueueTypeOK /\ \A j \in Job : JobAccount(job[j], started[j])

(* A row moved to another state keeps its counts. *)
LEMMA RowAt ==
    ASSUME NEW rec \in JobRows, NEW at
    PROVE  [rec EXCEPT !.at = at]
              = [at |-> at, attempt |-> rec.attempt, stalls |-> rec.stalls, permanent |-> rec.permanent]
  BY DEF JobRows

Attempted(rec, at, n) == [rec EXCEPT !.attempt = n, !.at = at]
AfterStall(rec, at, n) == [rec EXCEPT !.at = at, !.stalls = n]
(* What the row of a job is after an attempt that failed. *)
LEMMA RowAttempted ==
    ASSUME NEW rec \in JobRows, NEW at, NEW n
    PROVE  Attempted(rec, at, n)
              = [at |-> at, attempt |-> n, stalls |-> rec.stalls, permanent |-> rec.permanent]
<1> DEFINE mid == [rec EXCEPT !.attempt = n]
<1>1. mid = [at |-> rec.at, attempt |-> n, stalls |-> rec.stalls, permanent |-> rec.permanent]
  BY DEF JobRows
<1>2. Attempted(rec, at, n) = [mid EXCEPT !.at = at]
  BY DEF Attempted
<1> HIDE DEF mid
<1> QED BY <1>1, <1>2

(* What the row of a job is after a stall. *)
LEMMA RowStalled ==
    ASSUME NEW rec \in JobRows, NEW at, NEW n
    PROVE  AfterStall(rec, at, n)
              = [at |-> at, attempt |-> rec.attempt, stalls |-> n, permanent |-> rec.permanent]
<1> DEFINE mid == [rec EXCEPT !.at = at]
<1>1. mid = [at |-> at, attempt |-> rec.attempt, stalls |-> rec.stalls, permanent |-> rec.permanent]
  BY DEF JobRows
<1>2. AfterStall(rec, at, n) = [mid EXCEPT !.stalls = n]
  BY DEF AfterStall
<1> HIDE DEF mid
<1> QED BY <1>1, <1>2

(* No job has a row yet, and none was tried. *)
LEMMA QueueInitInv == QueueInit => QueueInv
<1> SUFFICES ASSUME QueueInit PROVE QueueInv
  OBVIOUS
<1> USE JobAttemptsAssumption, NoJobAssumption
<1> DEFINE rec == [New EXCEPT !.at = "none"]
<1>1. rec \in JobRows /\ 0 \in 0..Tally
  <2>1. rec = [at |-> "none", attempt |-> 0, stalls |-> 0, permanent |-> FALSE]
    <3>1. New \in JobRows /\ New.attempt = 0 /\ New.stalls = 0 /\ New.permanent = FALSE
      BY DEF New, JobRows
    <3> QED BY <3>1, RowAt
  <2>2. 0 \in 0..JobAttempts /\ 0 \in 0..1
    OBVIOUS
  <2>3. 0 \in 0..Tally
    BY JobAttemptsAssumption DEF Tally
  <2> HIDE DEF rec
  <2> QED BY <2>1, <2>2, <2>3 DEF JobRows
<1>2. rec.at = "none" /\ rec.permanent = FALSE
  BY DEF New
<1>3. JobAccount(rec, 0)
  BY <1>2 DEF JobAccount
<1> HIDE DEF rec
<1>4. job = [j \in Job |-> rec] /\ started = [j \in Job |-> 0] /\ running = [p \in Process |-> NoJob]
  BY DEF QueueInit, rec
<1>5. QueueTypeOK
  BY <1>1, <1>4 DEF QueueInit, QueueTypeOK
<1> QED BY <1>3, <1>4, <1>5 DEF QueueInv

(* An attempt that ends gives the job a row that accounts for its calls. *)
LEMMA ReturnsInv ==
    ASSUME QueueInv, NEW p \in Process, NEW outcome \in JobRows,
           running[p] # NoJob, Returns(p, outcome), outcome.at # "active",
           JobAccount(outcome, started[running[p]])
    PROVE  QueueInv'
<1>1. /\ running[p] \in Job /\ job' = [job EXCEPT ![running[p]] = outcome]
      /\ running' = [running EXCEPT ![p] = NoJob]
      /\ UNCHANGED <<process, armed, hung, started, mishaps>> /\ p \notin hung
  BY DEF QueueInv, QueueTypeOK, Returns
<1>2. QueueTypeOK'
  BY <1>1, NoJobAssumption DEF QueueInv, QueueTypeOK
<1>3. (\A j \in Job : JobAccount(job[j], started[j]))'
  BY <1>1 DEF QueueInv, QueueTypeOK
<1> QED BY <1>2, <1>3 DEF QueueInv

(* Every step of a queue keeps the account of every job. *)
LEMMA QueueNextInv == QueueInv /\ [QueueNext]_queueVars => QueueInv'
<1> SUFFICES ASSUME QueueInv, [QueueNext]_queueVars PROVE QueueInv'
  OBVIOUS
<1> USE JobAttemptsAssumption, NoJobAssumption, ProcessAssumption
<1>1. CASE UNCHANGED queueVars
  BY <1>1 DEF queueVars, QueueInv, QueueTypeOK
<1>2. ASSUME NEW j \in Job, Enqueue(j) PROVE QueueInv'
  <2>1. New \in JobRows /\ job' = [job EXCEPT ![j] = New]
        /\ UNCHANGED <<process, armed, running, hung, started, mishaps>> /\ job[j].at = "none"
    BY <1>2 DEF Enqueue, New, JobRows
  <2>2. JobAccount(New, started[j])
    <3>1. started[j] = 0
      BY <2>1 DEF QueueInv, JobAccount
    <3>2. JobAccount(New, 0)
      BY DEF JobAccount, New
    <3> QED BY <3>1, <3>2
  <2> QED BY <2>1, <2>2 DEF QueueInv, QueueTypeOK
<1>3. ASSUME NEW j \in Job, Delivers(j) PROVE QueueInv'
  <2>1. PICK p \in Process : TakeJob(p, j)
    BY <1>3 DEF Delivers
  <2> DEFINE rec == [job[j] EXCEPT !.at = "active"]
             calls == started[j] + 1
  <2>2. /\ job' = [job EXCEPT ![j] = rec] /\ running' = [running EXCEPT ![p] = j]
        /\ UNCHANGED <<process, armed, hung, mishaps>> /\ job[j].at = "waiting" /\ running[p] = NoJob
        /\ process[p] = "up"
    BY <2>1 DEF TakeJob
  <2>3. /\ job[j] \in JobRows /\ started[j] \in Nat /\ started[j] <= JobAttempts
        /\ started[j] = job[j].attempt + job[j].stalls
    BY <2>2 DEF QueueInv, QueueTypeOK, JobAccount, JobRows
  <2>4. started' = [started EXCEPT ![j] = calls]
    <3>1. started[j] # Tally
      BY <2>3 DEF Tally
    <3> QED BY <2>1, <3>1 DEF TakeJob
  <2>5. rec \in JobRows /\ JobAccount(rec, calls)
    BY <2>2, <2>3 DEF QueueInv, JobAccount, JobRows
  <2>6. calls \in 0..Tally
    BY <2>3 DEF Tally
  <2>7. \A k \in Job : JobAccount(job'[k], started'[k])
    BY <2>2, <2>4, <2>5 DEF QueueInv, QueueTypeOK
  <2> HIDE DEF rec, calls
  <2>8. QueueTypeOK'
    <3>1. \A q \in Process : running[q] # j
      BY <2>2 DEF QueueInv, QueueTypeOK
    <3>2. rec.at = "active"
      BY <2>3 DEF rec, JobRows
    <3> QED BY <2>2, <2>4, <2>5, <2>6, <3>1, <3>2 DEF QueueInv, QueueTypeOK
  <2> QED BY <2>7, <2>8 DEF QueueInv
<1>4. ASSUME NEW j \in Job, Stalled(j) PROVE QueueInv'
  <2> DEFINE rec == IF job[j].stalls < 1 THEN [job[j] EXCEPT !.at = "waiting", !.stalls = 1]
                                         ELSE [job[j] EXCEPT !.at = "failed"]
  <2>1. /\ job' = [job EXCEPT ![j] = rec] /\ job[j].at = "active"
        /\ UNCHANGED <<process, armed, running, hung, started, mishaps>>
        /\ \A p \in Process : running[p] # j
    BY <1>4 DEF Stalled
  <2>2. job[j] \in JobRows /\ started[j] \in Nat /\ JobAccount(job[j], started[j])
    BY DEF QueueInv, QueueTypeOK
  <2>3. rec \in JobRows /\ JobAccount(rec, started[j])
    <3>1. CASE job[j].stalls < 1
      <4>1. rec = [at |-> "waiting", attempt |-> job[j].attempt, stalls |-> 1, permanent |-> job[j].permanent]
        <5>1. rec = AfterStall(job[j], "waiting", 1)
          BY <3>1 DEF AfterStall
        <5> HIDE DEF rec
        <5> QED BY <5>1, <2>2, RowStalled
      <4>2. job[j].stalls = 0 /\ job[j].attempt \in 0..JobAttempts /\ job[j].permanent = FALSE /\ 1 \in 0..1
        BY <3>1, <2>1, <2>2 DEF JobRows, JobAccount
      <4>3. started[j] = job[j].attempt + 1 /\ job[j].attempt < JobAttempts
        BY <4>2, <2>1, <2>2 DEF JobAccount
      <4> HIDE DEF rec
      <4>4. rec \in JobRows
        BY <4>1, <4>2 DEF JobRows
      <4> QED BY <4>1, <4>2, <4>3, <4>4 DEF JobAccount
    <3>2. CASE ~ (job[j].stalls < 1)
      <4>1. rec = [at |-> "failed", attempt |-> job[j].attempt, stalls |-> job[j].stalls, permanent |-> job[j].permanent]
        BY <3>2, <2>2 DEF JobRows
      <4>2. job[j].stalls \in 0..1 /\ job[j].attempt \in 0..JobAttempts /\ job[j].permanent \in BOOLEAN
        BY <2>2 DEF JobRows
      <4> HIDE DEF rec
      <4> QED BY <4>1, <4>2, <2>2 DEF JobAccount, JobRows
    <3> QED BY <3>1, <3>2
  <2> HIDE DEF rec
  <2> QED BY <2>1, <2>3 DEF QueueInv, QueueTypeOK
<1>5. ASSUME NEW p \in Process, Runs(p) PROVE QueueInv'
  <2>1. running[p] # NoJob
    BY <1>5 DEF Runs, Completes, Throws, ThrowsUnrecoverable
  <2> DEFINE rec == job[running[p]]
             calls == started[running[p]]
  <2>2. rec \in JobRows /\ calls \in Nat /\ rec.at = "active" /\ JobAccount(rec, calls)
    BY <2>1 DEF QueueInv, QueueTypeOK
  <2>3. CASE Completes(p)
    <3>1. JobAccount([rec EXCEPT !.at = "completed"], calls) /\ [rec EXCEPT !.at = "completed"] \in JobRows
      BY <2>2 DEF JobAccount, JobRows
    <3> QED BY <2>3, <3>1, <2>1, <2>2, ReturnsInv DEF Completes, JobRows
  <2>4. CASE Throws(p)
    <3> DEFINE end == [rec EXCEPT !.attempt = rec.attempt + 1,
                                  !.at = IF rec.attempt + 1 < JobAttempts THEN "waiting" ELSE "failed"]
    <3>1. JobAccount(end, calls) /\ end \in JobRows /\ end.at # "active"
      <4> DEFINE at == IF rec.attempt + 1 < JobAttempts THEN "waiting" ELSE "failed"
      <4>1. end = [at |-> at, attempt |-> rec.attempt + 1, stalls |-> rec.stalls, permanent |-> rec.permanent]
        <5>1. end = Attempted(rec, at, rec.attempt + 1)
          BY DEF Attempted
        <5> HIDE DEF end, at
        <5> QED BY <5>1, <2>2, RowAttempted
      <4>2. rec.stalls \in 0..1 /\ rec.attempt \in 0..JobAttempts /\ rec.permanent = FALSE /\ rec.attempt < JobAttempts
        BY <2>2 DEF JobRows, JobAccount
      <4>3. calls = rec.attempt + rec.stalls + 1
        BY <2>2 DEF JobAccount
      <4> HIDE DEF end, rec, calls
      <4>4. rec.attempt + 1 \in 0..JobAttempts
        BY <4>2
      <4>5. at \in {"waiting", "failed"} /\ (at = "waiting" => rec.attempt + 1 < JobAttempts)
        BY <4>2
      <4> HIDE DEF at
      <4>6. end \in JobRows
        BY <4>1, <4>2, <4>4, <4>5 DEF JobRows
      <4> QED BY <4>1, <4>2, <4>3, <4>5, <4>6 DEF JobAccount
    <3>2. Returns(p, end)
      BY <2>4 DEF Throws
    <3> HIDE DEF end
    <3> QED BY <3>1, <3>2, <2>1, ReturnsInv
  <2>5. CASE ThrowsUnrecoverable(p)
    <3> DEFINE end == [rec EXCEPT !.at = "failed", !.permanent = TRUE]
    <3>1. JobAccount(end, calls) /\ end \in JobRows /\ end.at # "active"
      BY <2>2 DEF JobAccount, JobRows
    <3>2. Returns(p, end)
      BY <2>5 DEF ThrowsUnrecoverable
    <3> HIDE DEF end
    <3> QED BY <3>1, <3>2, <2>1, ReturnsInv
  <2> QED BY <1>5, <2>3, <2>4, <2>5 DEF Runs
<1>6. ASSUME NEW p \in Process, Hangs(p) PROVE QueueInv'
  BY <1>6 DEF Hangs, Mishap, QueueInv, QueueTypeOK
<1>7. ASSUME NEW p \in Process, ShutDownApi(p) \/ ShutDownWorker(p) \/ ShutsDown(p) \/ StartProcess(p) PROVE QueueInv'
  BY <1>7 DEF ShutDownApi, ShutDownWorker, ShutsDown, ServerClosed, ShutDownJobs, StartProcess, QueueInv, QueueTypeOK
<1>8. ASSUME NEW p \in Process, HardExit(p) \/ ProcessDies(p) PROVE QueueInv'
  <2>1. /\ process' = [process EXCEPT ![p] = "exited"] /\ running' = [running EXCEPT ![p] = NoJob]
        /\ hung' = hung \ {p} /\ UNCHANGED <<job, armed, started>>
    BY <1>8 DEF HardExit, ProcessDies, Gone
  <2>2. mishaps' \in 0..MaxMishaps
    BY <1>8 DEF HardExit, ProcessDies, Mishap, QueueInv, QueueTypeOK
  <2> QED BY <2>1, <2>2 DEF QueueInv, QueueTypeOK
<1> QED BY <1>1, <1>2, <1>3, <1>4, <1>5, <1>6, <1>7, <1>8 DEF QueueNext

(* The account bounds the calls of a processor: the attempts, and one more for a stall. *)
LEMMA QueueIsWithinReason == QueueInv => TriedWithinReason
  BY DEF QueueInv, JobAccount, TriedWithinReason

CutsNothingShort ==
    \A p \in Process : running[p] # NoJob /\ running'[p] = NoJob /\ job'[running[p]].at = "active"
          => p \in armed \/ mishaps' > mishaps
(* A job is left active without its worker by a mishap or by the hard exit of a shutdown (stopWorkers), and by nothing else. *)
LEMMA QueueStepCutsNothing == QueueInv /\ [QueueNext]_queueVars => CutsNothingShort
<1> SUFFICES ASSUME QueueInv, [QueueNext]_queueVars, NEW p \in Process,
                    running[p] # NoJob, running'[p] = NoJob, job'[running[p]].at = "active"
             PROVE  p \in armed \/ mishaps' > mishaps
  BY DEF CutsNothingShort
<1> USE NoJobAssumption
<1>0. running \in [Process -> Job \cup {NoJob}] /\ job \in [Job -> JobRows] /\ running[p] \in Job /\ mishaps \in Nat
  BY DEF QueueInv, QueueTypeOK
<1>1. ASSUME UNCHANGED running PROVE FALSE
  BY <1>1
<1>2. ASSUME NEW q \in Process, Runs(q) PROVE FALSE
  <2>1. running[q] # NoJob /\ running' = [running EXCEPT ![q] = NoJob]
    BY <1>2 DEF Runs, Completes, Throws, ThrowsUnrecoverable, Returns
  <2>2. q = p
    BY <2>1, <1>0
  <2>3. PICK outcome : job' = [job EXCEPT ![running[p]] = outcome] /\ outcome.at # "active"
    <3>1. CASE Completes(p)
      BY <3>1, <1>0 DEF Completes, Returns, JobRows
    <3>2. CASE Throws(p)
      <4> DEFINE end == [job[running[p]] EXCEPT !.attempt = job[running[p]].attempt + 1,
                             !.at = IF job[running[p]].attempt + 1 < JobAttempts THEN "waiting" ELSE "failed"]
      <4>1. job' = [job EXCEPT ![running[p]] = end]
        BY <3>2 DEF Throws, Returns
      <4>2. end.at = IF job[running[p]].attempt + 1 < JobAttempts THEN "waiting" ELSE "failed"
        <5> DEFINE at == IF job[running[p]].attempt + 1 < JobAttempts THEN "waiting" ELSE "failed"
        <5>1. end = Attempted(job[running[p]], at, job[running[p]].attempt + 1)
          BY DEF Attempted
        <5> HIDE DEF end, at
        <5>2. end.at = at
          BY <5>1, <1>0, RowAttempted
        <5> QED BY <5>2 DEF at
      <4> HIDE DEF end
      <4> QED BY <4>1, <4>2
    <3>3. CASE ThrowsUnrecoverable(p)
      BY <3>3, <1>0 DEF ThrowsUnrecoverable, Returns, JobRows
    <3> QED BY <1>2, <2>2, <3>1, <3>2, <3>3 DEF Runs
  <2> QED BY <2>3, <1>0
<1>3. ASSUME NEW q \in Process, HardExit(q) PROVE p \in armed
  BY <1>3, <1>0 DEF HardExit, Gone
<1>4. ASSUME NEW q \in Process, ProcessDies(q) PROVE mishaps' > mishaps
  BY <1>4, <1>0 DEF ProcessDies, Mishap
<1>5. ASSUME NEW j \in Job, Delivers(j) PROVE FALSE
  <2>1. PICK q \in Process : running[q] = NoJob /\ running' = [running EXCEPT ![q] = j]
    BY <1>5 DEF Delivers, TakeJob
  <2> QED BY <2>1, <1>0
<1>6. ASSUME NEW j \in Job, Enqueue(j) \/ Stalled(j) PROVE FALSE
  BY <1>1, <1>6 DEF Enqueue, Stalled
<1>7. ASSUME NEW q \in Process, Hangs(q) \/ ShutDownApi(q) \/ ShutDownWorker(q) \/ ShutsDown(q) \/ StartProcess(q) PROVE FALSE
  BY <1>1, <1>7 DEF Hangs, ShutDownApi, ShutDownWorker, ShutsDown, ServerClosed, ShutDownJobs, StartProcess
<1>8. CASE QueueNext
  BY <1>2, <1>3, <1>4, <1>5, <1>6, <1>7, <1>8 DEF QueueNext
<1>9. CASE UNCHANGED queueVars
  BY <1>1, <1>9 DEF queueVars
<1> QED BY <1>8, <1>9

-----------------------------------------------------------------------------
(* Reports, their jobs and their workers (Reports). *)

(* The workers at a report, and those of them that own its task: one when the task is active, none otherwise. *)
Workers(r) == {w \in Worker : worker[w] # NoReport /\ worker[w].of = r}
Owners(r) == {w \in Worker : worker[w] # NoReport /\ worker[w].of = r /\ worker[w].owner}
OneOwner(r) ==
    /\ task[r].at = "active" => \E w \in Worker : Owners(r) = {w}
    /\ task[r].at # "active" => Owners(r) = {}

(* The row, the file, the task and the workers of a report; and of one in a straight course, that one worker is at
   it, and has nothing ready before it announces it. *)
ReportKept(r) ==
    /\ OneOwner(r)
    /\ row[r].status = "none" => task[r].at = "none"
    /\ row[r].status \in {"none", "PENDING"} => r \notin stored /\ told[r] = 0
    /\ task[r].at \in {"none", "unsent", "lost"} => Workers(r) = {}
    /\ task[r].at \in {"none", "unsent", "waiting", "active"} => task[r].attempt < Attempts
    /\ row[r].status = "COMPLETED" /\ ~row[r].old => r \in stored
    /\ \A w \in Workers(r) :
         /\ worker[w].at \notin {"find", "process"} => row[r].status \notin {"none", "PENDING"}
         /\ worker[w].at \in {"complete", "notify"} => r \in stored \/ row[r].old
    /\ course[r] = "straight" =>
         /\ \A v, w \in Workers(r) : v = w
         /\ told[r] <= 1
         /\ told[r] = 1 => row[r].status \in {"COMPLETED", "deleted"}
         /\ \A w \in Workers(r) : worker[w].at # "find" => told[r] = 0
         /\ \A w \in Workers(r) : IF worker[w].at = "notify" THEN row[r].status \in {"COMPLETED", "deleted"}
                                  ELSE worker[w].at # "find" => row[r].status # "COMPLETED"

ReportTypes ==
    /\ row \in [Report -> RowsOfReports] /\ stored \subseteq Report
    /\ task \in [Report -> JobsOfReports]
    /\ worker \in [Worker -> Generations \cup {NoReport}]
    /\ pruning \in Prunings \cup {NoReport}
    /\ told \in [Report -> Nat] /\ faults \in 0..MaxFaults
    /\ course \in [Report -> {"straight", "overlapped", "deserted"}]
OldPruned == pruning # NoReport => \A r \in pruning.found \cup pruning.removable : row[r].old
ReportInv == ReportTypes /\ OldPruned /\ \A r \in Report : ReportKept(r)

(* What the invariant of the reports says of one state. *)
LEMMA ReportsAsTyped == ReportInv => ReportsTypeOK /\ CompletedHasFile
<1> SUFFICES ASSUME ReportInv PROVE ReportsTypeOK /\ CompletedHasFile
  OBVIOUS
<1>1. ASSUME NEW r \in Report PROVE Cardinality(Owners(r)) = IF task[r].at = "active" THEN 1 ELSE 0
  <2>1. OneOwner(r)
    BY DEF ReportInv, ReportKept
  <2>2. CASE task[r].at = "active"
    <3>1. PICK w \in Worker : Owners(r) = {w}
      BY <2>1, <2>2 DEF OneOwner
    <3> QED BY <2>2, <3>1, FS_Singleton
  <2>3. CASE task[r].at # "active"
    <3>1. Owners(r) = {}
      BY <2>1, <2>3 DEF OneOwner
    <3> QED BY <2>3, <3>1, FS_EmptySet
  <2> QED BY <2>2, <2>3
<1>2. \A r \in Report : row[r].status = "PENDING" => r \notin stored /\ told[r] = 0
  BY DEF ReportInv, ReportKept
<1>3. ReportsTypeOK
  BY <1>1, <1>2 DEF ReportInv, ReportTypes, ReportsTypeOK, Owners
<1>4. CompletedHasFile
  BY DEF ReportInv, ReportKept, CompletedHasFile
<1> QED BY <1>3, <1>4

(* No report is requested yet. *)
LEMMA ReportInitInv == ReportsInit => ReportInv
<1> SUFFICES ASSUME ReportsInit PROVE ReportInv
  OBVIOUS
<1>1. [status |-> "none", key |-> FALSE, old |-> FALSE] \in RowsOfReports
  BY DEF RowsOfReports
<1>2. [at |-> "none", attempt |-> 0, stalls |-> 0] \in JobsOfReports
  <2>1. 0 \in 0..2 /\ 0 \in 0..1
    OBVIOUS
  <2> QED BY <2>1 DEF JobsOfReports, Attempts
<1>3. 0 \in 0..MaxFaults
  BY MaxFaultsAssumption
<1>4. row \in [Report -> RowsOfReports] /\ \A r \in Report : row[r].status = "none"
  <2> DEFINE one == [status |-> "none", key |-> FALSE, old |-> FALSE]
  <2>1. one.status = "none" /\ one \in RowsOfReports
    BY <1>1
  <2>2. row = [r \in Report |-> one]
    BY DEF ReportsInit
  <2> HIDE DEF one
  <2> QED BY <2>1, <2>2
<1>5. ReportTypes
  BY <1>2, <1>3, <1>4 DEF ReportsInit, ReportTypes
<1>6. \A r \in Report : Workers(r) = {} /\ Owners(r) = {}
  BY DEF ReportsInit, Workers, Owners
<1>7. ASSUME NEW r \in Report PROVE ReportKept(r)
  <2>1. task[r].at = "none" /\ task[r].attempt = 0 /\ told[r] = 0 /\ r \notin stored
    BY DEF ReportsInit
  <2> QED BY <1>4, <1>6, <2>1 DEF ReportKept, OneOwner, Attempts
<1>8. OldPruned
  BY DEF ReportsInit, OldPruned
<1> QED BY <1>5, <1>7, <1>8 DEF ReportInv

(* Every step is about one report: the others keep what they have. *)
LEMMA OtherReport ==
    ASSUME NEW r \in Report, ReportKept(r), row'[r] = row[r], task'[r] = task[r], told'[r] = told[r], course'[r] = course[r],
           r \in stored' <=> r \in stored, Workers(r)' = Workers(r), Owners(r)' = Owners(r),
           \A w \in Workers(r) : worker'[w] = worker[w]
    PROVE  ReportKept(r)'
  BY DEF ReportKept, OneOwner

(* A step that touches one report, and only the workers that hold it, keeps the invariant of all the others. *)
LEMMA OneReport ==
    ASSUME ReportInv, ReportTypes', NEW r \in Report, ReportKept(r)', pruning' = pruning, row[r].old => row'[r].old,
           \A m \in Report \ {r} : /\ row'[m] = row[m] /\ task'[m] = task[m] /\ told'[m] = told[m] /\ course'[m] = course[m]
                                   /\ (m \in stored' <=> m \in stored)
                                   /\ Workers(m)' = Workers(m) /\ Owners(m)' = Owners(m)
                                   /\ \A w \in Workers(m) : worker'[w] = worker[w]
    PROVE  ReportInv'
<1>1. ASSUME NEW m \in Report PROVE ReportKept(m)'
  BY OtherReport DEF ReportInv
<1>2. OldPruned'
  <2>1. pruning # NoReport => pruning.found \subseteq Report /\ pruning.removable \subseteq Report
    BY DEF ReportInv, ReportTypes, Prunings
  <2> QED BY <2>1 DEF ReportInv, OldPruned
<1> QED BY <1>1, <1>2 DEF ReportInv

(* What a worker's change of record does to the workers of the reports. *)
LEMMA WorkersMove ==
    ASSUME ReportTypes, NEW w \in Worker, NEW r \in Report, NEW one \in Generations \cup {NoReport},
           worker' = [worker EXCEPT ![w] = one], worker[w] # NoReport => worker[w].of = r, one # NoReport => one.of = r
    PROVE  /\ worker' \in [Worker -> Generations \cup {NoReport}] /\ worker'[w] = one
           /\ \A v \in Worker \ {w} : worker'[v] = worker[v]
           /\ \A m \in Report \ {r} : /\ Workers(m)' = Workers(m) /\ Owners(m)' = Owners(m)
                                      /\ \A v \in Workers(m) : worker'[v] = worker[v]
           /\ Workers(r)' = IF one = NoReport THEN Workers(r) \ {w} ELSE Workers(r) \cup {w}
           /\ Owners(r)' = IF one # NoReport /\ one.owner THEN Owners(r) \cup {w} ELSE Owners(r) \ {w}
<1>1. /\ worker' \in [Worker -> Generations \cup {NoReport}] /\ worker'[w] = one
      /\ \A v \in Worker \ {w} : worker'[v] = worker[v]
  BY DEF ReportTypes
<1>2. ASSUME NEW m \in Report \ {r} PROVE w \notin Workers(m) /\ w \notin Owners(m)
  BY DEF Workers, Owners
<1>3. ASSUME NEW m \in Report \ {r}
      PROVE  Workers(m)' = Workers(m) /\ Owners(m)' = Owners(m) /\ \A v \in Workers(m) : worker'[v] = worker[v]
  BY <1>1, <1>2 DEF Workers, Owners
<1>4. Workers(r)' = IF one = NoReport THEN Workers(r) \ {w} ELSE Workers(r) \cup {w}
  BY <1>1 DEF Workers
<1>5. Owners(r)' = IF one # NoReport /\ one.owner THEN Owners(r) \cup {w} ELSE Owners(r) \ {w}
  BY <1>1 DEF Owners
<1> QED BY <1>1, <1>3, <1>4, <1>5

(* A worker that moves on within its report disturbs no other report. *)
LEMMA WorkersGo ==
    ASSUME ReportTypes, NEW w \in Worker, NEW r \in Report, NEW one \in Generations,
           worker' = [worker EXCEPT ![w] = one], worker[w] # NoReport => worker[w].of = r, one.of = r
    PROVE  /\ worker' \in [Worker -> Generations \cup {NoReport}] /\ worker'[w] = one
           /\ \A v \in Worker \ {w} : worker'[v] = worker[v]
           /\ \A m \in Report \ {r} : /\ Workers(m)' = Workers(m) /\ Owners(m)' = Owners(m)
                                      /\ \A v \in Workers(m) : worker'[v] = worker[v]
           /\ Workers(r)' = Workers(r) \cup {w}
           /\ one.owner => Owners(r)' = Owners(r) \cup {w}
           /\ ~one.owner => Owners(r)' = Owners(r) \ {w}
<1>1. one # NoReport /\ one \in Generations \cup {NoReport}
  BY NoReportAssumption
<1>2. /\ worker' \in [Worker -> Generations \cup {NoReport}] /\ worker'[w] = one
      /\ \A v \in Worker \ {w} : worker'[v] = worker[v]
      /\ \A m \in Report \ {r} : /\ Workers(m)' = Workers(m) /\ Owners(m)' = Owners(m)
                                 /\ \A v \in Workers(m) : worker'[v] = worker[v]
      /\ Workers(r)' = IF one = NoReport THEN Workers(r) \ {w} ELSE Workers(r) \cup {w}
      /\ Owners(r)' = IF one # NoReport /\ one.owner THEN Owners(r) \cup {w} ELSE Owners(r) \ {w}
  BY <1>1, WorkersMove
<1> QED BY <1>1, <1>2

(* What a worker in the middle of its report may rely on. *)
LEMMA WorkerHas ==
    ASSUME ReportInv, NEW w \in Worker, worker[w] # NoReport
    PROVE  /\ worker[w] \in Generations /\ worker[w].of \in Report /\ worker[w].owner \in BOOLEAN /\ worker[w].at \in Steps
           /\ w \in Workers(worker[w].of) /\ (worker[w].owner => Owners(worker[w].of) = {w})
           /\ (worker[w].owner => task[worker[w].of].at = "active")
           /\ task[worker[w].of].at \notin {"none", "unsent", "lost"} /\ row[worker[w].of].status # "none"
           /\ row[worker[w].of] \in RowsOfReports /\ task[worker[w].of] \in JobsOfReports
           /\ ReportKept(worker[w].of)
<1>1. worker[w] \in Generations
  BY DEF ReportInv, ReportTypes
<1>2. PICK r \in Report : worker[w].of = r
  BY <1>1 DEF Generations
<1>3. worker[w].owner \in BOOLEAN /\ worker[w].at \in Steps
  BY <1>1 DEF Generations
<1>4. w \in Workers(r) /\ (worker[w].owner => w \in Owners(r))
  BY <1>2 DEF Workers, Owners
<1>5. ReportKept(r) /\ OneOwner(r) /\ row[r] \in RowsOfReports /\ task[r] \in JobsOfReports
  BY DEF ReportInv, ReportKept, ReportTypes
<1>6. worker[w].owner => task[r].at = "active" /\ Owners(r) = {w}
  BY <1>4, <1>5 DEF OneOwner
<1>7. task[r].at \notin {"none", "unsent", "lost"} /\ row[r].status # "none"
  BY <1>4, <1>5 DEF ReportKept
<1> QED BY <1>1, <1>2, <1>3, <1>4, <1>5, <1>6, <1>7

(* What becomes of a task that its owner settles. *)
LEMMA SettledTask ==
    ASSUME ReportInv, NEW w \in Worker, worker[w] # NoReport, NEW fine \in BOOLEAN, Settle(w, fine),
           NEW r \in Report, worker[w].of = r
    PROVE  \E out \in JobsOfReports :
              /\ task' = [task EXCEPT ![r] = out]
              /\ IF worker[w].owner THEN out.at \in {"waiting", "ended"} /\ (out.at = "waiting" => out.attempt < Attempts)
                                    ELSE out = task[r]
<1>1. task \in [Report -> JobsOfReports] /\ task[r] \in JobsOfReports
  BY DEF ReportInv, ReportTypes
<1>2. CASE ~worker[w].owner
  BY <1>1, <1>2 DEF Settle
<1>3. CASE worker[w].owner /\ fine
  <2> DEFINE out == [task[r] EXCEPT !.at = "ended"]
  <2>1. task' = [task EXCEPT ![r] = out]
    BY <1>3 DEF Settle
  <2>2. out \in JobsOfReports /\ out.at = "ended"
    BY <1>1 DEF JobsOfReports
  <2> QED BY <1>3, <2>1, <2>2
<1>4. CASE worker[w].owner /\ ~fine
  <2> DEFINE old == task[r]
             n == old.attempt + 1
             at == IF n < Attempts THEN "waiting" ELSE "ended"
             out == [old EXCEPT !.at = at, !.attempt = n]
  <2>1. task' = [task EXCEPT ![r] = out]
    BY <1>4 DEF Settle
  <2>2. old.attempt < Attempts /\ old.attempt \in 0..Attempts
    <3>1. ReportKept(r) /\ task[r].at = "active"
      BY <1>4, WorkerHas
    <3> QED BY <1>1, <3>1 DEF ReportKept, JobsOfReports
  <2>3. n \in 0..Attempts /\ at \in {"waiting", "ended"} /\ (at = "waiting" => n < Attempts)
    BY <2>2 DEF Attempts
  <2> HIDE DEF n, at
  <2>4. out \in JobsOfReports /\ out.at = at /\ out.attempt = n
    BY <1>1, <2>3 DEF JobsOfReports
  <2> QED BY <1>4, <2>1, <2>3, <2>4
<1> QED BY <1>2, <1>3, <1>4

(* What a worker may make of the row of its report, and of the mails about it, when it ends or goes on. *)
Settling(r, new, n) ==
    /\ new \in RowsOfReports /\ n \in Nat /\ new.old = row[r].old
    /\ new = row[r] \/ new.status \notin {"none", "PENDING"}
    /\ new.status = "COMPLETED" /\ ~new.old => r \in stored
    /\ new.status = "PENDING" => n = 0
    /\ course[r] = "straight" => n <= 1 /\ (n = 1 => new.status \in {"COMPLETED", "deleted"})
Going(r, new, step, kept) ==
    /\ new \in RowsOfReports /\ new.old = row[r].old /\ kept \in {stored, stored \cup {r}}
    /\ new = row[r] \/ new.status \notin {"none", "PENDING"}
    /\ new.status = "COMPLETED" /\ ~new.old => r \in kept
    /\ new.status = "PENDING" => kept = stored
    /\ step \notin {"find", "process"} => new.status \notin {"none", "PENDING"}
    /\ step \in {"complete", "notify"} => r \in kept \/ new.old
    /\ course[r] = "straight" => /\ told[r] = 0
                                /\ IF step = "notify" THEN new.status \in {"COMPLETED", "deleted"}
                                   ELSE step # "find" => new.status # "COMPLETED"

(* A worker that ends its attempt, well or not, keeps the invariant. *)
LEMMA SettleKeeps ==
    ASSUME ReportInv, NEW w \in Worker, worker[w] # NoReport, NEW fine \in BOOLEAN, Settle(w, fine),
           NEW r \in Report, worker[w].of = r, NEW new, NEW n,
           row' = [row EXCEPT ![r] = new], told' = [told EXCEPT ![r] = n], UNCHANGED <<stored, pruning, course>>,
           faults' \in 0..MaxFaults, Settling(r, new, n)
    PROVE  ReportInv'
<1> USE NoReportAssumption
<1>0. ReportTypes
  BY DEF ReportInv
<1>s. /\ new \in RowsOfReports /\ n \in Nat /\ new.old = row[r].old
      /\ new = row[r] \/ new.status \notin {"none", "PENDING"}
      /\ new.status = "COMPLETED" /\ ~new.old => r \in stored
      /\ new.status = "PENDING" => n = 0
      /\ course[r] = "straight" => n <= 1 /\ (n = 1 => new.status \in {"COMPLETED", "deleted"})
  BY DEF Settling
<1>1. /\ worker[w].owner \in BOOLEAN /\ w \in Workers(r) /\ (worker[w].owner => Owners(r) = {w} /\ task[r].at = "active")
      /\ task[r].at \notin {"none", "unsent", "lost"} /\ row[r].status # "none" /\ ReportKept(r)
  BY WorkerHas
<1>2. PICK out \in JobsOfReports :
              /\ task' = [task EXCEPT ![r] = out]
              /\ IF worker[w].owner THEN out.at \in {"waiting", "ended"} /\ (out.at = "waiting" => out.attempt < Attempts)
                                    ELSE out = task[r]
  BY SettledTask
<1>3. worker' = [worker EXCEPT ![w] = NoReport]
  BY DEF Settle
<1>4. /\ worker' \in [Worker -> Generations \cup {NoReport}]
      /\ \A v \in Worker \ {w} : worker'[v] = worker[v]
      /\ \A m \in Report \ {r} : /\ Workers(m)' = Workers(m) /\ Owners(m)' = Owners(m)
                                 /\ \A v \in Workers(m) : worker'[v] = worker[v]
      /\ Workers(r)' = Workers(r) \ {w} /\ Owners(r)' = Owners(r) \ {w}
  BY <1>s, <1>0, <1>3, WorkersMove
<1>5. row'[r] = new /\ told'[r] = n /\ task'[r] = out /\ course'[r] = course[r]
  BY <1>s, <1>0, <1>2 DEF ReportTypes
<1>6. ReportTypes'
  BY <1>s, <1>0, <1>2, <1>4 DEF ReportTypes
<1>7. ReportKept(r)'
  <2>1. OneOwner(r)'
    <3>1. CASE worker[w].owner
      <4>1. Owners(r)' = {} /\ out.at # "active"
        BY <1>s, <1>1, <1>2, <1>4, <3>1
      <4> QED BY <1>s, <1>5, <4>1 DEF OneOwner
    <3>2. CASE ~worker[w].owner
      <4>1. w \notin Owners(r) /\ Owners(r)' = Owners(r) /\ out = task[r] /\ OneOwner(r)
        BY <1>s, <1>1, <1>2, <1>4, <3>2 DEF Owners, ReportKept
      <4> QED BY <1>s, <1>5, <4>1 DEF OneOwner
    <3> QED BY <1>s, <3>1, <3>2
  <2>2. new.status # "none" /\ (new.status = "PENDING" => r \notin stored)
    BY <1>s, <1>1 DEF ReportKept
  <2>3. out.at \notin {"none", "unsent", "lost"} /\ (out.at \in {"waiting", "active"} => out.attempt < Attempts)
    BY <1>s, <1>1, <1>2 DEF ReportKept
  <2>4. \A v \in Workers(r)' : /\ v \in Workers(r) /\ worker'[v] = worker[v]
                               /\ worker[v].at \notin {"find", "process"} => new.status \notin {"none", "PENDING"}
                               /\ worker[v].at \in {"complete", "notify"} => r \in stored \/ new.old
    BY <1>s, <1>1, <1>4 DEF ReportKept, Workers
  <2>5. course[r] = "straight" => Workers(r)' = {}
    BY <1>s, <1>1, <1>4 DEF ReportKept
  <2> QED BY <1>s, <1>5, <2>1, <2>2, <2>3, <2>4, <2>5 DEF ReportKept
<1>8. \A m \in Report \ {r} : row'[m] = row[m] /\ task'[m] = task[m] /\ told'[m] = told[m] /\ course'[m] = course[m]
  BY <1>s, <1>0, <1>2 DEF ReportTypes
<1> QED BY <1>s, <1>4, <1>5, <1>6, <1>7, <1>8, OneReport

(* A worker that goes on to its next step keeps the invariant. *)
LEMMA GotoKeeps ==
    ASSUME ReportInv, NEW w \in Worker, worker[w] # NoReport, NEW step \in Steps, Goto(w, step),
           NEW r \in Report, worker[w].of = r, NEW new,
           row' = [row EXCEPT ![r] = new], UNCHANGED <<told, pruning, course>>,
           faults' \in 0..MaxFaults, Going(r, new, step, stored')
    PROVE  ReportInv'
<1> USE NoReportAssumption
<1>0. ReportTypes
  BY DEF ReportInv
<1>s. /\ new \in RowsOfReports /\ new.old = row[r].old /\ stored' \in {stored, stored \cup {r}}
      /\ new = row[r] \/ new.status \notin {"none", "PENDING"}
      /\ new.status = "COMPLETED" /\ ~new.old => r \in stored'
      /\ new.status = "PENDING" => stored' = stored
      /\ step \notin {"find", "process"} => new.status \notin {"none", "PENDING"}
      /\ step \in {"complete", "notify"} => r \in stored' \/ new.old
      /\ course[r] = "straight" => /\ told[r] = 0
                                  /\ IF step = "notify" THEN new.status \in {"COMPLETED", "deleted"}
                                     ELSE step # "find" => new.status # "COMPLETED"
  BY DEF Going
<1>1. /\ worker[w] \in Generations /\ w \in Workers(r)
      /\ task[r].at \notin {"none", "unsent", "lost"} /\ row[r].status # "none" /\ ReportKept(r)
  BY WorkerHas
<1>2. PICK one \in Generations : one = [worker[w] EXCEPT !.at = step]
  BY <1>s, <1>1 DEF Generations
<1>3. one.of = r /\ one.at = step /\ one.owner = worker[w].owner
  BY <1>s, <1>1, <1>2 DEF Generations
<1>4. worker' = [worker EXCEPT ![w] = one] /\ task' = task /\ one # NoReport
  BY <1>s, <1>2 DEF Goto
<1>5. /\ worker' \in [Worker -> Generations \cup {NoReport}] /\ worker'[w] = one
      /\ \A v \in Worker \ {w} : worker'[v] = worker[v]
      /\ \A m \in Report \ {r} : /\ Workers(m)' = Workers(m) /\ Owners(m)' = Owners(m)
                                 /\ \A v \in Workers(m) : worker'[v] = worker[v]
      /\ Workers(r)' = Workers(r) \cup {w}
      /\ one.owner => Owners(r)' = Owners(r) \cup {w}
      /\ ~one.owner => Owners(r)' = Owners(r) \ {w}
  BY <1>s, <1>0, <1>3, <1>4, WorkersGo
<1>6. Workers(r)' = Workers(r) /\ Owners(r)' = Owners(r)
  BY <1>s, <1>1, <1>3, <1>4, <1>5 DEF Owners
<1>7. row'[r] = new
  BY <1>s, <1>0 DEF ReportTypes
<1>8. ReportTypes'
  BY <1>s, <1>0, <1>4, <1>5 DEF ReportTypes
<1>9. ReportKept(r)'
  <2>1. OneOwner(r)'
    BY <1>s, <1>1, <1>4, <1>6 DEF OneOwner, ReportKept
  <2>2. new.status # "none" /\ (new.status = "PENDING" => r \notin stored' /\ told[r] = 0)
    BY <1>s, <1>1 DEF ReportKept
  <2>3. \A v \in Workers(r) : /\ worker'[v].at \notin {"find", "process"} => new.status \notin {"none", "PENDING"}
                              /\ worker'[v].at \in {"complete", "notify"} => r \in stored' \/ new.old
    <3> SUFFICES ASSUME NEW v \in Workers(r), v # w
                 PROVE  /\ worker'[v].at \notin {"find", "process"} => new.status \notin {"none", "PENDING"}
                        /\ worker'[v].at \in {"complete", "notify"} => r \in stored' \/ new.old
      BY <1>s, <1>3, <1>5
    <3>1. worker'[v] = worker[v]
      BY <1>s, <1>5 DEF Workers
    <3> QED BY <1>s, <1>1, <3>1 DEF ReportKept
  <2>4. course[r] = "straight" => \A v \in Workers(r) : v = w
    BY <1>s, <1>1 DEF ReportKept
  <2>5. course[r] = "straight" =>
          /\ \A v, u \in Workers(r) : v = u
          /\ told[r] = 0
          /\ \A v \in Workers(r) : IF worker'[v].at = "notify" THEN new.status \in {"COMPLETED", "deleted"}
                                   ELSE worker'[v].at # "find" => new.status # "COMPLETED"
    BY <1>s, <1>3, <1>5, <2>4
  <2>6. task[r].at \in {"none", "unsent", "waiting", "active"} => task[r].attempt < Attempts
    BY <1>s, <1>1 DEF ReportKept
  <2> QED BY <1>s, <1>1, <1>4, <1>6, <1>7, <2>1, <2>2, <2>3, <2>5, <2>6 DEF ReportKept
<1>10. ASSUME NEW m \in Report \ {r}
       PROVE  row'[m] = row[m] /\ task'[m] = task[m] /\ told'[m] = told[m] /\ course'[m] = course[m]
  BY <1>s, <1>0, <1>4 DEF ReportTypes
<1>11. \A m \in Report \ {r} : m \in stored' <=> m \in stored
  BY <1>s
<1> QED BY <1>s, <1>5, <1>7, <1>8, <1>9, <1>10, <1>11, OneReport

(* A row given another status without a file is a row. *)
LEMMA NewStatus ==
    ASSUME NEW old \in RowsOfReports, NEW status \in {"PROCESSING", "FAILED", "PENDING", "deleted"}
    PROVE  /\ [old EXCEPT !.status = status] \in RowsOfReports
           /\ [old EXCEPT !.status = status].status = status /\ [old EXCEPT !.status = status].old = old.old
  BY DEF RowsOfReports, Statuses

(* A row that is COMPLETED has its key. *)
LEMMA NewKey ==
    ASSUME NEW old \in RowsOfReports, NEW new, new = [status |-> "COMPLETED", key |-> TRUE, old |-> old.old]
    PROVE  new \in RowsOfReports /\ new.status = "COMPLETED" /\ new.old = old.old
<1>1. old.old \in BOOLEAN /\ TRUE \in BOOLEAN /\ "COMPLETED" \in Statuses \cup {"none", "deleted"}
  BY DEF RowsOfReports, Statuses
<1>2. new \in RowsOfReports
  BY <1>1 DEF RowsOfReports
<1> QED BY <1>2

(* Every step of processReport keeps the invariant. *)
LEMMA WorkersKeep == ASSUME ReportInv, NEW w \in Worker, WorkerStep(w) PROVE ReportInv'
<1> USE NoReportAssumption, MaxFaultsAssumption
<1>0. /\ row \in [Report -> RowsOfReports] /\ told \in [Report -> Nat] /\ faults \in 0..MaxFaults /\ stored \subseteq Report
  BY DEF ReportInv, ReportTypes
<1>1. worker[w] # NoReport
  BY DEF WorkerStep, FindReport, StartProcessing, BuildAndUpload, BuildFails, CompleteReport, NotifyRecipients, RecordFailure, At
<1>2. worker[w].of \in Report
  BY <1>1, WorkerHas
<1>3. PICK r \in Report : worker[w].of = r
  BY <1>2
<1>4. /\ row[r] \in RowsOfReports /\ told[r] \in Nat /\ row[r].status # "none" /\ ReportKept(r) /\ w \in Workers(r)
  BY <1>0, <1>1, <1>3, WorkerHas
<1>5. row = [row EXCEPT ![r] = row[r]] /\ told = [told EXCEPT ![r] = told[r]]
  BY <1>0
<1>6. /\ row[r].status \in {"none", "PENDING"} => r \notin stored /\ told[r] = 0
      /\ row[r].status = "COMPLETED" /\ ~row[r].old => r \in stored
      /\ worker[w].at \notin {"find", "process"} => row[r].status \notin {"none", "PENDING"}
      /\ worker[w].at \in {"complete", "notify"} => r \in stored \/ row[r].old
      /\ course[r] = "straight" =>
           /\ told[r] <= 1 /\ (told[r] = 1 => row[r].status \in {"COMPLETED", "deleted"})
           /\ worker[w].at # "find" => told[r] = 0
           /\ IF worker[w].at = "notify" THEN row[r].status \in {"COMPLETED", "deleted"}
              ELSE worker[w].at # "find" => row[r].status # "COMPLETED"
  BY <1>4 DEF ReportKept
<1>7. TRUE \in BOOLEAN /\ FALSE \in BOOLEAN
  OBVIOUS
<1>8. \A step \in {"find", "process", "build", "complete", "notify", "fail"} : step \in Steps
  BY DEF Steps
<1>9. ASSUME NEW fine \in BOOLEAN, Settle(w, fine), UNCHANGED <<row, stored, told, pruning, course, faults>> PROVE ReportInv'
  <2>1. row' = [row EXCEPT ![r] = row[r]] /\ told' = [told EXCEPT ![r] = told[r]] /\ faults' \in 0..MaxFaults
    BY <1>0, <1>5, <1>9
  <2>2. Settling(r, row[r], told[r])
    BY <1>4, <1>6 DEF Settling
  <2> QED BY <1>1, <1>3, <1>9, <2>1, <2>2, SettleKeeps
<1>10. CASE FindReport(w)
  <2>1. CASE Exists(r) /\ row[r].status # "COMPLETED"
    <3>1. Goto(w, "process") /\ UNCHANGED <<row, stored, pruning, told, course, faults>>
      BY <1>3, <1>10, <2>1 DEF FindReport
    <3>2. row' = [row EXCEPT ![r] = row[r]] /\ stored' \in {stored, stored \cup {r}} /\ faults' \in 0..MaxFaults
      BY <1>0, <1>5, <3>1
    <3>3. course[r] = "straight" => told[r] = 0
      BY <1>4, <1>6, <2>1 DEF Exists, Statuses
    <3>4. Going(r, row[r], "process", stored')
      BY <1>4, <1>6, <2>1, <3>1, <3>3 DEF Going
    <3> QED BY <1>1, <1>3, <1>8, <3>1, <3>2, <3>4, GotoKeeps
  <2>2. CASE ~(Exists(r) /\ row[r].status # "COMPLETED")
    <3>1. Settle(w, TRUE) /\ UNCHANGED <<row, stored, pruning, told, course, faults>>
      BY <1>3, <1>10, <2>2 DEF FindReport
    <3> QED BY <1>7, <1>9, <3>1
  <2> QED BY <2>1, <2>2
<1>11. CASE StartProcessing(w)
  <2>0. worker[w].at = "process" /\ UNCHANGED <<stored, pruning, told, course, faults>>
    BY <1>11 DEF StartProcessing, At
  <2>1. CASE Exists(r)
    <3> DEFINE new == [row[r] EXCEPT !.status = "PROCESSING"]
    <3>1. row' = [row EXCEPT ![r] = new] /\ Goto(w, "build")
      BY <1>3, <1>11, <2>1 DEF StartProcessing
    <3>2. new \in RowsOfReports /\ new.status = "PROCESSING" /\ new.old = row[r].old
      BY <1>4, NewStatus
    <3> HIDE DEF new
    <3>3. stored' \in {stored, stored \cup {r}} /\ faults' \in 0..MaxFaults /\ stored' = stored
      BY <1>0, <2>0
    <3>4. course[r] = "straight" => told[r] = 0
      BY <1>6, <2>0
    <3>5. Going(r, new, "build", stored')
      BY <2>0, <3>2, <3>3, <3>4 DEF Going
    <3> QED BY <1>1, <1>3, <1>8, <2>0, <3>1, <3>3, <3>5, GotoKeeps
  <2>2. CASE ~Exists(r)
    <3>1. Settle(w, FALSE) /\ UNCHANGED row
      BY <1>3, <1>11, <2>2 DEF StartProcessing
    <3> QED BY <1>7, <1>9, <2>0, <3>1
  <2> QED BY <2>1, <2>2
<1>12. CASE BuildAndUpload(w)
  <2>1. /\ worker[w].at = "build" /\ Goto(w, "complete") /\ stored' = stored \cup {r}
        /\ UNCHANGED <<row, pruning, told, course, faults>>
    BY <1>3, <1>12 DEF BuildAndUpload, At
  <2>2. row' = [row EXCEPT ![r] = row[r]] /\ stored' \in {stored, stored \cup {r}} /\ faults' \in 0..MaxFaults
    BY <1>0, <1>5, <2>1
  <2>3. r \in stored' /\ row[r].status \notin {"none", "PENDING"}
    BY <1>6, <2>1
  <2>4. course[r] = "straight" => told[r] = 0 /\ row[r].status # "COMPLETED"
    BY <1>6, <2>1
  <2>5. Going(r, row[r], "complete", stored')
    BY <1>4, <2>2, <2>3, <2>4 DEF Going
  <2> QED BY <1>1, <1>3, <1>8, <2>1, <2>2, <2>5, GotoKeeps
<1>13. CASE BuildFails(w)
  <2>1. /\ worker[w].at = "build" /\ Goto(w, "fail")
        /\ UNCHANGED <<row, stored, pruning, told, course, faults>>
    BY <1>3, <1>13 DEF BuildFails, At
  <2>2. row' = [row EXCEPT ![r] = row[r]] /\ stored' \in {stored, stored \cup {r}} /\ faults' \in 0..MaxFaults
    BY <1>0, <1>5, <2>1
  <2>3. row[r].status \notin {"none", "PENDING"}
    BY <1>6, <2>1
  <2>4. course[r] = "straight" => told[r] = 0 /\ row[r].status # "COMPLETED"
    BY <1>6, <2>1
  <2>5. Going(r, row[r], "fail", stored')
    BY <1>4, <1>6, <2>1, <2>2, <2>3, <2>4 DEF Going
  <2> QED BY <1>1, <1>3, <1>8, <2>1, <2>2, <2>5, GotoKeeps
<1>14. CASE CompleteReport(w)
  <2>0. worker[w].at = "complete" /\ UNCHANGED <<stored, pruning, told, course, faults>>
    BY <1>14 DEF CompleteReport, At
  <2>a. stored' \in {stored, stored \cup {r}} /\ faults' \in 0..MaxFaults /\ stored' = stored
    BY <1>0, <2>0
  <2>b. course[r] = "straight" => told[r] = 0 /\ row[r].status # "COMPLETED"
    BY <1>6, <2>0
  <2>1. CASE Exists(r)
    <3> DEFINE new == [status |-> "COMPLETED", key |-> TRUE, old |-> row[r].old]
    <3>1. row' = [row EXCEPT ![r] = new] /\ IF r \in Scheduled THEN Goto(w, "notify") ELSE Settle(w, TRUE)
      BY <1>3, <1>14, <2>1 DEF CompleteReport
    <3>2. new \in RowsOfReports /\ new.status = "COMPLETED" /\ new.old = row[r].old
      BY <1>4, NewKey
    <3> HIDE DEF new
    <3>3. r \in stored \/ new.old
      BY <1>6, <2>0, <3>2
    <3>4. CASE r \in Scheduled
      <4>1. Goto(w, "notify")
        BY <3>1, <3>4
      <4>2. Going(r, new, "notify", stored')
        BY <2>a, <2>b, <3>2, <3>3 DEF Going
      <4> QED BY <1>1, <1>3, <1>8, <2>0, <2>a, <3>1, <4>1, <4>2, GotoKeeps
    <3>5. CASE r \notin Scheduled
      <4>1. Settle(w, TRUE) /\ told' = [told EXCEPT ![r] = told[r]]
        BY <1>5, <2>0, <3>1, <3>5
      <4>2. Settling(r, new, told[r])
        BY <1>4, <1>6, <2>a, <2>b, <3>2, <3>3 DEF Settling
      <4> QED BY <1>1, <1>3, <1>7, <2>0, <2>a, <3>1, <4>1, <4>2, SettleKeeps
    <3> QED BY <3>4, <3>5
  <2>2. CASE ~Exists(r)
    <3>1. Goto(w, "fail") /\ row' = [row EXCEPT ![r] = row[r]]
      BY <1>3, <1>5, <1>14, <2>2 DEF CompleteReport
    <3>2. row[r].status \notin {"none", "PENDING"}
      BY <1>6, <2>0
    <3>3. Going(r, row[r], "fail", stored')
      BY <1>4, <1>6, <2>a, <2>b, <3>2 DEF Going
    <3> QED BY <1>1, <1>3, <1>8, <2>0, <2>a, <3>1, <3>3, GotoKeeps
  <2> QED BY <2>1, <2>2
<1>15. CASE NotifyRecipients(w)
  <2>1. /\ worker[w].at = "notify" /\ Settle(w, TRUE) /\ told' = [told EXCEPT ![r] = told[r] + 1]
        /\ UNCHANGED <<row, stored, pruning, course, faults>>
    BY <1>3, <1>15 DEF NotifyRecipients, At
  <2>2. row' = [row EXCEPT ![r] = row[r]] /\ faults' \in 0..MaxFaults /\ told[r] + 1 \in Nat
    BY <1>0, <1>4, <1>5, <2>1
  <2>3. row[r].status \notin {"none", "PENDING"}
    BY <1>6, <2>1
  <2>4. course[r] = "straight" => told[r] + 1 <= 1 /\ row[r].status \in {"COMPLETED", "deleted"}
    BY <1>6, <2>1
  <2>5. Settling(r, row[r], told[r] + 1)
    BY <1>4, <1>6, <2>2, <2>3, <2>4 DEF Settling
  <2> QED BY <1>1, <1>3, <1>7, <2>1, <2>2, <2>5, SettleKeeps
<1>16. CASE RecordFailure(w)
  <2>0. worker[w].at = "fail" /\ Settle(w, FALSE) /\ UNCHANGED <<stored, pruning, told, course, faults>>
    BY <1>16 DEF RecordFailure, At
  <2>1. CASE Exists(r)
    <3> DEFINE new == [row[r] EXCEPT !.status = "FAILED"]
    <3>1. row' = [row EXCEPT ![r] = new] /\ told' = [told EXCEPT ![r] = told[r]] /\ faults' \in 0..MaxFaults
      BY <1>0, <1>3, <1>5, <1>16, <2>0, <2>1 DEF RecordFailure
    <3>2. new \in RowsOfReports /\ new.status = "FAILED" /\ new.old = row[r].old
      BY <1>4, NewStatus
    <3> HIDE DEF new
    <3>3. course[r] = "straight" => told[r] = 0
      BY <1>6, <2>0
    <3>4. Settling(r, new, told[r])
      BY <1>4, <3>2, <3>3 DEF Settling
    <3> QED BY <1>1, <1>3, <1>7, <2>0, <3>1, <3>4, SettleKeeps
  <2>2. CASE ~Exists(r)
    <3>1. UNCHANGED row
      BY <1>3, <1>16, <2>2 DEF RecordFailure
    <3> QED BY <1>7, <1>9, <2>0, <3>1
  <2> QED BY <2>1, <2>2
<1> QED BY <1>10, <1>11, <1>12, <1>13, <1>14, <1>15, <1>16 DEF WorkerStep

(* So do a request, its job and the time that passes. *)
LEMMA RequestsKeep ==
    ASSUME ReportInv, NEW r \in Report, RequestReport(r) \/ EnqueueReport(r) \/ EnqueueLost(r) \/ Age(r)
    PROVE  ReportInv'
<1>0. ReportTypes /\ ReportKept(r) /\ row[r] \in RowsOfReports /\ task[r] \in JobsOfReports
  BY DEF ReportInv, ReportTypes
<1>1. UNCHANGED <<stored, worker, pruning, told, course, faults>>
  BY DEF RequestReport, EnqueueReport, EnqueueLost, Age
<1>2. \A m \in Report : Workers(m)' = Workers(m) /\ Owners(m)' = Owners(m)
  BY <1>1 DEF Workers, Owners
<1>3. ASSUME NEW new \in RowsOfReports, NEW out \in JobsOfReports, row' = [row EXCEPT ![r] = new], task' = [task EXCEPT ![r] = out],
             row[r].old => new.old, ReportKept(r)'
      PROVE  ReportInv'
  <2>1. ReportTypes'
    BY <1>0, <1>1, <1>3 DEF ReportTypes
  <2>2. row'[r] = new
    BY <1>0, <1>3 DEF ReportTypes
  <2>3. \A m \in Report \ {r} : row'[m] = row[m] /\ task'[m] = task[m]
    BY <1>0, <1>3 DEF ReportTypes
  <2> QED BY <1>1, <1>2, <1>3, <2>1, <2>2, <2>3, OneReport
<1>4. ASSUME NEW at \in {"unsent", "waiting", "lost"}
      PROVE  [task[r] EXCEPT !.at = at] \in JobsOfReports /\ [task[r] EXCEPT !.at = at].at = at
             /\ [task[r] EXCEPT !.at = at].attempt = task[r].attempt
  BY <1>0 DEF JobsOfReports
<1>r. row = [row EXCEPT ![r] = row[r]] /\ task = [task EXCEPT ![r] = task[r]]
  BY <1>0 DEF ReportTypes
<1>5. CASE RequestReport(r)
  <2> DEFINE new == [row[r] EXCEPT !.status = "PENDING"]
             out == [task[r] EXCEPT !.at = "unsent"]
  <2>1. new \in RowsOfReports /\ new.status = "PENDING" /\ new.old = row[r].old
    BY <1>0, NewStatus
  <2>2. out \in JobsOfReports /\ out.at = "unsent" /\ out.attempt = task[r].attempt
    BY <1>4
  <2>3. row' = [row EXCEPT ![r] = new] /\ task' = [task EXCEPT ![r] = out] /\ row[r].status = "none"
    BY <1>5 DEF RequestReport
  <2> HIDE DEF new, out
  <2>4. row'[r] = new /\ task'[r] = out
    BY <1>0, <2>3 DEF ReportTypes
  <2>5. task[r].at = "none" /\ Workers(r) = {} /\ r \notin stored /\ told[r] = 0 /\ Owners(r) = {} /\ task[r].attempt < Attempts
    BY <1>0, <2>3 DEF ReportKept, OneOwner
  <2>6. ReportKept(r)'
    BY <1>1, <1>2, <2>1, <2>2, <2>4, <2>5 DEF ReportKept, OneOwner
  <2> QED BY <1>3, <2>1, <2>2, <2>3, <2>6
<1>6. CASE EnqueueReport(r) \/ EnqueueLost(r)
  <2>1. PICK at \in {"waiting", "lost"} : task' = [task EXCEPT ![r].at = at]
    BY <1>6 DEF EnqueueReport, EnqueueLost
  <2> DEFINE out == [task[r] EXCEPT !.at = at]
  <2>2. out \in JobsOfReports /\ out.at = at /\ out.attempt = task[r].attempt
    BY <1>4
  <2>3. row' = [row EXCEPT ![r] = row[r]] /\ task' = [task EXCEPT ![r] = out] /\ task[r].at = "unsent"
    BY <1>6, <1>r, <2>1 DEF EnqueueReport, EnqueueLost
  <2> HIDE DEF out
  <2>4. row' = row /\ task'[r] = out
    BY <1>0, <1>r, <2>3 DEF ReportTypes
  <2>5. Workers(r) = {} /\ Owners(r) = {} /\ task[r].attempt < Attempts /\ row[r].status # "none"
    BY <1>0, <2>3 DEF ReportKept, OneOwner
  <2>6. ReportKept(r)'
    BY <1>0, <1>1, <1>2, <2>2, <2>4, <2>5 DEF ReportKept, OneOwner
  <2> QED BY <1>0, <1>3, <2>2, <2>3, <2>6
<1>7. CASE Age(r)
  <2> DEFINE new == [row[r] EXCEPT !.old = TRUE]
  <2>1. new \in RowsOfReports /\ new.status = row[r].status
    BY <1>0 DEF RowsOfReports
  <2>2. new.old
    BY <1>0 DEF RowsOfReports
  <2>3. row' = [row EXCEPT ![r] = new] /\ task' = [task EXCEPT ![r] = task[r]]
    BY <1>7, <1>r DEF Age
  <2> HIDE DEF new
  <2>4. row'[r] = new /\ task' = task
    BY <1>0, <1>7, <2>3 DEF ReportTypes, Age
  <2>6. ReportKept(r)'
    BY <1>0, <1>1, <1>2, <2>1, <2>2, <2>4 DEF ReportKept, OneOwner
  <2> QED BY <1>0, <1>3, <2>1, <2>2, <2>3, <2>6
<1> QED BY <1>5, <1>6, <1>7

(* A worker takes a report up. *)
LEMMA StartsKeep ==
    ASSUME ReportInv, NEW w \in Worker, NEW r \in Report, GenerateInline(w, r) \/ DeliverReport(w, r)
    PROVE  ReportInv'
<1> USE NoReportAssumption
<1>0. ReportTypes /\ ReportKept(r) /\ row[r] \in RowsOfReports /\ task[r] \in JobsOfReports
  BY DEF ReportInv, ReportTypes
<1>1. worker[w] = NoReport /\ UNCHANGED <<row, stored, pruning, told, faults>>
  BY DEF GenerateInline, DeliverReport
<1>2. PICK owner \in BOOLEAN, at \in {"active", "ended"} :
          /\ worker' = [worker EXCEPT ![w] = [of |-> r, at |-> "find", owner |-> owner]]
          /\ task' = [task EXCEPT ![r].at = at]
          /\ owner => at = "active" /\ task[r].at = "waiting" /\ DeliverReport(w, r)
          /\ ~owner => at = "ended" /\ task[r].at = "unsent" /\ course' = course
  <2>1. CASE GenerateInline(w, r)
    <3>1. FALSE \in BOOLEAN /\ "ended" \in {"active", "ended"}
      OBVIOUS
    <3>2. /\ worker' = [worker EXCEPT ![w] = [of |-> r, at |-> "find", owner |-> FALSE]]
          /\ task' = [task EXCEPT ![r].at = "ended"] /\ task[r].at = "unsent" /\ course' = course
      BY <2>1 DEF GenerateInline
    <3> QED BY <3>1, <3>2
  <2>2. CASE DeliverReport(w, r)
    <3>1. TRUE \in BOOLEAN /\ "active" \in {"active", "ended"}
      OBVIOUS
    <3>2. /\ worker' = [worker EXCEPT ![w] = [of |-> r, at |-> "find", owner |-> TRUE]]
          /\ task' = [task EXCEPT ![r].at = "active"] /\ task[r].at = "waiting"
      BY <2>2 DEF DeliverReport
    <3> QED BY <2>2, <3>1, <3>2
  <2> QED BY <2>1, <2>2
<1> DEFINE one == [of |-> r, at |-> "find", owner |-> owner]
           out == [task[r] EXCEPT !.at = at]
<1>3. one \in Generations /\ one.of = r /\ one.at = "find" /\ one.owner = owner
  BY DEF Generations, Steps
<1>4. out \in JobsOfReports /\ out.at = at /\ out.attempt = task[r].attempt
  BY <1>0 DEF JobsOfReports
<1>5. worker' = [worker EXCEPT ![w] = one] /\ task' = [task EXCEPT ![r] = out]
  BY <1>2
<1> HIDE DEF one, out
<1>6. /\ worker' \in [Worker -> Generations \cup {NoReport}] /\ worker'[w] = one
      /\ \A v \in Worker \ {w} : worker'[v] = worker[v]
      /\ \A m \in Report \ {r} : /\ Workers(m)' = Workers(m) /\ Owners(m)' = Owners(m)
                                 /\ \A v \in Workers(m) : worker'[v] = worker[v]
      /\ Workers(r)' = Workers(r) \cup {w}
      /\ one.owner => Owners(r)' = Owners(r) \cup {w}
      /\ ~one.owner => Owners(r)' = Owners(r) \ {w}
  BY <1>0, <1>1, <1>3, <1>5, WorkersGo
<1>7. /\ course' \in [Report -> {"straight", "overlapped", "deserted"}]
      /\ \A m \in Report \ {r} : course'[m] = course[m]
      /\ course'[r] = "straight" => course[r] = "straight" /\ Workers(r) = {}
  <2>1. CASE owner
    <3>1. \/ course' = course /\ (course[r] = "straight" => Workers(r) = {})
          \/ course' = [course EXCEPT ![r] = "overlapped"]
      BY <1>2, <2>1 DEF DeliverReport, Workers
    <3> QED BY <1>0, <3>1 DEF ReportTypes
  <2>2. CASE ~owner
    BY <1>0, <1>2, <2>2 DEF ReportTypes, ReportKept
  <2> QED BY <2>1, <2>2
<1>8. ReportTypes'
  BY <1>0, <1>1, <1>4, <1>5, <1>6, <1>7 DEF ReportTypes
<1>9. ReportKept(r)'
  <2>1. Owners(r) = {} /\ task'[r] = out /\ w \notin Workers(r)
    BY <1>0, <1>1, <1>2, <1>5 DEF ReportKept, OneOwner, ReportTypes, Workers
  <2>2. OneOwner(r)'
    BY <1>2, <1>3, <1>4, <1>6, <2>1 DEF OneOwner
  <2>3. row[r].status # "none" /\ out.attempt < Attempts /\ out.at \in {"active", "ended"}
    BY <1>0, <1>2, <1>4 DEF ReportKept
  <2>4. \A v \in Workers(r)' : v = w \/ (v \in Workers(r) /\ worker'[v] = worker[v])
    BY <1>6 DEF Workers
  <2>5. \A v \in Workers(r)' : worker'[v].at # "find" => v \in Workers(r) /\ worker'[v] = worker[v]
    BY <1>3, <1>6, <2>4
  <2>6. \A v \in Workers(r)' : /\ worker'[v].at \notin {"find", "process"} => row[r].status \notin {"none", "PENDING"}
                               /\ worker'[v].at \in {"complete", "notify"} => r \in stored \/ row[r].old
    BY <1>0, <2>5 DEF ReportKept
  <2>7. course'[r] = "straight" =>
          /\ Workers(r)' = {w} /\ worker'[w].at = "find" /\ told[r] <= 1
          /\ told[r] = 1 => row[r].status \in {"COMPLETED", "deleted"}
    BY <1>0, <1>3, <1>6, <1>7 DEF ReportKept
  <2>8. /\ row[r].status = "PENDING" => r \notin stored /\ told[r] = 0
        /\ row[r].status = "COMPLETED" /\ ~row[r].old => r \in stored
    BY <1>0 DEF ReportKept
  <2> QED BY <1>1, <2>1, <2>2, <2>3, <2>6, <2>7, <2>8 DEF ReportKept
<1>10. \A m \in Report \ {r} : task'[m] = task[m]
  BY <1>0, <1>5 DEF ReportTypes
<1> QED BY <1>1, <1>6, <1>7, <1>8, <1>9, <1>10, OneReport

(* A job taken from a worker waits again or is given up. *)
LEMMA TakenTask ==
    ASSUME NEW r \in Report, task[r] \in JobsOfReports, task[r].at = "active"
    PROVE  Taken(r) \in JobsOfReports /\ Taken(r).at \in {"waiting", "abandoned"} /\ Taken(r).attempt = task[r].attempt
<1>1. CASE task[r].stalls < 1
  <2> DEFINE mid == [task[r] EXCEPT !.at = "waiting"]
             out == [mid EXCEPT !.stalls = 1]
  <2>1. mid = [at |-> "waiting", attempt |-> task[r].attempt, stalls |-> task[r].stalls]
    BY DEF JobsOfReports
  <2>2. Taken(r) = out
    BY <1>1 DEF Taken
  <2> HIDE DEF mid
  <2>3. out = [at |-> "waiting", attempt |-> task[r].attempt, stalls |-> 1]
    BY <2>1
  <2> HIDE DEF out
  <2>4. out \in JobsOfReports
    BY <2>3 DEF JobsOfReports
  <2> QED BY <2>2, <2>3, <2>4
<1>2. CASE ~(task[r].stalls < 1)
  <2> DEFINE out == [task[r] EXCEPT !.at = "abandoned"]
  <2>1. Taken(r) = out
    BY <1>2 DEF Taken
  <2>2. out \in JobsOfReports /\ out.at = "abandoned" /\ out.attempt = task[r].attempt
    BY DEF JobsOfReports
  <2> QED BY <2>1, <2>2
<1> QED BY <1>1, <1>2

(* A stall and the death of a worker keep the invariant: the report is in another hand, or in none. *)
LEMMA FaultsKeep ==
    ASSUME ReportInv, NEW w \in Worker, Stall(w) \/ WorkerDies(w)
    PROVE  ReportInv'
<1> USE NoReportAssumption, MaxFaultsAssumption
<1>0. ReportTypes
  BY DEF ReportInv
<1>1. worker[w] # NoReport /\ UNCHANGED <<row, stored, pruning, told>> /\ Faulty
  BY DEF Stall, WorkerDies
<1>f. faults' \in 0..MaxFaults
  BY <1>0, <1>1 DEF Faulty, ReportTypes
<1>2. worker[w].of \in Report
  BY <1>1, WorkerHas
<1>3. PICK r \in Report : worker[w].of = r
  BY <1>2
<1>4. /\ worker[w] \in Generations /\ worker[w].owner \in BOOLEAN /\ w \in Workers(r)
      /\ (worker[w].owner => Owners(r) = {w} /\ task[r].at = "active") /\ task[r] \in JobsOfReports
      /\ task[r].at \notin {"none", "unsent", "lost"} /\ row[r].status # "none" /\ ReportKept(r)
  BY <1>1, <1>3, WorkerHas
<1>5. task[r].at = "active" => Taken(r) \in JobsOfReports /\ Taken(r).at \in {"waiting", "abandoned"} /\ Taken(r).attempt = task[r].attempt
  BY <1>4, TakenTask
<1>6. /\ row[r].status = "PENDING" => r \notin stored /\ told[r] = 0
      /\ row[r].status = "COMPLETED" /\ ~row[r].old => r \in stored
      /\ task[r].at \in {"waiting", "active"} => task[r].attempt < Attempts
      /\ course[r] = "straight" => told[r] <= 1 /\ (told[r] = 1 => row[r].status \in {"COMPLETED", "deleted"})
  BY <1>4 DEF ReportKept
<1>7. CASE Stall(w)
  <2>1. PICK no \in BOOLEAN : no = FALSE /\ worker' = [worker EXCEPT ![w].owner = no]
    BY <1>7 DEF Stall
  <2> DEFINE one == [worker[w] EXCEPT !.owner = no]
  <2>2. one \in Generations /\ one.of = r /\ one.at = worker[w].at /\ one.owner = no
    BY <1>3, <1>4 DEF Generations
  <2>3. /\ worker' = [worker EXCEPT ![w] = one] /\ worker[w].owner /\ UNCHANGED course
        /\ task' = [task EXCEPT ![r] = Taken(r)]
    BY <1>3, <1>7, <2>1 DEF Stall
  <2> HIDE DEF one
  <2>4. /\ worker' \in [Worker -> Generations \cup {NoReport}] /\ worker'[w] = one
        /\ \A v \in Worker \ {w} : worker'[v] = worker[v]
        /\ \A m \in Report \ {r} : /\ Workers(m)' = Workers(m) /\ Owners(m)' = Owners(m)
                                   /\ \A v \in Workers(m) : worker'[v] = worker[v]
        /\ Workers(r)' = Workers(r) \cup {w}
        /\ one.owner => Owners(r)' = Owners(r) \cup {w}
        /\ ~one.owner => Owners(r)' = Owners(r) \ {w}
    BY <1>0, <1>3, <2>2, <2>3, WorkersGo
  <2>5. Workers(r)' = Workers(r) /\ Owners(r)' = {}
    BY <1>4, <2>1, <2>2, <2>3, <2>4
  <2>6. task'[r] = Taken(r) /\ \A m \in Report \ {r} : task'[m] = task[m]
    BY <1>0, <2>3 DEF ReportTypes
  <2>7. ReportTypes'
    BY <1>0, <1>1, <1>4, <1>5, <1>f, <2>3, <2>4 DEF ReportTypes
  <2>8. \A v \in Workers(r) : worker'[v].at = worker[v].at
    BY <2>2, <2>4 DEF Workers
  <2>9. ReportKept(r)'
    <3>1. OneOwner(r)'
      BY <1>4, <1>5, <2>3, <2>5, <2>6 DEF OneOwner
    <3> HIDE DEF Taken
    <3> QED BY <1>1, <1>4, <1>5, <1>6, <2>3, <2>5, <2>6, <2>8, <3>1 DEF ReportKept
  <2> QED BY <1>1, <2>3, <2>4, <2>6, <2>7, <2>9, OneReport
<1>8. CASE WorkerDies(w)
  <2>1. worker' = [worker EXCEPT ![w] = NoReport]
    BY <1>8 DEF WorkerDies
  <2>2. /\ worker' \in [Worker -> Generations \cup {NoReport}] /\ worker'[w] = NoReport
        /\ \A v \in Worker \ {w} : worker'[v] = worker[v]
        /\ \A m \in Report \ {r} : /\ Workers(m)' = Workers(m) /\ Owners(m)' = Owners(m)
                                   /\ \A v \in Workers(m) : worker'[v] = worker[v]
        /\ Workers(r)' = Workers(r) \ {w} /\ Owners(r)' = Owners(r) \ {w}
    BY <1>0, <1>3, <2>1, WorkersMove
  <2>3. PICK out \in JobsOfReports : /\ task' = [task EXCEPT ![r] = out] /\ out.attempt = task[r].attempt
                                     /\ IF worker[w].owner THEN out.at \in {"waiting", "abandoned"} ELSE out = task[r]
    <3>1. CASE worker[w].owner
      BY <1>3, <1>4, <1>5, <1>8, <3>1 DEF WorkerDies
    <3>2. CASE ~worker[w].owner
      <4>1. task' = task
        BY <1>8, <3>2 DEF WorkerDies
      <4>2. task' = [task EXCEPT ![r] = task[r]]
        BY <1>0, <4>1 DEF ReportTypes
      <4> QED BY <1>4, <3>2, <4>2
    <3> QED BY <1>4, <3>1, <3>2
  <2>4. /\ course' \in [Report -> {"straight", "overlapped", "deserted"}]
        /\ \A m \in Report \ {r} : course'[m] = course[m]
        /\ course'[r] = "straight" => course[r] = "straight"
    BY <1>0, <1>3, <1>8 DEF WorkerDies, ReportTypes
  <2>5. task'[r] = out /\ \A m \in Report \ {r} : task'[m] = task[m]
    BY <1>0, <2>3 DEF ReportTypes
  <2>6. ReportTypes'
    BY <1>0, <1>1, <1>f, <2>2, <2>3, <2>4 DEF ReportTypes
  <2>7. ReportKept(r)'
    <3>1. OneOwner(r)'
      <4>1. CASE worker[w].owner
        BY <1>4, <2>2, <2>3, <2>5, <4>1 DEF OneOwner
      <4>2. CASE ~worker[w].owner
        <5>1. w \notin Owners(r) /\ Owners(r)' = Owners(r) /\ out = task[r] /\ OneOwner(r)
          BY <1>4, <2>2, <2>3, <4>2 DEF Owners, ReportKept
        <5> QED BY <2>5, <5>1 DEF OneOwner
      <4> QED BY <1>4, <4>1, <4>2
    <3>2. out.at \notin {"none", "unsent", "lost"} /\ (out.at \in {"waiting", "active"} => out.attempt < Attempts)
      BY <1>4, <1>6, <2>3
    <3>3. \A v \in Workers(r)' : v \in Workers(r) /\ worker'[v] = worker[v]
      BY <2>2 DEF Workers
    <3>4. course'[r] = "straight" => Workers(r)' = {}
      BY <1>4, <2>2, <2>4 DEF ReportKept
    <3>5. \A v \in Workers(r)' : /\ worker'[v].at \notin {"find", "process"} => row[r].status \notin {"none", "PENDING"}
                                 /\ worker'[v].at \in {"complete", "notify"} => r \in stored \/ row[r].old
      BY <1>4, <3>3 DEF ReportKept
    <3> QED BY <1>1, <1>4, <1>6, <2>4, <2>5, <3>1, <3>2, <3>4, <3>5 DEF ReportKept
  <2> QED BY <1>1, <2>2, <2>4, <2>5, <2>6, <2>7, OneReport
<1> QED BY <1>7, <1>8

(* The pruning takes files and rows of old reports only. *)
LEMMA PruningKeeps ==
    ASSUME ReportInv, FindOld \/ DeleteRows \/ PruneDies \/ \E r \in Report : DeleteReportFile(r) \/ KeepReportFile(r)
    PROVE  ReportInv'
<1> USE NoReportAssumption, MaxFaultsAssumption
<1>0. ReportTypes /\ OldPruned /\ \A r \in Report : ReportKept(r)
  BY DEF ReportInv
<1>1. UNCHANGED <<task, worker, told, course>>
  BY DEF FindOld, DeleteRows, PruneDies, DeleteReportFile, KeepReportFile
<1>2. \A m \in Report : Workers(m)' = Workers(m) /\ Owners(m)' = Owners(m)
  BY <1>1 DEF Workers, Owners
<1>f. faults' \in 0..MaxFaults
  <2>1. Faulty \/ faults' = faults
    BY DEF FindOld, DeleteRows, PruneDies, DeleteReportFile, KeepReportFile
  <2> QED BY <1>0, <2>1 DEF Faulty, ReportTypes
<1>3. ASSUME UNCHANGED row, stored' \subseteq stored, pruning' \in Prunings \cup {NoReport}, \A r \in stored \ stored' : row[r].old, OldPruned'
      PROVE  ReportInv'
  <2>1. ReportTypes'
    BY <1>0, <1>1, <1>3, <1>f DEF ReportTypes
  <2>2. ASSUME NEW r \in Report PROVE ReportKept(r)'
    <3>1. ReportKept(r) /\ Workers(r)' = Workers(r) /\ Owners(r)' = Owners(r) /\ (r \in stored => r \in stored' \/ row[r].old)
      BY <1>0, <1>2, <1>3
    <3>2. OneOwner(r)'
      BY <1>1, <3>1 DEF ReportKept, OneOwner
    <3> QED BY <1>1, <1>3, <3>1, <3>2 DEF ReportKept
  <2> QED BY <1>3, <2>1, <2>2 DEF ReportInv
<1>4. CASE FindOld
  <2> DEFINE found == {r \in Report : Exists(r) /\ row[r].old /\ row[r].key}
             removable == {r \in Report : Exists(r) /\ row[r].old /\ ~row[r].key}
             next == [found |-> found, removable |-> removable]
  <2>1. pruning' = next /\ UNCHANGED <<row, stored>>
    BY <1>4 DEF FindOld
  <2>2. found \subseteq Report /\ removable \subseteq Report /\ \A r \in found \cup removable : row[r].old
    OBVIOUS
  <2> HIDE DEF found, removable
  <2>3. next \in Prunings /\ next.found = found /\ next.removable = removable
    BY <2>2 DEF Prunings
  <2> HIDE DEF next
  <2>4. OldPruned'
    BY <2>1, <2>2, <2>3 DEF OldPruned
  <2> QED BY <1>3, <2>1, <2>3, <2>4
<1>5. CASE PruneDies
  BY <1>0, <1>3, <1>5 DEF PruneDies, OldPruned
<1>6. ASSUME NEW r \in Report, DeleteReportFile(r) PROVE ReportInv'
  <2> DEFINE next == [found |-> pruning.found \ {r}, removable |-> pruning.removable \cup {r}]
  <2>1. pruning # NoReport /\ r \in pruning.found /\ stored' = stored \ {r} /\ pruning' = next /\ UNCHANGED row
    BY <1>6 DEF DeleteReportFile
  <2>2. pruning \in Prunings /\ row[r].old /\ \A m \in pruning.found \cup pruning.removable : row[m].old
    BY <1>0, <2>1 DEF ReportTypes, OldPruned
  <2>3. next \in Prunings /\ next.found \cup next.removable \subseteq pruning.found \cup pruning.removable \cup {r}
    BY <2>2 DEF Prunings
  <2> HIDE DEF next
  <2>4. OldPruned'
    BY <2>1, <2>2, <2>3 DEF OldPruned
  <2> QED BY <1>3, <2>1, <2>2, <2>3, <2>4
<1>7. ASSUME NEW r \in Report, KeepReportFile(r) PROVE ReportInv'
  <2> DEFINE next == [pruning EXCEPT !.found = pruning.found \ {r}]
  <2>1. pruning # NoReport /\ pruning' = next /\ UNCHANGED <<row, stored>>
    BY <1>7 DEF KeepReportFile
  <2>2. pruning \in Prunings /\ \A m \in pruning.found \cup pruning.removable : row[m].old
    BY <1>0, <2>1 DEF ReportTypes, OldPruned
  <2>3. next \in Prunings /\ next.found \cup next.removable \subseteq pruning.found \cup pruning.removable
    BY <2>2 DEF Prunings
  <2> HIDE DEF next
  <2>4. OldPruned'
    BY <2>1, <2>2, <2>3 DEF OldPruned
  <2> QED BY <1>3, <2>1, <2>3, <2>4
<1>8. CASE DeleteRows
  <2> DEFINE gone(r) == [row[r] EXCEPT !.status = "deleted"]
  <2>1. /\ row' = [r \in Report |-> IF r \in pruning.removable THEN gone(r) ELSE row[r]]
        /\ pruning' = NoReport /\ UNCHANGED stored
    BY <1>8 DEF DeleteRows
  <2>2. \A r \in Report : gone(r) \in RowsOfReports /\ gone(r).status = "deleted" /\ gone(r).old = row[r].old
    BY <1>0, NewStatus DEF ReportTypes
  <2> HIDE DEF gone
  <2>3. ReportTypes'
    BY <1>0, <1>1, <1>f, <2>1, <2>2 DEF ReportTypes
  <2>4. ASSUME NEW r \in Report PROVE ReportKept(r)'
    <3>1. /\ row'[r].old = row[r].old
          /\ row'[r].status = row[r].status \/ row'[r].status = "deleted"
      BY <2>1, <2>2
    <3>2. ReportKept(r) /\ Workers(r)' = Workers(r) /\ Owners(r)' = Owners(r)
      BY <1>0, <1>2
    <3>3. OneOwner(r)'
      BY <1>1, <3>2 DEF ReportKept, OneOwner
    <3> QED BY <1>1, <2>1, <3>1, <3>2, <3>3 DEF ReportKept
  <2>5. OldPruned'
    BY <2>1 DEF OldPruned
  <2> QED BY <2>3, <2>4, <2>5 DEF ReportInv
<1> QED BY <1>4, <1>5, <1>6, <1>7, <1>8

(* Every step of the reports keeps the invariant. *)
LEMMA ReportNextInv == ReportInv /\ (ReportsNext \/ UNCHANGED reportVars) => ReportInv'
<1> SUFFICES ASSUME ReportInv, ReportsNext \/ UNCHANGED reportVars PROVE ReportInv'
  OBVIOUS
<1>1. CASE ReportsNext
  BY <1>1, WorkersKeep, FaultsKeep, StartsKeep, RequestsKeep, PruningKeeps DEF ReportsNext, Deliver
<1>2. CASE UNCHANGED reportVars
  <2>1. \A r \in Report : Workers(r)' = Workers(r) /\ Owners(r)' = Owners(r)
    BY <1>2 DEF reportVars, Workers, Owners
  <2>2. \A r \in Report : ReportKept(r)'
    BY <1>2, <2>1 DEF reportVars, ReportInv, ReportKept, OneOwner
  <2> QED BY <1>2, <2>2 DEF reportVars, ReportInv, ReportTypes, OldPruned
<1> QED BY <1>1, <1>2

(* What a report that is ready has to fear from a step. *)
ReadyStep ==
    \A r \in Report : course[r] = "straight" =>
       /\ row[r].status = "COMPLETED" => row'[r].status \in {"COMPLETED", "deleted"}
       /\ told'[r] <= 1

(* A report that is ready stays so until it is pruned (ReadyStep). *)
LEMMA ReadyStaysReady == ReportInv /\ ReportsNext => ReadyStep
<1> SUFFICES ASSUME ReportInv, ReportsNext, NEW r \in Report, course[r] = "straight"
             PROVE  (row[r].status = "COMPLETED" => row'[r].status \in {"COMPLETED", "deleted"}) /\ told'[r] <= 1
  BY DEF ReadyStep
<1>0. /\ row \in [Report -> RowsOfReports] /\ told \in [Report -> Nat] /\ ReportKept(r) /\ told[r] <= 1
  BY DEF ReportInv, ReportTypes, ReportKept
<1>1. CASE row' = row /\ told' = told
  BY <1>0, <1>1
<1>2. ASSUME NEW w \in Worker, StartProcessing(w) \/ CompleteReport(w) \/ NotifyRecipients(w) \/ RecordFailure(w)
      PROVE  (row[r].status = "COMPLETED" => row'[r].status \in {"COMPLETED", "deleted"}) /\ told'[r] <= 1
  <2>1. worker[w] # NoReport /\ worker[w].at \in {"process", "complete", "notify", "fail"}
    BY <1>2 DEF StartProcessing, CompleteReport, NotifyRecipients, RecordFailure, At
  <2>2. worker[w].of \in Report
    BY <2>1, WorkerHas
  <2>3. PICK m \in Report : worker[w].of = m
    BY <2>2
  <2>4. CASE m # r
    <3>1. row'[r] = row[r] /\ told'[r] = told[r]
      BY <1>0, <1>2, <2>3, <2>4 DEF StartProcessing, CompleteReport, NotifyRecipients, RecordFailure
    <3> QED BY <1>0, <3>1
  <2>5. CASE m = r
    <3>1. w \in Workers(r)
      BY <2>1, <2>3, <2>5 DEF Workers
    <3>2. /\ told[r] = 0
          /\ worker[w].at # "notify" => row[r].status # "COMPLETED"
      BY <1>0, <2>1, <3>1 DEF ReportKept
    <3>3. CASE NotifyRecipients(w)
      <4>1. row' = row /\ told'[r] = told[r] + 1
        BY <1>0, <2>3, <2>5, <3>3 DEF NotifyRecipients
      <4> QED BY <3>2, <4>1
    <3>4. CASE StartProcessing(w) \/ CompleteReport(w) \/ RecordFailure(w)
      <4>1. told' = told /\ worker[w].at # "notify"
        BY <3>4 DEF StartProcessing, CompleteReport, RecordFailure, At
      <4> QED BY <1>0, <3>2, <4>1
    <3> QED BY <1>2, <3>3, <3>4
  <2> QED BY <2>4, <2>5
<1>3. ASSUME NEW m \in Report, RequestReport(m) \/ Age(m)
      PROVE  (row[r].status = "COMPLETED" => row'[r].status \in {"COMPLETED", "deleted"}) /\ told'[r] <= 1
  <2>1. told' = told
    BY <1>3 DEF RequestReport, Age
  <2>2. row[r].status = "COMPLETED" => row'[r].status = "COMPLETED"
    <3>1. CASE RequestReport(m)
      BY <1>0, <3>1 DEF RequestReport
    <3>2. CASE Age(m)
      <4> DEFINE new == [row[m] EXCEPT !.old = TRUE]
      <4>1. row' = [row EXCEPT ![m] = new]
        BY <3>2 DEF Age
      <4>2. new.status = row[m].status
        BY <1>0 DEF RowsOfReports
      <4> HIDE DEF new
      <4> QED BY <1>0, <4>1, <4>2
    <3> QED BY <1>3, <3>1, <3>2
  <2> QED BY <1>0, <2>1, <2>2
<1>4. CASE DeleteRows
  <2>1. told' = told /\ (row'[r] = row[r] \/ row'[r] = [row[r] EXCEPT !.status = "deleted"])
    BY <1>4 DEF DeleteRows
  <2> QED BY <1>0, <2>1 DEF RowsOfReports
<1>5. \/ row' = row /\ told' = told
      \/ \E w \in Worker : StartProcessing(w) \/ CompleteReport(w) \/ NotifyRecipients(w) \/ RecordFailure(w)
      \/ \E m \in Report : RequestReport(m) \/ Age(m)
      \/ DeleteRows
  <2> USE DEF FindReport, BuildAndUpload, BuildFails, Stall, WorkerDies, GenerateInline, EnqueueReport, EnqueueLost,
              DeliverReport, DeleteReportFile, KeepReportFile, FindOld, PruneDies
  <2> QED BY DEF ReportsNext, WorkerStep, Deliver
<1> QED BY <1>1, <1>2, <1>3, <1>4, <1>5

-----------------------------------------------------------------------------
(* The schedules of reports and their ticks (Reports). *)

AskedOnce ==
    \A s \in Schedule : \A p \in 0..MaxPeriod :
        asked[s][p] > 0 => asked[s][p] = 1 /\ p <= schedule[s].last /\ <<s, p>> \in on
OnSince ==
    \A s \in Schedule : \A p \in Nat :
        Enabled(s) /\ schedule[s].last < p /\ p <= period => <<s, p>> \in on
TicksBehind ==
    \A t \in Tick : ticking[t] # NoTick =>
        /\ ticking[t].now <= period
        /\ \A s \in ticking[t].due : ticking[t].last[s] < ticking[t].now
ClaimHolds(s, n) == n <= schedule[s].last /\ asked[s][n] = 0 /\ <<s, n>> \in on
HoldsThen(s, n) == n <= schedule'[s].last /\ asked'[s][n] = 0 /\ <<s, n>> \in on'
ClaimsHold ==
    \A t \in Tick : Working(t) =>
        /\ ClaimHolds(ticking[t].claimed, ticking[t].now)
        /\ \A u \in Tick : Working(u) /\ ticking[u].claimed = ticking[t].claimed /\ ticking[u].now = ticking[t].now
              => u = t
ScheduleInv == SchedulesTypeOK /\ AskedOnce /\ OnSince /\ TicksBehind /\ ClaimsHold

(* No schedule is made yet. *)
LEMMA ScheduleInitInv == SchedulesInit => ScheduleInv
<1> SUFFICES ASSUME SchedulesInit PROVE ScheduleInv
  OBVIOUS
<1> USE PeriodAssumption, NoTickAssumption
<1>1. 0 \in 0..MaxPeriod /\ 0 \in 0..MaxTrouble
  OBVIOUS
<1>2. [exists |-> FALSE, enabled |-> FALSE, last |-> 0] \in ScheduleRows
  BY <1>1 DEF ScheduleRows
<1>3. SchedulesTypeOK
  BY <1>1, <1>2 DEF SchedulesInit, SchedulesTypeOK
<1> QED BY <1>3 DEF SchedulesInit, ScheduleInv, AskedOnce, OnSince, TicksBehind, ClaimsHold, Working, Enabled

(* A step that changes the row of one schedule keeps the invariant when its period is told. *)
LEMMA RowChanges ==
    ASSUME ScheduleInv, NEW s \in Schedule, NEW rec \in ScheduleRows,
           schedule' = [schedule EXCEPT ![s] = rec],
           schedule[s].last <= rec.last, rec.last <= period,
           \A p \in Nat : rec.exists /\ rec.enabled /\ rec.last < p /\ p <= period => <<s, p>> \in on,
           UNCHANGED <<creator, period, ticking, asked, on>>, trouble' \in 0..MaxTrouble
    PROVE  ScheduleInv'
<1> USE PeriodAssumption, NoTickAssumption DEF ScheduleInv
<1>1. schedule \in [Schedule -> ScheduleRows] /\ \A r \in Schedule : schedule[r].last \in Nat
  BY DEF SchedulesTypeOK, ScheduleRows
<1>2. rec.last \in Nat
  BY DEF ScheduleRows
<1>3. SchedulesTypeOK'
  BY <1>1 DEF SchedulesTypeOK
<1>4. AskedOnce'
  BY <1>1, <1>2 DEF AskedOnce
<1>5. OnSince'
  BY <1>1, <1>2 DEF OnSince, Enabled
<1>6. TicksBehind'
  BY DEF TicksBehind
<1>7. ASSUME NEW t \in Tick, Working(t) PROVE ticking[t].now \in Nat /\ ticking[t].claimed \in Schedule
  <2>1. ticking[t] \in Ticks
    BY <1>7 DEF Working, SchedulesTypeOK
  <2>2. ticking[t].now \in 0..MaxPeriod /\ ticking[t].claimed \in Schedule \cup {NoTick}
    BY <2>1 DEF Ticks
  <2> QED BY <1>7, <2>2 DEF Working
<1>8. ClaimsHold'
  BY <1>1, <1>2, <1>7 DEF ClaimsHold, ClaimHolds, Working
<1> QED BY <1>3, <1>4, <1>5, <1>6, <1>8

(* A step that changes what one tick holds keeps the invariant when what it read is old. *)
LEMMA TickChanges ==
    ASSUME ScheduleInv, NEW t \in Tick, NEW k \in Ticks \cup {NoTick},
           ticking' = [ticking EXCEPT ![t] = k],
           k # NoTick => /\ k.claimed = NoTick /\ k.now <= period
                         /\ \A s \in k.due : k.last[s] < k.now,
           UNCHANGED <<schedule, creator, period, asked, on>>, trouble' \in 0..MaxTrouble
    PROVE  ScheduleInv'
<1> USE PeriodAssumption, NoTickAssumption DEF ScheduleInv
<1>1. ticking \in [Tick -> Ticks \cup {NoTick}]
  BY DEF SchedulesTypeOK
<1>2. SchedulesTypeOK'
  BY DEF SchedulesTypeOK
<1>3. AskedOnce' /\ OnSince'
  BY DEF AskedOnce, OnSince, Enabled
<1>4. TicksBehind'
  BY <1>1 DEF TicksBehind
<1>5. \A u \in Tick : Working(u)' => Working(u) /\ ticking'[u] = ticking[u]
  BY <1>1 DEF Working
<1>6. ClaimsHold'
  BY <1>5 DEF ClaimsHold, ClaimHolds
<1> QED BY <1>2, <1>3, <1>4, <1>6

(* What a tick holds once a schedule is claimed or passed over. *)
LEMMA ClaimingTick ==
    ASSUME NEW k \in Ticks, NEW s \in Schedule, NEW claimed \in Schedule \cup {NoTick}
    PROVE  /\ Claiming(k, s, claimed) \in Ticks
           /\ Claiming(k, s, claimed) = [now |-> k.now, due |-> k.due \ {s}, last |-> k.last, claimed |-> claimed]
<1> DEFINE mid == [k EXCEPT !.due = k.due \ {s}]
<1>1. mid = [now |-> k.now, due |-> k.due \ {s}, last |-> k.last, claimed |-> k.claimed]
  BY DEF Ticks
<1>2. Claiming(k, s, claimed) = [mid EXCEPT !.claimed = claimed]
  BY DEF Claiming
<1> HIDE DEF mid
<1>3. Claiming(k, s, claimed) = [now |-> k.now, due |-> k.due \ {s}, last |-> k.last, claimed |-> claimed]
  BY <1>1, <1>2
<1>4. k.due \ {s} \subseteq Schedule
  BY DEF Ticks
<1> QED BY <1>3, <1>4 DEF Ticks

(* The conditional update gives a period to one tick. *)
LEMMA ClaimKeeps ==
    ASSUME ScheduleInv, NEW t \in Tick, NEW s \in Schedule, ClaimPeriod(t, s)
    PROVE  ScheduleInv'
<1> USE PeriodAssumption, NoTickAssumption
<1> DEFINE n == ticking[t].now
           claimable == Enabled(s) /\ schedule[s].last = ticking[t].last[s]
           claimed == IF claimable THEN s ELSE NoTick
           k == Claiming(ticking[t], s, claimed)
           rec == [schedule[s] EXCEPT !.last = n]
<1>1. /\ ticking[t] # NoTick /\ ticking[t].claimed = NoTick /\ s \in ticking[t].due
      /\ schedule' = IF claimable THEN [schedule EXCEPT ![s] = rec] ELSE schedule
      /\ ticking' = [ticking EXCEPT ![t] = k]
      /\ UNCHANGED <<creator, period, asked, on, trouble>>
  BY DEF ClaimPeriod, ClaimWhen
<1>2. /\ ticking[t] \in Ticks /\ schedule \in [Schedule -> ScheduleRows] /\ schedule[s] \in ScheduleRows
      /\ ticking \in [Tick -> Ticks \cup {NoTick}] /\ \A r \in Schedule : schedule[r].last \in Nat
  BY <1>1 DEF ScheduleInv, SchedulesTypeOK, ScheduleRows
<1>3. /\ k \in Ticks /\ k.now = n /\ k.due = ticking[t].due \ {s} /\ k.last = ticking[t].last /\ k.claimed = claimed
  <2>1. claimed \in Schedule \cup {NoTick}
    OBVIOUS
  <2> HIDE DEF claimed
  <2>2. k \in Ticks /\ k = [now |-> n, due |-> ticking[t].due \ {s}, last |-> ticking[t].last, claimed |-> claimed]
    BY <1>2, <2>1, ClaimingTick
  <2> HIDE DEF k
  <2> QED BY <2>2
<1>4. n <= period /\ ticking[t].last[s] < n /\ \A r \in k.due : k.last[r] < k.now
  BY <1>1, <1>3 DEF ScheduleInv, TicksBehind
<1>5. n \in Nat /\ n \in 0..MaxPeriod /\ period \in Nat /\ trouble' \in 0..MaxTrouble
  BY <1>1, <1>2 DEF Ticks, ScheduleInv, SchedulesTypeOK
<1>6. CASE ~claimable
  <2>1. claimed = NoTick /\ schedule' = schedule
    BY <1>1, <1>6
  <2> HIDE DEF k, claimable, claimed, rec, n
  <2> QED BY <1>1, <1>3, <1>4, <1>5, <2>1, TickChanges
<1>7. CASE claimable
  <2>1. claimed = s /\ schedule' = [schedule EXCEPT ![s] = rec] /\ Enabled(s) /\ schedule[s].last < n
    BY <1>1, <1>4, <1>7
  <2>2. rec \in ScheduleRows /\ rec.last = n /\ rec.exists = schedule[s].exists /\ rec.enabled = schedule[s].enabled
    BY <1>2, <1>5 DEF ScheduleRows
  <2>a. n = ticking[t].now
    OBVIOUS
  <2> HIDE DEF k, claimable, claimed, rec, n
  <2>3. <<s, n>> \in on
    BY <1>4, <1>5, <2>1 DEF ScheduleInv, OnSince
  <2>4. asked[s][n] = 0
    <3>1. asked[s][n] \in Nat
      BY <1>5 DEF ScheduleInv, SchedulesTypeOK
    <3>2. schedule[s].last \in Nat
      BY <1>2
    <3>3. asked[s][n] > 0 => n <= schedule[s].last
      BY <1>5 DEF ScheduleInv, AskedOnce
    <3> QED BY <3>1, <3>2, <3>3, <2>1, <1>5
  <2>5. ASSUME NEW u \in Tick, Working(u), ticking[u].claimed = s, ticking[u].now = n PROVE FALSE
    <3>1. schedule[s].last \in Nat
      BY <1>2
    <3>2. n <= schedule[s].last
      BY <2>5 DEF ScheduleInv, ClaimsHold, ClaimHolds
    <3> QED BY <3>1, <3>2, <2>1, <1>5
  <2>6. SchedulesTypeOK'
    <3>1. schedule' \in [Schedule -> ScheduleRows] /\ ticking' \in [Tick -> Ticks \cup {NoTick}]
      BY <1>1, <1>2, <1>3, <2>1, <2>2
    <3>2. \A r \in Schedule : schedule'[r].last <= period
      BY <1>2, <1>4, <2>1, <2>2 DEF ScheduleInv, SchedulesTypeOK
    <3> QED BY <1>1, <1>5, <3>1, <3>2 DEF ScheduleInv, SchedulesTypeOK
  <2>7. AskedOnce'
    BY <1>1, <1>2, <1>5, <2>1, <2>2 DEF ScheduleInv, AskedOnce
  <2>8. OnSince'
    BY <1>1, <1>2, <1>5, <2>1, <2>2 DEF ScheduleInv, OnSince, Enabled
  <2>9. TicksBehind'
    BY <1>1, <1>2, <1>3, <1>4 DEF ScheduleInv, TicksBehind
  <2>10. ticking'[t] = k /\ \A u \in Tick \ {t} : ticking'[u] = ticking[u]
    BY <1>1, <1>2
  <2>11. ASSUME NEW u \in Tick, u # t, Working(u)'
         PROVE  Working(u) /\ ticking'[u] = ticking[u]
    BY <2>10, <2>11 DEF Working
  <2>12. HoldsThen(s, n)
    <3>1. schedule'[s].last = n
      BY <1>2, <2>1, <2>2
    <3> QED BY <1>1, <1>5, <2>3, <2>4, <3>1 DEF HoldsThen
  <2>13. ASSUME NEW u \in Tick, Working(u) PROVE HoldsThen(ticking[u].claimed, ticking[u].now)
    <3> DEFINE r == ticking[u].claimed
               m == ticking[u].now
    <3>1. m \in Nat /\ r \in Schedule
      BY <2>13, <1>2 DEF Working, Ticks
    <3>2. ClaimHolds(r, m)
      BY <2>13 DEF ScheduleInv, ClaimsHold
    <3> HIDE DEF r, m
    <3>3. schedule[r].last \in Nat /\ m <= schedule[r].last /\ asked[r][m] = 0 /\ <<r, m>> \in on
      BY <3>1, <3>2, <1>2 DEF ClaimHolds
    <3>4. m <= schedule'[r].last
      <4>1. CASE r = s
        <5>1. schedule'[r].last = n
          BY <4>1, <1>2, <2>1, <2>2
        <5> QED BY <4>1, <5>1, <3>1, <3>3, <2>1, <1>5
      <4>2. CASE r # s
        <5>1. schedule'[r] = schedule[r]
          BY <4>2, <3>1, <1>2, <2>1
        <5> QED BY <5>1, <3>3
      <4> QED BY <4>1, <4>2
    <3>5. m <= schedule'[r].last /\ asked'[r][m] = 0 /\ <<r, m>> \in on'
      BY <1>1, <3>3, <3>4
    <3> QED BY <3>5 DEF HoldsThen, r, m
  <2>14. ClaimsHold'
    <3> SUFFICES ASSUME NEW u \in Tick, Working(u)'
                 PROVE  /\ ClaimHolds(ticking[u].claimed, ticking[u].now)'
                        /\ \A v \in Tick : Working(v)' /\ ticking'[v].claimed = ticking'[u].claimed /\ ticking'[v].now = ticking'[u].now
                              => v = u
      BY DEF ClaimsHold
    <3>1. ClaimHolds(ticking[u].claimed, ticking[u].now)'
      <4>1. CASE u = t
        <5>1. ticking'[u].claimed = s /\ ticking'[u].now = n
          BY <4>1, <2>10, <2>1, <1>3
        <5> QED BY <5>1, <2>12 DEF ClaimHolds, HoldsThen
      <4>2. CASE u # t
        <5>1. ticking'[u] = ticking[u] /\ Working(u)
          BY <4>2, <2>11
        <5> QED BY <5>1, <2>13 DEF ClaimHolds, HoldsThen
      <4> QED BY <4>1, <4>2
    <3>2. ASSUME NEW v \in Tick, Working(v)', ticking'[v].claimed = ticking'[u].claimed, ticking'[v].now = ticking'[u].now
          PROVE  v = u
      <4>1. CASE u = t /\ v # t
        BY <4>1, <3>2, <2>5, <2>10, <2>11, <2>1, <1>3
      <4>2. CASE v = t /\ u # t
        BY <4>2, <3>2, <2>5, <2>10, <2>11, <2>1, <1>3
      <4>3. CASE u # t /\ v # t
        BY <4>3, <3>2, <2>11 DEF ScheduleInv, ClaimsHold
      <4> QED BY <4>1, <4>2, <4>3
    <3> QED BY <3>1, <3>2
  <2> QED BY <2>6, <2>7, <2>8, <2>9, <2>14 DEF ScheduleInv
<1> QED BY <1>6, <1>7

(* The tick that has the period asks for its one report. *)
LEMMA RequestKeeps ==
    ASSUME ScheduleInv, NEW t \in Tick, RequestDue(t)
    PROVE  ScheduleInv'
<1> USE PeriodAssumption, NoTickAssumption
<1> DEFINE s == ticking[t].claimed
           n == ticking[t].now
<1>1. /\ Working(t) /\ s \in creator /\ asked' = [asked EXCEPT ![s][n] = asked[s][n] + 1]
      /\ UNCHANGED <<schedule, creator, period, on, trouble>>
  BY DEF RequestDue
<1>2. /\ ticking[t] \in Ticks /\ ticking \in [Tick -> Ticks \cup {NoTick}] /\ s \in Schedule /\ n \in 0..MaxPeriod
  BY <1>1 DEF ScheduleInv, SchedulesTypeOK, Ticks, Working
<1>3. ClaimHolds(s, n) /\ \A u \in Tick : Working(u) /\ ticking[u].claimed = s /\ ticking[u].now = n => u = t
  BY <1>1 DEF ScheduleInv, ClaimsHold
<1>4. PICK k \in Ticks \cup {NoTick} :
        /\ ticking' = [ticking EXCEPT ![t] = k]
        /\ k # NoTick => k.claimed = NoTick /\ k.now = n /\ k.due = ticking[t].due /\ k.last = ticking[t].last
  <2>1. CASE schedule[s].exists
    <3> DEFINE k == [ticking[t] EXCEPT !.claimed = NoTick]
    <3>1. k \in Ticks /\ k.claimed = NoTick /\ k.now = n /\ k.due = ticking[t].due /\ k.last = ticking[t].last
      BY <1>2 DEF Ticks
    <3>2. ticking' = [ticking EXCEPT ![t] = k]
      BY <2>1, <1>2 DEF RequestDue
    <3> HIDE DEF k
    <3> QED BY <3>1, <3>2
  <2>2. CASE ~schedule[s].exists
    BY <2>2 DEF RequestDue
  <2> QED BY <2>1, <2>2
<1> HIDE DEF s, n
<1>5. asked' \in [Schedule -> [0..MaxPeriod -> Nat]] /\ asked'[s][n] = 1
      /\ \A r \in Schedule, p \in 0..MaxPeriod : r # s \/ p # n => asked'[r][p] = asked[r][p]
  BY <1>1, <1>2, <1>3 DEF ScheduleInv, SchedulesTypeOK, ClaimHolds
<1>6. SchedulesTypeOK'
  BY <1>1, <1>2, <1>4, <1>5 DEF ScheduleInv, SchedulesTypeOK
<1>7. AskedOnce'
  <2> SUFFICES ASSUME NEW r \in Schedule, NEW p \in 0..MaxPeriod, asked'[r][p] > 0
               PROVE  asked'[r][p] = 1 /\ p <= schedule[r].last /\ <<r, p>> \in on
    BY <1>1 DEF AskedOnce
  <2>1. CASE r = s /\ p = n
    BY <2>1, <1>3, <1>5 DEF ClaimHolds
  <2>2. CASE ~(r = s /\ p = n)
    <3>1. asked'[r][p] = asked[r][p]
      BY <2>2, <1>5
    <3> QED BY <3>1 DEF ScheduleInv, AskedOnce
  <2> QED BY <2>1, <2>2
<1>8. OnSince'
  BY <1>1 DEF ScheduleInv, OnSince, Enabled
<1>9. TicksBehind'
  <2> SUFFICES ASSUME NEW u \in Tick, ticking'[u] # NoTick
               PROVE  ticking'[u].now <= period /\ \A r \in ticking'[u].due : ticking'[u].last[r] < ticking'[u].now
    BY <1>1 DEF TicksBehind
  <2>1. ticking[t] # NoTick
    BY <1>1 DEF Working
  <2>2. CASE u = t
    BY <2>1, <2>2, <1>2, <1>4 DEF ScheduleInv, TicksBehind, n
  <2>3. CASE u # t
    BY <2>3, <1>2, <1>4 DEF ScheduleInv, TicksBehind
  <2> QED BY <2>2, <2>3
<1>10. ASSUME NEW u \in Tick, Working(u)' PROVE u # t /\ Working(u) /\ ticking'[u] = ticking[u]
  BY <1>2, <1>4, <1>10 DEF Working
<1>11. ClaimsHold'
  <2> SUFFICES ASSUME NEW u \in Tick, Working(u)'
               PROVE  ClaimHolds(ticking[u].claimed, ticking[u].now)'
    BY <1>10 DEF ScheduleInv, ClaimsHold
  <2> DEFINE r == ticking[u].claimed
             m == ticking[u].now
  <2>1. u # t /\ Working(u) /\ ticking'[u] = ticking[u]
    BY <1>10
  <2>2. r \in Schedule /\ m \in 0..MaxPeriod /\ ClaimHolds(r, m) /\ ~(r = s /\ m = n)
    BY <2>1, <1>2, <1>3 DEF Working, Ticks, ScheduleInv, ClaimsHold
  <2>3. ticking'[u].claimed = r /\ ticking'[u].now = m
    BY <2>1
  <2> HIDE DEF r, m
  <2>4. asked'[r][m] = asked[r][m]
    BY <2>2, <1>5
  <2> QED BY <2>2, <2>3, <2>4, <1>1 DEF ClaimHolds
<1> QED BY <1>6, <1>7, <1>8, <1>9, <1>11 DEF ScheduleInv

(* Every step of the schedules keeps the invariant. *)
LEMMA ScheduleNextInv == ScheduleInv /\ [SchedulesNext]_scheduleVars => ScheduleInv'
<1> SUFFICES ASSUME ScheduleInv, [SchedulesNext]_scheduleVars PROVE ScheduleInv'
  OBVIOUS
<1> USE PeriodAssumption, NoTickAssumption
<1>0. /\ schedule \in [Schedule -> ScheduleRows] /\ ticking \in [Tick -> Ticks \cup {NoTick}]
      /\ period \in Nat /\ period \in 0..MaxPeriod /\ trouble \in 0..MaxTrouble
      /\ \A s \in Schedule : schedule[s].last \in Nat /\ schedule[s].last <= period
  BY DEF ScheduleInv, SchedulesTypeOK, ScheduleRows
<1>1. CASE UNCHANGED scheduleVars
  BY <1>1 DEF scheduleVars, ScheduleInv, SchedulesTypeOK, AskedOnce, OnSince, TicksBehind, ClaimsHold, ClaimHolds, Working, Enabled
<1>2. ASSUME PeriodEnds PROVE ScheduleInv'
  <2>1. /\ period' = period + 1 /\ on' = on \cup {<<s, period + 1>> : s \in {s \in Schedule : Enabled(s)}}
        /\ UNCHANGED <<schedule, creator, ticking, asked, trouble>> /\ period + 1 \in 0..MaxPeriod
    BY <1>0, <1>2 DEF PeriodEnds
  <2>2. on' \subseteq Schedule \X (1..MaxPeriod)
    <3>1. period + 1 \in 1..MaxPeriod
      BY <1>0, <2>1
    <3> QED BY <2>1, <3>1 DEF ScheduleInv, SchedulesTypeOK
  <2>3. SchedulesTypeOK'
    <3>1. \A s \in Schedule : schedule[s].last <= period + 1
      BY <1>0
    <3> QED BY <2>1, <2>2, <3>1 DEF ScheduleInv, SchedulesTypeOK
  <2>4. AskedOnce'
    BY <2>1 DEF ScheduleInv, AskedOnce
  <2>5. OnSince'
    <3> SUFFICES ASSUME NEW s \in Schedule, NEW p \in Nat, Enabled(s), schedule[s].last < p, p <= period + 1
                 PROVE  <<s, p>> \in on'
      BY <2>1 DEF OnSince, Enabled
    <3>1. CASE p = period + 1
      BY <2>1, <3>1
    <3>2. CASE p <= period
      BY <2>1, <3>2 DEF ScheduleInv, OnSince
    <3> QED BY <1>0, <3>1, <3>2
  <2>6. TicksBehind'
    <3>1. ASSUME NEW t \in Tick, ticking[t] # NoTick PROVE ticking[t].now <= period + 1
      <4>1. ticking[t].now \in 0..MaxPeriod
        BY <1>0, <3>1 DEF Ticks
      <4>2. ticking[t].now <= period
        BY <3>1 DEF ScheduleInv, TicksBehind
      <4> QED BY <1>0, <4>1, <4>2
    <3> QED BY <2>1, <3>1 DEF ScheduleInv, TicksBehind
  <2>7. ClaimsHold'
    BY <2>1 DEF ScheduleInv, ClaimsHold, ClaimHolds, Working
  <2> QED BY <2>3, <2>4, <2>5, <2>6, <2>7 DEF ScheduleInv
<1>3. ASSUME NEW s \in Schedule, CreateSchedule(s) \/ SwitchOn(s) PROVE ScheduleInv'
  <2>1. PICK enabled \in BOOLEAN : schedule' = [schedule EXCEPT ![s] = [exists |-> TRUE, enabled |-> enabled, last |-> period]]
    BY <1>3 DEF CreateSchedule, SwitchOn
  <2> DEFINE rec == [exists |-> TRUE, enabled |-> enabled, last |-> period]
  <2>2. rec \in ScheduleRows /\ rec.last = period
    BY <1>0 DEF ScheduleRows
  <2>3. UNCHANGED <<creator, period, ticking, asked, on, trouble>> /\ schedule' = [schedule EXCEPT ![s] = rec]
    BY <1>3, <2>1 DEF CreateSchedule, SwitchOn
  <2> HIDE DEF rec
  <2>9. schedule[s].last <= rec.last /\ rec.last <= period
    BY <1>0, <2>1, <2>2
  <2>10. \A p \in Nat : rec.exists /\ rec.enabled /\ rec.last < p /\ p <= period => <<s, p>> \in on
    BY <1>0, <2>1, <2>2
  <2> QED BY <1>0, <2>2, <2>3, <2>9, <2>10, RowChanges
<1>4. ASSUME NEW s \in Schedule, ChangeFrequency(s) PROVE ScheduleInv'
  <2> DEFINE rec == [schedule[s] EXCEPT !.last = period]
  <2>1. rec \in ScheduleRows /\ rec.last = period
    BY <1>0 DEF ScheduleRows
  <2>2. UNCHANGED <<creator, period, ticking, asked, on>> /\ schedule' = [schedule EXCEPT ![s] = rec] /\ trouble' \in 0..MaxTrouble
    BY <1>0, <1>4 DEF ChangeFrequency, Troubled
  <2> HIDE DEF rec
  <2>9. schedule[s].last <= rec.last /\ rec.last <= period
    BY <1>0, <2>1, <2>2
  <2>10. \A p \in Nat : rec.exists /\ rec.enabled /\ rec.last < p /\ p <= period => <<s, p>> \in on
    BY <1>0, <2>1, <2>2
  <2> QED BY <1>0, <2>1, <2>2, <2>9, <2>10, RowChanges
<1>5. ASSUME NEW s \in Schedule, SwitchOff(s) \/ RemoveSchedule(s) PROVE ScheduleInv'
  <2>1. PICK rec \in ScheduleRows : /\ rec.last = schedule[s].last /\ ~(rec.exists /\ rec.enabled)
                                    /\ schedule' = [schedule EXCEPT ![s] = rec]
    <3>1. CASE SwitchOff(s)
      <4> DEFINE rec == [schedule[s] EXCEPT !.enabled = FALSE]
      <4>1. rec \in ScheduleRows /\ rec.last = schedule[s].last /\ ~(rec.exists /\ rec.enabled)
        BY <1>0 DEF ScheduleRows
      <4>2. schedule' = [schedule EXCEPT ![s] = rec]
        BY <3>1 DEF SwitchOff
      <4> HIDE DEF rec
      <4> QED BY <4>1, <4>2
    <3>2. CASE RemoveSchedule(s)
      <4> DEFINE rec == [schedule[s] EXCEPT !.exists = FALSE]
      <4>1. rec \in ScheduleRows /\ rec.last = schedule[s].last /\ ~(rec.exists /\ rec.enabled)
        BY <1>0 DEF ScheduleRows
      <4>2. schedule' = [schedule EXCEPT ![s] = rec]
        BY <3>2 DEF RemoveSchedule
      <4> HIDE DEF rec
      <4> QED BY <4>1, <4>2
    <3> QED BY <1>5, <3>1, <3>2
  <2>2. UNCHANGED <<creator, period, ticking, asked, on>> /\ trouble' \in 0..MaxTrouble
    BY <1>0, <1>5 DEF SwitchOff, RemoveSchedule, Troubled
  <2>9. schedule[s].last <= rec.last /\ rec.last <= period
    BY <1>0, <2>1, <2>2
  <2>10. \A p \in Nat : rec.exists /\ rec.enabled /\ rec.last < p /\ p <= period => <<s, p>> \in on
    BY <1>0, <2>1, <2>2
  <2> QED BY <1>0, <2>1, <2>2, <2>9, <2>10, RowChanges
<1>6. ASSUME NEW s \in Schedule, CreatorChanges(s) PROVE ScheduleInv'
  <2>1. UNCHANGED <<schedule, period, ticking, asked, on>> /\ creator' \subseteq Schedule /\ trouble' \in 0..MaxTrouble
    BY <1>0, <1>6 DEF CreatorChanges, Troubled, ScheduleInv, SchedulesTypeOK
  <2> QED BY <2>1 DEF ScheduleInv, SchedulesTypeOK, AskedOnce, OnSince, TicksBehind, ClaimsHold, ClaimHolds, Working, Enabled
<1>7. ASSUME NEW t \in Tick, RunDue(t) PROVE ScheduleInv'
  <2> DEFINE due == {s \in Schedule : Enabled(s) /\ schedule[s].last # period}
             k == [now |-> period, due |-> due, last |-> [s \in Schedule |-> schedule[s].last], claimed |-> NoTick]
  <2>1. ticking' = [ticking EXCEPT ![t] = k] /\ UNCHANGED <<schedule, creator, period, asked, on, trouble>>
    BY <1>7 DEF RunDue
  <2>2. k \in Ticks
    <3>1. [s \in Schedule |-> schedule[s].last] \in [Schedule -> 0..MaxPeriod]
      BY <1>0 DEF ScheduleRows
    <3> HIDE DEF due
    <3>2. due \subseteq Schedule
      BY DEF due
    <3> QED BY <1>0, <3>1, <3>2 DEF Ticks
  <2>3. \A s \in due : schedule[s].last < period
    BY <1>0
  <2>4. k.claimed = NoTick /\ k.now = period /\ \A s \in k.due : k.last[s] < k.now
    BY <2>3
  <2> HIDE DEF due, k
  <2>5. k.now <= period /\ trouble' \in 0..MaxTrouble
    BY <1>0, <2>1, <2>4
  <2> QED BY <2>1, <2>2, <2>4, <2>5, TickChanges
<1>8. ASSUME NEW t \in Tick, TickFails(t) \/ TickDone(t) PROVE ScheduleInv'
  <2>1. ticking' = [ticking EXCEPT ![t] = NoTick] /\ UNCHANGED <<schedule, creator, period, asked, on>> /\ trouble' \in 0..MaxTrouble
    BY <1>0, <1>8 DEF TickFails, TickDone, Troubled
  <2> QED BY <2>1, TickChanges
<1>9. ASSUME NEW t \in Tick, Pause(t) PROVE ScheduleInv'
  <2> DEFINE s == ticking[t].claimed
             rec == [schedule[s] EXCEPT !.enabled = FALSE]
             k == [ticking[t] EXCEPT !.claimed = NoTick]
  <2>1. /\ Working(t) /\ schedule' = [schedule EXCEPT ![s] = rec] /\ ticking' = [ticking EXCEPT ![t] = k]
        /\ UNCHANGED <<creator, period, asked, on, trouble>>
    BY <1>9 DEF Pause
  <2>2. ticking[t] \in Ticks /\ s \in Schedule /\ ticking[t] # NoTick
    BY <1>0, <2>1 DEF Working, Ticks
  <2>3. rec \in ScheduleRows /\ rec.last = schedule[s].last /\ rec.enabled = FALSE
    BY <1>0, <2>2 DEF ScheduleRows
  <2>4. k \in Ticks /\ k.claimed = NoTick /\ k.now = ticking[t].now /\ k.due = ticking[t].due /\ k.last = ticking[t].last
    BY <2>2 DEF Ticks
  <2>5. k.now <= period /\ \A r \in k.due : k.last[r] < k.now
    BY <2>2, <2>4 DEF ScheduleInv, TicksBehind
  <2> HIDE DEF s, rec, k
  <2>6. \A r \in Schedule : schedule'[r].last = schedule[r].last /\ (Enabled(r)' => Enabled(r))
    BY <1>0, <2>1, <2>2, <2>3 DEF Enabled
  <2>7. SchedulesTypeOK'
    <3>1. schedule' \in [Schedule -> ScheduleRows] /\ ticking' \in [Tick -> Ticks \cup {NoTick}]
      BY <1>0, <2>1, <2>3, <2>4
    <3> QED BY <2>1, <2>6, <3>1 DEF ScheduleInv, SchedulesTypeOK
  <2>8. AskedOnce'
    BY <2>1, <2>6 DEF ScheduleInv, AskedOnce
  <2>9. OnSince'
    BY <2>1, <2>6 DEF ScheduleInv, OnSince
  <2>10. TicksBehind'
    BY <1>0, <2>1, <2>5 DEF ScheduleInv, TicksBehind
  <2>11. ASSUME NEW u \in Tick, Working(u)'
         PROVE  Working(u) /\ ticking'[u] = ticking[u]
    BY <1>0, <2>1, <2>4, <2>11 DEF Working
  <2>12. ClaimsHold'
    <3> SUFFICES ASSUME NEW u \in Tick, Working(u)'
                 PROVE  ClaimHolds(ticking[u].claimed, ticking[u].now)'
      BY <2>11 DEF ScheduleInv, ClaimsHold
    <3>1. ticking'[u] = ticking[u] /\ ticking[u].claimed \in Schedule /\ ClaimHolds(ticking[u].claimed, ticking[u].now)
      BY <1>0, <2>11 DEF Working, Ticks, ScheduleInv, ClaimsHold
    <3> QED BY <2>1, <2>6, <3>1 DEF ClaimHolds
  <2> QED BY <2>7, <2>8, <2>9, <2>10, <2>12 DEF ScheduleInv
<1>10. ASSUME NEW t \in Tick, TickStep(t) PROVE ScheduleInv'
  BY <1>7, <1>8, <1>9, <1>10, ClaimKeeps, RequestKeeps DEF TickStep
<1> QED BY <1>1, <1>2, <1>3, <1>4, <1>5, <1>6, <1>10 DEF SchedulesNext

(* What the invariant of the schedules says of one state. *)
LEMMA AskedAsPromised == ScheduleInv => PeriodOnce /\ OnlyWhileOn
<1> SUFFICES ASSUME ScheduleInv, NEW s \in Schedule, NEW p \in 0..MaxPeriod
             PROVE  asked[s][p] <= 1 /\ (asked[s][p] > 0 => <<s, p>> \in on)
  BY DEF PeriodOnce, OnlyWhileOn
<1>1. asked[s][p] \in Nat
  BY DEF ScheduleInv, SchedulesTypeOK
<1> QED BY <1>1 DEF ScheduleInv, AskedOnce

-----------------------------------------------------------------------------
(* Notifications and preferences (Notifications). *)

(* What holds of every notice, and of one that is not loose: one delivery at a time, and while another
   may follow, the row that it stored can still be found. *)
NoticeKept(n) ==
    LET rec == notice[n] IN
    /\ rec.at = "none" => rec.stored = 0 /\ rec.attempt = 0 /\ Others(n) = {}
    /\ rec.at \in {"waiting", "active"} => rec.attempt < NoticeAttempts
    /\ \A d \in Others(n) : delivery[d].queued => rec.at = "active"
    /\ \A d, f \in Others(n) : delivery[d].queued /\ delivery[f].queued => d = f
    /\ rec.recent \/ rec.unread => rec.stored > 0
    /\ n \notin loose =>
          /\ rec.stored <= 1
          /\ \A d, f \in Others(n) : d = f
          /\ \A d \in Others(n) : delivery[d].at = "insert" => rec.stored = 0
          /\ rec.stored > 0 /\ (rec.at \in {"waiting", "active"} \/ Others(n) # {}) => rec.recent
NoticeInv == NoticesTypeOK /\ ChoiceHolds /\ \A n \in Notice : NoticeKept(n)

(* No notification is asked for yet. *)
LEMMA NoticeInitInv == NoticesInit => NoticeInv
<1> SUFFICES ASSUME NoticesInit PROVE NoticeInv
  OBVIOUS
<1> USE MaxWrongsAssumption, NoNoticeAssumption
<1>1. [at |-> "none", attempt |-> 0, stored |-> 0, recent |-> FALSE, unread |-> FALSE] \in NoticeRows
  <2>1. 0 \in 0..3
    OBVIOUS
  <2> QED BY <2>1 DEF NoticeRows, NoticeAttempts
<1>0. delivery = [d \in Delivery |-> NoNotice]
  BY DEF NoticesInit
<1>2. \A n \in Notice : Others(n) = {}
  BY <1>0 DEF Others
<1>3. 0 \in 0..MaxWrongs
  OBVIOUS
<1>4. NoticesTypeOK
  <2> DEFINE rec == [at |-> "none", attempt |-> 0, stored |-> 0, recent |-> FALSE, unread |-> FALSE]
  <2>1. rec.recent = FALSE /\ rec.unread = FALSE
    OBVIOUS
  <2>2. notice = [n \in Notice |-> rec]
    BY DEF NoticesInit
  <2> HIDE DEF rec
  <2>3. notice \in [Notice -> NoticeRows] /\ \A n \in Notice : notice[n].recent \/ notice[n].unread => notice[n].stored > 0
    BY <1>1, <2>1, <2>2 DEF rec
  <2> QED BY <2>3, <1>2, <1>3 DEF NoticesInit, NoticesTypeOK, Switches
<1>5. ASSUME NEW n \in Notice PROVE NoticeKept(n)
  <2> DEFINE rec == notice[n]
  <2>1. rec = [at |-> "none", attempt |-> 0, stored |-> 0, recent |-> FALSE, unread |-> FALSE]
    BY DEF NoticesInit
  <2> HIDE DEF rec
  <2>2. rec.at = "none" /\ rec.stored = 0 /\ rec.attempt = 0 /\ ~rec.recent /\ ~rec.unread
    BY <2>1
  <2> QED BY <1>2, <2>2 DEF NoticeKept, rec
<1> QED BY <1>4, <1>5 DEF NoticesInit, NoticeInv, ChoiceHolds

SameStored(q, r) == q.stored = r.stored /\ q.recent = r.recent /\ q.unread = r.unread
(* A notification whose delivery failed waits for another attempt or is done. *)
LEMMA RetriedNotice ==
    ASSUME NEW r \in NoticeRows, r.attempt < NoticeAttempts
    PROVE  /\ Retried(r) \in NoticeRows /\ SameStored(Retried(r), r) /\ Retried(r).at \in {"waiting", "done"}
           /\ Retried(r).at = "waiting" => Retried(r).attempt < NoticeAttempts
<1> DEFINE at == IF r.attempt + 1 < NoticeAttempts THEN "waiting" ELSE "done"
           n == r.attempt + 1
           mid == [r EXCEPT !.at = at]
           q == [mid EXCEPT !.attempt = n]
<1>1. r.attempt \in 0..NoticeAttempts /\ r.stored \in Nat /\ r.recent \in BOOLEAN /\ r.unread \in BOOLEAN
  BY DEF NoticeRows
<1>2. at \in {"waiting", "done"} /\ n \in 0..NoticeAttempts /\ (at = "waiting" => n < NoticeAttempts)
  BY <1>1 DEF NoticeAttempts
<1>3. Retried(r) = q
  BY DEF Retried
<1> HIDE DEF at, n
<1>4. mid = [at |-> at, attempt |-> r.attempt, stored |-> r.stored, recent |-> r.recent, unread |-> r.unread]
  BY DEF NoticeRows
<1> HIDE DEF mid
<1>5. q = [at |-> at, attempt |-> n, stored |-> r.stored, recent |-> r.recent, unread |-> r.unread]
  BY <1>4
<1> HIDE DEF q
<1>6. q \in NoticeRows
  BY <1>1, <1>2, <1>5 DEF NoticeRows
<1>7. SameStored(q, r) /\ q.at = at /\ q.attempt = n
  BY <1>5 DEF SameStored
<1> QED BY <1>2, <1>3, <1>6, <1>7

(* A notification that is stored has one row more, recent and unread. *)
LEMMA StoredNotice ==
    ASSUME NEW r \in NoticeRows
    PROVE  /\ Stored(r) \in NoticeRows /\ Stored(r).at = r.at /\ Stored(r).attempt = r.attempt
           /\ Stored(r).stored = r.stored + 1 /\ Stored(r).recent = TRUE /\ Stored(r).unread = TRUE
<1>1. r.at \in {"none", "waiting", "active", "done"} /\ r.attempt \in 0..NoticeAttempts /\ r.stored + 1 \in Nat
  BY DEF NoticeRows
<1>2. Stored(r) \in NoticeRows
  BY <1>1 DEF Stored, NoticeRows
<1> QED BY <1>2 DEF Stored

(* A delivery of a notice whose job it does, or does not, settle. *)
LEMMA RowSettled ==
    ASSUME NoticeInv, NEW d \in Delivery, delivery[d] # NoNotice, NEW fine \in BOOLEAN
    PROVE  LET n == delivery[d].of
               rec == Row(d, fine)
           IN  /\ n \in Notice /\ rec \in NoticeRows
               /\ SameStored(rec, notice[n])
               /\ rec.at # "none" /\ (rec.at \in {"waiting", "active"} => rec.attempt < NoticeAttempts)
               /\ rec.at \in {"waiting", "active"} => notice[n].at \in {"waiting", "active"}
               /\ delivery[d].queued => rec.at # "active"
               /\ ~delivery[d].queued => rec = notice[n]
<1> DEFINE n == delivery[d].of
           rec == Row(d, fine)
           r == notice[n]
<1> USE NoNoticeAssumption
<1>1. n \in Notice /\ r \in NoticeRows /\ d \in Others(n) /\ delivery[d].queued \in BOOLEAN
  BY DEF NoticeInv, NoticesTypeOK, Deliveries, Others
<1>2. r.at # "none" /\ (r.at \in {"waiting", "active"} => r.attempt < NoticeAttempts) /\ (delivery[d].queued => r.at = "active")
  BY <1>1 DEF NoticeInv, NoticeKept
<1>3. CASE ~delivery[d].queued
  <2>1. rec = r
    BY <1>3 DEF Row
  <2> HIDE DEF rec, r, n
  <2> QED BY <1>1, <1>2, <1>3, <2>1 DEF rec, r, n, SameStored
<1>4. CASE delivery[d].queued /\ fine
  <2>1. rec = [r EXCEPT !.at = "done"]
    BY <1>4 DEF Row
  <2> HIDE DEF rec, r, n
  <2>2. /\ rec \in NoticeRows /\ rec.at = "done" /\ SameStored(rec, r)
    BY <1>1, <2>1 DEF NoticeRows, SameStored
  <2> QED BY <1>1, <1>4, <2>2 DEF rec, r, n
<1>5. CASE delivery[d].queued /\ ~fine
  <2>1. rec = Retried(r)
    BY <1>5 DEF Row
  <2> HIDE DEF rec, r, n
  <2>2. rec \in NoticeRows /\ SameStored(rec, r) /\ rec.at \in {"waiting", "done"}
        /\ (rec.at = "waiting" => rec.attempt < NoticeAttempts)
    BY <1>1, <1>2, <1>5, <2>1, RetriedNotice
  <2> QED BY <1>1, <1>2, <1>5, <2>2 DEF rec, r, n
<1> QED BY <1>1, <1>3, <1>4, <1>5

(* A notification that a step leaves alone keeps its part of the invariant. *)
LEMMA OtherNotice ==
    ASSUME NEW m \in Notice, NoticeKept(m), notice'[m] = notice[m], Others(m)' = Others(m),
           \A f \in Others(m) : delivery'[f] = delivery[f], m \in loose => m \in loose'
    PROVE  NoticeKept(m)'
  BY DEF NoticeKept

(* The invariant in the next state, from its parts. *)
LEMMA NoticesKeptType ==
    ASSUME NoticeInv, notice' \in [Notice -> NoticeRows], loose' \subseteq Notice, wrongs' \in 0..MaxWrongs,
           delivery' \in [Delivery -> Deliveries \cup {NoNotice}], UNCHANGED <<preference, chosen, editing>>,
           \A n \in Notice : NoticeKept(n)'
    PROVE  NoticeInv'
<1>1. NoticesTypeOK'
  BY DEF NoticeInv, NoticesTypeOK, NoticeKept
<1>2. ChoiceHolds'
  BY DEF NoticeInv, ChoiceHolds
<1> QED BY <1>1, <1>2 DEF NoticeInv

(* A delivery that ends, stored or not, keeps the invariant. *)
LEMMA EndKeeps ==
    ASSUME NoticeInv, NEW d \in Delivery, delivery[d] # NoNotice, NEW rec \in NoticeRows,
           notice' = [notice EXCEPT ![delivery[d].of] = rec], Ended(d), wrongs' \in 0..MaxWrongs,
           UNCHANGED <<loose, preference, chosen, editing>>,
           rec.at # "none", rec.at \in {"waiting", "active"} => rec.attempt < NoticeAttempts,
           rec.at \in {"waiting", "active"} => notice[delivery[d].of].at \in {"waiting", "active"},
           ~delivery[d].queued => rec.at = notice[delivery[d].of].at,
           \/ SameStored(rec, notice[delivery[d].of])
           \/ /\ delivery[d].at = "insert"
              /\ rec.stored = notice[delivery[d].of].stored + 1
              /\ rec.recent
    PROVE  NoticeInv'
<1> USE NoNoticeAssumption
<1>p. delivery[d].of \in Notice
  BY DEF NoticeInv, NoticesTypeOK, Deliveries
<1>a. PICK n \in Notice : delivery[d].of = n
  BY <1>p
<1>0. /\ notice \in [Notice -> NoticeRows] /\ delivery \in [Delivery -> Deliveries \cup {NoNotice}] /\ loose \subseteq Notice
      /\ delivery' = [delivery EXCEPT ![d] = NoNotice] /\ n \in Notice /\ d \in Others(n)
      /\ delivery[d].queued \in BOOLEAN
  BY <1>a DEF NoticeInv, NoticesTypeOK, Ended, Deliveries, Others
<1>b. /\ rec.at \in {"waiting", "active"} => notice[n].at \in {"waiting", "active"}
      /\ ~delivery[d].queued => rec.at = notice[n].at
      /\ \/ SameStored(rec, notice[n])
         \/ /\ delivery[d].at = "insert"
            /\ rec.stored = notice[n].stored + 1
            /\ rec.recent
  BY <1>a
<1>c. notice' = [notice EXCEPT ![n] = rec]
  BY <1>a
<1>1. Others(n)' = Others(n) \ {d} /\ \A m \in Notice \ {n} : Others(m)' = Others(m)
  <2>1. \A m \in Notice : Others(m)' = Others(m) \ {d}
    BY <1>0 DEF Others
  <2>2. \A m \in Notice \ {n} : d \notin Others(m)
    BY <1>a DEF Others
  <2>3. ASSUME NEW m \in Notice, m # n PROVE Others(m)' = Others(m)
    <3>1. Others(m)' = Others(m) \ {d} /\ d \notin Others(m)
      BY <2>1, <2>2, <2>3
    <3> QED BY <3>1
  <2>4. Others(n)' = Others(n) \ {d}
    BY <2>1
  <2> QED BY <2>3, <2>4
<1>2. \A f \in Delivery \ {d} : delivery'[f] = delivery[f]
  BY <1>0
<1>3. ASSUME NEW m \in Notice, m # n PROVE NoticeKept(m)'
  <2>1. notice'[m] = notice[m] /\ Others(m)' = Others(m) /\ d \notin Others(m)
    <3>1. d \notin Others(m)
      BY <1>a, <1>3 DEF Others
    <3> QED BY <1>0, <1>1, <1>3, <1>c, <3>1
  <2>2. \A f \in Others(m) : delivery'[f] = delivery[f]
    BY <1>2, <2>1 DEF Others
  <2>3. NoticeKept(m)
    BY DEF NoticeInv
  <2> QED BY <2>1, <2>2, <2>3, OtherNotice
<1>4. notice'[n] = rec /\ notice[n] \in NoticeRows /\ notice[n].stored \in Nat /\ NoticeKept(n)
  BY <1>0, <1>c DEF NoticeInv, NoticeRows
<1>5. NoticeKept(n)'
  <2>1. \A f \in Others(n)' : delivery[f].queued => rec.at = "active"
    <3> SUFFICES ASSUME NEW f \in Others(n) \ {d}, delivery[f].queued PROVE rec.at = "active"
      BY <1>1
    <3>1. notice[n].at = "active" /\ ~delivery[d].queued
      BY <1>0, <1>4 DEF NoticeKept
    <3> QED BY <1>b, <3>1
  <2>2. \A f, g \in Others(n)' : delivery[f].queued /\ delivery[g].queued => f = g
    BY <1>1, <1>4 DEF NoticeKept
  <2>3. rec.recent \/ rec.unread => rec.stored > 0
    BY <1>b, <1>4 DEF NoticeKept, SameStored
  <2>4. n \notin loose => Others(n)' = {}
    BY <1>0, <1>1, <1>4 DEF NoticeKept
  <2>5. n \notin loose => rec.stored <= 1
    BY <1>0, <1>b, <1>4 DEF NoticeKept, SameStored
  <2>6. n \notin loose /\ rec.stored > 0 /\ rec.at \in {"waiting", "active"} => rec.recent
    BY <1>0, <1>b, <1>4 DEF NoticeKept, SameStored
  <2>7. \A f \in Others(n)' : f # d /\ delivery'[f] = delivery[f]
    BY <1>1, <1>2 DEF Others
  <2> QED BY <1>4, <2>1, <2>2, <2>3, <2>4, <2>5, <2>6, <2>7 DEF NoticeKept
<1>6. notice' \in [Notice -> NoticeRows] /\ delivery' \in [Delivery -> Deliveries \cup {NoNotice}]
  BY <1>0, <1>c
<1>7. \A m \in Notice : NoticeKept(m)'
  BY <1>3, <1>5
<1>8. loose' \subseteq Notice
  BY <1>0
<1> QED BY <1>6, <1>7, <1>8, NoticesKeptType

(* A delivery that begins, from the queue or in line, keeps the invariant. *)
LEMMA BeginKeeps ==
    ASSUME NoticeInv, NEW d \in Delivery, NEW n \in Notice, NEW queued \in BOOLEAN, Begun(d, n, queued),
           NEW at \in {"waiting", "active", "done"}, notice' = [notice EXCEPT ![n].at = at],
           wrongs' \in 0..MaxWrongs, UNCHANGED <<preference, chosen, editing>>,
           \/ /\ queued /\ notice[n].at = "waiting"
              /\ at = "active"
           \/ /\ ~queued /\ notice[n].at = "none"
              /\ at # "active"
    PROVE  NoticeInv'
<1> USE NoNoticeAssumption
<1>a. /\ at = "active" => queued /\ notice[n].at = "waiting"
      /\ queued => at = "active"
      /\ notice[n].at \in {"none", "waiting"}
  OBVIOUS
<1> DEFINE one == [of |-> n, at |-> "look", queued |-> queued]
           rec == [notice[n] EXCEPT !.at = at]
<1>0. /\ notice \in [Notice -> NoticeRows] /\ delivery \in [Delivery -> Deliveries \cup {NoNotice}] /\ loose \subseteq Notice
      /\ delivery[d] = NoNotice /\ delivery' = [delivery EXCEPT ![d] = one]
      /\ loose' = IF Others(n) = {} THEN loose ELSE loose \cup {n}
      /\ notice' = [notice EXCEPT ![n] = rec]
  BY DEF NoticeInv, NoticesTypeOK, Begun
<1>1. one \in Deliveries /\ one.of = n /\ one.at = "look" /\ one.queued = queued
  BY DEF Deliveries
<1>2. /\ rec \in NoticeRows /\ rec.at = at /\ rec.attempt = notice[n].attempt /\ SameStored(rec, notice[n])
      /\ notice[n].stored \in Nat /\ notice[n].attempt \in Nat /\ NoticeKept(n)
  BY <1>0 DEF NoticeRows, SameStored, NoticeInv
<1> HIDE DEF one, rec
<1>3. Others(n)' = Others(n) \cup {d} /\ d \notin Others(n) /\ \A m \in Notice \ {n} : Others(m)' = Others(m)
  BY <1>0, <1>1 DEF Others
<1>4. \A f \in Delivery \ {d} : delivery'[f] = delivery[f]
  BY <1>0
<1>5. ASSUME NEW m \in Notice, m # n PROVE NoticeKept(m)'
  <2>1. notice'[m] = notice[m] /\ Others(m)' = Others(m) /\ d \notin Others(m) /\ (m \in loose => m \in loose')
    BY <1>0, <1>3, <1>5 DEF Others
  <2>2. \A f \in Others(m) : delivery'[f] = delivery[f]
    BY <1>4, <2>1 DEF Others
  <2>3. NoticeKept(m)
    BY DEF NoticeInv
  <2> QED BY <2>1, <2>2, <2>3, OtherNotice
<1>6. NoticeKept(n)'
  <2>1. notice'[n] = rec /\ delivery'[d] = one
    BY <1>0
  <2>2. \A f \in Others(n) : ~delivery[f].queued /\ delivery'[f] = delivery[f]
    BY <1>2, <1>3, <1>4 DEF NoticeKept, Others
  <2>3. n \notin loose' => n \notin loose /\ Others(n) = {}
    BY <1>0
  <2>4. rec.at # "none" /\ (rec.at \in {"waiting", "active"} => rec.attempt < NoticeAttempts)
    <3>1. 0 < NoticeAttempts
      BY DEF NoticeAttempts
    <3>2. CASE notice[n].at = "waiting"
      BY <1>2, <3>2 DEF NoticeKept
    <3>3. CASE notice[n].at = "none"
      BY <1>2, <3>1, <3>3 DEF NoticeKept
    <3> QED BY <1>2, <1>a, <3>2, <3>3
  <2>5. rec.recent \/ rec.unread => rec.stored > 0
    BY <1>2 DEF NoticeKept, SameStored
  <2>6. n \notin loose' => rec.stored <= 1 /\ (rec.stored > 0 => rec.recent)
    BY <1>2, <2>3 DEF NoticeKept, SameStored
  <2>7. \A f \in Others(n)' : delivery'[f].queued => f = d /\ queued
    BY <1>1, <1>3, <2>1, <2>2
  <2> QED BY <1>1, <1>2, <1>3, <2>1, <2>3, <2>4, <2>5, <2>6, <2>7 DEF NoticeKept
<1>7. notice' \in [Notice -> NoticeRows] /\ delivery' \in [Delivery -> Deliveries \cup {NoNotice}] /\ loose' \subseteq Notice
  BY <1>0, <1>1, <1>2
<1>8. \A m \in Notice : NoticeKept(m)'
  BY <1>5, <1>6
<1> QED BY <1>7, <1>8, NoticesKeptType

(* A look at the recent rows keeps the invariant. *)
LEMMA LookKeeps ==
    ASSUME NoticeInv, NEW d \in Delivery, delivery[d] # NoNotice, delivery' = [delivery EXCEPT ![d].at = "insert"],
           notice' = notice, UNCHANGED <<preference, chosen, editing>>, wrongs' \in 0..MaxWrongs,
           \/ loose' = loose \cup {delivery[d].of}
           \/ /\ loose' = loose
              /\ ~notice[delivery[d].of].recent
    PROVE  NoticeInv'
<1> USE NoNoticeAssumption
<1>p. delivery[d].of \in Notice
  BY DEF NoticeInv, NoticesTypeOK, Deliveries
<1>n. PICK n \in Notice : delivery[d].of = n
  BY <1>p
<1> DEFINE one == [delivery[d] EXCEPT !.at = "insert"]
<1>0. /\ notice \in [Notice -> NoticeRows] /\ delivery \in [Delivery -> Deliveries \cup {NoNotice}] /\ loose \subseteq Notice
      /\ delivery' = [delivery EXCEPT ![d] = one] /\ n \in Notice /\ d \in Others(n)
      /\ one \in Deliveries /\ one.of = n /\ one.queued = delivery[d].queued
  BY <1>n DEF NoticeInv, NoticesTypeOK, Deliveries, Others
<1>1. NoticeKept(n) /\ notice[n].stored \in Nat
  BY <1>0 DEF NoticeInv, NoticeRows
<1>a. \/ loose' = loose \cup {n}
      \/ /\ loose' = loose
         /\ ~notice[n].recent
  BY <1>n
<1> HIDE DEF one
<1>2. \A m \in Notice : Others(m)' = Others(m)
  BY <1>0 DEF Others
<1>3. delivery'[d] = one /\ \A f \in Delivery \ {d} : delivery'[f] = delivery[f]
  BY <1>0
<1>4. ASSUME NEW m \in Notice, m # n PROVE NoticeKept(m)'
  <2>1. d \notin Others(m) /\ (m \in loose => m \in loose')
    BY <1>4, <1>a, <1>n DEF Others
  <2>2. \A f \in Others(m) : delivery'[f] = delivery[f]
    BY <1>3, <2>1 DEF Others
  <2>3. NoticeKept(m)
    BY DEF NoticeInv
  <2> QED BY <1>2, <2>1, <2>2, <2>3, OtherNotice
<1>5. NoticeKept(n)'
  <2>1. \A f \in Others(n) : delivery'[f].queued = delivery[f].queued
    BY <1>0, <1>3 DEF Others
  <2>2. n \notin loose' => n \notin loose /\ Others(n) = {d} /\ notice[n].stored = 0
    BY <1>0, <1>1, <1>a DEF NoticeKept
  <2> QED BY <1>0, <1>1, <1>2, <2>1, <2>2 DEF NoticeKept
<1>6. delivery' \in [Delivery -> Deliveries \cup {NoNotice}] /\ loose' \subseteq Notice
  BY <1>0, <1>a
<1>7. \A m \in Notice : NoticeKept(m)'
  BY <1>4, <1>5
<1>8. notice' \in [Notice -> NoticeRows]
  BY <1>0
<1> QED BY <1>6, <1>7, <1>8, NoticesKeptType

(* An action on the row of a notice that leaves its job, its copies and its deliveries alone. *)
LEMMA RowKeeps ==
    ASSUME NoticeInv, NEW n \in Notice, NEW rec \in NoticeRows, notice' = [notice EXCEPT ![n] = rec],
           UNCHANGED <<delivery, preference, chosen, editing, wrongs>>, loose' \subseteq Notice, loose \subseteq loose',
           rec.at = notice[n].at \/ notice[n].at = "none",
           rec.at = "none" => notice[n].at = "none",
           notice[n].at = "none" => rec.at \in {"none", "waiting"},
           rec.attempt = notice[n].attempt, rec.stored = notice[n].stored,
           rec.recent => notice[n].recent, rec.unread => notice[n].unread,
           \/ rec.recent = notice[n].recent
           \/ n \in loose'
           \/ /\ rec.at \notin {"waiting", "active"}
              /\ Others(n) = {}
    PROVE  NoticeInv'
<1>0. notice \in [Notice -> NoticeRows] /\ delivery \in [Delivery -> Deliveries \cup {NoNotice}] /\ wrongs' \in 0..MaxWrongs
  BY DEF NoticeInv, NoticesTypeOK
<1>1. \A m \in Notice : Others(m)' = Others(m)
  BY DEF Others
<1>2. ASSUME NEW m \in Notice, m # n PROVE NoticeKept(m)'
  <2>1. notice'[m] = notice[m] /\ (m \in loose => m \in loose') /\ NoticeKept(m)
    BY <1>0, <1>2 DEF NoticeInv
  <2>2. \A f \in Others(m) : delivery'[f] = delivery[f]
    OBVIOUS
  <2> QED BY <1>1, <2>1, <2>2, OtherNotice
<1>3. NoticeKept(n)'
  <2>1. notice'[n] = rec /\ NoticeKept(n) /\ 0 < NoticeAttempts
    BY <1>0 DEF NoticeInv, NoticeAttempts
  <2>2. /\ rec.at = "none" => rec.stored = 0 /\ rec.attempt = 0 /\ Others(n) = {}
        /\ rec.at \in {"waiting", "active"} => rec.attempt < NoticeAttempts
        /\ rec.recent \/ rec.unread => rec.stored > 0
    BY <2>1 DEF NoticeKept
  <2>3. \A d \in Others(n) : delivery[d].queued => rec.at = "active"
    BY <2>1 DEF NoticeKept
  <2>4. n \notin loose' =>
          /\ rec.stored <= 1
          /\ rec.stored > 0 /\ (rec.at \in {"waiting", "active"} \/ Others(n) # {}) => rec.recent
    BY <2>1 DEF NoticeKept
  <2>5. /\ \A d, f \in Others(n) : delivery[d].queued /\ delivery[f].queued => d = f
        /\ n \notin loose' => /\ \A d, f \in Others(n) : d = f
                            /\ \A d \in Others(n) : delivery[d].at = "insert" => rec.stored = 0
    BY <2>1 DEF NoticeKept
  <2>6. delivery' = delivery
    OBVIOUS
  <2> QED BY <1>1, <2>1, <2>2, <2>3, <2>4, <2>5, <2>6 DEF NoticeKept
<1>4. notice' \in [Notice -> NoticeRows] /\ delivery' \in [Delivery -> Deliveries \cup {NoNotice}]
  BY <1>0
<1>5. \A m \in Notice : NoticeKept(m)'
  BY <1>2, <1>3
<1> QED BY <1>0, <1>4, <1>5, NoticesKeptType

(* The preferences of a user do not touch the notices. *)
LEMMA EditKeeps ==
    ASSUME NoticeInv, UNCHANGED <<notice, delivery, loose>>, wrongs' \in 0..MaxWrongs,
           editing' \in [Editor -> Edits \cup {NoNotice}], preference' \in [Channel -> Switches],
           chosen' \in [Channel -> Switches], ChoiceHolds'
    PROVE  NoticeInv'
<1>1. \A m \in Notice : Others(m)' = Others(m)
  BY DEF Others
<1>2. \A m \in Notice : NoticeKept(m)'
  BY <1>1 DEF NoticeInv, NoticeKept
<1>3. NoticesTypeOK'
  BY <1>1 DEF NoticeInv, NoticesTypeOK
<1> QED BY <1>2, <1>3 DEF NoticeInv

(* What is done to the preferences keeps the invariant. *)
LEMMA EditsKeep ==
    ASSUME NoticeInv,
           \E e \in Editor : \/ ReadPreferences(e) \/ EnsureDefaults(e)
                             \/ \E change \in [Channel -> {"on", "off"}] : UpdatePreferences(e, change)
                             \/ \E c \in Channel : UpsertPreference(e, c)
    PROVE  NoticeInv'
<1> USE NoNoticeAssumption, MaxWrongsAssumption
<1> PICK e \in Editor : \/ ReadPreferences(e) \/ EnsureDefaults(e)
                        \/ \E change \in [Channel -> {"on", "off"}] : UpdatePreferences(e, change)
                        \/ \E c \in Channel : UpsertPreference(e, c)
  OBVIOUS
<1>0. /\ editing \in [Editor -> Edits \cup {NoNotice}] /\ preference \in [Channel -> Switches]
      /\ chosen \in [Channel -> Switches] /\ wrongs \in 0..MaxWrongs /\ ChoiceHolds
  BY DEF NoticeInv, NoticesTypeOK
<1>1. CASE ReadPreferences(e)
  <2>1. [missing |-> {c \in Channel : preference[c] = "none"}] \in Edits
    BY DEF Edits
  <2>2. editing' \in [Editor -> Edits \cup {NoNotice}]
    BY <1>0, <1>1, <2>1 DEF ReadPreferences
  <2>3. ChoiceHolds'
    BY <1>0, <1>1 DEF ReadPreferences, ChoiceHolds
  <2> QED BY <1>0, <1>1, <2>2, <2>3, EditKeeps DEF ReadPreferences
<1>2. CASE EnsureDefaults(e)
  <2>1. editing' \in [Editor -> Edits \cup {NoNotice}]
    BY <1>0, <1>2 DEF EnsureDefaults
  <2>2. preference' \in [Channel -> Switches]
    BY <1>0, <1>2 DEF EnsureDefaults, Switches
  <2>3. ChoiceHolds'
    BY <1>0, <1>2 DEF EnsureDefaults, ChoiceHolds
  <2> QED BY <1>0, <1>2, <2>1, <2>2, <2>3, EditKeeps DEF EnsureDefaults
<1>3. ASSUME NEW change \in [Channel -> {"on", "off"}], UpdatePreferences(e, change) PROVE NoticeInv'
  <2>1. [change |-> change, left |-> Channel] \in Edits
    BY DEF Edits
  <2>2. editing' \in [Editor -> Edits \cup {NoNotice}] /\ wrongs' \in 0..MaxWrongs
    BY <1>0, <1>3, <2>1 DEF UpdatePreferences, Wrong
  <2>3. ChoiceHolds'
    BY <1>0, <1>3 DEF UpdatePreferences, ChoiceHolds
  <2> QED BY <1>0, <1>3, <2>2, <2>3, EditKeeps DEF UpdatePreferences
<1>4. ASSUME NEW c \in Channel, UpsertPreference(e, c) PROVE NoticeInv'
  <2> DEFINE edit == editing[e]
             x == edit.change[c]
             rest == LeftWithout(edit, c)
  <2>1. edit \in Edits /\ ~Filling(e)
    BY <1>0, <1>4 DEF UpsertPreference
  <2>2. edit \in [change : [Channel -> {"on", "off"}], left : SUBSET Channel]
    BY <1>4, <2>1 DEF Edits, Filling, UpsertPreference
  <2>3. x \in {"on", "off"} /\ x \in Switches
    BY <2>2 DEF Switches
  <2>4. rest = [change |-> edit.change, left |-> edit.left \ {c}]
    BY <2>2 DEF LeftWithout
  <2>5. rest \in Edits
    BY <2>2, <2>4 DEF Edits
  <2>6. /\ preference' = [preference EXCEPT ![c] = x] /\ chosen' = [chosen EXCEPT ![c] = x]
        /\ editing' = [editing EXCEPT ![e] = IF edit.left = {c} THEN NoNotice ELSE rest]
        /\ UNCHANGED <<notice, delivery, loose, wrongs>>
    BY <1>4 DEF UpsertPreference
  <2> HIDE DEF x, rest, edit
  <2>7. editing' \in [Editor -> Edits \cup {NoNotice}] /\ preference' \in [Channel -> Switches] /\ chosen' \in [Channel -> Switches]
    BY <1>0, <2>3, <2>5, <2>6
  <2>8. ChoiceHolds'
    BY <1>0, <2>6 DEF ChoiceHolds
  <2> QED BY <1>0, <2>6, <2>7, <2>8, EditKeeps
<1> QED BY <1>1, <1>2, <1>3, <1>4

(* Every step of a delivery keeps the invariant. *)
LEMMA DeliveriesKeep ==
    ASSUME NoticeInv, NEW d \in Delivery,
           \/ LookUpRecent(d) \/ LookUpFails(d)
           \/ CreateNotification(d) \/ CreateAnswerLost(d) \/ CreateFails(d)
    PROVE  NoticeInv'
<1> USE NoNoticeAssumption, MaxWrongsAssumption
<1>0. /\ notice \in [Notice -> NoticeRows] /\ wrongs \in 0..MaxWrongs
      /\ delivery \in [Delivery -> Deliveries \cup {NoNotice}]
  BY DEF NoticeInv, NoticesTypeOK
<1>1. delivery[d] # NoNotice
  BY DEF LookUpRecent, LookUpFails, CreateNotification, CreateAnswerLost, CreateFails, On
<1>2. PICK n \in Notice : delivery[d].of = n
  BY <1>0, <1>1 DEF Deliveries
<1>w. wrongs' \in 0..MaxWrongs
  <2>1. Wrong \/ wrongs' = wrongs
    BY DEF LookUpRecent, LookUpFails, CreateNotification, CreateAnswerLost, CreateFails
  <2> QED BY <1>0, <2>1 DEF Wrong
<1>3. /\ TRUE \in BOOLEAN /\ FALSE \in BOOLEAN
  OBVIOUS
<1>4. ASSUME NEW fine \in BOOLEAN
      PROVE  /\ Row(d, fine) \in NoticeRows /\ SameStored(Row(d, fine), notice[n])
             /\ Row(d, fine).at # "none"
             /\ Row(d, fine).at \in {"waiting", "active"} => Row(d, fine).attempt < NoticeAttempts
             /\ Row(d, fine).at \in {"waiting", "active"} => notice[n].at \in {"waiting", "active"}
             /\ ~delivery[d].queued => Row(d, fine).at = notice[n].at
  BY <1>1, <1>2, RowSettled
<1>5. CASE LookUpRecent(d)
  <2>1. CASE notice[n].recent
    <3> DEFINE rec == Row(d, TRUE)
    <3>1. Ended(d) /\ notice' = [notice EXCEPT ![n] = rec] /\ UNCHANGED <<loose, preference, chosen, editing>>
      BY <1>2, <1>5, <2>1 DEF LookUpRecent
    <3>2. /\ rec \in NoticeRows /\ SameStored(rec, notice[n])
          /\ rec.at # "none"
          /\ rec.at \in {"waiting", "active"} => rec.attempt < NoticeAttempts
          /\ rec.at \in {"waiting", "active"} => notice[n].at \in {"waiting", "active"}
          /\ ~delivery[d].queued => rec.at = notice[n].at
      BY <1>3, <1>4
    <3> HIDE DEF rec
    <3> QED BY <1>1, <1>2, <1>w, <3>1, <3>2, EndKeeps
  <2>2. CASE ~notice[n].recent
    <3>1. /\ delivery' = [delivery EXCEPT ![d].at = "insert"] /\ notice' = notice /\ loose' = loose
          /\ UNCHANGED <<preference, chosen, editing>>
      BY <1>2, <1>5, <2>2 DEF LookUpRecent
    <3> QED BY <1>1, <1>2, <1>w, <2>2, <3>1, LookKeeps
  <2> QED BY <2>1, <2>2
<1>6. CASE LookUpFails(d)
  BY <1>1, <1>w, <1>6, LookKeeps DEF LookUpFails
<1>7. ASSUME NEW fine \in BOOLEAN, On(d, "insert"), Ended(d), UNCHANGED <<loose, preference, chosen, editing>>,
             notice' = [notice EXCEPT ![delivery[d].of] = Stored(Row(d, fine))]
      PROVE  NoticeInv'
  <2> DEFINE mid == Row(d, fine)
             rec == Stored(mid)
  <2>1. /\ mid \in NoticeRows /\ SameStored(mid, notice[n])
        /\ mid.at # "none"
        /\ mid.at \in {"waiting", "active"} => mid.attempt < NoticeAttempts
        /\ mid.at \in {"waiting", "active"} => notice[n].at \in {"waiting", "active"}
        /\ ~delivery[d].queued => mid.at = notice[n].at
    BY <1>4
  <2> HIDE DEF mid
  <2>2. /\ rec \in NoticeRows /\ rec.at = mid.at /\ rec.attempt = mid.attempt
        /\ rec.stored = mid.stored + 1 /\ rec.recent = TRUE
    BY <2>1, StoredNotice
  <2>3. delivery[d].at = "insert" /\ notice' = [notice EXCEPT ![n] = rec]
    BY <1>2, <1>7 DEF On, mid
  <2> HIDE DEF rec
  <2>4. rec.stored = notice[n].stored + 1 /\ rec.recent
    BY <2>1, <2>2 DEF SameStored
  <2>5. /\ rec.at # "none"
        /\ rec.at \in {"waiting", "active"} => rec.attempt < NoticeAttempts
        /\ rec.at \in {"waiting", "active"} => notice[n].at \in {"waiting", "active"}
        /\ ~delivery[d].queued => rec.at = notice[n].at
    BY <2>1, <2>2
  <2> QED BY <1>1, <1>2, <1>7, <1>w, <2>2, <2>3, <2>4, <2>5, EndKeeps
<1>8. CASE CreateNotification(d)
  BY <1>3, <1>7, <1>8 DEF CreateNotification
<1>9. CASE CreateAnswerLost(d)
  BY <1>3, <1>7, <1>9 DEF CreateAnswerLost
<1>10. CASE CreateFails(d)
  <2> DEFINE rec == Row(d, FALSE)
  <2>1. Ended(d) /\ notice' = [notice EXCEPT ![n] = rec] /\ UNCHANGED <<loose, preference, chosen, editing>>
    BY <1>2, <1>10 DEF CreateFails
  <2>2. /\ rec \in NoticeRows /\ SameStored(rec, notice[n])
        /\ rec.at # "none"
        /\ rec.at \in {"waiting", "active"} => rec.attempt < NoticeAttempts
        /\ rec.at \in {"waiting", "active"} => notice[n].at \in {"waiting", "active"}
        /\ ~delivery[d].queued => rec.at = notice[n].at
    BY <1>3, <1>4
  <2> HIDE DEF rec
  <2> QED BY <1>1, <1>2, <1>w, <2>1, <2>2, EndKeeps
<1> QED BY <1>5, <1>6, <1>8, <1>9, <1>10

(* Every step of the notifications keeps the invariant. *)
LEMMA NoticeNextInv == NoticeInv /\ (NoticesNext \/ UNCHANGED noticeVars) => NoticeInv'
<1> SUFFICES ASSUME NoticeInv, NoticesNext \/ UNCHANGED noticeVars PROVE NoticeInv'
  OBVIOUS
<1> USE NoNoticeAssumption, MaxWrongsAssumption
<1>0. /\ notice \in [Notice -> NoticeRows] /\ wrongs \in 0..MaxWrongs /\ loose \subseteq Notice
  BY DEF NoticeInv, NoticesTypeOK
<1>1. ASSUME NEW n \in Notice, EnqueueNotification(n) PROVE NoticeInv'
  <2> DEFINE rec == [notice[n] EXCEPT !.at = "waiting"]
  <2>1. /\ rec \in NoticeRows /\ rec.at = "waiting" /\ rec.attempt = notice[n].attempt
        /\ rec.stored = notice[n].stored /\ rec.recent = notice[n].recent /\ rec.unread = notice[n].unread
    BY <1>0 DEF NoticeRows
  <2>2. /\ notice' = [notice EXCEPT ![n] = rec] /\ notice[n].at = "none" /\ loose' = loose
        /\ UNCHANGED <<delivery, preference, chosen, editing, wrongs>>
    BY <1>1 DEF EnqueueNotification
  <2> HIDE DEF rec
  <2> QED BY <1>0, <2>1, <2>2, RowKeeps
<1>2. ASSUME NEW n \in Notice, MinutePasses(n) PROVE NoticeInv'
  <2> DEFINE rec == [notice[n] EXCEPT !.recent = FALSE]
  <2>1. /\ rec \in NoticeRows /\ rec.at = notice[n].at /\ rec.attempt = notice[n].attempt
        /\ rec.stored = notice[n].stored /\ rec.unread = notice[n].unread
    BY <1>0 DEF NoticeRows
  <2>2. ~rec.recent
    BY <1>0 DEF NoticeRows
  <2>3. /\ notice' = [notice EXCEPT ![n] = rec]
        /\ UNCHANGED <<delivery, preference, chosen, editing, wrongs>>
        /\ loose' \subseteq Notice /\ loose \subseteq loose'
        /\ \/ n \in loose'
           \/ /\ notice[n].at \notin {"waiting", "active"}
              /\ Others(n) = {}
    BY <1>0, <1>2 DEF MinutePasses
  <2>4. /\ rec.at = "none" => notice[n].at = "none"
        /\ notice[n].at = "none" => rec.at \in {"none", "waiting"}
        /\ rec.recent => notice[n].recent
        /\ rec.unread => notice[n].unread
        /\ \/ n \in loose'
           \/ /\ rec.at \notin {"waiting", "active"}
              /\ Others(n) = {}
    BY <2>1, <2>2, <2>3
  <2> HIDE DEF rec
  <2> QED BY <2>1, <2>3, <2>4, RowKeeps
<1>3. ASSUME NEW n \in Notice, MarkAsRead(n) PROVE NoticeInv'
  <2> DEFINE rec == [notice[n] EXCEPT !.unread = FALSE]
  <2>1. /\ rec \in NoticeRows /\ rec.at = notice[n].at /\ rec.attempt = notice[n].attempt
        /\ rec.stored = notice[n].stored /\ rec.recent = notice[n].recent
    BY <1>0 DEF NoticeRows
  <2>2. ~rec.unread
    BY <1>0 DEF NoticeRows
  <2>3. /\ notice' = [notice EXCEPT ![n] = rec]
        /\ UNCHANGED <<delivery, preference, chosen, editing, wrongs>>
        /\ loose' \subseteq Notice /\ loose \subseteq loose'
    BY <1>0, <1>3 DEF MarkAsRead
  <2>4. /\ rec.at = "none" => notice[n].at = "none"
        /\ notice[n].at = "none" => rec.at \in {"none", "waiting"}
        /\ rec.recent => notice[n].recent
        /\ rec.unread => notice[n].unread
    BY <2>1, <2>2
  <2> HIDE DEF rec
  <2> QED BY <2>1, <2>3, <2>4, RowKeeps
<1>4. ASSUME NEW d \in Delivery, NEW n \in Notice, NotifyInline(d, n) PROVE NoticeInv'
  <2>1. PICK at \in {"waiting", "done"} : notice' = [notice EXCEPT ![n].at = at]
    BY <1>4 DEF NotifyInline
  <2>2. /\ Begun(d, n, FALSE) /\ notice[n].at = "none" /\ UNCHANGED <<preference, chosen, editing>>
        /\ Wrong
    BY <1>4 DEF NotifyInline
  <2>4. wrongs' \in 0..MaxWrongs
    BY <1>0, <2>2 DEF Wrong
  <2>3. at \in {"waiting", "active", "done"} /\ at # "active" /\ FALSE \in BOOLEAN
    OBVIOUS
  <2> QED BY <2>1, <2>2, <2>3, <2>4, BeginKeeps
<1>5. ASSUME NEW d \in Delivery, NEW n \in Notice, DeliverNotice(d, n) PROVE NoticeInv'
  <2>1. /\ Begun(d, n, TRUE) /\ notice[n].at = "waiting" /\ UNCHANGED <<preference, chosen, editing>>
        /\ notice' = [notice EXCEPT ![n].at = "active"] /\ wrongs' \in 0..MaxWrongs
    BY <1>0, <1>5 DEF DeliverNotice
  <2>2. "active" \in {"waiting", "active", "done"} /\ TRUE \in BOOLEAN
    OBVIOUS
  <2> QED BY <2>1, <2>2, BeginKeeps
<1>6. CASE MarkAllAsRead
  <2> DEFINE read(n) == [notice[n] EXCEPT !.unread = FALSE]
  <2>1. \A n \in Notice : /\ read(n) \in NoticeRows /\ read(n).at = notice[n].at /\ read(n).attempt = notice[n].attempt
                         /\ read(n).stored = notice[n].stored /\ read(n).recent = notice[n].recent
    BY <1>0 DEF NoticeRows
  <2>2. \A n \in Notice : ~read(n).unread
    BY <1>0 DEF NoticeRows
  <2>3. /\ notice' = [n \in Notice |-> read(n)] /\ UNCHANGED <<delivery, loose, preference, chosen, editing, wrongs>>
    BY <1>6 DEF MarkAllAsRead
  <2> HIDE DEF read
  <2>4. \A m \in Notice : Others(m)' = Others(m)
    BY <2>3 DEF Others
  <2>5. ASSUME NEW n \in Notice PROVE NoticeKept(n)'
    <3>0. NoticeKept(n)
      BY DEF NoticeInv
    <3>1. notice'[n] = read(n)
      BY <2>3
    <3>2. /\ notice'[n].at = notice[n].at /\ notice'[n].attempt = notice[n].attempt
          /\ notice'[n].stored = notice[n].stored /\ notice'[n].recent = notice[n].recent /\ ~notice'[n].unread
      BY <2>1, <2>2, <3>1
    <3>3. notice'[n].recent \/ notice'[n].unread => notice'[n].stored > 0
      BY <3>0, <3>2 DEF NoticeKept
    <3>4. delivery' = delivery /\ loose' = loose /\ Others(n)' = Others(n)
      BY <2>3, <2>4
    <3>5. n \notin loose' =>
            /\ notice'[n].stored <= 1
            /\ \A d, f \in Others(n)' : d = f
            /\ \A d \in Others(n)' : delivery'[d].at = "insert" => notice'[n].stored = 0
            /\ notice'[n].stored > 0 /\ (notice'[n].at \in {"waiting", "active"} \/ Others(n)' # {}) => notice'[n].recent
      BY <3>0, <3>2, <3>4 DEF NoticeKept
    <3>6. /\ notice'[n].at = "none" => notice'[n].stored = 0 /\ notice'[n].attempt = 0 /\ Others(n)' = {}
          /\ notice'[n].at \in {"waiting", "active"} => notice'[n].attempt < NoticeAttempts
          /\ \A d \in Others(n)' : delivery'[d].queued => notice'[n].at = "active"
          /\ \A d, f \in Others(n)' : delivery'[d].queued /\ delivery'[f].queued => d = f
      BY <3>0, <3>2, <3>4 DEF NoticeKept
    <3> QED BY <3>3, <3>5, <3>6 DEF NoticeKept
  <2>6. notice' \in [Notice -> NoticeRows] /\ delivery' \in [Delivery -> Deliveries \cup {NoNotice}]
    BY <2>1, <2>3 DEF NoticeInv, NoticesTypeOK
  <2>7. \A m \in Notice : NoticeKept(m)'
    BY <2>5
  <2> QED BY <1>0, <2>3, <2>6, <2>7, NoticesKeptType
<1>7. CASE UNCHANGED noticeVars
  <2>1. \A m \in Notice : Others(m)' = Others(m)
    BY <1>7 DEF Others, noticeVars
  <2> QED BY <1>7, <2>1 DEF noticeVars, NoticeInv, NoticesTypeOK, NoticeKept, ChoiceHolds
<1> QED BY <1>1, <1>2, <1>3, <1>4, <1>5, <1>6, <1>7, DeliveriesKeep, EditsKeep DEF NoticesNext

(* What the invariant of the notifications says of one state. *)
LEMMA NoticesAsPromised == NoticeInv => NoticesTypeOK /\ NoticeOnce /\ ChoiceHolds
  BY DEF NoticeInv, NoticeKept, NoticeOnce

-----------------------------------------------------------------------------
(* Files and folders (Files). *)

(* The path of a folder begins with the folder, *)
LEMMA PathReaches == \A d \in Folder : d \in PathOf(d)
  BY DEF PathOf

(* goes all the way up, *)
LEMMA PathIsClosed == \A d \in Folder : Upward(PathOf(d))
<1> SUFFICES ASSUME NEW d \in Folder, NEW e \in PathOf(d) PROVE Above[e] \in PathOf(d) \cup {Base}
  BY DEF Upward
<1>1. e \in Folder /\ Above[e] \in Folder \cup {Base}
  BY FilesAssumption DEF PathOf
<1>2. ASSUME Above[e] # Base, NEW S \in SUBSET Folder, d \in S, Upward(S) PROVE Above[e] \in S
  <2>1. e \in S
    BY <1>2 DEF PathOf
  <2> QED BY <1>2, <2>1 DEF Upward
<1> QED BY <1>1, <1>2 DEF PathOf

(* and holds nothing else. *)
LEMMA PathIsLeast ==
    ASSUME NEW S \in SUBSET Folder, Upward(S), NEW d \in S
    PROVE  PathOf(d) \subseteq S
  BY DEF PathOf

(* The path of a folder on the path is on the path. *)
LEMMA PathsNest == \A d \in Folder : \A e \in PathOf(d) : PathOf(e) \subseteq PathOf(d)
<1> SUFFICES ASSUME NEW d \in Folder, NEW e \in PathOf(d) PROVE PathOf(e) \subseteq PathOf(d)
  OBVIOUS
<1>1. PathOf(d) \in SUBSET Folder /\ Upward(PathOf(d))
  BY PathIsClosed DEF PathOf
<1> HIDE DEF PathOf
<1> QED BY <1>1, PathIsLeast

(* The path of a folder is the folder and the path of the one above it. *)
LEMMA PathUp ==
    ASSUME NEW d \in Folder
    PROVE  /\ Above[d] = Base => PathOf(d) = {d}
           /\ Above[d] # Base => Above[d] \in Folder /\ PathOf(d) \subseteq {d} \cup PathOf(Above[d])
<1>1. CASE Above[d] = Base
  <2>1. {d} \in SUBSET Folder /\ Upward({d})
    BY <1>1 DEF Upward
  <2>2. PathOf(d) \subseteq {d}
    BY <2>1, PathIsLeast
  <2> QED BY <1>1, <2>2, PathReaches
<1>2. CASE Above[d] # Base
  <2> DEFINE up == PathOf(Above[d])
  <2>1. Above[d] \in Folder
    BY <1>2, FilesAssumption
  <2>2. Above[d] \in up /\ Upward(up) /\ up \subseteq Folder
    BY <2>1, PathReaches, PathIsClosed DEF PathOf
  <2> HIDE DEF up
  <2>3. {d} \cup up \in SUBSET Folder /\ Upward({d} \cup up)
    BY <2>2 DEF Upward
  <2>4. PathOf(d) \subseteq {d} \cup up
    BY <2>3, PathIsLeast
  <2> QED BY <1>2, <2>1, <2>4 DEF up
<1> QED BY <1>1, <1>2

(* What a disk is like: nothing is without the folder it is in. *)
Disk == folders \subseteq Folder /\ Upward(folders) /\ files \subseteq File /\ \A f \in files : FolderOf[f] \in folders

(* A folder is empty exactly when nothing lies below it, at any depth; taking it away takes nothing else. *)
LEMMA EmptyIsAlone ==
    ASSUME Disk, NEW d \in Folder, Removable(d)
    PROVE  /\ {e \in folders : d \notin PathOf(e)} = folders \ {d}
           /\ {f \in files : d \notin PathOf(FolderOf[f])} = files
           /\ Upward(folders \ {d}) /\ \A f \in files : FolderOf[f] \in folders \ {d}
<1> DEFINE S == folders \ {d}
<1>1. S \in SUBSET Folder /\ Upward(S)
  BY DEF Disk, Removable, IsEmpty, Upward
<1>2. \A e \in S : PathOf(e) \subseteq S
  BY <1>1, PathIsLeast
<1>3. \A f \in files : FolderOf[f] \in S
  BY DEF Disk, Removable, IsEmpty
<1>4. d \in PathOf(d)
  BY PathReaches
<1> QED BY <1>1, <1>2, <1>3, <1>4

Used(d) == \E f \in files : d \in PathOf(FolderOf[f])

(* A folder of the path below which there is something else than the path is in use. *)
LEMMA FullIsUsed ==
    ASSUME Disk, NEW d \in folders, ~IsEmpty(d), \A e \in folders : Used(e) \/ e \in PathOf(d)
    PROVE  \A e \in folders : Used(e)
<1>0. d \in Folder /\ files \subseteq File /\ \A f \in File : FolderOf[f] \in Folder
  BY FilesAssumption DEF Disk
<1>1. ASSUME NEW x \in Folder, NEW y \in PathOf(x), Used(x) PROVE Used(y)
  <2>1. PICK f \in files : x \in PathOf(FolderOf[f])
    BY <1>1 DEF Used
  <2>2. FolderOf[f] \in Folder
    BY <1>0
  <2>3. y \in PathOf(FolderOf[f])
    BY <2>1, <2>2, PathsNest
  <2> QED BY <2>3 DEF Used
<1>2. Used(d)
  <2>1. ASSUME NEW f \in files, FolderOf[f] = d PROVE Used(d)
    BY <1>0, <2>1, PathReaches DEF Used
  <2>2. ASSUME NEW e \in folders, Above[e] = d PROVE Used(d)
    <3>1. e \in Folder /\ d # Base /\ d \in PathOf(e)
      <4>1. e \in Folder /\ d # Base
        BY <1>0, FilesAssumption DEF Disk
      <4>2. e \in PathOf(e) /\ Upward(PathOf(e))
        BY <4>1, PathReaches, PathIsClosed
      <4> QED BY <2>2, <4>1, <4>2 DEF Upward
    <3>2. CASE Used(e)
      BY <1>1, <3>1, <3>2
    <3>3. CASE e \in PathOf(d)
      <4>1. Above[d] # Base
        <5> SUFFICES ASSUME Above[d] = Base PROVE FALSE
          OBVIOUS
        <5>1. PathOf(d) = {d}
          BY <1>0, PathUp
        <5> QED BY <2>2, <3>1, <3>3, <5>1
      <4>2. Above[d] \in Folder /\ PathOf(d) \subseteq {d} \cup PathOf(Above[d])
        BY <1>0, <4>1, PathUp
      <4>3. d \notin PathOf(Above[d])
        BY <1>0, <4>1, AboveAssumption
      <4>4. CASE e = d
        BY <2>2, <4>2, <4>3, <4>4, PathReaches
      <4>5. CASE e \in PathOf(Above[d])
        <5>1. PathOf(e) \subseteq PathOf(Above[d])
          BY <4>2, <4>5, PathsNest
        <5> QED BY <3>1, <4>3, <5>1
      <4> QED BY <3>3, <4>2, <4>4, <4>5
    <3> QED BY <3>2, <3>3
  <2> QED BY <2>1, <2>2 DEF IsEmpty
<1>3. \A e \in PathOf(d) : Used(e)
  BY <1>0, <1>1, <1>2
<1> QED BY <1>3

(* While requests come one by one, what the one under way has left for its next steps: folders that
   nothing is in are on the path of its own. *)
Turn(c) ==
    LET w == work[c] IN
    /\ \A d \in folders : \/ Used(d)
                          \/ w.at = "write" /\ d \in PathOf(FolderOf[w.file])
                          \/ w.at \in {"read", "remove"} /\ d \in PathOf(w.folder)
    /\ w.at \in {"write", "read", "remove"} => w.folder \in folders
    /\ w.at = "remove" => IsEmpty(w.folder)
InTurn ==
    ~overlapped =>
        /\ \A c, d \in Client : work[c] # NoFile /\ work[d] # NoFile => c = d
        /\ \A c \in Client : work[c] # NoFile => Turn(c)
        /\ (\A c \in Client : work[c] = NoFile) => \A d \in folders : Used(d)
KeyFolders ==
    \A c \in Client : work[c] # NoFile /\ (work[c].op = "upload" \/ work[c].at = "first")
        => work[c].folder = FolderOf[work[c].file]
FileInv == FilesTypeOK /\ UploadedStays /\ KeyFolders /\ InTurn

(* The type of the folders and files is what Disk says. *)
LEMMA TypeIsDisk == FilesTypeOK => Disk
  BY DEF FilesTypeOK, Disk, Upward

(* Nothing is stored yet. *)
LEMMA FileInitInv == FilesInit => FileInv
<1> SUFFICES ASSUME FilesInit PROVE FileInv
  OBVIOUS
<1>1. 0 \in 0..MaxNow
  BY FilesAssumption
<1>2. FilesTypeOK
  BY <1>1 DEF FilesInit, FilesTypeOK
<1> QED BY <1>2 DEF FilesInit, FileInv, UploadedStays, KeyFolders, InTurn

(* A request begins. *)
LEMMA FileBeginKeeps ==
    ASSUME FileInv, NEW c \in Client, NEW f \in File, NEW op \in {"upload", "delete", "read"}, Begin(c, op, f),
           UNCHANGED <<folders, files, link, now, uploaded, unlinked>>
    PROVE  FileInv'
<1> USE NoFileAssumption
<1> DEFINE one == [op |-> op, file |-> f, at |-> "first", folder |-> FolderOf[f]]
<1>1. /\ one \in Works /\ one.op = op /\ one.file = f /\ one.at = "first" /\ one.folder = FolderOf[f]
  BY FilesAssumption DEF Works
<1>2. /\ work \in [Client -> Works \cup {NoFile}] /\ work' = [work EXCEPT ![c] = one] /\ work[c] = NoFile
      /\ overlapped' = (overlapped \/ \E d \in Client \ {c} : work[d] # NoFile)
  BY DEF FileInv, FilesTypeOK, Begin
<1> HIDE DEF one
<1>3. work' \in [Client -> Works \cup {NoFile}] /\ work'[c] = one /\ \A d \in Client \ {c} : work'[d] = work[d]
  BY <1>1, <1>2
<1>4. FilesTypeOK'
  BY <1>3 DEF FileInv, FilesTypeOK
<1>5. KeyFolders'
  BY <1>1, <1>2, <1>3 DEF FileInv, KeyFolders
<1>6. InTurn'
  <2> SUFFICES ASSUME ~overlapped' PROVE InTurn'
    BY DEF InTurn
  <2>1. ~overlapped /\ \A d \in Client : work[d] = NoFile
    BY <1>2
  <2>2. \A d \in folders : Used(d)
    BY <2>1 DEF FileInv, InTurn
  <2>3. \A d \in folders' : Used(d)'
    BY <2>2 DEF Used
  <2>4. \A d \in Client : work'[d] # NoFile => d = c
    BY <1>3, <2>1
  <2>5. Turn(c)'
    BY <1>1, <1>3, <2>3 DEF Turn
  <2>6. work'[c] # NoFile
    BY <1>1, <1>3
  <2> QED BY <2>4, <2>5, <2>6 DEF InTurn
<1>7. UploadedStays'
  BY DEF FileInv, UploadedStays
<1> QED BY <1>4, <1>5, <1>6, <1>7 DEF FileInv

(* A request goes on, or ends. *)
LEMMA TurnKeeps ==
    ASSUME FileInv, NEW c \in Client, work[c] # NoFile, NEW one \in Works \cup {NoFile}, work' = [work EXCEPT ![c] = one],
           UNCHANGED <<link, now, overlapped>>,
           one # NoFile /\ (one.op = "upload" \/ one.at = "first") => one.folder = FolderOf[one.file],
           Disk', uploaded' \subseteq File, unlinked' \subseteq File, UploadedStays',
           ~overlapped => IF one = NoFile THEN \A d \in folders' : Used(d)' ELSE Turn(c)'
    PROVE  FileInv'
<1> USE NoFileAssumption
<1>1. /\ work' \in [Client -> Works \cup {NoFile}] /\ work'[c] = one /\ \A d \in Client \ {c} : work'[d] = work[d]
  BY DEF FileInv, FilesTypeOK
<1>2. FilesTypeOK'
  BY <1>1 DEF FileInv, FilesTypeOK, Disk, Upward
<1>3. KeyFolders'
  BY <1>1 DEF FileInv, KeyFolders
<1>4. InTurn'
  <2> SUFFICES ASSUME ~overlapped' PROVE InTurn'
    BY DEF InTurn
  <2>1. ~overlapped /\ \A d \in Client : work[d] # NoFile => d = c
    BY DEF FileInv, InTurn
  <2>2. \A d \in Client : work'[d] # NoFile => d = c
    BY <1>1, <2>1
  <2>3. CASE one = NoFile
    BY <1>1, <2>1, <2>2, <2>3 DEF InTurn
  <2>4. CASE one # NoFile
    BY <1>1, <2>1, <2>2, <2>4 DEF InTurn
  <2> QED BY <2>3, <2>4
<1> QED BY <1>2, <1>3, <1>4 DEF FileInv

(* What a client in the middle of an operation may rely on. *)
LEMMA WorkAt ==
    ASSUME FileInv, NEW c \in Client, NEW op, NEW where, FileAt(c, op, where)
    PROVE  /\ work[c] \in Works /\ work[c] # NoFile /\ work[c].op = op /\ work[c].at = where
           /\ work[c].file \in File /\ work[c].folder \in Folder /\ FolderOf[work[c].file] \in Folder
           /\ op = "upload" \/ where = "first" => work[c].folder = FolderOf[work[c].file]
           /\ ~overlapped => Turn(c)
           /\ Disk
<1>1. work[c] \in Works /\ work[c] # NoFile /\ work[c].op = op /\ work[c].at = where
  BY DEF FileAt, FileInv, FilesTypeOK
<1>2. work[c].file \in File /\ work[c].folder \in Folder
  BY <1>1 DEF Works
<1>3. Disk
  BY TypeIsDisk DEF FileInv
<1> QED BY <1>1, <1>2, <1>3, FilesAssumption DEF FileInv, KeyFolders, InTurn

(* The step to another place in the same request. *)
LEMMA Onward ==
    ASSUME NEW w \in Works, NEW where \in {"first", "write", "stat", "read", "remove", "open"}
    PROVE  /\ [w EXCEPT !.at = where] \in Works /\ [w EXCEPT !.at = where].op = w.op
           /\ [w EXCEPT !.at = where].file = w.file /\ [w EXCEPT !.at = where].folder = w.folder
           /\ [w EXCEPT !.at = where].at = where
  BY DEF Works

(* The steps of an upload keep the invariant. *)
LEMMA UploadsKeep ==
    ASSUME FileInv, NEW c \in Client, EnsureDirectory(c) \/ WriteFile(c) \/ Stat(c)
    PROVE  FileInv'
<1> USE NoFileAssumption
<1>0. work \in [Client -> Works \cup {NoFile}] /\ uploaded \subseteq File /\ unlinked \subseteq File /\ UploadedStays
  BY DEF FileInv, FilesTypeOK
<1>1. CASE EnsureDirectory(c)
  <2>1. FileAt(c, "upload", "first")
    BY <1>1 DEF EnsureDirectory
  <2>2. PICK w \in Works : w = work[c]
    BY <2>1, WorkAt
  <2>3. /\ w.file \in File /\ w.folder \in Folder /\ w.op = "upload" /\ w.at = "first" /\ w.folder = FolderOf[w.file]
        /\ (~overlapped => Turn(c)) /\ Disk /\ work[c] # NoFile
    BY <2>1, <2>2, WorkAt
  <2> DEFINE one == [w EXCEPT !.at = "write"]
  <2>4. one \in Works /\ one.at = "write" /\ one.file = w.file /\ one.folder = w.folder /\ one.op = "upload"
    BY <2>3, Onward
  <2>5. /\ work' = [work EXCEPT ![c] = one] /\ folders' = folders \cup PathOf(w.folder)
        /\ UNCHANGED <<files, uploaded, unlinked, link, now, overlapped>>
    BY <1>1, <2>2, <2>3 DEF EnsureDirectory, Goes, Else
  <2> HIDE DEF one
  <2>6. work'[c] = one
    BY <1>0, <2>5
  <2>7. Disk'
    <3>1. PathOf(w.folder) \subseteq Folder /\ Upward(PathOf(w.folder))
      BY <2>3, PathIsClosed DEF PathOf
    <3>2. folders' \subseteq Folder /\ Upward(folders')
      BY <2>3, <2>5, <3>1 DEF Disk, Upward
    <3> QED BY <2>3, <2>5, <3>2 DEF Disk, Upward
  <2>8. ~overlapped => Turn(c)'
    <3> SUFFICES ASSUME ~overlapped PROVE Turn(c)'
      OBVIOUS
    <3>1. \A d \in folders : Used(d)
      BY <2>2, <2>3 DEF Turn
    <3>2. \A d \in folders' : Used(d)' \/ d \in PathOf(FolderOf[one.file])
      BY <2>3, <2>4, <2>5, <3>1 DEF Used
    <3>3. one.folder \in folders'
      BY <2>3, <2>4, <2>5, PathReaches
    <3> QED BY <2>4, <2>6, <3>2, <3>3 DEF Turn
  <2>9. UploadedStays'
    BY <1>0, <2>5 DEF UploadedStays
  <2> QED BY <1>0, <2>3, <2>4, <2>5, <2>7, <2>8, <2>9, TurnKeeps
<1>2. CASE WriteFile(c)
  <2>1. FileAt(c, "upload", "write")
    BY <1>2 DEF WriteFile
  <2>2. PICK w \in Works : w = work[c]
    BY <2>1, WorkAt
  <2>3. /\ w.file \in File /\ w.folder \in Folder /\ w.op = "upload" /\ w.at = "write" /\ w.folder = FolderOf[w.file]
        /\ (~overlapped => Turn(c)) /\ Disk /\ work[c] # NoFile
    BY <2>1, <2>2, WorkAt
  <2>4. CASE w.folder \in folders
    <3> DEFINE one == [w EXCEPT !.at = "stat"]
    <3>1. one \in Works /\ one.at = "stat" /\ one.file = w.file /\ one.folder = w.folder /\ one.op = "upload"
      BY <2>3, Onward
    <3>2. /\ work' = [work EXCEPT ![c] = one] /\ files' = files \cup {w.file}
          /\ UNCHANGED <<folders, uploaded, unlinked, link, now, overlapped>>
      BY <1>2, <2>2, <2>4 DEF WriteFile, Goes, Else
    <3> HIDE DEF one
    <3>3. work'[c] = one
      BY <1>0, <3>2
    <3>4. Disk'
      BY <2>3, <2>4, <3>2 DEF Disk, Upward
    <3>5. ~overlapped => Turn(c)'
      <4> SUFFICES ASSUME ~overlapped PROVE Turn(c)'
        OBVIOUS
      <4>1. \A d \in folders : Used(d) \/ d \in PathOf(FolderOf[w.file])
        BY <2>2, <2>3 DEF Turn
      <4>2. \A d \in folders' : Used(d)'
        BY <3>2, <4>1 DEF Used
      <4> QED BY <3>1, <3>3, <4>2 DEF Turn
    <3>6. UploadedStays'
      BY <1>0, <3>2 DEF UploadedStays
    <3> QED BY <1>0, <2>3, <3>1, <3>2, <3>4, <3>5, <3>6, TurnKeeps
  <2>5. CASE w.folder \notin folders
    <3>1. /\ work' = [work EXCEPT ![c] = NoFile]
          /\ UNCHANGED <<files, folders, uploaded, unlinked, link, now, overlapped>>
      BY <1>2, <2>2, <2>5 DEF WriteFile, Leaves, Else
    <3>2. Disk'
      BY <2>3, <3>1 DEF Disk, Upward
    <3>3. overlapped
      BY <2>2, <2>3, <2>5 DEF Turn
    <3>4. UploadedStays'
      BY <1>0, <3>1 DEF UploadedStays
    <3> QED BY <1>0, <2>3, <3>1, <3>2, <3>3, <3>4, TurnKeeps
  <2> QED BY <2>4, <2>5
<1>3. CASE Stat(c)
  <2>1. FileAt(c, "upload", "stat")
    BY <1>3 DEF Stat
  <2>2. PICK w \in Works : w = work[c]
    BY <2>1, WorkAt
  <2>3. w.file \in File /\ w.at = "stat" /\ (~overlapped => Turn(c)) /\ Disk /\ work[c] # NoFile
    BY <2>1, <2>2, WorkAt
  <2>4. /\ work' = [work EXCEPT ![c] = NoFile] /\ UNCHANGED <<folders, files, unlinked, link, now, overlapped>>
        /\ uploaded' = IF w.file \in files THEN uploaded \cup {w.file} ELSE uploaded
    BY <1>3, <2>2 DEF Stat, Leaves, Else
  <2>5. Disk'
    BY <2>3, <2>4 DEF Disk, Upward
  <2>6. ~overlapped => \A d \in folders' : Used(d)'
    BY <2>2, <2>3, <2>4 DEF Turn, Used
  <2>7. UploadedStays' /\ uploaded' \subseteq File
    BY <1>0, <2>3, <2>4 DEF UploadedStays
  <2> QED BY <1>0, <2>3, <2>4, <2>5, <2>6, <2>7, TurnKeeps
<1> QED BY <1>1, <1>2, <1>3

(* So do those of a deletion, which tidies the folders above the file. *)
LEMMA DeletionsKeep ==
    ASSUME FileInv, NEW c \in Client, Unlink(c) \/ ReadFolder(c) \/ RemoveFolder(c)
    PROVE  FileInv'
<1> USE NoFileAssumption
<1>0. work \in [Client -> Works \cup {NoFile}] /\ uploaded \subseteq File /\ unlinked \subseteq File /\ UploadedStays
  BY DEF FileInv, FilesTypeOK
<1>1. CASE Unlink(c)
  <2>1. FileAt(c, "delete", "first")
    BY <1>1 DEF Unlink
  <2>2. PICK w \in Works : w = work[c]
    BY <2>1, WorkAt
  <2>3. /\ w.file \in File /\ w.folder \in Folder /\ w.op = "delete" /\ w.at = "first" /\ w.folder = FolderOf[w.file]
        /\ (~overlapped => Turn(c)) /\ Disk /\ work[c] # NoFile
    BY <2>1, <2>2, WorkAt
  <2>0. ~overlapped => \A d \in folders : Used(d)
    BY <2>2, <2>3 DEF Turn
  <2>4. CASE w.file \in files
    <3> DEFINE one == [w EXCEPT !.at = "read"]
    <3>1. one \in Works /\ one.at = "read" /\ one.file = w.file /\ one.folder = w.folder /\ one.op = "delete"
      BY <2>3, Onward
    <3>2. /\ work' = [work EXCEPT ![c] = one] /\ files' = files \ {w.file} /\ unlinked' = unlinked \cup {w.file}
          /\ UNCHANGED <<folders, uploaded, link, now, overlapped>>
      BY <1>1, <2>2, <2>4 DEF Unlink, Goes, Else
    <3> HIDE DEF one
    <3>3. work'[c] = one
      BY <1>0, <3>2
    <3>4. Disk'
      BY <2>3, <2>4, <3>2 DEF Disk, Upward
    <3>5. ~overlapped => Turn(c)'
      <4> SUFFICES ASSUME ~overlapped PROVE Turn(c)'
        OBVIOUS
      <4>1. \A d \in folders' : Used(d)' \/ d \in PathOf(one.folder)
        BY <2>0, <2>3, <3>1, <3>2 DEF Used
      <4>2. one.folder \in folders'
        BY <2>3, <2>4, <3>1, <3>2 DEF Disk
      <4> QED BY <3>1, <3>3, <4>1, <4>2 DEF Turn
    <3>6. UploadedStays' /\ unlinked' \subseteq File
      BY <1>0, <2>3, <3>2 DEF UploadedStays
    <3> QED BY <1>0, <2>3, <3>1, <3>2, <3>4, <3>5, <3>6, TurnKeeps
  <2>5. CASE w.file \notin files
    <3>1. /\ work' = [work EXCEPT ![c] = NoFile]
          /\ UNCHANGED <<files, folders, uploaded, unlinked, link, now, overlapped>>
      BY <1>1, <2>2, <2>5 DEF Unlink, Leaves, Else
    <3>2. Disk'
      BY <2>3, <3>1 DEF Disk, Upward
    <3>3. ~overlapped => \A d \in folders' : Used(d)'
      BY <2>0, <3>1 DEF Used
    <3>4. UploadedStays'
      BY <1>0, <3>1 DEF UploadedStays
    <3> QED BY <1>0, <2>3, <3>1, <3>2, <3>3, <3>4, TurnKeeps
  <2> QED BY <2>4, <2>5
<1>2. CASE ReadFolder(c)
  <2>1. FileAt(c, "delete", "read")
    BY <1>2 DEF ReadFolder
  <2>2. PICK w \in Works : w = work[c]
    BY <2>1, WorkAt
  <2>3. /\ w.folder \in Folder /\ w.op = "delete" /\ w.at = "read"
        /\ (~overlapped => Turn(c)) /\ Disk /\ work[c] # NoFile
    BY <2>1, <2>2, WorkAt
  <2>0. ~overlapped => w.folder \in folders /\ \A d \in folders : Used(d) \/ d \in PathOf(w.folder)
    BY <2>2, <2>3 DEF Turn
  <2>s. UNCHANGED <<files, folders, uploaded, unlinked, link, now, overlapped>>
    BY <1>2 DEF ReadFolder, Else
  <2>d. Disk' /\ UploadedStays'
    BY <1>0, <2>3, <2>s DEF Disk, Upward, UploadedStays
  <2>4. CASE w.folder \in folders /\ IsEmpty(w.folder)
    <3> DEFINE one == [w EXCEPT !.at = "remove"]
    <3>1. one \in Works /\ one.at = "remove" /\ one.file = w.file /\ one.folder = w.folder /\ one.op = "delete"
      BY <2>3, Onward
    <3>2. work' = [work EXCEPT ![c] = one]
      BY <1>2, <2>2, <2>4 DEF ReadFolder, Goes
    <3> HIDE DEF one
    <3>3. work'[c] = one
      BY <1>0, <3>2
    <3>5. ~overlapped => Turn(c)'
      <4> SUFFICES ASSUME ~overlapped PROVE Turn(c)'
        OBVIOUS
      <4>1. \A d \in folders' : Used(d)' \/ d \in PathOf(one.folder)
        BY <2>0, <2>s, <3>1 DEF Used
      <4>2. one.folder \in folders' /\ IsEmpty(one.folder)'
        BY <2>4, <2>s, <3>1 DEF IsEmpty
      <4> QED BY <3>1, <3>3, <4>1, <4>2 DEF Turn
    <3> QED BY <1>0, <2>3, <2>s, <2>d, <3>1, <3>2, <3>5, TurnKeeps
  <2>5. CASE ~(w.folder \in folders /\ IsEmpty(w.folder))
    <3>1. work' = [work EXCEPT ![c] = NoFile]
      BY <1>2, <2>2, <2>5 DEF ReadFolder, Leaves
    <3>2. ~overlapped => \A d \in folders : Used(d)
      BY <2>0, <2>3, <2>5, FullIsUsed
    <3>3. ~overlapped => \A d \in folders' : Used(d)'
      BY <2>s, <3>2 DEF Used
    <3> QED BY <1>0, <2>3, <2>s, <2>d, <3>1, <3>3, TurnKeeps
  <2> QED BY <2>4, <2>5
<1>3. CASE RemoveFolder(c)
  <2>1. FileAt(c, "delete", "remove")
    BY <1>3 DEF RemoveFolder
  <2>2. PICK w \in Works : w = work[c]
    BY <2>1, WorkAt
  <2>3. /\ w.folder \in Folder /\ w.op = "delete" /\ w.at = "remove"
        /\ (~overlapped => Turn(c)) /\ Disk /\ work[c] # NoFile
    BY <2>1, <2>2, WorkAt
  <2>0. ~overlapped => Removable(w.folder) /\ \A d \in folders : Used(d) \/ d \in PathOf(w.folder)
    BY <2>2, <2>3 DEF Turn, Removable
  <2>s. UNCHANGED <<uploaded, unlinked, link, now, overlapped>>
    BY <1>3 DEF RemoveFolder, Else
  <2>4. CASE ~Removable(w.folder)
    <3>1. work' = [work EXCEPT ![c] = NoFile] /\ UNCHANGED <<folders, files>>
      BY <1>3, <2>2, <2>4 DEF RemoveFolder, Leaves
    <3>2. Disk' /\ UploadedStays'
      BY <1>0, <2>3, <2>s, <3>1 DEF Disk, Upward, UploadedStays
    <3> QED BY <1>0, <2>0, <2>3, <2>4, <2>s, <3>1, <3>2, TurnKeeps
  <2>5. CASE Removable(w.folder)
    <3> DEFINE d == w.folder
    <3>1. /\ {e \in folders : d \notin PathOf(e)} = folders \ {d}
          /\ {f \in files : d \notin PathOf(FolderOf[f])} = files
          /\ Upward(folders \ {d}) /\ \A f \in files : FolderOf[f] \in folders \ {d}
      BY <2>3, <2>5, EmptyIsAlone
    <3>2. folders' = folders \ {d} /\ files' = files
      BY <1>3, <2>2, <2>5, <3>1 DEF RemoveFolder
    <3>3. Disk' /\ UploadedStays'
      BY <1>0, <2>3, <2>s, <3>1, <3>2 DEF Disk, Upward, UploadedStays
    <3>4. CASE Above[d] = Base
      <4>1. work' = [work EXCEPT ![c] = NoFile]
        BY <1>3, <2>2, <2>5, <3>4 DEF RemoveFolder, Leaves, Upwards
      <4>2. PathOf(d) = {d}
        BY <2>3, <3>4, PathUp
      <4>3. ~overlapped => \A e \in folders' : Used(e)'
        BY <2>0, <3>2, <4>2 DEF Used
      <4> QED BY <1>0, <2>3, <2>s, <3>3, <4>1, <4>3, TurnKeeps
    <3>5. CASE Above[d] # Base
      <4> DEFINE one == [w EXCEPT !.at = "read", !.folder = Above[d]]
      <4>1. Above[d] \in Folder /\ PathOf(d) \subseteq {d} \cup PathOf(Above[d])
        BY <2>3, <3>5, PathUp
      <4>2. one \in Works /\ one.at = "read" /\ one.folder = Above[d] /\ one.op = "delete"
        BY <2>3, <4>1 DEF Works
      <4>3. work' = [work EXCEPT ![c] = one]
        BY <1>3, <2>2, <2>5, <3>5 DEF RemoveFolder, Upwards
      <4> HIDE DEF one
      <4>4. work'[c] = one
        BY <1>0, <4>3
      <4>5. Above[d] \in folders'
        BY <2>5, <2>3, <3>2, <3>5 DEF Disk, Upward, Removable, IsEmpty
      <4>6. ~overlapped => Turn(c)'
        <5> SUFFICES ASSUME ~overlapped PROVE Turn(c)'
          OBVIOUS
        <5>1. \A e \in folders' : Used(e)' \/ e \in PathOf(one.folder)
          BY <2>0, <3>2, <4>1, <4>2 DEF Used
        <5> QED BY <4>2, <4>4, <4>5, <5>1 DEF Turn
      <4> QED BY <1>0, <2>3, <2>s, <3>3, <4>2, <4>3, <4>6, TurnKeeps
    <3> QED BY <3>4, <3>5
  <2> QED BY <2>4, <2>5
<1> QED BY <1>1, <1>2, <1>3

(* So do those of a download. *)
LEMMA ReadsKeep ==
    ASSUME FileInv, NEW c \in Client, AccessFile(c) \/ OpenStream(c)
    PROVE  FileInv'
<1> USE NoFileAssumption
<1>0. work \in [Client -> Works \cup {NoFile}] /\ uploaded \subseteq File /\ unlinked \subseteq File /\ UploadedStays
  BY DEF FileInv, FilesTypeOK
<1>1. PICK where \in {"first", "open"} : FileAt(c, "read", where)
  BY DEF AccessFile, OpenStream
<1>2. PICK w \in Works : w = work[c]
  BY <1>1, WorkAt
<1>3. w.at = where /\ w.op = "read" /\ (~overlapped => Turn(c)) /\ Disk /\ work[c] # NoFile
  BY <1>1, <1>2, WorkAt
<1>4. UNCHANGED <<files, folders, uploaded, unlinked, link, now, overlapped>>
  BY DEF AccessFile, OpenStream, Else
<1>5. Disk' /\ UploadedStays'
  BY <1>0, <1>3, <1>4 DEF Disk, Upward, UploadedStays
<1>6. ~overlapped => \A d \in folders' : Used(d)'
  BY <1>2, <1>3, <1>4 DEF Turn, Used
<1>7. CASE work' = [work EXCEPT ![c] = NoFile]
  BY <1>0, <1>3, <1>4, <1>5, <1>6, <1>7, TurnKeeps
<1>8. CASE work' = [work EXCEPT ![c].at = "open"]
  <2> DEFINE one == [w EXCEPT !.at = "open"]
  <2>1. one \in Works /\ one.at = "open" /\ one.op = "read"
    BY <1>3, Onward
  <2>2. work' = [work EXCEPT ![c] = one]
    BY <1>2, <1>8
  <2> HIDE DEF one
  <2>3. work'[c] = one
    BY <1>0, <2>2
  <2>4. ~overlapped => Turn(c)'
    BY <1>6, <2>1, <2>3 DEF Turn
  <2> QED BY <1>0, <1>3, <1>4, <1>5, <2>1, <2>2, <2>4, TurnKeeps
<1> QED BY <1>7, <1>8 DEF AccessFile, OpenStream, Leaves, Goes

(* Every step of the storage keeps the invariant. *)
LEMMA FileNextInv == FileInv /\ (FilesNext \/ UNCHANGED fileVars) => FileInv'
<1> SUFFICES ASSUME FileInv, FilesNext \/ UNCHANGED fileVars PROVE FileInv'
  OBVIOUS
<1>0. "upload" \in {"upload", "delete", "read"} /\ "delete" \in {"upload", "delete", "read"} /\ "read" \in {"upload", "delete", "read"}
  OBVIOUS
<1>1. ASSUME NEW c \in Client, NEW f \in File, Upload(c, f) \/ DeleteFile(c, f) \/ Read(c, f) \/ ReadByLink(c, f) PROVE FileInv'
  <2>1. UNCHANGED <<folders, files, link, now, uploaded, unlinked>>
    BY <1>1 DEF Upload, DeleteFile, Read, ReadByLink
  <2>2. Begin(c, "upload", f) \/ Begin(c, "delete", f) \/ Begin(c, "read", f)
    BY <1>1 DEF Upload, DeleteFile, Read, ReadByLink
  <2> QED BY <1>0, <2>1, <2>2, FileBeginKeeps
<1>2. ASSUME UNCHANGED <<folders, files, work, uploaded, unlinked, overlapped>>, now' \in 0..MaxNow,
             link' \in [File -> 0..(MaxNow + LinkLife) \cup {NoFile}]
      PROVE  FileInv'
  <2>1. FilesTypeOK'
    BY <1>2 DEF FileInv, FilesTypeOK
  <2>2. KeyFolders' /\ UploadedStays'
    BY <1>2 DEF FileInv, KeyFolders, UploadedStays
  <2>3. InTurn'
    BY <1>2 DEF FileInv, InTurn, Turn, Used, IsEmpty
  <2> QED BY <2>1, <2>2, <2>3 DEF FileInv
<1>3. now \in 0..MaxNow /\ link \in [File -> 0..(MaxNow + LinkLife) \cup {NoFile}] /\ MaxNow \in Nat /\ LinkLife \in Nat
  BY FilesAssumption DEF FileInv, FilesTypeOK
<1>4. ASSUME NEW f \in File, Sign(f) PROVE FileInv'
  <2>1. now + LinkLife \in 0..(MaxNow + LinkLife)
    BY <1>3
  <2>2. link' = [link EXCEPT ![f] = now + LinkLife] /\ UNCHANGED <<folders, files, work, now, uploaded, unlinked, overlapped>>
    BY <1>4 DEF Sign
  <2>3. link' \in [File -> 0..(MaxNow + LinkLife) \cup {NoFile}]
    BY <1>3, <2>1, <2>2
  <2> QED BY <1>2, <1>3, <2>2, <2>3
<1>5. CASE Pass
  <2>1. now' \in 0..MaxNow /\ UNCHANGED <<folders, files, work, link, uploaded, unlinked, overlapped>>
    BY <1>3, <1>5 DEF Pass
  <2> QED BY <1>2, <1>3, <2>1
<1>6. CASE UNCHANGED fileVars
  BY <1>2, <1>3, <1>6 DEF fileVars
<1> QED BY <1>1, <1>4, <1>5, <1>6, UploadsKeep, DeletionsKeep, ReadsKeep DEF FilesNext

(* What the invariant of the storage says of one state. *)
LEMMA FilesAsPromised == FileInv => FilesTypeOK /\ UploadedStays /\ TidyInTurn
  BY DEF FileInv, InTurn, TidyInTurn, Used

-----------------------------------------------------------------------------
(* Permissions, their cache and the last administrator (Access). *)

FillsFresh ==
    \A q \in Request : fill[q] # NoEntry /\ fill[q].of \in member /\ ~fill[q].overtaken
        => fill[q].roles = RolesOf(fill[q].of)
AccessInv == AccessTypeOK /\ FillsFresh /\ CacheTellsTheTruth

(* The cache is empty at first. *)
LEMMA AccessInitInv == AccessInit => AccessInv
<1> SUFFICES ASSUME AccessInit PROVE AccessInv
  OBVIOUS
<1> USE AdminRoleAssumption, MaxEditsAssumption, NoEntryAssumption
<1>1. PICK A \in (SUBSET Member) \ {{}} : holds = (A \X {AdminRole}) \cup ((Member \ A) \X (Role \ {AdminRole}))
  BY DEF AccessInit
<1>2. holds \subseteq member \X roles
  BY <1>1 DEF AccessInit
<1>3. grants \subseteq roles \X Permission
  BY DEF AccessInit
<1>4. AccessTypeOK
  <2>1. 0 \in 0..MaxEdits
    OBVIOUS
  <2>2. edits \in 0..MaxEdits
    BY <2>1 DEF AccessInit
  <2> QED BY <1>2, <1>3, <2>2 DEF AccessInit, AccessTypeOK
<1> QED BY <1>4 DEF AccessInit, AccessInv, FillsFresh, CacheTellsTheTruth

(* A commit keeps the cache true when it announces every member whose roles or permissions it changed. *)
LEMMA CommitKeeps ==
    ASSUME AccessInv, NEW a \in Manager, NEW M \in SUBSET Member, Commit(a, M),
           UNCHANGED <<member, cache>>,
           \A m \in Member \ M : RolesOf(m)' = RolesOf(m) /\ PermissionsOf(RolesOf(m))' = PermissionsOf(RolesOf(m))
    PROVE  /\ FillsFresh' /\ CacheTellsTheTruth'
           /\ fill' \in [Request -> Fills \cup {NoEntry}] /\ pending' \in [Manager -> SUBSET Member]
           /\ edits' \in 0..MaxEdits
<1> USE NoEntryAssumption
<1>1. /\ pending[a] = {} /\ pending' = [pending EXCEPT ![a] = M] /\ pending \in [Manager -> SUBSET Member]
      /\ fill \in [Request -> Fills \cup {NoEntry}] /\ member \subseteq Member
  BY DEF Commit, AccessInv, AccessTypeOK
<1>2. ASSUME NEW q \in Request PROVE
        /\ fill'[q] \in Fills \cup {NoEntry}
        /\ fill'[q] # NoEntry /\ fill'[q].of \in member /\ ~fill'[q].overtaken => fill'[q] = fill[q] /\ fill[q].of \notin M
  <2>1. CASE fill[q] = NoEntry \/ fill[q].of \notin M
    BY <2>1, <1>1 DEF Commit
  <2>2. CASE ~(fill[q] = NoEntry \/ fill[q].of \notin M)
    BY <2>2, <1>1 DEF Commit, Fills
  <2> QED BY <2>1, <2>2
<1>3. fill' \in [Request -> Fills \cup {NoEntry}]
  <2>1. fill' = [q \in Request |-> fill'[q]]
    BY DEF Commit
  <2> QED BY <2>1, <1>2
<1>4. FillsFresh'
  BY <1>1, <1>2 DEF FillsFresh, AccessInv
<1>5. CacheTellsTheTruth'
  <2> SUFFICES ASSUME NEW m \in member, cache[m] # NoEntry, ~cache[m].suspect
               PROVE  \/ cache[m].permissions = PermissionsOf(RolesOf(m))'
                      \/ \E b \in Manager : m \in pending'[b]
    BY DEF CacheTellsTheTruth
  <2>1. CASE m \in M
    BY <2>1, <1>1
  <2>2. CASE m \notin M
    BY <2>2, <1>1 DEF AccessInv, CacheTellsTheTruth
  <2> QED BY <2>1, <2>2
<1>6. edits' \in 0..MaxEdits
  BY MaxEditsAssumption DEF Commit, AccessInv, AccessTypeOK
<1> QED BY <1>1, <1>3, <1>4, <1>5, <1>6

(* Every step of the permissions and their cache keeps the invariant. *)
LEMMA AccessNextInv == AccessInv /\ [AccessNext]_accessVars => AccessInv'
<1> SUFFICES ASSUME AccessInv, [AccessNext]_accessVars PROVE AccessInv'
  OBVIOUS
<1> USE NoEntryAssumption DEF AccessInv
<1>t. AccessTypeOK
  OBVIOUS
<1>1. CASE UNCHANGED accessVars
  BY <1>1 DEF accessVars, AccessTypeOK, FillsFresh, CacheTellsTheTruth, RolesOf, PermissionsOf
<1>2. ASSUME NEW q \in Request, SetUserPermissions(q) PROVE AccessInv'
  <2> DEFINE m == fill[q].of
             entry == [permissions |-> PermissionsOf(fill[q].roles), suspect |-> fill[q].overtaken]
  <2>1. /\ fill[q] \in Fills /\ cache' = [cache EXCEPT ![m] = entry] /\ fill' = [fill EXCEPT ![q] = NoEntry]
        /\ UNCHANGED <<member, roles, holds, grants, pending, removing, contested, edits>>
    BY <1>2 DEF SetUserPermissions, AccessTypeOK
  <2>2. m \in Member /\ entry \in Entries /\ entry.suspect = fill[q].overtaken
        /\ entry.permissions = PermissionsOf(fill[q].roles)
    BY <2>1 DEF Fills, Entries, PermissionsOf
  <2>3. m \in member /\ ~entry.suspect => entry.permissions = PermissionsOf(RolesOf(m))
    BY <2>1, <2>2 DEF FillsFresh
  <2> HIDE DEF m, entry
  <2>4. AccessTypeOK'
    BY <2>1, <2>2 DEF AccessTypeOK
  <2>5. FillsFresh'
    BY <2>1 DEF FillsFresh, RolesOf, AccessTypeOK
  <2>6. CacheTellsTheTruth'
    BY <2>1, <2>2, <2>3 DEF CacheTellsTheTruth, RolesOf, PermissionsOf, AccessTypeOK
  <2> QED BY <2>4, <2>5, <2>6
<1>3. ASSUME NEW q \in Request, LoseFill(q) PROVE AccessInv'
  BY <1>3 DEF LoseFill, AccessTypeOK, FillsFresh, CacheTellsTheTruth, RolesOf, PermissionsOf
<1>4. ASSUME NEW q \in Request, NEW m \in Member, ReadUserRoles(q, m) PROVE AccessInv'
  <2> DEFINE one == [of |-> m, roles |-> RolesOf(m), overtaken |-> FALSE]
  <2>1. fill' = [fill EXCEPT ![q] = one] /\ UNCHANGED <<member, roles, holds, grants, cache, pending, removing, contested, edits>>
    BY <1>4 DEF ReadUserRoles
  <2>2. one \in Fills /\ one.of = m /\ one.roles = RolesOf(m)
    BY DEF Fills, RolesOf
  <2> HIDE DEF one
  <2>3. AccessTypeOK'
    BY <2>1, <2>2 DEF AccessTypeOK
  <2>4. FillsFresh'
    BY <2>1, <2>2 DEF FillsFresh, RolesOf, AccessTypeOK
  <2>5. CacheTellsTheTruth'
    BY <2>1 DEF CacheTellsTheTruth, RolesOf, PermissionsOf
  <2> QED BY <2>3, <2>4, <2>5
<1>5. ASSUME NEW m \in Member, ExpireEntry(m) PROVE AccessInv'
  BY <1>5 DEF ExpireEntry, AccessTypeOK, FillsFresh, CacheTellsTheTruth, RolesOf, PermissionsOf
<1>6. ASSUME NEW m \in Member, DeleteMember(m) PROVE AccessInv'
  <2>1. /\ member' = member \ {m} /\ holds' = {h \in holds : h[1] # m} /\ contested' \in BOOLEAN
        /\ UNCHANGED <<roles, grants, cache, fill, pending, removing, edits>>
    BY <1>6 DEF DeleteMember
  <2>2. holds' \subseteq member' \X roles'
    BY <2>1 DEF AccessTypeOK
  <2>3. AccessTypeOK'
    BY <2>1, <2>2 DEF AccessTypeOK
  <2>4. \A n \in member' : RolesOf(n)' = RolesOf(n)
    BY <2>1 DEF RolesOf
  <2>5. FillsFresh'
    BY <2>1, <2>4 DEF FillsFresh
  <2>6. \A R : PermissionsOf(R)' = PermissionsOf(R)
    BY <2>1 DEF PermissionsOf
  <2>7. CacheTellsTheTruth'
    <3> SUFFICES ASSUME NEW n \in member', cache[n] # NoEntry, ~cache[n].suspect
                 PROVE  cache[n].permissions = PermissionsOf(RolesOf(n))' \/ \E b \in Manager : n \in pending[b]
      BY <2>1 DEF CacheTellsTheTruth
    <3>1. PermissionsOf(RolesOf(n))' = PermissionsOf(RolesOf(n))
      BY <2>1, <2>4 DEF PermissionsOf
    <3> QED BY <2>1, <3>1 DEF CacheTellsTheTruth
  <2> QED BY <2>3, <2>5, <2>7
<1>7. ASSUME NEW r \in Role, CreateRole(r) PROVE AccessInv'
  BY <1>7 DEF CreateRole, AccessTypeOK, FillsFresh, CacheTellsTheTruth, RolesOf, PermissionsOf
<1>8. ASSUME NEW a \in Manager, Invalidate(a) PROVE AccessInv'
  <2>1. AccessTypeOK' /\ FillsFresh'
    BY <1>8 DEF Invalidate, AccessTypeOK, FillsFresh, RolesOf
  <2>2. CacheTellsTheTruth'
    BY <1>8 DEF Invalidate, CacheTellsTheTruth, RolesOf, PermissionsOf, AccessTypeOK
  <2> QED BY <2>1, <2>2
<1>9. ASSUME NEW a \in Manager, InvalidationLost(a) PROVE AccessInv'
  <2>1. /\ pending' = [pending EXCEPT ![a] = {}] /\ cache' = [m \in Member |-> cache'[m]]
        /\ UNCHANGED <<member, roles, holds, grants, fill, removing, contested, edits>>
    BY <1>9 DEF InvalidationLost
  <2>2. ASSUME NEW m \in Member PROVE
          /\ cache'[m] \in Entries \cup {NoEntry}
          /\ cache'[m] # NoEntry /\ ~cache'[m].suspect => cache'[m] = cache[m] /\ m \notin pending[a]
    <3>1. CASE m \notin pending[a] \/ cache[m] = NoEntry
      BY <3>1, <1>9 DEF InvalidationLost, AccessTypeOK
    <3>2. CASE ~(m \notin pending[a] \/ cache[m] = NoEntry)
      <4>1. cache[m] \in Entries /\ cache'[m] = [cache[m] EXCEPT !.suspect = TRUE]
        BY <3>2, <1>9 DEF InvalidationLost, AccessTypeOK
      <4> QED BY <4>1 DEF Entries
    <3> QED BY <3>1, <3>2
  <2>3. AccessTypeOK'
    BY <2>1, <2>2 DEF AccessTypeOK
  <2>4. FillsFresh'
    BY <2>1 DEF FillsFresh, RolesOf
  <2>5. CacheTellsTheTruth'
    <3> SUFFICES ASSUME NEW m \in member, cache'[m] # NoEntry, ~cache'[m].suspect
                 PROVE  cache'[m].permissions = PermissionsOf(RolesOf(m))' \/ \E b \in Manager : m \in pending'[b]
      BY <2>1 DEF CacheTellsTheTruth
    <3>1. m \in Member
      BY DEF AccessTypeOK
    <3>2. PermissionsOf(RolesOf(m))' = PermissionsOf(RolesOf(m))
      BY <2>1 DEF PermissionsOf, RolesOf
    <3>3. \A b \in Manager : m \in pending[b] => m \in pending'[b]
      BY <2>1, <2>2, <3>1 DEF AccessTypeOK
    <3> QED BY <2>2, <3>1, <3>2, <3>3 DEF CacheTellsTheTruth
  <2> QED BY <2>3, <2>4, <2>5
<1>10. ASSUME NEW a \in Manager, RemoveNothing(a) \/ \E m \in Member : CountHolders(a, m) PROVE AccessInv'
  <2>1. /\ removing' \in [Manager -> Member \cup {NoEntry}] /\ contested' \in BOOLEAN
        /\ UNCHANGED <<member, roles, holds, grants, cache, fill, pending, edits>>
    BY <1>10 DEF RemoveNothing, CountHolders, AccessTypeOK
  <2> QED BY <2>1 DEF AccessTypeOK, FillsFresh, CacheTellsTheTruth, RolesOf, PermissionsOf
<1>11. ASSUME NEW a \in Manager, NEW m \in Member, NEW r \in Role,
              \/ AssignRole(a, m, r) \/ RemoveRole(a, m, r) 
              \/ RemoveAdminRole(a) /\ m = removing[a] /\ r = AdminRole
       PROVE  AccessInv'
  <2>1. /\ m \in member /\ r \in roles
        /\ holds' = holds \cup {<<m, r>>} \/ holds' = holds \ {<<m, r>>}
        /\ Commit(a, {m}) /\ removing' \in [Manager -> Member \cup {NoEntry}]
    <3>1. CASE AssignRole(a, m, r)
      BY <3>1 DEF AssignRole, AccessTypeOK
    <3>2. CASE RemoveRole(a, m, r)
      BY <3>2 DEF RemoveRole, AccessTypeOK
    <3>3. CASE RemoveAdminRole(a) /\ m = removing[a] /\ r = AdminRole
      <4>1. <<m, r>> \in holds
        BY <3>3 DEF RemoveAdminRole
      <4>2. m \in member /\ r \in roles
        BY <4>1 DEF AccessTypeOK
      <4>3. removing' \in [Manager -> Member \cup {NoEntry}]
        BY <3>3 DEF RemoveAdminRole, AccessTypeOK
      <4> QED BY <3>3, <4>2, <4>3 DEF RemoveAdminRole
    <3> QED BY <1>11, <3>1, <3>2, <3>3
  <2>2. UNCHANGED <<member, roles, grants, cache, contested>>
    BY <1>11 DEF AssignRole, RemoveRole, RemoveAdminRole
  <2>3. \A n \in Member \ {m} : RolesOf(n)' = RolesOf(n)
    BY <2>1 DEF RolesOf
  <2>4. \A n \in Member \ {m} : PermissionsOf(RolesOf(n))' = PermissionsOf(RolesOf(n))
    BY <2>2, <2>3 DEF PermissionsOf
  <2>5. /\ FillsFresh' /\ CacheTellsTheTruth'
        /\ fill' \in [Request -> Fills \cup {NoEntry}] /\ pending' \in [Manager -> SUBSET Member] /\ edits' \in 0..MaxEdits
    BY <2>1, <2>2, <2>3, <2>4, CommitKeeps
  <2>6. holds' \subseteq member' \X roles'
    BY <2>1, <2>2 DEF AccessTypeOK
  <2> QED BY <2>1, <2>2, <2>5, <2>6 DEF AccessTypeOK
<1>12. ASSUME NEW a \in Manager, NEW r \in Role, DeleteRole(a, r) \/ \E P \in SUBSET Permission : ReplacePermissions(a, r, P)
       PROVE  AccessInv'
  <2>1. Commit(a, Member) /\ UNCHANGED <<member, cache, removing, contested>>
    BY <1>12 DEF DeleteRole, ReplacePermissions
  <2>2. roles' \subseteq Role /\ holds' \subseteq member' \X roles' /\ grants' \subseteq roles' \X Permission
    <3>1. CASE DeleteRole(a, r)
      BY <3>1 DEF DeleteRole, AccessTypeOK
    <3>2. ASSUME NEW P \in SUBSET Permission, ReplacePermissions(a, r, P)
          PROVE  roles' \subseteq Role /\ holds' \subseteq member' \X roles' /\ grants' \subseteq roles' \X Permission
      BY <3>2 DEF ReplacePermissions, AccessTypeOK
    <3> QED BY <1>12, <3>1, <3>2
  <2>3. /\ FillsFresh' /\ CacheTellsTheTruth'
        /\ fill' \in [Request -> Fills \cup {NoEntry}] /\ pending' \in [Manager -> SUBSET Member] /\ edits' \in 0..MaxEdits
    BY <2>1, CommitKeeps
  <2> QED BY <2>1, <2>2, <2>3 DEF AccessTypeOK
<1>13. ASSUME NEW a \in Manager, RemoveAdminRole(a) PROVE AccessInv'
  <2>1. removing[a] \in Member
    BY <1>13 DEF RemoveAdminRole, AccessTypeOK
  <2> QED BY <2>1, <1>11, <1>13, AdminRoleAssumption
<1> QED BY <1>1, <1>2, <1>3, <1>4, <1>5, <1>6, <1>7, <1>8, <1>9, <1>10, <1>11, <1>12, <1>13 DEF AccessNext

SomeTwo(S) == \E x, y \in S : x # y
(* While removals do not contend, one of them at most has counted, and what it counted was two. *)
AdminInv ==
    ~contested =>
        /\ Holders(AdminRole) # {}
        /\ \A a, b \in Manager : removing[a] # NoEntry /\ removing[b] # NoEntry => a = b
        /\ \A a \in Manager : removing[a] # NoEntry => SomeTwo(Holders(AdminRole))

(* A count above one is two members. *)
LEMMA MoreThanOne ==
    ASSUME NEW S, IsFiniteSet(S), Cardinality(S) > 1
    PROVE  SomeTwo(S)
<1>1. S # {}
  BY FS_EmptySet
<1>2. PICK x \in S : TRUE
  BY <1>1
<1>3. S # {x}
  BY FS_Singleton
<1> QED BY <1>2, <1>3 DEF SomeTwo

(* There is an administrator at first. *)
LEMMA AdminInitInv == AccessInit => AdminInv
<1> SUFFICES ASSUME AccessInit PROVE AdminInv
  OBVIOUS
<1>1. PICK A \in (SUBSET Member) \ {{}} : holds = (A \X {AdminRole}) \cup ((Member \ A) \X (Role \ {AdminRole}))
  BY DEF AccessInit
<1>2. PICK m \in A : m \in Member
  BY <1>1
<1>3. m \in Holders(AdminRole)
  BY <1>1, <1>2 DEF Holders
<1> QED BY <1>3 DEF AccessInit, AdminInv

(* Every step leaves an administrator unless two requests overlapped. *)
LEMMA AdminNextInv ==
    ASSUME IsFiniteSet(Member), AccessInv, AdminInv, [AccessNext]_accessVars
    PROVE  AdminInv'
<1> USE NoEntryAssumption
<1>1. CASE UNCHANGED <<holds, removing, contested>>
  BY <1>1 DEF AdminInv, Holders
<1>2. ASSUME NEW m \in Member, DeleteMember(m) PROVE AdminInv'
  <2>1. holds' = {h \in holds : h[1] # m} /\ removing' = removing /\ contested' = (contested \/ <<m, AdminRole>> \in holds)
    BY <1>2 DEF DeleteMember
  <2>2. ~contested' => Holders(AdminRole)' = Holders(AdminRole)
    BY <2>1 DEF Holders
  <2> QED BY <2>1, <2>2 DEF AdminInv
<1>3. ASSUME NEW a \in Manager, RemoveNothing(a) PROVE AdminInv'
  BY <1>3 DEF RemoveNothing, AdminInv, Holders, AccessInv, AccessTypeOK
<1>4. ASSUME NEW a \in Manager, NEW m \in Member, CountHolders(a, m) PROVE AdminInv'
  <2>1. IsFiniteSet(Holders(AdminRole))
    BY FS_Subset DEF Holders
  <2>2. SomeTwo(Holders(AdminRole)) /\ Holders(AdminRole)' = Holders(AdminRole)
    BY <1>4, <2>1, MoreThanOne DEF CountHolders, Holders
  <2> QED BY <1>4, <2>2 DEF CountHolders, AdminInv, AccessInv, AccessTypeOK
<1>5. ASSUME NEW a \in Manager, RemoveAdminRole(a) PROVE AdminInv'
  <2>1. /\ removing[a] # NoEntry /\ holds' = holds \ {<<removing[a], AdminRole>>}
        /\ removing' = [removing EXCEPT ![a] = NoEntry] /\ contested' = contested
    BY <1>5 DEF RemoveAdminRole
  <2>2. Holders(AdminRole)' = Holders(AdminRole) \ {removing[a]}
    BY <2>1 DEF Holders
  <2>3. ~contested => Holders(AdminRole)' # {} /\ \A b \in Manager : removing'[b] = NoEntry
    BY <2>1, <2>2 DEF AdminInv, SomeTwo, AccessInv, AccessTypeOK
  <2> QED BY <2>1, <2>3 DEF AdminInv
<1>6. ASSUME NEW a \in Manager, NEW m \in Member, NEW r \in Role, AssignRole(a, m, r) PROVE AdminInv'
  <2>1. holds' = holds \cup {<<m, r>>} /\ UNCHANGED <<removing, contested>>
    BY <1>6 DEF AssignRole
  <2>2. Holders(AdminRole) \subseteq Holders(AdminRole)'
    BY <2>1 DEF Holders
  <2> QED BY <2>1, <2>2 DEF AdminInv, SomeTwo
<1>7. ASSUME NEW a \in Manager, NEW m \in Member, NEW r \in Role, RemoveRole(a, m, r) PROVE AdminInv'
  <2>1. holds' = holds \ {<<m, r>>} /\ UNCHANGED <<removing, contested>> /\ r # AdminRole
    BY <1>7 DEF RemoveRole
  <2>2. Holders(AdminRole) = Holders(AdminRole)'
    BY <2>1 DEF Holders
  <2> QED BY <2>1, <2>2 DEF AdminInv
<1>8. ASSUME NEW a \in Manager, NEW r \in Role, DeleteRole(a, r) PROVE AdminInv'
  <2>1. holds' = {h \in holds : h[2] # r} /\ UNCHANGED <<removing, contested>> /\ r # AdminRole
    BY <1>8 DEF DeleteRole
  <2>2. Holders(AdminRole) = Holders(AdminRole)'
    BY <2>1 DEF Holders
  <2> QED BY <2>1, <2>2 DEF AdminInv
<1>9. CASE AccessNext
  <2>1. ASSUME NEW a \in Manager, NEW r \in Role, NEW P, ReplacePermissions(a, r, P) PROVE AdminInv'
    BY <1>1, <2>1 DEF ReplacePermissions
  <2>2. ASSUME NEW a \in Manager, Invalidate(a) \/ InvalidationLost(a) PROVE AdminInv'
    BY <1>1, <2>2 DEF Invalidate, InvalidationLost
  <2>3. ASSUME NEW r, CreateRole(r) PROVE AdminInv'
    BY <1>1, <2>3 DEF CreateRole
  <2>4. ASSUME NEW m, ExpireEntry(m) PROVE AdminInv'
    BY <1>1, <2>4 DEF ExpireEntry
  <2>5. ASSUME NEW q, SetUserPermissions(q) \/ LoseFill(q) \/ \E m \in Member : ReadUserRoles(q, m) PROVE AdminInv'
    BY <1>1, <2>5 DEF SetUserPermissions, LoseFill, ReadUserRoles
  <2> QED BY <1>9, <1>2, <1>3, <1>4, <1>5, <1>6, <1>7, <1>8, <2>1, <2>2, <2>3, <2>4, <2>5 DEF AccessNext
<1> QED BY <1>1, <1>9 DEF accessVars

(* The invariant is stronger than what is promised. *)
LEMMA AdminRemains == AdminInv => SomebodyIsAdmin
  BY DEF AdminInv, SomebodyIsAdmin
-----------------------------------------------------------------------------
(* The parts together: a step is a step of one part, and leaves the others alone. *)
JobsInv == QueueInv /\ ReportInv /\ ScheduleInv /\ NoticeInv /\ FileInv /\ AccessInv

(* The invariant holds at first, *)
LEMMA JobsInitInv == JobsInit => JobsInv
  BY QueueInitInv, ReportInitInv, ScheduleInitInv, NoticeInitInv, FileInitInv, AccessInitInv DEF JobsInit, JobsInv

(* Each part takes a step of its own or none. *)
LEMMA StepsOfParts ==
    ASSUME [JobsNext]_allVars
    PROVE  /\ [QueueNext]_queueVars /\ [ReportsNext]_reportVars /\ [SchedulesNext]_scheduleVars
           /\ [NoticesNext]_noticeVars /\ [FilesNext]_fileVars /\ [AccessNext]_accessVars
  BY DEF JobsNext, allVars

(* is kept by every step, *)
LEMMA JobsNextInv == JobsInv /\ [JobsNext]_allVars => JobsInv'
<1> SUFFICES ASSUME JobsInv, [JobsNext]_allVars PROVE JobsInv'
  OBVIOUS
<1>1. /\ [QueueNext]_queueVars /\ [ReportsNext]_reportVars /\ [SchedulesNext]_scheduleVars
      /\ [NoticesNext]_noticeVars /\ [FilesNext]_fileVars /\ [AccessNext]_accessVars
  BY StepsOfParts
<1>2. QueueInv' /\ ReportInv' /\ ScheduleInv'
  BY <1>1, QueueNextInv, ReportNextInv, ScheduleNextInv DEF JobsInv
<1>3. NoticeInv' /\ FileInv' /\ AccessInv'
  BY <1>1, NoticeNextInv, FileNextInv, AccessNextInv DEF JobsInv
<1> QED BY <1>2, <1>3 DEF JobsInv

(* and so holds always. *)
LEMMA JobsAlways == JobsSpec => []JobsInv
<1>1. JobsSpec => JobsInit /\ [][JobsNext]_allVars
  BY DEF JobsSpec
<1> QED BY <1>1, JobsInitInv, JobsNextInv, PTL

(* Jobs, reports, schedules, notices, files and cache entries have the values of the code, whatever is tried again,
   fails or dies. *)
THEOREM JobsTypes == JobsSpec => []JobsTypeOK
<1>1. JobsInv => JobsTypeOK
  BY ReportsAsTyped, NoticesAsPromised, FilesAsPromised DEF JobsInv, JobsTypeOK, QueueInv, ScheduleInv, AccessInv
<1> QED BY <1>1, JobsAlways, PTL

(* A job is tried as often as its options say, a period has one report, and a notification that is not loose one row:
   DoneOnce, for any number of jobs, ticks and deliveries. *)
THEOREM RetriesAreNotRepeats == JobsSpec => []DoneOnce
<1>1. JobsInv => DoneOnce
  BY QueueIsWithinReason, AskedAsPromised, NoticesAsPromised DEF JobsInv, DoneOnce
<1> QED BY <1>1, JobsAlways, PTL

(* A COMPLETED report has its file, a report comes from a schedule that is on, a preference is the one chosen last, an
   uploaded file stays until it is deleted and takes its folders with it: ShownIsSo, for any tree of folders. *)
THEOREM WhatIsShownIsSo == JobsSpec => []ShownIsSo
<1>1. JobsInv => ShownIsSo
  BY ReportsAsTyped, AskedAsPromised, NoticesAsPromised, FilesAsPromised DEF JobsInv, ShownIsSo
<1> QED BY <1>1, JobsAlways, PTL

(* An entry of the permission cache that nothing is about to invalidate says what the tables say, for any number of
   members, roles, managers and requests (CacheTellsTheTruth). *)
THEOREM TheCacheIsTrue == JobsSpec => []CacheTellsTheTruth
<1>1. JobsInv => CacheTellsTheTruth
  BY DEF JobsInv, AccessInv
<1> QED BY <1>1, JobsAlways, PTL

(* A tenant keeps an administrator as long as no two of them are taken away at once (SomebodyIsAdmin). *)
THEOREM AnAdminRemains == ASSUME IsFiniteSet(Member) PROVE JobsSpec => []SomebodyIsAdmin
<1>1. JobsInit => AdminInv
  BY AdminInitInv DEF JobsInit
<1>2. JobsInv /\ AdminInv /\ [JobsNext]_allVars => AdminInv'
  BY StepsOfParts, AdminNextInv DEF JobsInv
<1>3. JobsSpec => JobsInit /\ [][JobsNext]_allVars
  BY DEF JobsSpec
<1>4. JobsSpec => []AdminInv
  BY <1>1, <1>2, <1>3, JobsAlways, PTL
<1> QED BY <1>4, AdminRemains, PTL

(* No step stops a job half-way without a death or the deadline of the shutdown, and none announces a report again
   that is ready, or takes it back (NothingRedone). *)
THEOREM NothingIsRedone == JobsSpec => NothingRedone
<1>1. JobsInv /\ [JobsNext]_allVars => [CutsNothingShort]_queueVars
  BY StepsOfParts, QueueStepCutsNothing DEF JobsInv
<1>2. JobsInv /\ [JobsNext]_allVars => [ReadyStep]_<<row, told>>
  <2> SUFFICES ASSUME JobsInv, [JobsNext]_allVars PROVE [ReadyStep]_<<row, told>>
    OBVIOUS
  <2>1. [ReportsNext]_reportVars /\ ReportInv
    BY StepsOfParts DEF JobsInv
  <2>2. CASE ReportsNext
    BY <2>1, <2>2, ReadyStaysReady
  <2>3. CASE UNCHANGED reportVars
    BY <2>3 DEF reportVars
  <2> QED BY <2>1, <2>2, <2>3
<1>3. JobsSpec => [][JobsNext]_allVars
  BY DEF JobsSpec
<1>4. JobsSpec => [][CutsNothingShort]_queueVars
  BY <1>1, <1>3, JobsAlways, PTL
<1>5. JobsSpec => [][ReadyStep]_<<row, told>>
  BY <1>2, <1>3, JobsAlways, PTL
<1>6. NothingRedone <=> [][CutsNothingShort]_queueVars /\ [][ReadyStep]_<<row, told>>
  BY DEF NothingRedone, NothingCutShort, ReadyOnce, CutsNothingShort, ReadyStep
<1> QED BY <1>4, <1>5, <1>6

=============================================================================
