------------------------------- MODULE Reports -------------------------------
(***************************************************************************)
(* The life of reports: requested, generated by a worker, stored, told to  *)
(* the recipients of its schedule, and pruned with its file.  Below them,  *)
(* their schedules: which period was claimed last, and the hourly tick     *)
(* that requests the reports that are due (ReportScheduleService).         *)
(*                                                                         *)
(* The queue may deliver a task again while its first worker is still at    *)
(* it: when the worker stalls or dies, BullMQ takes the job away, once;    *)
(* a task that stalls again is abandoned.  `course` marks the reports that  *)
(* two deliveries worked on at the same time, and those that a worker left *)
(* unfinished, by dying, when their task was no longer its own.             *)
(*                                                                         *)
(* Ticks may overlap (a tick that stalls is run again) and may die at any  *)
(* point.  The periods of a schedule are numbered; `period` is the latest  *)
(* that has ended.  A period's report is `asked` for by creating a report  *)
(* row.                                                                    *)
(***************************************************************************)
EXTENDS Naturals, FiniteSets

CONSTANTS
    Report, Worker,
    Scheduled,   \* the reports that a schedule requests
    MaxFaults,   \* bound on stalls, deaths and files that cannot be deleted
    NoReport

ASSUME ScheduledAssumption == Scheduled \subseteq Report
ASSUME MaxFaultsAssumption == MaxFaults \in Nat

Attempts == 2   \* DEFAULT_JOB_OPTIONS.report.attempts

VARIABLES
    row,        \* report rows: status, storageKey recorded, older than the retention
    stored,     \* files in the storage of the tenant
    task,        \* report-<id>
    worker,     \* generations in progress
    pruning,    \* processPruneReports in progress: rows found, those to delete
    told,       \* mails to the recipients
    course,     \* see above
    faults

reportVars == <<row, stored, task, worker, pruning, told, course, faults>>

Statuses == {"PENDING", "PROCESSING", "COMPLETED", "FAILED"}
RowsOfReports == [status : Statuses \cup {"none", "deleted"}, key : BOOLEAN, old : BOOLEAN]
JobsOfReports == [at : {"none", "unsent", "lost", "waiting", "active", "ended", "abandoned"},
                  attempt : 0..Attempts, stalls : 0..1]
Steps == {"find", "process", "build", "complete", "notify", "fail"}
Generations == [of : Report, at : Steps, owner : BOOLEAN]
Prunings == [found : SUBSET Report, removable : SUBSET Report]
ASSUME NoReportAssumption == NoReport \notin Generations \cup Prunings

Exists(r) == row[r].status \in Statuses
Faulty == faults < MaxFaults /\ faults' = faults + 1

ReportsInit ==
    /\ row = [r \in Report |-> [status |-> "none", key |-> FALSE, old |-> FALSE]]
    /\ stored = {} /\ worker = [w \in Worker |-> NoReport]
    /\ task = [r \in Report |-> [at |-> "none", attempt |-> 0, stalls |-> 0]]
    /\ pruning = NoReport /\ told = [r \in Report |-> 0]
    /\ course = [r \in Report |-> "straight"] /\ faults = 0

-----------------------------------------------------------------------------
(* ReportService.request commits the row and its audit entry, then enqueues. *)
RequestReport(r) ==
    /\ row[r].status = "none"
    /\ row' = [row EXCEPT ![r].status = "PENDING"]
    /\ task' = [task EXCEPT ![r].at = "unsent"]
    /\ UNCHANGED <<stored, worker, pruning, told, course, faults>>
(* enqueueReport: one task per report. *)
EnqueueReport(r) ==
    /\ task[r].at = "unsent"
    /\ task' = [task EXCEPT ![r].at = "waiting"]
    /\ UNCHANGED <<row, stored, worker, pruning, told, course, faults>>
(* Without Redis the request generates the report itself, once, and answers with what became of it. *)
GenerateInline(w, r) ==
    /\ task[r].at = "unsent" /\ worker[w] = NoReport
    /\ task' = [task EXCEPT ![r].at = "ended"]
    /\ worker' = [worker EXCEPT ![w] = [of |-> r, at |-> "find", owner |-> FALSE]]
    /\ UNCHANGED <<row, stored, pruning, told, course, faults>>
(* queue.add fails, or the server stops first: the row stays. *)
EnqueueLost(r) ==
    /\ task[r].at = "unsent"
    /\ task' = [task EXCEPT ![r].at = "lost"]
    /\ UNCHANGED <<row, stored, worker, pruning, told, course, faults>>

DeliverReport(w, r) ==
    /\ task[r].at = "waiting" /\ worker[w] = NoReport
    /\ task' = [task EXCEPT ![r].at = "active"]
    /\ worker' = [worker EXCEPT ![w] = [of |-> r, at |-> "find", owner |-> TRUE]]
    /\ course' = IF course[r] = "straight" /\ ~\A v \in Worker : worker[v] # NoReport => worker[v].of # r
                 THEN [course EXCEPT ![r] = "overlapped"] ELSE course
    /\ UNCHANGED <<row, stored, pruning, told, faults>>

(* A worker returns (fine) or throws; only the task's owner settles it. *)
Settle(w, fine) ==
    LET r == worker[w].of
        attempt == task[r].attempt + 1
    IN /\ worker' = [worker EXCEPT ![w] = NoReport]
       /\ task' = IF ~worker[w].owner THEN task
                 ELSE [task EXCEPT ![r] = IF fine THEN [@ EXCEPT !.at = "ended"]
                          ELSE [@ EXCEPT !.at = IF attempt < Attempts THEN "waiting" ELSE "ended",
                                         !.attempt = attempt]]
Goto(w, step) == worker' = [worker EXCEPT ![w].at = step] /\ UNCHANGED task
At(w, step) == worker[w] # NoReport /\ worker[w].at = step

(* ReportService.generate, statement by statement. *)
FindAgain(w) ==
    /\ At(w, "find")
    /\ IF Exists(worker[w].of) THEN Goto(w, "process") ELSE Settle(w, TRUE)
    /\ UNCHANGED <<row, stored, pruning, told, course, faults>>
FindReport(w) ==
    /\ At(w, "find")
    /\ IF Exists(worker[w].of) /\ row[worker[w].of].status # "COMPLETED" THEN Goto(w, "process")
                                                                      ELSE Settle(w, TRUE)
    /\ UNCHANGED <<row, stored, pruning, told, course, faults>>
StartProcessing(w) ==
    /\ At(w, "process")
    /\ IF Exists(worker[w].of)
       THEN row' = [row EXCEPT ![worker[w].of].status = "PROCESSING"] /\ Goto(w, "build")
       ELSE UNCHANGED row /\ Settle(w, FALSE)
    /\ UNCHANGED <<stored, pruning, told, course, faults>>
BuildUnstored(w) ==
    /\ At(w, "build")
    /\ Goto(w, "complete")
    /\ UNCHANGED <<row, stored, pruning, told, course, faults>>
BuildAndUpload(w) ==
    /\ At(w, "build")
    /\ stored' = stored \cup {worker[w].of}
    /\ Goto(w, "complete")
    /\ UNCHANGED <<row, pruning, told, course, faults>>
BuildFails(w) == \* too many rows, the database, or the storage
    /\ At(w, "build")
    /\ Goto(w, "fail")
    /\ UNCHANGED <<row, stored, pruning, told, course, faults>>
CompleteReport(w) ==
    LET r == worker[w].of IN
    /\ At(w, "complete")
    /\ IF Exists(r)
       THEN /\ row' = [row EXCEPT ![r] = [status |-> "COMPLETED", key |-> TRUE, old |-> row[r].old]]
            /\ IF r \in Scheduled THEN Goto(w, "notify") ELSE Settle(w, TRUE)
       ELSE UNCHANGED row /\ Goto(w, "fail")
    /\ UNCHANGED <<stored, pruning, told, course, faults>>
(* ReportScheduleService.notifyRecipients: whatever fails in it is only logged. *)
NotifyRecipients(w) ==
    /\ At(w, "notify")
    /\ told' = [told EXCEPT ![worker[w].of] = @ + 1]
    /\ Settle(w, TRUE)
    /\ UNCHANGED <<row, stored, pruning, course, faults>>
ThrowOnly(w) ==
    /\ At(w, "fail")
    /\ Settle(w, FALSE)
    /\ UNCHANGED <<row, stored, pruning, told, course, faults>>
RecordFailure(w) ==
    LET r == worker[w].of IN
    /\ At(w, "fail")
    /\ row' = IF Exists(r) THEN [row EXCEPT ![r].status = "FAILED"] ELSE row
    /\ Settle(w, FALSE)
    /\ UNCHANGED <<stored, pruning, told, course, faults>>

Taken(r) == IF task[r].stalls < 1 THEN [task[r] EXCEPT !.at = "waiting", !.stalls = 1]
                                 ELSE [task[r] EXCEPT !.at = "abandoned"]
(* The worker misses its lock for thirty seconds and goes on: the task is no longer its own. *)
Stall(w) ==
    /\ worker[w] # NoReport /\ worker[w].owner /\ Faulty
    /\ task' = [task EXCEPT ![worker[w].of] = Taken(worker[w].of)]
    /\ worker' = [worker EXCEPT ![w].owner = FALSE]
    /\ UNCHANGED <<row, stored, pruning, told, course>>
(* Its process dies.  A report generated inline has no task to try it again. *)
WorkerDies(w) ==
    /\ worker[w] # NoReport /\ Faulty
    /\ IF worker[w].owner
       THEN task' = [task EXCEPT ![worker[w].of] = Taken(worker[w].of)] /\ UNCHANGED course
       ELSE course' = [course EXCEPT ![worker[w].of] = "deserted"] /\ UNCHANGED task
    /\ worker' = [worker EXCEPT ![w] = NoReport]
    /\ UNCHANGED <<row, stored, pruning, told>>

-----------------------------------------------------------------------------
(* ReportService.prune: REPORT_RETENTION_DAYS pass; the old rows; their files; the rows again. *)
Age(r) ==
    /\ Exists(r) /\ ~row[r].old
    /\ row' = [row EXCEPT ![r].old = TRUE]
    /\ UNCHANGED <<stored, task, worker, pruning, told, course, faults>>
FindEverything ==
    LET batch == {r \in Report : Exists(r)} IN
    /\ pruning = NoReport /\ batch # {}
    /\ pruning' = [found |-> {r \in batch : row[r].key}, removable |-> {r \in batch : ~row[r].key}]
    /\ UNCHANGED <<row, stored, task, worker, told, course, faults>>
FindOld ==
    LET batch == {r \in Report : Exists(r) /\ row[r].old} IN
    /\ pruning = NoReport /\ batch # {}
    /\ pruning' = [found |-> {r \in batch : row[r].key}, removable |-> {r \in batch : ~row[r].key}]
    /\ UNCHANGED <<row, stored, task, worker, told, course, faults>>
DeleteReportFile(r) ==
    /\ pruning # NoReport /\ r \in pruning.found
    /\ stored' = stored \ {r}
    /\ pruning' = [found |-> pruning.found \ {r}, removable |-> pruning.removable \cup {r}]
    /\ UNCHANGED <<row, task, worker, told, course, faults>>
KeepReportFile(r) == \* the storage refuses: the row stays for the next night
    /\ pruning # NoReport /\ r \in pruning.found /\ Faulty
    /\ pruning' = [pruning EXCEPT !.found = @ \ {r}]
    /\ UNCHANGED <<row, stored, task, worker, told, course>>
DeleteRows ==
    /\ pruning # NoReport /\ pruning.found = {}
    /\ row' = [r \in Report |-> IF r \in pruning.removable THEN [row[r] EXCEPT !.status = "deleted"] ELSE row[r]]
    /\ pruning' = NoReport
    /\ UNCHANGED <<stored, task, worker, told, course, faults>>
PruneDies ==
    /\ pruning # NoReport /\ Faulty
    /\ pruning' = NoReport
    /\ UNCHANGED <<row, stored, task, worker, told, course>>

WorkerStep(w) ==
    \/ FindReport(w) \/ StartProcessing(w) \/ BuildAndUpload(w) \/ BuildFails(w)
    \/ CompleteReport(w) \/ NotifyRecipients(w) \/ RecordFailure(w)
Deliver(r) == \E w \in Worker : DeliverReport(w, r)

ReportsNext ==
    \/ \E w \in Worker : WorkerStep(w) \/ Stall(w) \/ WorkerDies(w) \/ \E r \in Report : GenerateInline(w, r)
    \/ \E r \in Report : \/ RequestReport(r) \/ EnqueueReport(r) \/ EnqueueLost(r) \/ Deliver(r)
                         \/ Age(r) \/ DeleteReportFile(r) \/ KeepReportFile(r)
    \/ FindOld \/ DeleteRows \/ PruneDies

ReportsSpec == ReportsInit /\ [][ReportsNext]_reportVars

-----------------------------------------------------------------------------
(* Rows, files, jobs, workers and the pruning have the values of the schema and the queue; an active
   task has one owner, and nobody has started on a PENDING report's file. *)
ReportsTypeOK ==
    /\ row \in [Report -> RowsOfReports] /\ stored \subseteq Report
    /\ task \in [Report -> JobsOfReports]
    /\ worker \in [Worker -> Generations \cup {NoReport}]
    /\ pruning \in Prunings \cup {NoReport}
    /\ told \in [Report -> Nat] /\ faults \in 0..MaxFaults
    /\ course \in [Report -> {"straight", "overlapped", "deserted"}]
    /\ \A r \in Report :
        Cardinality({w \in Worker : worker[w] # NoReport /\ worker[w].of = r /\ worker[w].owner})
            = IF task[r].at = "active" THEN 1 ELSE 0
    /\ \A r \in Report : row[r].status = "PENDING" => r \notin stored /\ told[r] = 0

(* download signs a link to the file of any COMPLETED report (ReportService.download): until the
   retention is over the file is there, whatever failed, stalled or was pruned meanwhile. *)
CompletedHasFile ==
    \A r \in Report : row[r].status = "COMPLETED" /\ ~row[r].old => r \in stored

(* A report that is ready stays ready, and its recipients hear of it at most once, however often its
   task comes again (generate skips a COMPLETED report): true unless two deliveries overlapped. *)
ReadyOnce ==
    [][\A r \in Report : course[r] = "straight" =>
          /\ row[r].status = "COMPLETED" => row'[r].status \in {"COMPLETED", "deleted"}
          /\ told'[r] <= 1]_<<row, told>>

(* A report that reached the queue, or was generated without it, is in the end ready, failed or gone,
   and not PROCESSING for ever: unless its task was
   abandoned, or a worker died at it that was not the owner of its task. *)
EveryReportEnds ==
    \A r \in Report :
        <>[](\/ task[r].at \in {"none", "lost", "abandoned"} \/ course[r] = "deserted"
             \/ row[r].status \in {"none", "COMPLETED", "FAILED", "deleted"})

-----------------------------------------------------------------------------
CONSTANTS
    Schedule, Tick,
    MaxPeriod,   \* bound on the periods that end
    MaxTrouble,  \* bound on edits, errors and deaths
    NoTick

ASSUME PeriodAssumption == MaxPeriod \in Nat /\ MaxTrouble \in Nat

VARIABLES
    schedule,  \* rows: exists, enabled, lastPeriod
    creator,   \* schedules whose creator is active and may read the data
    period,
    ticking,   \* ticks in progress: now, the schedules due with the lastPeriod read, the one claimed
    asked,     \* reports requested per schedule and period
    on,        \* <<schedule, period>>: the schedule was on when the period ended
    trouble

scheduleVars == <<schedule, creator, period, ticking, asked, on, trouble>>

ScheduleRows == [exists : BOOLEAN, enabled : BOOLEAN, last : 0..MaxPeriod]
Ticks == [now : 0..MaxPeriod, due : SUBSET Schedule, last : [Schedule -> 0..MaxPeriod],
          claimed : Schedule \cup {NoTick}]
ASSUME NoTickAssumption == NoTick \notin Schedule \cup Ticks
Enabled(s) == schedule[s].exists /\ schedule[s].enabled
Troubled == trouble < MaxTrouble /\ trouble' = trouble + 1

SchedulesInit ==
    /\ schedule = [s \in Schedule |-> [exists |-> FALSE, enabled |-> FALSE, last |-> 0]]
    /\ creator = Schedule /\ period = 0
    /\ ticking = [t \in Tick |-> NoTick]
    /\ asked = [s \in Schedule |-> [p \in 0..MaxPeriod |-> 0]]
    /\ on = {} /\ trouble = 0

-----------------------------------------------------------------------------
(* latestCompletedPeriod moves on. *)
PeriodEnds ==
    /\ period < MaxPeriod
    /\ period' = period + 1
    /\ on' = on \cup {<<s, period + 1>> : s \in {s \in Schedule : Enabled(s)}}
    /\ UNCHANGED <<schedule, creator, ticking, asked, trouble>>

(* create: the first report covers the next period to end. *)
CreateFromTheStart(s) ==
    /\ ~schedule[s].exists /\ asked[s] = [p \in 0..MaxPeriod |-> 0]
    /\ schedule' = [schedule EXCEPT ![s] = [exists |-> TRUE, enabled |-> TRUE, last |-> 0]]
    /\ UNCHANGED <<creator, period, ticking, asked, on, trouble>>
CreateSchedule(s) ==
    /\ ~schedule[s].exists /\ asked[s] = [p \in 0..MaxPeriod |-> 0]
    /\ s \in creator
    /\ \E enabled \in BOOLEAN :
          schedule' = [schedule EXCEPT ![s] = [exists |-> TRUE, enabled |-> enabled, last |-> period]]
    /\ UNCHANGED <<creator, period, ticking, asked, on, trouble>>
(* update with enabled, or with another frequency: both forget the periods that have ended. *)
SwitchOff(s) ==
    /\ Enabled(s) /\ Troubled
    /\ schedule' = [schedule EXCEPT ![s].enabled = FALSE]
    /\ UNCHANGED <<creator, period, ticking, asked, on>>
SwitchBackOn(s) ==
    /\ schedule[s].exists /\ ~schedule[s].enabled
    /\ schedule' = [schedule EXCEPT ![s].enabled = TRUE]
    /\ UNCHANGED <<creator, period, ticking, asked, on, trouble>>
SwitchOn(s) ==
    /\ schedule[s].exists /\ ~schedule[s].enabled
    /\ schedule' = [schedule EXCEPT ![s] = [exists |-> TRUE, enabled |-> TRUE, last |-> period]]
    /\ UNCHANGED <<creator, period, ticking, asked, on, trouble>>
ChangeFrequency(s) ==
    /\ schedule[s].exists /\ schedule[s].last # period /\ Troubled
    /\ schedule' = [schedule EXCEPT ![s].last = period]
    /\ UNCHANGED <<creator, period, ticking, asked, on>>
RemoveSchedule(s) ==
    /\ schedule[s].exists /\ Troubled
    /\ schedule' = [schedule EXCEPT ![s].exists = FALSE]
    /\ UNCHANGED <<creator, period, ticking, asked, on>>
(* The creator is suspended or loses the permission, or gets it back. *)
CreatorChanges(s) ==
    /\ Troubled
    /\ creator' = IF s \in creator THEN creator \ {s} ELSE creator \cup {s}
    /\ UNCHANGED <<schedule, period, ticking, asked, on>>

-----------------------------------------------------------------------------
(* runDue reads the schedules that are on; those of the period it computed are skipped. *)
RunDue(t) ==
    LET due == {s \in Schedule : Enabled(s) /\ schedule[s].last # period} IN
    /\ ticking[t] = NoTick /\ due # {}
    /\ ticking' = [ticking EXCEPT ![t] = [now |-> period, due |-> due,
                       last |-> [s \in Schedule |-> schedule[s].last], claimed |-> NoTick]]
    /\ UNCHANGED <<schedule, creator, period, asked, on, trouble>>

Working(t) == ticking[t] # NoTick /\ ticking[t].claimed # NoTick
Claiming(tick, s, claimed) == [tick EXCEPT !.due = tick.due \ {s}, !.claimed = claimed]
ClaimWhen(t, s, claimable) ==
    /\ ticking[t] # NoTick /\ ticking[t].claimed = NoTick /\ s \in ticking[t].due
    /\ schedule' = IF claimable THEN [schedule EXCEPT ![s].last = ticking[t].now] ELSE schedule
    /\ ticking' = [ticking EXCEPT ![t] = Claiming(@, s, IF claimable THEN s ELSE NoTick)]
    /\ UNCHANGED <<creator, period, asked, on, trouble>>
ClaimWhateverWasRead(t, s) == ClaimWhen(t, s, Enabled(s))
ClaimPeriod(t, s) == ClaimWhen(t, s, Enabled(s) /\ schedule[s].last = ticking[t].last[s])

(* runOne: a schedule whose creator is gone, or may not read the data any more, pauses. *)
Pause(t) ==
    LET s == ticking[t].claimed IN
    /\ Working(t) /\ s \notin creator /\ schedule[s].exists
    /\ schedule' = [schedule EXCEPT ![s].enabled = FALSE]
    /\ ticking' = [ticking EXCEPT ![t].claimed = NoTick]
    /\ UNCHANGED <<creator, period, asked, on, trouble>>
RequestDue(t) ==
    LET s == ticking[t].claimed IN
    /\ Working(t) /\ s \in creator
    /\ asked' = [asked EXCEPT ![s][ticking[t].now] = @ + 1]
    /\ ticking' = IF schedule[s].exists THEN [ticking EXCEPT ![t].claimed = NoTick]
                  ELSE [ticking EXCEPT ![t] = NoTick] \* recording it fails, and the tick with it
    /\ UNCHANGED <<schedule, creator, period, on, trouble>>
(* The request fails, or the process dies: the tick ends with the schedules it had left. *)
TickFails(t) ==
    /\ ticking[t] # NoTick
    /\ IF Working(t) /\ ticking[t].claimed \notin creator /\ ~schedule[ticking[t].claimed].exists
       THEN UNCHANGED trouble \* nothing to pause
       ELSE Troubled
    /\ ticking' = [ticking EXCEPT ![t] = NoTick]
    /\ UNCHANGED <<schedule, creator, period, asked, on>>
TickDone(t) ==
    /\ ticking[t] # NoTick /\ ~Working(t) /\ ticking[t].due = {}
    /\ ticking' = [ticking EXCEPT ![t] = NoTick]
    /\ UNCHANGED <<schedule, creator, period, asked, on, trouble>>

TickStep(t) ==
    \/ RunDue(t) \/ Pause(t) \/ RequestDue(t) \/ TickFails(t) \/ TickDone(t)
    \/ \E s \in Schedule : ClaimPeriod(t, s)

SchedulesNext ==
    \/ PeriodEnds
    \/ \E s \in Schedule : \/ CreateSchedule(s) \/ SwitchOff(s) \/ SwitchOn(s) \/ ChangeFrequency(s)
                           \/ RemoveSchedule(s) \/ CreatorChanges(s)
    \/ \E t \in Tick : TickStep(t)

SchedulesSpec == SchedulesInit /\ [][SchedulesNext]_scheduleVars

-----------------------------------------------------------------------------
(* Rows and ticks have the values of the schema, and no schedule is ahead of the calendar. *)
SchedulesTypeOK ==
    /\ schedule \in [Schedule -> ScheduleRows] /\ creator \subseteq Schedule
    /\ period \in 0..MaxPeriod /\ trouble \in 0..MaxTrouble
    /\ ticking \in [Tick -> Ticks \cup {NoTick}]
    /\ asked \in [Schedule -> [0..MaxPeriod -> Nat]] /\ on \subseteq Schedule \X (1..MaxPeriod)
    /\ \A s \in Schedule : schedule[s].last <= period

(* "Claiming the period with a conditional update makes concurrent ticks (two workers) run it once"
   (ReportScheduleService.runDue): whatever is edited, fails or dies meanwhile. *)
PeriodOnce == \A s \in Schedule : \A p \in 0..MaxPeriod : asked[s][p] <= 1

(* "No burst of reports for the periods missed while off", nor for one that ended before the schedule
   existed (create and update): a period is only asked for if the schedule was on when it ended. *)
OnlyWhileOn == \A s \in Schedule : \A p \in 0..MaxPeriod : asked[s][p] > 0 => <<s, p>> \in on

(* The hourly tick brings every schedule that is on up to the latest period, whatever it missed
   while no worker ran or ticks died. *)
SchedulesCatchUp == \A s \in Schedule : []<>(Enabled(s) => schedule[s].last = period)

=============================================================================
