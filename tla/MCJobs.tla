------------------------------- MODULE MCJobs -------------------------------
(***************************************************************************)
(* What runs in the background and what is cached, for TLC: the queues and *)
(* their processes, reports, their schedules, notifications, files on the  *)
(* disk, and the permissions of staff.  They share no row, so a behaviour  *)
(* is one of the part chosen at its start (Parts: the parts a run looks at).*)
(***************************************************************************)
EXTENDS JobQueue, Reports, Notifications, Files, Access

CONSTANTS Parts, g1, g2

VARIABLE part

allVars == <<part, queueVars, reportVars, scheduleVars, noticeVars, fileVars, accessVars>>

(* Both files lie in g1, which lies in g2. *)
BothInOne == [f \in File |-> g1]
OneInTheOther == [d \in Folder |-> IF d = g1 THEN g2 ELSE Base]

JobsInit ==
    /\ part \in Parts
    /\ QueueInit /\ ReportsInit /\ SchedulesInit /\ NoticesInit /\ FilesInit /\ AccessInit
    /\ part # "access" => holds = Member \X {AdminRole} \* standing still, one initial state is enough

JobsNext ==
    /\ UNCHANGED part
    /\ \/ part = "queue" /\ QueueNext
          /\ UNCHANGED <<reportVars, scheduleVars, noticeVars, fileVars, accessVars>>
       \/ part = "reports" /\ ReportsNext
          /\ UNCHANGED <<queueVars, scheduleVars, noticeVars, fileVars, accessVars>>
       \/ part = "schedules" /\ SchedulesNext
          /\ UNCHANGED <<queueVars, reportVars, noticeVars, fileVars, accessVars>>
       \/ part = "notices" /\ NoticesNext
          /\ UNCHANGED <<queueVars, reportVars, scheduleVars, fileVars, accessVars>>
       \/ part = "files" /\ FilesNext
          /\ UNCHANGED <<queueVars, reportVars, scheduleVars, noticeVars, accessVars>>
       \/ part = "access" /\ AccessNext
          /\ UNCHANGED <<queueVars, reportVars, scheduleVars, noticeVars, fileVars>>

(* Node runs what is ready, timers fire, and Redis hands a waiting job to a worker that asks. *)
QueueFairness ==
    /\ \A p \in Process :
        /\ WF_queueVars(part = "queue" /\ Runs(p))
        /\ WF_queueVars(part = "queue" /\ ShutDownJobs(p))
        /\ WF_queueVars(part = "queue" /\ HardExit(p))
        /\ WF_queueVars(part = "queue" /\ StartProcess(p))
    /\ \A j \in Job : SF_queueVars(part = "queue" /\ Delivers(j)) /\ WF_queueVars(part = "queue" /\ Stalled(j))
ReportFairness ==
    /\ \A w \in Worker : WF_reportVars(part = "reports" /\ WorkerStep(w))
    /\ \A r \in Report : /\ WF_reportVars(part = "reports" /\ Deliver(r))
                         /\ WF_reportVars(part = "reports" /\ (EnqueueReport(r) \/ EnqueueLost(r)))
ScheduleFairness == \A t \in Tick : WF_scheduleVars(part = "schedules" /\ TickStep(t))
(* An entry's time passes, and a request or an administrator's call that has begun goes on. *)
AccessFairness ==
    /\ \A m \in Member : WF_accessVars(part = "access" /\ ExpireEntry(m))
    /\ \A q \in Request : WF_accessVars(part = "access" /\ (SetUserPermissions(q) \/ LoseFill(q)))
    /\ \A a \in Manager : WF_accessVars(part = "access" /\ (Invalidate(a) \/ InvalidationLost(a)))

JobsSpec ==
    /\ JobsInit /\ [][JobsNext]_allVars
    /\ QueueFairness /\ ReportFairness /\ ScheduleFairness /\ AccessFairness

(* The rows, jobs, processes, files and cache entries of the parts have the values of the code. *)
JobsTypeOK ==
    /\ QueueTypeOK /\ ReportsTypeOK /\ SchedulesTypeOK /\ NoticesTypeOK /\ AccessTypeOK
    /\ FilesTypeOK

(* What is retried is not done again: a job is tried as often as its options say (jobs.config.js),
   a period has one report (report-schedules.service.js:170), and a notification one row while its
   deliveries do not overlap (notification.processor.js:69). *)
DoneOnce == TriedWithinReason /\ PeriodOnce /\ NoticeOnce

(* What is shown is so: a COMPLETED report has its file (reports.service.js:116), a report comes
   only from a schedule that is on (report-schedules.service.js:148), a preference is the one that
   was chosen last (notifications.repository.js:124), an uploaded file is there until it is deleted,
   and only folders of files are left when requests come one by one (local-storage.provider.js:83). *)
ShownIsSo == CompletedHasFile /\ OnlyWhileOn /\ ChoiceHolds /\ UploadedStays /\ TidyInTurn

(* No job is stopped half-way by an orderly shutdown (workers/index.js:126), and a report
   announced as ready is not announced again (reports.service.js:97). *)
NothingRedone == NothingCutShort /\ ReadyOnce

(* Everything comes to its end: jobs, reports, a schedule that is behind, an API process that is
   told to stop, a cache entry that is out of date. *)
EverythingEnds == EveryJobEnds /\ ApiStops /\ EveryReportEnds /\ SchedulesCatchUp /\ CacheComesRight

=============================================================================
