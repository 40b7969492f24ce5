------------------------------ MODULE ReportJobs ------------------------------
(***************************************************************************)
(* PDF reports: a row per job in the database, a queue in memory, one      *)
(* worker, the files, the cleanup of what expired, and what happens to     *)
(* them on a restart or a restore (app/services/pdf_worker.py,             *)
(* app/db/sqlite/report_jobs.py, app/api/reports.py).                      *)
(***************************************************************************)
EXTENDS Integers, Sequences, FiniteSets

CONSTANTS
    MaxJobs,        \* bound on requests
    QueueSize,      \* jobs that may wait in memory
    Life,           \* ticks until a job expires, and an orphaned file is swept
    MaxJobFaults    \* bound on failures, restarts, deletions, restores

ASSUME ReportAssumption ==
    {MaxJobs, QueueSize, Life} \subseteq Nat \ {0} /\ MaxJobFaults \in Nat

VARIABLES
    jobRows,    \* the database: row and inbox notices of every job
    jobAge,     \* ticks since the request (Life + 1: any later)
    jobQueue,   \* asyncio.Queue of the pdfWorker
    pdfWorker,  \* the job being worked on and its stage
    pdfs,       \* age of the file of every job, or none
    cleaner,    \* stage of the cleanup and the jobs it saw expired
    copy,       \* a backup: how far it is, its rows, its files and their ages
    jobLog      \* bound on faults; whether the directory of the files is there

jobVars == <<jobRows, jobAge, jobQueue, pdfWorker, pdfs, cleaner, copy, jobLog>>

Jobs == 1 .. MaxJobs
NoPdf == -1
GoneJob == "gone"
Open == {"pending", "processing"}
IdleWorker == [job |-> 0, stage |-> "idle"]
IdleCleaner == [stage |-> "idle", seen |-> {}]
GoneRow == [status |-> GoneJob, notices |-> {}]
Unused == [status |-> "unused", notices |-> {}]
NoCopy == [stage |-> "none", rows |-> [j \in Jobs |-> Unused], files |-> [j \in Jobs |-> NoPdf], dir |-> FALSE]

JobInit ==
    /\ jobRows = [j \in Jobs |-> Unused]
    /\ jobAge = [j \in Jobs |-> 0]
    /\ jobQueue = <<>> /\ pdfWorker = IdleWorker
    /\ pdfs = [j \in Jobs |-> NoPdf]
    /\ cleaner = IdleCleaner
    /\ copy = NoCopy
    /\ jobLog \in [faults : {0}, dir : BOOLEAN]

MayTrouble == jobLog.faults < MaxJobFaults
Troubled == jobLog' = [jobLog EXCEPT !.faults = @ + 1]
HasRow(j) == jobRows[j].status \notin {GoneJob, "unused"}
JobExpired(j) == jobAge[j] >= Life

(* Mutant: a finished job is written again.                                *)
UpdatedAlways(j, status) ==
    IF ~HasRow(j) THEN jobRows
    ELSE [jobRows EXCEPT ![j] = [status |-> status,
            notices |-> IF status \in Open THEN @.notices ELSE @.notices \union {status}]]

(* update_report_job: only an open job is written; its end leaves one      *)
(* notice in the same transaction.                                         *)
Ending(row, status) ==
    [status |-> status, notices |-> IF status \in Open THEN row.notices ELSE row.notices \union {status}]

Updated(j, status) ==
    IF jobRows[j].status \notin Open THEN jobRows ELSE [jobRows EXCEPT ![j] = Ending(@, status)]

(* request_pdf_report: the row first, then the queue; a full queue fails   *)
(* the row.                                                                *)
RequestReport(j) ==
    LET created == [status |-> "pending", notices |-> {}] IN
    /\ jobRows[j] = Unused /\ \A i \in 1 .. j - 1 : jobRows[i] # Unused
    /\ IF Len(jobQueue) < QueueSize
       THEN jobRows' = [jobRows EXCEPT ![j] = created] /\ jobQueue' = Append(jobQueue, j)
       ELSE /\ jobRows' = [jobRows EXCEPT ![j] = [status |-> "failed", notices |-> {"failed"}]]
            /\ UNCHANGED jobQueue
    /\ UNCHANGED <<jobAge, pdfWorker, pdfs, cleaner, copy, jobLog>>

---------------------------------------------------------------------------
(* run_loop, one stage after the other, each with its own transaction.     *)
TakeJob ==
    /\ pdfWorker = IdleWorker /\ jobQueue # <<>>
    /\ pdfWorker' = [job |-> Head(jobQueue), stage |-> "taken"]
    /\ jobQueue' = Tail(jobQueue)
    /\ UNCHANGED <<jobRows, jobAge, pdfs, cleaner, copy, jobLog>>

JobStage(from, to) == pdfWorker.stage = from /\ pdfWorker' = [pdfWorker EXCEPT !.stage = to]

StartJob ==
    /\ JobStage("taken", "fetching")
    /\ jobRows' = Updated(pdfWorker.job, "processing")
    /\ UNCHANGED <<jobAge, jobQueue, pdfs, cleaner, copy, jobLog>>

RenderJob ==
    /\ JobStage("fetching", "rendered")
    /\ UNCHANGED <<jobRows, jobAge, jobQueue, pdfs, cleaner, copy, jobLog>>

WriteFile ==
    /\ JobStage("rendered", "written")
    /\ pdfs' = [pdfs EXCEPT ![pdfWorker.job] = 0]
    /\ jobLog' = [jobLog EXCEPT !.dir = TRUE]
    /\ UNCHANGED <<jobRows, jobAge, jobQueue, cleaner, copy>>

CompleteJob ==
    /\ pdfWorker.stage = "written"
    /\ jobRows' = Updated(pdfWorker.job, "completed")
    /\ pdfWorker' = IdleWorker
    /\ UNCHANGED <<jobAge, jobQueue, pdfs, cleaner, copy, jobLog>>

(* Any stage may fail, also with a timeout; then the row is failed, and    *)
(* that write may fail, too.                                               *)
FailJob ==
    /\ pdfWorker.stage \in {"taken", "fetching", "rendered", "written"} /\ MayTrouble
    /\ pdfWorker' = [pdfWorker EXCEPT !.stage = "failing"]
    /\ Troubled
    /\ UNCHANGED <<jobRows, jobAge, jobQueue, pdfs, cleaner, copy>>

MarkFailed ==
    /\ pdfWorker.stage = "failing"
    /\ jobRows' = Updated(pdfWorker.job, "failed")
    /\ pdfWorker' = IdleWorker
    /\ UNCHANGED <<jobAge, jobQueue, pdfs, cleaner, copy, jobLog>>

MarkFailedFails ==
    /\ pdfWorker.stage = "failing" /\ MayTrouble
    /\ pdfWorker' = IdleWorker
    /\ Troubled
    /\ UNCHANGED <<jobRows, jobAge, jobQueue, pdfs, cleaner, copy>>

---------------------------------------------------------------------------
(* cleanup_loop: the files of the expired, then the rows that are expired  *)
(* by now, then the files nobody owns.                                     *)
CleanFiles ==
    LET expired == {j \in Jobs : HasRow(j) /\ JobExpired(j)} IN
    /\ cleaner = IdleCleaner
    /\ expired # {} \/ \E j \in Jobs : ~HasRow(j) /\ pdfs[j] > Life
    /\ pdfs' = [j \in Jobs |-> IF j \in expired THEN NoPdf ELSE pdfs[j]]
    /\ cleaner' = [stage |-> "files", seen |-> expired]
    /\ UNCHANGED <<jobRows, jobAge, jobQueue, pdfWorker, copy, jobLog>>

PruneJobs ==
    /\ cleaner.stage = "files"
    /\ jobRows' = [j \in Jobs |->
                     IF HasRow(j) /\ JobExpired(j) THEN [jobRows[j] EXCEPT !.status = GoneJob] ELSE jobRows[j]]
    /\ cleaner' = [cleaner EXCEPT !.stage = "rows"]
    /\ UNCHANGED <<jobAge, jobQueue, pdfWorker, pdfs, copy, jobLog>>

SweepOrphans ==
    /\ cleaner.stage = "rows"
    /\ pdfs' = [j \in Jobs |-> IF ~HasRow(j) /\ pdfs[j] > Life THEN NoPdf ELSE pdfs[j]]
    /\ cleaner' = IdleCleaner
    /\ UNCHANGED <<jobRows, jobAge, jobQueue, pdfWorker, copy, jobLog>>

(* A file in a backup keeps the time of its last change.                   *)
AgedFiles(files) == [j \in Jobs |-> IF files[j] \in 0 .. Life THEN files[j] + 1 ELSE files[j]]

JobTick ==
    /\ jobAge' = [j \in Jobs |->
                    IF jobRows[j] # Unused /\ jobAge[j] < Life THEN jobAge[j] + 1 ELSE jobAge[j]]
    /\ pdfs' = AgedFiles(pdfs) /\ copy' = [copy EXCEPT !.files = AgedFiles(@)]
    /\ <<jobAge, pdfs, copy>>' # <<jobAge, pdfs, copy>>
    /\ UNCHANGED <<jobRows, jobQueue, pdfWorker, cleaner, jobLog>>

---------------------------------------------------------------------------
(* Deletion of the target takes the rows; the process restarts.            *)
DeleteJobs ==
    /\ MayTrouble /\ \E j \in Jobs : HasRow(j)
    /\ jobRows' = [j \in Jobs |-> IF HasRow(j) THEN [jobRows[j] EXCEPT !.status = GoneJob] ELSE jobRows[j]]
    /\ Troubled
    /\ UNCHANGED <<jobAge, jobQueue, pdfWorker, pdfs, cleaner, copy>>

(* mark_stale_report_jobs_failed on start-up.                              *)
FailStale(rows) ==
    [j \in Jobs |-> IF rows[j].status \in Open THEN Ending(rows[j], "failed") ELSE rows[j]]

(* What is in memory is lost, and a backup that was not finished.          *)
Restarted(rows) ==
    /\ jobQueue' = <<>> /\ pdfWorker' = IdleWorker /\ cleaner' = IdleCleaner
    /\ jobRows' = FailStale(rows)
    /\ UNCHANGED jobAge

RestartReports ==
    /\ MayTrouble
    /\ Restarted(jobRows)
    /\ copy' = IF copy.stage = "rows" THEN NoCopy ELSE copy
    /\ Troubled
    /\ UNCHANGED pdfs

(* The new process starts while the old one still finishes a job.          *)
StartBesideOld ==
    /\ MayTrouble /\ pdfWorker # IdleWorker
    /\ jobRows' = FailStale(jobRows)
    /\ Troubled
    /\ UNCHANGED <<jobAge, jobQueue, pdfWorker, pdfs, cleaner, copy>>

(* A backup copies the database first and the files afterwards, if their   *)
(* directory is there; worker and cleanup go on meanwhile.                 *)
BackUpRows ==
    /\ copy.stage # "rows"
    /\ copy' = [NoCopy EXCEPT !.stage = "rows", !.rows = jobRows]
    /\ UNCHANGED <<jobRows, jobAge, jobQueue, pdfWorker, pdfs, cleaner, jobLog>>

BackUpFiles ==
    /\ copy.stage = "rows"
    /\ copy' = [copy EXCEPT !.stage = "taken", !.files = pdfs, !.dir = jobLog.dir]
    /\ UNCHANGED <<jobRows, jobAge, jobQueue, pdfWorker, pdfs, cleaner, jobLog>>

(* A restore waits for the sections of the worker and the cleanup and puts *)
(* back the rows and, if the backup has their directory, the files.  Until *)
(* the process has been started again everything is refused, so the start  *)
(* is part of the step.                                                    *)
RestoreJobs ==
    /\ MayTrouble /\ copy.stage = "taken"
    /\ pdfWorker.stage \in {"idle", "taken"} /\ cleaner = IdleCleaner
    /\ Restarted([j \in Jobs |->
                     IF copy.rows[j] = Unused /\ jobRows[j] # Unused THEN GoneRow ELSE copy.rows[j]])
    /\ pdfs' = IF copy.dir THEN copy.files ELSE pdfs
    /\ jobLog' = [faults |-> jobLog.faults + 1, dir |-> jobLog.dir \/ copy.dir]
    /\ UNCHANGED copy

PdfStep ==
    TakeJob \/ StartJob \/ RenderJob \/ WriteFile \/ CompleteJob \/ MarkFailed
CleanStep == CleanFiles \/ PruneJobs \/ SweepOrphans

JobNext ==
    \/ \E j \in Jobs : RequestReport(j)
    \/ PdfStep \/ CleanStep \/ JobTick
    \/ FailJob \/ MarkFailedFails \/ DeleteJobs \/ RestartReports \/ StartBesideOld
    \/ BackUpRows \/ BackUpFiles \/ RestoreJobs

JobSpec == JobInit /\ [][JobNext]_jobVars
JobFairSpec ==
    JobSpec /\ WF_jobVars(PdfStep) /\ WF_jobVars(CleanStep) /\ WF_jobVars(JobTick)

---------------------------------------------------------------------------
JobTypeOK ==
    /\ \A j \in Jobs : jobRows[j].status \in {"unused", "pending", "processing", "completed", "failed", GoneJob}
    /\ Len(jobQueue) <= QueueSize

(* The owner hears of the end of a job once, and what it heard is true.    *)
OneNotice ==
    \A j \in Jobs :
        /\ Cardinality(jobRows[j].notices) <= 1
        /\ jobRows[j].status \in {"completed", "failed"} => jobRows[j].notices = {jobRows[j].status}

(* A report that is offered for download has its file, until it expires,   *)
(* also after a restore, although a backup copies the rows and the files   *)
(* one after the other.                                                    *)
OfferedHasFile == \A j \in Jobs : jobRows[j].status = "completed" /\ ~JobExpired(j) => pdfs[j] # NoPdf

(* Again and again nothing is open and no file is left: every job ends,    *)
(* and no file outlives its job for long.                                  *)
ReportsEnd == []<>(\A j \in Jobs : jobRows[j].status \notin Open /\ pdfs[j] = NoPdf)
=============================================================================
