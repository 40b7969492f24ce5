---------------------------- MODULE ServicesProofs ----------------------------
(***************************************************************************)
(* What the report jobs, the live stream and the supervisor promise, for   *)
(* any number of jobs, pages and events, any limits and sizes of queues    *)
(* and any faults, and that the promises hold in the composition whose     *)
(* small instance is checked.                                              *)
(***************************************************************************)
EXTENDS MCServices, FiniteSetTheorems, SequenceTheorems, TLAPS

-----------------------------------------------------------------------------
(* Report jobs                                                             *)

JobRow == [status : {"unused", "pending", "processing", "completed", "failed", GoneJob},
           notices : {{}, {"completed"}, {"failed"}}]
Stages == {"idle", "taken", "fetching", "rendered", "written", "failing"}

(* An open job has not been told of; a job that ended has, and truly.      *)
Told(row) ==
    /\ row \in JobRow
    /\ row.status = "unused" => row = Unused
    /\ row.status \in Open => row.notices = {}
    /\ row.status \in {"completed", "failed"} => row.notices = {row.status}

CopyState == [stage : {"none", "rows", "taken"}, rows : [Jobs -> JobRow],
              files : [Jobs -> Int], dir : BOOLEAN]
LogState == [faults : Nat, dir : BOOLEAN]

JobsTyped ==
    /\ DOMAIN jobRows = Jobs /\ jobRows = [j \in Jobs |-> jobRows[j]]
    /\ jobAge \in [Jobs -> Nat]
    /\ jobQueue \in Seq(Jobs)
    /\ pdfWorker \in [job : Nat, stage : Stages]
    /\ pdfWorker.stage # "idle" => pdfWorker.job \in Jobs
    /\ pdfs \in [Jobs -> Int]
    /\ copy \in CopyState /\ jobLog \in LogState

(* What waits or is worked on was requested.                               *)
Requested ==
    /\ \A i \in DOMAIN jobQueue : jobRows[jobQueue[i]] # Unused
    /\ pdfWorker.stage # "idle" => jobRows[pdfWorker.job] # Unused

(* The file that was written is still there when the job is completed.     *)
FileWaits ==
    pdfWorker.stage = "written" => pdfs[pdfWorker.job] # NoPdf \/ JobExpired(pdfWorker.job)

(* A file is not older than its job, so the sweep takes only the files of  *)
(* jobs that have expired.                                                 *)
Young(files) ==
    \A j \in Jobs : files[j] # NoPdf => jobRows[j] # Unused /\ (files[j] <= jobAge[j] \/ JobExpired(j))

(* Rows that were copied have their files where a restore will find them.  *)
Covered(rows, files) ==
    \A j \in Jobs : rows[j].status = "completed" /\ ~JobExpired(j) => files[j] # NoPdf
CopyServes ==
    /\ copy.stage = "rows" => Covered(copy.rows, pdfs)
    /\ copy.stage = "taken" => Covered(copy.rows, copy.files)
    /\ copy.stage = "taken" /\ ~copy.dir => \A j \in Jobs : copy.files[j] = NoPdf

DirStands == ~jobLog.dir => \A j \in Jobs : pdfs[j] = NoPdf

JobInv ==
    /\ JobsTyped /\ Requested /\ FileWaits /\ OfferedHasFile
    /\ Young(pdfs) /\ Young(copy.files) /\ CopyServes /\ DirStands
    /\ \A j \in Jobs : Told(jobRows[j]) /\ Told(copy.rows[j])

LEMMA JobsAreNumbers ==
    /\ MaxJobs \in Nat /\ MaxJobs # 0 /\ Life \in Nat /\ Life # 0
    /\ Jobs \subseteq Nat
  BY ReportAssumption DEF Jobs

LEMMA RowsAreTold ==
    /\ Told(Unused) /\ Told(GoneRow) /\ GoneRow # Unused
    /\ Told([status |-> "pending", notices |-> {}])
    /\ Told([status |-> "failed", notices |-> {"failed"}])
    /\ [status |-> "pending", notices |-> {}] # Unused
    /\ [status |-> "failed", notices |-> {"failed"}] # Unused
<1>1. Told(Unused) /\ Told(GoneRow) /\ GoneRow # Unused
  BY DEF Told, JobRow, Unused, GoneRow, Open, GoneJob
<1>2. Told([status |-> "pending", notices |-> {}])
      /\ [status |-> "pending", notices |-> {}] # Unused
  BY DEF Told, JobRow, Unused, Open, GoneJob
<1>3. Told([status |-> "failed", notices |-> {"failed"}])
      /\ [status |-> "failed", notices |-> {"failed"}] # Unused
  BY DEF Told, JobRow, Unused, Open, GoneJob
<1> QED BY <1>1, <1>2, <1>3

(* One row ends or goes on; what has ended stays as it is.                 *)
LEMMA EndingIsTold ==
    ASSUME NEW row, Told(row), row.status \in Open,
           NEW status \in {"processing", "completed", "failed"}
    PROVE  /\ Told(Ending(row, status)) /\ Ending(row, status) # Unused
           /\ Ending(row, status).status = status
<1>1. row.notices = {}
  BY DEF Told
<1>2. CASE status = "processing"
  BY <1>1, <1>2 DEF Told, Ending, JobRow, Open, Unused, GoneJob
<1>3. CASE status = "completed"
  BY <1>1, <1>3 DEF Told, Ending, JobRow, Open, Unused, GoneJob
<1>4. CASE status = "failed"
  BY <1>1, <1>4 DEF Told, Ending, JobRow, Open, Unused, GoneJob
<1> QED BY <1>2, <1>3, <1>4

LEMMA UpdatedRow ==
    ASSUME JobInv, NEW j \in Jobs, NEW status \in {"processing", "completed", "failed"}
    PROVE  LET rows == Updated(j, status) IN
           /\ DOMAIN rows = Jobs /\ rows = [i \in Jobs |-> rows[i]]
           /\ \A i \in Jobs \ {j} : rows[i] = jobRows[i]
           /\ Told(rows[j]) /\ (jobRows[j] # Unused => rows[j] # Unused)
           /\ rows[j].status \in {"unused", GoneJob} <=> jobRows[j].status \in {"unused", GoneJob}
           /\ rows[j].status = "completed" =>
                 jobRows[j].status = "completed" \/ status = "completed"
<1>1. Told(jobRows[j]) /\ DOMAIN jobRows = Jobs /\ jobRows = [i \in Jobs |-> jobRows[i]]
  BY DEF JobInv, JobsTyped
<1>2. CASE jobRows[j].status \notin Open
  BY <1>1, <1>2 DEF Updated
<1>3. CASE jobRows[j].status \in Open
  <2>1. Updated(j, status) = [jobRows EXCEPT ![j] = Ending(jobRows[j], status)]
    BY <1>1, <1>3 DEF Updated, Ending
  <2>2. /\ Told(Ending(jobRows[j], status)) /\ Ending(jobRows[j], status) # Unused
        /\ Ending(jobRows[j], status).status = status
    BY <1>1, <1>3, EndingIsTold
  <2> QED BY <1>1, <1>3, <2>1, <2>2 DEF Open, GoneJob
<1> QED BY <1>2, <1>3

(* Rows that go on as they were, end, or go.                               *)
Onward ==
    /\ DOMAIN jobRows' = Jobs /\ jobRows' = [j \in Jobs |-> jobRows'[j]]
    /\ \A j \in Jobs :
         /\ Told(jobRows'[j])
         /\ jobRows[j] # Unused => jobRows'[j] # Unused /\ (~HasRow(j) => ~HasRow(j)')

LEMMA UpdateGoesOn ==
    ASSUME JobInv, NEW j \in Jobs, NEW status \in {"processing", "completed", "failed"},
           jobRows' = Updated(j, status)
    PROVE  /\ Onward
           /\ \A i \in Jobs : jobRows'[i].status = "completed" =>
                 jobRows[i].status = "completed" \/ (i = j /\ status = "completed")
<1>1. \A i \in Jobs : Told(jobRows[i])
  BY DEF JobInv
<1>2. /\ DOMAIN jobRows' = Jobs /\ jobRows' = [i \in Jobs |-> jobRows'[i]]
      /\ \A i \in Jobs \ {j} : jobRows'[i] = jobRows[i]
      /\ Told(jobRows'[j]) /\ (jobRows[j] # Unused => jobRows'[j] # Unused)
      /\ jobRows'[j].status \in {"unused", GoneJob} <=> jobRows[j].status \in {"unused", GoneJob}
      /\ jobRows'[j].status = "completed" =>
            jobRows[j].status = "completed" \/ status = "completed"
  BY UpdatedRow
<1>3. Onward
  BY <1>1, <1>2 DEF Onward, HasRow
<1> QED BY <1>2, <1>3

LEMMA StaleRowFails ==
    ASSUME NEW rows, \A j \in Jobs : Told(rows[j]), NEW j \in Jobs
    PROVE  /\ Told(FailStale(rows)[j])
           /\ rows[j] # Unused => FailStale(rows)[j] # Unused
           /\ FailStale(rows)[j].status \in {"unused", GoneJob} <=> rows[j].status \in {"unused", GoneJob}
           /\ FailStale(rows)[j].status = "completed" => rows[j].status = "completed"
<1>1. CASE rows[j].status \in Open
  <2>1. FailStale(rows)[j] = Ending(rows[j], "failed")
    BY <1>1 DEF FailStale
  <2>2. /\ Told(Ending(rows[j], "failed")) /\ Ending(rows[j], "failed") # Unused
        /\ Ending(rows[j], "failed").status = "failed"
    BY <1>1, EndingIsTold
  <2> QED BY <1>1, <2>1, <2>2 DEF Open, GoneJob
<1>2. CASE rows[j].status \notin Open
  <2>1. FailStale(rows)[j] = rows[j]
    BY <1>2 DEF FailStale
  <2> QED BY <2>1
<1> QED BY <1>1, <1>2

LEMMA StaleRowsFail ==
    ASSUME JobInv, jobRows' = FailStale(jobRows)
    PROVE  /\ Onward
           /\ \A j \in Jobs : jobRows'[j].status = "completed" => jobRows[j].status = "completed"
<1>1. \A j \in Jobs : Told(jobRows[j])
  BY DEF JobInv
<1>2. DOMAIN jobRows' = Jobs /\ jobRows' = [j \in Jobs |-> jobRows'[j]]
  BY DEF FailStale
<1>3. ASSUME NEW j \in Jobs
      PROVE  /\ Told(jobRows'[j])
             /\ jobRows[j] # Unused => jobRows'[j] # Unused
             /\ jobRows'[j].status \in {"unused", GoneJob} <=> jobRows[j].status \in {"unused", GoneJob}
             /\ jobRows'[j].status = "completed" => jobRows[j].status = "completed"
  BY <1>1, StaleRowFails
<1> QED BY <1>1, <1>2, <1>3 DEF Onward, HasRow

GoneFrom(row) == [row EXCEPT !.status = GoneJob]

LEMMA GoneIsTold ==
    ASSUME NEW row, Told(row)
    PROVE  Told(GoneFrom(row)) /\ GoneFrom(row) # Unused /\ GoneFrom(row).status = GoneJob
<1>1. row \in JobRow
  BY DEF Told
<1>2. GoneFrom(row) \in JobRow /\ GoneFrom(row).status = GoneJob
  BY <1>1 DEF GoneFrom, JobRow
<1> QED BY <1>2 DEF Told, Open, GoneJob, Unused

LEMMA RowsGo ==
    ASSUME JobInv, NEW S \in SUBSET Jobs,
           jobRows' = [j \in Jobs |-> IF j \in S THEN GoneFrom(jobRows[j]) ELSE jobRows[j]]
    PROVE  /\ Onward
           /\ \A j \in Jobs : jobRows'[j].status = "completed" =>
                 jobRows[j].status = "completed" /\ j \notin S
<1>1. \A j \in Jobs : Told(jobRows[j]) /\ Told(GoneFrom(jobRows[j]))
                      /\ GoneFrom(jobRows[j]) # Unused /\ GoneFrom(jobRows[j]).status = GoneJob
  BY GoneIsTold DEF JobInv
<1> QED BY <1>1 DEF Onward, HasRow, GoneJob

LEMMA SameRows ==
    ASSUME JobInv, jobRows' = jobRows
    PROVE  Onward
  BY DEF JobInv, JobsTyped, Onward, HasRow

(* A file goes only when its job has expired.                              *)
LEMMA FilesStay ==
    ASSUME JobInv, \A j \in Jobs : JobExpired(j) => JobExpired(j)',
           \A j \in Jobs : pdfs[j] # NoPdf => pdfs'[j] # NoPdf \/ JobExpired(j),
           pdfWorker'.stage = "written" =>
               \/ pdfWorker'.job \in Jobs /\ pdfs'[pdfWorker'.job] # NoPdf
               \/ pdfWorker.stage = "written" /\ pdfWorker'.job = pdfWorker.job,
           \A j \in Jobs : jobRows'[j].status = "completed" =>
               \/ jobRows[j].status = "completed"
               \/ pdfWorker.stage = "written" /\ j = pdfWorker.job
    PROVE  FileWaits' /\ OfferedHasFile'
<1>1. pdfWorker.stage = "written" =>
         pdfWorker.job \in Jobs /\ (pdfs[pdfWorker.job] # NoPdf \/ JobExpired(pdfWorker.job))
  BY DEF JobInv, JobsTyped, FileWaits
<1>2. \A j \in Jobs : JobExpired(j) => jobAge'[j] >= Life
  BY DEF JobExpired
<1>3. FileWaits'
  <2> SUFFICES ASSUME pdfWorker'.stage = "written"
               PROVE  pdfs'[pdfWorker'.job] # NoPdf \/ jobAge'[pdfWorker'.job] >= Life
    BY DEF FileWaits, JobExpired
  <2> DEFINE w == pdfWorker'.job
  <2>1. \/ pdfs'[w] # NoPdf
        \/ w \in Jobs /\ (pdfs[w] # NoPdf \/ JobExpired(w))
    BY <1>1
  <2> HIDE DEF w
  <2> QED BY <1>2, <2>1 DEF w
<1>4. OfferedHasFile'
  <2> SUFFICES ASSUME NEW j \in Jobs, jobRows'[j].status = "completed", ~(jobAge'[j] >= Life)
               PROVE  pdfs'[j] # NoPdf
    BY DEF OfferedHasFile, JobExpired
  <2>1. ~JobExpired(j)
    BY <1>2
  <2>2. pdfs[j] # NoPdf
    BY <1>1, <2>1 DEF JobInv, OfferedHasFile
  <2> QED BY <2>1, <2>2
<1> QED BY <1>3, <1>4

LEMMA NoCopyIsOne ==
    /\ NoCopy \in CopyState /\ NoCopy.stage = "none"
    /\ \A j \in Jobs : NoCopy.rows[j] = Unused /\ NoCopy.files[j] = NoPdf
  BY DEF NoCopy, CopyState, JobRow, Unused, NoPdf

(* A backup that is under way or taken goes on, or is given up.            *)
CopyGoesOn ==
    /\ copy' \in CopyState
    /\ \/ copy' = NoCopy
       \/ /\ copy'.stage = copy.stage /\ copy'.rows = copy.rows /\ copy'.dir = copy.dir
          /\ \A j \in Jobs : copy'.files[j] = NoPdf <=> copy.files[j] = NoPdf

LEMMA CopyStays ==
    ASSUME JobInv, CopyGoesOn, \A j \in Jobs : JobExpired(j) => JobExpired(j)',
           \A j \in Jobs : pdfs[j] # NoPdf => pdfs'[j] # NoPdf \/ JobExpired(j)
    PROVE  CopyServes' /\ \A j \in Jobs : Told(copy'.rows[j])
<1>1. CASE copy' = NoCopy
  <2>1. copy'.stage = "none" /\ \A j \in Jobs : copy'.rows[j] = Unused
    BY <1>1 DEF NoCopy
  <2> QED BY <2>1, RowsAreTold DEF CopyServes
<1>2. CASE /\ copy'.stage = copy.stage /\ copy'.rows = copy.rows /\ copy'.dir = copy.dir
           /\ \A j \in Jobs : copy'.files[j] = NoPdf <=> copy.files[j] = NoPdf
  <2>1. \A j \in Jobs : Told(copy'.rows[j])
    BY <1>2 DEF JobInv
  <2>2. \A j \in Jobs : ~JobExpired(j)' => ~JobExpired(j)
    OBVIOUS
  <2>3. copy'.stage = "rows" => Covered(copy.rows, pdfs)'
    <3>1. copy'.stage = "rows" => Covered(copy.rows, pdfs)
      BY <1>2 DEF JobInv, CopyServes
    <3> QED BY <1>2, <2>2, <3>1 DEF Covered
  <2>4. copy'.stage = "taken" => Covered(copy.rows, copy.files)'
    <3>1. copy'.stage = "taken" => Covered(copy.rows, copy.files)
      BY <1>2 DEF JobInv, CopyServes
    <3> QED BY <1>2, <2>2, <3>1 DEF Covered
  <2>5. copy'.stage = "taken" /\ ~copy'.dir => \A j \in Jobs : copy'.files[j] = NoPdf
    BY <1>2 DEF JobInv, CopyServes
  <2> QED BY <2>1, <2>3, <2>4, <2>5 DEF CopyServes
<1> QED BY <1>1, <1>2 DEF CopyGoesOn

LEMMA ExpiredStaysExpired ==
    ASSUME JobInv, jobAge' \in [Jobs -> Nat], \A j \in Jobs : jobAge'[j] >= jobAge[j]
    PROVE  \A j \in Jobs : JobExpired(j) => JobExpired(j)'
  BY JobsAreNumbers DEF JobInv, JobsTyped, JobExpired

(* Files that stay or go are as young as before.                           *)
LEMMA FilesStayYoung ==
    ASSUME JobInv, Onward, NEW files, NEW later, Young(files),
           jobAge' \in [Jobs -> Nat], \A j \in Jobs : jobAge'[j] >= jobAge[j],
           files \in [Jobs -> Int], \A j \in Jobs : later[j] = NoPdf \/ later[j] = files[j]
    PROVE  \A j \in Jobs : later[j] # NoPdf =>
              jobRows'[j] # Unused /\ (later[j] <= jobAge'[j] \/ JobExpired(j)')
<1> SUFFICES ASSUME NEW j \in Jobs, later[j] # NoPdf
             PROVE  jobRows'[j] # Unused /\ (later[j] <= jobAge'[j] \/ JobExpired(j)')
  OBVIOUS
<1>1. later[j] = files[j] /\ jobRows[j] # Unused /\ (files[j] <= jobAge[j] \/ JobExpired(j))
  BY DEF Young
<1>2. jobRows'[j] # Unused
  BY <1>1 DEF Onward
<1>3. JobExpired(j) => JobExpired(j)'
  BY ExpiredStaysExpired
<1>4. files[j] <= jobAge[j] => files[j] <= jobAge'[j]
  <2>1. files[j] \in Int /\ jobAge[j] \in Nat /\ jobAge'[j] \in Nat /\ jobAge'[j] >= jobAge[j]
    BY DEF JobInv, JobsTyped
  <2> QED BY <2>1
<1> QED BY <1>1, <1>2, <1>3, <1>4

(* Nothing new waits or is worked on.                                      *)
LEMMA WaitingWasRequested ==
    ASSUME JobInv, Onward,
           jobQueue' = jobQueue \/ jobQueue' = <<>> \/ (jobQueue # <<>> /\ jobQueue' = Tail(jobQueue)),
           \/ pdfWorker'.stage = "idle"
           \/ pdfWorker.stage # "idle" /\ pdfWorker'.job = pdfWorker.job
           \/ jobQueue # <<>> /\ pdfWorker'.job = Head(jobQueue)
    PROVE  /\ Requested' /\ jobQueue' \in Seq(Jobs)
           /\ pdfWorker'.stage # "idle" => pdfWorker'.job \in Jobs
<1>1. /\ jobQueue \in Seq(Jobs)
      /\ \A i \in DOMAIN jobQueue : jobQueue[i] \in Jobs /\ jobRows[jobQueue[i]] # Unused
      /\ pdfWorker.stage # "idle" => pdfWorker.job \in Jobs /\ jobRows[pdfWorker.job] # Unused
  <2>1. jobQueue \in Seq(Jobs)
    BY DEF JobInv, JobsTyped
  <2>2. ASSUME NEW i \in DOMAIN jobQueue PROVE jobQueue[i] \in Jobs
    BY <2>1
  <2> QED BY <2>1, <2>2 DEF JobInv, JobsTyped, Requested
<1>2. \A j \in Jobs : jobRows[j] # Unused => jobRows'[j] # Unused
  BY DEF Onward
<1>3. ASSUME jobQueue # <<>>
      PROVE  /\ Head(jobQueue) \in Jobs /\ jobRows[Head(jobQueue)] # Unused
             /\ Tail(jobQueue) \in Seq(Jobs)
             /\ \A i \in DOMAIN Tail(jobQueue) :
                   i + 1 \in DOMAIN jobQueue /\ Tail(jobQueue)[i] = jobQueue[i + 1]
  <2>1. 1 \in DOMAIN jobQueue /\ Head(jobQueue) = jobQueue[1]
    BY <1>1, <1>3
  <2>2. Tail(jobQueue) \in Seq(Jobs)
    BY <1>1, <1>3
  <2>3. ASSUME NEW i \in DOMAIN Tail(jobQueue)
        PROVE  i + 1 \in DOMAIN jobQueue /\ Tail(jobQueue)[i] = jobQueue[i + 1]
    <3>1. Len(Tail(jobQueue)) = Len(jobQueue) - 1 /\ Len(jobQueue) \in Nat
      BY <1>1, <1>3
    <3>2. i \in 1 .. Len(jobQueue) - 1
      BY <2>2, <3>1
    <3> QED BY <1>1, <1>3, <3>1, <3>2
  <2> QED BY <1>1, <2>1, <2>2, <2>3
<1>4. pdfWorker'.stage # "idle" =>
         pdfWorker'.job \in Jobs /\ jobRows'[pdfWorker'.job] # Unused
  BY <1>1, <1>2, <1>3
<1>5. jobQueue' \in Seq(Jobs)
  <2>1. <<>> \in Seq(Jobs)
    OBVIOUS
  <2> QED BY <1>1, <1>3, <2>1
<1>6. ASSUME NEW i \in DOMAIN jobQueue'
      PROVE  jobQueue'[i] \in Jobs /\ jobRows[jobQueue'[i]] # Unused
  <2>1. CASE jobQueue' = jobQueue
    BY <1>1, <2>1
  <2>2. CASE jobQueue' = <<>>
    BY <2>2
  <2>3. CASE jobQueue # <<>> /\ jobQueue' = Tail(jobQueue)
    <3>1. i \in DOMAIN Tail(jobQueue)
      BY <2>3
    <3>2. i + 1 \in DOMAIN jobQueue /\ jobQueue'[i] = jobQueue[i + 1]
      BY <1>3, <2>3, <3>1
    <3> QED BY <1>1, <3>2
  <2> QED BY <2>1, <2>2, <2>3
<1> QED BY <1>2, <1>4, <1>5, <1>6 DEF Requested

(* Requests, and what the worker and the cleanup do.                       *)
LEMMA ReportsAreRequested ==
    ASSUME JobInv, NEW j \in Jobs, RequestReport(j)
    PROVE  JobInv'
<1> DEFINE created == [status |-> "pending", notices |-> {}]
           refused == [status |-> "failed", notices |-> {"failed"}]
<1>1. JobsTyped /\ Requested /\ \A i \in Jobs : Told(jobRows[i]) /\ Told(copy.rows[i])
  BY DEF JobInv
<1>2. Told(created) /\ Told(refused) /\ created # Unused /\ refused # Unused
      /\ created.status # "completed" /\ refused.status # "completed"
  BY RowsAreTold
<1>3. /\ jobRows[j] = Unused
      /\ UNCHANGED <<jobAge, pdfWorker, pdfs, cleaner, copy, jobLog>>
      /\ \/ jobRows' = [jobRows EXCEPT ![j] = created] /\ jobQueue' = Append(jobQueue, j)
         \/ jobRows' = [jobRows EXCEPT ![j] = refused] /\ jobQueue' = jobQueue
  BY DEF RequestReport
<1> HIDE DEF created, refused
<1>4. /\ DOMAIN jobRows' = Jobs /\ jobRows' = [i \in Jobs |-> jobRows'[i]]
      /\ \A i \in Jobs \ {j} : jobRows'[i] = jobRows[i]
      /\ jobRows'[j] \in {created, refused}
  BY <1>1, <1>3 DEF JobsTyped
<1>5. jobQueue' \in Seq(Jobs)
  <2>1. jobQueue \in Seq(Jobs)
    BY <1>1 DEF JobsTyped
  <2>2. jobQueue' = jobQueue \/ jobQueue' = Append(jobQueue, j)
    BY <1>3
  <2> QED BY <2>1, <2>2
<1>6. JobsTyped'
  BY <1>1, <1>3, <1>4, <1>5 DEF JobsTyped
<1>7. Onward
  BY <1>1, <1>2, <1>3, <1>4 DEF Onward, HasRow
<1>8. Requested'
  <2>1. pdfWorker'.stage # "idle" => jobRows'[pdfWorker'.job] # Unused
    BY <1>1, <1>3, <1>7 DEF Requested, JobsTyped, Onward
  <2>2. ASSUME NEW i \in DOMAIN jobQueue' PROVE jobRows'[jobQueue'[i]] # Unused
    <3>1. CASE jobQueue' = jobQueue
      <4>1. jobQueue \in Seq(Jobs) /\ i \in DOMAIN jobQueue
        BY <1>1, <3>1 DEF JobsTyped
      <4>2. jobQueue[i] \in Jobs /\ jobRows[jobQueue[i]] # Unused
        BY <1>1, <4>1 DEF Requested
      <4> QED BY <1>7, <3>1, <4>2 DEF Onward
    <3>2. CASE jobQueue' = Append(jobQueue, j)
      <4>1. jobQueue'[i] = j \/ (i \in DOMAIN jobQueue /\ jobQueue'[i] = jobQueue[i])
        <5>1. jobQueue \in Seq(Jobs) /\ i \in DOMAIN Append(jobQueue, j)
          BY <1>1, <3>2 DEF JobsTyped
        <5>2. CASE i \in DOMAIN jobQueue
          BY <3>2, <5>1, <5>2
        <5>3. CASE i \notin DOMAIN jobQueue
          BY <3>2, <5>1, <5>3
        <5> QED BY <5>2, <5>3
      <4>2. CASE jobQueue'[i] = j
        BY <1>2, <1>4, <4>2
      <4>3. CASE i \in DOMAIN jobQueue /\ jobQueue'[i] = jobQueue[i]
        <5>1. jobQueue \in Seq(Jobs)
          BY <1>1 DEF JobsTyped
        <5>2. jobQueue[i] \in Jobs /\ jobRows[jobQueue[i]] # Unused
          BY <1>1, <4>3, <5>1 DEF Requested
        <5> QED BY <1>7, <4>3, <5>2 DEF Onward
      <4> QED BY <4>1, <4>2, <4>3
    <3> QED BY <1>3, <3>1, <3>2
  <2> QED BY <2>1, <2>2 DEF Requested
<1>9. /\ \A i \in Jobs : jobRows'[i].status = "completed" => jobRows[i].status = "completed"
      /\ jobAge' \in [Jobs -> Nat] /\ \A i \in Jobs : jobAge'[i] >= jobAge[i]
  <2>1. \A i \in Jobs : jobRows'[i].status = "completed" => jobRows[i].status = "completed"
    BY <1>2, <1>4
  <2>2. jobAge' \in [Jobs -> Nat] /\ \A i \in Jobs : jobAge'[i] >= jobAge[i]
    BY <1>1, <1>3 DEF JobsTyped
  <2> QED BY <2>1, <2>2
<1>10. FileWaits' /\ OfferedHasFile' /\ CopyServes'
  <2>1. CopyGoesOn
    BY <1>1, <1>3 DEF CopyGoesOn, JobsTyped
  <2> QED BY <1>3, <1>9, <2>1, ExpiredStaysExpired, FilesStay, CopyStays
<1>11. Young(pdfs)' /\ Young(copy.files)'
  <2>1. Young(pdfs) /\ Young(copy.files) /\ pdfs \in [Jobs -> Int] /\ copy.files \in [Jobs -> Int]
    BY <1>1 DEF JobInv, JobsTyped, CopyState
  <2> QED BY <1>3, <1>7, <1>9, <2>1, FilesStayYoung DEF Young
<1>12. DirStands'
  BY <1>3 DEF JobInv, DirStands
<1> QED BY <1>1, <1>3, <1>6, <1>7, <1>8, <1>10, <1>11, <1>12 DEF JobInv, Onward

(* What every step but a request, a backup and a restore keeps.            *)
LEMMA JobsGo ==
    ASSUME JobInv, Onward, CopyGoesOn,
           jobAge' \in [Jobs -> Nat], \A j \in Jobs : jobAge'[j] >= jobAge[j],
           pdfs' \in [Jobs -> Int], Young(pdfs)', Young(copy.files)', DirStands',
           \A j \in Jobs : pdfs[j] # NoPdf => pdfs'[j] # NoPdf \/ JobExpired(j),
           jobLog' \in LogState,
           pdfWorker' \in [job : Nat, stage : Stages],
           jobQueue' = jobQueue \/ jobQueue' = <<>> \/ (jobQueue # <<>> /\ jobQueue' = Tail(jobQueue)),
           \/ pdfWorker'.stage = "idle"
           \/ pdfWorker.stage # "idle" /\ pdfWorker'.job = pdfWorker.job
           \/ jobQueue # <<>> /\ pdfWorker'.job = Head(jobQueue),
           pdfWorker'.stage = "written" =>
               \/ pdfWorker'.job \in Jobs /\ pdfs'[pdfWorker'.job] # NoPdf
               \/ pdfWorker.stage = "written" /\ pdfWorker'.job = pdfWorker.job,
           \A j \in Jobs : jobRows'[j].status = "completed" =>
               \/ jobRows[j].status = "completed"
               \/ pdfWorker.stage = "written" /\ j = pdfWorker.job
    PROVE  JobInv'
<1>1. /\ Requested' /\ jobQueue' \in Seq(Jobs)
      /\ pdfWorker'.stage # "idle" => pdfWorker'.job \in Jobs
  BY WaitingWasRequested
<1>2. JobsTyped'
  BY <1>1 DEF JobsTyped, Onward, CopyGoesOn
<1>3. \A j \in Jobs : JobExpired(j) => JobExpired(j)'
  BY ExpiredStaysExpired
<1>4. FileWaits' /\ OfferedHasFile'
  BY <1>3, FilesStay
<1>5. CopyServes' /\ \A j \in Jobs : Told(copy'.rows[j])
  BY <1>3, CopyStays
<1> QED BY <1>1, <1>2, <1>4, <1>5 DEF JobInv, Onward

(* The same where no file is written and none grows older.                 *)
LEMMA JobsGoOn ==
    ASSUME JobInv, Onward, copy' = copy \/ copy' = NoCopy,
           jobAge' = jobAge, jobLog' \in LogState, jobLog'.dir = jobLog.dir,
           \A j \in Jobs : pdfs'[j] = pdfs[j] \/ (pdfs'[j] = NoPdf /\ JobExpired(j)),
           pdfs' \in [Jobs -> Int],
           pdfWorker' \in [job : Nat, stage : Stages],
           jobQueue' = jobQueue \/ jobQueue' = <<>> \/ (jobQueue # <<>> /\ jobQueue' = Tail(jobQueue)),
           \/ pdfWorker'.stage = "idle"
           \/ pdfWorker.stage # "idle" /\ pdfWorker'.job = pdfWorker.job
           \/ jobQueue # <<>> /\ pdfWorker'.job = Head(jobQueue),
           pdfWorker'.stage = "written" =>
               pdfWorker.stage = "written" /\ pdfWorker'.job = pdfWorker.job,
           \A j \in Jobs : jobRows'[j].status = "completed" =>
               \/ jobRows[j].status = "completed"
               \/ pdfWorker.stage = "written" /\ j = pdfWorker.job
    PROVE  JobInv'
<1>1. jobAge' \in [Jobs -> Nat] /\ \A j \in Jobs : jobAge'[j] >= jobAge[j]
  BY DEF JobInv, JobsTyped
<1>2. CopyGoesOn /\ \A j \in Jobs : copy'.files[j] = NoPdf \/ copy'.files[j] = copy.files[j]
  <2>1. copy \in CopyState
    BY DEF JobInv, JobsTyped
  <2> QED BY <2>1, NoCopyIsOne DEF CopyGoesOn
<1>3. Young(pdfs)' /\ Young(copy.files)'
  <2>1. Young(pdfs) /\ Young(copy.files) /\ pdfs \in [Jobs -> Int] /\ copy.files \in [Jobs -> Int]
    BY DEF JobInv, JobsTyped, CopyState
  <2> QED BY <1>1, <1>2, <2>1, FilesStayYoung DEF Young
<1>4. DirStands'
  BY DEF JobInv, DirStands
<1>5. \A j \in Jobs : pdfs[j] # NoPdf => pdfs'[j] # NoPdf \/ JobExpired(j)
  OBVIOUS
<1> QED BY <1>1, <1>2, <1>3, <1>4, <1>5, JobsGo

LEMMA TroubleIsCounted ==
    ASSUME JobInv, Troubled
    PROVE  jobLog' \in LogState /\ jobLog'.dir = jobLog.dir
<1> DEFINE n == jobLog.faults + 1
<1>1. jobLog \in LogState /\ n \in Nat
  BY DEF JobInv, JobsTyped, LogState
<1>2. jobLog' = [jobLog EXCEPT !.faults = n]
  BY DEF Troubled
<1> HIDE DEF n
<1> QED BY <1>1, <1>2 DEF LogState

LEMMA TypesHold ==
    ASSUME JobInv
    PROVE  /\ jobAge \in [Jobs -> Nat] /\ \A j \in Jobs : jobAge[j] >= jobAge[j]
           /\ pdfs \in [Jobs -> Int] /\ copy \in CopyState
           /\ jobLog \in LogState
           /\ pdfWorker \in [job : Nat, stage : Stages]
           /\ pdfWorker.stage # "idle" => pdfWorker.job \in Jobs
           /\ IdleWorker \in [job : Nat, stage : Stages] /\ IdleWorker.stage = "idle"
           /\ jobRows' = jobRows => Onward
<1>1. IdleWorker \in [job : Nat, stage : Stages] /\ IdleWorker.stage = "idle"
  BY DEF IdleWorker, Stages
<1>2. jobAge \in [Jobs -> Nat] /\ \A j \in Jobs : jobAge[j] >= jobAge[j]
  BY DEF JobInv, JobsTyped
<1> QED BY <1>1, <1>2, SameRows DEF JobInv, JobsTyped

LEMMA StageMoves ==
    ASSUME JobInv, NEW from \in Stages \ {"idle"}, NEW to \in Stages, JobStage(from, to)
    PROVE  /\ pdfWorker' \in [job : Nat, stage : Stages] /\ pdfWorker'.stage = to
           /\ pdfWorker'.job = pdfWorker.job /\ pdfWorker.stage = from
           /\ pdfWorker.job \in Jobs
<1>1. pdfWorker \in [job : Nat, stage : Stages] /\ pdfWorker.stage = from
      /\ pdfWorker' = [pdfWorker EXCEPT !.stage = to]
  BY TypesHold DEF JobStage
<1> QED BY <1>1, TypesHold

LEMMA ReportsAreMade ==
    ASSUME JobInv, PdfStep
    PROVE  JobInv'
<1>1. CASE TakeJob
  <2>1. /\ jobQueue # <<>> /\ jobQueue' = Tail(jobQueue)
        /\ pdfWorker' = [job |-> Head(jobQueue), stage |-> "taken"]
        /\ UNCHANGED <<jobRows, jobAge, pdfs, cleaner, copy, jobLog>>
    BY <1>1 DEF TakeJob
  <2>2. jobQueue \in Seq(Jobs)
    BY DEF JobInv, JobsTyped
  <2>3. Head(jobQueue) \in Jobs /\ Head(jobQueue) \in Nat
    <3>1. Head(jobQueue) \in Jobs
      BY <2>1, <2>2
    <3> QED BY <3>1, JobsAreNumbers
  <2>4. pdfWorker' \in [job : Nat, stage : Stages] /\ pdfWorker'.job = Head(jobQueue)
        /\ pdfWorker'.stage = "taken"
    BY <2>1, <2>3 DEF Stages
  <2> QED BY <2>1, <2>4, TypesHold, JobsGoOn
<1>2. CASE StartJob
  <2>1. /\ jobRows' = Updated(pdfWorker.job, "processing")
        /\ UNCHANGED <<jobAge, jobQueue, pdfs, cleaner, copy, jobLog>>
        /\ JobStage("taken", "fetching")
    BY <1>2 DEF StartJob
  <2>2. /\ pdfWorker' \in [job : Nat, stage : Stages] /\ pdfWorker'.stage = "fetching"
        /\ pdfWorker'.job = pdfWorker.job /\ pdfWorker.stage = "taken" /\ pdfWorker.job \in Jobs
    BY <2>1, StageMoves DEF Stages
  <2>3. Onward /\ \A i \in Jobs : jobRows'[i].status = "completed" => jobRows[i].status = "completed"
    BY <2>1, <2>2, UpdateGoesOn
  <2> QED BY <2>1, <2>2, <2>3, TypesHold, JobsGoOn
<1>3. CASE RenderJob
  <2>1. /\ UNCHANGED <<jobRows, jobAge, jobQueue, pdfs, cleaner, copy, jobLog>>
        /\ JobStage("fetching", "rendered")
    BY <1>3 DEF RenderJob
  <2>2. /\ pdfWorker' \in [job : Nat, stage : Stages] /\ pdfWorker'.stage = "rendered"
        /\ pdfWorker'.job = pdfWorker.job /\ pdfWorker.stage = "fetching"
    BY <2>1, StageMoves DEF Stages
  <2> QED BY <2>1, <2>2, TypesHold, JobsGoOn
<1>4. CASE WriteFile
  <2> DEFINE z == 0
             t == TRUE
  <2>1. /\ UNCHANGED <<jobRows, jobAge, jobQueue, cleaner, copy>>
        /\ pdfs' = [pdfs EXCEPT ![pdfWorker.job] = z] /\ jobLog' = [jobLog EXCEPT !.dir = t]
        /\ JobStage("rendered", "written") /\ z \in Int /\ z # NoPdf /\ t \in BOOLEAN
    BY <1>4 DEF WriteFile, NoPdf
  <2>2. \A j \in Jobs : z <= jobAge[j]
    BY DEF JobInv, JobsTyped
  <2>3. t
    OBVIOUS
  <2> HIDE DEF z, t
  <2>4. /\ pdfWorker' \in [job : Nat, stage : Stages] /\ pdfWorker'.stage = "written"
        /\ pdfWorker'.job = pdfWorker.job /\ pdfWorker.stage = "rendered" /\ pdfWorker.job \in Jobs
    BY <2>1, StageMoves DEF Stages
  <2>5. /\ pdfs' \in [Jobs -> Int] /\ pdfs'[pdfWorker.job] = z
        /\ \A j \in Jobs : pdfs'[j] = pdfs[j] \/ (j = pdfWorker.job /\ pdfs'[j] = z)
    BY <2>1, <2>4, TypesHold
  <2>6. jobLog' \in LogState /\ jobLog'.dir
    BY <2>1, <2>3, TypesHold DEF LogState
  <2>7. Young(pdfs)' /\ Young(copy.files)' /\ DirStands'
    <3>1. jobRows[pdfWorker.job] # Unused
      BY <2>4 DEF JobInv, Requested
    <3>2. Young(pdfs) /\ Young(copy.files) /\ jobRows' = jobRows /\ jobAge' = jobAge /\ copy' = copy
      BY <2>1 DEF JobInv
    <3>3. Young(copy.files)'
      BY <3>2 DEF Young, JobExpired
    <3>4. Young(pdfs)'
      BY <2>2, <2>5, <3>1, <3>2 DEF Young, JobExpired
    <3> QED BY <2>6, <3>3, <3>4 DEF DirStands
  <2>8. CopyGoesOn
    BY <2>1, TypesHold DEF CopyGoesOn
  <2>9. \A j \in Jobs : pdfs[j] # NoPdf => pdfs'[j] # NoPdf
    BY <2>1, <2>5
  <2>10. pdfWorker'.job \in Jobs /\ pdfs'[pdfWorker'.job] # NoPdf
    BY <2>1, <2>4, <2>5
  <2> QED BY <2>1, <2>4, <2>5, <2>6, <2>7, <2>8, <2>9, <2>10, TypesHold, JobsGo
<1>5. CASE CompleteJob
  <2>1. /\ jobRows' = Updated(pdfWorker.job, "completed") /\ pdfWorker' = IdleWorker
        /\ UNCHANGED <<jobAge, jobQueue, pdfs, cleaner, copy, jobLog>>
        /\ pdfWorker.stage = "written"
    BY <1>5 DEF CompleteJob
  <2>2. pdfWorker.job \in Jobs
    BY <2>1, TypesHold
  <2>3. Onward /\ \A i \in Jobs : jobRows'[i].status = "completed" =>
                     jobRows[i].status = "completed" \/ i = pdfWorker.job
    BY <2>1, <2>2, UpdateGoesOn
  <2> QED BY <2>1, <2>2, <2>3, TypesHold, JobsGoOn
<1>6. CASE MarkFailed
  <2>1. /\ jobRows' = Updated(pdfWorker.job, "failed") /\ pdfWorker' = IdleWorker
        /\ UNCHANGED <<jobAge, jobQueue, pdfs, cleaner, copy, jobLog>>
        /\ pdfWorker.stage = "failing"
    BY <1>6 DEF MarkFailed
  <2>2. pdfWorker.job \in Jobs
    BY <2>1, TypesHold
  <2>3. Onward /\ \A i \in Jobs : jobRows'[i].status = "completed" => jobRows[i].status = "completed"
    BY <2>1, <2>2, UpdateGoesOn
  <2> QED BY <2>1, <2>2, <2>3, TypesHold, JobsGoOn
<1> QED BY <1>1, <1>2, <1>3, <1>4, <1>5, <1>6 DEF PdfStep

LEMMA ReportsAreCleaned ==
    ASSUME JobInv, CleanStep
    PROVE  JobInv'
<1>1. CASE CleanFiles
  <2> DEFINE expired == {j \in Jobs : HasRow(j) /\ JobExpired(j)}
  <2>1. /\ pdfs' = [j \in Jobs |-> IF j \in expired THEN NoPdf ELSE pdfs[j]]
        /\ UNCHANGED <<jobRows, jobAge, jobQueue, pdfWorker, copy, jobLog>>
    BY <1>1 DEF CleanFiles
  <2>2. pdfs' \in [Jobs -> Int]
    BY <2>1, TypesHold DEF NoPdf
  <2>3. \A j \in Jobs : pdfs'[j] = pdfs[j] \/ (pdfs'[j] = NoPdf /\ JobExpired(j))
    BY <2>1
  <2> QED BY <2>1, <2>2, <2>3, TypesHold, JobsGoOn
<1>2. CASE PruneJobs
  <2> DEFINE S == {j \in Jobs : HasRow(j) /\ JobExpired(j)}
  <2>1. /\ jobRows' = [j \in Jobs |-> IF j \in S THEN GoneFrom(jobRows[j]) ELSE jobRows[j]]
        /\ UNCHANGED <<jobAge, jobQueue, pdfWorker, pdfs, copy, jobLog>>
    BY <1>2 DEF PruneJobs, GoneFrom
  <2>2. Onward /\ \A j \in Jobs : jobRows'[j].status = "completed" => jobRows[j].status = "completed"
    <3> S \in SUBSET Jobs
      OBVIOUS
    <3> HIDE DEF S
    <3> QED BY <2>1, RowsGo
  <2> QED BY <2>1, <2>2, TypesHold, JobsGoOn
<1>3. CASE SweepOrphans
  <2>1. /\ pdfs' = [j \in Jobs |-> IF ~HasRow(j) /\ pdfs[j] > Life THEN NoPdf ELSE pdfs[j]]
        /\ UNCHANGED <<jobRows, jobAge, jobQueue, pdfWorker, copy, jobLog>>
    BY <1>3 DEF SweepOrphans
  <2>2. pdfs' \in [Jobs -> Int]
    BY <2>1, TypesHold DEF NoPdf
  <2>3. ASSUME NEW j \in Jobs, pdfs[j] > Life
        PROVE  JobExpired(j)
    <3>1. pdfs[j] # NoPdf => pdfs[j] <= jobAge[j] \/ JobExpired(j)
      BY DEF JobInv, Young
    <3>2. pdfs[j] \in Int /\ jobAge[j] \in Nat
      BY TypesHold
    <3> QED BY <2>3, <3>1, <3>2, JobsAreNumbers DEF JobExpired, NoPdf
  <2>4. \A j \in Jobs : pdfs'[j] = pdfs[j] \/ (pdfs'[j] = NoPdf /\ JobExpired(j))
    BY <2>1, <2>3
  <2> QED BY <2>1, <2>2, <2>4, TypesHold, JobsGoOn
<1> QED BY <1>1, <1>2, <1>3 DEF CleanStep

LEMMA FilesGrowOlder ==
    ASSUME JobInv, JobTick, NEW files, files \in [Jobs -> Int], Young(files)
    PROVE  /\ AgedFiles(files) \in [Jobs -> Int]
           /\ \A j \in Jobs : AgedFiles(files)[j] = NoPdf <=> files[j] = NoPdf
           /\ \A j \in Jobs : AgedFiles(files)[j] # NoPdf =>
                 jobRows'[j] # Unused /\ (AgedFiles(files)[j] <= jobAge'[j] \/ JobExpired(j)')
<1>1. /\ jobAge' = [j \in Jobs |->
                      IF jobRows[j] # Unused /\ jobAge[j] < Life THEN jobAge[j] + 1 ELSE jobAge[j]]
      /\ jobRows' = jobRows
  BY DEF JobTick
<1>2. AgedFiles(files) = [j \in Jobs |-> IF files[j] \in 0 .. Life THEN files[j] + 1 ELSE files[j]]
  BY DEF AgedFiles
<1>3. AgedFiles(files) \in [Jobs -> Int] /\ \A j \in Jobs : AgedFiles(files)[j] = NoPdf <=> files[j] = NoPdf
  BY <1>2, JobsAreNumbers DEF NoPdf
<1>4. ASSUME NEW j \in Jobs, AgedFiles(files)[j] # NoPdf
      PROVE  jobRows[j] # Unused /\ (AgedFiles(files)[j] <= jobAge'[j] \/ jobAge'[j] >= Life)
  <2>1. jobRows[j] # Unused /\ (files[j] <= jobAge[j] \/ jobAge[j] >= Life)
    BY <1>3, <1>4 DEF Young, JobExpired
  <2>2. jobAge'[j] = IF jobAge[j] < Life THEN jobAge[j] + 1 ELSE jobAge[j]
    BY <1>1, <2>1
  <2>3. files[j] \in Int /\ jobAge[j] \in Nat /\ Life \in Nat
        /\ AgedFiles(files)[j] \in {files[j], files[j] + 1}
    BY <1>2, TypesHold, JobsAreNumbers
  <2> QED BY <2>1, <2>2, <2>3
<1> QED BY <1>1, <1>3, <1>4 DEF JobExpired

LEMMA ReportsAge ==
    ASSUME JobInv, JobTick
    PROVE  JobInv'
<1> DEFINE files == copy.files
<1>1. /\ jobAge' = [j \in Jobs |->
                      IF jobRows[j] # Unused /\ jobAge[j] < Life THEN jobAge[j] + 1 ELSE jobAge[j]]
      /\ pdfs' = AgedFiles(pdfs) /\ copy' = [copy EXCEPT !.files = AgedFiles(files)]
      /\ UNCHANGED <<jobRows, jobQueue, pdfWorker, cleaner, jobLog>>
  BY DEF JobTick
<1>2. jobAge' \in [Jobs -> Nat] /\ \A j \in Jobs : jobAge'[j] >= jobAge[j]
  BY <1>1, TypesHold
<1>3. copy \in CopyState /\ files \in [Jobs -> Int] /\ Young(files) /\ Young(pdfs)
  BY TypesHold DEF CopyState, JobInv
<1> HIDE DEF files
<1>4. /\ pdfs' \in [Jobs -> Int] /\ \A j \in Jobs : pdfs'[j] = NoPdf <=> pdfs[j] = NoPdf
      /\ \A j \in Jobs : pdfs'[j] # NoPdf =>
            jobRows'[j] # Unused /\ (pdfs'[j] <= jobAge'[j] \/ JobExpired(j)')
  BY <1>1, <1>3, TypesHold, FilesGrowOlder
<1>5. /\ AgedFiles(files) \in [Jobs -> Int] /\ \A j \in Jobs : AgedFiles(files)[j] = NoPdf <=> files[j] = NoPdf
      /\ \A j \in Jobs : AgedFiles(files)[j] # NoPdf =>
            jobRows'[j] # Unused /\ (AgedFiles(files)[j] <= jobAge'[j] \/ JobExpired(j)')
  BY <1>3, FilesGrowOlder
<1>6. /\ copy' \in CopyState /\ copy'.files = AgedFiles(files)
      /\ copy'.stage = copy.stage /\ copy'.rows = copy.rows /\ copy'.dir = copy.dir
  BY <1>1, <1>3, <1>5 DEF CopyState
<1>7. CopyGoesOn
  BY <1>5, <1>6 DEF CopyGoesOn, files
<1>8. Young(pdfs)' /\ Young(copy.files)'
  BY <1>4, <1>5, <1>6 DEF Young
<1>9. DirStands'
  BY <1>1, <1>4 DEF JobInv, DirStands
<1> QED BY <1>1, <1>2, <1>4, <1>7, <1>8, <1>9, TypesHold, JobsGo

(* Failures, deletions and restarts.                                       *)
LEMMA ReportsSurviveTrouble ==
    ASSUME JobInv, FailJob \/ MarkFailedFails \/ DeleteJobs \/ RestartReports \/ StartBesideOld
    PROVE  JobInv'
<1>1. CASE FailJob
  <2>1. /\ pdfWorker' = [pdfWorker EXCEPT !.stage = "failing"] /\ Troubled
        /\ pdfWorker.stage \in {"taken", "fetching", "rendered", "written"}
        /\ UNCHANGED <<jobRows, jobAge, jobQueue, pdfs, cleaner, copy>>
    BY <1>1 DEF FailJob
  <2>2. /\ pdfWorker' \in [job : Nat, stage : Stages] /\ pdfWorker'.stage = "failing"
        /\ pdfWorker'.job = pdfWorker.job
    BY <2>1, TypesHold DEF Stages
  <2> QED BY <2>1, <2>2, TypesHold, TroubleIsCounted, JobsGoOn
<1>2. CASE MarkFailedFails
  <2>1. /\ pdfWorker' = IdleWorker /\ Troubled
        /\ UNCHANGED <<jobRows, jobAge, jobQueue, pdfs, cleaner, copy>>
    BY <1>2 DEF MarkFailedFails
  <2> QED BY <2>1, TypesHold, TroubleIsCounted, JobsGoOn
<1>3. CASE DeleteJobs
  <2> DEFINE S == {j \in Jobs : HasRow(j)}
  <2>1. /\ jobRows' = [j \in Jobs |-> IF j \in S THEN GoneFrom(jobRows[j]) ELSE jobRows[j]]
        /\ Troubled /\ UNCHANGED <<jobAge, jobQueue, pdfWorker, pdfs, cleaner, copy>>
    BY <1>3 DEF DeleteJobs, GoneFrom
  <2>2. Onward /\ \A j \in Jobs : jobRows'[j].status = "completed" => jobRows[j].status = "completed"
    <3> S \in SUBSET Jobs
      OBVIOUS
    <3> HIDE DEF S
    <3> QED BY <2>1, RowsGo
  <2> QED BY <2>1, <2>2, TypesHold, TroubleIsCounted, JobsGoOn
<1>4. CASE RestartReports
  <2>1. /\ jobRows' = FailStale(jobRows) /\ Troubled /\ (copy' = copy \/ copy' = NoCopy)
        /\ jobQueue' = <<>> /\ pdfWorker' = IdleWorker /\ UNCHANGED <<jobAge, pdfs>>
    BY <1>4 DEF RestartReports, Restarted
  <2>2. Onward /\ \A j \in Jobs : jobRows'[j].status = "completed" => jobRows[j].status = "completed"
    BY <2>1, StaleRowsFail
  <2> QED BY <2>1, <2>2, TypesHold, TroubleIsCounted, JobsGoOn
<1>5. CASE StartBesideOld
  <2>1. /\ jobRows' = FailStale(jobRows) /\ Troubled
        /\ UNCHANGED <<jobAge, jobQueue, pdfWorker, pdfs, cleaner, copy>>
    BY <1>5 DEF StartBesideOld
  <2>2. Onward /\ \A j \in Jobs : jobRows'[j].status = "completed" => jobRows[j].status = "completed"
    BY <2>1, StaleRowsFail
  <2> QED BY <2>1, <2>2, TypesHold, TroubleIsCounted, JobsGoOn
<1> QED BY <1>1, <1>2, <1>3, <1>4, <1>5

(* A backup copies the rows and then the files.                            *)
LEMMA ReportsAreBackedUp ==
    ASSUME JobInv, BackUpRows \/ BackUpFiles
    PROVE  JobInv'
<1>1. /\ UNCHANGED <<jobRows, jobAge, jobQueue, pdfWorker, pdfs, cleaner, jobLog>>
  BY DEF BackUpRows, BackUpFiles
<1>2. copy' \in CopyState /\ Young(copy'.files) /\ CopyServes' /\ \A j \in Jobs : Told(copy'.rows[j])
  <2>1. CASE BackUpRows
    <3> DEFINE rows == jobRows
    <3>1. copy' = [NoCopy EXCEPT !.stage = "rows", !.rows = rows]
      BY <2>1 DEF BackUpRows
    <3>2. rows \in [Jobs -> JobRow] /\ \A j \in Jobs : Told(rows[j])
      <4>1. \A j \in Jobs : jobRows[j] \in JobRow /\ Told(jobRows[j])
        BY DEF JobInv, Told
      <4> QED BY <4>1 DEF JobInv, JobsTyped
    <3>3. Covered(rows, pdfs)
      BY DEF JobInv, OfferedHasFile, Covered
    <3> HIDE DEF rows
    <3>4. copy' \in CopyState /\ copy'.rows = rows /\ copy'.stage = "rows" /\ copy'.files = NoCopy.files
      BY <3>1, <3>2, NoCopyIsOne DEF CopyState
    <3>5. Covered(copy.rows, pdfs)'
      BY <1>1, <3>3, <3>4 DEF Covered, JobExpired
    <3> QED BY <3>2, <3>4, <3>5, NoCopyIsOne DEF CopyServes, Young
  <2>2. CASE BackUpFiles
    <3> DEFINE dir == jobLog.dir
               files == pdfs
    <3>1. copy.stage = "rows" /\ copy' = [copy EXCEPT !.stage = "taken", !.files = files, !.dir = dir]
      BY <2>2 DEF BackUpFiles
    <3>2. files \in [Jobs -> Int] /\ dir \in BOOLEAN /\ copy \in CopyState
      BY TypesHold DEF LogState
    <3>3. Covered(copy.rows, files) /\ Young(files) /\ (~dir => \A j \in Jobs : files[j] = NoPdf)
      BY <3>1 DEF JobInv, CopyServes, DirStands
    <3> HIDE DEF dir, files
    <3>4. /\ copy' \in CopyState /\ copy'.rows = copy.rows /\ copy'.stage = "taken"
          /\ copy'.files = files /\ (copy'.dir <=> dir)
      BY <3>1, <3>2 DEF CopyState
    <3>5. Covered(copy.rows, copy.files)'
      BY <1>1, <3>3, <3>4 DEF Covered, JobExpired
    <3>6. \A j \in Jobs : Told(copy'.rows[j])
      BY <3>4 DEF JobInv
    <3> QED BY <3>3, <3>4, <3>5, <3>6 DEF CopyServes
  <2> QED BY <2>1, <2>2
<1>3. Young(copy.files)' /\ Young(pdfs)'
  BY <1>1, <1>2 DEF JobInv, Young, JobExpired
<1> QED BY <1>1, <1>2, <1>3
        DEF JobInv, JobsTyped, Requested, FileWaits, OfferedHasFile, DirStands, HasRow, JobExpired

(* A restore brings back rows and their files, and starts anew.            *)
LEMMA ReportsAreRestored ==
    ASSUME JobInv, RestoreJobs
    PROVE  JobInv'
<1> DEFINE n == jobLog.faults + 1
           dir == jobLog.dir \/ copy.dir
           rows == [j \in Jobs |->
                      IF copy.rows[j] = Unused /\ jobRows[j] # Unused THEN GoneRow ELSE copy.rows[j]]
<1>1. /\ jobRows' = FailStale(rows) /\ jobQueue' = <<>> /\ pdfWorker' = IdleWorker
      /\ pdfs' = IF copy.dir THEN copy.files ELSE pdfs
      /\ jobLog' = [faults |-> n, dir |-> dir] /\ UNCHANGED <<jobAge, copy>>
      /\ copy.stage = "taken"
  BY DEF RestoreJobs, Restarted
<1>2. n \in Nat /\ dir \in BOOLEAN
  BY TypesHold DEF LogState, CopyState
<1>3. ASSUME NEW j \in Jobs
      PROVE  /\ Told(rows[j]) /\ (jobRows[j] # Unused => rows[j] # Unused)
             /\ rows[j].status = "completed" => copy.rows[j].status = "completed"
  <2>1. GoneRow.status # "completed"
    BY DEF GoneRow, GoneJob
  <2> QED BY <2>1, RowsAreTold DEF JobInv
<1>4. dir <=> jobLog.dir \/ copy.dir
  OBVIOUS
<1> HIDE DEF n, dir, rows
<1>5. DOMAIN jobRows' = Jobs /\ jobRows' = [j \in Jobs |-> jobRows'[j]]
  BY <1>1 DEF FailStale
<1>6. ASSUME NEW j \in Jobs
      PROVE  /\ Told(jobRows'[j]) /\ (jobRows[j] # Unused => jobRows'[j] # Unused)
             /\ jobRows'[j].status = "completed" => copy.rows[j].status = "completed"
  BY <1>1, <1>3, StaleRowFails
<1>7. jobLog' \in LogState /\ (jobLog'.dir <=> jobLog.dir \/ copy.dir)
  BY <1>1, <1>2, <1>4 DEF LogState
<1>8. pdfs' \in [Jobs -> Int] /\ (copy.dir => pdfs' = copy.files) /\ (~copy.dir => pdfs' = pdfs)
  BY <1>1, TypesHold DEF CopyState
<1>9. JobsTyped'
  <2>1. jobQueue' \in Seq(Jobs)
    BY <1>1
  <2> QED BY <1>1, <1>5, <1>7, <1>8, <2>1, TypesHold DEF JobsTyped
<1>10. Requested' /\ FileWaits'
  <2>1. pdfWorker'.stage = "idle" /\ DOMAIN jobQueue' = {}
    BY <1>1, TypesHold
  <2> QED BY <2>1 DEF Requested, FileWaits
<1>11. Young(pdfs)' /\ Young(copy.files)'
  <2>1. Young(pdfs) /\ Young(copy.files) /\ jobAge' = jobAge /\ copy' = copy
    BY <1>1 DEF JobInv
  <2>2. Young(copy.files)'
    BY <1>6, <2>1 DEF Young, JobExpired
  <2>3. Young(pdfs)'
    BY <1>6, <1>8, <2>1 DEF Young, JobExpired
  <2> QED BY <2>2, <2>3
<1>12. Covered(copy.rows, copy.files) /\ (~copy.dir => \A j \in Jobs : copy.files[j] = NoPdf)
  BY <1>1 DEF JobInv, CopyServes
<1>13. CopyServes'
  <2>1. Covered(copy.rows, copy.files)'
    BY <1>1, <1>12 DEF Covered, JobExpired
  <2> QED BY <1>1, <1>12, <2>1 DEF CopyServes
<1>14. DirStands'
  BY <1>7, <1>8 DEF JobInv, DirStands
<1>15. OfferedHasFile'
  <2> SUFFICES ASSUME NEW j \in Jobs, jobRows'[j].status = "completed", ~(jobAge'[j] >= Life)
               PROVE  pdfs'[j] # NoPdf
    BY DEF OfferedHasFile, JobExpired
  <2>1. copy.files[j] # NoPdf
    BY <1>1, <1>6, <1>12 DEF Covered, JobExpired
  <2> QED BY <1>8, <1>12, <2>1
<1> QED BY <1>1, <1>6, <1>9, <1>10, <1>11, <1>13, <1>14, <1>15 DEF JobInv

LEMMA ReportsBegin == JobInit => JobInv
<1> SUFFICES ASSUME JobInit PROVE JobInv
  OBVIOUS
<1>1. /\ jobRows = [j \in Jobs |-> Unused] /\ jobAge = [j \in Jobs |-> 0]
      /\ jobQueue = <<>> /\ pdfWorker = IdleWorker /\ pdfs = [j \in Jobs |-> NoPdf]
      /\ copy = NoCopy
  BY DEF JobInit
<1>2. jobRows = [j \in Jobs |-> jobRows[j]] /\ DOMAIN jobRows = Jobs
  BY <1>1
<1>3. pdfWorker \in [job : Nat, stage : Stages] /\ pdfWorker.stage = "idle"
  BY <1>1 DEF IdleWorker, Stages
<1>4. jobLog \in LogState
  <2>1. jobLog \in [faults : {0}, dir : BOOLEAN]
    BY DEF JobInit
  <2> QED BY <2>1 DEF LogState
<1>5. pdfs \in [Jobs -> Int] /\ jobAge \in [Jobs -> Nat]
  BY <1>1 DEF NoPdf
<1>6. jobQueue \in Seq(Jobs) /\ DOMAIN jobQueue = {}
  BY <1>1
<1>7. JobsTyped /\ Requested /\ FileWaits
  BY <1>1, <1>2, <1>3, <1>4, <1>5, <1>6, NoCopyIsOne DEF JobsTyped, Requested, FileWaits
<1>8. \A j \in Jobs : jobRows[j] = Unused /\ copy.rows[j] = Unused /\ pdfs[j] = NoPdf /\ copy.files[j] = NoPdf
  BY <1>1, NoCopyIsOne
<1>9. Young(pdfs) /\ Young(copy.files) /\ DirStands /\ CopyServes
  BY <1>1, <1>8, NoCopyIsOne DEF Young, DirStands, CopyServes
<1> QED BY <1>7, <1>8, <1>9, RowsAreTold DEF JobInv, OfferedHasFile, Unused

LEMMA ReportsStep ==
    ASSUME JobInv, [JobNext]_jobVars
    PROVE  JobInv'
<1>1. CASE UNCHANGED jobVars
  BY <1>1 DEF jobVars, JobInv, JobsTyped, Requested, FileWaits, OfferedHasFile, HasRow, JobExpired,
              Young, Covered, CopyServes, DirStands
<1>2. CASE JobNext
  BY <1>2, ReportsAreRequested, ReportsAreMade, ReportsAreCleaned, ReportsAge,
     ReportsSurviveTrouble, ReportsAreBackedUp, ReportsAreRestored DEF JobNext
<1> QED BY <1>1, <1>2

LEMMA ReportsArePromised ==
    ASSUME JobInv
    PROVE  OneNotice /\ OfferedHasFile
<1>1. ASSUME NEW j \in Jobs
      PROVE  /\ Cardinality(jobRows[j].notices) <= 1
             /\ jobRows[j].status \in {"completed", "failed"} => jobRows[j].notices = {jobRows[j].status}
  <2>1. Told(jobRows[j])
    BY DEF JobInv
  <2>2. jobRows[j].notices \in {{}, {"completed"}, {"failed"}}
    BY <2>1 DEF Told, JobRow
  <2>3. /\ Cardinality({}) = 0 /\ Cardinality({"completed"}) = 1 /\ Cardinality({"failed"}) = 1
    BY FS_EmptySet, FS_Singleton
  <2> QED BY <2>1, <2>2, <2>3 DEF Told
<1> QED BY <1>1 DEF OneNotice, JobInv

(* The owner of a report job hears of its end once and hears the truth     *)
(* (update_report_job writes the end and its notice in one transaction and *)
(* only over an open row), whatever fails, restarts, is deleted or         *)
(* restored meanwhile.                                                     *)
THEOREM EndIsToldOnce == JobSpec => []OneNotice
<1>1. JobInv /\ [JobNext]_jobVars => JobInv'
  BY ReportsStep
<1>2. JobInv => OneNotice
  BY ReportsArePromised
<1> QED BY <1>1, <1>2, ReportsBegin, PTL DEF JobSpec

(* A report on offer has its file until it expires, also after a restore:  *)
(* the file is written before the row is completed, a backup copies the    *)
(* rows before the files, and the cleanup takes only files of jobs that    *)
(* have expired, the orphans among them.                                   *)
THEOREM OfferIsServed == JobSpec => []OfferedHasFile
<1>1. JobInv /\ [JobNext]_jobVars => JobInv'
  BY ReportsStep
<1>2. JobInv => OfferedHasFile
  BY ReportsArePromised
<1> QED BY <1>1, <1>2, ReportsBegin, PTL DEF JobSpec

-----------------------------------------------------------------------------
(* The live stream                                                         *)

StreamState == [resolved : BOOLEAN, open : BOOLEAN, closed : BOOLEAN, admin : BOOLEAN,
                items : Seq(BusEvents), resync : BOOLEAN, age : Nat]
PageState == [pc : {"loaded", "live", "down", "login"},
              behind : SUBSET BusEvents, gap : SUBSET BusEvents]
SessionState == [admin : BOOLEAN, revoked : Int, leaked : BOOLEAN]
BusState == [counted : SUBSET BusEvents, scheduled : Seq(BusEvents), lost : BOOLEAN, closed : BOOLEAN]

Holds(seq, x) == \E i \in DOMAIN seq : seq[i] = x
OnWay(b, s) ==
    {event \in BusEvents : event \in b.counted \/ Holds(b.scheduled, event) \/ Holds(s.items, event)}
Waiting(b) == Cardinality(b.counted) + Len(b.scheduled)

(* What an open stream still owes its page.                                *)
Owed(s, page, b) ==
    s.open /\ ~s.closed =>
        \/ page.behind \subseteq OnWay(b, s) \union page.gap
        \/ s.resync
        \/ b.lost /\ Waiting(b) > 0

(* The stream has the role of its session, the page waits for nothing it   *)
(* may not see, and the look at a revoked session falls due in time.       *)
Overseen(s, page, who, b) ==
    /\ \A event \in page.behind : VisibleTo(event, who.admin)
    /\ s.open \/ s.resolved => s.admin = who.admin
    /\ b.closed /\ s.open => s.closed
    /\ who.revoked <= Recheck /\ who.revoked >= Unrevoked
    /\ s.open /\ who.revoked # Unrevoked => s.age >= who.revoked
    /\ ~who.leaked

BusTyped ==
    /\ bus \in BusState /\ IsFiniteSet(bus.counted)
    /\ streams \in [Pages -> StreamState]
    /\ pages \in [Pages -> PageState]
    /\ sessions \in [Pages -> SessionState]

BusInv ==
    /\ BusTyped
    /\ \A p \in Pages :
         /\ Overseen(streams[p], pages[p], sessions[p], bus)
         /\ Owed(streams[p], pages[p], bus)

LEMMA BusNumbers ==
    /\ Backlog \in Nat /\ Backlog > 0 /\ Buffer \in Nat /\ Buffer > 0
    /\ Recheck \in Nat /\ Recheck > 0 /\ Unrevoked = -1
  BY EventBusAssumption DEF Unrevoked

LEMMA Appended ==
    ASSUME NEW S, NEW seq \in Seq(S), NEW e \in S
    PROVE  /\ Append(seq, e) \in Seq(S) /\ Len(Append(seq, e)) = Len(seq) + 1
           /\ Holds(Append(seq, e), e)
           /\ \A x : Holds(seq, x) => Holds(Append(seq, e), x)
<1>1. Append(seq, e) \in Seq(S) /\ Len(Append(seq, e)) = Len(seq) + 1
  OBVIOUS
<1>2. Holds(Append(seq, e), e)
  <2>1. Len(seq) + 1 \in DOMAIN Append(seq, e) /\ Append(seq, e)[Len(seq) + 1] = e
    OBVIOUS
  <2> QED BY <2>1 DEF Holds
<1>3. ASSUME NEW x, NEW i \in DOMAIN seq, seq[i] = x PROVE Holds(Append(seq, e), x)
  <2>1. i \in DOMAIN Append(seq, e) /\ Append(seq, e)[i] = x
    BY <1>3
  <2> QED BY <2>1 DEF Holds
<1> QED BY <1>1, <1>2, <1>3 DEF Holds

LEMMA Beheaded ==
    ASSUME NEW S, NEW seq \in Seq(S), seq # <<>>
    PROVE  /\ Head(seq) \in S /\ Tail(seq) \in Seq(S)
           /\ \A x : Holds(seq, x) => x = Head(seq) \/ Holds(Tail(seq), x)
<1>1. Head(seq) \in S /\ Tail(seq) \in Seq(S)
  OBVIOUS
<1>2. Len(seq) \in Nat /\ Len(Tail(seq)) = Len(seq) - 1
  OBVIOUS
<1>3. ASSUME NEW x, NEW i \in DOMAIN seq, seq[i] = x, x # Head(seq)
      PROVE  Holds(Tail(seq), x)
  <2>1. i \in 2 .. Len(seq)
    BY <1>3
  <2> DEFINE k == i - 1
  <2>2. k \in 1 .. Len(Tail(seq)) /\ k + 1 = i
    BY <1>2, <2>1
  <2> HIDE DEF k
  <2>3. Tail(seq)[k] = seq[k + 1]
    BY <1>2, <2>2
  <2>4. k \in DOMAIN Tail(seq) /\ Tail(seq)[k] = x
    BY <1>1, <1>3, <2>2, <2>3
  <2> QED BY <2>4 DEF Holds
<1> QED BY <1>1, <1>3 DEF Holds

LEMMA WaitingIsCounted ==
    ASSUME NEW b \in BusState, IsFiniteSet(b.counted)
    PROVE  Cardinality(b.counted) \in Nat /\ Len(b.scheduled) \in Nat /\ Waiting(b) \in Nat
<1>1. Cardinality(b.counted) \in Nat
  BY FS_CardinalityType
<1>2. Len(b.scheduled) \in Nat
  BY DEF BusState
<1> QED BY <1>1, <1>2 DEF Waiting

(* A step of one page leaves the others as they are.                       *)
LEMMA OnePageMoves ==
    ASSUME BusInv, NEW p \in Pages, BusTyped', bus' = bus,
           \A q \in Pages \ {p} :
               streams'[q] = streams[q] /\ pages'[q] = pages[q] /\ sessions'[q] = sessions[q],
           Overseen(streams'[p], pages'[p], sessions'[p], bus),
           Owed(streams'[p], pages'[p], bus)
    PROVE  BusInv'
<1>1. ASSUME NEW q \in Pages
      PROVE  /\ Overseen(streams'[q], pages'[q], sessions'[q], bus')
             /\ Owed(streams'[q], pages'[q], bus')
  <2>1. CASE q = p
    BY <2>1
  <2>2. CASE q # p
    BY <2>2 DEF BusInv
  <2> QED BY <2>1, <2>2
<1> QED BY <1>1 DEF BusInv

LEMMA NoStreamIsAStream ==
    NoStream \in StreamState /\ ~NoStream.open /\ ~NoStream.closed /\ NoStream.items = <<>>
    /\ ~NoStream.resync /\ NoStream.age = 0 /\ ~NoStream.resolved
<1>1. <<>> \in Seq(BusEvents)
  OBVIOUS
<1> QED BY <1>1 DEF NoStream, StreamState

LEMMA PageOf ==
    ASSUME BusInv, NEW p \in Pages
    PROVE  /\ streams[p] \in StreamState /\ pages[p] \in PageState /\ sessions[p] \in SessionState
           /\ Overseen(streams[p], pages[p], sessions[p], bus) /\ Owed(streams[p], pages[p], bus)
  BY DEF BusInv, BusTyped

LEMMA StreamEnded ==
    ASSUME BusInv, NEW p \in Pages, StreamEnds(p), bus' = bus, sessions' = sessions
    PROVE  BusInv'
<1> DEFINE g == [pages[p] EXCEPT !.pc = "down"]
<1>1. streams' = [streams EXCEPT ![p] = NoStream] /\ pages' = [pages EXCEPT ![p] = g]
  BY DEF StreamEnds
<1>2. g \in PageState /\ g.behind = pages[p].behind
  BY PageOf DEF PageState
<1> HIDE DEF g
<1>3. BusTyped' /\ streams'[p] = NoStream /\ pages'[p] = g
  BY <1>1, <1>2, NoStreamIsAStream DEF BusInv, BusTyped
<1>4. \A q \in Pages \ {p} : streams'[q] = streams[q] /\ pages'[q] = pages[q] /\ sessions'[q] = sessions[q]
  BY <1>1 DEF BusInv, BusTyped
<1>5. Overseen(NoStream, g, sessions[p], bus) /\ Owed(NoStream, g, bus)
  BY <1>2, PageOf, NoStreamIsAStream DEF Overseen, Owed
<1> QED BY <1>3, <1>4, <1>5, OnePageMoves

(* What the page does with its stream.                                     *)
LEMMA PagesStep ==
    ASSUME BusInv, NEW p \in Pages,
           PageStep(p) \/ ReloadNow(p) \/ Revoke(p)
    PROVE  BusInv'
<1> DEFINE s == streams[p]
           g == pages[p]
           w == sessions[p]
<1>1. /\ s \in StreamState /\ g \in PageState /\ w \in SessionState
      /\ Overseen(s, g, w, bus) /\ Owed(s, g, bus) /\ BusTyped
  BY PageOf DEF BusInv
<1>2. CASE ResolveSession(p)
  <2> DEFINE t == TRUE
             let == [NoStream EXCEPT !.resolved = t, !.admin = w.admin]
  <2>1. streams' = [streams EXCEPT ![p] = let] /\ UNCHANGED <<bus, pages, sessions, traffic>>
    BY <1>2 DEF ResolveSession
  <2>2. t \in BOOLEAN
    OBVIOUS
  <2> HIDE DEF t
  <2>3. let \in StreamState /\ let.admin = w.admin /\ ~let.open
    BY <1>1, <2>2, NoStreamIsAStream DEF StreamState, SessionState
  <2> HIDE DEF let
  <2>4. Overseen(let, g, w, bus) /\ Owed(let, g, bus)
    BY <1>1, <2>3 DEF Overseen, Owed
  <2>5. BusTyped' /\ streams'[p] = let
    BY <1>1, <2>1, <2>3 DEF BusTyped
  <2>6. \A q \in Pages \ {p} : streams'[q] = streams[q] /\ pages'[q] = pages[q] /\ sessions'[q] = sessions[q]
    BY <1>1, <2>1 DEF BusTyped
  <2> QED BY <2>1, <2>4, <2>5, <2>6, OnePageMoves
<1>3. CASE OpenStream(p)
  <2> DEFINE t == TRUE
             n == FALSE
             z == IF Valid(p) THEN Unrevoked ELSE 0
             opened == [s EXCEPT !.resolved = n, !.open = t]
             shown == [pc |-> "live", behind |-> IF g.pc = "down" THEN {} ELSE g.behind,
                       gap |-> IF g.pc = "down" THEN {} ELSE g.behind]
             who == [w EXCEPT !.revoked = z]
  <2>1. /\ streams' = [streams EXCEPT ![p] = opened] /\ pages' = [pages EXCEPT ![p] = shown]
        /\ sessions' = [sessions EXCEPT ![p] = who]
        /\ UNCHANGED <<bus, traffic>> /\ s.resolved /\ ~bus.closed
    <3>1. streams' = [streams EXCEPT ![p] = opened]
      BY <1>1, <1>3 DEF OpenStream, BusTyped
    <3>2. pages' = [pages EXCEPT ![p] = shown]
      BY <1>3 DEF OpenStream
    <3>3. sessions' = [sessions EXCEPT ![p] = who]
      BY <1>3 DEF OpenStream
    <3> QED BY <1>3, <3>1, <3>2, <3>3 DEF OpenStream
  <2>2. t \in BOOLEAN /\ n \in BOOLEAN /\ t
    OBVIOUS
  <2>3. z \in Int /\ z <= Recheck /\ z >= Unrevoked /\ \A k \in Nat : k >= z
    BY BusNumbers
  <2> HIDE DEF t, n, z
  <2>4. opened \in StreamState /\ opened.admin = s.admin /\ (opened.age = s.age)
    BY <1>1, <2>2 DEF StreamState
  <2>5. shown \in PageState /\ shown.behind = shown.gap /\ shown.behind \subseteq g.behind
    BY <1>1 DEF PageState
  <2>6. who \in SessionState /\ who.admin = w.admin /\ who.revoked = z /\ who.leaked = w.leaked
    BY <1>1, <2>3 DEF SessionState
  <2> HIDE DEF opened, shown, who
  <2>7. Owed(opened, shown, bus)
    BY <2>5 DEF Owed
  <2>8. Overseen(opened, shown, who, bus)
    <3>1. s.admin = w.admin
      BY <1>1, <2>1 DEF Overseen
    <3>2. opened.age >= who.revoked
      BY <2>3, <2>4, <2>6 DEF StreamState
    <3>3. \A event \in shown.behind : VisibleTo(event, who.admin)
      BY <1>1, <2>5, <2>6 DEF Overseen
    <3>4. ~who.leaked /\ who.revoked <= Recheck /\ who.revoked >= Unrevoked
      BY <1>1, <2>3, <2>6 DEF Overseen
    <3> QED BY <2>1, <2>4, <2>6, <3>1, <3>2, <3>3, <3>4 DEF Overseen
  <2>9. BusTyped' /\ streams'[p] = opened /\ pages'[p] = shown /\ sessions'[p] = who
    BY <1>1, <2>1, <2>4, <2>5, <2>6 DEF BusTyped
  <2>10. \A q \in Pages \ {p} : streams'[q] = streams[q] /\ pages'[q] = pages[q] /\ sessions'[q] = sessions[q]
    BY <1>1, <2>1 DEF BusTyped
  <2> QED BY <2>1, <2>7, <2>8, <2>9, <2>10, OnePageMoves
<1>7. CASE OpenStreamFails(p)
  <2>1. StreamEnds(p) /\ bus' = bus /\ sessions' = sessions
    BY <1>7 DEF OpenStreamFails
  <2> QED BY <2>1, StreamEnded
<1>4. CASE GoLogin(p)
  <2> DEFINE shown == [pc |-> "login", behind |-> {}, gap |-> {}]
  <2>1. pages' = [pages EXCEPT ![p] = shown] /\ UNCHANGED <<bus, streams, sessions, traffic>>
    BY <1>4 DEF GoLogin
  <2>2. shown \in PageState /\ shown.behind = {}
    BY DEF PageState
  <2> HIDE DEF shown
  <2>3. Overseen(s, shown, w, bus) /\ Owed(s, shown, bus)
    BY <1>1, <2>2 DEF Overseen, Owed
  <2>4. BusTyped' /\ streams'[p] = s /\ pages'[p] = shown
    BY <1>1, <2>1, <2>2 DEF BusTyped
  <2>5. \A q \in Pages \ {p} : streams'[q] = streams[q] /\ pages'[q] = pages[q] /\ sessions'[q] = sessions[q]
    BY <1>1, <2>1 DEF BusTyped
  <2> QED BY <2>1, <2>3, <2>4, <2>5, OnePageMoves
<1>5. CASE ReloadNow(p)
  <2> DEFINE shown == [g EXCEPT !.behind = {}, !.gap = {}]
  <2>1. pages' = [pages EXCEPT ![p] = shown] /\ UNCHANGED <<bus, streams, sessions, traffic>>
    BY <1>1, <1>5 DEF ReloadNow, BusTyped
  <2>2. shown \in PageState /\ shown.behind = {}
    BY <1>1 DEF PageState
  <2> HIDE DEF shown
  <2>3. Overseen(s, shown, w, bus) /\ Owed(s, shown, bus)
    BY <1>1, <2>2 DEF Overseen, Owed
  <2>4. BusTyped' /\ streams'[p] = s /\ pages'[p] = shown
    BY <1>1, <2>1, <2>2 DEF BusTyped
  <2>5. \A q \in Pages \ {p} : streams'[q] = streams[q] /\ pages'[q] = pages[q] /\ sessions'[q] = sessions[q]
    BY <1>1, <2>1 DEF BusTyped
  <2> QED BY <2>1, <2>3, <2>4, <2>5, OnePageMoves
<1>6. CASE Revoke(p)
  <2> DEFINE z == 0
             gone == [w EXCEPT !.revoked = z]
  <2>1. sessions' = [sessions EXCEPT ![p] = gone] /\ UNCHANGED <<bus, streams, pages, traffic>>
    BY <1>6 DEF Revoke
  <2>2. z \in Int /\ z >= -1 /\ z <= Recheck /\ (s.open => s.age >= z)
    BY <1>1, BusNumbers DEF StreamState
  <2> HIDE DEF z
  <2>3. gone \in SessionState /\ gone.revoked = z /\ gone.admin = w.admin /\ gone.leaked = w.leaked
    BY <1>1, <2>2 DEF SessionState
  <2> HIDE DEF gone
  <2>4. Overseen(s, g, gone, bus)
    BY <1>1, <2>2, <2>3, BusNumbers DEF Overseen
  <2>5. BusTyped' /\ streams'[p] = s /\ pages'[p] = g /\ sessions'[p] = gone
    BY <1>1, <2>1, <2>3 DEF BusTyped
  <2>6. \A q \in Pages \ {p} : streams'[q] = streams[q] /\ pages'[q] = pages[q] /\ sessions'[q] = sessions[q]
    BY <1>1, <2>1 DEF BusTyped
  <2> QED BY <1>1, <2>1, <2>4, <2>5, <2>6, OnePageMoves
<1> QED BY <1>2, <1>3, <1>4, <1>5, <1>6, <1>7 DEF PageStep

(* The rest of the buffer, after a frame was sent.                         *)
SentFrom(s) == IF s.resync THEN [s EXCEPT !.resync = FALSE] ELSE [s EXCEPT !.items = Tail(s.items)]

LEMMA FrameSent ==
    ASSUME NEW s \in StreamState, s.resync \/ s.items # <<>>
    PROVE  /\ SentFrom(s) \in StreamState /\ ~SentFrom(s).resync
           /\ SentFrom(s).open = s.open /\ SentFrom(s).closed = s.closed
           /\ SentFrom(s).admin = s.admin /\ SentFrom(s).age = s.age
           /\ s.resync => SentFrom(s).items = s.items
           /\ ~s.resync => s.items # <<>> /\ SentFrom(s).items = Tail(s.items)
                           /\ Head(s.items) \in BusEvents
                           /\ \A x : Holds(s.items, x) => x = Head(s.items) \/ Holds(Tail(s.items), x)
<1>1. CASE s.resync
  BY <1>1 DEF SentFrom, StreamState
<1>2. CASE ~s.resync
  <2>1. s.items \in Seq(BusEvents) /\ s.items # <<>>
    BY <1>2 DEF StreamState
  <2>2. /\ Head(s.items) \in BusEvents /\ Tail(s.items) \in Seq(BusEvents)
        /\ \A x : Holds(s.items, x) => x = Head(s.items) \/ Holds(Tail(s.items), x)
    BY <2>1, Beheaded
  <2> DEFINE rest == Tail(s.items)
             f == [s EXCEPT !.items = rest]
  <2>3. SentFrom(s) = f
    BY <1>2 DEF SentFrom
  <2>4. rest \in Seq(BusEvents)
    BY <2>2
  <2> HIDE DEF rest
  <2>5. /\ f \in StreamState /\ f.open = s.open /\ f.closed = s.closed /\ f.admin = s.admin
        /\ f.age = s.age /\ f.resync = s.resync /\ f.items = rest
    BY <2>4 DEF StreamState
  <2> HIDE DEF f
  <2> QED BY <1>2, <2>1, <2>2, <2>3, <2>5 DEF rest
<1> QED BY <1>1, <1>2

LEMMA LookedAt ==
    ASSUME NEW s \in StreamState
    PROVE  LET f == [s EXCEPT !.age = 0] IN
           /\ f \in StreamState /\ f.open = s.open /\ f.closed = s.closed /\ f.admin = s.admin
           /\ f.items = s.items /\ f.resync = s.resync
<1> DEFINE z == 0
<1>1. z \in Nat
  OBVIOUS
<1> SUFFICES LET f == [s EXCEPT !.age = z] IN
             /\ f \in StreamState /\ f.open = s.open /\ f.closed = s.closed /\ f.admin = s.admin
             /\ f.items = s.items /\ f.resync = s.resync
  OBVIOUS
<1> HIDE DEF z
<1> QED BY <1>1 DEF StreamState

(* A frame takes from what the stream owes what it brings the page.        *)
LEMMA FramesAreSent ==
    ASSUME BusInv, NEW p \in Pages, SendFrame(p), ~(LookDue(p) /\ ~Valid(p))
    PROVE  BusInv'
<1> DEFINE s == streams[p]
           g == pages[p]
           w == sessions[p]
           f == IF LookDue(p) THEN [SentFrom(s) EXCEPT !.age = 0] ELSE SentFrom(s)
           h == IF s.resync THEN [g EXCEPT !.behind = {}, !.gap = {}]
                ELSE [g EXCEPT !.behind = g.behind \ {Head(s.items)}, !.gap = g.gap \ {Head(s.items)}]
           late == w.leaked \/ w.revoked >= Recheck
           v == [w EXCEPT !.leaked = late]
<1>1. /\ s \in StreamState /\ g \in PageState /\ w \in SessionState
      /\ Overseen(s, g, w, bus) /\ Owed(s, g, bus) /\ BusTyped
  BY PageOf DEF BusInv
<1>2. s.open /\ (s.resync \/ s.items # <<>>) /\ UNCHANGED <<bus, traffic>>
  BY DEF SendFrame
<1>3. streams' = [streams EXCEPT ![p] = f]
  BY DEF SendFrame, SentFrom
<1>4. pages' = [pages EXCEPT ![p] = h]
  <2>1. CASE s.resync
    BY <2>1 DEF SendFrame
  <2>2. CASE ~s.resync
    BY <2>2 DEF SendFrame
  <2> QED BY <2>1, <2>2
<1>5. sessions' = [sessions EXCEPT ![p] = v]
  BY <1>1 DEF SendFrame, BusTyped
<1>6. /\ f \in StreamState /\ f.open = s.open /\ f.closed = s.closed /\ f.admin = s.admin
      /\ ~f.resync /\ f.items = SentFrom(s).items
      /\ LookDue(p) \/ f.age = s.age
  BY <1>1, <1>2, FrameSent, LookedAt, ZenonT(60)
<1>7. /\ h \in PageState
      /\ s.resync => h.behind = {}
      /\ ~s.resync => h.behind = g.behind \ {Head(s.items)} /\ h.gap = g.gap \ {Head(s.items)}
  BY <1>1 DEF PageState
<1>8. late = FALSE
  <2>1. w.revoked >= Recheck => w.revoked # Unrevoked
    BY <1>1, BusNumbers DEF SessionState
  <2>2. w.revoked # Unrevoked => ~LookDue(p)
    BY DEF Valid
  <2>3. w.revoked # Unrevoked => s.age >= w.revoked
    BY <1>1, <1>2 DEF Overseen
  <2>4. w.revoked >= Recheck /\ s.age >= w.revoked => LookDue(p)
    BY <1>1, BusNumbers DEF SessionState, StreamState, LookDue
  <2> QED BY <1>1, <2>1, <2>2, <2>3, <2>4 DEF Overseen
<1> HIDE DEF late
<1>9. v \in SessionState /\ v.admin = w.admin /\ v.revoked = w.revoked /\ ~v.leaked
  BY <1>1, <1>8 DEF SessionState
<1> HIDE DEF f, h, v
<1>10. BusTyped' /\ streams'[p] = f /\ pages'[p] = h /\ sessions'[p] = v
  BY <1>1, <1>2, <1>3, <1>4, <1>5, <1>6, <1>7, <1>9 DEF BusTyped
<1>11. \A q \in Pages \ {p} : streams'[q] = streams[q] /\ pages'[q] = pages[q] /\ sessions'[q] = sessions[q]
  BY <1>1, <1>3, <1>4, <1>5 DEF BusTyped
<1>12. Overseen(f, h, v, bus)
  <2>1. h.behind \subseteq g.behind
    BY <1>7
  <2>2. w.revoked # Unrevoked => f.age = s.age
    BY <1>6 DEF Valid
  <2> QED BY <1>1, <1>2, <1>6, <1>9, <2>1, <2>2 DEF Overseen
<1>13. Owed(f, h, bus)
  <2>1. CASE s.resync
    BY <1>7, <2>1 DEF Owed
  <2>2. CASE ~s.resync
    <3>1. \A x : Holds(s.items, x) => x = Head(s.items) \/ Holds(f.items, x)
      BY <1>1, <1>2, <1>6, <2>2, FrameSent
    <3>2. OnWay(bus, s) \subseteq OnWay(bus, f) \union {Head(s.items)}
      BY <3>1 DEF OnWay
    <3> QED BY <1>1, <1>2, <1>6, <1>7, <2>2, <3>2 DEF Owed
  <2> QED BY <2>1, <2>2
<1> QED BY <1>2, <1>10, <1>11, <1>12, <1>13, OnePageMoves

LEMMA StreamsStep ==
    ASSUME BusInv, NEW p \in Pages, StreamStep(p) \/ BreakStream(p)
    PROVE  BusInv'
<1>1. CASE SendFrame(p)
  <2>1. CASE LookDue(p) /\ ~Valid(p)
    <3>1. StreamEnds(p) /\ bus' = bus /\ sessions' = sessions
      BY <1>1, <2>1 DEF SendFrame
    <3> QED BY <3>1, StreamEnded
  <2>2. CASE ~(LookDue(p) /\ ~Valid(p))
    BY <1>1, <2>2, FramesAreSent
  <2> QED BY <2>1, <2>2
<1>2. CASE CheckSession(p)
  <2>1. CASE ~Valid(p)
    <3>1. StreamEnds(p) /\ bus' = bus /\ sessions' = sessions
      BY <1>2, <2>1 DEF CheckSession
    <3> QED BY <3>1, StreamEnded
  <2>2. CASE Valid(p)
    <3> DEFINE s == streams[p]
               f == [s EXCEPT !.age = 0]
    <3>1. /\ s \in StreamState /\ Overseen(s, pages[p], sessions[p], bus)
          /\ Owed(s, pages[p], bus) /\ BusTyped /\ s.open
      BY <1>2, PageOf DEF BusInv, CheckSession
    <3>2. streams' = [streams EXCEPT ![p] = f] /\ UNCHANGED <<pages, bus, sessions, traffic>>
      BY <1>2, <2>2 DEF CheckSession
    <3>3. /\ f \in StreamState /\ f.open = s.open /\ f.closed = s.closed /\ f.admin = s.admin
          /\ f.items = s.items /\ f.resync = s.resync
      BY <3>1, LookedAt
    <3> HIDE DEF f
    <3>4. Overseen(f, pages[p], sessions[p], bus) /\ Owed(f, pages[p], bus)
      BY <2>2, <3>1, <3>3 DEF Overseen, Owed, OnWay, Valid
    <3>5. BusTyped' /\ streams'[p] = f
      BY <3>1, <3>2, <3>3 DEF BusTyped
    <3>6. \A q \in Pages \ {p} : streams'[q] = streams[q] /\ pages'[q] = pages[q] /\ sessions'[q] = sessions[q]
      BY <3>1, <3>2 DEF BusTyped
    <3> QED BY <3>2, <3>4, <3>5, <3>6, OnePageMoves
  <2> QED BY <2>1, <2>2
<1>3. CASE EndClosed(p) \/ BreakStream(p)
  <2>1. StreamEnds(p) /\ bus' = bus /\ sessions' = sessions
    BY <1>3 DEF EndClosed, BreakStream
  <2> QED BY <2>1, StreamEnded
<1> QED BY <1>1, <1>2, <1>3 DEF StreamStep

(* An event is counted or its loss is noted; either way it is owed.        *)
LEMMA EventsArePublished ==
    ASSUME BusInv, NEW event \in BusEvents, Publish(event)
    PROVE  BusInv'
<1> DEFINE more == bus.counted \union {event}
           grown(q) == [pages[q] EXCEPT !.behind = pages[q].behind \union {event}]
<1>1. BusTyped
  BY DEF BusInv
<1>2. /\ pages' = [q \in Pages |->
                     IF VisibleTo(event, sessions[q].admin) /\ Valid(q) /\ ~LoggedOut(q)
                     THEN grown(q) ELSE pages[q]]
      /\ UNCHANGED <<streams, sessions>>
  BY DEF Publish
<1>3. \/ Pending >= Backlog /\ bus' = [bus EXCEPT !.lost = TRUE]
      \/ bus' = [bus EXCEPT !.counted = more]
  BY DEF Publish
<1>4. Cardinality(bus.counted) \in Nat /\ Len(bus.scheduled) \in Nat
  BY <1>1, WaitingIsCounted DEF BusTyped
<1>5. /\ more \in SUBSET BusEvents /\ IsFiniteSet(more)
      /\ Cardinality(more) \in Nat /\ Cardinality(more) >= Cardinality(bus.counted)
  <2>1. IsFiniteSet(bus.counted) /\ bus.counted \subseteq BusEvents
    BY <1>1 DEF BusTyped, BusState
  <2>2. /\ IsFiniteSet(more)
        /\ Cardinality(more) = IF event \in bus.counted THEN Cardinality(bus.counted)
                                ELSE Cardinality(bus.counted) + 1
    BY <2>1, FS_AddElement
  <2> QED BY <1>4, <2>1, <2>2
<1>6. event \in more /\ bus.counted \subseteq more
  OBVIOUS
<1> HIDE DEF more
<1>7. /\ bus' \in BusState /\ IsFiniteSet(bus'.counted)
      /\ bus'.closed = bus.closed /\ bus'.scheduled = bus.scheduled
      /\ bus.counted \subseteq bus'.counted
      /\ bus.lost => bus'.lost
      /\ event \in bus'.counted \/ (bus'.lost /\ Waiting(bus') > 0)
      /\ Waiting(bus) > 0 => Waiting(bus') > 0
  <2>1. CASE Pending >= Backlog /\ bus' = [bus EXCEPT !.lost = TRUE]
    <3>1. /\ bus' \in BusState /\ bus'.lost /\ bus'.counted = bus.counted
          /\ bus'.scheduled = bus.scheduled /\ bus'.closed = bus.closed
      BY <1>1, <2>1 DEF BusTyped, BusState
    <3>2. Waiting(bus') = Pending
      BY <3>1 DEF Waiting, Pending
    <3>3. Waiting(bus') > 0
      BY <1>4, <2>1, <3>2, BusNumbers DEF Pending
    <3> QED BY <1>1, <3>1, <3>3 DEF BusTyped
  <2>2. CASE bus' = [bus EXCEPT !.counted = more]
    <3>1. /\ bus' \in BusState /\ bus'.lost = bus.lost /\ bus'.counted = more
          /\ bus'.scheduled = bus.scheduled /\ bus'.closed = bus.closed
      BY <1>1, <1>5, <2>2 DEF BusTyped, BusState
    <3>2. Waiting(bus) > 0 => Waiting(bus') > 0
      BY <1>4, <1>5, <3>1 DEF Waiting
    <3> QED BY <1>5, <1>6, <3>1, <3>2
  <2> QED BY <1>3, <2>1, <2>2
<1>8. ASSUME NEW q \in Pages
      PROVE  /\ pages'[q] \in PageState /\ pages'[q].gap = pages[q].gap
             /\ pages'[q].behind \subseteq pages[q].behind \union {event}
             /\ VisibleTo(event, sessions[q].admin) \/ pages'[q].behind = pages[q].behind
  <2>1. pages[q] \in PageState
    BY PageOf
  <2>2. pages[q].behind \union {event} \in SUBSET BusEvents
    BY <2>1 DEF PageState
  <2>3. /\ grown(q) \in PageState /\ grown(q).gap = pages[q].gap
        /\ grown(q).behind = pages[q].behind \union {event}
    BY <2>1, <2>2 DEF PageState
  <2> QED BY <1>2, <2>1, <2>3
<1>9. BusTyped'
  <2>1. DOMAIN pages' = Pages /\ pages' = [q \in Pages |-> pages'[q]]
    BY <1>2
  <2>2. pages' \in [Pages -> PageState]
    BY <1>8, <2>1
  <2> QED BY <1>1, <1>2, <1>7, <2>2 DEF BusTyped
<1>10. ASSUME NEW q \in Pages
       PROVE  Overseen(streams'[q], pages'[q], sessions'[q], bus') /\ Owed(streams'[q], pages'[q], bus')
  <2>1. /\ streams'[q] = streams[q] /\ sessions'[q] = sessions[q]
        /\ Overseen(streams[q], pages[q], sessions[q], bus) /\ Owed(streams[q], pages[q], bus)
    BY <1>2, PageOf
  <2>2. Overseen(streams'[q], pages'[q], sessions'[q], bus')
    BY <1>7, <1>8, <2>1 DEF Overseen
  <2>3. OnWay(bus, streams[q]) \subseteq OnWay(bus', streams[q])
        /\ (event \in bus'.counted => event \in OnWay(bus', streams[q]))
    BY <1>7 DEF OnWay
  <2>4. Owed(streams'[q], pages'[q], bus')
    BY <1>7, <1>8, <2>1, <2>3 DEF Owed
  <2> QED BY <2>2, <2>4
<1> QED BY <1>9, <1>10 DEF BusInv

LEMMA EventsAreScheduled ==
    ASSUME BusInv, NEW event \in BusEvents, Schedule(event)
    PROVE  BusInv'
<1> DEFINE fewer == bus.counted \ {event}
           longer == Append(bus.scheduled, event)
<1>1. BusTyped /\ event \in bus.counted
  BY DEF BusInv, Schedule
<1>2. bus' = [bus EXCEPT !.counted = fewer, !.scheduled = longer]
      /\ UNCHANGED <<streams, pages, sessions, traffic>>
  BY DEF Schedule
<1>3. Cardinality(bus.counted) \in Nat /\ Len(bus.scheduled) \in Nat
  BY <1>1, WaitingIsCounted DEF BusTyped
<1>4. /\ fewer \in SUBSET BusEvents /\ IsFiniteSet(fewer) /\ Cardinality(fewer) \in Nat
  <2>1. IsFiniteSet(bus.counted) /\ bus.counted \subseteq BusEvents
    BY <1>1 DEF BusTyped, BusState
  <2>2. IsFiniteSet(fewer)
    BY <2>1, FS_RemoveElement
  <2> QED BY <2>1, <2>2, FS_CardinalityType
<1>5. /\ longer \in Seq(BusEvents) /\ Len(longer) = Len(bus.scheduled) + 1 /\ Holds(longer, event)
      /\ \A x : Holds(bus.scheduled, x) => Holds(longer, x)
  <2>1. bus.scheduled \in Seq(BusEvents)
    BY <1>1 DEF BusTyped, BusState
  <2> QED BY <2>1, Appended
<1>6. \A x \in bus.counted : x = event \/ x \in fewer
  OBVIOUS
<1> HIDE DEF fewer, longer
<1>7. /\ bus' \in BusState /\ bus'.counted = fewer /\ bus'.scheduled = longer
      /\ bus'.closed = bus.closed /\ bus'.lost = bus.lost
  BY <1>1, <1>2, <1>4, <1>5 DEF BusTyped, BusState
<1>8. Waiting(bus') > 0
  BY <1>3, <1>4, <1>5, <1>7 DEF Waiting
<1>9. ASSUME NEW q \in Pages
      PROVE  Overseen(streams'[q], pages'[q], sessions'[q], bus') /\ Owed(streams'[q], pages'[q], bus')
  <2>1. /\ streams'[q] = streams[q] /\ sessions'[q] = sessions[q] /\ pages'[q] = pages[q]
        /\ Overseen(streams[q], pages[q], sessions[q], bus) /\ Owed(streams[q], pages[q], bus)
    BY <1>2, PageOf
  <2>2. Overseen(streams'[q], pages'[q], sessions'[q], bus')
    BY <1>7, <2>1 DEF Overseen
  <2>3. OnWay(bus, streams[q]) \subseteq OnWay(bus', streams[q])
    BY <1>5, <1>6, <1>7 DEF OnWay
  <2> QED BY <1>7, <1>8, <2>1, <2>2, <2>3 DEF Owed
<1> QED BY <1>1, <1>2, <1>4, <1>7, <1>9 DEF BusInv, BusTyped

(* What may be seen is buffered, or the page will reload.                  *)
LEMMA EventIsOffered ==
    ASSUME NEW s \in StreamState, NEW event \in BusEvents
    PROVE  LET r == OfferedTo(s, event) IN
           /\ r \in StreamState /\ r.open = s.open /\ r.closed = s.closed
           /\ r.admin = s.admin /\ r.age = s.age
           /\ s.resync => r.resync
           /\ \/ s.closed \/ r.resync
              \/ /\ \A x : Holds(s.items, x) => Holds(r.items, x)
                 /\ VisibleTo(event, s.admin) => Holds(r.items, event)
<1> DEFINE none == <<>>
           longer == Append(s.items, event)
           r == OfferedTo(s, event)
<1>1. s.items \in Seq(BusEvents) /\ none \in Seq(BusEvents)
  BY DEF StreamState
<1>2. /\ longer \in Seq(BusEvents) /\ Holds(longer, event)
      /\ \A x : Holds(s.items, x) => Holds(longer, x)
  BY <1>1, Appended
<1>3. CASE s.closed \/ s.resync \/ ~VisibleTo(event, s.admin)
  BY <1>3 DEF OfferedTo
<1>4. CASE ~(s.closed \/ s.resync \/ ~VisibleTo(event, s.admin)) /\ Len(s.items) >= Buffer
  <2>1. r = [s EXCEPT !.items = none, !.resync = TRUE]
    BY <1>4 DEF OfferedTo
  <2> HIDE DEF none
  <2>2. /\ r \in StreamState /\ r.open = s.open /\ r.closed = s.closed
        /\ r.admin = s.admin /\ r.age = s.age /\ r.resync
    BY <1>1, <2>1 DEF StreamState
  <2> QED BY <2>2
<1>5. CASE ~(s.closed \/ s.resync \/ ~VisibleTo(event, s.admin)) /\ ~(Len(s.items) >= Buffer)
  <2>1. r = [s EXCEPT !.items = longer]
    BY <1>5 DEF OfferedTo
  <2> HIDE DEF longer
  <2>2. /\ r \in StreamState /\ r.open = s.open /\ r.closed = s.closed
        /\ r.admin = s.admin /\ r.age = s.age /\ r.items = longer /\ r.resync = s.resync
    BY <1>2, <2>1 DEF StreamState
  <2> QED BY <1>2, <2>2
<1> QED BY <1>3, <1>4, <1>5

LEMMA StreamIsResynced ==
    ASSUME NEW s \in StreamState
    PROVE  LET r == Resynced(s) IN
           /\ r \in StreamState /\ r.open = s.open /\ r.closed = s.closed
           /\ r.admin = s.admin /\ r.age = s.age /\ (s.closed \/ r.resync)
<1> DEFINE none == <<>>
           r == Resynced(s)
<1>1. none \in Seq(BusEvents) /\ r = IF s.closed THEN s ELSE [s EXCEPT !.items = none, !.resync = TRUE]
  BY DEF Resynced
<1> HIDE DEF none
<1> QED BY <1>1 DEF StreamState

LEMMA EventsAreDelivered ==
    ASSUME BusInv, Deliver
    PROVE  BusInv'
<1> DEFINE event == Head(bus.scheduled)
           rest == Tail(bus.scheduled)
           before(q) == IF bus.lost THEN Resynced(streams[q]) ELSE streams[q]
<1>1. BusTyped /\ bus.scheduled # <<>> /\ bus.scheduled \in Seq(BusEvents)
  BY DEF BusInv, BusTyped, BusState, Deliver
<1>2. /\ event \in BusEvents /\ rest \in Seq(BusEvents)
      /\ \A x : Holds(bus.scheduled, x) => x = event \/ Holds(rest, x)
  BY <1>1, Beheaded
<1>3. /\ bus' = [bus EXCEPT !.scheduled = rest, !.lost = FALSE]
      /\ streams' = [q \in Pages |->
                        IF streams[q].open /\ ~bus.closed THEN OfferedTo(before(q), event) ELSE streams[q]]
      /\ UNCHANGED <<pages, sessions, traffic>>
  BY DEF Deliver
<1> HIDE DEF event, rest
<1>4. /\ bus' \in BusState /\ bus'.counted = bus.counted /\ bus'.scheduled = rest
      /\ bus'.closed = bus.closed
  BY <1>1, <1>2, <1>3 DEF BusTyped, BusState
<1>5. ASSUME NEW q \in Pages
      PROVE  /\ streams'[q] \in StreamState
             /\ Overseen(streams'[q], pages'[q], sessions'[q], bus')
             /\ Owed(streams'[q], pages'[q], bus')
  <2> DEFINE s == streams[q]
             g == pages[q]
             w == sessions[q]
             r == OfferedTo(before(q), event)
  <2>1. /\ s \in StreamState /\ Overseen(s, g, w, bus) /\ Owed(s, g, bus)
        /\ pages'[q] = g /\ sessions'[q] = w /\ g \in PageState
    BY <1>3, PageOf
  <2>2. CASE ~(s.open /\ ~bus.closed)
    <3>1. streams'[q] = s
      BY <1>3, <2>2
    <3>2. Overseen(s, g, w, bus')
      BY <1>4, <2>1 DEF Overseen
    <3>3. ~s.open \/ s.closed
      BY <2>1, <2>2 DEF Overseen
    <3> QED BY <2>1, <3>1, <3>2, <3>3 DEF Owed
  <2>3. CASE s.open /\ ~bus.closed
    <3>1. streams'[q] = r
      BY <1>3, <2>3
    <3>2. /\ before(q) \in StreamState /\ before(q).open = s.open /\ before(q).closed = s.closed
          /\ before(q).admin = s.admin /\ before(q).age = s.age
          /\ bus.lost => s.closed \/ before(q).resync
          /\ ~bus.lost => before(q) = s
      BY <2>1, StreamIsResynced
    <3> HIDE DEF before
    <3>3. /\ r \in StreamState /\ r.open = s.open /\ r.closed = s.closed
          /\ r.admin = s.admin /\ r.age = s.age
          /\ before(q).resync => r.resync
          /\ \/ s.closed \/ r.resync
             \/ /\ \A x : Holds(before(q).items, x) => Holds(r.items, x)
                /\ VisibleTo(event, s.admin) => Holds(r.items, event)
      BY <1>2, <3>2, EventIsOffered
    <3> HIDE DEF r
    <3>4. Overseen(r, g, w, bus')
      BY <1>4, <2>1, <2>3, <3>3 DEF Overseen
    <3>5. Owed(r, g, bus')
      <4>1. CASE s.closed \/ r.resync
        BY <3>3, <4>1 DEF Owed
      <4>2. CASE ~s.closed /\ ~r.resync
        <5>1. ~bus.lost /\ before(q) = s /\ ~s.resync
          BY <3>2, <3>3, <4>2
        <5>2. g.behind \subseteq OnWay(bus, s) \union g.gap
          BY <2>1, <2>3, <4>2, <5>1 DEF Owed
        <5>3. ASSUME NEW x \in g.behind PROVE x \in OnWay(bus', r) \union g.gap
          <6>1. VisibleTo(x, s.admin) /\ x \in BusEvents
            BY <2>1, <2>3 DEF Overseen, PageState
          <6>2. CASE x \in g.gap
            BY <6>2
          <6>3. CASE x \in bus.counted
            BY <1>4, <6>1, <6>3 DEF OnWay
          <6>4. CASE Holds(bus.scheduled, x)
            <7>1. CASE x = event
              BY <3>3, <4>2, <6>1, <7>1 DEF OnWay
            <7>2. CASE Holds(rest, x)
              BY <1>4, <6>1, <7>2 DEF OnWay
            <7> QED BY <1>2, <6>4, <7>1, <7>2
          <6>5. CASE Holds(s.items, x)
            BY <3>3, <4>2, <5>1, <6>1, <6>5 DEF OnWay
          <6> QED BY <5>2, <6>2, <6>3, <6>4, <6>5 DEF OnWay
        <5> QED BY <5>3 DEF Owed
      <4> QED BY <4>1, <4>2
    <3> QED BY <2>1, <3>1, <3>3, <3>4, <3>5
  <2> QED BY <2>2, <2>3
<1>6. DOMAIN streams' = Pages /\ streams' = [q \in Pages |-> streams'[q]]
  BY <1>3
<1>7. streams' \in [Pages -> StreamState]
  BY <1>5, <1>6
<1> QED BY <1>1, <1>3, <1>4, <1>5, <1>7 DEF BusInv, BusTyped

(* The look at a session falls due no later than its revocation is old.    *)
LEMMA TimePasses ==
    ASSUME BusInv, BusTick
    PROVE  BusInv'
<1> DEFINE older(q) == streams[q].age + 1
           later(q) == sessions[q].revoked + 1
<1>1. BusTyped
  BY DEF BusInv
<1>2. /\ streams' = [q \in Pages |->
                       IF streams[q].open /\ streams[q].age < Recheck
                       THEN [streams[q] EXCEPT !.age = older(q)] ELSE streams[q]]
      /\ sessions' = [q \in Pages |->
                        IF Valid(q) \/ sessions[q].revoked = Recheck THEN sessions[q]
                        ELSE [sessions[q] EXCEPT !.revoked = later(q)]]
      /\ UNCHANGED <<bus, pages, traffic>>
  BY DEF BusTick
<1>3. ASSUME NEW q \in Pages
      PROVE  /\ streams'[q] \in StreamState /\ sessions'[q] \in SessionState
             /\ Overseen(streams'[q], pages'[q], sessions'[q], bus')
             /\ Owed(streams'[q], pages'[q], bus')
  <2> DEFINE s == streams[q]
             g == pages[q]
             w == sessions[q]
  <2>1. /\ s \in StreamState /\ w \in SessionState /\ Overseen(s, g, w, bus) /\ Owed(s, g, bus)
        /\ pages'[q] = g /\ bus' = bus
    BY <1>2, PageOf
  <2>2. older(q) \in Nat /\ later(q) \in Int /\ s.age \in Nat /\ w.revoked \in Int
    BY <2>1 DEF StreamState, SessionState
  <2>3. older(q) = s.age + 1 /\ later(q) = w.revoked + 1
    OBVIOUS
  <2> HIDE DEF older, later
  <2>4. /\ streams'[q] \in StreamState /\ streams'[q].open = s.open /\ streams'[q].closed = s.closed
        /\ streams'[q].admin = s.admin /\ streams'[q].items = s.items /\ streams'[q].resync = s.resync
        /\ streams'[q].age = IF s.open /\ s.age < Recheck THEN older(q) ELSE s.age
    BY <1>2, <2>1, <2>2 DEF StreamState
  <2>5. /\ sessions'[q] \in SessionState /\ sessions'[q].admin = w.admin /\ sessions'[q].leaked = w.leaked
        /\ sessions'[q].revoked =
              IF w.revoked = Unrevoked \/ w.revoked = Recheck THEN w.revoked ELSE later(q)
    BY <1>2, <2>1, <2>2 DEF SessionState, Valid
  <2>6. /\ sessions'[q].revoked <= Recheck /\ sessions'[q].revoked >= Unrevoked
        /\ s.open /\ sessions'[q].revoked # Unrevoked => streams'[q].age >= sessions'[q].revoked
    BY <2>1, <2>2, <2>3, <2>4, <2>5, BusNumbers DEF Overseen
  <2>9. streams'[q].resolved = s.resolved
    BY <1>2, <2>1 DEF StreamState
  <2>7. Overseen(streams'[q], pages'[q], sessions'[q], bus')
    BY <2>1, <2>4, <2>5, <2>6, <2>9 DEF Overseen
  <2>8. Owed(streams'[q], pages'[q], bus')
    BY <2>1, <2>4 DEF Owed, OnWay
  <2> QED BY <2>4, <2>5, <2>7, <2>8
<1>4. /\ DOMAIN streams' = Pages /\ streams' = [q \in Pages |-> streams'[q]]
      /\ DOMAIN sessions' = Pages /\ sessions' = [q \in Pages |-> sessions'[q]]
  BY <1>2
<1>5. streams' \in [Pages -> StreamState] /\ sessions' \in [Pages -> SessionState]
  BY <1>3, <1>4
<1> QED BY <1>1, <1>2, <1>3, <1>5 DEF BusInv, BusTyped

LEMMA BusCloses ==
    ASSUME BusInv, CloseBus
    PROVE  BusInv'
<1> DEFINE none == <<>>
<1>1. BusTyped /\ none \in Seq(BusEvents)
  BY DEF BusInv
<1>2. /\ bus' = [bus EXCEPT !.closed = TRUE]
      /\ streams' = [q \in Pages |->
                       IF streams[q].open THEN [streams[q] EXCEPT !.closed = TRUE, !.items = none]
                       ELSE streams[q]]
      /\ UNCHANGED <<pages, sessions, traffic>>
  BY Zenon DEF CloseBus
<1> HIDE DEF none
<1>3. bus' \in BusState /\ bus'.counted = bus.counted
  BY <1>1, <1>2, Zenon DEF BusTyped, BusState
<1>4. ASSUME NEW q \in Pages
      PROVE  /\ streams'[q] \in StreamState
             /\ Overseen(streams'[q], pages'[q], sessions'[q], bus')
             /\ Owed(streams'[q], pages'[q], bus')
  <2>1. /\ streams[q] \in StreamState /\ Overseen(streams[q], pages[q], sessions[q], bus)
        /\ pages'[q] = pages[q] /\ sessions'[q] = sessions[q]
    BY <1>2, PageOf, Zenon
  <2>2. /\ streams'[q] \in StreamState /\ streams'[q].open = streams[q].open
        /\ streams'[q].admin = streams[q].admin /\ streams'[q].age = streams[q].age
        /\ streams'[q].open => streams'[q].closed
        /\ streams'[q].resolved = streams[q].resolved
    BY <1>1, <1>2, <2>1, Zenon DEF StreamState
  <2> QED BY <2>1, <2>2 DEF Overseen, Owed
<1>5. DOMAIN streams' = Pages /\ streams' = [q \in Pages |-> streams'[q]]
  BY <1>2, Zenon
<1>6. streams' \in [Pages -> StreamState]
  BY <1>4, <1>5
<1> QED BY <1>1, <1>2, <1>3, <1>4, <1>6, Zenon DEF BusInv, BusTyped

LEMMA BusBegins == BusInit => BusInv
<1> SUFFICES ASSUME BusInit PROVE BusInv
  OBVIOUS
<1> DEFINE shown == [pc |-> "loaded", behind |-> {}, gap |-> {}]
<1>1. /\ bus = [counted |-> {}, scheduled |-> <<>>, lost |-> FALSE, closed |-> FALSE]
      /\ streams = [p \in Pages |-> NoStream] /\ pages = [p \in Pages |-> shown]
      /\ sessions \in [Pages -> [admin : BOOLEAN, revoked : {Unrevoked}, leaked : {FALSE}]]
  BY DEF BusInit
<1>2. shown \in PageState /\ shown.behind = {}
  BY DEF PageState
<1>3. bus \in BusState /\ bus.counted = {} /\ ~bus.closed
  <2>1. <<>> \in Seq(BusEvents)
    OBVIOUS
  <2> QED BY <1>1, <2>1 DEF BusState
<1>4. ASSUME NEW p \in Pages
      PROVE  sessions[p] \in SessionState /\ sessions[p].revoked = Unrevoked /\ ~sessions[p].leaked
  <2>1. sessions[p] \in [admin : BOOLEAN, revoked : {Unrevoked}, leaked : {FALSE}]
    BY <1>1
  <2>2. sessions[p].revoked = Unrevoked /\ ~sessions[p].leaked
    BY <2>1
  <2>3. {Unrevoked} \subseteq Int /\ {FALSE} \subseteq BOOLEAN
    BY DEF Unrevoked
  <2>4. sessions[p] \in SessionState
    <3> HIDE DEF Unrevoked
    <3> QED BY <2>1, <2>3 DEF SessionState
  <2> QED BY <2>2, <2>4
<1>5. sessions \in [Pages -> SessionState]
  BY <1>1, <1>4
<1> HIDE DEF shown
<1>6. BusTyped
  BY <1>1, <1>2, <1>3, <1>5, NoStreamIsAStream, FS_EmptySet DEF BusTyped
<1>7. ASSUME NEW p \in Pages
      PROVE  Overseen(streams[p], pages[p], sessions[p], bus) /\ Owed(streams[p], pages[p], bus)
  BY <1>1, <1>2, <1>3, <1>4, NoStreamIsAStream, BusNumbers DEF Overseen, Owed
<1> QED BY <1>6, <1>7 DEF BusInv

LEMMA BusSteps ==
    ASSUME BusInv, [BusNext]_busVars
    PROVE  BusInv'
<1>1. CASE UNCHANGED busVars
  <2>1. bus' = bus /\ streams' = streams /\ pages' = pages /\ sessions' = sessions
    BY <1>1 DEF busVars
  <2> QED BY <2>1 DEF BusInv, BusTyped
<1>2. CASE BusNext
  <2>1. CASE BusStep
    BY <2>1, EventsAreDelivered, EventsAreScheduled DEF BusStep
  <2>2. CASE BusTick \/ CloseBus
    BY <2>2, TimePasses, BusCloses
  <2>3. CASE \E event \in BusEvents : Publish(event)
    BY <2>3, EventsArePublished
  <2>4. CASE \E p \in Pages : StreamStep(p) \/ PageStep(p) \/ ReloadNow(p) \/ BreakStream(p) \/ Revoke(p)
    BY <2>4, StreamsStep, PagesStep DEF PageStep
  <2> QED BY <1>2, <2>1, <2>2, <2>3, <2>4 DEF BusNext
<1> QED BY <1>1, <1>2

LEMMA BusPromises ==
    ASSUME BusInv
    PROVE  NothingMissed /\ RevokedHearsNothing
<1>1. ASSUME NEW p \in Pages PROVE ~sessions[p].leaked
  BY PageOf DEF Overseen
<1>2. ASSUME NEW p \in Pages, streams[p].open, ~streams[p].closed
      PROVE  \/ pages[p].behind \subseteq OnTheWay(p) \union pages[p].gap
             \/ streams[p].resync
             \/ bus.lost /\ Pending > 0
  <2>1. OnWay(bus, streams[p]) = OnTheWay(p)
    BY DEF OnWay, OnTheWay, Holds
  <2>2. Waiting(bus) = Pending
    BY DEF Waiting, Pending
  <2> QED BY <1>2, <2>1, <2>2, PageOf DEF Owed
<1> QED BY <1>1, <1>2 DEF NothingMissed, RevokedHearsNothing

(* What an open page has not been told is counted, scheduled, buffered or  *)
(* replaced by a resync (event_bus.py: publish, _deliver, _offer), however *)
(* the threads, the event loop and the streams take turns, and with every  *)
(* bound on backlog, buffer and streams.                                   *)
THEOREM PagesMissNothing == BusSpec => []NothingMissed
<1>1. BusInv /\ [BusNext]_busVars => BusInv'
  BY BusSteps
<1>2. BusInv => NothingMissed
  BY BusPromises
<1> QED BY <1>1, <1>2, BusBegins, PTL DEF BusSpec

(* Once a session has been revoked for the interval between two looks, its *)
(* stream sends nothing more (events.py: stream_frames looks before it     *)
(* sends, not only when it is idle).  Where the session was looked up      *)
(* before it was revoked and subscribed afterwards, the interval counts    *)
(* from the start of the stream.                                           *)
THEOREM RevokedIsSilent == BusSpec => []RevokedHearsNothing
<1>1. BusInv /\ [BusNext]_busVars => BusInv'
  BY BusSteps
<1>2. BusInv => RevokedHearsNothing
  BY BusPromises
<1> QED BY <1>1, <1>2, BusBegins, PTL DEF BusSpec

-----------------------------------------------------------------------------
(* The supervisor of a service and the inbox it reports to                 *)

Phases == {"loop", "running", "paused", "stuck", "sleeping", "ended"}
SvcStates == {"starting", "running", "paused", "backoff", "degraded", "stopped"}
Shown == {"none", "warning", "error"}
SvcAlerts == [kind : {"crashed", "degraded", "recovered"}, degraded : BOOLEAN]
SvcRow ==
    [beats : BOOLEAN, phase : Phases, state : SvcStates, before : SvcStates,
     attempt : BOOLEAN, age : Int, needsLog : BOOLEAN, settled : BOOLEAN, watched : BOOLEAN,
     streak : Int, failAge : Int, failDegraded : BOOLEAN, okAge : Int,
     crashes : Seq(Int), hangs : Seq(Int), out : Seq(SvcAlerts)]

(* The state of a service behind a pause.                                  *)
Effective(s) == IF s.state = "paused" THEN s.before ELSE s.state

(* Only a service that is degraded has hung too often, one that backs off  *)
(* has a recovery to report, and one that never ran has nothing settled.   *)
Sound(s) ==
    /\ s \in SvcRow
    /\ s.phase = "running" => s.state \in {"running", "degraded"}
    /\ s.phase = "stuck" => s.state = "degraded"
    /\ s.phase = "paused" <=> s.state = "paused"
    /\ s.phase = "ended" <=> s.state = "stopped"
    /\ s.state = "paused" => s.before \notin {"paused", "stopped"}
    /\ Effective(s) = "starting" => ~s.settled
    /\ Effective(s) = "backoff" => s.needsLog
    /\ Effective(s) \notin {"degraded", "stopped"} => Len(s.hangs) < HangLimit

(* What the inbox may show once a queue of alerts is written into it.      *)
Paths(shown, queue) ==
    {p \in [0 .. Len(queue) -> Shown] :
        p[0] = shown /\ \A k \in 1 .. Len(queue) : p[k] \in ShownAs(p[k - 1], queue[k])}
Outcomes(shown, queue) == {p[Len(queue)] : p \in Paths(shown, queue)}

(* An inbox that may come to show one of these tells the truth.            *)
Tells(s, denied, outcomes) ==
    /\ Effective(s) = "running" /\ s.settled /\ ~s.needsLog => outcomes \subseteq {"none"}
    /\ Effective(s) = "backoff" => "none" \notin outcomes
    /\ Effective(s) = "degraded" => outcomes \subseteq (IF denied THEN {"none"} ELSE {"error"})

Fits(s) == ~blips.missed => Tells(s, Heard(s).denied, Outcomes(incident, sink.queue \o s.out))

TasksFit ==
    /\ tasks \in [running : Int, hung : BOOLEAN]
    /\ svc.phase \in {"running", "stuck"} => tasks.running = 1
    /\ svc.phase \in {"loop", "sleeping", "paused"} => tasks.running = 0
    /\ svc.phase = "ended" => tasks.running \in 0 .. 1

(* While no alert is lost, the one that is written heads the queue.        *)
SinkFits ==
    /\ sink \in [queue : Seq(SvcAlerts), writing : SvcAlerts \union {NoServiceAlert},
                 gone : BOOLEAN, tries : Int]
    /\ sink.writing # NoServiceAlert => sink.queue # <<>> /\ Head(sink.queue) = sink.writing
    /\ Len(sink.queue) <= MaxPending /\ ~sink.gone

SupInv ==
    /\ blips \in [faults : Int, missed : BOOLEAN, denied : BOOLEAN]
    /\ mode \in [window : BOOLEAN, stopping : BOOLEAN]
    /\ incident \in Shown
    /\ Sound(svc) /\ svc.out = <<>> /\ TasksFit
    /\ ~blips.missed => SinkFits
    /\ Fits(svc)

LEMMA SupervisionNumbers ==
    /\ CrashLimit \in Nat /\ HangLimit \in Nat /\ HangLimit >= 1
    /\ MaxPending \in Nat /\ MaxPending >= 1 /\ MaxWrites \in Nat
    /\ CrashWindow \in Nat /\ HangWindow \in Nat
  BY SupervisionAssumption

LEMMA ShowingAlerts ==
    ASSUME NEW shown \in Shown, NEW alert \in SvcAlerts
    PROVE  /\ ShownAs(shown, alert) \subseteq Shown
           /\ alert.kind = "recovered" => ShownAs(shown, alert) = {"none"}
           /\ alert.kind = "degraded" => ShownAs(shown, alert) = {"error"}
           /\ alert.kind = "crashed" =>
                /\ "none" \notin ShownAs(shown, alert)
                /\ alert.degraded /\ shown # "warning" => ShownAs(shown, alert) = {"error"}
  BY DEF ShownAs, Shown, SvcAlerts

LEMMA OutcomesOfNone ==
    ASSUME NEW shown \in Shown
    PROVE  Outcomes(shown, <<>>) = {shown}
<1>1. \A p \in Paths(shown, <<>>) : p[0] = shown
  BY DEF Paths
<1>2. [k \in 0 .. 0 |-> shown] \in Paths(shown, <<>>)
  BY DEF Paths
<1>3. Len(<<>>) = 0
  OBVIOUS
<1> QED BY <1>1, <1>2, <1>3 DEF Outcomes

LEMMA OutcomesOfMore ==
    ASSUME NEW shown \in Shown, NEW queue \in Seq(SvcAlerts), NEW alert \in SvcAlerts,
           NEW end \in Outcomes(shown, Append(queue, alert))
    PROVE  \E early \in Outcomes(shown, queue) : early \in Shown /\ end \in ShownAs(early, alert)
<1> DEFINE n == Len(queue)
           all == Append(queue, alert)
<1>1. n \in Nat /\ Len(all) = n + 1 /\ all[n + 1] = alert /\ \A k \in 1 .. n : all[k] = queue[k]
  OBVIOUS
<1>2. PICK p \in Paths(shown, all) : end = p[n + 1]
  BY <1>1 DEF Outcomes
<1>3. p \in [0 .. n + 1 -> Shown] /\ p[0] = shown /\ \A k \in 1 .. n + 1 : p[k] \in ShownAs(p[k - 1], all[k])
  BY <1>1, <1>2 DEF Paths
<1> DEFINE before == [k \in 0 .. n |-> p[k]]
<1>4. before \in [0 .. n -> Shown] /\ before[0] = shown
  BY <1>1, <1>3
<1>5. ASSUME NEW k \in 1 .. n
      PROVE  before[k] \in ShownAs(before[k - 1], queue[k])
  <2>1. k \in 0 .. n /\ k - 1 \in 0 .. n /\ k \in 1 .. n + 1
    BY <1>1, <1>5
  <2> QED BY <1>1, <1>3, <2>1
<1>6. before \in Paths(shown, queue)
  BY <1>4, <1>5 DEF Paths
<1>7. before[n] = p[n] /\ p[n] \in Shown
  BY <1>1, <1>3
<1>8. before[n] \in Outcomes(shown, queue)
  BY <1>6 DEF Outcomes
<1>9. n + 1 \in 1 .. n + 1 /\ n + 1 - 1 = n
  BY <1>1
<1>10. end \in ShownAs(p[n], alert)
  BY <1>1, <1>2, <1>3, <1>9
<1> QED BY <1>7, <1>8, <1>10

LEMMA OutcomesOfRest ==
    ASSUME NEW shown \in Shown, NEW queue \in Seq(SvcAlerts), queue # <<>>,
           NEW next \in ShownAs(shown, Head(queue)), next \in Shown
    PROVE  Outcomes(next, Tail(queue)) \subseteq Outcomes(shown, queue)
<1> SUFFICES ASSUME NEW end \in Outcomes(next, Tail(queue))
             PROVE  end \in Outcomes(shown, queue)
  OBVIOUS
<1> DEFINE n == Len(queue)
<1>1. /\ n \in Nat /\ n >= 1 /\ Len(Tail(queue)) = n - 1 /\ Head(queue) = queue[1]
      /\ \A k \in 1 .. n - 1 : Tail(queue)[k] = queue[k + 1]
  OBVIOUS
<1>2. PICK p \in Paths(next, Tail(queue)) : end = p[n - 1]
  BY <1>1 DEF Outcomes
<1>3. /\ p \in [0 .. n - 1 -> Shown] /\ p[0] = next
      /\ \A k \in 1 .. n - 1 : p[k] \in ShownAs(p[k - 1], Tail(queue)[k])
  BY <1>1, <1>2 DEF Paths
<1> DEFINE whole == [k \in 0 .. n |-> IF k = 0 THEN shown ELSE p[k - 1]]
<1>4. whole \in [0 .. n -> Shown] /\ whole[0] = shown
  BY <1>1, <1>3
<1>5. ASSUME NEW k \in 1 .. n
      PROVE  whole[k] \in ShownAs(whole[k - 1], queue[k])
  <2>1. whole[k] = p[k - 1]
    BY <1>1
  <2>2. CASE k = 1
    BY <1>1, <1>3, <2>1, <2>2
  <2>3. CASE k # 1
    <3>1. k - 1 \in 1 .. n - 1 /\ k - 1 # 0 /\ k - 1 \in 0 .. n /\ k - 1 + 1 = k
      BY <1>1, <2>3
    <3>2. whole[k - 1] = p[k - 1 - 1] /\ Tail(queue)[k - 1] = queue[k]
      BY <1>1, <3>1
    <3>3. p[k - 1] \in ShownAs(p[k - 1 - 1], Tail(queue)[k - 1])
      BY <1>3, <3>1
    <3> QED BY <2>1, <3>2, <3>3
  <2> QED BY <2>2, <2>3
<1>6. whole \in Paths(shown, queue)
  BY <1>4, <1>5 DEF Paths
<1>7. whole[n] = end
  BY <1>1, <1>2
<1> QED BY <1>6, <1>7 DEF Outcomes

(* The histories stay sequences of ages and never grow by being looked at. *)
LEMMA RecentIsPart ==
    ASSUME NEW ages \in Seq(Int), NEW window \in Nat
    PROVE  Recent(ages, window) \in Seq(Int) /\ Len(Recent(ages, window)) <= Len(ages)
<1> DEFINE old == {i \in DOMAIN ages : ages[i] > window}
           first == 1 + Cardinality(old)
<1>1. Len(ages) \in Nat /\ DOMAIN ages = 1 .. Len(ages)
  OBVIOUS
<1>2. IsFiniteSet(1 .. Len(ages)) /\ Cardinality(1 .. Len(ages)) = Len(ages)
  <2>1. 1 \in Int /\ Len(ages) \in Int
    BY <1>1
  <2>2. /\ IsFiniteSet(1 .. Len(ages))
        /\ Cardinality(1 .. Len(ages)) = IF 1 > Len(ages) THEN 0 ELSE Len(ages) - 1 + 1
    BY <2>1, FS_Interval
  <2> QED BY <1>1, <2>2
<1>3. old \subseteq 1 .. Len(ages)
  BY <1>1
<1>4. IsFiniteSet(old) /\ Cardinality(old) <= Len(ages)
  BY <1>2, <1>3, FS_Subset
<1>5. Cardinality(old) \in Nat
  BY <1>4, FS_CardinalityType
<1>6. first \in Int /\ first >= 1 /\ first <= Len(ages) + 1
  BY <1>1, <1>4, <1>5
<1>7. Recent(ages, window) = SubSeq(ages, first, Len(ages))
  BY DEF Recent
<1> HIDE DEF first, old
<1> QED BY <1>1, <1>6, <1>7

-----------------------------------------------------------------------------
(* What one step of the supervisor does to a service                       *)

(* The truth of the inbox depends on a few fields of the service.          *)
LEMMA SameFits ==
    ASSUME NEW s, NEW t, Fits(s),
           t.state = s.state, t.before = s.before, t.out = s.out,
           t.settled = s.settled, t.needsLog = s.needsLog
    PROVE  Fits(t)
<1>1. Effective(t) = Effective(s) /\ Heard(t) = Heard(s)
  BY DEF Effective, Heard
<1> QED BY <1>1 DEF Fits, Tells

LEMMA AppendConcat ==
    ASSUME NEW S, NEW q \in Seq(S), NEW r \in Seq(S), NEW e \in S
    PROVE  q \o Append(r, e) = Append(q \o r, e)
<1> DEFINE left == q \o Append(r, e)
           right == Append(q \o r, e)
<1>1. left \in Seq(S) /\ right \in Seq(S) /\ Len(left) = Len(right)
  OBVIOUS
<1>2. \A i \in 1 .. Len(left) : left[i] = right[i]
  OBVIOUS
<1> HIDE DEF left, right
<1>3. left = right
  BY <1>1, <1>2, SeqEqual
<1> QED BY <1>3 DEF left, right

(* A service that hands on an alert: the inbox will show that alert.       *)
LEMMA SaysSo ==
    ASSUME ~blips.missed => SinkFits, incident \in Shown,
           NEW s \in SvcRow, NEW kind \in {"crashed", "degraded", "recovered"}
    PROVE  LET t == Notified(s, kind)
               ends == Outcomes(incident, sink.queue \o t.out) IN
           /\ t \in SvcRow /\ t = [s EXCEPT !.out = t.out]
           /\ Heard(t).denied <=> kind = "recovered" /\ s.state = "degraded"
           /\ ~blips.missed =>
                /\ kind = "recovered" => ends \subseteq {"none"}
                /\ kind = "degraded" => ends \subseteq {"error"}
                /\ kind = "crashed" =>
                     /\ "none" \notin ends
                     /\ s.state = "degraded" /\ "warning" \notin Outcomes(incident, sink.queue \o s.out)
                          => ends \subseteq {"error"}
<1> DEFINE alert == ServiceAlert(s, kind)
           t == Notified(s, kind)
           first == Outcomes(incident, sink.queue \o s.out)
           ends == Outcomes(incident, sink.queue \o t.out)
<1>1. alert \in SvcAlerts /\ alert.kind = kind /\ (alert.degraded <=> s.state = "degraded")
  BY DEF ServiceAlert, SvcAlerts
<1>2. s.out \in Seq(SvcAlerts)
  BY DEF SvcRow
<1>3. t.out = Append(s.out, alert) /\ t \in SvcRow /\ t.state = s.state
  <2> DEFINE more == Append(s.out, alert)
  <2>1. more \in Seq(SvcAlerts)
    BY <1>1, <1>2
  <2>2. t = [s EXCEPT !.out = more]
    BY DEF Notified
  <2> HIDE DEF more
  <2>3. t.out = more /\ t.state = s.state
    BY <2>2 DEF SvcRow
  <2>4. t \in SvcRow
    BY <2>1, <2>2 DEF SvcRow
  <2> QED BY <2>3, <2>4 DEF more
<1>4. t = [s EXCEPT !.out = t.out]
  BY <1>3 DEF Notified
<1>5. t.out # <<>> /\ t.out[Len(t.out)] = alert
  BY <1>1, <1>2, <1>3
<1>6. Heard(t).denied <=> kind = "recovered" /\ s.state = "degraded"
  <2>1. Heard(t).denied = (t.out[Len(t.out)].kind = "recovered" /\ t.state = "degraded")
    BY <1>5 DEF Heard
  <2> QED BY <1>1, <1>3, <1>5, <2>1
<1>7. ASSUME ~blips.missed, NEW end \in ends
      PROVE  \E early \in first : early \in Shown /\ end \in ShownAs(early, alert)
  <2>1. sink.queue \in Seq(SvcAlerts)
    BY <1>7 DEF SinkFits
  <2> DEFINE queue == sink.queue \o s.out
  <2>2. queue \in Seq(SvcAlerts)
    BY <1>2, <2>1
  <2>3. sink.queue \o t.out = Append(queue, alert)
    <3>1. t.out = Append(s.out, alert)
      BY <1>3
    <3>2. alert \in SvcAlerts
      BY <1>1
    <3> HIDE DEF alert, t
    <3>3. \A q, r \in Seq(SvcAlerts), a \in SvcAlerts : q \o Append(r, a) = Append(q \o r, a)
      BY AppendConcat
    <3>4. sink.queue \o Append(s.out, alert) = Append(sink.queue \o s.out, alert)
      BY <1>2, <2>1, <3>2, <3>3, Zenon
    <3> QED BY <3>1, <3>4
  <2>4. end \in Outcomes(incident, Append(queue, alert))
    BY <1>7, <2>3
  <2> HIDE DEF queue, alert
  <2>5. \E early \in Outcomes(incident, queue) : early \in Shown /\ end \in ShownAs(early, alert)
    BY <1>1, <2>2, <2>4, OutcomesOfMore
  <2> QED BY <2>5 DEF queue, alert
<1>8. ASSUME ~blips.missed
      PROVE  /\ kind = "recovered" => ends \subseteq {"none"}
             /\ kind = "degraded" => ends \subseteq {"error"}
             /\ kind = "crashed" =>
                  /\ "none" \notin ends
                  /\ s.state = "degraded" /\ "warning" \notin first => ends \subseteq {"error"}
  <2> HIDE DEF alert, first, ends
  <2>1. \A end \in ends : \E early \in first : early \in Shown /\ end \in ShownAs(early, alert)
    BY <1>7, <1>8
  <2>2. \A early \in Shown :
          /\ kind = "recovered" => ShownAs(early, alert) = {"none"}
          /\ kind = "degraded" => ShownAs(early, alert) = {"error"}
          /\ kind = "crashed" =>
               /\ "none" \notin ShownAs(early, alert)
               /\ s.state = "degraded" /\ early # "warning" => ShownAs(early, alert) = {"error"}
    BY <1>1, ShowingAlerts
  <2> QED BY <2>1, <2>2
<1> QED BY <1>3, <1>4, <1>6, <1>8

LEMMA RecoveryIsTold ==
    ASSUME ~blips.missed => SinkFits, incident \in Shown,
           NEW s, Sound(s), s.phase = "running", Len(s.hangs) < HangLimit
    PROVE  LET t == BackToRunning(s) IN
           Sound(t) /\ Fits(t) /\ t.phase = "running" /\ t.state = "running"
<1> DEFINE calm == [s EXCEPT !.state = "running"]
           t == BackToRunning(s)
<1>1. s \in SvcRow
  BY DEF Sound
<1>2. calm \in SvcRow /\ calm.state = "running" /\ calm.phase = "running" /\ calm.hangs = s.hangs
  BY <1>1 DEF SvcRow, SvcStates
<1>3. t = Notified(calm, "recovered")
  BY DEF BackToRunning
<1> HIDE DEF calm
<1>4. /\ t \in SvcRow /\ t = [calm EXCEPT !.out = t.out]
      /\ ~blips.missed => Outcomes(incident, sink.queue \o t.out) \subseteq {"none"}
  BY <1>2, <1>3, SaysSo
<1> HIDE DEF t
<1>5. t.state = "running" /\ t.phase = "running" /\ t.hangs = s.hangs
  BY <1>2, <1>4 DEF SvcRow
<1>6. Sound(t)
  BY <1>4, <1>5 DEF Sound, Effective
<1>7. Fits(t)
  BY <1>4, <1>5 DEF Fits, Tells, Effective
<1> QED BY <1>5, <1>6, <1>7 DEF t

LEMMA DegradedIsTold ==
    ASSUME ~blips.missed => SinkFits, incident \in Shown,
           NEW s \in SvcRow, s.phase \in {"running", "stuck", "sleeping"},
           s.state \in {"running", "degraded", "backoff"}, Fits(s)
    PROVE  LET t == Degraded(s) IN
           Sound(t) /\ Fits(t) /\ t.phase = s.phase /\ t.state = "degraded" /\ t.hangs = s.hangs
<1> DEFINE low == [s EXCEPT !.state = "degraded"]
           t == Degraded(s)
<1>1. CASE s.state = "degraded"
  <2>1. t = s
    BY <1>1 DEF Degraded
  <2>2. Sound(s)
    BY <1>1 DEF Sound, Effective
  <2> QED BY <1>1, <2>1, <2>2
<1>2. CASE s.state # "degraded"
  <2>1. low \in SvcRow /\ low.state = "degraded" /\ low.phase = s.phase /\ low.hangs = s.hangs
    BY DEF SvcRow, SvcStates
  <2>2. t = Notified(low, "degraded")
    BY <1>2 DEF Degraded
  <2> HIDE DEF low
  <2>3. /\ t \in SvcRow /\ t = [low EXCEPT !.out = t.out] /\ ~Heard(t).denied
        /\ ~blips.missed => Outcomes(incident, sink.queue \o t.out) \subseteq {"error"}
    BY <2>1, <2>2, SaysSo, ZenonT(60)
  <2> HIDE DEF t
  <2>4. t.state = "degraded" /\ t.phase = s.phase /\ t.hangs = s.hangs
    BY <2>1, <2>3 DEF SvcRow
  <2>5. Sound(t)
    BY <2>3, <2>4 DEF Sound, Effective
  <2>6. Fits(t)
    BY <2>3, <2>4 DEF Fits, Tells, Effective
  <2> QED BY <2>4, <2>5, <2>6 DEF t
<1> QED BY <1>1, <1>2

(* A history that is looked at changes nothing else.                       *)
LEMMA HangsForgotten ==
    ASSUME NEW s \in SvcRow
    PROVE  LET t == RecentHangs(s) IN
           /\ t \in SvcRow /\ Len(t.hangs) <= Len(s.hangs)
           /\ t.hangs = Recent(s.hangs, HangWindow) /\ t = [s EXCEPT !.hangs = t.hangs]
<1> DEFINE few == Recent(s.hangs, HangWindow)
<1>1. few \in Seq(Int) /\ Len(few) <= Len(s.hangs)
  <2>1. s.hangs \in Seq(Int) /\ HangWindow \in Nat
    BY SupervisionNumbers DEF SvcRow
  <2> QED BY <2>1, RecentIsPart
<1>2. RecentHangs(s) = [s EXCEPT !.hangs = few]
  BY DEF RecentHangs
<1> HIDE DEF few
<1>3. [s EXCEPT !.hangs = few].hangs = few /\ [s EXCEPT !.hangs = few] \in SvcRow
  BY <1>1 DEF SvcRow
<1> QED BY <1>1, <1>2, <1>3 DEF few

(* A crash of a service that ran: it backs off or stays degraded.          *)
LEMMA CrashIsTold ==
    ASSUME ~blips.missed => SinkFits, incident \in Shown,
           NEW s, Sound(s), Fits(s), s.phase \in {"running", "stuck"}, NEW hung \in BOOLEAN
    PROVE  LET t == RecordCrash(s, hung) IN
           /\ t \in SvcRow /\ Fits(t) /\ t.state \in {"backoff", "degraded"}
           /\ t.needsLog /\ t.settled
<1> DEFINE old == IF s.age >= StableAfter THEN <<>> ELSE s.crashes
           crashes == Recent(Append(old, 0), CrashWindow)
           hangs == IF hung THEN Append(s.hangs, 0) ELSE s.hangs
           state == IF s.state = "degraded" THEN s.state ELSE "backoff"
           r == [s EXCEPT !.attempt = TRUE, !.needsLog = TRUE, !.settled = TRUE,
                          !.crashes = crashes, !.hangs = hangs, !.state = state]
           t == RecordCrash(s, hung)
<1>1. s \in SvcRow /\ s.state \in {"running", "degraded"}
  BY DEF Sound
<1>2. crashes \in Seq(Int) /\ hangs \in Seq(Int)
  <2>1. Append(old, 0) \in Seq(Int) /\ hangs \in Seq(Int) /\ CrashWindow \in Nat
    BY <1>1, SupervisionNumbers DEF SvcRow
  <2> QED BY <2>1, RecentIsPart
<1>3. state \in {"backoff", "degraded"} /\ (state = "degraded" <=> s.state = "degraded")
  BY <1>1
<1>4. t = Notified(r, "crashed")
  BY DEF RecordCrash
<1> HIDE DEF crashes, hangs, state
<1>5. /\ r \in SvcRow /\ r.state = state /\ r.needsLog /\ r.settled
      /\ r.out = s.out
  BY <1>1, <1>2, <1>3 DEF SvcRow, SvcStates
<1> DEFINE ends == Outcomes(incident, sink.queue \o t.out)
<1> HIDE DEF r
<1>6. /\ t \in SvcRow /\ t = [r EXCEPT !.out = t.out] /\ ~Heard(t).denied
      /\ ~blips.missed =>
           /\ "none" \notin ends
           /\ r.state = "degraded" /\ "warning" \notin Outcomes(incident, sink.queue \o r.out)
                => ends \subseteq {"error"}
  BY <1>4, <1>5, SaysSo, ZenonT(60)
<1> HIDE DEF t
<1>7. t.state = state /\ t.needsLog /\ t.settled
  BY <1>5, <1>6 DEF SvcRow
<1>8. ~blips.missed /\ state = "degraded" => ends \subseteq {"error"}
  <2>1. ~blips.missed /\ state = "degraded" => "warning" \notin Outcomes(incident, sink.queue \o s.out)
    BY <1>1, <1>3 DEF Fits, Tells, Effective
  <2> QED BY <1>5, <1>6, <2>1
<1>9. Fits(t)
  BY <1>3, <1>6, <1>7, <1>8 DEF Fits, Tells, Effective
<1> QED BY <1>3, <1>6, <1>7, <1>9 DEF t

LEMMA DelayIsKept ==
    ASSUME ~blips.missed => SinkFits, incident \in Shown,
           NEW s \in SvcRow, Fits(s), s.state \in {"backoff", "degraded"}, s.needsLog, s.settled
    PROVE  LET t == NextDelay(s) IN
           Sound(t) /\ Fits(t) /\ t.phase = "sleeping"
<1> DEFINE few == RecentHangs(s)
           r == [few EXCEPT !.phase = "sleeping"]
           t == NextDelay(s)
<1>1. few \in SvcRow /\ few = [s EXCEPT !.hangs = few.hangs]
  BY HangsForgotten
<1> HIDE DEF few
<1>2. /\ r \in SvcRow /\ r.phase = "sleeping" /\ r.state = s.state /\ r.before = s.before
      /\ r.out = s.out /\ r.settled = s.settled /\ r.needsLog = s.needsLog
  BY <1>1 DEF SvcRow, Phases
<1>3. t = IF Len(r.crashes) >= CrashLimit \/ Len(r.hangs) >= HangLimit THEN Degraded(r) ELSE r
  BY DEF NextDelay, few
<1> HIDE DEF r
<1>4. Fits(r)
  BY <1>2, SameFits
<1>5. CASE t = Degraded(r)
  BY <1>2, <1>4, <1>5, DegradedIsTold
<1>6. CASE t = r /\ Len(r.hangs) < HangLimit
  BY <1>2, <1>4, <1>6 DEF Sound, Effective
<1>7. t = Degraded(r) \/ (t = r /\ Len(r.hangs) < HangLimit)
  <2>1. Len(r.hangs) \in Nat /\ HangLimit \in Nat
    BY <1>2, SupervisionNumbers DEF SvcRow
  <2> QED BY <1>3, <2>1
<1> QED BY <1>5, <1>6, <1>7

(* The end of a run: the shutdown, a maintenance window or a crash.        *)
LEMMA EndOfRunIsKept ==
    ASSUME ~blips.missed => SinkFits, incident \in Shown,
           NEW s, Sound(s), Fits(s), s.phase \in {"running", "stuck"}, NEW hung \in BOOLEAN
    PROVE  LET t == AfterRun(s, hung) IN
           Sound(t) /\ Fits(t) /\ t.phase \in {"ended", "loop", "sleeping"}
<1>1. s \in SvcRow /\ s.state \in {"running", "degraded"}
  BY DEF Sound
<1>2. CASE mode.stopping
  <2> DEFINE t == Ended(s)
  <2>1. t \in SvcRow /\ t.phase = "ended" /\ t.state = "stopped"
    BY <1>1 DEF Ended, SvcRow, Phases, SvcStates
  <2>2. AfterRun(s, hung) = t
    BY <1>2 DEF AfterRun
  <2> HIDE DEF t
  <2>3. Sound(t) /\ Fits(t)
    BY <2>1 DEF Sound, Fits, Tells, Effective
  <2> QED BY <2>1, <2>2, <2>3
<1>3. CASE ~mode.stopping /\ mode.window
  <2> DEFINE t == [s EXCEPT !.phase = "loop"]
  <2>1. /\ t \in SvcRow /\ t.phase = "loop" /\ t.state = s.state /\ t.before = s.before
        /\ t.out = s.out /\ t.settled = s.settled /\ t.needsLog = s.needsLog /\ t.hangs = s.hangs
    BY <1>1 DEF SvcRow, Phases
  <2>2. AfterRun(s, hung) = t
    BY <1>3 DEF AfterRun
  <2> HIDE DEF t
  <2>3. Sound(t)
    BY <1>1, <2>1 DEF Sound, Effective
  <2>4. Fits(t)
    BY <2>1, SameFits
  <2> QED BY <2>1, <2>2, <2>3, <2>4
<1>4. CASE ~mode.stopping /\ ~mode.window
  <2> DEFINE r == RecordCrash(s, hung)
  <2>1. /\ r \in SvcRow /\ Fits(r) /\ r.state \in {"backoff", "degraded"}
        /\ r.needsLog /\ r.settled
    BY CrashIsTold
  <2>2. AfterRun(s, hung) = NextDelay(r)
    BY <1>4 DEF AfterRun
  <2> HIDE DEF r
  <2>3. Sound(NextDelay(r)) /\ Fits(NextDelay(r)) /\ NextDelay(r).phase = "sleeping"
    BY <2>1, DelayIsKept
  <2> QED BY <2>2, <2>3
<1> QED BY <1>2, <1>3, <1>4

LEMMA NeverIsNumber == Never \in Int
  BY DEF Never

(* What the checks of a running service go by, and leave behind.           *)
Running(s) == Sound(s) /\ Fits(s) /\ s.phase = "running"

(* Fields that neither the state nor the truth of the inbox depends on.    *)
LEMMA RunningOn ==
    ASSUME NEW s, Running(s), NEW t \in SvcRow,
           t.phase = s.phase, t.state = s.state, t.before = s.before, t.out = s.out,
           t.settled = s.settled, t.needsLog = s.needsLog,
           Len(t.hangs) <= Len(s.hangs)
    PROVE  Running(t)
<1>1. Fits(t)
  BY SameFits DEF Running
<1>2. Effective(t) = Effective(s) /\ Sound(s)
  BY DEF Effective, Running
<1>3. Len(t.hangs) \in Int /\ Len(s.hangs) \in Int /\ HangLimit \in Int
  BY <1>2, SupervisionNumbers DEF Sound, SvcRow
<1>4. Len(s.hangs) < HangLimit => Len(t.hangs) < HangLimit
  BY <1>3
<1>5. Sound(t)
  BY <1>2, <1>4 DEF Sound, Running
<1> QED BY <1>1, <1>5 DEF Running

LEMMA MarkStableIsKept ==
    ASSUME ~blips.missed => SinkFits, incident \in Shown, NEW s, Running(s)
    PROVE  Running(MarkStable(s))
<1> DEFINE t == [s EXCEPT !.attempt = FALSE, !.crashes = <<>>]
           few == RecentHangs(t)
           u == [few EXCEPT !.needsLog = FALSE, !.settled = TRUE]
           once == [t EXCEPT !.settled = TRUE]
           told == Notified(once, "recovered")
<1>1. s \in SvcRow /\ s.state \in {"running", "degraded"} /\ s.phase = "running"
  BY DEF Running, Sound
<1>2. /\ t \in SvcRow
      /\ t.phase = s.phase /\ t.state = s.state /\ t.before = s.before /\ t.out = s.out
      /\ t.settled = s.settled /\ t.needsLog = s.needsLog /\ t.hangs = s.hangs
  <2>1. <<>> \in Seq(Int)
    OBVIOUS
  <2> QED BY <1>1, <2>1 DEF SvcRow
<1>3. Running(t)
  <2>1. Len(t.hangs) <= Len(s.hangs)
    BY <1>1, <1>2 DEF SvcRow
  <2> HIDE DEF t
  <2> QED BY <1>2, <2>1, RunningOn
<1> DEFINE calls == s.streak > 0 \/ s.age < StableAfter \/ ~(s.attempt \/ s.needsLog \/ ~s.settled)
<1>4. MarkStable(s) =
        IF calls THEN s
        ELSE IF t.failDegraded THEN t
        ELSE IF t.needsLog THEN IF Len(u.hangs) < HangLimit THEN BackToRunning(u) ELSE u
        ELSE IF ~t.settled THEN told ELSE t
  BY DEF MarkStable
<1> HIDE DEF t, calls
<1>5. /\ few \in SvcRow /\ few = [t EXCEPT !.hangs = few.hangs] /\ Len(few.hangs) <= Len(t.hangs)
  BY <1>2, HangsForgotten
<1> HIDE DEF few
<1>6. /\ u \in SvcRow
      /\ u.phase = t.phase /\ u.state = t.state /\ u.before = t.before /\ u.out = t.out
      /\ ~u.needsLog /\ u.settled /\ u.hangs = few.hangs
  BY <1>2, <1>5 DEF SvcRow
<1> HIDE DEF u
<1>7. u.state \in {"running", "degraded"} /\ t.state \in {"running", "degraded"}
  BY <1>1, <1>2, <1>6
<1>8. ASSUME Len(u.hangs) < HangLimit
      PROVE  Running(BackToRunning(u))
  <2>1. Sound(u)
    BY <1>1, <1>2, <1>6, <1>7, <1>8 DEF Sound, Effective
  <2> QED BY <1>1, <1>2, <1>6, <1>8, <2>1, RecoveryIsTold DEF Running
<1>9. ASSUME ~(Len(u.hangs) < HangLimit)
      PROVE  Running(u)
  <2>1. /\ Len(u.hangs) \in Int /\ Len(t.hangs) \in Int /\ HangLimit \in Int
        /\ Len(u.hangs) <= Len(t.hangs)
    BY <1>2, <1>5, <1>6, SupervisionNumbers DEF SvcRow
  <2>2. ~(Len(t.hangs) < HangLimit)
    BY <1>9, <2>1
  <2>3. t.state = "degraded"
    BY <1>3, <1>7, <2>2 DEF Running, Sound, Effective
  <2>4. Heard(u).denied = Heard(t).denied
    BY <1>6 DEF Heard
  <2>5. Fits(u)
    BY <1>3, <1>6, <2>3, <2>4 DEF Running, Fits, Tells, Effective
  <2>6. Sound(u)
    BY <1>1, <1>2, <1>6, <2>3 DEF Sound, Effective
  <2> QED BY <1>1, <1>2, <1>6, <2>5, <2>6 DEF Running
<1>10. Running(told)
  <2>1. /\ once \in SvcRow
        /\ once.phase = t.phase /\ once.state = t.state /\ once.hangs = t.hangs /\ once.settled
    BY <1>2 DEF SvcRow
  <2> HIDE DEF once
  <2>2. /\ told \in SvcRow /\ told = [once EXCEPT !.out = told.out]
        /\ Heard(told).denied <=> once.state = "degraded"
        /\ ~blips.missed => Outcomes(incident, sink.queue \o told.out) \subseteq {"none"}
    BY <2>1, SaysSo
  <2> HIDE DEF told
  <2>3. told.phase = t.phase /\ told.state = t.state /\ told.hangs = t.hangs /\ told.settled
    BY <2>1, <2>2, SMTT(60) DEF SvcRow
  <2>4. Sound(told)
    BY <1>1, <1>2, <1>3, <1>7, <2>2, <2>3 DEF Running, Sound, Effective
  <2>5. Fits(told)
    BY <1>7, <2>1, <2>2, <2>3 DEF Fits, Tells, Effective
  <2> QED BY <1>1, <1>2, <2>3, <2>4, <2>5 DEF Running
<1> HIDE DEF told
<1> QED BY <1>3, <1>4, <1>8, <1>9, <1>10

LEMMA ClearFailureSeriesIsKept ==
    ASSUME ~blips.missed => SinkFits, incident \in Shown, NEW s, Running(s)
    PROVE  Running(ClearFailureSeries(s))
<1> DEFINE t == [s EXCEPT !.failDegraded = FALSE, !.okAge = Never]
           few == RecentHangs(t)
           u == IF t.state = "degraded" /\ t.crashes = <<>> THEN few ELSE t
<1>1. s \in SvcRow
  BY DEF Running, Sound
<1>2. /\ t \in SvcRow
      /\ t.phase = s.phase /\ t.state = s.state /\ t.before = s.before /\ t.out = s.out
      /\ t.settled = s.settled /\ t.needsLog = s.needsLog /\ t.hangs = s.hangs
  BY <1>1, NeverIsNumber DEF SvcRow
<1>3. ClearFailureSeries(s) =
        IF ~s.failDegraded \/ s.okAge < StableAfter THEN s
        ELSE IF u.state = "degraded" /\ u.crashes = <<>> /\ Len(u.hangs) < HangLimit
             THEN BackToRunning(u) ELSE u
  BY DEF ClearFailureSeries
<1> HIDE DEF t
<1>4. /\ few \in SvcRow /\ few = [t EXCEPT !.hangs = few.hangs] /\ Len(few.hangs) <= Len(t.hangs)
  BY <1>2, HangsForgotten
<1> HIDE DEF few
<1>5. /\ few.phase = t.phase /\ few.state = t.state /\ few.before = t.before /\ few.out = t.out
      /\ few.settled = t.settled /\ few.needsLog = t.needsLog
  BY <1>2, <1>4 DEF SvcRow
<1>6. Running(t)
  <2>1. Len(t.hangs) <= Len(s.hangs)
    BY <1>1, <1>2 DEF SvcRow
  <2> QED BY <1>2, <2>1, RunningOn
<1>7. Running(few)
  BY <1>4, <1>5, <1>6, RunningOn
<1>8. Running(u)
  BY <1>6, <1>7
<1> HIDE DEF u
<1>9. Len(u.hangs) < HangLimit => Running(BackToRunning(u))
  BY <1>8, RecoveryIsTold DEF Running
<1> QED BY <1>3, <1>8, <1>9

LEMMA ClearHangsIsKept ==
    ASSUME ~blips.missed => SinkFits, incident \in Shown, NEW s, Running(s)
    PROVE  Running(ClearHangs(s))
<1> DEFINE t == [s EXCEPT !.hangs = <<>>]
<1>1. s \in SvcRow
  BY DEF Running, Sound
<1>2. <<>> \in Seq(Int) /\ Len(<<>>) = 0
  OBVIOUS
<1>3. /\ t \in SvcRow
      /\ t.phase = s.phase /\ t.state = s.state /\ t.before = s.before /\ t.out = s.out
      /\ t.settled = s.settled /\ t.needsLog = s.needsLog /\ t.hangs = <<>>
  BY <1>1, <1>2 DEF SvcRow
<1>4. ClearHangs(s) =
        IF s.hangs = <<>> \/ s.age < HangRecovery THEN s
        ELSE IF t.state = "degraded" /\ t.crashes = <<>> /\ ~t.failDegraded THEN BackToRunning(t) ELSE t
  BY DEF ClearHangs
<1> HIDE DEF t
<1>5. Len(t.hangs) <= Len(s.hangs) /\ Len(t.hangs) < HangLimit
  <2>1. Len(s.hangs) \in Nat
    BY <1>1 DEF SvcRow
  <2> QED BY <1>2, <1>3, <2>1, SupervisionNumbers
<1>6. Running(t)
  BY <1>3, <1>5, RunningOn
<1>7. Running(BackToRunning(t))
  BY <1>5, <1>6, RecoveryIsTold DEF Running
<1> QED BY <1>4, <1>6, <1>7

LEMMA ChecksAreKept ==
    ASSUME ~blips.missed => SinkFits, incident \in Shown, NEW s, Running(s)
    PROVE  Running(WatchChecks(s))
<1>1. Running(MarkStable(s))
  BY MarkStableIsKept
<1>2. Running(ClearFailureSeries(MarkStable(s)))
  BY <1>1, ClearFailureSeriesIsKept
<1> QED BY <1>2, ClearHangsIsKept DEF WatchChecks

LEMMA FailureIsKept ==
    ASSUME ~blips.missed => SinkFits, incident \in Shown, NEW s, Running(s),
           NEW streak \in Int, NEW since \in Int
    PROVE  LET t == [s EXCEPT !.streak = streak, !.failAge = since, !.okAge = Never]
           IN  Running(t) /\ Running(Degraded([t EXCEPT !.failDegraded = TRUE]))
<1> DEFINE t == [s EXCEPT !.streak = streak, !.failAge = since, !.okAge = Never]
           low == [t EXCEPT !.failDegraded = TRUE]
<1>1. s \in SvcRow
  BY DEF Running, Sound
<1>2. /\ t \in SvcRow
      /\ t.phase = s.phase /\ t.state = s.state /\ t.before = s.before /\ t.out = s.out
      /\ t.settled = s.settled /\ t.needsLog = s.needsLog /\ t.hangs = s.hangs
  BY <1>1, NeverIsNumber DEF SvcRow
<1>3. Len(t.hangs) <= Len(s.hangs)
  BY <1>1, <1>2 DEF SvcRow
<1> HIDE DEF t
<1>4. Running(t)
  BY <1>2, <1>3, RunningOn
<1>5. /\ low \in SvcRow
      /\ low.phase = t.phase /\ low.state = t.state /\ low.before = t.before /\ low.out = t.out
      /\ low.settled = t.settled /\ low.needsLog = t.needsLog /\ low.hangs = t.hangs
  BY <1>2 DEF SvcRow
<1>6. Len(low.hangs) <= Len(t.hangs)
  BY <1>2, <1>5, SMTT(60) DEF SvcRow
<1> HIDE DEF low
<1>7. Running(low)
  BY <1>4, <1>5, <1>6, RunningOn
<1>8. Running(Degraded(low))
  BY <1>5, <1>7, DegradedIsTold DEF Running, Sound
<1> QED BY <1>4, <1>8 DEF t, low

-----------------------------------------------------------------------------
(* The steps of the supervisor and of the sink                             *)

(* A process that begins anew knows of nothing.                            *)
Fresh ==
    /\ svc \in {NewService(beats) : beats \in BOOLEAN}
    /\ tasks = [running |-> 0, hung |-> FALSE]
    /\ mode = [window |-> FALSE, stopping |-> FALSE]
    /\ sink = IdleSink
    /\ incident \in Shown
    /\ blips \in [faults : Int, missed : {FALSE}, denied : {FALSE}]

LEMMA FreshIsKept == Fresh => SupInv
<1> SUFFICES ASSUME Fresh
             PROVE  SupInv
  OBVIOUS
<1>1. PICK beats \in BOOLEAN : svc = NewService(beats)
  BY DEF Fresh
<1>2. <<>> \in Seq(Int) /\ <<>> \in Seq(SvcAlerts) /\ Len(<<>>) = 0
  OBVIOUS
<1>3. svc \in SvcRow
  <2> DEFINE zero == 0
             no == FALSE
  <2>1. zero \in Int /\ no \in BOOLEAN
    OBVIOUS
  <2>2. svc = [beats |-> beats, phase |-> "loop", state |-> "starting", before |-> "starting",
               attempt |-> no, age |-> zero, needsLog |-> no, settled |-> no, watched |-> no,
               streak |-> zero, failAge |-> Never, failDegraded |-> no, okAge |-> Never,
               crashes |-> <<>>, hangs |-> <<>>, out |-> <<>>]
    BY <1>1 DEF NewService
  <2> HIDE DEF zero, no
  <2> QED BY <1>1, <1>2, <2>1, <2>2, NeverIsNumber DEF SvcRow, Phases, SvcStates
<1>4. /\ svc.state = "starting" /\ svc.phase = "loop" /\ ~svc.settled
      /\ svc.hangs = <<>> /\ svc.out = <<>>
  BY <1>1 DEF NewService
<1>5. Sound(svc)
  BY <1>2, <1>3, <1>4, SupervisionNumbers DEF Sound, Effective
<1>6. Fits(svc)
  BY <1>4 DEF Fits, Tells, Effective
<1>7. SinkFits
  <2> DEFINE zero == 0
             no == FALSE
  <2>1. zero \in Int /\ no \in BOOLEAN /\ sink = [queue |-> <<>>, writing |-> NoServiceAlert, gone |-> no, tries |-> zero]
    BY DEF Fresh, IdleSink
  <2>2. ~no
    OBVIOUS
  <2> HIDE DEF zero, no
  <2>3. /\ sink \in [queue : Seq(SvcAlerts), writing : SvcAlerts \union {NoServiceAlert},
                     gone : BOOLEAN, tries : Int]
        /\ sink.queue = <<>> /\ sink.writing = NoServiceAlert /\ ~sink.gone
    BY <1>2, <2>1, <2>2
  <2> QED BY <1>2, <2>3, SupervisionNumbers DEF SinkFits
<1>8. TasksFit
  <2> DEFINE zero == 0
             no == FALSE
  <2>1. zero = 0 /\ zero \in Int /\ no \in BOOLEAN /\ tasks = [running |-> zero, hung |-> no]
    BY DEF Fresh
  <2> HIDE DEF zero, no
  <2>2. tasks \in [running : Int, hung : BOOLEAN] /\ tasks.running = 0
    BY <2>1
  <2> QED BY <1>4, <2>2 DEF TasksFit
<1>9. mode \in [window : BOOLEAN, stopping : BOOLEAN]
  <2> DEFINE no == FALSE
  <2>1. no \in BOOLEAN /\ mode = [window |-> no, stopping |-> no]
    BY DEF Fresh
  <2> HIDE DEF no
  <2> QED BY <2>1
<1>10. blips \in [faults : Int, missed : BOOLEAN, denied : BOOLEAN] /\ incident \in Shown
  BY DEF Fresh
<1> QED BY <1>4, <1>5, <1>6, <1>7, <1>8, <1>9, <1>10 DEF SupInv

LEMMA FreshProcessIsKept == Fresh' => SupInv'
  BY FreshIsKept, PTL

LEMMA SupInvAtFirst ==
    ASSUME SupInit
    PROVE  SupInv
<1>1. incident \in Shown
  BY DEF SupInit, Shown
<1>2. blips \in [faults : Int, missed : {FALSE}, denied : {FALSE}]
  <2> DEFINE zero == 0
             no == FALSE
  <2>1. zero \in Int /\ no \in {FALSE} /\ blips = [faults |-> zero, missed |-> no, denied |-> no]
    BY DEF SupInit
  <2> HIDE DEF zero, no
  <2> QED BY <2>1
<1> QED BY <1>1, <1>2, FreshIsKept DEF SupInit, Fresh

(* What a step hands on is queued behind what waits, unless it is too much.*)
LEMMA QueueIsKept ==
    ASSUME SupInv, NEW s, Sound(s), ~blips.missed, ~Missed(sink, s.out)
    PROVE  LET k == Queued(sink, s.out) IN
           /\ k.queue = sink.queue \o s.out
           /\ k.queue \in Seq(SvcAlerts) /\ Len(k.queue) <= MaxPending
           /\ k \in [queue : Seq(SvcAlerts), writing : SvcAlerts \union {NoServiceAlert},
                     gone : BOOLEAN, tries : Int]
           /\ ~k.gone /\ k.writing = sink.writing
           /\ k.writing # NoServiceAlert => k.queue # <<>> /\ Head(k.queue) = k.writing
<1> DEFINE k == Queued(sink, s.out)
           all == sink.queue \o s.out
<1>1. SinkFits
  BY DEF SupInv
<1>2. s.out \in Seq(SvcAlerts) /\ sink.queue \in Seq(SvcAlerts)
  BY <1>1 DEF Sound, SvcRow, SinkFits
<1> DEFINE one == sink.queue
           two == s.out
<1>3. /\ all \in Seq(SvcAlerts) /\ Len(all) = Len(sink.queue) + Len(s.out)
      /\ sink.queue # <<>> => all # <<>> /\ Head(all) = Head(sink.queue)
  <2>1. one \in Seq(SvcAlerts) /\ two \in Seq(SvcAlerts) /\ all = one \o two
    BY <1>2
  <2> HIDE DEF one, two, all
  <2>2. all \in Seq(SvcAlerts) /\ Len(all) = Len(one) + Len(two)
    BY <2>1
  <2>3. one # <<>> => all # <<>> /\ Head(all) = Head(one)
    BY <2>1
  <2> QED BY <2>2, <2>3 DEF one, two
<1>4. Len(all) <= MaxPending
  <2>1. Len(sink.queue) \in Int /\ Len(s.out) \in Int /\ MaxPending \in Int
    BY <1>2, SupervisionNumbers
  <2>2. ~(Len(sink.queue) + Len(s.out) > MaxPending)
    BY DEF Missed
  <2> DEFINE a == Len(sink.queue)
             b == Len(s.out)
             c == Len(all)
  <2>3. a \in Int /\ b \in Int /\ ~(a + b > MaxPending) /\ c = a + b
    BY <1>3, <2>1, <2>2
  <2> HIDE DEF a, b, c
  <2>4. c <= MaxPending
    BY <2>1, <2>3
  <2> QED BY <2>4 DEF c
<1>5. k = [sink EXCEPT !.queue = all]
  BY DEF Queued
<1> HIDE DEF all
<1>6. /\ k.queue = all /\ k.writing = sink.writing /\ ~k.gone
      /\ k \in [queue : Seq(SvcAlerts), writing : SvcAlerts \union {NoServiceAlert},
                gone : BOOLEAN, tries : Int]
  BY <1>1, <1>3, <1>5 DEF SinkFits
<1> HIDE DEF k
<1>7. k.writing # NoServiceAlert => k.queue # <<>> /\ Head(k.queue) = k.writing
  BY <1>1, <1>3, <1>6 DEF SinkFits
<1> QED BY <1>3, <1>4, <1>6, <1>7 DEF all, k

(* A step that ends with a fitting service leaves a fitting service.       *)
LEMMA LeavingIsKept ==
    ASSUME SupInv, NEW s, Sound(s), Fits(s), Leaves(s), UNCHANGED incident,
           blips'.missed = Heard(s).missed, blips'.denied = Heard(s).denied
    PROVE  /\ Sound(svc)' /\ svc'.out = <<>> /\ svc'.phase = s.phase
           /\ (~blips.missed => SinkFits)'
           /\ Fits(svc)'
<1>1. s \in SvcRow /\ s.out \in Seq(SvcAlerts)
  BY DEF Sound, SvcRow
<1>2. <<>> \in Seq(SvcAlerts)
  OBVIOUS
<1>3. svc' = [s EXCEPT !.out = <<>>] /\ sink' = Queued(sink, s.out)
  BY DEF Leaves
<1> DEFINE t == [s EXCEPT !.out = <<>>]
<1>4. /\ t \in SvcRow /\ t.phase = s.phase /\ t.state = s.state /\ t.before = s.before
      /\ t.settled = s.settled /\ t.needsLog = s.needsLog /\ t.hangs = s.hangs /\ t.out = <<>>
  BY <1>1, <1>2 DEF SvcRow
<1>5. Sound(t)
  <2> HIDE DEF t
  <2> QED BY <1>4 DEF Sound, Effective
<1>6. blips'.missed <=> blips.missed \/ Missed(sink, s.out)
  BY DEF Heard
<1> HIDE DEF t
<1>7. svc' = t
  BY <1>3 DEF t
<1>8. ASSUME ~blips'.missed
      PROVE  SinkFits' /\ sink'.queue = sink.queue \o s.out
  <2>1. ~blips.missed /\ ~Missed(sink, s.out)
    BY <1>6, <1>8
  <2> QED BY <1>3, <2>1, QueueIsKept DEF SinkFits
<1>9. ASSUME ~blips'.missed
      PROVE  Tells(t, blips'.denied, Outcomes(incident, sink'.queue \o <<>>))
  <2>1. ~blips.missed
    BY <1>6, <1>9
  <2>2. Tells(s, Heard(s).denied, Outcomes(incident, sink.queue \o s.out))
    BY <2>1 DEF Fits
  <2>3. sink'.queue \in Seq(SvcAlerts)
    BY <1>8, <1>9 DEF SinkFits
  <2>4. sink'.queue \o <<>> = sink'.queue
    BY <2>3, ConcatEmptySeq
  <2>5. Effective(t) = Effective(s)
    BY <1>4 DEF Effective
  <2> QED BY <1>4, <1>8, <1>9, <2>2, <2>4, <2>5 DEF Tells
<1>10. Heard(svc)'.denied = blips'.denied
  BY <1>4, <1>7 DEF Heard
<1>11. Fits(svc)'
  BY <1>4, <1>7, <1>9, <1>10 DEF Fits
<1> QED BY <1>4, <1>5, <1>7, <1>8, <1>11 DEF Sound

(* A step of the service alone, which says nothing.                        *)
LEMMA QuietIsKept ==
    ASSUME SupInv, UNCHANGED <<sink, incident, blips>>, Sound(svc'), svc'.out = <<>>, Fits(svc')
    PROVE  /\ Sound(svc)' /\ svc'.out = <<>>
           /\ (~blips.missed => SinkFits)' /\ Fits(svc)'
<1>1. Fits(svc)'
  BY DEF Fits, Heard, Missed
<1>2. (~blips.missed => SinkFits)'
  BY DEF SupInv, SinkFits
<1> QED BY <1>1, <1>2 DEF Sound

LEMMA StartingIsKept ==
    ASSUME SupInv, NEW s \in SvcRow, s.phase \in {"loop", "paused"},
           s.state = Effective(svc), s.settled = svc.settled, s.needsLog = svc.needsLog,
           s.hangs = svc.hangs, s.out = <<>>, svc.phase \in {"loop", "paused"},
           svc' = Started(s), UNCHANGED <<sink, incident, blips>>
    PROVE  /\ Sound(svc)' /\ svc'.out = <<>> /\ svc'.phase = "running"
           /\ (~blips.missed => SinkFits)' /\ Fits(svc)'
<1> DEFINE state == IF s.state = "degraded" THEN s.state ELSE "running"
           zero == 0
           t == [s EXCEPT !.phase = "running", !.age = zero, !.streak = zero, !.failAge = Never,
                          !.okAge = Never, !.state = state]
           watched == Watching(t)
           u == [t EXCEPT !.watched = watched]
<1>1. /\ Sound(svc) /\ Fits(svc) /\ svc.out = <<>> /\ svc \in SvcRow
      /\ svc.phase # "ended" /\ svc.state # "stopped"
  BY DEF SupInv, Sound
<1>2. state \in SvcStates /\ state \in {"running", "degraded"}
      /\ (state = "degraded" <=> Effective(svc) = "degraded")
  BY DEF SvcStates
<1>3. svc' = u
  BY DEF Started
<1> HIDE DEF state
<1>4. zero \in Int
  OBVIOUS
<1> HIDE DEF zero
<1>5. /\ t \in SvcRow /\ t.phase = "running" /\ t.state = state
      /\ t.settled = svc.settled /\ t.needsLog = svc.needsLog /\ t.hangs = svc.hangs /\ t.out = <<>>
  BY <1>2, <1>4, NeverIsNumber DEF SvcRow, Phases
<1> HIDE DEF t
<1>6. watched \in BOOLEAN
  BY <1>5 DEF Watching, SvcRow
<1> HIDE DEF watched
<1>7. /\ u \in SvcRow /\ u.phase = "running" /\ u.state = state
      /\ u.settled = svc.settled /\ u.needsLog = svc.needsLog /\ u.hangs = svc.hangs /\ u.out = <<>>
  BY <1>5, <1>6 DEF SvcRow
<1> HIDE DEF u
<1>8. Effective(svc) \in {"starting", "running", "backoff", "degraded"} /\ Effective(u) = state
  BY <1>1, <1>2, <1>7 DEF Sound, Effective, SvcRow, SvcStates
<1>9. Sound(u)
  BY <1>1, <1>2, <1>7, <1>8 DEF Sound
<1>10. Heard(u).denied = Heard(svc).denied
  BY <1>1, <1>7 DEF Heard
<1>11. Fits(u)
  <2>1. ASSUME ~blips.missed
        PROVE  Tells(u, Heard(u).denied, Outcomes(incident, sink.queue \o u.out))
    <3>1. Tells(svc, Heard(svc).denied, Outcomes(incident, sink.queue \o svc.out))
      BY <1>1, <2>1 DEF Fits
    <3>2. state = "running" /\ u.settled /\ ~u.needsLog => Effective(svc) = "running"
      BY <1>1, <1>2, <1>7, <1>8 DEF Sound
    <3> QED BY <1>1, <1>2, <1>7, <1>8, <1>10, <3>1, <3>2 DEF Tells
  <2> QED BY <2>1 DEF Fits
<1> QED BY <1>3, <1>7, <1>9, <1>11, QuietIsKept

(* What the other actions change of the service leaves its truth alone.    *)
LEMMA AsideIsKept ==
    ASSUME SupInv, svc' \in SvcRow, svc'.state = svc.state, svc'.before = svc.before,
           svc'.out = <<>>, svc'.settled = svc.settled, svc'.needsLog = svc.needsLog,
           Len(svc'.hangs) <= Len(svc.hangs),
           svc'.phase = svc.phase \/ (svc.phase = "sleeping" /\ svc'.phase = "loop"),
           UNCHANGED <<sink, incident, blips>>
    PROVE  /\ Sound(svc)' /\ svc'.out = <<>>
           /\ (~blips.missed => SinkFits)' /\ Fits(svc)'
<1> DEFINE t == svc'
<1>1. Sound(svc) /\ Fits(svc) /\ svc.out = <<>> /\ svc \in SvcRow
  BY DEF SupInv, Sound
<1>2. Effective(t) = Effective(svc)
  BY DEF Effective
<1>3. Fits(t)
  BY <1>1, SameFits
<1>4. Len(svc.hangs) < HangLimit => Len(t.hangs) < HangLimit
  <2>1. Len(svc.hangs) \in Int /\ Len(t.hangs) \in Int /\ HangLimit \in Int
    BY <1>1, SupervisionNumbers DEF SvcRow
  <2> QED BY <2>1
<1>5. Sound(t)
  BY <1>1, <1>2, <1>4 DEF Sound
<1> QED BY <1>3, <1>5, QuietIsKept

LEMMA PauseIsKept ==
    ASSUME SupInv, PauseService
    PROVE  SupInv'
<1> DEFINE s == [svc EXCEPT !.phase = "paused", !.before = svc.state, !.state = "paused"]
<1>1. Sound(svc) /\ Fits(svc) /\ svc.out = <<>> /\ svc \in SvcRow /\ TasksFit
  BY DEF SupInv, Sound
<1>2. svc.phase = "loop" /\ svc.state \notin {"paused", "stopped"}
  BY <1>1 DEF PauseService, Sound
<1>3. /\ s \in SvcRow /\ s.phase = "paused" /\ s.state = "paused" /\ s.before = svc.state
      /\ s.out = <<>> /\ s.settled = svc.settled /\ s.needsLog = svc.needsLog /\ s.hangs = svc.hangs
  BY <1>1 DEF SvcRow, Phases, SvcStates
<1>4. svc' = s /\ UNCHANGED <<tasks, mode, sink, incident, blips>>
  BY DEF PauseService
<1> HIDE DEF s
<1>5. Effective(s) = Effective(svc) /\ Heard(s).denied = Heard(svc).denied
  BY <1>1, <1>2, <1>3 DEF Effective, Heard
<1>6. Sound(s)
  BY <1>1, <1>2, <1>3, <1>5 DEF Sound
<1>7. Fits(s)
  BY <1>1, <1>3, <1>5 DEF Fits, Tells
<1>8. /\ Sound(svc)' /\ svc'.out = <<>>
      /\ (~blips.missed => SinkFits)' /\ Fits(svc)'
  BY <1>3, <1>4, <1>6, <1>7, QuietIsKept
<1>9. TasksFit'
  BY <1>1, <1>2, <1>3, <1>4 DEF TasksFit
<1> QED BY <1>4, <1>8, <1>9 DEF SupInv

LEMMA EndingIsKept ==
    ASSUME SupInv, svc' = Ended(svc), UNCHANGED <<sink, incident, blips>>
    PROVE  /\ Sound(svc)' /\ svc'.out = <<>> /\ svc'.phase = "ended"
           /\ (~blips.missed => SinkFits)' /\ Fits(svc)'
<1> DEFINE t == Ended(svc)
<1>1. svc \in SvcRow /\ svc.out = <<>>
  BY DEF SupInv, Sound
<1>2. t \in SvcRow /\ t.phase = "ended" /\ t.state = "stopped" /\ t.out = <<>>
  BY <1>1 DEF Ended, SvcRow, Phases, SvcStates
<1> HIDE DEF t
<1>3. Sound(t) /\ Fits(t)
  BY <1>2 DEF Sound, Fits, Tells, Effective
<1> QED BY <1>2, <1>3, QuietIsKept DEF t

LEMMA OneLessFits ==
    ASSUME TasksFit, svc.phase \in {"running", "stuck"}, tasks' = OneLess,
           svc'.phase \in {"ended", "loop", "sleeping"}
    PROVE  TasksFit'
<1> DEFINE less == tasks.running - 1
           no == FALSE
<1>1. less \in Int /\ less = 0 /\ no \in BOOLEAN
  BY DEF TasksFit
<1>2. tasks' = [running |-> less, hung |-> no]
  BY DEF OneLess
<1> HIDE DEF less, no
<1>3. tasks' \in [running : Int, hung : BOOLEAN] /\ tasks'.running = 0
  BY <1>1, <1>2
<1> QED BY <1>3 DEF TasksFit

LEMMA HeardFits ==
    ASSUME SupInv, NEW s, Sound(s),
           blips' = [Heard(s) EXCEPT !.faults = blips.faults + 1] \/ blips' = Heard(s)
    PROVE  /\ blips' \in [faults : Int, missed : BOOLEAN, denied : BOOLEAN]
           /\ blips'.missed = Heard(s).missed /\ blips'.denied = Heard(s).denied
<1> DEFINE missed == blips.missed \/ Missed(sink, s.out)
           denied == IF s.out = <<>> THEN blips.denied
                     ELSE s.out[Len(s.out)].kind = "recovered" /\ s.state = "degraded"
           heard == [faults |-> blips.faults, missed |-> missed, denied |-> denied]
           faults == blips.faults + 1
<1>1. missed \in BOOLEAN /\ denied \in BOOLEAN /\ blips.faults \in Int /\ faults \in Int
  <2>1. blips.faults \in Int /\ blips.denied \in BOOLEAN
    BY DEF SupInv
  <2>2. missed \in BOOLEAN
    OBVIOUS
  <2>3. CASE s.out = <<>>
    BY <2>1, <2>2, <2>3
  <2>4. CASE s.out # <<>>
    <3>1. denied = (s.out[Len(s.out)].kind = "recovered" /\ s.state = "degraded")
      BY <2>4
    <3>2. denied \in BOOLEAN
      BY <3>1, Zenon
    <3> QED BY <2>1, <2>2, <3>2
  <2> QED BY <2>3, <2>4
<1>2. Heard(s) = heard
  BY DEF Heard
<1> HIDE DEF missed, denied
<1>3. heard \in [faults : Int, missed : BOOLEAN, denied : BOOLEAN]
  BY <1>1
<1>4. blips' = [heard EXCEPT !.faults = faults] \/ blips' = heard
  BY <1>2
<1> HIDE DEF heard, faults
<1> QED BY <1>1, <1>2, <1>3, <1>4

(* A step of the service that changes none of what the inbox shows.        *)
LEMMA ServiceAloneIsKept ==
    ASSUME SupInv, NEW s \in SvcRow, svc' = s, UNCHANGED <<tasks, mode, sink, incident, blips>>,
           s.phase = svc.phase, s.state = svc.state, s.before = svc.before, s.out = svc.out,
           s.settled = svc.settled, s.needsLog = svc.needsLog,
           s.hangs = svc.hangs \/ Len(s.hangs) <= Len(svc.hangs)
    PROVE  SupInv'
<1>1. svc \in SvcRow /\ svc.out = <<>> /\ TasksFit
  BY DEF SupInv, Sound
<1>2. Len(s.hangs) <= Len(svc.hangs)
  BY <1>1 DEF SvcRow
<1>3. /\ Sound(svc)' /\ svc'.out = <<>>
      /\ (~blips.missed => SinkFits)' /\ Fits(svc)'
  BY <1>1, <1>2, AsideIsKept
<1>4. TasksFit'
  BY <1>1 DEF TasksFit
<1> QED BY <1>3, <1>4 DEF SupInv

(* What the supervisor does in its loop.                                   *)
LEMMA SuperviseIsKept ==
    ASSUME SupInv, SuperviseStep
    PROVE  SupInv'
<1>1. Sound(svc) /\ Fits(svc) /\ svc.out = <<>> /\ svc \in SvcRow /\ TasksFit
  BY DEF SupInv, Sound
<1> DEFINE Kept == /\ Sound(svc)' /\ svc'.out = <<>>
                   /\ (~blips.missed => SinkFits)' /\ Fits(svc)'
<1>2. ASSUME tasks' = [running |-> tasks.running + 1, hung |-> FALSE],
             svc.phase \in {"loop", "paused"}, svc'.phase = "running"
      PROVE  TasksFit'
  <2> DEFINE more == tasks.running + 1
             no == FALSE
  <2>1. more \in Int /\ more = 1 /\ no \in BOOLEAN
    BY <1>1, <1>2 DEF TasksFit
  <2>2. tasks' = [running |-> more, hung |-> no]
    BY <1>2
  <2> HIDE DEF more, no
  <2>3. tasks' \in [running : Int, hung : BOOLEAN] /\ tasks'.running = 1
    BY <2>1, <2>2
  <2> QED BY <1>2, <2>3 DEF TasksFit
<1>3. CASE StartService
  <2>1. svc.state # "paused"
    BY <1>1, <1>3 DEF StartService, Sound
  <2>2. Kept /\ svc'.phase = "running"
    <3>1. svc.state = Effective(svc)
      BY <2>1 DEF Effective
    <3> QED BY <1>1, <1>3, <3>1, StartingIsKept DEF StartService
  <2> QED BY <1>2, <1>3, <2>2 DEF StartService, SupInv
<1>4. CASE ResumeService
  <2> DEFINE s == [svc EXCEPT !.state = svc.before]
  <2>1. svc.phase = "paused" /\ svc.state = "paused"
    BY <1>1, <1>4 DEF ResumeService, Sound
  <2>2. /\ s \in SvcRow /\ s.phase = svc.phase /\ s.state = Effective(svc) /\ s.settled = svc.settled
        /\ s.needsLog = svc.needsLog /\ s.hangs = svc.hangs /\ s.out = svc.out
    BY <1>1, <2>1 DEF SvcRow, Effective
  <2>3. svc' = Started(s) /\ UNCHANGED <<mode, sink, incident, blips>>
    BY <1>4 DEF ResumeService
  <2> HIDE DEF s
  <2>4. Kept /\ svc'.phase = "running"
    BY <1>1, <2>1, <2>2, <2>3, StartingIsKept
  <2> QED BY <1>2, <1>4, <2>1, <2>3, <2>4 DEF ResumeService, SupInv
<1>5. CASE PauseService
  BY <1>5, PauseIsKept
<1>6. CASE EndService
  <2>1. svc' = Ended(svc) /\ svc.phase \in {"loop", "paused"} /\ UNCHANGED <<tasks, mode, sink, incident, blips>>
    BY <1>6 DEF EndService
  <2>2. Kept /\ svc'.phase = "ended"
    BY <2>1, EndingIsKept
  <2>3. TasksFit'
    BY <1>1, <2>1, <2>2 DEF TasksFit
  <2> QED BY <2>1, <2>2, <2>3 DEF SupInv
<1>7. CASE WakeService
  <2> DEFINE s == [svc EXCEPT !.phase = "loop"]
  <2>1. svc.phase = "sleeping" /\ svc' = s /\ UNCHANGED <<tasks, mode, sink, incident, blips>>
    BY <1>7 DEF WakeService
  <2>2. /\ s \in SvcRow /\ s.phase = "loop" /\ s.state = svc.state /\ s.before = svc.before
        /\ s.out = svc.out /\ s.settled = svc.settled /\ s.needsLog = svc.needsLog /\ s.hangs = svc.hangs
    BY <1>1 DEF SvcRow, Phases
  <2> HIDE DEF s
  <2>3. Len(s.hangs) <= Len(svc.hangs)
    BY <1>1, <2>2 DEF SvcRow
  <2>4. Kept
    BY <1>1, <2>1, <2>2, <2>3, AsideIsKept
  <2>5. TasksFit'
    BY <1>1, <2>1, <2>2 DEF TasksFit
  <2> QED BY <2>1, <2>4, <2>5 DEF SupInv
<1> QED BY <1>3, <1>4, <1>5, <1>6, <1>7 DEF SuperviseStep

(* A run ends, or is held by an instance that does not.                    *)
LEMMA RunsAreKept ==
    ASSUME SupInv, RunCrashes \/ RunReturns \/ HangReaped \/ HangIgnoresCancel \/ StuckEnds
    PROVE  SupInv'
<1>1. /\ Sound(svc) /\ Fits(svc) /\ svc.out = <<>> /\ svc \in SvcRow /\ TasksFit
      /\ incident \in Shown /\ (~blips.missed => SinkFits)
  BY DEF SupInv, Sound
<1>2. ASSUME tasks' = OneLess, svc.phase \in {"running", "stuck"},
             svc'.phase \in {"ended", "loop", "sleeping"}
      PROVE  TasksFit'
  BY <1>1, <1>2, OneLessFits
<1>3. ASSUME NEW hung \in BOOLEAN, svc.phase \in {"running", "stuck"},
             Leaves(AfterRun(svc, hung)), tasks' = OneLess, UNCHANGED <<mode, incident>>,
             blips' = [Heard(AfterRun(svc, hung)) EXCEPT !.faults = blips.faults + 1]
             \/ Loses(AfterRun(svc, hung))
      PROVE  SupInv'
  <2> DEFINE s == AfterRun(svc, hung)
  <2>1. Sound(s) /\ Fits(s) /\ s.phase \in {"ended", "loop", "sleeping"}
    BY <1>1, <1>3, EndOfRunIsKept
  <2>2. Leaves(s) /\ (blips' = [Heard(s) EXCEPT !.faults = blips.faults + 1] \/ blips' = Heard(s))
    BY <1>3 DEF Loses
  <2> HIDE DEF s
  <2>3. /\ blips' \in [faults : Int, missed : BOOLEAN, denied : BOOLEAN]
        /\ blips'.missed = Heard(s).missed /\ blips'.denied = Heard(s).denied
    BY <2>1, <2>2, HeardFits
  <2>4. /\ Sound(svc)' /\ svc'.out = <<>> /\ svc'.phase = s.phase
        /\ (~blips.missed => SinkFits)' /\ Fits(svc)'
    BY <1>3, <2>1, <2>2, <2>3, LeavingIsKept
  <2>5. TasksFit'
    BY <1>2, <1>3, <2>1, <2>4
  <2>6. UNCHANGED <<mode, incident>>
    BY <1>3
  <2> QED BY <2>3, <2>4, <2>5, <2>6 DEF SupInv
<1>4. CASE RunCrashes
  BY <1>3, <1>4 DEF RunCrashes
<1>5. CASE RunReturns
  <2>1. svc' = Ended(svc) /\ svc.phase = "running" /\ tasks' = OneLess /\ UNCHANGED <<mode, sink, incident, blips>>
    BY <1>5 DEF RunReturns
  <2>2. /\ Sound(svc)' /\ svc'.out = <<>> /\ svc'.phase = "ended"
        /\ (~blips.missed => SinkFits)' /\ Fits(svc)'
    BY <2>1, EndingIsKept
  <2>3. TasksFit'
    BY <1>2, <2>1, <2>2
  <2> QED BY <2>1, <2>2, <2>3 DEF SupInv
<1>6. CASE HangReaped
  BY <1>3, <1>6 DEF HangReaped
<1>7. CASE HangIgnoresCancel
  <2> DEFINE low == Degraded(svc)
             s == [low EXCEPT !.phase = "stuck"]
  <2>1. svc.phase = "running" /\ svc.state \in {"running", "degraded"}
    BY <1>1, <1>7 DEF HangIgnoresCancel, Sound
  <2>2. Sound(low) /\ Fits(low) /\ low.state = "degraded"
    BY <1>1, <2>1, DegradedIsTold
  <2>3. Leaves(s) /\ Loses(s) /\ UNCHANGED <<tasks, mode, incident>>
    BY <1>7 DEF HangIgnoresCancel
  <2> HIDE DEF low
  <2>4. /\ s \in SvcRow /\ s.phase = "stuck" /\ s.state = low.state /\ s.before = low.before
        /\ s.out = low.out /\ s.settled = low.settled /\ s.needsLog = low.needsLog
    BY <2>2 DEF SvcRow, Phases, Sound
  <2> HIDE DEF s
  <2>5. Sound(s)
    BY <2>2, <2>4 DEF Sound, Effective
  <2>6. Fits(s)
    BY <2>2, <2>4, SameFits
  <2>7. /\ blips' \in [faults : Int, missed : BOOLEAN, denied : BOOLEAN]
        /\ blips'.missed = Heard(s).missed /\ blips'.denied = Heard(s).denied
    BY <2>3, <2>5, HeardFits DEF Loses
  <2>8. /\ Sound(svc)' /\ svc'.out = <<>> /\ svc'.phase = s.phase
        /\ (~blips.missed => SinkFits)' /\ Fits(svc)'
    BY <2>3, <2>5, <2>6, <2>7, LeavingIsKept
  <2>9. TasksFit'
    BY <1>1, <2>1, <2>3, <2>4, <2>8 DEF TasksFit
  <2> QED BY <2>3, <2>7, <2>8, <2>9 DEF SupInv
<1>8. CASE StuckEnds
  BY <1>3, <1>8 DEF StuckEnds
<1> QED BY <1>4, <1>5, <1>6, <1>7, <1>8

(* What the service says of itself, and what the watch concludes.          *)
LEMMA WhatItSaysIsKept ==
    ASSUME SupInv, ReportFailure \/ ReportSuccess \/ Watch
    PROVE  SupInv'
<1>1. /\ Sound(svc) /\ Fits(svc) /\ svc.out = <<>> /\ svc \in SvcRow /\ TasksFit
      /\ incident \in Shown /\ (~blips.missed => SinkFits)
  BY DEF SupInv, Sound
<1>2. ASSUME NEW s, Running(s), svc.phase = "running", Leaves(s), UNCHANGED <<tasks, mode, incident>>,
             blips' = [Heard(s) EXCEPT !.faults = blips.faults + 1] \/ blips' = Heard(s)
      PROVE  SupInv'
  <2>1. Sound(s) /\ Fits(s) /\ s.phase = "running"
    BY <1>2 DEF Running
  <2>2. /\ blips' \in [faults : Int, missed : BOOLEAN, denied : BOOLEAN]
        /\ blips'.missed = Heard(s).missed /\ blips'.denied = Heard(s).denied
    BY <1>2, <2>1, HeardFits
  <2>3. /\ Sound(svc)' /\ svc'.out = <<>> /\ svc'.phase = s.phase
        /\ (~blips.missed => SinkFits)' /\ Fits(svc)'
    BY <1>2, <2>1, <2>2, LeavingIsKept
  <2>4. TasksFit'
    BY <1>1, <1>2, <2>1, <2>3 DEF TasksFit
  <2> QED BY <1>2, <2>2, <2>3, <2>4 DEF SupInv
<1>3. CASE ReportFailure
  <2> DEFINE streak == IF svc.streak < FailLimit THEN svc.streak + 1 ELSE FailLimit
             since == IF svc.streak = 0 THEN 0 ELSE svc.failAge
             t == [svc EXCEPT !.streak = streak, !.failAge = since, !.okAge = Never]
             low == Degraded([t EXCEPT !.failDegraded = TRUE])
             s == IF streak = FailLimit /\ since >= FailSpan /\ ~svc.failDegraded THEN low ELSE t
  <2>1. streak \in Int /\ since \in Int
    BY <1>1, SupervisionAssumption, SMTT(60) DEF SvcRow
  <2>2. /\ svc.phase = "running" /\ Leaves(s) /\ UNCHANGED <<tasks, mode, incident>>
        /\ blips' = [Heard(s) EXCEPT !.faults = blips.faults + 1]
    BY <1>3 DEF ReportFailure
  <2> HIDE DEF streak, since
  <2>3. Running(svc)
    BY <1>1, <2>2 DEF Running
  <2>4. Running(t) /\ Running(low)
    BY <1>1, <2>1, <2>3, FailureIsKept, Zenon
  <2>5. s = t \/ s = low
    OBVIOUS
  <2> HIDE DEF t, low, s
  <2> QED BY <1>2, <2>2, <2>4, <2>5
<1>4. CASE ReportSuccess
  <2> DEFINE since == IF svc.failDegraded /\ svc.okAge = Never THEN 0 ELSE svc.okAge
             zero == 0
             s == [svc EXCEPT !.streak = zero, !.failAge = Never, !.okAge = since]
  <2>1. since \in Int /\ zero \in Int
    BY <1>1 DEF SvcRow
  <2>2. svc' = s /\ UNCHANGED <<tasks, mode, sink, incident, blips>>
    BY <1>4 DEF ReportSuccess
  <2> HIDE DEF since, zero
  <2>3. /\ s \in SvcRow /\ s.phase = svc.phase /\ s.state = svc.state /\ s.before = svc.before
        /\ s.out = svc.out /\ s.settled = svc.settled /\ s.needsLog = svc.needsLog /\ s.hangs = svc.hangs
    BY <1>1, <2>1, NeverIsNumber DEF SvcRow
  <2> HIDE DEF s
  <2> QED BY <1>1, <2>2, <2>3, ServiceAloneIsKept
<1>5. CASE Watch
  <2> DEFINE t == WatchChecks(svc)
             watched == Watching(t)
             s == [t EXCEPT !.watched = watched]
  <2>1. svc.phase = "running" /\ Leaves(s) /\ Loses(t) /\ UNCHANGED <<tasks, mode, incident>>
    BY <1>5 DEF Watch, WatchDue
  <2>2. Running(t)
    BY <1>1, <2>1, ChecksAreKept DEF Running
  <2> HIDE DEF t
  <2>3. t \in SvcRow
    BY <2>2 DEF Running, Sound
  <2>4. watched \in BOOLEAN
    BY <2>3 DEF Watching, SvcRow
  <2> HIDE DEF watched
  <2>5. /\ s \in SvcRow /\ s.phase = t.phase /\ s.state = t.state /\ s.before = t.before
        /\ s.out = t.out /\ s.settled = t.settled /\ s.needsLog = t.needsLog /\ s.hangs = t.hangs
    BY <2>3, <2>4 DEF SvcRow
  <2> HIDE DEF s
  <2>6. Len(s.hangs) <= Len(t.hangs)
    BY <2>3, <2>5 DEF SvcRow
  <2>7. Running(s)
    BY <2>2, <2>5, <2>6, RunningOn
  <2>8. Heard(s) = Heard(t)
    BY <2>5 DEF Heard
  <2>9. blips' = Heard(s)
    BY <2>1, <2>8 DEF Loses
  <2> QED BY <1>2, <2>1, <2>7, <2>9
<1> QED BY <1>3, <1>4, <1>5

(* A look at the health endpoint, and time.                                *)
LEMMA TimeIsKept ==
    ASSUME SupInv, Healthz \/ SupTick
    PROVE  SupInv'
<1>1. svc \in SvcRow /\ svc.out = <<>>
  BY DEF SupInv, Sound
<1>2. CASE Healthz
  <2> DEFINE s == RecentHangs(svc)
  <2>1. /\ s \in SvcRow /\ Len(s.hangs) <= Len(svc.hangs)
        /\ s = [svc EXCEPT !.hangs = s.hangs]
    BY <1>1, HangsForgotten
  <2>2. svc' = s /\ UNCHANGED <<tasks, mode, sink, incident, blips>>
    BY <1>2 DEF Healthz
  <2> HIDE DEF s
  <2>3. /\ s.phase = svc.phase /\ s.state = svc.state /\ s.before = svc.before
        /\ s.out = svc.out /\ s.settled = svc.settled /\ s.needsLog = svc.needsLog
    BY <1>1, <2>1 DEF SvcRow
  <2> QED BY <1>1, <2>1, <2>2, <2>3, ServiceAloneIsKept
<1>3. CASE SupTick
  <2> DEFINE age == Older(svc.age, HangRecovery)
             failAge == Older(svc.failAge, FailSpan)
             okAge == Older(svc.okAge, StableAfter)
             crashes == [i \in DOMAIN svc.crashes |-> Older(svc.crashes[i], CrashWindow + 1)]
             hangs == [i \in DOMAIN svc.hangs |-> Older(svc.hangs[i], HangWindow + 1)]
             s == [svc EXCEPT !.age = age, !.failAge = failAge, !.okAge = okAge,
                              !.crashes = crashes, !.hangs = hangs]
  <2>1. \A i, cap \in Int : Older(i, cap) \in Int
    BY DEF Older
  <2>2. age \in Int /\ failAge \in Int /\ okAge \in Int
    <3>1. HangRecovery \in Int /\ FailSpan \in Int /\ StableAfter \in Int
      BY SupervisionAssumption
    <3>2. svc.age \in Int /\ svc.failAge \in Int /\ svc.okAge \in Int
      BY <1>1 DEF SvcRow
    <3> QED BY <2>1, <3>1, <3>2
  <2>3. ASSUME NEW ages \in Seq(Int), NEW window \in Nat
        PROVE  LET older == [i \in DOMAIN ages |-> Older(ages[i], window + 1)] IN
               older \in Seq(Int) /\ Len(older) = Len(ages)
    <3> DEFINE older == [i \in DOMAIN ages |-> Older(ages[i], window + 1)]
    <3>1. DOMAIN ages = 1 .. Len(ages) /\ Len(ages) \in Nat /\ \A i \in DOMAIN ages : ages[i] \in Int
      OBVIOUS
    <3>2. window + 1 \in Int
      OBVIOUS
    <3>3. older \in [1 .. Len(ages) -> Int]
      BY <2>1, <3>1, <3>2
    <3> HIDE DEF older
    <3>4. older \in Seq(Int)
      BY <3>1, <3>3
    <3>5. Len(older) = Len(ages)
      BY <3>1, <3>3, <3>4
    <3> QED BY <3>4, <3>5 DEF older
  <2>4. crashes \in Seq(Int) /\ hangs \in Seq(Int) /\ Len(hangs) = Len(svc.hangs)
    <3>1. svc.crashes \in Seq(Int) /\ svc.hangs \in Seq(Int)
      BY <1>1 DEF SvcRow
    <3> QED BY <2>3, <3>1, SupervisionNumbers
  <2>5. svc' = s /\ UNCHANGED <<tasks, mode, sink, incident, blips>>
    BY <1>3 DEF SupTick
  <2> HIDE DEF age, failAge, okAge, crashes, hangs
  <2>6. /\ s \in SvcRow /\ s.phase = svc.phase /\ s.state = svc.state /\ s.before = svc.before
        /\ s.out = svc.out /\ s.settled = svc.settled /\ s.needsLog = svc.needsLog /\ s.hangs = hangs
    BY <1>1, <2>2, <2>4 DEF SvcRow
  <2> HIDE DEF s
  <2>7. Len(s.hangs) <= Len(svc.hangs)
    BY <1>1, <2>4, <2>6 DEF SvcRow
  <2> QED BY <1>1, <2>5, <2>6, <2>7, ServiceAloneIsKept
<1> QED BY <1>2, <1>3

(* The sink writes its alerts into the inbox, or fails to.                 *)
LEMMA SinkIsKept ==
    ASSUME SupInv, TakeAlert \/ StoreAlert \/ FailAlert
    PROVE  SupInv'
<1>1. /\ Sound(svc) /\ Fits(svc) /\ svc.out = <<>> /\ svc \in SvcRow
      /\ incident \in Shown /\ (~blips.missed => SinkFits)
      /\ blips \in [faults : Int, missed : BOOLEAN, denied : BOOLEAN]
  BY DEF SupInv, Sound
<1> DEFINE SinkRow == [queue : Seq(SvcAlerts), writing : SvcAlerts \union {NoServiceAlert},
                       gone : BOOLEAN, tries : Int]
<1>2. ASSUME UNCHANGED <<svc, tasks, mode>>, incident' \in Shown, (~blips.missed => SinkFits)',
             blips' \in [faults : Int, missed : BOOLEAN, denied : BOOLEAN],
             blips'.denied = blips.denied, ~blips'.missed => ~blips.missed,
             ~blips'.missed => Outcomes(incident', sink'.queue) \subseteq Outcomes(incident, sink.queue)
      PROVE  SupInv'
  <2>1. ASSUME ~blips'.missed
        PROVE  Tells(svc, blips.denied, Outcomes(incident', sink'.queue \o <<>>))
    <3>1. ~blips.missed /\ sink.queue \in Seq(SvcAlerts) /\ sink'.queue \in Seq(SvcAlerts)
      BY <1>1, <1>2, <2>1 DEF SinkFits
    <3>2. sink.queue \o <<>> = sink.queue /\ sink'.queue \o <<>> = sink'.queue
      BY <3>1, ConcatEmptySeq
    <3>3. Tells(svc, Heard(svc).denied, Outcomes(incident, sink.queue))
      BY <1>1, <3>1, <3>2 DEF Fits
    <3>4. Heard(svc).denied = blips.denied
      BY <1>1 DEF Heard
    <3> QED BY <1>2, <2>1, <3>2, <3>3, <3>4 DEF Tells
  <2>2. Heard(svc)'.denied = blips.denied
    BY <1>1, <1>2 DEF Heard
  <2>3. Fits(svc)'
    BY <1>1, <1>2, <2>1, <2>2 DEF Fits
  <2>4. Sound(svc)' /\ TasksFit' /\ svc'.out = <<>> /\ mode' \in [window : BOOLEAN, stopping : BOOLEAN]
    BY <1>1, <1>2 DEF Sound, TasksFit, SupInv
  <2> QED BY <1>2, <2>3, <2>4 DEF SupInv
<1>3. CASE TakeAlert
  <2> DEFINE head == Head(sink.queue)
             no == FALSE
             k == [sink EXCEPT !.writing = head, !.gone = no]
  <2>1. sink' = k /\ sink.queue # <<>> /\ UNCHANGED <<svc, tasks, mode, incident, blips>>
    BY <1>3 DEF TakeAlert
  <2>2. no \in BOOLEAN /\ ~no
    OBVIOUS
  <2>3. ASSUME ~blips.missed
        PROVE  SinkFits' /\ sink'.queue = sink.queue
    <3>1. SinkFits /\ head \in SvcAlerts
      BY <1>1, <2>1, <2>3 DEF SinkFits
    <3> HIDE DEF no
    <3>2. k \in SinkRow /\ k.queue = sink.queue /\ k.writing = head /\ ~k.gone
      BY <2>2, <3>1 DEF SinkFits
    <3> HIDE DEF k
    <3> QED BY <2>1, <3>1, <3>2 DEF SinkFits
  <2> QED BY <1>1, <1>2, <2>1, <2>3
<1>4. ASSUME SinkFits, sink.writing # NoServiceAlert, sink' = Discarded(sink)
      PROVE  SinkFits' /\ sink'.queue = Tail(sink.queue)
  <2> DEFINE tail == Tail(sink.queue)
             no == FALSE
             zero == 0
             k == [queue |-> tail, writing |-> NoServiceAlert, gone |-> no, tries |-> zero]
  <2>1. sink.queue # <<>> /\ sink.queue \in Seq(SvcAlerts) /\ Len(sink.queue) <= MaxPending
    BY <1>4 DEF SinkFits
  <2>2. tail \in Seq(SvcAlerts) /\ Len(tail) <= MaxPending
    BY <2>1, SupervisionNumbers
  <2>3. no \in BOOLEAN /\ ~no /\ zero \in Int
    OBVIOUS
  <2>4. sink' = k
    BY <1>4 DEF Discarded, SinkFits
  <2> HIDE DEF tail, no, zero
  <2>5. k \in SinkRow /\ k.queue = tail /\ k.writing = NoServiceAlert /\ ~k.gone
    BY <2>2, <2>3
  <2> HIDE DEF k
  <2> QED BY <2>2, <2>4, <2>5 DEF SinkFits, tail
<1>5. CASE StoreAlert
  <2>1. /\ sink.writing # NoServiceAlert /\ sink' = Discarded(sink)
        /\ incident' \in ShownAs(incident, sink.writing) /\ UNCHANGED <<svc, tasks, mode, blips>>
    BY <1>5 DEF StoreAlert
  <2>2. incident' \in Shown
    BY <1>1, <2>1 DEF ShownAs, Shown
  <2>3. ASSUME ~blips.missed
        PROVE  SinkFits' /\ Outcomes(incident', sink'.queue) \subseteq Outcomes(incident, sink.queue)
    <3>1. SinkFits
      BY <1>1, <2>3
    <3>2. SinkFits' /\ sink'.queue = Tail(sink.queue)
      BY <1>4, <2>1, <3>1
    <3>3. sink.queue \in Seq(SvcAlerts) /\ sink.queue # <<>> /\ Head(sink.queue) = sink.writing
      BY <2>1, <3>1 DEF SinkFits
    <3>4. Outcomes(incident', Tail(sink.queue)) \subseteq Outcomes(incident, sink.queue)
      BY <1>1, <2>1, <2>2, <3>3, OutcomesOfRest
    <3> QED BY <3>2, <3>4
  <2> QED BY <1>1, <1>2, <2>1, <2>2, <2>3
<1>6. CASE FailAlert
  <2> DEFINE lost == sink.gone \/ sink.tries + 1 = MaxWrites
             faults == blips.faults + 1
             missed == blips.missed \/ lost
  <2>1. /\ sink' = IF sink.tries + 1 = MaxWrites THEN Discarded(sink)
                   ELSE [sink EXCEPT !.writing = NoServiceAlert, !.gone = FALSE, !.tries = sink.tries + 1]
        /\ blips' = [blips EXCEPT !.faults = faults, !.missed = missed]
        /\ UNCHANGED <<svc, tasks, mode, incident>>
    BY <1>6 DEF FailAlert
  <2>2. faults \in Int /\ missed \in BOOLEAN
    BY <1>1
  <2>3. missed <=> blips.missed \/ sink.tries + 1 = MaxWrites \/ sink.gone
    OBVIOUS
  <2> HIDE DEF faults, missed
  <2>4. /\ blips' \in [faults : Int, missed : BOOLEAN, denied : BOOLEAN]
        /\ blips'.denied = blips.denied /\ blips'.missed = missed
    BY <1>1, <2>1, <2>2
  <2>5. ASSUME ~blips'.missed
        PROVE  SinkFits' /\ sink'.queue = sink.queue
    <3>1. SinkFits /\ sink.tries + 1 # MaxWrites
      BY <1>1, <2>3, <2>4, <2>5
    <3> DEFINE no == FALSE
               tries == sink.tries + 1
               k == [sink EXCEPT !.writing = NoServiceAlert, !.gone = no, !.tries = tries]
    <3>2. no \in BOOLEAN /\ ~no /\ tries \in Int
      BY <3>1 DEF SinkFits
    <3>3. sink' = k
      BY <2>1, <3>1
    <3> HIDE DEF no, tries
    <3>4. k \in SinkRow /\ k.queue = sink.queue /\ k.writing = NoServiceAlert /\ ~k.gone
      BY <3>1, <3>2 DEF SinkFits
    <3> HIDE DEF k
    <3> QED BY <3>1, <3>3, <3>4 DEF SinkFits
  <2> QED BY <1>1, <1>2, <2>1, <2>3, <2>4, <2>5
<1> QED BY <1>3, <1>5, <1>6

(* Maintenance, shutdown, a killed process.                                *)
LEMMA ModesAreKept ==
    ASSUME SupInv, ServiceHangs \/ OpenWindow \/ CloseWindow \/ BeginShutdown
    PROVE  SupInv'
<1>1. /\ Sound(svc) /\ Fits(svc) /\ svc.out = <<>> /\ svc \in SvcRow /\ TasksFit
      /\ blips \in [faults : Int, missed : BOOLEAN, denied : BOOLEAN]
      /\ mode \in [window : BOOLEAN, stopping : BOOLEAN]
  BY DEF SupInv, Sound
<1> DEFINE faults == blips.faults + 1
           more == [blips EXCEPT !.faults = faults]
<1>2. /\ more \in [faults : Int, missed : BOOLEAN, denied : BOOLEAN]
      /\ more.missed = blips.missed /\ more.denied = blips.denied
  <2>1. faults \in Int
    BY <1>1
  <2> HIDE DEF faults
  <2> QED BY <1>1, <2>1
<1>3. blips' = more \/ blips' = blips
  BY DEF ServiceHangs, OpenWindow, CloseWindow, BeginShutdown, Spent
<1> HIDE DEF more
<1>4. UNCHANGED <<svc, sink, incident>>
  BY DEF ServiceHangs, OpenWindow, CloseWindow, BeginShutdown
<1>5. /\ blips' \in [faults : Int, missed : BOOLEAN, denied : BOOLEAN]
      /\ blips'.missed = blips.missed /\ blips'.denied = blips.denied
  BY <1>1, <1>2, <1>3
<1>6. Heard(svc)'.denied = Heard(svc).denied
  BY <1>1, <1>4, <1>5 DEF Heard
<1>7. Fits(svc)'
  BY <1>1, <1>4, <1>5, <1>6 DEF Fits
<1>8. Sound(svc)' /\ svc'.out = <<>> /\ incident' \in Shown /\ (~blips.missed => SinkFits)'
  BY <1>1, <1>4, <1>5 DEF SupInv, Sound, SinkFits
<1>9. TasksFit'
  <2>1. CASE ServiceHangs
    <3> DEFINE yes == TRUE
    <3>1. yes \in BOOLEAN /\ tasks' = [tasks EXCEPT !.hung = yes]
      BY <2>1 DEF ServiceHangs
    <3> HIDE DEF yes
    <3>2. tasks' \in [running : Int, hung : BOOLEAN] /\ tasks'.running = tasks.running
      BY <1>1, <3>1 DEF TasksFit
    <3> QED BY <1>1, <1>4, <3>2 DEF TasksFit
  <2>2. CASE OpenWindow \/ CloseWindow \/ BeginShutdown
    <3>1. UNCHANGED tasks
      BY <2>2 DEF OpenWindow, CloseWindow, BeginShutdown
    <3> QED BY <1>1, <1>4, <3>1 DEF TasksFit
  <2> QED BY <2>1, <2>2
<1>10. mode' \in [window : BOOLEAN, stopping : BOOLEAN]
  <2> DEFINE yes == TRUE
             no == FALSE
  <2>1. /\ yes \in BOOLEAN /\ no \in BOOLEAN
        /\ \/ mode' = mode \/ mode' = [mode EXCEPT !.window = yes]
           \/ mode' = [mode EXCEPT !.window = no] \/ mode' = [mode EXCEPT !.stopping = yes]
    BY DEF ServiceHangs, OpenWindow, CloseWindow, BeginShutdown
  <2> HIDE DEF yes, no
  <2> QED BY <1>1, <2>1
<1> QED BY <1>5, <1>7, <1>8, <1>9, <1>10 DEF SupInv

LEMMA StopIsKept ==
    ASSUME SupInv, StopService
    PROVE  SupInv'
<1>1. TasksFit
  BY DEF SupInv
<1>2. /\ svc' = Ended(svc) /\ svc.phase \in {"running", "stuck", "sleeping"}
      /\ UNCHANGED <<mode, sink, incident, blips>>
      /\ UNCHANGED tasks \/ (svc.phase \in {"running", "stuck"} /\ tasks' = OneLess)
  BY DEF StopService
<1>3. /\ Sound(svc)' /\ svc'.out = <<>> /\ svc'.phase = "ended"
      /\ (~blips.missed => SinkFits)' /\ Fits(svc)'
  BY <1>2, EndingIsKept
<1>4. TasksFit'
  <2>1. CASE UNCHANGED tasks
    BY <1>1, <1>2, <1>3, <2>1 DEF TasksFit
  <2>2. CASE svc.phase \in {"running", "stuck"} /\ tasks' = OneLess
    BY <1>1, <1>3, <2>2, OneLessFits
  <2> QED BY <1>2, <2>1, <2>2
<1> QED BY <1>2, <1>3, <1>4 DEF SupInv

LEMMA NewProcessIsKept ==
    ASSUME SupInv, NewProcess
    PROVE  SupInv'
<1>1. /\ svc.beats \in BOOLEAN /\ incident \in Shown /\ blips.faults \in Int
  BY DEF SupInv, Sound, SvcRow
<1>2. svc' \in {NewService(beats) : beats \in BOOLEAN}
  BY <1>1 DEF NewProcess
<1>3. blips' \in [faults : Int, missed : {FALSE}, denied : {FALSE}]
  <2> DEFINE faults == blips.faults + 1
             no == FALSE
  <2>1. faults \in Int /\ no \in {FALSE} /\ blips' = [faults |-> faults, missed |-> no, denied |-> no]
    BY <1>1 DEF NewProcess
  <2> HIDE DEF faults, no
  <2> QED BY <2>1
<1>4. Fresh'
  BY <1>1, <1>2, <1>3 DEF NewProcess, Fresh, NewService, IdleSink, NoServiceAlert, Never, Shown
<1> QED BY <1>4, FreshProcessIsKept

LEMMA SupStepIsKept ==
    ASSUME SupInv, [SupNext]_supVars
    PROVE  SupInv'
<1>1. CASE UNCHANGED supVars
  <2>1. UNCHANGED <<svc, tasks, mode, sink, incident, blips>>
    BY <1>1 DEF supVars
  <2>2. Sound(svc)' <=> Sound(svc)
    BY <2>1 DEF Sound, Effective
  <2>3. Fits(svc)' <=> Fits(svc)
    <3>1. Heard(svc)' = Heard(svc)
      BY <2>1 DEF Heard, Missed
    <3> QED BY <2>1, <3>1 DEF Fits
  <2>4. (TasksFit' <=> TasksFit) /\ (SinkFits' <=> SinkFits)
    BY <2>1 DEF TasksFit, SinkFits
  <2> QED BY <2>1, <2>2, <2>3, <2>4 DEF SupInv
<1>2. CASE SuperviseStep
  BY <1>2, SuperviseIsKept
<1>3. CASE RunCrashes \/ RunReturns \/ HangReaped \/ HangIgnoresCancel \/ StuckEnds
  BY <1>3, RunsAreKept
<1>4. CASE ReportFailure \/ ReportSuccess \/ Watch
  BY <1>4, WhatItSaysIsKept
<1>5. CASE Healthz \/ SupTick
  BY <1>5, TimeIsKept
<1>6. CASE SinkStep \/ FailAlert
  BY <1>6, SinkIsKept DEF SinkStep
<1>7. CASE ServiceHangs \/ OpenWindow \/ CloseWindow \/ BeginShutdown
  BY <1>7, ModesAreKept
<1>8. CASE StopService
  BY <1>8, StopIsKept
<1>9. CASE NewProcess
  BY <1>9, NewProcessIsKept
<1> QED BY <1>1, <1>2, <1>3, <1>4, <1>5, <1>6, <1>7, <1>8, <1>9 DEF SupNext

(* The invariant says what is promised: once the queue is empty, the inbox *)
(* shows the one thing it may show.                                        *)
LEMMA SupervisionPromises ==
    ASSUME SupInv
    PROVE  OneInstance /\ InboxTellsTheTruth
<1>1. OneInstance
  BY DEF SupInv, Sound, SvcRow, Phases, TasksFit, OneInstance
<1>2. ASSUME sink.queue = <<>>, ~blips.missed
      PROVE  /\ svc.state = "running" /\ svc.settled /\ ~svc.needsLog => incident = "none"
             /\ svc.state = "backoff" => incident # "none"
             /\ svc.state = "degraded" /\ ~blips.denied => incident = "error"
  <2>1. svc.out = <<>> /\ Fits(svc) /\ incident \in Shown
    BY DEF SupInv
  <2>2. <<>> \o <<>> = <<>>
    OBVIOUS
  <2>3. Outcomes(incident, sink.queue \o svc.out) = {incident}
    BY <1>2, <2>1, <2>2, OutcomesOfNone
  <2>4. Tells(svc, Heard(svc).denied, {incident})
    BY <1>2, <2>1, <2>3 DEF Fits
  <2>5. Heard(svc).denied = blips.denied
    BY <2>1 DEF Heard
  <2> QED BY <2>4, <2>5 DEF Tells, Effective
<1> QED BY <1>1, <1>2 DEF InboxTellsTheTruth

-----------------------------------------------------------------------------

(* A service never runs twice: the restart waits for a hung instance that  *)
(* ignores its cancellation (supervisor.py: _wait_until_ended).            *)
THEOREM OneInstanceRuns == SupSpec => []OneInstance
<1>1. SupInit => SupInv
  BY SupInvAtFirst
<1>2. SupInv /\ [SupNext]_supVars => SupInv'
  BY SupStepIsKept
<1>3. SupInv => OneInstance
  BY SupervisionPromises
<1> QED BY <1>1, <1>2, <1>3, PTL DEF SupSpec

(* When every alert has been written, the inbox shows what the service is, *)
(* whatever crashed, hung, paused or failed in between and in whatever     *)
(* order (supervisor.py: _notify; service_alerts.py: _drain, _apply).      *)
THEOREM InboxIsTrue == SupSpec => []InboxTellsTheTruth
<1>1. SupInit => SupInv
  BY SupInvAtFirst
<1>2. SupInv /\ [SupNext]_supVars => SupInv'
  BY SupStepIsKept
<1>3. SupInv => InboxTellsTheTruth
  BY SupervisionPromises
<1> QED BY <1>1, <1>2, <1>3, PTL DEF SupSpec

-----------------------------------------------------------------------------
(* The composition                                                         *)

(* In the composition of the services, too, a report ends with one notice  *)
(* and is offered only with its file (pdf_worker.py, report_jobs.py).      *)
THEOREM ReportsAreKept == ServicesSpec => []ReportsKept
<1>1. ServicesInit => JobInv
  BY ReportsBegin DEF ServicesInit
<1>2. ASSUME JobInv, [SupervisionMoves \/ BusMoves \/ ReportsMove \/ RestoresMove]_servicesVars
      PROVE  JobInv'
  <2>1. [JobNext]_jobVars
    BY <1>2 DEF SupervisionMoves, BusMoves, ReportsMove, RestoresMove, servicesVars
  <2> QED BY <1>2, <2>1, ReportsStep
<1>3. JobInv => ReportsKept
  BY ReportsArePromised DEF ReportsKept
<1> QED BY <1>1, <1>2, <1>3, PTL DEF ServicesSpec

(* In the composition of the services, too, a page misses nothing and a    *)
(* revoked session hears nothing (event_bus.py, events.py).                *)
THEOREM StreamsAreKept == ServicesSpec => []StreamsKept
<1>1. ServicesInit => BusInv
  BY BusBegins DEF ServicesInit
<1>2. ASSUME BusInv, [SupervisionMoves \/ BusMoves \/ ReportsMove \/ RestoresMove]_servicesVars
      PROVE  BusInv'
  <2>1. [BusNext]_busVars
    BY <1>2 DEF SupervisionMoves, BusMoves, ReportsMove, RestoresMove, servicesVars
  <2> QED BY <1>2, <2>1, BusSteps
<1>3. BusInv => StreamsKept
  BY BusPromises DEF StreamsKept
<1> QED BY <1>1, <1>2, <1>3, PTL DEF ServicesSpec

(* In the composition of the services, too, one instance of a service runs *)
(* and the inbox shows what it is (supervisor.py, service_alerts.py).      *)
THEOREM SupervisionIsKept == ServicesSpec => []SupervisionKept
<1>1. ServicesInit => SupInv
  BY SupInvAtFirst DEF ServicesInit
<1>2. ASSUME SupInv, [SupervisionMoves \/ BusMoves \/ ReportsMove \/ RestoresMove]_servicesVars
      PROVE  SupInv'
  <2>1. [SupNext]_supVars
    BY <1>2 DEF SupervisionMoves, BusMoves, ReportsMove, RestoresMove, servicesVars
  <2> QED BY <1>2, <2>1, SupStepIsKept
<1>3. SupInv => SupervisionKept
  BY SupervisionPromises DEF SupervisionKept
<1> QED BY <1>1, <1>2, <1>3, PTL DEF ServicesSpec
=============================================================================
