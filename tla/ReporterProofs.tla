--------------------------- MODULE ReporterProofs ---------------------------
(***************************************************************************)
(* Kasko for any number of processes, reports and faults: one process      *)
(* uploads at a time, the repository outlives its users, no stored report  *)
(* is lost, and the attempts to upload a report are bounded.               *)
(***************************************************************************)
EXTENDS Reporter, TLAPS

(* The mutex, the Reporter's life and the calls it waits for.              *)
ActiveHoldsMutex ==
  \A p \in Processes : thread[p] \in {"wait_timer", "uploading"} => mutex = p
LifeOK ==
  \A p \in Processes :
    /\ reporter[p] = "off" => thread[p] = "off"
    /\ reporter[p] = "down" => thread[p] = "exited"
OwnersLive ==
  \A r \in Reports : \A p \in Processes :
    owner[r] = p => reporter[p] \in {"running", "stop_service", "wait"}

LifeInv == TypeOK /\ ActiveHoldsMutex /\ LifeOK /\ OwnersLive

(* The reports an upload works on.                                         *)
NoReportSteps == {"idle", "clean", "scan"}
JobsOK ==
  \A p \in Processes :
    /\ job[p].step \in NoReportSteps <=> job[p].report = None
    /\ job[p].step = "idle" => job[p] = NoJob

(* StoreReport before the minidump's move: nobody else sees the files.     *)
StoreSteps == {"write_keys", "move_dump", "touch_dump", "touch_keys", "drop_keys",
               "drop_dump"}
OwnedWhileStored == \A r \in Reports : store[r] \in StoreSteps => owner[r] # None

NoWorker(r) == \A p \in Processes : job[p].report # r
Coming(r) ==
  /\ store[r] = "off" => dump[r] = "None" /\ keys[r] = "None" /\ NoWorker(r)
  /\ store[r] = "write_keys" => dump[r] = "Temporary" /\ keys[r] = "None" /\ NoWorker(r)
  /\ store[r] = "move_dump" =>
       dump[r] = "Temporary" /\ keys[r] = "Incoming" /\ ~dayOld[r] /\ NoWorker(r)

(* Afterwards it is whole, or the one upload at work is about to make it   *)
(* whole in the next directory.                                            *)
WholeSteps == {"touch_dump", "touch_keys", "upload", "move_dump"}
Whole(r) ==
  NoWorker(r) /\ (InRepository(r) \/ (dump[r] = "Failed" /\ keys[r] = "Failed"))
Tried(r, p) ==
  /\ job[p].report = r /\ keys[r] = job[p].dir
  /\ \/ job[p].step \in WholeSteps /\ dump[r] = job[p].dir
     \/ job[p].step = "move_keys" /\ dump[r] = FailureDestination(job[p].dir)
Kept(r) ==
  store[r] \in {"touch_dump", "touch_keys", "stored"} =>
    uploads[r] > 0 \/ Whole(r) \/ \E p \in Processes : Tried(r, p)

(* The inductive invariant.                                                *)
BaseInv == LifeInv /\ JobsOK /\ OwnedWhileStored
KeptInv == BaseInv /\ \A r \in Reports \ hurt : Coming(r) /\ Kept(r)

-----------------------------------------------------------------------------
(* The type invariant in parts.                                            *)
DumpPlaces == Directories \union {"None", "Temporary", "Failed"}
KeysPlaces == Directories \union {"None", "Failed"}
StorePlaces == {"off", "write_keys", "move_dump", "touch_dump", "touch_keys",
                "drop_keys", "drop_dump", "stored", "dropped", "cut"}
Jobs == [step : UploadSteps, dir : Directories, report : Reports \union {None},
         seen : SUBSET Reports]

PlacesOK == dump \in [Reports -> DumpPlaces] /\ keys \in [Reports -> KeysPlaces]
AgesOK == retryable \in [Reports -> BOOLEAN] /\ dayOld \in [Reports -> BOOLEAN]
StoreOK == store \in [Reports -> StorePlaces] /\ owner \in [Reports -> Processes \union {None}]
JobTypeOK == job \in [Processes -> Jobs]
CountsOK == attempts \in [Reports -> Nat] /\ uploads \in [Reports -> Nat]
FaultsOK == faults \in 0..MaxFaults /\ hurt \in SUBSET Reports
ThreadsOK ==
  /\ thread \in [Processes -> {"off", "wait_mutex", "wait_timer", "uploading", "exited"}]
  /\ stop \in [Processes -> BOOLEAN] /\ mutex \in Processes \union {None}
ReporterOK ==
  reporter \in [Processes -> {"off", "running", "stop_service", "wait", "down"}]
IdleOK == \A p \in Processes : thread[p] # "uploading" => job[p] = NoJob

(* They make up the type invariant, before a step and after it.            *)
LEMMA TypeParts ==
  /\ TypeOK <=> /\ PlacesOK /\ AgesOK /\ StoreOK /\ JobTypeOK /\ CountsOK
                /\ FaultsOK /\ ThreadsOK /\ ReporterOK /\ IdleOK
  /\ TypeOK' <=> /\ PlacesOK' /\ AgesOK' /\ StoreOK' /\ JobTypeOK' /\ CountsOK'
                 /\ FaultsOK' /\ ThreadsOK' /\ ReporterOK' /\ IdleOK'
  BY Zenon DEF TypeOK, PlacesOK, AgesOK, StoreOK, JobTypeOK, CountsOK, FaultsOK, ThreadsOK,
         ReporterOK, IdleOK, DumpPlaces, KeysPlaces, StorePlaces, Jobs

(* A failed file operation is counted and concerns one report.             *)
LEMMA FaultType ==
  ASSUME FaultsOK, NEW r \in Reports, NoFault \/ Fault(r) PROVE FaultsOK'
  BY RepositoryAssumption DEF FaultsOK, NoFault, Fault

(* The operations on one file keep the types.                              *)
LEMMA FileType ==
  ASSUME PlacesOK, NEW r \in Reports
  PROVE  /\ \A to \in DumpPlaces : [dump EXCEPT ![r] = to] \in [Reports -> DumpPlaces]
         /\ \A to \in KeysPlaces : [keys EXCEPT ![r] = to] \in [Reports -> KeysPlaces]
         /\ \A dirs : LoggedDeleteDump(r, dirs) =>
                dump' \in [Reports -> DumpPlaces] /\ (NoFault \/ Fault(r))
         /\ \A dir : LoggedDeleteKeys(r, dir) =>
                keys' \in [Reports -> KeysPlaces] /\ (NoFault \/ Fault(r))
<1>1. \A to \in DumpPlaces : [dump EXCEPT ![r] = to] \in [Reports -> DumpPlaces]
  BY Zenon DEF PlacesOK
<1>2. \A to \in KeysPlaces : [keys EXCEPT ![r] = to] \in [Reports -> KeysPlaces]
  BY Zenon DEF PlacesOK
<1>3. ASSUME NEW dirs, LoggedDeleteDump(r, dirs)
      PROVE  dump' \in [Reports -> DumpPlaces] /\ (NoFault \/ Fault(r))
  BY <1>3, Zenon DEF PlacesOK, LoggedDeleteDump, DumpPlaces
<1>4. ASSUME NEW dir, LoggedDeleteKeys(r, dir)
      PROVE  keys' \in [Reports -> KeysPlaces] /\ (NoFault \/ Fault(r))
  BY <1>4, Zenon DEF PlacesOK, LoggedDeleteKeys, KeysPlaces
<1> QED
  BY <1>1, <1>2, <1>3, <1>4, Zenon

(* A step of StoreReport changes files, where the call is and its owner.   *)
LEMMA StoreStepType ==
  ASSUME TypeOK, NEW r \in Reports, Store(r) PROVE TypeOK'
<1>1. PlacesOK /\ AgesOK /\ StoreOK /\ FaultsOK
  BY TypeParts, Zenon
<1>2. UNCHANGED <<job, attempts, uploads, thread, stop, mutex, reporter>>
  BY Zenon DEF Store, threadVars, StoreStep, WriteKeys, StoreMovesDump, StoreTouchesDump,
         StoreTouchesKeys, StoreDropsKeys, StoreDropsDump
<1>3. NoFault \/ Fault(r)
  BY Zenon DEF Store, StoreStep, WriteKeys, StoreMovesDump, StoreTouchesDump, StoreTouchesKeys,
         StoreDropsKeys, StoreDropsDump, MoveDump, MoveKeys, Fails, LoggedDeleteDump,
         LoggedDeleteKeys
<1>4. FaultsOK'
  BY <1>1, <1>3, FaultType, Zenon
<1>5. PlacesOK' /\ AgesOK'
  <2> USE <1>1 DEF PlacesOK, AgesOK
  <2>1. CASE WriteKeys(r)
    BY <2>1, Zenon DEF WriteKeys, KeysPlaces, Directories
  <2>2. CASE StoreMovesDump(r)
    BY <2>2, Zenon DEF StoreMovesDump, MoveDump, DumpPlaces, Directories
  <2>3. CASE StoreTouchesDump(r)
    BY <2>3, Zenon DEF StoreTouchesDump
  <2>4. CASE StoreTouchesKeys(r)
    BY <2>4, Zenon DEF StoreTouchesKeys
  <2>5. CASE StoreDropsKeys(r)
    BY <2>5, FileType, Zenon DEF StoreDropsKeys
  <2>6. CASE StoreDropsDump(r)
    BY <2>6, FileType, Zenon DEF StoreDropsDump
  <2> QED
    BY <2>1, <2>2, <2>3, <2>4, <2>5, <2>6, Zenon DEF Store, StoreStep
<1>6. StoreOK'
  <2>1. /\ \E step \in StorePlaces : StoreTo(r, step)
        /\ owner' = owner \/ owner' = [owner EXCEPT ![r] = None]
    BY Zenon DEF Store, StoreStep, WriteKeys, StoreMovesDump, StoreTouchesDump,
           StoreTouchesKeys, StoreDropsKeys, StoreDropsDump, StoreEnds, StorePlaces
  <2> QED
    BY <1>1, <2>1, Zenon DEF StoreOK, StoreTo
<1>7. JobTypeOK' /\ CountsOK' /\ ThreadsOK' /\ ReporterOK' /\ IdleOK'
  BY <1>2, TypeParts, Zenon DEF JobTypeOK, CountsOK, ThreadsOK, ReporterOK, IdleOK
<1> QED
  BY <1>4, <1>5, <1>6, <1>7, TypeParts, Zenon

-----------------------------------------------------------------------------
(* Where a failed upload takes a file.                                     *)
LEMMA DestinationFacts ==
  /\ FailureDestination("Incoming") = "Retry"
  /\ FailureDestination("Retry") = "Retry 2"
  /\ FailureDestination("Retry 2") = "Failed"
  /\ \A d \in Directories : FailureDestination(d) \in KeysPlaces \ {d, "None", "Incoming"}
  /\ \A d \in Directories \ {"Retry 2"} : NextOf[d] \in Directories
<1>1. /\ FailureDestination("Incoming") = "Retry"
      /\ FailureDestination("Retry") = "Retry 2"
      /\ FailureDestination("Retry 2") = "Failed"
  BY Zenon DEF FailureDestination, NextOf
<1>2. \A d \in Directories \ {"Retry 2"} : NextOf[d] = FailureDestination(d)
  BY Zenon DEF FailureDestination
<1> QED
  BY <1>1, <1>2, Zenon DEF Directories, KeysPlaces

(* The job of one process becomes another that works on a report exactly   *)
(* in the steps that need one.                                             *)
LegalJob(j) ==
  /\ j \in Jobs
  /\ j.step \in NoReportSteps <=> j.report = None
  /\ j.step = "idle" => j = NoJob
NewJob(p, j) == LegalJob(j) /\ job' = [job EXCEPT ![p] = j]

(* Goto changes the step and nothing else.                                 *)
LEMMA GotoFacts ==
  ASSUME JobTypeOK, NEW p \in Processes, NEW step \in UploadSteps, Goto(p, step)
  PROVE  /\ job' = [job EXCEPT ![p] = job'[p]]
         /\ job'[p] \in Jobs
         /\ job'[p].step = step /\ job'[p].dir = job[p].dir
         /\ job'[p].report = job[p].report
  BY Zenon DEF JobTypeOK, Goto, Jobs

(* A job without a report is legal.                                        *)
LEMMA NoJobFacts ==
  /\ LegalJob(NoJob) /\ NoJob.step = "idle" /\ NoJob.report = None
  /\ \A step \in {"clean", "scan"}, dir \in Directories, seen \in SUBSET Reports :
       LegalJob(Job(step, dir, None, seen))
  BY DEF LegalJob, Jobs, NoJob, Job, UploadSteps, Directories, NoReportSteps

(* A step that needs a report has one.                                     *)
LEMMA ReportFacts ==
  ASSUME JobTypeOK, JobsOK, NEW p \in Processes
  PROVE  /\ job[p] \in Jobs /\ LegalJob(job[p])
         /\ job[p].dir \in Directories /\ job[p].seen \in SUBSET Reports
         /\ job[p].step \notin NoReportSteps => job[p].report \in Reports
  BY Zenon DEF JobTypeOK, JobsOK, Jobs, LegalJob

(* A step that goes on with the same report.                               *)
LEMMA GotoLegal ==
  ASSUME JobTypeOK, JobsOK, NEW p \in Processes, job[p].step \notin NoReportSteps,
         NEW step \in UploadSteps \ NoReportSteps, Goto(p, step)
  PROVE  \E j : NewJob(p, j)
<1>1. LegalJob(job'[p]) /\ job' = [job EXCEPT ![p] = job'[p]]
  BY GotoFacts, Zenon DEF JobsOK, LegalJob, NoReportSteps
<1> QED
  BY <1>1, Zenon DEF NewJob

(* Every step of UploadPendingReport leaves a legal job.                   *)
LEMMA UploadStepJob ==
  ASSUME JobTypeOK, JobsOK, NEW p \in Processes, UploadStep(p)
  PROVE  job[p].step # "idle" /\ \E j : NewJob(p, j)
<1>1. /\ job[p] \in Jobs /\ job[p].dir \in Directories /\ job[p].seen \in SUBSET Reports
      /\ job[p].step \in NoReportSteps <=> job[p].report = None
  BY ReportFacts, Zenon DEF LegalJob
<1>2. CASE FindOrphan(p)
  <2>1. PICK r \in Reports, d \in Directories :
          job' = [job EXCEPT ![p] = Job("orphan", d, r, @.seen \union {r})]
    BY <1>2, Zenon DEF FindOrphan
  <2>2. LegalJob(Job("orphan", d, r, job[p].seen \union {r}))
    BY <1>1, RepositoryAssumption, Zenon DEF LegalJob, Jobs, Job, UploadSteps, NoReportSteps
  <2> QED
    BY <1>2, <2>1, <2>2, Zenon DEF NewJob, FindOrphan
<1>3. CASE DeleteOrphan(p)
  <2>1. LegalJob(Job("clean", "Incoming", None, job[p].seen))
    BY <1>1, NoJobFacts, Zenon DEF Directories
  <2> QED
    BY <1>3, <2>1, Zenon DEF DeleteOrphan, NewJob
<1>4. CASE CleanDone(p)
  <2>1. LegalJob(Job("scan", "Incoming", None, {}))
    BY NoJobFacts, Zenon DEF Directories
  <2> QED
    BY <1>4, <2>1, Zenon DEF CleanDone, NewJob
<1>5. CASE DeleteOrphanedDump(p)
  <2>1. PICK r \in Reports :
          job' = [job EXCEPT ![p] = Job("scan", @.dir, None, @.seen \union {r})]
    BY <1>5, Zenon DEF DeleteOrphanedDump
  <2>2. LegalJob(Job("scan", job[p].dir, None, job[p].seen \union {r}))
    BY <1>1, NoJobFacts, Zenon
  <2> QED
    BY <1>5, <2>1, <2>2, Zenon DEF NewJob, DeleteOrphanedDump
<1>6. CASE PickReport(p)
  <2>1. PICK r \in Reports : job' = [job EXCEPT ![p] = Job("touch_dump", @.dir, r, {})]
    BY <1>6, Zenon DEF PickReport
  <2>2. LegalJob(Job("touch_dump", job[p].dir, r, {}))
    BY <1>1, RepositoryAssumption, Zenon DEF LegalJob, Jobs, Job, UploadSteps, NoReportSteps
  <2> QED
    BY <1>6, <2>1, <2>2, Zenon DEF NewJob, PickReport
<1>7. CASE NextDirectory(p)
  <2>1. CASE job[p].dir = "Retry 2"
    BY <1>7, <2>1, NoJobFacts, Zenon DEF NextDirectory, NewJob
  <2>2. CASE job[p].dir # "Retry 2"
    <3>1. LegalJob(Job("scan", NextOf[job[p].dir], None, {}))
      BY <1>1, <2>2, DestinationFacts, NoJobFacts, Zenon
    <3> QED
      BY <1>7, <2>2, <3>1, Zenon DEF NewJob, NextDirectory
  <2> QED
    BY <2>1, <2>2, Zenon
<1>8. CASE \/ TouchDump(p) \/ TouchKeys(p) \/ Upload(p) \/ MovesDump(p)
           \/ RestDump(p) \/ DropKeys(p)
  <2>1. /\ job[p].step \notin NoReportSteps
        /\ \E step \in UploadSteps \ NoReportSteps : Goto(p, step)
    BY <1>8, Zenon DEF TouchDump, TouchKeys, Upload, MovesDump, RestDump, DropKeys, UploadSteps,
                NoReportSteps
  <2> QED
    BY <2>1, GotoLegal, Zenon DEF NoReportSteps
<1>9. CASE MovesKeys(p)
  <2>1. job[p].step \notin NoReportSteps
    BY <1>9, Zenon DEF MovesKeys, NoReportSteps
  <2>2. CASE job' = [job EXCEPT ![p] = NoJob]
    BY <2>1, <2>2, NoJobFacts, Zenon DEF NewJob, NoReportSteps
  <2>3. CASE Goto(p, IF Permanent(p) THEN "rest_dump" ELSE "drop_both")
    <3>1. (IF Permanent(p) THEN "rest_dump" ELSE "drop_both") \in UploadSteps \ NoReportSteps
      BY Zenon DEF UploadSteps, NoReportSteps
    <3> QED
      BY <2>1, <2>3, <3>1, GotoLegal, Zenon DEF NoReportSteps
  <2> QED
    BY <1>9, <2>2, <2>3, Zenon DEF MovesKeys
<1>10. CASE RestKeys(p) \/ DropDump(p)
  BY <1>10, NoJobFacts, Zenon DEF RestKeys, DropDump, NewJob
<1> QED
  BY <1>2, <1>3, <1>4, <1>5, <1>6, <1>7, <1>8, <1>9, <1>10, Zenon DEF UploadStep

(* It changes files of one report, counters of it and the job.             *)
LEMMA UploadStepFiles ==
  ASSUME PlacesOK, AgesOK, CountsOK, FaultsOK, JobTypeOK, JobsOK,
         NEW p \in Processes, UploadStep(p)
  PROVE  /\ PlacesOK' /\ AgesOK' /\ CountsOK' /\ FaultsOK'
         /\ UNCHANGED <<store, owner>>
<1>1. /\ job[p].dir \in Directories
      /\ job[p].step \notin NoReportSteps => job[p].report \in Reports
  BY ReportFacts, Zenon
<1>2. UNCHANGED <<store, owner>>
  BY Zenon DEF UploadStep, FindOrphan, DeleteOrphan, CleanDone, DeleteOrphanedDump, PickReport,
         NextDirectory, TouchDump, TouchKeys, Upload, MovesDump, MovesKeys, RestDump,
         RestKeys, DropKeys, DropDump
<1>3. CASE FindOrphan(p) \/ CleanDone(p) \/ PickReport(p) \/ NextDirectory(p)
  <2>1. UNCHANGED <<dump, keys, retryable, dayOld, attempts, uploads, faults, hurt>>
    BY <1>3, Zenon DEF FindOrphan, CleanDone, PickReport, NextDirectory, files
  <2> QED
    BY <1>2, <2>1, Zenon DEF PlacesOK, AgesOK, CountsOK, FaultsOK
<1>4. CASE DeleteOrphanedDump(p)
  <2>1. PICK r \in Reports : LoggedDeleteDump(r, {job[p].dir})
    BY <1>4, Zenon DEF DeleteOrphanedDump
  <2>2. dump' \in [Reports -> DumpPlaces] /\ (NoFault \/ Fault(r))
    BY <2>1, FileType, Zenon
  <2>3. UNCHANGED <<keys, retryable, dayOld, attempts, uploads>>
    BY <1>4, Zenon DEF DeleteOrphanedDump
  <2>4. FaultsOK'
    BY <2>2, FaultType, Zenon
  <2> QED
    BY <1>2, <2>2, <2>3, <2>4, Zenon DEF PlacesOK, AgesOK, CountsOK
<1>5. CASE DeleteOrphan(p) \/ RestKeys(p) \/ DropKeys(p)
  <2>1. job[p].report \in Reports
    BY <1>1, <1>5, Zenon DEF DeleteOrphan, RestKeys, DropKeys, NoReportSteps
  <2>2. keys' \in [Reports -> KeysPlaces] /\ (NoFault \/ Fault(job[p].report))
    BY <1>5, <2>1, FileType, Zenon DEF DeleteOrphan, RestKeys, DropKeys
  <2>3. UNCHANGED <<dump, retryable, dayOld, attempts, uploads>>
    BY <1>5, Zenon DEF DeleteOrphan, RestKeys, DropKeys
  <2>4. FaultsOK'
    BY <2>1, <2>2, FaultType, Zenon
  <2> QED
    BY <1>2, <2>2, <2>3, <2>4, Zenon DEF PlacesOK, AgesOK, CountsOK
<1>6. CASE RestDump(p) \/ DropDump(p)
  <2>1. job[p].report \in Reports
    BY <1>1, <1>6, Zenon DEF RestDump, DropDump, NoReportSteps
  <2>2. dump' \in [Reports -> DumpPlaces] /\ (NoFault \/ Fault(job[p].report))
    BY <1>6, <2>1, FileType, Zenon DEF RestDump, DropDump
  <2>3. UNCHANGED <<keys, retryable, dayOld, attempts, uploads>>
    BY <1>6, Zenon DEF RestDump, DropDump
  <2>4. FaultsOK'
    BY <2>1, <2>2, FaultType, Zenon
  <2> QED
    BY <1>2, <2>2, <2>3, <2>4, Zenon DEF PlacesOK, AgesOK, CountsOK
<1>7. CASE TouchDump(p) \/ TouchKeys(p)
  <2>1. job[p].report \in Reports
    BY <1>1, <1>7, Zenon DEF TouchDump, TouchKeys, NoReportSteps
  <2>2. NoFault \/ Fault(job[p].report)
    BY <1>7, Zenon DEF TouchDump, TouchKeys, Fails
  <2>3. UNCHANGED <<dump, keys, attempts, uploads>>
    BY <1>7, Zenon DEF TouchDump, TouchKeys
  <2>4. FaultsOK'
    BY <2>1, <2>2, FaultType, Zenon
  <2>5. AgesOK'
    BY <1>7, <2>1, Zenon DEF TouchDump, TouchKeys, AgesOK
  <2> QED
    BY <1>2, <2>3, <2>4, <2>5, Zenon DEF PlacesOK, CountsOK
<1>8. CASE Upload(p)
  <2>1. job[p].report \in Reports
    BY <1>1, <1>8, Zenon DEF Upload, NoReportSteps
  <2>2. UNCHANGED <<dump, keys, retryable, dayOld, faults, hurt>>
    BY <1>8, Zenon DEF Upload, files
  <2>3. CountsOK'
    BY <1>8, <2>1 DEF Upload, CountsOK
  <2> QED
    BY <1>2, <2>2, <2>3, Zenon DEF PlacesOK, AgesOK, FaultsOK
<1>9. CASE MovesDump(p) \/ MovesKeys(p)
  <2>1. job[p].report \in Reports
    BY <1>1, <1>9, Zenon DEF MovesDump, MovesKeys, NoReportSteps
  <2>2. NoFault \/ Fault(job[p].report)
    BY <1>9, Zenon DEF MovesDump, MovesKeys, MoveDump, MoveKeys, Fails
  <2>3. UNCHANGED <<retryable, dayOld, attempts, uploads>>
    BY <1>9, Zenon DEF MovesDump, MovesKeys
  <2>4. FaultsOK'
    BY <2>1, <2>2, FaultType, Zenon
  <2>5. FailureDestination(job[p].dir) \in KeysPlaces /\ KeysPlaces \subseteq DumpPlaces
    BY <1>1, DestinationFacts, Zenon DEF KeysPlaces, DumpPlaces
  <2>6. PlacesOK'
    <3>1. CASE MovesDump(p)
      <4>1. UNCHANGED keys /\ \E to \in DumpPlaces :
              UNCHANGED dump \/ dump' = [dump EXCEPT ![job[p].report] = to]
        BY <2>5, <3>1, Zenon DEF MovesDump, MoveDump
      <4> QED
        BY <2>1, <4>1, FileType DEF PlacesOK
    <3>2. CASE MovesKeys(p)
      <4>1. UNCHANGED dump /\ \E to \in KeysPlaces :
              UNCHANGED keys \/ keys' = [keys EXCEPT ![job[p].report] = to]
        BY <2>5, <3>2, Zenon DEF MovesKeys, MoveKeys
      <4> QED
        BY <2>1, <4>1, FileType DEF PlacesOK
    <3> QED
      BY <1>9, <3>1, <3>2, Zenon
  <2> QED
    BY <1>2, <2>3, <2>4, <2>6, Zenon DEF AgesOK, CountsOK
<1> QED
  BY <1>3, <1>4, <1>5, <1>6, <1>7, <1>8, <1>9, Zenon DEF UploadStep

-----------------------------------------------------------------------------
(* Nothing exists at first.                                                *)
LEMMA BaseInit == Init => BaseInv
<1> SUFFICES ASSUME Init PROVE BaseInv
  BY Zenon
<1>1. JobTypeOK /\ JobsOK /\ IdleOK
  BY NoJobFacts, Zenon DEF Init, RepositoryInit, JobTypeOK, JobsOK, IdleOK, LegalJob
<1>2. PlacesOK /\ AgesOK /\ StoreOK /\ CountsOK
  BY Zenon DEF Init, RepositoryInit, PlacesOK, AgesOK, StoreOK, CountsOK, DumpPlaces, KeysPlaces,
         StorePlaces
<1>3. FaultsOK /\ ThreadsOK /\ ReporterOK
  BY RepositoryAssumption
    DEF Init, RepositoryInit, ThreadInit, FaultsOK, ThreadsOK, ReporterOK
<1>4. ActiveHoldsMutex /\ LifeOK
  BY Zenon DEF Init, ThreadInit, ActiveHoldsMutex, LifeOK
<1>5. OwnersLive /\ OwnedWhileStored
  BY RepositoryAssumption, Zenon
    DEF Init, RepositoryInit, OwnersLive, OwnedWhileStored, StoreSteps
<1> QED
  BY <1>1, <1>2, <1>3, <1>4, <1>5, TypeParts, Zenon DEF BaseInv, LifeInv

(* The thread, the mutex and the Reporter's life, without the repository.  *)
ThreadInv == ThreadsOK /\ ReporterOK /\ ActiveHoldsMutex /\ LifeOK

(* Create, Shutdown, Join and the thread's own waits.                      *)
LEMMA ThreadActionInv ==
  ASSUME ThreadInv, NEW p \in Processes,
         \/ Create(p) \/ Shutdown(p) \/ StopListening(p) \/ WaitServerListenAndJoin(p)
         \/ (AcquireMutex(p) \/ StopSeen(p) \/ ThreadEnds(p)) /\ UNCHANGED reporter
  PROVE  /\ ThreadInv'
         /\ \A q \in Processes : thread'[q] = "uploading" <=> thread[q] = "uploading"
<1> USE RepositoryAssumption
    DEF ThreadInv, ThreadsOK, ReporterOK, ActiveHoldsMutex, LifeOK
<1>1. CASE Create(p)
  BY <1>1, Zenon DEF Create, Life, ThreadStart
<1>2. CASE Shutdown(p)
  BY <1>2, Zenon DEF Shutdown, Life, ThreadStop
<1>3. CASE StopListening(p)
  BY <1>3, Zenon DEF StopListening, Life, threadVars
<1>4. CASE WaitServerListenAndJoin(p)
  BY <1>4, Zenon DEF WaitServerListenAndJoin, Life, ThreadJoin, ThreadGone, AbandonedBy
<1>5. CASE AcquireMutex(p) /\ UNCHANGED reporter
  BY <1>5, Zenon DEF AcquireMutex
<1>6. CASE ThreadEnds(p) /\ UNCHANGED reporter
  BY <1>6, Zenon DEF ThreadEnds, AbandonedBy
<1> QED
  BY <1>1, <1>2, <1>3, <1>4, <1>5, <1>6, Zenon DEF StopSeen

(* The timer, the uploader's return and a death.                           *)
LEMMA UploadingInv ==
  ASSUME ThreadInv, NEW p \in Processes,
         \/ (TimerFires(p) \/ UploaderReturns(p)) /\ UNCHANGED reporter
         \/ ThreadGone(p) /\ reporter' = [reporter EXCEPT ![p] = "down"]
  PROVE  /\ ThreadInv'
         /\ \A q \in Processes \ {p} : thread'[q] = thread[q]
<1> USE RepositoryAssumption
    DEF ThreadInv, ThreadsOK, ReporterOK, ActiveHoldsMutex, LifeOK
<1>1. CASE TimerFires(p) /\ UNCHANGED reporter
  BY <1>1, Zenon DEF TimerFires
<1>2. CASE UploaderReturns(p) /\ UNCHANGED reporter
  BY <1>2, Zenon DEF UploaderReturns
<1>3. CASE ThreadGone(p) /\ reporter' = [reporter EXCEPT ![p] = "down"]
  BY <1>3, Zenon DEF ThreadGone, AbandonedBy
<1> QED
  BY <1>1, <1>2, <1>3, Zenon

(* The base invariant in the parts the actions disturb.                    *)
FilesInv == PlacesOK /\ AgesOK /\ CountsOK /\ FaultsOK

(* They make up the base invariant, before a step and after it.            *)
LEMMA BaseParts ==
  /\ BaseInv <=> /\ ThreadInv /\ FilesInv /\ StoreOK /\ JobTypeOK /\ IdleOK /\ JobsOK
                 /\ OwnersLive /\ OwnedWhileStored
  /\ BaseInv' <=> /\ ThreadInv' /\ FilesInv' /\ StoreOK' /\ JobTypeOK' /\ IdleOK' /\ JobsOK'
                  /\ OwnersLive' /\ OwnedWhileStored'
  BY TypeParts, Zenon DEF BaseInv, LifeInv, ThreadInv, FilesInv

(* Steps that leave the repository alone.                                  *)
LEMMA RepositoryUnchanged ==
  ASSUME BaseInv, UNCHANGED repositoryVars
  PROVE  /\ FilesInv' /\ StoreOK' /\ JobTypeOK' /\ JobsOK' /\ OwnedWhileStored'
         /\ UNCHANGED <<dump, keys, dayOld, store, owner, job, uploads, faults, hurt>>
  BY BaseParts, Zenon DEF repositoryVars, files, FilesInv, PlacesOK, AgesOK, CountsOK, FaultsOK,
                   StoreOK, JobTypeOK, JobsOK, OwnedWhileStored

(* Create, Shutdown, Join and the waits for the mutex and the timer.       *)
LEMMA LifeStep ==
  ASSUME BaseInv, NEW p \in Processes,
         \/ Create(p) \/ Shutdown(p) \/ ShutdownStep(p)
         \/ (AcquireMutex(p) \/ StopSeen(p)) /\ UNCHANGED <<repositoryVars, reporter>>
         \/ ReturnFromUploader(p)
  PROVE  BaseInv' /\ UNCHANGED repositoryVars
<1>1. UNCHANGED repositoryVars
  BY Zenon DEF Create, Shutdown, ShutdownStep, StopListening, WaitServerListenAndJoin,
         ReturnFromUploader
<1>2. /\ FilesInv' /\ StoreOK' /\ JobTypeOK' /\ JobsOK' /\ OwnedWhileStored'
      /\ UNCHANGED <<owner, job>>
  BY <1>1, RepositoryUnchanged, Zenon
<1>3. ThreadInv /\ OwnersLive /\ IdleOK /\ JobsOK
  BY BaseParts, Zenon
<1>4. CASE ReturnFromUploader(p)
  <2>1. UploaderReturns(p) /\ UNCHANGED reporter /\ job[p].step = "idle"
    BY <1>4, Zenon DEF ReturnFromUploader
  <2>2. ThreadInv' /\ \A q \in Processes \ {p} : thread'[q] = thread[q]
    BY <1>3, <2>1, UploadingInv, Zenon
  <2>3. IdleOK' /\ OwnersLive'
    BY <1>2, <1>3, <2>1, <2>2, Zenon DEF IdleOK, OwnersLive, JobsOK
  <2> QED
    BY <1>1, <1>2, <2>2, <2>3, BaseParts, Zenon
<1>5. CASE ~ReturnFromUploader(p)
  <2>1. /\ ThreadInv'
        /\ \A q \in Processes : thread'[q] = "uploading" <=> thread[q] = "uploading"
    BY <1>3, <1>5, ThreadActionInv, Zenon DEF ShutdownStep
  <2>2. IdleOK'
    BY <1>2, <1>3, <2>1, Zenon DEF IdleOK
  <2>3. OwnersLive'
    <3> USE <1>2, <1>3 DEF OwnersLive, ThreadInv, ReporterOK
    <3>1. CASE Create(p)
      BY <3>1, Zenon DEF Create, Life
    <3>2. CASE Shutdown(p)
      BY <3>2, Zenon DEF Shutdown, Life
    <3>3. CASE StopListening(p)
      BY <3>3, Zenon DEF StopListening, Life
    <3>4. CASE WaitServerListenAndJoin(p)
      BY <3>4, Zenon DEF WaitServerListenAndJoin, Life, Storing
    <3>5. CASE UNCHANGED reporter
      BY <3>5, Zenon
    <3> QED
      BY <1>5, <3>1, <3>2, <3>3, <3>4, <3>5, Zenon DEF ShutdownStep
  <2> QED
    BY <1>1, <1>2, <2>1, <2>2, <2>3, BaseParts, Zenon
<1> QED
  BY <1>4, <1>5, Zenon

(* Steps that leave the threads and the Reporters alone.                   *)
LEMMA ThreadsUnchanged ==
  ASSUME BaseInv, UNCHANGED <<threadVars, reporter>> PROVE ThreadInv'
  BY BaseParts, Zenon DEF threadVars, ThreadInv, ThreadsOK, ReporterOK, ActiveHoldsMutex, LifeOK

(* SendReport calls StoreReport while the RPC server accepts requests.     *)
LEMMA SendStep ==
  ASSUME BaseInv, NEW p \in Processes, NEW r \in Reports, SendReport(p, r)
  PROVE  BaseInv'
<1>1. ThreadInv'
  BY ThreadsUnchanged, Zenon DEF SendReport
<1>2. PlacesOK /\ AgesOK /\ CountsOK /\ FaultsOK /\ StoreOK /\ JobTypeOK /\ IdleOK /\ JobsOK
      /\ OwnersLive /\ OwnedWhileStored
  BY BaseParts, Zenon DEF FilesInv
<1>3. UNCHANGED <<keys, retryable, dayOld, job, attempts, uploads, faults, hurt, thread, reporter>>
  BY Zenon DEF SendReport, StoreReport, threadVars
<1>4. /\ dump' = [dump EXCEPT ![r] = "Temporary"]
      /\ store' = [store EXCEPT ![r] = "write_keys"]
      /\ owner' = [owner EXCEPT ![r] = p]
      /\ reporter[p] \in {"running", "stop_service"}
  BY Zenon DEF SendReport, StoreReport, StoreTo
<1>5. FilesInv'
  BY <1>2, <1>3, <1>4, Zenon DEF FilesInv, PlacesOK, AgesOK, CountsOK, FaultsOK, DumpPlaces
<1>6. StoreOK'
  BY <1>2, <1>4, Zenon DEF StoreOK, StorePlaces
<1>7. JobTypeOK' /\ IdleOK' /\ JobsOK'
  BY <1>2, <1>3, Zenon DEF JobTypeOK, IdleOK, JobsOK
<1>8. OwnersLive' /\ OwnedWhileStored'
  BY <1>2, <1>3, <1>4, RepositoryAssumption, Zenon DEF OwnersLive, OwnedWhileStored, StoreOK
<1> QED
  BY <1>1, <1>5, <1>6, <1>7, <1>8, BaseParts, Zenon

(* The steps of StoreReport keep its owner until it returns.               *)
LEMMA StoreInv ==
  ASSUME BaseInv, NEW r \in Reports, Store(r) PROVE BaseInv'
<1>1. TypeOK'
  BY StoreStepType, Zenon DEF BaseInv, LifeInv
<1>2. ThreadInv' /\ UNCHANGED <<job, reporter>>
  BY ThreadsUnchanged, Zenon DEF Store, StoreStep, WriteKeys, StoreMovesDump, StoreTouchesDump,
     StoreTouchesKeys, StoreDropsKeys, StoreDropsDump
<1>3. StoreOK /\ JobsOK /\ OwnersLive /\ OwnedWhileStored
  BY BaseParts, Zenon
<1>4. \/ \E step \in StorePlaces : StoreTo(r, step) /\ owner' = owner /\ owner[r] # None
      \/ \E step \in StorePlaces \ StoreSteps :
           StoreTo(r, step) /\ owner' = [owner EXCEPT ![r] = None]
  BY <1>3, Zenon DEF OwnedWhileStored, Store, StoreStep, WriteKeys, StoreMovesDump, StoreTouchesDump,
         StoreTouchesKeys, StoreDropsKeys, StoreDropsDump, StoreEnds, StorePlaces, StoreSteps
<1>5. OwnersLive' /\ OwnedWhileStored'
  BY <1>2, <1>3, <1>4, RepositoryAssumption, Zenon DEF OwnersLive, OwnedWhileStored, StoreOK, StoreTo
<1>6. JobsOK'
  BY <1>2, <1>3, Zenon DEF JobsOK
<1> QED
  BY <1>1, <1>2, <1>5, <1>6, Zenon DEF BaseInv, LifeInv, ThreadInv

(* A new job of p, whose thread runs the uploader.                         *)
LEMMA NewJobInv ==
  ASSUME JobTypeOK, JobsOK, NEW p \in Processes, NEW j, NewJob(p, j)
  PROVE  JobTypeOK' /\ JobsOK' /\ \A q \in Processes : job'[q] = IF q = p THEN j ELSE job[q]
<1>1. LegalJob(j) /\ job' = [job EXCEPT ![p] = j]
  BY Zenon DEF NewJob
<1>2. JobTypeOK' /\ \A q \in Processes : job'[q] = IF q = p THEN j ELSE job[q]
  BY <1>1, Zenon DEF JobTypeOK, LegalJob
<1>3. JobsOK'
  BY <1>1, <1>2, Zenon DEF JobsOK, LegalJob
<1> QED
  BY <1>2, <1>3, Zenon

(* The timer fires: the uploader's job begins.                             *)
LEMMA RunStep ==
  ASSUME BaseInv, NEW p \in Processes, RunUploader(p)
  PROVE  /\ BaseInv'
         /\ UNCHANGED <<dump, keys, dayOld, store, owner, uploads, faults, hurt>>
         /\ job' = [job EXCEPT ![p] = job'[p]] /\ job'[p].report = None
         /\ job[p].report = None
<1>1. FilesInv /\ StoreOK /\ JobTypeOK /\ JobsOK /\ OwnersLive /\ OwnedWhileStored /\ IdleOK /\ ThreadInv
  BY BaseParts, Zenon
<1>2. UNCHANGED <<dump, keys, retryable, dayOld, store, owner, attempts, uploads, faults, hurt, reporter>>
  BY Zenon DEF RunUploader, UploadPendingReport, files
<1>3. TimerFires(p) /\ job[p].step = "idle" /\ Goto(p, "clean")
  BY Zenon DEF RunUploader, UploadPendingReport
<1>4. ThreadInv' /\ \A q \in Processes \ {p} : thread'[q] = thread[q]
  BY <1>1, <1>2, <1>3, UploadingInv, Zenon
<1>5. /\ job' = [job EXCEPT ![p] = job'[p]] /\ job'[p] \in Jobs
      /\ job'[p].step = "clean" /\ job'[p].report = job[p].report
  BY <1>1, <1>3, GotoFacts, Zenon DEF UploadSteps
<1>6. job[p].report = None
  BY <1>1, <1>3, Zenon DEF JobsOK, NoReportSteps
<1>7. NewJob(p, job'[p])
  BY <1>5, <1>6, Zenon DEF NewJob, LegalJob, NoReportSteps
<1>8. JobTypeOK' /\ JobsOK' /\ \A q \in Processes \ {p} : job'[q] = job[q]
  BY <1>1, <1>7, NewJobInv, Zenon
<1>9. thread'[p] = "uploading"
  BY <1>1, <1>3, Zenon DEF TimerFires, ThreadInv, ThreadsOK
<1>10. IdleOK'
  BY <1>1, <1>4, <1>8, <1>9, Zenon DEF IdleOK
<1>11. FilesInv' /\ StoreOK' /\ OwnersLive' /\ OwnedWhileStored'
  BY <1>1, <1>2, Zenon DEF FilesInv, PlacesOK, AgesOK, CountsOK, FaultsOK, StoreOK, OwnersLive,
                    OwnedWhileStored
<1> QED
  BY <1>2, <1>4, <1>5, <1>6, <1>8, <1>10, <1>11, BaseParts, Zenon

(* A step of the upload.                                                   *)
LEMMA UploadInv ==
  ASSUME BaseInv, NEW p \in Processes, UploadStep(p), UNCHANGED <<threadVars, reporter>>
  PROVE  BaseInv'
<1>1. FilesInv /\ StoreOK /\ JobTypeOK /\ JobsOK /\ OwnersLive /\ OwnedWhileStored /\ IdleOK /\ ThreadInv
  BY BaseParts, Zenon
<1>2. ThreadInv' /\ UNCHANGED <<thread, reporter>>
  BY ThreadsUnchanged, Zenon DEF threadVars
<1>3. FilesInv' /\ UNCHANGED <<store, owner>>
  BY <1>1, UploadStepFiles, Zenon DEF FilesInv
<1>4. job[p].step # "idle" /\ \E j : NewJob(p, j)
  BY <1>1, UploadStepJob, Zenon
<1>5. JobTypeOK' /\ JobsOK' /\ \A q \in Processes \ {p} : job'[q] = job[q]
  BY <1>1, <1>4, NewJobInv, Zenon
<1>6. thread[p] = "uploading"
  BY <1>1, <1>4, NoJobFacts, Zenon DEF IdleOK
<1>7. IdleOK'
  BY <1>1, <1>2, <1>5, <1>6, Zenon DEF IdleOK
<1>8. StoreOK' /\ OwnersLive' /\ OwnedWhileStored'
  BY <1>1, <1>2, <1>3, Zenon DEF StoreOK, OwnersLive, OwnedWhileStored
<1> QED
  BY <1>2, <1>3, <1>5, <1>7, <1>8, BaseParts, Zenon

(* A wait fails and the thread ends; time passes; all have shut down.      *)
LEMMA OtherStep ==
  ASSUME BaseInv,
         \/ \E p \in Processes : WaitFails(p)
         \/ \E r \in Reports : Elapse(r)
         \/ Done \/ UNCHANGED vars
  PROVE  /\ BaseInv' /\ hurt \subseteq hurt'
         /\ UNCHANGED <<dump, keys, store, owner, job, uploads>>
         /\ \A r \in Reports \ hurt' : dayOld'[r] # dayOld[r] => owner[r] = None
<1>1. FilesInv /\ StoreOK /\ JobTypeOK /\ JobsOK /\ OwnersLive /\ OwnedWhileStored /\ IdleOK /\ ThreadInv
  BY BaseParts, Zenon
<1>2. UNCHANGED <<dump, keys, store, owner, job, attempts, uploads, reporter>>
  BY Zenon DEF WaitFails, Elapse, RetryIntervalPasses, DayPasses, Done, vars, repositoryVars, files
<1>3. StoreOK' /\ JobTypeOK' /\ JobsOK' /\ OwnersLive' /\ OwnedWhileStored'
  BY <1>1, <1>2, Zenon DEF StoreOK, JobTypeOK, JobsOK, OwnersLive, OwnedWhileStored
<1>4. CASE \E p \in Processes : WaitFails(p)
  <2>1. PICK p \in Processes : WaitFails(p)
    BY <1>4, Zenon
  <2>2. /\ ThreadInv'
        /\ \A q \in Processes : thread'[q] = "uploading" <=> thread[q] = "uploading"
    BY <1>1, <2>1, ThreadActionInv, Zenon DEF WaitFails
  <2>3. IdleOK'
    BY <1>1, <1>2, <2>2, Zenon DEF IdleOK
  <2>4. FilesInv' /\ UNCHANGED <<dayOld, hurt>>
    BY <1>1, <1>2, <2>1, RepositoryAssumption
      DEF WaitFails, files, FilesInv, PlacesOK, AgesOK, CountsOK, FaultsOK
  <2> QED
    BY <1>2, <1>3, <2>2, <2>3, <2>4, BaseParts, Zenon
<1>5. CASE \E r \in Reports : Elapse(r)
  <2>1. PICK r \in Reports : Elapse(r)
    BY <1>5, Zenon
  <2>2. ThreadInv' /\ IdleOK'
    BY <1>1, <1>2, <2>1, ThreadsUnchanged, Zenon DEF Elapse, IdleOK, threadVars
  <2>3. NoFault \/ Fault(r)
    BY <2>1, Zenon DEF Elapse, RetryIntervalPasses, DayPasses, NoFault
  <2>4. FaultsOK'
    BY <1>1, <2>3, FaultType, Zenon DEF FilesInv
  <2>5. AgesOK'
    BY <1>1, <2>1, Zenon DEF Elapse, RetryIntervalPasses, DayPasses, FilesInv, AgesOK
  <2>6. FilesInv'
    BY <1>1, <1>2, <2>4, <2>5, Zenon DEF FilesInv, PlacesOK, CountsOK
  <2>7. hurt \subseteq hurt'
    BY <2>3, Zenon DEF NoFault, Fault
  <2>8. \A s \in Reports \ hurt' : dayOld'[s] # dayOld[s] => owner[s] = None
    BY <1>1, <2>1, Zenon DEF Elapse, RetryIntervalPasses, DayPasses, Fault, Busy, FilesInv, AgesOK
  <2> QED
    BY <1>2, <1>3, <2>2, <2>6, <2>7, <2>8, BaseParts, Zenon
<1>6. CASE Done \/ UNCHANGED vars
  <2>1. UNCHANGED <<repositoryVars, threadVars, reporter>>
    BY <1>6, Zenon DEF Done, vars
  <2>2. FilesInv' /\ UNCHANGED <<dayOld, hurt>>
    BY <2>1, RepositoryUnchanged, Zenon
  <2>3. ThreadInv' /\ IdleOK'
    BY <1>1, <1>2, <2>1, ThreadsUnchanged, Zenon DEF IdleOK, threadVars
  <2> QED
    BY <1>2, <1>3, <2>2, <2>3, BaseParts, Zenon
<1> QED
  BY <1>4, <1>5, <1>6, Zenon

(* A process dies.                                                         *)
LEMMA CrashStep ==
  ASSUME BaseInv, NEW p \in Processes, Crash(p)
  PROVE  BaseInv'
<1>1. FilesInv /\ StoreOK /\ JobTypeOK /\ JobsOK /\ OwnersLive /\ OwnedWhileStored /\ IdleOK /\ ThreadInv
  BY BaseParts, Zenon
<1>2. ThreadInv' /\ \A q \in Processes \ {p} : thread'[q] = thread[q]
  BY <1>1, UploadingInv, Zenon DEF Crash
<1>3. NewJob(p, NoJob)
  BY NoJobFacts, Zenon DEF Crash, RepositoryCrash, NewJob
<1>4. JobTypeOK' /\ JobsOK' /\ \A q \in Processes : job'[q] = IF q = p THEN NoJob ELSE job[q]
  BY <1>1, <1>3, NewJobInv, Zenon
<1>5. IdleOK'
  BY <1>1, <1>2, <1>4, Zenon DEF IdleOK
<1>6. FilesInv'
  <2>1. PlacesOK' /\ AgesOK'
    BY <1>1, Zenon DEF Crash, RepositoryCrash, files, FilesInv, PlacesOK, AgesOK
  <2>2. CountsOK'
    BY <1>1, Zenon DEF Crash, RepositoryCrash, FilesInv, CountsOK
  <2>3. FaultsOK'
    BY <1>1, RepositoryAssumption DEF Crash, RepositoryCrash, FilesInv, FaultsOK
  <2> QED
    BY <2>1, <2>2, <2>3, Zenon DEF FilesInv
<1>7. StoreOK'
  BY <1>1, Zenon DEF Crash, RepositoryCrash, StoreOK, StorePlaces
<1>8. OwnersLive' /\ OwnedWhileStored'
  BY <1>1, RepositoryAssumption, Zenon
    DEF Crash, RepositoryCrash, OwnersLive, OwnedWhileStored, StoreOK, StoreSteps, Storing,
        ThreadInv, ReporterOK
<1> QED
  BY <1>2, <1>4, <1>5, <1>6, <1>7, <1>8, BaseParts, Zenon

(* Every step keeps the base invariant.                                    *)
LEMMA BaseNext == BaseInv /\ [Next]_vars => BaseInv'
<1> SUFFICES ASSUME BaseInv, [Next]_vars PROVE BaseInv'
  BY Zenon
<1>1. ASSUME NEW p \in Processes, Create(p) \/ Shutdown(p) \/ ShutdownStep(p)
      PROVE  BaseInv'
  BY <1>1, LifeStep, Zenon
<1>2. ASSUME NEW p \in Processes, ThreadStep(p) PROVE BaseInv'
  BY <1>2, LifeStep, RunStep, UploadInv, Zenon DEF ThreadStep
<1>3. ASSUME NEW p \in Processes, WaitFails(p) PROVE BaseInv'
  BY <1>3, OtherStep, Zenon
<1>4. ASSUME NEW p \in Processes, Crash(p) PROVE BaseInv'
  BY <1>4, CrashStep, Zenon
<1>5. ASSUME NEW p \in Processes, NEW r \in Reports, SendReport(p, r) PROVE BaseInv'
  BY <1>5, SendStep, Zenon
<1>6. ASSUME NEW r \in Reports, Store(r) PROVE BaseInv'
  BY <1>6, StoreInv, Zenon
<1>7. ASSUME NEW r \in Reports, Elapse(r) PROVE BaseInv'
  BY <1>7, OtherStep, Zenon
<1>8. CASE Done \/ UNCHANGED vars
  BY <1>8, OtherStep, Zenon
<1> QED
  BY <1>1, <1>2, <1>3, <1>4, <1>5, <1>6, <1>7, <1>8, Zenon DEF Next

(* The base invariant holds in every state.                                *)
LEMMA BaseInvariant == Spec => []BaseInv
  BY BaseInit, BaseNext, PTL DEF Spec

(* The types of Kasko's state, and that an upload runs only in a thread    *)
(* that has called its uploader.                                           *)
THEOREM ReporterTypeCorrect == Spec => []TypeOK
<1>1. BaseInv => TypeOK
  BY Zenon DEF BaseInv, LifeInv
<1> QED
  BY <1>1, BaseInvariant, PTL

(* The uploader mutex lets one process upload at a time, whichever threads *)
(* end, fail or die with it.                                               *)
LEMMA OneUploaderFromBase == BaseInv => OneUploader
<1> SUFFICES ASSUME BaseInv, NEW p \in Processes, NEW q \in Processes,
                    job[p].step # "idle", job[q].step # "idle"
             PROVE  p = q
  BY Zenon DEF OneUploader
<1>1. thread[p] = "uploading" /\ thread[q] = "uploading"
  BY BaseParts, NoJobFacts, Zenon DEF IdleOK
<1> QED
  BY <1>1, BaseParts, Zenon DEF ThreadInv, ActiveHoldsMutex

(* Two processes are never in UploadPendingReport at the same time.        *)
THEOREM OneUploaderAtATime == Spec => []OneUploader
  BY OneUploaderFromBase, BaseInvariant, PTL

(* When Shutdown has returned, or the process has died, no upload and no   *)
(* StoreReport of that process is left.                                    *)
THEOREM RepositoryAlwaysOutlives == Spec => []RepositoryOutlivesUsers
<1>1. BaseInv => RepositoryOutlivesUsers
  <2> SUFFICES ASSUME BaseInv, NEW p \in Processes, reporter[p] = "down"
               PROVE  job[p] = NoJob /\ Storing(p) = {}
    BY Zenon DEF RepositoryOutlivesUsers
  <2>1. thread[p] = "exited"
    BY BaseParts, Zenon DEF ThreadInv, LifeOK
  <2>2. job[p] = NoJob
    BY <2>1, BaseParts, Zenon DEF IdleOK
  <2>3. Storing(p) = {}
    BY BaseParts, Zenon DEF OwnersLive, Storing
  <2> QED
    BY <2>2, <2>3, Zenon
<1> QED
  BY <1>1, BaseInvariant, PTL

-----------------------------------------------------------------------------
(* Stored reports are kept.  A step that leaves the files of r, its call   *)
(* of StoreReport and the upload at work on it alone keeps its invariant.  *)
ReportInv(r) == Coming(r) /\ Kept(r)
SameReport(r) ==
  /\ dump'[r] = dump[r] /\ keys'[r] = keys[r] /\ store'[r] = store[r]
  /\ uploads'[r] = uploads[r]
SameWorkers(r) ==
  \A q \in Processes : job'[q] = job[q] \/ (job[q].report # r /\ job'[q].report # r)

(* The frame of a report.                                                  *)
LEMMA ReportFrame ==
  ASSUME NEW r \in Reports, ReportInv(r), SameReport(r), SameWorkers(r),
         dayOld'[r] = dayOld[r] \/ store[r] # "move_dump"
  PROVE  ReportInv(r)'
<1>1. NoWorker(r)' <=> NoWorker(r)
  BY Zenon DEF NoWorker, SameWorkers
<1>2. \A q \in Processes : Tried(r, q) => Tried(r, q)'
  BY Zenon DEF SameWorkers, SameReport, Tried
<1>3. Whole(r) => Whole(r)'
  BY <1>1, Zenon DEF Whole, InRepository, SameReport
<1>4. Coming(r)'
  BY <1>1, Zenon DEF ReportInv, Coming, SameReport
<1>5. Kept(r)'
  BY <1>2, <1>3, Zenon DEF ReportInv, Kept, SameReport
<1> QED
  BY <1>4, <1>5, Zenon DEF ReportInv

(* A report that has been uploaded needs nothing more.                     *)
LEMMA UploadedIsKept ==
  ASSUME NEW r \in Reports, store'[r] \notin {"off", "write_keys", "move_dump"},
         uploads'[r] > 0
  PROVE  ReportInv(r)'
  BY Zenon DEF ReportInv, Coming, Kept

(* The other processes are idle while one uploads.                         *)
LEMMA OthersIdle ==
  ASSUME BaseInv, NEW p \in Processes, job[p].step # "idle"
  PROVE  \A q \in Processes \ {p} : job[q] = NoJob /\ job[q].report = None
<1>1. \A q \in Processes \ {p} : job[q].step = "idle"
  BY OneUploaderFromBase, Zenon DEF OneUploader
<1> QED
  BY <1>1, NoJobFacts, BaseParts, Zenon DEF JobsOK

(* So a report is whole, or the process that uploads is working on it.     *)
LEMMA KeptByUploader ==
  ASSUME BaseInv, NEW p \in Processes, job[p].step # "idle", NEW r \in Reports, ReportInv(r)
  PROVE  /\ NoWorker(r) <=> job[p].report # r
         /\ job[p].report = r => store[r] \notin {"off", "write_keys", "move_dump"}
         /\ store[r] \in {"touch_dump", "touch_keys", "stored"} /\ ~(uploads[r] > 0) =>
              Whole(r) \/ Tried(r, p)
<1>1. \A q \in Processes \ {p} : job[q].report = None
  BY OthersIdle, Zenon
<1>2. NoWorker(r) <=> job[p].report # r
  BY <1>1, RepositoryAssumption, Zenon DEF NoWorker
<1>3. job[p].report = r => store[r] \notin {"off", "write_keys", "move_dump"}
  BY <1>2, Zenon DEF ReportInv, Coming
<1>4. \A q \in Processes : Tried(r, q) => q = p
  BY <1>1, RepositoryAssumption, Zenon DEF Tried
<1> QED
  BY <1>2, <1>3, <1>4, Zenon DEF ReportInv, Kept

(* StoreReport begins.                                                     *)
LEMMA SendKept ==
  ASSUME BaseInv, NEW p \in Processes, NEW s \in Reports, SendReport(p, s),
         NEW r \in Reports \ hurt, ReportInv(r)
  PROVE  ReportInv(r)'
<1>1. UNCHANGED <<keys, dayOld, job, uploads>>
  BY Zenon DEF SendReport, StoreReport
<1>2. /\ store[s] = "off"
      /\ dump' = [dump EXCEPT ![s] = "Temporary"]
      /\ store' = [store EXCEPT ![s] = "write_keys"]
  BY Zenon DEF SendReport, StoreReport, StoreTo
<1>3. PlacesOK /\ StoreOK
  BY BaseParts, Zenon DEF FilesInv
<1>4. CASE r = s
  <2>1. dump'[r] = "Temporary" /\ store'[r] = "write_keys" /\ store[r] = "off"
    BY <1>2, <1>3, <1>4, Zenon DEF PlacesOK, StoreOK
  <2>2. keys'[r] = "None" /\ NoWorker(r)'
    BY <1>1, <2>1, Zenon DEF ReportInv, Coming, NoWorker
  <2> QED
    BY <2>1, <2>2, Zenon DEF ReportInv, Coming, Kept
<1>5. CASE r # s
  <2>1. SameReport(r) /\ SameWorkers(r)
    BY <1>1, <1>2, <1>3, <1>5, Zenon DEF SameReport, SameWorkers, PlacesOK, StoreOK
  <2> QED
    BY <1>1, <2>1, ReportFrame, Zenon
<1> QED
  BY <1>4, <1>5, Zenon

(* A step of StoreReport.                                                  *)
LEMMA StoreKept ==
  ASSUME BaseInv, NEW s \in Reports, Store(s), NEW r \in Reports \ hurt', r \notin hurt,
         ReportInv(r)
  PROVE  ReportInv(r)'
<1>1. UNCHANGED <<job, uploads>>
  BY Zenon DEF Store, StoreStep, WriteKeys, StoreMovesDump, StoreTouchesDump, StoreTouchesKeys,
         StoreDropsKeys, StoreDropsDump
<1>2. PlacesOK /\ AgesOK /\ StoreOK
  BY BaseParts, Zenon DEF FilesInv
<1>3. NoWorker(r)' <=> NoWorker(r)
  BY <1>1, Zenon DEF NoWorker
<1>4. CASE r # s
  <2>1. dump'[r] = dump[r] /\ keys'[r] = keys[r] /\ store'[r] = store[r] /\ dayOld'[r] = dayOld[r]
    BY <1>2, <1>4, Zenon DEF Store, StoreStep, WriteKeys, StoreMovesDump, StoreTouchesDump,
       StoreTouchesKeys, StoreDropsKeys, StoreDropsDump, PlacesOK, AgesOK, StoreOK, StoreTo,
       StoreEnds, MoveDump, LoggedDeleteDump, LoggedDeleteKeys
  <2>2. SameReport(r) /\ SameWorkers(r)
    BY <1>1, <2>1, Zenon DEF SameReport, SameWorkers
  <2> QED
    BY <2>1, <2>2, ReportFrame, Zenon
<1>5. CASE r = s
  <2>1. ~Fault(r)
    BY Zenon DEF Fault
  <2>2. CASE WriteKeys(r)
    <3>1. store[r] = "write_keys" /\ UNCHANGED dump
      BY <2>2, Zenon DEF WriteKeys
    <3>2. store'[r] = "move_dump" /\ keys'[r] = "Incoming" /\ ~dayOld'[r]
      BY <1>2, <2>1, <2>2, Zenon DEF WriteKeys, StoreTo, PlacesOK, AgesOK, StoreOK
    <3> QED
      BY <1>3, <3>1, <3>2, Zenon DEF ReportInv, Coming, Kept
  <2>3. CASE StoreMovesDump(r)
    <3>1. /\ store[r] = "move_dump" /\ UNCHANGED keys
          /\ store'[r] = "touch_dump" /\ dump'[r] = "Incoming"
      BY <1>2, <2>1, <2>3, Zenon DEF StoreMovesDump, MoveDump, StoreTo, PlacesOK, StoreOK
    <3>2. keys'[r] = "Incoming" /\ NoWorker(r)'
      BY <1>3, <3>1, Zenon DEF ReportInv, Coming
    <3>3. Whole(r)'
      BY <3>1, <3>2, Zenon DEF Whole, InRepository, Directories
    <3> QED
      BY <3>1, <3>3, Zenon DEF ReportInv, Coming, Kept
  <2>4. CASE StoreTouchesDump(r) \/ StoreTouchesKeys(r) \/ StoreDropsKeys(r) \/ StoreDropsDump(r)
    <3>1. CASE store'[r] \in {"touch_keys", "stored"} /\ UNCHANGED <<dump, keys>>
               /\ store[r] \in {"touch_dump", "touch_keys"}
      <4>1. Whole(r)' <=> Whole(r)
        BY <1>3, <3>1, Zenon DEF Whole, InRepository
      <4>2. \A q \in Processes : Tried(r, q)' <=> Tried(r, q)
        BY <1>1, <3>1, Zenon DEF Tried
      <4> QED
        BY <1>1, <3>1, <4>1, <4>2, Zenon DEF ReportInv, Coming, Kept
    <3>2. CASE store'[r] \in {"drop_keys", "drop_dump", "dropped"}
      BY <3>2, Zenon DEF ReportInv, Coming, Kept
    <3> QED
      BY <1>2, <2>4, <3>1, <3>2, Zenon
        DEF StoreTouchesDump, StoreTouchesKeys, StoreDropsKeys, StoreDropsDump, StoreTo,
            StoreEnds, StoreOK
  <2> QED
    BY <1>5, <2>2, <2>3, <2>4, Zenon DEF Store, StoreStep
<1> QED
  BY <1>4, <1>5, Zenon

(* What an upload step does to the reports other than its own.             *)
LEMMA OtherReports ==
  ASSUME BaseInv, NEW p \in Processes, NEW j, NewJob(p, j),
         NEW r \in Reports, ReportInv(r), SameReport(r),
         job[p].report # r, j.report # r,
         dayOld'[r] = dayOld[r] \/ store[r] # "move_dump"
  PROVE  ReportInv(r)'
<1>1. \A q \in Processes : job'[q] = IF q = p THEN j ELSE job[q]
  BY BaseParts, NewJobInv, Zenon
<1>2. SameWorkers(r)
  BY <1>1, Zenon DEF SameWorkers
<1> QED
  BY <1>2, ReportFrame, Zenon

(* CleanOrphanedCrashKeysFiles and GetPendingReport spare what is kept.    *)
LEMMA ScanKept ==
  ASSUME BaseInv, NEW p \in Processes, NEW r \in Reports \ hurt', ReportInv(r),
         \/ FindOrphan(p) \/ DeleteOrphan(p) \/ CleanDone(p)
         \/ DeleteOrphanedDump(p) \/ PickReport(p) \/ NextDirectory(p)
  PROVE  ReportInv(r)'
<1>1. PlacesOK /\ JobTypeOK /\ JobsOK
  BY BaseParts, Zenon DEF FilesInv
<1>2. UploadStep(p)
  BY Zenon DEF UploadStep
<1>3. PICK j : NewJob(p, j)
  BY <1>1, <1>2, UploadStepJob, Zenon
<1>4. job'[p] = j
  BY <1>1, <1>3, NewJobInv, Zenon
<1>5. UNCHANGED <<store, uploads, dayOld>>
  BY Zenon DEF FindOrphan, DeleteOrphan, CleanDone, DeleteOrphanedDump, PickReport, NextDirectory,
         files
<1>6. /\ job[p].step # "idle" /\ job[p].dir \in Directories
      /\ job[p].step \in {"clean", "scan"} => job[p].report = None
  BY <1>1, <1>2, UploadStepJob, ReportFacts, Zenon DEF LegalJob, NoReportSteps
<1>7. /\ NoWorker(r) <=> job[p].report # r
      /\ job[p].report = r => store[r] \notin {"off", "write_keys", "move_dump"}
      /\ store[r] \in {"touch_dump", "touch_keys", "stored"} /\ ~(uploads[r] > 0) =>
           Whole(r) \/ Tried(r, p)
  BY <1>6, KeptByUploader, Zenon
<1>8. CASE FindOrphan(p)
  <2>1. PICK s \in Reports, d \in Directories :
          Orphaned(s, d) /\ job' = [job EXCEPT ![p] = Job("orphan", d, s, @.seen \union {s})]
    BY <1>8, Zenon DEF FindOrphan
  <2>2. job[p].report = None /\ j.report = s
    BY <1>1, <1>4, <1>6, <1>8, <2>1, Zenon DEF FindOrphan, JobTypeOK, Job
  <2>3. SameReport(r)
    BY <1>5, <1>8, Zenon DEF SameReport, FindOrphan, files
  <2>4. CASE s # r
    BY <1>3, <1>5, <2>2, <2>3, <2>4, OtherReports, RepositoryAssumption, Zenon
  <2>5. CASE s = r
    <3>1. store[r] \notin {"off", "write_keys", "move_dump"}
      BY <2>1, <2>5, Zenon DEF Orphaned, ReportInv, Coming, Directories
    <3>2. ~Whole(r) /\ ~Tried(r, p)
      BY <2>1, <2>2, <2>5, RepositoryAssumption, Zenon
        DEF Orphaned, Whole, InRepository, Tried, Directories
    <3>3. store[r] \in {"touch_dump", "touch_keys", "stored"} => uploads[r] > 0
      BY <1>7, <3>2, Zenon
    <3> QED
      BY <1>5, <3>1, <3>3, Zenon DEF ReportInv, Coming, Kept
  <2> QED
    BY <2>4, <2>5, Zenon
<1>9. CASE DeleteOrphan(p)
  <2>1. /\ job[p].step = "orphan" /\ LoggedDeleteKeys(job[p].report, job[p].dir)
        /\ UNCHANGED dump /\ j.report = None
    BY <1>1, <1>4, <1>9, Zenon DEF DeleteOrphan, JobTypeOK, Job
  <2>2. CASE job[p].report # r
    <3>1. SameReport(r)
      BY <1>1, <1>5, <2>1, <2>2, Zenon DEF SameReport, LoggedDeleteKeys, PlacesOK
    <3> QED
      BY <1>3, <1>5, <2>1, <2>2, <3>1, OtherReports, RepositoryAssumption, Zenon
  <2>3. CASE job[p].report = r
    <3>1. ~Whole(r) /\ ~Tried(r, p)
      BY <1>7, <2>1, <2>3, Zenon DEF Whole, Tried, WholeSteps
    <3>2. store[r] \in {"touch_dump", "touch_keys", "stored"} => uploads[r] > 0
      BY <1>7, <3>1, Zenon
    <3> QED
      BY <1>5, <1>7, <2>3, <3>2, Zenon DEF ReportInv, Coming, Kept
  <2> QED
    BY <2>2, <2>3, Zenon
<1>10. CASE CleanDone(p) \/ NextDirectory(p)
  <2>1. job[p].report = None
    BY <1>6, <1>10, Zenon DEF CleanDone, NextDirectory
  <2>a. \/ j = NoJob \/ j = Job("scan", "Incoming", None, {})
        \/ j = Job("scan", NextOf[job[p].dir], None, {})
    BY <1>1, <1>4, <1>10, Zenon DEF CleanDone, NextDirectory, JobTypeOK
  <2>b. j.report = None
    <3>1. CASE j = NoJob
      BY <3>1, Zenon DEF NoJob, Job
    <3>2. ASSUME NEW d, j = Job("scan", d, None, {}) PROVE j.report = None
      BY <3>2, Zenon DEF Job
    <3> QED
      BY <2>a, <3>1, <3>2, Zenon
  <2>2. SameReport(r)
    BY <1>5, <1>10, Zenon DEF SameReport, CleanDone, NextDirectory, files
  <2> QED
    BY <1>3, <1>5, <2>1, <2>b, <2>2, OtherReports, RepositoryAssumption, Zenon
<1>11. CASE DeleteOrphanedDump(p)
  <2>1. PICK s \in Reports : /\ dump[s] = job[p].dir /\ keys[s] # job[p].dir
                             /\ LoggedDeleteDump(s, {job[p].dir})
    BY <1>11, Zenon DEF DeleteOrphanedDump
  <2>a. job[p].report = None /\ UNCHANGED keys
    BY <1>6, <1>11, Zenon DEF DeleteOrphanedDump
  <2>b. \E seen : j = Job("scan", job[p].dir, None, seen)
    BY <1>1, <1>4, <1>11, Zenon DEF DeleteOrphanedDump, JobTypeOK
  <2>c. PICK seen : j = Job("scan", job[p].dir, None, seen)
    BY <2>b, Zenon
  <2>d. j.report = None
    BY <2>c, Zenon DEF Job
  <2>2. job[p].report = None /\ j.report = None /\ UNCHANGED keys
    BY <2>a, <2>d, Zenon
  <2>3. CASE s # r
    <3>1. SameReport(r)
      BY <1>1, <1>5, <2>1, <2>2, <2>3, Zenon DEF SameReport, LoggedDeleteDump, PlacesOK
    <3> QED
      BY <1>3, <1>5, <2>2, <3>1, OtherReports, RepositoryAssumption, Zenon
  <2>4. CASE s = r
    <3>1. store[r] \notin {"off", "write_keys", "move_dump"}
      BY <1>6, <2>1, <2>4, Zenon DEF ReportInv, Coming, Directories
    <3>2. ~Whole(r) /\ ~Tried(r, p)
      BY <1>6, <2>1, <2>2, <2>4, RepositoryAssumption, Zenon DEF Whole, InRepository, Tried, Directories
    <3>3. store[r] \in {"touch_dump", "touch_keys", "stored"} => uploads[r] > 0
      BY <1>7, <3>2, Zenon
    <3> QED
      BY <1>5, <3>1, <3>3, Zenon DEF ReportInv, Coming, Kept
  <2> QED
    BY <2>3, <2>4, Zenon
<1>12. CASE PickReport(p)
  <2>1. PICK s \in Reports :
          Eligible(s, job[p].dir) /\ job' = [job EXCEPT ![p] = Job("touch_dump", @.dir, s, {})]
    BY <1>12, Zenon DEF PickReport
  <2>2. /\ job[p].report = None /\ j.report = s /\ j.step = "touch_dump" /\ j.dir = job[p].dir
        /\ UNCHANGED <<dump, keys>>
    BY <1>1, <1>4, <1>6, <1>12, <2>1, Zenon DEF PickReport, JobTypeOK, Job, files
  <2>3. CASE s # r
    <3>1. SameReport(r)
      BY <1>5, <2>2, Zenon DEF SameReport
    <3> QED
      BY <1>3, <1>5, <2>2, <2>3, <3>1, OtherReports, RepositoryAssumption, Zenon
  <2>4. CASE s = r
    <3>1. Tried(r, p)'
      BY <1>4, <2>1, <2>2, <2>4, Zenon DEF Tried, WholeSteps, Eligible
    <3>2. store[r] \notin {"off", "write_keys", "move_dump"}
      BY <1>6, <2>1, <2>4, Zenon DEF ReportInv, Coming, Directories, Eligible
    <3> QED
      BY <1>5, <3>1, <3>2, Zenon DEF ReportInv, Coming, Kept
  <2> QED
    BY <2>3, <2>4, Zenon
<1> QED
  BY <1>8, <1>9, <1>10, <1>11, <1>12, Zenon

(* The upload of one report: it stays whole up to the move of its          *)
(* minidump, and the move of its crash keys makes it whole again.          *)
LEMMA TryKept ==
  ASSUME BaseInv, NEW p \in Processes, NEW r \in Reports \ hurt', ReportInv(r),
         job[p].report = r,
         \/ TouchDump(p) \/ TouchKeys(p) \/ Upload(p) \/ MovesDump(p) \/ MovesKeys(p)
         \/ RestDump(p) \/ RestKeys(p) \/ DropKeys(p) \/ DropDump(p)
  PROVE  ReportInv(r)'
<1>1. PlacesOK /\ CountsOK /\ JobTypeOK /\ JobsOK
  BY BaseParts, Zenon DEF FilesInv
<1>2. job[p].step # "idle" /\ UNCHANGED store /\ job[p].dir \in Directories
  BY <1>1, ReportFacts, Zenon
    DEF TouchDump, TouchKeys, Upload, MovesDump, MovesKeys, RestDump, RestKeys, DropKeys,
        DropDump
<1>3. store[r] \notin {"off", "write_keys", "move_dump"}
  BY <1>2, KeptByUploader, Zenon
<1>4. UNCHANGED uploads \/ uploads' = [uploads EXCEPT ![r] = @ + 1]
  BY Zenon DEF TouchDump, TouchKeys, Upload, MovesDump, MovesKeys, RestDump, RestKeys, DropKeys,
         DropDump
<1>5. CASE uploads[r] > 0
  <2>1. uploads'[r] > 0
    BY <1>1, <1>4, <1>5 DEF CountsOK
  <2> QED
    BY <1>2, <1>3, <2>1, UploadedIsKept, Zenon
<1>6. CASE store[r] \notin {"touch_dump", "touch_keys", "stored"}
  BY <1>2, <1>3, <1>6, Zenon DEF ReportInv, Coming, Kept
<1>7. CASE ~(uploads[r] > 0) /\ store[r] \in {"touch_dump", "touch_keys", "stored"}
  <2>1. Tried(r, p)
    BY <1>2, <1>7, KeptByUploader, Zenon DEF Whole
  <2>2. ~Fault(r) /\ keys[r] = job[p].dir
    BY <2>1, Zenon DEF Fault, Tried
  <2>3. CASE TouchDump(p) \/ TouchKeys(p)
    <3>1. /\ UNCHANGED <<dump, keys>> /\ dump[r] = job[p].dir
          /\ \E step \in {"touch_keys", "upload"} : Goto(p, step)
      BY <2>1, <2>2, <2>3, Zenon DEF TouchDump, TouchKeys, Fails, Tried, WholeSteps
    <3>2. Tried(r, p)'
      BY <1>1, <2>2, <3>1, GotoFacts, Zenon DEF Tried, WholeSteps, UploadSteps
    <3> QED
      BY <1>2, <1>3, <3>2, Zenon DEF ReportInv, Coming, Kept
  <2>4. CASE Upload(p)
    <3>1. CASE uploads' = [uploads EXCEPT ![r] = @ + 1]
      <4>1. uploads'[r] > 0
        BY <1>1, <3>1 DEF CountsOK
      <4> QED
        BY <1>2, <1>3, <4>1, UploadedIsKept, Zenon
    <3>2. CASE Goto(p, "move_dump")
      <4>1. UNCHANGED <<dump, keys>> /\ dump[r] = job[p].dir
        BY <2>1, <2>4, Zenon DEF Upload, files, Tried, WholeSteps
      <4>2. Tried(r, p)'
        BY <1>1, <2>2, <3>2, <4>1, GotoFacts, Zenon DEF Tried, WholeSteps, UploadSteps
      <4> QED
        BY <1>2, <1>3, <4>2, Zenon DEF ReportInv, Coming, Kept
    <3> QED
      BY <2>4, <3>1, <3>2, Zenon DEF Upload
  <2>5. CASE MovesDump(p)
    <3>1. MoveDump(r, job[p].dir, FailureDestination(job[p].dir)) /\ Goto(p, "move_keys") /\ UNCHANGED keys
      BY <2>1, <2>2, <2>5, Zenon DEF MovesDump, Fails, Tried, WholeSteps
    <3>2. Tried(r, p)'
      BY <1>1, <2>2, <3>1, GotoFacts, Zenon DEF MoveDump, PlacesOK, Tried, WholeSteps, UploadSteps
    <3> QED
      BY <1>2, <1>3, <3>2, Zenon DEF ReportInv, Coming, Kept
  <2>6. CASE MovesKeys(p)
    <3>1. /\ MoveKeys(r, job[p].dir, FailureDestination(job[p].dir)) /\ UNCHANGED dump
          /\ job' = [job EXCEPT ![p] = NoJob] /\ dump[r] = FailureDestination(job[p].dir)
      BY <2>1, <2>2, <2>6, Zenon DEF MovesKeys, Fails, Tried, WholeSteps
    <3>2. dump'[r] = FailureDestination(job[p].dir) /\ keys'[r] = FailureDestination(job[p].dir)
      BY <1>1, <3>1, Zenon DEF MoveKeys, PlacesOK
    <3>3. FailureDestination(job[p].dir) \in Directories \union {"Failed"}
      BY <1>2, DestinationFacts, Zenon DEF Directories
    <3>4. \A q \in Processes : job'[q].report = None
      BY <1>1, <1>2, <3>1, OthersIdle, NoJobFacts, Zenon DEF JobTypeOK
    <3>5. Whole(r)'
      BY <3>2, <3>3, <3>4, RepositoryAssumption, Zenon DEF Whole, InRepository, NoWorker
    <3> QED
      BY <1>2, <1>3, <3>5, Zenon DEF ReportInv, Coming, Kept
  <2>7. ~(RestDump(p) \/ RestKeys(p) \/ DropKeys(p) \/ DropDump(p))
    BY <2>1, Zenon DEF RestDump, RestKeys, DropKeys, DropDump, Tried, WholeSteps
  <2> QED
    BY <2>3, <2>4, <2>5, <2>6, <2>7, Zenon
<1> QED
  BY <1>5, <1>6, <1>7, Zenon

(* It does nothing to the other reports.                                   *)
LEMMA TrySpares ==
  ASSUME BaseInv, NEW p \in Processes, NEW r \in Reports, ReportInv(r),
         job[p].report # r,
         \/ TouchDump(p) \/ TouchKeys(p) \/ Upload(p) \/ MovesDump(p) \/ MovesKeys(p)
         \/ RestDump(p) \/ RestKeys(p) \/ DropKeys(p) \/ DropDump(p)
  PROVE  ReportInv(r)'
<1>1. PlacesOK /\ AgesOK /\ CountsOK /\ JobTypeOK /\ JobsOK
  BY BaseParts, Zenon DEF FilesInv
<1>2. UploadStep(p) /\ UNCHANGED store
  BY Zenon DEF UploadStep, TouchDump, TouchKeys, Upload, MovesDump, MovesKeys, RestDump, RestKeys,
         DropKeys, DropDump
<1>3. PICK j : NewJob(p, j)
  BY <1>1, <1>2, UploadStepJob, Zenon
<1>4. job'[p] = j
  BY <1>1, <1>3, NewJobInv, Zenon
<1>5. j.report # r
  <2>1. CASE \E step \in UploadSteps : Goto(p, step)
    BY <1>1, <1>4, <2>1, GotoFacts, Zenon
  <2>2. CASE job' = [job EXCEPT ![p] = NoJob]
    BY <1>1, <1>4, <2>2, NoJobFacts, RepositoryAssumption, Zenon DEF JobTypeOK
  <2> QED
    BY <2>1, <2>2, Zenon DEF TouchDump, TouchKeys, Upload, MovesDump, MovesKeys, RestDump, RestKeys,
       DropKeys, DropDump, UploadSteps
<1>6. dump'[r] = dump[r] /\ keys'[r] = keys[r]
  BY <1>1, Zenon DEF TouchDump, TouchKeys, Upload, files, MovesDump, MovesKeys, MoveDump, MoveKeys,
     RestDump, RestKeys, DropKeys, DropDump, LoggedDeleteDump, LoggedDeleteKeys, PlacesOK
<1>7. dayOld'[r] = dayOld[r] /\ uploads'[r] = uploads[r]
  BY <1>1, Zenon DEF TouchDump, TouchKeys, Upload, files, MovesDump, MovesKeys, RestDump, RestKeys,
     DropKeys, DropDump, AgesOK, CountsOK
<1>8. SameReport(r)
  BY <1>2, <1>6, <1>7, Zenon DEF SameReport
<1> QED
  BY <1>3, <1>5, <1>7, <1>8, OtherReports, Zenon

(* A death of the uploading process hurts a report whose files are apart.  *)
LEMMA CrashKept ==
  ASSUME BaseInv, NEW p \in Processes, Crash(p), NEW r \in Reports \ hurt', ReportInv(r)
  PROVE  ReportInv(r)'
<1>1. JobTypeOK /\ JobsOK /\ StoreOK
  BY BaseParts, Zenon
<1>2. UNCHANGED <<dump, keys, dayOld, uploads>>
  BY Zenon DEF Crash, RepositoryCrash, files
<1>3. NewJob(p, NoJob) /\ NoJob.report = None
  BY NoJobFacts, Zenon DEF Crash, RepositoryCrash, NewJob
<1>4. \A q \in Processes : job'[q] = IF q = p THEN NoJob ELSE job[q]
  BY <1>1, <1>3, NewJobInv, Zenon
<1>5. store'[r] = "cut" \/ store'[r] = store[r]
  BY Zenon DEF Crash, RepositoryCrash
<1>6. CASE store'[r] = "cut"
  BY <1>6, Zenon DEF ReportInv, Coming, Kept
<1>7. CASE store'[r] = store[r] /\ job[p].report # r
  <2>1. SameReport(r)
    BY <1>2, <1>7, Zenon DEF SameReport
  <2> QED
    BY <1>2, <1>3, <1>7, <2>1, OtherReports, RepositoryAssumption, Zenon
<1>8. CASE store'[r] = store[r] /\ job[p].report = r
  <2>1. dump[r] = keys[r]
    BY <1>8, Zenon DEF Crash, RepositoryCrash
  <2>2. job[p].step # "idle" /\ job[p].dir \in Directories
    BY <1>1, <1>8, ReportFacts, RepositoryAssumption, Zenon DEF JobsOK, NoReportSteps
  <2>3. /\ store[r] \notin {"off", "write_keys", "move_dump"}
        /\ store[r] \in {"touch_dump", "touch_keys", "stored"} /\ ~(uploads[r] > 0) =>
             Whole(r) \/ Tried(r, p)
    BY <1>8, <2>2, KeptByUploader, Zenon
  <2>4. ~Whole(r)
    BY <1>8, Zenon DEF Whole, NoWorker
  <2>5. \A q \in Processes : job'[q].report = None
    BY <1>3, <1>4, <2>2, OthersIdle, Zenon
  <2>6. Tried(r, p) => Whole(r)'
    BY <1>2, <2>1, <2>2, <2>5, DestinationFacts, RepositoryAssumption, Zenon
      DEF Tried, Whole, InRepository, NoWorker
  <2> QED
    BY <1>2, <1>8, <2>3, <2>4, <2>6, Zenon DEF ReportInv, Coming, Kept
<1> QED
  BY <1>5, <1>6, <1>7, <1>8, Zenon

(* No file operation forgets that a report was hurt.                       *)
LEMMA HurtStays == ASSUME [Next]_vars PROVE hurt \subseteq hurt'
<1>1. ASSUME NEW p \in Processes, ThreadStep(p) PROVE hurt \subseteq hurt'
  BY <1>1, Zenon DEF ThreadStep, repositoryVars, RunUploader, UploadPendingReport, UploadStep,
     FindOrphan, DeleteOrphan, CleanDone, DeleteOrphanedDump, PickReport, NextDirectory,
     TouchDump, TouchKeys, Upload, MovesDump, MovesKeys, RestDump, RestKeys, DropKeys, DropDump,
     ReturnFromUploader, Fails, MoveDump, MoveKeys, LoggedDeleteDump, LoggedDeleteKeys, NoFault,
     Fault
<1>2. ASSUME NEW r \in Reports, Store(r) \/ Elapse(r) PROVE hurt \subseteq hurt'
  BY <1>2, Zenon DEF Store, StoreStep, WriteKeys, StoreMovesDump, StoreTouchesDump, StoreTouchesKeys,
     StoreDropsKeys, StoreDropsDump, Elapse, RetryIntervalPasses, DayPasses, Fails, MoveDump,
     LoggedDeleteDump, LoggedDeleteKeys, NoFault, Fault
<1>3. ASSUME NEW p \in Processes,
             \/ Create(p) \/ Shutdown(p) \/ ShutdownStep(p) \/ WaitFails(p) \/ Crash(p)
             \/ \E r \in Reports : SendReport(p, r)
      PROVE  hurt \subseteq hurt'
  BY <1>3, Zenon DEF Create, Shutdown, ShutdownStep, StopListening, WaitServerListenAndJoin, WaitFails,
     Crash, RepositoryCrash, SendReport, StoreReport, repositoryVars
<1>4. CASE Done \/ UNCHANGED vars
  BY <1>4, Zenon DEF Done, vars, repositoryVars
<1> QED
  BY <1>1, <1>2, <1>3, <1>4, Zenon DEF Next

(* Every step keeps the invariant of a report that is not hurt.            *)
LEMMA KeptStep ==
  ASSUME BaseInv, [Next]_vars, NEW r \in Reports \ hurt', r \notin hurt, ReportInv(r)
  PROVE  ReportInv(r)'
<1>1. CASE UNCHANGED <<dump, keys, store, uploads, job>>
           /\ (dayOld'[r] # dayOld[r] => owner[r] = None)
  <2>1. SameReport(r) /\ SameWorkers(r)
    BY <1>1, Zenon DEF SameReport, SameWorkers
  <2>2. store[r] = "move_dump" => owner[r] # None
    BY BaseParts, Zenon DEF OwnedWhileStored, StoreSteps
  <2> QED
    BY <1>1, <2>1, <2>2, ReportFrame, Zenon
<1>2. ASSUME NEW p \in Processes,
             \/ Create(p) \/ Shutdown(p) \/ ShutdownStep(p)
             \/ (AcquireMutex(p) \/ StopSeen(p)) /\ UNCHANGED <<repositoryVars, reporter>>
             \/ ReturnFromUploader(p)
      PROVE  ReportInv(r)'
  BY <1>1, <1>2, LifeStep, RepositoryUnchanged, Zenon
<1>3. ASSUME NEW p \in Processes, RunUploader(p) PROVE ReportInv(r)'
  <2>1. /\ UNCHANGED <<dump, keys, dayOld, store, uploads>>
        /\ job' = [job EXCEPT ![p] = job'[p]] /\ job'[p].report = None /\ job[p].report = None
    BY <1>3, RunStep, Zenon
  <2>2. SameReport(r)
    BY <2>1, Zenon DEF SameReport
  <2>3. SameWorkers(r)
    BY <2>1, BaseParts, RepositoryAssumption, Zenon DEF SameWorkers, JobTypeOK
  <2> QED
    BY <2>1, <2>2, <2>3, ReportFrame, Zenon
<1>4. ASSUME NEW p \in Processes, UploadStep(p) PROVE ReportInv(r)'
  BY <1>4, ScanKept, TryKept, TrySpares, Zenon DEF UploadStep
<1>5. ASSUME NEW p \in Processes, Crash(p) PROVE ReportInv(r)'
  BY <1>5, CrashKept, Zenon
<1>6. ASSUME NEW p \in Processes, NEW s \in Reports, SendReport(p, s) PROVE ReportInv(r)'
  BY <1>6, SendKept, Zenon
<1>7. ASSUME NEW s \in Reports, Store(s) PROVE ReportInv(r)'
  BY <1>7, StoreKept, Zenon
<1>8. CASE \/ \E p \in Processes : WaitFails(p)
           \/ \E s \in Reports : Elapse(s)
           \/ Done \/ UNCHANGED vars
  BY <1>1, <1>8, OtherStep, Zenon
<1> QED
  BY <1>2, <1>3, <1>4, <1>5, <1>6, <1>7, <1>8, Zenon DEF Next, ThreadStep

(* The inductive invariant holds in every state.                           *)
LEMMA KeptInvariant == Spec => []KeptInv
<1>1. Init => KeptInv
  <2> SUFFICES ASSUME Init, NEW r \in Reports PROVE Coming(r) /\ Kept(r)
    BY BaseInit, Zenon DEF KeptInv
  <2>1. NoWorker(r)
    BY NoJobFacts, RepositoryAssumption, Zenon DEF Init, RepositoryInit, NoWorker
  <2> QED
    BY <2>1, Zenon DEF Init, RepositoryInit, Coming, Kept
<1>2. KeptInv /\ [Next]_vars => KeptInv'
  <2> SUFFICES ASSUME KeptInv, [Next]_vars PROVE KeptInv'
    BY Zenon
  <2>1. BaseInv'
    BY BaseNext, Zenon DEF KeptInv
  <2>2. ASSUME NEW r \in Reports \ hurt' PROVE ReportInv(r)'
    <3>1. r \notin hurt /\ ReportInv(r)
      BY HurtStays, Zenon DEF KeptInv, ReportInv
    <3> QED
      BY <3>1, KeptStep, Zenon DEF KeptInv
  <2> QED
    BY <2>1, <2>2, Zenon DEF KeptInv, ReportInv
<1> QED
  BY <1>1, <1>2, PTL DEF Spec

(* No stored report is lost: it is whole in the repository, being tried,   *)
(* uploaded or in the permanent failure directory, for any number of       *)
(* reports, processes and faults, unless a fault concerned it.             *)
THEOREM StoredReportsAreAlwaysKept == Spec => []StoredReportsAreKept
<1>1. KeptInv => StoredReportsAreKept
  BY Zenon DEF KeptInv, Kept, Whole, Tried, StoredReportsAreKept, Working
<1> QED
  BY <1>1, KeptInvariant, PTL

-----------------------------------------------------------------------------
(* How often Kasko tries to upload a report.  The directory of the         *)
(* minidump counts the attempts: each moves it on, and a fault that keeps  *)
(* it back pays for one more.                                              *)

(* The attempts a minidump in this place may have behind it.               *)
Rank(place) ==
  IF place = "Retry" THEN 1
  ELSE IF place = "Retry 2" THEN 2
  ELSE IF place \in {"None", "Failed"} THEN 3 ELSE 0

(* The steps before the attempt, those after it that have yet to move or   *)
(* to delete the minidump, and those that delete it.                       *)
Trying == {"touch_dump", "touch_keys", "upload"}
Dropping == {"drop_keys", "drop_dump"}
Owing == Dropping \union {"move_dump"}
At(p, r, steps) == job[p].report = r /\ job[p].step \in steps
Rests(r, steps) == \A p \in Processes : ~At(p, r, steps)

(* Before StoreReport there is nothing to upload.                          *)
Unborn(r) ==
  store[r] = "off" =>
    /\ dump[r] = "None" /\ keys[r] = "None" /\ NoWorker(r)
    /\ attempts[r] = 0 /\ uploads[r] = 0

(* While a process tries the report its minidump stays, or somebody else   *)
(* deletes it.                                                             *)
Tracked(r) ==
  \A p \in Processes :
    /\ At(p, r, Trying \union Owing) => dump[r] \in {job[p].dir, "None"}
    /\ At(p, r, Trying) => attempts[r] <= Rank(job[p].dir) + faults
    /\ At(p, r, Owing) => attempts[r] <= Rank(job[p].dir) + 1 + faults

Counted(r) ==
  /\ Rests(r, Owing) => attempts[r] <= Rank(dump[r]) + faults
  /\ Rests(r, Dropping) => uploads[r] <= faults \/ dump[r] = "None"
  /\ uploads[r] <= 1 + faults

(* The inductive invariant.                                                *)
AttemptInv(r) == Unborn(r) /\ Tracked(r) /\ Counted(r)
AttemptsInv == \A r \in Reports : AttemptInv(r)

-----------------------------------------------------------------------------
(* The ranks of the places, and that a move raises the rank by one.        *)
LEMMA RankFacts ==
  /\ \A place : Rank(place) \in Nat /\ Rank(place) <= 3
  /\ \A d \in Directories : Rank(d) \in Nat /\ Rank(d) <= 2 /\ d # "None"
  /\ \A d \in Directories :
       Rank(FailureDestination(d)) = Rank(d) + 1 /\ FailureDestination(d) # "None"
  /\ Rank("None") = 3 /\ Rank("Temporary") = 0 /\ Rank("Incoming") = 0
<1>1. /\ \A place : Rank(place) \in Nat /\ Rank(place) <= 3
      /\ \A d \in Directories : Rank(d) \in Nat /\ Rank(d) <= 2 /\ d # "None"
      /\ Rank("None") = 3 /\ Rank("Temporary") = 0 /\ Rank("Incoming") = 0
  BY DEF Rank, Directories
<1>2. /\ Rank("Retry") = Rank("Incoming") + 1 /\ Rank("Retry 2") = Rank("Retry") + 1
      /\ Rank("Failed") = Rank("Retry 2") + 1
  BY DEF Rank
<1>3. \A d \in Directories :
        Rank(FailureDestination(d)) = Rank(d) + 1 /\ FailureDestination(d) # "None"
  BY <1>2, DestinationFacts, Zenon DEF Directories
<1> QED
  BY <1>1, <1>3, Zenon

(* The numbers of the model.                                               *)
LEMMA CountTypes ==
  ASSUME BaseInv, NEW r \in Reports
  PROVE  attempts[r] \in Nat /\ uploads[r] \in Nat /\ faults \in Nat
  BY BaseParts, RepositoryAssumption DEF FilesInv, CountsOK, FaultsOK

(* A step that leaves the minidump, the counters and the workers of r      *)
(* alone keeps its invariant, whatever fault it counts.                    *)
SameCounts(r) ==
  /\ attempts'[r] = attempts[r] /\ uploads'[r] = uploads[r]
  /\ faults' \in Nat /\ faults <= faults'

SameFiles(r) ==
  /\ dump'[r] = dump[r] \/ (dump'[r] = "None" /\ store[r] # "off")
  /\ store'[r] = "off" => store[r] = "off" /\ keys'[r] = keys[r]

(* The frame of a report's counters.                                       *)
LEMMA CountFrame ==
  ASSUME BaseInv, NEW r \in Reports, AttemptInv(r), SameCounts(r), SameWorkers(r), SameFiles(r)
  PROVE  AttemptInv(r)'
<1>1. \A steps : \A q \in Processes : At(q, r, steps)' <=> At(q, r, steps)
  BY Zenon DEF SameWorkers, At
<1>2. \A q \in Processes : job'[q].report = r => job'[q] = job[q]
  BY Zenon DEF SameWorkers
<1>3. attempts[r] \in Nat /\ uploads[r] \in Nat /\ faults \in Nat
  BY CountTypes, Zenon
<1>4. Unborn(r)'
  BY <1>2, Zenon DEF AttemptInv, Unborn, SameCounts, SameFiles, NoWorker
<1>5. Tracked(r)'
  <2> SUFFICES ASSUME NEW q \in Processes
               PROVE  /\ At(q, r, Trying \union Owing)' => dump'[r] \in {job'[q].dir, "None"}
                      /\ At(q, r, Trying)' => attempts'[r] <= Rank(job'[q].dir) + faults'
                      /\ At(q, r, Owing)' => attempts'[r] <= Rank(job'[q].dir) + 1 + faults'
    BY Zenon DEF Tracked
  <2>1. /\ At(q, r, Trying \union Owing) => dump[r] \in {job[q].dir, "None"}
        /\ At(q, r, Trying) => attempts[r] <= Rank(job[q].dir) + faults
        /\ At(q, r, Owing) => attempts[r] <= Rank(job[q].dir) + 1 + faults
    BY Zenon DEF AttemptInv, Tracked
  <2>2. job'[q].report = r => job'[q].dir = job[q].dir
    BY <1>2, Zenon
  <2>3. Rank(job[q].dir) \in Nat
    BY RankFacts, Zenon
  <2>4. At(q, r, Trying \union Owing)' => dump'[r] \in {job'[q].dir, "None"}
    BY <1>1, <2>1, <2>2, Zenon DEF At, SameFiles
  <2>5. At(q, r, Trying)' => attempts'[r] <= Rank(job'[q].dir) + faults'
    BY <1>1, <1>3, <2>1, <2>2, <2>3 DEF SameCounts, At
  <2>6. At(q, r, Owing)' => attempts'[r] <= Rank(job'[q].dir) + 1 + faults'
    BY <1>1, <1>3, <2>1, <2>2, <2>3 DEF SameCounts, At
  <2> QED
    BY <2>4, <2>5, <2>6, Zenon
<1>6. Counted(r)'
  <2>1. \A steps : Rests(r, steps)' <=> Rests(r, steps)
    BY <1>1, Zenon DEF Rests
  <2>2. /\ Rank(dump[r]) \in Nat /\ Rank(dump[r]) <= 3
        /\ Rank(dump'[r]) \in Nat /\ Rank(dump'[r]) <= 3 /\ Rank("None") = 3
    BY RankFacts, Zenon
  <2>3. Rests(r, Owing)' => attempts'[r] <= Rank(dump'[r]) + faults'
    BY <1>3, <2>1, <2>2 DEF AttemptInv, Counted, SameCounts, SameFiles
  <2>4. Rests(r, Dropping)' => uploads'[r] <= faults' \/ dump'[r] = "None"
    BY <1>3, <2>1 DEF AttemptInv, Counted, SameCounts, SameFiles
  <2>5. uploads'[r] <= 1 + faults'
    BY <1>3 DEF AttemptInv, Counted, SameCounts
  <2> QED
    BY <2>3, <2>4, <2>5, Zenon DEF Counted
<1> QED
  BY <1>4, <1>5, <1>6, Zenon DEF AttemptInv

-----------------------------------------------------------------------------
(* While p uploads, the invariant of a report speaks of the job of p only. *)
Local(r, step, dir, worker, place, tried, sent, lost) ==
  /\ worker = r /\ step \in Trying \union Owing => place \in {dir, "None"}
  /\ worker = r /\ step \in Trying => tried <= Rank(dir) + lost
  /\ worker = r /\ step \in Owing => tried <= Rank(dir) + 1 + lost
  /\ ~(worker = r /\ step \in Owing) => tried <= Rank(place) + lost
  /\ ~(worker = r /\ step \in Dropping) => sent <= lost \/ place = "None"
  /\ sent <= 1 + lost

LocalInv(p, r) ==
  Local(r, job[p].step, job[p].dir, job[p].report, dump[r], attempts[r], uploads[r], faults)

(* The invariant, read for the process that uploads.                       *)
LEMMA LocalFromInv ==
  ASSUME BaseInv, NEW p \in Processes, job[p].step # "idle", NEW r \in Reports, AttemptInv(r)
  PROVE  /\ LocalInv(p, r)
         /\ job[p].report = r => store[r] # "off"
<1>1. \A q \in Processes \ {p} : job[q].report # r
  BY OthersIdle, RepositoryAssumption, Zenon
<1>2. \A steps : Rests(r, steps) <=> ~At(p, r, steps)
  BY <1>1, Zenon DEF Rests, At
<1>3. job[p].report = r => store[r] # "off"
  BY Zenon DEF AttemptInv, Unborn, NoWorker
<1>4. LocalInv(p, r)
  BY <1>2, Zenon DEF LocalInv, Local, AttemptInv, Tracked, Counted, At
<1> QED
  BY <1>3, <1>4, Zenon

(* And back, after a step of that process.                                 *)
LEMMA InvFromLocal ==
  ASSUME BaseInv, NEW p \in Processes, job[p].step # "idle", NEW j, NewJob(p, j),
         NEW r \in Reports, Unborn(r)', LocalInv(p, r)'
  PROVE  AttemptInv(r)'
<1>1. \A q \in Processes : job'[q] = IF q = p THEN j ELSE job[q]
  BY BaseParts, NewJobInv, Zenon
<1>2. \A q \in Processes \ {p} : job'[q].report # r
  BY <1>1, OthersIdle, RepositoryAssumption, Zenon
<1>3. \A steps : Rests(r, steps)' <=> ~At(p, r, steps)'
  BY <1>2, Zenon DEF Rests, At
<1>4. Counted(r)'
  BY <1>3, Zenon DEF LocalInv, Local, Counted, At
<1>5. Tracked(r)'
  BY <1>2, Zenon DEF LocalInv, Local, Tracked, At
<1> QED
  BY <1>4, <1>5, Zenon DEF AttemptInv

-----------------------------------------------------------------------------
(* Faults are counted and never forgotten.                                 *)
LEMMA FaultsGrow ==
  ASSUME BaseInv, [Next]_vars PROVE faults' \in Nat /\ faults <= faults'
<1>1. faults \in Nat
  BY BaseParts, RepositoryAssumption DEF FilesInv, FaultsOK
<1>2. ASSUME faults' = faults \/ faults' = faults + 1
      PROVE  faults' \in Nat /\ faults <= faults'
  BY <1>1, <1>2
<1>3. ASSUME NEW p \in Processes, UploadStep(p) PROVE faults' = faults \/ faults' = faults + 1
  <2> USE DEF NoFault, Fault
  <2>1. CASE FindOrphan(p) \/ CleanDone(p) \/ PickReport(p) \/ NextDirectory(p) \/ Upload(p)
    BY <2>1, Zenon DEF FindOrphan, CleanDone, PickReport, NextDirectory, Upload
  <2>2. CASE DeleteOrphan(p) \/ RestKeys(p) \/ DropKeys(p)
    BY <2>2, Zenon DEF DeleteOrphan, RestKeys, DropKeys, LoggedDeleteKeys
  <2>3. CASE DeleteOrphanedDump(p) \/ RestDump(p) \/ DropDump(p)
    BY <2>3, Zenon DEF DeleteOrphanedDump, RestDump, DropDump, LoggedDeleteDump
  <2>4. CASE TouchDump(p) \/ TouchKeys(p)
    BY <2>4, Zenon DEF TouchDump, TouchKeys, Fails
  <2>5. CASE MovesDump(p) \/ MovesKeys(p)
    BY <2>5, Zenon DEF MovesDump, MovesKeys, MoveDump, MoveKeys, Fails
  <2> QED
    BY <1>3, <2>1, <2>2, <2>3, <2>4, <2>5, Zenon DEF UploadStep
<1>4. ASSUME NEW p \in Processes, ThreadStep(p), ~UploadStep(p) PROVE faults' = faults
  BY <1>4, Zenon DEF ThreadStep, repositoryVars, RunUploader, UploadPendingReport, ReturnFromUploader
<1>5. ASSUME NEW r \in Reports, Store(r) \/ Elapse(r)
      PROVE  faults' = faults \/ faults' = faults + 1
  BY <1>5, Zenon DEF Store, StoreStep, WriteKeys, StoreMovesDump, StoreTouchesDump, StoreTouchesKeys,
     StoreDropsKeys, StoreDropsDump, Elapse, RetryIntervalPasses, DayPasses, Fails, MoveDump,
     LoggedDeleteDump, LoggedDeleteKeys, NoFault, Fault
<1>6. ASSUME NEW p \in Processes,
             \/ Create(p) \/ Shutdown(p) \/ ShutdownStep(p) \/ WaitFails(p) \/ Crash(p)
             \/ \E r \in Reports : SendReport(p, r)
      PROVE  faults' = faults \/ faults' = faults + 1
  BY <1>6, Zenon DEF Create, Shutdown, ShutdownStep, StopListening, WaitServerListenAndJoin, WaitFails,
     Crash, RepositoryCrash, SendReport, StoreReport, repositoryVars
<1>7. CASE Done \/ UNCHANGED vars
  BY <1>1, <1>7 DEF Done, vars, repositoryVars
<1> QED
  BY <1>2, <1>3, <1>4, <1>5, <1>6, <1>7, Zenon DEF Next

(* The steps that work on the one report an upload has picked.             *)
Attempt(p) == TouchDump(p) \/ TouchKeys(p) \/ Upload(p) \/ MovesDump(p)
Settle(p) == MovesKeys(p) \/ RestDump(p) \/ RestKeys(p) \/ DropKeys(p) \/ DropDump(p)

(* They keep the report, or end the job.                                   *)
LEMMA TryJobs ==
  ASSUME NEW p \in Processes, Attempt(p) \/ Settle(p)
  PROVE  (\E step \in UploadSteps : Goto(p, step)) \/ job' = [job EXCEPT ![p] = NoJob]
<1>1. CASE Attempt(p)
  <2>1. CASE TouchDump(p) \/ TouchKeys(p)
    BY <2>1, Zenon DEF TouchDump, TouchKeys, UploadSteps
  <2>2. CASE Upload(p) \/ MovesDump(p)
    BY <2>2, Zenon DEF Upload, MovesDump, UploadSteps
  <2> QED
    BY <1>1, <2>1, <2>2, Zenon DEF Attempt
<1>2. CASE Settle(p)
  <2>1. CASE MovesKeys(p) \/ RestDump(p) \/ RestKeys(p)
    BY <2>1, Zenon DEF MovesKeys, RestDump, RestKeys, UploadSteps
  <2>2. CASE DropKeys(p) \/ DropDump(p)
    BY <2>2, Zenon DEF DropKeys, DropDump, UploadSteps
  <2> QED
    BY <1>2, <2>1, <2>2, Zenon DEF Settle
<1> QED
  BY <1>1, <1>2, Zenon

(* They leave the other reports alone.                                     *)
LEMMA TrySparesFiles ==
  ASSUME PlacesOK, CountsOK, NEW p \in Processes, Attempt(p) \/ Settle(p),
         NEW r \in Reports, job[p].report # r
  PROVE  /\ dump'[r] = dump[r] /\ keys'[r] = keys[r]
         /\ attempts'[r] = attempts[r] /\ uploads'[r] = uploads[r]
<1>1. CASE TouchDump(p) \/ TouchKeys(p)
  BY <1>1, Zenon DEF TouchDump, TouchKeys
<1>2. CASE Upload(p)
  BY <1>2, Zenon DEF Upload, files, CountsOK
<1>3. CASE MovesDump(p)
  BY <1>3, Zenon DEF MovesDump, MoveDump, PlacesOK
<1>4. CASE MovesKeys(p)
  BY <1>4, Zenon DEF MovesKeys, MoveKeys, PlacesOK
<1>5. CASE RestDump(p) \/ DropDump(p)
  BY <1>5, Zenon DEF RestDump, DropDump, LoggedDeleteDump, PlacesOK
<1>6. CASE RestKeys(p) \/ DropKeys(p)
  BY <1>6, Zenon DEF RestKeys, DropKeys, LoggedDeleteKeys, PlacesOK
<1> QED
  BY <1>1, <1>2, <1>3, <1>4, <1>5, <1>6, Zenon DEF Attempt, Settle

(* The uploads pass over a report that nobody has stored.                  *)
LEMMA UploadUnborn ==
  ASSUME BaseInv, NEW p \in Processes, UploadStep(p), NEW r \in Reports, AttemptInv(r)
  PROVE  Unborn(r)'
<1>1. PlacesOK /\ AgesOK /\ CountsOK /\ FaultsOK /\ JobTypeOK /\ JobsOK
  BY BaseParts, Zenon DEF FilesInv
<1>2. UNCHANGED store
  BY <1>1, UploadStepFiles, Zenon
<1> SUFFICES ASSUME store[r] = "off"
             PROVE  /\ dump'[r] = dump[r] /\ keys'[r] = keys[r] /\ NoWorker(r)'
                    /\ attempts'[r] = attempts[r] /\ uploads'[r] = uploads[r]
  BY <1>2, Zenon DEF AttemptInv, Unborn
<1>3. dump[r] = "None" /\ keys[r] = "None" /\ NoWorker(r)
  BY Zenon DEF AttemptInv, Unborn
<1>4. job[p].report # r /\ job[p].dir \in Directories /\ job[p].dir # "None"
  BY <1>1, <1>3, ReportFacts, Zenon DEF NoWorker, Directories
<1>5. PICK j : NewJob(p, j)
  BY <1>1, UploadStepJob, Zenon
<1>6. \A q \in Processes : job'[q] = IF q = p THEN j ELSE job[q]
  BY <1>1, <1>5, NewJobInv, Zenon
<1>7. CASE FindOrphan(p) \/ PickReport(p)
  <2>1. UNCHANGED <<dump, keys, attempts, uploads>>
    BY <1>7, Zenon DEF FindOrphan, PickReport, files
  <2>2. CASE FindOrphan(p)
    <3>1. PICK t \in Reports, d \in Directories :
            keys[t] = d /\ job' = [job EXCEPT ![p] = Job("orphan", d, t, @.seen \union {t})]
      BY <2>2, Zenon DEF FindOrphan, Orphaned
    <3>2. job'[p].report = t /\ t # r
      BY <1>1, <1>3, <3>1, Zenon DEF JobTypeOK, Job, Directories
    <3> QED
      BY <1>3, <1>6, <2>1, <3>2, Zenon DEF NoWorker
  <2>3. CASE PickReport(p)
    <3>1. PICK t \in Reports :
            dump[t] = job[p].dir /\ job' = [job EXCEPT ![p] = Job("touch_dump", @.dir, t, {})]
      BY <2>3, Zenon DEF PickReport, Eligible
    <3>2. job'[p].report = t /\ t # r
      BY <1>1, <1>3, <1>4, <3>1, Zenon DEF JobTypeOK, Job
    <3> QED
      BY <1>3, <1>6, <2>1, <3>2, Zenon DEF NoWorker
  <2> QED
    BY <1>7, <2>2, <2>3, Zenon
<1>8. CASE ~(FindOrphan(p) \/ PickReport(p))
  <2>1. j.report \in {job[p].report, None}
    <3>1. CASE \E step \in UploadSteps : Goto(p, step)
      BY <1>1, <1>6, <3>1, GotoFacts, Zenon
    <3>2. CASE job' = [job EXCEPT ![p] = NoJob]
      BY <1>1, <1>6, <3>2, NoJobFacts, Zenon DEF JobTypeOK
    <3>3. CASE DeleteOrphan(p) \/ CleanDone(p) \/ DeleteOrphanedDump(p)
      BY <1>1, <1>6, <3>3 DEF DeleteOrphan, CleanDone, DeleteOrphanedDump, JobTypeOK, Job
    <3>4. CASE NextDirectory(p)
      <4>1. CASE job[p].dir = "Retry 2"
        BY <3>2, <3>4, <4>1, Zenon DEF NextDirectory
      <4>2. CASE job[p].dir # "Retry 2"
        <5>1. job' = [job EXCEPT ![p] = Job("scan", NextOf[job[p].dir], None, {})]
          BY <3>4, <4>2, Zenon DEF NextDirectory
        <5> QED
          BY <1>1, <1>6, <5>1 DEF JobTypeOK, Job
      <4> QED
        BY <4>1, <4>2, Zenon
    <3> QED
      BY <1>8, <3>1, <3>2, <3>3, <3>4, TryJobs, Zenon DEF UploadStep, Attempt, Settle
  <2>2. NoWorker(r)'
    BY <1>3, <1>4, <1>6, <2>1, RepositoryAssumption, Zenon DEF NoWorker
  <2>3. dump'[r] = dump[r] /\ keys'[r] = keys[r]
    <3>1. CASE CleanDone(p) \/ NextDirectory(p)
      BY <3>1, Zenon DEF CleanDone, NextDirectory, files
    <3>2. CASE DeleteOrphan(p)
      BY <1>1, <1>4, <3>2, Zenon DEF DeleteOrphan, LoggedDeleteKeys, PlacesOK
    <3>3. CASE DeleteOrphanedDump(p)
      BY <1>1, <1>3, <1>4, <3>3, Zenon DEF DeleteOrphanedDump, LoggedDeleteDump, PlacesOK
    <3> QED
      BY <1>1, <1>4, <1>8, <3>1, <3>2, <3>3, TrySparesFiles, Zenon DEF UploadStep, Attempt, Settle
  <2>4. attempts'[r] = attempts[r] /\ uploads'[r] = uploads[r]
    <3>1. CASE CleanDone(p) \/ NextDirectory(p) \/ DeleteOrphan(p) \/ DeleteOrphanedDump(p)
      BY <3>1, Zenon DEF CleanDone, NextDirectory, DeleteOrphan, DeleteOrphanedDump
    <3> QED
      BY <1>1, <1>4, <1>8, <3>1, TrySparesFiles, Zenon DEF UploadStep, Attempt, Settle
  <2> QED
    BY <2>2, <2>3, <2>4, Zenon
<1> QED
  BY <1>7, <1>8, Zenon

-----------------------------------------------------------------------------
(* A step that neither settles an attempt nor prepares one.                *)
LEMMA QuietLocal ==
  ASSUME BaseInv, NEW p \in Processes, NEW r \in Reports, LocalInv(p, r), SameCounts(r),
         dump'[r] \in {dump[r], "None"}, ~At(p, r, Owing), ~At(p, r, Trying \union Owing)'
  PROVE  LocalInv(p, r)'
<1>1. attempts[r] \in Nat /\ uploads[r] \in Nat /\ faults \in Nat
  BY CountTypes, Zenon
<1>2. /\ Rank(dump[r]) \in Nat /\ Rank(dump[r]) <= 3
      /\ Rank(dump'[r]) \in Nat /\ Rank(dump'[r]) <= 3 /\ Rank("None") = 3
  BY RankFacts, Zenon
<1>3. /\ attempts[r] <= Rank(dump[r]) + faults
      /\ uploads[r] <= faults \/ dump[r] = "None"
      /\ uploads[r] <= 1 + faults
  BY Zenon DEF LocalInv, Local, At, Owing
<1>4. attempts'[r] <= Rank(dump'[r]) + faults'
  BY <1>1, <1>2, <1>3 DEF SameCounts
<1>5. (uploads'[r] <= faults' \/ dump'[r] = "None") /\ uploads'[r] <= 1 + faults'
  BY <1>1, <1>3 DEF SameCounts
<1> QED
  BY <1>4, <1>5, Zenon DEF LocalInv, Local, At, Trying, Owing

(* CleanOrphanedCrashKeysFiles and GetPendingReport.                       *)
LEMMA ScanLocal ==
  ASSUME BaseInv, NEW p \in Processes, NEW r \in Reports, LocalInv(p, r),
         faults' \in Nat, faults <= faults',
         \/ FindOrphan(p) \/ DeleteOrphan(p) \/ CleanDone(p)
         \/ DeleteOrphanedDump(p) \/ PickReport(p) \/ NextDirectory(p)
  PROVE  LocalInv(p, r)'
<1>1. PlacesOK /\ JobTypeOK
  BY BaseParts, Zenon DEF FilesInv
<1>2. UNCHANGED <<attempts, uploads>> /\ job[p].step \in {"clean", "orphan", "scan"}
  <2>1. CASE FindOrphan(p) \/ DeleteOrphan(p)
    BY <2>1, Zenon DEF FindOrphan, DeleteOrphan
  <2>2. CASE CleanDone(p) \/ DeleteOrphanedDump(p)
    BY <2>2, Zenon DEF CleanDone, DeleteOrphanedDump
  <2>3. CASE PickReport(p) \/ NextDirectory(p)
    BY <2>3, Zenon DEF PickReport, NextDirectory
  <2> QED
    BY <2>1, <2>2, <2>3, Zenon
<1>3. SameCounts(r)
  BY <1>2, Zenon DEF SameCounts
<1>5. ~At(p, r, Owing) /\ ~At(p, r, Trying)
  BY <1>2, Zenon DEF At, Owing, Dropping, Trying
<1>6. CASE job'[p].step \in {"clean", "orphan", "scan", "idle"} /\ ~PickReport(p)
  <2>1. ~At(p, r, Trying \union Owing)'
    BY <1>6, Zenon DEF At, Owing, Dropping, Trying
  <2>2. dump'[r] \in {dump[r], "None"}
    <3>1. CASE FindOrphan(p) \/ DeleteOrphan(p)
      BY <3>1, Zenon DEF FindOrphan, DeleteOrphan, files
    <3>2. CASE CleanDone(p) \/ NextDirectory(p)
      BY <3>2, Zenon DEF CleanDone, NextDirectory, files
    <3>3. CASE DeleteOrphanedDump(p)
      BY <1>1, <3>3, Zenon DEF DeleteOrphanedDump, LoggedDeleteDump, PlacesOK
    <3> QED
      BY <1>6, <3>1, <3>2, <3>3, Zenon
  <2> QED
    BY <1>3, <1>5, <2>1, <2>2, QuietLocal, Zenon
<1>7. CASE PickReport(p)
  <2>1. PICK t \in Reports :
          dump[t] = job[p].dir /\ job' = [job EXCEPT ![p] = Job("touch_dump", @.dir, t, {})]
    BY <1>7, Zenon DEF PickReport, Eligible
  <2>2. /\ job'[p].report = t /\ job'[p].step = "touch_dump" /\ job'[p].dir = job[p].dir
        /\ UNCHANGED dump
    BY <1>1, <1>7, <2>1, Zenon DEF JobTypeOK, Job, PickReport, files
  <2>3. CASE t # r
    <3>1. ~At(p, r, Trying \union Owing)'
      BY <2>2, <2>3, Zenon DEF At
    <3> QED
      BY <1>3, <1>5, <2>2, <3>1, QuietLocal, Zenon
  <2>4. CASE t = r
    <3>1. /\ attempts[r] <= Rank(dump[r]) + faults
          /\ uploads[r] <= faults \/ dump[r] = "None"
          /\ uploads[r] <= 1 + faults
      BY <1>5, Zenon DEF LocalInv, Local, At, Owing
    <3>2. /\ attempts[r] \in Nat /\ uploads[r] \in Nat /\ faults \in Nat
          /\ Rank(dump[r]) \in Nat /\ Rank(dump[r]) <= 3
      BY CountTypes, RankFacts, Zenon
    <3>3. /\ attempts'[r] <= Rank(dump[r]) + faults'
          /\ uploads'[r] <= faults' \/ dump[r] = "None"
          /\ uploads'[r] <= 1 + faults'
      <4>1. /\ attempts'[r] = attempts[r] /\ uploads'[r] = uploads[r]
            /\ faults' \in Nat /\ faults <= faults'
        BY <1>3, Zenon DEF SameCounts
      <4>2. attempts'[r] <= Rank(dump[r]) + faults'
        BY <3>1, <3>2, <4>1
      <4>3. (uploads'[r] <= faults' \/ dump[r] = "None") /\ uploads'[r] <= 1 + faults'
        BY <3>1, <3>2, <4>1
      <4> QED
        BY <4>2, <4>3, Zenon
    <3> QED
      BY <2>1, <2>2, <2>4, <3>3, Zenon DEF LocalInv, Local, Owing, Dropping
  <2> QED
    BY <2>3, <2>4, Zenon
<1>8. ~PickReport(p) => job'[p].step \in {"clean", "orphan", "scan", "idle"}
  <2>1. CASE FindOrphan(p)
    BY <1>1, <2>1 DEF FindOrphan, JobTypeOK, Job
  <2>2. CASE DeleteOrphan(p) \/ CleanDone(p) \/ DeleteOrphanedDump(p)
    BY <1>1, <2>2 DEF DeleteOrphan, CleanDone, DeleteOrphanedDump, JobTypeOK, Job
  <2>3. CASE NextDirectory(p)
    <3>1. CASE job[p].dir = "Retry 2"
      BY <1>1, <2>3, <3>1, NoJobFacts, Zenon DEF NextDirectory, JobTypeOK
    <3>2. CASE job[p].dir # "Retry 2"
      BY <1>1, <2>3, <3>2, Zenon DEF NextDirectory, JobTypeOK, Job
    <3> QED
      BY <3>1, <3>2, Zenon
  <2> QED
    BY <2>1, <2>2, <2>3, Zenon
<1> QED
  BY <1>6, <1>7, <1>8, Zenon

(* The steps of an upload on the other reports.                            *)
LEMMA SpareLocal ==
  ASSUME BaseInv, NEW p \in Processes, NEW r \in Reports, LocalInv(p, r),
         faults' \in Nat, faults <= faults', job[p].report # r, Attempt(p) \/ Settle(p)
  PROVE  LocalInv(p, r)'
<1>1. PlacesOK /\ CountsOK /\ JobTypeOK
  BY BaseParts, Zenon DEF FilesInv
<1>2. job'[p].report # r
  <2>1. CASE \E step \in UploadSteps : Goto(p, step)
    BY <1>1, <2>1, GotoFacts, Zenon
  <2>2. CASE job' = [job EXCEPT ![p] = NoJob]
    BY <1>1, <2>2, NoJobFacts, RepositoryAssumption, Zenon DEF JobTypeOK
  <2> QED
    BY <2>1, <2>2, TryJobs, Zenon
<1>3. dump'[r] = dump[r] /\ SameCounts(r)
  BY <1>1, TrySparesFiles, Zenon DEF SameCounts
<1> QED
  BY <1>2, <1>3, QuietLocal, Zenon DEF At

-----------------------------------------------------------------------------
(* The steps that make an attempt, settle it or die in between.            *)

(* The attempt itself: the touches, the upload and the minidump's move.    *)
LEMMA AttemptLocal ==
  ASSUME BaseInv, NEW p \in Processes, NEW r \in Reports, LocalInv(p, r),
         faults' \in Nat, faults <= faults', job[p].report = r, Attempt(p)
  PROVE  LocalInv(p, r)'
<1>1. PlacesOK /\ CountsOK /\ JobTypeOK /\ JobsOK
  BY BaseParts, Zenon DEF FilesInv
<1> DEFINE d == job[p].dir
<1>2. d \in Directories /\ d # "None" /\ Rank(d) \in Nat /\ Rank(d) <= 2 /\ Rank("None") = 3
      /\ Rank(FailureDestination(d)) = Rank(d) + 1
  BY <1>1, ReportFacts, RankFacts, Zenon
<1>3. attempts[r] \in Nat /\ uploads[r] \in Nat /\ faults \in Nat
  BY CountTypes, Zenon
<1>4. CASE TouchDump(p) \/ TouchKeys(p)
  <2>1. /\ dump[r] \in {d, "None"} /\ attempts[r] <= Rank(d) + faults
        /\ uploads[r] <= faults \/ dump[r] = "None"
        /\ uploads[r] <= 1 + faults
    BY <1>4, Zenon DEF TouchDump, TouchKeys, LocalInv, Local, Trying, Dropping
  <2>2. /\ UNCHANGED <<dump, attempts, uploads>>
        /\ \E step \in {"touch_keys", "upload", "drop_keys"} : Goto(p, step)
    BY <1>4, Zenon DEF TouchDump, TouchKeys
  <2>3. /\ job'[p].report = r /\ job'[p].dir = d
        /\ job'[p].step \in {"touch_keys", "upload", "drop_keys"}
    BY <1>1, <2>2, GotoFacts, Zenon DEF UploadSteps
  <2>4. attempts'[r] = attempts[r] /\ uploads'[r] = uploads[r]
    BY <2>2, Zenon
  <2>5. attempts'[r] <= Rank(d) + faults' /\ attempts'[r] <= Rank(d) + 1 + faults'
    BY <1>2, <1>3, <2>1, <2>4
  <2>6. attempts'[r] <= Rank(dump[r]) + faults'
    <3>1. Rank(dump[r]) \in Nat /\ Rank(dump[r]) <= 3 /\ Rank(d) <= Rank(dump[r])
      BY <1>2, <2>1
    <3> QED
      BY <1>2, <1>3, <2>4, <2>5, <3>1
  <2>7. (uploads'[r] <= faults' \/ dump[r] = "None") /\ uploads'[r] <= 1 + faults'
    BY <1>3, <2>1, <2>4
  <2> QED
    BY <2>1, <2>2, <2>3, <2>5, <2>6, <2>7, Zenon DEF LocalInv, Local
<1>5. CASE Upload(p)
  <2>1. /\ dump[r] \in {d, "None"} /\ attempts[r] <= Rank(d) + faults
        /\ uploads[r] <= faults \/ dump[r] = "None"
        /\ uploads[r] <= 1 + faults
    BY <1>5, Zenon DEF Upload, LocalInv, Local, Trying, Dropping
  <2>2. UNCHANGED <<dump, faults>> /\ attempts'[r] = attempts[r] + 1
    <3>1. UNCHANGED <<dump, faults>> /\ attempts' = [attempts EXCEPT ![r] = @ + 1]
      BY <1>5, Zenon DEF Upload, files
    <3> QED
      BY <1>1, <3>1, Zenon DEF CountsOK
  <2>3. attempts'[r] <= Rank(d) + 1 + faults'
    BY <1>2, <1>3, <2>1, <2>2
  <2>4. CASE dump[r] = d /\ uploads' = [uploads EXCEPT ![r] = @ + 1] /\ Goto(p, "drop_keys")
    <3>1. uploads'[r] <= 1 + faults'
      <4>1. uploads'[r] = uploads[r] + 1
        BY <1>1, <2>4, Zenon DEF CountsOK
      <4>2. uploads[r] <= faults
        BY <1>2, <2>1, <2>4, Zenon
      <4> QED
        BY <1>3, <2>2, <4>1, <4>2
    <3>2. job'[p].report = r /\ job'[p].dir = d /\ job'[p].step = "drop_keys"
      BY <1>1, <2>4, GotoFacts, Zenon DEF UploadSteps
    <3> QED
      BY <2>1, <2>2, <2>3, <3>1, <3>2, Zenon DEF LocalInv, Local, Trying, Owing, Dropping
  <2>5. CASE UNCHANGED uploads /\ Goto(p, "move_dump")
    <3>1. job'[p].report = r /\ job'[p].dir = d /\ job'[p].step = "move_dump"
      BY <1>1, <2>5, GotoFacts, Zenon DEF UploadSteps
    <3> QED
      BY <2>1, <2>2, <2>3, <2>5, <3>1, Zenon DEF LocalInv, Local, Trying, Owing, Dropping
  <2> QED
    BY <1>5, <2>4, <2>5, Zenon DEF Upload
<1>6. CASE MovesDump(p)
  <2>1. /\ dump[r] \in {d, "None"} /\ attempts[r] <= Rank(d) + 1 + faults
        /\ uploads[r] <= faults \/ dump[r] = "None"
        /\ uploads[r] <= 1 + faults
    BY <1>6, Zenon DEF MovesDump, LocalInv, Local, Owing, Dropping
  <2>2. UNCHANGED <<attempts, uploads>>
    BY <1>6, Zenon DEF MovesDump
  <2>3. CASE MoveDump(r, d, FailureDestination(d)) /\ Goto(p, "move_keys")
    <3>1. dump[r] = d /\ dump'[r] = FailureDestination(d) /\ UNCHANGED faults
      BY <1>1, <2>3, Zenon DEF MoveDump, NoFault, PlacesOK
    <3>2. job'[p].step = "move_keys"
      BY <1>1, <2>3, GotoFacts, Zenon DEF UploadSteps
    <3>3. attempts'[r] <= Rank(dump'[r]) + faults' /\ uploads'[r] <= faults'
      BY <1>2, <1>3, <2>1, <2>2, <3>1, Zenon
    <3>4. uploads'[r] <= 1 + faults'
      BY <1>3, <2>2, <3>1, <3>3
    <3> QED
      BY <3>2, <3>3, <3>4, Zenon DEF LocalInv, Local, Trying, Owing, Dropping
  <2>4. CASE /\ Fails(r, dump[r] # d) /\ UNCHANGED dump
             /\ \E step \in {"rest_dump", "drop_keys"} : Goto(p, step)
    <3>1. dump[r] = "None" \/ faults' = faults + 1
      BY <2>1, <2>4, Zenon DEF Fails, Fault
    <3>2. attempts'[r] <= Rank(dump[r]) + faults'
      <4>1. CASE dump[r] = "None"
        BY <1>2, <1>3, <2>1, <2>2, <4>1
      <4>2. CASE dump[r] = d /\ faults' = faults + 1
        BY <1>2, <1>3, <2>1, <2>2, <4>2
      <4> QED
        BY <2>1, <3>1, <4>1, <4>2, Zenon
    <3>3. /\ attempts'[r] <= Rank(d) + 1 + faults'
          /\ uploads'[r] <= faults' \/ dump[r] = "None"
          /\ uploads'[r] <= 1 + faults'
      BY <1>2, <1>3, <2>1, <2>2
    <3>4. /\ job'[p].report = r /\ job'[p].dir = d
          /\ job'[p].step \in {"rest_dump", "drop_keys"}
      BY <1>1, <2>4, GotoFacts, Zenon DEF UploadSteps
    <3> QED
      BY <2>1, <2>4, <3>2, <3>3, <3>4, Zenon DEF LocalInv, Local, Trying
  <2> QED
    BY <1>6, <2>3, <2>4, Zenon DEF MovesDump
<1> QED
  BY <1>4, <1>5, <1>6, Zenon DEF Attempt

(* What follows it: the keys' move and the deletions.                      *)
LEMMA SettleLocal ==
  ASSUME BaseInv, NEW p \in Processes, NEW r \in Reports, LocalInv(p, r),
         faults' \in Nat, faults <= faults', job[p].report = r, Settle(p)
  PROVE  LocalInv(p, r)'
<1>1. PlacesOK /\ JobTypeOK /\ JobsOK
  BY BaseParts, Zenon DEF FilesInv
<1>2. UNCHANGED <<attempts, uploads>>
  <2>1. CASE MovesKeys(p) \/ RestDump(p) \/ RestKeys(p)
    BY <2>1, Zenon DEF MovesKeys, RestDump, RestKeys
  <2>2. CASE DropKeys(p) \/ DropDump(p)
    BY <2>2, Zenon DEF DropKeys, DropDump
  <2> QED
    BY <2>1, <2>2, Zenon DEF Settle
<1>3. SameCounts(r)
  BY <1>2, Zenon DEF SameCounts
<1>4. dump'[r] \in {dump[r], "None"}
  <2>1. CASE MovesKeys(p) \/ RestKeys(p) \/ DropKeys(p)
    BY <2>1, Zenon DEF MovesKeys, RestKeys, DropKeys
  <2>2. CASE RestDump(p) \/ DropDump(p)
    BY <1>1, <2>2, Zenon DEF RestDump, DropDump, LoggedDeleteDump, PlacesOK
  <2> QED
    BY <2>1, <2>2, Zenon DEF Settle
<1> DEFINE d == job[p].dir
<1>5. d \in Directories /\ d # "None" /\ Rank(d) \in Nat /\ Rank(d) <= 2 /\ Rank("None") = 3
  BY <1>1, ReportFacts, RankFacts, Zenon
<1>6. attempts[r] \in Nat /\ uploads[r] \in Nat /\ faults \in Nat
  BY CountTypes, Zenon
<1>7. CASE job[p].step \in Dropping
  <2>1. /\ dump[r] \in {d, "None"} /\ attempts[r] <= Rank(d) + 1 + faults
        /\ uploads[r] <= 1 + faults
    BY <1>7, Zenon DEF LocalInv, Local, Owing
  <2>2. CASE DropKeys(p)
    <3>1. Goto(p, "drop_dump") /\ UNCHANGED dump
      BY <1>7, <2>2, Zenon DEF DropKeys, Dropping
    <3>2. job'[p].report = r /\ job'[p].dir = d /\ job'[p].step = "drop_dump"
      BY <1>1, <3>1, GotoFacts, Zenon DEF UploadSteps
    <3>3. attempts'[r] <= Rank(d) + 1 + faults' /\ uploads'[r] <= 1 + faults'
      BY <1>2, <1>5, <1>6, <2>1
    <3> QED
      BY <2>1, <3>1, <3>2, <3>3, Zenon DEF LocalInv, Local, Trying, Owing, Dropping
  <2>3. CASE DropDump(p)
    <3>1. LoggedDeleteDump(r, {d}) /\ job' = [job EXCEPT ![p] = NoJob]
      BY <1>7, <2>3, Zenon DEF DropDump, Dropping
    <3>2. job'[p].step = "idle"
      BY <1>1, <3>1, NoJobFacts, Zenon DEF JobTypeOK
    <3>3. dump'[r] = "None" \/ (dump'[r] = d /\ faults' = faults + 1)
      BY <1>1, <2>1, <3>1, Zenon DEF LoggedDeleteDump, Fault, PlacesOK
    <3>4. attempts'[r] <= Rank(dump'[r]) + faults'
      <4>1. CASE dump'[r] = "None"
        BY <1>2, <1>5, <1>6, <2>1, <4>1
      <4>2. CASE dump'[r] = d /\ faults' = faults + 1
        BY <1>2, <1>5, <1>6, <2>1, <4>2
      <4> QED
        BY <3>3, <4>1, <4>2, Zenon
    <3>5. (uploads'[r] <= faults' \/ dump'[r] = "None") /\ uploads'[r] <= 1 + faults'
      <4>1. uploads'[r] = uploads[r]
        BY <1>2, Zenon
      <4> QED
        BY <1>6, <2>1, <3>3, <4>1
    <3> QED
      BY <3>2, <3>4, <3>5, Zenon DEF LocalInv, Local, Trying, Owing, Dropping
  <2> QED
    BY <1>7, <2>2, <2>3, Zenon DEF Settle, MovesKeys, RestDump, RestKeys, Dropping
<1>8. CASE job[p].step \notin Dropping
  <2>1. job[p].step \in {"move_keys", "rest_dump", "rest_keys", "drop_both", "drop_moved"}
    BY <1>8, Zenon DEF Settle, MovesKeys, RestDump, RestKeys, DropKeys, DropDump, Dropping
  <2>2. job'[p].step \in {"rest_dump", "drop_both", "rest_keys", "drop_moved", "idle"}
    <3>1. CASE \E step \in {"rest_dump", "drop_both", "rest_keys", "drop_moved"} : Goto(p, step)
      BY <1>1, <3>1, GotoFacts, Zenon DEF UploadSteps
    <3>2. CASE job' = [job EXCEPT ![p] = NoJob]
      BY <1>1, <3>2, NoJobFacts, Zenon DEF JobTypeOK
    <3> QED
      BY <1>8, <3>1, <3>2, Zenon DEF Settle, MovesKeys, RestDump, RestKeys, DropKeys, DropDump, Dropping
  <2>3. ~At(p, r, Owing) /\ ~At(p, r, Trying \union Owing)'
    BY <2>1, <2>2, Zenon DEF At, Owing, Dropping, Trying
  <2> QED
    BY <1>3, <1>4, <2>3, QuietLocal, Zenon
<1> QED
  BY <1>7, <1>8, Zenon

-----------------------------------------------------------------------------
(* A step of UploadPendingReport.                                          *)
LEMMA UploadCounts ==
  ASSUME BaseInv, NEW p \in Processes, UploadStep(p), faults' \in Nat, faults <= faults',
         NEW r \in Reports, AttemptInv(r)
  PROVE  AttemptInv(r)'
<1>1. job[p].step # "idle" /\ \E j : NewJob(p, j)
  BY BaseParts, UploadStepJob, Zenon
<1>2. LocalInv(p, r) /\ Unborn(r)'
  BY <1>1, LocalFromInv, UploadUnborn, Zenon
<1>3. LocalInv(p, r)'
  <2>1. CASE \/ FindOrphan(p) \/ DeleteOrphan(p) \/ CleanDone(p)
             \/ DeleteOrphanedDump(p) \/ PickReport(p) \/ NextDirectory(p)
    BY <1>2, <2>1, ScanLocal, Zenon
  <2>2. CASE Attempt(p) \/ Settle(p)
    <3>1. CASE job[p].report # r
      BY <1>2, <2>2, <3>1, SpareLocal, Zenon
    <3>2. CASE job[p].report = r
      BY <1>2, <2>2, <3>2, AttemptLocal, SettleLocal, Zenon
    <3> QED
      BY <3>1, <3>2, Zenon
  <2> QED
    BY <2>1, <2>2, Zenon DEF UploadStep, Attempt, Settle
<1> QED
  BY <1>1, <1>2, <1>3, InvFromLocal, Zenon

(* A death before the attempt is settled is the fault that pays for it.    *)
LEMMA CrashCounts ==
  ASSUME BaseInv, NEW p \in Processes, Crash(p), faults' \in Nat, NEW r \in Reports,
         AttemptInv(r)
  PROVE  AttemptInv(r)'
<1>1. JobTypeOK /\ JobsOK /\ StoreOK
  BY BaseParts, Zenon
<1>2. /\ UNCHANGED <<dump, keys, attempts, uploads>> /\ faults' = faults + 1
      /\ job' = [job EXCEPT ![p] = NoJob]
  BY Zenon DEF Crash, RepositoryCrash, files
<1>3. NewJob(p, NoJob) /\ NoJob.report = None /\ NoJob.step = "idle"
  BY <1>2, NoJobFacts, Zenon DEF NewJob
<1>4. \A q \in Processes : job'[q] = IF q = p THEN NoJob ELSE job[q]
  BY <1>1, <1>3, NewJobInv, Zenon
<1>5. store'[r] = "off" => store[r] = "off"
  BY Zenon DEF Crash, RepositoryCrash
<1>6. attempts[r] \in Nat /\ uploads[r] \in Nat /\ faults \in Nat
  BY CountTypes, Zenon
<1>7. CASE job[p].step = "idle"
  <2>1. SameCounts(r)
    BY <1>2, <1>6 DEF SameCounts
  <2>2. SameWorkers(r)
    BY <1>1, <1>4, <1>7, Zenon DEF SameWorkers, JobsOK
  <2>3. SameFiles(r)
    BY <1>2, <1>5, Zenon DEF SameFiles
  <2> QED
    BY <2>1, <2>2, <2>3, CountFrame, Zenon
<1>8. CASE job[p].step # "idle"
  <2>1. LocalInv(p, r)
    BY <1>8, LocalFromInv, Zenon
  <2>2. Unborn(r)'
    BY <1>2, <1>3, <1>4, <1>5, RepositoryAssumption, Zenon DEF AttemptInv, Unborn, NoWorker
  <2>3. /\ Rank(dump[r]) \in Nat /\ Rank(dump[r]) <= 3
        /\ Rank(job[p].dir) \in Nat /\ Rank(job[p].dir) <= 2 /\ Rank("None") = 3
    BY <1>1, ReportFacts, RankFacts, Zenon
  <2>4. attempts'[r] <= Rank(dump[r]) + faults'
    <3>1. CASE At(p, r, Owing)
      <4>1. dump[r] \in {job[p].dir, "None"} /\ attempts[r] <= Rank(job[p].dir) + 1 + faults
        BY <2>1, <3>1, Zenon DEF LocalInv, Local, At
      <4>2. Rank(job[p].dir) <= Rank(dump[r])
        BY <2>3, <4>1
      <4> QED
        BY <1>2, <1>6, <2>3, <4>1, <4>2
    <3>2. CASE ~At(p, r, Owing)
      <4>1. attempts[r] <= Rank(dump[r]) + faults
        BY <2>1, <3>2, Zenon DEF LocalInv, Local, At
      <4> QED
        BY <1>2, <1>6, <2>3, <4>1
    <3> QED
      BY <3>1, <3>2, Zenon
  <2>5. uploads'[r] <= faults' /\ uploads'[r] <= 1 + faults'
    <3>1. uploads[r] <= 1 + faults
      BY <2>1, Zenon DEF LocalInv, Local
    <3> QED
      BY <1>2, <1>6, <3>1
  <2>6. job'[p].step = "idle"
    BY <1>3, <1>4, Zenon
  <2>7. LocalInv(p, r)'
    BY <1>2, <2>4, <2>5, <2>6, Zenon DEF LocalInv, Local, Trying, Owing, Dropping
  <2> QED
    BY <1>3, <1>8, <2>2, <2>7, InvFromLocal, Zenon
<1> QED
  BY <1>7, <1>8, Zenon

(* StoreReport begins with the minidump, and moves or deletes it later.    *)
LEMMA StoreCounts ==
  ASSUME BaseInv, NEW t \in Reports, Store(t) \/ \E p \in Processes : SendReport(p, t),
         faults' \in Nat, faults <= faults', NEW r \in Reports, AttemptInv(r)
  PROVE  AttemptInv(r)'
<1>1. PlacesOK /\ StoreOK
  BY BaseParts, Zenon DEF FilesInv
<1>2. UNCHANGED <<job, attempts, uploads>>
  BY Zenon DEF Store, StoreStep, WriteKeys, StoreMovesDump, StoreTouchesDump, StoreTouchesKeys,
         StoreDropsKeys, StoreDropsDump, SendReport, StoreReport
<1>3. SameCounts(r) /\ SameWorkers(r)
  BY <1>2, Zenon DEF SameCounts, SameWorkers
<1>4. CASE r # t
  <2>1. dump'[r] = dump[r] /\ keys'[r] = keys[r] /\ store'[r] = store[r]
    <3> USE <1>1, <1>4 DEF PlacesOK, StoreOK, StoreTo
    <3>1. CASE WriteKeys(t)
      BY <3>1, Zenon DEF WriteKeys
    <3>2. CASE StoreMovesDump(t)
      BY <3>2, Zenon DEF StoreMovesDump, MoveDump
    <3>3. CASE StoreTouchesDump(t) \/ StoreTouchesKeys(t)
      BY <3>3, Zenon DEF StoreTouchesDump, StoreTouchesKeys, StoreEnds
    <3>4. CASE StoreDropsKeys(t)
      BY <3>4, Zenon DEF StoreDropsKeys, LoggedDeleteKeys
    <3>5. CASE StoreDropsDump(t)
      BY <3>5, Zenon DEF StoreDropsDump, LoggedDeleteDump, StoreEnds
    <3>6. CASE \E p \in Processes : SendReport(p, t)
      BY <3>6, Zenon DEF SendReport, StoreReport
    <3> QED
      BY <3>1, <3>2, <3>3, <3>4, <3>5, <3>6, Zenon DEF Store, StoreStep
  <2>2. SameFiles(r)
    BY <2>1, Zenon DEF SameFiles
  <2> QED
    BY <1>3, <2>2, CountFrame, Zenon
<1>5. CASE r = t /\ Store(t) /\ ~StoreMovesDump(t)
  <2>1. store[r] # "off" /\ store'[r] # "off"
    <3>1. store[r] # "off" /\ \E step \in StorePlaces \ {"off"} : StoreTo(r, step)
      <4>1. CASE WriteKeys(t) \/ StoreDropsKeys(t)
        BY <1>5, <4>1, Zenon DEF WriteKeys, StoreDropsKeys, StorePlaces
      <4>2. CASE StoreTouchesDump(t) \/ StoreTouchesKeys(t)
        BY <1>5, <4>2, Zenon DEF StoreTouchesDump, StoreTouchesKeys, StoreEnds, StorePlaces
      <4>3. CASE StoreDropsDump(t)
        BY <1>5, <4>3, Zenon DEF StoreDropsDump, StoreEnds, StorePlaces
      <4> QED
        BY <1>5, <4>1, <4>2, <4>3, Zenon DEF Store, StoreStep
    <3> QED
      BY <1>1, <3>1, Zenon DEF StoreTo, StoreOK
  <2>2. dump'[r] = dump[r] \/ dump'[r] = "None"
    <3>1. CASE StoreDropsDump(t)
      BY <1>1, <1>5, <3>1, Zenon DEF StoreDropsDump, LoggedDeleteDump, PlacesOK
    <3>2. CASE ~StoreDropsDump(t)
      <4>1. CASE WriteKeys(t) \/ StoreDropsKeys(t)
        BY <1>5, <4>1, Zenon DEF WriteKeys, StoreDropsKeys
      <4>2. CASE StoreTouchesDump(t) \/ StoreTouchesKeys(t)
        BY <1>5, <4>2, Zenon DEF StoreTouchesDump, StoreTouchesKeys
      <4> QED
        BY <1>5, <3>2, <4>1, <4>2, Zenon DEF Store, StoreStep
    <3> QED
      BY <3>1, <3>2, Zenon
  <2>3. SameFiles(r)
    BY <2>1, <2>2, Zenon DEF SameFiles
  <2> QED
    BY <1>3, <2>3, CountFrame, Zenon
<1>6. CASE r = t /\ (StoreMovesDump(t) \/ \E p \in Processes : SendReport(p, t))
  <2>1. CASE dump'[r] = dump[r]
    <3>1. store'[r] # "off"
      BY <1>1, <1>6, Zenon DEF StoreMovesDump, SendReport, StoreReport, StoreTo, StoreOK
    <3>2. SameFiles(r)
      BY <2>1, <3>1, Zenon DEF SameFiles
    <3> QED
      BY <1>3, <3>2, CountFrame, Zenon
  <2>2. CASE dump'[r] # dump[r]
    <3>1. /\ store'[r] # "off" /\ dump'[r] \in {"Temporary", "Incoming"}
          /\ store[r] = "off" \/ dump[r] = "Temporary"
      BY <1>1, <1>6, <2>2, Zenon DEF StoreMovesDump, SendReport, StoreReport, StoreTo, StoreOK, MoveDump,
         PlacesOK
    <3>2. \A q \in Processes : ~At(q, r, Trying \union Owing)
      <4>1. CASE store[r] = "off"
        BY <4>1, Zenon DEF AttemptInv, Unborn, NoWorker, At
      <4>2. CASE dump[r] = "Temporary"
        BY <4>2, BaseParts, ReportFacts, Zenon DEF AttemptInv, Tracked, Directories
      <4> QED
        BY <3>1, <4>1, <4>2, Zenon
    <3>3. \A q \in Processes : ~At(q, r, Trying)' /\ ~At(q, r, Owing)' /\ ~At(q, r, Dropping)'
      BY <1>2, <3>2, Zenon DEF At, Owing
    <3>4. \A q \in Processes : ~At(q, r, Owing) /\ ~At(q, r, Dropping)
      BY <3>2, Zenon DEF At, Owing
    <3>5. attempts[r] <= faults /\ uploads[r] <= faults
      <4>1. attempts[r] \in Nat /\ uploads[r] \in Nat /\ faults \in Nat
        BY CountTypes, Zenon
      <4>2. CASE store[r] = "off"
        <5>1. attempts[r] = 0 /\ uploads[r] = 0
          BY <4>2, Zenon DEF AttemptInv, Unborn
        <5> QED
          BY <4>1, <5>1
      <4>3. CASE dump[r] = "Temporary"
        BY <3>4, <4>1, <4>3, RankFacts DEF AttemptInv, Counted, Rests
      <4> QED
        BY <3>1, <4>2, <4>3, Zenon
    <3>6. /\ attempts'[r] <= faults' /\ uploads'[r] <= faults' /\ uploads'[r] <= 1 + faults'
          /\ attempts'[r] <= Rank(dump'[r]) + faults'
      <4>1. /\ attempts[r] \in Nat /\ uploads[r] \in Nat /\ faults \in Nat
            /\ Rank(dump'[r]) \in Nat /\ Rank(dump'[r]) <= 3
        BY CountTypes, RankFacts, Zenon
      <4> QED
        BY <1>2, <3>5, <4>1
    <3>7. Tracked(r)'
      BY <3>3, Zenon DEF Tracked, At
    <3> QED
      BY <3>1, <3>6, <3>7, Zenon DEF AttemptInv, Unborn, Counted
  <2> QED
    BY <2>1, <2>2, Zenon
<1> QED
  BY <1>4, <1>5, <1>6, Zenon

(* Every step keeps the invariant of every report.                         *)
LEMMA AttemptsNext ==
  ASSUME BaseInv, [Next]_vars, AttemptsInv PROVE AttemptsInv'
<1> SUFFICES ASSUME NEW r \in Reports PROVE AttemptInv(r)'
  BY Zenon DEF AttemptsInv
<1>1. AttemptInv(r) /\ faults' \in Nat /\ faults <= faults'
  BY FaultsGrow, Zenon DEF AttemptsInv
<1>2. CASE UNCHANGED <<dump, keys, store, job, attempts, uploads>>
  <2>1. SameCounts(r) /\ SameWorkers(r)
    BY <1>1, <1>2, Zenon DEF SameCounts, SameWorkers
  <2>2. SameFiles(r)
    BY <1>2, Zenon DEF SameFiles
  <2> QED
    BY <1>1, <2>1, <2>2, CountFrame, Zenon
<1>3. ASSUME NEW p \in Processes,
             \/ Create(p) \/ Shutdown(p) \/ ShutdownStep(p) \/ WaitFails(p)
             \/ (AcquireMutex(p) \/ StopSeen(p)) /\ UNCHANGED <<repositoryVars, reporter>>
             \/ ReturnFromUploader(p)
      PROVE  AttemptInv(r)'
  BY <1>2, <1>3, Zenon DEF Create, Shutdown, ShutdownStep, StopListening, WaitServerListenAndJoin,
     WaitFails, ReturnFromUploader, repositoryVars, files
<1>4. ASSUME NEW p \in Processes, RunUploader(p) PROVE AttemptInv(r)'
  <2>1. /\ UNCHANGED <<dump, keys, store, uploads>>
        /\ job' = [job EXCEPT ![p] = job'[p]] /\ job'[p].report = None /\ job[p].report = None
    BY <1>4, RunStep, Zenon
  <2>2. SameCounts(r)
    BY <1>1, <1>4, <2>1, Zenon DEF SameCounts, RunUploader, UploadPendingReport
  <2>3. SameWorkers(r)
    BY <2>1, BaseParts, RepositoryAssumption, Zenon DEF SameWorkers, JobTypeOK
  <2>4. SameFiles(r)
    BY <2>1, Zenon DEF SameFiles
  <2> QED
    BY <1>1, <2>2, <2>3, <2>4, CountFrame, Zenon
<1>5. ASSUME NEW p \in Processes, UploadStep(p) PROVE AttemptInv(r)'
  BY <1>1, <1>5, UploadCounts, Zenon
<1>6. ASSUME NEW p \in Processes, Crash(p) PROVE AttemptInv(r)'
  BY <1>1, <1>6, CrashCounts, Zenon
<1>7. ASSUME NEW t \in Reports, Store(t) \/ \E p \in Processes : SendReport(p, t)
      PROVE  AttemptInv(r)'
  BY <1>1, <1>7, StoreCounts, Zenon
<1>8. CASE (\E t \in Reports : Elapse(t)) \/ Done \/ UNCHANGED vars
  BY <1>2, <1>8, Zenon DEF Elapse, RetryIntervalPasses, DayPasses, Done, vars, repositoryVars, files
<1> QED
  BY <1>3, <1>4, <1>5, <1>6, <1>7, <1>8, Zenon DEF Next, ThreadStep

(* A report is tried once in each of the three directories and uploaded    *)
(* once, whichever processes upload and die; each further attempt needs a  *)
(* fault of its own, and so does each further upload.                      *)
THEOREM AttemptsAreAlwaysBounded == Spec => []AttemptsAreBounded
<1>1. Init => AttemptsInv
  <2> SUFFICES ASSUME Init, NEW r \in Reports PROVE AttemptInv(r)
    BY Zenon DEF AttemptsInv
  <2>1. NoWorker(r) /\ \A p \in Processes : \A steps : ~At(p, r, steps)
    BY NoJobFacts, RepositoryAssumption, Zenon DEF Init, RepositoryInit, NoWorker, At
  <2>2. dump[r] = "None" /\ keys[r] = "None" /\ attempts[r] = 0 /\ uploads[r] = 0 /\ faults = 0
    BY Zenon DEF Init, RepositoryInit
  <2>3. Rank(dump[r]) \in Nat /\ Rank(dump[r]) <= 3
    BY RankFacts, Zenon
  <2>4. Tracked(r)
    BY <2>1, Zenon DEF Tracked
  <2>5. attempts[r] <= Rank(dump[r]) + faults /\ uploads[r] <= faults /\ uploads[r] <= 1 + faults
    BY <2>2, <2>3
  <2> QED
    BY <2>1, <2>2, <2>4, <2>5, Zenon DEF AttemptInv, Unborn, Counted
<1>2. BaseInv /\ AttemptsInv => AttemptsAreBounded
  <2> SUFFICES ASSUME BaseInv, AttemptsInv, NEW r \in Reports
               PROVE  attempts[r] <= 3 + faults /\ uploads[r] <= 1 + faults
    BY Zenon DEF AttemptsAreBounded
  <2>1. /\ attempts[r] \in Nat /\ uploads[r] \in Nat /\ faults \in Nat
        /\ Rank(dump[r]) \in Nat /\ Rank(dump[r]) <= 3
    BY CountTypes, RankFacts, Zenon
  <2>2. CASE Rests(r, Owing)
    BY <2>1, <2>2 DEF AttemptsInv, AttemptInv, Counted
  <2>3. CASE ~Rests(r, Owing)
    <3>1. PICK p \in Processes : At(p, r, Owing)
      BY <2>3, Zenon DEF Rests
    <3>2. /\ attempts[r] <= Rank(job[p].dir) + 1 + faults /\ Rank(job[p].dir) \in Nat
          /\ Rank(job[p].dir) <= 2
      BY <3>1, BaseParts, ReportFacts, RankFacts, Zenon DEF AttemptsInv, AttemptInv, Tracked
    <3> QED
      BY <2>1, <3>2 DEF AttemptsInv, AttemptInv, Counted
  <2> QED
    BY <2>2, <2>3, Zenon
<1> QED
  BY <1>1, <1>2, AttemptsNext, BaseInvariant, PTL DEF Spec

=============================================================================
