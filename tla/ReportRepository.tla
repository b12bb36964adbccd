-------------------------- MODULE ReportRepository --------------------------
(***************************************************************************)
(* Kasko's repository of crash reports, a directory tree that several      *)
(* processes share.  A report is two files with one base name, a minidump  *)
(* and its crash keys; StoreReport brings it in, UploadPendingReport tries *)
(* to upload one report and moves the two files to the next directory, or  *)
(* to the permanent failure directory, when the upload fails.              *)
(*                                                                         *)
(* Every file operation is a step of its own: reports are stored while an  *)
(* upload runs, an operation can fail and a process can die between any    *)
(* two of them.  Time is abstracted to the two questions the code asks of  *)
(* a timestamp: is the minidump's older than the retry interval, is the    *)
(* crash keys' older than a day.                                           *)
(***************************************************************************)
EXTENDS Naturals, FiniteSets

CONSTANTS
  Reports,      \* base names of report files, each given to StoreReport once
  Processes,    \* processes with a Reporter for the same data directory
  None,         \* no process, no report
  MaxFaults     \* bound on failed file operations and crashes

ASSUME RepositoryAssumption ==
  None \notin Reports /\ None \notin Processes /\ MaxFaults \in Nat

VARIABLES
  dump,       \* the directory of each report's minidump
  keys,       \* the directory of each report's crash keys
  retryable,  \* whether the minidump's timestamp is before the retry cutoff
  dayOld,     \* whether the crash keys' timestamp is a day in the past
  store,      \* the next step of StoreReport for each report
  owner,      \* the process in which that call is active
  job,        \* UploadPendingReport in each process
  attempts,   \* upload attempts made for each report
  uploads,    \* upload attempts that succeeded
  faults,     \* failed file operations and crashes so far
  hurt        \* reports such a fault concerned

files == <<dump, keys, retryable, dayOld>>
repositoryVars ==
  <<files, store, owner, job, attempts, uploads, faults, hurt>>

(* The subdirectories in the order GetPendingReport visits them, and where *)
(* a report goes when its upload fails ("Failed" is the directory of the   *)
(* Reporter's permanent failure handler).                                  *)
Directories == {"Incoming", "Retry", "Retry 2"}
NextOf == [Incoming |-> "Retry", Retry |-> "Retry 2"]
(* Mutant: the last directory is its own successor.                        *)
LastDirectoryRetries(d) == IF d = "Retry 2" THEN "Retry 2" ELSE NextOf[d]
FailureDestination(d) == IF d = "Retry 2" THEN "Failed" ELSE NextOf[d]

Job(step, dir, report, seen) ==
  [step |-> step, dir |-> dir, report |-> report, seen |-> seen]
NoJob == Job("idle", "Incoming", None, {})
Goto(p, step) == job' = [job EXCEPT ![p].step = step]
StoreTo(r, step) == store' = [store EXCEPT ![r] = step]
StoreEnds(r, step) ==
  StoreTo(r, step) /\ owner' = [owner EXCEPT ![r] = None]

NoFault == UNCHANGED <<faults, hurt>>
Fault(r) ==
  /\ faults < MaxFaults
  /\ faults' = faults + 1
  /\ hurt' = hurt \union {r}

-----------------------------------------------------------------------------
(* Operations on one file.  Deleting a file that is not there succeeds.    *)

LoggedDeleteDump(r, dirs) ==
  \/ dump' = [dump EXCEPT ![r] = IF @ \in dirs THEN "None" ELSE @] /\ NoFault
  \/ dump[r] \in dirs /\ Fault(r) /\ UNCHANGED dump

LoggedDeleteKeys(r, dir) ==
  \/ keys' = [keys EXCEPT ![r] = IF @ = dir THEN "None" ELSE @] /\ NoFault
  \/ keys[r] = dir /\ Fault(r) /\ UNCHANGED keys

MoveDump(r, from, to) ==
  dump[r] = from /\ dump' = [dump EXCEPT ![r] = to] /\ NoFault
MoveKeys(r, from, to) ==
  keys[r] = from /\ keys' = [keys EXCEPT ![r] = to] /\ NoFault

(* An operation on a file fails because the file is gone, or by a fault.   *)
Fails(r, gone) == (gone /\ NoFault) \/ Fault(r)

-----------------------------------------------------------------------------
(* StoreReport, called by process p with a minidump it has just generated  *)
(* in the Temporary directory.                                             *)

StoreReport(p, r) ==
  /\ store[r] = "off"
  /\ StoreTo(r, "write_keys")
  /\ owner' = [owner EXCEPT ![r] = p]
  /\ dump' = [dump EXCEPT ![r] = "Temporary"]
  /\ UNCHANGED <<keys, retryable, dayOld, job, attempts, uploads, faults, hurt>>

(* CreateDirectory and WriteCrashKeysToFile.  A write that fails returns   *)
(* either value, and may leave a file behind.                              *)
WriteKeys(r) ==
  /\ store[r] = "write_keys"
  /\ \/ /\ StoreTo(r, "move_dump")
        /\ keys' = [keys EXCEPT ![r] = "Incoming"]
        /\ NoFault
     \/ /\ StoreTo(r, "move_dump") \/ StoreTo(r, "drop_dump")
        /\ \E left \in {"None", "Incoming"} : keys' = [keys EXCEPT ![r] = left]
        /\ Fault(r)
  /\ dayOld' = [dayOld EXCEPT ![r] = FALSE]
  /\ UNCHANGED <<dump, retryable, owner, job, attempts, uploads>>

StoreMovesDump(r) ==
  /\ store[r] = "move_dump"
  /\ \/ MoveDump(r, "Temporary", "Incoming") /\ StoreTo(r, "touch_dump")
     \/ Fault(r) /\ StoreTo(r, "drop_keys") /\ UNCHANGED dump
  /\ UNCHANGED <<keys, retryable, dayOld, owner, job, attempts, uploads>>

StoreTouchesDump(r) ==
  /\ store[r] = "touch_dump"
  /\ \/ /\ dump[r] = "Incoming" /\ NoFault
        /\ retryable' = [retryable EXCEPT ![r] = FALSE]
        /\ StoreTo(r, "touch_keys")
     \/ /\ Fails(r, dump[r] # "Incoming")
        /\ StoreTo(r, "drop_keys")
        /\ UNCHANGED retryable
  /\ UNCHANGED <<dump, keys, dayOld, owner, job, attempts, uploads>>

StoreTouchesKeys(r) ==
  /\ store[r] = "touch_keys"
  /\ \/ /\ keys[r] = "Incoming" /\ NoFault
        /\ dayOld' = [dayOld EXCEPT ![r] = FALSE]
        /\ StoreEnds(r, "stored")
     \/ /\ Fails(r, keys[r] # "Incoming")
        /\ StoreTo(r, "drop_keys")
        /\ UNCHANGED <<dayOld, owner>>
  /\ UNCHANGED <<dump, keys, retryable, job, attempts, uploads>>

(* An early return destroys the two ScopedReportFiles, the crash keys      *)
(* first; the minidump's path is in Temporary until it has been moved.     *)
StoreDropsKeys(r) ==
  /\ store[r] = "drop_keys"
  /\ LoggedDeleteKeys(r, "Incoming")
  /\ StoreTo(r, "drop_dump")
  /\ UNCHANGED <<dump, retryable, dayOld, owner, job, attempts, uploads>>

StoreDropsDump(r) ==
  /\ store[r] = "drop_dump"
  /\ LoggedDeleteDump(r, {"Temporary", "Incoming"})
  /\ StoreEnds(r, "dropped")
  /\ UNCHANGED <<keys, retryable, dayOld, job, attempts, uploads>>

StoreStep(r) ==
  \/ WriteKeys(r) \/ StoreMovesDump(r) \/ StoreTouchesDump(r)
  \/ StoreTouchesKeys(r) \/ StoreDropsKeys(r) \/ StoreDropsDump(r)

-----------------------------------------------------------------------------
(* UploadPendingReport in process p.  CleanOrphanedCrashKeysFiles comes    *)
(* first: for each crash keys file, a look at the minidump and at the      *)
(* timestamp, then the deletion.                                           *)

UploadPendingReport(p) ==
  /\ job[p].step = "idle"
  /\ Goto(p, "clean")
  /\ UNCHANGED <<files, store, owner, attempts, uploads, faults, hurt>>

Orphaned(r, d) == keys[r] = d /\ dump[r] # d /\ dayOld[r]

FindOrphan(p) ==
  /\ job[p].step = "clean"
  /\ \E r \in Reports, d \in Directories :
       /\ r \notin job[p].seen /\ Orphaned(r, d)
       /\ job' = [job EXCEPT ![p] = Job("orphan", d, r, @.seen \union {r})]
  /\ UNCHANGED <<files, store, owner, attempts, uploads, faults, hurt>>

(* The enumeration goes on after a deletion that failed.                   *)
DeleteOrphan(p) ==
  /\ job[p].step = "orphan"
  /\ LoggedDeleteKeys(job[p].report, job[p].dir)
  /\ job' = [job EXCEPT ![p] = Job("clean", "Incoming", None, @.seen)]
  /\ UNCHANGED <<dump, retryable, dayOld, store, owner, attempts, uploads>>

CleanDone(p) ==
  /\ job[p].step = "clean"
  /\ \A r \in Reports \ job[p].seen, d \in Directories : ~Orphaned(r, d)
  /\ job' = [job EXCEPT ![p] = Job("scan", "Incoming", None, {})]
  /\ UNCHANGED <<files, store, owner, attempts, uploads, faults, hurt>>

(* GetPendingReport: the directories in order, in each the minidumps in    *)
(* any order.  A minidump without crash keys is deleted on the way.        *)

DeleteOrphanedDump(p) ==
  /\ job[p].step = "scan"
  /\ \E r \in Reports :
       /\ r \notin job[p].seen
       /\ dump[r] = job[p].dir /\ keys[r] # job[p].dir
       /\ LoggedDeleteDump(r, {job[p].dir})
       /\ job' = [job EXCEPT ![p] = Job("scan", @.dir, None, @.seen \union {r})]
  /\ UNCHANGED <<keys, retryable, dayOld, store, owner, attempts, uploads>>

(* Mutant: the comparison with the retry cutoff is inverted.               *)
EligibleWhenYoung(r, d) ==
  dump[r] = d /\ keys[r] = d /\ (d = "Incoming" \/ ~retryable[r])

Eligible(r, d) ==
  dump[r] = d /\ keys[r] = d /\ (d = "Incoming" \/ retryable[r])

PickReport(p) ==
  /\ job[p].step = "scan"
  /\ \E r \in Reports :
       /\ Eligible(r, job[p].dir)
       /\ job' = [job EXCEPT ![p] = Job("touch_dump", @.dir, r, {})]
  /\ UNCHANGED <<files, store, owner, attempts, uploads, faults, hurt>>

(* Every minidump has been seen and none can be uploaded.                  *)
NextDirectory(p) ==
  /\ job[p].step = "scan"
  /\ \A r \in Reports : ~Eligible(r, job[p].dir)
  /\ \A r \in Reports \ job[p].seen :
       dump[r] = job[p].dir => keys[r] = job[p].dir
  /\ job' = [job EXCEPT ![p] =
               IF @.dir = "Retry 2" THEN NoJob
               ELSE Job("scan", NextOf[@.dir], None, {})]
  /\ UNCHANGED <<files, store, owner, attempts, uploads, faults, hurt>>

(* The timestamps are renewed first; the two files are deleted if they     *)
(* cannot be.                                                              *)

TouchDump(p) ==
  LET r == job[p].report IN
  /\ job[p].step = "touch_dump"
  /\ \/ /\ dump[r] = job[p].dir /\ NoFault
        /\ retryable' = [retryable EXCEPT ![r] = FALSE]
        /\ Goto(p, "touch_keys")
     \/ /\ Fails(r, dump[r] # job[p].dir)
        /\ Goto(p, "drop_keys")
        /\ UNCHANGED retryable
  /\ UNCHANGED <<dump, keys, dayOld, store, owner, attempts, uploads>>

TouchKeys(p) ==
  LET r == job[p].report IN
  /\ job[p].step = "touch_keys"
  /\ \/ /\ keys[r] = job[p].dir /\ NoFault
        /\ dayOld' = [dayOld EXCEPT ![r] = FALSE]
        /\ Goto(p, "upload")
     \/ /\ Fails(r, keys[r] # job[p].dir)
        /\ Goto(p, "drop_keys")
        /\ UNCHANGED dayOld
  /\ UNCHANGED <<dump, keys, retryable, store, owner, attempts, uploads>>

(* ReadCrashKeysFromFile and the uploader, which reads the minidump and    *)
(* posts it.  An upload whose answer is lost has failed, too.              *)
Upload(p) ==
  LET r == job[p].report
      d == job[p].dir IN
  /\ job[p].step = "upload"
  /\ attempts' = [attempts EXCEPT ![r] = @ + 1]
  /\ \/ /\ dump[r] = d /\ keys[r] = d
        /\ uploads' = [uploads EXCEPT ![r] = @ + 1]
        /\ Goto(p, "drop_keys")
     \/ /\ Goto(p, "move_dump")
        /\ UNCHANGED uploads
  /\ UNCHANGED <<files, store, owner, faults, hurt>>

(* HandleNonpermanentFailure keeps the two files if it could move both,    *)
(* and leaves them to their destructors otherwise.  HandlePermanentFailure *)
(* gives them to the Reporter's handler, which moves them in the same      *)
(* order, and then deletes what the handler left.                          *)

Permanent(p) == job[p].dir = "Retry 2"

MovesDump(p) ==
  LET r == job[p].report
      d == job[p].dir IN
  /\ job[p].step = "move_dump"
  /\ \/ MoveDump(r, d, FailureDestination(d)) /\ Goto(p, "move_keys")
     \/ /\ Fails(r, dump[r] # d)
        /\ Goto(p, IF Permanent(p) THEN "rest_dump" ELSE "drop_keys")
        /\ UNCHANGED dump
  /\ UNCHANGED <<keys, retryable, dayOld, store, owner, attempts, uploads>>

(* Mutant: the files are not taken from the ScopedReportFiles once moved.  *)
MovesKeysAndDrops(p) ==
  LET r == job[p].report
      d == job[p].dir IN
  /\ job[p].step = "move_keys"
  /\ MoveKeys(r, d, FailureDestination(d))
  /\ Goto(p, "drop_both")
  /\ UNCHANGED <<dump, retryable, dayOld, store, owner, attempts, uploads>>

MovesKeys(p) ==
  LET r == job[p].report
      d == job[p].dir IN
  /\ job[p].step = "move_keys"
  /\ \/ /\ MoveKeys(r, d, FailureDestination(d))
        /\ job' = [job EXCEPT ![p] = NoJob]
     \/ /\ Fails(r, keys[r] # d)
        /\ Goto(p, IF Permanent(p) THEN "rest_dump" ELSE "drop_both")
        /\ UNCHANGED keys
  /\ UNCHANGED <<dump, retryable, dayOld, store, owner, attempts, uploads>>

RestDump(p) ==
  /\ job[p].step = "rest_dump"
  /\ LoggedDeleteDump(job[p].report, {job[p].dir})
  /\ Goto(p, "rest_keys")
  /\ UNCHANGED <<keys, retryable, dayOld, store, owner, attempts, uploads>>

RestKeys(p) ==
  /\ job[p].step = "rest_keys"
  /\ LoggedDeleteKeys(job[p].report, job[p].dir)
  /\ job' = [job EXCEPT ![p] = NoJob]
  /\ UNCHANGED <<dump, retryable, dayOld, store, owner, attempts, uploads>>

(* The destructors of the two ScopedReportFiles, of which the minidump's   *)
(* may hold the new path already.                                          *)

DropKeys(p) ==
  /\ job[p].step \in {"drop_keys", "drop_both"}
  /\ LoggedDeleteKeys(job[p].report, job[p].dir)
  /\ Goto(p, IF job[p].step = "drop_both" THEN "drop_moved" ELSE "drop_dump")
  /\ UNCHANGED <<dump, retryable, dayOld, store, owner, attempts, uploads>>

DropDump(p) ==
  LET d == job[p].dir IN
  /\ job[p].step \in {"drop_dump", "drop_moved"}
  /\ LoggedDeleteDump(job[p].report,
       {IF job[p].step = "drop_moved" THEN FailureDestination(d) ELSE d})
  /\ job' = [job EXCEPT ![p] = NoJob]
  /\ UNCHANGED <<keys, retryable, dayOld, store, owner, attempts, uploads>>

UploadStep(p) ==
  \/ FindOrphan(p) \/ DeleteOrphan(p) \/ CleanDone(p) \/ DeleteOrphanedDump(p)
  \/ PickReport(p) \/ NextDirectory(p) \/ TouchDump(p) \/ TouchKeys(p)
  \/ Upload(p) \/ MovesDump(p) \/ MovesKeys(p) \/ RestDump(p) \/ RestKeys(p)
  \/ DropKeys(p) \/ DropDump(p)

-----------------------------------------------------------------------------
(* Time passes for the files of r.  Nothing depends on the age of a        *)
(* minidump in Incoming, or of crash keys whose minidump is there.         *)

RetryIntervalPasses(r) ==
  /\ dump[r] \in {"Retry", "Retry 2"} /\ ~retryable[r]
  /\ retryable' = [retryable EXCEPT ![r] = TRUE]
  /\ UNCHANGED <<dump, keys, dayOld, store, owner, job, attempts, uploads,
                 faults, hurt>>

(* StoreReport takes "a brief period": a day in the middle of it is a      *)
(* fault.                                                                  *)
Busy(r) == owner[r] # None

DayPasses(r) ==
  /\ keys[r] \in Directories /\ dump[r] # keys[r] /\ ~dayOld[r]
  /\ dayOld' = [dayOld EXCEPT ![r] = TRUE]
  /\ IF Busy(r) THEN Fault(r) ELSE NoFault
  /\ UNCHANGED <<dump, keys, retryable, store, owner, job, attempts, uploads>>

(* Process p dies.  A report is hurt if its two files are apart just then. *)
Storing(p) == {r \in Reports : owner[r] = p}

RepositoryCrash(p) ==
  /\ faults < MaxFaults
  /\ faults' = faults + 1
  /\ hurt' = hurt \union {r \in Reports : job[p].report = r /\ dump[r] # keys[r]}
  /\ store' = [r \in Reports |-> IF r \in Storing(p) THEN "cut" ELSE store[r]]
  /\ owner' = [r \in Reports |-> IF r \in Storing(p) THEN None ELSE owner[r]]
  /\ job' = [job EXCEPT ![p] = NoJob]
  /\ UNCHANGED <<files, attempts, uploads>>

RepositoryInit ==
  /\ dump = [r \in Reports |-> "None"]
  /\ keys = [r \in Reports |-> "None"]
  /\ retryable = [r \in Reports |-> FALSE]
  /\ dayOld = [r \in Reports |-> FALSE]
  /\ store = [r \in Reports |-> "off"]
  /\ owner = [r \in Reports |-> None]
  /\ job = [p \in Processes |-> NoJob]
  /\ attempts = [r \in Reports |-> 0]
  /\ uploads = [r \in Reports |-> 0]
  /\ faults = 0
  /\ hurt = {}

=============================================================================
