------------------------------ MODULE Reporter ------------------------------
(***************************************************************************)
(* Kasko's Reporter: the report repository and the upload thread of        *)
(* several processes that use one data directory, and in each process the  *)
(* RPC service that stores a report for every request and the order in     *)
(* which Shutdown stops the parts.                                         *)
(***************************************************************************)
EXTENDS ReportRepository

VARIABLES
  thread, stop, mutex,  \* the state of the upload threads
  reporter              \* the life of the Reporter of each process

INSTANCE UploadThread

threadVars == <<thread, stop, mutex>>

vars == <<repositoryVars, threadVars, reporter>>

Life(p, from, to) ==
  reporter[p] = from /\ reporter' = [reporter EXCEPT ![p] = to]

-----------------------------------------------------------------------------
(* Reporter::Create runs the service bridge and starts the thread.         *)
Create(p) ==
  /\ Life(p, "off", "running")
  /\ ThreadStart(p)
  /\ UNCHANGED repositoryVars

(* SendReportImpl, for an RPC request or for the process itself.  The RPC  *)
(* server accepts requests until it is told to stop listening.             *)
SendReport(p, r) ==
  /\ reporter[p] \in {"running", "stop_service"}
  /\ StoreReport(p, r)
  /\ UNCHANGED <<threadVars, reporter>>

(* Reporter::Shutdown: Stop, ServiceBridge::Stop, which waits for the      *)
(* requests that are active, and Join.                                     *)
Shutdown(p) ==
  /\ Life(p, "running", "stop_service")
  /\ ThreadStop(p)
  /\ UNCHANGED repositoryVars

StopListening(p) ==
  /\ Life(p, "stop_service", "wait")
  /\ UNCHANGED <<repositoryVars, threadVars>>

(* Mutant: RpcMgmtWaitServerListen is not called.                          *)
JoinOnly(p) ==
  /\ ThreadJoin(p)
  /\ Life(p, "wait", "down")
  /\ UNCHANGED repositoryVars

WaitServerListenAndJoin(p) ==
  /\ Storing(p) = {} /\ ThreadJoin(p)
  /\ Life(p, "wait", "down")
  /\ UNCHANGED repositoryVars

ShutdownStep(p) == StopListening(p) \/ WaitServerListenAndJoin(p)

-----------------------------------------------------------------------------
(* The thread's uploader is UploadPendingReport.                           *)
RunUploader(p) ==
  /\ TimerFires(p) /\ UploadPendingReport(p)
  /\ UNCHANGED reporter

ReturnFromUploader(p) ==
  /\ job[p].step = "idle" /\ UploaderReturns(p)
  /\ UNCHANGED <<repositoryVars, reporter>>

ThreadStep(p) ==
  \/ /\ AcquireMutex(p) \/ StopSeen(p)
     /\ UNCHANGED <<repositoryVars, reporter>>
  \/ RunUploader(p)
  \/ UploadStep(p) /\ UNCHANGED <<threadVars, reporter>>
  \/ ReturnFromUploader(p)

(* WaitForMultipleObjects fails: the thread logs it and ends.              *)
WaitFails(p) ==
  /\ faults < MaxFaults /\ faults' = faults + 1
  /\ ThreadEnds(p)
  /\ UNCHANGED <<files, store, owner, job, attempts, uploads, hurt, reporter>>

Crash(p) ==
  /\ reporter[p] \notin {"off", "down"}
  /\ reporter' = [reporter EXCEPT ![p] = "down"]
  /\ RepositoryCrash(p) /\ ThreadGone(p)

Store(r) == StoreStep(r) /\ UNCHANGED <<threadVars, reporter>>
Elapse(r) ==
  (RetryIntervalPasses(r) \/ DayPasses(r)) /\ UNCHANGED <<threadVars, reporter>>

Done == (\A p \in Processes : reporter[p] = "down") /\ UNCHANGED vars

Init == RepositoryInit /\ ThreadInit /\ reporter = [p \in Processes |-> "off"]

Next ==
  \/ \E p \in Processes :
       \/ Create(p) \/ Shutdown(p) \/ ShutdownStep(p) \/ ThreadStep(p)
       \/ WaitFails(p) \/ Crash(p)
       \/ \E r \in Reports : SendReport(p, r)
  \/ \E r \in Reports : Store(r) \/ Elapse(r)
  \/ Done

Spec == Init /\ [][Next]_vars

(* Threads run, timers fire and time passes; nobody has to store a report  *)
(* or to shut a Reporter down.                                             *)
Fairness ==
  /\ \A p \in Processes : WF_vars(ThreadStep(p)) /\ WF_vars(ShutdownStep(p))
  /\ \A r \in Reports : WF_vars(Store(r)) /\ WF_vars(Elapse(r))

FairSpec == Spec /\ Fairness

-----------------------------------------------------------------------------
(* Properties.                                                             *)

UploadSteps ==
  {"idle", "clean", "orphan", "scan", "touch_dump", "touch_keys", "upload",
   "move_dump", "move_keys", "rest_dump", "rest_keys", "drop_keys", "drop_both",
   "drop_dump", "drop_moved"}

(* The type of every variable; an upload runs only in a thread that has    *)
(* called its uploader.                                                    *)
TypeOK ==
  /\ dump \in [Reports -> Directories \union {"None", "Temporary", "Failed"}]
  /\ keys \in [Reports -> Directories \union {"None", "Failed"}]
  /\ retryable \in [Reports -> BOOLEAN]
  /\ dayOld \in [Reports -> BOOLEAN]
  /\ store \in [Reports -> {"off", "write_keys", "move_dump", "touch_dump",
                            "touch_keys", "drop_keys", "drop_dump", "stored",
                            "dropped", "cut"}]
  /\ owner \in [Reports -> Processes \union {None}]
  /\ job \in [Processes -> [step : UploadSteps, dir : Directories,
                            report : Reports \union {None},
                            seen : SUBSET Reports]]
  /\ attempts \in [Reports -> Nat] /\ uploads \in [Reports -> Nat]
  /\ faults \in 0..MaxFaults
  /\ hurt \in SUBSET Reports
  /\ thread \in [Processes -> {"off", "wait_mutex", "wait_timer", "uploading",
                               "exited"}]
  /\ stop \in [Processes -> BOOLEAN]
  /\ mutex \in Processes \union {None}
  /\ reporter \in [Processes -> {"off", "running", "stop_service",
                                 "wait", "down"}]
  /\ \A p \in Processes : thread[p] # "uploading" => job[p] = NoJob

(* "Only a single instance should be used for uploading": two processes    *)
(* are never in UploadPendingReport at the same time, although the mutex   *)
(* is abandoned by every thread that ends or dies.                         *)
OneUploader ==
  \A p, q \in Processes :
    job[p].step # "idle" /\ job[q].step # "idle" => p = q

InRepository(r) == \E d \in Directories : dump[r] = d /\ keys[r] = d
Working(r) == {p \in Processes : job[p].report = r}

(* A report whose StoreReport has returned is never lost: it is whole in   *)
(* one of the three directories, or an upload is working on it, or it has  *)
(* been uploaded or reached the permanent failure directory, unless a file *)
(* operation on it failed or a process died between the moves of its two   *)
(* files.  A death at any other point loses nothing.                       *)
StoredReportsAreKept ==
  \A r \in Reports \ hurt :
    store[r] = "stored" =>
      \/ InRepository(r) \/ Working(r) # {}
      \/ uploads[r] > 0 \/ (dump[r] = "Failed" /\ keys[r] = "Failed")

(* "After three failed attempts": a report is tried once in each           *)
(* directory and uploaded once; every further attempt is the work of a     *)
(* fault.                                                                  *)
AttemptsAreBounded ==
  \A r \in Reports : attempts[r] <= 3 + faults /\ uploads[r] <= 1 + faults

(* "It's safe to pass an Unretained reference to report_repository_": when *)
(* Shutdown has returned, nothing in the process uses the repository.      *)
RepositoryOutlivesUsers ==
  \A p \in Processes :
    reporter[p] = "down" => job[p] = NoJob /\ Storing(p) = {}

(* A report that has been tried without success leaves the repository only *)
(* by an upload or by the permanent failure handler.                       *)
FailedReportsAreKept ==
  \A r \in Reports \ hurt :
    attempts[r] > 0 =>
      \/ InRepository(r) \/ Working(r) # {}
      \/ uploads[r] > 0 \/ (dump[r] = "Failed" /\ keys[r] = "Failed")

Present(r) == dump[r] \in Directories \/ keys[r] \in Directories
NoThread == \A p \in Processes : thread[p] \in {"off", "exited"}

(* The repository does not keep files for ever: as long as some thread     *)
(* lives, every file in it, orphans included, goes.                        *)
FilesLeave == \A r \in Reports : []<>(~Present(r) \/ NoThread)

(* Shutdown returns, whoever holds the mutex and whatever is being         *)
(* uploaded.                                                               *)
ShutdownReturns ==
  []<>(\A p \in Processes : reporter[p] \notin {"stop_service", "wait"})

=============================================================================
