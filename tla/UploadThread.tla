---------------------------- MODULE UploadThread ----------------------------
(***************************************************************************)
(* Kasko's background threads, one in each process.  They share a named    *)
(* mutex, which lets one of them be active; the active one waits for its   *)
(* timer, runs the uploader and waits again, until its stop event is set.  *)
(* A wait on two handles that are both signaled returns the first, which   *)
(* is the stop event.  The mutex is never released: the system abandons it *)
(* when the thread ends, and a wait for it then succeeds.                  *)
(***************************************************************************)
CONSTANTS
  Processes,  \* processes with an UploadThread for the same exclusive path
  None        \* the state of the mutex that nobody owns

VARIABLES
  thread,   \* where each thread is
  stop,     \* whether its stop event is set
  mutex     \* the owner of the uploader mutex

AbandonedBy(p) == IF mutex = p THEN None ELSE mutex

ThreadInit ==
  /\ thread = [p \in Processes |-> "off"]
  /\ stop = [p \in Processes |-> FALSE]
  /\ mutex = None

ThreadStart(p) ==
  /\ thread[p] = "off"
  /\ thread' = [thread EXCEPT ![p] = "wait_mutex"]
  /\ UNCHANGED <<stop, mutex>>

(* Mutant: the wait for the mutex is skipped.                              *)
DoNotWaitForMutex(p) ==
  /\ thread[p] = "wait_mutex" /\ ~stop[p]
  /\ thread' = [thread EXCEPT ![p] = "wait_timer"]
  /\ UNCHANGED <<stop, mutex>>

AcquireMutex(p) ==
  /\ thread[p] = "wait_mutex" /\ ~stop[p] /\ mutex = None
  /\ thread' = [thread EXCEPT ![p] = "wait_timer"]
  /\ mutex' = p
  /\ UNCHANGED stop

(* Mutant: the timer comes first among the handles.                        *)
TimerFiresFirst(p) ==
  /\ thread[p] = "wait_timer"
  /\ thread' = [thread EXCEPT ![p] = "uploading"]
  /\ UNCHANGED <<stop, mutex>>

TimerFires(p) ==
  /\ thread[p] = "wait_timer" /\ ~stop[p]
  /\ thread' = [thread EXCEPT ![p] = "uploading"]
  /\ UNCHANGED <<stop, mutex>>

(* The uploader returns and the timer is started again.                    *)
UploaderReturns(p) ==
  /\ thread[p] = "uploading"
  /\ thread' = [thread EXCEPT ![p] = "wait_timer"]
  /\ UNCHANGED <<stop, mutex>>

ThreadEnds(p) ==
  /\ thread[p] \in {"wait_mutex", "wait_timer"}
  /\ thread' = [thread EXCEPT ![p] = "exited"]
  /\ mutex' = AbandonedBy(p)
  /\ UNCHANGED stop

StopSeen(p) == stop[p] /\ ThreadEnds(p)

ThreadStop(p) ==
  /\ stop' = [stop EXCEPT ![p] = TRUE]
  /\ UNCHANGED <<thread, mutex>>

(* The thread and its stop event are destroyed.                            *)
ThreadGone(p) ==
  /\ thread' = [thread EXCEPT ![p] = "exited"]
  /\ stop' = [stop EXCEPT ![p] = FALSE]
  /\ mutex' = AbandonedBy(p)

ThreadJoin(p) == thread[p] = "exited" /\ ThreadGone(p)

=============================================================================
