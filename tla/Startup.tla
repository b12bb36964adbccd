------------------------------ MODULE Startup ------------------------------
(***************************************************************************)
(* Starting and stopping call trace services that share an instance id:    *)
(* service processes that run `call_trace_service start`, the named mutex  *)
(* that lets one of them serve, the named manual-reset event that says it  *)
(* is up, and `call_trace_service spawn`, which launches such a process    *)
(* and waits for the event or for the end of the process.                  *)
(***************************************************************************)
EXTENDS Naturals

CONSTANTS
  Instances,    \* service processes, each launched by a spawn of its own
  Free,         \* the state of the mutex that nobody owns
  CanCrash      \* whether a service process can die without stopping

ASSUME StartupAssumption == Free \notin Instances /\ CanCrash \in BOOLEAN

VARIABLES
  pc,       \* where each service process is
  spawner,  \* where each spawn is
  mutex,    \* the owner of the service mutex
  event,    \* whether the service event is signaled
  opened    \* the processes that hold a handle to the event

vars == <<pc, spawner, mutex, event, opened>>

Goto(i, from, to) == pc[i] = from /\ pc' = [pc EXCEPT ![i] = to]
ReleasedBy(i) == IF mutex = i THEN Free ELSE mutex

(* The event disappears, and with it its state, when its last handle goes: *)
(* p the services and s the spawns that are left.                          *)
EventAfterClose(p, s) ==
  event /\ (p # {} \/ \E j \in Instances : s[j] \in {"waiting", "ready"})

-----------------------------------------------------------------------------
(* The spawn command.                                                      *)

LaunchProcess(i) ==
  /\ spawner[i] = "off"
  /\ spawner' = [spawner EXCEPT ![i] = "launched"]
  /\ Goto(i, "off", "acquire")
  /\ UNCHANGED <<mutex, event, opened>>

(* CreateEvent, which can fail, and a wait that a signaled event ends at   *)
(* once.                                                                   *)
WaitForService(i) ==
  /\ spawner[i] = "launched"
  /\ \E to \in {IF event THEN "ready" ELSE "waiting", "failed"} :
       spawner' = [spawner EXCEPT ![i] = to]
  /\ UNCHANGED <<pc, mutex, event, opened>>

(* Mutant: the spawn waits for the event only.                             *)
ServiceExitIsNotWaitedFor(i) ==
  /\ spawner[i] = "waiting" /\ pc[i] = "exited" /\ event
  /\ spawner' = [spawner EXCEPT ![i] = "failed"]
  /\ event' = EventAfterClose(opened, spawner')
  /\ UNCHANGED <<pc, mutex, opened>>

ServiceExitedInError(i) ==
  /\ spawner[i] = "waiting" /\ pc[i] = "exited"
  /\ spawner' = [spawner EXCEPT ![i] = "failed"]
  /\ event' = EventAfterClose(opened, spawner')
  /\ UNCHANGED <<pc, mutex, opened>>

(* The spawn reports success and ends.                                     *)
SpawnEnds(i) ==
  /\ spawner[i] = "ready"
  /\ spawner' = [spawner EXCEPT ![i] = "done"]
  /\ event' = EventAfterClose(opened, spawner')
  /\ UNCHANGED <<pc, mutex, opened>>

-----------------------------------------------------------------------------
(* Service::Start, in the order of its calls.                              *)

(* Mutant: the wait has no timeout.                                        *)
AcquireServiceMutexForever(i) ==
  /\ mutex = Free
  /\ Goto(i, "acquire", "open_event")
  /\ mutex' = i
  /\ UNCHANGED <<spawner, event, opened>>

(* The mutex is free or abandoned; or it cannot be created or waited for,  *)
(* or another instance keeps it for longer than a second.                  *)
AcquireServiceMutex(i) ==
  /\ \/ mutex = Free /\ Goto(i, "acquire", "open_event") /\ mutex' = i
     \/ Goto(i, "acquire", "stop") /\ UNCHANGED mutex
  /\ UNCHANGED <<spawner, event, opened>>

OpenServiceEvent(i) ==
  /\ \/ Goto(i, "open_event", "init_rpc") /\ opened' = opened \union {i}
     \/ Goto(i, "open_event", "stop") /\ UNCHANGED opened
  /\ UNCHANGED <<spawner, mutex, event>>

(* Start gives up the mutex, and keeps the event, if the RPC stack cannot  *)
(* be initialized.                                                         *)
InitializeRpc(i) ==
  /\ \/ Goto(i, "init_rpc", "listen") /\ UNCHANGED mutex
     \/ Goto(i, "init_rpc", "stop") /\ mutex' = ReleasedBy(i)
  /\ UNCHANGED <<spawner, event, opened>>

RpcServerListen(i) ==
  /\ Goto(i, "listen", "set_event") \/ Goto(i, "listen", "stop")
  /\ UNCHANGED <<spawner, mutex, event, opened>>

(* Signal that the service is up: every spawn that waits is released.      *)
SetEvent(i) ==
  /\ Goto(i, "set_event", "serving")
  /\ event' = TRUE
  /\ spawner' = [j \in Instances |->
                   IF spawner[j] = "waiting" THEN "ready" ELSE spawner[j]]
  /\ UNCHANGED <<mutex, opened>>

-----------------------------------------------------------------------------
(* A client's request ends the wait of RunRPC, and Stop waits for the      *)
(* sessions, which still write.  An instance that never served has none.   *)
RequestShutdown(i) ==
  /\ Goto(i, "serving", "drain")
  /\ UNCHANGED <<spawner, mutex, event, opened>>

(* Mutant: the mutex is given up before the sessions are drained.          *)
ReleaseServiceMutexEarly(i) ==
  \/ /\ pc[i] = "drain" /\ mutex = i
     /\ mutex' = Free
     /\ UNCHANGED <<pc, spawner, event, opened>>
  \/ /\ Goto(i, "drain", "reset_event") \/ Goto(i, "stop", "reset_event")
     /\ mutex' = ReleasedBy(i)
     /\ UNCHANGED <<spawner, event, opened>>

(* Stop gives up the mutex when no session is left ...                     *)
ReleaseServiceMutex(i) ==
  /\ Goto(i, "drain", "reset_event") \/ Goto(i, "stop", "reset_event")
  /\ mutex' = ReleasedBy(i)
  /\ UNCHANGED <<spawner, event, opened>>

(* ... and then "signal that we've shut down", if the event was ever       *)
(* opened.  A successor may have signaled the event in between: its spawn, *)
(* if it has yet to look, then waits for as long as the successor serves.  *)
ResetEvent(i) ==
  /\ Goto(i, "reset_event", "exited")
  /\ event' = (event /\ i \notin opened)
  /\ opened' = opened \ {i}
  /\ UNCHANGED <<spawner, mutex>>

(* The system closes the handles of a process that dies, and its mutex is  *)
(* abandoned.                                                              *)
Crash(i) ==
  /\ CanCrash
  /\ pc[i] \notin {"off", "exited"}
  /\ pc' = [pc EXCEPT ![i] = "exited"]
  /\ mutex' = ReleasedBy(i)
  /\ opened' = opened \ {i}
  /\ event' = EventAfterClose(opened', spawner)
  /\ UNCHANGED spawner

-----------------------------------------------------------------------------
Init ==
  /\ pc = [i \in Instances |-> "off"]
  /\ spawner = [i \in Instances |-> "off"]
  /\ mutex = Free
  /\ event = FALSE
  /\ opened = {}

ServiceStep(i) ==
  \/ AcquireServiceMutex(i) \/ OpenServiceEvent(i) \/ InitializeRpc(i)
  \/ RpcServerListen(i) \/ SetEvent(i) \/ ReleaseServiceMutex(i)
  \/ ResetEvent(i)

SpawnStep(i) == WaitForService(i) \/ ServiceExitedInError(i) \/ SpawnEnds(i)

(* Every process has ended.                                                *)
Done ==
  /\ \A i \in Instances : pc[i] = "exited" /\ spawner[i] \in {"done", "failed"}
  /\ UNCHANGED vars

Next ==
  \/ \E i \in Instances : \/ LaunchProcess(i) \/ SpawnStep(i)
                          \/ ServiceStep(i) \/ RequestShutdown(i) \/ Crash(i)
  \/ Done

Spec == Init /\ [][Next]_vars

(* Processes run; nobody has to spawn a service or to shut one down.       *)
Fairness ==
  \A i \in Instances : WF_vars(ServiceStep(i)) /\ WF_vars(SpawnStep(i))

FairSpec == Spec /\ Fairness

-----------------------------------------------------------------------------
(* Properties.                                                             *)

Running == {i \in Instances : pc[i] \notin {"off", "exited"}}
AtWork == {i \in Instances : pc[i] \in {"set_event", "serving", "drain"}}

(* The type of every variable; only running processes hold handles.        *)
TypeOK ==
  /\ pc \in [Instances -> {"off", "acquire", "open_event", "init_rpc", "listen",
                           "set_event", "serving", "drain", "stop",
                           "reset_event", "exited"}]
  /\ spawner \in [Instances -> {"off", "launched", "waiting", "ready", "failed",
                                "done"}]
  /\ mutex \in Instances \union {Free}
  /\ event \in BOOLEAN
  /\ opened \in SUBSET Running

(* "Another instance of the service is running": no instance accepts calls *)
(* while another one does, or while another one still drains its sessions, *)
(* whatever fails or crashes.                                              *)
OneService == \A i, j \in AtWork : i = j

(* An instance that starts either serves or exits: it does not wait for    *)
(* another instance to stop.                                               *)
StartSettles ==
  \A i \in Instances : pc[i] = "acquire" ~> pc[i] \in {"serving", "exited"}

(* The spawn waits for the service event and for the process it launched:  *)
(* once that process has ended, orderly or not and at whatever moment, its *)
(* spawn ends as well.  It need not report a failure, as another instance  *)
(* may have signaled the event; and nothing is said of the spawn of a      *)
(* process that lives, which can miss the event: see ResetEvent.           *)
SpawnEndsWithService ==
  \A i \in Instances : pc[i] = "exited" ~> spawner[i] \in {"done", "failed"}
=============================================================================
