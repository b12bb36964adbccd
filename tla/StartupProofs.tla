--------------------------- MODULE StartupProofs ---------------------------
(***************************************************************************)
(* The service mutex makes the call trace service unique among any number  *)
(* of processes with the same instance id.                                 *)
(***************************************************************************)
EXTENDS Startup, TLAPS

(* An instance has the mutex from AcquireServiceMutex until its sessions   *)
(* are drained; only InitializeRpc's failure gives it up before that.      *)
StartingHoldsMutex ==
  \A i \in Instances :
    pc[i] \in {"open_event", "init_rpc", "listen", "set_event", "serving",
               "drain"} => mutex = i

(* The inductive invariant.                                                *)
StartupInv == TypeOK /\ StartingHoldsMutex

(* Nothing runs at first.                                                  *)
LEMMA StartupInitInv == Init => StartupInv
  BY Zenon DEF Init, StartupInv, TypeOK, StartingHoldsMutex, Running

(* A step of Service::Start keeps the types and the mutex.                 *)
LEMMA StartStep ==
  ASSUME StartupInv, NEW i \in Instances,
         \/ AcquireServiceMutex(i) \/ OpenServiceEvent(i) \/ InitializeRpc(i)
         \/ RpcServerListen(i) \/ SetEvent(i)
  PROVE  StartupInv'
<1> USE StartupAssumption DEF StartupInv, TypeOK, StartingHoldsMutex, Running,
                              Goto, ReleasedBy
<1>1. CASE AcquireServiceMutex(i)
  BY <1>1 DEF AcquireServiceMutex
<1>2. CASE OpenServiceEvent(i)
  BY <1>2 DEF OpenServiceEvent
<1>3. CASE InitializeRpc(i)
  BY <1>3 DEF InitializeRpc
<1>4. CASE RpcServerListen(i)
  BY <1>4 DEF RpcServerListen
<1>5. CASE SetEvent(i)
  BY <1>5 DEF SetEvent
<1> QED
  BY <1>1, <1>2, <1>3, <1>4, <1>5

(* So does a step of Service::Stop or the death of the process.            *)
LEMMA StopStep ==
  ASSUME StartupInv, NEW i \in Instances,
         \/ RequestShutdown(i) \/ ReleaseServiceMutex(i) \/ ResetEvent(i)
         \/ Crash(i)
  PROVE  StartupInv'
<1> USE StartupAssumption DEF StartupInv, TypeOK, StartingHoldsMutex, Running,
                              Goto, ReleasedBy
<1>1. CASE RequestShutdown(i)
  BY <1>1 DEF RequestShutdown
<1>2. CASE ReleaseServiceMutex(i)
  BY <1>2 DEF ReleaseServiceMutex
<1>3. CASE ResetEvent(i)
  BY <1>3 DEF ResetEvent
<1>4. CASE Crash(i)
  BY <1>4 DEF Crash, EventAfterClose
<1> QED
  BY <1>1, <1>2, <1>3, <1>4

(* The spawn command never touches the mutex.                              *)
LEMMA SpawnerStep ==
  ASSUME StartupInv, NEW i \in Instances,
         \/ LaunchProcess(i) \/ WaitForService(i) \/ ServiceExitedInError(i)
         \/ SpawnEnds(i)
  PROVE  StartupInv'
<1> USE DEF StartupInv, TypeOK, StartingHoldsMutex, Running, Goto
<1>1. CASE LaunchProcess(i)
  BY <1>1 DEF LaunchProcess
<1>2. CASE WaitForService(i)
  BY <1>2 DEF WaitForService
<1>3. CASE ServiceExitedInError(i)
  BY <1>3 DEF ServiceExitedInError, EventAfterClose
<1>4. CASE SpawnEnds(i)
  BY <1>4 DEF SpawnEnds, EventAfterClose
<1> QED
  BY <1>1, <1>2, <1>3, <1>4

(* Every step keeps the inductive invariant.                               *)
LEMMA StartupNextInv == StartupInv /\ [Next]_vars => StartupInv'
<1> SUFFICES ASSUME StartupInv, [Next]_vars PROVE StartupInv'
  OBVIOUS
<1>1. CASE UNCHANGED vars
  BY <1>1 DEF vars, StartupInv, TypeOK, StartingHoldsMutex, Running
<1>2. ASSUME NEW i \in Instances,
             \/ LaunchProcess(i) \/ SpawnStep(i) \/ ServiceStep(i)
             \/ RequestShutdown(i) \/ Crash(i)
      PROVE  StartupInv'
  BY <1>2, StartStep, StopStep, SpawnerStep DEF ServiceStep, SpawnStep
<1> QED
  BY <1>1, <1>2 DEF Next, Done

(* At most one process with an instance id accepts the calls of clients or *)
(* still drains its sessions, however many are started, fail, stop or      *)
(* crash.                                                                  *)
THEOREM ServiceIsUnique == Spec => []OneService
<1>1. StartupInv => OneService
  BY DEF StartupInv, StartingHoldsMutex, OneService, AtWork
<1> QED
  BY <1>1, StartupInitInv, StartupNextInv, PTL DEF Spec

(* Every variable keeps its type; only running processes hold handles to   *)
(* the service event, so that it disappears with the last of them.         *)
THEOREM StartupTypeCorrect == Spec => []TypeOK
<1>1. StartupInv => TypeOK
  BY DEF StartupInv
<1> QED
  BY <1>1, StartupInitInv, StartupNextInv, PTL DEF Spec
=============================================================================
