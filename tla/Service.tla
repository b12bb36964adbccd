------------------------------ MODULE Service ------------------------------
(***************************************************************************)
(* trace::service::Service: its table of sessions, the count of active     *)
(* sessions, the RPC entry points that create, use and close sessions, the *)
(* writer thread that runs the tasks the sessions post, and the owner      *)
(* thread that starts and stops the service.  A Session object (module     *)
(* Session) is reduced to what the service sees of it: the references that *)
(* keep it alive, one of them held by every task it has posted.            *)
(***************************************************************************)
EXTENDS Naturals, Sequences, FiniteSets, Functions

CONSTANTS
  Clients,      \* client agents; each has at most one call in progress
  Pids,         \* process ids
  PidOf,        \* the process each agent runs in
  Objects,      \* identities of the Session objects that can be created
  None,         \* the NULL pointer
  MaxTasks,     \* bound on the tasks waiting when a buffer is returned
  MaxFlush      \* bound on the buffers a session has outstanding at Close

ASSUME ServiceAssumption ==
  /\ PidOf \in [Clients -> Pids]
  /\ None \notin Objects
  /\ IsFiniteSet(Objects) /\ IsFiniteSet(Clients)
  /\ MaxTasks \in Nat /\ MaxFlush \in Nat

VARIABLES
  sessions_,             \* the open session of each process
  num_active_sessions_,
  rpc_is_running_,
  mutex,                 \* the service mutex is held by this instance
  owner,                 \* where the owner thread is
  non_blocking,          \* the mode the service was started in
  to_close,              \* the sessions CloseAllOpenSessions has swapped out
  life,                  \* whether each Session object exists
  is_closing_,           \* the sessions whose Close has been called
  consumer,              \* the buffer consumer of each session
  cpc, cobj, handle,     \* of each client: its call, the reference the call
                         \* holds, and its session handle
  queue,                 \* the session of every posted WriteBuffer task
  wpc                    \* where the writer thread is

vars == <<sessions_, num_active_sessions_, rpc_is_running_, mutex, owner,
          non_blocking, to_close, life, is_closing_, consumer, cpc, cobj,
          handle, queue, wpc>>
clientVars == <<cpc, cobj, handle>>
ownerVars == <<mutex, owner, non_blocking, to_close>>

InMap(s) == \E p \in Pids : sessions_[p] = s
InFlight == \E c \in Clients : cpc[c] # "idle"

-----------------------------------------------------------------------------
(* References.  The thread that drops the last one runs ~Session.          *)

(* ~Session up to RemoveOneActiveSession.                                  *)
Destruct(s) ==
  /\ life' = [life EXCEPT ![s] = "destroyed"]
  /\ consumer' = [consumer EXCEPT ![s] = IF @ = "open" THEN "closed" ELSE @]

(* Mutant: a posted task does not keep its session alive.                  *)
ReferencedIgnoresTasks(s, C, q) ==
  \/ InMap(s) \/ s \in to_close
  \/ \E d \in Clients \ C : cobj[d] = s

(* Whether s stays referenced when the calls of C have dropped it and the  *)
(* tasks of q are left.                                                    *)
Referenced(s, C, q) ==
  \/ InMap(s) \/ s \in to_close \/ s \in Range(q)
  \/ \E d \in Clients \ C : cobj[d] = s

(* The call of c returns and its scoped_refptr goes out of scope; q is the *)
(* task queue by then.                                                     *)
DropAndReturn(c, q) ==
  LET s == cobj[c]
  IN  /\ cobj' = [cobj EXCEPT ![c] = None]
      /\ \/ /\ Referenced(s, {c}, q)
            /\ cpc' = [cpc EXCEPT ![c] = "idle"]
            /\ UNCHANGED <<life, consumer>>
         \/ /\ ~Referenced(s, {c}, q)
            /\ cpc' = [cpc EXCEPT ![c] = "decrement"]
            /\ Destruct(s)

Step(c, from, to) == cpc[c] = from /\ cpc' = [cpc EXCEPT ![c] = to]

(* RemoveOneActiveSession: the count goes down under the lock, the signal  *)
(* is sent after it has been released.                                     *)
RemoveOneActiveSession == num_active_sessions_' = num_active_sessions_ - 1

(* Mutant: nobody is told.                                                 *)
SignalSessionHasClosedLost == UNCHANGED owner

SignalSessionHasClosed ==
  owner' = IF owner = "waiting" THEN "woken" ELSE owner

-----------------------------------------------------------------------------
(* The RPC entry points.                                                   *)

CanCall(c) == cpc[c] = "idle" /\ rpc_is_running_

(* CreateSession and GetNewSession up to the construction of the object.   *)
NewSession(c) ==
  /\ CanCall(c) /\ handle[c] = None
  /\ Step(c, "idle", "init")
  /\ \E s \in Objects :
       /\ life[s] = "none"
       /\ life' = [life EXCEPT ![s] = "alive"]
       /\ cobj' = [cobj EXCEPT ![c] = s]
  /\ num_active_sessions_' = num_active_sessions_ + 1
  /\ UNCHANGED <<sessions_, rpc_is_running_, is_closing_, consumer, handle,
                 queue, wpc, ownerVars>>

(* Mutant: a session that fails to initialize is not uncounted.            *)
InitSessionUncounted(c) ==
  /\ cpc[c] = "init"
  /\ \/ /\ cpc' = [cpc EXCEPT ![c] = "insert"]
        /\ consumer' = [consumer EXCEPT ![cobj[c]] = "open"]
        /\ UNCHANGED <<life, cobj>>
     \/ /\ cpc' = [cpc EXCEPT ![c] = "idle"]
        /\ cobj' = [cobj EXCEPT ![c] = None]
        /\ Destruct(cobj[c])
  /\ UNCHANGED <<sessions_, num_active_sessions_, rpc_is_running_, is_closing_,
                 handle, queue, wpc, ownerVars>>

(* Session::Init, CreateConsumer and BufferConsumer::Open; any can fail.   *)
InitSession(c) ==
  /\ \/ /\ Step(c, "init", "insert")
        /\ consumer' = [consumer EXCEPT ![cobj[c]] = "open"]
        /\ UNCHANGED <<life, cobj>>
     \/ cpc[c] = "init" /\ DropAndReturn(c, queue)
  /\ UNCHANGED <<sessions_, num_active_sessions_, rpc_is_running_, is_closing_,
                 handle, queue, wpc, ownerVars>>

(* Mutant: the entry of the process is replaced.                           *)
InsertSessionReplaces(c) ==
  /\ Step(c, "insert", "first_buffer")
  /\ sessions_' = [sessions_ EXCEPT ![PidOf[c]] = cobj[c]]
  /\ UNCHANGED <<num_active_sessions_, rpc_is_running_, life, is_closing_,
                 consumer, cobj, handle, queue, wpc, ownerVars>>

InsertSession(c) ==
  /\ \/ /\ sessions_[PidOf[c]] = None
        /\ Step(c, "insert", "first_buffer")
        /\ sessions_' = [sessions_ EXCEPT ![PidOf[c]] = cobj[c]]
     \/ /\ sessions_[PidOf[c]] # None
        /\ Step(c, "insert", "duplicate")
        /\ UNCHANGED sessions_
  /\ UNCHANGED <<num_active_sessions_, rpc_is_running_, life, is_closing_,
                 consumer, cobj, handle, queue, wpc, ownerVars>>

(* Mutant: the consumer of the session that exists is closed.              *)
RejectDuplicateClosesOther(c) ==
  /\ Step(c, "duplicate", "close")
  /\ consumer' = [s \in Objects |->
                    IF s = sessions_[PidOf[c]] THEN "closed" ELSE consumer[s]]
  /\ UNCHANGED <<sessions_, num_active_sessions_, rpc_is_running_, life,
                 is_closing_, cobj, handle, queue, wpc, ownerVars>>

(* A session exists for this process: the consumer of the new one is       *)
(* closed, then the new session is.                                        *)
RejectDuplicate(c) ==
  /\ Step(c, "duplicate", "close")
  /\ consumer' = [consumer EXCEPT ![cobj[c]] = "closed"]
  /\ UNCHANGED <<sessions_, num_active_sessions_, rpc_is_running_, life,
                 is_closing_, cobj, handle, queue, wpc, ownerVars>>

(* CreateSession asks for the client's first buffer.                       *)
GetFirstBuffer(c) ==
  /\ \/ /\ cpc[c] = "first_buffer"
        /\ handle' = [handle EXCEPT ![c] = cobj[c]]
        /\ DropAndReturn(c, queue)
     \/ Step(c, "first_buffer", "erasing") /\ UNCHANGED <<handle, life, consumer, cobj>>
  /\ UNCHANGED <<sessions_, num_active_sessions_, rpc_is_running_, is_closing_,
                 queue, wpc, ownerVars>>

(* It could not have one: the session is erased, without lock_, so that    *)
(* the erasure overlaps whatever other threads do until it is done.        *)
EraseFailedSession(c) ==
  /\ Step(c, "erasing", "close")
  /\ sessions_' = [sessions_ EXCEPT ![PidOf[c]] = None]
  /\ UNCHANGED <<num_active_sessions_, rpc_is_running_, life, is_closing_,
                 consumer, cobj, handle, queue, wpc, ownerVars>>

(* AllocateBuffer, AllocateLargeBuffer and CommitAndExchangeBuffer begin   *)
(* by taking a reference to the session the handle points to ...           *)
GetExistingSession(c) ==
  /\ CanCall(c) /\ handle[c] # None
  /\ Step(c, "idle", "use")
  /\ cobj' = [cobj EXCEPT ![c] = handle[c]]
  /\ UNCHANGED <<sessions_, num_active_sessions_, rpc_is_running_, life,
                 is_closing_, consumer, handle, queue, wpc, ownerVars>>

(* ... and drop it when they return; a returned buffer has been posted.    *)
(* Before they have the next buffer they may have to wait for one.  (The   *)
(* first one never waits: no buffer of a new session is write-pending.)    *)
UseSession(c) ==
  /\ cpc[c] = "use"
  /\ \/ UNCHANGED queue
     \/ Len(queue) < MaxTasks /\ queue' = Append(queue, cobj[c])
  /\ \/ DropAndReturn(c, queue')
     \/ Step(c, "use", "wait") /\ UNCHANGED <<life, consumer, cobj>>
  /\ UNCHANGED <<sessions_, num_active_sessions_, rpc_is_running_, is_closing_,
                 handle, wpc, ownerVars>>

(* The session's wait is over.  Module Session tells when: not always.     *)
FinishWait(c) ==
  /\ cpc[c] = "wait"
  /\ DropAndReturn(c, queue)
  /\ UNCHANGED <<sessions_, num_active_sessions_, rpc_is_running_, is_closing_,
                 handle, queue, wpc, ownerVars>>

(* Mutant: the session stays in the map.                                   *)
CloseSessionKeepsEntry(c) ==
  /\ CanCall(c) /\ handle[c] # None
  /\ Step(c, "idle", "close")
  /\ cobj' = [cobj EXCEPT ![c] = handle[c]]
  /\ handle' = [handle EXCEPT ![c] = None]
  /\ UNCHANGED <<sessions_, num_active_sessions_, rpc_is_running_, life,
                 is_closing_, consumer, queue, wpc, ownerVars>>

(* CloseSession, called by the client or by the rundown of its handle when *)
(* it has died.                                                            *)
CloseSession(c) ==
  /\ CanCall(c) /\ handle[c] # None
  /\ Step(c, "idle", "close")
  /\ cobj' = [cobj EXCEPT ![c] = handle[c]]
  /\ handle' = [handle EXCEPT ![c] = None]
  /\ sessions_' = [sessions_ EXCEPT ![PidOf[c]] = None]
  /\ UNCHANGED <<num_active_sessions_, rpc_is_running_, life, is_closing_,
                 consumer, queue, wpc, ownerVars>>

(* Session::Close posts the outstanding buffers and the process ended      *)
(* event; nothing is posted when there is no memory for the event, or when *)
(* the session is closing already.                                         *)
Flushed(s) ==
  IF s \in is_closing_ THEN {queue}
  ELSE {queue \o [i \in 1 .. n |-> s] : n \in 0 .. MaxFlush}

FinishClose(c) ==
  /\ cpc[c] = "close"
  /\ is_closing_' = is_closing_ \union {cobj[c]}
  /\ queue' \in Flushed(cobj[c])
  /\ DropAndReturn(c, queue')
  /\ UNCHANGED <<sessions_, num_active_sessions_, rpc_is_running_, handle, wpc,
                 ownerVars>>

ClientDecrements(c) ==
  /\ Step(c, "decrement", "signal")
  /\ RemoveOneActiveSession
  /\ UNCHANGED <<sessions_, rpc_is_running_, life, is_closing_, consumer, cobj,
                 handle, queue, wpc, ownerVars>>

ClientSignals(c) ==
  /\ Step(c, "signal", "idle")
  /\ SignalSessionHasClosed
  /\ UNCHANGED <<sessions_, num_active_sessions_, rpc_is_running_, life,
                 is_closing_, consumer, cobj, handle, queue, wpc, mutex,
                 non_blocking, to_close>>

(* StopRpc under the lock: no further calls are accepted.                  *)
RequestShutdown(c) ==
  /\ CanCall(c)
  /\ rpc_is_running_' = FALSE
  /\ UNCHANGED <<sessions_, num_active_sessions_, life, is_closing_, consumer,
                 queue, wpc, clientVars, ownerVars>>

-----------------------------------------------------------------------------
(* The writer thread: it runs a task and drops the task's reference.       *)

RunTask ==
  /\ wpc = "idle"
  /\ queue # <<>>
  /\ queue' = Tail(queue)
  /\ LET s == Head(queue)
     IN  \/ /\ Referenced(s, {}, Tail(queue))
            /\ UNCHANGED <<wpc, life, consumer>>
         \/ /\ ~Referenced(s, {}, Tail(queue))
            /\ wpc' = "decrement"
            /\ Destruct(s)
  /\ UNCHANGED <<sessions_, num_active_sessions_, rpc_is_running_, is_closing_,
                 clientVars, ownerVars>>

WriterDecrements ==
  /\ wpc = "decrement"
  /\ wpc' = "signal"
  /\ RemoveOneActiveSession
  /\ UNCHANGED <<sessions_, rpc_is_running_, life, is_closing_, consumer, queue,
                 clientVars, ownerVars>>

WriterSignals ==
  /\ wpc = "signal"
  /\ wpc' = "idle"
  /\ SignalSessionHasClosed
  /\ UNCHANGED <<sessions_, num_active_sessions_, rpc_is_running_, life,
                 is_closing_, consumer, queue, clientVars, mutex, non_blocking,
                 to_close>>

-----------------------------------------------------------------------------
(* The owner thread.                                                       *)

(* Start: the mutex, the event, the RPC stack and the listener in turn;    *)
(* the service is only up if all succeed.  A failure leaves the mutex held *)
(* except when it is the RPC stack that fails; ~Service stops it then.     *)
Start ==
  /\ owner = "off"
  /\ \/ /\ owner' = "serving"
        /\ mutex' = TRUE
        /\ rpc_is_running_' = TRUE
        /\ non_blocking' \in BOOLEAN
     \/ /\ owner' = "swap"
        /\ mutex' \in BOOLEAN
        /\ UNCHANGED <<rpc_is_running_, non_blocking>>
  /\ UNCHANGED <<sessions_, num_active_sessions_, to_close, life, is_closing_,
                 consumer, clientVars, queue, wpc>>

(* Stop begins: in blocking mode once Start has returned, after a shutdown *)
(* request and the end of every call in progress.                          *)
StopRpc ==
  /\ owner = "serving"
  /\ non_blocking \/ (~rpc_is_running_ /\ ~InFlight)
  /\ owner' = "cleanup"
  /\ rpc_is_running_' = FALSE
  /\ UNCHANGED <<sessions_, num_active_sessions_, mutex, non_blocking, to_close,
                 life, is_closing_, consumer, clientVars, queue, wpc>>

(* In non-blocking mode RpcMgmtWaitServerListen waits for the calls in     *)
(* progress.                                                               *)
CleanupRpc ==
  /\ owner = "cleanup"
  /\ non_blocking => ~InFlight
  /\ owner' = "swap"
  /\ non_blocking' = FALSE
  /\ UNCHANGED <<sessions_, num_active_sessions_, rpc_is_running_, mutex,
                 to_close, life, is_closing_, consumer, clientVars, queue, wpc>>

(* CloseAllOpenSessions: take the sessions out of the map, ...             *)
SwapSessions ==
  /\ owner = "swap"
  /\ owner' = "close"
  /\ to_close' = Range(sessions_) \ {None}
  /\ sessions_' = [p \in Pids |-> None]
  /\ UNCHANGED <<num_active_sessions_, rpc_is_running_, mutex, non_blocking,
                 life, is_closing_, consumer, clientVars, queue, wpc>>

(* ... close each, ...                                                     *)
CloseOpenSession ==
  /\ owner = "close"
  /\ \/ \E s \in to_close \ is_closing_ :
          /\ is_closing_' = is_closing_ \union {s}
          /\ queue' \in Flushed(s)
          /\ UNCHANGED owner
     \/ /\ to_close \subseteq is_closing_
        /\ owner' = "clear"
        /\ UNCHANGED <<is_closing_, queue>>
  /\ UNCHANGED <<sessions_, num_active_sessions_, rpc_is_running_, mutex,
                 non_blocking, to_close, life, consumer, clientVars, wpc>>

(* ... release the references one by one, running ~Session for a session   *)
(* nothing else refers to (its signal finds nobody waiting), ...           *)
ClearToClose ==
  /\ owner = "clear"
  /\ \E s \in to_close :
       /\ to_close' = to_close \ {s}
       /\ \/ /\ s \in Range(queue)
             /\ UNCHANGED <<num_active_sessions_, life, consumer>>
          \/ /\ s \notin Range(queue)
             /\ RemoveOneActiveSession
             /\ Destruct(s)
  /\ UNCHANGED <<sessions_, rpc_is_running_, mutex, owner, non_blocking,
                 is_closing_, clientVars, queue, wpc>>

(* Mutant: the count is not read again after the wait.                     *)
WaitForSessionsOnce ==
  /\ \/ owner = "clear" /\ to_close = {}
     \/ owner = "woken"
  /\ owner' = IF owner = "woken" \/ num_active_sessions_ = 0 THEN "release"
              ELSE "waiting"
  /\ UNCHANGED <<sessions_, num_active_sessions_, rpc_is_running_, mutex,
                 non_blocking, to_close, life, is_closing_, consumer,
                 clientVars, queue, wpc>>

(* ... and wait until no session is active.                                *)
WaitForSessions ==
  /\ \/ owner = "clear" /\ to_close = {}
     \/ owner = "woken"
  /\ owner' = IF num_active_sessions_ = 0 THEN "release" ELSE "waiting"
  /\ UNCHANGED <<sessions_, num_active_sessions_, rpc_is_running_, mutex,
                 non_blocking, to_close, life, is_closing_, consumer,
                 clientVars, queue, wpc>>

SpuriousWakeup ==
  /\ owner = "waiting"
  /\ owner' = "woken"
  /\ UNCHANGED <<sessions_, num_active_sessions_, rpc_is_running_, mutex,
                 non_blocking, to_close, life, is_closing_, consumer,
                 clientVars, queue, wpc>>

ReleaseServiceMutex ==
  /\ owner = "release"
  /\ owner' = "stopped"
  /\ mutex' = FALSE
  /\ UNCHANGED <<sessions_, num_active_sessions_, rpc_is_running_,
                 non_blocking, to_close, life, is_closing_, consumer,
                 clientVars, queue, wpc>>

-----------------------------------------------------------------------------
Init ==
  /\ sessions_ = [p \in Pids |-> None]
  /\ num_active_sessions_ = 0
  /\ rpc_is_running_ = FALSE
  /\ mutex = FALSE
  /\ owner = "off"
  /\ non_blocking = FALSE
  /\ to_close = {}
  /\ life = [s \in Objects |-> "none"]
  /\ is_closing_ = {}
  /\ consumer = [s \in Objects |-> "none"]
  /\ cpc = [c \in Clients |-> "idle"]
  /\ cobj = [c \in Clients |-> None]
  /\ handle = [c \in Clients |-> None]
  /\ queue = <<>>
  /\ wpc = "idle"

ClientStep(c) ==
  \/ InitSession(c) \/ InsertSession(c) \/ RejectDuplicate(c)
  \/ GetFirstBuffer(c) \/ EraseFailedSession(c) \/ UseSession(c)
  \/ FinishClose(c) \/ ClientDecrements(c) \/ ClientSignals(c)

WriterStep == RunTask \/ WriterDecrements \/ WriterSignals

StopStep ==
  \/ CleanupRpc \/ SwapSessions \/ CloseOpenSession \/ ClearToClose
  \/ WaitForSessions \/ ReleaseServiceMutex

(* The service has stopped and no task is left.                            *)
Done ==
  /\ owner = "stopped" /\ wpc = "idle"
  /\ UNCHANGED vars

Next ==
  \/ \E c \in Clients : \/ NewSession(c) \/ GetExistingSession(c)
                        \/ CloseSession(c) \/ RequestShutdown(c)
                        \/ ClientStep(c) \/ FinishWait(c)
  \/ WriterStep
  \/ Start \/ StopRpc \/ StopStep \/ SpuriousWakeup
  \/ Done

Spec == Init /\ [][Next]_vars

(* Calls in progress, the writer's message loop and a Stop that has begun  *)
(* keep running, but for a call that waits for a buffer of its session.    *)
(* Clients need never call, and the owner need never stop.                 *)
Fairness ==
  /\ \A c \in Clients : WF_vars(ClientStep(c))
  /\ WF_vars(WriterStep)
  /\ WF_vars(StopStep)

FairSpec == Spec /\ Fairness

-----------------------------------------------------------------------------
(* Properties.                                                             *)

Active == {s \in Objects : life[s] = "alive"}

(* The threads inside ~Session that have yet to lower the count.           *)
Decrementing ==
  Cardinality({c \in Clients : cpc[c] = "decrement"}) +
  (IF wpc = "decrement" THEN 1 ELSE 0)

(* The type of every variable of the service.                              *)
TypeOK ==
  /\ sessions_ \in [Pids -> Objects \union {None}]
  /\ num_active_sessions_ \in Nat
  /\ rpc_is_running_ \in BOOLEAN /\ mutex \in BOOLEAN
  /\ owner \in {"off", "serving", "cleanup", "swap", "close", "clear",
                "waiting", "woken", "release", "stopped"}
  /\ non_blocking \in BOOLEAN
  /\ to_close \in SUBSET Objects
  /\ life \in [Objects -> {"none", "alive", "destroyed"}]
  /\ is_closing_ \in SUBSET Objects
  /\ consumer \in [Objects -> {"none", "open", "closed"}]
  /\ cpc \in [Clients -> {"idle", "init", "insert", "duplicate", "first_buffer",
                          "erasing", "use", "wait", "close", "decrement", "signal"}]
  /\ cobj \in [Clients -> Objects \union {None}]
  /\ handle \in [Clients -> Objects \union {None}]
  /\ queue \in Seq(Objects)
  /\ wpc \in {"idle", "decrement", "signal"}

(* num_active_sessions_ counts the sessions that exist and the ones whose  *)
(* destructor has not lowered it yet: neither the error paths of           *)
(* CreateSession nor the thread a session happens to die on lose one.      *)
ActiveSessionsAreCounted ==
  num_active_sessions_ = Cardinality(Active) + Decrementing

(* No pointer dangles: the map, the sessions being closed, the calls and   *)
(* the tasks refer to sessions that exist.                                 *)
ReferencesAreAlive ==
  /\ TypeOK
  /\ (Range(sessions_) \union to_close \union Range(cobj) \union Range(queue))
       \ {None} \subseteq Active

(* The RPC layer passes raw Session pointers: while calls are accepted     *)
(* every handle a client holds is the open session of its own process, and *)
(* no two clients hold the same one.                                       *)
HandlesAreOpenSessions ==
  rpc_is_running_ =>
    \A c \in Clients : handle[c] # None =>
      /\ sessions_[PidOf[c]] = handle[c]
      /\ \A d \in Clients \ {c} : handle[d] # handle[c]

(* Stop returns after "all call trace buffers have been flushed, all       *)
(* sessions have been closed": this instance does not let go of the mutex, *)
(* and lets no other instance start, while it has a session, a task or a   *)
(* call left.                                                              *)
StoppedIsDrained ==
  /\ owner = "stopped" => ~mutex
  /\ ~mutex => Active = {} /\ queue = <<>> /\ ~InFlight

(* A session that a client can still reach, or that CloseAllOpenSessions   *)
(* is about to close, has an open consumer to write its buffers, although  *)
(* the consumer of a rejected duplicate is closed before that session has  *)
(* handed over its last buffer.                                            *)
OpenSessionsHaveConsumers ==
  \A s \in (Range(sessions_) \union to_close) \ {None} : consumer[s] = "open"

(* No call waits for a buffer for ever.  The sessions do not promise it:   *)
(* the wait ends only when a buffer of that size is recycled.              *)
CallsAreAnswered == \A c \in Clients : []<>(cpc[c] # "wait")

(* If so, Stop returns once it has begun, whichever thread the last        *)
(* session dies on.                                                        *)
StopReturns == CallsAreAnswered => (owner = "cleanup" ~> owner = "stopped")

(* If so, a session that has been closed is eventually destroyed.          *)
ClosedSessionsDie ==
  CallsAreAnswered => \A s \in Objects : s \in is_closing_ ~> life[s] = "destroyed"

=============================================================================
