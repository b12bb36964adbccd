---------------------------- MODULE ServiceProofs ---------------------------
(***************************************************************************)
(* The service's table of sessions, for any number of clients, processes   *)
(* and sessions: sessions are counted, no reference dangles, and Stop      *)
(* leaves nothing behind.                                                  *)
(***************************************************************************)
EXTENDS Service, FiniteSetTheorems, TLAPS

-----------------------------------------------------------------------------
(* The inductive invariant, in parts.                                      *)

(* The steps of CreateSession before the session is in the map, and while  *)
(* the call still owns its entry.                                          *)
Building == {"init", "insert", "duplicate"}
Entering == {"first_buffer", "erasing"}
Holding == Building \union Entering \union {"use", "wait", "close"}

(* A call holds a reference exactly in these steps, and a client has no    *)
(* handle while its session is being created or closed.                    *)
CallsOK ==
  \A c \in Clients :
    /\ cobj[c] # None <=> cpc[c] \in Holding
    /\ cpc[c] \in Holding \ {"use", "wait"} => handle[c] = None

RefsOK ==
  /\ \A p \in Pids : sessions_[p] # None => life[sessions_[p]] = "alive"
  /\ \A s \in to_close : life[s] = "alive"
  /\ \A c \in Clients : cobj[c] # None => life[cobj[c]] = "alive"
  /\ \A s \in Range(queue) : life[s] = "alive"

(* What the owner thread has done so far.                                  *)
Open == owner \in {"off", "serving", "cleanup"}

OwnerOK ==
  /\ rpc_is_running_ => owner = "serving"
  /\ owner = "off" => ~InFlight /\ \A c \in Clients : handle[c] = None
  /\ owner = "cleanup" => non_blocking \/ ~InFlight
  /\ ~Open => ~InFlight
  /\ owner \notin {"close", "clear"} => to_close = {}
  /\ ~Open /\ owner # "swap" => \A p \in Pids : sessions_[p] = None
  /\ owner \in {"release", "stopped"} => num_active_sessions_ = 0
  /\ owner \in {"off", "stopped"} => ~mutex
  /\ ~mutex => owner \notin {"serving", "cleanup"} /\ num_active_sessions_ = 0

(* The session a client is responsible for: that of its handle, or the one *)
(* it is entering into the map.  It is the entry of the client's process   *)
(* and nobody else's.                                                      *)
Claimed(c) == IF cpc[c] \in Entering THEN cobj[c] ELSE handle[c]

ClaimsOK ==
  Open => \A c \in Clients : Claimed(c) # None =>
    /\ sessions_[PidOf[c]] = Claimed(c)
    /\ \A d \in Clients \ {c} : Claimed(d) # Claimed(c)

(* A session that is being created is known to its call only.              *)
PrivateOK ==
  \A c \in Clients : cpc[c] \in Building =>
    /\ ~InMap(cobj[c]) /\ cobj[c] \notin to_close /\ cobj[c] \notin Range(queue)
    /\ \A d \in Clients \ {c} : cobj[d] # cobj[c]

ConsumersOK ==
  /\ \A p \in Pids : sessions_[p] # None => consumer[sessions_[p]] = "open"
  /\ \A s \in to_close : consumer[s] = "open"
  /\ \A c \in Clients : cpc[c] = "insert" => consumer[cobj[c]] = "open"

(* The inductive invariant.                                                *)
ServiceInv ==
  /\ TypeOK /\ CallsOK /\ RefsOK /\ OwnerOK /\ ClaimsOK /\ PrivateOK /\ ConsumersOK
  /\ ActiveSessionsAreCounted

-----------------------------------------------------------------------------
(* Counting.                                                               *)

(* The clients inside ~Session that have yet to lower the count.           *)
Dying == {c \in Clients : cpc[c] = "decrement"}

(* The sessions that exist and the calls that destroy one are finitely     *)
(* many, since objects and clients are.                                    *)
LEMMA Sizes ==
  /\ IsFiniteSet(Active) /\ Cardinality(Active) \in Nat
  /\ IsFiniteSet(Dying) /\ Cardinality(Dying) \in Nat
<1>1. IsFiniteSet(Active)
  <2>1. Active \subseteq Objects  BY Zenon DEF Active
  <2> QED  BY <2>1, FS_Subset, ServiceAssumption, Zenon
<1>2. IsFiniteSet(Dying)
  <2>1. Dying \subseteq Clients  BY Zenon DEF Dying
  <2> QED  BY <2>1, FS_Subset, ServiceAssumption, Zenon
<1> QED  BY <1>1, <1>2, FS_CardinalityType, Zenon

(* They are after a step, too.                                             *)
LEMMA SizesNext ==
  /\ IsFiniteSet(Active') /\ Cardinality(Active') \in Nat
  /\ IsFiniteSet(Dying') /\ Cardinality(Dying') \in Nat
<1>1. IsFiniteSet(Active')
  <2>1. Active' \subseteq Objects  BY Zenon DEF Active
  <2> QED  BY <2>1, FS_Subset, ServiceAssumption, Zenon
<1>2. IsFiniteSet(Dying')
  <2>1. Dying' \subseteq Clients  BY Zenon DEF Dying
  <2> QED  BY <2>1, FS_Subset, ServiceAssumption, Zenon
<1> QED  BY <1>1, <1>2, FS_CardinalityType, Zenon

(* What num_active_sessions_ counts, in the terms of this module.          *)
LEMMA CountIs ==
  ActiveSessionsAreCounted <=>
    num_active_sessions_ = Cardinality(Active) + Cardinality(Dying)
                           + (IF wpc = "decrement" THEN 1 ELSE 0)
<1>1. Decrementing = Cardinality(Dying) + (IF wpc = "decrement" THEN 1 ELSE 0)
  BY Zenon DEF Decrementing, Dying
<1>2. Cardinality(Active) \in Nat /\ Cardinality(Dying) \in Nat  BY Sizes, Zenon
<1> QED  BY <1>1, <1>2 DEF ActiveSessionsAreCounted

(* The same after a step.                                                  *)
LEMMA CountIsNext ==
  ActiveSessionsAreCounted' <=>
    num_active_sessions_' = Cardinality(Active') + Cardinality(Dying')
                            + (IF wpc' = "decrement" THEN 1 ELSE 0)
<1>1. Decrementing' = Cardinality(Dying') + (IF wpc' = "decrement" THEN 1 ELSE 0)
  BY Zenon DEF Decrementing, Dying
<1>2. Cardinality(Active') \in Nat /\ Cardinality(Dying') \in Nat  BY SizesNext, Zenon
<1> QED  BY <1>1, <1>2 DEF ActiveSessionsAreCounted

(* A step that creates and destroys no session.                            *)
LEMMA CountUnchanged ==
  ASSUME ActiveSessionsAreCounted, Active' = Active, Dying' = Dying,
         UNCHANGED num_active_sessions_, wpc' = "decrement" <=> wpc = "decrement"
  PROVE  ActiveSessionsAreCounted'
<1>1. Cardinality(Active') = Cardinality(Active) /\ Cardinality(Dying') = Cardinality(Dying)
  BY Zenon
<1> QED  BY <1>1, CountIs, CountIsNext, Zenon

(* A call on its way into ~Session, the writer in it, and a session that   *)
(* exists are each counted.                                                *)
LEMMA CountPositive ==
  ASSUME ActiveSessionsAreCounted,
         \/ \E c \in Clients : cpc[c] = "decrement"
         \/ wpc = "decrement"
         \/ \E s \in Objects : life[s] = "alive"
  PROVE  num_active_sessions_ \in Nat \ {0}
<1>1. CASE \E c \in Clients : cpc[c] = "decrement"
  <2>1. Dying # {}  BY <1>1, Zenon DEF Dying
  <2>2. Cardinality(Dying) # 0  BY <2>1, Sizes, FS_EmptySet, Zenon
  <2> QED  BY <2>2, Sizes, CountIs
<1>2. CASE wpc = "decrement"
  BY <1>2, Sizes, CountIs
<1>3. CASE \E s \in Objects : life[s] = "alive"
  <2>1. Active # {}  BY <1>3, Zenon DEF Active
  <2>2. Cardinality(Active) # 0  BY <2>1, Sizes, FS_EmptySet, Zenon
  <2> QED  BY <2>2, Sizes, CountIs
<1> QED  BY <1>1, <1>2, <1>3, Zenon

-----------------------------------------------------------------------------
(* Queues of tasks.                                                        *)

(* A buffer that is returned posts one task.                               *)
LEMMA RangeAppend ==
  ASSUME NEW q \in Seq(Objects), NEW s \in Objects
  PROVE  Append(q, s) \in Seq(Objects) /\ Range(Append(q, s)) = Range(q) \union {s}
<1>1. Append(q, s) \in Seq(Objects)  OBVIOUS
<1>2. Range(Append(q, s)) \subseteq Range(q) \union {s}
  BY DEF Range
<1>3. Range(q) \subseteq Range(Append(q, s))
  <2> SUFFICES ASSUME NEW i \in 1 .. Len(q)
               PROVE  q[i] \in Range(Append(q, s))
    BY DEF Range
  <2>1. Append(q, s)[i] = q[i] /\ i \in DOMAIN Append(q, s)  OBVIOUS
  <2> QED  BY <2>1, Zenon DEF Range
<1>4. s \in Range(Append(q, s))
  <2>1. Append(q, s)[Len(q) + 1] = s /\ Len(q) + 1 \in DOMAIN Append(q, s)  OBVIOUS
  <2> QED  BY <2>1, Zenon DEF Range
<1> QED  BY <1>1, <1>2, <1>3, <1>4, Zenon

(* The writer takes the first task.                                        *)
LEMMA RangeTail ==
  ASSUME NEW q \in Seq(Objects), q # <<>>
  PROVE  /\ Head(q) \in Objects /\ Tail(q) \in Seq(Objects)
         /\ Range(q) = Range(Tail(q)) \union {Head(q)}
<1>1. Head(q) \in Objects /\ Tail(q) \in Seq(Objects)  OBVIOUS
<1>2. Range(Tail(q)) \subseteq Range(q)
  BY DEF Range
<1>3. Head(q) \in Range(q)
  BY DEF Range
<1>4. ASSUME NEW i \in 1 .. Len(q)
      PROVE  q[i] \in Range(Tail(q)) \union {Head(q)}
  <2>1. CASE i = 1  BY <2>1
  <2>2. CASE i # 1
    <3>1. Tail(q)[i - 1] = q[i] /\ i - 1 \in DOMAIN Tail(q)  BY <2>2
    <3> QED  BY <3>1, Zenon DEF Range
  <2> QED  BY <2>1, <2>2, Zenon
<1>5. Range(q) \subseteq Range(Tail(q)) \union {Head(q)}
  BY <1>4 DEF Range
<1> QED  BY <1>1, <1>2, <1>3, <1>5, Zenon

(* Close posts tasks for its own session only.                             *)
LEMMA RangeFlushed ==
  ASSUME queue \in Seq(Objects), NEW s \in Objects, NEW q \in Flushed(s)
  PROVE  q \in Seq(Objects) /\ Range(q) \subseteq Range(queue) \union {s}
<1>1. CASE s \in is_closing_
  BY <1>1, Zenon DEF Flushed
<1>2. CASE s \notin is_closing_
  <2>1. PICK n \in 0 .. MaxFlush : q = queue \o [i \in 1 .. n |-> s]
    BY <1>2, Zenon DEF Flushed
  <2>2. n \in Nat  BY <2>1, ServiceAssumption
  <2>3. [i \in 1 .. n |-> s] \in Seq(Objects) /\ Len([i \in 1 .. n |-> s]) = n
    BY <2>2
  <2>4. q \in Seq(Objects)  BY <2>1, <2>3
  <2>5. \A i \in 1 .. Len(q) : q[i] \in Range(queue) \union {s}
    BY <2>1, <2>2, <2>3 DEF Range
  <2> QED  BY <2>4, <2>5 DEF Range
<1> QED  BY <1>1, <1>2, Zenon

-----------------------------------------------------------------------------
(* Dropping a reference.                                                   *)

(* ~Session turns one session that exists into one that does not.          *)
LEMMA DestructCounts ==
  ASSUME TypeOK, NEW s \in Objects, life[s] = "alive", Destruct(s)
  PROVE  Cardinality(Active') = Cardinality(Active) - 1
<1>1. Active' = Active \ {s} /\ s \in Active
  BY Zenon DEF TypeOK, Destruct, Active
<1> QED  BY <1>1, Sizes, FS_RemoveElement, Zenon

(* A call that holds a session drops it, and the thread that runs ~Session *)
(* is counted in the session's place.                                      *)
LEMMA DropCounts ==
  ASSUME TypeOK, CallsOK, RefsOK, ActiveSessionsAreCounted,
         NEW c \in Clients, cpc[c] \in Holding, NEW q, DropAndReturn(c, q),
         UNCHANGED <<num_active_sessions_, wpc>>
  PROVE  ActiveSessionsAreCounted'
<1>1. cpc[c] # "decrement" /\ cobj[c] \in Objects /\ life[cobj[c]] = "alive"
  BY Zenon DEF TypeOK, CallsOK, RefsOK, Holding, Building, Entering
<1>2. CASE Referenced(cobj[c], {c}, q)
  <2>1. Active' = Active  BY <1>2, Zenon DEF DropAndReturn, Active
  <2>2. Dying' = Dying  BY <1>1, <1>2, Zenon DEF DropAndReturn, Dying, TypeOK
  <2> QED  BY <2>1, <2>2, CountUnchanged, Zenon
<1>3. CASE ~Referenced(cobj[c], {c}, q)
  <2>1. Cardinality(Active') = Cardinality(Active) - 1
    BY <1>1, <1>3, DestructCounts, Zenon DEF DropAndReturn
  <2>2. Dying' = Dying \union {c} /\ c \notin Dying
    BY <1>1, <1>3 DEF DropAndReturn, Dying, TypeOK
  <2>3. Cardinality(Dying') = Cardinality(Dying) + 1
    BY <2>2, Sizes, FS_AddElement, Zenon
  <2> QED  BY <2>1, <2>3, Sizes, CountIs, CountIsNext
<1> QED  BY <1>2, <1>3, Zenon

(* What the return of a call leaves: the session lives on where anything   *)
(* refers to it, and is untouched in that case.                            *)
LEMMA DropEffect ==
  ASSUME TypeOK, CallsOK, NEW c \in Clients, cpc[c] \in Holding,
         DropAndReturn(c, queue')
  PROVE  /\ cobj' = [cobj EXCEPT ![c] = None]
         /\ cpc' \in [Clients -> {"idle", "init", "insert", "duplicate",
                 "first_buffer", "erasing", "use", "wait", "close", "decrement", "signal"}]
         /\ cpc'[c] \in {"idle", "decrement"}
         /\ \A d \in Clients \ {c} : cpc'[d] = cpc[d]
         /\ life' \in [Objects -> {"none", "alive", "destroyed"}]
         /\ consumer' \in [Objects -> {"none", "open", "closed"}]
         /\ \A s \in Objects :
              s # cobj[c] \/ Referenced(cobj[c], {c}, queue') =>
                life'[s] = life[s] /\ consumer'[s] = consumer[s]
<1>1. cobj[c] \in Objects
  BY Zenon DEF TypeOK, CallsOK
<1> QED  BY <1>1 DEF TypeOK, DropAndReturn, Destruct

(* While a call is in progress, or can begin, the owner has not begun to   *)
(* close the sessions.                                                     *)
LEMMA CallsKeepOpen ==
  ASSUME OwnerOK, NEW c \in Clients, cpc[c] # "idle" \/ rpc_is_running_
  PROVE  /\ owner \in {"serving", "cleanup"} /\ Open /\ to_close = {}
         /\ cpc[c] # "idle" /\ owner = "cleanup" => non_blocking
         /\ rpc_is_running_ => owner = "serving"
<1>1. cpc[c] # "idle" => InFlight  BY Zenon DEF InFlight
<1> QED  BY <1>1, Zenon DEF OwnerOK, Open

(* So a step of a call leaves the owner's part of the invariant alone.     *)
LEMMA CallKeepsOwner ==
  ASSUME OwnerOK, NEW c \in Clients, cpc[c] # "idle" \/ rpc_is_running_,
         UNCHANGED <<mutex, owner, non_blocking, to_close>>,
         rpc_is_running_' => rpc_is_running_
  PROVE  OwnerOK'
<1>1. /\ owner \in {"serving", "cleanup"} /\ to_close = {}
      /\ cpc[c] # "idle" /\ owner = "cleanup" => non_blocking
      /\ rpc_is_running_ => owner = "serving"
  BY CallsKeepOpen, Zenon
<1> QED  BY <1>1, Zenon DEF OwnerOK, Open

(* A call that returns keeps the invariant, whether or not it posts tasks  *)
(* for its session first and whether or not it hands out its session.      *)
LEMMA DropKeeps ==
  ASSUME ServiceInv, NEW c \in Clients, cpc[c] \in Holding,
         DropAndReturn(c, queue'),
         UNCHANGED <<sessions_, num_active_sessions_, rpc_is_running_, wpc, ownerVars>>,
         queue' \in Seq(Objects), Range(queue') \subseteq Range(queue) \union {cobj[c]},
         is_closing_' \in SUBSET Objects,
         handle' = [handle EXCEPT ![c] = Claimed(c)]
  PROVE  ServiceInv'
<1>0. /\ TypeOK /\ CallsOK /\ RefsOK /\ OwnerOK /\ ClaimsOK /\ PrivateOK
      /\ ConsumersOK /\ ActiveSessionsAreCounted
  BY Zenon DEF ServiceInv
<1>1. /\ cobj' = [cobj EXCEPT ![c] = None]
      /\ cpc' \in [Clients -> {"idle", "init", "insert", "duplicate",
                 "first_buffer", "erasing", "use", "wait", "close", "decrement", "signal"}]
      /\ cpc'[c] \in {"idle", "decrement"}
      /\ \A d \in Clients \ {c} : cpc'[d] = cpc[d]
      /\ life' \in [Objects -> {"none", "alive", "destroyed"}]
      /\ consumer' \in [Objects -> {"none", "open", "closed"}]
      /\ \A s \in Objects :
           s # cobj[c] \/ Referenced(cobj[c], {c}, queue') =>
             life'[s] = life[s] /\ consumer'[s] = consumer[s]
  BY <1>0, DropEffect, Zenon
<1>2. cobj[c] \in Objects /\ Claimed(c) \in Objects \union {None}
  BY <1>0, Zenon DEF TypeOK, CallsOK, Claimed
<1>3. TypeOK'
  BY <1>0, <1>1, <1>2, Zenon DEF TypeOK, ownerVars
<1>4. CallsOK'
  BY <1>0, <1>1 DEF TypeOK, CallsOK, Holding, Building, Entering
<1>5. \A s \in Objects : 
        \/ InMap(s) \/ s \in to_close \/ s \in Range(queue')
        \/ \E d \in Clients \ {c} : cobj[d] = s
        => life'[s] = life[s] /\ consumer'[s] = consumer[s]
  BY <1>1, Zenon DEF Referenced
<1>6. RefsOK'
  <2>1. ASSUME NEW p \in Pids, sessions_[p] # None
        PROVE  life'[sessions_[p]] = "alive"
    BY <1>0, <1>5, <2>1 DEF TypeOK, RefsOK, InMap
  <2>2. ASSUME NEW s \in to_close
        PROVE  life'[s] = "alive"
    BY <1>0, <1>5, Zenon DEF TypeOK, RefsOK
  <2>3. ASSUME NEW d \in Clients, cobj'[d] # None
        PROVE  life'[cobj'[d]] = "alive"
    <3>1. d # c /\ cobj'[d] = cobj[d] /\ cobj[d] \in Objects
      BY <1>0, <1>1, <2>3, Zenon DEF TypeOK
    <3> QED  BY <1>0, <1>5, <2>3, <3>1, Zenon DEF RefsOK
  <2>4. ASSUME NEW s \in Range(queue')
        PROVE  life'[s] = "alive"
    <3>1. s \in Objects  BY <1>2, <1>0 DEF TypeOK, Range
    <3>2. life[s] = "alive"  BY <1>0, <1>2, Zenon DEF RefsOK, CallsOK, TypeOK
    <3> QED  BY <1>5, <3>1, <3>2, Zenon
  <2> QED  BY <2>1, <2>2, <2>3, <2>4, Zenon DEF RefsOK, ownerVars
<1>7. OwnerOK'
  BY <1>0, CallKeepsOwner, Zenon DEF Holding, Building, Entering, ownerVars
<1>8. ClaimsOK'
  <2>1. \A d \in Clients : Claimed(d)' = Claimed(d)
    BY <1>0, <1>1, Zenon DEF Claimed, Entering, TypeOK
  <2> QED  BY <1>0, <2>1, Zenon DEF ClaimsOK, Open, ownerVars
<1>9. PrivateOK'
  <2> SUFFICES ASSUME NEW d \in Clients, cpc'[d] \in Building
               PROVE  /\ \A p \in Pids : sessions_[p] # cobj'[d]
                      /\ cobj'[d] \notin to_close
                      /\ cobj'[d] \notin Range(queue')
                      /\ \A e \in Clients \ {d} : cobj'[e] # cobj'[d]
    BY Zenon DEF PrivateOK, InMap, ownerVars
  <2>1. d # c /\ cobj'[d] = cobj[d] /\ cpc[d] \in Building
    BY <1>0, <1>1, Zenon DEF Building, TypeOK
  <2>2. /\ ~InMap(cobj[d]) /\ cobj[d] \notin to_close /\ cobj[d] \notin Range(queue)
        /\ \A e \in Clients \ {d} : cobj[e] # cobj[d]
    BY <1>0, <2>1, Zenon DEF PrivateOK
  <2>3. cobj[d] # None /\ cobj[d] # cobj[c]
    BY <1>0, <2>1, <2>2, Zenon DEF CallsOK, Holding
  <2> QED  BY <1>0, <1>1, <2>1, <2>2, <2>3 DEF InMap, TypeOK
<1>10. ConsumersOK'
  <2>1. ASSUME NEW p \in Pids, sessions_[p] # None
        PROVE  consumer'[sessions_[p]] = "open"
    BY <1>0, <1>5, <2>1 DEF TypeOK, ConsumersOK, InMap
  <2>2. ASSUME NEW s \in to_close
        PROVE  consumer'[s] = "open"
    BY <1>0, <1>5, Zenon DEF TypeOK, ConsumersOK
  <2>3. ASSUME NEW d \in Clients, cpc'[d] = "insert"
        PROVE  consumer'[cobj'[d]] = "open"
    <3>1. d # c /\ cobj'[d] = cobj[d] /\ cobj[d] \in Objects /\ cpc[d] = "insert"
      BY <1>0, <1>1, <2>3 DEF TypeOK, CallsOK, Holding, Building
    <3> QED  BY <1>0, <1>5, <3>1 DEF ConsumersOK
  <2> QED  BY <2>1, <2>2, <2>3, Zenon DEF ConsumersOK, ownerVars
<1>11. ActiveSessionsAreCounted'
  BY <1>0, DropCounts, Zenon
<1> QED  BY <1>3, <1>4, <1>6, <1>7, <1>8, <1>9, <1>10, <1>11, Zenon DEF ServiceInv

-----------------------------------------------------------------------------
(* The RPC entry points keep the invariant.                                *)

(* Unfolds the invariant.                                                  *)
LEMMA Parts ==
  ASSUME ServiceInv
  PROVE  /\ TypeOK /\ CallsOK /\ RefsOK /\ OwnerOK /\ ClaimsOK /\ PrivateOK
         /\ ConsumersOK /\ ActiveSessionsAreCounted
BY Zenon DEF ServiceInv

(* A step of a call that neither creates nor destroys a session is not     *)
(* seen by the count.                                                      *)
LEMMA StepKeepsCount ==
  ASSUME TypeOK, ActiveSessionsAreCounted, NEW c \in Clients, NEW from, NEW to,
         Step(c, from, to), from # "decrement", to # "decrement",
         UNCHANGED <<num_active_sessions_, life, wpc>>
  PROVE  ActiveSessionsAreCounted'
<1>1. Active' = Active  BY Zenon DEF Active
<1>2. Dying' = Dying  BY Zenon DEF Dying, Step, TypeOK
<1> QED  BY <1>1, <1>2, CountUnchanged, Zenon

(* CreateSession makes a session nobody else knows of.                     *)
LEMMA NewSessionKeeps ==
  ASSUME ServiceInv, NEW c \in Clients, NewSession(c)
  PROVE  ServiceInv'
<1>0. /\ TypeOK /\ CallsOK /\ RefsOK /\ OwnerOK /\ ClaimsOK /\ PrivateOK
      /\ ConsumersOK /\ ActiveSessionsAreCounted
  BY Parts, Zenon
<1>1. PICK s \in Objects :
        /\ life[s] = "none" /\ life' = [life EXCEPT ![s] = "alive"]
        /\ cobj' = [cobj EXCEPT ![c] = s]
  BY Zenon DEF NewSession
<1>2. /\ cpc[c] = "idle" /\ cpc' = [cpc EXCEPT ![c] = "init"] /\ handle[c] = None
      /\ rpc_is_running_ /\ num_active_sessions_' = num_active_sessions_ + 1
      /\ UNCHANGED <<sessions_, rpc_is_running_, is_closing_, consumer, handle,
                     queue, wpc, mutex, owner, non_blocking, to_close>>
  BY Zenon DEF NewSession, CanCall, Step, ownerVars
<1>3. TypeOK'
  BY <1>0, <1>1, <1>2 DEF TypeOK
<1>4. CallsOK'
  BY <1>0, <1>1, <1>2, ServiceAssumption, Zenon DEF TypeOK, CallsOK, Holding, Building, Entering
<1>5. RefsOK'
  BY <1>0, <1>1, <1>2 DEF TypeOK, RefsOK
<1>6. OwnerOK'
  BY <1>0, <1>2, CallKeepsOwner, Zenon
<1>7. ClaimsOK'
  <2>1. \A d \in Clients : Claimed(d)' = Claimed(d)
    BY <1>0, <1>1, <1>2, Zenon DEF Claimed, Entering, TypeOK
  <2> QED  BY <1>0, <1>2, <2>1, Zenon DEF ClaimsOK, Open
<1>8. /\ ~InMap(s) /\ s \notin to_close /\ s \notin Range(queue)
      /\ \A d \in Clients : cobj[d] # s
  BY <1>0, <1>1, ServiceAssumption, Zenon DEF RefsOK, InMap
<1>9. PrivateOK'
  BY <1>0, <1>1, <1>2, <1>8 DEF TypeOK, PrivateOK, InMap, Building
<1>10. ConsumersOK'
  BY <1>0, <1>1, <1>2, Zenon DEF TypeOK, ConsumersOK
<1>11. ActiveSessionsAreCounted'
  <2>1. Active' = Active \union {s} /\ s \notin Active
    BY <1>0, <1>1, Zenon DEF Active, TypeOK
  <2>2. Cardinality(Active') = Cardinality(Active) + 1
    BY <2>1, Sizes, FS_AddElement, Zenon
  <2>3. Dying' = Dying  BY <1>0, <1>2, Zenon DEF Dying, TypeOK
  <2>4. Cardinality(Dying') = Cardinality(Dying)  BY <2>3, Zenon
  <2> QED  BY <1>0, <1>2, <2>2, <2>4, Sizes, CountIs, CountIsNext
<1> QED
  BY <1>3, <1>4, <1>5, <1>6, <1>7, <1>9, <1>10, <1>11, Zenon DEF ServiceInv

(* Session::Init opens the consumer of the new session, or the session is  *)
(* dropped.                                                                *)
LEMMA InitSessionKeeps ==
  ASSUME ServiceInv, NEW c \in Clients, InitSession(c)
  PROVE  ServiceInv'
<1>0. /\ TypeOK /\ CallsOK /\ RefsOK /\ OwnerOK /\ ClaimsOK /\ PrivateOK
      /\ ConsumersOK /\ ActiveSessionsAreCounted
  BY Parts, Zenon
<1>1. /\ cpc[c] = "init"
      /\ UNCHANGED <<sessions_, num_active_sessions_, rpc_is_running_, is_closing_,
                     handle, queue, wpc, mutex, owner, non_blocking, to_close>>
  BY Zenon DEF InitSession, ownerVars, Step
<1>2. cpc[c] \in Holding /\ cpc[c] # "idle" /\ cobj[c] \in Objects
  BY <1>0, <1>1, Zenon DEF Holding, Building, CallsOK, TypeOK
<1>3. CASE /\ Step(c, "init", "insert") /\ UNCHANGED <<life, cobj>>
           /\ consumer' = [consumer EXCEPT ![cobj[c]] = "open"]
  <2>1. TypeOK'
    BY <1>0, <1>1, <1>3, Zenon DEF TypeOK, Step
  <2>2. CallsOK'
    BY <1>0, <1>1, <1>3, Zenon DEF TypeOK, CallsOK, Holding, Building, Step
  <2>3. RefsOK'
    BY <1>0, <1>1, <1>3, Zenon DEF RefsOK
  <2>4. OwnerOK'
    BY <1>0, <1>1, <1>2, CallKeepsOwner, Zenon
  <2>5. ClaimsOK'
    <3>1. \A d \in Clients : Claimed(d)' = Claimed(d)
      BY <1>0, <1>1, <1>3, Zenon DEF Claimed, Entering, TypeOK, Step
    <3> QED  BY <1>0, <1>1, <3>1, Zenon DEF ClaimsOK, Open
  <2>6. PrivateOK'
    BY <1>0, <1>1, <1>3, Zenon DEF TypeOK, PrivateOK, InMap, Building, Step
  <2>7. ConsumersOK'
    BY <1>0, <1>1, <1>2, <1>3 DEF TypeOK, ConsumersOK, Step
  <2>8. ActiveSessionsAreCounted'
    BY <1>0, <1>1, <1>3, StepKeepsCount, Zenon
  <2> QED  BY <2>1, <2>2, <2>3, <2>4, <2>5, <2>6, <2>7, <2>8, Zenon DEF ServiceInv
<1>4. CASE DropAndReturn(c, queue)
  <2>1. handle' = [handle EXCEPT ![c] = Claimed(c)]
    BY <1>0, <1>1, Zenon DEF TypeOK, Claimed, Entering
  <2>2. queue' \in Seq(Objects) /\ is_closing_' \in SUBSET Objects
    BY <1>0, <1>1, Zenon DEF TypeOK
  <2> QED  BY <1>1, <1>2, <1>4, <2>1, <2>2, DropKeeps, Zenon DEF ownerVars
<1> QED  BY <1>1, <1>3, <1>4, Zenon DEF InitSession

(* A session enters the map where its process has none.                    *)
LEMMA InsertSessionKeeps ==
  ASSUME ServiceInv, NEW c \in Clients, InsertSession(c)
  PROVE  ServiceInv'
<1>0. /\ TypeOK /\ CallsOK /\ RefsOK /\ OwnerOK /\ ClaimsOK /\ PrivateOK
      /\ ConsumersOK /\ ActiveSessionsAreCounted
  BY Parts, Zenon
<1>1. /\ cpc[c] = "insert" 
      /\ UNCHANGED <<num_active_sessions_, rpc_is_running_, life, is_closing_,
                     consumer, cobj, handle, queue, wpc, mutex, owner,
                     non_blocking, to_close>>
  BY Zenon DEF InsertSession, ownerVars, Step
<1>2. /\ cpc[c] \in Building /\ cpc[c] # "idle" /\ cobj[c] \in Objects
      /\ handle[c] = None /\ PidOf[c] \in Pids
  BY <1>0, <1>1, ServiceAssumption, Zenon DEF Holding, Building, CallsOK, TypeOK
<1>3. PICK to \in {"first_buffer", "duplicate"} : Step(c, "insert", to)
  BY Zenon DEF InsertSession
<1>4. CallsOK'
  BY <1>0, <1>1, <1>3, Zenon DEF TypeOK, CallsOK, Holding, Building, Entering, Step
<1>5. OwnerOK'
  BY <1>0, <1>1, <1>2, CallKeepsOwner, Zenon
<1>6. ActiveSessionsAreCounted'
  BY <1>0, <1>1, <1>3, StepKeepsCount, Zenon
<1>7. CASE /\ sessions_[PidOf[c]] = None /\ Step(c, "insert", "first_buffer")
           /\ sessions_' = [sessions_ EXCEPT ![PidOf[c]] = cobj[c]]
  <2>1. TypeOK'
    BY <1>0, <1>1, <1>2, <1>7, Zenon DEF TypeOK, Step
  <2>2. RefsOK'
    BY <1>0, <1>1, <1>2, <1>7, ServiceAssumption, Zenon DEF RefsOK, TypeOK
  <2>3. ClaimsOK'
    <3>1. \A d \in Clients \ {c} : Claimed(d)' = Claimed(d)
      BY <1>0, <1>1, <1>7, Zenon DEF Claimed, TypeOK, Step
    <3>2. Claimed(c)' = cobj[c] /\ Claimed(c) = None
      BY <1>0, <1>1, <1>2, <1>7, Zenon DEF Claimed, Entering, TypeOK, Step
    <3>3. Open  BY <1>0, <1>2, CallsKeepOpen, Zenon
    <3>4. \A d \in Clients \ {c} : Claimed(d) # None =>
            /\ PidOf[d] \in Pids /\ sessions_[PidOf[d]] = Claimed(d)
            /\ PidOf[d] # PidOf[c] /\ Claimed(d) # cobj[c]
      BY <1>0, <1>2, <1>7, <3>3, ServiceAssumption, Zenon DEF ClaimsOK, PrivateOK, InMap
    <3>5. ASSUME NEW d \in Clients, Claimed(d)' # None
          PROVE  /\ sessions_'[PidOf[d]] = Claimed(d)'
                 /\ \A e \in Clients \ {d} : Claimed(e)' # Claimed(d)'
      <4>1. CASE d = c
        BY <1>0, <1>2, <1>7, <3>1, <3>2, <3>4, <4>1, ServiceAssumption DEF TypeOK
      <4>2. CASE d # c
        BY <1>0, <1>7, <3>1, <3>2, <3>3, <3>4, <3>5, <4>2 DEF TypeOK, ClaimsOK
      <4> QED  BY <4>1, <4>2, Zenon
    <3> QED  BY <3>5, Zenon DEF ClaimsOK
  <2>4. PrivateOK'
    <3>1. ASSUME NEW d \in Clients, cpc'[d] \in Building
          PROVE  d # c /\ cpc[d] \in Building /\ cobj[d] # cobj[c]
      BY <1>0, <1>2, <1>7, <3>1, Zenon DEF TypeOK, Step, Building, PrivateOK
    <3> QED  BY <1>0, <1>1, <1>2, <1>7, <3>1, Zenon DEF PrivateOK, InMap, TypeOK
  <2>5. ConsumersOK'
    BY <1>0, <1>1, <1>2, <1>7, Zenon DEF TypeOK, ConsumersOK, Step
  <2> QED  BY <1>4, <1>5, <1>6, <2>1, <2>2, <2>3, <2>4, <2>5, Zenon DEF ServiceInv
<1>8. CASE Step(c, "insert", "duplicate") /\ UNCHANGED sessions_
  <2>1. TypeOK'
    BY <1>0, <1>1, <1>8, Zenon DEF TypeOK, Step
  <2>2. RefsOK'
    BY <1>0, <1>1, <1>8, Zenon DEF RefsOK
  <2>3. ClaimsOK'
    <3>1. \A d \in Clients : Claimed(d)' = Claimed(d)
      BY <1>0, <1>1, <1>8, Zenon DEF Claimed, Entering, TypeOK, Step
    <3> QED  BY <1>0, <1>1, <1>8, <3>1, Zenon DEF ClaimsOK, Open
  <2>4. PrivateOK'
    BY <1>0, <1>1, <1>8, Zenon DEF TypeOK, PrivateOK, InMap, Building, Step
  <2>5. ConsumersOK'
    BY <1>0, <1>1, <1>8, Zenon DEF TypeOK, ConsumersOK, Step
  <2> QED  BY <1>4, <1>5, <1>6, <2>1, <2>2, <2>3, <2>4, <2>5, Zenon DEF ServiceInv
<1> QED  BY <1>7, <1>8, Zenon DEF InsertSession


(* The consumer of a duplicate is closed, and nobody else writes to it.    *)
LEMMA RejectDuplicateKeeps ==
  ASSUME ServiceInv, NEW c \in Clients, RejectDuplicate(c)
  PROVE  ServiceInv'
<1>0. /\ TypeOK /\ CallsOK /\ RefsOK /\ OwnerOK /\ ClaimsOK /\ PrivateOK
      /\ ConsumersOK /\ ActiveSessionsAreCounted
  BY Parts, Zenon
<1>1. /\ Step(c, "duplicate", "close")
      /\ cpc[c] = "duplicate" /\ cpc' = [cpc EXCEPT ![c] = "close"]
      /\ consumer' = [consumer EXCEPT ![cobj[c]] = "closed"]
      /\ UNCHANGED <<sessions_, num_active_sessions_, rpc_is_running_, life,
                     is_closing_, cobj, handle, queue, wpc, mutex, owner,
                     non_blocking, to_close>>
  BY Zenon DEF RejectDuplicate, ownerVars, Step
<1>2. /\ cpc[c] \in Building /\ cpc[c] # "idle" /\ cobj[c] \in Objects
  BY <1>0, <1>1, Zenon DEF Holding, Building, CallsOK, TypeOK
<1>3. TypeOK'
  BY <1>0, <1>1, Zenon DEF TypeOK
<1>4. CallsOK'
  BY <1>0, <1>1, Zenon DEF TypeOK, CallsOK, Holding, Building, Entering
<1>5. RefsOK'
  BY <1>0, <1>1, Zenon DEF RefsOK
<1>6. OwnerOK'
  BY <1>0, <1>1, <1>2, CallKeepsOwner, Zenon
<1>7. ClaimsOK'
  <2>1. \A d \in Clients : Claimed(d)' = Claimed(d)
    BY <1>0, <1>1, Zenon DEF Claimed, Entering, TypeOK
  <2> QED  BY <1>0, <1>1, <2>1, Zenon DEF ClaimsOK, Open
<1>8. PrivateOK'
  BY <1>0, <1>1, Zenon DEF TypeOK, PrivateOK, InMap, Building
<1>9. ConsumersOK'
  <2>1. /\ \A p \in Pids : sessions_[p] # cobj[c]
        /\ cobj[c] \notin to_close
        /\ \A d \in Clients \ {c} : cobj[d] # cobj[c]
    BY <1>0, <1>2, Zenon DEF PrivateOK, InMap
  <2> QED  BY <1>0, <1>1, <2>1 DEF TypeOK, ConsumersOK, CallsOK, Holding, Building
<1>10. ActiveSessionsAreCounted'
  BY <1>0, <1>1, StepKeepsCount, Zenon
<1> QED
  BY <1>3, <1>4, <1>5, <1>6, <1>7, <1>8, <1>9, <1>10, Zenon DEF ServiceInv

(* The client gets the handle of the session it has entered, or the call   *)
(* goes on to erase it.                                                    *)
LEMMA GetFirstBufferKeeps ==
  ASSUME ServiceInv, NEW c \in Clients, GetFirstBuffer(c)
  PROVE  ServiceInv'
<1>0. /\ TypeOK /\ CallsOK /\ RefsOK /\ OwnerOK /\ ClaimsOK /\ PrivateOK
      /\ ConsumersOK /\ ActiveSessionsAreCounted
  BY Parts, Zenon
<1>1. /\ cpc[c] = "first_buffer"
      /\ UNCHANGED <<sessions_, num_active_sessions_, rpc_is_running_, is_closing_,
                     queue, wpc, mutex, owner, non_blocking, to_close>>
  BY Zenon DEF GetFirstBuffer, ownerVars, Step
<1>2. cpc[c] \in Holding /\ cpc[c] # "idle" /\ cobj[c] \in Objects
  BY <1>0, <1>1, Zenon DEF Holding, Entering, CallsOK, TypeOK
<1>3. CASE handle' = [handle EXCEPT ![c] = cobj[c]] /\ DropAndReturn(c, queue)
  <2>1. handle' = [handle EXCEPT ![c] = Claimed(c)]
    BY <1>1, <1>3, Zenon DEF Claimed, Entering
  <2>2. queue' \in Seq(Objects) /\ is_closing_' \in SUBSET Objects
    BY <1>0, <1>1, Zenon DEF TypeOK
  <2> QED  BY <1>1, <1>2, <1>3, <2>1, <2>2, DropKeeps, Zenon DEF ownerVars
<1>4. CASE Step(c, "first_buffer", "erasing") /\ UNCHANGED <<handle, life, consumer, cobj>>
  <2>1. TypeOK'
    BY <1>0, <1>1, <1>4, Zenon DEF TypeOK, Step
  <2>2. CallsOK'
    BY <1>0, <1>1, <1>4, Zenon DEF TypeOK, CallsOK, Holding, Entering, Step
  <2>3. RefsOK'
    BY <1>0, <1>1, <1>4, Zenon DEF RefsOK
  <2>4. OwnerOK'
    BY <1>0, <1>1, <1>2, CallKeepsOwner, Zenon
  <2>5. ClaimsOK'
    <3>1. \A d \in Clients : Claimed(d)' = Claimed(d)
      BY <1>0, <1>1, <1>4, Zenon DEF Claimed, Entering, TypeOK, Step
    <3> QED  BY <1>0, <1>1, <3>1, Zenon DEF ClaimsOK, Open
  <2>6. PrivateOK'
    BY <1>0, <1>1, <1>4, Zenon DEF TypeOK, PrivateOK, InMap, Building, Step
  <2>7. ConsumersOK'
    BY <1>0, <1>1, <1>4, Zenon DEF TypeOK, ConsumersOK, Step
  <2>8. ActiveSessionsAreCounted'
    BY <1>0, <1>1, <1>4, StepKeepsCount, Zenon
  <2> QED  BY <2>1, <2>2, <2>3, <2>4, <2>5, <2>6, <2>7, <2>8, Zenon DEF ServiceInv
<1> QED  BY <1>3, <1>4, Zenon DEF GetFirstBuffer

(* What a client claims is the entry of its process, so taking that entry  *)
(* out of the map takes it from no other client.                           *)
LEMMA OwnEntry ==
  ASSUME ClaimsOK, Open, NEW c \in Clients, Claimed(c) # None,
         NEW d \in Clients \ {c}, Claimed(d) # None
  PROVE  PidOf[d] # PidOf[c]
BY Zenon DEF ClaimsOK

(* Whoever removes the entry of its own process from the map, and gives up *)
(* its claim to it, keeps the claims of the others.                        *)
LEMMA RemovalKeepsClaims ==
  ASSUME TypeOK, ClaimsOK, Open, UNCHANGED owner, NEW c \in Clients,
         Claimed(c) # None, Claimed(c)' = None,
         \A d \in Clients \ {c} : Claimed(d)' = Claimed(d),
         sessions_' = [sessions_ EXCEPT ![PidOf[c]] = None]
  PROVE  ClaimsOK'
<1> SUFFICES ASSUME NEW d \in Clients, Claimed(d)' # None
             PROVE  /\ sessions_'[PidOf[d]] = Claimed(d)'
                    /\ \A e \in Clients \ {d} : Claimed(e)' # Claimed(d)'
  BY Zenon DEF ClaimsOK
<1>1. d # c /\ Claimed(d)' = Claimed(d) /\ Claimed(d) # None
  BY Zenon
<1>2. PidOf[d] # PidOf[c] /\ PidOf[d] \in Pids
  BY <1>1, OwnEntry, ServiceAssumption, Zenon
<1>3. sessions_'[PidOf[d]] = sessions_[PidOf[d]]
  BY <1>2, Zenon DEF TypeOK
<1>4. \A e \in Clients \ {d, c} : Claimed(e)' # Claimed(d)'
  BY <1>1, Zenon DEF ClaimsOK
<1> QED  BY <1>1, <1>3, <1>4, Zenon DEF ClaimsOK

(* CreateSession takes its own entry out of the map again.                 *)
LEMMA EraseFailedSessionKeeps ==
  ASSUME ServiceInv, NEW c \in Clients, EraseFailedSession(c)
  PROVE  ServiceInv'
<1>0. /\ TypeOK /\ CallsOK /\ RefsOK /\ OwnerOK /\ ClaimsOK /\ PrivateOK
      /\ ConsumersOK /\ ActiveSessionsAreCounted
  BY Parts, Zenon
<1>1. /\ Step(c, "erasing", "close")
      /\ cpc[c] = "erasing" /\ cpc' = [cpc EXCEPT ![c] = "close"]
      /\ sessions_' = [sessions_ EXCEPT ![PidOf[c]] = None]
      /\ UNCHANGED <<num_active_sessions_, rpc_is_running_, life, is_closing_,
                     consumer, cobj, handle, queue, wpc, mutex, owner,
                     non_blocking, to_close>>
  BY Zenon DEF EraseFailedSession, ownerVars, Step
<1>2. /\ cpc[c] \in Holding /\ cpc[c] # "idle" /\ cobj[c] \in Objects /\ cobj[c] # None
      /\ handle[c] = None
  BY <1>0, <1>1, Zenon DEF Holding, Entering, CallsOK, TypeOK
<1>3. TypeOK'
  BY <1>0, <1>1, ServiceAssumption, Zenon DEF TypeOK
<1>4. CallsOK'
  BY <1>0, <1>1, Zenon DEF TypeOK, CallsOK, Holding, Building, Entering
<1>5. RefsOK'
  BY <1>0, <1>1, Zenon DEF RefsOK, TypeOK
<1>6. OwnerOK'
  BY <1>0, <1>1, <1>2, CallKeepsOwner, Zenon
<1>7. ClaimsOK'
  <2>1. Claimed(c) = cobj[c] /\ Claimed(c)' = None
    BY <1>0, <1>1, <1>2, Zenon DEF Claimed, Entering, TypeOK
  <2>2. \A d \in Clients \ {c} : Claimed(d)' = Claimed(d)
    BY <1>0, <1>1, Zenon DEF Claimed, TypeOK
  <2>3. Open  BY <1>0, <1>2, CallsKeepOpen, Zenon
  <2> QED  BY <1>0, <1>1, <1>2, <2>1, <2>2, <2>3, RemovalKeepsClaims, Zenon
<1>8. PrivateOK'
  <2>1. \A s \in Objects : InMap(s)' => InMap(s)
    BY <1>0, <1>1, ServiceAssumption, Zenon DEF InMap, TypeOK
  <2>2. \A d \in Clients : cpc'[d] \in Building => cpc[d] \in Building /\ cobj[d] \in Objects
    BY <1>0, <1>1, Zenon DEF TypeOK, Building, CallsOK, Holding
  <2>3. ASSUME NEW d \in Clients, cpc'[d] \in Building
        PROVE  \A p \in Pids : sessions_'[p] # cobj[d]
    BY <1>0, <2>1, <2>2, <2>3, Zenon DEF PrivateOK, InMap
  <2> QED  BY <1>0, <1>1, <2>2, <2>3, Zenon DEF PrivateOK, InMap
<1>9. ConsumersOK'
  BY <1>0, <1>1, Zenon DEF TypeOK, ConsumersOK
<1>10. ActiveSessionsAreCounted'
  BY <1>0, <1>1, StepKeepsCount, Zenon
<1> QED
  BY <1>3, <1>4, <1>5, <1>6, <1>7, <1>8, <1>9, <1>10, Zenon DEF ServiceInv

(* The handle of a client between two calls is its entry in the map, which *)
(* keeps the session alive.                                                *)
LEMMA HandleIsEntry ==
  ASSUME ServiceInv, NEW c \in Clients, CanCall(c), handle[c] # None
  PROVE  /\ Open /\ Claimed(c) = handle[c] /\ PidOf[c] \in Pids
         /\ handle[c] \in Objects /\ sessions_[PidOf[c]] = handle[c]
         /\ life[handle[c]] = "alive" /\ InMap(handle[c])
<1>0. /\ TypeOK /\ RefsOK /\ OwnerOK /\ ClaimsOK
  BY Parts, Zenon
<1>1. cpc[c] = "idle" /\ rpc_is_running_  BY Zenon DEF CanCall
<1>2. Open  BY <1>0, <1>1, CallsKeepOpen, Zenon
<1>3. Claimed(c) = handle[c]  BY <1>1, Zenon DEF Claimed, Entering
<1> QED  BY <1>0, <1>2, <1>3, ServiceAssumption DEF ClaimsOK, TypeOK, RefsOK, InMap

(* A call that uses an open session takes a reference to it.               *)
LEMMA GetExistingSessionKeeps ==
  ASSUME ServiceInv, NEW c \in Clients, GetExistingSession(c)
  PROVE  ServiceInv'
<1>0. /\ TypeOK /\ CallsOK /\ RefsOK /\ OwnerOK /\ ClaimsOK /\ PrivateOK
      /\ ConsumersOK /\ ActiveSessionsAreCounted
  BY Parts, Zenon
<1>1. /\ Step(c, "idle", "use") /\ cpc[c] = "idle" /\ rpc_is_running_
      /\ cpc' = [cpc EXCEPT ![c] = "use"]
      /\ cobj' = [cobj EXCEPT ![c] = handle[c]]
      /\ UNCHANGED <<sessions_, num_active_sessions_, rpc_is_running_, life,
                     is_closing_, consumer, handle, queue, wpc, mutex, owner,
                     non_blocking, to_close>>
  BY Zenon DEF GetExistingSession, CanCall, ownerVars, Step
<1>2. /\ handle[c] # None /\ handle[c] \in Objects /\ life[handle[c]] = "alive"
      /\ InMap(handle[c])
  BY HandleIsEntry, Zenon DEF GetExistingSession
<1>3. TypeOK'
  BY <1>0, <1>1, <1>2, Zenon DEF TypeOK
<1>4. CallsOK'
  BY <1>0, <1>1, <1>2, Zenon DEF TypeOK, CallsOK, Holding, Building, Entering
<1>5. RefsOK'
  BY <1>0, <1>1, <1>2, Zenon DEF RefsOK, TypeOK
<1>6. OwnerOK'
  BY <1>0, <1>1, CallKeepsOwner, Zenon
<1>7. ClaimsOK'
  <2>1. \A d \in Clients : Claimed(d)' = Claimed(d)
    BY <1>0, <1>1, Zenon DEF Claimed, Entering, TypeOK
  <2> QED  BY <1>0, <1>1, <2>1, Zenon DEF ClaimsOK, Open
<1>8. PrivateOK'
  <2>1. ASSUME NEW d \in Clients, cpc'[d] \in Building
        PROVE  d # c /\ cpc[d] \in Building /\ cobj[d] # handle[c]
    BY <1>0, <1>1, <1>2, <2>1, Zenon DEF TypeOK, Building, PrivateOK
  <2> QED  BY <1>0, <1>1, <2>1, Zenon DEF TypeOK, PrivateOK, InMap
<1>9. ConsumersOK'
  BY <1>0, <1>1, Zenon DEF TypeOK, ConsumersOK
<1>10. ActiveSessionsAreCounted'
  BY <1>0, <1>1, StepKeepsCount, Zenon
<1> QED
  BY <1>3, <1>4, <1>5, <1>6, <1>7, <1>8, <1>9, <1>10, Zenon DEF ServiceInv

(* CloseSession exchanges the handle and the entry for a reference.        *)
LEMMA CloseSessionKeeps ==
  ASSUME ServiceInv, NEW c \in Clients, CloseSession(c)
  PROVE  ServiceInv'
<1>0. /\ TypeOK /\ CallsOK /\ RefsOK /\ OwnerOK /\ ClaimsOK /\ PrivateOK
      /\ ConsumersOK /\ ActiveSessionsAreCounted
  BY Parts, Zenon
<1>1. /\ Step(c, "idle", "close") /\ cpc[c] = "idle" /\ rpc_is_running_
      /\ cpc' = [cpc EXCEPT ![c] = "close"]
      /\ cobj' = [cobj EXCEPT ![c] = handle[c]]
      /\ handle' = [handle EXCEPT ![c] = None]
      /\ sessions_' = [sessions_ EXCEPT ![PidOf[c]] = None]
      /\ UNCHANGED <<num_active_sessions_, rpc_is_running_, life,
                     is_closing_, consumer, queue, wpc, mutex, owner,
                     non_blocking, to_close>>
  BY Zenon DEF CloseSession, CanCall, ownerVars, Step
<1>2. /\ handle[c] # None /\ handle[c] \in Objects /\ life[handle[c]] = "alive"
      /\ InMap(handle[c]) /\ Open /\ Claimed(c) = handle[c]
  BY HandleIsEntry, Zenon DEF CloseSession
<1>3. TypeOK'
  BY <1>0, <1>1, <1>2, ServiceAssumption, Zenon DEF TypeOK
<1>4. CallsOK'
  BY <1>0, <1>1, <1>2, Zenon DEF TypeOK, CallsOK, Holding, Building, Entering
<1>5. RefsOK'
  BY <1>0, <1>1, <1>2, Zenon DEF RefsOK, TypeOK
<1>6. OwnerOK'
  BY <1>0, <1>1, CallKeepsOwner, Zenon
<1>7. ClaimsOK'
  <2>1. Claimed(c)' = None
    BY <1>0, <1>1, Zenon DEF Claimed, Entering, TypeOK
  <2>2. \A d \in Clients \ {c} : Claimed(d)' = Claimed(d)
    BY <1>0, <1>1, Zenon DEF Claimed, TypeOK
  <2> QED  BY <1>0, <1>1, <1>2, <2>1, <2>2, RemovalKeepsClaims, Zenon
<1>8. PrivateOK'
  <2>1. \A s \in Objects : InMap(s)' => InMap(s)
    BY <1>0, <1>1, ServiceAssumption, Zenon DEF InMap, TypeOK
  <2>2. ASSUME NEW d \in Clients, cpc'[d] \in Building
        PROVE  /\ d # c /\ cpc[d] \in Building /\ cobj[d] \in Objects
               /\ cobj[d] # handle[c] /\ cobj'[d] = cobj[d]
    <3>1. d # c /\ cpc[d] \in Building /\ cobj'[d] = cobj[d]
      BY <1>0, <1>1, <2>2, Zenon DEF TypeOK, Building
    <3>2. cobj[d] \in Objects
      BY <1>0, <3>1, Zenon DEF TypeOK, CallsOK, Holding
    <3>3. cobj[d] # handle[c]
      BY <1>0, <1>2, <3>1, Zenon DEF PrivateOK
    <3> QED  BY <3>1, <3>2, <3>3, Zenon
  <2>3. ASSUME NEW d \in Clients, cpc'[d] \in Building
        PROVE  \A p \in Pids : sessions_'[p] # cobj[d]
    BY <1>0, <2>1, <2>2, <2>3, Zenon DEF PrivateOK, InMap
  <2> QED  BY <1>0, <1>1, <2>2, <2>3 DEF TypeOK, PrivateOK, InMap
<1>9. ConsumersOK'
  BY <1>0, <1>1, Zenon DEF TypeOK, ConsumersOK
<1>10. ActiveSessionsAreCounted'
  BY <1>0, <1>1, StepKeepsCount, Zenon
<1> QED
  BY <1>3, <1>4, <1>5, <1>6, <1>7, <1>8, <1>9, <1>10, Zenon DEF ServiceInv


(* A call that has used its session drops it, after posting at most one    *)
(* task, or waits for a buffer.                                            *)
LEMMA UseSessionKeeps ==
  ASSUME ServiceInv, NEW c \in Clients, UseSession(c)
  PROVE  ServiceInv'
<1>0. /\ TypeOK /\ CallsOK /\ RefsOK /\ OwnerOK /\ ClaimsOK /\ PrivateOK
      /\ ConsumersOK /\ ActiveSessionsAreCounted
  BY Parts, Zenon
<1>1. /\ cpc[c] = "use"
      /\ queue' = queue \/ queue' = Append(queue, cobj[c])
      /\ UNCHANGED <<sessions_, num_active_sessions_, rpc_is_running_, is_closing_,
                     handle, wpc, ownerVars>>
  BY Zenon DEF UseSession
<1>2. cpc[c] \in Holding /\ cobj[c] \in Objects
  BY <1>0, <1>1, Zenon DEF Holding, CallsOK, TypeOK
<1>3. queue' \in Seq(Objects) /\ Range(queue') \subseteq Range(queue) \union {cobj[c]}
  <2>1. queue \in Seq(Objects)  BY <1>0, Zenon DEF TypeOK
  <2>2. /\ Append(queue, cobj[c]) \in Seq(Objects)
        /\ Range(Append(queue, cobj[c])) = Range(queue) \union {cobj[c]}
    BY <1>2, <2>1, RangeAppend, Zenon
  <2>3. CASE queue' = queue  BY <2>1, <2>3, Zenon
  <2>4. CASE queue' = Append(queue, cobj[c])  BY <2>2, <2>4, Zenon
  <2> QED  BY <1>1, <2>3, <2>4, Zenon
<1>4. CASE DropAndReturn(c, queue')
  <2>1. handle' = [handle EXCEPT ![c] = Claimed(c)] /\ is_closing_' \in SUBSET Objects
    BY <1>0, <1>1, Zenon DEF TypeOK, Claimed, Entering
  <2> QED  BY <1>1, <1>2, <1>3, <1>4, <2>1, DropKeeps, Zenon
<1>5. CASE Step(c, "use", "wait") /\ UNCHANGED <<life, consumer, cobj>>
  <2>1. /\ cpc' = [cpc EXCEPT ![c] = "wait"]
        /\ UNCHANGED <<sessions_, num_active_sessions_, rpc_is_running_, life,
                       is_closing_, consumer, cobj, handle, wpc, mutex, owner,
                       non_blocking, to_close>>
    BY <1>1, <1>5, Zenon DEF ownerVars, Step
  <2>2. TypeOK'
    BY <1>0, <1>3, <2>1, Zenon DEF TypeOK
  <2>3. CallsOK'
    BY <1>0, <1>1, <2>1, Zenon DEF TypeOK, CallsOK, Holding, Building, Entering
  <2>4. RefsOK'
    <3>1. life[cobj[c]] = "alive"  BY <1>0, <1>2, Zenon DEF RefsOK, CallsOK
    <3>2. \A s \in Range(queue') : life[s] = "alive"  BY <1>0, <1>3, <3>1, Zenon DEF RefsOK
    <3> QED  BY <1>0, <2>1, <3>2, Zenon DEF RefsOK
  <2>5. OwnerOK'
    <3>1. cpc[c] # "idle"  BY <1>1, Zenon
    <3> QED  BY <1>0, <2>1, <3>1, CallKeepsOwner, Zenon
  <2>6. ClaimsOK'
    <3>1. \A d \in Clients : Claimed(d)' = Claimed(d)
      BY <1>0, <1>1, <2>1, Zenon DEF Claimed, Entering, TypeOK
    <3> QED  BY <1>0, <2>1, <3>1, Zenon DEF ClaimsOK, Open
  <2>7. PrivateOK'
    <3>1. ASSUME NEW d \in Clients, cpc'[d] \in Building
          PROVE  /\ cpc[d] \in Building /\ cobj[d] # cobj[c]
                 /\ cobj[d] \notin Range(queue')
      <4>1. d # c /\ cpc[d] \in Building
        BY <1>0, <1>1, <2>1, <3>1, Zenon DEF TypeOK, Building
      <4>2. cobj[d] # cobj[c] /\ cobj[d] \notin Range(queue)
        BY <1>0, <4>1, Zenon DEF PrivateOK
      <4> QED  BY <1>3, <4>1, <4>2, Zenon
    <3> QED  BY <1>0, <2>1, <3>1, Zenon DEF PrivateOK, InMap
  <2>8. ConsumersOK'
    BY <1>0, <1>1, <2>1, Zenon DEF TypeOK, ConsumersOK
  <2>9. ActiveSessionsAreCounted'
    BY <1>0, <1>5, <2>1, StepKeepsCount, Zenon
  <2> QED
    BY <2>2, <2>3, <2>4, <2>5, <2>6, <2>7, <2>8, <2>9, Zenon DEF ServiceInv
<1> QED  BY <1>4, <1>5, Zenon DEF UseSession

(* A call that has waited for a buffer drops its session.                  *)
LEMMA FinishWaitKeeps ==
  ASSUME ServiceInv, NEW c \in Clients, FinishWait(c)
  PROVE  ServiceInv'
<1>0. TypeOK /\ CallsOK  BY Parts, Zenon
<1>1. /\ cpc[c] = "wait" /\ DropAndReturn(c, queue') /\ queue' = queue
      /\ UNCHANGED <<sessions_, num_active_sessions_, rpc_is_running_, is_closing_,
                     handle, wpc, ownerVars>>
  BY Zenon DEF FinishWait
<1>2. cpc[c] \in Holding  BY <1>1, Zenon DEF Holding
<1>3. queue' \in Seq(Objects) /\ Range(queue') \subseteq Range(queue) \union {cobj[c]}
  BY <1>0, <1>1, Zenon DEF TypeOK
<1>4. handle' = [handle EXCEPT ![c] = Claimed(c)] /\ is_closing_' \in SUBSET Objects
  BY <1>0, <1>1, Zenon DEF TypeOK, Claimed, Entering
<1> QED  BY <1>1, <1>2, <1>3, <1>4, DropKeeps, Zenon

(* A call that has closed its session drops it, after posting what was     *)
(* outstanding.                                                            *)
LEMMA FinishCloseKeeps ==
  ASSUME ServiceInv, NEW c \in Clients, FinishClose(c)
  PROVE  ServiceInv'
<1>0. TypeOK /\ CallsOK  BY Parts, Zenon
<1>1. /\ cpc[c] = "close" /\ DropAndReturn(c, queue') /\ queue' \in Flushed(cobj[c])
      /\ is_closing_' = is_closing_ \union {cobj[c]}
      /\ UNCHANGED <<sessions_, num_active_sessions_, rpc_is_running_,
                     handle, wpc, ownerVars>>
  BY Zenon DEF FinishClose
<1>2. cpc[c] \in Holding /\ cobj[c] \in Objects
  BY <1>0, <1>1, Zenon DEF Holding, CallsOK, TypeOK
<1>3. queue' \in Seq(Objects) /\ Range(queue') \subseteq Range(queue) \union {cobj[c]}
  <2>1. queue \in Seq(Objects)  BY <1>0, Zenon DEF TypeOK
  <2> QED  BY <1>1, <1>2, <2>1, RangeFlushed, Zenon
<1>4. handle' = [handle EXCEPT ![c] = Claimed(c)] /\ is_closing_' \in SUBSET Objects
  BY <1>0, <1>1, <1>2, Zenon DEF TypeOK, Claimed, Entering
<1> QED  BY <1>1, <1>2, <1>3, <1>4, DropKeeps, Zenon

(* Nothing but a call's own place, the count and the owner's changes: the  *)
(* parts of the invariant that say what refers to what are kept.           *)
LEMMA QuietKeeps ==
  ASSUME ServiceInv, NEW c \in Clients, cpc' = [cpc EXCEPT ![c] = cpc'[c]],
         cpc[c] \notin Holding, cpc'[c] \notin Holding,
         UNCHANGED <<sessions_, life, consumer, cobj, handle, queue, to_close>>,
         Open' <=> Open
  PROVE  CallsOK' /\ RefsOK' /\ ClaimsOK' /\ PrivateOK' /\ ConsumersOK'
<1>0. /\ TypeOK /\ CallsOK /\ RefsOK /\ ClaimsOK /\ PrivateOK /\ ConsumersOK
  BY Parts, Zenon
<1>1. /\ \A d \in Clients \ {c} : cpc'[d] = cpc[d]
      /\ \A d \in Clients : cpc'[d] \in Building <=> cpc[d] \in Building
      /\ \A d \in Clients : cpc'[d] \in Entering <=> cpc[d] \in Entering
      /\ \A d \in Clients : cpc'[d] = "insert" <=> cpc[d] = "insert"
      /\ \A d \in Clients : cpc'[d] \in Holding <=> cpc[d] \in Holding
      /\ \A d \in Clients : cpc'[d] \in Holding => cpc'[d] = cpc[d]
  BY <1>0, Zenon DEF TypeOK, Holding, Building, Entering
<1>2. CallsOK'
  BY <1>0, <1>1, Zenon DEF CallsOK
<1>3. RefsOK'
  BY <1>0, Zenon DEF RefsOK
<1>4. ClaimsOK'
  BY <1>0, <1>1, Zenon DEF ClaimsOK, Claimed
<1>5. PrivateOK'
  BY <1>0, <1>1, Zenon DEF PrivateOK, InMap
<1>6. ConsumersOK'
  BY <1>0, <1>1, Zenon DEF ConsumersOK
<1> QED  BY <1>2, <1>3, <1>4, <1>5, <1>6, Zenon

(* RemoveOneActiveSession on a client's thread.                            *)
LEMMA ClientDecrementsKeeps ==
  ASSUME ServiceInv, NEW c \in Clients, ClientDecrements(c)
  PROVE  ServiceInv'
<1>0. /\ TypeOK /\ OwnerOK /\ ActiveSessionsAreCounted
  BY Parts, Zenon
<1>1. /\ cpc[c] = "decrement" /\ cpc' = [cpc EXCEPT ![c] = "signal"]
      /\ num_active_sessions_' = num_active_sessions_ - 1
      /\ UNCHANGED <<sessions_, rpc_is_running_, life, is_closing_, consumer, cobj,
                     handle, queue, wpc, mutex, owner, non_blocking, to_close>>
  BY Zenon DEF ClientDecrements, Step, RemoveOneActiveSession, ownerVars
<1>2. num_active_sessions_ \in Nat \ {0}
  BY <1>0, <1>1, CountPositive, Zenon
<1>3. TypeOK'
  BY <1>0, <1>1, <1>2 DEF TypeOK
<1>4. OwnerOK'
  BY <1>0, <1>1, CallKeepsOwner, Zenon
<1>5. CallsOK' /\ RefsOK' /\ ClaimsOK' /\ PrivateOK' /\ ConsumersOK'
  <2>1. cpc[c] \notin Holding /\ cpc'[c] = "signal" /\ cpc'[c] \notin Holding
    BY <1>0, <1>1, Zenon DEF TypeOK, Holding, Building, Entering
  <2>2. Open' <=> Open  BY <1>1, Zenon DEF Open
  <2> QED  BY <1>1, <2>1, <2>2, QuietKeeps, Zenon
<1>6. ActiveSessionsAreCounted'
  <2>1. Dying' = Dying \ {c} /\ c \in Dying
    BY <1>0, <1>1, Zenon DEF Dying, TypeOK
  <2>2. Cardinality(Dying') = Cardinality(Dying) - 1
    BY <2>1, Sizes, FS_RemoveElement, Zenon
  <2>3. Active' = Active  BY <1>1, Zenon DEF Active
  <2>4. Cardinality(Active') = Cardinality(Active)  BY <2>3, Zenon
  <2> QED  BY <1>0, <1>1, <1>2, <2>2, <2>4, Sizes, SizesNext, CountIs, CountIsNext
<1> QED  BY <1>3, <1>4, <1>5, <1>6, Zenon DEF ServiceInv

(* Its signal finds the owner waiting for calls, not for sessions.         *)
LEMMA ClientSignalsKeeps ==
  ASSUME ServiceInv, NEW c \in Clients, ClientSignals(c)
  PROVE  ServiceInv'
<1>0. /\ TypeOK /\ OwnerOK /\ ActiveSessionsAreCounted
  BY Parts, Zenon
<1>1. /\ Step(c, "signal", "idle")
      /\ cpc[c] = "signal" /\ cpc' = [cpc EXCEPT ![c] = "idle"]
      /\ UNCHANGED <<sessions_, num_active_sessions_, rpc_is_running_, life,
                     is_closing_, consumer, cobj, handle, queue, wpc, mutex,
                     non_blocking, to_close>>
  BY Zenon DEF ClientSignals, Step
<1>2. owner \in {"serving", "cleanup"}
  BY <1>0, <1>1, CallsKeepOpen, Zenon
<1>3. owner' = owner
  BY <1>2, Zenon DEF ClientSignals, SignalSessionHasClosed
<1>4. TypeOK'
  BY <1>0, <1>1, <1>3, Zenon DEF TypeOK
<1>5. OwnerOK'
  BY <1>0, <1>1, <1>3, CallKeepsOwner, Zenon
<1>6. CallsOK' /\ RefsOK' /\ ClaimsOK' /\ PrivateOK' /\ ConsumersOK'
  <2>1. cpc[c] \notin Holding /\ cpc'[c] = "idle" /\ cpc'[c] \notin Holding
    BY <1>0, <1>1, Zenon DEF TypeOK, Holding, Building, Entering
  <2>2. Open' <=> Open  BY <1>3, Zenon DEF Open
  <2> QED  BY <1>1, <2>1, <2>2, QuietKeeps, Zenon
<1>7. ActiveSessionsAreCounted'
  BY <1>0, <1>1, StepKeepsCount, Zenon
<1> QED  BY <1>4, <1>5, <1>6, <1>7, Zenon DEF ServiceInv

(* A shutdown request only stops further calls.                            *)
LEMMA RequestShutdownKeeps ==
  ASSUME ServiceInv, NEW c \in Clients, RequestShutdown(c)
  PROVE  ServiceInv'
<1>0. /\ TypeOK /\ CallsOK /\ RefsOK /\ OwnerOK /\ ClaimsOK /\ PrivateOK
      /\ ConsumersOK /\ ActiveSessionsAreCounted
  BY Parts, Zenon
<1>1. /\ rpc_is_running_ /\ rpc_is_running_' = FALSE
      /\ UNCHANGED <<sessions_, num_active_sessions_, life, is_closing_, consumer,
                     queue, wpc, cpc, cobj, handle, mutex, owner, non_blocking, to_close>>
  BY Zenon DEF RequestShutdown, CanCall, clientVars, ownerVars
<1>2. TypeOK'  BY <1>0, <1>1, Zenon DEF TypeOK
<1>3. OwnerOK'  BY <1>0, <1>1, CallKeepsOwner, Zenon
<1>4. CallsOK'  BY <1>0, <1>1, Zenon DEF CallsOK
<1>5. RefsOK'  BY <1>0, <1>1, Zenon DEF RefsOK
<1>6. ClaimsOK'  BY <1>0, <1>1, Zenon DEF ClaimsOK, Claimed, Open
<1>7. PrivateOK'  BY <1>0, <1>1, Zenon DEF PrivateOK, InMap
<1>8. ConsumersOK'  BY <1>0, <1>1, Zenon DEF ConsumersOK
<1>9. ActiveSessionsAreCounted'
  BY <1>0, <1>1, Zenon DEF ActiveSessionsAreCounted, Active, Decrementing
<1> QED  BY <1>2, <1>3, <1>4, <1>5, <1>6, <1>7, <1>8, <1>9, Zenon DEF ServiceInv


-----------------------------------------------------------------------------
(* The writer thread keeps the invariant.                                  *)

(* A task that has run drops its session; the writer is counted in the     *)
(* session's place when it was the last to refer to it.                    *)
LEMMA RunTaskKeeps ==
  ASSUME ServiceInv, RunTask
  PROVE  ServiceInv'
<1>0. /\ TypeOK /\ CallsOK /\ RefsOK /\ OwnerOK /\ ClaimsOK /\ PrivateOK
      /\ ConsumersOK /\ ActiveSessionsAreCounted
  BY Parts, Zenon
<1> DEFINE s == Head(queue)
           q == Tail(queue)
<1>1. /\ wpc = "idle" /\ queue # <<>> /\ queue' = q
      /\ \/ Referenced(s, {}, q) /\ UNCHANGED <<wpc, life, consumer>>
         \/ ~Referenced(s, {}, q) /\ wpc' = "decrement" /\ Destruct(s)
      /\ UNCHANGED <<sessions_, num_active_sessions_, rpc_is_running_, is_closing_,
                     cpc, cobj, handle, mutex, owner, non_blocking, to_close>>
  BY Zenon DEF RunTask, clientVars, ownerVars
<1>2. s \in Objects /\ q \in Seq(Objects) /\ Range(queue) = Range(q) \union {s}
  BY <1>0, <1>1, RangeTail, Zenon DEF TypeOK
<1>3. life[s] = "alive"
  BY <1>0, <1>2, Zenon DEF RefsOK
<1> HIDE DEF s, q
<1>4. \A t \in Objects :
        t # s \/ InMap(t) \/ t \in to_close \/ t \in Range(q)
        \/ (\E d \in Clients : cobj[d] = t)
        => life'[t] = life[t] /\ consumer'[t] = consumer[t]
  BY <1>0, <1>1, <1>2, Zenon DEF Referenced, Destruct, TypeOK
<1>5. TypeOK'
  BY <1>0, <1>1, <1>2, Zenon DEF TypeOK, Destruct
<1>6. CallsOK'
  BY <1>0, <1>1, Zenon DEF CallsOK
<1>7. RefsOK'
  <2>1. ASSUME NEW p \in Pids, sessions_[p] # None
        PROVE  life'[sessions_[p]] = "alive"
    <3>1. sessions_[p] \in Objects /\ InMap(sessions_[p])
      BY <1>0, <2>1, Zenon DEF TypeOK, InMap
    <3> QED  BY <1>0, <1>4, <2>1, <3>1, Zenon DEF RefsOK
  <2>2. ASSUME NEW t \in to_close
        PROVE  life'[t] = "alive"
    BY <1>0, <1>4, Zenon DEF TypeOK, RefsOK
  <2>3. ASSUME NEW d \in Clients, cobj[d] # None
        PROVE  life'[cobj[d]] = "alive"
    BY <1>0, <1>4, <2>3 DEF TypeOK, RefsOK
  <2>4. ASSUME NEW t \in Range(q)
        PROVE  life'[t] = "alive"
    <3>1. t \in Objects  BY <1>2 DEF Range
    <3>2. life[t] = "alive"  BY <1>0, <1>2, Zenon DEF RefsOK
    <3> QED  BY <1>4, <3>1, <3>2, Zenon
  <2> QED  BY <1>1, <2>1, <2>2, <2>3, <2>4, Zenon DEF RefsOK
<1>8. OwnerOK'
  BY <1>0, <1>1, Zenon DEF OwnerOK, Open, InFlight
<1>9. ClaimsOK'
  BY <1>0, <1>1, Zenon DEF ClaimsOK, Claimed, Open
<1>10. PrivateOK'
  BY <1>0, <1>1, <1>2, Zenon DEF PrivateOK, InMap
<1>11. ConsumersOK'
  <2>1. ASSUME NEW p \in Pids, sessions_[p] # None
        PROVE  consumer'[sessions_[p]] = "open"
    <3>1. sessions_[p] \in Objects /\ InMap(sessions_[p])
      BY <1>0, <2>1, Zenon DEF TypeOK, InMap
    <3> QED  BY <1>0, <1>4, <2>1, <3>1, Zenon DEF ConsumersOK
  <2>2. ASSUME NEW t \in to_close
        PROVE  consumer'[t] = "open"
    BY <1>0, <1>4, Zenon DEF TypeOK, ConsumersOK
  <2>3. ASSUME NEW d \in Clients, cpc[d] = "insert"
        PROVE  consumer'[cobj[d]] = "open"
    <3>1. cobj[d] \in Objects
      BY <1>0, <2>3, Zenon DEF TypeOK, CallsOK, Holding, Building
    <3> QED  BY <1>0, <1>4, <2>3, <3>1, Zenon DEF ConsumersOK
  <2> QED  BY <1>1, <2>1, <2>2, <2>3, Zenon DEF ConsumersOK
<1>12. ActiveSessionsAreCounted'
  <2>1. Dying' = Dying  BY <1>1, Zenon DEF Dying
  <2>2. CASE UNCHANGED <<wpc, life, consumer>>
    <3>1. Active' = Active  BY <2>2, Zenon DEF Active
    <3> QED  BY <1>0, <1>1, <2>1, <2>2, <3>1, CountUnchanged, Zenon
  <2>3. CASE wpc' = "decrement" /\ Destruct(s)
    <3>1. Cardinality(Active') = Cardinality(Active) - 1
      BY <1>0, <1>2, <1>3, <2>3, DestructCounts, Zenon
    <3>2. Cardinality(Dying') = Cardinality(Dying)  BY <2>1, Zenon
    <3>3. wpc # "decrement"  BY <1>1, Zenon
    <3> QED  BY <1>0, <1>1, <2>3, <3>1, <3>2, <3>3, Sizes, CountIs, CountIsNext
  <2> QED  BY <1>1, <2>2, <2>3, Zenon
<1> QED
  BY <1>5, <1>6, <1>7, <1>8, <1>9, <1>10, <1>11, <1>12, Zenon DEF ServiceInv

(* RemoveOneActiveSession on the writer's thread.                          *)
LEMMA WriterDecrementsKeeps ==
  ASSUME ServiceInv, WriterDecrements
  PROVE  ServiceInv'
<1>0. /\ TypeOK /\ CallsOK /\ RefsOK /\ OwnerOK /\ ClaimsOK /\ PrivateOK
      /\ ConsumersOK /\ ActiveSessionsAreCounted
  BY Parts, Zenon
<1>1. /\ wpc = "decrement" /\ wpc' = "signal"
      /\ num_active_sessions_' = num_active_sessions_ - 1
      /\ UNCHANGED <<sessions_, rpc_is_running_, life, is_closing_, consumer, queue,
                     cpc, cobj, handle, mutex, owner, non_blocking, to_close>>
  BY Zenon DEF WriterDecrements, RemoveOneActiveSession, clientVars, ownerVars
<1>2. num_active_sessions_ \in Nat \ {0}
  BY <1>0, <1>1, CountPositive, Zenon
<1>3. TypeOK'  BY <1>0, <1>1, <1>2 DEF TypeOK
<1>4. OwnerOK'  BY <1>0, <1>1, <1>2, Zenon DEF OwnerOK, Open, InFlight
<1>5. CallsOK'  BY <1>0, <1>1, Zenon DEF CallsOK
<1>6. RefsOK'  BY <1>0, <1>1, Zenon DEF RefsOK
<1>7. ClaimsOK'  BY <1>0, <1>1, Zenon DEF ClaimsOK, Claimed, Open
<1>8. PrivateOK'  BY <1>0, <1>1, Zenon DEF PrivateOK, InMap
<1>9. ConsumersOK'  BY <1>0, <1>1, Zenon DEF ConsumersOK
<1>10. ActiveSessionsAreCounted'
  <2>1. Active' = Active /\ Dying' = Dying  BY <1>1, Zenon DEF Active, Dying
  <2>2. Cardinality(Active') = Cardinality(Active) /\ Cardinality(Dying') = Cardinality(Dying)
    BY <2>1, Zenon
  <2> QED  BY <1>0, <1>1, <1>2, <2>2, Sizes, CountIs, CountIsNext
<1> QED
  BY <1>3, <1>4, <1>5, <1>6, <1>7, <1>8, <1>9, <1>10, Zenon DEF ServiceInv

(* Its signal wakes the owner where the owner waits.                       *)
LEMMA WriterSignalsKeeps ==
  ASSUME ServiceInv, WriterSignals
  PROVE  ServiceInv'
<1>0. /\ TypeOK /\ CallsOK /\ RefsOK /\ OwnerOK /\ ClaimsOK /\ PrivateOK
      /\ ConsumersOK /\ ActiveSessionsAreCounted
  BY Parts, Zenon
<1>1. /\ wpc = "signal" /\ wpc' = "idle"
      /\ owner' = IF owner = "waiting" THEN "woken" ELSE owner
      /\ UNCHANGED <<sessions_, num_active_sessions_, rpc_is_running_, life,
                     is_closing_, consumer, queue, cpc, cobj, handle, mutex,
                     non_blocking, to_close>>
  BY Zenon DEF WriterSignals, SignalSessionHasClosed, clientVars
<1>2. Open' <=> Open  BY <1>1, Zenon DEF Open
<1>3. TypeOK'  BY <1>0, <1>1, Zenon DEF TypeOK
<1>4. OwnerOK'  BY <1>0, <1>1, Zenon DEF OwnerOK, Open, InFlight
<1>5. CallsOK'  BY <1>0, <1>1, Zenon DEF CallsOK
<1>6. RefsOK'  BY <1>0, <1>1, Zenon DEF RefsOK
<1>7. ClaimsOK'  BY <1>0, <1>1, <1>2, Zenon DEF ClaimsOK, Claimed
<1>8. PrivateOK'  BY <1>0, <1>1, Zenon DEF PrivateOK, InMap
<1>9. ConsumersOK'  BY <1>0, <1>1, Zenon DEF ConsumersOK
<1>10. ActiveSessionsAreCounted'
  BY <1>0, <1>1, Zenon DEF ActiveSessionsAreCounted, Active, Decrementing
<1> QED
  BY <1>3, <1>4, <1>5, <1>6, <1>7, <1>8, <1>9, <1>10, Zenon DEF ServiceInv

-----------------------------------------------------------------------------
(* The owner thread keeps the invariant.                                   *)

(* A step of the owner that touches no session.                            *)
LEMMA OwnerStepKeeps ==
  ASSUME ServiceInv, OwnerOK', ClaimsOK',
         owner' \in {"off", "serving", "cleanup", "swap", "close", "clear",
                     "waiting", "woken", "release", "stopped"},
         rpc_is_running_' \in BOOLEAN, mutex' \in BOOLEAN, non_blocking' \in BOOLEAN,
         UNCHANGED <<sessions_, num_active_sessions_, to_close, life, is_closing_,
                     consumer, clientVars, queue, wpc>>
  PROVE  ServiceInv'
<1>0. /\ TypeOK /\ CallsOK /\ RefsOK /\ PrivateOK /\ ConsumersOK
      /\ ActiveSessionsAreCounted
  BY Parts, Zenon
<1> USE DEF clientVars
<1>1. TypeOK'  BY <1>0, Zenon DEF TypeOK
<1>2. CallsOK'  BY <1>0, Zenon DEF CallsOK
<1>3. RefsOK'  BY <1>0, Zenon DEF RefsOK
<1>4. PrivateOK'  BY <1>0, Zenon DEF PrivateOK, InMap
<1>5. ConsumersOK'  BY <1>0, Zenon DEF ConsumersOK
<1>6. ActiveSessionsAreCounted'
  BY <1>0, Zenon DEF ActiveSessionsAreCounted, Active, Decrementing
<1> QED  BY <1>1, <1>2, <1>3, <1>4, <1>5, <1>6, Zenon DEF ServiceInv

(* Start finds no client with a handle.                                    *)
LEMMA StartKeeps ==
  ASSUME ServiceInv, Start
  PROVE  ServiceInv'
<1>0. TypeOK /\ OwnerOK /\ CallsOK /\ owner = "off"  BY Parts, Zenon DEF Start
<1>1. UNCHANGED <<sessions_, num_active_sessions_, to_close, life, is_closing_,
                  consumer, cpc, cobj, handle, queue, wpc>>
  BY Zenon DEF Start, clientVars
<1>2. \A c \in Clients : handle[c] = None /\ cpc[c] = "idle"
  BY <1>0, Zenon DEF OwnerOK, InFlight
<1>3. /\ owner' \in {"serving", "swap"} /\ rpc_is_running_' \in BOOLEAN
      /\ mutex' \in BOOLEAN /\ non_blocking' \in BOOLEAN
      /\ rpc_is_running_' => owner' = "serving"
      /\ ~mutex' => owner' = "swap"
  <2>1. CASE /\ owner' = "serving" /\ mutex' = TRUE /\ rpc_is_running_' = TRUE
             /\ non_blocking' \in BOOLEAN
    BY <2>1, Zenon
  <2>2. CASE /\ owner' = "swap" /\ mutex' \in BOOLEAN
             /\ UNCHANGED <<rpc_is_running_, non_blocking>>
    <3>1. rpc_is_running_ \in BOOLEAN /\ non_blocking \in BOOLEAN  BY <1>0, Zenon DEF TypeOK
    <3>2. ~rpc_is_running_  BY <1>0, Zenon DEF OwnerOK
    <3> QED  BY <2>2, <3>1, <3>2, Zenon
  <2> QED  BY <2>1, <2>2, Zenon DEF Start
<1>4. OwnerOK'
  BY <1>0, <1>1, <1>2, <1>3, Zenon DEF OwnerOK, Open, InFlight
<1>5. ClaimsOK'
  BY <1>1, <1>2, Zenon DEF ClaimsOK, Claimed, Entering
<1> QED  BY <1>1, <1>3, <1>4, <1>5, OwnerStepKeeps, Zenon DEF clientVars

(* Stop begins: calls may still be in progress in non-blocking mode.       *)
LEMMA StopRpcKeeps ==
  ASSUME ServiceInv, StopRpc
  PROVE  ServiceInv'
<1>0. TypeOK /\ OwnerOK /\ ClaimsOK  BY Parts, Zenon
<1>1. /\ owner = "serving" /\ owner' = "cleanup" /\ rpc_is_running_' = FALSE
      /\ non_blocking \/ ~InFlight
      /\ UNCHANGED <<sessions_, num_active_sessions_, mutex, non_blocking, to_close,
                     life, is_closing_, consumer, cpc, cobj, handle, queue, wpc>>
  BY Zenon DEF StopRpc, clientVars
<1>2. OwnerOK'
  BY <1>0, <1>1, Zenon DEF OwnerOK, Open, InFlight
<1>3. ClaimsOK'
  BY <1>0, <1>1, Zenon DEF ClaimsOK, Claimed, Open
<1>4. mutex' \in BOOLEAN /\ non_blocking' \in BOOLEAN  BY <1>0, <1>1, Zenon DEF TypeOK
<1> QED  BY <1>1, <1>2, <1>3, <1>4, OwnerStepKeeps, Zenon DEF clientVars

(* Every call has returned before the sessions are closed.                 *)
LEMMA CleanupRpcKeeps ==
  ASSUME ServiceInv, CleanupRpc
  PROVE  ServiceInv'
<1>0. TypeOK /\ OwnerOK  BY Parts, Zenon
<1>1. /\ owner = "cleanup" /\ owner' = "swap" /\ non_blocking' = FALSE
      /\ non_blocking => ~InFlight
      /\ UNCHANGED <<sessions_, num_active_sessions_, rpc_is_running_, mutex,
                     to_close, life, is_closing_, consumer, cpc, cobj, handle, queue, wpc>>
  BY Zenon DEF CleanupRpc, clientVars
<1>2. OwnerOK'
  BY <1>0, <1>1, Zenon DEF OwnerOK, Open, InFlight
<1>3. ClaimsOK'
  BY <1>1, Zenon DEF ClaimsOK, Open
<1>4. mutex' \in BOOLEAN /\ rpc_is_running_' \in BOOLEAN  BY <1>0, <1>1, Zenon DEF TypeOK
<1> QED  BY <1>1, <1>2, <1>3, <1>4, OwnerStepKeeps, Zenon DEF clientVars

(* The wait ends only when the count is 0, and Stop returns only then.     *)
LEMMA WaitForSessionsKeeps ==
  ASSUME ServiceInv, WaitForSessions \/ SpuriousWakeup \/ ReleaseServiceMutex
  PROVE  ServiceInv'
<1>0. TypeOK /\ OwnerOK  BY Parts, Zenon
<1>1. /\ \/ owner = "clear" /\ to_close = {}
         \/ owner \in {"waiting", "woken", "release"}
      /\ owner' \in {"waiting", "woken", "release", "stopped"}
      /\ owner' = "release" => num_active_sessions_ = 0
      /\ owner' = "stopped" => owner = "release" /\ ~mutex'
      /\ mutex' \in BOOLEAN
      /\ ~mutex' => ~mutex \/ owner = "release"
      /\ UNCHANGED <<sessions_, num_active_sessions_, rpc_is_running_,
                     non_blocking, to_close, life, is_closing_, consumer, cpc,
                     cobj, handle, queue, wpc>>
  <2>1. mutex \in BOOLEAN  BY <1>0, Zenon DEF TypeOK
  <2>2. CASE WaitForSessions
    BY <2>1, <2>2, Zenon DEF WaitForSessions, clientVars
  <2>3. CASE SpuriousWakeup
    BY <2>1, <2>3, Zenon DEF SpuriousWakeup, clientVars
  <2>4. CASE ReleaseServiceMutex
    BY <2>4, Zenon DEF ReleaseServiceMutex, clientVars
  <2> QED  BY <2>2, <2>3, <2>4, Zenon
<1>2. OwnerOK'
  <2>1. /\ owner # "off" /\ owner' # "off"
        /\ owner \notin {"close", "serving", "cleanup", "swap", "stopped"}
        /\ owner' \notin {"close", "clear", "serving", "cleanup", "swap"}
        /\ to_close = {}
    BY <1>0, <1>1, Zenon DEF OwnerOK
  <2>2. ~InFlight' /\ \A p \in Pids : sessions_'[p] = None
    BY <1>0, <1>1, <2>1, Zenon DEF OwnerOK, Open, InFlight
  <2>3. ~mutex' => num_active_sessions_' = 0
    BY <1>0, <1>1, Zenon DEF OwnerOK
  <2>4. owner' \in {"release", "stopped"} => num_active_sessions_' = 0
    BY <1>0, <1>1, Zenon DEF OwnerOK
  <2>5. ~rpc_is_running_'  BY <1>0, <1>1, <2>1, Zenon DEF OwnerOK
  <2> QED  BY <1>1, <2>1, <2>2, <2>3, <2>4, <2>5, Zenon DEF OwnerOK
<1>3. ClaimsOK'
  BY <1>1, Zenon DEF ClaimsOK, Open
<1>4. non_blocking' \in BOOLEAN /\ rpc_is_running_' \in BOOLEAN  BY <1>0, <1>1, Zenon DEF TypeOK
<1> QED  BY <1>1, <1>2, <1>3, <1>4, OwnerStepKeeps, Zenon DEF clientVars

(* Once the owner closes sessions there are no calls, so what is said of   *)
(* calls stays true.                                                       *)
LEMMA ClosingKeeps ==
  ASSUME ServiceInv, ~Open, ~Open', UNCHANGED clientVars
  PROVE  /\ \A c \in Clients : cpc[c] = "idle" /\ cobj[c] = None
         /\ CallsOK' /\ ClaimsOK' /\ PrivateOK'
<1>0. CallsOK /\ OwnerOK  BY Parts, Zenon
<1>1. \A c \in Clients : cpc[c] = "idle" /\ cobj[c] = None
  BY <1>0, Zenon DEF OwnerOK, InFlight, CallsOK, Holding, Building, Entering
<1>2. CallsOK'  BY <1>0, Zenon DEF CallsOK, clientVars
<1>3. ClaimsOK'  BY Zenon DEF ClaimsOK
<1>4. PrivateOK'  BY <1>1, Zenon DEF PrivateOK, Building, clientVars
<1> QED  BY <1>1, <1>2, <1>3, <1>4, Zenon

(* CloseAllOpenSessions takes over every reference of the map ...          *)
LEMMA SwapSessionsKeeps ==
  ASSUME ServiceInv, SwapSessions
  PROVE  ServiceInv'
<1>0. /\ TypeOK /\ RefsOK /\ OwnerOK /\ ConsumersOK /\ ActiveSessionsAreCounted
  BY Parts, Zenon
<1>1. /\ owner = "swap" /\ owner' = "close"
      /\ to_close' = Range(sessions_) \ {None}
      /\ sessions_' = [p \in Pids |-> None]
      /\ UNCHANGED <<num_active_sessions_, rpc_is_running_, mutex, non_blocking,
                     life, is_closing_, consumer, cpc, cobj, handle, queue, wpc>>
  BY Zenon DEF SwapSessions, clientVars
<1>2. \A s \in to_close' : \E p \in Pids : s = sessions_[p] /\ s # None /\ s \in Objects
  BY <1>0, <1>1 DEF Range, TypeOK
<1>3. /\ \A c \in Clients : cpc[c] = "idle" /\ cobj[c] = None
      /\ CallsOK' /\ ClaimsOK' /\ PrivateOK'
  BY <1>1, ClosingKeeps, Zenon DEF Open, clientVars
<1>4. TypeOK'
  BY <1>0, <1>1, <1>2, Zenon DEF TypeOK
<1>5. RefsOK'
  <2>1. \A p \in Pids : sessions_'[p] = None  BY <1>1, Zenon
  <2>2. \A s \in to_close' : life[s] = "alive"  BY <1>0, <1>2 DEF RefsOK
  <2> QED  BY <1>0, <1>1, <2>1, <2>2, Zenon DEF RefsOK
<1>6. OwnerOK'
  BY <1>0, <1>1, Zenon DEF OwnerOK, Open, InFlight
<1>7. ConsumersOK'
  <2>1. \A p \in Pids : sessions_'[p] = None  BY <1>1, Zenon
  <2>2. \A s \in to_close' : consumer[s] = "open"  BY <1>0, <1>2 DEF ConsumersOK
  <2> QED  BY <1>0, <1>1, <2>1, <2>2, Zenon DEF ConsumersOK
<1>8. ActiveSessionsAreCounted'
  BY <1>0, <1>1, Zenon DEF ActiveSessionsAreCounted, Active, Decrementing
<1> QED  BY <1>3, <1>4, <1>5, <1>6, <1>7, <1>8, Zenon DEF ServiceInv

(* ... closes each ...                                                     *)
LEMMA CloseOpenSessionKeeps ==
  ASSUME ServiceInv, CloseOpenSession
  PROVE  ServiceInv'
<1>0. /\ TypeOK /\ RefsOK /\ OwnerOK /\ ConsumersOK /\ ActiveSessionsAreCounted
  BY Parts, Zenon
<1>1. /\ owner = "close" /\ owner' \in {"close", "clear"}
      /\ UNCHANGED <<sessions_, num_active_sessions_, rpc_is_running_, mutex,
                     non_blocking, to_close, life, consumer, cpc, cobj, handle, wpc>>
  BY Zenon DEF CloseOpenSession, clientVars
<1>2. /\ queue' \in Seq(Objects) /\ is_closing_' \in SUBSET Objects
      /\ Range(queue') \subseteq Range(queue) \union to_close
  <2>1. CASE UNCHANGED <<is_closing_, queue>>
    BY <1>0, <2>1, Zenon DEF TypeOK
  <2>2. CASE \E s \in to_close \ is_closing_ :
               is_closing_' = is_closing_ \union {s} /\ queue' \in Flushed(s)
    <3>1. PICK s \in to_close : is_closing_' = is_closing_ \union {s} /\ queue' \in Flushed(s)
      BY <2>2, Zenon
    <3>2. s \in Objects /\ queue \in Seq(Objects)  BY <1>0, <3>1, Zenon DEF TypeOK
    <3>3. queue' \in Seq(Objects) /\ Range(queue') \subseteq Range(queue) \union {s}
      BY <3>1, <3>2, RangeFlushed, Zenon
    <3> QED  BY <1>0, <3>1, <3>2, <3>3, Zenon DEF TypeOK
  <2> QED  BY <2>1, <2>2, Zenon DEF CloseOpenSession
<1>3. /\ CallsOK' /\ ClaimsOK' /\ PrivateOK'
  BY <1>1, ClosingKeeps, Zenon DEF Open, clientVars
<1>4. TypeOK'
  BY <1>0, <1>1, <1>2, Zenon DEF TypeOK
<1>5. RefsOK'
  BY <1>0, <1>1, <1>2, Zenon DEF RefsOK
<1>6. OwnerOK'
  BY <1>0, <1>1, Zenon DEF OwnerOK, Open, InFlight
<1>7. ConsumersOK'
  BY <1>0, <1>1, Zenon DEF ConsumersOK
<1>8. ActiveSessionsAreCounted'
  BY <1>0, <1>1, Zenon DEF ActiveSessionsAreCounted, Active, Decrementing
<1> QED  BY <1>3, <1>4, <1>5, <1>6, <1>7, <1>8, Zenon DEF ServiceInv

(* ... and releases them, where only a task can still refer to a session.  *)
LEMMA ClearToCloseKeeps ==
  ASSUME ServiceInv, ClearToClose
  PROVE  ServiceInv'
<1>0. /\ TypeOK /\ RefsOK /\ OwnerOK /\ ConsumersOK /\ ActiveSessionsAreCounted
  BY Parts, Zenon
<1>1. /\ owner = "clear"
      /\ UNCHANGED <<sessions_, rpc_is_running_, mutex, owner, non_blocking,
                     is_closing_, cpc, cobj, handle, queue, wpc>>
  BY Zenon DEF ClearToClose, clientVars
<1>2. PICK s \in to_close :
        /\ to_close' = to_close \ {s}
        /\ \/ UNCHANGED <<num_active_sessions_, life, consumer>>
           \/ /\ s \notin Range(queue) /\ Destruct(s)
              /\ num_active_sessions_' = num_active_sessions_ - 1
  BY Zenon DEF ClearToClose, RemoveOneActiveSession
<1>3. s \in Objects /\ life[s] = "alive" /\ num_active_sessions_ \in Nat \ {0}
  <2>1. s \in Objects /\ life[s] = "alive"  BY <1>0, Zenon DEF TypeOK, RefsOK
  <2> QED  BY <1>0, <2>1, CountPositive, Zenon
<1>4. /\ \A c \in Clients : cpc[c] = "idle" /\ cobj[c] = None
      /\ CallsOK' /\ ClaimsOK' /\ PrivateOK'
  BY <1>1, ClosingKeeps, Zenon DEF Open, clientVars
<1>5. \A p \in Pids : sessions_[p] = None
  BY <1>0, <1>1, Zenon DEF OwnerOK, Open
<1>6. \A t \in Objects :
        t # s \/ t \in Range(queue) => life'[t] = life[t] /\ consumer'[t] = consumer[t]
  BY <1>0, <1>2, <1>3, Zenon DEF TypeOK, Destruct
<1>7. TypeOK'
  <2>1. to_close' \in SUBSET Objects  BY <1>0, <1>2, Zenon DEF TypeOK
  <2>2. /\ num_active_sessions_' \in Nat
        /\ life' \in [Objects -> {"none", "alive", "destroyed"}]
        /\ consumer' \in [Objects -> {"none", "open", "closed"}]
    <3>1. CASE UNCHANGED <<num_active_sessions_, life, consumer>>
      BY <1>0, <3>1, Zenon DEF TypeOK
    <3>2. CASE Destruct(s) /\ num_active_sessions_' = num_active_sessions_ - 1
      BY <1>0, <1>3, <3>2 DEF TypeOK, Destruct
    <3> QED  BY <1>2, <3>1, <3>2, Zenon
  <2> QED  BY <1>0, <1>1, <2>1, <2>2, Zenon DEF TypeOK
<1>8. RefsOK'
  <2>1. \A t \in to_close' : life'[t] = "alive"
    BY <1>0, <1>2, <1>6, Zenon DEF RefsOK, TypeOK
  <2>2. \A t \in Range(queue) : life'[t] = "alive"
    <3>1. Range(queue) \subseteq Objects  BY <1>0 DEF TypeOK, Range
    <3> QED  BY <1>0, <1>6, <3>1, Zenon DEF RefsOK
  <2> QED  BY <1>1, <1>4, <1>5, <2>1, <2>2, Zenon DEF RefsOK
<1>9. OwnerOK'
  <2>1. mutex  BY <1>0, <1>3, Zenon DEF OwnerOK
  <2> QED  BY <1>0, <1>1, <2>1, Zenon DEF OwnerOK, Open, InFlight
<1>10. ConsumersOK'
  <2>1. \A t \in to_close' : consumer'[t] = "open"
    BY <1>0, <1>2, <1>6, Zenon DEF ConsumersOK, TypeOK
  <2> QED  BY <1>1, <1>4, <1>5, <2>1, Zenon DEF ConsumersOK
<1>11. ActiveSessionsAreCounted'
  <2>1. Dying' = Dying  BY <1>1, Zenon DEF Dying
  <2>2. CASE UNCHANGED <<num_active_sessions_, life, consumer>>
    <3>1. Active' = Active  BY <2>2, Zenon DEF Active
    <3> QED  BY <1>0, <1>1, <2>1, <2>2, <3>1, CountUnchanged, Zenon
  <2>3. CASE Destruct(s) /\ num_active_sessions_' = num_active_sessions_ - 1
    <3>1. Cardinality(Active') = Cardinality(Active) - 1
      BY <1>0, <1>3, <2>3, DestructCounts, Zenon
    <3>2. Cardinality(Dying') = Cardinality(Dying)  BY <2>1, Zenon
    <3> QED  BY <1>0, <1>1, <1>3, <2>3, <3>1, <3>2, Sizes, CountIs, CountIsNext
  <2> QED  BY <1>2, <2>2, <2>3, Zenon
<1> QED
  BY <1>4, <1>7, <1>8, <1>9, <1>10, <1>11, Zenon DEF ServiceInv


-----------------------------------------------------------------------------
(* The theorems.                                                           *)

(* The invariant holds in a service that has not been started.             *)
LEMMA InitEstablishes == Init => ServiceInv
<1> SUFFICES ASSUME Init PROVE ServiceInv  BY Zenon
<1>1. TypeOK
  <2>1. rpc_is_running_ \in BOOLEAN /\ mutex \in BOOLEAN /\ non_blocking \in BOOLEAN
    BY Zenon DEF Init
  <2>2. /\ sessions_ \in [Pids -> Objects \union {None}]
        /\ cobj \in [Clients -> Objects \union {None}]
        /\ handle \in [Clients -> Objects \union {None}]
        /\ to_close \in SUBSET Objects /\ is_closing_ \in SUBSET Objects
    BY Zenon DEF Init
  <2>3. life \in [Objects -> {"none", "alive", "destroyed"}]
    BY Zenon DEF Init
  <2>4. consumer \in [Objects -> {"none", "open", "closed"}]
    BY Zenon DEF Init
  <2>5. cpc \in [Clients -> {"idle", "init", "insert", "duplicate", "first_buffer",
                           "erasing", "use", "wait", "close", "decrement", "signal"}]
    BY Zenon DEF Init
  <2>6. /\ num_active_sessions_ \in Nat /\ queue \in Seq(Objects)
        /\ owner = "off" /\ wpc = "idle"
    BY DEF Init
  <2> QED  BY <2>1, <2>2, <2>3, <2>4, <2>5, <2>6, Zenon DEF TypeOK
<1>2. CallsOK  BY Zenon DEF Init, CallsOK, Holding, Building, Entering
<1>3. RefsOK  BY DEF Init, RefsOK, Range
<1>4. OwnerOK  BY Zenon DEF Init, OwnerOK, Open, InFlight
<1>5. ClaimsOK  BY Zenon DEF Init, ClaimsOK, Claimed, Entering
<1>6. PrivateOK  BY Zenon DEF Init, PrivateOK, Building
<1>7. ConsumersOK  BY Zenon DEF Init, ConsumersOK
<1>8. ActiveSessionsAreCounted
  <2>1. Active = {} /\ Dying = {} /\ wpc # "decrement" /\ num_active_sessions_ = 0
    BY Zenon DEF Init, Active, Dying
  <2>2. Cardinality(Active) = 0 /\ Cardinality(Dying) = 0
    BY <2>1, FS_EmptySet, Zenon
  <2> QED  BY <2>1, <2>2, CountIs
<1> QED  BY <1>1, <1>2, <1>3, <1>4, <1>5, <1>6, <1>7, <1>8, Zenon DEF ServiceInv

(* Every step of every thread keeps it.                                    *)
LEMMA NextKeeps == ServiceInv /\ [Next]_vars => ServiceInv'
<1> SUFFICES ASSUME ServiceInv, [Next]_vars PROVE ServiceInv'  BY Zenon
<1>1. ASSUME NEW c \in Clients,
             \/ NewSession(c) \/ GetExistingSession(c) \/ CloseSession(c)
             \/ RequestShutdown(c) \/ ClientStep(c) \/ FinishWait(c)
      PROVE  ServiceInv'
  BY <1>1, NewSessionKeeps, GetExistingSessionKeeps, CloseSessionKeeps,
     RequestShutdownKeeps, InitSessionKeeps, InsertSessionKeeps,
     RejectDuplicateKeeps, GetFirstBufferKeeps, EraseFailedSessionKeeps,
     UseSessionKeeps, FinishWaitKeeps, FinishCloseKeeps, ClientDecrementsKeeps,
     ClientSignalsKeeps, Zenon DEF ClientStep
<1>2. CASE WriterStep
  BY <1>2, RunTaskKeeps, WriterDecrementsKeeps, WriterSignalsKeeps, Zenon DEF WriterStep
<1>3. CASE Start \/ StopRpc \/ StopStep \/ SpuriousWakeup
  BY <1>3, StartKeeps, StopRpcKeeps, CleanupRpcKeeps, SwapSessionsKeeps,
     CloseOpenSessionKeeps, ClearToCloseKeeps, WaitForSessionsKeeps, Zenon DEF StopStep
<1>4. CASE UNCHANGED vars
  <2>0. /\ TypeOK /\ CallsOK /\ RefsOK /\ OwnerOK /\ ClaimsOK /\ PrivateOK
        /\ ConsumersOK /\ ActiveSessionsAreCounted
    BY Parts, Zenon
  <2>1. UNCHANGED <<sessions_, num_active_sessions_, to_close, life, is_closing_,
                    consumer, clientVars, queue, wpc, cpc, cobj, handle,
                    rpc_is_running_, mutex, owner, non_blocking>>
    BY <1>4, Zenon DEF vars, clientVars
  <2>2. OwnerOK'  BY <2>0, <2>1, Zenon DEF OwnerOK, Open, InFlight
  <2>3. ClaimsOK'  BY <2>0, <2>1, Zenon DEF ClaimsOK, Claimed, Open
  <2>4. /\ owner' \in {"off", "serving", "cleanup", "swap", "close", "clear",
                       "waiting", "woken", "release", "stopped"}
        /\ rpc_is_running_' \in BOOLEAN /\ mutex' \in BOOLEAN /\ non_blocking' \in BOOLEAN
    BY <2>0, <2>1, Zenon DEF TypeOK
  <2> QED  BY <2>1, <2>2, <2>3, <2>4, OwnerStepKeeps, Zenon
<1> QED  BY <1>1, <1>2, <1>3, <1>4, Zenon DEF Next, Done

(* The inductive invariant of the service.                                 *)
THEOREM ServiceInvariant == Spec => []ServiceInv
<1>1. Init => ServiceInv  BY InitEstablishes, Zenon
<1>2. ServiceInv /\ [Next]_vars => ServiceInv'  BY NextKeeps, Zenon
<1> QED  BY <1>1, <1>2, PTL DEF Spec

(* num_active_sessions_ is exact, whichever thread a session dies on and   *)
(* whichever error path of CreateSession it takes.                         *)
THEOREM SessionsAlwaysCounted == Spec => []ActiveSessionsAreCounted
<1>1. ServiceInv => ActiveSessionsAreCounted  BY Zenon DEF ServiceInv
<1> QED  BY <1>1, ServiceInvariant, PTL

(* No scoped_refptr, map entry or posted task refers to a session that has *)
(* been destroyed.                                                         *)
THEOREM ReferencesAlwaysAlive == Spec => []ReferencesAreAlive
<1>1. ServiceInv => ReferencesAreAlive
  <2> SUFFICES ASSUME ServiceInv PROVE ReferencesAreAlive  BY Zenon
  <2>0. TypeOK /\ RefsOK  BY Parts, Zenon
  <2>1. ASSUME NEW s \in Range(sessions_), s # None PROVE s \in Active
    <3>1. \E p \in Pids : s = sessions_[p]  BY <2>0, Zenon DEF TypeOK, Range
    <3> QED  BY <2>0, <2>1, <3>1 DEF TypeOK, RefsOK, Active
  <2>2. to_close \subseteq Active  BY <2>0, Zenon DEF TypeOK, RefsOK, Active
  <2>3. ASSUME NEW s \in Range(cobj), s # None PROVE s \in Active
    <3>1. \E c \in Clients : s = cobj[c]  BY <2>0, Zenon DEF TypeOK, Range
    <3> QED  BY <2>0, <2>3, <3>1, Zenon DEF TypeOK, RefsOK, Active
  <2>4. ASSUME NEW s \in Range(queue) PROVE s \in Active
    <3>1. s \in Objects  BY <2>0 DEF TypeOK, Range
    <3> QED  BY <2>0, <3>1, Zenon DEF RefsOK, Active
  <2> QED  BY <2>0, <2>1, <2>2, <2>3, <2>4, Zenon DEF ReferencesAreAlive
<1> QED  BY <1>1, ServiceInvariant, PTL

(* The raw pointer that the RPC layer passes for a client is the open      *)
(* session of the client's own process, and of no other client.            *)
THEOREM HandlesAlwaysOpen == Spec => []HandlesAreOpenSessions
<1>1. ServiceInv => HandlesAreOpenSessions
  <2> SUFFICES ASSUME ServiceInv, rpc_is_running_, NEW c \in Clients, handle[c] # None
               PROVE  /\ sessions_[PidOf[c]] = handle[c]
                      /\ \A d \in Clients \ {c} : handle[d] # handle[c]
    BY Zenon DEF HandlesAreOpenSessions
  <2>0. TypeOK /\ CallsOK /\ OwnerOK /\ ClaimsOK  BY Parts, Zenon
  <2>1. Open  BY <2>0, CallsKeepOpen, Zenon
  <2>2. \A d \in Clients : handle[d] # None => Claimed(d) = handle[d]
    BY <2>0, Zenon DEF CallsOK, Claimed, Holding, Entering
  <2> QED  BY <2>0, <2>1, <2>2, Zenon DEF ClaimsOK
<1> QED  BY <1>1, ServiceInvariant, PTL

(* When Stop has returned no session and no task is left, and no call is   *)
(* in progress.                                                            *)
THEOREM StoppedAlwaysDrained == Spec => []StoppedIsDrained
<1>1. ServiceInv => StoppedIsDrained
  <2> SUFFICES ASSUME ServiceInv
               PROVE  /\ owner = "stopped" => ~mutex
                      /\ ~mutex => Active = {} /\ queue = <<>> /\ ~InFlight
    BY Zenon DEF StoppedIsDrained
  <2>0. TypeOK /\ RefsOK /\ OwnerOK /\ ActiveSessionsAreCounted  BY Parts, Zenon
  <2>A. owner = "stopped" => ~mutex  BY <2>0, Zenon DEF OwnerOK
  <2>B. SUFFICES ASSUME ~mutex PROVE Active = {} /\ queue = <<>> /\ ~InFlight
    BY <2>A, Zenon
  <2>1. num_active_sessions_ = 0 /\ ~InFlight  BY <2>0, <2>B, Zenon DEF OwnerOK, Open
  <2>2. Active = {}
    <3>1. CASE \E s \in Objects : life[s] = "alive"
      <4>1. num_active_sessions_ \in Nat \ {0}  BY <2>0, <3>1, CountPositive, Zenon
      <4> QED  BY <2>1, <4>1, Zenon
    <3> QED  BY <3>1, Zenon DEF Active
  <2>3. queue = <<>>
    <3>1. SUFFICES ASSUME queue # <<>> PROVE FALSE  BY Zenon
    <3>2. Head(queue) \in Objects /\ Head(queue) \in Range(queue)
      BY <2>0, <3>1, RangeTail, Zenon DEF TypeOK
    <3> QED  BY <2>0, <2>2, <3>2, Zenon DEF RefsOK, Active
  <2> QED  BY <2>1, <2>2, <2>3, Zenon
<1> QED  BY <1>1, ServiceInvariant, PTL

(* A session in the map, or about to be closed by Stop, has an open        *)
(* consumer: closing the consumer of a duplicate touches no other session. *)
THEOREM OpenSessionsAlwaysHaveConsumers == Spec => []OpenSessionsHaveConsumers
<1>1. ServiceInv => OpenSessionsHaveConsumers
  <2> SUFFICES ASSUME ServiceInv, NEW s \in Range(sessions_) \union to_close, s # None
               PROVE  consumer[s] = "open"
    BY Zenon DEF OpenSessionsHaveConsumers
  <2>0. TypeOK /\ ConsumersOK  BY Parts, Zenon
  <2>1. CASE s \in to_close  BY <2>0, <2>1, Zenon DEF ConsumersOK
  <2>2. CASE s \in Range(sessions_)
    <3>1. \E p \in Pids : s = sessions_[p]  BY <2>0, <2>2, Zenon DEF TypeOK, Range
    <3> QED  BY <2>0, <3>1, Zenon DEF ConsumersOK
  <2> QED  BY <2>1, <2>2, Zenon
<1> QED  BY <1>1, ServiceInvariant, PTL

=============================================================================
