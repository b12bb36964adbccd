------------------------- MODULE StackCaptureProofs -------------------------
(***************************************************************************)
(* The cache of stack traces, for any number of threads, stack traces and  *)
(* shards: no capture is lost or handed out twice, reference counts count, *)
(* and a trace that a block refers to stays what it was.                   *)
(***************************************************************************)
EXTENDS StackCaptureCache, TLAPS

-----------------------------------------------------------------------------
(* The inductive invariant, in parts.                                      *)

CaptureSet == [max : 1..kMaxNumFrames, num : 0..kMaxNumFrames \union {kInvalid},
               id : Ids \union {None}, refs : 0..MaxRefCount]
CallSet == [pc : {"idle", "scan", "taken", "rest", "count_rest", "insert", "inserted",
                  "saved", "released", "reclaim", "count"},
            id : Ids \union {None}, n : Nat, capture : Nat, unused : Nat,
            last : BOOLEAN]

Types ==
  /\ captures \in Seq(CaptureSet) /\ pages \in Nat /\ used \in 0..DataSize
  /\ known \in [Ids -> Nat] /\ locks \in [Shards -> Threads \union {None}]
  /\ reclaimed \in [1..kMaxNumFrames -> Seq(Nat)]
  /\ held \in [Ids -> Seq(Nat)]
  /\ thread \in [Threads -> CallSet]

(* A call that looks for a capture, and one that has found it.             *)
Having == {"taken", "rest", "count_rest", "insert"}
Searching == Having \union {"scan"}

(* A call that adds a stack holds the lock of its shard, and the stack is  *)
(* not known; the capture it has found is large enough.                    *)
SearchAt(t) ==
  thread[t].pc \in Searching =>
    /\ thread[t].id \in Ids /\ known[thread[t].id] = 0
    /\ locks[ShardOf[thread[t].id]] = t
    /\ thread[t].pc = "scan" => thread[t].n >= Frames[thread[t].id]
    /\ thread[t].pc \in Having => /\ thread[t].capture \in Captures
                                  /\ captures[thread[t].capture].max >= Frames[thread[t].id]
    /\ thread[t].pc = "rest" => thread[t].unused # thread[t].capture

SearchOK == \A t \in Threads : SearchAt(t)

(* A call that returns a capture has it from the known stacks, and one     *)
(* that reclaims a capture has dropped the last reference to it.           *)
ReturnAt(t) ==
  /\ thread[t].pc \in {"saved", "inserted"} =>
       thread[t].id \in Ids /\ thread[t].capture # 0 /\ known[thread[t].id] = thread[t].capture
  /\ thread[t].pc = "reclaim" => thread[t].last

ReturnOK == \A t \in Threads : ReturnAt(t)

(* What is known under an identifier.                                      *)
KnownOK ==
  \A i \in Ids : known[i] # 0 =>
    /\ known[i] \in Captures
    /\ captures[known[i]].id = i /\ captures[known[i]].num = Frames[i]
    /\ captures[known[i]].refs > 0

(* A block refers to the capture that is known under its identifier.       *)
HeldOK ==
  \A i \in Ids : \A k \in 1..Len(held[i]) : known[i] # 0 /\ held[i][k] = known[i]

(* A list that has c, and one that has nothing twice.                      *)
Has(s, c) == \E k \in 1..Len(s) : s[k] = c
Distinct(s) == \A k, l \in 1..Len(s) : s[k] = s[l] => k = l

(* The lists of reclaimed captures.                                        *)
ReclaimedOK ==
  \A n \in 1..kMaxNumFrames :
    /\ Distinct(reclaimed[n])
    /\ \A c : Has(reclaimed[n], c) =>
         c \in Captures /\ captures[c].max = n /\ captures[c].refs = 0

(* Thread t works on capture c.                                            *)
Limbo(t, c) ==
  \/ thread[t].pc \in Having /\ c = thread[t].capture
  \/ thread[t].pc = "rest" /\ c = thread[t].unused
  \/ thread[t].pc \in {"released", "reclaim"} /\ thread[t].last /\ thread[t].capture = c

Listed(c) == \E n \in 1..kMaxNumFrames : Has(reclaimed[n], c)

(* A capture that a thread works on is nowhere else.                       *)
LimboOK ==
  \A t \in Threads : \A c \in Nat : Limbo(t, c) =>
    /\ c \in Captures /\ captures[c].refs = 0 /\ ~Listed(c)
    /\ \A u \in Threads : Limbo(u, c) => u = t

(* No capture is lost.                                                     *)
PlacesOK ==
  \A c \in Captures :
    IF captures[c].refs > 0
    THEN captures[c].id \in Ids /\ known[captures[c].id] = c
    ELSE Listed(c) \/ \E t \in Threads : Limbo(t, c)

(* A reference count is the number of references, unless it is saturated.  *)
CountsOK ==
  \A i \in Ids : known[i] # 0 =>
    captures[known[i]].refs = References(i) \/ RefCountIsSaturated(known[i])

(* The inductive invariant.                                                *)
CacheInv ==
  /\ Types /\ SearchOK /\ ReturnOK /\ KnownOK /\ HeldOK /\ ReclaimedOK /\ LimboOK
  /\ PlacesOK /\ CountsOK

-----------------------------------------------------------------------------
(* Sequences, calls and captures.                                          *)

(* Unfolds the invariant.                                                  *)
LEMMA Parts ==
  ASSUME CacheInv
  PROVE  /\ Types /\ SearchOK /\ ReturnOK /\ KnownOK /\ HeldOK /\ ReclaimedOK
         /\ LimboOK /\ PlacesOK /\ CountsOK
BY Zenon DEF CacheInv

(* Rewriting one element of a sequence.                                    *)
LEMMA SeqUpdate ==
  ASSUME NEW S, NEW s \in Seq(S), NEW c \in 1..Len(s), NEW x \in S
  PROVE  /\ [s EXCEPT ![c] = x] \in Seq(S)
         /\ Len([s EXCEPT ![c] = x]) = Len(s)
         /\ [s EXCEPT ![c] = x][c] = x
         /\ \A d \in 1..Len(s) : d # c => [s EXCEPT ![c] = x][d] = s[d]
<1> DEFINE r == [s EXCEPT ![c] = x]
<1>1. r \in [1..Len(s) -> S]  OBVIOUS
<1>2. Len(s) \in Nat  OBVIOUS
<1>3. r \in Seq(S) /\ Len(r) = Len(s)  BY <1>1, <1>2
<1> QED  BY <1>3

(* Joining two sequences.                                                  *)
LEMMA SeqJoin ==
  ASSUME NEW S, NEW s \in Seq(S), NEW m \in Seq(S)
  PROVE  /\ s \o m \in Seq(S) /\ Len(s \o m) = Len(s) + Len(m)
         /\ \A j \in 1..Len(s) : (s \o m)[j] = s[j]
         /\ \A j \in 1..Len(m) : (s \o m)[Len(s) + j] = m[j]
<1>1. s \o m \in Seq(S) /\ Len(s \o m) = Len(s) + Len(m)  OBVIOUS
<1>2. ASSUME NEW j \in 1..Len(s) PROVE (s \o m)[j] = s[j]
  BY <1>1
<1>3. ASSUME NEW j \in 1..Len(m) PROVE (s \o m)[Len(s) + j] = m[j]
  <2>1. Len(s) \in Nat /\ Len(m) \in Nat  OBVIOUS
  <2>2. Len(s) + j \in 1..(Len(s) + Len(m)) /\ Len(s) + j > Len(s) /\ (Len(s) + j) - Len(s) = j
    BY <2>1
  <2> QED  BY <2>1, <2>2
<1> QED  BY <1>1, <1>2, <1>3, Zenon

(* A sequence without its k-th element.                                    *)
Without(s, k) == SubSeq(s, 1, k - 1) \o SubSeq(s, k + 1, Len(s))

(* Taking one element out of a sequence.                                   *)
LEMMA SeqRemove ==
  ASSUME NEW S, NEW s \in Seq(S), NEW k \in 1..Len(s)
  PROVE  /\ Without(s, k) \in Seq(S) /\ Len(Without(s, k)) = Len(s) - 1
         /\ \A j \in 1..Len(Without(s, k)) : \E l \in 1..Len(s) : Without(s, k)[j] = s[l]
<1> DEFINE a == SubSeq(s, 1, k - 1)
           b == SubSeq(s, k + 1, Len(s))
<1>1. a \in Seq(S) /\ Len(a) = k - 1 /\ \A j \in 1..Len(a) : a[j] = s[j]
  OBVIOUS
<1>2. b \in Seq(S) /\ Len(b) = Len(s) - k /\ \A j \in 1..Len(b) : b[j] = s[j + k]
  <2>1. b \in Seq(S) /\ Len(b) = Len(s) - k
    OBVIOUS
  <2>2. ASSUME NEW j \in 1..Len(b) PROVE b[j] = s[j + k]
    <3>1. b[j] = s[(k + 1) + j - 1]  BY <2>1
    <3>2. (k + 1) + j - 1 = j + k  BY <2>1
    <3> QED  BY <3>1, <3>2, Zenon
  <2> QED  BY <2>1, <2>2, Zenon
<1> HIDE DEF a, b
<1>3. Without(s, k) = a \o b  BY Zenon DEF a, b, Without
<1>4. a \o b \in Seq(S) /\ Len(a \o b) = Len(s) - 1
  <2>1. a \in Seq(S) /\ b \in Seq(S)  BY <1>1, <1>2, Zenon
  <2>2. a \o b \in Seq(S) /\ Len(a \o b) = Len(a) + Len(b)  BY <2>1
  <2> QED  BY <1>1, <1>2, <2>2
<1>5. ASSUME NEW j \in 1..Len(a \o b)
      PROVE  \E l \in 1..Len(s) : (a \o b)[j] = s[l]
  <2>1. CASE j <= Len(a)
    <3>1. (a \o b)[j] = s[j] /\ j \in 1..Len(s)  BY <1>1, <1>2, <2>1
    <3> QED  BY <3>1, Zenon
  <2>2. CASE j > Len(a)
    <3>1. j - Len(a) \in 1..Len(b)  BY <1>1, <1>2, <1>4, <2>2
    <3>2. (a \o b)[j] = b[j - Len(a)]  BY <1>1, <1>2, <1>4, <2>2, SMTT(30)
    <3>3. (a \o b)[j] = s[j + 1] /\ j + 1 \in 1..Len(s)
      BY <1>1, <1>2, <1>4, <3>1, <3>2
    <3> QED  BY <3>3, Zenon
  <2> QED  BY <1>1, <2>1, <2>2
<1> QED  BY <1>3, <1>4, <1>5, Zenon

(* The same for a sequence of captures.                                    *)
LEMMA ListRemove ==
  ASSUME NEW s \in Seq(Nat), NEW k \in 1..Len(s)
  PROVE  /\ Without(s, k) \in Seq(Nat) /\ Len(Without(s, k)) = Len(s) - 1
         /\ \A j \in 1..Len(Without(s, k)) : \E l \in 1..Len(s) : Without(s, k)[j] = s[l]
BY SeqRemove

(* A capture keeps its size, and so do the others all they hold, when one  *)
(* is given a new reference count, identifier or number of frames.         *)
LEMMA CaptureUpdate ==
  ASSUME Types, NEW c \in Captures, NEW r \in CaptureSet,
         captures' = [captures EXCEPT ![c] = r]
  PROVE  /\ captures' \in Seq(CaptureSet) /\ Captures' = Captures
         /\ captures'[c] = r /\ \A d \in Captures : d # c => captures'[d] = captures[d]
<1>1. captures \in Seq(CaptureSet) /\ Captures = 1..Len(captures)
  BY DEF Types, Captures
<1>2. /\ captures' \in Seq(CaptureSet) /\ Len(captures') = Len(captures)
      /\ captures'[c] = r /\ \A d \in 1..Len(captures) : d # c => captures'[d] = captures[d]
  BY <1>1, SeqUpdate
<1>3. Captures' = 1..Len(captures')  BY <1>2 DEF Captures
<1> QED  BY <1>1, <1>2, <1>3, Zenon

(* What is a capture.                                                      *)
LEMMA CaptureFields ==
  ASSUME Types, NEW c \in Captures
  PROVE  /\ c \in Nat \ {0} /\ captures[c] \in CaptureSet
         /\ captures[c].max \in 1..kMaxNumFrames /\ captures[c].refs \in 0..MaxRefCount
         /\ captures[c].id \in Ids \union {None}
<1>1. captures[c] \in CaptureSet /\ c \in Nat \ {0}
  BY DEF Types, Captures
<1> QED  BY <1>1, Zenon DEF CaptureSet

(* What the proofs use of cardinalities.  It is shown from the theorems on *)
(* finite sets at the end of this module.                                  *)
ThreadsAreCounted ==
  /\ \A S \in SUBSET Threads : Cardinality(S) \in Nat
  /\ \A S \in SUBSET Threads : Cardinality(S) = 0 => S = {}
  /\ \A S \in SUBSET Threads : \A t \in Threads \ S :
       Cardinality(S \union {t}) = Cardinality(S) + 1
  /\ \A S \in SUBSET Threads : \A t \in S :
       Cardinality(S \ {t}) = Cardinality(S) - 1
  /\ \A t \in Threads : Cardinality({t}) = 1

(* The calls on their way to return a capture are finitely many.           *)
LEMMA ReturningFinite ==
  ASSUME ThreadsAreCounted, NEW c
  PROVE  /\ Cardinality(Returning(c)) \in Nat /\ Cardinality(Returning(c)') \in Nat
         /\ Cardinality(Returning(c)) = 0 => Returning(c) = {}
<1>1. Returning(c) \in SUBSET Threads /\ Returning(c)' \in SUBSET Threads
  BY Zenon DEF Returning
<1> QED  BY <1>1, Zenon DEF ThreadsAreCounted

(* One call more, or less.                                                 *)
LEMMA ReturningMore ==
  ASSUME ThreadsAreCounted, NEW c, NEW t \in Threads
  PROVE  /\ t \notin Returning(c) /\ Returning(c)' = Returning(c) \union {t}
              => Cardinality(Returning(c)') = Cardinality(Returning(c)) + 1
         /\ t \in Returning(c) /\ Returning(c)' = Returning(c) \ {t}
              => Cardinality(Returning(c)') = Cardinality(Returning(c)) - 1
<1>1. Returning(c) \in SUBSET Threads  BY Zenon DEF Returning
<1> QED  BY <1>1, Zenon DEF ThreadsAreCounted

(* The reference count of a capture is exact until it is saturated.        *)
Exact(i, c) ==
  \/ captures[c].refs = Len(held[i]) + Cardinality(Returning(c))
  \/ captures[c].refs = MaxRefCount

(* What a step makes of it.                                                *)
Follows(i, c) ==
  captures'[c].refs = IF c = known[i] /\ captures[c].refs = MaxRefCount
                      THEN MaxRefCount ELSE Len(held'[i]) + Cardinality(Returning(c)')

(* CountsOK, for a capture at a time.                                      *)
LEMMA MatchIs ==
  CountsOK <=> \A i \in Ids : \A c : known[i] = c /\ c # 0 => Exact(i, c)
BY Zenon DEF CountsOK, Exact, References, RefCountIsSaturated

(* CountsFollow, for a capture at a time.                                  *)
LEMMA MatchIsNext ==
  ASSUME \A i \in Ids : \A c : known'[i] = c /\ c # 0 => Follows(i, c)
  PROVE  CountsOK' /\ CountsFollow
<1>1. ASSUME NEW i \in Ids, known'[i] # 0
      PROVE  captures'[known'[i]].refs =
               IF known'[i] = known[i] /\ RefCountIsSaturated(known[i])
               THEN MaxRefCount ELSE References(i)'
  <2>1. PICK c : c = known'[i]  BY Zenon
  <2>2. Follows(i, c)  BY <1>1, <2>1, Zenon
  <2>3. References(i)' = Len(held'[i]) + Cardinality(Returning(c)')
    BY <2>1, Zenon DEF References, Returning, At
  <2>4. c = known[i] /\ captures[c].refs = MaxRefCount
          <=> known'[i] = known[i] /\ RefCountIsSaturated(known[i])
    BY <2>1, Zenon DEF RefCountIsSaturated
  <2> QED  BY <2>1, <2>2, <2>3, <2>4, Zenon DEF Follows
<1>2. CountsFollow  BY <1>1, Zenon DEF CountsFollow
<1>3. CountsOK'  BY <1>1, Zenon DEF CountsOK, RefCountIsSaturated
<1> QED  BY <1>2, <1>3, Zenon

(* A step that changes no reference and no count.                          *)
LEMMA ExactKept ==
  ASSUME NEW i \in Ids, NEW c, known[i] = c, Exact(i, c),
         captures'[c].refs = captures[c].refs,
         Len(held'[i]) = Len(held[i]), Returning(c)' = Returning(c)
  PROVE  Follows(i, c)
<1>1. Cardinality(Returning(c)') = Cardinality(Returning(c))  BY Zenon
<1> QED  BY <1>1, Zenon DEF Exact, Follows


(* A thread outside the cache.                                             *)
LEMMA Idle ==
  NoCall \in CallSet /\ NoCall.pc = "idle" /\ NoCall.last = FALSE
<1>1. NoCall \in CallSet  BY Zenon DEF NoCall, CallSet
<1> QED  BY <1>1, Zenon DEF NoCall

(* A thread makes a step of its call.                                      *)
LEMMA CallUpdate ==
  ASSUME Types, NEW t \in Threads, NEW h \in CallSet, Set(t, h)
  PROVE  /\ thread' \in [Threads -> CallSet] /\ thread'[t] = h
         /\ \A u \in Threads \ {t} : thread'[u] = thread[u]
BY Zenon DEF Types, Set

(* The other threads go on working on the captures they worked on.         *)
LEMMA OthersLimbo ==
  ASSUME NEW t \in Threads, \A u \in Threads \ {t} : thread'[u] = thread[u]
  PROVE  \A u \in Threads \ {t} : \A c : Limbo(u, c)' <=> Limbo(u, c)
BY Zenon DEF Limbo

(* A step of t that takes no lock and makes nothing known.                 *)
LEMMA OthersSearch ==
  ASSUME SearchOK, NEW t \in Threads, \A u \in Threads \ {t} : thread'[u] = thread[u],
         Captures \subseteq Captures',
         \A d \in Captures : captures'[d].max = captures[d].max,
         \A i \in Ids : known[i] = 0 => known'[i] = 0, UNCHANGED locks,
         SearchAt(t)'
  PROVE  SearchOK'
<1>1. ASSUME NEW u \in Threads \ {t} PROVE SearchAt(u)'
  <2>1. SearchAt(u) /\ thread'[u] = thread[u]  BY <1>1, Zenon DEF SearchOK
  <2> QED  BY <2>1, Zenon DEF SearchAt
<1> QED  BY <1>1, Zenon DEF SearchOK

(* A step of t leaves what the others return.                              *)
LEMMA OthersReturn ==
  ASSUME ReturnOK, NEW t \in Threads, \A u \in Threads \ {t} : thread'[u] = thread[u],
         UNCHANGED known, ReturnAt(t)'
  PROVE  ReturnOK'
<1>1. ASSUME NEW u \in Threads \ {t} PROVE ReturnAt(u)'
  <2>1. ReturnAt(u) /\ thread'[u] = thread[u]  BY <1>1, Zenon DEF ReturnOK
  <2> QED  BY <2>1, Zenon DEF ReturnAt
<1> QED  BY <1>1, Zenon DEF ReturnOK

(* A step that neither counts nor returns a reference to c.                *)
LEMMA ReturningKept ==
  ASSUME NEW t \in Threads, \A u \in Threads \ {t} : thread'[u] = thread[u],
         NEW c, t \in Returning(c)' <=> t \in Returning(c)
  PROVE  Returning(c)' = Returning(c)
<1>1. \A u \in Threads \ {t} : u \in Returning(c)' <=> u \in Returning(c)
  BY Zenon DEF Returning, At
<1>2. Returning(c) \subseteq Threads /\ Returning(c)' \subseteq Threads
  BY Zenon DEF Returning
<1> QED  BY <1>1, <1>2

(* Which calls are returning a reference.                                  *)
LEMMA ReturningIs ==
  ASSUME NEW t \in Threads, NEW c
  PROVE  /\ t \in Returning(c) <=>
              thread[t].capture = c /\ thread[t].pc \in {"saved", "inserted"}
         /\ t \in Returning(c)' <=>
              thread'[t].capture = c /\ thread'[t].pc \in {"saved", "inserted"}
BY Zenon DEF Returning, At

(* A step of t outside SaveStackTrace's last part leaves references alone. *)
LEMMA QuietRefs ==
  ASSUME CacheInv, NEW t \in Threads, UNCHANGED <<captures, known, held>>,
         \A u \in Threads \ {t} : thread'[u] = thread[u],
         thread[t].pc \notin {"saved", "inserted"}, thread'[t].pc \notin {"saved", "inserted"}
  PROVE  HeldOK' /\ CountsOK' /\ CountsFollow
<1> HeldOK /\ CountsOK  BY Parts, Zenon
<1>1. HeldOK'  BY Zenon DEF HeldOK
<1>2. ASSUME NEW i \in Ids, NEW c, known[i] = c, c # 0
      PROVE  Follows(i, c)
  <2>1. Exact(i, c)  BY <1>2, MatchIs, Zenon
  <2>2. Returning(c)' = Returning(c)  BY ReturningKept, ReturningIs, Zenon
  <2> QED  BY <1>2, <2>1, <2>2, ExactKept, Zenon
<1>3. CountsOK' /\ CountsFollow  BY <1>2, MatchIsNext, Zenon
<1> QED  BY <1>1, <1>3, Zenon

(* A step of t that moves no capture.                                      *)
LEMMA QuietKeeps ==
  ASSUME CacheInv, NEW t \in Threads,
         UNCHANGED <<captures, pages, used, known, locks, reclaimed>>,
         thread' \in [Threads -> CallSet],
         \A u \in Threads \ {t} : thread'[u] = thread[u],
         \A c \in Nat : Limbo(t, c)' <=> Limbo(t, c),
         SearchAt(t)', ReturnAt(t)',
         held' \in [Ids -> Seq(Nat)], HeldOK', CountsOK' /\ CountsFollow
  PROVE  CacheInv' /\ CountsFollow
<1> /\ Types /\ SearchOK /\ ReturnOK /\ KnownOK /\ ReclaimedOK /\ LimboOK /\ PlacesOK
  BY Parts, Zenon
<1>1. Captures' = Captures /\ Captures \subseteq Nat
  BY DEF Captures, Types
<1>2. \A u \in Threads : \A c \in Nat : Limbo(u, c)' <=> Limbo(u, c)
  BY OthersLimbo, Zenon
<1>3. \A c : Listed(c)' <=> Listed(c)
  BY Zenon DEF Listed
<1>4. Types'  BY Zenon DEF Types
<1>5. SearchOK'
  <2>1. ASSUME NEW u \in Threads \ {t} PROVE SearchAt(u)'
    BY <1>1, <2>1 DEF SearchOK, SearchAt
  <2> QED  BY <2>1, Zenon DEF SearchOK
<1>6. ReturnOK'  BY OthersReturn, Zenon
<1>7. KnownOK'  BY <1>1, Zenon DEF KnownOK
<1>8. ReclaimedOK'  BY <1>1, Zenon DEF ReclaimedOK
<1>9. LimboOK'  BY <1>1, <1>2, <1>3, Zenon DEF LimboOK
<1>10. PlacesOK'  BY <1>1, <1>2, <1>3, Zenon DEF PlacesOK
<1> QED  BY <1>4, <1>5, <1>6, <1>7, <1>8, <1>9, <1>10, Zenon DEF CacheInv

-----------------------------------------------------------------------------
(* The steps that move no capture.                                         *)

(* SaveStackTrace of a stack that is not known takes the lock of its       *)
(* shard.                                                                  *)
LEMMA BeginSearchKeeps ==
  ASSUME CacheInv, NEW t \in Threads, NEW i \in Ids, SaveStackTrace(t, i), known[i] = 0
  PROVE  CacheInv' /\ CountsFollow
<1> /\ Types /\ SearchOK /\ ReturnOK /\ KnownOK /\ ReclaimedOK /\ LimboOK /\ PlacesOK
  BY Parts, Zenon
<1> DEFINE h == [NoCall EXCEPT !.pc = "scan", !.id = i, !.n = Frames[i]]
<1>1. /\ thread[t].pc = "idle" /\ locks[ShardOf[i]] = None
      /\ locks' = [locks EXCEPT ![ShardOf[i]] = t] /\ Set(t, h)
      /\ UNCHANGED <<captures, pages, used, known, reclaimed, held>>
  BY Zenon DEF SaveStackTrace, At
<1>2. /\ h \in CallSet /\ h.pc = "scan" /\ h.id = i /\ h.n = Frames[i]
  <2>1. NoCall \in CallSet /\ Frames[i] \in Nat  BY Idle, CacheAssumption
  <2> QED  BY <2>1, Zenon DEF CallSet
<1> HIDE DEF h
<1>3. /\ thread' \in [Threads -> CallSet] /\ thread'[t] = h
      /\ \A u \in Threads \ {t} : thread'[u] = thread[u]
  BY <1>1, <1>2, CallUpdate, Zenon
<1>4. /\ locks' \in [Shards -> Threads \union {None}] /\ locks'[ShardOf[i]] = t
      /\ \A s \in Shards : s # ShardOf[i] => locks'[s] = locks[s]
  BY <1>1, Zenon DEF Types, Shards
<1>5. Captures' = Captures /\ Captures \subseteq Nat
  BY <1>1 DEF Captures, Types
<1>6. \A u \in Threads : \A c : Limbo(u, c)' <=> Limbo(u, c)
  <2>1. \A c : ~Limbo(t, c) /\ ~Limbo(t, c)'
    BY <1>1, <1>2, <1>3, Zenon DEF Limbo, Having
  <2> QED  BY <1>3, <2>1, OthersLimbo, Zenon
<1>7. \A c : Listed(c)' <=> Listed(c)
  BY <1>1, Zenon DEF Listed
<1>8. Types'  BY <1>1, <1>3, <1>4, Zenon DEF Types
<1>9. SearchOK'
  <2>1. ASSUME NEW u \in Threads \ {t}, thread[u].pc \in Searching
        PROVE  locks'[ShardOf[thread[u].id]] = u
    <3>1. thread[u].id \in Ids /\ locks[ShardOf[thread[u].id]] = u
      BY <2>1, Zenon DEF SearchOK, SearchAt
    <3>2. ShardOf[thread[u].id] \in Shards  BY <3>1, Zenon DEF Shards
    <3> QED  BY <1>1, <1>4, <3>1, <3>2, CacheAssumption, Zenon
  <2>2. ASSUME NEW u \in Threads \ {t} PROVE SearchAt(u)'
    BY <1>1, <1>3, <1>5, <2>1, <2>2 DEF SearchOK, SearchAt
  <2>3. SearchAt(t)'
    BY <1>1, <1>2, <1>3, <1>4, CacheAssumption DEF SearchAt, Searching, Having
  <2> QED  BY <2>2, <2>3, Zenon DEF SearchOK
<1>10. ReturnOK'
  <2>1. ASSUME NEW u \in Threads PROVE ReturnAt(u)'
    BY <1>1, <1>2, <1>3, <2>1 DEF ReturnOK, ReturnAt
  <2> QED  BY <2>1, Zenon DEF ReturnOK
<1>11. KnownOK'  BY <1>1, <1>5, Zenon DEF KnownOK
<1>12. ReclaimedOK'  BY <1>1, <1>5, Zenon DEF ReclaimedOK
<1>13. LimboOK'  BY <1>1, <1>5, <1>6, <1>7, Zenon DEF LimboOK
<1>14. PlacesOK'  BY <1>1, <1>5, <1>6, <1>7, Zenon DEF PlacesOK
<1>15. HeldOK' /\ CountsOK' /\ CountsFollow
  BY <1>1, <1>2, <1>3, QuietRefs, Zenon
<1> QED
  BY <1>8, <1>9, <1>10, <1>11, <1>12, <1>13, <1>14, <1>15, Zenon DEF CacheInv


(* A list is empty and the next one is tried.                              *)
LEMMA TryNextKeeps ==
  ASSUME CacheInv, NEW t \in Threads, TakeReclaimed(t), reclaimed[thread[t].n] = << >>
  PROVE  CacheInv' /\ CountsFollow
<1> Types /\ SearchOK  BY Parts, Zenon
<1> DEFINE h == [thread[t] EXCEPT !.n = thread[t].n + 1]
<1>1. /\ thread[t].pc = "scan" /\ Set(t, h)
      /\ UNCHANGED <<captures, pages, used, known, locks, reclaimed, held>>
  BY Zenon DEF TakeReclaimed, At
<1>2. h \in CallSet /\ h.pc = "scan" /\ h.id = thread[t].id /\ h.n = thread[t].n + 1
  <2>1. thread[t] \in CallSet  BY Zenon DEF Types
  <2> QED  BY <1>1, <2>1 DEF CallSet
<1>3. thread[t].n \in Nat  BY Zenon DEF Types, CallSet
<1> HIDE DEF h
<1>4. /\ thread' \in [Threads -> CallSet] /\ thread'[t] = h
      /\ \A u \in Threads \ {t} : thread'[u] = thread[u]
  BY <1>1, <1>2, CallUpdate, Zenon
<1>5. \A c \in Nat : Limbo(t, c)' <=> Limbo(t, c)
  BY <1>1, <1>2, <1>4, Zenon DEF Limbo, Having
<1>6. SearchAt(t)'
  <2>1. SearchAt(t)  BY Zenon DEF SearchOK
  <2>2. Frames[thread[t].id] \in Nat  BY <1>1, <2>1, CacheAssumption DEF SearchAt, Searching
  <2> QED  BY <1>1, <1>2, <1>3, <1>4, <2>1, <2>2 DEF SearchAt, Searching, Having
<1>7. ReturnAt(t)'  BY <1>2, <1>4, Zenon DEF ReturnAt
<1>8. HeldOK' /\ CountsOK' /\ CountsFollow  BY <1>1, <1>2, <1>4, QuietRefs, Zenon
<1>9. held' \in [Ids -> Seq(Nat)]  BY <1>1, Zenon DEF Types
<1> QED  BY <1>1, <1>4, <1>5, <1>6, <1>7, <1>8, <1>9, QuietKeeps, Zenon

(* The statistics of a call that has found a capture.                      *)
LEMMA CountFoundKeeps ==
  ASSUME CacheInv, NEW t \in Threads, CountTaken(t) \/ CountRest(t)
  PROVE  CacheInv' /\ CountsFollow
<1> Types /\ SearchOK  BY Parts, Zenon
<1>1. PICK m \in Nat :
        /\ thread[t].pc \in {"taken", "count_rest"}
        /\ Set(t, [thread[t] EXCEPT !.pc = "insert", !.unused = m])
        /\ UNCHANGED <<captures, pages, used, known, locks, reclaimed, held>>
  <2>1. thread[t] \in CallSet  BY Zenon DEF Types
  <2>2. CASE CountTaken(t)
    <3>1. [thread[t] EXCEPT !.pc = "insert"]
            = [thread[t] EXCEPT !.pc = "insert", !.unused = thread[t].unused]
      BY <2>1, Zenon DEF CallSet
    <3>2. thread[t].unused \in Nat  BY <2>1, Zenon DEF CallSet
    <3> QED  BY <2>2, <3>1, <3>2, Zenon DEF CountTaken, At
  <2>3. CASE CountRest(t)
    BY <2>3, Zenon DEF CountRest, At
  <2> QED  BY <2>2, <2>3, Zenon
<1> DEFINE h == [thread[t] EXCEPT !.pc = "insert", !.unused = m]
<1>2. h \in CallSet /\ h.pc = "insert" /\ h.id = thread[t].id /\ h.capture = thread[t].capture
  <2>1. thread[t] \in CallSet  BY Zenon DEF Types
  <2> QED  BY <2>1, Zenon DEF CallSet
<1> HIDE DEF h
<1>3. /\ thread' \in [Threads -> CallSet] /\ thread'[t] = h
      /\ \A u \in Threads \ {t} : thread'[u] = thread[u]
  BY <1>1, <1>2, CallUpdate, Zenon DEF h
<1>4. \A c \in Nat : Limbo(t, c)' <=> Limbo(t, c)
  BY <1>1, <1>2, <1>3, Zenon DEF Limbo, Having
<1>5. SearchAt(t)'
  <2>1. SearchAt(t)  BY Zenon DEF SearchOK
  <2>2. Captures' = Captures  BY <1>1, Zenon DEF Captures
  <2> QED  BY <1>1, <1>2, <1>3, <2>1, <2>2, Zenon DEF SearchAt, Searching, Having
<1>6. ReturnAt(t)'  BY <1>2, <1>3, Zenon DEF ReturnAt
<1>7. HeldOK' /\ CountsOK' /\ CountsFollow  BY <1>1, <1>2, <1>3, QuietRefs, Zenon
<1>8. held' \in [Ids -> Seq(Nat)]  BY <1>1, Zenon DEF Types
<1> QED  BY <1>1, <1>3, <1>4, <1>5, <1>6, <1>7, <1>8, QuietKeeps, Zenon

(* The statistics of a release; the capture is reclaimed if that was the   *)
(* last reference.                                                         *)
LEMMA UpdateStatisticsOnReleaseKeeps ==
  ASSUME CacheInv, NEW t \in Threads, UpdateStatisticsOnRelease(t)
  PROVE  CacheInv' /\ CountsFollow
<1> Types  BY Parts, Zenon
<1> DEFINE h == IF thread[t].last THEN [thread[t] EXCEPT !.pc = "reclaim"] ELSE NoCall
<1>1. /\ thread[t].pc = "released" /\ Set(t, h)
      /\ UNCHANGED <<captures, pages, used, known, locks, reclaimed, held>>
  BY Zenon DEF UpdateStatisticsOnRelease, At
<1>2. /\ h \in CallSet
      /\ thread[t].last => h.pc = "reclaim" /\ h.last /\ h.capture = thread[t].capture
      /\ ~thread[t].last => h.pc = "idle"
  <2>1. thread[t] \in CallSet  BY Zenon DEF Types
  <2>2. CASE thread[t].last
    <3>1. h = [thread[t] EXCEPT !.pc = "reclaim"]  BY <2>2, Zenon
    <3>2. h \in CallSet  BY <2>1, <3>1, Zenon DEF CallSet
    <3>3. h.pc = "reclaim" /\ h.last = thread[t].last /\ h.capture = thread[t].capture
      BY <2>1, <3>1, Zenon DEF CallSet
    <3> QED  BY <2>2, <3>2, <3>3, Zenon
  <2>3. CASE ~thread[t].last
    <3>1. h = NoCall  BY <2>3, Zenon
    <3> QED  BY <2>3, <3>1, Idle, Zenon
  <2> QED  BY <2>2, <2>3, Zenon
<1> HIDE DEF h
<1>3. /\ thread' \in [Threads -> CallSet] /\ thread'[t] = h
      /\ \A u \in Threads \ {t} : thread'[u] = thread[u]
  BY <1>1, <1>2, CallUpdate, Zenon
<1>4. h.pc \in {"reclaim", "idle"}  BY <1>2, Zenon
<1>5. \A c \in Nat : Limbo(t, c)' <=> Limbo(t, c)
  BY <1>1, <1>2, <1>3, Zenon DEF Limbo, Having
<1>6. SearchAt(t)'  BY <1>3, <1>4, Zenon DEF SearchAt, Searching, Having
<1>7. ReturnAt(t)'  BY <1>2, <1>3, <1>4, Zenon DEF ReturnAt
<1>8. HeldOK' /\ CountsOK' /\ CountsFollow  BY <1>1, <1>3, <1>4, QuietRefs, Zenon
<1>9. held' \in [Ids -> Seq(Nat)]  BY <1>1, Zenon DEF Types
<1> QED  BY <1>1, <1>3, <1>5, <1>6, <1>7, <1>8, <1>9, QuietKeeps, Zenon

(* The statistics of a capture that has been reclaimed.                    *)
LEMMA CountReclaimedKeeps ==
  ASSUME CacheInv, NEW t \in Threads, CountReclaimed(t)
  PROVE  CacheInv' /\ CountsFollow
<1> Types  BY Parts, Zenon
<1>1. /\ thread[t].pc = "count" /\ Set(t, NoCall)
      /\ UNCHANGED <<captures, pages, used, known, locks, reclaimed, held>>
  BY Zenon DEF CountReclaimed, At
<1>2. /\ thread' \in [Threads -> CallSet] /\ thread'[t] = NoCall
      /\ \A u \in Threads \ {t} : thread'[u] = thread[u]
  BY <1>1, Idle, CallUpdate, Zenon
<1>3. thread'[t].pc = "idle"  BY <1>2, Idle, Zenon
<1>4. \A c \in Nat : Limbo(t, c)' <=> Limbo(t, c)
  BY <1>1, <1>3, Zenon DEF Limbo, Having
<1>5. SearchAt(t)'  BY <1>3, Zenon DEF SearchAt, Searching, Having
<1>6. ReturnAt(t)'  BY <1>3, Zenon DEF ReturnAt
<1>7. HeldOK' /\ CountsOK' /\ CountsFollow  BY <1>1, <1>2, <1>3, QuietRefs, Zenon
<1>8. held' \in [Ids -> Seq(Nat)]  BY <1>1, Zenon DEF Types
<1> QED  BY <1>1, <1>2, <1>4, <1>5, <1>6, <1>7, <1>8, QuietKeeps, Zenon

(* SaveStackTrace returns: the reference it has counted is the block's.    *)
LEMMA UpdateStatisticsKeeps ==
  ASSUME ThreadsAreCounted, CacheInv, NEW t \in Threads, UpdateStatistics(t)
  PROVE  CacheInv' /\ CountsFollow
<1> Types /\ ReturnOK /\ KnownOK /\ HeldOK /\ CountsOK  BY Parts, Zenon
<1>1A. thread[t].pc \in {"saved", "inserted"} /\ Set(t, NoCall)
  BY Zenon DEF UpdateStatistics, At
<1>1B. PICK i \in Ids, c \in Nat \ {0} :
        thread[t].id = i /\ thread[t].capture = c /\ known[i] = c
  BY <1>1A, Zenon DEF ReturnOK, ReturnAt, Types, CallSet
<1>1. /\ thread[t].pc \in {"saved", "inserted"} /\ Set(t, NoCall)
      /\ held' = [held EXCEPT ![i] = Append(held[i], c)]
      /\ UNCHANGED <<captures, pages, used, known, locks, reclaimed>>
  BY <1>1B, Zenon DEF UpdateStatistics, At
<1>2. i \in Ids /\ c \in Nat /\ c # 0 /\ known[i] = c
  BY <1>1B, Zenon
<1>3. /\ thread' \in [Threads -> CallSet] /\ thread'[t] = NoCall
      /\ \A u \in Threads \ {t} : thread'[u] = thread[u]
  BY <1>1, Idle, CallUpdate, Zenon
<1>4. thread'[t].pc = "idle"  BY <1>3, Idle, Zenon
<1>5. \A d \in Nat : Limbo(t, d)' <=> Limbo(t, d)
  BY <1>1, <1>4, Zenon DEF Limbo, Having
<1>6. SearchAt(t)'  BY <1>4, Zenon DEF SearchAt, Searching, Having
<1>7. ReturnAt(t)'  BY <1>4, Zenon DEF ReturnAt
<1>8. t \in Returning(c)  BY <1>1, <1>1B, ReturningIs, Zenon
<1>9. held[i] \in Seq(Nat)  BY <1>2, Zenon DEF Types
<1>10. /\ Append(held[i], c) \in Seq(Nat) /\ Len(Append(held[i], c)) = Len(held[i]) + 1
       /\ \A k \in 1..Len(held[i]) : Append(held[i], c)[k] = held[i][k]
       /\ Append(held[i], c)[Len(held[i]) + 1] = c
  BY <1>2, <1>9
<1>11. /\ held' \in [Ids -> Seq(Nat)] /\ held'[i] = Append(held[i], c)
       /\ \A j \in Ids : j # i => held'[j] = held[j]
  BY <1>1, <1>2, <1>10, Zenon DEF Types
<1>12. HeldOK'
  <2> SUFFICES ASSUME NEW j \in Ids, NEW k \in 1..Len(held'[j])
               PROVE  known[j] # 0 /\ held'[j][k] = known[j]
    BY <1>1, Zenon DEF HeldOK
  <2>1. CASE j # i  BY <1>11, <2>1, Zenon DEF HeldOK
  <2>2. CASE j = i
    <3>1. CASE k = Len(held[i]) + 1  BY <1>2, <1>10, <1>11, <2>2, <3>1, Zenon
    <3>2. CASE k # Len(held[i]) + 1
      <4>1. k \in 1..Len(held[i])  BY <1>9, <1>10, <1>11, <2>2, <3>2
      <4> QED  BY <1>2, <1>10, <1>11, <2>2, <4>1, Zenon DEF HeldOK
    <3> QED  BY <3>1, <3>2, Zenon
  <2> QED  BY <2>1, <2>2, Zenon
<1>13. ASSUME NEW j \in Ids, NEW d, known[j] = d, d # 0
       PROVE  Follows(j, d)
  <2>1. Exact(j, d)  BY <1>13, MatchIs, Zenon
  <2>2. CASE j # i
    <3>1. d # c  BY <1>2, <1>13, <2>2, Zenon DEF KnownOK
    <3>2. t \notin Returning(d) /\ t \notin Returning(d)'
      <4>1. thread[t].capture # d  BY <1>1B, <3>1, Zenon
      <4> QED  BY <1>4, <4>1, ReturningIs, Zenon
    <3>3. Returning(d)' = Returning(d)  BY <1>3, <3>2, ReturningKept, Zenon
    <3> QED  BY <1>1, <1>11, <1>13, <2>1, <2>2, <3>3, ExactKept, Zenon
  <2>3. CASE j = i
    <3>1. d = c  BY <1>2, <1>13, <2>3, Zenon
    <3>2. t \notin Returning(c)'  BY <1>4, ReturningIs, Zenon
    <3>3. \A u \in Threads \ {t} : u \in Returning(c)' <=> u \in Returning(c)
      BY <1>3, Zenon DEF Returning, At
    <3>4. Returning(c) \subseteq Threads /\ Returning(c)' \subseteq Threads
      BY Zenon DEF Returning
    <3>5. Returning(c)' = Returning(c) \ {t}
      BY <1>8, <3>2, <3>3, <3>4, Zenon
    <3>6. Cardinality(Returning(c)') = Cardinality(Returning(c)) - 1
      BY <1>8, <3>5, ReturningMore, Zenon
    <3>7. Cardinality(Returning(c)) \in Nat /\ Len(held[i]) \in Nat
      BY <1>9, ReturningFinite
    <3>8. Len(held'[i]) = Len(held[i]) + 1  BY <1>10, <1>11, Zenon
    <3>9. \/ captures[c].refs = Len(held[i]) + Cardinality(Returning(c))
          \/ captures[c].refs = MaxRefCount
      BY <2>1, <2>3, <3>1, Zenon DEF Exact
    <3>10. CASE captures[c].refs = MaxRefCount
      BY <1>1, <1>2, <2>3, <3>1, <3>10, Zenon DEF Follows
    <3>11. CASE captures[c].refs # MaxRefCount
      <4>1. captures'[c].refs = Len(held'[i]) + Cardinality(Returning(c)')
        BY <1>1, <3>6, <3>7, <3>8, <3>9, <3>11
      <4> QED  BY <2>3, <3>1, <3>11, <4>1, Zenon DEF Follows
    <3> QED  BY <3>10, <3>11, Zenon
  <2> QED  BY <2>2, <2>3, Zenon
<1>14. CountsOK' /\ CountsFollow  BY <1>1, <1>13, MatchIsNext, Zenon
<1> QED
  BY <1>1, <1>3, <1>5, <1>6, <1>7, <1>11, <1>12, <1>14, QuietKeeps, Zenon


-----------------------------------------------------------------------------
(* The steps that count a reference.                                       *)

(* A step that changes the reference count of a known capture, and leaves  *)
(* it above 0.                                                             *)
LEMMA RecountKeeps ==
  ASSUME CacheInv, NEW t \in Threads, NEW c \in Captures, NEW r \in CaptureSet,
         captures' = [captures EXCEPT ![c] = r], r.max = captures[c].max,
         r.id = captures[c].id, r.num = captures[c].num,
         captures[c].refs > 0, r.refs > 0,
         UNCHANGED <<pages, used, known, locks, reclaimed>>,
         thread' \in [Threads -> CallSet],
         \A u \in Threads \ {t} : thread'[u] = thread[u],
         \A d : ~Limbo(t, d) /\ ~Limbo(t, d)',
         thread'[t].pc \notin Searching, ReturnAt(t)',
         held' \in [Ids -> Seq(Nat)], HeldOK', CountsOK' /\ CountsFollow
  PROVE  CacheInv' /\ CountsFollow
<1> /\ Types /\ SearchOK /\ ReturnOK /\ KnownOK /\ ReclaimedOK /\ LimboOK /\ PlacesOK
  BY Parts, Zenon
<1>1. /\ captures' \in Seq(CaptureSet) /\ Captures' = Captures
      /\ captures'[c] = r /\ \A d \in Captures : d # c => captures'[d] = captures[d]
  BY CaptureUpdate, Zenon
<1>2. /\ \A d \in Captures : /\ captures'[d].max = captures[d].max
                             /\ captures'[d].id = captures[d].id
                             /\ captures'[d].num = captures[d].num
                             /\ captures'[d].refs > 0 <=> captures[d].refs > 0
                             /\ captures[d].refs = 0 => captures'[d].refs = 0
  BY <1>1
<1>3. \A u \in Threads : \A d : Limbo(u, d)' <=> Limbo(u, d)
  BY OthersLimbo, Zenon
<1>4. \A d : Listed(d)' <=> Listed(d)
  BY Zenon DEF Listed
<1>5. Captures \subseteq Nat  BY DEF Captures, Types
<1>6. Types'  BY <1>1, Zenon DEF Types
<1>7. SearchOK'
  <2>1. SearchAt(t)'  BY Zenon DEF SearchAt
  <2> QED  BY <1>1, <1>2, <2>1, OthersSearch, Zenon
<1>8. ReturnOK'  BY OthersReturn, Zenon
<1>9. KnownOK'  BY <1>1, <1>2 DEF KnownOK
<1>10. ReclaimedOK'  BY <1>1, <1>2 DEF ReclaimedOK
<1>11. LimboOK'  BY <1>1, <1>2, <1>3, <1>4, Zenon DEF LimboOK
<1>12. PlacesOK'  BY <1>1, <1>2, <1>3, <1>4 DEF PlacesOK
<1> QED  BY <1>6, <1>7, <1>8, <1>9, <1>10, <1>11, <1>12, Zenon DEF CacheInv

(* SaveStackTrace of a known stack adds a reference.                       *)
LEMMA SaveKnownKeeps ==
  ASSUME ThreadsAreCounted, CacheInv, NEW t \in Threads, NEW i \in Ids, SaveStackTrace(t, i), known[i] # 0
  PROVE  CacheInv' /\ CountsFollow
<1> Types /\ KnownOK /\ HeldOK /\ CountsOK  BY Parts, Zenon
<1>1. PICK c \in Captures :
        /\ c = known[i] /\ captures[c].id = i /\ captures[c].refs > 0
  BY Zenon DEF KnownOK
<1> DEFINE r == [captures[c] EXCEPT !.refs = AddRef(captures[c].refs)]
           h == [NoCall EXCEPT !.pc = "saved", !.id = i, !.capture = c,
                               !.last = RefCountIsSaturated(c)]
<1>2. /\ thread[t].pc = "idle" /\ captures' = [captures EXCEPT ![c] = r] /\ Set(t, h)
      /\ UNCHANGED <<pages, used, known, locks, reclaimed, held>>
  BY <1>1, Zenon DEF SaveStackTrace, At
<1>3. c \in Nat \ {0} /\ captures[c] \in CaptureSet /\ captures[c].refs \in 0..MaxRefCount
  BY CaptureFields, Zenon
<1>4. /\ r \in CaptureSet /\ r.max = captures[c].max /\ r.id = captures[c].id
      /\ r.num = captures[c].num /\ r.refs = AddRef(captures[c].refs)
  BY <1>3, CacheAssumption DEF CaptureSet, AddRef
<1>5. h \in CallSet /\ h.pc = "saved" /\ h.id = i /\ h.capture = c
  <2>1. NoCall \in CallSet /\ RefCountIsSaturated(c) \in BOOLEAN
    BY Idle, Zenon DEF RefCountIsSaturated
  <2> QED  BY <1>3, <2>1, Zenon DEF CallSet
<1> HIDE DEF r, h
<1>6. /\ thread' \in [Threads -> CallSet] /\ thread'[t] = h
      /\ \A u \in Threads \ {t} : thread'[u] = thread[u]
  BY <1>2, <1>5, CallUpdate, Zenon
<1>7. /\ Captures' = Captures /\ captures'[c] = r
      /\ \A d \in Captures : d # c => captures'[d] = captures[d]
  BY <1>2, <1>4, CaptureUpdate, Zenon
<1>8. r.refs > 0  BY <1>1, <1>3, <1>4, CacheAssumption DEF AddRef
<1>9. \A d : ~Limbo(t, d) /\ ~Limbo(t, d)'
  BY <1>2, <1>5, <1>6, Zenon DEF Limbo, Having
<1>10. thread'[t].pc \notin Searching /\ ReturnAt(t)'
  BY <1>1, <1>2, <1>3, <1>5, <1>6, Zenon DEF Searching, Having, ReturnAt
<1>11. held' \in [Ids -> Seq(Nat)] /\ HeldOK'
  BY <1>2, Zenon DEF Types, HeldOK
<1>12. ASSUME NEW j \in Ids, NEW d, known[j] = d, d # 0
       PROVE  Follows(j, d)
  <2>1. Exact(j, d)  BY <1>12, MatchIs, Zenon
  <2>2. d \in Captures /\ captures[d].id = j  BY <1>12, Zenon DEF KnownOK
  <2>3. CASE j # i
    <3>1. d # c  BY <1>1, <2>2, <2>3, Zenon
    <3>2. t \notin Returning(d) /\ t \notin Returning(d)'
      BY <1>2, <1>5, <1>6, <3>1, ReturningIs, Zenon
    <3>3. Returning(d)' = Returning(d)  BY <1>6, <3>2, ReturningKept, Zenon
    <3> QED  BY <1>2, <1>7, <1>12, <2>1, <2>2, <3>1, <3>3, ExactKept, Zenon
  <2>4. CASE j = i
    <3>1. d = c  BY <1>1, <1>12, <2>4, Zenon
    <3>2. t \notin Returning(c) /\ t \in Returning(c)'
      BY <1>2, <1>5, <1>6, ReturningIs, Zenon
    <3>3. \A u \in Threads \ {t} : u \in Returning(c)' <=> u \in Returning(c)
      BY <1>6, Zenon DEF Returning, At
    <3>4. Returning(c) \subseteq Threads /\ Returning(c)' \subseteq Threads
      BY Zenon DEF Returning
    <3>5. Returning(c)' = Returning(c) \union {t}
      BY <3>2, <3>3, <3>4, Zenon
    <3>6. Cardinality(Returning(c)') = Cardinality(Returning(c)) + 1
      BY <3>2, <3>5, ReturningMore, Zenon
    <3>7. Cardinality(Returning(c)) \in Nat /\ Len(held[i]) \in Nat
      BY ReturningFinite DEF Types
    <3>8. \/ captures[c].refs = Len(held[i]) + Cardinality(Returning(c))
          \/ captures[c].refs = MaxRefCount
      BY <2>1, <2>4, <3>1, Zenon DEF Exact
    <3>9. captures'[c].refs = AddRef(captures[c].refs) /\ Len(held'[i]) = Len(held[i])
      BY <1>2, <1>4, <1>7, Zenon
    <3>10. CASE captures[c].refs = MaxRefCount
      <4>1. captures'[c].refs = MaxRefCount  BY <3>9, <3>10, Zenon DEF AddRef
      <4> QED  BY <1>1, <2>4, <3>1, <3>10, <4>1, Zenon DEF Follows
    <3>11. CASE captures[c].refs # MaxRefCount
      <4>1. captures'[c].refs = captures[c].refs + 1  BY <3>9, <3>11, Zenon DEF AddRef
      <4>2. captures[c].refs = Len(held[i]) + Cardinality(Returning(c))
        BY <3>8, <3>11, Zenon
      <4>3. captures'[c].refs = Len(held'[i]) + Cardinality(Returning(c)')
        BY <3>6, <3>7, <3>9, <4>1, <4>2
      <4> QED  BY <2>4, <3>1, <3>11, <4>3, Zenon DEF Follows
    <3> QED  BY <3>10, <3>11, Zenon
  <2> QED  BY <2>3, <2>4, Zenon
<1>13. CountsOK' /\ CountsFollow  BY <1>2, <1>12, MatchIsNext, Zenon
<1> QED
  BY <1>1, <1>2, <1>4, <1>6, <1>8, <1>9, <1>10, <1>11, <1>13, RecountKeeps, Zenon

(* The reference that ReleaseStackTrace drops is one of those its capture  *)
(* counts.                                                                 *)
LEMMA ReleasedIsKnown ==
  ASSUME CacheInv, NEW i \in Ids, NEW k \in DOMAIN held[i]
  PROVE  /\ k \in 1..Len(held[i]) /\ held[i] \in Seq(Nat)
         /\ held[i][k] = known[i] /\ known[i] \in Captures /\ known[i] # 0
         /\ captures[known[i]].id = i /\ captures[known[i]].refs > 0
<1> Types /\ KnownOK /\ HeldOK  BY Parts, Zenon
<1>1. held[i] \in Seq(Nat) /\ k \in 1..Len(held[i])  BY DEF Types
<1> QED  BY <1>1, Zenon DEF KnownOK, HeldOK

(* What ReleaseStackTrace does with c, the capture of i: r references are  *)
(* left, which makes the capture q.                                        *)
Released(t, i, c, r, q) ==
  /\ thread[t].pc = "idle" /\ locks[ShardOf[i]] = None
  /\ c \in Captures /\ captures[c].id = i /\ captures[c].refs > 0
  /\ r \in Nat /\ r <= MaxRefCount
  /\ captures' = [captures EXCEPT ![c] = q] /\ q \in CaptureSet /\ q.refs = r
  /\ q.max = captures[c].max /\ q.id = captures[c].id /\ q.num = captures[c].num
  /\ r = 0 => known' = [known EXCEPT ![i] = 0]
  /\ r # 0 => known' = known
  /\ UNCHANGED <<pages, used, locks, reclaimed>>
  /\ thread' \in [Threads -> CallSet]
  /\ thread'[t].pc = "released" /\ thread'[t].capture = c
  /\ r = 0 => thread'[t].last
  /\ r # 0 => ~thread'[t].last
  /\ \A u \in Threads \ {t} : thread'[u] = thread[u]
  /\ held' \in [Ids -> Seq(Nat)] /\ Len(held'[i]) = Len(held[i]) - 1
  /\ \A j \in 1..Len(held'[i]) : held'[i][j] = c
  /\ \A j \in Ids : j # i => held'[j] = held[j]

(* A reference count that is dropped stays in its range.                   *)
LEMMA RemoveRefRange ==
  ASSUME NEW n \in 0..MaxRefCount, n > 0
  PROVE  RemoveRef(n) \in Nat /\ RemoveRef(n) <= MaxRefCount
BY CacheAssumption DEF RemoveRef

(* The reference is dropped by the block and by the count, and the call    *)
(* knows whether it was the last one.                                      *)
LEMMA ReleaseEffect ==
  ASSUME CacheInv, NEW t \in Threads, NEW i \in Ids, NEW k \in DOMAIN held[i],
         ReleaseStackTrace(t, i, k), NEW c, c = known[i],
         NEW r, r = RemoveRef(captures[c].refs),
         NEW q, q = [captures[c] EXCEPT !.refs = r]
  PROVE  Released(t, i, c, r, q)
<1> Types /\ HeldOK  BY Parts, Zenon
<1>1. /\ k \in 1..Len(held[i]) /\ held[i] \in Seq(Nat)
      /\ held[i][k] = c /\ c \in Captures /\ c # 0
      /\ captures[c].id = i /\ captures[c].refs > 0
  BY ReleasedIsKnown, Zenon
<1>2. c \in Nat \ {0} /\ captures[c] \in CaptureSet /\ captures[c].refs \in 0..MaxRefCount
  BY <1>1, CaptureFields, Zenon
<1>3. r \in Nat /\ r <= MaxRefCount
  BY <1>1, <1>2, RemoveRefRange, Zenon
<1> DEFINE h == [NoCall EXCEPT !.pc = "released", !.id = i, !.capture = c,
                               !.last = (r = 0)]
<1>3A. PICK s : s = Without(held[i], k)  BY Zenon
<1>4. /\ thread[t].pc = "idle" /\ locks[ShardOf[i]] = None
      /\ held' = [held EXCEPT ![i] = s]
      /\ captures' = [captures EXCEPT ![c] = q]
      /\ known' = IF r = 0 THEN [known EXCEPT ![i] = 0] ELSE known
      /\ Set(t, h)
      /\ UNCHANGED <<pages, used, locks, reclaimed>>
  BY <1>1, <1>3A, Zenon DEF ReleaseStackTrace, At, Without
<1>5. /\ q \in CaptureSet /\ q.max = captures[c].max /\ q.id = captures[c].id
      /\ q.num = captures[c].num /\ q.refs = r
  BY <1>2, <1>3, CacheAssumption DEF CaptureSet
<1>6. h \in CallSet /\ h.pc = "released" /\ h.capture = c /\ h.last = (r = 0)
  <2>1. NoCall \in CallSet /\ (r = 0) \in BOOLEAN  BY Idle, Zenon
  <2> QED  BY <1>2, <2>1, Zenon DEF CallSet
<1> HIDE DEF h
<1>7. /\ thread' \in [Threads -> CallSet] /\ thread'[t] = h
      /\ \A u \in Threads \ {t} : thread'[u] = thread[u]
  BY <1>4, <1>6, CallUpdate, Zenon
<1>8. /\ s \in Seq(Nat) /\ Len(s) = Len(held[i]) - 1
      /\ \A j \in 1..Len(s) : \E l \in 1..Len(held[i]) : s[j] = held[i][l]
  <2>1. held[i] \in Seq(Nat) /\ k \in 1..Len(held[i])  BY <1>1, Zenon
  <2> QED  BY <1>3A, <2>1, ListRemove, Zenon
<1>9. /\ held' \in [Ids -> Seq(Nat)] /\ held'[i] = s
      /\ \A j \in Ids : j # i => held'[j] = held[j]
  BY <1>4, <1>8, Zenon DEF Types
<1>10. \A j \in 1..Len(held'[i]) : held'[i][j] = c
  BY <1>8, <1>9, Zenon DEF HeldOK
<1>11. thread'[t].pc = "released" /\ thread'[t].capture = c /\ thread'[t].last = (r = 0)
  BY <1>6, <1>7, Zenon
<1> QED  BY <1>1, <1>3, <1>4, <1>5, <1>7, <1>8, <1>9, <1>10, <1>11, Zenon DEF Released


(* ReleaseStackTrace of a reference that is not the last one.              *)
LEMMA ReleaseOneKeeps ==
  ASSUME ThreadsAreCounted, CacheInv, NEW t \in Threads, NEW i \in Ids, NEW k \in DOMAIN held[i],
         ReleaseStackTrace(t, i, k), RemoveRef(captures[known[i]].refs) # 0
  PROVE  CacheInv' /\ CountsFollow
<1> Types /\ KnownOK /\ HeldOK /\ CountsOK  BY Parts, Zenon
<1>1. PICK c : c = known[i]  BY Zenon
<1>2. PICK r : r = RemoveRef(captures[c].refs)  BY Zenon
<1>2A. PICK q : q = [captures[c] EXCEPT !.refs = r]  BY Zenon
<1>3. /\ thread[t].pc = "idle" /\ c \in Captures
      /\ captures[c].id = i /\ captures[c].refs > 0
      /\ r \in Nat /\ r <= MaxRefCount /\ r # 0
      /\ q \in CaptureSet /\ q.max = captures[c].max /\ q.id = captures[c].id
      /\ q.num = captures[c].num /\ q.refs = r
      /\ captures' = [captures EXCEPT ![c] = q] /\ known' = known
      /\ UNCHANGED <<pages, used, locks, reclaimed>>
      /\ thread' \in [Threads -> CallSet]
      /\ thread'[t].pc = "released" /\ ~thread'[t].last
      /\ \A u \in Threads \ {t} : thread'[u] = thread[u]
      /\ held' \in [Ids -> Seq(Nat)] /\ Len(held'[i]) = Len(held[i]) - 1
      /\ \A j \in 1..Len(held'[i]) : held'[i][j] = c
      /\ \A j \in Ids : j # i => held'[j] = held[j]
  <2>1. r # 0  BY <1>1, <1>2, Zenon
  <2>2. Released(t, i, c, r, q)  BY <1>1, <1>2, <1>2A, ReleaseEffect, Zenon
  <2> QED  BY <2>1, <2>2, Zenon DEF Released
<1>5. c \in Nat \ {0} /\ captures[c] \in CaptureSet /\ captures[c].refs \in 0..MaxRefCount
  BY <1>3, CaptureFields, Zenon
<1>7. /\ Captures' = Captures /\ captures'[c] = q
      /\ \A d \in Captures : d # c => captures'[d] = captures[d]
  BY <1>3, CaptureUpdate, Zenon
<1>8. \A d : ~Limbo(t, d) /\ ~Limbo(t, d)'
  BY <1>3, Zenon DEF Limbo, Having
<1>9. thread'[t].pc \notin Searching /\ ReturnAt(t)'
  BY <1>3, Zenon DEF Searching, Having, ReturnAt
<1>10. HeldOK'
  <2>1. ASSUME NEW l \in 1..Len(held'[i])
        PROVE  known'[i] # 0 /\ held'[i][l] = known'[i]
    BY <1>1, <1>3, <1>5, Zenon
  <2>2. ASSUME NEW j \in Ids, j # i, NEW l \in 1..Len(held'[j])
        PROVE  known'[j] # 0 /\ held'[j][l] = known'[j]
    <3>1. held'[j] = held[j] /\ known' = known  BY <1>3, <2>2, Zenon
    <3> QED  BY <3>1, Zenon DEF HeldOK
  <2> QED  BY <2>1, <2>2, Zenon DEF HeldOK
<1>11. ASSUME NEW j \in Ids, NEW d, known[j] = d, d # 0
       PROVE  Follows(j, d)
  <2>1. Exact(j, d)  BY <1>11, MatchIs, Zenon
  <2>2. d \in Captures /\ captures[d].id = j  BY <1>11, Zenon DEF KnownOK
  <2>3. Returning(d)' = Returning(d)
    <3>1. t \notin Returning(d) /\ t \notin Returning(d)'  BY <1>3, ReturningIs, Zenon
    <3> QED  BY <1>3, <3>1, ReturningKept, Zenon
  <2>4. CASE j # i
    <3>1. d # c  BY <1>3, <2>2, <2>4, Zenon
    <3> QED  BY <1>3, <1>7, <1>11, <2>1, <2>2, <2>3, <2>4, <3>1, ExactKept, Zenon
  <2>5. CASE j = i
    <3>1. d = c  BY <1>1, <1>11, <2>5, Zenon
    <3>2. captures'[c].refs = RemoveRef(captures[c].refs)  BY <1>2, <1>3, <1>7, Zenon
    <3>3. CASE captures[c].refs = MaxRefCount
      <4>1. captures'[c].refs = MaxRefCount  BY <3>2, <3>3, Zenon DEF RemoveRef
      <4> QED  BY <1>1, <2>5, <3>1, <3>3, <4>1, Zenon DEF Follows
    <3>4. CASE captures[c].refs # MaxRefCount
      <4>1. captures'[c].refs = captures[c].refs - 1  BY <3>2, <3>4, Zenon DEF RemoveRef
      <4>2. captures[c].refs = Len(held[i]) + Cardinality(Returning(c))
        BY <2>1, <2>5, <3>1, <3>4, Zenon DEF Exact
      <4>3. Cardinality(Returning(c)) \in Nat /\ Len(held[i]) \in Nat
        BY ReturningFinite DEF Types
      <4>4. Cardinality(Returning(c)') = Cardinality(Returning(c))
        BY <2>3, <3>1, Zenon
      <4>5. captures'[c].refs = Len(held'[i]) + Cardinality(Returning(c)')
        BY <1>3, <4>1, <4>2, <4>3, <4>4
      <4> QED  BY <2>5, <3>1, <3>4, <4>5, Zenon DEF Follows
    <3> QED  BY <3>3, <3>4, Zenon
  <2> QED  BY <2>4, <2>5, Zenon
<1>12. CountsOK' /\ CountsFollow  BY <1>3, <1>11, MatchIsNext, Zenon
<1>13. q.refs > 0  BY <1>3
<1> QED
  BY <1>3, <1>8, <1>9, <1>10, <1>12, <1>13, RecountKeeps, Zenon

(* A single reference.                                                     *)
LEMMA OneInAll ==
  ASSUME NEW n, n = 1, NEW a \in Nat, NEW b \in Nat, a >= 1, n = a + b
  PROVE  a = 1 /\ b = 0
OBVIOUS

(* ReleaseStackTrace of the last reference forgets the stack: no block and *)
(* no call has one left.                                                   *)
LEMMA ReleaseLastKeeps ==
  ASSUME ThreadsAreCounted, CacheInv, NEW t \in Threads, NEW i \in Ids, NEW k \in DOMAIN held[i],
         ReleaseStackTrace(t, i, k), RemoveRef(captures[known[i]].refs) = 0
  PROVE  CacheInv' /\ CountsFollow
<1> /\ Types /\ SearchOK /\ ReturnOK /\ KnownOK /\ HeldOK /\ ReclaimedOK
      /\ LimboOK /\ PlacesOK /\ CountsOK
  BY Parts, Zenon
<1>1. PICK c : c = known[i]  BY Zenon
<1>2. PICK r : r = RemoveRef(captures[c].refs)  BY Zenon
<1>2A. PICK q : q = [captures[c] EXCEPT !.refs = r]  BY Zenon
<1>3. /\ thread[t].pc = "idle" /\ locks[ShardOf[i]] = None /\ c \in Captures
      /\ captures[c].id = i /\ captures[c].refs > 0 /\ r = 0
      /\ q \in CaptureSet /\ q.max = captures[c].max /\ q.refs = r
      /\ captures' = [captures EXCEPT ![c] = q]
      /\ known' = [known EXCEPT ![i] = 0]
      /\ UNCHANGED <<pages, used, locks, reclaimed>>
      /\ thread' \in [Threads -> CallSet]
      /\ thread'[t].pc = "released" /\ thread'[t].capture = c /\ thread'[t].last
      /\ \A u \in Threads \ {t} : thread'[u] = thread[u]
      /\ held' \in [Ids -> Seq(Nat)] /\ Len(held'[i]) = Len(held[i]) - 1
      /\ \A j \in Ids : j # i => held'[j] = held[j]
  <2>1. r = 0  BY <1>1, <1>2, Zenon
  <2>2. Released(t, i, c, r, q)  BY <1>1, <1>2, <1>2A, ReleaseEffect, Zenon
  <2> QED  BY <2>1, <2>2, Zenon DEF Released
<1>5. c \in Nat \ {0} /\ captures[c] \in CaptureSet /\ captures[c].refs \in 0..MaxRefCount
  BY <1>3, CaptureFields, Zenon
<1>6. q \in CaptureSet /\ q.max = captures[c].max /\ q.refs = 0
  BY <1>3, Zenon
<1>7. /\ captures' \in Seq(CaptureSet) /\ Captures' = Captures /\ captures'[c] = q
      /\ \A d \in Captures : d # c => captures'[d] = captures[d]
  BY <1>3, <1>6, CaptureUpdate, ZenonT(30)
<1>8. /\ known' \in [Ids -> Nat] /\ known'[i] = 0
      /\ \A j \in Ids : j # i => known'[j] = known[j]
  BY <1>3, Zenon DEF Types
<1>9. Len(held'[i]) = 0 /\ Returning(c) = {}
  <2>1. Cardinality(Returning(c)) \in Nat /\ Len(held[i]) \in Nat /\ Len(held[i]) >= 1
    <3>1. k \in 1..Len(held[i]) /\ held[i] \in Seq(Nat)  BY ReleasedIsKnown, Zenon
    <3>2. Cardinality(Returning(c)) \in Nat  BY ReturningFinite, Zenon
    <3>3. Len(held[i]) \in Nat /\ Len(held[i]) >= 1  BY <3>1
    <3> QED  BY <3>2, <3>3, Zenon
  <2>2. MaxRefCount \in Nat \ {0}  BY CacheAssumption, Zenon
  <2>3. captures[c].refs # MaxRefCount /\ captures[c].refs = 1
    BY <1>2, <1>3, <1>5, <2>2 DEF RemoveRef
  <2>4. Exact(i, c)  BY <1>1, <1>5, MatchIs, Zenon
  <2>5. captures[c].refs = Len(held[i]) + Cardinality(Returning(c))
    BY <2>3, <2>4, Zenon DEF Exact
  <2>6. Len(held[i]) = 1 /\ Cardinality(Returning(c)) = 0  BY <2>1, <2>3, <2>5, OneInAll, Zenon
  <2> QED  BY <1>3, <2>6, ReturningFinite
<1>10. \A d \in Nat : Limbo(t, d)' <=> d = c
  BY <1>3, Zenon DEF Limbo, Having
<1>11. \A d : ~Limbo(t, d)
  BY <1>3, Zenon DEF Limbo, Having
<1>12. \A u \in Threads \ {t} : \A d : Limbo(u, d)' <=> Limbo(u, d)
  BY <1>3, OthersLimbo, Zenon
<1>13. \A d : Listed(d)' <=> Listed(d)
  BY <1>3, Zenon DEF Listed
<1>14. Types'  BY <1>3, <1>7, <1>8, Zenon DEF Types
<1>15. SearchOK'
  <2>1. \A d \in Captures : captures'[d].max = captures[d].max  BY <1>6, <1>7, Zenon
  <2>2. Captures \subseteq Captures' /\ UNCHANGED locks
        /\ \A u \in Threads \ {t} : thread'[u] = thread[u]
    BY <1>3, <1>7, Zenon
  <2>3. \A j \in Ids : known[j] = 0 => known'[j] = 0  BY <1>8, Zenon
  <2>4. SearchAt(t)'  BY <1>3, Zenon DEF SearchAt, Searching, Having
  <2> QED  BY <2>1, <2>2, <2>3, <2>4, OthersSearch, Zenon
<1>16. ReturnOK'
  <2>1. ASSUME NEW u \in Threads \ {t} PROVE ReturnAt(u)'
    <3>1. ReturnAt(u) /\ thread'[u] = thread[u]  BY <1>3, <2>1, Zenon DEF ReturnOK
    <3>2. u \notin Returning(c)  BY <1>9, Zenon
    <3>3. thread[u].pc \in {"saved", "inserted"} => thread[u].id # i
      BY <1>1, <2>1, <3>1, <3>2, ReturningIs, Zenon DEF ReturnAt
    <3> QED  BY <1>8, <3>1, <3>3, Zenon DEF ReturnAt
  <2>2. ReturnAt(t)'  BY <1>3, Zenon DEF ReturnAt
  <2> QED  BY <2>1, <2>2, Zenon DEF ReturnOK
<1>17. KnownOK'
  <2>1. ASSUME NEW j \in Ids, j # i, known[j] # 0 PROVE known[j] # c
    BY <1>3, <2>1, Zenon DEF KnownOK
  <2> QED  BY <1>7, <1>8, <2>1 DEF KnownOK
<1>18. HeldOK'
  <2>1. \A j \in 1..Len(held'[i]) : FALSE  BY <1>9
  <2>2. ASSUME NEW j \in Ids, j # i, NEW l \in 1..Len(held'[j])
        PROVE  known'[j] # 0 /\ held'[j][l] = known'[j]
    <3>1. held'[j] = held[j] /\ known'[j] = known[j]  BY <1>3, <1>8, <2>2, Zenon
    <3> QED  BY <3>1, Zenon DEF HeldOK
  <2> QED  BY <2>1, <2>2, Zenon DEF HeldOK
<1>19. ReclaimedOK'
  <2>1. \A d \in Captures : captures'[d].max = captures[d].max
                            /\ (captures[d].refs = 0 => captures'[d].refs = 0)
    BY <1>6, <1>7, Zenon
  <2>2. UNCHANGED reclaimed /\ Captures' = Captures  BY <1>3, <1>7, Zenon
  <2> QED  BY <2>1, <2>2, Zenon DEF ReclaimedOK
<1>20. LimboOK'
  <2>1. ~Listed(c)  BY <1>3 DEF Listed, ReclaimedOK
  <2>2. \A u \in Threads : ~Limbo(u, c)  BY <1>3, <1>5 DEF LimboOK
  <2>3. ASSUME NEW u \in Threads, NEW d \in Nat, Limbo(u, d)'
        PROVE  /\ d \in Captures' /\ captures'[d].refs = 0 /\ ~Listed(d)'
               /\ \A v \in Threads : Limbo(v, d)' => v = u
    <3>1. CASE u = t
      <4>1. d = c  BY <1>10, <2>3, <3>1, Zenon
      <4> QED  BY <1>3, <1>6, <1>7, <1>12, <1>13, <2>1, <2>2, <3>1, <4>1, Zenon
    <3>2. CASE u # t
      <4>1. Limbo(u, d) /\ d # c  BY <1>12, <2>2, <2>3, <3>2, Zenon
      <4>2. /\ d \in Captures /\ captures[d].refs = 0 /\ ~Listed(d)
            /\ \A v \in Threads : Limbo(v, d) => v = u
        BY <4>1, Zenon DEF LimboOK
      <4> QED  BY <1>7, <1>10, <1>12, <1>13, <4>1, <4>2, Zenon
    <3> QED  BY <3>1, <3>2, Zenon
  <2> QED  BY <2>3, Zenon DEF LimboOK
<1>21. PlacesOK'
  <2>1. ASSUME NEW d \in Captures
        PROVE  IF captures'[d].refs > 0
               THEN captures'[d].id \in Ids /\ known'[captures'[d].id] = d
               ELSE Listed(d)' \/ \E u \in Threads : Limbo(u, d)'
    <3>1. CASE d = c
      BY <1>5, <1>6, <1>7, <1>10, <3>1
    <3>2. CASE d # c
      <4>1. captures'[d] = captures[d]  BY <1>7, <3>2, Zenon
      <4>2. CASE captures[d].refs > 0
        <5>1. captures[d].id \in Ids /\ known[captures[d].id] = d
          BY <4>2, Zenon DEF PlacesOK
        <5>2. captures[d].id # i  BY <1>1, <3>2, <5>1, Zenon
        <5> QED  BY <1>8, <4>1, <4>2, <5>1, <5>2, Zenon
      <4>3. CASE ~(captures[d].refs > 0)
        <5>1. Listed(d) \/ \E u \in Threads : Limbo(u, d)  BY <4>3, Zenon DEF PlacesOK
        <5> QED  BY <1>11, <1>12, <1>13, <4>1, <4>3, <5>1, Zenon
      <4> QED  BY <4>2, <4>3, Zenon
    <3> QED  BY <3>1, <3>2, Zenon
  <2> QED  BY <1>7, <2>1, Zenon DEF PlacesOK
<1>22. CountsOK' /\ CountsFollow
  <2>1. ASSUME NEW j \in Ids, NEW d, known'[j] = d, d # 0
        PROVE  Follows(j, d)
    <3>1. j # i /\ known[j] = d  BY <1>8, <2>1, Zenon
    <3>2. Exact(j, d)  BY <2>1, <3>1, MatchIs, Zenon
    <3>3. d \in Captures /\ captures[d].id = j  BY <2>1, <3>1, Zenon DEF KnownOK
    <3>4. d # c  BY <1>3, <3>1, <3>3, Zenon
    <3>5. t \notin Returning(d) /\ t \notin Returning(d)'  BY <1>3, ReturningIs, Zenon
    <3>6. Returning(d)' = Returning(d)  BY <1>3, <3>5, ReturningKept, Zenon
    <3> QED  BY <1>3, <1>7, <3>1, <3>2, <3>3, <3>4, <3>6, ExactKept, Zenon
  <2> QED  BY <2>1, MatchIsNext, Zenon
<1> QED
  BY <1>14, <1>15, <1>16, <1>17, <1>18, <1>19, <1>20, <1>21, <1>22, Zenon DEF CacheInv


-----------------------------------------------------------------------------
(* The steps that move a capture.                                          *)

(* InitFromBuffer gives a capture its identifier, its frames and the first *)
(* reference.                                                              *)
LEMMA InsertEffect ==
  ASSUME CacheInv, NEW c \in Captures, NEW i \in Ids, captures[c].refs = 0,
         captures[c].max >= Frames[i],
         captures' = [captures EXCEPT ![c] =
                        [InitFromBuffer(c, i) EXCEPT !.refs = AddRef(captures[c].refs)]]
  PROVE  /\ captures' \in Seq(CaptureSet) /\ Captures' = Captures
         /\ captures'[c].max = captures[c].max /\ captures'[c].id = i
         /\ captures'[c].num = Frames[i] /\ captures'[c].refs = 1
         /\ \A d \in Captures : d # c => captures'[d] = captures[d]
<1> Types  BY Parts, Zenon
<1>1. /\ captures \in Seq(CaptureSet) /\ c \in 1..Len(captures)
      /\ Captures = 1..Len(captures)
  BY DEF Types, Captures
<1>2. /\ captures[c] \in CaptureSet /\ captures[c].max \in 1..kMaxNumFrames
      /\ Frames[i] \in 1..kMaxNumFrames /\ kMaxNumFrames \in Nat /\ MaxRefCount \in Nat \ {0}
  BY CaptureFields, CacheAssumption, Zenon
<1> DEFINE p == [captures[c] EXCEPT !.id = i]
           q == [p EXCEPT !.num = Frames[i]]
           r == [q EXCEPT !.refs = AddRef(captures[c].refs)]
<1>3. InitFromBuffer(c, i) = q
  <2>1. (IF Frames[i] < captures[c].max THEN Frames[i] ELSE captures[c].max) = Frames[i]
    BY <1>2
  <2> QED  BY <2>1, Zenon DEF InitFromBuffer
<1>4. p \in CaptureSet /\ p.max = captures[c].max /\ p.id = i /\ p.refs = 0
  BY <1>2, Zenon DEF CaptureSet
<1>5. /\ q \in CaptureSet /\ q.max = captures[c].max /\ q.id = i /\ q.num = Frames[i]
      /\ q.refs = 0
  <2> HIDE DEF p
  <2> QED  BY <1>2, <1>4 DEF CaptureSet
<1>6. /\ r \in CaptureSet /\ r.max = captures[c].max /\ r.id = i /\ r.num = Frames[i]
      /\ r.refs = 1
  <2> HIDE DEF q
  <2>1. AddRef(captures[c].refs) = 1 /\ 1 \in 0..MaxRefCount  BY <1>2 DEF AddRef
  <2> QED  BY <1>5, <2>1, Zenon DEF CaptureSet
<1>7. captures' = [captures EXCEPT ![c] = r]
  <2> HIDE DEF q
  <2> QED  BY <1>3, Zenon
<1> HIDE DEF p, q, r
<1>8. /\ captures' \in Seq(CaptureSet) /\ Captures' = Captures
      /\ captures'[c] = r /\ \A d \in Captures : d # c => captures'[d] = captures[d]
  BY <1>6, <1>7, CaptureUpdate, Zenon
<1> QED  BY <1>6, <1>8, Zenon


(* Insert makes the stack known and gives up the lock of its shard.        *)
LEMMA InsertKeeps ==
  ASSUME ThreadsAreCounted, CacheInv, NEW t \in Threads, Insert(t)
  PROVE  CacheInv' /\ CountsFollow
<1> /\ Types /\ SearchOK /\ ReturnOK /\ KnownOK /\ HeldOK /\ ReclaimedOK
      /\ LimboOK /\ PlacesOK /\ CountsOK
  BY Parts, Zenon
<1>1. PICK i : i = thread[t].id  BY Zenon
<1>2. PICK c : c = thread[t].capture  BY Zenon
<1> DEFINE h == [thread[t] EXCEPT !.pc = "inserted"]
<1>3. /\ thread[t].pc = "insert" /\ Set(t, h)
      /\ captures' = [captures EXCEPT ![c] =
                        [InitFromBuffer(c, i) EXCEPT !.refs = AddRef(captures[c].refs)]]
      /\ known' = [known EXCEPT ![i] = c]
      /\ locks' = [locks EXCEPT ![ShardOf[i]] = None]
      /\ UNCHANGED <<pages, used, reclaimed, held>>
  BY <1>1, <1>2, Zenon DEF Insert, At
<1>4. /\ i \in Ids /\ known[i] = 0 /\ locks[ShardOf[i]] = t /\ c \in Captures
      /\ captures[c].max >= Frames[i]
  BY <1>1, <1>2, <1>3, Zenon DEF SearchOK, SearchAt, Searching, Having
<1>5. c \in Nat \ {0} /\ Limbo(t, c)
  BY <1>2, <1>3, <1>4, CaptureFields, Zenon DEF Limbo, Having
<1>6. /\ captures[c].refs = 0 /\ ~Listed(c) /\ \A u \in Threads : Limbo(u, c) => u = t
  BY <1>5, Zenon DEF LimboOK
<1>7. /\ captures' \in Seq(CaptureSet) /\ Captures' = Captures
      /\ captures'[c].max = captures[c].max /\ captures'[c].id = i
      /\ captures'[c].num = Frames[i] /\ captures'[c].refs = 1
      /\ \A d \in Captures : d # c => captures'[d] = captures[d]
  BY <1>3, <1>4, <1>6, InsertEffect, Zenon
<1>8. /\ h \in CallSet /\ h.pc = "inserted" /\ h.id = i /\ h.capture = c
  <2>1. thread[t] \in CallSet  BY Zenon DEF Types
  <2> QED  BY <1>1, <1>2, <2>1, Zenon DEF CallSet
<1> HIDE DEF h
<1>9. /\ thread' \in [Threads -> CallSet] /\ thread'[t].pc = "inserted"
      /\ thread'[t].id = i /\ thread'[t].capture = c
      /\ \A u \in Threads \ {t} : thread'[u] = thread[u]
  BY <1>3, <1>8, CallUpdate, Zenon
<1>10. /\ known' \in [Ids -> Nat] /\ known'[i] = c
       /\ \A j \in Ids : j # i => known'[j] = known[j]
  BY <1>3, <1>4, <1>5, Zenon DEF Types
<1>11. /\ locks' \in [Shards -> Threads \union {None}]
       /\ \A s \in Shards : s # ShardOf[i] => locks'[s] = locks[s]
  BY <1>3, Zenon DEF Types
<1>12. \A d : ~Limbo(t, d)'
  BY <1>9, Zenon DEF Limbo, Having
<1>13. \A u \in Threads \ {t} : \A d : Limbo(u, d)' <=> Limbo(u, d)
  BY <1>9, OthersLimbo, Zenon
<1>14. \A d : Listed(d)' <=> Listed(d)
  BY <1>3, Zenon DEF Listed
<1>15. Types'  BY <1>3, <1>7, <1>9, <1>10, <1>11, Zenon DEF Types
<1>16. SearchOK'
  <2>1. ASSUME NEW u \in Threads \ {t}, thread[u].pc \in Searching
        PROVE  SearchAt(u)'
    <3>1. SearchAt(u) /\ thread'[u] = thread[u]  BY <1>9, <2>1, Zenon DEF SearchOK
    <3>2. thread[u].id \in Ids /\ locks[ShardOf[thread[u].id]] = u  BY <2>1, <3>1, Zenon DEF SearchAt
    <3>3. ShardOf[thread[u].id] # ShardOf[i] /\ ShardOf[thread[u].id] \in Shards
      BY <1>4, <3>2, Zenon DEF Shards
    <3>4. known'[thread[u].id] = known[thread[u].id]
          /\ locks'[ShardOf[thread[u].id]] = locks[ShardOf[thread[u].id]]
      BY <1>10, <1>11, <3>2, <3>3, Zenon
    <3>5. \A d \in Captures : captures'[d].max = captures[d].max  BY <1>7, Zenon
    <3> QED  BY <1>7, <3>1, <3>4, <3>5, Zenon DEF SearchAt
  <2>2. ASSUME NEW u \in Threads \ {t}, thread[u].pc \notin Searching
        PROVE  SearchAt(u)'
    BY <1>9, <2>2, Zenon DEF SearchAt
  <2>3. SearchAt(t)'  BY <1>9, Zenon DEF SearchAt, Searching, Having
  <2> QED  BY <2>1, <2>2, <2>3, Zenon DEF SearchOK
<1>17. ReturnOK'
  <2>1. ASSUME NEW u \in Threads \ {t} PROVE ReturnAt(u)'
    <3>1. ReturnAt(u) /\ thread'[u] = thread[u]  BY <1>9, <2>1, Zenon DEF ReturnOK
    <3> QED  BY <1>4, <1>10, <3>1, Zenon DEF ReturnAt
  <2>2. ReturnAt(t)'  BY <1>4, <1>5, <1>9, <1>10, Zenon DEF ReturnAt
  <2> QED  BY <2>1, <2>2, Zenon DEF ReturnOK
<1>18. ASSUME NEW j \in Ids, j # i, known[j] # 0
       PROVE  known[j] # c /\ known[j] \in Captures
  BY <1>6, <1>18 DEF KnownOK
<1>19. KnownOK'
  <2>1. ASSUME NEW j \in Ids, known'[j] # 0
        PROVE  /\ known'[j] \in Captures' /\ captures'[known'[j]].id = j
               /\ captures'[known'[j]].num = Frames[j] /\ captures'[known'[j]].refs > 0
    <3>1. CASE j = i  BY <1>4, <1>7, <1>10, <3>1
    <3>2. CASE j # i
      <4>1. known'[j] = known[j]  BY <1>10, <3>2, Zenon
      <4>2. known[j] # c /\ known[j] \in Captures  BY <1>18, <2>1, <3>2, <4>1, Zenon
      <4>3. captures'[known[j]] = captures[known[j]]  BY <1>7, <4>2, Zenon
      <4> QED  BY <1>7, <2>1, <4>1, <4>2, <4>3 DEF KnownOK
    <3> QED  BY <3>1, <3>2, Zenon
  <2> QED  BY <2>1, Zenon DEF KnownOK
<1>20. HeldOK'
  <2>1. ASSUME NEW j \in Ids, NEW k \in 1..Len(held[j])
        PROVE  known'[j] # 0 /\ held[j][k] = known'[j]
    <3>1. known[j] # 0 /\ held[j][k] = known[j]  BY <2>1, Zenon DEF HeldOK
    <3>2. j # i  BY <1>4, <3>1, Zenon
    <3> QED  BY <1>10, <3>1, <3>2, Zenon
  <2> QED  BY <1>3, <2>1, Zenon DEF HeldOK
<1>21. ReclaimedOK'
  <2>1. ASSUME NEW n \in 1..kMaxNumFrames, NEW d, Has(reclaimed[n], d)
        PROVE  d \in Captures /\ captures'[d] = captures[d]
    <3>1. d \in Captures /\ d # c
      BY <1>6, <2>1, Zenon DEF ReclaimedOK, Listed
    <3> QED  BY <1>7, <3>1, Zenon
  <2>2. \A n \in 1..kMaxNumFrames : \A d : Has(reclaimed[n], d) =>
          d \in Captures' /\ captures'[d].max = n /\ captures'[d].refs = 0
    BY <1>7, <2>1 DEF ReclaimedOK
  <2> QED  BY <1>3, <2>2, Zenon DEF ReclaimedOK
<1>22. LimboOK'
  <2>1. ASSUME NEW u \in Threads, NEW d \in Nat, Limbo(u, d)'
        PROVE  /\ d \in Captures' /\ captures'[d].refs = 0 /\ ~Listed(d)'
               /\ \A v \in Threads : Limbo(v, d)' => v = u
    <3>1. u # t /\ Limbo(u, d)  BY <1>12, <1>13, <2>1, Zenon
    <3>2. /\ d \in Captures /\ captures[d].refs = 0 /\ ~Listed(d)
          /\ \A v \in Threads : Limbo(v, d) => v = u
      BY <3>1, Zenon DEF LimboOK
    <3>3. d # c  BY <1>6, <3>1, Zenon
    <3> QED  BY <1>7, <1>12, <1>13, <1>14, <3>2, <3>3, Zenon
  <2> QED  BY <2>1, Zenon DEF LimboOK
<1>23. PlacesOK'
  <2>1. ASSUME NEW d \in Captures
        PROVE  IF captures'[d].refs > 0
               THEN captures'[d].id \in Ids /\ known'[captures'[d].id] = d
               ELSE Listed(d)' \/ \E u \in Threads : Limbo(u, d)'
    <3>1. CASE d = c  BY <1>4, <1>7, <1>10, <3>1
    <3>2. CASE d # c
      <4>1. captures'[d] = captures[d] /\ d \in Nat \ {0}
        BY <1>7, <3>2, CaptureFields, Zenon
      <4>2. CASE captures[d].refs > 0
        <5>1. captures[d].id \in Ids /\ known[captures[d].id] = d
          BY <4>2, Zenon DEF PlacesOK
        <5>2. captures[d].id # i  BY <1>4, <4>1, <5>1, Zenon
        <5> QED  BY <1>10, <4>1, <4>2, <5>1, <5>2, Zenon
      <4>3. CASE ~(captures[d].refs > 0)
        <5>1. Listed(d) \/ \E u \in Threads : Limbo(u, d)  BY <4>3, Zenon DEF PlacesOK
        <5>2. ~Limbo(t, d)  BY <1>2, <1>3, <3>2, Zenon DEF Limbo, Having
        <5> QED  BY <1>13, <1>14, <4>1, <4>3, <5>1, <5>2, Zenon
      <4> QED  BY <4>2, <4>3, Zenon
    <3> QED  BY <3>1, <3>2, Zenon
  <2> QED  BY <1>7, <2>1, Zenon DEF PlacesOK
<1>24. CountsOK' /\ CountsFollow
  <2>1. ASSUME NEW j \in Ids, NEW d, known'[j] = d, d # 0
        PROVE  Follows(j, d)
    <3>1. CASE j # i
      <4>1. known[j] = d /\ d # c /\ d \in Captures  BY <1>10, <1>18, <2>1, <3>1, Zenon
      <4>2. Exact(j, d)  BY <2>1, <4>1, MatchIs, Zenon
      <4>3. t \notin Returning(d) /\ t \notin Returning(d)'
        BY <1>3, <1>9, <4>1, ReturningIs, Zenon
      <4>4. Returning(d)' = Returning(d)  BY <1>9, <4>3, ReturningKept, Zenon
      <4> QED  BY <1>3, <1>7, <4>1, <4>2, <4>4, ExactKept, Zenon
    <3>2. CASE j = i
      <4>1. d = c  BY <1>10, <2>1, <3>2, Zenon
      <4>2. Returning(c)' = {t}
        <5>1. t \in Returning(c)'  BY <1>9, ReturningIs, Zenon
        <5>2. ASSUME NEW u \in Threads \ {t} PROVE u \notin Returning(c)'
          <6>1. ReturnAt(u) /\ thread'[u] = thread[u]  BY <1>9, <5>2, Zenon DEF ReturnOK
          <6>2. u \notin Returning(c)
            BY <1>5, <1>6, <6>1, ReturningIs DEF ReturnAt, KnownOK
          <6> QED  BY <6>1, <6>2, Zenon DEF Returning, At
        <5>3. Returning(c)' \subseteq Threads  BY Zenon DEF Returning
        <5> QED  BY <5>1, <5>2, <5>3, Zenon
      <4>3. Cardinality(Returning(c)') = 1  BY <4>2, Zenon DEF ThreadsAreCounted
      <4>4. Len(held'[i]) = 0
        <5>1. held[i] \in Seq(Nat)  BY <1>4, Zenon DEF Types
        <5>2. \A k \in 1..Len(held[i]) : FALSE  BY <1>4, Zenon DEF HeldOK
        <5>3. Len(held[i]) = 0  BY <5>1, <5>2
        <5> QED  BY <1>3, <5>3, Zenon
      <4>5. captures'[c].refs = Len(held'[i]) + Cardinality(Returning(c)')
        BY <1>7, <4>3, <4>4
      <4>6. c # known[i]  BY <1>4, <1>5, Zenon
      <4> QED  BY <3>2, <4>1, <4>5, <4>6, Zenon DEF Follows
    <3> QED  BY <3>1, <3>2, Zenon
  <2> QED  BY <2>1, MatchIsNext, Zenon
<1> QED
  BY <1>15, <1>16, <1>17, <1>19, <1>20, <1>21, <1>22, <1>23, <1>24, Zenon DEF CacheInv


(* A step that adds captures, all of which t works on.                     *)
LEMMA GrowKeeps ==
  ASSUME CacheInv, NEW t \in Threads,
         captures' \in Seq(CaptureSet), Captures \subseteq Captures',
         \A d \in Captures : captures'[d] = captures[d],
         \A d \in Captures' \ Captures : captures'[d].refs = 0,
         pages' \in Nat, used' \in 0..DataSize,
         UNCHANGED <<known, locks, reclaimed, held>>,
         thread' \in [Threads -> CallSet],
         \A u \in Threads \ {t} : thread'[u] = thread[u],
         thread[t].pc = "scan", thread'[t].pc \in {"rest", "insert"},
         SearchAt(t)',
         \A d \in Nat : Limbo(t, d)' <=> d \in Captures' \ Captures
  PROVE  CacheInv' /\ CountsFollow
<1> /\ Types /\ SearchOK /\ ReturnOK /\ KnownOK /\ HeldOK /\ ReclaimedOK
      /\ LimboOK /\ PlacesOK /\ CountsOK
  BY Parts, Zenon
<1>1. Captures' \subseteq Nat  BY DEF Captures
<1>2. \A u \in Threads \ {t} : \A d : Limbo(u, d)' <=> Limbo(u, d)
  BY OthersLimbo, Zenon
<1>3. \A d : ~Limbo(t, d)  BY Zenon DEF Limbo, Having
<1>4. \A d : Listed(d)' <=> Listed(d)  BY Zenon DEF Listed
<1>5. \A d : Listed(d) => d \in Captures  BY Zenon DEF Listed, ReclaimedOK
<1>6. \A u \in Threads : \A d \in Nat : Limbo(u, d) => d \in Captures
  BY Zenon DEF LimboOK
<1>7. Types'  BY Zenon DEF Types
<1>8. SearchOK'  BY OthersSearch, Zenon
<1>9. ReturnOK'
  <2>1. ReturnAt(t)'  BY Zenon DEF ReturnAt
  <2> QED  BY <2>1, OthersReturn, Zenon
<1>10. KnownOK'  BY DEF KnownOK
<1>11. HeldOK'  BY Zenon DEF HeldOK
<1>12. ReclaimedOK'  BY DEF ReclaimedOK
<1>13. LimboOK'
  <2>1. ASSUME NEW u \in Threads, NEW d \in Nat, Limbo(u, d)'
        PROVE  /\ d \in Captures' /\ captures'[d].refs = 0 /\ ~Listed(d)'
               /\ \A v \in Threads : Limbo(v, d)' => v = u
    <3>1. CASE u = t  BY <1>2, <1>4, <1>5, <1>6, <2>1, <3>1, Zenon
    <3>2. CASE u # t
      <4>1. Limbo(u, d)  BY <1>2, <2>1, <3>2, Zenon
      <4>2. /\ d \in Captures /\ captures[d].refs = 0 /\ ~Listed(d)
            /\ \A v \in Threads : Limbo(v, d) => v = u
        BY <4>1, Zenon DEF LimboOK
      <4> QED  BY <1>2, <1>4, <4>2, Zenon
    <3> QED  BY <3>1, <3>2, Zenon
  <2> QED  BY <2>1, Zenon DEF LimboOK
<1>14. PlacesOK'
  <2>1. ASSUME NEW d \in Captures', d \notin Captures
        PROVE  ~(captures'[d].refs > 0) /\ Limbo(t, d)'
    BY <1>1, <2>1
  <2>2. ASSUME NEW d \in Captures, ~(captures[d].refs > 0)
        PROVE  Listed(d)' \/ \E u \in Threads : Limbo(u, d)'
    <3>1. Listed(d) \/ \E u \in Threads : Limbo(u, d)  BY <2>2, Zenon DEF PlacesOK
    <3> QED  BY <1>2, <1>3, <1>4, <3>1, Zenon
  <2>3. ASSUME NEW d \in Captures, captures[d].refs > 0
        PROVE  captures[d].id \in Ids /\ known[captures[d].id] = d
    BY <2>3, Zenon DEF PlacesOK
  <2> QED  BY <2>1, <2>2, <2>3, Zenon DEF PlacesOK
<1>15. CountsOK' /\ CountsFollow
  <2>1. ASSUME NEW j \in Ids, NEW d, known[j] = d, d # 0
        PROVE  Follows(j, d)
    <3>1. Exact(j, d)  BY <2>1, MatchIs, Zenon
    <3>2. d \in Captures  BY <2>1, Zenon DEF KnownOK
    <3>3. t \notin Returning(d) /\ t \notin Returning(d)'  BY ReturningIs, Zenon
    <3>4. Returning(d)' = Returning(d)  BY <3>3, ReturningKept, Zenon
    <3> QED  BY <2>1, <3>1, <3>2, <3>4, ExactKept, Zenon
  <2> QED  BY <2>1, MatchIsNext, Zenon
<1> QED
  BY <1>7, <1>8, <1>9, <1>10, <1>11, <1>12, <1>13, <1>14, <1>15, Zenon DEF CacheInv

(* The captures GetNextStackCapture carves out of a page: one that is      *)
(* large enough and, if a page is abandoned, a smaller one.                *)
LEMMA GetNextKeeps ==
  ASSUME CacheInv, NEW t \in Threads, GetNextStackCapture(t)
  PROVE  CacheInv' /\ CountsFollow
<1> Types /\ SearchOK  BY Parts, Zenon
<1>1. PICK i : i = thread[t].id  BY Zenon
<1>2. PICK n : n = Frames[i]  BY Zenon
<1>3. PICK rest : rest = GetMaxNumFrames(DataSize - used)  BY Zenon
<1>4. PICK made : made = IF ~(used + GetSize(n) <= DataSize) /\ rest > 0
                         THEN <<Capture(rest), Capture(n)>> ELSE <<Capture(n)>>
  BY Zenon
<1>5. /\ thread[t].pc = "scan" /\ captures' = captures \o made
      /\ pages' = IF used + GetSize(n) <= DataSize THEN pages ELSE pages + 1
      /\ used' = IF used + GetSize(n) <= DataSize THEN used + GetSize(n) ELSE GetSize(n)
      /\ Set(t, [thread[t] EXCEPT !.capture = Len(captures'),
                   !.pc = IF Len(made) = 2 THEN "rest" ELSE "insert",
                   !.unused = IF Len(made) = 2 THEN Len(captures) + 1 ELSE 0])
      /\ UNCHANGED <<known, locks, reclaimed, held>>
  BY <1>1, <1>2, <1>3, <1>4, Zenon DEF GetNextStackCapture, At
<1>6. i \in Ids /\ known[i] = 0 /\ locks[ShardOf[i]] = t
  BY <1>1, <1>5, Zenon DEF SearchOK, SearchAt, Searching
<1>7. /\ n \in 1..kMaxNumFrames /\ kMaxNumFrames \in Nat /\ HeaderSize \in Nat /\ DataSize \in Nat
      /\ HeaderSize + kMaxNumFrames <= DataSize
  BY <1>2, <1>6, CacheAssumption, Zenon
<1>8. used \in 0..DataSize /\ pages \in Nat /\ captures \in Seq(CaptureSet)
      /\ Len(captures) \in Nat /\ Captures = 1..Len(captures)
  BY DEF Types, Captures
<1>9. pages' \in Nat /\ used' \in 0..DataSize
  BY <1>5, <1>7, <1>8, SMTT(30) DEF GetSize
<1>10. ASSUME NEW m \in 1..kMaxNumFrames PROVE Capture(m) \in CaptureSet
  <2>1. 0 \in 0..kMaxNumFrames /\ 0 \in 0..MaxRefCount  BY <1>7, CacheAssumption
  <2> QED  BY <2>1, Zenon DEF Capture, CaptureSet
<1>11. /\ made \in Seq(CaptureSet) /\ Len(made) \in {1, 2}
       /\ \A j \in 1..Len(made) : made[j].refs = 0
       /\ made[Len(made)].max = n
  <2>1. CASE ~(used + GetSize(n) <= DataSize) /\ rest > 0
    <3>1. rest \in 1..kMaxNumFrames
      BY <1>3, <1>7, <1>8, <2>1 DEF GetSize, GetMaxNumFrames
    <3>2. Capture(rest) \in CaptureSet /\ Capture(n) \in CaptureSet
      BY <1>7, <1>10, <3>1, Zenon
    <3>3. Capture(rest).refs = 0 /\ Capture(n).refs = 0 /\ Capture(n).max = n
      BY Zenon DEF Capture
    <3>4. made = <<Capture(rest), Capture(n)>>  BY <1>4, <2>1, Zenon
    <3>5. /\ made \in Seq(CaptureSet) /\ Len(made) = 2
          /\ made[1] = Capture(rest) /\ made[2] = Capture(n)
      BY <3>2, <3>4
    <3> QED  BY <3>3, <3>5
  <2>2. CASE ~(~(used + GetSize(n) <= DataSize) /\ rest > 0)
    <3>1. Capture(n) \in CaptureSet /\ Capture(n).refs = 0 /\ Capture(n).max = n
      BY <1>7, <1>10, Zenon DEF Capture
    <3>2. made = <<Capture(n)>>  BY <1>4, <2>2, Zenon
    <3>3. made \in Seq(CaptureSet) /\ Len(made) = 1 /\ made[1] = Capture(n)
      BY <3>1, <3>2
    <3> QED  BY <3>1, <3>3
  <2> QED  BY <2>1, <2>2, Zenon
<1>12. /\ captures' \in Seq(CaptureSet) /\ Len(captures') = Len(captures) + Len(made)
       /\ \A d \in 1..Len(captures) : captures'[d] = captures[d]
       /\ \A j \in 1..Len(made) : captures'[Len(captures) + j] = made[j]
  BY <1>5, <1>8, <1>11, SeqJoin, SMTT(30)
<1>13. /\ Captures' = 1..(Len(captures) + Len(made)) /\ Captures \subseteq Captures'
       /\ Captures' \ Captures = {Len(captures) + j : j \in 1..Len(made)}
  <2>1. Captures' = 1..(Len(captures) + Len(made))  BY <1>12 DEF Captures
  <2>2. Captures \subseteq Captures'  BY <1>8, <1>11, <2>1
  <2>3. ASSUME NEW d \in Captures' \ Captures
        PROVE  \E j \in 1..Len(made) : d = Len(captures) + j
    <3>1. d - Len(captures) \in 1..Len(made)  BY <1>8, <1>11, <2>1
    <3> QED  BY <1>8, <2>1, <3>1
  <2>4. ASSUME NEW j \in 1..Len(made)
        PROVE  Len(captures) + j \in Captures' \ Captures
    BY <1>8, <1>11, <2>1
  <2> QED  BY <2>1, <2>2, <2>3, <2>4, Zenon
<1>14. /\ \A d \in Captures : captures'[d] = captures[d]
       /\ \A d \in Captures' \ Captures : captures'[d].refs = 0
  <2>1. ASSUME NEW d \in Captures' \ Captures PROVE captures'[d].refs = 0
    <3>1. PICK j \in 1..Len(made) : d = Len(captures) + j  BY <1>13, Zenon
    <3>2. captures'[d] = made[j]  BY <1>12, <3>1, Zenon
    <3> QED  BY <1>11, <3>2, Zenon
  <2> QED  BY <1>8, <1>12, <2>1, Zenon
<1>15. /\ Len(captures') \in Captures' \ Captures /\ captures'[Len(captures')].max = n
  <2>1. Len(made) \in 1..Len(made)
    <3>1. Len(made) = 1 \/ Len(made) = 2  BY <1>11, Zenon
    <3>2. CASE Len(made) = 1  BY <3>2
    <3>3. CASE Len(made) = 2  BY <3>3
    <3> QED  BY <3>1, <3>2, <3>3, Zenon
  <2>2. captures'[Len(captures')] = made[Len(made)]  BY <1>12, <2>1, Zenon
  <2>3. Len(captures') \in Captures' \ Captures  BY <1>12, <1>13, <2>1, Zenon
  <2> QED  BY <1>11, <2>2, <2>3, Zenon
<1>16. PICK h : h = [thread[t] EXCEPT !.capture = Len(captures'),
                       !.pc = IF Len(made) = 2 THEN "rest" ELSE "insert",
                       !.unused = IF Len(made) = 2 THEN Len(captures) + 1 ELSE 0]
  BY Zenon
<1>17. /\ h \in CallSet /\ h.capture = Len(captures') /\ h.id = i
       /\ h.pc = IF Len(made) = 2 THEN "rest" ELSE "insert"
       /\ h.unused = IF Len(made) = 2 THEN Len(captures) + 1 ELSE 0
  <2>1. thread[t] \in CallSet  BY Zenon DEF Types
  <2>2. /\ Len(captures') \in Nat
        /\ (IF Len(made) = 2 THEN Len(captures) + 1 ELSE 0) \in Nat
        /\ (IF Len(made) = 2 THEN "rest" ELSE "insert") \in {"rest", "insert"}
    BY <1>8, <1>12
  <2> QED  BY <1>1, <1>16, <2>1, <2>2, Zenon DEF CallSet
<1>18. /\ thread' \in [Threads -> CallSet] /\ thread'[t] = h
       /\ \A u \in Threads \ {t} : thread'[u] = thread[u]
  BY <1>5, <1>16, <1>17, CallUpdate, Zenon
<1>19. SearchAt(t)'
  <2>1. /\ thread'[t].id = i /\ thread'[t].capture = Len(captures')
        /\ thread'[t].pc \in {"rest", "insert"}
        /\ thread'[t].pc = "rest" => thread'[t].unused = Len(captures) + 1 /\ Len(made) = 2
    BY <1>17, <1>18, Zenon
  <2>2. thread'[t].pc = "rest" => thread'[t].unused # thread'[t].capture
    <3>1. Len(made) = 2 => Len(captures') = Len(captures) + 2  BY <1>12, Zenon
    <3> QED  BY <1>8, <2>1, <3>1
  <2>3. captures'[Len(captures')].max >= Frames[i]  BY <1>2, <1>7, <1>15
  <2>4. known'[i] = 0 /\ locks'[ShardOf[i]] = t  BY <1>5, <1>6, Zenon
  <2> QED  BY <1>6, <1>15, <2>1, <2>2, <2>3, <2>4, Zenon DEF SearchAt, Searching, Having
<1>20. ASSUME NEW d \in Nat PROVE Limbo(t, d)' <=> d \in Captures' \ Captures
  <2>1. CASE Len(made) = 2
    <3>1. Limbo(t, d)' <=> d = Len(captures) + 2 \/ d = Len(captures) + 1
      BY <1>12, <1>17, <1>18, <2>1, Zenon DEF Limbo, Having
    <3> QED  BY <1>8, <1>13, <2>1, <3>1
  <2>2. CASE Len(made) = 1
    <3>1. Limbo(t, d)' <=> d = Len(captures) + 1
      BY <1>12, <1>17, <1>18, <2>2, Zenon DEF Limbo, Having
    <3> QED  BY <1>8, <1>13, <2>2, <3>1
  <2> QED  BY <1>11, <2>1, <2>2, Zenon
<1>21. thread'[t].pc \in {"rest", "insert"}  BY <1>17, <1>18, Zenon
<1> QED
  BY <1>5, <1>9, <1>12, <1>13, <1>14, <1>18, <1>19, <1>20, <1>21, GrowKeeps, Zenon


-----------------------------------------------------------------------------
(* The lists of reclaimed captures.                                        *)

(* Taking the first capture of a list.                                     *)
LEMMA ListTail ==
  ASSUME NEW s \in Seq(Nat), s # << >>, Distinct(s), NEW c, c = Head(s), NEW r, r = Tail(s)
  PROVE  /\ r \in Seq(Nat) /\ Distinct(r) /\ Has(s, c)
         /\ \A d : Has(r, d) <=> Has(s, d) /\ d # c
<1>1. /\ Len(s) \in Nat /\ 1 \in 1..Len(s) /\ c = s[1]
      /\ r \in Seq(Nat) /\ Len(r) = Len(s) - 1 /\ \A k \in 1..Len(r) : r[k] = s[k + 1]
  OBVIOUS
<1>2. ASSUME NEW k \in 1..Len(r) PROVE k + 1 \in 1..Len(s) /\ k + 1 # 1 /\ r[k] = s[k + 1]
  BY <1>1
<1>3. ASSUME NEW k \in 1..Len(s), k # 1 PROVE k - 1 \in 1..Len(r) /\ r[k - 1] = s[k]
  <2>1. k - 1 \in 1..Len(r) /\ (k - 1) + 1 = k  BY <1>1, <1>3
  <2> QED  BY <1>2, <2>1, Zenon
<1>4. Distinct(r)
  <2>1. ASSUME NEW k \in 1..Len(r), NEW l \in 1..Len(r), r[k] = r[l] PROVE k = l
    <3>1. k + 1 = l + 1  BY <1>2, <2>1 DEF Distinct
    <3> QED  BY <3>1
  <2> QED  BY <2>1, Zenon DEF Distinct
<1>5. \A k \in 1..Len(s) : s[k] = c => k = 1  BY <1>1, Zenon DEF Distinct
<1>6. ASSUME NEW d, Has(r, d) PROVE Has(s, d) /\ d # c
  BY <1>2, <1>5, <1>6, Zenon DEF Has
<1>7. ASSUME NEW d, Has(s, d), d # c PROVE Has(r, d)
  <2>1. PICK k \in 1..Len(s) : s[k] = d /\ k # 1  BY <1>1, <1>7, Zenon DEF Has
  <2> QED  BY <1>3, <2>1, Zenon DEF Has
<1>8. Has(s, c)  BY <1>1, Zenon DEF Has
<1> QED  BY <1>1, <1>4, <1>6, <1>7, <1>8, Zenon

(* Putting a capture at the head of a list.                                *)
LEMMA ListPush ==
  ASSUME NEW s \in Seq(Nat), Distinct(s), NEW c \in Nat, ~Has(s, c), NEW r, r = <<c>> \o s
  PROVE  /\ r \in Seq(Nat) /\ Distinct(r)
         /\ \A d : Has(r, d) <=> Has(s, d) \/ d = c
<1>1. PICK m : m = <<c>>  BY Zenon
<1>2. m \in Seq(Nat) /\ Len(m) = 1 /\ m[1] = c /\ 1 \in 1..Len(m)
  BY <1>1
<1>3. /\ r \in Seq(Nat) /\ Len(r) = Len(m) + Len(s)
      /\ \A j \in 1..Len(m) : r[j] = m[j]
      /\ \A j \in 1..Len(s) : r[Len(m) + j] = s[j]
  <2>1. m \in Seq(Nat) /\ s \in Seq(Nat) /\ r = m \o s  BY <1>1, <1>2, Zenon
  <2> QED  BY <2>1, SeqJoin, SMTT(30)
<1>4. /\ Len(s) \in Nat /\ Len(r) = 1 + Len(s) /\ 1 \in 1..Len(r) /\ r[1] = c
      /\ \A j \in 1..Len(s) : 1 + j \in 1..Len(r) /\ r[1 + j] = s[j]
  BY <1>2, <1>3
<1>5. ASSUME NEW k \in 1..Len(r), k # 1 PROVE k - 1 \in 1..Len(s) /\ r[k] = s[k - 1]
  <2>1. k - 1 \in 1..Len(s) /\ 1 + (k - 1) = k  BY <1>4, <1>5
  <2> QED  BY <1>4, <2>1, Zenon
<1>6. \A k \in 1..Len(r) : r[k] = c => k = 1  BY <1>5, Zenon DEF Has
<1>7. Distinct(r)
  <2>1. ASSUME NEW k \in 1..Len(r), NEW l \in 1..Len(r), r[k] = r[l] PROVE k = l
    <3>1. CASE k = 1  BY <1>4, <1>6, <2>1, <3>1, Zenon
    <3>2. CASE l = 1  BY <1>4, <1>6, <2>1, <3>2, Zenon
    <3>3. CASE k # 1 /\ l # 1
      <4>1. k - 1 = l - 1  BY <1>5, <2>1, <3>3, ZenonT(30) DEF Distinct
      <4> QED  BY <4>1
    <3> QED  BY <3>1, <3>2, <3>3, Zenon
  <2> QED  BY <2>1, Zenon DEF Distinct
<1>8. ASSUME NEW d, Has(r, d) PROVE Has(s, d) \/ d = c
  <2>1. PICK k \in 1..Len(r) : r[k] = d  BY <1>8, Zenon DEF Has
  <2>2. CASE k = 1  BY <1>4, <2>1, <2>2, Zenon
  <2>3. CASE k # 1  BY <1>5, <2>1, <2>3, Zenon DEF Has
  <2> QED  BY <2>2, <2>3, Zenon
<1>9. ASSUME NEW d, Has(s, d) \/ d = c PROVE Has(r, d)
  BY <1>4, <1>9, Zenon DEF Has
<1> QED  BY <1>3, <1>7, <1>8, <1>9, Zenon

(* The list of captures of one size gets or loses c, a capture of its      *)
(* size, and the other lists are not touched.                              *)
LEMMA ListChange ==
  ASSUME Types, ReclaimedOK, NEW n \in 1..kMaxNumFrames, NEW r \in Seq(Nat), Distinct(r),
         reclaimed' = [reclaimed EXCEPT ![n] = r],
         NEW c \in Captures, captures[c].max = n, captures[c].refs = 0,
         \A d : d # c => (Has(r, d) <=> Has(reclaimed[n], d)),
         Captures' = Captures,
         \A d \in Captures : captures'[d].max = captures[d].max /\ captures'[d].refs = captures[d].refs
  PROVE  /\ reclaimed' \in [1..kMaxNumFrames -> Seq(Nat)] /\ ReclaimedOK'
         /\ \A d : d # c => (Listed(d)' <=> Listed(d))
         /\ Listed(c)' <=> Has(r, c)
<1>1. /\ reclaimed' \in [1..kMaxNumFrames -> Seq(Nat)] /\ reclaimed'[n] = r
      /\ \A m \in 1..kMaxNumFrames : m # n => reclaimed'[m] = reclaimed[m]
  BY Zenon DEF Types
<1>2. \A m \in 1..kMaxNumFrames : Has(reclaimed'[m], c) => m = n
  BY <1>1, Zenon DEF ReclaimedOK
<1>3. \A m \in 1..kMaxNumFrames : \A d : d # c => (Has(reclaimed'[m], d) <=> Has(reclaimed[m], d))
  BY <1>1, Zenon
<1>4. ASSUME NEW m \in 1..kMaxNumFrames PROVE Distinct(reclaimed'[m])
  BY <1>1, Zenon DEF ReclaimedOK
<1>5. ASSUME NEW m \in 1..kMaxNumFrames, NEW d, Has(reclaimed'[m], d)
      PROVE  d \in Captures' /\ captures'[d].max = m /\ captures'[d].refs = 0
  <2>1. CASE d = c  BY <1>2, <1>5, <2>1, Zenon
  <2>2. CASE d # c
    <3>1. d \in Captures /\ captures[d].max = m /\ captures[d].refs = 0
      BY <1>3, <1>5, <2>2, Zenon DEF ReclaimedOK
    <3> QED  BY <3>1, Zenon
  <2> QED  BY <2>1, <2>2, Zenon
<1>6. ReclaimedOK'  BY <1>4, <1>5, Zenon DEF ReclaimedOK
<1>7. \A d : d # c => (Listed(d)' <=> Listed(d))  BY <1>3, Zenon DEF Listed
<1>8. Listed(c)' <=> Has(r, c)  BY <1>1, <1>2, Zenon DEF Listed
<1> QED  BY <1>1, <1>6, <1>7, <1>8, Zenon

(* A step of t that moves c, a capture without references that no other    *)
(* thread works on, between t and the lists.                               *)
Moving(t, c) ==
  /\ UNCHANGED <<pages, used, known, locks, held>>
  /\ captures' \in Seq(CaptureSet) /\ Captures' = Captures /\ captures[c].refs = 0
  /\ \A d \in Captures : /\ captures'[d].max = captures[d].max
                         /\ captures'[d].refs = captures[d].refs
                         /\ d # c => captures'[d] = captures[d]
  /\ thread' \in [Threads -> CallSet]
  /\ \A u \in Threads \ {t} : thread'[u] = thread[u]
  /\ thread[t].pc \notin {"saved", "inserted"} /\ thread'[t].pc \notin {"saved", "inserted"}
  /\ SearchAt(t)' /\ ReturnAt(t)'
  /\ reclaimed' \in [1..kMaxNumFrames -> Seq(Nat)] /\ ReclaimedOK'
  /\ \A u \in Threads \ {t} : ~Limbo(u, c)
  /\ \A d \in Nat : d # c => (Listed(d)' <=> Listed(d)) /\ (Limbo(t, d)' <=> Limbo(t, d))
  /\ Listed(c)' <=> ~Limbo(t, c)'

(* It keeps the invariant.                                                 *)
LEMMA MovingKeeps ==
  ASSUME CacheInv, NEW t \in Threads, NEW c \in Captures, Moving(t, c)
  PROVE  CacheInv' /\ CountsFollow
<1>1. Captures' = Captures /\ Captures \subseteq Nat /\ UNCHANGED known
  <2>1. Captures \subseteq Nat  BY CaptureFields, Parts, Zenon
  <2> QED  BY <2>1, Zenon DEF Moving
<1>2. ASSUME NEW d \in Captures
      PROVE  /\ captures'[d].max = captures[d].max /\ captures'[d].refs = captures[d].refs
             /\ captures[d].refs > 0 => captures'[d] = captures[d]
  <2>1. ~(0 > 0)  OBVIOUS
  <2> QED  BY <2>1, Zenon DEF Moving
<1>3. /\ \A u \in Threads \ {t} : thread'[u] = thread[u]
      /\ thread[t].pc \notin {"saved", "inserted"} /\ thread'[t].pc \notin {"saved", "inserted"}
  BY Zenon DEF Moving
<1>4. \A u \in Threads \ {t} : \A d : Limbo(u, d)' <=> Limbo(u, d)
  BY <1>3, OthersLimbo, Zenon
<1>5. /\ \A u \in Threads \ {t} : ~Limbo(u, c)
      /\ \A d \in Nat : d # c => (Listed(d)' <=> Listed(d)) /\ (Limbo(t, d)' <=> Limbo(t, d))
      /\ Listed(c)' <=> ~Limbo(t, c)'
  BY Zenon DEF Moving
<1>6. Types'
  <2>1. Types  BY Parts, Zenon
  <2>2. /\ captures' \in Seq(CaptureSet) /\ thread' \in [Threads -> CallSet]
        /\ reclaimed' \in [1..kMaxNumFrames -> Seq(Nat)]
        /\ UNCHANGED <<pages, used, known, locks, held>>
    BY Zenon DEF Moving
  <2> QED  BY <2>1, <2>2, Zenon DEF Types
<1>7. SearchOK'
  <2>1. SearchOK  BY Parts, Zenon
  <2>2. SearchAt(t)' /\ UNCHANGED locks  BY Zenon DEF Moving
  <2> QED  BY <1>1, <1>2, <1>3, <2>1, <2>2, OthersSearch, Zenon
<1>8. ReturnOK'
  <2>1. ReturnOK  BY Parts, Zenon
  <2>2. ReturnAt(t)'  BY Zenon DEF Moving
  <2> QED  BY <1>1, <1>3, <2>1, <2>2, OthersReturn, Zenon
<1>9. KnownOK'
  <2>1. ASSUME NEW j \in Ids, known[j] # 0
        PROVE  /\ known[j] \in Captures /\ captures'[known[j]] = captures[known[j]]
               /\ captures[known[j]].id = j /\ captures[known[j]].num = Frames[j]
               /\ captures[known[j]].refs > 0
    <3>1. KnownOK  BY Parts, Zenon
    <3>2. /\ known[j] \in Captures /\ captures[known[j]].refs > 0
          /\ captures[known[j]].id = j /\ captures[known[j]].num = Frames[j]
      BY <2>1, <3>1, Zenon DEF KnownOK
    <3> QED  BY <1>2, <3>2, Zenon
  <2> QED  BY <1>1, <2>1, Zenon DEF KnownOK
<1>10. HeldOK'
  <2>1. HeldOK  BY Parts, Zenon
  <2>2. UNCHANGED <<known, held>>  BY Zenon DEF Moving
  <2> QED  BY <2>1, <2>2, Zenon DEF HeldOK
<1>11. ReclaimedOK'  BY Zenon DEF Moving
<1>12. LimboOK'
  <2>1. LimboOK  BY Parts, Zenon
  <2>2. ASSUME NEW u \in Threads, NEW d \in Nat, Limbo(u, d)'
        PROVE  /\ d \in Captures' /\ captures'[d].refs = 0 /\ ~Listed(d)'
               /\ \A v \in Threads : Limbo(v, d)' => v = u
    <3>1. CASE d = c
      <4>1. u = t /\ ~Listed(c)' /\ \A v \in Threads : Limbo(v, d)' => v = u
        BY <1>4, <1>5, <2>2, <3>1, Zenon
      <4>2. captures[c].refs = 0  BY Zenon DEF Moving
      <4> QED  BY <1>1, <1>2, <3>1, <4>1, <4>2, Zenon
    <3>2. CASE d # c
      <4>1. \A v \in Threads : Limbo(v, d)' <=> Limbo(v, d)
        BY <1>4, <1>5, <3>2, Zenon
      <4>2. /\ d \in Captures /\ captures[d].refs = 0 /\ ~Listed(d)
            /\ \A v \in Threads : Limbo(v, d) => v = u
        BY <2>1, <2>2, <4>1, Zenon DEF LimboOK
      <4> QED  BY <1>1, <1>2, <1>5, <3>2, <4>1, <4>2, Zenon
    <3> QED  BY <3>1, <3>2, Zenon
  <2> QED  BY <2>2, Zenon DEF LimboOK
<1>13. PlacesOK'
  <2>1. PlacesOK  BY Parts, Zenon
  <2>2. ASSUME NEW d \in Captures, ~(captures'[d].refs > 0)
        PROVE  Listed(d)' \/ \E u \in Threads : Limbo(u, d)'
    <3>1. CASE d = c  BY <1>5, <3>1, Zenon
    <3>2. CASE d # c
      <4>1. Listed(d) \/ \E u \in Threads : Limbo(u, d)
        BY <1>2, <2>1, <2>2, Zenon DEF PlacesOK
      <4>2. d \in Nat  BY <1>1, Zenon
      <4> QED  BY <1>4, <1>5, <3>2, <4>1, <4>2, Zenon
    <3> QED  BY <3>1, <3>2, Zenon
  <2>3. ASSUME NEW d \in Captures, captures'[d].refs > 0
        PROVE  captures'[d].id \in Ids /\ known'[captures'[d].id] = d
    BY <1>1, <1>2, <2>1, <2>3, Zenon DEF PlacesOK
  <2> QED  BY <1>1, <2>2, <2>3, Zenon DEF PlacesOK
<1>14. CountsOK' /\ CountsFollow
  <2>1. ASSUME NEW j \in Ids, NEW d, known'[j] = d, d # 0
        PROVE  Follows(j, d)
    <3>1. known[j] = d /\ Exact(j, d)  BY <1>1, <2>1, MatchIs, Parts, Zenon
    <3>2. d \in Captures  BY <2>1, <3>1, Parts, Zenon DEF KnownOK
    <3>3. t \notin Returning(d) /\ t \notin Returning(d)'  BY <1>3, ReturningIs, Zenon
    <3>4. Returning(d)' = Returning(d)  BY <1>3, <3>3, ReturningKept, Zenon
    <3>5. Len(held'[j]) = Len(held[j])  BY Zenon DEF Moving
    <3> QED  BY <1>2, <3>1, <3>2, <3>4, <3>5, ExactKept, Zenon
  <2> QED  BY <2>1, MatchIsNext, Zenon
<1> QED
  BY <1>6, <1>7, <1>8, <1>9, <1>10, <1>11, <1>12, <1>13, <1>14, Zenon DEF CacheInv

(* TakeReclaimed takes the first capture of a list that has one.           *)
LEMMA TakeKeeps ==
  ASSUME CacheInv, NEW t \in Threads, TakeReclaimed(t), reclaimed[thread[t].n] # << >>
  PROVE  CacheInv' /\ CountsFollow
<1>0. Types /\ SearchOK /\ ReclaimedOK /\ LimboOK  BY Parts, Zenon
<1>1. PICK n : n = thread[t].n  BY Zenon
<1>2. PICK c : c = Head(reclaimed[n])  BY Zenon
<1>3. PICK r : r = Tail(reclaimed[n])  BY Zenon
<1> DEFINE h == [thread[t] EXCEPT !.pc = "taken", !.capture = c]
<1>4. /\ thread[t].pc = "scan" /\ n <= MaxFrames /\ reclaimed[n] # << >>
      /\ reclaimed' = [reclaimed EXCEPT ![n] = r] /\ Set(t, h)
      /\ UNCHANGED <<captures, pages, used, known, locks, held>>
  BY <1>1, <1>2, <1>3, Zenon DEF TakeReclaimed, At
<1>5. thread[t] \in CallSet /\ n \in Nat
  BY <1>0, <1>1, Zenon DEF Types, CallSet
<1>6. /\ thread[t].id \in Ids /\ known[thread[t].id] = 0
      /\ locks[ShardOf[thread[t].id]] = t /\ n >= Frames[thread[t].id]
  BY <1>0, <1>1, <1>4, Zenon DEF SearchOK, SearchAt, Searching
<1>7. n \in 1..kMaxNumFrames
  <2>1. /\ Frames[thread[t].id] \in 1..kMaxNumFrames /\ kMaxNumFrames \in Nat
        /\ MaxFrames \in 0..kMaxNumFrames
    BY <1>6, CacheAssumption, Zenon
  <2> QED  BY <1>4, <1>5, <1>6, <2>1
<1>8. /\ r \in Seq(Nat) /\ Distinct(r) /\ Has(reclaimed[n], c)
      /\ \A d : Has(r, d) <=> Has(reclaimed[n], d) /\ d # c
  <2>1. reclaimed[n] \in Seq(Nat) /\ Distinct(reclaimed[n])
    BY <1>0, <1>7, Zenon DEF Types, ReclaimedOK
  <2> QED  BY <1>2, <1>3, <1>4, <2>1, ListTail, Zenon
<1>9. c \in Captures /\ captures[c].max = n /\ captures[c].refs = 0 /\ Listed(c)
  BY <1>0, <1>7, <1>8, Zenon DEF ReclaimedOK, Listed
<1>10. c \in Nat  BY <1>0, <1>9, CaptureFields, Zenon
<1>11. h \in CallSet /\ h.pc = "taken" /\ h.id = thread[t].id /\ h.capture = c
  BY <1>5, <1>10, Zenon DEF CallSet
<1> HIDE DEF h
<1>12. /\ thread' \in [Threads -> CallSet] /\ thread'[t] = h
       /\ \A u \in Threads \ {t} : thread'[u] = thread[u]
  BY <1>0, <1>4, <1>11, CallUpdate, Zenon
<1>13. Captures' = Captures /\ captures' = captures  BY <1>4, Zenon DEF Captures
<1>14. /\ reclaimed' \in [1..kMaxNumFrames -> Seq(Nat)] /\ ReclaimedOK'
       /\ \A d : d # c => (Listed(d)' <=> Listed(d))
       /\ Listed(c)' <=> Has(r, c)
  <2>1. reclaimed' = [reclaimed EXCEPT ![n] = r]  BY <1>4, Zenon
  <2> QED  BY <1>0, <1>7, <1>8, <1>9, <1>13, <2>1, ListChange, Zenon
<1>15. \A d : Limbo(t, d)' <=> d = c
  BY <1>11, <1>12, Zenon DEF Limbo, Having
<1>16. \A d : ~Limbo(t, d)
  BY <1>4, Zenon DEF Limbo, Having
<1>17. \A u \in Threads : ~Limbo(u, c)
  BY <1>0, <1>9, <1>10, Zenon DEF LimboOK
<1>18. SearchAt(t)'
  <2>1. /\ thread'[t].pc = "taken" /\ thread'[t].id = thread[t].id /\ thread'[t].capture = c
        /\ UNCHANGED <<known, locks, captures>>
    BY <1>4, <1>11, <1>12, Zenon
  <2>2. captures'[c].max >= Frames[thread[t].id]  BY <1>6, <1>9, <2>1, Zenon
  <2>3. c \in Captures'  BY <1>9, <1>13, Zenon
  <2> QED  BY <1>6, <2>1, <2>2, <2>3, Zenon DEF SearchAt, Searching, Having
<1>19. /\ ReturnAt(t)' /\ thread[t].pc \notin {"saved", "inserted"}
       /\ thread'[t].pc \notin {"saved", "inserted"}
  BY <1>4, <1>11, <1>12, Zenon DEF ReturnAt
<1>20. captures' \in Seq(CaptureSet)  BY <1>0, <1>13, Zenon DEF Types
<1>21. Moving(t, c)
  BY <1>4, <1>8, <1>9, <1>12, <1>13, <1>14, <1>15, <1>16, <1>17, <1>18, <1>19, <1>20, Zenon
  DEF Moving
<1> QED  BY <1>9, <1>21, MovingKeeps, Zenon

(* A step of t that puts a capture t worked on into a list.                *)
Reclaiming(t, c) ==
  /\ Limbo(t, c) /\ AddStackCaptureToReclaimedList(c)
  /\ UNCHANGED <<pages, used, known, locks, held>>
  /\ thread' \in [Threads -> CallSet]
  /\ \A u \in Threads \ {t} : thread'[u] = thread[u]
  /\ thread[t].pc \notin {"saved", "inserted"} /\ thread'[t].pc \notin {"saved", "inserted"}
  /\ Captures' = Captures /\ (\A d \in Captures : captures'[d].max = captures[d].max)
       => SearchAt(t)'
  /\ ReturnAt(t)'
  /\ \A d \in Nat : Limbo(t, d)' <=> Limbo(t, d) /\ d # c

(* AddStackCaptureToReclaimedList of a capture t worked on.                *)
LEMMA ReclaimedKeeps ==
  ASSUME CacheInv, NEW t \in Threads, NEW c \in Nat, Reclaiming(t, c)
  PROVE  CacheInv' /\ CountsFollow
<1>0. Types /\ ReclaimedOK /\ LimboOK  BY Parts, Zenon
<1>1. /\ c \in Captures /\ captures[c].refs = 0 /\ ~Listed(c)
      /\ \A u \in Threads : Limbo(u, c) => u = t
  <2>1. Limbo(t, c)  BY Zenon DEF Reclaiming
  <2> QED  BY <1>0, <2>1, Zenon DEF LimboOK
<1>2. captures[c] \in CaptureSet /\ captures[c].max \in 1..kMaxNumFrames
  BY <1>0, <1>1, CaptureFields, Zenon
<1>3. PICK n \in 1..kMaxNumFrames : n = captures[c].max  BY <1>2, Zenon
<1>4. PICK q : q = [captures[c] EXCEPT !.num = kInvalid]  BY Zenon
<1>5. PICK r : r = <<c>> \o reclaimed[n]  BY Zenon
<1>6. /\ captures' = [captures EXCEPT ![c] = q]
      /\ reclaimed' = [reclaimed EXCEPT ![n] = r]
  <2>1. AddStackCaptureToReclaimedList(c)  BY Zenon DEF Reclaiming
  <2> QED  BY <1>3, <1>4, <1>5, <2>1, Zenon DEF AddStackCaptureToReclaimedList
<1>7. q \in CaptureSet /\ q.max = n /\ q.refs = 0
  BY <1>1, <1>2, <1>3, <1>4, Zenon DEF CaptureSet
<1>8. /\ captures' \in Seq(CaptureSet) /\ Captures' = Captures
      /\ captures'[c] = q /\ \A d \in Captures : d # c => captures'[d] = captures[d]
  BY <1>0, <1>1, <1>6, <1>7, CaptureUpdate, Zenon
<1>9. ASSUME NEW d \in Captures
      PROVE  captures'[d].max = captures[d].max /\ captures'[d].refs = captures[d].refs
  <2>1. CASE d = c  BY <1>1, <1>3, <1>7, <1>8, <2>1, Zenon
  <2>2. CASE d # c  BY <1>8, <2>2, Zenon
  <2> QED  BY <2>1, <2>2, Zenon
<1>10. /\ r \in Seq(Nat) /\ Distinct(r)
       /\ \A d : Has(r, d) <=> Has(reclaimed[n], d) \/ d = c
  <2>1. reclaimed[n] \in Seq(Nat) /\ Distinct(reclaimed[n])
    BY <1>0, <1>3, Zenon DEF Types, ReclaimedOK
  <2>2. ~Has(reclaimed[n], c)  BY <1>1, <1>3, Zenon DEF Listed
  <2> QED  BY <1>5, <2>1, <2>2, ListPush, ZenonT(30)
<1>11. /\ reclaimed' \in [1..kMaxNumFrames -> Seq(Nat)] /\ ReclaimedOK'
       /\ \A d : d # c => (Listed(d)' <=> Listed(d))
       /\ Listed(c)' <=> Has(r, c)
  <2>1. \A d : d # c => (Has(r, d) <=> Has(reclaimed[n], d))  BY <1>10, Zenon
  <2> QED  BY <1>0, <1>1, <1>3, <1>6, <1>8, <1>9, <1>10, <2>1, ListChange, Zenon
<1>12. /\ Listed(c)' /\ ~Limbo(t, c)' /\ \A u \in Threads \ {t} : ~Limbo(u, c)
       /\ \A d \in Nat : d # c => (Limbo(t, d)' <=> Limbo(t, d))
  BY <1>1, <1>10, <1>11, Zenon DEF Reclaiming
<1>13. /\ SearchAt(t)' /\ ReturnAt(t)'
       /\ UNCHANGED <<pages, used, known, locks, held>>
       /\ thread' \in [Threads -> CallSet]
       /\ \A u \in Threads \ {t} : thread'[u] = thread[u]
       /\ thread[t].pc \notin {"saved", "inserted"} /\ thread'[t].pc \notin {"saved", "inserted"}
  BY <1>8, <1>9, Zenon DEF Reclaiming
<1>14. Moving(t, c)
  BY <1>1, <1>8, <1>9, <1>11, <1>12, <1>13, Zenon DEF Moving
<1> QED  BY <1>1, <1>14, MovingKeeps, Zenon


(* The rest of a page goes into a list while the thread keeps the capture  *)
(* it has found.                                                           *)
LEMMA ReclaimRestKeeps ==
  ASSUME CacheInv, NEW t \in Threads, ReclaimRest(t)
  PROVE  CacheInv' /\ CountsFollow
<1> Types /\ SearchOK  BY Parts, Zenon
<1>1. PICK c : c = thread[t].unused  BY Zenon
<1> DEFINE h == [thread[t] EXCEPT !.pc = "count_rest"]
<1>2. /\ thread[t].pc = "rest" /\ AddStackCaptureToReclaimedList(c) /\ Set(t, h)
      /\ UNCHANGED <<pages, used, known, locks, held>>
  BY <1>1, Zenon DEF ReclaimRest, At
<1>3. /\ h \in CallSet /\ h.pc = "count_rest" /\ h.id = thread[t].id
      /\ h.capture = thread[t].capture /\ h.unused = thread[t].unused
      /\ thread[t].unused \in Nat
  <2>1. thread[t] \in CallSet  BY Zenon DEF Types
  <2> QED  BY <2>1, Zenon DEF CallSet
<1> HIDE DEF h
<1>4. /\ thread' \in [Threads -> CallSet] /\ thread'[t] = h
      /\ \A u \in Threads \ {t} : thread'[u] = thread[u]
  BY <1>2, <1>3, CallUpdate, Zenon
<1>5. SearchAt(t)  BY Zenon DEF SearchOK
<1>6. ASSUME Captures' = Captures, \A d \in Captures : captures'[d].max = captures[d].max
      PROVE  SearchAt(t)'
  BY <1>2, <1>3, <1>4, <1>5, <1>6, Zenon DEF SearchAt, Searching, Having
<1>7. c \in Nat /\ Limbo(t, c) /\ thread[t].unused # thread[t].capture
  BY <1>1, <1>2, <1>3, <1>5, Zenon DEF Limbo, SearchAt, Searching, Having
<1>8. \A d \in Nat : Limbo(t, d)' <=> Limbo(t, d) /\ d # c
  BY <1>1, <1>2, <1>3, <1>4, <1>7, Zenon DEF Limbo, Having
<1>9. /\ ReturnAt(t)' /\ thread[t].pc \notin {"saved", "inserted"}
      /\ thread'[t].pc \notin {"saved", "inserted"}
  BY <1>2, <1>3, <1>4, Zenon DEF ReturnAt
<1>10. Reclaiming(t, c)
  BY <1>2, <1>4, <1>6, <1>7, <1>8, <1>9, Zenon DEF Reclaiming
<1> QED  BY <1>7, <1>10, ReclaimedKeeps, Zenon

(* ReleaseStackTrace reclaims the capture of a stack it has forgotten.     *)
LEMMA ReclaimKeeps ==
  ASSUME CacheInv, NEW t \in Threads, Reclaim(t)
  PROVE  CacheInv' /\ CountsFollow
<1> Types /\ ReturnOK  BY Parts, Zenon
<1>1. PICK c : c = thread[t].capture  BY Zenon
<1> DEFINE h == [thread[t] EXCEPT !.pc = "count"]
<1>2. /\ thread[t].pc = "reclaim" /\ AddStackCaptureToReclaimedList(c) /\ Set(t, h)
      /\ UNCHANGED <<pages, used, known, locks, held>>
  BY <1>1, Zenon DEF Reclaim, At
<1>3. /\ h \in CallSet /\ h.pc = "count" /\ thread[t].capture \in Nat
  <2>1. thread[t] \in CallSet  BY Zenon DEF Types
  <2> QED  BY <2>1, Zenon DEF CallSet
<1> HIDE DEF h
<1>4. /\ thread' \in [Threads -> CallSet] /\ thread'[t] = h
      /\ \A u \in Threads \ {t} : thread'[u] = thread[u]
  BY <1>2, <1>3, CallUpdate, Zenon
<1>5. thread[t].last  BY <1>2, Zenon DEF ReturnOK, ReturnAt
<1>6. SearchAt(t)' /\ ReturnAt(t)'
  BY <1>3, <1>4, Zenon DEF SearchAt, Searching, Having, ReturnAt
<1>7. c \in Nat /\ Limbo(t, c)
  BY <1>1, <1>2, <1>3, <1>5, Zenon DEF Limbo
<1>8. \A d \in Nat : Limbo(t, d)' <=> Limbo(t, d) /\ d # c
  BY <1>1, <1>2, <1>3, <1>4, Zenon DEF Limbo, Having
<1>9. /\ thread[t].pc \notin {"saved", "inserted"}
      /\ thread'[t].pc \notin {"saved", "inserted"}
  BY <1>2, <1>3, <1>4, Zenon
<1>10. Reclaiming(t, c)
  BY <1>2, <1>4, <1>6, <1>7, <1>8, <1>9, Zenon DEF Reclaiming
<1> QED  BY <1>7, <1>10, ReclaimedKeeps, Zenon


-----------------------------------------------------------------------------
(* The specification.                                                      *)

(* The empty cache.                                                        *)
LEMMA InitEstablishes == Init => CacheInv
<1> SUFFICES ASSUME Init PROVE CacheInv
  BY Zenon
<1>1. /\ captures = << >> /\ pages = 1 /\ used = 0
      /\ known = [i \in Ids |-> 0] /\ locks = [s \in Shards |-> None]
      /\ reclaimed = [n \in 1..kMaxNumFrames |-> << >>]
      /\ held = [i \in Ids |-> << >>] /\ thread = [t \in Threads |-> NoCall]
  BY Zenon DEF Init
<1>2. NoCall \in CallSet /\ NoCall.pc = "idle"  BY Idle, Zenon
<1>3. \A t \in Threads : thread[t] = NoCall /\ thread[t].pc = "idle"  BY <1>1, <1>2, Zenon
<1>4. Captures = {}  BY <1>1 DEF Captures
<1>5. Types
  <2>1. captures \in Seq(CaptureSet) /\ pages \in Nat /\ used \in 0..DataSize
    BY <1>1, CacheAssumption
  <2>2. known \in [Ids -> Nat] /\ locks \in [Shards -> Threads \union {None}]
    BY <1>1, Zenon
  <2>3. reclaimed \in [1..kMaxNumFrames -> Seq(Nat)] /\ held \in [Ids -> Seq(Nat)]
    BY <1>1
  <2>4. thread \in [Threads -> CallSet]  BY <1>1, <1>2, Zenon
  <2> QED  BY <2>1, <2>2, <2>3, <2>4, Zenon DEF Types
<1>6. SearchOK  BY <1>3, Zenon DEF SearchOK, SearchAt, Searching, Having
<1>7. ReturnOK  BY <1>3, Zenon DEF ReturnOK, ReturnAt
<1>8. KnownOK /\ CountsOK  BY <1>1, Zenon DEF KnownOK, CountsOK
<1>9. HeldOK
  <2>1. \A i \in Ids : Len(held[i]) = 0  BY <1>1, Zenon
  <2> QED  BY <2>1 DEF HeldOK
<1>10. ReclaimedOK
  <2>1. \A n \in 1..kMaxNumFrames : Len(reclaimed[n]) = 0  BY <1>1, Zenon
  <2> QED  BY <2>1 DEF ReclaimedOK, Has, Distinct
<1>11. LimboOK  BY <1>3, Zenon DEF LimboOK, Limbo, Having
<1>12. PlacesOK  BY <1>4, Zenon DEF PlacesOK
<1> QED  BY <1>5, <1>6, <1>7, <1>8, <1>9, <1>10, <1>11, <1>12, Zenon DEF CacheInv

(* Nothing happens.                                                        *)
LEMMA StutterKeeps ==
  ASSUME CacheInv, UNCHANGED vars
  PROVE  CacheInv' /\ CountsFollow
<1>1. UNCHANGED <<captures, pages, used, known, locks, reclaimed, held, thread>>
  BY Zenon DEF vars
<1> /\ Types /\ SearchOK /\ ReturnOK /\ KnownOK /\ HeldOK /\ ReclaimedOK
    /\ LimboOK /\ PlacesOK /\ CountsOK
  BY Parts, Zenon
<1>2. Types'  BY <1>1, Zenon DEF Types
<1>3. Captures' = Captures  BY <1>1, Zenon DEF Captures
<1>4. SearchOK'  BY <1>1, <1>3, Zenon DEF SearchOK, SearchAt
<1>5. ReturnOK'  BY <1>1, Zenon DEF ReturnOK, ReturnAt
<1>6. KnownOK'  BY <1>1, <1>3, Zenon DEF KnownOK
<1>7. HeldOK'  BY <1>1, Zenon DEF HeldOK
<1>8. ReclaimedOK'  BY <1>1, <1>3, Zenon DEF ReclaimedOK
<1>9. \A t \in Threads : \A c : Limbo(t, c)' <=> Limbo(t, c)  BY <1>1, Zenon DEF Limbo
<1>10. \A c : Listed(c)' <=> Listed(c)  BY <1>1, Zenon DEF Listed
<1>11. LimboOK'  BY <1>1, <1>3, <1>9, <1>10, Zenon DEF LimboOK
<1>12. PlacesOK'  BY <1>1, <1>3, <1>9, <1>10, Zenon DEF PlacesOK
<1>13. CountsOK' /\ CountsFollow
  <2>1. ASSUME NEW i \in Ids, NEW c, known'[i] = c, c # 0
        PROVE  Follows(i, c)
    <3>1. known[i] = c /\ Exact(i, c)  BY <1>1, <2>1, MatchIs, Zenon
    <3>2. Returning(c)' = Returning(c)  BY <1>1, Zenon DEF Returning, At
    <3> QED  BY <1>1, <3>1, <3>2, ExactKept, Zenon
  <2> QED  BY <2>1, MatchIsNext, Zenon
<1> QED
  BY <1>2, <1>4, <1>5, <1>6, <1>7, <1>8, <1>11, <1>12, <1>13, Zenon DEF CacheInv

(* Every step keeps the invariant.                                         *)
LEMMA NextKeeps ==
  ASSUME ThreadsAreCounted, CacheInv, [Next]_vars
  PROVE  CacheInv' /\ CountsFollow
<1>1. CASE UNCHANGED vars  BY <1>1, StutterKeeps, Zenon
<1>2. ASSUME NEW t \in Threads, NEW i \in Ids, SaveStackTrace(t, i)
      PROVE  CacheInv' /\ CountsFollow
  BY <1>2, SaveKnownKeeps, BeginSearchKeeps, Zenon
<1>3. ASSUME NEW t \in Threads, NEW i \in Ids, NEW k \in DOMAIN held[i],
             ReleaseStackTrace(t, i, k)
      PROVE  CacheInv' /\ CountsFollow
  BY <1>3, ReleaseOneKeeps, ReleaseLastKeeps, Zenon
<1>4. ASSUME NEW t \in Threads, Step(t)
      PROVE  CacheInv' /\ CountsFollow
  <2>1. CASE TakeReclaimed(t)  BY <2>1, TakeKeeps, TryNextKeeps, Zenon
  <2>2. CASE CountTaken(t) \/ CountRest(t)  BY <2>2, CountFoundKeeps, Zenon
  <2>3. CASE GetNextStackCapture(t)  BY <2>3, GetNextKeeps, Zenon
  <2>4. CASE ReclaimRest(t)  BY <2>4, ReclaimRestKeeps, Zenon
  <2>5. CASE Insert(t)  BY <2>5, InsertKeeps, Zenon
  <2>6. CASE UpdateStatistics(t)  BY <2>6, UpdateStatisticsKeeps, Zenon
  <2>7. CASE UpdateStatisticsOnRelease(t)  BY <2>7, UpdateStatisticsOnReleaseKeeps, Zenon
  <2>8. CASE Reclaim(t)  BY <2>8, ReclaimKeeps, Zenon
  <2>9. CASE CountReclaimed(t)  BY <2>9, CountReclaimedKeeps, Zenon
  <2> QED
    BY <1>4, <2>1, <2>2, <2>3, <2>4, <2>5, <2>6, <2>7, <2>8, <2>9, Zenon DEF Step
<1> QED  BY <1>1, <1>2, <1>3, <1>4, Zenon DEF Next

-----------------------------------------------------------------------------
(* The theorems, and what they use of finite sets.                         *)
INSTANCE FiniteSetTheorems

(* The threads are finitely many.                                          *)
LEMMA ThreadsCounted == ThreadsAreCounted
<1>1. IsFiniteSet(Threads)  BY CacheAssumption, Zenon
<1>2. \A S \in SUBSET Threads : IsFiniteSet(S)  BY <1>1, FS_Subset, Zenon
<1>3. \A S \in SUBSET Threads : Cardinality(S) \in Nat  BY <1>2, FS_CardinalityType, Zenon
<1>4. \A S \in SUBSET Threads : Cardinality(S) = 0 => S = {}  BY <1>2, FS_EmptySet, Zenon
<1>5. \A S \in SUBSET Threads : \A t \in Threads \ S :
        Cardinality(S \union {t}) = Cardinality(S) + 1
  BY <1>2, FS_AddElement, Zenon
<1>6. \A S \in SUBSET Threads : \A t \in S : Cardinality(S \ {t}) = Cardinality(S) - 1
  BY <1>2, FS_RemoveElement, Zenon
<1>7. \A t \in Threads : Cardinality({t}) = 1  BY FS_Singleton, Zenon
<1> QED  BY <1>3, <1>4, <1>5, <1>6, <1>7, Zenon DEF ThreadsAreCounted

(* The invariant of the cache holds in every state: captures are in one    *)
(* place each, and reference counts count, whatever the interleaving of    *)
(* saves, releases and reclamations.                                       *)
THEOREM CacheInvariant == Spec => []CacheInv
<1>1. Init => CacheInv  BY InitEstablishes, Zenon
<1>2. CacheInv /\ [Next]_vars => CacheInv'  BY NextKeeps, ThreadsCounted, Zenon
<1> QED  BY <1>1, <1>2, PTL DEF Spec

(* A reference count is the number of references until that number is      *)
(* MaxRefCount, and stays MaxRefCount from then on.                        *)
THEOREM RefCountsAlwaysMatch == Spec => RefCountsMatch
<1>1. CacheInv /\ [Next]_vars => [CountsFollow]_vars  BY NextKeeps, ThreadsCounted, Zenon
<1> QED  BY <1>1, CacheInvariant, PTL DEF Spec, RefCountsMatch

(* The elements of a sequence, by their indices.                           *)
LEMMA Elements ==
  ASSUME NEW S, NEW s \in Seq(S), NEW x \in Range(s)
  PROVE  \E k \in 1..Len(s) : x = s[k]
BY DEF Range

(* A stack trace that a block refers to stays what it was: its capture is  *)
(* not reclaimed and not reused under another identifier.                  *)
THEOREM ReferencedStacksAlwaysIntact == Spec => []ReferencedStacksAreIntact
<1>1. ASSUME CacheInv PROVE ReferencedStacksAreIntact
  <2>0. Types /\ KnownOK /\ HeldOK  BY <1>1, Parts, Zenon
  <2>1. ASSUME NEW i \in Ids, NEW c \in Range(held[i])
        PROVE  captures[c].id = i /\ captures[c].num = Frames[i] /\ known[i] = c
    <3>1. held[i] \in Seq(Nat)  BY <2>0, Zenon DEF Types
    <3>2. PICK k \in 1..Len(held[i]) : c = held[i][k]  BY <3>1, Elements, Zenon
    <3> QED  BY <2>0, <3>2, Zenon DEF KnownOK, HeldOK
  <2> QED  BY <2>1, Zenon DEF ReferencedStacksAreIntact
<1> QED  BY <1>1, CacheInvariant, PTL


(* A list of reclaimed captures is no longer than the captures are many,   *)
(* as it has no duplicates.                                                *)
LEMMA ListsAreShort ==
  ASSUME CacheInv, NEW n \in 1..kMaxNumFrames
  PROVE  \A k \in 1..Len(reclaimed[n]) : k \in Captures
<1> Types /\ ReclaimedOK  BY Parts, Zenon
<1>1. /\ Captures = 1..Len(captures) /\ Len(captures) \in Nat
      /\ Len(reclaimed[n]) \in Nat
  BY DEF Types, Captures
<1>2. PICK a \in Nat : a = Len(reclaimed[n])  BY <1>1, Zenon
<1>3. PICK b \in Nat : b = Len(captures)  BY <1>1, Zenon
<1>4. /\ IsFiniteSet(1..a) /\ Cardinality(1..a) = a
      /\ IsFiniteSet(1..b) /\ Cardinality(1..b) = b
  BY FS_Interval
<1>5. ~(b < a)
  <2> SUFFICES ASSUME b < a PROVE FALSE
    BY Zenon
  <2>1. PICK f : f = [k \in 1..a |-> reclaimed[n][k]]  BY Zenon
  <2>2. f \in [1..a -> 1..b] /\ \A k \in 1..a : f[k] = reclaimed[n][k]
    <3>1. \A k \in 1..a : reclaimed[n][k] \in 1..b
      BY <1>1, <1>2, <1>3, Zenon DEF ReclaimedOK, Has
    <3> QED  BY <2>1, <3>1, Zenon
  <2>3. \E x, y \in 1..a : x # y /\ f[x] = f[y]
    BY <1>4, <2>2, FS_PigeonHole, SMTT(30)
  <2>4. PICK x \in 1..a, y \in 1..a : x # y /\ f[x] = f[y]  BY <2>3, Zenon
  <2>5. reclaimed[n][x] = reclaimed[n][y]  BY <2>2, <2>4, Zenon
  <2> QED  BY <1>2, <2>4, <2>5, Zenon DEF ReclaimedOK, Distinct
<1>6. \A k \in 1..a : k \in 1..b  BY <1>5
<1> QED  BY <1>1, <1>2, <1>3, <1>6, Zenon

(* Where a capture that is listed, or that a thread works on, is.          *)
LEMMA PlacesOf ==
  ASSUME CacheInv, NEW c \in Captures
  PROVE  /\ \A i \in InKnown(c) : captures[c].refs > 0 /\ i = captures[c].id
         /\ \A p \in InReclaimed(c) : /\ captures[c].refs = 0 /\ Listed(c)
                                      /\ p[1] = captures[c].max
         /\ \A p, q \in InReclaimed(c) : p = q
         /\ InLimbo(c) = {t \in Threads : Limbo(t, c)}
         /\ \A t \in InLimbo(c) : captures[c].refs = 0 /\ ~Listed(c)
         /\ \A t, u \in InLimbo(c) : t = u
<1> Types /\ KnownOK /\ ReclaimedOK /\ LimboOK  BY Parts, Zenon
<1>1. c \in Nat \ {0}  BY CaptureFields, Zenon
<1>2. \A i \in InKnown(c) : captures[c].refs > 0 /\ i = captures[c].id
  BY <1>1, Zenon DEF InKnown, KnownOK
<1>3. ASSUME NEW p \in InReclaimed(c)
      PROVE  /\ p[1] \in 1..kMaxNumFrames /\ p[2] \in 1..Len(reclaimed[p[1]])
             /\ reclaimed[p[1]][p[2]] = c /\ p = <<p[1], p[2]>>
  <2>1. /\ p \in (1..kMaxNumFrames) \X Captures /\ p[2] <= Len(reclaimed[p[1]])
        /\ reclaimed[p[1]][p[2]] = c
    BY Zenon DEF InReclaimed
  <2>2. p[1] \in 1..kMaxNumFrames /\ p[2] \in Captures /\ p = <<p[1], p[2]>>  BY <2>1
  <2>3. p[2] \in Nat \ {0}  BY <2>2, CaptureFields, Zenon
  <2>4. Len(reclaimed[p[1]]) \in Nat  BY <2>2 DEF Types
  <2> QED  BY <2>1, <2>2, <2>3, <2>4, SMTT(30)
<1>4. ASSUME NEW p \in InReclaimed(c)
      PROVE  captures[c].refs = 0 /\ Listed(c) /\ p[1] = captures[c].max
  <2>1. p[1] \in 1..kMaxNumFrames /\ Has(reclaimed[p[1]], c)  BY <1>3, Zenon DEF Has
  <2> QED  BY <2>1, Zenon DEF ReclaimedOK, Listed
<1>5. ASSUME NEW p \in InReclaimed(c), NEW q \in InReclaimed(c) PROVE p = q
  <2>1. p[1] = q[1]  BY <1>4
  <2>2. PICK n \in 1..kMaxNumFrames : n = p[1] /\ n = q[1]  BY <1>3, <2>1, Zenon
  <2>3. PICK k \in 1..Len(reclaimed[n]) : k = p[2] /\ reclaimed[n][k] = c  BY <1>3, <2>2, Zenon
  <2>4. PICK l \in 1..Len(reclaimed[n]) : l = q[2] /\ reclaimed[n][l] = c  BY <1>3, <2>2, ZenonT(30)
  <2>5. k = l  BY <2>3, <2>4, SMTT(30) DEF ReclaimedOK, Distinct
  <2>6. p = <<n, k>> /\ q = <<n, l>>  BY <1>3, <2>2, <2>3, <2>4, Zenon
  <2> QED  BY <2>5, <2>6, Zenon
<1>6. InLimbo(c) = {t \in Threads : Limbo(t, c)}  BY Zenon DEF InLimbo, Limbo, Having
<1>7. \A t \in InLimbo(c) : captures[c].refs = 0 /\ ~Listed(c)
  BY <1>1, <1>6, Zenon DEF LimboOK
<1>8. \A t, u \in InLimbo(c) : t = u
  BY <1>1, <1>6, Zenon DEF LimboOK
<1> QED  BY <1>2, <1>4, <1>5, <1>6, <1>7, <1>8, ZenonT(30)

(* The cardinalities of places.                                            *)
LEMMA Counts ==
  ASSUME NEW A
  PROVE  /\ A = {} => Cardinality(A) = 0
         /\ \A x : A = {x} => Cardinality(A) = 1
BY FS_EmptySet, FS_Singleton, Zenon

(* Every capture is in exactly one place, so none is leaked and none is    *)
(* handed out twice.                                                       *)
THEOREM CapturesAlwaysConserved == Spec => []CapturesAreConserved
<1>1. ASSUME CacheInv PROVE CapturesAreConserved
  <2>0. Types /\ KnownOK /\ ReclaimedOK /\ PlacesOK  BY <1>1, Parts, Zenon
  <2>1. TypeOK
    <3>1. ASSUME NEW c \in Captures
          PROVE  /\ captures[c].max \in 1..kMaxNumFrames
                 /\ captures[c].num \in 0..kMaxNumFrames \union {kInvalid}
                 /\ captures[c].id \in Ids \union {None}
                 /\ captures[c].refs \in 0..MaxRefCount
      <4>1. captures[c] \in CaptureSet  BY <2>0, CaptureFields, Zenon
      <4> QED  BY <4>1, Zenon DEF CaptureSet
    <3>2. known \in [Ids -> Captures \union {0}]
      BY <2>0, Zenon DEF Types, KnownOK
    <3>3. ASSUME NEW n \in 1..kMaxNumFrames PROVE Range(reclaimed[n]) \subseteq Captures
      <4>1. reclaimed[n] \in Seq(Nat)  BY <2>0, Zenon DEF Types
      <4>2. \A x \in Range(reclaimed[n]) : \E k \in 1..Len(reclaimed[n]) : x = reclaimed[n][k]
        BY <4>1, Elements, Zenon
      <4>3. \A x \in Range(reclaimed[n]) : Has(reclaimed[n], x)  BY <4>2, Zenon DEF Has
      <4> QED  BY <2>0, <4>3, Zenon DEF ReclaimedOK
    <3> QED  BY <2>0, <3>1, <3>2, <3>3, Zenon DEF TypeOK, Types
  <2>2. ASSUME NEW c \in Captures
        PROVE  Cardinality(InKnown(c)) + Cardinality(InReclaimed(c)) + Cardinality(InLimbo(c)) = 1
    <3>1. /\ \A i \in InKnown(c) : captures[c].refs > 0 /\ i = captures[c].id
          /\ \A p \in InReclaimed(c) : /\ captures[c].refs = 0 /\ Listed(c)
                                       /\ p[1] = captures[c].max
          /\ \A p, q \in InReclaimed(c) : p = q
          /\ InLimbo(c) = {t \in Threads : Limbo(t, c)}
          /\ \A t \in InLimbo(c) : captures[c].refs = 0 /\ ~Listed(c)
          /\ \A t, u \in InLimbo(c) : t = u
      BY <1>1, PlacesOf, Zenon
    <3>2. captures[c].refs \in Nat /\ c \in Nat  BY <2>0, CaptureFields, SMTT(30)
    <3>3. CASE captures[c].refs > 0
      <4>1. captures[c].id \in InKnown(c)
        BY <2>0, <3>3, Zenon DEF PlacesOK, InKnown
      <4>2. InKnown(c) = {captures[c].id} /\ InReclaimed(c) = {} /\ InLimbo(c) = {}
        BY <3>1, <3>2, <3>3, <4>1, SMTT(30)
      <4>9. Cardinality(InKnown(c)) = 1 /\ Cardinality(InReclaimed(c)) = 0
            /\ Cardinality(InLimbo(c)) = 0
        BY <4>2, Counts, Zenon
      <4> QED  BY <4>9
    <3>4. CASE captures[c].refs = 0 /\ Listed(c)
      <4>1. PICK n \in 1..kMaxNumFrames : \E k \in 1..Len(reclaimed[n]) : reclaimed[n][k] = c
        BY <3>4, Zenon DEF Listed, Has
      <4>2. PICK k \in 1..Len(reclaimed[n]) : reclaimed[n][k] = c  BY <4>1, Zenon
      <4>3. k \in Captures /\ k <= Len(reclaimed[n])  BY <1>1, ListsAreShort
      <4>4. <<n, k>> \in InReclaimed(c)  BY <4>2, <4>3, Zenon DEF InReclaimed
      <4>5. InReclaimed(c) = {<<n, k>>} /\ InKnown(c) = {} /\ InLimbo(c) = {}
        BY <3>1, <3>2, <3>4, <4>4, SMTT(30)
      <4>9. Cardinality(InKnown(c)) = 0 /\ Cardinality(InReclaimed(c)) = 1
            /\ Cardinality(InLimbo(c)) = 0
        BY <4>5, Counts, Zenon
      <4> QED  BY <4>9
    <3>5. CASE captures[c].refs = 0 /\ ~Listed(c)
      <4>1. PICK t \in Threads : Limbo(t, c)  BY <2>0, <3>5, SMTT(30) DEF PlacesOK
      <4>2. InLimbo(c) = {t} /\ InKnown(c) = {} /\ InReclaimed(c) = {}
        BY <3>1, <3>2, <3>5, <4>1, SMTT(30)
      <4>9. Cardinality(InKnown(c)) = 0 /\ Cardinality(InReclaimed(c)) = 0
            /\ Cardinality(InLimbo(c)) = 1
        BY <4>2, Counts, Zenon
      <4> QED  BY <4>9
    <3> QED  BY <3>2, <3>3, <3>4, <3>5, SMTT(30)
  <2>3. ASSUME NEW c \in Captures, NEW p \in InReclaimed(c)
        PROVE  p[1] = captures[c].max /\ captures[c].refs = 0
    BY <1>1, PlacesOf, Zenon
  <2> QED  BY <2>1, <2>2, <2>3, Zenon DEF CapturesAreConserved
<1> QED  BY <1>1, CacheInvariant, PTL

=============================================================================
