------------------------- MODULE SessionLockProofs -------------------------
(***************************************************************************)
(* Type correctness of SessionLock, exact pin counts, the cap, and one     *)
(* critical section per session, for every set of threads and sessions,    *)
(* every sharing of the overflow locks and every cap.                      *)
(***************************************************************************)
EXTENDS SessionLock, FiniteSetTheorems, TLAPS

(* No two threads hold the same MVar. *)
HoldersDistinct ==
  \A t, u \in Inside : lock[t] = lock[u] => t = u

(* The inductive invariant: mutual exclusion alone is not inductive, it    *)
(* follows from every pinning thread holding the registered lock, which in *)
(* turn needs the pin count to be exact.                                   *)
IndInv ==
  /\ TypeOK
  /\ PinsCountHolders
  /\ PinnedLockStays
  /\ NoLeakedLock
  /\ HoldersDistinct
  /\ CapRespected

LEMMA IndInvMutex == IndInv => MutualExclusion
BY DEF IndInv, MutualExclusion, PinnedLockStays, HoldersDistinct, Inside, Pinning

LEMMA InitIndInv == Init => IndInv
<1> SUFFICES ASSUME Init PROVE IndInv
  OBVIOUS
<1>1. \A t \in Threads : pc[t] \notin Pinning /\ pc[t] = "idle"
  BY DEF Init, Pinning
<1>2. TypeOK
  BY MaxStampAssumption, <1>1 DEF Init, TypeOK, PCs, Pinning
<1>3. \A s \in Sessions : PinnedBy(s) = {}
  BY <1>1 DEF PinnedBy
<1>4. Tracked = {} /\ Inside = {}
  BY <1>1 DEF Init, Tracked, Registered, Inside
<1>5. PinsCountHolders
  BY <1>3, FS_EmptySet DEF Init, PinsCountHolders
<1>6. CapRespected
  BY <1>4, FS_EmptySet, CapAssumption DEF Init, CapRespected
<1>7. PinnedLockStays /\ HoldersDistinct /\ NoLeakedLock
  BY <1>1, <1>4 DEF Init, PinnedLockStays, HoldersDistinct, NoLeakedLock
<1>8. QED
  BY <1>2, <1>5, <1>6, <1>7 DEF IndInv

-----------------------------------------------------------------------------
(* A thread that starts or stops pinning changes the count of its own      *)
(* session only, by one.                                                   *)
LEMMA PinnedFinite ==
  ASSUME NEW s \in Sessions
  PROVE  IsFiniteSet(PinnedBy(s)) /\ Cardinality(PinnedBy(s)) \in Nat
BY ThreadsAssumption, FS_Subset, FS_CardinalityType DEF PinnedBy

LEMMA TrackedFinite ==
  /\ IsFiniteSet(Registered) /\ IsFiniteSet(Tracked)
  /\ Cardinality(Tracked) \in Nat /\ Cardinality(Registered) \in Nat
  /\ Cardinality(Tracked) <= Cardinality(Registered)
<1>1. IsFiniteSet(Registered)
  BY SessionsAssumption, FS_Subset DEF Registered
<1>2. Tracked \in SUBSET Registered
  BY DEF Tracked
<1>3. QED
  BY <1>1, <1>2, FS_Subset, FS_CardinalityType

LEMMA ObtainPins ==
  ASSUME TypeOK, NEW t \in Threads, pc[t] \notin Pinning, own[t] \in Sessions,
         NEW l, Obtain(t, l)
  PROVE  \A s \in Sessions :
           Cardinality(PinnedBy(s)') =
             IF s = own[t] THEN Cardinality(PinnedBy(s)) + 1 ELSE Cardinality(PinnedBy(s))
<1> TAKE s \in Sessions
<1>1. pc' = [pc EXCEPT ![t] = "waiting"] /\ own' = own /\ pc \in [Threads -> PCs]
  BY DEF TypeOK, Obtain, Goto, request
<1>2. t \notin PinnedBy(s)
  BY DEF PinnedBy
<1>3. PinnedBy(s)' = IF s = own[t] THEN PinnedBy(s) \cup {t} ELSE PinnedBy(s)
  BY <1>1, <1>2 DEF PinnedBy, Pinning
<1>4. QED
  BY <1>2, <1>3, PinnedFinite, FS_AddElement

(* Obtaining a lock is not yet entering it. *)
LEMMA ObtainHolders ==
  ASSUME IndInv, NEW t \in Threads, pc[t] \notin Pinning, NEW l, Obtain(t, l)
  PROVE  NoLeakedLock' /\ HoldersDistinct'
<1>1. /\ pc' = [pc EXCEPT ![t] = "waiting"] /\ pc \in [Threads -> PCs]
      /\ lock' = [lock EXCEPT ![t] = l] /\ lock \in [Threads -> Locks \cup {NoLock}]
      /\ taken' = taken
  BY DEF IndInv, TypeOK, Obtain, Goto
<1>2. Inside' = Inside /\ t \notin Inside
  BY <1>1 DEF Inside, Pinning
<1>3. \A u \in Inside : lock'[u] = lock[u]
  BY <1>1, <1>2 DEF Inside
<1>4. QED
  BY <1>1, <1>2, <1>3 DEF IndInv, NoLeakedLock, HoldersDistinct

LEMMA ObtainType ==
  ASSUME TypeOK, NEW t \in Threads, pc[t] # "idle", NEW l \in Locks, Obtain(t, l)
  PROVE  /\ counter' \in 0..MaxStamp
         /\ taken' \subseteq Locks
         /\ pc' \in [Threads -> PCs]
         /\ own' \in [Threads -> Sessions \cup {NoSession}]
         /\ stamp' \in [Threads -> Nat]
         /\ lock' \in [Threads -> Locks \cup {NoLock}]
         /\ cands' \in [Threads -> SUBSET Candidate]
         /\ victim' \in [Threads -> Candidate \cup {NoVictim}]
         /\ \A u \in Threads :
              /\ pc'[u] # "idle" => own'[u] \in Sessions /\ stamp'[u] \in Stamps
              /\ pc'[u] \in Pinning => lock'[u] \in Locks
              /\ pc'[u] = "swap" => victim'[u] \in Candidate
BY DEF TypeOK, Obtain, Goto, EndSearch, request, PCs, Pinning

(* pinEntry on the registered entry of t's session. *)
LEMMA PinExistingInv ==
  ASSUME IndInv, NEW t \in Threads, pc[t] \notin Pinning, pc[t] # "idle",
         PinExisting(t)
  PROVE  IndInv'
<1>1. /\ TypeOK /\ own[t] \in Sessions /\ stamp[t] \in Nat
      /\ lockOf[own[t]] \in Locks
      /\ Obtain(t, lockOf[own[t]])
  BY DEF IndInv, TypeOK, PinExisting
<1>2. /\ pc' = [pc EXCEPT ![t] = "waiting"] /\ own' = own
      /\ lock' = [lock EXCEPT ![t] = lockOf[own[t]]]
      /\ lockOf' = lockOf /\ overflow' = overflow
      /\ pins' = [pins EXCEPT ![own[t]] = @ + 1]
      /\ lastUsed' = [lastUsed EXCEPT ![own[t]] = stamp[t]]
  BY <1>1 DEF PinExisting, Obtain, Goto, request
<1>3. TypeOK'
  BY <1>1, <1>2, ObtainType DEF TypeOK
<1>4. NoLeakedLock' /\ HoldersDistinct'
  BY <1>1, ObtainHolders
<1>5. PinsCountHolders'
  BY <1>1, <1>2, ObtainPins DEF IndInv, TypeOK, PinsCountHolders
<1>6. PinnedLockStays'
  BY <1>1, <1>2 DEF IndInv, TypeOK, PinnedLockStays
<1>7. CapRespected'
  <2>1. Tracked' = Tracked
    BY <1>2 DEF Tracked, Registered
  <2>2. \A s \in Sessions : overflow'[s] => pins'[s] > 0
    BY <1>1, <1>2 DEF IndInv, TypeOK, CapRespected
  <2>3. QED
    BY <2>1, <2>2 DEF IndInv, CapRespected
<1>8. QED
  BY <1>3, <1>4, <1>5, <1>6, <1>7 DEF IndInv

(* A new entry: there is room, or it goes above the cap, or it replaces    *)
(* one unpinned entry.                                                     *)
RoomFor(isOverflow, evicted) ==
  \/ isOverflow /\ evicted = {}
  \/ ~isOverflow /\ evicted = {} /\ ~Full
  \/ ~isOverflow /\ \E v \in Registered : pins[v] = 0 /\ evicted = {v}

LEMMA RegisterInv ==
  ASSUME IndInv, NEW t \in Threads, pc[t] \notin Pinning, pc[t] # "idle",
         lockOf[own[t]] = NoLock,
         NEW l \in Locks, NEW isOverflow \in BOOLEAN, NEW evicted,
         RoomFor(isOverflow, evicted), Register(t, l, isOverflow, evicted),
         NoLock \notin Locks
  PROVE  IndInv'
<1>1. /\ TypeOK /\ own[t] \in Sessions /\ stamp[t] \in Nat /\ Obtain(t, l)
      /\ \A v \in evicted : v \in Sessions /\ pins[v] = 0 /\ v # own[t]
  BY DEF IndInv, TypeOK, Register, RoomFor, Registered
<1>2. /\ pc' = [pc EXCEPT ![t] = "waiting"] /\ own' = own
      /\ lock' = [lock EXCEPT ![t] = l]
  BY <1>1 DEF Obtain, Goto, request
<1>3. \A s \in Sessions :
        /\ lockOf'[s] = IF s = own[t] THEN l ELSE IF s \in evicted THEN NoLock ELSE lockOf[s]
        /\ pins'[s] = IF s = own[t] THEN 1 ELSE IF s \in evicted THEN 0 ELSE pins[s]
        /\ overflow'[s] <=> IF s = own[t] THEN isOverflow
                                         ELSE s \notin evicted /\ overflow[s]
  BY DEF Register
<1>4. TypeOK'
  BY <1>1, ObtainType DEF TypeOK, Register
<1>5. NoLeakedLock' /\ HoldersDistinct'
  BY <1>1, ObtainHolders
(* An entry without pins, or a session without an entry, has no pinner. *)
<1>6. \A s \in Sessions : pins[s] = 0 => PinnedBy(s) = {}
  BY PinnedFinite, FS_EmptySet DEF IndInv, PinsCountHolders
<1>7. \A u \in Threads : pc[u] \in Pinning => own[u] \in Sessions /\ lockOf[own[u]] \in Locks
  BY DEF IndInv, TypeOK, PinnedLockStays, Pinning
<1>8. PinnedBy(own[t]) = {}
  BY <1>1, <1>7 DEF PinnedBy
<1>9. PinsCountHolders'
  <2>1. Cardinality(PinnedBy(own[t])) = 0
    BY <1>8, FS_EmptySet
  <2>2. QED
    BY <1>1, <1>3, <2>1, ObtainPins DEF IndInv, TypeOK, PinsCountHolders
<1>10. PinnedLockStays'
  <2> SUFFICES ASSUME NEW u \in Threads, pc'[u] \in Pinning
               PROVE  lockOf'[own[u]] = lock'[u]
    BY <1>2 DEF PinnedLockStays
  <2>1. CASE u = t
    BY <1>1, <1>2, <1>3, <2>1 DEF IndInv, TypeOK
  <2>2. CASE u # t
    <3>1. pc[u] \in Pinning /\ own[u] \in Sessions /\ lock'[u] = lock[u]
      BY <1>1, <1>2, <1>7, <2>2 DEF TypeOK
    <3>2. u \in PinnedBy(own[u])
      BY <3>1 DEF PinnedBy
    <3>3. own[u] # own[t] /\ own[u] \notin evicted
      BY <1>1, <1>6, <1>8, <3>2
    <3>4. QED
      BY <1>3, <3>1, <3>3 DEF IndInv, PinnedLockStays
  <2>3. QED
    BY <2>1, <2>2
<1>11. CapRespected'
  <2>1. \A s \in Sessions : overflow'[s] => pins'[s] > 0
    BY <1>3 DEF IndInv, CapRespected
  <2>2. Tracked' = (Tracked \ evicted) \cup (IF isOverflow THEN {} ELSE {own[t]})
    BY <1>1, <1>3 DEF Tracked, Registered
  <2>3. Cardinality(Tracked) <= Cap
    BY DEF IndInv, CapRespected
  <2>4. own[t] \notin Tracked
    BY DEF Tracked, Registered
  <2>5. CASE isOverflow /\ evicted = {}
    <3>1. Tracked' = Tracked
      BY <2>2, <2>5
    <3>2. QED
      BY <2>1, <2>3, <3>1 DEF CapRespected
  <2>6. CASE ~isOverflow /\ evicted = {} /\ ~Full
    <3>1. Tracked' = Tracked \cup {own[t]}
      BY <2>2, <2>6
    <3>2. Cardinality(Tracked') = Cardinality(Tracked) + 1
      BY <2>4, <3>1, TrackedFinite, FS_AddElement
    <3>3. Cardinality(Tracked') <= Cap
      BY <2>6, <3>2, TrackedFinite, CapAssumption DEF Full
    <3>4. QED
      BY <2>1, <3>3 DEF CapRespected
  <2>7. CASE ~isOverflow /\ \E v \in Registered : pins[v] = 0 /\ evicted = {v}
    <3>1. PICK v \in Registered : pins[v] = 0 /\ evicted = {v}
      BY <2>7
    <3>2. v \in Tracked
      BY <3>1 DEF IndInv, CapRespected, Tracked, Registered
    <3>3. Tracked' = (Tracked \ {v}) \cup {own[t]}
      BY <2>2, <2>7, <3>1
    <3>4. IsFiniteSet(Tracked \ {v}) /\ Cardinality(Tracked \ {v}) = Cardinality(Tracked) - 1
      BY <3>2, TrackedFinite, FS_RemoveElement
    <3>5. Cardinality(Tracked') = (Cardinality(Tracked) - 1) + 1
      <4>1. own[t] \notin Tracked \ {v}
        BY <2>4
      <4>2. QED
        BY <3>3, <3>4, <4>1, FS_AddElement
    <3>6. QED
      BY <2>1, <2>3, <3>5, TrackedFinite DEF CapRespected
  <2>8. QED
    BY <2>5, <2>6, <2>7 DEF RoomFor
<1>12. QED
  BY <1>4, <1>5, <1>9, <1>10, <1>11 DEF IndInv

-----------------------------------------------------------------------------
LEMMA LockNames ==
  /\ NoLock \notin Locks
  /\ \A n \in Stamps : Private(n) \in Locks
  /\ \A s \in Sessions : Shared(s) \in Locks
<1>1. NoLock \notin Locks
  BY DEF NoLock, Locks, Private, Shared
<1>2. QED
  BY <1>1 DEF Locks

(* Steps that touch neither the registry nor a lock: the invariant only    *)
(* needs the locals to keep their types.                                   *)
LEMMA SearchStepInv ==
  ASSUME IndInv, TypeOK', NEW t \in Threads,
         pc[t] \notin Pinning, pc'[t] \notin Pinning,
         \A u \in Threads \ {t} : pc'[u] = pc[u] /\ own'[u] = own[u] /\ lock'[u] = lock[u],
         UNCHANGED <<lockOf, pins, overflow, taken>>
  PROVE  IndInv'
<1>1. /\ \A u \in Threads : pc'[u] \in Pinning <=> pc[u] \in Pinning
      /\ \A u \in Threads : pc'[u] = "critical" <=> pc[u] = "critical"
      /\ \A u \in Threads : pc[u] \in Pinning => own'[u] = own[u] /\ lock'[u] = lock[u]
  BY DEF Pinning
<1>2. Inside' = Inside /\ \A u \in Inside : lock'[u] = lock[u] /\ u \in Threads
  BY <1>1 DEF Inside, Pinning
<1>3. \A s \in Sessions : PinnedBy(s)' = PinnedBy(s)
  BY <1>1 DEF PinnedBy
<1>4. PinsCountHolders'
  BY <1>3 DEF IndInv, PinsCountHolders
<1>5. PinnedLockStays'
  BY <1>1 DEF IndInv, PinnedLockStays
<1>6. NoLeakedLock' /\ HoldersDistinct'
  BY <1>2 DEF IndInv, NoLeakedLock, HoldersDistinct
<1>7. Tracked' = Tracked
  BY DEF Tracked, Registered
<1>8. CapRespected'
  BY <1>7 DEF IndInv, CapRespected
<1>9. QED
  BY <1>4, <1>5, <1>6, <1>8 DEF IndInv

LEMMA InsertTrackedInv ==
  ASSUME IndInv, NEW t \in Threads, pc[t] \notin Pinning, pc[t] # "idle",
         NEW next \in {"snapshot", "overflow"}, InsertTracked(t, next)
  PROVE  IndInv'
<1>1. CASE PinExisting(t)
  BY <1>1, PinExistingInv
<1>2. CASE lockOf[own[t]] = NoLock /\ ~Full /\ Register(t, Private(stamp[t]), FALSE, {})
  <2>1. Private(stamp[t]) \in Locks /\ NoLock \notin Locks
    BY LockNames DEF IndInv, TypeOK
  <2>2. RoomFor(FALSE, {})
    BY <1>2 DEF RoomFor
  <2>3. QED
    BY <1>2, <2>1, <2>2, RegisterInv
<1>3. CASE /\ lockOf[own[t]] = NoLock /\ Full /\ Goto(t, next)
           /\ UNCHANGED <<registry, counter, taken, request, lock, search>>
  <2>1. TypeOK'
    BY <1>3 DEF IndInv, TypeOK, Goto, registry, request, search, PCs, Pinning
  <2>2. /\ pc'[t] \notin Pinning
        /\ \A u \in Threads \ {t} : pc'[u] = pc[u] /\ own'[u] = own[u] /\ lock'[u] = lock[u]
        /\ UNCHANGED <<lockOf, pins, overflow, taken>>
    BY <1>3 DEF IndInv, TypeOK, Goto, registry, request, Pinning
  <2>3. QED
    BY <2>1, <2>2, SearchStepInv
<1>4. QED
  BY <1>1, <1>2, <1>3 DEF InsertTracked

LEMMA AcquireInv ==
  ASSUME IndInv, NEW t \in Threads, Acquire(t)
  PROVE  IndInv'
<1>1. /\ TypeOK /\ pc[t] \notin Pinning /\ pc[t] # "idle"
      /\ own[t] \in Sessions /\ stamp[t] \in Stamps
  BY DEF IndInv, TypeOK, Pinning, Acquire, Lookup, Insert, Snapshot, ChooseVictim,
         Swap, Retry, Overflow
<1>2. Private(stamp[t]) \in Locks /\ Shared(own[t]) \in Locks /\ NoLock \notin Locks
  BY <1>1, LockNames
<1>3. CASE Lookup(t)
  <2>1. CASE PinExisting(t)
    BY <1>1, <2>1, PinExistingInv
  <2>2. CASE /\ Goto(t, "insert")
             /\ UNCHANGED <<registry, counter, taken, request, lock, search>>
    <3>1. TypeOK'
      BY <1>1, <2>2 DEF TypeOK, Goto, registry, request, search, PCs, Pinning
    <3>2. /\ pc'[t] \notin Pinning
          /\ \A u \in Threads \ {t} : pc'[u] = pc[u] /\ own'[u] = own[u] /\ lock'[u] = lock[u]
          /\ UNCHANGED <<lockOf, pins, overflow, taken>>
      BY <1>1, <2>2 DEF TypeOK, Goto, registry, request, Pinning
    <3>3. QED
      BY <1>1, <3>1, <3>2, SearchStepInv
  <2>3. QED
    BY <1>3, <2>1, <2>2 DEF Lookup
<1>4. CASE Insert(t)
  BY <1>1, <1>4, InsertTrackedInv DEF Insert
<1>5. CASE Snapshot(t)
  <2>1. {[session |-> s, lastUsed |-> lastUsed[s], lock |-> lockOf[s]] :
           s \in {x \in Registered : pins[x] = 0}} \in SUBSET Candidate
    BY <1>1 DEF TypeOK, Candidate, Registered
  <2>2. TypeOK'
    BY <1>1, <1>5, <2>1 DEF TypeOK, Snapshot, Goto, registry, request, PCs, Pinning
  <2>3. /\ pc'[t] \notin Pinning
        /\ \A u \in Threads \ {t} : pc'[u] = pc[u] /\ own'[u] = own[u] /\ lock'[u] = lock[u]
        /\ UNCHANGED <<lockOf, pins, overflow, taken>>
    BY <1>1, <1>5 DEF TypeOK, Snapshot, Goto, registry, request, Pinning
  <2>4. QED
    BY <1>1, <2>2, <2>3, SearchStepInv
<1>6. CASE ChooseVictim(t)
  <2>1. TypeOK'
    BY <1>1, <1>6 DEF TypeOK, ChooseVictim, Goto, registry, request, search, PCs, Pinning
  <2>2. /\ pc'[t] \notin Pinning
        /\ \A u \in Threads \ {t} : pc'[u] = pc[u] /\ own'[u] = own[u] /\ lock'[u] = lock[u]
        /\ UNCHANGED <<lockOf, pins, overflow, taken>>
    BY <1>1, <1>6 DEF TypeOK, ChooseVictim, Goto, registry, request, Pinning
  <2>3. QED
    BY <1>1, <2>1, <2>2, SearchStepInv
<1>7. CASE Swap(t)
  <2>1. CASE PinExisting(t)
    BY <1>1, <2>1, PinExistingInv
  <2>2. CASE /\ lockOf[own[t]] = NoLock /\ Evictable(victim[t])
             /\ Register(t, Private(stamp[t]), FALSE, {victim[t].session})
    <3>1. RoomFor(FALSE, {victim[t].session})
      BY <2>2 DEF RoomFor, Evictable
    <3>2. QED
      BY <1>1, <1>2, <2>2, <3>1, RegisterInv
  <2>3. CASE /\ victim' = [victim EXCEPT ![t] = NoVictim] /\ Goto(t, "choose")
             /\ UNCHANGED <<registry, counter, taken, request, lock, cands>>
    <3>1. TypeOK'
      BY <1>1, <2>3 DEF TypeOK, Goto, registry, request, PCs, Pinning
    <3>2. /\ pc'[t] \notin Pinning
          /\ \A u \in Threads \ {t} : pc'[u] = pc[u] /\ own'[u] = own[u] /\ lock'[u] = lock[u]
          /\ UNCHANGED <<lockOf, pins, overflow, taken>>
      BY <1>1, <2>3 DEF TypeOK, Goto, registry, request, Pinning
    <3>3. QED
      BY <1>1, <3>1, <3>2, SearchStepInv
  <2>4. QED
    BY <1>7, <2>1, <2>2, <2>3 DEF Swap
<1>8. CASE Retry(t)
  BY <1>1, <1>8, InsertTrackedInv DEF Retry
<1>9. CASE Overflow(t)
  <2>1. CASE PinExisting(t)
    BY <1>1, <2>1, PinExistingInv
  <2>2. CASE lockOf[own[t]] = NoLock /\ Register(t, Shared(own[t]), TRUE, {})
    <3>1. RoomFor(TRUE, {})
      BY DEF RoomFor
    <3>2. QED
      BY <1>1, <1>2, <2>2, <3>1, RegisterInv
  <2>3. QED
    BY <1>9, <2>1, <2>2 DEF Overflow
<1>10. QED
  BY <1>3, <1>4, <1>5, <1>6, <1>7, <1>8, <1>9 DEF Acquire

LEMMA RequestInv ==
  ASSUME IndInv, NEW t \in Threads, NEW s \in Sessions, Request(t, s)
  PROVE  IndInv'
<1>1. TypeOK'
  BY MaxStampAssumption DEF IndInv, TypeOK, Request, Goto, registry, search, PCs, Pinning, Stamps
<1>2. /\ pc[t] \notin Pinning /\ pc'[t] \notin Pinning
      /\ \A u \in Threads \ {t} : pc'[u] = pc[u] /\ own'[u] = own[u] /\ lock'[u] = lock[u]
      /\ UNCHANGED <<lockOf, pins, overflow, taken>>
  BY DEF IndInv, TypeOK, Request, Goto, registry, Pinning
<1>3. QED
  BY <1>1, <1>2, SearchStepInv

LEMMA KillBeforeOverflowInv ==
  ASSUME IndInv, NEW t \in Threads, KillBeforeOverflow(t)
  PROVE  IndInv'
<1>1. TypeOK'
  BY DEF IndInv, TypeOK, KillBeforeOverflow, Return, EndSearch, Goto, registry, PCs, Pinning
<1>2. /\ pc[t] \notin Pinning /\ pc'[t] \notin Pinning
      /\ \A u \in Threads \ {t} : pc'[u] = pc[u] /\ own'[u] = own[u] /\ lock'[u] = lock[u]
      /\ UNCHANGED <<lockOf, pins, overflow, taken>>
  BY DEF IndInv, TypeOK, KillBeforeOverflow, Return, Goto, registry, Pinning
<1>3. QED
  BY <1>1, <1>2, SearchStepInv

(* A step between two pinning labels changes no count and no entry. *)
LEMMA PinningStepInv ==
  ASSUME IndInv, NEW t \in Threads, NEW label \in Pinning, pc[t] \in Pinning,
         Goto(t, label), UNCHANGED <<registry, counter, request, lock, search>>,
         taken' \subseteq Locks, NoLeakedLock', HoldersDistinct'
  PROVE  IndInv'
<1>1. /\ UNCHANGED <<lockOf, lastUsed, pins, overflow, counter, own, stamp, lock, cands, victim>>
      /\ pc' = [pc EXCEPT ![t] = label] /\ pc \in [Threads -> PCs]
  BY DEF IndInv, TypeOK, Goto, registry, request, search
<1>2. label # "idle" /\ label # "swap" /\ pc[t] # "idle" /\ label \in PCs
  BY DEF Pinning, PCs
<1>3. \A u \in Threads : pc'[u] \in Pinning <=> pc[u] \in Pinning
  BY <1>1
<1>4. TypeOK'
  BY <1>1, <1>2, <1>3 DEF IndInv, TypeOK
<1>5. \A s \in Sessions : PinnedBy(s)' = PinnedBy(s)
  BY <1>1, <1>3 DEF PinnedBy
<1>6. Tracked' = Tracked
  BY <1>1 DEF Tracked, Registered
<1>7. PinsCountHolders' /\ PinnedLockStays' /\ CapRespected'
  BY <1>1, <1>3, <1>5, <1>6 DEF IndInv, PinsCountHolders, PinnedLockStays, CapRespected
<1>8. QED
  BY <1>4, <1>7 DEF IndInv

LEMMA EnterInv ==
  ASSUME IndInv, NEW t \in Threads, Enter(t)
  PROVE  IndInv'
<1>1. /\ pc[t] \in Pinning /\ "critical" \in Pinning /\ lock[t] \in Locks
      /\ pc' = [pc EXCEPT ![t] = "critical"] /\ pc \in [Threads -> PCs] /\ lock' = lock
  BY DEF IndInv, TypeOK, Enter, Goto, Pinning
<1>2. Inside' = Inside \cup {t}
  BY <1>1 DEF Inside
<1>3. NoLeakedLock'
  BY <1>1, <1>2 DEF IndInv, NoLeakedLock, Enter
<1>4. \A u \in Inside : lock[u] # lock[t]
  BY DEF IndInv, NoLeakedLock, Enter
<1>5. HoldersDistinct'
  BY <1>1, <1>2, <1>4 DEF IndInv, HoldersDistinct
<1>6. taken' \subseteq Locks
  BY <1>1 DEF IndInv, TypeOK, Enter
<1>7. QED
  BY <1>1, <1>3, <1>5, <1>6, PinningStepInv DEF Enter

LEMMA KillWaitingInv ==
  ASSUME IndInv, NEW t \in Threads, KillWaiting(t)
  PROVE  IndInv'
<1>1. /\ pc[t] \in Pinning /\ "unpin" \in Pinning /\ pc[t] # "critical"
      /\ pc' = [pc EXCEPT ![t] = "unpin"] /\ pc \in [Threads -> PCs] /\ lock' = lock
      /\ taken' = taken /\ taken' \subseteq Locks
  BY DEF IndInv, TypeOK, KillWaiting, Goto, Pinning
<1>2. Inside' = Inside
  BY <1>1 DEF Inside
<1>3. NoLeakedLock' /\ HoldersDistinct'
  BY <1>1, <1>2 DEF IndInv, NoLeakedLock, HoldersDistinct
<1>4. QED
  BY <1>1, <1>3, PinningStepInv DEF KillWaiting

LEMMA LeaveInv ==
  ASSUME IndInv, NEW t \in Threads, Leave(t)
  PROVE  IndInv'
<1>1. /\ pc[t] \in Pinning /\ "unpin" \in Pinning /\ t \in Inside
      /\ pc' = [pc EXCEPT ![t] = "unpin"] /\ pc \in [Threads -> PCs] /\ lock' = lock
      /\ taken' = taken \ {lock[t]} /\ taken' \subseteq Locks
  BY DEF IndInv, TypeOK, Leave, Goto, Pinning, Inside
<1>2. Inside' = Inside \ {t}
  BY <1>1 DEF Inside
<1>3. \A u \in Inside \ {t} : lock[u] # lock[t]
  BY <1>1 DEF IndInv, HoldersDistinct
<1>4. NoLeakedLock'
  BY <1>1, <1>2, <1>3 DEF IndInv, NoLeakedLock
<1>5. HoldersDistinct'
  BY <1>1, <1>2 DEF IndInv, HoldersDistinct
<1>6. QED
  BY <1>1, <1>4, <1>5, PinningStepInv DEF Leave

(* The last pin of an overflow entry takes the entry with it; every other  *)
(* release leaves the entry and gives back one pin.                        *)
LEMMA UnpinInv ==
  ASSUME IndInv, NEW t \in Threads, Unpin(t)
  PROVE  IndInv'
<1>0. PICK me \in Sessions : me = own[t]
  BY DEF IndInv, TypeOK, Unpin
<1>1. /\ TypeOK /\ me = own[t] /\ pc[t] = "unpin" /\ pc[t] \in Pinning /\ lockOf[me] # NoLock
      /\ taken' = taken
      /\ pc' = [pc EXCEPT ![t] = "idle"] /\ own' = [own EXCEPT ![t] = NoSession]
      /\ lock' = [lock EXCEPT ![t] = NoLock]
  BY <1>0, LockNames DEF IndInv, TypeOK, Unpin, Return, Goto, Pinning, PinnedLockStays
<1>2. TypeOK'
  <2>1. /\ lockOf' \in [Sessions -> Locks \cup {NoLock}]
        /\ lastUsed' \in [Sessions -> Nat]
        /\ pins' \in [Sessions -> Nat]
        /\ overflow' \in [Sessions -> BOOLEAN]
    <3>1. CASE overflow[me] /\ pins[me] <= 1
      <4>1. /\ lockOf' = [lockOf EXCEPT ![me] = NoLock]
            /\ lastUsed' = [lastUsed EXCEPT ![me] = 0]
            /\ pins' = [pins EXCEPT ![me] = 0]
            /\ overflow' = [overflow EXCEPT ![me] = FALSE]
        BY <1>1, <3>1 DEF Unpin, ReleaseEntry
      <4>2. QED
        BY <1>1, <4>1 DEF TypeOK
    <3>2. CASE ~(overflow[me] /\ pins[me] <= 1)
      <4>1. pins' = [pins EXCEPT ![me] = IF pins[me] >= 1 THEN pins[me] - 1 ELSE 0]
        BY <1>1, <3>2 DEF Unpin, ReleaseEntry
      <4>2. UNCHANGED <<lockOf, lastUsed, overflow>>
        BY <1>1, <3>2 DEF Unpin, ReleaseEntry
      <4>3. QED
        BY <1>1, <4>1, <4>2 DEF TypeOK
    <3>3. QED
      BY <3>1, <3>2
  <2>2. QED
    BY <1>1, <2>1 DEF TypeOK, Unpin, Return, EndSearch, Goto, PCs, Pinning
<1>3. \A u \in Threads : pc'[u] \in Pinning <=> u # t /\ pc[u] \in Pinning
  BY <1>1 DEF TypeOK, Pinning
<1>4. \A u \in Threads \ {t} : own'[u] = own[u] /\ lock'[u] = lock[u]
  BY <1>1 DEF TypeOK
<1>5. /\ t \in PinnedBy(me) /\ PinnedBy(me)' = PinnedBy(me) \ {t}
      /\ \A s \in Sessions \ {me} : PinnedBy(s)' = PinnedBy(s)
  BY <1>1, <1>3, <1>4 DEF PinnedBy
<1>6. /\ pins[me] = Cardinality(PinnedBy(me)) /\ pins[me] \in Nat
      /\ Cardinality(PinnedBy(me)') = pins[me] - 1
  <2>1. pins[me] = Cardinality(PinnedBy(me)) /\ IsFiniteSet(PinnedBy(me))
    BY PinnedFinite DEF IndInv, PinsCountHolders
  <2>2. Cardinality(PinnedBy(me) \ {t}) = Cardinality(PinnedBy(me)) - 1
    BY <1>5, <2>1, FS_RemoveElement
  <2>3. QED
    BY <1>5, <2>1, <2>2, PinnedFinite
<1>7. pins[me] >= 1
  <2>1. PinnedBy(me) # {}
    BY <1>5
  <2>2. QED
    BY <1>1, <1>6, <2>1, PinnedFinite, FS_EmptySet
<1>8. /\ pins' = [pins EXCEPT ![me] = pins[me] - 1]
      /\ \A s \in Sessions \ {me} : lockOf'[s] = lockOf[s] /\ (overflow'[s] <=> overflow[s])
  <2>1. CASE overflow[me] /\ pins[me] <= 1
    BY <1>1, <1>6, <1>7, <2>1 DEF TypeOK, Unpin, ReleaseEntry
  <2>2. CASE ~(overflow[me] /\ pins[me] <= 1)
    BY <1>1, <1>6, <1>7, <2>2 DEF TypeOK, Unpin, ReleaseEntry
  <2>3. QED
    BY <2>1, <2>2
<1>9. PinsCountHolders'
  <2> SUFFICES ASSUME NEW s \in Sessions
               PROVE  pins'[s] = Cardinality(PinnedBy(s)')
    BY DEF PinsCountHolders
  <2>1. pins \in [Sessions -> Nat]
    BY <1>1 DEF TypeOK
  <2>2. CASE s = me
    BY <1>6, <1>8, <2>1, <2>2
  <2>3. CASE s # me
    <3>1. pins'[s] = pins[s]
      BY <1>8, <2>1, <2>3
    <3>2. pins[s] = Cardinality(PinnedBy(s))
      BY DEF IndInv, PinsCountHolders
    <3>3. PinnedBy(s)' = PinnedBy(s)
      BY <1>5, <2>3
    <3>4. QED
      BY <3>1, <3>2, <3>3
  <2>4. QED
    BY <2>2, <2>3
<1>10. NoLeakedLock' /\ HoldersDistinct'
  <2>1. Inside' = Inside /\ t \notin Inside
    BY <1>1 DEF TypeOK, Inside
  <2>2. \A u \in Inside : lock'[u] = lock[u]
    BY <1>4, <2>1 DEF Inside
  <2>3. QED
    BY <1>1, <2>1, <2>2 DEF IndInv, NoLeakedLock, HoldersDistinct
<1>11. CASE overflow[me] /\ pins[me] <= 1
  <2>1. /\ lockOf' = [lockOf EXCEPT ![me] = NoLock]
        /\ overflow' = [overflow EXCEPT ![me] = FALSE]
    BY <1>1, <1>11 DEF Unpin, ReleaseEntry
  <2>2. PinnedBy(me)' = {}
    <3>1. Cardinality(PinnedBy(me)') = 0
      BY <1>6, <1>7, <1>11
    <3>2. IsFiniteSet(PinnedBy(me)')
      BY <1>1, <1>5, PinnedFinite, FS_RemoveElement
    <3>3. QED
      BY <3>1, <3>2, FS_EmptySet
  <2>3. PinnedLockStays'
    <3> SUFFICES ASSUME NEW u \in Threads, pc'[u] \in Pinning
                 PROVE  lockOf'[own'[u]] = lock'[u]
      BY DEF PinnedLockStays
    <3>1. /\ pc[u] \in Pinning /\ u # t /\ own'[u] = own[u] /\ lock'[u] = lock[u]
          /\ own[u] \in Sessions
      BY <1>1, <1>3, <1>4 DEF TypeOK, Pinning
    <3>2. own[u] # me
      BY <2>2, <3>1 DEF PinnedBy
    <3>3. QED
      BY <1>8, <3>1, <3>2 DEF IndInv, PinnedLockStays
  <2>4. Tracked' = Tracked
    BY <1>1, <1>11, <2>1 DEF TypeOK, Tracked, Registered
  <2>5. \A s \in Sessions : overflow'[s] => pins'[s] > 0
    BY <1>1, <1>8, <2>1 DEF IndInv, TypeOK, CapRespected
  <2>6. QED
    BY <1>2, <1>9, <1>10, <2>3, <2>4, <2>5 DEF IndInv, CapRespected
<1>12. CASE ~(overflow[me] /\ pins[me] <= 1)
  <2>1. lockOf' = lockOf /\ overflow' = overflow
    BY <1>1, <1>12 DEF Unpin, ReleaseEntry
  <2>2. PinnedLockStays'
    BY <1>3, <1>4, <2>1 DEF IndInv, PinnedLockStays
  <2>3. Tracked' = Tracked
    BY <2>1 DEF Tracked, Registered
  <2>4. \A s \in Sessions : overflow[s] => pins'[s] > 0
    BY <1>1, <1>6, <1>7, <1>8, <1>12 DEF IndInv, TypeOK, CapRespected
  <2>5. QED
    BY <1>2, <1>9, <1>10, <2>1, <2>2, <2>3, <2>4 DEF IndInv, CapRespected
<1>13. QED
  BY <1>11, <1>12

LEMMA NextIndInv == IndInv /\ [Next]_vars => IndInv'
<1> SUFFICES ASSUME IndInv, [Next]_vars PROVE IndInv'
  OBVIOUS
<1>1. CASE Next
  BY <1>1, RequestInv, AcquireInv, KillBeforeOverflowInv, EnterInv, KillWaitingInv,
     LeaveInv, UnpinInv DEF Next
<1>2. CASE UNCHANGED vars
  BY <1>2 DEF IndInv, TypeOK, PinsCountHolders, PinnedLockStays, NoLeakedLock,
     HoldersDistinct, CapRespected, PinnedBy, Tracked, Registered, Inside, vars,
     registry, request, search
<1>3. QED
  BY <1>1, <1>2

-----------------------------------------------------------------------------
(* The invariant holds of every behaviour: types, exact pin counts, a lock *)
(* that stays while it is pinned, no leaked MVar and the cap               *)
(* (acquireSessionLock, releaseSessionLock).                               *)
(* The inductive invariant holds in every reachable state of the registry. *)
THEOREM SpecIndInv == Spec => []IndInv
BY InitIndInv, NextIndInv, PTL DEF Spec

(* The variables keep the types of SessionLockEntry and of the call. *)
THEOREM SpecTypeOK == Spec => []TypeOK
<1>1. IndInv => TypeOK
  BY DEF IndInv
<1>2. QED
  BY <1>1, SpecIndInv, PTL

(* Two turns of one session never run at once (withSessionLock). *)
THEOREM SpecMutualExclusion == Spec => []MutualExclusion
BY SpecIndInv, IndInvMutex, PTL

(* A pinned session stays registered with the lock its calls were given.   *)
THEOREM SpecPinnedLockStays == Spec => []PinnedLockStays
<1>1. IndInv => PinnedLockStays
  BY DEF IndInv
<1>2. QED
  BY <1>1, SpecIndInv, PTL

(* Every empty MVar has a thread inside that puts it back. *)
THEOREM SpecNoLeakedLock == Spec => []NoLeakedLock
<1>1. IndInv => NoLeakedLock
  BY DEF IndInv
<1>2. QED
  BY <1>1, SpecIndInv, PTL

(* slePins is exactly the number of calls between the registry step and    *)
(* the release.                                                            *)
THEOREM SpecPinsCountHolders == Spec => []PinsCountHolders
<1>1. IndInv => PinsCountHolders
  BY DEF IndInv
<1>2. QED
  BY <1>1, SpecIndInv, PTL

(* The tracked entries never exceed slmMaxTrackedLocks. *)
THEOREM SpecCapRespected == Spec => []CapRespected
<1>1. IndInv => CapRespected
  BY DEF IndInv
<1>2. QED
  BY <1>1, SpecIndInv, PTL
=============================================================================
