---------------------------- MODULE SessionLock ----------------------------
(***************************************************************************)
(* The per-session critical section of src/QxFx0/Core/SessionLock.hs.      *)
(*                                                                         *)
(* A registry maps a session to a tracked lock (an MVar) with a pin count. *)
(* The registry has a cap: when it is full a caller evicts the least       *)
(* recently used unpinned entry, and when nothing can be evicted it        *)
(* registers one of a fixed array of shared "overflow" locks above the     *)
(* cap.  Each STM transaction and each MVar operation is one action; any   *)
(* other thread may run between two of them.                               *)
(***************************************************************************)
EXTENDS Integers, FiniteSets

CONSTANTS Threads,      \* Haskell threads that call withSessionLock
          Sessions,     \* session identifiers
          Shards,       \* the overflow MVars (slmOverflowShards)
          ShardOf,      \* pickOverflowShard: session -> its shard
          Cap,          \* slmMaxTrackedLocks
          MaxStamp      \* bound on the access counter: calls in a behaviour

ASSUME ThreadsAssumption == IsFiniteSet(Threads)
ASSUME SessionsAssumption == IsFiniteSet(Sessions)
ASSUME ShardsAssumption == ShardOf \in [Sessions -> Shards]
ASSUME CapAssumption == Cap \in Nat \ {0}
ASSUME MaxStampAssumption == MaxStamp \in Nat

VARIABLES
  \* slmLocks, one function per field of SessionLockEntry; a session that is
  \* not in the map has NoLock
  lockOf, lastUsed, pins, overflow,
  counter,  \* slmAccessCounter
  taken,    \* the MVars that are empty now, that is, held by a thread
  \* one call of withSessionLockPaused per thread: where it is, its session,
  \* its stamp, the lock it obtained, the candidates it may still evict
  pc, own, stamp, lock, cands, victim

registry == <<lockOf, lastUsed, pins, overflow>>
request  == <<own, stamp>>
search   == <<cands, victim>>
vars     == <<registry, counter, taken, pc, request, lock, search>>

(* A private lock is named by the stamp of the call that created it, which *)
(* is unique; an overflow lock by its shard.                               *)
Stamps     == 1..MaxStamp
Private(n) == [kind |-> "private", id |-> n]
Shared(s)  == [kind |-> "shard", id |-> ShardOf[s]]
Locks      == {Private(n) : n \in Stamps} \cup {Shared(s) : s \in Sessions}
NoLock     == [kind |-> "none", id |-> 0]
NoSession  == "none"

(* What a candidate of the eviction snapshot remembers of an entry. *)
Candidate == [session : Sessions, lastUsed : Nat, lock : Locks]
NoVictim  == [session |-> NoSession, lastUsed |-> 0, lock |-> NoLock]

Registered == {s \in Sessions : lockOf[s] # NoLock}
Tracked    == {s \in Registered : ~overflow[s]}
Full       == Cardinality(Registered) >= Cap

(* The threads that have passed the registry and not yet released: the     *)
(* code's notion of a pin.                                                 *)
Pinning == {"waiting", "critical", "unpin"}
PinnedBy(s) == {t \in Threads : pc[t] \in Pinning /\ own[t] = s}
Inside      == {t \in Threads : pc[t] = "critical"}

PCs == {"idle", "lookup", "insert", "snapshot", "choose", "swap", "retry",
        "overflow"} \cup Pinning

TypeOK ==
  /\ lockOf \in [Sessions -> Locks \cup {NoLock}]
  /\ lastUsed \in [Sessions -> Nat]
  /\ pins \in [Sessions -> Nat]
  /\ overflow \in [Sessions -> BOOLEAN]
  /\ counter \in 0..MaxStamp
  /\ taken \subseteq Locks
  /\ pc \in [Threads -> PCs]
  /\ own \in [Threads -> Sessions \cup {NoSession}]
  /\ stamp \in [Threads -> Nat]
  /\ lock \in [Threads -> Locks \cup {NoLock}]
  /\ cands \in [Threads -> SUBSET Candidate]
  /\ victim \in [Threads -> Candidate \cup {NoVictim}]
  /\ \A t \in Threads :
       /\ pc[t] # "idle" => own[t] \in Sessions /\ stamp[t] \in Stamps
       /\ pc[t] \in Pinning => lock[t] \in Locks
       /\ pc[t] = "swap" => victim[t] \in Candidate

Init ==
  /\ lockOf = [s \in Sessions |-> NoLock]
  /\ lastUsed = [s \in Sessions |-> 0]
  /\ pins = [s \in Sessions |-> 0]
  /\ overflow = [s \in Sessions |-> FALSE]
  /\ counter = 0
  /\ taken = {}
  /\ pc = [t \in Threads |-> "idle"]
  /\ own = [t \in Threads |-> NoSession]
  /\ stamp = [t \in Threads |-> 0]
  /\ lock = [t \in Threads |-> NoLock]
  /\ cands = [t \in Threads |-> {}]
  /\ victim = [t \in Threads |-> NoVictim]

-----------------------------------------------------------------------------
Goto(t, label) == pc' = [pc EXCEPT ![t] = label]

(* The search for a victim is over. *)
EndSearch(t) ==
  /\ cands' = [cands EXCEPT ![t] = {}]
  /\ victim' = [victim EXCEPT ![t] = NoVictim]

(* The registry gives t the lock l: from here on t is a pin of its session. *)
Obtain(t, l) ==
  /\ lock' = [lock EXCEPT ![t] = l]
  /\ Goto(t, "waiting")
  /\ EndSearch(t)
  /\ UNCHANGED <<request, counter, taken>>

(* The call is over: its locals are gone. *)
Return(t) ==
  /\ Goto(t, "idle")
  /\ own' = [own EXCEPT ![t] = NoSession]
  /\ stamp' = [stamp EXCEPT ![t] = 0]
  /\ lock' = [lock EXCEPT ![t] = NoLock]
  /\ EndSearch(t)

(* pinEntry, on the entry that is already registered for t's session. *)
PinExisting(t) ==
  /\ lockOf[own[t]] # NoLock
  /\ lastUsed' = [lastUsed EXCEPT ![own[t]] = stamp[t]]
  /\ pins' = [pins EXCEPT ![own[t]] = @ + 1]
  /\ UNCHANGED <<lockOf, overflow>>
  /\ Obtain(t, lockOf[own[t]])

(* A new entry with one pin, in place of the entry of the victim if any. *)
Register(t, l, isOverflow, evicted) ==
  /\ lockOf' = [s \in Sessions |->
       IF s = own[t] THEN l ELSE IF s \in evicted THEN NoLock ELSE lockOf[s]]
  /\ lastUsed' = [s \in Sessions |->
       IF s = own[t] THEN stamp[t] ELSE IF s \in evicted THEN 0 ELSE lastUsed[s]]
  /\ pins' = [s \in Sessions |->
       IF s = own[t] THEN 1 ELSE IF s \in evicted THEN 0 ELSE pins[s]]
  /\ overflow' = [s \in Sessions |->
       IF s = own[t] THEN isOverflow ELSE s \notin evicted /\ overflow[s]]
  /\ Obtain(t, l)

(* Mutant: the size of the map is not compared with the cap. *)
InsertTrackedUncapped(t, next) ==
  \/ PinExisting(t)
  \/ /\ lockOf[own[t]] = NoLock
     /\ Register(t, Private(stamp[t]), FALSE, {})

(* insertTracked: pin the entry a concurrent caller registered, or add one *)
(* if there is room; otherwise go on at the label next.                    *)
InsertTracked(t, next) ==
  \/ PinExisting(t)
  \/ /\ lockOf[own[t]] = NoLock
     /\ ~Full
     /\ Register(t, Private(stamp[t]), FALSE, {})
  \/ /\ lockOf[own[t]] = NoLock
     /\ Full
     /\ Goto(t, next)
     /\ UNCHANGED <<registry, counter, taken, request, lock, search>>

-----------------------------------------------------------------------------
(* nextAccessStamp, the first transaction of acquireSessionLock. *)
Request(t, s) ==
  /\ pc[t] = "idle"
  /\ counter < MaxStamp
  /\ counter' = counter + 1
  /\ own' = [own EXCEPT ![t] = s]
  /\ stamp' = [stamp EXCEPT ![t] = counter + 1]
  /\ Goto(t, "lookup")
  /\ UNCHANGED <<registry, taken, lock, search>>

Lookup(t) ==
  /\ pc[t] = "lookup"
  /\ \/ PinExisting(t)
     \/ /\ lockOf[own[t]] = NoLock
        /\ Goto(t, "insert")
        /\ UNCHANGED <<registry, counter, taken, request, lock, search>>

Insert(t) ==
  /\ pc[t] = "insert"
  /\ InsertTracked(t, "snapshot")

(* evictFreeTrackedLock reads the map once and works through the unpinned  *)
(* entries of that snapshot, which may be stale by then.                   *)
Snapshot(t) ==
  /\ pc[t] = "snapshot"
  /\ cands' = [cands EXCEPT ![t] =
       {[session |-> s, lastUsed |-> lastUsed[s], lock |-> lockOf[s]] :
          s \in {x \in Registered : pins[x] = 0}}]
  /\ Goto(t, "choose")
  /\ UNCHANGED <<registry, counter, taken, request, lock, victim>>

IsOldest(c, C) == \A d \in C : c.lastUsed <= d.lastUsed

(* tryReadMVar on the oldest remaining candidate. *)
ChooseVictim(t) ==
  /\ pc[t] = "choose"
  /\ \/ /\ cands[t] = {}
        /\ Goto(t, "retry")
        /\ UNCHANGED search
     \/ \E c \in cands[t] :
        /\ IsOldest(c, cands[t])
        /\ cands' = [cands EXCEPT ![t] = @ \ {c}]
        /\ \/ /\ c.lock \in taken
              /\ UNCHANGED <<pc, victim>>
           \/ /\ c.lock \notin taken
              /\ victim' = [victim EXCEPT ![t] = c]
              /\ Goto(t, "swap")
  /\ UNCHANGED <<registry, counter, taken, request, lock>>

(* Mutant: the swap trusts the snapshot. *)
EvictableUnchecked(c) == c.session \in Registered /\ Full

(* The candidate is still what the snapshot said and the map is still full. *)
Evictable(c) ==
  /\ c.session \in Registered
  /\ pins[c.session] = 0
  /\ lastUsed[c.session] = c.lastUsed
  /\ Full

Swap(t) ==
  /\ pc[t] = "swap"
  /\ \/ PinExisting(t)
     \/ /\ lockOf[own[t]] = NoLock
        /\ Evictable(victim[t])
        /\ Register(t, Private(stamp[t]), FALSE, {victim[t].session})
     \/ /\ lockOf[own[t]] = NoLock
        /\ ~Evictable(victim[t])
        /\ victim' = [victim EXCEPT ![t] = NoVictim]
        /\ Goto(t, "choose")
        /\ UNCHANGED <<registry, counter, taken, request, lock, cands>>

Retry(t) ==
  /\ pc[t] = "retry"
  /\ InsertTracked(t, "overflow")

(* Mutant: the shard is handed out without an entry in the registry. *)
OverflowUnregistered(t) ==
  /\ pc[t] = "overflow"
  /\ Obtain(t, Shared(own[t]))
  /\ UNCHANGED registry

(* pinOrInsertOverflow: above the cap, with the session's shared shard. *)
Overflow(t) ==
  /\ pc[t] = "overflow"
  /\ \/ PinExisting(t)
     \/ /\ lockOf[own[t]] = NoLock
        /\ Register(t, Shared(own[t]), TRUE, {})

(* An asynchronous exception can reach the masked part only at the log     *)
(* line before the overflow step: nothing is pinned yet.                   *)
KillBeforeOverflow(t) ==
  /\ pc[t] = "overflow"
  /\ Return(t)
  /\ UNCHANGED <<registry, counter, taken>>

(* withMVar: takeMVar, the action, putMVar (also on an exception). *)
Enter(t) ==
  /\ pc[t] = "waiting"
  /\ lock[t] \notin taken
  /\ taken' = taken \cup {lock[t]}
  /\ Goto(t, "critical")
  /\ UNCHANGED <<registry, counter, request, lock, search>>

(* Mutants: a killed waiter forgets its pin; or its lock. *)
KillWaitingLeaksPin(t) ==
  /\ pc[t] = "waiting"
  /\ Return(t)
  /\ UNCHANGED <<registry, counter, taken>>

KillWaitingLosesLock(t) ==
  /\ pc[t] = "waiting"
  /\ Goto(t, "unpin")
  /\ lock' = [lock EXCEPT ![t] = NoLock]
  /\ UNCHANGED <<registry, counter, taken, request, search>>

KillWaiting(t) ==
  /\ pc[t] = "waiting"
  /\ Goto(t, "unpin")
  /\ UNCHANGED <<registry, counter, taken, request, lock, search>>

(* Mutant: the turn ends without putMVar. *)
LeaveWithoutPut(t) ==
  /\ pc[t] = "critical"
  /\ Goto(t, "unpin")
  /\ UNCHANGED <<registry, counter, taken, request, lock, search>>

Leave(t) ==
  /\ pc[t] = "critical"
  /\ taken' = taken \ {lock[t]}
  /\ Goto(t, "unpin")
  /\ UNCHANGED <<registry, counter, request, lock, search>>

(* releaseSessionLock: an overflow entry dies with its last pin. *)
ReleaseEntry(s) ==
  IF overflow[s] /\ pins[s] <= 1
    THEN /\ lockOf' = [lockOf EXCEPT ![s] = NoLock]
         /\ lastUsed' = [lastUsed EXCEPT ![s] = 0]
         /\ pins' = [pins EXCEPT ![s] = 0]
         /\ overflow' = [overflow EXCEPT ![s] = FALSE]
    ELSE /\ pins' = [pins EXCEPT ![s] = IF @ >= 1 THEN @ - 1 ELSE 0]
         /\ UNCHANGED <<lockOf, lastUsed, overflow>>

Unpin(t) ==
  /\ pc[t] = "unpin"
  /\ ReleaseEntry(own[t])
  /\ Return(t)
  /\ UNCHANGED <<counter, taken>>

Acquire(t) ==
  \/ Lookup(t) \/ Insert(t) \/ Snapshot(t) \/ ChooseVictim(t) \/ Swap(t)
  \/ Retry(t) \/ Overflow(t)

Next == \E t \in Threads :
  \/ \E s \in Sessions : Request(t, s)
  \/ Acquire(t)
  \/ KillBeforeOverflow(t)
  \/ Enter(t)
  \/ KillWaiting(t)
  \/ Leave(t)
  \/ Unpin(t)

Spec == Init /\ [][Next]_vars

(* Threads are scheduled fairly, a turn ends, and GHC wakes the waiters of *)
(* an MVar in FIFO order, so a waiter is not overtaken for ever.           *)
Fairness == \A t \in Threads :
  WF_vars(Acquire(t)) /\ SF_vars(Enter(t)) /\ WF_vars(Leave(t)) /\ WF_vars(Unpin(t))

FairSpec == Spec /\ Fairness

-----------------------------------------------------------------------------
(* Two turns of one session never run at once, whatever the registry       *)
(* evicted or overflowed in between (the purpose of withSessionLock; the   *)
(* eviction window is the one described at lines 28-34).                   *)
MutualExclusion ==
  \A t, u \in Inside : own[t] = own[u] => t = u

(* A pinned session stays registered with the very lock its pinning        *)
(* threads were given: no eviction, overflow or release replaces it        *)
(* (slePins, lines 28-34 and 122-126).                                     *)
PinnedLockStays ==
  \A t \in Threads : pc[t] \in Pinning => lockOf[own[t]] = lock[t]

(* slePins counts exactly the calls that passed the registry and have not  *)
(* released: the clamp max 0 of releaseSessionLock is never used, and no   *)
(* kill leaks a pin, which would make the entry unevictable for ever.      *)
PinsCountHolders ==
  \A s \in Sessions : pins[s] = Cardinality(PinnedBy(s))

(* The cap bounds the tracked entries; only overflow entries live above it *)
(* and every one of those is pinned (lines 157-163, 191-195).              *)
CapRespected ==
  /\ Cardinality(Tracked) <= Cap
  /\ \A s \in Sessions : overflow[s] => pins[s] > 0

(* An empty MVar always has a live thread that will put it back. *)
NoLeakedLock == taken = {lock[t] : t \in Inside}

(* Every call ends: no killed or finished turn leaves a lock behind that a *)
(* later turn of the session, or of a session that shares its overflow     *)
(* lock, would wait for.                                                   *)
EveryCallEnds == \A t \in Threads : pc[t] # "idle" ~> pc[t] = "idle"
=============================================================================
