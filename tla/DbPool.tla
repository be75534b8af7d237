------------------------------- MODULE DbPool -------------------------------
(***************************************************************************)
(* Access of the threads of one process to the state database              *)
(* (src/QxFx0/Bridge/SQLite/Pool.hs): the re-entrant lock around every     *)
(* database call, connections opened for one call (withDB) or taken from   *)
(* the pool (withPooledDB), closeDBPool, and threads that are killed in    *)
(* the middle (Runtime/ManagedWorker.hs).                                  *)
(*                                                                         *)
(* A call is a frame on the stack of its thread, newest first.  Every call *)
(* runs under mask: a kill arrives only where the code unmasks or blocks.  *)
(***************************************************************************)
EXTENDS Integers, Sequences, FiniteSets

CONSTANTS Threads,
          Conns,        \* connections: the file descriptors there are
          PoolSize,
          MaxDepth,     \* bound on nested calls of a thread
          MaxCalls,     \* bound on calls
          Nobody, NoConn

ASSUME NobodyAssumption == Nobody \notin Threads
ASSUME NoConnAssumption == NoConn \notin Conns
ASSUME PoolAssumption == PoolSize \in Nat /\ PoolSize <= Cardinality(Conns)
ASSUME BoundsAssumption == MaxDepth \in Nat \ {0} /\ MaxCalls \in Nat

VARIABLES
  lock,     \* databaseActionLock: its owner and the depth of re-entry
  slot,     \* poolMVar: whether it is full, and the idle connections
  open,     \* connections that are open
  dirty,    \* those with a transaction that was left open
  lost,     \* connections that a killed thread left behind
  stack,    \* thread -> its calls in progress
  status,   \* thread -> "running", "signalled" (a kill is under way), "killed"
  calls

vars == <<lock, slot, open, dirty, lost, stack, status, calls>>

Free     == [owner |-> Nobody, depth |-> 0]
Taken    == [full |-> FALSE, idle |-> {}]
Full(cs) == [full |-> TRUE, idle |-> cs]

Frame == [kind : {"direct", "pooled", "overflow", "close"},
          at : {"acquire", "open", "slot", "acting", "restore", "release",
                "waiting", "closing"},
          conn : Conns \cup {NoConn},
          rest : SUBSET Conns]      \* what else was in the slot
NewFrame(kind, at) == [kind |-> kind, at |-> at, conn |-> NoConn, rest |-> {}]

TypeOK ==
  /\ lock \in [owner : Threads \cup {Nobody}, depth : 0..MaxDepth]
  /\ slot \in [full : BOOLEAN, idle : SUBSET Conns]
  /\ open \in SUBSET Conns /\ dirty \in SUBSET Conns /\ lost \in SUBSET Conns
  /\ stack \in [Threads -> Seq(Frame)]
  /\ \A t \in Threads : Len(stack[t]) <= MaxDepth
  /\ status \in [Threads -> {"running", "signalled", "killed"}]
  /\ calls \in 0..MaxCalls

(* newDBPool *)
Init ==
  /\ lock = Free
  /\ \E cs \in SUBSET Conns :
       Cardinality(cs) = PoolSize /\ slot = Full(cs) /\ open = cs
  /\ dirty = {} /\ lost = {}
  /\ stack = [t \in Threads |-> <<>>]
  /\ status = [t \in Threads |-> "running"]
  /\ calls = 0

-----------------------------------------------------------------------------
Top(t)    == Head(stack[t])
At(t, at) == stack[t] # <<>> /\ Top(t).at = at

Push(t, f) == stack' = [stack EXCEPT ![t] = <<f>> \o @]
Pop(t)     == stack' = [stack EXCEPT ![t] = Tail(@)]
Put(t, f)  == stack' = [stack EXCEPT ![t] = <<f>> \o Tail(@)]
Move(t, at) == Put(t, [Top(t) EXCEPT !.at = at])

(* Calls of t between acquireDatabaseActionLock and its release. *)
Outside(t) == At(t, "acquire") \/ At(t, "waiting") \/ At(t, "closing")
Inside(t)  == IF Outside(t) THEN Len(stack[t]) - 1 ELSE Len(stack[t])

-----------------------------------------------------------------------------
(* withDB or withPooledDB, on its own or from the action of another call. *)
Call(t, kind) ==
  /\ status[t] # "killed"
  /\ stack[t] = <<>> \/ (At(t, "acting") /\ Len(stack[t]) < MaxDepth)
  /\ calls < MaxCalls /\ calls' = calls + 1
  /\ Push(t, NewFrame(kind, "acquire"))
  /\ UNCHANGED <<lock, slot, open, dirty, lost, status>>

(* One poll of acquireDatabaseActionLock that succeeds. *)
Acquire(t) ==
  /\ At(t, "acquire")
  /\ lock.owner \in {Nobody, t}
  /\ lock' = [owner |-> t, depth |-> lock.depth + 1]
  /\ Move(t, IF Top(t).kind = "direct" THEN "open" ELSE "slot")
  /\ UNCHANGED <<slot, open, dirty, lost, status, calls>>

(* openInitializedConnection, when it succeeds. *)
Connect(c) == c \notin open /\ open' = open \cup {c}

(* withDB opens its connection unmasked: a kill can come before finally. *)
Open(t) ==
  /\ At(t, "open")
  /\ \/ \E c \in Conns :
          /\ Connect(c)
          /\ \/ Put(t, [Top(t) EXCEPT !.at = "acting", !.conn = c])
                /\ UNCHANGED <<lost, status>>
             \/ /\ status[t] = "signalled"
                /\ status' = [status EXCEPT ![t] = "killed"]
                /\ lost' = lost \cup {c}
                /\ Move(t, "release")
     \/ Move(t, "release") /\ UNCHANGED <<open, lost, status>>
  /\ UNCHANGED <<lock, slot, dirty, calls>>

(* tryTakeMVar finds the slot full.  An empty list means a connection of   *)
(* one's own; when that cannot be opened the slot is not filled again.     *)
TakeSlot(t) ==
  /\ At(t, "slot")
  /\ slot.full
  /\ slot' = Taken
  /\ \/ \E c \in slot.idle :
          /\ Put(t, [Top(t) EXCEPT !.at = "acting", !.conn = c, !.rest = slot.idle \ {c}])
          /\ UNCHANGED open
     \/ /\ slot.idle = {}
        /\ \/ \E c \in Conns :
                /\ Connect(c)
                /\ Put(t, [Top(t) EXCEPT !.kind = "overflow", !.at = "acting", !.conn = c])
           \/ Move(t, "release") /\ UNCHANGED open
  /\ UNCHANGED <<lock, dirty, lost, status, calls>>

(* Mutant: no deadline. *)
SlotTimeoutNever(t) == FALSE
(* Mutant: the timeout of an interrupted takeMVar, after it took the list. *)
SlotTimeoutTakes(t) ==
  /\ At(t, "slot")
  /\ slot' = Taken
  /\ Move(t, "release")
  /\ UNCHANGED <<lock, open, dirty, lost, status, calls>>
(* acquireConnectionsWithTimeout reaches its deadline. *)
SlotTimeout(t) ==
  /\ At(t, "slot")
  /\ ~slot.full
  /\ Move(t, "release")
  /\ UNCHANGED <<lock, slot, open, dirty, lost, status, calls>>

(* The action returns or throws, maybe inside a transaction. *)
Finish(t) ==
  /\ At(t, "acting")
  /\ dirty' \in {dirty, dirty \cup {Top(t).conn}}
  /\ Move(t, "restore")
EndAction(t) == Finish(t) /\ UNCHANGED <<lock, slot, open, lost, status, calls>>

(* The connection of one call is closed. *)
CloseOwn(t) ==
  /\ Top(t).kind \in {"direct", "overflow"}
  /\ open' = open \ {Top(t).conn}
  /\ dirty' = dirty \ {Top(t).conn}
  /\ slot' = IF Top(t).kind = "overflow" THEN Full({}) ELSE slot

(* Mutant: no ROLLBACK. *)
GiveBackDirty(t) ==
  /\ Top(t).kind = "pooled"
  /\ slot' = Full(Top(t).rest \cup {Top(t).conn})
  /\ UNCHANGED <<open, dirty>>
(* restorePooledConnection: after a ROLLBACK, or replaced by a new one, or *)
(* closed without a replacement.                                           *)
GiveBack(t) ==
  /\ Top(t).kind = "pooled"
  /\ dirty' = dirty \ {Top(t).conn}
  /\ \/ slot' = Full(Top(t).rest \cup {Top(t).conn}) /\ UNCHANGED open
     \/ slot' = Full(Top(t).rest) /\ open' = open \ {Top(t).conn}

Restore(t) ==
  /\ At(t, "restore")
  /\ CloseOwn(t) \/ GiveBack(t)
  /\ Put(t, NewFrame(Top(t).kind, "release"))
  /\ UNCHANGED <<lock, lost, status, calls>>

(* Mutant: the depth is forgotten. *)
ReleasedAtOnce(t) == IF lock.owner # t THEN lock ELSE Free
(* Mutant: the last release keeps the lock. *)
ReleasedNeverLast(t) ==
  IF lock.owner = t /\ lock.depth > 1 THEN [lock EXCEPT !.depth = @ - 1] ELSE lock
(* releaseDatabaseActionLock *)
Released(t) ==
  IF lock.owner # t THEN lock
  ELSE IF lock.depth > 1 THEN [lock EXCEPT !.depth = @ - 1] ELSE Free
Release(t) ==
  /\ At(t, "release")
  /\ lock' = Released(t)
  /\ Pop(t)
  /\ UNCHANGED <<slot, open, dirty, lost, status, calls>>

-----------------------------------------------------------------------------
(* closeDBPool: outside the lock; takeMVar waits without a limit. *)
CallClose(t) ==
  /\ status[t] # "killed"
  /\ stack[t] = <<>>
  /\ calls < MaxCalls /\ calls' = calls + 1
  /\ Push(t, NewFrame("close", "waiting"))
  /\ UNCHANGED <<lock, slot, open, dirty, lost, status>>

CloseTakes(t) ==
  /\ At(t, "waiting")
  /\ slot.full
  /\ Put(t, [Top(t) EXCEPT !.at = "closing", !.rest = slot.idle])
  /\ slot' = Taken
  /\ UNCHANGED <<lock, open, dirty, lost, status, calls>>

CloseEnds(t) ==
  /\ At(t, "closing")
  /\ open' = open \ Top(t).rest
  /\ slot' = Full({})
  /\ Pop(t)
  /\ UNCHANGED <<lock, dirty, lost, status, calls>>

-----------------------------------------------------------------------------
(* stopManagedWorker: throwTo once, from a thread of its own. *)
Signal(t) ==
  /\ status[t] = "running"
  /\ status' = [status EXCEPT ![t] = "signalled"]
  /\ UNCHANGED <<lock, slot, open, dirty, lost, stack, calls>>

(* Another thread is inside modifyMVar databaseActionLock. *)
Contended(t) == \E u \in Threads \ {t} : At(u, "acquire") \/ At(u, "release")

(* Mutant: polling for the lock cannot be interrupted. *)
KillNotPolling(t) ==
  /\ status[t] = "signalled"
  /\ status' = [status EXCEPT ![t] = "killed"]
  /\ \/ stack[t] = <<>> /\ UNCHANGED <<stack, dirty>>
     \/ At(t, "waiting") /\ ~slot.full /\ Pop(t) /\ UNCHANGED dirty
     \/ At(t, "release") /\ Contended(t) /\ Pop(t) /\ UNCHANGED dirty
     \/ Finish(t)
  /\ UNCHANGED <<lock, slot, open, lost, calls>>
(* The kill arrives between calls, in an action, or where a call blocks:   *)
(* polling for the lock or the slot, in takeMVar of closeDBPool, and in    *)
(* takeMVar of releaseDatabaseActionLock, which then releases nothing.     *)
Kill(t) ==
  /\ status[t] = "signalled"
  /\ status' = [status EXCEPT ![t] = "killed"]
  /\ \/ stack[t] = <<>> /\ UNCHANGED <<stack, dirty>>
     \/ At(t, "acquire") /\ Pop(t) /\ UNCHANGED dirty
     \/ At(t, "slot") /\ ~slot.full /\ Move(t, "release") /\ UNCHANGED dirty
     \/ At(t, "waiting") /\ ~slot.full /\ Pop(t) /\ UNCHANGED dirty
     \/ At(t, "release") /\ Contended(t) /\ Pop(t) /\ UNCHANGED dirty
     \/ Finish(t)
  /\ UNCHANGED <<lock, slot, open, lost, calls>>

(* A broken connection has no replacement, and hPutStrLn, which says so,   *)
(* waits for stderr when the kill arrives: nothing is put back.            *)
KillInLog(t) ==
  /\ status[t] = "signalled"
  /\ At(t, "restore") /\ Top(t).kind = "pooled"
  /\ status' = [status EXCEPT ![t] = "killed"]
  /\ open' = open \ {Top(t).conn}
  /\ dirty' = dirty \ {Top(t).conn}
  /\ lost' = lost \cup Top(t).rest
  /\ Put(t, NewFrame("pooled", "release"))
  /\ UNCHANGED <<lock, slot, calls>>

Step(t) ==
  \/ Acquire(t) \/ Open(t) \/ TakeSlot(t) \/ SlotTimeout(t)
  \/ EndAction(t) \/ Restore(t) \/ Release(t) \/ CloseTakes(t) \/ CloseEnds(t)

Next == \E t \in Threads :
  \/ Call(t, "direct") \/ Call(t, "pooled") \/ CallClose(t)
  \/ Step(t) \/ Signal(t) \/ Kill(t) \/ KillInLog(t)

Spec == Init /\ [][Next]_vars
FairSpec == Spec /\ \A t \in Threads : WF_vars(Step(t)) /\ WF_vars(Kill(t))

-----------------------------------------------------------------------------
(* At most one thread is in a database call, it owns the lock, and the     *)
(* depth counts its calls, so that the lock is given back by the last of   *)
(* them and not before: "serialize all local SQLite actions while          *)
(* permitting the same thread to re-enter the lock" (Pool.hs:59).          *)
Serialized ==
  \A t \in Threads : Inside(t) > 0 =>
    /\ lock.owner = t
    /\ IF status[t] = "killed" THEN lock.depth >= Inside(t) ELSE lock.depth = Inside(t)

(* The connections in somebody's hands. *)
Holdings == {<<t, i>> : t \in Threads, i \in 1..MaxDepth}
Hold(h) == IF h[2] > Len(stack[h[1]]) THEN {}
           ELSE LET f == stack[h[1]][h[2]] IN f.rest \cup ({f.conn} \ {NoConn})

(* Every open connection is idle in the pool or in exactly one hand,       *)
(* however a call ended: none is "neither in the pool nor closed"          *)
(* (Pool.hs:159), but for the two places where a kill is not guarded       *)
(* against (Open, KillInLog).                                              *)
ConnectionsAccounted ==
  /\ TypeOK
  /\ open = slot.idle \cup lost \cup UNION {Hold(h) : h \in Holdings}
  /\ \A h \in Holdings : Hold(h) \cap (slot.idle \cup lost) = {}
  /\ \A h, k \in Holdings : h # k => Hold(h) \cap Hold(k) = {}

(* A connection with a transaction left open by a failed or killed action  *)
(* never gets back into the pool (test "pooled connection should be        *)
(* sanitized before reuse").                                               *)
PoolIsClean == dirty \cap slot.idle = {}

(* The lock stays with a thread that has left: its release was interrupted. *)
Abandoned == \E t \in Threads : lock.owner = t /\ Inside(t) = 0

(* No call of a thread has the slot, and it is not full. *)
HasSlot(t) == \E i \in 1..Len(stack[t]) :
  LET f == stack[t][i] IN
  \/ f.at = "closing"
  \/ f.kind \in {"pooled", "overflow"} /\ f.at \in {"acting", "restore"}
SlotLost == ~slot.full /\ \A t \in Threads : ~HasSlot(t)

(* The lock is abandoned only by a killed thread. *)
OnlyKillsAbandon ==
  \A t \in Threads : lock.owner = t /\ Inside(t) = 0 => status[t] = "killed"

(* Every database call ends unless the lock was abandoned, even if the     *)
(* slot of the pool is lost or the thread itself holds it (it times out).  *)
(* A close, which waits without a limit, ends if the slot is not lost.     *)
DbCall(t) == stack[t] # <<>> /\ Top(t).kind # "close"
CallsEnd ==
  /\ []~Abandoned => \A t \in Threads : DbCall(t) ~> stack[t] = <<>>
  /\ [](~Abandoned /\ ~SlotLost) => \A t \in Threads : stack[t] # <<>> ~> stack[t] = <<>>

(* stopManagedWorker returns, whatever became of lock and pool: "every     *)
(* caller waits for the thread's finalizers" (ManagedWorker.hs:24).        *)
StopReturns ==
  \A t \in Threads : status[t] = "signalled" ~> (status[t] = "killed" /\ stack[t] = <<>>)
=============================================================================
