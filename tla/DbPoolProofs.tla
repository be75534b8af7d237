---------------------------- MODULE DbPoolProofs ----------------------------
(***************************************************************************)
(* Proofs about DbPool, for every set of threads and connections, every    *)
(* size of the pool and every depth of nesting.                            *)
(*                                                                         *)
(* Only the newest call of a thread is on its way; the older ones are      *)
(* acting.  The depth of the lock counts the calls between its acquisition *)
(* and its release; a killed thread acquires nothing any more.  The slot   *)
(* is full or in one hand or lost, and so is every connection.             *)
(***************************************************************************)
EXTENDS DbPool, SequenceTheorems, TLAPS

(* The calls as they occur, by kind and place. *)
Legal(f) ==
  /\ f.kind = "close" <=> f.at \in {"waiting", "closing"}
  /\ f.at = "acquire" => f.kind \in {"direct", "pooled"}
  /\ f.at = "open" => f.kind = "direct"
  /\ f.at = "slot" => f.kind = "pooled"
  /\ f.at \in {"acting", "restore"} <=> f.conn # NoConn
  /\ f.rest # {} => f.at = "closing" \/ (f.kind = "pooled" /\ f.at \in {"acting", "restore"})
  /\ f.conn \notin f.rest

Calls(t) == 1..Len(stack[t])

StackShape ==
  \A t \in Threads : \A i \in Calls(t) :
    /\ Legal(stack[t][i])
    /\ i > 1 => stack[t][i].at = "acting"

KilledIsLeaving ==
  \A t \in Threads :
    status[t] = "killed" => \A i \in Calls(t) : stack[t][i].at \in {"acting", "restore", "release"}

(* How the lock counts.  It is exact for a thread that was not killed. *)
LockCounts ==
  /\ lock.owner = Nobody <=> lock.depth = 0
  /\ \A t \in Threads :
       /\ Inside(t) > 0 => lock.owner = t /\ lock.depth >= Inside(t)
       /\ lock.owner = t /\ status[t] # "killed" => lock.depth = Inside(t)

LockInv == TypeOK /\ StackShape /\ KilledIsLeaving /\ LockCounts

-----------------------------------------------------------------------------
(* What the operations on stacks do, call by call. *)
Stacks == [Threads -> Seq(Frame)]

LEMMA HeadTailCons ==
  ASSUME NEW S, NEW s \in Seq(S), NEW f \in S
  PROVE  /\ <<f>> \o s \in Seq(S)
         /\ Len(<<f>> \o s) = Len(s) + 1
         /\ (<<f>> \o s)[1] = f
         /\ \A i \in 1..Len(s) : (<<f>> \o s)[i + 1] = s[i]
<1>1. <<f>> \in Seq(S) /\ Len(<<f>>) = 1 /\ <<f>>[1] = f
  OBVIOUS
<1>2. Len(s) \in Nat
  OBVIOUS
<1>3. \A i \in 1..1 + Len(s) : (<<f>> \o s)[i] = IF i <= 1 THEN <<f>>[i] ELSE s[i - 1]
  BY <1>1, ConcatProperties
<1>4. <<f>> \o s \in Seq(S) /\ Len(<<f>> \o s) = 1 + Len(s)
  BY <1>1, ConcatProperties
<1>5. (<<f>> \o s)[1] = f
  BY <1>1, <1>2, <1>3
<1>6. ASSUME NEW i \in 1..Len(s) PROVE (<<f>> \o s)[i + 1] = s[i]
  <2>1. i + 1 \in 1..1 + Len(s) /\ ~(i + 1 <= 1) /\ (i + 1) - 1 = i
    BY <1>2
  <2> QED BY <1>3, <2>1
<1> QED BY <1>2, <1>4, <1>5, <1>6

LEMMA TopIsFirst ==
  ASSUME stack \in Stacks, NEW t \in Threads, stack[t] # <<>>
  PROVE  /\ Len(stack[t]) \in Nat \ {0}
         /\ Top(t) = stack[t][1] /\ Top(t) \in Frame
         /\ 1 \in Calls(t)
<1>1. stack[t] \in Seq(Frame)
  BY DEF Stacks
<1>2. Len(stack[t]) \in Nat /\ Len(stack[t]) # 0
  BY <1>1, EmptySeq
<1>3. Head(stack[t]) = stack[t][1]
  BY <1>1
<1>4. stack[t][1] \in Frame
  BY <1>1, <1>2, ElementOfSeq
<1> QED BY <1>2, <1>3, <1>4 DEF Top, Calls

LEMMA PushEffect ==
  ASSUME stack \in Stacks, NEW t \in Threads, NEW f \in Frame, Push(t, f)
  PROVE  /\ stack' \in Stacks
         /\ \A u \in Threads \ {t} : stack'[u] = stack[u]
         /\ Len(stack'[t]) = Len(stack[t]) + 1
         /\ stack'[t][1] = f
         /\ \A i \in Calls(t) : stack'[t][i + 1] = stack[t][i]
<1>1. stack[t] \in Seq(Frame)
  BY DEF Stacks
<1>2. /\ stack' = [stack EXCEPT ![t] = <<f>> \o stack[t]]
      /\ stack'[t] = <<f>> \o stack[t]
  BY DEF Push, Stacks
<1>3. /\ <<f>> \o stack[t] \in Seq(Frame)
      /\ Len(<<f>> \o stack[t]) = Len(stack[t]) + 1
      /\ (<<f>> \o stack[t])[1] = f
      /\ \A i \in 1..Len(stack[t]) : (<<f>> \o stack[t])[i + 1] = stack[t][i]
  BY <1>1, HeadTailCons
<1> QED BY <1>2, <1>3 DEF Stacks, Calls

LEMMA PopEffect ==
  ASSUME stack \in Stacks, NEW t \in Threads, stack[t] # <<>>, Pop(t)
  PROVE  /\ stack' \in Stacks
         /\ \A u \in Threads \ {t} : stack'[u] = stack[u]
         /\ Len(stack'[t]) = Len(stack[t]) - 1
         /\ \A i \in Calls(t) : i > 1 => stack'[t][i - 1] = stack[t][i]
<1>1. stack[t] \in Seq(Frame)
  BY DEF Stacks
<1>2. /\ stack' = [stack EXCEPT ![t] = Tail(stack[t])]
      /\ stack'[t] = Tail(stack[t])
  BY DEF Pop, Stacks
<1>3. /\ Tail(stack[t]) \in Seq(Frame)
      /\ Len(Tail(stack[t])) = Len(stack[t]) - 1
      /\ \A i \in 1..Len(Tail(stack[t])) : Tail(stack[t])[i] = stack[t][i + 1]
  BY <1>1, HeadTailProperties
<1>4. ASSUME NEW i \in Calls(t), i > 1 PROVE stack'[t][i - 1] = stack[t][i]
  <2>1. i - 1 \in 1..Len(Tail(stack[t])) /\ (i - 1) + 1 = i
    BY <1>1, <1>3, <1>4 DEF Calls
  <2> QED BY <1>2, <1>3, <2>1
<1> QED BY <1>2, <1>3, <1>4 DEF Stacks

LEMMA PutEffect ==
  ASSUME stack \in Stacks, NEW t \in Threads, stack[t] # <<>>, NEW f \in Frame, Put(t, f)
  PROVE  /\ stack' \in Stacks
         /\ \A u \in Threads \ {t} : stack'[u] = stack[u]
         /\ Len(stack'[t]) = Len(stack[t])
         /\ stack'[t][1] = f
         /\ \A i \in Calls(t) : i > 1 => stack'[t][i] = stack[t][i]
<1>1. stack[t] \in Seq(Frame) /\ Len(stack[t]) \in Nat
  BY DEF Stacks
<1>2. /\ stack' = [stack EXCEPT ![t] = <<f>> \o Tail(stack[t])]
      /\ stack'[t] = <<f>> \o Tail(stack[t])
  BY DEF Put, Stacks
<1>3. /\ Tail(stack[t]) \in Seq(Frame)
      /\ Len(Tail(stack[t])) = Len(stack[t]) - 1
      /\ \A i \in 1..Len(Tail(stack[t])) : Tail(stack[t])[i] = stack[t][i + 1]
  BY <1>1, HeadTailProperties
<1>4. /\ stack'[t] \in Seq(Frame)
      /\ Len(stack'[t]) = Len(Tail(stack[t])) + 1
      /\ stack'[t][1] = f
      /\ \A i \in 1..Len(Tail(stack[t])) : stack'[t][i + 1] = Tail(stack[t])[i]
  BY <1>2, <1>3, HeadTailCons
<1>5. ASSUME NEW i \in Calls(t), i > 1 PROVE stack'[t][i] = stack[t][i]
  <2>1. i - 1 \in 1..Len(Tail(stack[t])) /\ (i - 1) + 1 = i
    BY <1>1, <1>3, <1>5 DEF Calls
  <2> QED BY <1>3, <1>4, <2>1
<1>6. Len(stack'[t]) = Len(stack[t])
  BY <1>1, <1>3, <1>4
<1>7. stack' \in Stacks /\ \A u \in Threads \ {t} : stack'[u] = stack[u]
  BY <1>2, <1>4 DEF Stacks
<1> QED BY <1>4, <1>5, <1>6, <1>7

-----------------------------------------------------------------------------
(* Calls between acquisition and release, counted before and after.        *)
Passing == {"acquire", "waiting", "closing"}

LEMMA InsideBy ==
  ASSUME stack \in Stacks, NEW t \in Threads
  PROVE  /\ Len(stack[t]) \in Nat
         /\ stack[t] = <<>> <=> Len(stack[t]) = 0
         /\ Inside(t) = IF Len(stack[t]) > 0 /\ stack[t][1].at \in Passing
                          THEN Len(stack[t]) - 1 ELSE Len(stack[t])
         /\ \A a : At(t, a) <=> Len(stack[t]) > 0 /\ stack[t][1].at = a
<1>1. stack[t] \in Seq(Frame)
  BY DEF Stacks
<1>2. Len(stack[t]) \in Nat /\ (stack[t] = <<>> <=> Len(stack[t]) = 0)
  BY <1>1, EmptySeq
<1>3. stack[t] # <<>> => Head(stack[t]) = stack[t][1]
  BY <1>1
<1>4. ASSUME NEW a PROVE At(t, a) <=> Len(stack[t]) > 0 /\ stack[t][1].at = a
  BY <1>2, <1>3 DEF At, Top
<1>5. Outside(t) <=> Len(stack[t]) > 0 /\ stack[t][1].at \in Passing
  BY <1>2, <1>4 DEF Outside, Passing
<1> QED BY <1>2, <1>4, <1>5 DEF Inside

LEMMA InsideNext ==
  ASSUME stack' \in Stacks, NEW t \in Threads
  PROVE  /\ Len(stack'[t]) \in Nat
         /\ stack'[t] = <<>> <=> Len(stack'[t]) = 0
         /\ Inside(t)' = IF Len(stack'[t]) > 0 /\ stack'[t][1].at \in Passing
                           THEN Len(stack'[t]) - 1 ELSE Len(stack'[t])
<1>1. stack'[t] \in Seq(Frame)
  BY DEF Stacks
<1>2. Len(stack'[t]) \in Nat /\ (stack'[t] = <<>> <=> Len(stack'[t]) = 0)
  BY <1>1, EmptySeq
<1>3. stack'[t] # <<>> => Head(stack'[t]) = stack'[t][1]
  BY <1>1
<1>5. Outside(t)' <=> Len(stack'[t]) > 0 /\ stack'[t][1].at \in Passing
  BY <1>2, <1>3 DEF Outside, Passing, At, Top
<1> QED BY <1>2, <1>5 DEF Inside

-----------------------------------------------------------------------------
(* The stack part of the invariant under the three operations.             *)
StackTyped == stack \in Stacks /\ \A t \in Threads : Len(stack[t]) <= MaxDepth
StackInv   == StackTyped /\ StackShape

LEMMA TypeHasStacks == ASSUME TypeOK PROVE StackTyped
  BY DEF TypeOK, StackTyped, Stacks

LEMMA PushKeeps ==
  ASSUME StackInv, NEW t \in Threads, NEW f \in Frame, Push(t, f),
         Legal(f), f.at \in Passing,
         stack[t] = <<>> \/ (At(t, "acting") /\ Len(stack[t]) < MaxDepth)
  PROVE  /\ StackInv'
         /\ \A u \in Threads : Inside(u)' = Inside(u)
         /\ \A u \in Threads \ {t} : stack'[u] = stack[u]
<1>1. stack \in Stacks /\ stack[t] \in Seq(Frame)
  BY DEF StackInv, StackTyped, Stacks
<1>2. /\ stack' \in Stacks
      /\ \A u \in Threads \ {t} : stack'[u] = stack[u]
      /\ Len(stack'[t]) = Len(stack[t]) + 1
      /\ stack'[t][1] = f
      /\ \A i \in Calls(t) : stack'[t][i + 1] = stack[t][i]
  BY <1>1, PushEffect
<1>3. /\ Len(stack[t]) \in Nat
      /\ Len(stack[t]) > 0 => stack[t][1].at = "acting"
      /\ Inside(t) = Len(stack[t])
      /\ Len(stack[t]) < MaxDepth
  BY <1>1, InsideBy, BoundsAssumption DEF Passing
<1>4. Inside(t)' = Inside(t)
  BY <1>2, <1>3, InsideNext
<1>5. \A u \in Threads \ {t} : Inside(u)' = Inside(u)
  BY <1>1, <1>2, InsideNext, InsideBy
<1>6. StackTyped'
  BY <1>2, <1>3, BoundsAssumption DEF StackInv, StackTyped
<1>7. ASSUME NEW u \in Threads, NEW i \in Calls(u)'
      PROVE  Legal(stack'[u][i]) /\ (i > 1 => stack'[u][i].at = "acting")
  <2>1. CASE u # t
    BY <1>2, <1>7, <2>1 DEF StackInv, StackShape, Calls
  <2>2. CASE u = t /\ i = 1
    BY <1>2, <2>2
  <2>3. CASE u = t /\ i > 1
    <3>1. i - 1 \in Calls(t) /\ stack'[t][i] = stack[t][i - 1]
      BY <1>2, <1>3, <1>7, <2>3 DEF Calls
    <3>2. stack[t][i - 1].at = "acting"
      BY <1>3, <3>1 DEF StackInv, StackShape, Calls
    <3> QED BY <2>3, <3>1, <3>2 DEF StackInv, StackShape
  <2> QED BY <1>2, <1>3, <1>7, <2>1, <2>2, <2>3 DEF Calls
<1>8. StackShape'
  BY <1>7 DEF StackShape
<1> QED BY <1>2, <1>4, <1>5, <1>6, <1>8 DEF StackInv

LEMMA PopKeeps ==
  ASSUME StackInv, NEW t \in Threads, stack[t] # <<>>, Pop(t)
  PROVE  /\ StackInv'
         /\ Inside(t)' = IF stack[t][1].at \in Passing THEN Inside(t) ELSE Inside(t) - 1
         /\ \A u \in Threads \ {t} : Inside(u)' = Inside(u)
         /\ \A u \in Threads \ {t} : stack'[u] = stack[u]
         /\ \A i \in Calls(t)' : stack'[t][i].at = "acting"
<1>1. stack \in Stacks /\ stack[t] \in Seq(Frame)
  BY DEF StackInv, StackTyped, Stacks
<1>2. /\ stack' \in Stacks
      /\ \A u \in Threads \ {t} : stack'[u] = stack[u]
      /\ Len(stack'[t]) = Len(stack[t]) - 1
      /\ \A i \in Calls(t) : i > 1 => stack'[t][i - 1] = stack[t][i]
  BY <1>1, PopEffect
<1>3. Len(stack[t]) \in Nat \ {0}
  BY <1>1, InsideBy
<1>4. ASSUME NEW i \in Calls(t)'
      PROVE  i + 1 \in Calls(t) /\ i + 1 > 1 /\ stack'[t][i] = stack[t][i + 1]
  <2>1. i + 1 \in Calls(t) /\ i + 1 > 1 /\ (i + 1) - 1 = i
    BY <1>2, <1>3, <1>4 DEF Calls
  <2> QED BY <1>2, <2>1
<1>5. \A i \in Calls(t)' : stack'[t][i].at = "acting" /\ Legal(stack'[t][i])
  BY <1>4 DEF StackInv, StackShape
<1>6. \A u \in Threads \ {t} : Inside(u)' = Inside(u)
  BY <1>1, <1>2, InsideNext, InsideBy
<1>7. Len(stack'[t]) > 0 => stack'[t][1].at = "acting"
  BY <1>2, <1>3, <1>5 DEF Calls
<1>8. Inside(t)' = Len(stack[t]) - 1
  BY <1>2, <1>3, <1>7, InsideNext DEF Passing
<1>9. Inside(t) = IF stack[t][1].at \in Passing THEN Len(stack[t]) - 1 ELSE Len(stack[t])
  BY <1>1, <1>3, InsideBy
<1>10. StackTyped'
  BY <1>2, <1>3, BoundsAssumption DEF StackInv, StackTyped
<1>11. StackShape'
  <2> SUFFICES ASSUME NEW u \in Threads, NEW i \in Calls(u)'
               PROVE  Legal(stack'[u][i]) /\ (i > 1 => stack'[u][i].at = "acting")
    BY DEF StackShape
  <2>1. CASE u # t
    BY <1>2, <2>1 DEF StackInv, StackShape, Calls
  <2>2. CASE u = t
    BY <1>5, <2>2
  <2> QED BY <2>1, <2>2
<1> QED BY <1>2, <1>5, <1>6, <1>8, <1>9, <1>10, <1>11 DEF StackInv

LEMMA PutKeeps ==
  ASSUME StackInv, NEW t \in Threads, stack[t] # <<>>, NEW f \in Frame, Put(t, f), Legal(f)
  PROVE  /\ StackInv'
         /\ Inside(t)' = Inside(t) + (IF stack[t][1].at \in Passing THEN 1 ELSE 0)
                                   - (IF f.at \in Passing THEN 1 ELSE 0)
         /\ \A u \in Threads \ {t} : Inside(u)' = Inside(u)
         /\ \A u \in Threads \ {t} : stack'[u] = stack[u]
         /\ stack'[t][1] = f
         /\ \A i \in Calls(t)' : i > 1 => stack'[t][i].at = "acting"
<1>1. stack \in Stacks /\ stack[t] \in Seq(Frame)
  BY DEF StackInv, StackTyped, Stacks
<1>2. /\ stack' \in Stacks
      /\ \A u \in Threads \ {t} : stack'[u] = stack[u]
      /\ Len(stack'[t]) = Len(stack[t])
      /\ stack'[t][1] = f
      /\ \A i \in Calls(t) : i > 1 => stack'[t][i] = stack[t][i]
  BY <1>1, PutEffect
<1>3. Len(stack[t]) \in Nat \ {0}
  BY <1>1, InsideBy
<1>4. \A u \in Threads \ {t} : Inside(u)' = Inside(u)
  BY <1>1, <1>2, InsideNext, InsideBy
<1>5. Inside(t)' = IF f.at \in Passing THEN Len(stack[t]) - 1 ELSE Len(stack[t])
  BY <1>2, <1>3, InsideNext
<1>6. Inside(t) = IF stack[t][1].at \in Passing THEN Len(stack[t]) - 1 ELSE Len(stack[t])
  BY <1>1, <1>3, InsideBy
<1>7. Inside(t)' = Inside(t) + (IF stack[t][1].at \in Passing THEN 1 ELSE 0)
                             - (IF f.at \in Passing THEN 1 ELSE 0)
  BY <1>3, <1>5, <1>6
<1>8. StackTyped'
  BY <1>2, <1>3, BoundsAssumption DEF StackInv, StackTyped
<1>9. Calls(t)' = Calls(t)
  BY <1>2 DEF Calls
<1>10. \A i \in Calls(t)' : i > 1 => stack'[t][i].at = "acting"
  BY <1>2, <1>9 DEF StackInv, StackShape
<1>11. StackShape'
  <2> SUFFICES ASSUME NEW u \in Threads, NEW i \in Calls(u)'
               PROVE  Legal(stack'[u][i]) /\ (i > 1 => stack'[u][i].at = "acting")
    BY DEF StackShape
  <2>1. CASE u # t
    BY <1>2, <2>1 DEF StackInv, StackShape, Calls
  <2>2. CASE u = t /\ i = 1
    BY <1>2, <2>2
  <2>3. CASE u = t /\ i > 1
    BY <1>2, <1>9, <2>3 DEF StackInv, StackShape
  <2> QED BY <1>2, <1>3, <2>1, <2>2, <2>3 DEF Calls
<1> QED BY <1>2, <1>4, <1>7, <1>8, <1>10, <1>11 DEF StackInv

-----------------------------------------------------------------------------
(* The newest call of a thread. *)
LEMMA TopFacts ==
  ASSUME StackInv, NEW t \in Threads, stack[t] # <<>>
  PROVE  /\ Top(t) = stack[t][1] /\ Top(t) \in Frame /\ Legal(Top(t))
         /\ \A a : At(t, a) <=> Top(t).at = a
<1>1. Top(t) = stack[t][1] /\ Top(t) \in Frame /\ 1 \in Calls(t)
  BY TopIsFirst DEF StackInv, StackTyped
<1> QED BY <1>1 DEF StackInv, StackShape, At

LEMMA NewFrameType ==
  ASSUME NEW kind \in {"direct", "pooled", "overflow", "close"},
         NEW at \in {"acquire", "open", "slot", "acting", "restore", "release",
                     "waiting", "closing"}
  PROVE  NewFrame(kind, at) \in Frame
  BY DEF NewFrame, Frame

(* What is true of the lock when a step leaves it alone. *)
LEMMA CountsKept ==
  ASSUME LockCounts, NEW t \in Threads, UNCHANGED lock,
         status'[t] \in {status[t], "killed"} \/ (status[t] # "killed" /\ status'[t] # "killed"),
         \A u \in Threads \ {t} : Inside(u)' = Inside(u) /\ status'[u] = status[u],
         Inside(t)' = Inside(t)
  PROVE  LockCounts'
  BY DEF LockCounts

LEMMA KilledKept ==
  ASSUME KilledIsLeaving, NEW t \in Threads,
         \A u \in Threads \ {t} : stack'[u] = stack[u] /\ status'[u] = status[u],
         \/ status'[t] # "killed"
         \/ \A i \in Calls(t)' : stack'[t][i].at \in {"acting", "restore", "release"}
  PROVE  KilledIsLeaving'
  BY DEF KilledIsLeaving, Calls

LEMMA CallLock == ASSUME LockInv, NEW t \in Threads, NEW k \in {"direct", "pooled"}, Call(t, k)
                  PROVE  LockInv'
<1> DEFINE f == NewFrame(k, "acquire")
<1>1. StackInv
  BY TypeHasStacks DEF LockInv, StackInv
<1>2. f \in Frame
  BY NewFrameType
<1>3. Legal(f) /\ f.at \in Passing
  BY NoConnAssumption DEF NewFrame, Legal, Passing
<1>4. /\ StackInv'
      /\ \A u \in Threads : Inside(u)' = Inside(u)
      /\ \A u \in Threads \ {t} : stack'[u] = stack[u]
  BY <1>1, <1>2, <1>3, PushKeeps DEF Call
<1>5. TypeOK'
  BY <1>4, BoundsAssumption DEF LockInv, TypeOK, Call, StackInv, StackTyped, Stacks
<1>6. KilledIsLeaving'
  BY <1>4, KilledKept DEF LockInv, Call
<1>7. LockCounts'
  BY <1>4, CountsKept DEF LockInv, Call
<1> QED BY <1>4, <1>5, <1>6, <1>7 DEF LockInv, StackInv

LEMMA CallCloseLock == ASSUME LockInv, NEW t \in Threads, CallClose(t) PROVE LockInv'
<1> DEFINE f == NewFrame("close", "waiting")
<1>1. StackInv
  BY TypeHasStacks DEF LockInv, StackInv
<1>2. f \in Frame
  BY NewFrameType
<1>3. Legal(f) /\ f.at \in Passing
  BY NoConnAssumption DEF NewFrame, Legal, Passing
<1>4. /\ StackInv'
      /\ \A u \in Threads : Inside(u)' = Inside(u)
      /\ \A u \in Threads \ {t} : stack'[u] = stack[u]
  BY <1>1, <1>2, <1>3, PushKeeps DEF CallClose
<1>5. TypeOK'
  BY <1>4, BoundsAssumption DEF LockInv, TypeOK, CallClose, StackInv, StackTyped, Stacks
<1>6. KilledIsLeaving'
  BY <1>4, KilledKept DEF LockInv, CallClose
<1>7. LockCounts'
  BY <1>4, CountsKept DEF LockInv, CallClose
<1> QED BY <1>4, <1>5, <1>6, <1>7 DEF LockInv, StackInv

LEMMA AcquireLock == ASSUME LockInv, NEW t \in Threads, Acquire(t) PROVE LockInv'
<1> DEFINE f == [Top(t) EXCEPT !.at = IF Top(t).kind = "direct" THEN "open" ELSE "slot"]
<1>1. StackInv /\ stack[t] # <<>>
  BY TypeHasStacks DEF LockInv, StackInv, Acquire, At
<1>2. Top(t) = stack[t][1] /\ Top(t) \in Frame /\ Legal(Top(t)) /\ Top(t).at = "acquire"
  BY <1>1, TopFacts DEF Acquire
<1>3. f \in Frame /\ Legal(f) /\ f.at \notin Passing
  BY <1>2 DEF Frame, Legal, Passing
<1>4. Put(t, f)
  BY DEF Acquire, Move
<1>5. /\ StackInv'
      /\ Inside(t)' = Inside(t) + 1
      /\ \A u \in Threads \ {t} : Inside(u)' = Inside(u) /\ stack'[u] = stack[u]
      /\ stack'[t][1] = f
      /\ \A i \in Calls(t)' : i > 1 => stack'[t][i].at = "acting"
  <2>1. Inside(t)' = Inside(t) + 1 - 0
    BY <1>1, <1>2, <1>3, <1>4, PutKeeps DEF Passing
  <2>2. Inside(t) \in Int
    BY <1>1, InsideBy DEF StackInv, StackTyped
  <2> QED BY <1>1, <1>3, <1>4, <2>1, <2>2, PutKeeps
<1>6. /\ Inside(t) = Len(stack[t]) - 1 /\ Len(stack[t]) \in Nat \ {0}
      /\ Len(stack[t]) <= MaxDepth
      /\ status[t] # "killed"
  <2>1. 1 \in Calls(t)
    BY <1>1, TopIsFirst DEF StackInv, StackTyped
  <2> QED BY <1>1, <1>2, <2>1, InsideBy DEF StackInv, StackTyped, LockInv, KilledIsLeaving, Passing
<1>7. /\ lock.depth \in Nat
      /\ lock.depth = Inside(t)
      /\ lock' = [owner |-> t, depth |-> lock.depth + 1]
  <2>1. CASE lock.owner = t
    BY <1>6, <2>1 DEF Acquire, LockInv, LockCounts, TypeOK
  <2>2. CASE lock.owner = Nobody
    BY <1>6, <2>2, NobodyAssumption DEF Acquire, LockInv, LockCounts, TypeOK
  <2> QED BY <2>1, <2>2 DEF Acquire
<1>8. TypeOK'
  BY <1>5, <1>6, <1>7, BoundsAssumption
     DEF LockInv, TypeOK, Acquire, StackInv, StackTyped, Stacks
<1>9. KilledIsLeaving'
  BY <1>5, <1>6, KilledKept DEF LockInv, Acquire
<1>10. LockCounts'
  <2>1. \A u \in Threads \ {t} : ~(Inside(u) > 0)
    BY NobodyAssumption DEF Acquire, LockInv, LockCounts
  <2> QED BY <1>5, <1>6, <1>7, <2>1, NobodyAssumption DEF Acquire, LockInv, LockCounts
<1> QED BY <1>5, <1>8, <1>9, <1>10 DEF LockInv, StackInv

(* The variables beside lock, stack and status keep their types. *)
RestTyped ==
  /\ slot \in [full : BOOLEAN, idle : SUBSET Conns]
  /\ open \in SUBSET Conns /\ dirty \in SUBSET Conns /\ lost \in SUBSET Conns
  /\ calls \in 0..MaxCalls

(* A step that replaces the newest call of t and leaves the lock alone. *)
LEMMA PutLock ==
  ASSUME LockInv, NEW t \in Threads, stack[t] # <<>>,
         NEW f \in Frame, Legal(f), Put(t, f),
         Top(t).at \in Passing <=> f.at \in Passing,
         UNCHANGED lock, RestTyped',
         \/ UNCHANGED status /\ (status[t] # "killed" \/ f.at \in {"acting", "restore", "release"})
         \/ /\ status' = [status EXCEPT ![t] = "killed"]
            /\ f.at \in {"acting", "restore", "release"}
  PROVE  LockInv'
<1>1. StackInv
  BY TypeHasStacks DEF LockInv, StackInv
<1>2. Top(t) = stack[t][1]
  BY <1>1, TopFacts
<1>3. /\ StackInv'
      /\ Inside(t)' = Inside(t) + (IF stack[t][1].at \in Passing THEN 1 ELSE 0)
                                - (IF f.at \in Passing THEN 1 ELSE 0)
      /\ \A u \in Threads \ {t} : Inside(u)' = Inside(u) /\ stack'[u] = stack[u]
      /\ stack'[t][1] = f
      /\ \A i \in Calls(t)' : i > 1 => stack'[t][i].at = "acting"
  BY <1>1, PutKeeps
<1>4. Inside(t)' = Inside(t)
  <2>1. Inside(t) \in Int
    BY <1>1, InsideBy DEF StackInv, StackTyped
  <2> QED BY <1>2, <1>3, <2>1
<1>5. /\ status' \in [Threads -> {"running", "signalled", "killed"}]
      /\ status'[t] \in {status[t], "killed"}
      /\ \A u \in Threads \ {t} : status'[u] = status[u]
      /\ status'[t] # "killed" \/ f.at \in {"acting", "restore", "release"}
  BY DEF LockInv, TypeOK
<1>6. TypeOK'
  BY <1>3, <1>5 DEF LockInv, TypeOK, RestTyped, StackInv, StackTyped, Stacks
<1>7. KilledIsLeaving'
  <2>1. ASSUME f.at \in {"acting", "restore", "release"}, NEW i \in Calls(t)'
        PROVE  stack'[t][i].at \in {"acting", "restore", "release"}
    BY <1>3, <2>1 DEF Calls
  <2> QED BY <1>3, <1>5, <2>1, KilledKept DEF LockInv
<1>8. LockCounts'
  BY <1>3, <1>4, <1>5, CountsKept DEF LockInv
<1> QED BY <1>3, <1>6, <1>7, <1>8 DEF LockInv, StackInv

(* A thread on its way to something is not killed. *)
LEMMA TopOfLockInv ==
  ASSUME LockInv, NEW t \in Threads, stack[t] # <<>>
  PROVE  /\ StackInv
         /\ Top(t) \in Frame /\ Legal(Top(t))
         /\ \A a : At(t, a) <=> Top(t).at = a
         /\ status[t] = "killed" => Top(t).at \in {"acting", "restore", "release"}
<1>1. StackInv
  BY TypeHasStacks DEF LockInv, StackInv
<1>2. Top(t) = stack[t][1] /\ 1 \in Calls(t)
  BY <1>1, TopIsFirst DEF StackInv, StackTyped
<1> QED BY <1>1, <1>2, TopFacts DEF LockInv, KilledIsLeaving

LEMMA OpenLock == ASSUME LockInv, NEW t \in Threads, Open(t) PROVE LockInv'
<1>1. stack[t] # <<>>
  BY DEF Open, At
<1>2. /\ Top(t) \in Frame /\ Legal(Top(t)) /\ Top(t).at = "open"
      /\ status[t] # "killed"
  BY <1>1, TopOfLockInv DEF Open
<1>3. RestTyped'
  BY DEF Open, Connect, LockInv, TypeOK, RestTyped
<1>4. ASSUME NEW c \in Conns, Put(t, [Top(t) EXCEPT !.at = "acting", !.conn = c]), UNCHANGED status
      PROVE  LockInv'
  <2> DEFINE f == [Top(t) EXCEPT !.at = "acting", !.conn = c]
  <2>1. f \in Frame /\ Legal(f) /\ f.at = "acting"
    BY <1>2, NoConnAssumption DEF Frame, Legal
  <2> QED BY <1>1, <1>2, <1>3, <1>4, <2>1, PutLock DEF Open, Passing
<1>5. ASSUME Move(t, "release"),
             UNCHANGED status \/ status' = [status EXCEPT ![t] = "killed"]
      PROVE  LockInv'
  <2> DEFINE f == [Top(t) EXCEPT !.at = "release"]
  <2>1. f \in Frame /\ Legal(f) /\ f.at = "release"
    BY <1>2, NoConnAssumption DEF Frame, Legal
  <2>2. Put(t, f)
    BY <1>5 DEF Move
  <2> QED BY <1>1, <1>2, <1>3, <1>5, <2>1, <2>2, PutLock DEF Open, Passing
<1> QED BY <1>4, <1>5 DEF Open

LEMMA TakeSlotLock == ASSUME LockInv, NEW t \in Threads, TakeSlot(t) PROVE LockInv'
<1>1. stack[t] # <<>>
  BY DEF TakeSlot, At
<1>2. /\ Top(t) \in Frame /\ Legal(Top(t)) /\ Top(t).at = "slot"
      /\ Top(t).kind = "pooled" /\ Top(t).conn = NoConn /\ Top(t).rest = {}
      /\ status[t] # "killed"
  <2>1. /\ Top(t) \in Frame /\ Legal(Top(t)) /\ Top(t).at = "slot"
        /\ status[t] # "killed"
    BY <1>1, TopOfLockInv DEF TakeSlot
  <2> QED BY <2>1 DEF Legal
<1>3. RestTyped'
  BY DEF TakeSlot, Connect, Taken, LockInv, TypeOK, RestTyped
<1>4. ASSUME NEW c \in slot.idle,
             Put(t, [Top(t) EXCEPT !.at = "acting", !.conn = c, !.rest = slot.idle \ {c}])
      PROVE  LockInv'
  <2> DEFINE f == [Top(t) EXCEPT !.at = "acting", !.conn = c, !.rest = slot.idle \ {c}]
  <2>1. f \in Frame /\ f.at = "acting"
    BY <1>2 DEF Frame, LockInv, TypeOK
  <2>2. Legal(f)
    BY <1>2, NoConnAssumption DEF Frame, Legal, LockInv, TypeOK
  <2> QED BY <1>1, <1>2, <1>3, <1>4, <2>1, <2>2, PutLock DEF TakeSlot, Passing
<1>5. ASSUME NEW c \in Conns,
             Put(t, [Top(t) EXCEPT !.kind = "overflow", !.at = "acting", !.conn = c])
      PROVE  LockInv'
  <2> DEFINE f == [Top(t) EXCEPT !.kind = "overflow", !.at = "acting", !.conn = c]
  <2>1. f \in Frame /\ Legal(f) /\ f.at = "acting"
    BY <1>2, NoConnAssumption DEF Frame, Legal
  <2> QED BY <1>1, <1>2, <1>3, <1>5, <2>1, PutLock DEF TakeSlot, Passing
<1>6. ASSUME Move(t, "release")
      PROVE  LockInv'
  <2> DEFINE f == [Top(t) EXCEPT !.at = "release"]
  <2>1. f \in Frame /\ Legal(f) /\ f.at = "release"
    BY <1>2, NoConnAssumption DEF Frame, Legal
  <2>2. Put(t, f)
    BY <1>6 DEF Move
  <2> QED BY <1>1, <1>2, <1>3, <2>1, <2>2, PutLock DEF TakeSlot, Passing
<1> QED BY <1>4, <1>5, <1>6 DEF TakeSlot

LEMMA SlotTimeoutLock == ASSUME LockInv, NEW t \in Threads, SlotTimeout(t) PROVE LockInv'
<1> DEFINE f == [Top(t) EXCEPT !.at = "release"]
<1>1. stack[t] # <<>>
  BY DEF SlotTimeout, At
<1>2. Top(t) \in Frame /\ Legal(Top(t)) /\ Top(t).at = "slot"
  BY <1>1, TopOfLockInv DEF SlotTimeout
<1>3. f \in Frame /\ Legal(f) /\ f.at = "release"
  BY <1>2, NoConnAssumption DEF Frame, Legal
<1>4. RestTyped' /\ Put(t, f)
  BY DEF SlotTimeout, Move, LockInv, TypeOK, RestTyped
<1> QED BY <1>1, <1>2, <1>3, <1>4, PutLock DEF SlotTimeout, Passing

(* Finish is a step of a running thread or the last but release of a killed. *)
LEMMA FinishLock ==
  ASSUME LockInv, NEW t \in Threads, Finish(t), UNCHANGED <<lock, slot, open, lost, calls>>,
         UNCHANGED status \/ status' = [status EXCEPT ![t] = "killed"]
  PROVE  LockInv'
<1> DEFINE f == [Top(t) EXCEPT !.at = "restore"]
<1>1. stack[t] # <<>>
  BY DEF Finish, At
<1>2. Top(t) \in Frame /\ Legal(Top(t)) /\ Top(t).at = "acting"
  BY <1>1, TopOfLockInv DEF Finish
<1>3. f \in Frame /\ f.at = "restore" /\ Top(t).conn \in Conns
  BY <1>2 DEF Frame, Legal
<1>4. Legal(f)
  BY <1>2, NoConnAssumption DEF Frame, Legal
<1>5. RestTyped' /\ Put(t, f)
  BY <1>3 DEF Finish, Move, LockInv, TypeOK, RestTyped
<1> QED BY <1>1, <1>2, <1>3, <1>4, <1>5, PutLock DEF Passing

LEMMA ReleaseFrame ==
  ASSUME NEW kind \in {"direct", "pooled", "overflow"}
  PROVE  /\ NewFrame(kind, "release") \in Frame
         /\ Legal(NewFrame(kind, "release"))
         /\ NewFrame(kind, "release").at = "release"
  BY NoConnAssumption DEF NewFrame, Frame, Legal

LEMMA RestoreLock ==
  ASSUME LockInv, NEW t \in Threads, Restore(t) \/ KillInLog(t)
  PROVE  LockInv'
<1> DEFINE f == NewFrame(Top(t).kind, "release")
<1>1. stack[t] # <<>>
  BY DEF Restore, KillInLog, At
<1>2. Top(t) \in Frame /\ Legal(Top(t)) /\ Top(t).at = "restore"
  BY <1>1, TopOfLockInv DEF Restore, KillInLog
<1>3. /\ Top(t).kind \in {"direct", "pooled", "overflow"}
      /\ Top(t).conn \in Conns /\ Top(t).rest \subseteq Conns
  BY <1>2 DEF Frame, Legal
<1>4. f \in Frame /\ Legal(f) /\ f.at = "release"
  BY <1>3, ReleaseFrame
<1>5. CASE Restore(t)
  <2>1. slot' \in [full : BOOLEAN, idle : SUBSET Conns]
    <3>1. \A cs \in SUBSET Conns : Full(cs) \in [full : BOOLEAN, idle : SUBSET Conns]
      BY DEF Full
    <3>2. Top(t).rest \cup {Top(t).conn} \in SUBSET Conns
      BY <1>3
    <3> QED BY <1>3, <1>5, <3>1, <3>2 DEF Restore, CloseOwn, GiveBack, LockInv, TypeOK
  <2>2. open' \in SUBSET Conns /\ dirty' \in SUBSET Conns
    BY <1>5 DEF Restore, CloseOwn, GiveBack, LockInv, TypeOK
  <2>3. RestTyped'
    BY <1>5, <2>1, <2>2 DEF Restore, LockInv, TypeOK, RestTyped
  <2> QED BY <1>1, <1>2, <1>4, <1>5, <2>3, PutLock DEF Restore, Passing
<1>6. CASE KillInLog(t)
  <2>1. RestTyped' /\ Put(t, f)
    BY <1>3, <1>6 DEF KillInLog, LockInv, TypeOK, RestTyped
  <2> QED BY <1>1, <1>2, <1>4, <1>6, <2>1, PutLock DEF KillInLog, Passing
<1> QED BY <1>5, <1>6

LEMMA CloseTakesLock == ASSUME LockInv, NEW t \in Threads, CloseTakes(t) PROVE LockInv'
<1> DEFINE f == [Top(t) EXCEPT !.at = "closing", !.rest = slot.idle]
<1>1. stack[t] # <<>>
  BY DEF CloseTakes, At
<1>2. /\ Top(t) \in Frame /\ Legal(Top(t)) /\ Top(t).at = "waiting"
      /\ status[t] # "killed"
  BY <1>1, TopOfLockInv DEF CloseTakes
<1>3. f \in Frame /\ f.at = "closing"
  BY <1>2 DEF Frame, LockInv, TypeOK
<1>4. Legal(f)
  BY <1>2, NoConnAssumption DEF Frame, Legal, LockInv, TypeOK
<1>5. RestTyped'
  BY DEF CloseTakes, Taken, LockInv, TypeOK, RestTyped
<1> QED BY <1>1, <1>2, <1>3, <1>4, <1>5, PutLock DEF CloseTakes, Passing

(* A step that takes the newest call of t off its stack. *)
LEMMA PopLock ==
  ASSUME LockInv, NEW t \in Threads, stack[t] # <<>>, Pop(t), RestTyped',
         status' \in {status, [status EXCEPT ![t] = "killed"]}
  PROVE  /\ StackInv' /\ KilledIsLeaving'
         /\ status' \in [Threads -> {"running", "signalled", "killed"}]
         /\ status'[t] \in {status[t], "killed"}
         /\ \A u \in Threads \ {t} : Inside(u)' = Inside(u) /\ status'[u] = status[u]
         /\ Inside(t)' = IF Top(t).at \in Passing THEN Inside(t) ELSE Inside(t) - 1
<1>1. StackInv
  BY TypeHasStacks DEF LockInv, StackInv
<1>2. Top(t) = stack[t][1]
  BY <1>1, TopFacts
<1>3. /\ StackInv'
      /\ Inside(t)' = IF stack[t][1].at \in Passing THEN Inside(t) ELSE Inside(t) - 1
      /\ \A u \in Threads \ {t} : Inside(u)' = Inside(u) /\ stack'[u] = stack[u]
      /\ \A i \in Calls(t)' : stack'[t][i].at = "acting"
  BY <1>1, PopKeeps
<1>4. /\ status' \in [Threads -> {"running", "signalled", "killed"}]
      /\ status'[t] \in {status[t], "killed"}
      /\ \A u \in Threads \ {t} : status'[u] = status[u]
  BY DEF LockInv, TypeOK
<1>5. KilledIsLeaving'
  BY <1>3, <1>4, KilledKept DEF LockInv
<1> QED BY <1>2, <1>3, <1>4, <1>5

LEMMA ReleaseLock == ASSUME LockInv, NEW t \in Threads, Release(t) PROVE LockInv'
<1>1. stack[t] # <<>> /\ RestTyped'
  BY DEF Release, At, LockInv, TypeOK, RestTyped
<1>2. StackInv /\ Top(t).at = "release"
  BY <1>1, TopOfLockInv DEF Release
<1>3. /\ StackInv' /\ KilledIsLeaving'
      /\ \A u \in Threads \ {t} : Inside(u)' = Inside(u) /\ status'[u] = status[u]
      /\ Inside(t)' = Inside(t) - 1
  BY <1>1, <1>2, PopLock DEF Release, Passing
<1>4. Inside(t) = Len(stack[t]) /\ Len(stack[t]) \in Nat \ {0} /\ Len(stack[t]) <= MaxDepth
  <2>1. Top(t) = stack[t][1] /\ Len(stack[t]) \in Nat \ {0}
    BY <1>1, <1>2, TopIsFirst DEF StackInv, StackTyped
  <2> QED BY <1>2, <2>1, InsideBy DEF StackInv, StackTyped, Passing
<1>5. lock.owner = t /\ lock.depth \in 1..MaxDepth /\ lock.depth >= Inside(t)
  BY <1>4 DEF LockInv, LockCounts, TypeOK
<1>6. lock' = IF lock.depth > 1 THEN [lock EXCEPT !.depth = @ - 1] ELSE Free
  BY <1>5 DEF Release, Released
<1>7. lock' \in [owner : Threads \cup {Nobody}, depth : 0..MaxDepth]
  BY <1>5, <1>6, BoundsAssumption DEF Free, LockInv, TypeOK
<1>8. TypeOK'
  BY <1>1, <1>3, <1>7 DEF Release, LockInv, TypeOK, StackInv, StackTyped, Stacks
<1>9. LockCounts'
  <2>1. \A u \in Threads \ {t} : ~(Inside(u) > 0)
    BY <1>5 DEF LockInv, LockCounts
  <2>2. UNCHANGED status
    BY DEF Release
  <2>3. CASE lock.depth > 1
    <3>1. lock'.owner = t /\ lock'.depth = lock.depth - 1
      BY <1>5, <1>6, <2>3 DEF LockInv, TypeOK
    <3> QED BY <1>3, <1>4, <1>5, <2>1, <2>2, <2>3, <3>1, NobodyAssumption DEF LockInv, LockCounts
  <2>4. CASE ~(lock.depth > 1)
    <3>1. lock' = Free
      BY <1>6, <2>4
    <3>2. lock.depth \in Nat /\ lock.depth <= 1
      <4>1. lock.depth \in 1..MaxDepth
        BY <1>5
      <4> QED BY <2>4, <4>1, BoundsAssumption
    <3>4. Inside(t) \in Nat \ {0} /\ lock.depth >= Inside(t)
      BY <1>4, <1>5
    <3>3. Inside(t)' = 0
      BY <1>3, <3>2, <3>4
    <3> QED BY <1>3, <2>1, <3>1, <3>3, NobodyAssumption DEF LockCounts, Free
  <2> QED BY <2>3, <2>4
<1> QED BY <1>3, <1>8, <1>9 DEF LockInv, StackInv

LEMMA CloseEndsLock == ASSUME LockInv, NEW t \in Threads, CloseEnds(t) PROVE LockInv'
<1>1. stack[t] # <<>>
  BY DEF CloseEnds, At
<1>2. StackInv /\ Top(t).at = "closing"
  BY <1>1, TopOfLockInv DEF CloseEnds
<1>3. RestTyped'
  BY DEF CloseEnds, Full, LockInv, TypeOK, RestTyped
<1>4. /\ StackInv' /\ KilledIsLeaving'
      /\ \A u \in Threads \ {t} : Inside(u)' = Inside(u) /\ status'[u] = status[u]
      /\ Inside(t)' = Inside(t)
  BY <1>1, <1>2, <1>3, PopLock DEF CloseEnds, Passing
<1>5. TypeOK'
  BY <1>3, <1>4 DEF CloseEnds, LockInv, TypeOK, RestTyped, StackInv, StackTyped, Stacks
<1>6. LockCounts'
  BY <1>4, CountsKept DEF CloseEnds, LockInv
<1> QED BY <1>4, <1>5, <1>6 DEF LockInv, StackInv

LEMMA SignalLock == ASSUME LockInv, NEW t \in Threads, Signal(t) PROVE LockInv'
<1>1. /\ status' \in [Threads -> {"running", "signalled", "killed"}]
      /\ status[t] # "killed" /\ status'[t] # "killed"
      /\ \A u \in Threads \ {t} : status'[u] = status[u]
  BY DEF Signal, LockInv, TypeOK
<1>2. UNCHANGED <<lock, stack>>
  BY DEF Signal
<1>3. \A u \in Threads : Inside(u)' = Inside(u)
  BY <1>2 DEF Inside, Outside, At, Top
<1>4. TypeOK' /\ StackShape'
  BY <1>1, <1>2 DEF Signal, LockInv, TypeOK, StackShape, Calls
<1>5. KilledIsLeaving'
  BY <1>1, <1>2 DEF LockInv, KilledIsLeaving, Calls
<1>6. LockCounts'
  BY <1>1, <1>2, <1>3, CountsKept DEF LockInv
<1> QED BY <1>4, <1>5, <1>6 DEF LockInv

LEMMA KillLock == ASSUME LockInv, NEW t \in Threads, Kill(t) PROVE LockInv'
<1>1. /\ status' = [status EXCEPT ![t] = "killed"]
      /\ UNCHANGED <<lock, slot, open, lost, calls>>
  BY DEF Kill
<1>2. CASE stack[t] = <<>> /\ UNCHANGED <<stack, dirty>>
  <2>1. \A u \in Threads : Inside(u)' = Inside(u)
    BY <1>2 DEF Inside, Outside, At, Top
  <2>2. Calls(t)' = {}
    BY <1>2, EmptySeq DEF Calls
  <2>3. /\ status' \in [Threads -> {"running", "signalled", "killed"}]
        /\ status'[t] = "killed"
        /\ \A u \in Threads \ {t} : status'[u] = status[u]
    BY <1>1 DEF LockInv, TypeOK
  <2>4. TypeOK' /\ StackShape'
    BY <1>1, <1>2, <2>3 DEF LockInv, TypeOK, StackShape, Calls
  <2>5. KilledIsLeaving'
    BY <1>2, <2>2, <2>3, KilledKept DEF LockInv
  <2>6. LockCounts'
    BY <1>1, <2>1, <2>3, CountsKept DEF LockInv
  <2> QED BY <2>4, <2>5, <2>6 DEF LockInv
<1>3. ASSUME \E a \in {"acquire", "waiting", "release"} : At(t, a), Pop(t), UNCHANGED dirty
      PROVE  LockInv'
  <2>1. stack[t] # <<>> /\ RestTyped'
    BY <1>1, <1>3 DEF At, LockInv, TypeOK, RestTyped
  <2>2. StackInv
    BY TypeHasStacks DEF LockInv, StackInv
  <2>3. /\ StackInv' /\ KilledIsLeaving'
        /\ status' \in [Threads -> {"running", "signalled", "killed"}]
        /\ status'[t] \in {status[t], "killed"}
        /\ \A u \in Threads \ {t} : Inside(u)' = Inside(u) /\ status'[u] = status[u]
        /\ Inside(t)' = IF Top(t).at \in Passing THEN Inside(t) ELSE Inside(t) - 1
    BY <1>1, <1>3, <2>1, PopLock
  <2>4. Inside(t) \in Int /\ lock.depth \in Nat /\ status'[t] = "killed"
    BY <1>1, <2>2, InsideBy DEF StackInv, StackTyped, LockInv, TypeOK
  <2>5. TypeOK'
    BY <1>1, <2>1, <2>3 DEF LockInv, TypeOK, RestTyped, StackInv, StackTyped, Stacks
  <2>6. LockCounts'
    BY <1>1, <2>3, <2>4 DEF LockInv, LockCounts
  <2> QED BY <2>3, <2>5, <2>6 DEF LockInv, StackInv
<1>4. CASE At(t, "slot") /\ Move(t, "release") /\ UNCHANGED dirty
  <2> DEFINE f == [Top(t) EXCEPT !.at = "release"]
  <2>1. stack[t] # <<>> /\ RestTyped' /\ Put(t, f)
    BY <1>1, <1>4 DEF At, Move, LockInv, TypeOK, RestTyped
  <2>2. Top(t) \in Frame /\ Legal(Top(t)) /\ Top(t).at = "slot"
    BY <1>4, <2>1, TopOfLockInv
  <2>3. f \in Frame /\ Legal(f) /\ f.at = "release"
    BY <2>2, NoConnAssumption DEF Frame, Legal
  <2> QED BY <1>1, <2>1, <2>2, <2>3, PutLock DEF Passing
<1>5. CASE Finish(t)
  BY <1>1, <1>5, FinishLock
<1> QED BY <1>2, <1>3, <1>4, <1>5 DEF Kill

-----------------------------------------------------------------------------
LEMMA InitLock == Init => LockInv
<1> SUFFICES ASSUME Init PROVE LockInv
  OBVIOUS
<1>1. stack \in Stacks /\ \A t \in Threads : Len(stack[t]) = 0
  BY DEF Init, Stacks
<1>2. \A t \in Threads : Inside(t) = 0
  BY <1>1, InsideBy
<1>3. TypeOK
  BY <1>1, BoundsAssumption DEF Init, TypeOK, Stacks, Free, Full
<1>4. StackShape /\ KilledIsLeaving
  BY <1>1 DEF Init, StackShape, KilledIsLeaving, Calls
<1>5. LockCounts
  BY <1>2, NobodyAssumption DEF Init, LockCounts, Free
<1> QED BY <1>3, <1>4, <1>5 DEF LockInv

LEMMA StutterLock == LockInv /\ UNCHANGED vars => LockInv'
<1> SUFFICES ASSUME LockInv, UNCHANGED vars PROVE LockInv'
  OBVIOUS
<1>1. \A t \in Threads : Inside(t)' = Inside(t)
  BY DEF vars, Inside, Outside, At, Top
<1> QED BY <1>1 DEF vars, LockInv, TypeOK, StackShape, KilledIsLeaving, LockCounts, Calls

LEMMA NextLock == LockInv /\ [Next]_vars => LockInv'
<1> SUFFICES ASSUME LockInv, [Next]_vars PROVE LockInv'
  OBVIOUS
<1>1. ASSUME NEW t \in Threads, Call(t, "direct") \/ Call(t, "pooled") \/ CallClose(t)
      PROVE  LockInv'
  BY <1>1, CallLock, CallCloseLock
<1>2. ASSUME NEW t \in Threads, Step(t)
      PROVE  LockInv'
  <2>1. CASE EndAction(t)
    BY <2>1, FinishLock DEF EndAction
  <2> QED BY <1>2, <2>1, AcquireLock, OpenLock, TakeSlotLock, SlotTimeoutLock, RestoreLock,
             ReleaseLock, CloseTakesLock, CloseEndsLock DEF Step
<1>3. ASSUME NEW t \in Threads, Signal(t) \/ Kill(t) \/ KillInLog(t)
      PROVE  LockInv'
  BY <1>3, SignalLock, KillLock, RestoreLock
<1> QED BY <1>1, <1>2, <1>3, StutterLock DEF Next

(* The inductive invariant of the lock and the stacks of calls.            *)
THEOREM SpecLockInv == Spec => []LockInv
  BY InitLock, NextLock, PTL DEF Spec

(* Type correctness, whatever calls, closes and kills are interleaved. *)
THEOREM SpecTypeOK == Spec => []TypeOK
<1>1. LockInv => TypeOK
  BY DEF LockInv
<1> QED BY <1>1, SpecLockInv, PTL

(* Database calls are serialized: a thread between the acquisition and the *)
(* release of the lock owns it, and the depth counts its calls.            *)
THEOREM SpecSerialized == Spec => []Serialized
<1>1. LockInv => Serialized
  BY DEF LockInv, LockCounts, Serialized
<1> QED BY <1>1, SpecLockInv, PTL

(* The lock is left behind by a killed thread only. *)
THEOREM SpecOnlyKillsAbandon == Spec => []OnlyKillsAbandon
<1>1. LockInv => OnlyKillsAbandon
  BY NobodyAssumption DEF LockInv, LockCounts, OnlyKillsAbandon
<1> QED BY <1>1, SpecLockInv, PTL

-----------------------------------------------------------------------------
(* Connections, slot and transactions.                                     *)

(* The i-th call of t has the slot. *)
Slotted(f) ==
  \/ f.at = "closing"
  \/ f.kind \in {"pooled", "overflow"} /\ f.at \in {"acting", "restore"}
SlotAt(t, i) == i \in Calls(t) /\ Slotted(stack[t][i])

SlotInv ==
  /\ ~slot.full => slot.idle = {}
  /\ \A t \in Threads, i \in Nat : SlotAt(t, i) => ~slot.full
  /\ \A t, u \in Threads, i, j \in Nat : SlotAt(t, i) /\ SlotAt(u, j) => t = u /\ i = j

(* The i-th call of t has connection c. *)
Has(f, c) == c = f.conn \/ c \in f.rest
Owns(t, i, c) == i \in Calls(t) /\ Has(stack[t][i], c)

ConnInv ==
  /\ slot.idle \subseteq open /\ lost \subseteq open /\ slot.idle \cap lost = {}
  /\ \A c \in open : c \in slot.idle \cup lost \/ \E t \in Threads, i \in Nat : Owns(t, i, c)
  /\ \A t \in Threads, i \in Nat, c \in Conns :
       Owns(t, i, c) => c \in open /\ c \notin slot.idle /\ c \notin lost
  /\ \A t, u \in Threads, i, j \in Nat, c \in Conns :
       Owns(t, i, c) /\ Owns(u, j, c) => t = u /\ i = j

(* A transaction is left open only between the end of an action and the    *)
(* clean-up after it.                                                      *)
DirtyInv ==
  \A c \in dirty : \E t \in Threads : At(t, "restore") /\ Top(t).conn = c

PoolInv == SlotInv /\ ConnInv /\ DirtyInv

-----------------------------------------------------------------------------
(* A step of t that replaces its newest call: who has what.                *)
LEMMA PutOwns ==
  ASSUME StackInv, NEW t \in Threads, stack[t] # <<>>, NEW f \in Frame, Put(t, f)
  PROVE  /\ \A c : Owns(t, 1, c) <=> Has(Top(t), c)
         /\ \A c : Owns(t, 1, c)' <=> Has(f, c)
         /\ SlotAt(t, 1) <=> Slotted(Top(t))
         /\ SlotAt(t, 1)' <=> Slotted(f)
         /\ \A u \in Threads, i \in Nat :
              u # t \/ i # 1 => /\ SlotAt(u, i)' <=> SlotAt(u, i)
                               /\ \A c : Owns(u, i, c)' <=> Owns(u, i, c)
<1>1. stack \in Stacks /\ stack[t] \in Seq(Frame)
  BY DEF StackInv, StackTyped, Stacks
<1>2. /\ \A u \in Threads \ {t} : stack'[u] = stack[u]
      /\ Len(stack'[t]) = Len(stack[t])
      /\ stack'[t][1] = f
      /\ \A i \in Calls(t) : i > 1 => stack'[t][i] = stack[t][i]
  BY <1>1, PutEffect
<1>3. /\ Top(t) = stack[t][1] /\ 1 \in Calls(t)
      /\ Len(stack[t]) \in Nat
  BY <1>1, TopIsFirst
<1>4. Calls(t)' = Calls(t) /\ \A u \in Threads \ {t} : Calls(u)' = Calls(u)
  BY <1>2 DEF Calls
<1>5. ASSUME NEW u \in Threads, NEW i \in Nat, u # t \/ i # 1, i \in Calls(u)
      PROVE  stack'[u][i] = stack[u][i]
  BY <1>2, <1>5 DEF Calls
<1> QED BY <1>2, <1>3, <1>4, <1>5 DEF Owns, SlotAt

LEMMA PopOwns ==
  ASSUME StackInv, NEW t \in Threads, stack[t] # <<>>, Pop(t)
  PROVE  /\ \A c : Owns(t, 1, c) <=> Has(Top(t), c)
         /\ SlotAt(t, 1) <=> Slotted(Top(t))
         /\ \A i \in Nat \ {0} : /\ SlotAt(t, i)' <=> SlotAt(t, i + 1)
                               /\ \A c : Owns(t, i, c)' <=> Owns(t, i + 1, c)
         /\ \A u \in Threads \ {t}, i \in Nat :
              /\ SlotAt(u, i)' <=> SlotAt(u, i)
              /\ \A c : Owns(u, i, c)' <=> Owns(u, i, c)
<1>1. stack \in Stacks /\ stack[t] \in Seq(Frame)
  BY DEF StackInv, StackTyped, Stacks
<1>2. /\ \A u \in Threads \ {t} : stack'[u] = stack[u]
      /\ Len(stack'[t]) = Len(stack[t]) - 1
      /\ \A i \in Calls(t) : i > 1 => stack'[t][i - 1] = stack[t][i]
  BY <1>1, PopEffect
<1>3. /\ Top(t) = stack[t][1] /\ 1 \in Calls(t)
      /\ Len(stack[t]) \in Nat \ {0}
  BY <1>1, TopIsFirst
<1>4. ASSUME NEW i \in Nat \ {0}
      PROVE  /\ i \in Calls(t)' <=> i + 1 \in Calls(t)
             /\ i \in Calls(t)' => stack'[t][i] = stack[t][i + 1]
  <2>1. i \in Calls(t)' <=> i + 1 \in Calls(t)
    BY <1>2, <1>3 DEF Calls
  <2>2. (i + 1) - 1 = i /\ i + 1 > 1
    OBVIOUS
  <2> QED BY <1>2, <2>1, <2>2
<1>5. \A u \in Threads \ {t} : Calls(u)' = Calls(u)
  BY <1>2 DEF Calls
<1> QED BY <1>2, <1>3, <1>4, <1>5 DEF Owns, SlotAt

LEMMA PushOwns ==
  ASSUME StackInv, NEW t \in Threads, NEW f \in Frame, Push(t, f),
         ~Slotted(f), f.conn = NoConn, f.rest = {}
  PROVE  /\ \A c \in Conns : ~Owns(t, 1, c)'
         /\ ~SlotAt(t, 1)'
         /\ \A i \in Nat \ {0} : /\ SlotAt(t, i + 1)' <=> SlotAt(t, i)
                               /\ \A c : Owns(t, i + 1, c)' <=> Owns(t, i, c)
         /\ \A u \in Threads \ {t}, i \in Nat :
              /\ SlotAt(u, i)' <=> SlotAt(u, i)
              /\ \A c : Owns(u, i, c)' <=> Owns(u, i, c)
<1>1. stack \in Stacks /\ stack[t] \in Seq(Frame) /\ Len(stack[t]) \in Nat
  BY DEF StackInv, StackTyped, Stacks
<1>2. /\ \A u \in Threads \ {t} : stack'[u] = stack[u]
      /\ Len(stack'[t]) = Len(stack[t]) + 1
      /\ stack'[t][1] = f
      /\ \A i \in Calls(t) : stack'[t][i + 1] = stack[t][i]
  BY <1>1, PushEffect
<1>3. \A i \in Nat \ {0} : i + 1 \in Calls(t)' <=> i \in Calls(t)
  BY <1>1, <1>2 DEF Calls
<1>4. \A c \in Conns : ~Has(f, c)
  BY NoConnAssumption DEF Has
<1>5. \A u \in Threads \ {t} : Calls(u)' = Calls(u)
  BY <1>2 DEF Calls
<1> QED BY <1>2, <1>3, <1>4, <1>5 DEF Owns, SlotAt

-----------------------------------------------------------------------------
(* Connections change hands.  H is what the newest call of t has before a  *)
(* step and G what it has afterwards; what is not in the pool, lost or     *)
(* with this call stays where it is.                                       *)
Conserved(H, G) ==
  LET before == H \cup slot.idle \cup lost
      after  == G \cup slot'.idle \cup lost'
  IN  /\ G \cap slot'.idle = {} /\ G \cap lost' = {} /\ slot'.idle \cap lost' = {}
      /\ after \subseteq before \cup (Conns \ open)
      /\ open' = (open \ before) \cup after

LEMMA PutConns ==
  ASSUME ConnInv, open \subseteq Conns, NEW t \in Threads,
         NEW H \in SUBSET Conns, NEW G \in SUBSET Conns, Conserved(H, G),
         \A c \in Conns : Owns(t, 1, c) <=> c \in H,
         \A c \in Conns : Owns(t, 1, c)' <=> c \in G,
         \A u \in Threads, i \in Nat :
           u # t \/ i # 1 => \A c : Owns(u, i, c)' <=> Owns(u, i, c)
  PROVE  ConnInv'
<1>1. ASSUME NEW u \in Threads, NEW i \in Nat, NEW c \in Conns, u # t \/ i # 1, Owns(u, i, c)
      PROVE  /\ c \in open' /\ c \notin slot'.idle /\ c \notin lost' /\ c \notin G
  <2>1. c \in open /\ c \notin slot.idle /\ c \notin lost /\ c \notin H
    BY <1>1 DEF ConnInv
  <2> QED BY <2>1 DEF Conserved
<1>2. ASSUME NEW u \in Threads, NEW i \in Nat, NEW c \in Conns, Owns(u, i, c)'
      PROVE  c \in open' /\ c \notin slot'.idle /\ c \notin lost'
  <2>1. CASE u = t /\ i = 1
    BY <1>2, <2>1 DEF Conserved
  <2>2. CASE u # t \/ i # 1
    BY <1>1, <1>2, <2>2
  <2> QED BY <2>1, <2>2
<1>3. ASSUME NEW u \in Threads, NEW v \in Threads, NEW i \in Nat, NEW j \in Nat, NEW c \in Conns,
             Owns(u, i, c)', Owns(v, j, c)'
      PROVE  u = v /\ i = j
  <2>1. CASE (u # t \/ i # 1) /\ (v # t \/ j # 1)
    BY <1>3, <2>1 DEF ConnInv
  <2>2. CASE (u = t /\ i = 1) \/ (v = t /\ j = 1)
    BY <1>1, <1>3, <2>2
  <2> QED BY <2>1, <2>2
<1>4. ASSUME NEW c \in open'
      PROVE  c \in slot'.idle \cup lost' \/ \E u \in Threads, i \in Nat : Owns(u, i, c)'
  <2>1. c \in Conns
    BY DEF Conserved, ConnInv
  <2>2. CASE c \in G
    BY <2>1, <2>2
  <2>3. CASE c \in open /\ c \notin H \cup slot.idle \cup lost
    <3>1. PICK u \in Threads, i \in Nat : Owns(u, i, c)
      BY <2>3 DEF ConnInv
    <3>2. u # t \/ i # 1
      BY <2>1, <2>3, <3>1
    <3> QED BY <3>1, <3>2
  <2> QED BY <2>2, <2>3 DEF Conserved
<1>5. slot'.idle \subseteq open' /\ lost' \subseteq open' /\ slot'.idle \cap lost' = {}
  BY DEF Conserved
<1> QED BY <1>2, <1>3, <1>4, <1>5 DEF ConnInv

LEMMA PopConns ==
  ASSUME ConnInv, open \subseteq Conns, NEW t \in Threads,
         NEW H \in SUBSET Conns, Conserved(H, {}),
         \A c \in Conns : Owns(t, 1, c) <=> c \in H,
         \A i \in Nat \ {0} : \A c : Owns(t, i, c)' <=> Owns(t, i + 1, c),
         \A u \in Threads \ {t}, i \in Nat : \A c : Owns(u, i, c)' <=> Owns(u, i, c)
  PROVE  ConnInv'
<1> DEFINE Was(u, i) == IF u = t THEN i + 1 ELSE i
<1>1. ASSUME NEW u \in Threads, NEW i \in Nat, NEW c \in Conns, Owns(u, i, c)'
      PROVE  Was(u, i) \in Nat /\ Owns(u, Was(u, i), c) /\ (u = t => Was(u, i) # 1)
  <2>1. i # 0
    BY <1>1 DEF Owns, Calls
  <2> QED BY <1>1, <2>1
<1>2. ASSUME NEW u \in Threads, NEW i \in Nat, NEW c \in Conns, Owns(u, i, c)'
      PROVE  c \in open' /\ c \notin slot'.idle /\ c \notin lost'
  <2>1. Owns(u, Was(u, i), c) /\ Was(u, i) \in Nat /\ (u = t => Was(u, i) # 1)
    BY <1>1, <1>2
  <2>2. c \in open /\ c \notin slot.idle /\ c \notin lost
    BY <2>1 DEF ConnInv
  <2>3. c \notin H
    <3>1. CASE u = t
      BY <2>1, <3>1 DEF ConnInv
    <3>2. CASE u # t
      BY <2>1, <3>2 DEF ConnInv
    <3> QED BY <3>1, <3>2
  <2> QED BY <2>2, <2>3 DEF Conserved
<1>3. ASSUME NEW u \in Threads, NEW v \in Threads, NEW i \in Nat, NEW j \in Nat, NEW c \in Conns,
             Owns(u, i, c)', Owns(v, j, c)'
      PROVE  u = v /\ i = j
  <2>1. u = v /\ Was(u, i) = Was(v, j)
    BY <1>1, <1>3 DEF ConnInv
  <2> QED BY <2>1
<1>4. ASSUME NEW c \in open'
      PROVE  c \in slot'.idle \cup lost' \/ \E u \in Threads, i \in Nat : Owns(u, i, c)'
  <2>1. c \in Conns
    BY DEF Conserved, ConnInv
  <2>2. CASE c \in open /\ c \notin H \cup slot.idle \cup lost
    <3>1. PICK u \in Threads, i \in Nat : Owns(u, i, c)
      BY <2>2 DEF ConnInv
    <3>2. i # 0 /\ (u = t => i # 1)
      BY <2>1, <2>2, <3>1 DEF Owns, Calls
    <3>3. CASE u = t
      <4>1. i - 1 \in Nat \ {0} /\ (i - 1) + 1 = i
        BY <3>2, <3>3
      <4>2. Owns(u, i - 1, c)'
        BY <3>1, <3>3, <4>1
      <4> QED BY <4>1, <4>2
    <3>4. CASE u # t
      BY <3>1, <3>4
    <3> QED BY <3>3, <3>4
  <2> QED BY <2>2 DEF Conserved
<1>5. slot'.idle \subseteq open' /\ lost' \subseteq open' /\ slot'.idle \cap lost' = {}
  BY DEF Conserved
<1> QED BY <1>2, <1>3, <1>4, <1>5 DEF ConnInv

LEMMA PushConns ==
  ASSUME ConnInv, open \subseteq Conns, NEW t \in Threads, UNCHANGED <<slot, open, lost>>,
         \A c \in Conns : ~Owns(t, 1, c)',
         \A i \in Nat \ {0} : \A c : Owns(t, i + 1, c)' <=> Owns(t, i, c),
         \A u \in Threads \ {t}, i \in Nat : \A c : Owns(u, i, c)' <=> Owns(u, i, c)
  PROVE  ConnInv'
<1> DEFINE Was(u, i) == IF u = t THEN i - 1 ELSE i
<1>1. ASSUME NEW u \in Threads, NEW i \in Nat, NEW c \in Conns, Owns(u, i, c)'
      PROVE  Was(u, i) \in Nat /\ Owns(u, Was(u, i), c)
  <2>1. i # 0 /\ (u = t => i # 1)
    BY <1>1 DEF Owns, Calls
  <2>2. CASE u = t
    <3>1. i - 1 \in Nat \ {0} /\ (i - 1) + 1 = i
      BY <2>1, <2>2
    <3> QED BY <1>1, <2>2, <3>1
  <2> QED BY <1>1, <2>2
<1>2. ASSUME NEW u \in Threads, NEW i \in Nat, NEW c \in Conns, Owns(u, i, c)'
      PROVE  c \in open' /\ c \notin slot'.idle /\ c \notin lost'
  BY <1>1, <1>2 DEF ConnInv
<1>3. ASSUME NEW u \in Threads, NEW v \in Threads, NEW i \in Nat, NEW j \in Nat, NEW c \in Conns,
             Owns(u, i, c)', Owns(v, j, c)'
      PROVE  u = v /\ i = j
  <2>1. u = v /\ Was(u, i) = Was(v, j)
    BY <1>1, <1>3 DEF ConnInv
  <2> QED BY <2>1
<1>4. ASSUME NEW c \in open'
      PROVE  c \in slot'.idle \cup lost' \/ \E u \in Threads, i \in Nat : Owns(u, i, c)'
  <2>1. CASE c \notin slot.idle \cup lost
    <3>1. PICK u \in Threads, i \in Nat : Owns(u, i, c)
      BY <2>1 DEF ConnInv
    <3>2. i # 0
      BY <3>1 DEF Owns, Calls
    <3>3. IF u = t THEN i + 1 \in Nat /\ Owns(u, i + 1, c)' ELSE Owns(u, i, c)'
      BY <3>1, <3>2
    <3> QED BY <3>3
  <2> QED BY <2>1
<1> QED BY <1>2, <1>3, <1>4 DEF ConnInv

-----------------------------------------------------------------------------
(* The slot changes hands.                                                 *)
LEMMA PutSlot ==
  ASSUME SlotInv, NEW t \in Threads, NEW h \in BOOLEAN, NEW g \in BOOLEAN,
         SlotAt(t, 1) <=> h, SlotAt(t, 1)' <=> g,
         \A u \in Threads, i \in Nat :
           u # t \/ i # 1 => (SlotAt(u, i)' <=> SlotAt(u, i)),
         ~slot'.full => slot'.idle = {},
         g => ~slot'.full /\ (h \/ slot.full),
         slot'.full => slot.full \/ h
  PROVE  SlotInv'
<1>1. ASSUME NEW u \in Threads, NEW i \in Nat, u # t \/ i # 1, SlotAt(u, i)
      PROVE  ~slot.full /\ ~h
  BY <1>1 DEF SlotInv
<1>2. ASSUME NEW u \in Threads, NEW i \in Nat, SlotAt(u, i)'
      PROVE  ~slot'.full
  BY <1>1, <1>2
<1>3. ASSUME NEW u \in Threads, NEW v \in Threads, NEW i \in Nat, NEW j \in Nat,
             SlotAt(u, i)', SlotAt(v, j)'
      PROVE  u = v /\ i = j
  <2>1. CASE (u # t \/ i # 1) /\ (v # t \/ j # 1)
    BY <1>3, <2>1 DEF SlotInv
  <2>2. CASE (u = t /\ i = 1) \/ (v = t /\ j = 1)
    BY <1>1, <1>3, <2>2
  <2> QED BY <2>1, <2>2
<1> QED BY <1>2, <1>3 DEF SlotInv

LEMMA PopSlot ==
  ASSUME SlotInv, NEW t \in Threads, NEW h \in BOOLEAN,
         SlotAt(t, 1) <=> h,
         \A i \in Nat \ {0} : SlotAt(t, i)' <=> SlotAt(t, i + 1),
         \A u \in Threads \ {t}, i \in Nat : SlotAt(u, i)' <=> SlotAt(u, i),
         ~slot'.full => slot'.idle = {},
         slot'.full => slot.full \/ h
  PROVE  SlotInv'
<1> DEFINE Was(u, i) == IF u = t THEN i + 1 ELSE i
<1>1. ASSUME NEW u \in Threads, NEW i \in Nat, SlotAt(u, i)'
      PROVE  Was(u, i) \in Nat /\ SlotAt(u, Was(u, i)) /\ (u = t => Was(u, i) # 1)
  <2>1. i # 0
    BY <1>1 DEF SlotAt, Calls
  <2> QED BY <1>1, <2>1
<1>2. ASSUME NEW u \in Threads, NEW i \in Nat, SlotAt(u, i)'
      PROVE  ~slot'.full
  <2>1. Was(u, i) \in Nat /\ SlotAt(u, Was(u, i)) /\ (u = t => Was(u, i) # 1)
    BY <1>1, <1>2
  <2>2. ~slot.full
    BY <2>1 DEF SlotInv
  <2>3. ~h
    <3>1. CASE u = t
      BY <2>1, <3>1 DEF SlotInv
    <3>2. CASE u # t
      BY <2>1, <3>2 DEF SlotInv
    <3> QED BY <3>1, <3>2
  <2> QED BY <2>2, <2>3
<1>3. ASSUME NEW u \in Threads, NEW v \in Threads, NEW i \in Nat, NEW j \in Nat,
             SlotAt(u, i)', SlotAt(v, j)'
      PROVE  u = v /\ i = j
  <2>1. u = v /\ Was(u, i) = Was(v, j)
    BY <1>1, <1>3 DEF SlotInv
  <2> QED BY <2>1
<1> QED BY <1>2, <1>3 DEF SlotInv

LEMMA PushSlot ==
  ASSUME SlotInv, NEW t \in Threads, UNCHANGED slot,
         ~SlotAt(t, 1)',
         \A i \in Nat \ {0} : SlotAt(t, i + 1)' <=> SlotAt(t, i),
         \A u \in Threads \ {t}, i \in Nat : SlotAt(u, i)' <=> SlotAt(u, i)
  PROVE  SlotInv'
<1> DEFINE Was(u, i) == IF u = t THEN i - 1 ELSE i
<1>1. ASSUME NEW u \in Threads, NEW i \in Nat, SlotAt(u, i)'
      PROVE  Was(u, i) \in Nat /\ SlotAt(u, Was(u, i))
  <2>1. i # 0 /\ (u = t => i # 1)
    BY <1>1 DEF SlotAt, Calls
  <2>2. CASE u = t
    <3>1. i - 1 \in Nat \ {0} /\ (i - 1) + 1 = i
      BY <2>1, <2>2
    <3> QED BY <1>1, <2>2, <3>1
  <2> QED BY <1>1, <2>2
<1>2. ASSUME NEW u \in Threads, NEW i \in Nat, SlotAt(u, i)'
      PROVE  ~slot'.full
  BY <1>1, <1>2 DEF SlotInv
<1>3. ASSUME NEW u \in Threads, NEW v \in Threads, NEW i \in Nat, NEW j \in Nat,
             SlotAt(u, i)', SlotAt(v, j)'
      PROVE  u = v /\ i = j
  <2>1. u = v /\ Was(u, i) = Was(v, j)
    BY <1>1, <1>3 DEF SlotInv
  <2> QED BY <2>1
<1> QED BY <1>2, <1>3 DEF SlotInv

-----------------------------------------------------------------------------
(* Transactions left open.                                                 *)
LEMMA DirtyKept ==
  ASSUME DirtyInv, NEW t \in Threads, dirty' \subseteq dirty,
         \A u \in Threads \ {t} : stack'[u] = stack[u],
         \A c \in dirty' : At(t, "restore") /\ Top(t).conn = c
                          => (At(t, "restore") /\ Top(t).conn = c)'
  PROVE  DirtyInv'
<1> SUFFICES ASSUME NEW c \in dirty'
             PROVE  \E u \in Threads : (At(u, "restore") /\ Top(u).conn = c)'
  BY DEF DirtyInv
<1>1. PICK u \in Threads : At(u, "restore") /\ Top(u).conn = c
  BY DEF DirtyInv
<1>2. CASE u = t
  BY <1>1, <1>2
<1>3. CASE u # t
  BY <1>1, <1>3 DEF At, Top
<1> QED BY <1>2, <1>3

LEMMA PutTop ==
  ASSUME StackInv, NEW t \in Threads, stack[t] # <<>>, NEW f \in Frame, Put(t, f)
  PROVE  /\ Top(t)' = f
         /\ \A a : At(t, a)' <=> f.at = a
         /\ \A u \in Threads \ {t} : stack'[u] = stack[u]
<1>1. stack \in Stacks
  BY DEF StackInv, StackTyped
<1>2. /\ stack' \in Stacks
      /\ \A u \in Threads \ {t} : stack'[u] = stack[u]
      /\ Len(stack'[t]) = Len(stack[t])
      /\ stack'[t][1] = f
  BY <1>1, PutEffect
<1>3. stack'[t] \in Seq(Frame) /\ stack'[t] # <<>>
  <2>1. Len(stack[t]) # 0
    BY <1>1, InsideBy
  <2> QED BY <1>2, <2>1, InsideNext DEF Stacks
<1>4. Head(stack'[t]) = stack'[t][1]
  BY <1>3
<1> QED BY <1>2, <1>3, <1>4 DEF At, Top

-----------------------------------------------------------------------------
(* The steps, one by one. *)
LEMMA PushPool ==
  ASSUME LockInv, PoolInv, NEW t \in Threads, NEW f \in Frame, Push(t, f),
         f.at \in {"acquire", "waiting"}, f.conn = NoConn, f.rest = {},
         stack[t] = <<>> \/ At(t, "acting"),
         UNCHANGED <<slot, open, lost, dirty>>
  PROVE  PoolInv'
<1>1. StackInv /\ open \subseteq Conns
  BY TypeHasStacks DEF LockInv, StackInv, TypeOK
<1>2. ~Slotted(f)
  BY DEF Slotted
<1>3. SlotInv' /\ ConnInv'
  <2>1. SlotInv /\ ConnInv
    BY DEF PoolInv
  <2>2. /\ \A c \in Conns : ~Owns(t, 1, c)'
        /\ ~SlotAt(t, 1)'
        /\ \A i \in Nat \ {0} : /\ SlotAt(t, i + 1)' <=> SlotAt(t, i)
                              /\ \A c : Owns(t, i + 1, c)' <=> Owns(t, i, c)
        /\ \A u \in Threads \ {t}, i \in Nat :
             /\ SlotAt(u, i)' <=> SlotAt(u, i)
             /\ \A c : Owns(u, i, c)' <=> Owns(u, i, c)
    BY <1>1, <1>2, PushOwns
  <2>3. SlotInv'
    BY <2>1, <2>2, PushSlot
  <2>4. ConnInv'
    BY <1>1, <2>1, <2>2, PushConns
  <2> QED BY <2>3, <2>4
<1>4. ~At(t, "restore")
  BY <1>1, TopFacts DEF At
<1>5. \A u \in Threads \ {t} : stack'[u] = stack[u]
  BY <1>1, PushEffect DEF StackInv, StackTyped
<1>6. DirtyInv'
  BY <1>4, <1>5, DirtyKept DEF PoolInv
<1> QED BY <1>3, <1>6 DEF PoolInv

LEMMA PopPool ==
  ASSUME LockInv, PoolInv, NEW t \in Threads, stack[t] # <<>>, Pop(t),
         Top(t).at # "restore", UNCHANGED dirty,
         NEW H \in SUBSET Conns, Conserved(H, {}),
         \A c \in Conns : Has(Top(t), c) <=> c \in H,
         ~slot'.full => slot'.idle = {},
         slot'.full => slot.full \/ Slotted(Top(t))
  PROVE  PoolInv'
<1>1. StackInv /\ open \subseteq Conns
  BY TypeHasStacks DEF LockInv, StackInv, TypeOK
<1>2. SlotInv /\ ConnInv /\ DirtyInv
  BY DEF PoolInv
<1>3. /\ \A c : Owns(t, 1, c) <=> Has(Top(t), c)
      /\ SlotAt(t, 1) <=> Slotted(Top(t))
      /\ \A i \in Nat \ {0} : /\ SlotAt(t, i)' <=> SlotAt(t, i + 1)
                            /\ \A c : Owns(t, i, c)' <=> Owns(t, i + 1, c)
      /\ \A u \in Threads \ {t}, i \in Nat :
           /\ SlotAt(u, i)' <=> SlotAt(u, i)
           /\ \A c : Owns(u, i, c)' <=> Owns(u, i, c)
  BY <1>1, PopOwns
<1>4. SlotInv'
  <2>1. Slotted(Top(t)) \in BOOLEAN
    BY DEF Slotted
  <2> QED BY <1>2, <1>3, <2>1, PopSlot
<1>5. ConnInv'
  BY <1>1, <1>2, <1>3, PopConns
<1>6. ~At(t, "restore")
  BY <1>1, TopFacts
<1>7. \A u \in Threads \ {t} : stack'[u] = stack[u]
  BY <1>1, PopEffect DEF StackInv, StackTyped
<1>8. DirtyInv'
  BY <1>2, <1>6, <1>7, DirtyKept
<1> QED BY <1>4, <1>5, <1>8 DEF PoolInv

LEMMA PutPool ==
  ASSUME LockInv, PoolInv, NEW t \in Threads, stack[t] # <<>>, NEW f \in Frame, Put(t, f),
         NEW H \in SUBSET Conns, NEW G \in SUBSET Conns, Conserved(H, G),
         \A c \in Conns : Has(Top(t), c) <=> c \in H,
         \A c \in Conns : Has(f, c) <=> c \in G,
         ~slot'.full => slot'.idle = {},
         Slotted(f) => ~slot'.full /\ (Slotted(Top(t)) \/ slot.full),
         slot'.full => slot.full \/ Slotted(Top(t)),
         \/ dirty' = dirty /\ Top(t).at # "restore"
         \/ dirty' \subseteq dirty \ {Top(t).conn}
         \/ dirty' \subseteq dirty \cup {f.conn} /\ f.at = "restore" /\ Top(t).at # "restore"
  PROVE  PoolInv'
<1>1. StackInv /\ open \subseteq Conns
  BY TypeHasStacks DEF LockInv, StackInv, TypeOK
<1>2. SlotInv /\ ConnInv /\ DirtyInv
  BY DEF PoolInv
<1>3. /\ \A c : Owns(t, 1, c) <=> Has(Top(t), c)
      /\ \A c : Owns(t, 1, c)' <=> Has(f, c)
      /\ SlotAt(t, 1) <=> Slotted(Top(t))
      /\ SlotAt(t, 1)' <=> Slotted(f)
      /\ \A u \in Threads, i \in Nat :
           u # t \/ i # 1 => /\ SlotAt(u, i)' <=> SlotAt(u, i)
                            /\ \A c : Owns(u, i, c)' <=> Owns(u, i, c)
  BY <1>1, PutOwns
<1>4. SlotInv'
  <2>1. Slotted(Top(t)) \in BOOLEAN /\ Slotted(f) \in BOOLEAN
    BY DEF Slotted
  <2> QED BY <1>2, <1>3, <2>1, PutSlot
<1>5. ConnInv'
  BY <1>1, <1>2, <1>3, PutConns
<1>6. /\ Top(t)' = f /\ (At(t, "restore")' <=> f.at = "restore")
      /\ At(t, "restore") <=> Top(t).at = "restore"
      /\ \A u \in Threads \ {t} : stack'[u] = stack[u]
  BY <1>1, PutTop, TopFacts
<1>7. DirtyInv'
  <2>1. CASE dirty' \subseteq dirty /\ \A c \in dirty' : ~(At(t, "restore") /\ Top(t).conn = c)
    BY <1>2, <1>6, <2>1, DirtyKept
  <2>2. CASE dirty' \subseteq dirty \cup {f.conn} /\ f.at = "restore" /\ Top(t).at # "restore"
    <3> SUFFICES ASSUME NEW c \in dirty'
                 PROVE  \E u \in Threads : (At(u, "restore") /\ Top(u).conn = c)'
      BY DEF DirtyInv
    <3>1. CASE c = f.conn
      BY <1>6, <2>2, <3>1
    <3>2. CASE c \in dirty
      <4>1. PICK u \in Threads : At(u, "restore") /\ Top(u).conn = c
        BY <1>2, <3>2 DEF DirtyInv
      <4>2. u # t
        BY <1>6, <2>2, <4>1
      <4> QED BY <1>6, <4>1, <4>2 DEF At, Top
    <3> QED BY <2>2, <3>1, <3>2
  <2> QED BY <1>6, <2>1, <2>2
<1> QED BY <1>4, <1>5, <1>7 DEF PoolInv

(* A call that has nothing: before, between and after its use of a         *)
(* connection.                                                             *)
LEMMA EmptyHands ==
  ASSUME NEW f \in Frame, Legal(f), f.at \notin {"acting", "restore", "closing"}
  PROVE  /\ f.conn = NoConn /\ f.rest = {} /\ ~Slotted(f)
         /\ \A c \in Conns : Has(f, c) <=> c \in {}
  BY NoConnAssumption DEF Legal, Slotted, Has

LEMMA NothingMoves ==
  ASSUME ConnInv, open \subseteq Conns, UNCHANGED <<slot, open, lost>>,
         NEW H \in SUBSET open, H \cap slot.idle = {}, H \cap lost = {}
  PROVE  Conserved(H, H)
  BY DEF Conserved, ConnInv

LEMMA PoolFacts ==
  ASSUME LockInv, PoolInv, NEW t \in Threads, stack[t] # <<>>
  PROVE  /\ Top(t) \in Frame /\ Legal(Top(t))
         /\ \A a : At(t, a) <=> Top(t).at = a
         /\ \A c \in Conns : Has(Top(t), c) => c \in open /\ c \notin slot.idle /\ c \notin lost
         /\ Slotted(Top(t)) => ~slot.full /\ slot.idle = {}
         /\ ~slot.full => slot.idle = {}
         /\ slot.idle \subseteq open /\ lost \subseteq open /\ slot.idle \cap lost = {}
         /\ open \subseteq Conns
<1>1. stack \in Stacks /\ open \subseteq Conns
  BY DEF LockInv, TypeOK, Stacks
<1>2. /\ Top(t) \in Frame /\ Legal(Top(t))
      /\ \A a : At(t, a) <=> Top(t).at = a
  BY TopOfLockInv
<1>3. Top(t) = stack[t][1] /\ 1 \in Calls(t)
  BY <1>1, TopIsFirst
<1>4. /\ \A c : Has(Top(t), c) => Owns(t, 1, c)
      /\ Slotted(Top(t)) => SlotAt(t, 1)
  BY <1>3 DEF Owns, SlotAt
<1> QED BY <1>1, <1>2, <1>4 DEF PoolInv, SlotInv, ConnInv

LEMMA EmptyPop ==
  ASSUME LockInv, PoolInv, NEW t \in Threads, stack[t] # <<>>, Pop(t),
         Top(t).at \notin {"acting", "restore", "closing"},
         UNCHANGED <<slot, open, lost, dirty>>
  PROVE  PoolInv'
<1>1. /\ ~Slotted(Top(t))
      /\ \A c \in Conns : Has(Top(t), c) <=> c \in {}
      /\ ~slot.full => slot.idle = {}
  BY PoolFacts, EmptyHands
<1>2. Conserved({}, {})
  BY PoolFacts DEF Conserved
<1>3. {} \in SUBSET Conns
  OBVIOUS
<1> QED BY <1>1, <1>2, <1>3, PopPool

LEMMA EmptyPut ==
  ASSUME LockInv, PoolInv, NEW t \in Threads, stack[t] # <<>>, NEW f \in Frame, Legal(f), Put(t, f),
         Top(t).at \notin {"acting", "restore", "closing"},
         f.at \notin {"acting", "restore", "closing"},
         ~slot'.full => slot'.idle = {}, slot'.idle = slot.idle, slot'.full => slot.full,
         UNCHANGED <<open, lost, dirty>>
  PROVE  PoolInv'
<1>1. /\ ~Slotted(Top(t))
      /\ \A c \in Conns : Has(Top(t), c) <=> c \in {}
  BY PoolFacts, EmptyHands
<1>2. /\ ~Slotted(f)
      /\ \A c \in Conns : Has(f, c) <=> c \in {}
  BY EmptyHands
<1>3. Conserved({}, {})
  BY PoolFacts DEF Conserved
<1>4. {} \in SUBSET Conns
  OBVIOUS
<1> QED BY <1>1, <1>2, <1>3, <1>4, PutPool

LEMMA CallPool ==
  ASSUME LockInv, PoolInv, NEW t \in Threads,
         Call(t, "direct") \/ Call(t, "pooled") \/ CallClose(t)
  PROVE  PoolInv'
<1>1. ASSUME NEW k \in {"direct", "pooled", "close"}, NEW a \in {"acquire", "waiting"},
             Push(t, NewFrame(k, a)), stack[t] = <<>> \/ At(t, "acting"),
             UNCHANGED <<slot, open, lost, dirty>>
      PROVE  PoolInv'
  <2>1. NewFrame(k, a) \in Frame
    BY NewFrameType
  <2>2. NewFrame(k, a).at = a /\ NewFrame(k, a).conn = NoConn /\ NewFrame(k, a).rest = {}
    BY DEF NewFrame
  <2> QED BY <1>1, <2>1, <2>2, PushPool
<1> QED BY <1>1 DEF Call, CallClose

LEMMA AcquirePool == ASSUME LockInv, PoolInv, NEW t \in Threads, Acquire(t) PROVE PoolInv'
<1> DEFINE f == [Top(t) EXCEPT !.at = IF Top(t).kind = "direct" THEN "open" ELSE "slot"]
<1>1. stack[t] # <<>>
  BY DEF Acquire, At
<1>2. /\ Top(t) \in Frame /\ Legal(Top(t)) /\ Top(t).at = "acquire"
      /\ ~slot.full => slot.idle = {}
  BY <1>1, PoolFacts DEF Acquire
<1>3. f \in Frame /\ Legal(f) /\ f.at \notin {"acting", "restore", "closing"}
  BY <1>2 DEF Frame, Legal
<1>4. Put(t, f)
  BY DEF Acquire, Move
<1> QED BY <1>1, <1>2, <1>3, <1>4, EmptyPut DEF Acquire

LEMMA OpenPool == ASSUME LockInv, PoolInv, NEW t \in Threads, Open(t) PROVE PoolInv'
<1>1. stack[t] # <<>>
  BY DEF Open, At
<1>2. /\ Top(t) \in Frame /\ Legal(Top(t)) /\ Top(t).at = "open" /\ Top(t).kind = "direct"
      /\ ~slot.full => slot.idle = {}
      /\ slot.idle \subseteq open /\ lost \subseteq open /\ slot.idle \cap lost = {}
      /\ open \subseteq Conns
  <2>1. Top(t).at = "open"
    BY <1>1, PoolFacts DEF Open
  <2> QED BY <1>1, <2>1, PoolFacts DEF Legal
<1>3. /\ Top(t).conn = NoConn /\ Top(t).rest = {} /\ ~Slotted(Top(t))
      /\ \A c \in Conns : Has(Top(t), c) <=> c \in {}
  BY <1>2, EmptyHands
<1>4. ASSUME NEW c \in Conns, Connect(c), UNCHANGED lost,
             Put(t, [Top(t) EXCEPT !.at = "acting", !.conn = c])
      PROVE  PoolInv'
  <2> DEFINE f == [Top(t) EXCEPT !.at = "acting", !.conn = c]
  <2>1. /\ f \in Frame /\ f.conn = c /\ f.rest = {} /\ f.at = "acting" /\ f.kind = "direct"
        /\ Put(t, f)
    BY <1>2, <1>3, <1>4 DEF Frame
  <2>2. ~Slotted(f) /\ \A d \in Conns : Has(f, d) <=> d \in {c}
    BY <2>1 DEF Slotted, Has
  <2>3. Conserved({}, {c})
    BY <1>2, <1>4 DEF Conserved, Connect, Open
  <2>4. {} \in SUBSET Conns /\ {c} \in SUBSET Conns
    OBVIOUS
  <2>5. UNCHANGED <<slot, dirty>>
    BY DEF Open
  <2> HIDE DEF f
  <2> QED BY <1>1, <1>2, <1>3, <1>4, <2>1, <2>2, <2>3, <2>4, <2>5, PutPool
<1>5. ASSUME Move(t, "release"),
             \/ UNCHANGED <<open, lost>>
             \/ \E c \in Conns : Connect(c) /\ lost' = lost \cup {c}
      PROVE  PoolInv'
  <2> DEFINE f == [Top(t) EXCEPT !.at = "release"]
  <2>1. f \in Frame /\ Legal(f) /\ f.at = "release" /\ Put(t, f)
    BY <1>2, <1>3, <1>5, NoConnAssumption DEF Frame, Legal, Move
  <2>2. ~Slotted(f) /\ \A d \in Conns : Has(f, d) <=> d \in {}
    BY <2>1, EmptyHands
  <2>3. Conserved({}, {})
    BY <1>2, <1>5 DEF Conserved, Connect, Open
  <2>4. {} \in SUBSET Conns
    OBVIOUS
  <2>5. UNCHANGED <<slot, dirty>>
    BY DEF Open
  <2> HIDE DEF f
  <2> QED BY <1>1, <1>2, <1>3, <2>1, <2>2, <2>3, <2>4, <2>5, PutPool
<1> QED BY <1>4, <1>5 DEF Open

LEMMA TakeSlotPool == ASSUME LockInv, PoolInv, NEW t \in Threads, TakeSlot(t) PROVE PoolInv'
<1>1. stack[t] # <<>>
  BY DEF TakeSlot, At
<1>2. /\ Top(t) \in Frame /\ Legal(Top(t)) /\ Top(t).at = "slot" /\ Top(t).kind = "pooled"
      /\ slot.idle \subseteq open /\ lost \subseteq open /\ slot.idle \cap lost = {}
      /\ open \subseteq Conns
  <2>1. Top(t).at = "slot"
    BY <1>1, PoolFacts DEF TakeSlot
  <2> QED BY <1>1, <2>1, PoolFacts DEF Legal
<1>3. /\ Top(t).conn = NoConn /\ Top(t).rest = {} /\ ~Slotted(Top(t))
      /\ \A c \in Conns : Has(Top(t), c) <=> c \in {}
  BY <1>2, EmptyHands
<1>4. slot.full /\ ~slot'.full /\ slot'.idle = {} /\ UNCHANGED <<lost, dirty>>
  BY DEF TakeSlot, Taken
<1>5. ASSUME NEW c \in slot.idle, UNCHANGED open,
             Put(t, [Top(t) EXCEPT !.at = "acting", !.conn = c, !.rest = slot.idle \ {c}])
      PROVE  PoolInv'
  <2> DEFINE f == [Top(t) EXCEPT !.at = "acting", !.conn = c, !.rest = slot.idle \ {c}]
  <2>1. /\ f \in Frame /\ f.conn = c /\ f.rest = slot.idle \ {c} /\ f.at = "acting"
        /\ Put(t, f)
    BY <1>2, <1>5 DEF Frame
  <2>2. \A d \in Conns : Has(f, d) <=> d \in slot.idle
    BY <1>5, <2>1 DEF Has
  <2>3. Conserved({}, slot.idle)
    BY <1>2, <1>4, <1>5 DEF Conserved
  <2>4. {} \in SUBSET Conns /\ slot.idle \in SUBSET Conns
    BY <1>2
  <2> HIDE DEF f
  <2> QED BY <1>1, <1>2, <1>3, <1>4, <2>1, <2>2, <2>3, <2>4, PutPool
<1>6. ASSUME slot.idle = {}, NEW c \in Conns, Connect(c),
             Put(t, [Top(t) EXCEPT !.kind = "overflow", !.at = "acting", !.conn = c])
      PROVE  PoolInv'
  <2> DEFINE f == [Top(t) EXCEPT !.kind = "overflow", !.at = "acting", !.conn = c]
  <2>1. /\ f \in Frame /\ f.conn = c /\ f.rest = {} /\ f.at = "acting"
        /\ Put(t, f)
    BY <1>2, <1>3, <1>6 DEF Frame
  <2>2. \A d \in Conns : Has(f, d) <=> d \in {c}
    BY <2>1 DEF Has
  <2>3. Conserved({}, {c})
    BY <1>2, <1>4, <1>6 DEF Conserved, Connect
  <2>4. {} \in SUBSET Conns /\ {c} \in SUBSET Conns
    OBVIOUS
  <2> HIDE DEF f
  <2> QED BY <1>1, <1>2, <1>3, <1>4, <2>1, <2>2, <2>3, <2>4, PutPool
<1>7. ASSUME slot.idle = {}, Move(t, "release"), UNCHANGED open
      PROVE  PoolInv'
  <2> DEFINE f == [Top(t) EXCEPT !.at = "release"]
  <2>1. f \in Frame /\ Legal(f) /\ f.at = "release" /\ Put(t, f)
    BY <1>2, <1>3, <1>7, NoConnAssumption DEF Frame, Legal, Move
  <2> HIDE DEF f
  <2> QED BY <1>1, <1>2, <1>4, <1>7, <2>1, EmptyPut
<1> QED BY <1>5, <1>6, <1>7 DEF TakeSlot

(* A call that gives up waiting for the slot. *)
LEMMA GiveUpSlot ==
  ASSUME LockInv, PoolInv, NEW t \in Threads, At(t, "slot"), Move(t, "release"),
         UNCHANGED <<slot, open, lost, dirty>>
  PROVE  PoolInv'
<1> DEFINE f == [Top(t) EXCEPT !.at = "release"]
<1>1. stack[t] # <<>>
  BY DEF At
<1>2. /\ Top(t) \in Frame /\ Legal(Top(t)) /\ Top(t).at = "slot"
      /\ ~slot.full => slot.idle = {}
  BY <1>1, PoolFacts
<1>3. f \in Frame /\ Legal(f) /\ f.at = "release" /\ Put(t, f)
  BY <1>2, NoConnAssumption DEF Frame, Legal, Move
<1> HIDE DEF f
<1> QED BY <1>1, <1>2, <1>3, EmptyPut

LEMMA FinishPool ==
  ASSUME LockInv, PoolInv, NEW t \in Threads, Finish(t), UNCHANGED <<slot, open, lost>>
  PROVE  PoolInv'
<1> DEFINE f == [Top(t) EXCEPT !.at = "restore"]
           H == {c \in Conns : Has(Top(t), c)}
<1>1. stack[t] # <<>>
  BY DEF Finish, At
<1>2. /\ Top(t) \in Frame /\ Legal(Top(t)) /\ Top(t).at = "acting"
      /\ ~slot.full => slot.idle = {}
      /\ Slotted(Top(t)) => ~slot.full
      /\ open \subseteq Conns
      /\ H \in SUBSET open /\ H \cap slot.idle = {} /\ H \cap lost = {}
  BY <1>1, PoolFacts DEF Finish
<1>3. /\ f \in Frame /\ f.at = "restore" /\ f.kind = Top(t).kind
      /\ f.conn = Top(t).conn /\ f.rest = Top(t).rest
  BY <1>2 DEF Frame
<1>4. Put(t, f)
  BY DEF Finish, Move
<1>5. /\ Slotted(f) <=> Slotted(Top(t))
      /\ \A c \in Conns : Has(f, c) <=> c \in H
      /\ \A c \in Conns : Has(Top(t), c) <=> c \in H
  BY <1>2, <1>3 DEF Slotted, Has
<1>6. Conserved(H, H)
  BY <1>2, NothingMoves DEF PoolInv
<1>7. dirty' \subseteq dirty \cup {f.conn}
  BY <1>3 DEF Finish
<1>8. H \in SUBSET Conns
  OBVIOUS
<1> HIDE DEF f, H
<1> QED BY <1>1, <1>2, <1>3, <1>4, <1>5, <1>6, <1>7, <1>8, PutPool

(* A call that cleans up: its connection and what it held of the slot. *)
LEMMA RestoreHands ==
  ASSUME LockInv, PoolInv, NEW t \in Threads, At(t, "restore")
  PROVE  /\ stack[t] # <<>> /\ Top(t).at = "restore"
         /\ Top(t).conn \in open /\ Top(t).rest \subseteq open /\ open \subseteq Conns
         /\ Top(t).conn \notin Top(t).rest
         /\ Top(t).kind \in {"direct", "pooled", "overflow"}
         /\ Top(t).kind # "pooled" => Top(t).rest = {}
         /\ Top(t).kind # "direct" <=> Slotted(Top(t))
         /\ Slotted(Top(t)) => ~slot.full
         /\ ~slot.full => slot.idle = {}
         /\ (Top(t).rest \cup {Top(t).conn}) \cap (slot.idle \cup lost) = {}
         /\ \A c \in Conns : Has(Top(t), c) <=> c \in Top(t).rest \cup {Top(t).conn}
         /\ slot.idle \subseteq open /\ lost \subseteq open /\ slot.idle \cap lost = {}
         /\ \A k \in {"direct", "pooled", "overflow"} :
              LET f == NewFrame(k, "release") IN
              f \in Frame /\ f.at = "release" /\ ~Slotted(f) /\ \A c \in Conns : ~Has(f, c)
<1>1. stack[t] # <<>>
  BY DEF At
<1>2. /\ Top(t) \in Frame /\ Legal(Top(t)) /\ Top(t).at = "restore"
      /\ \A c \in Conns : Has(Top(t), c) => c \in open /\ c \notin slot.idle /\ c \notin lost
      /\ Slotted(Top(t)) => ~slot.full /\ slot.idle = {}
      /\ ~slot.full => slot.idle = {}
      /\ slot.idle \subseteq open /\ lost \subseteq open /\ slot.idle \cap lost = {}
      /\ open \subseteq Conns
  BY <1>1, PoolFacts
<1>3. /\ Top(t).conn \in Conns /\ Top(t).rest \subseteq Conns
      /\ Top(t).conn \notin Top(t).rest
      /\ Top(t).kind \in {"direct", "pooled", "overflow"}
      /\ Top(t).kind # "pooled" => Top(t).rest = {}
  BY <1>2 DEF Legal, Frame
<1>4. \A c \in Conns : Has(Top(t), c) <=> c \in Top(t).rest \cup {Top(t).conn}
  BY DEF Has
<1>5. Top(t).kind # "direct" <=> Slotted(Top(t))
  BY <1>2, <1>3 DEF Slotted
<1>6. \A k \in {"direct", "pooled", "overflow"} :
        LET f == NewFrame(k, "release") IN
        f \in Frame /\ f.at = "release" /\ ~Slotted(f) /\ \A c \in Conns : ~Has(f, c)
  BY NewFrameType, NoConnAssumption DEF NewFrame, Slotted, Has
<1>7. /\ Top(t).conn \in open /\ Top(t).rest \subseteq open
      /\ (Top(t).rest \cup {Top(t).conn}) \cap (slot.idle \cup lost) = {}
  BY <1>2, <1>3, <1>4
<1> QED BY <1>1, <1>2, <1>3, <1>4, <1>5, <1>6, <1>7

LEMMA RestorePool ==
  ASSUME LockInv, PoolInv, NEW t \in Threads, Restore(t) \/ KillInLog(t)
  PROVE  PoolInv'
<1> DEFINE H == Top(t).rest \cup {Top(t).conn}
           f == NewFrame(Top(t).kind, "release")
<1>1. At(t, "restore")
  BY DEF Restore, KillInLog
<1>2. /\ stack[t] # <<>> /\ Top(t).at = "restore"
      /\ Top(t).conn \in open /\ Top(t).rest \subseteq open /\ open \subseteq Conns
      /\ Top(t).conn \notin Top(t).rest
      /\ Top(t).kind \in {"direct", "pooled", "overflow"}
      /\ Top(t).kind # "pooled" => Top(t).rest = {}
      /\ Top(t).kind # "direct" <=> Slotted(Top(t))
      /\ Slotted(Top(t)) => ~slot.full
      /\ ~slot.full => slot.idle = {}
      /\ H \cap (slot.idle \cup lost) = {}
      /\ \A c \in Conns : Has(Top(t), c) <=> c \in H
      /\ slot.idle \subseteq open /\ lost \subseteq open /\ slot.idle \cap lost = {}
      /\ f \in Frame /\ f.at = "release" /\ ~Slotted(f) /\ \A c \in Conns : Has(f, c) <=> c \in {}
  BY <1>1, RestoreHands
<1>3. Put(t, f)
  BY DEF Restore, KillInLog
<1>4. H \in SUBSET Conns /\ {} \in SUBSET Conns
  BY <1>2
<1>5. dirty' \subseteq dirty \ {Top(t).conn}
  BY DEF Restore, KillInLog, CloseOwn, GiveBack
<1>6. ASSUME Conserved(H, {}), ~slot'.full => slot'.idle = {},
             slot'.full => slot.full \/ Slotted(Top(t))
      PROVE  PoolInv'
  <2> HIDE DEF f, H
  <2> QED BY <1>2, <1>3, <1>4, <1>5, <1>6, PutPool
<1>7. ASSUME open' = open \ {Top(t).conn}, UNCHANGED <<slot, lost>>, Top(t).kind = "direct"
      PROVE  PoolInv'
  <2>1. Conserved(H, {})
    BY <1>2, <1>7 DEF Conserved
  <2> QED BY <1>2, <1>6, <1>7, <2>1
<1>8. ASSUME open' = open \ {Top(t).conn}, slot' = Full({}), UNCHANGED lost,
             Top(t).kind = "overflow"
      PROVE  PoolInv'
  <2>1. Conserved(H, {})
    BY <1>2, <1>8 DEF Conserved, Full
  <2> QED BY <1>2, <1>6, <1>8, <2>1 DEF Full
<1>9. ASSUME slot' = Full(H), UNCHANGED <<open, lost>>, Top(t).kind = "pooled"
      PROVE  PoolInv'
  <2>1. Conserved(H, {})
    BY <1>2, <1>9 DEF Conserved, Full
  <2> QED BY <1>2, <1>6, <1>9, <2>1 DEF Full
<1>10. ASSUME slot' = Full(Top(t).rest), open' = open \ {Top(t).conn}, UNCHANGED lost,
              Top(t).kind = "pooled"
       PROVE  PoolInv'
  <2>1. Conserved(H, {})
    BY <1>2, <1>10 DEF Conserved, Full
  <2> QED BY <1>2, <1>6, <1>10, <2>1 DEF Full
<1>11. CASE KillInLog(t)
  <2>1. Conserved(H, {})
    BY <1>2, <1>11 DEF Conserved, KillInLog
  <2> QED BY <1>2, <1>6, <1>11, <2>1 DEF KillInLog
<1>12. CASE Restore(t)
  BY <1>2, <1>7, <1>8, <1>9, <1>10, <1>12 DEF Restore, CloseOwn, GiveBack
<1> QED BY <1>11, <1>12

LEMMA CloseTakesPool == ASSUME LockInv, PoolInv, NEW t \in Threads, CloseTakes(t) PROVE PoolInv'
<1> DEFINE f == [Top(t) EXCEPT !.at = "closing", !.rest = slot.idle]
<1>1. stack[t] # <<>>
  BY DEF CloseTakes, At
<1>2. /\ Top(t) \in Frame /\ Legal(Top(t)) /\ Top(t).at = "waiting"
      /\ slot.idle \subseteq open /\ lost \subseteq open /\ slot.idle \cap lost = {}
      /\ open \subseteq Conns
  BY <1>1, PoolFacts DEF CloseTakes
<1>3. /\ Top(t).conn = NoConn /\ ~Slotted(Top(t))
      /\ \A c \in Conns : Has(Top(t), c) <=> c \in {}
  BY <1>2, EmptyHands
<1>4. slot.full /\ ~slot'.full /\ slot'.idle = {} /\ UNCHANGED <<open, lost, dirty>>
  BY DEF CloseTakes, Taken
<1>5. /\ f \in Frame /\ f.conn = NoConn /\ f.rest = slot.idle /\ f.at = "closing"
      /\ Put(t, f)
  BY <1>2, <1>3 DEF Frame, CloseTakes
<1>6. \A c \in Conns : Has(f, c) <=> c \in slot.idle
  BY <1>5, NoConnAssumption DEF Has
<1>7. Conserved({}, slot.idle)
  BY <1>2, <1>4 DEF Conserved
<1>8. {} \in SUBSET Conns /\ slot.idle \in SUBSET Conns
  BY <1>2
<1> HIDE DEF f
<1> QED BY <1>1, <1>2, <1>3, <1>4, <1>5, <1>6, <1>7, <1>8, PutPool

LEMMA CloseEndsPool == ASSUME LockInv, PoolInv, NEW t \in Threads, CloseEnds(t) PROVE PoolInv'
<1> DEFINE H == Top(t).rest
<1>1. stack[t] # <<>>
  BY DEF CloseEnds, At
<1>2. /\ Top(t) \in Frame /\ Legal(Top(t)) /\ Top(t).at = "closing"
      /\ \A c \in Conns : Has(Top(t), c) => c \in open /\ c \notin slot.idle /\ c \notin lost
      /\ Slotted(Top(t)) => ~slot.full /\ slot.idle = {}
      /\ lost \subseteq open /\ open \subseteq Conns
  BY <1>1, PoolFacts DEF CloseEnds
<1>3. /\ Slotted(Top(t)) /\ H \in SUBSET Conns
      /\ \A c \in Conns : Has(Top(t), c) <=> c \in H
  BY <1>2, NoConnAssumption DEF Slotted, Has, Legal, Frame
<1>4. /\ open' = open \ H /\ slot' = Full({}) /\ UNCHANGED <<lost, dirty>> /\ Pop(t)
  BY DEF CloseEnds
<1>5. Conserved(H, {})
  BY <1>2, <1>3, <1>4 DEF Conserved, Full
<1> HIDE DEF H
<1> QED BY <1>1, <1>2, <1>3, <1>4, <1>5, PopPool DEF Full

LEMMA ReleasePool == ASSUME LockInv, PoolInv, NEW t \in Threads, Release(t) PROVE PoolInv'
<1>1. stack[t] # <<>>
  BY DEF Release, At
<1>2. Top(t).at = "release"
  BY <1>1, PoolFacts DEF Release
<1> QED BY <1>1, <1>2, EmptyPop DEF Release

(* Neither the stacks nor the pool change. *)
LEMMA SamePool ==
  ASSUME PoolInv, UNCHANGED <<slot, open, lost, dirty, stack>>
  PROVE  PoolInv'
<1>1. \A t \in Threads, i \in Nat : SlotAt(t, i)' <=> SlotAt(t, i)
  BY DEF SlotAt, Calls
<1>2. \A t \in Threads, i \in Nat : \A c : Owns(t, i, c)' <=> Owns(t, i, c)
  BY DEF Owns, Calls
<1>3. SlotInv'
  BY <1>1 DEF PoolInv, SlotInv
<1>4. ConnInv'
  BY <1>2 DEF PoolInv, ConnInv
<1>5. DirtyInv'
  BY DEF PoolInv, DirtyInv, At, Top
<1> QED BY <1>3, <1>4, <1>5 DEF PoolInv

LEMMA KillPool == ASSUME LockInv, PoolInv, NEW t \in Threads, Kill(t) PROVE PoolInv'
<1>1. UNCHANGED <<slot, open, lost>>
  BY DEF Kill
<1>2. CASE stack[t] = <<>> /\ UNCHANGED <<stack, dirty>>
  BY <1>1, <1>2, SamePool
<1>3. ASSUME NEW a \in {"acquire", "waiting", "release"}, At(t, a), Pop(t), UNCHANGED dirty
      PROVE  PoolInv'
  <2>1. stack[t] # <<>>
    BY <1>3 DEF At
  <2>2. Top(t).at = a
    BY <1>3, <2>1, PoolFacts
  <2> QED BY <1>1, <1>3, <2>1, <2>2, EmptyPop
<1>4. CASE At(t, "slot") /\ Move(t, "release") /\ UNCHANGED dirty
  BY <1>1, <1>4, GiveUpSlot
<1>5. CASE Finish(t)
  BY <1>1, <1>5, FinishPool
<1> QED BY <1>2, <1>3, <1>4, <1>5 DEF Kill

LEMMA InitPool == Init => PoolInv
<1> SUFFICES ASSUME Init PROVE PoolInv
  OBVIOUS
<1>1. PICK cs \in SUBSET Conns : slot = Full(cs) /\ open = cs
  BY DEF Init
<1>2. slot.full /\ slot.idle = open /\ lost = {} /\ dirty = {}
  BY <1>1 DEF Init, Full
<1>3. \A t \in Threads : Calls(t) = {}
  BY DEF Init, Calls
<1>4. SlotInv
  BY <1>2, <1>3 DEF SlotInv, SlotAt
<1>5. ConnInv
  BY <1>2, <1>3 DEF ConnInv, Owns
<1>6. DirtyInv
  BY <1>2 DEF DirtyInv
<1> QED BY <1>4, <1>5, <1>6 DEF PoolInv

LEMMA NextPool == LockInv /\ PoolInv /\ [Next]_vars => PoolInv'
<1> SUFFICES ASSUME LockInv, PoolInv, [Next]_vars PROVE PoolInv'
  OBVIOUS
<1>1. ASSUME NEW t \in Threads, Call(t, "direct") \/ Call(t, "pooled") \/ CallClose(t)
      PROVE  PoolInv'
  BY <1>1, CallPool
<1>2. ASSUME NEW t \in Threads, Step(t)
      PROVE  PoolInv'
  <2>1. CASE EndAction(t)
    BY <2>1, FinishPool DEF EndAction
  <2>2. CASE SlotTimeout(t)
    BY <2>2, GiveUpSlot DEF SlotTimeout
  <2>3. CASE Restore(t)
    BY <2>3, RestorePool
  <2> QED BY <1>2, <2>1, <2>2, <2>3, AcquirePool, OpenPool, TakeSlotPool, ReleasePool,
             CloseTakesPool, CloseEndsPool DEF Step
<1>3. ASSUME NEW t \in Threads, Signal(t)
      PROVE  PoolInv'
  BY <1>3, SamePool DEF Signal
<1>4. ASSUME NEW t \in Threads, Kill(t) \/ KillInLog(t)
      PROVE  PoolInv'
  BY <1>4, KillPool, RestorePool
<1>5. CASE UNCHANGED vars
  BY <1>5, SamePool DEF vars
<1> QED BY <1>1, <1>2, <1>3, <1>4, <1>5 DEF Next

(* The inductive invariant of the pool: slot, connections, transactions.   *)
THEOREM SpecPoolInv == Spec => [](LockInv /\ PoolInv)
<1>1. Init => LockInv /\ PoolInv
  BY InitLock, InitPool
<1>2. LockInv /\ PoolInv /\ [Next]_vars => (LockInv /\ PoolInv)'
  BY NextLock, NextPool
<1> QED BY <1>1, <1>2, PTL DEF Spec

(* What a hand holds is what the call at that place has. *)
LEMMA HandsHold ==
  ASSUME LockInv
  PROVE  /\ \A h \in Holdings : h[1] \in Threads /\ h[2] \in Nat /\ h = <<h[1], h[2]>>
         /\ \A h \in Holdings : \A c : c \in Hold(h) => c \in Conns /\ Owns(h[1], h[2], c)
         /\ \A t \in Threads, i \in Nat, c \in Conns :
              Owns(t, i, c) => <<t, i>> \in Holdings /\ c \in Hold(<<t, i>>)
<1>1. /\ \A t \in Threads : stack[t] \in Seq(Frame) /\ Len(stack[t]) <= MaxDepth
      /\ \A t \in Threads : Len(stack[t]) \in Nat
      /\ \A t \in Threads : \A i \in 1..Len(stack[t]) : stack[t][i] \in Frame
      /\ MaxDepth \in Nat
  BY BoundsAssumption DEF LockInv, TypeOK
<1>2. \A h \in Holdings : h[1] \in Threads /\ h[2] \in 1..MaxDepth /\ h = <<h[1], h[2]>>
  BY DEF Holdings
<1>3. ASSUME NEW h \in Holdings, NEW c \in Hold(h)
      PROVE  c \in Conns /\ Owns(h[1], h[2], c)
  <2>1. h[2] \in 1..Len(stack[h[1]])
    BY <1>1, <1>2, <1>3 DEF Hold
  <2>2. stack[h[1]][h[2]] \in Frame
    BY <1>1, <1>2, <2>1
  <2>3. /\ c \in stack[h[1]][h[2]].rest \/ c = stack[h[1]][h[2]].conn
        /\ c # NoConn \/ c \in stack[h[1]][h[2]].rest
    BY <1>1, <1>2, <2>1 DEF Hold
  <2> QED BY <2>1, <2>2, <2>3 DEF Frame, Owns, Has, Calls
<1>4. ASSUME NEW t \in Threads, NEW i \in Nat, NEW c \in Conns, Owns(t, i, c)
      PROVE  <<t, i>> \in Holdings /\ c \in Hold(<<t, i>>)
  <2>1. i \in 1..Len(stack[t]) /\ i \in 1..MaxDepth
    BY <1>1, <1>4 DEF Owns, Calls
  <2>2. c = stack[t][i].conn \/ c \in stack[t][i].rest
    BY <1>4 DEF Owns, Has
  <2> QED BY <1>1, <2>1, <2>2, NoConnAssumption DEF Holdings, Hold
<1> QED BY <1>2, <1>3, <1>4

(* Pool.hs, withDB, withPooledDB, closeDBPool: whatever fails and whoever  *)
(* is killed, every open connection is idle in the pool, in exactly one    *)
(* hand, or one of those two kinds that a killed thread leaves behind.     *)
THEOREM SpecConnectionsAccounted == Spec => []ConnectionsAccounted
<1>1. LockInv /\ PoolInv => ConnectionsAccounted
  <2> SUFFICES ASSUME LockInv, PoolInv PROVE ConnectionsAccounted
    OBVIOUS
  <2> DEFINE Held == UNION {Hold(h) : h \in Holdings}
  <2>1. TypeOK /\ open \subseteq Conns
    BY DEF LockInv, TypeOK
  <2>2. open \subseteq slot.idle \cup lost \cup Held
    <3> SUFFICES ASSUME NEW c \in open PROVE c \in slot.idle \cup lost \cup Held
      OBVIOUS
    <3>1. CASE \E t \in Threads, i \in Nat : Owns(t, i, c)
      <4>1. PICK h \in Holdings : c \in Hold(h)
        BY <2>1, <3>1, HandsHold
      <4> HIDE DEF Held
      <4>2. c \in Held
        BY <4>1 DEF Held
      <4> QED BY <4>2
    <3> QED BY <3>1 DEF PoolInv, ConnInv
  <2>3. \A h \in Holdings : \A c : c \in Hold(h) => c \in open /\ c \notin slot.idle /\ c \notin lost
    BY HandsHold DEF PoolInv, ConnInv
  <2>4. slot.idle \subseteq open /\ lost \subseteq open
    BY DEF PoolInv, ConnInv
  <2>5. ASSUME NEW h \in Holdings, NEW k \in Holdings, NEW c, c \in Hold(h), c \in Hold(k)
        PROVE  h = k
    <3>1. h[1] = k[1] /\ h[2] = k[2]
      BY <2>5, HandsHold DEF PoolInv, ConnInv
    <3> QED BY <3>1, HandsHold
  <2>6. Held \subseteq open
    BY <2>3
  <2>7. open = slot.idle \cup lost \cup Held
    BY <2>2, <2>4, <2>6
  <2>8. \A h \in Holdings : Hold(h) \cap (slot.idle \cup lost) = {}
    BY <2>3
  <2>9. \A h, k \in Holdings : h # k => Hold(h) \cap Hold(k) = {}
    BY <2>5
  <2> QED BY <2>1, <2>7, <2>8, <2>9 DEF ConnectionsAccounted
<1> QED BY <1>1, SpecPoolInv, PTL

(* restorePooledConnection and withDB: no call ever gets a connection with *)
(* the transaction of another, even after a kill in the middle of it.      *)
THEOREM SpecPoolIsClean == Spec => []PoolIsClean
<1>1. LockInv /\ PoolInv => PoolIsClean
  <2> SUFFICES ASSUME LockInv, PoolInv, NEW c \in dirty PROVE c \notin slot.idle
    BY DEF PoolIsClean
  <2>1. PICK t \in Threads : At(t, "restore") /\ Top(t).conn = c
    BY DEF PoolInv, DirtyInv
  <2> QED BY <2>1, RestoreHands
<1> QED BY <1>1, SpecPoolInv, PTL
=============================================================================
