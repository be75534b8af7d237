---------------------------- MODULE SidecarProofs ----------------------------
(***************************************************************************)
(* Proofs about Sidecar, for all requests, sessions and workers, any       *)
(* assignment of requests to sessions and any limit of sessions.           *)
(*                                                                         *)
(* Four invariants, each on those before it: where a thread is and what    *)
(* that says of its own variables; who owns a session and which tokens are *)
(* known; which thread has which worker, and what its pipes hold; which    *)
(* worker may run turns of which session.  A fifth, on what was sent, is   *)
(* for the refinement of TurnDelivery.                                     *)
(***************************************************************************)
EXTENDS Sidecar, SequenceTheorems, TLAPS

-----------------------------------------------------------------------------
(* Of a thread alone. *)
Shutting == {"stop", "ack", "kill", "reap"}
Handling == {"forget", "hello", "enter", "send", "await", "drop", "close"} \cup Shutting
Before   == {"idle", "sweep", "sweeping", "forget", "get", "hello", "enter", "send", "await"}
Over     == {"answered", "escaped"}

PlaceOf(r) ==
  /\ pc[r] \in Handling => wk[r] \in Workers
  /\ pc[r] \in Shutting <=> task[r] # "none"
  /\ task[r] = "post_send" => verdict[r] = "unknown"
  /\ pc[r] \in Before \/ task[r] \in {"idle_ttl", "handshake"} => verdict[r] = "none"
  /\ pc[r] \in {"respond", "answered"} => verdict[r] # "none"

PlaceInv ==
  /\ TypeOK
  /\ \A r \in Requests : PlaceOf(r)
  /\ \A w \in Workers : life[w] = "turn" <=> cur[w] # NoOne

(* Of sessions and tokens. *)
TokenInv ==
  /\ \A s \in Sessions : owner[s] # NoOne => SessionOf[owner[s]] = s
  /\ \A r \in Requests :
       /\ pc[r] = "idle" => token[r] = NoOne
       /\ told[r] => pc[r] = "answered"
       /\ token[r] # NoOne /\ pc[r] \notin Over => owner[SessionOf[r]] = token[r]
       /\ token[r] \notin {NoOne, r} =>
            /\ told[token[r]]
            /\ token[token[r]] = token[r]
            /\ SessionOf[token[r]] = SessionOf[r]

(* Of a worker: who has it, and what its pipes hold then. *)
Holding == {"hello", "send", "await"} \cup Shutting

HoldInv ==
  /\ \A r \in Requests : pc[r] \in Holding => cmd[wk[r]] = r
  /\ \A w \in Workers : cmd[w] # NoOne => wk[cmd[w]] = w /\ pc[cmd[w]] \in Holding
  /\ \A r \in Requests :
       pc[r] = "hello" \/ task[r] = "handshake" => regLock = r

BornInv ==
  /\ \A w \in Workers : handle[w] => life[w] # "unborn"
  /\ \A w \in Workers : ~handle[w] => life[w] \in {"unborn", "ended"}
  /\ \A s \in Sessions : reg[s] # NoWorker => life[reg[s]] # "unborn"
  /\ \A r \in Requests :
       /\ wk[r] # NoWorker => life[wk[r]] # "unborn"
       /\ \A w \in snap[r] : life[w] # "unborn"
  /\ \A r \in Requests : pc[r] = "forget" => life[wk[r]] = "ended"
  /\ \A r \in Requests : pc[r] \in {"hello", "send", "await"} => handle[wk[r]]
Rested == {"reading", "preflight", "leaving", "ended"}
Quiet(w) == stdin[w] = <<>> /\ stdout[w] = <<>> /\ life[w] \in Rested
Greeting(w) ==
  /\ stdin[w] = <<>>
  /\ \/ life[w] \in {"booting", "ended"} /\ stdout[w] = <<>>
     \/ /\ life[w] \in {"reading", "preflight", "ended"}
        /\ Len(stdout[w]) = 1
Asked(w, r) ==
  \/ /\ Len(stdin[w]) = 1 /\ Head(stdin[w]) = [kind |-> "turn", req |-> r]
     /\ stdout[w] = <<>> /\ life[w] \in Rested
  \/ stdin[w] = <<>> /\ stdout[w] = <<>> /\ life[w] = "turn" /\ cur[w] = r
  \/ /\ stdin[w] = <<>> /\ Len(stdout[w]) = 1 /\ life[w] \in Rested
     /\ Head(stdout[w]).req = r
     /\ Head(stdout[w]).kind = "error" => life[w] # "reading"
  \/ stdin[w] = <<>> /\ stdout[w] = <<>> /\ life[w] = "ended"

PipeOf(w) ==
  /\ life[w] = "unborn" => stdin[w] = <<>> /\ stdout[w] = <<>>
  /\ handle[w] /\ cmd[w] = NoOne => Quiet(w)
  /\ cmd[w] # NoOne =>
       /\ pc[cmd[w]] = "send"  => Quiet(w)
       /\ pc[cmd[w]] = "hello" => Greeting(w)
       /\ pc[cmd[w]] = "await" => Asked(w, cmd[w])
PipeInv == \A w \in Workers : PipeOf(w)

AnswerInv == \A r \in Requests : verdict[r] \in {"ok", "error"} => got[r].req = r

WorkerInv == HoldInv /\ BornInv /\ PipeInv /\ AnswerInv

(* Of sessions and workers. *)
Doomed == {"preflight", "closing", "leaving", "ended"}
Turning == {"reading", "turn"}
MayTurn(w, r) ==
  life[w] \in Doomed \/ (life[w] \in Turning /\ reg[SessionOf[r]] = w)
NextTurn(w, r) == stdin[w] # <<>> /\ Head(stdin[w]) = [kind |-> "turn", req |-> r]

RegInv ==
  /\ \A s \in Sessions : reg[s] # NoWorker => life[reg[s]] \in Turning \cup Doomed
  /\ \A r \in Requests :
       /\ pc[r] = "hello" => reg[SessionOf[r]] = NoWorker
       /\ pc[r] \in {"drop", "close"} \/ task[r] = "drop" => life[wk[r]] \in Doomed
       /\ pc[r] \in {"enter", "send"} => MayTurn(wk[r], r)
  /\ \A w \in Workers, r \in Requests : NextTurn(w, r) => MayTurn(w, r)
  /\ \A w \in Workers : life[w] = "turn" => reg[SessionOf[cur[w]]] = w
  /\ \A w \in Workers : \A i \in 2..Len(stdin[w]) : stdin[w][i].kind = "shutdown"

OrphanInv ==
  \A w \in Workers : Running(w) =>
    \/ w \in Registered
    \/ \E r \in Requests : wk[r] = w /\ pc[r] \in {"hello", "drop", "close"} \cup Shutting

(* Of what was sent and run. *)
Sent(r) == pc[r] = "await" \/ verdict[r] \in {"ok", "error", "unknown"}

SentInv ==
  /\ \A r \in Requests : runs[r] \in {0, 1} /\ (runs[r] = 1 => Sent(r))
  /\ \A w \in Workers, r \in Requests : NextTurn(w, r) /\ life[w] # "ended" =>
       /\ cmd[w] = r /\ pc[r] \in {"await"} \cup Shutting
       /\ Sent(r) /\ runs[r] = 0

-----------------------------------------------------------------------------
(* Types and places.                                                       *)
LEMMA SeqTypes ==
  ASSUME NEW S, NEW s \in Seq(S)
  PROVE  /\ \A e \in S : Append(s, e) \in Seq(S)
         /\ s # <<>> => Head(s) \in S /\ Tail(s) \in Seq(S)
  OBVIOUS

(* What a step of a thread changes of a process, and of its own.           *)
Fresh(w) == life[w] = "unborn" /\ Become(w, "booting") /\ UNCHANGED cur
Ended(w) == Become(w, "ended") /\ cur' = [cur EXCEPT ![w] = NoOne]
LEMMA PlaceKept ==
  ASSUME PlaceInv, NEW r \in Requests, TypeOK', PlaceOf(r)',
         UNCHANGED <<life, cur>> \/ \E w \in Workers : Fresh(w) \/ Ended(w),
         \A q \in Requests \ {r} : /\ pc'[q] = pc[q] /\ wk'[q] = wk[q]
                                   /\ task'[q] = task[q] /\ verdict'[q] = verdict[q]
  PROVE  PlaceInv'
<1>1. \A w \in Workers : (life[w] = "turn" <=> cur[w] # NoOne)'
  <2>1. CASE UNCHANGED <<life, cur>>
    BY <2>1 DEF PlaceInv
  <2>2. ASSUME NEW w \in Workers, Fresh(w) \/ Ended(w)
        PROVE  <1>1!:
    <3>1. /\ \A v \in Workers : life[v] = "turn" <=> cur[v] # NoOne
          /\ DOMAIN life = Workers /\ DOMAIN cur = Workers
      BY DEF PlaceInv, TypeOK, WorkerTypeOK
    <3>2. CASE Fresh(w)
      BY <3>1, <3>2 DEF Fresh, Become
    <3>3. CASE Ended(w)
      BY <3>1, <3>3 DEF Ended, Become
    <3> QED BY <2>2, <3>2, <3>3
  <2> QED BY <2>1, <2>2
<1>2. \A q \in Requests : PlaceOf(q)'
  BY DEF PlaceInv, PlaceOf
<1> QED BY <1>1, <1>2 DEF PlaceInv

LEMMA WorkersKept == ASSUME WorkerTypeOK, UNCHANGED workerVars PROVE WorkerTypeOK'
  BY DEF WorkerTypeOK, workerVars

LEMMA WriteType ==
  ASSUME WorkerTypeOK, NEW w \in Workers, NEW c \in Commands, Write(w, c)
  PROVE  stdin' \in [Workers -> Seq(Commands)]
  BY DEF WorkerTypeOK, Write

LEMMA TakeLineType ==
  ASSUME WorkerTypeOK, NEW w \in Workers, HasLine(w), TakeLine(w)
  PROVE  /\ stdout' \in [Workers -> Seq(Lines)]
         /\ Head(stdout[w]) \in Lines
  BY DEF WorkerTypeOK, TakeLine, HasLine

LEMMA RegistryType ==
  ASSUME TypeOK
  PROVE  /\ LiveRegistry \in [Sessions -> Workers \cup {NoWorker}]
         /\ Registered \subseteq Workers
         /\ \A w : Pop(w) => reg' \in [Sessions -> Workers \cup {NoWorker}]
  BY DEF TypeOK, LiveRegistry, Registered, Pop

LEMMA PostPlace == ASSUME PlaceInv, NEW r \in Requests, Post(r) PROVE PlaceInv'
<1>1. CASE Claim(r)
  <2>1. TypeOK'
    BY <1>1, WorkersKept, SessionOfAssumption DEF Claim, PlaceInv, TypeOK, Goto, PCs
  <2>2. PlaceOf(r)'
    BY <1>1 DEF Claim, PlaceInv, PlaceOf, TypeOK, Goto, Handling, Shutting, Before
  <2> QED BY <1>1, <2>1, <2>2, PlaceKept DEF workerVars, Claim, PlaceInv, TypeOK, Goto
<1>2. ASSUME NEW t \in KnownTokens \cup {NoOne}, Prove(r, t)
      PROVE  PlaceInv'
  <2>1. t \in Requests \cup {NoOne}
    BY DEF PlaceInv, TypeOK, KnownTokens
  <2>2. TypeOK'
    BY <1>2, <2>1, WorkersKept DEF Prove, PlaceInv, TypeOK, shared, Goto, Decide, PCs,
       Verdicts, Refusals
  <2>3. PlaceOf(r)'
    BY <1>2 DEF Prove, PlaceInv, PlaceOf, TypeOK, Goto, Decide, Handling, Shutting, Before
  <2> QED BY <1>2, <2>2, <2>3, PlaceKept DEF workerVars, Prove, PlaceInv, TypeOK, Goto, Decide
<1> QED BY <1>1, <1>2 DEF Post

LEMMA SweepPlace ==
  ASSUME PlaceInv, NEW r \in Requests,
         \/ Sweep(r) \/ KeepCandidate(r) \/ CloseCandidate(r) \/ Forget(r) \/ EndSweep(r)
  PROVE  PlaceInv'
<1>1. WorkerTypeOK'
  BY WorkersKept DEF Sweep, KeepCandidate, CloseCandidate, Forget, EndSweep, PlaceInv, TypeOK
<1>2. TypeOK'
  <2>1. CASE Sweep(r)
    BY <1>1, <2>1, RegistryType DEF Sweep, PlaceInv, TypeOK, shared, thread, Goto, PCs
  <2>2. CASE KeepCandidate(r)
    BY <1>1, <2>2 DEF KeepCandidate, PlaceInv, TypeOK, shared, thread
  <2>3. CASE CloseCandidate(r)
    BY <1>1, <2>3 DEF CloseCandidate, PlaceInv, TypeOK, Goto, Lock, Because, PCs, Tasks
  <2>4. CASE Forget(r)
    BY <1>1, <2>4, RegistryType DEF Forget, PlaceInv, TypeOK, thread, Goto, PCs
  <2>5. CASE EndSweep(r)
    BY <1>1, <2>5 DEF EndSweep, PlaceInv, TypeOK, shared, thread, Goto, PCs
  <2> QED BY <2>1, <2>2, <2>3, <2>4, <2>5
<1>3. PlaceOf(r)'
  BY DEF Sweep, KeepCandidate, CloseCandidate, Forget, EndSweep, PlaceInv, PlaceOf, TypeOK,
     thread, Goto, Because, Handling, Shutting, Before
<1> QED BY <1>2, <1>3, PlaceKept DEF workerVars, Sweep, KeepCandidate, CloseCandidate, Forget, EndSweep,
           PlaceInv, TypeOK, thread, Goto, Because

LEMMA GetPlace ==
  ASSUME PlaceInv, NEW r \in Requests, GetExisting(r) \/ RefuseCapacity(r) \/ Spawn(r)
  PROVE  PlaceInv'
<1>1. WorkerTypeOK'
  <2>1. CASE Spawn(r)
    <3>1. life' \in [Workers -> Lives]
      <4>1. UNCHANGED life \/ \E w \in Workers : Become(w, "booting")
        BY <2>1 DEF Spawn
      <4> QED BY <4>1 DEF Become, PlaceInv, TypeOK, WorkerTypeOK, Lives
    <3> QED BY <2>1, <3>1 DEF Spawn, PlaceInv, TypeOK, WorkerTypeOK
  <2> QED BY <2>1, WorkersKept DEF GetExisting, RefuseCapacity, PlaceInv, TypeOK
<1>2. LiveRegistry \in [Sessions -> Workers \cup {NoWorker}]
  BY RegistryType DEF PlaceInv
<1>3. /\ LiveRegistry[SessionOf[r]] \in Workers \cup {NoWorker}
      /\ Requests \cup {NoOne} # {}
  BY <1>2, SessionOfAssumption
<1>4. TypeOK'
  <2>1. CASE GetExisting(r)
    BY <1>1, <1>2, <1>3, <2>1 DEF GetExisting, PlaceInv, TypeOK, thread, Goto, PCs
  <2>2. CASE RefuseCapacity(r)
    BY <1>1, <1>2, <2>2 DEF RefuseCapacity, PlaceInv, TypeOK, Goto, Decide, PCs, Verdicts, Refusals
  <2>3. CASE Spawn(r)
    <3>1. /\ handle' \in [Workers -> BOOLEAN] /\ cmd' \in [Workers -> Requests \cup {NoOne}]
          /\ regLock' \in Requests \cup {NoOne}
          /\ wk' \in [Requests -> Workers \cup {NoWorker}] /\ pc' \in [Requests -> PCs]
      <4>1. CASE Goto(r, "escaped") /\ UNCHANGED <<handle, cmd, regLock, wk>>
        BY <4>1 DEF PlaceInv, TypeOK, Goto, PCs
      <4>2. ASSUME NEW w \in Workers, handle' = [handle EXCEPT ![w] = TRUE], Lock(w, r),
                   regLock' = r, wk' = [wk EXCEPT ![r] = w], Goto(r, "hello")
            PROVE  <3>1!:
        BY <4>2 DEF PlaceInv, TypeOK, Goto, Lock, PCs
      <4> QED BY <2>3, <4>1, <4>2 DEF Spawn
    <3> QED BY <1>1, <1>2, <2>3, <3>1 DEF Spawn, PlaceInv, TypeOK, thread
  <2> QED BY <2>1, <2>2, <2>3
<1>5. PlaceOf(r)'
  <2>1. CASE GetExisting(r)
    BY <1>3, <2>1 DEF GetExisting, PlaceInv, PlaceOf, TypeOK, thread, Goto, Handling, Shutting, Before
  <2>2. CASE RefuseCapacity(r) \/ Spawn(r)
    BY <2>2 DEF RefuseCapacity, Spawn, PlaceInv, PlaceOf, TypeOK, thread, Goto, Decide,
       Handling, Shutting, Before
  <2> QED BY <2>1, <2>2
<1> QED BY <1>4, <1>5, PlaceKept DEF Fresh, workerVars, GetExisting, RefuseCapacity, Spawn, PlaceInv, TypeOK, thread,
           Goto, Decide

LEMMA HelloPlace ==
  ASSUME PlaceInv, NEW r \in Requests, HelloAccepted(r) \/ HelloFails(r)
  PROVE  PlaceInv'
<1>1. wk[r] \in Workers /\ pc[r] = "hello"
  BY DEF HelloAccepted, HelloFails, PlaceInv, PlaceOf, Handling
<1>2. WorkerTypeOK'
  BY <1>1, TakeLineType DEF HelloAccepted, HelloFails, PlaceInv, TypeOK, WorkerTypeOK
<1>3. TypeOK'
  <2>1. CASE HelloAccepted(r)
    BY <1>1, <1>2, <2>1, SessionOfAssumption DEF HelloAccepted, PlaceInv, TypeOK, thread, Goto,
       Unlock, PCs
  <2>2. CASE HelloFails(r)
    BY <1>1, <1>2, <2>2 DEF HelloFails, PlaceInv, TypeOK, shared, Goto, Because, PCs, Tasks
  <2> QED BY <2>1, <2>2
<1>4. PlaceOf(r)'
  BY <1>1 DEF HelloAccepted, HelloFails, PlaceInv, PlaceOf, TypeOK, thread, Goto, Because,
     Handling, Shutting, Before
<1> QED BY <1>3, <1>4, PlaceKept DEF workerVars, HelloAccepted, HelloFails, PlaceInv, TypeOK, thread, Goto, Because

LEMMA TurnPlace ==
  ASSUME PlaceInv, NEW r \in Requests, Enter(r) \/ Send(r) \/ ReadAnswer(r) \/ NoAnswer(r)
  PROVE  PlaceInv'
<1>1. wk[r] \in Workers
  BY DEF Enter, Send, ReadAnswer, NoAnswer, PlaceInv, PlaceOf, Handling
<1>2. WorkerTypeOK'
  <2>1. CASE Enter(r) \/ NoAnswer(r)
    BY <2>1, WorkersKept DEF Enter, NoAnswer, PlaceInv, TypeOK
  <2>2. CASE Send(r)
    <3>1. [kind |-> "turn", req |-> r] \in Commands
      BY DEF Commands
    <3> QED BY <1>1, <2>2, <3>1, WriteType DEF Send, PlaceInv, TypeOK, WorkerTypeOK
  <2>3. CASE ReadAnswer(r)
    BY <1>1, <2>3, TakeLineType DEF ReadAnswer, PlaceInv, TypeOK, WorkerTypeOK
  <2> QED BY <2>1, <2>2, <2>3
<1>3. TypeOK'
  <2>1. CASE Enter(r)
    BY <1>1, <1>2, <2>1 DEF Enter, PlaceInv, TypeOK, Goto, Lock, PCs, Verdicts, Refusals
  <2>2. CASE Send(r)
    BY <1>1, <1>2, <2>2 DEF Send, PlaceInv, TypeOK, shared, Goto, Because, Decide, PCs, Tasks, Verdicts
  <2>3. CASE ReadAnswer(r)
    <3>1. Head(stdout[wk[r]]) \in Lines
      BY <1>1, <2>3, TakeLineType DEF ReadAnswer, PlaceInv, TypeOK
    <3> QED BY <1>1, <1>2, <2>3, <3>1 DEF ReadAnswer, PlaceInv, TypeOK, Goto, Unlock, Decide, PCs, Verdicts
  <2>4. CASE NoAnswer(r)
    BY <1>2, <2>4 DEF NoAnswer, PlaceInv, TypeOK, shared, Goto, Because, Decide, PCs, Tasks, Verdicts
  <2> QED BY <2>1, <2>2, <2>3, <2>4
<1>4. PlaceOf(r)'
  BY <1>1 DEF Enter, Send, ReadAnswer, NoAnswer, PlaceInv, PlaceOf, TypeOK, Goto, Because, Decide,
     Handling, Shutting, Before
<1> QED BY <1>3, <1>4, PlaceKept DEF workerVars, Enter, Send, ReadAnswer, NoAnswer, PlaceInv, TypeOK, Goto,
           Because, Decide

LEMMA StoppedPlace ==
  ASSUME PlaceInv, NEW r \in Requests, pc[r] \in Shutting, Stopped(r), WorkerTypeOK',
         UNCHANGED workerVars \/ Ended(wk[r])
  PROVE  PlaceInv'
<1>1. wk[r] \in Workers /\ task[r] \in Tasks \ {"none"}
  BY DEF PlaceInv, PlaceOf, Handling, TypeOK
<1>2. /\ pc' \in [Requests -> PCs] /\ try' \in [Requests -> {1, 2}]
      /\ regLock' \in Requests \cup {NoOne}
      /\ pc'[r] \in {"forget", "escaped", "drop", "get", "respond"}
      /\ pc'[r] = "forget" => task[r] = "idle_ttl"
      /\ pc'[r] \in {"get", "respond"} => (pc'[r] = "get" <=> verdict[r] = "none")
      /\ \A q \in Requests \ {r} : pc'[q] = pc[q]
  <2>1. /\ pc \in [Requests -> PCs] /\ try \in [Requests -> {1, 2}]
        /\ regLock \in Requests \cup {NoOne}
    BY DEF PlaceInv, TypeOK
  <2>2. CASE task[r] \in {"idle_ttl", "handshake", "post_send"}
    BY <2>1, <2>2 DEF Stopped, Goto, PCs
  <2>3. CASE task[r] = "drop"
    <3>1. AfterDrop(r) /\ UNCHANGED regLock
      BY <2>3 DEF Stopped
    <3> QED BY <2>1, <2>3, <3>1 DEF AfterDrop, Goto, PCs
  <2> QED BY <1>1, <2>2, <2>3 DEF Tasks
<1>3. TypeOK'
  BY <1>1, <1>2 DEF Stopped, PlaceInv, TypeOK, Unlock, Because, Tasks
<1>4. task'[r] = "none"
  BY DEF Stopped, Because, PlaceInv, TypeOK
<1>5. PlaceOf(r)'
  BY <1>1, <1>2, <1>4 DEF Stopped, PlaceInv, PlaceOf, Handling, Shutting, Before
<1> QED BY <1>2, <1>3, <1>5, PlaceKept DEF workerVars, Stopped, Because, PlaceInv, TypeOK

LEMMA ShutPlace ==
  ASSUME PlaceInv, NEW r \in Requests,
         Stop(r) \/ Acknowledge(r) \/ NoAcknowledgement(r) \/ Reap(r) \/ Kill(r)
  PROVE  PlaceInv'
<1>1. wk[r] \in Workers /\ pc[r] \in Shutting
  BY DEF Stop, Acknowledge, NoAcknowledgement, Reap, Kill, PlaceInv, PlaceOf, Handling, Shutting
<1>2. CASE (Stop(r) /\ IsAlive(wk[r])) \/ Acknowledge(r) \/ NoAcknowledgement(r)
  <2>1. [kind |-> "shutdown", req |-> NoOne] \in Commands
    BY DEF Commands
  <2>2. WorkerTypeOK'
    BY <1>1, <1>2, <2>1, WriteType, TakeLineType, WorkersKept
       DEF Stop, Acknowledge, NoAcknowledgement, PlaceInv, TypeOK, WorkerTypeOK
  <2>3. /\ UNCHANGED <<life, cur, shared, wk, snap, thread>>
        /\ \E l \in Shutting : Goto(r, l)
    BY <1>2 DEF workerVars, Stop, Acknowledge, NoAcknowledgement, Shutting
  <2>4. /\ pc' \in [Requests -> PCs] /\ pc'[r] \in Shutting
        /\ \A q \in Requests \ {r} : pc'[q] = pc[q]
    BY <2>3 DEF Goto, PlaceInv, TypeOK, PCs, Shutting
  <2>5. TypeOK'
    BY <2>2, <2>3, <2>4 DEF PlaceInv, TypeOK, shared, thread
  <2>6. PlaceOf(r)'
    BY <1>1, <2>3, <2>4 DEF PlaceInv, PlaceOf, thread, Shutting, Handling, Before
  <2> QED BY <2>3, <2>4, <2>5, <2>6, PlaceKept DEF workerVars, thread
<1>3. CASE (Stop(r) /\ ~IsAlive(wk[r])) \/ Reap(r)
  BY <1>1, <1>3, WorkersKept, StoppedPlace DEF Stop, Reap, PlaceInv, TypeOK
<1>4. CASE Kill(r)
  <2>1. WorkerTypeOK'
    BY <1>1, <1>4 DEF Kill, PlaceInv, TypeOK, WorkerTypeOK, Become, Lives
  <2> QED BY <1>1, <1>4, <2>1, StoppedPlace DEF Kill, Ended
<1> QED BY <1>2, <1>3, <1>4

LEMMA DropPlace == ASSUME PlaceInv, NEW r \in Requests, Drop(r) \/ Close(r) PROVE PlaceInv'
<1>1. WorkerTypeOK' /\ wk[r] \in Workers
  BY WorkersKept DEF Drop, Close, PlaceInv, TypeOK, PlaceOf, Handling
<1>2. TypeOK'
  <2>1. CASE Drop(r)
    BY <1>1, <2>1, RegistryType DEF Drop, AfterDrop, PlaceInv, TypeOK, Goto, PCs
  <2>2. CASE Close(r)
    BY <1>1, <2>2 DEF Close, PlaceInv, TypeOK, Goto, Lock, Because, PCs, Tasks
  <2> QED BY <2>1, <2>2
<1>3. PlaceOf(r)'
  BY <1>1 DEF Drop, Close, AfterDrop, PlaceInv, PlaceOf, TypeOK, Goto, Because, Handling, Shutting, Before
<1> QED BY <1>2, <1>3, PlaceKept DEF workerVars, Drop, Close, AfterDrop, PlaceInv, TypeOK, Goto, Because

LEMMA RespondPlace == ASSUME PlaceInv, NEW r \in Requests, Respond(r) PROVE PlaceInv'
<1>1. WorkerTypeOK'
  BY WorkersKept DEF Respond, PlaceInv, TypeOK
<1>2. TypeOK'
  <2>1. pc' \in [Requests -> PCs]
    BY DEF Respond, PlaceInv, TypeOK, Goto, PCs
  <2>2. owner' \in [Sessions -> Requests \cup {NoOne}]
    BY SessionOfAssumption DEF Respond, PlaceInv, TypeOK
  <2>3. told' \in [Requests -> BOOLEAN]
    BY DEF Respond, PlaceInv, TypeOK
  <2> QED BY <1>1, <2>1, <2>2, <2>3 DEF Respond, PlaceInv, TypeOK
<1>3. PlaceOf(r)'
  BY DEF Respond, PlaceInv, PlaceOf, TypeOK, Goto, Handling, Shutting, Before
<1> QED BY <1>2, <1>3, PlaceKept DEF workerVars, Respond, PlaceInv, TypeOK, Goto

LEMMA EmitType ==
  ASSUME WorkerTypeOK, NEW w \in Workers, NEW k, NEW r, [kind |-> k, req |-> r] \in Lines, Emit(w, k, r)
  PROVE  stdout' \in [Workers -> Seq(Lines)]
  BY DEF WorkerTypeOK, Emit

LEMMA ReadType ==
  ASSUME WorkerTypeOK, NEW w \in Workers, stdin[w] # <<>>
  PROVE  /\ Head(stdin[w]) \in Commands
         /\ Head(stdin[w]).kind = "turn" => Head(stdin[w]).req \in Requests
         /\ ReadLine(w) => stdin' \in [Workers -> Seq(Commands)]
<1>1. Head(stdin[w]) \in Commands
  BY DEF WorkerTypeOK
<1>2. Head(stdin[w]).kind = "turn" => Head(stdin[w]).req \in Requests
  BY <1>1 DEF Commands
<1>3. ReadLine(w) => stdin' \in [Workers -> Seq(Commands)]
  BY DEF WorkerTypeOK, ReadLine
<1> QED BY <1>1, <1>2, <1>3

LEMMA WorkerStepType ==
  ASSUME WorkerTypeOK, NEW w \in Workers, WorkerStep(w), life[w] = "turn" => cur[w] # NoOne
  PROVE  WorkerTypeOK'
<1>1. \A l \in Lives : Become(w, l) => life' \in [Workers -> Lives]
  BY DEF WorkerTypeOK, Become
<1>2. [kind |-> "hello", req |-> NoOne] \in Lines /\ [kind |-> "reject", req |-> NoOne] \in Lines
      /\ [kind |-> "ack", req |-> NoOne] \in Lines
      /\ \A r \in Requests, k \in {"turn", "error"} : [kind |-> k, req |-> r] \in Lines
  BY DEF Lines
<1>3. CASE Boot(w) \/ BootRefusesVersion(w)
  BY <1>1, <1>2, <1>3, EmitType DEF Boot, BootRefusesVersion, WorkerTypeOK, Lives
<1>4. CASE StartTurn(w)
  <2>1. /\ Head(stdin[w]).req \in Requests
        /\ stdin' \in [Workers -> Seq(Commands)]
    BY <1>4, ReadType DEF StartTurn, NextCommand
  <2>2. cur' \in [Workers -> Requests \cup {NoOne}] /\ runs' \in [Requests -> Nat]
    BY <1>4, <2>1 DEF StartTurn, WorkerTypeOK
  <2>3. life' \in [Workers -> Lives] /\ UNCHANGED stdout
    BY <1>1, <1>4 DEF StartTurn, Lives
  <2> QED BY <2>1, <2>2, <2>3 DEF WorkerTypeOK
<1>5. CASE FinishTurn(w) \/ TurnRaises(w)
  <2>1. cur[w] \in Requests
    BY <1>5 DEF FinishTurn, TurnRaises, WorkerTypeOK
  <2> QED BY <1>1, <1>2, <1>5, <2>1, EmitType DEF FinishTurn, TurnRaises, WorkerTypeOK, Lives
<1>6. CASE PreflightTurn(w)
  <2>1. /\ Head(stdin[w]).req \in Requests
        /\ stdin' \in [Workers -> Seq(Commands)]
    BY <1>6, ReadType DEF PreflightTurn, NextCommand
  <2> QED BY <1>1, <1>2, <1>6, <2>1, EmitType DEF PreflightTurn, WorkerTypeOK, Lives
<1>7. CASE ReadShutdown(w)
  <2>1. stdin' \in [Workers -> Seq(Commands)]
    BY <1>7, ReadType DEF ReadShutdown, NextCommand
  <2> QED BY <1>1, <1>7, <2>1 DEF ReadShutdown, WorkerTypeOK, Lives
<1>8. CASE CloseSession(w)
  BY <1>1, <1>2, <1>8, EmitType DEF CloseSession, WorkerTypeOK, Lives
<1>9. CASE Exit(w) \/ Die(w)
  BY <1>1, <1>9 DEF Exit, Die, WorkerTypeOK, Lives
<1> QED BY <1>3, <1>4, <1>5, <1>6, <1>7, <1>8, <1>9 DEF WorkerStep, Leaving

LEMMA ProcessPlace == ASSUME PlaceInv, NEW w \in Workers, ProcessStep(w) PROVE PlaceInv'
<1>1. WorkerTypeOK'
  BY WorkerStepType DEF ProcessStep, PlaceInv, TypeOK
<1>2. UNCHANGED <<shared, pc, wk, snap, thread>>
  BY DEF ProcessStep
<1>3. TypeOK'
  BY <1>1, <1>2 DEF PlaceInv, TypeOK, shared, thread
<1>4. \A q \in Requests : PlaceOf(q)'
  BY <1>2 DEF PlaceInv, PlaceOf, thread
<1>5. \A v \in Workers : (life[v] = "turn" <=> cur[v] # NoOne)'
  <2>1. CASE StartTurn(w)
    <3>1. Head(stdin[w]).req \in Requests
      BY <2>1, ReadType DEF StartTurn, NextCommand, PlaceInv, TypeOK
    <3>2. cur' = [cur EXCEPT ![w] = Head(stdin[w]).req] /\ life' = [life EXCEPT ![w] = "turn"]
      BY <2>1 DEF StartTurn, Become
    <3> QED BY <3>1, <3>2, NoOneAssumption DEF PlaceInv, TypeOK, WorkerTypeOK
  <2>2. CASE \/ UNCHANGED cur /\ life[w] # "turn" /\ \E l \in Lives \ {"turn"} : Become(w, l)
             \/ UNCHANGED <<cur, life>>
             \/ /\ cur' = [cur EXCEPT ![w] = NoOne]
                /\ \E l \in Lives \ {"turn"} : Become(w, l)
    BY <2>2 DEF PlaceInv, TypeOK, WorkerTypeOK, Become
  <2>3. WorkerStep(w) /\ ~StartTurn(w) => <2>2!1
    BY DEF WorkerStep, Boot, BootRefusesVersion, FinishTurn, TurnRaises, PreflightTurn, Leaving,
       ReadShutdown, CloseSession, Exit, Die, Lives
  <2> QED BY <2>1, <2>2, <2>3 DEF ProcessStep
<1> QED BY <1>3, <1>4, <1>5 DEF PlaceInv

LEMMA InitPlace == Init => PlaceInv
<1> SUFFICES ASSUME Init PROVE PlaceInv
  OBVIOUS
<1>1. TypeOK
  BY DEF Init, WorkerInit, TypeOK, WorkerTypeOK, Lives, PCs, Tasks, Verdicts
<1> QED BY <1>1 DEF Init, WorkerInit, PlaceInv, PlaceOf, Handling, Shutting

LEMMA NextPlace == PlaceInv /\ [Next]_vars => PlaceInv'
<1> SUFFICES ASSUME PlaceInv, [Next]_vars PROVE PlaceInv'
  OBVIOUS
<1>1. ASSUME NEW r \in Requests, Serve(r)
      PROVE  PlaceInv'
  BY <1>1, SweepPlace, GetPlace, HelloPlace, TurnPlace, ShutPlace, DropPlace, RespondPlace DEF Serve
<1>2. CASE UNCHANGED vars
  BY <1>2 DEF vars, workerVars, shared, thread, PlaceInv, TypeOK, WorkerTypeOK, PlaceOf
<1> QED BY <1>1, <1>2, PostPlace, ProcessPlace DEF Next

(* Type correctness of threads, registry and processes, and of each thread *)
(* what its place says of its own variables.                               *)
THEOREM SpecPlaceInv == Spec => []PlaceInv
  BY InitPlace, NextPlace, PTL DEF Spec

(* Type correctness of the sidecar and of its worker processes.            *)
THEOREM SpecTypeOK == Spec => []TypeOK
<1>1. PlaceInv => TypeOK
  BY DEF PlaceInv
<1> QED BY <1>1, SpecPlaceInv, PTL

-----------------------------------------------------------------------------
(* Who owns a session.                                                     *)

(* A step inside a request moves no token. *)
Inner == {"sweep", "sweeping", "forget", "get", "hello", "enter", "send", "await", "drop", "close"}
         \cup Shutting
Moves(r) ==
  /\ pc[r] \in Inner /\ UNCHANGED <<owner, token, told>>
  /\ pc'[r] \in Inner \cup {"respond", "escaped"}
  /\ \A q \in Requests \ {r} : pc'[q] = pc[q]

LEMMA ServeMoves ==
  ASSUME PlaceInv, NEW r \in Requests, Serve(r), ~Respond(r)
  PROVE  Moves(r)
<1>1. pc \in [Requests -> PCs] /\ PlaceOf(r)
  BY DEF PlaceInv, TypeOK
<1>2. CASE Sweep(r) \/ KeepCandidate(r) \/ CloseCandidate(r) \/ Forget(r) \/ EndSweep(r)
  BY <1>1, <1>2 DEF Moves, Inner, Shutting, Goto, shared, thread, Sweep, KeepCandidate,
     CloseCandidate, Forget, EndSweep
<1>3. CASE GetExisting(r) \/ RefuseCapacity(r) \/ Spawn(r) \/ HelloAccepted(r) \/ HelloFails(r)
  BY <1>1, <1>3 DEF Moves, Inner, Shutting, Goto, shared, thread, GetExisting, RefuseCapacity,
     Spawn, HelloAccepted, HelloFails
<1>4. CASE Enter(r) \/ Send(r) \/ ReadAnswer(r) \/ NoAnswer(r)
  BY <1>1, <1>4 DEF Moves, Inner, Shutting, Goto, shared, Enter, Send, ReadAnswer, NoAnswer
<1>5. CASE Drop(r) \/ Close(r)
  BY <1>1, <1>5 DEF Moves, Inner, Shutting, Goto, Drop, Close, AfterDrop
<1>6. CASE Acknowledge(r) \/ NoAcknowledgement(r) \/ (Stop(r) /\ IsAlive(wk[r]))
  BY <1>1, <1>6 DEF Moves, Inner, Shutting, Goto, shared, thread, Acknowledge, NoAcknowledgement, Stop
<1>7. CASE (Stop(r) /\ ~IsAlive(wk[r])) \/ Reap(r) \/ Kill(r)
  <2>1. pc[r] \in Shutting /\ Stopped(r)
    BY <1>7 DEF Stop, Reap, Kill, Shutting
  <2>2. task[r] \in Tasks \ {"none"}
    BY <1>1, <2>1 DEF PlaceOf, PlaceInv, TypeOK
  <2>3. pc'[r] \in {"forget", "escaped", "drop", "get", "respond"}
        /\ \A q \in Requests \ {r} : pc'[q] = pc[q]
    BY <1>1, <2>1, <2>2 DEF Stopped, AfterDrop, Tasks, Goto
  <2> QED BY <2>1, <2>3 DEF Moves, Inner, Stopped
<1> QED BY <1>2, <1>3, <1>4, <1>5, <1>6, <1>7 DEF Serve

LEMMA ClaimToken == ASSUME PlaceInv, TokenInv, NEW r \in Requests, Claim(r) PROVE TokenInv'
<1>1. /\ pc[r] = "idle" /\ token[r] = NoOne /\ owner[SessionOf[r]] = NoOne /\ ~told[r]
      /\ token'[r] \in {r, NoOne} /\ pc'[r] \in {"sweep", "escaped"}
      /\ token'[r] = NoOne \/ owner'[SessionOf[r]] = r
      /\ \A q \in Requests \ {r} : token'[q] = token[q] /\ pc'[q] = pc[q]
      /\ owner' = [owner EXCEPT ![SessionOf[r]] = r] /\ UNCHANGED told
  BY SessionOfAssumption DEF Claim, PlaceInv, TypeOK, TokenInv, Goto
<1>2. ASSUME NEW s \in Sessions, owner'[s] # NoOne
      PROVE  SessionOf[owner'[s]] = s
  BY <1>1, <1>2, SessionOfAssumption DEF PlaceInv, TypeOK, TokenInv
<1>3. ASSUME NEW q \in Requests
      PROVE  /\ pc'[q] = "idle" => token'[q] = NoOne
             /\ told'[q] => pc'[q] = "answered"
             /\ token'[q] # NoOne /\ pc'[q] \notin Over => owner'[SessionOf[q]] = token'[q]
  BY <1>1, <1>3, SessionOfAssumption DEF PlaceInv, TypeOK, TokenInv
<1>4. ASSUME NEW q \in Requests, token'[q] \notin {NoOne, q}
      PROVE  /\ told'[token'[q]]
             /\ token'[token'[q]] = token'[q]
             /\ SessionOf[token'[q]] = SessionOf[q]
  <2>1. q # r /\ token'[q] = token[q] /\ token[q] \in Requests
    BY <1>1, <1>4 DEF PlaceInv, TypeOK
  <2>2. told[token[q]] /\ token[token[q]] = token[q] /\ SessionOf[token[q]] = SessionOf[q]
    BY <1>4, <2>1 DEF TokenInv
  <2>3. token[q] # r
    BY <1>1, <2>2
  <2> QED BY <1>1, <2>1, <2>2, <2>3
<1> QED BY <1>2, <1>3, <1>4 DEF TokenInv

LEMMA ProveToken ==
  ASSUME PlaceInv, TokenInv, NEW r \in Requests, NEW t \in KnownTokens \cup {NoOne}, Prove(r, t)
  PROVE  TokenInv'
<1>1. CASE UNCHANGED token
  <2>1. /\ pc[r] = "idle" /\ pc'[r] \in {"sweep", "answered"} /\ UNCHANGED <<owner, told>>
        /\ \A q \in Requests \ {r} : pc'[q] = pc[q]
    BY DEF Prove, PlaceInv, TypeOK, Goto, shared
  <2>2. token[r] = NoOne /\ ~told[r]
    BY <2>1 DEF TokenInv
  <2> QED BY <1>1, <2>1, <2>2 DEF TokenInv, PlaceInv, TypeOK
<1>2. CASE t = owner[SessionOf[r]] /\ token' = [token EXCEPT ![r] = t] /\ Goto(r, "sweep")
  <2>1. /\ pc[r] = "idle" /\ t # NoOne /\ token[r] = NoOne /\ ~told[r]
        /\ UNCHANGED <<owner, told>>
        /\ pc'[r] = "sweep" /\ token'[r] = t
        /\ \A q \in Requests \ {r} : token'[q] = token[q] /\ pc'[q] = pc[q]
    BY <1>2 DEF Prove, PlaceInv, TypeOK, TokenInv, Goto, shared
  <2>2. PICK p \in Requests : told[p] /\ token[p] = t
    BY <2>1 DEF KnownTokens
  <2>3. t \in Requests /\ told[t] /\ token[t] = t
    BY <2>1, <2>2 DEF TokenInv, PlaceInv, TypeOK
  <2>4. t # r /\ SessionOf[t] = SessionOf[r]
    BY <1>2, <2>1, <2>3, SessionOfAssumption DEF TokenInv
  <2>5. ASSUME NEW q \in Requests, token'[q] \notin {NoOne, q}
        PROVE  /\ told'[token'[q]]
               /\ token'[token'[q]] = token'[q]
               /\ SessionOf[token'[q]] = SessionOf[q]
    <3>1. CASE q = r
      BY <2>1, <2>3, <2>4, <3>1
    <3>2. CASE q # r
      BY <2>1, <2>5, <3>2 DEF TokenInv, PlaceInv, TypeOK
    <3> QED BY <3>1, <3>2
  <2> QED BY <1>2, <2>1, <2>5 DEF TokenInv
<1> QED BY <1>1, <1>2 DEF Prove

LEMMA RespondToken == ASSUME PlaceInv, TokenInv, NEW r \in Requests, Respond(r) PROVE TokenInv'
<1>1. /\ pc[r] = "respond" /\ pc'[r] \in Over /\ UNCHANGED token
      /\ \A q \in Requests \ {r} : pc'[q] = pc[q] /\ told'[q] = told[q]
      /\ told'[r] => pc'[r] = "answered"
      /\ ~told[r]
  BY DEF Respond, PlaceInv, TypeOK, TokenInv, Goto, Over
<1>2. ASSUME NEW q \in Requests \ {r}, token[q] # NoOne, pc[q] \notin Over
      PROVE  owner'[SessionOf[q]] = token[q]
  <2>1. owner[SessionOf[q]] = token[q]
    BY <1>2 DEF TokenInv
  <2>2. CASE UNCHANGED owner
    BY <2>1, <2>2
  <2>3. CASE /\ token[r] = r
             /\ owner' = [owner EXCEPT ![SessionOf[r]] = IF @ = token[r] THEN NoOne ELSE @]
    <3>1. SessionOf[q] # SessionOf[r]
      <4> SUFFICES ASSUME SessionOf[q] = SessionOf[r] PROVE FALSE
        OBVIOUS
      <4>1. owner[SessionOf[r]] = r
        BY <1>1, <2>3, NoOneAssumption DEF TokenInv, Over
      <4>2. token[q] = r
        BY <2>1, <4>1
      <4> QED BY <1>1, <1>2, <4>2, NoOneAssumption DEF TokenInv
    <3> QED BY <2>1, <2>3, <3>1, SessionOfAssumption DEF PlaceInv, TypeOK
  <2> QED BY <2>2, <2>3 DEF Respond, Releases
<1>3. ASSUME NEW s \in Sessions, owner'[s] # NoOne
      PROVE  SessionOf[owner'[s]] = s
  BY <1>3, SessionOfAssumption DEF Respond, PlaceInv, TypeOK, TokenInv
<1>4. ASSUME NEW q \in Requests
      PROVE  /\ pc'[q] = "idle" => token'[q] = NoOne
             /\ told'[q] => pc'[q] = "answered"
             /\ token'[q] # NoOne /\ pc'[q] \notin Over => owner'[SessionOf[q]] = token'[q]
  BY <1>1, <1>2, <1>4 DEF TokenInv, Over
<1>5. ASSUME NEW q \in Requests, token[q] \notin {NoOne, q}
      PROVE  /\ told'[token[q]]
             /\ token[token[q]] = token[q]
             /\ SessionOf[token[q]] = SessionOf[q]
  BY <1>1, <1>5 DEF TokenInv, PlaceInv, TypeOK
<1> QED BY <1>1, <1>3, <1>4, <1>5 DEF TokenInv

LEMMA NextToken == PlaceInv /\ TokenInv /\ [Next]_vars => TokenInv'
<1> SUFFICES ASSUME PlaceInv, TokenInv, [Next]_vars PROVE TokenInv'
  OBVIOUS
<1>1. ASSUME NEW r \in Requests, Moves(r)
      PROVE  TokenInv'
  BY <1>1 DEF Moves, Inner, Shutting, Over, TokenInv
<1>2. CASE UNCHANGED <<owner, token, told, pc>>
  BY <1>2 DEF TokenInv
<1>3. ASSUME NEW r \in Requests, Serve(r)
      PROVE  TokenInv'
  BY <1>1, <1>3, ServeMoves, RespondToken
<1>4. ASSUME NEW r \in Requests, Post(r)
      PROVE  TokenInv'
  BY <1>4, ClaimToken, ProveToken DEF Post
<1>5. ASSUME NEW w \in Workers, ProcessStep(w)
      PROVE  TokenInv'
  BY <1>2, <1>5 DEF ProcessStep, shared, thread
<1>6. CASE UNCHANGED vars
  BY <1>2, <1>6 DEF vars, shared, thread
<1> QED BY <1>3, <1>4, <1>5, <1>6 DEF Next

(* claim_or_validate, release_claim: while a request that claimed or       *)
(* proved a session is served, nobody else can claim it, whatever other    *)
(* requests of the session fail or give back.                              *)
THEOREM SpecOwnershipHeld == Spec => []OwnershipHeld
<1>1. Init => TokenInv
  BY DEF Init, TokenInv
<1>2. TokenInv => OwnershipHeld
  BY DEF TokenInv, OwnershipHeld, Over
<1> QED BY <1>1, <1>2, NextToken, SpecPlaceInv, PTL DEF Spec

-----------------------------------------------------------------------------
(* Who has a worker.                                                       *)

(* What a step of r does to command locks: it keeps the one it has, or     *)
(* has none; takes one that is free; gives its own back.                   *)
Keeps(r) ==
  /\ UNCHANGED cmd
  /\ pc[r] \in Holding <=> pc'[r] \in Holding
  /\ pc[r] \in Holding => wk'[r] = wk[r]
Takes(r) ==
  /\ pc[r] \notin Holding /\ pc'[r] \in Holding
  /\ wk'[r] \in Workers /\ cmd[wk'[r]] = NoOne /\ Lock(wk'[r], r)
Gives(r) == pc[r] \in Holding /\ pc'[r] \notin Holding /\ Unlock(wk[r])

OthersStay(r) ==
  \A q \in Requests \ {r} : pc'[q] = pc[q] /\ wk'[q] = wk[q] /\ task'[q] = task[q]

LEMMA HoldKept ==
  ASSUME PlaceInv, HoldInv, NEW r \in Requests, OthersStay(r),
         Keeps(r) \/ Takes(r) \/ Gives(r),
         \/ UNCHANGED regLock
         \/ regLock = NoOne
         \/ regLock = r,
         pc'[r] = "hello" \/ task'[r] = "handshake" => regLock' = r
  PROVE  HoldInv'
<1>1. cmd \in [Workers -> Requests \cup {NoOne}] /\ (pc[r] \in Holding => wk[r] \in Workers)
  BY DEF PlaceInv, TypeOK, PlaceOf, Handling, Holding
<1>2. ASSUME NEW q \in Requests, pc'[q] \in Holding
      PROVE  cmd'[wk'[q]] = q
  <2>0. q # r => wk[q] \in Workers /\ cmd[wk[q]] = q /\ wk'[q] = wk[q]
    BY <1>2 DEF OthersStay, HoldInv, PlaceInv, PlaceOf, Handling, Holding
  <2>1. CASE Keeps(r)
    BY <1>2, <2>0, <2>1 DEF Keeps, HoldInv
  <2>2. CASE Takes(r)
    BY <1>1, <1>2, <2>0, <2>2, NoOneAssumption DEF Takes, Lock
  <2>3. CASE Gives(r)
    BY <1>1, <1>2, <2>0, <2>3 DEF Gives, Unlock, HoldInv
  <2> QED BY <2>1, <2>2, <2>3
<1>3. ASSUME NEW w \in Workers, cmd'[w] # NoOne
      PROVE  wk'[cmd'[w]] = w /\ pc'[cmd'[w]] \in Holding
  <2>1. CASE Keeps(r)
    BY <1>1, <1>3, <2>1 DEF Keeps, HoldInv, OthersStay
  <2>2. CASE Takes(r)
    BY <1>1, <1>3, <2>2 DEF Takes, Lock, HoldInv, OthersStay
  <2>3. CASE Gives(r)
    BY <1>1, <1>3, <2>3 DEF Gives, Unlock, HoldInv, OthersStay
  <2> QED BY <2>1, <2>2, <2>3
<1>4. ASSUME NEW q \in Requests, pc'[q] = "hello" \/ task'[q] = "handshake"
      PROVE  regLock' = q
  BY <1>4, NoOneAssumption DEF HoldInv, OthersStay
<1> QED BY <1>2, <1>3, <1>4 DEF HoldInv

(* The steps that leave the command lock where it is. *)
LEMMA KeepsLock ==
  ASSUME PlaceInv, NEW r \in Requests,
         \/ Post(r) \/ Sweep(r) \/ KeepCandidate(r) \/ Forget(r) \/ EndSweep(r)
         \/ GetExisting(r) \/ RefuseCapacity(r) \/ HelloFails(r) \/ Send(r) \/ NoAnswer(r)
         \/ Acknowledge(r) \/ NoAcknowledgement(r) \/ (Stop(r) /\ IsAlive(wk[r]))
         \/ Drop(r) \/ Respond(r)
  PROVE  /\ OthersStay(r) /\ Keeps(r) /\ UNCHANGED regLock
         /\ pc'[r] # "hello"
         /\ task'[r] = "handshake" => pc[r] = "hello" \/ task[r] = "handshake"
<1>1. pc \in [Requests -> PCs] /\ wk \in [Requests -> Workers \cup {NoWorker}]
      /\ task \in [Requests -> Tasks]
  BY DEF PlaceInv, TypeOK
<1>2. CASE Post(r) \/ Respond(r)
  BY <1>1, <1>2 DEF Post, Claim, Prove, Respond, OthersStay, Keeps, Holding, Shutting, Goto, shared
<1>3. CASE Sweep(r) \/ KeepCandidate(r) \/ Forget(r) \/ EndSweep(r)
  BY <1>1, <1>3 DEF Sweep, KeepCandidate, Forget, EndSweep, OthersStay, Keeps, Holding, Shutting,
     Goto, shared, thread
<1>4. CASE GetExisting(r) \/ RefuseCapacity(r) \/ HelloFails(r)
  BY <1>1, <1>4 DEF GetExisting, RefuseCapacity, HelloFails, OthersStay, Keeps, Holding, Shutting,
     Goto, Because, shared, thread
<1>5. CASE Send(r) \/ NoAnswer(r)
  BY <1>1, <1>5 DEF Send, NoAnswer, OthersStay, Keeps, Holding, Shutting, Goto, Because, shared
<1>6. CASE Acknowledge(r) \/ NoAcknowledgement(r) \/ (Stop(r) /\ IsAlive(wk[r])) \/ Drop(r)
  BY <1>1, <1>6 DEF Acknowledge, NoAcknowledgement, Stop, Drop, AfterDrop, OthersStay, Keeps,
     Holding, Shutting, Goto, shared, thread
<1> QED BY <1>2, <1>3, <1>4, <1>5, <1>6

LEMMA StoppedGives ==
  ASSUME PlaceInv, HoldInv, NEW r \in Requests, pc[r] \in Shutting, Stopped(r)
  PROVE  /\ OthersStay(r) /\ Gives(r)
         /\ UNCHANGED regLock \/ regLock = r
         /\ pc'[r] \in {"forget", "escaped", "drop", "get", "respond"} /\ task'[r] = "none"
         /\ wk'[r] = wk[r]
<1>1. pc \in [Requests -> PCs] /\ task \in [Requests -> Tasks] /\ task[r] # "none"
  BY DEF PlaceInv, TypeOK, PlaceOf
<1>2. /\ pc'[r] \in {"forget", "escaped", "drop", "get", "respond"} /\ task'[r] = "none"
      /\ \A q \in Requests \ {r} : pc'[q] = pc[q] /\ task'[q] = task[q]
      /\ UNCHANGED regLock \/ task[r] = "handshake"
  BY <1>1 DEF Stopped, AfterDrop, Goto, Because, Tasks
<1>3. UNCHANGED regLock \/ regLock = r
  BY <1>2 DEF HoldInv
<1> QED BY <1>2, <1>3 DEF Stopped, OthersStay, Gives, Holding, Shutting

(* An unborn worker is nobody's. *)
LEMMA UnbornIsFree ==
  ASSUME PlaceInv, HoldInv, BornInv, NEW w \in Workers, life[w] = "unborn"
  PROVE  /\ cmd[w] = NoOne /\ ~handle[w]
         /\ \A r \in Requests : wk[r] # w /\ w \notin snap[r]
         /\ \A s \in Sessions : reg[s] # w
<1>1. cmd[w] \in Requests \cup {NoOne} /\ w # NoWorker
  BY NoWorkerAssumption DEF PlaceInv, TypeOK
<1>2. \A r \in Requests : wk[r] # w /\ w \notin snap[r]
  BY <1>1 DEF BornInv
<1> QED BY <1>1, <1>2 DEF HoldInv, BornInv

LEMMA TakesLock ==
  ASSUME PlaceInv, HoldInv, BornInv, NEW r \in Requests,
         CloseCandidate(r) \/ (Spawn(r) /\ ~Goto(r, "escaped")) \/ (Enter(r) /\ IsAlive(wk[r])) \/ Close(r)
  PROVE  /\ OthersStay(r) /\ Takes(r)
         /\ UNCHANGED regLock \/ (regLock = NoOne /\ regLock' = r)
         /\ pc'[r] = "hello" => regLock' = r
         /\ task'[r] # "handshake"
<1>1. /\ pc \in [Requests -> PCs] /\ wk \in [Requests -> Workers \cup {NoWorker}]
      /\ task \in [Requests -> Tasks] /\ snap[r] \subseteq Workers
      /\ pc[r] \in {"get", "enter"} => task[r] = "none"
      /\ pc[r] \in {"enter", "close"} => wk[r] \in Workers
  BY DEF PlaceInv, TypeOK, PlaceOf, Shutting, Handling
<1>2. CASE CloseCandidate(r)
  BY <1>1, <1>2 DEF CloseCandidate, OthersStay, Takes, Holding, Shutting, Goto, Because
<1>3. CASE Spawn(r) /\ ~Goto(r, "escaped")
  <2>1. PICK w \in Workers : /\ life[w] = "unborn" /\ Lock(w, r) /\ regLock' = r
                             /\ wk' = [wk EXCEPT ![r] = w] /\ Goto(r, "hello")
    BY <1>3 DEF Spawn
  <2>2. cmd[w] = NoOne
    BY <2>1, UnbornIsFree
  <2>3. pc[r] = "get" /\ UNCHANGED task /\ regLock = NoOne
    BY <1>3 DEF Spawn, thread, RegistryIsFree
  <2> QED BY <1>1, <2>1, <2>2, <2>3 DEF OthersStay, Takes, Holding, Shutting, Goto
<1>4. CASE Enter(r) /\ IsAlive(wk[r])
  BY <1>1, <1>4 DEF Enter, OthersStay, Takes, Holding, Shutting, Goto
<1>5. CASE Close(r)
  BY <1>1, <1>5 DEF Close, OthersStay, Takes, Holding, Shutting, Goto, Because
<1> QED BY <1>2, <1>3, <1>4, <1>5

LEMMA GivesLock ==
  ASSUME PlaceInv, HoldInv, NEW r \in Requests,
         \/ HelloAccepted(r) \/ ReadAnswer(r)
         \/ (Stop(r) /\ ~IsAlive(wk[r])) \/ Reap(r) \/ Kill(r)
  PROVE  /\ OthersStay(r) /\ Gives(r) /\ wk'[r] = wk[r]
         /\ UNCHANGED regLock \/ regLock = r
         /\ pc'[r] # "hello" /\ task'[r] # "handshake"
<1>1. /\ pc \in [Requests -> PCs] /\ task \in [Requests -> Tasks]
      /\ pc[r] \in {"hello", "await"} => task[r] = "none"
  BY DEF PlaceInv, TypeOK, PlaceOf, Shutting
<1>2. CASE HelloAccepted(r)
  BY <1>1, <1>2 DEF HelloAccepted, OthersStay, Gives, Holding, Shutting, Goto, thread, HoldInv
<1>3. CASE ReadAnswer(r)
  BY <1>1, <1>3 DEF ReadAnswer, OthersStay, Gives, Holding, Shutting, Goto
<1>4. CASE (Stop(r) /\ ~IsAlive(wk[r])) \/ Reap(r) \/ Kill(r)
  <2>1. pc[r] \in Shutting /\ Stopped(r)
    BY <1>4 DEF Stop, Reap, Kill, Shutting
  <2> QED BY <2>1, StoppedGives
<1> QED BY <1>2, <1>3, <1>4

LEMMA EscapesLock ==
  ASSUME PlaceInv, NEW r \in Requests,
         (Spawn(r) /\ Goto(r, "escaped")) \/ (Enter(r) /\ ~IsAlive(wk[r]))
  PROVE  /\ OthersStay(r) /\ Keeps(r) /\ UNCHANGED regLock
         /\ pc'[r] # "hello" /\ task'[r] # "handshake"
<1>1. /\ pc \in [Requests -> PCs]
      /\ pc[r] \in {"get", "enter"} => task[r] = "none"
  BY DEF PlaceInv, TypeOK, PlaceOf, Shutting
<1>2. CASE Spawn(r) /\ Goto(r, "escaped")
  <2>1. UNCHANGED <<cmd, regLock, wk>>
    BY <1>1, <1>2 DEF Spawn, Goto
  <2> QED BY <1>1, <1>2, <2>1 DEF Spawn, OthersStay, Keeps, Holding, Shutting, Goto, thread
<1>3. CASE Enter(r) /\ ~IsAlive(wk[r])
  BY <1>1, <1>3 DEF Enter, OthersStay, Keeps, Holding, Shutting, Goto
<1> QED BY <1>2, <1>3

LEMMA NextHold == ASSUME PlaceInv, HoldInv, BornInv, [Next]_vars PROVE HoldInv'
<1>1. ASSUME NEW r \in Requests, Post(r) \/ Serve(r)
      PROVE  HoldInv'
  <2>1. regLock' = r \/ ~(pc'[r] = "hello" \/ task'[r] = "handshake")
        \/ (UNCHANGED regLock /\ (pc[r] = "hello" \/ task[r] = "handshake"))
    BY <1>1, KeepsLock, TakesLock, GivesLock, EscapesLock DEF Serve
  <2>2. pc'[r] = "hello" \/ task'[r] = "handshake" => regLock' = r
    BY <2>1 DEF HoldInv
  <2>3. /\ OthersStay(r)
        /\ Keeps(r) \/ Takes(r) \/ Gives(r)
        /\ UNCHANGED regLock \/ regLock \in {NoOne, r}
    BY <1>1, KeepsLock, TakesLock, GivesLock, EscapesLock DEF Serve
  <2> QED BY <2>2, <2>3, HoldKept
<1>2. CASE UNCHANGED <<shared, pc, wk, snap, thread>>
  BY <1>2 DEF HoldInv, shared, thread
<1> QED BY <1>1, <1>2 DEF Next, ProcessStep, vars

LEMMA BornKept ==
  ASSUME PlaceInv, HoldInv, BornInv, NEW r \in Requests, OthersStay(r),
         \A w \in Workers : /\ life[w] # "unborn" => life'[w] # "unborn"
                            /\ life[w] = "ended" => life'[w] = "ended"
                            /\ handle'[w] => life'[w] # "unborn"
                            /\ ~handle'[w] => life'[w] \in {"unborn", "ended"}
                            /\ handle[w] /\ ~handle'[w] => pc[r] \in Holding /\ wk[r] = w,
         \A s \in Sessions : reg'[s] \in {reg[s], NoWorker, wk'[r]},
         \A q \in Requests : snap'[q] \subseteq snap[q] \cup Registered,
         wk'[r] \in Workers \cup {NoWorker},
         wk'[r] # NoWorker => life'[wk'[r]] # "unborn",
         pc'[r] = "forget" => life'[wk'[r]] = "ended",
         pc'[r] \in {"hello", "send", "await"} => handle'[wk'[r]]
  PROVE  BornInv'
<1>1. /\ \A q \in Requests : wk[q] \in Workers \cup {NoWorker} /\ snap[q] \subseteq Workers
      /\ \A s \in Sessions : reg[s] \in Workers \cup {NoWorker}
      /\ \A q \in Requests : pc[q] \in Handling => wk[q] \in Workers
      /\ Registered \subseteq Workers
  BY RegistryType DEF PlaceInv, TypeOK, PlaceOf
<1>2. \A w \in Workers : /\ handle'[w] => life'[w] # "unborn"
                         /\ ~handle'[w] => life'[w] \in {"unborn", "ended"}
  OBVIOUS
<1>3. ASSUME NEW s \in Sessions, reg'[s] # NoWorker
      PROVE  life'[reg'[s]] # "unborn"
  BY <1>1, <1>3 DEF BornInv
<1>4. ASSUME NEW q \in Requests, wk'[q] # NoWorker
      PROVE  life'[wk'[q]] # "unborn"
  BY <1>1, <1>4 DEF BornInv, OthersStay
<1>5. ASSUME NEW q \in Requests, NEW w \in snap'[q]
      PROVE  life'[w] # "unborn"
  <2>1. w \in snap[q] \cup Registered
    OBVIOUS
  <2>2. life[w] # "unborn" /\ w \in Workers
    BY <1>1, <2>1 DEF BornInv, Registered
  <2> QED BY <2>2
<1>6. ASSUME NEW q \in Requests, pc'[q] = "forget"
      PROVE  life'[wk'[q]] = "ended"
  BY <1>1, <1>6 DEF BornInv, OthersStay, Handling
<1>7. ASSUME NEW q \in Requests, pc'[q] \in {"hello", "send", "await"}
      PROVE  handle'[wk'[q]]
  <2>1. CASE q = r
    BY <1>7, <2>1
  <2>2. CASE q # r
    <3>1. pc[q] \in {"hello", "send", "await"} /\ wk'[q] = wk[q] /\ wk[q] \in Workers
      BY <1>1, <1>7, <2>2 DEF OthersStay, Handling
    <3>2. handle[wk[q]] /\ cmd[wk[q]] = q
      BY <3>1 DEF BornInv, HoldInv, Holding
    <3>3. ~(pc[r] \in Holding /\ wk[r] = wk[q])
      BY <2>2, <3>2 DEF HoldInv
    <3> QED BY <3>1, <3>2, <3>3
  <2> QED BY <2>1, <2>2
<1> QED BY <1>2, <1>3, <1>4, <1>5, <1>6, <1>7 DEF BornInv

(* The steps that start or stop no process. *)
Tame(r) ==
  \/ Post(r) \/ Sweep(r) \/ KeepCandidate(r) \/ CloseCandidate(r) \/ Forget(r) \/ EndSweep(r)
  \/ GetExisting(r) \/ RefuseCapacity(r)
  \/ HelloAccepted(r) \/ HelloFails(r)
  \/ Enter(r) \/ Send(r) \/ ReadAnswer(r) \/ NoAnswer(r)
  \/ Acknowledge(r) \/ NoAcknowledgement(r) \/ (Stop(r) /\ IsAlive(wk[r]))
  \/ Drop(r) \/ Close(r) \/ Respond(r)

LEMMA LivesStay ==
  ASSUME PlaceInv, BornInv, NEW r \in Requests, Tame(r)
  PROVE  /\ UNCHANGED <<life, cur, runs, handle>>
         /\ \A s \in Sessions : reg'[s] \in {reg[s], NoWorker, wk'[r]}
         /\ \A q \in Requests : snap'[q] \subseteq snap[q] \cup Registered
         /\ wk'[r] \in {wk[r], NoWorker} \/ wk'[r] \in snap[r] \/ \E s \in Sessions : wk'[r] = reg[s]
         /\ pc'[r] # "forget" /\ pc'[r] # "hello"
         /\ pc'[r] \in {"send", "await"} =>
              wk'[r] = wk[r] /\ (pc[r] = "send" \/ IsAlive(wk[r]))
<1>1. /\ pc \in [Requests -> PCs] /\ wk \in [Requests -> Workers \cup {NoWorker}]
      /\ snap \in [Requests -> SUBSET Workers]
      /\ reg \in [Sessions -> Workers \cup {NoWorker}]
      /\ SessionOf[r] \in Sessions
  BY SessionOfAssumption DEF PlaceInv, TypeOK
<1>2. \A s \in Sessions : LiveRegistry[s] \in {reg[s], NoWorker}
  BY DEF LiveRegistry
<1>3. CASE Post(r) \/ Respond(r)
  BY <1>1, <1>3 DEF Post, Claim, Prove, Respond, Goto, shared, workerVars
<1>4. CASE Sweep(r) \/ KeepCandidate(r) \/ CloseCandidate(r) \/ EndSweep(r)
  BY <1>1, <1>4 DEF Sweep, KeepCandidate, CloseCandidate, EndSweep, Goto, shared, workerVars
<1>5. CASE Forget(r) \/ Drop(r) \/ Close(r)
  BY <1>1, <1>5 DEF Forget, Drop, Close, AfterDrop, Pop, Goto, workerVars
<1>6. CASE GetExisting(r) \/ RefuseCapacity(r)
  BY <1>1, <1>2, <1>6 DEF GetExisting, RefuseCapacity, Goto, workerVars
<1>7. CASE HelloAccepted(r) \/ HelloFails(r)
  BY <1>1, <1>7 DEF HelloAccepted, HelloFails, Goto, shared, workerVars
<1>8. CASE Enter(r)
  BY <1>1, <1>8 DEF Enter, Goto, workerVars
<1>9. CASE Send(r) \/ ReadAnswer(r) \/ NoAnswer(r)
  BY <1>1, <1>9 DEF Send, ReadAnswer, NoAnswer, Goto, shared, workerVars
<1>10. CASE Acknowledge(r) \/ NoAcknowledgement(r) \/ (Stop(r) /\ IsAlive(wk[r]))
  BY <1>1, <1>10 DEF Acknowledge, NoAcknowledgement, Stop, Goto, shared, workerVars
<1> QED BY <1>3, <1>4, <1>5, <1>6, <1>7, <1>8, <1>9, <1>10 DEF Tame

LEMMA LivesBorn ==
  ASSUME PlaceInv, HoldInv, BornInv, NEW r \in Requests, Tame(r), OthersStay(r)
  PROVE  BornInv'
<1>1. PlaceInv'
  <2>1. Post(r) \/ Serve(r)
    BY DEF Tame, Serve
  <2> QED BY <2>1, NextPlace DEF Next
<1>2. wk'[r] \in Workers \cup {NoWorker}
  BY <1>1 DEF PlaceInv, TypeOK
<1>3. wk'[r] # NoWorker => life'[wk'[r]] # "unborn"
  BY LivesStay, NoWorkerAssumption DEF BornInv, PlaceInv, TypeOK
<1>4. pc'[r] \in {"send", "await"} => handle'[wk'[r]]
  BY LivesStay DEF BornInv, IsAlive
<1>5. \A w \in Workers : /\ life[w] # "unborn" => life'[w] # "unborn"
                         /\ life[w] = "ended" => life'[w] = "ended"
                         /\ handle'[w] => life'[w] # "unborn"
                         /\ ~handle'[w] => life'[w] \in {"unborn", "ended"}
                         /\ handle[w] /\ ~handle'[w] => pc[r] \in Holding /\ wk[r] = w
  BY LivesStay DEF BornInv
<1>6. /\ \A s \in Sessions : reg'[s] \in {reg[s], NoWorker, wk'[r]}
      /\ \A q \in Requests : snap'[q] \subseteq snap[q] \cup Registered
      /\ pc'[r] # "forget" /\ pc'[r] # "hello"
  BY LivesStay
<1> QED BY <1>2, <1>3, <1>4, <1>5, <1>6, BornKept

(* A shutdown that is over: the process has ended. *)
LEMMA ShutEnds ==
  ASSUME PlaceInv, BornInv, NEW r \in Requests, (Stop(r) /\ ~IsAlive(wk[r])) \/ Reap(r) \/ Kill(r)
  PROVE  /\ pc[r] \in Shutting /\ wk[r] \in Workers /\ Stopped(r)
         /\ handle' = [handle EXCEPT ![wk[r]] = FALSE]
         /\ life' = [life EXCEPT ![wk[r]] = "ended"]
         /\ UNCHANGED <<stdin, stdout, runs, reg, snap, wk>>
         /\ \A w \in Workers \ {wk[r]} : cur'[w] = cur[w]
<1>1. pc[r] \in Shutting /\ Stopped(r)
  BY DEF Stop, Reap, Kill, Shutting
<1>2. wk[r] \in Workers /\ wk[r] # NoWorker /\ life \in [Workers -> Lives]
  BY <1>1, NoWorkerAssumption DEF PlaceInv, PlaceOf, TypeOK, WorkerTypeOK, Handling
<1>3. CASE Kill(r)
  BY <1>1, <1>2, <1>3 DEF Kill, Become, Stopped, PlaceInv, TypeOK, WorkerTypeOK
<1>4. CASE (Stop(r) /\ ~IsAlive(wk[r])) \/ Reap(r)
  <2>1. life[wk[r]] = "ended"
    BY <1>2, <1>4 DEF Stop, Reap, IsAlive, BornInv
  <2>2. UNCHANGED workerVars
    BY <1>4 DEF Stop, Reap
  <2> QED BY <1>1, <1>2, <2>1, <2>2 DEF Stopped, workerVars
<1> QED BY <1>3, <1>4

LEMMA ShutBorn ==
  ASSUME PlaceInv, HoldInv, BornInv, NEW r \in Requests,
         (Stop(r) /\ ~IsAlive(wk[r])) \/ Reap(r) \/ Kill(r)
  PROVE  BornInv'
<1>1. /\ pc[r] \in Shutting /\ wk[r] \in Workers /\ Stopped(r)
      /\ handle' = [handle EXCEPT ![wk[r]] = FALSE]
      /\ life' = [life EXCEPT ![wk[r]] = "ended"]
      /\ UNCHANGED <<reg, snap, wk>>
  BY ShutEnds
<1>2. /\ life \in [Workers -> Lives] /\ handle \in [Workers -> BOOLEAN]
      /\ pc[r] \in Holding /\ wk'[r] = wk[r]
  BY <1>1 DEF PlaceInv, TypeOK, WorkerTypeOK, Holding
<1>3. OthersStay(r) /\ pc'[r] \in {"forget", "escaped", "drop", "get", "respond"}
  BY <1>1, StoppedGives
<1>4. \A w \in Workers : /\ life[w] # "unborn" => life'[w] # "unborn"
                         /\ life[w] = "ended" => life'[w] = "ended"
                         /\ handle'[w] => life'[w] # "unborn"
                         /\ ~handle'[w] => life'[w] \in {"unborn", "ended"}
                         /\ handle[w] /\ ~handle'[w] => pc[r] \in Holding /\ wk[r] = w
  BY <1>1, <1>2 DEF BornInv
<1>5. life'[wk'[r]] = "ended"
  BY <1>1, <1>2
<1>6. /\ \A s \in Sessions : reg'[s] \in {reg[s], NoWorker, wk'[r]}
      /\ \A q \in Requests : snap'[q] \subseteq snap[q] \cup Registered
  BY <1>1
<1> QED BY <1>1, <1>2, <1>3, <1>4, <1>5, <1>6, BornKept

LEMMA SpawnBorn == ASSUME PlaceInv, HoldInv, BornInv, NEW r \in Requests, Spawn(r) PROVE BornInv'
<1>1. /\ life \in [Workers -> Lives] /\ handle \in [Workers -> BOOLEAN]
      /\ pc \in [Requests -> PCs] /\ wk \in [Requests -> Workers \cup {NoWorker}]
      /\ NoWorker \notin Workers /\ pc[r] = "get"
      /\ \A s \in Sessions : reg'[s] \in {reg[s], NoWorker, wk'[r]}
      /\ \A q \in Requests : snap'[q] \subseteq snap[q] \cup Registered
  BY NoWorkerAssumption DEF Spawn, PlaceInv, TypeOK, WorkerTypeOK, LiveRegistry
<1>2. OthersStay(r)
  BY TakesLock, EscapesLock
<1>3. CASE Goto(r, "escaped") /\ UNCHANGED <<life, handle, wk>>
  <2>1. pc'[r] = "escaped"
    BY <1>1, <1>3 DEF Goto
  <2>2. \A w \in Workers : /\ life[w] # "unborn" => life'[w] # "unborn"
                           /\ life[w] = "ended" => life'[w] = "ended"
                           /\ handle'[w] => life'[w] # "unborn"
                           /\ ~handle'[w] => life'[w] \in {"unborn", "ended"}
                           /\ handle[w] /\ ~handle'[w] => pc[r] \in Holding /\ wk[r] = w
    BY <1>3 DEF BornInv
  <2>3. wk'[r] \in Workers \cup {NoWorker} /\ (wk'[r] # NoWorker => life'[wk'[r]] # "unborn")
    BY <1>1, <1>3 DEF BornInv
  <2> QED BY <1>1, <1>2, <2>1, <2>2, <2>3, BornKept
<1>4. ASSUME NEW v \in Workers, life[v] = "unborn", Become(v, "booting"),
             handle' = [handle EXCEPT ![v] = TRUE], wk' = [wk EXCEPT ![r] = v], Goto(r, "hello")
      PROVE  BornInv'
  <2>1. pc'[r] = "hello" /\ wk'[r] = v /\ handle'[wk'[r]] /\ life'[v] = "booting"
    BY <1>1, <1>4 DEF Goto, Become
  <2>2. \A w \in Workers : /\ life[w] # "unborn" => life'[w] # "unborn"
                           /\ life[w] = "ended" => life'[w] = "ended"
                           /\ handle'[w] => life'[w] # "unborn"
                           /\ ~handle'[w] => life'[w] \in {"unborn", "ended"}
                           /\ handle[w] /\ ~handle'[w] => pc[r] \in Holding /\ wk[r] = w
    BY <1>1, <1>4 DEF BornInv, Become
  <2> QED BY <1>1, <1>2, <1>4, <2>1, <2>2, BornKept
<1> QED BY <1>3, <1>4 DEF Spawn

LEMMA ProcessLives ==
  ASSUME PlaceInv, NEW w \in Workers, ProcessStep(w)
  PROVE  /\ life[w] \notin {"unborn", "ended"} /\ life'[w] # "unborn"
         /\ \A v \in Workers \ {w} : /\ life'[v] = life[v] /\ cur'[v] = cur[v]
                                     /\ stdin'[v] = stdin[v] /\ stdout'[v] = stdout[v]
         /\ UNCHANGED <<shared, pc, wk, snap, thread>>
<1>1. WorkerTypeOK /\ WorkerStep(w)
  BY DEF PlaceInv, TypeOK, ProcessStep
<1>2. life[w] \notin {"unborn", "ended"} /\ life'[w] # "unborn"
  BY <1>1 DEF WorkerTypeOK, WorkerStep, Boot, BootRefusesVersion, StartTurn, FinishTurn, TurnRaises,
     PreflightTurn, Leaving, ReadShutdown, CloseSession, Exit, Die, Running, Become
<1>3. \A v \in Workers \ {w} : life'[v] = life[v] /\ cur'[v] = cur[v]
  BY <1>1 DEF WorkerTypeOK, WorkerStep, Boot, BootRefusesVersion, StartTurn, FinishTurn, TurnRaises,
     PreflightTurn, Leaving, ReadShutdown, CloseSession, Exit, Die, Become
<1>4. \A v \in Workers \ {w} : stdin'[v] = stdin[v] /\ stdout'[v] = stdout[v]
  BY <1>1 DEF WorkerTypeOK, WorkerStep, Boot, BootRefusesVersion, StartTurn, FinishTurn, TurnRaises,
     PreflightTurn, Leaving, ReadShutdown, CloseSession, Exit, Die, Emit, ReadLine
<1> QED BY <1>2, <1>3, <1>4 DEF ProcessStep

LEMMA ProcessBorn == ASSUME PlaceInv, HoldInv, BornInv, NEW w \in Workers, ProcessStep(w) PROVE BornInv'
<1>1. /\ life[w] \notin {"unborn", "ended"} /\ life'[w] # "unborn"
      /\ \A v \in Workers \ {w} : life'[v] = life[v]
      /\ UNCHANGED <<shared, pc, wk, snap, thread>>
  BY ProcessLives
<1>2. \A v \in Workers : (life[v] # "unborn" => life'[v] # "unborn")
                         /\ (life[v] = "unborn" => life'[v] = "unborn")
                         /\ (life[v] = "ended" => life'[v] = "ended")
  BY <1>1
<1>3. /\ \A q \in Requests : wk[q] \in Workers \cup {NoWorker} /\ snap[q] \subseteq Workers
      /\ \A s \in Sessions : reg[s] \in Workers \cup {NoWorker}
      /\ \A q \in Requests : pc[q] = "forget" => wk[q] \in Workers
  BY DEF PlaceInv, TypeOK, PlaceOf, Handling
<1> QED BY <1>1, <1>2, <1>3 DEF BornInv, shared

LEMMA NextBorn == ASSUME PlaceInv, HoldInv, BornInv, [Next]_vars PROVE BornInv'
<1>1. ASSUME NEW r \in Requests, Post(r) \/ Serve(r)
      PROVE  BornInv'
  <2>1. OthersStay(r)
    BY <1>1, KeepsLock, TakesLock, GivesLock, EscapesLock DEF Serve
  <2>2. CASE Tame(r)
    BY <2>1, <2>2, LivesBorn
  <2>3. CASE (Stop(r) /\ ~IsAlive(wk[r])) \/ Reap(r) \/ Kill(r) \/ Spawn(r)
    BY <2>3, ShutBorn, SpawnBorn
  <2> QED BY <1>1, <2>2, <2>3 DEF Tame, Serve
<1>2. CASE UNCHANGED vars
  BY <1>2 DEF BornInv, vars, workerVars, shared, thread
<1> QED BY <1>1, <1>2, ProcessBorn DEF Next

-----------------------------------------------------------------------------
(* What the pipes hold.                                                    *)
PipesStay(w) ==
  /\ life'[w] = life[w] /\ cur'[w] = cur[w] /\ handle'[w] = handle[w] /\ cmd'[w] = cmd[w]
  /\ stdin'[w] = stdin[w] /\ stdout'[w] = stdout[w]

LEMMA PipeSame ==
  ASSUME PlaceInv, PipeInv, NEW w \in Workers, PipesStay(w),
         cmd[w] # NoOne => pc'[cmd[w]] = pc[cmd[w]]
  PROVE  PipeOf(w)'
  BY DEF PipeInv, PipeOf, PipesStay, Quiet, Greeting, Asked

LEMMA PipeKept ==
  ASSUME PlaceInv, HoldInv, PipeInv, NEW r \in Requests, OthersStay(r), NEW v \in Workers,
         pc[r] \in Holding => wk[r] = v,
         \A w \in Workers \ {v} : PipesStay(w),
         PipeOf(v)'
  PROVE  PipeInv'
<1> SUFFICES ASSUME NEW w \in Workers, w # v PROVE PipeOf(w)'
  BY DEF PipeInv
<1>1. cmd[w] \in Requests \cup {NoOne}
  BY DEF PlaceInv, TypeOK
<1>2. cmd[w] # r
  BY <1>1, NoOneAssumption DEF HoldInv
<1> QED BY <1>1, <1>2, PipeSame DEF OthersStay

LEMMA PipeIdle ==
  ASSUME PlaceInv, HoldInv, PipeInv, NEW r \in Requests, OthersStay(r), pc[r] \notin Holding,
         \A w \in Workers : PipesStay(w)
  PROVE  PipeInv'
<1> SUFFICES ASSUME NEW w \in Workers PROVE PipeOf(w)'
  BY DEF PipeInv
<1>1. cmd[w] \in Requests \cup {NoOne} /\ cmd[w] # r
  BY NoOneAssumption DEF HoldInv, PlaceInv, TypeOK
<1> QED BY <1>1, PipeSame DEF OthersStay

LEMMA IdlePipe ==
  ASSUME PlaceInv, HoldInv, PipeInv, NEW r \in Requests, OthersStay(r),
         \/ Post(r) \/ Sweep(r) \/ KeepCandidate(r) \/ Forget(r) \/ EndSweep(r)
         \/ GetExisting(r) \/ RefuseCapacity(r) \/ (Spawn(r) /\ Goto(r, "escaped"))
         \/ (Enter(r) /\ ~IsAlive(wk[r])) \/ Drop(r) \/ Respond(r)
  PROVE  PipeInv'
<1>1. pc[r] \notin Holding
  BY DEF Post, Claim, Prove, Sweep, KeepCandidate, Forget, EndSweep, GetExisting, RefuseCapacity,
     Spawn, Enter, Drop, Respond, Holding, Shutting
<1>2. UNCHANGED <<life, cur, stdin, stdout, handle, cmd>>
  <2>1. CASE Spawn(r) /\ Goto(r, "escaped")
    <3>1. ~Goto(r, "hello")
      BY <2>1 DEF Goto, PlaceInv, TypeOK
    <3> QED BY <2>1, <3>1 DEF Spawn
  <2> QED BY <2>1 DEF Post, Claim, Prove, Sweep, KeepCandidate, Forget, EndSweep, GetExisting,
          RefuseCapacity, Enter, Drop, Respond, workerVars, shared
<1> QED BY <1>1, <1>2, PipeIdle DEF PipesStay

LEMMA AppendToEmpty ==
  ASSUME NEW S, NEW s \in Seq(S), NEW e \in S, s = <<>>
  PROVE  Len(Append(s, e)) = 1 /\ Head(Append(s, e)) = e /\ Append(s, e) # <<>>
  OBVIOUS

LEMMA TailOfOne ==
  ASSUME NEW S, NEW s \in Seq(S), Len(s) = 1
  PROVE  Tail(s) = <<>> /\ s # <<>>
<1>1. s # <<>>
  OBVIOUS
<1>2. Tail(s) \in Seq(S) /\ Len(Tail(s)) = 0
  BY <1>1, HeadTailProperties
<1> QED BY <1>1, <1>2, EmptySeq

LEMMA TakenPipe ==
  ASSUME PlaceInv, HoldInv, BornInv, PipeInv, NEW r \in Requests, OthersStay(r),
         CloseCandidate(r) \/ (Spawn(r) /\ ~Goto(r, "escaped")) \/ (Enter(r) /\ IsAlive(wk[r])) \/ Close(r)
  PROVE  PipeInv'
<1>0. PICK v \in Workers : v = wk'[r]
  BY TakesLock DEF Takes
<1>1. /\ Takes(r) /\ v \in Workers /\ pc[r] \notin Holding /\ cmd[v] = NoOne
      /\ cmd' = [cmd EXCEPT ![v] = r]
  BY <1>0, TakesLock DEF Takes, Lock
<1>2. cmd \in [Workers -> Requests \cup {NoOne}] /\ cmd'[v] = r /\ r # NoOne
  BY <1>1, NoOneAssumption DEF PlaceInv, TypeOK
<1>3. CASE CloseCandidate(r) \/ Close(r)
  <2>1. pc'[r] = "stop" /\ UNCHANGED <<life, cur, stdin, stdout, handle>>
    BY <1>3 DEF CloseCandidate, Close, Goto, workerVars, PlaceInv, TypeOK
  <2>2. PipeOf(v)'
    BY <1>1, <1>2, <2>1 DEF PipeInv, PipeOf
  <2>3. \A w \in Workers \ {v} : PipesStay(w)
    BY <1>1, <2>1 DEF PipesStay, PlaceInv, TypeOK
  <2> QED BY <1>1, <2>2, <2>3, PipeKept
<1>4. CASE Enter(r) /\ IsAlive(wk[r])
  <2>1. /\ pc'[r] = "send" /\ UNCHANGED <<life, cur, stdin, stdout, handle>>
        /\ handle[v]
    BY <1>0, <1>4 DEF Enter, IsAlive, Goto, workerVars, PlaceInv, TypeOK
  <2>2. PipeOf(v)'
    BY <1>1, <1>2, <2>1 DEF PipeInv, PipeOf, Quiet
  <2>3. \A w \in Workers \ {v} : PipesStay(w)
    BY <1>1, <2>1 DEF PipesStay, PlaceInv, TypeOK
  <2> QED BY <1>1, <2>2, <2>3, PipeKept
<1>5. CASE Spawn(r) /\ ~Goto(r, "escaped")
  <2>1. PICK w \in Workers : /\ life[w] = "unborn" /\ Become(w, "booting")
                             /\ handle' = [handle EXCEPT ![w] = TRUE]
                             /\ wk' = [wk EXCEPT ![r] = w] /\ Goto(r, "hello")
    BY <1>5 DEF Spawn
  <2>2. v = w /\ pc'[r] = "hello" /\ life'[w] = "booting"
    BY <1>0, <2>1 DEF Goto, Become, PlaceInv, TypeOK, WorkerTypeOK
  <2>3. UNCHANGED <<cur, stdin, stdout>>
    BY <1>5 DEF Spawn
  <2>4. stdin[w] = <<>> /\ stdout[w] = <<>>
    BY <2>1 DEF PipeInv, PipeOf
  <2>5. PipeOf(v)'
    BY <1>1, <1>2, <2>2, <2>3, <2>4 DEF PipeOf, Greeting
  <2>6. \A x \in Workers \ {v} : PipesStay(x)
    BY <1>1, <2>1, <2>2, <2>3 DEF PipesStay, Become, PlaceInv, TypeOK, WorkerTypeOK
  <2> QED BY <1>1, <2>5, <2>6, PipeKept
<1> QED BY <1>3, <1>4, <1>5

(* The worker of a thread that has one. *)
LEMMA HasWorker ==
  ASSUME PlaceInv, HoldInv, BornInv, NEW r \in Requests, pc[r] \in Holding
  PROVE  /\ wk[r] \in Workers /\ wk[r] # NoWorker /\ cmd[wk[r]] = r /\ r # NoOne
         /\ life[wk[r]] # "unborn"
         /\ cmd \in [Workers -> Requests \cup {NoOne}]
         /\ stdin \in [Workers -> Seq(Commands)] /\ stdout \in [Workers -> Seq(Lines)]
         /\ life \in [Workers -> Lives] /\ handle \in [Workers -> BOOLEAN]
<1>1. wk[r] \in Workers /\ wk[r] # NoWorker
  BY NoWorkerAssumption DEF PlaceInv, PlaceOf, Handling, Holding
<1> QED BY <1>1, NoOneAssumption DEF PlaceInv, TypeOK, WorkerTypeOK, HoldInv, BornInv

LEMMA ShutPipe ==
  ASSUME PlaceInv, HoldInv, BornInv, PipeInv, NEW r \in Requests, OthersStay(r),
         \/ HelloFails(r) \/ NoAnswer(r) \/ (Send(r) /\ life[wk[r]] = "ended")
         \/ (Stop(r) /\ IsAlive(wk[r])) \/ Acknowledge(r) \/ NoAcknowledgement(r)
  PROVE  PipeInv'
<1>1. pc[r] \in Holding
  BY DEF HelloFails, NoAnswer, Send, Stop, Acknowledge, NoAcknowledgement, Holding, Shutting
<1>2. /\ wk[r] \in Workers /\ cmd[wk[r]] = r /\ r # NoOne /\ life[wk[r]] # "unborn"
      /\ stdin \in [Workers -> Seq(Commands)] /\ stdout \in [Workers -> Seq(Lines)]
  BY <1>1, HasWorker
<1>3. /\ pc'[r] \in Shutting
      /\ UNCHANGED <<life, cur, handle, cmd>>
      /\ UNCHANGED stdin \/ \E c \in Commands : Write(wk[r], c)
      /\ UNCHANGED stdout \/ TakeLine(wk[r])
  <2>1. pc \in [Requests -> PCs] /\ [kind |-> "shutdown", req |-> NoOne] \in Commands
    BY DEF PlaceInv, TypeOK, Commands
  <2>2. CASE HelloFails(r) \/ NoAnswer(r) \/ (Send(r) /\ life[wk[r]] = "ended")
    BY <2>1, <2>2 DEF HelloFails, NoAnswer, Send, Goto, Shutting, shared, workerVars
  <2>3. CASE (Stop(r) /\ IsAlive(wk[r])) \/ Acknowledge(r) \/ NoAcknowledgement(r)
    BY <2>1, <2>3 DEF Stop, Acknowledge, NoAcknowledgement, Goto, Shutting, shared, workerVars
  <2> QED BY <2>2, <2>3
<1>4. PICK v \in Workers : v = wk[r]
  BY <1>2
<1>5. PipeOf(v)'
  BY <1>2, <1>3, <1>4 DEF PipeOf, Shutting
<1>6. \A w \in Workers \ {v} : PipesStay(w)
  BY <1>2, <1>3, <1>4 DEF PipesStay, Write, TakeLine
<1> QED BY <1>4, <1>5, <1>6, PipeKept

LEMMA HelloPipe ==
  ASSUME PlaceInv, HoldInv, BornInv, PipeInv, NEW r \in Requests, OthersStay(r), HelloAccepted(r)
  PROVE  PipeInv'
<1>1. PICK v \in Workers : v = wk[r]
  BY HasWorker DEF HelloAccepted, Holding
<1>2. /\ cmd[v] = r /\ r # NoOne /\ life[v] # "unborn" /\ pc[r] = "hello"
      /\ cmd \in [Workers -> Requests \cup {NoOne}] /\ stdout \in [Workers -> Seq(Lines)]
  BY <1>1, HasWorker DEF HelloAccepted, Holding
<1>3. /\ UNCHANGED <<life, cur, handle, stdin>> /\ TakeLine(v) /\ Unlock(v) /\ stdout[v] # <<>>
  BY <1>1 DEF HelloAccepted, HasLine
<1>4. Greeting(v)
  BY <1>2 DEF PipeInv, PipeOf
<1>5. Tail(stdout[v]) = <<>>
  BY <1>2, <1>3, <1>4, TailOfOne DEF Greeting
<1>6. Quiet(v)'
  BY <1>2, <1>3, <1>4, <1>5 DEF Greeting, Quiet, TakeLine, Rested
<1>7. PipeOf(v)'
  BY <1>2, <1>3, <1>6 DEF PipeOf, Unlock
<1>8. \A w \in Workers \ {v} : PipesStay(w)
  BY <1>2, <1>3 DEF PipesStay, TakeLine, Unlock
<1> QED BY <1>1, <1>7, <1>8, PipeKept

LEMMA SendPipe ==
  ASSUME PlaceInv, HoldInv, BornInv, PipeInv, NEW r \in Requests, OthersStay(r),
         Send(r), life[wk[r]] # "ended"
  PROVE  /\ PipeInv'
         /\ Head(stdin'[wk[r]]) = [kind |-> "turn", req |-> r] /\ Len(stdin'[wk[r]]) = 1
<1> DEFINE line == [kind |-> "turn", req |-> r]
<1>1. PICK v \in Workers : v = wk[r]
  BY HasWorker DEF Send, Holding
<1>2. /\ cmd[v] = r /\ r # NoOne /\ life[v] # "unborn" /\ pc[r] = "send"
      /\ stdin \in [Workers -> Seq(Commands)] /\ stdout \in [Workers -> Seq(Lines)]
  BY <1>1, HasWorker DEF Send, Holding
<1>3. /\ UNCHANGED <<life, cur, handle, cmd, stdout>> /\ Write(v, line) /\ pc'[r] = "await"
  BY <1>1 DEF Send, Goto, shared, PlaceInv, TypeOK
<1>4. Quiet(v)
  BY <1>2 DEF PipeInv, PipeOf
<1>5. line \in Commands
  BY DEF Commands
<1>6. Len(stdin'[v]) = 1 /\ Head(stdin'[v]) = line
  BY <1>2, <1>3, <1>4, <1>5, AppendToEmpty DEF Quiet, Write
<1>7. Asked(v, r)'
  BY <1>3, <1>4, <1>6 DEF Asked, Quiet
<1>8. PipeOf(v)'
  BY <1>2, <1>3, <1>7 DEF PipeOf
<1>9. \A w \in Workers \ {v} : PipesStay(w)
  BY <1>2, <1>3 DEF PipesStay, Write
<1> QED BY <1>1, <1>6, <1>8, <1>9, PipeKept

LEMMA AnswerPipe ==
  ASSUME PlaceInv, HoldInv, BornInv, PipeInv, NEW r \in Requests, OthersStay(r), ReadAnswer(r)
  PROVE  /\ PipeInv'
         /\ Head(stdout[wk[r]]).req = r
         /\ stdin[wk[r]] = <<>> /\ life[wk[r]] \in Rested
         /\ Head(stdout[wk[r]]).kind = "error" => life[wk[r]] # "reading"
<1>1. PICK v \in Workers : v = wk[r]
  BY HasWorker DEF ReadAnswer, Holding
<1>2. /\ cmd[v] = r /\ r # NoOne /\ life[v] # "unborn" /\ pc[r] = "await"
      /\ cmd \in [Workers -> Requests \cup {NoOne}] /\ stdout \in [Workers -> Seq(Lines)]
  BY <1>1, HasWorker DEF ReadAnswer, Holding
<1>3. /\ UNCHANGED <<life, cur, handle, stdin>> /\ TakeLine(v) /\ Unlock(v) /\ stdout[v] # <<>>
  BY <1>1 DEF ReadAnswer, HasLine
<1>4. Asked(v, r)
  BY <1>2 DEF PipeInv, PipeOf
<1>5. /\ stdin[v] = <<>> /\ Len(stdout[v]) = 1 /\ life[v] \in Rested
      /\ Head(stdout[v]).req = r
      /\ Head(stdout[v]).kind = "error" => life[v] # "reading"
  BY <1>3, <1>4 DEF Asked
<1>6. Tail(stdout[v]) = <<>>
  BY <1>2, <1>5, TailOfOne
<1>7. Quiet(v)'
  BY <1>2, <1>3, <1>5, <1>6 DEF Quiet, TakeLine
<1>8. PipeOf(v)'
  BY <1>2, <1>3, <1>7 DEF PipeOf, Unlock
<1>9. \A w \in Workers \ {v} : PipesStay(w)
  BY <1>2, <1>3 DEF PipesStay, TakeLine, Unlock
<1> QED BY <1>1, <1>5, <1>8, <1>9, PipeKept

LEMMA StoppedPipe ==
  ASSUME PlaceInv, HoldInv, BornInv, PipeInv, NEW r \in Requests, OthersStay(r),
         (Stop(r) /\ ~IsAlive(wk[r])) \/ Reap(r) \/ Kill(r)
  PROVE  PipeInv'
<1>1. /\ pc[r] \in Shutting /\ wk[r] \in Workers /\ Stopped(r)
      /\ handle' = [handle EXCEPT ![wk[r]] = FALSE]
      /\ life' = [life EXCEPT ![wk[r]] = "ended"]
      /\ UNCHANGED <<stdin, stdout, wk>>
      /\ \A w \in Workers \ {wk[r]} : cur'[w] = cur[w]
  BY ShutEnds
<1>2. PICK v \in Workers : v = wk[r]
  BY <1>1
<1>3. /\ cmd \in [Workers -> Requests \cup {NoOne}]
      /\ life \in [Workers -> Lives] /\ handle \in [Workers -> BOOLEAN]
  BY DEF PlaceInv, TypeOK, WorkerTypeOK
<1>4. cmd' = [cmd EXCEPT ![v] = NoOne]
  BY <1>1, <1>2 DEF Stopped, Unlock
<1>5. life'[v] = "ended" /\ ~handle'[v] /\ cmd'[v] = NoOne
  BY <1>1, <1>2, <1>3, <1>4
<1>6. PipeOf(v)'
  BY <1>5 DEF PipeOf
<1>7. \A w \in Workers \ {v} : PipesStay(w)
  BY <1>1, <1>2, <1>3, <1>4 DEF PipesStay
<1> QED BY <1>2, <1>6, <1>7, PipeKept

LEMMA QuietStays ==
  ASSUME WorkerTypeOK, NEW w \in Workers, WorkerStep(w), Quiet(w)
  PROVE  Quiet(w)'
<1>1. life[w] \in Rested /\ stdin[w] = <<>> /\ stdout[w] = <<>>
  BY DEF Quiet
<1>2. Exit(w) \/ Die(w)
  BY <1>1 DEF WorkerStep, Boot, BootRefusesVersion, StartTurn, FinishTurn, TurnRaises,
     PreflightTurn, Leaving, ReadShutdown, CloseSession, NextCommand, Rested
<1> QED BY <1>1, <1>2 DEF Exit, Die, Become, WorkerTypeOK, Quiet, Rested

LEMMA GreetingStays ==
  ASSUME WorkerTypeOK, NEW w \in Workers, WorkerStep(w), Greeting(w)
  PROVE  Greeting(w)'
<1>1. life[w] \in {"booting", "reading", "preflight", "ended"} /\ stdin[w] = <<>>
  BY DEF Greeting
<1>2. Boot(w) \/ BootRefusesVersion(w) \/ Die(w)
  BY <1>1 DEF WorkerStep, StartTurn, FinishTurn, TurnRaises,
     PreflightTurn, Leaving, ReadShutdown, CloseSession, Exit, NextCommand
<1>3. CASE Die(w)
  BY <1>1, <1>3 DEF Die, Become, WorkerTypeOK, Greeting
<1>4. CASE Boot(w) \/ BootRefusesVersion(w)
  <2>1. stdout[w] = <<>> /\ stdout[w] \in Seq(Lines)
    BY <1>4 DEF Boot, BootRefusesVersion, Greeting, WorkerTypeOK
  <2>2. /\ life'[w] \in {"reading", "preflight"} /\ UNCHANGED stdin
        /\ \E k \in {"hello", "reject"} : Emit(w, k, NoOne)
    BY <1>4 DEF Boot, BootRefusesVersion, Become, WorkerTypeOK
  <2>3. Len(stdout'[w]) = 1
    <3>1. PICK k \in {"hello", "reject"} : Emit(w, k, NoOne)
      BY <2>2
    <3>2. [kind |-> k, req |-> NoOne] \in Lines
      BY DEF Lines
    <3> QED BY <2>1, <3>1, <3>2, AppendToEmpty DEF Emit, WorkerTypeOK
  <2> QED BY <1>1, <2>2, <2>3 DEF Greeting
<1> QED BY <1>2, <1>3, <1>4

LEMMA AskedStays ==
  ASSUME WorkerTypeOK, NEW w \in Workers, NEW r \in Requests, WorkerStep(w), Asked(w, r)
  PROVE  Asked(w, r)'
<1>1. stdin[w] \in Seq(Commands) /\ stdout[w] \in Seq(Lines)
  BY DEF WorkerTypeOK
<1>2. CASE /\ Len(stdin[w]) = 1 /\ Head(stdin[w]) = [kind |-> "turn", req |-> r]
           /\ stdout[w] = <<>> /\ life[w] \in Rested
  <2>1. Head(stdin[w]).kind = "turn" /\ Head(stdin[w]).req = r
        /\ Tail(stdin[w]) = <<>> /\ stdin[w] # <<>>
    BY <1>1, <1>2, TailOfOne
  <2>2. CASE Exit(w) \/ Die(w)
    BY <1>2, <2>2 DEF Exit, Die, Become, WorkerTypeOK, Asked, Rested
  <2>3. CASE StartTurn(w)
    <3>1. /\ life' = [life EXCEPT ![w] = "turn"] /\ cur' = [cur EXCEPT ![w] = r]
          /\ stdin' = [stdin EXCEPT ![w] = <<>>] /\ UNCHANGED stdout
      BY <2>1, <2>3 DEF StartTurn, Become, ReadLine
    <3>2. stdin'[w] = <<>> /\ stdout'[w] = <<>> /\ life'[w] = "turn" /\ cur'[w] = r
      BY <1>2, <3>1 DEF WorkerTypeOK
    <3> QED BY <3>2 DEF Asked
  <2>4. CASE PreflightTurn(w)
    <3>1. PICK k \in {"turn", "error"} : Emit(w, k, r)
      BY <2>1, <2>4 DEF PreflightTurn
    <3>2. [kind |-> k, req |-> r] \in Lines
      BY DEF Lines
    <3>3. Len(stdout'[w]) = 1 /\ Head(stdout'[w]) = [kind |-> k, req |-> r]
      BY <1>1, <1>2, <3>1, <3>2, AppendToEmpty DEF Emit, WorkerTypeOK
    <3>4. stdin'[w] = <<>> /\ life'[w] = "preflight"
      BY <2>1, <2>4 DEF PreflightTurn, ReadLine, WorkerTypeOK
    <3> QED BY <3>3, <3>4 DEF Asked, Rested
  <2>5. ~ReadShutdown(w)
    BY <2>1 DEF ReadShutdown, NextCommand
  <2>6. Exit(w) \/ Die(w) \/ StartTurn(w) \/ PreflightTurn(w)
    BY <1>2, <2>5 DEF WorkerStep, Boot, BootRefusesVersion, FinishTurn, TurnRaises, Leaving,
       CloseSession, Rested
  <2> QED BY <2>2, <2>3, <2>4, <2>6
<1>3. CASE stdin[w] = <<>> /\ stdout[w] = <<>> /\ life[w] = "turn" /\ cur[w] = r
  <2>1. CASE Die(w)
    BY <1>3, <2>1 DEF Die, Become, WorkerTypeOK, Asked
  <2>2. CASE FinishTurn(w) \/ TurnRaises(w)
    <3>1. PICK k \in {"turn", "error"} :
            /\ Emit(w, k, r) /\ UNCHANGED stdin
            /\ life'[w] = IF k = "turn" THEN "reading" ELSE "leaving"
      BY <1>3, <2>2 DEF FinishTurn, TurnRaises, Become, WorkerTypeOK
    <3>2. [kind |-> k, req |-> r] \in Lines
      BY DEF Lines
    <3>3. Len(stdout'[w]) = 1 /\ Head(stdout'[w]) = [kind |-> k, req |-> r]
      BY <1>1, <1>3, <3>1, <3>2, AppendToEmpty DEF Emit, WorkerTypeOK
    <3> QED BY <1>3, <3>1, <3>3 DEF Asked, Rested
  <2> QED BY <1>3, <2>1, <2>2 DEF WorkerStep, Boot, BootRefusesVersion, StartTurn, PreflightTurn,
          Leaving, ReadShutdown, CloseSession, Exit
<1>4. CASE /\ stdin[w] = <<>> /\ Len(stdout[w]) = 1 /\ life[w] \in Rested
           /\ Head(stdout[w]).req = r
           /\ Head(stdout[w]).kind = "error" => life[w] # "reading"
  <2>1. Exit(w) \/ Die(w)
    BY <1>4 DEF WorkerStep, Boot, BootRefusesVersion, StartTurn, FinishTurn, TurnRaises,
       PreflightTurn, Leaving, ReadShutdown, CloseSession, NextCommand, Rested
  <2> QED BY <1>4, <2>1 DEF Exit, Die, Become, WorkerTypeOK, Asked, Rested
<1>5. CASE life[w] = "ended"
  BY <1>5 DEF WorkerStep, Boot, BootRefusesVersion, StartTurn, FinishTurn, TurnRaises,
     PreflightTurn, Leaving, ReadShutdown, CloseSession, Exit, Die, Running
<1> QED BY <1>2, <1>3, <1>4, <1>5 DEF Asked

LEMMA ProcessPipe ==
  ASSUME PlaceInv, HoldInv, PipeInv, NEW w \in Workers, ProcessStep(w)
  PROVE  PipeInv'
<1>1. WorkerTypeOK /\ WorkerStep(w) /\ cmd[w] \in Requests \cup {NoOne}
  BY DEF PlaceInv, TypeOK, ProcessStep
<1>2. /\ life'[w] # "unborn"
      /\ \A v \in Workers \ {w} : /\ life'[v] = life[v] /\ cur'[v] = cur[v]
                                  /\ stdin'[v] = stdin[v] /\ stdout'[v] = stdout[v]
      /\ UNCHANGED <<handle, cmd, pc>>
  BY ProcessLives DEF shared
<1>3. \A v \in Workers \ {w} : PipeOf(v)'
  BY <1>2, PipeSame DEF PipesStay
<1>4. PipeOf(w)'
  BY <1>1, <1>2, QuietStays, GreetingStays, AskedStays DEF PipeInv, PipeOf
<1> QED BY <1>3, <1>4 DEF PipeInv

LEMMA NextPipe == ASSUME PlaceInv, HoldInv, BornInv, PipeInv, [Next]_vars PROVE PipeInv'
<1>1. ASSUME NEW r \in Requests, Post(r) \/ Serve(r)
      PROVE  PipeInv'
  <2>1. OthersStay(r)
    BY <1>1, KeepsLock, TakesLock, GivesLock, EscapesLock DEF Serve
  <2>2. CASE Send(r)
    BY <2>1, <2>2, SendPipe, ShutPipe
  <2> QED BY <1>1, <2>1, <2>2, IdlePipe, TakenPipe, ShutPipe, HelloPipe, AnswerPipe, StoppedPipe DEF Serve
<1>2. CASE UNCHANGED vars
  BY <1>2, PipeSame DEF PipeInv, PipesStay, vars, workerVars, shared
<1> QED BY <1>1, <1>2, ProcessPipe DEF Next

LEMMA NextAnswer == ASSUME PlaceInv, HoldInv, BornInv, PipeInv, AnswerInv, [Next]_vars PROVE AnswerInv'
<1>1. ASSUME NEW r \in Requests, Post(r) \/ Serve(r)
      PROVE  AnswerInv'
  <2>1. CASE ReadAnswer(r)
    <3>1. OthersStay(r)
      BY <2>1, GivesLock
    <3>2. Head(stdout[wk[r]]).req = r
      BY <2>1, <3>1, AnswerPipe
    <3>3. got' = [got EXCEPT ![r] = Head(stdout[wk[r]])]
          /\ \A q \in Requests \ {r} : verdict'[q] = verdict[q]
      BY <2>1 DEF ReadAnswer, Decide, PlaceInv, TypeOK
    <3> QED BY <3>2, <3>3 DEF AnswerInv, PlaceInv, TypeOK
  <2>2. CASE ~ReadAnswer(r)
    <3>1. UNCHANGED got
      BY <1>1, <2>2 DEF Post, Claim, Prove, Serve, Sweep, KeepCandidate, CloseCandidate, Forget, EndSweep,
         GetExisting, RefuseCapacity, Spawn, HelloAccepted, HelloFails, Enter, Send, NoAnswer,
         Stop, Stopped, Acknowledge, NoAcknowledgement, Reap, Kill, Drop, Close, Respond, thread
    <3>2. UNCHANGED verdict \/ \E v \in Verdicts \ {"ok", "error"} : Decide(r, v)
      <4>1. CASE Enter(r)
        BY <4>1 DEF Enter, Decide, PlaceInv, TypeOK, Verdicts, Refusals
      <4>2. CASE Post(r)
        BY <4>2 DEF Post, Claim, Prove, Decide, Verdicts, Refusals
      <4> QED BY <1>1, <2>2, <4>1, <4>2 DEF Serve, Sweep, KeepCandidate, CloseCandidate, Forget,
              EndSweep, GetExisting, RefuseCapacity, Spawn, HelloAccepted, HelloFails, Send,
              NoAnswer, Stop, Stopped, Acknowledge, NoAcknowledgement, Reap, Kill, Drop, Close,
              Respond, thread, Verdicts, Refusals
    <3> QED BY <3>1, <3>2 DEF AnswerInv, Decide, PlaceInv, TypeOK
  <2> QED BY <2>1, <2>2
<1>2. CASE UNCHANGED <<got, verdict>>
  BY <1>2 DEF AnswerInv
<1> QED BY <1>1, <1>2 DEF Next, ProcessStep, vars, thread

LEMMA InitWorkers == Init => WorkerInv
<1> SUFFICES ASSUME Init PROVE WorkerInv
  OBVIOUS
<1>1. HoldInv /\ AnswerInv
  BY DEF Init, HoldInv, AnswerInv, Holding, Shutting
<1>2. BornInv
  BY DEF Init, WorkerInit, BornInv
<1>3. PipeInv
  BY DEF Init, WorkerInit, PipeInv, PipeOf
<1> QED BY <1>1, <1>2, <1>3 DEF WorkerInv

(* A worker is in one hand at a time, and its pipes hold what that thread  *)
(* is at.                                                                  *)
THEOREM SpecWorkerInv == Spec => [](PlaceInv /\ WorkerInv)
<1>1. Init => PlaceInv /\ WorkerInv
  BY InitPlace, InitWorkers
<1>2. PlaceInv /\ WorkerInv /\ [Next]_vars => (PlaceInv /\ WorkerInv)'
  BY NextPlace, NextHold, NextBorn, NextPipe, NextAnswer DEF WorkerInv
<1> QED BY <1>1, <1>2, PTL DEF Spec

(* SessionWorker._request reads "the next line": it is never the late line *)
(* of an earlier request, an acknowledgement or a greeting.                *)
THEOREM SpecAnsweredByOwnTurn == Spec => []AnsweredByOwnTurn
<1>1. WorkerInv => AnsweredByOwnTurn
  BY DEF WorkerInv, AnswerInv, AnsweredByOwnTurn
<1> QED BY <1>1, SpecWorkerInv, PTL

-----------------------------------------------------------------------------
(* Which worker may run turns of which session.                            *)
LEMMA ReadOn ==
  ASSUME NEW s \in Seq(Commands), s # <<>>, \A i \in 2..Len(s) : s[i].kind = "shutdown"
  PROVE  /\ \A i \in 2..Len(Tail(s)) : Tail(s)[i].kind = "shutdown"
         /\ \A r : ~(Tail(s) # <<>> /\ Head(Tail(s)) = [kind |-> "turn", req |-> r])
<1>1. /\ Tail(s) \in Seq(Commands) /\ Len(Tail(s)) = Len(s) - 1 /\ Len(s) \in Nat
      /\ \A i \in 1..Len(Tail(s)) : Tail(s)[i] = s[i + 1]
  BY HeadTailProperties
<1>2. \A i \in 1..Len(Tail(s)) : Tail(s)[i].kind = "shutdown"
  BY <1>1
<1>3. ASSUME Tail(s) # <<>>
      PROVE  Head(Tail(s)).kind = "shutdown"
  <2>1. Len(Tail(s)) # 0 /\ Head(Tail(s)) = Tail(s)[1]
    BY <1>1, <1>3
  <2> QED BY <1>1, <1>2, <2>1
<1> QED BY <1>2, <1>3

LEMMA WriteOn ==
  ASSUME NEW s \in Seq(Commands), NEW c \in Commands, s = <<>> \/ c.kind = "shutdown",
         \A i \in 2..Len(s) : s[i].kind = "shutdown"
  PROVE  /\ \A i \in 2..Len(Append(s, c)) : Append(s, c)[i].kind = "shutdown"
         /\ Append(s, c) # <<>>
         /\ Head(Append(s, c)) = IF s = <<>> THEN c ELSE Head(s)
<1>1. /\ Append(s, c) \in Seq(Commands) /\ Len(Append(s, c)) = Len(s) + 1 /\ Len(s) \in Nat
      /\ \A i \in 1..Len(s) : Append(s, c)[i] = s[i]
      /\ Append(s, c)[Len(s) + 1] = c
  OBVIOUS
<1>2. Head(Append(s, c)) = IF s = <<>> THEN c ELSE Head(s)
  BY HeadTailAppend
<1>3. s = <<>> => Len(s) = 0
  OBVIOUS
<1>4. ASSUME NEW i \in 2..Len(Append(s, c))
      PROVE  Append(s, c)[i].kind = "shutdown"
  <2>1. CASE i = Len(s) + 1
    BY <1>1, <1>3, <2>1
  <2>2. CASE i # Len(s) + 1
    BY <1>1, <2>2
  <2> QED BY <2>1, <2>2
<1>5. Append(s, c) # <<>>
  <2>1. Len(Append(s, c)) # 0
    BY <1>1
  <2> QED BY <2>1, EmptySeq
<1> QED BY <1>2, <1>4, <1>5

(* What a process that may run turns, or may not any more, goes on to.     *)
LifeGoesOn ==
  \A w \in Workers : /\ life[w] \in Doomed => life'[w] \in Doomed
                     /\ life[w] \in Turning => life'[w] \in Turning \cup Doomed

(* What a step takes out of the registry runs no turn any more. *)
RegGoesOn ==
  \A s \in Sessions : reg[s] # NoWorker /\ life'[reg[s]] \notin Doomed => reg'[s] = reg[s]

LEMMA MayTurnStays ==
  ASSUME LifeGoesOn, RegGoesOn, NEW w \in Workers, NEW r \in Requests, MayTurn(w, r)
  PROVE  MayTurn(w, r)'
<1>1. SessionOf[r] \in Sessions /\ w # NoWorker
  BY SessionOfAssumption, NoWorkerAssumption
<1> QED BY <1>1 DEF MayTurn, LifeGoesOn, RegGoesOn

LEMMA RegKept ==
  ASSUME PlaceInv, WorkerInv, RegInv, NEW r \in Requests, OthersStay(r), LifeGoesOn, RegGoesOn,
         UNCHANGED reg \/ regLock \in {NoOne, r},
         \A s \in Sessions : reg'[s] # reg[s] /\ reg'[s] # NoWorker
                             => life'[reg'[s]] \in Turning \cup Doomed,
         pc'[r] = "hello" => reg'[SessionOf[r]] = NoWorker,
         pc'[r] \in {"drop", "close"} \/ task'[r] = "drop" => life'[wk'[r]] \in Doomed,
         pc'[r] \in {"enter", "send"} => MayTurn(wk[r], r)',
         \A w \in Workers : life'[w] = "turn" => life[w] = "turn" /\ cur'[w] = cur[w],
         \A w \in Workers, q \in Requests : NextTurn(w, q)' => NextTurn(w, q) \/ MayTurn(w, q)',
         \A w \in Workers : \A i \in 2..Len(stdin'[w]) : stdin'[w][i].kind = "shutdown"
  PROVE  RegInv'
<1>1. /\ \A q \in Requests : pc[q] \in Handling => wk[q] \in Workers
      /\ \A q \in Requests : task[q] = "drop" => pc[q] \in Shutting
      /\ \A s \in Sessions : reg[s] \in Workers \cup {NoWorker}
      /\ \A q \in Requests : SessionOf[q] \in Sessions
  BY SessionOfAssumption DEF PlaceInv, PlaceOf, TypeOK
<1>2. ASSUME NEW s \in Sessions, reg'[s] # NoWorker
      PROVE  life'[reg'[s]] \in Turning \cup Doomed
  BY <1>1, <1>2 DEF RegInv, LifeGoesOn
<1>3. ASSUME NEW q \in Requests, pc'[q] = "hello"
      PROVE  reg'[SessionOf[q]] = NoWorker
  <2>1. CASE q = r
    BY <1>3, <2>1
  <2>2. CASE q # r
    <3>1. pc[q] = "hello" /\ regLock = q
      BY <1>3, <2>2 DEF OthersStay, WorkerInv, HoldInv
    <3>2. UNCHANGED reg
      BY <2>2, <3>1, NoOneAssumption
    <3> QED BY <3>1, <3>2 DEF RegInv
  <2> QED BY <2>1, <2>2
<1>4. ASSUME NEW q \in Requests, pc'[q] \in {"drop", "close"} \/ task'[q] = "drop"
      PROVE  life'[wk'[q]] \in Doomed
  <2>1. CASE q = r
    BY <1>4, <2>1
  <2>2. CASE q # r
    BY <1>1, <1>4, <2>2 DEF OthersStay, RegInv, LifeGoesOn, Handling
  <2> QED BY <2>1, <2>2
<1>5. ASSUME NEW q \in Requests, pc'[q] \in {"enter", "send"}
      PROVE  MayTurn(wk[q], q)'
  <2>1. CASE q = r
    BY <1>5, <2>1
  <2>2. CASE q # r
    <3>1. wk'[q] = wk[q] /\ wk[q] \in Workers /\ MayTurn(wk[q], q)
      BY <1>1, <1>5, <2>2 DEF OthersStay, RegInv, Handling
    <3>2. PICK w \in Workers : w = wk[q]
      BY <3>1
    <3>3. MayTurn(w, q)'
      BY <3>1, <3>2, MayTurnStays
    <3> QED BY <3>1, <3>2, <3>3 DEF MayTurn
  <2> QED BY <2>1, <2>2
<1>6. ASSUME NEW w \in Workers, NEW q \in Requests, NextTurn(w, q)'
      PROVE  MayTurn(w, q)'
  BY <1>6, MayTurnStays DEF RegInv
<1>7. ASSUME NEW w \in Workers, life'[w] = "turn"
      PROVE  reg'[SessionOf[cur'[w]]] = w
  <2>1. life[w] = "turn" /\ cur'[w] = cur[w] /\ cur[w] \in Requests /\ w # NoWorker
    BY <1>7, NoWorkerAssumption DEF PlaceInv, TypeOK, WorkerTypeOK
  <2>2. reg[SessionOf[cur[w]]] = w /\ SessionOf[cur[w]] \in Sessions
    BY <1>1, <2>1 DEF RegInv
  <2> QED BY <1>7, <2>1, <2>2 DEF RegGoesOn, Doomed
<1> QED BY <1>2, <1>3, <1>4, <1>5, <1>6, <1>7 DEF RegInv

(* The lines of a standard input: kept, or one more. *)
LinesGoOn ==
  /\ \A w \in Workers, q \in Requests : NextTurn(w, q)' => NextTurn(w, q) \/ MayTurn(w, q)'
  /\ \A w \in Workers : \A i \in 2..Len(stdin'[w]) : stdin'[w][i].kind = "shutdown"

LEMMA StdinStays == ASSUME RegInv, UNCHANGED stdin PROVE LinesGoOn
  BY DEF RegInv, LinesGoOn, NextTurn

LEMMA LineWritten ==
  ASSUME PlaceInv, RegInv, NEW w \in Workers, NEW c \in Commands, Write(w, c),
         stdin[w] = <<>> \/ c.kind = "shutdown",
         \A q \in Requests : c = [kind |-> "turn", req |-> q] => MayTurn(w, q)'
  PROVE  LinesGoOn
<1>1. stdin \in [Workers -> Seq(Commands)]
  BY DEF PlaceInv, TypeOK, WorkerTypeOK
<1>2. /\ \A i \in 2..Len(stdin'[w]) : stdin'[w][i].kind = "shutdown"
      /\ Head(stdin'[w]) = IF stdin[w] = <<>> THEN c ELSE Head(stdin[w])
      /\ \A v \in Workers \ {w} : stdin'[v] = stdin[v]
  <2>1. stdin[w] \in Seq(Commands) /\ stdin'[w] = Append(stdin[w], c)
    BY <1>1 DEF Write
  <2>2. \A i \in 2..Len(stdin[w]) : stdin[w][i].kind = "shutdown"
    BY DEF RegInv
  <2>3. \A v \in Workers \ {w} : stdin'[v] = stdin[v]
    BY <1>1 DEF Write
  <2> QED BY <2>1, <2>2, <2>3, WriteOn
<1>3. ASSUME NEW v \in Workers, NEW q \in Requests, NextTurn(v, q)'
      PROVE  NextTurn(v, q) \/ MayTurn(v, q)'
  <2>1. CASE v = w
    BY <1>2, <1>3, <2>1 DEF NextTurn
  <2>2. CASE v # w
    BY <1>2, <1>3, <2>2 DEF NextTurn
  <2> QED BY <2>1, <2>2
<1>4. \A v \in Workers : \A i \in 2..Len(stdin'[v]) : stdin'[v][i].kind = "shutdown"
  BY <1>2 DEF RegInv
<1> QED BY <1>3, <1>4 DEF LinesGoOn

LEMMA PlainReg ==
  ASSUME PlaceInv, WorkerInv, RegInv, NEW r \in Requests, OthersStay(r), LinesGoOn,
         UNCHANGED <<life, cur, reg>>,
         pc'[r] # "hello",
         pc'[r] \in {"drop", "close"} \/ task'[r] = "drop" => life[wk'[r]] \in Doomed,
         pc'[r] \in {"enter", "send"} => MayTurn(wk[r], r)'
  PROVE  RegInv'
<1>1. LifeGoesOn /\ RegGoesOn
  BY DEF LifeGoesOn, RegGoesOn
<1> QED BY <1>1, RegKept DEF LinesGoOn

(* Dead or without a handle: it runs no turn any more. *)
LEMMA NotAlive ==
  ASSUME PlaceInv, WorkerInv, NEW w \in Workers, life[w] # "unborn", ~IsAlive(w)
  PROVE  life[w] = "ended"
  BY DEF IsAlive, WorkerInv, BornInv

LEMMA QuietReg ==
  ASSUME PlaceInv, WorkerInv, RegInv, NEW r \in Requests, OthersStay(r),
         \/ Post(r) \/ Sweep(r) \/ KeepCandidate(r) \/ CloseCandidate(r) \/ EndSweep(r)
         \/ HelloFails(r) \/ Enter(r) \/ NoAnswer(r) \/ Acknowledge(r) \/ NoAcknowledgement(r)
         \/ Close(r) \/ Respond(r)
  PROVE  RegInv'
<1>1. /\ pc \in [Requests -> PCs] /\ task \in [Requests -> Tasks]
      /\ pc[r] \notin Shutting => task[r] = "none"
      /\ pc[r] \in Handling => wk[r] \in Workers
  BY DEF PlaceInv, PlaceOf, TypeOK
<1>2. UNCHANGED <<life, cur, reg, stdin>>
  BY DEF Post, Claim, Prove, Sweep, KeepCandidate, CloseCandidate, EndSweep, HelloFails, Enter,
     NoAnswer, Acknowledge, NoAcknowledgement, Close, Respond, workerVars, shared
<1>3. LinesGoOn
  BY <1>2, StdinStays
<1>4. CASE Post(r) \/ Sweep(r) \/ KeepCandidate(r) \/ CloseCandidate(r) \/ EndSweep(r) \/ Respond(r)
  <2>1. pc'[r] \notin {"hello", "drop", "close", "enter", "send"} /\ task'[r] # "drop"
    BY <1>1, <1>4 DEF Post, Claim, Prove, Sweep, KeepCandidate, CloseCandidate, EndSweep, Respond,
       Goto, Because, thread, Shutting
  <2> QED BY <1>2, <1>3, <2>1, PlainReg
<1>5. CASE HelloFails(r) \/ NoAnswer(r)
  <2>1. pc'[r] \notin {"hello", "drop", "close", "enter", "send"} /\ task'[r] # "drop"
    BY <1>1, <1>5 DEF HelloFails, NoAnswer, Goto, Because
  <2> QED BY <1>2, <1>3, <2>1, PlainReg
<1>6. CASE Acknowledge(r) \/ NoAcknowledgement(r) \/ Close(r)
  <2>1. /\ pc'[r] \notin {"hello", "drop", "close", "enter", "send"} /\ wk'[r] = wk[r]
        /\ task'[r] = task[r] \/ pc[r] = "close"
    BY <1>1, <1>6 DEF Acknowledge, NoAcknowledgement, Close, Goto, thread
  <2>2. task'[r] = "drop" => life[wk'[r]] \in Doomed
    BY <2>1 DEF RegInv
  <2> QED BY <1>2, <1>3, <2>1, <2>2, PlainReg
<1>7. CASE Enter(r)
  <2>1. /\ pc'[r] = (IF IsAlive(wk[r]) THEN "send" ELSE "drop") /\ wk'[r] = wk[r]
        /\ task'[r] = "none" /\ wk[r] \in Workers /\ wk[r] # NoWorker
    BY <1>1, <1>7, NoWorkerAssumption DEF Enter, Goto, Shutting, Handling
  <2>2. MayTurn(wk[r], r)'
    BY <1>2, <1>7, <2>1 DEF Enter, RegInv, MayTurn
  <2>3. ~IsAlive(wk[r]) => life[wk'[r]] = "ended"
    BY <2>1, NotAlive DEF WorkerInv, BornInv
  <2> QED BY <1>2, <1>3, <2>1, <2>2, <2>3, PlainReg DEF Doomed
<1> QED BY <1>4, <1>5, <1>6, <1>7

LEMMA LineReg ==
  ASSUME PlaceInv, WorkerInv, RegInv, NEW r \in Requests, OthersStay(r),
         Send(r) \/ (Stop(r) /\ IsAlive(wk[r]))
  PROVE  RegInv'
<1>1. /\ pc \in [Requests -> PCs] /\ task \in [Requests -> Tasks]
      /\ pc[r] \notin Shutting => task[r] = "none"
      /\ wk[r] \in Workers
      /\ [kind |-> "shutdown", req |-> NoOne] \in Commands /\ [kind |-> "turn", req |-> r] \in Commands
  BY DEF PlaceInv, PlaceOf, TypeOK, Send, Stop, Handling, Shutting, Commands
<1>2. PICK v \in Workers : v = wk[r]
  BY <1>1
<1>3. UNCHANGED <<life, cur, reg>> /\ wk'[r] = wk[r]
  BY DEF Send, Stop, shared
<1>4. LinesGoOn
  <2>1. CASE Send(r) /\ life[v] = "ended"
    BY <1>2, <2>1, StdinStays DEF Send
  <2>2. CASE Send(r) /\ life[v] # "ended"
    <3>1. Quiet(v)
      <4>1. pc[r] = "send" /\ pc[r] \in Holding
        BY <2>2 DEF Send, Holding
      <4> QED BY <1>2, <4>1, HasWorker DEF WorkerInv, PipeInv, PipeOf
    <3>2. MayTurn(v, r)'
      BY <1>2, <1>3, <2>2 DEF Send, RegInv, MayTurn
    <3>3. Write(v, [kind |-> "turn", req |-> r])
      BY <1>2, <2>2 DEF Send
    <3>4. \A q \in Requests : [kind |-> "turn", req |-> r] = [kind |-> "turn", req |-> q] => q = r
      OBVIOUS
    <3> QED BY <1>1, <3>1, <3>2, <3>3, <3>4, LineWritten DEF Quiet
  <2>3. CASE Stop(r) /\ IsAlive(v)
    <3> DEFINE line == [kind |-> "shutdown", req |-> NoOne]
    <3>1. Write(v, line)
      BY <1>2, <2>3 DEF Stop
    <3>2. line.kind = "shutdown" /\ \A q \in Requests : line # [kind |-> "turn", req |-> q]
      OBVIOUS
    <3> HIDE DEF line
    <3> QED BY <1>1, <3>1, <3>2, LineWritten DEF line
  <2> QED BY <1>2, <2>1, <2>2, <2>3
<1>5. /\ pc'[r] \notin {"hello", "drop", "close", "enter", "send"}
      /\ task'[r] = "drop" => task[r] = "drop"
  BY <1>1 DEF Send, Stop, Goto, Because, thread
<1>6. task'[r] = "drop" => life[wk'[r]] \in Doomed
  BY <1>3, <1>5 DEF RegInv
<1> QED BY <1>3, <1>4, <1>5, <1>6, PlainReg

LEMMA AnswerReg ==
  ASSUME PlaceInv, WorkerInv, RegInv, NEW r \in Requests, OthersStay(r), ReadAnswer(r)
  PROVE  RegInv'
<1>1. /\ pc \in [Requests -> PCs] /\ task[r] = "none" /\ pc[r] = "await"
      /\ UNCHANGED <<life, cur, reg, stdin, task, wk>>
  BY DEF ReadAnswer, PlaceInv, PlaceOf, TypeOK, Shutting
<1>2. /\ life[wk[r]] \in Rested
      /\ Head(stdout[wk[r]]).kind = "error" => life[wk[r]] # "reading"
  BY AnswerPipe DEF WorkerInv
<1>3. /\ pc'[r] \in {"drop", "respond"}
      /\ pc'[r] = "drop" => Head(stdout[wk[r]]).kind = "error"
  BY <1>1 DEF ReadAnswer, Goto
<1>4. pc'[r] = "drop" => life[wk'[r]] \in Doomed
  BY <1>1, <1>2, <1>3 DEF Rested, Doomed
<1> QED BY <1>1, <1>3, <1>4, StdinStays, PlainReg

(* A step that takes out of the registry only what runs no turn any more. *)
LEMMA LessReg ==
  ASSUME PlaceInv, WorkerInv, RegInv, NEW r \in Requests, OthersStay(r), RegistryIsFree,
         UNCHANGED <<life, cur, stdin>>, RegGoesOn,
         \A s \in Sessions : reg'[s] \in {reg[s], NoWorker},
         pc'[r] # "hello",
         pc'[r] \in {"drop", "close"} \/ task'[r] = "drop" => life[wk'[r]] \in Doomed,
         pc'[r] \in {"enter", "send"} => MayTurn(wk[r], r)'
  PROVE  RegInv'
<1>1. LifeGoesOn /\ LinesGoOn
  BY StdinStays DEF LifeGoesOn
<1> QED BY <1>1, RegKept DEF LinesGoOn, RegistryIsFree

LEMMA LiveReg ==
  ASSUME PlaceInv, WorkerInv
  PROVE  \A s \in Sessions :
           /\ LiveRegistry[s] \in {reg[s], NoWorker}
           /\ LiveRegistry[s] # NoWorker => IsAlive(LiveRegistry[s])
           /\ reg[s] # NoWorker /\ life[reg[s]] \notin Doomed => LiveRegistry[s] = reg[s]
<1> SUFFICES ASSUME NEW s \in Sessions
             PROVE  /\ LiveRegistry[s] \in {reg[s], NoWorker}
                    /\ LiveRegistry[s] # NoWorker => IsAlive(LiveRegistry[s])
                    /\ reg[s] # NoWorker /\ life[reg[s]] \notin Doomed => LiveRegistry[s] = reg[s]
  OBVIOUS
<1>1. LiveRegistry[s] = IF reg[s] # NoWorker /\ IsAlive(reg[s]) THEN reg[s] ELSE NoWorker
  BY DEF LiveRegistry
<1>2. ASSUME reg[s] # NoWorker, ~IsAlive(reg[s])
      PROVE  life[reg[s]] \in Doomed
  BY <1>2, NotAlive DEF PlaceInv, TypeOK, WorkerInv, BornInv, Doomed
<1> QED BY <1>1, <1>2

LEMMA LookReg ==
  ASSUME PlaceInv, WorkerInv, RegInv, NEW r \in Requests, OthersStay(r),
         GetExisting(r) \/ RefuseCapacity(r) \/ (Spawn(r) /\ Goto(r, "escaped"))
  PROVE  RegInv'
<1>1. /\ pc \in [Requests -> PCs] /\ wk \in [Requests -> Workers \cup {NoWorker}]
      /\ pc[r] = "get" /\ task[r] = "none" /\ UNCHANGED task
      /\ SessionOf[r] \in Sessions
  BY SessionOfAssumption DEF GetExisting, RefuseCapacity, Spawn, PlaceInv, PlaceOf, TypeOK, thread, Shutting
<1>2. UNCHANGED <<life, cur, stdin>> /\ RegistryIsFree /\ reg' = LiveRegistry
  BY <1>1 DEF GetExisting, RefuseCapacity, Spawn, workerVars, Goto
<1>3. RegGoesOn
  BY <1>2, LiveReg DEF RegGoesOn
<1>4. CASE GetExisting(r)
  <2>1. pc'[r] = "enter" /\ wk'[r] = LiveRegistry[SessionOf[r]] /\ wk'[r] # NoWorker
    BY <1>1, <1>4 DEF GetExisting, Goto
  <2>2. life[wk'[r]] \in Turning \cup Doomed
    BY <1>1, <2>1, LiveReg DEF RegInv
  <2>3. MayTurn(wk[r], r)'
    BY <1>2, <2>1, <2>2 DEF MayTurn
  <2> QED BY <1>1, <1>2, <1>3, <2>1, <2>3, LiveReg, LessReg
<1>5. CASE RefuseCapacity(r) \/ (Spawn(r) /\ Goto(r, "escaped"))
  <2>1. pc'[r] \in {"respond", "escaped"}
    BY <1>1, <1>5 DEF RefuseCapacity, Goto
  <2> QED BY <1>1, <1>2, <1>3, <2>1, LiveReg, LessReg
<1> QED BY <1>4, <1>5

LEMMA PopReg ==
  ASSUME PlaceInv, WorkerInv, RegInv, NEW r \in Requests, OthersStay(r), Forget(r) \/ Drop(r)
  PROVE  RegInv'
<1>1. /\ pc \in [Requests -> PCs] /\ task[r] = "none" /\ UNCHANGED task
      /\ UNCHANGED <<life, cur, stdin>> /\ RegistryIsFree /\ Pop(wk[r])
  BY DEF Forget, Drop, PlaceInv, PlaceOf, TypeOK, Shutting, workerVars, thread
<1>2. life[wk[r]] \in Doomed
  BY DEF Forget, Drop, WorkerInv, BornInv, RegInv, Doomed
<1>3. RegGoesOn /\ \A s \in Sessions : reg'[s] \in {reg[s], NoWorker}
  BY <1>1, <1>2 DEF Pop, RegGoesOn
<1>4. /\ pc'[r] \in {"sweeping", "close", "get", "respond"}
      /\ pc'[r] = "close" => wk'[r] = wk[r]
  BY <1>1 DEF Forget, Drop, AfterDrop, Goto
<1> QED BY <1>1, <1>2, <1>3, <1>4, LessReg

LEMMA SpawnReg ==
  ASSUME PlaceInv, WorkerInv, RegInv, NEW r \in Requests, OthersStay(r), Spawn(r), ~Goto(r, "escaped")
  PROVE  RegInv'
<1>1. PICK v \in Workers : /\ life[v] = "unborn" /\ Become(v, "booting")
                           /\ wk' = [wk EXCEPT ![r] = v] /\ Goto(r, "hello")
  BY DEF Spawn
<1>2. /\ pc \in [Requests -> PCs] /\ life \in [Workers -> Lives]
      /\ pc[r] = "get" /\ task[r] = "none" /\ UNCHANGED <<task, cur, stdin>>
      /\ SessionOf[r] \in Sessions
      /\ \A s \in Sessions : reg[s] \in Workers \cup {NoWorker}
  BY SessionOfAssumption DEF Spawn, PlaceInv, PlaceOf, TypeOK, WorkerTypeOK, thread, Shutting
<1>3. RegistryIsFree /\ reg' = LiveRegistry /\ LiveRegistry[SessionOf[r]] = NoWorker
  BY DEF Spawn
<1>4. \A s \in Sessions : reg[s] # v
  BY <1>1, UnbornIsFree DEF WorkerInv
<1>5. /\ life'[v] = "booting"
      /\ \A w \in Workers \ {v} : life'[w] = life[w]
  BY <1>1, <1>2 DEF Become
<1>6. LifeGoesOn
  BY <1>1, <1>5 DEF LifeGoesOn, Doomed, Turning
<1>7. RegGoesOn
  BY <1>2, <1>3, <1>4, <1>5, LiveReg DEF RegGoesOn
<1>8. LinesGoOn
  BY <1>2, StdinStays
<1>9. \A w \in Workers : life'[w] = "turn" => life[w] = "turn" /\ cur'[w] = cur[w]
  BY <1>2, <1>5
<1>10. pc'[r] = "hello" /\ reg'[SessionOf[r]] = NoWorker
  BY <1>1, <1>2, <1>3 DEF Goto
<1>11. \A s \in Sessions : reg'[s] \in {reg[s], NoWorker}
  BY <1>3, LiveReg
<1> QED BY <1>2, <1>3, <1>6, <1>7, <1>8, <1>9, <1>10, <1>11, RegKept DEF LinesGoOn, RegistryIsFree

LEMMA HelloReg ==
  ASSUME PlaceInv, WorkerInv, RegInv, NEW r \in Requests, OthersStay(r), HelloAccepted(r)
  PROVE  RegInv'
<1>1. pc[r] = "hello" /\ pc[r] \in Holding
  BY DEF HelloAccepted, Holding
<1>2. PICK v \in Workers : v = wk[r] /\ cmd[v] = r /\ r # NoOne
  BY <1>1, HasWorker DEF WorkerInv
<1>3. life[v] \in {"reading", "preflight", "ended"}
  <2>1. Greeting(v)
    BY <1>1, <1>2 DEF WorkerInv, PipeInv, PipeOf
  <2> QED BY <1>2, <2>1 DEF HelloAccepted, HasLine, Greeting
<1>4. /\ pc \in [Requests -> PCs] /\ reg \in [Sessions -> Workers \cup {NoWorker}]
      /\ task[r] = "none" /\ UNCHANGED <<task, life, cur, stdin, wk>>
      /\ SessionOf[r] \in Sessions
      /\ reg' = [reg EXCEPT ![SessionOf[r]] = v]
  BY <1>1, <1>2, SessionOfAssumption DEF HelloAccepted, PlaceInv, PlaceOf, TypeOK, thread, Shutting
<1>5. reg[SessionOf[r]] = NoWorker /\ regLock = r
  BY <1>1 DEF RegInv, WorkerInv, HoldInv
<1>6. LifeGoesOn /\ LinesGoOn
  BY <1>4, StdinStays DEF LifeGoesOn
<1>7. RegGoesOn
  BY <1>4, <1>5 DEF RegGoesOn
<1>8. pc'[r] = "enter"
  BY <1>4 DEF HelloAccepted, Goto
<1>9. MayTurn(wk[r], r)'
  BY <1>2, <1>3, <1>4 DEF MayTurn, Turning, Doomed
<1>10. \A s \in Sessions : reg'[s] \in {reg[s], v}
  BY <1>4
<1>11. \A s \in Sessions : reg'[s] # reg[s] => life'[reg'[s]] \in Turning \cup Doomed
  BY <1>3, <1>4, <1>10 DEF Turning, Doomed
<1> QED BY <1>4, <1>5, <1>6, <1>7, <1>8, <1>9, <1>11, RegKept DEF LinesGoOn

LEMMA StoppedReg ==
  ASSUME PlaceInv, WorkerInv, RegInv, NEW r \in Requests, OthersStay(r),
         (Stop(r) /\ ~IsAlive(wk[r])) \/ Reap(r) \/ Kill(r)
  PROVE  RegInv'
<1>1. /\ pc[r] \in Shutting /\ wk[r] \in Workers /\ Stopped(r)
      /\ life' = [life EXCEPT ![wk[r]] = "ended"]
      /\ UNCHANGED <<stdin, reg, wk>>
      /\ \A w \in Workers \ {wk[r]} : cur'[w] = cur[w]
  BY ShutEnds DEF WorkerInv
<1>2. PICK v \in Workers : v = wk[r]
  BY <1>1
<1>3. life'[v] = "ended" /\ \A w \in Workers \ {v} : life'[w] = life[w] /\ cur'[w] = cur[w]
  BY <1>1, <1>2 DEF PlaceInv, TypeOK, WorkerTypeOK
<1>4. LifeGoesOn /\ RegGoesOn /\ LinesGoOn
  BY <1>1, <1>3, StdinStays DEF LifeGoesOn, RegGoesOn, Doomed, Turning
<1>5. /\ pc'[r] \in {"forget", "escaped", "drop", "get", "respond"} /\ task'[r] = "none"
      /\ wk'[r] = v
  BY <1>1, <1>2, StoppedGives DEF WorkerInv
<1>6. \A w \in Workers : life'[w] = "turn" => life[w] = "turn" /\ cur'[w] = cur[w]
  BY <1>3
<1>7. life'[wk'[r]] \in Doomed
  BY <1>3, <1>5 DEF Doomed
<1> QED BY <1>1, <1>4, <1>5, <1>6, <1>7, RegKept DEF LinesGoOn

LEMMA ProcessReg ==
  ASSUME PlaceInv, WorkerInv, RegInv, NEW w \in Workers, ProcessStep(w)
  PROVE  RegInv'
<1>1. WorkerTypeOK /\ WorkerStep(w)
  BY DEF PlaceInv, TypeOK, ProcessStep
<1>2. /\ \A v \in Workers \ {w} : /\ life'[v] = life[v] /\ cur'[v] = cur[v]
                                  /\ stdin'[v] = stdin[v]
      /\ UNCHANGED <<reg, pc, wk, task>>
  BY ProcessLives DEF shared, thread
<1>3. /\ life[w] \in Doomed => life'[w] \in Doomed
      /\ life[w] \in Turning => life'[w] \in Turning \cup Doomed
  BY <1>1 DEF WorkerTypeOK, WorkerStep, Boot, BootRefusesVersion, StartTurn, FinishTurn, TurnRaises,
     PreflightTurn, Leaving, ReadShutdown, CloseSession, Exit, Die, Become, Doomed, Turning
<1>4. LifeGoesOn /\ RegGoesOn
  BY <1>2, <1>3 DEF LifeGoesOn, RegGoesOn
<1>5. UNCHANGED stdin \/ (stdin[w] # <<>> /\ ReadLine(w))
  BY <1>1 DEF WorkerStep, Boot, BootRefusesVersion, StartTurn, FinishTurn, TurnRaises,
     PreflightTurn, Leaving, ReadShutdown, CloseSession, Exit, Die, NextCommand
<1>6. LinesGoOn
  <2>1. CASE UNCHANGED stdin
    BY <2>1, StdinStays
  <2>2. CASE stdin[w] # <<>> /\ ReadLine(w)
    <3>1. stdin'[w] = Tail(stdin[w]) /\ stdin[w] \in Seq(Commands)
      BY <1>1, <2>2 DEF ReadLine, WorkerTypeOK
    <3>2. \A i \in 2..Len(stdin[w]) : stdin[w][i].kind = "shutdown"
      BY DEF RegInv
    <3>3. /\ \A i \in 2..Len(stdin'[w]) : stdin'[w][i].kind = "shutdown"
          /\ \A q : ~(stdin'[w] # <<>> /\ Head(stdin'[w]) = [kind |-> "turn", req |-> q])
      BY <2>2, <3>1, <3>2, ReadOn
    <3>4. \A q \in Requests : NextTurn(w, q)' => FALSE
      BY <3>3 DEF NextTurn
    <3> QED BY <1>2, <3>3, <3>4 DEF LinesGoOn, NextTurn, RegInv
  <2> QED BY <1>5, <2>1, <2>2
<1>7. ASSUME NEW v \in Workers, life'[v] = "turn"
      PROVE  reg[SessionOf[cur'[v]]] = v
  <2>1. CASE v # w \/ ~StartTurn(w)
    <3>1. life[v] = "turn" /\ cur'[v] = cur[v]
      BY <1>1, <1>2, <1>7, <2>1 DEF WorkerTypeOK, WorkerStep, Boot, BootRefusesVersion, FinishTurn,
         TurnRaises, PreflightTurn, Leaving, ReadShutdown, CloseSession, Exit, Die, Become
    <3> QED BY <3>1 DEF RegInv
  <2>2. CASE v = w /\ StartTurn(w)
    <3>1. PICK q \in Requests : q = Head(stdin[w]).req
      BY <1>1, <2>2, ReadType DEF StartTurn, NextCommand
    <3>2. NextTurn(w, q)
      <4>1. Head(stdin[w]) \in Commands /\ Head(stdin[w]).kind = "turn" /\ stdin[w] # <<>>
        BY <1>1, <2>2, ReadType DEF StartTurn, NextCommand
      <4> QED BY <3>1, <4>1 DEF NextTurn, Commands
    <3>3. MayTurn(w, q) /\ life[w] = "reading" /\ cur'[w] = q
      BY <1>1, <2>2, <3>1, <3>2 DEF RegInv, StartTurn, WorkerTypeOK
    <3> QED BY <2>2, <3>3 DEF MayTurn, Doomed
  <2> QED BY <2>1, <2>2
<1>8. /\ \A q \in Requests : pc[q] \in Handling => wk[q] \in Workers
      /\ \A q \in Requests : task[q] = "drop" => pc[q] \in Shutting
      /\ \A s \in Sessions : reg[s] \in Workers \cup {NoWorker}
  BY DEF PlaceInv, PlaceOf, TypeOK
<1>9. ASSUME NEW s \in Sessions, reg'[s] # NoWorker
      PROVE  life'[reg'[s]] \in Turning \cup Doomed
  BY <1>2, <1>4, <1>8, <1>9 DEF RegInv, LifeGoesOn
<1>10. ASSUME NEW q \in Requests
       PROVE  /\ pc'[q] = "hello" => reg'[SessionOf[q]] = NoWorker
              /\ pc'[q] \in {"drop", "close"} \/ task'[q] = "drop" => life'[wk'[q]] \in Doomed
  BY <1>2, <1>4, <1>8 DEF RegInv, LifeGoesOn, Handling
<1>11. ASSUME NEW q \in Requests, pc'[q] \in {"enter", "send"}
       PROVE  MayTurn(wk[q], q)'
  <2>1. PICK v \in Workers : v = wk[q] /\ MayTurn(v, q) /\ wk'[q] = wk[q]
    BY <1>2, <1>8, <1>11 DEF RegInv, Handling
  <2>2. MayTurn(v, q)'
    BY <1>4, <2>1, MayTurnStays
  <2> QED BY <2>1, <2>2 DEF MayTurn
<1>12. ASSUME NEW v \in Workers, NEW q \in Requests, NextTurn(v, q)'
       PROVE  MayTurn(v, q)'
  BY <1>4, <1>6, <1>12, MayTurnStays DEF RegInv, LinesGoOn
<1> QED BY <1>2, <1>6, <1>7, <1>9, <1>10, <1>11, <1>12 DEF RegInv, LinesGoOn

LEMMA NextReg == ASSUME PlaceInv, WorkerInv, RegInv, [Next]_vars PROVE RegInv'
<1>1. ASSUME NEW r \in Requests, Post(r) \/ Serve(r)
      PROVE  RegInv'
  <2>1. OthersStay(r)
    BY <1>1, KeepsLock, TakesLock, GivesLock, EscapesLock DEF Serve, WorkerInv
  <2> QED BY <1>1, <2>1, QuietReg, LineReg, AnswerReg, LookReg, PopReg, SpawnReg, HelloReg,
          StoppedReg DEF Serve
<1>2. CASE UNCHANGED vars
  BY <1>2 DEF RegInv, MayTurn, NextTurn, vars, workerVars, shared, thread
<1> QED BY <1>1, <1>2, ProcessReg DEF Next

LEMMA InitReg == Init => RegInv
  BY SessionOfAssumption DEF Init, WorkerInit, RegInv, NextTurn

LEMMA SpecRegInv == Spec => [](PlaceInv /\ WorkerInv /\ RegInv)
  BY SpecWorkerInv, InitReg, NextReg, PTL DEF Spec

(* SessionRegistry: a worker runs turns of a session only while it is the  *)
(* session's registered one, so that two processes never do; one that      *)
(* leaves the registry, or that a start finds dead, runs none any more.    *)
THEOREM SpecOneRunner == Spec => []OneRunner
<1>1. PlaceInv /\ RegInv => OneRunner
  BY DEF RegInv, OneRunner
<1> QED BY <1>1, SpecRegInv, PTL

-----------------------------------------------------------------------------
(* No process is left behind.                                              *)
Caring == {"hello", "drop", "close"} \cup Shutting

LEMMA OrphanKept ==
  ASSUME PlaceInv, OrphanInv, NEW r \in Requests, OthersStay(r),
         \A w \in Workers : Running(w)' => Running(w) \/ (wk'[r] = w /\ pc'[r] \in Caring),
         \A s \in Sessions : reg[s] # NoWorker =>
           \/ reg'[s] = reg[s]
           \/ life'[reg[s]] = "ended"
           \/ wk'[r] = reg[s] /\ pc'[r] \in Caring,
         pc[r] \in Caring =>
           \/ life'[wk[r]] = "ended"
           \/ wk'[r] = wk[r] /\ pc'[r] \in Caring
           \/ \E s \in Sessions : reg'[s] = wk[r]
  PROVE  OrphanInv'
<1> SUFFICES ASSUME NEW w \in Workers, Running(w)'
             PROVE  \/ \E s \in Sessions : reg'[s] = w
                    \/ \E q \in Requests : wk'[q] = w /\ pc'[q] \in Caring
  BY NoWorkerAssumption DEF OrphanInv, Registered, Caring
<1>1. life'[w] # "ended" /\ w # NoWorker
  BY NoWorkerAssumption DEF Running
<1>2. CASE \E s \in Sessions : reg[s] = w
  BY <1>1, <1>2
<1>3. CASE \E q \in Requests : wk[q] = w /\ pc[q] \in Caring
  BY <1>1, <1>3 DEF OthersStay
<1> QED BY <1>2, <1>3 DEF OrphanInv, Registered, Caring

LEMMA LifeOnly ==
  ASSUME PlaceInv, WorkerInv, NEW r \in Requests, Post(r) \/ Serve(r),
         ~Spawn(r) \/ Goto(r, "escaped")
  PROVE  \A w \in Workers : life'[w] \in {life[w], "ended"}
<1>1. life \in [Workers -> Lives]
  BY DEF PlaceInv, TypeOK, WorkerTypeOK
<1>2. CASE Tame(r)
  BY <1>2, LivesStay DEF WorkerInv
<1>3. CASE (Stop(r) /\ ~IsAlive(wk[r])) \/ Reap(r) \/ Kill(r)
  <2>1. life' = [life EXCEPT ![wk[r]] = "ended"]
    BY <1>3, ShutEnds DEF WorkerInv
  <2> QED BY <1>1, <2>1
<1>4. CASE Spawn(r) /\ Goto(r, "escaped")
  <2>1. ~Goto(r, "hello")
    BY <1>4 DEF Goto, PlaceInv, TypeOK
  <2> QED BY <1>4, <2>1 DEF Spawn
<1> QED BY <1>2, <1>3, <1>4 DEF Tame, Serve

(* The thread that has a worker in hand goes on with it until it has ended *)
(* or is registered.                                                       *)
LEMMA CaresOn ==
  ASSUME PlaceInv, WorkerInv, RegInv, NEW r \in Requests, Post(r) \/ Serve(r), pc[r] \in Caring
  PROVE  \/ life'[wk[r]] = "ended"
         \/ wk'[r] = wk[r] /\ pc'[r] \in Caring
         \/ \E s \in Sessions : reg'[s] = wk[r]
<1>1. /\ pc \in [Requests -> PCs] /\ life \in [Workers -> Lives] /\ wk[r] \in Workers
      /\ wk[r] # NoWorker
  BY NoWorkerAssumption DEF PlaceInv, PlaceOf, TypeOK, WorkerTypeOK, Handling, Caring
<1>2. CASE HelloAccepted(r)
  BY <1>2, SessionOfAssumption DEF HelloAccepted, PlaceInv, TypeOK
<1>3. CASE HelloFails(r) \/ Close(r) \/ Acknowledge(r) \/ NoAcknowledgement(r)
  BY <1>1, <1>3 DEF HelloFails, Close, Acknowledge, NoAcknowledgement, Goto, Caring, Shutting
<1>4. CASE Stop(r) /\ IsAlive(wk[r])
  BY <1>1, <1>4 DEF Stop, Goto, Caring, Shutting
<1>5. CASE (Stop(r) /\ ~IsAlive(wk[r])) \/ Reap(r) \/ Kill(r)
  <2>1. life' = [life EXCEPT ![wk[r]] = "ended"]
    BY <1>5, ShutEnds DEF WorkerInv
  <2> QED BY <1>1, <2>1
<1>6. CASE Drop(r)
  <2>1. ~handle[wk[r]] => life[wk[r]] = "ended"
    BY <1>1, NotAlive DEF IsAlive, WorkerInv, BornInv
  <2>2. UNCHANGED <<life, wk>> /\ (handle[wk[r]] => pc'[r] = "close")
    BY <1>1, <1>6 DEF Drop, Goto, workerVars
  <2> QED BY <2>1, <2>2 DEF Caring
<1>7. CASE pc[r] \notin {"hello", "drop", "close", "stop", "ack", "kill", "reap"}
  BY <1>7 DEF Caring, Shutting
<1> QED BY <1>2, <1>3, <1>4, <1>5, <1>6, <1>7 DEF Post, Claim, Prove, Serve, Sweep, KeepCandidate,
        CloseCandidate, Forget, EndSweep, GetExisting, RefuseCapacity, Spawn, Enter, Send,
        ReadAnswer, NoAnswer, Respond

(* What leaves the registry has ended, or its thread goes on to close it. *)
LEMMA LeavesRegistry ==
  ASSUME PlaceInv, WorkerInv, RegInv, NEW r \in Requests, Post(r) \/ Serve(r),
         NEW s \in Sessions, reg[s] # NoWorker
  PROVE  \/ reg'[s] = reg[s]
         \/ life'[reg[s]] = "ended"
         \/ wk'[r] = reg[s] /\ pc'[r] \in Caring
<1>1. reg[s] \in Workers /\ life[reg[s]] # "unborn" /\ pc \in [Requests -> PCs]
      /\ reg \in [Sessions -> Workers \cup {NoWorker}]
  BY DEF PlaceInv, TypeOK, WorkerInv, BornInv
<1>2. CASE Forget(r) \/ Drop(r)
  <2>1. /\ wk[r] \in Workers /\ UNCHANGED life /\ life[wk[r]] # "unborn"
        /\ reg'[s] = IF reg[s] = wk[r] THEN NoWorker ELSE reg[s]
    BY <1>2, NoWorkerAssumption DEF Forget, Drop, Pop, workerVars, PlaceInv, PlaceOf, TypeOK, Handling,
       WorkerInv, BornInv
  <2>2. CASE Forget(r)
    BY <2>1, <2>2 DEF Forget, WorkerInv, BornInv
  <2>3. CASE Drop(r) /\ handle[wk[r]]
    BY <1>1, <2>1, <2>3 DEF Drop, Goto, Caring
  <2>4. CASE Drop(r) /\ ~handle[wk[r]]
    BY <2>1, <2>4, NotAlive DEF IsAlive
  <2> QED BY <1>2, <2>2, <2>3, <2>4
<1>3. CASE GetExisting(r) \/ RefuseCapacity(r) \/ Spawn(r)
  <2>1. reg' = LiveRegistry
    BY <1>3 DEF GetExisting, RefuseCapacity, Spawn
  <2>2. CASE IsAlive(reg[s])
    BY <2>1, <2>2 DEF LiveRegistry
  <2>3. CASE ~IsAlive(reg[s])
    <3>1. life[reg[s]] = "ended"
      BY <1>1, <2>3, NotAlive
    <3>2. life'[reg[s]] = "ended"
      <4>1. CASE ~Spawn(r) \/ Goto(r, "escaped")
        BY <1>1, <3>1, <4>1, LifeOnly
      <4>2. CASE Spawn(r) /\ ~Goto(r, "escaped")
        BY <1>1, <3>1, <4>2 DEF Spawn, Become, PlaceInv, TypeOK, WorkerTypeOK
      <4> QED BY <4>1, <4>2
    <3> QED BY <3>2
  <2> QED BY <2>2, <2>3
<1>4. CASE HelloAccepted(r)
  BY <1>1, <1>4 DEF HelloAccepted, RegInv
<1>5. CASE Stop(r) \/ Reap(r) \/ Kill(r)
  BY <1>5 DEF Stop, Reap, Kill, Stopped, shared
<1> QED BY <1>2, <1>3, <1>4, <1>5 DEF Post, Claim, Prove, Serve, Sweep, KeepCandidate,
        CloseCandidate, EndSweep, HelloFails, Enter, Send, ReadAnswer, NoAnswer, Acknowledge,
        NoAcknowledgement, Close, Respond, shared

LEMMA NextOrphan == ASSUME PlaceInv, WorkerInv, RegInv, OrphanInv, [Next]_vars PROVE OrphanInv'
<1>1. ASSUME NEW r \in Requests, Post(r) \/ Serve(r)
      PROVE  OrphanInv'
  <2>1. OthersStay(r)
    BY <1>1, KeepsLock, TakesLock, GivesLock, EscapesLock DEF Serve, WorkerInv
  <2>2. \A w \in Workers : Running(w)' => Running(w) \/ (wk'[r] = w /\ pc'[r] \in Caring)
    <3>1. CASE ~Spawn(r) \/ Goto(r, "escaped")
      BY <1>1, <3>1, LifeOnly DEF Running
    <3>2. CASE Spawn(r) /\ ~Goto(r, "escaped")
      BY <3>2 DEF Spawn, Goto, Become, Caring, Running, PlaceInv, TypeOK, WorkerTypeOK
    <3> QED BY <3>1, <3>2
  <2> QED BY <1>1, <2>1, <2>2, CaresOn, LeavesRegistry, OrphanKept
<1>2. ASSUME NEW w \in Workers, ProcessStep(w)
      PROVE  OrphanInv'
  <2>1. /\ life[w] \notin {"unborn", "ended"} /\ \A v \in Workers \ {w} : life'[v] = life[v]
        /\ UNCHANGED <<reg, pc, wk>>
    BY <1>2, ProcessLives DEF shared
  <2> QED BY <2>1 DEF OrphanInv, Running, Registered
<1>3. CASE UNCHANGED vars
  BY <1>3 DEF OrphanInv, Running, Registered, vars, workerVars, shared
<1> QED BY <1>1, <1>2, <1>3 DEF Next

(* _get_or_create, _drop_worker, close: a worker that runs is registered   *)
(* or has a thread that is going to stop it, whichever of the two gives    *)
(* it up, and whatever fails on the way.                                   *)
THEOREM SpecNoOrphanWorker == Spec => []NoOrphanWorker
<1>1. Init => OrphanInv
  BY DEF Init, WorkerInit, OrphanInv, Running
<1>2. PlaceInv /\ OrphanInv => NoOrphanWorker
  BY DEF PlaceInv, OrphanInv, NoOrphanWorker, Shutting
<1> QED BY <1>1, <1>2, SpecRegInv, NextOrphan, PTL DEF Spec

-----------------------------------------------------------------------------
(* What is sent and run.                                                   *)
Settled == {"ok", "error", "unknown"}

LEMMA VerdictMoves ==
  ASSUME PlaceInv, NEW r \in Requests, Post(r) \/ Serve(r)
  PROVE  /\ \A q \in Requests \ {r} : verdict'[q] = verdict[q]
         /\ verdict'[r] = verdict[r] \/ verdict[r] = "none"
         /\ pc[r] = "await" => verdict'[r] \in Settled
         /\ pc[r] = "respond" => verdict'[r] = verdict[r]
         /\ pc[r] = "idle" => verdict'[r] \notin Settled
         /\ pc[r] \notin Over
         /\ pc'[r] = "answered" => pc[r] \in {"idle", "respond"}
         /\ UNCHANGED runs
<1>1. /\ pc \in [Requests -> PCs] /\ verdict \in [Requests -> Verdicts]
      /\ pc[r] \in Before => verdict[r] = "none"
  BY DEF PlaceInv, PlaceOf, TypeOK
<1>2. CASE Post(r)
  BY <1>1, <1>2 DEF Post, Claim, Prove, Decide, Goto, workerVars, Settled, Over, Before
<1>3. CASE Respond(r)
  BY <1>1, <1>3 DEF Respond, Goto, workerVars, Over
<1>4. CASE Sweep(r) \/ KeepCandidate(r) \/ CloseCandidate(r) \/ Forget(r) \/ EndSweep(r)
  BY <1>1, <1>4 DEF Sweep, KeepCandidate, CloseCandidate, Forget, EndSweep, Goto, workerVars, thread, Over
<1>5. CASE GetExisting(r) \/ RefuseCapacity(r) \/ Spawn(r)
  BY <1>1, <1>5 DEF GetExisting, RefuseCapacity, Spawn, Goto, Decide, workerVars, thread, Over, Before
<1>6. CASE HelloAccepted(r) \/ HelloFails(r)
  BY <1>1, <1>6 DEF HelloAccepted, HelloFails, Goto, workerVars, thread, Over
<1>7. CASE Enter(r) \/ Send(r)
  BY <1>1, <1>7 DEF Enter, Send, Goto, Decide, workerVars, Over, Before
<1>8. CASE ReadAnswer(r) \/ NoAnswer(r)
  BY <1>1, <1>8 DEF ReadAnswer, NoAnswer, Goto, Decide, workerVars, Over, Before, Settled
<1>9. CASE Stop(r) \/ Acknowledge(r) \/ NoAcknowledgement(r) \/ Reap(r) \/ Kill(r)
  <2>1. CASE (Stop(r) /\ IsAlive(wk[r])) \/ Acknowledge(r) \/ NoAcknowledgement(r)
    BY <1>1, <2>1 DEF Stop, Acknowledge, NoAcknowledgement, Goto, workerVars, thread, Over
  <2>2. CASE (Stop(r) /\ ~IsAlive(wk[r])) \/ Reap(r) \/ Kill(r)
    <3>1. /\ pc[r] \in Shutting /\ Stopped(r) /\ UNCHANGED <<runs, verdict>>
          /\ task[r] \in Tasks /\ task[r] # "none"
      BY <2>2 DEF Stop, Reap, Kill, Stopped, Shutting, workerVars, PlaceInv, PlaceOf, TypeOK
    <3>2. pc'[r] # "answered"
      BY <1>1, <3>1 DEF Stopped, AfterDrop, Goto, Tasks
    <3> QED BY <3>1, <3>2 DEF Shutting, Over
  <2> QED BY <1>9, <2>1, <2>2
<1>10. CASE Drop(r) \/ Close(r)
  BY <1>1, <1>10 DEF Drop, Close, AfterDrop, Goto, workerVars, Over
<1> QED BY <1>2, <1>3, <1>4, <1>5, <1>6, <1>7, <1>8, <1>9, <1>10 DEF Serve

LEMMA SentStays ==
  ASSUME PlaceInv, NEW r \in Requests, Post(r) \/ Serve(r), OthersStay(r)
  PROVE  \A q \in Requests : Sent(q) => Sent(q)'
<1> SUFFICES ASSUME NEW q \in Requests, Sent(q) PROVE Sent(q)'
  OBVIOUS
<1>1. CASE q = r
  BY <1>1, VerdictMoves DEF Sent, Settled
<1>2. CASE q # r
  BY <1>2, VerdictMoves DEF Sent, OthersStay
<1> QED BY <1>1, <1>2

(* The step of a thread that leaves a line of its own unread. *)
LEMMA OwnLineStays ==
  ASSUME PlaceInv, WorkerInv, NEW r \in Requests, Serve(r), pc[r] \in {"await"} \cup Shutting,
         stdin[wk[r]] # <<>>, life'[wk[r]] # "ended"
  PROVE  pc'[r] \in Shutting /\ UNCHANGED cmd
<1>1. pc \in [Requests -> PCs] /\ life \in [Workers -> Lives] /\ wk[r] \in Workers
  BY DEF PlaceInv, PlaceOf, TypeOK, WorkerTypeOK, Handling, Shutting
<1>2. ~ReadAnswer(r)
  BY AnswerPipe, GivesLock DEF WorkerInv
<1>3. ~((Stop(r) /\ ~IsAlive(wk[r])) \/ Reap(r) \/ Kill(r))
  <2>1. (Stop(r) /\ ~IsAlive(wk[r])) \/ Reap(r) \/ Kill(r) => life' = [life EXCEPT ![wk[r]] = "ended"]
    BY ShutEnds DEF WorkerInv
  <2> QED BY <1>1, <2>1
<1>4. CASE NoAnswer(r)
  BY <1>1, <1>4 DEF NoAnswer, Goto, Shutting, shared
<1>5. CASE (Stop(r) /\ IsAlive(wk[r])) \/ Acknowledge(r) \/ NoAcknowledgement(r)
  BY <1>1, <1>5 DEF Stop, Acknowledge, NoAcknowledgement, Goto, Shutting, shared
<1>6. NoAnswer(r) \/ (Stop(r) /\ IsAlive(wk[r])) \/ Acknowledge(r) \/ NoAcknowledgement(r)
  BY <1>2, <1>3 DEF Serve, Sweep, KeepCandidate, CloseCandidate, Forget, EndSweep, GetExisting,
     RefuseCapacity, Spawn, HelloAccepted, HelloFails, Enter, Send, Drop, Close, Respond, Shutting
<1> QED BY <1>4, <1>5, <1>6

LEMMA UnreadBefore ==
  ASSUME PlaceInv, WorkerInv, NEW r \in Requests, Post(r) \/ Serve(r), OthersStay(r),
         NEW w \in Workers, NEW q \in Requests, NextTurn(w, q)',
         ~(Send(r) /\ life[wk[r]] # "ended" /\ w = wk[r])
  PROVE  NextTurn(w, q)
<1>1. stdin \in [Workers -> Seq(Commands)]
  BY DEF PlaceInv, TypeOK, WorkerTypeOK
<1>2. CASE stdin'[w] = stdin[w]
  BY <1>2 DEF NextTurn
<1>3. CASE Send(r) /\ life[wk[r]] # "ended"
  <2>1. stdin'[w] = stdin[w]
    BY <1>1, <1>3 DEF Send, Write
  <2> QED BY <1>2, <2>1
<1>4. CASE Stop(r) /\ IsAlive(wk[r])
  <2> DEFINE line == [kind |-> "shutdown", req |-> NoOne]
  <2>1. stdin'[w] = IF w = wk[r] THEN Append(stdin[w], line) ELSE stdin[w]
    BY <1>1, <1>4 DEF Stop, Write
  <2>2. line \in Commands /\ line # [kind |-> "turn", req |-> q]
    BY DEF Commands
  <2> HIDE DEF line
  <2>3. stdin[w] \in Seq(Commands) /\ Head(Append(stdin[w], line))
                                        = IF stdin[w] = <<>> THEN line ELSE Head(stdin[w])
    BY <1>1, <2>2, HeadTailAppend
  <2> QED BY <2>1, <2>2, <2>3 DEF NextTurn
<1>5. UNCHANGED stdin \/ (Send(r) /\ life[wk[r]] # "ended") \/ (Stop(r) /\ IsAlive(wk[r]))
  BY DEF Post, Claim, Prove, Serve, Sweep, KeepCandidate, CloseCandidate, Forget, EndSweep,
     GetExisting, RefuseCapacity, Spawn, HelloAccepted, HelloFails, Enter, Send, ReadAnswer,
     NoAnswer, Stop, Acknowledge, NoAcknowledgement, Reap, Kill, Drop, Close, Respond, workerVars
<1> QED BY <1>2, <1>3, <1>4, <1>5

LEMMA EndedStays ==
  ASSUME PlaceInv, WorkerInv, NEW r \in Requests, Post(r) \/ Serve(r),
         NEW w \in Workers, life[w] = "ended"
  PROVE  life'[w] = "ended"
<1>1. CASE ~Spawn(r) \/ Goto(r, "escaped")
  BY <1>1, LifeOnly
<1>2. CASE Spawn(r) /\ ~Goto(r, "escaped")
  BY <1>2 DEF Spawn, Become, PlaceInv, TypeOK, WorkerTypeOK
<1> QED BY <1>1, <1>2

LEMMA ThreadSent ==
  ASSUME PlaceInv, WorkerInv, SentInv, NEW r \in Requests, Post(r) \/ Serve(r)
  PROVE  SentInv'
<1>1. OthersStay(r)
  BY KeepsLock, TakesLock, GivesLock, EscapesLock DEF Serve, WorkerInv
<1>2. HoldInv' /\ UNCHANGED runs
  BY NextHold, VerdictMoves DEF Next, WorkerInv
<1>3. \A q \in Requests : Sent(q) => Sent(q)'
  BY <1>1, SentStays
<1>4. ASSUME NEW w \in Workers, NEW q \in Requests, NextTurn(w, q)', life'[w] # "ended"
      PROVE  /\ cmd'[w] = q /\ pc'[q] \in {"await"} \cup Shutting
             /\ Sent(q)' /\ runs'[q] = 0
  <2>1. CASE Send(r) /\ life[wk[r]] # "ended" /\ w = wk[r]
    <3>1. Head(stdin'[w]) = [kind |-> "turn", req |-> r]
      BY <1>1, <2>1, SendPipe DEF WorkerInv
    <3>2. q = r
      BY <1>4, <3>1 DEF NextTurn
    <3>3. pc'[r] = "await" /\ pc[r] = "send" /\ wk'[r] = w
      BY <2>1 DEF Send, Goto, PlaceInv, TypeOK
    <3>4. cmd'[w] = r
      BY <1>2, <3>3 DEF HoldInv, Holding
    <3>5. ~Sent(r)
      BY <3>3 DEF Sent, PlaceInv, PlaceOf, Before
    <3> QED BY <1>2, <3>2, <3>3, <3>4, <3>5 DEF SentInv, Sent
  <2>2. CASE ~(Send(r) /\ life[wk[r]] # "ended" /\ w = wk[r])
    <3>1. NextTurn(w, q) /\ life[w] # "ended"
      BY <1>1, <1>4, <2>2, UnreadBefore, EndedStays
    <3>2. /\ cmd[w] = q /\ pc[q] \in {"await"} \cup Shutting
          /\ Sent(q) /\ runs[q] = 0 /\ wk[q] = w
      BY <3>1, NoOneAssumption DEF SentInv, WorkerInv, HoldInv
    <3>3. cmd'[w] = q /\ pc'[q] \in {"await"} \cup Shutting
      <4>1. CASE q = r
        <5>1. Serve(r)
          BY <3>2, <4>1 DEF Post, Claim, Prove, Shutting
        <5>2. stdin[wk[r]] # <<>> /\ life'[wk[r]] # "ended"
          BY <1>4, <3>1, <3>2, <4>1 DEF NextTurn
        <5> QED BY <3>2, <4>1, <5>1, <5>2, OwnLineStays
      <4>2. CASE q # r
        <5>1. pc'[q] = pc[q] /\ wk'[q] = w /\ pc[q] \in Holding
          BY <1>1, <3>2, <4>2 DEF OthersStay, Holding
        <5> QED BY <1>2, <3>2, <5>1 DEF HoldInv
      <4> QED BY <4>1, <4>2
    <3> QED BY <1>2, <1>3, <3>2, <3>3
  <2> QED BY <2>1, <2>2
<1>5. \A q \in Requests : runs'[q] \in {0, 1} /\ (runs'[q] = 1 => Sent(q)')
  BY <1>2, <1>3 DEF SentInv
<1> QED BY <1>4, <1>5 DEF SentInv

(* A turn starts from the line of a request that waits for it or gave it   *)
(* up, and that has not run.                                               *)
LEMMA StartIsFirst ==
  ASSUME PlaceInv, WorkerInv, SentInv, NEW w \in Workers, ProcessStep(w), StartTurn(w)
  PROVE  \E q \in Requests :
           /\ NextTurn(w, q) /\ life[w] = "reading" /\ runs' = [runs EXCEPT ![q] = 1]
           /\ cmd[w] = q /\ pc[q] \in {"await"} \cup Shutting /\ Sent(q) /\ runs[q] = 0
<1>1. WorkerTypeOK
  BY DEF PlaceInv, TypeOK
<1>2. Head(stdin[w]) \in Commands /\ Head(stdin[w]).kind = "turn" /\ stdin[w] # <<>>
  BY <1>1, ReadType DEF StartTurn, NextCommand
<1>3. PICK q \in Requests : q = Head(stdin[w]).req
  BY <1>1, <1>2, ReadType
<1>4. NextTurn(w, q) /\ life[w] = "reading"
  BY <1>2, <1>3 DEF NextTurn, Commands, StartTurn
<1>5. cmd[w] = q /\ pc[q] \in {"await"} \cup Shutting /\ Sent(q) /\ runs[q] = 0
  BY <1>4 DEF SentInv
<1>6. runs' = [runs EXCEPT ![q] = 1]
  BY <1>1, <1>3, <1>5 DEF StartTurn, WorkerTypeOK
<1> QED BY <1>4, <1>5, <1>6

LEMMA RunsOnlyStart ==
  ASSUME NEW w \in Workers, ProcessStep(w), ~StartTurn(w)
  PROVE  UNCHANGED runs
  BY DEF ProcessStep, WorkerStep, Boot, BootRefusesVersion, FinishTurn, TurnRaises, PreflightTurn,
     Leaving, ReadShutdown, CloseSession, Exit, Die

LEMMA ProcessSent ==
  ASSUME PlaceInv, WorkerInv, RegInv, SentInv, NEW w \in Workers, ProcessStep(w)
  PROVE  SentInv'
<1>1. /\ life[w] \notin {"unborn", "ended"}
      /\ \A v \in Workers \ {w} : life'[v] = life[v] /\ stdin'[v] = stdin[v]
      /\ UNCHANGED <<cmd, pc, verdict>>
  BY ProcessLives DEF shared, thread
<1>2. \A q \in Requests : Sent(q)' <=> Sent(q)
  BY <1>1 DEF Sent
<1>3. ASSUME NEW v \in Workers, NEW q \in Requests, NextTurn(v, q)', life'[v] # "ended"
      PROVE  NextTurn(v, q) /\ life[v] # "ended" /\ (StartTurn(w) => v # w)
  <2>1. CASE v # w
    BY <1>1, <1>3, <2>1 DEF NextTurn
  <2>2. CASE v = w
    <3>1. stdin[w] \in Seq(Commands) /\ stdin \in [Workers -> Seq(Commands)]
      BY DEF PlaceInv, TypeOK, WorkerTypeOK
    <3>2. ~(stdin[w] # <<>> /\ ReadLine(w))
      <4>1. \A i \in 2..Len(stdin[w]) : stdin[w][i].kind = "shutdown"
        BY DEF RegInv
      <4> QED BY <1>3, <2>2, <3>1, <4>1, ReadOn DEF ReadLine, NextTurn
    <3>3. ~StartTurn(w) /\ UNCHANGED stdin
      BY <3>2 DEF ProcessStep, WorkerStep, Boot, BootRefusesVersion, StartTurn, FinishTurn, TurnRaises,
         PreflightTurn, Leaving, ReadShutdown, CloseSession, Exit, Die, NextCommand
    <3> QED BY <1>1, <1>3, <2>2, <3>3 DEF NextTurn
  <2> QED BY <2>1, <2>2
<1>4. ASSUME NEW v \in Workers, NEW q \in Requests, NextTurn(v, q)', life'[v] # "ended"
      PROVE  /\ cmd'[v] = q /\ pc'[q] \in {"await"} \cup Shutting
             /\ Sent(q)' /\ runs'[q] = 0
  <2>1. /\ cmd[v] = q /\ pc[q] \in {"await"} \cup Shutting /\ Sent(q) /\ runs[q] = 0
    BY <1>3, <1>4 DEF SentInv
  <2>2. runs'[q] = 0
    <3>1. CASE StartTurn(w)
      <4>1. PICK x \in Requests : cmd[w] = x /\ runs' = [runs EXCEPT ![x] = 1]
        BY <3>1, StartIsFirst
      <4>2. v # w
        BY <1>3, <1>4, <3>1
      <4>3. x # q
        BY <2>1, <4>1, <4>2, NoOneAssumption DEF WorkerInv, HoldInv
      <4> QED BY <2>1, <4>1, <4>3 DEF PlaceInv, TypeOK, WorkerTypeOK
    <3>2. CASE ~StartTurn(w)
      BY <2>1, <3>2, RunsOnlyStart
    <3> QED BY <3>1, <3>2
  <2> QED BY <1>1, <1>2, <2>1, <2>2
<1>5. \A q \in Requests : runs'[q] \in {0, 1} /\ (runs'[q] = 1 => Sent(q)')
  <2>1. CASE StartTurn(w)
    <3>1. PICK x \in Requests : Sent(x) /\ runs' = [runs EXCEPT ![x] = 1]
      BY <2>1, StartIsFirst
    <3> QED BY <1>2, <3>1 DEF SentInv, PlaceInv, TypeOK, WorkerTypeOK
  <2>2. CASE ~StartTurn(w)
    BY <1>2, <2>2, RunsOnlyStart DEF SentInv
  <2> QED BY <2>1, <2>2
<1> QED BY <1>4, <1>5 DEF SentInv

LEMMA NextSent == ASSUME PlaceInv, WorkerInv, RegInv, SentInv, [Next]_vars PROVE SentInv'
<1>1. CASE UNCHANGED vars
  BY <1>1 DEF SentInv, Sent, NextTurn, vars, workerVars, shared, thread
<1> QED BY <1>1, ThreadSent, ProcessSent DEF Next

-----------------------------------------------------------------------------
(* The sidecar delivers a turn as TurnDelivery says.                       *)
LEMMA ThreadDelivers ==
  ASSUME PlaceInv, WorkerInv, SentInv, NEW r \in Requests, Post(r) \/ Serve(r)
  PROVE  [Delivery!Next]_<<Outcome, runs>>
<1>1. /\ OthersStay(r) /\ PlaceInv'
      /\ pc' \in [Requests -> PCs] /\ verdict' \in [Requests -> Verdicts]
  BY KeepsLock, TakesLock, GivesLock, EscapesLock, NextPlace DEF Serve, WorkerInv, Next, PlaceInv, TypeOK
<1>2. UNCHANGED runs /\ Outcome[r] = "pending"
  BY VerdictMoves DEF Outcome, Over
<1>3. PICK o : o = Outcome'[r]
  OBVIOUS
<1>4. Outcome' = [Outcome EXCEPT ![r] = o]
  <2>1. \A q \in Requests \ {r} : Outcome'[q] = Outcome[q]
    BY <1>1, VerdictMoves DEF Outcome, OthersStay
  <2> QED BY <1>3, <2>1 DEF Outcome
<1>5. CASE pc'[r] \notin Over
  <2>1. o = "pending"
    BY <1>3, <1>5 DEF Outcome, Over
  <2>2. UNCHANGED Outcome
    BY <1>2, <1>4, <2>1 DEF Outcome
  <2> QED BY <1>2, <2>2
<1>6. CASE pc'[r] = "escaped"
  <2>1. o = "lost"
    BY <1>3, <1>6 DEF Outcome
  <2> QED BY <1>2, <1>4, <2>1 DEF Delivery!Next, Delivery!Report
<1>7. CASE pc'[r] = "answered" /\ verdict'[r] \in Refusals
  <2>1. o = "refused"
    BY <1>3, <1>7 DEF Outcome
  <2>2. ~Sent(r)
    BY <1>7, VerdictMoves DEF Sent, Settled, Refusals
  <2>3. runs[r] = 0
    BY <2>2 DEF SentInv
  <2> QED BY <1>2, <1>4, <2>1, <2>3 DEF Delivery!Next, Delivery!Refuse
<1>8. CASE pc'[r] = "answered" /\ verdict'[r] \notin Refusals
  <2>1. o \in {"ok", "error", "unknown"}
    BY <1>1, <1>3, <1>8 DEF Outcome, PlaceInv, PlaceOf, Verdicts
  <2> QED BY <1>2, <1>4, <2>1 DEF Delivery!Next, Delivery!Report
<1> QED BY <1>5, <1>6, <1>7, <1>8 DEF Over

LEMMA ProcessDelivers ==
  ASSUME PlaceInv, WorkerInv, SentInv, NEW w \in Workers, ProcessStep(w)
  PROVE  [Delivery!Next]_<<Outcome, runs>>
<1>1. UNCHANGED Outcome
  BY DEF ProcessStep, thread, Outcome
<1>2. CASE StartTurn(w)
  <2>1. PICK q \in Requests :
          runs' = [runs EXCEPT ![q] = 1] /\ pc[q] \in {"await"} \cup Shutting /\ runs[q] = 0
    BY <1>2, StartIsFirst
  <2>2. Outcome[q] = "pending"
    BY <2>1 DEF Outcome, Shutting
  <2> QED BY <1>1, <2>1, <2>2 DEF Delivery!Next, Delivery!Run
<1>3. CASE ~StartTurn(w)
  BY <1>1, <1>3, RunsOnlyStart
<1> QED BY <1>2, <1>3

(* dispatch_turn, _request, do_POST: a turn is started at most once, only  *)
(* while its client waits, and never when the response said that it was    *)
(* refused: whatever times out, dies, is retried or is evicted.            *)
THEOREM SpecImplementsDelivery == Spec => ImplementsDelivery
<1>1. Init => Delivery!Init
  BY DEF Init, WorkerInit, Delivery!Init, Outcome
<1>2. Init => SentInv
  BY DEF Init, WorkerInit, SentInv, NextTurn
<1>3. PlaceInv /\ WorkerInv /\ SentInv /\ [Next]_vars => [Delivery!Next]_<<Outcome, runs>>
  <2>1. CASE UNCHANGED vars
    BY <2>1 DEF vars, workerVars, thread, Outcome
  <2> QED BY <2>1, ThreadDelivers, ProcessDelivers DEF Next
<1> QED BY <1>1, <1>2, <1>3, SpecRegInv, NextSent, PTL DEF Spec, ImplementsDelivery, Delivery!Spec
=============================================================================
