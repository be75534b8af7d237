------------------------------ MODULE Sidecar ------------------------------
(***************************************************************************)
(* The HTTP sidecar (scripts/http_runtime.py): every POST /turn runs in a  *)
(* thread of its own, which claims or proves the ownership of its session, *)
(* finds or starts the worker process of the session, sends it one line    *)
(* and waits for one line.  Threads share the token store, the worker      *)
(* registry (one lock) and the workers (a command lock each).              *)
(*                                                                         *)
(* A step is what a thread does between two points where another thread or *)
(* a worker process can change what it sees.  Time is not modelled: a      *)
(* timeout may fire whenever nothing can be read.  Session tokens are      *)
(* enforced, and a token is named by the request that claimed it.          *)
(***************************************************************************)
EXTENDS WorkerProcess, FiniteSets

CONSTANTS Sessions,
          SessionOf,    \* the session a request is for
          MaxSessions,  \* max_sessions
          NoWorker

ASSUME SessionOfAssumption == SessionOf \in [Requests -> Sessions]
ASSUME MaxSessionsAssumption == MaxSessions \in Nat \ {0}
ASSUME NoOneAssumption == NoOne \notin Requests
ASSUME NoWorkerAssumption == NoWorker \notin Workers

VARIABLES
  owner,    \* SessionOwnershipStore._tokens
  reg,      \* SessionRegistry._workers
  regLock,  \* who holds SessionRegistry._lock across a worker start
  \* SessionWorker: whether self.process is set, and command_lock
  handle, cmd,
  \* a request thread: where it is, the token it holds, the worker it deals
  \* with, the idle candidates of its sweep, why it closes a worker, which
  \* attempt this is, what it will answer, the line it got, and whether its
  \* response told the client the token
  pc, token, wk, snap, task, try, verdict, got, told

shared  == <<owner, reg, regLock, handle, cmd>>
thread  == <<token, task, try, verdict, got, told>>
vars    == <<workerVars, shared, pc, wk, snap, thread>>

PCs == {"idle", "sweep", "sweeping", "forget", "get", "hello", "enter", "send",
        "await", "drop", "close", "stop", "ack", "kill", "reap", "respond",
        "answered", "escaped"}
Tasks    == {"none", "idle_ttl", "handshake", "post_send", "drop"}
Refusals == {"missing", "invalid", "capacity", "unavailable"}
Verdicts == {"none", "ok", "unknown", "error"} \cup Refusals
NoLine   == [kind |-> "none", req |-> NoOne]

TypeOK ==
  /\ WorkerTypeOK
  /\ owner \in [Sessions -> Requests \cup {NoOne}]
  /\ reg \in [Sessions -> Workers \cup {NoWorker}]
  /\ regLock \in Requests \cup {NoOne}
  /\ handle \in [Workers -> BOOLEAN]
  /\ cmd \in [Workers -> Requests \cup {NoOne}]
  /\ pc \in [Requests -> PCs]
  /\ token \in [Requests -> Requests \cup {NoOne}]
  /\ wk \in [Requests -> Workers \cup {NoWorker}]
  /\ snap \in [Requests -> SUBSET Workers]
  /\ task \in [Requests -> Tasks]
  /\ try \in [Requests -> {1, 2}]
  /\ verdict \in [Requests -> Verdicts]
  /\ got \in [Requests -> Lines \cup {NoLine}]
  /\ told \in [Requests -> BOOLEAN]

Init ==
  /\ WorkerInit
  /\ owner = [s \in Sessions |-> NoOne]
  /\ reg = [s \in Sessions |-> NoWorker]
  /\ regLock = NoOne
  /\ handle = [w \in Workers |-> FALSE]
  /\ cmd = [w \in Workers |-> NoOne]
  /\ pc = [r \in Requests |-> "idle"]
  /\ token = [r \in Requests |-> NoOne]
  /\ wk = [r \in Requests |-> NoWorker]
  /\ snap = [r \in Requests |-> {}]
  /\ task = [r \in Requests |-> "none"]
  /\ try = [r \in Requests |-> 1]
  /\ verdict = [r \in Requests |-> "none"]
  /\ got = [r \in Requests |-> NoLine]
  /\ told = [r \in Requests |-> FALSE]

-----------------------------------------------------------------------------
Goto(r, label) == pc' = [pc EXCEPT ![r] = label]
Decide(r, v)   == verdict' = [verdict EXCEPT ![r] = v]
Because(r, t)  == task' = [task EXCEPT ![r] = t]
Lock(w, r)     == cmd' = [cmd EXCEPT ![w] = r]
Unlock(w)      == cmd' = [cmd EXCEPT ![w] = NoOne]

IsAlive(w)      == handle[w] /\ life[w] # "ended"
Registered      == {reg[s] : s \in Sessions} \ {NoWorker}
RegistryIsFree  == regLock = NoOne
HasLine(w)      == stdout[w] # <<>>
TakeLine(w)     == stdout' = [stdout EXCEPT ![w] = Tail(@)]
Write(w, c)     == stdin' = [stdin EXCEPT ![w] = Append(@, c)]

(* Tokens a client can know: those some response carried. *)
KnownTokens == {token[q] : q \in {x \in Requests : told[x]}}

(* _drop_dead_locked *)
LiveRegistry == [s \in Sessions |->
  IF reg[s] # NoWorker /\ IsAlive(reg[s]) THEN reg[s] ELSE NoWorker]
LiveCount == Cardinality({s \in Sessions : LiveRegistry[s] # NoWorker})

(* pop a worker, if it is still the registered one. *)
Pop(w) == reg' = [s \in Sessions |-> IF reg[s] = w THEN NoWorker ELSE reg[s]]

-----------------------------------------------------------------------------
(* do_POST up to claim_or_validate; the client presents a token it knows.  *)
Claim(r) ==
  /\ pc[r] = "idle"
  /\ owner[SessionOf[r]] = NoOne
  /\ owner' = [owner EXCEPT ![SessionOf[r]] = r]
  /\ \/ /\ token' = [token EXCEPT ![r] = r]
        /\ Goto(r, "sweep")
     \/ /\ Goto(r, "escaped")   \* _persist_locked raises
        /\ UNCHANGED token
  /\ UNCHANGED <<workerVars, reg, regLock, handle, cmd, wk, snap, task, try,
                 verdict, got, told>>

Prove(r, presented) ==
  /\ pc[r] = "idle"
  /\ owner[SessionOf[r]] # NoOne
  /\ \/ /\ presented = owner[SessionOf[r]]
        /\ token' = [token EXCEPT ![r] = presented]
        /\ Goto(r, "sweep")
        /\ UNCHANGED verdict
     \/ /\ presented # owner[SessionOf[r]]
        /\ Decide(r, IF presented = NoOne THEN "missing" ELSE "invalid")
        /\ Goto(r, "answered")
        /\ UNCHANGED token
  /\ UNCHANGED <<workerVars, shared, wk, snap, task, try, got, told>>

(* evict_idle: a snapshot of the registry, then close_if_idle on each.  A  *)
(* worker used after the snapshot is not idle; see Enter.                  *)
Sweep(r) ==
  /\ pc[r] = "sweep"
  /\ RegistryIsFree
  /\ snap' = [snap EXCEPT ![r] = Registered]
  /\ Goto(r, "sweeping")
  /\ UNCHANGED <<workerVars, shared, wk, thread>>

KeepCandidate(r) ==
  /\ pc[r] = "sweeping"
  /\ \E w \in snap[r] : snap' = [snap EXCEPT ![r] = @ \ {w}]
  /\ UNCHANGED <<workerVars, shared, pc, wk, thread>>

CloseCandidate(r) ==
  /\ pc[r] = "sweeping"
  /\ \E w \in snap[r] :
       /\ cmd[w] = NoOne
       /\ Lock(w, r)
       /\ snap' = [snap EXCEPT ![r] = @ \ {w}]
       /\ wk' = [wk EXCEPT ![r] = w]
  /\ Because(r, "idle_ttl")
  /\ Goto(r, "stop")
  /\ UNCHANGED <<workerVars, owner, reg, regLock, handle, token, try, verdict,
                 got, told>>

Forget(r) ==
  /\ pc[r] = "forget"
  /\ RegistryIsFree
  /\ Pop(wk[r])
  /\ wk' = [wk EXCEPT ![r] = NoWorker]
  /\ Goto(r, "sweeping")
  /\ UNCHANGED <<workerVars, owner, regLock, handle, cmd, snap, thread>>

EndSweep(r) ==
  /\ pc[r] = "sweeping"
  /\ snap[r] = {}
  /\ Goto(r, "get")
  /\ UNCHANGED <<workerVars, shared, wk, snap, thread>>

-----------------------------------------------------------------------------
(* _get_or_create; a start keeps the registry lock until the handshake.    *)
GetExisting(r) ==
  /\ pc[r] = "get"
  /\ RegistryIsFree
  /\ LiveRegistry[SessionOf[r]] # NoWorker
  /\ reg' = LiveRegistry
  /\ wk' = [wk EXCEPT ![r] = LiveRegistry[SessionOf[r]]]
  /\ Goto(r, "enter")
  /\ UNCHANGED <<workerVars, owner, regLock, handle, cmd, snap, thread>>

RefuseCapacity(r) ==
  /\ pc[r] = "get"
  /\ RegistryIsFree
  /\ LiveRegistry[SessionOf[r]] = NoWorker
  /\ LiveCount >= MaxSessions
  /\ reg' = LiveRegistry
  /\ Decide(r, "capacity")
  /\ Goto(r, "respond")
  /\ UNCHANGED <<workerVars, owner, regLock, handle, cmd, wk, snap, token,
                 task, try, got, told>>

Spawn(r) ==
  /\ pc[r] = "get"
  /\ RegistryIsFree
  /\ LiveRegistry[SessionOf[r]] = NoWorker
  /\ LiveCount < MaxSessions
  /\ reg' = LiveRegistry
  /\ \/ \E w \in Workers :
          /\ life[w] = "unborn"
          /\ Become(w, "booting")
          /\ handle' = [handle EXCEPT ![w] = TRUE]
          /\ Lock(w, r)
          /\ regLock' = r
          /\ wk' = [wk EXCEPT ![r] = w]
          /\ Goto(r, "hello")
     \/ /\ Goto(r, "escaped")   \* Popen raises
        /\ UNCHANGED <<life, handle, cmd, regLock, wk>>
  /\ UNCHANGED <<cur, stdin, stdout, runs, owner, snap, thread>>

HelloAccepted(r) ==
  /\ pc[r] = "hello"
  /\ HasLine(wk[r])
  /\ Head(stdout[wk[r]]).kind = "hello"
  /\ TakeLine(wk[r])
  /\ reg' = [reg EXCEPT ![SessionOf[r]] = wk[r]]
  /\ Unlock(wk[r])
  /\ regLock' = NoOne
  /\ Goto(r, "enter")
  /\ UNCHANGED <<life, cur, stdin, runs, owner, handle, wk, snap, thread>>

(* Mutant: the exception leaves without _shutdown_locked. *)
HelloFailsUnclosed(r) ==
  /\ pc[r] = "hello"
  /\ ~HasLine(wk[r])
  /\ Unlock(wk[r])
  /\ regLock' = NoOne
  /\ Goto(r, "escaped")
  /\ UNCHANGED <<workerVars, owner, reg, handle, wk, snap, thread>>

(* No line (timeout or end of the process), or a refusal. *)
HelloFails(r) ==
  /\ pc[r] = "hello"
  /\ \/ ~HasLine(wk[r]) /\ UNCHANGED stdout
     \/ HasLine(wk[r]) /\ Head(stdout[wk[r]]).kind # "hello" /\ TakeLine(wk[r])
  /\ Because(r, "handshake")
  /\ Goto(r, "stop")
  /\ UNCHANGED <<life, cur, stdin, runs, shared, wk, snap, token, try, verdict,
                 got, told>>

-----------------------------------------------------------------------------
(* SessionWorker._request: last_used_at is set under the command lock.     *)
Enter(r) ==
  /\ pc[r] = "enter"
  /\ cmd[wk[r]] = NoOne
  /\ snap' = [q \in Requests |-> snap[q] \ {wk[r]}]
  /\ \/ /\ IsAlive(wk[r])
        /\ Lock(wk[r], r)
        /\ Goto(r, "send")
        /\ UNCHANGED verdict
     \/ /\ ~IsAlive(wk[r])   \* WorkerPreSendError
        /\ verdict' = [verdict EXCEPT ![r] = IF try[r] = 2 THEN "unavailable" ELSE @]
        /\ Goto(r, "drop")
        /\ UNCHANGED cmd
  /\ UNCHANGED <<workerVars, owner, reg, regLock, handle, wk, token, task, try,
                 got, told>>

Send(r) ==
  /\ pc[r] = "send"
  /\ \/ /\ life[wk[r]] # "ended"
        /\ Write(wk[r], [kind |-> "turn", req |-> r])
        /\ Goto(r, "await")
        /\ UNCHANGED <<task, verdict>>
     \/ /\ life[wk[r]] = "ended"   \* broken pipe
        /\ Decide(r, "unknown")
        /\ Because(r, "post_send")
        /\ Goto(r, "stop")
        /\ UNCHANGED stdin
  /\ UNCHANGED <<life, cur, stdout, runs, shared, wk, snap, token, try, got, told>>

ReadAnswer(r) ==
  /\ pc[r] = "await"
  /\ HasLine(wk[r])
  /\ got' = [got EXCEPT ![r] = Head(stdout[wk[r]])]
  /\ TakeLine(wk[r])
  /\ Unlock(wk[r])
  /\ IF Head(stdout[wk[r]]).kind = "error"
       THEN Decide(r, "error") /\ Goto(r, "drop")
       ELSE Decide(r, "ok") /\ Goto(r, "respond")
  /\ UNCHANGED <<life, cur, stdin, runs, owner, reg, regLock, handle, wk, snap,
                 token, task, try, told>>

(* Mutant: the timeout leaves the worker to the next request ("respond") or *)
(* closes it only after it has left the registry ("drop").                 *)
NoAnswerUnclosed(r, label) ==
  /\ pc[r] = "await"
  /\ ~HasLine(wk[r])
  /\ Decide(r, "unknown")
  /\ Unlock(wk[r])
  /\ Goto(r, label)
  /\ UNCHANGED <<workerVars, owner, reg, regLock, handle, wk, snap, token, task,
                 try, got, told>>
NoAnswerKeepsWorker(r) == NoAnswerUnclosed(r, "respond")
NoAnswerDropsFirst(r)  == NoAnswerUnclosed(r, "drop")

(* Timeout, or the end of the process. *)
NoAnswer(r) ==
  /\ pc[r] = "await"
  /\ ~HasLine(wk[r])
  /\ Decide(r, "unknown")
  /\ Because(r, "post_send")
  /\ Goto(r, "stop")
  /\ UNCHANGED <<workerVars, shared, wk, snap, token, try, got, told>>

-----------------------------------------------------------------------------
(* _shutdown_locked is over: the command lock is released and the thread   *)
(* goes on with what it closed the worker for.  After a failed handshake   *)
(* the exception passes through dispatch_turn: at the first attempt it is  *)
(* outside the try block, at the second the handler uses the name          *)
(* "replacement", which has no value yet.  There is no response.           *)
\* Mutant: a turn whose outcome is unknown is sent again.
AfterDropResends(r) ==
  IF verdict[r] \in {"none", "unknown"} /\ try[r] = 1
    THEN Goto(r, "get") /\ try' = [try EXCEPT ![r] = 2]
    ELSE Goto(r, "respond") /\ UNCHANGED try

AfterDrop(r) ==
  IF verdict[r] = "none"
    THEN Goto(r, "get") /\ try' = [try EXCEPT ![r] = 2]
    ELSE Goto(r, "respond") /\ UNCHANGED try

\* Mutant: the idle sweep returns without releasing the command lock.
StoppedKeepsLock(r) ==
  /\ handle' = [handle EXCEPT ![wk[r]] = FALSE]
  /\ Because(r, "none")
  /\ CASE task[r] = "idle_ttl"  -> Goto(r, "forget") /\ UNCHANGED <<cmd, regLock, try>>
       [] task[r] = "handshake" -> Goto(r, "escaped") /\ regLock' = NoOne
                                   /\ Unlock(wk[r]) /\ UNCHANGED try
       [] task[r] = "post_send" -> Goto(r, "drop") /\ Unlock(wk[r]) /\ UNCHANGED <<regLock, try>>
       [] task[r] = "drop"      -> AfterDrop(r) /\ Unlock(wk[r]) /\ UNCHANGED regLock
  /\ UNCHANGED <<owner, reg, wk, snap, token, verdict, got, told>>

Stopped(r) ==
  /\ handle' = [handle EXCEPT ![wk[r]] = FALSE]
  /\ Unlock(wk[r])
  /\ Because(r, "none")
  /\ CASE task[r] = "idle_ttl"  -> Goto(r, "forget") /\ UNCHANGED <<regLock, try>>
       [] task[r] = "handshake" -> Goto(r, "escaped") /\ regLock' = NoOne /\ UNCHANGED try
       [] task[r] = "post_send" -> Goto(r, "drop") /\ UNCHANGED <<regLock, try>>
       [] task[r] = "drop"      -> AfterDrop(r) /\ UNCHANGED regLock
  /\ UNCHANGED <<owner, reg, wk, snap, token, verdict, got, told>>

Stop(r) ==
  /\ pc[r] = "stop"
  /\ IF IsAlive(wk[r])
       THEN /\ Write(wk[r], [kind |-> "shutdown", req |-> NoOne])
            /\ Goto(r, "ack")
            /\ UNCHANGED <<life, cur, stdout, runs, shared, wk, snap, thread>>
       ELSE Stopped(r) /\ UNCHANGED workerVars

(* Any line counts as the acknowledgement. *)
Acknowledge(r) ==
  /\ pc[r] = "ack"
  /\ HasLine(wk[r])
  /\ TakeLine(wk[r])
  /\ Goto(r, "reap")
  /\ UNCHANGED <<life, cur, stdin, runs, shared, wk, snap, thread>>

NoAcknowledgement(r) ==
  /\ pc[r] = "ack"
  /\ ~HasLine(wk[r])
  /\ Goto(r, "kill")
  /\ UNCHANGED <<workerVars, shared, wk, snap, thread>>

(* proc.wait() *)
Reap(r) ==
  /\ pc[r] = "reap"
  /\ life[wk[r]] = "ended"
  /\ Stopped(r)
  /\ UNCHANGED workerVars

(* _terminate_and_reap_process_group *)
Kill(r) ==
  /\ pc[r] = "kill"
  /\ Become(wk[r], "ended")
  /\ cur' = [cur EXCEPT ![wk[r]] = NoOne]
  /\ Stopped(r)
  /\ UNCHANGED <<stdin, stdout, runs>>

(* _drop_worker: out of the registry first, then close(), which returns at *)
(* once when the process is gone and waits for the command lock otherwise. *)
Drop(r) ==
  /\ pc[r] = "drop"
  /\ RegistryIsFree
  /\ Pop(wk[r])
  /\ IF handle[wk[r]] THEN Goto(r, "close") /\ UNCHANGED try ELSE AfterDrop(r)
  /\ UNCHANGED <<workerVars, owner, regLock, handle, cmd, wk, snap, token,
                 task, verdict, got, told>>

Close(r) ==
  /\ pc[r] = "close"
  /\ cmd[wk[r]] = NoOne
  /\ Lock(wk[r], r)
  /\ Because(r, "drop")
  /\ Goto(r, "stop")
  /\ UNCHANGED <<workerVars, owner, reg, regLock, handle, wk, snap, token, try,
                 verdict, got, told>>

-----------------------------------------------------------------------------
(* The end of do_POST: a fresh claim is released on a known failure; the   *)
(* response carries the token unless it was released or never needed.      *)
ReleasesAnyones(r) == verdict[r] \notin {"ok", "unknown"}  \* mutant: no fresh_claim
Releases(r) == token[r] = r /\ verdict[r] \notin {"ok", "unknown"}

Respond(r) ==
  /\ pc[r] = "respond"
  /\ \/ /\ Releases(r)
        /\ owner' = [owner EXCEPT ![SessionOf[r]] = IF @ = token[r] THEN NoOne ELSE @]
        /\ \E end \in {"answered", "escaped"} : Goto(r, end)  \* _persist_locked raises
        /\ UNCHANGED told
     \/ /\ ~Releases(r)
        /\ told' = [told EXCEPT ![r] = verdict[r] # "capacity"]
        /\ Goto(r, "answered")
        /\ UNCHANGED owner
  /\ UNCHANGED <<workerVars, reg, regLock, handle, cmd, wk, snap, token, task,
                 try, verdict, got>>

Post(r) == Claim(r) \/ \E t \in KnownTokens \cup {NoOne} : Prove(r, t)

Serve(r) ==
  \/ Sweep(r) \/ KeepCandidate(r) \/ CloseCandidate(r) \/ Forget(r) \/ EndSweep(r)
  \/ GetExisting(r) \/ RefuseCapacity(r) \/ Spawn(r)
  \/ HelloAccepted(r) \/ HelloFails(r)
  \/ Enter(r) \/ Send(r) \/ ReadAnswer(r) \/ NoAnswer(r)
  \/ Stop(r) \/ Acknowledge(r) \/ NoAcknowledgement(r) \/ Reap(r) \/ Kill(r)
  \/ Drop(r) \/ Close(r) \/ Respond(r)

ProcessStep(w) == WorkerStep(w) /\ UNCHANGED <<shared, pc, wk, snap, thread>>

Next == \/ \E r \in Requests : Post(r) \/ Serve(r)
        \/ \E w \in Workers : ProcessStep(w)

Spec == Init /\ [][Next]_vars

(* A thread that can go on goes on, and a worker that was told to close    *)
(* does.  Nothing makes a worker boot or finish a turn: timeouts do that.  *)
Fairness == /\ \A r \in Requests : WF_vars(Serve(r))
            /\ \A w \in Workers : WF_vars(Leaving(w) /\ UNCHANGED <<shared, pc, wk, snap, thread>>)

FairSpec == Spec /\ Fairness

-----------------------------------------------------------------------------
(* A successful response carries the line the worker wrote for this very   *)
(* request: _request reads "the next line" and nothing in it says whose it *)
(* is, so a late line must never be left for the next request.             *)
AnsweredByOwnTurn ==
  \A r \in Requests : verdict[r] \in {"ok", "error"} => got[r].req = r

(* Two processes never run turns of one session at the same time: a worker *)
(* is only replaced when it can run no turn any more.                      *)
OneRunner ==
  \A w, v \in Workers :
    w # v /\ life[w] = "turn" /\ life[v] = "turn" => SessionOf[cur[w]] # SessionOf[cur[v]]

(* A worker process that runs is in the registry, or some thread has it in *)
(* hand and is going to stop it (SessionRegistry is the only way to it).   *)
NoOrphanWorker ==
  /\ TypeOK
  /\ \A w \in Workers : Running(w) =>
       \/ w \in Registered
       \/ \E r \in Requests :
            wk[r] = w /\ pc[r] \in {"hello", "drop", "close", "stop", "ack", "kill", "reap"}

(* Nobody can take a session over while a request that proved or claimed   *)
(* it is served: only its first claimer gives it back, and only as long as *)
(* no client was told the token.                                           *)
OwnershipHeld ==
  \A r \in Requests :
    token[r] # NoOne /\ pc[r] \notin {"answered", "escaped"} => owner[SessionOf[r]] = token[r]

(* Every turn request is run at most once, never after its response and    *)
(* never when the response says that it was refused (result_unknown false  *)
(* before the command was sent): the retry of dispatch_turn is for         *)
(* failures before the send only.                                          *)
Outcome == [r \in Requests |->
  CASE pc[r] = "escaped"  -> "lost"
    [] pc[r] = "answered" -> IF verdict[r] \in Refusals THEN "refused" ELSE verdict[r]
    [] OTHER -> "pending"]

Delivery == INSTANCE TurnDelivery WITH outcome <- Outcome
ImplementsDelivery == Delivery!Spec

(* No thread waits for ever on a lock, on a worker or on another thread    *)
(* (SessionRegistry._lock is held over a worker start, command_lock over a *)
(* turn and over a shutdown): each ends with a response or an exception.   *)
EveryRequestEnds ==
  \A r \in Requests : pc[r] # "idle" ~> pc[r] \in {"answered", "escaped"}

(* docs/worker_protocol_v1.md: "a fresh authenticated session claim is     *)
(* rolled back on first-turn failure".  Here: when the request that        *)
(* claimed the session ends without a response after a worker was started, *)
(* the session does not stay with a token nobody was told.                 *)
ClaimIsRolledBack ==
  \A r \in Requests :
    pc[r] = "escaped" /\ wk[r] # NoWorker => owner[SessionOf[r]] # r
=============================================================================
