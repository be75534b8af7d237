---------------------------- MODULE LearningJobs ----------------------------
(***************************************************************************)
(* The durable queue of the autonomous learning loop                       *)
(* (src/QxFx0/Learning/JobQueue.hs) with its users: the worker thread of   *)
(* every process (Learning/Autonomous.hs), which claims a request, asks    *)
(* the provider and stores the answer, and the threads that apply answers  *)
(* to the semantic graph (Runtime/Session/Autonomous.hs).                  *)
(*                                                                         *)
(* A database transaction is one action.  Time is left out: a lease may    *)
(* run out at any moment, a back-off or a cooldown only delays and is not  *)
(* modelled.  All processes serve one session.                             *)
(***************************************************************************)
EXTENDS Integers, Sequences, FiniteSetsExt

CONSTANTS Requests,     \* request ids, each enqueued at most once
          TopicOf,      \* request -> topic
          Procs,        \* processes that serve the session
          Appliers,     \* threads that apply updates: turns, apply loops
          Loops,        \* those of them that are apply loops
          HomeOf,       \* applier -> its process
          Parts,        \* the update events of one answer, 1..n
          Limit,        \* maxUpdatesPerTurn
          MaxAttempts,  \* max_attempts
          MaxMishaps,   \* bound on crashes, late appliers, denials, SQL errors
          NoRequest

ASSUME HomeOfAssumption == HomeOf \in [Appliers -> Procs]
ASSUME PartsAssumption == \E n \in 1..Limit : Parts = 1..n
ASSUME LimitAssumption == Limit \in Nat \ {0}
ASSUME MaxAttemptsAssumption == MaxAttempts \in Nat \ {0}
ASSUME MaxMishapsAssumption == MaxMishaps \in Nat
ASSUME NoRequestAssumption == NoRequest \notin Requests

VARIABLES
  job,      \* learning_jobs: request -> row
  applied,  \* how often each part of each answer was written to the graph
  pc,       \* a worker thread: where it is in its loop
  claim,    \* the claim it works on
  ready,    \* the answers it leased for the appliers,
  unsent,   \*   and those of them it has not passed on yet
  updates,  \* the update queue of a process
  batch,    \* the events an applier has taken from it
  asked,    \* how often the provider was asked for each request
  mishaps

table   == <<job, applied>>
worker  == <<pc, claim, ready, unsent>>
channel == <<updates, batch>>
vars    == <<table, worker, channel, asked, mishaps>>

(* Tokens are told apart by lease_generation; 0 stands for NULL. *)
Row == [state : {"none", "pending", "leased", "retry_scheduled",
                 "response_ready", "succeeded", "failed"},
        attempts : 0..MaxAttempts,
        lease : {"none", "live", "expired"},
        token : Nat,
        gen : Nat,
        active : BOOLEAN]      \* active_key is not NULL
NoRow == [state |-> "none", attempts |-> 0, lease |-> "none", token |-> 0,
          gen |-> 0, active |-> FALSE]

Grant   == [req : Requests, token : Nat]
NoClaim == [req |-> NoRequest, token |-> 0]
Event   == [req : Requests, token : Nat, part : Parts]

TypeOK ==
  /\ job \in [Requests -> Row]
  /\ applied \in [Requests -> [Parts -> Nat]]
  /\ pc \in [Procs -> {"loop", "claimed", "asking", "answered", "dispatching",
                       "handing", "dead", "down"}]
  /\ claim \in [Procs -> Grant \cup {NoClaim}]
  /\ ready \in [Procs -> SUBSET Grant]
  /\ unsent \in [Procs -> SUBSET Grant]
  /\ updates \in [Procs -> Seq(Event)]
  /\ batch \in [Appliers -> Seq(Event)]
  /\ asked \in [Requests -> Nat]
  /\ mishaps \in 0..MaxMishaps

Init ==
  /\ job = [r \in Requests |-> NoRow]
  /\ applied = [r \in Requests |-> [n \in Parts |-> 0]]
  /\ pc = [p \in Procs |-> "loop"]
  /\ claim = [p \in Procs |-> NoClaim]
  /\ ready = [p \in Procs |-> {}]
  /\ unsent = [p \in Procs |-> {}]
  /\ updates = [p \in Procs |-> <<>>]
  /\ batch = [a \in Appliers |-> <<>>]
  /\ asked = [r \in Requests |-> 0]
  /\ mishaps = 0

-----------------------------------------------------------------------------
(* What the UPDATE statements make of a row. *)
Unleased(j) == [j EXCEPT !.lease = "none", !.token = 0]
Leased(j)   == [j EXCEPT !.lease = "live", !.token = j.gen + 1, !.gen = @ + 1]

(* Mutant: a failed job keeps its active_key. *)
FailedKeepsKey(j) == [Unleased(j) EXCEPT !.state = "failed"]
Failed(j) == [Unleased(j) EXCEPT !.state = "failed", !.active = FALSE]

Rescheduled(j) == [Unleased(j) EXCEPT !.state = "retry_scheduled"]

Answered(j)  == [Unleased(j) EXCEPT !.state = "response_ready"]
Succeeded(j) == [Unleased(j) EXCEPT !.state = "succeeded", !.active = FALSE]

(* failExhaustedLearningLeases *)
Swept(j) ==
  IF j.state = "leased" /\ j.lease = "expired" /\ j.attempts >= MaxAttempts
    THEN Failed(j) ELSE j

(* Mutant: a lease that ran out is not claimed again. *)
ClaimableOnce(j) == j.attempts < MaxAttempts /\ j.state \in {"pending", "retry_scheduled"}
Claimable(j) ==
  /\ j.attempts < MaxAttempts
  /\ \/ j.state \in {"pending", "retry_scheduled"}
     \/ j.state = "leased" /\ j.lease = "expired"

(* Mutant: a worker ends whatever lease there is. *)
HoldsAnyLease(j, g) == j.state = "leased"
(* The worker lease g is the current one, run out or not. *)
Holds(j, g) == j.state = "leased" /\ j.token = g.token

(* The apply lease g is the current one. *)
Dispatched(j, g) == j.state = "response_ready" /\ j.token = g.token

(* Mutant: the lease of an answer that was passed on never runs out. *)
DispatchableOnce(j) == j.state = "response_ready" /\ j.lease = "none"
Dispatchable(j) == j.state = "response_ready" /\ j.lease # "live"

(* The rows after f was applied to the row of r. *)
With(r, j) == job' = [job EXCEPT ![r] = j]
SweepAll   == [r \in Requests |-> Swept(job[r])]
Released(gs) == [r \in Requests |->
  IF \E g \in gs : g.req = r /\ Dispatched(job[r], g) THEN Unleased(job[r]) ELSE job[r]]

Mishap == mishaps < MaxMishaps /\ mishaps' = mishaps + 1

(* The worker is at label with no claim and nothing to pass on. *)
Reset(p, label) ==
  /\ pc' = [pc EXCEPT ![p] = label]
  /\ claim' = [claim EXCEPT ![p] = NoClaim]
  /\ ready' = [ready EXCEPT ![p] = {}]
  /\ unsent' = [unsent EXCEPT ![p] = {}]

-----------------------------------------------------------------------------
(* enqueueLearningJobForSession: INSERT OR IGNORE, active_key is UNIQUE. *)
Enqueue(r) ==
  /\ job[r].state = "none"
  /\ \A q \in Requests : job[q].active => TopicOf[q] # TopicOf[r]
  /\ With(r, [NoRow EXCEPT !.state = "pending", !.active = TRUE])
  /\ UNCHANGED <<applied, worker, channel, asked, mishaps>>

(* loadRunnableLearningJobsForSession, and a claim that finds nothing. *)
Refill(p) ==
  /\ pc[p] = "loop"
  /\ job' = SweepAll
  /\ UNCHANGED <<applied, worker, channel, asked, mishaps>>

Claim(p, r) ==
  /\ pc[p] = "loop"
  /\ Claimable(job[r])
  /\ job' = [SweepAll EXCEPT ![r] =
       [Leased(job[r]) EXCEPT !.state = "leased", !.attempts = @ + 1]]
  /\ pc' = [pc EXCEPT ![p] = "claimed"]
  /\ claim' = [claim EXCEPT ![p] = [req |-> r, token |-> job[r].gen + 1]]
  /\ UNCHANGED <<applied, ready, unsent, channel, asked, mishaps>>

TakeBack(p) ==
  LET g == claim[p] IN
  /\ Mishap
  /\ IF Holds(job[g.req], g)
       THEN With(g.req, [Unleased(job[g.req]) EXCEPT
              !.state = "pending", !.attempts = IF @ > 0 THEN @ - 1 ELSE 0])
       ELSE UNCHANGED job
  /\ Reset(p, "loop")
  /\ UNCHANGED <<applied, channel, asked>>

(* Mutant: the attempt is taken back after the provider was asked. *)
ReleaseAfterAsking(p) == pc[p] \in {"claimed", "asking"} /\ TakeBack(p)
(* The quota is exhausted: releaseLearningJobClaim takes the attempt back. *)
Release(p) == pc[p] = "claimed" /\ TakeBack(p)

Ask(p) ==
  /\ pc[p] = "claimed"
  /\ asked' = [asked EXCEPT ![claim[p].req] = @ + 1]
  /\ pc' = [pc EXCEPT ![p] = "asking"]
  /\ UNCHANGED <<table, claim, ready, unsent, channel, mishaps>>

(* markLearningJobClaimFailed on the claim of p. *)
MarkFailed(p, retryable) ==
  LET g == claim[p] IN
  IF claim[p] # NoClaim /\ Holds(job[g.req], g)
    THEN With(g.req, IF retryable /\ job[g.req].attempts < MaxAttempts
                       THEN Rescheduled(job[g.req]) ELSE Failed(job[g.req]))
    ELSE UNCHANGED job

(* Untrusted topic, no transport, provider error or timeout: a stale       *)
(* worker changes nothing.                                                 *)
Fail(p) ==
  /\ \/ pc[p] = "claimed" /\ MarkFailed(p, FALSE)
     \/ pc[p] = "asking" /\ \E retryable \in BOOLEAN : MarkFailed(p, retryable)
  /\ Reset(p, "loop")
  /\ UNCHANGED <<applied, channel, asked, mishaps>>

(* The wrong language, or no candidate passes the preflight: terminal. *)
RejectAnswer(p) ==
  /\ pc[p] = "asking"
  /\ MarkFailed(p, FALSE)
  /\ Reset(p, "loop")
  /\ UNCHANGED <<applied, channel, asked, mishaps>>

(* persistWorkerResult; a stale lease rolls everything back. *)
Respond(p) ==
  LET g == claim[p] IN
  /\ pc[p] = "asking"
  /\ IF Holds(job[g.req], g)
       THEN With(g.req, Answered(job[g.req])) /\ Reset(p, "answered")
       ELSE UNCHANGED job /\ Reset(p, "loop")
  /\ UNCHANGED <<applied, channel, asked, mishaps>>

(* The task ends with an exception (a failed transaction, an answer above  *)
(* the payload limit): the lease stays until it runs out.                  *)
LoseClaim(p) ==
  /\ pc[p] \in {"claimed", "asking", "answered"}
  /\ Reset(p, "loop")
  /\ UNCHANGED <<table, channel, asked, mishaps>>

-----------------------------------------------------------------------------
(* dispatchReadyBroad, at the top of the loop or after an own answer:      *)
(* claimLearningReadyPayloadsForSession leases all that is ready.          *)
Dispatch(p) ==
  LET R == {r \in Requests : Dispatchable(job[r])}
      G == {[req |-> r, token |-> job[r].gen + 1] : r \in R} IN
  /\ pc[p] \in {"loop", "answered"}
  /\ R # {}
  /\ job' = [r \in Requests |-> IF r \in R THEN Leased(job[r]) ELSE job[r]]
  /\ ready' = [ready EXCEPT ![p] = G]
  /\ unsent' = [unsent EXCEPT ![p] = G]
  /\ pc' = [pc EXCEPT ![p] = IF @ = "loop" THEN "dispatching" ELSE "handing"]
  /\ UNCHANGED <<applied, claim, channel, asked, mishaps>>

NothingReady(p) ==
  /\ pc[p] = "answered"
  /\ \A r \in Requests : ~Dispatchable(job[r])
  /\ Reset(p, "loop")
  /\ UNCHANGED <<table, channel, asked, mishaps>>

RejectPayload(g) ==
  IF Dispatched(job[g.req], g) THEN With(g.req, Failed(job[g.req])) ELSE UNCHANGED job

(* One STM transaction writes the events of an answer; a payload that      *)
(* cannot be read is rejected instead.                                     *)
HandOver(p) ==
  /\ pc[p] \in {"dispatching", "handing"}
  /\ \E g \in unsent[p] :
       /\ \/ /\ updates' = [updates EXCEPT ![p] = @ \o
                  [n \in Parts |-> [req |-> g.req, token |-> g.token, part |-> n]]]
             /\ UNCHANGED job
          \/ RejectPayload(g) /\ UNCHANGED updates
       /\ unsent' = [unsent EXCEPT ![p] = @ \ {g}]
  /\ UNCHANGED <<applied, pc, claim, ready, batch, asked, mishaps>>

HandedOver(p) ==
  /\ pc[p] \in {"dispatching", "handing"}
  /\ unsent[p] = {}
  /\ Reset(p, "loop")
  /\ UNCHANGED <<table, channel, asked, mishaps>>

(* An SQL error.  In a task it is caught by the loop; at the top of the    *)
(* loop it ends the thread.  What was leased is released, also what has    *)
(* been passed on, unless the release fails as well.                       *)
DispatchFails(p) ==
  /\ pc[p] \in {"loop", "answered", "dispatching", "handing"}
  /\ Mishap
  /\ job' \in {job, Released(ready[p])}
  /\ Reset(p, IF pc[p] \in {"loop", "dispatching"} THEN "dead" ELSE "loop")
  /\ UNCHANGED <<applied, channel, asked>>

(* stopManagedWorker: the claim is marked failed, leases are released. *)
Cancel(p) ==
  /\ pc[p] \notin {"dead", "down"}
  /\ Mishap
  /\ IF pc[p] \in {"claimed", "asking"} THEN MarkFailed(p, TRUE)
                                        ELSE job' = Released(ready[p])
  /\ Reset(p, "down")
  /\ UNCHANGED <<applied, channel, asked>>

-----------------------------------------------------------------------------
(* takeUpdateBatch: at most Limit events, and none of an answer whose      *)
(* events would not all fit.                                               *)
Crossing(q) == {i \in 1..Limit : \E k \in Limit + 1..Len(q) :
  i <= Len(q) /\ q[i].req = q[k].req /\ q[i].token = q[k].token}
(* Mutant: an answer is cut where the limit falls. *)
TakenAtLimit(q) == Min({Limit, Len(q)})
Taken(q) == Min({Limit, Len(q)} \cup {i - 1 : i \in Crossing(q)})

Take(a) ==
  LET q == updates[HomeOf[a]]
      n == Taken(q) IN
  /\ batch[a] = <<>>
  /\ n > 0
  /\ batch' = [batch EXCEPT ![a] = SubSeq(q, 1, n)]
  /\ updates' = [updates EXCEPT ![HomeOf[a]] = SubSeq(q, n + 1, Len(q))]
  /\ UNCHANGED <<table, worker, asked, mishaps>>

Grants(q) == {[req |-> q[i].req, token |-> q[i].token] : i \in 1..Len(q)}
Count(q, r, n) == Cardinality({i \in 1..Len(q) : q[i].req = r /\ q[i].part = n})

(* learningApplyJobs and authorizeLearningJobsApplyOnConnection: one token *)
(* per request, and it is that of a live lease.                            *)
Authorized(q) ==
  \A g \in Grants(q) :
    /\ Dispatched(job[g.req], g) /\ job[g.req].lease = "live"
    /\ \A h \in Grants(q) : h.req = g.req => h = g

(* persistAutonomousApplyPlan: graph and job rows in one transaction.  If  *)
(* one event is not authorized the whole batch is gone.                    *)
Apply(a) ==
  LET q == batch[a] IN
  /\ q # <<>>
  /\ IF Authorized(q)
       THEN /\ job' = [r \in Requests |->
                 IF \E g \in Grants(q) : g.req = r
                   THEN Succeeded(job[r]) ELSE job[r]]
            /\ applied' = [r \in Requests |->
                 [n \in Parts |-> applied[r][n] + Count(q, r, n)]]
       ELSE UNCHANGED table
  /\ batch' = [batch EXCEPT ![a] = <<>>]
  /\ UNCHANGED <<worker, updates, asked, mishaps>>

(* The transaction fails: the leases stay.  The thread is killed: its      *)
(* leases are released, unless the kill came before the apply began.       *)
ApplyFails(a) ==
  /\ batch[a] # <<>>
  /\ Mishap
  /\ job' \in {job, Released(Grants(batch[a]))}
  /\ batch' = [batch EXCEPT ![a] = <<>>]
  /\ UNCHANGED <<applied, worker, updates, asked>>

-----------------------------------------------------------------------------
(* A thread of some process still means to use the current lease of r. *)
InUse(r) ==
  LET g == [req |-> r, token |-> job[r].token] IN
  \/ \E p \in Procs : g = claim[p] \/ g \in unsent[p] \/ g \in Grants(updates[p])
  \/ \E a \in Appliers : g \in Grants(batch[a])

RunOut(r) ==
  /\ job[r].lease = "live"
  /\ With(r, [job[r] EXCEPT !.lease = "expired"])
  /\ UNCHANGED <<applied, worker, channel, asked>>

(* A lease runs out with nobody left, or under a thread that is late.  A   *)
(* late worker is bounded by the attempts of its job.  Late appliers are   *)
(* bounded by MaxMishaps only, for the sake of TLC: without an apply loop  *)
(* the next turn may come after every lease (120 s), again and again.      *)
RunOutUnused(r) == ~InUse(r) /\ UNCHANGED mishaps /\ RunOut(r)
RunOutInUse(r) ==
  /\ InUse(r)
  /\ IF job[r].state = "leased" THEN UNCHANGED mishaps ELSE Mishap
  /\ RunOut(r)

Crash(p) ==
  /\ Mishap
  /\ Reset(p, "down")
  /\ updates' = [updates EXCEPT ![p] = <<>>]
  /\ batch' = [a \in Appliers |-> IF HomeOf[a] = p THEN <<>> ELSE batch[a]]
  /\ UNCHANGED <<table, asked>>

(* newPersistentLearningQueueForSession in a new process. *)
Boot(p) ==
  /\ pc[p] \in {"dead", "down"}
  /\ job' = SweepAll
  /\ Reset(p, "loop")
  /\ updates' = [updates EXCEPT ![p] = <<>>]
  /\ batch' = [a \in Appliers |-> IF HomeOf[a] = p THEN <<>> ELSE batch[a]]
  /\ UNCHANGED <<applied, asked, mishaps>>

Work(p) ==
  \/ Refill(p) \/ (\E r \in Requests : Claim(p, r)) \/ Release(p) \/ Ask(p)
  \/ Fail(p) \/ RejectAnswer(p) \/ Respond(p) \/ LoseClaim(p)
  \/ Dispatch(p) \/ NothingReady(p) \/ HandOver(p) \/ HandedOver(p)

Next ==
  \/ \E r \in Requests : Enqueue(r) \/ RunOutInUse(r) \/ RunOutUnused(r)
  \/ \E p \in Procs : Work(p) \/ DispatchFails(p) \/ Cancel(p) \/ Crash(p) \/ Boot(p)
  \/ \E a \in Appliers : Take(a) \/ Apply(a) \/ ApplyFails(a)

Spec == Init /\ [][Next]_vars

(* The thread of a worker runs, the provider answers or times out, and a   *)
(* lease nobody uses runs out.  Nothing is fair about appliers: a turn     *)
(* comes when the user speaks.                                             *)
Fairness ==
  /\ \A p \in Procs : WF_vars(Work(p))
  /\ \A r \in Requests : WF_vars(RunOutUnused(r))

FairSpec == Spec /\ Fairness

-----------------------------------------------------------------------------
(* The parts of an answer are in the graph exactly once when its job has   *)
(* succeeded and not at all otherwise, whoever retried, re-dispatched or   *)
(* applied late ("a stale queued delivery rolls back the graph mutation",  *)
(* JobQueue.hs:298; takeUpdateBatch never splits an answer).               *)
AppliedExactlyOnce ==
  /\ TypeOK
  /\ \A r \in Requests, n \in Parts :
       applied[r][n] = IF job[r].state = "succeeded" THEN 1 ELSE 0

(* Every question to the provider was paid for with an attempt, so a job   *)
(* asks at most max_attempts times although a refused quota takes its      *)
(* attempt back (releaseLearningJobClaim).                                 *)
QuestionsArePaid ==
  \A r \in Requests : asked[r] <= job[r].attempts /\ job[r].attempts <= MaxAttempts

(* A finished job gives its topic back, an unfinished one keeps it: with   *)
(* active_key left behind no job of the topic could be enqueued again.     *)
TopicIsFreed ==
  \A r \in Requests :
    job[r].active <=> job[r].state \notin {"none", "succeeded", "failed"}

(* Before it has run out a lease is ended by the thread it was granted to  *)
(* and by nobody else: a worker, dispatcher or applier that was too slow   *)
(* cannot take the job from its successor (test "broad claim is atomic and *)
(* stale tokens are rejected", and the tokens of both lease kinds).        *)
EndsLease(r) == job[r].lease = "live" /\ job'[r].token # job[r].token
LiveLeaseIsHoldersOwn ==
  [][\A r \in Requests : EndsLease(r) =>
       LET g == [req |-> r, token |-> job[r].token] IN
       \/ \E p \in Procs : claim[p] = g /\ claim'[p] # g
       \/ \E p \in Procs : g \in ready[p] /\ (g \notin ready'[p] \/ g \in unsent[p] \ unsent'[p])
       \/ \E a \in Appliers : g \in Grants(batch[a]) /\ batch'[a] = <<>>]_vars

(* The queue implements the life of a request: no step of a stale worker,  *)
(* dispatcher or applier takes a request back, answers it twice or puts    *)
(* half of its answer into the graph.                                      *)
Phase == [r \in Requests |->
  CASE job[r].state \in {"pending", "leased", "retry_scheduled"} -> "open"
    [] job[r].state = "response_ready" -> "answered"
    [] OTHER -> job[r].state]
Graph == {e \in Requests \X Parts : applied[e[1]][e[2]] > 0}

Life == INSTANCE JobLife WITH phase <- Phase, graph <- Graph
ImplementsJobLife == Life!Spec

(* A session that ended is opened again.                                   *)
Reopened == \A p \in Procs : WF_vars(Boot(p))

(* Every request that was accepted is answered or fails, whatever becomes  *)
(* of the answers and without any turn: lost claims, leases that run out   *)
(* under the worker and other workers cost attempts, and the last one ends *)
(* in the sweep.                                                           *)
EveryRequestIsAnswered ==
  Reopened =>
    \A r \in Requests :
      job[r].state # "none" ~> job[r].state \in {"response_ready", "succeeded", "failed"}

(* An apply loop drains the queue (every 5 s at most), no turn stops with  *)
(* a batch in its hands, and from some time on no lease runs out before    *)
(* its answer has been applied.                                            *)
AppliedInTime ==
  /\ \A a \in Loops : WF_vars(Take(a))
  /\ \A a \in Appliers : WF_vars(Apply(a))
  /\ <>[][\A r \in Requests : ~RunOutInUse(r)]_vars

(* With apply loops that are in time every request ends: an answer whose   *)
(* batch was lost, discarded with a stale copy or rolled back is passed on *)
(* again ("lease expiry re-dispatches the stored payload without another   *)
(* provider request", Session/Autonomous.hs:383).  Not so without a loop:  *)
(* turns slower than the lease discard the copies for ever.                *)
EveryJobEnds ==
  (Reopened /\ AppliedInTime) =>
    \A r \in Requests : job[r].state # "none" ~> job[r].state \in {"succeeded", "failed"}
=============================================================================
