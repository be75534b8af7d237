------------------------- MODULE LearningJobsProofs -------------------------
(***************************************************************************)
(* Proofs about LearningJobs, for all requests, topics, processes and      *)
(* appliers, any number of parts within the limit and any bounds.          *)
(*                                                                         *)
(* Three invariants: what a row and a worker may look like; how many       *)
(* questions an attempt covers; that the update queues hold whole answers, *)
(* each of them once and in one piece.  From the last one follows what an  *)
(* apply does to the graph, and the refinement of JobLife.                 *)
(***************************************************************************)
EXTENDS LearningJobs, SequenceTheorems, FiniteSetTheorems, WellFoundedInduction, TLAPS

-----------------------------------------------------------------------------
(* Of a row, of a worker. *)
Finished == {"succeeded", "failed"}

RowOK(j) ==
  /\ j.state = "none" => j = NoRow
  /\ j.lease # "none" => j.state \in {"leased", "response_ready"}
  /\ j.active <=> j.state \notin {"none"} \cup Finished

WorkInv ==
  /\ TypeOK
  /\ \A r \in Requests : RowOK(job[r])
  /\ \A p \in Procs : /\ pc[p] \in {"claimed", "asking"} => claim[p] \in Grant
                      /\ unsent[p] \subseteq ready[p]

(* Of questions: who has a claim and has not asked yet. *)
Unasked(r) == {p \in Procs : pc[p] = "claimed" /\ claim[p].req = r}

AskInv ==
  \A r \in Requests :
    /\ IsFiniteSet(Unasked(r))
    /\ asked[r] + Cardinality(Unasked(r)) <= job[r].attempts

(* Of the queues: the events of an answer are there all or not at all,     *)
(* each once, and next to each other.                                      *)
SameAnswer(q, i, k) == q[i].req = q[k].req /\ q[i].token = q[k].token
Whole(q) ==
  /\ \A i \in 1..Len(q), n \in Parts : \E k \in 1..Len(q) : SameAnswer(q, i, k) /\ q[k].part = n
  /\ \A i, k \in 1..Len(q) : SameAnswer(q, i, k) /\ q[i].part = q[k].part => i = k
Grouped(q) ==
  \A i, k \in 1..Len(q) : SameAnswer(q, i, k) => \A c \in i..k : SameAnswer(q, i, c)

QueueInv ==
  /\ \A p \in Procs :
       /\ Whole(updates[p]) /\ Grouped(updates[p])
       /\ unsent[p] \cap Grants(updates[p]) = {}
       /\ \A g \in unsent[p] \cup Grants(updates[p]) : g.token <= job[g.req].gen
  /\ \A a \in Appliers : Whole(batch[a])

(* Of the graph. *)
GraphInv ==
  \A r \in Requests, n \in Parts :
    applied[r][n] = IF job[r].state = "succeeded" THEN 1 ELSE 0

-----------------------------------------------------------------------------
(* What a transaction other than an apply makes of a row.                  *)
Quiet(j, k) ==
  \/ k = j
  \/ j.state = "leased" /\ k \in {Failed(j), Rescheduled(j)}
  \/ j.state = "response_ready" /\ k \in {Failed(j), Unleased(j), Leased(j)}
  \/ j.lease = "live" /\ k = [j EXCEPT !.lease = "expired"]
Steady(j, k) ==
  \/ Quiet(j, k)
  \/ j.state = "none" /\ k = [NoRow EXCEPT !.state = "pending", !.active = TRUE]
  \/ j.state = "leased" /\ k = Answered(j)
Claimed(j, k) ==
  /\ Claimable(j)
  /\ k = [Leased(j) EXCEPT !.state = "leased", !.attempts = @ + 1]
TakenBack(j, k) ==
  /\ j.state = "leased"
  /\ k = [Unleased(j) EXCEPT !.state = "pending", !.attempts = IF @ > 0 THEN @ - 1 ELSE 0]

RowStep(j, k) ==
  /\ k \in Row /\ RowOK(k)
  /\ j.gen <= k.gen
  /\ j.state = "succeeded" <=> k.state = "succeeded"

LEMMA UnleasedFields ==
  ASSUME NEW j \in Row
  PROVE  /\ Unleased(j) \in Row
         /\ Unleased(j).state = j.state /\ Unleased(j).attempts = j.attempts
         /\ Unleased(j).lease = "none" /\ Unleased(j).token = 0
         /\ Unleased(j).gen = j.gen /\ Unleased(j).active = j.active
  BY DEF Row, Unleased

LEMMA LeasedFields ==
  ASSUME NEW j \in Row
  PROVE  /\ Leased(j) \in Row
         /\ Leased(j).state = j.state /\ Leased(j).attempts = j.attempts
         /\ Leased(j).lease = "live" /\ Leased(j).token = j.gen + 1
         /\ Leased(j).gen = j.gen + 1 /\ Leased(j).active = j.active
<1>1. j.gen + 1 \in Nat
  BY DEF Row
<1> DEFINE n == j.gen + 1
<1>2. Leased(j) = [j EXCEPT !.lease = "live", !.token = n, !.gen = n]
  BY DEF Leased
<1> HIDE DEF n
<1>3. [j EXCEPT !.lease = "live", !.token = n, !.gen = n] \in Row
  BY <1>1 DEF Row, n
<1>4. Leased(j).state = j.state /\ Leased(j).attempts = j.attempts /\ Leased(j).active = j.active
  BY <1>2 DEF Row
<1>5. Leased(j).lease = "live" /\ Leased(j).token = n /\ Leased(j).gen = n
  BY <1>2 DEF Row
<1> QED BY <1>2, <1>3, <1>4, <1>5 DEF n

LEMMA FailedFields ==
  ASSUME NEW j \in Row
  PROVE  /\ Failed(j) \in Row
         /\ Failed(j).state = "failed" /\ Failed(j).attempts = j.attempts
         /\ Failed(j).lease = "none" /\ Failed(j).gen = j.gen /\ ~Failed(j).active
<1>1. Failed(j) \in Row
  BY UnleasedFields DEF Row, Failed
<1>2. /\ Failed(j).state = "failed" /\ Failed(j).attempts = j.attempts
      /\ Failed(j).lease = "none" /\ Failed(j).gen = j.gen /\ ~Failed(j).active
  BY UnleasedFields DEF Row, Failed
<1> QED BY <1>1, <1>2

LEMMA SucceededFields ==
  ASSUME NEW j \in Row
  PROVE  /\ Succeeded(j) \in Row
         /\ Succeeded(j).state = "succeeded" /\ Succeeded(j).attempts = j.attempts
         /\ Succeeded(j).lease = "none" /\ Succeeded(j).gen = j.gen /\ ~Succeeded(j).active
<1>1. Succeeded(j) \in Row
  BY UnleasedFields DEF Row, Succeeded
<1>2. /\ Succeeded(j).state = "succeeded" /\ Succeeded(j).attempts = j.attempts
      /\ Succeeded(j).lease = "none" /\ Succeeded(j).gen = j.gen /\ ~Succeeded(j).active
  BY UnleasedFields DEF Row, Succeeded
<1> QED BY <1>1, <1>2

LEMMA MovedFields ==
  ASSUME NEW j \in Row, NEW k, NEW s \in {"retry_scheduled", "response_ready"}, NEW u \in Row,
         u = Unleased(j), k = [u EXCEPT !.state = s]
  PROVE  /\ k \in Row
         /\ k.state = s /\ k.attempts = j.attempts /\ k.lease = "none" /\ k.gen = j.gen
         /\ k.active = j.active
<1>1. k \in Row /\ k.attempts = u.attempts /\ k.lease = u.lease /\ k.gen = u.gen /\ k.active = u.active
  BY DEF Row
<1>2. k.state = s
  BY DEF Row
<1> QED BY <1>1, <1>2, UnleasedFields

LEMMA SteadyRow ==
  ASSUME NEW j \in Row, RowOK(j), NEW k, Steady(j, k)
  PROVE  RowStep(j, k) /\ k.attempts = j.attempts
<1>1. j.gen \in Nat /\ j.attempts \in Nat
  BY MaxAttemptsAssumption DEF Row
<1>2. CASE k = j
  BY <1>1, <1>2 DEF RowStep
<1>3. CASE j.state = "none" /\ k = [NoRow EXCEPT !.state = "pending", !.active = TRUE]
  <2>1. /\ k = [state |-> "pending", attempts |-> 0, lease |-> "none", token |-> 0,
                gen |-> 0, active |-> TRUE]
        /\ j = NoRow
    BY <1>3 DEF NoRow, RowOK
  <2>2. k \in Row
    BY <2>1, MaxAttemptsAssumption DEF Row
  <2>3. /\ k.state = "pending" /\ k.attempts = 0 /\ k.lease = "none" /\ k.gen = 0 /\ k.active = TRUE
        /\ j.gen = 0 /\ j.attempts = 0 /\ j.state = "none"
    BY <2>1 DEF NoRow
  <2>4. RowOK(k)
    BY <2>3 DEF RowOK, Finished
  <2> QED BY <2>2, <2>3, <2>4 DEF RowStep
<1>4. CASE j.state \in {"leased", "response_ready"} /\ k = Failed(j)
  <2>1. /\ k \in Row /\ k.state = "failed" /\ k.attempts = j.attempts
        /\ k.lease = "none" /\ k.gen = j.gen /\ ~k.active
    BY <1>4, FailedFields
  <2> QED BY <1>1, <1>4, <2>1 DEF RowStep, RowOK, Finished
<1>5. CASE j.state = "leased" /\ k \in {Rescheduled(j), Answered(j)}
  <2>1. PICK s \in {"retry_scheduled", "response_ready"} : k = [Unleased(j) EXCEPT !.state = s]
    BY <1>5 DEF Rescheduled, Answered
  <2>2. /\ k \in Row /\ k.state = s /\ k.attempts = j.attempts
        /\ k.lease = "none" /\ k.gen = j.gen /\ k.active = j.active
    BY <2>1, MovedFields, UnleasedFields
  <2> QED BY <1>1, <1>5, <2>2 DEF RowStep, RowOK, Finished
<1>6. CASE j.state = "response_ready" /\ k \in {Unleased(j), Leased(j)}
  <2>1. /\ k \in Row /\ k.state = j.state /\ k.attempts = j.attempts
        /\ k.active = j.active /\ k.gen \in {j.gen, j.gen + 1}
    BY <1>6, UnleasedFields, LeasedFields
  <2> QED BY <1>1, <1>6, <2>1 DEF RowStep, RowOK, Finished
<1>7. CASE j.lease = "live" /\ k = [j EXCEPT !.lease = "expired"]
  <2>1. k \in Row
    BY <1>7 DEF Row
  <2>2. k.state = j.state /\ k.attempts = j.attempts /\ k.active = j.active /\ k.gen = j.gen
    BY <1>7 DEF Row
  <2> QED BY <1>1, <1>7, <2>1, <2>2 DEF RowStep, RowOK, Finished
<1> QED BY <1>2, <1>3, <1>4, <1>5, <1>6, <1>7 DEF Steady, Quiet

LEMMA ClaimedRow ==
  ASSUME NEW j \in Row, RowOK(j), NEW k, Claimed(j, k)
  PROVE  RowStep(j, k) /\ k.attempts = j.attempts + 1 /\ k.gen = j.gen + 1
<1>1. PICK u \in Row : u = Leased(j)
  BY LeasedFields
<1>2. u.attempts = j.attempts /\ u.gen = j.gen + 1 /\ u.active = j.active
  BY <1>1, LeasedFields
<1>3. /\ j.gen \in Nat /\ j.attempts + 1 \in 0..MaxAttempts
      /\ j.state \in {"pending", "retry_scheduled", "leased"}
  BY MaxAttemptsAssumption DEF Claimed, Claimable, Row
<1>4. k = [u EXCEPT !.state = "leased", !.attempts = j.attempts + 1]
  BY <1>1, <1>2 DEF Claimed, Row
<1>5. k \in Row
  BY <1>3, <1>4 DEF Row
<1>6. k.state = "leased" /\ k.attempts = j.attempts + 1 /\ k.gen = u.gen /\ k.active = u.active
  BY <1>4 DEF Row
<1> QED BY <1>2, <1>3, <1>5, <1>6 DEF RowStep, RowOK, Finished

LEMMA TakenBackRow ==
  ASSUME NEW j \in Row, RowOK(j), NEW k, TakenBack(j, k)
  PROVE  RowStep(j, k) /\ k.attempts >= j.attempts - 1
<1>1. PICK u \in Row : u = Unleased(j)
  BY UnleasedFields
<1>2. u.attempts = j.attempts /\ u.lease = "none" /\ u.gen = j.gen /\ u.active = j.active
  BY <1>1, UnleasedFields
<1> DEFINE n == IF j.attempts > 0 THEN j.attempts - 1 ELSE 0
<1>3. n \in 0..MaxAttempts /\ n >= j.attempts - 1 /\ j.gen \in Nat
  BY MaxAttemptsAssumption DEF Row
<1>4. k = [u EXCEPT !.state = "pending", !.attempts = n]
  BY <1>1, <1>2 DEF TakenBack, Row
<1> HIDE DEF n
<1>5. k \in Row
  BY <1>3, <1>4 DEF Row
<1>6. k.state = "pending" /\ k.attempts = n /\ k.lease = u.lease /\ k.gen = u.gen /\ k.active = u.active
  BY <1>4 DEF Row
<1>7. j.state = "leased"
  BY DEF TakenBack
<1> QED BY <1>2, <1>3, <1>5, <1>6, <1>7 DEF RowStep, RowOK, Finished

(* The table: every row makes a step. *)
JobSteady ==
  /\ job' = [r \in Requests |-> job'[r]]
  /\ \A r \in Requests : Steady(job[r], job'[r])
JobSteps ==
  /\ job' = [r \in Requests |-> job'[r]]
  /\ \A r \in Requests : RowStep(job[r], job'[r])

LEMMA SteadySteps == ASSUME WorkInv, JobSteady PROVE JobSteps
  BY SteadyRow DEF WorkInv, TypeOK, JobSteady, JobSteps

JobQuiet ==
  /\ job' = [r \in Requests |-> job'[r]]
  /\ \A r \in Requests : Quiet(job[r], job'[r])

LEMMA QuietSteady == JobQuiet => JobSteady
  BY DEF JobQuiet, JobSteady, Steady

LEMMA OneQuiet ==
  ASSUME TypeOK, NEW r \in Requests, NEW k, Quiet(job[r], k), With(r, k) \/ UNCHANGED job
  PROVE  JobQuiet
  BY DEF TypeOK, With, JobQuiet, Quiet

LEMMA OneSteady ==
  ASSUME TypeOK, NEW r \in Requests, NEW k, Steady(job[r], k), With(r, k) \/ UNCHANGED job
  PROVE  JobSteady
  BY DEF TypeOK, With, JobSteady, Steady, Quiet

LEMMA SweepQuiet == ASSUME TypeOK PROVE \A r \in Requests : Quiet(job[r], Swept(job[r]))
  BY DEF Swept, Quiet

LEMMA ReleasedQuiet ==
  ASSUME TypeOK, NEW gs, job' \in {job, Released(gs)} PROVE JobQuiet
  BY DEF TypeOK, JobQuiet, Quiet, Released, Dispatched

LEMMA MarkQuiet ==
  ASSUME TypeOK, NEW p \in Procs, NEW retryable, MarkFailed(p, retryable) PROVE JobQuiet
<1>1. CASE claim[p] # NoClaim /\ Holds(job[claim[p].req], claim[p])
  <2>1. claim[p].req \in Requests
    BY <1>1 DEF TypeOK, Grant
  <2>2. Quiet(job[claim[p].req], Failed(job[claim[p].req]))
        /\ Quiet(job[claim[p].req], Rescheduled(job[claim[p].req]))
    BY <1>1 DEF Holds, Quiet
  <2> QED BY <1>1, <2>1, <2>2, OneQuiet DEF MarkFailed
<1>2. CASE ~(claim[p] # NoClaim /\ Holds(job[claim[p].req], claim[p]))
  BY <1>2 DEF MarkFailed, TypeOK, JobQuiet, Quiet
<1> QED BY <1>1, <1>2

LEMMA SameQuiet == ASSUME TypeOK, UNCHANGED job PROVE JobQuiet
  BY DEF TypeOK, JobQuiet, Quiet

(* The steps that neither claim a request, take an attempt back nor apply. *)
PlainOfWorker(p) ==
  \/ Refill(p) \/ Ask(p) \/ Fail(p) \/ RejectAnswer(p) \/ LoseClaim(p)
  \/ Dispatch(p) \/ NothingReady(p) \/ HandOver(p) \/ HandedOver(p)
  \/ DispatchFails(p) \/ Cancel(p) \/ Crash(p) \/ Boot(p)
PlainRest ==
  \/ \E r \in Requests : RunOutInUse(r) \/ RunOutUnused(r)
  \/ \E p \in Procs : PlainOfWorker(p)
  \/ \E a \in Appliers : Take(a) \/ ApplyFails(a) \/ (Apply(a) /\ ~Authorized(batch[a]))
  \/ UNCHANGED vars
Plain ==
  \/ \E r \in Requests : Enqueue(r)
  \/ \E p \in Procs : Respond(p)
  \/ PlainRest

LEMMA PlainRestQuiet == ASSUME WorkInv, PlainRest PROVE JobQuiet
<1>0. TypeOK
  BY DEF WorkInv
<1>1. ASSUME NEW r \in Requests, RunOutInUse(r) \/ RunOutUnused(r)
      PROVE  JobQuiet
  BY <1>0, <1>1, OneQuiet DEF RunOutInUse, RunOutUnused, RunOut, Quiet
<1>2. ASSUME NEW p \in Procs,
             Ask(p) \/ LoseClaim(p) \/ NothingReady(p) \/ HandedOver(p) \/ Crash(p)
      PROVE  JobQuiet
  BY <1>0, <1>2, SameQuiet DEF Ask, LoseClaim, NothingReady, HandedOver, Crash, table
<1>3. ASSUME NEW p \in Procs, Refill(p) \/ Boot(p)
      PROVE  JobQuiet
  BY <1>0, <1>3, SweepQuiet DEF Refill, Boot, SweepAll, JobQuiet
<1>4. ASSUME NEW p \in Procs, Fail(p) \/ RejectAnswer(p)
      PROVE  JobQuiet
  BY <1>0, <1>4, MarkQuiet DEF Fail, RejectAnswer
<1>6. ASSUME NEW p \in Procs, Dispatch(p)
      PROVE  JobQuiet
  BY <1>0, <1>6 DEF Dispatch, Dispatchable, JobQuiet, Quiet
<1>7. ASSUME NEW p \in Procs, HandOver(p)
      PROVE  JobQuiet
  <2>1. PICK g \in unsent[p] : UNCHANGED job \/ RejectPayload(g)
    BY <1>7 DEF HandOver
  <2>2. g.req \in Requests
    BY <1>0 DEF TypeOK, Grant
  <2>3. Dispatched(job[g.req], g) => Quiet(job[g.req], Failed(job[g.req]))
    BY DEF Dispatched, Quiet
  <2> QED BY <1>0, <2>1, <2>2, <2>3, OneQuiet, SameQuiet DEF RejectPayload
<1>8. ASSUME NEW p \in Procs, DispatchFails(p) \/ Cancel(p)
      PROVE  JobQuiet
  <2>1. job' \in {job, Released(ready[p])} \/ MarkFailed(p, TRUE)
    BY <1>8 DEF DispatchFails, Cancel
  <2>2. CASE job' \in {job, Released(ready[p])}
    BY <1>0, <2>2, ReleasedQuiet
  <2>3. CASE MarkFailed(p, TRUE)
    BY <1>0, <2>3, MarkQuiet
  <2> QED BY <2>1, <2>2, <2>3
<1>9. ASSUME NEW a \in Appliers, Take(a) \/ ApplyFails(a) \/ (Apply(a) /\ ~Authorized(batch[a]))
      PROVE  JobQuiet
  BY <1>0, <1>9, ReleasedQuiet, SameQuiet DEF Take, ApplyFails, Apply, table
<1>10. CASE UNCHANGED vars
  BY <1>0, <1>10, SameQuiet DEF vars, table
<1> QED BY <1>1, <1>2, <1>3, <1>4, <1>6, <1>7, <1>8, <1>9, <1>10 DEF PlainRest, PlainOfWorker

LEMMA PlainSteady == ASSUME WorkInv, Plain PROVE JobSteady
<1>0. TypeOK
  BY DEF WorkInv
<1>1. ASSUME NEW r \in Requests, Enqueue(r)
      PROVE  JobSteady
  BY <1>0, <1>1, OneSteady DEF Enqueue, Steady
<1>2. ASSUME NEW p \in Procs, Respond(p)
      PROVE  JobSteady
  <2>1. claim[p].req \in Requests
    BY <1>2 DEF Respond, WorkInv, Grant
  <2>2. Holds(job[claim[p].req], claim[p]) => Steady(job[claim[p].req], Answered(job[claim[p].req]))
    BY DEF Holds, Steady
  <2> QED BY <1>0, <1>2, <2>1, <2>2, OneSteady, SameQuiet, QuietSteady DEF Respond
<1> QED BY <1>1, <1>2, PlainRestQuiet, QuietSteady DEF Plain

(* An apply that was authorized. *)
Applies(a) == Apply(a) /\ batch[a] # <<>> /\ Authorized(batch[a])

LEMMA NextKinds ==
  ASSUME [Next]_vars
  PROVE  \/ Plain
         \/ \E p \in Procs : Release(p) \/ \E r \in Requests : Claim(p, r)
         \/ \E a \in Appliers : Applies(a)
  BY DEF Next, Work, Plain, PlainRest, PlainOfWorker, Applies, Apply

(* What an authorized apply makes of the table. *)
InGrants(q, r) == \E g \in Grants(q) : g.req = r
LEMMA AppliesRows ==
  ASSUME WorkInv, NEW a \in Appliers, Applies(a)
  PROVE  /\ job' = [r \in Requests |-> IF InGrants(batch[a], r) THEN Succeeded(job[r]) ELSE job[r]]
         /\ \A r \in Requests : InGrants(batch[a], r) => job[r].state = "response_ready"
         /\ applied' = [r \in Requests |->
              [n \in Parts |-> applied[r][n] + Count(batch[a], r, n)]]
  BY DEF Applies, Apply, InGrants, Authorized, Dispatched

LEMMA ClaimRows ==
  ASSUME WorkInv, NEW p \in Procs, NEW r \in Requests, Claim(p, r)
  PROVE  /\ JobSteps
         /\ Claimed(job[r], job'[r])
         /\ \A q \in Requests \ {r} : job'[q] = Swept(job[q])
<1>1. TypeOK
  BY DEF WorkInv
<1>2. /\ job' = [q \in Requests |-> job'[q]]
      /\ Claimed(job[r], job'[r])
      /\ \A q \in Requests \ {r} : job'[q] = Swept(job[q])
  BY <1>1 DEF Claim, SweepAll, Claimed
<1>3. \A q \in Requests : RowStep(job[q], job'[q])
  <2> TAKE q \in Requests
  <2>1. job[q] \in Row /\ RowOK(job[q])
    BY <1>1 DEF WorkInv, TypeOK
  <2>2. CASE q = r
    BY <1>2, <2>1, <2>2, ClaimedRow
  <2>3. CASE q # r
    <3>1. job'[q] = Swept(job[q])
      BY <1>2, <2>3
    <3>2. Steady(job[q], job'[q])
      BY <1>1, <3>1, SweepQuiet DEF Steady
    <3> QED BY <2>1, <3>2, SteadyRow
  <2> QED BY <2>2, <2>3
<1> QED BY <1>2, <1>3 DEF JobSteps

LEMMA ReleaseRows ==
  ASSUME WorkInv, NEW p \in Procs, Release(p)
  PROVE  /\ JobSteps /\ claim[p].req \in Requests /\ pc[p] = "claimed"
         /\ job'[claim[p].req].attempts >= job[claim[p].req].attempts - 1
         /\ \A q \in Requests \ {claim[p].req} : job'[q] = job[q]
<1>1. TypeOK
  BY DEF WorkInv
<1>2. claim[p].req \in Requests /\ pc[p] = "claimed"
  BY DEF Release, WorkInv, Grant
<1>3. PICK r \in Requests : r = claim[p].req
  BY <1>2
<1>4. /\ job' = [q \in Requests |-> job'[q]]
      /\ job'[r] = job[r] \/ TakenBack(job[r], job'[r])
      /\ \A q \in Requests \ {r} : job'[q] = job[q]
  <2>1. CASE UNCHANGED job
    BY <1>1, <2>1 DEF TypeOK
  <2>2. CASE ~UNCHANGED job
    <3>1. /\ Holds(job[r], claim[p])
          /\ With(r, [Unleased(job[r]) EXCEPT !.state = "pending",
                                              !.attempts = IF @ > 0 THEN @ - 1 ELSE 0])
      BY <1>3, <2>2 DEF Release, TakeBack
    <3>2. /\ job' = [q \in Requests |-> job'[q]]
          /\ job'[r] = [Unleased(job[r]) EXCEPT !.state = "pending",
                                                !.attempts = IF @ > 0 THEN @ - 1 ELSE 0]
          /\ \A q \in Requests \ {r} : job'[q] = job[q]
      BY <1>1, <3>1 DEF With, TypeOK
    <3> QED BY <3>1, <3>2 DEF TakenBack, Holds
  <2> QED BY <2>1, <2>2
<1>5. \A q \in Requests : job[q] \in Row /\ RowOK(job[q])
  BY <1>1 DEF WorkInv, TypeOK
<1>6. RowStep(job[r], job[r]) /\ job[r].attempts \in Nat
  BY <1>5, SteadyRow, MaxAttemptsAssumption DEF Steady, Quiet, Row
<1>7. RowStep(job[r], job'[r]) /\ job'[r].attempts >= job[r].attempts - 1
  <2>1. CASE job'[r] = job[r]
    BY <1>6, <2>1
  <2>2. CASE TakenBack(job[r], job'[r])
    BY <1>5, <2>2, TakenBackRow
  <2> QED BY <1>4, <2>1, <2>2
<1>8. \A q \in Requests : RowStep(job[q], job'[q])
  BY <1>4, <1>5, <1>7, SteadyRow DEF Steady, Quiet
<1> QED BY <1>2, <1>3, <1>4, <1>7, <1>8 DEF JobSteps

LEMMA NextJob ==
  ASSUME WorkInv, [Next]_vars
  PROVE  /\ job' \in [Requests -> Row]
         /\ \A r \in Requests : RowOK(job'[r]) /\ job[r].gen <= job'[r].gen
<1>1. CASE JobSteps
  BY <1>1 DEF JobSteps, RowStep
<1>2. ASSUME NEW a \in Appliers, Applies(a)
      PROVE  /\ job' \in [Requests -> Row]
             /\ \A r \in Requests : RowOK(job'[r]) /\ job[r].gen <= job'[r].gen
  <2>1. \A r \in Requests : job[r] \in Row /\ RowOK(job[r]) /\ job[r].gen \in Nat
    BY DEF WorkInv, TypeOK, Row
  <2>2. \A r \in Requests : /\ Succeeded(job[r]) \in Row
                            /\ RowOK(Succeeded(job[r]))
                            /\ Succeeded(job[r]).gen = job[r].gen
    BY <2>1, SucceededFields DEF RowOK, Finished
  <2> QED BY <1>2, <2>1, <2>2, AppliesRows
<1> QED BY <1>1, <1>2, NextKinds, PlainSteady, SteadySteps, ClaimRows, ReleaseRows

-----------------------------------------------------------------------------
(* Types.                                                                  *)
Places == {"loop", "claimed", "asking", "answered", "dispatching", "handing", "dead", "down"}
WorkerOK ==
  /\ pc \in [Procs -> Places]
  /\ claim \in [Procs -> Grant \cup {NoClaim}]
  /\ ready \in [Procs -> SUBSET Grant]
  /\ unsent \in [Procs -> SUBSET Grant]
  /\ \A p \in Procs : /\ pc[p] \in {"claimed", "asking"} => claim[p] \in Grant
                      /\ unsent[p] \subseteq ready[p]

LEMMA ResetWorker ==
  ASSUME WorkerOK, NEW p \in Procs, NEW l \in Places \ {"claimed", "asking"}, Reset(p, l)
  PROVE  WorkerOK'
  BY DEF WorkerOK, Reset

LEMMA NextWorker == ASSUME WorkInv, [Next]_vars PROVE WorkerOK'
<1>0. WorkerOK
  BY DEF WorkInv, TypeOK, WorkerOK, Places
<1>1. CASE UNCHANGED worker
  BY <1>0, <1>1 DEF WorkerOK, worker
<1>2. ASSUME NEW p \in Procs, NEW r \in Requests, Claim(p, r)
      PROVE  WorkerOK'
  <2>1. [req |-> r, token |-> job[r].gen + 1] \in Grant
    BY DEF WorkInv, TypeOK, Row, Grant
  <2> QED BY <1>0, <1>2, <2>1 DEF Claim, WorkerOK, Places
<1>3. ASSUME NEW p \in Procs, Ask(p)
      PROVE  WorkerOK'
  BY <1>0, <1>3 DEF Ask, WorkerOK, Places
<1>4. ASSUME NEW p \in Procs, Dispatch(p)
      PROVE  WorkerOK'
  <2> DEFINE G == {[req |-> r, token |-> job[r].gen + 1] :
                     r \in {q \in Requests : Dispatchable(job[q])}}
  <2>1. G \subseteq Grant
    BY DEF WorkInv, TypeOK, Row, Grant
  <2>2. /\ ready' = [ready EXCEPT ![p] = G] /\ unsent' = [unsent EXCEPT ![p] = G]
        /\ pc' = [pc EXCEPT ![p] = IF @ = "loop" THEN "dispatching" ELSE "handing"]
        /\ UNCHANGED claim
    BY <1>4 DEF Dispatch
  <2> HIDE DEF G
  <2> QED BY <1>0, <2>1, <2>2 DEF WorkerOK, Places
<1>5. ASSUME NEW p \in Procs, HandOver(p)
      PROVE  WorkerOK'
  BY <1>0, <1>5 DEF HandOver, WorkerOK
<1>6. ASSUME NEW p \in Procs,
             \/ Release(p) \/ Fail(p) \/ RejectAnswer(p) \/ Respond(p) \/ LoseClaim(p)
             \/ NothingReady(p) \/ HandedOver(p) \/ DispatchFails(p) \/ Cancel(p)
             \/ Crash(p) \/ Boot(p)
      PROVE  WorkerOK'
  <2>1. \E l \in Places \ {"claimed", "asking"} : Reset(p, l)
    BY <1>6 DEF Release, TakeBack, Fail, RejectAnswer, Respond, LoseClaim, NothingReady, HandedOver,
       DispatchFails, Cancel, Crash, Boot, Places
  <2> QED BY <1>0, <2>1, ResetWorker
<1>7. ASSUME NEW r \in Requests, Enqueue(r) \/ RunOutInUse(r) \/ RunOutUnused(r)
      PROVE  WorkerOK'
  BY <1>1, <1>7 DEF Enqueue, RunOutInUse, RunOutUnused, RunOut
<1>8. ASSUME NEW a \in Appliers, Take(a) \/ Apply(a) \/ ApplyFails(a)
      PROVE  WorkerOK'
  BY <1>1, <1>8 DEF Take, Apply, ApplyFails
<1>9. ASSUME NEW p \in Procs, Refill(p)
      PROVE  WorkerOK'
  BY <1>1, <1>9 DEF Refill
<1>10. CASE UNCHANGED vars
  BY <1>1, <1>10 DEF vars
<1> QED BY <1>2, <1>3, <1>4, <1>5, <1>6, <1>7, <1>8, <1>9, <1>10 DEF Next, Work

(* The events of an answer. *)
EventsOf(g) == [n \in Parts |-> [req |-> g.req, token |-> g.token, part |-> n]]

LEMMA EventsType ==
  ASSUME NEW g \in Grant
  PROVE  /\ EventsOf(g) \in Seq(Event)
         /\ Parts = 1..Len(EventsOf(g))
         /\ \A n \in Parts : /\ EventsOf(g)[n].req = g.req
                             /\ EventsOf(g)[n].token = g.token
                             /\ EventsOf(g)[n].part = n
<1>1. PICK m \in Nat : Parts = 1..m
  BY PartsAssumption, LimitAssumption
<1>2. \A n \in Parts : [req |-> g.req, token |-> g.token, part |-> n] \in Event
  BY DEF Event, Grant
<1>3. EventsOf(g) \in [1..m -> Event]
  BY <1>1, <1>2 DEF EventsOf
<1>4. EventsOf(g) \in Seq(Event)
  BY <1>3, SeqDef
<1>5. Len(EventsOf(g)) = m
  BY <1>1, <1>3, <1>4, LenProperties
<1> QED BY <1>1, <1>4, <1>5 DEF EventsOf

(* What an applier takes, and what it leaves. *)
LEMMA MinOfNat ==
  ASSUME NEW S \in SUBSET Nat, S # {}
  PROVE  Min(S) \in S /\ \A x \in S : Min(S) <= x
<1> DEFINE T == {0..x : x \in S}
<1>1. T \subseteq FiniteSubsetsOf(Nat) /\ T # {}
  <2>1. \A x \in S : 0..x \in SUBSET Nat /\ IsFiniteSet(0..x)
    BY FS_Interval
  <2>2. T # {}
    OBVIOUS
  <2> QED BY <2>1, <2>2 DEF FiniteSubsetsOf
<1>2. PICK t \in T : \A u \in T : <<u, t>> \notin StrictSubsetOrdering(Nat)
  <2> HIDE DEF T
  <2> QED BY <1>1, FS_StrictSubsetOrderingWellFounded, WFMin, Zenon
<1>3. PICK x \in S : t = 0..x
  OBVIOUS
<1>4. ASSUME NEW y \in S, y < x PROVE FALSE
  <2>1. 0..y \in T /\ 0..y \subseteq 0..x /\ x \in 0..x /\ x \notin 0..y
    BY <1>4
  <2>2. <<0..y, 0..x>> \in StrictSubsetOrdering(Nat)
    <3>1. 0..y \in SUBSET Nat /\ 0..x \in SUBSET Nat /\ 0..y # 0..x
      BY <2>1
    <3> QED BY <2>1, <3>1 DEF StrictSubsetOrdering
  <2> QED BY <1>2, <1>3, <2>1, <2>2
<1>5. \A y \in S : x <= y
  BY <1>4
<1> QED BY <1>5 DEF Min

LEMMA TakenRange ==
  ASSUME NEW q \in Seq(Event)
  PROVE  /\ Taken(q) \in 0..Len(q)
         /\ Taken(q) \in {Limit, Len(q)} \cup {i - 1 : i \in Crossing(q)}
         /\ \A i \in Crossing(q) : Taken(q) <= i - 1
<1> DEFINE S == {Limit, Len(q)} \cup {i - 1 : i \in Crossing(q)}
<1>1. Len(q) \in Nat /\ Limit \in Nat
  BY LenProperties, LimitAssumption
<1>2. Crossing(q) \subseteq 1..Limit
  BY DEF Crossing
<1>3. S \in SUBSET Nat /\ S # {}
  BY <1>1, <1>2
<1>4. Taken(q) = Min(S)
  BY DEF Taken
<1>5. Len(q) \in S /\ \A i \in Crossing(q) : i - 1 \in S
  OBVIOUS
<1>6. Min(S) \in S /\ \A x \in S : Min(S) <= x
  <2> HIDE DEF S
  <2> QED BY <1>3, MinOfNat
<1> QED BY <1>1, <1>3, <1>4, <1>5, <1>6

(* takeUpdateBatch never cuts through an answer. *)
LEMMA TakenCutsNoAnswer ==
  ASSUME NEW q \in Seq(Event), Grouped(q),
         NEW i \in 1..Taken(q), NEW k \in (Taken(q) + 1)..Len(q), SameAnswer(q, i, k)
  PROVE  FALSE
<1> DEFINE n == Taken(q)
<1>1. n \in Nat /\ Len(q) \in Nat /\ Limit \in Nat /\ n <= Len(q)
  BY LenProperties, LimitAssumption, TakenRange
<1>2. i \in 1..Len(q) /\ k \in 1..Len(q) /\ i <= n /\ n < k
  BY <1>1
<1>3. ASSUME i \in 1..Limit, NEW m \in (Limit + 1)..Len(q), SameAnswer(q, i, m) PROVE FALSE
  <2>1. i \in Crossing(q)
    BY <1>2, <1>3 DEF Crossing, SameAnswer
  <2> QED BY <1>1, <1>2, <2>1, TakenRange
<1>4. CASE n = Limit
  BY <1>1, <1>2, <1>3, <1>4
<1>5. ASSUME NEW c \in Crossing(q), n = c - 1 PROVE FALSE
  <2>1. c \in 1..Limit /\ c <= Len(q)
    BY <1>1 DEF Crossing
  <2>2. PICK m \in (Limit + 1)..Len(q) : SameAnswer(q, c, m)
    BY DEF Crossing, SameAnswer
  <2>3. c \in i..k
    BY <1>1, <1>2, <1>5, <2>1
  <2>4. SameAnswer(q, i, c)
    BY <1>2, <2>3 DEF Grouped
  <2>5. SameAnswer(q, i, m)
    BY <2>2, <2>4 DEF SameAnswer
  <2>6. i \in 1..Limit
    BY <1>1, <1>2, <1>5, <2>1
  <2> QED BY <1>3, <2>5, <2>6
<1>6. CASE n = Len(q)
  BY <1>1, <1>2, <1>6
<1> QED BY <1>4, <1>5, <1>6, TakenRange

(* A piece of a queue that no answer sticks out of is a queue. *)
LEMMA PieceIsWhole ==
  ASSUME NEW q \in Seq(Event), Whole(q),
         NEW m \in 1..(Len(q) + 1), NEW n \in 0..Len(q),
         \A i \in m..n, k \in 1..Len(q) : SameAnswer(q, i, k) => k \in m..n
  PROVE  /\ SubSeq(q, m, n) \in Seq(Event)
         /\ Whole(SubSeq(q, m, n))
         /\ Grouped(q) => Grouped(SubSeq(q, m, n))
         /\ Grants(SubSeq(q, m, n)) \subseteq Grants(q)
<1>1. Len(q) \in Nat /\ m \in Nat /\ n \in Nat
  BY LenProperties
<1>2. \A i \in m..n : i \in 1..Len(q) /\ q[i] \in Event
  BY <1>1, ElementOfSeq
<1> DEFINE s == SubSeq(q, m, n)
           l == IF m <= n THEN n - m + 1 ELSE 0
<1>3. /\ s \in Seq(Event) /\ Len(s) = l
      /\ \A i \in 1..(n - m + 1) : s[i] = q[m + i - 1]
  BY <1>1, <1>2, SubSeqProperties
<1>4. \A i \in 1..Len(s) : /\ m + i - 1 \in m..n /\ m + i - 1 \in 1..Len(q)
                           /\ s[i] = q[m + i - 1]
  BY <1>1, <1>3
<1>5. \A j \in m..n : j - m + 1 \in 1..Len(s) /\ s[j - m + 1] = q[j] /\ m + (j - m + 1) - 1 = j
  BY <1>1, <1>3
<1>6. Len(s) \in Nat
  BY <1>1, <1>3
<1> HIDE DEF s, l
<1>7. \A i, k \in 1..Len(s) : SameAnswer(s, i, k) <=> SameAnswer(q, m + i - 1, m + k - 1)
  BY <1>4 DEF SameAnswer
<1>8. ASSUME NEW i \in 1..Len(s), NEW x \in Parts
      PROVE  \E k \in 1..Len(s) : SameAnswer(s, i, k) /\ s[k].part = x
  <2>1. PICK k \in 1..Len(q) : SameAnswer(q, m + i - 1, k) /\ q[k].part = x
    BY <1>4 DEF Whole
  <2>2. k \in m..n
    BY <1>4, <2>1
  <2>3. k - m + 1 \in 1..Len(s)
    BY <1>5, <2>2
  <2> QED BY <1>4, <1>5, <2>1, <2>2, <2>3 DEF SameAnswer
<1>9. ASSUME NEW i \in 1..Len(s), NEW k \in 1..Len(s), SameAnswer(s, i, k), s[i].part = s[k].part
      PROVE  i = k
  <2>1. SameAnswer(q, m + i - 1, m + k - 1) /\ q[m + i - 1].part = q[m + k - 1].part
    BY <1>4, <1>7, <1>9
  <2>2. m + i - 1 = m + k - 1
    BY <1>4, <2>1 DEF Whole
  <2> QED BY <1>1, <1>6, <2>2
<1>10. ASSUME Grouped(q), NEW i \in 1..Len(s), NEW k \in 1..Len(s), SameAnswer(s, i, k), NEW c \in i..k
       PROVE  SameAnswer(s, i, c)
  <2>1. c \in 1..Len(s) /\ m + c - 1 \in (m + i - 1)..(m + k - 1)
    BY <1>1, <1>6
  <2>2. SameAnswer(q, m + i - 1, m + k - 1)
    BY <1>7, <1>10
  <2>3. SameAnswer(q, m + i - 1, m + c - 1)
    BY <1>4, <1>10, <2>1, <2>2 DEF Grouped
  <2> QED BY <1>7, <2>1, <2>3
<1>11. Grants(s) \subseteq Grants(q)
  BY <1>4 DEF Grants
<1> QED BY <1>3, <1>8, <1>9, <1>10, <1>11 DEF Whole, Grouped, s

(* An answer that was not in the queue comes to its end. *)
LEMMA QueuedIsWhole ==
  ASSUME NEW q \in Seq(Event), Whole(q), Grouped(q), NEW g \in Grant, g \notin Grants(q)
  PROVE  /\ q \o EventsOf(g) \in Seq(Event)
         /\ Whole(q \o EventsOf(g)) /\ Grouped(q \o EventsOf(g))
         /\ Grants(q \o EventsOf(g)) \subseteq Grants(q) \cup {g}
<1> DEFINE e == EventsOf(g)
           s == q \o e
           l == Len(q)
<1>1. e \in Seq(Event) /\ Parts = 1..Len(e) /\ l \in Nat /\ Len(e) \in Nat
  BY EventsType, LenProperties
<1>2. \A n \in Parts : e[n].req = g.req /\ e[n].token = g.token /\ e[n].part = n
  BY EventsType
<1>3. /\ s \in Seq(Event) /\ Len(s) = l + Len(e)
      /\ \A i \in 1..(l + Len(e)) : s[i] = IF i <= l THEN q[i] ELSE e[i - l]
  BY <1>1, ConcatProperties
<1> HIDE DEF e, s
<1>4. \A i \in 1..l : i \in 1..Len(s) /\ s[i] = q[i]
  BY <1>1, <1>3
<1>5. \A i \in (l + 1)..Len(s) : /\ i - l \in Parts /\ s[i].req = g.req /\ s[i].token = g.token
                                 /\ s[i].part = i - l
  <2>1. \A i \in (l + 1)..Len(s) : i - l \in 1..Len(e) /\ s[i] = e[i - l]
    BY <1>1, <1>3
  <2> QED BY <1>1, <1>2, <2>1
<1>6. \A n \in Parts : l + n \in (l + 1)..Len(s) /\ l + n - l = n
  BY <1>1, <1>3
<1>7. \A i \in 1..Len(s) : i \in 1..l \/ i \in (l + 1)..Len(s)
  BY <1>1, <1>3
<1>8. \A i \in 1..l : ~(q[i].req = g.req /\ q[i].token = g.token)
  BY DEF Grants, Grant
<1>9. ASSUME NEW i \in 1..Len(s), NEW k \in 1..Len(s), SameAnswer(s, i, k)
      PROVE  \/ i \in 1..l /\ k \in 1..l /\ SameAnswer(q, i, k)
             \/ i \in (l + 1)..Len(s) /\ k \in (l + 1)..Len(s)
  <2>1. CASE i \in 1..l /\ k \in 1..l
    BY <1>4, <1>9, <2>1 DEF SameAnswer
  <2>2. CASE i \in 1..l /\ k \in (l + 1)..Len(s)
    BY <1>4, <1>5, <1>8, <1>9, <2>2 DEF SameAnswer
  <2>3. CASE i \in (l + 1)..Len(s) /\ k \in 1..l
    BY <1>4, <1>5, <1>8, <1>9, <2>3 DEF SameAnswer
  <2> QED BY <1>7, <2>1, <2>2, <2>3
<1>10. ASSUME NEW i \in 1..Len(s), NEW n \in Parts
       PROVE  \E k \in 1..Len(s) : SameAnswer(s, i, k) /\ s[k].part = n
  <2>1. CASE i \in 1..l
    <3>1. PICK k \in 1..l : SameAnswer(q, i, k) /\ q[k].part = n
      BY <2>1 DEF Whole
    <3> QED BY <1>4, <2>1, <3>1 DEF SameAnswer
  <2>2. CASE i \in (l + 1)..Len(s)
    <3>1. l + n \in (l + 1)..Len(s) /\ l + n \in 1..Len(s) /\ s[l + n].part = n
      BY <1>1, <1>5, <1>6
    <3> QED BY <1>5, <2>2, <3>1 DEF SameAnswer
  <2> QED BY <1>7, <2>1, <2>2
<1>11. ASSUME NEW i \in 1..Len(s), NEW k \in 1..Len(s), SameAnswer(s, i, k), s[i].part = s[k].part
       PROVE  i = k
  <2>1. CASE i \in 1..l /\ k \in 1..l /\ SameAnswer(q, i, k)
    BY <1>4, <1>11, <2>1 DEF Whole
  <2>2. CASE i \in (l + 1)..Len(s) /\ k \in (l + 1)..Len(s)
    BY <1>1, <1>5, <1>11, <2>2
  <2> QED BY <1>9, <1>11, <2>1, <2>2
<1>12. ASSUME NEW i \in 1..Len(s), NEW k \in 1..Len(s), SameAnswer(s, i, k), NEW c \in i..k
       PROVE  SameAnswer(s, i, c)
  <2>1. CASE i \in 1..l /\ k \in 1..l /\ SameAnswer(q, i, k)
    <3>1. c \in 1..l
      BY <1>1, <2>1
    <3> QED BY <1>4, <2>1, <3>1 DEF Grouped, SameAnswer
  <2>2. CASE i \in (l + 1)..Len(s) /\ k \in (l + 1)..Len(s)
    <3>1. c \in (l + 1)..Len(s)
      BY <1>1, <1>3, <2>2
    <3> QED BY <1>5, <2>2, <3>1 DEF SameAnswer
  <2> QED BY <1>9, <1>12, <2>1, <2>2
<1>13. ASSUME NEW h \in Grants(s) PROVE h \in Grants(q) \cup {g}
  <2>1. PICK i \in 1..Len(s) : h = [req |-> s[i].req, token |-> s[i].token]
    BY DEF Grants
  <2>2. CASE i \in 1..l
    BY <1>4, <2>1, <2>2 DEF Grants
  <2>3. CASE i \in (l + 1)..Len(s)
    BY <1>5, <2>1, <2>3 DEF Grant
  <2> QED BY <1>7, <2>2, <2>3
<1> QED BY <1>3, <1>10, <1>11, <1>12, <1>13 DEF Whole, Grouped, s, e

(* What a step does to the queues and the batches. *)
LEMMA TakeTypes ==
  ASSUME WorkInv, NEW a \in Appliers, Take(a)
  PROVE  updates' \in [Procs -> Seq(Event)] /\ batch' \in [Appliers -> Seq(Event)]
<1> DEFINE q == updates[HomeOf[a]]
<1>1. q \in Seq(Event) /\ HomeOf[a] \in Procs
  BY HomeOfAssumption DEF WorkInv, TypeOK
<1>2. Len(q) \in Nat /\ Taken(q) \in 0..Len(q)
  BY <1>1, LenProperties, TakenRange
<1>3. \A i \in 1..Len(q) : q[i] \in Event
  BY <1>1, ElementOfSeq
<1>4. SubSeq(q, 1, Taken(q)) \in Seq(Event) /\ SubSeq(q, Taken(q) + 1, Len(q)) \in Seq(Event)
  BY <1>2, <1>3, SubSeqProperties
<1>5. /\ batch' = [batch EXCEPT ![a] = SubSeq(q, 1, Taken(q))]
      /\ updates' = [updates EXCEPT ![HomeOf[a]] = SubSeq(q, Taken(q) + 1, Len(q))]
  BY DEF Take
<1> HIDE DEF q
<1> QED BY <1>1, <1>4, <1>5 DEF WorkInv, TypeOK

LEMMA HandOverCases ==
  ASSUME WorkInv, NEW p \in Procs, HandOver(p)
  PROVE  \E g \in unsent[p] :
           /\ g \in Grant
           /\ unsent' = [unsent EXCEPT ![p] = @ \ {g}]
           /\ \/ updates' = [updates EXCEPT ![p] = @ \o EventsOf(g)] /\ UNCHANGED job
              \/ UNCHANGED updates /\ RejectPayload(g)
  BY DEF HandOver, EventsOf, WorkInv, TypeOK

LEMMA NextChannel ==
  ASSUME WorkInv, [Next]_vars
  PROVE  updates' \in [Procs -> Seq(Event)] /\ batch' \in [Appliers -> Seq(Event)]
<1>0. updates \in [Procs -> Seq(Event)] /\ batch \in [Appliers -> Seq(Event)]
  BY DEF WorkInv, TypeOK
<1>1. CASE UNCHANGED channel
  BY <1>0, <1>1 DEF channel
<1>2. ASSUME NEW p \in Procs, HandOver(p)
      PROVE  updates' \in [Procs -> Seq(Event)] /\ batch' \in [Appliers -> Seq(Event)]
  <2>1. \A g \in Grant : updates[p] \o EventsOf(g) \in Seq(Event)
    BY <1>0, EventsType, ConcatProperties
  <2>2. UNCHANGED batch
    BY <1>2 DEF HandOver
  <2>3. PICK g \in Grant : \/ updates' = [updates EXCEPT ![p] = @ \o EventsOf(g)]
                            \/ UNCHANGED updates
    BY <1>2, HandOverCases
  <2>4. updates[p] \o EventsOf(g) \in Seq(Event)
    BY <2>1
  <2> QED BY <1>0, <2>2, <2>3, <2>4
<1>3. ASSUME NEW p \in Procs, Crash(p) \/ Boot(p)
      PROVE  updates' \in [Procs -> Seq(Event)] /\ batch' \in [Appliers -> Seq(Event)]
  <2>1. /\ updates' = [updates EXCEPT ![p] = <<>>]
        /\ batch' = [a \in Appliers |-> IF HomeOf[a] = p THEN <<>> ELSE batch[a]]
    BY <1>3 DEF Crash, Boot
  <2>2. updates' \in [Procs -> Seq(Event)]
    BY <1>0, <2>1, EmptySeq
  <2>3. batch' \in [Appliers -> Seq(Event)]
    BY <1>0, <2>1, EmptySeq
  <2> QED BY <2>2, <2>3
<1>4. ASSUME NEW a \in Appliers, Apply(a) \/ ApplyFails(a)
      PROVE  updates' \in [Procs -> Seq(Event)] /\ batch' \in [Appliers -> Seq(Event)]
  BY <1>0, <1>4, EmptySeq DEF Apply, ApplyFails
<1>5. ASSUME NEW p \in Procs, NEW r \in Requests, Claim(p, r)
      PROVE  UNCHANGED channel
  BY <1>5 DEF Claim
<1>6. ASSUME NEW r \in Requests, Enqueue(r) \/ RunOutInUse(r) \/ RunOutUnused(r)
      PROVE  UNCHANGED channel
  BY <1>6 DEF Enqueue, RunOutInUse, RunOutUnused, RunOut
<1>7. CASE UNCHANGED vars
  BY <1>1, <1>7 DEF vars
<1>8. ASSUME NEW p \in Procs,
             \/ Refill(p) \/ Release(p) \/ Ask(p) \/ Fail(p) \/ RejectAnswer(p)
             \/ Respond(p) \/ LoseClaim(p) \/ Dispatch(p) \/ NothingReady(p) \/ HandedOver(p)
             \/ DispatchFails(p) \/ Cancel(p)
      PROVE  UNCHANGED channel
  BY <1>8 DEF Refill, Release, TakeBack, Ask, Fail, RejectAnswer, Respond, LoseClaim, Dispatch,
     NothingReady, HandedOver, DispatchFails, Cancel
<1> QED BY <1>1, <1>2, <1>3, <1>4, <1>5, <1>6, <1>7, <1>8, TakeTypes DEF Next, Work

LEMMA CountIsNat ==
  ASSUME NEW q \in Seq(Event), NEW r, NEW n PROVE Count(q, r, n) \in Nat
<1> DEFINE S == {i \in 1..Len(q) : q[i].req = r /\ q[i].part = n}
<1>1. Len(q) \in Nat
  BY LenProperties
<1>2. IsFiniteSet(1..Len(q)) /\ S \in SUBSET (1..Len(q))
  BY <1>1, FS_Interval
<1> HIDE DEF S
<1>3. Cardinality(S) \in Nat
  BY <1>2, FS_Subset, FS_CardinalityType
<1> QED BY <1>3 DEF Count, S

LEMMA NextCounters ==
  ASSUME WorkInv, [Next]_vars
  PROVE  /\ applied' \in [Requests -> [Parts -> Nat]]
         /\ asked' \in [Requests -> Nat]
         /\ mishaps' \in 0..MaxMishaps
<1>0. /\ applied \in [Requests -> [Parts -> Nat]] /\ asked \in [Requests -> Nat]
      /\ mishaps \in 0..MaxMishaps
  BY DEF WorkInv, TypeOK
<1>1. applied' \in [Requests -> [Parts -> Nat]]
  <2>1. ASSUME NEW a \in Appliers, Applies(a)
        PROVE  applied' \in [Requests -> [Parts -> Nat]]
    <3>1. \A r \in Requests, n \in Parts : Count(batch[a], r, n) \in Nat
      BY CountIsNat DEF WorkInv, TypeOK
    <3>2. applied' = [r \in Requests |-> [n \in Parts |-> applied[r][n] + Count(batch[a], r, n)]]
      BY <2>1, AppliesRows
    <3> HIDE DEF Count
    <3>3. \A r \in Requests, n \in Parts : applied[r][n] + Count(batch[a], r, n) \in Nat
      BY <1>0, <3>1
    <3> QED BY <3>2, <3>3
  <2>2. CASE UNCHANGED applied
    BY <1>0, <2>2
  <2>3. Plain => UNCHANGED applied
    BY DEF Plain, PlainRest, PlainOfWorker, Enqueue, RunOutInUse, RunOutUnused, RunOut, Refill, Ask,
       Fail, RejectAnswer, Respond,
       LoseClaim, Dispatch, NothingReady, HandOver, HandedOver, DispatchFails, Cancel, Crash, Boot,
       Take, ApplyFails, Apply, vars, table
  <2>4. \A p \in Procs : Release(p) \/ (\E r \in Requests : Claim(p, r)) => UNCHANGED applied
    BY DEF Release, TakeBack, Claim
  <2> QED BY <2>1, <2>2, <2>3, <2>4, NextKinds
<1>2. asked' \in [Requests -> Nat]
  <2>1. ASSUME NEW p \in Procs, Ask(p)
        PROVE  asked' \in [Requests -> Nat]
    <3>1. claim[p].req \in Requests
      BY <2>1 DEF Ask, WorkInv, Grant
    <3>2. asked' = [asked EXCEPT ![claim[p].req] = asked[claim[p].req] + 1]
      BY <2>1 DEF Ask
    <3> QED BY <1>0, <3>1, <3>2
  <2>2. UNCHANGED asked \/ \E p \in Procs : Ask(p)
    BY DEF Next, Work, Enqueue, RunOutInUse, RunOutUnused, RunOut, Refill, Claim, Release, TakeBack,
       Fail, RejectAnswer, Respond, LoseClaim, Dispatch, NothingReady, HandOver, HandedOver,
       DispatchFails, Cancel, Crash, Boot, Take, ApplyFails, Apply, vars
  <2> QED BY <1>0, <2>1, <2>2
<1>3. mishaps' \in 0..MaxMishaps
  <2>1. UNCHANGED mishaps \/ Mishap
    BY DEF Next, Work, Enqueue, RunOutInUse, RunOutUnused, RunOut, Refill, Claim, Release, TakeBack, Ask,
       Fail, RejectAnswer, Respond, LoseClaim, Dispatch, NothingReady, HandOver, HandedOver,
       DispatchFails, Cancel, Crash, Boot, Take, ApplyFails, Apply, vars
  <2> QED BY <1>0, <2>1, MaxMishapsAssumption DEF Mishap
<1> QED BY <1>1, <1>2, <1>3

LEMMA InitWork == ASSUME Init PROVE WorkInv
<1>1. NoRow \in Row /\ RowOK(NoRow)
  BY MaxAttemptsAssumption DEF NoRow, Row, RowOK, Finished
<1>2. job \in [Requests -> Row] /\ \A r \in Requests : RowOK(job[r])
  BY <1>1 DEF Init
<1>3. /\ applied \in [Requests -> [Parts -> Nat]] /\ asked \in [Requests -> Nat]
      /\ mishaps \in 0..MaxMishaps
  BY MaxMishapsAssumption DEF Init
<1>4. updates \in [Procs -> Seq(Event)] /\ batch \in [Appliers -> Seq(Event)]
  BY EmptySeq DEF Init
<1>5. WorkerOK
  BY DEF Init, WorkerOK, Places
<1> QED BY <1>2, <1>3, <1>4, <1>5 DEF WorkInv, TypeOK, WorkerOK, Places

LEMMA NextWork == ASSUME WorkInv, [Next]_vars PROVE WorkInv'
<1>1. WorkerOK'
  BY NextWorker
<1>2. job' \in [Requests -> Row] /\ \A r \in Requests : RowOK(job'[r])
  BY NextJob
<1>3. TypeOK'
  BY <1>1, <1>2, NextChannel, NextCounters DEF TypeOK, WorkerOK, Places
<1> QED BY <1>1, <1>2, <1>3 DEF WorkInv, WorkerOK

LEMMA SpecWorkInv == Spec => []WorkInv
<1>1. WorkInv /\ [Next]_vars => WorkInv'
  BY NextWork
<1> QED BY InitWork, <1>1, PTL DEF Spec

(* Every state is as its variables are declared.                           *)
THEOREM SpecTypeOK == Spec => []TypeOK
<1>1. WorkInv => TypeOK
  BY DEF WorkInv
<1> QED BY SpecWorkInv, <1>1, PTL

(* A finished job gives its topic back and an unfinished one keeps it:     *)
(* whoever ends a job, sweeps it or takes it back, active_key goes with    *)
(* the state (the UPDATE statements of JobQueue.hs).                       *)
THEOREM SpecTopicIsFreed == Spec => []TopicIsFreed
<1>1. WorkInv => TopicIsFreed
  BY DEF WorkInv, TypeOK, Row, RowOK, Finished, TopicIsFreed
<1> QED BY SpecWorkInv, <1>1, PTL

-----------------------------------------------------------------------------
(* Who ends a lease before it has run out.                                 *)
LeaseOf(r) == [req |-> r, token |-> job[r].token]
HolderEnds(r) ==
  \/ \E p \in Procs : claim[p] = LeaseOf(r) /\ claim'[p] # LeaseOf(r)
  \/ \E p \in Procs : /\ LeaseOf(r) \in ready[p]
                      /\ LeaseOf(r) \notin ready'[p] \/ LeaseOf(r) \in unsent[p] \ unsent'[p]
  \/ \E a \in Appliers : LeaseOf(r) \in Grants(batch[a]) /\ batch'[a] = <<>>

LEMMA NoClaimIsNone == \A r \in Requests : NoClaim # LeaseOf(r)
  BY NoRequestAssumption DEF NoClaim, LeaseOf

LEMMA ReleasedLease ==
  ASSUME TypeOK, NEW gs, gs \subseteq Grant, job' \in {job, Released(gs)},
         NEW r \in Requests, EndsLease(r)
  PROVE  LeaseOf(r) \in gs
<1>1. job' = Released(gs)
  BY DEF EndsLease
<1>2. PICK g \in gs : g.req = r /\ Dispatched(job[r], g)
  BY <1>1 DEF Released, EndsLease
<1>3. g = LeaseOf(r)
  BY <1>2 DEF Grant, Dispatched, LeaseOf
<1> QED BY <1>3

LEMMA MarkedLease ==
  ASSUME WorkInv, NEW p \in Procs, NEW b, MarkFailed(p, b), claim'[p] = NoClaim,
         NEW r \in Requests, EndsLease(r)
  PROVE  HolderEnds(r)
<1>1. /\ claim[p] # NoClaim /\ claim[p] \in Grant
      /\ Holds(job[claim[p].req], claim[p])
      /\ \A q \in Requests \ {claim[p].req} : job'[q] = job[q]
  BY DEF MarkFailed, With, EndsLease, WorkInv, TypeOK
<1>2. claim[p] = LeaseOf(r)
  BY <1>1 DEF EndsLease, Holds, Grant, LeaseOf
<1> QED BY <1>2, NoClaimIsNone DEF HolderEnds

LEMMA ResetFields ==
  ASSUME TypeOK, NEW p \in Procs, NEW l, Reset(p, l)
  PROVE  claim'[p] = NoClaim /\ ready'[p] = {} /\ unsent'[p] = {}
  BY DEF TypeOK, Reset

LEMMA GrantsType == ASSUME NEW q \in Seq(Event) PROVE Grants(q) \subseteq Grant
<1>1. \A i \in 1..Len(q) : q[i] \in Event
  BY ElementOfSeq
<1> QED BY <1>1 DEF Grants, Event, Grant

LEMMA NextLease ==
  ASSUME WorkInv, [Next]_vars, NEW r \in Requests, EndsLease(r)
  PROVE  HolderEnds(r)
<1>0. TypeOK /\ job[r] \in Row /\ RowOK(job[r]) /\ job[r].lease = "live"
      /\ job'[r].token # job[r].token
  BY DEF WorkInv, TypeOK, EndsLease
<1>1. ASSUME NEW q \in Requests, Enqueue(q) \/ RunOutInUse(q) \/ RunOutUnused(q)
      PROVE  FALSE
  <2>1. CASE Enqueue(q)
    BY <1>0, <2>1 DEF Enqueue, With, TypeOK, RowOK
  <2>2. CASE RunOutInUse(q) \/ RunOutUnused(q)
    <3>1. job' = [job EXCEPT ![q] = [job[q] EXCEPT !.lease = "expired"]]
      BY <2>2 DEF RunOutInUse, RunOutUnused, RunOut, With
    <3>2. job[q] \in Row
      BY <1>0 DEF TypeOK
    <3>3. [job[q] EXCEPT !.lease = "expired"].token = job[q].token
      BY <3>2 DEF Row
    <3> QED BY <1>0, <3>1, <3>3 DEF TypeOK
  <2> QED BY <1>1, <2>1, <2>2
<1>2. ASSUME NEW p \in Procs, Refill(p) \/ Boot(p)
      PROVE  FALSE
  BY <1>0, <1>2 DEF Refill, Boot, SweepAll, Swept
<1>3. ASSUME NEW p \in Procs, NEW q \in Requests, Claim(p, q)
      PROVE  FALSE
  <2>1. ~Claimable(job[r])
    BY <1>0 DEF Claimable, RowOK
  <2>2. job'[r] = Swept(job[r])
    BY <1>3, <2>1, ClaimRows DEF Claim
  <2> QED BY <1>0, <2>2 DEF Swept
<1>4. ASSUME NEW p \in Procs, Release(p)
      PROVE  HolderEnds(r)
  <2>1. /\ claim[p] \in Grant
        /\ Holds(job[claim[p].req], claim[p])
        /\ \A q \in Requests \ {claim[p].req} : job'[q] = job[q]
    BY <1>0, <1>4 DEF Release, TakeBack, With, WorkInv, TypeOK
  <2>2. claim[p] = LeaseOf(r)
    BY <1>0, <2>1 DEF Holds, Grant, LeaseOf
  <2>3. claim'[p] = NoClaim
    BY <1>0, <1>4, ResetFields DEF Release, TakeBack
  <2> QED BY <2>2, <2>3, NoClaimIsNone DEF HolderEnds
<1>5. ASSUME NEW p \in Procs, Fail(p) \/ RejectAnswer(p)
      PROVE  HolderEnds(r)
  <2>1. \E b \in BOOLEAN : MarkFailed(p, b)
    BY <1>5 DEF Fail, RejectAnswer
  <2>2. claim'[p] = NoClaim
    BY <1>0, <1>5, ResetFields DEF Fail, RejectAnswer
  <2> QED BY <2>1, <2>2, MarkedLease
<1>6. ASSUME NEW p \in Procs, Respond(p)
      PROVE  HolderEnds(r)
  <2>1. /\ claim[p] \in Grant
        /\ Holds(job[claim[p].req], claim[p])
        /\ \A q \in Requests \ {claim[p].req} : job'[q] = job[q]
    BY <1>0, <1>6 DEF Respond, With, WorkInv, TypeOK
  <2>2. claim[p] = LeaseOf(r)
    BY <1>0, <2>1 DEF Holds, Grant, LeaseOf
  <2>3. claim'[p] = NoClaim
    BY <1>0, <1>6, ResetFields DEF Respond
  <2> QED BY <2>2, <2>3, NoClaimIsNone DEF HolderEnds
<1>7. ASSUME NEW p \in Procs, Dispatch(p)
      PROVE  FALSE
  BY <1>0, <1>7 DEF Dispatch, Dispatchable
<1>8. ASSUME NEW p \in Procs, HandOver(p)
      PROVE  HolderEnds(r)
  <2>1. PICK g \in unsent[p] :
          g \in Grant /\ unsent' = [unsent EXCEPT ![p] = @ \ {g}] /\ RejectPayload(g)
    BY <1>0, <1>8, HandOverCases
  <2>2. g.req = r /\ g.token = job[r].token
    BY <1>0, <2>1 DEF RejectPayload, Dispatched, With, TypeOK
  <2>3. g = LeaseOf(r)
    BY <2>1, <2>2 DEF Grant, LeaseOf
  <2>4. g \in ready[p] /\ g \notin unsent'[p]
    BY <1>0, <2>1 DEF WorkInv, TypeOK
  <2> QED BY <2>3, <2>4 DEF HolderEnds
<1>9. ASSUME NEW p \in Procs, DispatchFails(p) \/ Cancel(p)
      PROVE  HolderEnds(r)
  <2>1. claim'[p] = NoClaim /\ ready'[p] = {}
    BY <1>0, <1>9, ResetFields DEF DispatchFails, Cancel
  <2>2. CASE job' \in {job, Released(ready[p])}
    BY <1>0, <2>1, <2>2, ReleasedLease DEF HolderEnds, TypeOK
  <2>3. CASE MarkFailed(p, TRUE)
    BY <2>1, <2>3, MarkedLease
  <2> QED BY <1>9, <2>2, <2>3 DEF DispatchFails, Cancel
<1>10. ASSUME NEW a \in Appliers, Apply(a) \/ ApplyFails(a)
       PROVE  HolderEnds(r)
  <2>1. batch'[a] = <<>> /\ Grants(batch[a]) \subseteq Grant
    BY <1>0, <1>10, GrantsType DEF Apply, ApplyFails, TypeOK
  <2>2. CASE ApplyFails(a)
    BY <1>0, <2>1, <2>2, ReleasedLease DEF ApplyFails, HolderEnds
  <2>3. CASE Apply(a)
    <3>1. Authorized(batch[a]) /\ \E g \in Grants(batch[a]) : g.req = r
      BY <1>0, <2>3 DEF Apply, table
    <3>2. PICK g \in Grants(batch[a]) : g.req = r /\ g.token = job[r].token
      BY <3>1 DEF Authorized, Dispatched
    <3>3. g = LeaseOf(r)
      BY <2>1, <3>2 DEF Grant, LeaseOf
    <3> QED BY <2>1, <3>3 DEF HolderEnds
  <2> QED BY <1>10, <2>2, <2>3
<1>11. ASSUME UNCHANGED job PROVE FALSE
  BY <1>0, <1>11
<1>12. ASSUME NEW p \in Procs,
              Ask(p) \/ LoseClaim(p) \/ NothingReady(p) \/ HandedOver(p) \/ Crash(p)
       PROVE  FALSE
  BY <1>11, <1>12 DEF Ask, LoseClaim, NothingReady, HandedOver, Crash, table
<1>13. ASSUME NEW a \in Appliers, Take(a) PROVE FALSE
  BY <1>11, <1>13 DEF Take, table
<1>14. ASSUME UNCHANGED vars PROVE FALSE
  BY <1>11, <1>14 DEF vars, table
<1> QED BY <1>1, <1>2, <1>3, <1>4, <1>5, <1>6, <1>7, <1>8, <1>9, <1>10, <1>12, <1>13, <1>14 DEF Next, Work

(* Before it has run out a lease is ended by the thread it was granted to  *)
(* and by nobody else: a slow worker, dispatcher or applier cannot take a  *)
(* job from its successor.                                                 *)
THEOREM SpecLiveLeaseIsHoldersOwn == Spec => LiveLeaseIsHoldersOwn
<1>1. WorkInv /\ [Next]_vars => \A r \in Requests : EndsLease(r) => HolderEnds(r)
  BY NextLease
<1>2. WorkInv /\ [Next]_vars =>
        [\A r \in Requests : EndsLease(r) =>
           LET g == [req |-> r, token |-> job[r].token] IN
           \/ \E p \in Procs : claim[p] = g /\ claim'[p] # g
           \/ \E p \in Procs : g \in ready[p] /\ (g \notin ready'[p] \/ g \in unsent[p] \ unsent'[p])
           \/ \E a \in Appliers : g \in Grants(batch[a]) /\ batch'[a] = <<>>]_vars
  BY <1>1 DEF HolderEnds, LeaseOf
<1> QED BY SpecWorkInv, <1>2, PTL DEF Spec, LiveLeaseIsHoldersOwn

-----------------------------------------------------------------------------
(* Questions and attempts.                                                 *)
PaidFor(r) ==
  /\ IsFiniteSet(Unasked(r))
  /\ asked[r] + Cardinality(Unasked(r)) <= job[r].attempts

LEMMA StillPaid ==
  ASSUME WorkInv, AskInv, NEW r \in Requests, asked'[r] = asked[r],
         job'[r].attempts >= job[r].attempts, job'[r].attempts \in Nat, Unasked(r)' \subseteq Unasked(r)
  PROVE  PaidFor(r)'
<1> DEFINE U == Unasked(r)
           V == Unasked(r)'
<1>1. IsFiniteSet(U) /\ asked[r] + Cardinality(U) <= job[r].attempts /\ asked[r] \in Nat
      /\ job[r].attempts \in Nat
  BY MaxAttemptsAssumption DEF AskInv, WorkInv, TypeOK, Row
<1>2. V \in SUBSET U
  OBVIOUS
<1> HIDE DEF U, V
<1>3. IsFiniteSet(V) /\ Cardinality(V) <= Cardinality(U)
  BY <1>1, <1>2, FS_Subset
<1>4. Cardinality(V) \in Nat /\ Cardinality(U) \in Nat
  BY <1>1, <1>3, FS_CardinalityType
<1>5. asked[r] + Cardinality(V) <= job'[r].attempts
  BY <1>1, <1>3, <1>4
<1> QED BY <1>3, <1>5 DEF PaidFor, V

(* A worker that has not asked had its claim before the step, or has just  *)
(* got it.                                                                 *)
KeepsUnasked ==
  \A p \in Procs : pc'[p] = "claimed" => pc[p] = "claimed" /\ claim'[p] = claim[p]

LEMMA ResetKeeps ==
  ASSUME TypeOK, NEW p \in Procs, NEW l \in Places \ {"claimed"}, Reset(p, l) PROVE KeepsUnasked
  BY DEF TypeOK, Reset, KeepsUnasked

LEMMA NextKeeps ==
  ASSUME WorkInv, [Next]_vars
  PROVE  KeepsUnasked \/ \E p \in Procs, r \in Requests : Claim(p, r)
<1>0. TypeOK
  BY DEF WorkInv
<1>1. pc' = pc /\ claim' = claim => KeepsUnasked
  BY DEF KeepsUnasked
<1>2. ASSUME NEW p \in Procs,
             \/ Release(p) \/ Fail(p) \/ RejectAnswer(p) \/ Respond(p) \/ LoseClaim(p)
             \/ NothingReady(p) \/ HandedOver(p) \/ DispatchFails(p) \/ Cancel(p)
             \/ Crash(p) \/ Boot(p)
      PROVE  KeepsUnasked
  <2>1. \E l \in Places \ {"claimed"} : Reset(p, l)
    BY <1>2 DEF Release, TakeBack, Fail, RejectAnswer, Respond, LoseClaim, NothingReady, HandedOver,
       DispatchFails, Cancel, Crash, Boot, Places
  <2> QED BY <1>0, <2>1, ResetKeeps
<1>3. ASSUME NEW p \in Procs, Ask(p) \/ Dispatch(p) \/ HandOver(p)
      PROVE  KeepsUnasked
  BY <1>0, <1>3 DEF Ask, Dispatch, HandOver, TypeOK, KeepsUnasked
<1>4. ASSUME NEW p \in Procs, Refill(p)
      PROVE  KeepsUnasked
  BY <1>1, <1>4 DEF Refill, worker
<1>5. ASSUME NEW r \in Requests, Enqueue(r) \/ RunOutInUse(r) \/ RunOutUnused(r)
      PROVE  KeepsUnasked
  BY <1>1, <1>5 DEF Enqueue, RunOutInUse, RunOutUnused, RunOut, worker
<1>6. ASSUME NEW a \in Appliers, Take(a) \/ Apply(a) \/ ApplyFails(a)
      PROVE  KeepsUnasked
  BY <1>1, <1>6 DEF Take, Apply, ApplyFails, worker
<1>7. CASE UNCHANGED vars
  BY <1>1, <1>7 DEF vars, worker
<1> QED BY <1>2, <1>3, <1>4, <1>5, <1>6, <1>7 DEF Next, Work

LEMMA KeepsFewer ==
  ASSUME KeepsUnasked, NEW r \in Requests PROVE Unasked(r)' \subseteq Unasked(r)
  BY DEF KeepsUnasked, Unasked

LEMMA AskStep ==
  ASSUME WorkInv, AskInv, NEW p \in Procs, Ask(p), NEW r \in Requests
  PROVE  PaidFor(r)'
<1>1. /\ claim[p].req \in Requests /\ UNCHANGED job /\ job[r].attempts \in Nat /\ asked[r] \in Nat
      /\ asked' = [asked EXCEPT ![claim[p].req] = asked[claim[p].req] + 1]
  BY MaxAttemptsAssumption DEF Ask, WorkInv, TypeOK, Grant, Row, table
<1>2. pc[p] = "claimed" /\ pc' = [pc EXCEPT ![p] = "asking"] /\ UNCHANGED claim
  BY DEF Ask
<1>3. Unasked(r)' = Unasked(r) \ {p}
  BY <1>2 DEF Unasked, WorkInv, TypeOK
<1>4. CASE claim[p].req # r
  <2>1. asked'[r] = asked[r] /\ job'[r].attempts >= job[r].attempts /\ job'[r].attempts \in Nat
    BY <1>1, <1>4 DEF WorkInv, TypeOK
  <2> QED BY <1>3, <2>1, StillPaid
<1>5. CASE claim[p].req = r
  <2> DEFINE U == Unasked(r)
  <2>1. p \in U /\ IsFiniteSet(U) /\ asked[r] + Cardinality(U) <= job[r].attempts
    BY <1>2, <1>5 DEF Unasked, AskInv
  <2> HIDE DEF U
  <2>2. IsFiniteSet(U \ {p}) /\ Cardinality(U \ {p}) = Cardinality(U) - 1 /\ Cardinality(U) \in Nat
    BY <2>1, FS_RemoveElement, FS_CardinalityType
  <2>3. asked'[r] = asked[r] + 1 /\ job'[r] = job[r]
    BY <1>1, <1>5 DEF WorkInv, TypeOK
  <2>4. asked'[r] + Cardinality(U \ {p}) <= job'[r].attempts
    BY <1>1, <2>1, <2>2, <2>3
  <2> QED BY <1>3, <2>2, <2>4 DEF PaidFor, U
<1> QED BY <1>4, <1>5

LEMMA ClaimStep ==
  ASSUME WorkInv, AskInv, NEW p \in Procs, NEW q \in Requests, Claim(p, q), NEW r \in Requests
  PROVE  PaidFor(r)'
<1>1. /\ job[r].attempts \in Nat /\ asked[r] \in Nat /\ asked' = asked
      /\ job[r] \in Row /\ RowOK(job[r]) /\ job[q] \in Row /\ RowOK(job[q])
  BY MaxAttemptsAssumption DEF Claim, WorkInv, TypeOK, Row
<1>2. /\ pc' = [pc EXCEPT ![p] = "claimed"] /\ pc[p] = "loop"
      /\ claim' = [claim EXCEPT ![p] = [req |-> q, token |-> job[q].gen + 1]]
  BY DEF Claim
<1>3. Unasked(r)' = IF r = q THEN Unasked(r) \cup {p} ELSE Unasked(r)
  BY <1>2 DEF Unasked, WorkInv, TypeOK
<1>4. CASE r # q
  <2>1. Steady(job[r], job'[r])
    BY <1>4, ClaimRows, SweepQuiet DEF WorkInv, Steady
  <2>2. job'[r].attempts = job[r].attempts
    BY <1>1, <2>1, SteadyRow
  <2>3. job'[r].attempts >= job[r].attempts
    BY <1>1, <2>2
  <2> QED BY <1>1, <1>3, <1>4, <2>2, <2>3, StillPaid
<1>5. CASE r = q
  <2> DEFINE U == Unasked(r)
  <2>1. p \notin U /\ IsFiniteSet(U) /\ asked[r] + Cardinality(U) <= job[r].attempts
    BY <1>2 DEF Unasked, AskInv
  <2> HIDE DEF U
  <2>2. IsFiniteSet(U \cup {p}) /\ Cardinality(U \cup {p}) = Cardinality(U) + 1 /\ Cardinality(U) \in Nat
    BY <2>1, FS_AddElement, FS_CardinalityType
  <2>3. job'[r].attempts = job[r].attempts + 1
    BY <1>1, <1>5, ClaimRows, ClaimedRow
  <2>4. asked'[r] + Cardinality(U \cup {p}) <= job'[r].attempts
    BY <1>1, <2>1, <2>2, <2>3
  <2> QED BY <1>3, <1>5, <2>2, <2>4 DEF PaidFor, U
<1> QED BY <1>4, <1>5

LEMMA ReleaseStep ==
  ASSUME WorkInv, AskInv, NEW p \in Procs, Release(p), NEW r \in Requests
  PROVE  PaidFor(r)'
<1>0. /\ job[r].attempts \in Nat /\ asked[r] \in Nat
      /\ pc \in [Procs -> Places] /\ claim \in [Procs -> Grant \cup {NoClaim}]
  BY MaxAttemptsAssumption DEF WorkInv, TypeOK, Row, Places
<1>1. /\ job[r].attempts \in Nat /\ asked[r] \in Nat /\ asked' = asked
      /\ pc[p] = "claimed" /\ Reset(p, "loop")
  BY <1>0 DEF Release, TakeBack
<1>2. Unasked(r)' = Unasked(r) \ {p}
  <2>1. /\ pc' = [pc EXCEPT ![p] = "loop"]
        /\ claim' = [claim EXCEPT ![p] = NoClaim]
    BY <1>1 DEF Reset
  <2>2. \A x \in Procs : /\ x = p => pc'[x] # "claimed"
                         /\ x # p => pc'[x] = pc[x] /\ claim'[x] = claim[x]
    BY <1>0, <2>1
  <2> QED BY <2>2 DEF Unasked
<1>3. /\ job'[claim[p].req].attempts >= job[claim[p].req].attempts - 1
      /\ \A q \in Requests \ {claim[p].req} : job'[q] = job[q]
      /\ job'[r].attempts \in Nat
  <2>1. job'[r] \in Row
    BY ReleaseRows DEF JobSteps, RowStep
  <2>2. job'[r].attempts \in Nat
    BY <2>1, MaxAttemptsAssumption DEF Row
  <2> QED BY <2>2, ReleaseRows
<1>4. CASE claim[p].req # r
  <2>1. job'[r].attempts >= job[r].attempts
    BY <1>1, <1>3, <1>4
  <2> QED BY <1>1, <1>2, <1>3, <2>1, StillPaid
<1>5. CASE claim[p].req = r
  <2> DEFINE U == Unasked(r)
  <2>1. p \in U /\ IsFiniteSet(U) /\ asked[r] + Cardinality(U) <= job[r].attempts
    BY <1>1, <1>5 DEF Unasked, AskInv
  <2> HIDE DEF U
  <2>2. IsFiniteSet(U \ {p}) /\ Cardinality(U \ {p}) = Cardinality(U) - 1 /\ Cardinality(U) \in Nat
    BY <2>1, FS_RemoveElement, FS_CardinalityType
  <2>3. job'[r].attempts >= job[r].attempts - 1
    BY <1>3, <1>5
  <2>4. asked'[r] + Cardinality(U \ {p}) <= job'[r].attempts
    BY <1>1, <1>3, <2>1, <2>2, <2>3
  <2> QED BY <1>2, <2>2, <2>4 DEF PaidFor, U
<1> QED BY <1>4, <1>5

LEMMA NextAsk == ASSUME WorkInv, AskInv, [Next]_vars PROVE AskInv'
<1> SUFFICES ASSUME NEW r \in Requests PROVE PaidFor(r)'
  BY DEF AskInv, PaidFor
<1>1. job[r] \in Row /\ RowOK(job[r]) /\ job[r].attempts \in Nat
  BY MaxAttemptsAssumption DEF WorkInv, TypeOK, Row
<1>2. CASE \E p \in Procs : Ask(p) \/ Release(p) \/ \E q \in Requests : Claim(p, q)
  BY <1>2, AskStep, ReleaseStep, ClaimStep
<1>3. CASE ~ \E p \in Procs : Ask(p) \/ Release(p) \/ \E q \in Requests : Claim(p, q)
  <2>1. asked' = asked
    BY <1>3 DEF Next, Work, Enqueue, RunOutInUse, RunOutUnused, RunOut, Refill, Fail, RejectAnswer,
       Respond, LoseClaim, Dispatch, NothingReady, HandOver, HandedOver, DispatchFails, Cancel, Crash,
       Boot, Take, Apply, ApplyFails, vars
  <2>2. Unasked(r)' \subseteq Unasked(r)
    BY <1>3, NextKeeps, KeepsFewer
  <2>3. job'[r].attempts = job[r].attempts
    <3>1. CASE Plain
      BY <1>1, <3>1, PlainSteady, SteadyRow DEF JobSteady
    <3>2. ASSUME NEW a \in Appliers, Applies(a) PROVE job'[r].attempts = job[r].attempts
      BY <1>1, <3>2, AppliesRows, SucceededFields
    <3> QED BY <1>3, <3>1, <3>2, NextKinds
  <2>4. job'[r].attempts >= job[r].attempts
    BY <1>1, <2>3
  <2> QED BY <1>1, <2>1, <2>2, <2>3, <2>4, StillPaid
<1> QED BY <1>2, <1>3

LEMMA InitAsk == ASSUME Init PROVE AskInv
<1>1. \A r \in Requests : Unasked(r) = {} /\ asked[r] = 0 /\ job[r].attempts = 0
  BY DEF Init, Unasked, NoRow
<1>2. IsFiniteSet({}) /\ Cardinality({}) = 0
  BY FS_EmptySet
<1> QED BY <1>1, <1>2 DEF AskInv

(* Every question to the provider was paid for with an attempt, although a *)
(* refused quota takes its attempt back: the claims that have not asked    *)
(* yet hold an attempt each (releaseLearningJobClaim).                     *)
THEOREM SpecQuestionsArePaid == Spec => []QuestionsArePaid
<1>1. WorkInv /\ AskInv /\ [Next]_vars => AskInv'
  BY NextAsk
<1>2. WorkInv /\ AskInv => QuestionsArePaid
  <2> SUFFICES ASSUME WorkInv, AskInv, NEW r \in Requests
               PROVE  asked[r] <= job[r].attempts /\ job[r].attempts <= MaxAttempts
    BY DEF QuestionsArePaid
  <2>1. job[r].attempts \in 0..MaxAttempts /\ asked[r] \in Nat
    BY DEF WorkInv, TypeOK, Row
  <2>2. Cardinality(Unasked(r)) \in Nat /\ asked[r] + Cardinality(Unasked(r)) <= job[r].attempts
    BY FS_CardinalityType DEF AskInv
  <2> QED BY <2>1, <2>2, MaxAttemptsAssumption
<1> QED BY InitAsk, SpecWorkInv, <1>1, <1>2, PTL DEF Spec

-----------------------------------------------------------------------------
(* The queues.                                                             *)
Pipe(p) ==
  /\ Whole(updates[p]) /\ Grouped(updates[p])
  /\ unsent[p] \cap Grants(updates[p]) = {}
  /\ \A g \in unsent[p] \cup Grants(updates[p]) : g.token <= job[g.req].gen

LEMMA NothingQueued == Whole(<<>>) /\ Grouped(<<>>) /\ Grants(<<>>) = {}
<1>1. Len(<<>>) = 0 /\ 1..0 = {}
  BY EmptySeq
<1> QED BY <1>1 DEF Whole, Grouped, Grants

LEMMA TokensStayOld ==
  ASSUME WorkInv, [Next]_vars, NEW g \in Grant, g.token <= job[g.req].gen
  PROVE  g.token <= job'[g.req].gen
<1>1. g.req \in Requests /\ g.token \in Nat
  BY DEF Grant
<1>2. job[g.req].gen \in Nat /\ job'[g.req].gen \in Nat /\ job[g.req].gen <= job'[g.req].gen
  BY <1>1, NextJob DEF WorkInv, TypeOK, Row
<1> QED BY <1>1, <1>2

LEMMA PipeShrinks ==
  ASSUME WorkInv, QueueInv, [Next]_vars, NEW p \in Procs,
         Whole(updates'[p]), Grouped(updates'[p]),
         Grants(updates'[p]) \subseteq Grants(updates[p]),
         unsent'[p] \subseteq unsent[p]
  PROVE  Pipe(p)'
<1>1. unsent[p] \subseteq Grant /\ Grants(updates[p]) \subseteq Grant
  BY GrantsType DEF WorkInv, TypeOK
<1>2. /\ unsent[p] \cap Grants(updates[p]) = {}
      /\ \A g \in unsent[p] \cup Grants(updates[p]) : g.token <= job[g.req].gen
  BY DEF QueueInv
<1>3. \A g \in unsent'[p] \cup Grants(updates'[p]) : g.token <= job'[g.req].gen
  BY <1>1, <1>2, TokensStayOld
<1> QED BY <1>2, <1>3 DEF Pipe, Grants

LEMMA TakeQueues ==
  ASSUME WorkInv, QueueInv, NEW a \in Appliers, Take(a)
  PROVE  /\ \A p \in Procs : /\ Whole(updates'[p]) /\ Grouped(updates'[p])
                             /\ Grants(updates'[p]) \subseteq Grants(updates[p])
         /\ \A b \in Appliers : Whole(batch'[b])
<1> DEFINE q == updates[HomeOf[a]]
           n == Taken(q)
           l == Len(q)
<1>1. q \in Seq(Event) /\ HomeOf[a] \in Procs /\ Whole(q) /\ Grouped(q)
  BY HomeOfAssumption DEF WorkInv, TypeOK, QueueInv
<1>2. l \in Nat /\ n \in 0..l
  BY <1>1, LenProperties, TakenRange
<1>3. ASSUME NEW i \in 1..n, NEW k \in 1..l, SameAnswer(q, i, k) PROVE k \in 1..n
  <2>1. CASE k \in (n + 1)..l
    BY <1>1, <1>3, <2>1, TakenCutsNoAnswer
  <2> QED BY <1>2, <2>1
<1>4. ASSUME NEW i \in (n + 1)..l, NEW k \in 1..l, SameAnswer(q, i, k) PROVE k \in (n + 1)..l
  <2>1. CASE k \in 1..n
    <3>1. SameAnswer(q, k, i)
      BY <1>4 DEF SameAnswer
    <3> QED BY <1>1, <2>1, <3>1, TakenCutsNoAnswer
  <2> QED BY <1>2, <2>1
<1>5. 1 \in 1..(l + 1) /\ n \in 0..l /\ n + 1 \in 1..(l + 1) /\ l \in 0..l
  BY <1>2
<1>6. Whole(SubSeq(q, 1, n))
  BY <1>1, <1>3, <1>5, PieceIsWhole
<1>7. /\ Whole(SubSeq(q, n + 1, l)) /\ Grouped(SubSeq(q, n + 1, l))
      /\ Grants(SubSeq(q, n + 1, l)) \subseteq Grants(q)
  BY <1>1, <1>4, <1>5, PieceIsWhole
<1>8. /\ batch' = [batch EXCEPT ![a] = SubSeq(q, 1, n)]
      /\ updates' = [updates EXCEPT ![HomeOf[a]] = SubSeq(q, n + 1, l)]
  BY DEF Take
<1>9. \A p \in Procs : Whole(updates[p]) /\ Grouped(updates[p])
  BY DEF QueueInv
<1>10. \A p \in Procs : updates'[p] = IF p = HomeOf[a] THEN SubSeq(q, n + 1, l) ELSE updates[p]
  BY <1>1, <1>8 DEF WorkInv, TypeOK
<1>11. \A b \in Appliers : batch'[b] = IF b = a THEN SubSeq(q, 1, n) ELSE batch[b]
  BY <1>8 DEF WorkInv, TypeOK
<1>12. \A b \in Appliers : Whole(batch[b])
  BY DEF QueueInv
<1>13. \A p \in Procs : /\ Whole(updates'[p]) /\ Grouped(updates'[p])
                        /\ Grants(updates'[p]) \subseteq Grants(updates[p])
  BY <1>7, <1>9, <1>10
<1>14. \A b \in Appliers : Whole(batch'[b])
  BY <1>6, <1>11, <1>12
<1> QED BY <1>13, <1>14

LEMMA HandOverQueue ==
  ASSUME WorkInv, QueueInv, [Next]_vars, NEW p \in Procs, HandOver(p), NEW x \in Procs
  PROVE  Pipe(x)'
<1>1. PICK g \in unsent[p] :
        /\ g \in Grant
        /\ unsent' = [unsent EXCEPT ![p] = @ \ {g}]
        /\ \/ updates' = [updates EXCEPT ![p] = @ \o EventsOf(g)] /\ UNCHANGED job
           \/ UNCHANGED updates /\ RejectPayload(g)
  BY HandOverCases
<1>2. updates \in [Procs -> Seq(Event)] /\ unsent \in [Procs -> SUBSET Grant]
  BY DEF WorkInv, TypeOK
<1>3. unsent'[x] = IF x = p THEN unsent[p] \ {g} ELSE unsent[x]
  BY <1>1, <1>2
<1>4. Whole(updates[x]) /\ Grouped(updates[x])
  BY DEF QueueInv
<1>5. CASE updates'[x] = updates[x]
  BY <1>3, <1>4, <1>5, PipeShrinks
<1>6. CASE x = p /\ updates'[x] = updates[p] \o EventsOf(g)
  <2>1. /\ g \notin Grants(updates[p]) /\ g.token <= job[g.req].gen
        /\ unsent[p] \cap Grants(updates[p]) = {}
        /\ \A h \in unsent[p] \cup Grants(updates[p]) : h.token <= job[h.req].gen
    BY DEF QueueInv
  <2>2. /\ Whole(updates'[x]) /\ Grouped(updates'[x])
        /\ Grants(updates'[x]) \subseteq Grants(updates[p]) \cup {g}
    BY <1>1, <1>2, <1>4, <1>6, <2>1, QueuedIsWhole
  <2>3. unsent'[x] \cap Grants(updates'[x]) = {}
    BY <1>3, <1>6, <2>1, <2>2
  <2>4. unsent[p] \subseteq Grant /\ Grants(updates[p]) \subseteq Grant
    BY <1>2, GrantsType
  <2>5. \A h \in unsent'[x] \cup Grants(updates'[x]) : h.token <= job'[h.req].gen
    BY <1>1, <1>3, <1>6, <2>1, <2>2, <2>4, TokensStayOld
  <2> QED BY <2>2, <2>3, <2>5 DEF Pipe, Grants
<1> QED BY <1>1, <1>2, <1>5, <1>6

LEMMA DispatchQueue ==
  ASSUME WorkInv, QueueInv, [Next]_vars, NEW p \in Procs, Dispatch(p), NEW x \in Procs
  PROVE  Pipe(x)'
<1> DEFINE R == {r \in Requests : Dispatchable(job[r])}
           G == {[req |-> r, token |-> job[r].gen + 1] : r \in R}
<1>1. /\ job' = [r \in Requests |-> IF r \in R THEN Leased(job[r]) ELSE job[r]]
      /\ unsent' = [unsent EXCEPT ![p] = G] /\ updates' = updates
  BY DEF Dispatch, channel
<1>2. \A r \in Requests : job[r] \in Row /\ job[r].gen \in Nat
  BY DEF WorkInv, TypeOK, Row
<1>3. /\ \A g \in unsent[x] \cup Grants(updates[x]) : g.token <= job[g.req].gen
      /\ Whole(updates[x]) /\ Grouped(updates[x])
  BY DEF QueueInv
<1>4. \A g \in G : g.req \in R /\ g.token = job[g.req].gen + 1
  OBVIOUS
<1>5. CASE x # p
  <2>1. unsent'[x] = unsent[x] /\ updates'[x] = updates[x]
    BY <1>1, <1>5 DEF WorkInv, TypeOK
  <2> QED BY <1>3, <2>1, PipeShrinks
<1>6. CASE x = p
  <2>1. unsent'[x] = G /\ updates'[x] = updates[x]
    BY <1>1, <1>6 DEF WorkInv, TypeOK
  <2>2. Grants(updates[x]) \subseteq Grant
    BY GrantsType DEF WorkInv, TypeOK
  <2>3. \A g \in Grants(updates[x]) : g.req \in Requests /\ g.token \in Nat
    BY <2>2 DEF Grant
  <2>4. G \cap Grants(updates[x]) = {}
    <3> SUFFICES ASSUME NEW g \in G, g \in Grants(updates[x]) PROVE FALSE
      OBVIOUS
    <3>1. g.token = job[g.req].gen + 1 /\ g.token <= job[g.req].gen /\ job[g.req].gen \in Nat
      BY <1>2, <1>3, <1>4, <2>3
    <3> QED BY <3>1
  <2>5. \A g \in G : g.token <= job'[g.req].gen
    <3> SUFFICES ASSUME NEW g \in G PROVE g.token <= job'[g.req].gen
      OBVIOUS
    <3>1. g.req \in Requests /\ job'[g.req] = Leased(job[g.req]) /\ g.token = job[g.req].gen + 1
      BY <1>1, <1>4
    <3>2. Leased(job[g.req]).gen = job[g.req].gen + 1
      BY <1>2, <3>1, LeasedFields
    <3> QED BY <1>2, <3>1, <3>2
  <2>6. \A g \in Grants(updates[x]) : g.token <= job'[g.req].gen
    BY <1>3, <2>2, TokensStayOld
  <2> HIDE DEF G
  <2>7. \A g \in unsent'[x] \cup Grants(updates'[x]) : g.token <= job'[g.req].gen
    BY <2>1, <2>5, <2>6
  <2> QED BY <1>3, <2>1, <2>4, <2>7 DEF Pipe, Grants
<1> QED BY <1>5, <1>6

QueuesKept ==
  /\ \A p \in Procs : updates'[p] \in {updates[p], <<>>} /\ unsent'[p] \subseteq unsent[p]
  /\ \A a \in Appliers : batch'[a] \in {batch[a], <<>>}

(* Every other step leaves the queues alone or clears them, and drops what *)
(* it does not keep of the rest.                                           *)
LEMMA OtherQueues ==
  ASSUME WorkInv, [Next]_vars, \A p \in Procs : ~HandOver(p) /\ ~Dispatch(p), \A a \in Appliers : ~Take(a)
  PROVE  QueuesKept
<1>0. /\ unsent \in [Procs -> SUBSET Grant] /\ updates \in [Procs -> Seq(Event)]
      /\ batch \in [Appliers -> Seq(Event)]
  BY DEF WorkInv, TypeOK
<1>1. unsent' = unsent /\ updates' = updates /\ batch' = batch => QueuesKept
  BY DEF QueuesKept
<1>2. ASSUME NEW p \in Procs, updates' = updates, batch' = batch, unsent' = [unsent EXCEPT ![p] = {}]
      PROVE  QueuesKept
  BY <1>0, <1>2 DEF QueuesKept
<1>3. ASSUME NEW p \in Procs, Crash(p) \/ Boot(p)
      PROVE  QueuesKept
  <2>1. /\ unsent' = [unsent EXCEPT ![p] = {}] /\ updates' = [updates EXCEPT ![p] = <<>>]
        /\ batch' = [a \in Appliers |-> IF HomeOf[a] = p THEN <<>> ELSE batch[a]]
    BY <1>3 DEF Crash, Boot, Reset
  <2> QED BY <1>0, <2>1 DEF QueuesKept
<1>4. ASSUME NEW a \in Appliers, Apply(a) \/ ApplyFails(a)
      PROVE  QueuesKept
  <2>1. unsent' = unsent /\ updates' = updates /\ batch' = [batch EXCEPT ![a] = <<>>]
    BY <1>4 DEF Apply, ApplyFails, worker
  <2> QED BY <1>0, <2>1 DEF QueuesKept
<1>5. ASSUME NEW p \in Procs,
             \/ Release(p) \/ Fail(p) \/ RejectAnswer(p) \/ LoseClaim(p) \/ Respond(p)
             \/ NothingReady(p) \/ HandedOver(p) \/ DispatchFails(p) \/ Cancel(p)
      PROVE  QueuesKept
  <2>1. updates' = updates /\ batch' = batch /\ unsent' = [unsent EXCEPT ![p] = {}]
    BY <1>5 DEF Release, TakeBack, Fail, RejectAnswer, Respond, LoseClaim, NothingReady, HandedOver,
       DispatchFails, Cancel, Reset, channel
  <2> QED BY <1>2, <2>1
<1>6. ASSUME NEW p \in Procs, Refill(p) \/ Ask(p) \/ \E r \in Requests : Claim(p, r)
      PROVE  QueuesKept
  BY <1>1, <1>6 DEF Refill, Ask, Claim, worker, channel
<1>7. ASSUME NEW r \in Requests, Enqueue(r) \/ RunOutInUse(r) \/ RunOutUnused(r)
      PROVE  QueuesKept
  BY <1>1, <1>7 DEF Enqueue, RunOutInUse, RunOutUnused, RunOut, worker, channel
<1>8. CASE UNCHANGED vars
  BY <1>1, <1>8 DEF vars, worker, channel
<1> QED BY <1>3, <1>4, <1>5, <1>6, <1>7, <1>8 DEF Next, Work

LEMMA NextQueue == ASSUME WorkInv, QueueInv, [Next]_vars PROVE QueueInv'
<1>0. /\ \A p \in Procs : Whole(updates[p]) /\ Grouped(updates[p])
      /\ \A a \in Appliers : Whole(batch[a])
  BY DEF QueueInv
<1>1. ASSUME NEW p \in Procs, HandOver(p) \/ Dispatch(p)
      PROVE  QueueInv'
  <2>1. \A x \in Procs : Pipe(x)'
    BY <1>1, HandOverQueue, DispatchQueue
  <2>2. batch' = batch
    BY <1>1 DEF HandOver, Dispatch, channel
  <2> QED BY <1>0, <2>1, <2>2 DEF QueueInv, Pipe
<1>2. ASSUME NEW a \in Appliers, Take(a)
      PROVE  QueueInv'
  <2>1. unsent' = unsent
    BY <1>2 DEF Take, worker
  <2>2. \A x \in Procs : Pipe(x)'
    BY <1>2, <2>1, TakeQueues, PipeShrinks
  <2>3. \A b \in Appliers : Whole(batch'[b])
    BY <1>2, TakeQueues
  <2> QED BY <2>2, <2>3 DEF QueueInv, Pipe
<1>3. CASE (\A p \in Procs : ~HandOver(p) /\ ~Dispatch(p)) /\ \A a \in Appliers : ~Take(a)
  <2>1. /\ \A p \in Procs : updates'[p] \in {updates[p], <<>>} /\ unsent'[p] \subseteq unsent[p]
        /\ \A a \in Appliers : batch'[a] \in {batch[a], <<>>}
    BY <1>3, OtherQueues DEF QueuesKept
  <2>2. \A p \in Procs : /\ Whole(updates'[p]) /\ Grouped(updates'[p])
                         /\ Grants(updates'[p]) \subseteq Grants(updates[p])
    BY <1>0, <2>1, NothingQueued
  <2>3. \A x \in Procs : Pipe(x)'
    BY <2>1, <2>2, PipeShrinks
  <2>4. \A a \in Appliers : Whole(batch'[a])
    BY <1>0, <2>1, NothingQueued
  <2> QED BY <2>3, <2>4 DEF QueueInv, Pipe
<1> QED BY <1>1, <1>2, <1>3

LEMMA InitQueue == ASSUME Init PROVE QueueInv
<1>1. /\ \A p \in Procs : updates[p] = <<>> /\ unsent[p] = {}
      /\ \A a \in Appliers : batch[a] = <<>>
  BY DEF Init
<1> QED BY <1>1, NothingQueued DEF QueueInv

LEMMA SpecQueueInv == Spec => []QueueInv
<1>1. WorkInv /\ QueueInv /\ [Next]_vars => QueueInv'
  BY NextQueue
<1> QED BY InitQueue, SpecWorkInv, <1>1, PTL DEF Spec

-----------------------------------------------------------------------------
(* The graph.                                                              *)
LEMMA CountOfWhole ==
  ASSUME NEW q \in Seq(Event), Whole(q),
         \A g, h \in Grants(q) : h.req = g.req => h = g,
         NEW r \in Requests, NEW n \in Parts
  PROVE  Count(q, r, n) = IF InGrants(q, r) THEN 1 ELSE 0
<1> DEFINE S == {i \in 1..Len(q) : q[i].req = r /\ q[i].part = n}
<1>1. \A i \in 1..Len(q) : [req |-> q[i].req, token |-> q[i].token] \in Grants(q)
  BY DEF Grants
<1>2. CASE ~InGrants(q, r)
  <2>1. S = {}
    BY <1>1, <1>2 DEF InGrants
  <2> QED BY <1>2, <2>1, FS_EmptySet DEF Count
<1>3. CASE InGrants(q, r)
  <2>1. PICK i \in 1..Len(q) : q[i].req = r
    BY <1>3 DEF InGrants, Grants
  <2>2. PICK k \in 1..Len(q) : SameAnswer(q, i, k) /\ q[k].part = n
    BY DEF Whole
  <2>3. ASSUME NEW m \in S PROVE m = k
    <3>1. m \in 1..Len(q) /\ q[m].req = r /\ q[m].part = n
      OBVIOUS
    <3>2. q[m].token = q[k].token
      <4>1. q[k].req = r
        BY <2>1, <2>2 DEF SameAnswer
      <4>2. [req |-> q[m].req, token |-> q[m].token] = [req |-> q[k].req, token |-> q[k].token]
        BY <1>1, <3>1, <4>1
      <4> QED BY <4>2
    <3>3. SameAnswer(q, m, k)
      BY <2>1, <2>2, <3>1, <3>2 DEF SameAnswer
    <3> QED BY <2>2, <3>1, <3>3 DEF Whole
  <2>4. k \in S
    BY <2>1, <2>2 DEF SameAnswer
  <2>5. S = {k}
    BY <2>3, <2>4
  <2>6. Cardinality(S) = 1
    BY <2>5, FS_Singleton
  <2> QED BY <1>3, <2>6 DEF Count
<1> QED BY <1>2, <1>3

LEMMA NextGraph == ASSUME WorkInv, QueueInv, GraphInv, [Next]_vars PROVE GraphInv'
<1>0. \A r \in Requests : job[r] \in Row /\ RowOK(job[r])
  BY DEF WorkInv, TypeOK
<1>1. CASE JobSteps /\ UNCHANGED applied
  BY <1>1 DEF JobSteps, RowStep, GraphInv
<1>2. ASSUME NEW a \in Appliers, Applies(a)
      PROVE  GraphInv'
  <2> SUFFICES ASSUME NEW r \in Requests, NEW n \in Parts
               PROVE  applied'[r][n] = IF job'[r].state = "succeeded" THEN 1 ELSE 0
    BY DEF GraphInv
  <2>1. batch[a] \in Seq(Event) /\ Whole(batch[a])
    BY DEF WorkInv, TypeOK, QueueInv
  <2>2. Count(batch[a], r, n) = IF InGrants(batch[a], r) THEN 1 ELSE 0
    <3>1. \A g, h \in Grants(batch[a]) : h.req = g.req => h = g
      BY <1>2 DEF Applies, Authorized
    <3> QED BY <2>1, <3>1, CountOfWhole
  <2>3. applied'[r][n] = applied[r][n] + Count(batch[a], r, n)
    BY <1>2, AppliesRows
  <2>4. /\ job'[r] = IF InGrants(batch[a], r) THEN Succeeded(job[r]) ELSE job[r]
        /\ InGrants(batch[a], r) => job[r].state = "response_ready"
    BY <1>2, AppliesRows
  <2>5. Succeeded(job[r]).state = "succeeded"
    BY <1>0, SucceededFields
  <2>6. applied[r][n] = IF job[r].state = "succeeded" THEN 1 ELSE 0
    BY DEF GraphInv
  <2> QED BY <2>2, <2>3, <2>4, <2>5, <2>6
<1>3. Plain \/ (\E p \in Procs : Release(p) \/ \E r \in Requests : Claim(p, r)) => JobSteps
  BY PlainSteady, SteadySteps, ClaimRows, ReleaseRows
<1>4. Plain => UNCHANGED applied
  BY DEF Plain, PlainRest, PlainOfWorker, Enqueue, RunOutInUse, RunOutUnused, RunOut, Refill, Ask,
       Fail, RejectAnswer, Respond,
     LoseClaim, Dispatch, NothingReady, HandOver, HandedOver, DispatchFails, Cancel, Crash, Boot,
     Take, ApplyFails, Apply, vars, table
<1>5. \A p \in Procs : Release(p) \/ (\E r \in Requests : Claim(p, r)) => UNCHANGED applied
  BY DEF Release, TakeBack, Claim
<1> QED BY <1>1, <1>2, <1>3, <1>4, <1>5, NextKinds

LEMMA InitGraph == ASSUME Init PROVE GraphInv
  BY DEF Init, GraphInv, NoRow

LEMMA SpecGraphInv == Spec => []GraphInv
<1>1. WorkInv /\ QueueInv /\ GraphInv /\ [Next]_vars => GraphInv'
  BY NextGraph
<1> QED BY InitGraph, SpecWorkInv, SpecQueueInv, <1>1, PTL DEF Spec

(* Each part of an answer is in the graph exactly once when its job has    *)
(* succeeded and not at all otherwise: queues hold whole answers, a batch  *)
(* is authorized by current tokens, one per request, and graph and rows    *)
(* are written together (takeUpdateBatch, persistAutonomousApplyPlan).     *)
THEOREM SpecAppliedExactlyOnce == Spec => []AppliedExactlyOnce
<1>1. WorkInv /\ GraphInv => AppliedExactlyOnce
  BY DEF WorkInv, GraphInv, AppliedExactlyOnce
<1> QED BY SpecWorkInv, SpecGraphInv, <1>1, PTL

-----------------------------------------------------------------------------
(* The refinement of JobLife.                                              *)
PhaseOf(s) ==
  CASE s \in {"pending", "leased", "retry_scheduled"} -> "open"
    [] s = "response_ready" -> "answered"
    [] OTHER -> s

LEMMA Phases ==
  /\ \A r \in Requests : /\ Phase[r] = PhaseOf(job[r].state)
                         /\ Phase'[r] = PhaseOf(job'[r].state)
  /\ Phase = [r \in Requests |-> Phase[r]] /\ Phase' = [r \in Requests |-> Phase'[r]]
  BY DEF Phase, PhaseOf

LEMMA PhaseValues ==
  ASSUME NEW j \in Row
  PROVE  /\ PhaseOf(j.state) = "open" <=> j.state \in {"pending", "leased", "retry_scheduled"}
         /\ PhaseOf(j.state) = "answered" <=> j.state = "response_ready"
         /\ PhaseOf(j.state) = "none" <=> j.state = "none"
         /\ PhaseOf(j.state) = "failed" <=> j.state = "failed"
         /\ PhaseOf(j.state) = "succeeded" <=> j.state = "succeeded"
  BY DEF PhaseOf, Row

(* What a quiet step does to the phase of a request: nothing, or it fails. *)
LEMMA QuietPhase ==
  ASSUME NEW j \in Row, NEW k, Quiet(j, k)
  PROVE  \/ PhaseOf(k.state) = PhaseOf(j.state)
         \/ PhaseOf(j.state) \in {"open", "answered"} /\ PhaseOf(k.state) = "failed"
<1>1. CASE k = j
  BY <1>1
<1>2. CASE j.state \in {"leased", "response_ready"} /\ k = Failed(j)
  <2>1. k.state = "failed"
    BY <1>2, FailedFields
  <2> QED BY <1>2, <2>1 DEF PhaseOf
<1>3. CASE j.state = "leased" /\ k = Rescheduled(j)
  <2>1. k.state = "retry_scheduled"
    BY <1>3, MovedFields, UnleasedFields DEF Rescheduled
  <2> QED BY <1>3, <2>1 DEF PhaseOf
<1>4. CASE j.state = "response_ready" /\ k \in {Unleased(j), Leased(j)}
  BY <1>4, UnleasedFields, LeasedFields
<1>5. CASE j.lease = "live" /\ k = [j EXCEPT !.lease = "expired"]
  <2>1. k.state = j.state
    BY <1>5 DEF Row
  <2> QED BY <2>1
<1> QED BY <1>1, <1>2, <1>3, <1>4, <1>5 DEF Quiet

(* A step in which requests fail at most is a Fail of the abstract queue.  *)
LEMMA FailsAtMost ==
  ASSUME UNCHANGED applied,
         \A r \in Requests :
           \/ PhaseOf(job'[r].state) = PhaseOf(job[r].state)
           \/ PhaseOf(job[r].state) \in {"open", "answered"} /\ PhaseOf(job'[r].state) = "failed"
  PROVE  Life!Next
<1> DEFINE S == {r \in Requests : PhaseOf(job'[r].state) # PhaseOf(job[r].state)}
<1>1. \A r \in S : PhaseOf(job[r].state) \in {"open", "answered"} /\ PhaseOf(job'[r].state) = "failed"
  OBVIOUS
<1>2. S \in SUBSET Life!Unfinished
  BY <1>1, Phases DEF Life!Unfinished
<1>3. \A r \in S : Phase[r] \in {"open", "answered"}
  BY <1>1, Phases
<1>4. \A r \in Requests : Phase'[r] = IF r \in S THEN "failed" ELSE Phase[r]
  BY <1>1, Phases
<1> HIDE DEF S
<1>5. Phase' = [r \in Requests |-> IF r \in S THEN "failed" ELSE Phase[r]]
  BY <1>4, Phases
<1>6. UNCHANGED Graph
  BY DEF Graph
<1>7. Life!Fail(S)
  BY <1>3, <1>5, <1>6 DEF Life!Fail, Life!Enter
<1> QED BY <1>2, <1>7 DEF Life!Next

LEMMA EnqueueOpens ==
  ASSUME WorkInv, NEW r \in Requests, Enqueue(r) PROVE Life!Next
<1>0. \A q \in Requests : job[q] \in Row /\ RowOK(job[q])
  BY DEF WorkInv, TypeOK
<1>1. /\ job[r].state = "none"
      /\ job'[r] = [NoRow EXCEPT !.state = "pending", !.active = TRUE]
      /\ \A q \in Requests \ {r} : job'[q] = job[q]
      /\ UNCHANGED applied
  BY DEF Enqueue, With, WorkInv, TypeOK
<1>2. job'[r].state = "pending"
  BY <1>1 DEF NoRow
<1>3. \A q \in {r} : Phase[q] = "none"
  BY <1>0, <1>1, Phases, PhaseValues
<1>4. \A q \in Requests : Phase'[q] = IF q \in {r} THEN "open" ELSE Phase[q]
  <2>1. Phase'[r] = "open"
    BY <1>2, Phases DEF PhaseOf
  <2> QED BY <1>1, <2>1, Phases
<1>5. Phase' = [q \in Requests |-> IF q \in {r} THEN "open" ELSE Phase[q]]
  BY <1>4, Phases
<1>6. \A q \in Life!Unfinished : TopicOf[q] # TopicOf[r]
  <2> SUFFICES ASSUME NEW q \in Requests, Phase[q] \in {"open", "answered"}
               PROVE  TopicOf[q] # TopicOf[r]
    BY DEF Life!Unfinished
  <2>1. job[q].state \in {"pending", "leased", "retry_scheduled", "response_ready"}
    BY <1>0, Phases, PhaseValues
  <2>2. job[q].active
    BY <1>0, <2>1 DEF RowOK, Finished
  <2> QED BY <2>2 DEF Enqueue
<1>7. UNCHANGED Graph
  BY <1>1 DEF Graph
<1>8. Life!Open(r)
  BY <1>3, <1>5, <1>6, <1>7 DEF Life!Open, Life!Enter
<1> QED BY <1>8 DEF Life!Next

LEMMA RespondAnswers ==
  ASSUME WorkInv, NEW p \in Procs, Respond(p) PROVE [Life!Next]_<<Phase, Graph>>
<1>0. \A q \in Requests : job[q] \in Row
  BY DEF WorkInv, TypeOK
<1>1. UNCHANGED Graph
  BY DEF Respond, Graph
<1>2. CASE UNCHANGED job
  BY <1>1, <1>2 DEF Phase
<1>3. CASE ~UNCHANGED job
  <2>1. PICK r \in Requests : r = claim[p].req
    BY DEF Respond, WorkInv, Grant
  <2>2. /\ job[r].state = "leased" /\ job'[r] = Answered(job[r])
        /\ \A q \in Requests \ {r} : job'[q] = job[q]
    BY <1>3, <2>1 DEF Respond, Holds, With, WorkInv, TypeOK
  <2>3. job'[r].state = "response_ready"
    BY <1>0, <2>2, MovedFields, UnleasedFields DEF Answered
  <2>4. \A q \in {r} : Phase[q] \in {"open"}
    BY <2>2, Phases DEF PhaseOf
  <2>5. \A q \in Requests : Phase'[q] = IF q \in {r} THEN "answered" ELSE Phase[q]
    <3>1. Phase'[r] = "answered"
      BY <2>3, Phases DEF PhaseOf
    <3> QED BY <2>2, <3>1, Phases
  <2>6. Phase' = [q \in Requests |-> IF q \in {r} THEN "answered" ELSE Phase[q]]
    BY <2>5, Phases
  <2>7. Life!Answer(r)
    BY <1>1, <2>4, <2>6 DEF Life!Answer, Life!Enter
  <2> QED BY <2>7 DEF Life!Next
<1> QED BY <1>2, <1>3

LEMMA ApplySucceeds ==
  ASSUME WorkInv, GraphInv, GraphInv', NEW a \in Appliers, Applies(a) PROVE Life!Next
<1> DEFINE S == {r \in Requests : InGrants(batch[a], r)}
<1>0. \A r \in Requests : job[r] \in Row
  BY DEF WorkInv, TypeOK
<1>1. \A r \in Requests :
        /\ r \in S => job[r].state = "response_ready" /\ job'[r] = Succeeded(job[r])
        /\ r \notin S => job'[r] = job[r]
  BY AppliesRows
<1>2. \A r \in S : job[r].state = "response_ready" /\ job'[r].state = "succeeded"
  BY <1>0, <1>1, SucceededFields
<1>3. S \in SUBSET Requests
  OBVIOUS
<1> HIDE DEF S
<1>4. \A r \in S : Phase[r] = "answered" /\ Phase'[r] = "succeeded"
  BY <1>2, <1>3, Phases DEF PhaseOf
<1>5. \A r \in Requests : Phase'[r] = IF r \in S THEN "succeeded" ELSE Phase[r]
  <2>1. \A r \in Requests \ S : Phase'[r] = Phase[r]
    BY <1>1, Phases
  <2> QED BY <1>4, <2>1
<1>6. Phase' = [r \in Requests |-> IF r \in S THEN "succeeded" ELSE Phase[r]]
  BY <1>5, Phases
<1>7. Graph' = Graph \cup (S \X Parts)
  <2>1. \A r \in Requests, n \in Parts :
          /\ applied[r][n] > 0 <=> job[r].state = "succeeded"
          /\ applied'[r][n] > 0 <=> job'[r].state = "succeeded"
    BY DEF GraphInv
  <2>2. \A r \in Requests : job'[r].state = "succeeded" <=> (job[r].state = "succeeded" \/ r \in S)
    BY <1>1, <1>2
  <2>3. Graph = {e \in Requests \X Parts : job[e[1]].state = "succeeded"}
    BY <2>1 DEF Graph
  <2>4. Graph' = {e \in Requests \X Parts : job'[e[1]].state = "succeeded"}
    BY <2>1 DEF Graph
  <2> QED BY <1>3, <2>2, <2>3, <2>4
<1>8. S \in SUBSET Life!Unfinished
  BY <1>3, <1>4 DEF Life!Unfinished
<1>9. Life!Succeed(S)
  BY <1>4, <1>6, <1>7 DEF Life!Succeed, Life!Enter
<1> QED BY <1>8, <1>9 DEF Life!Next

LEMMA NextLife ==
  ASSUME WorkInv, GraphInv, GraphInv', [Next]_vars PROVE [Life!Next]_<<Phase, Graph>>
<1>0. TypeOK /\ \A r \in Requests : job[r] \in Row
  BY DEF WorkInv, TypeOK
<1>1. CASE PlainRest
  <2>1. UNCHANGED applied
    BY <1>1 DEF PlainRest, PlainOfWorker, RunOutInUse, RunOutUnused, RunOut, Refill, Ask, Fail,
       RejectAnswer, LoseClaim, Dispatch, NothingReady, HandOver, HandedOver, DispatchFails,
       Cancel, Crash, Boot, Take, ApplyFails, Apply, vars, table
  <2> QED BY <1>0, <1>1, <2>1, PlainRestQuiet, QuietPhase, FailsAtMost DEF JobQuiet
<1>2. ASSUME NEW p \in Procs, NEW r \in Requests, Claim(p, r)
      PROVE  Life!Next
  <2>1. UNCHANGED applied
    BY <1>2 DEF Claim
  <2>2. /\ Claimed(job[r], job'[r])
        /\ \A q \in Requests \ {r} : Quiet(job[q], job'[q])
    BY <1>0, <1>2, ClaimRows, SweepQuiet
  <2>3. job[r].state \in {"pending", "retry_scheduled", "leased"} /\ job'[r].state = "leased"
    <3>1. PICK u \in Row : u = Leased(job[r])
      BY <1>0, LeasedFields
    <3>2. [u EXCEPT !.state = "leased", !.attempts = @ + 1].state = "leased"
      BY DEF Row
    <3> QED BY <2>2, <3>1, <3>2 DEF Claimed, Claimable
  <2>4. PhaseOf(job'[r].state) = PhaseOf(job[r].state)
    BY <2>3 DEF PhaseOf
  <2> QED BY <1>0, <2>1, <2>2, <2>4, QuietPhase, FailsAtMost
<1>3. ASSUME NEW p \in Procs, Release(p)
      PROVE  Life!Next
  <2>1. UNCHANGED applied
    BY <1>3 DEF Release, TakeBack
  <2>2. PICK r \in Requests : r = claim[p].req
    BY <1>3, ReleaseRows
  <2>3. \A q \in Requests \ {r} : job'[q] = job[q]
    BY <1>3, <2>2, ReleaseRows
  <2>4. job'[r] = job[r] \/ (job[r].state = "leased" /\ job'[r].state = "pending")
    <3>1. PICK u \in Row : u = Unleased(job[r])
      BY <1>0, UnleasedFields
    <3>2. [u EXCEPT !.state = "pending", !.attempts = IF @ > 0 THEN @ - 1 ELSE 0].state = "pending"
      BY DEF Row
    <3>3. \/ UNCHANGED job
          \/ /\ job[r].state = "leased"
             /\ job' = [job EXCEPT ![r] = [u EXCEPT !.state = "pending",
                                                     !.attempts = IF @ > 0 THEN @ - 1 ELSE 0]]
      BY <1>3, <2>2, <3>1 DEF Release, TakeBack, Holds, With
    <3> QED BY <1>0, <3>2, <3>3 DEF TypeOK
  <2>5. PhaseOf(job'[r].state) = PhaseOf(job[r].state)
    BY <2>4 DEF PhaseOf
  <2>6. \A q \in Requests : PhaseOf(job'[q].state) = PhaseOf(job[q].state)
    BY <2>3, <2>5
  <2> QED BY <2>1, <2>6, FailsAtMost
<1> QED BY <1>1, <1>2, <1>3, NextKinds, EnqueueOpens, RespondAnswers, ApplySucceeds DEF Plain

LEMMA InitLife == ASSUME Init PROVE Life!Init
<1>1. \A r \in Requests : job[r].state = "none"
  BY DEF Init, NoRow
<1>2. Phase = [r \in Requests |-> "none"]
  BY <1>1 DEF Phase
<1>3. Graph = {}
  BY DEF Init, Graph
<1> QED BY <1>2, <1>3 DEF Life!Init

(* The durable queue implements the life of a request: it is opened when   *)
(* no other of its topic is unfinished, answered once, and put into the    *)
(* graph whole and with its success, or failed, whatever stale workers,    *)
(* dispatchers and appliers do.                                            *)
THEOREM SpecImplementsJobLife == Spec => ImplementsJobLife
<1>1. WorkInv /\ GraphInv /\ GraphInv' /\ [Next]_vars => [Life!Next]_<<Phase, Graph>>
  BY NextLife
<1> QED BY InitLife, SpecWorkInv, SpecGraphInv, <1>1, PTL DEF Spec, ImplementsJobLife, Life!Spec
=============================================================================
