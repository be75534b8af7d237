---------------------------- MODULE NetworkOwner ----------------------------
(***************************************************************************)
(* The semantic network of a session and the learned relations that reach  *)
(* it (Runtime/Session/Autonomous.hs).  A turn works on a copy of the      *)
(* network; the update events of the learning worker are admitted in       *)
(* batches, in the background or after a turn, each batch in one           *)
(* transaction that inserts rows of semantic_edges_runtime.  In unattended *)
(* mode the network has an owner, on whose newest value a finished turn is *)
(* rebased; otherwise it is the one of the session.  Leases, tokens and    *)
(* batch sizes are LearningJobs's; here an event whose batch fails is      *)
(* dispatched again.                                                       *)
(***************************************************************************)
EXTENDS Naturals, Sequences, FiniteSets, SequencesExt

CONSTANTS
  Keys, Opposite(_),      \* (from, to) of edges, and (to, from)
  Events,                 \* update events, one edge each
  KeyOf(_), RelOf(_),     \* of the edge
  KindOf(_),              \* the admission decision of an event
  AnswerOf(_),            \* its response hash
  SeedNetworks,           \* seed networks the session may be built from
  Tuned,                  \* confidences of the relation weight overlay
  DenseSize,              \* edges that make a network dense (50 in the code)
  MaxTurns, MaxOpens, MaxFailures,
  None

ASSUME NetworkBoundsAssumption ==
  MaxTurns \in Nat /\ MaxOpens \in Nat /\ MaxFailures \in Nat

ASSUME EventsAssumption ==
  /\ IsFiniteSet(Events)
  /\ \A e \in Events : KeyOf(e) \in Keys
  /\ \A k \in Keys : Opposite(k) \in Keys

VARIABLES
  unattended,  \* the network has an owner
  seed,        \* the network built from the resources
  net,         \* the network: of the owner, or of the session
  stage,       \* how far a turn has come
  snapshot,    \* the network it works on
  mine,        \* the network it finalized
  updated,     \* without an owner: that network after the batch
  batch,       \* the batch of the turn
  taken,       \* the batch of the background thread
  queue,       \* ahUpdateQueue
  status,      \* of each event: to be dispatched, dispatched, applied
  edgeRows,    \* semantic_edges_runtime in the order of their ids
  evidence,    \* the admitted and corroborated learning events
  finished, opens, failures,
  forgotten    \* keys whose rows a failed follow-up kept from the session

turn        == <<stage, snapshot, mine, updated, batch>>
durable     == <<edgeRows, evidence>>
bounds      == <<finished, opens, failures>>
networkVars == <<unattended, seed, net, turn, taken, queue, status, durable,
                 bounds, forgotten>>

Nothing == [k \in Keys |-> None]

(* authorityRankDouble, in percent, of the provenances that occur. *)
AuthorityRank == [curated |-> 95, runtime |-> 55, feedback |-> 50, corpus |-> 45]
Authoritative(e) == e.prov \in {"curated", "runtime"}

Edge(prov, rel, conf) ==
  [prov |-> prov, rel |-> rel, conf |-> conf, co |-> 1, note |-> FALSE]

Relations ==
  {RelOf(e) : e \in Events} \cup {"none", "contrasts"}
    \cup UNION {{s[k].rel : k \in {x \in Keys : s[x] # None}} : s \in SeedNetworks}
Edges ==
  [prov : DOMAIN AuthorityRank, rel : Relations, conf : 0..100, co : Nat \ {0},
   note : BOOLEAN]

(* The resources hold no learned edge: those are in the table. *)
ASSUME SeedsAssumption ==
  /\ None \notin Edges
  /\ SeedNetworks \subseteq [Keys -> Edges \cup {None}]
  /\ \A s \in SeedNetworks, k \in Keys : s[k] # None => s[k].prov # "runtime"
  /\ Tuned \in [Keys -> Nat \cup {None}]

(* Mutant: a merge by confidence alone. *)
MergeEdgeByConfidence(old, new) == IF old.conf > new.conf THEN old ELSE new

(* mergeSemanticEdge: authority, then confidence, then the second edge. *)
MergeEdge(old, new) ==
  IF \/ Authoritative(old) /\ ~Authoritative(new)
     \/ (Authoritative(old) <=> Authoritative(new)) /\ old.conf > new.conf
  THEN old ELSE new

MergeAt(old, new) ==
  CASE new = None -> old
    [] old = None -> new
    [] OTHER -> MergeEdge(old, new)

Merge(first, second) == [k \in Keys |-> MergeAt(first[k], second[k])]

(* Mutant: the network of the turn replaces the owner's. *)
RebaseOverwrites(from, current, final) == final

(* rebaseSemanticNetwork.  What the turn left alone is the owner's; what    *)
(* only the turn changed is the turn's; the rest is merged, and a deletion *)
(* yields.                                                                 *)
Rebase(from, current, final) ==
  [k \in Keys |-> CASE final[k] = from[k]   -> current[k]
                    [] current[k] = from[k] -> final[k]
                    [] OTHER                -> MergeAt(current[k], final[k])]

-----------------------------------------------------------------------------
(* What a turn does to its network: the meaning graph is merged in, then    *)
(* the user's remark changes an edge of the last activation.               *)
CorpusEdge == Edge("corpus", "none", 100)

Observe(n, seen) ==
  Merge(n, [k \in Keys |-> IF k \in seen THEN CorpusEdge ELSE None])

Adjust(n, k, e) == IF n[k] = None THEN n ELSE [n EXCEPT ![k] = e]

Least(a, b) == IF a < b THEN a ELSE b
Lowered(conf) == IF conf < 25 THEN 10 ELSE conf - 15

ApplyAccept(n, k) == Adjust(n, k, [n[k] EXCEPT !.conf = Least(100, @ + 10)])
ApplyClarify(n, k) == Adjust(n, k, [n[k] EXCEPT !.note = TRUE])
ApplyChallenge(n, k) ==
  LET m == Adjust(n, k, [n[k] EXCEPT !.conf = Lowered(@)])
  IN  IF m[Opposite(k)] = None
      THEN [m EXCEPT ![Opposite(k)] = Edge("feedback", "contrasts", 30)]
      ELSE m

Remarks(n) ==
  {n} \cup UNION {{ApplyAccept(n, k), ApplyChallenge(n, k), ApplyClarify(n, k)} :
                    k \in Keys}

-----------------------------------------------------------------------------
(* The admission of a batch (planEvent): a plan is a network, the rows to   *)
(* insert, the rows to count up, and the evidence.                         *)
Row(k, rel) == [key |-> k, rel |-> rel, conf |-> 60, co |-> 1]
Learned(row) ==
  [prov |-> "runtime", rel |-> row.rel, conf |-> row.conf, co |-> row.co,
   note |-> FALSE]

SameRelation(old, e) == old.prov = "runtime" /\ old.rel = RelOf(e)

Evidence(e) ==
  [key |-> KeyOf(e), rel |-> RelOf(e), request |-> e, answer |-> AnswerOf(e)]
(* Mutant: an answer that was already counted is counted again. *)
DuplicateByRequest(known, e) ==
  \E x \in known : x.key = KeyOf(e) /\ x.rel = RelOf(e) /\ x.request = e

Duplicate(known, e) ==
  \E x \in known : /\ x.key = KeyOf(e) /\ x.rel = RelOf(e)
                   /\ x.request = e \/ x.answer = AnswerOf(e)

Admits(old, e) ==
  /\ KindOf(e) = "candidate"
  /\ IF old = None THEN TRUE ELSE AuthorityRank[old.prov] < AuthorityRank["runtime"]
Corroborates(old, known, e) ==
  /\ KindOf(e) # "conflict" /\ old # None
  /\ SameRelation(old, e) /\ ~Duplicate(known, e)

(* planEdge; an edge that is rejected or quarantined changes nothing here. *)
PlanEvent(plan, e) ==
  LET k   == KeyOf(e)
      old == plan.net[k]
  IN  IF Admits(old, e)
      THEN [net       |-> [plan.net EXCEPT ![k] = Edge("runtime", RelOf(e), 60)],
            inserts   |-> Append(plan.inserts, Row(k, RelOf(e))),
            countUps  |-> plan.countUps,
            evidence  |-> plan.evidence \cup {Evidence(e)}]
      ELSE IF Corroborates(old, plan.evidence, e)
      THEN [net       |-> [plan.net EXCEPT ![k].co = @ + 1],
            inserts   |-> plan.inserts,
            countUps  |-> Append(plan.countUps, [key |-> k, rel |-> RelOf(e)]),
            evidence  |-> plan.evidence \cup {Evidence(e)}]
      ELSE plan

Plan(original, events) ==
  LET upTo[n \in 0..Len(events)] ==
        IF n = 0 THEN [net |-> original, inserts |-> <<>>, countUps |-> <<>>,
                       evidence |-> evidence]
        ELSE PlanEvent(upTo[n - 1], events[n])
  IN  upTo[Len(events)]

RowsOf(table, k, rel) ==
  {i \in DOMAIN table : table[i].key = k /\ table[i].rel = rel}
Newest(S) == CHOOSE i \in S : \A j \in S : j <= i

(* corroborateRuntimeEdgeOnConnection counts up the newest row of the      *)
(* relation and raises if there is none.                                   *)
CountUp(table, c) ==
  LET found == RowsOf(table, c.key, c.rel)
  IN  [table EXCEPT ![Newest(found)].co = @ + 1]
Persistable(plan) ==
  \A i \in DOMAIN plan.countUps :
    RowsOf(edgeRows \o plan.inserts, plan.countUps[i].key, plan.countUps[i].rel) # {}
Persisted(plan) ==
  LET upTo[n \in 0..Len(plan.countUps)] ==
        IF n = 0 THEN edgeRows \o plan.inserts
        ELSE CountUp(upTo[n - 1], plan.countUps[n])
  IN  upTo[Len(plan.countUps)]

(* persistAutonomousApplyPlan: one transaction for rows, evidence and jobs. *)
Commit(plan, events) ==
  /\ Persistable(plan)
  /\ edgeRows' = Persisted(plan)
  /\ evidence' = plan.evidence
  /\ status' = [e \in Events |-> IF e \in ToSet(events) THEN "applied" ELSE status[e]]

(* applyPendingUpdateBatch: a batch that cannot be written leaves the       *)
(* network alone, and the leases of its events run out.                    *)
Redispatch(events) ==
  /\ status' = [e \in Events |-> IF e \in ToSet(events) THEN "ready" ELSE status[e]]
  /\ UNCHANGED durable

Failure == failures < MaxFailures /\ failures' = failures + 1

(* What the batch makes of a network, written or not. *)
Apply(original, events, result) ==
  LET plan == Plan(original, events)
  IN  \/ Commit(plan, events) /\ result = plan.net /\ UNCHANGED failures
      \/ ~Persistable(plan) /\ Redispatch(events) /\ result = original
         /\ UNCHANGED failures
      \/ events # <<>> /\ Failure /\ Redispatch(events) /\ result = original

-----------------------------------------------------------------------------
(* Bootstrap: the seed network, over it the last row of each key, then the *)
(* confidences of a restored network and of the overlay file.              *)
RowsAt(k) == {i \in DOMAIN edgeRows : edgeRows[i].key = k}
Projection ==
  [k \in Keys |-> IF RowsAt(k) = {} THEN None ELSE Learned(edgeRows[Newest(RowsAt(k))])]

Overlay(fresh, conf) ==
  [k \in Keys |->
     IF fresh[k] = None \/ conf[k] = None THEN fresh[k]
     ELSE [fresh[k] EXCEPT !.conf = Least(95, (30 * @ + 70 * conf[k]) \div 100)]]

Confidences(n) == [k \in Keys |-> IF n[k] = None THEN None ELSE n[k].conf]
Dense(n) == Cardinality({k \in Keys : n[k] # None}) >= DenseSize

(* The stored state holds no network (canonicalizePersistedState), and      *)
(* restored0 has the one just built: it is laid over itself.               *)
Bootstrapped(from, saved) ==
  LET final    == Merge(from, Projection)
      restored == final
      overlaid == IF saved /\ Dense(restored)
                  THEN Overlay(final, Confidences(restored)) ELSE final
  IN  Overlay(overlaid, Tuned)

Idle ==
  /\ stage' = "idle" /\ snapshot' = Nothing /\ mine' = Nothing
  /\ updated' = Nothing /\ batch' = <<>>

NetworkInit ==
  /\ unattended \in BOOLEAN /\ seed \in SeedNetworks
  /\ net = Overlay(seed, Tuned)
  /\ stage = "idle" /\ snapshot = Nothing /\ mine = Nothing /\ updated = Nothing
  /\ batch = <<>> /\ taken = <<>> /\ queue = <<>>
  /\ status = [e \in Events |-> "ready"]
  /\ edgeRows = <<>> /\ evidence = {}
  /\ finished = 0 /\ opens = 1 /\ failures = 0
  /\ forgotten = {}

(* The process ends at any moment, by a crash or when the session closes,   *)
(* and the session is opened again, in either mode.                        *)
Reopen ==
  /\ opens < MaxOpens /\ opens' = opens + 1
  /\ unattended' \in BOOLEAN
  /\ net' = Bootstrapped(seed, finished > 0)
  /\ Idle /\ taken' = <<>> /\ queue' = <<>>
  /\ status' = [e \in Events |-> IF status[e] = "applied" THEN "applied" ELSE "ready"]
  /\ UNCHANGED <<seed, durable, finished, failures, forgotten>>

(* The worker dispatches an event; a confirmation or conflict answers a     *)
(* question about an edge that was admitted.                               *)
Dispatch(e) ==
  /\ status[e] = "ready"
  /\ KindOf(e) # "candidate" => \E x \in evidence : x.key = KeyOf(e)
  /\ queue' = Append(queue, e)
  /\ status' = [status EXCEPT ![e] = "out"]
  /\ UNCHANGED <<unattended, seed, net, turn, taken, durable, bounds, forgotten>>

-----------------------------------------------------------------------------
(* A turn (continueTurn). *)
BeginTurn ==
  /\ stage = "idle" /\ finished < MaxTurns
  /\ stage' = "thinking" /\ snapshot' = net
  /\ UNCHANGED <<unattended, seed, net, mine, updated, batch, taken, queue, status,
                 durable, bounds, forgotten>>

(* Blocked or raised: the session value is the old one. *)
TurnStops ==
  /\ stage = "thinking" /\ Idle
  /\ UNCHANGED <<unattended, seed, net, taken, queue, status, durable, bounds,
                 forgotten>>

(* buildNextSystemState and the durable save. *)
FinishTurn ==
  /\ stage = "thinking" /\ stage' = "saved" /\ finished' = finished + 1
  /\ \E seen \in SUBSET Keys :
       /\ \A k \in seen : Opposite(k) \in seen
       /\ mine' \in Remarks(Observe(snapshot, seen))
  /\ UNCHANGED <<unattended, seed, net, snapshot, updated, batch, taken, queue, status,
                 durable, opens, failures, forgotten>>

(* The follow-up raises before the commit: the session takes the network    *)
(* of the turn, the owner does not see it.                                 *)
FollowUpFails ==
  /\ stage = "saved" /\ Failure /\ Idle
  /\ net' = IF unattended THEN net ELSE mine
  /\ UNCHANGED <<unattended, seed, taken, queue, status, durable, finished, opens,
                 forgotten>>

TakeBatch ==
  /\ stage = "saved" /\ stage' = "committing"
  /\ batch' = queue /\ queue' = <<>>
  /\ UNCHANGED <<unattended, seed, net, snapshot, mine, updated, taken, status, durable,
                 bounds, forgotten>>

(* commitSemanticNetworkTurnWith, under the MVar of the owner if there is one. *)
CommitOwned ==
  /\ stage = "committing" /\ unattended /\ stage' = "committed"
  /\ \E withPending \in {net, Plan(net, batch).net} :
       /\ Apply(net, batch, withPending)
       /\ net' = Rebase(snapshot, withPending, mine)
  /\ UNCHANGED <<unattended, seed, snapshot, mine, updated, batch, taken, queue, finished,
                 opens, forgotten>>

CommitUnowned ==
  /\ stage = "committing" /\ ~unattended /\ stage' = "committed"
  /\ \E withPending \in {mine, Plan(mine, batch).net} :
       /\ Apply(mine, batch, withPending)
       /\ updated' = withPending
  /\ UNCHANGED <<unattended, seed, net, snapshot, mine, batch, taken, queue, finished,
                 opens, forgotten>>

(* enqueueAutonomousLearningForTopic returns, and the session takes the     *)
(* committed network; or it raises, and the session keeps the one before.  *)
EndTurn ==
  /\ stage = "committed" /\ Idle
  /\ net' = IF unattended THEN net ELSE updated
  /\ UNCHANGED <<unattended, seed, taken, queue, status, durable, bounds, forgotten>>

EnqueueFails ==
  /\ stage = "committed" /\ Failure /\ Idle
  /\ net' = IF unattended THEN net ELSE mine
  /\ forgotten' = IF unattended THEN forgotten
                  ELSE forgotten \cup {k \in Keys : updated[k] # mine[k]}
  /\ UNCHANGED <<unattended, seed, taken, queue, status, durable, finished, opens>>

-----------------------------------------------------------------------------
(* applyPendingUpdatesInBackground, which runs with an owner only. *)
BackgroundTakes ==
  /\ unattended /\ taken = <<>> /\ queue # <<>>
  /\ taken' = queue /\ queue' = <<>>
  /\ UNCHANGED <<unattended, seed, net, turn, status, durable, bounds, forgotten>>

BackgroundCommits ==
  /\ taken # <<>> /\ taken' = <<>>
  /\ net' \in {net, Plan(net, taken).net}
  /\ Apply(net, taken, net')
  /\ UNCHANGED <<unattended, seed, turn, queue, finished, opens, forgotten>>

NetworkNext ==
  \/ Reopen
  \/ \E e \in Events : Dispatch(e)
  \/ BeginTurn \/ TurnStops \/ FinishTurn
  \/ FollowUpFails \/ TakeBatch \/ CommitOwned \/ CommitUnowned
  \/ EndTurn \/ EnqueueFails
  \/ BackgroundTakes \/ BackgroundCommits

NetworkSpec == NetworkInit /\ [][NetworkNext]_networkVars

-----------------------------------------------------------------------------
IsEdge(e) ==
  e \in Edges /\ (e.prov = "runtime" => e.co <= Cardinality(Events) + 1)

NetworkTypeOK ==
  /\ unattended \in BOOLEAN /\ seed \in SeedNetworks
  /\ stage \in {"idle", "thinking", "saved", "committing", "committed"}
  /\ \A n \in {net, snapshot, mine, updated} :
       \A k \in Keys : n[k] = None \/ IsEdge(n[k])
  /\ \A i \in DOMAIN edgeRows : edgeRows[i].key \in Keys /\ edgeRows[i].conf = 60
  /\ evidence \subseteq {Evidence(e) : e \in Events}

LiveNet == IF stage = "committed" /\ ~unattended THEN updated ELSE net

(* Types, and: what the session knows as learned is what the table holds.   *)
(* A committed row is never lost to the rebase of a turn that began before *)
(* it, to a failed batch or to a restart, and no network claims a learned  *)
(* edge that no row backs, on which every later corroboration would raise  *)
(* and take its batch with it (corroborateRuntimeEdgeOnConnection).  Rows  *)
(* that a session missed because enqueueing failed are excepted.           *)
NetworkMatchesRows ==
  /\ NetworkTypeOK
  /\ \A k \in Keys \ forgotten :
       IF RowsAt(k) = {} THEN LiveNet[k] = None \/ LiveNet[k].prov # "runtime"
       ELSE /\ LiveNet[k] # None /\ LiveNet[k].prov = "runtime"
            /\ LiveNet[k].rel = edgeRows[Newest(RowsAt(k))].rel

(* A learned relation is one row, and its co-occurrence counts each answer  *)
(* once, whatever was dispatched twice, applied by two threads or lost with *)
(* a batch; the network in memory never counts more than the row           *)
(* (planEdge, hasDuplicateEvidence).                                       *)
EvidenceCountedOnce ==
  \A k \in Keys \ forgotten : RowsAt(k) # {} =>
    LET row == edgeRows[Newest(RowsAt(k))]
    IN  /\ Cardinality(RowsAt(k)) = 1
        /\ row.co = Cardinality({x.answer : x \in {y \in evidence : y.key = k}})
        /\ LiveNet[k].co <= row.co

(* While a session is open no edge disappears and authority is kept: a      *)
(* curated edge stays curated and a learned one learned, through remarks,   *)
(* merges of the meaning graph, admissions and rebases                     *)
(* (mergeSemanticEdge, planEdge, rebaseSemanticNetwork).                   *)
AuthorityIsKept ==
  [][opens' = opens =>
       \A k \in Keys \ forgotten' : LiveNet[k] # None =>
         /\ LiveNet'[k] # None
         /\ Authoritative(LiveNet[k]) => LiveNet'[k].prov = LiveNet[k].prov]_networkVars

(* "learned weights are preserved across restarts" (Bootstrap.hs:920): an   *)
(* edge that the remarks of saved turns raised above what the seed and the *)
(* rows give is above it after a restart, if the network was dense.        *)
LearnedWeightsPreserved ==
  [][opens' # opens /\ stage = "idle" /\ Dense(net) =>
       \A k \in Keys :
         LET fresh == Merge(seed, Projection)[k]
         IN  /\ fresh # None /\ net[k] # None
             /\ net[k].prov = fresh.prov /\ net[k].conf > fresh.conf
             => net'[k].conf > fresh.conf]_networkVars
=============================================================================
