------------------------ MODULE NetworkOwnerProofs ------------------------
(***************************************************************************)
(* Proofs about NetworkOwner, for any keys, seeds, events and bounds.      *)
(*                                                                         *)
(* First the merge and the rebase of any networks.  Then what a batch does *)
(* to a network, to the rows and to the evidence, by induction over the    *)
(* batch.  Last the invariant: rows, evidence and the network a session    *)
(* lives with belong together, key by key, and a turn under way knows      *)
(* nothing that its owner does not.                                        *)
(***************************************************************************)
EXTENDS NetworkOwner, FiniteSetTheorems, FunctionTheorems, SequenceTheorems,
        WellFoundedInduction, TLAPS

(* An edge, if there was one, is still there and has not lost authority. *)
KeptAt(old, new) ==
  old # None => /\ new # None
                /\ Authoritative(old) => Authoritative(new)

Keeps(old, new) == \A k \in Keys : KeptAt(old[k], new[k])

(* Of two authorities the merge takes one, and never the lack of one       *)
(* (mergeSemanticEdge).                                                    *)
LEMMA MergeEdgeChooses ==
  ASSUME NEW a, NEW b
  PROVE  /\ MergeEdge(a, b) = a \/ MergeEdge(a, b) = b
         /\ Authoritative(a) \/ Authoritative(b) => Authoritative(MergeEdge(a, b))
  BY DEF MergeEdge

(* Merging loses no edge of either side, nor its authority. *)
LEMMA MergeAtKeeps ==
  ASSUME NEW a, NEW b
  PROVE  KeptAt(a, MergeAt(a, b)) /\ KeptAt(b, MergeAt(a, b))
<1>1. CASE b = None
  BY <1>1 DEF MergeAt, KeptAt
<1>2. CASE b # None /\ a = None
  BY <1>2 DEF MergeAt, KeptAt
<1>3. CASE b # None /\ a # None
  <2>1. MergeAt(a, b) = MergeEdge(a, b)
    BY <1>3 DEF MergeAt
  <2>2. QED
    BY <1>3, <2>1, MergeEdgeChooses DEF KeptAt
<1>4. QED
  BY <1>1, <1>2, <1>3

(* The merge of networks keeps both of them: the bootstrap's seed and edgeRows, *)
(* a turn's network and its meaning graph.                                 *)
THEOREM MergeKeepsBoth ==
  ASSUME NEW first, NEW second
  PROVE  Keeps(first, Merge(first, second)) /\ Keeps(second, Merge(first, second))
BY MergeAtKeeps DEF Keeps, Merge

(* What the rebase does to one edge. *)
LEMMA RebaseAt ==
  ASSUME NEW from, NEW current, NEW final, NEW k \in Keys
  PROVE  LET r == Rebase(from, current, final)[k]
         IN  /\ final[k] = from[k] => r = current[k]
             /\ current[k] = from[k] => r = final[k]
             /\ final[k] # from[k] /\ current[k] # from[k]
                => r = MergeAt(current[k], final[k])
BY DEF Rebase

(* A turn that left its network alone leaves the owner's alone, and a turn  *)
(* that met no other writer is taken as it is (rebaseSemanticNetwork).     *)
THEOREM RebaseOfOneWriter ==
  ASSUME NEW from, NEW current, NEW final, NEW k \in Keys
  PROVE  /\ final = from => Rebase(from, current, final)[k] = current[k]
         /\ current = from => Rebase(from, current, final)[k] = final[k]
BY RebaseAt

(* If the turn lost no edge and no authority of the snapshot it began from, *)
(* the rebase loses none of the owner's newest network, whatever was       *)
(* admitted to it meanwhile.                                               *)
THEOREM RebaseKeepsOwner ==
  ASSUME NEW from, NEW current, NEW final, Keeps(from, final)
  PROVE  Keeps(current, Rebase(from, current, final))
<1> SUFFICES ASSUME NEW k \in Keys
             PROVE  KeptAt(current[k], Rebase(from, current, final)[k])
  BY DEF Keeps
<1>1. CASE final[k] = from[k]
  BY <1>1, RebaseAt DEF KeptAt
<1>2. CASE current[k] = from[k]
  BY <1>2, RebaseAt DEF Keeps
<1>3. CASE final[k] # from[k] /\ current[k] # from[k]
  BY <1>3, RebaseAt, MergeAtKeeps
<1>4. QED
  BY <1>1, <1>2, <1>3

(* And if the owner lost none of that snapshot either, the rebase loses     *)
(* none of the finished turn: what both sides know is in it.               *)
THEOREM RebaseKeepsTurn ==
  ASSUME NEW from, NEW current, NEW final, Keeps(from, current)
  PROVE  Keeps(final, Rebase(from, current, final))
<1> SUFFICES ASSUME NEW k \in Keys
             PROVE  KeptAt(final[k], Rebase(from, current, final)[k])
  BY DEF Keeps
<1>1. CASE final[k] = from[k]
  BY <1>1, RebaseAt DEF Keeps
<1>2. CASE current[k] = from[k]
  BY <1>2, RebaseAt DEF KeptAt
<1>3. CASE final[k] # from[k] /\ current[k] # from[k]
  BY <1>3, RebaseAt, MergeAtKeeps
<1>4. QED
  BY <1>1, <1>2, <1>3

-----------------------------------------------------------------------------
(* The invariant. *)
Networks == [Keys -> Edges \cup {None}]
Rows     == [key : Keys, rel : Relations, conf : {60}, co : Nat \ {0}]
AllEvidence == {Evidence(e) : e \in Events}

At(known, k)      == {x \in known : x.key = k}
Answers(known, k) == {x.answer : x \in At(known, k)}

Curated(e)   == e # None /\ e.prov = "curated"
IsLearned(e) == e # None /\ e.prov = "runtime"

StateOK ==
  /\ unattended \in BOOLEAN /\ seed \in SeedNetworks /\ opens \in Nat
  /\ stage \in {"idle", "thinking", "saved", "committing", "committed"}
  /\ net \in Networks /\ snapshot \in Networks
  /\ mine \in Networks /\ updated \in Networks
  /\ batch \in Seq(Events) /\ taken \in Seq(Events) /\ queue \in Seq(Events)
  /\ edgeRows \in Seq(Rows) /\ evidence \subseteq AllEvidence

(* No count exceeds the evidence about its key by more than the admission. *)
CountOK(e, known, k) == IsLearned(e) => e.co <= 1 + Cardinality(At(known, k))

CountsOK ==
  /\ \A k \in Keys : /\ CountOK(net[k], evidence, k) /\ CountOK(snapshot[k], evidence, k)
                     /\ CountOK(mine[k], evidence, k) /\ CountOK(updated[k], evidence, k)
  /\ \A i \in DOMAIN edgeRows :
       edgeRows[i].co <= 1 + Cardinality(At(evidence, edgeRows[i].key))

(* A key without rows has no evidence and no learned edge; the row of      *)
(* another is the only one, its edge is the learned one, and its count     *)
(* that of the answers, all of them about the same relation.               *)
NothingLearned(n, k) ==
  /\ RowsAt(k) = {} /\ At(evidence, k) = {} /\ ~IsLearned(n[k])
  /\ Curated(seed[k]) => Curated(n[k])
RowLearned(n, k) ==
  \E i \in DOMAIN edgeRows :
    /\ RowsAt(k) = {i} /\ ~Curated(seed[k])
    /\ IsLearned(n[k]) /\ n[k].rel = edgeRows[i].rel /\ n[k].co <= edgeRows[i].co
    /\ edgeRows[i].co = Cardinality(Answers(evidence, k))
    /\ \A x \in At(evidence, k) : x.rel = edgeRows[i].rel
MatchesAt(n, k) == NothingLearned(n, k) \/ RowLearned(n, k)

Matches(n) == \A k \in Keys \ forgotten : MatchesAt(n, k)

(* What admissions leave of an edge, and what a turn makes of it. *)
Survives(old, new) ==
  /\ old # None => new # None
  /\ Curated(old) => Curated(new)
  /\ IsLearned(old) => IsLearned(new) /\ new.rel = old.rel /\ old.co <= new.co
Derived(old, new) ==
  /\ old # None => new # None
  /\ Curated(old) <=> Curated(new)
  /\ IsLearned(old) <=> IsLearned(new)
  /\ IsLearned(old) => new.rel = old.rel /\ new.co = old.co

TurnOK ==
  /\ ~unattended => taken = <<>> /\ (stage # "idle" => snapshot = net)
  /\ unattended /\ stage \in {"thinking", "saved", "committing"} =>
       \A k \in Keys : Survives(snapshot[k], net[k])
  /\ stage \in {"saved", "committing", "committed"} =>
       \A k \in Keys : Derived(snapshot[k], mine[k])
  /\ ~unattended /\ stage = "committed" =>
       \A k \in Keys : Survives(mine[k], updated[k])

NetworkInv == StateOK /\ CountsOK /\ Matches(LiveNet) /\ TurnOK

-----------------------------------------------------------------------------
(* Induction. *)
LEMMA LeastOfNat ==
  ASSUME NEW S \in SUBSET Nat, S # {}
  PROVE  \E x \in S : \A y \in S : x <= y
<1> DEFINE T == {0..x : x \in S}
<1>1. T \subseteq FiniteSubsetsOf(Nat) /\ T # {}
  <2>1. \A x \in S : 0..x \in SUBSET Nat /\ IsFiniteSet(0..x)
    BY FS_Interval
  <2>2. T # {}
    OBVIOUS
  <2> QED BY <2>1, <2>2 DEF FiniteSubsetsOf
<1>2. PICK t \in T : \A u \in T : <<u, t>> \notin StrictSubsetOrdering(Nat)
  <2> HIDE DEF T
  <2> QED BY <1>1, FS_StrictSubsetOrderingWellFounded, WFMin, Zenon
<1>3. PICK x \in S : t = 0..x
  OBVIOUS
<1>4. ASSUME NEW y \in S, y < x PROVE FALSE
  <2>1. 0..y \in T /\ 0..y \subseteq 0..x /\ x \in 0..x /\ x \notin 0..y
    BY <1>4
  <2>2. 0..y \in SUBSET Nat /\ 0..x \in SUBSET Nat /\ 0..y # 0..x
    BY <2>1
  <2>3. <<0..y, 0..x>> \in StrictSubsetOrdering(Nat)
    BY <2>1, <2>2 DEF StrictSubsetOrdering
  <2> QED BY <1>2, <1>3, <2>1, <2>3
<1>5. \A y \in S : x <= y
  BY <1>4
<1> QED BY <1>5

LEMMA Induction ==
  ASSUME NEW n \in Nat, NEW S, 0 \in S, \A i \in 0..n : i < n /\ i \in S => i + 1 \in S
  PROVE  \A i \in 0..n : i \in S
<1> DEFINE Others == {i \in 0..n : i \notin S}
<1> SUFFICES ASSUME Others # {} PROVE FALSE
  OBVIOUS
<1>1. Others \in SUBSET Nat
  OBVIOUS
<1>2. PICK x \in Others : \A y \in Others : x <= y
  <2> HIDE DEF Others
  <2> QED BY <1>1, LeastOfNat
<1>3. x # 0 /\ x - 1 \in 0..n /\ x - 1 < n /\ x - 1 \notin Others
  BY <1>2
<1>4. (x - 1) + 1 \in S
  BY <1>3
<1> QED BY <1>2, <1>4

(* The recursions over a batch, step by step. *)
IsPlanning(g, original, events, n) ==
  g = [i \in 0..n |->
         IF i = 0 THEN [net |-> original, inserts |-> <<>>, countUps |-> <<>>,
                        evidence |-> evidence]
         ELSE PlanEvent(g[i - 1], events[i])]

LEMMA PlanSteps ==
  ASSUME NEW original, NEW events \in Seq(Events)
  PROVE  \E g : IsPlanning(g, original, events, Len(events)) /\ Plan(original, events) = g[Len(events)]
<1> DEFINE N == Len(events)
           P(g) == IsPlanning(g, original, events, N)
           S == {n \in 0..N : \E g : IsPlanning(g, original, events, n)}
           Base == [net |-> original, inserts |-> <<>>, countUps |-> <<>>,
                    evidence |-> evidence]
<1>1. N \in Nat
  OBVIOUS
<1>2. 0 \in S
  <2>1. IsPlanning([i \in 0..0 |-> Base], original, events, 0)
    BY DEF IsPlanning
  <2> QED BY <1>1, <2>1
<1>3. ASSUME NEW i \in 0..N, i < N, i \in S PROVE i + 1 \in S
  <2>1. PICK g : IsPlanning(g, original, events, i)
    BY <1>3
  <2> DEFINE h == [j \in 0..(i + 1) |-> IF j = i + 1 THEN PlanEvent(g[i], events[i + 1]) ELSE g[j]]
  <2>2. \A j \in 0..i : h[j] = g[j]
    OBVIOUS
  <2>3. ASSUME NEW j \in 0..(i + 1)
        PROVE  h[j] = IF j = 0 THEN Base ELSE PlanEvent(h[j - 1], events[j])
    <3>1. CASE j = i + 1
      <4>1. j # 0 /\ j - 1 = i /\ i \in 0..i
        BY <3>1
      <4>2. h[j - 1] = g[i]
        BY <4>1, <2>2
      <4>3. h[j] = PlanEvent(g[i], events[j])
        BY <3>1
      <4> QED BY <4>1, <4>2, <4>3
    <3>2. CASE j # i + 1
      <4>1. j \in 0..i /\ (j # 0 => j - 1 \in 0..i)
        BY <3>2
      <4>2. g[j] = IF j = 0 THEN Base ELSE PlanEvent(g[j - 1], events[j])
        BY <2>1, <4>1 DEF IsPlanning
      <4> HIDE DEF h, Base
      <4> QED BY <4>1, <4>2, <2>2
    <3> QED BY <3>1, <3>2
  <2>4. IsPlanning(h, original, events, i + 1)
    <3>1. h = [j \in 0..(i + 1) |-> h[j]]
      OBVIOUS
    <3> HIDE DEF h
    <3> QED BY <2>3, <3>1 DEF IsPlanning
  <2> QED BY <1>3, <2>4
<1>4. N \in S
  <2>1. \A i \in 0..N : i < N /\ i \in S => i + 1 \in S
    BY <1>3
  <2>2. N \in 0..N
    BY <1>1
  <2> HIDE DEF S, N
  <2>3. \A i \in 0..N : i \in S
    BY <1>1, <1>2, <2>1, Induction
  <2> QED BY <2>2, <2>3
<1>5. Plan(original, events) = (CHOOSE g : P(g))[N]
  BY Zenon DEF Plan, IsPlanning
<1>6. P(CHOOSE g : P(g))
  <2>1. \E g : P(g)
    BY <1>4
  <2> HIDE DEF P
  <2> QED BY <2>1, Zenon
<1> QED BY <1>5, <1>6

IsCounting(g, table, countUps, n) ==
  g = [i \in 0..n |-> IF i = 0 THEN table ELSE CountUp(g[i - 1], countUps[i])]

LEMMA CountSteps ==
  ASSUME NEW plan, plan.countUps \in Seq([key : Keys, rel : Relations])
  PROVE  \E g : /\ IsCounting(g, edgeRows \o plan.inserts, plan.countUps, Len(plan.countUps))
                /\ Persisted(plan) = g[Len(plan.countUps)]
<1> DEFINE N == Len(plan.countUps)
           Base == edgeRows \o plan.inserts
           P(g) == IsCounting(g, Base, plan.countUps, N)
           S == {n \in 0..N : \E g : IsCounting(g, Base, plan.countUps, n)}
<1>1. N \in Nat
  OBVIOUS
<1>2. 0 \in S
  <2>1. IsCounting([i \in 0..0 |-> Base], Base, plan.countUps, 0)
    BY DEF IsCounting
  <2> QED BY <1>1, <2>1
<1>3. ASSUME NEW i \in 0..N, i < N, i \in S PROVE i + 1 \in S
  <2>1. PICK g : IsCounting(g, Base, plan.countUps, i)
    BY <1>3
  <2> DEFINE h == [j \in 0..(i + 1) |->
                     IF j = i + 1 THEN CountUp(g[i], plan.countUps[i + 1]) ELSE g[j]]
  <2>2. \A j \in 0..i : h[j] = g[j]
    OBVIOUS
  <2> HIDE DEF Base
  <2>3. ASSUME NEW j \in 0..(i + 1)
        PROVE  h[j] = IF j = 0 THEN Base ELSE CountUp(h[j - 1], plan.countUps[j])
    <3>1. CASE j = i + 1
      <4>1. j # 0 /\ j - 1 = i /\ i \in 0..i
        BY <3>1
      <4>2. h[j - 1] = g[i]
        BY <4>1, <2>2
      <4>3. h[j] = CountUp(g[i], plan.countUps[j])
        BY <3>1
      <4> QED BY <4>1, <4>2, <4>3
    <3>2. CASE j # i + 1
      <4>1. j \in 0..i /\ (j # 0 => j - 1 \in 0..i)
        BY <3>2
      <4>2. g[j] = IF j = 0 THEN Base ELSE CountUp(g[j - 1], plan.countUps[j])
        BY <2>1, <4>1 DEF IsCounting
      <4> HIDE DEF h
      <4> QED BY <4>1, <4>2, <2>2
    <3> QED BY <3>1, <3>2
  <2>4. IsCounting(h, Base, plan.countUps, i + 1)
    <3>1. h = [j \in 0..(i + 1) |-> h[j]]
      OBVIOUS
    <3> HIDE DEF h
    <3> QED BY <2>3, <3>1 DEF IsCounting
  <2> QED BY <1>3, <2>4
<1>4. N \in S
  <2>1. \A i \in 0..N : i < N /\ i \in S => i + 1 \in S
    BY <1>3
  <2>2. N \in 0..N
    BY <1>1
  <2> HIDE DEF S, N
  <2>3. \A i \in 0..N : i \in S
    BY <1>1, <1>2, <2>1, Induction
  <2> QED BY <2>2, <2>3
<1>5. Persisted(plan) = (CHOOSE g : P(g))[N]
  BY Zenon DEF Persisted, IsCounting
<1>6. P(CHOOSE g : P(g))
  <2>1. \E g : P(g)
    BY <1>4
  <2> HIDE DEF P
  <2> QED BY <2>1, Zenon
<1> QED BY <1>5, <1>6

-----------------------------------------------------------------------------
(* A batch, event by event: what a plan holds about each key. *)
CountUps == [key : Keys, rel : Relations]
Plans == [net : Networks, inserts : Seq(Rows), countUps : Seq(CountUps),
          evidence : SUBSET AllEvidence]

CountUpsOf(plan, k) == {m \in DOMAIN plan.countUps : plan.countUps[m].key = k}
InsertsOf(plan, k)  == {m \in DOMAIN plan.inserts : plan.inserts[m].key = k}
Counted(plan, k)    == Cardinality(CountUpsOf(plan, k))

(* A key about which nothing new was learned, one that was known, and one  *)
(* that the batch admits.                                                  *)
PlanLeaves(original, plan, k) ==
  /\ plan.net[k] = original[k] /\ ~IsLearned(original[k])
  /\ InsertsOf(plan, k) = {} /\ CountUpsOf(plan, k) = {}
  /\ At(plan.evidence, k) = At(evidence, k)
PlanConfirms(original, plan, k) ==
  /\ IsLearned(original[k]) /\ IsLearned(plan.net[k]) /\ InsertsOf(plan, k) = {}
  /\ plan.net[k].rel = original[k].rel
  /\ plan.net[k].co = original[k].co + Counted(plan, k)
PlanAdmits(original, plan, k) ==
  /\ ~IsLearned(original[k]) /\ ~Curated(original[k]) /\ IsLearned(plan.net[k])
  /\ plan.net[k].co = 1 + Counted(plan, k)
  /\ \E m : InsertsOf(plan, k) = {m} /\ plan.inserts[m] = Row(k, plan.net[k].rel)

(* All evidence about the key is about the relation that was learned. *)
Uniform(n, known, k) == \A x \in At(known, k) : IsLearned(n[k]) /\ x.rel = n[k].rel

PlanAnswers(original, plan, k) ==
  Uniform(original, evidence, k) =>
    /\ Uniform(plan.net, plan.evidence, k)
    /\ Cardinality(Answers(plan.evidence, k)) =
         Cardinality(Answers(evidence, k)) + Counted(plan, k)
           + (IF IsLearned(plan.net[k]) /\ ~IsLearned(original[k]) THEN 1 ELSE 0)

PlanAt(original, plan, k) ==
  /\ \/ PlanLeaves(original, plan, k)
     \/ PlanConfirms(original, plan, k)
     \/ PlanAdmits(original, plan, k)
  /\ \A m \in CountUpsOf(plan, k) : plan.countUps[m].rel = plan.net[k].rel
  /\ Cardinality(At(plan.evidence, k)) >= Cardinality(At(evidence, k)) + Counted(plan, k)
  /\ PlanAnswers(original, plan, k)

PlanOK(original, plan) ==
  /\ plan \in Plans /\ evidence \subseteq plan.evidence
  /\ \A k \in Keys : PlanAt(original, plan, k)

LEMMA EvidenceFinite ==
  IsFiniteSet(AllEvidence) /\ Cardinality(AllEvidence) <= Cardinality(Events)
<1> DEFINE f == [e \in Events |-> Evidence(e)]
<1>1. f \in Surjection(Events, AllEvidence)
  BY DEF Surjection, AllEvidence
<1>2. IsFiniteSet(Events)
  BY EventsAssumption
<1> QED BY <1>1, <1>2, FS_Surjection

(* Known evidence is finite, and so are its answers. *)
LEMMA KnownFinite ==
  ASSUME NEW known \in SUBSET AllEvidence, NEW k
  PROVE  /\ IsFiniteSet(At(known, k)) /\ Cardinality(At(known, k)) \in Nat
         /\ Cardinality(At(known, k)) <= Cardinality(Events)
         /\ IsFiniteSet(Answers(known, k)) /\ Cardinality(Answers(known, k)) \in Nat
<1>1. At(known, k) \in SUBSET AllEvidence
  BY DEF At
<1>2. IsFiniteSet(At(known, k)) /\ Cardinality(At(known, k)) <= Cardinality(AllEvidence)
  BY <1>1, EvidenceFinite, FS_Subset
<1> DEFINE f == [x \in At(known, k) |-> x.answer]
<1>3. f \in Surjection(At(known, k), Answers(known, k))
  BY DEF Surjection, Answers
<1>4. IsFiniteSet(Answers(known, k))
  BY <1>2, <1>3, FS_Surjection
<1>5. /\ Cardinality(At(known, k)) \in Nat /\ Cardinality(Answers(known, k)) \in Nat
      /\ Cardinality(AllEvidence) \in Nat /\ Cardinality(Events) \in Nat
  BY <1>2, <1>4, EvidenceFinite, EventsAssumption, FS_CardinalityType
<1> QED BY <1>2, <1>4, <1>5, EvidenceFinite

LEMMA CountedFinite ==
  ASSUME NEW plan \in Plans, NEW k
  PROVE  IsFiniteSet(CountUpsOf(plan, k)) /\ Counted(plan, k) \in Nat
<1>1. DOMAIN plan.countUps = 1..Len(plan.countUps) /\ Len(plan.countUps) \in Nat
  BY DEF Plans
<1>2. IsFiniteSet(DOMAIN plan.countUps)
  BY <1>1, FS_Interval
<1>3. CountUpsOf(plan, k) \in SUBSET DOMAIN plan.countUps
  BY DEF CountUpsOf
<1>4. IsFiniteSet(CountUpsOf(plan, k))
  BY <1>2, <1>3, FS_Subset
<1> QED BY <1>4, FS_CardinalityType DEF Counted

LEMMA EvidenceOf ==
  ASSUME NEW e \in Events
  PROVE  /\ Evidence(e) \in AllEvidence /\ Evidence(e).key = KeyOf(e) /\ KeyOf(e) \in Keys
         /\ Evidence(e).rel = RelOf(e) /\ Evidence(e).request = e
         /\ Evidence(e).answer = AnswerOf(e) /\ RelOf(e) \in Relations
BY EventsAssumption DEF Evidence, AllEvidence, Relations

(* One more piece of evidence, at its key and elsewhere. *)
LEMMA MoreEvidence ==
  ASSUME NEW known \in SUBSET AllEvidence, NEW e \in Events, NEW k,
         NEW more, more = known \cup {Evidence(e)}
  PROVE  /\ more \in SUBSET AllEvidence
         /\ k # KeyOf(e) => At(more, k) = At(known, k) /\ Answers(more, k) = Answers(known, k)
         /\ k = KeyOf(e) => /\ At(more, k) = At(known, k) \cup {Evidence(e)}
                            /\ Answers(more, k) = Answers(known, k) \cup {AnswerOf(e)}
         /\ Cardinality(At(more, k)) >= Cardinality(At(known, k))
<1>1. more \in SUBSET AllEvidence
  BY EvidenceOf
<1>2. k # KeyOf(e) => At(more, k) = At(known, k)
  BY EvidenceOf DEF At
<1>3. k = KeyOf(e) => At(more, k) = At(known, k) \cup {Evidence(e)}
  BY EvidenceOf DEF At
<1>4. ASSUME k = KeyOf(e) PROVE Answers(more, k) = Answers(known, k) \cup {AnswerOf(e)}
  <2>1. At(more, k) = At(known, k) \cup {Evidence(e)} /\ Evidence(e).answer = AnswerOf(e)
    BY <1>3, <1>4, EvidenceOf
  <2>2. \A a : a \in Answers(more, k) <=> \E x \in At(more, k) : x.answer = a
    BY DEF Answers
  <2>3. \A a : a \in Answers(known, k) <=> \E x \in At(known, k) : x.answer = a
    BY DEF Answers
  <2> QED BY <2>1, <2>2, <2>3
<1>5. At(known, k) \in SUBSET At(more, k)
  BY DEF At
<1>6. Cardinality(At(known, k)) <= Cardinality(At(more, k))
  <2>1. IsFiniteSet(At(more, k))
    BY <1>1, KnownFinite
  <2> QED BY <1>5, <2>1, FS_Subset
<1>7. Cardinality(At(known, k)) \in Nat /\ Cardinality(At(more, k)) \in Nat
  BY <1>1, KnownFinite
<1> QED BY <1>1, <1>2, <1>3, <1>4, <1>6, <1>7 DEF Answers

LEMMA PlanOfNone ==
  ASSUME StateOK, NEW original \in Networks,
         NEW plan, plan = [net |-> original, inserts |-> <<>>, countUps |-> <<>>,
                           evidence |-> evidence]
  PROVE  PlanOK(original, plan)
<1>1. plan \in Plans /\ evidence \subseteq plan.evidence
  BY DEF Plans, StateOK
<1>2. ASSUME NEW k \in Keys PROVE PlanAt(original, plan, k)
  <2>1. CountUpsOf(plan, k) = {} /\ InsertsOf(plan, k) = {}
    BY DEF CountUpsOf, InsertsOf
  <2>2. Counted(plan, k) = 0
    BY <2>1, FS_EmptySet DEF Counted
  <2>3. PlanLeaves(original, plan, k) \/ PlanConfirms(original, plan, k)
    <3>1. IsLearned(original[k]) => original[k].co \in Nat
      BY DEF Networks, Edges, IsLearned
    <3> QED BY <2>1, <2>2, <3>1 DEF PlanLeaves, PlanConfirms
  <2>4. evidence \in SUBSET AllEvidence
    BY DEF StateOK
  <2>5. PlanAnswers(original, plan, k)
    BY <2>2, <2>4, KnownFinite DEF PlanAnswers
  <2> QED BY <2>1, <2>2, <2>3, <2>4, <2>5, KnownFinite DEF PlanAt
<1> QED BY <1>1, <1>2 DEF PlanOK

(* The plan after an event, when it admits and when it corroborates. *)
Admitted(plan, e) ==
  [net |-> [plan.net EXCEPT ![KeyOf(e)] = Edge("runtime", RelOf(e), 60)],
   inserts |-> Append(plan.inserts, Row(KeyOf(e), RelOf(e))),
   countUps |-> plan.countUps, evidence |-> plan.evidence \cup {Evidence(e)}]
Corroborated(plan, e) ==
  [net |-> [plan.net EXCEPT ![KeyOf(e)].co = @ + 1],
   inserts |-> plan.inserts,
   countUps |-> Append(plan.countUps, [key |-> KeyOf(e), rel |-> RelOf(e)]),
   evidence |-> plan.evidence \cup {Evidence(e)}]

LEMMA PlanEventCases ==
  ASSUME NEW plan, NEW e
  PROVE  \/ PlanEvent(plan, e) = plan
         \/ Admits(plan.net[KeyOf(e)], e) /\ PlanEvent(plan, e) = Admitted(plan, e)
         \/ /\ Corroborates(plan.net[KeyOf(e)], plan.evidence, e)
            /\ PlanEvent(plan, e) = Corroborated(plan, e)
BY DEF PlanEvent, Admitted, Corroborated

LEMMA NewEdge ==
  ASSUME NEW e \in Events
  PROVE  /\ Edge("runtime", RelOf(e), 60) \in Edges
         /\ IsLearned(Edge("runtime", RelOf(e), 60))
         /\ Edge("runtime", RelOf(e), 60).rel = RelOf(e)
         /\ Edge("runtime", RelOf(e), 60).co = 1
         /\ Row(KeyOf(e), RelOf(e)) \in Rows
<1>1. Edge("runtime", RelOf(e), 60) \in Edges
  BY EvidenceOf DEF Edge, Edges, AuthorityRank
<1>2. Edge("runtime", RelOf(e), 60) # None
  BY <1>1, SeedsAssumption
<1> QED BY <1>1, <1>2, EvidenceOf DEF Edge, IsLearned, Row, Rows

(* What a plan holds about the other keys it still holds. *)
LEMMA PlanElsewhere ==
  ASSUME NEW original, NEW plan, NEW new, NEW k \in Keys, PlanAt(original, plan, k),
         new.net[k] = plan.net[k],
         InsertsOf(new, k) = InsertsOf(plan, k),
         \A m \in InsertsOf(plan, k) : new.inserts[m] = plan.inserts[m],
         CountUpsOf(new, k) = CountUpsOf(plan, k),
         \A m \in CountUpsOf(plan, k) : new.countUps[m] = plan.countUps[m],
         At(new.evidence, k) = At(plan.evidence, k)
  PROVE  PlanAt(original, new, k)
<1>1. Counted(new, k) = Counted(plan, k)
  BY DEF Counted
<1>2. Answers(new.evidence, k) = Answers(plan.evidence, k)
  BY DEF Answers
<1>3. PlanLeaves(original, plan, k) => PlanLeaves(original, new, k)
  BY DEF PlanLeaves
<1>4. PlanConfirms(original, plan, k) => PlanConfirms(original, new, k)
  BY <1>1 DEF PlanConfirms
<1>5. PlanAdmits(original, plan, k) => PlanAdmits(original, new, k)
  BY <1>1 DEF PlanAdmits
<1>6. PlanAnswers(original, new, k)
  <2>1. Uniform(plan.net, plan.evidence, k) => Uniform(new.net, new.evidence, k)
    BY DEF Uniform
  <2> QED BY <1>1, <1>2, <2>1 DEF PlanAt, PlanAnswers
<1> QED BY <1>1, <1>3, <1>4, <1>5, <1>6 DEF PlanAt

LEMMA AdmittedType ==
  ASSUME NEW plan \in Plans, NEW e \in Events
  PROVE  /\ Admitted(plan, e) \in Plans
         /\ Admitted(plan, e).net[KeyOf(e)] = Edge("runtime", RelOf(e), 60)
         /\ \A k \in Keys : k # KeyOf(e) =>
              /\ Admitted(plan, e).net[k] = plan.net[k]
              /\ InsertsOf(Admitted(plan, e), k) = InsertsOf(plan, k)
         /\ InsertsOf(Admitted(plan, e), KeyOf(e)) =
              InsertsOf(plan, KeyOf(e)) \cup {Len(plan.inserts) + 1}
         /\ Admitted(plan, e).inserts[Len(plan.inserts) + 1] = Row(KeyOf(e), RelOf(e))
         /\ \A m \in DOMAIN plan.inserts : Admitted(plan, e).inserts[m] = plan.inserts[m]
<1> DEFINE new == Admitted(plan, e)
<1>1. plan.net \in [Keys -> Edges \cup {None}] /\ KeyOf(e) \in Keys
  BY EvidenceOf DEF Plans, Networks
<1>2. /\ new.net = [plan.net EXCEPT ![KeyOf(e)] = Edge("runtime", RelOf(e), 60)]
      /\ new.inserts = Append(plan.inserts, Row(KeyOf(e), RelOf(e)))
      /\ new.countUps = plan.countUps
      /\ new.evidence = plan.evidence \cup {Evidence(e)}
      /\ new = [net |-> new.net, inserts |-> new.inserts, countUps |-> new.countUps,
                evidence |-> new.evidence]
  BY DEF Admitted
<1>3. plan.inserts \in Seq(Rows) /\ Row(KeyOf(e), RelOf(e)) \in Rows
  BY NewEdge DEF Plans
<1>4. new.net \in Networks
  BY <1>1, <1>2, NewEdge DEF Networks
<1>5. new.inserts \in Seq(Rows)
  BY <1>2, <1>3
<1>6. new \in Plans
  BY <1>2, <1>4, <1>5, EvidenceOf DEF Plans
<1>7. /\ Len(new.inserts) = Len(plan.inserts) + 1
      /\ \A m \in 1..Len(plan.inserts) : new.inserts[m] = plan.inserts[m]
      /\ new.inserts[Len(plan.inserts) + 1] = Row(KeyOf(e), RelOf(e))
      /\ DOMAIN new.inserts = 1..(Len(plan.inserts) + 1)
      /\ DOMAIN plan.inserts = 1..Len(plan.inserts) /\ Len(plan.inserts) \in Nat
  BY <1>2, <1>3
<1>8. Row(KeyOf(e), RelOf(e)).key = KeyOf(e)
  BY DEF Row
<1> HIDE DEF new
<1>9. \A k \in Keys : InsertsOf(new, k) =
        IF k = KeyOf(e) THEN InsertsOf(plan, k) \cup {Len(plan.inserts) + 1}
                        ELSE InsertsOf(plan, k)
  BY <1>7, <1>8 DEF InsertsOf
<1>10. \A k \in Keys : k # KeyOf(e) => new.net[k] = plan.net[k]
  BY <1>1, <1>2
<1>11. new.net[KeyOf(e)] = Edge("runtime", RelOf(e), 60)
  BY <1>1, <1>2
<1> QED BY <1>1, <1>6, <1>7, <1>9, <1>10, <1>11 DEF new

LEMMA AdmitStep ==
  ASSUME StateOK, NEW original \in Networks, NEW plan, PlanOK(original, plan),
         NEW e \in Events, Admits(plan.net[KeyOf(e)], e)
  PROVE  PlanOK(original, Admitted(plan, e))
<1> DEFINE new == Admitted(plan, e)
           k == KeyOf(e)
<1>1. plan \in Plans /\ k \in Keys
  BY EvidenceOf DEF PlanOK
<1>2. /\ new \in Plans /\ new.countUps = plan.countUps
      /\ new.evidence = plan.evidence \cup {Evidence(e)} /\ evidence \subseteq new.evidence
  BY <1>1, AdmittedType DEF Admitted, PlanOK
<1>3. plan.evidence \in SUBSET AllEvidence
  BY <1>1 DEF Plans
<1>4. ~IsLearned(plan.net[k]) /\ ~Curated(plan.net[k])
  BY DEF Admits, AuthorityRank, IsLearned, Curated
<1>5. PlanLeaves(original, plan, k) /\ PlanAnswers(original, plan, k)
  BY <1>1, <1>4 DEF PlanOK, PlanAt, PlanConfirms, PlanAdmits
<1>6. /\ new.net[k] = Edge("runtime", RelOf(e), 60)
      /\ InsertsOf(new, k) = InsertsOf(plan, k) \cup {Len(plan.inserts) + 1}
      /\ new.inserts[Len(plan.inserts) + 1] = Row(KeyOf(e), RelOf(e))
  BY <1>1, AdmittedType
<1>7. CountUpsOf(new, k) = {} /\ Counted(new, k) = 0
  BY <1>2, <1>5, FS_EmptySet DEF CountUpsOf, PlanLeaves, Counted
<1>8. ASSUME NEW j \in Keys, j # k PROVE PlanAt(original, new, j)
  <2>1. PlanAt(original, plan, j)
    BY DEF PlanOK
  <2>2. CountUpsOf(new, j) = CountUpsOf(plan, j)
    BY <1>2 DEF CountUpsOf
  <2>3. At(new.evidence, j) = At(plan.evidence, j)
    <3>1. new.evidence = plan.evidence \cup {Evidence(e)} /\ j # KeyOf(e)
      BY <1>2, <1>8
    <3> HIDE DEF new
    <3> QED BY <3>1, EvidenceOf DEF At
  <2>4. /\ new.net[j] = plan.net[j] /\ InsertsOf(new, j) = InsertsOf(plan, j)
        /\ \A m \in InsertsOf(plan, j) : new.inserts[m] = plan.inserts[m]
    BY <1>1, <1>8, AdmittedType DEF InsertsOf
  <2> HIDE DEF new
  <2> QED BY <1>2, <2>1, <2>2, <2>3, <2>4, PlanElsewhere
<1> HIDE DEF new
<1>9. PlanAdmits(original, new, k)
  <2>1. ~IsLearned(original[k]) /\ ~Curated(original[k])
    BY <1>4, <1>5 DEF PlanLeaves
  <2>2. InsertsOf(new, k) = {Len(plan.inserts) + 1}
    BY <1>5, <1>6 DEF PlanLeaves
  <2>3. new.inserts[Len(plan.inserts) + 1] = Row(k, new.net[k].rel)
    BY <1>6, NewEdge
  <2> QED BY <1>6, <1>7, <2>1, <2>2, <2>3, NewEdge DEF PlanAdmits
<1>10. Cardinality(At(new.evidence, k)) >= Cardinality(At(evidence, k)) + Counted(new, k)
  <2>1. At(plan.evidence, k) = At(evidence, k)
    BY <1>5 DEF PlanLeaves
  <2>2. Cardinality(At(new.evidence, k)) >= Cardinality(At(plan.evidence, k))
    BY <1>2, <1>3, MoreEvidence
  <2>3. Cardinality(At(evidence, k)) \in Nat
    BY KnownFinite DEF StateOK
  <2> QED BY <1>7, <2>1, <2>2, <2>3
<1>11. PlanAnswers(original, new, k)
  <2> SUFFICES ASSUME Uniform(original, evidence, k)
               PROVE  /\ Uniform(new.net, new.evidence, k)
                      /\ Cardinality(Answers(evidence, k)) = 0
                      /\ Cardinality(Answers(new.evidence, k)) = 1
    BY <1>6, <1>7, <1>9, NewEdge DEF PlanAnswers, PlanAdmits
  <2>1. At(evidence, k) = {} /\ At(plan.evidence, k) = {}
    BY <1>5 DEF Uniform, PlanLeaves
  <2>2. Answers(evidence, k) = {} /\ Answers(plan.evidence, k) = {}
    BY <2>1 DEF Answers
  <2>3. /\ At(new.evidence, k) = At(plan.evidence, k) \cup {Evidence(e)}
        /\ Answers(new.evidence, k) = Answers(plan.evidence, k) \cup {AnswerOf(e)}
    BY <1>2, <1>3, MoreEvidence
  <2>4. Uniform(new.net, new.evidence, k)
    BY <1>6, <2>1, <2>3, NewEdge, EvidenceOf DEF Uniform
  <2>5. Answers(new.evidence, k) = {AnswerOf(e)}
    BY <2>2, <2>3
  <2> QED BY <2>2, <2>4, <2>5, FS_EmptySet, FS_Singleton
<1>12. PlanAt(original, new, k)
  BY <1>7, <1>9, <1>10, <1>11 DEF PlanAt
<1>13. \A j \in Keys : PlanAt(original, new, j)
  BY <1>8, <1>12
<1> QED BY <1>2, <1>13 DEF PlanOK, new

LEMMA CorroboratedType ==
  ASSUME NEW plan \in Plans, NEW e \in Events, IsLearned(plan.net[KeyOf(e)])
  PROVE  LET new  == Corroborated(plan, e)
             k    == KeyOf(e)
             last == Len(plan.countUps) + 1 IN
         /\ new \in Plans
         /\ IsLearned(new.net[k]) /\ new.net[k].rel = plan.net[k].rel
         /\ new.net[k].co = plan.net[k].co + 1
         /\ \A j \in Keys : j # k =>
              new.net[j] = plan.net[j] /\ CountUpsOf(new, j) = CountUpsOf(plan, j)
         /\ last \notin CountUpsOf(plan, k)
         /\ CountUpsOf(new, k) = CountUpsOf(plan, k) \cup {last}
         /\ new.countUps[last].rel = RelOf(e)
         /\ \A m \in DOMAIN plan.countUps : new.countUps[m] = plan.countUps[m]
<1> DEFINE new == Corroborated(plan, e)
           k == KeyOf(e)
           last == Len(plan.countUps) + 1
           old == plan.net[k]
<1>1. plan.net \in [Keys -> Edges \cup {None}] /\ k \in Keys
  BY EvidenceOf DEF Plans, Networks
<1>2. /\ new.net = [plan.net EXCEPT ![k] = [old EXCEPT !.co = @ + 1]]
      /\ new.inserts = plan.inserts
      /\ new.countUps = Append(plan.countUps, [key |-> k, rel |-> RelOf(e)])
      /\ new.evidence = plan.evidence \cup {Evidence(e)}
      /\ new = [net |-> new.net, inserts |-> new.inserts, countUps |-> new.countUps,
                evidence |-> new.evidence]
  BY DEF Corroborated
<1>3. old \in Edges /\ old.prov = "runtime"
  BY <1>1 DEF IsLearned
<1>4. /\ [old EXCEPT !.co = @ + 1] \in Edges
      /\ [old EXCEPT !.co = @ + 1].co = old.co + 1
      /\ [old EXCEPT !.co = @ + 1].rel = old.rel
      /\ [old EXCEPT !.co = @ + 1].prov = "runtime"
  <2>1. old.co \in Nat
    BY <1>3 DEF Edges
  <2> HIDE DEF old
  <2> QED BY <1>3, <2>1 DEF Edges
<1>5. [key |-> k, rel |-> RelOf(e)] \in CountUps /\ plan.countUps \in Seq(CountUps)
  BY EvidenceOf DEF CountUps, Plans
<1>6. new.net \in Networks /\ new.net[k] = [old EXCEPT !.co = @ + 1]
  <2> HIDE DEF old, new
  <2> QED BY <1>1, <1>2, <1>4 DEF Networks
<1>7. new.countUps \in Seq(CountUps)
  <2> HIDE DEF new
  <2> QED BY <1>2, <1>5
<1> HIDE DEF new, old
<1>8. new \in Plans
  BY <1>2, <1>6, <1>7, EvidenceOf DEF Plans
<1>9. /\ Len(plan.countUps) \in Nat /\ DOMAIN plan.countUps = 1..Len(plan.countUps)
      /\ DOMAIN new.countUps = 1..last
      /\ \A m \in DOMAIN plan.countUps : new.countUps[m] = plan.countUps[m]
      /\ new.countUps[last].rel = RelOf(e) /\ new.countUps[last].key = k
  BY <1>2, <1>5
<1>10. last \notin CountUpsOf(plan, k)
  BY <1>9 DEF CountUpsOf
<1>11. \A j \in Keys : CountUpsOf(new, j) =
         IF j = k THEN CountUpsOf(plan, j) \cup {last} ELSE CountUpsOf(plan, j)
  BY <1>9 DEF CountUpsOf
<1>12. \A j \in Keys : j # k => new.net[j] = plan.net[j]
  BY <1>1, <1>2
<1>13. IsLearned(new.net[k]) /\ new.net[k].rel = plan.net[k].rel /\ new.net[k].co = plan.net[k].co + 1
  BY <1>4, <1>6, SeedsAssumption DEF IsLearned, old
<1> QED BY <1>1, <1>8, <1>9, <1>10, <1>11, <1>12, <1>13 DEF new

LEMMA CorroborateStep ==
  ASSUME StateOK, NEW original \in Networks, NEW plan, PlanOK(original, plan),
         NEW e \in Events, Corroborates(plan.net[KeyOf(e)], plan.evidence, e)
  PROVE  PlanOK(original, Corroborated(plan, e))
<1> DEFINE new == Corroborated(plan, e)
           k == KeyOf(e)
           last == Len(plan.countUps) + 1
<1>1. plan \in Plans /\ k \in Keys /\ plan.evidence \in SUBSET AllEvidence
  BY EvidenceOf DEF PlanOK, Plans
<1>2. IsLearned(plan.net[k]) /\ plan.net[k].rel = RelOf(e) /\ ~Duplicate(plan.evidence, e)
  BY DEF Corroborates, SameRelation, IsLearned
<1>3. /\ new.inserts = plan.inserts /\ new.evidence = plan.evidence \cup {Evidence(e)}
      /\ evidence \subseteq new.evidence
  BY DEF Corroborated, PlanOK
<1>4. /\ new \in Plans
      /\ IsLearned(new.net[k]) /\ new.net[k].rel = plan.net[k].rel
      /\ new.net[k].co = plan.net[k].co + 1
      /\ \A j \in Keys : j # k =>
           new.net[j] = plan.net[j] /\ CountUpsOf(new, j) = CountUpsOf(plan, j)
      /\ last \notin CountUpsOf(plan, k)
      /\ CountUpsOf(new, k) = CountUpsOf(plan, k) \cup {last}
      /\ new.countUps[last].rel = RelOf(e)
      /\ \A m \in DOMAIN plan.countUps : new.countUps[m] = plan.countUps[m]
  BY <1>1, <1>2, CorroboratedType
<1> HIDE DEF new, last
<1>5. InsertsOf(new, k) = InsertsOf(plan, k) /\ \A j \in Keys : InsertsOf(new, j) = InsertsOf(plan, j)
  BY <1>3 DEF InsertsOf
<1>6. ASSUME NEW j \in Keys, j # k PROVE PlanAt(original, new, j)
  <2>1. At(new.evidence, j) = At(plan.evidence, j)
    BY <1>3, <1>6, EvidenceOf DEF At
  <2>2. PlanAt(original, plan, j)
    BY DEF PlanOK
  <2>3. /\ \A m \in CountUpsOf(plan, j) : new.countUps[m] = plan.countUps[m]
        /\ \A m \in InsertsOf(plan, j) : new.inserts[m] = plan.inserts[m]
    BY <1>3, <1>4 DEF CountUpsOf
  <2> QED BY <1>4, <1>5, <1>6, <2>1, <2>2, <2>3, PlanElsewhere
<1>7. /\ Counted(new, k) = Counted(plan, k) + 1
      /\ Counted(plan, k) \in Nat
  <2>1. IsFiniteSet(CountUpsOf(plan, k)) /\ Counted(plan, k) \in Nat
    BY <1>1, CountedFinite
  <2>2. Cardinality(CountUpsOf(plan, k) \cup {last}) = Cardinality(CountUpsOf(plan, k)) + 1
    BY <1>4, <2>1, FS_AddElement
  <2> QED BY <1>4, <2>1, <2>2 DEF Counted
<1>8. /\ PlanConfirms(original, plan, k) \/ PlanAdmits(original, plan, k)
      /\ \A m \in CountUpsOf(plan, k) : plan.countUps[m].rel = plan.net[k].rel
      /\ Cardinality(At(plan.evidence, k)) >= Cardinality(At(evidence, k)) + Counted(plan, k)
      /\ PlanAnswers(original, plan, k)
  BY <1>1, <1>2 DEF PlanOK, PlanAt, PlanLeaves
<1>9. PlanConfirms(original, plan, k) => PlanConfirms(original, new, k)
  <2>1. IsLearned(original[k]) => original[k].co \in Nat
    BY <1>1 DEF Networks, Edges, IsLearned
  <2> QED BY <1>4, <1>5, <1>7, <2>1 DEF PlanConfirms
<1>10. PlanAdmits(original, plan, k) => PlanAdmits(original, new, k)
  <2>1. ASSUME PlanAdmits(original, plan, k) PROVE PlanAdmits(original, new, k)
    <3>1. PICK m : InsertsOf(plan, k) = {m} /\ plan.inserts[m] = Row(k, plan.net[k].rel)
      BY <2>1 DEF PlanAdmits
    <3>2. InsertsOf(new, k) = {m} /\ new.inserts[m] = Row(k, new.net[k].rel)
      BY <1>3, <1>4, <1>5, <3>1
    <3>3. new.net[k].co = 1 + Counted(new, k)
      BY <1>4, <1>7, <2>1 DEF PlanAdmits
    <3> QED BY <1>4, <2>1, <3>2, <3>3 DEF PlanAdmits
  <2> QED BY <2>1
<1>11. \A m \in CountUpsOf(new, k) : new.countUps[m].rel = new.net[k].rel
  BY <1>2, <1>4, <1>8 DEF CountUpsOf
<1>12. At(new.evidence, k) = At(plan.evidence, k) \cup {Evidence(e)}
  BY <1>3, EvidenceOf DEF At
<1>13. Cardinality(At(new.evidence, k)) = Cardinality(At(plan.evidence, k)) + 1
  <2>1. Evidence(e) \notin At(plan.evidence, k)
    BY <1>2, EvidenceOf DEF Duplicate, At
  <2> QED BY <1>1, <1>12, <2>1, KnownFinite, FS_AddElement
<1>14. Cardinality(At(new.evidence, k)) >= Cardinality(At(evidence, k)) + Counted(new, k)
  <2>1. Cardinality(At(evidence, k)) \in Nat /\ Cardinality(At(plan.evidence, k)) \in Nat
    BY <1>1, KnownFinite DEF StateOK
  <2> QED BY <1>7, <1>8, <1>13, <2>1
<1>15. ASSUME Uniform(original, evidence, k)
       PROVE  /\ Uniform(new.net, new.evidence, k)
              /\ Cardinality(Answers(new.evidence, k)) = Cardinality(Answers(plan.evidence, k)) + 1
  <2>1. Uniform(plan.net, plan.evidence, k)
    BY <1>8, <1>15 DEF PlanAnswers
  <2>2. Uniform(new.net, new.evidence, k)
    BY <1>2, <1>4, <1>12, <2>1, EvidenceOf DEF Uniform
  <2>3. AnswerOf(e) \notin Answers(plan.evidence, k)
    <3>1. ASSUME NEW x \in At(plan.evidence, k), x.answer = AnswerOf(e) PROVE FALSE
      <4>1. x \in plan.evidence /\ x.key = KeyOf(e) /\ x.rel = RelOf(e)
        BY <1>2, <2>1 DEF Uniform, At
      <4> QED BY <1>2, <3>1, <4>1 DEF Duplicate
    <3> QED BY <3>1 DEF Answers
  <2>4. Answers(new.evidence, k) = Answers(plan.evidence, k) \cup {AnswerOf(e)}
    <3>1. \A a : a \in Answers(new.evidence, k) <=> \E x \in At(new.evidence, k) : x.answer = a
      BY DEF Answers
    <3>2. \A a : a \in Answers(plan.evidence, k) <=> \E x \in At(plan.evidence, k) : x.answer = a
      BY DEF Answers
    <3> QED BY <1>12, <3>1, <3>2, EvidenceOf
  <2>5. IsFiniteSet(Answers(plan.evidence, k))
    BY <1>1, KnownFinite
  <2> QED BY <2>2, <2>3, <2>4, <2>5, FS_AddElement
<1>16. PlanAnswers(original, new, k)
  <2> SUFFICES ASSUME Uniform(original, evidence, k)
               PROVE  /\ Uniform(new.net, new.evidence, k)
                      /\ Cardinality(Answers(new.evidence, k)) =
                           Cardinality(Answers(evidence, k)) + Counted(new, k)
                             + (IF ~IsLearned(original[k]) THEN 1 ELSE 0)
    BY <1>4 DEF PlanAnswers
  <2>1. Cardinality(Answers(plan.evidence, k)) =
          Cardinality(Answers(evidence, k)) + Counted(plan, k)
            + (IF ~IsLearned(original[k]) THEN 1 ELSE 0)
    BY <1>2, <1>8 DEF PlanAnswers
  <2>2. Cardinality(Answers(evidence, k)) \in Nat
    BY KnownFinite DEF StateOK
  <2> QED BY <1>7, <1>15, <2>1, <2>2
<1>17. PlanAt(original, new, k)
  BY <1>8, <1>9, <1>10, <1>11, <1>14, <1>16 DEF PlanAt
<1>18. \A j \in Keys : PlanAt(original, new, j)
  BY <1>6, <1>17
<1> QED BY <1>3, <1>4, <1>18 DEF PlanOK, new

LEMMA PlanIsOK ==
  ASSUME StateOK, NEW original \in Networks, NEW events \in Seq(Events)
  PROVE  PlanOK(original, Plan(original, events))
<1>1. PICK g : /\ IsPlanning(g, original, events, Len(events))
               /\ Plan(original, events) = g[Len(events)]
  BY PlanSteps
<1> DEFINE N == Len(events)
           S == {n \in 0..N : PlanOK(original, g[n])}
<1>2. N \in Nat
  OBVIOUS
<1>3. 0 \in S
  <2>1. g[0] = [net |-> original, inserts |-> <<>>, countUps |-> <<>>, evidence |-> evidence]
    BY <1>1, <1>2 DEF IsPlanning
  <2> QED BY <1>2, <2>1, PlanOfNone
<1>4. ASSUME NEW i \in 0..N, i < N, i \in S PROVE i + 1 \in S
  <2>1. i + 1 \in 0..N /\ i + 1 # 0 /\ (i + 1) - 1 = i
    BY <1>2, <1>4
  <2>2. events[i + 1] \in Events
    BY <2>1
  <2>3. g[i + 1] = PlanEvent(g[i], events[i + 1])
    BY <1>1, <2>1 DEF IsPlanning
  <2>4. PlanOK(original, g[i])
    BY <1>4
  <2>5. PlanOK(original, PlanEvent(g[i], events[i + 1]))
    BY <2>2, <2>4, PlanEventCases, AdmitStep, CorroborateStep
  <2> QED BY <2>1, <2>3, <2>5
<1>5. \A i \in 0..N : i < N /\ i \in S => i + 1 \in S
  BY <1>4
<1>6. N \in S
  <2>1. N \in 0..N
    BY <1>2
  <2> HIDE DEF S, N
  <2>2. \A i \in 0..N : i \in S
    BY <1>2, <1>3, <1>5, Induction
  <2> QED BY <2>1, <2>2
<1> QED BY <1>1, <1>6

-----------------------------------------------------------------------------
(* What the transaction makes of the rows. *)
LEMMA NewestIn ==
  ASSUME NEW n \in Nat, NEW S \in SUBSET (1..n), S # {}
  PROVE  Newest(S) \in S /\ \A j \in S : j <= Newest(S)
<1> DEFINE T == {n - i : i \in S}
<1>1. T \in SUBSET Nat /\ T # {}
  <2>1. \A i \in S : n - i \in Nat
    OBVIOUS
  <2> QED BY <2>1
<1>2. PICK x \in T : \A y \in T : x <= y
  <2> HIDE DEF T
  <2> QED BY <1>1, LeastOfNat
<1>3. PICK i \in S : x = n - i
  BY <1>2
<1>4. ASSUME NEW j \in S PROVE j <= i
  <2>1. n - i <= n - j
    BY <1>2, <1>3, <1>4
  <2> QED BY <2>1
<1>5. \E a \in S : \A j \in S : j <= a
  BY <1>3, <1>4
<1> QED BY <1>5 DEF Newest

CountedUpTo(plan, k, n) == Cardinality({m \in 1..n : plan.countUps[m].key = k})

LEMMA CountedNext ==
  ASSUME NEW plan, NEW k, NEW n \in Nat
  PROVE  /\ CountedUpTo(plan, k, 0) = 0
         /\ CountedUpTo(plan, k, n) \in Nat
         /\ plan.countUps[n + 1].key = k => CountedUpTo(plan, k, n + 1) = CountedUpTo(plan, k, n) + 1
         /\ plan.countUps[n + 1].key # k => CountedUpTo(plan, k, n + 1) = CountedUpTo(plan, k, n)
<1> DEFINE C(i) == {m \in 1..i : plan.countUps[m].key = k}
<1>1. C(0) = {}
  OBVIOUS
<1>2. IsFiniteSet(C(n))
  <2>1. IsFiniteSet(1..n) /\ C(n) \in SUBSET (1..n)
    BY FS_Interval
  <2> HIDE DEF C
  <2> QED BY <2>1, FS_Subset
<1>3. n + 1 \notin C(n)
  OBVIOUS
<1>4. C(n + 1) = IF plan.countUps[n + 1].key = k THEN C(n) \cup {n + 1} ELSE C(n)
  <2>1. 1..(n + 1) = (1..n) \cup {n + 1}
    OBVIOUS
  <2> QED BY <2>1
<1>5. \A i : CountedUpTo(plan, k, i) = Cardinality(C(i))
  BY DEF CountedUpTo
<1> HIDE DEF C
<1>6. Cardinality(C(n)) \in Nat
  BY <1>2, FS_CardinalityType
<1>7. Cardinality(C(n) \cup {n + 1}) = Cardinality(C(n)) + 1
  BY <1>2, <1>3, FS_AddElement
<1> QED BY <1>1, <1>4, <1>5, <1>6, <1>7, FS_EmptySet

(* The rows after n counts: the counts go to a row of their relation, and  *)
(* all those of a key to its row if there is only one.                     *)
Only(table, countUps, i) ==
  /\ {j \in DOMAIN table : table[j].key = table[i].key} = {i}
  /\ \A m \in DOMAIN countUps :
       countUps[m].key = table[i].key => countUps[m].rel = table[i].rel

CountsReach(table, plan, t, n) ==
  /\ t \in [DOMAIN table -> Rows]
  /\ \A i \in DOMAIN table :
       /\ t[i].key = table[i].key /\ t[i].rel = table[i].rel
       /\ t[i].co <= table[i].co + CountedUpTo(plan, table[i].key, n)
       /\ Only(table, plan.countUps, i) =>
            t[i].co = table[i].co + CountedUpTo(plan, table[i].key, n)

LEMMA CountStep ==
  ASSUME NEW table \in Seq(Rows), NEW plan \in Plans, NEW n \in Nat,
         n + 1 \in DOMAIN plan.countUps, NEW t, CountsReach(table, plan, t, n),
         RowsOf(table, plan.countUps[n + 1].key, plan.countUps[n + 1].rel) # {}
  PROVE  CountsReach(table, plan, CountUp(t, plan.countUps[n + 1]), n + 1)
<1> DEFINE c == plan.countUps[n + 1]
           N == Newest(RowsOf(t, c.key, c.rel))
           new == CountUp(t, c)
<1>1. t \in [DOMAIN table -> Rows] /\ DOMAIN table = 1..Len(table) /\ Len(table) \in Nat
  BY DEF CountsReach
<1>2. RowsOf(t, c.key, c.rel) = RowsOf(table, c.key, c.rel)
  BY <1>1 DEF RowsOf, CountsReach
<1>3. RowsOf(t, c.key, c.rel) \in SUBSET (1..Len(table))
  BY <1>1 DEF RowsOf
<1>4. N \in RowsOf(t, c.key, c.rel)
  BY <1>1, <1>2, <1>3, NewestIn
<1>5. N \in DOMAIN table /\ table[N].key = c.key /\ table[N].rel = c.rel
  BY <1>2, <1>4 DEF RowsOf
<1>6. new = [t EXCEPT ![N] = [t[N] EXCEPT !.co = @ + 1]]
  BY DEF CountUp
<1>7. t[N] \in Rows
  BY <1>1, <1>5
<1>8. /\ [t[N] EXCEPT !.co = @ + 1] \in Rows
      /\ [t[N] EXCEPT !.co = @ + 1].co = t[N].co + 1
      /\ [t[N] EXCEPT !.co = @ + 1].key = t[N].key
      /\ [t[N] EXCEPT !.co = @ + 1].rel = t[N].rel
  <2>1. ASSUME NEW r \in Rows
        PROVE  /\ [r EXCEPT !.co = @ + 1] \in Rows
               /\ [r EXCEPT !.co = @ + 1].co = r.co + 1
               /\ [r EXCEPT !.co = @ + 1].key = r.key
               /\ [r EXCEPT !.co = @ + 1].rel = r.rel
    <3>1. r.co + 1 \in Nat \ {0}
      BY DEF Rows
    <3> QED BY <3>1 DEF Rows
  <2> HIDE DEF N
  <2> QED BY <1>7, <2>1
<1> HIDE DEF new, N, c
<1>9. new \in [DOMAIN table -> Rows] /\ new[N] = [t[N] EXCEPT !.co = @ + 1]
  BY <1>1, <1>5, <1>6, <1>8
<1>10. \A i \in DOMAIN table : i # N => new[i] = t[i]
  BY <1>1, <1>6
<1>11. ASSUME NEW i \in DOMAIN table
       PROVE  /\ new[i].key = table[i].key /\ new[i].rel = table[i].rel
              /\ new[i].co <= table[i].co + CountedUpTo(plan, table[i].key, n + 1)
              /\ Only(table, plan.countUps, i) =>
                   new[i].co = table[i].co + CountedUpTo(plan, table[i].key, n + 1)
  <2>1. /\ t[i].key = table[i].key /\ t[i].rel = table[i].rel
        /\ t[i].co <= table[i].co + CountedUpTo(plan, table[i].key, n)
        /\ Only(table, plan.countUps, i) =>
             t[i].co = table[i].co + CountedUpTo(plan, table[i].key, n)
    BY DEF CountsReach
  <2>2. t[i].co \in Nat /\ table[i].co \in Nat
    <3>1. t[i] \in Rows /\ table[i] \in Rows
      BY <1>1
    <3> QED BY <3>1 DEF Rows
  <2> DEFINE k == table[i].key
             before == CountedUpTo(plan, k, n)
             after  == CountedUpTo(plan, k, n + 1)
  <2>3. /\ before \in Nat
        /\ c.key = k => after = before + 1
        /\ c.key # k => after = before
    <3> HIDE DEF k
    <3> QED BY CountedNext DEF c
  <2> HIDE DEF before, after
  <2>4. CASE i = N
    <3>1. new[i].key = t[i].key /\ new[i].rel = t[i].rel /\ new[i].co = t[i].co + 1
      BY <1>8, <1>9, <2>4
    <3>2. after = before + 1
      BY <1>5, <2>3, <2>4
    <3>3. t[i].co <= table[i].co + before
      BY <2>1 DEF before
    <3>4. Only(table, plan.countUps, i) => t[i].co = table[i].co + before
      BY <2>1 DEF before
    <3>5. new[i].co <= table[i].co + after
      BY <2>2, <2>3, <3>1, <3>2, <3>3
    <3>6. ASSUME Only(table, plan.countUps, i) PROVE new[i].co = table[i].co + after
      <4> DEFINE was == t[i].co
                 start == table[i].co
      <4>1. was = start + before /\ new[i].co = was + 1
        BY <3>1, <3>4, <3>6
      <4>2. was \in Nat /\ start \in Nat /\ before \in Nat
        BY <2>2, <2>3
      <4> HIDE DEF was, start
      <4>3. was + 1 = start + after
        BY <3>2, <4>1, <4>2
      <4> QED BY <4>1, <4>3 DEF start
    <3> QED BY <2>1, <3>1, <3>5, <3>6 DEF after
  <2>5. CASE i # N
    <3>1. Only(table, plan.countUps, i) => c.key # table[i].key
      <4> SUFFICES ASSUME Only(table, plan.countUps, i), c.key = table[i].key PROVE FALSE
        OBVIOUS
      <4>1. N \in {j \in DOMAIN table : table[j].key = table[i].key}
        BY <1>5
      <4> QED BY <2>5, <4>1 DEF Only
    <3>2. new[i] = t[i]
      BY <1>10, <2>5
    <3>3. /\ t[i].co <= table[i].co + before
          /\ Only(table, plan.countUps, i) => t[i].co = table[i].co + before
      BY <2>1 DEF before
    <3>4. new[i].co <= table[i].co + after
      BY <2>2, <2>3, <3>2, <3>3
    <3>5. Only(table, plan.countUps, i) => new[i].co = table[i].co + after
      BY <2>2, <2>3, <3>1, <3>2, <3>3
    <3> QED BY <2>1, <3>2, <3>4, <3>5 DEF after
  <2> QED BY <2>4, <2>5
<1>12. CountsReach(table, plan, new, n + 1)
  BY <1>9, <1>11 DEF CountsReach
<1> QED BY <1>12 DEF new, c

LEMMA PersistedRows ==
  ASSUME StateOK, NEW plan \in Plans, Persistable(plan)
  PROVE  LET table == edgeRows \o plan.inserts IN
         /\ Persisted(plan) \in Seq(Rows) /\ DOMAIN Persisted(plan) = DOMAIN table
         /\ CountsReach(table, plan, Persisted(plan), Len(plan.countUps))
<1> DEFINE table == edgeRows \o plan.inserts
           N == Len(plan.countUps)
<1>1. PICK g : IsCounting(g, table, plan.countUps, N) /\ Persisted(plan) = g[N]
  BY CountSteps DEF Plans, CountUps
<1>2. table \in Seq(Rows) /\ plan.countUps \in Seq(CountUps)
  BY DEF StateOK, Plans
<1>3. N \in Nat /\ DOMAIN plan.countUps = 1..N
  BY <1>2
<1> DEFINE S == {n \in 0..N : CountsReach(table, plan, g[n], n)}
<1>4. 0 \in S
  <2>1. g[0] = table
    BY <1>1, <1>3 DEF IsCounting
  <2> HIDE DEF table
  <2>2. table \in [DOMAIN table -> Rows] /\ \A i \in DOMAIN table : table[i].co \in Nat
    <3>1. \A i \in DOMAIN table : table[i] \in Rows
      BY <1>2
    <3>2. table \in [DOMAIN table -> Rows]
      BY <1>2
    <3> QED BY <3>1, <3>2 DEF Rows
  <2>3. CountsReach(table, plan, table, 0)
    BY <2>2, CountedNext DEF CountsReach
  <2> QED BY <1>3, <2>1, <2>3
<1>5. ASSUME NEW n \in 0..N, n < N, n \in S PROVE n + 1 \in S
  <2>1. n + 1 \in 0..N /\ n + 1 # 0 /\ (n + 1) - 1 = n /\ n + 1 \in DOMAIN plan.countUps
    BY <1>3, <1>5
  <2>2. g[n + 1] = CountUp(g[n], plan.countUps[n + 1])
    BY <1>1, <2>1 DEF IsCounting
  <2>3. RowsOf(table, plan.countUps[n + 1].key, plan.countUps[n + 1].rel) # {}
    BY <2>1 DEF Persistable
  <2>4. CountsReach(table, plan, g[n], n) /\ n \in Nat
    BY <1>5
  <2> HIDE DEF table
  <2>5. CountsReach(table, plan, CountUp(g[n], plan.countUps[n + 1]), n + 1)
    BY <1>2, <2>1, <2>3, <2>4, CountStep
  <2> QED BY <2>1, <2>2, <2>5
<1>6. \A n \in 0..N : n < N /\ n \in S => n + 1 \in S
  BY <1>5
<1>7. N \in S
  <2>1. N \in 0..N
    BY <1>3
  <2> HIDE DEF S, N
  <2>2. \A i \in 0..N : i \in S
    BY <1>3, <1>4, <1>6, Induction
  <2> QED BY <2>1, <2>2
<1>8. CountsReach(table, plan, Persisted(plan), N)
  BY <1>1, <1>7
<1> HIDE DEF table
<1>9. Persisted(plan) \in [1..Len(table) -> Rows] /\ DOMAIN table = 1..Len(table) /\ Len(table) \in Nat
  BY <1>2, <1>8 DEF CountsReach
<1>10. Persisted(plan) \in Seq(Rows) /\ DOMAIN Persisted(plan) = DOMAIN table
  BY <1>9
<1> QED BY <1>8, <1>10 DEF table

-----------------------------------------------------------------------------
(* A batch on a network that matches the rows: what it leaves matches the  *)
(* rows of its transaction.                                                *)
LEMMA KeptPlan ==
  ASSUME StateOK, NEW original \in Networks, NEW plan, PlanOK(original, plan), NEW k \in Keys
  PROVE  Survives(original[k], plan.net[k])
<1>1. PlanAt(original, plan, k) /\ plan \in Plans
  BY DEF PlanOK
<1>2. CASE PlanLeaves(original, plan, k)
  <2>1. plan.net[k] = original[k] /\ ~IsLearned(original[k])
    BY <1>2 DEF PlanLeaves
  <2> QED BY <2>1 DEF Survives
<1>3. CASE PlanConfirms(original, plan, k)
  <2>1. original[k].co \in Nat /\ Counted(plan, k) \in Nat
    <3>1. original[k] \in Edges
      BY <1>3 DEF PlanConfirms, Networks, IsLearned
    <3> QED BY <1>1, <3>1, CountedFinite DEF Edges
  <2>2. original[k].co <= plan.net[k].co
    BY <1>3, <2>1 DEF PlanConfirms
  <2> QED BY <1>3, <2>2 DEF PlanConfirms, Survives, Curated, IsLearned
<1>4. CASE PlanAdmits(original, plan, k)
  BY <1>4 DEF PlanAdmits, Survives, Curated, IsLearned
<1> QED BY <1>1, <1>2, <1>3, <1>4 DEF PlanAt

LEMMA CountedAll ==
  ASSUME NEW plan \in Plans, NEW k
  PROVE  CountedUpTo(plan, k, Len(plan.countUps)) = Counted(plan, k)
<1>1. DOMAIN plan.countUps = 1..Len(plan.countUps)
  BY DEF Plans
<1> QED BY <1>1 DEF CountedUpTo, Counted, CountUpsOf

(* The table of a plan. *)
LEMMA TableOf ==
  ASSUME StateOK, NEW plan \in Plans
  PROVE  LET table == edgeRows \o plan.inserts
             n     == Len(edgeRows) IN
         /\ n \in Nat /\ DOMAIN edgeRows = 1..n
         /\ \A i \in DOMAIN edgeRows : i \in DOMAIN table /\ table[i] = edgeRows[i]
         /\ \A m \in DOMAIN plan.inserts :
              n + m \in DOMAIN table /\ table[n + m] = plan.inserts[m]
         /\ \A i \in DOMAIN table :
              i \in DOMAIN edgeRows \/ \E m \in DOMAIN plan.inserts : i = n + m
         /\ \A i \in DOMAIN table : table[i] \in Rows
         /\ \A k : {i \in DOMAIN table : table[i].key = k} =
                     RowsAt(k) \cup {n + m : m \in InsertsOf(plan, k)}
<1> DEFINE table == edgeRows \o plan.inserts
           n     == Len(edgeRows)
<1>1. edgeRows \in Seq(Rows) /\ plan.inserts \in Seq(Rows)
  BY DEF StateOK, Plans
<1>2. /\ n \in Nat /\ Len(plan.inserts) \in Nat /\ DOMAIN edgeRows = 1..n
      /\ DOMAIN plan.inserts = 1..Len(plan.inserts)
      /\ table \in Seq(Rows) /\ DOMAIN table = 1..(n + Len(plan.inserts))
  BY <1>1
<1>3. \A i \in 1..n : table[i] = edgeRows[i]
  BY <1>1
<1>4. \A m \in 1..Len(plan.inserts) : table[n + m] = plan.inserts[m]
  BY <1>1, <1>2
<1> HIDE DEF table, n
<1>5. \A i \in DOMAIN edgeRows : i \in DOMAIN table /\ table[i] = edgeRows[i]
  BY <1>2, <1>3
<1>6. \A m \in DOMAIN plan.inserts : n + m \in DOMAIN table /\ table[n + m] = plan.inserts[m]
  BY <1>2, <1>4
<1>7. \A i \in DOMAIN table : i \in DOMAIN edgeRows \/ \E m \in DOMAIN plan.inserts : i = n + m
  <2> TAKE i \in DOMAIN table
  <2>1. i \in 1..n \/ (i - n \in 1..Len(plan.inserts) /\ i = n + (i - n))
    BY <1>2
  <2> QED BY <1>2, <2>1
<1>8. \A k : {i \in DOMAIN table : table[i].key = k} =
               RowsAt(k) \cup {n + m : m \in InsertsOf(plan, k)}
  BY <1>5, <1>6, <1>7 DEF RowsAt, InsertsOf
<1>9. \A i \in DOMAIN table : table[i] \in Rows
  BY <1>2
<1> QED BY <1>2, <1>5, <1>6, <1>7, <1>8, <1>9 DEF table, n

LEMMA CountsAfter ==
  ASSUME StateOK, CountsOK, NEW original \in Networks, NEW plan, PlanOK(original, plan),
         \A k \in Keys : CountOK(original[k], evidence, k), Persistable(plan)
  PROVE  /\ \A k \in Keys : CountOK(plan.net[k], plan.evidence, k)
         /\ \A i \in DOMAIN Persisted(plan) :
              Persisted(plan)[i].co <=
                1 + Cardinality(At(plan.evidence, Persisted(plan)[i].key))
<1>1. plan \in Plans /\ plan.evidence \in SUBSET AllEvidence /\ evidence \in SUBSET AllEvidence
  BY DEF PlanOK, Plans, StateOK
<1>2. ASSUME NEW k \in Keys
      PROVE  /\ PlanAt(original, plan, k) /\ Counted(plan, k) \in Nat
             /\ Cardinality(At(plan.evidence, k)) \in Nat /\ Cardinality(At(evidence, k)) \in Nat
             /\ Cardinality(At(plan.evidence, k)) >= Cardinality(At(evidence, k)) + Counted(plan, k)
  BY <1>1, KnownFinite, CountedFinite DEF PlanOK, PlanAt
<1>3. ASSUME NEW k \in Keys PROVE CountOK(plan.net[k], plan.evidence, k)
  <2>1. CASE PlanLeaves(original, plan, k)
    BY <2>1 DEF PlanLeaves, CountOK
  <2>2. CASE PlanConfirms(original, plan, k)
    <3>1. original[k].co <= 1 + Cardinality(At(evidence, k))
      BY <2>2 DEF CountOK, PlanConfirms
    <3>2. original[k].co \in Nat
      <4>1. original[k] \in Edges
        BY <2>2 DEF PlanConfirms, Networks, IsLearned
      <4> QED BY <4>1 DEF Edges
    <3>3. plan.net[k].co = original[k].co + Counted(plan, k)
      BY <2>2 DEF PlanConfirms
    <3> QED BY <1>2, <3>1, <3>2, <3>3 DEF CountOK
  <2>3. CASE PlanAdmits(original, plan, k)
    <3>1. plan.net[k].co = 1 + Counted(plan, k)
      BY <2>3 DEF PlanAdmits
    <3> QED BY <1>2, <3>1 DEF CountOK
  <2> QED BY <1>2, <2>1, <2>2, <2>3 DEF PlanAt
<1> DEFINE table == edgeRows \o plan.inserts
           n     == Len(edgeRows)
<1>4. /\ n \in Nat /\ DOMAIN edgeRows = 1..n
      /\ \A i \in DOMAIN edgeRows : i \in DOMAIN table /\ table[i] = edgeRows[i]
      /\ \A m \in DOMAIN plan.inserts : n + m \in DOMAIN table /\ table[n + m] = plan.inserts[m]
      /\ \A i \in DOMAIN table : i \in DOMAIN edgeRows \/ \E m \in DOMAIN plan.inserts : i = n + m
      /\ \A i \in DOMAIN table : table[i] \in Rows
  BY <1>1, TableOf
<1>5. /\ CountsReach(table, plan, Persisted(plan), Len(plan.countUps))
      /\ DOMAIN Persisted(plan) = DOMAIN table
  BY <1>1, PersistedRows
<1> HIDE DEF table, n
<1>6. ASSUME NEW i \in DOMAIN table
      PROVE  Persisted(plan)[i].co <= 1 + Cardinality(At(plan.evidence, Persisted(plan)[i].key))
  <2> DEFINE k == table[i].key
  <2>1. k \in Keys /\ table[i].co \in Nat
    BY <1>4 DEF Rows
  <2>2. /\ Persisted(plan)[i].key = k
        /\ Persisted(plan)[i].co <= table[i].co + Counted(plan, k)
    BY <1>1, <1>5, CountedAll DEF CountsReach
  <2>3. Persisted(plan)[i].co \in Nat
    BY <1>5 DEF CountsReach, Rows
  <2>4. table[i].co <= 1 + Cardinality(At(evidence, k))
    <3>1. CASE i \in DOMAIN edgeRows
      <4>1. table[i] = edgeRows[i]
        BY <1>4, <3>1
      <4> QED BY <3>1, <4>1 DEF CountsOK
    <3>2. CASE \E m \in DOMAIN plan.inserts : i = n + m
      <4>1. PICK m \in DOMAIN plan.inserts : i = n + m
        BY <3>2
      <4>2. m \in InsertsOf(plan, k) /\ table[i] = plan.inserts[m]
        BY <1>4, <4>1 DEF InsertsOf
      <4> HIDE DEF k
      <4>3. PlanAdmits(original, plan, k)
        BY <1>2, <2>1, <4>2 DEF PlanAt, PlanLeaves, PlanConfirms
      <4>4. plan.inserts[m] = Row(k, plan.net[k].rel)
        BY <4>2, <4>3 DEF PlanAdmits
      <4>5. table[i].co = 1
        BY <4>2, <4>4 DEF Row
      <4> QED BY <1>2, <2>1, <4>5
    <3> QED BY <1>4, <3>1, <3>2
  <2> HIDE DEF k
  <2> QED BY <1>2, <2>1, <2>2, <2>3, <2>4
<1> QED BY <1>3, <1>5, <1>6

LEMMA AnswersNone ==
  ASSUME NEW known, NEW k, At(known, k) = {}
  PROVE  Cardinality(Answers(known, k)) = 0
<1>1. Answers(known, k) = {}
  BY DEF Answers
<1> QED BY <1>1, FS_EmptySet

LEMMA MatchAfter ==
  ASSUME StateOK, NEW original \in Networks, NEW plan, PlanOK(original, plan),
         Persistable(plan), NEW k \in Keys, MatchesAt(original, k),
         edgeRows' = Persisted(plan), evidence' = plan.evidence, seed' = seed
  PROVE  MatchesAt(plan.net, k)'
<1> DEFINE table == edgeRows \o plan.inserts
           n     == Len(edgeRows)
           C     == Counted(plan, k)
<1>1. plan \in Plans /\ PlanAt(original, plan, k) /\ C \in Nat
  BY CountedFinite DEF PlanOK
<1>2. /\ n \in Nat /\ DOMAIN edgeRows = 1..n
      /\ \A i \in DOMAIN edgeRows : i \in DOMAIN table /\ table[i] = edgeRows[i]
      /\ \A m \in DOMAIN plan.inserts : n + m \in DOMAIN table /\ table[n + m] = plan.inserts[m]
      /\ {i \in DOMAIN table : table[i].key = k} = RowsAt(k) \cup {n + m : m \in InsertsOf(plan, k)}
  BY <1>1, TableOf
<1>3. /\ CountsReach(table, plan, edgeRows', Len(plan.countUps))
      /\ DOMAIN edgeRows' = DOMAIN table
  BY <1>1, PersistedRows
<1>4. Uniform(original, evidence, k)
  BY DEF MatchesAt, NothingLearned, RowLearned, Uniform
<1>5. /\ Uniform(plan.net, plan.evidence, k)
      /\ Cardinality(Answers(plan.evidence, k)) =
           Cardinality(Answers(evidence, k)) + C
             + (IF IsLearned(plan.net[k]) /\ ~IsLearned(original[k]) THEN 1 ELSE 0)
  BY <1>1, <1>4 DEF PlanAt, PlanAnswers
<1> HIDE DEF table, n
<1>6. RowsAt(k)' = RowsAt(k) \cup {n + m : m \in InsertsOf(plan, k)}
  BY <1>2, <1>3 DEF RowsAt, CountsReach
(* The counts of the key go to its only row. *)
<1>7. ASSUME NEW i \in DOMAIN table, table[i].key = k, RowsAt(k)' = {i},
             table[i].rel = plan.net[k].rel
      PROVE  edgeRows'[i].co = table[i].co + C /\ edgeRows'[i].rel = table[i].rel
  <2>1. {j \in DOMAIN table : table[j].key = table[i].key} = {i}
    BY <1>2, <1>6, <1>7
  <2>2. ASSUME NEW m \in DOMAIN plan.countUps, plan.countUps[m].key = table[i].key
        PROVE  plan.countUps[m].rel = table[i].rel
    BY <1>1, <1>7, <2>2 DEF PlanAt, CountUpsOf
  <2>3. Only(table, plan.countUps, i)
    BY <2>1, <2>2 DEF Only
  <2> QED BY <1>1, <1>3, <1>7, <2>3, CountedAll DEF CountsReach
<1>8. CASE NothingLearned(original, k) /\ PlanLeaves(original, plan, k)
  BY <1>6, <1>8 DEF NothingLearned, PlanLeaves, MatchesAt
<1>9. CASE NothingLearned(original, k) /\ PlanAdmits(original, plan, k)
  <2>1. PICK m : InsertsOf(plan, k) = {m} /\ plan.inserts[m] = Row(k, plan.net[k].rel)
    BY <1>9 DEF PlanAdmits
  <2>2. m \in DOMAIN plan.inserts
    BY <2>1 DEF InsertsOf
  <2>3. RowsAt(k)' = {n + m}
    BY <1>6, <1>9, <2>1 DEF NothingLearned
  <2>4. /\ n + m \in DOMAIN table /\ table[n + m].key = k /\ table[n + m].co = 1
        /\ table[n + m].rel = plan.net[k].rel
    BY <1>2, <2>1, <2>2 DEF Row
  <2>5. edgeRows'[n + m].co = 1 + C /\ edgeRows'[n + m].rel = plan.net[k].rel
    BY <1>7, <2>3, <2>4
  <2>6. Cardinality(Answers(plan.evidence, k)) = 1 + C
    <3>1. Cardinality(Answers(evidence, k)) = 0
      BY <1>9, AnswersNone DEF NothingLearned
    <3>2. IsLearned(plan.net[k]) /\ ~IsLearned(original[k])
      BY <1>9 DEF PlanAdmits
    <3> QED BY <1>1, <1>5, <3>1, <3>2
  <2>7. IsLearned(plan.net[k]) /\ plan.net[k].co = 1 + C /\ ~Curated(seed[k])
    BY <1>9 DEF PlanAdmits, NothingLearned
  <2>8. \A x \in At(plan.evidence, k) : x.rel = plan.net[k].rel
    BY <1>5 DEF Uniform
  <2>9. n + m \in DOMAIN edgeRows' /\ plan.net[k].co <= edgeRows'[n + m].co
    BY <1>1, <1>3, <2>4, <2>5, <2>7
  <2>10. RowLearned(plan.net, k)'
    BY <2>3, <2>5, <2>6, <2>7, <2>8, <2>9 DEF RowLearned
  <2> QED BY <2>10 DEF MatchesAt
<1>10. CASE RowLearned(original, k) /\ PlanConfirms(original, plan, k)
  <2>1. PICK i \in DOMAIN edgeRows :
          /\ RowsAt(k) = {i} /\ ~Curated(seed[k])
          /\ IsLearned(original[k]) /\ original[k].rel = edgeRows[i].rel
          /\ original[k].co <= edgeRows[i].co
          /\ edgeRows[i].co = Cardinality(Answers(evidence, k))
    BY <1>10 DEF RowLearned
  <2>2. RowsAt(k)' = {i}
    BY <1>6, <1>10, <2>1 DEF PlanConfirms
  <2>3. /\ i \in DOMAIN table /\ table[i] = edgeRows[i] /\ table[i].key = k
        /\ table[i].rel = plan.net[k].rel
    BY <1>2, <1>10, <2>1 DEF RowsAt, PlanConfirms
  <2>4. edgeRows'[i].co = edgeRows[i].co + C /\ edgeRows'[i].rel = plan.net[k].rel
    BY <1>7, <2>2, <2>3
  <2>5. edgeRows[i].co \in Nat /\ original[k].co \in Nat
    <3>1. edgeRows[i] \in Rows /\ original[k] \in Edges
      BY <2>1 DEF StateOK, Networks, IsLearned
    <3> QED BY <3>1 DEF Rows, Edges
  <2>6. plan.net[k].co <= edgeRows'[i].co
    <3>1. plan.net[k].co = original[k].co + C
      BY <1>10 DEF PlanConfirms
    <3> QED BY <1>1, <2>1, <2>4, <2>5, <3>1
  <2>7. edgeRows'[i].co = Cardinality(Answers(plan.evidence, k))
    BY <1>1, <1>5, <2>1, <2>4, <2>5
  <2>8. \A x \in At(plan.evidence, k) : x.rel = plan.net[k].rel
    BY <1>5 DEF Uniform
  <2>9. IsLearned(plan.net[k]) /\ i \in DOMAIN edgeRows'
    BY <1>3, <1>10, <2>3 DEF PlanConfirms
  <2>10. RowLearned(plan.net, k)'
    BY <2>1, <2>2, <2>4, <2>6, <2>7, <2>8, <2>9 DEF RowLearned
  <2> QED BY <2>10 DEF MatchesAt
<1>11. NothingLearned(original, k) => ~PlanConfirms(original, plan, k)
  BY DEF NothingLearned, PlanConfirms
<1>12. RowLearned(original, k) => ~PlanLeaves(original, plan, k) /\ ~PlanAdmits(original, plan, k)
  BY DEF RowLearned, PlanLeaves, PlanAdmits
<1> QED BY <1>1, <1>8, <1>9, <1>10, <1>11, <1>12 DEF PlanAt, MatchesAt

LEMMA EdgeFacts ==
  /\ \A e \in Edges : e # None /\ e.co \in Nat /\ e.conf \in 0..100 /\ e.rel \in Relations
  /\ \A n \in Networks, k \in Keys : n[k] = None \/ n[k] \in Edges
BY SeedsAssumption DEF Networks, Edges

LEMMA CountGrows ==
  ASSUME NEW known \in SUBSET AllEvidence, NEW more \in SUBSET AllEvidence, known \subseteq more,
         NEW e \in Edges \cup {None}, NEW k, CountOK(e, known, k)
  PROVE  CountOK(e, more, k)
<1>1. At(known, k) \in SUBSET At(more, k)
  BY DEF At
<1>2. Cardinality(At(known, k)) <= Cardinality(At(more, k))
  BY <1>1, KnownFinite, FS_Subset
<1>3. Cardinality(At(known, k)) \in Nat /\ Cardinality(At(more, k)) \in Nat
  BY KnownFinite
<1>4. IsLearned(e) => e.co \in Nat
  BY EdgeFacts DEF IsLearned
<1> QED BY <1>2, <1>3, <1>4 DEF CountOK

LEMMA SurvivesItself == \A n \in Networks : \A k \in Keys : Survives(n[k], n[k])
BY EdgeFacts DEF Survives, IsLearned

LEMMA SurvivesTwice ==
  ASSUME NEW a \in Edges \cup {None}, NEW b \in Edges \cup {None}, NEW c \in Edges \cup {None},
         Survives(a, b), Survives(b, c)
  PROVE  Survives(a, c)
<1>1. IsLearned(a) => a.co \in Nat /\ b.co \in Nat /\ c.co \in Nat
  BY EdgeFacts DEF Survives, IsLearned
<1> QED BY <1>1 DEF Survives

(* Apply, whether it commits, cannot be written or fails. *)
LEMMA ApplyOutcome ==
  ASSUME StateOK, CountsOK, NEW original \in Networks, NEW events \in Seq(Events),
         \A k \in Keys : CountOK(original[k], evidence, k),
         NEW result, Apply(original, events, result), seed' = seed
  PROVE  /\ result \in Networks /\ \A k \in Keys : Survives(original[k], result[k])
         /\ edgeRows' \in Seq(Rows) /\ evidence' \subseteq AllEvidence
         /\ evidence \subseteq evidence'
         /\ \A i \in DOMAIN edgeRows' :
              edgeRows'[i].co <= 1 + Cardinality(At(evidence', edgeRows'[i].key))
         /\ \A k \in Keys : CountOK(result[k], evidence', k)
         /\ \A k \in Keys : MatchesAt(original, k) => MatchesAt(result, k)'
<1>0. PICK plan : plan = Plan(original, events)
  OBVIOUS
<1>1. PlanOK(original, plan)
  BY <1>0, PlanIsOK
<1>2. CASE Commit(plan, events) /\ result = plan.net
  <2>1. Persistable(plan) /\ edgeRows' = Persisted(plan) /\ evidence' = plan.evidence
    BY <1>2 DEF Commit
  <2>2. /\ plan \in Plans /\ plan.net \in Networks /\ plan.evidence \subseteq AllEvidence
        /\ evidence \subseteq plan.evidence
    BY <1>1 DEF PlanOK, Plans
  <2>3. \A k \in Keys : Survives(original[k], plan.net[k])
    BY <1>1, KeptPlan
  <2>4. /\ \A k \in Keys : CountOK(plan.net[k], plan.evidence, k)
        /\ \A i \in DOMAIN Persisted(plan) :
             Persisted(plan)[i].co <= 1 + Cardinality(At(plan.evidence, Persisted(plan)[i].key))
    BY <1>1, <2>1, CountsAfter
  <2>5. Persisted(plan) \in Seq(Rows)
    BY <2>1, <2>2, PersistedRows
  <2>6. \A k \in Keys : MatchesAt(original, k) => MatchesAt(plan.net, k)'
    BY <1>1, <2>1, MatchAfter
  <2>7. \A k \in Keys : MatchesAt(original, k) => MatchesAt(result, k)'
    BY <1>2, <2>6 DEF MatchesAt, NothingLearned, RowLearned
  <2> QED BY <1>2, <2>1, <2>2, <2>3, <2>4, <2>5, <2>7
<1>3. CASE result = original /\ UNCHANGED durable
  <2>1. edgeRows' = edgeRows /\ evidence' = evidence
    BY <1>3 DEF durable
  <2>2. \A k \in Keys : MatchesAt(original, k) => MatchesAt(result, k)'
    BY <1>3, <2>1 DEF MatchesAt, NothingLearned, RowLearned, RowsAt
  <2>3. /\ edgeRows \in Seq(Rows) /\ evidence \subseteq AllEvidence
        /\ \A i \in DOMAIN edgeRows :
             edgeRows[i].co <= 1 + Cardinality(At(evidence, edgeRows[i].key))
    BY DEF StateOK, CountsOK
  <2> QED BY <1>3, <2>1, <2>2, <2>3, SurvivesItself
<1> QED BY <1>0, <1>2, <1>3 DEF Apply, Redispatch

-----------------------------------------------------------------------------
(* A turn: its meaning graph, its remarks, and the rebase. *)
LEMMA MergeAtCases ==
  ASSUME NEW a, NEW b
  PROVE  /\ b = None => MergeAt(a, b) = a
         /\ b # None /\ a = None => MergeAt(a, b) = b
         /\ b # None /\ a # None => MergeAt(a, b) = MergeEdge(a, b)
BY DEF MergeAt

LEMMA OwnEdges ==
  /\ CorpusEdge \in Edges /\ CorpusEdge.prov = "corpus" /\ CorpusEdge.conf = 100
  /\ Edge("feedback", "contrasts", 30) \in Edges
  /\ Edge("feedback", "contrasts", 30).prov = "feedback"
BY DEF CorpusEdge, Edge, Edges, Relations, AuthorityRank

LEMMA ObserveDerives ==
  ASSUME NEW n \in Networks, NEW seen
  PROVE  /\ Observe(n, seen) \in Networks
         /\ \A k \in Keys : Derived(n[k], Observe(n, seen)[k])
<1>1. ASSUME NEW k \in Keys
      PROVE  /\ Observe(n, seen)[k] \in Edges \cup {None}
             /\ Derived(n[k], Observe(n, seen)[k])
  <2>1. Observe(n, seen)[k] = MergeAt(n[k], IF k \in seen THEN CorpusEdge ELSE None)
    BY DEF Observe, Merge
  <2>2. n[k] = None \/ n[k] \in Edges
    BY EdgeFacts
  <2>3. CASE k \notin seen
    <3>1. Observe(n, seen)[k] = n[k]
      BY <2>1, <2>3, MergeAtCases
    <3> QED BY <2>2, <3>1 DEF Derived
  <2>4. CASE k \in seen /\ n[k] = None
    <3>1. Observe(n, seen)[k] = CorpusEdge
      BY <2>1, <2>4, MergeAtCases, OwnEdges, EdgeFacts
    <3> QED BY <2>4, <3>1, OwnEdges, EdgeFacts DEF Derived, Curated, IsLearned
  <2>5. CASE k \in seen /\ n[k] # None
    <3>1. Observe(n, seen)[k] = MergeEdge(n[k], CorpusEdge)
      BY <2>1, <2>5, MergeAtCases, OwnEdges, EdgeFacts
    <3>2. CASE Authoritative(n[k])
      <4>1. Observe(n, seen)[k] = n[k]
        BY <3>1, <3>2, OwnEdges DEF MergeEdge, Authoritative
      <4> QED BY <2>2, <4>1 DEF Derived
    <3>3. CASE ~Authoritative(n[k])
      <4>1. Observe(n, seen)[k] \in {n[k], CorpusEdge}
        BY <3>1, MergeEdgeChooses
      <4> QED BY <2>2, <2>5, <3>3, <4>1, OwnEdges, EdgeFacts
              DEF Derived, Authoritative, Curated, IsLearned
    <3> QED BY <3>2, <3>3
  <2> QED BY <2>3, <2>4, <2>5
<1>2. Observe(n, seen) = [k \in Keys |-> Observe(n, seen)[k]]
  BY DEF Observe, Merge
<1>3. Observe(n, seen) \in Networks
  BY <1>1, <1>2 DEF Networks
<1> QED BY <1>1, <1>3

LEMMA DerivedTwice ==
  ASSUME NEW a, NEW b, NEW c, Derived(a, b), Derived(b, c)
  PROVE  Derived(a, c)
BY DEF Derived

LEMMA AdjustDerives ==
  ASSUME NEW n \in Networks, NEW k \in Keys, NEW e,
         n[k] # None => e \in Edges /\ e.prov = n[k].prov /\ e.rel = n[k].rel /\ e.co = n[k].co
  PROVE  Adjust(n, k, e) \in Networks /\ \A j \in Keys : Derived(n[j], Adjust(n, k, e)[j])
<1>1. CASE n[k] = None
  BY <1>1 DEF Adjust, Derived
<1>2. CASE n[k] # None
  <2>1. Adjust(n, k, e) = [n EXCEPT ![k] = e]
    BY <1>2 DEF Adjust
  <2>2. Adjust(n, k, e) \in Networks
    BY <1>2, <2>1 DEF Networks
  <2>3. Derived(n[k], e)
    BY <1>2, EdgeFacts DEF Derived, Curated, IsLearned
  <2>4. \A j \in Keys : Adjust(n, k, e)[j] = IF j = k THEN e ELSE n[j]
    BY <2>1 DEF Networks
  <2>5. \A j \in Keys : Derived(n[j], n[j])
    BY DEF Derived
  <2> QED BY <2>2, <2>3, <2>4, <2>5
<1> QED BY <1>1, <1>2

LEMMA EdgeExcept ==
  ASSUME NEW e \in Edges
  PROVE  /\ \A c \in 0..100 : LET f == [e EXCEPT !.conf = c] IN
              f \in Edges /\ f.prov = e.prov /\ f.rel = e.rel /\ f.co = e.co
         /\ LET f == [e EXCEPT !.note = TRUE] IN
              f \in Edges /\ f.prov = e.prov /\ f.rel = e.rel /\ f.co = e.co
BY DEF Edges

LEMMA RemarksDerive ==
  ASSUME NEW n \in Networks, NEW m \in Remarks(n)
  PROVE  m \in Networks /\ \A k \in Keys : Derived(n[k], m[k])
<1>1. CASE m = n
  BY <1>1 DEF Derived
<1>2. ASSUME NEW k \in Keys, m = ApplyAccept(n, k)
      PROVE  m \in Networks /\ \A j \in Keys : Derived(n[j], m[j])
  <2> DEFINE e == [n[k] EXCEPT !.conf = Least(100, @ + 10)]
  <2>1. ASSUME n[k] # None
        PROVE  e \in Edges /\ e.prov = n[k].prov /\ e.rel = n[k].rel /\ e.co = n[k].co
    <3>1. n[k] \in Edges /\ n[k].conf \in 0..100
      BY <2>1, EdgeFacts
    <3>2. Least(100, n[k].conf + 10) \in 0..100
      BY <3>1 DEF Least
    <3>3. e = [n[k] EXCEPT !.conf = Least(100, n[k].conf + 10)]
      BY <3>1 DEF Edges
    <3> HIDE DEF e
    <3> QED BY <3>1, <3>2, <3>3, EdgeExcept
  <2>2. m = Adjust(n, k, e)
    BY <1>2 DEF ApplyAccept
  <2> HIDE DEF e
  <2> QED BY <2>1, <2>2, AdjustDerives
<1>3. ASSUME NEW k \in Keys, m = ApplyClarify(n, k)
      PROVE  m \in Networks /\ \A j \in Keys : Derived(n[j], m[j])
  <2> DEFINE e == [n[k] EXCEPT !.note = TRUE]
  <2>1. ASSUME n[k] # None
        PROVE  e \in Edges /\ e.prov = n[k].prov /\ e.rel = n[k].rel /\ e.co = n[k].co
    BY <2>1, EdgeFacts, EdgeExcept
  <2>2. m = Adjust(n, k, e)
    BY <1>3 DEF ApplyClarify
  <2> HIDE DEF e
  <2> QED BY <2>1, <2>2, AdjustDerives
<1>4. ASSUME NEW k \in Keys, m = ApplyChallenge(n, k)
      PROVE  m \in Networks /\ \A j \in Keys : Derived(n[j], m[j])
  <2> DEFINE e == [n[k] EXCEPT !.conf = Lowered(@)]
             l == Adjust(n, k, e)
             o == Opposite(k)
             f == Edge("feedback", "contrasts", 30)
  <2>1. ASSUME n[k] # None
        PROVE  e \in Edges /\ e.prov = n[k].prov /\ e.rel = n[k].rel /\ e.co = n[k].co
    <3>1. n[k] \in Edges /\ n[k].conf \in 0..100
      BY <2>1, EdgeFacts
    <3>2. Lowered(n[k].conf) \in 0..100
      BY <3>1 DEF Lowered
    <3>3. e = [n[k] EXCEPT !.conf = Lowered(n[k].conf)]
      BY <3>1 DEF Edges
    <3> HIDE DEF e
    <3> QED BY <3>1, <3>2, <3>3, EdgeExcept
  <2>2. m = IF l[o] = None THEN [l EXCEPT ![o] = f] ELSE l
    BY <1>4 DEF ApplyChallenge
  <2> HIDE DEF e
  <2>3. l \in Networks /\ \A j \in Keys : Derived(n[j], l[j])
    BY <2>1, AdjustDerives
  <2>4. o \in Keys /\ f \in Edges /\ f.prov = "feedback" /\ f # None
    BY EventsAssumption, OwnEdges, EdgeFacts
  <2> HIDE DEF l, o, f
  <2>5. CASE l[o] = None
    <3>1. m \in Networks
      BY <2>2, <2>3, <2>4, <2>5 DEF Networks
    <3>2. \A j \in Keys : m[j] = IF j = o THEN f ELSE l[j]
      BY <2>2, <2>3, <2>5 DEF Networks
    <3>3. Derived(l[o], f)
      BY <2>4, <2>5 DEF Derived, Curated, IsLearned
    <3> QED BY <2>3, <2>4, <3>1, <3>2, <3>3, DerivedTwice
  <2> QED BY <2>2, <2>3, <2>5
<1> QED BY <1>1, <1>2, <1>3, <1>4 DEF Remarks

(* The owner's newest network stays what it was to the rows.               *)
RebasedAt(current, e) ==
  /\ current # None => e # None
  /\ Curated(current) <=> Curated(e)
  /\ IsLearned(current) <=> IsLearned(e)
  /\ IsLearned(e) => e.rel = current.rel /\ e.co <= current.co

LEMMA RebasedEdge ==
  ASSUME NEW a \in Edges \cup {None}, NEW c \in Edges \cup {None}, NEW f \in Edges \cup {None},
         Derived(a, f), Survives(a, c), NEW r,
         f = a => r = c, c = a => r = f, f # a /\ c # a => r = MergeAt(c, f)
  PROVE  r \in Edges \cup {None} /\ RebasedAt(c, r)
<1>1. /\ IsLearned(a) => a.co \in Nat
      /\ IsLearned(c) => c.co \in Nat
      /\ IsLearned(f) => f.co \in Nat
  BY EdgeFacts DEF IsLearned
<1>2. RebasedAt(c, c)
  BY <1>1 DEF RebasedAt
<1>3. CASE c = a
  BY <1>1, <1>3 DEF RebasedAt, Derived
<1>4. CASE r = MergeAt(c, f) /\ f = None
  BY <1>2, <1>4, MergeAtCases
<1>5. CASE r = MergeAt(c, f) /\ f # None /\ c = None
  <2>1. r = f
    BY <1>5, MergeAtCases
  <2>2. ~IsLearned(f) /\ ~Curated(f)
    BY <1>5 DEF Derived, Survives, IsLearned, Curated
  <2> QED BY <1>5, <2>1, <2>2 DEF RebasedAt, IsLearned, Curated
<1>6. CASE r = MergeAt(c, f) /\ f # None /\ c # None
  <2>1. r = MergeEdge(c, f)
    BY <1>6, MergeAtCases
  <2>2. r = c \/ r = f
    BY <2>1, MergeEdgeChooses
  <2>3. CASE IsLearned(f)
    <3>1. IsLearned(c) /\ ~Curated(c) /\ ~Curated(f) /\ c.rel = f.rel /\ f.co <= c.co
      BY <1>1, <1>6, <2>3 DEF Derived, Survives, IsLearned, Curated
    <3> QED BY <1>2, <1>6, <2>2, <2>3, <3>1 DEF RebasedAt
  <2>4. CASE Curated(f)
    <3>1. Curated(c) /\ ~IsLearned(c) /\ ~IsLearned(f)
      BY <1>6, <2>4 DEF Derived, Survives, IsLearned, Curated
    <3> QED BY <1>2, <1>6, <2>2, <2>4, <3>1 DEF RebasedAt
  <2>5. CASE ~IsLearned(f) /\ ~Curated(f)
    <3>1. ~Authoritative(f) /\ (Authoritative(c) <=> IsLearned(c) \/ Curated(c))
      BY <1>6, <2>5 DEF Authoritative, IsLearned, Curated
    <3>2. CASE Authoritative(c)
      <4>1. r = c
        BY <2>1, <3>1, <3>2 DEF MergeEdge
      <4> QED BY <1>2, <4>1
    <3>3. CASE ~Authoritative(c)
      BY <1>6, <2>2, <2>5, <3>1, <3>3 DEF RebasedAt
    <3> QED BY <3>2, <3>3
  <2> QED BY <2>3, <2>4, <2>5
<1>7. CASE f = a
  BY <1>2, <1>7
<1>8. f # a /\ c # a => r = MergeAt(c, f)
  OBVIOUS
<1> QED BY <1>3, <1>4, <1>5, <1>6, <1>7, <1>8

LEMMA RebaseMatches ==
  ASSUME NEW from \in Networks, NEW current \in Networks, NEW final \in Networks,
         \A k \in Keys : Derived(from[k], final[k]),
         \A k \in Keys : Survives(from[k], current[k])
  PROVE  /\ Rebase(from, current, final) \in Networks
         /\ \A k \in Keys : RebasedAt(current[k], Rebase(from, current, final)[k])
<1> DEFINE R == Rebase(from, current, final)
<1>1. ASSUME NEW k \in Keys
      PROVE  R[k] \in Edges \cup {None} /\ RebasedAt(current[k], R[k])
  <2>1. from[k] \in Edges \cup {None} /\ current[k] \in Edges \cup {None}
        /\ final[k] \in Edges \cup {None}
    BY DEF Networks
  <2>2. Derived(from[k], final[k]) /\ Survives(from[k], current[k])
    OBVIOUS
  <2>3. /\ final[k] = from[k] => R[k] = current[k]
        /\ current[k] = from[k] => R[k] = final[k]
        /\ final[k] # from[k] /\ current[k] # from[k] => R[k] = MergeAt(current[k], final[k])
    BY RebaseAt
  <2> HIDE DEF R
  <2> QED BY <2>1, <2>2, <2>3, RebasedEdge
<1>2. R = [k \in Keys |-> R[k]]
  BY DEF Rebase
<1> HIDE DEF R
<1>3. R \in Networks
  BY <1>1, <1>2 DEF Networks
<1> QED BY <1>1, <1>3 DEF R

(* What matches the rows before a turn or a rebase matches them after it. *)
LEMMA DerivedMatches ==
  ASSUME NEW n, NEW m, NEW k, Derived(n[k], m[k]), MatchesAt(n, k)
  PROVE  MatchesAt(m, k)
BY DEF Derived, MatchesAt, NothingLearned, RowLearned

LEMMA DerivedCounts ==
  ASSUME NEW old, NEW new, NEW known, NEW k, Derived(old, new), CountOK(old, known, k)
  PROVE  CountOK(new, known, k)
BY DEF Derived, CountOK

LEMMA RebasedCounts ==
  ASSUME NEW known \in SUBSET AllEvidence, NEW k,
         NEW old \in Edges \cup {None}, NEW new \in Edges \cup {None},
         RebasedAt(old, new), CountOK(old, known, k)
  PROVE  CountOK(new, known, k)
<1>1. Cardinality(At(known, k)) \in Nat
  BY KnownFinite
<1>2. IsLearned(new) => IsLearned(old) /\ old.co \in Nat /\ new.co \in Nat /\ new.co <= old.co
  BY EdgeFacts DEF RebasedAt, IsLearned
<1> QED BY <1>1, <1>2 DEF CountOK

LEMMA RebasedMatches ==
  ASSUME edgeRows' \in Seq(Rows), NEW n \in Networks, NEW m \in Networks, NEW k \in Keys,
         RebasedAt(n[k], m[k]), MatchesAt(n, k)'
  PROVE  MatchesAt(m, k)'
<1>1. CASE NothingLearned(n, k)'
  BY <1>1 DEF NothingLearned, RebasedAt, MatchesAt
<1>2. CASE RowLearned(n, k)'
  <2>1. PICK i \in DOMAIN edgeRows' :
          /\ RowsAt(k)' = {i} /\ ~Curated(seed'[k])
          /\ IsLearned(n[k]) /\ n[k].rel = edgeRows'[i].rel /\ n[k].co <= edgeRows'[i].co
          /\ edgeRows'[i].co = Cardinality(Answers(evidence', k))
          /\ \A x \in At(evidence', k) : x.rel = edgeRows'[i].rel
    BY <1>2 DEF RowLearned
  <2>2. IsLearned(m[k]) /\ m[k].rel = n[k].rel /\ m[k].co <= n[k].co
    BY <2>1 DEF RebasedAt
  <2>3. m[k].co \in Nat /\ n[k].co \in Nat
    BY <2>1, <2>2, EdgeFacts DEF IsLearned
  <2>4. edgeRows'[i].co \in Nat
    <3>1. edgeRows'[i] \in Rows
      OBVIOUS
    <3> QED BY <3>1 DEF Rows
  <2>5. m[k].co <= edgeRows'[i].co
    BY <2>1, <2>2, <2>3, <2>4
  <2> QED BY <2>1, <2>2, <2>5 DEF RowLearned, MatchesAt
<1> QED BY <1>1, <1>2 DEF MatchesAt

-----------------------------------------------------------------------------
(* Bootstrap: the rows over the seed, and two overlays of confidences. *)
LEMMA SeedIsNetwork ==
  ASSUME NEW s \in SeedNetworks
  PROVE  s \in Networks /\ \A k \in Keys : ~IsLearned(s[k])
BY SeedsAssumption DEF Networks, IsLearned

LEMMA OverlayDerives ==
  ASSUME NEW n \in Networks, NEW conf \in [Keys -> Nat \cup {None}]
  PROVE  Overlay(n, conf) \in Networks /\ \A k \in Keys : Derived(n[k], Overlay(n, conf)[k])
<1> DEFINE O == Overlay(n, conf)
<1>1. ASSUME NEW k \in Keys PROVE O[k] \in Edges \cup {None} /\ Derived(n[k], O[k])
  <2>1. CASE n[k] = None \/ conf[k] = None
    <3>1. O[k] = n[k]
      BY <2>1 DEF Overlay
    <3> QED BY <3>1, EdgeFacts DEF Derived
  <2>2. CASE n[k] # None /\ conf[k] # None
    <3> DEFINE e == n[k]
               c == Least(95, (30 * e.conf + 70 * conf[k]) \div 100)
    <3>1. e \in Edges /\ e.conf \in 0..100 /\ conf[k] \in Nat
      BY <2>2, EdgeFacts
    <3>2. c \in 0..100
      <4> DEFINE x == 30 * e.conf + 70 * conf[k]
      <4>1. x \in Nat
        BY <3>1
      <4> HIDE DEF x
      <4>2. x \div 100 \in Nat
        BY <4>1
      <4> HIDE DEF e
      <4>3. c = Least(95, x \div 100)
        BY DEF x
      <4> HIDE DEF c
      <4> QED BY <4>2, <4>3 DEF Least
    <3>3. O[k] = [e EXCEPT !.conf = c]
      BY <2>2, <3>1 DEF Overlay, Edges
    <3> HIDE DEF e, c, O
    <3>4. /\ O[k] \in Edges /\ O[k].prov = e.prov /\ O[k].rel = e.rel /\ O[k].co = e.co
          /\ O[k] # None /\ e # None
      <4> DEFINE x == [e EXCEPT !.conf = c]
      <4>1. x \in Edges /\ x.prov = e.prov /\ x.rel = e.rel /\ x.co = e.co
        BY <3>1, <3>2, EdgeExcept
      <4>2. O[k] = x
        BY <3>3
      <4> HIDE DEF x
      <4> QED BY <3>1, <4>1, <4>2, EdgeFacts
    <3>5. Derived(e, O[k])
      BY <3>4 DEF Derived, Curated, IsLearned
    <3> QED BY <3>4, <3>5 DEF e
  <2> QED BY <2>1, <2>2
<1>2. O = [k \in Keys |-> O[k]]
  BY DEF Overlay
<1> HIDE DEF O
<1>3. O \in Networks
  BY <1>1, <1>2 DEF Networks
<1> QED BY <1>1, <1>3 DEF O

LEMMA RowsAtFacts ==
  ASSUME StateOK, NEW k \in Keys, RowsAt(k) # {}
  PROVE  /\ Newest(RowsAt(k)) \in RowsAt(k)
         /\ RowsAt(k) \subseteq DOMAIN edgeRows
         /\ \A i \in RowsAt(k) : edgeRows[i] \in Rows /\ edgeRows[i].key = k
<1>1. /\ edgeRows \in Seq(Rows) /\ DOMAIN edgeRows = 1..Len(edgeRows) /\ Len(edgeRows) \in Nat
  BY DEF StateOK
<1>2. RowsAt(k) \in SUBSET (1..Len(edgeRows))
  BY <1>1 DEF RowsAt
<1>3. Newest(RowsAt(k)) \in RowsAt(k)
  BY <1>1, <1>2, NewestIn
<1> QED BY <1>1, <1>2, <1>3 DEF RowsAt

LEMMA LearnedIsEdge ==
  ASSUME NEW r \in Rows
  PROVE  /\ Learned(r) \in Edges /\ IsLearned(Learned(r))
         /\ Learned(r).rel = r.rel /\ Learned(r).co = r.co
<1>1. Learned(r) \in Edges
  BY DEF Learned, Rows, Edges, AuthorityRank
<1> QED BY <1>1, EdgeFacts DEF Learned, IsLearned

(* The seed and the rows; the matching of a key is that of its rows, its   *)
(* evidence and its seed, whatever network was matched before.             *)
LEMMA SeededRow ==
  ASSUME StateOK, CountsOK, NEW k \in Keys
  PROVE  LET final == Merge(seed, Projection)
         IN  /\ final[k] \in Edges \cup {None} /\ CountOK(final[k], evidence, k)
             /\ \A n : MatchesAt(n, k) => MatchesAt(final, k)
<1> DEFINE final == Merge(seed, Projection)
<1>1. /\ seed \in Networks /\ ~IsLearned(seed[k]) /\ seed[k] \in Edges \cup {None}
  BY SeedIsNetwork DEF StateOK, Networks
<1>2. CASE RowsAt(k) = {}
  <2>1. final[k] = seed[k]
    BY <1>2, MergeAtCases DEF Merge, Projection
  <2> HIDE DEF final
  <2>2. CountOK(final[k], evidence, k)
    BY <1>1, <2>1 DEF CountOK
  <2>3. \A n : MatchesAt(n, k) => MatchesAt(final, k)
    BY <1>1, <1>2, <2>1 DEF MatchesAt, NothingLearned, RowLearned
  <2> QED BY <1>1, <2>1, <2>2, <2>3 DEF final
<1>3. CASE RowsAt(k) # {}
  <2> DEFINE i == Newest(RowsAt(k))
             l == Learned(edgeRows[i])
  <2>1. i \in RowsAt(k) /\ i \in DOMAIN edgeRows /\ edgeRows[i] \in Rows /\ edgeRows[i].key = k
    BY <1>3, RowsAtFacts
  <2>2. final[k] = MergeAt(seed[k], l)
    BY <1>3 DEF Merge, Projection
  <2> HIDE DEF i
  <2>3. l \in Edges /\ l # None /\ IsLearned(l) /\ l.rel = edgeRows[i].rel /\ l.co = edgeRows[i].co
    BY <2>1, LearnedIsEdge, EdgeFacts
  <2>4. edgeRows[i].co <= 1 + Cardinality(At(evidence, k))
    BY <2>1 DEF CountsOK
  <2> HIDE DEF final, l
  <2>5. final[k] = seed[k] \/ final[k] = l
    BY <2>2, MergeAtCases, MergeEdgeChooses
  <2>6. CountOK(final[k], evidence, k)
    BY <1>1, <2>3, <2>4, <2>5 DEF CountOK
  <2>7. ~Curated(seed[k]) => final[k] = l
    BY <1>1, <2>2, <2>3, MergeAtCases DEF MergeEdge, Authoritative, Curated, IsLearned
  <2>8. ASSUME NEW n, MatchesAt(n, k) PROVE MatchesAt(final, k)
    <3>1. RowLearned(n, k)
      BY <1>3, <2>8 DEF MatchesAt, NothingLearned
    <3>2. PICK j \in DOMAIN edgeRows :
            /\ RowsAt(k) = {j} /\ ~Curated(seed[k])
            /\ edgeRows[j].co = Cardinality(Answers(evidence, k))
            /\ \A x \in At(evidence, k) : x.rel = edgeRows[j].rel
      BY <3>1 DEF RowLearned
    <3>3. j = i
      BY <2>1, <3>2
    <3>4. final[k] = l
      BY <2>7, <3>2
    <3>5. edgeRows[j].co <= edgeRows[j].co
      BY <2>1, <3>3 DEF Rows
    <3>6. RowLearned(final, k)
      BY <2>3, <3>2, <3>3, <3>4, <3>5 DEF RowLearned
    <3> QED BY <3>6 DEF MatchesAt
  <2> QED BY <1>1, <2>3, <2>5, <2>6, <2>8 DEF final
<1> QED BY <1>2, <1>3

LEMMA BootstrapMatches ==
  ASSUME StateOK, CountsOK, NEW saved, NEW n, n = Bootstrapped(seed, saved)
  PROVE  /\ n \in Networks /\ \A k \in Keys : CountOK(n[k], evidence, k)
         /\ \A k \in Keys : \A m : MatchesAt(m, k) => MatchesAt(n, k)
<1> DEFINE final    == Merge(seed, Projection)
           overlaid == IF saved /\ Dense(final) THEN Overlay(final, Confidences(final)) ELSE final
<1>1. n = Overlay(overlaid, Tuned)
  BY DEF Bootstrapped
<1>2. \A k \in Keys : /\ final[k] \in Edges \cup {None} /\ CountOK(final[k], evidence, k)
                      /\ \A m : MatchesAt(m, k) => MatchesAt(final, k)
  BY SeededRow
<1>3. final = [k \in Keys |-> final[k]]
  BY DEF Merge
<1> HIDE DEF final
<1>4. final \in Networks
  BY <1>2, <1>3 DEF Networks
<1>5. overlaid \in Networks /\ \A k \in Keys : Derived(final[k], overlaid[k])
  <2>1. Confidences(final) \in [Keys -> Nat \cup {None}]
    <3>1. \A k \in Keys : final[k] = None \/ final[k].conf \in Nat
      BY <1>4, EdgeFacts
    <3> QED BY <3>1 DEF Confidences
  <2>2. \A k \in Keys : Derived(final[k], final[k])
    BY DEF Derived
  <2> QED BY <1>4, <2>1, <2>2, OverlayDerives
<1> HIDE DEF overlaid
<1>6. n \in Networks /\ \A k \in Keys : Derived(final[k], n[k])
  <2>1. n \in Networks /\ \A k \in Keys : Derived(overlaid[k], n[k])
    BY <1>1, <1>5, SeedsAssumption, OverlayDerives
  <2> QED BY <1>5, <2>1, DerivedTwice
<1> QED BY <1>2, <1>6, DerivedCounts, DerivedMatches

-----------------------------------------------------------------------------
(* The steps.  Beside the invariant each of them keeps, of the network the *)
(* session lives with, every edge and every authority.                     *)
Stays(old, new) ==
  /\ old # None => new # None
  /\ Curated(old) => Curated(new)
  /\ IsLearned(old) => IsLearned(new)

LiveStays ==
  opens' = opens => \A k \in Keys \ forgotten' : Stays(LiveNet[k], LiveNet'[k])

LEMMA StillMatches ==
  ASSUME UNCHANGED <<edgeRows, evidence, seed>>, NEW n, n = LiveNet',
         \A k \in Keys \ forgotten' : MatchesAt(n, k)
  PROVE  Matches(LiveNet)'
BY DEF Matches, MatchesAt, NothingLearned, RowLearned, RowsAt

LEMMA NowMatches ==
  ASSUME NEW n, n = LiveNet', \A k \in Keys \ forgotten' : MatchesAt(n, k)'
  PROVE  Matches(LiveNet)'
BY DEF Matches, MatchesAt, NothingLearned, RowLearned

LEMMA NothingIsNetwork ==
  /\ Nothing \in Networks /\ \A known : \A k \in Keys : CountOK(Nothing[k], known, k)
BY DEF Nothing, Networks, CountOK, IsLearned

LEMMA StaysFrom ==
  ASSUME NEW old, NEW new, Derived(old, new) \/ Survives(old, new) \/ RebasedAt(old, new)
  PROVE  Stays(old, new)
BY DEF Stays, Derived, Survives, RebasedAt

LEMMA StaysTwice ==
  ASSUME NEW a, NEW b, NEW c, Stays(a, b), Stays(b, c)
  PROVE  Stays(a, c)
BY DEF Stays

LEMMA StaysItself == \A e : Stays(e, e) /\ Derived(e, e)
BY DEF Stays, Derived

LEMMA InitOK == NetworkInit => NetworkInv
<1> SUFFICES ASSUME NetworkInit PROVE NetworkInv
  OBVIOUS
<1> USE DEF NetworkInit
<1>1. /\ net \in Networks /\ \A k \in Keys : Derived(seed[k], net[k]) /\ ~IsLearned(seed[k])
  BY SeedIsNetwork, OverlayDerives, SeedsAssumption DEF NetworkInit
<1>2. StateOK
  BY <1>1, NothingIsNetwork DEF NetworkInit, StateOK
<1>3. CountsOK
  BY <1>1, NothingIsNetwork DEF NetworkInit, CountsOK, CountOK, Derived
<1>4. Matches(LiveNet)
  <2>1. \A k \in Keys : RowsAt(k) = {} /\ At(evidence, k) = {}
    BY DEF NetworkInit, RowsAt, At
  <2>2. LiveNet = net
    BY DEF NetworkInit, LiveNet
  <2>3. \A k \in Keys : NothingLearned(net, k)
    BY <1>1, <2>1 DEF NothingLearned, Derived
  <2> QED BY <2>2, <2>3 DEF Matches, MatchesAt
<1>5. TurnOK
  BY DEF NetworkInit, TurnOK
<1> QED BY <1>2, <1>3, <1>4, <1>5 DEF NetworkInv

(* Between the network and the rows nothing happens. *)
LEMMA QuietStep ==
  ASSUME NetworkInv, UNCHANGED <<unattended, seed, net, snapshot, mine, updated, durable, forgotten, opens>>,
         LiveNet' = LiveNet, stage' \in {"idle", "thinking", "saved", "committing", "committed"},
         batch' \in Seq(Events), taken' \in Seq(Events), queue' \in Seq(Events), TurnOK'
  PROVE  NetworkInv' /\ LiveStays
<1>1. StateOK'
  BY DEF NetworkInv, StateOK, durable
<1>2. CountsOK'
  BY DEF NetworkInv, CountsOK, durable
<1>3. Matches(LiveNet)'
  BY StillMatches DEF NetworkInv, Matches, durable
<1>4. LiveStays
  BY StaysItself DEF LiveStays
<1> QED BY <1>1, <1>2, <1>3, <1>4 DEF NetworkInv

LEMMA DispatchStep ==
  ASSUME NetworkInv, NEW e \in Events, Dispatch(e)
  PROVE  NetworkInv' /\ LiveStays
<1>1. LiveNet' = LiveNet /\ TurnOK'
  BY DEF Dispatch, turn, LiveNet, TurnOK, NetworkInv
<1> QED BY <1>1, QuietStep DEF Dispatch, turn, bounds, NetworkInv, StateOK

LEMMA TakeBatchStep ==
  ASSUME NetworkInv, TakeBatch
  PROVE  NetworkInv' /\ LiveStays
<1>1. LiveNet' = LiveNet /\ TurnOK'
  BY DEF TakeBatch, LiveNet, TurnOK, NetworkInv
<1> QED BY <1>1, QuietStep DEF TakeBatch, bounds, NetworkInv, StateOK

LEMMA BackgroundTakesStep ==
  ASSUME NetworkInv, BackgroundTakes
  PROVE  NetworkInv' /\ LiveStays
<1>1. LiveNet' = LiveNet /\ TurnOK'
  BY DEF BackgroundTakes, turn, LiveNet, TurnOK, NetworkInv
<1> QED BY <1>1, QuietStep DEF BackgroundTakes, turn, bounds, NetworkInv, StateOK

LEMMA StutterStep ==
  ASSUME NetworkInv, UNCHANGED networkVars
  PROVE  NetworkInv' /\ LiveStays
<1>1. LiveNet' = LiveNet /\ TurnOK'
  BY DEF networkVars, turn, LiveNet, TurnOK, NetworkInv
<1> QED BY <1>1, QuietStep DEF networkVars, turn, bounds, NetworkInv, StateOK

LEMMA BeginTurnStep ==
  ASSUME NetworkInv, BeginTurn
  PROVE  NetworkInv' /\ LiveStays
<1> USE DEF BeginTurn, NetworkInv
<1>1. StateOK'
  BY DEF StateOK, durable, bounds
<1>2. CountsOK'
  BY DEF CountsOK, durable
<1>3. LiveNet' = LiveNet
  BY DEF LiveNet
<1>4. Matches(LiveNet)'
  BY <1>3, StillMatches DEF Matches, durable
<1>5. TurnOK'
  BY SurvivesItself DEF TurnOK, StateOK
<1>6. LiveStays
  BY <1>3, StaysItself DEF LiveStays
<1> QED BY <1>1, <1>2, <1>4, <1>5, <1>6

(* The turn is given up: its copies of the network are gone. *)
LEMMA IdleStep ==
  ASSUME NetworkInv, Idle, UNCHANGED <<unattended, seed, taken, queue, durable, opens>>,
         forgotten \subseteq forgotten', NEW n \in Networks, net' = n,
         \A k \in Keys : CountOK(n[k], evidence, k),
         \A k \in Keys \ forgotten' : MatchesAt(n, k) /\ Stays(LiveNet[k], n[k])
  PROVE  NetworkInv' /\ LiveStays
<1> USE DEF Idle, NetworkInv
<1>1. StateOK'
  BY NothingIsNetwork DEF StateOK, durable
<1>2. CountsOK'
  BY NothingIsNetwork DEF CountsOK, durable
<1>3. LiveNet' = n
  BY DEF LiveNet
<1>4. Matches(LiveNet)'
  BY <1>3, StillMatches DEF durable
<1>5. TurnOK'
  BY DEF TurnOK
<1>6. LiveStays
  BY <1>3 DEF LiveStays
<1> QED BY <1>1, <1>2, <1>4, <1>5, <1>6

LEMMA TurnStopsStep ==
  ASSUME NetworkInv, TurnStops
  PROVE  NetworkInv' /\ LiveStays
<1>0. PICK n : n = net
  OBVIOUS
<1>1. LiveNet = n /\ n \in Networks /\ net' = n /\ \A k \in Keys : CountOK(n[k], evidence, k)
  BY <1>0 DEF TurnStops, LiveNet, NetworkInv, StateOK, CountsOK
<1>2. \A k \in Keys \ forgotten' : MatchesAt(n, k) /\ Stays(LiveNet[k], n[k])
  BY <1>1, StaysItself DEF TurnStops, NetworkInv, Matches
<1> QED BY <1>1, <1>2, IdleStep DEF TurnStops, bounds

(* A session without an owner: the turn's network derives from its own. *)
LEMMA FollowUpFailsStep ==
  ASSUME NetworkInv, FollowUpFails
  PROVE  NetworkInv' /\ LiveStays
<1>0. PICK n : n = IF unattended THEN net ELSE mine
  OBVIOUS
<1>1. LiveNet = net /\ net' = n /\ n \in Networks /\ forgotten' = forgotten
  BY <1>0 DEF FollowUpFails, LiveNet, NetworkInv, StateOK
<1>2. \A k \in Keys : Derived(net[k], n[k])
  BY <1>0, StaysItself DEF FollowUpFails, NetworkInv, TurnOK
<1>3. \A k \in Keys : CountOK(n[k], evidence, k)
  BY <1>0 DEF NetworkInv, CountsOK
<1>4. \A k \in Keys \ forgotten' : MatchesAt(n, k) /\ Stays(LiveNet[k], n[k])
  BY <1>1, <1>2, DerivedMatches, StaysFrom DEF NetworkInv, Matches
<1> QED BY <1>1, <1>3, <1>4, IdleStep DEF FollowUpFails

LEMMA EndTurnStep ==
  ASSUME NetworkInv, EndTurn
  PROVE  NetworkInv' /\ LiveStays
<1>0. PICK n : n = LiveNet
  OBVIOUS
<1>1. /\ net' = n /\ n \in Networks /\ forgotten' = forgotten
      /\ \A k \in Keys : CountOK(n[k], evidence, k)
  BY <1>0 DEF EndTurn, LiveNet, NetworkInv, StateOK, CountsOK
<1>2. \A k \in Keys \ forgotten' : MatchesAt(n, k) /\ Stays(LiveNet[k], n[k])
  BY <1>0, <1>1, StaysItself DEF NetworkInv, Matches
<1> QED BY <1>1, <1>2, IdleStep DEF EndTurn, bounds

LEMMA EnqueueFailsStep ==
  ASSUME NetworkInv, EnqueueFails
  PROVE  NetworkInv' /\ LiveStays
<1>0. PICK n : n = IF unattended THEN net ELSE mine
  OBVIOUS
<1>1. /\ net' = n /\ n \in Networks /\ forgotten \subseteq forgotten'
      /\ \A k \in Keys : CountOK(n[k], evidence, k)
  BY <1>0 DEF EnqueueFails, NetworkInv, StateOK, CountsOK
<1>2. \A k \in Keys \ forgotten' : n[k] = LiveNet[k] /\ k \in Keys \ forgotten
  BY <1>0 DEF EnqueueFails, LiveNet
<1>3. \A k \in Keys \ forgotten' : MatchesAt(LiveNet, k)
  BY <1>2 DEF NetworkInv, Matches
<1>4. \A k \in Keys \ forgotten' : MatchesAt(n, k) /\ Stays(LiveNet[k], n[k])
  BY <1>2, <1>3, StaysItself DEF MatchesAt, NothingLearned, RowLearned
<1> QED BY <1>1, <1>4, IdleStep DEF EnqueueFails

LEMMA FinishTurnStep ==
  ASSUME NetworkInv, FinishTurn
  PROVE  NetworkInv' /\ LiveStays
<1> USE DEF NetworkInv
<1>1. mine' \in Networks /\ \A k \in Keys : Derived(snapshot[k], mine'[k])
  <2>1. PICK seen : mine' \in Remarks(Observe(snapshot, seen))
    BY DEF FinishTurn
  <2> DEFINE n == Observe(snapshot, seen)
             m == mine'
  <2>2. n \in Networks /\ \A k \in Keys : Derived(snapshot[k], n[k])
    BY ObserveDerives DEF StateOK
  <2> HIDE DEF n, m
  <2>3. m \in Remarks(n)
    BY <2>1 DEF n, m
  <2>4. m \in Networks /\ \A k \in Keys : Derived(n[k], m[k])
    BY <2>2, <2>3, RemarksDerive
  <2>5. \A k \in Keys : Derived(snapshot[k], m[k])
    BY <2>2, <2>4, DerivedTwice
  <2> QED BY <2>4, <2>5 DEF m
<1>2. StateOK'
  BY <1>1 DEF FinishTurn, StateOK, durable
<1>3. CountsOK'
  <2>1. \A k \in Keys : CountOK(mine'[k], evidence, k)
    BY <1>1, DerivedCounts DEF CountsOK
  <2> QED BY <2>1 DEF FinishTurn, CountsOK, durable
<1>4. LiveNet' = LiveNet
  BY DEF FinishTurn, LiveNet
<1>5. Matches(LiveNet)'
  BY <1>4, StillMatches DEF FinishTurn, Matches, durable
<1>6. TurnOK'
  BY <1>1 DEF FinishTurn, TurnOK
<1>7. LiveStays
  BY <1>4, StaysItself DEF LiveStays
<1> QED BY <1>2, <1>3, <1>5, <1>6, <1>7

(* The evidence only grows, so the copies that an admission does not touch  *)
(* keep their counts.                                                      *)
LEMMA CountsStill ==
  ASSUME NetworkInv, evidence' \subseteq AllEvidence, evidence \subseteq evidence'
  PROVE  \A k \in Keys : /\ CountOK(net[k], evidence', k) /\ CountOK(snapshot[k], evidence', k)
                         /\ CountOK(mine[k], evidence', k) /\ CountOK(updated[k], evidence', k)
<1>1. \A k \in Keys : /\ net[k] \in Edges \cup {None} /\ snapshot[k] \in Edges \cup {None}
                      /\ mine[k] \in Edges \cup {None} /\ updated[k] \in Edges \cup {None}
  BY DEF NetworkInv, StateOK, Networks
<1>2. evidence \in SUBSET AllEvidence /\ evidence' \in SUBSET AllEvidence
  BY DEF NetworkInv, StateOK
<1> QED BY <1>1, <1>2, CountGrows DEF NetworkInv, CountsOK

(* With an owner: the batch goes to its network, and the turn is rebased on *)
(* that.                                                                   *)
LEMMA CommitOwnedStep ==
  ASSUME NetworkInv, CommitOwned
  PROVE  NetworkInv' /\ LiveStays
<1>0. PICK o : o = net
  OBVIOUS
<1>1. PICK w : Apply(net, batch, w) /\ net' = Rebase(snapshot, w, mine)
  BY DEF CommitOwned
<1>2. PICK r : r = net'
  OBVIOUS
<1>3. /\ StateOK /\ CountsOK /\ o \in Networks /\ snapshot \in Networks /\ mine \in Networks
      /\ batch \in Seq(Events)
      /\ \A k \in Keys : /\ CountOK(o[k], evidence, k)
                         /\ Survives(snapshot[k], o[k]) /\ Derived(snapshot[k], mine[k])
      /\ \A k \in Keys \ forgotten : MatchesAt(o, k)
      /\ LiveNet = o /\ LiveNet' = r /\ seed' = seed /\ forgotten' = forgotten
  BY <1>0, <1>2 DEF CommitOwned, NetworkInv, StateOK, CountsOK, TurnOK, LiveNet, Matches
<1>4. PICK events : events = batch
  OBVIOUS
<1>5. /\ w \in Networks /\ \A k \in Keys : Survives(o[k], w[k])
      /\ edgeRows' \in Seq(Rows) /\ evidence' \subseteq AllEvidence
      /\ evidence \subseteq evidence'
      /\ \A i \in DOMAIN edgeRows' :
           edgeRows'[i].co <= 1 + Cardinality(At(evidence', edgeRows'[i].key))
      /\ \A k \in Keys : CountOK(w[k], evidence', k)
      /\ \A k \in Keys : MatchesAt(o, k) => MatchesAt(w, k)'
  BY <1>0, <1>1, <1>3, <1>4, ApplyOutcome
<1>6. /\ r \in Networks /\ \A k \in Keys : RebasedAt(w[k], r[k])
  <2>1. \A k \in Keys : snapshot[k] \in Edges \cup {None} /\ o[k] \in Edges \cup {None}
                        /\ w[k] \in Edges \cup {None}
    BY <1>3, <1>5 DEF Networks
  <2>2. \A k \in Keys : Survives(snapshot[k], w[k])
    BY <1>3, <1>5, <2>1, SurvivesTwice
  <2> QED BY <1>1, <1>2, <1>3, <1>5, <2>2, RebaseMatches
<1>7. StateOK'
  BY <1>2, <1>3, <1>5, <1>6 DEF CommitOwned, StateOK
<1>8. CountsOK'
  <2>1. \A k \in Keys : CountOK(r[k], evidence', k)
    <3>1. \A k \in Keys : w[k] \in Edges \cup {None} /\ r[k] \in Edges \cup {None}
      BY <1>5, <1>6 DEF Networks
    <3>2. evidence' \in SUBSET AllEvidence
      BY <1>5
    <3> QED BY <1>5, <1>6, <3>1, <3>2, RebasedCounts
  <2> QED BY <1>2, <1>5, <2>1, CountsStill DEF CommitOwned, CountsOK
<1>9. Matches(LiveNet)'
  <2>1. \A k \in Keys \ forgotten' : MatchesAt(r, k)'
    BY <1>3, <1>5, <1>6, RebasedMatches
  <2> QED BY <1>3, <2>1, NowMatches
<1>10. TurnOK'
  BY DEF CommitOwned, NetworkInv, TurnOK
<1>11. LiveStays
  <2>1. \A k \in Keys : Stays(o[k], w[k]) /\ Stays(w[k], r[k])
    BY <1>5, <1>6, StaysFrom
  <2> QED BY <1>3, <2>1, StaysTwice DEF LiveStays
<1> QED BY <1>7, <1>8, <1>9, <1>10, <1>11 DEF NetworkInv

(* Without one: the batch goes to the network of the turn. *)
LEMMA CommitUnownedStep ==
  ASSUME NetworkInv, CommitUnowned
  PROVE  NetworkInv' /\ LiveStays
<1>0. PICK o : o = mine
  OBVIOUS
<1>1. PICK w : Apply(mine, batch, w) /\ updated' = w
  BY DEF CommitUnowned
<1>2. /\ StateOK /\ CountsOK /\ o \in Networks /\ batch \in Seq(Events)
      /\ \A k \in Keys : CountOK(o[k], evidence, k) /\ Derived(LiveNet[k], o[k])
      /\ LiveNet' = w /\ seed' = seed /\ forgotten' = forgotten
  BY <1>0, <1>1 DEF CommitUnowned, NetworkInv, StateOK, CountsOK, TurnOK, LiveNet
<1>3. \A k \in Keys \ forgotten : MatchesAt(o, k)
  BY <1>2, DerivedMatches DEF NetworkInv, Matches
<1>4. PICK events : events = batch
  OBVIOUS
<1>5. /\ w \in Networks /\ \A k \in Keys : Survives(o[k], w[k])
      /\ edgeRows' \in Seq(Rows) /\ evidence' \subseteq AllEvidence
      /\ evidence \subseteq evidence'
      /\ \A i \in DOMAIN edgeRows' :
           edgeRows'[i].co <= 1 + Cardinality(At(evidence', edgeRows'[i].key))
      /\ \A k \in Keys : CountOK(w[k], evidence', k)
      /\ \A k \in Keys : MatchesAt(o, k) => MatchesAt(w, k)'
  BY <1>0, <1>1, <1>2, <1>4, ApplyOutcome
<1>6. StateOK'
  BY <1>1, <1>2, <1>5 DEF CommitUnowned, StateOK
<1>7. CountsOK'
  BY <1>1, <1>5, CountsStill DEF CommitUnowned, CountsOK
<1>8. Matches(LiveNet)'
  BY <1>2, <1>3, <1>5, NowMatches
<1>9. TurnOK'
  BY <1>0, <1>1, <1>5 DEF CommitUnowned, NetworkInv, TurnOK
<1>10. LiveStays
  <2>1. \A k \in Keys : Stays(LiveNet[k], o[k]) /\ Stays(o[k], w[k])
    BY <1>2, <1>5, StaysFrom
  <2> QED BY <1>2, <2>1, StaysTwice DEF LiveStays
<1> QED BY <1>6, <1>7, <1>8, <1>9, <1>10 DEF NetworkInv

LEMMA BackgroundCommitsStep ==
  ASSUME NetworkInv, BackgroundCommits
  PROVE  NetworkInv' /\ LiveStays
<1>0. PICK o : o = net
  OBVIOUS
<1>1. PICK w : w = net'
  OBVIOUS
<1>2. Apply(net, taken, w) /\ unattended /\ unattended' = unattended
  BY <1>1 DEF BackgroundCommits, NetworkInv, TurnOK
<1>3. /\ StateOK /\ CountsOK /\ o \in Networks /\ taken \in Seq(Events)
      /\ \A k \in Keys : CountOK(o[k], evidence, k)
      /\ \A k \in Keys \ forgotten : MatchesAt(o, k)
      /\ LiveNet = o /\ LiveNet' = w /\ seed' = seed /\ forgotten' = forgotten
  BY <1>0, <1>1, <1>2 DEF BackgroundCommits, NetworkInv, StateOK, CountsOK, LiveNet, Matches
<1>4. PICK events : events = taken
  OBVIOUS
<1>5. /\ w \in Networks /\ \A k \in Keys : Survives(o[k], w[k])
      /\ edgeRows' \in Seq(Rows) /\ evidence' \subseteq AllEvidence
      /\ evidence \subseteq evidence'
      /\ \A i \in DOMAIN edgeRows' :
           edgeRows'[i].co <= 1 + Cardinality(At(evidence', edgeRows'[i].key))
      /\ \A k \in Keys : CountOK(w[k], evidence', k)
      /\ \A k \in Keys : MatchesAt(o, k) => MatchesAt(w, k)'
  BY <1>0, <1>2, <1>3, <1>4, ApplyOutcome
<1>6. StateOK'
  BY <1>1, <1>5 DEF BackgroundCommits, turn, NetworkInv, StateOK
<1>7. CountsOK'
  BY <1>1, <1>5, CountsStill DEF BackgroundCommits, turn, CountsOK
<1>8. Matches(LiveNet)'
  BY <1>3, <1>5, NowMatches
<1>9. TurnOK'
  <2>1. \A k \in Keys : snapshot[k] \in Edges \cup {None} /\ o[k] \in Edges \cup {None}
                        /\ w[k] \in Edges \cup {None}
    BY <1>3, <1>5 DEF StateOK, Networks
  <2>2. stage \in {"thinking", "saved", "committing"} => \A k \in Keys : Survives(snapshot[k], w[k])
    <3>1. stage \in {"thinking", "saved", "committing"} => \A k \in Keys : Survives(snapshot[k], o[k])
      BY <1>0, <1>2 DEF NetworkInv, TurnOK
    <3> QED BY <1>5, <2>1, <3>1, SurvivesTwice
  <2> QED BY <1>1, <1>2, <2>2 DEF BackgroundCommits, turn, NetworkInv, TurnOK
<1>10. LiveStays
  <2>1. \A k \in Keys : Stays(o[k], w[k])
    BY <1>5, StaysFrom
  <2> QED BY <1>3, <2>1 DEF LiveStays
<1> QED BY <1>6, <1>7, <1>8, <1>9, <1>10 DEF NetworkInv

LEMMA ReopenStep ==
  ASSUME NetworkInv, Reopen
  PROVE  NetworkInv' /\ LiveStays
<1>0. PICK n : n = net'
  OBVIOUS
<1>1. n = Bootstrapped(seed, finished > 0)
  BY <1>0 DEF Reopen
<1>2. /\ n \in Networks /\ \A k \in Keys : CountOK(n[k], evidence, k)
      /\ \A k \in Keys : \A m : MatchesAt(m, k) => MatchesAt(n, k)
  BY <1>1, BootstrapMatches DEF NetworkInv
<1>3. StateOK'
  BY <1>0, <1>2, NothingIsNetwork DEF Reopen, Idle, durable, NetworkInv, StateOK
<1>4. CountsOK'
  BY <1>0, <1>2, NothingIsNetwork DEF Reopen, Idle, durable, NetworkInv, CountsOK
<1>5. Matches(LiveNet)'
  <2>1. LiveNet' = n
    BY <1>0 DEF Reopen, Idle, LiveNet
  <2>2. \A k \in Keys \ forgotten' : MatchesAt(n, k)
    BY <1>2 DEF Reopen, NetworkInv, Matches
  <2> QED BY <2>1, <2>2, StillMatches DEF Reopen, durable
<1>6. TurnOK'
  BY DEF Reopen, Idle, TurnOK
<1>7. LiveStays
  <2>1. opens' # opens
    BY DEF Reopen, NetworkInv, StateOK
  <2> QED BY <2>1 DEF LiveStays
<1> QED BY <1>3, <1>4, <1>5, <1>6, <1>7 DEF NetworkInv

LEMMA NextOK ==
  ASSUME NetworkInv, [NetworkNext]_networkVars
  PROVE  NetworkInv' /\ LiveStays
BY ReopenStep, DispatchStep, BeginTurnStep, TurnStopsStep, FinishTurnStep, FollowUpFailsStep,
   TakeBatchStep, CommitOwnedStep, CommitUnownedStep, EndTurnStep, EnqueueFailsStep,
   BackgroundTakesStep, BackgroundCommitsStep, StutterStep
   DEF NetworkNext

(* The invariant holds of every state of the owner and its sessions, for    *)
(* any resources, any events in any batches and any number of restarts.    *)
THEOREM SpecNetworkInv == NetworkSpec => []NetworkInv
<1>1. NetworkInv /\ [NetworkNext]_networkVars => NetworkInv'
  BY NextOK
<1> QED BY InitOK, <1>1, PTL DEF NetworkSpec

-----------------------------------------------------------------------------
(* What the invariant says of the properties. *)
LEMMA OneRow ==
  ASSUME NetworkInv, NEW k \in Keys, RowsAt(k) # {}, MatchesAt(LiveNet, k)
  PROVE  LET i == Newest(RowsAt(k)) IN
           /\ RowsAt(k) = {i} /\ i \in DOMAIN edgeRows
           /\ IsLearned(LiveNet[k]) /\ LiveNet[k].rel = edgeRows[i].rel
           /\ LiveNet[k].co <= edgeRows[i].co
           /\ edgeRows[i].co = Cardinality(Answers(evidence, k))
<1>1. Newest(RowsAt(k)) \in RowsAt(k)
  BY RowsAtFacts DEF NetworkInv
<1> QED BY <1>1 DEF MatchesAt, NothingLearned, RowLearned

LEMMA TypesFollow ==
  ASSUME NetworkInv
  PROVE  NetworkTypeOK
<1>1. /\ StateOK /\ CountsOK
      /\ evidence \in SUBSET AllEvidence
  BY DEF NetworkInv, StateOK
<1>2. ASSUME NEW e \in Edges \cup {None}, NEW k \in Keys, CountOK(e, evidence, k)
      PROVE  e = None \/ IsEdge(e)
  <2>1. /\ Cardinality(At(evidence, k)) \in Nat /\ Cardinality(Events) \in Nat
        /\ Cardinality(At(evidence, k)) <= Cardinality(Events)
    BY <1>1, KnownFinite, EventsAssumption, FS_CardinalityType
  <2>2. e # None /\ e.prov = "runtime" => e.co \in Nat /\ e.co <= 1 + Cardinality(At(evidence, k))
    BY <1>2, EdgeFacts DEF CountOK, IsLearned
  <2> QED BY <2>1, <2>2 DEF IsEdge
<1>3. ASSUME NEW k \in Keys
      PROVE  /\ net[k] = None \/ IsEdge(net[k])
             /\ snapshot[k] = None \/ IsEdge(snapshot[k])
             /\ mine[k] = None \/ IsEdge(mine[k])
             /\ updated[k] = None \/ IsEdge(updated[k])
  <2>1. /\ net[k] \in Edges \cup {None} /\ snapshot[k] \in Edges \cup {None}
        /\ mine[k] \in Edges \cup {None} /\ updated[k] \in Edges \cup {None}
    BY <1>1 DEF StateOK, Networks
  <2> QED BY <1>1, <1>2, <2>1 DEF CountsOK
<1>4. \A i \in DOMAIN edgeRows : edgeRows[i].key \in Keys /\ edgeRows[i].conf = 60
  <2>1. \A i \in DOMAIN edgeRows : edgeRows[i] \in Rows
    BY <1>1 DEF StateOK
  <2> QED BY <2>1 DEF Rows
<1>5. evidence \subseteq {Evidence(e) : e \in Events}
  BY <1>1 DEF AllEvidence
<1> QED BY <1>1, <1>3, <1>4, <1>5 DEF StateOK, NetworkTypeOK

LEMMA RowsAreMatched ==
  ASSUME NetworkInv
  PROVE  NetworkMatchesRows
<1> SUFFICES ASSUME NEW k \in Keys \ forgotten
             PROVE  IF RowsAt(k) = {} THEN LiveNet[k] = None \/ LiveNet[k].prov # "runtime"
                    ELSE /\ LiveNet[k] # None /\ LiveNet[k].prov = "runtime"
                         /\ LiveNet[k].rel = edgeRows[Newest(RowsAt(k))].rel
  BY TypesFollow DEF NetworkMatchesRows
<1>1. MatchesAt(LiveNet, k)
  BY DEF NetworkInv, Matches
<1>2. CASE RowsAt(k) = {}
  BY <1>1, <1>2 DEF MatchesAt, NothingLearned, RowLearned, IsLearned
<1>3. CASE RowsAt(k) # {}
  BY <1>1, <1>3, OneRow DEF IsLearned
<1> QED BY <1>2, <1>3

LEMMA AnswersAreCounted ==
  ASSUME NetworkInv
  PROVE  EvidenceCountedOnce
<1> SUFFICES ASSUME NEW k \in Keys \ forgotten, RowsAt(k) # {}
             PROVE  LET row == edgeRows[Newest(RowsAt(k))]
                    IN  /\ Cardinality(RowsAt(k)) = 1
                        /\ row.co = Cardinality({x.answer : x \in {y \in evidence : y.key = k}})
                        /\ LiveNet[k].co <= row.co
  BY DEF EvidenceCountedOnce
<1> DEFINE i == Newest(RowsAt(k))
<1>1. MatchesAt(LiveNet, k)
  BY DEF NetworkInv, Matches
<1>2. /\ RowsAt(k) = {i} /\ LiveNet[k].co <= edgeRows[i].co
      /\ edgeRows[i].co = Cardinality(Answers(evidence, k))
  BY <1>1, OneRow
<1>3. Cardinality(RowsAt(k)) = 1
  <2> HIDE DEF i
  <2> QED BY <1>2, FS_Singleton
<1>4. Answers(evidence, k) = {x.answer : x \in {y \in evidence : y.key = k}}
  BY DEF Answers, At
<1> HIDE DEF i
<1>5. edgeRows[i].co = Cardinality({x.answer : x \in {y \in evidence : y.key = k}})
  BY <1>2, <1>4
<1> QED BY <1>2, <1>3, <1>5 DEF i

(* Whatever is admitted, by a turn or behind its back, written or rolled    *)
(* back, rebased or reloaded after a crash: the live network knows a        *)
(* learned edge exactly where the table has a row, with its relation       *)
(* (commitSemanticNetworkTurnWith, applyPendingUpdatesInBackground).       *)
THEOREM SpecNetworkMatchesRows == NetworkSpec => []NetworkMatchesRows
BY SpecNetworkInv, RowsAreMatched, PTL

(* A relation has one row, which counts every answer about it once, and     *)
(* the network in memory never more (hasDuplicateEvidence,                 *)
(* corroborateRuntimeEdgeOnConnection).                                    *)
THEOREM SpecEvidenceCountedOnce == NetworkSpec => []EvidenceCountedOnce
BY SpecNetworkInv, AnswersAreCounted, PTL

(* No step of an open session takes an edge from it, or from an edge its    *)
(* authority (mergeSemanticEdge, rebaseSemanticNetwork).                   *)
THEOREM SpecAuthorityIsKept == NetworkSpec => AuthorityIsKept
<1> DEFINE A == opens' = opens =>
                  \A k \in Keys \ forgotten' : LiveNet[k] # None =>
                    /\ LiveNet'[k] # None
                    /\ Authoritative(LiveNet[k]) => LiveNet'[k].prov = LiveNet[k].prov
<1>1. NetworkInv /\ [NetworkNext]_networkVars => [A]_networkVars
  <2> SUFFICES ASSUME NetworkInv, [NetworkNext]_networkVars PROVE A
    OBVIOUS
  <2>1. LiveStays
    BY NextOK
  <2> QED BY <2>1 DEF LiveStays, Stays, Authoritative, Curated, IsLearned
<1>2. AuthorityIsKept <=> [][A]_networkVars
  BY PTL DEF AuthorityIsKept
<1> HIDE DEF A
<1>3. NetworkSpec => [][A]_networkVars
  BY SpecNetworkInv, <1>1, PTL DEF NetworkSpec
<1> QED BY <1>2, <1>3, PTL
=============================================================================
