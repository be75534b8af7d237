----------------------------- MODULE ToolProofs -----------------------------
(***************************************************************************)
(* Proofs about the tools, for any sources, corpora and bounds: what an    *)
(* exporter that ran to its end leaves behind and what a passed check says *)
(* of it, what a finished build of the input lexicon holds, what the       *)
(* release audit reports, and what the analysis of an evaluation campaign  *)
(* says of its sessions.                                                   *)
(***************************************************************************)
EXTENDS LexiconBuild, InputLexicon, GfAudit, Soak, FiniteSetTheorems, FunctionTheorems,
        SequenceTheorems, WellFoundedInduction, TLAPS

-----------------------------------------------------------------------------
(* The exporter.  What it renders depends on the sources, not on the files *)
(* it writes, whole or broken.                                             *)
SameSources(s, t) ==
  /\ s.curated = t.curated /\ s.slots = t.slots /\ s.dictionary = t.dictionary
  /\ s.tsv = t.tsv /\ s.manifest = t.manifest /\ s.brain = t.brain

LEMMA SameLoad ==
  ASSUME NEW s, NEW t, SameSources(s, t)
  PROVE  Load(s) = Load(t)
<1>1. Entries(s) = Entries(t)
  BY DEF SameSources, Entries
<1>2. AutoForms(s) = AutoForms(t)
  BY DEF SameSources, AutoForms
<1> DEFINE L(entries, forms) ==
             LET hydrated == {Hydrate(e, forms) : e \in entries} IN
             [rows  |-> InOrder({e \in hydrated : e.tier = "curated"}, RowBefore),
              forms |-> forms \cup UNION {FormsOf(e) : e \in hydrated}]
<1>3. Load(s) = L(Entries(s), AutoForms(s)) /\ Load(t) = L(Entries(t), AutoForms(t))
  BY DEF Load
<1> HIDE DEF L
<1> QED BY <1>1, <1>2, <1>3

LEMMA SameQuality ==
  ASSUME NEW s, NEW t, SameSources(s, t), NEW rows, NEW fbs, NEW m
  PROVE  Quality(s, rows, fbs, m) = Quality(t, rows, fbs, m)
<1>1. \A tier : ProperCount(s, m, tier) = ProperCount(t, m, tier)
  BY DEF SameSources, ProperCount
<1>2. AutoMetrics(s, m) = AutoMetrics(t, m)
  BY <1>1 DEF SameSources, AutoMetrics
<1>3. /\ s.curated = t.curated /\ s.brain = t.brain
      /\ s.manifest.enabled = t.manifest.enabled
  BY DEF SameSources
<1> DEFINE Q(curatedSeed, brainSeed, enabled, auto) ==
             LET offered == UNION {fbs[x] : x \in DOMAIN fbs} IN
             [lemmas |-> Len(rows),
              collisions |-> Cardinality(Collisions(NominativePairs(rows)))
                               + Cardinality(Collisions(Pairs(rows, "genitive")))
                               + Cardinality(Collisions(Pairs(rows, "prepositional"))),
              p1 |-> Cardinality(LemmasOf(offered, "auto-verified")),
              p2 |-> Cardinality(LemmasOf(offered, "auto-coverage")),
              seeds |-> <<curatedSeed, brainSeed>>, enabled |-> enabled,
              auto |-> auto, cases |-> CaseMetrics(rows)]
<1>4. /\ Quality(s, rows, fbs, m) = Q(s.curated, s.brain, s.manifest.enabled, AutoMetrics(s, m))
      /\ Quality(t, rows, fbs, m) = Q(t.curated, t.brain, t.manifest.enabled, AutoMetrics(t, m))
  BY DEF Quality
<1> HIDE DEF Q
<1> QED BY <1>2, <1>3, <1>4

LEMMA SameRender ==
  ASSUME NEW s, NEW t, SameSources(s, t), NEW m
  PROVE  Render(s, m) = Render(t, m)
<1> DEFINE R(rows, fbs, quality, slotTable) ==
             [maps |-> MorphologyMaps(rows), forms |-> fbs, quality |-> quality,
              snapshot |-> rows, gf |-> GfFiles(rows), syntax |-> SyntaxFiles(slotTable),
              funmap |-> GfMap(rows), agda |-> AgdaModules(rows),
              runtime |-> RuntimeModule(rows, fbs), slots |-> SemanticSlots(slotTable)]
           F(x) == FormsBySurface(Load(x).forms)
<1>1. Load(s) = Load(t) /\ s.slots = t.slots /\ F(s) = F(t)
  BY SameLoad DEF SameSources
<1>2. Quality(s, Load(s).rows, F(s), m) = Quality(t, Load(s).rows, F(s), m)
  BY SameQuality
<1>3. /\ Render(s, m) = R(Load(s).rows, F(s), Quality(s, Load(s).rows, F(s), m), s.slots)
      /\ Render(t, m) = R(Load(t).rows, F(t), Quality(t, Load(t).rows, F(t), m), t.slots)
  BY DEF Render
<1> HIDE DEF R, F
<1> QED BY <1>1, <1>2, <1>3

(* The gates look at broken files only to load the manifest and the seed. *)
LEMMA SameGates ==
  ASSUME NEW s, NEW t, SameSources(s, t), Gates(s), t.broken \subseteq s.broken
  PROVE  Gates(t)
<1>1. Load(s) = Load(t) /\ s.slots = t.slots
  BY SameLoad DEF SameSources
<1> QED BY <1>1 DEF Gates

(* While an export runs, and after it, its first files are what it renders, *)
(* whole, and the others are what it has still to write.                   *)
Exported(m) ==
  \E d \in 0..Len(Artefacts) :
    /\ Len(job) = Len(Artefacts) - d
    /\ \A i \in 1..Len(job) :
         job[i] = <<Artefacts[d + i], Render(Sources, m)[Artefacts[d + i]]>>
    /\ \A i \in 1..d : /\ Artefacts[i] \notin broken
                       /\ files[Artefacts[i]] = Render(Sources, m)[Artefacts[i]]

BuildInv ==
  /\ DOMAIN files = Written
  /\ \E S : job \in Seq(S)
  /\ built \in Machines => Gates(Sources) /\ Exported(built)

LEMMA ArtefactFacts ==
  /\ Len(Artefacts) = 10 /\ DOMAIN Artefacts = 1..10
  /\ \A i \in 1..10 : Artefacts[i] \in Written /\ Artefacts[i] \notin {"tsv", "manifest", "brain"}
  /\ ToSet(Artefacts) = {Artefacts[i] : i \in 1..10}
  /\ "no" \notin Machines
<1>1. Len(Artefacts) = 10 /\ DOMAIN Artefacts = 1..10
  <2>1. Artefacts = <<"maps", "forms", "quality", "snapshot", "gf", "syntax", "funmap", "agda",
                      "runtime", "slots">>
    BY DEF Artefacts
  <2> QED BY <2>1
<1>2. ToSet(Artefacts) = {Artefacts[i] : i \in 1..10}
  BY <1>1 DEF ToSet
<1>3. \A i \in 1..10 : Artefacts[i] \notin {"tsv", "manifest", "brain"}
  BY DEF Artefacts
<1> QED BY <1>1, <1>2, <1>3 DEF Written, Machines

LEMMA BuildInitOK == BuildInit => BuildInv
<1>1. <<>> \in Seq({})
  OBVIOUS
<1> QED BY <1>1, ArtefactFacts DEF BuildInit, BuildInv

(* Nothing that matters to the export has happened. *)
LEMMA StillExported ==
  ASSUME BuildInv, UNCHANGED <<curated, slots, dictionary, files, broken, job, built>>
  PROVE  BuildInv'
<1>1. Sources' = Sources
  BY DEF Sources
<1> QED BY <1>1 DEF BuildInv, Exported

LEMMA ExportStep ==
  ASSUME BuildInv, NEW m \in Machines, Export(m)
  PROVE  BuildInv'
<1> DEFINE writes == [i \in DOMAIN Artefacts |-> <<Artefacts[i], Render(Sources, m)[Artefacts[i]]>>]
<1>1. /\ job' = writes /\ built' = m /\ Gates(Sources)
      /\ UNCHANGED <<curated, slots, dictionary, files, broken>>
  BY DEF Export, Begin
<1>2. writes \in Seq({writes[i] : i \in 1..10}) /\ Len(writes) = 10
  BY ArtefactFacts
<1>3. Sources' = Sources
  BY <1>1 DEF Sources
<1>4. \A i \in 1..10 : writes[i] = <<Artefacts[0 + i], Render(Sources, m)[Artefacts[0 + i]]>>
  BY ArtefactFacts
<1> HIDE DEF writes
<1>5. Exported(m)'
  BY <1>1, <1>2, <1>3, <1>4, ArtefactFacts DEF Exported
<1> QED BY <1>1, <1>2, <1>3, <1>5 DEF BuildInv

LEMMA WriteFileStep ==
  ASSUME BuildInv, WriteFile
  PROVE  BuildInv'
<1> DEFINE file == Head(job)[1]
           R    == Render(Sources, built)
<1>1. PICK S : job \in Seq(S)
  BY DEF BuildInv
<1>2. /\ job # <<>> /\ job' = Tail(job) /\ broken' = broken \ {file}
      /\ files' = [files EXCEPT ![file] = Head(job)[2]]
      /\ UNCHANGED <<curated, slots, dictionary, built>>
  BY DEF WriteFile
<1>3. /\ job' \in Seq(S) /\ Len(job) \in Nat \ {0} /\ Len(job') = Len(job) - 1 /\ Head(job) = job[1]
      /\ \A i \in 1..Len(job') : job'[i] = job[i + 1]
  BY <1>1, <1>2
<1>4. DOMAIN files' = Written
  BY <1>2 DEF BuildInv
<1>5. CASE built \in Machines
  <2>1. PICK d \in 0..10 :
          /\ Len(job) = 10 - d
          /\ \A i \in 1..Len(job) : job[i] = <<Artefacts[d + i], R[Artefacts[d + i]]>>
          /\ \A i \in 1..d : Artefacts[i] \notin broken /\ files[Artefacts[i]] = R[Artefacts[i]]
    BY <1>5, ArtefactFacts DEF BuildInv, Exported
  <2> HIDE DEF R
  <2>2. d + 1 \in 1..10 /\ 1 \in 1..Len(job)
    BY <1>3, <2>1
  <2>3. file = Artefacts[d + 1] /\ Head(job)[2] = R[file]
    <3>1. job[1] = <<Artefacts[d + 1], R[Artefacts[d + 1]]>>
      BY <2>1, <2>2
    <3>2. Head(job)[1] = Artefacts[d + 1] /\ Head(job)[2] = R[Artefacts[d + 1]]
      BY <1>3, <3>1
    <3> QED BY <3>2
  <2>4. file \in Written /\ file \notin {"tsv", "manifest", "brain"}
    BY <2>2, <2>3, ArtefactFacts
  <2> HIDE DEF file
  <2>5. /\ files'[file] = R[file]
        /\ \A g \in Written : g # file => files'[g] = files[g]
    BY <1>2, <2>3, <2>4 DEF BuildInv
  <2>6. files'["tsv"] = files["tsv"] /\ files'["manifest"] = files["manifest"]
        /\ files'["brain"] = files["brain"]
    BY <2>4, <2>5 DEF Written
  <2>7. /\ SameSources(Sources, Sources') /\ Sources'.broken \subseteq Sources.broken
    BY <1>2, <2>6 DEF SameSources, Sources
  <2>8. Gates(Sources')
    <3>1. Gates(Sources)
      BY <1>5 DEF BuildInv
    <3> QED BY <2>7, <3>1, SameGates
  <2>9. Render(Sources', built) = R
    BY <2>7, SameRender DEF R
  <2>10. \A i \in 1..(d + 1) : Artefacts[i] \notin broken' /\ files'[Artefacts[i]] = R[Artefacts[i]]
    <3> TAKE i \in 1..(d + 1)
    <3>1. Artefacts[i] \in Written
      BY <2>2, ArtefactFacts
    <3>2. CASE Artefacts[i] = file
      BY <1>2, <2>5, <3>2
    <3>3. CASE Artefacts[i] # file
      <4>1. i \in 1..d
        BY <2>3, <3>3
      <4> QED BY <1>2, <2>1, <2>5, <3>1, <3>3, <4>1
    <3> QED BY <3>2, <3>3
  <2>11. \A i \in 1..Len(job') : job'[i] = <<Artefacts[(d + 1) + i], R[Artefacts[(d + 1) + i]]>>
    <3> TAKE i \in 1..Len(job')
    <3>1. i + 1 \in 1..Len(job) /\ d + (i + 1) = (d + 1) + i
      BY <1>3, <2>1
    <3> QED BY <1>3, <2>1, <3>1
  <2>12. Exported(built)'
    <3>1. d + 1 \in 0..10 /\ Len(job') = 10 - (d + 1)
      BY <1>3, <2>1, <2>2
    <3>2. \E e \in 0..10 :
            /\ Len(job') = 10 - e
            /\ \A i \in 1..Len(job') : job'[i] = <<Artefacts[e + i], R[Artefacts[e + i]]>>
            /\ \A i \in 1..e : Artefacts[i] \notin broken' /\ files'[Artefacts[i]] = R[Artefacts[i]]
      BY <2>10, <2>11, <3>1
    <3>3. built' = built /\ Render(Sources', built') = R
      BY <1>2, <2>9
    <3> QED BY <3>2, <3>3, ArtefactFacts DEF Exported
  <2> QED BY <1>2, <1>3, <1>4, <2>8, <2>12 DEF BuildInv
<1> QED BY <1>2, <1>3, <1>4, <1>5 DEF BuildInv

LEMMA BuildNextOK ==
  ASSUME BuildInv, [BuildNext]_buildVars
  PROVE  BuildInv'
<1>1. CASE EditSources
  <2>1. built' \notin Machines /\ files' = files /\ job' = job
    BY <1>1, ArtefactFacts DEF EditSources
  <2> QED BY <2>1 DEF BuildInv
<1>2. CASE ImportDictionary
  <2> DEFINE a == <<"tsv", AutoRows(dictionary)>>
             b == <<"manifest", Manifest(dictionary)>>
  <2>1. built' \notin Machines /\ files' = files /\ job' = <<a, b>>
    BY <1>2, ArtefactFacts DEF ImportDictionary, Begin
  <2> HIDE DEF a, b
  <2>2. <<a, b>> \in Seq({a, b})
    OBVIOUS
  <2> QED BY <2>1, <2>2 DEF BuildInv
<1>3. CASE ImportUnits
  <2> DEFINE a == <<"brain", SeedRows(files["tsv"], Units)>>
  <2>1. built' \notin Machines /\ files' = files /\ job' = <<a>>
    BY <1>3, ArtefactFacts DEF ImportUnits, Begin
  <2> HIDE DEF a
  <2>2. <<a>> \in Seq({a})
    OBVIOUS
  <2> QED BY <2>1, <2>2 DEF BuildInv
<1>4. ASSUME NEW m \in Machines, Check(m) PROVE BuildInv'
  BY <1>4, StillExported DEF Check
<1>5. CASE Die
  <2>1. built' \notin Machines /\ job' = <<>> /\ <<>> \in Seq({})
    BY <1>5, ArtefactFacts DEF Die
  <2>2. DOMAIN files' = Written
    BY <1>5 DEF Die, BuildInv
  <2> QED BY <2>1, <2>2 DEF BuildInv
<1>6. CASE UNCHANGED buildVars
  BY <1>6, StillExported DEF buildVars
<1> QED BY <1>1, <1>2, <1>3, <1>4, <1>5, <1>6, ExportStep, WriteFileStep DEF BuildNext

LEMMA ExportFollows ==
  ASSUME BuildInv
  PROVE  FinishedExportIsUpToDate
<1> SUFFICES ASSUME built \in Machines, job = <<>> PROVE UpToDate(built)
  BY DEF FinishedExportIsUpToDate
<1>1. Gates(Sources) /\ Len(job) = 0
  BY DEF BuildInv
<1>2. \A i \in 1..10 : Artefacts[i] \notin broken
                         /\ files[Artefacts[i]] = Render(Sources, built)[Artefacts[i]]
  BY <1>1, ArtefactFacts DEF BuildInv, Exported
<1> QED BY <1>1, <1>2, ArtefactFacts DEF UpToDate

(* The files of an export that ran to its end, and of no later event, are   *)
(* what --check renders again from the same sources, on either kind of     *)
(* machine, whatever was imported or torn before (export_lexicon.py main). *)
THEOREM SpecFinishedExportIsUpToDate == BuildSpec => []FinishedExportIsUpToDate
<1>1. BuildInv /\ [BuildNext]_buildVars => BuildInv'
  BY BuildNextOK
<1> QED BY BuildInitOK, <1>1, ExportFollows, PTL DEF BuildSpec

-----------------------------------------------------------------------------
(* The elements of a finite set that an order relates stand one behind     *)
(* every number of others.                                                 *)
IsOrder(R, S) ==
  /\ \A x, y \in S : x # y => (<<x, y>> \in R <=> <<y, x>> \notin R)
  /\ \A x, y, z \in S : <<x, y>> \in R /\ <<y, z>> \in R => <<x, z>> \in R

LEMMA SomeoneInEveryPlace ==
  ASSUME NEW S, IsFiniteSet(S), NEW R, IsOrder(R, S), NEW i \in 1..Cardinality(S)
  PROVE  \E x \in S : Cardinality({y \in S \ {x} : <<y, x>> \in R}) = i - 1
<1> DEFINE Before(x) == {y \in S \ {x} : <<y, x>> \in R}
           n         == Cardinality(S)
           place     == [x \in S |-> Cardinality(Before(x))]
<1>1. n \in Nat
  BY FS_CardinalityType
<1>2. \A x \in S : /\ IsFiniteSet(Before(x)) /\ Cardinality(Before(x)) \in 0..(n - 1)
  <2> TAKE x \in S
  <2>1. IsFiniteSet(S \ {x}) /\ Cardinality(S \ {x}) = n - 1
    BY FS_RemoveElement
  <2>2. Before(x) \in SUBSET (S \ {x})
    OBVIOUS
  <2> HIDE DEF Before, n
  <2>3. IsFiniteSet(Before(x)) /\ Cardinality(Before(x)) <= Cardinality(S \ {x})
    BY <2>1, <2>2, FS_Subset
  <2>4. Cardinality(Before(x)) \in Nat
    BY <2>3, FS_CardinalityType
  <2>5. Cardinality(Before(x)) <= n - 1
    BY <2>1, <2>3
  <2> QED BY <1>1, <2>3, <2>4, <2>5
<1>3. \A x, y \in S : x # y /\ <<x, y>> \in R => Cardinality(Before(x)) < Cardinality(Before(y))
  <2> SUFFICES ASSUME NEW x \in S, NEW y \in S, x # y, <<x, y>> \in R
               PROVE  Cardinality(Before(x)) < Cardinality(Before(y))
    OBVIOUS
  <2>1. x \notin Before(x) /\ Before(x) \cup {x} \in SUBSET Before(y)
    BY DEF IsOrder
  <2> HIDE DEF Before
  <2>2. Cardinality(Before(x) \cup {x}) = Cardinality(Before(x)) + 1
    BY <1>2, <2>1, FS_AddElement
  <2>3. Cardinality(Before(x) \cup {x}) <= Cardinality(Before(y))
    BY <1>2, <2>1, FS_Subset
  <2> QED BY <1>1, <1>2, <2>2, <2>3
<1>4. \A x, y \in S : place[x] = place[y] => x = y
  <2> SUFFICES ASSUME NEW x \in S, NEW y \in S, x # y PROVE place[x] # place[y]
    OBVIOUS
  <2>1. <<x, y>> \in R \/ <<y, x>> \in R
    BY DEF IsOrder
  <2>2. place[x] = Cardinality(Before(x)) /\ place[y] = Cardinality(Before(y))
    OBVIOUS
  <2> HIDE DEF place, Before
  <2> QED BY <1>1, <1>2, <1>3, <2>1, <2>2
<1>5. place \in Injection(S, 0..(n - 1))
  <2>1. place \in [S -> 0..(n - 1)]
    BY <1>2
  <2> HIDE DEF place
  <2> QED BY <1>4, <2>1 DEF Injection, IsInjective
<1>6. IsFiniteSet(0..(n - 1)) /\ Cardinality(0..(n - 1)) = n
  <2>1. n - 1 \in Int /\ (IF 0 > n - 1 THEN 0 ELSE n - 1 - 0 + 1) = n
    BY <1>1
  <2> HIDE DEF n
  <2> QED BY <2>1, FS_Interval
<1>7. place \in Surjection(S, 0..(n - 1))
  <2> HIDE DEF place, n
  <2> QED BY <1>5, <1>6, FS_Injection DEF n
<1>8. i - 1 \in 0..(n - 1)
  BY <1>1
<1>9. PICK x \in S : place[x] = i - 1
  <2> HIDE DEF place, n
  <2> QED BY <1>7, <1>8 DEF Surjection
<1> QED BY <1>9

(* What a function makes of the elements of a finite set is finite. *)
LEMMA FiniteImage ==
  ASSUME NEW S, IsFiniteSet(S), NEW f, DOMAIN f = S, f = [x \in S |-> f[x]]
  PROVE  IsFiniteSet({f[x] : x \in S})
<1> DEFINE T == {f[x] : x \in S}
<1>1. f \in Surjection(S, T)
  BY DEF Surjection
<1> HIDE DEF T
<1> QED BY <1>1, FS_Surjection DEF T

LEMMA EmptyAppended ==
  ASSUME NEW S, NEW n \in Nat, NEW f \in [1..n -> S]
  PROVE  f \o <<>> = f /\ DOMAIN f = 1..n
<1>1. f \in Seq(S)
  OBVIOUS
<1> QED BY <1>1, ConcatEmptySeq

-----------------------------------------------------------------------------
(* The entries of the tables. *)
Reviewed(rows) == IsFiniteSet(rows) /\ \A r \in rows : r.tier = "brain-kb-reviewed"
Automatic(rows) == IsFiniteSet(rows) /\ \A r \in rows : r.tier \in {"auto-verified", "auto-coverage"}
Sound(src) == src.curated \in CuratedSeeds /\ Reviewed(src.brain) /\ Automatic(src.tsv)

CuratedEntries(src) == {e \in Entries(src) : e.tier = "curated"}
CuratedRows(src) == {e \in {Hydrate(x, AutoForms(src)) : x \in Entries(src)} : e.tier = "curated"}

LEMMA HydrateKeeps ==
  ASSUME NEW e, NEW forms
  PROVE  LET h == Hydrate(e, forms) IN
         /\ h.lemma = e.lemma /\ h.pos = e.pos /\ h.tier = e.tier
         /\ h.nom = e.nom /\ h.gen = e.gen /\ h.prep = e.prep
  BY DEF Hydrate

LEMMA CuratedEntriesAre ==
  ASSUME NEW src, Sound(src)
  PROVE  /\ CuratedEntries(src) \in SUBSET (Core \cup src.curated)
         /\ IsFiniteSet(CuratedEntries(src))
         /\ \A e, f \in CuratedEntries(src) : SameKey(e, f) => e = f
         /\ \A e \in CuratedEntries(src) :
              Rank[e.lemma] \in Int /\ e.pos \in {"adjective", "noun", "verb"}
         /\ \A e, f \in CuratedEntries(src) : Rank[e.lemma] = Rank[f.lemma] => e.lemma = f.lemma
<1>1. src.curated \in CuratedSeeds /\ \A r \in src.brain : r.tier = "brain-kb-reviewed"
  BY DEF Sound, Reviewed
<1>2. \A e \in CuratedEntries(src) : e \in InsertOrIgnore(Core, src.curated)
  BY <1>1 DEF CuratedEntries, Entries, InsertOrIgnore
<1>3. IsSeed(Core) /\ IsSeed(src.curated)
  BY <1>1, LexiconAssumption
<1>4. InsertOrIgnore(Core, src.curated) \in SUBSET (Core \cup src.curated)
  BY DEF InsertOrIgnore
<1>5. \A e, f \in InsertOrIgnore(Core, src.curated) : SameKey(e, f) => e = f
  <2> SUFFICES ASSUME NEW e \in InsertOrIgnore(Core, src.curated),
                      NEW f \in InsertOrIgnore(Core, src.curated), SameKey(e, f)
               PROVE  e = f
    OBVIOUS
  <2>1. SameKey(f, e)
    BY DEF SameKey
  <2>2. /\ e \in Core \/ (e \in src.curated /\ \A t \in Core : ~SameKey(e, t))
        /\ f \in Core \/ (f \in src.curated /\ \A t \in Core : ~SameKey(f, t))
    BY DEF InsertOrIgnore
  <2> QED BY <1>3, <2>1, <2>2 DEF IsSeed
<1>6. CuratedEntries(src) \in SUBSET (Core \cup src.curated)
  BY <1>2, <1>4
<1>7. IsFiniteSet(Core \cup src.curated)
  BY <1>3, FS_Union DEF IsSeed
<1>8. IsFiniteSet(CuratedEntries(src))
  BY <1>6, <1>7, FS_Subset
<1>9. \A e \in Core \cup src.curated :
        Rank[e.lemma] \in Int /\ e.pos \in {"adjective", "noun", "verb"}
  BY <1>3 DEF IsSeed
<1>10. Core \cup src.curated \subseteq UNION ({Core} \cup CuratedSeeds)
  BY <1>1
<1>11. \A e, f \in Core \cup src.curated : Rank[e.lemma] = Rank[f.lemma] => e.lemma = f.lemma
  BY <1>10, LexiconAssumption
<1> QED BY <1>2, <1>5, <1>6, <1>8, <1>9, <1>11

LEMMA RowBeforeIs ==
  ASSUME NEW e, NEW f
  PROVE  RowBefore(e, f) <=> \/ Rank[e.lemma] < Rank[f.lemma]
                             \/ Rank[e.lemma] = Rank[f.lemma] /\ PosRank(e.pos) < PosRank(f.pos)
<1> DEFINE a == <<Rank[e.lemma], PosRank(e.pos)>>
           b == <<Rank[f.lemma], PosRank(f.pos)>>
<1>1. DOMAIN a = 1..2 /\ a[1] = Rank[e.lemma] /\ a[2] = PosRank(e.pos)
      /\ b[1] = Rank[f.lemma] /\ b[2] = PosRank(f.pos)
  OBVIOUS
<1>2. RowBefore(e, f) <=> \E i \in DOMAIN a : a[i] < b[i] /\ \A j \in 1..(i - 1) : a[j] = b[j]
  BY DEF RowBefore, Less
<1> HIDE DEF a, b
<1>3. 1..(1 - 1) = {} /\ 1..(2 - 1) = {1} /\ 1..2 = {1, 2}
  OBVIOUS
<1> QED BY <1>1, <1>2, <1>3

(* The rows are ordered by their keys. *)
LEMMA RowsAreOrdered ==
  ASSUME NEW src, Sound(src)
  PROVE  LET C == CuratedRows(src)
             R == {p \in C \X C : RowBefore(p[1], p[2])} IN
         IsFiniteSet(C) /\ IsOrder(R, C)
<1> DEFINE H(e) == Hydrate(e, AutoForms(src))
           C    == CuratedRows(src)
           T    == CuratedEntries(src)
           R    == {p \in C \X C : RowBefore(p[1], p[2])}
<1>1. C = {H(e) : e \in T}
  BY HydrateKeeps DEF CuratedRows, CuratedEntries
<1>2. IsFiniteSet(C)
  <2> DEFINE h == [e \in T |-> H(e)]
  <2>1. IsFiniteSet(T) /\ DOMAIN h = T /\ C = {h[e] : e \in T} /\ h = [e \in T |-> h[e]]
    BY <1>1, CuratedEntriesAre
  <2> HIDE DEF h, C, T
  <2> QED BY <2>1, FiniteImage
<1>3. \A x \in C : Rank[x.lemma] \in Int /\ x.pos \in {"adjective", "noun", "verb"}
  BY <1>1, HydrateKeeps, CuratedEntriesAre
<1>4. \A x, y \in C : Rank[x.lemma] = Rank[y.lemma] /\ x.pos = y.pos => x = y
  <2> SUFFICES ASSUME NEW e \in T, NEW f \in T, Rank[e.lemma] = Rank[f.lemma], e.pos = f.pos
               PROVE  e = f
    BY <1>1, HydrateKeeps
  <2> QED BY CuratedEntriesAre DEF SameKey
<1>5. \A x, y \in C : <<x, y>> \in R <=> RowBefore(x, y)
  OBVIOUS
<1>6. \A x \in C : PosRank(x.pos) \in {0, 1, 2}
  BY DEF PosRank
<1>7. \A x, y \in C : PosRank(x.pos) = PosRank(y.pos) => x.pos = y.pos
  BY <1>3 DEF PosRank
<1> HIDE DEF C, R
<1>8. IsOrder(R, C)
  BY <1>3, <1>4, <1>5, <1>6, <1>7, RowBeforeIs DEF IsOrder
<1> QED BY <1>2, <1>8 DEF C, R

(* The rows of load_rows are hydrated curated entries. *)
LEMMA RowsAre ==
  ASSUME NEW src, Sound(src)
  PROVE  LET rows == Load(src).rows IN
         \E n \in Nat :
           /\ DOMAIN rows = 1..n
           /\ \A i \in 1..n : rows[i] \in CuratedRows(src)
<1> DEFINE C == CuratedRows(src)
           R == {p \in C \X C : RowBefore(p[1], p[2])}
           n == Cardinality(C)
           At(i) == CHOOSE x \in C : Cardinality({y \in C \ {x} : RowBefore(y, x)}) = i - 1
           f == [i \in 1..n |-> At(i)]
<1>1. Load(src).rows = f \o <<>>
  BY DEF Load, InOrder, CuratedRows
<1>2. IsFiniteSet(C) /\ IsOrder(R, C) /\ n \in Nat
  BY RowsAreOrdered, FS_CardinalityType
<1>3. \A x \in C : {y \in C \ {x} : RowBefore(y, x)} = {y \in C \ {x} : <<y, x>> \in R}
  OBVIOUS
<1>4. \A i \in 1..n : At(i) \in C
  <2> TAKE i \in 1..n
  <2>1. \E x \in C : Cardinality({y \in C \ {x} : <<y, x>> \in R}) = i - 1
    <3> HIDE DEF C, R
    <3> QED BY <1>2, SomeoneInEveryPlace
  <2>2. \E x \in C : Cardinality({y \in C \ {x} : RowBefore(y, x)}) = i - 1
    BY <1>3, <2>1
  <2> HIDE DEF C
  <2> QED BY <2>2
<1> HIDE DEF At, n, C
<1>5. f \in [1..n -> C]
  BY <1>4
<1>6. f \o <<>> = f /\ DOMAIN f = 1..n
  BY <1>2, <1>5, EmptyAppended
<1>7. DOMAIN Load(src).rows = 1..n /\ \A i \in 1..n : Load(src).rows[i] \in C
  BY <1>1, <1>4, <1>6
<1> QED BY <1>2, <1>7 DEF C

-----------------------------------------------------------------------------
(* What a curated entry offers. *)
LEMMA EntriesFinite ==
  ASSUME NEW src, Sound(src)
  PROVE  IsFiniteSet(Load(src).forms)
<1> DEFINE H(e) == Hydrate(e, AutoForms(src))
           E    == Entries(src)
           D    == {H(e) : e \in E}
           G    == {FormsOf(e) : e \in D}
<1>1. IsFiniteSet(E)
  <2>1. /\ IsFiniteSet(Core) /\ IsFiniteSet(src.curated) /\ IsFiniteSet(src.brain)
    BY LexiconAssumption DEF Sound, Reviewed, IsSeed
  <2>2. IsFiniteSet((Core \cup src.curated) \cup src.brain)
    BY <2>1, FS_Union
  <2>3. E \in SUBSET ((Core \cup src.curated) \cup src.brain)
    BY DEF Entries, InsertOrIgnore
  <2> HIDE DEF E
  <2> QED BY <2>2, <2>3, FS_Subset
<1>2. IsFiniteSet(D)
  <2> DEFINE h == [e \in E |-> H(e)]
  <2>1. DOMAIN h = E /\ D = {h[e] : e \in E} /\ h = [e \in E |-> h[e]]
    OBVIOUS
  <2> HIDE DEF h, E, D
  <2> QED BY <1>1, <2>1, FiniteImage
<1>3. IsFiniteSet(G)
  <2> DEFINE g == [e \in D |-> FormsOf(e)]
  <2>1. DOMAIN g = D /\ G = {g[e] : e \in D} /\ g = [e \in D |-> g[e]]
    OBVIOUS
  <2> HIDE DEF g, D, G
  <2> QED BY <1>2, <2>1, FiniteImage
<1>4. \A e : IsFiniteSet(FormsOf(e))
  <2> TAKE e
  <2> DEFINE F(c) == [surface |-> Word(e, c), lemma |-> e.lemma, pos |-> e.pos, case |-> c,
                      number |-> "singular", tier |-> e.tier, quality |-> e.quality]
             f    == [c \in Cases |-> F(c)]
  <2>1. IsFiniteSet(Cases)
    <3>1. Cases = {"nominative"} \cup {"genitive"} \cup {"prepositional"} \cup {"accusative"}
                  \cup {"instrumental"}
      BY DEF Cases
    <3> QED BY <3>1, FS_Singleton, FS_Union
  <2>2. FormsOf(e) = {F(c) : c \in Cases}
    BY DEF FormsOf
  <2> HIDE DEF F
  <2>3. DOMAIN f = Cases /\ FormsOf(e) = {f[c] : c \in Cases} /\ f = [c \in Cases |-> f[c]]
    BY <2>2
  <2> HIDE DEF f
  <2> QED BY <2>1, <2>3, FiniteImage
<1>5. IsFiniteSet(UNION G)
  <2>1. \A F \in G : IsFiniteSet(F)
    BY <1>4
  <2> HIDE DEF G
  <2> QED BY <1>3, <2>1, FS_UNION
<1>6. IsFiniteSet(AutoForms(src))
  BY FS_EmptySet DEF Sound, Automatic, AutoForms
<1>7. Load(src).forms = AutoForms(src) \cup UNION G
  BY DEF Load
<1> HIDE DEF G
<1> QED BY <1>5, <1>6, <1>7, FS_Union

(* A surface with one lemma lists that lemma. *)
LEMMA OneLemma ==
  ASSUME NEW offered, NEW l, {f.lemma : f \in offered} = {l}
  PROVE  LemmaOrder(offered) = <<l>>
<1> DEFINE best(k) == FirstOf({f \in offered : f.lemma = k}, 1,
                              LAMBDA f : <<Tier(f.tier), -f.quality>>)
           key(k)  == LET f == CHOOSE f \in best(k) : TRUE IN
                      <<Tier(f.tier), -f.quality, Rank[k]>>
           B(x, y) == Less(key(x), key(y))
           At(i)   == CHOOSE x \in {l} : Cardinality({y \in {l} \ {x} : B(y, x)}) = i - 1
           T       == {f.lemma : f \in offered}
           place   == [i \in 1..1 |-> At(i)]
<1>1. LemmaOrder(offered) = [i \in 1..Cardinality(T) |->
         CHOOSE x \in T : Cardinality({y \in T \ {x} : B(y, x)}) = i - 1] \o <<>>
  BY Zenon DEF LemmaOrder, InOrder
<1> HIDE DEF B, T
<1>2. T = {l} /\ Cardinality(T) = 1
  BY FS_Singleton DEF T
<1>3. LemmaOrder(offered) = place \o <<>>
  BY <1>1, <1>2
<1>4. At(1) = l
  <2>1. Cardinality({y \in {l} \ {l} : B(y, l)}) = 1 - 1
    <3>1. {y \in {l} \ {l} : B(y, l)} = {}
      OBVIOUS
    <3> QED BY <3>1, FS_EmptySet
  <2>2. \E x \in {l} : Cardinality({y \in {l} \ {x} : B(y, x)}) = 1 - 1
    BY <2>1
  <2>3. At(1) \in {l}
    BY <2>2
  <2> QED BY <2>3
<1> HIDE DEF At
<1>5. place = <<l>>
  BY <1>4
<1>6. place \in [1..1 -> {l}]
  BY <1>4
<1>7. place \o <<>> = place
  BY <1>6, EmptyAppended
<1> QED BY <1>3, <1>5, <1>7

LEMMA Outranks ==
  ASSUME NEW src, Sound(src), Gates(src), NEW i \in DOMAIN Load(src).rows,
         NEW c \in {"nominative", "genitive", "prepositional"}
  PROVE  LET fbs  == FormsBySurface(Load(src).forms)
             row  == Load(src).rows[i]
             word == Word(row, c) IN
         /\ word \in DOMAIN fbs
         /\ LemmaOrder(fbs[word]) = <<row.lemma>> \/ <<word, LemmaOrder(fbs[word])>> \in KnownCollisions
<1> DEFINE forms == Load(src).forms
           fbs   == FormsBySurface(forms)
           row   == Load(src).rows[i]
           word  == Word(row, c)
           form  == [surface |-> word, lemma |-> row.lemma, pos |-> row.pos, case |-> c,
                     number |-> "singular", tier |-> row.tier, quality |-> row.quality]
           here  == {f \in forms : f.surface = word}
           T     == {f.lemma : f \in fbs[word]}
<1>1. row \in CuratedRows(src)
  BY RowsAre
<1>2. row.tier = "curated" /\ FormsOf(row) \subseteq forms
  BY <1>1 DEF CuratedRows, Load
<1>3. form \in FormsOf(row)
  BY DEF FormsOf, Cases
<1>4. form \in here /\ form.tier = "curated" /\ form.lemma = row.lemma /\ form.surface = word
  BY <1>2, <1>3
<1> HIDE DEF form, row, word, forms
<1>5. word \in DOMAIN fbs /\ fbs[word] = Offered(here)
  BY <1>4 DEF FormsBySurface
<1>6. form \in Offered(here) /\ Offered(here) \subseteq here
  <2> HIDE DEF here
  <2>1. {f.lemma : f \in {x \in here : x.tier = "curated"}} # {}
    BY <1>4
  <2>2. Offered(here) = {f \in here : f.tier = "curated" \/
            f.lemma \in {g.lemma : g \in {x \in here : x.tier = "curated"}}}
    BY <2>1 DEF Offered
  <2> QED BY <1>4, <2>2
<1>7. word \notin Dangerous(fbs)
  BY DEF Gates, forms
<1> HIDE DEF fbs, here
<1>8. ~(Cardinality(T) > 1) \/ <<word, LemmaOrder(fbs[word])>> \in KnownCollisions
  BY <1>4, <1>5, <1>6, <1>7 DEF Dangerous
<1>9. IsFiniteSet(T)
  <2> DEFINE S == fbs[word]
             g == [f \in S |-> f.lemma]
  <2>1. S \in SUBSET forms /\ IsFiniteSet(forms)
    BY <1>5, <1>6, EntriesFinite DEF here, forms
  <2>2. IsFiniteSet(S)
    BY <2>1, FS_Subset
  <2>3. DOMAIN g = S /\ T = {g[f] : f \in S} /\ g = [f \in S |-> g[f]]
    OBVIOUS
  <2> HIDE DEF S, g, T
  <2> QED BY <2>2, <2>3, FiniteImage
<1>10. row.lemma \in T
  BY <1>4, <1>5, <1>6
<1>11. Cardinality(T) > 1 \/ T = {row.lemma}
  <2> HIDE DEF T
  <2>1. {row.lemma} \in SUBSET T /\ Cardinality({row.lemma}) = 1 /\ Cardinality(T) \in Nat
    BY <1>9, <1>10, FS_Singleton, FS_CardinalityType
  <2>2. 1 <= Cardinality(T)
    BY <1>9, <2>1, FS_Subset
  <2>3. Cardinality(T) = 1 => T = {row.lemma}
    BY <1>9, <2>1, FS_Subset
  <2> QED BY <2>1, <2>2, <2>3
<1>12. T = {row.lemma} => LemmaOrder(fbs[word]) = <<row.lemma>>
  BY OneLemma
<1>13. /\ word \in DOMAIN fbs
       /\ LemmaOrder(fbs[word]) = <<row.lemma>> \/ <<word, LemmaOrder(fbs[word])>> \in KnownCollisions
  BY <1>5, <1>8, <1>11, <1>12
<1> QED BY <1>13 DEF fbs, forms, row, word

-----------------------------------------------------------------------------
(* One name for each row. *)
LEMMA NamesDiffer ==
  ASSUME NEW rows, NEW n \in Nat, DOMAIN rows = 1..n,
         NEW i \in 1..n, NEW j \in 1..n, FunName(rows, i) = FunName(rows, j)
  PROVE  i = j
<1> DEFINE base(k)  == <<Latin[rows[k].lemma], rows[k].pos>>
           upto(k)  == {m \in 1..k : base(m) = base(k)}
<1>1. \A k : FunName(rows, k) = <<base(k), Cardinality(upto(k))>>
  BY DEF FunName
<1> HIDE DEF base
<1>2. base(i) = base(j) /\ Cardinality(upto(i)) = Cardinality(upto(j))
  <2> HIDE DEF upto
  <2>1. <<base(i), Cardinality(upto(i))>> = <<base(j), Cardinality(upto(j))>>
    BY <1>1
  <2> QED BY <2>1
<1>3. \A k \in 1..n : IsFiniteSet(upto(k)) /\ Cardinality(upto(k)) \in Nat
  <2> TAKE k \in 1..n
  <2>1. IsFiniteSet(1..k) /\ upto(k) \in SUBSET (1..k)
    BY FS_Interval
  <2> HIDE DEF upto
  <2> QED BY <2>1, FS_Subset, FS_CardinalityType
<1>4. ASSUME NEW a \in 1..n, NEW b \in 1..n, base(a) = base(b), a < b
      PROVE  Cardinality(upto(a)) # Cardinality(upto(b))
  <2>1. b \in upto(b) /\ b \notin upto(a) /\ upto(a) \in SUBSET upto(b)
    BY <1>4
  <2> HIDE DEF upto
  <2> QED BY <1>3, <2>1, FS_Subset
<1> HIDE DEF upto
<1>5. i < j \/ j < i \/ i = j
  OBVIOUS
<1> QED BY <1>2, <1>4, <1>5

LEMMA OneName ==
  ASSUME NEW src, Sound(src)
  PROVE  LET rows == Load(src).rows
             gf   == GfFiles(rows) IN
         /\ DOMAIN gf = DOMAIN GfMap(rows) /\ DOMAIN gf = DOMAIN AgdaModules(rows)
         /\ \A i, j \in DOMAIN gf : gf[i].fun = gf[j].fun => i = j
         /\ \A i \in DOMAIN gf :
              /\ GfMap(rows)[i].fun = gf[i].fun /\ AgdaModules(rows)[i].ctor = gf[i].fun
              /\ \E e \in CuratedEntries(src) :
                   /\ e.lemma = GfMap(rows)[i].lemma
                   /\ \A c \in {"nominative", "genitive", "prepositional"} :
                        gf[i].words[c] = Word(e, c)
<1> DEFINE rows == Load(src).rows
<1>1. PICK n \in Nat : DOMAIN rows = 1..n /\ \A i \in 1..n : rows[i] \in CuratedRows(src)
  BY RowsAre
<1> HIDE DEF rows
<1>2. /\ DOMAIN GfFiles(rows) = 1..n /\ DOMAIN GfMap(rows) = 1..n
      /\ DOMAIN AgdaModules(rows) = 1..n
  BY <1>1 DEF GfFiles, GfMap, AgdaModules
<1>3. \A i \in 1..n : /\ GfFiles(rows)[i].fun = FunName(rows, i)
                      /\ GfMap(rows)[i].fun = FunName(rows, i)
                      /\ GfMap(rows)[i].lemma = rows[i].lemma
                      /\ AgdaModules(rows)[i].ctor = FunName(rows, i)
  BY <1>1 DEF GfFiles, GfMap, AgdaModules
<1>4. \A i \in 1..n : \A c \in {"nominative", "genitive", "prepositional"} :
        GfFiles(rows)[i].words[c] = Word(rows[i], c)
  BY <1>1 DEF GfFiles, Cases
<1>5. \A i, j \in 1..n : GfFiles(rows)[i].fun = GfFiles(rows)[j].fun => i = j
  BY <1>1, <1>3, NamesDiffer
<1>6. \A i \in 1..n : \E e \in CuratedEntries(src) :
        /\ e.lemma = rows[i].lemma
        /\ \A c \in {"nominative", "genitive", "prepositional"} : Word(rows[i], c) = Word(e, c)
  <2> TAKE i \in 1..n
  <2>1. PICK e \in Entries(src) : rows[i] = Hydrate(e, AutoForms(src)) /\ rows[i].tier = "curated"
    BY <1>1 DEF CuratedRows
  <2>2. /\ rows[i].lemma = e.lemma /\ rows[i].tier = e.tier
        /\ rows[i].nom = e.nom /\ rows[i].gen = e.gen /\ rows[i].prep = e.prep
    BY <2>1, HydrateKeeps
  <2>3. e \in CuratedEntries(src)
    BY <2>1, <2>2 DEF CuratedEntries
  <2>4. \A c \in {"nominative", "genitive", "prepositional"} : Word(rows[i], c) = Word(e, c)
    BY <2>2 DEF Word
  <2> QED BY <2>2, <2>3, <2>4
<1>7. \A i \in 1..n : \E e \in CuratedEntries(src) :
        /\ e.lemma = GfMap(rows)[i].lemma
        /\ \A c \in {"nominative", "genitive", "prepositional"} :
             GfFiles(rows)[i].words[c] = Word(e, c)
  BY <1>3, <1>4, <1>6
<1> QED BY <1>2, <1>3, <1>5, <1>7 DEF rows

-----------------------------------------------------------------------------
(* What the importers write. *)
LEMMA FirstGroupsFinite ==
  ASSUME NEW groups \in Dictionaries
  PROVE  /\ IsFiniteSet(P1Groups(groups)) /\ P1Groups(groups) \subseteq groups
         /\ IsFiniteSet(P2Groups(groups)) /\ P2Groups(groups) \subseteq groups
<1>1. P1Groups(groups) \in SUBSET groups /\ P2Groups(groups) \in SUBSET groups
  BY DEF P1Groups, P2Groups, FirstOf
<1>2. IsFiniteSet(groups)
  BY LexiconAssumption
<1> QED BY <1>1, <1>2, FS_Subset

LEMMA TsvFinite ==
  ASSUME NEW groups, NEW tier, IsFiniteSet(groups), \A g \in groups : IsFiniteSet(g.forms)
  PROVE  IsFiniteSet(TsvRows(groups, tier)) /\ \A r \in TsvRows(groups, tier) : r.tier = tier
<1> DEFINE row(f, g) == [surface |-> f.surface, lemma |-> g.lemma, pos |-> g.pos,
                         case |-> IF f.case = NoTag THEN "nominative" ELSE f.case,
                         number |-> f.number, tier |-> tier, quality |-> AssignQuality(g, tier)]
           tagged(g) == {x \in g.forms : x.number # NoTag}
           of(g)     == {row(f, g) : f \in tagged(g)}
           U         == {of(g) : g \in groups}
<1>1. TsvRows(groups, tier) = UNION U
  BY DEF TsvRows
<1>2. \A g \in groups : IsFiniteSet(of(g))
  <2> TAKE g \in groups
  <2> DEFINE h == [f \in tagged(g) |-> row(f, g)]
  <2>1. IsFiniteSet(tagged(g))
    <3>1. tagged(g) \in SUBSET g.forms /\ IsFiniteSet(g.forms)
      OBVIOUS
    <3> HIDE DEF tagged
    <3> QED BY <3>1, FS_Subset
  <2> HIDE DEF row, tagged
  <2>2. DOMAIN h = tagged(g) /\ of(g) = {h[f] : f \in tagged(g)} /\ h = [f \in tagged(g) |-> h[f]]
    OBVIOUS
  <2> HIDE DEF h, of
  <2> QED BY <2>1, <2>2, FiniteImage
<1>3. IsFiniteSet(UNION U)
  <2> DEFINE h == [g \in groups |-> of(g)]
  <2> HIDE DEF of
  <2>1. DOMAIN h = groups /\ U = {h[g] : g \in groups} /\ h = [g \in groups |-> h[g]]
    OBVIOUS
  <2>2. \A F \in U : IsFiniteSet(F)
    BY <1>2
  <2> HIDE DEF h, U
  <2>3. IsFiniteSet(U)
    BY <2>1, FiniteImage
  <2> QED BY <2>2, <2>3, FS_UNION
<1>4. \A r \in UNION U : r.tier = tier
  OBVIOUS
<1> QED BY <1>1, <1>3, <1>4

LEMMA AutoRowsAre ==
  ASSUME NEW groups \in Dictionaries
  PROVE  Automatic(AutoRows(groups))
<1>1. \A g \in groups : IsFiniteSet(g.forms)
  BY LexiconAssumption
<1>2. /\ IsFiniteSet(TsvRows(P1Groups(groups), "auto-verified"))
      /\ \A r \in TsvRows(P1Groups(groups), "auto-verified") : r.tier = "auto-verified"
  BY <1>1, FirstGroupsFinite, TsvFinite
<1>3. /\ IsFiniteSet(TsvRows(P2Groups(groups), "auto-coverage"))
      /\ \A r \in TsvRows(P2Groups(groups), "auto-coverage") : r.tier = "auto-coverage"
  BY <1>1, FirstGroupsFinite, TsvFinite
<1> QED BY <1>2, <1>3, FS_Union DEF Automatic, AutoRows

LEMMA SeedRowsAre ==
  ASSUME NEW rows, Automatic(rows)
  PROVE  Reviewed(SeedRows(rows, Units))
<1> DEFINE lemmas == {r.lemma : r \in rows}
           candidate(l) == [lemma |-> l, count |-> Cardinality(MentionsOf(rows, Units, l)),
                            score |-> Score(Units, MentionsOf(rows, Units, l))]
           all    == {candidate(l) : l \in lemmas}
           chosen == FirstOf(Candidates(rows, Units), TopN,
                             LAMBDA c : <<-c.score, -c.count, Rank[c.lemma]>>)
           row(c) == [lemma |-> c.lemma, pos |-> "noun", nom |-> c.lemma, gen |-> c.lemma,
                      prep |-> c.lemma, acc |-> c.lemma, ins |-> c.lemma,
                      tier |-> "brain-kb-reviewed", quality |-> CandidateQuality(c)]
           seeds  == {row(c) : c \in chosen}
<1>1. IsFiniteSet(lemmas)
  <2> DEFINE h == [r \in rows |-> r.lemma]
  <2>1. DOMAIN h = rows /\ lemmas = {h[r] : r \in rows} /\ h = [r \in rows |-> h[r]]
    OBVIOUS
  <2> HIDE DEF h, lemmas
  <2> QED BY <2>1, FiniteImage DEF Automatic
<1>2. IsFiniteSet(all)
  <2> HIDE DEF candidate, lemmas
  <2> DEFINE h == [l \in lemmas |-> candidate(l)]
  <2>1. DOMAIN h = lemmas /\ all = {h[l] : l \in lemmas} /\ h = [l \in lemmas |-> h[l]]
    OBVIOUS
  <2> HIDE DEF h, all
  <2> QED BY <1>1, <2>1, FiniteImage
<1>3. Candidates(rows, Units) \subseteq all
  BY DEF Candidates
<1> HIDE DEF all
<1>4. chosen \in SUBSET all
  BY <1>3 DEF FirstOf
<1> HIDE DEF chosen
<1>5. IsFiniteSet(chosen)
  BY <1>2, <1>4, FS_Subset
<1>6. IsFiniteSet(seeds)
  <2> HIDE DEF row
  <2> DEFINE h == [c \in chosen |-> row(c)]
  <2>1. DOMAIN h = chosen /\ seeds = {h[c] : c \in chosen} /\ h = [c \in chosen |-> h[c]]
    OBVIOUS
  <2> HIDE DEF h, seeds
  <2> QED BY <1>5, <2>1, FiniteImage
<1>7. SeedRows(rows, Units) = seeds
  BY DEF SeedRows, chosen
<1>8. \A s \in seeds : s.tier = "brain-kb-reviewed"
  OBVIOUS
<1> HIDE DEF seeds
<1> QED BY <1>6, <1>7, <1>8 DEF Reviewed

-----------------------------------------------------------------------------
(* The files of the importers are tables, also torn or still to be written, *)
(* and a passed check speaks of the files that are there.                  *)
Content(file, rows) == /\ file = "tsv" => Automatic(rows)
                       /\ file = "brain" => Reviewed(rows)
PublishInv ==
  /\ BuildInv
  /\ curated \in CuratedSeeds /\ dictionary \in Dictionaries
  /\ Automatic(files["tsv"]) /\ Reviewed(files["brain"])
  /\ \A i \in 1..Len(job) : Content(job[i][1], job[i][2])
  /\ verdict = "passed" => \E m \in Machines : UpToDate(m)

LEMMA PublishInitOK == BuildInit => PublishInv
<1> SUFFICES ASSUME BuildInit PROVE PublishInv
  OBVIOUS
<1>1. files["tsv"] = {} /\ files["brain"] = {} /\ job = <<>> /\ verdict # "passed"
  BY DEF BuildInit, Written
<1>2. Automatic({}) /\ Reviewed({})
  BY FS_EmptySet DEF Automatic, Reviewed
<1>3. curated \in CuratedSeeds /\ dictionary \in Dictionaries
  BY DEF BuildInit
<1>4. \A i \in 1..Len(job) : Content(job[i][1], job[i][2])
  BY <1>1
<1> QED BY <1>1, <1>2, <1>3, <1>4, BuildInitOK DEF PublishInv

(* A tool reads sound sources, so that what it is going to write is sound. *)
LEMMA PublishBegins ==
  ASSUME PublishInv, BuildInv', NEW writes, NEW b, Begin(writes, b),
         \A i \in 1..Len(writes) : Content(writes[i][1], writes[i][2])
  PROVE  PublishInv'
  BY DEF PublishInv, Begin

LEMMA PublishWrites ==
  ASSUME PublishInv, BuildInv', WriteFile
  PROVE  PublishInv'
<1> DEFINE file == Head(job)[1]
           rows == Head(job)[2]
<1>1. PICK S : job \in Seq(S)
  BY DEF PublishInv, BuildInv
<1>2. /\ job # <<>> /\ job' = Tail(job) /\ verdict' # "passed"
      /\ files' = [files EXCEPT ![file] = rows]
      /\ UNCHANGED <<curated, dictionary>>
  BY DEF WriteFile
<1>3. /\ Len(job) \in Nat \ {0} /\ Len(job') = Len(job) - 1 /\ Head(job) = job[1]
      /\ \A i \in 1..Len(job') : job'[i] = job[i + 1]
  BY <1>1, <1>2
<1>4. \A i \in 1..Len(job') : Content(job'[i][1], job'[i][2])
  <2> TAKE i \in 1..Len(job')
  <2>1. i + 1 \in 1..Len(job) /\ job'[i] = job[i + 1]
    BY <1>3
  <2> QED BY <2>1 DEF PublishInv
<1>5. Content(file, rows)
  <2>1. 1 \in 1..Len(job)
    BY <1>3
  <2> QED BY <1>3, <2>1 DEF PublishInv
<1> HIDE DEF file, rows
<1>6. Automatic(files'["tsv"]) /\ Reviewed(files'["brain"])
  <2>1. DOMAIN files = Written /\ "tsv" \in Written /\ "brain" \in Written
    BY DEF PublishInv, BuildInv, Written
  <2>2. files'["tsv"] = IF file = "tsv" THEN rows ELSE files["tsv"]
    BY <1>2, <2>1
  <2>3. files'["brain"] = IF file = "brain" THEN rows ELSE files["brain"]
    BY <1>2, <2>1
  <2> QED BY <1>5, <2>2, <2>3 DEF Content, PublishInv
<1> QED BY <1>2, <1>4, <1>6 DEF PublishInv

LEMMA PublishDies ==
  ASSUME PublishInv, BuildInv', Die
  PROVE  PublishInv'
<1>1. /\ job # <<>> /\ job' = <<>> /\ verdict' # "passed" /\ UNCHANGED <<curated, dictionary>>
  BY DEF Die
<1>2. Automatic(files'["tsv"]) /\ Reviewed(files'["brain"])
  <2>1. CASE files' = files
    BY <2>1 DEF PublishInv
  <2>2. CASE Head(job)[1] = "tsv"
             /\ \E rows \in TornTables(Head(job)[2]) : files' = [files EXCEPT !["tsv"] = rows]
    <3>1. PICK rows \in TornTables(Head(job)[2]) : files' = [files EXCEPT !["tsv"] = rows]
      BY <2>2
    <3>2. PICK S : job \in Seq(S)
      BY DEF PublishInv, BuildInv
    <3>3. Head(job) = job[1] /\ 1 \in 1..Len(job)
      BY <1>1, <3>2
    <3>4. Automatic(Head(job)[2])
      BY <2>2, <3>3 DEF PublishInv, Content
    <3>5. rows \in SUBSET Head(job)[2]
      BY DEF TornTables
    <3>6. Automatic(rows)
      BY <3>4, <3>5, FS_Subset DEF Automatic
    <3>7. DOMAIN files = Written /\ "tsv" \in Written
      BY DEF PublishInv, BuildInv, Written
    <3>8. files'["tsv"] = rows /\ files'["brain"] = files["brain"]
      BY <3>1, <3>7
    <3> QED BY <3>6, <3>8 DEF PublishInv
  <2>3. CASE files' = [files EXCEPT !["brain"] = {}]
    <3>1. DOMAIN files = Written /\ "brain" \in Written
      BY DEF PublishInv, BuildInv, Written
    <3>2. files'["tsv"] = files["tsv"] /\ files'["brain"] = {}
      BY <2>3, <3>1
    <3> QED BY <3>2, FS_EmptySet DEF Reviewed, PublishInv
  <2> QED BY <2>1, <2>2, <2>3 DEF Die
<1>3. \A i \in 1..Len(job') : Content(job'[i][1], job'[i][2])
  BY <1>1
<1> QED BY <1>1, <1>2, <1>3 DEF PublishInv

LEMMA PublishNextOK ==
  ASSUME PublishInv, [BuildNext]_buildVars
  PROVE  PublishInv'
<1>1. BuildInv'
  BY BuildNextOK DEF PublishInv
<1>2. CASE EditSources
  <2>1. /\ curated' \in CuratedSeeds /\ dictionary' \in Dictionaries /\ verdict' # "passed"
        /\ UNCHANGED <<files, job>>
    BY <1>2 DEF EditSources, PublishInv
  <2> QED BY <1>1, <2>1 DEF PublishInv
<1>3. CASE ImportDictionary
  <2> DEFINE a == <<"tsv", AutoRows(dictionary)>>
             b == <<"manifest", Manifest(dictionary)>>
             w == <<a, b>>
  <2>1. Content(a[1], a[2])
    BY AutoRowsAre DEF PublishInv, Content
  <2>2. Content(b[1], b[2])
    BY DEF Content
  <2>3. Begin(w, "no")
    BY <1>3 DEF ImportDictionary
  <2> HIDE DEF a, b
  <2>4. \A i \in 1..Len(w) : w[i] = a \/ w[i] = b
    OBVIOUS
  <2> HIDE DEF w
  <2> QED BY <1>1, <2>1, <2>2, <2>3, <2>4, PublishBegins
<1>4. CASE ImportUnits
  <2> DEFINE a == <<"brain", SeedRows(files["tsv"], Units)>>
             w == <<a>>
  <2>1. Content(a[1], a[2])
    BY SeedRowsAre DEF PublishInv, Content
  <2>2. Begin(w, "no")
    BY <1>4 DEF ImportUnits
  <2> HIDE DEF a
  <2>3. \A i \in 1..Len(w) : w[i] = a
    OBVIOUS
  <2> HIDE DEF w
  <2> QED BY <1>1, <2>1, <2>2, <2>3, PublishBegins
<1>5. ASSUME NEW m \in Machines, Export(m) PROVE PublishInv'
  <2> DEFINE w == [i \in DOMAIN Artefacts |->
                     <<Artefacts[i], Render(Sources, m)[Artefacts[i]]>>]
  <2>1. Begin(w, m)
    BY <1>5 DEF Export
  <2>2. Len(w) = 10 /\ \A i \in 1..10 : w[i][1] = Artefacts[i]
    BY ArtefactFacts
  <2> HIDE DEF w
  <2>3. \A i \in 1..Len(w) : Content(w[i][1], w[i][2])
    BY <2>2, ArtefactFacts DEF Content
  <2> QED BY <1>1, <2>1, <2>3, PublishBegins
<1>6. ASSUME NEW m \in Machines, Check(m) PROVE PublishInv'
  <2>1. /\ UNCHANGED <<curated, slots, dictionary, files, broken, job, built>>
        /\ verdict' = "passed" => UpToDate(m)
    BY <1>6 DEF Check
  <2>2. Sources' = Sources
    BY <2>1 DEF Sources
  <2>3. UpToDate(m) => UpToDate(m)'
    BY <2>1, <2>2 DEF UpToDate
  <2> QED BY <1>1, <2>1, <2>3 DEF PublishInv
<1>7. CASE UNCHANGED buildVars
  <2>1. UNCHANGED <<curated, slots, dictionary, files, broken, job, built, verdict>>
    BY <1>7 DEF buildVars
  <2>2. Sources' = Sources
    BY <2>1 DEF Sources
  <2>3. \A m \in Machines : UpToDate(m) => UpToDate(m)'
    BY <2>1, <2>2 DEF UpToDate
  <2> QED BY <1>1, <2>1, <2>3 DEF PublishInv
<1> QED BY <1>1, <1>2, <1>3, <1>4, <1>5, <1>6, <1>7, PublishWrites, PublishDies DEF BuildNext

LEMMA PublishFollows ==
  ASSUME PublishInv
  PROVE  PublishedLexiconIsSound
<1> SUFFICES ASSUME verdict = "passed" PROVE CuratedOutranks /\ OneGrammar
  BY DEF PublishedLexiconIsSound
<1>1. PICK m \in Machines : UpToDate(m)
  BY DEF PublishInv
<1> DEFINE src  == Sources
           rows == Load(src).rows
           fbs  == FormsBySurface(Load(src).forms)
<1>2. Gates(src)
  BY <1>1 DEF UpToDate
<1>3. Sound(src)
  BY DEF PublishInv, Sound, Sources
<1>4. \A o \in {"forms", "snapshot", "gf", "funmap", "agda"} : files[o] = Render(src, m)[o]
  <2>1. \A o \in {"forms", "snapshot", "gf", "funmap", "agda"} : o \in ToSet(Artefacts)
    <3>1. /\ Artefacts[2] = "forms" /\ Artefacts[4] = "snapshot" /\ Artefacts[5] = "gf"
          /\ Artefacts[7] = "funmap" /\ Artefacts[8] = "agda"
      BY DEF Artefacts
    <3> QED BY <3>1, ArtefactFacts
  <2> QED BY <1>1, <2>1 DEF UpToDate
<1>5. /\ files["forms"] = fbs /\ files["snapshot"] = rows /\ files["gf"] = GfFiles(rows)
      /\ files["funmap"] = GfMap(rows) /\ files["agda"] = AgdaModules(rows)
  BY <1>4 DEF Render
<1>6. CuratedEntries(src) \subseteq Curated
  <2>1. src.curated = curated
    BY DEF Sources
  <2> QED BY <1>3, <2>1, CuratedEntriesAre DEF Curated, CuratedEntries
<1> HIDE DEF src
<1>7. CuratedOutranks
  <2>1. \A i \in DOMAIN rows : \A c \in {"nominative", "genitive", "prepositional"} :
          /\ Word(rows[i], c) \in DOMAIN fbs
          /\ \/ LemmaOrder(fbs[Word(rows[i], c)]) = <<rows[i].lemma>>
             \/ <<Word(rows[i], c), LemmaOrder(fbs[Word(rows[i], c)])>> \in KnownCollisions
    BY <1>2, <1>3, Outranks
  <2> HIDE DEF rows, fbs
  <2> QED BY <1>5, <2>1 DEF CuratedOutranks
<1>8. OneGrammar
  <2>1. /\ DOMAIN GfFiles(rows) = DOMAIN GfMap(rows)
        /\ DOMAIN GfFiles(rows) = DOMAIN AgdaModules(rows)
        /\ \A i, j \in DOMAIN GfFiles(rows) :
             GfFiles(rows)[i].fun = GfFiles(rows)[j].fun => i = j
        /\ \A i \in DOMAIN GfFiles(rows) :
             /\ GfMap(rows)[i].fun = GfFiles(rows)[i].fun
             /\ AgdaModules(rows)[i].ctor = GfFiles(rows)[i].fun
             /\ \E e \in CuratedEntries(src) :
                  /\ e.lemma = GfMap(rows)[i].lemma
                  /\ \A c \in {"nominative", "genitive", "prepositional"} :
                       GfFiles(rows)[i].words[c] = Word(e, c)
    BY <1>3, OneName
  <2> HIDE DEF rows, fbs
  <2> QED BY <1>5, <1>6, <2>1 DEF OneGrammar
<1> QED BY <1>7, <1>8

(* When the last thing that happened is a --check that passed, the         *)
(* artefacts agree on the curated lemmas, and a surface of a curated entry *)
(* offers that entry's lemma, whatever was edited, imported or torn before *)
(* (export_lexicon.py main, import_ru_opencorpora.py:19).                  *)
THEOREM SpecPublishedLexiconIsSound == BuildSpec => []PublishedLexiconIsSound
<1>1. PublishInv /\ [BuildNext]_buildVars => PublishInv'
  BY PublishNextOK
<1> QED BY PublishInitOK, <1>1, PublishFollows, PTL DEF BuildSpec

-----------------------------------------------------------------------------
(* The input lexicon.  The words of a corpus and of the seed are finitely   *)
(* many, and their votes are numbers.                                      *)
LEMMA FormsFinite ==
  ASSUME NEW c \in Corpora
  PROVE  /\ IsFiniteSet(SeedForms) /\ SeedForms # {} /\ SeedForms \subseteq Forms(c)
         /\ IsFiniteSet(Forms(c)) /\ Cardinality(Forms(c)) \in Nat
         /\ Cardinality(SeedForms) <= Cardinality(Forms(c))
<1>1. IsFiniteSet(SeedForms) /\ SeedForms # {}
  <2> DEFINE h == [b \in Base |-> b.form]
  <2>1. DOMAIN h = Base /\ SeedForms = {h[b] : b \in Base} /\ h = [b \in Base |-> h[b]]
    BY DEF SeedForms
  <2>2. Base # {} /\ IsFiniteSet(Base)
    BY InputAssumption
  <2> HIDE DEF h
  <2> QED BY <2>1, <2>2, FiniteImage
<1>2. IsFiniteSet(Promoted(c))
  <2>1. Promoted(c) \in SUBSET DOMAIN c /\ IsFiniteSet(DOMAIN c)
    BY InputAssumption DEF Promoted
  <2> QED BY <2>1, FS_Subset
<1>3. IsFiniteSet(Forms(c)) /\ SeedForms \in SUBSET Forms(c)
  BY <1>1, <1>2, FS_Union DEF Forms
<1> QED BY <1>1, <1>3, FS_Subset, FS_CardinalityType

LEMMA VotesAre ==
  ASSUME NEW c \in Corpora, NEW f, NEW l
  PROVE  LET n == Cardinality(Supporters(f, l)) IN
         /\ n \in Nat /\ (n = 0 <=> Supporters(f, l) = {})
         /\ \/ Votes(c, f, l) = 1000 * n
            \/ /\ f \in DOMAIN c /\ c[f] \in Nat
               /\ Votes(c, f, l) = 1000 * n + c[f]
<1> DEFINE n == Cardinality(Supporters(f, l))
<1>1. IsFiniteSet(Base) /\ \A g \in DOMAIN c : c[g] \in Nat
  BY InputAssumption
<1>2. n \in Nat /\ (n = 0 <=> Supporters(f, l) = {})
  <2>1. Supporters(f, l) \in SUBSET Base
    BY DEF Supporters
  <2>2. IsFiniteSet(Supporters(f, l))
    BY <1>1, <2>1, FS_Subset
  <2> QED BY <2>2, FS_CardinalityType, FS_EmptySet
<1> HIDE DEF n
<1>3. CASE f \in Promoted(c) /\ l = Canonical(f, f)
  <2>1. f \in DOMAIN c /\ c[f] \in Nat
    BY <1>1, <1>3 DEF Promoted
  <2>2. Votes(c, f, l) = 1000 * n + c[f]
    BY <1>3 DEF Votes, SeedVotes, n
  <2> QED BY <1>2, <2>1, <2>2 DEF n
<1>4. CASE ~(f \in Promoted(c) /\ l = Canonical(f, f))
  <2>1. Votes(c, f, l) = 1000 * n + 0
    BY <1>4 DEF Votes, SeedVotes, n
  <2> QED BY <1>2, <2>1 DEF n
<1> QED BY <1>3, <1>4

LEMMA OptionsAre ==
  ASSUME NEW c \in Corpora, NEW f \in Forms(c)
  PROVE  /\ IsFiniteSet(Options(c, f)) /\ Options(c, f) # {} /\ Options(c, f) \subseteq Words
         /\ \A l \in Options(c, f) : Votes(c, f, l) \in Nat /\ FormRank[l] \in Int
<1> DEFINE S == {b \in Base : b.form = f}
           T == {Canonical(f, b.lemma) : b \in S}
           U == IF f \in Promoted(c) THEN {Canonical(f, f)} ELSE {}
<1>1. Options(c, f) = T \cup U
  BY DEF Options
<1>2. IsFiniteSet(S)
  <2>1. S \in SUBSET Base /\ IsFiniteSet(Base)
    BY InputAssumption
  <2> HIDE DEF S
  <2> QED BY <2>1, FS_Subset
<1>3. IsFiniteSet(T)
  <2> DEFINE h == [b \in S |-> Canonical(f, b.lemma)]
  <2>1. DOMAIN h = S /\ T = {h[b] : b \in S} /\ h = [b \in S |-> h[b]]
    OBVIOUS
  <2> HIDE DEF h, S, T
  <2> QED BY <1>2, <2>1, FiniteImage
<1>4. IsFiniteSet(U)
  BY FS_EmptySet, FS_Singleton
<1>5. T \cup U # {}
  <2>1. CASE f \in SeedForms
    BY <2>1 DEF SeedForms
  <2>2. CASE f \in Promoted(c)
    BY <2>2
  <2> QED BY <2>1, <2>2 DEF Forms
<1>6. T \subseteq Words
  <2> SUFFICES ASSUME NEW b \in Base PROVE Canonical(f, b.lemma) \in Words
    OBVIOUS
  <2> QED BY DEF Canonical, Words
<1>7. U \subseteq Words
  <2> SUFFICES ASSUME f \in Promoted(c) PROVE Canonical(f, f) \in Words
    OBVIOUS
  <2>1. f \in UNION {DOMAIN d : d \in Corpora}
    BY DEF Promoted
  <2> QED BY <2>1 DEF Canonical, Words
<1> HIDE DEF T, U
<1>8. IsFiniteSet(Options(c, f)) /\ Options(c, f) # {} /\ Options(c, f) \subseteq Words
  BY <1>1, <1>3, <1>4, <1>5, <1>6, <1>7, FS_Union
<1>9. \A l \in Options(c, f) : Votes(c, f, l) \in Nat
  <2> TAKE l \in Options(c, f)
  <2> DEFINE n == Cardinality(Supporters(f, l))
  <2>1. /\ n \in Nat
        /\ Votes(c, f, l) = 1000 * n \/ (c[f] \in Nat /\ Votes(c, f, l) = 1000 * n + c[f])
    BY VotesAre
  <2> HIDE DEF n
  <2> QED BY <2>1
<1>10. \A l \in Options(c, f) : FormRank[l] \in Int
  BY <1>8, InputAssumption
<1> QED BY <1>8, <1>9, <1>10

(* Some option of a form is ahead of every other. *)
LEMMA WinnerIs ==
  ASSUME NEW c \in Corpora, NEW f \in Forms(c)
  PROVE  /\ Winner(c, f) \in Options(c, f)
         /\ \A k \in Options(c, f) : Votes(c, f, k) <= Votes(c, f, Winner(c, f))
<1> DEFINE S         == Options(c, f)
           v(l)      == Votes(c, f, l)
           Beats(k, l) == Ahead(v(k), FormRank[k], v(l), FormRank[l])
           R         == {p \in S \X S : Beats(p[1], p[2])}
<1>1. /\ IsFiniteSet(S) /\ S # {}
      /\ \A l \in S : v(l) \in Nat /\ FormRank[l] \in Int
      /\ \A k, l \in S : FormRank[k] = FormRank[l] => k = l
  BY OptionsAre, InputAssumption
<1>2. Winner(c, f) = CHOOSE l \in S : \A k \in S \ {l} : Beats(l, k)
  BY DEF Winner
<1>3. \A k, l \in S : <<k, l>> \in R <=> Beats(k, l)
  OBVIOUS
<1> HIDE DEF S, v, R
<1>4. IsOrder(R, S)
  BY <1>1, <1>3 DEF IsOrder, Ahead
<1>5. Cardinality(S) \in Nat \ {0}
  BY <1>1, FS_CardinalityType, FS_EmptySet
<1>6. 1 \in 1..Cardinality(S)
  BY <1>5
<1>7. PICK l \in S : Cardinality({k \in S \ {l} : <<k, l>> \in R}) = 1 - 1
  BY <1>1, <1>4, <1>6, SomeoneInEveryPlace
<1>8. \A k \in S \ {l} : <<k, l>> \notin R
  <2> DEFINE T == {k \in S \ {l} : <<k, l>> \in R}
  <2>1. T \in SUBSET S
    OBVIOUS
  <2>2. Cardinality(T) = 0
    BY <1>7
  <2> HIDE DEF T
  <2>3. T = {}
    BY <1>1, <2>1, <2>2, FS_Subset, FS_EmptySet
  <2> QED BY <2>3 DEF T
<1>9. \A k \in S \ {l} : Beats(l, k)
  BY <1>3, <1>4, <1>8 DEF IsOrder
<1> HIDE DEF Beats
<1>10. Winner(c, f) \in S /\ \A k \in S \ {Winner(c, f)} : Beats(Winner(c, f), k)
  BY <1>2, <1>9
<1>11. \A k \in S : v(k) <= v(Winner(c, f))
  BY <1>1, <1>10 DEF Beats, Ahead
<1> QED BY <1>10, <1>11 DEF S, v

(* A seed form that the corpus has less than a thousand times keeps a lemma *)
(* of the seed.                                                            *)
LEMMA SeedWins ==
  ASSUME NEW c \in Corpora, NEW f \in SeedForms, ~(f \in DOMAIN c /\ c[f] >= SeedVotes)
  PROVE  Supporters(f, Winner(c, f)) # {}
<1> DEFINE w == Winner(c, f)
<1>1. PICK b \in Base : b.form = f
  BY DEF SeedForms
<1> DEFINE k == Canonical(f, b.lemma)
<1>2. f \in Forms(c)
  BY DEF Forms
<1>3. k \in Options(c, f) /\ b \in Supporters(f, k)
  BY <1>1 DEF Options, Supporters
<1>4. Votes(c, f, k) <= Votes(c, f, w) /\ Votes(c, f, k) \in Nat /\ Votes(c, f, w) \in Nat
  BY <1>2, <1>3, WinnerIs, OptionsAre
<1> HIDE DEF k, w
<1>5. Votes(c, f, k) >= 1000
  <2> DEFINE n == Cardinality(Supporters(f, k))
  <2>1. /\ n \in Nat /\ n # 0
        /\ Votes(c, f, k) = 1000 * n \/ (c[f] \in Nat /\ Votes(c, f, k) = 1000 * n + c[f])
    BY <1>3, VotesAre
  <2> HIDE DEF n
  <2> QED BY <2>1
<1>6. Supporters(f, w) # {}
  <2> DEFINE n == Cardinality(Supporters(f, w))
             m == c[f]
  <2>1. /\ n = 0 <=> Supporters(f, w) = {}
        /\ Votes(c, f, w) = 1000 * n
             \/ (f \in DOMAIN c /\ m \in Nat /\ Votes(c, f, w) = 1000 * n + m)
    BY VotesAre
  <2>2. ~(f \in DOMAIN c /\ m >= 1000)
    BY DEF SeedVotes
  <2> HIDE DEF n, m
  <2>3. n # 0
    BY <1>4, <1>5, <2>1, <2>2
  <2> QED BY <2>1, <2>3
<1> QED BY <1>6 DEF w

(* Every lemma that is used has a meaning. *)
LEMMA MeaningIs ==
  ASSUME NEW c \in Corpora, NEW f \in Forms(c), NEW l \in Options(c, f)
  PROVE  Sem(c, l) # {}
<1>1. CASE \E b \in Base : l = Canonical(f, b.lemma)
  <2>1. \E b \in Base : b.lemma = l
    BY <1>1, OverridesAreSeedLemmas DEF Canonical
  <2> QED BY <2>1 DEF Sem
<1>2. CASE f \in Promoted(c) /\ l = Canonical(f, f)
  <2>1. GuessSem[l] # {}
    BY OptionsAre, InputAssumption
  <2> QED BY <1>2, <2>1 DEF Sem
<1> QED BY <1>1, <1>2 DEF Options

-----------------------------------------------------------------------------
(* What a build that ran to its end leaves is what it set out to write, and *)
(* it had no more forms than the cap, or it would have died in the first    *)
(* file.                                                                   *)
Delivered(c) ==
  \E d \in 0..5 :
    /\ Len(writing) = 5 - d
    /\ \A i \in 1..Len(writing) :
         writing[i] = <<Outputs[d + i], Contents(c)[Outputs[d + i]]>>
    /\ \A i \in 1..d : fate[Outputs[i]] = "whole" /\ lexicon[Outputs[i]] = Contents(c)[Outputs[i]]
    /\ d # 0 => Cardinality(Forms(c)) <= Cap

InputInv ==
  /\ corpus \in Corpora
  /\ DOMAIN lexicon = ToSet(Outputs) /\ DOMAIN fate = ToSet(Outputs)
  /\ \E S : writing \in Seq(S)
  /\ output = <<>> => writing = <<>>
  /\ output # <<>> => \E c \in Corpora : output = <<c>> /\ Delivered(c)

LEMMA OutputFacts ==
  /\ Len(Outputs) = 5 /\ DOMAIN Outputs = 1..5
  /\ ToSet(Outputs) = {Outputs[i] : i \in 1..5}
  /\ \A i, j \in 1..5 : Outputs[i] = Outputs[j] => i = j
  /\ \A i \in 1..5 : Outputs[i] = "json" <=> i = 1
<1>1. /\ Outputs[1] = "json" /\ Outputs[2] = "haskell" /\ Outputs[3] = "coverage"
      /\ Outputs[4] = "collisions" /\ Outputs[5] = "unknown"
      /\ Len(Outputs) = 5 /\ DOMAIN Outputs = 1..5
  <2>1. Outputs = <<"json", "haskell", "coverage", "collisions", "unknown">>
    BY DEF Outputs
  <2> QED BY <2>1
<1>2. ToSet(Outputs) = {Outputs[i] : i \in 1..5}
  BY <1>1 DEF ToSet
<1>3. \A i \in 1..5 : i = 1 \/ i = 2 \/ i = 3 \/ i = 4 \/ i = 5
  OBVIOUS
<1>4. \A i, j \in 1..5 : Outputs[i] = Outputs[j] => i = j
  BY <1>1, <1>3
<1>5. \A i \in 1..5 : Outputs[i] = "json" <=> i = 1
  BY <1>1, <1>4
<1> QED BY <1>1, <1>2, <1>4, <1>5

LEMMA InputInitOK == InputInit => InputInv
<1>1. <<>> \in Seq({})
  OBVIOUS
<1> QED BY <1>1 DEF InputInit, InputInv

LEMMA BuildLexiconStep ==
  ASSUME InputInv, BuildLexicon
  PROVE  InputInv'
<1> DEFINE w == [i \in DOMAIN Outputs |-> <<Outputs[i], Contents(corpus)[Outputs[i]]>>]
<1>1. /\ writing' = w /\ output' = <<corpus>> /\ UNCHANGED <<corpus, lexicon, fate>>
  BY DEF BuildLexicon
<1>2. w \in Seq({w[i] : i \in 1..5}) /\ Len(w) = 5
  BY OutputFacts
<1>3. \A i \in 1..5 : w[i] = <<Outputs[0 + i], Contents(corpus)[Outputs[0 + i]]>>
  BY OutputFacts
<1> HIDE DEF w
<1>4. Delivered(corpus)'
  BY <1>1, <1>2, <1>3 DEF Delivered
<1>5. output' # <<>>
  BY <1>1
<1> QED BY <1>1, <1>2, <1>4, <1>5 DEF InputInv

LEMMA WriteOutputStep ==
  ASSUME InputInv, WriteOutput
  PROVE  InputInv'
<1> DEFINE file == Head(writing)[1]
<1>1. PICK S : writing \in Seq(S)
  BY DEF InputInv
<1>2. /\ writing # <<>> /\ writing' = Tail(writing) /\ ~Unwritable
      /\ lexicon' = [lexicon EXCEPT ![file] = Head(writing)[2]]
      /\ fate' = [fate EXCEPT ![file] = "whole"]
      /\ UNCHANGED <<corpus, output>>
  BY DEF WriteOutput
<1>3. PICK c \in Corpora : output = <<c>> /\ Delivered(c)
  BY <1>2 DEF InputInv
<1> DEFINE W == Contents(c)
<1>4. PICK d \in 0..5 :
        /\ Len(writing) = 5 - d
        /\ \A i \in 1..Len(writing) : writing[i] = <<Outputs[d + i], W[Outputs[d + i]]>>
        /\ \A i \in 1..d : fate[Outputs[i]] = "whole" /\ lexicon[Outputs[i]] = W[Outputs[i]]
        /\ d # 0 => Cardinality(Forms(c)) <= Cap
  BY <1>3 DEF Delivered
<1> HIDE DEF W
<1>5. /\ writing' \in Seq(S) /\ Len(writing) \in Nat \ {0} /\ Len(writing') = Len(writing) - 1
      /\ Head(writing) = writing[1]
      /\ \A i \in 1..Len(writing') : writing'[i] = writing[i + 1]
  BY <1>1, <1>2
<1>6. d + 1 \in 1..5 /\ 1 \in 1..Len(writing)
  BY <1>4, <1>5
<1>7. file = Outputs[d + 1] /\ Head(writing)[2] = W[Outputs[d + 1]]
  <2>1. writing[1] = <<Outputs[d + 1], W[Outputs[d + 1]]>>
    BY <1>4, <1>6
  <2> QED BY <1>5, <2>1
<1>8. Cardinality(Forms(c)) <= Cap
  <2>1. CASE d # 0
    BY <1>4, <2>1
  <2>2. CASE d = 0
    <3>1. file = "json"
      BY <1>6, <1>7, <2>2, OutputFacts
    <3>2. ~(Cardinality(Forms(c)) > Cap)
      <4>1. output[1] = c
        BY <1>3
      <4> QED BY <1>2, <3>1, <4>1, FormsFinite DEF Unwritable
    <3>3. Cardinality(Forms(c)) \in Nat /\ Cap \in Nat
      BY FormsFinite, InputAssumption
    <3> QED BY <3>2, <3>3
  <2> QED BY <2>1, <2>2
<1>9. file \in ToSet(Outputs)
  BY <1>6, <1>7, OutputFacts
<1> HIDE DEF file
<1>10. /\ DOMAIN lexicon' = ToSet(Outputs) /\ DOMAIN fate' = ToSet(Outputs)
       /\ \A o \in ToSet(Outputs) :
            /\ fate'[o] = IF o = file THEN "whole" ELSE fate[o]
            /\ lexicon'[o] = IF o = file THEN W[file] ELSE lexicon[o]
  BY <1>2, <1>7 DEF InputInv
<1>11. \A i \in 1..(d + 1) : fate'[Outputs[i]] = "whole" /\ lexicon'[Outputs[i]] = W[Outputs[i]]
  <2> TAKE i \in 1..(d + 1)
  <2>1. Outputs[i] \in ToSet(Outputs)
    BY <1>6, OutputFacts
  <2>2. i = d + 1 \/ i \in 1..d
    OBVIOUS
  <2> QED BY <1>4, <1>7, <1>10, <2>1, <2>2
<1>12. \A i \in 1..Len(writing') :
         writing'[i] = <<Outputs[(d + 1) + i], W[Outputs[(d + 1) + i]]>>
  <2> TAKE i \in 1..Len(writing')
  <2>1. i + 1 \in 1..Len(writing) /\ d + (i + 1) = (d + 1) + i
    BY <1>4, <1>5
  <2> QED BY <1>4, <1>5, <2>1
<1>13. d + 1 \in 0..5 /\ Len(writing') = 5 - (d + 1) /\ d + 1 # 0
  BY <1>4, <1>5, <1>6
<1>14. Delivered(c)'
  <2>1. \E e \in 0..5 :
          /\ Len(writing') = 5 - e
          /\ \A i \in 1..Len(writing') : writing'[i] = <<Outputs[e + i], W[Outputs[e + i]]>>
          /\ \A i \in 1..e : fate'[Outputs[i]] = "whole" /\ lexicon'[Outputs[i]] = W[Outputs[i]]
          /\ e # 0 => Cardinality(Forms(c)) <= Cap
    BY <1>8, <1>11, <1>12, <1>13
  <2> QED BY <2>1 DEF Delivered, W
<1>15. output' # <<>> /\ output' = <<c>>
  BY <1>2, <1>3
<1> QED BY <1>2, <1>5, <1>10, <1>14, <1>15 DEF InputInv

LEMMA InputNextOK ==
  ASSUME InputInv, [InputNext]_inputVars
  PROVE  InputInv'
<1>1. CASE NewCorpus
  <2>1. corpus' \in Corpora /\ UNCHANGED <<lexicon, fate, output, writing>>
    BY <1>1 DEF NewCorpus
  <2> QED BY <2>1 DEF InputInv, Delivered
<1>2. CASE BuildDies
  <2>1. output' = <<>> /\ writing' = <<>> /\ <<>> \in Seq({}) /\ UNCHANGED <<corpus, lexicon>>
    BY <1>2 DEF BuildDies
  <2>2. DOMAIN fate' = ToSet(Outputs)
    BY <1>2 DEF BuildDies, InputInv
  <2> QED BY <2>1, <2>2 DEF InputInv
<1>3. CASE UNCHANGED inputVars
  BY <1>3 DEF inputVars, InputInv, Delivered
<1> QED BY <1>1, <1>2, <1>3, BuildLexiconStep, WriteOutputStep DEF InputNext

-----------------------------------------------------------------------------
(* The tables that a corpus leads to. *)
LEMMA TablesAre ==
  ASSUME NEW c \in Corpora, Cardinality(Forms(c)) <= Cap
  PROVE  LET t == Tables(c) IN
         /\ DOMAIN t.forms = Forms(c) /\ Kept(c) = Forms(c)
         /\ \A f \in Forms(c) : t.forms[f] = Winner(c, f)
         /\ Lemmas(c) = {Winner(c, f) : f \in Forms(c)} /\ Range(t.forms) = Lemmas(c)
         /\ DOMAIN t.pos = Lemmas(c) /\ DOMAIN t.sem = Lemmas(c)
         /\ \A l \in Lemmas(c) : t.sem[l] = Sem(c, l)
<1>1. Kept(c) = Forms(c)
  BY DEF Kept
<1>2. FormToLemma(c) = [f \in Forms(c) |-> Winner(c, f)]
  BY <1>1 DEF FormToLemma
<1>3. Lemmas(c) = {Winner(c, f) : f \in Forms(c)}
  BY <1>2 DEF Lemmas, Range
<1>4. /\ Tables(c).forms = FormToLemma(c) /\ Tables(c).pos = [l \in Lemmas(c) |-> Pos(l)]
      /\ Tables(c).sem = [l \in Lemmas(c) |-> Sem(c, l)]
  BY DEF Tables
<1>5. Range(Tables(c).forms) = Lemmas(c)
  BY <1>4 DEF Lemmas
<1> QED BY <1>1, <1>2, <1>3, <1>4, <1>5

LEMMA CheckAccepts ==
  ASSUME NEW c \in Corpora, Cardinality(Forms(c)) <= Cap,
         \A f \in SeedForms : ~(f \in DOMAIN c /\ c[f] >= SeedVotes),
         Cardinality(Lemmas(c)) >= LeastLemmas,
         \A o \in ToSet(Outputs) : fate[o] = "whole" /\ lexicon[o] = Contents(c)[o]
  PROVE  Acceptable
<1> DEFINE t == Tables(c)
<1>1. {"json", "haskell", "coverage", "collisions"} \subseteq ToSet(Outputs)
  <2>1. /\ Outputs[1] = "json" /\ Outputs[2] = "haskell" /\ Outputs[3] = "coverage"
        /\ Outputs[4] = "collisions"
    BY DEF Outputs
  <2> QED BY <2>1, OutputFacts
<1>2. /\ lexicon["json"] = t /\ lexicon["haskell"] = t
      /\ lexicon["coverage"] = [forms |-> Cardinality(Kept(c)), lemmas |-> Cardinality(Lemmas(c))]
      /\ lexicon["collisions"] = Cardinality(Collided(c))
  BY <1>1 DEF Contents
<1>3. Sizes(t)[1] = Cardinality(Forms(c)) /\ Sizes(t)[2] = Cardinality(Lemmas(c))
  BY TablesAre DEF Sizes
<1>4. Cardinality(Forms(c)) >= LeastForms
  <2>1. LeastForms <= Cardinality(SeedForms) /\ LeastForms \in Nat
    BY InputAssumption
  <2>2. Cardinality(SeedForms) \in Nat /\ Cardinality(Forms(c)) \in Nat
    BY FormsFinite, FS_CardinalityType
  <2> QED BY <2>1, <2>2, FormsFinite
<1>5. RequiredForms \subseteq DOMAIN t.forms
  BY TablesAre, FormsFinite, InputAssumption
<1>6. RequiredLemmas \subseteq DOMAIN t.pos
  <2> SUFFICES ASSUME NEW l \in RequiredLemmas PROVE l \in Lemmas(c)
    BY TablesAre
  <2>1. PICK f \in SeedForms : \A b \in Base : b.form = f => Canonical(f, b.lemma) = l
    BY InputAssumption
  <2>2. PICK b \in Supporters(f, Winner(c, f)) : TRUE
    BY SeedWins
  <2>3. Winner(c, f) = l
    BY <2>1, <2>2 DEF Supporters
  <2>4. f \in Forms(c)
    BY FormsFinite
  <2> QED BY <2>3, <2>4, TablesAre
<1>7. Closed(t)
  <2>1. \A l \in Lemmas(c) : Sem(c, l) # {}
    BY TablesAre, WinnerIs, MeaningIs
  <2> QED BY <2>1, TablesAre DEF Closed
<1>8. Cardinality(Collided(c)) <= Cardinality(Forms(c))
  <2>1. Collided(c) \in SUBSET Forms(c)
    BY DEF Collided
  <2> QED BY <2>1, FormsFinite, FS_Subset
<1>9. Kept(c) = Forms(c)
  BY TablesAre
<1> HIDE DEF t
<1>10. \A o \in ToSet(Outputs) : fate[o] # "torn"
  OBVIOUS
<1>11. fate["json"] = "whole" /\ fate["haskell"] = "whole"
  BY <1>1
<1>12. lexicon["coverage"] = [forms |-> Sizes(t)[1], lemmas |-> Sizes(t)[2]]
  BY <1>2, <1>3, <1>9
<1> QED BY <1>2, <1>3, <1>4, <1>5, <1>6, <1>7, <1>8, <1>10, <1>11, <1>12 DEF Acceptable

LEMMA InputFollows ==
  ASSUME InputInv
  PROVE  FinishedBuildIsAccepted
<1> SUFFICES ASSUME output # <<>>, writing = <<>>
             PROVE  LET c == output[1]
                        t == lexicon["haskell"]
                        Overruled(f) == f \in DOMAIN c /\ c[f] >= SeedVotes IN
                    /\ (\A f \in SeedForms : ~Overruled(f)) /\ Cardinality(Lemmas(c)) >= LeastLemmas
                         => Acceptable
                    /\ \A f \in SeedForms : f \in DOMAIN t.forms
                         /\ (Overruled(f) \/ Supporters(f, t.forms[f]) # {})
  BY Zenon DEF FinishedBuildIsAccepted
<1>1. PICK c \in Corpora : output = <<c>> /\ Delivered(c)
  BY DEF InputInv
<1>2. output[1] = c
  BY <1>1
<1>3. /\ \A i \in 1..5 : fate[Outputs[i]] = "whole" /\ lexicon[Outputs[i]] = Contents(c)[Outputs[i]]
      /\ Cardinality(Forms(c)) <= Cap
  <2>1. Len(writing) = 0
    OBVIOUS
  <2>2. PICK d \in 0..5 :
          /\ Len(writing) = 5 - d
          /\ \A i \in 1..d : fate[Outputs[i]] = "whole" /\ lexicon[Outputs[i]] = Contents(c)[Outputs[i]]
          /\ d # 0 => Cardinality(Forms(c)) <= Cap
    BY <1>1 DEF Delivered
  <2>3. d = 5
    BY <2>1, <2>2
  <2> QED BY <2>2, <2>3
<1>4. \A o \in ToSet(Outputs) : fate[o] = "whole" /\ lexicon[o] = Contents(c)[o]
  BY <1>3, OutputFacts
<1>5. lexicon["haskell"] = Tables(c)
  <2>1. Outputs[2] = "haskell"
    BY DEF Outputs
  <2>2. "haskell" \in ToSet(Outputs)
    BY <2>1, OutputFacts
  <2> QED BY <1>4, <2>2 DEF Contents
<1>6. (\A f \in SeedForms : ~(f \in DOMAIN c /\ c[f] >= SeedVotes))
        /\ Cardinality(Lemmas(c)) >= LeastLemmas => Acceptable
  BY <1>3, <1>4, CheckAccepts
<1>7. \A f \in SeedForms :
        /\ f \in DOMAIN Tables(c).forms
        /\ (f \in DOMAIN c /\ c[f] >= SeedVotes) \/ Supporters(f, Tables(c).forms[f]) # {}
  <2> TAKE f \in SeedForms
  <2>1. f \in DOMAIN Tables(c).forms /\ Tables(c).forms[f] = Winner(c, f)
    BY <1>3, TablesAre, FormsFinite
  <2> QED BY <2>1, SeedWins
<1> QED BY <1>2, <1>5, <1>6, <1>7

(* A build that ran to its end satisfies its own check, and no form of the  *)
(* seed loses its lemma to fewer than a thousand occurrences, for any       *)
(* corpora and whatever was built or interrupted before                     *)
(* (build_input_lexicon.py main, check_input_lexicon.py main).              *)
THEOREM SpecFinishedBuildIsAccepted == InputSpec => []FinishedBuildIsAccepted
<1>1. InputInv /\ [InputNext]_inputVars => InputInv'
  BY InputNextOK
<1> QED BY InputInitOK, <1>1, InputFollows, PTL DEF InputSpec

-----------------------------------------------------------------------------
(* The audit.                                                              *)
PromptSet == {Prompts[i] : i \in DOMAIN Prompts}
Inputs    == PromptSet \cup {"shutdown"}
Plans     == [cohort : {"surface", "canary", "control"}, gf : BOOLEAN, index : Nat,
              prompts : Seq(PromptSet)]
Turns     == [session : Nat, turn : Nat, was : Outcomes]
Lines     == {"bootstrap", "phases"} \X Nat
Replies   == [status : {"ok"}, turns : Nat, surface : {t.surface : t \in Outcomes},
              slow : {t.slow : t \in Outcomes}]
               \cup [status : {"error", "bye"}]
Processes == [state : {"none", "booting", "ready", "dead"}, input : Seq(Inputs),
              stdout : Seq(Replies), stderr : Seq(Lines), queue : Seq(Replies),
              log : Seq(Lines), turn : Nat]

Between  == {"witness", "open"}
Serving  == {"boot", "send", "answer", "phase", "trace", "unwind", "unwinding", "closing",
             "closed", "unwound"}

AuditTypes ==
  /\ mode \in ModesOfAudit /\ step \in Between \cup Serving \cup Verdicts
  /\ agenda \in Seq(Plans) /\ done \in Seq(Turns) /\ worker \in Processes
  /\ \E S : audited \in Seq(S)
  /\ step \in Serving => agenda # <<>>

(* A worker writes its lines in order: the first when it is up, one more   *)
(* for every turn.                                                         *)
LineAt(i) == IF i = 1 THEN <<"bootstrap", 0>> ELSE <<"phases", i - 1>>
Reported(w) == Len(w.log) + Len(w.stderr)
LogInv ==
  /\ \A i \in 1..Len(worker.log) : worker.log[i] = LineAt(i)
  /\ \A i \in 1..Len(worker.stderr) : worker.stderr[i] = LineAt(Len(worker.log) + i)
  /\ IF Reported(worker) = 0 THEN worker.turn = 0 /\ worker.state # "ready"
     ELSE Reported(worker) = worker.turn + 1 /\ worker.state # "booting"

(* What the pipes hold at each step, and which turns are audited yet.      *)
LastDone    == done[Len(done)]
NoInput     == Len(worker.input) = 0
NoReply     == Len(worker.stdout) = 0 /\ Len(worker.queue) = 0
OneReply(r) == \/ Len(worker.stdout) = 1 /\ Len(worker.queue) = 0 /\ worker.stdout[1] = r
               \/ Len(worker.stdout) = 0 /\ Len(worker.queue) = 1 /\ worker.queue[1] = r
OkReply     == [status |-> "ok", turns |-> worker.turn, surface |-> LastDone.was.surface,
                slow |-> LastDone.was.slow]
AllAudited  == Len(done) = Len(audited)
OneToAudit  == /\ Len(done) = Len(audited) + 1
               /\ LastDone.session = agenda[1].index /\ LastDone.turn = worker.turn

Waiting  == Len(worker.input) = 1 /\ NoReply /\ AllAudited /\ cursor = worker.turn + 1
Answered == NoInput /\ OneToAudit /\ OneReply(OkReply) /\ cursor = worker.turn
Refused  == NoInput /\ \E s \in {"error", "bye"} : OneReply([status |-> s])

PipeInv ==
  /\ step \in Between \cup Verdicts => worker = NoWorker
  /\ step \in Between \cup {"boot", "send", "closing", "closed"} => AllAudited
  /\ step \in {"boot", "send"} => NoInput /\ NoReply
  /\ step = "boot" => worker.turn = 0
  /\ step \in {"send", "trace"} => Len(worker.log) = worker.turn + 1
  /\ step = "answer" => Waiting \/ Answered \/ Refused
  /\ step \in {"phase", "trace"} =>
       NoInput /\ NoReply /\ OneToAudit /\ reply = OkReply /\ cursor = worker.turn
  /\ step = "closing" => \A i \in 1..Len(worker.input) : worker.input[i] = "shutdown"
  /\ step = "closed" => worker.state = "dead"

(* No turn of a session that is still to run is done; those of the one     *)
(* that runs are numbered, the last of them last.                          *)
DoneInv ==
  /\ \A i, j \in 1..Len(agenda) : agenda[i].index = agenda[j].index => i = j
  /\ step \in Between \cup Serving =>
       \A i \in 1..Len(agenda), k \in 1..Len(done) : done[k].session = agenda[i].index =>
         /\ i = 1 /\ step \in Serving /\ done[k].turn \in 1..worker.turn
         /\ done[k].turn = worker.turn => k = Len(done)

(* An audit says what was done, in the same place of its list, and the     *)
(* cohorts with GF are those the verdict looks at.                         *)
Audits(a, x) ==
  /\ a.session = x.session /\ a.turn = x.turn /\ a.phases = a.turn
  /\ a.output = x.was.surface.text /\ a.slow = x.was.slow
  /\ a.canonical = IsCanonical(x.was.trace) /\ a.fallback = x.was.trace.fallback
  /\ a.issues = x.was.surface.faults
  /\ a.substitutions = Substitutions(x.was.surface, x.was.trace)
AuditedInv ==
  /\ Len(audited) <= Len(done)
  /\ \A k \in 1..Len(audited) : /\ Audits(audited[k], done[k])
                                /\ audited[k].gf <=> audited[k].cohort \in Relevant
  /\ \A i \in 1..Len(agenda) : agenda[i].gf <=> agenda[i].cohort \in Relevant

AuditInv == AuditTypes /\ LogInv /\ PipeInv /\ DoneInv /\ AuditedInv /\ PassIsEarned

LEMMA Pushed ==
  ASSUME NEW S, NEW s \in Seq(S), NEW e \in S
  PROVE  /\ Append(s, e) \in Seq(S) /\ Len(s) \in Nat /\ Len(Append(s, e)) = Len(s) + 1
         /\ \A i \in 1..Len(s) : Append(s, e)[i] = s[i]
         /\ Append(s, e)[Len(s) + 1] = e
BY AppendProperties, LenProperties

LEMMA Popped ==
  ASSUME NEW S, NEW s \in Seq(S), s # <<>>
  PROVE  /\ Tail(s) \in Seq(S) /\ Len(s) \in Nat \ {0} /\ Len(Tail(s)) = Len(s) - 1
         /\ Head(s) \in S /\ Head(s) = s[1]
         /\ \A i \in 1..(Len(s) - 1) : Tail(s)[i] = s[i + 1]
BY HeadTailProperties, EmptySeq

LEMMA SumIsZero == \A a, b \in Nat : a + b = 0 => a = 0 /\ b = 0
OBVIOUS

(* The worker as the step sees it. *)
LEMMA WorkerFields ==
  ASSUME AuditTypes
  PROVE  /\ worker.state \in {"none", "booting", "ready", "dead"}
         /\ worker.input \in Seq(Inputs) /\ worker.stdout \in Seq(Replies)
         /\ worker.stderr \in Seq(Lines) /\ worker.queue \in Seq(Replies)
         /\ worker.log \in Seq(Lines) /\ worker.turn \in Nat
         /\ Len(worker.input) \in Nat /\ Len(worker.stdout) \in Nat /\ Len(worker.stderr) \in Nat
         /\ Len(worker.queue) \in Nat /\ Len(worker.log) \in Nat
         /\ Len(agenda) \in Nat /\ Len(done) \in Nat /\ Len(audited) \in Nat
<1>1. worker \in Processes
  BY DEF AuditTypes
<1>2. /\ worker.input \in Seq(Inputs) /\ worker.stdout \in Seq(Replies)
      /\ worker.stderr \in Seq(Lines) /\ worker.queue \in Seq(Replies)
      /\ worker.log \in Seq(Lines) /\ worker.turn \in Nat
      /\ worker.state \in {"none", "booting", "ready", "dead"}
  BY <1>1 DEF Processes
<1>3. PICK S : audited \in Seq(S)
  BY DEF AuditTypes
<1>4. Len(audited) \in Nat
  BY <1>3, LenProperties
<1>5. Len(agenda) \in Nat /\ Len(done) \in Nat
  BY LenProperties DEF AuditTypes
<1> QED BY <1>2, <1>4, <1>5, LenProperties

(* A step of the worker or of its readers that does no turn. *)
Quiet == UNCHANGED <<mode, rewrite, golden, agenda, step, cursor, reply, audited, audits, done>>
LEMMA QuietStep ==
  ASSUME AuditInv, Quiet, worker # NoWorker,
         worker' \in Processes, worker'.turn = worker.turn, LogInv', PipeInv'
  PROVE  AuditInv'
<1>1. AuditTypes'
  BY DEF AuditInv, AuditTypes, Quiet
<1>2. DoneInv'
  BY DEF AuditInv, DoneInv, Quiet
<1>3. Relevant' = Relevant
  BY DEF Relevant, Quiet
<1>4. AuditedInv'
  BY <1>3 DEF AuditInv, AuditedInv, Quiet
<1>5. step' # "passed"
  BY DEF AuditInv, PipeInv, Verdicts, Quiet
<1>6. PassIsEarned'
  BY <1>5 DEF PassIsEarned
<1> QED BY <1>1, <1>2, <1>4, <1>6 DEF AuditInv

LEMMA NoWorkerFields ==
  /\ NoWorker \in Processes /\ NoWorker.state = "none" /\ NoWorker.turn = 0
  /\ NoWorker.input = <<>> /\ NoWorker.stdout = <<>> /\ NoWorker.stderr = <<>>
  /\ NoWorker.queue = <<>> /\ NoWorker.log = <<>>
  /\ Process("booting") \in Processes
<1>1. \A S : <<>> \in Seq(S)
  BY EmptySeq
<1> QED BY <1>1 DEF NoWorker, Process, Processes

LEMMA WorkerBootsStep ==
  ASSUME AuditInv, WorkerBoots, Quiet
  PROVE  AuditInv'
<1>1. AuditTypes /\ LogInv /\ PipeInv
  BY DEF AuditInv
<1> DEFINE e == <<"bootstrap", 0>>
<1>2. /\ worker.state = "booting" /\ e \in Lines
      /\ worker' = [worker EXCEPT !.state = "ready", !.stderr = Append(@, e)]
  BY DEF WorkerBoots, Lines
<1>3. /\ worker'.state = "ready" /\ worker'.stderr = Append(worker.stderr, e) /\ worker'.log = worker.log
      /\ worker'.input = worker.input /\ worker'.stdout = worker.stdout /\ worker'.queue = worker.queue
      /\ worker'.turn = worker.turn /\ worker' \in Processes
  <2>1. Append(worker.stderr, e) \in Seq(Lines)
    BY <1>1, <1>2, Pushed, WorkerFields
  <2> QED BY <1>1, <1>2, <2>1 DEF AuditTypes, Processes
<1>4. Len(worker.log) = 0 /\ Len(worker.stderr) = 0 /\ worker.turn = 0
  <2>1. Reported(worker) = 0 /\ worker.turn = 0
    BY <1>1, <1>2 DEF LogInv
  <2>2. Len(worker.log) \in Nat /\ Len(worker.stderr) \in Nat
    BY <1>1, WorkerFields
  <2>3. Len(worker.log) + Len(worker.stderr) = 0
    BY <2>1 DEF Reported
  <2>4. Len(worker.log) = 0 /\ Len(worker.stderr) = 0
    BY <2>2, <2>3, SumIsZero, Zenon
  <2> QED BY <2>1, <2>4
<1>5. LogInv'
  <2>1. Len(worker'.stderr) = 1 /\ worker'.stderr[1] = e /\ Len(worker'.log) = 0
    BY <1>1, <1>2, <1>3, <1>4, Pushed, WorkerFields
  <2> QED BY <1>3, <1>4, <2>1 DEF LogInv, Reported, LineAt
<1>6. step \notin {"closed", "send", "trace"} /\ step \notin Between \cup Verdicts
  BY <1>1, <1>2, <1>4, NoWorkerFields DEF PipeInv
<1>7. PipeInv'
  BY <1>1, <1>3, <1>4, <1>6
  DEF PipeInv, Quiet, NoInput, NoReply, OneReply, OkReply, LastDone, AllAudited, OneToAudit,
      Waiting, Answered, Refused
<1> QED BY <1>2, <1>3, <1>5, <1>7, QuietStep, NoWorkerFields

LEMMA WorkerDiesStep ==
  ASSUME AuditInv, WorkerDies, Quiet
  PROVE  AuditInv'
<1>1. AuditTypes /\ LogInv /\ PipeInv
  BY DEF AuditInv
<1>2. worker.state \in {"booting", "ready"} /\ worker' = [worker EXCEPT !.state = "dead"]
  BY DEF WorkerDies
<1>3. /\ worker'.state = "dead" /\ worker'.stderr = worker.stderr /\ worker'.log = worker.log
      /\ worker'.input = worker.input /\ worker'.stdout = worker.stdout
      /\ worker'.queue = worker.queue /\ worker'.turn = worker.turn /\ worker' \in Processes
  BY <1>1, <1>2 DEF AuditTypes, Processes
<1>4. LogInv'
  BY <1>1, <1>2, <1>3 DEF LogInv, Reported
<1>5. worker # NoWorker
  BY <1>2, NoWorkerFields
<1>6. PipeInv'
  BY <1>1, <1>3, <1>5
  DEF PipeInv, Quiet, NoInput, NoReply, OneReply, OkReply, LastDone, AllAudited, OneToAudit,
      Waiting, Answered, Refused
<1> QED BY <1>3, <1>4, <1>5, <1>6, QuietStep

LEMMA ReadStderrStep ==
  ASSUME AuditInv, ReadStderr, Quiet
  PROVE  AuditInv'
<1>1. AuditTypes /\ LogInv /\ PipeInv
  BY DEF AuditInv
<1> DEFINE err == worker.stderr
           log == worker.log
<1>2. /\ err # <<>>
      /\ worker' = [worker EXCEPT !.stderr = Tail(@), !.log = Append(@, Head(err))]
  BY DEF ReadStderr
<1>3. /\ err \in Seq(Lines) /\ log \in Seq(Lines) /\ worker.turn \in Nat
  BY <1>1, WorkerFields
<1>4. /\ Tail(err) \in Seq(Lines) /\ Len(err) \in Nat \ {0} /\ Len(Tail(err)) = Len(err) - 1
      /\ Head(err) \in Lines /\ Head(err) = err[1]
      /\ \A i \in 1..(Len(err) - 1) : Tail(err)[i] = err[i + 1]
  BY <1>2, <1>3, Popped
<1>5. /\ Append(log, Head(err)) \in Seq(Lines) /\ Len(log) \in Nat
      /\ Len(Append(log, Head(err))) = Len(log) + 1
      /\ \A i \in 1..Len(log) : Append(log, Head(err))[i] = log[i]
      /\ Append(log, Head(err))[Len(log) + 1] = Head(err)
  BY <1>3, <1>4, Pushed
<1>6. /\ worker'.state = worker.state /\ worker'.stderr = Tail(err)
      /\ worker'.log = Append(log, Head(err))
      /\ worker'.input = worker.input /\ worker'.stdout = worker.stdout
      /\ worker'.queue = worker.queue /\ worker'.turn = worker.turn /\ worker' \in Processes
  BY <1>1, <1>2, <1>4, <1>5 DEF AuditTypes, Processes
<1>7. /\ \A i \in 1..Len(log) : log[i] = LineAt(i)
      /\ \A i \in 1..Len(err) : err[i] = LineAt(Len(log) + i)
      /\ Reported(worker) = Len(log) + Len(err)
  BY <1>1 DEF LogInv, Reported
<1> HIDE DEF err, log
<1>8. Reported(worker') = Reported(worker)
  <2>1. Len(worker'.log) = Len(log) + 1 /\ Len(worker'.stderr) = Len(err) - 1
    BY <1>4, <1>5, <1>6
  <2>2. Reported(worker') = (Len(log) + 1) + (Len(err) - 1)
    BY <2>1 DEF Reported
  <2> QED BY <1>4, <1>5, <1>7, <2>2
<1>9. \A i \in 1..Len(worker'.log) : worker'.log[i] = LineAt(i)
  <2> TAKE i \in 1..Len(worker'.log)
  <2>1. CASE i \in 1..Len(log)
    BY <1>5, <1>6, <1>7, <2>1
  <2>2. CASE i = Len(log) + 1
    <3>1. err[1] = LineAt(Len(log) + 1)
      BY <1>4, <1>7
    <3> QED BY <1>4, <1>5, <1>6, <2>2, <3>1
  <2> QED BY <1>5, <1>6, <2>1, <2>2
<1>10. \A i \in 1..Len(worker'.stderr) : worker'.stderr[i] = LineAt(Len(worker'.log) + i)
  <2> TAKE i \in 1..Len(worker'.stderr)
  <2>1. i \in 1..(Len(err) - 1) /\ i + 1 \in 1..Len(err) /\ Len(worker'.log) + i = Len(log) + (i + 1)
    <3>1. i \in 1..(Len(err) - 1)
      BY <1>4, <1>6
    <3>2. Len(worker'.log) = Len(log) + 1
      BY <1>5, <1>6
    <3>3. Len(log) \in Nat /\ Len(err) \in Nat
      BY <1>4, <1>5
    <3> QED BY <3>1, <3>2, <3>3
  <2> QED BY <1>4, <1>6, <1>7, <2>1
<1>11. LogInv'
  BY <1>1, <1>6, <1>8, <1>9, <1>10 DEF LogInv
<1>12. worker # NoWorker
  BY <1>2, NoWorkerFields DEF err
<1>13. Len(err) >= 1 /\ Len(log) <= worker.turn
  BY <1>1, <1>3, <1>4, <1>5, <1>7 DEF LogInv
<1>14. step \notin {"send", "trace"} /\ step \notin Between \cup Verdicts
  BY <1>1, <1>3, <1>5, <1>12, <1>13 DEF PipeInv, log
<1>15. PipeInv'
  BY <1>1, <1>6, <1>14
  DEF PipeInv, Quiet, NoInput, NoReply, OneReply, OkReply, LastDone, AllAudited, OneToAudit,
      Waiting, Answered, Refused
<1> QED BY <1>6, <1>11, <1>12, <1>15, QuietStep

LEMMA ReadStdoutStep ==
  ASSUME AuditInv, ReadStdout, Quiet
  PROVE  AuditInv'
<1>1. AuditTypes /\ LogInv /\ PipeInv
  BY DEF AuditInv
<1> DEFINE out == worker.stdout
           que == worker.queue
<1>2. /\ out # <<>>
      /\ worker' = [worker EXCEPT !.stdout = Tail(@), !.queue = Append(@, Head(out))]
  BY DEF ReadStdout
<1>3. /\ out \in Seq(Replies) /\ que \in Seq(Replies)
  BY <1>1, WorkerFields
<1>4. /\ Tail(out) \in Seq(Replies) /\ Len(out) \in Nat \ {0} /\ Len(Tail(out)) = Len(out) - 1
      /\ Head(out) \in Replies /\ Head(out) = out[1]
  BY <1>2, <1>3, Popped
<1>5. /\ Append(que, Head(out)) \in Seq(Replies) /\ Len(que) \in Nat
      /\ Len(Append(que, Head(out))) = Len(que) + 1
      /\ Append(que, Head(out))[Len(que) + 1] = Head(out)
  BY <1>3, <1>4, Pushed
<1>6. /\ worker'.state = worker.state /\ worker'.stderr = worker.stderr
      /\ worker'.log = worker.log
      /\ worker'.input = worker.input /\ worker'.stdout = Tail(out)
      /\ worker'.queue = Append(que, Head(out)) /\ worker'.turn = worker.turn
      /\ worker' \in Processes
  BY <1>1, <1>2, <1>4, <1>5 DEF AuditTypes, Processes
<1>7. LogInv'
  BY <1>1, <1>6 DEF LogInv, Reported
<1>8. worker # NoWorker
  BY <1>2, NoWorkerFields
<1>9. Len(worker'.stdout) = Len(out) - 1 /\ Len(worker'.queue) = Len(que) + 1
  BY <1>4, <1>5, <1>6
<1>10. ~NoReply
  BY <1>4 DEF NoReply
<1>11. ASSUME NEW r, OneReply(r) PROVE OneReply(r)'
  <2>1. Len(out) = 1 /\ Len(que) = 0 /\ out[1] = r
    BY <1>4, <1>11 DEF OneReply
  <2>2. worker'.queue[1] = r /\ Len(worker'.stdout) = 0 /\ Len(worker'.queue) = 1
    BY <1>4, <1>5, <1>6, <1>9, <2>1
  <2> QED BY <2>2 DEF OneReply
<1>12. step \notin Between \cup Verdicts \cup {"boot", "send", "phase", "trace"}
  BY <1>1, <1>8, <1>10 DEF PipeInv
<1>13. Answered => Answered'
  <2>1. OkReply' = OkReply
    BY <1>6 DEF Quiet, OkReply, LastDone
  <2>2. OneReply(OkReply) => OneReply(OkReply)'
    <3>1. OneReply(OkReply) => OneReply(OkReply')
      BY <2>1
    <3> QED BY <1>11, <2>1
  <2> QED BY <1>6, <2>2 DEF Quiet, Answered, NoInput, OneToAudit, LastDone
<1>14. Refused => Refused'
  BY <1>6, <1>11 DEF Refused, NoInput
<1>15. PipeInv'
  BY <1>1, <1>6, <1>10, <1>12, <1>13, <1>14 DEF PipeInv, Quiet, Waiting, AllAudited
<1> QED BY <1>6, <1>7, <1>8, <1>15, QuietStep

(* A worker that takes a request, and stores no turn. *)
LEMMA NoTurnStep ==
  ASSUME AuditInv, Quiet, worker.state = "ready", worker.input # <<>>,
         NEW state \in {"ready", "dead"}, NEW status \in {"error", "bye"},
         Head(worker.input) = "shutdown" \/ state = "ready",
         worker' = [worker EXCEPT !.state = state, !.input = Tail(@),
                                  !.stdout = Append(@, [status |-> status])]
  PROVE  AuditInv'
<1>1. AuditTypes /\ LogInv /\ PipeInv
  BY DEF AuditInv
<1> DEFINE in  == worker.input
           out == worker.stdout
           r   == [status |-> status]
<1>2. in \in Seq(Inputs) /\ out \in Seq(Replies) /\ r \in Replies /\ Len(worker.queue) \in Nat
  BY <1>1, WorkerFields DEF Replies
<1>3. /\ Tail(in) \in Seq(Inputs) /\ Len(in) \in Nat \ {0} /\ Len(Tail(in)) = Len(in) - 1
      /\ \A i \in 1..(Len(in) - 1) : Tail(in)[i] = in[i + 1]
  BY <1>2, Popped
<1>4. /\ Append(out, r) \in Seq(Replies) /\ Len(out) \in Nat
      /\ Len(Append(out, r)) = Len(out) + 1 /\ Append(out, r)[Len(out) + 1] = r
  BY <1>2, Pushed
<1>5. /\ worker'.state = state /\ worker'.stderr = worker.stderr /\ worker'.log = worker.log
      /\ worker'.input = Tail(in) /\ worker'.stdout = Append(out, r)
      /\ worker'.queue = worker.queue /\ worker'.turn = worker.turn /\ worker' \in Processes
  BY <1>1, <1>3, <1>4 DEF AuditTypes, Processes
<1>6. LogInv'
  BY <1>1, <1>5 DEF LogInv, Reported
<1>7. worker # NoWorker /\ ~NoInput
  BY <1>3, NoWorkerFields DEF NoInput
<1>8. step \notin Between \cup Verdicts \cup {"boot", "send", "phase", "trace", "closed"}
  BY <1>1, <1>7 DEF PipeInv
<1>9. Waiting => Refused'
  <2> SUFFICES ASSUME Waiting PROVE Refused'
    OBVIOUS
  <2>1. Len(in) = 1 /\ Len(out) = 0 /\ Len(worker.queue) = 0
    BY DEF Waiting, NoReply
  <2>2. Len(worker'.input) = 0 /\ Len(worker'.stdout) = 1 /\ worker'.stdout[1] = r
        /\ Len(worker'.queue) = 0
    BY <1>3, <1>4, <1>5, <2>1
  <2>3. OneReply([status |-> status])'
    BY <2>2 DEF OneReply
  <2> QED BY <2>2, <2>3 DEF Refused, NoInput
<1>10. step = "answer" => Waiting
  BY <1>1, <1>7 DEF PipeInv, Answered, Refused
<1>11. step = "closing" => \A i \in 1..Len(worker'.input) : worker'.input[i] = "shutdown"
  <2> SUFFICES ASSUME step = "closing", NEW i \in 1..Len(worker'.input)
               PROVE  worker'.input[i] = "shutdown"
    OBVIOUS
  <2>1. i \in 1..(Len(in) - 1) /\ i + 1 \in 1..Len(in)
    BY <1>3, <1>5
  <2>2. in[i + 1] = "shutdown"
    BY <1>1, <2>1 DEF PipeInv
  <2> QED BY <1>3, <1>5, <2>1, <2>2
<1>12. PipeInv'
  BY <1>1, <1>5, <1>8, <1>9, <1>10, <1>11 DEF PipeInv, Quiet, AllAudited
<1> QED BY <1>5, <1>6, <1>7, <1>12, QuietStep

LEMMA WorkerRefusesStep ==
  ASSUME AuditInv, WorkerRefuses, Quiet
  PROVE  AuditInv'
<1>1. worker \in Processes
  BY DEF AuditInv, AuditTypes
<1>2. worker' = [worker EXCEPT !.state = "ready", !.input = Tail(@),
                               !.stdout = Append(@, [status |-> "error"])]
  BY <1>1 DEF WorkerRefuses, Processes
<1> QED BY <1>2, NoTurnStep DEF WorkerRefuses

LEMMA WorkerStopsStep ==
  ASSUME AuditInv, WorkerStops, Quiet
  PROVE  AuditInv'
BY NoTurnStep DEF WorkerStops

LEMMA WorkerTurnStep ==
  ASSUME AuditInv, NEW t \in Outcomes, WorkerTurn(t),
         UNCHANGED <<mode, rewrite, golden, agenda, step, cursor, reply, audited, audits>>
  PROVE  AuditInv'
<1>1. AuditTypes /\ LogInv /\ PipeInv /\ DoneInv /\ AuditedInv
  BY DEF AuditInv
<1> DEFINE in   == worker.input
           out  == worker.stdout
           err  == worker.stderr
           log  == worker.log
           n    == worker.turn + 1
           line == <<"phases", n>>
           r    == [status |-> "ok", turns |-> n, surface |-> t.surface, slow |-> t.slow]
           d    == [session |-> agenda[1].index, turn |-> n, was |-> t]
<1>2. /\ worker.state = "ready" /\ in # <<>> /\ Head(in) # "shutdown"
      /\ worker' = [worker EXCEPT !.input = Tail(@), !.turn = @ + 1,
                                  !.stderr = Append(@, line), !.stdout = Append(@, r)]
      /\ done' = Append(done, d)
  <2>1. Current.index = agenda[1].index
    BY DEF Current
  <2> QED BY <2>1 DEF WorkerTurn
<1>3. /\ in \in Seq(Inputs) /\ out \in Seq(Replies) /\ err \in Seq(Lines)
      /\ worker.turn \in Nat /\ n \in Nat \ {0} /\ n # worker.turn /\ n - 1 = worker.turn
      /\ Len(worker.queue) \in Nat /\ Len(log) \in Nat /\ Len(audited) \in Nat
      /\ done \in Seq(Turns) /\ agenda \in Seq(Plans) /\ Len(agenda) \in Nat
  BY <1>1, WorkerFields DEF AuditTypes
<1>4. /\ Tail(in) \in Seq(Inputs) /\ Len(in) \in Nat \ {0} /\ Len(Tail(in)) = Len(in) - 1
      /\ Head(in) = in[1]
  BY <1>2, <1>3, Popped
<1>5. step \in {"answer", "unwind", "unwinding", "unwound"}
  <2>1. worker # NoWorker /\ ~NoInput /\ worker.state # "dead"
    BY <1>2, <1>4, NoWorkerFields DEF NoInput
  <2>2. step # "closing"
    BY <1>1, <1>2, <1>4 DEF PipeInv
  <2>3. step \in Between \cup Serving \cup Verdicts
    BY <1>1 DEF AuditTypes
  <2>4. step \notin Between \cup Verdicts \cup {"boot", "send", "phase", "trace", "closed"}
    BY <1>1, <2>1 DEF PipeInv
  <2> QED BY <2>2, <2>3, <2>4 DEF Serving
<1>6. step \in Serving /\ agenda # <<>> /\ Len(agenda) >= 1 /\ agenda[1] \in Plans
      /\ step \notin Between \cup Verdicts
  <2>1. step \in Serving /\ step \notin Between \cup Verdicts
    BY <1>5 DEF Serving, Between, Verdicts
  <2>2. agenda # <<>>
    BY <1>1, <2>1 DEF AuditTypes
  <2>3. Len(agenda) \in Nat \ {0}
    BY <1>3, <2>2, EmptySeq
  <2> QED BY <1>3, <2>1, <2>2, <2>3, ElementOfSeq
<1>7. line \in Lines /\ r \in Replies /\ d \in Turns
  BY <1>3, <1>6 DEF Lines, Replies, Turns, Plans
<1> HIDE DEF line, r, d
<1>8. /\ Append(out, r) \in Seq(Replies) /\ Len(out) \in Nat
      /\ Len(Append(out, r)) = Len(out) + 1 /\ Append(out, r)[Len(out) + 1] = r
  BY <1>3, <1>7, Pushed
<1>9. /\ Append(err, line) \in Seq(Lines) /\ Len(err) \in Nat
      /\ Len(Append(err, line)) = Len(err) + 1 /\ Append(err, line)[Len(err) + 1] = line
      /\ \A i \in 1..Len(err) : Append(err, line)[i] = err[i]
  BY <1>3, <1>7, Pushed
<1>10. /\ done' \in Seq(Turns) /\ Len(done) \in Nat
       /\ Len(done') = Len(done) + 1 /\ done'[Len(done) + 1] = d
       /\ \A i \in 1..Len(done) : done'[i] = done[i]
  BY <1>2, <1>3, <1>7, Pushed
<1>11. /\ worker'.state = "ready" /\ worker'.stderr = Append(err, line)
       /\ worker'.log = log
       /\ worker'.input = Tail(in) /\ worker'.stdout = Append(out, r)
       /\ worker'.queue = worker.queue /\ worker'.turn = n /\ worker' \in Processes
  <2>1. worker \in Processes
    BY <1>1 DEF AuditTypes
  <2> QED BY <1>2, <1>3, <1>4, <1>8, <1>9, <2>1 DEF Processes
<1>12. Len(log) + Len(err) = n
  BY <1>1, <1>2 DEF LogInv, Reported
<1> HIDE DEF in, out, err, log, n
<1>13. LogInv'
  <2>1. \A i \in 1..Len(worker'.stderr) : worker'.stderr[i] = LineAt(Len(worker'.log) + i)
    <3> TAKE i \in 1..Len(worker'.stderr)
    <3>1. CASE i \in 1..Len(err)
      BY <1>1, <1>9, <1>11, <3>1 DEF LogInv, err, log
    <3>2. CASE i = Len(err) + 1
      <4>1. Len(log) + i = n + 1
        <5>1. Len(log) \in Nat /\ Len(err) \in Nat
          BY <1>1, <1>2 DEF LogInv, Reported
        <5> QED BY <1>12, <3>2, <5>1
      <4>2. LineAt(n + 1) = line
        BY <1>3 DEF LineAt, line
      <4> QED BY <1>9, <1>11, <3>2, <4>1, <4>2
    <3> QED BY <1>9, <1>11, <3>1, <3>2
  <2>2. Reported(worker') = n + 1
    <3>1. Len(worker'.log) = Len(log) /\ Len(worker'.stderr) = Len(err) + 1
      BY <1>9, <1>11
    <3>2. Reported(worker') = Len(log) + (Len(err) + 1)
      BY <3>1 DEF Reported
    <3> QED BY <1>3, <1>9, <1>12, <3>2
  <2>3. n + 1 # 0
    BY <1>3
  <2> QED BY <1>1, <1>11, <2>1, <2>2, <2>3 DEF LogInv, log
<1>14. step = "answer" => Answered'
  <2> SUFFICES ASSUME step = "answer" PROVE Answered'
    OBVIOUS
  <2>1. Waiting
    BY <1>1, <1>4 DEF PipeInv, Answered, Refused, NoInput, in
  <2>2. Len(in) = 1 /\ Len(out) = 0 /\ Len(worker.queue) = 0 /\ Len(done) = Len(audited)
        /\ cursor = n
    BY <2>1 DEF Waiting, NoReply, AllAudited, in, out, n
  <2>3. NoInput'
    BY <1>4, <1>11, <2>2 DEF NoInput
  <2>4. LastDone' = d
    BY <1>10 DEF LastDone
  <2>5. OkReply' = r
    BY <1>11, <2>4 DEF OkReply, r, d
  <2>6. Len(worker'.stdout) = 1 /\ worker'.stdout[1] = r /\ Len(worker'.queue) = 0
    BY <1>8, <1>11, <2>2
  <2>7. OneToAudit'
    <3>1. Len(done') = Len(audited') + 1
      BY <1>10, <2>2, Zenon
    <3>2. LastDone'.session = agenda'[1].index /\ LastDone'.turn = worker'.turn
      BY <1>11, <2>4 DEF d
    <3> QED BY <3>1, <3>2 DEF OneToAudit
  <2>8. OneReply(OkReply)'
    BY <2>5, <2>6 DEF OneReply
  <2> QED BY <1>11, <2>2, <2>3, <2>7, <2>8 DEF Answered
<1>15. PipeInv'
  BY <1>5, <1>6, <1>14 DEF PipeInv
<1>16. DoneInv'
  <2> SUFFICES ASSUME NEW i \in 1..Len(agenda), NEW k \in 1..Len(done'),
                      done'[k].session = agenda[i].index
               PROVE  /\ i = 1 /\ done'[k].turn \in 1..n
                      /\ done'[k].turn = n => k = Len(done')
    <3>1. DoneInv' <=>
            /\ \A i, j \in 1..Len(agenda) : agenda[i].index = agenda[j].index => i = j
            /\ step \in Between \cup Serving =>
                 \A i \in 1..Len(agenda), k \in 1..Len(done') :
                   done'[k].session = agenda[i].index =>
                     /\ i = 1 /\ step \in Serving /\ done'[k].turn \in 1..n
                     /\ done'[k].turn = n => k = Len(done')
      BY <1>11, Zenon DEF DoneInv
    <3>2. \A i, j \in 1..Len(agenda) : agenda[i].index = agenda[j].index => i = j
      BY <1>1 DEF DoneInv
    <3> QED BY <1>6, <3>1, <3>2
  <2>1. CASE k \in 1..Len(done)
    <3>1. i = 1 /\ done[k].turn \in 1..worker.turn
      BY <1>1, <1>6, <1>10, <2>1 DEF DoneInv
    <3>2. \A m \in Nat : \A x \in 1..m : x \in 1..(m + 1) /\ x # m + 1
      OBVIOUS
    <3> QED BY <1>3, <1>10, <2>1, <3>1, <3>2, Zenon DEF n
  <2>2. CASE k = Len(done) + 1
    <3>1. agenda[1].index = agenda[i].index /\ done'[k].turn = n
      BY <1>10, <2>2 DEF d
    <3>2. i = 1
      BY <1>1, <1>3, <1>6, <3>1 DEF DoneInv
    <3>3. n \in 1..n
      BY <1>3
    <3> QED BY <1>10, <2>2, <3>1, <3>2, <3>3
  <2> QED BY <1>10, <2>1, <2>2
<1>17. AuditedInv'
  <2>1. Relevant' = Relevant
    BY DEF Relevant
  <2>2. \A k \in 1..Len(audited) : k \in 1..Len(done)
    BY <1>1, <1>3, <1>10 DEF AuditedInv
  <2>3. Len(audited) <= Len(done')
    BY <1>1, <1>3, <1>10 DEF AuditedInv
  <2> QED BY <1>1, <1>10, <2>1, <2>2, <2>3 DEF AuditedInv
<1>18. AuditTypes'
  BY <1>1, <1>10, <1>11 DEF AuditTypes
<1>19. PassIsEarned'
  BY <1>5 DEF PassIsEarned
<1> QED BY <1>13, <1>15, <1>16, <1>17, <1>18, <1>19 DEF AuditInv

LEMMA WorkerStepOK ==
  ASSUME AuditInv, WorkerStep
  PROVE  AuditInv'
<1>1. CASE WorkerBoots
  BY <1>1, WorkerBootsStep DEF WorkerStep, WorkerBoots, Quiet
<1>2. ASSUME NEW t \in Outcomes, WorkerTurn(t) PROVE AuditInv'
  BY <1>2, WorkerTurnStep DEF WorkerStep
<1>3. CASE WorkerRefuses
  BY <1>3, WorkerRefusesStep DEF WorkerStep, WorkerRefuses, Quiet
<1>4. CASE WorkerStops
  BY <1>4, WorkerStopsStep DEF WorkerStep, WorkerStops, Quiet
<1>5. CASE WorkerDies
  BY <1>5, WorkerDiesStep DEF WorkerStep, WorkerDies, Quiet
<1>6. CASE ReadStdout
  BY <1>6, ReadStdoutStep DEF WorkerStep, ReadStdout, Quiet
<1>7. CASE ReadStderr
  BY <1>7, ReadStderrStep DEF WorkerStep, ReadStderr, Quiet
<1> QED BY <1>1, <1>2, <1>3, <1>4, <1>5, <1>6, <1>7 DEF WorkerStep

(* A step of the audit that audits no turn and ends no session.            *)
LEMMA SameRun ==
  ASSUME AuditInv, UNCHANGED <<agenda, audited, Keeps>>, worker' \in Processes, LogInv', PipeInv',
         \/ step' = "raised"
         \/ step' \in Between /\ step \in Between
         \/ step' \in Serving /\ agenda # <<>> /\ step \in Between
         \/ step' \in Serving /\ step \in Serving /\ worker'.turn = worker.turn
  PROVE  AuditInv'
<1>1. AuditTypes /\ DoneInv /\ AuditedInv
  BY DEF AuditInv
<1>2. step' \in {"raised"} \cup Between \cup Serving
  OBVIOUS
<1>3. AuditTypes'
  <2>1. mode' \in ModesOfAudit /\ step' \in Between \cup Serving \cup Verdicts
    BY <1>1, <1>2 DEF AuditTypes, Keeps, Verdicts
  <2>2. agenda' \in Seq(Plans) /\ done' \in Seq(Turns) /\ \E S : audited' \in Seq(S)
    BY <1>1 DEF AuditTypes, Keeps
  <2>3. step' \in Serving => agenda' # <<>>
    BY <1>1 DEF AuditTypes, Serving, Between
  <2> QED BY <2>1, <2>2, <2>3 DEF AuditTypes
<1>4. DoneInv'
  <2>1. CASE step' = "raised"
    BY <1>1, <2>1 DEF DoneInv, Between, Serving, Keeps
  <2>2. CASE step \in Between
    <3>1. \A i \in 1..Len(agenda), k \in 1..Len(done) : done[k].session # agenda[i].index
      BY <1>1, <2>2 DEF DoneInv, Between, Serving
    <3> QED BY <1>1, <3>1 DEF DoneInv, Keeps
  <2>3. CASE step' \in Serving /\ step \in Serving /\ worker'.turn = worker.turn
    BY <1>1, <2>3 DEF DoneInv, Keeps
  <2> QED BY <2>1, <2>2, <2>3
<1>5. AuditedInv'
  <2>1. Relevant' = Relevant
    BY DEF Relevant, Keeps
  <2> QED BY <1>1, <2>1 DEF AuditedInv, Keeps
<1>6. PassIsEarned'
  BY <1>2 DEF PassIsEarned, Between, Serving
<1> QED BY <1>3, <1>4, <1>5, <1>6 DEF AuditInv

LEMMA PrepareStep ==
  ASSUME AuditInv, Prepare
  PROVE  AuditInv'
<1>1. AuditTypes /\ LogInv /\ PipeInv
  BY DEF AuditInv
<1>2. /\ step = "witness" /\ step' \in {"open", "raised"}
      /\ UNCHANGED <<agenda, worker, cursor, reply, audited, Keeps>>
  BY DEF Prepare, Unwind
<1>3. LogInv'
  BY <1>1, <1>2 DEF LogInv, Reported
<1>4. PipeInv'
  BY <1>1, <1>2 DEF PipeInv, Between, Verdicts, AllAudited, Keeps
<1> QED BY <1>1, <1>2, <1>3, <1>4, SameRun DEF AuditTypes, Between

LEMMA OpenWorkerStep ==
  ASSUME AuditInv, OpenWorker
  PROVE  AuditInv'
<1>1. PipeInv
  BY DEF AuditInv
<1>2. /\ step = "open" /\ agenda # <<>> /\ worker' = Process("booting") /\ step' = "boot"
      /\ UNCHANGED <<agenda, cursor, reply, audited, Keeps>>
  BY DEF OpenWorker
<1>3. /\ worker'.state = "booting" /\ worker'.turn = 0
      /\ Len(worker'.input) = 0 /\ Len(worker'.stdout) = 0 /\ Len(worker'.queue) = 0
      /\ Len(worker'.stderr) = 0 /\ Len(worker'.log) = 0
  BY <1>2, EmptySeq DEF Process
<1>4. Reported(worker') = 0
  <2>1. Reported(worker') = 0 + 0
    BY <1>3 DEF Reported
  <2> QED BY <2>1
<1>5. LogInv'
  BY <1>3, <1>4 DEF LogInv
<1>6. PipeInv'
  BY <1>1, <1>2, <1>3 DEF PipeInv, Between, Verdicts, AllAudited, NoInput, NoReply, Keeps
<1> QED BY <1>2, <1>5, <1>6, SameRun, NoWorkerFields DEF Between, Serving

LEMMA BootedStep ==
  ASSUME AuditInv, Booted
  PROVE  AuditInv'
<1>1. AuditTypes /\ LogInv /\ PipeInv
  BY DEF AuditInv
<1>2. /\ step = "boot" /\ HasLine("bootstrap", 0) /\ step' = "send"
      /\ UNCHANGED <<agenda, worker, cursor, reply, audited, Keeps>>
  BY DEF Booted
<1>3. LogInv'
  BY <1>1, <1>2 DEF LogInv, Reported
<1> DEFINE log == worker.log
           err == worker.stderr
<1>4. Len(log) \in Nat /\ Len(err) \in Nat /\ worker.turn = 0 /\ Reported(worker) = Len(log) + Len(err)
  BY <1>1, <1>2, WorkerFields DEF PipeInv, Reported
<1>5. \E i \in (0 + 1)..Len(log) : TRUE
  BY <1>2 DEF HasLine
<1> HIDE DEF log, err
<1>6. Reported(worker) # 0
  BY <1>4, <1>5
<1>7. Reported(worker) = 1
  BY <1>1, <1>4, <1>6 DEF LogInv
<1>8. Len(log) = worker.turn + 1
  <2>1. Len(log) = 1
    <3>1. \A a, b \in Nat : a # 0 /\ a + b = 1 => a = 1
      OBVIOUS
    <3>2. Len(log) # 0
      BY <1>4, <1>5
    <3> QED BY <1>4, <1>7, <3>1, <3>2, Zenon
  <2>2. worker.turn + 1 = 1
    BY <1>4
  <2> QED BY <2>1, <2>2
<1>9. PipeInv'
  BY <1>1, <1>2, <1>8
  DEF PipeInv, Between, Verdicts, AllAudited, NoInput, NoReply, Keeps, log
<1> QED BY <1>1, <1>2, <1>3, <1>9, SameRun DEF AuditTypes, Between, Serving

LEMMA BootFailsStep ==
  ASSUME AuditInv, BootFails
  PROVE  AuditInv'
<1>1. step' = "raised" /\ worker' = NoWorker /\ UNCHANGED <<agenda, audited, Keeps>>
  BY DEF BootFails, Unwind
<1>2. PipeInv'
  BY <1>1 DEF PipeInv, Between
<1>3. LogInv'
  <2>1. /\ Len(worker'.stderr) = 0 /\ Len(worker'.log) = 0 /\ worker'.turn = 0
        /\ worker'.state = "none"
    BY <1>1, NoWorkerFields, EmptySeq
  <2>2. Reported(worker') = 0 + 0
    BY <2>1 DEF Reported
  <2> QED BY <2>1, <2>2 DEF LogInv
<1> QED BY <1>1, <1>2, <1>3, SameRun, NoWorkerFields

LEMMA UnaskedType ==
  ASSUME AuditInv, agenda # <<>>
  PROVE  /\ Unasked \in Seq(PromptSet) /\ agenda[1] \in Plans /\ Current = agenda[1]
         /\ 1 \in 1..Len(agenda) /\ Len(agenda) \in Nat
<1>1. agenda \in Seq(Plans) /\ Len(agenda) \in Nat \ {0}
  BY EmptySeq DEF AuditInv, AuditTypes
<1>2. Current = agenda[1] /\ agenda[1] \in Plans
  BY <1>1, ElementOfSeq DEF Current
<1> DEFINE p == Current.prompts
           T == {i \in DOMAIN audited : audited[i].session = Current.index}
<1>3. p \in Seq(PromptSet)
  BY <1>2 DEF Plans
<1>4. Cardinality(T) \in Nat
  <2>1. PICK S : audited \in Seq(S)
    BY DEF AuditInv, AuditTypes
  <2>2. DOMAIN audited = 1..Len(audited) /\ Len(audited) \in Nat
    BY <2>1, LenProperties
  <2>3. IsFiniteSet(DOMAIN audited)
    BY <2>2, FS_Interval
  <2>4. IsFiniteSet(T)
    BY <2>3, FS_Subset
  <2> QED BY <2>4, FS_CardinalityType
<1>5. Unasked = SubSeq(p, 1 + Cardinality(T), Len(p))
  BY DEF Unasked
<1> HIDE DEF p, T
<1>6. Unasked \in Seq(PromptSet)
  <2>1. Len(p) \in Nat /\ \A i \in 1..Len(p) : p[i] \in PromptSet
    BY <1>3, ElementOfSeq, LenProperties
  <2>2. 1 + Cardinality(T) \in Int /\ Len(p) \in Int
        /\ \A i \in (1 + Cardinality(T))..Len(p) : p[i] \in PromptSet
    BY <1>4, <2>1
  <2> QED BY <1>5, <2>2, SubSeqProperties
<1> QED BY <1>1, <1>2, <1>6

LEMMA SendTurnStep ==
  ASSUME AuditInv, SendTurn
  PROVE  AuditInv'
<1>1. AuditTypes /\ LogInv /\ PipeInv
  BY DEF AuditInv
<1>2. /\ step = "send" /\ Unasked # <<>> /\ cursor' = Len(worker.log)
      /\ UNCHANGED <<agenda, audited, Keeps>>
  BY DEF SendTurn
<1>3. /\ NoInput /\ NoReply /\ AllAudited /\ Len(worker.log) = worker.turn + 1
      /\ agenda # <<>> /\ worker \in Processes
  BY <1>1, <1>2 DEF PipeInv, AuditTypes, Serving
<1>4. CASE worker.state = "dead"
  <2>1. step' = "unwind" /\ worker' = worker
    BY <1>4 DEF SendTurn
  <2>2. LogInv'
    BY <1>1, <2>1 DEF LogInv, Reported
  <2>3. PipeInv'
    BY <2>1 DEF PipeInv, Between, Verdicts
  <2> QED BY <1>2, <1>3, <2>1, <2>2, <2>3, SameRun DEF Serving
<1>5. CASE worker.state # "dead"
  <2> DEFINE p  == Head(Unasked)
             in == worker.input
  <2>1. step' = "answer" /\ worker' = [worker EXCEPT !.input = Append(@, p)]
    BY <1>5 DEF SendTurn
  <2>2. p \in Inputs /\ in \in Seq(Inputs)
    BY <1>1, <1>2, <1>3, UnaskedType, Popped, WorkerFields DEF Inputs
  <2>3. Append(in, p) \in Seq(Inputs) /\ Len(Append(in, p)) = Len(in) + 1
    BY <2>2, Pushed
  <2>4. /\ worker'.state = worker.state /\ worker'.stderr = worker.stderr
        /\ worker'.log = worker.log /\ worker'.input = Append(in, p)
        /\ worker'.stdout = worker.stdout /\ worker'.queue = worker.queue
        /\ worker'.turn = worker.turn /\ worker' \in Processes
    BY <1>3, <2>1, <2>3 DEF Processes
  <2>5. LogInv'
    BY <1>1, <2>4 DEF LogInv, Reported
  <2>6. Len(in) = 0
    BY <1>3 DEF NoInput
  <2> HIDE DEF in, p
  <2>7. Len(worker'.input) = 1
    BY <2>3, <2>4, <2>6
  <2>8. cursor' = worker'.turn + 1
    BY <1>2, <1>3, <2>4
  <2>9. Waiting'
    BY <1>2, <1>3, <2>4, <2>7, <2>8 DEF Waiting, NoReply, AllAudited, Keeps
  <2>10. PipeInv'
    BY <2>1, <2>9 DEF PipeInv, Between, Verdicts
  <2> QED BY <1>2, <1>3, <2>1, <2>4, <2>5, <2>10, SameRun DEF Serving
<1> QED BY <1>4, <1>5

LEMMA TakeAnswerStep ==
  ASSUME AuditInv, TakeAnswer
  PROVE  AuditInv'
<1>1. AuditTypes /\ LogInv /\ PipeInv
  BY DEF AuditInv
<1> DEFINE que == worker.queue
<1>2. /\ step = "answer" /\ que # <<>> /\ worker' = [worker EXCEPT !.queue = Tail(@)]
      /\ UNCHANGED <<agenda, cursor, audited, Keeps>>
      /\ IF Head(que).status = "ok" THEN step' = "phase" /\ reply' = Head(que)
                                    ELSE step' = "unwind" /\ UNCHANGED reply
  BY DEF TakeAnswer
<1>3. que \in Seq(Replies) /\ worker \in Processes
  BY <1>1, WorkerFields DEF AuditTypes
<1>4. /\ Tail(que) \in Seq(Replies) /\ Len(que) \in Nat \ {0}
      /\ Len(Tail(que)) = Len(que) - 1 /\ Head(que) = que[1]
  BY <1>2, <1>3, Popped
<1>5. /\ worker'.state = worker.state /\ worker'.stderr = worker.stderr
      /\ worker'.log = worker.log /\ worker'.input = worker.input
      /\ worker'.stdout = worker.stdout /\ worker'.queue = Tail(que)
      /\ worker'.turn = worker.turn /\ worker' \in Processes
  BY <1>2, <1>3, <1>4 DEF Processes
<1>6. LogInv'
  BY <1>1, <1>5 DEF LogInv, Reported
<1>7. step' \in Serving /\ step \in Serving
  BY <1>2 DEF Serving
<1>8. PipeInv'
  <2>1. CASE Head(que).status # "ok"
    BY <1>2, <2>1 DEF PipeInv, Between, Verdicts
  <2>2. CASE Head(que).status = "ok"
    <3>1. step' = "phase" /\ reply' = Head(que)
      BY <1>2, <2>2
    <3>2. ~Waiting
      BY <1>4 DEF Waiting, NoReply
    <3>3. ~Refused
      <4> SUFFICES ASSUME NEW s \in {"error", "bye"}, OneReply([status |-> s]) PROVE FALSE
        BY DEF Refused
      <4>1. que[1] = [status |-> s]
        BY <1>4 DEF OneReply
      <4> QED BY <1>4, <2>2, <4>1
    <3>4. Answered
      BY <1>1, <1>2, <3>2, <3>3 DEF PipeInv
    <3>5. Len(worker.stdout) = 0 /\ Len(que) = 1 /\ que[1] = OkReply
      BY <1>4, <3>4 DEF Answered, OneReply
    <3> HIDE DEF que
    <3>6. NoReply'
      BY <1>4, <1>5, <3>5 DEF NoReply
    <3>7. OkReply' = OkReply
      BY <1>2, <1>5 DEF OkReply, LastDone, Keeps
    <3>8. NoInput' /\ OneToAudit' /\ reply' = OkReply' /\ cursor' = worker'.turn
      BY <1>2, <1>4, <1>5, <3>1, <3>4, <3>5, <3>7
      DEF Answered, NoInput, OneToAudit, LastDone, Keeps
    <3> QED BY <3>1, <3>6, <3>8 DEF PipeInv, Between, Verdicts
  <2> QED BY <2>1, <2>2
<1> QED BY <1>2, <1>5, <1>6, <1>7, <1>8, SameRun

LEMMA TurnFailsStep ==
  ASSUME AuditInv, TurnFails
  PROVE  AuditInv'
<1>1. AuditTypes /\ LogInv /\ PipeInv
  BY DEF AuditInv
<1>2. /\ step \in Serving /\ step' = "unwind" /\ UNCHANGED <<agenda, worker, audited, Keeps>>
  BY DEF TurnFails, Serving
<1>3. LogInv'
  BY <1>1, <1>2 DEF LogInv, Reported
<1>4. PipeInv'
  BY <1>2 DEF PipeInv, Between, Verdicts
<1> QED BY <1>1, <1>2, <1>3, <1>4, SameRun DEF AuditTypes, Serving

(* The turn that waits for its audit is the last one of its session, and   *)
(* the line after the mark is its own.                                     *)
LEMMA LastTurn ==
  ASSUME AuditInv, step \in {"phase", "trace"}
  PROVE  /\ agenda # <<>> /\ Len(done) \in Nat \ {0} /\ Len(done) \in 1..Len(done)
         /\ worker.turn \in Nat \ {0} /\ cursor = worker.turn
         /\ LastDone.session = Current.index /\ LastDone.turn = worker.turn
         /\ \A k \in 1..Len(done) : done[k].session = Current.index /\ done[k].turn = worker.turn
                                      => k = Len(done)
<1>1. AuditTypes /\ PipeInv /\ DoneInv /\ step \in Serving
  BY DEF AuditInv, Serving
<1>2. agenda # <<>> /\ Current = agenda[1] /\ 1 \in 1..Len(agenda)
  BY <1>1, UnaskedType DEF AuditTypes
<1>3. OneToAudit /\ cursor = worker.turn
  BY <1>1 DEF PipeInv
<1>4. Len(done) \in Nat \ {0} /\ Len(done) \in 1..Len(done)
  BY <1>1, <1>3, WorkerFields DEF OneToAudit
<1>5. LastDone.session = agenda[1].index /\ LastDone.turn = worker.turn
  BY <1>3 DEF OneToAudit
<1>6. LastDone.turn \in 1..worker.turn /\ worker.turn \in Nat
  BY <1>1, <1>2, <1>4, <1>5, WorkerFields DEF DoneInv, LastDone
<1>7. \A m \in Nat : m \in 1..m => m # 0
  OBVIOUS
<1>8. worker.turn \in Nat \ {0}
  BY <1>5, <1>6, <1>7
<1>9. \A k \in 1..Len(done) : done[k].session = agenda[1].index /\ done[k].turn = worker.turn
                                => k = Len(done)
  BY <1>1, <1>2 DEF DoneInv
<1> QED BY <1>2, <1>3, <1>4, <1>5, <1>8, <1>9

LEMMA FindPhasesStep ==
  ASSUME AuditInv, FindPhases
  PROVE  AuditInv'
<1>1. AuditTypes /\ LogInv /\ PipeInv
  BY DEF AuditInv
<1>2. /\ step = "phase" /\ HasLine("phases", cursor) /\ step' = "trace"
      /\ UNCHANGED <<agenda, worker, cursor, reply, audited, Keeps>>
  BY DEF FindPhases
<1>3. LogInv'
  BY <1>1, <1>2 DEF LogInv, Reported
<1> DEFINE log == worker.log
           err == worker.stderr
           n   == worker.turn
<1>4. n \in Nat \ {0} /\ cursor = n
  BY <1>2, LastTurn
<1>5. Len(log) \in Nat /\ Len(err) \in Nat /\ Reported(worker) = Len(log) + Len(err)
  BY <1>1, WorkerFields DEF Reported
<1>6. \E i \in (n + 1)..Len(log) : TRUE
  BY <1>2, <1>4 DEF HasLine
<1>7. Reported(worker) # 0 => Reported(worker) = n + 1
  BY <1>1 DEF LogInv
<1> HIDE DEF log, err, n
<1>8. Len(log) = n + 1
  <2>1. \A a, b \in Nat, m \in Nat \ {0} :
          (\E i \in (m + 1)..a : TRUE) /\ (a + b # 0 => a + b = m + 1) => a = m + 1
    OBVIOUS
  <2>2. Len(log) + Len(err) # 0 => Len(log) + Len(err) = n + 1
    BY <1>5, <1>7
  <2> QED BY <1>4, <1>5, <1>6, <2>1, <2>2, Zenon
<1>9. PipeInv'
  <2>1. NoInput' /\ NoReply' /\ OneToAudit' /\ reply' = OkReply' /\ cursor' = worker'.turn
    BY <1>1, <1>2
    DEF PipeInv, NoInput, NoReply, OneToAudit, OkReply, LastDone, Keeps
  <2>2. Len(worker'.log) = worker'.turn + 1
    BY <1>2, <1>8 DEF log, n
  <2> QED BY <1>2, <2>1, <2>2 DEF PipeInv, Between, Verdicts
<1> QED BY <1>1, <1>2, <1>3, <1>9, SameRun DEF AuditTypes, Serving

LEMMA CloseStep ==
  ASSUME AuditInv, Close
  PROVE  AuditInv'
<1>1. AuditTypes /\ LogInv /\ PipeInv /\ worker \in Processes
  BY DEF AuditInv, AuditTypes
<1>2. /\ step \in {"unwind", "send"} /\ step \in Serving
      /\ UNCHANGED <<agenda, cursor, reply, audited, Keeps>>
  BY DEF Close, Serving
<1>3. CASE worker.state = "dead"
  <2>1. /\ worker' = worker
        /\ step' = IF step = "unwind" THEN "unwound" ELSE "closed"
    BY <1>3 DEF Close
  <2>2. LogInv'
    BY <1>1, <2>1 DEF LogInv, Reported
  <2>3. PipeInv'
    BY <1>1, <1>2, <1>3, <2>1 DEF PipeInv, Between, Verdicts, AllAudited, Keeps
  <2>4. step' \in Serving
    BY <2>1 DEF Serving
  <2> QED BY <1>1, <1>2, <2>1, <2>2, <2>3, <2>4, SameRun
<1>4. CASE worker.state # "dead"
  <2> DEFINE in == worker.input
             s  == "shutdown"
  <2>1. /\ step' = IF step = "unwind" THEN "unwinding" ELSE "closing"
        /\ worker' = [worker EXCEPT !.input = Append(@, s)]
    BY <1>4 DEF Close
  <2>2. s \in Inputs /\ in \in Seq(Inputs)
    BY <1>1, WorkerFields DEF Inputs
  <2>3. /\ Append(in, s) \in Seq(Inputs) /\ Len(in) \in Nat /\ Len(Append(in, s)) = Len(in) + 1
        /\ Append(in, s)[Len(in) + 1] = s
    BY <2>2, Pushed
  <2>4. /\ worker'.state = worker.state /\ worker'.stderr = worker.stderr
        /\ worker'.log = worker.log /\ worker'.input = Append(in, s)
        /\ worker'.turn = worker.turn /\ worker' \in Processes
    BY <1>1, <2>1, <2>3 DEF Processes
  <2>5. LogInv'
    BY <1>1, <2>4 DEF LogInv, Reported
  <2>6. step = "send" => Len(in) = 0 /\ AllAudited
    BY <1>1 DEF PipeInv, NoInput
  <2> HIDE DEF in
  <2>7. step = "send" => \A i \in 1..Len(worker'.input) : worker'.input[i] = "shutdown"
    <3> SUFFICES ASSUME step = "send", NEW i \in 1..Len(worker'.input)
                 PROVE  worker'.input[i] = "shutdown"
      OBVIOUS
    <3>1. Len(in) = 0 /\ Len(worker'.input) = 1 /\ worker'.input[1] = s
      BY <2>3, <2>4, <2>6
    <3>2. i = 1
      BY <3>1
    <3> QED BY <3>1, <3>2
  <2>8. PipeInv'
    BY <1>2, <2>1, <2>6, <2>7 DEF PipeInv, Between, Verdicts, AllAudited, Keeps
  <2>9. step' \in Serving
    BY <2>1 DEF Serving
  <2> QED BY <1>2, <2>4, <2>5, <2>8, <2>9, SameRun
<1> QED BY <1>3, <1>4

LEMMA CloseEndsStep ==
  ASSUME AuditInv, CloseEnds
  PROVE  AuditInv'
<1>1. AuditTypes /\ LogInv /\ PipeInv /\ worker \in Processes
  BY DEF AuditInv, AuditTypes
<1>2. /\ step \in {"closing", "unwinding"} /\ worker' = [worker EXCEPT !.state = "dead"]
      /\ step' = IF step = "closing" THEN "closed" ELSE "unwound"
      /\ UNCHANGED <<agenda, cursor, reply, audited, Keeps>>
  BY DEF CloseEnds
<1>3. /\ worker'.state = "dead" /\ worker'.stderr = worker.stderr /\ worker'.log = worker.log
      /\ worker'.turn = worker.turn /\ worker' \in Processes
  BY <1>1, <1>2 DEF Processes
<1>4. LogInv'
  BY <1>1, <1>3 DEF LogInv, Reported
<1>5. PipeInv'
  BY <1>1, <1>2, <1>3 DEF PipeInv, Between, Verdicts, AllAudited, Keeps
<1>6. step \in Serving /\ step' \in Serving
  BY <1>2 DEF Serving
<1> QED BY <1>2, <1>3, <1>4, <1>5, <1>6, SameRun

(* After the mark there is one line, and it is that of the turn.           *)
LEMMA OwnLine ==
  ASSUME AuditInv, step = "trace"
  PROVE  LineOf("phases", cursor)[2] = worker.turn
<1> DEFINE log == worker.log
           n   == worker.turn
<1>1. n \in Nat \ {0} /\ cursor = n
  BY LastTurn
<1>2. Len(log) = n + 1 /\ \A i \in 1..Len(log) : log[i] = LineAt(i)
  BY DEF AuditInv, PipeInv, LogInv
<1> DEFINE First(i) == /\ log[i][1] = "phases"
                       /\ \A j \in (n + 1)..(i - 1) : log[j][1] # "phases"
<1>3. LineOf("phases", cursor) = log[CHOOSE i \in (n + 1)..Len(log) : First(i)]
  BY <1>1 DEF LineOf
<1> HIDE DEF log, n
<1>4. log[n + 1] = <<"phases", n>>
  <2>1. n + 1 \in 1..Len(log) /\ n + 1 # 1 /\ (n + 1) - 1 = n
    BY <1>1, <1>2
  <2>2. LineAt(n + 1) = <<"phases", n>>
    BY <2>1 DEF LineAt
  <2> QED BY <1>2, <2>1, <2>2
<1>5. First(n + 1)
  BY <1>1, <1>4
<1>6. \A i \in (n + 1)..Len(log) : i = n + 1
  BY <1>1, <1>2
<1>7. n + 1 \in (n + 1)..Len(log)
  BY <1>1, <1>2
<1> HIDE DEF First
<1>8. (CHOOSE i \in (n + 1)..Len(log) : First(i)) = n + 1
  BY <1>5, <1>6, <1>7
<1>9. <<"phases", n>>[2] = n
  OBVIOUS
<1> QED BY <1>3, <1>4, <1>8, <1>9 DEF n

LEMMA AuditTurnStep ==
  ASSUME AuditInv, AuditTurn
  PROVE  AuditInv'
<1>1. AuditTypes /\ LogInv /\ PipeInv /\ DoneInv /\ AuditedInv /\ step = "trace"
  BY DEF AuditInv, AuditTurn
<1>2. /\ step' = "send" /\ UNCHANGED <<mode, rewrite, golden, done, audits, agenda, worker, cursor>>
  BY DEF AuditTurn, Keeps
<1> DEFINE Audit(i) ==
             [session |-> Current.index, cohort |-> Current.cohort, gf |-> Current.gf,
              prompt |-> Head(Unasked), turn |-> reply.turns, output |-> reply.surface.text,
              slow |-> reply.slow, phases |-> LineOf("phases", cursor)[2],
              canonical |-> IsCanonical(done[i].was.trace), fallback |-> done[i].was.trace.fallback,
              recovery |-> Recovery(done[i].was.trace), issues |-> reply.surface.faults,
              substitutions |-> Substitutions(reply.surface, done[i].was.trace)]
<1>3. PICK i \in Stored(reply.turns) : audited' = Append(audited, Audit(i))
  BY DEF AuditTurn
<1>4. /\ NoInput /\ NoReply /\ OneToAudit /\ reply = OkReply /\ cursor = worker.turn
      /\ Len(worker.log) = worker.turn + 1
  BY <1>1 DEF PipeInv
<1>5. reply.turns = worker.turn /\ reply.surface = LastDone.was.surface
      /\ reply.slow = LastDone.was.slow
  BY <1>4 DEF OkReply
<1>6. DOMAIN done = 1..Len(done)
  BY <1>1, LenProperties DEF AuditTypes
<1>7. i = Len(done)
  BY <1>1, <1>3, <1>5, <1>6, LastTurn DEF Stored
<1>8. Audits(Audit(i), LastDone)
  <2>1. LineOf("phases", cursor)[2] = worker.turn
    BY <1>1, OwnLine
  <2>2. LastDone.session = Current.index /\ LastDone.turn = worker.turn
    BY <1>1, LastTurn
  <2> QED BY <1>5, <1>7, <2>1, <2>2 DEF Audits, LastDone
<1>9. agenda # <<>> /\ 1 \in 1..Len(agenda) /\ Current = agenda[1]
  BY <1>1, UnaskedType DEF AuditTypes, Serving
<1>10. Audit(i).gf <=> Audit(i).cohort \in Relevant
  BY <1>1, <1>9 DEF AuditedInv
<1> HIDE DEF Audit
<1>11. PICK S : audited \in Seq(S)
  BY <1>1 DEF AuditTypes
<1>12. /\ audited' \in Seq(S \cup {Audit(i)}) /\ Len(audited) \in Nat
       /\ Len(audited') = Len(audited) + 1
       /\ \A k \in 1..Len(audited) : audited'[k] = audited[k]
       /\ audited'[Len(audited) + 1] = Audit(i)
  <2>1. audited \in Seq(S \cup {Audit(i)}) /\ Audit(i) \in S \cup {Audit(i)}
    BY <1>11
  <2> HIDE DEF Audit
  <2> QED BY <1>3, <2>1, Pushed
<1>13. Len(done) = Len(audited) + 1
  BY <1>4 DEF OneToAudit
<1>14. AuditedInv'
  <2>1. Relevant' = Relevant
    BY <1>2 DEF Relevant
  <2>2. ASSUME NEW k \in 1..Len(audited')
        PROVE  /\ Audits(audited'[k], done[k])
               /\ audited'[k].gf <=> audited'[k].cohort \in Relevant
    <3>1. CASE k \in 1..Len(audited)
      BY <1>1, <1>12, <3>1 DEF AuditedInv
    <3>2. CASE k = Len(audited) + 1
      <4>1. audited'[k] = Audit(i) /\ done[k] = LastDone
        BY <1>12, <1>13, <3>2 DEF LastDone
      <4> QED BY <1>8, <1>10, <4>1
    <3> QED BY <1>12, <3>1, <3>2
  <2>3. Len(audited') <= Len(done')
    BY <1>2, <1>12, <1>13
  <2>4. \A j \in 1..Len(agenda) : agenda[j].gf <=> agenda[j].cohort \in Relevant
    BY <1>1 DEF AuditedInv
  <2> QED BY <1>2, <2>1, <2>2, <2>3, <2>4 DEF AuditedInv, Audits
<1>15. LogInv'
  BY <1>1, <1>2 DEF LogInv, Reported
<1>16. PipeInv'
  BY <1>2, <1>4, <1>12, <1>13
  DEF PipeInv, Between, Verdicts, AllAudited, NoInput, NoReply
<1>17. DoneInv'
  BY <1>1, <1>2 DEF DoneInv, Serving, Between
<1>18. AuditTypes'
  BY <1>1, <1>2, <1>9, <1>12 DEF AuditTypes, Serving
<1>19. PassIsEarned'
  BY <1>2 DEF PassIsEarned
<1> QED BY <1>14, <1>15, <1>16, <1>17, <1>18, <1>19 DEF AuditInv

LEMMA EndSessionStep ==
  ASSUME AuditInv, EndSessionOfAudit
  PROVE  AuditInv'
<1>1. AuditTypes /\ LogInv /\ PipeInv /\ DoneInv /\ AuditedInv
  BY DEF AuditInv
<1>2. /\ step \in {"closed", "unwound"} /\ worker' = NoWorker
      /\ UNCHANGED <<mode, rewrite, golden, done, audits, cursor, reply, audited>>
  BY DEF EndSessionOfAudit, Keeps
<1>3. LogInv'
  <2>1. /\ Len(worker'.stderr) = 0 /\ Len(worker'.log) = 0 /\ worker'.turn = 0
        /\ worker'.state = "none"
    BY <1>2, NoWorkerFields, EmptySeq
  <2>2. Reported(worker') = 0 + 0
    BY <2>1 DEF Reported
  <2> QED BY <2>1, <2>2 DEF LogInv
<1>4. CASE step = "unwound"
  <2>1. step' = "raised" /\ agenda' = agenda
    BY <1>4 DEF EndSessionOfAudit, Unwind
  <2>2. PipeInv'
    BY <1>2, <2>1 DEF PipeInv, Between
  <2> QED BY <1>2, <1>3, <2>1, <2>2, SameRun, NoWorkerFields DEF Keeps
<1>5. CASE step = "closed"
  <2>1. step' = "open" /\ agenda' = Tail(agenda)
    BY <1>5 DEF EndSessionOfAudit
  <2>2. agenda \in Seq(Plans) /\ agenda # <<>>
    BY <1>1, <1>5 DEF AuditTypes, Serving
  <2>3. /\ agenda' \in Seq(Plans) /\ Len(agenda) \in Nat \ {0} /\ Len(agenda') = Len(agenda) - 1
        /\ \A i \in 1..(Len(agenda) - 1) : agenda'[i] = agenda[i + 1]
    BY <2>1, <2>2, Popped
  <2>4. \A i \in 1..Len(agenda') : i + 1 \in 1..Len(agenda) /\ i + 1 # 1 /\ agenda'[i] = agenda[i + 1]
    BY <2>3
  <2>5. AuditTypes'
    BY <1>1, <1>2, <2>1, <2>3, NoWorkerFields DEF AuditTypes, Between, Serving
  <2>6. PipeInv'
    BY <1>1, <1>2, <1>5, <2>1 DEF PipeInv, Between, Verdicts, AllAudited
  <2>7. DoneInv'
    <3>1. \A i, j \in 1..Len(agenda') : agenda'[i].index = agenda'[j].index => i = j
      <4> TAKE i, j \in 1..Len(agenda')
      <4> HAVE agenda'[i].index = agenda'[j].index
      <4>1. i + 1 = j + 1
        BY <1>1, <2>4 DEF DoneInv
      <4> QED BY <2>3, <4>1
    <3>2. \A i \in 1..Len(agenda'), k \in 1..Len(done) : done[k].session # agenda'[i].index
      BY <1>1, <1>5, <2>4 DEF DoneInv, Serving
    <3> QED BY <1>2, <3>1, <3>2 DEF DoneInv
  <2>8. AuditedInv'
    <3>1. Relevant' = Relevant
      BY <1>2 DEF Relevant
    <3> QED BY <1>1, <1>2, <2>4, <3>1 DEF AuditedInv
  <2>9. PassIsEarned'
    BY <2>1 DEF PassIsEarned
  <2> QED BY <1>3, <2>5, <2>6, <2>7, <2>8, <2>9 DEF AuditInv
<1> QED BY <1>2, <1>4, <1>5

(* What a cohort that passes looks like.                                   *)
LEMMA SummaryFacts ==
  ASSUME AuditTypes, NEW turns \in SUBSET (1..Len(audited)), SummaryPasses(turns)
  PROVE  /\ turns # {}
         /\ \A i \in turns : /\ audited[i].canonical /\ audited[i].fallback = "none"
                             /\ audited[i].substitutions = {} /\ audited[i].issues = {}
         /\ \E i \in turns : ~audited[i].slow
<1>1. IsFiniteSet(turns) /\ Cardinality(turns) \in Nat
  <2>1. Len(audited) \in Int
    BY WorkerFields
  <2>2. IsFiniteSet(1..Len(audited))
    BY <2>1, FS_Interval
  <2>3. IsFiniteSet(turns)
    BY <2>2, FS_Subset
  <2> QED BY <2>3, FS_CardinalityType
<1> DEFINE A == {i \in turns : audited[i].canonical}
           B == {i \in turns : audited[i].fallback = "none"}
           C == {i \in turns : audited[i].substitutions # {}}
           D == {i \in turns : audited[i].issues # {}}
           F == {i \in turns : ~audited[i].slow}
<1>2. /\ Cardinality(A) = Cardinality(turns) /\ Cardinality(B) = Cardinality(turns)
      /\ Cardinality(C) = 0 /\ Cardinality(D) = 0 /\ turns # {} /\ ~P95Slow(turns)
  BY DEF SummaryPasses, HowOften
<1>3. A = turns /\ B = turns
  <2>1. A \in SUBSET turns /\ B \in SUBSET turns
    OBVIOUS
  <2> HIDE DEF A, B
  <2> QED BY <1>1, <1>2, <2>1, FS_Subset
<1>4. C = {} /\ D = {}
  <2>1. C \in SUBSET turns /\ D \in SUBSET turns
    OBVIOUS
  <2> HIDE DEF C, D
  <2>2. IsFiniteSet(C) /\ IsFiniteSet(D)
    BY <1>1, <2>1, FS_Subset
  <2> QED BY <1>2, <2>2, FS_EmptySet
<1>5. F # {}
  <2> DEFINE count == Cardinality(turns)
             index == (95 * count + 99) \div 100
  <2>1. ~(Larger(1, Smaller(count, index)) > Cardinality(F))
    BY <1>2 DEF P95Slow, HowOften
  <2>2. count \in Int /\ index \in Int
    BY <1>1
  <2> HIDE DEF count, index
  <2>3. Larger(1, Smaller(count, index)) > 0
    BY <2>2 DEF Larger, Smaller
  <2> HIDE DEF F
  <2> QED BY <2>1, <2>3, FS_EmptySet
<1> QED BY <1>2, <1>3, <1>4, <1>5

LEMMA ReportStep ==
  ASSUME AuditInv, Report
  PROVE  AuditInv'
<1>1. AuditTypes /\ LogInv /\ PipeInv /\ DoneInv /\ AuditedInv
  BY DEF AuditInv
<1> DEFINE surface == Cohort("surface")
<1>2. /\ step = "open" /\ step' \in {"passed", "failed"}
      /\ UNCHANGED <<mode, rewrite, agenda, worker, cursor, reply, audited, done, audits>>
  BY DEF Report
<1>3. step' = "passed" =>
        /\ \A c \in Relevant : SummaryPasses(Cohort(c))
        /\ surface # {} /\ DOMAIN golden' # {} => Mismatches(golden', surface) = {}
  BY DEF Report
<1>4. DOMAIN audited = 1..Len(audited) /\ Len(audited) = Len(done)
      /\ DOMAIN done = 1..Len(done) /\ Len(done) \in Nat
  <2>1. PICK S : audited \in Seq(S)
    BY <1>1 DEF AuditTypes
  <2>2. done \in Seq(Turns)
    BY <1>1 DEF AuditTypes
  <2>3. AllAudited
    BY <1>1, <1>2 DEF PipeInv, Between
  <2> QED BY <2>1, <2>2, <2>3, LenProperties DEF AllAudited
<1>5. ASSUME step' = "passed", NEW k \in 1..Len(done), audited[k].gf
      PROVE  LET t == done[k].was IN
             /\ t.trace.linearized /\ t.trace.authority = "canonical"
             /\ t.trace.planned /\ t.trace.plan \subseteq t.surface.says
             /\ t.trace.fallback = "none" /\ t.surface.faults = {}
  <2> DEFINE t == done[k].was
             turns == Cohort(audited[k].cohort)
  <2>1. audited[k].cohort \in Relevant /\ k \in turns /\ turns \in SUBSET (1..Len(audited))
        /\ Audits(audited[k], done[k])
    BY <1>1, <1>4, <1>5 DEF AuditedInv, Cohort
  <2>2. /\ audited[k].canonical /\ audited[k].fallback = "none"
        /\ audited[k].substitutions = {} /\ audited[k].issues = {}
    BY <1>1, <1>3, <1>5, <2>1, SummaryFacts
  <2>3. /\ IsCanonical(t.trace) /\ t.trace.fallback = "none" /\ t.surface.faults = {}
        /\ Substitutions(t.surface, t.trace) = {}
    BY <2>1, <2>2 DEF Audits
  <2> HIDE DEF t
  <2>4. t.trace.linearized /\ t.trace.authority = "canonical"
    BY <2>3 DEF IsCanonical
  <2>5. t.trace.planned
    BY <2>3, <2>4 DEF Substitutions
  <2>6. t.trace.plan \subseteq t.surface.says
    BY <2>3, <2>5 DEF Substitutions
  <2> QED BY <2>3, <2>4, <2>5, <2>6 DEF t
<1>6. ASSUME step' = "passed"
      PROVE  \E k \in 1..Len(done) : audited[k].gf /\ ~audited[k].slow
  <2>1. PICK c : c \in Relevant
    BY DEF Relevant
  <2>2. Cohort(c) \in SUBSET (1..Len(audited)) /\ SummaryPasses(Cohort(c))
    BY <1>3, <1>4, <1>6, <2>1 DEF Cohort
  <2>3. PICK k \in Cohort(c) : ~audited[k].slow
    BY <1>1, <2>2, SummaryFacts
  <2>4. audited[k].gf
    BY <1>1, <1>4, <2>1, <2>3 DEF Cohort, AuditedInv
  <2> QED BY <1>4, <2>3, <2>4 DEF Cohort
<1>7. ASSUME step' = "passed", DOMAIN golden' # {}, NEW k \in 1..Len(done),
             audited[k].cohort = "surface"
      PROVE  golden'[audited[k].prompt] = done[k].was.surface.text
  <2>1. k \in surface
    BY <1>4, <1>7 DEF Cohort
  <2> HIDE DEF surface
  <2>2. Mismatches(golden', surface) = {}
    BY <1>3, <1>7, <2>1
  <2>3. golden'[audited[k].prompt] = audited[k].output
    BY <2>1, <2>2 DEF Mismatches
  <2>4. Audits(audited[k], done[k])
    BY <1>1, <1>4 DEF AuditedInv
  <2> QED BY <2>3, <2>4 DEF Audits
<1>8. PassIsEarned'
  <2> SUFFICES ASSUME step' = "passed" PROVE PassIsEarned'
    BY DEF PassIsEarned
  <2>1. Len(audited') = Len(done') /\ DOMAIN audited' = 1..Len(done) /\ DOMAIN done' = 1..Len(done)
    BY <1>2, <1>4
  <2>2. \A k \in 1..Len(done) : LET t == done[k].was IN
          audited[k].gf =>
            /\ t.trace.linearized /\ t.trace.authority = "canonical"
            /\ t.trace.planned /\ t.trace.plan \subseteq t.surface.says
            /\ t.trace.fallback = "none" /\ t.surface.faults = {}
    BY <1>5
  <2>3. \E k \in 1..Len(done) : audited[k].gf /\ ~audited[k].slow
    BY <1>6
  <2>4. DOMAIN golden' # {} => \A k \in 1..Len(done) :
          audited[k].cohort = "surface" => golden'[audited[k].prompt] = done[k].was.surface.text
    BY <1>7
  <2> QED BY <1>2, <2>1, <2>2, <2>3, <2>4 DEF PassIsEarned
<1>9. AuditTypes'
  BY <1>1, <1>2 DEF AuditTypes, Serving, Verdicts
<1>10. LogInv'
  BY <1>1, <1>2 DEF LogInv, Reported
<1>11. PipeInv'
  BY <1>1, <1>2 DEF PipeInv, Between
<1>12. DoneInv'
  BY <1>1, <1>2 DEF DoneInv, Between, Serving
<1>13. AuditedInv'
  <2>1. Relevant' = Relevant
    BY <1>2 DEF Relevant
  <2> QED BY <1>1, <1>2, <2>1 DEF AuditedInv
<1> QED BY <1>8, <1>9, <1>10, <1>11, <1>12, <1>13 DEF AuditInv

(* The sessions of a mode: numbered apart, and with GF where the verdict   *)
(* will look.                                                              *)
RelevantIn(m) == CASE m = "canary" -> {"canary"} [] m = "all" -> {"surface", "canary"}
                   [] OTHER -> {"surface"}

LEMMA PromptFacts ==
  /\ Prompts \in Seq(PromptSet) /\ Len(Prompts) \in Nat \ {0}
  /\ \A i \in 1..Len(Prompts) : Prompts[i] \in PromptSet
<1>1. Prompts \in Seq(PromptSet) /\ Prompts # <<>>
  BY AuditAssumption DEF PromptSet
<1> QED BY <1>1, EmptySeq, ElementOfSeq

LEMMA SurfaceFacts ==
  ASSUME NEW m
  PROVE  /\ SurfaceSession(m) \in Plans /\ SurfaceSession(m).index = 0
         /\ SurfaceSession(m).gf = TRUE /\ SurfaceSession(m).cohort = "surface"
<1> DEFINE n == Smaller(LatencyPrompts, Len(Prompts))
<1>1. n \in Int /\ n <= Len(Prompts)
  BY AuditAssumption, PromptFacts DEF Smaller
<1> HIDE DEF n
<1>2. SubSeq(Prompts, 1, n) \in Seq(PromptSet)
  <2>1. \A i \in 1..n : Prompts[i] \in PromptSet
    BY <1>1, PromptFacts
  <2> QED BY <1>1, <2>1, SubSeqProperties
<1> DEFINE p == IF m = "latency" THEN SubSeq(Prompts, 1, n) ELSE Prompts
<1>3. p \in Seq(PromptSet)
  BY <1>2, PromptFacts
<1>4. SurfaceSession(m) = [cohort |-> "surface", gf |-> TRUE, index |-> 0, prompts |-> p]
  BY DEF SurfaceSession, n
<1> HIDE DEF p
<1>5. SurfaceSession(m) \in Plans
  BY <1>3, <1>4 DEF Plans
<1>6. SurfaceSession(m).index = 0 /\ SurfaceSession(m).cohort = "surface"
  BY <1>4
<1>7. SurfaceSession(m).gf = TRUE
  BY <1>4
<1> QED BY <1>5, <1>6, <1>7

LEMMA CanaryFacts ==
  ASSUME NEW k \in Nat
  PROVE  /\ CanarySession(k) \in Plans /\ CanarySession(k).index = k
         /\ CanarySession(k).gf <=> CanarySession(k).cohort \in {"canary"}
         /\ CanarySession(k).cohort \in {"canary", "control"}
<1> DEFINE L == Larger(1, TurnsPerSession)
           N == Len(Prompts)
           x == (k - 1) * L
           P(i) == Prompts[((x + i - 1) % N) + 1]
<1>1. L \in Nat /\ N \in Nat \ {0}
  BY AuditAssumption, PromptFacts DEF Larger
<1>2. x \in Int
  BY <1>1
<1>3. \A y \in Int : (y % N) + 1 \in 1..N
  BY <1>1
<1> HIDE DEF x
<1>4. \A i \in 1..L : P(i) \in PromptSet
  <2> TAKE i \in 1..L
  <2>1. x + i - 1 \in Int
    BY <1>1, <1>2
  <2> QED BY <1>3, <2>1, PromptFacts
<1>5. Asked(k) = [i \in 1..L |-> P(i)]
  BY DEF Asked, x
<1> HIDE DEF P, L
<1>6. Asked(k) \in Seq(PromptSet)
  BY <1>1, <1>4, <1>5
<1> DEFINE b == k <= SelectedCount
<1>7. b \in BOOLEAN
  OBVIOUS
<1>8. CanarySession(k) = [cohort |-> IF b THEN "canary" ELSE "control", gf |-> b, index |-> k,
                          prompts |-> Asked(k)]
  BY DEF CanarySession
<1> HIDE DEF b
<1>9. CanarySession(k) \in Plans
  BY <1>6, <1>7, <1>8 DEF Plans
<1>10. CanarySession(k).index = k
  BY <1>8
<1>11. CanarySession(k).gf = b /\ CanarySession(k).cohort = IF b THEN "canary" ELSE "control"
  BY <1>8
<1> QED BY <1>7, <1>9, <1>10, <1>11

LEMMA AgendaFacts ==
  ASSUME NEW m \in ModesOfAudit
  PROVE  /\ AgendaOf(m) \in Seq(Plans)
         /\ \A i, j \in 1..Len(AgendaOf(m)) : AgendaOf(m)[i].index = AgendaOf(m)[j].index => i = j
         /\ \A i \in 1..Len(AgendaOf(m)) :
              AgendaOf(m)[i].gf <=> AgendaOf(m)[i].cohort \in RelevantIn(m)
<1> DEFINE s == IF m = "canary" THEN <<>> ELSE <<SurfaceSession(m)>>
           n == IF m \in {"canary", "all"} THEN Larger(1, CanarySessions) ELSE 0
           c == [k \in 1..n |-> CanarySession(k)]
           t == IF m \in {"canary", "all"} THEN [k \in 1..Larger(1, CanarySessions) |-> CanarySession(k)]
                                           ELSE <<>>
<1>1. s \in Seq(Plans) /\ Len(s) = (IF m = "canary" THEN 0 ELSE 1)
      /\ \A i \in 1..Len(s) : s[i] = SurfaceSession(m)
  <2>1. CASE m = "canary"
    BY <2>1, EmptySeq
  <2>2. CASE m # "canary"
    <3>1. s = <<SurfaceSession(m)>> /\ SurfaceSession(m) \in Plans
      BY <2>2, SurfaceFacts
    <3> HIDE DEF s
    <3> QED BY <2>2, <3>1
  <2> QED BY <2>1, <2>2
<1>2. n \in Nat
  BY AuditAssumption DEF Larger
<1>3. t \in Seq(Plans) /\ Len(t) = n /\ \A k \in 1..n : t[k] = CanarySession(k)
  <2>1. CASE m \in {"canary", "all"}
    <3>1. t = c
      BY <2>1
    <3>2. \A k \in 1..n : k \in Nat
      BY <1>2
    <3>3. \A k \in 1..n : CanarySession(k) \in Plans
      BY <3>2, CanaryFacts
    <3>4. n = Larger(1, CanarySessions)
      BY <2>1
    <3> HIDE DEF n, t
    <3>5. c \in Seq(Plans) /\ Len(c) = n
      BY <1>2, <3>3
    <3> QED BY <3>1, <3>5
  <2>2. CASE m \notin {"canary", "all"}
    BY <2>2, EmptySeq
  <2> QED BY <2>1, <2>2
<1>4. AgendaOf(m) = s \o t
  BY DEF AgendaOf
<1> HIDE DEF s, t
<1>5. /\ AgendaOf(m) \in Seq(Plans) /\ Len(AgendaOf(m)) = Len(s) + n
      /\ \A i \in 1..(Len(s) + n) :
           AgendaOf(m)[i] = IF i <= Len(s) THEN s[i] ELSE t[i - Len(s)]
  BY <1>1, <1>3, <1>4, ConcatProperties
<1>6. \A i \in 1..(Len(s) + n) :
        \/ i = 1 /\ m # "canary" /\ AgendaOf(m)[i] = SurfaceSession(m)
        \/ /\ i - Len(s) \in 1..n /\ m \in {"canary", "all"}
           /\ AgendaOf(m)[i] = CanarySession(i - Len(s))
  <2> TAKE i \in 1..(Len(s) + n)
  <2>1. CASE i <= Len(s)
    <3>1. i \in 1..Len(s) /\ AgendaOf(m)[i] = s[i]
      BY <1>1, <1>2, <1>5, <2>1
    <3>2. m # "canary" /\ i = 1
      BY <1>1, <3>1
    <3> QED BY <1>1, <3>1, <3>2
  <2>2. CASE ~(i <= Len(s))
    <3>1. i - Len(s) \in 1..n /\ AgendaOf(m)[i] = t[i - Len(s)]
      BY <1>1, <1>2, <1>5, <2>2
    <3>2. m \in {"canary", "all"}
      BY <3>1
    <3> QED BY <1>3, <3>1, <3>2
  <2> QED BY <2>1, <2>2
<1> HIDE DEF n
<1>7. \A i \in 1..(Len(s) + n) :
        \/ i = 1 /\ AgendaOf(m)[i].index = 0
        \/ i - Len(s) \in 1..n /\ AgendaOf(m)[i].index = i - Len(s)
  <2> TAKE i \in 1..(Len(s) + n)
  <2>1. CASE i = 1 /\ AgendaOf(m)[i] = SurfaceSession(m)
    BY <2>1, SurfaceFacts
  <2>2. CASE i - Len(s) \in 1..n /\ AgendaOf(m)[i] = CanarySession(i - Len(s))
    <3>1. i - Len(s) \in Nat
      BY <1>2, <2>2
    <3> QED BY <2>2, <3>1, CanaryFacts
  <2> QED BY <1>6, <2>1, <2>2
<1>8. \A i, j \in 1..Len(AgendaOf(m)) : AgendaOf(m)[i].index = AgendaOf(m)[j].index => i = j
  <2> TAKE i, j \in 1..Len(AgendaOf(m))
  <2> HAVE AgendaOf(m)[i].index = AgendaOf(m)[j].index
  <2>1. /\ i \in 1..(Len(s) + n) /\ j \in 1..(Len(s) + n) /\ Len(s) \in Int
    BY <1>1, <1>5
  <2>2. \/ i = 1 /\ j = 1
        \/ i - Len(s) = j - Len(s)
    BY <1>2, <1>7, <2>1
  <2> QED BY <1>2, <2>1, <2>2
<1>9. \A i \in 1..Len(AgendaOf(m)) :
        AgendaOf(m)[i].gf <=> AgendaOf(m)[i].cohort \in RelevantIn(m)
  <2> TAKE i \in 1..Len(AgendaOf(m))
  <2>1. CASE m # "canary" /\ AgendaOf(m)[i] = SurfaceSession(m)
    BY <2>1, SurfaceFacts DEF RelevantIn
  <2>2. CASE /\ i - Len(s) \in 1..n /\ m \in {"canary", "all"}
             /\ AgendaOf(m)[i] = CanarySession(i - Len(s))
    <3>1. i - Len(s) \in Nat
      BY <1>2, <2>2
    <3>2. "canary" \in RelevantIn(m) /\ "control" \notin RelevantIn(m)
      BY <2>2 DEF RelevantIn
    <3> QED BY <2>2, <3>1, <3>2, CanaryFacts
  <2> QED BY <1>5, <1>6, <2>1, <2>2
<1> QED BY <1>5, <1>8, <1>9

LEMMA AuditStartOK == AuditStart => AuditInv
<1> SUFFICES ASSUME AuditStart PROVE AuditInv
  OBVIOUS
<1>1. /\ mode \in ModesOfAudit /\ agenda = AgendaOf(mode) /\ step = "witness"
      /\ worker = NoWorker /\ audited = <<>> /\ done = <<>>
  BY DEF AuditStart
<1>2. Len(audited) = 0 /\ Len(done) = 0 /\ \A S : <<>> \in Seq(S)
  BY <1>1, EmptySeq
<1>3. AuditTypes
  BY <1>1, <1>2, AgendaFacts, NoWorkerFields DEF AuditTypes, Between, Serving
<1>4. LogInv
  <2>1. /\ Len(worker.stderr) = 0 /\ Len(worker.log) = 0 /\ worker.turn = 0
        /\ worker.state = "none"
    BY <1>1, NoWorkerFields, EmptySeq
  <2>2. Reported(worker) = 0 + 0
    BY <2>1 DEF Reported
  <2> QED BY <2>1, <2>2 DEF LogInv
<1>5. PipeInv
  BY <1>1, <1>2 DEF PipeInv, AllAudited, Between, Verdicts
<1>6. DoneInv
  BY <1>1, <1>2, AgendaFacts DEF DoneInv
<1>7. AuditedInv
  <2>1. Relevant = RelevantIn(mode)
    BY DEF Relevant, RelevantIn
  <2>2. \A i \in 1..Len(agenda) : agenda[i].gf <=> agenda[i].cohort \in Relevant
    BY <1>1, <2>1, AgendaFacts
  <2> QED BY <1>2, <2>2 DEF AuditedInv
<1>8. PassIsEarned
  BY <1>1 DEF PassIsEarned
<1> QED BY <1>3, <1>4, <1>5, <1>6, <1>7, <1>8 DEF AuditInv

LEMMA NextAuditStep == NextAudit => AuditInv'
<1>1. AuditStart => AuditInv
  BY AuditStartOK
<1>2. NextAudit => AuditStart'
  BY DEF NextAudit, AuditStart
<1> QED BY <1>1, <1>2, PTL

LEMMA AuditNextOK ==
  ASSUME AuditInv, [AuditNext]_auditVars
  PROVE  AuditInv'
<1>1. CASE UNCHANGED auditVars
  <2>1. Relevant' = Relevant
    BY <1>1 DEF Relevant, auditVars
  <2>2. AuditTypes' /\ LogInv'
    BY <1>1 DEF auditVars, AuditInv, AuditTypes, LogInv, Reported
  <2>3. PipeInv'
    BY <1>1
    DEF auditVars, AuditInv, PipeInv, NoInput, NoReply, OneReply, OkReply, LastDone,
        AllAudited, OneToAudit, Waiting, Answered, Refused
  <2>4. DoneInv' /\ AuditedInv'
    BY <1>1, <2>1 DEF auditVars, AuditInv, DoneInv, AuditedInv
  <2>5. PassIsEarned'
    BY <1>1 DEF auditVars, AuditInv, PassIsEarned
  <2> QED BY <2>2, <2>3, <2>4, <2>5 DEF AuditInv
<1> QED BY <1>1, WorkerStepOK, PrepareStep, OpenWorkerStep, BootedStep, BootFailsStep,
           SendTurnStep, TakeAnswerStep, TurnFailsStep, FindPhasesStep, AuditTurnStep,
           CloseStep, CloseEndsStep, EndSessionStep, ReportStep, NextAuditStep DEF AuditNext

LEMMA AuditFollows ==
  ASSUME AuditInv
  PROVE  AuditIsTrue
<1>1. AuditTypes /\ AuditedInv /\ PassIsEarned
  BY DEF AuditInv
<1>2. /\ DOMAIN audited = 1..Len(audited) /\ DOMAIN done = 1..Len(done)
      /\ Len(audited) \in Nat /\ Len(done) \in Nat /\ Len(audited) <= Len(done)
  <2>1. PICK S : audited \in Seq(S)
    BY <1>1 DEF AuditTypes
  <2>2. done \in Seq(Turns)
    BY <1>1 DEF AuditTypes
  <2> QED BY <1>1, <2>1, <2>2, LenProperties DEF AuditedInv
<1>3. \A i \in DOMAIN audited : i \in DOMAIN done /\ Audits(audited[i], done[i])
  BY <1>1, <1>2 DEF AuditedInv
<1>4. OwnEvidence
  BY <1>3 DEF OwnEvidence, Audits
<1> QED BY <1>1, <1>4 DEF AuditIsTrue

(* Whatever the workers do, and however late their lines and answers are   *)
(* read: an audited turn carries its own phases, answer and trace, and a   *)
(* release passes only when every turn with GF was done by the grammar     *)
(* (gf_release_audit.py audit_turn, summarize_turns, main).                *)
THEOREM SpecAuditIsTrue == AuditSpec => []AuditIsTrue
<1>1. AuditInit => AuditInv
  BY AuditStartOK DEF AuditInit
<1>2. AuditInv /\ [AuditNext]_auditVars => AuditInv'
  BY AuditNextOK
<1> QED BY <1>1, <1>2, AuditFollows, PTL DEF AuditSpec

-----------------------------------------------------------------------------
(* The campaign.  The counters of the session under way are the lengths of *)
(* the streaks its records end with, so no streak outgrows its limit; the  *)
(* sessions filed keep that, and their incidents are those streaks.        *)
Statuses   == {"transport_error", "invalid_response", "validation_reject", "sandbox_reject", "accept"}
Transport  == {"transport_error"}
Unparsed   == {"invalid_response"}
Unusable   == {"transport_error", "invalid_response", "validation_reject"}
Sandboxed  == {"sandbox_reject"}
Reasons    == {"", "accept", "degrading_conatus", "negative_net_score", "high_repair_loop_risk"}
SessionIds == Models \X Nat

TurnRecords ==
  {r \in [mode : Modes, id : SessionIds, turn : Nat, status : Statuses, reason : Reasons,
          conatus : Int, predictive : Int, graft : BOOLEAN, breaker : Nat] :
     /\ r.graft = (r.status = "accept")
     /\ r.status # "accept" => r.breaker > 0}
IncidentRecords ==
  [type : {"transport", "validator", "sandbox", "breaker_lock", "reject_loop"},
   mode : Modes, id : SessionIds, first : Nat, last : Nat]

(* Stretches of records with a status in B, between two turns. *)
AllIn(q, B, a, b) == \A k \in a..b : q[k].status \in B
(* The streak q ends with is no longer than c; it is no shorter than c. *)
AtMost(q, B, c) == \A a \in DOMAIN q : AllIn(q, B, a, Len(q)) => Len(q) - a + 1 <= c
AtLeast(q, B, c) ==
  c <= Len(q) /\ \A a \in DOMAIN q : Len(q) - a + 1 <= c => AllIn(q, B, a, Len(q))
(* No streak reached the limit; one did, and that ended the session. *)
Below(q, B, limit) ==
  \A a, b \in DOMAIN q : a <= b /\ AllIn(q, B, a, b) => b - a + 1 < limit
Within(q, B, limit) ==
  \A a, b \in DOMAIN q : a <= b /\ AllIn(q, B, a, b) /\ b - a + 1 >= limit
                            => b = Len(q) /\ b - a + 1 = limit

Aborted(type, m, id, first, last) ==
  [type |-> type, mode |-> m, id |-> id, first |-> first, last |-> last]
SessionOver(q, m, id, found) ==
  /\ Within(q, Transport, TransportLimit)
  /\ Within(q, Unparsed, ValidatorLimit)
  /\ Within(q, Sandboxed, SandboxLimit)
  /\ \A a \in DOMAIN q :
       AllIn(q, Transport, a, Len(q)) /\ Len(q) - a + 1 >= TransportLimit
         => Aborted("transport", m, id, a, Len(q)) \in found
Fits(i, q) ==
  /\ i.last = Len(q) /\ i.first \in 1..i.last
  /\ i.type = "transport" => /\ AllIn(q, Transport, i.first, i.last)
                             /\ i.last - i.first + 1 >= TransportLimit
  /\ i.type = "validator" => /\ AllIn(q, Unusable, i.first, i.last)
                             /\ i.last - i.first + 1 >= ValidatorLimit
  /\ i.type = "sandbox"   => /\ AllIn(q, Sandboxed, i.first, i.last)
                             /\ i.last - i.first + 1 >= SandboxLimit

IdsOf(rs) == {rs[i].id : i \in DOMAIN rs}
Own(rs, id) == {i \in DOMAIN rs : rs[i].id = id}
NoneTwice(rs) ==
  \A i, j \in DOMAIN rs : rs[i].id = rs[j].id /\ rs[i].turn = rs[j].turn => i = j

Agenda(q) == q \in Seq(SessionIds) /\ \A i, j \in DOMAIN q : q[i] = q[j] => i = j
Streaks == [transport : Nat, validator : Nat, sandbox : Nat, loop : Nat, breaker : Nat]

CampaignTypes ==
  /\ phase \in Modes \cup {"analyze", "done"}
  /\ Agenda(todo) /\ results \in Seq(TurnRecords) /\ streak \in Streaks
  /\ records \in [Modes -> Seq(TurnRecords)]
  /\ incidents \subseteq IncidentRecords
AgendaInv ==
  /\ todo = <<>> => results = <<>>
  /\ phase \notin Modes => todo = <<>>
  /\ phase = "live" => records["mock"] = <<>>
  /\ phase \in Modes => \A i \in DOMAIN todo : todo[i] \notin IdsOf(records[phase])
UnderWay ==
  /\ \A t \in DOMAIN results : results[t].turn = t /\ results[t].id = Head(todo)
  /\ AtMost(results, Transport, streak.transport) /\ AtLeast(results, Transport, streak.transport)
  /\ AtMost(results, Unparsed, streak.validator)  /\ AtLeast(results, Unusable, streak.validator)
  /\ AtMost(results, Sandboxed, streak.sandbox)   /\ AtLeast(results, Sandboxed, streak.sandbox)
  /\ SessionOver(results, phase, Head(todo), incidents)
  /\ ending = "" => /\ Below(results, Transport, TransportLimit)
                    /\ Below(results, Unparsed, ValidatorLimit)
                    /\ Below(results, Sandboxed, SandboxLimit)
FiledInv ==
  \A m \in Modes :
    /\ NoneTwice(records[m])
    /\ \A id \in IdsOf(records[m]) :
         /\ SessionRecords(records[m], id) \in Seq(TurnRecords)
         /\ SessionOver(SessionRecords(records[m], id), m, id, incidents)
IncidentsInv ==
  \A i \in incidents :
    \/ /\ i.id \in IdsOf(records[i.mode])
       /\ Fits(i, SessionRecords(records[i.mode], i.id))
    \/ /\ phase = i.mode /\ todo # <<>> /\ i.id = Head(todo) /\ ending # ""
       /\ Fits(i, results)
Analysis ==
  [incidents |-> DetectedIn("live") \cup DetectedIn("mock"),
   metrics |-> [m \in Modes |-> Metrics(records[m])],
   quality |-> DataQuality(records["live"] \o records["mock"]),
   status |-> Verdict(records["live"], records["mock"], Cardinality(DetectedIn("mock")))]
CampaignInv ==
  /\ CampaignTypes /\ AgendaInv /\ UnderWay /\ FiledInv /\ IncidentsInv
  /\ phase = "done" => report = Analysis

-----------------------------------------------------------------------------
(* A turn lengthens a streak or ends it. *)
LEMMA TurnAppended ==
  ASSUME NEW S, NEW q \in Seq(S), NEW r \in S
  PROVE  /\ Append(q, r) \in Seq(S) /\ Len(q) \in Nat /\ Len(Append(q, r)) = Len(q) + 1
         /\ DOMAIN q = 1..Len(q) /\ DOMAIN Append(q, r) = 1..(Len(q) + 1)
         /\ \A k \in 1..Len(q) : Append(q, r)[k] = q[k]
         /\ Append(q, r)[Len(q) + 1] = r
OBVIOUS

LEMMA AtMostStep ==
  ASSUME NEW S, NEW q \in Seq(S), NEW r \in S, NEW B, NEW c \in Nat, NEW d \in Nat,
         AtMost(q, B, c), r.status \in B => d >= c + 1
  PROVE  AtMost(Append(q, r), B, d)
<1> DEFINE p == Append(q, r)
           n == Len(q)
<1>1. /\ n \in Nat /\ Len(p) = n + 1 /\ DOMAIN q = 1..n /\ DOMAIN p = 1..(n + 1)
      /\ p[n + 1] = r /\ \A k \in 1..n : p[k] = q[k]
  BY TurnAppended
<1>2. \A a \in 1..n : AllIn(q, B, a, n) => n - a + 1 <= c
  BY <1>1 DEF AtMost
<1> HIDE DEF p, n
<1>3. ASSUME NEW a \in 1..(n + 1), AllIn(p, B, a, n + 1) PROVE (n + 1) - a + 1 <= d
  <2>1. r.status \in B /\ d >= c + 1
    BY <1>1, <1>3 DEF AllIn
  <2>2. CASE a = n + 1
    BY <1>1, <2>1, <2>2
  <2>3. CASE a \in 1..n
    <3>1. AllIn(q, B, a, n)
      BY <1>1, <1>3, <2>3 DEF AllIn
    <3> QED BY <1>1, <1>2, <2>1, <2>3, <3>1
  <2> QED BY <1>1, <2>2, <2>3
<1>4. AtMost(p, B, d)
  BY <1>1, <1>3 DEF AtMost
<1> QED BY <1>4 DEF p

LEMMA AtLeastStep ==
  ASSUME NEW S, NEW q \in Seq(S), NEW r \in S, NEW B, NEW c \in Nat, NEW d \in Nat,
         AtLeast(q, B, c), d = 0 \/ (r.status \in B /\ d <= c + 1)
  PROVE  AtLeast(Append(q, r), B, d)
<1> DEFINE p == Append(q, r)
           n == Len(q)
<1>1. /\ n \in Nat /\ Len(p) = n + 1 /\ DOMAIN q = 1..n /\ DOMAIN p = 1..(n + 1)
      /\ p[n + 1] = r /\ \A k \in 1..n : p[k] = q[k]
  BY TurnAppended
<1>2. c <= n /\ \A a \in 1..n : n - a + 1 <= c => AllIn(q, B, a, n)
  BY <1>1 DEF AtLeast
<1> HIDE DEF p, n
<1>3. d <= n + 1
  BY <1>1, <1>2
<1>4. ASSUME NEW a \in 1..(n + 1), (n + 1) - a + 1 <= d PROVE AllIn(p, B, a, n + 1)
  <2>1. r.status \in B /\ d <= c + 1
    BY <1>1, <1>4
  <2>2. a \in 1..n => AllIn(q, B, a, n)
    BY <1>1, <1>2, <1>4, <2>1
  <2> QED BY <1>1, <2>1, <2>2 DEF AllIn
<1>5. AtLeast(p, B, d)
  BY <1>1, <1>3, <1>4 DEF AtLeast
<1> QED BY <1>5 DEF p

LEMMA WithinStep ==
  ASSUME NEW S, NEW q \in Seq(S), NEW r \in S, NEW B, NEW limit \in Nat \ {0},
         Below(q, B, limit)
  PROVE  /\ Within(Append(q, r), B, limit)
         /\ \A c \in Nat : (r.status \in B => AtMost(Append(q, r), B, c) /\ c < limit)
                             => Below(Append(q, r), B, limit)
<1> DEFINE p == Append(q, r)
           n == Len(q)
<1>1. /\ n \in Nat /\ Len(p) = n + 1 /\ DOMAIN q = 1..n /\ DOMAIN p = 1..(n + 1)
      /\ p[n + 1] = r /\ \A k \in 1..n : p[k] = q[k]
  BY TurnAppended
<1>2. \A a, b \in 1..n : a <= b /\ AllIn(q, B, a, b) => b - a + 1 < limit
  BY <1>1 DEF Below
<1> HIDE DEF p, n
<1>3. \A a, b \in 1..n : a <= b /\ AllIn(p, B, a, b) => b - a + 1 < limit
  <2> TAKE a, b \in 1..n
  <2> HAVE a <= b /\ AllIn(p, B, a, b)
  <2>1. AllIn(q, B, a, b)
    BY <1>1 DEF AllIn
  <2> QED BY <1>2, <2>1
<1>4. Within(p, B, limit)
  <2> SUFFICES ASSUME NEW a \in 1..(n + 1), NEW b \in 1..(n + 1), a <= b,
                      AllIn(p, B, a, b), b - a + 1 >= limit
               PROVE  b = n + 1 /\ b - a + 1 = limit
    BY <1>1 DEF Within
  <2>1. b = n + 1
    BY <1>1, <1>3
  <2>2. CASE a = n + 1
    BY <1>1, <2>1, <2>2
  <2>3. CASE a \in 1..n
    <3>1. AllIn(p, B, a, n) /\ n \in 1..n
      BY <1>1, <2>1, <2>3 DEF AllIn
    <3>2. n - a + 1 < limit
      BY <1>1, <1>3, <2>3, <3>1
    <3> QED BY <1>1, <2>1, <2>3, <3>2
  <2> QED BY <1>1, <2>1, <2>2, <2>3
<1>5. ASSUME NEW c \in Nat, r.status \in B => AtMost(p, B, c) /\ c < limit
      PROVE  Below(p, B, limit)
  <2> SUFFICES ASSUME NEW a \in 1..(n + 1), NEW b \in 1..(n + 1), a <= b, AllIn(p, B, a, b)
               PROVE  b - a + 1 < limit
    BY <1>1 DEF Below
  <2>1. CASE b = n + 1
    <3>1. r.status \in B
      BY <1>1, <2>1 DEF AllIn
    <3>2. (n + 1) - a + 1 <= c /\ c < limit
      BY <1>1, <1>5, <2>1, <3>1 DEF AtMost
    <3> QED BY <1>1, <2>1, <3>2
  <2>2. CASE b # n + 1
    BY <1>1, <1>3, <2>2
  <2> QED BY <2>1, <2>2
<1> QED BY <1>4, <1>5 DEF p

-----------------------------------------------------------------------------
(* The records of a session that joins the others. *)
Collects(q, rs, id) ==
  /\ q = [t \in {rs[i].turn : i \in Own(rs, id)} |-> q[t]]
  /\ \A i \in Own(rs, id) : q[rs[i].turn] = rs[i]

LEMMA SessionIs ==
  ASSUME NEW rs, NEW id, NoneTwice(rs)
  PROVE  Collects(SessionRecords(rs, id), rs, id)
<1> DEFINE own == Own(rs, id)
           q == SessionRecords(rs, id)
<1>1. q = [t \in {rs[i].turn : i \in own} |-> rs[CHOOSE i \in own : rs[i].turn = t]]
  BY DEF SessionRecords, Own
<1>2. \A i, j \in own : rs[i].turn = rs[j].turn => i = j
  BY DEF NoneTwice, Own
<1> HIDE DEF own, q
<1>3. ASSUME NEW i \in own PROVE q[rs[i].turn] = rs[i]
  <2> DEFINE j == CHOOSE j \in own : rs[j].turn = rs[i].turn
  <2>1. j \in own /\ rs[j].turn = rs[i].turn
    OBVIOUS
  <2>2. j = i
    <3> HIDE DEF j
    <3> QED BY <1>2, <2>1
  <2>3. q[rs[i].turn] = rs[j]
    BY <1>1
  <2> QED BY <2>2, <2>3
<1> QED BY <1>1, <1>3 DEF own, q, Collects

LEMMA Appended ==
  ASSUME NEW S, NEW rs \in Seq(S), NEW q \in Seq(S)
  PROVE  /\ rs \o q \in Seq(S) /\ Len(rs) \in Nat /\ Len(q) \in Nat
         /\ DOMAIN rs = 1..Len(rs) /\ DOMAIN q = 1..Len(q)
         /\ DOMAIN (rs \o q) = 1..(Len(rs) + Len(q))
         /\ \A i \in 1..Len(rs) : (rs \o q)[i] = rs[i]
         /\ \A i \in 1..Len(q) : (rs \o q)[Len(rs) + i] = q[i]
OBVIOUS

LEMMA SessionFiled ==
  ASSUME NEW S, NEW rs \in Seq(S), NEW q \in Seq(S), NEW id, id \notin IdsOf(rs), NoneTwice(rs),
         \A t \in DOMAIN q : q[t].turn = t /\ q[t].id = id
  PROVE  /\ NoneTwice(rs \o q)
         /\ IdsOf(rs \o q) \subseteq IdsOf(rs) \cup {id}
         /\ IdsOf(rs) \subseteq IdsOf(rs \o q)
         /\ q # <<>> => id \in IdsOf(rs \o q)
         /\ id \in IdsOf(rs \o q) => SessionRecords(rs \o q, id) = q
         /\ \A d \in IdsOf(rs) : SessionRecords(rs \o q, d) = SessionRecords(rs, d)
<1> DEFINE m == Len(rs)
           n == Len(q)
           all == rs \o q
<1>1. /\ m \in Nat /\ n \in Nat /\ DOMAIN rs = 1..m /\ DOMAIN q = 1..n
      /\ DOMAIN all = 1..(m + n)
      /\ \A i \in 1..m : all[i] = rs[i]
      /\ \A i \in 1..n : all[m + i] = q[i]
  BY Appended
<1>2. q = [t \in 1..n |-> q[t]] /\ (q # <<>> => n # 0)
  OBVIOUS
<1> HIDE DEF m, n, all
<1>3. \A i \in 1..(m + n) : i \in 1..m \/ \E t \in 1..n : i = m + t
  <2> TAKE i \in 1..(m + n)
  <2>1. i \in 1..m \/ (i - m \in 1..n /\ i = m + (i - m))
    BY <1>1
  <2> QED BY <2>1
<1>4. \A t \in 1..n : m + t \in 1..(m + n)
  BY <1>1
<1>5. \A i \in 1..m : i \in 1..(m + n) /\ all[i] = rs[i] /\ rs[i].id \in IdsOf(rs)
  BY <1>1 DEF IdsOf
<1>6. \A t \in 1..n : all[m + t].turn = t /\ all[m + t].id = id
  BY <1>1
<1>7. NoneTwice(all)
  <2> SUFFICES ASSUME NEW i \in 1..(m + n), NEW j \in 1..(m + n),
                      all[i].id = all[j].id, all[i].turn = all[j].turn
               PROVE  i = j
    BY <1>1 DEF NoneTwice
  <2>1. CASE i \in 1..m /\ j \in 1..m
    <3>1. rs[i].id = rs[j].id /\ rs[i].turn = rs[j].turn
      BY <1>5, <2>1
    <3> QED BY <1>1, <2>1, <3>1 DEF NoneTwice
  <2>2. CASE i \in 1..m /\ \E t \in 1..n : j = m + t
    BY <1>5, <1>6, <2>2
  <2>3. CASE j \in 1..m /\ \E t \in 1..n : i = m + t
    BY <1>5, <1>6, <2>3
  <2>4. CASE (\E t \in 1..n : i = m + t) /\ (\E t \in 1..n : j = m + t)
    BY <1>6, <2>4
  <2> QED BY <1>3, <2>1, <2>2, <2>3, <2>4
<1>8. IdsOf(all) \subseteq IdsOf(rs) \cup {id}
  <2> SUFFICES ASSUME NEW i \in 1..(m + n) PROVE all[i].id \in IdsOf(rs) \cup {id}
    BY <1>1 DEF IdsOf
  <2> QED BY <1>3, <1>5, <1>6
<1>9. IdsOf(rs) \subseteq IdsOf(all)
  BY <1>1, <1>5 DEF IdsOf
<1>10. ASSUME q # <<>> PROVE id \in IdsOf(all)
  <2>1. 1 \in 1..n
    BY <1>1, <1>2, <1>10
  <2> QED BY <1>1, <1>4, <1>6, <2>1 DEF IdsOf
<1>11. SessionRecords(all, id) = q
  <2>1. \A i \in Own(all, id) : \E t \in 1..n : i = m + t
    <3> SUFFICES ASSUME NEW i \in Own(all, id), i \in 1..m PROVE FALSE
      BY <1>1, <1>3 DEF Own
    <3>1. rs[i].id = id
      BY <1>5 DEF Own
    <3> QED BY <1>5, <3>1
  <2>2. \A t \in 1..n : m + t \in Own(all, id)
    BY <1>1, <1>4, <1>6 DEF Own
  <2>3. {all[i].turn : i \in Own(all, id)} = 1..n
    BY <1>6, <2>1, <2>2
  <2>4. Collects(SessionRecords(all, id), all, id)
    BY <1>7, SessionIs
  <2> DEFINE r == SessionRecords(all, id)
  <2> HIDE DEF r
  <2>5. \A t \in 1..n : r[t] = q[t]
    <3> TAKE t \in 1..n
    <3>1. m + t \in Own(all, id) /\ all[m + t].turn = t /\ all[m + t] = q[t]
      BY <1>1, <1>6, <2>2
    <3> QED BY <2>4, <3>1 DEF Collects, r
  <2>6. r = [t \in 1..n |-> r[t]]
    BY <2>3, <2>4 DEF Collects, r
  <2> QED BY <1>2, <2>5, <2>6 DEF r
<1>12. ASSUME NEW d \in IdsOf(rs) PROVE SessionRecords(all, d) = SessionRecords(rs, d)
  <2>1. d # id
    BY <1>12
  <2>2. Own(all, d) = Own(rs, d)
    <3>1. ASSUME NEW i \in Own(all, d) PROVE i \in Own(rs, d)
      <4>1. i \in 1..(m + n) /\ all[i].id = d
        BY <1>1, <3>1 DEF Own
      <4>2. i \in 1..m
        BY <1>3, <1>6, <2>1, <4>1
      <4> QED BY <1>1, <1>5, <4>1, <4>2 DEF Own
    <3>2. ASSUME NEW i \in Own(rs, d) PROVE i \in Own(all, d)
      <4>1. i \in 1..m /\ rs[i].id = d
        BY <1>1, <3>2 DEF Own
      <4> QED BY <1>1, <1>5, <4>1 DEF Own
    <3> QED BY <3>1, <3>2
  <2>3. \A i \in Own(rs, d) : all[i] = rs[i]
    BY <1>1 DEF Own
  <2> DEFINE ts == {rs[i].turn : i \in Own(rs, d)}
  <2>4. {all[i].turn : i \in Own(all, d)} = ts
    BY <2>2, <2>3
  <2>5. Collects(SessionRecords(all, d), all, d) /\ Collects(SessionRecords(rs, d), rs, d)
    BY <1>7, SessionIs
  <2> DEFINE p == SessionRecords(all, d)
             r == SessionRecords(rs, d)
  <2> HIDE DEF p, r
  <2>6. \A i \in Own(rs, d) : p[rs[i].turn] = r[rs[i].turn]
    <3>1. \A i \in Own(rs, d) : p[all[i].turn] = all[i]
      BY <2>2, <2>5 DEF Collects, p
    <3>2. \A i \in Own(rs, d) : r[rs[i].turn] = rs[i]
      BY <2>5 DEF Collects, r
    <3> QED BY <2>3, <3>1, <3>2
  <2>7. p = [t \in ts |-> p[t]]
    <3> HIDE DEF ts
    <3> QED BY <2>4, <2>5 DEF Collects, p
  <2>8. r = [t \in ts |-> r[t]]
    BY <2>5 DEF Collects, r
  <2>9. \A t \in ts : p[t] = r[t]
    BY <2>6
  <2> HIDE DEF ts
  <2> QED BY <2>7, <2>8, <2>9 DEF p, r
<1> QED BY <1>7, <1>8, <1>9, <1>10, <1>11, <1>12 DEF all

-----------------------------------------------------------------------------
(* The sessions of a pass are all different. *)
LEMMA ListOf ==
  ASSUME NEW S, IsFiniteSet(S)
  PROVE  /\ SetToSeq(S) \in Seq(S)
         /\ \A i, j \in DOMAIN SetToSeq(S) : SetToSeq(S)[i] = SetToSeq(S)[j] => i = j
<1> DEFINE n == Cardinality(S)
           C(f) == f \in [1..n -> S] /\ IsInjective(f)
<1>1. n \in Nat /\ ExistsBijection(1..n, S)
  BY FS_CardinalityType
<1>2. \E f : C(f)
  BY <1>1, Fun_ExistsBij DEF Bijection, Injection
<1>3. SetToSeq(S) = CHOOSE f : C(f)
  BY Zenon DEF SetToSeq
<1>4. C(SetToSeq(S))
  <2> HIDE DEF C
  <2> QED BY <1>2, <1>3, Zenon
<1> DEFINE q == SetToSeq(S)
<1> HIDE DEF q, n
<1>5. q \in [1..n -> S] /\ IsInjective(q)
  BY <1>4 DEF q
<1> QED BY <1>1, <1>5 DEF IsInjective, q

LEMMA DivMod ==
  ASSUME NEW n \in Nat \ {0}, NEW i \in Nat, NEW k \in Nat, i < k * n
  PROVE  i \div n \in 0..(k - 1) /\ i % n \in 0..(n - 1) /\ i = n * (i \div n) + (i % n)
<1>1. i \div n \in Int /\ i % n \in 0..(n - 1) /\ i = n * (i \div n) + (i % n)
  OBVIOUS
<1> DEFINE d == i \div n
           m == i % n
<1> HIDE DEF d, m
<1>2. d \in Int /\ m \in 0..(n - 1) /\ i = n * d + m
  BY <1>1 DEF d, m
<1>3. d >= 0
  <2> SUFFICES ASSUME d <= -1 PROVE FALSE
    BY <1>2
  <2>1. n * d <= n * (-1)
    BY <1>2
  <2> QED BY <1>2, <2>1
<1>4. d <= k - 1
  <2> SUFFICES ASSUME d >= k PROVE FALSE
    BY <1>2
  <2>1. n * d >= n * k
    BY <1>2
  <2> QED BY <1>2, <2>1
<1> QED BY <1>2, <1>3, <1>4 DEF d, m

LEMMA LiveAgenda ==
  ASSUME NEW available \in SUBSET Models
  PROVE  Agenda(LiveSessions(available))
<1>1. IsFiniteSet(available)
  BY SoakAssumption, FS_Subset
<1> DEFINE ms == SetToSeq(available)
<1>2. ms \in Seq(available) /\ \A i, j \in DOMAIN ms : ms[i] = ms[j] => i = j
  BY <1>1, ListOf
<1>3. LiveSessions(available) = [i \in DOMAIN ms |-> <<ms[i], 1>>]
  BY DEF LiveSessions
<1> HIDE DEF ms
<1>4. DOMAIN ms = 1..Len(ms) /\ Len(ms) \in Nat /\ \A i \in 1..Len(ms) : ms[i] \in Models
  BY <1>2
<1>5. \A i \in 1..Len(ms) : <<ms[i], 1>> \in SessionIds
  BY <1>4 DEF SessionIds
<1>6. LiveSessions(available) \in Seq(SessionIds)
  BY <1>3, <1>4, <1>5
<1> QED BY <1>2, <1>3, <1>4, <1>6 DEF Agenda

LEMMA MockAgenda == Agenda(AllMockSessions)
<1> DEFINE k == Len(Models1)
           n == MockSessions
           q == AllMockSessions
<1>1. Models1 \in Seq(Models) /\ \A i, j \in DOMAIN Models1 : Models1[i] = Models1[j] => i = j
  BY SoakAssumption, ListOf DEF Models1
<1>2. k \in Nat /\ n \in Nat /\ DOMAIN Models1 = 1..k /\ \A i \in 1..k : Models1[i] \in Models
  BY <1>1, SoakAssumption
<1>3. q = [i \in 1..(k * n) |-> <<Models1[((i - 1) \div n) + 1], ((i - 1) % n) + 1>>]
  BY DEF AllMockSessions
<1> HIDE DEF k, n, q
<1>4. k * n \in Nat
  BY <1>2
<1> DEFINE d(i) == (i - 1) \div n
           m(i) == (i - 1) % n
<1>5. ASSUME NEW i \in 1..(k * n)
      PROVE  d(i) \in 0..(k - 1) /\ m(i) \in Nat /\ i - 1 = n * d(i) + m(i)
  <2>1. n # 0
    BY <1>2, <1>5
  <2>2. n \in Nat \ {0} /\ i - 1 \in Nat /\ i - 1 < k * n
    BY <1>2, <1>4, <2>1
  <2> DEFINE j == i - 1
  <2> HIDE DEF j
  <2>3. j \div n \in 0..(k - 1) /\ j % n \in 0..(n - 1) /\ j = n * (j \div n) + (j % n)
    BY <1>2, <2>2, DivMod DEF j
  <2> QED BY <1>2, <2>2, <2>3 DEF j
<1> HIDE DEF d, m
<1>6. \A i \in 1..(k * n) : q[i] = <<Models1[d(i) + 1], m(i) + 1>>
  BY <1>3 DEF d, m
<1>7. \A i \in 1..(k * n) : d(i) + 1 \in 1..k
  BY <1>2, <1>5
<1>8. ASSUME NEW i \in 1..(k * n) PROVE q[i] \in SessionIds
  <2>1. Models1[d(i) + 1] \in Models
    BY <1>2, <1>7
  <2>2. m(i) + 1 \in Nat
    BY <1>5
  <2>3. <<Models1[d(i) + 1], m(i) + 1>> \in SessionIds
    BY <2>1, <2>2 DEF SessionIds
  <2>4. q[i] = <<Models1[d(i) + 1], m(i) + 1>>
    BY <1>6
  <2> QED BY <2>3, <2>4
<1>9. q \in Seq(SessionIds) /\ DOMAIN q = 1..(k * n)
  BY <1>3, <1>4, <1>8
<1>10. ASSUME NEW i \in 1..(k * n), NEW j \in 1..(k * n), q[i] = q[j] PROVE i = j
  <2>1. Models1[d(i) + 1] = Models1[d(j) + 1] /\ m(i) + 1 = m(j) + 1
    BY <1>6, <1>10
  <2>2. d(i) + 1 = d(j) + 1
    BY <1>1, <1>2, <1>7, <2>1
  <2>3. d(i) = d(j) /\ m(i) = m(j)
    BY <1>5, <2>1, <2>2
  <2>4. i - 1 = j - 1
    BY <1>5, <2>3
  <2> QED BY <2>4
<1> QED BY <1>9, <1>10 DEF Agenda, q

-----------------------------------------------------------------------------
(* A turn. *)
LEMMA AnswersAre ==
  ASSUME CampaignTypes, phase \in Modes, NEW a \in Answers
  PROVE  /\ a.kind \in {"error", "text", "short", "payload"}
         /\ a.kind = "payload" => a.conatus \in Int /\ a.predictive \in Int
<1>1. CASE a \in LiveAnswers
  <2>1. CASE a \in {[kind |-> k] : k \in {"error", "text", "short"}}
    BY <2>1
  <2>2. CASE \E d \in LiveDeltas : a = Payload(d[1], d[2])
    BY <2>2, SoakAssumption DEF Payload
  <2> QED BY <1>1, <2>1, <2>2 DEF LiveAnswers
<1>2. CASE a \in MockTable(Head(todo)[1])
  <2>1. \/ a = Payload(3, 2) \/ a = Payload(-5, 0) \/ a = [kind |-> "text"]
    BY <1>2 DEF MockTable
  <2> QED BY <2>1 DEF Payload
<1> QED BY <1>1, <1>2 DEF Answers

LEMMA CountIs ==
  ASSUME NEW t \in Nat, NEW v \in Nat, NEW s \in Nat, NEW l \in Nat, NEW b \in Nat,
         NEW status \in Statuses
  PROVE  LET old == [transport |-> t, validator |-> v, sandbox |-> s, loop |-> l, breaker |-> b]
             new == Count(old, status) IN
         /\ new \in Streaks
         /\ new.transport = IF status = "transport_error" THEN t + 1 ELSE 0
         /\ status \in Unusable =>
              IF status = "validation_reject" THEN new.validator = 1 ELSE new.validator = v + 1
         /\ status \notin Unusable => new.validator = 0
         /\ new.sandbox = IF status = "sandbox_reject" THEN s + 1 ELSE 0
         /\ status # "accept" => new.breaker > 0
<1> DEFINE old == [transport |-> t, validator |-> v, sandbox |-> s, loop |-> l, breaker |-> b]
           new == Count(old, status)
<1>1. CASE status = "transport_error"
  <2>1. new = [transport |-> t + 1, validator |-> v + 1, sandbox |-> 0, loop |-> l + 1, breaker |-> b + 1]
    BY <1>1 DEF Count
  <2> HIDE DEF new
  <2> QED BY <1>1, <2>1 DEF Streaks, Unusable, new
<1>2. CASE status = "invalid_response"
  <2>1. new = [transport |-> 0, validator |-> v + 1, sandbox |-> 0, loop |-> l + 1, breaker |-> b + 1]
    BY <1>2 DEF Count
  <2> HIDE DEF new
  <2> QED BY <1>2, <2>1 DEF Streaks, Unusable, new
<1>3. CASE status = "validation_reject"
  <2>1. new = [transport |-> 0, validator |-> 1, sandbox |-> 0, loop |-> l + 1, breaker |-> b + 1]
    BY <1>3 DEF Count
  <2> HIDE DEF new
  <2> QED BY <1>3, <2>1 DEF Streaks, Unusable, new
<1>4. CASE status = "sandbox_reject"
  <2>1. new = [transport |-> 0, validator |-> 0, sandbox |-> s + 1, loop |-> l + 1, breaker |-> b + 1]
    BY <1>4 DEF Count
  <2> HIDE DEF new
  <2> QED BY <1>4, <2>1 DEF Streaks, Unusable, new
<1>5. CASE status = "accept"
  <2>1. new = [transport |-> 0, validator |-> 0, sandbox |-> 0, loop |-> 0, breaker |-> Maximum(0, b - 1)]
    BY <1>5 DEF Count
  <2>2. Maximum(0, b - 1) \in Nat
    BY DEF Maximum
  <2> HIDE DEF new
  <2> QED BY <1>5, <2>1, <2>2 DEF Streaks, Unusable, new
<1> QED BY <1>1, <1>2, <1>3, <1>4, <1>5 DEF Statuses

LEMMA StopIs ==
  ASSUME NEW status \in Statuses, NEW s, NEW stop, stop = StopReason(status, s)
  PROVE  /\ stop \in {"", "transport_streak", "validator_streak", "sandbox_streak",
                      "breaker_lock", "reject_loop"}
         /\ stop = "transport_streak" <=> status \in Transport /\ s.transport >= TransportLimit
         /\ stop = "validator_streak" => status \in Unusable /\ s.validator >= ValidatorLimit
         /\ status \in Unparsed /\ s.validator >= ValidatorLimit => stop = "validator_streak"
         /\ stop = "sandbox_streak" <=> status \in Sandboxed /\ s.sandbox >= SandboxLimit
BY DEF StopReason, Statuses, Transport, Unusable, Unparsed, Sandboxed

LEMMA RecordIs ==
  ASSUME CampaignTypes, phase \in Modes, todo # <<>>, NEW a \in Answers,
         NEW s \in Streaks, Status(a) # "accept" => s.breaker > 0
  PROVE  /\ Status(a) \in Statuses
         /\ Record(a, s) \in TurnRecords
         /\ Record(a, s).status = Status(a)
         /\ Record(a, s).turn = Len(results) + 1
         /\ Record(a, s).id = Head(todo)
<1>1. /\ a.kind \in {"error", "text", "short", "payload"}
      /\ a.kind = "payload" => a.conatus \in Int /\ a.predictive \in Int
  BY AnswersAre
<1>2. Status(a) \in Statuses
  BY <1>1 DEF Status, Statuses
<1>3. Reason(a) \in Reasons
  <2>1. \A c, p, h : SandboxReason(c, p, h) \in Reasons
    BY DEF SandboxReason, Reasons
  <2>2. "" \in Reasons
    BY DEF Reasons
  <2> QED BY <2>1, <2>2 DEF Reason
<1>4. Head(todo) \in SessionIds /\ Len(results) + 1 \in Nat
  BY DEF CampaignTypes, Agenda
<1>5. s.breaker \in Nat
  BY DEF Streaks
<1>6. Record(a, s) \in TurnRecords
  BY <1>1, <1>2, <1>3, <1>4, <1>5 DEF Record, TurnRecords
<1> QED BY <1>2, <1>6 DEF Record

(* What Turn changes: s is the new streak, r the new record. *)
TurnTaken(r, s, status) ==
  /\ status \in Statuses /\ r \in TurnRecords /\ r.status = status
  /\ r.turn = Len(results) + 1 /\ r.id = Head(todo)
  /\ s = Count(streak, status) /\ ending = ""
  /\ results' = Append(results, r) /\ streak' = s /\ ending' = StopReason(status, s)
  /\ incidents' = incidents \cup Recorded(ending', s)
  /\ UNCHANGED <<phase, todo, records, report>>

LEMMA StreakParts ==
  ASSUME NEW s \in Streaks
  PROVE  \E t, v, x, l, b \in Nat :
           s = [transport |-> t, validator |-> v, sandbox |-> x, loop |-> l, breaker |-> b]
BY DEF Streaks

CountsOn(old, new, status) ==
  \E t, v, x, t1, v1, x1 \in Nat :
    /\ t = old.transport /\ v = old.validator /\ x = old.sandbox
    /\ t1 = new.transport /\ v1 = new.validator /\ x1 = new.sandbox
    /\ t1 = IF status \in Transport THEN t + 1 ELSE 0
    /\ x1 = IF status \in Sandboxed THEN x + 1 ELSE 0
    /\ v1 = 0 \/ (status \in Unusable /\ v1 <= v + 1)
    /\ status \in Unparsed => v1 = v + 1

LEMMA Counted ==
  ASSUME NEW status \in Statuses, streak \in Streaks, NEW s, s = Count(streak, status)
  PROVE  /\ s \in Streaks
         /\ CountsOn(streak, s, status)
         /\ status # "accept" => s.breaker > 0
<1>1. PICK t, v, x, l, b \in Nat :
        streak = [transport |-> t, validator |-> v, sandbox |-> x, loop |-> l, breaker |-> b]
  BY StreakParts
<1> DEFINE t1 == s.transport
           v1 == s.validator
           x1 == s.sandbox
<1>2. /\ s \in Streaks
      /\ t1 = IF status = "transport_error" THEN t + 1 ELSE 0
      /\ status \in Unusable => IF status = "validation_reject" THEN v1 = 1 ELSE v1 = v + 1
      /\ status \notin Unusable => v1 = 0
      /\ x1 = IF status = "sandbox_reject" THEN x + 1 ELSE 0
      /\ status # "accept" => s.breaker > 0
  BY <1>1, CountIs
<1>3. t1 \in Nat /\ v1 \in Nat /\ x1 \in Nat
  BY <1>2 DEF Streaks
<1>4. t = streak.transport /\ v = streak.validator /\ x = streak.sandbox
  BY <1>1
<1>5. t1 = s.transport /\ v1 = s.validator /\ x1 = s.sandbox
  OBVIOUS
<1> HIDE DEF t1, v1, x1
<1>6. /\ t1 = IF status \in Transport THEN t + 1 ELSE 0
      /\ x1 = IF status \in Sandboxed THEN x + 1 ELSE 0
      /\ v1 = 0 \/ (status \in Unusable /\ v1 <= v + 1)
      /\ status \in Unparsed => v1 = v + 1
  BY <1>2, <1>3 DEF Transport, Sandboxed, Unusable, Unparsed
<1>7. CountsOn(streak, s, status)
  <2> USE <1>3 DEF CountsOn
  <2> WITNESS t \in Nat, v \in Nat, x \in Nat, t1 \in Nat, v1 \in Nat, x1 \in Nat
  <2> QED BY <1>4, <1>5, <1>6, Zenon
<1> QED BY <1>2, <1>7

LEMMA TurnIsTaken ==
  ASSUME CampaignTypes, phase \in Modes, todo # <<>>, NEW a \in Answers, Turn(a)
  PROVE  \E r, s : TurnTaken(r, s, Status(a))
<1> DEFINE s == Count(streak, Status(a))
           r == Record(a, s)
<1>1. Status(a) \in Statuses
  <2>1. a.kind \in {"error", "text", "short", "payload"}
    BY AnswersAre
  <2> QED BY <2>1 DEF Status, Statuses
<1>2. s \in Streaks /\ (Status(a) # "accept" => s.breaker > 0)
  BY <1>1, Counted DEF CampaignTypes
<1> HIDE DEF s
<1>3. /\ r \in TurnRecords /\ r.status = Status(a) /\ r.turn = Len(results) + 1
      /\ r.id = Head(todo)
  BY <1>2, RecordIs
<1>4. /\ ending = "" /\ results' = Append(results, r) /\ streak' = s
      /\ ending' = StopReason(Status(a), s)
      /\ incidents' = incidents \cup Recorded(ending', s)
      /\ UNCHANGED <<phase, todo, records, report>>
  BY DEF Turn, s
<1> HIDE DEF r
<1>5. TurnTaken(r, s, Status(a))
  BY <1>1, <1>3, <1>4 DEF TurnTaken, s
<1> QED BY <1>5

LEMMA StreaksGrow ==
  ASSUME CampaignTypes, UnderWay, NEW r, NEW s, NEW status, TurnTaken(r, s, status)
  PROVE  /\ s \in Streaks
         /\ AtMost(results', Transport, s.transport) /\ AtLeast(results', Transport, s.transport)
         /\ AtMost(results', Unparsed, s.validator)  /\ AtLeast(results', Unusable, s.validator)
         /\ AtMost(results', Sandboxed, s.sandbox)   /\ AtLeast(results', Sandboxed, s.sandbox)
<1>1. /\ status \in Statuses /\ streak \in Streaks /\ s = Count(streak, status)
      /\ results \in Seq(TurnRecords) /\ r \in TurnRecords /\ r.status = status
      /\ results' = Append(results, r)
  BY DEF TurnTaken, CampaignTypes
<1>2. s \in Streaks /\ CountsOn(streak, s, status)
  BY <1>1, Counted
<1>3. PICK t, v, x, t1, v1, x1 \in Nat :
        /\ t = streak.transport /\ v = streak.validator /\ x = streak.sandbox
        /\ t1 = s.transport /\ v1 = s.validator /\ x1 = s.sandbox
        /\ t1 = IF status \in Transport THEN t + 1 ELSE 0
        /\ x1 = IF status \in Sandboxed THEN x + 1 ELSE 0
        /\ v1 = 0 \/ (status \in Unusable /\ v1 <= v + 1)
        /\ status \in Unparsed => v1 = v + 1
  BY <1>2 DEF CountsOn
<1>4. /\ AtMost(results, Transport, t) /\ AtLeast(results, Transport, t)
      /\ AtMost(results, Unparsed, v)  /\ AtLeast(results, Unusable, v)
      /\ AtMost(results, Sandboxed, x) /\ AtLeast(results, Sandboxed, x)
  BY <1>3 DEF UnderWay
<1>5. /\ r.status \in Transport => t1 >= t + 1
      /\ r.status \in Sandboxed => x1 >= x + 1
      /\ r.status \in Unparsed => v1 >= v + 1
      /\ t1 = 0 \/ (r.status \in Transport /\ t1 <= t + 1)
      /\ x1 = 0 \/ (r.status \in Sandboxed /\ x1 <= x + 1)
      /\ v1 = 0 \/ (r.status \in Unusable /\ v1 <= v + 1)
  BY <1>1, <1>3
<1>6. AtMost(results', Transport, t1) /\ AtMost(results', Unparsed, v1)
      /\ AtMost(results', Sandboxed, x1)
  BY <1>1, <1>4, <1>5, AtMostStep
<1>7. AtLeast(results', Transport, t1) /\ AtLeast(results', Unusable, v1)
      /\ AtLeast(results', Sandboxed, x1)
  BY <1>1, <1>4, <1>5, AtLeastStep
<1> QED BY <1>2, <1>3, <1>6, <1>7

LEMMA Limits ==
  TransportLimit \in Nat \ {0} /\ ValidatorLimit \in Nat \ {0} /\ SandboxLimit \in Nat \ {0}
BY SoakAssumption

LEMMA StreaksEnd ==
  ASSUME CampaignTypes, UnderWay, NEW r, NEW s, NEW status, TurnTaken(r, s, status)
  PROVE  /\ Within(results', Transport, TransportLimit)
         /\ Within(results', Unparsed, ValidatorLimit)
         /\ Within(results', Sandboxed, SandboxLimit)
         /\ ending' = "" => /\ Below(results', Transport, TransportLimit)
                            /\ Below(results', Unparsed, ValidatorLimit)
                            /\ Below(results', Sandboxed, SandboxLimit)
<1>1. /\ status \in Statuses /\ results \in Seq(TurnRecords) /\ r \in TurnRecords
      /\ r.status = status /\ results' = Append(results, r) /\ ending' = StopReason(status, s)
  BY DEF TurnTaken, CampaignTypes
<1>2. /\ Below(results, Transport, TransportLimit) /\ Below(results, Unparsed, ValidatorLimit)
      /\ Below(results, Sandboxed, SandboxLimit)
  BY DEF UnderWay, TurnTaken
<1> DEFINE t == s.transport
           v == s.validator
           x == s.sandbox
<1>3. t \in Nat /\ v \in Nat /\ x \in Nat
  BY StreaksGrow DEF Streaks
<1>4. AtMost(results', Transport, t) /\ AtMost(results', Unparsed, v)
      /\ AtMost(results', Sandboxed, x)
  BY StreaksGrow
<1>5. /\ ending' = "transport_streak" <=> status \in Transport /\ t >= TransportLimit
      /\ status \in Unparsed /\ v >= ValidatorLimit => ending' = "validator_streak"
      /\ ending' = "sandbox_streak" <=> status \in Sandboxed /\ x >= SandboxLimit
  BY <1>1, StopIs
<1> HIDE DEF t, v, x
<1>6. ending' = "" => /\ r.status \in Transport => t < TransportLimit
                      /\ r.status \in Unparsed => v < ValidatorLimit
                      /\ r.status \in Sandboxed => x < SandboxLimit
  <2> DEFINE e == ending'
  <2>1. /\ e = "" /\ status \in Transport => ~(t >= TransportLimit)
        /\ e = "" /\ status \in Unparsed => ~(v >= ValidatorLimit)
        /\ e = "" /\ status \in Sandboxed => ~(x >= SandboxLimit)
    BY <1>5
  <2> HIDE DEF e
  <2>2. /\ ~(t >= TransportLimit) => t < TransportLimit
        /\ ~(v >= ValidatorLimit) => v < ValidatorLimit
        /\ ~(x >= SandboxLimit) => x < SandboxLimit
    BY <1>3, Limits
  <2> QED BY <1>1, <2>1, <2>2 DEF e
<1>7. /\ Within(results', Transport, TransportLimit)
      /\ ending' = "" => Below(results', Transport, TransportLimit)
  BY <1>1, <1>2, <1>3, <1>4, <1>6, Limits, WithinStep
<1>8. /\ Within(results', Unparsed, ValidatorLimit)
      /\ ending' = "" => Below(results', Unparsed, ValidatorLimit)
  BY <1>1, <1>2, <1>3, <1>4, <1>6, Limits, WithinStep
<1>9. /\ Within(results', Sandboxed, SandboxLimit)
      /\ ending' = "" => Below(results', Sandboxed, SandboxLimit)
  BY <1>1, <1>2, <1>3, <1>4, <1>6, Limits, WithinStep
<1> QED BY <1>7, <1>8, <1>9

(* The incidents a turn records are the streaks its session ends with. *)
LEMMA TurnAccounts ==
  ASSUME CampaignTypes, UnderWay, phase \in Modes, NEW r, NEW s, NEW status, TurnTaken(r, s, status),
         NEW a \in DOMAIN results', AllIn(results', Transport, a, Len(results')),
         Len(results') - a + 1 >= TransportLimit
  PROVE  Aborted("transport", phase, Head(todo), a, Len(results')) \in incidents'
<1> DEFINE n == Len(results) + 1
           t == s.transport
<1>1. /\ status \in Statuses /\ results \in Seq(TurnRecords) /\ r \in TurnRecords
      /\ r.status = status /\ results' = Append(results, r) /\ ending' = StopReason(status, s)
      /\ incidents' = incidents \cup Recorded(ending', s)
  BY DEF TurnTaken, CampaignTypes
<1>2. n \in Nat /\ Len(results') = n /\ DOMAIN results' = 1..n /\ results'[n] = r
  BY <1>1, TurnAppended
<1>3. t \in Nat /\ AtMost(results', Transport, t) /\ AtLeast(results', Transport, t)
  BY StreaksGrow DEF Streaks
<1>4. Within(results', Transport, TransportLimit)
  BY StreaksEnd
<1>5. ending' = "transport_streak" <=> status \in Transport /\ t >= TransportLimit
  BY <1>1, StopIs
<1>6. Recorded("transport_streak", s) = {Incident("transport", n - t + 1, t)}
  BY DEF Recorded
<1> HIDE DEF n, t
<1>7. status \in Transport /\ n - a + 1 <= t
  BY <1>1, <1>2, <1>3 DEF AtMost, AllIn
<1>8. ending' = "transport_streak"
  BY <1>2, <1>3, <1>5, <1>7, Limits
<1>9. n - a + 1 = TransportLimit
  BY <1>2, <1>4 DEF Within
<1>10. t <= n /\ AllIn(results', Transport, n - t + 1, n)
  <2>1. t <= n
    BY <1>2, <1>3 DEF AtLeast
  <2>2. n - t + 1 \in 1..n /\ n - (n - t + 1) + 1 <= t
    BY <1>2, <1>3, <1>7, <2>1
  <2> QED BY <1>2, <1>3, <2>1, <2>2 DEF AtLeast
<1>11. n - t + 1 = a
  <2>1. n - t + 1 \in 1..n /\ n - t + 1 <= n /\ n - (n - t + 1) + 1 >= TransportLimit
    BY <1>2, <1>3, <1>7, <1>9, <1>10, Limits
  <2>2. n - (n - t + 1) + 1 = TransportLimit
    BY <1>2, <1>4, <1>10, <2>1 DEF Within
  <2> QED BY <1>2, <1>3, <1>9, <2>2
<1>12. Incident("transport", n - t + 1, t) = Aborted("transport", phase, Head(todo), a, n)
  <2>1. a + t - 1 = n
    BY <1>2, <1>3, <1>11
  <2> QED BY <1>11, <2>1 DEF Incident, Aborted
<1> QED BY <1>1, <1>2, <1>6, <1>8, <1>12

LEMMA TurnRecordsIncidents ==
  ASSUME CampaignTypes, UnderWay, IncidentsInv, phase \in Modes, todo # <<>>,
         NEW r, NEW s, NEW status, TurnTaken(r, s, status)
  PROVE  incidents' \subseteq IncidentRecords /\ IncidentsInv'
<1> DEFINE n == Len(results) + 1
           t == s.transport
           v == s.validator
           x == s.sandbox
<1>1. /\ status \in Statuses /\ results \in Seq(TurnRecords) /\ r \in TurnRecords
      /\ r.status = status /\ results' = Append(results, r) /\ ending' = StopReason(status, s)
      /\ incidents' = incidents \cup Recorded(ending', s) /\ ending = ""
      /\ UNCHANGED <<phase, todo, records>>
  BY DEF TurnTaken, CampaignTypes
<1>2. n \in Nat /\ n >= 1 /\ Len(results') = n /\ DOMAIN results' = 1..n
  <2>1. Len(results) \in Nat /\ Len(results') = n /\ DOMAIN results' = 1..n
    BY <1>1, TurnAppended
  <2> QED BY <2>1
<1>3. t \in Nat /\ v \in Nat /\ x \in Nat
  BY StreaksGrow DEF Streaks
<1>4. /\ AtLeast(results', Transport, t) /\ AtLeast(results', Unusable, v)
      /\ AtLeast(results', Sandboxed, x)
  BY StreaksGrow
<1>5. /\ ending' \in {"", "transport_streak", "validator_streak", "sandbox_streak",
                      "breaker_lock", "reject_loop"}
      /\ ending' = "transport_streak" => t >= TransportLimit
      /\ ending' = "validator_streak" => v >= ValidatorLimit
      /\ ending' = "sandbox_streak" => x >= SandboxLimit
  BY <1>1, StopIs
<1>6. Head(todo) \in SessionIds
  BY DEF CampaignTypes, Agenda
<1>7. /\ Recorded("transport_streak", s) = {Incident("transport", n - t + 1, t)}
      /\ Recorded("validator_streak", s) = {Incident("validator", n - v + 1, v)}
      /\ Recorded("sandbox_streak", s) = {Incident("sandbox", n - x + 1, x)}
      /\ Recorded("breaker_lock", s) = {Incident("breaker_lock", n, 1)}
      /\ Recorded("reject_loop", s) = {Incident("reject_loop", n, 1)}
      /\ Recorded("", s) = {}
  BY DEF Recorded
<1> HIDE DEF n, t, v, x
<1>8. \A B, c : c \in Nat \ {0} /\ AtLeast(results', B, c) =>
        c <= n /\ n - c + 1 \in 1..n /\ (n - c + 1) + c - 1 = n /\ AllIn(results', B, n - c + 1, n)
  <2> SUFFICES ASSUME NEW B, NEW c \in Nat \ {0}, AtLeast(results', B, c)
               PROVE  c <= n /\ n - c + 1 \in 1..n /\ (n - c + 1) + c - 1 = n
                        /\ AllIn(results', B, n - c + 1, n)
    OBVIOUS
  <2>1. c <= n
    BY <1>2 DEF AtLeast
  <2>2. n - c + 1 \in 1..n /\ (n - c + 1) + c - 1 = n /\ n - (n - c + 1) + 1 <= c
    BY <1>2, <2>1
  <2> QED BY <1>2, <2>1, <2>2 DEF AtLeast
<1> DEFINE New(i) == /\ i \in IncidentRecords /\ i.mode = phase /\ i.id = Head(todo)
                     /\ Fits(i, results')
<1>9. ASSUME NEW type \in {"transport", "validator", "sandbox", "breaker_lock", "reject_loop"},
             NEW c \in 1..n,
             type = "transport" => AllIn(results', Transport, n - c + 1, n) /\ c >= TransportLimit,
             type = "validator" => AllIn(results', Unusable, n - c + 1, n) /\ c >= ValidatorLimit,
             type = "sandbox" => AllIn(results', Sandboxed, n - c + 1, n) /\ c >= SandboxLimit
      PROVE  New(Incident(type, n - c + 1, c))
  <2> DEFINE f == n - c + 1
  <2>1. f \in 1..n /\ f + c - 1 = n /\ n - f + 1 = c
    BY <1>2
  <2> HIDE DEF f
  <2> DEFINE i == Incident(type, f, c)
  <2>2. i = [type |-> type, mode |-> phase, id |-> Head(todo), first |-> f, last |-> n]
    BY <2>1 DEF Incident
  <2> HIDE DEF i
  <2>3. /\ i.type = type /\ i.mode = phase /\ i.id = Head(todo) /\ i.first = f /\ i.last = n
    BY <2>2
  <2>4. i \in IncidentRecords
    <3>1. f \in Nat
      BY <1>2, <2>1
    <3> QED BY <1>2, <1>6, <2>2, <3>1 DEF IncidentRecords
  <2>5. Fits(i, results')
    BY <1>2, <1>9, <2>1, <2>3 DEF Fits, f
  <2> QED BY <2>3, <2>4, <2>5 DEF i, f
<1> HIDE DEF New
<1>10. ASSUME NEW i \in Recorded(ending', s) PROVE New(i)
  <2>1. CASE ending' = "transport_streak"
    <3>1. t \in 1..n /\ AllIn(results', Transport, n - t + 1, n)
      BY <1>2, <1>3, <1>4, <1>5, <1>8, <2>1, Limits
    <3>2. New(Incident("transport", n - t + 1, t))
      BY <1>5, <1>9, <2>1, <3>1
    <3> QED BY <1>7, <1>10, <2>1, <3>2
  <2>2. CASE ending' = "validator_streak"
    <3>1. v \in 1..n /\ AllIn(results', Unusable, n - v + 1, n)
      BY <1>2, <1>3, <1>4, <1>5, <1>8, <2>2, Limits
    <3>2. New(Incident("validator", n - v + 1, v))
      BY <1>5, <1>9, <2>2, <3>1
    <3> QED BY <1>7, <1>10, <2>2, <3>2
  <2>3. CASE ending' = "sandbox_streak"
    <3>1. x \in 1..n /\ AllIn(results', Sandboxed, n - x + 1, n)
      BY <1>2, <1>3, <1>4, <1>5, <1>8, <2>3, Limits
    <3>2. New(Incident("sandbox", n - x + 1, x))
      BY <1>5, <1>9, <2>3, <3>1
    <3> QED BY <1>7, <1>10, <2>3, <3>2
  <2>4. CASE ending' \in {"breaker_lock", "reject_loop"}
    <3>1. 1 \in 1..n /\ n - 1 + 1 = n
      BY <1>2
    <3>2. New(Incident("breaker_lock", n, 1)) /\ New(Incident("reject_loop", n, 1))
      BY <1>9, <3>1
    <3> QED BY <1>7, <1>10, <2>4, <3>2
  <2>5. CASE ending' = ""
    BY <1>7, <1>10, <2>5
  <2> QED BY <1>5, <2>1, <2>2, <2>3, <2>4, <2>5
<1>11. ASSUME NEW i \in Recorded(ending', s) PROVE ending' # ""
  BY <1>7, <1>11
<1>12. incidents' \subseteq IncidentRecords
  BY <1>1, <1>10 DEF New, CampaignTypes
<1>13. ASSUME NEW i \in incidents'
       PROVE  \/ /\ i.id \in IdsOf(records'[i.mode])
                 /\ Fits(i, SessionRecords(records'[i.mode], i.id))
              \/ /\ phase' = i.mode /\ todo' # <<>> /\ i.id = Head(todo') /\ ending' # ""
                 /\ Fits(i, results')
  <2>1. CASE i \in incidents
    BY <1>1, <2>1 DEF IncidentsInv
  <2>2. CASE i \in Recorded(ending', s)
    BY <1>1, <1>10, <1>11, <2>2 DEF New
  <2> QED BY <1>1, <1>13, <2>1, <2>2
<1>14. IncidentsInv'
  BY <1>13 DEF IncidentsInv
<1> QED BY <1>12, <1>14

LEMMA StillFiled ==
  ASSUME FiledInv, records' = records, incidents \subseteq incidents'
  PROVE  FiledInv'
<1> SUFFICES ASSUME NEW m \in Modes
             PROVE  /\ NoneTwice(records'[m])
                    /\ \A id \in IdsOf(records'[m]) :
                         /\ SessionRecords(records'[m], id) \in Seq(TurnRecords)
                         /\ SessionOver(SessionRecords(records'[m], id), m, id, incidents')
  BY DEF FiledInv
<1>1. \A q, id : SessionOver(q, m, id, incidents) => SessionOver(q, m, id, incidents')
  BY DEF SessionOver
<1> QED BY <1>1 DEF FiledInv

LEMMA TurnStep ==
  ASSUME CampaignInv, phase \in Modes, todo # <<>>, NEW a \in Answers, Turn(a)
  PROVE  CampaignInv'
<1>1. CampaignTypes /\ AgendaInv /\ UnderWay /\ FiledInv /\ IncidentsInv
  BY DEF CampaignInv
<1>2. PICK r, s : TurnTaken(r, s, Status(a))
  BY <1>1, TurnIsTaken
<1>3. /\ results \in Seq(TurnRecords) /\ r \in TurnRecords /\ results' = Append(results, r)
      /\ streak' = s /\ UNCHANGED <<phase, todo, records, report>>
      /\ incidents \subseteq incidents'
      /\ r.turn = Len(results) + 1 /\ r.id = Head(todo)
  BY <1>1, <1>2 DEF TurnTaken, CampaignTypes
<1>4. incidents' \subseteq IncidentRecords /\ IncidentsInv'
  BY <1>1, <1>2, TurnRecordsIncidents
<1>5. CampaignTypes'
  <2>1. results' \in Seq(TurnRecords) /\ streak' \in Streaks
    BY <1>1, <1>2, <1>3, StreaksGrow
  <2>2. Agenda(todo)'
    BY <1>1, <1>3 DEF CampaignTypes, Agenda
  <2> QED BY <1>1, <1>3, <1>4, <2>1, <2>2 DEF CampaignTypes
<1>6. AgendaInv'
  BY <1>1, <1>3 DEF AgendaInv
<1>7. UnderWay'
  <2>1. \A t \in DOMAIN results' : results'[t].turn = t /\ results'[t].id = Head(todo)
    <3> DEFINE n == Len(results)
    <3>1. /\ n \in Nat /\ DOMAIN results = 1..n /\ DOMAIN results' = 1..(n + 1)
          /\ \A k \in 1..n : results'[k] = results[k]
          /\ results'[n + 1] = r /\ r.turn = n + 1
      BY <1>3, TurnAppended
    <3> HIDE DEF n
    <3> SUFFICES ASSUME NEW t \in 1..(n + 1)
                 PROVE  results'[t].turn = t /\ results'[t].id = Head(todo)
      BY <3>1
    <3>2. CASE t = n + 1
      BY <1>3, <3>1, <3>2
    <3>3. CASE t \in 1..n
      BY <1>1, <3>1, <3>3 DEF UnderWay
    <3> QED BY <3>1, <3>2, <3>3
  <2>2. /\ AtMost(results', Transport, s.transport) /\ AtLeast(results', Transport, s.transport)
        /\ AtMost(results', Unparsed, s.validator)  /\ AtLeast(results', Unusable, s.validator)
        /\ AtMost(results', Sandboxed, s.sandbox)   /\ AtLeast(results', Sandboxed, s.sandbox)
    BY <1>1, <1>2, StreaksGrow
  <2>3. /\ Within(results', Transport, TransportLimit)
        /\ Within(results', Unparsed, ValidatorLimit)
        /\ Within(results', Sandboxed, SandboxLimit)
        /\ ending' = "" => /\ Below(results', Transport, TransportLimit)
                           /\ Below(results', Unparsed, ValidatorLimit)
                           /\ Below(results', Sandboxed, SandboxLimit)
    BY <1>1, <1>2, StreaksEnd
  <2>4. \A k \in DOMAIN results' :
          AllIn(results', Transport, k, Len(results')) /\ Len(results') - k + 1 >= TransportLimit
            => Aborted("transport", phase, Head(todo), k, Len(results')) \in incidents'
    BY <1>1, <1>2, TurnAccounts
  <2>5. SessionOver(results', phase', Head(todo'), incidents')
    BY <1>3, <2>3, <2>4 DEF SessionOver
  <2> QED BY <1>3, <2>1, <2>2, <2>3, <2>5 DEF UnderWay
<1>8. FiledInv'
  BY <1>1, <1>3, StillFiled
<1>9. phase' # "done"
  BY <1>3 DEF Modes
<1> QED BY <1>4, <1>5, <1>6, <1>7, <1>8, <1>9 DEF CampaignInv

-----------------------------------------------------------------------------
(* The other steps of a campaign. *)
LEMMA NothingYet ==
  /\ DOMAIN <<>> = {} /\ \A S : <<>> \in Seq(S)
  /\ \A B : AtMost(<<>>, B, 0) /\ AtLeast(<<>>, B, 0)
  /\ \A B, limit : Below(<<>>, B, limit) /\ Within(<<>>, B, limit)
  /\ \A m, id, found : SessionOver(<<>>, m, id, found)
<1>1. Len(<<>>) = 0 /\ DOMAIN <<>> = {} /\ \A S : <<>> \in Seq(S)
  OBVIOUS
<1>2. \A B : AtMost(<<>>, B, 0) /\ AtLeast(<<>>, B, 0)
  BY <1>1 DEF AtMost, AtLeast
<1>3. \A B, limit : Below(<<>>, B, limit) /\ Within(<<>>, B, limit)
  BY <1>1 DEF Below, Within
<1>4. \A m, id, found : SessionOver(<<>>, m, id, found)
  BY <1>1, <1>3 DEF SessionOver
<1> QED BY <1>1, <1>2, <1>3, <1>4

LEMMA NoStreakIs ==
  /\ NoStreak \in Streaks
  /\ NoStreak.transport = 0 /\ NoStreak.validator = 0 /\ NoStreak.sandbox = 0
BY DEF NoStreak, Streaks

LEMMA TailOf ==
  ASSUME NEW q, Agenda(q), q # <<>>
  PROVE  /\ Agenda(Tail(q)) /\ Head(q) \in SessionIds
         /\ \A i \in DOMAIN Tail(q) : /\ i + 1 \in DOMAIN q /\ Tail(q)[i] = q[i + 1]
                                      /\ Tail(q)[i] # Head(q)
<1>1. /\ q \in Seq(SessionIds) /\ Tail(q) \in Seq(SessionIds)
      /\ Head(q) = q[1] /\ 1 \in DOMAIN q /\ Head(q) \in SessionIds
      /\ \A i \in DOMAIN Tail(q) : i \in Nat \ {0} /\ i + 1 \in DOMAIN q /\ Tail(q)[i] = q[i + 1]
  BY DEF Agenda
<1>2. \A i \in DOMAIN Tail(q) : Tail(q)[i] # Head(q)
  <2> TAKE i \in DOMAIN Tail(q)
  <2>1. i + 1 # 1 /\ i + 1 \in DOMAIN q
    BY <1>1
  <2> QED BY <1>1, <2>1 DEF Agenda
<1>3. \A i, j \in DOMAIN Tail(q) : Tail(q)[i] = Tail(q)[j] => i = j
  <2> TAKE i, j \in DOMAIN Tail(q)
  <2> HAVE Tail(q)[i] = Tail(q)[j]
  <2>1. i + 1 = j + 1
    BY <1>1 DEF Agenda
  <2> QED BY <1>1, <2>1
<1> QED BY <1>1, <1>2, <1>3 DEF Agenda

LEMMA CampaignInitOK == SoakInit => CampaignInv
<1> SUFFICES ASSUME SoakInit PROVE CampaignInv
  OBVIOUS
<1>1. PICK available \in SUBSET Models : todo = LiveSessions(available)
  BY DEF SoakInit
<1>2. /\ phase = "live" /\ results = <<>> /\ streak = NoStreak /\ ending = ""
      /\ incidents = {} /\ records = [m \in Modes |-> <<>>]
  BY DEF SoakInit
<1>3. Agenda(todo)
  BY <1>1, LiveAgenda
<1>4. \A m \in Modes : records[m] = <<>>
  BY <1>2
<1>5. IdsOf(<<>>) = {}
  BY DEF IdsOf
<1>6. CampaignTypes
  <2>1. results \in Seq(TurnRecords) /\ streak \in Streaks /\ incidents \subseteq IncidentRecords
    BY <1>2, NoStreakIs, NothingYet
  <2>2. records \in [Modes -> Seq(TurnRecords)]
    BY <1>2, NothingYet
  <2>3. phase \in Modes
    BY <1>2 DEF Modes
  <2> QED BY <1>3, <2>1, <2>2, <2>3 DEF CampaignTypes
<1>7. AgendaInv
  BY <1>2, <1>4, <1>5 DEF AgendaInv, Modes
<1>8. UnderWay
  <2>1. DOMAIN results = {} /\ SessionOver(results, phase, Head(todo), incidents)
    BY <1>2, NothingYet
  <2>2. \A B : AtMost(results, B, 0) /\ AtLeast(results, B, 0)
    BY <1>2, NothingYet
  <2>3. \A B, limit : Below(results, B, limit)
    BY <1>2, NothingYet
  <2> QED BY <1>2, <2>1, <2>2, <2>3, NoStreakIs DEF UnderWay
<1>9. FiledInv
  <2>1. NoneTwice(<<>>)
    BY DEF NoneTwice
  <2> QED BY <1>4, <1>5, <2>1 DEF FiledInv
<1> QED BY <1>2, <1>6, <1>7, <1>8, <1>9 DEF CampaignInv, IncidentsInv

LEMMA EndSessionOK ==
  ASSUME CampaignInv, EndSession
  PROVE  CampaignInv'
<1> DEFINE rs == records[phase]
           q == results
           id == Head(todo)
<1>1. CampaignTypes /\ AgendaInv /\ UnderWay /\ FiledInv /\ IncidentsInv
  BY DEF CampaignInv
<1>2. /\ phase \in Modes /\ todo # <<>> /\ todo' = Tail(todo) /\ phase' = phase
      /\ records' = [records EXCEPT ![phase] = rs \o q]
      /\ results' = <<>> /\ streak' = NoStreak /\ ending' = "" /\ incidents' = incidents
  BY DEF EndSession
<1>3. /\ rs \in Seq(TurnRecords) /\ q \in Seq(TurnRecords)
      /\ records \in [Modes -> Seq(TurnRecords)] /\ Agenda(todo)
  BY <1>1, <1>2 DEF CampaignTypes
<1>4. id \notin IdsOf(rs)
  <2>1. todo \in Seq(SessionIds) /\ todo # <<>>
    BY <1>2, <1>3 DEF Agenda
  <2>2. 1 \in DOMAIN todo /\ id = todo[1]
    BY <2>1
  <2> QED BY <1>1, <1>2, <2>2 DEF AgendaInv
<1>5. NoneTwice(rs) /\ \A t \in DOMAIN q : q[t].turn = t /\ q[t].id = id
  BY <1>1, <1>2 DEF FiledInv, UnderWay
<1>6. /\ SessionOver(q, phase, id, incidents)
      /\ \A d \in IdsOf(rs) : /\ SessionRecords(rs, d) \in Seq(TurnRecords)
                              /\ SessionOver(SessionRecords(rs, d), phase, d, incidents)
  BY <1>1, <1>2 DEF FiledInv, UnderWay
<1> DEFINE all == rs \o q
<1>7. /\ records'[phase] = all /\ \A m \in Modes : m # phase => records'[m] = records[m]
      /\ records' \in [Modes -> Seq(TurnRecords)]
  <2>1. all \in Seq(TurnRecords)
    BY <1>3
  <2> HIDE DEF all
  <2> QED BY <1>2, <1>3, <2>1 DEF all
<1> HIDE DEF rs, q, id
<1>8. /\ NoneTwice(all) /\ IdsOf(all) \subseteq IdsOf(rs) \cup {id} /\ IdsOf(rs) \subseteq IdsOf(all)
      /\ q # <<>> => id \in IdsOf(all)
      /\ id \in IdsOf(all) => SessionRecords(all, id) = q
      /\ \A d \in IdsOf(rs) : SessionRecords(all, d) = SessionRecords(rs, d)
  BY <1>3, <1>4, <1>5, SessionFiled
<1> HIDE DEF all
<1>9. Agenda(Tail(todo)) /\ \A i \in DOMAIN Tail(todo) :
                              /\ i + 1 \in DOMAIN todo /\ Tail(todo)[i] = todo[i + 1]
                              /\ Tail(todo)[i] # id
  BY <1>2, <1>3, TailOf DEF id
<1>10. CampaignTypes'
  <2>1. results' \in Seq(TurnRecords) /\ streak' \in Streaks
    BY <1>2, NoStreakIs, NothingYet
  <2>2. Agenda(todo)'
    BY <1>2, <1>9 DEF Agenda
  <2> QED BY <1>1, <1>2, <1>7, <2>1, <2>2 DEF CampaignTypes
<1>11. AgendaInv'
  <2>1. \A i \in DOMAIN todo' : todo'[i] \notin IdsOf(records'[phase'])
    <3> SUFFICES ASSUME NEW i \in DOMAIN Tail(todo) PROVE Tail(todo)[i] \notin IdsOf(all)
      BY <1>2, <1>7
    <3>1. todo[i + 1] \notin IdsOf(rs)
      BY <1>1, <1>2, <1>9 DEF AgendaInv, rs
    <3> QED BY <1>8, <1>9, <3>1
  <2>2. phase = "live" => records'["mock"] = <<>>
    BY <1>1, <1>7 DEF AgendaInv, Modes
  <2> QED BY <1>2, <2>1, <2>2 DEF AgendaInv
<1>12. UnderWay'
  <2>1. DOMAIN results' = {}
    BY <1>2, NothingYet
  <2>2. SessionOver(results', phase', Head(todo'), incidents')
    BY <1>2, NothingYet
  <2>3. \A B : AtMost(results', B, 0) /\ AtLeast(results', B, 0)
    BY <1>2, NothingYet
  <2>4. \A B, limit : Below(results', B, limit)
    BY <1>2, NothingYet
  <2> QED BY <1>2, <2>1, <2>2, <2>3, <2>4, NoStreakIs DEF UnderWay
<1>13. FiledInv'
  <2> SUFFICES ASSUME NEW m \in Modes
               PROVE  /\ NoneTwice(records'[m])
                      /\ \A d \in IdsOf(records'[m]) :
                           /\ SessionRecords(records'[m], d) \in Seq(TurnRecords)
                           /\ SessionOver(SessionRecords(records'[m], d), m, d, incidents')
    BY DEF FiledInv
  <2>1. CASE m # phase
    BY <1>1, <1>2, <1>7, <2>1 DEF FiledInv
  <2>2. CASE m = phase
    <3>1. NoneTwice(records'[m])
      BY <1>7, <1>8, <2>2
    <3>2. ASSUME NEW d \in IdsOf(all)
          PROVE  /\ SessionRecords(all, d) \in Seq(TurnRecords)
                 /\ SessionOver(SessionRecords(all, d), phase, d, incidents)
      <4>1. CASE d = id
        BY <1>3, <1>6, <1>8, <3>2, <4>1
      <4>2. CASE d \in IdsOf(rs)
        BY <1>6, <1>8, <4>2
      <4> QED BY <1>8, <3>2, <4>1, <4>2
    <3> QED BY <1>2, <1>7, <2>2, <3>1, <3>2
  <2> QED BY <2>1, <2>2
<1>14. IncidentsInv'
  <2> SUFFICES ASSUME NEW i \in incidents
               PROVE  /\ i.id \in IdsOf(records'[i.mode])
                      /\ Fits(i, SessionRecords(records'[i.mode], i.id))
    BY <1>2 DEF IncidentsInv
  <2>1. i.mode \in Modes
    BY <1>1 DEF CampaignTypes, IncidentRecords
  <2>2. CASE i.id \in IdsOf(records[i.mode]) /\ Fits(i, SessionRecords(records[i.mode], i.id))
    <3>1. CASE i.mode = phase
      BY <1>7, <1>8, <2>2, <3>1 DEF rs
    <3>2. CASE i.mode # phase
      BY <1>7, <2>1, <2>2, <3>2
    <3> QED BY <3>1, <3>2
  <2>3. CASE phase = i.mode /\ i.id = id /\ Fits(i, q)
    <3>1. q # <<>>
      BY <2>3 DEF Fits
    <3> QED BY <1>7, <1>8, <2>3, <3>1
  <2> QED BY <1>1, <2>2, <2>3 DEF IncidentsInv, q, id
<1>15. phase' # "done"
  BY <1>2 DEF Modes
<1> QED BY <1>10, <1>11, <1>12, <1>13, <1>14, <1>15 DEF CampaignInv

LEMMA IdleStep ==
  ASSUME CampaignInv, todo = <<>>, phase' \in {"live", "mock", "analyze", "done"}, Agenda(todo'),
         phase' \notin Modes => todo' = <<>>, phase' # "live",
         phase' \in Modes => records[phase'] = <<>>,
         UNCHANGED <<results, streak, ending, incidents, records>>
  PROVE  CampaignTypes' /\ AgendaInv' /\ UnderWay' /\ FiledInv' /\ IncidentsInv'
<1>1. CampaignTypes /\ AgendaInv /\ UnderWay /\ FiledInv /\ IncidentsInv
  BY DEF CampaignInv
<1>2. results = <<>>
  BY <1>1 DEF AgendaInv
<1>3. IdsOf(<<>>) = {}
  BY DEF IdsOf
<1>4. CampaignTypes'
  BY <1>1 DEF CampaignTypes, Modes
<1>5. AgendaInv'
  BY <1>1, <1>2, <1>3 DEF AgendaInv
<1>6. UnderWay'
  <2>1. \A t \in DOMAIN results' : results'[t].turn = t /\ results'[t].id = Head(todo')
    BY <1>2
  <2>2. SessionOver(results', phase', Head(todo'), incidents')
    BY <1>2, NothingYet
  <2> QED BY <1>1, <2>1, <2>2 DEF UnderWay
<1>7. FiledInv'
  BY <1>1, StillFiled
<1>8. IncidentsInv'
  BY <1>1 DEF IncidentsInv
<1> QED BY <1>4, <1>5, <1>6, <1>7, <1>8

LEMMA EndPassOK ==
  ASSUME CampaignInv, EndPass
  PROVE  CampaignInv'
<1>1. CASE phase = "live" /\ phase' = "mock" /\ todo' = AllMockSessions
  <2>1. records["mock"] = <<>>
    BY <1>1 DEF CampaignInv, AgendaInv
  <2>2. CampaignTypes' /\ AgendaInv' /\ UnderWay' /\ FiledInv' /\ IncidentsInv'
    <3>1. Agenda(todo')
      BY <1>1, MockAgenda
    <3>2. phase' \in {"live", "mock", "analyze", "done"} /\ phase' # "live" /\ phase' \in Modes
          /\ records[phase'] = <<>>
      BY <1>1, <2>1 DEF Modes
    <3>3. todo = <<>> /\ UNCHANGED <<results, streak, ending, incidents, records>>
      BY DEF EndPass
    <3> QED BY <3>1, <3>2, <3>3, IdleStep
  <2> QED BY <1>1, <2>2 DEF CampaignInv
<1>2. CASE phase = "mock" /\ phase' = "analyze" /\ todo' = <<>>
  <2>1. Agenda(<<>>)
    BY DEF Agenda
  <2>2. phase' \in {"live", "mock", "analyze", "done"} /\ phase' # "live" /\ phase' \notin Modes
    BY <1>2 DEF Modes
  <2>3. todo = <<>> /\ UNCHANGED <<results, streak, ending, incidents, records>>
    BY DEF EndPass
  <2>4. CampaignTypes' /\ AgendaInv' /\ UnderWay' /\ FiledInv' /\ IncidentsInv'
    BY <1>2, <2>1, <2>2, <2>3, IdleStep
  <2> QED BY <1>2, <2>4 DEF CampaignInv
<1> QED BY <1>1, <1>2 DEF EndPass

LEMMA AnalyzeOK ==
  ASSUME CampaignInv, Analyze
  PROVE  CampaignInv'
<1>1. /\ phase = "analyze" /\ phase' = "done" /\ todo' = todo
      /\ UNCHANGED <<results, streak, ending, incidents, records>>
  BY DEF Analyze
<1>2. todo = <<>> /\ Agenda(todo)
  BY <1>1 DEF CampaignInv, CampaignTypes, AgendaInv, Modes
<1>3. CampaignTypes' /\ AgendaInv' /\ UnderWay' /\ FiledInv' /\ IncidentsInv'
  <2>1. phase' \in {"live", "mock", "analyze", "done"} /\ phase' # "live" /\ phase' \notin Modes
    BY <1>1 DEF Modes
  <2> QED BY <1>1, <1>2, <2>1, IdleStep
<1>4. report' = Analysis
  BY Zenon DEF Analyze, Analysis
<1>5. Analysis' = Analysis
  BY <1>1 DEF Analysis, DetectedIn
<1> QED BY <1>3, <1>4, <1>5 DEF CampaignInv

LEMMA CampaignNextOK == CampaignInv /\ [SoakNext]_soakVars => CampaignInv'
<1> SUFFICES ASSUME CampaignInv, [SoakNext]_soakVars PROVE CampaignInv'
  OBVIOUS
<1>1. CASE phase \in Modes /\ todo # <<>> /\ \E a \in Answers : Turn(a)
  BY <1>1, TurnStep
<1>2. CASE EndSession
  BY <1>2, EndSessionOK
<1>3. CASE EndPass
  BY <1>3, EndPassOK
<1>4. CASE Analyze
  BY <1>4, AnalyzeOK
<1>5. CASE UNCHANGED soakVars
  <2>1. /\ UNCHANGED <<phase, todo, results, streak, ending>>
        /\ UNCHANGED <<incidents, records, report>>
    BY <1>5 DEF soakVars
  <2>2. CampaignTypes' /\ AgendaInv' /\ UnderWay' /\ IncidentsInv'
    BY <2>1 DEF CampaignInv, CampaignTypes, AgendaInv, UnderWay, IncidentsInv
  <2>3. FiledInv'
    BY <2>1, StillFiled DEF CampaignInv
  <2>4. Analysis' = Analysis
    BY <2>1 DEF Analysis, DetectedIn
  <2> QED BY <2>1, <2>2, <2>3, <2>4 DEF CampaignInv
<1> QED BY <1>1, <1>2, <1>3, <1>4, <1>5 DEF SoakNext

-----------------------------------------------------------------------------
(* Induction. *)
LEMMA LeastOfNat ==
  ASSUME NEW S \in SUBSET Nat, S # {}
  PROVE  \E x \in S : \A y \in S : x <= y
<1> DEFINE T == {0..x : x \in S}
<1>1. T \subseteq FiniteSubsetsOf(Nat) /\ T # {}
  <2>1. \A x \in S : 0..x \in SUBSET Nat /\ IsFiniteSet(0..x)
    BY FS_Interval
  <2>2. T # {}
    OBVIOUS
  <2> QED BY <2>1, <2>2 DEF FiniteSubsetsOf
<1>2. PICK t \in T : \A u \in T : <<u, t>> \notin StrictSubsetOrdering(Nat)
  <2> HIDE DEF T
  <2> QED BY <1>1, FS_StrictSubsetOrderingWellFounded, WFMin, Zenon
<1>3. PICK x \in S : t = 0..x
  OBVIOUS
<1>4. ASSUME NEW y \in S, y < x PROVE FALSE
  <2>1. 0..y \in T /\ 0..y \subseteq 0..x /\ x \in 0..x /\ x \notin 0..y
    BY <1>4
  <2>2. 0..y \in SUBSET Nat /\ 0..x \in SUBSET Nat /\ 0..y # 0..x
    BY <2>1
  <2>3. <<0..y, 0..x>> \in StrictSubsetOrdering(Nat)
    BY <2>1, <2>2 DEF StrictSubsetOrdering
  <2> QED BY <1>2, <1>3, <2>1, <2>3
<1>5. \A y \in S : x <= y
  BY <1>4
<1> QED BY <1>5

LEMMA Induction ==
  ASSUME NEW n \in Nat, NEW S, 0 \in S, \A i \in 0..n : i < n /\ i \in S => i + 1 \in S
  PROVE  \A i \in 0..n : i \in S
<1> DEFINE Others == {i \in 0..n : i \notin S}
<1> SUFFICES ASSUME Others # {} PROVE FALSE
  OBVIOUS
<1>1. Others \in SUBSET Nat
  OBVIOUS
<1>2. PICK x \in Others : \A y \in Others : x <= y
  <2> HIDE DEF Others
  <2> QED BY <1>1, LeastOfNat
<1>3. x # 0 /\ x - 1 \in 0..n /\ x - 1 < n /\ x - 1 \notin Others
  BY <1>2
<1>4. (x - 1) + 1 \in S
  BY <1>3
<1> QED BY <1>2, <1>4

-----------------------------------------------------------------------------
(* What the analysis finds in a session that is over. *)
LEMMA LongStretches ==
  ASSUME NEW S, NEW q \in Seq(S), NEW limit, NEW x
  PROVE  /\ x \in Long(q, IsTransport, limit) <=>
              /\ x \in (DOMAIN q) \X (DOMAIN q) /\ x[1] <= x[2] /\ x[2] - x[1] + 1 >= limit
              /\ AllIn(q, Transport, x[1], x[2])
              /\ x[1] = 1 \/ q[x[1] - 1].status \notin Transport
              /\ x[2] = Len(q) \/ q[x[2] + 1].status \notin Transport
         /\ x \in Long(q, IsInvalid, limit) <=>
              /\ x \in (DOMAIN q) \X (DOMAIN q) /\ x[1] <= x[2] /\ x[2] - x[1] + 1 >= limit
              /\ AllIn(q, Unusable, x[1], x[2])
              /\ x[1] = 1 \/ q[x[1] - 1].status \notin Unusable
              /\ x[2] = Len(q) \/ q[x[2] + 1].status \notin Unusable
         /\ x \in Long(q, IsSandbox, limit) <=>
              /\ x \in (DOMAIN q) \X (DOMAIN q) /\ x[1] <= x[2] /\ x[2] - x[1] + 1 >= limit
              /\ AllIn(q, Sandboxed, x[1], x[2])
              /\ x[1] = 1 \/ q[x[1] - 1].status \notin Sandboxed
              /\ x[2] = Len(q) \/ q[x[2] + 1].status \notin Sandboxed
<1>1. x \in Long(q, IsTransport, limit) <=>
        /\ x \in (DOMAIN q) \X (DOMAIN q) /\ x[1] <= x[2] /\ x[2] - x[1] + 1 >= limit
        /\ AllIn(q, Transport, x[1], x[2])
        /\ x[1] = 1 \/ q[x[1] - 1].status \notin Transport
        /\ x[2] = Len(q) \/ q[x[2] + 1].status \notin Transport
  BY DEF Long, Stretches, IsTransport, AllIn, Transport
<1>2. x \in Long(q, IsInvalid, limit) <=>
        /\ x \in (DOMAIN q) \X (DOMAIN q) /\ x[1] <= x[2] /\ x[2] - x[1] + 1 >= limit
        /\ AllIn(q, Unusable, x[1], x[2])
        /\ x[1] = 1 \/ q[x[1] - 1].status \notin Unusable
        /\ x[2] = Len(q) \/ q[x[2] + 1].status \notin Unusable
  BY DEF Long, Stretches, IsInvalid, AllIn, Unusable
<1>3. x \in Long(q, IsSandbox, limit) <=>
        /\ x \in (DOMAIN q) \X (DOMAIN q) /\ x[1] <= x[2] /\ x[2] - x[1] + 1 >= limit
        /\ AllIn(q, Sandboxed, x[1], x[2])
        /\ x[1] = 1 \/ q[x[1] - 1].status \notin Sandboxed
        /\ x[2] = Len(q) \/ q[x[2] + 1].status \notin Sandboxed
  BY DEF Long, Stretches, IsSandbox, AllIn, Sandboxed
<1> QED BY <1>1, <1>2, <1>3

LEMMA StretchBegins ==
  ASSUME NEW S, NEW q \in Seq(S), NEW B, NEW f \in DOMAIN q, AllIn(q, B, f, Len(q))
  PROVE  \E a \in DOMAIN q : /\ a <= f /\ AllIn(q, B, a, Len(q))
                             /\ a = 1 \/ q[a - 1].status \notin B
<1> DEFINE n == Len(q)
           Begins == {a \in 1..n : AllIn(q, B, a, n)}
<1>1. n \in Nat /\ DOMAIN q = 1..n
  OBVIOUS
<1>2. Begins \in SUBSET Nat /\ f \in Begins
  BY <1>1
<1>3. PICK a \in Begins : \A b \in Begins : a <= b
  <2> HIDE DEF Begins
  <2> QED BY <1>2, LeastOfNat
<1> HIDE DEF n
<1>4. a = 1 \/ q[a - 1].status \notin B
  <2> SUFFICES ASSUME a # 1, q[a - 1].status \in B PROVE FALSE
    OBVIOUS
  <2>1. a - 1 \in 1..n
    BY <1>1, <1>3
  <2>2. AllIn(q, B, a - 1, n)
    <3> SUFFICES ASSUME NEW k \in (a - 1)..n PROVE q[k].status \in B
      BY DEF AllIn
    <3>1. k = a - 1 \/ k \in a..n
      BY <1>1, <1>3
    <3> QED BY <1>3, <3>1 DEF AllIn
  <2> QED BY <1>3, <2>1, <2>2
<1> QED BY <1>1, <1>2, <1>3, <1>4 DEF n

LEMMA ReasonBegins ==
  ASSUME NEW S, NEW q \in Seq(S), NEW x \in (DOMAIN q) \X (DOMAIN q), x[1] <= x[2],
         NEW f \in x[1]..x[2], \A k \in f..x[2] : q[k].reason = q[x[2]].reason
  PROVE  SameReason(q, x) \in x[1]..f
<1> DEFINE n == Len(q)
           b == x[1]
           e == x[2]
           Same(i) == \A k \in i..e : q[k].reason = q[e].reason
           P(i) == i \in b..e /\ Same(i) /\ (i = b \/ q[i - 1].reason # q[e].reason)
           Begins == {i \in b..e : Same(i)}
<1>1. b \in Nat \ {0} /\ e \in Nat /\ b <= e /\ f \in b..e
  OBVIOUS
<1>2. Begins \in SUBSET Nat /\ f \in Begins
  BY <1>1
<1>3. PICK i \in Begins : \A j \in Begins : i <= j
  <2> HIDE DEF Begins
  <2> QED BY <1>2, LeastOfNat
<1>4. SameReason(q, x) = CHOOSE j : P(j)
  BY Zenon DEF SameReason
<1> HIDE DEF b, e
<1>5. P(i)
  <2>1. ASSUME i # b, q[i - 1].reason = q[e].reason PROVE FALSE
    <3>1. i - 1 \in b..e
      BY <1>1, <1>3, <2>1
    <3>2. Same(i - 1)
      <4> SUFFICES ASSUME NEW k \in (i - 1)..e PROVE q[k].reason = q[e].reason
        OBVIOUS
      <4>1. k = i - 1 \/ k \in i..e
        BY <1>1, <1>3
      <4> QED BY <1>3, <2>1, <4>1
    <3> QED BY <1>1, <1>3, <3>1, <3>2
  <2> QED BY <1>3, <2>1
<1>6. P(CHOOSE j : P(j))
  <2> HIDE DEF P
  <2> QED BY <1>5, Zenon
<1> DEFINE s == SameReason(q, x)
<1> HIDE DEF s
<1>7. P(s)
  <2> HIDE DEF P
  <2> QED BY <1>4, <1>6 DEF s
<1>8. s <= f
  <2> SUFFICES ASSUME s > f PROVE FALSE
    BY <1>1, <1>7
  <2>1. s - 1 \in f..e /\ s # b
    BY <1>1, <1>7
  <2> QED BY <1>2, <1>7, <2>1
<1> QED BY <1>1, <1>7, <1>8 DEF s, b, e

LEMMA TransportFoundAgain ==
  ASSUME CampaignInv, NEW m \in Modes, NEW id \in IdsOf(records[m]), NEW q,
         q = SessionRecords(records[m], id), NEW x
  PROVE  x \in Long(q, IsTransport, TransportLimit) <=>
           /\ x \in (DOMAIN q) \X (DOMAIN q) /\ x[2] = Len(q)
           /\ AllIn(q, Transport, x[1], Len(q)) /\ Len(q) - x[1] + 1 >= TransportLimit
<1>1. q \in Seq(TurnRecords) /\ Within(q, Transport, TransportLimit)
  BY DEF CampaignInv, FiledInv, SessionOver
<1> DEFINE n == Len(q)
           a == x[1]
           b == x[2]
<1>2. n \in Nat /\ DOMAIN q = 1..n
  BY <1>1
<1>3. x \in Long(q, IsTransport, TransportLimit) <=>
        /\ x \in (1..n) \X (1..n) /\ a <= b /\ b - a + 1 >= TransportLimit
        /\ AllIn(q, Transport, a, b)
        /\ a = 1 \/ q[a - 1].status \notin Transport
        /\ b = n \/ q[b + 1].status \notin Transport
  BY <1>1, <1>2, LongStretches
<1>4. \A i, j \in 1..n : i <= j /\ AllIn(q, Transport, i, j) /\ j - i + 1 >= TransportLimit
                           => j = n /\ j - i + 1 = TransportLimit
  BY <1>1, <1>2 DEF Within
<1>5. x \in (1..n) \X (1..n) => a \in 1..n /\ b \in 1..n
  OBVIOUS
<1> HIDE DEF n, a, b
<1>6. ASSUME x \in (1..n) \X (1..n), b = n, AllIn(q, Transport, a, n), n - a + 1 >= TransportLimit
      PROVE  a = 1 \/ q[a - 1].status \notin Transport
  <2> SUFFICES ASSUME a # 1, q[a - 1].status \in Transport PROVE FALSE
    OBVIOUS
  <2>1. a - 1 \in 1..n /\ n \in 1..n /\ a - 1 <= n /\ n - (a - 1) + 1 >= TransportLimit
        /\ a <= n /\ a \in 1..n
    BY <1>2, <1>5, <1>6, Limits
  <2>2. AllIn(q, Transport, a - 1, n)
    <3> SUFFICES ASSUME NEW k \in (a - 1)..n PROVE q[k].status \in Transport
      BY DEF AllIn
    <3>1. k = a - 1 \/ k \in a..n
      BY <1>2, <2>1
    <3> QED BY <1>6, <3>1 DEF AllIn
  <2>3. n - (a - 1) + 1 = TransportLimit /\ n - a + 1 = TransportLimit
    BY <1>4, <1>6, <2>1, <2>2
  <2> QED BY <1>2, <2>1, <2>3
<1>7. CASE x \in Long(q, IsTransport, TransportLimit)
  BY <1>2, <1>3, <1>4, <1>5, <1>7 DEF n, a, b
<1>8. CASE /\ x \in (1..n) \X (1..n) /\ b = n
           /\ AllIn(q, Transport, a, n) /\ n - a + 1 >= TransportLimit
  <2>1. a <= b /\ b - a + 1 >= TransportLimit /\ AllIn(q, Transport, a, b)
    BY <1>2, <1>5, <1>8
  <2> QED BY <1>3, <1>6, <1>8, <2>1 DEF n, a, b
<1> QED BY <1>2, <1>7, <1>8 DEF n, a, b

LEMMA SessionIncidents ==
  ASSUME NEW m, NEW id, NEW q, NEW f
  PROVE  /\ f \in Detected(m, id, q) /\ f.type = "transport" <=>
              \E x \in Long(q, IsTransport, TransportLimit) : f = Aborted("transport", m, id, x[1], x[2])
         /\ \A x \in Long(q, IsInvalid, ValidatorLimit) :
              Aborted("validator", m, id, x[1], x[2]) \in Detected(m, id, q)
         /\ \A x \in Long(q, IsSandbox, SandboxLimit) :
              x[2] - SameReason(q, x) + 1 >= SandboxLimit
                => Aborted("sandbox", m, id, SameReason(q, x), x[2]) \in Detected(m, id, q)
<1> DEFINE Ended(x) == IF x[2] = Len(q) THEN x[2] ELSE x[2] + 1
           T == {Aborted("transport", m, id, x[1], x[2]) : x \in Long(q, IsTransport, TransportLimit)}
           V == {Aborted("validator", m, id, x[1], x[2]) : x \in Long(q, IsInvalid, ValidatorLimit)}
           X == {Aborted("sandbox", m, id, SameReason(q, x), x[2]) :
                   x \in {y \in Long(q, IsSandbox, SandboxLimit) :
                            y[2] - SameReason(q, y) + 1 >= SandboxLimit}}
           R == {Aborted("reject_loop", m, id, Ended(x), Ended(x)) : x \in Long(q, IsRejected, LoopLimit + 1)}
<1>1. Detected(m, id, q) = T \cup V \cup X \cup R
  BY Zenon DEF Detected, Aborted
<1>2. \A type, first, last : Aborted(type, m, id, first, last).type = type
  BY DEF Aborted
<1>3. f \in V \cup X \cup R => f.type # "transport"
  BY <1>2
<1>4. f \in T => f.type = "transport"
  BY <1>2
<1>5. f \in T <=> \E x \in Long(q, IsTransport, TransportLimit) :
                    f = Aborted("transport", m, id, x[1], x[2])
  OBVIOUS
<1>6. \A x \in Long(q, IsInvalid, ValidatorLimit) : Aborted("validator", m, id, x[1], x[2]) \in V
  OBVIOUS
<1>7. \A x \in Long(q, IsSandbox, SandboxLimit) :
        x[2] - SameReason(q, x) + 1 >= SandboxLimit
          => Aborted("sandbox", m, id, SameReason(q, x), x[2]) \in X
  OBVIOUS
<1> HIDE DEF T, V, X, R
<1> QED BY <1>1, <1>3, <1>4, <1>5, <1>6, <1>7

LEMMA IncidentsReported ==
  ASSUME CampaignInv, phase = "done", NEW f
  PROVE  f \in report.incidents <=>
           \E m \in Modes : \E id \in IdsOf(records[m]) :
             f \in Detected(m, id, SessionRecords(records[m], id))
<1>1. report.incidents = DetectedIn("live") \cup DetectedIn("mock")
  BY DEF CampaignInv, Analysis
<1>2. \A m : f \in DetectedIn(m) <=>
               \E id \in IdsOf(records[m]) : f \in Detected(m, id, SessionRecords(records[m], id))
  BY DEF DetectedIn, IdsOf
<1> QED BY <1>1, <1>2 DEF Modes

LEMMA FiledIncident ==
  ASSUME CampaignInv, phase = "done", NEW i \in incidents
  PROVE  /\ i \in IncidentRecords /\ i.mode \in Modes /\ i.id \in IdsOf(records[i.mode])
         /\ Fits(i, SessionRecords(records[i.mode], i.id))
         /\ SessionRecords(records[i.mode], i.id) \in Seq(TurnRecords)
         /\ SessionOver(SessionRecords(records[i.mode], i.id), i.mode, i.id, incidents)
         /\ i = Aborted(i.type, i.mode, i.id, i.first, i.last)
<1>1. i \in IncidentRecords
  BY DEF CampaignInv, CampaignTypes
<1>2. i.mode \in Modes /\ i = Aborted(i.type, i.mode, i.id, i.first, i.last)
  BY <1>1 DEF IncidentRecords, Aborted
<1>3. todo = <<>>
  BY DEF CampaignInv, AgendaInv, Modes
<1>4. i.id \in IdsOf(records[i.mode]) /\ Fits(i, SessionRecords(records[i.mode], i.id))
  BY <1>3 DEF CampaignInv, IncidentsInv
<1> QED BY <1>1, <1>2, <1>4 DEF CampaignInv, FiledInv

LEMMA TransportIncidents ==
  ASSUME CampaignInv, phase = "done"
  PROVE  {i \in incidents : i.type = "transport"} = {i \in report.incidents : i.type = "transport"}
<1>1. ASSUME NEW i \in incidents, i.type = "transport" PROVE i \in report.incidents
  <2> DEFINE m == i.mode
             id == i.id
             q == SessionRecords(records[m], id)
             x == <<i.first, i.last>>
  <2>1. /\ m \in Modes /\ id \in IdsOf(records[m]) /\ Fits(i, q) /\ q \in Seq(TurnRecords)
        /\ i = Aborted("transport", m, id, i.first, i.last)
    BY <1>1, FiledIncident
  <2>2. /\ i.last = Len(q) /\ i.first \in DOMAIN q /\ i.last \in DOMAIN q
        /\ AllIn(q, Transport, i.first, Len(q)) /\ Len(q) - i.first + 1 >= TransportLimit
    BY <1>1, <2>1 DEF Fits
  <2>3. x \in (DOMAIN q) \X (DOMAIN q) /\ x[1] = i.first /\ x[2] = i.last
    BY <2>2
  <2> HIDE DEF x, q, m, id
  <2>4. x \in Long(q, IsTransport, TransportLimit)
    BY <2>1, <2>2, <2>3, TransportFoundAgain DEF q
  <2>5. i \in Detected(m, id, q)
    BY <2>1, <2>3, <2>4, SessionIncidents
  <2> QED BY <2>1, <2>5, IncidentsReported DEF q
<1>2. ASSUME NEW f \in report.incidents, f.type = "transport" PROVE f \in incidents
  <2>0. PICK m \in Modes :
          \E id \in IdsOf(records[m]) : f \in Detected(m, id, SessionRecords(records[m], id))
    BY <1>2, IncidentsReported
  <2>1. PICK id \in IdsOf(records[m]) : f \in Detected(m, id, SessionRecords(records[m], id))
    BY <2>0
  <2> DEFINE q == SessionRecords(records[m], id)
  <2>2. PICK x \in Long(q, IsTransport, TransportLimit) : f = Aborted("transport", m, id, x[1], x[2])
    BY <1>2, <2>1, SessionIncidents
  <2>3. SessionOver(q, m, id, incidents)
    BY DEF CampaignInv, FiledInv
  <2> HIDE DEF q
  <2>4. /\ x \in (DOMAIN q) \X (DOMAIN q) /\ x[2] = Len(q)
        /\ AllIn(q, Transport, x[1], Len(q)) /\ Len(q) - x[1] + 1 >= TransportLimit
    BY <2>2, TransportFoundAgain DEF q
  <2>5. x[1] \in DOMAIN q
    BY <2>4
  <2> QED BY <2>2, <2>3, <2>4, <2>5 DEF SessionOver
<1> QED BY <1>1, <1>2

LEMMA ValidatorIncidents ==
  ASSUME CampaignInv, phase = "done", NEW i \in incidents, i.type = "validator"
  PROVE  \E f \in report.incidents : /\ f.type = "validator" /\ f.mode = i.mode /\ f.id = i.id
                                     /\ f.last = i.last /\ f.first <= i.first
<1> DEFINE m == i.mode
           id == i.id
           q == SessionRecords(records[m], id)
           n == Len(q)
<1>1. m \in Modes /\ id \in IdsOf(records[m]) /\ Fits(i, q) /\ q \in Seq(TurnRecords)
  BY FiledIncident
<1>2. /\ n \in Nat /\ DOMAIN q = 1..n /\ i.last = n /\ i.first \in 1..n
      /\ AllIn(q, Unusable, i.first, n) /\ n - i.first + 1 >= ValidatorLimit
  BY <1>1 DEF Fits
<1> HIDE DEF m, id, q
<1>3. PICK a \in DOMAIN q : /\ a <= i.first /\ AllIn(q, Unusable, a, n)
                            /\ a = 1 \/ q[a - 1].status \notin Unusable
  BY <1>1, <1>2, StretchBegins
<1> DEFINE first == i.first
           x == <<a, n>>
<1> HIDE DEF n, first
<1>4. a \in 1..n /\ first \in 1..n /\ a <= first /\ n - first + 1 >= ValidatorLimit
  BY <1>2, <1>3 DEF first
<1>5. n \in 1..n /\ a <= n /\ n - a + 1 >= ValidatorLimit
  BY <1>2, <1>4, Limits
<1>6. x \in (DOMAIN q) \X (DOMAIN q) /\ x[1] = a /\ x[2] = n
  BY <1>2, <1>4, <1>5
<1> HIDE DEF x
<1>7. x \in Long(q, IsInvalid, ValidatorLimit)
  BY <1>1, <1>3, <1>5, <1>6, LongStretches DEF n
<1>8. Aborted("validator", m, id, a, n) \in Detected(m, id, q)
  BY <1>6, <1>7, SessionIncidents
<1>9. Aborted("validator", m, id, a, n) \in report.incidents
  BY <1>1, <1>8, IncidentsReported DEF q
<1> QED BY <1>2, <1>4, <1>9 DEF Aborted, m, id, first

LEMMA SandboxIncidents ==
  ASSUME CampaignInv, phase = "done", NEW i \in incidents, i.type = "sandbox", NEW q,
         q = SessionRecords(records[i.mode], i.id),
         Cardinality({q[k].reason : k \in i.first..i.last}) = 1
  PROVE  \E f \in report.incidents : /\ f.type = "sandbox" /\ f.mode = i.mode /\ f.id = i.id
                                     /\ f.last = i.last
<1> DEFINE m == i.mode
           id == i.id
           n == Len(q)
           first == i.first
           Reasons1 == {q[k].reason : k \in first..n}
<1>1. m \in Modes /\ id \in IdsOf(records[m]) /\ Fits(i, q) /\ q \in Seq(TurnRecords)
  BY FiledIncident
<1>2. /\ n \in Nat /\ DOMAIN q = 1..n /\ i.last = n /\ first \in 1..n
      /\ AllIn(q, Sandboxed, first, n) /\ n - first + 1 >= SandboxLimit
  BY <1>1 DEF Fits
<1>3. \A k \in first..n : q[k].reason = q[n].reason
  <2>1. Cardinality(Reasons1) = 1
    BY <1>2
  <2> DEFINE why == [k \in first..n |-> q[k].reason]
  <2>2. Reasons1 = {why[k] : k \in first..n} /\ DOMAIN why = first..n /\ why = [k \in first..n |-> why[k]]
    OBVIOUS
  <2>3. IsFiniteSet(first..n)
    <3>1. first \in Int /\ n \in Int
      BY <1>2
    <3> HIDE DEF first, n
    <3> QED BY <3>1, FS_Interval
  <2>4. IsFiniteSet(Reasons1)
    <3> DEFINE S == first..n
    <3>1. IsFiniteSet(S) /\ DOMAIN why = S /\ why = [k \in S |-> why[k]]
      BY <2>2, <2>3
    <3>2. Reasons1 = {why[k] : k \in S}
      BY <2>2
    <3> HIDE DEF why, Reasons1, first, n, S, m, id
    <3>3. IsFiniteSet({why[k] : k \in S})
      BY ONLY <3>1, FiniteImage
    <3> QED BY <3>2, <3>3
  <2>5. PICK r : Reasons1 = {r}
    <3> HIDE DEF Reasons1
    <3> QED BY <2>1, <2>4, FS_Singleton
  <2>6. n \in first..n
    BY <1>2
  <2>7. \A k \in first..n : q[k].reason \in Reasons1
    OBVIOUS
  <2> HIDE DEF Reasons1, first, n, m, id
  <2>8. q[n].reason = r /\ \A k \in first..n : q[k].reason = r
    BY <2>5, <2>6, <2>7
  <2> QED BY <2>8
<1> HIDE DEF m, id, Reasons1
<1>4. PICK a \in DOMAIN q : /\ a <= first /\ AllIn(q, Sandboxed, a, n)
                            /\ a = 1 \/ q[a - 1].status \notin Sandboxed
  BY <1>1, <1>2, StretchBegins
<1> DEFINE x == <<a, n>>
           s == SameReason(q, x)
<1> HIDE DEF n, first, s
<1>5. a \in 1..n /\ a <= first /\ first \in a..n /\ n \in 1..n /\ a <= n /\ n - a + 1 >= SandboxLimit
  BY <1>2, <1>4, Limits
<1>6. x \in (DOMAIN q) \X (DOMAIN q) /\ x[1] = a /\ x[2] = n
  BY <1>2, <1>5
<1> HIDE DEF x
<1>7. x \in Long(q, IsSandbox, SandboxLimit)
  BY <1>1, <1>4, <1>5, <1>6, LongStretches DEF n
<1>8. s \in a..first
  BY <1>1, <1>3, <1>5, <1>6, ReasonBegins DEF s
<1>9. n - s + 1 >= SandboxLimit
  BY <1>2, <1>5, <1>8, Limits
<1>10. Aborted("sandbox", m, id, s, n) \in Detected(m, id, q)
  BY <1>6, <1>7, <1>9, SessionIncidents DEF s
<1>11. Aborted("sandbox", m, id, s, n) \in report.incidents
  BY <1>1, <1>10, IncidentsReported DEF m, id
<1> QED BY <1>2, <1>11 DEF Aborted, m, id

LEMMA FoundAgain == CampaignInv => IncidentsAreFoundAgain
<1> SUFFICES ASSUME CampaignInv, phase = "done" PROVE IncidentsAreFoundAgain
  BY DEF IncidentsAreFoundAgain
<1>1. {i \in incidents : i.type = "transport"} = {i \in report.incidents : i.type = "transport"}
  BY TransportIncidents
<1>2. \A i \in incidents : i.type = "validator" =>
        \E f \in report.incidents : /\ f.type = "validator" /\ f.mode = i.mode /\ f.id = i.id
                                    /\ f.last = i.last /\ f.first <= i.first
  BY ValidatorIncidents
<1>3. \A i \in incidents :
        i.type = "sandbox" /\ Cardinality({SessionRecords(records[i.mode], i.id)[k].reason :
                                             k \in i.first..i.last}) = 1 =>
          \E f \in report.incidents : /\ f.type = "sandbox" /\ f.mode = i.mode /\ f.id = i.id
                                      /\ f.last = i.last
  BY SandboxIncidents
<1> QED BY <1>1, <1>2, <1>3 DEF IncidentsAreFoundAgain

LEMMA StreaksEnded == CampaignInv => StreaksEndSessions
<1> SUFFICES ASSUME CampaignInv, NEW m \in Modes, NEW id \in IdsOf(records[m])
             PROVE  LET rs == SessionRecords(records[m], id)
                        Parse(r) == r.status = "invalid_response"
                        Stopped(x) == x[2] = Len(rs) IN
                    /\ \A x \in Long(rs, IsTransport, TransportLimit) :
                         Stopped(x) /\ x[2] - x[1] + 1 = TransportLimit
                    /\ \A x \in Long(rs, Parse, ValidatorLimit) :
                         Stopped(x) /\ x[2] - x[1] + 1 = ValidatorLimit
                    /\ \A x \in Long(rs, IsSandbox, SandboxLimit) :
                         Stopped(x) /\ x[2] - x[1] + 1 = SandboxLimit
  BY Zenon DEF StreaksEndSessions, IdsOf
<1> DEFINE q == SessionRecords(records[m], id)
           Parse(r) == r.status = "invalid_response"
<1>1. /\ q \in Seq(TurnRecords) /\ Within(q, Transport, TransportLimit)
      /\ Within(q, Unparsed, ValidatorLimit) /\ Within(q, Sandboxed, SandboxLimit)
  BY DEF CampaignInv, FiledInv, SessionOver
<1> HIDE DEF q
<1>2. ASSUME NEW x \in Long(q, IsTransport, TransportLimit)
      PROVE  x[2] = Len(q) /\ x[2] - x[1] + 1 = TransportLimit
  BY <1>1, LongStretches DEF Within
<1>3. ASSUME NEW x \in Long(q, IsSandbox, SandboxLimit)
      PROVE  x[2] = Len(q) /\ x[2] - x[1] + 1 = SandboxLimit
  BY <1>1, LongStretches DEF Within
<1>4. ASSUME NEW x \in Long(q, Parse, ValidatorLimit)
      PROVE  x[2] = Len(q) /\ x[2] - x[1] + 1 = ValidatorLimit
  <2>1. /\ x \in (DOMAIN q) \X (DOMAIN q) /\ x[1] <= x[2] /\ x[2] - x[1] + 1 >= ValidatorLimit
        /\ AllIn(q, Unparsed, x[1], x[2])
    BY DEF Long, Stretches, AllIn, Unparsed
  <2> QED BY <1>1, <2>1 DEF Within
<1> QED BY <1>2, <1>3, <1>4, Zenon DEF q

-----------------------------------------------------------------------------
(* What the reports count. *)
Having(rs, status) == {i \in DOMAIN rs : rs[i].status = status}

LEMMA Disjoint ==
  ASSUME NEW A, NEW B, IsFiniteSet(A), IsFiniteSet(B), A \cap B = {}
  PROVE  IsFiniteSet(A \cup B) /\ Cardinality(A \cup B) = Cardinality(A) + Cardinality(B)
<1>1. Cardinality(A \cap B) = 0
  BY FS_EmptySet
<1>2. Cardinality(A) \in Nat /\ Cardinality(B) \in Nat
  BY FS_CardinalityType
<1>3. IsFiniteSet(A \cup B)
      /\ Cardinality(A \cup B) = Cardinality(A) + Cardinality(B) - Cardinality(A \cap B)
  BY FS_Union
<1> DEFINE a == Cardinality(A)
           b == Cardinality(B)
<1>4. a + b - 0 = a + b
  BY <1>2
<1> QED BY <1>1, <1>3, <1>4

LEMMA Part ==
  ASSUME NEW n \in Nat, NEW A \in SUBSET (1..n)
  PROVE  IsFiniteSet(A) /\ Cardinality(A) \in 0..n
<1>1. IsFiniteSet(1..n) /\ Cardinality(1..n) = n
  <2>1. n \in Int /\ 1 \in Int /\ (IF 1 > n THEN 0 ELSE n - 1 + 1) = n
    OBVIOUS
  <2> QED BY <2>1, FS_Interval
<1>2. IsFiniteSet(A) /\ Cardinality(A) <= n
  BY <1>1, FS_Subset
<1>3. Cardinality(A) \in Nat
  BY <1>2, FS_CardinalityType
<1> QED BY <1>2, <1>3

LEMMA StatusCounts ==
  ASSUME NEW rs \in Seq(TurnRecords)
  PROVE  \E e, b, v, r, a \in Nat :
           /\ e = Cardinality(Having(rs, "transport_error"))
           /\ b = Cardinality(Having(rs, "invalid_response"))
           /\ v = Cardinality(Having(rs, "validation_reject"))
           /\ r = Cardinality(Having(rs, "sandbox_reject"))
           /\ a = Cardinality(Having(rs, "accept"))
           /\ e + b + v + r + a = Len(rs)
<1> DEFINE n == Len(rs)
           E == Having(rs, "transport_error")
           B == Having(rs, "invalid_response")
           V == Having(rs, "validation_reject")
           R == Having(rs, "sandbox_reject")
           A == Having(rs, "accept")
<1>1. n \in Nat /\ DOMAIN rs = 1..n
  OBVIOUS
<1>2. \A i \in 1..n : rs[i].status \in Statuses
  BY <1>1 DEF TurnRecords
<1>3. /\ E \in SUBSET (1..n) /\ B \in SUBSET (1..n) /\ V \in SUBSET (1..n)
      /\ R \in SUBSET (1..n) /\ A \in SUBSET (1..n)
  BY <1>1 DEF Having
<1>4. /\ E \cap B = {} /\ (E \cup B) \cap V = {} /\ ((E \cup B) \cup V) \cap R = {}
      /\ (((E \cup B) \cup V) \cup R) \cap A = {}
  BY DEF Having
<1>5. (((E \cup B) \cup V) \cup R) \cup A = 1..n
  BY <1>1, <1>2 DEF Having, Statuses
<1> HIDE DEF n, E, B, V, R, A
<1>6. /\ IsFiniteSet(E) /\ Cardinality(E) \in Nat /\ IsFiniteSet(B) /\ Cardinality(B) \in Nat
      /\ IsFiniteSet(V) /\ Cardinality(V) \in Nat /\ IsFiniteSet(R) /\ Cardinality(R) \in Nat
      /\ IsFiniteSet(A) /\ Cardinality(A) \in Nat
  BY <1>1, <1>3, Part
<1>7. IsFiniteSet(E \cup B) /\ Cardinality(E \cup B) = Cardinality(E) + Cardinality(B)
  BY <1>4, <1>6, Disjoint
<1>8. /\ IsFiniteSet((E \cup B) \cup V)
      /\ Cardinality((E \cup B) \cup V) = Cardinality(E \cup B) + Cardinality(V)
  BY <1>4, <1>6, <1>7, Disjoint
<1>9. /\ IsFiniteSet(((E \cup B) \cup V) \cup R)
      /\ Cardinality(((E \cup B) \cup V) \cup R) = Cardinality((E \cup B) \cup V) + Cardinality(R)
  BY <1>4, <1>6, <1>8, Disjoint
<1>10. Cardinality(1..n) = Cardinality(((E \cup B) \cup V) \cup R) + Cardinality(A)
  BY <1>4, <1>5, <1>6, <1>9, Disjoint
<1>11. Cardinality(1..n) = n
  <2>1. n \in Int /\ 1 \in Int /\ (IF 1 > n THEN 0 ELSE n - 1 + 1) = n
    BY <1>1
  <2> QED BY <2>1, FS_Interval
<1>12. Cardinality(E) + Cardinality(B) + Cardinality(V) + Cardinality(R) + Cardinality(A) = n
  BY <1>6, <1>7, <1>8, <1>9, <1>10, <1>11
<1> QED BY <1>6, <1>12 DEF n, E, B, V, R, A

IsSumming(g, rs, f, n) == g = [i \in 0..n |-> IF i = 0 THEN 0 ELSE g[i - 1] + rs[i][f]]

LEMMA SumIsInt ==
  ASSUME NEW rs \in Seq(TurnRecords), NEW f, \A i \in DOMAIN rs : rs[i][f] \in Int
  PROVE  SumOf(rs, f) \in Int
<1> DEFINE N == Len(rs)
           P(g) == IsSumming(g, rs, f, N)
           S == {n \in 0..N : \E g : IsSumming(g, rs, f, n) /\ g[n] \in Int}
<1>1. N \in Nat /\ DOMAIN rs = 1..N
  OBVIOUS
<1>2. 0 \in S
  <2> DEFINE g == [i \in 0..0 |-> 0]
  <2>1. IsSumming(g, rs, f, 0) /\ g[0] \in Int
    BY DEF IsSumming
  <2> QED BY <1>1, <2>1
<1>3. ASSUME NEW i \in 0..N, i < N, i \in S PROVE i + 1 \in S
  <2>1. PICK g : IsSumming(g, rs, f, i) /\ g[i] \in Int
    BY <1>3
  <2> DEFINE h == [j \in 0..(i + 1) |-> IF j = i + 1 THEN g[i] + rs[i + 1][f] ELSE g[j]]
  <2>2. \A j \in 0..i : h[j] = g[j]
    OBVIOUS
  <2>3. ASSUME NEW j \in 0..(i + 1)
        PROVE  h[j] = IF j = 0 THEN 0 ELSE h[j - 1] + rs[j][f]
    <3>1. CASE j = i + 1
      <4>1. j # 0 /\ j - 1 = i /\ i \in 0..i
        BY <3>1
      <4>2. h[j - 1] = g[i]
        BY <4>1, <2>2
      <4>3. h[j] = g[i] + rs[j][f]
        BY <3>1
      <4> QED BY <4>1, <4>2, <4>3
    <3>2. CASE j # i + 1
      <4>1. j \in 0..i /\ (j # 0 => j - 1 \in 0..i)
        BY <3>2
      <4>2. g[j] = IF j = 0 THEN 0 ELSE g[j - 1] + rs[j][f]
        BY <2>1, <4>1 DEF IsSumming
      <4> HIDE DEF h
      <4> QED BY <4>1, <4>2, <2>2
    <3> QED BY <3>1, <3>2
  <2>4. IsSumming(h, rs, f, i + 1)
    <3>1. h = [j \in 0..(i + 1) |-> h[j]]
      OBVIOUS
    <3> HIDE DEF h
    <3> QED BY <2>3, <3>1 DEF IsSumming
  <2>5. h[i + 1] \in Int
    <3>1. rs[i + 1][f] \in Int
      BY <1>1, <1>3
    <3>2. h[i + 1] = g[i] + rs[i + 1][f]
      OBVIOUS
    <3> QED BY <2>1, <3>1, <3>2
  <2>6. i + 1 \in 0..N
    BY <1>1, <1>3
  <2> HIDE DEF h
  <2> QED BY <2>4, <2>5, <2>6
<1>4. PICK g : P(g) /\ g[N] \in Int
  <2>1. \A i \in 0..N : i < N /\ i \in S => i + 1 \in S
    BY <1>3
  <2>2. N \in 0..N
    BY <1>1
  <2> HIDE DEF S, N
  <2>3. \A i \in 0..N : i \in S
    BY <1>1, <1>2, <2>1, Induction
  <2>4. N \in S
    BY <2>2, <2>3
  <2> QED BY <2>4 DEF S
<1> DEFINE sum == CHOOSE h : P(h)
<1>5. SumOf(rs, f) = sum[N]
  BY Zenon DEF SumOf, IsSumming
<1>6. P(sum)
  <2>1. \E h : P(h)
    BY <1>4
  <2> HIDE DEF P
  <2> QED BY <2>1, Zenon
<1> HIDE DEF sum
<1> DEFINE T == {n \in 0..N : sum[n] \in Int}
<1>7. \A i \in 0..N : sum[i] = IF i = 0 THEN 0 ELSE sum[i - 1] + rs[i][f]
  <2> HIDE DEF N
  <2> QED BY <1>6 DEF IsSumming
<1>8. 0 \in T
  BY <1>1, <1>7
<1>9. \A i \in 0..N : i < N /\ i \in T => i + 1 \in T
  <2> SUFFICES ASSUME NEW i \in 0..N, i < N, sum[i] \in Int PROVE i + 1 \in T
    OBVIOUS
  <2>1. i + 1 \in 0..N /\ i + 1 # 0 /\ (i + 1) - 1 = i /\ i + 1 \in DOMAIN rs
    BY <1>1
  <2>2. sum[i + 1] = sum[i] + rs[i + 1][f]
    BY <1>7, <2>1
  <2> QED BY <2>1, <2>2
<1>10. N \in T
  <2>1. N \in 0..N
    BY <1>1
  <2> HIDE DEF T, N
  <2> QED BY <1>1, <1>8, <1>9, <2>1, Induction
<1> QED BY <1>5, <1>10

Measured(rs, e, b, v, r, a, c, d) ==
  /\ Metrics(rs) = [total |-> Len(rs), errors |-> e, invalid |-> v, rejected |-> r,
                    accepted |-> a, grafts |-> a, cooldowns |-> c,
                    sandboxed |-> Len(rs) - e - b - v, deltas |-> d]
  /\ e + b + v + r + a = Len(rs) /\ c <= Len(rs) /\ c + a >= Len(rs)

LEMMA MetricsAre ==
  ASSUME NEW rs \in Seq(TurnRecords)
  PROVE  \E e, b, v, r, a, c \in Nat, d \in Int : Measured(rs, e, b, v, r, a, c, d)
<1> DEFINE n == Len(rs)
           A == Having(rs, "accept")
           G == {i \in DOMAIN rs : rs[i].graft}
           C == {i \in DOMAIN rs : rs[i].breaker > 0}
           x == SumOf(rs, "conatus")
           y == SumOf(rs, "predictive")
           c == Cardinality(C)
           d == x + y
<1>1. n \in Nat /\ DOMAIN rs = 1..n /\ \A i \in DOMAIN rs : rs[i] \in TurnRecords
  OBVIOUS
<1>2. PICK e, b, v, r, a \in Nat :
        /\ e = Cardinality(Having(rs, "transport_error"))
        /\ b = Cardinality(Having(rs, "invalid_response"))
        /\ v = Cardinality(Having(rs, "validation_reject"))
        /\ r = Cardinality(Having(rs, "sandbox_reject"))
        /\ a = Cardinality(Having(rs, "accept"))
        /\ e + b + v + r + a = Len(rs)
  BY StatusCounts
<1>3. G = A
  BY <1>1 DEF TurnRecords, Having
<1>4. x \in Int /\ y \in Int
  <2>1. \A i \in DOMAIN rs : rs[i]["conatus"] \in Int /\ rs[i]["predictive"] \in Int
    BY <1>1 DEF TurnRecords
  <2> QED BY <2>1, SumIsInt
<1>5. C \in SUBSET (1..n) /\ A \in SUBSET (1..n) /\ C \cup A = 1..n
  BY <1>1 DEF TurnRecords, Having
<1>6. Metrics(rs) = [total |-> n, errors |-> e, invalid |-> v, rejected |-> r,
                     accepted |-> a, grafts |-> Cardinality(G), cooldowns |-> c,
                     sandboxed |-> n - e - b - v, deltas |-> d]
  BY <1>2 DEF Metrics, HowMany, Having
<1> HIDE DEF n, A, G, C, x, y
<1>7. c \in 0..n /\ Cardinality(A) \in 0..n /\ IsFiniteSet(C) /\ IsFiniteSet(A)
  BY <1>1, <1>5, Part
<1>8. c + Cardinality(A) >= n
  <2>1. Cardinality(C \cup A) = Cardinality(C) + Cardinality(A) - Cardinality(C \cap A)
    BY <1>7, FS_Union
  <2>2. IsFiniteSet(C \cap A)
    BY <1>7, FS_Intersection
  <2>3. Cardinality(C \cap A) \in Nat
    BY <2>2, FS_CardinalityType
  <2>4. Cardinality(1..n) = n
    <3>1. n \in Int /\ 1 \in Int /\ (IF 1 > n THEN 0 ELSE n - 1 + 1) = n
      BY <1>1
    <3> QED BY <3>1, FS_Interval
  <2>5. n = Cardinality(C) + Cardinality(A) - Cardinality(C \cap A)
    BY <1>5, <2>1, <2>4
  <2> QED BY <1>1, <1>7, <2>3, <2>5
<1> HIDE DEF c
<1>9. c \in Nat /\ d \in Int /\ c <= n /\ c + a >= n
  BY <1>1, <1>2, <1>4, <1>7, <1>8 DEF A
<1>10. Cardinality(G) = a
  BY <1>2, <1>3 DEF A
<1> HIDE DEF d
<1>11. Measured(rs, e, b, v, r, a, c, d)
  BY <1>2, <1>6, <1>9, <1>10 DEF Measured, n
<1> QED BY <1>2, <1>9, <1>11

Rated(T, e, v, r, a, c, d) ==
  35 * a + 25 * Maximum(0, T - (e + v + r)) + 20 * Maximum(0, T - (e + c))
    + Maximum(0, Minimum(20 * T, 10 * T + d))

LEMMA Scores ==
  ASSUME NEW T \in Nat, NEW e \in Nat, NEW b \in Nat, NEW v \in Nat, NEW r \in Nat, NEW a \in Nat,
         NEW c \in Nat, NEW d \in Int, e + b + v + r + a = T, c <= T, c + a >= T
  PROVE  /\ Rated(T, e, v, r, a, c, d) \in 0..(100 * T)
         /\ a = T => Rated(T, e, v, r, a, c, d) >= 60 * T
         /\ a = 0 => Rated(T, e, v, r, a, c, d) <= 45 * T
<1> DEFINE p == Maximum(0, T - (e + v + r))
           q == Maximum(0, T - (e + c))
           w == Maximum(0, Minimum(20 * T, 10 * T + d))
<1>1. p \in 0..T /\ (a = T => p = T)
  BY DEF Maximum
<1>2. q \in 0..T /\ (a = 0 => q = 0)
  BY DEF Maximum
<1>3. w \in 0..(20 * T)
  BY DEF Maximum, Minimum
<1> HIDE DEF p, q, w
<1>4. a \in 0..T
  OBVIOUS
<1>5. /\ 35 * a + 25 * p + 20 * q + w \in 0..(100 * T)
      /\ a = T => 35 * a + 25 * p + 20 * q + w >= 60 * T
      /\ a = 0 => 35 * a + 25 * p + 20 * q + w <= 45 * T
  BY <1>1, <1>2, <1>3, <1>4
<1>6. Rated(T, e, v, r, a, c, d) = 35 * a + 25 * p + 20 * q + w
  BY DEF Rated, p, q, w
<1> QED BY <1>5, <1>6

LEMMA ScoreIs ==
  ASSUME NEW rs \in Seq(TurnRecords), NEW m, m = Metrics(rs), NEW score, score = Composite(m)
  PROVE  /\ m.total = Len(rs) /\ m.sandboxed = m.accepted + m.rejected
         /\ score \in 0..(100 * Len(rs))
         /\ m.grafts = Len(rs) => score >= 60 * Len(rs)
         /\ m.grafts = 0 => score <= 45 * Len(rs)
<1> DEFINE n == Len(rs)
<1>1. n \in Nat
  OBVIOUS
<1>2. PICK e \in Nat, b \in Nat, v \in Nat, r \in Nat, a \in Nat, c \in Nat, d \in Int :
        Measured(rs, e, b, v, r, a, c, d)
  BY MetricsAre
<1>3. /\ m = [total |-> n, errors |-> e, invalid |-> v, rejected |-> r,
              accepted |-> a, grafts |-> a, cooldowns |-> c,
              sandboxed |-> n - e - b - v, deltas |-> d]
      /\ e + b + v + r + a = n /\ c <= n /\ c + a >= n
  BY <1>2 DEF Measured
<1> HIDE DEF n
<1>4. m.total = n /\ m.sandboxed = n - e - b - v /\ m.accepted = a /\ m.rejected = r /\ m.grafts = a
  BY <1>3
<1>5. score = Rated(n, e, v, r, a, c, d)
  <2>1. m.errors = e /\ m.invalid = v /\ m.cooldowns = c /\ m.deltas = d
    BY <1>3
  <2> QED BY <1>4, <2>1 DEF Composite, Rated
<1>6. n - e - b - v = a + r
  BY <1>1, <1>3
<1>7. score \in 0..(100 * n) /\ (a = n => score >= 60 * n) /\ (a = 0 => score <= 45 * n)
  <2>1. e + b + v + r + a = n /\ c <= n /\ c + a >= n
    BY <1>3
  <2>2. /\ Rated(n, e, v, r, a, c, d) \in 0..(100 * n)
        /\ a = n => Rated(n, e, v, r, a, c, d) >= 60 * n
        /\ a = 0 => Rated(n, e, v, r, a, c, d) <= 45 * n
    <3> HIDE <1>3, <1>4, <1>5, <1>6
    <3>1. /\ n \in Nat /\ e \in Nat /\ b \in Nat /\ v \in Nat /\ r \in Nat
          /\ a \in Nat /\ c \in Nat /\ d \in Int
      BY <1>1
    <3> QED BY ONLY <2>1, <3>1, Scores, ZenonT(60)
  <2> QED BY <1>5, <2>2
<1> QED BY <1>4, <1>6, <1>7 DEF n

LEMMA MetricsReported ==
  ASSUME CampaignInv, phase = "done", NEW m \in Modes
  PROVE  report.metrics[m] = Metrics(records[m]) /\ records[m] \in Seq(TurnRecords)
BY DEF CampaignInv, CampaignTypes, Analysis

LEMMA EachOnce ==
  ASSUME NEW rs \in Seq(TurnRecords), NoneTwice(rs)
  PROVE  Cardinality({<<rs[i].id, rs[i].turn>> : i \in DOMAIN rs}) = Len(rs)
<1> DEFINE n == Len(rs)
           T == {<<rs[i].id, rs[i].turn>> : i \in DOMAIN rs}
           f == [i \in 1..n |-> <<rs[i].id, rs[i].turn>>]
<1>1. n \in Nat /\ DOMAIN rs = 1..n
  OBVIOUS
<1>2. \A i, j \in 1..n : f[i] = f[j] => i = j
  BY <1>1 DEF NoneTwice
<1>3. f \in Injection(1..n, T) /\ f \in Surjection(1..n, T)
  <2>1. f \in [1..n -> T] /\ \A t \in T : \E i \in 1..n : f[i] = t
    BY <1>1
  <2> HIDE DEF f, T
  <2> QED BY <1>2, <2>1 DEF Injection, IsInjective, Surjection
<1>4. IsFiniteSet(1..n) /\ Cardinality(1..n) = n
  <2>1. n \in Int /\ 1 \in Int /\ (IF 1 > n THEN 0 ELSE n - 1 + 1) = n
    BY <1>1
  <2> HIDE DEF n
  <2> QED BY <2>1, FS_Interval
<1> HIDE DEF f, T, n
<1>5. Cardinality(T) = Cardinality(1..n)
  BY <1>3, <1>4, FS_Surjection
<1> QED BY <1>4, <1>5 DEF T, n

LEMMA Ranked ==
  ASSUME NEW x \in Int, NEW y \in Int, NEW t \in Nat, NEW u \in Nat, x >= 60 * t, y <= 45 * u
  PROVE  x * u >= y * t
<1>1. x * u >= (60 * t) * u
  OBVIOUS
<1>2. y * t <= (45 * u) * t
  OBVIOUS
<1>3. t * u \in Nat
  OBVIOUS
<1>4. (60 * t) * u = 60 * (t * u) /\ (45 * u) * t = 45 * (t * u)
  OBVIOUS
<1> DEFINE z == t * u
           xu == x * u
           yt == y * t
<1>5. xu \in Int /\ yt \in Int
  OBVIOUS
<1>6. xu >= 60 * z /\ yt <= 45 * z /\ z \in Nat
  BY <1>1, <1>2, <1>3, <1>4
<1> HIDE DEF z, xu, yt
<1>7. xu >= yt
  BY <1>5, <1>6
<1> QED BY <1>7 DEF xu, yt

LEMMA TrueReports == CampaignInv => ReportsAreTrue
<1> SUFFICES ASSUME CampaignInv, phase = "done" PROVE ReportsAreTrue
  BY DEF ReportsAreTrue
<1> DEFINE ids(m) == {<<records[m][i].id, records[m][i].turn>> : i \in DOMAIN records[m]}
           ms == report.metrics
           ScoreOf(m) == Composite(ms[m])
<1>1. \A m \in Modes : records[m] \in Seq(TurnRecords) /\ NoneTwice(records[m])
                         /\ ms[m] = Metrics(records[m]) /\ Len(records[m]) \in Nat
  BY MetricsReported DEF CampaignInv, FiledInv
<1>2. ASSUME NEW m \in Modes
      PROVE  /\ ms[m].total = Len(records[m]) /\ ms[m].sandboxed = ms[m].accepted + ms[m].rejected
             /\ ScoreOf(m) \in 0..(100 * Len(records[m]))
             /\ ms[m].grafts = Len(records[m]) => ScoreOf(m) >= 60 * Len(records[m])
             /\ ms[m].grafts = 0 => ScoreOf(m) <= 45 * Len(records[m])
  BY <1>1, ScoreIs
<1>3. \A m \in Modes : Cardinality(ids(m)) = Len(records[m])
  BY <1>1, EachOnce
<1> HIDE DEF ms, ScoreOf, ids
<1>4. ASSUME NEW m \in Modes, NEW n \in Modes, ms[m].total > 0, ms[m].grafts = ms[m].total, ms[n].grafts = 0
      PROVE  ScoreOf(m) * ms[n].total >= ScoreOf(n) * ms[m].total
  <2> DEFINE t == ms[m].total
             u == ms[n].total
             x == ScoreOf(m)
             y == ScoreOf(n)
  <2>1. /\ t \in Nat /\ u \in Nat /\ t = Len(records[m]) /\ u = Len(records[n])
        /\ x \in 0..(100 * Len(records[m])) /\ y \in 0..(100 * Len(records[n]))
    BY <1>1, <1>2
  <2>2. x >= 60 * t /\ y <= 45 * u
    BY <1>2, <1>4, <2>1
  <2> HIDE DEF t, u, x, y
  <2>3. x \in Int /\ y \in Int
    BY <1>1, <2>1
  <2>4. x * u >= y * t
    BY <2>1, <2>2, <2>3, Ranked
  <2> QED BY <2>4 DEF t, u, x, y
<1>5. \A m \in Modes : /\ ms[m].sandboxed = ms[m].accepted + ms[m].rejected
                       /\ Cardinality(ids(m)) = Len(records[m])
                       /\ ScoreOf(m) \in 0..(100 * ms[m].total)
  BY <1>2, <1>3
<1> QED BY <1>4, <1>5, Zenon DEF ReportsAreTrue, ms, ScoreOf, ids

(* Whatever the models answer and whichever are there: a session stops at  *)
(* the turn that fills a streak of transport errors, of texts that do not  *)
(* parse or of sandbox rejects; the analysis finds the incidents sessions  *)
(* recorded again in the records they wrote; no turn is recorded twice,    *)
(* and the metrics and scores are those of the records (wave2_soak.py      *)
(* run_session, detect_from_rows, compute_model_metrics and                *)
(* generate_leaderboard).                                                  *)
THEOREM SpecCampaignIsAccountedFor == SoakSpec => []CampaignIsAccountedFor
<1>1. CampaignInv => CampaignIsAccountedFor
  BY FoundAgain, StreaksEnded, TrueReports DEF CampaignIsAccountedFor
<1> QED BY <1>1, CampaignInitOK, CampaignNextOK, PTL DEF SoakSpec
=============================================================================
