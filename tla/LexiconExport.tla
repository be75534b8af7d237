--------------------------- MODULE LexiconExport ---------------------------
(***************************************************************************)
(* scripts/export_lexicon.py: from the seeds and the automatic source to   *)
(* the tables, the rows and the generated artefacts, and the gates before  *)
(* anything is written.  A word is a stem and an ending, so that the       *)
(* guessed cases are the endings of the code.                              *)
(***************************************************************************)
EXTENDS LexiconSources

CONSTANTS
  Core,          \* seed_ru_core.sql: the entries loaded first
  KnownCollisions,   \* <<surface, lemmas in their order>>
  Latin,         \* the transliteration of a lemma
  Sibilants,     \* stems that end in a sibilant
  BadForms,      \* words that are not Cyrillic
  TargetCount,   \* 70 lemmas
  MinQuality     \* 8.0 in hundredths

NoForm == <<"", "">>

-----------------------------------------------------------------------------
(* The tables of load_rows.                                                *)

SameKey(e, f) == e.lemma = f.lemma /\ e.pos = f.pos
InsertOrIgnore(table, new) ==
  table \cup {e \in new : \A t \in table : ~SameKey(e, t)}

(* The brain seed deletes its tier, then inserts what is not there. *)
Entries(src) ==
  InsertOrIgnore({e \in InsertOrIgnore(Core, src.curated) : e.tier # "brain-kb-reviewed"},
                 src.brain)

AutoForms(src) == IF src.manifest.enabled THEN src.tsv ELSE {}

Tier(t) == CASE t = "curated" -> 0 [] t = "brain-kb-reviewed" -> 1
             [] t = "auto-verified" -> 2 [] OTHER -> 3

InferAccusative(nom) ==
  CASE nom[2] = "a"  -> <<nom[1], "u">>
    [] nom[2] = "ya" -> <<nom[1], "yu">>
    [] OTHER         -> nom

InferInstrumental(nom, gen) ==
  <<nom[1], CASE nom[2] = "mya"  -> "menem"
              [] nom[2] = "a"    -> IF nom[1] \in Sibilants THEN "ej" ELSE "oj"
              [] nom[2] = "ya"   -> "ej"
              [] nom[2] = "soft" -> IF gen[2] = "ya" THEN "em" ELSE "softyu"
              [] nom[2] \in {"j", "e"} -> "em"
              [] OTHER           -> "om">>

NormalizeAccusative(e, word) ==
  CASE e.pos = "noun" /\ e.nom[2] = "mya" /\ word[2] = "myu" -> e.nom
    [] e.pos = "noun" /\ word = e.nom -> InferAccusative(e.nom)
    [] OTHER -> word
NormalizeInstrumental(e, word) ==
  CASE e.pos = "noun" /\ e.nom[2] = "soft" /\ e.gen[2] = "ya" /\ word[2] = "softyu"
         -> <<e.nom[1], "em">>
    [] e.pos = "noun" /\ word = e.nom -> InferInstrumental(e.nom, e.gen)
    [] OTHER -> word

(* _hydrate_entry_case_forms: a form of the table beats the entry's own.   *)
(* Only the automatic forms are in the table when it runs.                 *)
Hydrated(e, forms, case, own) ==
  LET best == FirstOf({f \in forms : /\ f.lemma = e.lemma /\ f.pos = e.pos
                                     /\ f.case = case /\ f.number = "singular"}, 1,
                      LAMBDA f : <<Tier(f.tier), -f.quality, Rank[f.surface]>>) IN
  IF best # {} THEN (CHOOSE f \in best : TRUE).surface
  ELSE IF own # NoForm THEN own ELSE e.nom

Hydrate(e, forms) ==
  [e EXCEPT !.acc = NormalizeAccusative(e, Hydrated(e, forms, "accusative", @)),
            !.ins = NormalizeInstrumental(e, Hydrated(e, forms, "instrumental", @))]

(* _sync_entries_to_forms, after the entries have their cases. *)
Cases == {"nominative", "genitive", "prepositional", "accusative", "instrumental"}
Word(e, case) == CASE case = "nominative" -> e.nom [] case = "genitive" -> e.gen
                   [] case = "prepositional" -> e.prep [] case = "accusative" -> e.acc
                   [] OTHER -> e.ins
FormsOf(e) == {[surface |-> Word(e, c), lemma |-> e.lemma, pos |-> e.pos, case |-> c,
                number |-> "singular", tier |-> e.tier, quality |-> e.quality] : c \in Cases}

(* The order of the query: the lemmas, then the names of the parts of      *)
(* speech.                                                                 *)
PosRank(pos) == CASE pos = "adjective" -> 0 [] pos = "noun" -> 1 [] OTHER -> 2
RowBefore(e, f) ==
  Less(<<Rank[e.lemma], PosRank(e.pos)>>, <<Rank[f.lemma], PosRank(f.pos)>>)

(* Mutant: the rows are those of every tier. *)
LoadAllTiers(src) ==
  LET auto    == AutoForms(src)
      entries == {Hydrate(e, auto) : e \in Entries(src)} IN
  [rows  |-> InOrder(entries, RowBefore),
   forms |-> auto \cup UNION {FormsOf(e) : e \in entries}]
(* load_rows: the rows are the curated entries, in the order of the query. *)
Load(src) ==
  LET auto    == AutoForms(src)
      entries == {Hydrate(e, auto) : e \in Entries(src)} IN
  [rows  |-> InOrder({e \in entries : e.tier = "curated"}, RowBefore),
   forms |-> auto \cup UNION {FormsOf(e) : e \in entries}]

-----------------------------------------------------------------------------
(* Which forms a surface offers (build_forms_by_surface): curated lemmas   *)
(* suppress the others, else reviewed lemmas suppress the automatic ones.  *)
Offered(here) ==
  LET lemmas(tier) == {f.lemma : f \in {x \in here : x.tier = tier}} IN
  CASE lemmas("curated") # {} ->
         {f \in here : f.tier = "curated" \/ f.lemma \in lemmas("curated")}
    [] lemmas("curated") = {} /\ lemmas("brain-kb-reviewed") # {} ->
         {f \in here : f.tier = "brain-kb-reviewed" \/ f.lemma \in lemmas("brain-kb-reviewed")}
    [] OTHER -> here

FormsBySurface(forms) ==
  [s \in {f.surface : f \in forms} |-> Offered({f \in forms : f.surface = s})]

(* The lemmas of a surface in the order of its list. *)
LemmaOrder(offered) ==
  LET best(l) == FirstOf({f \in offered : f.lemma = l}, 1,
                         LAMBDA f : <<Tier(f.tier), -f.quality>>)
      key(l)  == LET f == CHOOSE f \in best(l) : TRUE IN
                 <<Tier(f.tier), -f.quality, Rank[l]>> IN
  InOrder({f.lemma : f \in offered}, LAMBDA k, l : Less(key(k), key(l)))

(* analyze_forms_by_surface_collisions: the dangerous surfaces. *)
Dangerous(fbs) ==
  {s \in DOMAIN fbs :
     /\ Cardinality({f.lemma : f \in fbs[s]}) > 1
     /\ <<s, LemmaOrder(fbs[s])>> \notin KnownCollisions
     /\ \E f \in fbs[s] : f.tier = "curated"}

-----------------------------------------------------------------------------
(* The artefacts.  An entry stands for the files of one renderer.          *)

(* add_unique_mapping: the first value of a key stays.  classify_collisions *)
(* never calls what it drops dangerous, so no gate looks at it.             *)
Mapping(pairs) ==
  [k \in {pairs[i][1] : i \in DOMAIN pairs} |->
     pairs[Min({i \in DOMAIN pairs : pairs[i][1] = k})][2]]
Collisions(pairs) ==
  LET first == Mapping(pairs) IN {i \in DOMAIN pairs : first[pairs[i][1]] # pairs[i][2]}

NominativePairs(rows) ==
  FlattenSeq([i \in DOMAIN rows |-> <<<<rows[i].nom, rows[i].nom>>, <<rows[i].gen, rows[i].nom>>,
                                      <<rows[i].prep, rows[i].nom>>>>])
Pairs(rows, case) == [i \in DOMAIN rows |-> <<rows[i].nom, Word(rows[i], case)>>]

MorphologyMaps(rows) ==
  [nominative    |-> Mapping(NominativePairs(rows)),
   genitive      |-> Mapping(Pairs(rows, "genitive")),
   prepositional |-> Mapping(Pairs(rows, "prepositional"))]

(* make_fun_name: the second lemma with the same letters gets a suffix. *)
FunName(rows, i) ==
  LET base(j) == <<Latin[rows[j].lemma], rows[j].pos>> IN
  <<base(i), Cardinality({j \in 1..i : base(j) = base(i)})>>

GfFiles(rows)    == [i \in DOMAIN rows |-> [fun |-> FunName(rows, i),
                                            words |-> [c \in Cases |-> Word(rows[i], c)]]]
GfMap(rows)      == [i \in DOMAIN rows |-> [fun |-> FunName(rows, i), lemma |-> rows[i].lemma]]
AgdaModules(rows) == [i \in DOMAIN rows |-> [ctor |-> FunName(rows, i), nom |-> rows[i].nom]]

RuntimeModule(rows, fbs) ==
  [entries |-> {<<Word(rows[i], c), rows[i].lemma, c>> : i \in DOMAIN rows, c \in Cases},
   candidates |-> {f \in UNION {fbs[s] : s \in DOMAIN fbs} :
                     f.tier \in {"curated", "brain-kb-reviewed"}}]

(* The slots of curated predicates: a subject is rendered with the text of *)
(* the last row that names it.                                             *)
SlotsValid(slots) ==
  \A i, j \in DOMAIN slots : i # j => slots[i].id # slots[j].id /\ slots[i].text # slots[j].text
SyntaxFiles(slots) ==
  [s \in {slots[i].subject : i \in DOMAIN slots} |->
     slots[Max({i \in DOMAIN slots : slots[i].subject = s})].subjectText]
SemanticSlots(slots) == {<<slots[i].text, slots[i].subject>> : i \in DOMAIN slots}

Score100(total, complete, faults) ==
  IF total = 0 THEN 0
  ELSE (450 * Lesser(total, TargetCount)) \div TargetCount
         + (450 * complete) \div total
         + (100 * (total - Lesser(total, faults))) \div total

Invalid(rows) == {i \in DOMAIN rows : \E c \in Cases : Word(rows[i], c) \in BadForms \cup {NoForm}}

LemmasOf(forms, tier) == {f.lemma : f \in {x \in forms : x.tier = tier}}

(* Where the exporter runs.  *)
Machines == {"pymorphy3", "plain"}

(* compute_auto_quality_metrics reads the dictionary again when pymorphy3  *)
(* is installed and counts the allowlist when it is not; its other counts  *)
(* depend on the lemmas of the table alone.                                *)
ProperCount(src, machine, tier) ==
  LET lemmas == LemmasOf(src.tsv, tier) IN
  Cardinality(IF machine = "pymorphy3"
    THEN {g \in src.dictionary : g.lemma \in lemmas /\ MostlyProper(g) /\ "proper" \notin g.lists}
    ELSE {l \in lemmas : \E g \in src.dictionary : g.lemma = l /\ "proper" \in g.lists
                                                    /\ "seed" \notin g.lists})
AutoMetrics(src, machine) ==
  [tier \in {"auto-verified", "auto-coverage"} |->
     [lemmas |-> LemmasOf(src.tsv, tier), proper |-> ProperCount(src, machine, tier)]]

(* compute_case_surface_metrics: nouns whose cases did not get a form. *)
CaseMetrics(rows) ==
  LET nouns == {i \in DOMAIN rows : rows[i].pos = "noun"}
      With(endings) == {i \in nouns : rows[i].nom[2] \in endings}
      Same(group, case) == Cardinality({i \in group : Word(rows[i], case) = rows[i].nom}) IN
  [nouns    |-> <<Same(nouns, "accusative"), Same(nouns, "instrumental"), Cardinality(nouns)>>,
   feminine |-> <<Same(With({"a", "ya"}), "accusative"), Cardinality(With({"a", "ya"}))>>,
   soft     |-> <<Same(With({"soft"}), "instrumental"), Cardinality(With({"soft"}))>>]

Quality(src, rows, fbs, machine) ==
  LET offered == UNION {fbs[s] : s \in DOMAIN fbs} IN
  [lemmas |-> Len(rows),
   collisions |-> Cardinality(Collisions(NominativePairs(rows)))
                    + Cardinality(Collisions(Pairs(rows, "genitive")))
                    + Cardinality(Collisions(Pairs(rows, "prepositional"))),
   p1 |-> Cardinality(LemmasOf(offered, "auto-verified")),
   p2 |-> Cardinality(LemmasOf(offered, "auto-coverage")),
   seeds |-> <<src.curated, src.brain>>, enabled |-> src.manifest.enabled,
   auto |-> AutoMetrics(src, machine), cases |-> CaseMetrics(rows)]

Artefacts == <<"maps", "forms", "quality", "snapshot", "gf", "syntax", "funmap", "agda",
               "runtime", "slots">>

Render(src, machine) ==
  LET loaded == Load(src)
      rows   == loaded.rows
      fbs    == FormsBySurface(loaded.forms) IN
  [maps |-> MorphologyMaps(rows), forms |-> fbs, quality |-> Quality(src, rows, fbs, machine),
   snapshot |-> rows, gf |-> GfFiles(rows), syntax |-> SyntaxFiles(src.slots),
   funmap |-> GfMap(rows), agda |-> AgdaModules(rows), runtime |-> RuntimeModule(rows, fbs),
   slots |-> SemanticSlots(src.slots)]

(* The gates of main, before a check or a write. *)
Gates(src) ==
  LET loaded == Load(src)
      n      == Len(loaded.rows)
      bad    == Invalid(loaded.rows)
      danger == Dangerous(FormsBySurface(loaded.forms)) IN
  /\ {"manifest", "brain"} \cap src.broken = {}      \* JSON and SQL load
  /\ SlotsValid(src.slots)
  /\ bad = {} /\ danger = {}
  /\ Score100(n, n, Cardinality(bad) + Cardinality(danger)) >= MinQuality
=============================================================================
