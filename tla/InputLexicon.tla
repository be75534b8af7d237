---------------------------- MODULE InputLexicon ----------------------------
(***************************************************************************)
(* scripts/build_input_lexicon.py and its check: the seed lexicon and the  *)
(* word counts of a corpus vote for the lemma of every form; the result is *)
(* written to a JSON file, a Haskell module and three reports.             *)
(***************************************************************************)
EXTENDS Integers, Sequences, FiniteSets, SequencesExt, FiniteSetsExt, Functions

CONSTANTS
  Base,            \* the seed lexicon: [form, lemma, pos, sem]
  Overrides,       \* forms with a canonical lemma
  FunctionWords, GuessPos, GuessSem,
  FormRank,        \* the alphabetical order
  Corpora,         \* the corpora it may be run on: form -> count
  Cap,             \* 4000 forms
  LeastForms, LeastLemmas, RequiredForms, RequiredLemmas,
  MaxBuilds

VARIABLES corpus,
          lexicon,    \* what each file holds
          fate,       \* missing, torn or whole
          output,     \* the corpus of the last build, unless it died
          writing,    \* what the running build has still to write
          builds

inputVars == <<corpus, lexicon, fate, output, writing, builds>>

Outputs == <<"json", "haskell", "coverage", "collisions", "unknown">>
SeedVotes == 1000

-----------------------------------------------------------------------------
Canonical(form, lemma) == IF form \in DOMAIN Overrides THEN Overrides[form] ELSE lemma

Promoted(c) == {f \in DOMAIN c : c[f] >= 3 /\ f \notin FunctionWords}
SeedForms   == {b.form : b \in Base}
Forms(c)    == SeedForms \cup Promoted(c)

Supporters(form, lemma) == {b \in Base : b.form = form /\ Canonical(form, b.lemma) = lemma}
(* Mutant: a seed entry counts as much as one occurrence. *)
VotesOfCounts(c, form, lemma) ==
  Cardinality(Supporters(form, lemma))
    + (IF form \in Promoted(c) /\ lemma = Canonical(form, form) THEN c[form] ELSE 0)
Votes(c, form, lemma) ==
  SeedVotes * Cardinality(Supporters(form, lemma))
    + (IF form \in Promoted(c) /\ lemma = Canonical(form, form) THEN c[form] ELSE 0)
Options(c, form) ==
  {Canonical(form, b.lemma) : b \in {x \in Base : x.form = form}}
    \cup (IF form \in Promoted(c) THEN {Canonical(form, form)} ELSE {})

(* Most votes, then the alphabet. *)
Ahead(v, r, w, s) == v > w \/ (v = w /\ r < s)
Winner(c, form) ==
  CHOOSE l \in Options(c, form) :
    \A k \in Options(c, form) \ {l} :
      Ahead(Votes(c, form, l), FormRank[l], Votes(c, form, k), FormRank[k])

(* Over the cap the seed forms stay and the best others fill the rest. *)
Best(c, form) == Votes(c, form, Winner(c, form))
Kept(c) ==
  IF Cardinality(Forms(c)) <= Cap THEN Forms(c)
  ELSE {f \in Forms(c) : f \in SeedForms \/
          Cardinality(SeedForms \cup {g \in Forms(c) \ SeedForms :
            g = f \/ Ahead(Best(c, g), FormRank[g], Best(c, f), FormRank[f])}) <= Cap}

Collided(c) == {f \in Forms(c) : Cardinality(Options(c, f)) > 1}

(* The table of the code names lemmas of the seed only. *)
ASSUME OverridesAreSeedLemmas ==
  \A f \in DOMAIN Overrides : \E b \in Base : b.lemma = Overrides[f]

(* Every word has a place in the alphabet and a guessed meaning, a corpus   *)
(* counts finitely many forms, and the seed alone is large enough for the   *)
(* check and has the required words: a required lemma by a form that has    *)
(* no other lemma.                                                          *)
Words == {b.lemma : b \in Base} \cup {Overrides[f] : f \in DOMAIN Overrides}
               \cup UNION {DOMAIN c : c \in Corpora}
ASSUME InputAssumption ==
  /\ Base # {} /\ IsFiniteSet(Base) /\ {Cap, LeastForms, LeastLemmas} \subseteq Nat
  /\ \A c \in Corpora : IsFiniteSet(DOMAIN c) /\ \A f \in DOMAIN c : c[f] \in Nat
  /\ \A l \in Words : FormRank[l] \in Int /\ GuessSem[l] # {}
  /\ \A k, l \in Words : FormRank[k] = FormRank[l] => k = l
  /\ LeastForms <= Cardinality(SeedForms) /\ RequiredForms \subseteq SeedForms
  /\ \A l \in RequiredLemmas : \E f \in SeedForms :
       \A b \in Base : b.form = f => Canonical(f, b.lemma) = l

(* A seed lemma has the part of speech of the seed, another one is guessed *)
(* when a promoted form leads to it.                                       *)
Pos(l) == IF \E b \in Base : b.lemma = l THEN (CHOOSE b \in Base : b.lemma = l).pos ELSE GuessPos[l]
Sem(c, l) == {b.sem : b \in {x \in Base : x.lemma = l}}
               \cup (IF \E f \in Promoted(c) : Canonical(f, f) = l THEN GuessSem[l] ELSE {})

FormToLemma(c) == [f \in Kept(c) |-> Winner(c, f)]
Lemmas(c)      == Range(FormToLemma(c))
Tables(c) == [forms |-> FormToLemma(c), pos |-> [l \in Lemmas(c) |-> Pos(l)],
              sem |-> [l \in Lemmas(c) |-> Sem(c, l)]]

Contents(c) ==
  [json |-> Tables(c), haskell |-> Tables(c),
   coverage |-> [forms |-> Cardinality(Kept(c)), lemmas |-> Cardinality(Lemmas(c))],
   collisions |-> Cardinality(Collided(c)),
   unknown |-> Promoted(c) \ SeedForms]

-----------------------------------------------------------------------------
InputInit ==
  /\ corpus \in Corpora
  /\ lexicon = [o \in ToSet(Outputs) |-> <<>>]
  /\ fate = [o \in ToSet(Outputs) |-> "missing"]
  /\ output = <<>> /\ writing = <<>> /\ builds = 0

NewCorpus ==
  /\ builds < MaxBuilds
  /\ corpus' \in Corpora \ {corpus}
  /\ UNCHANGED <<lexicon, fate, output, writing, builds>>

BuildLexicon ==
  /\ writing = <<>> /\ builds < MaxBuilds
  /\ writing' = [i \in DOMAIN Outputs |-> <<Outputs[i], Contents(corpus)[Outputs[i]]>>]
  /\ output' = <<corpus>> /\ builds' = builds + 1
  /\ UNCHANGED <<corpus, lexicon, fate>>

(* Over the cap the set of seed forms ends up in the JSON, which cannot    *)
(* hold a set: json.dump raises inside the first file.                     *)
Unwritable == Head(writing)[1] = "json" /\ SeedForms # {}
                /\ Cardinality(Forms(output[1])) > Cap

WriteOutput ==
  /\ writing # <<>> /\ ~Unwritable
  /\ lexicon' = [lexicon EXCEPT ![Head(writing)[1]] = Head(writing)[2]]
  /\ fate' = [fate EXCEPT ![Head(writing)[1]] = "whole"]
  /\ writing' = Tail(writing)
  /\ UNCHANGED <<corpus, output, builds>>

(* The build ends inside a file, or between two. *)
BuildDies ==
  /\ writing # <<>>
  /\ \/ fate' = [fate EXCEPT ![Head(writing)[1]] = "torn"]
     \/ ~Unwritable /\ UNCHANGED fate
  /\ output' = <<>> /\ writing' = <<>>
  /\ UNCHANGED <<corpus, lexicon, builds>>

-----------------------------------------------------------------------------
(* check_input_lexicon.py.  The reports count only when they exist, and    *)
(* must then be JSON; of the Haskell module only the numbers of entries    *)
(* are compared.                                                           *)
Closed(t) ==
  /\ Range(t.forms) \subseteq DOMAIN t.pos /\ Range(t.forms) \subseteq DOMAIN t.sem
  /\ \A l \in DOMAIN t.sem : t.sem[l] # {}
Sizes(t) == <<Cardinality(DOMAIN t.forms), Cardinality(DOMAIN t.pos), Cardinality(DOMAIN t.sem)>>

Acceptable ==
  /\ fate["json"] = "whole" /\ fate["haskell"] = "whole"
  /\ \A o \in ToSet(Outputs) : fate[o] # "torn"
  /\ LET t == lexicon["json"] IN
     /\ Sizes(t)[1] >= LeastForms /\ Sizes(t)[2] >= LeastLemmas
     /\ RequiredForms \subseteq DOMAIN t.forms /\ RequiredLemmas \subseteq DOMAIN t.pos
     /\ Closed(t)
     /\ fate["coverage"] = "whole" =>
          lexicon["coverage"] = [forms |-> Sizes(t)[1], lemmas |-> Sizes(t)[2]]
     /\ fate["collisions"] = "whole" => lexicon["collisions"] <= Sizes(t)[1]
     /\ Sizes(lexicon["haskell"]) = Sizes(t)

InputNext ==
  NewCorpus \/ BuildLexicon \/ WriteOutput \/ BuildDies

InputSpec == InputInit /\ [][InputNext]_inputVars

-----------------------------------------------------------------------------
(* A build that ran to its end satisfies its own check, whatever was built *)
(* or interrupted before, unless its corpus was too small; and the Haskell *)
(* module still has every seed form, under a lemma of the seed.  A corpus  *)
(* that has a seed form a thousand times may take it away: the votes are   *)
(* added up without a bound (build_input_lexicon.py:384).                  *)
FinishedBuildIsAccepted ==
  output # <<>> /\ writing = <<>> =>
    LET c == output[1]
        t == lexicon["haskell"]
        Overruled(f) == f \in DOMAIN c /\ c[f] >= SeedVotes IN
    /\ (\A f \in SeedForms : ~Overruled(f)) /\ Cardinality(Lemmas(c)) >= LeastLemmas => Acceptable
    /\ \A f \in SeedForms : f \in DOMAIN t.forms
         /\ (Overruled(f) \/ Supporters(f, t.forms[f]) # {})
=============================================================================
