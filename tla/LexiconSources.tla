--------------------------- MODULE LexiconSources ---------------------------
(***************************************************************************)
(* The importers of the lexicon: scripts/import_ru_opencorpora.py chooses  *)
(* the lemmas of a morphological dictionary for the two automatic tiers;   *)
(* scripts/import_brain_kb.py chooses reviewed nouns from the knowledge    *)
(* units, through the surfaces of the automatic nouns.                     *)
(*                                                                         *)
(* A lemma group is a record of what the filters ask: its lemma and part   *)
(* of speech, its forms with their tags, its length and hyphens, and the   *)
(* lists it is on.  Ratios and qualities are in hundredths.                *)
(***************************************************************************)
EXTENDS Integers, Sequences, FiniteSets, SequencesExt, FiniteSetsExt

CONSTANTS
  Rank,               \* the alphabetical order of lemmas and surfaces
  P1Limit, P2Limit,   \* 4000 and 17500 lemmas
  NounIdeal, AdjectiveIdeal,     \* 12 and 36 combinations of tags
  P1NounLen, P1AdjectiveLen, P2NounLen, P2AdjectiveLen, P1Hyphens, P2Hyphens,
  NonLemmas,          \* words with the ending of a verb or an adjective
  Stopwords,
  TopN, MinCount, MinScore       \* 400, 2 and 22 tenths

NoTag == "none"

Lesser(a, b) == IF a < b THEN a ELSE b
Flag(b) == IF b THEN 0 ELSE 1

(* The order of Python tuples; the first n of a set in that order are      *)
(* those with fewer than n before them.  (The empty sequence makes TLC     *)
(* compute the other one once.)                                            *)
Less(a, b) == \E i \in DOMAIN a : a[i] < b[i] /\ \A j \in 1..(i - 1) : a[j] = b[j]
FirstOf(S, n, Key(_)) ==
  {x \in S : Cardinality({y \in S \ {x} : Less(Key(y), Key(x))}) < n}
InOrder(S, Before(_, _)) ==
  [i \in 1..Cardinality(S) |->
     CHOOSE x \in S : Cardinality({y \in S \ {x} : Before(y, x)}) = i - 1] \o <<>>

-----------------------------------------------------------------------------
(* Tiers of a lemma group.                                                 *)

Tags(g, tag) == {f[tag] : f \in g.forms} \ {NoTag}
Ideal(g)  == IF g.pos = "noun" THEN NounIdeal ELSE AdjectiveIdeal
Actual(g) == LET cells == Cardinality(Tags(g, "case")) * Cardinality(Tags(g, "number")) IN
             IF g.pos = "noun" THEN cells ELSE cells * Cardinality(Tags(g, "gender"))
Ratio(g)  == (100 * Actual(g)) \div Ideal(g)
Completeness(g) == Lesser(100, Ratio(g))

Marked(g, mark) == {f \in g.forms : mark \in f.marks}
MostlyProper(g) == 2 * Cardinality(Marked(g, "proper")) > Cardinality(g.forms)

AutoEligible(g) ==
  g.pos \in {"noun", "adjective"} /\ g.length >= 2 /\ Marked(g, "abbreviation") = {}

P1Rejected(g) ==
  \/ MostlyProper(g) /\ "proper" \notin g.lists
  \/ g.patronymic \/ g.technical
  \/ g.length > (IF g.pos = "noun" THEN P1NounLen ELSE P1AdjectiveLen)
  \/ g.hyphens > P1Hyphens

P2Rejected(g) ==
  \/ (MostlyProper(g) \/ g.patronymic) /\ g.lists \cap {"proper", "seed"} = {}
  \/ g.length > (IF g.pos = "noun" THEN P2NounLen ELSE P2AdjectiveLen)
  \/ g.hyphens > P2Hyphens

Enough(g, noun, adjective) == Ratio(g) >= IF g.pos = "noun" THEN noun ELSE adjective

ClassifyTier(g) ==
  CASE ~AutoEligible(g) -> "none"
    [] AutoEligible(g) /\ P1Rejected(g) ->
         IF P2Rejected(g) THEN "none" ELSE "auto-coverage"
    [] AutoEligible(g) /\ ~P1Rejected(g) /\ Enough(g, 55, 40)
         /\ ~MostlyProper(g) /\ Marked(g, "rare") = {} -> "auto-verified"
    [] OTHER -> IF Enough(g, 15, 10) THEN "auto-coverage" ELSE "none"

Listed(g) == <<Flag("must" \in g.lists), Flag("seed" \in g.lists), Flag(g.pos = "noun"),
               Flag(~MostlyProper(g))>>
P1Score(g) == Listed(g) \o <<Flag(~g.technical), Flag(~g.patronymic),
                Lesser(30, g.length), -Completeness(g), Rank[g.lemma]>>
P2Score(g) == Listed(g) \o <<Flag(~g.patronymic),
                Lesser(40, g.length), -Completeness(g), Rank[g.lemma]>>

(* A lemma that misses the cut of the first tier is not a candidate of the *)
(* second one, whatever the comment at line 681 says.                      *)
P1Groups(groups) ==
  FirstOf({g \in groups : ClassifyTier(g) = "auto-verified" /\ ~P1Rejected(g)},
          P1Limit, P1Score)
P2Groups(groups) ==
  FirstOf({g \in groups : ClassifyTier(g) = "auto-coverage" /\ ~P2Rejected(g)}
            \ P1Groups(groups), P2Limit, P2Score)

AssignQuality(g, tier) ==
  IF tier = "auto-verified" THEN 85 + Lesser(10, Ratio(g) \div 10)
                            ELSE 55 + Lesser(20, Ratio(g) \div 5)

(* A form without a case counts as nominative, one without a number is     *)
(* left out.                                                               *)
TsvRows(groups, tier) ==
  UNION {{[surface |-> f.surface, lemma |-> g.lemma, pos |-> g.pos,
           case |-> IF f.case = NoTag THEN "nominative" ELSE f.case,
           number |-> f.number, tier |-> tier, quality |-> AssignQuality(g, tier)]
            : f \in {x \in g.forms : x.number # NoTag}} : g \in groups}

AutoRows(groups) == TsvRows(P1Groups(groups), "auto-verified")
                      \cup TsvRows(P2Groups(groups), "auto-coverage")

Manifest(groups) ==
  [enabled |-> TRUE,
   forms |-> [tier \in {"auto-verified", "auto-coverage"} |->
                Cardinality({r \in AutoRows(groups) : r.tier = tier})]]

(* run_check: what was written has known tiers and qualities. *)
RunCheck(rows) ==
  \A r \in rows : r.tier \in {"auto-verified", "auto-coverage"} /\ r.quality \in 0..100

-----------------------------------------------------------------------------
(* Reviewed nouns of the knowledge units.                                  *)

TierRank(tier) == IF tier = "auto-verified" THEN 0 ELSE 1

(* Which lemma a noun surface stands for: the best row decides, then the   *)
(* lemma must be attested in the nominative singular.                      *)
NounOf(rows, surface) ==
  LET nouns == {r \in rows : r.pos = "noun"}
      best  == FirstOf({r \in nouns : r.surface = surface}, 1,
                 LAMBDA r : <<TierRank(r.tier), -r.quality, Rank[r.lemma]>>) IN
  {r.lemma : r \in {b \in best :
     /\ b.lemma \notin NonLemmas
     /\ \E n \in nouns : n.lemma = b.lemma /\ n.case = "nominative" /\ n.number = "singular"}}

(* A unit is the sequence of its tokens with their boost, and a weight;    *)
(* the first source of a token counts, each surface once.                  *)
Mentions(unit) ==
  {i \in DOMAIN unit.tokens :
     /\ unit.tokens[i].token \notin NonLemmas \cup Stopwords
     /\ \A j \in 1..(i - 1) : unit.tokens[j].token # unit.tokens[i].token}

MentionsOf(rows, units, lemma) ==
  {m \in UNION {{u} \X Mentions(units[u]) : u \in DOMAIN units} :
     lemma \in NounOf(rows, units[m[1]].tokens[m[2]].token)}

Score(units, mentions) ==
  MapThenSumSet(LAMBDA m : units[m[1]].tokens[m[2]].boost * units[m[1]].weight, mentions)

Candidates(rows, units) ==
  {c \in {[lemma |-> l, count |-> Cardinality(MentionsOf(rows, units, l)),
           score |-> Score(units, MentionsOf(rows, units, l))]
            : l \in {r.lemma : r \in rows}} :
     c.count >= MinCount /\ c.score >= MinScore}

(* The quality grows with score and count up to 0.9; the logarithm of the  *)
(* code is left out, only the order of qualities is used.                  *)
CandidateQuality(c) == Lesser(90, 55 + Lesser(24, c.score) + Lesser(11, c.count))

SeedRows(rows, units) ==
  {[lemma |-> c.lemma, pos |-> "noun", nom |-> c.lemma, gen |-> c.lemma,
    prep |-> c.lemma, acc |-> c.lemma, ins |-> c.lemma,
    tier |-> "brain-kb-reviewed", quality |-> CandidateQuality(c)]
     : c \in FirstOf(Candidates(rows, units), TopN,
               LAMBDA c : <<-c.score, -c.count, Rank[c.lemma]>>)}
=============================================================================
