------------------------------ MODULE MCTools ------------------------------
(***************************************************************************)
(* The four groups of offline tools, one of them in a behaviour: the tools *)
(* share no state, so a behaviour of one leaves the variables of the       *)
(* others alone.                                                           *)
(***************************************************************************)
EXTENDS Soak, LexiconBuild, InputLexicon, GfAudit

VARIABLE tool

toolVars == <<soakVars, buildVars, inputVars, auditVars, tool>>

-----------------------------------------------------------------------------
(* wave2_soak: the deltas of live answers. *)
DeltaSet == {<<3, 2>>, <<-5, 0>>, <<-2, 0>>, <<8, 2>>}

-----------------------------------------------------------------------------
(* export_lexicon: a lexicon of a few words: voda (water), vino and vina   *)
(* (wine and guilt, homonyms in two cases), mel and mel' (chalk and shoal, *)
(* which have the same Latin name).                                        *)
W(stem, end) == <<stem, end>>
Voda == W("vod", "a")
Vino == W("vin", "o")
Vina == W("vin", "a")
Mel  == W("mel", "")
Soft == W("mel", "soft")

Order == <<Mel, W("mel", "a"), W("mel", "e"), W("mel", "i"), Soft,
           Vina, W("vin", "e"), Vino, W("vin", "oj"), W("vin", "u"), W("vin", "y"),
           Voda, W("vod", "e"), W("vod", "oj"), W("vod", "u"), W("vod", "y"), W("x", "")>>
Ranks == [w \in ToSet(Order) |-> CHOOSE i \in DOMAIN Order : Order[i] = w]
LatinNames == [l \in ToSet(Order) |-> l[1]]

Entry(lemma, gen, prep, acc, quality) ==
  [lemma |-> lemma, pos |-> "noun", nom |-> lemma, gen |-> gen, prep |-> prep, acc |-> acc,
   ins |-> NoForm, tier |-> "curated", quality |-> quality]
EVina == Entry(Vina, W("vin", "y"), W("vin", "e"), NoForm, 98)
EVino == Entry(Vino, Vina, W("vin", "e"), Vino, 99)
EMel  == Entry(Mel, W("mel", "a"), W("mel", "e"), Mel, 99)
ESoft == Entry(Soft, W("mel", "i"), W("mel", "i"), Soft, 99)
EClash == Entry(W("mel", "a"), W("vod", "y"), W("mel", "e"), NoForm, 99)

CoreSeed == {EVina}
Seeds    == {{EVino, EMel}, {EVino, EMel, ESoft}, {EMel, EClash}}
Known    == {<<Vina, <<Vino, Vina>>>>, <<W("vin", "e"), <<Vino, Vina>>>>}

Form(surface, case, marks) ==
  [surface |-> surface, case |-> case, number |-> "singular", gender |-> "femn", marks |-> marks]
Group(lemma, forms, lists) ==
  [lemma |-> lemma, pos |-> "noun", forms |-> forms, length |-> 4, hyphens |-> 0,
   technical |-> FALSE, patronymic |-> FALSE, lists |-> lists]
GVoda == Group(Voda, {Form(Voda, "nominative", {}), Form(W("vod", "u"), "accusative", {}),
                      Form(W("vod", "oj"), "instrumental", {})}, {"seed"})
GVina == Group(Vina, {Form(Vina, "nominative", {"proper"}), Form(W("vin", "u"), "accusative", {"proper"})},
               {"proper"})
GMela == Group(W("mel", "a"), {Form(W("mel", "a"), NoTag, {}), Form(Mel, "accusative", {"rare"})}, {})
Dicts == {{GVoda, GVina, GMela}, {GVina, GMela}}

OneUnit == <<[tokens |-> <<[token |-> Voda, boost |-> 20], [token |-> W("vod", "u"), boost |-> 15],
                           [token |-> Voda, boost |-> 10], [token |-> Vina, boost |-> 10]>>,
              weight |-> 1]>>

Slot(id, subject, subjectText, text) ==
  [id |-> id, subject |-> subject, subjectText |-> subjectText, text |-> text]
SlotChoices == {<<Slot(1, "water", Voda, 1), Slot(2, "wine", Vino, 2)>>,
                <<Slot(1, "water", Voda, 1), Slot(1, "wine", Vino, 2)>>}

-----------------------------------------------------------------------------
(* build_input_lexicon: a corpus may double a seed form, or outvote it, or *)
(* exceed the cap.                                                         *)
Seed(form, lemma, pos, sem) == [form |-> form, lemma |-> lemma, pos |-> pos, sem |-> sem]
SeedEntries == {Seed("truth", "truth", "noun", "abstract"), Seed("truths", "truth", "noun", "abstract"),
                Seed("true", "true", "adjective", "state"), Seed("thee", "thou", "pronoun", "user")}
CanonicalForms == [thee |-> "thou", trueness |-> "truth"]
Alphabet == [thee |-> 1, thou |-> 2, true |-> 3, trueness |-> 4, truth |-> 5, truths |-> 6,
             you |-> 7, zeal |-> 8, and |-> 9]
Guesses == [w \in DOMAIN Alphabet |-> "noun"]
Meanings == [w \in DOMAIN Alphabet |-> {"unknown"}]
Counts(trueness, truths, zeal, thee) ==
  [trueness |-> trueness, truths |-> truths, zeal |-> zeal, thee |-> thee, and |-> 9]
CorpusSet == {Counts(0, 0, 0, 3), Counts(3, 0, 0, 3), Counts(0, 999, 5, 3), Counts(0, 1200, 5, 9), Counts(3, 999, 4, 3)}

-----------------------------------------------------------------------------
(* gf_release_audit: a turn by the grammar, in time or not, with the       *)
(* golden surface or another; a turn without a plan; a fallback.           *)
Trace(lin, authority, planned) ==
  [linearized |-> lin, authority |-> authority, lang |-> "syntax", planned |-> planned,
   plan |-> IF planned THEN {"p"} ELSE {}, fallback |-> IF lin THEN "none" ELSE "timeout",
   recovery |-> FALSE]
Says(text, says, faults) == [text |-> text, says |-> says, faults |-> faults]
Outcome(trace, surface, slow) == [trace |-> trace, surface |-> surface, slow |-> slow]
GrammarTrace == Trace(TRUE, "canonical", TRUE)
OutcomeSet ==
  {Outcome(GrammarTrace, Says("s", {"p"}, {}), FALSE),
   Outcome(GrammarTrace, Says("t", {"p"}, {}), FALSE),
   Outcome(Trace(TRUE, "canonical", FALSE), Says("s", {}, {}), TRUE),
   Outcome(Trace(FALSE, "template", TRUE), Says("s", {"p"}, {"repeated_punctuation"}), FALSE)}
Corpus == <<"a", "b">>
GoldenSet == {<<>>}

-----------------------------------------------------------------------------
SoakOff == /\ phase = "off" /\ todo = <<>> /\ results = <<>> /\ streak = NoStreak /\ ending = ""
           /\ incidents = {} /\ records = [m \in Modes |-> <<>>] /\ report = <<>>
BuildOff == /\ curated = {} /\ slots = <<>> /\ dictionary = {} /\ files = <<>> /\ broken = {}
            /\ job = <<>> /\ built = "no" /\ verdict = "none" /\ spent = <<>>
InputOff == /\ corpus = <<>> /\ lexicon = <<>> /\ fate = [haskell |-> "missing"]
            /\ output = <<>> /\ writing = <<>> /\ builds = 0
AuditOff == /\ mode = "off" /\ rewrite = FALSE /\ golden = <<>> /\ agenda = <<>>
            /\ step = "off" /\ worker = NoWorker /\ cursor = 0 /\ reply = <<>>
            /\ audited = <<>> /\ done = <<>> /\ audits = 0

ToolsInit ==
  \/ tool = "soak"    /\ SoakInit /\ BuildOff  /\ InputOff  /\ AuditOff
  \/ tool = "lexicon" /\ SoakOff  /\ BuildInit /\ InputOff  /\ AuditOff
  \/ tool = "input"   /\ SoakOff  /\ BuildOff  /\ InputInit /\ AuditOff
  \/ tool = "audit"   /\ SoakOff  /\ BuildOff  /\ InputOff  /\ AuditInit

ToolsNext ==
  /\ UNCHANGED tool
  /\ \/ tool = "soak"    /\ SoakNext  /\ UNCHANGED <<buildVars, inputVars, auditVars>>
     \/ tool = "lexicon" /\ BuildNext /\ UNCHANGED <<soakVars, inputVars, auditVars>>
     \/ tool = "input"   /\ InputNext /\ UNCHANGED <<soakVars, buildVars, auditVars>>
     \/ tool = "audit"   /\ AuditNext /\ UNCHANGED <<soakVars, buildVars, inputVars>>

=============================================================================
