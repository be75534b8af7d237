---------------------------- MODULE LexiconBuild ----------------------------
(***************************************************************************)
(* The files of the lexicon and the tools that write them: a maintainer    *)
(* edits the seeds and runs the importers, the exporter and its --check,   *)
(* in any order.  A tool reads its sources when it starts and then writes  *)
(* its files one after the other, without a temporary file or a rename;    *)
(* it may die between two files or inside one.                             *)
(***************************************************************************)
EXTENDS LexiconExport

CONSTANTS CuratedSeeds, SlotSeeds, Dictionaries,   \* what the sources may be edited to
          Units,                                   \* the knowledge units
          MaxEdits, MaxTools, MaxDeaths

VARIABLES curated, slots, dictionary,   \* the sources people keep
          files,     \* what the files the tools write hold
          broken,    \* the files that are missing or whose writer died inside
          job,       \* what the running tool has still to write: <<file, content>>
          built,     \* the last export finished or still runs, and no source
                     \* has changed since it read them: the machine it
                     \* ran on, "no" otherwise
          verdict,   \* what the last tool said, if nothing has happened since
          spent      \* edits, tools and deaths so far

buildVars == <<curated, slots, dictionary, files, broken, job, built, verdict, spent>>

(* A seed names a key of its table once, the alphabet is an order of the   *)
(* lemmas, and a dictionary is finite.                                     *)
IsSeed(table) ==
  /\ IsFiniteSet(table)
  /\ \A e, f \in table : SameKey(e, f) => e = f
  /\ \A e \in table : Rank[e.lemma] \in Int /\ e.pos \in {"adjective", "noun", "verb"}

ASSUME LexiconAssumption ==
  /\ \A table \in {Core} \cup CuratedSeeds : IsSeed(table)
  /\ \A e, f \in UNION ({Core} \cup CuratedSeeds) :
       Rank[e.lemma] = Rank[f.lemma] => e.lemma = f.lemma
  /\ \A groups \in Dictionaries : IsFiniteSet(groups) /\ \A g \in groups : IsFiniteSet(g.forms)

Written == {"tsv", "manifest", "brain"} \cup ToSet(Artefacts)
NoManifest == [enabled |-> FALSE]

Sources == [curated |-> curated, slots |-> slots, dictionary |-> dictionary,
            tsv |-> files["tsv"], manifest |-> files["manifest"], brain |-> files["brain"],
            broken |-> broken]

BuildInit ==
  /\ curated \in CuratedSeeds /\ slots \in SlotSeeds /\ dictionary \in Dictionaries
  /\ files = [f \in Written |-> IF f = "manifest" THEN NoManifest ELSE {}]
  /\ broken = ToSet(Artefacts)
  /\ job = <<>> /\ built = "no" /\ verdict = "none"
  /\ spent = [edits |-> 0, tools |-> 0, deaths |-> 0]

Spend(what, bound) == spent[what] < bound /\ spent' = [spent EXCEPT ![what] = @ + 1]

(* A tool starts with the list of the files it is going to write. *)
Begin(writes, b) ==
  /\ job = <<>>
  /\ Spend("tools", MaxTools)
  /\ job' = writes /\ built' = b /\ verdict' = "none"
  /\ UNCHANGED <<curated, slots, dictionary, files, broken>>

EditSources ==
  /\ Spend("edits", MaxEdits)
  /\ \/ curated' \in CuratedSeeds \ {curated} /\ UNCHANGED <<slots, dictionary>>
     \/ slots' \in SlotSeeds \ {slots} /\ UNCHANGED <<curated, dictionary>>
     \/ dictionary' \in Dictionaries \ {dictionary} /\ UNCHANGED <<curated, slots>>
  /\ built' = "no" /\ verdict' = "none"
  /\ UNCHANGED <<files, broken, job>>

ImportDictionary ==
  Begin(<<<<"tsv", AutoRows(dictionary)>>, <<"manifest", Manifest(dictionary)>>>>, "no")

ImportUnits ==
  Begin(<<<<"brain", SeedRows(files["tsv"], Units)>>>>, "no")

Export(m) ==
  LET rendered == Render(Sources, m) IN
  /\ Begin([i \in DOMAIN Artefacts |-> <<Artefacts[i], rendered[Artefacts[i]]>>], m)
  /\ Gates(Sources)

(* Mutant: a file that exists is not written again. *)
WriteIfMissing ==
  /\ job # <<>>
  /\ files' = IF Head(job)[1] \in broken THEN [files EXCEPT ![Head(job)[1]] = Head(job)[2]]
                                         ELSE files
  /\ broken' = broken \ {Head(job)[1]}
  /\ job' = Tail(job) /\ verdict' = "none"
  /\ UNCHANGED <<curated, slots, dictionary, built, spent>>
(* import_ru_opencorpora.py ends with a check of the file it wrote. *)
WriteFile ==
  /\ job # <<>>
  /\ files' = [files EXCEPT ![Head(job)[1]] = Head(job)[2]]
  /\ broken' = broken \ {Head(job)[1]}
  /\ job' = Tail(job)
  /\ verdict' = IF Tail(job) # <<>> THEN "none"
                ELSE IF Head(job)[1] = "manifest" /\ ~RunCheck(files["tsv"]) THEN "failed"
                ELSE "written"
  /\ UNCHANGED <<curated, slots, dictionary, built, spent>>

(* A table that lost its last lines still loads, and so does an SQL seed   *)
(* of which nothing but comments was written.                              *)
TornTables(rows) == {{r \in rows : Rank[r.surface] < Rank[last.surface]} : last \in rows}

Die ==
  /\ job # <<>>
  /\ Spend("deaths", MaxDeaths)
  /\ LET file == Head(job)[1] IN
     \/ UNCHANGED <<files, broken>>
     \/ /\ file = "tsv"
        /\ \E rows \in TornTables(Head(job)[2]) : files' = [files EXCEPT !["tsv"] = rows]
        /\ UNCHANGED broken
     \/ /\ file = "brain"
        /\ files' = [files EXCEPT !["brain"] = {}] /\ broken' = broken \ {file}
     \/ file # "tsv" /\ broken' = broken \cup {file} /\ UNCHANGED files
  /\ job' = <<>> /\ built' = "no" /\ verdict' = "none"
  /\ UNCHANGED <<curated, slots, dictionary>>

(* export_lexicon.py --check renders again and compares every file. *)
UpToDate(m) ==
  /\ Gates(Sources)
  /\ LET expected == Render(Sources, m) IN
     \A o \in ToSet(Artefacts) : o \notin broken /\ files[o] = expected[o]

Check(m) ==
  /\ job = <<>>
  /\ verdict' = IF UpToDate(m) THEN "passed" ELSE "failed"
  /\ UNCHANGED <<curated, slots, dictionary, files, broken, job, built, spent>>

BuildNext ==
  \/ EditSources \/ ImportDictionary \/ ImportUnits
  \/ \E m \in Machines : Export(m) \/ Check(m)
  \/ WriteFile \/ Die

BuildSpec == BuildInit /\ [][BuildNext]_buildVars

-----------------------------------------------------------------------------
Curated == {e \in Core \cup curated : e.tier = "curated"}

(* What the resolver is offered for a surface of a curated entry is that   *)
(* entry's lemma, and no other unless the homonymy is known ("Curated P0   *)
(* always outranks P1/P2 in the resolver", import_ru_opencorpora.py:19).   *)
CuratedOutranks ==
  LET fbs == files["forms"] IN
  \A i \in DOMAIN files["snapshot"] : \A c \in {"nominative", "genitive", "prepositional"} :
    LET word == Word(files["snapshot"][i], c) IN
    /\ word \in DOMAIN fbs
    /\ LemmaOrder(fbs[word]) = <<files["snapshot"][i].lemma>>
         \/ <<word, LemmaOrder(fbs[word])>> \in KnownCollisions

(* Only curated lemmas reach GF and Agda, each once, with one name in all  *)
(* three, and with the nominative, genitive and prepositional of a curated *)
(* seed.                                                                   *)
OneGrammar ==
  LET gf == files["gf"] IN
  /\ DOMAIN gf = DOMAIN files["funmap"] /\ DOMAIN gf = DOMAIN files["agda"]
  /\ \A i, j \in DOMAIN gf : gf[i].fun = gf[j].fun => i = j
  /\ \A i \in DOMAIN gf :
       /\ files["funmap"][i].fun = gf[i].fun /\ files["agda"][i].ctor = gf[i].fun
       /\ \E e \in Curated :
            /\ e.lemma = files["funmap"][i].lemma
            /\ \A c \in {"nominative", "genitive", "prepositional"} :
                 gf[i].words[c] = Word(e, c)

(* When the last thing that happened is a --check that passed, the         *)
(* artefacts belong together and curated words come first in them,         *)
(* whatever was edited, imported or interrupted before.                    *)
PublishedLexiconIsSound ==
  verdict = "passed" => CuratedOutranks /\ OneGrammar

(* An export that ran to its end is accepted by the check on a machine of  *)
(* the same kind, until a source changes.                                  *)
FinishedExportIsUpToDate ==
  built \in Machines /\ job = <<>> => UpToDate(built)
=============================================================================
