--------------------------- MODULE MCNetworkOwner ---------------------------
(* An edge and its opposite, and events about them. *)
EXTENDS NetworkOwner

Reversed(k) == IF k = "ab" THEN "ba" ELSE "ab"

EventTable ==
  [first   |-> <<"ab", "requires", "candidate", "answer1">>,
   repeat  |-> <<"ab", "requires", "candidate", "answer1">>,
   confirm |-> <<"ab", "requires", "confirmation", "answer2">>,
   reverse |-> <<"ba", "causes", "candidate", "answer3">>]

EventKey(e)    == EventTable[e][1]
EventRel(e)    == EventTable[e][2]
EventKind(e)   == EventTable[e][3]
EventAnswer(e) == EventTable[e][4]

SeedSet ==
  {[ab |-> None, ba |-> None],
   [ab |-> CorpusEdge, ba |-> Edge("curated", "means", 100)]}

NoOverlay == [ab |-> None, ba |-> None]
=============================================================================
