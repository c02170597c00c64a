------------------------- MODULE MCClassifierChain -------------------------
(* Two callers; a text with two emotions and a blank one; raw answers with *)
(* repeated, unsorted, equally strong, unknown and useless labels.         *)
EXTENDS ClassifierChain

CONSTANTS c1, c2, mixed, blank

NoHits == [l \in ToSet(HeuristicRules) |-> 0]

MCCues == [t \in Texts |-> IF t = mixed THEN {"praise", "failure"} ELSE {}]
MCHits == [t \in Texts |->
             IF t = mixed THEN [NoHits EXCEPT !["joy"] = 1, !["sadness"] = 2] ELSE NoHits]

Reply(items, scanned) == [items |-> items, scanned |-> scanned]
MCReplies ==
  {Reply(<<Score("joy", 1), Score("anger", 3), Score("joy", 3), Score("fear", 2),
           Score("grief", 1), Score("joy", 1)>>, "joy"),
   Reply(<<Score("bliss", 9), Score("fear", 0)>>, "fear"),
   NoReply}
=============================================================================
