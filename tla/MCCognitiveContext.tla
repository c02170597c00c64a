------------------------ MODULE MCCognitiveContext ------------------------
(* Two interactions of an agent with overlapping post-processing.          *)
EXTENDS CognitiveContext, TLC

CONSTANTS r1, r2

MCSymmetry == Permutations(Requests)

Text(topic, h, t, m) ==
  [problem |-> topic = "problem", solved |-> topic = "solved", bye |-> topic = "bye",
   hurry |-> h, terms |-> t, mood |-> m]

MCInputs ==
  {Text("problem", FALSE, 0, "other"), Text("solved", FALSE, 3, "other"),
   Text("small talk", TRUE, 0, "calm")}

(* Two goals of a row in the old format, which has names only. *)
MCRows ==
  {[phase |-> "greeting", expertise |-> "beginner", pressure |-> FALSE,
    goals |-> [g \in AllIds |-> CASE g = "goal_1" -> 100 [] g = "goal_2" -> 85 [] OTHER -> 0]]}

ByDescription ==
  <<"clean_handoff", "close_loop", "establish_context", "plain_language",
    "diagnose_problem", "goal_1", "goal_2", "reduce_friction",
    "emotional_continuity", "technical_precision", "resolve_request">>
MCRank == [g \in AllIds |-> CHOOSE i \in 1..11 : ByDescription[i] = g]
=============================================================================
