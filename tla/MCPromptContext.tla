-------------------------- MODULE MCPromptContext --------------------------
(* Three interactions of an agent; the first one meets every kind of       *)
(* retrieval, the others an empty store.                                   *)
EXTENDS PromptContext, TLC

CONSTANTS r1, r2, r3

MCMemories == {"m1", "m2", "m3", "m4", "m5"}
MCLength == [m \in MCMemories |-> IF m = "m1" THEN 30 ELSE 900]
MCTraits ==
  [m \in MCMemories |->
     CASE m = "m1" -> {"short", "closing"}
       [] m = "m2" -> {"technical", "problem", "resolve_request"}
       [] m = "m3" -> {"technical", "clean_handoff"}
       [] OTHER    -> {}]

Default == [alpha |-> 40, beta |-> 30, gamma |-> 30, boost |-> 20]

Calm    == [emotion |-> <<0, 0, 0>>, intensity |-> 10]
Tense   == [emotion |-> <<-50, 60, 20>>, intensity |-> 75]
Extreme == [emotion |-> <<-100, 100, -100>>, intensity |-> 90]

Context(pressure, phase, expertise) ==
  [pressure |-> pressure, phase |-> phase, expertise |-> expertise,
   goals |-> [g \in {"resolve_request", "clean_handoff"} |->
                IF g = "resolve_request" THEN 100 ELSE 70]]

HitOf(score, level, age) ==
  [score |-> score, cognitive |-> 3000, level |-> level, permanent |-> level = 3, age |-> age]

(* Every way in which five memories lean to one part or the other, with    *)
(* different, equal and negative scores.                                   *)
Leaning(E, step) ==
  LET n == [m \in MCMemories |-> CHOOSE i \in 1..5 : <<"m1", "m2", "m3", "m4", "m5">>[i] = m]
  IN [semantic |-> [m \in MCMemories |-> HitOf((IF m \in E THEN 1000 ELSE 8000) - step * n[m], 2, 0)],
      emotional |-> [m \in MCMemories |-> HitOf((IF m \in E THEN 9000 ELSE -500) - step * n[m], 2, 0)]]

Leanings ==
  {{}, {"m1"}, {"m1", "m2"}, {"m4", "m5"}, {"m1", "m3", "m5"}, {"m2", "m3", "m4", "m5"}, MCMemories}

(* Memories that only one search found, old ones, and one that was         *)
(* promoted between the two searches.                                      *)
Lists(S, E) ==
  [semantic |-> [m \in S |-> HitOf(6000, IF m = "m2" THEN 2 ELSE 1, 1)],
   emotional |-> [m \in E |-> HitOf(6000, IF m = "m2" THEN 3 ELSE 1, 1)]]
Both == Lists({"m1", "m2"}, {"m2", "m3", "m4", "m5"})
Uneven == {Both, Lists({}, {"m2", "m3"}), Lists({"m1", "m2", "m3"}, {})}

Asked(found, feeling, order, context, weights, tokens) ==
  found @@ feeling @@ [order |-> order, context |-> context, weights |-> weights,
                       decays |-> tokens # 100, tokens |-> tokens]

Nothing == [semantic |-> <<>>, emotional |-> <<>>]
Greeting == Context(FALSE, "greeting", "unknown")
Trouble == Context(TRUE, "problem_diagnosis", "beginner")
Closing == Context(FALSE, "resolution", "advanced")
Upwards == <<"m1", "m2", "m3", "m4", "m5">>
Downwards == <<"m5", "m4", "m3", "m2", "m1">>

MCRetrievals ==
  [r \in Requests |->
     IF r = r1
     THEN {Asked(Leaning(E, 100), e, Upwards, Greeting, Default, 0) :
             E \in Leanings, e \in {Calm, Tense}}
          \cup {Asked(Leaning({"m2", "m4"}, 0), Tense, o, Greeting, Default, 100) :
                  o \in {Upwards, Downwards}}
          \cup {Asked(f, Extreme, Downwards, Trouble, Default, 256) : f \in Uneven}
          \cup {Asked(Both, Tense, Upwards, Closing, Default, 2000)}
     ELSE {Asked(Nothing, e, Upwards, Greeting, w, 256)
           : e \in {Calm}, w \in {Default, [Default EXCEPT !.alpha = 90]}}]

MCSymmetry == Permutations({r2, r3})
=============================================================================
