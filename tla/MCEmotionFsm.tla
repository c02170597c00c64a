---------------------------- MODULE MCEmotionFsm ----------------------------
(* Configurations for TLC: default_fsm.toml, in ticks of half a second,    *)
(* and edited versions of it.                                              *)
EXTENDS EmotionFsm

Rule(s, x, t) == [from |-> s, stimulus |-> x, to |-> t]

DefaultStates == {"neutral", "joyful", "curious", "empathetic", "calm",
                  "worried", "frustrated", "anxious"}

DefaultRules == <<
  Rule("neutral", "praise", "joyful"), Rule("neutral", "mild_criticism", "empathetic"),
  Rule("neutral", "severe_criticism", "worried"), Rule("neutral", "novelty", "curious"),
  Rule("neutral", "urgency", "anxious"), Rule("joyful", "success", "joyful"),
  Rule("joyful", "failure", "worried"), Rule("joyful", "boredom", "neutral"),
  Rule("curious", "success", "joyful"), Rule("curious", "failure", "frustrated"),
  Rule("curious", "resolution", "calm"), Rule("empathetic", "resolution", "calm"),
  Rule("empathetic", "user_frustration", "anxious"), Rule("empathetic", "praise", "joyful"),
  Rule("worried", "resolution", "calm"), Rule("worried", "failure", "frustrated"),
  Rule("worried", "empathy", "empathetic"), Rule("frustrated", "resolution", "calm"),
  Rule("frustrated", "praise", "empathetic"), Rule("frustrated", "failure", "anxious"),
  Rule("anxious", "resolution", "calm"), Rule("anxious", "empathy", "empathetic"),
  Rule("anxious", "success", "worried"), Rule("calm", "boredom", "neutral"),
  Rule("calm", "novelty", "curious"), Rule("calm", "urgency", "worried") >>

DefaultConfig ==
  [rules |-> DefaultRules,
   forbidden |-> {Rule("joyful", "mild_criticism", "frustrated"),
                  Rule("calm", "mild_criticism", "frustrated")},
   minDuration |-> [s \in {"joyful", "anxious", "frustrated"} |->
                      CASE s = "joyful" -> 4 [] s = "anxious" -> 2 [] OTHER -> 3]]

DefaultStimuli == RuleStimuli(DefaultConfig)

(* Edited configurations: some of five rules are deleted, which makes      *)
(* states unreachable, absorbing or impossible to come back to; a rule is  *)
(* added that replaces another one or has a name that does not parse.      *)
Deletable == {DefaultRules[i] : i \in {4, 7, 8, 24, 25}}
Without(D) ==
  [DefaultConfig EXCEPT !.rules = SelectSeq(@, LAMBDA rule : rule \notin D)]
With(rule) == [DefaultConfig EXCEPT !.rules = Append(@, rule)]

EditedConfigs ==
  {Without(D) : D \in SUBSET Deletable}
  \cup {With(rule) : rule \in {Rule("neutral", "urgency", "calm"),
                               Rule("calm", "praise", "?"), Rule("calm", "", "neutral")}}
  \cup {[DefaultConfig EXCEPT !.forbidden = @ \cup {rule}] :
           rule \in {Rule("calm", "praise", "?"), Rule("calm", "", "neutral")}}

(* From every state of the default configuration every other one can be    *)
(* reached over moves that are not forbidden: once FsmEngine has accepted  *)
(* it, no agent gets trapped in a part of the graph.                       *)
NobodyIsTrapped ==
  [][config = DefaultConfig /\ phase # "running" /\ phase' = "running" =>
       LET moves == Moves(config) IN
       \A S \in SUBSET States \ {{}, States} :
         \E m \in moves : m[1] \in S /\ m[2] \notin S]_vars
=============================================================================
