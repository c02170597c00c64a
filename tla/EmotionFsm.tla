----------------------------- MODULE EmotionFsm -----------------------------
(***************************************************************************)
(* The emotional state machine of the Rust engine: how FsmEngine loads and *)
(* validates a configuration (transition table, Omega constraints, minimum *)
(* durations), and how transition then moves the snapshot of one agent,    *)
(* which travels to the orchestrator's store and back between two calls.   *)
(*                                                                         *)
(* The engine has no memory of its own: the only clock it can compare with *)
(* is entered_at_ms, written by some earlier call, so its wall clock may   *)
(* be behind what the snapshot says (ClockStepsBack).                      *)
(*                                                                         *)
(* Names of states and stimuli are those that normalize_key makes of what  *)
(* a configuration or a call says: trimmed, in lower case, with '_'.       *)
(***************************************************************************)
EXTENDS Naturals, Sequences, FiniteSets, SequencesExt

CONSTANTS States,    \* EmotionalState::ALL
          Neutral,   \* EmotionalState::Neutral
          Stimuli,   \* stimuli that arrive; the server turns an empty one away
          Configs,   \* configuration files the engine may be started with
          MaxNow     \* bound: the clock, in ticks of half a second

ASSUME FsmAssumption ==
  /\ Neutral \in States /\ IsFiniteSet(States)
  /\ MaxNow \in Nat
  /\ \A c \in Configs : /\ c.rules \in Seq(ToSet(c.rules))
                        /\ \A s \in DOMAIN c.minDuration : c.minDuration[s] \in Nat

VARIABLES config,      \* the FsmConfig being loaded
          phase,       \* "validating", "running" or "rejected"
          queue,       \* reachable_states_from: states to expand
          visited,     \* reachable_states_from: states found
          current,     \* StateSnapshot.state of the agent
          enteredAt,   \* StateSnapshot.entered_at_ms
          now,         \* the engine's clock
          stayed       \* history: time really spent in current

searchVars == <<queue, visited>>
agentVars == <<current, enteredAt, now, stayed>>
vars == <<config, phase, searchVars, agentVars>>

-----------------------------------------------------------------------------
(* Configuration.                                                          *)

(* TransitionTable::from_config: a later rule for the same state and       *)
(* stimulus replaces an earlier one.                                       *)
RuleIndices(c, s, x) ==
  {i \in DOMAIN c.rules : c.rules[i].from = s /\ c.rules[i].stimulus = x}
HasRule(c, s, x) == RuleIndices(c, s, x) # {}
Target(c, s, x) ==
  c.rules[CHOOSE i \in RuleIndices(c, s, x) : \A j \in RuleIndices(c, s, x) : j <= i].to

(* Faulty variant for mutation testing: the target is not parsed. *)
RulesParseSource(c) == \A i \in DOMAIN c.rules : c.rules[i].from \in States

(* A name that EmotionalState::from_str does not know makes loading fail,  *)
(* and so does a stimulus that is empty; Stimulus::from_str takes every    *)
(* other one.                                                              *)
Parses(rule) == {rule.from, rule.to} \subseteq States /\ rule.stimulus # ""
RulesParse(c) == \A i \in DOMAIN c.rules : Parses(c.rules[i])
ConstraintsParse(c) ==
  /\ \A f \in c.forbidden : Parses(f)
  /\ DOMAIN c.minDuration \subseteq States

RuleStimuli(c) == {c.rules[i].stimulus : i \in DOMAIN c.rules}
Successors(c, s) == {Target(c, s, x) : x \in {y \in RuleStimuli(c) : HasRule(c, s, y)}}
HasExit(c, s) == \E i \in DOMAIN c.rules : c.rules[i].from = s

Init ==
  /\ config \in Configs
  /\ phase = IF RulesParse(config) THEN "validating" ELSE "rejected"
  /\ queue = <<Neutral>>
  /\ visited = {Neutral}
  /\ current = Neutral
  /\ enteredAt = 0
  /\ now = 0
  /\ stayed = 0

(* Faulty variant for mutation testing: the loop over the successors breaks early. *)
ExpandOneSuccessor ==
  /\ phase = "validating"
  /\ queue # <<>>
  /\ LET new == Successors(config, Head(queue)) \ visited IN
     \/ new = {} /\ queue' = Tail(queue) /\ UNCHANGED visited
     \/ \E s \in new : visited' = visited \cup {s} /\ queue' = Append(Tail(queue), s)
  /\ UNCHANGED <<config, phase, agentVars>>

(* reachable_states_from: one turn of the loop.  The table is a HashMap,   *)
(* so new states are pushed in any order.                                  *)
ExpandState ==
  /\ phase = "validating"
  /\ queue # <<>>
  /\ LET new == Successors(config, Head(queue)) \ visited IN
     /\ visited' = visited \cup new
     /\ \E order \in SetToSeqs(new) : queue' = Tail(queue) \o order
  /\ UNCHANGED <<config, phase, agentVars>>

(* validate, then Constraints::from_config. *)
FinishLoading ==
  /\ phase = "validating"
  /\ queue = <<>>
  /\ phase' = IF /\ \A s \in States : HasExit(config, s)
                 /\ States \subseteq visited
                 /\ ConstraintsParse(config)
              THEN "running" ELSE "rejected"
  /\ UNCHANGED <<config, searchVars, agentVars>>

-----------------------------------------------------------------------------
(* FsmEngine::transition.                                                  *)

(* Faulty variant for mutation testing: every stimulus is forbidden from the state. *)
ForbiddenFromState(c, s, x, t) == \E f \in c.forbidden : f.from = s

Forbidden(c, s, x, t) == [from |-> s, stimulus |-> x, to |-> t] \in c.forbidden

(* Faulty variant for mutation testing: the absolute difference. *)
ElapsedAbsolute == IF now < enteredAt THEN enteredAt - now ELSE now - enteredAt

(* now_ms.saturating_sub(state_entered_at_ms).max(0) *)
Elapsed == IF now < enteredAt THEN 0 ELSE now - enteredAt

(* Constraints::check *)
Allowed(c, s, x, t) ==
  /\ ~Forbidden(c, s, x, t)
  /\ s \in DOMAIN c.minDuration => Elapsed >= c.minDuration[s]

Transition(x) ==
  /\ phase = "running"
  /\ HasRule(config, current, x)
  /\ Target(config, current, x) # current
  /\ Allowed(config, current, x, Target(config, current, x))
  /\ current' = Target(config, current, x)
  /\ enteredAt' = now
  /\ stayed' = 0
  /\ UNCHANGED <<config, phase, searchVars, now>>

(* No rule, a self loop, or a constraint: the snapshot comes back as it    *)
(* went, entered_at_ms included.                                           *)
NoTransition(x) ==
  /\ phase = "running"
  /\ \/ ~HasRule(config, current, x)
     \/ /\ HasRule(config, current, x)
        /\ \/ Target(config, current, x) = current
           \/ ~Allowed(config, current, x, Target(config, current, x))
  /\ UNCHANGED vars

-----------------------------------------------------------------------------
(* The clock.                                                              *)

Tick ==
  /\ phase = "running"
  /\ now < MaxNow
  /\ now' = now + 1
  /\ stayed' = IF stayed < MaxNow THEN stayed + 1 ELSE stayed
  /\ UNCHANGED <<config, phase, searchVars, current, enteredAt>>

(* The wall clock is set back.  A clock that jumps forward makes the       *)
(* engine believe in time that did not pass; that is not modelled.         *)
ClockStepsBack ==
  /\ phase = "running"
  /\ now' \in {n \in 0..MaxNow : n < now}
  /\ UNCHANGED <<config, phase, searchVars, current, enteredAt, stayed>>

Next ==
  \/ ExpandState \/ FinishLoading
  \/ \E x \in Stimuli : Transition(x) \/ NoTransition(x)
  \/ Tick \/ ClockStepsBack

Spec == Init /\ [][Next]_vars

-----------------------------------------------------------------------------
(* Properties.                                                             *)

(* The variables keep their types; in particular the search never leaves   *)
(* the known states, whatever names the configuration has.                 *)
TypeOK ==
  /\ config \in Configs
  /\ phase \in {"validating", "running", "rejected"}
  /\ queue \in Seq(States)
  /\ visited \subseteq States
  /\ current \in States
  /\ enteredAt \in 0..MaxNow
  /\ now \in 0..MaxNow
  /\ stayed \in 0..MaxNow

Closed(S) == \A s \in S : Successors(config, s) \subseteq S

(* The search of reachable_states_from ends, in every order of the hash    *)
(* map, with the least set that has Neutral in it and is closed under the  *)
(* rules.                                                                  *)
SearchFindsReachable ==
  phase = "validating" /\ queue = <<>> =>
    /\ Closed(visited)
    /\ \A S \in SUBSET States : Neutral \in S /\ Closed(S) => visited \subseteq S

(* An agent never leaves a state before its minimum duration has really    *)
(* passed, self loops, blocked stimuli and a clock that runs behind        *)
(* notwithstanding (Constraints::check).                                   *)
DwellRespected ==
  [][current' # current /\ current \in DOMAIN config.minDuration
     => stayed >= config.minDuration[current]]_vars

(* The moves an agent can make, constraints considered. *)
Moves(c) ==
  {<<m[1], Target(c, m[1], m[2])>> : m \in
     {p \in States \X RuleStimuli(c) :
        /\ HasRule(c, p[1], p[2])
        /\ Target(c, p[1], p[2]) # p[1]
        /\ ~Forbidden(c, p[1], p[2], Target(c, p[1], p[2]))}}

=============================================================================
