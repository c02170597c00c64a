-------------------------- MODULE EmotionFsmProofs --------------------------
(***************************************************************************)
(* Proofs about EmotionFsm for every configuration, every finite set of    *)
(* states and every order in which the hash map gives the successors: the  *)
(* search of reachable_states_from is correct, and minimum durations are   *)
(* respected although the clock may run backwards.                         *)
(***************************************************************************)
EXTENDS EmotionFsm, FiniteSetTheorems, SequenceTheorems, TLAPS

-----------------------------------------------------------------------------
(* Rules.                                                                  *)

(* A set of indices of a sequence that is not empty has a last one. *)
LEMMA LastIndex ==
  ASSUME NEW n \in Nat, NEW R \in SUBSET (1..n), R # {}
  PROVE  \E i \in R : \A j \in R : j <= i
<1> DEFINE T == {k \in Nat : \E i \in R : k = n - i}
<1>1. T \in SUBSET Nat /\ T # {}
  <2>1. PICK i \in R : TRUE
        OBVIOUS
  <2>2. n - i \in Nat
        OBVIOUS
  <2>3. n - i \in T
        BY <2>2
  <2> QED
      BY <2>3
<1>2. PICK k \in T : \A l \in T : k <= l
  <2>1. PICK k \in T : \A l \in T : <<l, k>> \notin OpToRel(<, Nat)
        BY <1>1, NatLessThanWellFounded, WFMin
  <2>2. ASSUME NEW l \in T PROVE k <= l
    <3>1. ~(l < k)
          BY <1>1, <2>1 DEF OpToRel
    <3> QED
        BY <1>1, <3>1
  <2> QED
      BY <2>2
<1>3. PICK i \in R : k = n - i
      OBVIOUS
<1>4. ASSUME NEW j \in R PROVE j <= i
  <2>1. n - j \in T
        OBVIOUS
  <2> QED
      BY <1>2, <1>3, <2>1
<1> QED
    BY <1>4

(* What a rule leads to is the target of one of the rules, so that a       *)
(* configuration that parses leads to known states only.                   *)
LEMMA TargetType ==
  ASSUME NEW c \in Configs, RulesParse(c), NEW s, NEW x, HasRule(c, s, x)
  PROVE  Target(c, s, x) \in States
<1> DEFINE R == RuleIndices(c, s, x)
<1>1. c.rules \in Seq(ToSet(c.rules))
      BY FsmAssumption
<1>2. DOMAIN c.rules = 1..Len(c.rules) /\ Len(c.rules) \in Nat
      BY <1>1
<1>3. R \in SUBSET (1..Len(c.rules)) /\ R # {}
      BY <1>2 DEF RuleIndices, HasRule
<1>4. \E i \in R : \A j \in R : j <= i
      BY <1>2, <1>3, LastIndex
<1> DEFINE last == CHOOSE i \in R : \A j \in R : j <= i
<1>5. last \in R
      BY <1>4
<1>6. last \in DOMAIN c.rules
      BY <1>2, <1>3, <1>5
<1>7. Target(c, s, x) = c.rules[last].to
      BY DEF Target
<1> QED
    BY <1>6, <1>7 DEF RulesParse, Parses

LEMMA SuccessorsType ==
  ASSUME NEW c \in Configs, RulesParse(c), NEW s
  PROVE  Successors(c, s) \subseteq States
  BY TargetType DEF Successors

-----------------------------------------------------------------------------
(* Queues.                                                                 *)

(* An enumeration of a finite set has its elements and no others. *)
LEMMA SetToSeqsElements ==
  ASSUME NEW S, IsFiniteSet(S), NEW order \in SetToSeqs(S)
  PROVE  order \in Seq(S) /\ ToSet(order) = S
<1> DEFINE n == Cardinality(S)
<1>1. n \in Nat
      BY FS_CardinalityType
<1>2. order \in [1..n -> S] /\ \A i, j \in 1..n : i # j => order[i] # order[j]
      BY DEF SetToSeqs
<1>3. IsFiniteSet(1..n) /\ Cardinality(1..n) = n
      BY <1>1, FS_Interval
<1>4. order \in Injection(1..n, S)
      BY <1>2 DEF Injection, IsInjective
<1>5. order \in Surjection(1..n, S)
      BY <1>3, <1>4, FS_Injection
<1>6. \A s \in S : \E i \in 1..n : order[i] = s
      BY <1>5 DEF Surjection
<1>7. ToSet(order) = S
      BY <1>2, <1>6 DEF ToSet
<1> QED
    BY <1>1, <1>2, <1>7

(* The elements of a queue whose head is replaced by an enumeration. *)
LEMMA QueueElements ==
  ASSUME NEW Q, NEW q \in Seq(Q), q # <<>>, NEW o \in Seq(Q)
  PROVE  /\ Tail(q) \o o \in Seq(Q)
         /\ Head(q) \in ToSet(q)
         /\ ToSet(q) \subseteq {Head(q)} \cup ToSet(Tail(q) \o o)
         /\ ToSet(Tail(q) \o o) \subseteq ToSet(q) \cup ToSet(o)
         /\ ToSet(o) \subseteq ToSet(Tail(q) \o o)
<1> DEFINE t == Tail(q)
           c == t \o o
<1>1. /\ t \in Seq(Q) /\ Len(t) = Len(q) - 1 /\ Len(q) \in Nat \ {0}
      /\ \A i \in 1..Len(t) : t[i] = q[i + 1]
      /\ Head(q) = q[1]
      BY HeadTailProperties
<1> HIDE DEF t
<1>2. /\ c \in Seq(Q) /\ Len(c) = Len(t) + Len(o) /\ Len(o) \in Nat /\ Len(t) \in Nat
      /\ \A i \in 1..Len(c) : c[i] = IF i <= Len(t) THEN t[i] ELSE o[i - Len(t)]
  <2>1. /\ t \o o \in Seq(Q) /\ Len(t \o o) = Len(t) + Len(o)
        /\ \A i \in 1..Len(t) + Len(o) :
             (t \o o)[i] = IF i <= Len(t) THEN t[i] ELSE o[i - Len(t)]
        BY <1>1, ConcatProperties, Zenon
  <2>2. Len(o) \in Nat /\ Len(t) \in Nat
        BY <1>1
  <2> HIDE DEF c
  <2>3. c = t \o o
        BY DEF c
  <2> QED
      BY <2>1, <2>2, <2>3, Zenon
<1> HIDE DEF c
<1>3. DOMAIN q = 1..Len(q) /\ DOMAIN c = 1..Len(c) /\ DOMAIN o = 1..Len(o)
      BY <1>2
<1>4. Head(q) \in ToSet(q)
      BY <1>1, <1>3 DEF ToSet
<1>5. ASSUME NEW i \in 1..Len(q) PROVE q[i] \in {Head(q)} \cup ToSet(c)
  <2>1. CASE i = 1
        BY <1>1, <2>1
  <2>2. CASE i # 1
    <3>1. i - 1 \in 1..Len(t) /\ i - 1 \in 1..Len(c)
          BY <1>1, <1>2, <2>2
    <3>2. c[i - 1] = q[i]
          BY <1>1, <1>2, <3>1
    <3> QED
        BY <1>3, <3>1, <3>2 DEF ToSet
  <2> QED
      BY <2>1, <2>2
<1>6. ASSUME NEW i \in 1..Len(c) PROVE c[i] \in ToSet(q) \cup ToSet(o)
  <2>1. CASE i <= Len(t)
    <3>1. i \in 1..Len(t) /\ i + 1 \in 1..Len(q)
          BY <1>1, <1>2, <2>1
    <3>2. c[i] = q[i + 1]
          BY <1>1, <1>2, <2>1, <3>1
    <3> QED
        BY <1>3, <3>1, <3>2 DEF ToSet
  <2>2. CASE ~(i <= Len(t))
    <3>1. i - Len(t) \in 1..Len(o)
          BY <1>2, <2>2
    <3>2. c[i] = o[i - Len(t)]
          BY <1>2, <2>2
    <3> QED
        BY <1>3, <3>1, <3>2 DEF ToSet
  <2> QED
      BY <2>1, <2>2
<1>7. ASSUME NEW i \in 1..Len(o) PROVE o[i] \in ToSet(c)
  <2>1. i + Len(t) \in 1..Len(c) /\ ~(i + Len(t) <= Len(t)) /\ (i + Len(t)) - Len(t) = i
        BY <1>2
  <2>2. c[i + Len(t)] = o[i]
        BY <1>2, <2>1
  <2> QED
      BY <1>3, <2>1, <2>2 DEF ToSet
<1>8. ToSet(q) \subseteq {Head(q)} \cup ToSet(c)
      BY <1>3, <1>5 DEF ToSet
<1>9. ToSet(c) \subseteq ToSet(q) \cup ToSet(o)
      BY <1>3, <1>6 DEF ToSet
<1>10. ToSet(o) \subseteq ToSet(c)
      BY <1>3, <1>7 DEF ToSet
<1> QED
    BY <1>2, <1>4, <1>8, <1>9, <1>10 DEF c, t

-----------------------------------------------------------------------------
(* The search.                                                             *)

(* What is found but not expanded is in the queue; what is expanded has    *)
(* all its successors found; and nothing is found that a closed set with   *)
(* Neutral in it could do without.                                         *)
SearchInv ==
  /\ Neutral \in visited
  /\ ToSet(queue) \subseteq visited
  /\ \A s \in visited \ ToSet(queue) : Successors(config, s) \subseteq visited
  /\ \A S \in SUBSET States : Neutral \in S /\ Closed(S) => visited \subseteq S

(* The clock never says more than the time that has really passed. *)
ClockIsHonest == now <= enteredAt + stayed

(* The inductive invariant. *)
IInv == /\ TypeOK
        /\ phase # "rejected" => RulesParse(config)
        /\ phase = "running" => States \subseteq visited /\ queue = <<>>
        /\ SearchInv
        /\ ClockIsHonest

(* One turn of the loop of reachable_states_from. *)
LEMMA ExpandStep ==
  ASSUME IInv, ExpandState
  PROVE  IInv'
<1> USE FsmAssumption
<1> DEFINE h == Head(queue)
           new == Successors(config, h) \ visited
<1>1. /\ config \in Configs /\ RulesParse(config) /\ phase = "validating"
      /\ queue \in Seq(States) /\ queue # <<>> /\ visited \subseteq States
      BY DEF IInv, TypeOK, ExpandState
<1>2. UNCHANGED <<config, phase, current, enteredAt, now, stayed>>
      BY DEF ExpandState, agentVars
<1>3. visited' = visited \cup new /\ \E order \in SetToSeqs(new) : queue' = Tail(queue) \o order
      BY DEF ExpandState
<1>4. PICK order \in SetToSeqs(new) : queue' = Tail(queue) \o order
      BY <1>3
<1>5. new \subseteq States
      BY <1>1, SuccessorsType
<1>6. IsFiniteSet(new)
      BY <1>5, FS_Subset
<1> HIDE DEF new
<1>7. order \in Seq(new) /\ ToSet(order) = new
      BY <1>6, SetToSeqsElements
<1>8. order \in Seq(States)
      BY <1>5, <1>7
<1>9. /\ queue' \in Seq(States)
      /\ h \in ToSet(queue)
      /\ ToSet(queue) \subseteq {h} \cup ToSet(queue')
      /\ ToSet(queue') \subseteq ToSet(queue) \cup new
      /\ new \subseteq ToSet(queue')
      BY <1>1, <1>4, <1>7, <1>8, QueueElements
<1> HIDE DEF h
<1>10. TypeOK'
      BY <1>1, <1>2, <1>3, <1>5, <1>9 DEF IInv, TypeOK
<1>11. SearchInv'
  <2>1. Neutral \in visited' /\ ToSet(queue') \subseteq visited'
        BY <1>3, <1>9 DEF IInv, SearchInv
  <2>2. ASSUME NEW s \in visited' \ ToSet(queue')
        PROVE  Successors(config, s) \subseteq visited'
    <3>1. s \in visited
          BY <1>3, <1>9, <2>2
    <3>2. CASE s = h
          BY <1>3, <3>2 DEF new
    <3>3. CASE s # h
      <4>1. s \notin ToSet(queue)
            BY <1>9, <2>2, <3>3
      <4>2. Successors(config, s) \subseteq visited
            BY <3>1, <4>1 DEF IInv, SearchInv
      <4> QED
          BY <1>3, <4>2
    <3> QED
        BY <3>2, <3>3
  <2>3. ASSUME NEW S \in SUBSET States, Neutral \in S, Closed(S) PROVE visited' \subseteq S
    <3>1. visited \subseteq S
          BY <2>3 DEF IInv, SearchInv
    <3>2. h \in S
          BY <1>9, <3>1 DEF IInv, SearchInv
    <3>3. new \subseteq S
          BY <2>3, <3>2 DEF Closed, new
    <3> QED
        BY <1>3, <3>1, <3>3
  <2>4. \A S \in SUBSET States : Closed(S)' => Closed(S)
        BY <1>2 DEF Closed
  <2>5. \A s \in visited' \ ToSet(queue') : Successors(config', s) \subseteq visited'
        BY <1>2, <2>2
  <2> QED
      BY <2>1, <2>3, <2>4, <2>5 DEF SearchInv
<1> QED
    BY <1>1, <1>2, <1>10, <1>11 DEF IInv, ClockIsHonest

(* FinishLoading accepts a configuration only when every state was found. *)
LEMMA FinishStep ==
  ASSUME IInv, FinishLoading
  PROVE  IInv'
<1>1. UNCHANGED <<config, queue, visited, current, enteredAt, now, stayed>>
      BY DEF FinishLoading, searchVars, agentVars
<1>2. phase = "validating" /\ queue = <<>> /\ phase' \in {"running", "rejected"}
      /\ (phase' = "running" => States \subseteq visited)
      BY DEF FinishLoading
<1>3. SearchInv'
      BY <1>1 DEF IInv, SearchInv, Closed
<1> QED
    BY <1>1, <1>2, <1>3 DEF IInv, TypeOK, RulesParse, Parses, ClockIsHonest

(* FsmEngine::transition moves to known states and restarts the stay. *)
LEMMA TransitionStep ==
  ASSUME IInv, NEW x, Transition(x)
  PROVE  IInv'
<1>1. UNCHANGED <<config, phase, queue, visited, now>>
      BY DEF Transition, searchVars
<1>2. current' \in States /\ enteredAt' = now /\ stayed' = 0
      BY TargetType DEF Transition, IInv, TypeOK
<1>3. SearchInv'
      BY <1>1 DEF IInv, SearchInv, Closed
<1>4. now \in 0..MaxNow /\ 0 \in 0..MaxNow
      BY FsmAssumption DEF IInv, TypeOK
<1>5. TypeOK' /\ ClockIsHonest'
      BY <1>1, <1>2, <1>4 DEF IInv, TypeOK, ClockIsHonest
<1>6. phase' # "rejected" => RulesParse(config)'
      BY <1>1 DEF IInv, RulesParse, Parses
<1> QED
    BY <1>1, <1>3, <1>5, <1>6 DEF IInv

(* Time passes, or the wall clock is set back. *)
LEMMA ClockStep ==
  ASSUME IInv, Tick \/ ClockStepsBack
  PROVE  IInv'
<1>1. UNCHANGED <<config, phase, queue, visited, current, enteredAt>>
      BY DEF Tick, ClockStepsBack, searchVars
<1>2. SearchInv'
      BY <1>1 DEF IInv, SearchInv, Closed
<1>3. now' \in 0..MaxNow /\ stayed' \in 0..MaxNow /\ ClockIsHonest'
      BY FsmAssumption DEF Tick, ClockStepsBack, IInv, TypeOK, ClockIsHonest
<1> QED
    BY <1>1, <1>2, <1>3 DEF IInv, TypeOK, RulesParse, Parses

LEMMA InitIInv == Init => IInv
<1> SUFFICES ASSUME Init PROVE IInv
    OBVIOUS
<1> USE FsmAssumption
<1>1. ToSet(queue) = {Neutral}
      BY DEF Init, ToSet
<1>2. queue \in Seq(States)
      BY DEF Init
<1>3. TypeOK
      BY <1>2 DEF Init, TypeOK
<1>4. SearchInv
      BY <1>1 DEF Init, SearchInv
<1> QED
    BY <1>3, <1>4 DEF Init, IInv, ClockIsHonest

LEMMA IInvStep == IInv /\ [Next]_vars => IInv'
<1> SUFFICES ASSUME IInv, [Next]_vars PROVE IInv'
    OBVIOUS
<1>1. ASSUME UNCHANGED vars PROVE IInv'
  <2>1. UNCHANGED <<config, phase, queue, visited, current, enteredAt, now, stayed>>
        BY <1>1 DEF vars, searchVars, agentVars
  <2>2. SearchInv'
        BY <2>1 DEF IInv, SearchInv, Closed
  <2> QED
      BY <2>1, <2>2 DEF IInv, TypeOK, RulesParse, Parses, ClockIsHonest
<1>2. ASSUME NEW x \in Stimuli, NoTransition(x) PROVE IInv'
      BY <1>1, <1>2 DEF NoTransition
<1> QED
    BY <1>1, <1>2, ExpandStep, FinishStep, TransitionStep, ClockStep DEF Next

LEMMA Invariance == Spec => []IInv
  BY InitIInv, IInvStep, PTL DEF Spec

-----------------------------------------------------------------------------
(* The results.                                                            *)

(* The variables keep their types: neither the search nor an agent ever    *)
(* gets to a state that EmotionalState does not have.                      *)
THEOREM TypeCorrect == Spec => []TypeOK
<1>1. IInv => TypeOK
      BY DEF IInv
<1> QED
    BY <1>1, Invariance, PTL

(* reachable_states_from computes reachability: whatever the order of the  *)
(* hash map, it ends with the least closed set that has Neutral in it.     *)
THEOREM SearchIsCorrect == Spec => []SearchFindsReachable
<1>1. IInv => SearchFindsReachable
  <2> SUFFICES ASSUME IInv, queue = <<>>
               PROVE  /\ Closed(visited)
                      /\ \A S \in SUBSET States : Neutral \in S /\ Closed(S) => visited \subseteq S
      BY DEF SearchFindsReachable
  <2>1. ToSet(queue) = {}
        BY DEF ToSet
  <2> QED
      BY <2>1 DEF IInv, SearchInv, Closed
<1> QED
    BY <1>1, Invariance, PTL

(* An engine that runs has a configuration in which every state can be     *)
(* reached from Neutral over its rules: validate lets no other one pass.   *)
EveryStateReachable ==
  phase = "running" =>
    \A S \in SUBSET States : Neutral \in S /\ Closed(S) => S = States

THEOREM AcceptedIsConnected == Spec => []EveryStateReachable
<1>1. IInv => EveryStateReachable
      BY DEF IInv, SearchInv, EveryStateReachable
<1> QED
    BY <1>1, Invariance, PTL

(* No agent leaves a state before its minimum duration has really passed:  *)
(* what Constraints::check takes for the time elapsed is never more than   *)
(* the time the agent stayed, even when the clock was set back.            *)
THEOREM DwellIsRespected == Spec => DwellRespected
<1>1. IInv /\ [Next]_vars =>
        [current' # current /\ current \in DOMAIN config.minDuration
         => stayed >= config.minDuration[current]]_vars
  <2> SUFFICES ASSUME IInv, Next, current' # current, current \in DOMAIN config.minDuration
               PROVE  stayed >= config.minDuration[current]
      OBVIOUS
  <2>1. PICK x \in Stimuli : Transition(x)
        BY DEF Next, ExpandState, FinishLoading, NoTransition, Tick, ClockStepsBack, vars,
           agentVars
  <2>2. Elapsed >= config.minDuration[current]
        BY <2>1 DEF Transition, Allowed
  <2>3. Elapsed \in Nat /\ Elapsed <= stayed
        BY FsmAssumption DEF Elapsed, IInv, TypeOK, ClockIsHonest
  <2>4. config.minDuration[current] \in Nat /\ stayed \in Nat
        BY FsmAssumption DEF IInv, TypeOK
  <2> QED
      BY <2>2, <2>3, <2>4
<1> QED
    BY <1>1, Invariance, PTL DEF Spec, DwellRespected

=============================================================================
