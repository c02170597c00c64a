----------------------- MODULE CognitiveContextProofs -----------------------
(***************************************************************************)
(* Proofs about CognitiveContext, for any number of requests, any inputs   *)
(* and any goals in rows of an older version.                              *)
(*                                                                         *)
(* The argument: in a list of goals that never was an older version's      *)
(* (GoodGoals), each active goal has a priority between the one it is      *)
(* upserted with and Limit, and the user's request has 100.  So only       *)
(* reduce_friction can come before resolve_request, and only the other     *)
(* three of Strongest before one of them: less than MaxGoals.              *)
(***************************************************************************)
EXTENDS CognitiveContext, TLAPS, FiniteSetTheorems, WellFoundedInduction

-----------------------------------------------------------------------------
(* Finite sets.                                                            *)

(* A set of natural numbers that is not empty has a least element. *)
LEMMA LeastElement ==
  ASSUME NEW T \in SUBSET Nat, T # {}
  PROVE  \E x \in T : \A y \in T : x <= y
<1> DEFINE R == OpToRel(<, Nat)
<1>1. PICK x \in T : \A y \in T : ~(<<y, x>> \in R)
  BY WFMin, NatLessThanWellFounded
<1>2. \A y \in T : y < x => <<y, x>> \in R
  BY DEF OpToRel
<1> HIDE DEF R
<1>3. \A y \in T : ~(y < x)
  BY <1>1, <1>2
<1>4. \A y \in T : x <= y
  BY <1>3
<1> QED BY <1>4

(* Sets of one, two and three elements. *)
LEMMA SmallSets ==
  ASSUME NEW a, NEW b, NEW c
  PROVE  /\ IsFiniteSet({a, b, c})
         /\ Cardinality({a, b, c}) <= 3
<1>1. IsFiniteSet({a}) /\ Cardinality({a}) = 1
  BY FS_Singleton
<1>2. IsFiniteSet({a} \cup {b}) /\ Cardinality({a} \cup {b}) <= 2
  BY <1>1, FS_AddElement
<1>3. Cardinality({a} \cup {b}) \in Nat
  BY <1>2, FS_CardinalityType
<1>4. /\ IsFiniteSet(({a} \cup {b}) \cup {c})
      /\ \/ Cardinality(({a} \cup {b}) \cup {c}) = Cardinality({a} \cup {b})
         \/ Cardinality(({a} \cup {b}) \cup {c}) = Cardinality({a} \cup {b}) + 1
  BY <1>2, FS_AddElement
<1>5. Cardinality(({a} \cup {b}) \cup {c}) <= 3
  BY <1>2, <1>3, <1>4
<1>6. ({a} \cup {b}) \cup {c} = {a, b, c}
  OBVIOUS
<1> QED BY <1>4, <1>5, <1>6

(* There are finitely many goals: their descriptions have different ranks. *)
LEMMA FinitelyManyGoals == IsFiniteSet(AllIds)
<1>1. IsFiniteSet(0..MaxRank)
  BY FS_Interval, RankAssumption
<1>2. Rank \in Injection(AllIds, 0..MaxRank)
  BY RankAssumption DEF Injection, IsInjective
<1> QED BY <1>1, <1>2, FS_Injection

-----------------------------------------------------------------------------
(* Lists of goals.                                                         *)

Limit == [g \in GoalIds |-> CASE g = "resolve_request" -> 100
                              [] g = "emotional_continuity" -> 80
                              [] OTHER -> Urgency[g]]

GoodGoals(gs) ==
  /\ gs \in GoalLists
  /\ gs["resolve_request"] = 100
  /\ \A g \in GoalIds : gs[g] = 0 \/ (Urgency[g] <= gs[g] /\ gs[g] <= Limit[g])
  /\ \A g \in LegacyIds : gs[g] = 0

(* The priorities of upsertGoal's calls. *)
LEMMA Priorities ==
  /\ Urgency["reduce_friction"] = 100 /\ Limit["reduce_friction"] = 100
  /\ Urgency["diagnose_problem"] = 96 /\ Limit["diagnose_problem"] = 96
  /\ Urgency["plain_language"] = 92 /\ Limit["plain_language"] = 92
  /\ Urgency["resolve_request"] = 90 /\ Limit["resolve_request"] = 100
  /\ Urgency["technical_precision"] = 88 /\ Limit["technical_precision"] = 88
  /\ Urgency["close_loop"] = 82 /\ Limit["close_loop"] = 82
  /\ Urgency["clean_handoff"] = 76 /\ Limit["clean_handoff"] = 76
  /\ Urgency["establish_context"] = 72 /\ Limit["establish_context"] = 72
  /\ Urgency["emotional_continuity"] = 70 /\ Limit["emotional_continuity"] = 80
BY DEF Urgency, Limit, GoalIds

(* They are numbers between 1 and 100, and no limit is below. *)
LEMMA PriorityRange ==
  \A g \in GoalIds : /\ Urgency[g] \in 1..100
                     /\ Limit[g] \in 1..100
                     /\ Urgency[g] <= Limit[g]
BY Priorities DEF GoalIds

(* upsertGoal and the cut keep lists of goals lists of goals. *)
LEMMA UpsertType ==
  ASSUME NEW gs \in GoalLists, NEW wanted \in SUBSET GoalIds
  PROVE  Upsert(gs, wanted) \in GoalLists
BY PriorityRange DEF Upsert, GoalLists

LEMMA CutType ==
  ASSUME NEW gs \in GoalLists
  PROVE  Cut(gs) \in GoalLists
BY DEF Cut, GoalLists

(* The goals asked for are goals the code knows. *)
LEMMA WantedType ==
  ASSUME NEW phase, NEW expertise, NEW pressure
  PROVE  Wanted(phase, expertise, pressure) \in SUBSET GoalIds
BY DEF Wanted, GoalIds

(* prepareCognitiveContext returns a context. *)
LEMMA PrepareType ==
  ASSUME NEW base \in Contexts, NEW in \in Inputs
  PROVE  Prepare(base, in) \in Contexts
<1> DEFINE phase == InferPhase(base.phase, in)
           expertise == UpdateExpertise(base.expertise, in)
           pressure == UpdatePressure(base.pressure, in)
           goals == Reprioritize(base.goals, phase, expertise, pressure)
<1>1. in \in [problem : BOOLEAN, solved : BOOLEAN, bye : BOOLEAN, hurry : BOOLEAN,
              terms : 0..3, mood : {"calm", "tense", "other"}]
  BY CognitiveAssumption
<1>2. base.phase \in Phases /\ base.expertise \in Expertise /\ base.pressure \in BOOLEAN
      /\ base.goals \in GoalLists
  BY DEF Contexts
<1>3. phase \in Phases
  BY <1>2 DEF InferPhase, Phases
<1>4. expertise \in Expertise
  BY <1>2 DEF UpdateExpertise, Expertise
<1>5. pressure \in BOOLEAN
  BY <1>1, <1>2 DEF UpdatePressure
<1>6. goals \in GoalLists
  BY <1>2, WantedType, UpsertType, CutType DEF Reprioritize
<1>7. Prepare(base, in) = [phase |-> phase, expertise |-> expertise,
                           pressure |-> pressure, goals |-> goals]
  BY DEF Prepare
<1> HIDE DEF phase, expertise, pressure, goals
<1> QED BY <1>3, <1>4, <1>5, <1>6, <1>7 DEF Contexts

(* A goal with at most three goals ahead of it survives the cut. *)
LEMMA CutKeeps ==
  ASSUME NEW gs \in GoalLists, NEW g \in AllIds, NEW a, NEW b, NEW c,
         Ahead(gs, g) \subseteq {a, b, c}
  PROVE  Cut(gs)[g] = gs[g]
<1>1. IsFiniteSet({a, b, c}) /\ Cardinality({a, b, c}) <= 3
  BY SmallSets
<1>2. /\ IsFiniteSet(Ahead(gs, g))
      /\ Cardinality(Ahead(gs, g)) <= Cardinality({a, b, c})
  BY <1>1, FS_Subset
<1>3. Cardinality(Ahead(gs, g)) \in Nat /\ Cardinality({a, b, c}) \in Nat
  BY <1>1, <1>2, FS_CardinalityType
<1>4. Cardinality(Ahead(gs, g)) < MaxGoals
  BY <1>1, <1>2, <1>3 DEF MaxGoals
<1> QED BY <1>4 DEF Cut

(* The cut leaves at most MaxGoals goals: the others are all ahead of the  *)
(* last one that is left.                                                  *)
LEMMA CutLeavesFour ==
  ASSUME NEW gs \in GoalLists
  PROVE  Cardinality(Active(Cut(gs))) <= MaxGoals
<1> DEFINE S == Active(Cut(gs))
<1>1. \A g \in S : /\ g \in AllIds /\ gs[g] > 0 /\ gs[g] \in 0..100
                   /\ Cardinality(Ahead(gs, g)) < MaxGoals
  BY DEF Active, Cut, GoalLists
<1>2. IsFiniteSet(S)
  BY <1>1, FinitelyManyGoals, FS_Subset
<1>3. CASE S = {}
  BY <1>3, FS_EmptySet DEF MaxGoals
<1>4. CASE S # {}
  <2>1. PICK p \in {gs[g] : g \in S} : \A q \in {gs[g] : g \in S} : p <= q
    <3>1. {gs[g] : g \in S} \in SUBSET Nat
      BY <1>1
    <3> HIDE DEF S
    <3>2. {gs[g] : g \in S} # {}
      BY <1>4
    <3> QED BY <3>1, <3>2, LeastElement
  <2> DEFINE L == {g \in S : gs[g] = p}
             D == {MaxRank - Rank[g] : g \in L}
  <2>2. PICK d \in D : \A e \in D : d <= e
    <3>1. D \in SUBSET Nat
      BY <1>1, RankAssumption
    <3>2. D # {}
      BY <2>1
    <3> HIDE DEF D
    <3> QED BY <3>1, <3>2, LeastElement
  <2>3. PICK m \in L : d = MaxRank - Rank[m]
    BY <2>2
  <2>4. m \in S /\ gs[m] = p
    BY <2>3
  <2>5. \A g \in S \ {m} : Before(gs, g, m)
    <3> SUFFICES ASSUME NEW g \in S \ {m} PROVE Before(gs, g, m)
      OBVIOUS
    <3>1. p <= gs[g] /\ gs[g] \in 0..100 /\ gs[m] \in 0..100
      BY <1>1, <2>1, <2>4
    <3>2. CASE gs[g] > p
      BY <2>4, <3>1, <3>2 DEF Before
    <3>3. CASE gs[g] = p
      <4>1. g \in L
        BY <3>3
      <4>2. MaxRank - Rank[m] <= MaxRank - Rank[g]
        BY <2>2, <2>3, <4>1
      <4>3. Rank[g] \in 0..MaxRank /\ Rank[m] \in 0..MaxRank /\ Rank[g] # Rank[m]
        BY <1>1, <2>4, RankAssumption
      <4>4. Rank[g] < Rank[m]
        BY <4>2, <4>3, RankAssumption
      <4> QED BY <2>4, <3>3, <4>4 DEF Before
    <3> QED BY <2>4, <3>1, <3>2, <3>3
  <2>6. S \ {m} \subseteq Ahead(gs, m)
    BY <1>1, <2>5 DEF Ahead, Active
  <2>7. IsFiniteSet(Ahead(gs, m))
    BY FinitelyManyGoals, FS_Subset DEF Ahead, Active
  <2>8. Cardinality(S \ {m}) <= Cardinality(Ahead(gs, m))
    BY <2>6, <2>7, FS_Subset
  <2>9. Cardinality(S \ {m}) = Cardinality(S) - 1
    BY <1>2, <2>4, FS_RemoveElement
  <2>10. Cardinality(Ahead(gs, m)) < MaxGoals
    BY <1>1, <2>4
  <2>11. Cardinality(S) \in Nat /\ Cardinality(Ahead(gs, m)) \in Nat
    BY <1>2, <2>7, FS_CardinalityType
  <2> QED BY <2>8, <2>9, <2>10, <2>11 DEF MaxGoals
<1> QED BY <1>3, <1>4

(* The default goals are good. *)
LEMMA DefaultIsGood == GoodGoals(DefaultGoals) /\ DefaultContext \in Contexts
<1>1. DefaultGoals \in GoalLists
  BY DEF DefaultGoals, GoalLists
<1>2. \A g \in GoalIds : g \in AllIds
  BY DEF AllIds
<1>3. \A g \in LegacyIds : g \in AllIds /\ g \notin GoalIds
  BY CognitiveAssumption DEF AllIds
<1>4. "resolve_request" \in GoalIds /\ "emotional_continuity" \in GoalIds
  BY DEF GoalIds
<1>5. DefaultGoals["resolve_request"] = 100 /\ DefaultGoals["emotional_continuity"] = 80
  BY <1>2, <1>4 DEF DefaultGoals
<1>6. \A g \in AllIds : g \notin {"resolve_request", "emotional_continuity"} => DefaultGoals[g] = 0
  BY DEF DefaultGoals
<1>7. \A g \in LegacyIds : DefaultGoals[g] = 0
  BY <1>3, <1>4, <1>6
<1>8. \A g \in GoalIds : \/ DefaultGoals[g] = 0
                         \/ Urgency[g] <= DefaultGoals[g] /\ DefaultGoals[g] <= Limit[g]
  BY <1>2, <1>5, <1>6, Priorities
<1>9. DefaultContext \in Contexts
  BY <1>1 DEF DefaultContext, Contexts, Phases, Expertise
<1> QED BY <1>1, <1>5, <1>7, <1>8, <1>9 DEF GoodGoals

(* upsertGoal keeps good goals good, and active goals active. *)
LEMMA UpsertKeepsGood ==
  ASSUME NEW gs, GoodGoals(gs), NEW wanted \in SUBSET GoalIds
  PROVE  /\ GoodGoals(Upsert(gs, wanted))
         /\ Active(gs) \subseteq Active(Upsert(gs, wanted))
<1> DEFINE us == Upsert(gs, wanted)
<1>1. gs \in GoalLists /\ us \in GoalLists
  BY UpsertType DEF GoodGoals
<1>2. \A g \in AllIds : us[g] = IF g \in wanted /\ Urgency[g] > gs[g] THEN Urgency[g] ELSE gs[g]
  BY DEF Upsert
<1>3. \A g \in AllIds : gs[g] \in 0..100
  BY <1>1 DEF GoalLists
<1>4. \A g \in GoalIds : g \in AllIds
  BY DEF AllIds
<1>5. \A g \in LegacyIds : g \in AllIds /\ g \notin wanted
  BY CognitiveAssumption DEF AllIds
<1> HIDE DEF us
<1>6. us["resolve_request"] = 100
  <2>1. "resolve_request" \in GoalIds /\ gs["resolve_request"] = 100
    BY DEF GoodGoals, GoalIds
  <2> QED BY <1>2, <1>4, <2>1, Priorities
<1>7. \A g \in GoalIds : us[g] = 0 \/ (Urgency[g] <= us[g] /\ us[g] <= Limit[g])
  BY <1>2, <1>3, <1>4, PriorityRange DEF GoodGoals
<1>8. \A g \in LegacyIds : us[g] = 0
  BY <1>2, <1>5 DEF GoodGoals
<1>9. Active(gs) \subseteq Active(us)
  BY <1>2, <1>3, PriorityRange DEF Active
<1> QED BY <1>1, <1>6, <1>7, <1>8, <1>9 DEF GoodGoals, us

(* Nothing but reduce_friction comes before the user's request. *)
LEMMA CutKeepsRequest ==
  ASSUME NEW gs, GoodGoals(gs)
  PROVE  GoodGoals(Cut(gs))
<1>1. gs \in GoalLists /\ Cut(gs) \in GoalLists
  BY CutType DEF GoodGoals
<1>2. \A g \in AllIds : Cut(gs)[g] = gs[g] \/ Cut(gs)[g] = 0
  BY DEF Cut
<1>3. GoalIds \subseteq AllIds /\ LegacyIds \subseteq AllIds /\ "resolve_request" \in GoalIds
  BY DEF AllIds, GoalIds
<1>4. Ahead(gs, "resolve_request") \subseteq {"reduce_friction", "reduce_friction", "reduce_friction"}
  <2> SUFFICES ASSUME NEW h \in Ahead(gs, "resolve_request")
               PROVE  h = "reduce_friction"
    OBVIOUS
  <2>1. h \in AllIds /\ gs[h] > 0 /\ Before(gs, h, "resolve_request") /\ gs[h] \in 0..100
    BY <1>1 DEF Ahead, Active, GoalLists
  <2>2. h \in GoalIds /\ gs[h] <= Limit[h]
    BY <2>1 DEF GoodGoals, AllIds
  <2>3. gs[h] = 100 /\ Rank[h] < Rank["resolve_request"]
    BY <2>1, <1>1 DEF Before, GoodGoals
  <2>4. h # "resolve_request"
    BY <2>3, <1>3, RankAssumption
  <2> QED BY <2>2, <2>3, <2>4, Priorities DEF GoalIds
<1>5. Cut(gs)["resolve_request"] = 100
  BY <1>1, <1>3, <1>4, CutKeeps DEF GoodGoals
<1> QED BY <1>1, <1>2, <1>3, <1>5 DEF GoodGoals

(* The goals with priorities above 90. *)
Strongest == {"resolve_request", "reduce_friction", "diagnose_problem", "plain_language"}

(* Nothing but the other three comes before one of the four strongest. *)
LEMMA CutKeepsStrongest ==
  ASSUME NEW gs, GoodGoals(gs)
  PROVE  \A g \in Strongest : g \in Active(gs) => g \in Active(Cut(gs))
<1>1. gs \in GoalLists
  BY DEF GoodGoals
<1>2. \A g \in Strongest : g \in GoalIds /\ g \in AllIds
  BY DEF Strongest, GoalIds, AllIds
<1>3. \A g \in Strongest : g \in Active(gs) => gs[g] \in 92..100 /\ gs[g] > 0
  BY <1>1, <1>2, Priorities DEF Strongest, Active, GoodGoals, GoalLists
<1>4. \A g \in Strongest : g \in Active(gs) => Ahead(gs, g) \subseteq Strongest
  <2> SUFFICES ASSUME NEW g \in Strongest, g \in Active(gs), NEW h \in Ahead(gs, g)
               PROVE  h \in Strongest
    OBVIOUS
  <2>1. h \in AllIds /\ gs[h] > 0 /\ Before(gs, h, g) /\ gs[h] \in 0..100
    BY <1>1 DEF Ahead, Active, GoalLists
  <2>2. h \in GoalIds /\ gs[h] <= Limit[h]
    BY <2>1 DEF GoodGoals, AllIds
  <2>3. gs[h] >= 92
    BY <1>3, <2>1 DEF Before
  <2>4. \A i \in GoalIds \ Strongest : Limit[i] <= 88
    BY Priorities DEF GoalIds, Strongest
  <2> QED BY <2>1, <2>2, <2>3, <2>4, PriorityRange
<1>5. \A g \in Strongest : g \in Active(gs) => g \notin Ahead(gs, g)
  BY <1>1, <1>2, <1>3, RankAssumption DEF Ahead, Before
<1>6. \A g \in Strongest : g \in Active(gs) => \E a, b, c : Ahead(gs, g) \subseteq {a, b, c}
  <2>1. "resolve_request" \in Active(gs) => Ahead(gs, "resolve_request")
          \subseteq {"reduce_friction", "diagnose_problem", "plain_language"}
    BY <1>4, <1>5 DEF Strongest
  <2>2. "reduce_friction" \in Active(gs) => Ahead(gs, "reduce_friction")
          \subseteq {"resolve_request", "diagnose_problem", "plain_language"}
    BY <1>4, <1>5 DEF Strongest
  <2>3. "diagnose_problem" \in Active(gs) => Ahead(gs, "diagnose_problem")
          \subseteq {"resolve_request", "reduce_friction", "plain_language"}
    BY <1>4, <1>5 DEF Strongest
  <2>4. "plain_language" \in Active(gs) => Ahead(gs, "plain_language")
          \subseteq {"resolve_request", "reduce_friction", "diagnose_problem"}
    BY <1>4, <1>5 DEF Strongest
  <2> QED BY <2>1, <2>2, <2>3, <2>4 DEF Strongest
<1>7. \A g \in Strongest : g \in Active(gs) => Cut(gs)[g] = gs[g]
  BY <1>1, <1>2, <1>6, CutKeeps
<1> QED BY <1>2, <1>3, <1>7 DEF Active

(* A goal that is asked for is active after upsertGoal. *)
LEMMA WantedIsActive ==
  ASSUME NEW gs \in GoalLists, NEW wanted \in SUBSET GoalIds, NEW g \in wanted
  PROVE  g \in Active(Upsert(gs, wanted))
<1>1. g \in AllIds /\ gs[g] \in 0..100
  BY DEF AllIds, GoalLists
<1>2. Upsert(gs, wanted)[g] = IF Urgency[g] > gs[g] THEN Urgency[g] ELSE gs[g]
  BY <1>1 DEF Upsert
<1>3. Urgency[g] \in 1..100
  BY PriorityRange
<1> QED BY <1>1, <1>2, <1>3 DEF Active

-----------------------------------------------------------------------------
(* What holds of a context that never was an older version's.              *)

Few(c) == Cardinality(Active(c.goals)) <= MaxGoals

Fits(c) ==
  /\ c.pressure => "reduce_friction" \in Active(c.goals)
  /\ c.phase = "problem_diagnosis" => "diagnose_problem" \in Active(c.goals)
  /\ c.expertise = "beginner" => "plain_language" \in Active(c.goals)

Good(c) == GoodGoals(c.goals) /\ Few(c) /\ Fits(c)

(* prepareCognitiveContext makes a good context of a good one. *)
LEMMA PrepareKeepsGood ==
  ASSUME NEW base \in Contexts, NEW in \in Inputs, Good(base)
  PROVE  Good(Prepare(base, in))
<1> DEFINE phase == InferPhase(base.phase, in)
           expertise == UpdateExpertise(base.expertise, in)
           pressure == UpdatePressure(base.pressure, in)
           wanted == Wanted(phase, expertise, pressure)
           us == Upsert(base.goals, wanted)
           mine == Prepare(base, in)
<1>1. /\ mine.goals = Cut(us)
      /\ mine.phase = phase /\ mine.expertise = expertise /\ mine.pressure = pressure
  BY DEF Prepare, Reprioritize
<1>2. wanted \in SUBSET GoalIds
  BY WantedType
<1>3. base.goals \in GoalLists
  BY DEF Contexts
<1>4. /\ pressure => "reduce_friction" \in wanted
      /\ phase = "problem_diagnosis" => "diagnose_problem" \in wanted
      /\ expertise = "beginner" => "plain_language" \in wanted
  BY DEF Wanted
<1> HIDE DEF phase, expertise, pressure, wanted, mine
<1>5. us \in GoalLists /\ GoodGoals(us)
  BY <1>2, <1>3, UpsertType, UpsertKeepsGood DEF Good
<1>6. \A g \in wanted : g \in Active(us)
  BY <1>2, <1>3, WantedIsActive
<1> HIDE DEF us
<1>7. GoodGoals(mine.goals) /\ Few(mine)
  BY <1>1, <1>5, CutLeavesFour, CutKeepsRequest DEF Few
<1>8. \A g \in Strongest : g \in wanted => g \in Active(mine.goals)
  BY <1>1, <1>5, <1>6, CutKeepsStrongest
<1>9. Fits(mine)
  BY <1>1, <1>4, <1>8 DEF Fits, Strongest
<1> QED BY <1>7, <1>9 DEF Good, mine

(* The default context has two goals, and nothing is known of the user. *)
LEMMA DefaultContextIsGood == Good(DefaultContext)
<1> DEFINE two == {"resolve_request", "emotional_continuity", "emotional_continuity"}
<1>1. Active(DefaultGoals) \subseteq two
  BY DEF Active, DefaultGoals
<1>2. IsFiniteSet(two) /\ Cardinality(two) <= 3
  BY SmallSets
<1> HIDE DEF two
<1>3. /\ IsFiniteSet(Active(DefaultGoals))
      /\ Cardinality(Active(DefaultGoals)) <= Cardinality(two)
  BY <1>1, <1>2, FS_Subset
<1>4. Cardinality(Active(DefaultGoals)) \in Nat /\ Cardinality(two) \in Nat
  BY <1>2, <1>3, FS_CardinalityType
<1>5. Few(DefaultContext)
  BY <1>2, <1>3, <1>4 DEF Few, DefaultContext, MaxGoals
<1>6. Fits(DefaultContext)
  BY DEF Fits, DefaultContext
<1>7. GoodGoals(DefaultContext.goals)
  BY DefaultIsGood DEF DefaultContext
<1> QED BY <1>5, <1>6, <1>7 DEF Good

-----------------------------------------------------------------------------
(* The inductive invariant.                                                *)

Typed ==
  /\ configured \in BOOLEAN
  /\ row \in Contexts
  /\ legacy \in BOOLEAN
  /\ holder \in Requests \cup {NoRequest}
  /\ pc \in [Requests -> {"idle", "entered", "locked", "post"}]
  /\ own \in [Requests -> Contexts]
  /\ late \subseteq Contexts

AllGood == ~legacy => \A c \in Everywhere : Good(c)

Inv == Typed /\ AllGood

(* The invariant holds initially. *)
LEMMA InitInv == Init => Inv
<1> SUFFICES ASSUME Init PROVE Inv
  OBVIOUS
<1>1. Typed
  BY DefaultIsGood, CognitiveAssumption DEF Init, Typed
<1>2. ~legacy => row = DefaultContext
  BY DEF Init
<1>3. \A c \in Everywhere : c = row \/ c = DefaultContext
  BY DEF Init, Everywhere
<1> QED BY <1>1, <1>2, <1>3, DefaultContextIsGood DEF Inv, AllGood

(* Every step keeps the types. *)
LEMMA TypedStep ==
  ASSUME Typed, [Next]_vars
  PROVE  Typed'
<1> USE DefaultIsGood DEF Typed
<1>1. ASSUME NEW r \in Requests, NEW in \in Inputs, Retrieve(r, in) PROVE Typed'
  <2>1. Prepare(row, in) \in Contexts
    BY PrepareType
  <2> QED BY <1>1, <2>1 DEF Retrieve
<1>2. ASSUME NEW r \in Requests, Enter(r) \/ Succeed(r) \/ Fail(r) PROVE Typed'
  BY <1>2 DEF Enter, Succeed, Fail, Unlocked
<1>3. ASSUME NEW r \in Requests, Write(r) \/ WriteUnanswered(r) PROVE Typed'
  <2>1. own[r] \in Contexts
    OBVIOUS
  <2>2. row' \in Contexts /\ late' \subseteq Contexts
    BY <1>3, <2>1 DEF Write, WriteUnanswered, Upserted
  <2>3. /\ pc' \in [Requests -> {"idle", "entered", "locked", "post"}]
        /\ own' \in [Requests -> Contexts]
    BY <1>3 DEF Write, WriteUnanswered
  <2> QED BY <1>3, <2>2, <2>3 DEF Write, WriteUnanswered
<1>4. ASSUME NEW c \in late, LateWrite(c) PROVE Typed'
  <2>1. row' \in Contexts /\ late' \subseteq Contexts
    BY <1>4 DEF LateWrite, Upserted
  <2> QED BY <1>4, <2>1 DEF LateWrite
<1>5. CASE Lapse \/ SaveConfig \/ DeleteAgent
  BY <1>5 DEF Lapse, SaveConfig, DeleteAgent
<1>6. CASE UNCHANGED vars
  BY <1>6 DEF vars
<1> QED BY <1>1, <1>2, <1>3, <1>4, <1>5, <1>6 DEF Next

(* No step makes a context but by preparing one from the row, or from the  *)
(* default: contexts are replaced as a whole, never merged.                *)
LEMMA EverywhereStep ==
  ASSUME Typed, [Next]_vars
  PROVE  /\ legacy' = legacy
         /\ \A c \in Everywhere' : \/ c \in Everywhere
                                   \/ c = DefaultContext
                                   \/ \E in \in Inputs : c = Prepare(row, in)
<1> DEFINE Known(c) == \/ c \in Everywhere
                       \/ c = DefaultContext
                       \/ \E in \in Inputs : c = Prepare(row, in)
<1>1. legacy' = legacy
  BY Zenon DEF Next, Enter, Retrieve, Succeed, Fail, Write, WriteUnanswered, LateWrite,
     Lapse, SaveConfig, DeleteAgent, vars
<1>2. Known(row) /\ (\A r \in Requests : Known(own[r])) /\ (\A c \in late : Known(c))
      /\ Known(DefaultContext)
  BY DEF Everywhere
<1>3. Known(row')
  <2>1. \/ row' = row \/ row' = DefaultContext
        \/ \E r \in Requests : row' = own[r]
        \/ \E c \in late : row' = c
    <3>1. \/ row' = row \/ row' = DefaultContext
          \/ \E r \in Requests : row' = Upserted(own[r])
          \/ \E c \in late : row' = Upserted(c)
      <4>1. ASSUME NEW c \in late, LateWrite(c) PROVE row' = row \/ row' = Upserted(c)
        BY <4>1 DEF LateWrite
      <4> QED BY <4>1, Zenon DEF Next, Enter, Retrieve, Succeed, Fail, Write, WriteUnanswered,
                 Lapse, SaveConfig, DeleteAgent, vars
    <3> QED BY <3>1 DEF Upserted
  <2> HIDE DEF Known
  <2> QED BY <1>2, <2>1
<1>4. \A c \in late' : Known(c)
  <2>1. \/ late' = late
        \/ \E r \in Requests : late' = late \cup {own[r]}
        \/ \E c \in late : late' = late \ {c}
    <3>1. ASSUME NEW c \in late, LateWrite(c) PROVE late' = late \/ late' = late \ {c}
      BY <3>1 DEF LateWrite
    <3> QED BY <3>1, Zenon DEF Next, Enter, Retrieve, Succeed, Fail, Write, WriteUnanswered,
               Lapse, SaveConfig, DeleteAgent, vars
  <2> HIDE DEF Known
  <2> QED BY <1>2, <2>1
<1>5. \A r \in Requests : Known(own'[r])
  <2>1. \/ own' = own
        \/ \E q \in Requests : own' = [own EXCEPT ![q] = DefaultContext]
        \/ \E q \in Requests, in \in Inputs : own' = [own EXCEPT ![q] = Prepare(row, in)]
    <3>1. ASSUME NEW c \in late, LateWrite(c) PROVE own' = own
      BY <3>1 DEF LateWrite
    <3> QED BY <3>1, Zenon DEF Next, Enter, Retrieve, Succeed, Fail, Write, WriteUnanswered,
               Lapse, SaveConfig, DeleteAgent, vars
  <2>2. \A in \in Inputs : Known(Prepare(row, in))
    OBVIOUS
  <2> HIDE DEF Known
  <2> QED BY <1>2, <2>1, <2>2 DEF Typed
<1>6. \A c \in Everywhere' : Known(c)
  <2> HIDE DEF Known
  <2> QED BY <1>3, <1>4, <1>5 DEF Everywhere
<1> QED BY <1>1, <1>6

(* Every step keeps the invariant. *)
LEMMA NextInv == Inv /\ [Next]_vars => Inv'
<1> SUFFICES ASSUME Inv, [Next]_vars PROVE Inv'
  OBVIOUS
<1>1. Typed /\ Typed'
  BY TypedStep DEF Inv
<1>2. ASSUME ~legacy, NEW c \in Everywhere' PROVE Good(c)
  <2>1. CASE c \in Everywhere
    BY <1>2, <2>1 DEF Inv, AllGood
  <2>2. CASE c = DefaultContext
    BY <2>2, DefaultContextIsGood
  <2>3. ASSUME NEW in \in Inputs, c = Prepare(row, in) PROVE Good(c)
    <3>1. row \in Contexts /\ Good(row)
      BY <1>1, <1>2 DEF Typed, Inv, AllGood, Everywhere
    <3> QED BY <2>3, <3>1, PrepareKeepsGood
  <2> QED BY <1>1, <2>1, <2>2, <2>3, EverywhereStep
<1>3. legacy' = legacy
  BY <1>1, EverywhereStep
<1>4. AllGood'
  <2> SUFFICES ASSUME ~legacy', NEW c \in Everywhere' PROVE Good(c)'
    BY DEF AllGood
  <2>1. Good(c)
    BY <1>2, <1>3
  <2> QED BY <2>1 DEF Good, GoodGoals, Few, Fits
<1> QED BY <1>1, <1>4 DEF Inv

(* The invariant holds in every behaviour. *)
LEMMA Invariance == Spec => []Inv
BY InitInv, NextInv, PTL DEF Spec

-----------------------------------------------------------------------------
(* Results.                                                                *)

(* The row and the contexts of running interactions keep their types, and  *)
(* the list of active goals never grows beyond four.                       *)
THEOREM TypeCorrect == Spec => []TypeOK
<1>1. Inv => TypeOK
  BY DEF Inv, Typed, AllGood, Everywhere, Good, Few, TypeOK
<1> QED BY <1>1, Invariance, PTL

(* The user's request is always among the active goals. *)
THEOREM RequestStaysActive == Spec => []ResolveRequestIsActive
<1>1. ASSUME NEW gs, GoodGoals(gs) PROVE "resolve_request" \in Active(gs)
  BY <1>1 DEF GoodGoals, Active, AllIds, GoalIds
<1>2. Inv => ResolveRequestIsActive
  BY <1>1 DEF Inv, AllGood, Good, ResolveRequestIsActive
<1> QED BY <1>2, Invariance, PTL

(* Whatever earlier turns have left in the list, and whichever writes are  *)
(* late, repeated or stale: a context comes with the goals for a user who  *)
(* is under pressure, in trouble or a beginner.                            *)
THEOREM GoalsFitTheContext == Spec => []StrongGoalsFollowContext
<1>1. Inv => StrongGoalsFollowContext
  BY DEF Inv, AllGood, Good, Fits, StrongGoalsFollowContext
<1> QED BY <1>1, Invariance, PTL

=============================================================================
