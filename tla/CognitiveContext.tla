-------------------------- MODULE CognitiveContext --------------------------
(***************************************************************************)
(* The cognitive context of an agent: the row of cognitive_contexts, what  *)
(* prepareCognitiveContext makes of it in step 5 (phase, beliefs, active   *)
(* goals), the write of stepPostProcess, which happens after the agent's   *)
(* lock has been released, and the handlers that configure and delete an   *)
(* agent without the lock.                                                 *)
(*                                                                         *)
(* Of the context the model keeps what one interaction hands to the next:  *)
(* the phase, two beliefs and the active goals with their priorities in    *)
(* hundredths (0 for a goal that is not active).  The task complexity, the *)
(* emotional estimate and the summary are replaced in every interaction,   *)
(* the norms and the list of descriptions never change.                    *)
(*                                                                         *)
(* An input is what the keyword tests see of the user's text and of the    *)
(* new emotion: problem, solved and bye (inferConversationPhase), hurry    *)
(* and terms (updateBeliefs), and the mood, which is "calm" (intensity     *)
(* below 0.45), "tense" (arousal above 0.55, valence below 0) or "other".  *)
(***************************************************************************)
EXTENDS Naturals, FiniteSets

CONSTANTS Requests,  \* interactions of one agent
          Inputs,    \* what users write, as the keyword tests see it
          Rows,      \* rows an older version may have left in the table
          LegacyIds, \* ids of goals of such rows (goal_1, ...)
          Rank,      \* the order of the goals' descriptions
          MaxRank,
          MaxLate,   \* bound: abandoned writes on their way
          NoRequest

GoalIds ==
  {"clean_handoff", "close_loop", "establish_context", "plain_language",
   "diagnose_problem", "reduce_friction", "emotional_continuity",
   "technical_precision", "resolve_request"}

Phases == {"idle", "greeting", "problem_diagnosis", "resolution", "farewell"}
Expertise == {"unknown", "beginner", "intermediate", "advanced"}
MaxGoals == 4

AllIds == GoalIds \cup LegacyIds
GoalLists == [AllIds -> 0..100]
Active(goals) == {g \in AllIds : goals[g] > 0}
Contexts == [phase : Phases, expertise : Expertise, pressure : BOOLEAN, goals : GoalLists]

ASSUME RankAssumption ==
  /\ MaxRank \in Nat
  /\ Rank \in [AllIds -> 0..MaxRank]
  /\ \A g, h \in AllIds : Rank[g] = Rank[h] => g = h

ASSUME CognitiveAssumption ==
  /\ LegacyIds \cap GoalIds = {}
  /\ NoRequest \notin Requests
  /\ MaxLate \in Nat
  /\ Inputs \subseteq [problem : BOOLEAN, solved : BOOLEAN, bye : BOOLEAN,
                       hurry : BOOLEAN, terms : 0..3, mood : {"calm", "tense", "other"}]
  /\ Rows \subseteq Contexts

VARIABLES configured, \* the agent has a row in agent_configs
          row,        \* the stored context; DefaultContext when there is no row
          legacy,     \* the agent began with a row that an older version left
          holder,     \* the request that holds the agent's lock
          pc,         \* where each interaction is
          own,        \* the context it prepared
          late        \* the contexts of writes that were given up

vars == <<configured, row, legacy, holder, pc, own, late>>

-----------------------------------------------------------------------------
(* The context.                                                            *)

DefaultGoals == [g \in AllIds |-> CASE g = "resolve_request" -> 100
                                     [] g = "emotional_continuity" -> 80
                                     [] OTHER -> 0]

DefaultContext ==
  [phase |-> "idle", expertise |-> "unknown", pressure |-> FALSE, goals |-> DefaultGoals]

InferPhase(current, in) ==
  IF in.problem THEN "problem_diagnosis"
  ELSE IF in.solved THEN "resolution"
  ELSE IF in.bye THEN "farewell"
  ELSE IF current = "idle" THEN "greeting"
  ELSE IF in.mood = "calm" /\ current = "problem_diagnosis" THEN "resolution"
  ELSE current

UpdateExpertise(current, in) ==
  IF in.terms >= 3 THEN "advanced"
  ELSE IF in.terms >= 1 THEN "intermediate"
  ELSE IF current = "unknown" THEN "beginner"
  ELSE current

UpdatePressure(current, in) == current \/ in.hurry \/ in.mood = "tense"

(* The goals that reprioritizeGoals calls upsertGoal for. *)
Wanted(phase, expertise, pressure) ==
  {"resolve_request", "emotional_continuity"}
  \cup (IF pressure THEN {"reduce_friction"} ELSE {})
  \cup (IF expertise = "beginner" THEN {"plain_language"} ELSE {})
  \cup (IF expertise = "advanced" THEN {"technical_precision"} ELSE {})
  \cup (CASE phase = "greeting" -> {"establish_context"}
          [] phase = "problem_diagnosis" -> {"diagnose_problem"}
          [] phase = "resolution" -> {"close_loop"}
          [] phase = "farewell" -> {"clean_handoff"}
          [] OTHER -> {})

(* The priority each of them is upserted with. *)
Urgency ==
  [g \in GoalIds |->
     CASE g = "reduce_friction" -> 100
       [] g = "diagnose_problem" -> 96
       [] g = "plain_language" -> 92
       [] g = "resolve_request" -> 90
       [] g = "technical_precision" -> 88
       [] g = "close_loop" -> 82
       [] g = "clean_handoff" -> 76
       [] g = "establish_context" -> 72
       [] g = "emotional_continuity" -> 70]

(* upsertGoal: a goal that is there keeps the greater priority. *)
Upsert(goals, wanted) ==
  [g \in AllIds |-> IF g \in wanted /\ Urgency[g] > goals[g] THEN Urgency[g] ELSE goals[g]]

(* The order of sort.Slice: by priority, then by description. *)
Before(goals, h, g) ==
  \/ goals[h] > goals[g]
  \/ goals[h] = goals[g] /\ Rank[h] < Rank[g]

Ahead(goals, g) == {h \in Active(goals) : Before(goals, h, g)}

(* Faulty variant for mutation testing: the list is cut in map order. *)
CutUnsorted(goals) ==
  [g \in AllIds |->
     IF Cardinality({h \in Active(goals) : Rank[h] < Rank[g]}) < MaxGoals THEN goals[g] ELSE 0]

(* Faulty variant for mutation testing: one goal too many. *)
CutOneMore(goals) ==
  [g \in AllIds |-> IF Cardinality(Ahead(goals, g)) <= MaxGoals THEN goals[g] ELSE 0]

(* Faulty variant for mutation testing: one goal too few. *)
CutOneLess(goals) ==
  [g \in AllIds |-> IF Cardinality(Ahead(goals, g)) < MaxGoals - 1 THEN goals[g] ELSE 0]

(* The first MaxGoals of them. *)
Cut(goals) ==
  [g \in AllIds |-> IF Cardinality(Ahead(goals, g)) < MaxGoals THEN goals[g] ELSE 0]

Reprioritize(goals, phase, expertise, pressure) ==
  Cut(Upsert(goals, Wanted(phase, expertise, pressure)))

(* prepareCognitiveContext.  Normalize and Clone change nothing here: no   *)
(* field of a context in the table is empty.                               *)
Prepare(base, in) ==
  LET phase == InferPhase(base.phase, in)
      expertise == UpdateExpertise(base.expertise, in)
      pressure == UpdatePressure(base.pressure, in)
  IN [phase |-> phase, expertise |-> expertise, pressure |-> pressure,
      goals |-> Reprioritize(base.goals, phase, expertise, pressure)]

-----------------------------------------------------------------------------
(* The variables keep their types, and the lists of goals their length.    *)
TypeOK ==
  /\ configured \in BOOLEAN
  /\ row \in Contexts
  /\ legacy \in BOOLEAN
  /\ holder \in Requests \cup {NoRequest}
  /\ pc \in [Requests -> {"idle", "entered", "locked", "post"}]
  /\ own \in [Requests -> Contexts]
  /\ late \subseteq Contexts
  /\ ~legacy => Cardinality(Active(row.goals)) <= MaxGoals

(* GetCognitiveContext: no row is the default context. *)
Init ==
  /\ \/ row = DefaultContext /\ legacy = FALSE /\ configured \in BOOLEAN
     \/ row \in Rows /\ legacy = TRUE /\ configured = TRUE
  /\ holder = NoRequest
  /\ pc = [r \in Requests |-> "idle"]
  /\ own = [r \in Requests |-> DefaultContext]
  /\ late = {}

(* The agent's lock is taken; step 1 gives an unknown agent the default    *)
(* configuration.                                                          *)
Enter(r) ==
  /\ pc[r] = "idle" /\ holder = NoRequest
  /\ holder' = r
  /\ pc' = [pc EXCEPT ![r] = "entered"]
  /\ configured' = TRUE
  /\ UNCHANGED <<row, legacy, own, late>>

(* Step 5: the row is read and the context of this interaction prepared. *)
Retrieve(r, in) ==
  /\ pc[r] = "entered"
  /\ pc' = [pc EXCEPT ![r] = "locked"]
  /\ own' = [own EXCEPT ![r] = Prepare(row, in)]
  /\ UNCHANGED <<configured, row, legacy, holder, late>>

Unlocked(r) == IF holder = r THEN NoRequest ELSE holder

(* The interaction succeeds: its lock is released and post-processing      *)
(* dispatched.                                                             *)
Succeed(r) ==
  /\ pc[r] = "locked"
  /\ pc' = [pc EXCEPT ![r] = "post"]
  /\ holder' = Unlocked(r)
  /\ UNCHANGED <<configured, row, legacy, own, late>>

(* A step from 2 to 7 fails: nothing is written. *)
Fail(r) ==
  /\ pc[r] \in {"entered", "locked"}
  /\ pc' = [pc EXCEPT ![r] = "idle"]
  /\ holder' = Unlocked(r)
  /\ own' = [own EXCEPT ![r] = DefaultContext]
  /\ UNCHANGED <<configured, row, legacy, late>>

(* The lease lapses under a running interaction. *)
Lapse ==
  /\ holder # NoRequest
  /\ holder' = NoRequest
  /\ UNCHANGED <<configured, row, legacy, pc, own, late>>

(* The upsert of UpdateCognitiveContext replaces the row, whoever has      *)
(* written it since it was read; without a configuration the foreign key   *)
(* rejects it.                                                             *)
Upserted(c) == IF configured THEN c ELSE row

(* It is executed and answered. *)
Write(r) ==
  /\ pc[r] = "post" /\ configured
  /\ row' = Upserted(own[r])
  /\ pc' = [pc EXCEPT ![r] = "idle"]
  /\ own' = [own EXCEPT ![r] = DefaultContext]
  /\ UNCHANGED <<configured, legacy, holder, late>>

(* An attempt is rejected or not answered in time: then it was executed    *)
(* all the same, will perhaps be executed later, or is lost.  It is made   *)
(* again; after the last one, or when the process dies, nothing more is    *)
(* done.  How many attempts that are is left open.                         *)
WriteUnanswered(r) ==
  /\ pc[r] = "post"
  /\ \/ row' = Upserted(own[r]) /\ UNCHANGED late
     \/ /\ late' = late \cup {own[r]}
        /\ Cardinality(late') <= MaxLate
        /\ UNCHANGED row
     \/ UNCHANGED <<row, late>>
  /\ \/ UNCHANGED <<pc, own>>
     \/ /\ pc' = [pc EXCEPT ![r] = "idle"]
        /\ own' = [own EXCEPT ![r] = DefaultContext]
  /\ UNCHANGED <<configured, legacy, holder>>

(* A write that nobody waits for any more is executed or lost; there may   *)
(* be another copy of it, of an earlier attempt.                           *)
LateWrite(c) ==
  /\ row' \in {row, Upserted(c)}
  /\ late' \in {late, late \ {c}}
  /\ UNCHANGED <<configured, legacy, holder, pc, own>>

(* CreateAgent and UpdateAgent save a configuration, DeleteAgent removes   *)
(* it with the context; none of them takes the lock.                       *)
SaveConfig ==
  /\ configured' = TRUE
  /\ UNCHANGED <<row, legacy, holder, pc, own, late>>

DeleteAgent ==
  /\ configured' = FALSE
  /\ row' = DefaultContext
  /\ UNCHANGED <<legacy, holder, pc, own, late>>

Next ==
  \/ \E r \in Requests, in \in Inputs : Retrieve(r, in)
  \/ \E r \in Requests : Enter(r) \/ Succeed(r) \/ Fail(r) \/ Write(r) \/ WriteUnanswered(r)
  \/ \E c \in late : LateWrite(c)
  \/ Lapse \/ SaveConfig \/ DeleteAgent

Spec == Init /\ [][Next]_vars

-----------------------------------------------------------------------------
(* Properties.                                                             *)

(* Every context that is stored, in use or on its way to the table. *)
Everywhere == {row} \cup {own[r] : r \in Requests} \cup late

(* However the conversation goes and whichever interactions overwrite each *)
(* other's context, the user's request stays among the goals the model is  *)
(* given.  (Goals of an older version's row may push it out.)              *)
ResolveRequestIsActive ==
  ~legacy => \A c \in Everywhere : "resolve_request" \in Active(c.goals)

(* The goals the model is given fit the phase and the beliefs they come    *)
(* with, whatever goals earlier turns have left in the list, which are     *)
(* never withdrawn: while the user is under pressure, in trouble or a      *)
(* beginner, the goal that reprioritizeGoals adds for it survives the cut, *)
(* and no late, repeated or stale write parts the goals from the beliefs.  *)
StrongGoalsFollowContext ==
  ~legacy =>
    \A c \in Everywhere :
      /\ c.pressure => "reduce_friction" \in Active(c.goals)
      /\ c.phase = "problem_diagnosis" => "diagnose_problem" \in Active(c.goals)
      /\ c.expertise = "beginner" => "plain_language" \in Active(c.goals)

=============================================================================
