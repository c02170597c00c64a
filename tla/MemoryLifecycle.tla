-------------------------- MODULE MemoryLifecycle --------------------------
(***************************************************************************)
(* The long-term memories of one agent in Qdrant: stored by the            *)
(* post-processing of an intense interaction, touched by the retrieval of  *)
(* later ones, promoted from L2 to L3 by their post-processing, and        *)
(* removed by the garbage collector.  All of these run in goroutines that  *)
(* hold no lock; each read and each write of Qdrant is a step of its own,  *)
(* and a write whose answer does not come in time may have been executed,  *)
(* may be executed later, and is sent again.                               *)
(*                                                                         *)
(* An interaction t stores at most the memory t.  Intensities and valences *)
(* are in tenths.  What a week is made of (Age) is longer than anything    *)
(* the orchestrator has in flight.                                         *)
(***************************************************************************)
EXTENDS Naturals, FiniteSets

CONSTANTS Turns,               \* interactions, and the memories they store
          Intensity, Valence,  \* of the emotion an interaction ended in
          IntensityThreshold, FrequencyThreshold, ValenceThreshold,
          Attempts,            \* attempts of a Qdrant call (3)
          GCAccessThreshold,   \* GCConfig.L2AccessCountThreshold
          BatchSize,           \* GCConfig.BatchSize
          MaxLate,             \* bound: abandoned commands on their way
          Absent               \* no such point

Points == [level : 1..3, isPseudopermanent : BOOLEAN, accessCount : Nat, old : BOOLEAN]

ASSUME LifecycleAssumption ==
  /\ Turns \subseteq Nat
  /\ Intensity \in [Turns -> Nat] /\ Valence \in [Turns -> Nat]
  /\ IntensityThreshold \in Nat /\ FrequencyThreshold \in Nat /\ ValenceThreshold \in Nat
  /\ Attempts \in Nat \ {0} /\ GCAccessThreshold \in Nat /\ BatchSize \in Nat \ {0}
  /\ MaxLate \in Nat
  /\ Absent \notin Points

VARIABLES store,      \* the points of the collection
          stage,      \* where an interaction is
          attempt,    \* the attempt of its UpsertMemory, 0 outside one
          touches,    \* updates its touch goroutine still has to write
          promotions, \* memories its post-processing still has to promote
          gcBatch,    \* points DeleteStaleMemories has scrolled, to delete
          late,       \* commands of attempts that were given up
          accesses,   \* history: how often a memory was retrieved
          collected   \* history: the memories that were deleted

vars == <<store, stage, attempt, touches, promotions, gcBatch, late, accesses, collected>>

Stages == {"new", "searching", "retrieved", "promoting", "deciding", "inserting", "done"}

(* What is sent to Qdrant: a write of the access count, of the level, of   *)
(* the whole point, or a deletion.                                         *)
Commands == [op : {"touch", "promote", "upsert", "delete"}, id : Turns, accessCount : Nat]
Command(op, m, n) == [op |-> op, id |-> m, accessCount |-> n]

(* The variables keep their types; in particular UpsertMemory never makes  *)
(* more attempts than its retry policy allows, and levels stay in 1..3.    *)
TypeOK ==
  /\ \A m \in Turns : store[m] = Absent \/ store[m] \in Points
  /\ stage \in [Turns -> Stages]
  /\ attempt \in [Turns -> 0..Attempts]
  /\ \A t \in Turns : touches[t] \subseteq Commands
  /\ promotions \in [Turns -> SUBSET Turns]
  /\ gcBatch \subseteq Turns
  /\ late \subseteq Commands
  /\ accesses \in [Turns -> Nat]
  /\ collected \subseteq Turns

Init ==
  /\ store = [m \in Turns |-> Absent]
  /\ stage = [t \in Turns |-> "new"]
  /\ attempt = [t \in Turns |-> 0]
  /\ touches = [t \in Turns |-> {}]
  /\ promotions = [t \in Turns |-> {}]
  /\ gcBatch = {}
  /\ late = {}
  /\ accesses = [m \in Turns |-> 0]
  /\ collected = {}

Stored == {m \in Turns : store[m] # Absent}

-----------------------------------------------------------------------------
(* The emotion engine.                                                     *)

(* evaluate_promotions, for one candidate. *)
ShouldPromote(level, intensity, frequency, valence) ==
  /\ level < 3
  /\ \/ intensity > IntensityThreshold
     \/ frequency > FrequencyThreshold /\ valence > ValenceThreshold

TargetLevel(level, intensity, frequency, valence) ==
  IF ShouldPromote(level, intensity, frequency, valence) THEN level + 1 ELSE level

-----------------------------------------------------------------------------
(* Qdrant.                                                                 *)

(* The level persistPromotedInteractionMemory stores an interaction with:  *)
(* it is a candidate of level 1 with one access.                           *)
OwnLevel(t) == TargetLevel(1, Intensity[t], 1, Valence[t])

Fresh(t) == [level |-> OwnLevel(t), isPseudopermanent |-> OwnLevel(t) >= 3,
             accessCount |-> 0, old |-> FALSE]

Promoted(p) == [p EXCEPT !.level = 3, !.isPseudopermanent = TRUE]

(* Faulty variant for mutation testing: a touch writes the whole payload, as it was read. *)
AfterWholePayload(c, p) ==
  IF c.op = "upsert" THEN Fresh(c.id)
  ELSE IF c.op = "delete" \/ p = Absent THEN Absent
  ELSE IF c.op = "touch" THEN [p EXCEPT !.accessCount = c.accessCount, !.level = 2,
                                        !.isPseudopermanent = FALSE]
  ELSE Promoted(p)

(* Faulty variant for mutation testing: a touch is an upsert of the point. *)
AfterUpsertingTouch(c, p) ==
  IF c.op = "upsert" \/ (c.op = "touch" /\ p = Absent) THEN Fresh(c.id)
  ELSE IF c.op = "delete" \/ p = Absent THEN Absent
  ELSE IF c.op = "touch" THEN [p EXCEPT !.accessCount = c.accessCount]
  ELSE Promoted(p)

(* What a command makes of its point.  An upsert replaces the whole point; *)
(* the payload updates of TouchMemories and UpdateMemoryLevel do not bring *)
(* back a point that is gone.                                              *)
After(c, p) ==
  IF c.op = "upsert" THEN Fresh(c.id)
  ELSE IF c.op = "delete" \/ p = Absent THEN Absent
  ELSE IF c.op = "touch" THEN [p EXCEPT !.accessCount = c.accessCount]
  ELSE Promoted(p)

Executed(c) == [store EXCEPT ![c.id] = After(c, @)]

(* An attempt is not answered in time: it was executed all the same, will  *)
(* perhaps be executed later, or is lost.                                  *)
Unanswered(c) ==
  \/ store' = Executed(c) /\ UNCHANGED late
  \/ late' = late \cup {c} /\ Cardinality(late') <= MaxLate /\ UNCHANGED store
  \/ UNCHANGED <<store, late>>

(* The history of deletions. *)
Collect == collected' = collected \cup {m \in Stored : store'[m] = Absent}

(* A command that nobody waits for any more is executed or lost; there may *)
(* be another copy of it, of an earlier attempt.                           *)
LateCommand(c) ==
  /\ store' \in {store, Executed(c)}
  /\ late' \in {late, late \ {c}}
  /\ Collect
  /\ UNCHANGED <<stage, attempt, touches, promotions, gcBatch, accesses>>

-----------------------------------------------------------------------------
(* stepRetrieve: two searches in goroutines of their own, whose hits are   *)
(* merged, and a goroutine that writes each hit's access count, as it was  *)
(* read, plus one.                                                         *)

(* Faulty variant for mutation testing: a hit counts twice. *)
FoundTwice(hits) == {Command("touch", m, store[m].accessCount + 2) : m \in hits}

Found(hits) == {Command("touch", m, store[m].accessCount + 1) : m \in hits}

(* The first search to answer. *)
Search(t) ==
  /\ stage[t] = "new"
  /\ stage' = [stage EXCEPT ![t] = "searching"]
  /\ \E hits \in SUBSET Stored : touches' = [touches EXCEPT ![t] = Found(hits)]
  /\ UNCHANGED <<store, attempt, promotions, gcBatch, late, accesses, collected>>

(* buildMemoryTouches: a hit of both searches has the count that the       *)
(* emotional one has read, which may have been the first or the second.    *)
Merge(weak, strong) == strong \cup {u \in weak : \A v \in strong : v.id # u.id}

(* The second answers, and the touches are scheduled. *)
Retrieve(t) ==
  /\ stage[t] = "searching"
  /\ stage' = [stage EXCEPT ![t] = "retrieved"]
  /\ \E hits \in SUBSET Stored :
       \E merged \in {Merge(touches[t], Found(hits)), Merge(Found(hits), touches[t])} :
         /\ touches' = [touches EXCEPT ![t] = merged]
         /\ accesses' = [m \in Turns |->
                           accesses[m] + IF \E u \in merged : u.id = m THEN 1 ELSE 0]
  /\ UNCHANGED <<store, attempt, promotions, gcBatch, late, collected>>

(* A search or another read of step 5 fails: no touches, no interaction. *)
RetrieveFails(t) ==
  /\ stage[t] = "searching"
  /\ stage' = [stage EXCEPT ![t] = "done"]
  /\ touches' = [touches EXCEPT ![t] = {}]
  /\ UNCHANGED <<store, attempt, promotions, gcBatch, late, accesses, collected>>

(* TouchMemories writes the smallest point id first. *)
NextTouch(t, u) ==
  /\ stage[t] # "searching"
  /\ u \in touches[t] /\ \A v \in touches[t] : u.id <= v.id

WriteTouch(t) ==
  \E u \in touches[t] :
    /\ NextTouch(t, u)
    /\ store' = Executed(u)
    /\ touches' = [touches EXCEPT ![t] = @ \ {u}]
    /\ UNCHANGED <<stage, attempt, promotions, gcBatch, late, accesses, collected>>

(* An attempt is not answered.  It is made again; after the last one       *)
(* TouchMemories returns and drops the updates that follow.  How many      *)
(* attempts that are is left open.                                         *)
TouchUnanswered(t) ==
  \E u \in touches[t] :
    /\ NextTouch(t, u)
    /\ Unanswered(u)
    /\ touches' \in {touches, [touches EXCEPT ![t] = {}]}
    /\ UNCHANGED <<stage, attempt, promotions, gcBatch, accesses, collected>>

-----------------------------------------------------------------------------
(* stepPostProcess, as far as it concerns memories.                        *)

(* The request failed before post-processing was dispatched. *)
Abandon(t) ==
  /\ stage[t] = "retrieved"
  /\ stage' = [stage EXCEPT ![t] = "done"]
  /\ UNCHANGED <<store, attempt, touches, promotions, gcBatch, late, accesses, collected>>

(* evaluateL2Promotions: read the L2 memories and ask the engine.  When    *)
(* either call fails nothing is promoted.                                  *)
L2 == {m \in Stored : store[m].level = 2}

PromotedFromL2 ==
  {m \in L2 : /\ ShouldPromote(2, Intensity[m], store[m].accessCount, Valence[m])
              /\ TargetLevel(2, Intensity[m], store[m].accessCount, Valence[m]) >= 3}

ScanL2(t) ==
  /\ stage[t] = "retrieved"
  /\ stage' = [stage EXCEPT ![t] = "promoting"]
  /\ promotions' \in {promotions, [promotions EXCEPT ![t] = PromotedFromL2]}
  /\ UNCHANGED <<store, attempt, touches, gcBatch, late, accesses, collected>>

(* UpdateMemoryLevel of one memory. *)
PromoteOne(t) ==
  /\ stage[t] = "promoting"
  /\ \E m \in promotions[t] :
       /\ store' = Executed(Command("promote", m, 0))
       /\ promotions' = [promotions EXCEPT ![t] = @ \ {m}]
  /\ UNCHANGED <<stage, attempt, touches, gcBatch, late, accesses, collected>>

(* An attempt is not answered.  It is made again; after the last one the   *)
(* error is logged and the loop goes on with the other memories.           *)
PromoteUnanswered(t) ==
  /\ stage[t] = "promoting"
  /\ \E m \in promotions[t] :
       /\ Unanswered(Command("promote", m, 0))
       /\ promotions' \in {promotions, [promotions EXCEPT ![t] = @ \ {m}]}
  /\ UNCHANGED <<stage, attempt, touches, gcBatch, accesses, collected>>

PromotionsDone(t) ==
  /\ stage[t] = "promoting"
  /\ promotions[t] = {}
  /\ stage' = [stage EXCEPT ![t] = "deciding"]
  /\ UNCHANGED <<store, attempt, touches, promotions, gcBatch, late, accesses, collected>>

(* persistPromotedInteractionMemory stores the interaction only when the   *)
(* engine promotes it.                                                     *)
Decide(t) ==
  /\ stage[t] = "deciding"
  /\ \/ /\ OwnLevel(t) >= 2
        /\ stage' = [stage EXCEPT ![t] = "inserting"]
        /\ attempt' = [attempt EXCEPT ![t] = 1]
     \/ /\ stage' = [stage EXCEPT ![t] = "done"]   \* not promoted, or the call failed
        /\ UNCHANGED attempt
  /\ UNCHANGED <<store, touches, promotions, gcBatch, late, accesses, collected>>

(* UpsertMemory: an attempt is executed and answered. *)
Upsert(t) ==
  /\ stage[t] = "inserting"
  /\ store' = Executed(Command("upsert", t, 0))
  /\ stage' = [stage EXCEPT ![t] = "done"]
  /\ attempt' = [attempt EXCEPT ![t] = 0]
  /\ UNCHANGED <<touches, promotions, gcBatch, late, accesses, collected>>

(* Faulty variant for mutation testing: one attempt too many. *)
UpsertUnansweredOnceMore(t) ==
  /\ stage[t] = "inserting"
  /\ attempt[t] <= Attempts
  /\ attempt' = [attempt EXCEPT ![t] = @ + 1]
  /\ UNCHANGED <<store, stage, touches, promotions, gcBatch, late, accesses, collected>>

(* It is not answered, and made again while attempts are left. *)
UpsertUnanswered(t) ==
  /\ stage[t] = "inserting"
  /\ Unanswered(Command("upsert", t, 0))
  /\ \/ /\ attempt[t] < Attempts
        /\ attempt' = [attempt EXCEPT ![t] = @ + 1]
        /\ UNCHANGED stage
     \/ /\ attempt[t] = Attempts
        /\ attempt' = [attempt EXCEPT ![t] = 0]
        /\ stage' = [stage EXCEPT ![t] = "done"]
  /\ UNCHANGED <<touches, promotions, gcBatch, accesses, collected>>

-----------------------------------------------------------------------------
(* The garbage collector.                                                  *)

Stale == {m \in L2 : store[m].old /\ store[m].accessCount < GCAccessThreshold}

(* DeleteStaleMemories scrolls a page of what the filter selects ... *)
ScrollStale ==
  /\ gcBatch = {}
  /\ \E batch \in SUBSET Stale :
       /\ batch # {}
       /\ Cardinality(batch) <= BatchSize
       /\ batch = Stale \/ Cardinality(batch) = BatchSize
       /\ gcBatch' = batch
  /\ UNCHANGED <<store, stage, attempt, touches, promotions, late, accesses, collected>>

(* Faulty variant for mutation testing: the ids match no point. *)
DeleteNothing ==
  /\ gcBatch # {}
  /\ gcBatch' = {}
  /\ UNCHANGED <<store, stage, attempt, touches, promotions, late, accesses, collected>>

WithoutBatch == [m \in Turns |-> IF m \in gcBatch THEN Absent ELSE store[m]]

(* ... and then deletes these points by id. *)
DeletePoints ==
  /\ gcBatch # {}
  /\ store' = WithoutBatch
  /\ gcBatch' = {}
  /\ Collect
  /\ UNCHANGED <<stage, attempt, touches, promotions, late, accesses>>

(* An attempt is not answered.  It is made again; after the last one       *)
(* runMemoryGCOnce gives up until the next tick.                           *)
DeleteUnanswered ==
  /\ gcBatch # {}
  /\ \/ store' = WithoutBatch /\ UNCHANGED late
     \/ /\ late' = late \cup {Command("delete", m, 0) : m \in gcBatch}
        /\ Cardinality(late') <= MaxLate
        /\ UNCHANGED store
     \/ UNCHANGED <<store, late>>
  /\ gcBatch' \in {gcBatch, {}}
  /\ Collect
  /\ UNCHANGED <<stage, attempt, touches, promotions, accesses>>

(* L2MaxAge passes for all that is stored; nothing in flight lasts as long.*)
Age ==
  /\ gcBatch = {} /\ late = {}
  /\ \A t \in Turns : stage[t] \in {"new", "done"} /\ touches[t] = {}
  /\ \E m \in Stored : ~store[m].old
  /\ store' = [m \in Turns |-> IF m \in Stored THEN [store[m] EXCEPT !.old = TRUE]
                               ELSE store[m]]
  /\ UNCHANGED <<stage, attempt, touches, promotions, gcBatch, late, accesses, collected>>

TurnStep(t) ==
  \/ Search(t) \/ Retrieve(t) \/ RetrieveFails(t)
  \/ WriteTouch(t) \/ TouchUnanswered(t) \/ Abandon(t)
  \/ ScanL2(t) \/ PromoteOne(t) \/ PromoteUnanswered(t) \/ PromotionsDone(t)
  \/ Decide(t) \/ Upsert(t) \/ UpsertUnanswered(t)

Next ==
  \/ \E t \in Turns : TurnStep(t)
  \/ \E c \in late : LateCommand(c)
  \/ ScrollStale \/ DeletePoints \/ DeleteUnanswered
  \/ Age

(* The collector's ticker fires for ever, and a delete that is tried again *)
(* and again succeeds at last.                                             *)
Fairness == WF_vars(ScrollStale) /\ SF_vars(DeletePoints)

Spec == Init /\ [][Next]_vars
FairSpec == Spec /\ Fairness

-----------------------------------------------------------------------------
(* Properties.                                                             *)

(* access_count is written from stale readings, again and late, and may    *)
(* lose accesses, but it never counts one that did not happen: neither     *)
(* promotion by frequency nor the collector's exemption is granted too     *)
(* early.                                                                  *)
CountNeverExceedsAccesses == \A m \in Stored : store[m].accessCount <= accesses[m]

(* A memory that the collector has deleted is gone: no touch, promotion or *)
(* upsert that was under way, is repeated or comes late brings it back.    *)
CollectedIsGone == \A m \in collected : store[m] = Absent

(* UpsertMemory is at work on a memory that it has sent before: a further  *)
(* attempt, or one that was given up and is still on its way.              *)
Resent(m) ==
  \/ stage[m] = "inserting" /\ attempt[m] > 1
  \/ \E c \in late : c.op = "upsert" /\ c.id = m

(* A stored memory never falls back to a lower level, unless UpsertMemory  *)
(* sends again, or late, what another attempt has already stored.          *)
DemotedOnlyByResentUpsert ==
  [][\A m \in Stored : store'[m] # Absent /\ store'[m].level < store[m].level
                       => Resent(m)]_vars

(* A stale L2 memory does not stay stale for ever: it is deleted, promoted *)
(* or accessed.                                                            *)
StaleIsCollected == \A m \in Turns : m \in Stale ~> m \notin Stale

(* FASE_4_MEMORIA.md: the collector does not affect L3.  No memory of      *)
(* level 3 is ever deleted.                                                *)
L3IsNeverCollected ==
  [][\A m \in Stored : store'[m] = Absent => store[m].level < 3]_vars

=============================================================================
