----------------------- MODULE MemoryLifecycleProofs -----------------------
(***************************************************************************)
(* Proofs about MemoryLifecycle for any set of interactions and any        *)
(* thresholds: what the goroutines that touch, promote, insert and collect *)
(* memories can do to a point, without a lock between them and with        *)
(* commands that are repeated and come late.                               *)
(***************************************************************************)
EXTENDS MemoryLifecycle, TLAPS

TouchCommands == {c \in Commands : c.op = "touch"}

(* TypeOK with the domains of the two functions whose values it describes. *)
Typed ==
  /\ store \in [Turns -> Points \cup {Absent}]
  /\ stage \in [Turns -> Stages]
  /\ attempt \in [Turns -> 0..Attempts]
  /\ touches \in [Turns -> SUBSET TouchCommands]
  /\ promotions \in [Turns -> SUBSET Turns]
  /\ gcBatch \subseteq Turns
  /\ late \subseteq Commands
  /\ accesses \in [Turns -> Nat]
  /\ collected \subseteq Turns

(* What is written as an access count was read, plus one, by a retrieval   *)
(* that has been counted; one that is still searching will be.             *)
TouchesCounted ==
  \A t \in Turns : \A u \in touches[t] :
    u.accessCount <= accesses[u.id] + IF stage[t] = "searching" THEN 1 ELSE 0

LateCounted == \A c \in late : c.op = "touch" => c.accessCount <= accesses[c.id]

(* UpsertMemory counts its attempts from one. *)
AttemptsCounted == \A t \in Turns : stage[t] = "inserting" => attempt[t] > 0

(* An upsert of this memory is on its way although nobody waits for it. *)
LateUpsert(m) == \E c \in late : c.op = "upsert" /\ c.id = m

(* A point exists, or may still come late, only once its interaction has   *)
(* made an attempt to insert it; while it still inserts that attempt was   *)
(* not its last.                                                           *)
InsertedOnce ==
  \A m \in Turns : store[m] # Absent \/ LateUpsert(m) =>
    \/ stage[m] = "done"
    \/ stage[m] = "inserting" /\ attempt[m] > 1

(* The memories the collector has deleted, is about to or may delete. *)
Doomed(m) ==
  \/ m \in collected
  \/ m \in gcBatch
  \/ \E c \in late : c.op = "delete" /\ c.id = m
  \/ store[m] # Absent /\ store[m].old

(* Nobody inserts these any more. *)
Settled == \A m \in Turns : Doomed(m) => stage[m] = "done" /\ ~LateUpsert(m)

(* The inductive invariant. *)
IInv == /\ Typed
        /\ CountNeverExceedsAccesses
        /\ TouchesCounted
        /\ LateCounted
        /\ AttemptsCounted
        /\ InsertedOnce
        /\ Settled
        /\ CollectedIsGone

-----------------------------------------------------------------------------
(* Points.                                                                 *)

(* The point an interaction inserts is not accessed and not old. *)
LEMMA FreshType ==
  ASSUME NEW t \in Turns
  PROVE  /\ Fresh(t) \in Points
         /\ Fresh(t) # Absent
         /\ Fresh(t).accessCount = 0
         /\ Fresh(t).old = FALSE
<1>1. OwnLevel(t) \in 1..3
      BY LifecycleAssumption DEF OwnLevel, TargetLevel
<1>2. (OwnLevel(t) >= 3) \in BOOLEAN
      OBVIOUS
<1>3. Fresh(t) \in Points
      BY <1>1, <1>2 DEF Fresh, Points
<1> QED
    BY <1>3, LifecycleAssumption DEF Fresh, Points

(* A promotion raises the level and changes nothing the collector asks. *)
LEMMA PromotedType ==
  ASSUME NEW p \in Points
  PROVE  /\ Promoted(p) \in Points
         /\ Promoted(p).accessCount = p.accessCount
         /\ Promoted(p).old = p.old
         /\ Promoted(p).level = 3
<1>1. PICK l \in 1..3, b \in BOOLEAN, n \in Nat, o \in BOOLEAN :
        p = [level |-> l, isPseudopermanent |-> b, accessCount |-> n, old |-> o]
      BY DEF Points
<1>2. Promoted(p) = [level |-> 3, isPseudopermanent |-> TRUE, accessCount |-> n, old |-> o]
  <2>1. [p EXCEPT !.level = 3]
          = [level |-> 3, isPseudopermanent |-> b, accessCount |-> n, old |-> o]
        BY <1>1
  <2>2. Promoted(p) = [[p EXCEPT !.level = 3] EXCEPT !.isPseudopermanent = TRUE]
        BY Zenon DEF Promoted
  <2> QED
      BY <2>1, <2>2
<1>3. Promoted(p) \in Points
      BY <1>2 DEF Points
<1> QED
    BY <1>1, <1>2, <1>3

(* What a command can make of a point that is there.  Only a deletion      *)
(* removes it, only an upsert replaces it.                                 *)
LEMMA AfterPoint ==
  ASSUME NEW c \in Commands, NEW p \in Points
  PROVE  /\ c.op = "delete" => After(c, p) = Absent
         /\ c.op # "delete" => After(c, p) \in Points
         /\ c.op = "upsert" => After(c, p) = Fresh(c.id)
         /\ c.op = "touch" => /\ After(c, p).accessCount = c.accessCount
                              /\ After(c, p).old = p.old
                              /\ After(c, p).level = p.level
         /\ c.op = "promote" => /\ After(c, p).accessCount = p.accessCount
                                /\ After(c, p).old = p.old
                                /\ After(c, p).level = 3
<1>1. c.op \in {"touch", "promote", "upsert", "delete"} /\ c.id \in Turns /\ c.accessCount \in Nat
      BY DEF Commands
<1>2. p # Absent
      BY LifecycleAssumption
<1>3. CASE c.op = "upsert"
      BY <1>3, FreshType, <1>1 DEF After
<1>4. CASE c.op = "delete"
      BY <1>4 DEF After
<1>5. CASE c.op = "promote"
  <2>1. After(c, p) = Promoted(p)
        BY <1>2, <1>5 DEF After
  <2> QED
      BY <1>5, <2>1, PromotedType
<1>6. CASE c.op = "touch"
  <2>1. After(c, p) = [p EXCEPT !.accessCount = c.accessCount]
        BY <1>2, <1>6 DEF After
  <2> QED
      BY <1>1, <1>6, <2>1 DEF Points
<1> QED
    BY <1>1, <1>3, <1>4, <1>5, <1>6

(* Only an upsert brings a point back. *)
LEMMA AfterAbsent ==
  ASSUME NEW c \in Commands
  PROVE  /\ c.op # "upsert" => After(c, Absent) = Absent
         /\ c.op = "upsert" => After(c, Absent) = Fresh(c.id) /\ Fresh(c.id) \in Points
<1>1. c.id \in Turns
      BY DEF Commands
<1> QED
    BY <1>1, FreshType DEF After

LEMMA AfterType ==
  ASSUME NEW c \in Commands, NEW p \in Points \cup {Absent}
  PROVE  After(c, p) \in Points \cup {Absent}
  BY AfterPoint, AfterAbsent

(* A command changes its own point only. *)
LEMMA ExecutedType ==
  ASSUME Typed, NEW c \in Commands
  PROVE  /\ Executed(c) \in [Turns -> Points \cup {Absent}]
         /\ \A m \in Turns :
              Executed(c)[m] = IF m = c.id THEN After(c, store[m]) ELSE store[m]
<1>1. c.id \in Turns
      BY DEF Commands
<1>2. store[c.id] \in Points \cup {Absent}
      BY <1>1 DEF Typed
<1>3. After(c, store[c.id]) \in Points \cup {Absent}
      BY <1>2, AfterType
<1>4. Executed(c) = [store EXCEPT ![c.id] = After(c, store[c.id])]
      BY DEF Executed
<1> QED
    BY <1>1, <1>3, <1>4 DEF Typed

(* A point that has grown old is still the same point. *)
LEMMA AgedType ==
  ASSUME NEW p \in Points
  PROVE  LET q == [p EXCEPT !.old = TRUE]
         IN /\ q \in Points
            /\ q.accessCount = p.accessCount
            /\ q.old = TRUE
            /\ q.level = p.level
  BY DEF Points

LEMMA CommandType ==
  ASSUME NEW op \in {"touch", "promote", "upsert", "delete"}, NEW m \in Turns, NEW n \in Nat
  PROVE  /\ Command(op, m, n) \in Commands
         /\ Command(op, m, n).op = op
         /\ Command(op, m, n).id = m
         /\ Command(op, m, n).accessCount = n
  BY DEF Command, Commands

-----------------------------------------------------------------------------
(* The commands that are on their way in a step.                           *)

Sent(c) ==
  \/ c \in late
  \/ \E t \in Turns : c \in touches[t] /\ stage[t] # "searching"
  \/ c.op = "promote"
  \/ \E m \in Turns : c = Command("upsert", m, 0) /\ (Upsert(m) \/ UpsertUnanswered(m))

OneCommand ==
  \E c \in Commands :
    /\ Sent(c)
    /\ store' = store \/ store' = Executed(c)
    /\ late' = late \/ late' = late \cup {c} \/ late' = late \ {c}

ABatch ==
  /\ store' = store \/ store' = WithoutBatch
  /\ late' = late \/ late' = late \cup {Command("delete", m, 0) : m \in gcBatch}

(* A step sends one command, deletes a page of points, lets them grow old, *)
(* or leaves Qdrant alone.                                                 *)
LEMMA QdrantStep ==
  ASSUME Typed, [Next]_vars
  PROVE  \/ store' = store /\ late' = late
         \/ OneCommand
         \/ ABatch
         \/ Age
<1>1. ASSUME NEW t \in Turns, NEW u \in touches[t], NextTouch(t, u),
             \/ store' = Executed(u) /\ late' = late
             \/ Unanswered(u)
      PROVE  OneCommand
  <2>1. u \in Commands
        BY DEF Typed, TouchCommands
  <2>2. Sent(u)
        BY <1>1 DEF Sent, NextTouch
  <2> QED
      BY <1>1, <2>1, <2>2 DEF OneCommand, Unanswered
<1>2. ASSUME NEW t \in Turns, WriteTouch(t) \/ TouchUnanswered(t) PROVE OneCommand
      BY <1>1, <1>2 DEF WriteTouch, TouchUnanswered
<1>3. ASSUME NEW t \in Turns, PromoteOne(t) \/ PromoteUnanswered(t) PROVE OneCommand
  <2>1. PICK m \in promotions[t] :
          \/ store' = Executed(Command("promote", m, 0)) /\ late' = late
          \/ Unanswered(Command("promote", m, 0))
        BY <1>3 DEF PromoteOne, PromoteUnanswered
  <2>2. m \in Turns
        BY DEF Typed
  <2>3. Command("promote", m, 0) \in Commands /\ Command("promote", m, 0).op = "promote"
        BY <2>2, CommandType
  <2>4. Sent(Command("promote", m, 0))
        BY <2>3 DEF Sent
  <2> QED
      BY <2>1, <2>3, <2>4 DEF OneCommand, Unanswered
<1>4. ASSUME NEW t \in Turns, Upsert(t) \/ UpsertUnanswered(t) PROVE OneCommand
  <2>1. Command("upsert", t, 0) \in Commands
        BY CommandType
  <2>2. Sent(Command("upsert", t, 0))
        BY <1>4, Zenon DEF Sent
  <2>3. \/ store' = Executed(Command("upsert", t, 0)) /\ late' = late
        \/ Unanswered(Command("upsert", t, 0))
        BY <1>4 DEF Upsert, UpsertUnanswered
  <2> QED
      BY <2>1, <2>2, <2>3 DEF OneCommand, Unanswered
<1>5. ASSUME NEW c \in late, LateCommand(c) PROVE OneCommand
  <2>1. c \in Commands /\ Sent(c)
        BY DEF Typed, Sent
  <2> QED
      BY <1>5, <2>1 DEF OneCommand, LateCommand
<1>6. ASSUME DeletePoints \/ DeleteUnanswered PROVE ABatch
      BY <1>6 DEF DeletePoints, DeleteUnanswered, ABatch
<1>7. \/ UNCHANGED <<store, late>>
      \/ \E t \in Turns : \/ WriteTouch(t) \/ TouchUnanswered(t)
                          \/ PromoteOne(t) \/ PromoteUnanswered(t)
                          \/ Upsert(t) \/ UpsertUnanswered(t)
      \/ \E c \in late : LateCommand(c)
      \/ DeletePoints \/ DeleteUnanswered \/ Age
      BY Zenon DEF Next, TurnStep, Search, Retrieve, RetrieveFails, Abandon, ScanL2,
         PromotionsDone, Decide, ScrollStale, vars
<1> QED
    BY <1>2, <1>3, <1>4, <1>5, <1>6, <1>7

(* What may happen to a point in a step, and to the set of late commands.  *)
Deleted(m) == m \in gcBatch /\ store'[m] = Absent
Aged(m) == /\ Age /\ store[m] # Absent
           /\ store'[m] = [store[m] EXCEPT !.old = TRUE]
Hit(m) == \E c \in Commands : c.id = m /\ Sent(c) /\ store'[m] = After(c, store[m])

LEMMA PointStep ==
  ASSUME Typed, [Next]_vars, NEW m \in Turns
  PROVE  store'[m] = store[m] \/ Hit(m) \/ Deleted(m) \/ Aged(m)
<1>1. CASE store' = store
      BY <1>1
<1>2. CASE OneCommand
  <2>1. PICK c \in Commands : Sent(c) /\ (store' = store \/ store' = Executed(c))
        BY <1>2 DEF OneCommand
  <2>2. store'[m] = store[m] \/ (m = c.id /\ store'[m] = After(c, store[m]))
        BY <2>1, ExecutedType
  <2> QED
      BY <2>1, <2>2 DEF Hit
<1>3. CASE ABatch
      BY <1>3 DEF ABatch, WithoutBatch, Deleted
<1>4. CASE Age
      BY <1>4 DEF Age, Aged, Stored
<1> QED
    BY <1>1, <1>2, <1>3, <1>4, QdrantStep

LEMMA LateStep ==
  ASSUME Typed, [Next]_vars, NEW c \in late'
  PROVE  /\ c \in Commands
         /\ \/ Sent(c)
            \/ \E m \in gcBatch : c = Command("delete", m, 0)
<1>1. CASE late' = late
      BY <1>1 DEF Typed, Sent
<1>2. CASE OneCommand
  <2>1. PICK d \in Commands :
          Sent(d) /\ (late' = late \/ late' = late \cup {d} \/ late' = late \ {d})
        BY <1>2 DEF OneCommand
  <2>2. c \in late \/ c = d
        BY <2>1
  <2>3. CASE c \in late
        BY <2>3 DEF Typed, Sent
  <2>4. CASE c = d
        BY <2>1, <2>4
  <2> QED
      BY <2>2, <2>3, <2>4
<1>3. CASE ABatch
  <2>1. c \in late \/ \E m \in gcBatch : c = Command("delete", m, 0)
        BY <1>3 DEF ABatch
  <2>2. CASE c \in late
        BY <2>2 DEF Typed, Sent
  <2>3. CASE \E m \in gcBatch : c = Command("delete", m, 0)
        BY <2>3, CommandType DEF Typed
  <2> QED
      BY <2>1, <2>2, <2>3
<1>4. CASE Age
      BY <1>1, <1>4 DEF Age
<1> QED
    BY <1>1, <1>2, <1>3, <1>4, QdrantStep

-----------------------------------------------------------------------------
(* Types.                                                                  *)

(* The store and the commands keep their types: no write makes a point of  *)
(* another shape.                                                          *)
LEMMA StoreTypedStep ==
  ASSUME Typed, [Next]_vars
  PROVE  store' \in [Turns -> Points \cup {Absent}] /\ late' \subseteq Commands
<1>1. late' \subseteq Commands
      BY LateStep
<1>2. CASE store' = store
      BY <1>1, <1>2 DEF Typed
<1>3. CASE OneCommand
      BY <1>1, <1>3, ExecutedType DEF OneCommand, Typed
<1>4. CASE ABatch
      BY <1>1, <1>4 DEF ABatch, WithoutBatch, Typed
<1>5. CASE Age
  <2>1. ASSUME NEW m \in Stored PROVE [store[m] EXCEPT !.old = TRUE] \in Points
    <3>1. store[m] \in Points
          BY DEF Stored, Typed
    <3> QED
        BY <3>1, AgedType
  <2> QED
      BY <1>1, <1>5, <2>1 DEF Age, Typed
<1>6. store' \in [Turns -> Points \cup {Absent}]
      BY <1>1, <1>2, <1>3, <1>4, <1>5, QdrantStep
<1> QED
    BY <1>1, <1>6

(* What a search finds is stored, and the count it has read plus one is a  *)
(* count.                                                                  *)
LEMMA FoundType ==
  ASSUME Typed, NEW hits \in SUBSET Stored
  PROVE  /\ Found(hits) \subseteq TouchCommands
         /\ \A u \in Found(hits) :
              u.id \in Stored /\ u.accessCount = store[u.id].accessCount + 1
<1>1. ASSUME NEW u \in Found(hits)
      PROVE  /\ u \in TouchCommands
             /\ u.id \in Stored /\ u.accessCount = store[u.id].accessCount + 1
  <2>1. PICK m \in hits : u = Command("touch", m, store[m].accessCount + 1)
        BY DEF Found
  <2>2. m \in Turns /\ store[m].accessCount \in Nat
        BY DEF Stored, Typed, Points
  <2> QED
      BY <2>1, <2>2, CommandType DEF TouchCommands
<1> QED
    BY <1>1

LEMMA MergeSubset == \A weak, strong : Merge(weak, strong) \subseteq weak \cup strong
  BY DEF Merge

(* How the updates that wait to be written, the stages and the accesses    *)
(* change.                                                                 *)
LEMMA TouchesStep ==
  ASSUME Typed, [Next]_vars
  PROVE  \/ /\ touches' \in [Turns -> SUBSET TouchCommands]
            /\ accesses' = accesses
            /\ \A t \in Turns : \A u \in touches'[t] :
                 u \in touches[t] /\ (stage[t] = "searching" => stage'[t] = "searching")
         \/ \E t \in Turns : Search(t) \/ Retrieve(t)
<1> USE DEF Typed
<1>1. ASSUME NEW t \in Turns, WriteTouch(t) \/ TouchUnanswered(t)
      PROVE  /\ touches' \in [Turns -> SUBSET TouchCommands]
             /\ \A s \in Turns : touches'[s] \subseteq touches[s]
             /\ UNCHANGED <<stage, accesses>>
  <2>1. \/ touches' = touches
        \/ touches' = [touches EXCEPT ![t] = {}]
        \/ \E u \in touches[t] : touches' = [touches EXCEPT ![t] = touches[t] \ {u}]
        BY <1>1 DEF WriteTouch, TouchUnanswered
  <2>2. UNCHANGED <<stage, accesses>>
        BY <1>1, Zenon DEF WriteTouch, TouchUnanswered
  <2> QED
      BY <2>1, <2>2
<1>2. ASSUME NEW t \in Turns, RetrieveFails(t)
      PROVE  /\ touches' \in [Turns -> SUBSET TouchCommands]
             /\ accesses' = accesses
             /\ touches'[t] = {}
             /\ \A s \in Turns \ {t} : touches'[s] = touches[s] /\ stage'[s] = stage[s]
      BY <1>2 DEF RetrieveFails
<1>3. ASSUME NEW t \in Turns, Abandon(t) \/ ScanL2(t) \/ PromotionsDone(t) \/ Decide(t)
                              \/ Upsert(t) \/ UpsertUnanswered(t)
      PROVE  /\ UNCHANGED <<touches, accesses>>
             /\ \A s \in Turns : stage[s] = "searching" => stage'[s] = "searching"
      BY <1>3 DEF Abandon, ScanL2, PromotionsDone, Decide, Upsert, UpsertUnanswered
<1>4. \/ UNCHANGED <<touches, stage, accesses>>
      \/ \E t \in Turns : \/ WriteTouch(t) \/ TouchUnanswered(t) \/ RetrieveFails(t)
                          \/ Abandon(t) \/ ScanL2(t) \/ PromotionsDone(t) \/ Decide(t)
                          \/ Upsert(t) \/ UpsertUnanswered(t) \/ Search(t) \/ Retrieve(t)
      BY Zenon DEF Next, TurnStep, PromoteOne, PromoteUnanswered, LateCommand, ScrollStale,
         DeletePoints, DeleteUnanswered, Age, vars
<1>5. ASSUME NEW t \in Turns, \/ WriteTouch(t) \/ TouchUnanswered(t) \/ RetrieveFails(t)
                              \/ Abandon(t) \/ ScanL2(t) \/ PromotionsDone(t) \/ Decide(t)
                              \/ Upsert(t) \/ UpsertUnanswered(t)
      PROVE  /\ touches' \in [Turns -> SUBSET TouchCommands]
             /\ accesses' = accesses
             /\ \A s \in Turns : \A u \in touches'[s] :
                  u \in touches[s] /\ (stage[s] = "searching" => stage'[s] = "searching")
  <2>1. CASE WriteTouch(t) \/ TouchUnanswered(t)
        BY <1>1, <2>1
  <2>2. CASE RetrieveFails(t)
        BY <1>2, <2>2
  <2>3. CASE \/ Abandon(t) \/ ScanL2(t) \/ PromotionsDone(t) \/ Decide(t)
             \/ Upsert(t) \/ UpsertUnanswered(t)
        BY <1>3, <2>3
  <2> QED
      BY <1>5, <2>1, <2>2, <2>3
<1>6. CASE UNCHANGED <<touches, stage, accesses>>
      BY <1>6
<1> QED
    BY <1>4, <1>5, <1>6

(* Both searches of an interaction, in one form. *)
LEMMA SearchStep ==
  ASSUME Typed, NEW t \in Turns, Search(t) \/ Retrieve(t)
  PROVE  \E hits \in SUBSET Stored, merged \in SUBSET TouchCommands :
           /\ merged \subseteq Found(hits) \cup touches[t]
           /\ touches' = [touches EXCEPT ![t] = merged]
           /\ Search(t) => merged = Found(hits) /\ accesses' = accesses
                           /\ stage' = [stage EXCEPT ![t] = "searching"]
           /\ Retrieve(t) =>
                /\ stage[t] = "searching" /\ stage' = [stage EXCEPT ![t] = "retrieved"]
                /\ accesses' = [m \in Turns |->
                                  accesses[m] + IF \E u \in merged : u.id = m THEN 1 ELSE 0]
<1>1. CASE Search(t)
  <2>1. PICK hits \in SUBSET Stored : touches' = [touches EXCEPT ![t] = Found(hits)]
        BY <1>1 DEF Search
  <2>2. ~Retrieve(t)
        BY <1>1 DEF Search, Retrieve
  <2>3. accesses' = accesses /\ stage' = [stage EXCEPT ![t] = "searching"]
        BY <1>1 DEF Search
  <2>4. Found(hits) \in SUBSET TouchCommands /\ Found(hits) \subseteq Found(hits) \cup touches[t]
        BY FoundType
  <2> HIDE DEF Search, Retrieve, Found
  <2> QED
      BY <2>1, <2>2, <2>3, <2>4
<1>2. CASE Retrieve(t)
  <2>1. PICK hits \in SUBSET Stored :
          \E merged \in {Merge(touches[t], Found(hits)), Merge(Found(hits), touches[t])} :
            /\ touches' = [touches EXCEPT ![t] = merged]
            /\ accesses' = [m \in Turns |->
                              accesses[m] + IF \E u \in merged : u.id = m THEN 1 ELSE 0]
        BY <1>2 DEF Retrieve
  <2>2. PICK merged \in {Merge(touches[t], Found(hits)), Merge(Found(hits), touches[t])} :
            /\ touches' = [touches EXCEPT ![t] = merged]
            /\ accesses' = [m \in Turns |->
                              accesses[m] + IF \E u \in merged : u.id = m THEN 1 ELSE 0]
        BY <2>1
  <2>3. merged \subseteq Found(hits) \cup touches[t] /\ merged \in SUBSET TouchCommands
        BY MergeSubset, FoundType DEF Typed
  <2>4. ~Search(t)
        BY <1>2 DEF Search, Retrieve
  <2>5. stage[t] = "searching" /\ stage' = [stage EXCEPT ![t] = "retrieved"]
        BY <1>2 DEF Retrieve
  <2> QED
      BY <2>2, <2>3, <2>4, <2>5
<1> QED
    BY <1>1, <1>2

(* Every step keeps the variables in their sets. *)
LEMMA TypedStep == Typed /\ [Next]_vars => Typed'
<1> SUFFICES ASSUME Typed, [Next]_vars PROVE Typed'
    OBVIOUS
<1> USE LifecycleAssumption
<1>1. store' \in [Turns -> Points \cup {Absent}] /\ late' \subseteq Commands
      BY StoreTypedStep
<1>2. touches' \in [Turns -> SUBSET TouchCommands] /\ accesses' \in [Turns -> Nat]
  <2>1. ASSUME NEW t \in Turns, Search(t) \/ Retrieve(t)
        PROVE  touches' \in [Turns -> SUBSET TouchCommands] /\ accesses' \in [Turns -> Nat]
    <3>1. PICK hits \in SUBSET Stored, merged \in SUBSET TouchCommands :
            /\ touches' = [touches EXCEPT ![t] = merged]
            /\ \/ accesses' = accesses
               \/ accesses' = [m \in Turns |->
                                 accesses[m] + IF \E u \in merged : u.id = m THEN 1 ELSE 0]
          BY <2>1, SearchStep
    <3>3. touches' \in [Turns -> SUBSET TouchCommands]
          BY <3>1 DEF Typed
    <3>4. accesses' \in [Turns -> Nat]
          BY <3>1 DEF Typed
    <3> QED
        BY <3>3, <3>4
  <2>2. accesses' = accesses => accesses' \in [Turns -> Nat]
        BY DEF Typed
  <2> QED
      BY <2>1, <2>2, TouchesStep
<1>3. stage' \in [Turns -> Stages] /\ attempt' \in [Turns -> 0..Attempts]
  <2>1. ASSUME NEW t \in Turns, Search(t) \/ Retrieve(t) \/ RetrieveFails(t) \/ Abandon(t)
                                \/ ScanL2(t) \/ PromotionsDone(t)
        PROVE  stage' \in [Turns -> Stages] /\ attempt' \in [Turns -> 0..Attempts]
    <3>1. UNCHANGED attempt
          BY <2>1 DEF Search, Retrieve, RetrieveFails, Abandon, ScanL2, PromotionsDone
    <3>2. \E s \in Stages : stage' = [stage EXCEPT ![t] = s]
          BY <2>1 DEF Search, Retrieve, RetrieveFails, Abandon, ScanL2, PromotionsDone, Stages
    <3> QED
        BY <3>1, <3>2 DEF Typed
  <2>2. ASSUME NEW t \in Turns, Decide(t) \/ Upsert(t) \/ UpsertUnanswered(t)
        PROVE  stage' \in [Turns -> Stages] /\ attempt' \in [Turns -> 0..Attempts]
        BY <2>2 DEF Decide, Upsert, UpsertUnanswered, Typed, Stages
  <2>3. \/ UNCHANGED <<stage, attempt>>
        \/ \E t \in Turns : \/ Search(t) \/ Retrieve(t) \/ RetrieveFails(t) \/ Abandon(t)
                            \/ ScanL2(t) \/ PromotionsDone(t)
                            \/ Decide(t) \/ Upsert(t) \/ UpsertUnanswered(t)
        BY Zenon DEF Next, TurnStep, WriteTouch, TouchUnanswered, PromoteOne,
           PromoteUnanswered, LateCommand, ScrollStale, DeletePoints, DeleteUnanswered,
           Age, vars
  <2>4. CASE UNCHANGED <<stage, attempt>>
        BY <2>4 DEF Typed
  <2> QED
      BY <2>1, <2>2, <2>3, <2>4
<1>4. promotions' \in [Turns -> SUBSET Turns]
  <2>1. ASSUME NEW t \in Turns, ScanL2(t) \/ PromoteOne(t) \/ PromoteUnanswered(t)
        PROVE  \/ promotions' = promotions
               \/ \E P \in SUBSET Turns : promotions' = [promotions EXCEPT ![t] = P]
    <3>1. PromotedFromL2 \subseteq Turns
          BY DEF PromotedFromL2, L2, Stored
    <3>2. CASE ScanL2(t)
          BY <3>1, <3>2 DEF ScanL2
    <3>3. CASE PromoteOne(t) \/ PromoteUnanswered(t)
      <4>1. PICK m \in promotions[t] : \/ promotions' = promotions
                    \/ promotions' = [promotions EXCEPT ![t] = promotions[t] \ {m}]
            BY <3>3 DEF PromoteOne, PromoteUnanswered
      <4> QED
          BY <4>1 DEF Typed
    <3> QED
        BY <2>1, <3>2, <3>3
  <2>2. \/ UNCHANGED promotions
        \/ \E t \in Turns : ScanL2(t) \/ PromoteOne(t) \/ PromoteUnanswered(t)
        BY Zenon DEF Next, TurnStep, Search, Retrieve, RetrieveFails, WriteTouch,
           TouchUnanswered, Abandon, PromotionsDone, Decide, Upsert, UpsertUnanswered,
           LateCommand, ScrollStale, DeletePoints, DeleteUnanswered, Age, vars
  <2> QED
      BY <2>1, <2>2 DEF Typed
<1>5. gcBatch' \subseteq Turns
  <2>1. gcBatch' = gcBatch \/ gcBatch' = {} \/ ScrollStale
        BY Zenon DEF Next, TurnStep, Search, Retrieve, RetrieveFails, WriteTouch,
           TouchUnanswered, Abandon, ScanL2, PromoteOne, PromoteUnanswered, PromotionsDone,
           Decide, Upsert, UpsertUnanswered, LateCommand, DeletePoints, DeleteUnanswered,
           Age, vars
  <2> QED
      BY <2>1 DEF ScrollStale, Stale, L2, Stored, Typed
<1>6. collected' \subseteq Turns
  <2>1. UNCHANGED collected \/ Collect
        BY Zenon DEF Next, TurnStep, Search, Retrieve, RetrieveFails, WriteTouch,
           TouchUnanswered, Abandon, ScanL2, PromoteOne, PromoteUnanswered, PromotionsDone,
           Decide, Upsert, UpsertUnanswered, LateCommand, ScrollStale, DeletePoints,
           DeleteUnanswered, Age, vars
  <2> QED
      BY <2>1 DEF Collect, Stored, Typed
<1> QED
    BY <1>1, <1>2, <1>3, <1>4, <1>5, <1>6 DEF Typed

-----------------------------------------------------------------------------
(* Stages and access counts.                                               *)

(* Interactions only move forward: the attempts of an upsert are counted   *)
(* up, and one that is over stays over.                                    *)
LEMMA StageStep ==
  ASSUME Typed, AttemptsCounted, [Next]_vars
  PROVE  /\ AttemptsCounted'
         /\ \A m \in Turns : stage[m] = "done" => stage'[m] = "done"
         /\ \A m \in Turns : stage[m] = "inserting" =>
              \/ stage'[m] = "done"
              \/ stage'[m] = "inserting" /\ attempt'[m] >= attempt[m]
<1> DEFINE Goal == /\ AttemptsCounted'
                   /\ \A m \in Turns : stage[m] = "done" => stage'[m] = "done"
                   /\ \A m \in Turns : stage[m] = "inserting" =>
                        \/ stage'[m] = "done"
                        \/ stage'[m] = "inserting" /\ attempt'[m] >= attempt[m]
<1> USE LifecycleAssumption DEF AttemptsCounted, Typed, Stages
<1>1. ASSUME UNCHANGED <<stage, attempt>> PROVE Goal
      BY <1>1
<1>2. ASSUME NEW t \in Turns, Search(t) \/ Retrieve(t) \/ RetrieveFails(t)
      PROVE  Goal
      BY <1>2 DEF Search, Retrieve, RetrieveFails
<1>3. ASSUME NEW t \in Turns, Abandon(t) \/ ScanL2(t) \/ PromotionsDone(t)
      PROVE  Goal
      BY <1>3 DEF Abandon, ScanL2, PromotionsDone
<1>4. ASSUME NEW t \in Turns, Decide(t) PROVE Goal
      BY <1>4 DEF Decide
<1>5. ASSUME NEW t \in Turns, Upsert(t) \/ UpsertUnanswered(t) PROVE Goal
      BY <1>5 DEF Upsert, UpsertUnanswered
<1>6. \/ UNCHANGED <<stage, attempt>>
      \/ \E t \in Turns : \/ Search(t) \/ Retrieve(t) \/ RetrieveFails(t) \/ Abandon(t)
                          \/ ScanL2(t) \/ PromotionsDone(t)
                          \/ Decide(t) \/ Upsert(t) \/ UpsertUnanswered(t)
      BY Zenon DEF Next, TurnStep, WriteTouch, TouchUnanswered, PromoteOne,
         PromoteUnanswered, LateCommand, ScrollStale, DeletePoints, DeleteUnanswered,
         Age, vars
<1> QED
    BY <1>1, <1>2, <1>3, <1>4, <1>5, <1>6

(* Retrievals are counted and never uncounted. *)
LEMMA AccessesGrow ==
  ASSUME Typed, [Next]_vars
  PROVE  \A m \in Turns : accesses'[m] >= accesses[m]
<1>1. ASSUME NEW t \in Turns, Search(t) \/ Retrieve(t)
      PROVE  \A m \in Turns : accesses'[m] >= accesses[m]
  <2>1. PICK merged \in SUBSET TouchCommands :
          \/ accesses' = accesses
          \/ accesses' = [m \in Turns |->
                            accesses[m] + IF \E u \in merged : u.id = m THEN 1 ELSE 0]
        BY <1>1, SearchStep
  <2> QED
      BY <2>1 DEF Typed
<1>2. ASSUME accesses' = accesses PROVE \A m \in Turns : accesses'[m] >= accesses[m]
      BY <1>2 DEF Typed
<1> QED
    BY <1>1, <1>2, TouchesStep

(* So a count that was justified stays justified. *)
LEMMA CountStays ==
  ASSUME Typed, Typed', [Next]_vars, NEW m \in Turns, NEW n \in Nat, n <= accesses[m]
  PROVE  n <= accesses'[m]
<1>1. accesses[m] \in Nat /\ accesses'[m] \in Nat
      BY DEF Typed
<1>2. accesses'[m] >= accesses[m]
      BY AccessesGrow
<1> QED
    BY <1>1, <1>2

(* A touch that is sent, now or late, writes a count that was accessed. *)
LEMMA SentCounted ==
  ASSUME IInv, NEW c \in Commands, Sent(c), c.op = "touch"
  PROVE  c.accessCount <= accesses[c.id]
<1>1. c \notin {Command("upsert", m, 0) : m \in Turns}
      BY CommandType
<1>2. CASE c \in late
      BY <1>2 DEF IInv, LateCounted
<1>3. CASE \E t \in Turns : c \in touches[t] /\ stage[t] # "searching"
  <2>1. accesses[c.id] \in Nat
        BY DEF Commands, IInv, Typed
  <2> QED
      BY <1>3, <2>1 DEF IInv, TouchesCounted
<1> QED
    BY <1>1, <1>2, <1>3 DEF Sent

LEMMA LateCountedStep ==
  ASSUME IInv, [Next]_vars
  PROVE  LateCounted'
<1>1. Typed /\ Typed'
      BY TypedStep DEF IInv
<1> SUFFICES ASSUME NEW c \in late', c.op = "touch" PROVE c.accessCount <= accesses'[c.id]
    BY DEF LateCounted
<1>2. c \in Commands /\ (Sent(c) \/ \E m \in gcBatch : c = Command("delete", m, 0))
      BY <1>1, LateStep
<1>3. ~ \E m \in gcBatch : c = Command("delete", m, 0)
      BY <1>1, CommandType DEF Typed
<1>4. c.accessCount <= accesses[c.id]
      BY <1>2, <1>3, SentCounted
<1>5. c.id \in Turns /\ c.accessCount \in Nat
      BY <1>2 DEF Commands
<1> QED
    BY <1>1, <1>4, <1>5, CountStays

(* The second search counts as accessed whatever the two have found. *)
LEMMA TouchesCountedStep ==
  ASSUME IInv, [Next]_vars
  PROVE  TouchesCounted'
<1> DEFINE Slack(s) == IF s = "searching" THEN 1 ELSE 0
<1>1. Typed /\ Typed'
      BY TypedStep DEF IInv
<1> SUFFICES ASSUME NEW t \in Turns, NEW u \in touches'[t]
             PROVE  u.accessCount <= accesses'[u.id] + Slack(stage'[t])
    BY DEF TouchesCounted
<1>2. u.id \in Turns /\ u.accessCount \in Nat
      BY <1>1 DEF Typed, TouchCommands, Commands
<1>3. accesses[u.id] \in Nat /\ accesses'[u.id] \in Nat /\ accesses'[u.id] >= accesses[u.id]
      BY <1>1, <1>2, AccessesGrow DEF Typed
<1>4. u \in touches[t] => u.accessCount <= accesses[u.id] + Slack(stage[t])
      BY DEF IInv, TouchesCounted
<1>5. CASE u \in touches[t] /\ (stage[t] = "searching" => stage'[t] = "searching")
      BY <1>2, <1>3, <1>4, <1>5
<1>6. ASSUME NEW s \in Turns, Search(s) \/ Retrieve(s)
      PROVE  u.accessCount <= accesses'[u.id] + Slack(stage'[t])
  <2>1. PICK hits \in SUBSET Stored, merged \in SUBSET TouchCommands :
           /\ merged \subseteq Found(hits) \cup touches[s]
           /\ touches' = [touches EXCEPT ![s] = merged]
           /\ Search(s) => merged = Found(hits) /\ accesses' = accesses
                           /\ stage' = [stage EXCEPT ![s] = "searching"]
           /\ Retrieve(s) =>
                /\ stage[s] = "searching" /\ stage' = [stage EXCEPT ![s] = "retrieved"]
                /\ accesses' = [m \in Turns |->
                                  accesses[m] + IF \E v \in merged : v.id = m THEN 1 ELSE 0]
        BY <1>1, <1>6, SearchStep
  <2>2. CASE t # s
    <3>1. u \in touches[t]
          BY <1>1, <2>1, <2>2 DEF Typed
    <3>2. stage'[t] = stage[t]
          BY <1>1, <1>6, <2>1, <2>2 DEF Typed
    <3> QED
        BY <1>5, <3>1, <3>2
  <2>3. CASE t = s
    <3>1. u \in merged
          BY <1>1, <2>1, <2>3 DEF Typed
    <3>2. u \in Found(hits) => u.accessCount <= accesses[u.id] + 1
      <4>1. ASSUME u \in Found(hits) PROVE u.accessCount <= accesses[u.id] + 1
        <5>1. u.id \in Stored /\ u.accessCount = store[u.id].accessCount + 1
              BY <1>1, <4>1, FoundType
        <5>2. store[u.id].accessCount \in Nat /\ store[u.id].accessCount <= accesses[u.id]
              BY <1>1, <5>1 DEF IInv, CountNeverExceedsAccesses, Typed, Stored, Points
        <5> QED
            BY <1>3, <5>1, <5>2
      <4> QED
          BY <4>1
    <3>3. CASE Search(s)
      <4>1. stage'[t] = "searching" /\ accesses' = accesses /\ u \in Found(hits)
            BY <1>1, <2>1, <2>3, <3>1, <3>3 DEF Typed
      <4> QED
          BY <3>2, <4>1
    <3>4. CASE Retrieve(s)
      <4>1. u.accessCount <= accesses[u.id] + 1
        <5>1. CASE u \in Found(hits)
              BY <3>2, <5>1
        <5>2. CASE u \in touches[t]
              BY <1>4, <2>1, <2>3, <3>4, <5>2
        <5> QED
            BY <2>1, <2>3, <3>1, <5>1, <5>2
      <4>2. accesses'[u.id] = accesses[u.id] + 1
            BY <1>2, <2>1, <3>1, <3>4
      <4> QED
          BY <1>2, <1>3, <4>1, <4>2
    <3> QED
        BY <1>6, <3>3, <3>4
  <2> QED
      BY <2>2, <2>3
<1> QED
    BY <1>1, <1>5, <1>6, TouchesStep

(* No write of a point makes its count exceed the accesses. *)
LEMMA CountStep ==
  ASSUME IInv, [Next]_vars
  PROVE  CountNeverExceedsAccesses'
<1>1. Typed /\ Typed' /\ CountNeverExceedsAccesses
      BY TypedStep DEF IInv
<1> SUFFICES ASSUME NEW m \in Turns, store'[m] # Absent
             PROVE  store'[m].accessCount <= accesses'[m]
    BY DEF CountNeverExceedsAccesses, Stored
<1>2. ASSUME store[m] # Absent
      PROVE  /\ store[m] \in Points /\ store[m].accessCount \in Nat
             /\ store[m].accessCount <= accesses'[m]
  <2>1. store[m] \in Points /\ store[m].accessCount \in Nat
        BY <1>1, <1>2 DEF Typed, Points
  <2>2. store[m].accessCount <= accesses[m]
        BY <1>1, <1>2 DEF CountNeverExceedsAccesses, Stored
  <2> QED
      BY <1>1, <2>1, <2>2, CountStays
<1>3. CASE store'[m] = store[m]
      BY <1>2, <1>3
<1>4. CASE Hit(m)
  <2>1. PICK c \in Commands : c.id = m /\ Sent(c) /\ store'[m] = After(c, store[m])
        BY <1>4 DEF Hit
  <2>2. c.op \in {"touch", "promote", "upsert", "delete"} /\ c.accessCount \in Nat
        BY DEF Commands
  <2>3. CASE c.op = "upsert"
    <3>1. store'[m] = Fresh(m)
          BY <2>1, <2>3 DEF After
    <3>2. accesses'[m] \in Nat /\ Fresh(m).accessCount = 0
          BY <1>1, FreshType DEF Typed
    <3> QED
        BY <3>1, <3>2
  <2>4. CASE c.op # "upsert"
    <3>1. store[m] # Absent
          BY <2>1, <2>4, AfterAbsent
    <3>2. store[m] \in Points
          BY <1>2, <3>1
    <3>3. CASE c.op = "touch"
      <4>1. store'[m].accessCount = c.accessCount
            BY <2>1, <3>2, <3>3, AfterPoint
      <4>2. c.accessCount <= accesses[m]
            BY <2>1, <3>3, SentCounted
      <4>3. c.accessCount <= accesses'[m]
            BY <1>1, <2>2, <4>2, CountStays
      <4> QED
          BY <4>1, <4>3
    <3>4. CASE c.op = "promote"
      <4>1. store'[m].accessCount = store[m].accessCount
            BY <2>1, <3>2, <3>4, AfterPoint
      <4> QED
          BY <1>2, <3>1, <4>1
    <3>5. CASE c.op = "delete"
          BY <2>1, <3>2, <3>5, AfterPoint
    <3> QED
        BY <2>2, <2>4, <3>3, <3>4, <3>5
  <2> QED
      BY <2>3, <2>4
<1>5. CASE Deleted(m)
      BY <1>5 DEF Deleted
<1>6. CASE Aged(m)
  <2>1. store[m] # Absent /\ store'[m] = [store[m] EXCEPT !.old = TRUE]
        BY <1>6 DEF Aged
  <2>2. store'[m].accessCount = store[m].accessCount
        BY <1>2, <2>1, AgedType
  <2> QED
      BY <1>2, <2>1, <2>2
<1> QED
    BY <1>1, <1>3, <1>4, <1>5, <1>6, PointStep

-----------------------------------------------------------------------------
(* Insertions and deletions.                                               *)

(* An upsert that is sent comes from its own interaction, or late. *)
LEMMA SentUpsert ==
  ASSUME Typed, NEW c \in Commands, Sent(c), c.op = "upsert"
  PROVE  LateUpsert(c.id) \/ Upsert(c.id) \/ UpsertUnanswered(c.id)
<1>1. CASE c \in late
      BY <1>1 DEF LateUpsert
<1>2. ~ \E t \in Turns : c \in touches[t] /\ stage[t] # "searching"
      BY DEF Typed, TouchCommands
<1>3. ASSUME NEW m \in Turns, c = Command("upsert", m, 0), Upsert(m) \/ UpsertUnanswered(m)
      PROVE  Upsert(c.id) \/ UpsertUnanswered(c.id)
  <2>1. c.id = m
        BY <1>3, CommandType
  <2> QED
      BY <1>3, <2>1
<1> QED
    BY <1>1, <1>2, <1>3 DEF Sent

(* A point that appears was upserted. *)
LEMMA Appears ==
  ASSUME Typed, [Next]_vars, NEW m \in Turns, store[m] = Absent, store'[m] # Absent
  PROVE  LateUpsert(m) \/ Upsert(m) \/ UpsertUnanswered(m)
<1>1. PICK c \in Commands : c.id = m /\ Sent(c) /\ store'[m] = After(c, store[m])
      BY PointStep DEF Hit, Deleted, Aged
<1>2. c.op = "upsert"
      BY <1>1, AfterAbsent
<1> QED
    BY <1>1, <1>2, SentUpsert

(* So is one that comes late. *)
LEMMA LateUpsertStep ==
  ASSUME Typed, [Next]_vars, NEW m \in Turns, LateUpsert(m)'
  PROVE  LateUpsert(m) \/ Upsert(m) \/ UpsertUnanswered(m)
<1>1. PICK c \in late' : c.op = "upsert" /\ c.id = m
      BY DEF LateUpsert
<1>2. c \in Commands /\ (Sent(c) \/ \E d \in gcBatch : c = Command("delete", d, 0))
      BY LateStep
<1>3. ~ \E d \in gcBatch : c = Command("delete", d, 0)
      BY <1>1, CommandType DEF Typed
<1> QED
    BY <1>1, <1>2, <1>3, SentUpsert

LEMMA InsertedOnceStep ==
  ASSUME IInv, [Next]_vars
  PROVE  InsertedOnce'
<1> USE LifecycleAssumption
<1>1. Typed /\ Typed' /\ AttemptsCounted
      BY TypedStep DEF IInv
<1> SUFFICES ASSUME NEW m \in Turns, store'[m] # Absent \/ LateUpsert(m)'
             PROVE  stage'[m] = "done" \/ (stage'[m] = "inserting" /\ attempt'[m] > 1)
    BY DEF InsertedOnce
<1>2. attempt[m] \in Nat /\ attempt'[m] \in Nat
      BY <1>1 DEF Typed
<1>3. CASE Upsert(m) \/ UpsertUnanswered(m)
  <2>1. stage[m] = "inserting" /\ attempt[m] > 0
        BY <1>1, <1>3 DEF Upsert, UpsertUnanswered, AttemptsCounted
  <2>2. CASE Upsert(m)
        BY <1>1, <2>2 DEF Upsert, Typed
  <2>3. CASE UpsertUnanswered(m)
        BY <1>1, <1>2, <2>1, <2>3 DEF UpsertUnanswered, Typed
  <2> QED
      BY <1>3, <2>2, <2>3
<1>4. CASE store[m] # Absent \/ LateUpsert(m)
  <2>1. stage[m] = "done" \/ (stage[m] = "inserting" /\ attempt[m] > 1)
        BY <1>4 DEF IInv, InsertedOnce
  <2>2. stage[m] = "done" => stage'[m] = "done"
        BY <1>1, StageStep
  <2>3. stage[m] = "inserting" =>
          stage'[m] = "done" \/ (stage'[m] = "inserting" /\ attempt'[m] >= attempt[m])
        BY <1>1, StageStep
  <2> QED
      BY <1>2, <2>1, <2>2, <2>3
<1> QED
    BY <1>1, <1>3, <1>4, Appears, LateUpsertStep

(* A point that disappears was doomed: the collector's page, or a deletion *)
(* that was given up, names it.                                            *)
LEMMA Disappears ==
  ASSUME Typed, [Next]_vars, NEW m \in Turns, store[m] # Absent, store'[m] = Absent
  PROVE  Doomed(m)
<1>1. store[m] \in Points /\ Absent \notin Points
      BY LifecycleAssumption DEF Typed
<1>2. ~Aged(m)
      BY <1>1, AgedType DEF Aged
<1>3. ASSUME Hit(m) PROVE Doomed(m)
  <2>1. PICK c \in Commands : c.id = m /\ Sent(c) /\ store'[m] = After(c, store[m])
        BY <1>3 DEF Hit
  <2>2. c.op = "delete"
        BY <1>1, <2>1, AfterPoint
  <2>3. c \notin {Command("upsert", d, 0) : d \in Turns}
        BY <2>2, CommandType
  <2>4. ~ \E t \in Turns : c \in touches[t] /\ stage[t] # "searching"
        BY <2>2 DEF Typed, TouchCommands
  <2>5. c \in late
        BY <2>1, <2>2, <2>3, <2>4 DEF Sent
  <2> QED
      BY <2>1, <2>2, <2>5 DEF Doomed
<1>4. ASSUME Deleted(m) PROVE Doomed(m)
      BY <1>4 DEF Deleted, Doomed
<1> QED
    BY <1>2, <1>3, <1>4, PointStep

LEMMA CollectedStep ==
  ASSUME [Next]_vars, NEW m \in collected'
  PROVE  m \in collected \/ (m \in Stored /\ store'[m] = Absent)
<1>1. UNCHANGED collected \/ Collect
      BY Zenon DEF Next, TurnStep, Search, Retrieve, RetrieveFails, WriteTouch,
         TouchUnanswered, Abandon, ScanL2, PromoteOne, PromoteUnanswered, PromotionsDone,
         Decide, Upsert, UpsertUnanswered, LateCommand, ScrollStale, DeletePoints,
         DeleteUnanswered, Age, vars
<1> QED
    BY <1>1 DEF Collect

(* A memory becomes doomed only by growing old. *)
LEMMA DoomedStep ==
  ASSUME Typed, [Next]_vars, NEW m \in Turns, Doomed(m)'
  PROVE  Doomed(m) \/ (Age /\ store[m] # Absent)
<1>1. CASE m \in collected'
      BY <1>1, CollectedStep, Disappears DEF Doomed, Stored
<1>2. CASE m \in gcBatch'
  <2>1. gcBatch' = gcBatch \/ gcBatch' = {} \/ ScrollStale
        BY Zenon DEF Next, TurnStep, Search, Retrieve, RetrieveFails, WriteTouch,
           TouchUnanswered, Abandon, ScanL2, PromoteOne, PromoteUnanswered, PromotionsDone,
           Decide, Upsert, UpsertUnanswered, LateCommand, DeletePoints, DeleteUnanswered,
           Age, vars
  <2>2. ScrollStale => m \in Stale
        BY <1>2 DEF ScrollStale
  <2> QED
      BY <1>2, <2>1, <2>2 DEF Doomed, Stale, L2, Stored
<1>3. ASSUME NEW c \in late', c.op = "delete", c.id = m PROVE Doomed(m)
  <2>1. c \in Commands /\ (Sent(c) \/ \E d \in gcBatch : c = Command("delete", d, 0))
        BY LateStep
  <2>2. ASSUME NEW d \in gcBatch, c = Command("delete", d, 0) PROVE Doomed(m)
    <3>1. d = m
          BY <1>3, <2>2, CommandType DEF Typed
    <3> QED
        BY <3>1 DEF Doomed
  <2>3. ASSUME Sent(c) PROVE c \in late
    <3>1. c \notin {Command("upsert", d, 0) : d \in Turns}
          BY <1>3, CommandType
    <3>2. ~ \E t \in Turns : c \in touches[t] /\ stage[t] # "searching"
          BY <1>3 DEF Typed, TouchCommands
    <3> QED
        BY <1>3, <2>3, <3>1, <3>2 DEF Sent
  <2> QED
      BY <1>3, <2>1, <2>2, <2>3 DEF Doomed
<1>4. ASSUME store'[m] # Absent, store'[m].old
      PROVE  Doomed(m) \/ (Age /\ store[m] # Absent)
  <2>1. store[m] \in Points \cup {Absent}
        BY DEF Typed
  <2>2. ASSUME Hit(m) PROVE store[m] # Absent /\ store[m].old
    <3>1. PICK c \in Commands : c.id = m /\ Sent(c) /\ store'[m] = After(c, store[m])
          BY <2>2 DEF Hit
    <3>2. c.op # "upsert"
      <4>1. c.op = "upsert" => store'[m] = Fresh(m)
            BY <3>1 DEF After
      <4> QED
          BY <1>4, <4>1, FreshType
    <3>3. store[m] \in Points
          BY <1>4, <2>1, <3>1, <3>2, AfterAbsent
    <3>4. c.op \in {"touch", "promote", "upsert", "delete"}
          BY DEF Commands
    <3>5. c.op # "delete"
          BY <1>4, <3>1, <3>3, AfterPoint
    <3>6. After(c, store[m]).old = store[m].old
          BY <3>2, <3>3, <3>4, <3>5, AfterPoint
    <3> QED
        BY <1>4, <3>1, <3>3, <3>6, LifecycleAssumption
  <2> QED
      BY <1>4, <2>2, PointStep DEF Doomed, Deleted, Aged
<1> QED
    BY <1>1, <1>2, <1>3, <1>4 DEF Doomed

(* Points are inserted by their own interaction only, before it is over;   *)
(* they grow old, and are picked by the collector, after that.             *)
LEMMA SettledStep ==
  ASSUME IInv, [Next]_vars
  PROVE  Settled'
<1>1. Typed /\ AttemptsCounted
      BY DEF IInv
<1> SUFFICES ASSUME NEW m \in Turns, Doomed(m)'
             PROVE  stage'[m] = "done" /\ ~LateUpsert(m)'
    BY DEF Settled
<1>2. stage[m] = "done" /\ ~LateUpsert(m)
  <2>1. CASE Doomed(m)
        BY <2>1 DEF IInv, Settled
  <2>2. CASE Age /\ store[m] # Absent
    <3>1. stage[m] \in {"new", "done"} /\ late = {}
          BY <2>2 DEF Age
    <3>2. stage[m] = "done" \/ stage[m] = "inserting"
          BY <2>2 DEF IInv, InsertedOnce
    <3> QED
        BY <3>1, <3>2 DEF LateUpsert
  <2> QED
      BY <1>1, <2>1, <2>2, DoomedStep
<1>3. stage'[m] = "done"
      BY <1>1, <1>2, StageStep
<1>4. ~Upsert(m) /\ ~UpsertUnanswered(m)
      BY <1>2 DEF Upsert, UpsertUnanswered
<1> QED
    BY <1>1, <1>2, <1>3, <1>4, LateUpsertStep

LEMMA CollectedIsGoneStep ==
  ASSUME IInv, [Next]_vars
  PROVE  CollectedIsGone'
<1>1. Typed
      BY DEF IInv
<1> SUFFICES ASSUME NEW m \in collected' PROVE store'[m] = Absent
    BY DEF CollectedIsGone
<1>2. CASE m \in collected
  <2>1. m \in Turns /\ store[m] = Absent
        BY <1>1, <1>2 DEF IInv, CollectedIsGone, Typed
  <2>2. stage[m] = "done" /\ ~LateUpsert(m)
        BY <1>2, <2>1 DEF IInv, Settled, Doomed
  <2>3. ~Upsert(m) /\ ~UpsertUnanswered(m)
        BY <2>2 DEF Upsert, UpsertUnanswered
  <2> QED
      BY <1>1, <2>1, <2>2, <2>3, Appears
<1> QED
    BY <1>2, CollectedStep

-----------------------------------------------------------------------------
(* The invariant.                                                          *)

LEMMA InitIInv == Init => IInv
<1> SUFFICES ASSUME Init PROVE IInv
    OBVIOUS
<1>1. Stored = {}
      BY DEF Init, Stored
<1>2. Typed
      BY LifecycleAssumption DEF Init, Typed, Stages
<1>3. \A m \in Turns : ~Doomed(m) /\ ~LateUpsert(m)
      BY DEF Init, Doomed, LateUpsert
<1> QED
    BY <1>1, <1>2, <1>3 DEF Init, IInv, CountNeverExceedsAccesses, TouchesCounted,
       LateCounted, AttemptsCounted, InsertedOnce, Settled, CollectedIsGone

LEMMA IInvStep == IInv /\ [Next]_vars => IInv'
<1> SUFFICES ASSUME IInv, [Next]_vars PROVE IInv'
    OBVIOUS
<1>1. Typed' /\ AttemptsCounted'
      BY TypedStep, StageStep DEF IInv
<1>2. CountNeverExceedsAccesses' /\ TouchesCounted' /\ LateCounted'
      BY CountStep, TouchesCountedStep, LateCountedStep
<1>3. InsertedOnce' /\ Settled' /\ CollectedIsGone'
      BY InsertedOnceStep, SettledStep, CollectedIsGoneStep
<1> QED
    BY <1>1, <1>2, <1>3 DEF IInv

LEMMA Invariance == Spec => []IInv
  BY InitIInv, IInvStep, PTL DEF Spec

(* The variables keep their types: no interleaving of touches, promotions, *)
(* upserts and deletions leaves a point that is none, and UpsertMemory     *)
(* stays within its attempts.                                              *)
THEOREM TypeCorrect == Spec => []TypeOK
<1>1. IInv => TypeOK
      BY DEF IInv, Typed, TypeOK, TouchCommands
<1> QED
    BY <1>1, Invariance, PTL

(* TouchMemories writes stale counts, again and late, but never one that   *)
(* is too high.                                                            *)
THEOREM CountsAreHonest == Spec => []CountNeverExceedsAccesses
<1>1. IInv => CountNeverExceedsAccesses
      BY DEF IInv
<1> QED
    BY <1>1, Invariance, PTL

(* What the collector has deleted never comes back: payload updates do not *)
(* create points, and by the time a memory is old no upsert of it can be   *)
(* on its way, neither a repeated nor an abandoned one.                    *)
THEOREM DeletedStaysDeleted == Spec => []CollectedIsGone
<1>1. IInv => CollectedIsGone
      BY DEF IInv
<1> QED
    BY <1>1, Invariance, PTL

(* Levels only rise, except when UpsertMemory repeats an attempt whose     *)
(* answer it did not get, or that attempt is executed late: then the point *)
(* starts again at the level of its insertion.                             *)
THEOREM LevelsOnlyRise == Spec => DemotedOnlyByResentUpsert
<1>1. IInv /\ [Next]_vars =>
        [\A m \in Stored : store'[m] # Absent /\ store'[m].level < store[m].level
                           => Resent(m)]_vars
  <2> SUFFICES ASSUME IInv, [Next]_vars, NEW m \in Turns, store[m] # Absent,
                      store'[m] # Absent, store'[m].level < store[m].level
               PROVE  Resent(m)
      BY DEF Stored
  <2>1. Typed /\ store[m] \in Points /\ store[m].level \in 1..3
        BY DEF IInv, Typed, Points
  <2>2. ~Aged(m)
    <3>1. Aged(m) => store'[m].level = store[m].level
          BY <2>1, AgedType DEF Aged
    <3> QED
        BY <2>1, <3>1
  <2>3. Hit(m)
        BY <2>1, <2>2, PointStep DEF Deleted
  <2>4. PICK c \in Commands : c.id = m /\ Sent(c) /\ store'[m] = After(c, store[m])
        BY <2>3 DEF Hit
  <2>5. c.op \in {"touch", "promote", "upsert", "delete"}
        BY DEF Commands
  <2>6. c.op = "upsert"
        BY <2>1, <2>4, <2>5, AfterPoint
  <2>7. LateUpsert(m) \/ stage[m] = "inserting"
        BY <2>1, <2>4, <2>6, SentUpsert DEF Upsert, UpsertUnanswered
  <2>8. stage[m] = "inserting" => attempt[m] > 1
        BY DEF IInv, InsertedOnce
  <2> QED
      BY <2>7, <2>8 DEF Resent, LateUpsert
<1> QED
    BY <1>1, Invariance, PTL DEF Spec, DemotedOnlyByResentUpsert

=============================================================================
