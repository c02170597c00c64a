------------------------ MODULE CircuitBreakerProofs ------------------------
(***************************************************************************)
(* Proofs about CircuitBreaker for any number of callers, any threshold    *)
(* and any timeout.                                                        *)
(***************************************************************************)
EXTENDS CircuitBreaker, TLAPS

(* A caller that passed the time check of beforeCall, or is about to,      *)
(* read the clock after openedUntil: openCircuitLocked moves openedUntil   *)
(* beyond every reading taken before it.                                   *)
ReadingsAreSound ==
  \A c \in Callers : pc[c] = "timed" /\ ~early[c] => openLeft = 0

(* In the closed state the failures counted are failures in a row.         *)
CountIsAStreak ==
  state = "closed" => /\ consecutiveFailed < FailureThreshold
                      /\ consecutiveFailed <= streak

(* The inductive invariant. *)
IInv == /\ TypeOK
        /\ HalfOpenHasProbe
        /\ OutOfOpenOnlyAfterTimeout
        /\ ReadingsAreSound
        /\ CountIsAStreak

-----------------------------------------------------------------------------

(* The conjuncts of TypeOK, the Boolean variables apart from the others:   *)
(* the two kinds need different provers.                                   *)
FlagsOK ==
  /\ early \in [Callers -> BOOLEAN]
  /\ doomed \in [Callers -> BOOLEAN]
  /\ halfOpenInFlight \in BOOLEAN
  /\ faulty \in BOOLEAN

ValuesOK ==
  /\ pc \in [Callers -> {"idle", "timed", "calling"}]
  /\ outcome \in [Callers -> Outcomes]
  /\ state \in {"closed", "open", "halfOpen"}
  /\ consecutiveFailed \in 0..FailureThreshold
  /\ openLeft \in 0..OpenTimeout
  /\ streak \in 0..FailureThreshold

(* TypeOK is these two together. *)
LEMMA TypeParts == TypeOK <=> FlagsOK /\ ValuesOK
  BY Zenon DEF TypeOK, FlagsOK, ValuesOK

(* The breaker starts closed, with no failure counted. *)
LEMMA InitIInv == Init => IInv
<1> SUFFICES ASSUME Init PROVE IInv
    OBVIOUS
<1>1. FlagsOK
      BY DEF Init, FlagsOK
<1>2. ValuesOK
      BY ConfigAssumption DEF Init, ValuesOK, Outcomes
<1>3. HalfOpenHasProbe
      BY Zenon DEF Init, HalfOpenHasProbe
<1>4. OutOfOpenOnlyAfterTimeout /\ ReadingsAreSound /\ CountIsAStreak
      BY ConfigAssumption
         DEF Init, OutOfOpenOnlyAfterTimeout, ReadingsAreSound, CountIsAStreak
<1> QED
    BY <1>1, <1>2, <1>3, <1>4, TypeParts DEF IInv

(* Every step keeps the Boolean variables Boolean. *)
LEMMA FlagsStep == FlagsOK /\ [Next]_vars => FlagsOK'
<1> SUFFICES ASSUME FlagsOK, [Next]_vars PROVE FlagsOK'
    OBVIOUS
<1> USE DEF FlagsOK, breakerVars
<1>1. ASSUME NEW c \in Callers, ReadClock(c) PROVE FlagsOK'
      BY <1>1 DEF ReadClock
<1>2. ASSUME NEW c \in Callers, Reject(c) PROVE FlagsOK'
      BY <1>2 DEF Reject
<1>3. ASSUME NEW c \in Callers, Admit(c) PROVE FlagsOK'
      BY <1>3, Zenon DEF Admit
<1>4. ASSUME NEW c \in Callers, Succeed(c) PROVE FlagsOK'
      BY <1>4 DEF Succeed, AfterSuccess
<1>5. ASSUME NEW c \in Callers, NEW kind \in ErrorKinds, Fail(c, kind) PROVE FlagsOK'
      BY <1>5 DEF Fail, AfterFailure, OpenCircuit
<1>6. CASE Tick \/ EngineChanges \/ UNCHANGED vars
      BY <1>6 DEF Tick, EngineChanges, vars
<1> QED
    BY <1>1, <1>2, <1>3, <1>4, <1>5, <1>6 DEF Next, Execute

(* Every step keeps the other variables within their ranges. *)
LEMMA ValuesStep == ValuesOK /\ [Next]_vars => ValuesOK'
<1> SUFFICES ASSUME ValuesOK, [Next]_vars PROVE ValuesOK'
    OBVIOUS
<1> USE ConfigAssumption DEF ValuesOK, Outcomes, breakerVars
<1>1. ASSUME NEW c \in Callers, ReadClock(c) \/ Reject(c) \/ Admit(c) PROVE ValuesOK'
      BY <1>1 DEF ReadClock, Reject, Admit
<1>2. ASSUME NEW c \in Callers, Succeed(c) PROVE ValuesOK'
      BY <1>2 DEF Succeed, AfterSuccess
<1>3. ASSUME NEW c \in Callers, NEW kind \in ErrorKinds, Fail(c, kind) PROVE ValuesOK'
      BY <1>3 DEF Fail, AfterFailure, OpenCircuit
<1>4. CASE Tick \/ EngineChanges \/ UNCHANGED vars
      BY <1>4 DEF Tick, EngineChanges, vars
<1> QED
    BY <1>1, <1>2, <1>3, <1>4 DEF Next, Execute

(* A call of beforeCall preserves the invariant: the probe it admits is in *)
(* flight, and it is admitted out of the open state only when the timeout  *)
(* has passed.                                                             *)
LEMMA BeforeCallStep ==
  ASSUME IInv, NEW c \in Callers, ReadClock(c) \/ Reject(c) \/ Admit(c), TypeOK'
  PROVE  IInv'
<1> USE DEF IInv, TypeOK
<1>1. CASE ReadClock(c)
  <2>1. HalfOpenHasProbe'
        BY <1>1 DEF ReadClock, breakerVars, HalfOpenHasProbe
  <2>2. OutOfOpenOnlyAfterTimeout' /\ CountIsAStreak'
        BY <1>1 DEF ReadClock, breakerVars,
           OutOfOpenOnlyAfterTimeout, CountIsAStreak
  <2>3. ASSUME NEW d \in Callers, pc'[d] = "timed", ~early'[d] PROVE openLeft' = 0
    <3>1. CASE d = c
      <4>1. ~(openLeft > 0)
            BY <1>1, <2>3, <3>1, Zenon DEF ReadClock
      <4> QED
          BY <1>1, <4>1 DEF ReadClock, breakerVars
    <3>2. CASE d # c
          BY <1>1, <2>3, <3>2 DEF ReadClock, breakerVars, ReadingsAreSound
    <3> QED
        BY <3>1, <3>2
  <2> QED
      BY <2>1, <2>2, <2>3 DEF ReadingsAreSound
<1>2. CASE Reject(c)
  <2>1. HalfOpenHasProbe'
        BY <1>2 DEF Reject, breakerVars, HalfOpenHasProbe
  <2>2. OutOfOpenOnlyAfterTimeout' /\ ReadingsAreSound' /\ CountIsAStreak'
        BY <1>2 DEF Reject, breakerVars,
           OutOfOpenOnlyAfterTimeout, ReadingsAreSound, CountIsAStreak
  <2> QED
      BY <2>1, <2>2
<1>3. CASE Admit(c)
  <2>1. HalfOpenHasProbe'
    <3>1. pc'[c] = "calling"
          BY <1>3 DEF Admit
    <3>2. halfOpenInFlight' <=> state # "closed"
          BY <1>3, Zenon DEF Admit, HalfOpenHasProbe
    <3>3. state # "closed" <=> state' = "halfOpen"
          BY <1>3 DEF Admit
    <3> QED
        BY <3>1, <3>2, <3>3, Zenon DEF HalfOpenHasProbe
  <2>2. OutOfOpenOnlyAfterTimeout'
        BY <1>3 DEF Admit, MustReject, OutOfOpenOnlyAfterTimeout, ReadingsAreSound
  <2>3. ReadingsAreSound' /\ CountIsAStreak'
        BY <1>3 DEF Admit, ReadingsAreSound, CountIsAStreak
  <2> QED
      BY <2>1, <2>2, <2>3
<1> QED
    BY <1>1, <1>2, <1>3

(* A result, however late, preserves the invariant.                        *)
LEMMA ResultStep ==
  ASSUME IInv, NEW c \in Callers, TypeOK',
         Succeed(c) \/ \E kind \in ErrorKinds : Fail(c, kind)
  PROVE  IInv'
<1> USE ConfigAssumption DEF IInv, TypeOK
<1>1. CASE Succeed(c)
  <2>1. state' # "halfOpen" /\ ~halfOpenInFlight'
        BY <1>1, Zenon DEF Succeed, AfterSuccess, HalfOpenHasProbe
  <2>2. OutOfOpenOnlyAfterTimeout' /\ ReadingsAreSound' /\ CountIsAStreak'
        BY <1>1 DEF Succeed, AfterSuccess, OutOfOpenOnlyAfterTimeout,
           ReadingsAreSound, CountIsAStreak
  <2> QED
      BY <2>1, <2>2 DEF HalfOpenHasProbe
<1>2. ASSUME NEW kind \in ErrorKinds, Fail(c, kind) PROVE IInv'
  <2>1. CASE state' = "open"
    <3>1. HalfOpenHasProbe'
          BY <1>2, <2>1 DEF Fail, AfterFailure, OpenCircuit, HalfOpenHasProbe
    <3>2. ReadingsAreSound'
          BY <1>2, <2>1 DEF Fail, AfterFailure, OpenCircuit, ReadingsAreSound
    <3> QED
        BY <2>1, <3>1, <3>2 DEF OutOfOpenOnlyAfterTimeout, CountIsAStreak
  <2>2. CASE state' # "open"
        BY <1>2, <2>2 DEF Fail, AfterFailure, OpenCircuit, HalfOpenHasProbe,
           OutOfOpenOnlyAfterTimeout, ReadingsAreSound, CountIsAStreak
  <2> QED
      BY <2>1, <2>2
<1> QED
    BY <1>1, <1>2

(* Every step preserves the invariant. *)
LEMMA IInvStep == IInv /\ [Next]_vars => IInv'
<1> SUFFICES ASSUME IInv, [Next]_vars PROVE IInv'
    OBVIOUS
<1>1. TypeOK'
  <2>1. FlagsOK' /\ ValuesOK'
        BY TypeParts, FlagsStep, ValuesStep DEF IInv
  <2> QED
      BY <2>1, Zenon DEF TypeOK, FlagsOK, ValuesOK
<1>2. ASSUME NEW c \in Callers, Execute(c) PROVE IInv'
      BY <1>1, <1>2, BeforeCallStep, ResultStep DEF Execute
<1>3. CASE Tick
      BY <1>1, <1>3 DEF Tick, IInv, TypeOK, HalfOpenHasProbe,
         OutOfOpenOnlyAfterTimeout, ReadingsAreSound, CountIsAStreak
<1>4. CASE EngineChanges
      BY <1>1, <1>4 DEF EngineChanges, breakerVars, IInv,
         HalfOpenHasProbe, OutOfOpenOnlyAfterTimeout, ReadingsAreSound, CountIsAStreak
<1>5. CASE UNCHANGED vars
      BY <1>1, <1>5 DEF vars, breakerVars, IInv,
         HalfOpenHasProbe, OutOfOpenOnlyAfterTimeout, ReadingsAreSound, CountIsAStreak
<1> QED
    BY <1>2, <1>3, <1>4, <1>5 DEF Next

(* The inductive invariant holds in every behaviour of the breaker. *)
LEMMA Invariance == Spec => []IInv
  BY InitIInv, IInvStep, PTL DEF Spec

-----------------------------------------------------------------------------

(* execute keeps the breaker's fields within their ranges; the failure     *)
(* count never exceeds the threshold.                                      *)
THEOREM TypeCorrect == Spec => []TypeOK
<1>1. IInv => TypeOK
      BY DEF IInv
<1> QED
    BY <1>1, Invariance, PTL

(* A half-open breaker has a call in flight whose result will move it on   *)
(* (beforeCall, afterSuccess, afterFailure).                               *)
THEOREM ProbeInFlight == Spec => []HalfOpenHasProbe
<1>1. IInv => HalfOpenHasProbe
      BY DEF IInv
<1> QED
    BY <1>1, Invariance, PTL

(* The breaker is closed or half-open only when openedUntil has passed.    *)
THEOREM OpenLastsItsTimeout == Spec => []OutOfOpenOnlyAfterTimeout
<1>1. IInv => OutOfOpenOnlyAfterTimeout
      BY DEF IInv
<1> QED
    BY <1>1, Invariance, PTL

(* beforeCall lets no call through before openedUntil.                     *)
THEOREM NoCallWhileQuarantined == Spec => Quarantine
<1>1. ASSUME IInv, [Next]_vars, NEW c \in Callers,
             pc[c] = "timed", pc'[c] = "calling"
      PROVE  openLeft = 0
  <2>1. Admit(c)
    <3> USE DEF IInv, TypeOK
    <3>1. ASSUME NEW d \in Callers, Execute(d) PROVE Admit(c)
          BY <1>1, <3>1 DEF Execute, ReadClock, Reject, Admit, Succeed, Fail
    <3>2. ~Tick /\ ~EngineChanges /\ ~UNCHANGED vars
          BY <1>1 DEF Tick, EngineChanges, vars
    <3> QED
        BY <1>1, <3>1, <3>2 DEF Next
  <2> QED
      BY <1>1, <2>1 DEF IInv, Admit, MustReject, TypeOK,
         OutOfOpenOnlyAfterTimeout, ReadingsAreSound
<1>2. IInv /\ [Next]_vars
      => [\A c \in Callers : pc[c] = "timed" /\ pc'[c] = "calling" => openLeft = 0]_vars
      BY <1>1
<1> QED
    BY <1>2, Invariance, PTL DEF Spec, Quarantine

(* The circuit opens only on FailureThreshold failures in a row.           *)
THEOREM OpeningNeedsAStreak == Spec => OpensOnlyOnAStreak
<1>1. ASSUME IInv, [Next]_vars, state = "closed", state' = "open"
      PROVE  streak' = FailureThreshold
  <2>1. PICK c \in Callers, kind \in ErrorKinds : Fail(c, kind)
        BY <1>1 DEF Next, Execute, ReadClock, Reject, Admit, Succeed, AfterSuccess,
           Tick, EngineChanges, vars, breakerVars
  <2> QED
      BY <1>1, <2>1, ConfigAssumption DEF IInv, TypeOK, CountIsAStreak, Fail, AfterFailure
<1>2. IInv /\ [Next]_vars
      => [state = "closed" /\ state' = "open" => streak' = FailureThreshold]_vars
      BY <1>1
<1> QED
    BY <1>2, Invariance, PTL DEF Spec, OpensOnlyOnAStreak

=============================================================================
