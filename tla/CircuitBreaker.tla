--------------------------- MODULE CircuitBreaker ---------------------------
(***************************************************************************)
(* CircuitBreakerClient, which stands between the pipeline and the emotion *)
(* engine: any number of goroutines run execute concurrently and share one *)
(* state under c.mu.                                                       *)
(*                                                                         *)
(* Time is kept relative to openedUntil, so that it needs no bound:        *)
(* openLeft is what remains until then, 0 once it has passed, and          *)
(* early[c] says whether the time a caller read lies before openedUntil.   *)
(* beforeCall reads the clock before it takes the mutex, so the two are    *)
(* separate steps.                                                         *)
(***************************************************************************)
EXTENDS Naturals

CONSTANTS Callers,           \* goroutines that call the engine
          FailureThreshold,  \* CircuitBreakerConfig.FailureThreshold
          OpenTimeout        \* CircuitBreakerConfig.OpenTimeout, in ticks

(* NewCircuitBreakerClient replaces values below these. *)
ASSUME ConfigAssumption ==
  /\ FailureThreshold \in Nat \ {0}
  /\ OpenTimeout \in Nat \ {0}

VARIABLES pc,                 \* where a caller is in execute
          early,              \* its reading of the clock is before openedUntil
          doomed,             \* its call began while the engine was faulty
          outcome,            \* what its last execute returned
          state,              \* c.state
          consecutiveFailed,  \* c.consecutiveFailed
          halfOpenInFlight,   \* c.halfOpenInFlight
          openLeft,           \* time left until c.openedUntil
          faulty,             \* calls may fail at present
          streak              \* history: failures since the last success

breakerVars == <<state, consecutiveFailed, halfOpenInFlight, openLeft>>
vars == <<pc, early, doomed, outcome, breakerVars, faulty, streak>>

(* How a call can fail: a code that isDependencyUnavailableError accepts,  *)
(* another status (InvalidArgument, ...), or the caller's cancellation.    *)
ErrorKinds == {"transient", "permanent", "canceled"}
Outcomes == {"none", "ok", "unavailable", "error"}

(* The variables keep their types; in particular consecutiveFailed never   *)
(* exceeds FailureThreshold, however many late failures arrive.            *)
TypeOK ==
  /\ pc \in [Callers -> {"idle", "timed", "calling"}]
  /\ early \in [Callers -> BOOLEAN]
  /\ doomed \in [Callers -> BOOLEAN]
  /\ outcome \in [Callers -> Outcomes]
  /\ state \in {"closed", "open", "halfOpen"}
  /\ consecutiveFailed \in 0..FailureThreshold
  /\ halfOpenInFlight \in BOOLEAN
  /\ openLeft \in 0..OpenTimeout
  /\ faulty \in BOOLEAN
  /\ streak \in 0..FailureThreshold

Init ==
  /\ pc = [c \in Callers |-> "idle"]
  /\ early = [c \in Callers |-> FALSE]
  /\ doomed = [c \in Callers |-> FALSE]
  /\ outcome = [c \in Callers |-> "none"]
  /\ state = "closed"
  /\ consecutiveFailed = 0
  /\ halfOpenInFlight = FALSE
  /\ openLeft = 0
  /\ faulty \in BOOLEAN
  /\ streak = 0

-----------------------------------------------------------------------------
(* beforeCall.                                                             *)

(* now := time.Now() *)
ReadClock(c) ==
  /\ pc[c] = "idle"
  /\ pc' = [pc EXCEPT ![c] = "timed"]
  /\ early' = [early EXCEPT ![c] = openLeft > 0]
  /\ UNCHANGED <<doomed, outcome, breakerVars, faulty, streak>>

(* Faulty variant for mutation testing: openedUntil is not looked at. *)
MustRejectProbesOnly(c) == state = "halfOpen" /\ halfOpenInFlight

MustReject(c) ==
  \/ state = "open" /\ early[c]
  \/ state = "halfOpen" /\ halfOpenInFlight

(* errEmotionCircuitOpen: the caller gets DependencyUnavailableError. *)
Reject(c) ==
  /\ pc[c] = "timed"
  /\ MustReject(c)
  /\ pc' = [pc EXCEPT ![c] = "idle"]
  /\ early' = [early EXCEPT ![c] = FALSE]
  /\ outcome' = [outcome EXCEPT ![c] = "unavailable"]
  /\ UNCHANGED <<doomed, breakerVars, faulty, streak>>

Admit(c) ==
  /\ pc[c] = "timed"
  /\ ~MustReject(c)
  /\ pc' = [pc EXCEPT ![c] = "calling"]
  /\ early' = [early EXCEPT ![c] = FALSE]
  /\ doomed' = [doomed EXCEPT ![c] = faulty]
  /\ state' = IF state = "open" THEN "halfOpen" ELSE state
  /\ halfOpenInFlight' = (state # "closed" \/ halfOpenInFlight)
  /\ UNCHANGED <<outcome, consecutiveFailed, openLeft, faulty, streak>>

-----------------------------------------------------------------------------
(* fn returned.                                                            *)

(* Faulty variant for mutation testing: the probe flag is not cleared. *)
AfterSuccessKeepsFlag ==
  /\ consecutiveFailed' = 0
  /\ state' = IF state = "halfOpen" THEN "closed" ELSE state
  /\ UNCHANGED <<halfOpenInFlight, openLeft>>

(* Faulty variant for mutation testing: the count survives a success. *)
AfterSuccessKeepsCount ==
  /\ state' = IF state = "halfOpen" THEN "closed" ELSE state
  /\ consecutiveFailed' = IF state = "halfOpen" THEN 0 ELSE consecutiveFailed
  /\ halfOpenInFlight' = IF state = "halfOpen" THEN FALSE ELSE halfOpenInFlight
  /\ UNCHANGED openLeft

(* Faulty variant for mutation testing: half-open is not left. *)
AfterSuccessStaysHalfOpen ==
  /\ consecutiveFailed' = 0
  /\ halfOpenInFlight' = IF state = "halfOpen" THEN FALSE ELSE halfOpenInFlight
  /\ UNCHANGED <<state, openLeft>>

AfterSuccess ==
  /\ consecutiveFailed' = 0
  /\ state' = IF state = "halfOpen" THEN "closed" ELSE state
  /\ halfOpenInFlight' = IF state = "halfOpen" THEN FALSE ELSE halfOpenInFlight
  /\ UNCHANGED openLeft

(* Faulty variant for mutation testing: the count is not set to the threshold. *)
OpenCircuitKeepsCounting ==
  /\ state' = "open"
  /\ openLeft' = OpenTimeout
  /\ consecutiveFailed' = consecutiveFailed + 1
  /\ early' = [c \in Callers |-> pc[c] = "timed"]

(* openCircuitLocked: openedUntil moves OpenTimeout ahead of now, and so   *)
(* ahead of every clock reading taken before.                              *)
OpenCircuit ==
  /\ state' = "open"
  /\ openLeft' = OpenTimeout
  /\ consecutiveFailed' = FailureThreshold
  /\ early' = [c \in Callers |-> pc[c] = "timed"]

AfterFailure ==
  \/ /\ state = "halfOpen"
     /\ halfOpenInFlight' = FALSE
     /\ OpenCircuit
  \/ /\ state = "open"
     /\ OpenCircuit
     /\ UNCHANGED halfOpenInFlight
  \/ /\ state = "closed"
     /\ consecutiveFailed + 1 >= FailureThreshold
     /\ OpenCircuit
     /\ UNCHANGED halfOpenInFlight
  \/ /\ state = "closed"
     /\ consecutiveFailed + 1 < FailureThreshold
     /\ consecutiveFailed' = consecutiveFailed + 1
     /\ UNCHANGED <<state, openLeft, halfOpenInFlight, early>>

Succeed(c) ==
  /\ pc[c] = "calling"
  /\ pc' = [pc EXCEPT ![c] = "idle"]
  /\ doomed' = [doomed EXCEPT ![c] = FALSE]
  /\ outcome' = [outcome EXCEPT ![c] = "ok"]
  /\ AfterSuccess
  /\ streak' = 0
  /\ UNCHANGED <<early, faulty>>

(* Every error reaches afterFailure, the caller's own cancellation and the *)
(* engine's refusal of a bad request included.                             *)
Fail(c, kind) ==
  /\ pc[c] = "calling"
  /\ faulty \/ doomed[c]
  /\ pc' = [pc EXCEPT ![c] = "idle"]
  /\ doomed' = [doomed EXCEPT ![c] = FALSE]
  /\ outcome' = [outcome EXCEPT ![c] = IF kind = "transient" THEN "unavailable" ELSE "error"]
  /\ AfterFailure
  /\ streak' = IF streak < FailureThreshold THEN streak + 1 ELSE streak
  /\ UNCHANGED faulty

-----------------------------------------------------------------------------
(* Time and the engine.                                                    *)

Tick ==
  /\ openLeft > 0
  /\ openLeft' = openLeft - 1
  /\ UNCHANGED <<pc, early, doomed, outcome, state, consecutiveFailed,
                 halfOpenInFlight, faulty, streak>>

EngineChanges ==
  /\ faulty' = ~faulty
  /\ UNCHANGED <<pc, early, doomed, outcome, breakerVars, streak>>

Execute(c) ==
  \/ ReadClock(c) \/ Reject(c) \/ Admit(c) \/ Succeed(c)
  \/ \E kind \in ErrorKinds : Fail(c, kind)

Next == \/ \E c \in Callers : Execute(c)
        \/ Tick
        \/ EngineChanges

(* Time passes; goroutines run, and their calls end (each has a timeout of *)
(* 500 ms); interactions keep arriving.                                    *)
Fairness == /\ WF_vars(Tick)
            /\ \A c \in Callers : WF_vars(Execute(c))

Spec == Init /\ [][Next]_vars
FairSpec == Spec /\ Fairness

-----------------------------------------------------------------------------
(* Properties.                                                             *)

(* A half-open breaker always waits for a call that is really in flight,   *)
(* so it cannot stay half-open, rejecting everyone, for ever; the flag is  *)
(* set exactly then, although late results of calls from before the        *)
(* opening also clear it (beforeCall, afterSuccess, afterFailure).         *)
HalfOpenHasProbe ==
  /\ halfOpenInFlight <=> state = "halfOpen"
  /\ state = "halfOpen" => \E c \in Callers : pc[c] = "calling"

(* The breaker is out of the open state only when openedUntil has passed,  *)
(* however late results, stale clock readings and probes interleave.       *)
OutOfOpenOnlyAfterTimeout == state # "open" => openLeft = 0

(* After the circuit opened no call reaches the engine for OpenTimeout.    *)
Quarantine ==
  [][\A c \in Callers : pc[c] = "timed" /\ pc'[c] = "calling" => openLeft = 0]_vars

(* The breaker leaves closed only after FailureThreshold failures in a row *)
(* with no success in between, in the order the results arrived.           *)
OpensOnlyOnAStreak ==
  [][state = "closed" /\ state' = "open" => streak' = FailureThreshold]_vars

(* Once the engine stays healthy the breaker closes and stays closed.      *)
Recovers == (<>[]~faulty) => <>[](state = "closed")

=============================================================================
