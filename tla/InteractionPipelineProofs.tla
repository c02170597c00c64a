--------------------- MODULE InteractionPipelineProofs ---------------------
(***************************************************************************)
(* Proofs about InteractionPipeline for any number of requests, agents and *)
(* processes: under an unbroken lease no update of the emotional state is  *)
(* lost.                                                                   *)
(***************************************************************************)
EXTENDS InteractionPipeline, TLAPS

(* The variables the argument is about, typed. *)
CoreOK ==
  /\ holders \in [Agents -> SUBSET Requests]
  /\ step \in [Requests -> {"idle"} \cup Running \cup Finished]
  /\ base \in [Requests -> Lineages]
  /\ state \in [Agents -> Lineages \cup {NoState}]
  /\ late \subseteq Requests

FlagsOK ==
  /\ broken \in [Agents -> BOOLEAN]
  /\ overridden \in [Agents -> BOOLEAN]

(* The lock is held by the requests that are inside Execute. *)
HoldersAreRunning ==
  \A r \in Requests, a \in Agents :
    r \in holders[a] <=> AgentOf[r] = a /\ step[r] \in Running

(* Only a request that has got beyond step 4 left a SET behind. *)
LateIsPersisted ==
  \A r \in late : step[r] \in {"retrieve", "generate", "dispatched"} \cup Finished

(* The inductive invariant. *)
IInv == /\ CoreOK
        /\ FlagsOK
        /\ HoldersAreRunning
        /\ LateIsPersisted
        /\ AtMostOneHolder
        /\ HolderSeesCurrentState

-----------------------------------------------------------------------------
(* Types.                                                                  *)

(* One more interaction makes a lineage a lineage. *)
LEMMA NextStateType ==
  ASSUME CoreOK, NEW r \in Requests
  PROVE  NextState(r) \in Lineages
  BY DEF CoreOK, NextState, Lineages

(* Every step keeps the core variables in their sets. *)
LEMMA CoreStep == CoreOK /\ [Next]_vars => CoreOK'
<1> SUFFICES ASSUME CoreOK, [Next]_vars PROVE CoreOK'
    OBVIOUS
<1> USE PipelineAssumption
       DEF CoreOK, Running, Finished, GoTo, Return, Leave, leaseVars, requestVars,
           adminVars, postgresVars
<1>1. ASSUME NEW r \in Requests, Enter(r) PROVE CoreOK'
      BY <1>1 DEF Enter, Grant
<1>2. ASSUME NEW r \in Requests, LoadState(r) PROVE CoreOK'
  <2>1. OrDefault(state[AgentOf[r]]) \in Lineages
        BY DEF OrDefault, Lineages
  <2> QED
      BY <1>2, <2>1 DEF LoadState
<1>3. ASSUME NEW r \in Requests, LoadConfig(r) \/ BootstrapConfig(r) \/ Compute(r)
      PROVE  CoreOK'
      BY <1>3 DEF LoadConfig, BootstrapConfig, Compute
<1>4. ASSUME NEW r \in Requests, Persist(r) PROVE CoreOK'
      BY <1>4, NextStateType DEF Persist
<1>5. ASSUME NEW r \in Requests, Retrieve(r) \/ Generate(r) PROVE CoreOK'
      BY <1>5 DEF Retrieve, Generate
<1>6. ASSUME NEW r \in Requests, ReturnOutput(r) \/ ReturnError(r) \/ BootstrapReplyLost(r)
      PROVE  CoreOK'
      BY <1>6 DEF ReturnOutput, ReturnError, BootstrapReplyLost
<1>7. ASSUME NEW r \in Requests, PersistFails(r) PROVE CoreOK'
      BY <1>7, NextStateType DEF PersistFails
<1>8. ASSUME NEW r \in Requests, LateSet(r) PROVE CoreOK'
      BY <1>8, NextStateType DEF LateSet
<1>9. ASSUME NEW r \in Requests, PostProcess(r) PROVE CoreOK'
      BY <1>9 DEF PostProcess, PostLog, PostHistory, PostContext
<1>10. ASSUME NEW a \in Agents, AgentHandlers(a) PROVE CoreOK'
  <2>1. <<>> \in Lineages
        BY DEF Lineages
  <2> QED
      BY <1>10, <2>1 DEF AgentHandlers, CreateAgentConfig, CreateAgentState,
         UpdateAgentRead, UpdateAgentSave, DeleteAgent
<1>11. ASSUME NEW a \in Agents, LeaseLapses(a) PROVE CoreOK'
      BY <1>11 DEF LeaseLapses, Lapse
<1>12. ASSUME NEW p \in Processes, Crash(p) PROVE CoreOK'
      BY <1>12 DEF Crash
<1>13. CASE UNCHANGED vars
      BY <1>13 DEF vars
<1> QED
    BY <1>1, <1>2, <1>3, <1>4, <1>5, <1>6, <1>7, <1>8, <1>9, <1>10, <1>11, <1>12, <1>13
       DEF Next, Execute

(* A step clears a flag of an agent only when nobody holds its lock any    *)
(* more.                                                                   *)
Kept == \A a \in Agents : holders'[a] # {} => /\ broken[a] => broken'[a]
                                              /\ overridden[a] => overridden'[a]

(* The flags stay Boolean, and are kept under a holder. *)
LEMMA FlagsStep == FlagsOK /\ [Next]_vars => FlagsOK' /\ Kept
<1> SUFFICES ASSUME FlagsOK, [Next]_vars PROVE FlagsOK' /\ Kept
    OBVIOUS
<1> USE DEF FlagsOK, Kept
<1>1. ASSUME UNCHANGED <<broken, overridden>> PROVE FlagsOK' /\ Kept
      BY <1>1
<1>2. ASSUME NEW S, Return(S) PROVE FlagsOK' /\ Kept
  <2>1. FlagsOK'
        BY <1>2, Zenon DEF Return, Leave
  <2>2. ASSUME NEW a \in Agents, holders'[a] # {} PROVE holders[a] \ S # {}
        BY <1>2, <2>2 DEF Return, Leave
  <2>3. Kept
        BY <1>2, <2>2, Zenon DEF Return, Leave
  <2> QED
      BY <2>1, <2>3
<1>3. ASSUME NEW r \in Requests, LateSet(r) PROVE FlagsOK' /\ Kept
      BY <1>3, Zenon DEF LateSet, leaseVars
<1>4. ASSUME NEW a \in Agents, CreateAgentState(a) PROVE FlagsOK' /\ Kept
      BY <1>4, Zenon DEF CreateAgentState, leaseVars
<1>5. ASSUME NEW a \in Agents, LeaseLapses(a) PROVE FlagsOK' /\ Kept
      BY <1>5, Zenon DEF LeaseLapses, Lapse
<1>6. \/ UNCHANGED <<broken, overridden>>
      \/ \E S : Return(S)
      \/ \E r \in Requests : LateSet(r)
      \/ \E a \in Agents : CreateAgentState(a) \/ LeaseLapses(a)
      BY Zenon DEF Next, Execute, Enter, Grant, LoadState, LoadConfig, BootstrapConfig,
         Compute, Persist, Retrieve, Generate, ReturnOutput, ReturnError,
         BootstrapReplyLost, PersistFails, PostProcess, PostLog, PostHistory, PostContext,
         AgentHandlers, CreateAgentConfig, UpdateAgentRead, UpdateAgentSave, DeleteAgent,
         Crash, vars, leaseVars
<1> QED
    BY <1>1, <1>2, <1>3, <1>4, <1>5, <1>6

-----------------------------------------------------------------------------
(* The lock.                                                               *)

(* Requests take the lock with Enter and give it back whenever they leave. *)
LEMMA HoldersStep ==
  ASSUME CoreOK, HoldersAreRunning, [Next]_vars
  PROVE  HoldersAreRunning'
<1> USE PipelineAssumption DEF CoreOK
<1>1. ASSUME NEW r \in Requests, Enter(r) PROVE HoldersAreRunning'
      BY <1>1 DEF Enter, Grant, GoTo, Running, HoldersAreRunning
<1>2. ASSUME NEW r \in Requests, NEW s, step[r] \in Running, s \in Running,
             step' = [step EXCEPT ![r] = s], holders' = holders
      PROVE  HoldersAreRunning'
      BY <1>2 DEF HoldersAreRunning
<1>3. ASSUME NEW r \in Requests, step' \in {[step EXCEPT ![r] = s] : s \in Finished},
             Return({r})
      PROVE  HoldersAreRunning'
  <2>1. Finished \cap Running = {}
        BY DEF Finished, Running
  <2> QED
      BY <1>3, <2>1 DEF HoldersAreRunning, Return, Leave
<1>4. ASSUME NEW p \in Processes, Crash(p) PROVE HoldersAreRunning'
      BY <1>4 DEF Crash, Return, Leave, HoldersAreRunning, Running
<1>5. ASSUME UNCHANGED <<holders, step>> PROVE HoldersAreRunning'
      BY <1>5 DEF HoldersAreRunning
<1>6. ASSUME NEW r \in Requests, Execute(r) PROVE HoldersAreRunning'
  <2>1. CASE LoadState(r) \/ LoadConfig(r) \/ BootstrapConfig(r) \/ Compute(r)
              \/ Persist(r) \/ Retrieve(r) \/ Generate(r)
        BY <2>1, <1>2 DEF LoadState, LoadConfig, BootstrapConfig, Compute, Persist,
           Retrieve, Generate, GoTo, Running, leaseVars
  <2>2. CASE ReturnOutput(r) \/ ReturnError(r) \/ BootstrapReplyLost(r) \/ PersistFails(r)
        BY <2>2, <1>3 DEF ReturnOutput, ReturnError, BootstrapReplyLost, PersistFails,
           GoTo, Finished
  <2> QED
      BY <1>6, <2>1, <2>2 DEF Execute
<1>7. ASSUME NEW r \in Requests, LateSet(r) \/ PostProcess(r) PROVE UNCHANGED <<holders, step>>
      BY <1>7 DEF LateSet, PostProcess, PostLog, PostHistory, PostContext, leaseVars, requestVars
<1>8. ASSUME NEW a \in Agents, AgentHandlers(a) \/ LeaseLapses(a) PROVE UNCHANGED <<holders, step>>
      BY <1>8 DEF AgentHandlers, CreateAgentConfig, CreateAgentState, UpdateAgentRead,
         UpdateAgentSave, DeleteAgent, LeaseLapses, Lapse, leaseVars, requestVars
<1>9. CASE UNCHANGED vars
      BY <1>5, <1>9 DEF vars, leaseVars, requestVars
<1> QED
    BY <1>1, <1>4, <1>5, <1>6, <1>7, <1>8, <1>9 DEF Next

(* A step gives the lock of an agent to one request at most, and only when *)
(* it is free or broken.                                                   *)
LEMMA LockStep ==
  ASSUME CoreOK, FlagsOK, AtMostOneHolder, [Next]_vars
  PROVE  AtMostOneHolder'
<1> SUFFICES ASSUME NEW a \in Agents, ~broken'[a],
                    NEW r \in holders'[a], NEW s \in holders'[a]
             PROVE  r = s
    BY DEF AtMostOneHolder
<1> USE PipelineAssumption DEF CoreOK
<1>1. ~broken[a]
  <2>1. holders'[a] # {}
        OBVIOUS
  <2>2. Kept
        BY FlagsStep
  <2> QED
      BY <2>1, <2>2, Zenon DEF Kept
<1>2. ASSUME NEW q \in Requests, Enter(q) PROVE r = s
      BY <1>1, <1>2 DEF Enter, Grant, AtMostOneHolder
<1>3. ASSUME holders'[a] \subseteq holders[a] PROVE r = s
      BY <1>1, <1>3 DEF AtMostOneHolder
<1>4. \/ \E q \in Requests : Enter(q)
      \/ \E S : Leave(S)
      \/ UNCHANGED holders
      BY Zenon DEF Next, Execute, LoadState, LoadConfig, BootstrapConfig,
         Compute, Persist, Retrieve, Generate, ReturnOutput, ReturnError,
         BootstrapReplyLost, PersistFails, PostProcess, PostLog, PostHistory, PostContext,
         LateSet, AgentHandlers, CreateAgentConfig, CreateAgentState, UpdateAgentRead,
         UpdateAgentSave, DeleteAgent, LeaseLapses, Lapse, Crash, Return, vars, leaseVars
<1>5. ASSUME NEW S, Leave(S) PROVE holders'[a] \subseteq holders[a]
      BY <1>5 DEF Leave
<1> QED
    BY <1>2, <1>3, <1>4, <1>5

-----------------------------------------------------------------------------
(* The state.                                                              *)

(* Late commands belong to requests beyond step 4. *)
LEMMA LateStep ==
  ASSUME CoreOK, LateIsPersisted, [Next]_vars
  PROVE  LateIsPersisted'
<1> USE DEF CoreOK, LateIsPersisted, Running, Finished, GoTo, requestVars
<1>1. ASSUME NEW r \in Requests, Enter(r) PROVE LateIsPersisted'
      BY <1>1 DEF Enter
<1>2. ASSUME NEW r \in Requests, Execute(r) PROVE LateIsPersisted'
  <2>1. CASE LoadState(r) \/ LoadConfig(r) \/ BootstrapConfig(r) \/ Compute(r)
        BY <2>1 DEF LoadState, LoadConfig, BootstrapConfig, Compute
  <2>2. CASE Persist(r) \/ Retrieve(r) \/ Generate(r)
        BY <2>2 DEF Persist, Retrieve, Generate
  <2>3. CASE ReturnOutput(r) \/ ReturnError(r) \/ BootstrapReplyLost(r) \/ PersistFails(r)
        BY <2>3 DEF ReturnOutput, ReturnError, BootstrapReplyLost, PersistFails
  <2> QED
      BY <1>2, <2>1, <2>2, <2>3 DEF Execute
<1>3. ASSUME NEW r \in Requests, LateSet(r) \/ PostProcess(r) PROVE LateIsPersisted'
      BY <1>3 DEF LateSet, PostProcess, PostLog, PostHistory, PostContext
<1>4. ASSUME NEW a \in Agents, AgentHandlers(a) \/ LeaseLapses(a) PROVE LateIsPersisted'
      BY <1>4 DEF AgentHandlers, CreateAgentConfig, CreateAgentState, UpdateAgentRead,
         UpdateAgentSave, DeleteAgent, LeaseLapses
<1>5. ASSUME NEW p \in Processes, Crash(p) PROVE LateIsPersisted'
      BY <1>5 DEF Crash
<1>6. CASE UNCHANGED vars
      BY <1>6 DEF vars
<1> QED
    BY <1>1, <1>2, <1>3, <1>4, <1>5, <1>6 DEF Next

(* Where a request relies on the state it loaded, and where on the one it  *)
(* wrote.                                                                  *)
Loaded == {"config", "bootstrap", "compute", "persist"}
Written == {"retrieve", "generate", "dispatched"}

Sees(r) == /\ step[r] \in Loaded => OrDefault(state[AgentOf[r]]) = base[r]
           /\ step[r] \in Written => state[AgentOf[r]] = NextState(r)

(* A step that changes nothing a holder relies on leaves its view intact. *)
LEMMA SeesFrame ==
  ASSUME NEW r \in Requests, Sees(r), step'[r] = step[r], base'[r] = base[r],
         state'[AgentOf[r]] = state[AgentOf[r]]
  PROVE  Sees(r)'
  BY DEF Sees, OrDefault, NextState

(* The steps of a request establish and keep its own view. *)
LEMMA OwnStep ==
  ASSUME CoreOK, NEW r \in Requests, Execute(r), Sees(r), step'[r] \in Loaded \cup Written
  PROVE  Sees(r)'
<1> USE PipelineAssumption DEF CoreOK, Loaded, Written, GoTo
<1>1. CASE LoadState(r)
      BY <1>1 DEF LoadState, Sees, OrDefault
<1>2. CASE LoadConfig(r) \/ BootstrapConfig(r) \/ Compute(r)
      BY <1>2 DEF LoadConfig, BootstrapConfig, Compute, Sees, OrDefault
<1>3. CASE Persist(r)
      BY <1>3 DEF Persist, Sees, NextState
<1>4. CASE Retrieve(r) \/ Generate(r)
      BY <1>4 DEF Retrieve, Generate, Sees, NextState
<1>5. CASE ReturnOutput(r) \/ ReturnError(r) \/ BootstrapReplyLost(r) \/ PersistFails(r)
      BY <1>5 DEF ReturnOutput, ReturnError, BootstrapReplyLost, PersistFails
<1> QED
    BY <1>1, <1>2, <1>3, <1>4, <1>5 DEF Execute

(* No step takes away from an undisturbed holder what it relies on. *)
LEMMA SeesStep ==
  ASSUME IInv, [Next]_vars
  PROVE  HolderSeesCurrentState'
<1> USE PipelineAssumption
<1> SUFFICES ASSUME NEW r \in Requests, Undisturbed(AgentOf[r])',
                    step'[r] \in Loaded \cup Written
             PROVE  Sees(r)'
    BY DEF HolderSeesCurrentState, Sees, Loaded, Written
<1> DEFINE a == AgentOf[r]
<1>1. a \in Agents /\ CoreOK /\ CoreOK' /\ HoldersAreRunning /\ HoldersAreRunning'
      BY CoreStep, HoldersStep DEF IInv
<1>2. r \in holders'[a]
      BY <1>1 DEF HoldersAreRunning, Loaded, Written, Running
<1>3. Undisturbed(a)
  <2>1. holders'[a] # {}
        BY <1>2
  <2>2. FlagsOK
        BY DEF IInv
  <2>3. Kept
        BY <2>2, FlagsStep
  <2> QED
      BY <1>1, <2>1, <2>3, Zenon DEF Kept, Undisturbed
<1>4. Sees(r)
      BY <1>3 DEF IInv, HolderSeesCurrentState, Sees, Loaded, Written
<1>5. \A s \in Requests : AgentOf[s] = a /\ step[s] \in Running /\ step[r] \in Running => s = r
      BY <1>1, <1>3 DEF IInv, HoldersAreRunning, AtMostOneHolder, Undisturbed
<1>6. ASSUME NEW s \in Requests, Enter(s) PROVE Sees(r)'
  <2>1. r # s
        BY <1>1, <1>6 DEF Enter, GoTo, CoreOK, Loaded, Written
  <2> QED
      BY <1>1, <1>4, <1>6, <2>1, SeesFrame DEF Enter, GoTo, CoreOK
<1>7. ASSUME NEW s \in Requests, Execute(s) PROVE Sees(r)'
  <2>1. CASE s = r
        BY <1>1, <1>4, <1>7, <2>1, OwnStep
  <2>2. CASE s # r
    <3>1. step'[r] = step[r] /\ base'[r] = base[r] /\ step[s] \in Running
          BY <1>1, <1>7, <2>2 DEF Execute, LoadState, LoadConfig, BootstrapConfig, Compute,
             Persist, Retrieve, Generate, ReturnOutput, ReturnError, BootstrapReplyLost,
             PersistFails, GoTo, CoreOK, Running
    <3>2. AgentOf[s] # a
          BY <1>5, <2>2, <3>1 DEF Loaded, Written, Running
    <3>3. state'[a] = state[a]
          BY <1>1, <1>7, <3>2 DEF Execute, LoadState, LoadConfig, BootstrapConfig, Compute,
             Persist, Retrieve, Generate, ReturnOutput, ReturnError, BootstrapReplyLost,
             PersistFails, CoreOK
    <3> QED
        BY <1>4, <3>1, <3>3, SeesFrame
  <2> QED
      BY <2>1, <2>2
<1>8. ASSUME NEW s \in Requests, LateSet(s) PROVE Sees(r)'
  <2>1. step' = step /\ base' = base
        BY <1>8 DEF LateSet, requestVars
  <2>2. CASE AgentOf[s] # a
    <3>1. state'[a] = state[a]
          BY <1>1, <1>8, <2>2 DEF LateSet, CoreOK
    <3> QED
        BY <1>4, <2>1, <3>1, SeesFrame
  <2>3. CASE AgentOf[s] = a
    <3>1. holders[a] \ {s} = {}
      <4>1. ~overridden'[a]
            BY DEF Undisturbed
      <4> QED
          BY <1>1, <1>8, <2>3, <4>1, Zenon DEF LateSet, IInv, FlagsOK
    <3>2. s = r
          BY <1>2, <1>8, <3>1 DEF LateSet, leaseVars
    <3>3. step[r] \in Written
          BY <1>8, <2>1, <3>2 DEF LateSet, IInv, LateIsPersisted, Loaded, Written, Finished
    <3>4. state'[a] = NextState(r)
          BY <1>1, <1>8, <3>2 DEF LateSet, CoreOK
    <3> QED
        BY <2>1, <3>3, <3>4 DEF Sees, Loaded, Written, NextState
  <2> QED
      BY <2>2, <2>3
<1>9. ASSUME NEW b \in Agents, CreateAgentState(b) PROVE Sees(r)'
  <2>1. step' = step /\ base' = base /\ holders' = holders
        BY <1>9 DEF CreateAgentState, requestVars, leaseVars
  <2>2. state'[a] = state[a]
    <3>1. ~overridden'[a] /\ holders[a] # {}
          BY <1>2, <2>1 DEF Undisturbed
    <3>2. UNCHANGED state \/ b # a
          BY <1>1, <1>9, <3>1, Zenon DEF CreateAgentState, IInv, FlagsOK
    <3> QED
        BY <1>1, <1>9, <3>2 DEF CreateAgentState, CoreOK
  <2> QED
      BY <1>4, <2>1, <2>2, SeesFrame
<1>10. ASSUME NEW p \in Processes, Crash(p) PROVE Sees(r)'
  <2>1. step'[r] = step[r] /\ base' = base /\ state' = state
        BY <1>1, <1>10 DEF Crash, CoreOK, Loaded, Written
  <2> QED
      BY <1>4, <2>1, SeesFrame
<1>11. ASSUME UNCHANGED <<step, base, state>> PROVE Sees(r)'
      BY <1>4, <1>11, SeesFrame
<1>12. \/ UNCHANGED <<step, base, state>>
       \/ \E s \in Requests : Enter(s) \/ Execute(s) \/ LateSet(s)
       \/ \E b \in Agents : CreateAgentState(b)
       \/ \E p \in Processes : Crash(p)
      BY Zenon DEF Next, PostProcess, PostLog, PostHistory, PostContext, AgentHandlers,
         CreateAgentConfig, UpdateAgentRead, UpdateAgentSave, DeleteAgent, LeaseLapses,
         vars, requestVars
<1> QED
    BY <1>6, <1>7, <1>8, <1>9, <1>10, <1>11, <1>12

-----------------------------------------------------------------------------
(* The invariant.                                                          *)

LEMMA InitIInv == Init => IInv
<1> SUFFICES ASSUME Init PROVE IInv
    OBVIOUS
<1> USE PipelineAssumption DEF Init, LeaseInit
<1>1. CoreOK
      BY DEF CoreOK, Lineages
<1>2. FlagsOK
      BY Zenon DEF FlagsOK
<1>3. HoldersAreRunning
      BY DEF HoldersAreRunning, Running
<1>4. LateIsPersisted /\ AtMostOneHolder /\ HolderSeesCurrentState
      BY DEF LateIsPersisted, AtMostOneHolder, HolderSeesCurrentState
<1> QED
    BY <1>1, <1>2, <1>3, <1>4 DEF IInv

LEMMA IInvStep == IInv /\ [Next]_vars => IInv'
<1> SUFFICES ASSUME IInv, [Next]_vars PROVE IInv'
    OBVIOUS
<1>1. CoreOK' /\ FlagsOK'
      BY CoreStep, FlagsStep DEF IInv
<1>2. HoldersAreRunning' /\ LateIsPersisted'
      BY HoldersStep, LateStep DEF IInv
<1>3. AtMostOneHolder' /\ HolderSeesCurrentState'
      BY LockStep, SeesStep DEF IInv
<1> QED
    BY <1>1, <1>2, <1>3 DEF IInv

LEMMA Invariance == Spec => []IInv
  BY InitIInv, IInvStep, PTL DEF Spec

(* Execute runs for at most one request of an agent as long as no lease    *)
(* lapsed: withAgentLock passes the promise of the lease on to its body.   *)
THEOREM OneInteractionAtATime == Spec => [](AtMostOneHolder /\ HoldersAreRunning)
<1>1. IInv => AtMostOneHolder /\ HoldersAreRunning
      BY DEF IInv
<1> QED
    BY <1>1, Invariance, PTL

(* Between step 1 and the return of Execute nothing changes the state of   *)
(* the agent under a request whose lease holds, except CreateAgent and a   *)
(* late SET.                                                               *)
THEOREM LoadedStateIsCurrent == Spec => []HolderSeesCurrentState
<1>1. IInv => HolderSeesCurrentState
      BY DEF IInv
<1> QED
    BY <1>1, Invariance, PTL

(* One step of StateIsCumulative, for one agent. *)
Grows(a) == Undisturbed(a) /\ state'[a] # state[a] =>
              \/ \E r \in Requests : state'[a] = Append(OrDefault(state[a]), r)
              \/ \E r \in late \ late' : state'[a] = NextState(r)
              \/ admin[a] = "create_state" /\ state'[a] = <<>>

LEMMA GrowsStep ==
  ASSUME IInv, Next, NEW a \in Agents
  PROVE  Grows(a)
<1> SUFFICES ASSUME Undisturbed(a), state'[a] # state[a] PROVE Grows(a)
    BY DEF Grows
<1> USE PipelineAssumption
<1>1. CoreOK
      BY DEF IInv
<1>2. ASSUME NEW r \in Requests, Persist(r) \/ PersistFails(r) PROVE Grows(a)
  <2>1. AgentOf[r] = a /\ state'[a] = NextState(r) /\ step[r] = "persist"
        BY <1>1, <1>2 DEF Persist, PersistFails, CoreOK
  <2>2. OrDefault(state[a]) = base[r]
        BY <2>1 DEF IInv, HolderSeesCurrentState
  <2> QED
      BY <2>1, <2>2 DEF Grows, NextState
<1>3. ASSUME NEW r \in Requests, LateSet(r) PROVE Grows(a)
  <2>1. r \in late \ late'
        BY <1>3 DEF LateSet
  <2>2. state'[a] = NextState(r)
        BY <1>1, <1>3 DEF LateSet, CoreOK
  <2> QED
      BY <2>1, <2>2 DEF Grows
<1>4. ASSUME NEW b \in Agents, CreateAgentState(b) PROVE Grows(a)
      BY <1>1, <1>4 DEF CreateAgentState, CoreOK, Grows
<1>5. \/ \E r \in Requests : Persist(r) \/ PersistFails(r) \/ LateSet(r)
      \/ \E b \in Agents : CreateAgentState(b)
      \/ UNCHANGED state
      BY Zenon DEF Next, Execute, Enter, LoadState, LoadConfig, BootstrapConfig, Compute,
         Retrieve, Generate, ReturnOutput, ReturnError, BootstrapReplyLost, PostProcess,
         PostLog, PostHistory, PostContext, AgentHandlers, CreateAgentConfig,
         UpdateAgentRead, UpdateAgentSave, DeleteAgent, LeaseLapses, Crash
<1> QED
    BY <1>2, <1>3, <1>4, <1>5

(* No update of the emotional state is lost while the lease holds: what    *)
(* SetAgentState writes extends the state it replaces by one interaction.  *)
THEOREM NoLostUpdate == Spec => StateIsCumulative
<1>1. IInv /\ [Next]_vars => [\A a \in Agents : Grows(a)]_vars
      BY GrowsStep
<1>2. [\A a \in Agents : Grows(a)]_vars
      => [\A a \in Agents : Undisturbed(a) /\ state'[a] # state[a] =>
            \/ \E r \in Requests : state'[a] = Append(OrDefault(state[a]), r)
            \/ \E r \in late \ late' : state'[a] = NextState(r)
            \/ admin[a] = "create_state" /\ state'[a] = <<>>]_vars
      BY DEF Grows
<1> QED
    BY <1>1, <1>2, Invariance, PTL DEF Spec, StateIsCumulative

-----------------------------------------------------------------------------
(* Postgres.                                                               *)

(* The variables of the second half of Execute and of the agent handlers,  *)
(* typed; config is apart from them because its values are Booleans.       *)
RestOK ==
  /\ contextBase \in [Requests -> Lineages]
  /\ background \in [Requests -> {"none", "done", "lost"} \cup PostSteps]
  /\ interactionLog \in [Agents -> SUBSET Requests]
  /\ emotionHistory \in [Agents -> SUBSET Requests]
  /\ context \in [Agents -> Lineages \cup {NoState}]
  /\ admin \in [Agents -> {"none", "create_state", "update"}]
  /\ adminCalls \in 0..MaxAdmin

ConfigOK == config \in [Agents -> BOOLEAN]

restVars == <<contextBase, background, interactionLog, emotionHistory, context, admin,
              adminCalls>>

(* Every step keeps these variables in their sets. *)
LEMMA RestStep == RestOK /\ [Next]_vars => RestOK'
<1> SUFFICES ASSUME RestOK, [Next]_vars PROVE RestOK'
    OBVIOUS
<1> USE PipelineAssumption DEF RestOK, PostSteps
<1>1. ASSUME UNCHANGED restVars PROVE RestOK'
      BY <1>1 DEF restVars
<1>2. ASSUME NEW r \in Requests, Retrieve(r) PROVE RestOK'
  <2>1. OrDefault(context[AgentOf[r]]) \in Lineages
        BY DEF OrDefault, Lineages
  <2> QED
      BY <1>2, <2>1 DEF Retrieve, postgresVars, adminVars
<1>3. ASSUME NEW r \in Requests, Generate(r) PROVE RestOK'
      BY <1>3 DEF Generate, postgresVars, adminVars
<1>4. ASSUME NEW r \in Requests, PostLog(r) \/ PostHistory(r) PROVE RestOK'
      BY <1>4 DEF PostLog, PostHistory, AddRow, requestVars, adminVars
<1>5. ASSUME NEW r \in Requests, PostContext(r) PROVE RestOK'
  <2>1. Append(contextBase[r], r) \in Lineages
        BY DEF Lineages
  <2> QED
      BY <1>5, <2>1 DEF PostContext, requestVars, adminVars
<1>6. ASSUME NEW a \in Agents, AgentHandlers(a) PROVE RestOK'
      BY <1>6 DEF AgentHandlers, CreateAgentConfig, CreateAgentState, UpdateAgentRead,
         UpdateAgentSave, DeleteAgent, requestVars, postgresVars
<1>7. ASSUME NEW p \in Processes, Crash(p) PROVE RestOK'
      BY <1>7 DEF Crash, postgresVars, adminVars
<1>8. \/ UNCHANGED restVars
      \/ \E r \in Requests : \/ Retrieve(r) \/ Generate(r) \/ PostLog(r)
                             \/ PostHistory(r) \/ PostContext(r)
      \/ \E a \in Agents : AgentHandlers(a)
      \/ \E p \in Processes : Crash(p)
      BY Zenon DEF Next, Execute, Enter, LoadState, LoadConfig, BootstrapConfig, Compute,
         Persist, ReturnOutput, ReturnError, BootstrapReplyLost, PersistFails, LateSet,
         PostProcess, LeaseLapses, vars, requestVars, postgresVars, adminVars, restVars
<1> QED
    BY <1>1, <1>2, <1>3, <1>4, <1>5, <1>6, <1>7, <1>8

(* A configuration disappears only with everything that refers to it. *)
ConfigKept ==
  \A a \in Agents : config[a] => \/ config'[a]
                                 \/ /\ interactionLog'[a] = {} /\ emotionHistory'[a] = {}
                                    /\ context'[a] = NoState

(* The configurations stay Boolean, and go with what refers to them. *)
LEMMA ConfigStep ==
  ASSUME RestOK, ConfigOK, [Next]_vars
  PROVE  ConfigOK' /\ ConfigKept
<1> USE PipelineAssumption DEF ConfigOK, ConfigKept
<1>1. ASSUME NEW a \in Agents, config' \in {config, [config EXCEPT ![a] = TRUE]}
      PROVE  ConfigOK' /\ ConfigKept
      BY <1>1, Zenon
<1>2. ASSUME NEW a \in Agents, DeleteAgent(a) PROVE ConfigOK' /\ ConfigKept
  <2>1. /\ interactionLog'[a] = {} /\ emotionHistory'[a] = {}
        /\ context'[a] = NoState
        BY <1>2 DEF DeleteAgent, RestOK
  <2> QED
      BY <1>2, <2>1, Zenon DEF DeleteAgent
<1>3. \/ UNCHANGED config
      \/ \E a \in Agents : config' \in {config, [config EXCEPT ![a] = TRUE]}
      \/ \E a \in Agents : DeleteAgent(a)
  <2>1. \A r \in Requests : AgentOf[r] \in Agents
        OBVIOUS
  <2> QED
      BY <2>1, Zenon DEF Next, Execute, Enter, LoadState, LoadConfig, BootstrapConfig, Compute,
         Persist, Retrieve, Generate, ReturnOutput, ReturnError, BootstrapReplyLost,
         PersistFails, LateSet, PostProcess, PostLog, PostHistory, PostContext,
         AgentHandlers, CreateAgentConfig, CreateAgentState, UpdateAgentRead,
         UpdateAgentSave, LeaseLapses, Crash, vars, postgresVars
<1>4. ASSUME UNCHANGED config PROVE ConfigOK' /\ ConfigKept
      BY <1>4, Zenon
<1> QED
    BY <1>1, <1>2, <1>3, <1>4, Zenon

-----------------------------------------------------------------------------
(* The rows.                                                               *)

Justified == {"dispatched", "ok", "crashed"}

(* Post-processing runs only for a request that was answered. *)
PostFollowsAnswer == \A r \in Requests : background[r] # "none" => step[r] \in Justified

(* A row was written by the post-processing of a request for its agent. *)
RowsAreOwned ==
  \A a \in Agents : \A r \in interactionLog[a] \cup emotionHistory[a] :
    AgentOf[r] = a /\ background[r] # "none"

(* What refers to an agent has its configuration. *)
Refers(a) == interactionLog[a] \cup emotionHistory[a] # {} \/ context[a] # NoState

ReferencesHold == \A a \in Agents : Refers(a) => config[a]

(* The inductive invariant of the rows, and of the types. *)
RowsInv == /\ CoreOK /\ FlagsOK /\ RestOK /\ ConfigOK
           /\ PostFollowsAnswer
           /\ RowsAreOwned
           /\ ReferencesHold

(* Post-processing starts after the answer and never goes back to "none". *)
LEMMA PostStep ==
  ASSUME CoreOK, RestOK, PostFollowsAnswer, [Next]_vars
  PROVE  /\ PostFollowsAnswer'
         /\ \A r \in Requests : background[r] # "none" => background'[r] # "none"
<1> DEFINE Goal == /\ PostFollowsAnswer'
                   /\ \A r \in Requests : background[r] # "none" => background'[r] # "none"
<1> USE DEF CoreOK, RestOK, PostFollowsAnswer, Justified, Running, PostSteps
<1>1. ASSUME UNCHANGED <<step, background>> PROVE Goal
      BY <1>1
<1>2. ASSUME NEW r \in Requests, NEW s, step[r] \notin Justified \/ s \in Justified,
             GoTo(r, s), UNCHANGED background
      PROVE  Goal
      BY <1>2 DEF GoTo
<1>3. ASSUME NEW r \in Requests, Generate(r) PROVE Goal
      BY <1>3 DEF Generate, GoTo
<1>4. ASSUME NEW r \in Requests, PostProcess(r) PROVE Goal
      BY <1>4 DEF PostProcess, PostLog, PostHistory, PostContext, requestVars
<1>5. ASSUME NEW p \in Processes, Crash(p) PROVE Goal
      BY <1>5 DEF Crash
<1>6. ASSUME NEW r \in Requests, Enter(r) PROVE Goal
      BY <1>2, <1>6 DEF Enter
<1>7. ASSUME NEW r \in Requests, Execute(r), ~Generate(r) PROVE Goal
      BY <1>2, <1>7 DEF Execute, LoadState, LoadConfig, BootstrapConfig, Compute, Persist,
         Retrieve, ReturnOutput, ReturnError, BootstrapReplyLost, PersistFails
<1>8. \/ UNCHANGED <<step, background>>
      \/ \E r \in Requests : Enter(r) \/ Execute(r) \/ PostProcess(r)
      \/ \E p \in Processes : Crash(p)
      BY Zenon DEF Next, LateSet, AgentHandlers, CreateAgentConfig, CreateAgentState,
         UpdateAgentRead, UpdateAgentSave, DeleteAgent, LeaseLapses, vars, requestVars
<1> QED
    BY <1>1, <1>3, <1>4, <1>5, <1>6, <1>7, <1>8

(* Rows are added by PostLog and PostHistory only, for their own request   *)
(* and its agent.                                                          *)
LEMMA RowsStep ==
  ASSUME CoreOK, RestOK, PostFollowsAnswer, RowsAreOwned, [Next]_vars
  PROVE  RowsAreOwned'
<1> USE PipelineAssumption DEF RestOK, RowsAreOwned
<1>1. \A r \in Requests : background[r] # "none" => background'[r] # "none"
      BY PostStep
<1>2. ASSUME \A a \in Agents : /\ interactionLog'[a] \subseteq interactionLog[a]
                               /\ emotionHistory'[a] \subseteq emotionHistory[a]
      PROVE  RowsAreOwned'
      BY <1>1, <1>2
<1>3. ASSUME NEW r \in Requests, PostLog(r) \/ PostHistory(r) PROVE RowsAreOwned'
  <2>1. background'[r] # "none"
        BY <1>3 DEF PostLog, PostHistory
  <2>2. \A a \in Agents : interactionLog'[a] \cup emotionHistory'[a]
          \subseteq interactionLog[a] \cup emotionHistory[a]
                    \cup IF AgentOf[r] = a THEN {r} ELSE {}
        BY <1>3 DEF PostLog, PostHistory, AddRow
  <2> QED
      BY <1>1, <2>1, <2>2
<1>4. ASSUME NEW a \in Agents, DeleteAgent(a) PROVE RowsAreOwned'
      BY <1>2, <1>4 DEF DeleteAgent
<1>5. \/ UNCHANGED <<interactionLog, emotionHistory>>
      \/ \E r \in Requests : PostLog(r) \/ PostHistory(r)
      \/ \E a \in Agents : DeleteAgent(a)
      BY Zenon DEF Next, Execute, Enter, LoadState, LoadConfig, BootstrapConfig, Compute,
         Persist, Retrieve, Generate, ReturnOutput, ReturnError, BootstrapReplyLost,
         PersistFails, LateSet, PostProcess, PostContext, AgentHandlers, CreateAgentConfig,
         CreateAgentState, UpdateAgentRead, UpdateAgentSave, LeaseLapses, Crash, vars,
         postgresVars
<1> QED
    BY <1>2, <1>3, <1>4, <1>5

(* Whatever starts to refer to an agent was checked against its            *)
(* configuration by the foreign keys, and a deletion takes all of it.      *)
LEMMA ReferencesStep ==
  ASSUME RestOK, ConfigOK, ReferencesHold, [Next]_vars
  PROVE  ReferencesHold'
<1> SUFFICES ASSUME NEW a \in Agents, Refers(a)' PROVE config'[a]
    BY Zenon DEF ReferencesHold
<1> USE PipelineAssumption
<1>1. ASSUME config[a] PROVE config'[a]
  <2>1. ConfigKept
        BY ConfigStep
  <2>2. ~(/\ interactionLog'[a] = {} /\ emotionHistory'[a] = {}
          /\ context'[a] = NoState)
        BY DEF Refers
  <2> QED
      BY <1>1, <2>1, <2>2, Zenon DEF ConfigKept
<1>2. ASSUME Refers(a) PROVE config'[a]
      BY <1>1, <1>2, Zenon DEF ReferencesHold
<1>3. ASSUME NEW r \in Requests, PostLog(r) \/ PostHistory(r) \/ PostContext(r)
      PROVE  Refers(a) \/ config[a]
  <2>1. \/ UNCHANGED <<interactionLog, emotionHistory, context>>
        \/ /\ config[AgentOf[r]]
           /\ \A b \in Agents : b # AgentOf[r] => /\ interactionLog'[b] = interactionLog[b]
                                                  /\ emotionHistory'[b] = emotionHistory[b]
                                                  /\ context'[b] = context[b]
        BY <1>3 DEF PostLog, PostHistory, PostContext, AddRow, RestOK
  <2>2. CASE UNCHANGED <<interactionLog, emotionHistory, context>>
        BY <2>2 DEF Refers
  <2>3. CASE a # AgentOf[r] /\ ~UNCHANGED <<interactionLog, emotionHistory, context>>
        BY <2>1, <2>3 DEF Refers
  <2>4. CASE a = AgentOf[r] /\ ~UNCHANGED <<interactionLog, emotionHistory, context>>
        BY <2>1, <2>4, Zenon
  <2> QED
      BY <2>2, <2>3, <2>4
<1>4. ASSUME NEW b \in Agents, DeleteAgent(b) PROVE Refers(a)
      BY <1>4 DEF DeleteAgent, Refers, RestOK
<1>5. ASSUME UNCHANGED <<interactionLog, emotionHistory, context>> PROVE Refers(a)
      BY <1>5 DEF Refers
<1>6. \/ UNCHANGED <<interactionLog, emotionHistory, context>>
      \/ \E r \in Requests : PostLog(r) \/ PostHistory(r) \/ PostContext(r)
      \/ \E b \in Agents : DeleteAgent(b)
      BY Zenon DEF Next, Execute, Enter, LoadState, LoadConfig, BootstrapConfig, Compute,
         Persist, Retrieve, Generate, ReturnOutput, ReturnError, BootstrapReplyLost,
         PersistFails, LateSet, PostProcess, AgentHandlers, CreateAgentConfig,
         CreateAgentState, UpdateAgentRead, UpdateAgentSave, LeaseLapses, Crash, vars,
         postgresVars
<1> QED
    BY <1>1, <1>2, <1>3, <1>4, <1>5, <1>6, Zenon

LEMMA InitRowsInv == Init => RowsInv
<1> SUFFICES ASSUME Init PROVE RowsInv
    OBVIOUS
<1> USE PipelineAssumption
<1>1. CoreOK /\ FlagsOK
      BY InitIInv DEF IInv
<1>2. RestOK
      BY DEF Init, RestOK, Lineages
<1>3. ConfigOK
      BY Zenon DEF Init, ConfigOK
<1>4. PostFollowsAnswer /\ RowsAreOwned
      BY DEF Init, PostFollowsAnswer, RowsAreOwned
<1>5. \A a \in Agents : ~Refers(a)
      BY DEF Init, Refers
<1> QED
    BY <1>1, <1>2, <1>3, <1>4, <1>5, Zenon DEF RowsInv, ReferencesHold

LEMMA RowsInvStep == RowsInv /\ [Next]_vars => RowsInv'
<1> SUFFICES ASSUME RowsInv, [Next]_vars PROVE RowsInv'
    OBVIOUS
<1> USE DEF RowsInv
<1>1. CoreOK' /\ FlagsOK' /\ RestOK' /\ ConfigOK'
      BY CoreStep, FlagsStep, RestStep, ConfigStep
<1>2. PostFollowsAnswer' /\ RowsAreOwned' /\ ReferencesHold'
      BY PostStep, RowsStep, ReferencesStep
<1> QED
    BY <1>1, <1>2

LEMMA RowsInvariance == Spec => []RowsInv
  BY InitRowsInv, RowsInvStep, PTL DEF Spec

(* Every variable of the pipeline keeps its type: the engine is always     *)
(* given a state, and a write of Postgres never makes anything else.       *)
THEOREM TypeCorrect == Spec => []TypeOK
<1>1. RowsInv => TypeOK
      BY Zenon DEF RowsInv, CoreOK, FlagsOK, RestOK, ConfigOK, TypeOK, LeaseTypeOK
<1> QED
    BY <1>1, RowsInvariance, PTL

(* However the detached post-processing of stepPostProcess interleaves     *)
(* with deletions and crashes, a row belongs to an agent that is           *)
(* configured, and to an interaction that was answered.                    *)
THEOREM RowsJustified == Spec => []RowsAreJustified
<1>1. RowsInv => RowsAreJustified
  <2> SUFFICES ASSUME RowsInv, NEW a \in Agents
               PROVE  /\ Refers(a) => config[a]
                      /\ \A r \in interactionLog[a] \cup emotionHistory[a] :
                           /\ AgentOf[r] = a
                           /\ background[r] # "none"
                           /\ step[r] \in {"dispatched", "ok", "crashed"}
      BY Zenon DEF RowsAreJustified, Refers
  <2>1. Refers(a) => config[a]
        BY Zenon DEF RowsInv, ReferencesHold
  <2>2. ASSUME NEW r \in interactionLog[a] \cup emotionHistory[a]
        PROVE  /\ AgentOf[r] = a /\ background[r] # "none"
               /\ step[r] \in {"dispatched", "ok", "crashed"}
        BY DEF RowsInv, RestOK, RowsAreOwned, PostFollowsAnswer, Justified
  <2> QED
      BY <2>1, <2>2, Zenon
<1> QED
    BY <1>1, RowsInvariance, PTL

=============================================================================
