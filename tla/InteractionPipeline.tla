------------------------ MODULE InteractionPipeline ------------------------
(***************************************************************************)
(* One interaction with an agent, from the lock to the post-processing:    *)
(* Orchestrator.Execute and ExecuteStream with the eight steps of          *)
(* prepareGeneration, stepGenerate and stepPostProcess, next to the        *)
(* handlers that create, update and delete agents without the lock.        *)
(*                                                                         *)
(* The lock is the lease of LeaseLock, which AgentLock implements.  An     *)
(* emotional state is represented by the sequence of the interactions that *)
(* led to it: the engine computes the next state from the one it is given, *)
(* so a state that lacks an interaction has lost its update.  In the same  *)
(* way a cognitive context is the sequence of the interactions folded into *)
(* it.  Perception, ranking, prompt and text carry no state and are left   *)
(* out; each may fail.  Memories are the subject of MemoryLifecycle; the   *)
(* turns pushed to working memory touch nothing that is modelled here.     *)
(*                                                                         *)
(* A SET of the state whose attempt timed out may still be on its way to   *)
(* Redis when a later attempt, or the request itself, is long over: late   *)
(* keeps these commands.                                                   *)
(***************************************************************************)
EXTENDS LeaseLock, Sequences, Naturals

CONSTANTS Processes,  \* orchestrator processes
          ProcOf,     \* the process that serves a request
          AgentOf,    \* the agent a request is for
          MaxAdmin,   \* bound: calls of the agent handlers
          NoState     \* no key emotion_state:<id>, no row of the agent

ASSUME PipelineAssumption ==
  /\ ProcOf \in [Requests -> Processes]
  /\ AgentOf \in [Requests -> Agents]
  /\ MaxAdmin \in Nat
  /\ NoState \notin Seq(Requests)

VARIABLES step,        \* where Execute is for a request
          base,        \* the agent state a request loaded in step 1
          contextBase, \* the cognitive context it retrieved in step 5
          background,  \* where its post-processing goroutine is
          state,       \* Redis: emotion_state:<id>
          late,        \* requests with a SET of their state still on its way
          config,      \* Postgres: the agent has a row in agent_configs
          interactionLog, emotionHistory,  \* Postgres: rows per agent
          context,     \* Postgres: cognitive_contexts
          admin,       \* what the agent handler of an agent still has to do
          adminCalls,  \* agent handler calls so far
          overridden   \* history: the state was set under a lock holder by
                       \* CreateAgent or by a late SET

requestVars == <<step, base, contextBase>>
postgresVars == <<config, interactionLog, emotionHistory, context>>
adminVars == <<admin, adminCalls>>
vars == <<leaseVars, requestVars, background, state, late, postgresVars,
          adminVars, overridden>>

Lineages == Seq(Requests)

Running == {"load", "config", "bootstrap", "compute", "persist", "retrieve",
            "generate", "dispatched"}
Finished == {"ok", "error", "crashed"}
PostSteps == {"log", "history", "context"}

(* The variables keep their types; in particular the engine is always      *)
(* given a state, the default one when Redis has none (prepareGeneration). *)
TypeOK ==
  /\ LeaseTypeOK
  /\ step \in [Requests -> {"idle"} \cup Running \cup Finished]
  /\ base \in [Requests -> Lineages]
  /\ contextBase \in [Requests -> Lineages]
  /\ background \in [Requests -> {"none", "done", "lost"} \cup PostSteps]
  /\ state \in [Agents -> Lineages \cup {NoState}]
  /\ late \subseteq Requests
  /\ config \in [Agents -> BOOLEAN]
  /\ interactionLog \in [Agents -> SUBSET Requests]
  /\ emotionHistory \in [Agents -> SUBSET Requests]
  /\ context \in [Agents -> Lineages \cup {NoState}]
  /\ admin \in [Agents -> {"none", "create_state", "update"}]
  /\ adminCalls \in 0..MaxAdmin
  /\ overridden \in [Agents -> BOOLEAN]

Init ==
  /\ LeaseInit
  /\ step = [r \in Requests |-> "idle"]
  /\ base = [r \in Requests |-> <<>>]
  /\ contextBase = [r \in Requests |-> <<>>]
  /\ background = [r \in Requests |-> "none"]
  /\ state = [a \in Agents |-> NoState]
  /\ late = {}
  /\ config = [a \in Agents |-> FALSE]
  /\ interactionLog = [a \in Agents |-> {}]
  /\ emotionHistory = [a \in Agents |-> {}]
  /\ context = [a \in Agents |-> NoState]
  /\ admin = [a \in Agents |-> "none"]
  /\ adminCalls = 0
  /\ overridden = [a \in Agents |-> FALSE]

(* DefaultAgentState and DefaultCognitiveContext: no interaction yet. *)
OrDefault(value) == IF value = NoState THEN <<>> ELSE value

GoTo(r, s) == step' = [step EXCEPT ![r] = s]

(* withAgentLock returns: requests S no longer hold their locks. *)
Return(S) ==
  /\ Leave(S)
  /\ overridden' = [a \in Agents |-> overridden[a] /\ holders[a] \ S # {}]

-----------------------------------------------------------------------------
(* Execute.                                                                *)

(* Faulty variant for mutation testing: fn runs without the lock. *)
EnterWithoutLock(r) ==
  /\ step[r] = "idle"
  /\ holders' = [holders EXCEPT ![AgentOf[r]] = @ \cup {r}]
  /\ GoTo(r, "load")
  /\ UNCHANGED <<broken, base, contextBase, background, state, late, postgresVars,
                 adminVars, overridden>>

(* withAgentLock got the lock and calls fn. *)
Enter(r) ==
  /\ step[r] = "idle"
  /\ Grant(AgentOf[r], r)
  /\ GoTo(r, "load")
  /\ UNCHANGED <<base, contextBase, background, state, late, postgresVars,
                 adminVars, overridden>>

(* Faulty variant for mutation testing: a missing state is used as it is. *)
LoadStateNoDefault(r) ==
  /\ step[r] = "load"
  /\ base' = [base EXCEPT ![r] = state[AgentOf[r]]]
  /\ GoTo(r, "config")
  /\ UNCHANGED <<leaseVars, contextBase, background, state, late,
                 postgresVars, adminVars, overridden>>

(* Step 1: GetAgentState, or the default state when there is none. *)
LoadState(r) ==
  /\ step[r] = "load"
  /\ base' = [base EXCEPT ![r] = OrDefault(state[AgentOf[r]])]
  /\ GoTo(r, "config")
  /\ UNCHANGED <<leaseVars, contextBase, background, state, late,
                 postgresVars, adminVars, overridden>>

(* Step 1: GetAgentConfig. *)
LoadConfig(r) ==
  /\ step[r] = "config"
  /\ GoTo(r, IF config[AgentOf[r]] THEN "compute" ELSE "bootstrap")
  /\ UNCHANGED <<leaseVars, base, contextBase, background, state, late,
                 postgresVars, adminVars, overridden>>

(* Step 1: SaveAgentConfig of the default configuration. *)
BootstrapConfig(r) ==
  /\ step[r] = "bootstrap"
  /\ config' = [config EXCEPT ![AgentOf[r]] = TRUE]
  /\ GoTo(r, "compute")
  /\ UNCHANGED <<leaseVars, base, contextBase, background, state, late,
                 interactionLog, emotionHistory, context, adminVars, overridden>>

(* Steps 2 and 3: the classifier, then the emotion engine. *)
Compute(r) ==
  /\ step[r] = "compute"
  /\ GoTo(r, "persist")
  /\ UNCHANGED <<leaseVars, base, contextBase, background, state, late,
                 postgresVars, adminVars, overridden>>

(* Faulty variant for mutation testing: the loaded state is not the input. *)
NextStateFromDefault(r) == <<r>>

(* Step 4: SetAgentState writes the state computed from the loaded one. *)
NextState(r) == Append(base[r], r)

(* An attempt before the last one may have left a command on its way.      *)
Persist(r) ==
  /\ step[r] = "persist"
  /\ state' = [state EXCEPT ![AgentOf[r]] = NextState(r)]
  /\ late' \in {late, late \cup {r}}
  /\ GoTo(r, "retrieve")
  /\ UNCHANGED <<leaseVars, base, contextBase, background,
                 postgresVars, adminVars, overridden>>

(* Steps 5 and 6: the four parallel reads, of which only the cognitive     *)
(* context comes back to the database later; ranking and the prompt.       *)
Retrieve(r) ==
  /\ step[r] = "retrieve"
  /\ contextBase' = [contextBase EXCEPT ![r] = OrDefault(context[AgentOf[r]])]
  /\ GoTo(r, "generate")
  /\ UNCHANGED <<leaseVars, base, background, state, late, postgresVars,
                 adminVars, overridden>>

(* Step 7, and the dispatch of step 8 to a goroutine with a detached       *)
(* context, before the lock is released.                                   *)
Generate(r) ==
  /\ step[r] = "generate"
  /\ background' = [background EXCEPT ![r] = "log"]
  /\ GoTo(r, "dispatched")
  /\ UNCHANGED <<leaseVars, base, contextBase, state, late, postgresVars,
                 adminVars, overridden>>

(* Execute returns its output and the deferred release runs. *)
ReturnOutput(r) ==
  /\ step[r] = "dispatched"
  /\ GoTo(r, "ok")
  /\ Return({r})
  /\ UNCHANGED <<base, contextBase, background, state, late, postgresVars,
                 adminVars>>

(* A step of fn returns an error (a dependency, the step's timeout, the    *)
(* cancelled request, a stream callback): nothing is undone.               *)
ReturnError(r) ==
  /\ step[r] \in Running \ {"dispatched", "persist"}
  /\ GoTo(r, "error")
  /\ Return({r})
  /\ UNCHANGED <<base, contextBase, background, state, late, postgresVars,
                 adminVars>>

(* The two writes of prepareGeneration may have been executed when they    *)
(* fail for the caller, and SET may be executed after that.                *)
BootstrapReplyLost(r) ==
  /\ step[r] = "bootstrap"
  /\ config' = [config EXCEPT ![AgentOf[r]] = TRUE]
  /\ GoTo(r, "error")
  /\ Return({r})
  /\ UNCHANGED <<base, contextBase, background, state, late,
                 interactionLog, emotionHistory, context, adminVars>>

PersistFails(r) ==
  /\ step[r] = "persist"
  /\ state' \in {state, [state EXCEPT ![AgentOf[r]] = NextState(r)]}
  /\ late' \in {late, late \cup {r}}
  /\ GoTo(r, "error")
  /\ Return({r})
  /\ UNCHANGED <<base, contextBase, background, postgresVars, adminVars>>

(* Redis executes a SET that nobody waits for. *)
LateSet(r) ==
  /\ r \in late
  /\ late' = late \ {r}
  /\ state' = [state EXCEPT ![AgentOf[r]] = NextState(r)]
  /\ overridden' = [overridden EXCEPT ![AgentOf[r]] = @ \/ holders[AgentOf[r]] \ {r} # {}]
  /\ UNCHANGED <<leaseVars, requestVars, background, postgresVars, adminVars>>

-----------------------------------------------------------------------------
(* stepPostProcess.  Every write may fail and its error is dropped; rows   *)
(* need their agent_configs row, which the foreign keys check.             *)

AddRow(table, r) == [table EXCEPT ![AgentOf[r]] = @ \cup {r}]

(* Faulty variant for mutation testing: no foreign key. *)
PostLogUnchecked(r) ==
  /\ background[r] = "log"
  /\ background' = [background EXCEPT ![r] = "history"]
  /\ interactionLog' = AddRow(interactionLog, r)
  /\ UNCHANGED <<leaseVars, requestVars, state, late, config, emotionHistory,
                 context, adminVars, overridden>>

PostLog(r) ==
  /\ background[r] = "log"
  /\ background' = [background EXCEPT ![r] = "history"]
  /\ \/ config[AgentOf[r]] /\ interactionLog' = AddRow(interactionLog, r)
     \/ UNCHANGED interactionLog
  /\ UNCHANGED <<leaseVars, requestVars, state, late, config, emotionHistory,
                 context, adminVars, overridden>>

PostHistory(r) ==
  /\ background[r] = "history"
  /\ background' = [background EXCEPT ![r] = "context"]
  /\ \/ config[AgentOf[r]] /\ emotionHistory' = AddRow(emotionHistory, r)
     \/ UNCHANGED emotionHistory
  /\ UNCHANGED <<leaseVars, requestVars, state, late, config, interactionLog,
                 context, adminVars, overridden>>

(* UpdateCognitiveContext writes the context retrieved in step 5, updated. *)
PostContext(r) ==
  /\ background[r] = "context"
  /\ background' = [background EXCEPT ![r] = "done"]
  /\ \/ /\ config[AgentOf[r]]
        /\ context' = [context EXCEPT ![AgentOf[r]] = Append(contextBase[r], r)]
     \/ UNCHANGED context
  /\ UNCHANGED <<leaseVars, requestVars, state, late, config, interactionLog,
                 emotionHistory, adminVars, overridden>>

-----------------------------------------------------------------------------
(* The agent handlers, which take no lock.  At most one CreateAgent or     *)
(* UpdateAgent of an agent is under way at a time.                         *)

(* CreateAgent: SaveAgentConfig, then SetAgentState of the default state,  *)
(* whose error is dropped.  When the answer to the first is lost the       *)
(* handler returns its error; the second may be executed more than once.   *)
CreateAgentConfig(a) ==
  /\ admin[a] = "none" /\ adminCalls < MaxAdmin
  /\ adminCalls' = adminCalls + 1
  /\ config' = [config EXCEPT ![a] = TRUE]
  /\ admin' \in {admin, [admin EXCEPT ![a] = "create_state"]}
  /\ UNCHANGED <<leaseVars, requestVars, background, state, late,
                 interactionLog, emotionHistory, context, overridden>>

CreateAgentState(a) ==
  /\ admin[a] = "create_state"
  /\ admin' \in {admin, [admin EXCEPT ![a] = "none"]}
  /\ \/ /\ state' = [state EXCEPT ![a] = <<>>]
        /\ overridden' = [overridden EXCEPT ![a] = @ \/ holders[a] # {}]
     \/ UNCHANGED <<state, overridden>>
  /\ UNCHANGED <<leaseVars, requestVars, background, late, postgresVars, adminCalls>>

(* UpdateAgent: GetAgentConfig, then SaveAgentConfig of what was read, an  *)
(* upsert that may fail.                                                   *)
UpdateAgentRead(a) ==
  /\ admin[a] = "none" /\ adminCalls < MaxAdmin
  /\ config[a]
  /\ adminCalls' = adminCalls + 1
  /\ admin' = [admin EXCEPT ![a] = "update"]
  /\ UNCHANGED <<leaseVars, requestVars, background, state, late, postgresVars, overridden>>

UpdateAgentSave(a) ==
  /\ admin[a] = "update"
  /\ admin' = [admin EXCEPT ![a] = "none"]
  /\ config' \in {config, [config EXCEPT ![a] = TRUE]}
  /\ UNCHANGED <<leaseVars, requestVars, background, state, late,
                 interactionLog, emotionHistory, context, adminCalls, overridden>>

(* DeleteAgent: one transaction in Postgres; Redis keeps its keys. *)
DeleteAgent(a) ==
  /\ adminCalls < MaxAdmin
  /\ adminCalls' = adminCalls + 1
  /\ interactionLog' = [interactionLog EXCEPT ![a] = {}]
  /\ emotionHistory' = [emotionHistory EXCEPT ![a] = {}]
  /\ context' = [context EXCEPT ![a] = NoState]
  /\ config' = [config EXCEPT ![a] = FALSE]
  /\ UNCHANGED <<leaseVars, requestVars, background, state, late, admin, overridden>>

-----------------------------------------------------------------------------

(* The lease of a lock runs out while its holder is still at work. *)
LeaseLapses(a) ==
  /\ Lapse(a)
  /\ UNCHANGED <<requestVars, background, state, late, postgresVars,
                 adminVars, overridden>>

(* A process dies with its requests and its post-processing goroutines.    *)
Crash(p) ==
  LET lost == {r \in Requests : ProcOf[r] = p /\ step[r] \in Running}
      cut == {r \in Requests : ProcOf[r] = p /\ background[r] \in PostSteps} IN
  /\ lost \cup cut # {}
  /\ step' = [r \in Requests |-> IF r \in lost THEN "crashed" ELSE step[r]]
  /\ background' = [r \in Requests |-> IF r \in cut THEN "lost" ELSE background[r]]
  /\ Return(lost)
  /\ UNCHANGED <<base, contextBase, state, late, postgresVars, adminVars>>

Execute(r) ==
  \/ LoadState(r) \/ LoadConfig(r) \/ BootstrapConfig(r) \/ Compute(r)
  \/ Persist(r) \/ Retrieve(r) \/ Generate(r) \/ ReturnOutput(r)
  \/ ReturnError(r) \/ BootstrapReplyLost(r) \/ PersistFails(r)

PostProcess(r) ==
  PostLog(r) \/ PostHistory(r) \/ PostContext(r)

AgentHandlers(a) ==
  \/ CreateAgentConfig(a) \/ CreateAgentState(a)
  \/ UpdateAgentRead(a) \/ UpdateAgentSave(a) \/ DeleteAgent(a)

Next ==
  \/ \E r \in Requests : Enter(r) \/ Execute(r) \/ LateSet(r) \/ PostProcess(r)
  \/ \E a \in Agents : AgentHandlers(a) \/ LeaseLapses(a)
  \/ \E p \in Processes : Crash(p)

Spec == Init /\ [][Next]_vars

-----------------------------------------------------------------------------
(* Properties.                                                             *)

Undisturbed(a) == ~broken[a] /\ ~overridden[a]

(* While the lease holds, and no CreateAgent and no late SET intervenes,   *)
(* what a request loaded in step 1 is still the agent's state when step 4  *)
(* replaces it, and what step 4 wrote is still there when it returns.      *)
HolderSeesCurrentState ==
  \A r \in Requests :
    LET a == AgentOf[r] IN
    Undisturbed(a) =>
      /\ step[r] \in {"config", "bootstrap", "compute", "persist"}
         => OrDefault(state[a]) = base[r]
      /\ step[r] \in {"retrieve", "generate", "dispatched"}
         => state[a] = NextState(r)

(* No lost update of the emotional state: in every step, under the same    *)
(* conditions, the state of an agent only grows by one interaction, unless *)
(* it is the late SET or the reset of CreateAgent itself.                  *)
StateIsCumulative ==
  [][\A a \in Agents : Undisturbed(a) /\ state'[a] # state[a] =>
       \/ \E r \in Requests : state'[a] = Append(OrDefault(state[a]), r)
       \/ \E r \in late \ late' : state'[a] = NextState(r)
       \/ admin[a] = "create_state" /\ state'[a] = <<>>]_vars

(* Rows appear in Postgres only for interactions that reached the user:    *)
(* state written, response generated.  None belongs to an agent without a  *)
(* configuration, whatever deletions and post-processing interleave.       *)
RowsAreJustified ==
  \A a \in Agents :
    LET rows == interactionLog[a] \cup emotionHistory[a] IN
    /\ rows # {} \/ context[a] # NoState => config[a]
    /\ \A r \in rows : /\ AgentOf[r] = a
                       /\ background[r] # "none"
                       /\ step[r] \in {"dispatched", "ok", "crashed"}

(* FASE_2_PLANO_CONTROLE.md: the lock per agent_id prevents lost updates.  *)
(* Two interactions never replace the same state of an agent.              *)
LockPreventsLostUpdates ==
  \A r, s \in Requests :
    r # s /\ AgentOf[r] = AgentOf[s] /\ step[r] = "ok" /\ step[s] = "ok"
    => base[r] # base[s]

=============================================================================
