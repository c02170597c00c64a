----------------------------- MODULE LeaseLock -----------------------------
(***************************************************************************)
(* What the per-agent lock of the orchestrator promises, with no Redis, no *)
(* token and no retry in it: a lease.  At most one request holds the lock  *)
(* of an agent until the lease of a holder lapses under it; from then on   *)
(* nothing is promised for that agent until every request that holds it    *)
(* has left, and after that the promise stands again.                      *)
(* AgentLock implements this specification, InteractionPipeline is built   *)
(* on it.                                                                  *)
(***************************************************************************)
EXTENDS FiniteSets

CONSTANTS Requests, Agents

VARIABLES holders,  \* holders[a]: the requests that believe they hold a's lock
          broken    \* broken[a]: a lease lapsed under one of the present holders

leaseVars == <<holders, broken>>

(* The lock of an agent has a set of holders and a flag. *)
LeaseTypeOK ==
  /\ holders \in [Agents -> SUBSET Requests]
  /\ broken \in [Agents -> BOOLEAN]

LeaseInit ==
  /\ holders = [a \in Agents |-> {}]
  /\ broken = [a \in Agents |-> FALSE]

-----------------------------------------------------------------------------

(* A request is told that it holds the lock of agent a. *)
Grant(a, r) ==
  /\ r \notin holders[a]
  /\ broken[a] \/ holders[a] = {}
  /\ holders' = [holders EXCEPT ![a] = @ \cup {r}]
  /\ UNCHANGED broken

(* Requests stop holding: one releases or gives up, or a process dies and  *)
(* takes all of its requests with it.  The last holder of an agent to      *)
(* leave makes its lock whole again.                                       *)
Leave(S) ==
  /\ holders' = [a \in Agents |-> holders[a] \ S]
  /\ broken' = [a \in Agents |-> broken[a] /\ holders[a] \ S # {}]

(* The lease of a present holder of a runs out. *)
Lapse(a) ==
  /\ holders[a] # {}
  /\ broken' = [broken EXCEPT ![a] = TRUE]
  /\ UNCHANGED holders

LeaseNext ==
  \/ \E a \in Agents, r \in Requests : Grant(a, r)
  \/ \E S \in SUBSET Requests : Leave(S)
  \/ \E a \in Agents : Lapse(a)

LeaseSpec == LeaseInit /\ [][LeaseNext]_leaseVars

-----------------------------------------------------------------------------

(* Mutual exclusion of the critical sections of one agent, for as long as  *)
(* no lease has lapsed among its present holders (withAgentLock).          *)
AtMostOneHolder ==
  \A a \in Agents : ~broken[a] => \A r, s \in holders[a] : r = s

=============================================================================
