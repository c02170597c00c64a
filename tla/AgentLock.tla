----------------------------- MODULE AgentLock -----------------------------
(***************************************************************************)
(* The per-agent lock of the orchestrator: the acquire loop of             *)
(* Orchestrator.withAgentLock, Client.AcquireAgentLock and                 *)
(* Client.ReleaseAgentLock with the retries of resilience.DoValue, the     *)
(* token map that all requests of one process share, and the Redis key     *)
(* agent_lock:<id> with its TTL.                                           *)
(*                                                                         *)
(* Commands to Redis travel through net.  One that is never executed is    *)
(* lost, one executed after its caller timed out is late, and a reply      *)
(* that is there when the caller times out is a lost reply.  Expire may    *)
(* hit a key at any moment after it was set: the TTL is 2 s and the        *)
(* critical section has no bound but the 2 minute HTTP timeout.            *)
(***************************************************************************)
EXTENDS Naturals, FiniteSets

CONSTANTS Requests,     \* HTTP requests, one goroutine each
          Processes,    \* orchestrator processes, one cache.Client each
          Agents,       \* agent ids
          ProcOf,       \* the process that serves a request
          AgentOf,      \* the agent a request is for
          AnonymousSets,\* sets of requests that may arrive with an empty agent_id
          Stuck,        \* requests whose client may stop reading for ever
          Attempts,     \* RetryPolicy.Attempts of the cache client (2)
          MaxAcquires,  \* bound: AcquireAgentLock calls of one request
          NoToken       \* no value: an absent key or map entry

ASSUME ConstantsAssumption ==
  /\ ProcOf \in [Requests -> Processes]
  /\ AgentOf \in [Requests -> Agents]
  /\ AnonymousSets \subseteq SUBSET Requests
  /\ Stuck \subseteq Requests
  /\ Attempts \in Nat \ {0}
  /\ MaxAcquires \in Nat \ {0}
  /\ NoToken \notin [req : Requests, call : 0..MaxAcquires]

VARIABLES anonymous,   \* the requests whose agent_id is ""
          pc,          \* where the goroutine of a request is
          calls,       \* AcquireAgentLock calls a request has made
          attempt,     \* the attempt of the current DoValue, 0 outside one
          reply,       \* the reply to the current attempt, if it is there
          relToken,    \* the token ReleaseAgentLock took from the map
          net,         \* commands sent to Redis and not executed
          redis,       \* value of agent_lock:<id>
          lockTokens,  \* Client.lockTokens of each process
          lapsed       \* history: a lease ran out under a present holder

vars == <<anonymous, pc, calls, attempt, reply, relToken, net, redis, lockTokens, lapsed>>

(* Each AcquireAgentLock call draws a fresh random token. *)
Tokens == [req : Requests, call : 0..MaxAcquires]
TokenOf(r) == [req |-> r, call |-> calls[r]]

PCs == {"start", "acquiring", "waiting", "locked", "critical", "releasing",
        "done", "failed", "crashed"}
Ended == {"done", "failed", "crashed"}

Messages == [kind : {"setnx", "release"}, by : Requests, token : Tokens,
             attempt : 1..Attempts]

(* The variables keep their types; in particular no command is ever sent   *)
(* as an attempt beyond the last one of the retry policy (resilience.Do).  *)
TypeOK ==
  /\ anonymous \subseteq Requests
  /\ pc \in [Requests -> PCs]
  /\ calls \in [Requests -> 0..MaxAcquires]
  /\ attempt \in [Requests -> 0..Attempts]
  /\ reply \in [Requests -> {"none", "yes", "no"}]
  /\ relToken \in [Requests -> Tokens \cup {NoToken}]
  /\ net \subseteq Messages
  /\ redis \in [Agents -> Tokens \cup {NoToken}]
  /\ lockTokens \in [Processes -> [Agents -> Tokens \cup {NoToken}]]
  /\ lapsed \in [Agents -> BOOLEAN]

Init ==
  /\ anonymous \in AnonymousSets
  /\ pc = [r \in Requests |-> "start"]
  /\ calls = [r \in Requests |-> 0]
  /\ attempt = [r \in Requests |-> 0]
  /\ reply = [r \in Requests |-> "none"]
  /\ relToken = [r \in Requests |-> NoToken]
  /\ net = {}
  /\ redis = [a \in Agents |-> NoToken]
  /\ lockTokens = [p \in Processes |-> [a \in Agents |-> NoToken]]
  /\ lapsed = [a \in Agents |-> FALSE]

(* The requests that Redis has told, or is about to tell, that they hold   *)
(* the lock of a, and that have not begun to release it.                   *)
Holds(r) == \/ pc[r] = "acquiring" /\ reply[r] = "yes"
            \/ pc[r] \in {"locked", "critical"}
Granted(a) == {r \in Requests : AgentOf[r] = a /\ Holds(r)}

(* Bookkeeping of the history variable when holders leave. *)
Settle == lapsed' = [a \in Agents |-> lapsed[a] /\ Granted(a)' # {}]

Command(kind, r, t, n) == [kind |-> kind, by |-> r, token |-> t, attempt |-> n]

-----------------------------------------------------------------------------
(* withAgentLock and AcquireAgentLock.                                     *)

(* agent_id is empty: withAgentLock returns an error at once. *)
RejectAnonymous(r) ==
  /\ pc[r] = "start"
  /\ r \in anonymous
  /\ pc' = [pc EXCEPT ![r] = "failed"]
  /\ UNCHANGED <<anonymous, calls, attempt, reply, relToken, net, redis, lockTokens, lapsed>>

(* One turn of the loop: a new token, first attempt of SETNX. *)
BeginAcquire(r) ==
  /\ pc[r] \in {"start", "waiting"}
  /\ r \notin anonymous
  /\ calls[r] < MaxAcquires
  /\ pc' = [pc EXCEPT ![r] = "acquiring"]
  /\ calls' = [calls EXCEPT ![r] = @ + 1]
  /\ attempt' = [attempt EXCEPT ![r] = 1]
  /\ reply' = [reply EXCEPT ![r] = "none"]
  /\ net' = net \cup {Command("setnx", r, TokenOf(r)', 1)}
  /\ UNCHANGED <<anonymous, relToken, redis, lockTokens, lapsed>>

(* Faulty variant for mutation testing: DoValue counts attempts from 0. *)
RetryAcquireOnceMore(r) ==
  /\ pc[r] = "acquiring"
  /\ attempt[r] <= Attempts
  /\ attempt' = [attempt EXCEPT ![r] = @ + 1]
  /\ reply' = [reply EXCEPT ![r] = "none"]
  /\ net' = net \cup {Command("setnx", r, TokenOf(r), attempt[r] + 1)}
  /\ UNCHANGED <<anonymous, pc, calls, relToken, redis, lockTokens>>
  /\ Settle

(* The attempt failed (100 ms timeout, connection error): DoValue sends    *)
(* the same SETNX again.  A reply that came in meanwhile is lost.          *)
RetryAcquire(r) ==
  /\ pc[r] = "acquiring"
  /\ attempt[r] < Attempts
  /\ attempt' = [attempt EXCEPT ![r] = @ + 1]
  /\ reply' = [reply EXCEPT ![r] = "none"]
  /\ net' = net \cup {Command("setnx", r, TokenOf(r), attempt[r] + 1)}
  /\ UNCHANGED <<anonymous, pc, calls, relToken, redis, lockTokens>>
  /\ Settle

GiveUp(r) ==
  /\ pc' = [pc EXCEPT ![r] = "failed"]
  /\ attempt' = [attempt EXCEPT ![r] = 0]
  /\ reply' = [reply EXCEPT ![r] = "none"]
  /\ UNCHANGED <<anonymous, calls, relToken, net, redis, lockTokens>>
  /\ Settle

(* The last attempt failed: the error ends the request. *)
AcquireError(r) ==
  /\ pc[r] = "acquiring"
  /\ attempt[r] = Attempts
  /\ GiveUp(r)

(* Faulty variant for mutation testing: the wait between two tries ignores ctx.Done(). *)
ContextDoneUnlessWaiting(r) ==
  /\ pc[r] \in {"start", "acquiring"}
  /\ GiveUp(r)

(* The request's context is cancelled or past its deadline before the lock *)
(* was obtained; DoValue and the select of the loop return its error.      *)
ContextDone(r) ==
  /\ pc[r] \in {"start", "acquiring", "waiting"}
  /\ GiveUp(r)

(* SETNX answered: either the goroutine has the lock but has not stored    *)
(* its token yet, or it sleeps 5 ms and tries again.                       *)
AcquireReply(r) ==
  /\ pc[r] = "acquiring"
  /\ reply[r] # "none"
  /\ pc' = [pc EXCEPT ![r] = IF reply[r] = "yes" THEN "locked" ELSE "waiting"]
  /\ attempt' = [attempt EXCEPT ![r] = 0]
  /\ reply' = [reply EXCEPT ![r] = "none"]
  /\ UNCHANGED <<anonymous, calls, relToken, net, redis, lockTokens, lapsed>>

(* lockTokens[agentID] = token, then the critical section begins. *)
StoreToken(r) ==
  /\ pc[r] = "locked"
  /\ lockTokens' = [lockTokens EXCEPT ![ProcOf[r]][AgentOf[r]] = TokenOf(r)]
  /\ pc' = [pc EXCEPT ![r] = "critical"]
  /\ UNCHANGED <<anonymous, calls, attempt, reply, relToken, net, redis, lapsed>>

-----------------------------------------------------------------------------
(* ReleaseAgentLock, deferred by withAgentLock and run however fn ended.   *)

(* consumeLockToken takes whatever token the map has for the agent. *)
BeginRelease(r) ==
  LET t == lockTokens[ProcOf[r]][AgentOf[r]] IN
  /\ pc[r] = "critical"
  /\ lockTokens' = [lockTokens EXCEPT ![ProcOf[r]][AgentOf[r]] = NoToken]
  /\ \/ /\ t = NoToken
        /\ pc' = [pc EXCEPT ![r] = "done"]
        /\ UNCHANGED <<attempt, relToken, net>>
     \/ /\ t # NoToken
        /\ pc' = [pc EXCEPT ![r] = "releasing"]
        /\ attempt' = [attempt EXCEPT ![r] = 1]
        /\ relToken' = [relToken EXCEPT ![r] = t]
        /\ net' = net \cup {Command("release", r, t, 1)}
  /\ UNCHANGED <<anonymous, calls, reply, redis>>
  /\ Settle

RetryRelease(r) ==
  /\ pc[r] = "releasing"
  /\ attempt[r] < Attempts
  /\ attempt' = [attempt EXCEPT ![r] = @ + 1]
  /\ reply' = [reply EXCEPT ![r] = "none"]
  /\ net' = net \cup {Command("release", r, relToken[r], attempt[r] + 1)}
  /\ UNCHANGED <<anonymous, pc, calls, relToken, redis, lockTokens, lapsed>>

(* The script answered, or the last attempt failed (the error is dropped). *)
EndRelease(r) ==
  /\ pc[r] = "releasing"
  /\ reply[r] # "none" \/ attempt[r] = Attempts
  /\ pc' = [pc EXCEPT ![r] = "done"]
  /\ attempt' = [attempt EXCEPT ![r] = 0]
  /\ reply' = [reply EXCEPT ![r] = "none"]
  /\ relToken' = [relToken EXCEPT ![r] = NoToken]
  /\ UNCHANGED <<anonymous, calls, net, redis, lockTokens, lapsed>>

-----------------------------------------------------------------------------
(* Redis.                                                                  *)

(* The caller still waits for this very command. *)
Awaited(m) ==
  /\ attempt[m.by] = m.attempt
  /\ \/ m.kind = "setnx" /\ pc[m.by] = "acquiring" /\ m.token = TokenOf(m.by)
     \/ m.kind = "release" /\ pc[m.by] = "releasing" /\ m.token = relToken[m.by]

Answer(m, answer) ==
  reply' = IF Awaited(m) THEN [reply EXCEPT ![m.by] = answer] ELSE reply

(* Faulty variant for mutation testing: SET without NX. *)
RedisSet(m) ==
  /\ m.kind = "setnx"
  /\ net' = net \ {m}
  /\ redis' = [redis EXCEPT ![AgentOf[m.by]] = m.token]
  /\ Answer(m, "yes")
  /\ UNCHANGED <<anonymous, pc, calls, attempt, relToken, lockTokens, lapsed>>

(* SET agent_lock:<id> token NX PX ttl *)
RedisSetNX(m) ==
  LET a == AgentOf[m.by] IN
  /\ m.kind = "setnx"
  /\ net' = net \ {m}
  /\ \/ /\ redis[a] = NoToken
        /\ redis' = [redis EXCEPT ![a] = m.token]
        /\ Answer(m, "yes")
     \/ /\ redis[a] # NoToken
        /\ Answer(m, "no")
        /\ UNCHANGED redis
  /\ UNCHANGED <<anonymous, pc, calls, attempt, relToken, lockTokens, lapsed>>

(* Faulty variant for mutation testing: DEL without comparing the token. *)
RedisDel(m) ==
  /\ m.kind = "release"
  /\ net' = net \ {m}
  /\ redis' = [redis EXCEPT ![AgentOf[m.by]] = NoToken]
  /\ Answer(m, "yes")
  /\ UNCHANGED <<anonymous, pc, calls, attempt, relToken, lockTokens, lapsed>>

(* releaseLockScript: delete the key if it still has the given token. *)
RedisRelease(m) ==
  LET a == AgentOf[m.by] IN
  /\ m.kind = "release"
  /\ net' = net \ {m}
  /\ redis' = [redis EXCEPT ![a] = IF @ = m.token THEN NoToken ELSE @]
  /\ Answer(m, "yes")
  /\ UNCHANGED <<anonymous, pc, calls, attempt, relToken, lockTokens, lapsed>>

(* Faulty variant for mutation testing: the key is set without a TTL. *)
NeverExpire(a) ==
  /\ redis[a] # NoToken
  /\ UNCHANGED vars

(* The TTL of the key runs out. *)
Expire(a) ==
  /\ redis[a] # NoToken
  /\ redis' = [redis EXCEPT ![a] = NoToken]
  /\ lapsed' = [lapsed EXCEPT ![a] =
                  @ \/ \E r \in Granted(a) : TokenOf(r) = redis[a]]
  /\ UNCHANGED <<anonymous, pc, calls, attempt, reply, relToken, net, lockTokens>>

-----------------------------------------------------------------------------

(* A process dies: its goroutines and its token map are gone, its commands *)
(* and its keys stay.  The process that replaces it starts with an empty   *)
(* map and serves the requests that have not arrived yet.                  *)
Crash(p) ==
  LET lost == {r \in Requests : ProcOf[r] = p /\ pc[r] \notin Ended \cup {"start"}} IN
  /\ lost # {}
  /\ pc' = [r \in Requests |-> IF r \in lost THEN "crashed" ELSE pc[r]]
  /\ attempt' = [r \in Requests |-> IF r \in lost THEN 0 ELSE attempt[r]]
  /\ reply' = [r \in Requests |-> IF r \in lost THEN "none" ELSE reply[r]]
  /\ relToken' = [r \in Requests |-> IF r \in lost THEN NoToken ELSE relToken[r]]
  /\ lockTokens' = [lockTokens EXCEPT ![p] = [a \in Agents |-> NoToken]]
  /\ UNCHANGED <<anonymous, calls, net, redis>>
  /\ Settle

RequestStep(r) ==
  \/ RejectAnonymous(r) \/ BeginAcquire(r) \/ RetryAcquire(r) \/ AcquireError(r)
  \/ ContextDone(r) \/ AcquireReply(r) \/ StoreToken(r)
  \/ BeginRelease(r) \/ RetryRelease(r) \/ EndRelease(r)

Next ==
  \/ \E r \in Requests : RequestStep(r)
  \/ \E m \in net : RedisSetNX(m) \/ RedisRelease(m)
  \/ \E a \in Agents : Expire(a)
  \/ \E p \in Processes : Crash(p)

(* Goroutines are scheduled; fn ends, unless it writes to a client that    *)
(* stays connected and no longer reads (every other step runs under a      *)
(* timeout, the server has no write timeout); the HTTP timeout ends the    *)
(* wait for the lock; Redis expires keys.  Nothing is assumed of the       *)
(* network or of other requests.                                           *)
Fairness ==
  /\ \A r \in Requests : /\ WF_vars(ContextDone(r))
                         /\ WF_vars(StoreToken(r))
                         /\ WF_vars(RetryRelease(r) \/ EndRelease(r))
  /\ \A r \in Requests \ Stuck : WF_vars(BeginRelease(r))
  /\ \A a \in Agents : WF_vars(Expire(a))

Spec == Init /\ [][Next]_vars
FairSpec == Spec /\ Fairness

-----------------------------------------------------------------------------
(* Properties.                                                             *)

(* Mutual exclusion of withAgentLock: as long as the TTL has not run out   *)
(* under one of the present holders of an agent's lock, two requests are   *)
(* never both told they hold it.  Lost and late SETNX commands and         *)
(* replies, retries, cancelled waits, crashed processes and earlier        *)
(* breakages among requests that have left do not break it.                *)
ExclusionWhileLeased ==
  \A a \in Agents : ~lapsed[a] => \A r, s \in Granted(a) : r = s

(* While its lease has not lapsed, the Redis key of a holder carries its   *)
(* token: no late release and no release of another request has deleted it *)
(* (releaseLockScript, consumeLockToken).                                  *)
HolderOwnsKey ==
  \A r \in Requests : Holds(r) /\ ~lapsed[AgentOf[r]]
                      => redis[AgentOf[r]] = TokenOf(r)

(* lockTokens never keeps a token with no request left in the critical     *)
(* section to consume it, even when leases lapse and requests overwrite    *)
(* each other's tokens: a token cannot leak into a later request.          *)
TokenHasConsumer ==
  \A p \in Processes, a \in Agents :
    lockTokens[p][a] # NoToken =>
      \E r \in Requests : ProcOf[r] = p /\ AgentOf[r] = a /\ pc[r] = "critical"

(* A release never deletes the key of a request served by another process: *)
(* the token map confines a misdirected release to one process.            *)
ForeignProcessKeyIsSafe ==
  \A m \in net : m.kind = "release" => ProcOf[m.token.req] = ProcOf[m.by]

(* Every request comes back from withAgentLock, whatever Redis, the        *)
(* network and the other requests do, and even while a request for the     *)
(* same agent hangs in fn for ever with the lock in its hands.             *)
EveryRequestReturns == \A r \in Requests \ Stuck : <>(pc[r] \in Ended)

(* Orphaned keys (a lost SETNX reply, a late SETNX, a crash, a failed      *)
(* release, a request that hangs) all disappear, and the only tokens that  *)
(* stay in a map are those of requests that hang in fn.                    *)
LocksDrain ==
  <>[](\A a \in Agents :
         /\ redis[a] = NoToken
         /\ \A p \in Processes :
              lockTokens[p][a] # NoToken =>
                \E r \in Stuck : /\ ProcOf[r] = p /\ AgentOf[r] = a
                                 /\ pc[r] = "critical")

(* FASE_2_PLANO_CONTROLE.md: the ownership token prevents a request from   *)
(* unlocking the lock of another.  A release executed by Redis deletes     *)
(* only a key that the releasing request itself set.                       *)
ReleasesOnlyItsOwnLock ==
  [][\A m \in net \ net' : m.kind = "release" /\ redis[AgentOf[m.by]] = m.token
                           => m.token.req = m.by]_vars

-----------------------------------------------------------------------------
(* AgentLock implements LeaseLock.                                         *)

Lease == INSTANCE LeaseLock WITH
           holders <- [a \in Agents |-> Granted(a)],
           broken <- lapsed

(* Retries, tokens, the network and crashes add nothing to what a lease    *)
(* does: a request is granted the lock only when it is free or broken,     *)
(* and the lock is whole again once all holders have left.                 *)
ImplementsLease == Lease!LeaseSpec

=============================================================================
