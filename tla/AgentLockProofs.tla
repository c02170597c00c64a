-------------------------- MODULE AgentLockProofs --------------------------
(***************************************************************************)
(* Proofs about AgentLock for any number of requests, processes, agents    *)
(* and attempts.                                                           *)
(***************************************************************************)
EXTENDS AgentLock, TLAPS

(* A request that has stored its token or has ended never acquires again.  *)
PastAcquire == {"critical", "releasing"} \cup Ended

(* t is the token that a request of process p drew for agent a in its last *)
(* AcquireAgentLock call, and that request is past acquiring.              *)
Minted(t, p, a) ==
  /\ ProcOf[t.req] = p
  /\ AgentOf[t.req] = a
  /\ t = TokenOf(t.req)
  /\ pc[t.req] \in PastAcquire

(* The request that drew t is not in its critical section, unless a lease  *)
(* of agent a has lapsed.                                                  *)
Spent(t, a) == pc[t.req] = "critical" => lapsed[a]

(* lockTokens holds tokens of requests of its own process and agent.       *)
MapTokens ==
  \A p \in Processes, a \in Agents :
    lockTokens[p][a] # NoToken => Minted(lockTokens[p][a], p, a)

(* A token on its way to releaseLockScript is a spent one.                 *)
ReleaseTokens ==
  \A r \in Requests :
    /\ pc[r] = "releasing" => relToken[r] # NoToken
    /\ relToken[r] # NoToken => /\ Minted(relToken[r], ProcOf[r], AgentOf[r])
                                /\ Spent(relToken[r], AgentOf[r])

ReleaseCommands ==
  \A m \in net : m.kind = "release" => /\ Minted(m.token, ProcOf[m.by], AgentOf[m.by])
                                       /\ Spent(m.token, AgentOf[m.by])

(* The inductive invariant. *)
IInv == /\ TypeOK
        /\ MapTokens
        /\ ReleaseTokens
        /\ ReleaseCommands
        /\ HolderOwnsKey

-----------------------------------------------------------------------------
(* Types.                                                                  *)

(* Every variable but lapsed. *)
ValuesOK ==
  /\ pc \in [Requests -> PCs]
  /\ calls \in [Requests -> 0..MaxAcquires]
  /\ attempt \in [Requests -> 0..Attempts]
  /\ reply \in [Requests -> {"none", "yes", "no"}]
  /\ relToken \in [Requests -> Tokens \cup {NoToken}]
  /\ net \subseteq Messages
  /\ redis \in [Agents -> Tokens \cup {NoToken}]
  /\ lockTokens \in [Processes -> [Agents -> Tokens \cup {NoToken}]]

LapsedOK == lapsed \in [Agents -> BOOLEAN]

(* A command built from parts of the right kind is a message. *)
LEMMA CommandType ==
  ASSUME NEW kind \in {"setnx", "release"}, NEW r \in Requests, NEW t \in Tokens,
         NEW n \in 1..Attempts
  PROVE  Command(kind, r, t, n) \in Messages
  BY DEF Command, Messages

(* Storing or taking a token keeps lockTokens a map of tokens. *)
LEMMA TokenMapType ==
  ASSUME NEW T, NEW f \in [Processes -> [Agents -> T]],
         NEW p \in Processes, NEW a \in Agents, NEW t \in T
  PROVE  /\ [f EXCEPT ![p][a] = t] \in [Processes -> [Agents -> T]]
         /\ \A q \in Processes, b \in Agents :
              [f EXCEPT ![p][a] = t][q][b] = IF q = p /\ b = a THEN t ELSE f[q][b]
  OBVIOUS

(* ReleaseAgentLock always has a token to send. *)
ReleasingHasToken == \A r \in Requests : pc[r] = "releasing" => relToken[r] # NoToken

(* Every step keeps the values of the variables in their sets. *)
LEMMA ValuesStep == ValuesOK /\ ReleasingHasToken /\ [Next]_vars => ValuesOK'
<1> SUFFICES ASSUME ValuesOK, ReleasingHasToken, [Next]_vars PROVE ValuesOK'
    OBVIOUS
<1> USE ConstantsAssumption DEF ValuesOK, PCs
<1>1. ASSUME NEW r \in Requests, RejectAnonymous(r) \/ GiveUp(r) PROVE ValuesOK'
  <2>1. CASE RejectAnonymous(r)
        BY <2>1 DEF RejectAnonymous
  <2>2. CASE GiveUp(r)
        BY <2>2 DEF GiveUp
  <2> QED
      BY <1>1, <2>1, <2>2
<1>2. ASSUME NEW r \in Requests, BeginAcquire(r) PROVE ValuesOK'
  <2>1. calls' \in [Requests -> 0..MaxAcquires] /\ attempt' \in [Requests -> 0..Attempts]
        BY <1>2 DEF BeginAcquire
  <2>2. net' \subseteq Messages
    <3>1. TokenOf(r)' \in Tokens
          BY <2>1 DEF TokenOf, Tokens
    <3> QED
        BY <1>2, <3>1, CommandType DEF BeginAcquire
  <2> QED
      BY <1>2, <2>1, <2>2 DEF BeginAcquire
<1>3. ASSUME NEW r \in Requests, RetryAcquire(r) PROVE ValuesOK'
  <2>1. net' \subseteq Messages
    <3>1. TokenOf(r) \in Tokens
          BY DEF TokenOf, Tokens
    <3>2. attempt[r] + 1 \in 1..Attempts
          BY <1>3 DEF RetryAcquire
    <3> QED
        BY <1>3, <3>1, <3>2, CommandType DEF RetryAcquire
  <2> QED
      BY <1>3, <2>1 DEF RetryAcquire
<1>4. ASSUME NEW r \in Requests, AcquireReply(r) \/ EndRelease(r) PROVE ValuesOK'
  <2>1. CASE AcquireReply(r)
        BY <2>1 DEF AcquireReply
  <2>2. CASE EndRelease(r)
        BY <2>2 DEF EndRelease
  <2> QED
      BY <1>4, <2>1, <2>2
<1>5. ASSUME NEW r \in Requests, StoreToken(r) PROVE ValuesOK'
  <2>1. TokenOf(r) \in Tokens
        BY DEF TokenOf, Tokens
  <2>2. lockTokens' \in [Processes -> [Agents -> Tokens \cup {NoToken}]]
        BY <1>5, <2>1, TokenMapType DEF StoreToken
  <2> QED
      BY <1>5, <2>2 DEF StoreToken
<1>6. ASSUME NEW r \in Requests, BeginRelease(r) PROVE ValuesOK'
  <2> DEFINE t == lockTokens[ProcOf[r]][AgentOf[r]]
  <2>1. t \in Tokens \cup {NoToken}
        OBVIOUS
  <2>2. lockTokens' \in [Processes -> [Agents -> Tokens \cup {NoToken}]]
        BY <1>6, TokenMapType DEF BeginRelease
  <2>3. CASE t = NoToken
        BY <1>6, <2>2, <2>3 DEF BeginRelease
  <2>4. CASE t # NoToken
    <3>1. Command("release", r, t, 1) \in Messages
      <4>1. t \in Tokens /\ 1 \in 1..Attempts
            BY <2>1, <2>4
      <4> HIDE DEF t
      <4> QED
          BY <4>1, CommandType
    <3>2. net' = net \cup {Command("release", r, t, 1)}
          BY <1>6, <2>4 DEF BeginRelease
    <3>3. relToken' = [relToken EXCEPT ![r] = t]
          BY <1>6, <2>4 DEF BeginRelease
    <3> HIDE DEF t
    <3>4. net' \subseteq Messages /\ relToken' \in [Requests -> Tokens \cup {NoToken}]
          BY <2>1, <3>1, <3>2, <3>3
    <3>5. /\ pc' = [pc EXCEPT ![r] = "releasing"]
          /\ attempt' = [attempt EXCEPT ![r] = 1]
          /\ UNCHANGED <<calls, reply, redis>>
          BY <1>6, <2>4 DEF BeginRelease, t
    <3> QED
        BY <2>2, <3>4, <3>5
  <2> QED
      BY <2>3, <2>4
<1>7. ASSUME NEW r \in Requests, RetryRelease(r) PROVE ValuesOK'
  <2>1. net' \subseteq Messages
    <3>1. attempt[r] + 1 \in 1..Attempts
          BY <1>7 DEF RetryRelease
    <3>2. relToken[r] \in Tokens
          BY <1>7 DEF RetryRelease, ReleasingHasToken
    <3> QED
        BY <1>7, <3>1, <3>2, CommandType DEF RetryRelease
  <2> QED
      BY <1>7, <2>1 DEF RetryRelease
<1>8. ASSUME NEW m \in net, RedisSetNX(m) PROVE ValuesOK'
      BY <1>8 DEF RedisSetNX, Answer, Messages
<1>9. ASSUME NEW m \in net, RedisRelease(m) PROVE ValuesOK'
      BY <1>9 DEF RedisRelease, Answer, Messages
<1>10. ASSUME NEW a \in Agents, Expire(a) PROVE ValuesOK'
      BY <1>10 DEF Expire
<1>11. ASSUME NEW p \in Processes, Crash(p) PROVE ValuesOK'
      BY <1>11 DEF Crash
<1>12. CASE UNCHANGED vars
      BY <1>12 DEF vars
<1> QED
    BY <1>1, <1>2, <1>3, <1>4, <1>5, <1>6, <1>7, <1>8, <1>9, <1>10, <1>11, <1>12
       DEF Next, RequestStep, AcquireError, ContextDone

(* The history variable stays Boolean. *)
LEMMA LapsedStep == LapsedOK /\ [Next]_vars => LapsedOK'
<1> SUFFICES ASSUME LapsedOK, [Next]_vars PROVE LapsedOK'
    OBVIOUS
<1> USE DEF LapsedOK
<1>1. ASSUME Settle PROVE LapsedOK'
      BY <1>1, Zenon DEF Settle
<1>2. ASSUME NEW r \in Requests, RequestStep(r) PROVE Settle \/ UNCHANGED lapsed
      BY <1>2, Zenon DEF RequestStep, RejectAnonymous, BeginAcquire, RetryAcquire,
         AcquireError, ContextDone, GiveUp, AcquireReply, StoreToken, BeginRelease,
         RetryRelease, EndRelease
<1>3. ASSUME NEW m \in net, RedisSetNX(m) \/ RedisRelease(m) PROVE UNCHANGED lapsed
      BY <1>3 DEF RedisSetNX, RedisRelease
<1>4. ASSUME NEW a \in Agents, Expire(a) PROVE LapsedOK'
  <2>1. lapsed[a] \/ (\E r \in Granted(a) : TokenOf(r) = redis[a]) \in BOOLEAN
        BY Zenon
  <2> QED
      BY <1>4, <2>1, Zenon DEF Expire
<1>5. ASSUME NEW p \in Processes, Crash(p) PROVE Settle
      BY <1>5 DEF Crash
<1>6. CASE UNCHANGED vars
      BY <1>6 DEF vars
<1> QED
    BY <1>1, <1>2, <1>3, <1>4, <1>5, <1>6 DEF Next

-----------------------------------------------------------------------------
(* What no step does.                                                      *)

(* A request past acquiring stays past it, draws no token any more, and is *)
(* in the critical section only if it was there already.                   *)
LEMMA PastStaysPast ==
  ASSUME ValuesOK, [Next]_vars, NEW r \in Requests, pc[r] \in PastAcquire
  PROVE  /\ pc'[r] \in PastAcquire
         /\ calls'[r] = calls[r]
         /\ pc'[r] = "critical" => pc[r] = "critical"
<1> USE DEF ValuesOK, PastAcquire, Ended
<1>1. ASSUME NEW s \in Requests, RequestStep(s)
      PROVE  /\ pc'[r] \in PastAcquire
             /\ calls'[r] = calls[r]
             /\ pc'[r] = "critical" => pc[r] = "critical"
  <2>1. CASE r = s
        BY <1>1, <2>1 DEF RequestStep, RejectAnonymous, BeginAcquire, RetryAcquire,
         AcquireError, ContextDone, GiveUp, AcquireReply, StoreToken, BeginRelease,
         RetryRelease, EndRelease
  <2>2. CASE r # s
        BY <1>1, <2>2 DEF RequestStep, RejectAnonymous, BeginAcquire, RetryAcquire,
         AcquireError, ContextDone, GiveUp, AcquireReply, StoreToken, BeginRelease,
         RetryRelease, EndRelease
  <2> QED
      BY <2>1, <2>2
<1>2. ASSUME NEW m \in net, RedisSetNX(m) \/ RedisRelease(m) PROVE UNCHANGED <<pc, calls>>
      BY <1>2 DEF RedisSetNX, RedisRelease
<1>3. ASSUME NEW a \in Agents, Expire(a) PROVE UNCHANGED <<pc, calls>>
      BY <1>3 DEF Expire
<1>4. ASSUME NEW p \in Processes, Crash(p)
      PROVE  (pc'[r] = pc[r] \/ pc'[r] = "crashed") /\ calls'[r] = calls[r]
      BY <1>4 DEF Crash
<1>5. CASE UNCHANGED vars
      BY <1>5 DEF vars
<1> QED
    BY <1>1, <1>2, <1>3, <1>4, <1>5 DEF Next

(* A broken lease stays broken as long as someone holds it. *)
LEMMA LapsedStays ==
  ASSUME ValuesOK, LapsedOK, [Next]_vars, NEW a \in Agents, lapsed[a], Granted(a)' # {}
  PROVE  lapsed'[a]
<1>1. ASSUME Settle PROVE lapsed'[a]
      BY <1>1, Zenon DEF Settle
<1>2. ASSUME NEW r \in Requests, RequestStep(r) PROVE Settle \/ UNCHANGED lapsed
      BY <1>2, Zenon DEF RequestStep, RejectAnonymous, BeginAcquire, RetryAcquire,
         AcquireError, ContextDone, GiveUp, AcquireReply, StoreToken, BeginRelease,
         RetryRelease, EndRelease
<1>3. ASSUME NEW m \in net, RedisSetNX(m) \/ RedisRelease(m) PROVE UNCHANGED lapsed
      BY <1>3 DEF RedisSetNX, RedisRelease
<1>4. ASSUME NEW b \in Agents, Expire(b) PROVE lapsed'[a]
      BY <1>4, Zenon DEF Expire, LapsedOK
<1>5. ASSUME NEW p \in Processes, Crash(p) PROVE Settle
      BY <1>5 DEF Crash
<1>6. CASE UNCHANGED vars
      BY <1>6 DEF vars
<1> QED
    BY <1>1, <1>2, <1>3, <1>4, <1>5, <1>6 DEF Next

(* A token that is on record for a process and an agent remains a token of *)
(* theirs, and a spent one remains spent.                                  *)
LEMMA MintedStays ==
  ASSUME ValuesOK, LapsedOK, [Next]_vars, NEW t \in Tokens, NEW p, NEW a \in Agents,
         Minted(t, p, a)
  PROVE  Minted(t, p, a)' /\ (Spent(t, a) => Spent(t, a)')
<1>1. t.req \in Requests
      BY DEF Tokens
<1>2. /\ pc'[t.req] \in PastAcquire
      /\ calls'[t.req] = calls[t.req]
      /\ pc'[t.req] = "critical" => pc[t.req] = "critical"
      BY <1>1, PastStaysPast DEF Minted
<1>3. Minted(t, p, a)'
      BY <1>2 DEF Minted, TokenOf
<1>4. ASSUME Spent(t, a), pc'[t.req] = "critical" PROVE lapsed'[a]
  <2>1. lapsed[a]
        BY <1>2, <1>4 DEF Spent
  <2>2. Granted(a)' # {}
        BY <1>1, <1>4 DEF Minted, Granted, Holds
  <2> QED
      BY <2>1, <2>2, LapsedStays
<1> QED
    BY <1>3, <1>4 DEF Spent

(* Only an executed SETNX that found no key makes a request a holder. *)
LEMMA GrantedBySetNX ==
  ASSUME ValuesOK, [Next]_vars, NEW r \in Requests, ~Holds(r), Holds(r)'
  PROVE  /\ redis[AgentOf[r]] = NoToken
         /\ redis'[AgentOf[r]] = TokenOf(r)
         /\ UNCHANGED <<pc, calls, lapsed>>
         /\ \E m \in net : /\ m.by = r
                           /\ Awaited(m)
                           /\ m.kind = "setnx"
                           /\ reply' = [reply EXCEPT ![r] = "yes"]
<1> USE ConstantsAssumption DEF ValuesOK, Holds
<1>1. ASSUME NEW s \in Requests, RequestStep(s) PROVE FALSE
  <2>1. CASE r = s
        BY <1>1, <2>1 DEF RequestStep, RejectAnonymous, BeginAcquire, RetryAcquire,
         AcquireError, ContextDone, GiveUp, AcquireReply, StoreToken, BeginRelease,
         RetryRelease, EndRelease
  <2>2. CASE r # s
        BY <1>1, <2>2 DEF RequestStep, RejectAnonymous, BeginAcquire, RetryAcquire,
         AcquireError, ContextDone, GiveUp, AcquireReply, StoreToken, BeginRelease,
         RetryRelease, EndRelease
  <2> QED
      BY <2>1, <2>2
<1>2. ASSUME NEW m \in net, RedisRelease(m) PROVE FALSE
      BY <1>2 DEF RedisRelease, Answer, Awaited, Messages
<1>3. ASSUME NEW a \in Agents, Expire(a) PROVE FALSE
      BY <1>3 DEF Expire
<1>4. ASSUME NEW p \in Processes, Crash(p) PROVE FALSE
      BY <1>4 DEF Crash
<1>5. ~UNCHANGED vars
      BY DEF vars
<1>6. PICK m \in net : RedisSetNX(m)
      BY <1>1, <1>2, <1>3, <1>4, <1>5 DEF Next
<1>7. m.by = r /\ Awaited(m) /\ m.kind = "setnx" /\ redis[AgentOf[r]] = NoToken
      BY <1>6 DEF RedisSetNX, Answer, Messages
<1>8. m.token = TokenOf(r)
      BY <1>7 DEF Awaited
<1> QED
    BY <1>6, <1>7, <1>8 DEF RedisSetNX, Answer

(* A holder draws no new token while it holds. *)
LEMMA HolderKeepsToken ==
  ASSUME ValuesOK, [Next]_vars, NEW r \in Requests, Holds(r)
  PROVE  calls'[r] = calls[r]
<1> USE DEF ValuesOK, Holds
<1>1. ASSUME NEW s \in Requests, BeginAcquire(s) PROVE calls'[r] = calls[r]
      BY <1>1 DEF BeginAcquire
<1>2. \/ \E s \in Requests : BeginAcquire(s)
      \/ UNCHANGED calls
      BY DEF Next, RequestStep, RejectAnonymous, RetryAcquire, AcquireError, ContextDone,
         GiveUp, AcquireReply, StoreToken, BeginRelease, RetryRelease, EndRelease,
         RedisSetNX, RedisRelease, Expire, Crash, vars
<1> QED
    BY <1>1, <1>2

(* The key of an agent changes only when it is absent and SETNX sets it,   *)
(* when a release with its token deletes it, and when it expires.          *)
LEMMA KeyChanges ==
  ASSUME ValuesOK, [Next]_vars, NEW a \in Agents, redis[a] # NoToken
  PROVE  \/ redis'[a] = redis[a]
         \/ \E m \in net : m.kind = "release" /\ AgentOf[m.by] = a /\ m.token = redis[a]
         \/ Expire(a)
<1> USE ConstantsAssumption DEF ValuesOK
<1>1. ASSUME NEW m \in net, RedisSetNX(m) PROVE redis'[a] = redis[a]
      BY <1>1 DEF RedisSetNX, Messages
<1>2. ASSUME NEW m \in net, RedisRelease(m)
      PROVE  redis'[a] = redis[a] \/ (m.kind = "release" /\ AgentOf[m.by] = a /\ m.token = redis[a])
      BY <1>2 DEF RedisRelease, Messages
<1>3. ASSUME NEW b \in Agents, Expire(b), b # a PROVE redis'[a] = redis[a]
      BY <1>3 DEF Expire
<1>4. \/ UNCHANGED redis
      \/ \E m \in net : RedisSetNX(m) \/ RedisRelease(m)
      \/ \E b \in Agents : Expire(b)
      BY DEF Next, RequestStep, RejectAnonymous, BeginAcquire, RetryAcquire, AcquireError,
         ContextDone, GiveUp, AcquireReply, StoreToken, BeginRelease, RetryRelease,
         EndRelease, Crash, vars
<1> QED
    BY <1>1, <1>2, <1>3, <1>4

-----------------------------------------------------------------------------
(* The invariant is inductive.                                             *)

(* TypeOK is the two parts together, and the type of anonymous. *)
LEMMA TypeParts == TypeOK <=> anonymous \subseteq Requests /\ ValuesOK /\ LapsedOK
  BY Zenon DEF TypeOK, ValuesOK, LapsedOK

(* Which requests have no agent id is settled when they arrive. *)
LEMMA AnonymousStays ==
  ASSUME [Next]_vars
  PROVE  UNCHANGED anonymous
  BY DEF Next, RequestStep, RejectAnonymous, BeginAcquire, RetryAcquire, AcquireError,
         ContextDone, GiveUp, AcquireReply, StoreToken, BeginRelease, RetryRelease,
         EndRelease, RedisSetNX, RedisRelease, Expire, Crash, vars

(* The holder of a lease that has not lapsed keeps its key. *)
LEMMA KeyStep ==
  ASSUME IInv, [Next]_vars
  PROVE  HolderOwnsKey'
<1> USE ConstantsAssumption
<1>1. ValuesOK /\ LapsedOK
      BY TypeParts DEF IInv
<1> SUFFICES ASSUME NEW r \in Requests, Holds(r)', ~lapsed'[AgentOf[r]]
             PROVE  redis'[AgentOf[r]] = TokenOf(r)'
    BY DEF HolderOwnsKey
<1> DEFINE a == AgentOf[r]
<1>2. a \in Agents /\ r \in Granted(a)'
      BY DEF Granted
<1>3. ~lapsed[a]
      BY <1>1, <1>2, LapsedStays
<1>4. CASE ~Holds(r)
      BY <1>1, <1>4, GrantedBySetNX DEF TokenOf
<1>5. CASE Holds(r)
  <2>1. redis[a] = TokenOf(r) /\ TokenOf(r)' = TokenOf(r)
        BY <1>1, <1>3, <1>5, HolderKeepsToken DEF IInv, HolderOwnsKey, TokenOf
  <2>2. TokenOf(r) \in Tokens
        BY <1>1 DEF ValuesOK, TokenOf, Tokens
  <2>3. redis[a] # NoToken
        BY <2>1, <2>2 DEF Tokens
  <2>4. ~Expire(a)
    <3>1. SUFFICES ASSUME Expire(a) PROVE FALSE
          OBVIOUS
    <3>2. r \in Granted(a)
          BY <1>5 DEF Granted
    <3>3. lapsed'[a]
          BY <1>1, <1>2, <2>1, <3>1, <3>2, Zenon DEF Expire, LapsedOK
    <3> QED
        BY <3>3
  <2>5. ASSUME NEW m \in net, m.kind = "release", AgentOf[m.by] = a, m.token = redis[a]
        PROVE  FALSE
    <3>1. Minted(m.token, ProcOf[m.by], a) /\ Spent(m.token, a)
          BY <2>5 DEF IInv, ReleaseCommands
    <3>2. m.token.req = r
          BY <2>1, <2>5 DEF TokenOf
    <3>3. pc[r] = "critical"
          BY <1>5, <3>1, <3>2 DEF Minted, Holds, PastAcquire, Ended
    <3> QED
        BY <1>3, <3>1, <3>2, <3>3 DEF Spent
  <2> QED
      BY <1>1, <1>2, <2>1, <2>3, <2>4, <2>5, KeyChanges
<1> QED
    BY <1>4, <1>5

(* Two holders of one agent: some lease of theirs has lapsed. *)
LEMMA KeyHasOneOwner == IInv => ExclusionWhileLeased
<1> SUFFICES ASSUME IInv, NEW a \in Agents, ~lapsed[a],
                    NEW r \in Granted(a), NEW s \in Granted(a)
             PROVE  r = s
    BY DEF ExclusionWhileLeased
<1>1. TokenOf(r) = TokenOf(s)
      BY DEF IInv, HolderOwnsKey, Granted
<1> QED
    BY <1>1 DEF TokenOf

(* A request stores its own token, and nobody else's changes. *)
LEMMA MapStep ==
  ASSUME IInv, [Next]_vars
  PROVE  MapTokens'
<1> USE ConstantsAssumption
<1>1. ValuesOK /\ LapsedOK
      BY TypeParts DEF IInv
<1> SUFFICES ASSUME NEW p \in Processes, NEW a \in Agents, lockTokens'[p][a] # NoToken
             PROVE  Minted(lockTokens[p][a], p, a)'
    BY DEF MapTokens
<1>2. CASE lockTokens'[p][a] = lockTokens[p][a]
  <2>1. PICK t : t = lockTokens[p][a]
        OBVIOUS
  <2>2. t \in Tokens /\ Minted(t, p, a)
        BY <1>1, <1>2, <2>1 DEF IInv, MapTokens, ValuesOK
  <2>3. Minted(t, p, a)'
        BY <1>1, <2>2, MintedStays
  <2> QED
      BY <1>2, <2>1, <2>3 DEF Minted
<1>3. CASE lockTokens'[p][a] # lockTokens[p][a]
  <2>1. PICK r \in Requests : StoreToken(r)
    <3>1. ASSUME NEW r \in Requests, BeginRelease(r) PROVE FALSE
          BY <1>1, <1>3, <3>1, TokenMapType DEF BeginRelease, ValuesOK
    <3>2. ASSUME NEW q \in Processes, Crash(q) PROVE FALSE
          BY <1>1, <1>3, <3>2 DEF Crash, ValuesOK
    <3> QED
        BY <1>3, <3>1, <3>2 DEF Next, RequestStep, RejectAnonymous, BeginAcquire,
           RetryAcquire, AcquireError, ContextDone, GiveUp, AcquireReply, RetryRelease,
           EndRelease, RedisSetNX, RedisRelease, Expire, vars
  <2>2. TokenOf(r) \in Tokens
        BY <1>1 DEF ValuesOK, TokenOf, Tokens
  <2>3. p = ProcOf[r] /\ a = AgentOf[r] /\ lockTokens'[p][a] = TokenOf(r)
        BY <1>1, <1>3, <2>1, <2>2, TokenMapType DEF StoreToken, ValuesOK
  <2> QED
      BY <1>1, <2>1, <2>3 DEF StoreToken, ValuesOK, Minted, TokenOf, PastAcquire
<1> QED
    BY <1>2, <1>3

(* The token a request takes from the map is spent: it is its own and the  *)
(* request leaves, or it belongs to another holder of the agent and a      *)
(* lease has lapsed.                                                       *)
LEMMA TakenTokenIsSpent ==
  ASSUME IInv, [Next]_vars, NEW r \in Requests, BeginRelease(r),
         NEW t, t = lockTokens[ProcOf[r]][AgentOf[r]], t # NoToken
  PROVE  /\ t \in Tokens
         /\ Minted(t, ProcOf[r], AgentOf[r])'
         /\ Spent(t, AgentOf[r])'
<1> USE ConstantsAssumption
<1>1. ValuesOK /\ LapsedOK
      BY TypeParts DEF IInv
<1>2. t \in Tokens /\ Minted(t, ProcOf[r], AgentOf[r])
      BY <1>1 DEF IInv, MapTokens, ValuesOK
<1>3. Minted(t, ProcOf[r], AgentOf[r])'
      BY <1>1, <1>2, MintedStays
<1>4. t.req \in Requests
      BY <1>2 DEF Tokens
<1>5. CASE t.req = r
  <2>1. pc'[t.req] # "critical"
        BY <1>1, <1>5 DEF BeginRelease, ValuesOK
  <2> QED
      BY <1>2, <1>3, <2>1 DEF Spent
<1>6. CASE t.req # r
  <2>1. SUFFICES ASSUME pc'[t.req] = "critical" PROVE lapsed'[AgentOf[r]]
        BY <1>2, <1>3 DEF Spent
  <2>2. pc[t.req] = "critical" /\ pc[r] = "critical"
        BY <1>1, <1>4, <1>6, <2>1 DEF BeginRelease, ValuesOK
  <2>3. r \in Granted(AgentOf[r]) /\ t.req \in Granted(AgentOf[r])
        BY <1>2, <1>4, <2>2 DEF Granted, Holds, Minted
  <2>4. lapsed[AgentOf[r]]
        BY <1>6, <2>3, KeyHasOneOwner DEF ExclusionWhileLeased
  <2>5. Granted(AgentOf[r])' # {}
        BY <1>2, <1>4, <2>1 DEF Granted, Holds, Minted
  <2> QED
      BY <1>1, <2>4, <2>5, LapsedStays
<1> QED
    BY <1>2, <1>3, <1>5, <1>6

(* relToken holds spent tokens. *)
LEMMA ReleaseTokensStep ==
  ASSUME IInv, [Next]_vars
  PROVE  ReleaseTokens'
<1> USE ConstantsAssumption
<1>1. ValuesOK /\ LapsedOK
      BY TypeParts DEF IInv
<1> SUFFICES ASSUME NEW r \in Requests
             PROVE  /\ pc'[r] = "releasing" => relToken'[r] # NoToken
                    /\ relToken'[r] # NoToken
                       => Minted(relToken[r], ProcOf[r], AgentOf[r])' /\ Spent(relToken[r], AgentOf[r])'
    BY DEF ReleaseTokens, Minted, Spent
<1>2. CASE relToken'[r] # NoToken /\ relToken'[r] # relToken[r]
  <2>1. BeginRelease(r) /\ relToken'[r] = lockTokens[ProcOf[r]][AgentOf[r]]
    <3>1. ASSUME NEW s \in Requests, BeginRelease(s)
          PROVE  s = r /\ relToken'[r] = lockTokens[ProcOf[r]][AgentOf[r]]
          BY <1>1, <1>2, <3>1 DEF BeginRelease, ValuesOK
    <3>2. ASSUME NEW s \in Requests, EndRelease(s) PROVE FALSE
          BY <1>1, <1>2, <3>2 DEF EndRelease, ValuesOK
    <3>3. ASSUME NEW q \in Processes, Crash(q) PROVE FALSE
          BY <1>1, <1>2, <3>3 DEF Crash, ValuesOK
    <3> QED
        BY <1>2, <3>1, <3>2, <3>3 DEF Next, RequestStep, RejectAnonymous, BeginAcquire,
           RetryAcquire, AcquireError, ContextDone, GiveUp, AcquireReply, StoreToken,
           RetryRelease, RedisSetNX, RedisRelease, Expire, vars
  <2>2. PICK t : t = relToken'[r]
        OBVIOUS
  <2>3. Minted(t, ProcOf[r], AgentOf[r])' /\ Spent(t, AgentOf[r])'
        BY <1>2, <2>1, <2>2, TakenTokenIsSpent
  <2> QED
      BY <1>2, <2>2, <2>3 DEF Minted, Spent
<1>3. CASE relToken'[r] # NoToken /\ relToken'[r] = relToken[r]
  <2>1. PICK t : t = relToken[r]
        OBVIOUS
  <2>2. t \in Tokens /\ Minted(t, ProcOf[r], AgentOf[r]) /\ Spent(t, AgentOf[r])
        BY <1>1, <1>3, <2>1 DEF IInv, ReleaseTokens, ValuesOK
  <2>3. Minted(t, ProcOf[r], AgentOf[r])' /\ Spent(t, AgentOf[r])'
        BY <1>1, <2>2, MintedStays
  <2> QED
      BY <1>3, <2>1, <2>3 DEF Minted, Spent
<1>4. CASE relToken'[r] = NoToken
  <2>1. SUFFICES ASSUME pc'[r] = "releasing" PROVE FALSE
        BY <1>4
  <2>2. ASSUME NEW s \in Requests, RequestStep(s) PROVE FALSE
    <3>1. CASE r = s
          BY <1>1, <1>4, <2>1, <2>2, <3>1 DEF IInv, ReleaseTokens, ValuesOK, RequestStep,
             RejectAnonymous, BeginAcquire, RetryAcquire, AcquireError, ContextDone, GiveUp,
             AcquireReply, StoreToken, BeginRelease, RetryRelease, EndRelease
    <3>2. CASE r # s
          BY <1>1, <1>4, <2>1, <2>2, <3>2 DEF IInv, ReleaseTokens, ValuesOK, RequestStep,
             RejectAnonymous, BeginAcquire, RetryAcquire, AcquireError, ContextDone, GiveUp,
             AcquireReply, StoreToken, BeginRelease, RetryRelease, EndRelease
    <3> QED
        BY <3>1, <3>2
  <2>3. ASSUME NEW q \in Processes, Crash(q) PROVE FALSE
        BY <1>1, <1>4, <2>1, <2>3 DEF IInv, ReleaseTokens, ValuesOK, Crash, Ended
  <2>4. ~UNCHANGED <<pc, relToken>>
        BY <1>4, <2>1 DEF IInv, ReleaseTokens
  <2> QED
      BY <2>2, <2>3, <2>4 DEF Next, RedisSetNX, RedisRelease, Expire, vars
<1> QED
    BY <1>2, <1>3, <1>4

(* Release commands carry spent tokens. *)
LEMMA ReleaseCommandsStep ==
  ASSUME IInv, [Next]_vars
  PROVE  ReleaseCommands'
<1> USE ConstantsAssumption
<1>1. ValuesOK /\ LapsedOK
      BY TypeParts DEF IInv
<1> SUFFICES ASSUME NEW m \in net', m.kind = "release"
             PROVE  Minted(m.token, ProcOf[m.by], AgentOf[m.by])' /\ Spent(m.token, AgentOf[m.by])'
    BY DEF ReleaseCommands
<1>2. CASE m \in net
  <2>1. /\ m.token \in Tokens
        /\ AgentOf[m.by] \in Agents
        /\ Minted(m.token, ProcOf[m.by], AgentOf[m.by])
        /\ Spent(m.token, AgentOf[m.by])
        BY <1>1, <1>2 DEF IInv, ReleaseCommands, ValuesOK, Messages
  <2> QED
      BY <1>1, <2>1, MintedStays
<1>3. ASSUME NEW r \in Requests, BeginRelease(r), m \notin net
      PROVE  Minted(m.token, ProcOf[m.by], AgentOf[m.by])' /\ Spent(m.token, AgentOf[m.by])'
  <2>1. m.by = r /\ m.token = lockTokens[ProcOf[r]][AgentOf[r]] /\ m.token # NoToken
        BY <1>3 DEF BeginRelease, Command
  <2> QED
      BY <1>3, <2>1, TakenTokenIsSpent
<1>4. ASSUME NEW r \in Requests, RetryRelease(r), m \notin net
      PROVE  Minted(m.token, ProcOf[m.by], AgentOf[m.by])' /\ Spent(m.token, AgentOf[m.by])'
  <2>1. m.by = r /\ m.token = relToken[r]
        BY <1>4 DEF RetryRelease, Command
  <2>2. relToken[r] # NoToken
        BY <1>4 DEF RetryRelease, IInv, ReleaseTokens
  <2>3. /\ m.token \in Tokens
        /\ Minted(m.token, ProcOf[r], AgentOf[r])
        /\ Spent(m.token, AgentOf[r])
        BY <1>1, <2>1, <2>2 DEF IInv, ReleaseTokens, ValuesOK
  <2> QED
      BY <1>1, <2>1, <2>3, MintedStays
<1>5. ASSUME m \notin net
      PROVE  \E r \in Requests : BeginRelease(r) \/ RetryRelease(r)
  <2>1. ASSUME NEW r \in Requests, BeginAcquire(r) \/ RetryAcquire(r) PROVE FALSE
    <3>1. m \in net \/ m.kind = "setnx"
          BY <2>1 DEF BeginAcquire, RetryAcquire, Command
    <3> QED
        BY <1>5, <3>1
  <2> QED
      BY <1>5, <2>1 DEF Next, RequestStep, RejectAnonymous, AcquireError, ContextDone,
         GiveUp, AcquireReply, StoreToken, EndRelease, RedisSetNX, RedisRelease, Expire,
         Crash, vars
<1> QED
    BY <1>2, <1>3, <1>4, <1>5

(* No request, no token, no command and no key at the start. *)
LEMMA InitIInv == Init => IInv
<1> SUFFICES ASSUME Init PROVE IInv
    OBVIOUS
<1> USE ConstantsAssumption
<1>1. ValuesOK
      BY DEF Init, ValuesOK, PCs
<1>2. LapsedOK
      BY DEF Init, LapsedOK
<1>3. MapTokens /\ ReleaseTokens /\ ReleaseCommands
      BY DEF Init, MapTokens, ReleaseTokens, ReleaseCommands
<1>4. HolderOwnsKey
      BY DEF Init, HolderOwnsKey, Holds
<1>5. anonymous \subseteq Requests
      BY ConstantsAssumption DEF Init
<1> QED
    BY <1>1, <1>2, <1>3, <1>4, <1>5, TypeParts DEF IInv

(* Every step preserves the invariant. *)
LEMMA IInvStep == IInv /\ [Next]_vars => IInv'
<1> SUFFICES ASSUME IInv, [Next]_vars PROVE IInv'
    OBVIOUS
<1>1. ReleasingHasToken
      BY DEF IInv, ReleaseTokens, ReleasingHasToken
<1>2. ValuesOK' /\ LapsedOK' /\ anonymous' \subseteq Requests
      BY <1>1, TypeParts, ValuesStep, LapsedStep, AnonymousStays DEF IInv
<1>3. TypeOK'
      BY <1>2, Zenon DEF TypeOK, ValuesOK, LapsedOK
<1> QED
    BY <1>3, MapStep, ReleaseTokensStep, ReleaseCommandsStep, KeyStep DEF IInv

(* The inductive invariant holds in every behaviour of the lock. *)
LEMMA Invariance == Spec => []IInv
  BY InitIInv, IInvStep, PTL DEF Spec

-----------------------------------------------------------------------------
(* What the lock guarantees.                                               *)

(* The lock's variables keep their types: Redis and the token map hold     *)
(* tokens that AcquireAgentLock drew, or nothing.                          *)
THEOREM TypeCorrect == Spec => []TypeOK
<1>1. IInv => TypeOK
      BY DEF IInv
<1> QED
    BY <1>1, Invariance, PTL

(* A lost or late command, a release of somebody else's token or a crash   *)
(* never takes the key of a holder whose lease has not lapsed              *)
(* (AcquireAgentLock, ReleaseAgentLock, releaseLockScript).                *)
THEOREM HolderKeepsKey == Spec => []HolderOwnsKey
<1>1. IInv => HolderOwnsKey
      BY DEF IInv
<1> QED
    BY <1>1, Invariance, PTL

(* Mutual exclusion of withAgentLock for any number of requests and        *)
(* processes, as long as no lease has lapsed among the present holders.    *)
THEOREM MutualExclusion == Spec => []ExclusionWhileLeased
  BY KeyHasOneOwner, Invariance, PTL

(* consumeLockToken can hand a request the token of another one, but only  *)
(* of one served by the same process.                                      *)
THEOREM ReleasesStayInProcess == Spec => []ForeignProcessKeyIsSafe
<1>1. IInv => ForeignProcessKeyIsSafe
      BY DEF IInv, ReleaseCommands, ForeignProcessKeyIsSafe, Minted
<1> QED
    BY <1>1, Invariance, PTL

(* No token stays in lockTokens without a request in its critical section  *)
(* that will consume it (StoreToken, consumeLockToken, a process restart). *)
THEOREM TokensAreConsumed == Spec => []TokenHasConsumer
<1> USE ConstantsAssumption
<1>1. Init => TokenHasConsumer
      BY DEF Init, TokenHasConsumer
<1>2. ASSUME ValuesOK, TokenHasConsumer, [Next]_vars PROVE TokenHasConsumer'
  <2> USE DEF ValuesOK
  <2> SUFFICES ASSUME NEW p \in Processes, NEW a \in Agents, lockTokens'[p][a] # NoToken
               PROVE  \E s \in Requests : ProcOf[s] = p /\ AgentOf[s] = a /\ pc'[s] = "critical"
      BY DEF TokenHasConsumer
  <2>1. CASE \E r \in Requests : StoreToken(r)
    <3>1. PICK r \in Requests : StoreToken(r)
          BY <2>1
    <3>2. TokenOf(r) \in Tokens
          BY <1>2 DEF TokenOf, Tokens
    <3>3. CASE p = ProcOf[r] /\ a = AgentOf[r]
          BY <1>2, <3>1, <3>3 DEF StoreToken
    <3>4. CASE ~(p = ProcOf[r] /\ a = AgentOf[r])
      <4>1. lockTokens'[p][a] = lockTokens[p][a]
            BY <1>2, <3>1, <3>2, <3>4, TokenMapType DEF StoreToken
      <4>2. PICK s \in Requests : ProcOf[s] = p /\ AgentOf[s] = a /\ pc[s] = "critical"
            BY <1>2, <4>1 DEF TokenHasConsumer
      <4> QED
          BY <1>2, <3>1, <4>2 DEF StoreToken
    <3> QED
        BY <3>3, <3>4
  <2>2. CASE \E r \in Requests : BeginRelease(r)
    <3>1. PICK r \in Requests : BeginRelease(r)
          BY <2>2
    <3>2. ~(p = ProcOf[r] /\ a = AgentOf[r]) /\ lockTokens'[p][a] = lockTokens[p][a]
          BY <1>2, <3>1, TokenMapType DEF BeginRelease
    <3>3. PICK s \in Requests : ProcOf[s] = p /\ AgentOf[s] = a /\ pc[s] = "critical"
          BY <1>2, <3>2 DEF TokenHasConsumer
    <3>4. pc'[s] = pc[s]
          BY <1>2, <3>1, <3>2, <3>3 DEF BeginRelease
    <3> QED
        BY <3>3, <3>4
  <2>3. CASE \E q \in Processes : Crash(q)
    <3>1. PICK q \in Processes : Crash(q)
          BY <2>3
    <3>2. p # q /\ lockTokens'[p][a] = lockTokens[p][a]
          BY <1>2, <3>1 DEF Crash
    <3>3. PICK s \in Requests : ProcOf[s] = p /\ AgentOf[s] = a /\ pc[s] = "critical"
          BY <1>2, <3>2 DEF TokenHasConsumer
    <3>4. pc'[s] = pc[s]
          BY <1>2, <3>1, <3>2, <3>3 DEF Crash
    <3> QED
        BY <3>3, <3>4
  <2>4. CASE ~\E r \in Requests : StoreToken(r) \/ BeginRelease(r)
    <3>1. \A s \in Requests : pc[s] = "critical" => pc'[s] = "critical" \/ \E q \in Processes : Crash(q)
          BY <1>2, <2>4 DEF Next, RequestStep, RejectAnonymous, BeginAcquire, RetryAcquire,
             AcquireError, ContextDone, GiveUp, AcquireReply, RetryRelease, EndRelease,
             RedisSetNX, RedisRelease, Expire, vars
    <3>2. UNCHANGED lockTokens \/ \E q \in Processes : Crash(q)
          BY <1>2, <2>4 DEF Next, RequestStep, RejectAnonymous, BeginAcquire, RetryAcquire,
             AcquireError, ContextDone, GiveUp, AcquireReply, RetryRelease, EndRelease,
             RedisSetNX, RedisRelease, Expire, vars
    <3> QED
        BY <1>2, <2>3, <3>1, <3>2 DEF TokenHasConsumer
  <2> QED
      BY <2>1, <2>2, <2>4
<1>3. IInv => ValuesOK
      BY TypeParts DEF IInv
<1> QED
    BY <1>1, <1>2, <1>3, Invariance, PTL DEF Spec

-----------------------------------------------------------------------------
(* AgentLock implements LeaseLock.                                         *)

(* A command is answered once: a caller that has its reply waits for none  *)
(* of the commands still in the network.                                   *)
Answers ==
  /\ \A r \in Requests : reply[r] # "none" => pc[r] \in {"acquiring", "releasing"}
  /\ \A m \in net : Awaited(m) => reply[m.by] = "none"

(* Every step preserves Answers. *)
LEMMA AnswersStep == ValuesOK /\ Answers /\ [Next]_vars => Answers'
<1> SUFFICES ASSUME ValuesOK, Answers, [Next]_vars PROVE Answers'
    OBVIOUS
<1> USE ConstantsAssumption DEF ValuesOK
<1>1. ASSUME NEW s \in Requests, RequestStep(s) PROVE Answers'
  <2>1. reply'[s] = "none"
    <3>1. pc[s] \in {"start", "locked", "critical"} => reply[s] = "none"
          BY DEF Answers
    <3> QED
        BY <1>1, <3>1 DEF RequestStep, RejectAnonymous, BeginAcquire, RetryAcquire,
           AcquireError, ContextDone, GiveUp, AcquireReply, StoreToken, BeginRelease,
           RetryRelease, EndRelease
  <2>2. \A r \in Requests : r # s => /\ pc'[r] = pc[r] /\ reply'[r] = reply[r]
                                     /\ calls'[r] = calls[r] /\ attempt'[r] = attempt[r]
                                     /\ relToken'[r] = relToken[r]
        BY <1>1 DEF RequestStep, RejectAnonymous, BeginAcquire, RetryAcquire, AcquireError,
           ContextDone, GiveUp, AcquireReply, StoreToken, BeginRelease, RetryRelease,
           EndRelease
  <2>3. \A m \in net' : m \in net \/ m.by = s
        BY <1>1 DEF RequestStep, RejectAnonymous, BeginAcquire, RetryAcquire, AcquireError,
           ContextDone, GiveUp, AcquireReply, StoreToken, BeginRelease, RetryRelease,
           EndRelease, Command
  <2>4. ASSUME NEW m \in net', Awaited(m)' PROVE reply'[m.by] = "none"
    <3>1. CASE m.by = s
          BY <2>1, <2>4, <3>1 DEF Awaited
    <3>2. CASE m.by # s
          BY <2>2, <2>3, <2>4, <3>2 DEF Awaited, Answers, Messages, TokenOf
    <3> QED
        BY <3>1, <3>2
  <2>5. ASSUME NEW r \in Requests, reply'[r] # "none"
        PROVE  pc'[r] \in {"acquiring", "releasing"}
        BY <2>1, <2>2, <2>5 DEF Answers
  <2> QED
      BY <2>4, <2>5 DEF Answers
<1>2. ASSUME NEW n \in net, RedisSetNX(n) \/ RedisRelease(n) PROVE Answers'
  <2>1. /\ UNCHANGED <<pc, calls, attempt, relToken>>
        /\ net' = net \ {n}
        /\ \A r \in Requests : reply'[r] # reply[r] => r = n.by /\ Awaited(n)
        BY <1>2 DEF RedisSetNX, RedisRelease, Answer, Messages
  <2>2. ASSUME NEW m \in net', Awaited(m)' PROVE reply'[m.by] = "none"
    <3>1. Awaited(m) /\ m \in net /\ m # n
          BY <2>1, <2>2 DEF Awaited, TokenOf
    <3>2. ~(m.by = n.by /\ Awaited(n))
      <4>1. SUFFICES ASSUME m.by = n.by, Awaited(n) PROVE m = n
            BY <3>1
      <4>2. m.kind = n.kind /\ m.token = n.token /\ m.attempt = n.attempt
            BY <3>1, <4>1 DEF Awaited
      <4> QED
          BY <3>1, <4>1, <4>2 DEF Messages
    <3> QED
        BY <2>1, <3>1, <3>2 DEF Answers, Messages
  <2>3. ASSUME NEW r \in Requests, reply'[r] # "none"
        PROVE  pc'[r] \in {"acquiring", "releasing"}
        BY <2>1, <2>3 DEF Answers, Awaited
  <2> QED
      BY <2>2, <2>3 DEF Answers
<1>3. ASSUME NEW a \in Agents, Expire(a) PROVE Answers'
      BY <1>3 DEF Expire, Answers, Awaited, TokenOf
<1>4. ASSUME NEW p \in Processes, Crash(p) PROVE Answers'
  <2>1. ASSUME NEW r \in Requests
        PROVE  \/ pc'[r] = "crashed" /\ reply'[r] = "none"
               \/ /\ pc'[r] = pc[r] /\ reply'[r] = reply[r]
                  /\ calls'[r] = calls[r] /\ attempt'[r] = attempt[r]
                  /\ relToken'[r] = relToken[r]
        BY <1>4 DEF Crash
  <2>2. net' = net
        BY <1>4 DEF Crash
  <2> QED
      BY <2>1, <2>2 DEF Answers, Awaited, TokenOf, Messages
<1>5. CASE UNCHANGED vars
      BY <1>5 DEF vars, Answers, Awaited, TokenOf
<1> QED
    BY <1>1, <1>2, <1>3, <1>4, <1>5 DEF Next

(* A step after which a request no longer holds settles the history        *)
(* variable, as a lease requires.                                          *)
LEMMA LeavingSettles ==
  ASSUME ValuesOK, Answers, [Next]_vars, NEW r \in Requests, Holds(r), ~Holds(r)'
  PROVE  Settle
<1> USE ConstantsAssumption DEF ValuesOK, Holds
<1>1. ASSUME NEW s \in Requests, RequestStep(s) PROVE Settle
  <2>1. CASE r = s
        BY <1>1, <2>1 DEF RequestStep, RejectAnonymous, BeginAcquire, RetryAcquire,
           AcquireError, ContextDone, GiveUp, AcquireReply, StoreToken, BeginRelease,
           RetryRelease, EndRelease
  <2>2. CASE r # s
        BY <1>1, <2>2 DEF RequestStep, RejectAnonymous, BeginAcquire, RetryAcquire,
           AcquireError, ContextDone, GiveUp, AcquireReply, StoreToken, BeginRelease,
           RetryRelease, EndRelease
  <2> QED
      BY <2>1, <2>2
<1>2. ASSUME NEW m \in net, RedisSetNX(m) \/ RedisRelease(m) PROVE FALSE
  <2>1. pc' = pc /\ (reply'[r] # reply[r] => r = m.by /\ Awaited(m))
        BY <1>2 DEF RedisSetNX, RedisRelease, Answer, Messages
  <2> QED
      BY <2>1 DEF Answers
<1>3. ASSUME NEW a \in Agents, Expire(a) PROVE FALSE
      BY <1>3 DEF Expire
<1>4. ASSUME NEW p \in Processes, Crash(p) PROVE Settle
      BY <1>4 DEF Crash
<1>5. ~UNCHANGED vars
      BY DEF vars
<1> QED
    BY <1>1, <1>2, <1>3, <1>4, <1>5 DEF Next

(* Every step of the lock is a step of a lease, or changes nothing of it. *)
LEMMA StepIsLeaseStep ==
  ASSUME IInv, Answers, [Next]_vars
  PROVE  [Lease!LeaseNext]_(Lease!leaseVars)
<1> USE ConstantsAssumption
<1> DEFINE holders == [a \in Agents |-> Granted(a)]
<1>1. ValuesOK /\ LapsedOK
      BY TypeParts DEF IInv
<1>2. CASE \E r \in Requests : ~Holds(r) /\ Holds(r)'
  <2>1. PICK r \in Requests : ~Holds(r) /\ Holds(r)'
        BY <1>2
  <2> DEFINE a == AgentOf[r]
  <2>2. /\ a \in Agents
        /\ redis[a] = NoToken
        /\ UNCHANGED <<pc, lapsed>>
        /\ reply' = [reply EXCEPT ![r] = "yes"]
        BY <1>1, <2>1, GrantedBySetNX
  <2>3. \A b \in Agents : Granted(b)' = IF b = a THEN Granted(b) \cup {r} ELSE Granted(b)
        BY <1>1, <2>1, <2>2 DEF Granted, Holds, ValuesOK
  <2>4. r \notin Granted(a)
        BY <2>1 DEF Granted
  <2>5. lapsed[a] \/ Granted(a) = {}
    <3>1. SUFFICES ASSUME ~lapsed[a], NEW s \in Granted(a) PROVE FALSE
          OBVIOUS
    <3>2. redis[a] = TokenOf(s)
          BY <3>1 DEF IInv, HolderOwnsKey, Granted
    <3>3. TokenOf(s) \in Tokens
          BY <1>1 DEF Granted, TokenOf, Tokens, ValuesOK
    <3> QED
        BY <2>2, <3>2, <3>3 DEF Tokens
  <2>6. holders' = [holders EXCEPT ![a] = @ \cup {r}]
        BY <2>2, <2>3
  <2>7. Lease!Grant(a, r)
        BY <2>2, <2>4, <2>5, <2>6 DEF Lease!Grant
  <2> QED
      BY <2>2, <2>7 DEF Lease!LeaseNext
<1>3. CASE /\ ~\E r \in Requests : ~Holds(r) /\ Holds(r)'
           /\ \E r \in Requests : Holds(r) /\ ~Holds(r)'
  <2> DEFINE S == {r \in Requests : Holds(r) /\ ~Holds(r)'}
  <2>1. Settle
        BY <1>1, <1>3, LeavingSettles
  <2>2. \A a \in Agents : Granted(a)' = Granted(a) \ S
        BY <1>3 DEF Granted
  <2>3. holders' = [a \in Agents |-> holders[a] \ S]
        BY <2>2
  <2>4. lapsed' = [a \in Agents |-> lapsed[a] /\ holders[a] \ S # {}]
        BY <2>1, <2>2 DEF Settle
  <2>5. Lease!Leave(S)
        BY <2>3, <2>4 DEF Lease!Leave
  <2> QED
      BY <2>5 DEF Lease!LeaseNext
<1>4. CASE \A r \in Requests : Holds(r)' <=> Holds(r)
  <2>1. \A a \in Agents : Granted(a)' = Granted(a)
        BY <1>4 DEF Granted
  <2>2. holders' = holders
        BY <2>1
  <2>3. CASE Settle
    <3>1. lapsed' = [a \in Agents |-> lapsed[a] /\ holders[a] \ {} # {}]
          BY <2>1, <2>3 DEF Settle
    <3>2. Lease!Leave({})
          BY <2>2, <3>1 DEF Lease!Leave
    <3> QED
        BY <3>2 DEF Lease!LeaseNext
  <2>4. CASE UNCHANGED lapsed
        BY <2>2, <2>4 DEF Lease!leaseVars
  <2>5. CASE \E a \in Agents : Expire(a)
    <3>1. PICK a \in Agents : Expire(a)
          BY <2>5
    <3>2. CASE \E r \in Granted(a) : TokenOf(r) = redis[a]
      <4>1. lapsed' = [lapsed EXCEPT ![a] = TRUE]
            BY <1>1, <3>1, <3>2, Zenon DEF Expire, LapsedOK
      <4>2. Lease!Lapse(a)
            BY <2>2, <3>2, <4>1 DEF Lease!Lapse
      <4> QED
          BY <4>2 DEF Lease!LeaseNext
    <3>3. CASE ~\E r \in Granted(a) : TokenOf(r) = redis[a]
      <4>1. lapsed' = lapsed
            BY <1>1, <3>1, <3>3 DEF Expire, LapsedOK
      <4> QED
          BY <2>4, <4>1
    <3> QED
        BY <3>2, <3>3
  <2>6. Settle \/ UNCHANGED lapsed \/ \E a \in Agents : Expire(a)
        BY Zenon DEF Next, RequestStep, RejectAnonymous, BeginAcquire, RetryAcquire,
           AcquireError, ContextDone, GiveUp, AcquireReply, StoreToken, BeginRelease,
           RetryRelease, EndRelease, RedisSetNX, RedisRelease, Crash, vars
  <2> QED
      BY <2>3, <2>4, <2>5, <2>6
<1> QED
    BY <1>2, <1>3, <1>4

(* The Redis lock implements the lease it stands for: SETNX with retries,  *)
(* the shared token map, the release script, expiry and crashes, for any   *)
(* number of requests, processes and agents.                               *)
THEOREM LockImplementsLease == Spec => ImplementsLease
<1>1. Init => Lease!LeaseInit
      BY DEF Init, Lease!LeaseInit, Granted, Holds
<1>2. Init => Answers
      BY DEF Init, Answers
<1>3. IInv => ValuesOK
      BY TypeParts DEF IInv
<1>4. IInv /\ Answers /\ [Next]_vars => [Lease!LeaseNext]_(Lease!leaseVars)
      BY StepIsLeaseStep
<1> QED
    BY <1>1, <1>2, <1>3, <1>4, AnswersStep, Invariance, PTL
       DEF Spec, ImplementsLease, Lease!LeaseSpec

=============================================================================
