# A TLA+ specification of the swarm-emotions orchestrator and engine

The system gives conversational agents an emotional state.  A Go service (the
*orchestrator*) answers interactions over HTTP; a Rust service (the *emotion
engine*) computes state transitions, vectors, scores and promotions; a Python
service classifies text.  Redis keeps the state of each agent, its working
memory and its lock; Postgres keeps configurations, logs, histories and
cognitive contexts; Qdrant keeps long-term memories.

The modules in this directory model the parts of it that are concurrent, that
survive failures and that carry state from one interaction to the next.  TLC
checks them on small instances; TLAPS proves the most important properties for
every number of requests, agents, processes and callers.

## Inventory

| Component | State | Operations | What is hard | What makes it correct |
|---|---|---|---|---|
| Agent lock (`cache/client.go`, `withAgentLock`) | Redis key `agent_lock:<id>`, map `lockTokens` per process | acquire (SETNX with a token, retried), release (script, retried), expiry | lost and late commands, a lease of 2 s nobody renews, a token map shared by the requests of a process, crashes | one request per agent until a lease lapses; releases touch no foreign key; every wait ends; orphaned locks go away |
| Interaction pipeline (`pipeline/orchestrator.go`, `step_*.go`) | `emotion_state:<id>`, rows in Postgres | the eight steps, post-processing in the background, errors after partial effects | read in step 1, write in step 4, late writes, background work after the lock is released | no lost update of the emotional state; rows only for interactions that took place |
| Agent handlers (`api/handler_agent.go`) | `agent_configs`, `emotion_state:<id>` | create, update, delete | they take no lock and consist of two calls each | no rows without a configuration |
| Circuit breaker (`emotion/circuit_breaker.go`) | state, failure count, probe flag, `openedUntil` | admit, reject, success, failure | results that arrive late, clock readings taken before the mutex | quarantine, one decision per probe, recovery |
| Memory life cycle (`vectorstore/client.go`, `gc.go`, `step_retrieve.go`, `step_postprocess.go`, `promotion/evaluator.rs`) | points in Qdrant | store, touch, promote, collect | every call is separate, no lock, commands that are repeated or executed late, upserts that replace whole points | counts are honest, levels only rise, what was collected stays gone, what is stale goes |
| Emotional state machine (`emotion-engine/src/fsm/`) | transition table, constraints; the snapshot of an agent travels | load, validate, transition | configurations, hash-map order, a clock that is set back | the search is exact, nobody is trapped, minimum durations hold |
| Retry policy (`resilience/retry.go`) | none | attempts, backoff with jitter, cancellation | the retry of what was already done | attempts bounded (checked through its callers) |
| Working memory (`cache/client.go`, `step_postprocess.go`) | sorted set `working_memory:<id>` | push with trimming and TTL, read | pushes repeated, late, lost and concurrent; equal scores | the prompt shows the latest turns, in order, none twice |
| Classifier clients (`classifier/`) | classification cache in Redis | classify: fallback around cache around HTTP client | timeouts while the service works on, errors that must not be cached | answers belong to their text and keep their source; every caller returns |
| Classifier service (`python-ml/app`) | mode, the request it is busy with | classify, restart | a blocking call in a coroutine, answers of a model that are unsorted, repeated, unknown | the strongest usable label decides |
| Cognitive context (`step_cognitive.go`, `model/cognitive.go`, `db/client.go`) | a row of `cognitive_contexts` | prepare under the lock, write after it, delete with the agent | read and write are in different critical sections, writes are repeated and late, deletion takes no lock; a list of goals that only grows and is cut | the request stays a goal; goals fit the beliefs they come with |
| Retrieval, ranking and prompt (`step_retrieve.go`, `step_fuse.go`, `step_prompt.go`, `emotion_directive.go`, `scoring/fusion.rs`) | none | decay, merge, rerank, fuse, split, budget | random map order, ties, minima that add up | a memory is left out only for better ones; memories fit their budget |
| LLM providers and event stream (`llm/`, `stepGenerateStream`, `handler_interact.go`) | a channel of 32, a goroutine per stream | generate, stream, answer | errors and ends in the middle of a stream, clients that leave or stop reading, a reader nobody reads from | the client is told what is recorded; every request of a client that reads is answered, and the reader ends |

`PROJECT.json` lists every component with what is modelled of it; "Not
modelled" below says what is left out and why.

## Modules

    LeaseLock  <-- implemented by --  AgentLock            (AgentLockProofs)
        ^
        '------- extended by -------  InteractionPipeline  (InteractionPipelineProofs)
    ClassifierChain   step 2                           (ClassifierPromptProofs)
    EmotionFsm        step 3                           (EmotionFsmProofs)
    CircuitBreaker    every call to the engine         (CircuitBreakerProofs)
    CognitiveContext  step 5                           (CognitiveContextProofs)
    PromptContext     steps 5, 6 and the prompt        (ClassifierPromptProofs)
    LlmStream         step 7 and what the client sees  (LlmStreamProofs)
    MemoryLifecycle   memories, steps 5 and 8          (MemoryLifecycleProofs)
    Listing           sorting and filtering, for ClassifierChain and PromptContext

Every `MC*` module gives the constants of its specification their values for
TLC.  Operators introduced by "Faulty variant for mutation testing" are what
the code would be with a plausible bug; no specification uses them.

**LeaseLock** says what the lock promises: a request is granted the lock of an
agent only when nobody holds it or a lease has lapsed under a present holder
(`broken`), and the promise stands again once all holders have left.

**AgentLock** is the lock as it is built.  `net` holds the commands on their
way to Redis: a command may be executed at any later time or never, its reply
counts only while the caller still waits for this very attempt (`Awaited`), and
an attempt may time out at any time (`RetryAcquire`, `RetryRelease`).
`lockTokens` is the map of each process.  `StoreToken` is separate from
`AcquireReply` because the map is written after SETNX has answered.
`BeginRelease` takes whatever token the map has, as `consumeLockToken` does.
`Expire` may happen at any time: the code compares nothing with the TTL, so no
clock is needed.  `Crash` kills a process with its requests and its map; keys
and commands stay.  `anonymous` are the requests that arrive without an agent id;
a request in `Stuck` may stay in `fn` for ever, because a streamed answer is
written to its client under the lock and nothing ends a write to a client that
stays connected and stops reading.  A failure of the random source in `newLockToken` returns an
error before anything is sent, and is covered by `ContextDone` from the start.

**InteractionPipeline** runs `Execute` and `ExecuteStream` on the lease.  An
emotional state is represented by the sequence of the interactions that led to
it (`NextState` appends one), so a lost update is a missing element.  Steps 2
and 3 compute and are one action; step 4 is `Persist`; the steps that only read
or rank are `Retrieve`; `Generate` dispatches the background work.  `late`
holds SET commands that an abandoned attempt left behind.  `ReturnError`,
`BootstrapReplyLost` and `PersistFails` are the error paths; nothing is undone.
The background goroutine writes the log, the history and the cognitive context
with three separate calls whose errors are dropped, and the foreign keys of
Postgres reject rows of agents that have no configuration.  The agent handlers
interleave with all this, call by call.  What the steps compute is in the
modules below.

**CircuitBreaker** has callers that read the clock (`ReadClock`), are admitted
or rejected under the mutex, and report success or failure later.  `openLeft`
is the time until `openedUntil`; `early` remembers whether the caller's reading
was before it.  Errors are transient, permanent or the caller's cancellation.

**MemoryLifecycle** has the memories of one agent.  Every interaction searches
twice and merges the hits (`Search`, `Retrieve`), its touch goroutine writes
their counts (`WriteTouch`), its post-processing promotes L2 memories (`ScanL2`,
`PromoteOne`), decides about its own memory and stores it (`Decide`, `Upsert`);
the collector scrolls and deletes (`ScrollStale`, `DeletePoints`); `Age` lets
`L2MaxAge` pass.  A call that is not answered in time (`TouchUnanswered`,
`PromoteUnanswered`, `UpsertUnanswered`, `DeleteUnanswered`) was executed all the
same, is lost, or joins `late` and is executed later or never (`LateCommand`);
it is made again or given up.  `After` says what a command makes of its point.
The thresholds are those of the code: an interaction is stored only when its
intensity exceeds 0.9, hence every stored memory qualifies for L3 at the next
successful scan, and the promotion by frequency and valence is never what
decides.

**EmotionFsm** loads a configuration (`RulesParse`, the breadth-first search
`ExpandState`, `FinishLoading` with the constraints), and then moves one agent.
Names are those that `normalize_key` makes of what the file says; a rule or a
forbidden move with an unknown state or an empty stimulus does not parse.
A later rule for the same state and stimulus replaces an earlier one, as in the
hash map.  `stayed` is the time really spent in a state; the engine itself only
sees the difference of two clock readings, and the clock may be set back.  A
clock that jumps forward makes the engine believe in time that did not pass;
that is not modelled, and `DwellRespected` says nothing about it.

**ClassifierChain** follows a text from `stepPerceive` through `FallbackClient`,
`CachedClient` (`CacheGet`, `CacheSet`) and `Client` (`Send`, `GiveUp`) to the
Python service, which accepts requests into a `backlog` and works on one at a
time because its coroutine calls a blocking function (`Begin`, `Finish`,
`FinishWithError`).  A caller that gives up leaves its request behind with the
client `Nobody`.  A text is reduced to what the keyword tests find in it; the
answer of a model is a list of labels and scores that may repeat a label, name
an unknown one, carry a score of zero or be empty.  `by` and `of` are ghosts in
a result that record who made it and for which text.

**CognitiveContext** has the row of an agent, what `prepareCognitiveContext`
makes of it under the lock (`Retrieve`), and the write of post-processing after
the lock has been released (`Write`), which is repeated while it is not answered
(`WriteUnanswered`) and may be executed when nobody waits for it any more
(`LateWrite`).  `SaveConfig` and `DeleteAgent` are the agent handlers, which take
no lock: a deletion removes the context with the configuration, and without a
configuration the foreign key rejects the write.  A text is reduced to the
outcomes of the keyword tests.  Goals are a function from ids to priorities;
`Cut` keeps the four that come first in the order of `sort.Slice`.  Rows of an
older version, with goals derived from plain strings, may be in the table at the
start (`legacy`).

**PromptContext** composes the prompt.  `Ask` reads the working memory and one
retrieval, which stands for the results of the two searches, the prepared
context, the weights, the order in which Go iterates over a map and the new
emotion; `PromptFor` is the chain of pure functions from decay to the split into
semantic and resonant memories, over fixed-point scores.  Post-processing then
pushes two turns with the retries of the client: `Push`, `PushReplyLost` (the
script ran, the client does not know and repeats it), `PushTimesOut` (it may run
later, `LatePush`), `PushGivenUp`, and `Crash` between the two.  `ExpireWindow`
is the TTL of the window.  Where the code sorts without saying how equals are ordered,
every order is allowed (`RecentTurns`, `Trim`).

**Listing** has the sort (`InOrder`) and the filter (`Among`) that the fusion,
the split of the memories and the classifier's list of labels are made of.  Both
are defined by counting what comes before an element, so that they can be
reasoned about without induction.

**LlmStream** has the goroutine of the request, the goroutine that a streaming
provider starts, and the channel between them.  The body of the model server is
any sequence of lines; `ChunksOf` says what each provider makes of a line,
`ScanEnds` what it makes of the end of the body, of a broken connection, of a
deadline and of a cancellation.  `SendChunk` blocks while the channel is full,
whatever the context says.  `ShowMetadata`, `ShowChunk` and `Answer` are writes to
the client; a client that has not left may keep them waiting.  `shown` and `terminal` are what the client has seen,
`recorded` is the answer handed to post-processing.

## Runs

| Run | Shows |
|---|---|
| `agent_lock` | mutual exclusion until a lease lapses, the holder's key is its own, AgentLock implements LeaseLock, every request returns, and keys and tokens drain: two requests of one process and one of another, two attempts per command, two tries per request.  One request may hang in `fn` for ever, and one, of either process, arrives without an agent id |
| `agent_lock_owner` (violation) | a request can release the lock of another one of its process |
| `pipeline` | no lost update and no unjustified row: two interactions in two processes and two calls of the agent handlers |
| `pipeline_lost` (violation) | a lapsed lease loses an update |
| `breaker` | three callers, threshold 3, timeout of two ticks: probe, quarantine, streak; a healthy engine ends up behind a closed circuit |
| `memory` | three interactions, two of which store a memory, pages of one point and one abandoned command at a time: counts and levels; collected memories stay gone, and stale ones are collected |
| `memory_l3` (violation) | a memory promoted to L3 between the collector's scroll and its delete is deleted |
| `fsm` | the default configuration and 36 edits of it (rules deleted, replaced, misspelt, without a stimulus): the search is exact, durations are respected, the default graph is strongly connected |
| `llm_stream` | three providers, both handlers, every body of up to three lines: what a client is told agrees with what is recorded, a shortened answer is recorded only when its client has gone, every request is answered unless its client stays and stops reading, and the reading goroutine ends unless nobody takes from its full channel, because a write to the client failed or never ends |
| `classifier` | two callers, a service that blocks, fails and restarts, with and without cache and fallback: answers belong to the caller's text, a neutral fallback is never cached, the strongest label wins, every caller returns |
| `cognition` | two interactions that write outside the lock, again and late, while the agent is deleted and configured: the user's request stays among the four goals, and every context has the goals for a user under pressure, in trouble or new to the subject |
| `prompt` | two turns pushed with repetitions, losses and delays while a third request asks, and retrievals that fill, overfill and underfill each part of the prompt: latest turns in order, nothing left out but for better, memories within budget |

The three violations are disagreements between a document and the code; the
`findings` of `PROJECT.json` quote the documents.

The models also show some behaviour that no document speaks about, or that
the properties had to be stated around:

* The breaker counts every error, the caller's own mistakes included, and so
  can refuse callers while the engine is well.
* A self loop counts as an exit in `validate`, so a configuration with a state
  nobody can leave is accepted.
* Goals are added and never withdrawn, and the list is cut to the four
  strongest.  FASE_5_COGNICAO_LLM.md:722 ticks off "Goals re-priorizam baseado em
  contexto".  For the goals of a user under pressure, in trouble or new to the
  subject this is so, and `StrongGoalsFollowContext` says it.  For the weaker
  ones it is not: after "hello" and "it does not work" the list is full
  (`resolve_request`, `diagnose_problem`, `plain_language`,
  `emotional_continuity`, each at 80 or more), and a farewell gets no
  `clean_handoff` (76).  `close_loop` and `technical_precision` are lost in the
  same way once `reduce_friction` is there too.  No run repeats this.
* A stale write of the cognitive context forgets what the interactions in
  between have learned: time pressure, for instance, is believed once and then
  for ever, until a write of an earlier interaction or a deletion of the agent
  undoes it.
* Post-processing that is under way while its agent is deleted and configured
  anew writes the context of the deleted agent back.
* Concurrent touches lose accesses: `CountNeverExceedsAccesses` is a bound from
  above only.
* A SET that is executed late and the reset of CreateAgent may overwrite a
  younger emotional state; `HolderSeesCurrentState` and `StateIsCumulative` name
  both as exceptions.
* A request that fails after step 4 has moved the state without leaving a row,
  and its repetition moves it again; a process that stops loses the rows of
  requests it has answered.  `RowsAreJustified` is about the rows that exist.
* A memory found only by the emotional search loses the cognitive score it was
  stored with (`MergeResults`).
* The working-memory section can exceed its share of the smallest budget: three
  turns of at least 48 characters need 144, the share is 128.
  `MemoriesFitTheirBudget` is therefore about the two memory sections.
* `SendChunk` waits for room in the channel and for nothing else.  When a write
  to the client fails, `stepGenerateStream` returns without draining the
  channel, and a reader that still has more lines than the channel has room for
  waits for ever, with the body open.  The server has no write timeout
  (`main.go:201-205`), so a client that stays connected and stops reading keeps
  the handler in its write and the reader before a full channel in the same
  way, and a streamed interaction keeps the agent's lock key until its lease
  ends.  `StreamEnds` names both cases.
* A body that ends without an end marker counts as a complete answer, and so
  does one that was cut off because the client left.
* When two labels of a model's answer are equally strong, the Ollama mode takes
  the one that was named first, with whatever score; the transformers mode,
  which does not remove repeated labels, takes the one that was first named with
  that score.  `StrongestLabelWins` says which for each.

### Bounds

* `Requests`, `Processes`: the interesting conflicts of the lock are between
  two requests of one process (they share a map entry) and between processes;
  three requests in two processes have both.  The pipeline needs two requests:
  one that loses and one that overwrites.
* `Attempts` is two for the cache client, as in the code (one where the run shows
  a violation that needs no second).  The Qdrant client makes three; two stand
  for them in MemoryLifecycle, because the second is the first that can meet the
  late effect of an earlier one.  The number of attempts of a touch, a promotion,
  a deletion and a write of the cognitive context is left open.  `MaxAcquires`
  bounds the turns of the polling loop; a request that used them up can only be
  ended by its context.
* In `agent_lock` one of the three requests has no agent id, so that two compete,
  in one process or in two; all three compete in `agent_lock_owner`, and the
  safety theorems are about any number.
* `MaxLate` 1 bounds the abandoned commands on their way (MemoryLifecycle, and the
  writes of CognitiveContext).  A command may be executed any number of times
  before it is dropped, which stands for several copies of it.
* `MaxAdmin` 2 allows a creation or update and a deletion that overlaps it.
* `FailureThreshold` 3 and three callers let a late result meet each state of
  the breaker with the count below, at and beyond the threshold.
* `GCAccessThreshold` 1 and `BatchSize` 1 make a single access matter and make
  the collector turn pages.
* `Cap` is smaller than the longest body, so that the channel fills up and the
  reader waits; three lines hold a text, a blank or broken line and an end in
  each order.
* Two callers and a backlog of three let an abandoned request stand before a
  live one.  The longest answer of the model repeats a label, names two equally
  strong ones and has more labels than the `TopK` of 3.  One text belongs to
  several keyword classes, one is blank.
* Three inputs of CognitiveContext (a problem of a beginner, a solution in
  technical terms, small talk in a hurry) reach every phase but the farewell,
  every belief but the intermediate expertise, and more goals than the list has
  room for; two requests are enough for
  one write to be stale.  The theorems are about all inputs.
* `MaxEntries` 3 is exceeded by the four entries of two turns (`MaxTurns`), and
  `MaxStamp` 2 gives equal, adjacent and reversed stamps.  One request asks
  with the full set of retrievals; the others, whose turns matter, find an empty
  store.  The retrievals hold up to five memories, one more than a prompt has
  places for.
* `MaxNow` is larger than every minimum duration of the configuration.

### Fairness

* AgentLock: goroutines are scheduled, the HTTP timeout (`middleware.Timeout`)
  cancels the context of a waiting request, Redis expires keys.  `fn` ends for
  requests that are not in `Stuck`: its calls run under timeouts, and only the
  write of a chunk to a client that stays and does not read has none.  Nothing is
  assumed of replies or of other requests, so a stuck one delays nobody for ever.
* CircuitBreaker: time passes, and callers keep calling and get results.
* MemoryLifecycle: the ticker fires for ever, and a delete that is tried again
  and again succeeds at last (strong fairness of `DeletePoints`).
* LlmStream: both goroutines are scheduled; a call of the model server and a read
  of the body end, because step 7 runs under a deadline; a write to a client that
  has left ends, with an error.  A write to a client that is connected need not
  end: nothing is assumed of the client.
* ClassifierChain: a caller's own steps go on, and its HTTP client gives up in
  the end; nothing is assumed of the service.

Deadlock is not checked where the system may rightly stop: all requests have
been served.  CircuitBreaker and CognitiveContext run for ever and are checked
for it.

## Proofs

All constants are arbitrary, under the named assumptions of the modules
(`ConstantsAssumption`, `PipelineAssumption`, `ConfigAssumption`,
`LifecycleAssumption`, `FsmAssumption`, `ChainAssumption`, `StreamAssumption`,
`PromptAssumption`):
requests have a process and an agent, there is at least one attempt, thresholds
are positive, and the "no value" constants are no values.  Emotional states are
finitely many (an enumeration of the engine), rules are a list and minimum
durations natural numbers (a `Vec` and `u64`); callers of the classifier are
finitely many (goroutines of the requests); the body of a model server's answer
is a sequence of lines; a raw classification is a list of labels with scores.
Of a retrieval it is assumed that scores, weights, priorities, token limit and
intensity are numbers (fixed-point ones here), that the context has finitely
many goals, and that the iteration over the merged map meets every memory once.

**AgentLockProofs.**  Types, `HolderOwnsKey`, `ExclusionWhileLeased`,
`TokenHasConsumer`, `ForeignProcessKeyIsSafe` and the refinement of LeaseLock.
(The third and fourth, and `OutOfOpenOnlyAfterTimeout` below, are stated in the
specifications and are theorems only; no run repeats them.)
`HolderOwnsKey` is the heart: if the key of an agent carries each holder's
token, there is one holder.  It is not inductive alone, because a release still
on its way could delete the key; the invariant adds that the tokens in the map,
in the hands of a releasing request and in release commands were minted by
requests of the same process and agent (`MapTokens`, `ReleaseTokens`,
`ReleaseCommands`), and that a holder's token gets into a release only when a
lease lapsed.  The refinement maps `holders` to `Granted` and `broken` to
`lapsed`.

**CircuitBreakerProofs.**  Types, `HalfOpenHasProbe`,
`OutOfOpenOnlyAfterTimeout`, and the action properties `Quarantine` and
`OpensOnlyOnAStreak`.  The invariant adds that whoever holds a reading of the
clock that is not before `openedUntil` holds it in a state where the timeout
has passed (`ReadingsAreSound`: opening the circuit moves `openedUntil` beyond
all earlier readings), and that in the closed state `consecutiveFailed` is
below the threshold and never exceeds the real streak (`CountIsAStreak`).

**InteractionPipelineProofs.**  `HolderSeesCurrentState`, `StateIsCumulative`
and the exclusion of interactions.  The invariant adds that the lock is held by
exactly the requests inside `Execute` (`HoldersAreRunning`), without which
nothing keeps a second writer out, and that only requests beyond step 4 have a
SET on its way (`LateIsPersisted`).  Types and `RowsAreJustified` come from an
invariant of their own (`RowsInv`): post-processing exists only for requests
that were answered (`PostFollowsAnswer`), every row was written by the
post-processing of a request for this agent (`RowsAreOwned`), and whatever
refers to an agent has its configuration (`ReferencesHold`), which survives the
deletion of an agent because `DeleteAgent` removes both in one transaction.

**MemoryLifecycleProofs.**  Types, `CountNeverExceedsAccesses`,
`CollectedIsGone`, and the action property `DemotedOnlyByResentUpsert`, for any
interactions and thresholds, any number of abandoned commands, and without a lock
between the goroutines that insert, touch, promote and collect.  Every step sends
one command, deletes a page, lets time pass or leaves Qdrant alone
(`QdrantStep`), so a conjunct is proved once for each of these and not for each
action.  For the counts, the touches that are still to be written and those that
were abandoned must not exceed the accesses either (`TouchesCounted`,
`LateCounted`).  For the other two, what they lack is when a point can still be
inserted: an interaction counts its attempts from one (`AttemptsCounted`), a point
exists only after an attempt of its interaction, which was not the last one while
it still inserts (`InsertedOnce`), and a memory that is old, picked by the
collector, on its way to deletion or deleted belongs to an interaction that is
done and has no upsert under way (`Settled`).  The last closes the gap between
the collector's scroll and its delete, and between a delete and its repetition.

**EmotionFsmProofs.**  Types, `SearchFindsReachable`, `DwellRespected`, and that
an engine that runs has a configuration whose states can all be reached
(`EveryStateReachable`, stated here only), for every configuration and every
order in which the hash map yields successors.  Reachable means: in every set
that contains Neutral and is closed under the rules, so no recursion is needed.
`SearchInv` is the usual invariant of a search: the queue is part of what was
found, what was found and left the queue has all its successors found, and
nothing was found that a closed set could lack.  `DwellRespected` needs that
the clock, which may be set back, never shows more time in the current state
than really passed (`ClockIsHonest`).

**ClassifierPromptProofs, ClassifierChain.**  Types and
`AnswersKeepTheirSource`, for any number of callers, any texts and any raw
answers of the model.  The heart is `Awaited`: whoever the service still means
to answer waits for the answer to this very text, and there are no two requests
of one caller, since a caller that gave up is `Nobody` to the service from then
on.  With it a late answer reaches no later call.  The other parts say that the
cache holds only answers of the service for their own text
(`CacheIsFromService`: a neutral fallback and an error are never cached), and
the same for what a caller was told (`ToldOwn`).

`StrongestLabelWins` is proved for every list of labels and every `top_k`.  The
best score of a label, its first mention and its first mention with that score
exist because a finite set of numbers has a least and a greatest member; the
first element of the sorted list (`WeightedIsStrongest`), or the first of the
greatest score in the list as it came (`CombinedIsStrongest`), is then the one
label that beats all others (`StrongestIsOne`).

**ClassifierPromptProofs, PromptContext.**  Types, `LeftOutOnlyByBetter`,
`MemoriesFitTheirBudget` and the action property `LatestTurnsAreShown`, for any
number of requests, memories, attempts and pushes, every size of the window and
every retrieval.

* `LatestTurnsAreShown` needs two facts about the window (`WindowInv`): a
  request has one time stamp, and all its entries, those in late scripts
  included, carry it (`StampedOnce`), so that a repeated push is the same member
  of the sorted set; and what was pushed and is no longer in the window left it
  full of entries that are not older (`WindowIsLatest`), which survives a late
  push of an old turn because the script trims what it just added.
* The other three follow from `PromptsAreMade` (a request at its prompt has what
  `PromptFor` makes of one of its retrievals) and from lemmas about the pure
  functions: every candidate has a score, so that score and map order together
  order the candidates strictly (`CandidatesAreScored`, `RankedOnce`); the
  ranking lists every memory found once; `splitRankedMemories` leaves out a
  memory only when its own part was full of better ones and the fallback filled
  the other part (`SplitIsFair`); and n memories that get an n-th of a section,
  but at least 64 characters, fit because the smallest sections have 256 and 192
  characters for two and three memories (`SectionFits`).

Both rest on lemmas about lists: `InOrder` lists each element of a finite set
once and in order, because no two elements have equally many before them and so
none of the places stays free (`InOrderLists`); `Among` keeps what it selects in
its order (`AmongLists`); and a sum of n numbers of at most b is at most n * b
(`SumIsBounded`).  The sum of the community modules takes one element away after
the other; that it does so for every finite set (`SumUnrolls`), and what follows
for sums, is proved by induction on the number of elements, in the form of a
statement about sets of numbers (`AllNumbers`).

**LlmStreamProofs.**  Types, `ClientIsToldTheTruth` and
`ShortOnlyForAbsentClients`, for every set of answers of the server and every
capacity of the channel.  The first needs that a chunk being shown is the only
word by which the client may be behind (`Progress`).  The second follows a word
from the body to the record: what the lines read so far say is what the request
has collected, followed by what is in the channel and in the hands of the
reading goroutine (`Carried`); a chunk that ends the stream is the last one (`OneFinal`), nothing
is read beyond the end marker (`EndsOnce`), and "done" is sent at the end of the
body or when nobody needs the answer (`DoneIsTrue`).  What the lines read so far
say is a recursive function; that it unrolls as it is written (`SaidUnrolls`) is
proved by contradiction from a least length at which no such function exists,
because the induction theorems of the library cannot be used.

**CognitiveContextProofs.**  Types, `ResolveRequestIsActive` and
`StrongGoalsFollowContext`, for every set of inputs and requests and any number
of writes on their way.  The invariant says the same of the row, of the contexts
of running interactions and of those in late writes: at most four goals,
priorities within the limits of each goal (`GoodGoals`), and the strong goals that
the beliefs ask for (`Fits`).  A step makes no context but by preparing one from
another or by taking the default (`EverywhereStep`), so what is left is that
`Prepare` keeps it (`PrepareKeepsGood`).  This needs that cutting a list leaves at
most four goals (`CutLeavesFour`) and never takes one of `resolve_request`,
`reduce_friction`, `diagnose_problem` and `plain_language`, because no other goal
can come before them (`CutKeepsStrongest`).

Only model-checked:

* liveness under fairness (`EveryRequestReturns`, `LocksDrain`, `Recovers`,
  `StaleIsCollected`, `StreamEnds`, `CallersReturn`), which the proof system
  does not handle;
* `NobodyIsTrapped`: it is about the one default configuration, which the run
  checks completely.

## Not modelled

* Emotion vectors (`emotion-engine/src/vector/`): floating-point algebra; TLC
  has no reals, and the modules take its results as arbitrary values.
* The engine's gRPC server and client: conversions of messages around stateless
  functions; the functions that decide something (state machine, fusion,
  promotion) are modelled where they are used.
* Delays and jitter of the retry policy: they only choose when an attempt
  happens, and the modules allow every time.
* The wording of prompts, tone compliance (a metric), the lists Postgres serves
  to the user interface, routing and decoding of HTTP requests, configuration
  from the environment, embeddings and batches of the classifier service.
* The user interface, metrics and logs, mocks, load test, scripts and generated
  code, which the behaviour does not depend on.
* Two hazards have no property: the display name that a bootstrap overwrites
  (the model keeps whether a configuration exists), and two memories of one
  millisecond that share an id.

## Plan

Done: all modules above; every invariant and every action property that a
passing run checks is proved, but for `NobodyIsTrapped`.  Next: the two hazards
without a property, which need the display name in InteractionPipeline and ids of
memories that may collide in MemoryLifecycle, and a run that shows the goals of
later phases being crowded out.
