--------------------------- MODULE PromptContext ---------------------------
(***************************************************************************)
(* What the language model is shown: the memories that retrieval, fusion   *)
(* and buildPromptPackage choose for a request, and the recent turns, read *)
(* from the agent's working memory in Redis, to which post-processing      *)
(* pushes the turns of earlier requests after it released the lock.        *)
(*                                                                         *)
(* Scores are in units of 0.0001, weights and priorities in hundredths.    *)
(* Of a memory's text the model keeps its length and its traits, which are *)
(* what the keyword tests of applyCognitiveReranking find in it; of a turn *)
(* it keeps whose it is, its role and its time stamp.                      *)
(***************************************************************************)
EXTENDS Integers, Sequences, FiniteSets, SequencesExt, FiniteSetsExt, Functions, Listing

CONSTANTS Requests,    \* interactions of one agent
          Memories,    \* stored memories of the agent
          Length,      \* characters of a memory's content
          Traits,      \* what the keyword tests find in a memory's content
          Retrievals,  \* what step 5 of a request may meet, see below
          MaxStamp,    \* bound on the clocks of post-processing
          MaxTurns,    \* bound on the post-processings
          MaxLate,     \* bound on the late scripts at one time
          MaxEntries,  \* size of the working-memory window
          Attempts,    \* of the retry policy
          NoPrompt

Roles == {"user", "assistant"}
Entries == [turn : Requests, role : Roles, at : 1..MaxStamp + 1]
UnitScores == 0..10000
SearchHits == [score : Int, cognitive : UnitScores, level : 1..3, permanent : BOOLEAN, age : {0, 1}]

(***************************************************************************)
(* A retrieval is one outcome of the concurrent reads of step 5 with the   *)
(* configuration that applies: the results of the two searches, by memory; *)
(* the prepared context; the agent's weights, and whether its memories     *)
(* decay; the order in which Go iterates over the merged map; the new      *)
(* emotion (in hundredths) with its intensity; and LLM_MAX_TOKENS.  The    *)
(* two searches see the store at different moments, so that they may       *)
(* disagree on a memory's level.  The age of a hit is 0 when its date is   *)
(* new, unknown or in the future, and 1 when it is 1/lambda hours back.    *)
(***************************************************************************)
ASSUME PromptAssumption ==
  /\ MaxStamp \in Nat \ {0} /\ MaxEntries \in Nat \ {0} /\ Attempts \in Nat \ {0}
  /\ Length \in [Memories -> Nat]
  /\ \A r \in Requests : \A q \in Retrievals[r] :
       /\ DOMAIN q.semantic \subseteq Memories /\ DOMAIN q.emotional \subseteq Memories
       /\ \A m \in DOMAIN q.semantic : q.semantic[m] \in SearchHits
       /\ \A m \in DOMAIN q.emotional : q.emotional[m] \in SearchHits
       /\ q.weights \in [alpha : Int, beta : Int, gamma : Int, boost : Int]
       /\ IsFiniteSet(DOMAIN q.context.goals)
       /\ \A g \in DOMAIN q.context.goals : q.context.goals[g] \in Int
       /\ q.order \in Seq(Memories) /\ ToSet(q.order) = Memories /\ IsInjective(q.order)
       /\ q.tokens \in Int /\ q.intensity \in Int

VARIABLES window,   \* the sorted set working_memory:<agent>
          executed, \* ghost: entries pushed to it since it last expired
          late,     \* push scripts given up by their client, but not lost
          stage,    \* where each interaction is
          tries,    \* attempts left of its current push
          stamp,    \* the time of its post-processing
          prompt    \* what it shows the language model

promptVars == <<window, executed, late, stage, tries, stamp, prompt>>
----------------------------------------------------------------------------
(* Retrieval and ranking. *)

(* applyDecayToHits: exp(-1), exp(-0.1) or exp(-0.01) at age 1. *)
DecayPercent == <<37, 90, 99>>
Decayed(hits, decays) ==
  [m \in DOMAIN hits |->
     IF decays /\ hits[m].age = 1
     THEN [hits[m] EXCEPT !.score = (@ * DecayPercent[hits[m].level]) \div 100]
     ELSE hits[m]]

(* mergeResults: a memory that only the emotional search found has no      *)
(* cognitive score.                                                        *)
MergeResults(sem, emo) ==
  [m \in DOMAIN sem \cup DOMAIN emo |->
     LET views == {h[m] : h \in {x \in {sem, emo} : m \in DOMAIN x}}
     IN [semantic  |-> IF m \in DOMAIN sem THEN sem[m].score ELSE 0,
         emotional |-> IF m \in DOMAIN emo THEN emo[m].score ELSE 0,
         cognitive |-> IF m \in DOMAIN sem THEN sem[m].cognitive ELSE 0,
         level     |-> Max({v.level : v \in views}),
         permanent |-> \E v \in views : v.permanent]]

When(condition, amount) == IF condition THEN amount ELSE 0
ClampUnit(score) == Max({0, Min({10000, score})})

(* goalMatchesCandidate: the words of a goal are traits of the content.    *)
GoalMatches(g, m) == g \in Traits[m]

(* What applyCognitiveReranking adds to the cognitive score of a memory.   *)
Bonus(m, context) ==
  LET technical == "technical" \in Traits[m]
      matched == {g \in DOMAIN context.goals : GoalMatches(g, m)}
  IN When(context.pressure /\ "short" \in Traits[m], 1500)
     - When(context.expertise = "beginner" /\ technical, 1800)
     + When(context.expertise = "advanced" /\ technical, 1000)
     + When(context.phase = "problem_diagnosis" /\ "problem" \in Traits[m], 1200)
     + When(context.phase = "resolution" /\ "closing" \in Traits[m], 800)
     + 8 * SumFunctionOnSet(context.goals, matched)

Rerank(candidates, context) ==
  [m \in DOMAIN candidates |->
     [candidates[m] EXCEPT !.cognitive = ClampUnit(@ + Bonus(m, context))]]

(* FusionWeights::validate *)
ValidWeights(w) ==
  /\ w.alpha >= 0 /\ w.beta >= 0 /\ w.gamma >= 0
  /\ w.alpha + w.beta + w.gamma \in 99..101

Contributions(c, w) ==
  [semantic |-> w.alpha * c.semantic, emotional |-> w.beta * c.emotional,
   cognitive |-> w.gamma * c.cognitive]

FinalScore(c, w) ==
  LET parts == Contributions(c, w)
  IN (parts.semantic + parts.emotional + parts.cognitive)
     * (100 + When(c.permanent, Max({0, w.boost})))

(* fuse_and_rank: a stable sort of the candidates, which come in the order *)
(* of the map.                                                             *)
FuseAndRank(candidates, w, order) ==
  LET found == DOMAIN candidates
      score == [m \in found |-> FinalScore(candidates[m], w)]
      place == [m \in found |-> CHOOSE i \in DOMAIN order : order[i] = m]
  IN InOrder(found, {p \in found \X found :
                       \/ score[p[1]] > score[p[2]]
                       \/ score[p[1]] = score[p[2]] /\ place[p[1]] < place[p[2]]})
----------------------------------------------------------------------------
(* Composition of the prompt. *)

(* The regions of emotionRegions, in hundredths; the first of the nearest  *)
(* ones that reach the emotion, else the last region.                      *)
EmotionRegions ==
  <<[name |-> "panic",      center |-> <<-70, 90, -40>>, radius |-> 55],
    [name |-> "joyful",     center |-> <<80, 60, 40>>,   radius |-> 50],
    [name |-> "calm",       center |-> <<20, -30, 50>>,  radius |-> 50],
    [name |-> "empathetic", center |-> <<30, 10, -20>>,  radius |-> 45],
    [name |-> "frustrated", center |-> <<-50, 60, 30>>,  radius |-> 45],
    [name |-> "curious",    center |-> <<30, 35, 20>>,   radius |-> 45],
    [name |-> "neutral",    center |-> <<0, 0, 0>>,      radius |-> 120]>>

Square(x) == x * x
DistanceSquared(v, w) == Square(v[1] - w[1]) + Square(v[2] - w[2]) + Square(v[3] - w[3])

FindEmotionDirective(emotion) ==
  LET distance == [i \in DOMAIN EmotionRegions |-> DistanceSquared(emotion, EmotionRegions[i].center)]
      reaching == {i \in DOMAIN EmotionRegions : distance[i] <= Square(EmotionRegions[i].radius)}
      best == {i \in reaching : \A j \in reaching : distance[i] <= distance[j]}
  IN EmotionRegions[IF best = {} THEN Len(EmotionRegions) ELSE Min(best)].name

(* Faulty variant for mutation testing: memories get the minimum of the    *)
(* turns.                                                                  *)
CalculatePromptBudgetLowMinimum(maxTokens, intensity) ==
  LET limit == IF maxTokens <= 0 THEN 256 ELSE maxTokens
      intense == intensity > 70
  IN [context |-> Max({64, (limit * (IF intense THEN 26 ELSE 32)) \div 100}),
      memory  |-> Max({32, (limit * (IF intense THEN 28 ELSE 18)) \div 100}),
      working |-> Max({32, IF intense THEN (limit * 8 - 1) \div 100
                                      ELSE (limit * 12) \div 100})]

(* calculatePromptBudget, without the two parts that only reserve buffers. *)
(* 0.12 - 0.04 is less than 0.08 in floating point, hence the - 1.         *)
CalculatePromptBudget(maxTokens, intensity) ==
  LET limit == IF maxTokens <= 0 THEN 256 ELSE maxTokens
      intense == intensity > 70
  IN [context |-> Max({64, (limit * (IF intense THEN 26 ELSE 32)) \div 100}),
      memory  |-> Max({48, (limit * (IF intense THEN 28 ELSE 18)) \div 100}),
      working |-> Max({32, IF intense THEN (limit * 8 - 1) \div 100
                                      ELSE (limit * 12) \div 100})]

ApproxChars(tokens) == Max({4 * tokens, 48})

(* What shortenText leaves of a text; its limit is never below 48 here.    *)
ShortenText(length, limit) == Min({length, limit})

(* The characters of each of n texts that share a section of the user's    *)
(* prompt, no less than least for each.                                    *)
ShownLength(length, tokens, n, least) ==
  ShortenText(length, Max({ApproxChars(tokens) \div Max({n, 1}), least}))

FirstOf(s, n) == SubSeq(s, 1, Min({n, Len(s)}))
LeansToEmotion(c, w) == Contributions(c, w).emotional >= Contributions(c, w).semantic
SemanticBudget(intensity) == IF intensity > 70 THEN 1 ELSE 2
ResonantBudget(intensity) == IF intensity > 70 THEN 3 ELSE 2

(* Faulty variant for mutation testing: what is left over fills the        *)
(* semantic slots only.                                                    *)
SplitRankedMemoriesOneWay(ranked, leans, intensity) ==
  LET all == ToSet(ranked)
      resonant == FirstOf(Among(ranked, {m \in all : leans[m]}), ResonantBudget(intensity))
      rest == Among(ranked, all \ ToSet(resonant))
  IN [semantic |-> FirstOf(rest, SemanticBudget(intensity)), resonant |-> resonant]

(* splitRankedMemories: each memory goes to the part its contributions     *)
(* lean to while there is room; what is left over then fills the semantic  *)
(* part, and after it the resonant one.                                    *)
SplitRankedMemories(ranked, leans, intensity) ==
  LET all == ToSet(ranked)
      semantic == FirstOf(Among(ranked, {m \in all : ~leans[m]}), SemanticBudget(intensity))
      resonant == FirstOf(Among(ranked, {m \in all : leans[m]}), ResonantBudget(intensity))
      fallback == Among(ranked, all \ (ToSet(semantic) \cup ToSet(resonant)))
      filled == FirstOf(fallback, SemanticBudget(intensity) - Len(semantic))
      left == SubSeq(fallback, Len(filled) + 1, Len(fallback))
  IN [semantic |-> semantic \o filled,
      resonant |-> resonant \o FirstOf(left, ResonantBudget(intensity) - Len(resonant))]

WorkingMemoryBudget(intensity) == IF intensity > 80 THEN 2 ELSE 3

(* normalizeWorkingMemoryForPrompt: the latest entries in chronological    *)
(* order; sort.Slice does not say how it orders equal stamps.              *)
RecentTurns(entries, budget) ==
  {s \in [1..Min({budget, Cardinality(entries)}) -> entries] :
     /\ IsInjective(s)
     /\ \A i, j \in DOMAIN s : i < j => s[i].at <= s[j].at
     /\ \A e \in entries : e \in Range(s) \/ (\A i \in DOMAIN s : e.at <= s[i].at)}

(* What buildPromptPackage makes of a retrieval and of the turns read.     *)
PromptFor(q, turns) ==
  LET candidates == Rerank(MergeResults(Decayed(q.semantic, q.decays),
                                        Decayed(q.emotional, q.decays)), q.context)
      ranked == FuseAndRank(candidates, q.weights, q.order)
      leans == [m \in DOMAIN candidates |-> LeansToEmotion(candidates[m], q.weights)]
  IN [ranked    |-> ranked,
      leans     |-> leans,
      intensity |-> q.intensity,
      chosen    |-> SplitRankedMemories(ranked, leans, q.intensity),
      budget    |-> CalculatePromptBudget(q.tokens, q.intensity),
      directive |-> FindEmotionDirective(q.emotion),
      turns     |-> turns]
----------------------------------------------------------------------------
(* The order of the sorted set: by stamp, then by the JSON of the entry,   *)
(* in which "turn-assistant" comes before "turn-user"; between two turns   *)
(* of one role their texts decide, which are arbitrary.                    *)
Before(e, f) == e.at < f.at \/ (e.at = f.at /\ e.role = "assistant" /\ f.role = "user")

PromptInit ==
  /\ window = {} /\ executed = {} /\ late = {}
  /\ stage = [r \in Requests |-> "idle"]
  /\ tries = [r \in Requests |-> Attempts]
  /\ stamp = [r \in Requests |-> 0]
  /\ prompt = [r \in Requests |-> NoPrompt]

(* Steps 5 and 6 and the prompt: GetWorkingMemory reads the whole window.  *)
Ask(r) ==
  /\ stage[r] = "idle"
  /\ \E q \in Retrievals[r] :
       /\ ValidWeights(q.weights)
       /\ \E turns \in RecentTurns(window, WorkingMemoryBudget(q.intensity)) :
            prompt' = [prompt EXCEPT ![r] = PromptFor(q, turns)]
  /\ stage' = [stage EXCEPT ![r] = "prompted"]
  /\ UNCHANGED <<window, executed, late, tries, stamp>>

(* A read fails, the engine refuses the weights, or generation fails.      *)
Fail(r) ==
  /\ stage[r] \in {"idle", "prompted"}
  /\ stage' = [stage EXCEPT ![r] = "done"]
  /\ prompt' = [prompt EXCEPT ![r] = NoPrompt]
  /\ UNCHANGED <<window, executed, late, tries, stamp>>

(* The answer is there and stepPostProcess starts; the clocks of two       *)
(* processes need not agree.                                               *)
StartPostProcess(r) ==
  /\ stage[r] = "prompted"
  /\ Cardinality({s \in Requests : stamp[s] > 0}) < MaxTurns
  /\ stage' = [stage EXCEPT ![r] = "user"]
  /\ \E now \in 1..MaxStamp : stamp' = [stamp EXCEPT ![r] = now]
  /\ prompt' = [prompt EXCEPT ![r] = NoPrompt]
  /\ UNCHANGED <<window, executed, late, tries>>

(* The entry is marshalled once, before the first attempt.                 *)
EntryOf(r) ==
  [turn |-> r, role |-> stage[r], at |-> stamp[r] + (IF stage[r] = "assistant" THEN 1 ELSE 0)]

(* Faulty variant for mutation testing: the window keeps one entry more.   *)
TrimOneMore(entries) ==
  {w \in SUBSET entries :
     /\ Cardinality(w) = Min({MaxEntries + 1, Cardinality(entries)})
     /\ \A e \in entries \ w, f \in w : ~Before(f, e)}

(* Faulty variant for mutation testing: the other end is removed.          *)
TrimNewest(entries) ==
  {w \in SUBSET entries :
     /\ Cardinality(w) = Min({MaxEntries, Cardinality(entries)})
     /\ \A e \in entries \ w, f \in w : ~Before(e, f)}

(* ZREMRANGEBYRANK 0 .. count - max_entries - 1                            *)
Trim(entries) ==
  {w \in SUBSET entries :
     /\ Cardinality(w) = Min({MaxEntries, Cardinality(entries)})
     /\ \A e \in entries \ w, f \in w : ~Before(f, e)}

(* pushWorkingMemoryScript *)
PushScript(e) ==
  /\ window' \in Trim(window \cup {e})
  /\ executed' = executed \cup {e}

NextPush(r) ==
  /\ stage' = [stage EXCEPT ![r] = IF @ = "user" THEN "assistant" ELSE "done"]
  /\ tries' = [tries EXCEPT ![r] = Attempts]

Pushing(r) == stage[r] \in Roles /\ tries[r] > 0

Push(r) ==
  /\ Pushing(r)
  /\ PushScript(EntryOf(r))
  /\ NextPush(r)
  /\ UNCHANGED <<late, stamp, prompt>>

(* The script ran but its reply did not arrive in 100 ms.                  *)
PushReplyLost(r) ==
  /\ Pushing(r)
  /\ PushScript(EntryOf(r))
  /\ tries' = [tries EXCEPT ![r] = @ - 1]
  /\ UNCHANGED <<late, stage, stamp, prompt>>

(* The attempt timed out before Redis ran it; it may still run it.         *)
PushTimesOut(r) ==
  /\ Pushing(r) /\ Cardinality(late) < MaxLate
  /\ tries' = [tries EXCEPT ![r] = @ - 1]
  /\ late' = late \cup {EntryOf(r)}
  /\ UNCHANGED <<window, executed, stage, stamp, prompt>>

(* stepPostProcess drops the error of a push and goes on.                  *)
PushGivenUp(r) ==
  /\ stage[r] \in Roles /\ tries[r] = 0
  /\ NextPush(r)
  /\ UNCHANGED <<window, executed, late, stamp, prompt>>

LatePush ==
  \E e \in late :
    /\ PushScript(e)
    /\ late' = late \ {e}
    /\ UNCHANGED <<stage, tries, stamp, prompt>>

(* The process dies during post-processing.                                *)
Crash(r) ==
  /\ stage[r] \in Roles
  /\ stage' = [stage EXCEPT ![r] = "done"]
  /\ UNCHANGED <<window, executed, late, tries, stamp, prompt>>

(* Nothing was pushed for the window's TTL.                                *)
ExpireWindow ==
  /\ window # {}
  /\ window' = {} /\ executed' = {}
  /\ UNCHANGED <<late, stage, tries, stamp, prompt>>

PromptNext ==
  \/ \E r \in Requests :
       Ask(r) \/ Fail(r) \/ StartPostProcess(r) \/ Push(r) \/ PushReplyLost(r)
       \/ PushTimesOut(r) \/ PushGivenUp(r) \/ Crash(r)
  \/ LatePush \/ ExpireWindow

PromptSpec == PromptInit /\ [][PromptNext]_promptVars
----------------------------------------------------------------------------
(* The window never outgrows its bound, attempts are counted, and neither  *)
(* part of a prompt's memories, nor its turns, are more than their limits. *)
PromptTypeOK ==
  /\ window \subseteq Entries /\ Cardinality(window) <= MaxEntries
  /\ executed \subseteq Entries /\ late \subseteq Entries
  /\ stage \in [Requests -> {"idle", "prompted", "user", "assistant", "done"}]
  /\ tries \in [Requests -> 0..Attempts]
  /\ stamp \in [Requests -> 0..MaxStamp]
  /\ \A r \in Requests :
       IF stage[r] = "prompted"
       THEN /\ Len(prompt[r].chosen.semantic) <= 2 /\ Len(prompt[r].chosen.resonant) <= 3
            /\ Len(prompt[r].turns) <= 3
            /\ \E i \in DOMAIN EmotionRegions : prompt[r].directive = EmotionRegions[i].name
       ELSE prompt[r] = NoPrompt

(* Whatever attempts were repeated, late or lost, and whichever pushes of  *)
(* other requests they interleaved with: the turns that buildUserPrompt    *)
(* shows are in chronological order, none of them twice, and a turn that   *)
(* was stored since the window last expired is missing only when the       *)
(* section is full of turns that are not older.                            *)
LatestTurnsAreShown ==
  [][\A r \in Requests : stage[r] = "idle" /\ stage'[r] = "prompted" =>
       LET turns == prompt'[r].turns
           shown == ToSet(turns)
       IN /\ \A i, j \in DOMAIN turns : i < j =>
               /\ turns[i].at <= turns[j].at
               /\ <<turns[i].turn, turns[i].role>> # <<turns[j].turn, turns[j].role>>
          /\ \A e \in executed \ shown :
               /\ Len(turns) = Min({WorkingMemoryBudget(prompt'[r].intensity), MaxEntries})
               /\ \A f \in shown : f.at >= e.at]_promptVars

(* A memory that a search found is left out of the prompt only when all    *)
(* four places are taken and every memory in the part it belongs to is     *)
(* ranked above it: mergeResults, the fusion and the fallback of           *)
(* splitRankedMemories lose nothing and show nothing twice.                *)
LeftOutOnlyByBetter ==
  \A r \in Requests : stage[r] = "prompted" =>
    LET p == prompt[r]
        all == p.chosen.semantic \o p.chosen.resonant
    IN /\ IsInjective(all) /\ ToSet(all) \subseteq ToSet(p.ranked)
       /\ \A m \in DOMAIN p.leans \ ToSet(all) :
            /\ Len(all) = 4
            /\ \A n \in ToSet(IF p.leans[m] THEN p.chosen.resonant ELSE p.chosen.semantic) :
                 \E i, j \in DOMAIN p.ranked : i < j /\ p.ranked[i] = n /\ p.ranked[j] = m

(* The characters of the memories shown never exceed what                  *)
(* calculatePromptBudget grants their section, although each one is given  *)
(* at least 64: the minimum budgets are just large enough for that.        *)
MemoriesFitTheirBudget ==
  \A r \in Requests : stage[r] = "prompted" =>
    LET p == prompt[r]
        used(part, tokens) ==
          SumFunctionOnSet([m \in ToSet(part) |-> ShownLength(Length[m], tokens, Len(part), 64)],
                           ToSet(part))
    IN /\ used(p.chosen.semantic, p.budget.context) <= ApproxChars(p.budget.context)
       /\ used(p.chosen.resonant, p.budget.memory) <= ApproxChars(p.budget.memory)
=============================================================================
