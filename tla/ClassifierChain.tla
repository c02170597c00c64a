--------------------------- MODULE ClassifierChain ---------------------------
(***************************************************************************)
(* Step 2 of an interaction, stepPerceive, down to the classifier service: *)
(* FallbackClient around CachedClient around Client in the orchestrator    *)
(* (the order in which cmd/server/main.go wraps them), the Redis cache of  *)
(* classifications, and the Python service with its three modes.           *)
(*                                                                         *)
(* classify_emotion calls the blocking classifier from a coroutine, so the *)
(* service works on one request at a time, and it keeps working on one     *)
(* whose caller has given up.  The step's deadline is far shorter than the *)
(* service's own timeout for Ollama.                                       *)
(*                                                                         *)
(* A text is what the two sides see of it: Cues[t], the keyword classes of *)
(* inferStimulus it belongs to, and Hits[t], the number of keywords of     *)
(* each rule of HEURISTIC_RULES it contains.  A raw answer of a model is   *)
(* the list of its labels with their scores, and the label found by        *)
(* scanning it.  The emotion vector of a result is the mean of its labels' *)
(* vectors weighted by `scores', the neutral vector when there are none.   *)
(***************************************************************************)
EXTENDS Naturals, Sequences, FiniteSets, SequencesExt, Listing

CONSTANTS Callers,    \* goroutines in stepPerceive
          Texts,      \* what users write
          BlankTexts, \* texts of white space
          Cues,       \* per text: its keyword classes
          Hits,       \* per text: rule label -> number of keywords
          Replies,    \* raw answers of the model behind the service
          TopK,       \* CLASSIFIER_TOP_K
          MaxBacklog  \* bound: requests at the service

KnownLabels ==
  {"admiration", "amusement", "anger", "annoyance", "approval", "caring",
   "confusion", "curiosity", "desire", "disappointment", "disapproval",
   "disgust", "embarrassment", "excitement", "fear", "gratitude", "grief",
   "joy", "love", "nervousness", "neutral", "optimism", "pride",
   "realization", "relief", "remorse", "sadness", "surprise"}

CueOrder ==
  <<"urgency", "resolution", "success", "empathy", "user_frustration",
    "boredom", "severe_criticism", "praise", "failure">>

HeuristicRules ==
  <<"gratitude", "joy", "excitement", "fear", "nervousness", "anger",
    "annoyance", "sadness", "disappointment", "confusion", "curiosity",
    "surprise">>

NoReply == [items |-> <<>>, scanned |-> "none"]

ASSUME ChainAssumption ==
  /\ IsFiniteSet(Callers) /\ MaxBacklog \in Nat
  /\ BlankTexts \subseteq Texts
  /\ \A t \in Texts : Cues[t] \subseteq ToSet(CueOrder)
  /\ \A t \in Texts : Hits[t] \in [ToSet(HeuristicRules) -> Nat]
  /\ \A t \in BlankTexts : Cues[t] = {} /\ \A l \in DOMAIN Hits[t] : Hits[t][l] = 0
  /\ TopK \in Nat \ {0}
  /\ NoReply \in Replies
  /\ \A r \in Replies : /\ r.items \in Seq([label : STRING, score : Nat])
                        /\ r.scanned \in KnownLabels \cup {"none"}

VARIABLES cacheOn,    \* CLASSIFIER_CACHE_ENABLED
          fallbackOn, \* CLASSIFIER_FALLBACK_NEUTRAL
          mode,       \* of the service; "degraded" when loading failed
          backlog,    \* requests the service has accepted
          work,       \* the one it is classifying, with the raw answer
          cache,      \* Redis: text -> result
          pc,         \* where each caller is
          text,       \* what it is classifying
          result      \* what it has been told

config == <<cacheOn, fallbackOn>>
vars == <<config, mode, backlog, work, cache, pc, text, result>>

Modes == {"heuristic", "transformers", "ollama"}
Nobody == "nobody"
NoText == "no text"
Nothing == [kind |-> "nothing"]
Failure == [kind |-> "error"]

-----------------------------------------------------------------------------
(* Classification.                                                         *)

LabelStimulus(label) ==
  CASE label \in {"gratitude", "admiration", "approval", "joy", "optimism",
                  "excitement"} -> "praise"
    [] label = "caring" -> "empathy"
    [] label \in {"relief", "realization"} -> "resolution"
    [] label \in {"surprise", "curiosity"} -> "novelty"
    [] label \in {"fear", "nervousness", "confusion"} -> "urgency"
    [] label \in {"anger", "annoyance", "disappointment", "disapproval",
                  "sadness", "grief"} -> "mild_criticism"
    [] OTHER -> "novelty"

(* The first keyword class wins, then the label. *)
InferStimulus(t, label) ==
  LET found == SelectSeq(CueOrder, LAMBDA c : c \in Cues[t])
  IN IF found # <<>> THEN Head(found) ELSE LabelStimulus(label)

Score(l, n) == [label |-> l, score |-> n]

HeuristicScores(t) ==
  SelectSeq([i \in DOMAIN HeuristicRules |-> Score(HeuristicRules[i], Hits[t][HeuristicRules[i]])],
            LAMBDA s : s.score > 0)

Usable(items) == Among(items, [label : KnownLabels, score : Nat \ {0}])

FirstMention(items, l) ==
  CHOOSE i \in DOMAIN items : items[i].label = l /\ \A j \in 1..(i-1) : items[j].label # l
Best(items, l) ==
  CHOOSE n \in {items[i].score : i \in DOMAIN items} :
    /\ Score(l, n) \in ToSet(items)
    /\ \A i \in DOMAIN items : items[i].label = l => items[i].score <= n

(* The scores of the labels of a list, the strongest first; equal scores   *)
(* keep the order of first mention.                                        *)
ByStrength(scores, items) ==
  InOrder(scores, {p \in scores \X scores :
                     \/ p[1].score > p[2].score
                     \/ /\ p[1].score = p[2].score
                        /\ FirstMention(items, p[1].label) < FirstMention(items, p[2].label)})

(* Faulty variant for mutation testing: the last mention of a label counts. *)
WeightedScoresLastMention(items) ==
  LET usable == Usable(items)
      last(l) == CHOOSE i \in DOMAIN usable :
                   usable[i].label = l /\ \A j \in DOMAIN usable : usable[j].label = l => j <= i
  IN ByStrength({usable[last(s.label)] : s \in ToSet(usable)}, usable)

(* _weighted_scores_from_payload: each label once, with its best score. *)
WeightedScores(items) ==
  LET usable == Usable(items)
  IN ByStrength({Score(s.label, Best(usable, s.label)) : s \in ToSet(usable)}, usable)

TopOf(s) == SubSeq(s, 1, IF Len(s) < TopK THEN Len(s) ELSE TopK)

(* The weighted labels of a text in each mode; none stands for neutral. *)
ScoresFor(m, t, reply) ==
  CASE m = "heuristic" -> HeuristicScores(t)
    [] m = "transformers" -> Usable(TopOf(reply.items))
    [] m = "ollama" ->
         IF Usable(reply.items) # <<>> THEN TopOf(WeightedScores(reply.items))
         ELSE IF reply.scanned # "none" THEN <<Score(reply.scanned, 1)>>
         ELSE HeuristicScores(t)

(* _combine_weighted_labels: the first label of the greatest score. *)
CombinedLabel(scores) ==
  IF scores = <<>> THEN "neutral"
  ELSE scores[CHOOSE i \in DOMAIN scores :
                /\ \A j \in DOMAIN scores : scores[j].score <= scores[i].score
                /\ \A j \in 1..(i-1) : scores[j].score < scores[i].score].label

(* `by' and `of' are ghosts: who made the result, and for which text. *)
Classified(t, scores) ==
  [kind |-> "result", scores |-> scores, label |-> CombinedLabel(scores),
   stimulus |-> InferStimulus(t, CombinedLabel(scores)), by |-> "service", of |-> t]

(* classify: the result for a text, in a mode, given the model's answer. *)
Classify ==
  [m \in Modes |-> [t \in Texts |-> [reply \in Replies |-> Classified(t, ScoresFor(m, t, reply))]]]

NeutralFor(t) ==
  [kind |-> "result", scores |-> <<>>, label |-> "neutral",
   stimulus |-> InferStimulus(t, "neutral"), by |-> "fallback", of |-> t]

Results ==
  {NeutralFor(t) : t \in Texts}
  \cup {Classify[m][t][r] : m \in Modes, t \in Texts, r \in Replies}

-----------------------------------------------------------------------------
Steps == {"get", "send", "await", "set"}

(* The variables keep their types, and a caller that has returned has an   *)
(* answer.                                                                 *)
TypeOK ==
  /\ cacheOn \in BOOLEAN /\ fallbackOn \in BOOLEAN
  /\ mode \in Modes \cup {"degraded"}
  /\ backlog \in Seq([client : Callers \cup {Nobody}, text : Texts])
  /\ Len(backlog) <= MaxBacklog
  /\ work \in [client : Callers \cup {Nobody}, text : Texts, reply : Replies] \cup {Nothing}
  /\ cache \in [Texts -> Results \cup {Nothing}]
  /\ pc \in [Callers -> Steps \cup {"idle", "returned"}]
  /\ text \in [Callers -> Texts \cup {NoText}]
  /\ result \in [Callers -> Results \cup {Nothing, Failure}]
  /\ \A c \in Callers : pc[c] = "returned" => result[c] # Nothing

Init ==
  /\ cacheOn \in BOOLEAN /\ fallbackOn \in BOOLEAN
  /\ mode \in Modes \cup {"degraded"}
  /\ backlog = <<>> /\ work = Nothing
  /\ cache = [t \in Texts |-> Nothing]
  /\ pc = [c \in Callers |-> "idle"]
  /\ text = [c \in Callers |-> NoText]
  /\ result = [c \in Callers |-> Nothing]

Goto(c, l) == pc' = [pc EXCEPT ![c] = l]

(* FallbackClient turns an error into the neutral result. *)
Return(c, r) ==
  /\ Goto(c, "returned")
  /\ result' = [result EXCEPT ![c] =
       IF r = Failure /\ fallbackOn THEN NeutralFor(text[c]) ELSE r]

Load == Len(backlog) + Cardinality({c \in Callers : pc[c] \in {"get", "send"}})

(* stepPerceive is called. *)
Call(c, t) ==
  /\ pc[c] = "idle" /\ Load < MaxBacklog
  /\ text' = [text EXCEPT ![c] = t]
  /\ Goto(c, IF cacheOn THEN "get" ELSE "send")
  /\ UNCHANGED <<config, mode, backlog, work, cache, result>>

(* Faulty variant for mutation testing: a miss is taken for an entry. *)
CacheGetMissIsHit(c) ==
  /\ pc[c] = "get"
  /\ Return(c, cache[text[c]])
  /\ UNCHANGED <<config, mode, backlog, work, cache, text>>

(* The cache answers.  A miss, an error and an entry that cannot be        *)
(* decoded all lead to the inner client.                                   *)
CacheGet(c) ==
  /\ pc[c] = "get"
  /\ \/ cache[text[c]] # Nothing /\ Return(c, cache[text[c]])
     \/ Goto(c, "send") /\ UNCHANGED result
  /\ UNCHANGED <<config, mode, backlog, work, cache, text>>

(* Client.ClassifyEmotion posts the text, or fails to. *)
Send(c) ==
  /\ pc[c] = "send"
  /\ \/ /\ backlog' = Append(backlog, [client |-> c, text |-> text[c]])
        /\ Goto(c, "await") /\ UNCHANGED result
     \/ Return(c, Failure) /\ UNCHANGED backlog
  /\ UNCHANGED <<config, mode, work, cache, text>>

(* The service's answer to a caller that is still waiting: a result goes   *)
(* on to the cache, a status other than 200 is an error.                   *)
Deliver(c, r) ==
  IF c = Nobody THEN UNCHANGED <<pc, result>>
  ELSE IF r = Failure THEN Return(c, Failure)
  ELSE IF cacheOn
       THEN Goto(c, "set") /\ result' = [result EXCEPT ![c] = r]
       ELSE Return(c, r)

(* classify_emotion refuses: 503 without a classifier, 400 for white space. *)
Refuse ==
  /\ work = Nothing /\ backlog # <<>>
  /\ mode = "degraded" \/ Head(backlog).text \in BlankTexts
  /\ Deliver(Head(backlog).client, Failure)
  /\ backlog' = Tail(backlog)
  /\ UNCHANGED <<config, mode, work, cache, text>>

(* The service starts to classify the oldest request and is then busy. *)
Begin(reply) ==
  /\ work = Nothing /\ backlog # <<>>
  /\ mode # "degraded" /\ Head(backlog).text \notin BlankTexts
  /\ mode = "heuristic" => reply = NoReply
  /\ work' = [client |-> Head(backlog).client, text |-> Head(backlog).text, reply |-> reply]
  /\ backlog' = Tail(backlog)
  /\ UNCHANGED <<config, mode, cache, pc, text, result>>

(* It answers. *)
Finish ==
  /\ work # Nothing
  /\ Deliver(work.client, Classify[mode][work.text][work.reply])
  /\ work' = Nothing
  /\ UNCHANGED <<config, mode, backlog, cache, text>>

(* The model raises: not reachable, an error field, empty content. *)
FinishWithError ==
  /\ work # Nothing /\ mode # "heuristic"
  /\ Deliver(work.client, Failure)
  /\ work' = Nothing
  /\ UNCHANGED <<config, mode, backlog, cache, text>>

Forget(entry, gone) == IF entry.client \in gone THEN [entry EXCEPT !.client = Nobody] ELSE entry

(* Faulty variant for mutation testing: the call has no deadline. *)
GiveUpNever(c) == FALSE /\ UNCHANGED vars

(* The deadline of the step, or the two seconds of the HTTP client, pass.  *)
(* The service is not told.                                                *)
GiveUp(c) ==
  /\ pc[c] = "await"
  /\ Return(c, Failure)
  /\ backlog' = [i \in DOMAIN backlog |-> Forget(backlog[i], {c})]
  /\ work' = IF work = Nothing THEN Nothing ELSE Forget(work, {c})
  /\ UNCHANGED <<config, mode, cache, text>>

(* Faulty variant for mutation testing: the cache is wrapped around the     *)
(* fallback, so that the neutral result of a failed call is stored as well. *)
CacheSetAroundFallback(c) ==
  /\ pc[c] \in {"set", "returned"} /\ cacheOn /\ result[c] \notin {Nothing, Failure}
  /\ Return(c, result[c])
  /\ cache' = [cache EXCEPT ![text[c]] = result[c]]
  /\ UNCHANGED <<config, mode, backlog, work, text>>

(* The result is stored, or the command fails: it is returned all the same. *)
CacheSet(c) ==
  /\ pc[c] = "set"
  /\ Return(c, result[c])
  /\ \/ cache' = [cache EXCEPT ![text[c]] = result[c]]
     \/ UNCHANGED cache
  /\ UNCHANGED <<config, mode, backlog, work, text>>

(* stepPerceive has returned; the goroutine serves another interaction. *)
Leave(c) ==
  /\ pc[c] = "returned"
  /\ Goto(c, "idle")
  /\ result' = [result EXCEPT ![c] = Nothing]
  /\ text' = [text EXCEPT ![c] = NoText]
  /\ UNCHANGED <<config, mode, backlog, work, cache>>

(* The TTL of an entry is over. *)
Expire(t) ==
  /\ cache[t] # Nothing
  /\ cache' = [cache EXCEPT ![t] = Nothing]
  /\ UNCHANGED <<config, mode, backlog, work, pc, text, result>>

(* The service restarts, perhaps in another mode or without a classifier;  *)
(* its connections are reset.                                              *)
Restart(m) ==
  /\ mode' = m
  /\ backlog' = <<>> /\ work' = Nothing
  /\ LET waiting == {c \in Callers : pc[c] = "await"} IN
     /\ pc' = [c \in Callers |-> IF c \in waiting THEN "returned" ELSE pc[c]]
     /\ result' = [c \in Callers |->
          IF c \notin waiting THEN result[c]
          ELSE IF fallbackOn THEN NeutralFor(text[c]) ELSE Failure]
  /\ UNCHANGED <<config, cache, text>>

Caller(c) == CacheGet(c) \/ Send(c) \/ GiveUp(c) \/ CacheSet(c) \/ Leave(c)

Next ==
  \/ \E c \in Callers, t \in Texts : Call(c, t)
  \/ \E c \in Callers : Caller(c)
  \/ Refuse \/ Finish \/ FinishWithError
  \/ \E reply \in Replies : Begin(reply)
  \/ \E t \in Texts : Expire(t)
  \/ \E m \in Modes \cup {"degraded"} : Restart(m)

Spec == Init /\ [][Next]_vars

(* The goroutines run and their deadlines pass; nothing is assumed of the  *)
(* service, of Redis or of the callers of stepPerceive.                    *)
FairSpec == Spec /\ \A c \in Callers : WF_vars(Caller(c))

-----------------------------------------------------------------------------
(* Properties.                                                             *)

(* Where a result comes from: a cached entry is an answer of the service   *)
(* to that very text, whatever restarts, deadlines and late answers did;   *)
(* a caller gets such an answer or, when the fallback is on, the neutral   *)
(* result, and an error only when it is off.                               *)
AnswersKeepTheirSource ==
  /\ \A t \in Texts : cache[t] # Nothing => cache[t].by = "service" /\ cache[t].of = t
  /\ \A c \in Callers : pc[c] = "returned" =>
       IF result[c] = Failure THEN ~fallbackOn
       ELSE /\ result[c].of = text[c]
            /\ result[c].by = "fallback" => fallbackOn

(* Where a label of a list first has its best score. *)
FirstBest(items, l) ==
  CHOOSE i \in DOMAIN items :
    /\ items[i] = Score(l, Best(items, l))
    /\ \A j \in 1..(i-1) : items[j] # Score(l, Best(items, l))

(* A label is stronger than another in a list of scored labels: a better   *)
(* best score, or the same one and an earlier place.                       *)
Strongest(items, place) ==
  CHOOSE l \in {s.label : s \in ToSet(items)} :
    \A s \in ToSet(items) :
      \/ s.label = l
      \/ Best(items, s.label) < Best(items, l)
      \/ Best(items, s.label) = Best(items, l) /\ place[l] < place[s.label]

(* Filtering, removing duplicates, sorting and cutting a model's answer    *)
(* never changes which emotion wins: the label of a classification is the  *)
(* strongest known label the model named (of the first TopK it named, in   *)
(* transformers mode).  Of two that are equally strong it is the one named *)
(* first; in transformers mode, where repeated labels stay in the list,    *)
(* the one named first with that score.                                    *)
StrongestLabelWins ==
  work # Nothing /\ mode # "heuristic" =>
    LET named == Usable(IF mode = "ollama" THEN work.reply.items ELSE TopOf(work.reply.items))
        place == [l \in {s.label : s \in ToSet(named)} |->
                    IF mode = "ollama" THEN FirstMention(named, l) ELSE FirstBest(named, l)]
    IN named # <<>> => Classify[mode][work.text][work.reply].label = Strongest(named, place)

(* stepPerceive always returns, even when the service is busy for ever     *)
(* with requests nobody waits for any more.                                *)
CallersReturn ==
  \A c \in Callers : pc[c] \in Steps ~> pc[c] = "returned"

=============================================================================
