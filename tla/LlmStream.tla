----------------------------- MODULE LlmStream -----------------------------
(***************************************************************************)
(* Step 7 of an interaction and what its caller is told: the handlers      *)
(* Interact and InteractStream, stepGenerate and stepGenerateStream, and   *)
(* the provider that reads the model's answer, either in one piece         *)
(* (Generate) or in a goroutine of its own that feeds a bounded channel    *)
(* (GenerateStream of the OpenAI-compatible, the Ollama and the mock       *)
(* provider).                                                              *)
(*                                                                         *)
(* The answer of the model server is a sequence of lines.  A line is blank *)
(* (an empty line, a keep-alive, an object without choices), garbage (not  *)
(* JSON), an end marker ([DONE]), a failure (an object with an error       *)
(* field), or a delta with two texts (content and reasoning_content, or    *)
(* message.content and response) that may be the last one (finish_reason,  *)
(* done).  Texts are sequences of words; white space is Blank.             *)
(***************************************************************************)
EXTENDS Naturals, Sequences

CONSTANTS Providers,  \* the configured providers to consider
          Bodies,     \* what the model server may send
          Words,      \* pieces of text that are not only white space
          Blank,      \* a text of white space, or none
          Cap,        \* capacity of the channel (32; 8 for the mock)
          NoAnswer    \* no answer was handed to stepPostProcess

Texts == Words \cup {Blank}
Lines == [kind : {"blank", "garbage", "end", "failure"}]
         \cup [kind : {"delta"}, content : Texts, alternative : Texts, last : BOOLEAN]

ASSUME StreamAssumption ==
  /\ Providers \subseteq {"openai", "ollama", "mock"}
  /\ Bodies \subseteq Seq(Lines)
  /\ Cap \in Nat \ {0}
  /\ Blank \notin Words
  /\ NoAnswer \notin Seq(Words)

VARIABLES provider, \* the provider in use
          mode,     \* "json" for Interact, "sse" for InteractStream
          body,     \* what the server sends in this exchange
          ending,   \* what follows its last line: "eof" or "error"
          wire,     \* the lines of body that have not been read yet
          reader,   \* the goroutine: "none", "scan", "send", "closed"
          outbox,   \* the chunks it has decoded and not sent yet
          ch,       \* the channel
          handler,  \* where the request's own goroutine is
          builder,  \* the text stepGenerateStream has put together
          piece,    \* the chunk it is about to show
          ctx,      \* the context of step 7: "live", "canceled", "deadline"
          connected,\* the client is there
          shown,    \* the words the client has received
          terminal, \* the last event or the status it received
          recorded  \* the answer handed to stepPostProcess

exchangeVars == <<provider, mode, body, ending>>
readerVars == <<reader, outbox>>
answerVars == <<builder, piece>>
clientVars == <<connected, shown, terminal>>
vars == <<exchangeVars, wire, readerVars, ch, handler, answerVars, ctx,
          clientVars, recorded>>

Text(w) == [kind |-> "text", word |-> w]
Done == [kind |-> "done"]
Error == [kind |-> "error"]
Chunks == {Done, Error} \cup [kind : {"text"}, word : Words]

Working == {"metadata", "call", "receive", "show"}

(* The variables keep their types; the channel never holds more than it    *)
(* can.                                                                    *)
TypeOK ==
  /\ provider \in Providers
  /\ mode \in {"json", "sse"}
  /\ body \in Seq(Lines) /\ wire \in Seq(Lines)
  /\ ending \in {"eof", "error"}
  /\ reader \in {"none", "scan", "send", "closed"}
  /\ outbox \in Seq(Chunks)
  /\ ch \in Seq(Chunks) /\ Len(ch) <= Cap
  /\ handler \in Working \cup {"succeeded", "failed", "returned"}
  /\ builder \in Seq(Words)
  /\ piece \in Texts
  /\ ctx \in {"live", "canceled", "deadline"}
  /\ connected \in BOOLEAN
  /\ shown \in Seq(Words)
  /\ terminal \in {"none", "done", "error"}
  /\ recorded \in Seq(Words) \cup {NoAnswer}

(* The mock provider answers with text only. *)
MockBody(b) ==
  /\ b # <<>>
  /\ \A i \in DOMAIN b : b[i].kind = "delta" /\ b[i].content # Blank /\ ~b[i].last

Init ==
  /\ provider \in Providers
  /\ mode \in {"json", "sse"}
  /\ body \in {b \in Bodies : provider = "mock" => MockBody(b)}
  /\ ending \in IF provider = "mock" THEN {"eof"} ELSE {"eof", "error"}
  /\ wire = body
  /\ reader = "none" /\ outbox = <<>> /\ ch = <<>>
  /\ handler = IF mode = "sse" THEN "metadata" ELSE "call"
  /\ builder = <<>> /\ piece = Blank
  /\ ctx = "live"
  /\ connected = TRUE /\ shown = <<>> /\ terminal = "none"
  /\ recorded = NoAnswer

-----------------------------------------------------------------------------
(* Decoding.                                                               *)

(* extractMessageContent, or the other field when it is white space. *)
DeltaText(line) ==
  IF line.content # Blank THEN line.content ELSE line.alternative

(* What GenerateStream sends for a line.  An OpenAI-compatible server's    *)
(* error object has no choices and is skipped; [DONE] is not JSON.         *)
ChunksOf(line) ==
  CASE line.kind = "delta" ->
         (IF DeltaText(line) # Blank THEN <<Text(DeltaText(line))>> ELSE <<>>)
         \o (IF line.last THEN <<Done>> ELSE <<>>)
    [] line.kind = "blank" -> <<>>
    [] line.kind = "garbage" -> <<Error>>
    [] line.kind = "end" -> IF provider = "ollama" THEN <<Error>> ELSE <<Done>>
    [] line.kind = "failure" -> IF provider = "ollama" THEN <<Error>> ELSE <<>>

(* Generate: the text of the only reply; none when it is white space or    *)
(* cannot be decoded.  The error field of Ollama is not looked at.         *)
GenerateText(b) ==
  IF provider = "mock" THEN [i \in DOMAIN b |-> b[i].content]
  ELSE IF b # <<>> /\ Head(b).kind = "delta" /\ DeltaText(Head(b)) # Blank
       THEN <<DeltaText(Head(b))>> ELSE <<>>

-----------------------------------------------------------------------------
(* The goroutine of GenerateStream.                                        *)

(* scanner.Scan returns a line.  After the context has ended this is one   *)
(* that had been received before.                                          *)
ScanLine ==
  /\ reader = "scan" /\ provider # "mock" /\ wire # <<>>
  /\ wire' = Tail(wire)
  /\ outbox' = ChunksOf(Head(wire))
  /\ reader' = IF outbox' = <<>> THEN "scan" ELSE "send"
  /\ UNCHANGED <<exchangeVars, ch, handler, answerVars, ctx, clientVars, recorded>>

(* Faulty variant for mutation testing: an expired deadline ends the stream *)
(* like a cancellation.                                                     *)
ScanEndsLenient ==
  /\ reader = "scan" /\ provider # "mock"
  /\ wire = <<>> \/ ctx # "live"
  /\ outbox' = IF ctx = "live" /\ ending = "error" THEN <<Error>> ELSE <<Done>>
  /\ reader' = "send"
  /\ UNCHANGED <<exchangeVars, wire, ch, handler, answerVars, ctx, clientVars, recorded>>

(* scanner.Scan returns false: at the end of the body, or because a read   *)
(* failed.  scanner.Err is nil at the end, and a cancelled context is not  *)
(* taken for an error.                                                     *)
ScanEnds ==
  /\ reader = "scan" /\ provider # "mock"
  /\ wire = <<>> \/ ctx # "live"
  /\ outbox' = IF ctx = "deadline" \/ (ctx = "live" /\ ending = "error")
               THEN <<Error>> ELSE <<Done>>
  /\ reader' = "send"
  /\ UNCHANGED <<exchangeVars, wire, ch, handler, answerVars, ctx, clientVars, recorded>>

(* The mock provider's goroutine: it splits a text it already has, and its *)
(* select looks at the context as well as at the channel.                  *)
MockPart ==
  /\ reader = "scan" /\ provider = "mock"
  /\ \/ /\ wire # <<>> /\ Len(ch) < Cap
        /\ ch' = Append(ch, Text(Head(wire).content))
        /\ wire' = Tail(wire)
        /\ UNCHANGED <<reader, outbox>>
     \/ /\ wire # <<>> /\ ctx # "live"
        /\ outbox' = <<Error>> /\ reader' = "send"
        /\ UNCHANGED <<ch, wire>>
     \/ /\ wire = <<>>
        /\ outbox' = <<Done>> /\ reader' = "send"
        /\ UNCHANGED <<ch, wire>>
  /\ UNCHANGED <<exchangeVars, handler, answerVars, ctx, clientVars, recorded>>

(* Faulty variant for mutation testing: the send does not wait for room. *)
SendChunkUnbounded ==
  /\ reader = "send"
  /\ ch' = Append(ch, Head(outbox))
  /\ outbox' = Tail(outbox)
  /\ reader' = IF Head(outbox).kind # "text" THEN "closed"
               ELSE IF outbox' = <<>> THEN "scan" ELSE "send"
  /\ UNCHANGED <<exchangeVars, wire, handler, answerVars, ctx, clientVars, recorded>>

(* Faulty variant for mutation testing: the goroutine does not return. *)
SendChunkAndStay ==
  /\ reader = "send" /\ Len(ch) < Cap
  /\ ch' = Append(ch, Head(outbox))
  /\ outbox' = Tail(outbox)
  /\ reader' = IF outbox' = <<>> THEN "scan" ELSE "send"
  /\ UNCHANGED <<exchangeVars, wire, handler, answerVars, ctx, clientVars, recorded>>

(* A send blocks while the channel is full, whatever the context says.     *)
(* After Done or Error the goroutine returns; its defers close the channel *)
(* and the body.                                                           *)
SendChunk ==
  /\ reader = "send" /\ Len(ch) < Cap
  /\ ch' = Append(ch, Head(outbox))
  /\ outbox' = Tail(outbox)
  /\ reader' = IF Head(outbox).kind # "text" THEN "closed"
               ELSE IF outbox' = <<>> THEN "scan" ELSE "send"
  /\ UNCHANGED <<exchangeVars, wire, handler, answerVars, ctx, clientVars, recorded>>

-----------------------------------------------------------------------------
(* The request's goroutine.                                                *)

(* fn of ExecuteStream or Execute returns: the deferred cancel ends the    *)
(* context of step 7.  Only a success is handed to stepPostProcess.        *)
Succeed(answer) ==
  /\ handler' = "succeeded"
  /\ recorded' = answer
  /\ ctx' = IF ctx = "live" THEN "canceled" ELSE ctx

Fail ==
  /\ handler' = "failed"
  /\ ctx' = IF ctx = "live" THEN "canceled" ELSE ctx
  /\ UNCHANGED recorded

(* writeSSE: a client that has gone receives nothing, and the write may    *)
(* fail.                                                                   *)
ShowMetadata ==
  /\ handler = "metadata"
  /\ \/ handler' = "call" /\ UNCHANGED <<ctx, recorded>>
     \/ ~connected /\ Fail
  /\ UNCHANGED <<exchangeVars, wire, readerVars, ch, answerVars, clientVars>>

(* The request to the model server cannot be built, is not answered, or is *)
(* answered with a status of 400 or more.                                  *)
CallFails ==
  /\ handler = "call"
  /\ provider # "mock"
  /\ Fail
  /\ UNCHANGED <<exchangeVars, wire, readerVars, ch, answerVars, clientVars>>

(* stepGenerate: one reply, an error when it has no text. *)
CallGenerate ==
  /\ handler = "call" /\ mode = "json"
  /\ LET text == GenerateText(body) IN
     IF text # <<>> THEN Succeed(text) ELSE Fail
  /\ UNCHANGED <<exchangeVars, wire, readerVars, ch, answerVars, clientVars>>

(* GenerateStream returns the channel its goroutine will feed. *)
CallStream ==
  /\ handler = "call" /\ mode = "sse"
  /\ reader' = "scan"
  /\ handler' = "receive"
  /\ UNCHANGED <<exchangeVars, wire, outbox, ch, answerVars, ctx, clientVars, recorded>>

(* The loop of stepGenerateStream takes a chunk. *)
Receive ==
  /\ handler = "receive" /\ ch # <<>>
  /\ ch' = Tail(ch)
  /\ LET chunk == Head(ch) IN
     \/ /\ chunk.kind = "text"
        /\ builder' = Append(builder, chunk.word)
        /\ piece' = chunk.word
        /\ handler' = "show"
        /\ UNCHANGED <<ctx, recorded>>
     \/ chunk.kind = "done" /\ Succeed(builder) /\ UNCHANGED answerVars
     \/ chunk.kind = "error" /\ Fail /\ UNCHANGED answerVars
  /\ UNCHANGED <<exchangeVars, wire, readerVars, clientVars>>

(* onChunk writes the chunk to the client. *)
ShowChunk ==
  /\ handler = "show"
  /\ \/ /\ handler' = "receive"
        /\ shown' = IF connected THEN Append(shown, piece) ELSE shown
        /\ UNCHANGED <<ctx, recorded>>
     \/ ~connected /\ Fail /\ UNCHANGED shown
  /\ UNCHANGED <<exchangeVars, wire, readerVars, ch, answerVars, connected, terminal>>

(* Faulty variant for mutation testing: InteractStream does not return after *)
(* the error event and writes the event done as well.                        *)
AnswerTwice ==
  /\ handler \in {"succeeded", "failed"}
  /\ handler' = "returned"
  /\ terminal' = IF connected THEN "done" ELSE terminal
  /\ shown' = IF connected /\ mode = "json" /\ handler = "succeeded" THEN recorded ELSE shown
  /\ UNCHANGED <<exchangeVars, wire, readerVars, ch, answerVars, ctx, connected, recorded>>

(* The handler answers: the event done or error, or the status and the     *)
(* body of respondJSON and respondError.                                   *)
Answer ==
  /\ handler \in {"succeeded", "failed"}
  /\ handler' = "returned"
  /\ IF connected
     THEN /\ terminal' = IF handler = "succeeded" THEN "done" ELSE "error"
          /\ shown' = IF mode = "json" /\ handler = "succeeded" THEN recorded ELSE shown
     ELSE UNCHANGED <<terminal, shown>>
  /\ UNCHANGED <<exchangeVars, wire, readerVars, ch, answerVars, ctx, connected, recorded>>

-----------------------------------------------------------------------------
(* The environment.                                                        *)

(* The client goes away and net/http cancels the request's context. *)
Disconnect ==
  /\ connected /\ handler # "returned"
  /\ connected' = FALSE
  /\ ctx' = IF ctx = "live" THEN "canceled" ELSE ctx
  /\ UNCHANGED <<exchangeVars, wire, readerVars, ch, handler, answerVars,
                 shown, terminal, recorded>>

(* The time of the step, of the request or of the HTTP client is over. *)
Deadline ==
  /\ ctx = "live" /\ handler \in Working
  /\ ctx' = "deadline"
  /\ UNCHANGED <<exchangeVars, wire, readerVars, ch, handler, answerVars,
                 clientVars, recorded>>

Reader == ScanLine \/ ScanEnds \/ MockPart \/ SendChunk

Handler ==
  \/ ShowMetadata \/ CallFails \/ CallGenerate \/ CallStream
  \/ Receive \/ ShowChunk \/ Answer

Next == Reader \/ Handler \/ Disconnect \/ Deadline

(* Both goroutines run; a call of the model server and a read of the body  *)
(* end because the context of step 7 has a deadline.  A write to a client  *)
(* that has gone ends too.  Of a client that is connected nothing is       *)
(* assumed: it may stop reading, and the server sets no write timeout.     *)
Write == ShowMetadata \/ ShowChunk \/ Answer

Fairness ==
  /\ WF_vars(Reader)
  /\ WF_vars(CallFails \/ CallGenerate \/ CallStream \/ Receive)
  /\ WF_vars(~connected /\ Write)

Spec == Init /\ [][Next]_vars
FairSpec == Spec /\ Fairness

-----------------------------------------------------------------------------
(* Properties.                                                             *)

(* What a client that stayed was told is what happened: it got "done" only *)
(* for an answer that is recorded and that it has seen to the last word,   *)
(* and "error" only when nothing is recorded.  While the stream runs it    *)
(* has seen everything stepGenerateStream has put together.                *)
ClientIsToldTheTruth ==
  /\ terminal = "done" => recorded = shown
  /\ terminal = "error" => recorded = NoAnswer
  /\ handler \notin {"show", "returned"} /\ mode = "sse" /\ connected => shown = builder

(* The words of a body up to its end marker, if it has one: Said(b)[n] are *)
(* the words of its first n lines.                                         *)
Ends(line) ==
  line.kind \in {"end", "garbage"} \/ (line.kind = "delta" /\ line.last)
WordOf(line) ==
  IF line.kind = "delta" /\ DeltaText(line) # Blank THEN <<DeltaText(line)>> ELSE <<>>
Said(b) ==
  LET said[n \in 0..Len(b)] == IF n = 0 THEN <<>> ELSE said[n - 1] \o WordOf(b[n])
  IN said
IsLastLine(b, n) ==
  /\ n = Len(b) \/ (n \in DOMAIN b /\ Ends(b[n]))
  /\ \A i \in 1..(n-1) : ~Ends(b[i])
VisibleWords(b) == Said(b)[CHOOSE n \in 0..Len(b) : IsLastLine(b, n)]

(* A recorded answer is everything the model server sent; only the         *)
(* departure of the client makes GenerateStream end a stream early and     *)
(* still call it complete.                                                 *)
ShortOnlyForAbsentClients ==
  recorded # NoAnswer /\ mode = "sse" /\ connected => recorded = VisibleWords(body)

(* The handler is in a write to a client that is there. *)
ClientKeepsWaiting ==
  connected /\ handler \in {"metadata", "show", "succeeded", "failed"}

(* Every request is answered, unless its client stays connected and stops  *)
(* reading for ever.  The reading goroutine ends too; it can only be left  *)
(* waiting on a full channel, and only when nobody takes chunks out of it: *)
(* stepGenerateStream has left its loop because a write to the client      *)
(* failed, or is stuck in a write to such a client.                        *)
StreamEnds ==
  /\ <>(handler = "returned") \/ <>[]ClientKeepsWaiting
  /\ <>[](\/ reader \in {"none", "closed"}
          \/ /\ Len(ch) = Cap
             /\ \/ ~connected /\ recorded = NoAnswer
                \/ handler = "show" /\ ClientKeepsWaiting)

=============================================================================
