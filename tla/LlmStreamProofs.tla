-------------------------- MODULE LlmStreamProofs --------------------------
(***************************************************************************)
(* Proofs about LlmStream for every set of answers of the model server,    *)
(* every vocabulary and every capacity of the channel: the client is told  *)
(* what happened, however the reading goroutine, the request's goroutine,  *)
(* the deadline and the client's departure interleave.                     *)
(***************************************************************************)
EXTENDS LlmStream, SequenceTheorems, NaturalsInduction, WellFoundedInduction, TLAPS

(* The variables that are not Booleans, typed. *)
Typed ==
  /\ provider \in Providers
  /\ mode \in {"json", "sse"}
  /\ body \in Seq(Lines) /\ wire \in Seq(Lines)
  /\ ending \in {"eof", "error"}
  /\ reader \in {"none", "scan", "send", "closed"}
  /\ outbox \in Seq(Chunks)
  /\ ch \in Seq(Chunks) /\ Len(ch) <= Cap
  /\ handler \in Working \cup {"succeeded", "failed", "returned"}
  /\ builder \in Seq(Words)
  /\ piece \in Texts
  /\ ctx \in {"live", "canceled", "deadline"}
  /\ shown \in Seq(Words)
  /\ terminal \in {"none", "done", "error"}
  /\ recorded \in Seq(Words) \cup {NoAnswer}

(* The goroutine sends only what it has decoded, and the mock provider has *)
(* nothing but text to send.                                               *)
SomethingToSend == reader = "send" => outbox # <<>>

AllText(b) == \A i \in DOMAIN b : b[i].kind = "delta" /\ b[i].content # Blank
MockIsText == provider = "mock" => AllText(body) /\ AllText(wire)

(* How far an answer is: nothing is recorded before the step succeeds,     *)
(* nothing is told before the handler returns, and a chunk being shown is  *)
(* the only word the client may not have seen yet.                         *)
Progress ==
  /\ handler # "returned" => terminal = "none"
  /\ handler \in Working \cup {"failed"} => recorded = NoAnswer
  /\ handler = "succeeded" => recorded \in Seq(Words)
  /\ handler = "succeeded" /\ mode = "sse" => recorded = builder
  /\ handler = "show" => piece \in Words
  /\ handler = "show" /\ mode = "sse" /\ connected => builder = Append(shown, piece)

(* The inductive invariant. *)
IInv == /\ Typed
        /\ connected \in BOOLEAN
        /\ SomethingToSend
        /\ MockIsText
        /\ Progress
        /\ ClientIsToldTheTruth

-----------------------------------------------------------------------------
(* Decoding.                                                               *)

(* The text of a delta is one of its two texts. *)
LEMMA DeltaTextType ==
  ASSUME NEW line \in Lines, line.kind = "delta"
  PROVE  DeltaText(line) \in Texts /\ line.content \in Texts
<1>1. line \in [kind : {"delta"}, content : Texts, alternative : Texts, last : BOOLEAN]
      BY DEF Lines
<1>2. line.content \in Texts /\ line.alternative \in Texts
      BY <1>1, Zenon
<1> QED
    BY <1>2 DEF DeltaText

(* What the goroutine sends for a line are chunks. *)
LEMMA ChunksOfType ==
  ASSUME NEW line \in Lines
  PROVE  ChunksOf(line) \in Seq(Chunks)
<1>1. Done \in Chunks /\ Error \in Chunks
      BY DEF Chunks
<1>2. ASSUME NEW w \in Words PROVE Text(w) \in Chunks
      BY DEF Text, Chunks
<1>3. <<Done>> \in Seq(Chunks) /\ <<Error>> \in Seq(Chunks) /\ <<>> \in Seq(Chunks)
      BY <1>1
<1>4. line.kind \in {"blank", "garbage", "end", "failure", "delta"}
      BY DEF Lines
<1>5. CASE line.kind = "delta"
  <2> DEFINE text == IF DeltaText(line) # Blank THEN <<Text(DeltaText(line))>> ELSE <<>>
             last == IF line.last THEN <<Done>> ELSE <<>>
  <2>1. text \in Seq(Chunks)
    <3>1. DeltaText(line) # Blank => DeltaText(line) \in Words
          BY <1>5, DeltaTextType DEF Texts
    <3>2. DeltaText(line) # Blank => Text(DeltaText(line)) \in Chunks
          BY <1>2, <3>1
    <3> QED
        BY <3>2
  <2>2. last \in Seq(Chunks)
        BY <1>3
  <2>3. ChunksOf(line) = text \o last
        BY <1>5 DEF ChunksOf
  <2> HIDE DEF text, last
  <2> QED
      BY <2>1, <2>2, <2>3, ConcatProperties
<1>6. CASE line.kind # "delta"
      BY <1>3, <1>4, <1>6 DEF ChunksOf
<1> QED
    BY <1>5, <1>6

(* An answer read in one piece is made of words. *)
LEMMA GenerateTextType ==
  ASSUME NEW b \in Seq(Lines), provider = "mock" => AllText(b)
  PROVE  GenerateText(b) \in Seq(Words)
<1>1. CASE provider = "mock"
  <2>1. ASSUME NEW i \in DOMAIN b PROVE b[i].content \in Words
    <3>1. b[i] \in Lines /\ b[i].kind = "delta" /\ b[i].content # Blank
          BY <1>1, <2>1 DEF AllText
    <3> QED
        BY <3>1, DeltaTextType DEF Texts
  <2>2. DOMAIN b = 1..Len(b) /\ Len(b) \in Nat
        OBVIOUS
  <2>3. GenerateText(b) = [i \in 1..Len(b) |-> b[i].content]
        BY <1>1, <2>2 DEF GenerateText
  <2> QED
      BY <2>1, <2>2, <2>3
<1>2. CASE provider # "mock"
  <2>1. CASE b # <<>> /\ Head(b).kind = "delta" /\ DeltaText(Head(b)) # Blank
    <3>1. Head(b) \in Lines
          BY <2>1
    <3>2. DeltaText(Head(b)) \in Words
          BY <2>1, <3>1, DeltaTextType DEF Texts
    <3>3. GenerateText(b) = <<DeltaText(Head(b))>>
          BY <1>2, <2>1 DEF GenerateText
    <3> QED
        BY <3>2, <3>3
  <2>2. CASE ~(b # <<>> /\ Head(b).kind = "delta" /\ DeltaText(Head(b)) # Blank)
    <3>1. GenerateText(b) = <<>>
          BY <1>2, <2>2 DEF GenerateText
    <3> QED
        BY <3>1
  <2> QED
      BY <2>1, <2>2
<1> QED
    BY <1>1, <1>2

(* A chunk with text holds a word. *)
LEMMA ChunkWord ==
  ASSUME NEW c \in Chunks
  PROVE  c.kind = "text" => c.word \in Words
  BY DEF Chunks, Done, Error

-----------------------------------------------------------------------------
(* The reading goroutine.                                                  *)

requestVars == <<exchangeVars, handler, answerVars, ctx, clientVars, recorded>>

(* Nothing of what the goroutine does reaches the client directly, and it  *)
(* keeps the bound of the channel.                                         *)
LEMMA ReaderStep ==
  ASSUME Typed, SomethingToSend, MockIsText, Reader
  PROVE  /\ UNCHANGED requestVars
         /\ wire' \in Seq(Lines) /\ outbox' \in Seq(Chunks)
         /\ reader' \in {"none", "scan", "send", "closed"}
         /\ ch' \in Seq(Chunks) /\ Len(ch') <= Cap
         /\ SomethingToSend'
         /\ MockIsText'
<1> USE StreamAssumption
<1>1. UNCHANGED requestVars
      BY Zenon DEF Reader, ScanLine, ScanEnds, MockPart, SendChunk, requestVars
<1>2. <<Done>> \in Seq(Chunks) /\ <<Error>> \in Seq(Chunks)
      BY DEF Chunks
<1>3. Len(ch) \in Nat /\ ch \in Seq(Chunks)
      BY DEF Typed
<1>4. ASSUME NEW c \in Chunks, Len(ch) < Cap, ch' = Append(ch, c)
      PROVE  ch' \in Seq(Chunks) /\ Len(ch') <= Cap
  <2>1. Append(ch, c) \in Seq(Chunks) /\ Len(Append(ch, c)) = Len(ch) + 1
        BY <1>3, AppendProperties
  <2> QED
      BY <1>3, <1>4, <2>1
<1>5. ASSUME wire # <<>>, wire' = Tail(wire)
      PROVE  wire' \in Seq(Lines) /\ (AllText(wire) => AllText(wire'))
  <2>1. wire \in Seq(Lines)
        BY DEF Typed
  <2>2. /\ Tail(wire) \in Seq(Lines) /\ Len(Tail(wire)) = Len(wire) - 1
        /\ \A i \in 1..Len(Tail(wire)) : Tail(wire)[i] = wire[i + 1]
        BY <1>5, <2>1, HeadTailProperties
  <2>3. ASSUME NEW i \in DOMAIN wire', AllText(wire)
        PROVE  wire'[i].kind = "delta" /\ wire'[i].content # Blank
    <3>1. i \in 1..Len(Tail(wire)) /\ i + 1 \in DOMAIN wire
          BY <1>5, <2>1, <2>2, <2>3
    <3>2. wire'[i] = wire[i + 1]
          BY <1>5, <2>2, <3>1
    <3> QED
        BY <2>3, <3>1, <3>2 DEF AllText
  <2> QED
      BY <1>5, <2>2, <2>3 DEF AllText
<1>6. CASE ScanLine
  <2>1. Head(wire) \in Lines
        BY <1>6 DEF ScanLine, Typed
  <2>2. outbox' \in Seq(Chunks)
        BY <1>6, <2>1, ChunksOfType DEF ScanLine
  <2> QED
      BY <1>1, <1>3, <1>5, <1>6, <2>2
         DEF ScanLine, Typed, SomethingToSend, MockIsText, requestVars, exchangeVars
<1>7. CASE ScanEnds
      BY <1>1, <1>2, <1>3, <1>7
         DEF ScanEnds, Typed, SomethingToSend, MockIsText, requestVars, exchangeVars, AllText
<1>8. CASE MockPart
  <2>1. CASE /\ wire # <<>> /\ Len(ch) < Cap
             /\ ch' = Append(ch, Text(Head(wire).content))
             /\ wire' = Tail(wire)
             /\ UNCHANGED <<reader, outbox>>
    <3>1. 1 \in DOMAIN wire /\ Head(wire) = wire[1] /\ wire[1] \in Lines
          BY <2>1 DEF Typed
    <3>2. wire[1].kind = "delta" /\ wire[1].content # Blank
          BY <1>8, <3>1 DEF MockPart, MockIsText, AllText
    <3>3. Text(Head(wire).content) \in Chunks
          BY <3>1, <3>2, DeltaTextType DEF Text, Chunks, Texts
    <3> QED
        BY <1>1, <1>4, <1>5, <2>1, <3>3
           DEF Typed, SomethingToSend, MockIsText, requestVars, exchangeVars
  <2>2. CASE outbox' \in {<<Error>>, <<Done>>} /\ reader' = "send" /\ UNCHANGED <<ch, wire>>
    <3>1. outbox' \in Seq(Chunks) /\ outbox' # <<>>
      <4>1. Len(<<Error>>) = 1 /\ Len(<<Done>>) = 1 /\ Len(<<>>) = 0
            OBVIOUS
      <4>2. CASE outbox' = <<Error>>
            BY <1>2, <4>1, <4>2
      <4>3. CASE outbox' = <<Done>>
            BY <1>2, <4>1, <4>3
      <4> QED
          BY <2>2, <4>2, <4>3
    <3>2. MockIsText'
          BY <1>1, <2>2 DEF MockIsText, AllText, requestVars, exchangeVars
    <3> QED
        BY <1>1, <2>2, <3>1, <3>2 DEF Typed, SomethingToSend
  <2> QED
      BY <1>8, <2>1, <2>2 DEF MockPart
<1>9. CASE SendChunk
  <2>1. outbox \in Seq(Chunks) /\ outbox # <<>>
        BY <1>9 DEF SendChunk, SomethingToSend, Typed
  <2>2. Head(outbox) \in Chunks /\ Tail(outbox) \in Seq(Chunks)
        BY <2>1, HeadTailProperties
  <2>3. ch' \in Seq(Chunks) /\ Len(ch') <= Cap
        BY <1>4, <1>9, <2>2 DEF SendChunk
  <2> QED
      BY <1>1, <1>9, <2>2, <2>3
         DEF SendChunk, Typed, SomethingToSend, MockIsText, requestVars, exchangeVars, AllText
<1> QED
    BY <1>6, <1>7, <1>8, <1>9 DEF Reader

(* A frame for the invariants about what the client is told. *)
LEMMA ToldFrame ==
  ASSUME UNCHANGED requestVars, Progress, ClientIsToldTheTruth
  PROVE  Progress' /\ ClientIsToldTheTruth'
  BY DEF requestVars, exchangeVars, answerVars, clientVars, Progress, ClientIsToldTheTruth

-----------------------------------------------------------------------------
(* The request's goroutine and the environment.                            *)

(* The request's goroutine leaves the exchange as it is. *)
LEMMA HandlerFrame ==
  ASSUME Handler \/ Disconnect \/ Deadline
  PROVE  UNCHANGED <<exchangeVars, wire, outbox>>
  BY Zenon DEF Handler, ShowMetadata, CallFails, CallGenerate, CallStream, Receive,
     ShowChunk, Answer, Disconnect, Deadline, readerVars

(* Step 7 fails: nothing is recorded, and nothing has been told yet. *)
LEMMA FailStep ==
  ASSUME Typed, Progress, ClientIsToldTheTruth, Fail, handler \in Working,
         UNCHANGED <<mode, builder, piece, connected, shown, terminal>>,
         handler = "show" => ~connected
  PROVE  Progress' /\ ClientIsToldTheTruth'
  BY StreamAssumption DEF Typed, Progress, ClientIsToldTheTruth, Fail, Working

(* Every step of the request's goroutine keeps the types and the truth. *)
LEMMA HandlerStep ==
  ASSUME Typed, MockIsText, Progress, ClientIsToldTheTruth, Handler
  PROVE  /\ Typed'
         /\ Progress'
         /\ ClientIsToldTheTruth'
<1> DEFINE Goal == Typed' /\ Progress' /\ ClientIsToldTheTruth'
<1> USE StreamAssumption
<1>1. UNCHANGED <<exchangeVars, wire, outbox>>
      BY HandlerFrame
<1>2. CASE ShowMetadata
  <2>1. CASE handler' = "call" /\ UNCHANGED <<ctx, recorded>>
        BY <1>1, <1>2, <2>1 DEF ShowMetadata, Typed, Progress, ClientIsToldTheTruth, Working,
           exchangeVars, readerVars, answerVars, clientVars
  <2>2. CASE Fail
    <3>1. Progress' /\ ClientIsToldTheTruth'
          BY <1>1, <1>2, <2>2, FailStep
             DEF ShowMetadata, Working, exchangeVars, answerVars, clientVars
    <3> QED
        BY <1>1, <1>2, <2>2, <3>1 DEF ShowMetadata, Fail, Typed, Working,
           exchangeVars, readerVars, answerVars, clientVars
  <2> QED
      BY <1>2, <2>1, <2>2 DEF ShowMetadata
<1>3. CASE CallFails
  <2>1. Progress' /\ ClientIsToldTheTruth'
        BY <1>1, <1>3, FailStep DEF CallFails, Working, exchangeVars, answerVars, clientVars
  <2> QED
      BY <1>1, <1>3, <2>1 DEF CallFails, Fail, Typed, Working,
         exchangeVars, readerVars, answerVars, clientVars
<1>4. CASE CallGenerate
  <2> DEFINE text == GenerateText(body)
  <2>1. text \in Seq(Words)
        BY GenerateTextType DEF Typed, MockIsText
  <2> HIDE DEF text
  <2>2. CASE Succeed(text)
        BY <1>1, <1>4, <2>1, <2>2 DEF CallGenerate, Succeed, Typed, Progress,
           ClientIsToldTheTruth, Working, exchangeVars, readerVars, answerVars, clientVars
  <2>3. CASE Fail
    <3>1. Progress' /\ ClientIsToldTheTruth'
          BY <1>1, <1>4, <2>3, FailStep
             DEF CallGenerate, Working, exchangeVars, answerVars, clientVars
    <3> QED
        BY <1>1, <1>4, <2>3, <3>1 DEF CallGenerate, Fail, Typed, Working,
           exchangeVars, readerVars, answerVars, clientVars
  <2> QED
      BY <1>4, <2>2, <2>3 DEF CallGenerate, text
<1>5. CASE CallStream
      BY <1>1, <1>5 DEF CallStream, Typed, Progress, ClientIsToldTheTruth, Working,
         exchangeVars, answerVars, clientVars
<1>6. CASE Receive
  <2>1. ch \in Seq(Chunks) /\ ch # <<>> /\ Len(ch) <= Cap
        BY <1>6 DEF Receive, Typed
  <2>2. Head(ch) \in Chunks /\ Tail(ch) \in Seq(Chunks) /\ Len(Tail(ch)) = Len(ch) - 1
        BY <2>1, HeadTailProperties
  <2>3. ch' \in Seq(Chunks) /\ Len(ch') <= Cap
        BY <1>6, <2>1, <2>2 DEF Receive
  <2>4. CASE /\ Head(ch).kind = "text"
             /\ builder' = Append(builder, Head(ch).word)
             /\ piece' = Head(ch).word
             /\ handler' = "show"
             /\ UNCHANGED <<ctx, recorded>>
    <3>1. Head(ch).word \in Words
          BY <2>2, <2>4, ChunkWord
    <3>2. builder' \in Seq(Words) /\ piece' \in Words
          BY <2>4, <3>1 DEF Typed
    <3>3. mode = "sse" /\ connected => shown = builder
          BY <1>6 DEF Receive, ClientIsToldTheTruth
    <3>4. Typed'
          BY <1>1, <1>6, <2>3, <2>4, <3>2 DEF Receive, Typed, Texts, Working,
             exchangeVars, readerVars, clientVars
    <3>5. Progress'
          BY <1>1, <1>6, <2>4, <3>2, <3>3 DEF Receive, Progress, Working,
             exchangeVars, clientVars
    <3>6. ClientIsToldTheTruth'
          BY <1>1, <1>6, <2>4 DEF Receive, ClientIsToldTheTruth, exchangeVars, clientVars
    <3> QED
        BY <3>4, <3>5, <3>6
  <2>5. CASE Succeed(builder) /\ UNCHANGED answerVars
        BY <1>1, <1>6, <2>3, <2>5 DEF Receive, Succeed, Typed, Progress,
           ClientIsToldTheTruth, Working, exchangeVars, readerVars, answerVars, clientVars
  <2>6. CASE Fail /\ UNCHANGED answerVars
    <3>1. Progress' /\ ClientIsToldTheTruth'
          BY <1>1, <1>6, <2>6, FailStep
             DEF Receive, Working, exchangeVars, answerVars, clientVars
    <3> QED
        BY <1>1, <1>6, <2>3, <2>6, <3>1 DEF Receive, Fail, Typed, Working,
           exchangeVars, readerVars, answerVars, clientVars
  <2> QED
      BY <1>6, <2>4, <2>5, <2>6 DEF Receive
<1>7. CASE ShowChunk
  <2>1. CASE /\ handler' = "receive"
             /\ shown' = IF connected THEN Append(shown, piece) ELSE shown
             /\ UNCHANGED <<ctx, recorded>>
    <3>1. shown' \in Seq(Words)
          BY <1>7, <2>1 DEF ShowChunk, Typed, Progress
    <3>2. Typed'
          BY <1>1, <1>7, <2>1, <3>1 DEF ShowChunk, Typed, Working,
             exchangeVars, readerVars, answerVars
    <3>3. Progress' /\ ClientIsToldTheTruth'
          BY <1>1, <1>7, <2>1 DEF ShowChunk, Progress, ClientIsToldTheTruth, Working,
             exchangeVars, answerVars
    <3> QED
        BY <3>2, <3>3
  <2>2. CASE ~connected /\ Fail /\ UNCHANGED shown
    <3>1. Progress' /\ ClientIsToldTheTruth'
          BY <1>1, <1>7, <2>2, FailStep
             DEF ShowChunk, Working, exchangeVars, answerVars
    <3> QED
        BY <1>1, <1>7, <2>2, <3>1 DEF ShowChunk, Fail, Typed, Working,
           exchangeVars, readerVars, answerVars
  <2> QED
      BY <1>7, <2>1, <2>2 DEF ShowChunk
<1>8. CASE Answer
  <2>1. Typed'
        BY <1>1, <1>8 DEF Answer, Typed, Progress, exchangeVars, readerVars, answerVars
  <2>2. Progress' /\ ClientIsToldTheTruth'
        BY <1>1, <1>8 DEF Answer, Typed, Progress, ClientIsToldTheTruth, Working,
           exchangeVars, answerVars
  <2> QED
      BY <2>1, <2>2
<1> QED
    BY <1>2, <1>3, <1>4, <1>5, <1>6, <1>7, <1>8 DEF Handler

(* The client goes, or time is up: nobody is told anything. *)
LEMMA EnvironmentStep ==
  ASSUME Typed, Progress, ClientIsToldTheTruth, Disconnect \/ Deadline
  PROVE  Typed' /\ Progress' /\ ClientIsToldTheTruth'
<1>1. UNCHANGED <<exchangeVars, wire, readerVars, ch, handler, answerVars, shown, terminal,
                  recorded>>
      BY Zenon DEF Disconnect, Deadline, clientVars
<1>2. connected' => connected
      BY Zenon DEF Disconnect, Deadline, clientVars
<1>3. ctx' \in {"live", "canceled", "deadline"}
      BY DEF Disconnect, Deadline, Typed
<1> QED
    BY <1>1, <1>2, <1>3 DEF exchangeVars, readerVars, answerVars, Typed, Progress,
       ClientIsToldTheTruth

-----------------------------------------------------------------------------
(* The invariant.                                                          *)

LEMMA InitIInv == Init => IInv
<1> SUFFICES ASSUME Init PROVE IInv
    OBVIOUS
<1> USE StreamAssumption
<1>1. body \in Seq(Lines) /\ (provider = "mock" => AllText(body))
      BY DEF Init, MockBody, AllText
<1>2. Typed
      BY <1>1 DEF Init, Typed, Working, Texts
<1>3. connected \in BOOLEAN
      BY Zenon DEF Init
<1>4. SomethingToSend /\ MockIsText
      BY <1>1 DEF Init, SomethingToSend, MockIsText, AllText
<1>5. Progress /\ ClientIsToldTheTruth
      BY DEF Init, Progress, ClientIsToldTheTruth, Working
<1> QED
    BY <1>2, <1>3, <1>4, <1>5 DEF IInv

LEMMA IInvStep == IInv /\ [Next]_vars => IInv'
<1> SUFFICES ASSUME IInv, [Next]_vars PROVE IInv'
    OBVIOUS
<1> USE DEF IInv
<1>1. connected' \in BOOLEAN
      BY Zenon DEF Next, Reader, ScanLine, ScanEnds, MockPart, SendChunk, Handler,
         ShowMetadata, CallFails, CallGenerate, CallStream, Receive, ShowChunk, Answer,
         Disconnect, Deadline, vars, clientVars
<1>2. CASE Reader
  <2>1. Typed'
        BY <1>2, ReaderStep
           DEF Typed, requestVars, exchangeVars, answerVars, clientVars
  <2>2. SomethingToSend' /\ MockIsText' /\ Progress' /\ ClientIsToldTheTruth'
        BY <1>2, ReaderStep, ToldFrame
  <2> QED
      BY <1>1, <2>1, <2>2
<1>3. CASE Handler \/ Disconnect \/ Deadline
  <2>1. Typed' /\ Progress' /\ ClientIsToldTheTruth'
        BY <1>3, HandlerStep, EnvironmentStep
  <2>2. SomethingToSend'
    <3>1. reader' = "send" => reader = "send"
          BY <1>3 DEF Handler, ShowMetadata, CallFails, CallGenerate, CallStream, Receive,
             ShowChunk, Answer, Disconnect, Deadline, readerVars
    <3> QED
        BY <1>3, <3>1, HandlerFrame DEF SomethingToSend
  <2>3. MockIsText'
        BY <1>3, HandlerFrame DEF MockIsText, AllText, exchangeVars
  <2> QED
      BY <1>1, <2>1, <2>2, <2>3
<1>4. CASE UNCHANGED vars
  <2>1. UNCHANGED <<requestVars, wire, reader, outbox, ch>>
        BY <1>4 DEF vars, readerVars, requestVars
  <2>2. Typed' /\ SomethingToSend' /\ MockIsText'
        BY <2>1 DEF Typed, SomethingToSend, MockIsText, AllText, requestVars, exchangeVars,
           answerVars, clientVars
  <2> QED
      BY <1>1, <2>1, <2>2, ToldFrame
<1> QED
    BY <1>2, <1>3, <1>4 DEF Next

LEMMA Invariance == Spec => []IInv
  BY InitIInv, IInvStep, PTL DEF Spec

(* The variables keep their types: GenerateStream never puts more into the *)
(* channel than fits, and decodes any body into chunks.                    *)
THEOREM TypeCorrect == Spec => []TypeOK
<1>1. IInv => TypeOK
      BY Zenon DEF IInv, Typed, TypeOK
<1> QED
    BY <1>1, Invariance, PTL

(* InteractStream and Interact tell a client that stayed the truth: "done" *)
(* for an answer it has seen to the last word and that is recorded,        *)
(* "error" when nothing is recorded.                                       *)
THEOREM TruthIsTold == Spec => []ClientIsToldTheTruth
<1>1. IInv => ClientIsToldTheTruth
      BY DEF IInv
<1> QED
    BY <1>1, Invariance, PTL

-----------------------------------------------------------------------------
(* What a body says.                                                       *)

(* Said is the function its recursive definition describes.  That such a   *)
(* function exists follows for 0..m from 0..m-1, and there is no least m   *)
(* for which it fails.                                                     *)
LEMMA SaidUnrolls ==
  ASSUME NEW b \in Seq(Lines)
  PROVE  /\ Said(b)[0] = <<>>
         /\ \A n \in 1..Len(b) : Said(b)[n] = Said(b)[n - 1] \o WordOf(b[n])
<1> DEFINE IsSaid(f, m) == f = [n \in 0..m |-> IF n = 0 THEN <<>> ELSE f[n - 1] \o WordOf(b[n])]
           Exists(m) == \E f : IsSaid(f, m)
           Bad == {m \in Nat : ~Exists(m)}
<1>1. Len(b) \in Nat
      OBVIOUS
<1>2. Exists(0)
  <2>1. IsSaid([n \in 0..0 |-> <<>>], 0)
        OBVIOUS
  <2> QED
      BY <2>1
<1>3. ASSUME NEW m \in Nat, Exists(m) PROVE Exists(m + 1)
  <2>1. PICK f : IsSaid(f, m)
        BY <1>3
  <2> DEFINE g == [n \in 0..(m + 1) |-> IF n = m + 1 THEN f[m] \o WordOf(b[m + 1]) ELSE f[n]]
  <2>2. /\ g[m + 1] = f[m] \o WordOf(b[m + 1])
        /\ \A n \in 0..m : g[n] = f[n]
        /\ m \in 0..m /\ (m + 1) - 1 = m
        OBVIOUS
  <2>3. \A n \in 0..m : f[n] = IF n = 0 THEN <<>> ELSE f[n - 1] \o WordOf(b[n])
        BY <2>1
  <2>4. g = [n \in 0..(m + 1) |-> g[n]]
        OBVIOUS
  <2> HIDE DEF g
  <2>5. ASSUME NEW n \in 0..(m + 1)
        PROVE  g[n] = IF n = 0 THEN <<>> ELSE g[n - 1] \o WordOf(b[n])
    <3>1. CASE n = m + 1
      <4>1. n # 0 /\ n - 1 = m /\ g[m] = f[m]
            BY <2>2, <3>1
      <4> QED
          BY <2>2, <3>1, <4>1, Zenon
    <3>2. CASE n # m + 1
      <4>1. n \in 0..m /\ (n # 0 => n - 1 \in 0..m)
            BY <3>2
      <4>2. g[n] = f[n] /\ (n # 0 => g[n - 1] = f[n - 1])
            BY <2>2, <4>1
      <4>3. f[n] = IF n = 0 THEN <<>> ELSE f[n - 1] \o WordOf(b[n])
            BY <2>3, <4>1
      <4> QED
          BY <4>2, <4>3, Zenon
    <3> QED
        BY <3>1, <3>2
  <2>6. IsSaid(g, m + 1)
        BY <2>4, <2>5
  <2> QED
      BY <2>6
<1> HIDE DEF Exists
<1>4. Bad = {}
  <2> SUFFICES ASSUME Bad # {} PROVE FALSE
      OBVIOUS
  <2>1. Bad \in SUBSET Nat
        OBVIOUS
  <2>2. PICK m \in Bad : \A k \in Bad : <<k, m>> \notin OpToRel(<, Nat)
    <3> HIDE DEF Bad
    <3> QED
        BY <2>1, NatLessThanWellFounded, WFMin
  <2>3. m \in Nat /\ ~Exists(m) /\ \A k \in Nat : k < m => Exists(k)
        BY <2>2, Zenon DEF OpToRel
  <2>4. m # 0 /\ m - 1 \in Nat /\ m - 1 < m /\ (m - 1) + 1 = m
        BY <1>2, <2>3
  <2> QED
      BY <1>3, <2>3, <2>4
<1>5. Exists(Len(b))
      BY <1>1, <1>4
<1>6. IsSaid(Said(b), Len(b))
      BY <1>5, Zenon DEF Said, Exists
<1> QED
    BY <1>1, <1>6

(* A body has one last line, and what it says is said up to there. *)
LEMMA LastLineIsUnique ==
  ASSUME NEW b \in Seq(Lines), NEW n \in 0..Len(b), IsLastLine(b, n)
  PROVE  VisibleWords(b) = Said(b)[n]
<1>1. ASSUME NEW m \in 0..Len(b), NEW k \in 0..Len(b), IsLastLine(b, m), IsLastLine(b, k)
      PROVE  ~(m < k)
  <2> SUFFICES ASSUME m < k PROVE FALSE
      OBVIOUS
  <2>1. m # Len(b)
        OBVIOUS
  <2>2. m \in DOMAIN b /\ Ends(b[m])
        BY <1>1, <2>1 DEF IsLastLine
  <2>3. m \in 1..(k-1)
        BY <2>2
  <2> QED
      BY <1>1, <2>2, <2>3 DEF IsLastLine
<1>2. ASSUME NEW m \in 0..Len(b), IsLastLine(b, m) PROVE m = n
  <2>1. ~(m < n) /\ ~(n < m)
        BY <1>1, <1>2
  <2> QED
      BY <2>1
<1>3. (CHOOSE m \in 0..Len(b) : IsLastLine(b, m)) = n
      BY <1>2
<1> QED
    BY <1>3 DEF VisibleWords

-----------------------------------------------------------------------------
(* What is between the body and the builder: the chunks of the channel,    *)
(* then those the goroutine has still to send.                             *)

Size(c, o) == Len(c) + Len(o)
Item(c, o, i) == IF i <= Len(c) THEN c[i] ELSE o[i - Len(c)]

(* Only the last chunk may be Done or Error. *)
TextFirst(c, o) == \A i \in 1..(Size(c, o) - 1) : Item(c, o, i).kind = "text"
Final(c, o) == Size(c, o) > 0 /\ Item(c, o, Size(c, o)).kind # "text"
Count(c, o) == IF Final(c, o) THEN Size(c, o) - 1 ELSE Size(c, o)

(* The words s are those of the builder, followed by those on their way. *)
Carries(s, b, c, o) ==
  /\ s \in Seq(Words)
  /\ Len(s) = Len(b) + Count(c, o)
  /\ \A i \in 1..Len(b) : s[i] = b[i]
  /\ \A i \in 1..Count(c, o) : s[Len(b) + i] = Item(c, o, i).word

(* Sending a chunk changes nothing of what is on its way. *)
LEMMA SendingKeeps ==
  ASSUME NEW c \in Seq(Chunks), NEW o \in Seq(Chunks), o # <<>>,
         NEW s, NEW b \in Seq(Words)
  PROVE  LET c2 == Append(c, Head(o))
             o2 == Tail(o)
         IN /\ Size(c2, o2) = Size(c, o)
            /\ \A i \in 1..Size(c, o) : Item(c2, o2, i) = Item(c, o, i)
            /\ Final(c2, o2) <=> Final(c, o)
            /\ TextFirst(c, o) => TextFirst(c2, o2)
            /\ Carries(s, b, c, o) => Carries(s, b, c2, o2)
<1> DEFINE c2 == Append(c, Head(o))
           o2 == Tail(o)
           n == Size(c, o)
<1>1. /\ Len(c) \in Nat /\ Len(o) \in Nat /\ Len(o) > 0
      /\ Len(c2) = Len(c) + 1 /\ Len(o2) = Len(o) - 1
      /\ c2[Len(c) + 1] = o[1]
      /\ \A i \in 1..Len(c) : c2[i] = c[i]
      /\ \A i \in 1..Len(o2) : o2[i] = o[i + 1]
      BY HeadTailProperties, AppendProperties
<1> HIDE DEF c2, o2
<1>2. Size(c2, o2) = n /\ n \in Nat /\ n > 0
      BY <1>1 DEF Size
<1>3. ASSUME NEW i \in 1..n PROVE Item(c2, o2, i) = Item(c, o, i)
  <2>1. CASE i <= Len(c)
        BY <1>1, <1>2, <2>1 DEF Item
  <2>2. CASE i = Len(c) + 1
        BY <1>1, <1>2, <2>2 DEF Item
  <2>3. CASE i > Len(c) + 1
    <3>1. i - (Len(c) + 1) \in 1..Len(o2) /\ (i - (Len(c) + 1)) + 1 = i - Len(c)
          BY <1>1, <2>3 DEF Size
    <3>2. Item(c2, o2, i) = o2[i - (Len(c) + 1)] /\ Item(c, o, i) = o[i - Len(c)]
          BY <1>1, <2>3 DEF Item
    <3> QED
        BY <1>1, <3>1, <3>2
  <2> QED
      BY <1>1, <2>1, <2>2, <2>3
<1>4. Final(c2, o2) <=> Final(c, o)
  <2>1. n \in 1..n
        BY <1>2
  <2>2. Item(c2, o2, n) = Item(c, o, n)
        BY <1>3, <2>1
  <2> QED
      BY <1>2, <2>2 DEF Final
<1>5. TextFirst(c, o) => TextFirst(c2, o2)
      BY <1>2, <1>3 DEF TextFirst
<1>6. Count(c2, o2) = Count(c, o) /\ Count(c, o) \in Nat /\ Count(c, o) <= n
      BY <1>2, <1>4 DEF Count
<1>7. ASSUME Carries(s, b, c, o) PROVE Carries(s, b, c2, o2)
  <2>1. ASSUME NEW i \in 1..Count(c, o) PROVE Item(c2, o2, i) = Item(c, o, i)
        BY <1>2, <1>3, <1>6
  <2> QED
      BY <1>6, <1>7, <2>1 DEF Carries
<1> QED
    BY <1>2, <1>3, <1>4, <1>5, <1>7 DEF c2, o2

(* Taking a word out of the channel hands it to the builder; the last      *)
(* chunk is taken only when all words have been.                           *)
LEMMA TakingKeeps ==
  ASSUME NEW c \in Seq(Chunks), NEW o \in Seq(Chunks), c # <<>>, TextFirst(c, o),
         NEW s, NEW b \in Seq(Words), Carries(s, b, c, o)
  PROVE  /\ TextFirst(Tail(c), o)
         /\ Head(c).kind = "text" => /\ Final(Tail(c), o) <=> Final(c, o)
                                     /\ Final(c, o) =>
                                          Item(Tail(c), o, Size(Tail(c), o)) = Item(c, o, Size(c, o))
                                     /\ Carries(s, Append(b, Head(c).word), Tail(c), o)
         /\ Head(c).kind # "text" => /\ Final(c, o) /\ Item(c, o, Size(c, o)) = Head(c)
                                     /\ ~Final(Tail(c), o)
                                     /\ s = b
                                     /\ o = <<>>
                                     /\ Carries(s, b, Tail(c), o)
<1> DEFINE c2 == Tail(c)
           n == Size(c, o)
<1>1. /\ Len(c) \in Nat /\ Len(o) \in Nat /\ Len(c) > 0
      /\ Len(c2) = Len(c) - 1 /\ c[1] = Head(c) /\ Head(c) \in Chunks
      /\ \A i \in 1..Len(c2) : c2[i] = c[i + 1]
      BY HeadTailProperties
<1> HIDE DEF c2
<1>2. Size(c2, o) = n - 1 /\ n \in Nat /\ n > 0
      BY <1>1 DEF Size
<1>3. ASSUME NEW i \in 1..(n - 1) PROVE Item(c2, o, i) = Item(c, o, i + 1)
  <2>1. CASE i <= Len(c2)
        BY <1>1, <1>2, <2>1 DEF Item
  <2>2. CASE i > Len(c2)
    <3>1. i - Len(c2) = (i + 1) - Len(c)
          BY <1>1
    <3> QED
        BY <1>1, <1>2, <2>2, <3>1 DEF Item
  <2> QED
      BY <1>1, <2>1, <2>2
<1>4. Item(c, o, 1) = Head(c)
      BY <1>1 DEF Item
<1>5. TextFirst(c2, o)
  <2>1. ASSUME NEW i \in 1..((n - 1) - 1) PROVE Item(c2, o, i).kind = "text"
    <3>1. i \in 1..(n - 1) /\ i + 1 \in 1..(n - 1)
          BY <1>2
    <3>2. Item(c, o, i + 1).kind = "text"
          BY <3>1 DEF TextFirst
    <3> QED
        BY <1>3, <3>1, <3>2
  <2> QED
      BY <1>2, <2>1 DEF TextFirst
<1>6. ASSUME Head(c).kind = "text"
      PROVE  /\ Final(c2, o) <=> Final(c, o)
             /\ Final(c, o) => Item(c2, o, Size(c2, o)) = Item(c, o, Size(c, o))
             /\ Carries(s, Append(b, Head(c).word), c2, o)
  <2>1. n > 1 => n - 1 \in 1..(n - 1) /\ Item(c2, o, n - 1) = Item(c, o, n)
    <3>1. n > 1 => n - 1 \in 1..(n - 1) /\ (n - 1) + 1 = n
          BY <1>2
    <3> QED
        BY <1>3, <3>1
  <2>2. n = 1 => ~Final(c, o) /\ ~Final(c2, o)
        BY <1>2, <1>4, <1>6 DEF Final
  <2>3. n > 1 => (Final(c2, o) <=> Final(c, o))
        BY <1>2, <2>1 DEF Final
  <2>4. /\ Final(c2, o) <=> Final(c, o)
        /\ Final(c, o) => Item(c2, o, Size(c2, o)) = Item(c, o, Size(c, o))
        BY <1>2, <2>1, <2>2, <2>3
  <2>5. Count(c2, o) = Count(c, o) - 1 /\ Count(c2, o) \in Nat /\ Count(c, o) \in Nat
        /\ Count(c, o) <= n
    <3>1. Final(c, o) => n > 1
          BY <1>2, <2>2
    <3> QED
        BY <1>2, <2>4, <3>1 DEF Count
  <2> DEFINE w == Head(c).word
             b2 == Append(b, w)
  <2>6. w \in Words
        BY <1>1, <1>6, ChunkWord
  <2>7. /\ b2 \in Seq(Words) /\ Len(b2) = Len(b) + 1 /\ Len(b) \in Nat /\ b2[Len(b) + 1] = w
        /\ \A i \in 1..Len(b) : b2[i] = b[i]
        BY <2>6, AppendProperties
  <2> HIDE DEF b2, w
  <2>8. s \in Seq(Words) /\ Len(s) = Len(b2) + Count(c2, o)
        BY <2>5, <2>7 DEF Carries
  <2>9. ASSUME NEW i \in 1..Len(b2) PROVE s[i] = b2[i]
    <3>1. CASE i <= Len(b)
          BY <2>7, <3>1 DEF Carries
    <3>2. CASE i = Len(b) + 1
      <4>1. 1 \in 1..Count(c, o)
            BY <2>5
      <4>2. s[Len(b) + 1] = Item(c, o, 1).word
            BY <4>1 DEF Carries
      <4> QED
          BY <1>4, <2>7, <3>2, <4>2 DEF w
    <3> QED
        BY <2>7, <3>1, <3>2
  <2>10. ASSUME NEW i \in 1..Count(c2, o) PROVE s[Len(b2) + i] = Item(c2, o, i).word
    <3>1. i + 1 \in 1..Count(c, o) /\ i \in 1..(n - 1) /\ Len(b) + (i + 1) = Len(b2) + i
          BY <1>2, <2>5, <2>7
    <3>2. s[Len(b) + (i + 1)] = Item(c, o, i + 1).word
          BY <3>1 DEF Carries
    <3> QED
        BY <1>3, <3>1, <3>2
  <2> QED
      BY <2>4, <2>8, <2>9, <2>10 DEF Carries, b2, w
<1>7. ASSUME Head(c).kind # "text"
      PROVE  /\ Final(c, o) /\ Item(c, o, Size(c, o)) = Head(c)
             /\ ~Final(c2, o)
             /\ s = b
             /\ o = <<>>
             /\ Carries(s, b, c2, o)
  <2>1. n = 1
    <3>1. n > 1 => 1 \in 1..(n - 1)
          BY <1>2
    <3> QED
        BY <1>2, <1>4, <1>7, <3>1 DEF TextFirst
  <2>2. Final(c, o) /\ Item(c, o, Size(c, o)) = Head(c) /\ ~Final(c2, o)
        BY <1>2, <1>4, <1>7, <2>1 DEF Final
  <2>3. Len(o) = 0
        BY <1>1, <2>1 DEF Size
  <2>4. Count(c, o) = 0 /\ Count(c2, o) = 0
        BY <1>2, <2>1, <2>2 DEF Count
  <2>5. s \in Seq(Words) /\ Len(s) = Len(b) /\ \A i \in 1..Len(b) : s[i] = b[i]
        BY <2>4 DEF Carries
  <2>6. s = b
        BY <2>5
  <2> QED
      BY <2>2, <2>3, <2>4, <2>5, <2>6 DEF Carries
<1> QED
    BY <1>5, <1>6, <1>7 DEF c2

(* The chunks o of a line that says the words w: the word if there is one, *)
(* and at most one chunk that ends the stream.                             *)
Shape(o, w) ==
  /\ o \in Seq(Chunks) /\ w \in Seq(Words)
  /\ Len(w) \in {0, 1} /\ Len(o) \in {Len(w), Len(w) + 1}
  /\ Len(w) = 1 => o[1].kind = "text" /\ o[1].word = w[1]
  /\ Len(o) = Len(w) + 1 => o[Len(o)].kind # "text"

(* The elements of a concatenation, and the one place that a line with a   *)
(* word and an end adds before its last one.                               *)
LEMMA ConcatPoints ==
  ASSUME NEW s \in Seq(Words), NEW w \in Seq(Words)
  PROVE  /\ s \o w \in Seq(Words) /\ Len(s \o w) = Len(s) + Len(w)
         /\ \A i \in 1..Len(s) : (s \o w)[i] = s[i]
         /\ \A i \in 1..Len(w) : (s \o w)[Len(s) + i] = w[i]
  OBVIOUS

LEMMA OnePlace ==
  ASSUME NEW c \in Nat, NEW o \in Nat, NEW w \in Nat, NEW i \in Nat, i > c,
         w = 0 \/ w = 1, o = w \/ o = w + 1
  PROVE  /\ i < c + o => w = 1 /\ i = c + 1
         /\ i <= c + w => w = 1 /\ i = c + 1
         /\ w = 1 => 1 \in 1..o /\ 1 \in 1..w
  OBVIOUS

(* Decoding a line adds what it says to what is on its way. *)
LEMMA AddingKeeps ==
  ASSUME NEW c \in Seq(Chunks), TextFirst(c, <<>>), ~Final(c, <<>>),
         NEW s, NEW b \in Seq(Words), Carries(s, b, c, <<>>),
         NEW o, NEW w, Shape(o, w)
  PROVE  /\ TextFirst(c, o)
         /\ Final(c, o) <=> Len(o) = Len(w) + 1
         /\ Final(c, o) => Item(c, o, Size(c, o)) = o[Len(o)]
         /\ Carries(s \o w, b, c, o)
<1>1. /\ Len(c) \in Nat /\ Len(o) \in Nat /\ Len(w) \in Nat /\ Len(b) \in Nat
      /\ Len(w) = 0 \/ Len(w) = 1
      /\ Len(o) = Len(w) \/ Len(o) = Len(w) + 1
      BY DEF Shape
<1>2. Len(<<>>) = 0
      OBVIOUS
<1>3. Size(c, <<>>) = Len(c) /\ Size(c, o) = Len(c) + Len(o)
      BY <1>1, <1>2 DEF Size
<1>4. \A i \in 1..Len(c) : Item(c, o, i) = c[i] /\ Item(c, <<>>, i) = c[i]
      BY <1>1 DEF Item
<1>5. ASSUME NEW i \in 1..Len(o) PROVE Item(c, o, Len(c) + i) = o[i]
  <2>1. ~(Len(c) + i <= Len(c)) /\ (Len(c) + i) - Len(c) = i
        BY <1>1
  <2> QED
      BY <2>1 DEF Item
<1>6. \A i \in 1..Len(c) : c[i].kind = "text"
  <2>1. Len(c) > 0 => c[Len(c)].kind = "text"
        BY <1>1, <1>3, <1>4 DEF Final
  <2>2. \A i \in 1..(Len(c) - 1) : c[i].kind = "text"
        BY <1>1, <1>3, <1>4 DEF TextFirst
  <2> QED
      BY <1>1, <2>1, <2>2
<1>7. Count(c, <<>>) = Len(c)
      BY <1>3 DEF Count
<1>8. Len(o) > 0 => Item(c, o, Size(c, o)) = o[Len(o)]
  <2>1. Len(o) > 0 => Len(o) \in 1..Len(o)
        BY <1>1
  <2> QED
      BY <1>3, <1>5, <2>1
<1>9. Final(c, o) <=> Len(o) = Len(w) + 1
  <2>1. CASE Len(o) = Len(w) + 1
    <3>1. Len(o) > 0 /\ Size(c, o) > 0
          BY <1>1, <1>3, <2>1
    <3> QED
        BY <1>8, <2>1, <3>1 DEF Final, Shape
  <2>2. CASE Len(o) = Len(w) /\ Len(w) = 1
        BY <1>8, <2>2 DEF Final, Shape
  <2>3. CASE Len(o) = 0
    <3>1. Size(c, o) = Len(c)
          BY <1>1, <1>3, <2>3
    <3>2. Len(c) > 0 => Item(c, o, Len(c)).kind = "text"
          BY <1>1, <1>4, <1>6
    <3> QED
        BY <1>1, <2>3, <3>1, <3>2 DEF Final
  <2> QED
      BY <1>1, <2>1, <2>2, <2>3
<1>10. TextFirst(c, o)
  <2>1. ASSUME NEW i \in 1..(Size(c, o) - 1) PROVE Item(c, o, i).kind = "text"
    <3>1. CASE i <= Len(c)
          BY <1>4, <1>6, <3>1
    <3>2. CASE i > Len(c)
      <4>1. i \in Nat /\ i < Len(c) + Len(o)
            BY <1>1, <1>3
      <4>2. Len(w) = 1 /\ i = Len(c) + 1 /\ 1 \in 1..Len(o)
            BY <1>1, <3>2, <4>1, OnePlace
      <4>3. Item(c, o, i) = o[1]
            BY <1>5, <4>2
      <4> QED
          BY <4>2, <4>3 DEF Shape
    <3> QED
        BY <1>1, <3>1, <3>2
  <2> QED
      BY <2>1 DEF TextFirst
<1>11. Count(c, o) = Len(c) + Len(w)
      BY <1>1, <1>3, <1>9 DEF Count
<1>12. Carries(s \o w, b, c, o)
  <2>1. s \in Seq(Words) /\ w \in Seq(Words) /\ Len(s) = Len(b) + Len(c) /\ Len(s) \in Nat
    <3>1. s \in Seq(Words) /\ Len(s) = Len(b) + Count(c, <<>>)
          BY DEF Carries
    <3>2. w \in Seq(Words)
          BY DEF Shape
    <3>3. Len(s) = Len(b) + Len(c)
          BY <1>7, <3>1, Zenon
    <3>4. Len(s) \in Nat
          BY <3>1
    <3> QED
        BY <3>1, <3>2, <3>3, <3>4, Zenon
  <2> DEFINE t == s \o w
  <2>2. /\ t \in Seq(Words) /\ Len(t) = Len(s) + Len(w)
        /\ \A i \in 1..Len(s) : t[i] = s[i]
        /\ Len(w) = 1 => t[Len(s) + 1] = w[1]
    <3>1. Len(w) = 1 => 1 \in 1..Len(w)
          OBVIOUS
    <3> QED
        BY <2>1, <3>1, ConcatPoints
  <2> HIDE DEF t
  <2>3. Len(t) = Len(b) + Count(c, o)
        BY <1>1, <1>11, <2>1, <2>2
  <2>4. ASSUME NEW i \in 1..Len(b) PROVE t[i] = b[i]
    <3>1. i \in 1..Len(s)
          BY <1>1, <2>1
    <3> QED
        BY <2>2, <3>1 DEF Carries
  <2>5. ASSUME NEW i \in 1..Count(c, o) PROVE t[Len(b) + i] = Item(c, o, i).word
    <3>1. CASE i <= Len(c)
      <4>1. i \in 1..Count(c, <<>>) /\ Len(b) + i \in 1..Len(s)
            BY <1>1, <1>7, <2>1, <3>1
      <4>2. s[Len(b) + i] = Item(c, <<>>, i).word
            BY <4>1 DEF Carries
      <4> QED
          BY <1>4, <2>2, <3>1, <4>1, <4>2
    <3>2. CASE i > Len(c)
      <4>1. i \in Nat /\ i <= Len(c) + Len(w)
            BY <1>1, <1>11
      <4>2. Len(w) = 1 /\ i = Len(c) + 1 /\ 1 \in 1..Len(o)
            BY <1>1, <3>2, <4>1, OnePlace
      <4>3. Len(b) + i = Len(s) + 1
            BY <1>1, <2>1, <4>2
      <4>4. Item(c, o, i) = o[1]
            BY <1>5, <4>2
      <4> QED
          BY <2>2, <4>2, <4>3, <4>4 DEF Shape
    <3> QED
        BY <1>1, <1>11, <3>1, <3>2
  <2> QED
      BY <2>2, <2>3, <2>4, <2>5 DEF Carries, t
<1> QED
    BY <1>1, <1>8, <1>9, <1>10, <1>12

(* What GenerateStream sends for a line has this shape; it ends the stream *)
(* for every line that ends a body, and with Done only for such a line.    *)
LEMMA ChunksShape ==
  ASSUME NEW line \in Lines
  PROVE  /\ Shape(ChunksOf(line), WordOf(line))
         /\ Ends(line) => Len(ChunksOf(line)) = Len(WordOf(line)) + 1
         /\ /\ Len(ChunksOf(line)) = Len(WordOf(line)) + 1
            /\ ChunksOf(line)[Len(ChunksOf(line))].kind = "done"
            => Ends(line)
<1>1. Done.kind = "done" /\ Error.kind = "error"
      BY DEF Done, Error
<1>2. line.kind \in {"blank", "garbage", "end", "failure", "delta"}
      BY DEF Lines
<1>3. ChunksOf(line) \in Seq(Chunks)
      BY ChunksOfType
<1>4. CASE line.kind = "delta"
  <2> DEFINE d == DeltaText(line)
  <2>1. d # Blank => d \in Words
        BY <1>4, DeltaTextType DEF Texts
  <2>2. /\ ChunksOf(line) = (IF d # Blank THEN <<Text(d)>> ELSE <<>>)
                            \o (IF line.last THEN <<Done>> ELSE <<>>)
        /\ WordOf(line) = IF d # Blank THEN <<d>> ELSE <<>>
        /\ Ends(line) <=> line.last
        BY <1>4 DEF ChunksOf, WordOf, Ends
  <2> HIDE DEF d
  <2>3. Text(d).kind = "text" /\ Text(d).word = d
        BY DEF Text
  <2>4. CASE d # Blank /\ line.last
    <3>1. WordOf(line) = <<d>> /\ Len(ChunksOf(line)) = 2
          /\ ChunksOf(line)[1] = Text(d) /\ ChunksOf(line)[2] = Done
      <4>1. ChunksOf(line) = <<Text(d)>> \o <<Done>> /\ WordOf(line) = <<d>>
            BY <2>2, <2>4
      <4>2. <<Text(d)>> \in Seq({Text(d), Done}) /\ <<Done>> \in Seq({Text(d), Done})
            OBVIOUS
      <4>3. /\ Len(<<Text(d)>>) = 1 /\ Len(<<Done>>) = 1
            /\ <<Text(d)>>[1] = Text(d) /\ <<Done>>[1] = Done
            OBVIOUS
      <4> HIDE DEF Text, Done
      <4>4. /\ Len(<<Text(d)>> \o <<Done>>) = 2
            /\ (<<Text(d)>> \o <<Done>>)[1] = Text(d)
            /\ (<<Text(d)>> \o <<Done>>)[2] = Done
            BY <4>2, <4>3, ConcatProperties
      <4> QED
          BY <4>1, <4>4
    <3> QED
        BY <1>1, <1>3, <2>1, <2>2, <2>3, <2>4, <3>1 DEF Shape
  <2>5. CASE d # Blank /\ ~line.last
    <3>1. ChunksOf(line) = <<Text(d)>> /\ WordOf(line) = <<d>>
          BY <2>2, <2>5
    <3> QED
        BY <1>1, <1>3, <2>1, <2>2, <2>3, <2>5, <3>1 DEF Shape
  <2>6. CASE d = Blank /\ line.last
    <3>1. ChunksOf(line) = <<Done>> /\ WordOf(line) = <<>>
          BY <2>2, <2>6
    <3> QED
        BY <1>1, <1>3, <2>2, <2>6, <3>1 DEF Shape
  <2>7. CASE d = Blank /\ ~line.last
    <3>1. ChunksOf(line) = <<>> /\ WordOf(line) = <<>>
          BY <2>2, <2>7
    <3> QED
        BY <1>1, <1>3, <2>2, <2>7, <3>1 DEF Shape
  <2> QED
      BY <2>4, <2>5, <2>6, <2>7
<1>5. CASE line.kind # "delta"
  <2>1. WordOf(line) = <<>> /\ (Ends(line) <=> line.kind \in {"end", "garbage"})
        BY <1>5 DEF WordOf, Ends
  <2>2. CASE ChunksOf(line) = <<Error>>
        BY <1>1, <1>3, <2>1, <2>2 DEF Shape
  <2>3. CASE ChunksOf(line) = <<Done>> /\ line.kind = "end"
        BY <1>1, <1>3, <2>1, <2>3 DEF Shape
  <2>4. CASE ChunksOf(line) = <<>> /\ line.kind \in {"blank", "failure"}
        BY <1>1, <1>3, <2>1, <2>4 DEF Shape
  <2> QED
      BY <1>2, <1>5, <2>2, <2>3, <2>4 DEF ChunksOf
<1> QED
    BY <1>4, <1>5

-----------------------------------------------------------------------------
(* From the body to the recorded answer.                                   *)

(* The lines that have been read. *)
Read == Len(body) - Len(wire)

WireIsRest ==
  /\ Len(wire) <= Len(body)
  /\ \A i \in 1..Len(wire) : wire[i] = body[Read + i]

(* A chunk that ends the stream is the last one, and the goroutine sends   *)
(* it and returns.                                                         *)
OneFinal ==
  /\ TextFirst(ch, outbox)
  /\ reader \in {"none", "scan"} => outbox = <<>> /\ ~Final(ch, outbox)
  /\ reader = "none" => Read = 0
  /\ handler \in {"metadata", "call"} => reader = "none"

(* Nothing is read beyond the end marker. *)
EndsOnce ==
  /\ \A i \in 1..(Read - 1) : ~Ends(body[i])
  /\ Read > 0 /\ Ends(body[Read]) => /\ reader # "scan"
                                     /\ reader = "send" => Final(ch, outbox)

(* No word that was read is lost, repeated or moved. *)
Carried == Carries(Said(body)[Read], builder, ch, outbox)

(* Done is sent at the end of the body, or when nobody needs the answer. *)
Excused == ~connected \/ handler \notin Working
DoneIsTrue ==
  /\ ctx = "canceled" => Excused
  /\ Final(ch, outbox) /\ Item(ch, outbox, Size(ch, outbox)).kind = "done"
     => IsLastLine(body, Read) \/ Excused

(* The mock's text has no end marker. *)
MockNeverEnds == provider = "mock" => \A i \in DOMAIN body : ~Ends(body[i])

(* The inductive invariant, beside IInv. *)
FlowInv == /\ WireIsRest
           /\ OneFinal
           /\ EndsOnce
           /\ Carried
           /\ DoneIsTrue
           /\ MockNeverEnds
           /\ ShortOnlyForAbsentClients

(* A line is read. *)
LEMMA LineRead ==
  ASSUME Typed, WireIsRest, wire # <<>>, wire' = Tail(wire), body' = body
  PROVE  /\ Read \in Nat /\ Read + 1 \in 1..Len(body) /\ Read' = Read + 1
         /\ Head(wire) = body[Read + 1] /\ Head(wire) \in Lines
         /\ WireIsRest'
         /\ Said(body)[Read + 1] = Said(body)[Read] \o WordOf(body[Read + 1])
<1>1. body \in Seq(Lines) /\ wire \in Seq(Lines) /\ Len(body) \in Nat /\ Len(wire) \in Nat
      BY DEF Typed
<1>2. /\ Head(wire) = wire[1] /\ wire[1] \in Lines /\ Len(wire) > 0
      /\ Tail(wire) \in Seq(Lines) /\ Len(Tail(wire)) = Len(wire) - 1
      /\ \A i \in 1..Len(Tail(wire)) : Tail(wire)[i] = wire[i + 1]
      BY <1>1, HeadTailProperties
<1>3. Read \in Nat /\ Read + 1 \in 1..Len(body) /\ Read' = Read + 1
      BY <1>1, <1>2 DEF Read, WireIsRest
<1>4. 1 \in 1..Len(wire)
      BY <1>1, <1>2
<1>5. Head(wire) = body[Read + 1]
      BY <1>2, <1>4 DEF WireIsRest
<1>6. WireIsRest'
  <2>1. ASSUME NEW i \in 1..Len(wire') PROVE wire'[i] = body'[Read' + i]
    <3>1. i + 1 \in 1..Len(wire) /\ wire'[i] = wire[i + 1]
          BY <1>1, <1>2
    <3>2. Read + (i + 1) = Read' + i
          BY <1>3
    <3> QED
        BY <3>1, <3>2 DEF WireIsRest
  <2>2. Len(wire') <= Len(body')
        BY <1>1, <1>2 DEF WireIsRest
  <2> QED
      BY <2>1, <2>2 DEF WireIsRest
<1>7. Said(body)[Read + 1] = Said(body)[Read] \o WordOf(body[Read + 1])
  <2>1. (Read + 1) - 1 = Read
        BY <1>3
  <2> QED
      BY <1>1, <1>3, <2>1, SaidUnrolls
<1> QED
    BY <1>2, <1>3, <1>5, <1>6, <1>7

(* A frame for the parts that the goroutine does not touch. *)
LEMMA ReaderFrame ==
  ASSUME UNCHANGED requestVars, FlowInv
  PROVE  /\ body' = body /\ builder' = builder /\ handler' = handler /\ ctx' = ctx
         /\ provider' = provider
         /\ Excused' <=> Excused
         /\ MockNeverEnds' /\ ShortOnlyForAbsentClients'
  BY DEF requestVars, exchangeVars, answerVars, clientVars, FlowInv, Excused, MockNeverEnds,
     ShortOnlyForAbsentClients

(* The goroutine has the last chunk to send. *)
LEMMA FinalChunk ==
  ASSUME IInv, FlowInv, UNCHANGED requestVars, UNCHANGED <<wire, ch>>,
         reader = "scan", reader' = "send",
         NEW x \in {Done, Error}, outbox' = <<x>>,
         x = Done => IsLastLine(body, Read) \/ Excused
  PROVE  FlowInv'
<1>1. Typed /\ outbox = <<>> /\ TextFirst(ch, <<>>) /\ ~Final(ch, <<>>)
      /\ Carries(Said(body)[Read], builder, ch, <<>>)
      BY DEF IInv, FlowInv, OneFinal, Carried
<1>2. ch \in Seq(Chunks) /\ builder \in Seq(Words) /\ Said(body)[Read] \in Seq(Words)
      BY <1>1 DEF Typed, Carries
<1>3. x.kind \in {"done", "error"} /\ x \in Chunks /\ (x.kind = "done" => x = Done)
      BY DEF Done, Error, Chunks
<1>4. Shape(<<x>>, <<>>)
      BY <1>3 DEF Shape
<1>5. Len(<<x>>) = 1 /\ Len(<<>>) = 0 /\ <<x>>[1] = x
      OBVIOUS
<1>6. Said(body)[Read] \o <<>> = Said(body)[Read]
      BY <1>2
<1>7. /\ TextFirst(ch, <<x>>)
      /\ Final(ch, <<x>>)
      /\ Item(ch, <<x>>, Size(ch, <<x>>)) = x
      /\ Carries(Said(body)[Read], builder, ch, <<x>>)
  <2>1. /\ TextFirst(ch, <<x>>)
        /\ Final(ch, <<x>>) <=> Len(<<x>>) = Len(<<>>) + 1
        /\ Final(ch, <<x>>) => Item(ch, <<x>>, Size(ch, <<x>>)) = <<x>>[Len(<<x>>)]
        /\ Carries(Said(body)[Read] \o <<>>, builder, ch, <<x>>)
        BY <1>1, <1>2, <1>4, AddingKeeps, Zenon
  <2>2. Len(<<x>>) = Len(<<>>) + 1 /\ <<x>>[Len(<<x>>)] = x
        BY <1>5
  <2> QED
      BY <1>6, <2>1, <2>2, Zenon
<1>8. Read' = Read /\ WireIsRest'
      BY ReaderFrame DEF Read, WireIsRest, FlowInv
<1>9. OneFinal'
      BY <1>7, ReaderFrame DEF OneFinal, FlowInv
<1>10. EndsOnce'
      BY <1>7, <1>8, ReaderFrame DEF EndsOnce, FlowInv
<1>11. Carried'
      BY <1>7, <1>8, ReaderFrame DEF Carried
<1>12. IsLastLine(body, Read) => IsLastLine(body, Read)'
      BY <1>8, ReaderFrame DEF IsLastLine
<1>13. DoneIsTrue'
      BY <1>3, <1>7, <1>12, ReaderFrame DEF DoneIsTrue, FlowInv
<1> QED
    BY <1>8, <1>9, <1>10, <1>11, <1>13, ReaderFrame DEF FlowInv

(* Every step of the goroutine keeps the words in order. *)
LEMMA ReaderFlow ==
  ASSUME IInv, FlowInv, Reader
  PROVE  FlowInv'
<1>1. UNCHANGED requestVars
      BY ReaderStep DEF IInv
<1>2. /\ body' = body /\ builder' = builder /\ handler' = handler /\ ctx' = ctx
      /\ provider' = provider
      /\ Excused' <=> Excused
      /\ MockNeverEnds' /\ ShortOnlyForAbsentClients'
      BY <1>1, ReaderFrame
<1>3. Typed /\ WireIsRest /\ OneFinal /\ EndsOnce /\ Carried /\ DoneIsTrue
      BY DEF IInv, FlowInv
<1>4. ch \in Seq(Chunks) /\ outbox \in Seq(Chunks) /\ builder \in Seq(Words)
      BY <1>3 DEF Typed
<1>5. Len(body) \in Nat /\ Len(wire) \in Nat /\ Read \in Nat /\ body \in Seq(Lines)
      BY <1>3 DEF Typed, Read, WireIsRest
<1>6. ASSUME reader = "scan", Read + 1 \in 1..Len(body)
      PROVE  \A i \in 1..Read : ~Ends(body[i])
  <2>1. ASSUME NEW i \in 1..Read PROVE ~Ends(body[i])
    <3>1. CASE i = Read
          BY <1>3, <1>5, <1>6, <3>1 DEF EndsOnce
    <3>2. CASE i # Read
          BY <1>3, <1>5, <3>2 DEF EndsOnce
    <3> QED
        BY <3>1, <3>2
  <2> QED
      BY <2>1
<1>7. CASE ScanLine
  <2> DEFINE line == body[Read + 1]
             o == ChunksOf(line)
             w == WordOf(line)
             s == Said(body)[Read]
  <2>1. /\ reader = "scan" /\ wire # <<>> /\ wire' = Tail(wire) /\ ch' = ch
        /\ outbox = <<>>
        BY <1>3, <1>7 DEF ScanLine, OneFinal
  <2>2. /\ Read + 1 \in 1..Len(body) /\ Read' = Read + 1
        /\ Head(wire) = line /\ line \in Lines /\ WireIsRest'
        /\ Said(body)[Read + 1] = s \o w
        BY <1>2, <1>3, <2>1, LineRead
  <2>3. outbox' = o /\ reader' = IF o = <<>> THEN "scan" ELSE "send"
        BY <1>7, <2>2 DEF ScanLine
  <2>4. /\ Shape(o, w)
        /\ Ends(line) => Len(o) = Len(w) + 1
        /\ Len(o) = Len(w) + 1 /\ o[Len(o)].kind = "done" => Ends(line)
        BY <2>2, ChunksShape
  <2>5. TextFirst(ch, <<>>) /\ ~Final(ch, <<>>) /\ Carries(s, builder, ch, <<>>)
        BY <1>3, <2>1 DEF OneFinal, Carried
  <2>6. \A i \in 1..Read : ~Ends(body[i])
        BY <1>6, <2>1, <2>2
  <2> HIDE DEF line, o, w, s
  <2>7. /\ TextFirst(ch, o)
        /\ Final(ch, o) <=> Len(o) = Len(w) + 1
        /\ Final(ch, o) => Item(ch, o, Size(ch, o)) = o[Len(o)]
        /\ Carries(s \o w, builder, ch, o)
        BY <1>4, <2>4, <2>5, AddingKeeps, Zenon
  <2>8. Len(o) = Len(w) + 1 => o # <<>>
        BY <2>4 DEF Shape
  <2>9. OneFinal'
    <3>1. handler \notin {"metadata", "call"}
          BY <1>3, <2>1 DEF OneFinal
    <3>2. reader' = "scan" => o = <<>>
          BY <2>3
    <3>3. TextFirst(ch', outbox') /\ (reader' = "scan" => outbox' = <<>> /\ ~Final(ch', outbox'))
          BY <2>1, <2>3, <2>5, <2>7, <3>2
    <3>4. reader' # "none"
          BY <2>3
    <3> QED
        BY <1>2, <3>1, <3>3, <3>4 DEF OneFinal
  <2>10. EndsOnce'
    <3>1. \A i \in 1..(Read' - 1) : ~Ends(body'[i])
          BY <1>2, <1>5, <2>2, <2>6
    <3>2. Ends(body'[Read']) => reader' # "scan" /\ Final(ch', outbox')
          BY <1>2, <2>1, <2>2, <2>3, <2>4, <2>7, <2>8 DEF line
    <3> QED
        BY <3>1, <3>2 DEF EndsOnce
  <2>11. Carried'
        BY <1>2, <2>1, <2>2, <2>3, <2>7 DEF Carried
  <2>12. DoneIsTrue'
    <3>1. ASSUME Final(ch', outbox'), Item(ch', outbox', Size(ch', outbox')).kind = "done"
          PROVE  IsLastLine(body', Read')
      <4>1. Ends(line)
            BY <2>1, <2>3, <2>4, <2>7, <3>1
      <4>2. DOMAIN body = 1..Len(body)
            BY <1>5
      <4>3. \A i \in 1..(Read' - 1) : ~Ends(body[i])
            BY <1>5, <2>2, <2>6
      <4> QED
          BY <1>2, <2>2, <4>1, <4>2, <4>3 DEF IsLastLine, line
    <3> QED
        BY <1>2, <1>3, <3>1 DEF DoneIsTrue
  <2> QED
      BY <1>2, <2>2, <2>9, <2>10, <2>11, <2>12 DEF FlowInv
<1>8. CASE ScanEnds
  <2>1. /\ reader = "scan" /\ reader' = "send" /\ UNCHANGED <<wire, ch>>
        /\ wire = <<>> \/ ctx # "live"
        /\ outbox' = IF ctx = "deadline" \/ (ctx = "live" /\ ending = "error")
                     THEN <<Error>> ELSE <<Done>>
        BY <1>8 DEF ScanEnds
  <2>2. CASE outbox' = <<Error>>
    <3>1. Error # Done
      <4>1. Error.kind = "error" /\ Done.kind = "done"
            BY DEF Error, Done
      <4> QED
          BY <4>1
    <3> QED
        BY <1>1, <2>1, <2>2, <3>1, FinalChunk
  <2>3. CASE outbox' = <<Done>> /\ ctx = "canceled"
    <3>1. Excused
          BY <1>3, <2>3 DEF DoneIsTrue
    <3> QED
        BY <1>1, <2>1, <2>3, <3>1, FinalChunk
  <2>4. CASE outbox' = <<Done>> /\ wire = <<>>
    <3>1. Len(wire) = 0
          BY <2>4
    <3>2. Read = Len(body)
          BY <1>5, <3>1 DEF Read
    <3>3. IsLastLine(body, Read)
          BY <1>3, <3>2 DEF IsLastLine, EndsOnce
    <3> QED
        BY <1>1, <2>1, <2>4, <3>3, FinalChunk
  <2>5. ctx \in {"live", "canceled", "deadline"}
        BY <1>3 DEF Typed
  <2> QED
      BY <2>1, <2>2, <2>3, <2>4, <2>5
<1>9. CASE MockPart
  <2>1. reader = "scan" /\ provider = "mock" /\ outbox = <<>>
        BY <1>3, <1>9 DEF MockPart, OneFinal
  <2>2. CASE /\ wire # <<>>
             /\ ch' = Append(ch, Text(Head(wire).content))
             /\ wire' = Tail(wire)
             /\ UNCHANGED <<reader, outbox>>
    <3> DEFINE line == body[Read + 1]
               x == Text(line.content)
               w == <<line.content>>
               s == Said(body)[Read]
    <3>1. /\ Read + 1 \in 1..Len(body) /\ Read' = Read + 1
          /\ Head(wire) = line /\ line \in Lines /\ WireIsRest'
          /\ Said(body)[Read + 1] = s \o WordOf(line)
          BY <1>2, <1>3, <2>2, LineRead
    <3>2. DOMAIN body = 1..Len(body)
          BY <1>5
    <3>3. line.kind = "delta" /\ line.content # Blank /\ ~Ends(line)
          BY <2>1, <3>1, <3>2 DEF IInv, MockIsText, AllText, FlowInv, MockNeverEnds
    <3>4. WordOf(line) = w /\ line.content \in Words
          BY <3>1, <3>3, DeltaTextType DEF WordOf, DeltaText, Texts
    <3>5. x \in Chunks /\ x.kind = "text" /\ x.word = line.content
          BY <3>4 DEF Text, Chunks
    <3>6. ch' = Append(ch, x) /\ outbox' = <<>> /\ reader' = "scan"
          BY <2>1, <2>2, <3>1
    <3>7. TextFirst(ch, <<>>) /\ ~Final(ch, <<>>) /\ Carries(s, builder, ch, <<>>)
          BY <1>3, <2>1 DEF OneFinal, Carried
    <3>8. \A i \in 1..Read : ~Ends(body[i])
          BY <1>6, <2>1, <3>1
    <3> HIDE DEF x, line, s
    <3>9. Shape(<<x>>, w)
          BY <3>4, <3>5 DEF Shape
    <3>10. /\ <<x>> \in Seq(Chunks) /\ <<x>> # <<>> /\ Head(<<x>>) = x /\ Tail(<<x>>) = <<>>
           /\ Len(<<x>>) = 1 /\ Len(w) = 1 /\ 1 # 1 + 1
          BY <3>5
    <3> HIDE DEF w
    <3>11. /\ TextFirst(ch, <<x>>)
           /\ Final(ch, <<x>>) <=> Len(<<x>>) = Len(w) + 1
           /\ Carries(s \o w, builder, ch, <<x>>)
          BY <1>4, <3>7, <3>9, AddingKeeps, Zenon
    <3>12. ~Final(ch, <<x>>)
          BY <3>10, <3>11
    <3>13. /\ Final(Append(ch, Head(<<x>>)), Tail(<<x>>)) <=> Final(ch, <<x>>)
           /\ TextFirst(Append(ch, Head(<<x>>)), Tail(<<x>>))
           /\ Carries(s \o w, builder, Append(ch, Head(<<x>>)), Tail(<<x>>))
          BY <1>4, <3>10, <3>11, SendingKeeps, Zenon
    <3>14. /\ ~Final(ch', outbox') /\ TextFirst(ch', outbox')
           /\ Carries(s \o w, builder, ch', outbox')
          BY <3>6, <3>10, <3>12, <3>13, Zenon
    <3>15. OneFinal'
      <4>1. handler \notin {"metadata", "call"}
            BY <1>3, <2>1 DEF OneFinal
      <4> QED
          BY <1>2, <3>6, <3>14, <4>1 DEF OneFinal
    <3>16. EndsOnce'
      <4>1. \A i \in 1..(Read' - 1) : ~Ends(body'[i])
            BY <1>2, <1>5, <3>1, <3>8
      <4>2. ~Ends(body'[Read'])
            BY <1>2, <3>1, <3>3 DEF line
      <4> QED
          BY <4>1, <4>2 DEF EndsOnce
    <3>17. Carried'
          BY <1>2, <3>1, <3>4, <3>14 DEF Carried
    <3>18. DoneIsTrue'
          BY <1>2, <1>3, <3>14 DEF DoneIsTrue
    <3> QED
        BY <1>2, <3>1, <3>15, <3>16, <3>17, <3>18 DEF FlowInv
  <2>3. CASE outbox' = <<Error>> /\ reader' = "send" /\ UNCHANGED <<ch, wire>>
    <3>1. Error # Done
      <4>1. Error.kind = "error" /\ Done.kind = "done"
            BY DEF Error, Done
      <4> QED
          BY <4>1
    <3> QED
        BY <1>1, <2>1, <2>3, <3>1, FinalChunk
  <2>4. CASE wire = <<>> /\ outbox' = <<Done>> /\ reader' = "send" /\ UNCHANGED <<ch, wire>>
    <3>1. Len(wire) = 0
          BY <2>4
    <3>2. Read = Len(body)
          BY <1>5, <3>1 DEF Read
    <3>3. IsLastLine(body, Read)
          BY <1>3, <3>2 DEF IsLastLine, EndsOnce
    <3> QED
        BY <1>1, <2>1, <2>4, <3>3, FinalChunk
  <2> QED
      BY <1>9, <2>2, <2>3, <2>4 DEF MockPart
<1>10. CASE SendChunk
  <2> DEFINE s == Said(body)[Read]
  <2>1. /\ reader = "send" /\ outbox # <<>>
        /\ ch' = Append(ch, Head(outbox)) /\ outbox' = Tail(outbox) /\ wire' = wire
        /\ reader' = IF Head(outbox).kind # "text" THEN "closed"
                     ELSE IF outbox' = <<>> THEN "scan" ELSE "send"
        BY <1>10 DEF SendChunk, IInv, SomethingToSend
  <2>2. TextFirst(ch, outbox) /\ Carries(s, builder, ch, outbox)
        BY <1>3 DEF OneFinal, Carried
  <2> HIDE DEF s
  <2>3. LET c2 == Append(ch, Head(outbox))
            o2 == Tail(outbox)
        IN /\ Size(c2, o2) = Size(ch, outbox)
           /\ \A i \in 1..Size(ch, outbox) : Item(c2, o2, i) = Item(ch, outbox, i)
           /\ Final(c2, o2) <=> Final(ch, outbox)
           /\ TextFirst(c2, o2)
           /\ Carries(s, builder, c2, o2)
        BY <1>4, <2>1, <2>2, SendingKeeps, Zenon
  <2>4. /\ Size(ch', outbox') = Size(ch, outbox)
        /\ \A i \in 1..Size(ch, outbox) : Item(ch', outbox', i) = Item(ch, outbox, i)
        /\ Final(ch', outbox') <=> Final(ch, outbox)
        /\ TextFirst(ch', outbox')
        /\ Carries(s, builder, ch', outbox')
        BY <2>1, <2>3, Zenon
  <2>5. Read' = Read /\ WireIsRest'
        BY <1>2, <1>3, <2>1 DEF Read, WireIsRest
  <2>6. Size(ch, outbox) \in Nat /\ Size(ch, outbox) > 0 /\ Len(outbox) > 0
        BY <1>4, <2>1 DEF Size
  <2>7. reader' = "scan" => outbox' = <<>> /\ ~Final(ch, outbox)
    <3> SUFFICES ASSUME reader' = "scan" PROVE outbox' = <<>> /\ ~Final(ch, outbox)
        OBVIOUS
    <3>1. Head(outbox).kind = "text" /\ outbox' = <<>>
          BY <2>1
    <3>2. Len(outbox) = 1 /\ Head(outbox) = outbox[1]
      <4>1. Len(outbox) \in Nat /\ Len(Tail(outbox)) = Len(outbox) - 1 /\ Head(outbox) = outbox[1]
            BY <1>4, <2>1, HeadTailProperties
      <4>2. Tail(outbox) = <<>>
            BY <2>1, <3>1, Zenon
      <4>3. Len(<<>>) = 0
            OBVIOUS
      <4>4. Len(Tail(outbox)) = 0
            BY <4>2, <4>3, Zenon
      <4> QED
          BY <4>1, <4>4
    <3>3. Item(ch, outbox, Size(ch, outbox)) = outbox[1]
      <4>1. Size(ch, outbox) = Len(ch) + 1 /\ Len(ch) \in Nat
            BY <1>4, <3>2 DEF Size
      <4>2. ~(Len(ch) + 1 <= Len(ch)) /\ (Len(ch) + 1) - Len(ch) = 1
            BY <4>1
      <4> QED
          BY <4>1, <4>2 DEF Item
    <3> QED
        BY <3>1, <3>2, <3>3 DEF Final
  <2>8. OneFinal'
    <3>1. handler \notin {"metadata", "call"} /\ reader' # "none"
          BY <1>3, <2>1 DEF OneFinal
    <3> QED
        BY <1>2, <2>4, <2>7, <3>1 DEF OneFinal
  <2>9. EndsOnce'
    <3>1. Read > 0 /\ Ends(body[Read]) => Final(ch, outbox)
          BY <1>3, <2>1 DEF EndsOnce
    <3> QED
        BY <1>2, <1>3, <2>4, <2>5, <2>7, <3>1 DEF EndsOnce
  <2>10. Carried'
        BY <1>2, <2>4, <2>5 DEF Carried, s
  <2>11. DoneIsTrue'
    <3>1. Size(ch, outbox) \in 1..Size(ch, outbox)
          BY <2>6
    <3>2. Item(ch', outbox', Size(ch', outbox')) = Item(ch, outbox, Size(ch, outbox))
          BY <2>4, <3>1
    <3>3. IsLastLine(body, Read) => IsLastLine(body', Read')
          BY <1>2, <2>5
    <3> QED
        BY <1>2, <1>3, <2>4, <3>2, <3>3 DEF DoneIsTrue
  <2> QED
      BY <1>2, <2>5, <2>8, <2>9, <2>10, <2>11 DEF FlowInv
<1> QED
    BY <1>7, <1>8, <1>9, <1>10 DEF Reader

(* The request's goroutine takes what is on its way in order, and records  *)
(* an answer only when all of it has arrived.                              *)
LEMMA HandlerFlow ==
  ASSUME IInv, FlowInv, Handler \/ Disconnect \/ Deadline
  PROVE  FlowInv'
<1>1. UNCHANGED <<exchangeVars, wire, outbox>>
      BY HandlerFrame
<1>2. /\ body' = body /\ mode' = mode /\ provider' = provider /\ wire' = wire /\ outbox' = outbox
      BY <1>1 DEF exchangeVars
<1>3. Typed /\ Progress /\ WireIsRest /\ OneFinal /\ EndsOnce /\ Carried /\ DoneIsTrue
      /\ ShortOnlyForAbsentClients
      BY DEF IInv, FlowInv
<1>4. Read' = Read /\ WireIsRest' /\ MockNeverEnds'
      BY <1>2 DEF Read, WireIsRest, MockNeverEnds, FlowInv
<1>5. Excused => Excused'
  <2>1. connected' => connected
        BY Zenon DEF Handler, ShowMetadata, CallFails, CallGenerate, CallStream, Receive,
           ShowChunk, Answer, Disconnect, Deadline, clientVars
  <2>2. handler' \in Working => handler \in Working
        BY DEF Handler, ShowMetadata, CallFails, CallGenerate, CallStream, Receive,
           ShowChunk, Answer, Disconnect, Deadline, Working
  <2> QED
      BY <2>1, <2>2 DEF Excused
<1>6. ctx' = "canceled" => Excused'
  <2>1. \/ ctx' = ctx
        \/ handler' \in {"succeeded", "failed"}
        \/ ~connected'
        \/ ctx' = "deadline"
        BY Zenon DEF Handler, ShowMetadata, CallFails, CallGenerate, CallStream, Receive,
           ShowChunk, Answer, Disconnect, Deadline, Succeed, Fail
  <2> QED
      BY <1>3, <1>5, <2>1 DEF DoneIsTrue, Excused, Working
<1>7. handler' \in {"metadata", "call"} => handler \in {"metadata", "call"} /\ reader' = reader
      BY DEF Handler, ShowMetadata, CallFails, CallGenerate, CallStream, Receive,
         ShowChunk, Answer, Disconnect, Deadline, Succeed, Fail, readerVars
<1>8. \/ reader' = reader
      \/ reader = "none" /\ reader' = "scan"
      BY <1>3 DEF Handler, ShowMetadata, CallFails, CallGenerate, CallStream, Receive,
         ShowChunk, Answer, Disconnect, Deadline, readerVars, OneFinal
<1>9. ASSUME ~Receive PROVE FlowInv'
  <2>1. ch' = ch /\ builder' = builder
        BY <1>9 DEF Handler, ShowMetadata, CallFails, CallGenerate, CallStream,
           ShowChunk, Answer, Disconnect, Deadline, answerVars
  <2>2. OneFinal'
        BY <1>2, <1>3, <1>4, <1>7, <1>8, <2>1 DEF OneFinal
  <2>3. EndsOnce'
        BY <1>2, <1>3, <1>4, <1>8, <2>1 DEF EndsOnce, OneFinal
  <2>4. Carried'
        BY <1>2, <1>3, <1>4, <2>1 DEF Carried
  <2>5. DoneIsTrue'
    <3>1. IsLastLine(body, Read) => IsLastLine(body', Read')
          BY <1>2, <1>4
    <3> QED
        BY <1>2, <1>3, <1>5, <1>6, <2>1, <3>1 DEF DoneIsTrue
  <2>6. ShortOnlyForAbsentClients'
    <3>1. connected' => connected
          BY Zenon DEF Handler, ShowMetadata, CallFails, CallGenerate, CallStream, Receive,
             ShowChunk, Answer, Disconnect, Deadline, clientVars
    <3>2. recorded' = recorded \/ mode = "json"
          BY <1>9, Zenon DEF Handler, ShowMetadata, CallFails, CallGenerate, CallStream,
             ShowChunk, Answer, Disconnect, Deadline, Fail
    <3> QED
        BY <1>2, <1>3, <3>1, <3>2 DEF ShortOnlyForAbsentClients
  <2> QED
      BY <1>4, <2>2, <2>3, <2>4, <2>5, <2>6 DEF FlowInv
<1>10. CASE Receive
  <2> DEFINE s == Said(body)[Read]
  <2>1. /\ handler = "receive" /\ ch # <<>> /\ ch' = Tail(ch)
        /\ reader' = reader /\ connected' = connected
        BY <1>10 DEF Receive, readerVars, clientVars
  <2>2. /\ ch \in Seq(Chunks) /\ outbox \in Seq(Chunks) /\ builder \in Seq(Words)
        /\ TextFirst(ch, outbox) /\ Carries(s, builder, ch, outbox)
        BY <1>3 DEF Typed, OneFinal, Carried
  <2>3. body \in Seq(Lines) /\ Read \in 0..Len(body)
        BY <1>3 DEF Typed, Read, WireIsRest
  <2>4. handler' \notin {"metadata", "call"}
        BY <1>7, <2>1
  <2> HIDE DEF s
  <2>5. /\ TextFirst(Tail(ch), outbox)
        /\ Head(ch).kind = "text" =>
             /\ Final(Tail(ch), outbox) <=> Final(ch, outbox)
             /\ Final(ch, outbox) => Item(Tail(ch), outbox, Size(Tail(ch), outbox))
                                       = Item(ch, outbox, Size(ch, outbox))
             /\ Carries(s, Append(builder, Head(ch).word), Tail(ch), outbox)
        /\ Head(ch).kind # "text" =>
             /\ Final(ch, outbox) /\ Item(ch, outbox, Size(ch, outbox)) = Head(ch)
             /\ ~Final(Tail(ch), outbox)
             /\ s = builder
             /\ outbox = <<>>
             /\ Carries(s, builder, Tail(ch), outbox)
        BY <2>1, <2>2, TakingKeeps, Zenon
  <2>6. CASE Head(ch).kind = "text"
    <3>1. builder' = Append(builder, Head(ch).word) /\ recorded' = recorded
          BY <1>10, <2>6 DEF Receive
    <3>2. OneFinal'
          BY <1>2, <1>3, <1>4, <2>1, <2>4, <2>5, <2>6 DEF OneFinal
    <3>3. EndsOnce'
          BY <1>2, <1>3, <1>4, <2>1, <2>5, <2>6 DEF EndsOnce
    <3>4. Carried'
          BY <1>2, <1>4, <2>1, <2>5, <2>6, <3>1 DEF Carried, s
    <3>5. DoneIsTrue'
      <4>1. IsLastLine(body, Read) => IsLastLine(body', Read')
            BY <1>2, <1>4
      <4> QED
          BY <1>2, <1>3, <1>5, <1>6, <2>1, <2>5, <2>6, <4>1 DEF DoneIsTrue
    <3>6. ShortOnlyForAbsentClients'
          BY <1>2, <1>3, <2>1, <3>1 DEF ShortOnlyForAbsentClients
    <3> QED
        BY <1>4, <3>2, <3>3, <3>4, <3>5, <3>6 DEF FlowInv
  <2>7. CASE Head(ch).kind # "text"
    <3>1. /\ builder' = builder
          /\ \/ Head(ch).kind = "done" /\ recorded' = builder
             \/ recorded' = recorded
          BY <1>10, <2>7 DEF Receive, Succeed, Fail, answerVars
    <3>2. reader # "send"
          BY <2>5, <2>7 DEF IInv, SomethingToSend
    <3>3. OneFinal'
          BY <1>2, <1>3, <1>4, <2>1, <2>4, <2>5, <2>7 DEF OneFinal
    <3>4. EndsOnce'
          BY <1>2, <1>3, <1>4, <2>1, <3>2 DEF EndsOnce
    <3>5. Carried'
          BY <1>2, <1>4, <2>1, <2>5, <2>7, <3>1 DEF Carried, s
    <3>6. DoneIsTrue'
          BY <1>2, <1>6, <2>1, <2>5, <2>7 DEF DoneIsTrue
    <3>7. ShortOnlyForAbsentClients'
      <4>1. CASE recorded' = recorded
            BY <1>2, <1>3, <2>1, <4>1 DEF ShortOnlyForAbsentClients
      <4>2. CASE Head(ch).kind = "done" /\ recorded' = builder
        <5>1. IsLastLine(body, Read) \/ Excused
              BY <1>3, <2>5, <2>7, <4>2 DEF DoneIsTrue
        <5>2. IsLastLine(body, Read) \/ ~connected
              BY <2>1, <5>1 DEF Excused, Working
        <5>3. IsLastLine(body, Read) => VisibleWords(body) = s
              BY <2>3, LastLineIsUnique DEF s
        <5> QED
            BY <1>2, <2>1, <2>5, <2>7, <4>2, <5>2, <5>3 DEF ShortOnlyForAbsentClients
      <4> QED
          BY <3>1, <4>1, <4>2
    <3> QED
        BY <1>4, <3>3, <3>4, <3>5, <3>6, <3>7 DEF FlowInv
  <2> QED
      BY <2>6, <2>7
<1> QED
    BY <1>9, <1>10

LEMMA InitFlowInv == Init => FlowInv
<1> SUFFICES ASSUME Init PROVE FlowInv
    OBVIOUS
<1>1. /\ body \in Seq(Lines) /\ wire = body /\ ch = <<>> /\ outbox = <<>> /\ builder = <<>>
      /\ Len(body) \in Nat
      BY StreamAssumption DEF Init
<1>2. Read = 0
      BY <1>1 DEF Read
<1>3. Size(ch, outbox) = 0 /\ ~Final(ch, outbox) /\ TextFirst(ch, outbox)
  <2>1. Size(ch, outbox) = 0
        BY <1>1 DEF Size
  <2> QED
      BY <2>1 DEF Final, TextFirst
<1>4. WireIsRest
      BY <1>1, <1>2 DEF WireIsRest
<1>5. OneFinal
      BY <1>1, <1>2, <1>3 DEF OneFinal, Init
<1>6. EndsOnce
      BY <1>2 DEF EndsOnce
<1>7. Carried
  <2>1. Said(body)[0] = <<>>
        BY <1>1, SaidUnrolls
  <2>2. Count(ch, outbox) = 0 /\ Len(<<>>) = 0 /\ <<>> \in Seq(Words)
        BY <1>3 DEF Count
  <2> QED
      BY <1>1, <1>2, <2>1, <2>2 DEF Carried, Carries
<1>8. DoneIsTrue
      BY <1>3 DEF DoneIsTrue, Init
<1>9. MockNeverEnds
      BY DEF Init, MockBody, MockNeverEnds, Ends
<1>10. ShortOnlyForAbsentClients
      BY DEF Init, ShortOnlyForAbsentClients
<1> QED
    BY <1>4, <1>5, <1>6, <1>7, <1>8, <1>9, <1>10 DEF FlowInv

LEMMA FlowInvStep == IInv /\ FlowInv /\ [Next]_vars => FlowInv'
<1> SUFFICES ASSUME IInv, FlowInv, [Next]_vars PROVE FlowInv'
    OBVIOUS
<1>1. CASE Reader
      BY <1>1, ReaderFlow
<1>2. CASE Handler \/ Disconnect \/ Deadline
      BY <1>2, HandlerFlow
<1>3. CASE UNCHANGED vars
      BY <1>3 DEF vars, exchangeVars, readerVars, answerVars, clientVars, FlowInv, WireIsRest,
         OneFinal, EndsOnce, Carried, DoneIsTrue, Excused, MockNeverEnds,
         ShortOnlyForAbsentClients, Read
<1> QED
    BY <1>1, <1>2, <1>3 DEF Next

(* A streamed answer that is recorded while its client is there is all of  *)
(* what the model server said, word for word: no chunk is lost, repeated   *)
(* or reordered between the scanner, the bounded channel and the builder,  *)
(* and neither a deadline nor a failed read passes for the end of the      *)
(* stream; for every body, vocabulary and capacity of the channel.         *)
THEOREM AnswersAreComplete == Spec => []ShortOnlyForAbsentClients
<1>1. FlowInv => ShortOnlyForAbsentClients
      BY DEF FlowInv
<1> QED
    BY <1>1, InitFlowInv, FlowInvStep, Invariance, PTL DEF Spec

=============================================================================
