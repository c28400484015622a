--------------------------- MODULE TsgoClientProofs ---------------------------
(***************************************************************************)
(* Proofs about the client of the type server (TsgoClient), for any number  *)
(* of calls, methods, files and questions, with a server that may die or    *)
(* answer garbage at any moment: the two sides stay in step over pipes that *)
(* are read in pieces, what the server is told is what the provider says,   *)
(* and every step of the client is a step of the calls that TypeCalls       *)
(* promises.                                                               *)
(***************************************************************************)
EXTENDS TsgoClient, TLAPS

-----------------------------------------------------------------------------
(* The inductive invariant. *)

(* Before the process is spawned nothing has happened but refusals. *)
NotSpawned ==
  ~client.spawned =>
    /\ client.pc = "idle" /\ ~client.broken
    /\ server = "none" /\ ~stdinOpen
    /\ stdin = <<>> /\ frames = <<>> /\ work = NoCall
    /\ asking = [m \in Method |-> NoQuestion]
    /\ outcome[Init0] = NotYet
    /\ \A c \in Call : outcome[c] \in {NotYet, Failed}

(* A call that waits has not returned, and whatever it may still read, from a
   live server or a dead one, is a question or an answer to this very call. *)
Waiting ==
  Reading =>
    /\ client.spawned /\ stdinOpen
    /\ client.call \in Call /\ outcome[client.call] = NotYet
    /\ server = "up" => ~client.broken
    /\ \A i \in DOMAIN frames : frames[i] \in Questions \cup AnswersTo(client.call)

(* With no call waiting a live server has nothing to do; what did not decode
   stays in the inbox of a broken connection. *)
Quiet ==
  server = "up" /\ ~Reading =>
    /\ work = NoCall /\ stdin = <<>>
    /\ \/ frames = <<>>
       \/ client.broken /\ frames = <<Junk>>

(* A question on its way to the client, and an answer on its way back, are those
   of the open question of their method: this is what makes the method's name
   enough to tell which question an answer is about. *)
IsQuestion(f) == f.type = "Call"
IsTold(f) == f.type = "CallResponse"

Correlated ==
  server = "up" =>
    /\ work = NoCall => \A m \in Method : asking[m] = NoQuestion
    /\ \A i \in DOMAIN frames :
         IsQuestion(frames[i]) => asking[frames[i].method] = frames[i].path
    /\ \A i \in DOMAIN stdin :
         IsTold(stdin[i]) =>
           /\ asking[stdin[i].method] \in File
           /\ stdin[i].value = Answer(asking[stdin[i].method])

(* ... and there is one of the two at most. *)
OneOfEach ==
  server = "up" =>
    /\ \A i, j \in DOMAIN frames :
         IsQuestion(frames[i]) /\ IsQuestion(frames[j]) /\ frames[i].method = frames[j].method
           => i = j
    /\ \A i, j \in DOMAIN stdin :
         IsTold(stdin[i]) /\ IsTold(stdin[j]) /\ stdin[i].method = stdin[j].method => i = j
    /\ \A i \in DOMAIN frames, j \in DOMAIN stdin :
         IsQuestion(frames[i]) /\ IsTold(stdin[j]) => frames[i].method # stdin[j].method

IInv ==
  /\ ClientTypeOK
  /\ NotSpawned
  /\ Waiting
  /\ Quiet
  /\ InStep
  /\ Correlated
  /\ OneOfEach
  /\ OurBytes

-----------------------------------------------------------------------------
(* Frames and queues of frames. *)

LEMMA QuestionKind ==
  ASSUME NEW f \in Questions
  PROVE  /\ IsQuestion(f) /\ f # Junk
         /\ f.method \in Method /\ f.path \in File
BY DEF Questions, Question, IsQuestion, Junk

LEMMA QuestionParts ==
  ASSUME NEW m \in Method, NEW p \in File
  PROVE  /\ Question(m, p) \in Questions /\ IsQuestion(Question(m, p))
         /\ Question(m, p).method = m /\ Question(m, p).path = p
BY DEF Questions, Question, IsQuestion

LEMMA AnswerKind ==
  ASSUME NEW c, NEW f \in AnswersTo(c)
  PROVE  ~IsQuestion(f) /\ (f.type = "Response" => f.of = c)
<1>1. f \in {Response(c), Error(c), Unparsed(c), Junk, Stray}
  BY DEF AnswersTo
<1> QED BY <1>1 DEF Response, Error, Unparsed, Junk, Stray, IsQuestion

LEMMA OutboundKinds ==
  /\ \A c : Request(c).type = "Request" /\ Request(c).of = c /\ ~IsTold(Request(c))
  /\ \A m, v : IsTold(Told(m, v)) /\ Told(m, v).type = "CallResponse"
                 /\ Told(m, v).method = m /\ Told(m, v).value = v
  /\ \A f \in Outbound : f.type = "Request" => f.of \in Call /\ f = Request(f.of)
  /\ \A f \in Outbound : IsTold(f) => f.method \in Method /\ f.value \in {"ours", "null"}
BY DEF Request, Told, Outbound, IsTold

LEMMA InboundKinds ==
  ASSUME NEW f \in Inbound
  PROVE  /\ IsQuestion(f) <=> f \in Questions
         /\ IsQuestion(f) => f.method \in Method /\ f.path \in File
<1>1. CASE f \in Questions
  BY <1>1, QuestionKind
<1>2. CASE f \notin Questions
  <2>1. PICK c \in Call : f \in AnswersTo(c)
    BY <1>2 DEF Inbound
  <2> QED BY <1>2, <2>1, AnswerKind
<1> QED BY <1>1, <1>2

LEMMA Popped ==
  ASSUME NEW S, NEW s \in Seq(S), s # <<>>
  PROVE  /\ Len(s) \in Nat /\ Len(s) >= 1 /\ 1 \in DOMAIN s
         /\ Head(s) = s[1] /\ Head(s) \in S
         /\ Tail(s) \in Seq(S) /\ Len(Tail(s)) = Len(s) - 1
         /\ \A i \in DOMAIN Tail(s) : i \in Nat \ {0} /\ i + 1 \in DOMAIN s /\ Tail(s)[i] = s[i + 1]
OBVIOUS

LEMMA Pushed ==
  ASSUME NEW S, NEW s \in Seq(S), NEW x \in S
  PROVE  /\ Append(s, x) \in Seq(S)
         /\ Len(s) \in Nat /\ Len(Append(s, x)) = Len(s) + 1
         /\ \A i \in DOMAIN s : i \in DOMAIN Append(s, x) /\ Append(s, x)[i] = s[i]
         /\ Len(s) + 1 \in DOMAIN Append(s, x) /\ Append(s, x)[Len(s) + 1] = x
         /\ Len(s) + 1 \notin DOMAIN s
         /\ \A i \in DOMAIN Append(s, x) : i \in DOMAIN s \/ i = Len(s) + 1
OBVIOUS

LEMMA Elements ==
  ASSUME NEW S, NEW s \in Seq(S)
  PROVE  \A i \in DOMAIN s : s[i] \in S
OBVIOUS

LEMMA OneElement ==
  ASSUME NEW x
  PROVE  /\ Append(<<>>, x) = <<x>> /\ Tail(<<x>>) = <<>> /\ Head(<<x>>) = x
         /\ DOMAIN <<x>> = {1} /\ <<x>>[1] = x /\ <<x>> # <<>>
OBVIOUS

LEMMA EmptyDomain == DOMAIN <<>> = {}
OBVIOUS

(* The inbox. *)

LEMMA Decoded ==
  ASSUME ClientTypeOK
  PROVE  /\ decodeFrame = "Complete" => arrived >= 2 /\ frames # <<>> /\ Head(frames) # Junk
         /\ decodeFrame = "Malformed" => frames # <<>> /\ Head(frames) = Junk
<1>1. Len(frames) \in Nat /\ (frames = <<>> => Len(frames) = 0)
  BY DEF ClientTypeOK
<1>2. arrived \in Nat /\ (frames = <<>> => arrived = 0)
  BY <1>1 DEF ClientTypeOK, Halves
<1> QED BY <1>2 DEF decodeFrame

LEMMA Consumed ==
  ASSUME ClientTypeOK, decodeFrame = "Complete", consumed
  PROVE  /\ frames' \in Seq(Inbound) /\ arrived' \in 0..Halves'
         /\ cut' \in BOOLEAN /\ (cut' => cut /\ frames' # <<>>)
         /\ Head(frames) \in Inbound /\ 1 \in DOMAIN frames /\ Head(frames) = frames[1]
         /\ \A i \in DOMAIN frames' : i \in Nat \ {0} /\ i + 1 \in DOMAIN frames /\ frames'[i] = frames[i + 1]
<1>1. frames # <<>> /\ arrived >= 2
  BY Decoded
<1>2. frames \in Seq(Inbound) /\ arrived \in 0..Halves /\ cut \in BOOLEAN
  BY DEF ClientTypeOK
<1>3. /\ Len(frames) \in Nat /\ 1 \in DOMAIN frames /\ Head(frames) = frames[1]
      /\ Head(frames) \in Inbound /\ Tail(frames) \in Seq(Inbound)
      /\ Len(Tail(frames)) = Len(frames) - 1
      /\ \A i \in DOMAIN Tail(frames) :
           i \in Nat \ {0} /\ i + 1 \in DOMAIN frames /\ Tail(frames)[i] = frames[i + 1]
  BY <1>1, <1>2, Popped
<1>4. frames' = Tail(frames) /\ arrived' = arrived - 2 /\ cut' = cut
  BY DEF consumed
<1>5. arrived' \in 0..Halves'
  <2>1. Halves' = 2 * Len(Tail(frames)) - (IF cut THEN 1 ELSE 0)
    BY <1>4 DEF Halves
  <2>2. Halves = 2 * Len(frames) - (IF cut THEN 1 ELSE 0)
    BY DEF Halves
  <2> QED BY <1>1, <1>2, <1>3, <1>4, <2>1, <2>2
<1>6. cut => Tail(frames) # <<>>
  <2> SUFFICES ASSUME cut, Tail(frames) = <<>> PROVE FALSE
    OBVIOUS
  <2>0. \A s : s = <<>> => Len(s) = 0
    OBVIOUS
  <2>1. Len(frames) = 1
    <3>1. Len(Tail(frames)) = 0
      BY <2>0
    <3>2. Len(Tail(frames)) = Len(frames) - 1 /\ Len(frames) \in Nat
      BY <1>3
    <3> HIDE <2>0
    <3> QED BY <3>1, <3>2
  <2>2. Halves = 1
    BY <2>1 DEF Halves
  <2> QED BY <1>1, <1>2, <2>2
<1> QED BY <1>2, <1>3, <1>4, <1>5, <1>6

LEMMA Said ==
  ASSUME ClientTypeOK, server = "up", NEW f \in Inbound, Says(f)
  PROVE  /\ frames' \in Seq(Inbound) /\ arrived' \in 0..Halves' /\ cut' = FALSE
         /\ frames' = Append(frames, f)
<1>1. frames \in Seq(Inbound) /\ arrived \in 0..Halves /\ cut = FALSE
  BY DEF ClientTypeOK
<1>2. frames' = Append(frames, f) /\ arrived' = arrived /\ cut' = cut
  BY DEF Says
<1>3. /\ Append(frames, f) \in Seq(Inbound)
      /\ Len(frames) \in Nat /\ Len(Append(frames, f)) = Len(frames) + 1
  BY <1>1, Pushed
<1>4. Halves = 2 * Len(frames) /\ Halves' = 2 * (Len(frames) + 1)
  BY <1>1, <1>2, <1>3 DEF Halves
<1> QED BY <1>1, <1>2, <1>3, <1>4

LEMMA Settled ==
  ASSUME ClientTypeOK, client.call \in Call,
         NEW o \in Call \cup {Failed}, NEW breaks \in BOOLEAN, settled(o, breaks)
  PROVE  /\ client' \in [pc : {"idle", "reading", "stopping", "killed"}, call : Call \cup {NoCall},
                         spawned : BOOLEAN, broken : BOOLEAN, reaped : BOOLEAN]
         /\ client'.pc \in {"idle", "stopping"} /\ client'.spawned = client.spawned
         /\ client'.broken = (client.broken \/ breaks)
         /\ outcome' \in [Call -> Call \cup {NotYet, Failed}]
         /\ outcome' = [outcome EXCEPT ![client.call] = o]
BY DEF ClientTypeOK, settled

(* What a waiting call of a live server has before it. *)

LEMMA AnswerIsLast ==
  ASSUME ClientTypeOK, InStep, Reading, server = "up", client.call \in Call,
         frames # <<>>, ~IsQuestion(Head(frames))
  PROVE  work = NoCall /\ stdin = <<>> /\ frames = <<Head(frames)>>
<1>1. frames[1] = Head(frames) /\ 1 \in DOMAIN frames
  BY Popped DEF ClientTypeOK
<1>2. ~(\A i \in DOMAIN frames : frames[i] \in Questions)
  BY <1>1, QuestionKind
<1>3. work = NoCall /\ stdin = <<>> /\ \E f \in AnswersTo(client.call) : frames = <<f>>
  BY <1>2 DEF InStep
<1> QED BY <1>3, OneElement

LEMMA QuestionMeansServed ==
  ASSUME ClientTypeOK, InStep, Reading, server = "up", client.call \in Call,
         frames # <<>>, IsQuestion(Head(frames))
  PROVE  /\ work = client.call
         /\ \A i \in DOMAIN stdin : stdin[i].type = "CallResponse"
         /\ \A i \in DOMAIN frames : frames[i] \in Questions
<1>1. ~(\E f \in AnswersTo(client.call) : frames = <<f>>)
  BY AnswerKind, OneElement
<1> QED BY <1>1 DEF InStep

LEMMA CallIsNoSentinel ==
  NoCall \notin Call /\ NotYet \notin Call /\ Failed \notin Call /\ NotYet # Failed /\ Init0 \in Call
BY CallAssumption

-----------------------------------------------------------------------------
(* Type correctness of one step. *)

LEMMA TypeStep == IInv /\ [ClientNext]_clientVars => ClientTypeOK'
<1> SUFFICES ASSUME IInv, [ClientNext]_clientVars PROVE ClientTypeOK'
  OBVIOUS
<1> USE CallIsNoSentinel
<1>0. ClientTypeOK /\ Waiting
  BY DEF IInv
<1>a. ASSUME UNCHANGED stdout, server' = server PROVE
        /\ frames' \in Seq(Inbound) /\ arrived' \in 0..Halves'
        /\ cut' \in BOOLEAN /\ (cut' => server' = "gone" /\ frames' # <<>>)
  BY <1>0, <1>a DEF ClientTypeOK, Halves, stdout
<1>b. ASSUME NEW c \in Call, wrote(Request(c)) PROVE stdin' \in Seq(Outbound)
  BY <1>0, <1>b, Pushed DEF ClientTypeOK, wrote, Outbound
<1>1. CASE start
  <2>1. /\ client' = [client EXCEPT !.spawned = TRUE, !.pc = "reading", !.call = Init0]
        /\ server' = "up" /\ stdinOpen' = TRUE /\ wrote(Request(Init0))
        /\ UNCHANGED <<outcome, work, asks, asking, heard, frames, arrived, cut>>
    BY <1>1 DEF start, spawned, stdout
  <2>2. ~cut
    BY <1>1, <1>0 DEF IInv, NotSpawned, start, spawned, ClientTypeOK
  <2> QED BY <1>0, <1>b, <2>1, <2>2 DEF ClientTypeOK, Halves
<1>2. ASSUME NEW c \in Call, callRaw(c) PROVE ClientTypeOK'
  <2>1. /\ client' \in [pc : {"idle", "reading", "stopping", "killed"}, call : Call \cup {NoCall},
                       spawned : BOOLEAN, broken : BOOLEAN, reaped : BOOLEAN]
        /\ outcome' \in [Call -> Call \cup {NotYet, Failed}]
    <3>1. client' \in [pc : {"idle", "reading", "stopping", "killed"}, call : Call \cup {NoCall},
                       spawned : BOOLEAN, broken : BOOLEAN, reaped : BOOLEAN]
      BY <1>0, <1>2 DEF ClientTypeOK, callRaw
    <3>2. outcome' \in [Call -> Call \cup {NotYet, Failed}]
      BY <1>0, <1>2 DEF ClientTypeOK, callRaw
    <3> QED BY <3>1, <3>2
  <2>2. stdin' \in Seq(Outbound)
    BY <1>0, <1>2, <1>b DEF callRaw, ClientTypeOK
  <2>3. UNCHANGED <<server, work, asks, asking, heard, stdinOpen>> /\ UNCHANGED stdout
    BY <1>2 DEF callRaw, serverSide
  <2> QED BY <1>0, <1>a, <2>1, <2>2, <2>3 DEF ClientTypeOK
<1>3. ASSUME NEW c \in Call, refused(c) PROVE ClientTypeOK'
  <2>1. outcome' \in [Call -> Call \cup {NotYet, Failed}]
    BY <1>0, <1>3 DEF ClientTypeOK, refused
  <2>2. UNCHANGED <<client, server, work, asks, asking, heard, stdinOpen, stdin>> /\ UNCHANGED stdout
    BY <1>3 DEF refused, serverSide
  <2> QED BY <1>0, <1>a, <2>1, <2>2 DEF ClientTypeOK
<1>4. CASE stop
  BY <1>0, <1>4, <1>a DEF ClientTypeOK, stop, serverSide
<1>5. CASE read
  BY <1>0, <1>5 DEF ClientTypeOK, read, serverSide, Halves
<1>6. CASE readEnd \/ malformed
  <2>1. client.call \in Call
    BY <1>0, <1>6 DEF Waiting, readEnd, malformed
  <2>2. settled(Failed, TRUE)
    BY <1>6 DEF readEnd, malformed
  <2>3. UNCHANGED <<server, work, asks, asking, heard, stdinOpen, stdin>> /\ UNCHANGED stdout
    BY <1>6 DEF readEnd, malformed, serverSide
  <2> QED BY <1>0, <1>a, <2>1, <2>2, <2>3, Settled DEF ClientTypeOK
<1>7. CASE answerCallback
  <2>1. /\ frames' \in Seq(Inbound) /\ arrived' \in 0..Halves'
        /\ cut' \in BOOLEAN /\ (cut' => cut /\ frames' # <<>>)
        /\ Head(frames) \in Inbound
    BY <1>0, <1>7, Consumed DEF answerCallback
  <2>2. Head(frames).method \in Method
    BY <1>7, <2>1, InboundKinds DEF answerCallback, IsQuestion
  <2>3. reply(Head(frames)) \in Outbound
    BY <2>2 DEF reply, Outbound, Answer
  <2>4. stdin' \in Seq(Outbound)
    <3>1. stdin \in Seq(Outbound) /\ Append(stdin, reply(Head(frames))) \in Seq(Outbound)
      BY <1>0, <2>3, Pushed DEF ClientTypeOK
    <3>2. stdin' = stdin \/ stdin' = Append(stdin, reply(Head(frames)))
      BY <1>7 DEF answerCallback, wrote
    <3> QED BY <3>1, <3>2
  <2>5. client' \in [pc : {"idle", "reading", "stopping", "killed"}, call : Call \cup {NoCall},
                     spawned : BOOLEAN, broken : BOOLEAN, reaped : BOOLEAN]
    BY <1>0, <1>7 DEF answerCallback, ClientTypeOK
  <2>6. UNCHANGED <<outcome, server, work, asks, asking, heard, stdinOpen>>
    BY <1>7 DEF answerCallback, serverSide
  <2> QED BY <1>0, <2>1, <2>4, <2>5, <2>6 DEF ClientTypeOK
<1>8. CASE receive
  <2>1. /\ frames' \in Seq(Inbound) /\ arrived' \in 0..Halves'
        /\ cut' \in BOOLEAN /\ (cut' => cut /\ frames' # <<>>)
        /\ Head(frames) = frames[1] /\ 1 \in DOMAIN frames
    BY <1>0, <1>8, Consumed DEF receive
  <2>2. client.call \in Call /\ frames[1] \in Questions \cup AnswersTo(client.call)
    BY <1>0, <1>8, <2>1 DEF Waiting, receive
  <2>3. Head(frames) \in AnswersTo(client.call)
    BY <1>8, <2>1, <2>2, QuestionKind DEF receive, IsQuestion
  <2>4. \E o \in Call \cup {Failed}, b \in BOOLEAN : settled(o, b)
    <3>1. Head(frames).type = "Response" => Head(frames).of = client.call
      BY <2>3, AnswerKind
    <3>2. CASE Head(frames).type = "Response"
      BY <1>8, <2>2, <3>1, <3>2 DEF receive
    <3>3. CASE Head(frames).type \in {"Error", "Unparsed"}
      BY <1>8, <3>3 DEF receive
    <3>4. CASE Head(frames).type \notin {"Response", "Error", "Unparsed"}
      BY <1>8, <3>4 DEF receive
    <3> QED BY <3>2, <3>3, <3>4
  <2>5. UNCHANGED <<server, work, asks, asking, heard, stdinOpen, stdin>>
    BY <1>8 DEF receive, serverSide
  <2> QED BY <1>0, <2>1, <2>2, <2>4, <2>5, Settled DEF ClientTypeOK
<1>9. CASE closeStdin
  BY <1>0, <1>9, <1>a DEF ClientTypeOK, closeStdin, serverSide
<1>10. CASE kill
  BY <1>0, <1>10 DEF ClientTypeOK, kill, stdout, Halves
<1>11. CASE wait
  BY <1>0, <1>11, <1>a DEF ClientTypeOK, wait, serverSide
<1>12. CASE ServerTakes
  <2>1. stdin # <<>> /\ Head(stdin).type = "Request" /\ work' = Head(stdin).of
        /\ stdin' = Tail(stdin)
    BY <1>12 DEF ServerTakes
  <2>2. Head(stdin) \in Outbound /\ Tail(stdin) \in Seq(Outbound)
    BY <1>0, <2>1, Popped DEF ClientTypeOK
  <2>3. work' \in Call
    BY <2>1, <2>2, OutboundKinds
  <2>4. asks' = 0 /\ heard' = [p \in File |-> "nothing"]
        /\ UNCHANGED <<client, outcome, server, asking, stdinOpen>> /\ UNCHANGED stdout
    BY <1>12 DEF ServerTakes
  <2> QED BY <1>0, <1>a, <2>1, <2>2, <2>3, <2>4, AsksAssumption DEF ClientTypeOK
<1>13. ASSUME NEW m \in Method, NEW p \in File, ServerAsks(m, p) PROVE ClientTypeOK'
  <2>1. Question(m, p) \in Inbound
    BY QuestionParts DEF Inbound
  <2>2. frames' \in Seq(Inbound) /\ arrived' \in 0..Halves' /\ cut' = FALSE
    BY <1>0, <1>13, <2>1, Said DEF ServerAsks
  <2>3. asks' \in 0..MaxAsks /\ asking' \in [Method -> File \cup {NoQuestion}]
    BY <1>0, <1>13, AsksAssumption DEF ServerAsks, ClientTypeOK
  <2>4. UNCHANGED <<client, outcome, server, work, heard, stdinOpen, stdin>>
    BY <1>13 DEF ServerAsks
  <2> QED BY <1>0, <2>2, <2>3, <2>4 DEF ClientTypeOK
<1>14. CASE ServerHears
  <2>1. stdin # <<>> /\ IsTold(Head(stdin)) /\ stdin' = Tail(stdin)
    BY <1>14 DEF ServerHears, IsTold
  <2>2. Head(stdin) \in Outbound /\ Tail(stdin) \in Seq(Outbound)
    BY <1>0, <2>1, Popped DEF ClientTypeOK
  <2>3. Head(stdin).value \in {"ours", "null"}
    BY <2>1, <2>2, OutboundKinds
  <2>4. heard' \in [File -> {"nothing", "ours", "null"}]
        /\ asking' \in [Method -> File \cup {NoQuestion}]
    BY <1>0, <1>14, <2>3 DEF ServerHears, ClientTypeOK
  <2>5. UNCHANGED <<client, outcome, server, work, asks, stdinOpen>> /\ UNCHANGED stdout
    BY <1>14 DEF ServerHears
  <2> QED BY <1>0, <1>a, <2>1, <2>2, <2>4, <2>5 DEF ClientTypeOK
<1>15. CASE ServerAnswers
  <2>1. PICK f \in AnswersTo(work) : Says(f)
    BY <1>15 DEF ServerAnswers
  <2>2. work \in Call /\ server = "up"
    BY <1>0, <1>15 DEF ServerAnswers, ClientTypeOK
  <2>3. f \in Inbound
    BY <2>1, <2>2 DEF Inbound
  <2>4. frames' \in Seq(Inbound) /\ arrived' \in 0..Halves' /\ cut' = FALSE
    BY <1>0, <2>1, <2>2, <2>3, Said
  <2>5. work' = NoCall /\ UNCHANGED <<client, outcome, server, asks, asking, heard, stdinOpen, stdin>>
    BY <1>15 DEF ServerAnswers
  <2> QED BY <1>0, <2>4, <2>5 DEF ClientTypeOK
<1>16. CASE ServerExits
  <2>1. server = "up" /\ server' = "gone" /\ cut' \in {FALSE, arrived < Halves}
        /\ UNCHANGED <<client, outcome, work, asks, asking, heard, stdinOpen, stdin, frames, arrived>>
    BY <1>16 DEF ServerExits
  <2>2. ~cut /\ Len(frames) \in Nat /\ arrived \in 0..Halves
    BY <1>0, <2>1 DEF ClientTypeOK
  <2>3. Halves = 2 * Len(frames)
    BY <2>2 DEF Halves
  <2>4. CASE cut' = FALSE
    <3>1. Halves' = 2 * Len(frames)
      BY <2>1, <2>4 DEF Halves
    <3> QED BY <1>0, <2>1, <2>2, <2>3, <2>4, <3>1 DEF ClientTypeOK
  <2>5. CASE cut' = TRUE
    <3>1. Halves' = 2 * Len(frames) - 1
      BY <2>1, <2>5 DEF Halves
    <3>2. arrived < Halves
      BY <2>1, <2>5
    <3>3. arrived' \in 0..Halves'
      BY <2>1, <2>2, <2>3, <3>1, <3>2
    <3>4. frames' # <<>>
      BY <2>1, <2>2, <2>3, <3>2
    <3> QED BY <1>0, <2>1, <2>5, <3>3, <3>4 DEF ClientTypeOK
  <2>6. cut' = FALSE \/ cut' = TRUE
    BY <2>1
  <2> QED BY <2>4, <2>5, <2>6
<1>17. CASE UNCHANGED clientVars
  BY <1>0, <1>17 DEF ClientTypeOK, clientVars, Halves
<1> QED
  BY <1>1, <1>2, <1>3, <1>4, <1>5, <1>6, <1>7, <1>8, <1>9, <1>10, <1>11, <1>12, <1>13, <1>14,
     <1>15, <1>16, <1>17 DEF ClientNext, clientStep, serverStep

-----------------------------------------------------------------------------
(* The other parts of the invariant, action by action. *)

(* The call is put before a server that has nothing to do. *)
LEMMA Sent ==
  ASSUME IInv, NEW c \in Call,
         client'.pc = "reading", client'.call = c, client'.spawned, ~client'.broken, stdinOpen',
         outcome'[c] = NotYet,
         work = NoCall, stdin = <<>>, frames = <<>>, \A m \in Method : asking[m] = NoQuestion,
         stdin' = Append(stdin, Request(c)),
         UNCHANGED <<work, asking, heard, frames>>
  PROVE  NotSpawned' /\ Waiting' /\ Quiet' /\ InStep' /\ Correlated' /\ OneOfEach' /\ OurBytes'
<1>1. stdin' = <<Request(c)>> /\ frames' = <<>> /\ Reading'
  BY OneElement DEF Reading
<1>2. DOMAIN frames' = {} /\ DOMAIN stdin' = {1} /\ ~IsTold(stdin'[1])
  BY <1>1, OneElement, EmptyDomain, OutboundKinds
<1>3. NotSpawned' /\ Waiting' /\ Quiet' /\ InStep'
  BY <1>1, <1>2 DEF NotSpawned, Waiting, Quiet, InStep
<1>4. Correlated'
  BY <1>2 DEF Correlated
<1>5. OneOfEach'
  BY <1>2 DEF OneOfEach
<1>6. OurBytes'
  BY DEF IInv, OurBytes
<1> QED BY <1>3, <1>4, <1>5, <1>6

(* A step of the client alone, that leaves both pipes as they are. *)
LEMMA PipesUntouched ==
  ASSUME IInv, UNCHANGED <<server, work, asking, heard, stdin, frames>>
  PROVE  Correlated' /\ OneOfEach' /\ OurBytes'
BY DEF IInv, Correlated, OneOfEach, OurBytes

(* The server is gone. *)
LEMMA Gone ==
  ASSUME IInv, server' # "up", heard' = heard
  PROVE  Quiet' /\ InStep' /\ Correlated' /\ OneOfEach' /\ OurBytes'
BY DEF IInv, Quiet, InStep, Correlated, OneOfEach, OurBytes

(* The frame at the head of the inbox is answered. *)
LEMMA Replied ==
  ASSUME IInv, answerCallback, server = "up"
  PROVE  Waiting' /\ Quiet' /\ InStep' /\ Correlated' /\ OneOfEach'
<1> DEFINE q == Head(frames)
<1>1. ClientTypeOK /\ Waiting /\ InStep /\ Correlated /\ OneOfEach
  BY DEF IInv
<1>2. /\ Reading /\ decodeFrame = "Complete" /\ consumed /\ IsQuestion(q)
      /\ UNCHANGED <<outcome, server, work, asks, asking, heard, stdinOpen>>
  BY DEF answerCallback, IsQuestion, serverSide
<1>3. /\ q \in Inbound /\ 1 \in DOMAIN frames /\ q = frames[1]
      /\ \A i \in DOMAIN frames' : i \in Nat \ {0} /\ i + 1 \in DOMAIN frames /\ frames'[i] = frames[i + 1]
  BY <1>1, <1>2, Consumed
<1>4. client.call \in Call /\ stdinOpen
  BY <1>1, <1>2 DEF Waiting
<1>5. stdin' = Append(stdin, reply(q)) /\ client' = client
  BY <1>4 DEF answerCallback, Writable, wrote
<1>6. frames # <<>>
  BY <1>1, <1>2, Decoded
<1>7. /\ work = client.call
      /\ \A i \in DOMAIN stdin : IsTold(stdin[i])
      /\ \A i \in DOMAIN frames : frames[i] \in Questions
  BY <1>1, <1>2, <1>4, <1>6, QuestionMeansServed DEF IsTold
<1>8. /\ q.method \in Method /\ q.path \in File /\ reply(q) \in Outbound
      /\ IsTold(reply(q)) /\ reply(q).method = q.method /\ reply(q).value = Answer(q.path)
  <2>1. q.method \in Method /\ q.path \in File
    BY <1>2, <1>3, InboundKinds
  <2>2. reply(q) = Told(q.method, Answer(q.path)) /\ Answer(q.path) \in {"ours", "null"}
    BY DEF reply, Answer
  <2> HIDE DEF q
  <2> QED BY <2>1, <2>2, OutboundKinds DEF Outbound
<1>9. /\ \A i \in DOMAIN stdin : i \in DOMAIN stdin' /\ stdin'[i] = stdin[i]
      /\ Len(stdin) + 1 \in DOMAIN stdin' /\ stdin'[Len(stdin) + 1] = reply(q)
      /\ \A i \in DOMAIN stdin' : i \in DOMAIN stdin \/ i = Len(stdin) + 1
  BY <1>1, <1>5, <1>8, Pushed DEF ClientTypeOK
<1>10. asking[q.method] = q.path
  BY <1>1, <1>2, <1>3 DEF Correlated
<1> HIDE DEF q
<1>11. Waiting' /\ Reading'
  BY <1>1, <1>2, <1>3, <1>5, <1>7 DEF Waiting, Reading
<1>12. Quiet'
  BY <1>11 DEF Quiet
<1>13. InStep'
  <2>1. \A i \in DOMAIN stdin' : IsTold(stdin'[i])
    BY <1>7, <1>8, <1>9
  <2>2. \A i \in DOMAIN frames' : frames'[i] \in Questions
    BY <1>3, <1>7
  <2>3. work' = client'.call
    BY <1>2, <1>5, <1>7
  <2> QED BY <1>11, <2>1, <2>2, <2>3 DEF InStep, IsTold
<1>14. Correlated'
  <2>1. work' # NoCall
    BY <1>2, <1>4, <1>7, CallIsNoSentinel
  <2>2. ASSUME NEW i \in DOMAIN frames', IsQuestion(frames'[i])
        PROVE  asking'[frames'[i].method] = frames'[i].path
    BY <1>1, <1>2, <1>3, <2>2 DEF Correlated
  <2>3. ASSUME NEW i \in DOMAIN stdin'
        PROVE  /\ asking'[stdin'[i].method] \in File
               /\ stdin'[i].value = Answer(asking'[stdin'[i].method])
    <3>1. CASE i \in DOMAIN stdin
      BY <1>1, <1>2, <1>7, <1>9, <3>1 DEF Correlated
    <3>2. CASE i = Len(stdin) + 1
      BY <1>2, <1>8, <1>9, <1>10, <3>2
    <3> QED BY <1>9, <2>3, <3>1, <3>2
  <2> QED BY <1>2, <2>1, <2>2, <2>3 DEF Correlated
<1>15. OneOfEach'
  <2>1. ASSUME NEW i \in DOMAIN stdin PROVE stdin[i].method # q.method
    BY <1>1, <1>2, <1>3, <1>7, <2>1 DEF OneOfEach
  <2>2. ASSUME NEW i \in DOMAIN frames' PROVE IsQuestion(frames'[i]) => frames'[i].method # q.method
    <3>1. i \in Nat \ {0} /\ i + 1 \in DOMAIN frames /\ frames'[i] = frames[i + 1]
      BY <1>3, <2>2
    <3>2. i + 1 # 1
      BY <3>1
    <3> QED BY <1>1, <1>2, <1>3, <3>1, <3>2 DEF OneOfEach
  <2>3. ASSUME NEW i \in DOMAIN frames', NEW j \in DOMAIN frames',
               IsQuestion(frames'[i]), IsQuestion(frames'[j]), frames'[i].method = frames'[j].method
        PROVE  i = j
    <3>1. /\ i \in Nat \ {0} /\ i + 1 \in DOMAIN frames /\ frames'[i] = frames[i + 1]
          /\ j \in Nat \ {0} /\ j + 1 \in DOMAIN frames /\ frames'[j] = frames[j + 1]
      BY <1>3, <2>3
    <3>2. i + 1 = j + 1
      BY <1>1, <1>2, <2>3, <3>1 DEF OneOfEach
    <3> QED BY <3>1, <3>2
  <2>4. ASSUME NEW i \in DOMAIN stdin', NEW j \in DOMAIN stdin',
               stdin'[i].method = stdin'[j].method
        PROVE  i = j
    <3>1. CASE i \in DOMAIN stdin /\ j \in DOMAIN stdin
      BY <1>1, <1>2, <1>7, <1>9, <2>4, <3>1 DEF OneOfEach
    <3>2. CASE i \notin DOMAIN stdin /\ j \notin DOMAIN stdin
      BY <1>9, <2>4, <3>2
    <3>3. CASE i \in DOMAIN stdin /\ j \notin DOMAIN stdin
      BY <1>8, <1>9, <2>1, <2>4, <3>3
    <3>4. CASE i \notin DOMAIN stdin /\ j \in DOMAIN stdin
      BY <1>8, <1>9, <2>1, <2>4, <3>4
    <3> QED BY <3>1, <3>2, <3>3, <3>4
  <2>5. ASSUME NEW i \in DOMAIN frames', NEW j \in DOMAIN stdin', IsQuestion(frames'[i])
        PROVE  frames'[i].method # stdin'[j].method
    <3>1. i + 1 \in DOMAIN frames /\ frames'[i] = frames[i + 1]
      BY <1>3, <2>5
    <3>2. CASE j \in DOMAIN stdin
      BY <1>1, <1>2, <1>7, <1>9, <2>5, <3>1, <3>2 DEF OneOfEach
    <3>3. CASE j \notin DOMAIN stdin
      BY <1>8, <1>9, <2>2, <2>5, <3>3
    <3> QED BY <3>2, <3>3
  <2> QED BY <2>3, <2>4, <2>5 DEF OneOfEach
<1> QED BY <1>11, <1>12, <1>13, <1>14, <1>15

(* The server is told what it asked. *)
LEMMA Heard ==
  ASSUME IInv, ServerHears
  PROVE  Waiting' /\ Quiet' /\ InStep' /\ Correlated' /\ OneOfEach' /\ OurBytes'
<1> DEFINE a == Head(stdin)
<1>1. ClientTypeOK /\ Waiting /\ Quiet /\ InStep /\ Correlated /\ OneOfEach /\ OurBytes
  BY DEF IInv
<1>2. /\ server = "up" /\ stdin # <<>> /\ IsTold(a) /\ stdin' = Tail(stdin)
      /\ heard' = [p \in File |-> IF p = asking[a.method] THEN a.value ELSE heard[p]]
      /\ asking' = [asking EXCEPT ![a.method] = NoQuestion]
      /\ UNCHANGED <<client, outcome, server, work, stdinOpen, frames>>
  BY DEF ServerHears, IsTold, stdout
<1>3. /\ a \in Outbound /\ 1 \in DOMAIN stdin /\ a = stdin[1]
      /\ \A i \in DOMAIN stdin' : i \in Nat \ {0} /\ i + 1 \in DOMAIN stdin /\ stdin'[i] = stdin[i + 1]
  BY <1>1, <1>2, Popped DEF ClientTypeOK
<1>4. Reading /\ client.call \in Call
  BY <1>1, <1>2 DEF Quiet, Waiting
<1>5. a.method \in Method
  BY <1>2, <1>3, OutboundKinds
<1> HIDE DEF a
<1>6. asking[a.method] \in File /\ a.value = Answer(asking[a.method])
  BY <1>1, <1>2, <1>3 DEF Correlated
<1>7. asking' \in [Method -> File \cup {NoQuestion}] /\ asking \in [Method -> File \cup {NoQuestion}]
  BY <1>1, <1>2 DEF ClientTypeOK
<1>8. \A m \in Method : asking'[m] = IF m = a.method THEN NoQuestion ELSE asking[m]
  BY <1>2, <1>5, <1>7
<1>9. /\ work = client.call
      /\ \A i \in DOMAIN stdin : IsTold(stdin[i])
      /\ \A i \in DOMAIN frames : frames[i] \in Questions
  <2>1. stdin # <<Request(client.call)>>
    BY <1>2, <1>3, OneElement, OutboundKinds
  <2> QED BY <1>1, <1>2, <1>4, <2>1 DEF InStep, IsTold
<1>10. \A i \in DOMAIN stdin' : stdin'[i].method \in Method /\ stdin'[i].method # a.method
  <2> SUFFICES ASSUME NEW i \in DOMAIN stdin'
               PROVE  stdin'[i].method \in Method /\ stdin'[i].method # a.method
    OBVIOUS
  <2>1. i \in Nat \ {0} /\ i + 1 \in DOMAIN stdin /\ stdin'[i] = stdin[i + 1]
    BY <1>3
  <2>2. i + 1 # 1
    BY <2>1
  <2>3. stdin[i + 1] \in Outbound
    BY <1>1, <2>1, Elements DEF ClientTypeOK
  <2> QED BY <1>1, <1>2, <1>3, <1>9, <2>1, <2>2, <2>3, OutboundKinds DEF OneOfEach
<1>11. \A i \in DOMAIN frames : frames[i].method \in Method /\ frames[i].method # a.method
  <2> SUFFICES ASSUME NEW i \in DOMAIN frames
               PROVE  frames[i].method \in Method /\ frames[i].method # a.method
    OBVIOUS
  <2>1. IsQuestion(frames[i]) /\ frames[i].method \in Method
    BY <1>9, QuestionKind
  <2> QED BY <1>1, <1>2, <1>3, <2>1 DEF OneOfEach
<1>12. Waiting' /\ Reading'
  BY <1>1, <1>2, <1>4 DEF Waiting, Reading
<1>13. Quiet'
  BY <1>12 DEF Quiet
<1>14. InStep'
  <2>1. \A i \in DOMAIN stdin' : IsTold(stdin'[i])
    BY <1>3, <1>9
  <2> QED BY <1>2, <1>9, <1>12, <2>1 DEF InStep, IsTold
<1>15. Correlated'
  <2>1. work' # NoCall
    BY <1>2, <1>4, <1>9, CallIsNoSentinel
  <2>2. ASSUME NEW i \in DOMAIN frames
        PROVE  IsQuestion(frames[i]) => asking'[frames[i].method] = frames[i].path
    BY <1>1, <1>2, <1>8, <1>11, <2>2 DEF Correlated
  <2>3. ASSUME NEW i \in DOMAIN stdin'
        PROVE  /\ asking'[stdin'[i].method] \in File
               /\ stdin'[i].value = Answer(asking'[stdin'[i].method])
    <3>1. i + 1 \in DOMAIN stdin /\ stdin'[i] = stdin[i + 1]
      BY <1>3, <2>3
    <3> QED BY <1>1, <1>2, <1>8, <1>9, <1>10, <2>3, <3>1 DEF Correlated
  <2> QED BY <1>2, <2>1, <2>2, <2>3 DEF Correlated
<1>16. OneOfEach'
  <2>1. ASSUME NEW i \in DOMAIN stdin', NEW j \in DOMAIN stdin',
               stdin'[i].method = stdin'[j].method
        PROVE  i = j
    <3>1. /\ i \in Nat \ {0} /\ i + 1 \in DOMAIN stdin /\ stdin'[i] = stdin[i + 1]
          /\ j \in Nat \ {0} /\ j + 1 \in DOMAIN stdin /\ stdin'[j] = stdin[j + 1]
      BY <1>3, <2>1
    <3>2. i + 1 = j + 1
      BY <1>1, <1>2, <1>9, <2>1, <3>1 DEF OneOfEach
    <3> QED BY <3>1, <3>2
  <2>2. ASSUME NEW i \in DOMAIN frames, NEW j \in DOMAIN stdin', IsQuestion(frames[i])
        PROVE  frames[i].method # stdin'[j].method
    <3>1. j + 1 \in DOMAIN stdin /\ stdin'[j] = stdin[j + 1]
      BY <1>3, <2>2
    <3> QED BY <1>1, <1>2, <1>9, <2>2, <3>1 DEF OneOfEach
  <2>3. \A i, j \in DOMAIN frames :
         IsQuestion(frames[i]) /\ IsQuestion(frames[j]) /\ frames[i].method = frames[j].method
           => i = j
    BY <1>1, <1>2 DEF OneOfEach
  <2> QED BY <1>2, <2>1, <2>2, <2>3 DEF OneOfEach
<1>17. OurBytes'
  BY <1>1, <1>2, <1>6 DEF OurBytes
<1> QED BY <1>12, <1>13, <1>14, <1>15, <1>16, <1>17

(* The server asks about p: it has no question of that method open. *)
LEMMA Asked ==
  ASSUME IInv, NEW m \in Method, NEW p \in File, ServerAsks(m, p)
  PROVE  Waiting' /\ Quiet' /\ InStep' /\ Correlated' /\ OneOfEach'
<1> DEFINE q == Question(m, p)
<1>1. ClientTypeOK /\ Waiting /\ Quiet /\ InStep /\ Correlated /\ OneOfEach
  BY DEF IInv
<1>2. /\ server = "up" /\ work # NoCall /\ asking[m] = NoQuestion
      /\ asking' = [asking EXCEPT ![m] = p] /\ Says(q)
      /\ UNCHANGED <<client, outcome, server, work, heard, stdinOpen, stdin>>
  BY DEF ServerAsks
<1>3. /\ q \in Questions /\ q \in Inbound /\ IsQuestion(q) /\ q.method = m /\ q.path = p
  BY QuestionParts DEF Inbound
<1> HIDE DEF q
<1>4. frames' = Append(frames, q) /\ frames \in Seq(Inbound)
  BY <1>1, <1>2 DEF Says, ClientTypeOK
<1>5. /\ \A i \in DOMAIN frames : i \in DOMAIN frames' /\ frames'[i] = frames[i]
      /\ Len(frames) + 1 \in DOMAIN frames' /\ frames'[Len(frames) + 1] = q
      /\ \A i \in DOMAIN frames' : i \in DOMAIN frames \/ i = Len(frames) + 1
  BY <1>3, <1>4, Pushed
<1>6. Reading /\ client.call \in Call
  BY <1>1, <1>2 DEF Quiet, Waiting
<1>7. /\ work = client.call
      /\ \A i \in DOMAIN stdin : IsTold(stdin[i])
      /\ \A i \in DOMAIN frames : frames[i] \in Questions
  BY <1>1, <1>2, <1>6 DEF InStep, IsTold
<1>8. \A i \in DOMAIN frames' : frames'[i] \in Questions
  BY <1>3, <1>5, <1>7
<1>9. asking \in [Method -> File \cup {NoQuestion}] /\ NoQuestion \notin File
  BY <1>1, FileAssumption DEF ClientTypeOK
<1>10. \A n \in Method : asking'[n] = IF n = m THEN p ELSE asking[n]
  BY <1>2, <1>9
<1>11. \A i \in DOMAIN frames :
         /\ IsQuestion(frames[i]) /\ frames[i].method \in Method /\ frames[i].method # m
         /\ asking[frames[i].method] = frames[i].path
  <2> SUFFICES ASSUME NEW i \in DOMAIN frames
               PROVE  /\ IsQuestion(frames[i]) /\ frames[i].method \in Method /\ frames[i].method # m
                      /\ asking[frames[i].method] = frames[i].path
    OBVIOUS
  <2>1. IsQuestion(frames[i]) /\ frames[i].method \in Method /\ frames[i].path \in File
    BY <1>7, QuestionKind
  <2>2. asking[frames[i].method] = frames[i].path
    BY <1>1, <1>2, <2>1 DEF Correlated
  <2> QED BY <1>2, <1>9, <2>1, <2>2
<1>12. \A i \in DOMAIN stdin :
         /\ stdin[i].method \in Method /\ stdin[i].method # m
         /\ asking[stdin[i].method] \in File
         /\ stdin[i].value = Answer(asking[stdin[i].method])
  <2> SUFFICES ASSUME NEW i \in DOMAIN stdin
               PROVE  /\ stdin[i].method \in Method /\ stdin[i].method # m
                      /\ asking[stdin[i].method] \in File
                      /\ stdin[i].value = Answer(asking[stdin[i].method])
    OBVIOUS
  <2>1. stdin[i] \in Outbound
    BY <1>1, Elements DEF ClientTypeOK
  <2>2. stdin[i].method \in Method
    BY <1>7, <2>1, OutboundKinds
  <2>3. asking[stdin[i].method] \in File /\ stdin[i].value = Answer(asking[stdin[i].method])
    BY <1>1, <1>2, <1>7 DEF Correlated
  <2> QED BY <1>2, <1>9, <2>2, <2>3
<1>13. Waiting' /\ Reading'
  BY <1>1, <1>2, <1>6, <1>8 DEF Waiting, Reading
<1>14. Quiet'
  BY <1>13 DEF Quiet
<1>15. InStep'
  BY <1>2, <1>7, <1>8, <1>13 DEF InStep, IsTold
<1>16. Correlated'
  <2>1. ASSUME NEW i \in DOMAIN frames' PROVE asking'[frames'[i].method] = frames'[i].path
    <3>1. CASE i \in DOMAIN frames
      BY <1>5, <1>10, <1>11, <3>1
    <3>2. CASE i = Len(frames) + 1
      BY <1>3, <1>5, <1>10, <3>2
    <3> QED BY <1>5, <2>1, <3>1, <3>2
  <2>2. ASSUME NEW i \in DOMAIN stdin'
        PROVE  asking'[stdin'[i].method] \in File /\ stdin'[i].value = Answer(asking'[stdin'[i].method])
    BY <1>2, <1>10, <1>12, <2>2
  <2> QED BY <1>2, <2>1, <2>2 DEF Correlated
<1>17. OneOfEach'
  <2>1. ASSUME NEW i \in DOMAIN frames', NEW j \in DOMAIN frames',
               frames'[i].method = frames'[j].method
        PROVE  i = j
    <3>1. CASE i \in DOMAIN frames /\ j \in DOMAIN frames
      BY <1>1, <1>2, <1>5, <1>11, <2>1, <3>1 DEF OneOfEach
    <3>2. CASE i \notin DOMAIN frames /\ j \notin DOMAIN frames
      BY <1>5, <2>1, <3>2
    <3>3. CASE i \in DOMAIN frames /\ j \notin DOMAIN frames
      BY <1>3, <1>5, <1>11, <2>1, <3>3
    <3>4. CASE i \notin DOMAIN frames /\ j \in DOMAIN frames
      BY <1>3, <1>5, <1>11, <2>1, <3>4
    <3> QED BY <3>1, <3>2, <3>3, <3>4
  <2>2. ASSUME NEW i \in DOMAIN frames', NEW j \in DOMAIN stdin
        PROVE  frames'[i].method # stdin[j].method
    <3>1. CASE i \in DOMAIN frames
      BY <1>1, <1>2, <1>5, <1>7, <1>11, <2>2, <3>1 DEF OneOfEach
    <3>2. CASE i = Len(frames) + 1
      BY <1>3, <1>5, <1>12, <2>2, <3>2
    <3> QED BY <1>5, <2>2, <3>1, <3>2
  <2>3. \A i, j \in DOMAIN stdin :
         IsTold(stdin[i]) /\ IsTold(stdin[j]) /\ stdin[i].method = stdin[j].method => i = j
    BY <1>1, <1>2 DEF OneOfEach
  <2> QED BY <1>2, <2>1, <2>2, <2>3 DEF OneOfEach
<1> QED BY <1>13, <1>14, <1>15, <1>16, <1>17

(* The server answers: none of its questions is open, so both pipes are empty. *)
LEMMA Answered ==
  ASSUME IInv, ServerAnswers
  PROVE  Waiting' /\ Quiet' /\ InStep' /\ Correlated' /\ OneOfEach'
<1>1. ClientTypeOK /\ Waiting /\ Quiet /\ InStep /\ Correlated /\ OneOfEach
  BY DEF IInv
<1>2. PICK f \in AnswersTo(work) : Says(f)
  BY DEF ServerAnswers
<1>3. /\ server = "up" /\ work # NoCall /\ \A m \in Method : asking[m] = NoQuestion
      /\ work' = NoCall
      /\ UNCHANGED <<client, outcome, server, asking, heard, stdinOpen, stdin>>
  BY DEF ServerAnswers
<1>4. Reading /\ client.call \in Call
  BY <1>1, <1>3 DEF Quiet, Waiting
<1>5. /\ work = client.call
      /\ \A i \in DOMAIN stdin : IsTold(stdin[i])
      /\ \A i \in DOMAIN frames : frames[i] \in Questions
  BY <1>1, <1>3, <1>4 DEF InStep, IsTold
<1>6. frames = <<>>
  <2> SUFFICES ASSUME frames # <<>> PROVE FALSE
    OBVIOUS
  <2>1. 1 \in DOMAIN frames
    BY <1>1, Popped DEF ClientTypeOK
  <2>2. IsQuestion(frames[1]) /\ frames[1].method \in Method /\ frames[1].path \in File
    BY <1>5, <2>1, QuestionKind
  <2> QED BY <1>1, <1>3, <2>1, <2>2, FileAssumption DEF Correlated
<1>7. stdin = <<>>
  <2> SUFFICES ASSUME stdin # <<>> PROVE FALSE
    OBVIOUS
  <2>1. 1 \in DOMAIN stdin /\ stdin[1] \in Outbound
    BY <1>1, Popped DEF ClientTypeOK
  <2>2. stdin[1].method \in Method
    BY <1>5, <2>1, OutboundKinds
  <2> QED BY <1>1, <1>3, <1>5, <2>1, <2>2, FileAssumption DEF Correlated
<1>8. frames' = <<f>> /\ DOMAIN frames' = {1} /\ frames'[1] = f /\ ~IsQuestion(f)
  BY <1>2, <1>6, OneElement, AnswerKind DEF Says
<1>9. stdin' = <<>> /\ DOMAIN stdin' = {}
  BY <1>3, <1>7, EmptyDomain
<1>10. Waiting' /\ Reading'
  BY <1>1, <1>3, <1>4, <1>5, <1>8 DEF Waiting, Reading
<1>11. Quiet'
  BY <1>10 DEF Quiet
<1>12. InStep'
  BY <1>3, <1>5, <1>8, <1>9, <1>10 DEF InStep
<1>13. Correlated'
  BY <1>3, <1>8, <1>9 DEF Correlated
<1>14. OneOfEach'
  BY <1>8, <1>9 DEF OneOfEach
<1> QED BY <1>10, <1>11, <1>12, <1>13, <1>14

(* The server takes the request that waits for it. *)
LEMMA Taken ==
  ASSUME IInv, ServerTakes
  PROVE  Waiting' /\ Quiet' /\ InStep' /\ Correlated' /\ OneOfEach' /\ OurBytes'
<1>1. ClientTypeOK /\ Waiting /\ Quiet /\ InStep /\ Correlated /\ OneOfEach
  BY DEF IInv
<1>2. /\ server = "up" /\ work = NoCall /\ stdin # <<>> /\ work' = Head(stdin).of
      /\ stdin' = Tail(stdin) /\ heard' = [p \in File |-> "nothing"]
      /\ UNCHANGED <<client, outcome, server, asking, stdinOpen, frames>>
  BY DEF ServerTakes, stdout
<1>3. Reading /\ client.call \in Call
  BY <1>1, <1>2 DEF Quiet, Waiting
<1>4. stdin = <<Request(client.call)>> /\ frames = <<>>
  BY <1>1, <1>2, <1>3, CallIsNoSentinel DEF InStep
<1>5. stdin' = <<>> /\ frames' = <<>> /\ work' = client.call
  BY <1>2, <1>4, OneElement, OutboundKinds
<1>6. DOMAIN stdin' = {} /\ DOMAIN frames' = {}
  BY <1>5, EmptyDomain
<1>7. Waiting' /\ Reading'
  BY <1>1, <1>2, <1>3 DEF Waiting, Reading
<1>8. Quiet' /\ InStep'
  BY <1>2, <1>5, <1>6, <1>7 DEF Quiet, InStep
<1>9. Correlated' /\ OneOfEach'
  BY <1>1, <1>2, <1>3, <1>5, <1>6, CallIsNoSentinel DEF Correlated, OneOfEach
<1>10. OurBytes'
  BY <1>2 DEF OurBytes
<1> QED BY <1>7, <1>8, <1>9, <1>10

(* A call of a live server is over: it read the answer, or what does not decode. *)
LEMMA Over ==
  ASSUME IInv, Reading, ~Reading', server' = server, frames # <<>>, ~IsQuestion(Head(frames)),
         \/ frames' = Tail(frames)
         \/ frames' = frames /\ Head(frames) = Junk /\ client'.broken,
         UNCHANGED <<work, asking, heard, stdin>>
  PROVE  Quiet' /\ InStep' /\ Correlated' /\ OneOfEach' /\ OurBytes'
<1>1. ClientTypeOK /\ Waiting /\ Quiet /\ InStep /\ Correlated /\ OneOfEach /\ OurBytes
  BY DEF IInv
<1>2. OurBytes'
  BY <1>1 DEF OurBytes
<1>3. CASE server # "up"
  BY <1>3, Gone
<1>4. CASE server = "up"
  <2>1. client.call \in Call
    BY <1>1 DEF Waiting
  <2>2. work = NoCall /\ stdin = <<>> /\ frames = <<Head(frames)>>
    BY <1>1, <1>4, <2>1, AnswerIsLast
  <2>3. \/ frames' = <<>>
        \/ frames' = <<Junk>> /\ client'.broken
    <3>1. PICK f : f = Head(frames)
      OBVIOUS
    <3>2. frames = <<f>>
      BY <2>2, <3>1
    <3>3. Tail(frames) = <<>>
      BY <3>2, OneElement
    <3> SUFFICES ASSUME frames' # <<>> PROVE frames' = <<Junk>> /\ client'.broken
      OBVIOUS
    <3>4. frames' # Tail(frames)
      BY <3>3, Zenon
    <3>5. frames' = frames /\ Head(frames) = Junk /\ client'.broken
      BY <3>4, Zenon
    <3>6. f = Junk
      BY <3>1, <3>5
    <3> QED BY <3>2, <3>5, <3>6
  <2>4. DOMAIN stdin' = {} /\ \A i \in DOMAIN frames' : ~IsQuestion(frames'[i])
    <3>1. CASE frames' = <<>>
      BY <2>2, <3>1, EmptyDomain
    <3>2. CASE frames' = <<Junk>>
      BY <2>2, <3>2, EmptyDomain, OneElement DEF Junk, IsQuestion
    <3> QED BY <2>3, <3>1, <3>2
  <2>5. Quiet' /\ InStep'
    BY <2>2, <2>3 DEF Quiet, InStep
  <2>6. Correlated' /\ OneOfEach'
    BY <1>1, <1>4, <2>2, <2>4 DEF Correlated, OneOfEach
  <2> QED BY <1>2, <2>5, <2>6
<1> QED BY <1>3, <1>4

-----------------------------------------------------------------------------
(* The inductive invariant, the theorems about the states. *)

LEMMA InitInv == ClientInit => IInv
<1> SUFFICES ASSUME ClientInit PROVE IInv
  OBVIOUS
<1> USE CallIsNoSentinel
<1>1. Len(frames) = 0 /\ Halves = 0
  BY DEF ClientInit, Halves
<1>2. ClientTypeOK
  <2>1. stdin \in Seq(Outbound) /\ frames \in Seq(Inbound) /\ arrived \in 0..Halves /\ cut = FALSE
    BY <1>1 DEF ClientInit
  <2>2. heard \in [File -> {"nothing", "ours", "null"}] /\ asking \in [Method -> File \cup {NoQuestion}]
    BY DEF ClientInit
  <2>3. asks \in 0..MaxAsks
    BY AsksAssumption DEF ClientInit
  <2>4. client \in [pc : {"idle", "reading", "stopping", "killed"}, call : Call \cup {NoCall},
                    spawned : BOOLEAN, broken : BOOLEAN, reaped : BOOLEAN]
    BY DEF ClientInit
  <2> QED BY <2>1, <2>2, <2>3, <2>4 DEF ClientInit, ClientTypeOK
<1>3. NotSpawned /\ Waiting /\ Quiet /\ InStep /\ Correlated /\ OneOfEach
  BY DEF ClientInit, NotSpawned, Waiting, Quiet, InStep, Correlated, OneOfEach, Reading
<1>4. OurBytes
  BY DEF ClientInit, OurBytes
<1> QED BY <1>2, <1>3, <1>4 DEF IInv

LEMMA StepInv == IInv /\ [ClientNext]_clientVars => IInv'
<1> SUFFICES ASSUME IInv, [ClientNext]_clientVars PROVE IInv'
  OBVIOUS
<1> USE CallIsNoSentinel
<1>t. ClientTypeOK'
  BY TypeStep
<1>0. /\ ClientTypeOK /\ NotSpawned /\ Waiting /\ Quiet /\ InStep
      /\ Correlated /\ OneOfEach /\ OurBytes
  BY DEF IInv
<1> DEFINE Rest == NotSpawned' /\ Waiting' /\ Quiet' /\ InStep' /\ Correlated' /\ OneOfEach' /\ OurBytes'
<1> SUFFICES Rest
  BY <1>t DEF IInv
<1>1. CASE start
  <2>1. /\ client' = [client EXCEPT !.spawned = TRUE, !.pc = "reading", !.call = Init0]
        /\ ~client.spawned /\ stdinOpen' /\ stdin' = Append(stdin, Request(Init0))
        /\ UNCHANGED <<outcome, work, asking, heard, frames>>
    BY <1>1 DEF start, spawned, wrote, stdout
  <2>2. /\ client'.pc = "reading" /\ client'.call = Init0 /\ client'.spawned /\ ~client'.broken
        /\ work = NoCall /\ stdin = <<>> /\ frames = <<>> /\ outcome'[Init0] = NotYet
        /\ \A m \in Method : asking[m] = NoQuestion
    BY <1>0, <2>1 DEF NotSpawned, ClientTypeOK
  <2> QED BY <2>1, <2>2, Sent
<1>2. ASSUME NEW c \in Call, callRaw(c) PROVE Rest
  <2>1. /\ client.pc = "idle" /\ ~Reading /\ outcome[c] = NotYet /\ client.spawned /\ ~client.broken
        /\ UNCHANGED <<server, work, asking, heard, stdinOpen, frames>>
    BY <1>2 DEF callRaw, Idle, Reading, serverSide, stdout
  <2>2. CASE Writable
    <3>1. /\ stdin' = Append(stdin, Request(c)) /\ outcome' = outcome
          /\ client' = [client EXCEPT !.pc = "reading", !.call = c]
          /\ server = "up" /\ stdinOpen
      BY <1>2, <2>2 DEF callRaw, Writable, wrote
    <3>2. client'.pc = "reading" /\ client'.call = c /\ client'.spawned /\ ~client'.broken
      BY <1>0, <2>1, <3>1 DEF ClientTypeOK
    <3>3. /\ work = NoCall /\ stdin = <<>> /\ frames = <<>>
          /\ \A m \in Method : asking[m] = NoQuestion
      BY <1>0, <2>1, <3>1 DEF Quiet, Correlated
    <3> QED BY <2>1, <3>1, <3>2, <3>3, Sent
  <2>3. CASE ~Writable
    <3>1. /\ client' = [client EXCEPT !.broken = TRUE,
                                      !.pc = IF PipeKills THEN "killed" ELSE "idle"]
          /\ stdin' = stdin
      BY <1>2, <2>3 DEF callRaw
    <3>2. client'.spawned /\ client'.broken /\ ~Reading'
      BY <1>0, <2>1, <3>1 DEF ClientTypeOK, Reading
    <3>3. NotSpawned' /\ Waiting' /\ Quiet' /\ InStep'
      BY <1>0, <2>1, <3>1, <3>2 DEF NotSpawned, Waiting, Quiet, InStep
    <3> QED BY <2>1, <3>1, <3>3, PipesUntouched
  <2> QED BY <2>2, <2>3
<1>3. ASSUME NEW c \in Call, refused(c) PROVE Rest
  <2>1. /\ ~Reading /\ c # Init0 /\ outcome' = [outcome EXCEPT ![c] = Failed]
        /\ UNCHANGED <<client, server, work, asking, heard, stdinOpen, stdin, frames>>
    BY <1>3 DEF refused, Idle, Reading, serverSide, stdout
  <2>2. ~Reading'
    BY <2>1 DEF Reading
  <2>3. NotSpawned'
    BY <1>0, <2>1 DEF NotSpawned, ClientTypeOK
  <2>4. Waiting' /\ Quiet' /\ InStep'
    BY <1>0, <2>1, <2>2 DEF Waiting, Quiet, InStep
  <2> QED BY <2>1, <2>3, <2>4, PipesUntouched
<1>4. CASE stop \/ closeStdin \/ wait
  <2>1. /\ ~Reading
        /\ UNCHANGED <<outcome, server, work, asking, heard, stdin, frames>>
    BY <1>4 DEF stop, closeStdin, wait, Idle, Reading, serverSide, stdout
  <2>2. client.spawned
    BY <1>0, <1>4 DEF NotSpawned, stop, closeStdin, wait
  <2>3. ~Reading' /\ client'.spawned /\ (client.broken => client'.broken)
    BY <1>0, <1>4, <2>1, <2>2 DEF stop, closeStdin, wait, Reading, ClientTypeOK
  <2>4. NotSpawned' /\ Waiting' /\ Quiet' /\ InStep'
    BY <1>0, <2>1, <2>3 DEF NotSpawned, Waiting, Quiet, InStep
  <2> QED BY <2>1, <2>4, PipesUntouched
<1>5. CASE read
  <2>1. UNCHANGED <<client, outcome, server, work, asking, heard, stdinOpen, stdin, frames>>
    BY <1>5 DEF read, serverSide
  <2>2. NotSpawned' /\ Waiting' /\ Quiet' /\ InStep'
    BY <1>0, <2>1 DEF NotSpawned, Waiting, Quiet, InStep, Reading
  <2> QED BY <2>1, <2>2, PipesUntouched
<1>6. CASE readEnd \/ malformed
  <2>1. /\ Reading /\ settled(Failed, TRUE)
        /\ UNCHANGED <<server, work, asking, heard, stdinOpen, stdin, frames>>
    BY <1>6 DEF readEnd, malformed, serverSide, stdout
  <2>2. client.call \in Call /\ client.spawned
    BY <1>0, <2>1 DEF Waiting
  <2>3. client'.pc \in {"idle", "stopping"} /\ client'.spawned /\ client'.broken
    BY <1>0, <2>1, <2>2, Settled
  <2>4. ~Reading' /\ NotSpawned' /\ Waiting'
    BY <2>3 DEF Reading, NotSpawned, Waiting
  <2>5. CASE readEnd
    <3>1. server' # "up"
      BY <2>1, <2>5 DEF readEnd
    <3> QED BY <2>1, <2>4, <3>1, Gone
  <2>6. CASE malformed
    <3>1. decodeFrame = "Malformed"
      BY <2>6 DEF malformed
    <3>2. frames # <<>> /\ Head(frames) = Junk
      BY <1>0, <3>1, Decoded
    <3>3. ~IsQuestion(Head(frames))
      BY <3>2 DEF Junk, IsQuestion
    <3> QED BY <2>1, <2>3, <2>4, <3>2, <3>3, Over
  <2> QED BY <1>6, <2>5, <2>6
<1>7. CASE answerCallback
  <2>1. /\ Reading /\ heard' = heard /\ server' = server
        /\ decodeFrame = "Complete" /\ consumed
        /\ UNCHANGED <<outcome, stdinOpen>>
    BY <1>7 DEF answerCallback, serverSide
  <2>2. client.spawned /\ client'.spawned
    BY <1>0, <1>7, <2>1 DEF Waiting, answerCallback, ClientTypeOK
  <2>3. NotSpawned'
    BY <2>2 DEF NotSpawned
  <2>4. OurBytes'
    BY <1>0, <2>1 DEF OurBytes
  <2>5. CASE server = "up"
    BY <1>7, <2>3, <2>4, <2>5, Replied
  <2>6. CASE server # "up"
    <3>1. client'.call = client.call
      BY <1>0, <1>7 DEF answerCallback, ClientTypeOK
    <3>2. \A i \in DOMAIN frames' : i + 1 \in DOMAIN frames /\ frames'[i] = frames[i + 1]
      BY <1>0, <2>1, Consumed
    <3>3. Waiting'
      BY <1>0, <2>1, <2>2, <2>6, <3>1, <3>2 DEF Waiting
    <3> QED BY <2>1, <2>3, <2>6, <3>3, Gone
  <2> QED BY <2>5, <2>6
<1>8. CASE receive
  <2>1. /\ Reading /\ decodeFrame = "Complete" /\ consumed /\ ~IsQuestion(Head(frames))
        /\ UNCHANGED <<server, work, asking, heard, stdinOpen, stdin>> /\ frames' = Tail(frames)
    BY <1>8 DEF receive, serverSide, IsQuestion, consumed
  <2>2. frames # <<>>
    BY <1>0, <2>1, Decoded
  <2>3. client.call \in Call /\ client.spawned
    BY <1>0, <2>1 DEF Waiting
  <2>4. client'.pc \in {"idle", "stopping"} /\ client'.spawned
    <3>1. client \in [pc : {"idle", "reading", "stopping", "killed"}, call : Call \cup {NoCall},
                      spawned : BOOLEAN, broken : BOOLEAN, reaped : BOOLEAN]
      BY <1>0 DEF ClientTypeOK
    <3> QED BY <1>8, <2>3, <3>1 DEF receive, settled
  <2>5. ~Reading' /\ NotSpawned' /\ Waiting'
    BY <2>4 DEF Reading, NotSpawned, Waiting
  <2> QED BY <2>1, <2>2, <2>5, Over
<1>9. CASE kill \/ ServerExits
  <2>1. /\ server = "up" /\ server' = "gone"
        /\ UNCHANGED <<client, outcome, heard, stdinOpen, frames>>
    BY <1>9 DEF kill, ServerExits, stdout
  <2>2. NotSpawned' /\ Waiting'
    BY <1>0, <2>1 DEF NotSpawned, Waiting, Reading
  <2> QED BY <2>1, <2>2, Gone
<1>10. CASE ServerTakes
  <2>1. server = "up" /\ client' = client
    BY <1>10 DEF ServerTakes
  <2>2. NotSpawned'
    BY <1>0, <2>1 DEF NotSpawned
  <2> QED BY <1>10, <2>2, Taken
<1>11. ASSUME NEW m \in Method, NEW p \in File, ServerAsks(m, p) PROVE Rest
  <2>1. server = "up" /\ client' = client /\ heard' = heard
    BY <1>11 DEF ServerAsks
  <2>2. NotSpawned' /\ OurBytes'
    BY <1>0, <2>1 DEF NotSpawned, OurBytes
  <2> QED BY <1>11, <2>2, Asked
<1>12. CASE ServerHears
  <2>1. server = "up" /\ client' = client
    BY <1>12 DEF ServerHears
  <2>2. NotSpawned'
    BY <1>0, <2>1 DEF NotSpawned
  <2> QED BY <1>12, <2>2, Heard
<1>13. CASE ServerAnswers
  <2>1. server = "up" /\ client' = client /\ heard' = heard
    BY <1>13 DEF ServerAnswers
  <2>2. NotSpawned' /\ OurBytes'
    BY <1>0, <2>1 DEF NotSpawned, OurBytes
  <2> QED BY <1>13, <2>2, Answered
<1>14. CASE UNCHANGED clientVars
  BY <1>0, <1>14, PipesUntouched DEF clientVars, NotSpawned, Waiting, Quiet, InStep, Reading
<1> QED
  BY <1>1, <1>2, <1>3, <1>4, <1>5, <1>6, <1>7, <1>8, <1>9, <1>10, <1>11, <1>12, <1>13, <1>14
     DEF ClientNext, clientStep, serverStep

LEMMA Invariant == ClientSpec => []IInv
BY InitInv, StepInv, PTL DEF ClientSpec

(* Type correctness of the client, the pipes and the server. *)
THEOREM ClientTyped == ClientSpec => []ClientTypeOK
<1>1. IInv => ClientTypeOK
  BY DEF IInv
<1> QED BY <1>1, Invariant, PTL

(* Over pipes that are read in pieces, with a server that may die at any moment or
   answer garbage, the next frame a live server sends belongs to the next call. *)
THEOREM StaysInStep == ClientSpec => []InStep
<1>1. IInv => InStep
  BY DEF IInv
<1> QED BY <1>1, Invariant, PTL

(* What the server is told about a file is what the provider says of that file. *)
THEOREM ServerSeesOurBytes == ClientSpec => []OurBytes
<1>1. IInv => OurBytes
  BY DEF IInv
<1> QED BY <1>1, Invariant, PTL

-----------------------------------------------------------------------------
(***************************************************************************)
(* The client implements the calls of TypeCalls, where a write to a pipe    *)
(* without a reader is an error and not the end of the process: its initial *)
(* states are theirs, and each of its steps is one of theirs or a stutter.  *)
(***************************************************************************)

LEMMA CallStep ==
  ASSUME ~PipeKills, IInv, IInv', [ClientNext]_clientVars
  PROVE  [Calls!CallsNext]_(Calls!callVars)
<1> USE CallIsNoSentinel
<1> USE DEF Calls!callVars
<1>0. ClientTypeOK /\ NotSpawned /\ Waiting
  BY DEF IInv
<1>1. ASSUME outcome' = outcome, Reading' = Reading, client'.call = client.call,
             client'.spawned = client.spawned, client.broken => client'.broken
      PROVE  [Calls!CallsNext]_(Calls!callVars)
  <2>1. (IF Reading THEN client.call ELSE NoCall)' = IF Reading THEN client.call ELSE NoCall
    BY <1>1
  <2>2. CASE (client.spawned /\ ~client.broken)' = (client.spawned /\ ~client.broken)
    BY <1>1, <2>1, <2>2
  <2>3. CASE (client.spawned /\ ~client.broken)' # (client.spawned /\ ~client.broken)
    <3>1. client.spawned /\ ~client.broken /\ client'.broken
      BY <1>0, <1>1, <2>3 DEF ClientTypeOK
    <3>2. Calls!Disconnect
      BY <1>1, <2>1, <3>1 DEF Calls!Disconnect
    <3> QED BY <3>2 DEF Calls!CallsNext
  <2> QED BY <2>2, <2>3
<1>2. CASE start
  <2>1. /\ client.pc = "idle" /\ ~client.spawned /\ outcome' = outcome
        /\ client' = [client EXCEPT !.spawned = TRUE, !.pc = "reading", !.call = Init0]
    BY <1>2 DEF start, spawned, Idle
  <2>2. /\ ~client.broken /\ outcome[Init0] = NotYet
        /\ \A c \in Call : outcome[c] \in {NotYet, Failed}
    BY <1>0, <2>1 DEF NotSpawned
  <2>3. /\ ~Reading /\ Reading' /\ client'.call = Init0 /\ client'.spawned /\ ~client'.broken
    BY <1>0, <2>1, <2>2 DEF Reading, ClientTypeOK
  <2>4. Calls!Connect(Init0)
    BY <2>1, <2>2, <2>3 DEF Calls!Connect
  <2> QED BY <2>4 DEF Calls!CallsNext
<1>3. ASSUME NEW c \in Call, callRaw(c) PROVE Calls!CallsNext
  <2>1. /\ client.pc = "idle" /\ ~Reading /\ outcome[c] = NotYet /\ client.spawned /\ ~client.broken
    BY <1>3 DEF callRaw, Idle, Reading
  <2>2. CASE Writable
    <3>1. outcome' = outcome /\ client' = [client EXCEPT !.pc = "reading", !.call = c]
      BY <1>3, <2>2 DEF callRaw
    <3>2. Reading' /\ client'.call = c /\ client'.spawned /\ ~client'.broken
      BY <1>0, <2>1, <3>1 DEF Reading, ClientTypeOK
    <3>3. Calls!Begin(c)
      BY <2>1, <3>1, <3>2 DEF Calls!Begin
    <3> QED BY <3>3 DEF Calls!CallsNext
  <2>3. CASE ~Writable
    <3>1. /\ client' = [client EXCEPT !.broken = TRUE, !.pc = "idle"]
          /\ outcome' = [outcome EXCEPT ![c] = Failed]
      BY <1>3, <2>3 DEF callRaw
    <3>2. ~Reading' /\ client'.broken
      BY <1>0, <3>1 DEF Reading, ClientTypeOK
    <3>3. Calls!Refuse(c)
      BY <2>1, <3>1, <3>2 DEF Calls!Refuse
    <3> QED BY <3>3 DEF Calls!CallsNext
  <2> QED BY <2>2, <2>3
<1>4. ASSUME NEW c \in Call, refused(c) PROVE Calls!CallsNext
  <2>1. /\ ~Reading /\ outcome[c] = NotYet /\ (~client.spawned \/ client.broken)
        /\ outcome' = [outcome EXCEPT ![c] = Failed] /\ client' = client
    BY <1>4 DEF refused, Idle, Reading
  <2>2. ~Reading'
    BY <2>1 DEF Reading
  <2>3. Calls!Refuse(c)
    BY <2>1, <2>2 DEF Calls!Refuse
  <2> QED BY <2>3 DEF Calls!CallsNext
<1>5. CASE stop \/ closeStdin \/ wait
  <2>1. ~Reading /\ outcome' = outcome
    BY <1>5 DEF stop, closeStdin, wait, Idle, Reading
  <2>2. /\ Reading' = Reading /\ client'.call = client.call
        /\ client'.spawned = client.spawned /\ (client.broken => client'.broken)
    BY <1>0, <1>5, <2>1 DEF stop, closeStdin, wait, Reading, ClientTypeOK
  <2> QED BY <1>1, <2>1, <2>2
<1>6. ASSUME Reading, NEW o \in {client.call, Failed}, NEW breaks \in BOOLEAN, settled(o, breaks)
      PROVE  Calls!CallsNext
  <2>1. client.call \in Call /\ client.spawned
    BY <1>0, <1>6 DEF Waiting
  <2>2. /\ client'.pc \in {"idle", "stopping"} /\ client'.spawned = client.spawned
        /\ client'.broken = (client.broken \/ breaks)
        /\ outcome' = [outcome EXCEPT ![client.call] = o]
    BY <1>0, <1>6, <2>1, Settled
  <2>3. ~Reading'
    BY <2>2 DEF Reading
  <2>4. Calls!Return(client.call)
    BY <1>6, <2>1, <2>2, <2>3 DEF Calls!Return
  <2> QED BY <2>1, <2>4 DEF Calls!CallsNext
<1>7. CASE readEnd \/ malformed
  BY <1>6, <1>7 DEF readEnd, malformed
<1>8. CASE receive
  <2>1. Head(frames) = frames[1] /\ 1 \in DOMAIN frames
    BY <1>0, <1>8, Consumed DEF receive
  <2>2. Reading /\ client.call \in Call /\ frames[1] \in Questions \cup AnswersTo(client.call)
    BY <1>0, <1>8, <2>1 DEF Waiting, receive
  <2>3. Head(frames) \in AnswersTo(client.call)
    BY <1>8, <2>1, <2>2, QuestionKind DEF receive, IsQuestion
  <2>4. Head(frames).type = "Response" => Head(frames).of = client.call
    BY <2>3, AnswerKind
  <2>5. CASE Head(frames).type = "Response"
    <3>1. settled(client.call, FALSE)
      BY <1>8, <2>4, <2>5 DEF receive
    <3> QED BY <1>6, <2>2, <3>1
  <2>6. CASE Head(frames).type # "Response"
    <3>1. settled(Failed, FALSE) \/ settled(Failed, TRUE)
      BY <1>8, <2>6 DEF receive
    <3> QED BY <1>6, <2>2, <3>1
  <2> QED BY <2>5, <2>6
<1>9. CASE answerCallback
  <2>1. Reading /\ outcome' = outcome
    BY <1>9 DEF answerCallback
  <2>2. client' = client \/ client' = [client EXCEPT !.broken = TRUE]
    BY <1>0, <1>9 DEF answerCallback, ClientTypeOK
  <2>3. /\ Reading' /\ client'.call = client.call /\ client'.spawned = client.spawned
        /\ (client.broken => client'.broken)
    BY <1>0, <2>1, <2>2 DEF Reading, ClientTypeOK
  <2> QED BY <1>1, <2>1, <2>3
<1>10. ASSUME client' = client, outcome' = outcome PROVE [Calls!CallsNext]_(Calls!callVars)
  BY <1>1, <1>10 DEF Reading
<1>11. CASE read \/ kill \/ serverStep \/ ServerExits \/ UNCHANGED clientVars
  <2>1. client' = client /\ outcome' = outcome
    BY <1>11 DEF read, kill, serverStep, ServerTakes, ServerHears, ServerAnswers, ServerAsks,
                 ServerExits, clientVars
  <2> QED BY <1>10, <2>1
<1> QED
  BY <1>2, <1>3, <1>4, <1>5, <1>7, <1>8, <1>9, <1>11 DEF ClientNext, clientStep

THEOREM CallsAreImplemented ==
  ASSUME ~PipeKills
  PROVE  ClientSpec => Calls!CallsInit /\ [][Calls!CallsNext]_(Calls!callVars)
<1>1. ClientInit => Calls!CallsInit
  BY DEF ClientInit, Calls!CallsInit, Reading
<1>2. IInv /\ IInv' /\ [ClientNext]_clientVars => [Calls!CallsNext]_(Calls!callVars)
  BY CallStep
<1> QED BY <1>1, <1>2, Invariant, PTL DEF ClientSpec

=============================================================================
