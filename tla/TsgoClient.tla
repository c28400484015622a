------------------------------ MODULE TsgoClient ------------------------------
(***************************************************************************)
(* The client of the native type server (source/fastlint/tsgo/client.cc)    *)
(* over a child process and its two pipes (tsgo/process.cc) and the framing  *)
(* of the envelope (tsgo/msgpack.cc).                                       *)
(*                                                                         *)
(* The client is one thread: a call writes a request and reads until a      *)
(* response or an error arrives, answering the server's questions about     *)
(* files as they come.  The server, the pipes and the end of the process    *)
(* are the environment.  A frame is a record, and arrives in two halves, so *)
(* that a read may end in the middle of one: `frames` are those the server   *)
(* wrote and the client has not decoded, and the first `arrived` halves of   *)
(* them are in the client's inbox.                                          *)
(***************************************************************************)
EXTENDS Naturals, Sequences

CONSTANTS
  Call,        \* the calls made over the client's life; Init0 is among them
  Init0,       \* the call that `start` makes: `initialize`
  NoCall, NotYet, Failed,
  Method,      \* the questions the server may ask: readFile, fileExists
  File,        \* the files it may ask about
  Ours,        \* the files whose text the FileProvider serves
  NoQuestion,      \* no question of that method is open
  ServerMayDie,      \* the server may exit at any moment
  ServerMayGarble,   \* it may send what is not an answer
  PipeKills,         \* a write to a pipe nobody reads ends this process (SIGPIPE)
  MaxAsks            \* bound on the questions per request

ASSUME CallAssumption ==
  /\ Init0 \in Call
  /\ {NoCall, NotYet, Failed} \cap Call = {}
  /\ NotYet # Failed
ASSUME FileAssumption == NoQuestion \notin File /\ Ours \subseteq File
ASSUME FaultAssumption ==
  /\ ServerMayDie \in BOOLEAN /\ ServerMayGarble \in BOOLEAN
  /\ PipeKills \in BOOLEAN
ASSUME AsksAssumption == MaxAsks \in Nat

VARIABLES
  client,   \* [pc, call, spawned, broken, reaped]: the client's own state
  outcome,  \* what each call returned
  server,   \* "none", "up" or "gone"
  work,     \* the request the server works on, or NoCall
  asks,     \* how many questions it asked for that request
  asking,   \* the path each method's open question is about, or NoQuestion
  heard,    \* what it was told about each path while it served this request
  stdinOpen,
  stdin,    \* frames on their way to the server
  frames,   \* frames written by the server and not decoded by the client
  arrived,  \* how many halves of them the client has read
  cut       \* the server exited with the second half of the last one unwritten

clientVars == <<client, outcome, server, work, asks, asking, heard,
          stdinOpen, stdin, frames, arrived, cut>>
serverSide == <<server, work, asks, asking, heard>>
stdout == <<frames, arrived, cut>>

-----------------------------------------------------------------------------
(* Frames. *)

Request(c)       == [type |-> "Request", of |-> c]
Response(c)      == [type |-> "Response", of |-> c]
Error(c)         == [type |-> "Error", of |-> c]
Question(m, p)   == [type |-> "Call", method |-> m, path |-> p]
Told(m, v)       == [type |-> "CallResponse", method |-> m, value |-> v]
Unparsed(c)      == [type |-> "Unparsed", of |-> c]   \* a response that is no JSON
Junk             == [type |-> "Junk"]                  \* does not decode
Stray            == [type |-> "Stray"]                 \* decodes, is no answer

(* What the server may answer the call c with. *)
AnswersTo(c) ==
  {Response(c), Error(c)} \cup (IF ServerMayGarble THEN {Unparsed(c), Junk, Stray} ELSE {})
Questions == {Question(m, p) : m \in Method, p \in File}

(* All that may be on its way in either direction. *)
Inbound == Questions \cup UNION {AnswersTo(c) : c \in Call}
Outbound == {Request(c) : c \in Call} \cup {Told(m, v) : m \in Method, v \in {"ours", "null"}}

(* The halves that were written. *)
Halves == 2 * Len(frames) - (IF cut THEN 1 ELSE 0)

(* What the provider says of p: its own text, or null, which sends the server
   to the disk. *)
Answer(p) == IF p \in Ours THEN "ours" ELSE "null"

(* decodeFrame on the inbox: the first half of a frame holds its type. *)
decodeFrame ==
  IF arrived = 0 THEN "Incomplete"
  ELSE IF Head(frames) = Junk THEN "Malformed"
  ELSE IF arrived < 2 THEN "Incomplete"
  ELSE "Complete"

(* The frame leaves the inbox. *)
consumed ==
  /\ frames' = Tail(frames)
  /\ arrived' = arrived - 2
  /\ UNCHANGED cut

-----------------------------------------------------------------------------
ClientInit ==
  /\ client = [pc |-> "idle", call |-> NoCall, spawned |-> FALSE,
               broken |-> FALSE, reaped |-> FALSE]
  /\ outcome = [c \in Call |-> NotYet]
  /\ server = "none"
  /\ work = NoCall
  /\ asks = 0
  /\ asking = [m \in Method |-> NoQuestion]
  /\ heard = [p \in File |-> "nothing"]
  /\ stdinOpen = FALSE
  /\ stdin = <<>>
  /\ frames = <<>> /\ arrived = 0 /\ cut = FALSE

Idle == client.pc = "idle"
Reading == client.pc = "reading"

(***************************************************************************)
(* Client::send: a frame written while the server can still read, or a      *)
(* write to a pipe without a reader.  That write fails and marks the        *)
(* connection broken, where the process survives it.                       *)
(***************************************************************************)
Writable == stdinOpen /\ server = "up"

wrote(f) == stdin' = Append(stdin, f)

(* Client::callRaw up to the read: refused without a connection, else written. *)
callRaw(c) ==
  /\ Idle
  /\ outcome[c] = NotYet /\ c # Init0
  /\ client.spawned /\ ~client.broken
  /\ \/ /\ Writable
        /\ wrote(Request(c))
        /\ client' = [client EXCEPT !.pc = "reading", !.call = c]
        /\ UNCHANGED outcome
     \/ /\ ~Writable
        /\ client' = [client EXCEPT !.broken = TRUE,
                                    !.pc = IF PipeKills THEN "killed" ELSE "idle"]
        /\ outcome' = IF PipeKills THEN outcome ELSE [outcome EXCEPT ![c] = Failed]
        /\ UNCHANGED stdin
  /\ UNCHANGED <<serverSide, stdinOpen, stdout>>

refused(c) ==
  /\ Idle
  /\ outcome[c] = NotYet /\ c # Init0
  /\ ~client.spawned \/ client.broken
  /\ outcome' = [outcome EXCEPT ![c] = Failed]
  /\ UNCHANGED <<client, serverSide, stdinOpen, stdin, stdout>>

(* Process::start: a child with both pipes, once in the life of the object. *)
spawned ==
  /\ ~client.spawned
  /\ server' = "up"
  /\ stdinOpen' = TRUE

(* Client::start: the binary is found, its version is let through and the
   process is spawned, or it returns false and may be called again.  The
   request `initialize` goes out with the spawn. *)
start ==
  /\ Idle
  /\ spawned
  /\ client' = [client EXCEPT !.spawned = TRUE, !.pc = "reading", !.call = Init0]
  /\ wrote(Request(Init0))
  /\ UNCHANGED <<outcome, work, asks, asking, heard, stdout>>

(* Client::receive, the read: any part of what the pipe holds, or its end. *)
read ==
  /\ Reading
  /\ decodeFrame = "Incomplete"
  /\ arrived' \in arrived + 1..Halves
  /\ UNCHANGED <<client, outcome, serverSide, stdinOpen, stdin, frames, cut>>

(* The call returns o; a failed `initialize` goes on to stop(). *)
settled(o, breaks) ==
  /\ outcome' = [outcome EXCEPT ![client.call] = o]
  /\ client' = [client EXCEPT
                  !.pc = IF client.call = Init0 /\ o = Failed THEN "stopping" ELSE "idle",
                  !.call = NoCall,
                  !.broken = @ \/ breaks]

(* As readEnd, but taking the end of the pipe for an empty read. *)
spinAtEnd == FALSE /\ UNCHANGED clientVars

readEnd ==
  /\ Reading
  /\ decodeFrame = "Incomplete"
  /\ arrived = Halves /\ server # "up"
  /\ settled(Failed, TRUE)
  /\ UNCHANGED <<serverSide, stdinOpen, stdin, stdout>>

(* As malformed, but an error of this call only. *)
forgivingMalformed ==
  /\ Reading
  /\ decodeFrame = "Malformed"
  /\ settled(Failed, FALSE)
  /\ UNCHANGED <<serverSide, stdinOpen, stdin, stdout>>

malformed ==
  /\ Reading
  /\ decodeFrame = "Malformed"
  /\ settled(Failed, TRUE)
  /\ UNCHANGED <<serverSide, stdinOpen, stdin, stdout>>

(* As reply, but null without asking the provider. *)
neverOurs(q) == Told(q.method, "null")

(* The answer carries the question's method, which is all the server goes by. *)
reply(q) == Told(q.method, Answer(q.path))

(* Client::answerCallback: the frame leaves the inbox and the answer is written;
   a failed write breaks the connection and the read goes on. *)
answerCallback ==
  /\ Reading
  /\ decodeFrame = "Complete"
  /\ Head(frames).type = "Call"
  /\ LET q == Head(frames) IN
       \/ /\ Writable
          /\ wrote(reply(q))
          /\ UNCHANGED client
       \/ /\ ~Writable
          /\ client' = [client EXCEPT !.broken = TRUE,
                                      !.pc = IF PipeKills THEN "killed" ELSE @]
          /\ UNCHANGED stdin
  /\ consumed
  /\ UNCHANGED <<outcome, serverSide, stdinOpen>>

(* The end of callRaw: the first frame that is no question. *)
receive ==
  /\ Reading
  /\ decodeFrame = "Complete"
  /\ Head(frames).type # "Call"
  /\ LET f == Head(frames) IN
       CASE f.type = "Response" -> settled(f.of, FALSE)
         [] f.type \in {"Error", "Unparsed"} -> settled(Failed, FALSE)
         [] OTHER               -> settled(Failed, TRUE)
  /\ consumed
  /\ UNCHANGED <<serverSide, stdinOpen, stdin>>

(* Client::stop: stdin is closed, the exit awaited for a second and then forced,
   and the child is reaped. *)
stop ==
  /\ Idle
  /\ client.spawned
  /\ client' = [client EXCEPT !.pc = "stopping"]
  /\ UNCHANGED <<outcome, serverSide, stdinOpen, stdin, stdout>>

closeStdin ==
  /\ client.pc = "stopping" /\ stdinOpen
  /\ stdinOpen' = FALSE
  /\ UNCHANGED <<client, outcome, serverSide, stdin, stdout>>

(* As kill, but never. *)
neverKill == FALSE /\ UNCHANGED clientVars

kill ==
  /\ client.pc = "stopping" /\ ~stdinOpen
  /\ server = "up"
  /\ server' = "gone"
  /\ UNCHANGED <<client, outcome, work, asks, asking, heard, stdinOpen, stdin, stdout>>

wait ==
  /\ client.pc = "stopping" /\ ~stdinOpen
  /\ server = "gone"
  /\ client' = [client EXCEPT !.pc = "idle", !.broken = TRUE, !.reaped = TRUE]
  /\ UNCHANGED <<outcome, serverSide, stdinOpen, stdin, stdout>>

clientStep ==
  read \/ readEnd \/ malformed \/ answerCallback \/ receive
    \/ closeStdin \/ kill \/ wait

-----------------------------------------------------------------------------
(* The server, as far as the client can tell (external). *)

Says(f) ==
  /\ frames' = Append(frames, f)
  /\ UNCHANGED <<arrived, cut>>

ServerTakes ==
  /\ server = "up" /\ work = NoCall
  /\ stdin # <<>> /\ Head(stdin).type = "Request"
  /\ work' = Head(stdin).of
  /\ asks' = 0
  /\ heard' = [p \in File |-> "nothing"]
  /\ stdin' = Tail(stdin)
  /\ UNCHANGED <<client, outcome, server, asking, stdinOpen, stdout>>

(* A question: the method's name is its only correlation, so one per method. *)
ServerAsks(m, p) ==
  /\ server = "up" /\ work # NoCall
  /\ asks < MaxAsks /\ asking[m] = NoQuestion
  /\ asks' = asks + 1
  /\ asking' = [asking EXCEPT ![m] = p]
  /\ Says(Question(m, p))
  /\ UNCHANGED <<client, outcome, server, work, heard, stdinOpen, stdin>>

ServerHears ==
  /\ server = "up"
  /\ stdin # <<>> /\ Head(stdin).type = "CallResponse"
  /\ LET a == Head(stdin) IN
       /\ heard' = [p \in File |-> IF p = asking[a.method] THEN a.value ELSE heard[p]]
       /\ asking' = [asking EXCEPT ![a.method] = NoQuestion]
  /\ stdin' = Tail(stdin)
  /\ UNCHANGED <<client, outcome, server, work, asks, stdinOpen, stdout>>

(* The answer, once every question of the request is answered; a request that
   crashed inside the server is answered with an error. *)
ServerAnswers ==
  /\ server = "up" /\ work # NoCall
  /\ \A m \in Method : asking[m] = NoQuestion
  /\ \E f \in AnswersTo(work) : Says(f)
  /\ work' = NoCall
  /\ UNCHANGED <<client, outcome, server, asks, asking, heard, stdinOpen, stdin>>

(* A server that exits while it serves, or on the end of its stdin if it cares to;
   the frame it was writing may be cut. *)
ServerExits ==
  /\ server = "up"
  /\ ServerMayDie \/ (~stdinOpen /\ stdin = <<>> /\ work = NoCall)
  /\ server' = "gone"
  /\ cut' \in {FALSE, arrived < Halves}
  /\ UNCHANGED <<client, outcome, work, asks, asking, heard, stdinOpen, stdin, frames, arrived>>

serverStep ==
  \/ ServerTakes \/ ServerHears \/ ServerAnswers
  \/ \E m \in Method, p \in File : ServerAsks(m, p)

ClientNext ==
  \/ start
  \/ \E c \in Call : callRaw(c) \/ refused(c)
  \/ stop
  \/ clientStep
  \/ serverStep
  \/ ServerExits

ClientSpec == ClientInit /\ [][ClientNext]_clientVars
ClientLiveSpec == ClientSpec /\ WF_clientVars(clientStep) /\ WF_clientVars(serverStep)

-----------------------------------------------------------------------------
(* Properties. *)

(***************************************************************************)
(* Every variable of the client, the two pipes and the server has its type. *)
(***************************************************************************)
ClientTypeOK ==
  /\ client \in [pc : {"idle", "reading", "stopping", "killed"}, call : Call \cup {NoCall},
                 spawned : BOOLEAN, broken : BOOLEAN, reaped : BOOLEAN]
  /\ outcome \in [Call -> Call \cup {NotYet, Failed}]
  /\ server \in {"none", "up", "gone"}
  /\ work \in Call \cup {NoCall}
  /\ asks \in 0..MaxAsks
  /\ asking \in [Method -> File \cup {NoQuestion}]
  /\ heard \in [File -> {"nothing", "ours", "null"}]
  /\ stdinOpen \in BOOLEAN
  /\ stdin \in Seq(Outbound)
  /\ frames \in Seq(Inbound)
  /\ cut \in BOOLEAN /\ (cut => server = "gone" /\ frames # <<>>)
  /\ arrived \in 0..Halves

(***************************************************************************)
(* Client and server stay in step over two pipes that are read in pieces:   *)
(* while a call waits on a live server, its request is unread, or is being  *)
(* served, or its answer is all there is in the other pipe; and when no     *)
(* call waits on a sound connection nothing is under way in either          *)
(* direction, so that the next frame read belongs to the next call          *)
(* (client.cc:323 and :402 check no identity, only the frame's type).       *)
(***************************************************************************)
InStep ==
  server = "up" =>
    IF Reading
    THEN \/ stdin = <<Request(client.call)>> /\ work = NoCall /\ frames = <<>>
         \/ /\ work = client.call
            /\ \A i \in DOMAIN stdin : stdin[i].type = "CallResponse"
            /\ \A i \in DOMAIN frames : frames[i] \in Questions
         \/ /\ work = NoCall /\ stdin = <<>>
            /\ \E f \in AnswersTo(client.call) : frames = <<f>>
    ELSE ~client.broken => stdin = <<>> /\ work = NoCall /\ frames = <<>>

(***************************************************************************)
(* Whatever the server was told about a file while it served a request is   *)
(* what the provider says of that file, in whatever order the questions     *)
(* were asked and answered (client.cc:356): the server checks the bytes     *)
(* our parser saw.                                                         *)
(***************************************************************************)
OurBytes == \A p \in File : heard[p] \in {"nothing", Answer(p)}

(***************************************************************************)
(* The client implements the synchronous calls that TypeCalls promises: its *)
(* steps are those calls' steps, and with a server that keeps serving every *)
(* call returns, whether or not the server survives it (client.cc:385).     *)
(***************************************************************************)
Calls == INSTANCE TypeCalls WITH
  pending <- IF Reading THEN client.call ELSE NoCall,
  usable  <- client.spawned /\ ~client.broken

CallsImplemented == Calls!CallsSpec

(***************************************************************************)
(* stop() always comes to its end, with a server that ignores the end of    *)
(* its stdin too, and leaves no child behind (client.cc:289).               *)
(***************************************************************************)
StopEnds == (client.pc = "stopping") ~> (Idle /\ server = "gone" /\ client.reaped)

(***************************************************************************)
(* docs/tsgo-client.md:45: "EOF or a write failure sets `m_broken`; every   *)
(* later call fails fast."  A write to a server that has exited ends in a   *)
(* connection marked broken.  No code ignores SIGPIPE, and on POSIX that    *)
(* write ends the process instead.                                         *)
(***************************************************************************)
WriteFailureIsAnError == client.pc # "killed"

=============================================================================
