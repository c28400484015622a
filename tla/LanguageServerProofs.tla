------------------------ MODULE LanguageServerProofs ------------------------
(***************************************************************************)
(* Theorems about LanguageServer, for any number of handlers, processes,    *)
(* loads and document lives.  What makes a report right is the order in      *)
(* which handlers came to the pipe of the binary, so the invariants relate  *)
(* the handlers to their places in the pipe, to the configuration the       *)
(* process will have at that place, and to the loads they wait for.         *)
(***************************************************************************)
EXTENDS LanguageServer, TLAPS

(* A handler that gave its request to a binary. *)
Sent(r) == req[r].stage \in {"handoff", "lint"}

(* The lints in the pipe or answered with a report; of pulls only.          *)
Pulls == {r \in Req : req[r].kind = "pull" /\ req[r].stage # "idle"}
Linted(r) == req[r].stage = "lint" /\ answer[r] \in Config

(* The pipe and the promises agree: one message per waiting handler, of the  *)
(* kind its stage says, and a process that can load what was handed over.    *)
PipeInv ==
  /\ ~alive => pipe = << >>
  /\ \A i, j \in DOMAIN pipe : pipe[i].req = pipe[j].req => i = j
  /\ \A i \in DOMAIN pipe : pipe[i].method = "lint" <=> req[pipe[i].req].stage = "lint"
  /\ \A r \in Req : /\ answer[r] = Waiting => Sent(r)
                    /\ req[r].stage = "lint" => answer[r] # Done
                    /\ Sent(r) => handoff # NoConfig /\ engine = "native"
  /\ handed # {} => handoff # NoConfig
  /\ Len(loads) <= MaxLoads

(* The text a pull's lint was sent with never runs ahead of the document,     *)
(* and along the pipe, from the report kept on, texts only move forward.     *)
PullLint(r) == req[r].kind = "pull" /\ req[r].stage = "lint"
Before(t, u) == t.life = u.life => t.version <= u.version
Kept == states # NoState /\ states.config \notin Broken

InTextOrder(r, s) ==
  PullLint(r) /\ PullLint(s) => Before(req[r].text, req[s].text)

TextsHeld ==
  /\ \A r \in Req : req[r].stage = "lint" => /\ req[r].text.life = req[r].life
                                             /\ req[r].text.version <= version[req[r].life]
  /\ states # NoState => states.text.version <= version[states.text.life]

PipeForward ==
  \A r, s \in Req : (\E i, j \in DOMAIN pipe : i <= j /\ pipe[i].req = r /\ pipe[j].req = s)
                   => InTextOrder(r, s)

AnswerFirst ==
  \A r, s \in Req : Linted(r) /\ answer[s] = Waiting => InTextOrder(r, s)

KeptFirst ==
  \A r \in Req : Kept /\ PullLint(r) /\ answer[r] \in Config \cup {Waiting}
                => Before(states.text, req[r].text)

ForwardInv == TextsHeld /\ PipeForward /\ AnswerFirst /\ KeptFirst

(* What settles at once came of one event: of the binary's answers or of the  *)
(* loads, and of one lint at most.                                          *)
Loaded(r) == req[r].stage = "config" /\ loads[req[r].load].settled
Answered(r) == Sent(r) /\ answer[r] # Waiting

TurnInv ==
  /\ \A r, s \in Req : Linted(r) /\ Linted(s) => r = s
  /\ \A r, s \in Req : ~(Loaded(r) /\ Answered(s))
  /\ \A r \in Req : Linted(r) => alive /\ session = answer[r]
  /\ \A r \in Req : req[r].stage = "handoff" => req[r].client = spawned

(* A handler at work holds the document that is open, and the report kept is *)
(* of it; the bundled engine's is of the very text it is kept for.           *)
LifeInv ==
  /\ \A r \in Req : req[r].stage # "idle" => isOpen /\ req[r].life = life
  /\ states # NoState =>
       /\ isOpen
       /\ states.text.life = life
       /\ engine = "wasm" => states.text.version = states.version

(* Loads settle, and are handed over, in the order they began; the one in the *)
(* cache is the last and read the configuration of now, once that was        *)
(* noticed; and the handoff file has the last one handed over.               *)
CacheInv ==
  /\ load \in {0, Len(loads)}
  /\ noticed /\ load # 0 => loads[load].read = config
  /\ enabled /\ isOpen /\ noticed /\ ~due => load # 0

Awaits(r) == req[r].stage = "config"

SettledInv ==
  /\ \A i \in handed : loads[i].settled
  /\ \A r, s \in Req : Loaded(r) /\ Awaits(s) => req[r].load <= req[s].load
  /\ \A r \in Req : Awaits(r) => \A i \in handed : i <= req[r].load
  /\ \A r \in Req : Awaits(r) /\ load # 0 /\ loads[load].settled => req[r].load = load

HandedInv ==
  handed # {} => \E k \in handed : /\ \A i \in handed : i <= k
                                   /\ handoff = loads[k].read

LoadInv == CacheInv /\ SettledInv /\ HandedInv

(* At this place in the pipe, or after its end, a lint is answered under the  *)
(* configuration in the handoff file or not at all.                         *)
Certain(i) ==
  \/ session \in {NoConfig, handoff}
  \/ \E k \in 1..(i - 1) : pipe[k].method = "configChanged"

CertainAtEnd ==
  \/ session \in {NoConfig, handoff}
  \/ \E k \in DOMAIN pipe : pipe[k].method = "configChanged"

(* A pull that will report the text and the configuration of now, or fail.    *)
OnTime(r) ==
  \/ req[r].stage = "config" /\ req[r].load = load
  \/ req[r].stage = "handoff" /\ load \in handed
  \/ /\ req[r].stage = "lint" /\ load \in handed
     /\ req[r].text = textOf(life)
     /\ answer[r] \in {Waiting, config}
     /\ \A i \in DOMAIN pipe : pipe[i].req = r => Certain(i)

Fails(r) == req[r].stage = "lint" /\ answer[r] = Failed

Current ==
  /\ states.text = textOf(life)
  /\ states.version = version[life]
  /\ states.config = config

(* Once the client has pulled, a pull is on time, or those left have failed   *)
(* and nothing older is kept but what they take away.                       *)
Timely == \E r \in Pulls : OnTime(r)

Spent ==
  /\ \A r \in Pulls : Fails(r)
  /\ states = NoState \/ Current \/ Pulls # {}

CurrentInv ==
  /\ CertainAtEnd
  /\ Answering => Timely \/ Spent

-----------------------------------------------------------------------------
(* Queues of messages. *)

LEMMA Appended ==
  ASSUME NEW s \in Seq(Message), NEW m \in Message
  PROVE  /\ Append(s, m) \in Seq(Message)
         /\ DOMAIN s = 1..Len(s)
         /\ Len(s) \in Nat
         /\ Len(Append(s, m)) = Len(s) + 1
         /\ DOMAIN Append(s, m) = 1..(Len(s) + 1)
         /\ \A i \in 1..Len(s) : Append(s, m)[i] = s[i]
         /\ Append(s, m)[Len(s) + 1] = m
  OBVIOUS

LEMMA Tailed ==
  ASSUME NEW s \in Seq(Message), s # << >>
  PROVE  /\ Tail(s) \in Seq(Message)
         /\ Len(s) \in Nat \ {0}
         /\ DOMAIN s = 1..Len(s)
         /\ Len(Tail(s)) = Len(s) - 1
         /\ DOMAIN Tail(s) = 1..(Len(s) - 1)
         /\ \A i \in 1..(Len(s) - 1) : Tail(s)[i] = s[i + 1]
         /\ Head(s) = s[1]
         /\ Head(s) \in Message
  OBVIOUS

LEMMA Elements ==
  ASSUME NEW s \in Seq(Message)
  PROVE  /\ DOMAIN s = 1..Len(s)
         /\ Len(s) \in Nat
         /\ \A i \in 1..Len(s) : s[i].req \in Req /\ s[i].method \in {"lint", "configChanged"}
  <1>1. \A i \in 1..Len(s) : s[i] \in Message
    OBVIOUS
  <1> QED BY <1>1 DEF Message

LEMMA IdleTyped == Idle \in Handler
  BY ClientAssumption, ServerAssumption DEF Idle, Handler, Text, Lives
-----------------------------------------------------------------------------
(* What the actions do to the pipe, whichever way they go about it.           *)

MessageOf(r, method) == [method |-> method, req |-> r]

(* A message goes to the end of the pipe and its handler waits for it.        *)
Posts(r, method) ==
  /\ pipe' = Append(pipe, MessageOf(r, method))
  /\ answer' = [answer EXCEPT ![r] = Waiting]
  /\ alive'

LEMMA Spawning ==
  ASSUME TypeOK, PipeInv, NEW r \in Req, NEW method \in {"lint", "configChanged"},
         spawnAndRequest(r, method)
  PROVE  /\ Posts(r, method)
         /\ \/ alive /\ spawned' = spawned /\ session' = session
            \/ ~alive /\ spawned' = spawned + 1 /\ session' = NoConfig
         /\ spawned' \in 0..MaxSpawns
  <1>1. alive \in BOOLEAN /\ spawned \in 0..MaxSpawns /\ (~alive => pipe = << >>)
    BY DEF TypeOK, ClientTypeOK, PipeInv
  <1>2. CASE alive
    BY <1>1, <1>2 DEF spawnAndRequest, Posts, MessageOf, sent
  <1>3. CASE ~alive
    <2>1. pipe' = <<MessageOf(r, method)>>
      BY <1>3 DEF spawnAndRequest, MessageOf
    <2>2. Append(<< >>, MessageOf(r, method)) = <<MessageOf(r, method)>>
      OBVIOUS
    <2>3. Posts(r, method)
      BY <1>1, <1>3, <2>1, <2>2 DEF spawnAndRequest, Posts
    <2>4. spawned' = spawned + 1 /\ session' = NoConfig /\ spawned < MaxSpawns
      BY <1>3 DEF spawnAndRequest
    <2> QED BY <1>1, <1>3, <2>3, <2>4, ClientAssumption
  <1> QED BY <1>1, <1>2, <1>3

LEMMA Requesting ==
  ASSUME NEW r \in Req, NEW client, NEW method \in {"lint", "configChanged"},
         request(r, client, method), alive \in BOOLEAN, UNCHANGED alive
  PROVE  \/ Posts(r, method) /\ client = spawned
         \/ ~(alive /\ client = spawned) /\ UNCHANGED pipe /\ answer' = [answer EXCEPT ![r] = Failed]
  BY DEF request, CanSend, Posts, MessageOf, sent

(* Each promise is settled by the message in the pipe, through its client.    *)
FlightInv ==
  \A r \in Req : /\ answer[r] = Waiting <=> r \in InFlight
                 /\ r \in InFlight => req[r].client = spawned

StageOf(method) == IF method = "lint" THEN "lint" ELSE "handoff"

LEMMA Posting ==
  ASSUME TypeOK, PipeInv,
         NEW r \in Req, NEW method \in {"lint", "configChanged"},
         Posts(r, method),
         answer[r] # Waiting,
         \A q \in Req \ {r} : req'[q] = req[q],
         req'[r].stage = StageOf(method),
         req'[r].client = spawned',
         alive => spawned' = spawned,
         handoff' # NoConfig, engine = "native", UNCHANGED <<engine, loads>>
  PROVE  /\ PipeInv'
         /\ FlightInv'
         /\ pipe' \in Seq(Message)
         /\ answer' \in [Req -> Answer]
         /\ alive' \in BOOLEAN
  <1> DEFINE m == MessageOf(r, method)
  <1>1. /\ pipe \in Seq(Message) /\ m \in Message /\ pipe' = Append(pipe, m)
        /\ m.req = r /\ m.method = method
    BY DEF TypeOK, ClientTypeOK, Posts, MessageOf, Message
  <1>2. /\ Len(pipe) \in Nat
        /\ DOMAIN pipe = 1..Len(pipe)
        /\ DOMAIN pipe' = 1..(Len(pipe) + 1)
        /\ \A i \in 1..Len(pipe) : pipe'[i] = pipe[i]
        /\ pipe'[Len(pipe) + 1] = m
        /\ pipe' \in Seq(Message)
    BY <1>1, Appended
  <1>3. /\ answer \in [Req -> Answer]
        /\ answer' = [answer EXCEPT ![r] = Waiting]
        /\ answer' \in [Req -> Answer]
        /\ alive' \in BOOLEAN
        /\ alive'
    BY DEF TypeOK, ClientTypeOK, Answer, Posts
  <1>4. FlightInv
    BY DEF TypeOK, FlightInv
  <1>5. \A i \in 1..Len(pipe) : pipe[i].req \in Req \ {r}
    <2>1. r \notin InFlight
      BY <1>4 DEF FlightInv
    <2>2. \A i \in 1..Len(pipe) : pipe[i].req \in InFlight
      BY <1>2 DEF InFlight
    <2>3. \A i \in 1..Len(pipe) : pipe[i].req \in Req
      BY <1>1, Elements
    <2> QED BY <2>1, <2>2, <2>3
  <1>6. InFlight' = InFlight \cup {r}
    <2>1. ASSUME NEW q \in InFlight' PROVE q \in InFlight \cup {r}
      <3>1. PICK i \in 1..(Len(pipe) + 1) : q = pipe'[i].req
        BY <1>2 DEF InFlight
      <3>2. CASE i \in 1..Len(pipe)
        BY <3>1, <3>2, <1>2 DEF InFlight
      <3>3. CASE i = Len(pipe) + 1
        BY <3>1, <3>3, <1>2, <1>1
      <3> QED BY <3>1, <3>2, <3>3, <1>2
    <2>2. ASSUME NEW q \in InFlight PROVE q \in InFlight'
      BY <2>2, <1>2 DEF InFlight
    <2>3. r \in InFlight'
      <3>1. Len(pipe) + 1 \in DOMAIN pipe' /\ pipe'[Len(pipe) + 1].req = r
        BY <1>1, <1>2
      <3> QED BY <3>1 DEF InFlight
    <2> QED BY <2>1, <2>2, <2>3
  <1>7. InFlight # {} => alive
    BY DEF InFlight, PipeInv
  <1>8. FlightInv'
    BY <1>3, <1>4, <1>6, <1>7 DEF FlightInv
  <1>9. PipeInv'
    <2>1. ~alive' => pipe' = << >>
      BY <1>3
    <2>2. \A i, j \in DOMAIN pipe' : pipe'[i].req = pipe'[j].req => i = j
      <3>1. \A i, j \in 1..Len(pipe) : pipe[i].req = pipe[j].req => i = j
        BY <1>2 DEF PipeInv
      <3> QED BY <3>1, <1>1, <1>2, <1>5
    <2>3. \A i \in DOMAIN pipe' : pipe'[i].method = "lint" <=> req'[pipe'[i].req].stage = "lint"
      <3>1. \A i \in 1..Len(pipe) : pipe[i].method = "lint" <=> req[pipe[i].req].stage = "lint"
        BY <1>2 DEF PipeInv
      <3>2. \A i \in 1..Len(pipe) : req'[pipe[i].req] = req[pipe[i].req]
        BY <1>5
      <3>3. m.method = "lint" <=> req'[m.req].stage = "lint"
        BY <1>1 DEF StageOf
      <3> QED BY <3>1, <3>2, <3>3, <1>2
    <2>4. \A q \in Req : /\ answer'[q] = Waiting => Sent(q)'
                         /\ req'[q].stage = "lint" => answer'[q] # Done
                         /\ Sent(q)' => handoff' # NoConfig /\ engine' = "native"
      BY <1>3, ClientAssumption DEF PipeInv, Sent, StageOf
    <2>5. Len(loads') <= MaxLoads
      BY DEF PipeInv
    <2> HIDE DEF m
    <2> QED BY <2>1, <2>2, <2>3, <2>4, <2>5 DEF PipeInv
  <1> QED BY <1>2, <1>3, <1>8, <1>9

LEMMA Failing ==
  ASSUME TypeOK, PipeInv, NEW r \in Req,
         answer[r] # Waiting,
         answer' = [answer EXCEPT ![r] = Failed],
         \A q \in Req \ {r} : req'[q] = req[q],
         req'[r].stage = "lint",
         handoff # NoConfig, engine = "native",
         UNCHANGED <<pipe, alive, spawned, handoff, handed, engine, loads>>
  PROVE  PipeInv' /\ FlightInv' /\ answer' \in [Req -> Answer]
  <1>1. FlightInv /\ answer \in [Req -> Answer] /\ pipe \in Seq(Message)
    BY DEF TypeOK, FlightInv, ClientTypeOK
  <1>2. InFlight' = InFlight /\ r \notin InFlight
    <2>1. r \notin InFlight
      BY <1>1 DEF FlightInv
    <2>2. InFlight' = InFlight
      BY DEF InFlight
    <2> QED BY <2>1, <2>2
  <1>3. answer' \in [Req -> Answer] /\ FlightInv'
    BY <1>1, <1>2, ClientAssumption DEF FlightInv, Answer
  <1>4. \A i \in DOMAIN pipe : pipe[i].req \in Req \ {r}
    <2>1. \A i \in DOMAIN pipe : pipe[i].req \in InFlight
      BY DEF InFlight
    <2>2. \A i \in DOMAIN pipe : pipe[i].req \in Req
      BY <1>1, Elements
    <2> QED BY <1>2, <2>1, <2>2
  <1>5. PipeInv'
    BY <1>1, <1>4, ClientAssumption DEF PipeInv, Sent
  <1> QED BY <1>3, <1>5

(* The answer to the first request in the pipe, and the session after it.      *)
NextSession == IF session = NoConfig THEN handoff ELSE session

Takes(q, x) ==
  /\ alive
  /\ q \in Req /\ pipe # << >> /\ q = pipe[1].req
  /\ Len(pipe) \in Nat \ {0} /\ Len(pipe') = Len(pipe) - 1
  /\ DOMAIN pipe = 1..Len(pipe) /\ DOMAIN pipe' = 1..(Len(pipe) - 1)
  /\ \A i \in 1..(Len(pipe) - 1) : pipe'[i] = pipe[i + 1]
  /\ pipe' \in Seq(Message)
  /\ answer' = [answer EXCEPT ![q] = x]
  /\ \/ pipe[1].method = "lint" /\ x \in Config /\ x = NextSession /\ session' = NextSession
     \/ pipe[1].method = "lint" /\ x = Failed /\ session' \in {session, NextSession}
     \/ pipe[1].method = "configChanged" /\ x = Done /\ session' = NoConfig
  /\ session' \in Config \cup {NoConfig}
  /\ UNCHANGED <<spawned, alive, handoff>>

LEMMA Serving ==
  ASSUME TypeOK, PipeInv, Serves
  PROVE  \E q, x : Takes(q, x)
  <1>1. /\ pipe \in Seq(Message) /\ session \in Config \cup {NoConfig}
        /\ handoff \in Config \cup {NoConfig} /\ FlightInv
    BY DEF TypeOK, ClientTypeOK, FlightInv
  <1>2. alive /\ pipe # << >> /\ pipe' = Tail(pipe) /\ UNCHANGED <<spawned, alive, handoff>>
    BY DEF Serves
  <1>3. /\ Len(pipe) \in Nat \ {0} /\ Len(pipe') = Len(pipe) - 1
        /\ DOMAIN pipe = 1..Len(pipe) /\ DOMAIN pipe' = 1..(Len(pipe) - 1)
        /\ \A i \in 1..(Len(pipe) - 1) : pipe'[i] = pipe[i + 1]
        /\ pipe' \in Seq(Message)
        /\ Head(pipe) = pipe[1]
    BY <1>1, <1>2, Tailed
  <1>4. pipe[1].req \in Req /\ pipe[1].req \in InFlight
    <2>1. 1 \in DOMAIN pipe
      BY <1>3
    <2>2. pipe[1].req \in Req
      BY <1>1, <1>3, Elements
    <2> QED BY <2>1, <2>2 DEF InFlight
  <1>5. handoff # NoConfig
    BY <1>1, <1>4 DEF FlightInv, PipeInv
  <1>6. NextSession \in Config
    BY <1>1, <1>5 DEF NextSession
  <1>7. \E x : /\ answer' = [answer EXCEPT ![pipe[1].req] = x]
               /\ \/ pipe[1].method = "lint" /\ x = NextSession /\ session' = NextSession
                  \/ pipe[1].method = "lint" /\ x = Failed /\ session' \in {session, NextSession}
                  \/ pipe[1].method = "configChanged" /\ x = Done /\ session' = NoConfig
    BY <1>3 DEF Serves, NextSession
  <1> QED BY <1>1, <1>2, <1>3, <1>4, <1>6, <1>7 DEF Takes

LEMMA Taking ==
  ASSUME TypeOK, PipeInv, NEW q, NEW x, Takes(q, x),
         UNCHANGED <<req, loads, engine, handed>>
  PROVE  PipeInv' /\ FlightInv' /\ answer' \in [Req -> Answer]
  <1>1. FlightInv /\ answer \in [Req -> Answer] /\ pipe \in Seq(Message)
    BY DEF TypeOK, FlightInv, ClientTypeOK
  <1>2. answer' \in [Req -> Answer] /\ x # Waiting
    BY <1>1, ClientAssumption DEF Takes, Answer
  <1>3. \A i, j \in 1..Len(pipe) : pipe[i].req = pipe[j].req => i = j
    BY DEF PipeInv, Takes
  <1>4. \A i \in 1..(Len(pipe) - 1) : i + 1 \in 1..Len(pipe) /\ pipe[i + 1].req # q
    BY <1>3 DEF Takes
  <1>5. InFlight' = InFlight \ {q}
    <2>1. ASSUME NEW s \in InFlight' PROVE s \in InFlight \ {q}
      <3>1. PICK i \in 1..(Len(pipe) - 1) : s = pipe'[i].req
        BY DEF InFlight, Takes
      <3>2. s = pipe[i + 1].req /\ i + 1 \in DOMAIN pipe
        BY <3>1, <1>4 DEF Takes
      <3> QED BY <3>2, <1>4 DEF InFlight
    <2>2. ASSUME NEW s \in InFlight \ {q} PROVE s \in InFlight'
      <3>1. PICK i \in 1..Len(pipe) : s = pipe[i].req
        BY DEF InFlight, Takes
      <3>2. i # 1 /\ i - 1 \in 1..(Len(pipe) - 1) /\ pipe'[i - 1] = pipe[(i - 1) + 1] /\ (i - 1) + 1 = i
        BY <3>1 DEF Takes
      <3>3. i - 1 \in DOMAIN pipe' /\ s = pipe'[i - 1].req
        BY <3>1, <3>2 DEF Takes
      <3> QED BY <3>3 DEF InFlight
    <2> QED BY <2>1, <2>2
  <1>6. \A s \in Req \ {q} : answer'[s] = answer[s]
    BY <1>1 DEF Takes
  <1>7. answer'[q] = x /\ q \in Req
    BY <1>1 DEF Takes
  <1>8. FlightInv'
    <2>1. \A s \in Req : (s \in InFlight)' => s \in InFlight
      BY <1>5
    <2>2. \A s \in Req : answer'[s] = Waiting <=> s \in InFlight'
      BY <1>1, <1>2, <1>5, <1>6, <1>7 DEF FlightInv
    <2> QED BY <1>1, <2>1, <2>2 DEF FlightInv, Takes
  <1>9. PipeInv'
    <2>1. ~alive' => pipe' = << >>
      BY DEF Takes
    <2>2. \A i, j \in DOMAIN pipe' : pipe'[i].req = pipe'[j].req => i = j
      <3> SUFFICES ASSUME NEW i \in DOMAIN pipe', NEW j \in DOMAIN pipe', pipe'[i].req = pipe'[j].req
                   PROVE  i = j
        OBVIOUS
      <3>1. i \in 1..(Len(pipe) - 1) /\ j \in 1..(Len(pipe) - 1) /\ Len(pipe) \in Nat
        BY DEF Takes
      <3>2. pipe'[i] = pipe[i + 1] /\ pipe'[j] = pipe[j + 1]
        BY <3>1 DEF Takes
      <3>3. i + 1 = j + 1
        BY <1>3, <1>4, <3>1, <3>2
      <3> QED BY ONLY <3>1, <3>3
    <2>3. \A i \in DOMAIN pipe' : pipe'[i].method = "lint" <=> req'[pipe'[i].req].stage = "lint"
      <3>1. \A i \in 1..Len(pipe) : pipe[i].method = "lint" <=> req[pipe[i].req].stage = "lint"
        BY DEF PipeInv, Takes
      <3>2. \A i \in 1..(Len(pipe) - 1) : pipe'[i] = pipe[i + 1]
        BY DEF Takes
      <3>3. DOMAIN pipe' = 1..(Len(pipe) - 1) /\ req' = req
        BY DEF Takes
      <3> QED BY <1>4, <3>1, <3>2, <3>3
    <2>4. \A s \in Req : /\ answer'[s] = Waiting => Sent(s)'
                         /\ req'[s].stage = "lint" => answer'[s] # Done
                         /\ Sent(s)' => handoff' # NoConfig /\ engine' = "native"
      <3>1. pipe[1].method = "lint" <=> req[q].stage = "lint"
        BY DEF PipeInv, Takes
      <3>2. req[q].stage = "lint" => x # Done
        BY <3>1, ClientAssumption DEF Takes
      <3> QED BY <1>2, <1>6, <1>7, <3>2 DEF PipeInv, Sent, Takes
    <2> QED BY <2>1, <2>2, <2>3, <2>4 DEF PipeInv, Takes
  <1> QED BY <1>2, <1>8, <1>9

LEMMA Exiting ==
  ASSUME TypeOK, PipeInv, Exits, UNCHANGED <<req, loads, engine, handed>>
  PROVE  /\ PipeInv' /\ FlightInv' /\ ClientTypeOK'
         /\ \A r \in Req : answer'[r] = IF answer[r] = Waiting THEN Failed ELSE answer[r]
  <1>1. FlightInv /\ answer \in [Req -> Answer] /\ spawned \in 0..MaxSpawns
        /\ handoff \in Config \cup {NoConfig}
    BY DEF TypeOK, FlightInv, ClientTypeOK
  <1>2. answer' = [r \in Req |-> IF r \in InFlight THEN Failed ELSE answer[r]]
    BY DEF Exits, rejectedAll
  <1>3. \A r \in Req : answer'[r] = IF answer[r] = Waiting THEN Failed ELSE answer[r]
    BY <1>1, <1>2 DEF FlightInv
  <1>4. pipe' = << >> /\ alive' = FALSE /\ session' = NoConfig /\ UNCHANGED <<spawned, handoff>>
    BY DEF Exits
  <1>5. InFlight' = {}
    BY <1>4 DEF InFlight
  <1>6. FlightInv'
    BY <1>3, <1>5, ClientAssumption DEF FlightInv
  <1>7. PipeInv'
    <2>1. \A r \in Req : answer'[r] # Waiting /\ (answer'[r] = Done => answer[r] = Done)
      BY <1>3, ClientAssumption
    <2> QED BY <1>4, <2>1 DEF PipeInv, Sent
  <1>8. answer' \in [Req -> Answer]
    BY <1>1, <1>2 DEF Answer
  <1>9. ClientTypeOK'
    <2>1. << >> \in Seq(Message)
      OBVIOUS
    <2> QED BY <1>1, <1>4, <1>8, <2>1 DEF ClientTypeOK
  <1> QED BY <1>3, <1>6, <1>7, <1>9
-----------------------------------------------------------------------------
(* TypeOK holds of every state, and so does PipeInv. *)

RestTyped ==
  /\ life \in Lives
  /\ isOpen \in BOOLEAN
  /\ version \in [Lives -> 1..MaxVersion]
  /\ enabled \in BOOLEAN
  /\ engine \in Engine
  /\ config \in Config
  /\ noticed \in BOOLEAN
  /\ configEdits \in 0..MaxConfigEdits
  /\ loads \in Seq(Load)
  /\ load \in 0..Len(loads)
  /\ handed \subseteq DOMAIN loads
  /\ states \in State \cup {NoState}
  /\ req \in [Req -> Handler]
  /\ due \in BOOLEAN
  /\ offer \in Offer \cup {NoOffer}
  /\ \A r \in Req : req[r].stage # "idle" => req[r].load \in DOMAIN loads

LEMMA TypeParts == TypeOK <=> ClientTypeOK /\ RestTyped /\ FlightInv
  BY DEF TypeOK, RestTyped, FlightInv

LEMMA TypePartsPrime == TypeOK' <=> ClientTypeOK' /\ RestTyped' /\ FlightInv'
  BY TypeParts, PTL

LEMMA LoadsAre ==
  ASSUME NEW s \in Seq(Load)
  PROVE  /\ DOMAIN s = 1..Len(s) /\ Len(s) \in Nat
         /\ \A i \in DOMAIN s : s[i].read \in Config /\ s[i].settled \in BOOLEAN
  <1>1. \A i \in 1..Len(s) : s[i] \in Load
    OBVIOUS
  <1> QED BY <1>1 DEF Load

LEMMA LoadBegun ==
  ASSUME NEW s \in Seq(Load), NEW c \in Config
  PROVE  LET t == Append(s, [read |-> c, settled |-> FALSE])
         IN  /\ t \in Seq(Load) /\ Len(t) = Len(s) + 1
             /\ DOMAIN t = 1..(Len(s) + 1) /\ DOMAIN s = 1..Len(s) /\ Len(s) \in Nat
             /\ \A i \in DOMAIN s : t[i] = s[i]
             /\ t[Len(s) + 1].read = c /\ ~t[Len(s) + 1].settled
  <1>1. [read |-> c, settled |-> FALSE] \in Load
    BY DEF Load
  <1> QED BY <1>1

LEMMA LoadSettled ==
  ASSUME NEW s \in Seq(Load), NEW i \in DOMAIN s
  PROVE  LET t == [s EXCEPT ![i].settled = TRUE]
         IN  /\ t \in Seq(Load) /\ Len(t) = Len(s) /\ DOMAIN t = DOMAIN s
             /\ \A j \in DOMAIN s : /\ t[j].read = s[j].read
                                    /\ t[j].settled = (j = i \/ s[j].settled)
  <1> DEFINE t == [s EXCEPT ![i].settled = TRUE]
  <1>1. DOMAIN s = 1..Len(s) /\ Len(s) \in Nat /\ \A j \in 1..Len(s) : s[j] \in Load
    OBVIOUS
  <1>2. DOMAIN t = 1..Len(s)
    BY <1>1
  <1>3. \A j \in 1..Len(s) : t[j] = IF j = i THEN [s[j] EXCEPT !.settled = TRUE] ELSE s[j]
    BY <1>1
  <1>4. \A j \in 1..Len(s) : /\ t[j] \in Load
                             /\ t[j].read = s[j].read
                             /\ t[j].settled = (j = i \/ s[j].settled)
    BY <1>1, <1>3 DEF Load
  <1>5. t \in [1..Len(s) -> Load]
    BY <1>2, <1>4
  <1>6. t \in Seq(Load) /\ Len(t) = Len(s)
    <2> HIDE DEF t
    <2> QED BY <1>1, <1>5
  <1> QED BY <1>1, <1>2, <1>4, <1>6

LEMMA ClientKept ==
  ASSUME TypeOK, PipeInv, UNCHANGED <<clientVars, req, engine, handed>>, Len(loads') <= MaxLoads
  PROVE  PipeInv' /\ FlightInv' /\ ClientTypeOK'
  BY DEF TypeOK, FlightInv, ClientTypeOK, PipeInv, Sent, InFlight, clientVars

LEMMA HandlerMoves ==
  ASSUME TypeOK, PipeInv, NEW r \in Req, answer[r] # Waiting,
         \A q \in Req \ {r} : req'[q] = req[q],
         req'[r].stage \in {"idle", "config"},
         UNCHANGED <<clientVars, engine, handed>>, Len(loads') <= MaxLoads
  PROVE  PipeInv' /\ FlightInv' /\ ClientTypeOK'
  <1>1. FlightInv /\ ClientTypeOK /\ pipe \in Seq(Message)
    BY DEF TypeOK, FlightInv, ClientTypeOK
  <1>2. UNCHANGED <<spawned, alive, pipe, session, handoff, answer>>
    BY DEF clientVars
  <1>3. ClientTypeOK' /\ InFlight' = InFlight
    BY <1>1, <1>2 DEF ClientTypeOK, InFlight
  <1>4. r \notin InFlight
    BY <1>1 DEF FlightInv
  <1>5. FlightInv'
    BY <1>1, <1>2, <1>3, <1>4 DEF FlightInv
  <1>6. \A i \in DOMAIN pipe : pipe[i].req \in Req \ {r}
    <2>1. \A i \in DOMAIN pipe : pipe[i].req \in InFlight
      BY DEF InFlight
    <2>2. \A i \in DOMAIN pipe : pipe[i].req \in Req
      BY <1>1, Elements
    <2> QED BY <1>4, <2>1, <2>2
  <1>7. PipeInv'
    BY <1>2, <1>6 DEF PipeInv, Sent
  <1> QED BY <1>3, <1>5, <1>7

LEMMA StartedHandler ==
  ASSUME TypeOK, NEW r \in Req, NEW kind \in {"pull", "fixAll"}, load' \in 0..MaxLoads,
         Resolving(r, kind)
  PROVE  /\ req' \in [Req -> Handler]
         /\ \A q \in Req \ {r} : req'[q] = req[q]
         /\ req'[r].kind = kind /\ req'[r].stage = "config" /\ req'[r].life = life
         /\ req'[r].load = load'
  BY IdleTyped DEF TypeOK, Resolving, Handler, Idle

LEMMA ForFile ==
  ASSUME TypeOK, PipeInv, forFile
  PROVE  /\ loads' \in Seq(Load) /\ Len(loads') \in Nat /\ Len(loads') <= MaxLoads
         /\ Len(loads) \in Nat /\ Len(loads) <= Len(loads')
         /\ DOMAIN loads' = 1..Len(loads') /\ DOMAIN loads = 1..Len(loads)
         /\ load' \in 1..Len(loads')
         /\ \A i \in DOMAIN loads : loads'[i] = loads[i]
         /\ \/ load # 0 /\ load' = load /\ loads' = loads
            \/ /\ load = 0 /\ load' = Len(loads') /\ Len(loads') = Len(loads) + 1
               /\ loads'[load'].read = config /\ ~loads'[load'].settled
  <1>1. loads \in Seq(Load) /\ load \in 0..Len(loads) /\ config \in Config /\ Len(loads) <= MaxLoads
    BY DEF TypeOK, PipeInv
  <1>2. DOMAIN loads = 1..Len(loads) /\ Len(loads) \in Nat
    BY <1>1
  <1>3. CASE load # 0
    <2>1. load' = load /\ loads' = loads
      BY <1>3 DEF forFile
    <2>2. load \in 1..Len(loads)
      BY <1>1, <1>2, <1>3
    <2>3. Len(loads') = Len(loads) /\ DOMAIN loads' = DOMAIN loads
      BY <2>1
    <2>4. Len(loads) <= Len(loads)
      BY <1>2
    <2> QED BY ONLY <1>1, <1>2, <1>3, <2>1, <2>2, <2>3, <2>4
  <1>4. CASE load = 0
    <2>1. /\ loads' = Append(loads, [read |-> config, settled |-> FALSE])
          /\ load' = Len(loads') /\ Len(loads) < MaxLoads
      BY <1>4 DEF forFile
    <2> QED BY <1>1, <1>2, <1>4, <2>1, LoadBegun, ServerAssumption
  <1> QED BY <1>3, <1>4

LEMMA EventsTyped ==
  ASSUME TypeOK, PipeInv,
         \/ Open \/ Change \/ Close \/ EditConfig \/ Notice \/ ChangeSettings \/ QuickFix
         \/ \E i \in DOMAIN loads : LoadSettles(i)
  PROVE  TypeOK' /\ PipeInv'
  <1>1. RestTyped /\ loads \in Seq(Load) /\ Len(loads) <= MaxLoads /\ Len(loads) \in Nat
    BY LoadsAre DEF TypeOK, RestTyped, PipeInv
  <1>2. SUFFICES RestTyped' /\ Len(loads') <= MaxLoads /\ UNCHANGED <<clientVars, req, engine, handed>>
    BY TypePartsPrime, ClientKept
  <1> USE DEF documentVars, configVars, Event
  <1>3. CASE Open
    BY <1>1, <1>3, ServerAssumption DEF Open, RestTyped, Lives, Offer
  <1>4. CASE Change
    <2>1. version' \in [Lives -> 1..MaxVersion]
      <3>1. version \in [Lives -> 1..MaxVersion] /\ version[life] < MaxVersion /\ MaxVersion \in Nat
        BY <1>1, <1>4, ServerAssumption DEF Change, RestTyped
      <3>2. version' = [version EXCEPT ![life] = @ + 1]
        BY <1>4 DEF Change
      <3>3. version[life] + 1 \in 1..MaxVersion \/ life \notin Lives
        BY ONLY <3>1
      <3> QED BY ONLY <3>1, <3>2, <3>3
    <2> QED BY <1>1, <1>4, <2>1 DEF Change, RestTyped
  <1>5. CASE Close
    BY <1>1, <1>5, ServerAssumption DEF Close, RestTyped
  <1>6. CASE EditConfig
    <2>1. config' \in Config
      BY <1>6 DEF EditConfig
    <2>2. configEdits' \in 0..MaxConfigEdits
      BY <1>1, <1>6, ServerAssumption DEF EditConfig, RestTyped
    <2> QED BY <1>1, <1>6, <2>1, <2>2 DEF EditConfig, RestTyped
  <1>7. CASE Notice
    BY <1>1, <1>7, ServerAssumption DEF Notice, clearConfigs, RestTyped
  <1>8. CASE ChangeSettings
    BY <1>1, <1>8, ServerAssumption DEF ChangeSettings, RestTyped
  <1>9. CASE QuickFix
    <2>1. textOf(life) \in Text /\ states.text \in Text
      BY <1>1, <1>9 DEF QuickFix, RestTyped, textOf, Text, State
    <2>2. offer' \in Offer
      BY <2>1, <1>9 DEF QuickFix, Offer
    <2> QED BY <1>1, <1>9, <2>2 DEF QuickFix, RestTyped
  <1>10. CASE \E i \in DOMAIN loads : LoadSettles(i)
    <2>1. PICK i \in DOMAIN loads : LoadSettles(i)
      BY <1>10
    <2>2. /\ loads' = [loads EXCEPT ![i].settled = TRUE]
          /\ UNCHANGED <<clientVars, req, engine, handed>>
      BY <2>1 DEF LoadSettles
    <2>3. /\ loads' \in Seq(Load) /\ Len(loads') = Len(loads) /\ DOMAIN loads' = DOMAIN loads
      BY <1>1, <2>2, LoadSettled
    <2> QED BY <1>1, <2>1, <2>2, <2>3 DEF LoadSettles, RestTyped
  <1> QED BY <1>3, <1>4, <1>5, <1>6, <1>7, <1>8, <1>9, <1>10

LEMMA BinaryTyped ==
  ASSUME TypeOK, PipeInv, BinaryAnswers \/ BinaryExits
  PROVE  TypeOK' /\ PipeInv'
  <1>1. RestTyped /\ ClientTypeOK
    BY DEF TypeOK, RestTyped
  <1>2. UNCHANGED <<documentVars, enabled, engine, configVars, loads, load, handed, states, req, due>>
        /\ offer' = NoOffer
    BY DEF BinaryAnswers, BinaryExits, Event
  <1>3. RestTyped'
    BY <1>1, <1>2 DEF RestTyped, documentVars, configVars
  <1>4. CASE BinaryAnswers
    <2>1. PICK q, x : Takes(q, x)
      BY <1>4, Serving DEF BinaryAnswers
    <2>2. PipeInv' /\ FlightInv' /\ answer' \in [Req -> Answer]
      BY <1>2, <2>1, Taking
    <2>3. ClientTypeOK'
      BY <1>1, <2>1, <2>2 DEF ClientTypeOK, Takes
    <2> QED BY <1>3, <2>2, <2>3, TypePartsPrime
  <1>5. CASE BinaryExits
    BY <1>2, <1>3, <1>5, Exiting, TypePartsPrime DEF BinaryExits
  <1> QED BY <1>4, <1>5

LEMMA PullTyped ==
  ASSUME TypeOK, PipeInv, NEW r \in Req, Pull(r) \/ FixAll(r)
  PROVE  TypeOK' /\ PipeInv'
  <1>1. RestTyped /\ ClientTypeOK /\ Len(loads) <= MaxLoads /\ MaxLoads \in Nat
    BY ServerAssumption DEF TypeOK, RestTyped, PipeInv
  <1>2. answer[r] # Waiting
    BY DEF Pull, FixAll, PipeInv, Sent
  <1> USE DEF Event, documentVars, configVars
  <1>3. CASE Pull(r) /\ ~enabled
    <2>1. RestTyped'
      BY <1>1, <1>3 DEF Pull, RestTyped
    <2>2. PipeInv' /\ FlightInv' /\ ClientTypeOK'
      BY <1>1, <1>3, ClientKept DEF Pull
    <2> QED BY <2>1, <2>2, TypePartsPrime
  <1>4. ASSUME NEW kind \in {"pull", "fixAll"}, forFile, Resolving(r, kind),
               UNCHANGED <<clientVars, documentVars, enabled, engine, configVars, handed, states>>,
               due' \in BOOLEAN, offer' = NoOffer
        PROVE  TypeOK' /\ PipeInv'
    <2>1. /\ loads' \in Seq(Load) /\ Len(loads') \in Nat /\ Len(loads') <= MaxLoads
          /\ Len(loads) \in Nat /\ Len(loads) <= Len(loads')
          /\ DOMAIN loads' = 1..Len(loads') /\ DOMAIN loads = 1..Len(loads)
          /\ load' \in 1..Len(loads')
      BY <1>4, ForFile
    <2>2. load' \in 0..MaxLoads /\ load' \in 0..Len(loads')
      BY <1>1, <2>1
    <2>3. /\ req' \in [Req -> Handler]
          /\ \A q \in Req \ {r} : req'[q] = req[q]
          /\ req'[r].stage = "config" /\ req'[r].load = load'
      BY <1>4, <2>2, StartedHandler
    <2>4. \A q \in Req : req'[q].stage # "idle" => req'[q].load \in DOMAIN loads'
      BY <1>1, <2>1, <2>3 DEF RestTyped
    <2>5. handed' \subseteq DOMAIN loads'
      BY <1>1, <1>4, <2>1 DEF RestTyped
    <2>6. RestTyped'
      BY <1>1, <1>4, <2>1, <2>2, <2>3, <2>4, <2>5 DEF RestTyped
    <2>7. PipeInv' /\ FlightInv' /\ ClientTypeOK'
      BY <1>2, <1>4, <2>1, <2>3, HandlerMoves
    <2> QED BY <2>6, <2>7, TypePartsPrime
  <1>5. CASE Pull(r) /\ enabled
    BY <1>4, <1>5 DEF Pull
  <1>6. CASE FixAll(r)
    <2>1. due' \in BOOLEAN
      BY <1>1, <1>6 DEF FixAll, RestTyped
    <2> QED BY <1>4, <1>6, <2>1 DEF FixAll
  <1> QED BY <1>3, <1>5, <1>6

LEMMA ToStateTyped ==
  ASSUME TypeOK, NEW l \in Lives, NEW t \in Text, NEW c \in Config, NEW rules \in Config
  PROVE  toState(l, t, c, rules) \in State
  BY DEF toState, State, TypeOK

LEMMA TextTyped ==
  ASSUME TypeOK, NEW l \in Lives
  PROVE  textOf(l) \in Text
  BY DEF textOf, Text, TypeOK

LEMMA HandlerTyped ==
  ASSUME TypeOK, NEW r \in Req
  PROVE  /\ req[r].life \in Lives /\ req[r].text \in Text /\ req[r].load \in 0..MaxLoads
         /\ req[r].client \in 0..MaxSpawns /\ req[r].pass \in 0..MaxFixPasses
         /\ req[r].kind \in {"pull", "fixAll"}
         /\ req[r].stage \in {"idle", "config", "handoff", "lint"}
         /\ req[r].stage # "idle" => Used(r) \in Config /\ req[r].load \in DOMAIN loads
         /\ req[r].stage # "idle" => loads[req[r].load].settled \in BOOLEAN
  <1>1. req[r] \in Handler /\ loads \in Seq(Load)
    BY DEF TypeOK
  <1>2. req[r].stage # "idle" => req[r].load \in DOMAIN loads
    BY DEF TypeOK
  <1>3. req[r].stage # "idle" => Used(r) \in Config /\ loads[req[r].load].settled \in BOOLEAN
    BY <1>1, <1>2, LoadsAre DEF Used
  <1> QED BY <1>1, <1>2, <1>3 DEF Handler

LEMMA Ended ==
  ASSUME TypeOK, PipeInv, NEW r \in Req, answer[r] # Waiting, End(r),
         states' \in State \cup {NoState}, offer' \in Offer \cup {NoOffer},
         UNCHANGED <<clientVars, documentVars, enabled, engine, configVars, loads, load, handed, due>>
  PROVE  TypeOK' /\ PipeInv'
  <1>1. RestTyped /\ Len(loads) <= MaxLoads
    BY DEF TypeOK, RestTyped, PipeInv
  <1>2. /\ req' \in [Req -> Handler] /\ \A q \in Req \ {r} : req'[q] = req[q]
        /\ req'[r] = Idle /\ req'[r].stage = "idle"
    BY <1>1, IdleTyped DEF End, RestTyped, Idle
  <1>3. RestTyped'
    BY <1>1, <1>2 DEF RestTyped, documentVars, configVars
  <1>4. PipeInv' /\ FlightInv' /\ ClientTypeOK'
    BY <1>1, <1>2, HandlerMoves
  <1> QED BY <1>3, <1>4, TypePartsPrime

LEMMA ReportTyped ==
  ASSUME TypeOK, NEW r \in Req, req[r].stage # "idle", NEW t \in Text, NEW c \in Config, Report(r, t, c)
  PROVE  states' \in State \cup {NoState} /\ offer' \in Offer \cup {NoOffer}
  <1>1. textOf(req[r].life) \in Text /\ req[r].life \in Lives /\ Used(r) \in Config
    BY HandlerTyped, TextTyped
  <1>2. CASE req[r].kind = "pull"
    BY <1>1, <1>2, ToStateTyped DEF Report
  <1>3. CASE req[r].kind # "pull"
    BY <1>1, <1>3 DEF Report, Offer, TypeOK
  <1> QED BY <1>2, <1>3

(* A handler that sends: what it keeps, and where it is afterwards.           *)
Goes(r, stage, client, text, pass) ==
  /\ req' \in [Req -> Handler]
  /\ \A q \in Req \ {r} : req'[q] = req[q]
  /\ req'[r].kind = req[r].kind /\ req'[r].life = req[r].life /\ req'[r].load = req[r].load
  /\ req'[r].stage = stage /\ req'[r].client = client /\ req'[r].text = text
  /\ req'[r].pass = pass

LEMMA Going ==
  ASSUME TypeOK, NEW r \in Req
  PROVE  /\ \A c \in 0..MaxSpawns, t \in Text :
              req' = [req EXCEPT ![r].stage = "lint", ![r].client = c, ![r].text = t]
              => Goes(r, "lint", c, t, req[r].pass)
         /\ \A c \in 0..MaxSpawns :
              req' = [req EXCEPT ![r].stage = "handoff", ![r].client = c]
              => Goes(r, "handoff", c, req[r].text, req[r].pass)
         /\ \A t \in Text :
              req' = [req EXCEPT ![r].stage = "lint", ![r].text = t]
              => Goes(r, "lint", req[r].client, t, req[r].pass)
         /\ /\ req[r].stage = "lint" /\ req[r].pass + 1 < MaxFixPasses
            /\ req' = [req EXCEPT ![r].pass = @ + 1]
            => Goes(r, "lint", req[r].client, req[r].text, req[r].pass + 1)
  <1>1. req \in [Req -> Handler] /\ req[r] \in Handler
    BY DEF TypeOK
  <1> USE <1>1 DEF Handler, Goes
  <1>2. ASSUME NEW c \in 0..MaxSpawns, NEW t \in Text,
               req' = [req EXCEPT ![r].stage = "lint", ![r].client = c, ![r].text = t]
        PROVE  Goes(r, "lint", c, t, req[r].pass)
    BY <1>2
  <1>3. ASSUME NEW c \in 0..MaxSpawns,
               req' = [req EXCEPT ![r].stage = "handoff", ![r].client = c]
        PROVE  Goes(r, "handoff", c, req[r].text, req[r].pass)
    BY <1>3
  <1>4. ASSUME NEW t \in Text,
               req' = [req EXCEPT ![r].stage = "lint", ![r].text = t]
        PROVE  Goes(r, "lint", req[r].client, t, req[r].pass)
    BY <1>4
  <1>5. ASSUME req[r].stage = "lint", req[r].pass + 1 < MaxFixPasses,
               req' = [req EXCEPT ![r].pass = @ + 1]
        PROVE  Goes(r, "lint", req[r].client, req[r].text, req[r].pass + 1)
    <2>1. req[r].pass + 1 \in 0..MaxFixPasses
      BY <1>5, ServerAssumption
    <2> QED BY <1>5, <2>1
  <1> HIDE DEF Goes
  <1> QED BY <1>2, <1>3, <1>4, <1>5

(* HandOff and what follows it, as the pipe and the handlers see them.        *)
Hands(r) ==
  LET known  == req[r].load \in handed
      method == IF known THEN "lint" ELSE "configChanged"
  IN  /\ Posts(r, method)
      /\ \/ alive /\ spawned' = spawned /\ session' = session
         \/ ~alive /\ spawned' = spawned + 1 /\ session' = NoConfig
      /\ spawned' \in 0..MaxSpawns
      /\ Goes(r, StageOf(method), spawned', IF known THEN textOf(req[r].life) ELSE req[r].text,
              req[r].pass)
      /\ handed' = handed \cup {req[r].load}
      /\ handoff' = IF known THEN handoff ELSE Used(r)

LEMMA HandingOff ==
  ASSUME TypeOK, PipeInv, NEW r \in Req, HandOff(r)
  PROVE  Hands(r)
  <1>1. req[r].life \in Lives /\ textOf(req[r].life) \in Text
    BY HandlerTyped, TextTyped
  <1>2. CASE req[r].load \in handed
    <2>1. /\ spawnAndRequest(r, "lint")
          /\ req' = [req EXCEPT ![r].stage = "lint", ![r].client = spawned',
                                ![r].text = textOf(req[r].life)]
          /\ handed' = handed /\ handoff' = handoff
      BY <1>2 DEF HandOff, textSent
    <2>2. /\ Posts(r, "lint")
          /\ \/ alive /\ spawned' = spawned /\ session' = session
             \/ ~alive /\ spawned' = spawned + 1 /\ session' = NoConfig
          /\ spawned' \in 0..MaxSpawns
      BY <2>1, Spawning
    <2>3. Goes(r, "lint", spawned', textOf(req[r].life), req[r].pass)
      BY <1>1, <2>1, <2>2, Going
    <2>4. handed' = handed \cup {req[r].load}
      BY <1>2, <2>1
    <2> QED BY <1>2, <2>1, <2>2, <2>3, <2>4 DEF Hands, StageOf
  <1>3. CASE req[r].load \notin handed
    <2>1. /\ spawnAndRequest(r, "configChanged")
          /\ req' = [req EXCEPT ![r].stage = "handoff", ![r].client = spawned']
          /\ handed' = handed \cup {req[r].load} /\ handoff' = Used(r)
      BY <1>3 DEF HandOff
    <2>2. /\ Posts(r, "configChanged")
          /\ \/ alive /\ spawned' = spawned /\ session' = session
             \/ ~alive /\ spawned' = spawned + 1 /\ session' = NoConfig
          /\ spawned' \in 0..MaxSpawns
      BY <2>1, Spawning
    <2>3. Goes(r, "handoff", spawned', req[r].text, req[r].pass)
      BY <2>1, <2>2, Going
    <2> QED BY <1>3, <2>1, <2>2, <2>3 DEF Hands, StageOf
  <1> QED BY <1>2, <1>3

(* SendLint and LintAgain: the lint is in the pipe, or failed at once.         *)
Relints(r, text, pass) ==
  /\ Goes(r, "lint", req[r].client, text, pass)
  /\ UNCHANGED alive
  /\ \/ Posts(r, "lint") /\ req[r].client = spawned
     \/ /\ ~(alive /\ req[r].client = spawned)
        /\ UNCHANGED pipe /\ answer' = [answer EXCEPT ![r] = Failed]

LEMMA Relinting ==
  ASSUME TypeOK, NEW r \in Req
  PROVE  /\ SendLint(r) => Relints(r, textOf(req[r].life), req[r].pass)
         /\ LintAgain(r) => Relints(r, req[r].text, req[r].pass + 1)
  <1>1. req[r].life \in Lives /\ textOf(req[r].life) \in Text /\ alive \in BOOLEAN
    BY HandlerTyped, TextTyped DEF TypeOK, ClientTypeOK
  <1>2. ASSUME SendLint(r) PROVE Relints(r, textOf(req[r].life), req[r].pass)
    <2>1. /\ req' = [req EXCEPT ![r].stage = "lint", ![r].text = textOf(req[r].life)]
          /\ request(r, req[r].client, "lint") /\ UNCHANGED alive
      BY <1>2 DEF SendLint, textSent
    <2>2. Goes(r, "lint", req[r].client, textOf(req[r].life), req[r].pass)
      BY <1>1, <2>1, Going
    <2> QED BY <1>1, <2>1, <2>2, Requesting DEF Relints
  <1>3. ASSUME LintAgain(r) PROVE Relints(r, req[r].text, req[r].pass + 1)
    <2>1. /\ req' = [req EXCEPT ![r].pass = @ + 1]
          /\ request(r, req[r].client, "lint") /\ UNCHANGED alive
          /\ req[r].stage = "lint" /\ req[r].pass + 1 < MaxFixPasses
      BY <1>3 DEF LintAgain
    <2>2. Goes(r, "lint", req[r].client, req[r].text, req[r].pass + 1)
      BY <2>1, Going
    <2> QED BY <1>1, <2>1, <2>2, Requesting DEF Relints
  <1> QED BY <1>2, <1>3

LEMMA HandOffTyped ==
  ASSUME TypeOK, PipeInv, NEW r \in Req, HandOff(r)
  PROVE  TypeOK' /\ PipeInv'
  <1>1. RestTyped /\ ClientTypeOK /\ NoConfig \notin Config
    BY ClientAssumption DEF TypeOK, RestTyped
  <1>2. Hands(r)
    BY HandingOff
  <1>3. /\ answer[r] # Waiting /\ engine = "native" /\ Used(r) \in Config /\ req[r].stage = "config"
        /\ req[r].load \in DOMAIN loads
    BY HandlerTyped DEF HandOff, PipeInv, Sent
  <1>4. /\ offer' = NoOffer
        /\ UNCHANGED <<documentVars, enabled, engine, configVars, loads, load, states, due>>
    BY DEF HandOff
  <1>5. handoff' \in Config
    BY <1>1, <1>2, <1>3 DEF Hands, PipeInv, ClientTypeOK
  <1>6. PICK method \in {"lint", "configChanged"} :
          /\ Posts(r, method)
          /\ req'[r].stage = StageOf(method) /\ req'[r].client = spawned'
          /\ req'[r].load = req[r].load
          /\ req' \in [Req -> Handler] /\ \A q \in Req \ {r} : req'[q] = req[q]
    BY <1>2 DEF Hands, Goes
  <1>7. (alive => spawned' = spawned) /\ spawned' \in 0..MaxSpawns /\ session' \in Config \cup {NoConfig}
    BY <1>1, <1>2 DEF Hands, ClientTypeOK
  <1>8. /\ PipeInv' /\ FlightInv' /\ pipe' \in Seq(Message) /\ answer' \in [Req -> Answer]
        /\ alive' \in BOOLEAN
    BY <1>1, <1>3, <1>4, <1>5, <1>6, <1>7, Posting
  <1>9. ClientTypeOK'
    BY <1>5, <1>7, <1>8 DEF ClientTypeOK
  <1>10. RestTyped'
    <2>1. \A q \in Req : req'[q].stage # "idle" => req'[q].load \in DOMAIN loads
      BY <1>1, <1>3, <1>6 DEF RestTyped
    <2>2. handed' \subseteq DOMAIN loads
      BY <1>1, <1>2, <1>3 DEF RestTyped, Hands
    <2> QED BY <1>1, <1>4, <1>6, <2>1, <2>2 DEF RestTyped, documentVars, configVars
  <1> QED BY <1>8, <1>9, <1>10, TypePartsPrime

LEMMA RelintTyped ==
  ASSUME TypeOK, PipeInv, NEW r \in Req, SendLint(r) \/ LintAgain(r)
  PROVE  TypeOK' /\ PipeInv'
  <1>1. RestTyped /\ ClientTypeOK
    BY DEF TypeOK, RestTyped
  <1>2. PICK text, pass : Relints(r, text, pass)
    BY Relinting
  <1>3. /\ answer[r] # Waiting /\ Sent(r) /\ req[r].stage # "idle"
        /\ offer' = NoOffer
        /\ UNCHANGED <<spawned, alive, session, handoff, documentVars, enabled, engine, configVars,
                       loads, load, handed, states, due>>
    BY ClientAssumption DEF SendLint, LintAgain, Sent
  <1>4. handoff # NoConfig /\ engine = "native"
    BY <1>3 DEF PipeInv
  <1>5. /\ req' \in [Req -> Handler] /\ \A q \in Req \ {r} : req'[q] = req[q]
        /\ req'[r].stage = "lint" /\ req'[r].client = req[r].client /\ req'[r].load = req[r].load
    BY <1>2 DEF Relints, Goes
  <1>6. RestTyped'
    <2>1. \A q \in Req : req'[q].stage # "idle" => req'[q].load \in DOMAIN loads
      BY <1>1, <1>3, <1>5 DEF RestTyped
    <2> QED BY <1>1, <1>3, <1>5, <2>1 DEF RestTyped, documentVars, configVars
  <1>7. CASE Posts(r, "lint") /\ req[r].client = spawned
    <2>1. /\ PipeInv' /\ FlightInv' /\ pipe' \in Seq(Message) /\ answer' \in [Req -> Answer]
          /\ alive' \in BOOLEAN
      BY <1>3, <1>4, <1>5, <1>7, Posting DEF StageOf
    <2>2. ClientTypeOK'
      BY <1>1, <1>3, <2>1 DEF ClientTypeOK
    <2> QED BY <1>6, <2>1, <2>2, TypePartsPrime
  <1>8. CASE UNCHANGED pipe /\ answer' = [answer EXCEPT ![r] = Failed]
    <2>1. PipeInv' /\ FlightInv' /\ answer' \in [Req -> Answer]
      BY <1>3, <1>4, <1>5, <1>8, Failing
    <2>2. ClientTypeOK'
      BY <1>1, <1>3, <1>8, <2>1 DEF ClientTypeOK
    <2> QED BY <1>6, <2>1, <2>2, TypePartsPrime
  <1> QED BY <1>2, <1>7, <1>8 DEF Relints

(* What a handler that is done keeps or sends is of the right type. *)
LEMMA DoneTyped ==
  ASSUME TypeOK, PipeInv, NEW r \in Req, ConfigFailed(r) \/ LintHere(r) \/ Finish(r)
  PROVE  TypeOK' /\ PipeInv'
  <1>1. /\ req[r].stage # "idle" /\ answer[r] # Waiting /\ End(r)
        /\ UNCHANGED <<clientVars, documentVars, enabled, engine, configVars, loads, load, handed, due>>
    BY DEF ConfigFailed, LintHere, Finish, PipeInv, Sent
  <1>2. /\ req[r].life \in Lives /\ textOf(req[r].life) \in Text /\ req[r].text \in Text
        /\ Used(r) \in Config /\ states \in State \cup {NoState}
    BY <1>1, HandlerTyped, TextTyped DEF TypeOK
  <1>3. CASE ConfigFailed(r)
    <2>1. states' \in State \cup {NoState} /\ offer' = NoOffer
      BY <1>2, <1>3, ToStateTyped DEF ConfigFailed
    <2> QED BY <1>1, <2>1, Ended
  <1>4. CASE LintHere(r)
    <2>1. Report(r, textOf(req[r].life), Used(r))
      BY <1>4 DEF LintHere, textSent
    <2> QED BY <1>1, <1>2, <2>1, ReportTyped, Ended
  <1>5. CASE Finish(r) /\ answer[r] = Failed
    BY <1>1, <1>2, <1>5, Ended DEF Finish, NoReport
  <1>6. CASE Finish(r) /\ answer[r] # Failed
    <2>1. answer[r] \in Config
      BY <1>1, <1>6 DEF Finish, PipeInv, TypeOK, ClientTypeOK, Answer
    <2>2. Report(r, req[r].text, answer[r])
      BY <1>6 DEF Finish
    <2> QED BY <1>1, <1>2, <2>1, <2>2, ReportTyped, Ended
  <1> QED BY <1>3, <1>4, <1>5, <1>6

LEMMA TypedInit == Init => TypeOK /\ PipeInv
  <1> SUFFICES ASSUME Init PROVE TypeOK /\ PipeInv
    OBVIOUS
  <1> USE DEF Init, ClientInit
  <1>1. << >> \in Seq(Message) /\ << >> \in Seq(Load) /\ Len(<< >>) = 0 /\ DOMAIN << >> = {}
    OBVIOUS
  <1>2. ClientTypeOK
    <2>1. ClientInit
      BY DEF Init
    <2>2. answer \in [Req -> Answer] /\ spawned \in 0..MaxSpawns
      BY <2>1, ClientAssumption DEF Answer
    <2>3. pipe \in Seq(Message)
      BY <1>1, <2>1
    <2> QED BY <2>1, <2>2, <2>3 DEF ClientTypeOK
  <1>3. RestTyped
    <2>1. req \in [Req -> Handler] /\ \A r \in Req : req[r].stage = "idle"
      BY IdleTyped DEF Idle
    <2>2. life \in Lives /\ version \in [Lives -> 1..MaxVersion]
      BY ServerAssumption DEF Lives
    <2> QED BY <1>1, <2>1, <2>2, ServerAssumption DEF RestTyped
  <1>4. FlightInv
    BY <1>1, ClientAssumption DEF FlightInv, InFlight
  <1>5. PipeInv
    BY <1>1, ClientAssumption, ServerAssumption DEF PipeInv, Sent, Idle
  <1> QED BY <1>2, <1>3, <1>4, <1>5, TypeParts

LEMMA TypedStep == TypeOK /\ PipeInv /\ [Next]_vars => TypeOK' /\ PipeInv'
  <1> SUFFICES ASSUME TypeOK, PipeInv, [Next]_vars PROVE TypeOK' /\ PipeInv'
    OBVIOUS
  <1>1. CASE \/ Open \/ Change \/ Close \/ EditConfig \/ Notice \/ ChangeSettings \/ QuickFix
             \/ \E i \in DOMAIN loads : LoadSettles(i)
    BY <1>1, EventsTyped
  <1>2. CASE BinaryAnswers \/ BinaryExits
    BY <1>2, BinaryTyped
  <1>3. ASSUME NEW r \in Req, Pull(r) \/ FixAll(r) PROVE TypeOK' /\ PipeInv'
    BY <1>3, PullTyped
  <1>4. ASSUME NEW r \in Req, GoesOn(r) PROVE TypeOK' /\ PipeInv'
    BY <1>4, HandOffTyped, RelintTyped, DoneTyped DEF GoesOn
  <1>5. CASE UNCHANGED vars
    <2>1. ClientTypeOK /\ RestTyped /\ Len(loads) <= MaxLoads
      BY DEF TypeOK, RestTyped, PipeInv
    <2>2. UNCHANGED <<clientVars, req, engine, handed, loads>>
      BY <1>5 DEF vars
    <2>3. RestTyped'
      BY <2>1, <1>5 DEF vars, RestTyped, documentVars, configVars
    <2> QED BY <2>1, <2>2, <2>3, ClientKept, TypePartsPrime
  <1> QED BY <1>1, <1>2, <1>3, <1>4, <1>5 DEF Next

(* The types of server/server.ts and plugin/ts/serve.ts, and what a handler    *)
(* that waits rests on: the load it awaits was begun, and its promise is      *)
(* pending exactly as long as the process of its own client, the one in the   *)
(* map, still owes it an answer, however often the binary exits.            *)
THEOREM ServerTyped == Spec => []TypeOK
  <1>1. Spec => [](TypeOK /\ PipeInv)
    BY TypedInit, TypedStep, PTL DEF Spec
  <1> QED BY <1>1, PTL
-----------------------------------------------------------------------------
(* TurnInv: an event is taken up when nothing is settled, and settles the      *)
(* handlers of one load, or of the binary's answers.                        *)

LEMMA NothingSettled ==
  ASSUME \A r \in Req : ~Settled(r)
  PROVE  \A r \in Req : ~Loaded(r) /\ ~Answered(r)
  BY DEF Settled, Loaded, Answered, Sent

LEMMA TurnStep ==
  ASSUME TypeOK, PipeInv, TypeOK', TurnInv, [Next]_vars
  PROVE  TurnInv'
  <1> USE DEF Event, documentVars, configVars, clientVars
  <1>1. /\ \A r, s \in Req : Linted(r) /\ Linted(s) => r = s
        /\ \A r, s \in Req : ~(Loaded(r) /\ Answered(s))
        /\ \A r \in Req : Linted(r) => alive /\ session = answer[r]
        /\ \A r \in Req : req[r].stage = "handoff" => req[r].client = spawned
    BY DEF TurnInv
  <1>2. Waiting \notin Config /\ Failed \notin Config
    BY ClientAssumption
  <1>3. ASSUME UNCHANGED <<clientVars, req>>, loads' = loads \/ \A r \in Req : ~Answered(r)
        PROVE  TurnInv'
    BY <1>1, <1>3 DEF TurnInv, Loaded, Linted, Answered, Sent
  (* the event found nothing settled, and one handler began to wait for a load *)
  <1>4. ASSUME NEW r \in Req, Pull(r) \/ FixAll(r) PROVE TurnInv'
    <2>1. \A s \in Req : ~Answered(s)
      BY <1>4, NothingSettled DEF Pull, FixAll
    <2>2. UNCHANGED <<spawned, alive, session, answer>>
      BY <1>4 DEF Pull, FixAll
    <2>3. \A s \in Req : \/ req'[s] = req[s]
                         \/ req'[s].stage = "config"
      <3>1. UNCHANGED req \/ \E kind \in {"pull", "fixAll"} : Resolving(r, kind)
        BY <1>4 DEF Pull, FixAll
      <3>2. ASSUME NEW kind \in {"pull", "fixAll"}, Resolving(r, kind), NEW s \in Req
            PROVE  req'[s] = req[s] \/ req'[s].stage = "config"
        BY <3>2 DEF Resolving, Idle, TypeOK
      <3> QED BY <3>1, <3>2
    <2> QED BY <1>1, <2>1, <2>2, <2>3 DEF TurnInv, Loaded, Linted, Answered, Sent
  <1>5. CASE BinaryAnswers
    <2>1. \A s \in Req : ~Answered(s) /\ ~Loaded(s)
      BY <1>5, NothingSettled DEF BinaryAnswers
    <2>2. UNCHANGED <<req, loads>>
      BY <1>5 DEF BinaryAnswers
    <2>3. PICK q, x : Takes(q, x)
      BY <1>5, Serving DEF BinaryAnswers
    <2>4. answer'[q] = x /\ \A s \in Req \ {q} : answer'[s] = answer[s]
      BY <2>3 DEF Takes, TypeOK, ClientTypeOK
    <2>5. \A s \in Req : Linted(s)' => s = q /\ x \in Config
      BY <1>2, <2>1, <2>2, <2>4 DEF Linted, Answered, Sent
    <2>6. x \in Config => alive' /\ session' = x
      BY <1>2, <2>3, ClientAssumption DEF Takes
    <2>7. UNCHANGED spawned
      BY <2>3 DEF Takes
    <2> QED BY <1>1, <2>1, <2>2, <2>4, <2>5, <2>6, <2>7 DEF TurnInv, Loaded
  <1>6. CASE BinaryExits
    <2>1. \A s \in Req : ~Answered(s) /\ ~Loaded(s)
      BY <1>6, NothingSettled DEF BinaryExits
    <2>2. UNCHANGED <<req, loads, spawned, engine, handed>>
      BY <1>6 DEF BinaryExits, Exits
    <2>3. \A s \in Req : answer'[s] = IF answer[s] = Waiting THEN Failed ELSE answer[s]
      BY <1>6, <2>2, Exiting DEF BinaryExits
    <2>4. \A s \in Req : ~Linted(s)'
      BY <1>2, <2>1, <2>2, <2>3 DEF Linted, Answered, Sent
    <2> QED BY <1>1, <2>1, <2>2, <2>4 DEF TurnInv, Loaded
  <1>7. ASSUME NEW r \in Req, HandOff(r) PROVE TurnInv'
    <2>1. Hands(r) /\ Loaded(r) /\ UNCHANGED loads
      BY <1>7, HandingOff DEF HandOff, Loaded
    <2>2. \A s \in Req : Sent(s) => answer[s] = Waiting
      BY <1>1, <2>1 DEF Answered
    <2>3. /\ answer'[r] = Waiting /\ \A s \in Req \ {r} : answer'[s] = answer[s]
          /\ \A s \in Req \ {r} : req'[s] = req[s]
          /\ req'[r].stage \in {"handoff", "lint"} /\ req'[r].client = spawned'
      BY <2>1 DEF Hands, Posts, Goes, StageOf, TypeOK, ClientTypeOK
    <2>4. \A s \in Req : Sent(s)' => answer'[s] = Waiting
      BY <2>2, <2>3 DEF Sent
    <2>5. \A s \in Req : ~Linted(s)' /\ ~Answered(s)'
      BY <1>2, <2>4 DEF Linted, Answered, Sent
    <2>6. \A s \in Req : req'[s].stage = "handoff" => req'[s].client = spawned'
      <3>1. CASE alive
        BY <1>1, <2>1, <2>3, <3>1 DEF Hands
      <3>2. CASE ~alive
        <4>1. \A s \in Req : answer[s] # Waiting
          BY <3>2 DEF TypeOK, PipeInv, InFlight
        <4> QED BY <2>2, <2>3, <4>1 DEF Sent
      <3> QED BY <3>1, <3>2
    <2> QED BY <2>5, <2>6 DEF TurnInv
  <1>8. ASSUME NEW r \in Req, SendLint(r) \/ LintAgain(r) PROVE TurnInv'
    <2>1. PICK text, pass : Relints(r, text, pass)
      BY <1>8, Relinting
    <2>2. /\ Answered(r) /\ UNCHANGED <<loads, alive, session, spawned>>
      BY <1>2, <1>8 DEF SendLint, LintAgain, Answered, Sent
    <2>3. /\ answer'[r] \in {Waiting, Failed} /\ \A s \in Req \ {r} : answer'[s] = answer[s]
          /\ \A s \in Req \ {r} : req'[s] = req[s]
          /\ req'[r].stage = "lint"
      BY <2>1 DEF Relints, Posts, Goes, TypeOK, ClientTypeOK
    <2>4. \A s \in Req : /\ Linted(s)' => Linted(s)
                         /\ ~Loaded(s)'
      BY <1>1, <1>2, <2>2, <2>3 DEF Linted, Loaded
    <2>5. \A s \in Req : Linted(s)' => s # r
      BY <1>2, <2>3 DEF Linted
    <2> QED BY <1>1, <2>2, <2>3, <2>4, <2>5 DEF TurnInv
  <1>9. ASSUME NEW r \in Req, ConfigFailed(r) \/ LintHere(r) \/ Finish(r) PROVE TurnInv'
    <2>1. UNCHANGED <<spawned, alive, session, answer, loads>>
      BY <1>9 DEF ConfigFailed, LintHere, Finish
    <2>2. \A s \in Req : req'[s] = req[s] \/ req'[s].stage = "idle"
      BY <1>9 DEF ConfigFailed, LintHere, Finish, End, Idle, TypeOK
    <2>3. \A s \in Req : /\ Linted(s)' => Linted(s)
                         /\ Loaded(s)' => Loaded(s)
                         /\ Answered(s)' => Answered(s)
                         /\ req'[s].stage = "handoff" => req'[s] = req[s]
      BY <2>1, <2>2 DEF Linted, Loaded, Answered, Sent
    <2> QED BY <1>1, <2>1, <2>3 DEF TurnInv
  <1>10. CASE \/ Open \/ Change \/ Close \/ EditConfig \/ Notice \/ ChangeSettings \/ QuickFix
              \/ UNCHANGED vars
    BY <1>3, <1>10 DEF Open, Change, Close, EditConfig, Notice, clearConfigs, ChangeSettings, QuickFix, vars
  <1>11. CASE \E i \in DOMAIN loads : LoadSettles(i)
    <2>1. UNCHANGED <<clientVars, req>> /\ \A r \in Req : ~Answered(r)
      BY <1>11, NothingSettled DEF LoadSettles
    <2> QED BY <1>3, <2>1
  <1> QED BY <1>4, <1>5, <1>6, <1>7, <1>8, <1>9, <1>10, <1>11 DEF Next, GoesOn
-----------------------------------------------------------------------------
(* ForwardInv: a text is read as its lint is sent, so the order of the pipe    *)
(* is the order of the texts, and the answers come in that order.            *)

(* Handlers leave their texts alone, or stop, and the answers stay.           *)
LEMMA ForwardKept ==
  ASSUME TypeOK, ForwardInv, UNCHANGED <<pipe, answer>>, version' \in [Lives -> Nat],
         \A l \in Lives : version[l] <= version'[l],
         \A r \in Req : req'[r] = req[r] \/ req'[r].stage # "lint",
         \/ UNCHANGED states
         \/ states' = NoState
         \/ /\ states'.text.version <= version'[states'.text.life]
            /\ Kept' => \A r \in Req : PullLint(r)' /\ answer[r] \in Config \cup {Waiting}
                                        => Before(states'.text, req[r].text)
  PROVE  ForwardInv'
  <1>1. /\ \A r \in Req : req[r].life \in Lives /\ req[r].text \in Text
        /\ version \in [Lives -> Nat]
        /\ states # NoState => states.text \in Text
    BY HandlerTyped DEF TypeOK, State
  <1>2. \A r \in Req : /\ PullLint(r)' => PullLint(r) /\ req'[r] = req[r]
                       /\ Linted(r)' => Linted(r)
    BY DEF PullLint, Linted
  <1>3. TextsHeld'
    <2>1. \A r \in Req : req'[r].stage = "lint" =>
            /\ req'[r].text.life = req'[r].life
            /\ req'[r].text.version <= version'[req'[r].life]
      BY <1>1 DEF ForwardInv, TextsHeld, Text
    <2>2. states' # NoState => states'.text.version <= version'[states'.text.life]
      BY <1>1 DEF ForwardInv, TextsHeld, Text
    <2> QED BY <2>1, <2>2 DEF TextsHeld
  <1>4. \A r, s \in Req : InTextOrder(r, s) => InTextOrder(r, s)'
    BY <1>2 DEF InTextOrder
  <1>5. PipeForward'
    BY <1>4 DEF ForwardInv, PipeForward
  <1>6. AnswerFirst'
    BY <1>2, <1>4 DEF ForwardInv, AnswerFirst
  <1>7. KeptFirst'
    BY <1>2 DEF ForwardInv, KeptFirst, Kept
  <1> QED BY <1>3, <1>5, <1>6, <1>7 DEF ForwardInv

(* One handler sends, or cannot: it read its text just now.                   *)
LEMMA ForwardSent ==
  ASSUME TypeOK, PipeInv, ForwardInv, NEW r \in Req, Answered(r) \/ Loaded(r),
         UNCHANGED <<version, states>>,
         \A s \in Req \ {r} : req'[s] = req[s] /\ answer'[s] = answer[s],
         answer'[r] \in {Waiting, Failed},
         req'[r].stage = "lint" => /\ req'[r].text.life = req'[r].life
                                   /\ req'[r].text.version <= version[req'[r].life],
         req'[r].life \in Lives,
         PullLint(r)' => req'[r].text = textOf(req'[r].life),
         UNCHANGED pipe \/ \E method \in {"lint", "configChanged"} :
                            pipe' = Append(pipe, MessageOf(r, method))
  PROVE  ForwardInv'
  <1>1. /\ \A s \in Req : req[s].text \in Text /\ req[s].life \in Lives
        /\ version \in [Lives -> Nat]
        /\ states # NoState => states.text \in Text
    BY HandlerTyped DEF TypeOK, State
  <1>2. Waiting # Failed /\ Failed \notin Config /\ Waiting \notin Config
    BY ClientAssumption
  <1>3. /\ PullLint(r)' => /\ req'[r].text.life = req'[r].life
                           /\ req'[r].text.version = version[req'[r].life]
        /\ ~Linted(r)'
        /\ \A s \in Req \ {r} : /\ PullLint(s)' <=> PullLint(s)
                                /\ Linted(s)' <=> Linted(s)
    BY <1>2 DEF PullLint, Linted, textOf
  <1>4. \A s \in Req \ {r} : InTextOrder(s, r)'
    <2>1. ASSUME NEW s \in Req \ {r}, PullLint(r)', PullLint(s)'
          PROVE  Before(req[s].text, req'[r].text)
      <3>1. req[s].text.life = req[s].life /\ req[s].text.version <= version[req[s].life]
        BY <1>3, <2>1 DEF ForwardInv, TextsHeld, PullLint
      <3> QED BY <1>3, <2>1, <3>1 DEF Before
    <2> QED BY <2>1 DEF InTextOrder
  <1>5. InTextOrder(r, r)'
    BY <1>1, <1>3 DEF InTextOrder, Before
  <1>6. \A s, t \in Req \ {r} : InTextOrder(s, t) => InTextOrder(s, t)'
    BY <1>3 DEF InTextOrder
  <1>7. PipeForward'
    <2>1. \A i \in DOMAIN pipe : pipe[i].req \in Req \ {r}
      <3>1. answer[r] # Waiting
        BY DEF Answered, Loaded, PipeInv, Sent
      <3>2. r \notin InFlight
        BY <3>1 DEF TypeOK
      <3>3. \A i \in DOMAIN pipe : pipe[i].req \in InFlight
        BY DEF InFlight
      <3>4. \A i \in DOMAIN pipe : pipe[i].req \in Req
        BY Elements DEF TypeOK, ClientTypeOK
      <3> QED BY <3>2, <3>3, <3>4
    <2>2. ASSUME NEW s \in Req, NEW t \in Req, NEW i \in DOMAIN pipe, NEW j \in DOMAIN pipe,
                 i <= j, pipe[i].req = s, pipe[j].req = t
          PROVE  InTextOrder(s, t)'
      BY <1>6, <2>1, <2>2 DEF ForwardInv, PipeForward
    <2>3. CASE UNCHANGED pipe
      BY <2>2, <2>3 DEF PipeForward
    <2>4. ASSUME NEW method \in {"lint", "configChanged"}, pipe' = Append(pipe, MessageOf(r, method)),
                 NEW s \in Req, NEW t \in Req, NEW i \in DOMAIN pipe', NEW j \in DOMAIN pipe',
                 i <= j, pipe'[i].req = s, pipe'[j].req = t
          PROVE  InTextOrder(s, t)'
      <3>1. MessageOf(r, method) \in Message /\ MessageOf(r, method).req = r /\ pipe \in Seq(Message)
        BY DEF MessageOf, Message, TypeOK, ClientTypeOK
      <3>2. /\ Len(pipe) \in Nat /\ DOMAIN pipe = 1..Len(pipe) /\ DOMAIN pipe' = 1..(Len(pipe) + 1)
            /\ \A k \in 1..Len(pipe) : pipe'[k] = pipe[k]
            /\ pipe'[Len(pipe) + 1].req = r
        BY <2>4, <3>1, Appended
      <3>3. CASE j \in 1..Len(pipe)
        <4>1. i \in 1..Len(pipe)
          <5>1. i \in 1..(Len(pipe) + 1) /\ i <= j /\ Len(pipe) \in Nat
            BY <2>4, <3>2
          <5> QED BY ONLY <3>3, <5>1
        <4>2. pipe[i].req = s /\ pipe[j].req = t
          BY <2>4, <3>2, <3>3, <4>1
        <4> QED BY <2>2, <2>4, <3>2, <3>3, <4>1, <4>2
      <3>4. CASE j = Len(pipe) + 1 /\ i \in 1..Len(pipe)
        <4>1. t = r /\ s \in Req \ {r}
          BY <2>1, <2>4, <3>2, <3>4
        <4> QED BY <1>4, <4>1
      <3>5. CASE j = Len(pipe) + 1 /\ i = Len(pipe) + 1
        BY <1>5, <2>4, <3>2, <3>5
      <3> QED BY <3>2, <3>3, <3>4, <3>5
    <2> QED BY <2>3, <2>4 DEF PipeForward
  <1>8. TextsHeld'
    BY DEF ForwardInv, TextsHeld
  <1>9. AnswerFirst'
    <2>1. ASSUME NEW q \in Req, NEW s \in Req, Linted(q)', answer'[s] = Waiting
          PROVE  InTextOrder(q, s)'
      <3>1. q # r /\ Linted(q)
        BY <1>3, <2>1
      <3>2. CASE s = r
        BY <1>4, <3>1, <3>2
      <3>3. CASE s # r
        BY <1>6, <2>1, <3>1, <3>3 DEF ForwardInv, AnswerFirst
      <3> QED BY <3>2, <3>3
    <2> QED BY <2>1 DEF AnswerFirst
  <1>10. KeptFirst'
    <2>1. Kept' <=> Kept
      BY DEF Kept
    <2>2. Kept /\ PullLint(r)' => Before(states.text, req'[r].text)
      BY <1>1, <1>3 DEF Before, Kept, Text, ForwardInv, TextsHeld
    <2> QED BY <1>3, <2>1, <2>2 DEF ForwardInv, KeptFirst
  <1> QED BY <1>7, <1>8, <1>9, <1>10 DEF ForwardInv

LEMMA ForwardStep ==
  ASSUME TypeOK, PipeInv, TypeOK', PipeInv', TurnInv, ForwardInv, [Next]_vars
  PROVE  ForwardInv'
  <1> USE DEF Event, documentVars, configVars, clientVars
  <1>1. /\ \A r \in Req : req[r] \in Handler /\ req[r].text \in Text /\ req[r].life \in Lives
        /\ req \in [Req -> Handler]
        /\ version \in [Lives -> Nat] /\ version' \in [Lives -> Nat]
        /\ pipe \in Seq(Message) /\ answer \in [Req -> Answer]
    <2>1. req \in [Req -> Handler] /\ pipe \in Seq(Message) /\ answer \in [Req -> Answer]
      BY DEF TypeOK, ClientTypeOK
    <2>2. version \in [Lives -> 1..MaxVersion] /\ version' \in [Lives -> 1..MaxVersion]
      BY DEF TypeOK
    <2>3. version \in [Lives -> Nat] /\ version' \in [Lives -> Nat]
      BY <2>2
    <2>4. \A r \in Req : req[r] \in Handler
      BY <2>1
    <2>5. \A r \in Req : req[r].text \in Text /\ req[r].life \in Lives
      BY HandlerTyped
    <2> QED BY <2>1, <2>3, <2>4, <2>5
  <1>2. Waiting # Failed /\ Failed \notin Config /\ Waiting \notin Config
    BY ClientAssumption
  <1>3. \A l \in Lives : version[l] <= version[l]
    BY <1>1
  <1>4. CASE Change
    <2>1. \A l \in Lives : version[l] <= version'[l]
      BY <1>1, <1>4 DEF Change
    <2> QED BY <1>1, <1>4, <2>1, ForwardKept DEF Change
  <1>5. CASE \/ Open \/ Close \/ EditConfig \/ Notice \/ ChangeSettings \/ QuickFix
             \/ (\E i \in DOMAIN loads : LoadSettles(i)) \/ UNCHANGED vars
    <2>1. UNCHANGED <<pipe, answer, version, req>> /\ (UNCHANGED states \/ states' = NoState)
      BY <1>5 DEF Open, Close, EditConfig, Notice, ChangeSettings, QuickFix, LoadSettles, vars
    <2> QED BY <1>1, <1>3, <2>1, ForwardKept
  <1>6. ASSUME NEW r \in Req, Pull(r) \/ FixAll(r) PROVE ForwardInv'
    <2>1. UNCHANGED <<pipe, answer, version>> /\ (UNCHANGED states \/ states' = NoState)
      BY <1>6 DEF Pull, FixAll
    <2>2. UNCHANGED req \/ \E kind \in {"pull", "fixAll"} : Resolving(r, kind)
      BY <1>6 DEF Pull, FixAll
    <2>3. \A s \in Req : req'[s] = req[s] \/ req'[s].stage # "lint"
      BY <1>1, <2>2 DEF Resolving, Idle
    <2> QED BY <1>1, <1>3, <2>1, <2>3, ForwardKept
  <1>7. CASE BinaryAnswers
    <2>1. /\ \A s \in Req : ~Answered(s)
          /\ UNCHANGED <<version, states, req>>
      BY <1>7, NothingSettled DEF BinaryAnswers
    <2>2. PICK q, x : Takes(q, x)
      BY <1>7, Serving DEF BinaryAnswers
    <2>3. /\ q \in Req /\ answer'[q] = x /\ \A s \in Req \ {q} : answer'[s] = answer[s]
      BY <1>1, <2>2 DEF Takes
    <2>4. \A s, t \in Req : InTextOrder(s, t)' <=> InTextOrder(s, t)
      BY <2>1 DEF InTextOrder, PullLint
    <2>5. TextsHeld'
      BY <2>1 DEF ForwardInv, TextsHeld
    <2>6. PipeForward'
      <3>1. \A i \in DOMAIN pipe' : i + 1 \in DOMAIN pipe /\ pipe'[i] = pipe[i + 1] /\ i \in Nat
        BY <2>2 DEF Takes
      <3>2. ASSUME NEW s \in Req, NEW t \in Req, NEW i \in DOMAIN pipe', NEW j \in DOMAIN pipe',
                   i <= j, pipe'[i].req = s, pipe'[j].req = t
            PROVE  InTextOrder(s, t)'
        <4>1. i + 1 \in DOMAIN pipe /\ j + 1 \in DOMAIN pipe /\ i + 1 <= j + 1
          BY <3>1, <3>2
        <4>2. pipe[i + 1].req = s /\ pipe[j + 1].req = t
          BY <3>1, <3>2
        <4> QED BY <2>4, <4>1, <4>2 DEF ForwardInv, PipeForward
      <3> QED BY <3>2 DEF PipeForward
    <2>7. AnswerFirst'
      <3>1. ASSUME NEW s \in Req, NEW t \in Req, Linted(s)', answer'[t] = Waiting
            PROVE  InTextOrder(s, t)'
        <4>1. s = q
          BY <1>2, <2>1, <2>3, <3>1 DEF Linted, Answered, Sent
        <4>2. t \in InFlight'
          BY <3>1 DEF TypeOK
        <4>3. PICK j \in DOMAIN pipe' : pipe'[j].req = t
          BY <4>2 DEF InFlight
        <4>4. j + 1 \in DOMAIN pipe /\ pipe[j + 1].req = t /\ 1 <= j + 1 /\ 1 \in DOMAIN pipe
          BY <2>2, <4>3 DEF Takes
        <4>5. pipe[1].req = s
          BY <2>2, <4>1 DEF Takes
        <4> QED BY <2>4, <4>4, <4>5 DEF ForwardInv, PipeForward
      <3> QED BY <3>1 DEF AnswerFirst
    <2>8. KeptFirst'
      <3>1. answer[q] = Waiting
        <4>1. q \in InFlight
          BY <2>2 DEF Takes, InFlight
        <4> QED BY <2>3, <4>1 DEF TypeOK
      <3>2. \A s \in Req : answer'[s] \in Config \cup {Waiting} => answer[s] \in Config \cup {Waiting}
        BY <2>3, <3>1
      <3> QED BY <2>1, <3>2 DEF ForwardInv, KeptFirst, Kept, PullLint
    <2> QED BY <2>5, <2>6, <2>7, <2>8 DEF ForwardInv
  <1>8. CASE BinaryExits
    <2>1. UNCHANGED <<version, states, req, loads, engine, handed>> /\ pipe' = << >>
      BY <1>8 DEF BinaryExits, Exits
    <2>2. \A s \in Req : answer'[s] = IF answer[s] = Waiting THEN Failed ELSE answer[s]
      BY <1>8, <2>1, Exiting DEF BinaryExits
    <2>3. TextsHeld'
      BY <2>1 DEF ForwardInv, TextsHeld
    <2>4. PipeForward'
      BY <2>1 DEF PipeForward
    <2>5. AnswerFirst'
      BY <1>2, <2>2 DEF AnswerFirst
    <2>6. KeptFirst'
      BY <1>2, <2>1, <2>2 DEF ForwardInv, KeptFirst, Kept, PullLint
    <2> QED BY <2>3, <2>4, <2>5, <2>6 DEF ForwardInv
  <1>9. ASSUME NEW r \in Req, HandOff(r) PROVE ForwardInv'
    <2>1. Hands(r) /\ Loaded(r) /\ UNCHANGED <<version, states>>
      BY <1>9, HandingOff DEF HandOff, Loaded
    <2>2. /\ answer'[r] = Waiting
          /\ \A s \in Req \ {r} : req'[s] = req[s] /\ answer'[s] = answer[s]
          /\ \E method \in {"lint", "configChanged"} : pipe' = Append(pipe, MessageOf(r, method))
      BY <1>1, <2>1 DEF Hands, Posts, Goes
    <2>3. /\ req'[r].stage = "lint" => req'[r].text = textOf(req'[r].life)
          /\ req'[r].life = req[r].life
      BY <2>1 DEF Hands, Goes, StageOf
    <2>4. req'[r].stage = "lint" => /\ req'[r].text.life = req'[r].life
                                    /\ req'[r].text.version <= version[req'[r].life]
      BY <1>1, <2>3 DEF textOf
    <2>5. PullLint(r)' => req'[r].text = textOf(req'[r].life)
      BY <2>3 DEF PullLint
    <2> QED BY <1>1, <2>1, <2>2, <2>3, <2>4, <2>5, ForwardSent
  <1>10. ASSUME NEW r \in Req, NEW text, NEW pass, Relints(r, text, pass), Answered(r),
                UNCHANGED <<version, states>>,
                \/ text = textOf(req[r].life)
                \/ text = req[r].text /\ req[r].kind # "pull" /\ req[r].stage = "lint"
         PROVE  ForwardInv'
    <2>1. /\ answer'[r] \in {Waiting, Failed}
          /\ \A s \in Req \ {r} : req'[s] = req[s] /\ answer'[s] = answer[s]
          /\ UNCHANGED pipe \/ pipe' = Append(pipe, MessageOf(r, "lint"))
      BY <1>1, <1>10 DEF Relints, Posts, Goes
    <2>2. req'[r].life = req[r].life /\ req'[r].kind = req[r].kind /\ req'[r].text = text
      BY <1>10 DEF Relints, Goes
    <2>3. req'[r].text.life = req'[r].life /\ req'[r].text.version <= version[req'[r].life]
      BY <1>1, <1>10, <2>2 DEF textOf, ForwardInv, TextsHeld
    <2>4. PullLint(r)' => req'[r].text = textOf(req'[r].life)
      BY <1>10, <2>2 DEF PullLint
    <2> QED BY <1>1, <1>10, <2>1, <2>2, <2>3, <2>4, ForwardSent
  <1>11. ASSUME NEW r \in Req, SendLint(r) PROVE ForwardInv'
    BY <1>10, <1>11, Relinting DEF SendLint, Answered, Sent
  <1>12. ASSUME NEW r \in Req, LintAgain(r) PROVE ForwardInv'
    <2>1. Answered(r) /\ req[r].kind # "pull" /\ req[r].stage = "lint" /\ UNCHANGED <<version, states>>
      BY <1>2, <1>12 DEF LintAgain, Answered, Sent
    <2> QED BY <1>10, <1>12, <2>1, Relinting
  <1>13. ASSUME NEW r \in Req, ConfigFailed(r) \/ LintHere(r) \/ Finish(r)
         PROVE  ForwardInv'
    <2>1. /\ UNCHANGED <<pipe, answer, version>> /\ End(r)
      BY <1>13 DEF ConfigFailed, LintHere, Finish
    <2>2. \A s \in Req : req'[s] = req[s] \/ req'[s].stage # "lint"
      BY <1>1, <2>1 DEF End, Idle
    <2>3. \A s \in Req : s # r => (PullLint(s)' => PullLint(s))
      BY <1>1, <2>1 DEF End, PullLint
    <2>4. ~PullLint(r)'
      BY <1>1, <2>1 DEF End, PullLint, Idle
    <2>5. CASE ConfigFailed(r)
      <3>1. UNCHANGED states \/ states' = toState(req[r].life, textOf(req[r].life), Used(r), Used(r))
        BY <2>5 DEF ConfigFailed
      <3>2. CASE UNCHANGED states
        BY <1>1, <1>3, <2>1, <2>2, <3>2, ForwardKept
      <3>3. CASE states' = toState(req[r].life, textOf(req[r].life), Used(r), Used(r))
        <4>1. states'.config \in Broken /\ states'.text = textOf(req[r].life)
          BY <2>5, <3>3 DEF ConfigFailed, toState
        <4>2. states'.text.version <= version'[states'.text.life] /\ ~Kept'
          BY <1>1, <2>1, <4>1 DEF textOf, Kept
        <4> QED BY <1>1, <1>3, <2>1, <2>2, <4>2, ForwardKept
      <3> QED BY <3>1, <3>2, <3>3
    <2>6. CASE LintHere(r)
      <3>1. engine = "wasm" /\ Report(r, textOf(req[r].life), Used(r))
        BY <2>6 DEF LintHere, textSent
      <3>2. UNCHANGED states \/ states' = toState(req[r].life, textOf(req[r].life), Used(r), Used(r))
        BY <3>1 DEF Report
      <3>3. CASE UNCHANGED states
        BY <1>1, <1>3, <2>1, <2>2, <3>3, ForwardKept
      <3>4. CASE states' = toState(req[r].life, textOf(req[r].life), Used(r), Used(r))
        <4>1. states'.text.version <= version'[states'.text.life]
          BY <1>1, <2>1, <3>4 DEF textOf, toState
        <4>2. \A s \in Req : ~PullLint(s)'
          BY <2>3, <2>4, <3>1 DEF PipeInv, Sent, PullLint
        <4> QED BY <1>1, <1>3, <2>1, <2>2, <4>1, <4>2, ForwardKept
      <3> QED BY <3>2, <3>3, <3>4
    <2>7. CASE Finish(r) /\ (UNCHANGED states \/ states' = NoState)
      BY <1>1, <1>3, <2>1, <2>2, <2>7, ForwardKept
    <2>8. CASE /\ Finish(r)
               /\ ~(UNCHANGED states \/ states' = NoState)
      <3>1. /\ req[r].kind = "pull" /\ req[r].stage = "lint" /\ answer[r] \notin {Failed, Waiting}
            /\ states' = toState(req[r].life, req[r].text, answer[r], Used(r))
        BY <2>8 DEF Finish, NoReport, Report
      <3>2. Linted(r) /\ PullLint(r) /\ states'.text = req[r].text
        BY <1>1, <3>1 DEF Linted, PullLint, toState, PipeInv, Answer
      <3>3. states'.text.version <= version'[states'.text.life]
        BY <2>1, <3>1, <3>2 DEF ForwardInv, TextsHeld
      <3>4. ASSUME NEW s \in Req, PullLint(s)', answer[s] \in Config \cup {Waiting}
            PROVE  Before(states'.text, req[s].text)
        <4>1. s # r /\ PullLint(s)
          BY <2>3, <2>4, <3>4
        <4>2. answer[s] \notin Config
          BY <3>2, <4>1 DEF TurnInv, Linted, PullLint
        <4>3. InTextOrder(r, s)
          BY <3>2, <3>4, <4>2 DEF ForwardInv, AnswerFirst
        <4> QED BY <3>2, <4>1, <4>3 DEF InTextOrder
      <3> QED BY <1>1, <1>3, <2>1, <2>2, <3>3, <3>4, ForwardKept
    <2> QED BY <1>13, <2>5, <2>6, <2>7, <2>8
  <1> QED BY <1>4, <1>5, <1>6, <1>7, <1>8, <1>9, <1>11, <1>12, <1>13 DEF Next, GoesOn

LEMMA OrderInit == Init => TurnInv /\ ForwardInv
  <1> SUFFICES ASSUME Init PROVE TurnInv /\ ForwardInv
    OBVIOUS
  <1>1. /\ \A r \in Req : req[r].stage = "idle" /\ answer[r] = Done
        /\ pipe = << >> /\ states = NoState /\ DOMAIN << >> = {}
    BY DEF Init, ClientInit, Idle
  <1>2. TurnInv
    BY <1>1 DEF TurnInv, Linted, Loaded, Answered, Sent
  <1>3. TextsHeld /\ PipeForward /\ KeptFirst
    BY <1>1 DEF TextsHeld, PipeForward, KeptFirst, Kept
  <1>4. AnswerFirst
    BY <1>1 DEF AnswerFirst, Linted
  <1> QED BY <1>2, <1>3, <1>4 DEF ForwardInv

(* What ForwardInv says of a step: a lint's report gives way only to one of a  *)
(* text that is no older.                                                   *)
LEMMA ForwardAction ==
  ASSUME TypeOK, PipeInv, ForwardInv, ForwardInv', [Next]_vars
  PROVE  [/\ states # NoState
          /\ states.config \notin Broken
          /\ states' # NoState
          /\ states.text.life = states'.text.life
          => states.text.version <= states'.text.version]_vars
  <1> SUFFICES ASSUME Kept, states' # NoState, states.text.life = states'.text.life
               PROVE  states.text.version <= states'.text.version
    BY DEF Kept
  <1>1. /\ states.text \in Text /\ version \in [Lives -> Nat]
        /\ \A r \in Req : req[r].text \in Text /\ req[r].life \in Lives
    BY HandlerTyped DEF TypeOK, State, Kept
  <1>2. states.text.version <= version[states.text.life]
    BY DEF ForwardInv, TextsHeld, Kept
  <1>3. CASE UNCHANGED states
    BY <1>1, <1>3 DEF Text
  <1>4. CASE \E r \in Req : ConfigFailed(r) \/ LintHere(r)
    <2>1. PICK r \in Req : ConfigFailed(r) \/ LintHere(r)
      BY <1>4
    <2>2. UNCHANGED states \/ states'.text = textOf(req[r].life)
      BY <2>1 DEF ConfigFailed, LintHere, Report, toState, textSent
    <2> QED BY <1>1, <1>2, <1>3, <2>2 DEF textOf
  <1>5. CASE \E r \in Req : Finish(r)
    <2>1. PICK r \in Req : Finish(r)
      BY <1>5
    <2>2. CASE UNCHANGED states
      BY <1>3, <2>2
    <2>3. CASE ~UNCHANGED states
      <3>1. /\ PullLint(r) /\ answer[r] \in Config /\ states'.text = req[r].text
        BY <2>1, <2>3 DEF Finish, NoReport, Report, toState, PullLint, PipeInv, TypeOK, ClientTypeOK, Answer
      <3>2. Before(states.text, states'.text)
        BY <3>1 DEF ForwardInv, KeptFirst
      <3> QED BY <3>2 DEF Before
    <2> QED BY <2>2, <2>3
  <1> QED BY <1>3, <1>4, <1>5 DEF Next, GoesOn, Open, Change, Close, EditConfig, Notice, ChangeSettings,
             Pull, FixAll, HandOff, SendLint, LintAgain, LoadSettles, BinaryAnswers, BinaryExits,
             QuickFix, vars

(* server/server.ts, lintDocument: pulls of one document overlap, each captures *)
(* its own text and keeps its report whenever it is done, and yet a lint's     *)
(* report never gives way to one of an older text.  It needs no order among    *)
(* the loads, and no document that stays open: the pipe answers in order.    *)
THEOREM ReportsForward == Spec => ReportsGoForward
  <1>1. Spec => [](TypeOK /\ PipeInv /\ TurnInv /\ ForwardInv)
    <2>1. Init => TypeOK /\ PipeInv /\ TurnInv /\ ForwardInv
      BY TypedInit, OrderInit
    <2>2. TypeOK /\ PipeInv /\ TurnInv /\ ForwardInv /\ [Next]_vars
          => (TypeOK /\ PipeInv /\ TurnInv /\ ForwardInv)'
      BY TypedStep, TurnStep, ForwardStep
    <2> QED BY <2>1, <2>2, PTL DEF Spec
  <1>2. (TypeOK /\ PipeInv /\ TurnInv /\ ForwardInv) /\ (TypeOK /\ PipeInv /\ TurnInv /\ ForwardInv)'
        /\ [Next]_vars
        => [/\ states # NoState
            /\ states.config \notin Broken
            /\ states' # NoState
            /\ states.text.life = states'.text.life
            => states.text.version <= states'.text.version]_vars
    BY ForwardAction
  <1> QED BY <1>1, <1>2, PTL DEF Spec, ReportsGoForward
-----------------------------------------------------------------------------
(* LifeInv, with documents that stay open while a handler holds them.         *)

(* No handler begins or ends, and the report kept is the one before or none.  *)
LEMMA LifeKept ==
  ASSUME TypeOK, LifeInv, UNCHANGED <<life, isOpen, engine>>, UNCHANGED states \/ states' = NoState,
         \A r \in Req : req'[r].stage # "idle" =>
           \/ req[r].stage # "idle" /\ req'[r].life = req[r].life
           \/ isOpen /\ req'[r].life = life
  PROVE  LifeInv'
  BY DEF LifeInv

LEMMA LifeStep ==
  ASSUME ~CloseMidway, TypeOK, PipeInv, ForwardInv, LifeInv, OfferFitsHere, [Next]_vars
  PROVE  LifeInv' /\ OfferFitsHere'
  <1> USE DEF Event, documentVars, configVars, clientVars
  <1>1. /\ req \in [Req -> Handler]
        /\ \A r \in Req : req[r].text \in Text /\ req[r].life \in Lives
        /\ version \in [Lives -> Nat] /\ isOpen \in BOOLEAN
    BY HandlerTyped DEF TypeOK
  <1>2. CASE Open
    <2>1. ~isOpen /\ states = NoState /\ \A r \in Req : req[r].stage = "idle"
      BY <1>2 DEF Open, LifeInv
    <2> QED BY <1>2, <2>1 DEF Open, LifeInv, OfferFitsHere, OfferFits
  <1>3. CASE Close
    <2>1. \A r \in Req : req[r].stage = "idle"
      BY <1>3 DEF Close
    <2> QED BY <1>3, <2>1 DEF Close, LifeInv, OfferFitsHere, OfferFits
  <1>4. CASE \/ Change \/ EditConfig \/ Notice \/ ChangeSettings \/ BinaryAnswers \/ BinaryExits
             \/ \E i \in DOMAIN loads : LoadSettles(i)
    <2>1. UNCHANGED <<life, isOpen, engine, states, req>> /\ offer' = NoOffer
      BY <1>4 DEF Change, EditConfig, Notice, ChangeSettings, BinaryAnswers, BinaryExits, LoadSettles
    <2> QED BY <2>1, LifeKept DEF OfferFitsHere, OfferFits
  <1>5. CASE QuickFix
    <2>1. UNCHANGED <<life, isOpen, engine, states, req>>
      BY <1>5 DEF QuickFix
    <2>2. /\ states # NoState /\ states.version = version[life]
          /\ offer' = [to |-> textOf(life), from |-> states.text]
      BY <1>5 DEF QuickFix
    <2>3. states.text \in Text /\ states.text.life = life
      BY <2>2 DEF TypeOK, State, LifeInv
    <2>4. engine = "wasm" => states.text = textOf(life)
      BY <2>2, <2>3 DEF LifeInv, textOf, Text
    <2> QED BY <2>1, <2>2, <2>4, LifeKept DEF OfferFitsHere, OfferFits
  <1>6. CASE UNCHANGED vars
    BY <1>6, LifeKept DEF vars, OfferFitsHere, OfferFits
  <1>7. ASSUME NEW r \in Req, Pull(r) \/ FixAll(r) PROVE LifeInv' /\ OfferFitsHere'
    <2>1. /\ UNCHANGED <<life, isOpen, engine>> /\ (UNCHANGED states \/ states' = NoState)
          /\ isOpen /\ offer' = NoOffer
      BY <1>7 DEF Pull, FixAll
    <2>2. UNCHANGED req \/ \E kind \in {"pull", "fixAll"} : Resolving(r, kind)
      BY <1>7 DEF Pull, FixAll
    <2>3. \A s \in Req : req'[s] = req[s] \/ req'[s].life = life
      BY <1>1, <2>2 DEF Resolving, Idle
    <2> QED BY <2>1, <2>3, LifeKept DEF OfferFitsHere, OfferFits
  <1>8. ASSUME NEW r \in Req, HandOff(r) \/ SendLint(r) \/ LintAgain(r)
        PROVE  LifeInv' /\ OfferFitsHere'
    <2>1. UNCHANGED <<life, isOpen, engine, states>> /\ offer' = NoOffer /\ req[r].stage # "idle"
      BY <1>8 DEF HandOff, SendLint, LintAgain
    <2>2. \E stage, client, text, pass : Goes(r, stage, client, text, pass)
      BY <1>8, HandingOff, Relinting DEF Hands, Relints
    <2>3. \A s \in Req : req'[s] = req[s] \/ (s = r /\ req'[s].life = req[s].life)
      BY <2>2 DEF Goes
    <2> QED BY <2>1, <2>3, LifeKept DEF OfferFitsHere, OfferFits
  <1>9. ASSUME NEW r \in Req, ConfigFailed(r) \/ LintHere(r) \/ Finish(r)
        PROVE  LifeInv' /\ OfferFitsHere'
    <2>1. /\ UNCHANGED <<life, isOpen, engine, version>> /\ End(r) /\ req[r].stage # "idle"
      BY <1>9 DEF ConfigFailed, LintHere, Finish
    <2>2. isOpen /\ req[r].life = life
      BY <2>1 DEF LifeInv
    <2>3. \A s \in Req : req'[s] = req[s] \/ req'[s].stage = "idle"
      BY <1>1, <2>1 DEF End, Idle
    <2>4. \/ UNCHANGED states
          \/ states' = NoState
          \/ \E t, c, rules :
               /\ states' = toState(life, t, c, rules)
               /\ t = textOf(life) \/ (engine # "wasm" /\ t = req[r].text /\ req[r].stage = "lint")
      <3>1. CASE ConfigFailed(r)
        <4>1. UNCHANGED states \/ states' = toState(life, textOf(life), Used(r), Used(r))
          BY <2>2, <3>1 DEF ConfigFailed
        <4> QED BY <4>1, Zenon
      <3>2. CASE LintHere(r)
        <4>1. UNCHANGED states \/ states' = toState(life, textOf(life), Used(r), Used(r))
          BY <2>2, <3>2 DEF LintHere, Report, textSent
        <4> QED BY <4>1, Zenon
      <3>3. CASE Finish(r)
        <4>1. engine # "wasm"
          BY <3>3 DEF Finish, PipeInv, Sent
        <4> QED BY <2>2, <3>3, <4>1 DEF Finish, Report, NoReport
      <3> QED BY <1>9, <3>1, <3>2, <3>3
    <2>5. LifeInv'
      <3>1. CASE UNCHANGED states \/ states' = NoState
        BY <2>1, <2>3, <3>1, LifeKept
      <3>2. ASSUME NEW t, NEW c, NEW rules, states' = toState(life, t, c, rules),
                   t = textOf(life) \/ (engine # "wasm" /\ t = req[r].text /\ req[r].stage = "lint")
            PROVE  LifeInv'
        <4>1. t.life = life /\ (engine = "wasm" => t.version = version[life])
          BY <2>2, <3>2 DEF textOf, ForwardInv, TextsHeld
        <4>2. states'.text = t /\ states'.version = version[life]
          BY <3>2 DEF toState
        <4> QED BY <2>1, <2>2, <2>3, <4>1, <4>2 DEF LifeInv
      <3> QED BY <2>4, <3>1, <3>2
    <2>6. OfferFitsHere'
      <3>1. CASE offer' = NoOffer
        BY <3>1 DEF OfferFitsHere, OfferFits
      <3>2. CASE LintHere(r)
        BY <3>2 DEF LintHere, Report, textSent, OfferFitsHere, OfferFits
      <3>3. CASE Finish(r)
        <4>1. engine # "wasm"
          BY <3>3 DEF Finish, PipeInv, Sent
        <4> QED BY <2>1, <4>1 DEF OfferFitsHere
      <3> QED BY <1>9, <3>1, <3>2, <3>3 DEF ConfigFailed
    <2> QED BY <2>5, <2>6
  <1> QED BY <1>2, <1>3, <1>4, <1>5, <1>6, <1>7, <1>8, <1>9 DEF Next, GoesOn

LEMMA LifeInit == Init => LifeInv /\ OfferFitsHere
  BY DEF Init, Idle, LifeInv, OfferFitsHere, OfferFits

(* server/actions.ts, at the top: an edit is versioned to the document it was  *)
(* computed for.  With the bundled engine that is so of every edit sent, a     *)
(* quick fix of the report kept included, as long as no document closes under *)
(* a handler; with the binary it is not (OfferFits, refuted).                *)
THEOREM OffersFitHere ==
  ASSUME ~CloseMidway
  PROVE  Spec => []OfferFitsHere
  <1> DEFINE I == TypeOK /\ PipeInv /\ TurnInv /\ ForwardInv /\ LifeInv /\ OfferFitsHere
  <1>1. Init => I
    BY TypedInit, OrderInit, LifeInit
  <1>2. I /\ [Next]_vars => I'
    BY TypedStep, TurnStep, ForwardStep, LifeStep
  <1> QED BY <1>1, <1>2, PTL DEF Spec
-----------------------------------------------------------------------------
(* LoadInv, with loads that settle in the order they began.                  *)

LEMMA LoadsTyped ==
  ASSUME TypeOK
  PROVE  /\ loads \in Seq(Load) /\ DOMAIN loads = 1..Len(loads) /\ Len(loads) \in Nat
         /\ load \in 0..Len(loads) /\ handed \subseteq 1..Len(loads)
         /\ \A r \in Req : req[r].stage # "idle" => req[r].load \in 1..Len(loads)
         /\ req \in [Req -> Handler]
  <1>1. loads \in Seq(Load) /\ load \in 0..Len(loads) /\ handed \subseteq DOMAIN loads
    BY DEF TypeOK
  <1>2. DOMAIN loads = 1..Len(loads) /\ Len(loads) \in Nat
    BY <1>1, LoadsAre
  <1>3. \A r \in Req : req[r].stage # "idle" => req[r].load \in DOMAIN loads
    BY DEF TypeOK
  <1>4. req \in [Req -> Handler]
    BY DEF TypeOK
  <1> QED BY <1>1, <1>2, <1>3, <1>4

(* Handlers come to the binary's answers or to an end, with the loads as they are. *)
LEMMA LoadKept ==
  ASSUME LoadInv, UNCHANGED <<loads, load, handed, handoff, enabled, isOpen, noticed, config, due>>,
         \A r \in Req : Awaits(r)' => req'[r] = req[r]
  PROVE  LoadInv'
  <1>1. CacheInv' /\ HandedInv'
    BY DEF LoadInv, CacheInv, HandedInv
  <1>2. SettledInv'
    BY DEF LoadInv, SettledInv, Loaded, Awaits
  <1> QED BY <1>1, <1>2 DEF LoadInv

LEMMA LoadStep ==
  ASSUME LoadsInOrder, TypeOK, PipeInv, LoadInv, [Next]_vars
  PROVE  LoadInv'
  <1> USE DEF Event, documentVars, configVars, clientVars
  <1>1. /\ loads \in Seq(Load) /\ DOMAIN loads = 1..Len(loads) /\ Len(loads) \in Nat
        /\ load \in 0..Len(loads) /\ handed \subseteq 1..Len(loads)
        /\ \A r \in Req : req[r].stage # "idle" => req[r].load \in 1..Len(loads)
        /\ req \in [Req -> Handler]
    BY LoadsTyped
  <1>2. /\ load \in {0, Len(loads)}
        /\ noticed /\ load # 0 => loads[load].read = config
        /\ enabled /\ isOpen /\ noticed /\ ~due => load # 0
    BY DEF LoadInv, CacheInv
  <1>3. /\ \A i \in handed : loads[i].settled
        /\ \A r, s \in Req : Loaded(r) /\ Awaits(s) => req[r].load <= req[s].load
        /\ \A r \in Req : Awaits(r) => \A i \in handed : i <= req[r].load
        /\ \A r \in Req : Awaits(r) /\ load # 0 /\ loads[load].settled => req[r].load = load
    BY DEF LoadInv, SettledInv
  <1>4. ASSUME UNCHANGED <<loads, handed, handoff, req>>, load' \in {0, load}, CacheInv'
        PROVE  LoadInv'
    <2>1. SettledInv'
      BY <1>3, <1>4 DEF SettledInv, Loaded, Awaits
    <2>2. HandedInv'
      BY <1>4 DEF LoadInv, HandedInv
    <2> QED BY <1>4, <2>1, <2>2 DEF LoadInv
  <1>5. CASE Open \/ Change \/ Close \/ EditConfig \/ Notice \/ ChangeSettings \/ QuickFix \/ UNCHANGED vars
    <2>1. UNCHANGED <<loads, handed, handoff, req>> /\ load' \in {0, load}
      BY <1>5 DEF Open, Change, Close, EditConfig, Notice, clearConfigs, ChangeSettings, QuickFix, vars
    <2>2. CacheInv'
      BY <1>2, <1>5 DEF CacheInv, Open, Change, Close, EditConfig, Notice, clearConfigs, ChangeSettings, QuickFix, vars
    <2> QED BY <1>4, <2>1, <2>2
  <1>6. CASE BinaryAnswers \/ BinaryExits
    BY <1>6, LoadKept DEF BinaryAnswers, BinaryExits, Serves, Exits
  <1>7. CASE \E i \in DOMAIN loads : LoadSettles(i)
    <2>1. PICK i \in DOMAIN loads : LoadSettles(i)
      BY <1>7
    <2>2. /\ \A r \in Req : ~Loaded(r)
          /\ \A j \in 1..(i - 1) : loads[j].settled
          /\ UNCHANGED <<load, handed, handoff, req, enabled, isOpen, noticed, config, due>>
      BY <2>1, NothingSettled DEF LoadSettles
    <2>3. /\ Len(loads') = Len(loads) /\ DOMAIN loads' = DOMAIN loads
          /\ \A j \in DOMAIN loads : /\ loads'[j].read = loads[j].read
                                     /\ loads'[j].settled = (j = i \/ loads[j].settled)
      <3>1. loads' = [loads EXCEPT ![i].settled = TRUE]
        BY <2>1 DEF LoadSettles
      <3> QED BY <1>1, <3>1, LoadSettled
    <2>4. \A r \in Req : Awaits(r) => req[r].load \in DOMAIN loads /\ i <= req[r].load
      <3>1. ASSUME NEW r \in Req, Awaits(r) PROVE req[r].load \in DOMAIN loads /\ i <= req[r].load
        <4>1. req[r].load \in 1..Len(loads) /\ ~loads[req[r].load].settled
          BY <1>1, <2>2, <3>1 DEF Loaded, Awaits
        <4>2. req[r].load \notin 1..(i - 1)
          BY <2>2, <4>1
        <4> QED BY <1>1, <4>1, <4>2
      <3> QED BY <3>1
    <2>5. CacheInv'
      <3>1. load # 0 => loads'[load].read = loads[load].read
        BY <1>1, <2>3
      <3> QED BY <1>2, <2>2, <2>3, <3>1 DEF CacheInv
    <2>6. SettledInv'
      <3>1. \A k \in handed : loads'[k].settled
        BY <1>1, <1>3, <2>3
      <3>2. \A r \in Req : Loaded(r)' => req[r].load = i
        BY <2>2, <2>3, <2>4 DEF Loaded, Awaits
      <3>3. \A r \in Req : Awaits(r) /\ load # 0 /\ loads'[load].settled => req[r].load = load
        <4>1. ASSUME NEW r \in Req, Awaits(r), load # 0, loads'[load].settled PROVE req[r].load = load
          <5>1. load = Len(loads) /\ load \in DOMAIN loads
            <6>1. load = Len(loads) /\ load \in 0..Len(loads) /\ load # 0 /\ Len(loads) \in Nat
              BY <1>1, <1>2, <4>1
            <6>2. load \in 1..Len(loads)
              BY ONLY <6>1
            <6> QED BY <1>1, <6>1, <6>2
          <5>2. CASE loads[load].settled
            BY <1>3, <4>1, <5>2
          <5>3. CASE ~loads[load].settled
            <6>1. load = i
              BY <2>3, <4>1, <5>1, <5>3
            <6>2. req[r].load \in 1..Len(loads) /\ i <= req[r].load
              BY <1>1, <2>4, <4>1
            <6> QED BY <1>1, <5>1, <6>1, <6>2
          <5> QED BY <5>2, <5>3
        <4> QED BY <4>1
      <3> QED BY <1>3, <2>2, <2>4, <3>1, <3>2, <3>3 DEF SettledInv, Awaits
    <2>7. HandedInv'
      BY <1>1, <2>2, <2>3 DEF LoadInv, HandedInv
    <2> QED BY <2>5, <2>6, <2>7 DEF LoadInv
  <1>8. ASSUME NEW r \in Req, NEW kind \in {"pull", "fixAll"}, forFile, Resolving(r, kind), Event,
               UNCHANGED <<handed, handoff, enabled, isOpen, noticed, config>>
        PROVE  LoadInv'
    <2>1. /\ Len(loads') \in Nat /\ Len(loads') <= MaxLoads
          /\ Len(loads) <= Len(loads') /\ load' \in 1..Len(loads')
          /\ DOMAIN loads' = 1..Len(loads')
          /\ \A i \in DOMAIN loads : loads'[i] = loads[i]
          /\ \/ load # 0 /\ load' = load /\ loads' = loads
             \/ /\ load = 0 /\ load' = Len(loads') /\ Len(loads') = Len(loads) + 1
                /\ loads'[load'].read = config /\ ~loads'[load'].settled
      BY <1>8, ForFile
    <2>2. load' \in 0..MaxLoads
      <3>1. MaxLoads \in Nat
        BY ServerAssumption
      <3>2. load' \in 1..Len(loads') /\ Len(loads') <= MaxLoads /\ Len(loads') \in Nat
        BY <2>1
      <3> QED BY ONLY <3>1, <3>2
    <2>3. /\ \A s \in Req \ {r} : req'[s] = req[s]
          /\ req'[r].stage = "config" /\ req'[r].load = load'
      BY <1>8, <2>2, StartedHandler
    <2>4. \A s \in Req : ~Loaded(s)
      BY <1>8, NothingSettled
    <2>5. load' = Len(loads') /\ load' # 0
      <3>1. load' \in 1..Len(loads') /\ Len(loads') \in Nat
        BY <2>1
      <3>2. load' # 0
        BY ONLY <3>1
      <3>3. load # 0 => load = Len(loads)
        BY <1>2
      <3> QED BY <2>1, <3>2, <3>3
    <2>6. CacheInv'
      BY <1>2, <1>8, <2>1, <2>5 DEF CacheInv
    <2>7. HandedInv'
      BY <1>1, <1>8, <2>1 DEF LoadInv, HandedInv
    <2>8. SettledInv'
      <3>1. \A i \in handed : loads'[i].settled
        BY <1>1, <1>3, <2>1
      <3>2. \A s \in Req \ {r} : /\ Awaits(s)' <=> Awaits(s)
                                 /\ Awaits(s) => req[s].load \in 1..Len(loads)
                                 /\ ~Loaded(s)'
        <4> SUFFICES ASSUME NEW s \in Req \ {r}
                     PROVE  /\ Awaits(s)' <=> Awaits(s)
                            /\ Awaits(s) => req[s].load \in 1..Len(loads)
                            /\ ~Loaded(s)'
          OBVIOUS
        <4>1. req'[s] = req[s] /\ ~Loaded(s)
          BY <2>3, <2>4
        <4>2. Awaits(s) => req[s].load \in 1..Len(loads) /\ loads'[req[s].load] = loads[req[s].load]
          BY <1>1, <2>1 DEF Awaits
        <4> QED BY <4>1, <4>2 DEF Awaits, Loaded
      <3>3. \A s \in Req \ {r} : Awaits(s) /\ loads'[load'].settled => req[s].load = load'
        BY <1>3, <2>1, <2>5
      <3>4. \A i \in handed : i <= load'
        <4>1. /\ handed \subseteq 1..Len(loads) /\ Len(loads) <= Len(loads') /\ load' = Len(loads')
              /\ Len(loads) \in Nat /\ Len(loads') \in Nat
          BY <1>1, <2>1, <2>5
        <4> QED BY ONLY <4>1
      <3>5. load' <= load'
        <4>1. load' \in 1..Len(loads') /\ Len(loads') \in Nat
          BY <2>1
        <4> QED BY ONLY <4>1
      <3>6. Loaded(r)' => loads'[load'].settled
        BY <2>3 DEF Loaded
      <3>7. ASSUME NEW q \in Req, NEW s \in Req, Loaded(q)', Awaits(s)'
            PROVE  req'[q].load <= req'[s].load
        <4>1. q = r
          BY <3>2, <3>7
        <4>2. CASE s = r
          BY <2>3, <3>5, <4>1, <4>2
        <4>3. CASE s # r
          BY <2>3, <3>2, <3>3, <3>5, <3>6, <3>7, <4>1, <4>3
        <4> QED BY <4>2, <4>3
      <3>8. \A s \in Req : Awaits(s)' => \A i \in handed : i <= req'[s].load
        BY <1>3, <2>3, <3>2, <3>4
      <3>9. \A s \in Req : Awaits(s)' /\ loads'[load'].settled => req'[s].load = load'
        BY <2>3, <3>2, <3>3
      <3> QED BY <1>8, <3>1, <3>7, <3>8, <3>9 DEF SettledInv
    <2> QED BY <2>6, <2>7, <2>8 DEF LoadInv
  <1>9. ASSUME NEW r \in Req, Pull(r) PROVE LoadInv'
    <2>1. CASE enabled
      BY <1>8, <1>9, <2>1 DEF Pull
    <2>2. CASE ~enabled
      <3>1. UNCHANGED <<loads, handed, handoff, req, load, enabled, noticed, config>>
        BY <1>9, <2>2 DEF Pull
      <3>2. CacheInv'
        BY <1>2, <2>2, <3>1 DEF CacheInv
      <3> QED BY <1>4, <3>1, <3>2
    <2> QED BY <2>1, <2>2
  <1>10. ASSUME NEW r \in Req, FixAll(r) PROVE LoadInv'
    BY <1>8, <1>10 DEF FixAll
  <1>11. ASSUME NEW r \in Req, HandOff(r) PROVE LoadInv'
    <2>1. /\ Loaded(r) /\ Hands(r)
          /\ UNCHANGED <<loads, load, enabled, isOpen, noticed, config, due>>
      BY <1>11, HandingOff DEF HandOff, Loaded
    <2>2. /\ handed' = handed \cup {req[r].load}
          /\ handoff' = IF req[r].load \in handed THEN handoff ELSE Used(r)
          /\ \A s \in Req \ {r} : req'[s] = req[s]
          /\ ~Awaits(r)'
      BY <2>1 DEF Hands, Goes, Awaits, StageOf
    <2>3. Awaits(r) /\ loads[req[r].load].settled /\ req[r].load \in 1..Len(loads)
      BY <1>1, <2>1 DEF Loaded, Awaits
    <2>4. CacheInv'
      BY <1>2, <2>1 DEF CacheInv
    <2>5. SettledInv'
      <3>1. \A s \in Req : /\ Awaits(s)' => Awaits(s) /\ req'[s] = req[s]
                           /\ Loaded(s)' => Loaded(s)
        BY <2>1, <2>2 DEF Awaits, Loaded
      <3>2. \A i \in handed' : loads'[i].settled
        BY <1>3, <2>1, <2>2, <2>3
      <3>3. \A s \in Req : Awaits(s)' => \A i \in handed' : i <= req'[s].load
        BY <1>3, <2>1, <2>2, <3>1
      <3>4. \A s, q \in Req : Loaded(s)' /\ Awaits(q)' => req'[s].load <= req'[q].load
        BY <1>3, <3>1 DEF Loaded, Awaits
      <3>5. \A s \in Req : Awaits(s)' /\ load' # 0 /\ loads'[load'].settled => req'[s].load = load'
        BY <1>3, <2>1, <3>1
      <3> QED BY <3>2, <3>3, <3>4, <3>5 DEF SettledInv
    <2>6. HandedInv'
      <3>1. CASE req[r].load \in handed
        <4>1. handed' = handed /\ handoff' = handoff
          BY <2>2, <3>1
        <4> QED BY <2>1, <4>1 DEF LoadInv, HandedInv
      <3>2. CASE req[r].load \notin handed
        <4>1. handoff' = loads'[req[r].load].read
          BY <2>1, <2>2, <3>2 DEF Used
        <4>2. \A i \in handed' : i <= req[r].load
          BY <1>3, <2>2, <2>3
        <4> QED BY <2>2, <4>1, <4>2 DEF HandedInv
      <3> QED BY <3>1, <3>2
    <2> QED BY <2>4, <2>5, <2>6 DEF LoadInv
  <1>12. ASSUME NEW r \in Req, SendLint(r) \/ LintAgain(r) PROVE LoadInv'
    <2>1. UNCHANGED <<loads, load, handed, handoff, enabled, isOpen, noticed, config, due>>
      BY <1>12 DEF SendLint, LintAgain
    <2>2. \E client, text, pass : Goes(r, "lint", client, text, pass)
      BY <1>12, Relinting DEF Relints
    <2>3. \A s \in Req : Awaits(s)' => req'[s] = req[s]
      BY <2>2 DEF Goes, Awaits
    <2> QED BY <2>1, <2>3, LoadKept
  <1>13. ASSUME NEW r \in Req, ConfigFailed(r) \/ LintHere(r) \/ Finish(r) PROVE LoadInv'
    <2>1. UNCHANGED <<loads, load, handed, handoff, enabled, isOpen, noticed, config, due>> /\ End(r)
      BY <1>13 DEF ConfigFailed, LintHere, Finish
    <2>2. \A s \in Req : Awaits(s)' => req'[s] = req[s]
      BY <1>1, <2>1 DEF End, Awaits, Idle
    <2> QED BY <2>1, <2>2, LoadKept
  <1> QED BY <1>5, <1>6, <1>7, <1>9, <1>10, <1>11, <1>12, <1>13 DEF Next, GoesOn
-----------------------------------------------------------------------------
(* CurrentInv.  The order of the pipe carries a place that is certain along,    *)
(* and with it the pulls that are on time.                                  *)

LEMMA CertainServed ==
  ASSUME NEW q, NEW x, Takes(q, x), NEW i \in 2..Len(pipe), Certain(i)
  PROVE  Certain(i - 1)'
  <1>1. CASE session \in {NoConfig, handoff}
    <2>1. session' \in {NoConfig, handoff'}
      BY <1>1 DEF Takes, NextSession
    <2> QED BY <2>1 DEF Certain
  <1>2. CASE \E k \in 1..(i - 1) : pipe[k].method = "configChanged"
    <2>1. PICK k \in 1..(i - 1) : pipe[k].method = "configChanged"
      BY <1>2
    <2>2. CASE k = 1
      BY <2>1, <2>2 DEF Takes, Certain
    <2>3. CASE k # 1
      <3>1. Len(pipe) \in Nat
        BY DEF Takes
      <3>2. k - 1 \in 1..((i - 1) - 1) /\ k - 1 \in 1..(Len(pipe) - 1) /\ (k - 1) + 1 = k
        BY <2>3, <3>1
      <3>3. pipe'[k - 1] = pipe[k]
        BY <3>2 DEF Takes
      <3> QED BY <2>1, <3>2, <3>3 DEF Certain
    <2> QED BY <2>2, <2>3
  <1> QED BY <1>1, <1>2 DEF Certain

LEMMA PostedPipe ==
  ASSUME TypeOK, NEW r \in Req, NEW method \in {"lint", "configChanged"},
         pipe' = Append(pipe, MessageOf(r, method))
  PROVE  /\ Len(pipe) \in Nat /\ DOMAIN pipe = 1..Len(pipe) /\ DOMAIN pipe' = 1..(Len(pipe) + 1)
         /\ \A k \in 1..Len(pipe) : pipe'[k] = pipe[k]
         /\ pipe'[Len(pipe) + 1].req = r /\ pipe'[Len(pipe) + 1].method = method
  <1>1. /\ MessageOf(r, method) \in Message /\ pipe \in Seq(Message)
        /\ MessageOf(r, method).req = r /\ MessageOf(r, method).method = method
    BY DEF MessageOf, Message, TypeOK, ClientTypeOK
  <1> QED BY <1>1, Appended

LEMMA CertainPosted ==
  ASSUME TypeOK, NEW r \in Req, NEW method \in {"lint", "configChanged"},
         pipe' = Append(pipe, MessageOf(r, method)),
         session' \in {session, NoConfig}, UNCHANGED handoff
  PROVE  /\ \A i \in 1..Len(pipe) : Certain(i) => Certain(i)'
         /\ CertainAtEnd => CertainAtEnd' /\ \A i \in DOMAIN pipe' : pipe'[i].req = r /\ r \notin InFlight
                                                                    => Certain(i)'
  <1>1. /\ Len(pipe) \in Nat /\ DOMAIN pipe = 1..Len(pipe) /\ DOMAIN pipe' = 1..(Len(pipe) + 1)
        /\ \A k \in 1..Len(pipe) : pipe'[k] = pipe[k]
    BY PostedPipe
  <1>2. ASSUME NEW i \in 1..Len(pipe), Certain(i) PROVE Certain(i)'
    <2>1. \A k \in 1..(i - 1) : k \in 1..Len(pipe)
      BY <1>1
    <2> QED BY <1>1, <1>2, <2>1 DEF Certain
  <1>3. ASSUME CertainAtEnd PROVE CertainAtEnd'
    <2>1. \A k \in DOMAIN pipe : k \in DOMAIN pipe'
      BY <1>1
    <2> QED BY <1>1, <1>3, <2>1 DEF CertainAtEnd
  <1>4. ASSUME CertainAtEnd, NEW i \in DOMAIN pipe', pipe'[i].req = r, r \notin InFlight
        PROVE  Certain(i)'
    <2>1. i = Len(pipe) + 1
      <3>1. i \notin 1..Len(pipe)
        BY <1>1, <1>4 DEF InFlight
      <3> QED BY <1>1, <3>1
    <2>2. \A k \in DOMAIN pipe : k \in 1..(i - 1)
      BY <1>1, <2>1
    <2> QED BY <1>1, <1>4, <2>2 DEF CertainAtEnd, Certain
  <1> QED BY <1>2, <1>3, <1>4

LEMMA CertainStep ==
  ASSUME TypeOK, PipeInv, CertainAtEnd, [Next]_vars
  PROVE  CertainAtEnd'
  <1> USE DEF Event, clientVars
  <1>1. ASSUME UNCHANGED <<pipe, session, handoff>> PROVE CertainAtEnd'
    BY <1>1 DEF CertainAtEnd
  <1>2. CASE BinaryAnswers
    <2>1. PICK q, x : Takes(q, x)
      BY <1>2, Serving DEF BinaryAnswers
    <2>2. CASE session \in {NoConfig, handoff}
      BY <2>1, <2>2 DEF CertainAtEnd, Takes, NextSession
    <2>3. CASE \E k \in DOMAIN pipe : pipe[k].method = "configChanged"
      <3>1. PICK k \in DOMAIN pipe : pipe[k].method = "configChanged"
        BY <2>3
      <3>2. CASE k = 1
        BY <2>1, <3>1, <3>2 DEF Takes, CertainAtEnd
      <3>3. CASE k # 1
        <4>1. Len(pipe) \in Nat /\ k \in 1..Len(pipe)
          BY <2>1 DEF Takes
        <4>2. k - 1 \in 1..(Len(pipe) - 1) /\ (k - 1) + 1 = k
          BY ONLY <3>3, <4>1
        <4>3. k - 1 \in DOMAIN pipe' /\ pipe'[k - 1] = pipe[k]
          BY <2>1, <4>2 DEF Takes
        <4> QED BY <3>1, <4>3 DEF CertainAtEnd
      <3> QED BY <3>2, <3>3
    <2> QED BY <2>2, <2>3 DEF CertainAtEnd
  <1>3. CASE BinaryExits
    BY <1>3 DEF BinaryExits, Exits, CertainAtEnd
  <1>4. ASSUME NEW r \in Req, HandOff(r) PROVE CertainAtEnd'
    <2>1. Hands(r) /\ session' \in {session, NoConfig}
      BY <1>4, HandingOff DEF Hands
    <2>2. CASE req[r].load \in handed
      <3>1. pipe' = Append(pipe, MessageOf(r, "lint")) /\ handoff' = handoff
        BY <2>1, <2>2 DEF Hands, Posts
      <3> QED BY <2>1, <3>1, CertainPosted
    <2>3. CASE req[r].load \notin handed
      <3>1. pipe' = Append(pipe, MessageOf(r, "configChanged"))
        BY <2>1, <2>3 DEF Hands, Posts
      <3>2. Len(pipe) \in Nat /\ DOMAIN pipe' = 1..(Len(pipe) + 1) /\ pipe'[Len(pipe) + 1].method = "configChanged"
        BY <3>1, PostedPipe
      <3>3. Len(pipe) + 1 \in DOMAIN pipe'
        BY <3>2
      <3> QED BY <3>2, <3>3 DEF CertainAtEnd
    <2> QED BY <2>2, <2>3
  <1>5. ASSUME NEW r \in Req, SendLint(r) \/ LintAgain(r) PROVE CertainAtEnd'
    <2>1. UNCHANGED <<session, handoff>> /\ \E text, pass : Relints(r, text, pass)
      BY <1>5, Relinting DEF SendLint, LintAgain
    <2>2. UNCHANGED pipe \/ pipe' = Append(pipe, MessageOf(r, "lint"))
      BY <2>1 DEF Relints, Posts
    <2> QED BY <1>1, <2>1, <2>2, CertainPosted
  <1>6. ASSUME NEW r \in Req,
               Pull(r) \/ FixAll(r) \/ ConfigFailed(r) \/ LintHere(r) \/ Finish(r)
        PROVE  CertainAtEnd'
    BY <1>1, <1>6 DEF Pull, FixAll, ConfigFailed, LintHere, Finish
  <1>7. CASE \/ Open \/ Change \/ Close \/ EditConfig \/ Notice \/ ChangeSettings \/ QuickFix
             \/ (\E i \in DOMAIN loads : LoadSettles(i)) \/ UNCHANGED vars
    BY <1>1, <1>7 DEF Open, Change, Close, EditConfig, Notice, ChangeSettings, QuickFix, LoadSettles, vars
  <1> QED BY <1>2, <1>3, <1>4, <1>5, <1>6, <1>7 DEF Next, GoesOn

(* What the steps below start from. *)
Sound ==
  TypeOK /\ PipeInv /\ TurnInv /\ ForwardInv /\ LifeInv /\ LoadInv /\ CertainAtEnd

(* Once a pull came after every change, the cached load is the last one, and    *)
(* what the handoff file has once that load was handed over.                 *)
LEMMA AnsweringLoad ==
  ASSUME TypeOK, LoadInv, Answering
  PROVE  /\ load # 0 /\ load \in DOMAIN loads
         /\ loads[load].read = config
         /\ load \in handed => /\ handoff = config
                              /\ \A s \in Req : Awaits(s) => req[s].load = load
         /\ \A r, s \in Req : Loaded(r) /\ req[r].load = load /\ Awaits(s) => req[s].load = load
  <1>1. load # 0 /\ load = Len(loads) /\ loads[load].read = config
    BY DEF Answering, LoadInv, CacheInv
  <1>2. /\ load \in 0..Len(loads) /\ Len(loads) \in Nat /\ DOMAIN loads = 1..Len(loads)
        /\ handed \subseteq 1..Len(loads)
    BY LoadsTyped
  <1>3. load \in DOMAIN loads
    BY <1>1, <1>2
  <1>4. ASSUME load \in handed
        PROVE  handoff = config /\ \A s \in Req : Awaits(s) => req[s].load = load
    <2>1. PICK k \in handed : (\A i \in handed : i <= k) /\ handoff = loads[k].read
      BY <1>4 DEF LoadInv, HandedInv
    <2>2. k = load
      <3>1. load <= k /\ k \in 1..Len(loads)
        BY <1>2, <1>4, <2>1
      <3> QED BY <1>1, <1>2, <3>1
    <2>3. loads[load].settled
      BY <1>4 DEF LoadInv, SettledInv
    <2> QED BY <1>1, <2>1, <2>2, <2>3 DEF LoadInv, SettledInv
  <1>5. \A r, s \in Req : Loaded(r) /\ req[r].load = load /\ Awaits(s) => req[s].load = load
    BY <1>1 DEF Loaded, LoadInv, SettledInv
  <1> QED BY <1>1, <1>3, <1>4, <1>5

LEMMA OnTimeKept ==
  ASSUME NEW p \in Pulls, OnTime(p), UNCHANGED <<life, version, load, config>>,
         req'[p] = req[p], answer'[p] = answer[p], \A i \in handed : i \in handed',
         req[p].stage = "lint" => \A i \in DOMAIN pipe' : pipe'[i].req = p => Certain(i)'
  PROVE  p \in Pulls' /\ OnTime(p)'
  <1>1. p \in Pulls'
    BY DEF Pulls
  <1>2. textOf(life)' = textOf(life)
    BY DEF textOf
  <1> QED BY <1>1, <1>2 DEF OnTime

(* A pull that did not send its lint when another's answer is due is on time.   *)
LEMMA OthersInTime ==
  ASSUME Sound, Answering, load \in handed, NEW s \in Pulls, req[s].stage # "lint"
  PROVE  OnTime(s)
  <1>1. req[s].stage \in {"config", "handoff"} /\ s \in Req
    BY HandlerTyped DEF Pulls, Sound
  <1>2. req[s].stage = "config" => req[s].load = load
    BY <1>1, AnsweringLoad DEF Sound, Awaits
  <1> QED BY <1>1, <1>2 DEF OnTime

(* A lint behind one of the newest text is of that text.                      *)
LEMMA SameText ==
  ASSUME Sound, NEW p \in Pulls, NEW s \in Pulls,
         req[p].stage = "lint", req[s].stage = "lint", req[p].text = textOf(life),
         InTextOrder(p, s)
  PROVE  req[s].text = textOf(life)
  <1>1. /\ s \in Req /\ p \in Req /\ req[s].text \in Text
        /\ req[s].life = life /\ life \in Lives /\ version[life] \in Nat
        /\ req[s].text.life = life /\ req[s].text.version <= version[life]
    <2>1. s \in Req /\ p \in Req /\ life \in Lives /\ version \in [Lives -> 1..MaxVersion]
      BY DEF Pulls, Sound, TypeOK
    <2>2. req[s].text \in Text
      BY <2>1, HandlerTyped DEF Sound
    <2>3. req[s].life = life
      BY <2>1 DEF Sound, LifeInv
    <2>4. req[s].text.life = req[s].life /\ req[s].text.version <= version[req[s].life]
      BY <2>1 DEF Sound, ForwardInv, TextsHeld
    <2>5. version[life] \in Nat
      BY <2>1, ServerAssumption
    <2> QED BY <2>1, <2>2, <2>3, <2>4, <2>5
  <1>2. Before(req[p].text, req[s].text)
    BY <1>1 DEF InTextOrder, PullLint, Pulls
  <1>3. version[life] <= req[s].text.version
    BY <1>1, <1>2 DEF Before, textOf
  <1>4. req[s].text.version \in Nat
    BY <1>1, ServerAssumption DEF Text
  <1>5. req[s].text.version = version[life]
    BY <1>1, <1>3, <1>4
  <1> QED BY <1>1, <1>5 DEF Text, textOf

LEMMA AnswerInTime ==
  ASSUME Sound, Answering, Timely \/ Spent, BinaryAnswers
  PROVE  Timely' \/ Spent'
  <1> USE DEF Event
  <1>1. PICK q, x : Takes(q, x)
    BY Serving DEF BinaryAnswers, Sound
  <1>2. UNCHANGED <<life, version, load, config, req, handed, states, handoff>>
    BY <1>1 DEF BinaryAnswers, Takes, documentVars, configVars
  <1>3. \A r \in Req : ~Answered(r)
    BY NothingSettled DEF BinaryAnswers
  <1>4. Pulls' = Pulls /\ (textOf(life))' = textOf(life) /\ Pulls \subseteq Req
    BY <1>2 DEF Pulls, textOf
  <1>5. /\ q \in Req /\ answer' = [answer EXCEPT ![q] = x] /\ answer \in [Req -> Answer]
        /\ Len(pipe) \in Nat \ {0} /\ DOMAIN pipe = 1..Len(pipe) /\ q = pipe[1].req
        /\ \A i \in DOMAIN pipe' : i + 1 \in 2..Len(pipe) /\ pipe'[i] = pipe[i + 1] /\ (i + 1) - 1 = i
    BY <1>1 DEF Takes, Sound, TypeOK, ClientTypeOK
  <1>6. CASE Timely
    <2>1. PICK p \in Pulls : OnTime(p)
      BY <1>6 DEF Timely
    <2>2. CASE p # q
      <3>1. \A i \in DOMAIN pipe' : pipe'[i].req = p /\ req[p].stage = "lint" => Certain(i)'
        <4>1. ASSUME NEW i \in DOMAIN pipe', pipe'[i].req = p, req[p].stage = "lint"
              PROVE  Certain(i)'
          <5>1. i + 1 \in 2..Len(pipe) /\ i + 1 \in DOMAIN pipe /\ pipe[i + 1].req = p
            BY <1>5, <4>1
          <5>2. Certain(i + 1)
            BY <2>1, <4>1, <5>1 DEF OnTime
          <5>3. Certain((i + 1) - 1)'
            BY <1>1, <5>1, <5>2, CertainServed
          <5>4. (i + 1) - 1 = i
            BY <1>5
          <5> QED BY <5>3, <5>4
        <4> QED BY <4>1
      <3>2. p \in Pulls' /\ OnTime(p)'
        BY <1>2, <1>4, <1>5, <2>1, <2>2, <3>1, OnTimeKept
      <3> QED BY <3>2 DEF Timely
    <2>3. CASE p = q /\ req[p].stage # "lint"
      <3>1. OnTime(p)'
        BY <1>2, <2>1, <2>3 DEF OnTime
      <3> QED BY <1>4, <3>1 DEF Timely
    <2>4. CASE p = q /\ req[p].stage = "lint"
      <3>1. /\ load \in handed /\ req[p].text = textOf(life) /\ p \in Req
            /\ \A i \in DOMAIN pipe : pipe[i].req = p => Certain(i)
        BY <1>4, <2>1, <2>4 DEF OnTime
      <3>2. handoff = config /\ config \in Config
        BY <3>1, AnsweringLoad DEF Sound, TypeOK
      <3>3. session \in {NoConfig, config}
        <4>1. 1 \in DOMAIN pipe
          BY <1>5
        <4>2. Certain(1)
          BY <1>5, <2>4, <3>1, <4>1
        <4>3. 1..(1 - 1) = {}
          OBVIOUS
        <4> QED BY <3>2, <4>2, <4>3 DEF Certain
      <3>4. NextSession = config
        BY <3>2, <3>3 DEF NextSession
      <3>5. pipe[1].method = "lint"
        <4>1. 1 \in DOMAIN pipe /\ req[pipe[1].req].stage = "lint"
          BY <1>5, <2>4
        <4> QED BY <4>1 DEF Sound, PipeInv
      <3>6. CASE x = config
        <4>1. answer'[p] = config
          BY <1>5, <2>4, <3>1, <3>6
        <4>2. \A i \in DOMAIN pipe' : pipe'[i].req # p
          <5>1. ASSUME NEW i \in DOMAIN pipe', pipe'[i].req = p PROVE FALSE
            <6>1. i + 1 \in DOMAIN pipe /\ 1 \in DOMAIN pipe /\ pipe[i + 1].req = pipe[1].req
              BY <1>5, <2>4, <5>1
            <6>2. i + 1 = 1
              BY <6>1 DEF Sound, PipeInv
            <6>3. i + 1 # 1
              BY <1>5
            <6> QED BY <6>2, <6>3
          <5> QED BY <5>1
        <4>3. OnTime(p)'
          BY <1>2, <1>4, <2>4, <3>1, <4>1, <4>2 DEF OnTime
        <4> QED BY <1>4, <4>3 DEF Timely
      <3>7. CASE x = Failed /\ session' \in {session, NextSession}
        <4>1. session' \in {NoConfig, handoff'}
          BY <1>2, <3>2, <3>3, <3>4, <3>7
        <4>2. ASSUME NEW s \in Pulls, ~Fails(s)' PROVE OnTime(s)'
          <5>1. s \in Req
            BY <1>4
          <5>2. CASE req[s].stage # "lint"
            <6>1. OnTime(s)
              BY <3>1, <5>2, OthersInTime
            <6> QED BY <1>2, <5>2, <6>1 DEF OnTime
          <5>3. CASE req[s].stage = "lint"
            <6>1. s # p
              BY <1>2, <1>5, <2>4, <3>1, <3>7, <4>2 DEF Fails
            <6>2. answer[s] = Waiting /\ answer'[s] = Waiting
              BY <1>3, <1>5, <2>4, <5>1, <5>3, <6>1 DEF Answered, Sent
            <6>3. PICK j \in DOMAIN pipe : pipe[j].req = s
              BY <5>1, <6>2 DEF Sound, TypeOK, InFlight
            <6>4. 1 \in DOMAIN pipe /\ 1 <= j
              BY <1>5
            <6>5. InTextOrder(p, s)
              BY <1>5, <2>4, <3>1, <5>1, <6>3, <6>4 DEF Sound, ForwardInv, PipeForward
            <6>6. req[s].text = textOf(life)
              BY <2>4, <3>1, <5>3, <6>5, SameText
            <6>7. \A i \in DOMAIN pipe' : Certain(i)'
              BY <4>1 DEF Certain
            <6> QED BY <1>2, <1>4, <3>1, <5>3, <6>2, <6>6, <6>7 DEF OnTime
          <5> QED BY <5>2, <5>3
        <4>3. CASE \A s \in Pulls : Fails(s)'
          BY <1>4, <4>3 DEF Spent
        <4>4. CASE \E s \in Pulls : ~Fails(s)'
          BY <1>4, <4>2, <4>4 DEF Timely
        <4> QED BY <4>3, <4>4
      <3> QED BY <1>1, <3>4, <3>5, <3>6, <3>7 DEF Takes
    <2> QED BY <2>2, <2>3, <2>4
  <1>7. CASE Spent
    <2>1. Pulls = {}
      BY <1>3, <1>4, <1>7, ClientAssumption DEF Spent, Fails, Answered, Sent
    <2>2. states' = NoState \/ Current'
      BY <1>2, <1>4, <1>7, <2>1 DEF Spent, Current
    <2> QED BY <1>4, <2>1, <2>2 DEF Spent
  <1> QED BY <1>6, <1>7

LEMMA ExitInTime ==
  ASSUME Sound, Answering, Timely \/ Spent, BinaryExits
  PROVE  Timely' \/ Spent'
  <1> USE DEF Event
  <1>1. UNCHANGED <<life, version, load, config, req, handed, states, loads, engine>>
    BY DEF BinaryExits, documentVars, configVars
  <1>2. \A r \in Req : ~Answered(r)
    BY NothingSettled DEF BinaryExits
  <1>3. Pulls' = Pulls /\ textOf(life)' = textOf(life) /\ Pulls \subseteq Req
    BY <1>1 DEF Pulls, textOf
  <1>4. \A r \in Req : answer'[r] = IF answer[r] = Waiting THEN Failed ELSE answer[r]
    BY <1>1, Exiting DEF BinaryExits, Sound
  <1>5. CASE Timely
    <2>1. PICK p \in Pulls : OnTime(p)
      BY <1>5 DEF Timely
    <2>2. CASE req[p].stage # "lint"
      <3>1. OnTime(p)'
        BY <1>1, <2>1, <2>2 DEF OnTime
      <3> QED BY <1>3, <3>1 DEF Timely
    <2>3. CASE req[p].stage = "lint"
      <3>1. load \in handed
        BY <2>1, <2>3 DEF OnTime
      <3>2. \A s \in Pulls : req[s].stage # "lint" => OnTime(s)'
        <4>1. ASSUME NEW s \in Pulls, req[s].stage # "lint" PROVE OnTime(s)'
          <5>1. OnTime(s)
            BY <3>1, <4>1, OthersInTime
          <5> QED BY <1>1, <4>1, <5>1 DEF OnTime
        <4> QED BY <4>1
      <3>3. \A s \in Pulls : req[s].stage = "lint" => Fails(s)'
        BY <1>1, <1>2, <1>3, <1>4 DEF Fails, Answered, Sent
      <3> QED BY <1>3, <3>2, <3>3 DEF Timely, Spent
    <2> QED BY <2>2, <2>3
  <1>6. CASE Spent
    <2>1. Pulls = {}
      BY <1>2, <1>3, <1>6, ClientAssumption DEF Spent, Fails, Answered, Sent
    <2>2. states' = NoState \/ Current'
      BY <1>1, <1>3, <1>6, <2>1 DEF Spent, Current
    <2> QED BY <1>3, <2>1, <2>2 DEF Spent
  <1> QED BY <1>5, <1>6

(* Pulls that are spent stay so while none of them moves. *)
LEMMA SpentKept ==
  ASSUME Spent, UNCHANGED <<life, version, config>>, Pulls' = Pulls,
         \A s \in Pulls : req'[s] = req[s] /\ answer'[s] = answer[s],
         UNCHANGED states \/ states' = NoState
  PROVE  Spent'
  <1>1. \A s \in Pulls : Fails(s)'
    BY DEF Spent, Fails
  <1>2. Current /\ UNCHANGED states => Current'
    BY DEF Current, textOf
  <1> QED BY <1>1, <1>2 DEF Spent

(* A handler sends: the others' messages keep their places.                  *)
LEMMA SentKept ==
  ASSUME Sound, NEW r \in Req, NEW method \in {"lint", "configChanged"},
         NEW p \in Pulls, p # r, OnTime(p), UNCHANGED <<life, version, load, config>>,
         req'[p] = req[p], answer'[p] = answer[p], \A i \in handed : i \in handed',
         \/ UNCHANGED <<pipe, session>>
         \/ pipe' = Append(pipe, MessageOf(r, method)) /\ session' \in {session, NoConfig},
         req[p].stage = "lint" => UNCHANGED handoff
  PROVE  p \in Pulls' /\ OnTime(p)'
  <1>1. ASSUME NEW i \in DOMAIN pipe', pipe'[i].req = p, req[p].stage = "lint"
        PROVE  Certain(i)'
    <2>1. \A j \in DOMAIN pipe : pipe[j].req = p => Certain(j)
      BY <1>1 DEF OnTime
    <2>2. CASE UNCHANGED <<pipe, session>>
      BY <1>1, <2>1, <2>2 DEF Certain
    <2>3. CASE pipe' = Append(pipe, MessageOf(r, method)) /\ session' \in {session, NoConfig}
      <3>1. TypeOK /\ UNCHANGED handoff
        BY <1>1 DEF Sound
      <3>2. /\ Len(pipe) \in Nat /\ DOMAIN pipe = 1..Len(pipe) /\ DOMAIN pipe' = 1..(Len(pipe) + 1)
            /\ \A k \in 1..Len(pipe) : pipe'[k] = pipe[k]
            /\ pipe'[Len(pipe) + 1].req = r
        BY <2>3, <3>1, PostedPipe
      <3>3. \A j \in 1..Len(pipe) : Certain(j) => Certain(j)'
        BY <2>3, <3>1, CertainPosted
      <3>4. i \in 1..Len(pipe)
        BY <1>1, <3>2
      <3> QED BY <1>1, <2>1, <3>2, <3>3, <3>4
    <2> QED BY <2>2, <2>3
  <1> QED BY <1>1, OnTimeKept

LEMMA HandOffInTime ==
  ASSUME Sound, Answering, Timely \/ Spent, NEW r \in Req, HandOff(r)
  PROVE  Timely' \/ Spent'
  <1>1. /\ Hands(r) /\ Loaded(r) /\ Awaits(r)
        /\ UNCHANGED <<life, version, load, config, states>>
    BY HandingOff DEF HandOff, Loaded, Awaits, Sound, documentVars, configVars
  <1>2. /\ \A s \in Req \ {r} : req'[s] = req[s] /\ answer'[s] = answer[s]
        /\ req'[r].kind = req[r].kind /\ req'[r].stage \in {"handoff", "lint"}
        /\ handed' = handed \cup {req[r].load}
        /\ answer'[r] = Waiting
    BY <1>1 DEF Hands, Goes, Posts, Sound, TypeOK, ClientTypeOK, StageOf
  <1>3. Pulls \subseteq Req /\ Pulls' = Pulls
    BY <1>1, <1>2 DEF Pulls, Awaits
  <1>4. answer[r] # Waiting
    BY <1>1 DEF Awaits, Sent, Sound, PipeInv
  <1>5. CASE Timely
    <2>1. PICK p \in Pulls : OnTime(p)
      BY <1>5 DEF Timely
    <2>2. CASE p # r
      <3>1. req[p].stage = "lint" => req[r].load = load /\ load \in handed
        BY <1>1, <2>1, AnsweringLoad DEF OnTime, Sound
      <3>2. PICK method \in {"lint", "configChanged"} :
              /\ pipe' = Append(pipe, MessageOf(r, method)) /\ session' \in {session, NoConfig}
              /\ req[r].load \in handed => UNCHANGED handoff
        BY <1>1 DEF Hands, Posts
      <3>3. OnTime(p)'
        BY <1>1, <1>2, <1>3, <2>1, <2>2, <3>1, <3>2, SentKept
      <3> QED BY <1>3, <3>3 DEF Timely
    <2>3. CASE p = r
      <3>1. req[r].load = load
        BY <1>1, <2>1, <2>3 DEF OnTime, Awaits
      <3>2. CASE load \notin handed
        <4>1. req'[r].stage = "handoff"
          BY <1>1, <3>1, <3>2 DEF Hands, Goes, StageOf
        <4>2. OnTime(r)'
          BY <1>1, <1>2, <3>1, <4>1 DEF OnTime
        <4> QED BY <1>3, <2>3, <4>2 DEF Timely
      <3>3. CASE load \in handed
        <4>1. /\ req'[r].stage = "lint" /\ req'[r].text = textOf(req[r].life)
              /\ pipe' = Append(pipe, MessageOf(r, "lint")) /\ session' \in {session, NoConfig}
              /\ UNCHANGED handoff
          BY <1>1, <3>1, <3>3 DEF Hands, Goes, Posts, StageOf
        <4>2. req[r].life = life
          BY <1>1 DEF Sound, LifeInv, Awaits
        <4>3. r \notin InFlight
          BY <1>4 DEF Sound, TypeOK
        <4>4. \A i \in DOMAIN pipe' : pipe'[i].req = r => Certain(i)'
          BY <4>1, <4>3, CertainPosted DEF Sound
        <4>5. req'[r].text = textOf(life)'
          BY <1>1, <4>1, <4>2 DEF textOf
        <4>6. OnTime(r)'
          BY <1>1, <1>2, <3>1, <4>1, <4>4, <4>5 DEF OnTime
        <4> QED BY <1>3, <2>3, <4>6 DEF Timely
      <3> QED BY <3>2, <3>3
    <2> QED BY <2>2, <2>3
  <1>6. CASE Spent
    <2>1. r \notin Pulls
      BY <1>1, <1>6 DEF Spent, Fails, Awaits
    <2> QED BY <1>1, <1>2, <1>3, <1>6, <2>1, SpentKept
  <1> QED BY <1>5, <1>6

LEMMA RelintInTime ==
  ASSUME Sound, Answering, Timely \/ Spent, NEW r \in Req, SendLint(r) \/ LintAgain(r)
  PROVE  Timely' \/ Spent'
  <1>1. UNCHANGED <<life, version, load, config, states, handed, handoff, session, spawned, alive>>
    BY DEF SendLint, LintAgain, documentVars, configVars
  <1>2. PICK text, pass : Relints(r, text, pass)
    BY Relinting DEF Sound
  <1>3. /\ \A s \in Req \ {r} : req'[s] = req[s] /\ answer'[s] = answer[s]
        /\ req'[r].kind = req[r].kind /\ req'[r].stage = "lint"
        /\ UNCHANGED pipe \/ pipe' = Append(pipe, MessageOf(r, "lint"))
    BY <1>2 DEF Relints, Goes, Posts, Sound, TypeOK, ClientTypeOK
  <1>4. req[r].stage \in {"handoff", "lint"} /\ answer[r] # Waiting
    BY ClientAssumption DEF SendLint, LintAgain
  <1>5. Pulls \subseteq Req /\ Pulls' = Pulls
    BY <1>3, <1>4 DEF Pulls
  <1>6. ASSUME NEW p \in Pulls, OnTime(p), p # r PROVE Timely'
    <2>1. OnTime(p)'
      BY <1>1, <1>3, <1>5, <1>6, SentKept
    <2> QED BY <1>5, <2>1 DEF Timely
  <1>7. CASE Timely /\ SendLint(r)
    <2>1. PICK p \in Pulls : OnTime(p)
      BY <1>7 DEF Timely
    <2>2. CASE p = r
      <3>1. req[r].stage = "handoff" /\ load \in handed /\ req[r].client = spawned
        BY <1>7, <2>1, <2>2 DEF SendLint, OnTime, Sound, TurnInv
      <3>2. PICK pass2 : Relints(r, textOf(req[r].life), pass2)
        BY <1>7, Relinting DEF Sound
      <3>3. req[r].life = life /\ textOf(life)' = textOf(life)
        BY <1>1, <3>1 DEF Sound, LifeInv, textOf
      <3>4. CASE Posts(r, "lint")
        <4>1. /\ pipe' = Append(pipe, MessageOf(r, "lint")) /\ answer'[r] = Waiting
              /\ req'[r].text = textOf(life)
          BY <3>2, <3>3, <3>4 DEF Relints, Goes, Posts, Sound, TypeOK, ClientTypeOK
        <4>2. r \notin InFlight
          BY <1>4 DEF Sound, TypeOK
        <4>3. \A i \in DOMAIN pipe' : pipe'[i].req = r => Certain(i)'
          BY <1>1, <4>1, <4>2, CertainPosted DEF Sound
        <4>4. OnTime(r)'
          BY <1>1, <1>3, <3>1, <3>3, <4>1, <4>3 DEF OnTime
        <4> QED BY <1>5, <2>2, <4>4 DEF Timely
      <3>5. CASE ~alive /\ UNCHANGED pipe /\ answer' = [answer EXCEPT ![r] = Failed]
        <4>1. pipe = << >> /\ InFlight = {}
          BY <3>5 DEF Sound, PipeInv, InFlight
        <4>2. ASSUME NEW s \in Pulls, req[s].stage = "lint" PROVE Fails(s)'
          <5>1. s \in Req /\ s # r
            BY <1>5, <3>1, <4>2
          <5>2. answer[s] \in Answer /\ answer[s] # Waiting /\ answer[s] # Done /\ ~Linted(s)
            BY <3>5, <4>1, <4>2, <5>1 DEF Sound, TypeOK, ClientTypeOK, PipeInv, TurnInv
          <5>3. answer[s] = Failed
            BY <4>2, <5>2 DEF Linted, Answer
          <5> QED BY <1>3, <4>2, <5>1, <5>3 DEF Fails
        <4>3. Fails(r)'
          BY <1>3, <3>5 DEF Fails, Sound, TypeOK, ClientTypeOK
        <4>4. CASE \E s \in Pulls : req[s].stage # "lint" /\ s # r
          <5>1. PICK s \in Pulls : req[s].stage # "lint" /\ s # r
            BY <4>4
          <5>2. OnTime(s)
            BY <3>1, <5>1, OthersInTime
          <5> QED BY <1>6, <5>1, <5>2
        <4>5. CASE \A s \in Pulls : req[s].stage = "lint" \/ s = r
          BY <1>5, <2>1, <4>2, <4>3, <4>5 DEF Spent
        <4> QED BY <4>4, <4>5
      <3> QED BY <3>1, <3>2, <3>4, <3>5 DEF Relints
    <2> QED BY <1>6, <2>1, <2>2
  <1>8. CASE Timely /\ LintAgain(r)
    <2>1. r \notin Pulls
      BY <1>8 DEF LintAgain, Pulls
    <2> QED BY <1>6, <1>8, <2>1 DEF Timely
  <1>9. CASE Spent
    <2>1. r \notin Pulls
      BY <1>9, ClientAssumption DEF Spent, Fails, SendLint, LintAgain, Pulls
    <2> QED BY <1>1, <1>3, <1>5, <1>9, <2>1, SpentKept
  <1> QED BY <1>7, <1>8, <1>9

(* A report of a pull that is on time is the one of now, and leaves pulls that  *)
(* are on time or failed.                                                   *)
LEMMA ReportIsOfNow ==
  ASSUME Sound, NEW r \in Req, req[r].stage # "idle", req[r].kind = "pull",
         UNCHANGED <<life, version, config>>, Report(r, textOf(life), config)
  PROVE  Current'
  <1>1. req[r].life = life
    BY DEF Sound, LifeInv
  <1>2. states' = toState(life, textOf(life), config, Used(r))
    BY <1>1 DEF Report
  <1>3. textOf(life)' = textOf(life)
    BY DEF textOf
  <1> QED BY <1>2, <1>3 DEF Current, toState

LEMMA DoneInTime ==
  ASSUME Sound, Answering, Timely \/ Spent, NEW r \in Req,
         ConfigFailed(r) \/ LintHere(r) \/ Finish(r)
  PROVE  Timely' \/ Spent'
  <1>1. UNCHANGED <<life, version, load, config, handed, handoff, session, pipe, answer>> /\ End(r)
    BY DEF ConfigFailed, LintHere, Finish, documentVars, configVars, clientVars
  <1>2. (\A s \in Req \ {r} : req'[s] = req[s]) /\ req'[r].stage = "idle"
    BY <1>1 DEF End, Idle, Sound, TypeOK
  <1>3. Pulls \subseteq Req /\ Pulls' = Pulls \ {r}
    BY <1>2 DEF Pulls
  <1>4. ASSUME NEW p \in Pulls, OnTime(p), p # r PROVE Timely'
    <2>1. \A i \in DOMAIN pipe : Certain(i) => Certain(i)'
      BY <1>1 DEF Certain
    <2>2. req[p].stage = "lint" => \A i \in DOMAIN pipe' : pipe'[i].req = p => Certain(i)'
      BY <1>1, <1>4, <2>1 DEF OnTime
    <2>3. req'[p] = req[p] /\ answer'[p] = answer[p]
      BY <1>1, <1>2, <1>3, <1>4
    <2>4. p \in Pulls' /\ OnTime(p)'
      BY <1>1, <1>4, <2>2, <2>3, OnTimeKept
    <2> QED BY <2>4 DEF Timely
  <1>5. CASE Timely
    <2>1. PICK p \in Pulls : OnTime(p)
      BY <1>5 DEF Timely
    <2>2. CASE p # r
      BY <1>4, <2>1, <2>2
    <2>3. CASE p = r /\ ConfigFailed(r)
      <3>1. req[r].load = load
        BY <2>1, <2>3 DEF OnTime, ConfigFailed
      <3> QED BY <2>3, <3>1, AnsweringLoad DEF ConfigFailed, Used, Answering, Sound
    <2>4. CASE p = r /\ LintHere(r)
      <3>1. req[r].load = load /\ Loaded(r) /\ engine = "wasm"
        BY <2>1, <2>4 DEF OnTime, LintHere, Loaded
      <3>2. Used(r) = config /\ textSent(r) = textOf(life)
        BY <2>1, <2>4, <3>1, AnsweringLoad DEF Used, textSent, Sound, LifeInv, Pulls
      <3>3. Current'
        BY <1>1, <2>1, <2>4, <3>2, ReportIsOfNow DEF LintHere, Pulls
      <3>4. ASSUME NEW s \in Pulls PROVE OnTime(s)
        <4>1. s \in Req /\ ~Sent(s)
          BY <1>3, <3>1 DEF Sound, PipeInv
        <4>2. Awaits(s)
          BY <4>1, HandlerTyped DEF Sound, Sent, Awaits, Pulls
        <4>3. req[s].load = load
          BY <3>1, <4>1, <4>2, AnsweringLoad DEF Sound
        <4> QED BY <4>2, <4>3 DEF OnTime, Awaits
      <3> QED BY <1>3, <1>4, <3>3, <3>4 DEF Spent
    <2>5. CASE p = r /\ Finish(r)
      <3>1. /\ req[r].stage = "lint" /\ req[r].kind = "pull" /\ answer[r] = config /\ config \in Config
            /\ load \in handed /\ req[r].text = textOf(life)
        BY <2>1, <2>5 DEF Finish, OnTime, Pulls, Sound, TypeOK
      <3>2. Current'
        BY <1>1, <2>5, <3>1, ReportIsOfNow, ClientAssumption DEF Finish
      <3>3. Linted(r) /\ session = config /\ handoff = config
        BY <3>1, AnsweringLoad DEF Linted, Sound, TurnInv
      <3>4. ASSUME NEW s \in Pulls, s # r, ~Fails(s) PROVE OnTime(s)
        <4>1. s \in Req
          BY <1>3
        <4>2. CASE req[s].stage # "lint"
          BY <3>1, <4>2, OthersInTime
        <4>3. CASE req[s].stage = "lint"
          <5>1. answer[s] = Waiting
            BY <3>3, <3>4, <4>1, <4>3 DEF Fails, Linted, Sound, TypeOK, ClientTypeOK, Answer, TurnInv, PipeInv
          <5>2. InTextOrder(r, s)
            BY <3>3, <4>1, <5>1 DEF Sound, ForwardInv, AnswerFirst
          <5>3. req[s].text = textOf(life)
            BY <2>1, <2>5, <3>1, <4>3, <5>2, SameText
          <5>4. \A i \in DOMAIN pipe : Certain(i)
            BY <3>3 DEF Certain
          <5> QED BY <3>1, <4>3, <5>1, <5>3, <5>4 DEF OnTime
        <4> QED BY <4>2, <4>3
      <3>5. CASE \A s \in Pulls' : Fails(s)
        <4>1. \A s \in Pulls' : Fails(s)'
          BY <1>1, <1>2, <1>3, <3>5 DEF Fails
        <4> QED BY <3>2, <4>1 DEF Spent
      <3>6. CASE \E s \in Pulls' : ~Fails(s)
        BY <1>3, <1>4, <3>4, <3>6
      <3> QED BY <3>5, <3>6
    <2> QED BY <2>2, <2>3, <2>4, <2>5
  <1>6. CASE Spent
    <2>1. CASE r \in Pulls
      <3>1. Fails(r)
        BY <1>6, <2>1 DEF Spent
      <3>2. states' = NoState
        BY <2>1, <3>1 DEF Fails, ConfigFailed, LintHere, Finish, NoReport, Pulls
      <3>3. \A s \in Pulls' : Fails(s)'
        BY <1>1, <1>2, <1>3, <1>6 DEF Spent, Fails
      <3> QED BY <3>2, <3>3 DEF Spent
    <2>2. CASE r \notin Pulls
      <3>1. UNCHANGED states
        BY <2>2 DEF ConfigFailed, LintHere, Finish, NoReport, Report, Pulls, Sound, TypeOK, Handler
      <3>2. Pulls' = Pulls /\ \A s \in Pulls : req'[s] = req[s] /\ answer'[s] = answer[s]
        BY <1>1, <1>2, <1>3, <2>2
      <3> QED BY <1>1, <1>6, <3>1, <3>2, SpentKept
    <2> QED BY <2>1, <2>2
  <1> QED BY <1>5, <1>6

(* What leaves the handlers at work, the pipe and the cached load alone. *)
LEMMA ElseInTime ==
  ASSUME Sound, Answering, Timely \/ Spent,
         UNCHANGED <<life, version, load, config, handed, handoff, session, pipe, answer, states>>,
         \A s \in Pulls : req'[s] = req[s], Pulls' = Pulls
  PROVE  Timely' \/ Spent'
  <1>1. CASE Timely
    <2>1. PICK p \in Pulls : OnTime(p)
      BY <1>1 DEF Timely
    <2>2. \A i \in DOMAIN pipe : Certain(i) => Certain(i)'
      BY DEF Certain
    <2>3. req[p].stage = "lint" => \A i \in DOMAIN pipe' : pipe'[i].req = p => Certain(i)'
      BY <2>1, <2>2 DEF OnTime
    <2>4. p \in Pulls' /\ OnTime(p)'
      BY <2>1, <2>3, OnTimeKept
    <2> QED BY <2>4 DEF Timely
  <1>2. CASE Spent
    BY <1>2, SpentKept
  <1> QED BY <1>1, <1>2

LEMMA StartInTime ==
  ASSUME Sound, CurrentInv, NEW r \in Req, Pull(r) \/ FixAll(r), Answering'
  PROVE  Timely' \/ Spent'
  <1>1. CASE Pull(r) /\ ~enabled
    BY <1>1 DEF Pull, Answering
  <1>2. CASE Pull(r) /\ enabled
    <2>1. forFile /\ Resolving(r, "pull")
      BY <1>2 DEF Pull
    <2>2. load' \in 0..MaxLoads
      <3>1. load' \in 1..Len(loads') /\ Len(loads') \in Nat /\ Len(loads') <= MaxLoads
        BY <2>1, ForFile DEF Sound
      <3>2. MaxLoads \in Nat
        BY ServerAssumption
      <3> QED BY ONLY <3>1, <3>2
    <2>3. req'[r].kind = "pull" /\ req'[r].stage = "config" /\ req'[r].load = load'
      BY <2>1, <2>2, StartedHandler DEF Sound
    <2>4. r \in Pulls' /\ OnTime(r)'
      BY <2>3 DEF Pulls, OnTime
    <2> QED BY <2>4 DEF Timely
  <1>3. CASE FixAll(r)
    <2>1. /\ forFile /\ Resolving(r, "fixAll") /\ req[r].stage = "idle"
          /\ UNCHANGED <<clientVars, documentVars, enabled, configVars, handed, states, due>>
      BY <1>3 DEF FixAll
    <2>2. Answering
      BY <2>1 DEF Answering, documentVars, configVars
    <2>3. load # 0
      BY <2>2, AnsweringLoad DEF Sound
    <2>4. load' = load /\ load \in 0..MaxLoads
      <3>1. load' = load
        BY <2>1, <2>3 DEF forFile
      <3>2. load' \in 1..Len(loads') /\ Len(loads') \in Nat /\ Len(loads') <= MaxLoads
        BY <2>1, ForFile DEF Sound
      <3>3. MaxLoads \in Nat
        BY ServerAssumption
      <3> QED BY ONLY <3>1, <3>2, <3>3
    <2>5. (\A s \in Req \ {r} : req'[s] = req[s]) /\ req'[r].kind = "fixAll"
      BY <2>1, <2>4, StartedHandler DEF Sound
    <2>6. Pulls' = Pulls /\ \A s \in Pulls : req'[s] = req[s]
      BY <2>1, <2>5 DEF Pulls
    <2> QED BY <2>1, <2>2, <2>4, <2>6, ElseInTime DEF clientVars, documentVars, configVars, CurrentInv
  <1> QED BY <1>1, <1>2, <1>3

LEMMA CurrentStep ==
  ASSUME Sound, CurrentInv, [Next]_vars
  PROVE  CurrentInv'
  <1> USE DEF clientVars, documentVars, configVars
  <1>1. CertainAtEnd'
    BY CertainStep DEF Sound
  <1>2. ASSUME UNCHANGED <<enabled, noticed, due, isOpen, config>> PROVE Answering' => Answering
    BY <1>2 DEF Answering
  <1>3. ASSUME Answering', BinaryAnswers PROVE Timely' \/ Spent'
    BY <1>2, <1>3, AnswerInTime DEF BinaryAnswers, CurrentInv
  <1>4. ASSUME Answering', BinaryExits PROVE Timely' \/ Spent'
    BY <1>2, <1>4, ExitInTime DEF BinaryExits, CurrentInv
  <1>5. ASSUME Answering', NEW r \in Req, HandOff(r) PROVE Timely' \/ Spent'
    BY <1>2, <1>5, HandOffInTime DEF HandOff, CurrentInv
  <1>6. ASSUME Answering', NEW r \in Req, SendLint(r) \/ LintAgain(r) PROVE Timely' \/ Spent'
    <2>1. Answering
      BY <1>2, <1>6 DEF SendLint, LintAgain
    <2> QED BY <1>6, <2>1, RelintInTime DEF CurrentInv
  <1>7. ASSUME Answering', NEW r \in Req, ConfigFailed(r) \/ LintHere(r) \/ Finish(r)
        PROVE  Timely' \/ Spent'
    <2>1. Answering
      BY <1>2, <1>7 DEF ConfigFailed, LintHere, Finish
    <2> QED BY <1>7, <2>1, DoneInTime DEF CurrentInv
  <1>8. ASSUME Answering', NEW r \in Req, Pull(r) \/ FixAll(r) PROVE Timely' \/ Spent'
    BY <1>8, StartInTime
  <1>9. Open \/ Change \/ Close \/ EditConfig \/ Notice \/ ChangeSettings => ~Answering'
    BY DEF Open, Change, Close, EditConfig, Notice, ChangeSettings, Answering
  <1>10. ASSUME Answering', QuickFix \/ (\E i \in DOMAIN loads : LoadSettles(i)) \/ UNCHANGED vars
         PROVE  Timely' \/ Spent'
    <2>1. UNCHANGED <<clientVars, documentVars, enabled, configVars, load, handed, states, req, due>>
      BY <1>10 DEF QuickFix, LoadSettles, vars
    <2>2. Answering /\ Pulls' = Pulls
      BY <1>10, <2>1 DEF Answering, Pulls
    <2> QED BY <2>1, <2>2, ElseInTime DEF CurrentInv
  <1>11. CASE ~Answering'
    BY <1>1, <1>11 DEF CurrentInv
  <1> QED BY <1>1, <1>3, <1>4, <1>5, <1>6, <1>7, <1>8, <1>9, <1>10, <1>11 DEF Next, GoesOn, CurrentInv

LEMMA CurrentInit == Init => LoadInv /\ CurrentInv
  <1> SUFFICES ASSUME Init PROVE LoadInv /\ CurrentInv
    OBVIOUS
  <1>1. CertainAtEnd /\ ~Answering
    BY DEF Init, ClientInit, CertainAtEnd, Answering
  <1>2. Len(loads) = 0 /\ load = 0 /\ handed = {} /\ due /\ \A r \in Req : req[r].stage = "idle"
    BY DEF Init, Idle
  <1>3. LoadInv
    BY <1>2 DEF LoadInv, CacheInv, SettledInv, HandedInv, Awaits, Loaded
  <1> QED BY <1>1, <1>3 DEF CurrentInv

-----------------------------------------------------------------------------
(* The plugins' rules.  They run on the load of the pull, so what counts is     *)
(* that a pull of the load in the cache reports after every pull of an older   *)
(* one.  A pull of an older load may lint late because it waits for its         *)
(* handoff to be answered; the handoff of the newer load is then behind it.    *)

HandingOver(r) == req[r].stage = "handoff"

(* In the pipe, p's message is ahead of h's. *)
InOrder(p, h) ==
  \A i, j \in DOMAIN pipe : pipe[i].req = p /\ pipe[j].req = h => i < j

TwoHandlers == \A p, q, r \in Req : p = q \/ q = r \/ r = p

(* No fix-all hands a configuration over while a pull does.                  *)
FixAllWaits ==
  \A r \in Req : req[r].kind = "fixAll" /\ Awaits(r) /\ HandingOver(r)'
                 => \A p \in Pulls : ~HandingOver(p)

SentHanded == \A r \in Req : Sent(r) => req[r].load \in handed

HandoffAlive == \A r \in Req : HandingOver(r) => (answer[r] = Failed <=> ~alive)

HandoffsInOrder ==
  \A p, h \in Req :
    HandingOver(p) /\ answer[p] # Failed /\ HandingOver(h) /\ req[p].load < req[h].load
    => answer[h] = Waiting /\ InOrder(p, h)

FirstHandoff ==
  \A p \in Pulls, k \in handed :
    HandingOver(p) /\ answer[p] # Failed /\ req[p].load < k
    => \E h \in Req : HandingOver(h) /\ req[h].load = k /\ (TwoHandlers \/ h \in Pulls)

HandoffInv == SentHanded /\ HandoffAlive /\ HandoffsInOrder /\ FirstHandoff

(* A pull whose lint has failed or will, and one that may still report on an    *)
(* older load; a pull of the load in the cache that reports after all those.   *)
Doomed(r) == Sent(r) /\ answer[r] = Failed
Stale(r) == r \in Pulls /\ Sent(r) /\ answer[r] # Failed /\ req[r].load # load

Rightful(r) ==
  /\ ~Doomed(r)
  /\ req[r].load = load
  /\ req[r].stage = "lint" =>
       \A p \in Req : Stale(p) => req[p].stage = "lint" /\ answer[r] = Waiting /\ InOrder(p, r)

RightfulPull == \E r \in Pulls : Rightful(r)

RulesSpent ==
  /\ \A p \in Pulls : Doomed(p)
  /\ states = NoState \/ states.rules = config \/ Pulls # {}

RulesInv == Answering => RightfulPull \/ RulesSpent

-----------------------------------------------------------------------------
LEMMA OrderPosted ==
  ASSUME TypeOK, NEW r \in Req, NEW method \in {"lint", "configChanged"},
         pipe' = Append(pipe, MessageOf(r, method)),
         NEW p \in Req, NEW h \in Req, p # r, InOrder(p, h)
  PROVE  InOrder(p, h)'
  <1>1. /\ Len(pipe) \in Nat /\ DOMAIN pipe = 1..Len(pipe) /\ DOMAIN pipe' = 1..(Len(pipe) + 1)
        /\ \A k \in 1..Len(pipe) : pipe'[k] = pipe[k]
        /\ pipe'[Len(pipe) + 1].req = r
    BY PostedPipe
  <1>2. ASSUME NEW i \in DOMAIN pipe', NEW j \in DOMAIN pipe', pipe'[i].req = p, pipe'[j].req = h
        PROVE  i < j
    <2>1. i \in 1..Len(pipe)
      BY <1>1, <1>2
    <2>2. CASE j \in 1..Len(pipe)
      BY <1>1, <1>2, <2>1, <2>2 DEF InOrder
    <2>3. CASE j = Len(pipe) + 1
      BY <1>1, <2>1, <2>3
    <2> QED BY <1>1, <2>2, <2>3
  <1> QED BY <1>2 DEF InOrder

LEMMA NoOrder ==
  ASSUME NEW p, NEW h, p \notin InFlight \/ h \notin InFlight
  PROVE  InOrder(p, h)
  BY DEF InOrder, InFlight

LEMMA OrderServed ==
  ASSUME NEW q, NEW x, Takes(q, x), NEW p, NEW h, InOrder(p, h)
  PROVE  InOrder(p, h)'
  <1>1. /\ Len(pipe) \in Nat /\ DOMAIN pipe = 1..Len(pipe) /\ DOMAIN pipe' = 1..(Len(pipe) - 1)
        /\ \A i \in 1..(Len(pipe) - 1) : pipe'[i] = pipe[i + 1]
    BY DEF Takes
  <1>2. ASSUME NEW i \in DOMAIN pipe', NEW j \in DOMAIN pipe', pipe'[i].req = p, pipe'[j].req = h
        PROVE  i < j
    <2>1. /\ i \in 1..(Len(pipe) - 1) /\ j \in 1..(Len(pipe) - 1)
          /\ i + 1 \in DOMAIN pipe /\ j + 1 \in DOMAIN pipe
      BY <1>1
    <2>2. pipe[i + 1].req = p /\ pipe[j + 1].req = h
      BY <1>1, <1>2, <2>1
    <2>3. i + 1 < j + 1
      BY <2>1, <2>2 DEF InOrder
    <2> QED BY ONLY <1>1, <2>1, <2>3
  <1> QED BY <1>2 DEF InOrder

(* What is in the pipe is not ahead of its first message.                    *)
LEMMA FirstIsFirst ==
  ASSUME NEW q, NEW x, Takes(q, x), NEW p \in InFlight
  PROVE  ~InOrder(p, q)
  <1>1. PICK i \in DOMAIN pipe : pipe[i].req = p
    BY DEF InFlight
  <1>2. 1 \in DOMAIN pipe /\ pipe[1].req = q /\ i \in Nat /\ ~(i < 1)
    BY DEF Takes
  <1> QED BY <1>1, <1>2 DEF InOrder

(* The handoffs under way are the same, and their places in the pipe.          *)
LEMMA HandoffsKept ==
  ASSUME HandoffInv, UNCHANGED <<alive, handed>>,
         \A r \in Req : /\ HandingOver(r)' <=> HandingOver(r)
                        /\ HandingOver(r) => req'[r] = req[r] /\ answer'[r] = answer[r]
                        /\ Sent(r)' => Sent(r) /\ req'[r].load = req[r].load,
         \A p, h \in Req : HandingOver(p) /\ HandingOver(h) /\ InOrder(p, h) => InOrder(p, h)'
  PROVE  HandoffInv'
  <1>1. SentHanded'
    BY DEF HandoffInv, SentHanded
  <1>2. HandoffAlive'
    BY DEF HandoffInv, HandoffAlive
  <1>3. HandoffsInOrder'
    BY DEF HandoffInv, HandoffsInOrder
  <1>4. \A p \in Req : HandingOver(p) => (p \in Pulls' <=> p \in Pulls)
    BY DEF Pulls, HandingOver
  <1>5. Pulls' \subseteq Req /\ handed' = handed
    BY DEF Pulls
  <1>6. FirstHandoff'
    <2> SUFFICES ASSUME NEW p \in Pulls', NEW k \in handed',
                        HandingOver(p)', answer'[p] # Failed, req'[p].load < k
                 PROVE  \E h \in Req : HandingOver(h)' /\ req'[h].load = k /\ (TwoHandlers \/ h \in Pulls')
      BY DEF FirstHandoff
    <2>1. p \in Req /\ HandingOver(p) /\ p \in Pulls /\ answer[p] # Failed /\ req[p].load < k /\ k \in handed
      BY <1>4, <1>5
    <2>2. PICK h \in Req : HandingOver(h) /\ req[h].load = k /\ (TwoHandlers \/ h \in Pulls)
      BY <2>1 DEF HandoffInv, FirstHandoff
    <2> QED BY <1>4, <2>2
  <1> QED BY <1>1, <1>2, <1>3, <1>6 DEF HandoffInv

LEMMA HandoffsAnswered ==
  ASSUME Sound, HandoffInv, BinaryAnswers
  PROVE  HandoffInv'
  <1> USE DEF Event
  <1>1. PICK q, x : Takes(q, x)
    BY Serving DEF BinaryAnswers, Sound
  <1>2. UNCHANGED <<req, handed, alive>> /\ alive
    BY <1>1 DEF BinaryAnswers, Takes
  <1>3. \A r \in Req : ~Answered(r)
    BY NothingSettled DEF BinaryAnswers
  <1>4. q \in Req /\ \A r \in Req : answer'[r] = IF r = q THEN x ELSE answer[r]
    BY <1>1 DEF Takes, Sound, TypeOK, ClientTypeOK
  <1>5. HandingOver(q) => x = Done
    <2>1. req[q].stage = "lint" <=> pipe[1].method = "lint"
      <3>1. 1 \in DOMAIN pipe /\ pipe[1].req = q
        BY <1>1 DEF Takes
      <3> QED BY <3>1 DEF Sound, PipeInv
    <2> QED BY <1>1, <2>1 DEF Takes, HandingOver
  <1>6. SentHanded'
    BY <1>2 DEF HandoffInv, SentHanded, Sent
  <1>7. HandoffAlive'
    BY <1>2, <1>4, <1>5, ClientAssumption DEF HandoffInv, HandoffAlive, HandingOver
  <1>8. HandoffsInOrder'
    <2> SUFFICES ASSUME NEW p \in Req, NEW h \in Req, HandingOver(p), HandingOver(h),
                        req[p].load < req[h].load
                 PROVE  answer'[h] = Waiting /\ InOrder(p, h)'
      BY <1>2 DEF HandoffsInOrder, HandingOver
    <2>1. answer[p] = Waiting
      BY <1>3 DEF Answered, Sent, HandingOver
    <2>2. answer[h] = Waiting /\ InOrder(p, h)
      BY <2>1, ClientAssumption DEF HandoffInv, HandoffsInOrder
    <2>3. p \in InFlight
      BY <2>1 DEF Sound, TypeOK
    <2>4. h # q
      BY <1>1, <2>2, <2>3, FirstIsFirst
    <2> QED BY <1>1, <1>4, <2>2, <2>4, OrderServed
  <1>9. FirstHandoff'
    <2>1. \A p \in Req : HandingOver(p) => answer[p] # Failed
      BY <1>3, ClientAssumption DEF Answered, Sent, HandingOver
    <2>2. Pulls' = Pulls /\ handed' = handed /\ Pulls \subseteq Req
      BY <1>2 DEF Pulls
    <2>3. \A p \in Req : HandingOver(p)' <=> HandingOver(p)
      BY <1>2 DEF HandingOver
    <2> QED BY <1>2, <2>1, <2>2, <2>3 DEF HandoffInv, FirstHandoff
  <1> QED BY <1>6, <1>7, <1>8, <1>9 DEF HandoffInv

LEMMA HandoffsExit ==
  ASSUME Sound, HandoffInv, BinaryExits
  PROVE  HandoffInv'
  <1> USE DEF Event
  <1>1. UNCHANGED <<req, handed, loads, engine>> /\ alive' = FALSE
    BY DEF BinaryExits, Exits
  <1>2. \A r \in Req : ~Answered(r)
    BY NothingSettled DEF BinaryExits
  <1>3. \A r \in Req : answer'[r] = IF answer[r] = Waiting THEN Failed ELSE answer[r]
    BY <1>1, Exiting DEF BinaryExits, Sound
  <1>4. \A r \in Req : HandingOver(r)' => answer'[r] = Failed
    BY <1>1, <1>2, <1>3 DEF HandingOver, Answered, Sent
  <1>5. SentHanded'
    BY <1>1 DEF HandoffInv, SentHanded, Sent
  <1>6. Pulls' \subseteq Req
    BY DEF Pulls
  <1> QED BY <1>1, <1>4, <1>5, <1>6 DEF HandoffInv, HandoffAlive, HandoffsInOrder, FirstHandoff

LEMMA HandoffsBegin ==
  ASSUME Sound, HandoffInv, NEW r \in Req, HandOff(r), TwoHandlers \/ FixAllWaits
  PROVE  HandoffInv'
  <1>1. Hands(r) /\ Loaded(r) /\ Awaits(r)
    BY HandingOff DEF HandOff, Loaded, Awaits, Sound
  <1>2. /\ \A s \in Req \ {r} : req'[s] = req[s] /\ answer'[s] = answer[s]
        /\ req'[r].kind = req[r].kind /\ req'[r].load = req[r].load
        /\ req'[r].stage = IF req[r].load \in handed THEN "lint" ELSE "handoff"
        /\ handed' = handed \cup {req[r].load}
        /\ answer'[r] = Waiting /\ alive'
    BY <1>1 DEF Hands, Goes, Posts, Sound, TypeOK, ClientTypeOK, StageOf
  <1>3. PICK method \in {"lint", "configChanged"} : pipe' = Append(pipe, MessageOf(r, method))
    BY <1>1 DEF Hands, Posts
  <1>4. \A s \in Req : ~Answered(s)
    BY <1>1 DEF Sound, TurnInv
  <1>5. \A s \in Req : HandingOver(s) => s # r /\ answer[s] = Waiting
    BY <1>1, <1>4 DEF Awaits, HandingOver, Answered, Sent
  <1>6. r \notin InFlight
    <2>1. answer[r] # Waiting
      BY <1>1 DEF Awaits, Sent, Sound, PipeInv
    <2> QED BY <2>1 DEF Sound, TypeOK
  <1>7. \A i \in handed : i <= req[r].load
    BY <1>1 DEF Sound, LoadInv, SettledInv
  <1>8. /\ handed \subseteq Nat
        /\ \A s \in Req : Sent(s) \/ Awaits(s) => req[s].load \in Nat
    <2>1. handed \subseteq 1..Len(loads) /\ \A s \in Req : req[s].stage # "idle" => req[s].load \in 1..Len(loads)
      BY LoadsTyped DEF Sound
    <2> QED BY <2>1 DEF Sent, Awaits
  <1>9. SentHanded'
    BY <1>2 DEF HandoffInv, SentHanded, Sent
  <1>10. \A s \in Req : HandingOver(s)' => answer'[s] = Waiting
    BY <1>2, <1>5 DEF HandingOver
  <1>11. HandoffAlive'
    BY <1>2, <1>10, ClientAssumption DEF HandoffAlive
  <1>12. HandoffsInOrder'
    <2> SUFFICES ASSUME NEW p \in Req, NEW h \in Req, HandingOver(p)', HandingOver(h)',
                        req'[p].load < req'[h].load
                 PROVE  InOrder(p, h)'
      BY <1>10 DEF HandoffsInOrder
    <2>1. req'[p].load = req[p].load /\ req'[h].load = req[h].load
      BY <1>2
    <2>2. p # r
      <3>1. SUFFICES ASSUME p = r PROVE FALSE
        OBVIOUS
      <3>2. h # r
        BY <1>1, <1>8, <2>1, <3>1
      <3>3. HandingOver(h)
        BY <1>2, <3>2 DEF HandingOver
      <3>4. req[h].load \in handed /\ Sent(h)
        BY <3>3 DEF HandoffInv, SentHanded, Sent, HandingOver
      <3> QED BY <1>1, <1>7, <1>8, <2>1, <3>1, <3>4
    <2>3. InOrder(p, h)
      <3>1. CASE h = r
        BY <1>6, <3>1, NoOrder
      <3>2. CASE h # r
        <4>1. HandingOver(p) /\ HandingOver(h) /\ answer[p] # Failed
          BY <1>2, <1>5, <2>2, <3>2, ClientAssumption DEF HandingOver
        <4> QED BY <2>1, <4>1 DEF HandoffInv, HandoffsInOrder
      <3> QED BY <3>1, <3>2
    <2> QED BY <1>3, <2>2, <2>3, OrderPosted DEF Sound
  <1>13. Pulls' = Pulls /\ Pulls \subseteq Req
    BY <1>1, <1>2 DEF Pulls, Awaits
  <1>14. FirstHandoff'
    <2> SUFFICES ASSUME NEW p \in Pulls, NEW k \in handed', HandingOver(p)', req'[p].load < k
                 PROVE  \E h \in Req : HandingOver(h)' /\ req'[h].load = k /\ (TwoHandlers \/ h \in Pulls)
      BY <1>13 DEF FirstHandoff
    <2>1. p \in Req /\ req'[p].load = req[p].load
      BY <1>2, <1>13
    <2>2. p # r
      <3>1. SUFFICES ASSUME p = r PROVE FALSE
        OBVIOUS
      <3>2. k \in handed
        BY <1>1, <1>2, <1>8, <2>1, <3>1
      <3> QED BY <1>1, <1>7, <1>8, <2>1, <3>1, <3>2
    <2>3. HandingOver(p) /\ answer[p] # Failed
      BY <1>2, <1>5, <2>1, <2>2, ClientAssumption DEF HandingOver
    <2>4. CASE k \in handed
      <3>1. PICK h \in Req : HandingOver(h) /\ req[h].load = k /\ (TwoHandlers \/ h \in Pulls)
        BY <2>1, <2>3, <2>4 DEF HandoffInv, FirstHandoff
      <3>2. h # r
        BY <1>5, <3>1
      <3> QED BY <1>2, <3>1, <3>2 DEF HandingOver
    <2>5. CASE k \notin handed
      <3>1. k = req[r].load /\ HandingOver(r)' /\ req'[r].load = k
        BY <1>2, <2>5 DEF HandingOver
      <3>2. TwoHandlers \/ r \in Pulls
        <4>1. req[r].kind = "fixAll" => TwoHandlers
          BY <1>1, <2>3, <3>1 DEF FixAllWaits
        <4>2. req[r].kind \in {"pull", "fixAll"}
          BY HandlerTyped DEF Sound
        <4> QED BY <1>1, <4>1, <4>2 DEF Pulls, Awaits
      <3> QED BY <3>1, <3>2
    <2> QED BY <2>4, <2>5
  <1> QED BY <1>9, <1>11, <1>12, <1>14 DEF HandoffInv

LEMMA HandoffsEnd ==
  ASSUME Sound, HandoffInv, NEW r \in Req, SendLint(r) \/ LintAgain(r)
  PROVE  HandoffInv'
  <1>1. UNCHANGED <<alive, handed>>
    BY DEF SendLint, LintAgain
  <1>2. PICK text, pass : Relints(r, text, pass)
    BY Relinting DEF Sound
  <1>3. /\ \A s \in Req \ {r} : req'[s] = req[s] /\ answer'[s] = answer[s]
        /\ req'[r].kind = req[r].kind /\ req'[r].stage = "lint" /\ req'[r].load = req[r].load
        /\ UNCHANGED pipe \/ pipe' = Append(pipe, MessageOf(r, "lint"))
    BY <1>2 DEF Relints, Goes, Posts, Sound, TypeOK, ClientTypeOK
  <1>4. req[r].stage \in {"handoff", "lint"} /\ answer[r] # Waiting
    BY ClientAssumption DEF SendLint, LintAgain
  <1>5. \A p, h \in Req : p # r /\ InOrder(p, h) => InOrder(p, h)'
    <2>1. CASE UNCHANGED pipe
      BY <2>1 DEF InOrder
    <2>2. CASE pipe' = Append(pipe, MessageOf(r, "lint"))
      BY <2>2, OrderPosted DEF Sound
    <2> QED BY <1>3, <2>1, <2>2
  <1>6. \A s \in Req : /\ Sent(s)' <=> Sent(s)
                       /\ req'[s].load = req[s].load
                       /\ HandingOver(s)' <=> HandingOver(s) /\ s # r
                       /\ HandingOver(s)' => req'[s] = req[s] /\ answer'[s] = answer[s]
    BY <1>3, <1>4 DEF Sent, HandingOver
  <1>7. SentHanded' /\ HandoffAlive'
    BY <1>1, <1>6 DEF HandoffInv, SentHanded, HandoffAlive
  <1>8. HandoffsInOrder'
    BY <1>5, <1>6 DEF HandoffInv, HandoffsInOrder
  <1>9. Pulls' = Pulls /\ Pulls \subseteq Req
    BY <1>3, <1>4 DEF Pulls
  <1>10. FirstHandoff'
    <2> SUFFICES ASSUME NEW p \in Pulls, NEW k \in handed,
                        HandingOver(p)', answer'[p] # Failed, req'[p].load < k
                 PROVE  \E h \in Req : HandingOver(h)' /\ req'[h].load = k /\ (TwoHandlers \/ h \in Pulls)
      BY <1>1, <1>9 DEF FirstHandoff
    <2>1. p \in Req /\ HandingOver(p) /\ answer[p] # Failed /\ req[p].load < k
      BY <1>6, <1>9
    <2>2. PICK h \in Req : HandingOver(h) /\ req[h].load = k /\ (TwoHandlers \/ h \in Pulls)
      BY <2>1 DEF HandoffInv, FirstHandoff
    <2>3. answer[h] = Waiting
      BY <2>1, <2>2 DEF HandoffInv, HandoffsInOrder
    <2> QED BY <1>4, <1>6, <2>2, <2>3
  <1> QED BY <1>7, <1>8, <1>10 DEF HandoffInv

LEMMA HandoffStep ==
  ASSUME Sound, HandoffInv, [Next]_vars, TwoHandlers \/ FixAllWaits
  PROVE  HandoffInv'
  <1> USE DEF clientVars
  <1>1. ASSUME UNCHANGED <<clientVars, handed, req>> PROVE HandoffInv'
    BY <1>1, HandoffsKept DEF HandingOver, Sent, InOrder
  <1>2. ASSUME NEW r \in Req, Pull(r) \/ FixAll(r) PROVE HandoffInv'
    <2>1. /\ UNCHANGED <<clientVars, handed>> /\ req[r].stage = "idle"
          /\ UNCHANGED req \/ \E kind \in {"pull", "fixAll"} : forFile /\ Resolving(r, kind)
      BY <1>2 DEF Pull, FixAll
    <2>2. CASE UNCHANGED req
      BY <1>1, <2>1, <2>2
    <2>3. ASSUME NEW kind \in {"pull", "fixAll"}, forFile, Resolving(r, kind) PROVE HandoffInv'
      <3>1. load' \in 0..MaxLoads
        <4>1. load' \in 1..Len(loads') /\ Len(loads') \in Nat /\ Len(loads') <= MaxLoads
          BY <2>3, ForFile DEF Sound
        <4>2. MaxLoads \in Nat
          BY ServerAssumption
        <4> QED BY ONLY <4>1, <4>2
      <3>2. (\A s \in Req \ {r} : req'[s] = req[s]) /\ req'[r].stage = "config"
        BY <2>3, <3>1, StartedHandler DEF Sound
      <3> QED BY <2>1, <3>2, HandoffsKept DEF HandingOver, Sent, InOrder
    <2> QED BY <2>1, <2>2, <2>3
  <1>3. ASSUME NEW r \in Req, ConfigFailed(r) \/ LintHere(r) \/ Finish(r) PROVE HandoffInv'
    <2>1. UNCHANGED <<clientVars, handed>> /\ End(r) /\ ~HandingOver(r)
      BY <1>3 DEF ConfigFailed, LintHere, Finish, HandingOver
    <2>2. (\A s \in Req \ {r} : req'[s] = req[s]) /\ req'[r].stage = "idle"
      BY <2>1 DEF End, Idle, Sound, TypeOK
    <2> QED BY <2>1, <2>2, HandoffsKept DEF HandingOver, Sent, InOrder
  <1>4. CASE \/ Open \/ Change \/ Close \/ EditConfig \/ Notice \/ ChangeSettings \/ QuickFix
             \/ (\E i \in DOMAIN loads : LoadSettles(i)) \/ UNCHANGED vars
    BY <1>1, <1>4 DEF Open, Change, Close, EditConfig, Notice, ChangeSettings, QuickFix, LoadSettles, vars
  <1> QED BY <1>2, <1>3, <1>4, HandoffsAnswered, HandoffsExit, HandoffsBegin, HandoffsEnd DEF Next, GoesOn

(* RulesInv. *)

LEMMA RightfulKept ==
  ASSUME NEW p \in Pulls, Rightful(p), UNCHANGED load,
         req'[p] = req[p], answer'[p] = answer[p],
         req[p].stage = "lint" =>
           \A q \in Req : Stale(q)' => /\ Stale(q) /\ req'[q].stage = req[q].stage
                                       /\ InOrder(q, p) => InOrder(q, p)'
  PROVE  p \in Pulls' /\ Rightful(p)'
  <1>1. p \in Pulls'
    BY DEF Pulls
  <1>2. ~Doomed(p)' /\ req'[p].load = load'
    BY DEF Rightful, Doomed, Sent
  <1>3. req'[p].stage = "lint" =>
          \A q \in Req : Stale(q)' => req'[q].stage = "lint" /\ answer'[p] = Waiting /\ InOrder(q, p)'
    BY DEF Rightful
  <1> QED BY <1>1, <1>2, <1>3 DEF Rightful

LEMMA SpentRulesKept ==
  ASSUME RulesSpent, UNCHANGED config, Pulls' = Pulls,
         \A s \in Pulls : req'[s] = req[s] /\ answer'[s] = answer[s],
         UNCHANGED states \/ states' = NoState
  PROVE  RulesSpent'
  <1>1. \A s \in Pulls : Doomed(s)'
    BY DEF RulesSpent, Doomed, Sent
  <1> QED BY <1>1 DEF RulesSpent

(* A pull that gave nothing to the binary yet is of the load in the cache, once *)
(* a pull of that load has.                                                 *)
LEMMA WaitsRightfully ==
  ASSUME Sound, Answering, load \in handed, NEW s \in Pulls, ~Sent(s)
  PROVE  Rightful(s)
  <1>1. s \in Req /\ req[s].stage = "config"
    BY HandlerTyped DEF Pulls, Sound, Sent
  <1>2. req[s].load = load
    BY <1>1, AnsweringLoad DEF Sound, Awaits
  <1> QED BY <1>1, <1>2 DEF Rightful, Doomed

(* With no pull of an older load left, the others are of the load in the cache. *)
LEMMA OthersRightful ==
  ASSUME Sound, Answering, load \in handed, \A q \in Req : ~Stale(q),
         NEW s \in Pulls, ~Doomed(s)
  PROVE  Rightful(s)
  <1>1. s \in Req
    BY DEF Pulls
  <1>2. CASE ~Sent(s)
    BY <1>2, WaitsRightfully
  <1>3. CASE Sent(s)
    BY <1>1, <1>3 DEF Stale, Doomed, Rightful
  <1> QED BY <1>2, <1>3

LEMMA AnswerRules ==
  ASSUME Sound, HandoffInv, Answering, RightfulPull \/ RulesSpent, BinaryAnswers
  PROVE  RightfulPull' \/ RulesSpent'
  <1> USE DEF Event
  <1>1. PICK q, x : Takes(q, x)
    BY Serving DEF BinaryAnswers, Sound
  <1>2. UNCHANGED <<load, config, req, states>>
    BY <1>1 DEF BinaryAnswers, Takes, documentVars, configVars
  <1>3. \A r \in Req : ~Answered(r)
    BY NothingSettled DEF BinaryAnswers
  <1>4. Pulls' = Pulls /\ Pulls \subseteq Req
    BY <1>2 DEF Pulls
  <1>5. q \in Req /\ \A r \in Req : answer'[r] = IF r = q THEN x ELSE answer[r]
    BY <1>1 DEF Takes, Sound, TypeOK, ClientTypeOK
  <1>6. \A s \in Req : Stale(s)' => Stale(s) /\ s \in InFlight
    <2>1. ASSUME NEW s \in Req, Stale(s)' PROVE Stale(s) /\ s \in InFlight
      <3>1. s \in Pulls /\ Sent(s) /\ req[s].load # load
        BY <1>2, <1>4, <2>1 DEF Stale, Sent
      <3>2. answer[s] = Waiting
        BY <1>3, <3>1 DEF Answered
      <3>3. s \in InFlight
        BY <3>2 DEF Sound, TypeOK
      <3> QED BY <3>1, <3>2, <3>3, ClientAssumption DEF Stale
    <2> QED BY <2>1
  <1>7. ASSUME NEW p \in Pulls, Rightful(p), p # q PROVE p \in Pulls' /\ Rightful(p)'
    <2>1. req'[p] = req[p] /\ answer'[p] = answer[p] /\ p \in Req
      BY <1>2, <1>4, <1>5, <1>7
    <2>2. \A s \in Req : InOrder(s, p) => InOrder(s, p)'
      BY <1>1, OrderServed
    <2> QED BY <1>2, <1>6, <1>7, <2>1, <2>2, RightfulKept
  <1>8. CASE RightfulPull
    <2>1. PICK p \in Pulls : Rightful(p)
      BY <1>8 DEF RightfulPull
    <2>2. CASE p # q
      <3>1. p \in Pulls' /\ Rightful(p)'
        BY <1>7, <2>1, <2>2
      <3> QED BY <3>1 DEF RightfulPull
    <2>3. CASE p = q /\ req[p].stage # "lint"
      <3>1. x # Failed
        <4>1. 1 \in DOMAIN pipe /\ pipe[1].req = q
          BY <1>1 DEF Takes
        <4>2. pipe[1].method # "lint"
          BY <2>3, <4>1 DEF Sound, PipeInv
        <4> QED BY <1>1, <4>2, ClientAssumption DEF Takes
      <3>2. Rightful(p)'
        BY <1>2, <1>4, <1>5, <2>1, <2>3, <3>1 DEF Rightful, Doomed
      <3> QED BY <1>4, <3>2 DEF RightfulPull
    <2>4. CASE p = q /\ req[p].stage = "lint"
      <3>1. \A s \in Req : Stale(s) => InOrder(s, p)
        BY <2>1, <2>4 DEF Rightful
      <3>2. \A s \in Req : ~Stale(s)
        <4>1. ASSUME NEW s \in Req, Stale(s) PROVE FALSE
          <5>1. answer[s] = Waiting
            BY <1>3, <4>1 DEF Stale, Answered
          <5>2. s \in InFlight
            BY <5>1 DEF Sound, TypeOK
          <5> QED BY <1>1, <2>4, <3>1, <4>1, <5>2, FirstIsFirst
        <4> QED BY <4>1
      <3>3. CASE x # Failed
        <4>1. Rightful(p)'
          BY <1>2, <1>4, <1>5, <1>6, <2>1, <2>4, <3>2, <3>3 DEF Rightful, Doomed
        <4> QED BY <1>4, <4>1 DEF RightfulPull
      <3>4. CASE x = Failed
        <4>1. load \in handed
          BY <1>4, <2>1, <2>4 DEF HandoffInv, SentHanded, Sent, Rightful
        <4>2. Doomed(p)'
          BY <1>2, <1>4, <1>5, <2>4, <3>4 DEF Doomed, Sent
        <4>3. \A s \in Pulls : s # p => Rightful(s)
          <5>1. \A s \in Pulls : ~Doomed(s)
            BY <1>3, <1>4, ClientAssumption DEF Doomed, Answered
          <5> QED BY <3>2, <4>1, <5>1, OthersRightful
        <4>4. CASE \E s \in Pulls : s # p
          BY <1>7, <2>4, <4>3, <4>4 DEF RightfulPull
        <4>5. CASE \A s \in Pulls : s = p
          BY <1>4, <2>1, <4>2, <4>5 DEF RulesSpent
        <4> QED BY <4>4, <4>5
      <3> QED BY <3>3, <3>4
    <2> QED BY <2>2, <2>3, <2>4
  <1>9. CASE RulesSpent
    <2>1. Pulls = {}
      BY <1>3, <1>4, <1>9, ClientAssumption DEF RulesSpent, Doomed, Answered
    <2> QED BY <1>2, <1>4, <1>9, <2>1 DEF RulesSpent
  <1> QED BY <1>8, <1>9

LEMMA ExitRules ==
  ASSUME Sound, HandoffInv, Answering, RightfulPull \/ RulesSpent, BinaryExits
  PROVE  RightfulPull' \/ RulesSpent'
  <1> USE DEF Event
  <1>1. UNCHANGED <<load, config, req, states, handed, loads, engine>>
    BY DEF BinaryExits, documentVars, configVars
  <1>2. \A r \in Req : ~Answered(r)
    BY NothingSettled DEF BinaryExits
  <1>3. Pulls' = Pulls /\ Pulls \subseteq Req
    BY <1>1 DEF Pulls
  <1>4. \A r \in Req : answer'[r] = IF answer[r] = Waiting THEN Failed ELSE answer[r]
    BY <1>1, Exiting DEF BinaryExits, Sound
  <1>5. \A s \in Pulls : Sent(s) => Doomed(s)'
    BY <1>1, <1>2, <1>3, <1>4 DEF Doomed, Answered, Sent
  <1>6. \A s \in Pulls : ~Sent(s) /\ Rightful(s) => Rightful(s)'
    BY <1>1, <1>3 DEF Rightful, Doomed, Sent
  <1>7. CASE RightfulPull
    <2>1. PICK p \in Pulls : Rightful(p)
      BY <1>7 DEF RightfulPull
    <2>2. CASE ~Sent(p)
      BY <1>3, <1>6, <2>1, <2>2 DEF RightfulPull
    <2>3. CASE Sent(p)
      <3>1. load \in handed
        BY <1>3, <2>1, <2>3 DEF HandoffInv, SentHanded, Rightful
      <3>2. \A s \in Pulls : ~Sent(s) => Rightful(s)'
        BY <1>6, <3>1, WaitsRightfully
      <3> QED BY <1>3, <1>5, <2>1, <3>2 DEF RightfulPull, RulesSpent
    <2> QED BY <2>2, <2>3
  <1>8. CASE RulesSpent
    <2>1. Pulls = {}
      BY <1>2, <1>3, <1>8, ClientAssumption DEF RulesSpent, Doomed, Answered
    <2> QED BY <1>1, <1>3, <1>8, <2>1 DEF RulesSpent
  <1> QED BY <1>7, <1>8

(* A pull that lints at once joins the pipe behind the pulls of older loads;    *)
(* one of them that is still to be sent has a handoff of this load behind it.  *)
LEMMA HandOffRules ==
  ASSUME Sound, HandoffInv, Answering, RightfulPull \/ RulesSpent, NEW r \in Req, HandOff(r),
         TwoHandlers \/ FixAllWaits
  PROVE  RightfulPull' \/ RulesSpent'
  <1>1. /\ Hands(r) /\ Loaded(r) /\ Awaits(r) /\ UNCHANGED <<load, config, states>>
    BY HandingOff DEF HandOff, Loaded, Awaits, Sound, configVars
  <1>2. /\ \A s \in Req \ {r} : req'[s] = req[s] /\ answer'[s] = answer[s]
        /\ req'[r].kind = req[r].kind /\ req'[r].load = req[r].load
        /\ req'[r].stage = IF req[r].load \in handed THEN "lint" ELSE "handoff"
        /\ answer'[r] = Waiting
    BY <1>1 DEF Hands, Goes, Posts, Sound, TypeOK, ClientTypeOK, StageOf
  <1>3. PICK method \in {"lint", "configChanged"} : pipe' = Append(pipe, MessageOf(r, method))
    BY <1>1 DEF Hands, Posts
  <1>4. \A s \in Req : ~Answered(s)
    BY <1>1 DEF Sound, TurnInv
  <1>5. Pulls' = Pulls /\ Pulls \subseteq Req
    BY <1>1, <1>2 DEF Pulls, Awaits
  <1>6. r \notin InFlight
    <2>1. answer[r] # Waiting
      BY <1>1 DEF Awaits, Sent, Sound, PipeInv
    <2> QED BY <2>1 DEF Sound, TypeOK
  <1>7. \A s, p \in Req : s # r /\ InOrder(s, p) => InOrder(s, p)'
    BY <1>3, OrderPosted DEF Sound
  <1>8. \A s \in Req : s # r /\ Stale(s)' => Stale(s) /\ req'[s].stage = req[s].stage
    BY <1>1, <1>2, <1>5 DEF Stale, Sent
  <1>9. CASE RightfulPull
    <2>1. PICK p \in Pulls : Rightful(p)
      BY <1>9 DEF RightfulPull
    <2>2. CASE p # r
      <3>1. req[p].stage = "lint" => ~Stale(r)'
        <4>1. ASSUME req[p].stage = "lint" PROVE req[r].load = load
          <5>1. load \in handed
            BY <1>5, <2>1, <4>1 DEF HandoffInv, SentHanded, Sent, Rightful
          <5> QED BY <1>1, <5>1, AnsweringLoad DEF Sound
        <4> QED BY <1>1, <1>2, <4>1 DEF Stale
      <3>2. p \in Req /\ req'[p] = req[p] /\ answer'[p] = answer[p]
        BY <1>2, <1>5, <2>2
      <3>3. p \in Pulls' /\ Rightful(p)'
        BY <1>1, <1>7, <1>8, <2>1, <3>1, <3>2, RightfulKept
      <3> QED BY <3>3 DEF RightfulPull
    <2>3. CASE p = r /\ load \notin handed
      <3>1. req[r].load = load
        BY <2>1, <2>3 DEF Rightful
      <3>2. Rightful(r)'
        BY <1>1, <1>2, <2>3, <3>1, ClientAssumption DEF Rightful, Doomed
      <3> QED BY <1>5, <2>1, <2>3, <3>2 DEF RightfulPull
    <2>4. CASE p = r /\ load \in handed
      <3>1. req[r].load = load /\ req'[r].stage = "lint" /\ r \in Pulls
        BY <1>2, <2>1, <2>4 DEF Rightful
      <3>2. CASE \A s \in Req : Stale(s) => req[s].stage = "lint"
        <4>1. ASSUME NEW s \in Req, Stale(s)'
              PROVE  req'[s].stage = "lint" /\ InOrder(s, r)'
          <5>1. s # r
            BY <1>1, <1>2, <3>1, <4>1 DEF Stale
          <5>2. InOrder(s, r)
            BY <1>6, NoOrder
          <5> QED BY <1>7, <1>8, <3>2, <4>1, <5>1, <5>2
        <4>2. Rightful(r)'
          BY <1>1, <1>2, <3>1, <4>1, ClientAssumption DEF Rightful, Doomed
        <4> QED BY <1>5, <3>1, <4>2 DEF RightfulPull
      <3>3. CASE \E s \in Req : Stale(s) /\ req[s].stage # "lint"
        <4>1. PICK s \in Req : Stale(s) /\ req[s].stage # "lint"
          BY <3>3
        <4>2. HandingOver(s) /\ answer[s] # Failed /\ s \in Pulls /\ req[s].load < load
          <5>1. HandingOver(s) /\ answer[s] # Failed /\ s \in Pulls /\ req[s].load # load
            BY <4>1 DEF Stale, Sent, HandingOver
          <5>2. /\ load \in {0, Len(loads)} /\ load # 0 /\ Len(loads) \in Nat
                /\ req[s].load \in 1..Len(loads)
            BY <4>1, <5>1, AnsweringLoad, LoadsTyped DEF Sound, LoadInv, CacheInv, HandingOver
          <5> QED BY <5>1, <5>2
        <4>3. PICK h \in Req : HandingOver(h) /\ req[h].load = load /\ (TwoHandlers \/ h \in Pulls)
          BY <2>4, <4>2 DEF HandoffInv, FirstHandoff
        <4>4. r # s /\ r # h /\ s # h
          <5>1. req[r].stage = "config"
            BY <1>1 DEF Awaits
          <5>2. req[s].load # req[h].load
            BY <4>1, <4>3 DEF Stale
          <5> QED BY <4>2, <4>3, <5>1, <5>2 DEF HandingOver
        <4>5. h \in Pulls
          BY <4>3, <4>4 DEF TwoHandlers
        <4>6. Rightful(h)
          <5>1. answer[h] = Waiting
            BY <1>4, <4>3 DEF Answered, Sent, HandingOver
          <5> QED BY <4>3, <5>1, ClientAssumption DEF Rightful, Doomed, HandingOver
        <4>7. h \in Pulls' /\ Rightful(h)'
          <5>1. req[h].stage # "lint"
            BY <4>3 DEF HandingOver
          <5> QED BY <1>1, <1>2, <4>4, <4>5, <4>6, <5>1, RightfulKept
        <4> QED BY <4>7 DEF RightfulPull
      <3> QED BY <3>2, <3>3
    <2> QED BY <2>2, <2>3, <2>4
  <1>10. CASE RulesSpent
    <2>1. r \notin Pulls
      BY <1>1, <1>10 DEF RulesSpent, Doomed, Awaits, Sent
    <2> QED BY <1>1, <1>2, <1>5, <1>10, <2>1, SpentRulesKept
  <1> QED BY <1>9, <1>10

LEMMA RelintRules ==
  ASSUME Sound, HandoffInv, Answering, RightfulPull \/ RulesSpent, NEW r \in Req,
         SendLint(r) \/ LintAgain(r)
  PROVE  RightfulPull' \/ RulesSpent'
  <1>1. UNCHANGED <<load, config, states, alive>>
    BY DEF SendLint, LintAgain, configVars
  <1>2. PICK text, pass : Relints(r, text, pass)
    BY Relinting DEF Sound
  <1>3. /\ \A s \in Req \ {r} : req'[s] = req[s] /\ answer'[s] = answer[s]
        /\ req'[r].kind = req[r].kind /\ req'[r].stage = "lint" /\ req'[r].load = req[r].load
        /\ \/ UNCHANGED pipe /\ answer'[r] = Failed /\ ~(alive /\ req[r].client = spawned)
           \/ pipe' = Append(pipe, MessageOf(r, "lint")) /\ answer'[r] = Waiting /\ alive'
    BY <1>2 DEF Relints, Goes, Posts, Sound, TypeOK, ClientTypeOK
  <1>4. req[r].stage \in {"handoff", "lint"} /\ answer[r] # Waiting
    BY ClientAssumption DEF SendLint, LintAgain
  <1>5. Pulls' = Pulls /\ Pulls \subseteq Req
    BY <1>3, <1>4 DEF Pulls
  <1>6. r \notin InFlight
    BY <1>4 DEF Sound, TypeOK
  <1>7. \A s, p \in Req : s # r /\ InOrder(s, p) => InOrder(s, p)'
    <2>1. CASE UNCHANGED pipe
      BY <2>1 DEF InOrder
    <2>2. CASE pipe' = Append(pipe, MessageOf(r, "lint"))
      BY <2>2, OrderPosted DEF Sound
    <2> QED BY <1>3, <2>1, <2>2
  <1>8. \A s \in Req : s # r /\ Stale(s)' => Stale(s) /\ req'[s].stage = req[s].stage
    BY <1>1, <1>3, <1>5 DEF Stale, Sent
  <1>9. SendLint(r) => /\ HandingOver(r)
                       /\ answer'[r] = Failed <=> answer[r] = Failed
    <2>1. SendLint(r) => HandingOver(r) /\ req[r].client = spawned
      BY DEF SendLint, HandingOver, Sound, TurnInv
    <2>2. HandingOver(r) => (answer[r] = Failed <=> ~alive)
      BY DEF HandoffInv, HandoffAlive
    <2>3. alive \in BOOLEAN
      BY DEF Sound, TypeOK, ClientTypeOK
    <2> QED BY <1>1, <1>3, <2>1, <2>2, <2>3, ClientAssumption
  <1>10. r \in Pulls => SendLint(r)
    BY DEF LintAgain, Pulls
  <1>11. CASE RightfulPull
    <2>1. PICK p \in Pulls : Rightful(p)
      BY <1>11 DEF RightfulPull
    <2>2. CASE p # r
      <3>1. req[p].stage = "lint" => ~Stale(r)'
        <4>1. SUFFICES ASSUME req[p].stage = "lint", Stale(r)' PROVE FALSE
          OBVIOUS
        <4>2. r \in Pulls /\ answer'[r] # Failed /\ req[r].load # load
          BY <1>1, <1>3, <1>5, <4>1 DEF Stale
        <4>3. HandingOver(r) /\ answer[r] # Failed
          BY <1>9, <1>10, <4>2
        <4>4. Stale(r)
          BY <4>2, <4>3 DEF Stale, Sent, HandingOver
        <4> QED BY <2>1, <4>1, <4>3, <4>4 DEF Rightful, HandingOver
      <3>2. p \in Req /\ req'[p] = req[p] /\ answer'[p] = answer[p]
        BY <1>3, <1>5, <2>2
      <3>3. p \in Pulls' /\ Rightful(p)'
        BY <1>1, <1>7, <1>8, <2>1, <3>1, <3>2, RightfulKept
      <3> QED BY <3>3 DEF RightfulPull
    <2>3. CASE p = r
      <3>1. /\ HandingOver(r) /\ answer[r] # Failed /\ answer'[r] # Failed /\ req[r].load = load
        BY <1>9, <1>10, <2>1, <2>3 DEF Rightful, Doomed, Sent, HandingOver
      <3>2. answer'[r] = Waiting
        BY <1>3, <3>1
      <3>3. ASSUME NEW s \in Req, Stale(s)'
            PROVE  req'[s].stage = "lint" /\ InOrder(s, r)'
        <4>1. s # r
          BY <1>1, <1>3, <3>1, <3>3 DEF Stale
        <4>2. Stale(s) /\ req'[s].stage = req[s].stage
          BY <1>8, <3>3, <4>1
        <4>3. InOrder(s, r)'
          <5>1. InOrder(s, r)
            BY <1>6, NoOrder
          <5> QED BY <1>7, <4>1, <5>1
        <4>4. req[s].load < load
          <5>1. /\ load \in {0, Len(loads)} /\ load # 0 /\ Len(loads) \in Nat
                /\ req[s].load \in 1..Len(loads) /\ req[s].load # load
            BY <4>2, AnsweringLoad, LoadsTyped DEF Sound, LoadInv, CacheInv, Stale, Pulls
          <5> QED BY <5>1
        <4>5. ~HandingOver(s)
          BY <1>4, <3>1, <4>2, <4>4 DEF HandoffInv, HandoffsInOrder, Stale
        <4>6. req[s].stage = "lint"
          BY <4>2, <4>5 DEF Stale, Sent, HandingOver
        <4> QED BY <4>2, <4>3, <4>6
      <3>4. Rightful(r)'
        BY <1>1, <1>3, <3>1, <3>2, <3>3 DEF Rightful, Doomed
      <3> QED BY <1>5, <2>1, <2>3, <3>4 DEF RightfulPull
    <2> QED BY <2>2, <2>3
  <1>12. CASE RulesSpent
    <2>1. \A s \in Pulls : Doomed(s)'
      <3>1. \A s \in Pulls : s # r => Doomed(s)'
        BY <1>3, <1>5, <1>12 DEF RulesSpent, Doomed, Sent
      <3>2. r \in Pulls => Doomed(r)'
        BY <1>3, <1>9, <1>10, <1>12 DEF RulesSpent, Doomed, Sent
      <3> QED BY <3>1, <3>2
    <2> QED BY <1>1, <1>5, <1>12, <2>1 DEF RulesSpent
  <1> QED BY <1>11, <1>12

LEMMA DoneRules ==
  ASSUME Sound, HandoffInv, Answering, RightfulPull \/ RulesSpent, NEW r \in Req,
         ConfigFailed(r) \/ LintHere(r) \/ Finish(r)
  PROVE  RightfulPull' \/ RulesSpent'
  <1>1. UNCHANGED <<load, config, pipe, answer>> /\ End(r)
    BY DEF ConfigFailed, LintHere, Finish, configVars, clientVars
  <1>2. (\A s \in Req \ {r} : req'[s] = req[s]) /\ req'[r].stage = "idle"
    BY <1>1 DEF End, Idle, Sound, TypeOK
  <1>3. Pulls \subseteq Req /\ Pulls' = Pulls \ {r}
    BY <1>2 DEF Pulls
  <1>4. \A s \in Req : Stale(s)' => Stale(s) /\ req'[s].stage = req[s].stage
    BY <1>1, <1>2, <1>3 DEF Stale, Sent
  <1>5. ASSUME NEW p \in Pulls, Rightful(p), p # r PROVE RightfulPull'
    <2>1. req'[p] = req[p] /\ answer'[p] = answer[p]
      BY <1>1, <1>2, <1>3, <1>5
    <2>2. \A s \in Req : InOrder(s, p) => InOrder(s, p)'
      BY <1>1 DEF InOrder
    <2>3. p \in Pulls' /\ Rightful(p)'
      BY <1>1, <1>4, <1>5, <2>1, <2>2, RightfulKept
    <2> QED BY <2>3 DEF RightfulPull
  <1>6. ASSUME states' = NoState \/ states'.rules = config, \A s \in Pulls : s # r => Doomed(s) \/ Rightful(s)
        PROVE  RightfulPull' \/ RulesSpent'
    <2>1. CASE \E s \in Pulls : s # r /\ Rightful(s)
      BY <1>5, <2>1
    <2>2. CASE \A s \in Pulls : s # r => Doomed(s)
      <3>1. \A s \in Pulls' : Doomed(s)'
        BY <1>1, <1>2, <1>3, <2>2 DEF Doomed, Sent
      <3> QED BY <1>1, <1>6, <3>1 DEF RulesSpent
    <2> QED BY <1>6, <2>1, <2>2
  <1>7. CASE RightfulPull
    <2>1. PICK p \in Pulls : Rightful(p)
      BY <1>7 DEF RightfulPull
    <2>2. CASE p # r
      BY <1>5, <2>1, <2>2
    <2>3. CASE p = r /\ ConfigFailed(r)
      <3>1. req[r].load = load
        BY <2>1, <2>3 DEF Rightful
      <3> QED BY <2>3, <3>1, AnsweringLoad DEF ConfigFailed, Used, Answering, Sound
    <2>4. CASE p = r /\ LintHere(r)
      <3>1. req[r].load = load /\ Loaded(r) /\ engine = "wasm"
        BY <2>1, <2>4 DEF Rightful, LintHere, Loaded
      <3>2. Used(r) = config
        BY <3>1, AnsweringLoad DEF Used, Sound
      <3>3. states'.rules = config
        BY <2>1, <2>4, <3>2 DEF LintHere, Report, Pulls, toState
      <3>4. ASSUME NEW s \in Pulls PROVE Rightful(s)
        <4>1. s \in Req /\ ~Sent(s)
          BY <1>3, <3>1 DEF Sound, PipeInv
        <4>2. Awaits(s)
          BY <4>1, HandlerTyped DEF Sound, Sent, Awaits, Pulls
        <4>3. req[s].load = load
          BY <3>1, <4>1, <4>2, AnsweringLoad DEF Sound
        <4> QED BY <4>1, <4>2, <4>3 DEF Rightful, Doomed, Awaits
      <3> QED BY <1>6, <3>3, <3>4
    <2>5. CASE p = r /\ Finish(r)
      <3>1. /\ req[r].stage = "lint" /\ req[r].kind = "pull" /\ answer[r] \notin {Waiting, Failed}
            /\ req[r].load = load
        BY <2>1, <2>5 DEF Finish, Rightful, Doomed, Sent, Pulls
      <3>2. \A s \in Req : ~Stale(s)
        BY <2>1, <2>5, <3>1 DEF Rightful
      <3>3. load \in handed
        BY <3>1 DEF HandoffInv, SentHanded, Sent
      <3>4. Used(r) = config
        BY <3>1, AnsweringLoad DEF Used, Sound
      <3>5. states'.rules = config
        BY <2>5, <3>1, <3>4 DEF Finish, Report, toState
      <3>6. \A s \in Pulls : Doomed(s) \/ Rightful(s)
        BY <3>2, <3>3, OthersRightful
      <3> QED BY <1>6, <3>5, <3>6
    <2> QED BY <2>2, <2>3, <2>4, <2>5
  <1>8. CASE RulesSpent
    <2>1. CASE r \in Pulls
      <3>1. Doomed(r) /\ \A s \in Pulls : Doomed(s)
        BY <1>8, <2>1 DEF RulesSpent
      <3>2. states' = NoState
        BY <2>1, <3>1 DEF Doomed, Sent, ConfigFailed, LintHere, Finish, NoReport, Pulls
      <3> QED BY <1>6, <3>1, <3>2
    <2>2. CASE r \notin Pulls
      <3>1. UNCHANGED states
        BY <2>2 DEF ConfigFailed, LintHere, Finish, NoReport, Report, Pulls, Sound, TypeOK, Handler
      <3>2. Pulls' = Pulls /\ \A s \in Pulls : req'[s] = req[s] /\ answer'[s] = answer[s]
        BY <1>1, <1>2, <1>3, <2>2
      <3> QED BY <1>1, <1>8, <3>1, <3>2, SpentRulesKept
    <2> QED BY <2>1, <2>2
  <1> QED BY <1>7, <1>8

LEMMA ElseRules ==
  ASSUME RightfulPull \/ RulesSpent, UNCHANGED <<load, config, pipe, answer, states>>,
         \A s \in Pulls : req'[s] = req[s], Pulls' = Pulls
  PROVE  RightfulPull' \/ RulesSpent'
  <1>1. CASE RightfulPull
    <2>1. PICK p \in Pulls : Rightful(p)
      BY <1>1 DEF RightfulPull
    <2>2. \A q \in Req : Stale(q)' => Stale(q) /\ req'[q].stage = req[q].stage
      BY DEF Stale, Sent
    <2>3. \A q \in Req : InOrder(q, p) => InOrder(q, p)'
      BY DEF InOrder
    <2>4. p \in Pulls' /\ Rightful(p)'
      BY <2>1, <2>2, <2>3, RightfulKept
    <2> QED BY <2>4 DEF RightfulPull
  <1>2. CASE RulesSpent
    BY <1>2, SpentRulesKept
  <1> QED BY <1>1, <1>2

LEMMA StartRules ==
  ASSUME Sound, RulesInv, NEW r \in Req, Pull(r) \/ FixAll(r), Answering'
  PROVE  RightfulPull' \/ RulesSpent'
  <1>1. CASE Pull(r) /\ ~enabled
    BY <1>1 DEF Pull, Answering
  <1>2. ASSUME NEW kind \in {"pull", "fixAll"}, forFile, Resolving(r, kind)
        PROVE  /\ \A s \in Req \ {r} : req'[s] = req[s]
               /\ req'[r].kind = kind /\ req'[r].stage = "config" /\ req'[r].load = load'
    <2>1. load' \in 0..MaxLoads
      <3>1. load' \in 1..Len(loads') /\ Len(loads') \in Nat /\ Len(loads') <= MaxLoads
        BY <1>2, ForFile DEF Sound
      <3>2. MaxLoads \in Nat
        BY ServerAssumption
      <3> QED BY ONLY <3>1, <3>2
    <2> QED BY <1>2, <2>1, StartedHandler DEF Sound
  <1>3. CASE Pull(r) /\ enabled
    <2>1. req'[r].kind = "pull" /\ req'[r].stage = "config" /\ req'[r].load = load'
      BY <1>2, <1>3 DEF Pull
    <2>2. r \in Pulls' /\ Rightful(r)'
      BY <2>1 DEF Pulls, Rightful, Doomed, Sent
    <2> QED BY <2>2 DEF RightfulPull
  <1>4. CASE FixAll(r)
    <2>1. /\ forFile /\ Resolving(r, "fixAll") /\ req[r].stage = "idle"
          /\ UNCHANGED <<clientVars, documentVars, enabled, configVars, states, due>>
      BY <1>4 DEF FixAll
    <2>2. Answering
      BY <2>1 DEF Answering, documentVars, configVars
    <2>3. load' = load
      BY <2>1, <2>2, AnsweringLoad DEF forFile, Sound
    <2>4. (\A s \in Req \ {r} : req'[s] = req[s]) /\ req'[r].kind = "fixAll"
      BY <1>2, <2>1
    <2>5. Pulls' = Pulls /\ \A s \in Pulls : req'[s] = req[s]
      BY <2>1, <2>4 DEF Pulls
    <2> QED BY <2>1, <2>2, <2>3, <2>5, ElseRules DEF clientVars, configVars, RulesInv
  <1> QED BY <1>1, <1>3, <1>4

LEMMA RulesStep ==
  ASSUME Sound, HandoffInv, RulesInv, [Next]_vars, TwoHandlers \/ FixAllWaits
  PROVE  RulesInv'
  <1> USE DEF clientVars, documentVars, configVars
  <1>1. ASSUME UNCHANGED <<enabled, noticed, due, isOpen, config>> PROVE Answering' => Answering
    BY <1>1 DEF Answering
  <1>2. SUFFICES ASSUME Answering' PROVE RightfulPull' \/ RulesSpent'
    BY DEF RulesInv
  <1>3. ASSUME BinaryAnswers \/ BinaryExits PROVE RightfulPull' \/ RulesSpent'
    <2>1. Answering
      BY <1>1, <1>2, <1>3 DEF BinaryAnswers, BinaryExits
    <2> QED BY <1>3, <2>1, AnswerRules, ExitRules DEF RulesInv
  <1>4. ASSUME NEW r \in Req, HandOff(r) PROVE RightfulPull' \/ RulesSpent'
    <2>1. Answering
      BY <1>1, <1>2, <1>4 DEF HandOff
    <2> QED BY <1>4, <2>1, HandOffRules DEF RulesInv
  <1>5. ASSUME NEW r \in Req, SendLint(r) \/ LintAgain(r) PROVE RightfulPull' \/ RulesSpent'
    <2>1. Answering
      BY <1>1, <1>2, <1>5 DEF SendLint, LintAgain
    <2> QED BY <1>5, <2>1, RelintRules DEF RulesInv
  <1>6. ASSUME NEW r \in Req, ConfigFailed(r) \/ LintHere(r) \/ Finish(r)
        PROVE  RightfulPull' \/ RulesSpent'
    <2>1. Answering
      BY <1>1, <1>2, <1>6 DEF ConfigFailed, LintHere, Finish
    <2> QED BY <1>6, <2>1, DoneRules DEF RulesInv
  <1>7. ASSUME NEW r \in Req, Pull(r) \/ FixAll(r) PROVE RightfulPull' \/ RulesSpent'
    BY <1>2, <1>7, StartRules
  <1>8. Open \/ Change \/ Close \/ EditConfig \/ Notice \/ ChangeSettings => ~Answering'
    BY DEF Open, Change, Close, EditConfig, Notice, ChangeSettings, Answering
  <1>9. ASSUME QuickFix \/ (\E i \in DOMAIN loads : LoadSettles(i)) \/ UNCHANGED vars
        PROVE  RightfulPull' \/ RulesSpent'
    <2>1. UNCHANGED <<clientVars, documentVars, enabled, configVars, load, states, req, due>>
      BY <1>9 DEF QuickFix, LoadSettles, vars
    <2>2. Answering /\ Pulls' = Pulls
      BY <1>2, <2>1 DEF Answering, Pulls
    <2> QED BY <2>1, <2>2, ElseRules DEF RulesInv
  <1> QED BY <1>2, <1>3, <1>4, <1>5, <1>6, <1>7, <1>8, <1>9 DEF Next, GoesOn

LEMMA RulesInit == Init => HandoffInv /\ RulesInv
  <1> SUFFICES ASSUME Init PROVE HandoffInv /\ RulesInv
    OBVIOUS
  <1>1. ~Answering /\ handed = {} /\ \A r \in Req : req[r].stage = "idle"
    BY DEF Init, Answering, Idle
  <1> QED BY <1>1 DEF HandoffInv, SentHanded, HandoffAlive, HandoffsInOrder, FirstHandoff, RulesInv,
                      Sent, HandingOver

-----------------------------------------------------------------------------
(* The theorems. *)

EditorInv == Sound /\ OfferFitsHere /\ CurrentInv

LEMMA EditorInit == Init => EditorInv
  BY TypedInit, OrderInit, LifeInit, CurrentInit DEF EditorInv, Sound, CurrentInv

LEMMA EditorStep ==
  ASSUME LoadsInOrder, ~CloseMidway, EditorInv, [Next]_vars
  PROVE  EditorInv'
  <1>1. TypeOK' /\ PipeInv'
    BY TypedStep DEF EditorInv, Sound
  <1>2. TurnInv'
    BY <1>1, TurnStep DEF EditorInv, Sound
  <1>3. ForwardInv'
    BY <1>1, ForwardStep DEF EditorInv, Sound
  <1>4. LifeInv' /\ OfferFitsHere'
    BY LifeStep DEF EditorInv, Sound
  <1>5. LoadInv'
    BY LoadStep DEF EditorInv, Sound
  <1>6. CurrentInv'
    BY CurrentStep DEF EditorInv
  <1> QED BY <1>1, <1>2, <1>3, <1>4, <1>5, <1>6 DEF EditorInv, Sound, CurrentInv

LEMMA LintOfNow == EditorInv => LintIsCurrent
  <1> SUFFICES ASSUME CurrentInv, Quiet, states # NoState PROVE LintIsCurrent
    BY DEF LintIsCurrent, EditorInv
  <1>1. Answering /\ Pulls = {}
    BY DEF Quiet, Pulls
  <1>2. Current
    BY <1>1 DEF CurrentInv, Timely, Spent
  <1> QED BY <1>2 DEF Current, LintIsCurrent

LEMMA ReportOfNow == EditorInv /\ RulesInv => ReportIsCurrent
  <1> SUFFICES ASSUME EditorInv, RulesInv PROVE RulesAreCurrent
    BY LintOfNow DEF ReportIsCurrent
  <1> SUFFICES ASSUME Quiet, states # NoState PROVE states.rules = config
    BY DEF RulesAreCurrent
  <1>1. Answering /\ Pulls = {}
    BY DEF Quiet, Pulls
  <1> QED BY <1>1 DEF RulesInv, RightfulPull, RulesSpent

(* docs/vscode-extension.md, "The server": a change of the configuration drops *)
(* the cache and has every open document pulled again.  When the client has    *)
(* pulled and every handler is done, the report kept is one of the text and   *)
(* the configuration of now, however the answers of older pulls came in and  *)
(* whatever became of the binary; that the loads settle in order is needed, and *)
(* so is that no document closes under a handler.                           *)
THEOREM LintsAreCurrent ==
  ASSUME LoadsInOrder, ~CloseMidway
  PROVE  Spec => []LintIsCurrent
  <1>1. EditorInv /\ [Next]_vars => EditorInv'
    BY EditorStep
  <1> QED BY <1>1, EditorInit, LintOfNow, PTL DEF Spec

(* With two handlers at a time, the plugins' rules of that report are those of  *)
(* the configuration of now as well.                                        *)
THEOREM ReportsOfTwoAreCurrent ==
  ASSUME LoadsInOrder, ~CloseMidway, TwoHandlers
  PROVE  Spec => []ReportIsCurrent
  <1> DEFINE I == EditorInv /\ HandoffInv /\ RulesInv
  <1>1. Init => I
    BY EditorInit, RulesInit
  <1>2. I /\ [Next]_vars => I'
    BY EditorStep, HandoffStep, RulesStep DEF EditorInv
  <1>3. I => ReportIsCurrent
    BY ReportOfNow
  <1> QED BY <1>1, <1>2, <1>3, PTL DEF Spec

(* With any number of handlers that is so as long as no fix-all hands a new     *)
(* configuration over while a pull's own handoff is under way: a later pull    *)
(* finds it handed over, lints at once, and the older one, still to send its   *)
(* lint, has the last word (server/server.ts, resolveRun; a behaviour of three *)
(* handlers shows it, so the condition is needed).                           *)
THEOREM ReportsAreCurrent ==
  ASSUME LoadsInOrder, ~CloseMidway
  PROVE  Spec /\ [][FixAllWaits]_vars => []ReportIsCurrent
  <1> DEFINE I == EditorInv /\ HandoffInv /\ RulesInv
  <1>1. Init => I
    BY EditorInit, RulesInit
  <1>2. [FixAllWaits]_vars => FixAllWaits
    BY DEF FixAllWaits, Awaits, HandingOver, vars
  <1>3. I /\ [Next]_vars /\ FixAllWaits => I'
    BY EditorStep, HandoffStep, RulesStep DEF EditorInv
  <1>4. I => ReportIsCurrent
    BY ReportOfNow
  <1> QED BY <1>1, <1>2, <1>3, <1>4, PTL DEF Spec
=============================================================================
