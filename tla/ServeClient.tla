---------------------------- MODULE ServeClient ----------------------------
(***************************************************************************)
(* The language server's side of `lintrix serve`: ServeClient              *)
(* (plugin/ts/serve.ts), the one client NativeEngines keeps for a binary    *)
(* (server/native.ts) and the handoff file a binary reads its configuration *)
(* from.  The process is Serve seen through its pipe: it answers in order,  *)
(* and holds the configuration it loaded until it is told to drop it.       *)
(***************************************************************************)
EXTENDS Naturals, Sequences

CONSTANTS
  Req,        \* handlers that may await something at once
  Config,     \* what lintrix.config says
  NoConfig,   \* no handoff file, or no session
  Waiting,    \* the handler's promise is pending
  Failed,     \* it was rejected
  Done,       \* it resolved with nothing to say
  MayRefuse,  \* whether a lint may be answered with an error
  MaxSpawns   \* bound: processes started

ASSUME ClientAssumption ==
  /\ MayRefuse \in BOOLEAN
  /\ MaxSpawns \in Nat
  /\ NoConfig \notin Config
  /\ {Waiting, Failed, Done} \cap Config = {}
  /\ Waiting # Failed /\ Failed # Done /\ Done # Waiting

VARIABLES
  spawned,  \* processes started; the map holds the client of the last one
  alive,    \* that client has no exitReason
  pipe,     \* its requests without an answer, in order
  session,  \* the configuration its process loaded, or NoConfig
  handoff,  \* the configuration in the handoff file, or NoConfig
  answer    \* [Req -> what the handler's last request came to]

clientVars == <<spawned, alive, pipe, session, handoff, answer>>

Message == [method : {"lint", "configChanged"}, req : Req]
Answer == Config \cup {Waiting, Failed, Done}

ClientInit ==
  /\ spawned = 0
  /\ alive = FALSE
  /\ pipe = << >>
  /\ session = NoConfig
  /\ handoff = NoConfig
  /\ answer = [r \in Req |-> Done]

InFlight == {pipe[i].req : i \in DOMAIN pipe}

(* A request through the client of one process: it is written, or rejected   *)
(* because that process is gone.                                           *)
CanSend(client) == alive /\ client = spawned

(* As sent, but ahead of the requests before it. *)
sentFirst(r, method) == <<[method |-> method, req |-> r]>> \o pipe

sent(r, method) == Append(pipe, [method |-> method, req |-> r])

request(r, client, method) ==
  /\ pipe' = IF CanSend(client) THEN sent(r, method) ELSE pipe
  /\ answer' = [answer EXCEPT ![r] = IF CanSend(client) THEN Waiting ELSE Failed]

(* clientFor, then a request through it: a client that exited is replaced.   *)
spawnAndRequest(r, method) ==
  /\ alive' = TRUE
  /\ answer' = [answer EXCEPT ![r] = Waiting]
  /\ IF alive
       THEN spawned' = spawned /\ session' = session /\ pipe' = sent(r, method)
       ELSE /\ spawned < MaxSpawns
            /\ spawned' = spawned + 1
            /\ session' = NoConfig
            /\ pipe' = <<[method |-> method, req |-> r]>>

(* The process answers its next request: a lint under the configuration it   *)
(* has or else loads from the handoff file, a configChanged by dropping it.  *)
Serves ==
  /\ alive
  /\ pipe # << >>
  /\ pipe' = Tail(pipe)
  /\ LET m == Head(pipe)
         loaded == IF session = NoConfig THEN handoff ELSE session
     IN  \/ /\ m.method = "lint"
            /\ session' = loaded
            /\ answer' = [answer EXCEPT ![m.req] = loaded]
         \/ /\ m.method = "lint"
            /\ MayRefuse
            /\ session' \in {session, loaded}
            /\ answer' = [answer EXCEPT ![m.req] = Failed]
         \/ /\ m.method = "configChanged"
            /\ session' = NoConfig
            /\ answer' = [answer EXCEPT ![m.req] = Done]
  /\ UNCHANGED <<spawned, alive, handoff>>

(* As rejectedAll, but for the oldest request only. *)
rejectedFirst ==
  [r \in Req |-> IF pipe # << >> /\ r = Head(pipe).req THEN Failed ELSE answer[r]]

(* fail: everything in flight is rejected. *)
rejectedAll == [r \in Req |-> IF r \in InFlight THEN Failed ELSE answer[r]]

Exits ==
  /\ alive
  /\ alive' = FALSE
  /\ pipe' = << >>
  /\ session' = NoConfig
  /\ answer' = rejectedAll
  /\ UNCHANGED <<spawned, handoff>>

ClientTypeOK ==
  /\ spawned \in 0..MaxSpawns
  /\ alive \in BOOLEAN
  /\ pipe \in Seq(Message)
  /\ session \in Config \cup {NoConfig}
  /\ handoff \in Config \cup {NoConfig}
  /\ answer \in [Req -> Answer]
=============================================================================
