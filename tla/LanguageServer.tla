--------------------------- MODULE LanguageServer ---------------------------
(***************************************************************************)
(* The language server of the VS Code extension (editors/vscode/server):    *)
(* handlers that run until they await something, over one open document,    *)
(* the configuration cache and the resident binary of ServeClient.          *)
(*                                                                         *)
(* Between two awaits nothing else runs, and a handler whose promise was    *)
(* settled goes on before the next event is taken up.  A document is one    *)
(* object that changes in place: its text is named by the life of the       *)
(* object, from didOpen to didClose, and its version.  The settings are     *)
(* fetched already, and a native binary is found or not from the start on.  *)
(***************************************************************************)
EXTENDS ServeClient

CONSTANTS
  Broken,        \* the configurations that do not load
  LoadsInOrder,  \* whether configuration loads settle in the order they began
  CloseMidway,   \* whether a document may close while a handler holds it
  Engine,        \* engines the settings may lead to
  NoState,       \* no report is kept
  NoOffer,       \* no edit was sent to the client
  MaxLives, MaxVersion, MaxLoads, MaxConfigEdits, MaxFixPasses \* bounds

ASSUME ServerAssumption ==
  /\ Broken \subseteq Config
  /\ {LoadsInOrder, CloseMidway} \subseteq BOOLEAN
  /\ Engine \subseteq {"native", "wasm"}
  /\ {MaxLoads, MaxConfigEdits, MaxFixPasses} \subseteq Nat
  /\ {MaxLives, MaxVersion} \subseteq Nat \ {0}

VARIABLES
  life,         \* which life of the document is open; closed when isOpen is not
  isOpen,
  version,      \* [life -> its version]
  enabled,      \* the `enable` setting
  engine,       \* what the settings lead to
  config,       \* lintrix.config on disk
  noticed,      \* its last change was reported
  configEdits,
  loads,        \* the configuration loads begun: what each read, whether it settled
  load,         \* the load in the cache, or 0
  handed,       \* loads whose handoff was written
  states,       \* the report kept for the document, or NoState
  req,          \* [Req -> the handler]
  due,          \* the client has a pull to send
  offer         \* the edit this step sent to the client, or NoOffer

documentVars == <<life, isOpen, version>>
configVars == <<config, noticed, configEdits>>
vars == <<clientVars, documentVars, enabled, engine, configVars, loads, load, handed, states,
          req, due, offer>>

Lives == 1..MaxLives
Text == [life : Lives, version : 1..MaxVersion]
textOf(l) == [life |-> l, version |-> version[l]]

State == [version : 1..MaxVersion, text : Text, config : Config, rules : Config]
Offer == [to : Text, from : Text]
Load == [read : Config, settled : BOOLEAN]

(* A handler: what it answers, the document object it holds, the load it     *)
(* awaits or used, the process it lints through, the text it captured.      *)
Handler == [kind : {"pull", "fixAll"}, stage : {"idle", "config", "handoff", "lint"},
            life : Lives, load : 0..MaxLoads, client : 0..MaxSpawns, text : Text,
            pass : 0..MaxFixPasses]

Idle == [kind |-> "pull", stage |-> "idle", life |-> 1, load |-> 0, client |-> 0,
         text |-> [life |-> 1, version |-> 1], pass |-> 0]

Init ==
  /\ ClientInit
  /\ life = 1
  /\ isOpen = TRUE
  /\ version = [l \in Lives |-> 1]
  /\ enabled = TRUE
  /\ engine \in Engine
  /\ config \in Config
  /\ noticed = TRUE
  /\ configEdits = 0
  /\ loads = << >>
  /\ load = 0
  /\ handed = {}
  /\ states = NoState
  /\ req = [r \in Req |-> Idle]
  /\ due = TRUE
  /\ offer = NoOffer
-----------------------------------------------------------------------------
(* The promise a handler awaits has settled. *)
Settled(r) ==
  \/ req[r].stage = "config" /\ loads[req[r].load].settled
  \/ req[r].stage \in {"handoff", "lint"} /\ answer[r] # Waiting

(* An event is taken up when no handler can go on. *)
Event == (\A r \in Req : ~Settled(r)) /\ offer' = NoOffer

End(r) == req' = [req EXCEPT ![r] = Idle]
At(r, stage) == req' = [req EXCEPT ![r].stage = stage]
-----------------------------------------------------------------------------
Open ==
  /\ Event
  /\ ~isOpen
  /\ life < MaxLives
  /\ life' = life + 1
  /\ isOpen' = TRUE
  /\ due' = TRUE
  /\ UNCHANGED <<clientVars, version, enabled, engine, configVars, loads, load, handed,
                 states, req>>

Change ==
  /\ Event
  /\ isOpen
  /\ version[life] < MaxVersion
  /\ version' = [version EXCEPT ![life] = @ + 1]
  /\ due' = TRUE
  /\ UNCHANGED <<clientVars, life, isOpen, enabled, engine, configVars, loads, load, handed,
                 states, req>>

(* onDidClose; a handler that holds the object keeps it.                    *)
Close ==
  /\ Event
  /\ isOpen
  /\ CloseMidway \/ \A r \in Req : req[r].stage = "idle"
  /\ isOpen' = FALSE
  /\ states' = NoState
  /\ due' = FALSE
  /\ UNCHANGED <<clientVars, life, version, enabled, engine, configVars, loads, load, handed,
                 req>>

EditConfig ==
  /\ Event
  /\ configEdits < MaxConfigEdits
  /\ \E c \in Config \ {config} : config' = c
  /\ noticed' = FALSE
  /\ configEdits' = configEdits + 1
  /\ UNCHANGED <<clientVars, documentVars, enabled, engine, loads, load, handed, states, req,
                 due>>

(* As clearConfigs, but the load stays. *)
keepConfigs == UNCHANGED load

clearConfigs == load' = 0

(* onDidChangeWatchedFiles: the cache is cleared and the client pulls again.  *)
Notice ==
  /\ Event
  /\ ~noticed
  /\ noticed' = TRUE
  /\ clearConfigs
  /\ due' = isOpen
  /\ UNCHANGED <<clientVars, documentVars, enabled, engine, config, configEdits, loads,
                 handed, states, req>>

(* onDidChangeConfiguration: the settings are fetched anew.                 *)
ChangeSettings ==
  /\ Event
  /\ enabled' = ~enabled
  /\ due' = isOpen
  /\ UNCHANGED <<clientVars, documentVars, engine, configVars, loads, load, handed, states,
                 req>>

(* configs.forFile: the load in the cache, or a new one that reads the file. *)
forFile ==
  IF load # 0
    THEN UNCHANGED <<load, loads>>
    ELSE /\ Len(loads) < MaxLoads
         /\ loads' = Append(loads, [read |-> config, settled |-> FALSE])
         /\ load' = Len(loads')

Resolving(r, kind) ==
  req' = [req EXCEPT ![r] = [Idle EXCEPT !.kind = kind, !.stage = "config", !.life = life,
                                         !.load = load']]

(* A pull; a disabled document is answered with nothing.                    *)
Pull(r) ==
  /\ Event
  /\ isOpen
  /\ req[r].stage = "idle"
  /\ due' = FALSE
  /\ IF enabled
       THEN forFile /\ Resolving(r, "pull") /\ UNCHANGED states
       ELSE states' = NoState /\ UNCHANGED <<load, loads, req>>
  /\ UNCHANGED <<clientVars, documentVars, enabled, engine, configVars, handed>>

(* Fix-all in `all` mode, on save or as a command. *)
FixAll(r) ==
  /\ Event
  /\ isOpen
  /\ req[r].stage = "idle"
  /\ forFile
  /\ Resolving(r, "fixAll")
  /\ UNCHANGED <<clientVars, documentVars, enabled, engine, configVars, handed, states, due>>

(* An import settles: a configuration with plugins waits for theirs.        *)
LoadSettles(i) ==
  /\ Event
  /\ ~loads[i].settled
  /\ LoadsInOrder => \A j \in 1..(i - 1) : loads[j].settled
  /\ loads' = [loads EXCEPT ![i].settled = TRUE]
  /\ UNCHANGED <<clientVars, documentVars, enabled, engine, configVars, load, handed, states,
                 req, due>>

BinaryAnswers ==
  /\ Event
  /\ Serves
  /\ UNCHANGED <<documentVars, enabled, engine, configVars, loads, load, handed, states, req,
                 due>>

BinaryExits ==
  /\ Event
  /\ Exits
  /\ UNCHANGED <<documentVars, enabled, engine, configVars, loads, load, handed, states, req,
                 due>>

(* The quick fixes of the kept report, and fix-all in `problems` mode.      *)
QuickFix ==
  /\ \A r \in Req : ~Settled(r)
  /\ isOpen
  /\ states # NoState
  /\ states.version = version[life]
  /\ offer' = [to |-> textOf(life), from |-> states.text]
  /\ UNCHANGED <<clientVars, documentVars, enabled, engine, configVars, loads, load, handed,
                 states, req, due>>
-----------------------------------------------------------------------------
Used(r) == loads[req[r].load].read

(* As textSent, but the text the document was opened with. *)
openedText(r) == [life |-> req[r].life, version |-> 1]

(* The text is read when the lint is sent. *)
textSent(r) == textOf(req[r].life)

(* toState: the report of a text under the version the document has now.    *)
toState(l, t, c, rules) ==
  [version |-> version[l], text |-> t, config |-> c, rules |-> rules]

(* What a handler does with a report: a pull keeps it, fix-all sends the      *)
(* edits that take the text it began with to the fixed one.                 *)
Report(r, t, c) ==
  IF req[r].kind = "pull"
    THEN states' = toState(req[r].life, t, c, Used(r)) /\ offer' = NoOffer
    ELSE offer' = [to |-> textOf(req[r].life), from |-> t] /\ UNCHANGED states

(* A lint that failed: the pull drops the report it kept.                   *)
NoReport(r) ==
  /\ states' = IF req[r].kind = "pull" THEN NoState ELSE states
  /\ offer' = NoOffer

(* A configuration that did not load is reported in place of a lint.        *)
ConfigFailed(r) ==
  /\ req[r].stage = "config"
  /\ loads[req[r].load].settled
  /\ Used(r) \in Broken
  /\ End(r)
  /\ offer' = NoOffer
  /\ states' = IF req[r].kind = "pull"
                 THEN toState(req[r].life, textOf(req[r].life), Used(r), Used(r))
                 ELSE states
  /\ UNCHANGED <<clientVars, documentVars, enabled, engine, configVars, loads, load, handed,
                 due>>

(* The bundled engine lints without giving way. *)
LintHere(r) ==
  /\ req[r].stage = "config"
  /\ loads[req[r].load].settled
  /\ Used(r) \notin Broken
  /\ engine = "wasm"
  /\ End(r)
  /\ Report(r, textSent(r), Used(r))
  /\ UNCHANGED <<clientVars, documentVars, enabled, engine, configVars, loads, load, handed,
                 due>>

(* A configuration seen for the first time is written out and the binary     *)
(* told; one handed over before is linted under at once.                    *)
HandOff(r) ==
  /\ req[r].stage = "config"
  /\ loads[req[r].load].settled
  /\ Used(r) \notin Broken
  /\ engine = "native"
  /\ IF req[r].load \in handed
       THEN /\ spawnAndRequest(r, "lint")
            /\ req' = [req EXCEPT ![r].stage = "lint", ![r].client = spawned',
                                  ![r].text = textSent(r)]
            /\ UNCHANGED <<handed, handoff>>
       ELSE /\ spawnAndRequest(r, "configChanged")
            /\ req' = [req EXCEPT ![r].stage = "handoff", ![r].client = spawned']
            /\ handed' = handed \cup {req[r].load}
            /\ handoff' = Used(r)
  /\ offer' = NoOffer
  /\ UNCHANGED <<documentVars, enabled, engine, configVars, loads, load, states, due>>

(* However the binary took it, the lint goes to the client chosen before.   *)
SendLint(r) ==
  /\ req[r].stage = "handoff"
  /\ answer[r] # Waiting
  /\ request(r, req[r].client, "lint")
  /\ req' = [req EXCEPT ![r].stage = "lint", ![r].text = textSent(r)]
  /\ offer' = NoOffer
  /\ UNCHANGED <<spawned, alive, session, handoff, documentVars, enabled, engine, configVars,
                 loads, load, handed, states, due>>

(* Fix-all found something to fix and lints the fixed text.                 *)
LintAgain(r) ==
  /\ req[r].stage = "lint"
  /\ answer[r] \in Config
  /\ req[r].kind = "fixAll"
  /\ req[r].pass + 1 < MaxFixPasses
  /\ request(r, req[r].client, "lint")
  /\ req' = [req EXCEPT ![r].pass = @ + 1]
  /\ offer' = NoOffer
  /\ UNCHANGED <<spawned, alive, session, handoff, documentVars, enabled, engine, configVars,
                 loads, load, handed, states, due>>

Finish(r) ==
  /\ req[r].stage = "lint"
  /\ answer[r] # Waiting
  /\ IF answer[r] = Failed THEN NoReport(r) ELSE Report(r, req[r].text, answer[r])
  /\ End(r)
  /\ UNCHANGED <<clientVars, documentVars, enabled, engine, configVars, loads, load, handed,
                 due>>

GoesOn(r) ==
  ConfigFailed(r) \/ LintHere(r) \/ HandOff(r) \/ SendLint(r) \/ LintAgain(r) \/ Finish(r)
-----------------------------------------------------------------------------
Next ==
  \/ Open \/ Change \/ Close \/ EditConfig \/ Notice \/ ChangeSettings
  \/ \E r \in Req : Pull(r) \/ FixAll(r) \/ GoesOn(r)
  \/ \E i \in DOMAIN loads : LoadSettles(i)
  \/ BinaryAnswers \/ BinaryExits \/ QuickFix

Spec == Init /\ [][Next]_vars
-----------------------------------------------------------------------------
(* Types, with what a waiting handler rests on: a load that was begun, and a *)
(* promise only the process its client stands for can still settle          *)
(* (server/server.ts, resolveRun; plugin/ts/serve.ts, request and fail).     *)
TypeOK ==
  /\ ClientTypeOK
  /\ life \in Lives
  /\ isOpen \in BOOLEAN
  /\ version \in [Lives -> 1..MaxVersion]
  /\ enabled \in BOOLEAN
  /\ engine \in Engine
  /\ config \in Config
  /\ noticed \in BOOLEAN
  /\ configEdits \in 0..MaxConfigEdits
  /\ loads \in Seq(Load)
  /\ load \in 0..Len(loads)
  /\ handed \subseteq DOMAIN loads
  /\ states \in State \cup {NoState}
  /\ req \in [Req -> Handler]
  /\ due \in BOOLEAN
  /\ offer \in Offer \cup {NoOffer}
  /\ \A r \in Req :
       /\ req[r].stage # "idle" => req[r].load \in DOMAIN loads
       /\ answer[r] = Waiting <=> r \in InFlight
       /\ r \in InFlight => req[r].client = spawned

(* server/actions.ts, at the top: an edit is versioned to the document it    *)
(* was computed for, so the client refuses it once the document has moved on. *)
OfferFits == offer # NoOffer => offer.from = offer.to

(* With the bundled engine no text can change between a lint and its report. *)
OfferFitsHere == engine = "wasm" => OfferFits

(* server/server.ts, lintDocument: each handler captures its own text and     *)
(* keeps its report whenever it is done.  A lint's report never gives way to  *)
(* one of an older text of the same document.                               *)
ReportsGoForward ==
  [][/\ states # NoState
     /\ states.config \notin Broken
     /\ states' # NoState
     /\ states.text.life = states'.text.life
     => states.text.version <= states'.text.version]_vars

(* docs/vscode-extension.md, "The server": a change of the configuration      *)
(* drops the cache and has every open document pulled again.  Once the client *)
(* has pulled and every handler is done, the report kept is of the text and  *)
(* the configuration of now, for the built-in rules and the plugins' alike.  *)
(* (Not so when that configuration does not load: the pull that says so can   *)
(* overtake one still waiting for the binary.)                              *)
Answering == enabled /\ noticed /\ ~due /\ isOpen /\ config \notin Broken

Quiet == Answering /\ \A r \in Req : req[r].stage = "idle"

LintIsCurrent ==
  Quiet /\ states # NoState =>
    /\ states.text = textOf(life)
    /\ states.version = version[life]
    /\ states.config = config

(* The plugins' rules run on what was loaded for the pull.  When a fix-all    *)
(* hands the newer load over between two pulls, the older pull may report   *)
(* last (see the README).                                                  *)
RulesAreCurrent == Quiet /\ states # NoState => states.rules = config

ReportIsCurrent == LintIsCurrent /\ RulesAreCurrent
=============================================================================
