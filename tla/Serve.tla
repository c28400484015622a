------------------------------- MODULE Serve -------------------------------
(***************************************************************************)
(* `lintrix serve` (cli/serve.cc): a resident process that answers one     *)
(* request at a time, with a session that keeps a loaded configuration, a  *)
(* type source (ProjectTypes) and a result cache (FileCache) alive between *)
(* requests.  Editors and tools change the disk; the client reports what   *)
(* changed.                                                                *)
(*                                                                         *)
(* One configuration file governs every file, and each file has a tsconfig.*)
(* The session is the only writer of its store here; LintCache has the     *)
(* concurrent ones.                                                        *)
(***************************************************************************)
EXTENDS ProjectTypes, FileCache

CONSTANTS
  ProjectFor,          \* [Path -> Project]: the tsconfig projectFor finds
  NoText,              \* a request without `text`; also no text in hand
  NoFile,              \* no request under way
  NoEnv,               \* no configuration loaded
  NoRule,              \* a tsconfig the type server has not opened
  NoReply,             \* nothing answered yet, or an error
  Overlays,            \* whether requests may carry unsaved text
  ServerMayNotStart,   \* whether the type server may fail to start
  MaxRequests          \* bound: requests accepted

ASSUME ServeAssumption ==
  /\ ProjectFor \in [Path -> Project]
  /\ {Overlays, ServerMayNotStart} \subseteq BOOLEAN
  /\ MaxRequests \in Nat
  /\ NoText \notin Content
  /\ NoFile \notin Path
  /\ NoEnv \notin Env
  /\ NoRule \notin Rule
  /\ NoRecord \notin FileRecord

(* Env stands for the hash of the configuration, Rule for the hash of a     *)
(* tsconfig that is part of the payload key.                               *)
VARIABLES
  config,        \* the configuration on disk
  tsconfig,      \* [Project -> Rule]: the tsconfigs on disk
  configNotices, \* whether a change of the configuration is yet to be reported
  tsNotices,     \* tsconfigs whose change is yet to be reported
  loaded,        \* the session's configuration, or NoEnv when there is no session
  envHash,       \* the environment hash its cache was opened with, or NoEnv
  cacheTried,    \* the session tried to open its cache
  typesTried,    \* the session tried to start the type server
  options,       \* [Project -> Rule or NoRule]: the tsconfigs the type server parsed
  graph,         \* the session's import graph
  pending,       \* loadClosure's work list
  files, rows,   \* the two tables of the store
  stage,         \* where the request under way is
  file,          \* its file
  asked,         \* its `text`, or NoText
  source,        \* what is linted
  cacheable,     \* the text is the one on disk
  key,           \* the hash of the file's tsconfig, part of the payload key
  degraded,      \* the type source reported an error
  payload,       \* what the rules answered
  reply,         \* the last answer
  requests       \* requests accepted so far

watched == <<config, tsconfig, configNotices, tsNotices>>
sessionVars == <<loaded, envHash, cacheTried, typesTried, options>>
cacheVars == <<graph, pending, files, rows>>
requestVars == <<file, asked, source, cacheable, key, degraded, payload>>
serveVars == <<vars, watched, sessionVars, cacheVars, stage, requestVars, reply, requests>>

ServeStage == {"idle", "types", "project", "route", "cache", "refresh", "load", "lint",
               "walk", "save"}

ready == envHash # NoEnv
proj == ProjectFor[file]
Record == recordFor(graph, file, envHash)

NoOptions == [p \in Project |-> NoRule]
EmptyHands ==
  /\ file' = NoFile
  /\ asked' = NoText
  /\ source' = NoText
  /\ cacheable' = FALSE
  /\ key' = NoRule
  /\ degraded' = FALSE
  /\ payload' = NoReply

ServeInit ==
  /\ Init
  /\ config \in Env
  /\ tsconfig \in [Project -> Rule]
  /\ configNotices = FALSE
  /\ tsNotices = {}
  /\ loaded = NoEnv
  /\ envHash = NoEnv
  /\ cacheTried = FALSE
  /\ typesTried = FALSE
  /\ options = NoOptions
  /\ graph = EmptyGraph
  /\ pending = {}
  /\ files = [q \in Path |-> NoRecord]
  /\ rows = {}
  /\ stage = "idle"
  /\ file = NoFile
  /\ asked = NoText
  /\ source = NoText
  /\ cacheable = FALSE
  /\ key = NoRule
  /\ degraded = FALSE
  /\ payload = NoReply
  /\ reply = NoReply
  /\ requests = 0
-----------------------------------------------------------------------------
(* The world: files, the configuration and tsconfigs change between requests. *)
EditFile(q) ==
  /\ stage = "idle"
  /\ Edit(q)
  /\ UNCHANGED <<watched, sessionVars, cacheVars, stage, requestVars, reply, requests>>

EditConfig ==
  /\ stage = "idle"
  /\ edits < MaxEdits
  /\ \E e \in Env \ {config} : config' = e
  /\ configNotices' = TRUE
  /\ edits' = edits + 1
  /\ UNCHANGED <<disk, notices, typeVars, tsconfig, tsNotices, sessionVars, cacheVars, stage,
                 requestVars, reply, requests>>

EditTsconfig(p) ==
  /\ stage = "idle"
  /\ edits < MaxEdits
  /\ \E r \in Rule \ {tsconfig[p]} : tsconfig' = [tsconfig EXCEPT ![p] = r]
  /\ tsNotices' = tsNotices \cup {p}
  /\ edits' = edits + 1
  /\ UNCHANGED <<disk, notices, typeVars, config, configNotices, sessionVars, cacheVars,
                 stage, requestVars, reply, requests>>

(* As Opened, but none. *)
NoneOpened == {}

(* The tsconfigs a change of which drops the session. *)
Opened == {p \in Project : options[p] # NoRule}

(* drop: the type server, the graph and the store's handle go with the session. *)
DropSession ==
  /\ IF isOpen THEN close ELSE UNCHANGED typeVars
  /\ loaded' = NoEnv
  /\ envHash' = NoEnv
  /\ cacheTried' = FALSE
  /\ typesTried' = FALSE
  /\ options' = NoOptions
  /\ graph' = EmptyGraph
  /\ UNCHANGED <<pending, files, rows>>

(* `changed`: a configuration or an opened tsconfig drops the session, other *)
(* files reach its type source.                                            *)
Changes ==
  /\ stage = "idle"
  /\ notices # {} \/ configNotices \/ tsNotices # {}
  /\ IF configNotices \/ tsNotices \cap Opened # {}
       THEN DropSession
       ELSE filesChanged(notices) /\ UNCHANGED <<sessionVars, cacheVars>>
  /\ notices' = {}
  /\ configNotices' = FALSE
  /\ tsNotices' = {}
  /\ UNCHANGED <<disk, edits, config, tsconfig, stage, requestVars, reply, requests>>

(* `close`: the buffer's text is dropped.                                  *)
CloseFile(f) ==
  /\ stage = "idle"
  /\ served[f] # NotServed
  /\ filesChanged({f})
  /\ UNCHANGED <<environment, watched, sessionVars, cacheVars, stage, requestVars, reply,
                 requests>>

Dies ==
  /\ ServerDies
  /\ UNCHANGED <<environment, watched, sessionVars, cacheVars, stage, requestVars, reply,
                 requests>>
-----------------------------------------------------------------------------
(* Request steps leave alone what is on disk and what was reported. *)
Still == UNCHANGED <<environment, watched, requests>>

(* The request is over, with this answer. *)
Answer(r) ==
  /\ reply' = r
  /\ stage' = "idle"
  /\ EmptyHands

(* As Cacheable, but whatever the text. *)
OnDisk(f, text) == isFile(disk, f)

(* An unsaved buffer is neither replayed nor stored. *)
Cacheable(f, text) == isFile(disk, f) /\ text \in {NoText, disk[f]}

(* A `lint` request: the session is found, or made and its configuration      *)
(* loaded; then the file is read.  Without a `text` it has to be readable. *)
Request(f, text) ==
  /\ stage = "idle"
  /\ requests < MaxRequests
  /\ \/ LateNotices
     \/ notices = {} /\ ~configNotices /\ tsNotices = {}
  /\ text # NoText => Overlays
  /\ requests' = requests + 1
  /\ loaded' = IF loaded = NoEnv THEN config ELSE loaded
  /\ IF text = NoText /\ ~isFile(disk, f)
       THEN Answer(NoReply)
       ELSE /\ stage' = "types"
            /\ file' = f
            /\ asked' = text
            /\ source' = IF text = NoText THEN disk[f] ELSE text
            /\ cacheable' = Cacheable(f, text)
            /\ UNCHANGED <<key, degraded, payload, reply>>
  /\ UNCHANGED <<environment, typeVars, watched, envHash, cacheTried, typesTried, options,
                 cacheVars>>

(* As Parsed, but not kept for the session. *)
NotKept(p) == UNCHANGED options

(* The server read the tsconfig, and the session remembers it. *)
Parsed(p) == options' = [options EXCEPT ![p] = tsconfig[p]]

(* The first request of a session starts the type server; it is tried once.  *)
StartTypes ==
  /\ stage = "types"
  /\ stage' = "project"
  /\ typesTried' = TRUE
  /\ \/ typesTried /\ UNCHANGED <<typeVars, options>>
     \/ ~typesTried /\ open({proj}) /\ Parsed(proj)
     \/ ~typesTried /\ ServerMayNotStart /\ UNCHANGED <<typeVars, options>>
  /\ Still
  /\ UNCHANGED <<loaded, envHash, cacheTried, cacheVars, requestVars, reply>>

(* A tsconfig seen for the first time is opened in the running server.      *)
AddProject ==
  /\ stage = "project"
  /\ stage' = "route"
  /\ IF isOpen /\ proj \notin projects
       THEN /\ addProject(proj)
            /\ IF proj \in projects' THEN Parsed(proj) ELSE UNCHANGED options
       ELSE UNCHANGED <<typeVars, options>>
  /\ Still
  /\ UNCHANGED <<loaded, envHash, cacheTried, typesTried, cacheVars, requestVars, reply>>

(* The file is typed under its tsconfig if the server has it.              *)
Route ==
  /\ stage = "route"
  /\ stage' = "cache"
  /\ IF isOpen /\ proj \in projects THEN setFileProject(file, proj) ELSE UNCHANGED typeVars
  /\ Still
  /\ UNCHANGED <<sessionVars, cacheVars, requestVars, reply>>

(* openCache hashes the configuration as it is now, and may find no store;  *)
(* the key takes the tsconfig as it is now.                                *)
OpenCache ==
  /\ stage = "cache"
  /\ \E found \in BOOLEAN :
       envHash' = IF cacheable /\ ~cacheTried /\ found THEN config ELSE envHash
  /\ cacheTried' = (cacheTried \/ cacheable)
  /\ key' = tsconfig[proj]
  /\ IF cacheable /\ envHash' # NoEnv
       THEN stage' = "refresh" /\ pending' = {file}
       ELSE stage' = "lint" /\ UNCHANGED pending
  /\ Still
  /\ UNCHANGED <<typeVars, loaded, typesTried, options, graph, files, rows, file, asked,
                 source, cacheable, degraded, payload, reply>>

(* refresh: loadClosure, one turn at a time.                               *)
Refresh ==
  /\ stage = "refresh"
  /\ \E q \in pending :
       /\ graph' = loadedGraph(graph, disk, q)
       /\ pending' = loadedPending(graph, disk, q, pending)
       /\ stage' = IF pending' = {} THEN "load" ELSE "refresh"
  /\ Still
  /\ UNCHANGED <<typeVars, sessionVars, files, rows, requestVars, reply>>

(* What the client is told: the diagnostics, and whether they are typed.    *)
Told(p, hit) ==
  [file |-> file, text |-> source, payload |-> p, typed |-> isOpen /\ (hit \/ p.typed)]

(* load: a fresh file with a payload under the key is the answer; a stale one *)
(* has its rows dropped.                                                   *)
Load ==
  /\ stage = "load"
  /\ LET stored == files[file]
         found == ruleResult(rows, Record, key)
     IN  IF file \in DOMAIN graph /\ Fresh(stored, Record) /\ found # {}
           THEN /\ \E r \in found : Answer(Told(r.payload, TRUE))
                /\ UNCHANGED rows
           ELSE /\ stage' = "lint"
                /\ rows' = IF file \in DOMAIN graph /\ Stale(stored, Record)
                             THEN dropRuleResults(rows, stored.contentHash)
                             ELSE rows
                /\ UNCHANGED <<reply, requestVars>>
  /\ Still
  /\ UNCHANGED <<typeVars, sessionVars, graph, pending, files>>

(* lintSource hands the text to the type source, when there is one.  Nothing *)
(* but a file with no project goes untyped without an error.               *)
Lint ==
  /\ stage = "lint"
  /\ stage' = "walk"
  /\ IF isOpen
       THEN /\ beginFile(file, source)
            /\ degraded' = (facts' = NoFacts /\ ~(alive /\ projectOf(file) = NoProject))
       ELSE UNCHANGED typeVars /\ degraded' = FALSE
  /\ Still
  /\ UNCHANGED <<sessionVars, cacheVars, file, asked, source, cacheable, key, payload, reply>>

(* The walk over the tree: with facts in hand the rules ask the server, and  *)
(* a question a dead server leaves unanswered degrades the result.         *)
Walk ==
  /\ stage = "walk"
  /\ LET typed == facts # NoFacts IN
       payload' = lintSource(program, file, source, loaded,
                             IF typed THEN options[proj] ELSE key, typed)
  /\ IF facts = NoFacts
       THEN UNCHANGED <<typeVars, degraded>>
       ELSE endFile /\ degraded' = ~alive
  /\ stage' = "save"
  /\ Still
  /\ UNCHANGED <<sessionVars, cacheVars, file, asked, source, cacheable, key, reply>>

(* save, when the text is the file's own and the lint was not degraded: a    *)
(* stale record's rows go, and the payload and the record are written.      *)
Save ==
  /\ stage = "save"
  /\ IF cacheable /\ ready /\ ~degraded /\ file \in DOMAIN graph
       THEN LET kept == IF Stale(files[file], Record)
                          THEN dropRuleResults(rows, files[file].contentHash)
                          ELSE rows
            IN /\ rows' = putRuleResult(kept, Record, key, payload)
               /\ files' = putFile(files, file, Record)
       ELSE UNCHANGED <<rows, files>>
  /\ Answer(Told(payload, FALSE))
  /\ Still
  /\ UNCHANGED <<typeVars, sessionVars, graph, pending>>

RequestStep ==
  \/ StartTypes \/ AddProject \/ Route \/ OpenCache \/ Refresh \/ Load \/ Lint \/ Walk \/ Save

ServeNext ==
  \/ \E q \in Path : EditFile(q)
  \/ EditConfig
  \/ \E p \in Project : EditTsconfig(p)
  \/ Changes
  \/ \E f \in Path : CloseFile(f)
  \/ Dies
  \/ \E f \in Path, text \in Content \cup {NoText} : Request(f, text)
  \/ RequestStep

ServeSpec == ServeInit /\ [][ServeNext]_serveVars
-----------------------------------------------------------------------------
Reply == [file : Path, text : Content, payload : Payload, typed : BOOLEAN]

ServeFieldTypes ==
  /\ FieldTypes
  /\ config \in Env
  /\ tsconfig \in [Project -> Rule]
  /\ configNotices \in BOOLEAN
  /\ tsNotices \subseteq Project
  /\ loaded \in Env \cup {NoEnv}
  /\ envHash \in Env \cup {NoEnv}
  /\ {cacheTried, typesTried, cacheable, degraded} \subseteq BOOLEAN
  /\ options \in [Project -> Rule \cup {NoRule}]
  /\ graph \in Graph
  /\ pending \subseteq Path
  /\ files \in [Path -> FileRecord \cup {NoRecord}]
  /\ rows \subseteq RuleRow
  /\ stage \in ServeStage
  /\ file \in Path \cup {NoFile}
  /\ {asked, source} \subseteq Content \cup {NoText}
  /\ key \in Rule \cup {NoRule}
  /\ payload \in Payload \cup {NoReply}
  /\ reply \in Reply \cup {NoReply}
  /\ requests \in 0..MaxRequests

(* Types, with what ties a session together: a cache and a type server belong *)
(* to a loaded configuration, the server's projects are the tsconfigs it     *)
(* parsed, and a request past the cache step has a key (cli/serve.cc, lint). *)
ServeTypeOK ==
  /\ ServeFieldTypes
  /\ loaded = NoEnv => envHash = NoEnv /\ ~isOpen /\ DOMAIN graph = {}
  /\ isOpen => typesTried /\ projects = Opened
  /\ stage # "idle" => loaded # NoEnv /\ file # NoFile /\ source # NoText
  /\ stage \in {"refresh", "load", "lint", "walk", "save"} => key # NoRule
  /\ stage \in {"refresh", "load"} => cacheable /\ ready

(* docs/vscode-extension.md, "The native serve mode": an edit never poisons  *)
(* the saved file's record, and a tsconfig edit misses rather than replays.  *)
(* A row holds the lint of the text and the tsconfig it is filed under, and   *)
(* a record names the configuration its rows were made with.               *)
RowsOfTheirKey ==
  /\ \A r \in rows :
       /\ r.payload.text = r.fileHash
       /\ r.payload.rule = r.rule
  /\ \A f \in Path, k \in Rule :
       files[f] # NoRecord =>
         \A r \in ruleResult(rows, files[f], k) :
           r.payload.path = f => r.payload.env = files[f].tsconfigHash

(* An answer, replayed or not, is for the text asked about, under the       *)
(* configuration and the tsconfig as they are now.                         *)
AnswerIsCurrent(answered) ==
  /\ answered.path = file
  /\ answered.text = (IF asked = NoText THEN disk[file] ELSE asked)
  /\ answered.env = config
  /\ answered.rule = tsconfig[proj]

RepliesCurrent ==
  [][stage' = "idle" /\ stage \in {"load", "save"} => AnswerIsCurrent(reply'.payload)]_serveVars

(* docs/vscode-extension.md, "Language server": the next pull of a dependent *)
(* file sees a source change.  A replay is the lint the type server would    *)
(* give of the files as they are.                                          *)
RepliesSeeTheDisk ==
  [][stage = "load" /\ stage' = "idle" =>
       reply'.payload.world = World(serverGraph(disk), file)]_serveVars
=============================================================================
