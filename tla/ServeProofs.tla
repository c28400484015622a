---------------------------- MODULE ServeProofs ----------------------------
(***************************************************************************)
(* Proofs about the resident session: its types, that every row it stores  *)
(* is the lint its key names, and that what it answers is for the text, the *)
(* configuration and the tsconfig as they are.                             *)
(***************************************************************************)
EXTENDS Serve, ProjectTypesProofs, ImportGraphProofs

-----------------------------------------------------------------------------
(* A file is routed to its own tsconfig or to none.                        *)
RoutedToOwn == \A f \in Path : fileProject[f] \in {NoProject, ProjectFor[f]}

(* A file is in the type source's hands for the walk over it and no longer. *)
HandsOnlyTheWalk == facts # NoFacts => stage = "walk" /\ facts.file = file

(* What the types of a session rest on beside themselves.                  *)
SessionInv ==
  /\ ServeTypeOK
  /\ Scoped
  /\ RoutedToOwn
  /\ HandsOnlyTheWalk
  /\ ~isOpen => Opened = {}
  /\ stage = "save" => payload \in Payload
-----------------------------------------------------------------------------
PastCache == {"refresh", "load", "lint", "walk", "save"}
PastRefresh == {"load", "lint", "walk", "save"}

(* A request finds every change before it reported.                        *)
AllReported ==
  stage # "idle" => notices = {} /\ ~configNotices /\ tsNotices = {}

(* But for changes yet to be reported, the session knows the configuration  *)
(* and the type server the tsconfigs.                                      *)
KnowsConfig == ~configNotices => {loaded, envHash} \subseteq {NoEnv, config}
KnowsTsconfigs ==
  \A p \in Project \ tsNotices : options[p] \in {NoRule, tsconfig[p]}

KeyIsTsconfig == stage \in PastCache => key = tsconfig[proj]

SourceIsAsked ==
  stage # "idle" =>
    /\ source = IF asked = NoText THEN disk[file] ELSE asked
    /\ cacheable => disk[file] = source

(* The graph holds the file in hand as it is on disk. *)
EntryIsCurrent == file \in DOMAIN graph /\ graph[file].contentHash = disk[file]

GraphHasFile ==
  /\ stage = "refresh" => pending = {file} \/ EntryIsCurrent
  /\ stage \in PastRefresh /\ cacheable /\ ready => EntryIsCurrent

PayloadIsOfRequest ==
  stage = "save" =>
    /\ payload.path = file
    /\ payload.text = source
    /\ payload.env = loaded
    /\ payload.rule = key

RequestInv ==
  AllReported /\ KnowsConfig /\ KnowsTsconfigs /\ KeyIsTsconfig /\ SourceIsAsked
    /\ GraphHasFile /\ PayloadIsOfRequest

(* A row is what its record says it is. *)
RowsMatchRecord ==
  \A r \in rows :
    /\ r.payload.text = r.fileHash
    /\ r.payload.rule = r.rule
    /\ files[r.payload.path] = [contentHash |-> r.fileHash, closureHash |-> r.closureHash,
                                tsconfigHash |-> r.payload.env]
-----------------------------------------------------------------------------
(* The graphs loadClosure can build, an entry at a time.                   *)
GraphsRead ==
  {g \in Graph : \A q \in DOMAIN g :
                   \E d \in Disk : isFile(d, q) /\ g[q] = entryOf(d, d[q])}

(* The key of a row tells whose it is, which it would not for two files of    *)
(* one text that import each other.                                        *)
KeyTellsFile ==
  \A g, h \in GraphsRead : \A f1 \in DOMAIN g, f2 \in DOMAIN h :
    /\ g[f1].contentHash = h[f2].contentHash
    /\ closureHash(g, f1) = closureHash(h, f2)
    => f1 = f2

RowsFromGraphs ==
  \A r \in rows : \E g \in GraphsRead :
    /\ r.payload.path \in DOMAIN g
    /\ r.fileHash = g[r.payload.path].contentHash
    /\ r.closureHash = closureHash(g, r.payload.path)

KeyInv == graph \in GraphsRead /\ RowsFromGraphs
-----------------------------------------------------------------------------
(* The sentinels are none of what they stand in for.                       *)
LEMMA Sentinels ==
  /\ NoText \notin Content /\ NoFile \notin Path /\ NoEnv \notin Env /\ NoRule \notin Rule
  /\ NoRecord \notin FileRecord /\ NoProject \notin Project
  /\ ProjectFor \in [Path -> Project]
BY ServeAssumption, TypesAssumption

(* A tsconfig the server was given is one it parsed (TypeSource::open and    *)
(* addProject).                                                            *)
LEMMA ParsedIsOpened ==
  ASSUME ServeFieldTypes, NEW p \in Project, Parsed(p)
  PROVE  options' \in [Project -> Rule \cup {NoRule}] /\ Opened' = Opened \cup {p}
<1>1. tsconfig[p] \in Rule /\ tsconfig[p] # NoRule
  BY Sentinels DEF ServeFieldTypes
<1>2. options' = [options EXCEPT ![p] = tsconfig[p]]
  BY DEF Parsed
<1>3. options \in [Project -> Rule \cup {NoRule}]
  BY DEF ServeFieldTypes
<1> QED BY <1>1, <1>2, <1>3 DEF Opened

(* A session that was dropped has parsed nothing.                          *)
LEMMA NothingOpened == options = NoOptions => Opened = {}
BY DEF NoOptions, Opened

(* Steps that leave the type source alone keep what holds of it.            *)
LEMMA SourceUntouched ==
  ASSUME Scoped, UNCHANGED <<disk, typeVars>>, notices' \subseteq Path, edits' \in 0..MaxEdits
  PROVE  Scoped'
BY DEF Scoped, TypeOK, FieldTypes, HandlesInScope, typeVars, serverVars

(* A request under way is about a file with a text, and the session it runs  *)
(* in has a configuration.                                                 *)
LEMMA UnderWay ==
  ASSUME SessionInv, stage # "idle"
  PROVE  /\ file \in Path /\ proj \in Project /\ source \in Content /\ loaded \in Env
         /\ loaded # NoEnv /\ tsconfig[proj] \in Rule
         /\ stage # "walk" => facts = NoFacts
<1>1. file \in Path /\ source \in Content /\ loaded \in Env /\ loaded # NoEnv
  BY DEF SessionInv, ServeTypeOK, ServeFieldTypes
<1>2. proj \in Project
  BY <1>1, Sentinels DEF proj
<1>3. tsconfig[proj] \in Rule
  BY <1>2 DEF SessionInv, ServeTypeOK, ServeFieldTypes
<1> QED BY <1>1, <1>2, <1>3 DEF SessionInv, HandsOnlyTheWalk

(* Between requests nothing is in hand.                                    *)
LEMMA Resting ==
  ASSUME SessionInv, stage = "idle"
  PROVE  facts = NoFacts
BY DEF SessionInv, HandsOnlyTheWalk

LEMMA InitSession == ServeInit => SessionInv
<1> SUFFICES ASSUME ServeInit PROVE SessionInv
  OBVIOUS
<1>1. Scoped
  BY InitScoped DEF ServeInit
<1>2. options \in [Project -> Rule \cup {NoRule}] /\ Opened = {}
  BY NothingOpened DEF ServeInit, NoOptions
<1>3. files \in [Path -> FileRecord \cup {NoRecord}]
  BY DEF ServeInit
<1>4. requests \in 0..MaxRequests
  BY ServeAssumption DEF ServeInit
<1>5. ServeFieldTypes
  BY <1>1, <1>2, <1>3, <1>4, EmptyGraphTyped DEF ServeInit, ServeFieldTypes, ServeStage, Scoped, TypeOK
<1>6. ServeTypeOK
  BY <1>5, EmptyGraphTyped DEF ServeInit, Init, TypesInit, ServeTypeOK
<1>7. RoutedToOwn /\ HandsOnlyTheWalk
  BY DEF ServeInit, Init, TypesInit, RoutedToOwn, HandsOnlyTheWalk
<1> QED BY <1>1, <1>2, <1>6, <1>7 DEF SessionInv, ServeInit
-----------------------------------------------------------------------------
(* The world changes between requests.                                     *)
LEMMA WorldKeepsSession ==
  ASSUME SessionInv,
         (\E q \in Path : EditFile(q)) \/ EditConfig \/ (\E p \in Project : EditTsconfig(p))
  PROVE  SessionInv'
<1>1. stage = "idle" /\ UNCHANGED <<typeVars, sessionVars, cacheVars, stage, requestVars, reply, requests>>
  BY DEF EditFile, Edit, EditConfig, EditTsconfig
<1>2. Scoped'
  <2>1. CASE \E q \in Path : EditFile(q)
    <3>1. PICK q \in Path : Edit(q)
      BY <2>1 DEF EditFile
    <3> QED BY <3>1, StepScoped DEF Next, SessionInv
  <2>2. CASE EditConfig \/ \E p \in Project : EditTsconfig(p)
    <3>1. disk' = disk /\ notices' = notices /\ edits' = edits + 1 /\ edits < MaxEdits
      BY <2>2 DEF EditConfig, EditTsconfig
    <3>2. notices' \subseteq Path /\ edits' \in 0..MaxEdits
      BY <3>1, TypesAssumption DEF SessionInv, Scoped, TypeOK, FieldTypes
    <3> QED BY <1>1, <3>1, <3>2, SourceUntouched DEF SessionInv
  <2> QED BY <2>1, <2>2
<1>3. /\ config' \in Env /\ tsconfig' \in [Project -> Rule]
      /\ configNotices' \in BOOLEAN /\ tsNotices' \subseteq Project
  <2>1. /\ config \in Env /\ tsconfig \in [Project -> Rule]
        /\ configNotices \in BOOLEAN /\ tsNotices \subseteq Project
    BY DEF SessionInv, ServeTypeOK, ServeFieldTypes
  <2>2. CASE (\E q \in Path : EditFile(q)) \/ EditConfig
    BY <2>1, <2>2 DEF EditFile, EditConfig, watched
  <2>3. ASSUME NEW p \in Project, EditTsconfig(p)
        PROVE  tsconfig' \in [Project -> Rule] /\ tsNotices' \subseteq Project
               /\ config' = config /\ configNotices' = configNotices
    <3>1. PICK r \in Rule : tsconfig' = [tsconfig EXCEPT ![p] = r]
      BY <2>3 DEF EditTsconfig
    <3> QED BY <2>1, <2>3, <3>1 DEF EditTsconfig
  <2> QED BY <2>1, <2>2, <2>3
<1>4. ServeFieldTypes'
  BY <1>1, <1>2, <1>3 DEF SessionInv, ServeTypeOK, ServeFieldTypes, Scoped, TypeOK, sessionVars,
                          cacheVars, requestVars
<1>5. ServeTypeOK'
  BY <1>1, <1>4 DEF SessionInv, ServeTypeOK, typeVars, sessionVars, cacheVars, requestVars, Opened, ready
<1>6. RoutedToOwn' /\ HandsOnlyTheWalk' /\ (~isOpen => Opened = {})'
  BY <1>1 DEF SessionInv, RoutedToOwn, HandsOnlyTheWalk, typeVars, sessionVars, requestVars, Opened
<1> QED BY <1>1, <1>2, <1>5, <1>6 DEF SessionInv

(* A change the client reports drops the session or goes to its type source. *)
LEMMA ChangesKeepSession ==
  ASSUME SessionInv, Changes
  PROVE  SessionInv'
<1>1. stage = "idle" /\ facts = NoFacts /\ stage' = "idle"
  BY Resting DEF Changes
<1>2. /\ UNCHANGED <<disk, edits, config, tsconfig, requestVars, reply, requests>>
      /\ notices' = {} /\ configNotices' = FALSE /\ tsNotices' = {}
  BY DEF Changes
<1>3. CASE DropSession
  <2>1. Scoped'
    <3>1. CASE isOpen
      BY <1>1, <1>2, <1>3, <3>1 DEF DropSession, close, NothingHeld, SessionInv, Scoped, TypeOK,
                                    FieldTypes, HandlesInScope, Disk
    <3>2. CASE ~isOpen
      BY <1>2, <1>3, <3>2, SourceUntouched DEF DropSession, SessionInv, Scoped, TypeOK, FieldTypes
    <3> QED BY <3>1, <3>2
  <2>2. options' \in [Project -> Rule \cup {NoRule}] /\ Opened' = {}
    BY <1>3 DEF DropSession, NoOptions, Opened
  <2>3. /\ graph' \in Graph /\ DOMAIN graph' = {} /\ loaded' = NoEnv /\ envHash' = NoEnv
        /\ cacheTried' = FALSE /\ typesTried' = FALSE
        /\ UNCHANGED <<pending, files, rows>>
    BY <1>3, EmptyGraphTyped DEF DropSession
  <2>4. ~isOpen' /\ facts' = NoFacts
    BY <1>1, <1>3 DEF DropSession, close, NothingHeld, typeVars
  <2>5. ServeFieldTypes'
    BY <1>1, <1>2, <2>1, <2>2, <2>3 DEF SessionInv, ServeTypeOK, ServeFieldTypes, ServeStage, Scoped,
                                        TypeOK, requestVars
  <2>6. RoutedToOwn'
    BY <1>3 DEF DropSession, close, NothingHeld, typeVars, SessionInv, RoutedToOwn
  <2> QED BY <1>1, <2>1, <2>2, <2>3, <2>4, <2>5, <2>6 DEF SessionInv, ServeTypeOK, HandsOnlyTheWalk
<1>4. CASE filesChanged(notices) /\ UNCHANGED <<sessionVars, cacheVars>>
  <2>1. Scoped'
    BY <1>1, <1>2, <1>4, FilesChangedScoped DEF SessionInv, Scoped, TypeOK, FieldTypes
  <2>2. /\ UNCHANGED <<isOpen, projects, fileProject, facts, loaded, envHash, cacheTried, typesTried,
                      options, graph, pending, files, rows>>
    BY <1>4 DEF filesChanged, sessionVars, cacheVars
  <2>3. ServeFieldTypes'
    BY <1>1, <1>2, <2>1, <2>2 DEF SessionInv, ServeTypeOK, ServeFieldTypes, ServeStage, Scoped, TypeOK,
                                  requestVars
  <2> QED BY <1>1, <2>1, <2>2, <2>3 DEF SessionInv, ServeTypeOK, HandsOnlyTheWalk, RoutedToOwn, Opened
<1> QED BY <1>3, <1>4 DEF Changes

(* A buffer closes, or the server dies under the session.                   *)
LEMMA ServerKeepsSession ==
  ASSUME SessionInv, (\E f \in Path : CloseFile(f)) \/ Dies
  PROVE  SessionInv'
<1>1. UNCHANGED <<environment, watched, sessionVars, cacheVars, stage, requestVars, reply, requests>>
  BY DEF CloseFile, Dies
<1>2. /\ UNCHANGED <<isOpen, projects, fileProject, facts>>
      /\ Scoped'
  <2>1. CASE \E f \in Path : CloseFile(f)
    <3>1. PICK f \in Path : CloseFile(f)
      BY <2>1
    <3>2. Caller(filesChanged({f}))
      BY <1>1, <3>1, Resting DEF CloseFile, Caller
    <3> QED BY <3>2, StepScoped DEF Next, SessionInv, Caller, filesChanged
  <2>2. CASE Dies
    <3>1. ServerDies /\ UNCHANGED environment
      BY <2>2 DEF Dies
    <3> QED BY <3>1, StepScoped DEF Next, SessionInv, ServerDies
  <2> QED BY <2>1, <2>2
<1>3. ServeFieldTypes'
  BY <1>1, <1>2 DEF SessionInv, ServeTypeOK, ServeFieldTypes, Scoped, TypeOK, sessionVars, cacheVars,
                    requestVars, watched
<1>4. ServeTypeOK'
  BY <1>1, <1>2, <1>3 DEF SessionInv, ServeTypeOK, sessionVars, cacheVars, requestVars, Opened, ready
<1> QED BY <1>1, <1>2, <1>4
    DEF SessionInv, RoutedToOwn, HandsOnlyTheWalk, sessionVars, requestVars, Opened
-----------------------------------------------------------------------------
(* What a step of a request leaves of the session's types to show.          *)
LEMMA RequestKeeps ==
  ASSUME SessionInv, UNCHANGED <<environment, watched>>, Scoped', RoutedToOwn', HandsOnlyTheWalk',
         ServeFieldTypes',
         loaded' # NoEnv \/ UNCHANGED <<loaded, envHash, isOpen, graph>>,
         isOpen' => typesTried' /\ projects' = Opened',
         ~isOpen' => Opened' = {},
         stage' # "idle" => loaded' # NoEnv /\ file' # NoFile /\ source' # NoText,
         stage' \in PastCache => key' # NoRule,
         stage' \in {"refresh", "load"} => cacheable' /\ ready',
         stage' = "save" => payload' \in Payload
  PROVE  SessionInv'
BY DEF SessionInv, ServeTypeOK, PastCache

(* A request is taken up, in a session made for it if there is none.        *)
LEMMA RequestSession ==
  ASSUME SessionInv, NEW f \in Path, NEW text \in Content \cup {NoText}, Request(f, text)
  PROVE  SessionInv'
<1>1. /\ stage = "idle" /\ facts = NoFacts
      /\ UNCHANGED <<environment, typeVars, watched, envHash, cacheTried, typesTried, options, cacheVars>>
  BY Resting DEF Request
<1>2. Scoped' /\ RoutedToOwn' /\ facts' = NoFacts
  <2>1. disk' = disk /\ notices' = notices /\ edits' = edits
    BY <1>1 DEF environment
  <2>2. notices' \subseteq Path /\ edits' \in 0..MaxEdits
    BY <2>1 DEF SessionInv, Scoped, TypeOK, FieldTypes
  <2> QED BY <1>1, <2>1, <2>2, SourceUntouched DEF SessionInv, RoutedToOwn, typeVars
<1>3. loaded' \in Env /\ loaded' # NoEnv
  BY Sentinels DEF Request, SessionInv, ServeTypeOK, ServeFieldTypes
<1>4. requests' \in 0..MaxRequests
  BY ServeAssumption DEF Request, SessionInv, ServeTypeOK, ServeFieldTypes
<1>5. CASE Answer(NoReply)
  <2>1. ServeFieldTypes'
    BY <1>1, <1>2, <1>3, <1>4, <1>5 DEF Answer, EmptyHands, SessionInv, ServeTypeOK, ServeFieldTypes,
       ServeStage, Scoped, TypeOK, watched, cacheVars
  <2> QED BY <1>1, <1>2, <1>3, <1>5, <2>1, RequestKeeps
      DEF Answer, EmptyHands, SessionInv, ServeTypeOK, HandsOnlyTheWalk, PastCache, Opened, typeVars
<1>6. CASE ~(text = NoText /\ ~isFile(disk, f))
  <2>1. /\ stage' = "types" /\ file' = f /\ asked' = text
        /\ source' = IF text = NoText THEN disk[f] ELSE text
        /\ cacheable' = Cacheable(f, text)
        /\ UNCHANGED <<key, degraded, payload, reply>>
    BY <1>6 DEF Request
  <2>2. source' \in Content /\ source' # NoText /\ file' # NoFile /\ cacheable' \in BOOLEAN
    BY <1>6, <2>1, Sentinels DEF isFile, Cacheable, SessionInv, Scoped, TypeOK, FieldTypes, Disk
  <2>3. ServeFieldTypes'
    BY <1>1, <1>2, <1>3, <1>4, <2>1, <2>2 DEF SessionInv, ServeTypeOK, ServeFieldTypes,
       ServeStage, Scoped, TypeOK, watched, cacheVars
  <2> QED BY <1>1, <1>2, <1>3, <2>1, <2>2, <2>3, RequestKeeps
      DEF SessionInv, ServeTypeOK, HandsOnlyTheWalk, PastCache, Opened, typeVars
<1> QED BY <1>5, <1>6 DEF Request

(* The type server is started, given the tsconfig and told the file's.       *)
LEMMA TypesSession ==
  ASSUME SessionInv, StartTypes \/ AddProject \/ Route
  PROVE  SessionInv'
<1>1. /\ stage # "idle" /\ stage # "walk" /\ stage' \in {"project", "route", "cache"}
      /\ UNCHANGED <<environment, watched, requests>>
      /\ UNCHANGED <<loaded, envHash, cacheTried, cacheVars, requestVars, reply>>
  BY DEF StartTypes, AddProject, Route, Still, sessionVars
<1>2. /\ file \in Path /\ proj \in Project /\ loaded \in Env /\ loaded # NoEnv /\ facts = NoFacts
      /\ proj # NoProject
  BY <1>1, UnderWay, Sentinels
<1>3. /\ Scoped' /\ RoutedToOwn' /\ facts' = NoFacts
      /\ options' \in [Project -> Rule \cup {NoRule}] /\ typesTried' \in BOOLEAN
      /\ isOpen' => typesTried' /\ projects' = Opened'
      /\ ~isOpen' => Opened' = {}
  <2>1. CASE UNCHANGED <<typeVars, options>> /\ typesTried' \in {TRUE, typesTried}
    <3>1. disk' = disk /\ notices' = notices /\ edits' = edits
      BY <1>1 DEF environment
    <3>2. notices' \subseteq Path /\ edits' \in 0..MaxEdits
      BY <3>1 DEF SessionInv, Scoped, TypeOK, FieldTypes
    <3>3. Scoped'
      BY <2>1, <3>1, <3>2, SourceUntouched DEF SessionInv
    <3> QED BY <1>2, <2>1, <3>3 DEF SessionInv, ServeTypeOK, ServeFieldTypes, RoutedToOwn, Opened, typeVars
  <2>2. CASE StartTypes /\ ~typesTried /\ open({proj}) /\ Parsed(proj)
    <3>1. Scoped'
      BY <1>1, <1>2, <2>2, StepScoped DEF Caller, Next, SessionInv
    <3>2. options' \in [Project -> Rule \cup {NoRule}] /\ Opened' = Opened \cup {proj} /\ Opened = {}
      BY <1>2, <2>2, ParsedIsOpened DEF SessionInv, ServeTypeOK, open
    <3> QED BY <2>2, <3>1, <3>2 DEF StartTypes, open, NothingHeld, RoutedToOwn
  <2>3. CASE AddProject /\ isOpen /\ proj \notin projects /\ addProject(proj)
    <3>1. Scoped'
      BY <1>1, <1>2, <2>3, StepScoped DEF Caller, Next, SessionInv
    <3>2. UNCHANGED <<isOpen, alive, fileProject, served, session, facts>> /\ typesTried' = typesTried
      BY <2>3 DEF addProject, AddProject
    <3>3. projects' = projects \/ projects' = projects \cup {proj}
      BY <2>3 DEF addProject
    <3>4. IF proj \in projects' THEN Parsed(proj) ELSE UNCHANGED options
      BY <2>3 DEF AddProject
    <3>5. projects = Opened /\ typesTried
      BY <2>3 DEF SessionInv, ServeTypeOK
    <3>6. CASE projects' = projects
      BY <1>2, <2>3, <3>1, <3>2, <3>4, <3>5, <3>6
      DEF SessionInv, ServeTypeOK, ServeFieldTypes, RoutedToOwn, Opened
    <3>7. CASE projects' = projects \cup {proj}
      <4>1. options' \in [Project -> Rule \cup {NoRule}] /\ Opened' = Opened \cup {proj}
        BY <1>2, <3>4, <3>7, ParsedIsOpened DEF SessionInv, ServeTypeOK
      <4> QED BY <1>2, <2>3, <3>1, <3>2, <3>5, <3>7, <4>1 DEF SessionInv, RoutedToOwn
    <3> QED BY <3>3, <3>6, <3>7
  <2>4. CASE Route /\ isOpen /\ proj \in projects /\ setFileProject(file, proj)
    <3>1. Scoped'
      BY <1>1, <1>2, <2>4, StepScoped DEF Caller, Next, SessionInv
    <3>2. fileProject' = [fileProject EXCEPT ![file] = proj] /\ UNCHANGED <<isOpen, projects, facts>>
          /\ UNCHANGED <<typesTried, options>>
      BY <2>4 DEF setFileProject, Route, sessionVars
    <3>3. RoutedToOwn'
      BY <1>2, <3>2 DEF SessionInv, RoutedToOwn, Scoped, TypeOK, FieldTypes, proj
    <3> QED BY <1>2, <3>1, <3>2, <3>3 DEF SessionInv, ServeTypeOK, ServeFieldTypes, Opened
  <2> QED BY <2>1, <2>2, <2>3, <2>4 DEF StartTypes, AddProject, Route, sessionVars
<1>4. ServeFieldTypes'
  BY <1>1, <1>2, <1>3 DEF SessionInv, ServeTypeOK, ServeFieldTypes, ServeStage, Scoped, TypeOK, watched,
                          cacheVars, requestVars
<1> QED BY <1>1, <1>2, <1>3, <1>4, RequestKeeps
    DEF SessionInv, ServeTypeOK, HandsOnlyTheWalk, PastCache, requestVars

(* Steps that ask nothing of the type source.                              *)
LEMMA SourceStill ==
  ASSUME SessionInv, UNCHANGED <<environment, typeVars>>
  PROVE  Scoped' /\ RoutedToOwn'
<1>1. disk' = disk /\ notices' = notices /\ edits' = edits
  BY DEF environment
<1>2. notices' \subseteq Path /\ edits' \in 0..MaxEdits
  BY <1>1 DEF SessionInv, Scoped, TypeOK, FieldTypes
<1> QED BY <1>1, <1>2, SourceUntouched DEF SessionInv, RoutedToOwn, typeVars

(* The cache is opened and the file's closure read.                        *)
LEMMA CacheSession ==
  ASSUME SessionInv, OpenCache \/ Refresh
  PROVE  SessionInv'
<1>1. /\ stage # "idle" /\ stage # "walk" /\ stage' \in {"refresh", "load", "lint"}
      /\ UNCHANGED <<environment, watched, requests, typeVars>>
      /\ UNCHANGED <<loaded, typesTried, options, files, rows, file, asked, source, cacheable,
                    degraded, payload, reply>>
  BY DEF OpenCache, Refresh, Still, sessionVars, requestVars
<1>2. /\ file \in Path /\ proj \in Project /\ loaded \in Env /\ loaded # NoEnv /\ facts = NoFacts
      /\ tsconfig[proj] \in Rule
  BY <1>1, UnderWay
<1>3. Scoped' /\ RoutedToOwn' /\ facts' = NoFacts
  BY <1>1, <1>2, SourceStill DEF typeVars
<1>4. /\ graph' \in Graph /\ pending' \subseteq Path
      /\ envHash' \in Env \cup {NoEnv} /\ cacheTried' \in BOOLEAN
      /\ key' \in Rule /\ key' # NoRule
      /\ stage' \in {"refresh", "load"} => cacheable /\ ready'
  <2>1. CASE OpenCache
    <3>1. config \in Env /\ envHash \in Env \cup {NoEnv} /\ cacheTried \in BOOLEAN /\ cacheable \in BOOLEAN
      BY DEF SessionInv, ServeTypeOK, ServeFieldTypes
    <3>2. envHash' \in {config, envHash} /\ cacheTried' = (cacheTried \/ cacheable)
          /\ graph' = graph /\ key' = tsconfig[proj]
          /\ (stage' \in {"refresh", "load"} => cacheable /\ envHash' # NoEnv)
          /\ (pending' = pending \/ pending' = {file})
      BY <2>1 DEF OpenCache
    <3> QED BY <1>2, <3>1, <3>2, Sentinels DEF SessionInv, ServeTypeOK, ServeFieldTypes, ready
  <2>2. CASE Refresh
    <3>1. PICK q \in pending : /\ graph' = loadedGraph(graph, disk, q)
                               /\ pending' = loadedPending(graph, disk, q, pending)
      BY <2>2 DEF Refresh
    <3>2. graph \in Graph /\ disk \in Disk /\ pending \in SUBSET Path
      BY DEF SessionInv, ServeTypeOK, ServeFieldTypes, Scoped, TypeOK, FieldTypes
    <3>3. graph' \in Graph /\ pending' \in SUBSET Path
      BY <3>1, <3>2, LoadTyped
    <3> QED BY <2>2, <3>3, Sentinels
        DEF Refresh, sessionVars, requestVars, SessionInv, ServeTypeOK, ServeFieldTypes, ready
  <2> QED BY <2>1, <2>2
<1>5. ServeFieldTypes'
  BY <1>1, <1>2, <1>3, <1>4 DEF SessionInv, ServeTypeOK, ServeFieldTypes, ServeStage, Scoped, TypeOK, watched
<1> QED BY <1>1, <1>2, <1>3, <1>4, <1>5, RequestKeeps
    DEF SessionInv, ServeTypeOK, HandsOnlyTheWalk, PastCache, Opened, typeVars, ready

(* Dropping rows leaves rows (Store::dropRuleResults).                     *)
LEMMA DroppedRows ==
  ASSUME NEW rs, NEW c
  PROVE  dropRuleResults(rs, c) \subseteq rs
BY DEF dropRuleResults

(* An answer is a reply, and ends the request.                             *)
LEMMA AnswerSession ==
  ASSUME SessionInv, stage \in {"load", "save"}, UNCHANGED <<environment, watched, requests, typeVars>>,
         UNCHANGED <<sessionVars, graph, pending>>, rows' \subseteq RuleRow,
         files' \in [Path -> FileRecord \cup {NoRecord}], NEW p \in Payload, NEW hit \in BOOLEAN,
         Answer(Told(p, hit))
  PROVE  SessionInv'
<1>1. file \in Path /\ source \in Content /\ loaded \in Env /\ loaded # NoEnv /\ facts = NoFacts
  BY UnderWay
<1>2. Scoped' /\ RoutedToOwn' /\ facts' = NoFacts
  BY <1>1, SourceStill DEF typeVars
<1>3. reply' \in Reply
  <2>1. p.typed \in BOOLEAN /\ isOpen \in BOOLEAN
    BY DEF Payload, SessionInv, Scoped, TypeOK, FieldTypes
  <2> QED BY <1>1, <2>1 DEF Answer, Told, Reply
<1>4. stage' = "idle" /\ EmptyHands
  BY DEF Answer
<1>5. ServeFieldTypes'
  BY <1>1, <1>2, <1>3, <1>4 DEF EmptyHands, SessionInv, ServeTypeOK, ServeFieldTypes, ServeStage, Scoped,
                                TypeOK, watched, sessionVars
<1> QED BY <1>1, <1>2, <1>4, <1>5, RequestKeeps
    DEF SessionInv, ServeTypeOK, HandsOnlyTheWalk, PastCache, Opened, typeVars, sessionVars

(* The lookup answers or sends the file to be linted.                      *)
LEMMA LoadSession ==
  ASSUME SessionInv, Load
  PROVE  SessionInv'
<1> DEFINE found == ruleResult(rows, Record, key)
           hit == file \in DOMAIN graph /\ Fresh(files[file], Record) /\ found # {}
<1>1. /\ stage = "load" /\ UNCHANGED <<environment, watched, requests, typeVars>>
      /\ UNCHANGED <<sessionVars, graph, pending, files>>
  BY DEF Load, Still
<1>2. /\ rows \subseteq RuleRow /\ files \in [Path -> FileRecord \cup {NoRecord}]
  BY DEF SessionInv, ServeTypeOK, ServeFieldTypes
<1>3. CASE hit
  <2>1. PICK r \in found : Answer(Told(r.payload, TRUE))
    BY <1>3 DEF Load
  <2>2. r \in RuleRow
    BY <1>2, <2>1 DEF ruleResult
  <2>3. r.payload \in Payload /\ rows' = rows
    BY <1>3, <2>2 DEF Load, RuleRow
  <2> QED BY <1>1, <1>2, <2>1, <2>3, AnswerSession
<1>4. CASE ~hit
  <2>1. stage' = "lint" /\ UNCHANGED <<reply, requestVars>>
    BY <1>4 DEF Load
  <2>2. rows' \subseteq rows
    BY <1>4, DroppedRows DEF Load
  <2>3. file \in Path /\ source \in Content /\ loaded \in Env /\ loaded # NoEnv /\ facts = NoFacts
    BY <1>1, UnderWay
  <2>4. Scoped' /\ RoutedToOwn' /\ facts' = NoFacts
    BY <1>1, <2>3, SourceStill DEF typeVars
  <2>5. ServeFieldTypes'
    BY <1>1, <1>2, <2>1, <2>2, <2>4 DEF SessionInv, ServeTypeOK, ServeFieldTypes, ServeStage, Scoped, TypeOK,
                                   watched, sessionVars, requestVars
  <2> QED BY <1>1, <2>1, <2>3, <2>4, <2>5, RequestKeeps
      DEF SessionInv, ServeTypeOK, HandsOnlyTheWalk, PastCache, Opened, typeVars, sessionVars, requestVars
<1> QED BY <1>3, <1>4

(* The text goes to the type source, if there is one.                      *)
LEMMA LintSession ==
  ASSUME SessionInv, Lint
  PROVE  SessionInv'
<1>1. /\ stage = "lint" /\ stage' = "walk"
      /\ UNCHANGED <<environment, watched, requests>>
      /\ UNCHANGED <<sessionVars, cacheVars, file, asked, source, cacheable, key, payload, reply>>
  BY DEF Lint, Still
<1>2. /\ file \in Path /\ source \in Content /\ loaded # NoEnv /\ facts = NoFacts
  BY <1>1, UnderWay
<1>3. CASE isOpen /\ beginFile(file, source)
  <2>1. Scoped'
    BY <1>1, <1>2, <1>3, BeginFileScoped DEF SessionInv
  <2>2. UNCHANGED <<isOpen, projects, fileProject>> /\ (facts' = NoFacts \/ facts'.file = file)
    BY <1>2, <1>3 DEF beginFile, Typed, Untyped
  <2>3. degraded' \in BOOLEAN
    BY <1>3 DEF Lint
  <2>4. ServeFieldTypes'
    BY <1>1, <2>1, <2>2, <2>3 DEF SessionInv, ServeTypeOK, ServeFieldTypes, ServeStage, Scoped, TypeOK,
                                  watched, sessionVars, cacheVars
  <2> QED BY <1>1, <1>2, <2>1, <2>2, <2>4, RequestKeeps
      DEF SessionInv, ServeTypeOK, RoutedToOwn, HandsOnlyTheWalk, PastCache, Opened, sessionVars, cacheVars
<1>4. CASE UNCHANGED typeVars /\ degraded' = FALSE
  <2>1. Scoped' /\ RoutedToOwn' /\ facts' = NoFacts
    BY <1>1, <1>2, <1>4, SourceStill DEF typeVars
  <2>2. ServeFieldTypes'
    BY <1>1, <1>4, <2>1 DEF SessionInv, ServeTypeOK, ServeFieldTypes, ServeStage, Scoped, TypeOK,
                            watched, sessionVars, cacheVars
  <2> QED BY <1>1, <1>2, <1>4, <2>1, <2>2, RequestKeeps
      DEF SessionInv, ServeTypeOK, HandsOnlyTheWalk, PastCache, Opened, typeVars, sessionVars, cacheVars
<1> QED BY <1>3, <1>4 DEF Lint

(* A typed walk asks under the tsconfig the server parsed.                 *)
LEMMA WalkPayload ==
  ASSUME SessionInv, stage = "walk"
  PROVE  LET typed == facts # NoFacts
             rule == IF typed THEN options[proj] ELSE key
         IN  /\ typed => proj \in Opened /\ isOpen
             /\ rule \in Rule
             /\ lintSource(program, file, source, loaded, rule, typed) \in Payload
<1> DEFINE rule == IF facts # NoFacts THEN options[proj] ELSE key
<1>1. file \in Path /\ proj \in Project /\ source \in Content /\ loaded \in Env
  BY UnderWay
<1>2. ASSUME facts # NoFacts PROVE proj \in Opened /\ isOpen
  <2>1. session.project = fileProject[file] /\ session.project \in projects /\ isOpen
    BY <1>2 DEF SessionInv, Scoped, HandlesInScope, TypeOK, HandsOnlyTheWalk
  <2>2. fileProject[file] \in Project
    BY <2>1 DEF SessionInv, Scoped, TypeOK, FieldTypes
  <2>3. fileProject[file] = proj
    BY <1>1, <2>2, Sentinels DEF SessionInv, RoutedToOwn, proj
  <2> QED BY <2>1, <2>3 DEF SessionInv, ServeTypeOK
<1>3. rule \in Rule
  <2>1. key \in Rule /\ options \in [Project -> Rule \cup {NoRule}]
    BY DEF SessionInv, ServeTypeOK, ServeFieldTypes
  <2> QED BY <1>1, <1>2, <2>1 DEF Opened
<1>4. program \in Disk
  BY DEF SessionInv, Scoped, TypeOK, FieldTypes
<1> HIDE DEF rule
<1>5. lintSource(program, file, source, loaded, rule, facts # NoFacts) \in Payload
  BY <1>1, <1>3, <1>4, LintTyped
<1> QED BY <1>2, <1>3, <1>5 DEF rule

(* The rules walk over the tree and answer.                                *)
LEMMA WalkSession ==
  ASSUME SessionInv, Walk
  PROVE  SessionInv'
<1>1. /\ stage = "walk" /\ stage' = "save"
      /\ UNCHANGED <<environment, watched, requests>>
      /\ UNCHANGED <<sessionVars, cacheVars, file, asked, source, cacheable, key, reply>>
  BY DEF Walk, Still
<1>2. file \in Path /\ source \in Content /\ loaded # NoEnv
  BY <1>1, UnderWay
<1>3. payload' \in Payload
  BY <1>1, WalkPayload DEF Walk
<1>4. Scoped' /\ RoutedToOwn' /\ facts' = NoFacts /\ UNCHANGED <<isOpen, projects>> /\ degraded' \in BOOLEAN
  <2>1. CASE UNCHANGED <<typeVars, degraded>> /\ facts = NoFacts
    BY <1>1, <2>1, SourceStill DEF typeVars, SessionInv, ServeTypeOK, ServeFieldTypes
  <2>2. CASE endFile /\ degraded' = ~alive
    <3>1. Scoped'
      BY <1>1, <2>2, StepScoped DEF Next, SessionInv
    <3> QED BY <2>2, <3>1 DEF endFile, SessionInv, RoutedToOwn
  <2> QED BY <2>1, <2>2 DEF Walk
<1>5. ServeFieldTypes'
  BY <1>1, <1>3, <1>4 DEF SessionInv, ServeTypeOK, ServeFieldTypes, ServeStage, Scoped, TypeOK,
                          watched, sessionVars, cacheVars
<1> QED BY <1>1, <1>2, <1>3, <1>4, <1>5, RequestKeeps
    DEF SessionInv, ServeTypeOK, HandsOnlyTheWalk, PastCache, Opened, sessionVars, cacheVars

(* The payload is written, unless it may not be, and told.                 *)
LEMMA SaveSession ==
  ASSUME SessionInv, Save
  PROVE  SessionInv'
<1>1. /\ stage = "save" /\ UNCHANGED <<environment, watched, requests, typeVars>>
      /\ UNCHANGED <<sessionVars, graph, pending>> /\ Answer(Told(payload, FALSE))
  BY DEF Save, Still
<1>2. /\ rows \subseteq RuleRow /\ files \in [Path -> FileRecord \cup {NoRecord}] /\ graph \in Graph
      /\ payload \in Payload /\ key \in Rule
  BY <1>1 DEF SessionInv, ServeTypeOK, ServeFieldTypes
<1>3. file \in Path
  BY <1>1, UnderWay
<1>4. rows' \subseteq RuleRow /\ files' \in [Path -> FileRecord \cup {NoRecord}]
  <2>1. CASE cacheable /\ ready /\ ~degraded /\ file \in DOMAIN graph
    <3> DEFINE kept == IF Stale(files[file], Record)
                         THEN dropRuleResults(rows, files[file].contentHash)
                         ELSE rows
    <3>1. envHash \in Env
      BY <2>1 DEF ready, SessionInv, ServeTypeOK, ServeFieldTypes
    <3>2. Record \in FileRecord
      BY <1>2, <2>1, <3>1, RecordTyped DEF Record
    <3>3. kept \in SUBSET RuleRow
      BY <1>2, DroppedRows
    <3>4. rows' = putRuleResult(kept, Record, key, payload) /\ files' = [files EXCEPT ![file] = Record]
      BY <2>1 DEF Save, putFile
    <3> HIDE DEF kept
    <3> QED BY <1>2, <1>3, <3>2, <3>3, <3>4, RowsTyped
  <2>2. CASE UNCHANGED <<rows, files>>
    BY <1>2, <2>2
  <2> QED BY <2>1, <2>2 DEF Save
<1> QED BY <1>1, <1>2, <1>4, AnswerSession
-----------------------------------------------------------------------------
(* One lemma for each handler and each step of a request.                  *)
LEMMA StepSession == SessionInv /\ [ServeNext]_serveVars => SessionInv'
<1>1. ASSUME SessionInv, UNCHANGED serveVars PROVE SessionInv'
  <2>1. Scoped' /\ RoutedToOwn'
    BY <1>1, SourceStill DEF serveVars, vars
  <2>2. ServeFieldTypes'
    BY <1>1, <2>1 DEF serveVars, watched, sessionVars, cacheVars, requestVars, SessionInv, ServeTypeOK,
                      ServeFieldTypes, Scoped, TypeOK
  <2>3. ServeTypeOK'
    BY <1>1, <2>2 DEF serveVars, vars, typeVars, watched, sessionVars, cacheVars, requestVars, SessionInv,
                      ServeTypeOK, Opened, ready
  <2> QED BY <1>1, <2>1, <2>3 DEF serveVars, vars, typeVars, sessionVars, requestVars, SessionInv,
                                  HandsOnlyTheWalk, Opened
<1> QED BY <1>1, WorldKeepsSession, ChangesKeepSession, ServerKeepsSession, RequestSession, TypesSession,
           CacheSession, LoadSession, LintSession, WalkSession, SaveSession
    DEF ServeNext, RequestStep

(* A session at every step of a request has what that step needs, for any     *)
(* files, tsconfigs and bounds, with late notices and refused updates as well *)
(* (cli/serve.cc, ServeState::lint).                                       *)
THEOREM SessionTyped == ServeSpec => []ServeTypeOK
<1>1. SessionInv => ServeTypeOK
  BY DEF SessionInv
<1> QED BY <1>1, InitSession, StepSession, PTL DEF ServeSpec
-----------------------------------------------------------------------------
(* Nothing is asked of a session yet.                                      *)
LEMMA InitRequests == ServeInit => RequestInv
BY Sentinels DEF ServeInit, NoOptions, RequestInv, AllReported, KnowsConfig, KnowsTsconfigs, KeyIsTsconfig,
   SourceIsAsked, GraphHasFile, PayloadIsOfRequest, PastCache, PastRefresh

(* Between requests only what the session knows is left to show.            *)
LEMMA IdleKnows ==
  ASSUME stage' = "idle", KnowsConfig', KnowsTsconfigs'
  PROVE  RequestInv'
BY DEF RequestInv, AllReported, KeyIsTsconfig, SourceIsAsked, GraphHasFile, PayloadIsOfRequest,
       PastCache, PastRefresh

(* A change that is not reported yet is noticed as one (cli/serve.cc, the     *)
(* `changed` handler), and one that is drops what it made old.              *)
LEMMA WorldKeepsRequests ==
  ASSUME SessionInv, RequestInv,
         \/ \E q \in Path : EditFile(q)
         \/ EditConfig
         \/ \E p \in Project : EditTsconfig(p)
         \/ Changes
         \/ \E f \in Path : CloseFile(f)
  PROVE  RequestInv'
<1>1. stage' = "idle"
  BY DEF EditFile, EditConfig, EditTsconfig, Changes, CloseFile
<1>2. CASE (\E q \in Path : EditFile(q)) \/ \E f \in Path : CloseFile(f)
  <2>1. UNCHANGED <<watched, sessionVars>>
    BY <1>2 DEF EditFile, CloseFile
  <2>2. KnowsConfig' /\ KnowsTsconfigs'
    BY <2>1 DEF watched, sessionVars, RequestInv, KnowsConfig, KnowsTsconfigs
  <2> QED BY <1>1, <2>2, IdleKnows
<1>3. CASE EditConfig
  <2>1. configNotices' = TRUE /\ UNCHANGED <<tsconfig, tsNotices, options>>
    BY <1>3 DEF EditConfig, sessionVars
  <2>2. KnowsConfig' /\ KnowsTsconfigs'
    BY <2>1 DEF RequestInv, KnowsConfig, KnowsTsconfigs
  <2> QED BY <1>1, <2>2, IdleKnows
<1>4. ASSUME NEW p \in Project, EditTsconfig(p) PROVE RequestInv'
  <2>1. UNCHANGED <<config, configNotices, loaded, envHash, options>> /\ tsNotices' = tsNotices \cup {p}
    BY <1>4 DEF EditTsconfig, sessionVars
  <2>2. \A o \in Project \ {p} : tsconfig'[o] = tsconfig[o]
    BY <1>4 DEF EditTsconfig, SessionInv, ServeTypeOK, ServeFieldTypes
  <2>3. KnowsConfig' /\ KnowsTsconfigs'
    BY <2>1, <2>2 DEF RequestInv, KnowsConfig, KnowsTsconfigs
  <2> QED BY <1>1, <2>3, IdleKnows
<1>5. CASE Changes
  <2>1. UNCHANGED <<config, tsconfig>> /\ configNotices' = FALSE /\ tsNotices' = {}
    BY <1>5 DEF Changes
  <2>2. CASE configNotices \/ tsNotices \cap Opened # {}
    <3>1. loaded' = NoEnv /\ envHash' = NoEnv /\ options' = NoOptions
      BY <1>5, <2>2 DEF Changes, DropSession
    <3>2. KnowsConfig' /\ KnowsTsconfigs'
      BY <3>1 DEF KnowsConfig, KnowsTsconfigs, NoOptions
    <3> QED BY <1>1, <3>2, IdleKnows
  <2>3. CASE ~configNotices /\ tsNotices \cap Opened = {}
    <3>1. UNCHANGED <<loaded, envHash, options>>
      BY <1>5, <2>3 DEF Changes, sessionVars
    <3>2. \A p \in Project : p \in tsNotices => options[p] = NoRule
      BY <2>3 DEF Opened
    <3>3. KnowsConfig' /\ KnowsTsconfigs'
      BY <2>1, <2>3, <3>1, <3>2 DEF RequestInv, KnowsConfig, KnowsTsconfigs
    <3> QED BY <1>1, <3>3, IdleKnows
  <2> QED BY <2>2, <2>3
<1> QED BY <1>2, <1>3, <1>4, <1>5

(* The server dies without a word to the session.                          *)
LEMMA SilentlyKeepsRequests ==
  ASSUME RequestInv,
         UNCHANGED <<environment, watched, sessionVars, cacheVars, stage, requestVars, reply, requests>>
  PROVE  RequestInv'
BY DEF environment, watched, sessionVars, cacheVars, requestVars, RequestInv, AllReported, KnowsConfig,
       KnowsTsconfigs, KeyIsTsconfig, SourceIsAsked, GraphHasFile, PayloadIsOfRequest, EntryIsCurrent,
       proj, ready

(* A request is taken up when every change was reported.                   *)
LEMMA RequestKeepsRequests ==
  ASSUME ~LateNotices, SessionInv, RequestInv, NEW f \in Path, NEW text \in Content \cup {NoText},
         Request(f, text)
  PROVE  RequestInv'
<1>1. /\ notices' = {} /\ ~configNotices' /\ tsNotices' = {}
      /\ UNCHANGED <<disk, config, tsconfig, configNotices, tsNotices, envHash, options>>
      /\ loaded' \in {loaded, config}
  BY DEF Request, environment, watched
<1>2. KnowsConfig' /\ KnowsTsconfigs'
  BY <1>1 DEF RequestInv, KnowsConfig, KnowsTsconfigs
<1>3. CASE stage' = "idle"
  BY <1>2, <1>3, IdleKnows
<1>4. CASE stage' # "idle"
  <2>1. /\ stage' = "types" /\ file' = f /\ asked' = text
        /\ source' = IF text = NoText THEN disk[f] ELSE text
        /\ cacheable' = Cacheable(f, text)
    BY <1>4 DEF Request, Answer
  <2>2. cacheable' => disk[f] = source'
    BY <2>1 DEF Cacheable
  <2> QED BY <1>1, <1>2, <2>1, <2>2
      DEF RequestInv, AllReported, KeyIsTsconfig, SourceIsAsked, GraphHasFile, PayloadIsOfRequest,
          PastCache, PastRefresh
<1> QED BY <1>3, <1>4

(* The type server parses a tsconfig as it is now.                         *)
LEMMA TypesKeepRequests ==
  ASSUME SessionInv, RequestInv, StartTypes \/ AddProject \/ Route
  PROVE  RequestInv'
<1>1. /\ stage # "idle" /\ stage' \in {"project", "route", "cache"}
      /\ UNCHANGED <<environment, watched, loaded, envHash, file, asked, source, cacheable>>
      /\ options' = options \/ Parsed(proj)
  BY DEF StartTypes, AddProject, Route, Still, sessionVars, requestVars
<1>2. proj \in Project /\ options \in [Project -> Rule \cup {NoRule}]
  BY <1>1, UnderWay DEF SessionInv, ServeTypeOK, ServeFieldTypes
<1>3. KnowsTsconfigs'
  BY <1>1, <1>2 DEF RequestInv, KnowsTsconfigs, Parsed, watched
<1> QED BY <1>1, <1>3
    DEF environment, watched, RequestInv, AllReported, KnowsConfig, KeyIsTsconfig, SourceIsAsked,
        GraphHasFile, PayloadIsOfRequest, PastCache, PastRefresh

(* loadClosure reads the file in hand first, and never leaves an older entry  *)
(* of it behind.                                                           *)
LEMMA LoadsTheFile ==
  ASSUME SessionInv, RequestInv, Refresh
  PROVE  EntryIsCurrent'
<1>1. PICK q \in pending : graph' = loadedGraph(graph, disk, q)
  BY DEF Refresh
<1>2. stage = "refresh" /\ cacheable /\ UNCHANGED <<disk, file>>
  BY DEF Refresh, Still, environment, requestVars, SessionInv, ServeTypeOK
<1>3. disk[file] = source /\ source \in Content
  BY <1>2, UnderWay DEF RequestInv, SourceIsAsked
<1>4. isFile(disk, file)
  BY <1>3, ImportsAssumption DEF isFile
<1>5. entryOf(disk, disk[q]).contentHash = disk[q]
  BY DEF entryOf
<1>6. CASE q = file
  BY <1>1, <1>2, <1>4, <1>5, <1>6, ReadableAssumption DEF loadedGraph, CannotRead, AlreadyLoaded, setFile, EntryIsCurrent
<1>7. CASE q # file
  <2>1. EntryIsCurrent
    BY <1>1, <1>2, <1>7 DEF RequestInv, GraphHasFile
  <2> QED BY <1>1, <1>2, <1>7, <2>1 DEF loadedGraph, setFile, EntryIsCurrent
<1> QED BY <1>6, <1>7

(* The steps between the cache and the answer.                             *)
LEMMA CacheKeepsRequests ==
  ASSUME SessionInv, RequestInv, OpenCache \/ Refresh \/ Lint \/ Walk
  PROVE  RequestInv'
<1>1. /\ stage # "idle"
      /\ UNCHANGED <<environment, watched, loaded, options, file, asked, source, cacheable>>
  BY DEF OpenCache, Refresh, Lint, Walk, Still, sessionVars, requestVars
<1>2. proj \in Project /\ loaded # NoEnv
  BY <1>1, UnderWay
<1>3. AllReported' /\ KnowsTsconfigs' /\ SourceIsAsked'
  BY <1>1 DEF environment, watched, RequestInv, AllReported, KnowsTsconfigs, SourceIsAsked
<1>4. CASE OpenCache
  <2>1. /\ envHash' \in {config, envHash} /\ key' = tsconfig[proj]
        /\ stage' \in {"refresh", "lint"}
        /\ stage' = "refresh" => pending' = {file}
        /\ stage' = "lint" => ~(cacheable /\ envHash' # NoEnv)
    BY <1>4 DEF OpenCache
  <2>2. KnowsConfig' /\ KeyIsTsconfig'
    BY <1>1, <2>1 DEF watched, RequestInv, KnowsConfig, KeyIsTsconfig, proj
  <2>3. GraphHasFile' /\ PayloadIsOfRequest'
    BY <1>1, <2>1 DEF GraphHasFile, PayloadIsOfRequest, PastRefresh, ready
  <2> QED BY <1>3, <2>2, <2>3 DEF RequestInv
<1>5. CASE Refresh
  <2>1. stage = "refresh" /\ stage' \in {"refresh", "load"} /\ UNCHANGED <<envHash, key>>
    BY <1>5 DEF Refresh, sessionVars, requestVars
  <2>2. KnowsConfig' /\ KeyIsTsconfig'
    BY <1>1, <2>1 DEF watched, RequestInv, KnowsConfig, KeyIsTsconfig, proj, PastCache
  <2>3. GraphHasFile' /\ PayloadIsOfRequest'
    BY <1>5, <2>1, LoadsTheFile DEF GraphHasFile, PayloadIsOfRequest
  <2> QED BY <1>3, <2>2, <2>3 DEF RequestInv
<1>6. CASE Lint \/ Walk
  <2>1. /\ UNCHANGED <<envHash, graph, key>>
        /\ \/ stage = "lint" /\ stage' = "walk"
           \/ stage = "walk" /\ stage' = "save"
    <3>1. CASE Lint
      <4>1. stage = "lint" /\ stage' = "walk"
            /\ UNCHANGED <<sessionVars, cacheVars, file, asked, source, cacheable, key, payload, reply>>
        BY <3>1 DEF Lint
      <4> QED BY <4>1 DEF sessionVars, cacheVars
    <3>2. CASE Walk
      BY <3>2 DEF Walk, sessionVars, cacheVars
    <3> QED BY <1>6, <3>1, <3>2
  <2>2. KnowsConfig' /\ KeyIsTsconfig'
    BY <1>1, <2>1 DEF watched, RequestInv, KnowsConfig, KeyIsTsconfig, proj, PastCache
  <2>3. GraphHasFile'
    BY <1>1, <2>1 DEF environment, RequestInv, GraphHasFile, EntryIsCurrent, PastRefresh, ready
  <2>4. PayloadIsOfRequest'
    <3>1. CASE Lint
      BY <3>1 DEF Lint, PayloadIsOfRequest
    <3>2. CASE Walk
      <4> DEFINE rule == IF facts # NoFacts THEN options[proj] ELSE key
      <4>1. stage = "walk" /\ payload' = lintSource(program, file, source, loaded, rule, facts # NoFacts)
        BY <3>2 DEF Walk
      <4>2. rule = key
        <5>1. CASE facts # NoFacts
          <6>1. proj \in Opened
            BY <4>1, <5>1, WalkPayload
          <6>2. options[proj] = tsconfig[proj] /\ key = tsconfig[proj]
            BY <1>1, <1>2, <4>1, <6>1
            DEF RequestInv, AllReported, KnowsTsconfigs, KeyIsTsconfig, PastCache, Opened
          <6> QED BY <6>2
        <5>2. CASE facts = NoFacts
          BY <5>2
        <5> QED BY <5>1, <5>2
      <4> HIDE DEF rule
      <4>3. payload'.path = file /\ payload'.text = source /\ payload'.env = loaded /\ payload'.rule = key
        BY <4>1, <4>2 DEF lintSource
      <4> QED BY <1>1, <2>1, <4>3 DEF PayloadIsOfRequest
    <3> QED BY <1>6, <3>1, <3>2
  <2> QED BY <1>3, <2>2, <2>3, <2>4 DEF RequestInv
<1> QED BY <1>4, <1>5, <1>6

(* The lookup and the save.                                                *)
LEMMA AnswerKeepsRequests ==
  ASSUME SessionInv, RequestInv, Load \/ Save
  PROVE  RequestInv'
<1>1. UNCHANGED <<environment, watched, sessionVars, graph, pending>>
  BY DEF Load, Save, Still
<1>2. KnowsConfig' /\ KnowsTsconfigs'
  BY <1>1 DEF watched, sessionVars, RequestInv, KnowsConfig, KnowsTsconfigs
<1>3. CASE stage' = "idle"
  BY <1>2, <1>3, IdleKnows
<1>4. CASE stage' # "idle"
  <2>1. stage = "load" /\ stage' = "lint" /\ UNCHANGED requestVars
    BY <1>4 DEF Load, Save, Answer
  <2> QED BY <1>1, <1>2, <2>1
      DEF environment, watched, sessionVars, requestVars, RequestInv, AllReported, KeyIsTsconfig,
          SourceIsAsked, GraphHasFile, PayloadIsOfRequest, EntryIsCurrent, PastCache, PastRefresh, proj, ready
<1> QED BY <1>3, <1>4

LEMMA StepRequests ==
  ASSUME ~LateNotices, SessionInv, RequestInv, [ServeNext]_serveVars
  PROVE  RequestInv'
<1>1. CASE UNCHANGED serveVars \/ Dies
  BY <1>1, SilentlyKeepsRequests DEF serveVars, vars, Dies
<1> QED BY <1>1, WorldKeepsRequests, RequestKeepsRequests, TypesKeepRequests, CacheKeepsRequests,
           AnswerKeepsRequests DEF ServeNext, RequestStep
-----------------------------------------------------------------------------
(* A save whose record is stale drops every row of the file's older record.  *)
LEMMA SaveKeepsRecords ==
  ASSUME SessionInv, RequestInv, RowsMatchRecord, Save
  PROVE  RowsMatchRecord'
<1>1. CASE UNCHANGED <<rows, files>>
  BY <1>1 DEF RowsMatchRecord
<1>2. CASE cacheable /\ ready /\ ~degraded /\ file \in DOMAIN graph
  <2> DEFINE kept == IF Stale(files[file], Record)
                       THEN dropRuleResults(rows, files[file].contentHash)
                       ELSE rows
             new == [fileHash |-> Record.contentHash, closureHash |-> Record.closureHash,
                     rule |-> key, payload |-> payload]
  <2>1. /\ rows' = putRuleResult(kept, Record, key, payload)
        /\ files' = [files EXCEPT ![file] = Record]
        /\ stage = "save"
    BY <1>2 DEF Save, putFile
  <2>2. file \in Path /\ files \in [Path -> FileRecord \cup {NoRecord}] /\ rows \subseteq RuleRow
    BY <2>1, UnderWay DEF SessionInv, ServeTypeOK, ServeFieldTypes
  <2>3. /\ payload.path = file /\ payload.text = source /\ payload.env = loaded /\ payload.rule = key
    BY <2>1 DEF RequestInv, PayloadIsOfRequest
  <2>4. Record = [contentHash |-> graph[file].contentHash, closureHash |-> closureHash(graph, file),
                  tsconfigHash |-> envHash]
    BY DEF Record, recordFor
  <2>5. graph[file].contentHash = source
    BY <1>2, <2>1 DEF RequestInv, GraphHasFile, EntryIsCurrent, SourceIsAsked, PastRefresh
  <2>6. envHash = loaded
    BY <1>2, <2>1, UnderWay DEF ready, RequestInv, AllReported, KnowsConfig
  <2>7. /\ new.payload.text = new.fileHash /\ new.payload.rule = new.rule
        /\ files'[new.payload.path] = [contentHash |-> new.fileHash, closureHash |-> new.closureHash,
                                       tsconfigHash |-> new.payload.env]
    BY <2>1, <2>2, <2>3, <2>4, <2>5, <2>6
  <2>8. rows' \subseteq kept \cup {new}
    BY <2>1 DEF putRuleResult
  <2>9. ASSUME NEW r \in kept, r.payload.path = file
        PROVE  files[file] = Record
    <3>1. /\ r \in rows
          /\ files[file] = [contentHash |-> r.fileHash, closureHash |-> r.closureHash,
                            tsconfigHash |-> r.payload.env]
      BY <2>9, DroppedRows DEF RowsMatchRecord
    <3>2. files[file] # NoRecord
      <4>1. r.fileHash \in Content /\ r.closureHash \in Closure /\ r.payload.env \in Env
        BY <2>2, <3>1 DEF RuleRow, Payload
      <4>2. files[file] \in FileRecord
        BY <3>1, <4>1 DEF FileRecord
      <4> QED BY <4>2, Sentinels
    <3>3. ~Stale(files[file], Record)
      <4> SUFFICES ASSUME Stale(files[file], Record) PROVE FALSE
        OBVIOUS
      <4>1. r \in dropRuleResults(rows, files[file].contentHash)
        BY <2>9
      <4>2. r.fileHash # files[file].contentHash
        BY <4>1 DEF dropRuleResults
      <4> QED BY <3>1, <4>2
    <3> QED BY <3>2, <3>3 DEF Stale, Missing, Fresh
  <2>10. kept \subseteq rows
    BY DroppedRows
  <2> HIDE DEF kept, new
  <2>11. ASSUME NEW r \in kept
         PROVE  /\ r.payload.text = r.fileHash
                /\ r.payload.rule = r.rule
                /\ files'[r.payload.path] = [contentHash |-> r.fileHash, closureHash |-> r.closureHash,
                                             tsconfigHash |-> r.payload.env]
    <3>1. files'[r.payload.path] = files[r.payload.path]
      BY <2>1, <2>2, <2>9, <2>11
    <3> QED BY <2>10, <3>1 DEF RowsMatchRecord
  <2> QED BY <2>7, <2>8, <2>11 DEF RowsMatchRecord
<1> QED BY <1>1, <1>2 DEF Save

(* Nothing else adds a row or changes a record.                            *)
LEMMA StepRecords ==
  ASSUME SessionInv, RequestInv, RowsMatchRecord, [ServeNext]_serveVars
  PROVE  RowsMatchRecord'
<1>1. CASE Load
  <2>1. rows' \subseteq rows /\ files' = files
    BY <1>1, DroppedRows DEF Load
  <2> QED BY <2>1 DEF RowsMatchRecord
<1>2. CASE UNCHANGED <<rows, files>>
  BY <1>2 DEF RowsMatchRecord
<1>3. CASE ~Load /\ ~Save
  <2>1. CASE Changes
    BY <1>2, <2>1 DEF Changes, DropSession, cacheVars
  <2>2. CASE ~Changes
    BY <1>2, <1>3, <2>2 DEF ServeNext, RequestStep, EditFile, EditConfig, EditTsconfig, CloseFile, Dies,
       Request, StartTypes, AddProject, Route, OpenCache, Refresh, Lint, Walk, cacheVars, serveVars
  <2> QED BY <2>1, <2>2
<1> QED BY <1>1, <1>3, SaveKeepsRecords

(* When every change is reported before a request finds it, a stored row is   *)
(* the lint of the text and under the tsconfig of its key, and a record names *)
(* the configuration its rows were made with: an edit never poisons a record  *)
(* (cli/serve.cc; docs/vscode-extension.md, "The native serve mode").        *)
THEOREM RowsKeepTheirKey ==
  ASSUME ~LateNotices
  PROVE  ServeSpec => []RowsOfTheirKey
<1>1. ServeInit => SessionInv /\ RequestInv /\ RowsMatchRecord
  <2>1. ServeInit => RowsMatchRecord
    BY DEF ServeInit, RowsMatchRecord
  <2> QED BY <2>1, InitSession, InitRequests
<1>2. SessionInv /\ RequestInv /\ RowsMatchRecord /\ [ServeNext]_serveVars
        => SessionInv' /\ RequestInv' /\ RowsMatchRecord'
  BY StepSession, StepRequests, StepRecords
<1>3. RowsMatchRecord => RowsOfTheirKey
  <2> SUFFICES ASSUME RowsMatchRecord, NEW f \in Path, NEW k \in Rule,
                      NEW r \in ruleResult(rows, files[f], k), r.payload.path = f
               PROVE  r.payload.env = files[f].tsconfigHash
    BY DEF RowsMatchRecord, RowsOfTheirKey
  <2>1. files[f] = [contentHash |-> r.fileHash, closureHash |-> r.closureHash,
                    tsconfigHash |-> r.payload.env]
    BY DEF RowsMatchRecord, ruleResult
  <2> QED BY <2>1
<1> QED BY <1>1, <1>2, <1>3, PTL DEF ServeSpec
-----------------------------------------------------------------------------
(* loadClosure adds an entry of the disk at a time.                        *)
LEMMA StepGraph ==
  ASSUME SessionInv, graph \in GraphsRead, [ServeNext]_serveVars
  PROVE  graph' \in GraphsRead
<1>1. CASE graph' = graph
  BY <1>1
<1>2. CASE DropSession
  BY <1>2, EmptyGraphTyped DEF DropSession, GraphsRead
<1>3. CASE Refresh
  <2>1. PICK q \in pending : graph' = loadedGraph(graph, disk, q)
    BY <1>3 DEF Refresh
  <2>2. \/ graph' = graph
        \/ graph' = setFile(graph, q, entryOf(disk, disk[q])) /\ isFile(disk, q)
    BY <2>1 DEF loadedGraph, CannotRead
  <2>3. CASE graph' = setFile(graph, q, entryOf(disk, disk[q])) /\ isFile(disk, q)
    <3>1. disk \in Disk /\ q \in Path /\ graph \in Graph
      BY DEF SessionInv, ServeTypeOK, ServeFieldTypes, Scoped, TypeOK, FieldTypes
    <3>2. disk[q] \in Content
      BY <2>3, <3>1 DEF isFile, Disk
    <3>3. graph' \in Graph
      BY <2>3, <3>1, <3>2, EntryTyped, SetFileTyped
    <3>4. ASSUME NEW x \in DOMAIN graph'
          PROVE  \E d \in Disk : isFile(d, x) /\ graph'[x] = entryOf(d, d[x])
      <4>1. CASE x = q
        BY <2>3, <3>1, <3>4, <4>1 DEF setFile
      <4>2. CASE x # q
        <5>1. x \in DOMAIN graph /\ graph'[x] = graph[x]
          BY <2>3, <3>4, <4>2 DEF setFile
        <5> QED BY <5>1 DEF GraphsRead
      <4> QED BY <4>1, <4>2
    <3> QED BY <3>3, <3>4 DEF GraphsRead
  <2> QED BY <2>2, <2>3
<1>4. CASE ~Refresh /\ ~Changes
  BY <1>1, <1>4 DEF ServeNext, RequestStep, EditFile, EditConfig, EditTsconfig, CloseFile, Dies,
     Request, StartTypes, AddProject, Route, OpenCache, Load, Lint, Walk, Save, cacheVars, serveVars
<1>5. CASE Changes
  BY <1>1, <1>2, <1>5 DEF Changes, cacheVars
<1> QED BY <1>3, <1>4, <1>5

(* A row is filed under the key the session's graph gave its file.          *)
LEMMA StepRowsFromGraphs ==
  ASSUME SessionInv, RequestInv, KeyInv, [ServeNext]_serveVars
  PROVE  RowsFromGraphs'
<1> USE DEF KeyInv
<1>1. ASSUME rows' \subseteq rows PROVE RowsFromGraphs'
  BY <1>1 DEF RowsFromGraphs
<1>2. CASE Save
  <2>1. CASE cacheable /\ ready /\ ~degraded /\ file \in DOMAIN graph
    <3> DEFINE kept == IF Stale(files[file], Record)
                         THEN dropRuleResults(rows, files[file].contentHash)
                         ELSE rows
               new == [fileHash |-> Record.contentHash, closureHash |-> Record.closureHash,
                       rule |-> key, payload |-> payload]
    <3>1. rows' = putRuleResult(kept, Record, key, payload) /\ stage = "save"
      BY <1>2, <2>1 DEF Save
    <3>2. kept \subseteq rows
      BY DroppedRows
    <3>3. rows' \subseteq kept \cup {new}
      BY <3>1 DEF putRuleResult
    <3>4. payload.path = file
      BY <3>1 DEF RequestInv, PayloadIsOfRequest
    <3>5. new.payload.path \in DOMAIN graph /\ new.fileHash = graph[new.payload.path].contentHash
          /\ new.closureHash = closureHash(graph, new.payload.path)
      BY <2>1, <3>4 DEF Record, recordFor
    <3> HIDE DEF kept, new
    <3>6. \A r \in rows' : r \in rows \/ r = new
      BY <3>2, <3>3
    <3> QED BY <3>5, <3>6 DEF RowsFromGraphs
  <2>2. CASE UNCHANGED <<rows, files>>
    BY <1>1, <2>2
  <2> QED BY <1>2, <2>1, <2>2 DEF Save
<1>3. CASE Load
  BY <1>1, <1>3, DroppedRows DEF Load
<1>4. CASE Changes
  BY <1>1, <1>4 DEF Changes, DropSession, cacheVars
<1>5. CASE ~Changes /\ ~Load /\ ~Save
  BY <1>1, <1>5 DEF ServeNext, RequestStep, EditFile, EditConfig, EditTsconfig, CloseFile, Dies,
     Request, StartTypes, AddProject, Route, OpenCache, Refresh, Lint, Walk, cacheVars, serveVars
<1> QED BY <1>2, <1>3, <1>4, <1>5

(* What the request was told is what the session knows.                    *)
LEMMA RequestKnows ==
  ASSUME SessionInv, RequestInv, stage \in PastRefresh
  PROVE  /\ loaded = config /\ key = tsconfig[proj]
         /\ source = (IF asked = NoText THEN disk[file] ELSE asked)
         /\ ready => envHash = config
<1>1. stage # "idle" /\ stage \in PastCache
  BY DEF PastRefresh, PastCache
<1>2. loaded # NoEnv
  BY <1>1, UnderWay
<1> QED BY <1>1, <1>2 DEF RequestInv, AllReported, KnowsConfig, KeyIsTsconfig, SourceIsAsked, ready

(* A lint answers with its own payload.                                    *)
LEMMA SaveAnswers ==
  ASSUME SessionInv, RequestInv, Save
  PROVE  AnswerIsCurrent(reply'.payload)
<1>1. stage = "save" /\ reply' = Told(payload, FALSE)
  BY DEF Save, Answer
<1>2. reply'.payload = payload
  BY <1>1 DEF Told
<1>3. /\ loaded = config /\ key = tsconfig[proj]
      /\ source = (IF asked = NoText THEN disk[file] ELSE asked)
  BY <1>1, RequestKnows DEF PastRefresh
<1> QED BY <1>1, <1>2, <1>3 DEF RequestInv, PayloadIsOfRequest, AnswerIsCurrent

(* A hit replays the payload of the file asked about, for its text and its    *)
(* tsconfig, and its record vouches for the configuration.                  *)
LEMMA LoadAnswers ==
  ASSUME KeyTellsFile, SessionInv, RequestInv, RowsMatchRecord, KeyInv, Load, stage' = "idle"
  PROVE  AnswerIsCurrent(reply'.payload)
<1>1. stage = "load" /\ file \in DOMAIN graph /\ Fresh(files[file], Record)
  BY DEF Load
<1>2. PICK r \in ruleResult(rows, Record, key) : reply' = Told(r.payload, TRUE)
  BY DEF Load, Answer
<1>3. /\ r \in rows /\ r.fileHash = Record.contentHash /\ r.closureHash = Record.closureHash
      /\ r.rule = key
  BY <1>2 DEF ruleResult, SameKey
<1>4. /\ Record.contentHash = graph[file].contentHash /\ Record.closureHash = closureHash(graph, file)
      /\ Record.tsconfigHash = envHash
  BY DEF Record, recordFor
<1>5. cacheable /\ ready
  BY <1>1 DEF SessionInv, ServeTypeOK
<1>6. graph[file].contentHash = source
  BY <1>1, <1>5 DEF RequestInv, GraphHasFile, EntryIsCurrent, SourceIsAsked, PastRefresh
<1>7. /\ key = tsconfig[proj] /\ envHash = config
      /\ source = (IF asked = NoText THEN disk[file] ELSE asked)
  BY <1>1, <1>5, RequestKnows DEF PastRefresh
<1>8. r.payload.path = file
  <2>1. PICK g \in GraphsRead :
          /\ r.payload.path \in DOMAIN g
          /\ r.fileHash = g[r.payload.path].contentHash
          /\ r.closureHash = closureHash(g, r.payload.path)
    BY <1>3 DEF KeyInv, RowsFromGraphs
  <2> QED BY <1>1, <1>3, <1>4, <2>1 DEF KeyTellsFile, KeyInv
<1>9. /\ r.payload.text = r.fileHash /\ r.payload.rule = r.rule
      /\ files[r.payload.path] = [contentHash |-> r.fileHash, closureHash |-> r.closureHash,
                                  tsconfigHash |-> r.payload.env]
  BY <1>3 DEF RowsMatchRecord
<1>10. r.payload.env = config
  BY <1>1, <1>4, <1>7, <1>8, <1>9 DEF Fresh
<1>11. reply'.payload = r.payload
  BY <1>2 DEF Told
<1> QED BY <1>3, <1>4, <1>6, <1>7, <1>8, <1>9, <1>10, <1>11 DEF AnswerIsCurrent

(* What is answered, replayed or not, is for the file and the text asked      *)
(* about, under the configuration and the tsconfig as they are now, as long  *)
(* as changes are reported before a request and keys tell files apart        *)
(* (cli/serve.cc, ServeState::lint; docs/vscode-extension.md).              *)
THEOREM AnswersAreCurrent ==
  ASSUME ~LateNotices, KeyTellsFile
  PROVE  ServeSpec => RepliesCurrent
<1> DEFINE Inv == SessionInv /\ RequestInv /\ RowsMatchRecord /\ KeyInv
           Current == stage' = "idle" /\ stage \in {"load", "save"} => AnswerIsCurrent(reply'.payload)
<1>1. ServeInit => Inv
  <2>1. ServeInit => RowsMatchRecord /\ KeyInv
    BY EmptyGraphTyped DEF ServeInit, RowsMatchRecord, KeyInv, GraphsRead, RowsFromGraphs
  <2> QED BY <2>1, InitSession, InitRequests
<1>2. Inv /\ [ServeNext]_serveVars => Inv'
  BY StepSession, StepRequests, StepRecords, StepGraph, StepRowsFromGraphs DEF KeyInv
<1>3. Inv /\ [ServeNext]_serveVars => [Current]_serveVars
  <2> SUFFICES ASSUME Inv, ServeNext, stage' = "idle", stage \in {"load", "save"}
               PROVE  AnswerIsCurrent(reply'.payload)
    OBVIOUS
  <2>1. Load \/ Save
    BY DEF ServeNext, RequestStep, EditFile, EditConfig, EditTsconfig, Changes, CloseFile, Dies, Request,
           StartTypes, AddProject, Route, OpenCache, Refresh, Lint, Walk
  <2> QED BY <2>1, SaveAnswers, LoadAnswers
<1>4. RepliesCurrent <=> [][Current]_serveVars
  BY DEF RepliesCurrent
<1> HIDE DEF Inv, Current
<1> QED BY <1>1, <1>2, <1>3, <1>4, PTL DEF ServeSpec
=============================================================================
