----------------------------- MODULE LintCache -----------------------------
(***************************************************************************)
(* Runs of `lintrix lint` over one result store: the driver of             *)
(* cli/lint.cc with ResultCache of cli/run.cc, each SQLite statement that  *)
(* can meet another process a step of its own.  A run reads the imports of *)
(* its files into a graph when it opens the cache, then takes its files    *)
(* one by one: read, look up, replay or lint, look up again, store.        *)
(***************************************************************************)
EXTENDS LintService

CONSTANTS
  EditsDuringRun,     \* whether files may change while a run is under way
  ServerMayNotStart,  \* whether a run may find no type server
  ServerMayFail,      \* whether the type server may fail on one file
  MayCrash,           \* whether a run may be killed
  MaxEdits,           \* bound: changes to the disk
  MaxRuns,            \* bound: runs started
  NoFile              \* no file in hand

ASSUME LintAssumption ==
  /\ {EditsDuringRun, ServerMayNotStart, ServerMayFail, MayCrash} \subseteq BOOLEAN
  /\ MaxEdits \in Nat
  /\ MaxRuns \in Nat
  /\ NoRecord \notin FileRecord
  /\ NoRun \notin Run
  /\ NoAnswer \notin Payload
  /\ NoFile \notin Path

VARIABLES
  files,     \* [Path -> FileRecord or NoRecord]: the `files` table
  rows,      \* SUBSET RuleRow: the `rule_results` table
  lock,      \* the processes that hold SQLite's write lock: at most one
  pc,        \* [Proc -> where the run is]
  ready,     \* [Proc -> the run has a cache open]
  typesOpen, \* [Proc -> the run's type server is up]
  toRefresh, \* [Proc -> files whose closure is still to be loaded]
  pending,   \* [Proc -> loadClosure's work list]
  graph,     \* [Proc -> the run's ImportGraph]
  todo,      \* [Proc -> files still to be linted]
  file,      \* [Proc -> the file in hand, or NoFile]
  source,    \* [Proc -> its text, as read]
  old,       \* [Proc -> content hash of the stale record whose rows are to go]
  edits,     \* changes made to the disk so far
  runs       \* runs started so far

vars == <<disk, run, answer, files, rows, lock, pc, ready, typesOpen, toRefresh, pending,
          graph, todo, file, source, old, edits, runs>>

storeVars == <<files, rows, lock>>
runVars == <<run, ready, typesOpen, toRefresh, graph>>

Stage == {"idle", "open", "next", "load", "loadDrop", "replay", "lint", "save",
          "saveDrop", "begin", "commit"}

(* Stages with a file in hand, and stages with a result to store.          *)
InHand == {"load", "loadDrop", "replay", "lint", "save", "saveDrop", "begin", "commit"}
Saving == {"save", "saveDrop", "begin", "commit"}

(* Stages past a lookup that found the file in the graph. *)
Keyed == {"replay", "saveDrop", "begin", "commit"}

Goto(p, stage) == pc' = [pc EXCEPT ![p] = stage]

(* The record a lookup builds from the run's graph. *)
CurrentRecord(p) == recordFor(graph[p], file[p], run[p].env)

(* Turns to the next file. *)
NextFile(p) ==
  /\ Goto(p, "next")
  /\ file' = [file EXCEPT ![p] = NoFile]
  /\ source' = [source EXCEPT ![p] = Absent]

Init ==
  /\ ServiceInit
  /\ files = [q \in Path |-> NoRecord]
  /\ rows = {}
  /\ lock = {}
  /\ pc = [p \in Proc |-> "idle"]
  /\ ready = [p \in Proc |-> FALSE]
  /\ typesOpen = [p \in Proc |-> FALSE]
  /\ toRefresh = [p \in Proc |-> {}]
  /\ pending = [p \in Proc |-> {}]
  /\ graph = [p \in Proc |-> EmptyGraph]
  /\ todo = [p \in Proc |-> {}]
  /\ file = [p \in Proc |-> NoFile]
  /\ source = [p \in Proc |-> Absent]
  /\ old = [p \in Proc |-> Absent]
  /\ edits = 0
  /\ runs = 0
-----------------------------------------------------------------------------
(* Someone saves, creates or deletes one file. *)
Edit(q) ==
  /\ edits < MaxEdits
  /\ EditsDuringRun \/ \A p \in Proc : pc[p] = "idle"
  /\ \E c \in Content \cup {Absent} :
       /\ c # disk[q]
       /\ disk' = [disk EXCEPT ![q] = c]
  /\ edits' = edits + 1
  /\ UNCHANGED <<run, answer, storeVars, pc, ready, typesOpen, toRefresh, pending, graph,
                 todo, file, source, old, runs>>

(* A run starts over some of the files there are: its configuration is      *)
(* loaded, the type server started, and the store opened or given up.      *)
Start(p) ==
  /\ pc[p] = "idle"
  /\ runs < MaxRuns
  /\ \E asked \in Run,
        fs \in (SUBSET {q \in Path : isFile(disk, q)}) \ {{}},
        opened \in BOOLEAN,
        typed \in IF ServerMayNotStart THEN BOOLEAN ELSE {TRUE} :
       /\ run' = [run EXCEPT ![p] = asked]
       /\ ready' = [ready EXCEPT ![p] = opened]
       /\ typesOpen' = [typesOpen EXCEPT ![p] = typed]
       /\ toRefresh' = [toRefresh EXCEPT ![p] = IF opened THEN fs ELSE {}]
       /\ todo' = [todo EXCEPT ![p] = fs]
  /\ Goto(p, "open")
  /\ graph' = [graph EXCEPT ![p] = EmptyGraph]
  /\ runs' = runs + 1
  /\ UNCHANGED <<disk, answer, storeVars, pending, file, source, old, edits>>

(* ResultCache::open refreshes the next file: loadClosure's list starts     *)
(* with it alone.                                                          *)
Refresh(p) ==
  /\ pc[p] = "open"
  /\ pending[p] = {}
  /\ \E f \in toRefresh[p] :
       /\ pending' = [pending EXCEPT ![p] = {f}]
       /\ toRefresh' = [toRefresh EXCEPT ![p] = @ \ {f}]
  /\ UNCHANGED <<disk, run, answer, storeVars, pc, ready, typesOpen, graph, todo, file,
                 source, old, edits, runs>>

(* One turn of loadClosure: read, compare, parse, resolve. *)
LoadFile(p) ==
  /\ pc[p] = "open"
  /\ \E q \in pending[p] :
       /\ graph' = [graph EXCEPT ![p] = loadedGraph(@, disk, q)]
       /\ pending' = [pending EXCEPT ![p] = loadedPending(graph[p], disk, q, @)]
  /\ UNCHANGED <<disk, run, answer, storeVars, pc, ready, typesOpen, toRefresh, todo, file,
                 source, old, edits, runs>>

Opened(p) ==
  /\ pc[p] = "open"
  /\ pending[p] = {}
  /\ toRefresh[p] = {}
  /\ Goto(p, "next")
  /\ UNCHANGED <<disk, run, answer, storeVars, ready, typesOpen, toRefresh, pending, graph,
                 todo, file, source, old, edits, runs>>

(* The loop takes its next file and reads it; an unreadable one is skipped. *)
ReadFile(p) ==
  /\ pc[p] = "next"
  /\ \E f \in todo[p] :
       /\ todo' = [todo EXCEPT ![p] = @ \ {f}]
       /\ IF ~CannotRead(disk, f)
            THEN /\ file' = [file EXCEPT ![p] = f]
                 /\ source' = [source EXCEPT ![p] = disk[f]]
                 /\ Goto(p, IF ready[p] THEN "load" ELSE "lint")
            ELSE UNCHANGED <<file, source, pc>>
  /\ UNCHANGED <<disk, answer, storeVars, runVars, pending, old, edits, runs>>

(* FileCache::lookup's SELECT for load: a stale record sends the run on to  *)
(* drop the rows of the content that record names.                         *)
LoadLookup(p) ==
  /\ pc[p] = "load"
  /\ IF file[p] \notin DOMAIN graph[p]
       THEN Goto(p, "lint") /\ UNCHANGED old
       ELSE LET stored == files[file[p]] IN
            \/ Missing(stored) /\ Goto(p, "lint") /\ UNCHANGED old
            \/ Fresh(stored, CurrentRecord(p)) /\ Goto(p, "replay") /\ UNCHANGED old
            \/ /\ Stale(stored, CurrentRecord(p))
               /\ Goto(p, "loadDrop")
               /\ old' = [old EXCEPT ![p] = stored.contentHash]
  /\ UNCHANGED <<disk, answer, storeVars, runVars, pending, todo, file, source, edits, runs>>

(* The DELETE of a stale lookup commits by itself, or fails at once when    *)
(* another process is writing; load takes either for a miss.               *)
LoadDrop(p) ==
  /\ pc[p] = "loadDrop"
  /\ rows' = IF lock = {} THEN dropRuleResults(rows, old[p]) ELSE rows
  /\ Goto(p, "lint")
  /\ old' = [old EXCEPT ![p] = Absent]
  /\ UNCHANGED <<disk, answer, files, lock, runVars, pending, todo, file, source, edits,
                 runs>>

(* getRuleResult of a fresh file: the payload is the answer, or there is    *)
(* none and the file is linted after all.                                  *)
Replay(p) ==
  /\ pc[p] = "replay"
  /\ LET found == ruleResult(rows, CurrentRecord(p), run[p].rule) IN
       IF found = {}
         THEN Goto(p, "lint") /\ UNCHANGED <<answer, file, source>>
         ELSE /\ \E r \in found : answer' = [answer EXCEPT ![p] = r.payload]
              /\ NextFile(p)
  /\ UNCHANGED <<disk, storeVars, runVars, pending, todo, old, edits, runs>>

(* As Lint, but a result the type server failed on is stored like any other. *)
LintSavesFailed(p) ==
  /\ pc[p] = "lint"
  /\ \E failed \in IF ServerMayFail /\ typesOpen[p] THEN BOOLEAN ELSE {FALSE} :
       answer' = [answer EXCEPT
         ![p] = lintSource(disk, file[p], source[p], run[p].env, run[p].rule,
                           typesOpen[p] /\ ~failed)]
  /\ IF ready[p] THEN Goto(p, "save") /\ UNCHANGED <<file, source>> ELSE NextFile(p)
  /\ UNCHANGED <<disk, storeVars, runVars, pending, todo, old, edits, runs>>

(* lintSource answers.  A result the type server failed on is not stored;   *)
(* with no type server there is nothing to fail.                           *)
Lint(p) ==
  /\ pc[p] = "lint"
  /\ \E failed \in IF ServerMayFail /\ typesOpen[p] THEN BOOLEAN ELSE {FALSE} :
       /\ answer' = [answer EXCEPT
            ![p] = lintSource(disk, file[p], source[p], run[p].env, run[p].rule,
                              typesOpen[p] /\ ~failed)]
       /\ IF ready[p] /\ ~failed
            THEN Goto(p, "save") /\ UNCHANGED <<file, source>>
            ELSE NextFile(p)
  /\ UNCHANGED <<disk, storeVars, runVars, pending, todo, old, edits, runs>>

(* save looks the file up once more. *)
SaveLookup(p) ==
  /\ pc[p] = "save"
  /\ IF file[p] \notin DOMAIN graph[p]
       THEN NextFile(p) /\ UNCHANGED old
       ELSE LET stored == files[file[p]] IN
            /\ UNCHANGED <<file, source>>
            /\ IF Stale(stored, CurrentRecord(p))
                 THEN /\ Goto(p, "saveDrop")
                      /\ old' = [old EXCEPT ![p] = stored.contentHash]
                 ELSE Goto(p, "begin") /\ UNCHANGED old
  /\ UNCHANGED <<disk, answer, storeVars, runVars, pending, todo, edits, runs>>

(* Here a DELETE that fails gives the save up. *)
SaveDrop(p) ==
  /\ pc[p] = "saveDrop"
  /\ IF lock = {}
       THEN /\ rows' = dropRuleResults(rows, old[p])
            /\ Goto(p, "begin")
            /\ UNCHANGED <<file, source>>
       ELSE NextFile(p) /\ UNCHANGED rows
  /\ old' = [old EXCEPT ![p] = Absent]
  /\ UNCHANGED <<disk, answer, files, lock, runVars, pending, todo, edits, runs>>

(* BEGIN IMMEDIATE: no busy timeout is set, so a writer elsewhere fails it. *)
Begin(p) ==
  /\ pc[p] = "begin"
  /\ IF lock = {}
       THEN lock' = {p} /\ Goto(p, "commit") /\ UNCHANGED <<file, source>>
       ELSE NextFile(p) /\ UNCHANGED lock
  /\ UNCHANGED <<disk, answer, files, rows, runVars, pending, todo, old, edits, runs>>

(* The payload, the record and COMMIT: others see both or neither. *)
Commit(p) ==
  /\ pc[p] = "commit"
  /\ rows' = putRuleResult(rows, CurrentRecord(p), run[p].rule, answer[p])
  /\ files' = putFile(files, file[p], CurrentRecord(p))
  /\ lock' = {}
  /\ NextFile(p)
  /\ UNCHANGED <<disk, answer, runVars, pending, todo, old, edits, runs>>

(* A write fails inside the transaction. *)
Rollback(p) ==
  /\ pc[p] = "commit"
  /\ lock' = {}
  /\ NextFile(p)
  /\ UNCHANGED <<disk, answer, files, rows, runVars, pending, todo, old, edits, runs>>

(* What a process leaves when it is gone: SQLite rolls its transaction back. *)
Exit(p) ==
  /\ Goto(p, "idle")
  /\ run' = [run EXCEPT ![p] = NoRun]
  /\ answer' = [answer EXCEPT ![p] = NoAnswer]
  /\ ready' = [ready EXCEPT ![p] = FALSE]
  /\ typesOpen' = [typesOpen EXCEPT ![p] = FALSE]
  /\ toRefresh' = [toRefresh EXCEPT ![p] = {}]
  /\ pending' = [pending EXCEPT ![p] = {}]
  /\ graph' = [graph EXCEPT ![p] = EmptyGraph]
  /\ todo' = [todo EXCEPT ![p] = {}]
  /\ file' = [file EXCEPT ![p] = NoFile]
  /\ source' = [source EXCEPT ![p] = Absent]
  /\ old' = [old EXCEPT ![p] = Absent]
  /\ lock' = lock \ {p}
  /\ UNCHANGED <<disk, files, rows, edits, runs>>

Finish(p) ==
  /\ pc[p] = "next"
  /\ todo[p] = {}
  /\ Exit(p)

Crash(p) ==
  /\ MayCrash
  /\ pc[p] # "idle"
  /\ Exit(p)
-----------------------------------------------------------------------------
Step(p) ==
  \/ Refresh(p) \/ LoadFile(p) \/ Opened(p) \/ ReadFile(p)
  \/ LoadLookup(p) \/ LoadDrop(p) \/ Replay(p) \/ Lint(p)
  \/ SaveLookup(p) \/ SaveDrop(p) \/ Begin(p) \/ Commit(p) \/ Rollback(p)
  \/ Finish(p)

Next ==
  \/ \E q \in Path : Edit(q)
  \/ \E p \in Proc : Start(p) \/ Step(p) \/ Crash(p)

Spec == Init /\ [][Next]_vars

(* The operating system runs every process on; nobody has to start one.    *)
FairSpec == Spec /\ \A p \in Proc : WF_vars(Step(p))
-----------------------------------------------------------------------------
FieldTypes ==
  /\ disk \in Disk
  /\ run \in [Proc -> Run \cup {NoRun}]
  /\ answer \in [Proc -> Payload \cup {NoAnswer}]
  /\ files \in [Path -> FileRecord \cup {NoRecord}]
  /\ rows \subseteq RuleRow
  /\ lock \subseteq Proc
  /\ pc \in [Proc -> Stage]
  /\ ready \in [Proc -> BOOLEAN]
  /\ typesOpen \in [Proc -> BOOLEAN]
  /\ toRefresh \in [Proc -> SUBSET Path]
  /\ pending \in [Proc -> SUBSET Path]
  /\ graph \in [Proc -> Graph]
  /\ todo \in [Proc -> SUBSET Path]
  /\ file \in [Proc -> Path \cup {NoFile}]
  /\ source \in [Proc -> Content \cup {Absent}]
  /\ old \in [Proc -> Content \cup {Absent}]
  /\ edits \in 0..MaxEdits
  /\ runs \in 0..MaxRuns

(* What a run has at each stage. *)
StageHas(p) ==
  /\ pc[p] # "idle" => run[p] \in Run
  /\ pc[p] \in InHand => file[p] \in Path /\ source[p] \in Content
  /\ pc[p] \in Saving => answer[p] \in Payload /\ answer[p].path = file[p]
                         /\ (typesOpen[p] => answer[p].typed)
  /\ pc[p] \in Keyed => file[p] \in DOMAIN graph[p]

(* Types, with what each stage of a run needs: a run to have been asked for, *)
(* a file in hand and its text read, an answer to store that has the types  *)
(* the type server was there to give, a place in the graph to take the key  *)
(* from (cli/lint.cc, the loop over the files; cli/run.cc, load and save).  *)
TypeOK == FieldTypes /\ \A p \in Proc : StageHas(p)

(* The key a world would be filed under: its files, texts and unresolved    *)
(* names, without where the resolved ones lead.                            *)
KeyOf(world) == {<<w[1], w[2].contentHash, w[2].unresolved>> : w \in world}

(* A stored payload is the typed lint of exactly the text, the closure and  *)
(* the key its row is filed under.  The freshness test compares nothing    *)
(* but those, so a row that lied would be replayed.                        *)
RowsHonest ==
  \A r \in rows :
    /\ r.payload.typed
    /\ r.payload.text = r.fileHash
    /\ r.payload.rule = r.rule
    /\ KeyOf(r.payload.world) = r.closureHash

(* Between opening its cache and saving a result, a run's graph agrees with  *)
(* the disk and misses no file that was reached: what is about to be saved  *)
(* is the lint of the disk its key is computed from.                       *)
GraphAgrees(p) ==
  \A q \in DOMAIN graph[p] :
    /\ isFile(disk, q)
    /\ graph[p][q] = entryOf(disk, disk[q])
    /\ graph[p][q].imports \subseteq DOMAIN graph[p] \cup pending[p]

OnDisk(p) ==
  \A q \in pending[p] \cup toRefresh[p] \cup todo[p] : isFile(disk, q)

AtStage(p) ==
  /\ pc[p] = "idle" =>
       /\ DOMAIN graph[p] = {}
       /\ pending[p] \cup toRefresh[p] \cup todo[p] = {}
  /\ pc[p] # "idle" => typesOpen[p]
  /\ pc[p] # "open" => pending[p] = {}
  /\ pc[p] \in InHand => isFile(disk, file[p]) /\ source[p] = disk[file[p]]
  /\ pc[p] \in Saving =>
       answer[p] = lintSource(disk, file[p], source[p], run[p].env, run[p].rule, TRUE)

KnowsDisk(p) == GraphAgrees(p) /\ OnDisk(p) /\ AtStage(p)

RunsKnowTheDisk == \A p \in Proc : KnowsDisk(p)

(* Every row of a file was made with the content, closure and environment   *)
(* its record names: a record that turns fresh again can never bring back a *)
(* row made under another configuration.                                   *)
RowsMatchRecord ==
  \A r \in rows :
    files[r.payload.path] = [contentHash  |-> r.fileHash,
                             closureHash  |-> r.closureHash,
                             tsconfigHash |-> r.payload.env]

(* What a run answers was computed under the environment of that run.      *)
AnswersUnderOwnEnv ==
  \A p \in Proc : answer[p] # NoAnswer => answer[p].env = run[p].env

(* docs/rules.md, "Result cache": one payload per file.  A replay brings    *)
(* back the payload of the file in hand.                                   *)
ReplayIsOfFile ==
  [][\A p \in Proc :
       pc[p] = "replay" /\ pc'[p] = "next" => answer'[p].path = file[p]]_vars

(* docs/rules.md, "Result cache": a file the type server could not type is  *)
(* never cached.                                                           *)
UntypedNeverStored == \A r \in rows : r.payload.typed

(* The cache is invisible: with it, a run answers what a lint of the disk   *)
(* answers. `disk`, `run` and `answer` are the service's own variables.     *)
Transparent == ServiceSpec

(* Every run ends, whatever the other processes hold.                      *)
RunsEnd == \A p \in Proc : pc[p] # "idle" ~> pc[p] = "idle"
=============================================================================
