-------------------------- MODULE LintCacheProofs --------------------------
(***************************************************************************)
(* LintCache keeps its types, whatever happens.  When no file changes under *)
(* a run, the type server starts and no tsconfig has aliases, every stored  *)
(* row is the typed lint its key promises, and the cache as a whole is      *)
(* invisible: LintCache implements LintService.                             *)
(***************************************************************************)
EXTENDS LintCache, ImportGraphProofs

-----------------------------------------------------------------------------
(* Before the first run (ResultCache before open).                          *)
LEMMA InitTypes == Init => TypeOK
<1> SUFFICES ASSUME Init PROVE TypeOK
  OBVIOUS
<1> USE LintAssumption, ImportsAssumption, EmptyGraphTyped DEF Init, ServiceInit
<1>1. graph \in [Proc -> Graph]
  OBVIOUS
<1>2. edits \in 0..MaxEdits /\ runs \in 0..MaxRuns
  OBVIOUS
<1>3. rows \subseteq RuleRow /\ lock \subseteq Proc
  OBVIOUS
<1> QED BY <1>1, <1>2, <1>3 DEF TypeOK, FieldTypes, StageHas, Stage, InHand, Saving, Keyed

(* A step of one run leaves the others what they have.                     *)
LEMMA OthersHave ==
  ASSUME TypeOK, NEW p \in Proc,
         NEW x \in Proc \ {p},
         \A y \in Proc \ {p} :
           /\ pc'[y] = pc[y] /\ run'[y] = run[y] /\ answer'[y] = answer[y]
           /\ file'[y] = file[y] /\ source'[y] = source[y] /\ graph'[y] = graph[y]
           /\ typesOpen'[y] = typesOpen[y]
  PROVE  StageHas(x)'
BY DEF TypeOK, StageHas

(* A run that turns to its next file needs no file, text or answer.         *)
LEMMA NextFileTypes ==
  ASSUME TypeOK, NEW p \in Proc, pc[p] # "idle", NextFile(p), UNCHANGED <<run, graph, typesOpen>>,
         \A y \in Proc \ {p} : answer'[y] = answer[y]
  PROVE  /\ pc' \in [Proc -> Stage]
         /\ file' \in [Proc -> Path \cup {NoFile}]
         /\ source' \in [Proc -> Content \cup {Absent}]
         /\ \A x \in Proc : StageHas(x)'
<1> USE DEF NextFile, Goto
<1>1. pc' \in [Proc -> Stage]
  BY DEF TypeOK, FieldTypes, Stage
<1>2. file' \in [Proc -> Path \cup {NoFile}] /\ source' \in [Proc -> Content \cup {Absent}]
  BY DEF TypeOK, FieldTypes
<1>3. StageHas(p)'
  BY DEF TypeOK, FieldTypes, StageHas, InHand, Saving, Keyed
<1>4. \A x \in Proc \ {p} : StageHas(x)'
  <2>1. \A y \in Proc \ {p} :
           /\ pc'[y] = pc[y] /\ run'[y] = run[y] /\ answer'[y] = answer[y]
           /\ file'[y] = file[y] /\ source'[y] = source[y] /\ graph'[y] = graph[y]
           /\ typesOpen'[y] = typesOpen[y]
    BY DEF TypeOK, FieldTypes
  <2> QED BY <2>1, OthersHave
<1> QED BY <1>1, <1>2, <1>3, <1>4

(* So does one that moves on to another stage with what it has in hand.     *)
LEMMA GotoTypes ==
  ASSUME TypeOK, NEW p \in Proc, NEW stage \in Stage, Goto(p, stage), pc[p] # "idle",
         UNCHANGED <<run, file, source, graph, typesOpen>>,
         \A y \in Proc \ {p} : answer'[y] = answer[y],
         stage \in InHand => pc[p] \in InHand,
         stage \in Saving => /\ answer'[p] \in Payload /\ answer'[p].path = file[p]
                             /\ typesOpen[p] => answer'[p].typed,
         stage \in Keyed => file[p] \in DOMAIN graph[p]
  PROVE  /\ pc' \in [Proc -> Stage]
         /\ \A x \in Proc : StageHas(x)'
<1> USE DEF Goto
<1>1. pc' \in [Proc -> Stage]
  BY DEF TypeOK, FieldTypes, Stage
<1>2. pc'[p] = stage
  BY DEF TypeOK, FieldTypes
<1>3. StageHas(p)'
  BY <1>2 DEF TypeOK, StageHas
<1>4. \A x \in Proc \ {p} : StageHas(x)'
  <2>1. \A y \in Proc \ {p} :
           /\ pc'[y] = pc[y] /\ run'[y] = run[y] /\ answer'[y] = answer[y]
           /\ file'[y] = file[y] /\ source'[y] = source[y] /\ graph'[y] = graph[y]
           /\ typesOpen'[y] = typesOpen[y]
    BY DEF TypeOK, FieldTypes
  <2> QED BY <2>1, OthersHave
<1> QED BY <1>1, <1>3, <1>4

(* One step per action.  The stages of a run promise it a file, a text and  *)
(* an answer, so every action that moves a run re-establishes that promise. *)
LEMMA StepTypes == TypeOK /\ [Next]_vars => TypeOK'
<1> SUFFICES ASSUME TypeOK, [Next]_vars PROVE TypeOK'
  OBVIOUS
<1> USE LintAssumption
<1>1. ASSUME NEW q \in Path, Edit(q) PROVE TypeOK'
  <2>1. disk' \in Disk
    BY <1>1 DEF TypeOK, FieldTypes, Edit, Disk
  <2>2. edits' \in 0..MaxEdits
    BY <1>1 DEF TypeOK, FieldTypes, Edit
  <2>3. FieldTypes'
    BY <1>1, <2>1, <2>2 DEF TypeOK, FieldTypes, Edit, storeVars
  <2> QED BY <1>1, <2>3 DEF TypeOK, Edit, StageHas
<1>2. ASSUME NEW p \in Proc, Start(p) PROVE TypeOK'
  <2>1. PICK asked \in Run, fs \in SUBSET Path, opened \in BOOLEAN, typed \in BOOLEAN :
          /\ run' = [run EXCEPT ![p] = asked]
          /\ ready' = [ready EXCEPT ![p] = opened]
          /\ typesOpen' = [typesOpen EXCEPT ![p] = typed]
          /\ toRefresh' = [toRefresh EXCEPT ![p] = IF opened THEN fs ELSE {}]
          /\ todo' = [todo EXCEPT ![p] = fs]
    BY <1>2 DEF Start
  <2>2. runs' \in 0..MaxRuns
    BY <1>2 DEF TypeOK, FieldTypes, Start
  <2>3. graph' \in [Proc -> Graph]
    BY <1>2, EmptyGraphTyped DEF TypeOK, FieldTypes, Start
  <2>4. /\ run' \in [Proc -> Run \cup {NoRun}] /\ ready' \in [Proc -> BOOLEAN]
        /\ typesOpen' \in [Proc -> BOOLEAN] /\ toRefresh' \in [Proc -> SUBSET Path]
        /\ todo' \in [Proc -> SUBSET Path]
    BY <2>1 DEF TypeOK, FieldTypes
  <2>5. pc' = [pc EXCEPT ![p] = "open"] /\ UNCHANGED <<file, source, answer>>
    BY <1>2 DEF Start, Goto
  <2>6. pc' \in [Proc -> Stage]
    BY <2>5 DEF TypeOK, FieldTypes, Stage
  <2>7. FieldTypes'
    BY <1>2, <2>2, <2>3, <2>4, <2>6 DEF TypeOK, FieldTypes, Start, storeVars
  <2>8. StageHas(p)'
    BY <2>1, <2>5 DEF TypeOK, FieldTypes, StageHas, InHand, Saving, Keyed
  <2>9. \A y \in Proc \ {p} :
           /\ pc'[y] = pc[y] /\ run'[y] = run[y] /\ answer'[y] = answer[y]
           /\ file'[y] = file[y] /\ source'[y] = source[y] /\ graph'[y] = graph[y]
           /\ typesOpen'[y] = typesOpen[y]
    BY <1>2, <2>1, <2>5 DEF Start, TypeOK, FieldTypes
  <2> QED BY <2>7, <2>8, <2>9, OthersHave DEF TypeOK
<1>3. ASSUME NEW p \in Proc, Refresh(p) PROVE TypeOK'
  <2>1. FieldTypes'
    BY <1>3 DEF TypeOK, FieldTypes, Refresh, storeVars
  <2> QED BY <1>3, <2>1 DEF TypeOK, Refresh, StageHas
<1>4. ASSUME NEW p \in Proc, LoadFile(p) PROVE TypeOK'
  <2>1. PICK q \in pending[p] :
          /\ graph' = [graph EXCEPT ![p] = loadedGraph(graph[p], disk, q)]
          /\ pending' = [pending EXCEPT ![p] = loadedPending(graph[p], disk, q, pending[p])]
    BY <1>4 DEF LoadFile, TypeOK, FieldTypes
  <2>2. /\ loadedGraph(graph[p], disk, q) \in Graph
        /\ loadedPending(graph[p], disk, q, pending[p]) \in SUBSET Path
    BY LoadTyped DEF TypeOK, FieldTypes
  <2>3. graph' \in [Proc -> Graph] /\ pending' \in [Proc -> SUBSET Path]
    BY <2>1, <2>2 DEF TypeOK, FieldTypes
  <2>4. FieldTypes'
    BY <1>4, <2>3 DEF TypeOK, FieldTypes, LoadFile, storeVars
  <2>5. \A x \in Proc : pc[x] = "open" \/ graph'[x] = graph[x]
    BY <1>4, <2>1 DEF TypeOK, FieldTypes, LoadFile
  <2> QED BY <1>4, <2>4, <2>5 DEF TypeOK, LoadFile, StageHas, InHand, Saving, Keyed
<1>5. ASSUME NEW p \in Proc, Opened(p) PROVE TypeOK'
  <2>1. pc' \in [Proc -> Stage] /\ \A x \in Proc : StageHas(x)'
    <3>1. "next" \in Stage \ (InHand \cup Saving \cup Keyed)
      BY DEF Stage, InHand, Saving, Keyed
    <3> QED BY <1>5, <3>1, GotoTypes DEF Opened
  <2> QED BY <1>5, <2>1 DEF TypeOK, FieldTypes, Opened, storeVars
<1>6. ASSUME NEW p \in Proc, ReadFile(p) PROVE TypeOK'
  <2>1. PICK f \in todo[p] :
          /\ todo' = [todo EXCEPT ![p] = todo[p] \ {f}]
          /\ IF ~CannotRead(disk, f)
               THEN /\ file' = [file EXCEPT ![p] = f]
                    /\ source' = [source EXCEPT ![p] = disk[f]]
                    /\ Goto(p, IF ready[p] THEN "load" ELSE "lint")
               ELSE UNCHANGED <<file, source, pc>>
    BY <1>6 DEF ReadFile, TypeOK, FieldTypes
  <2>2. f \in Path
    BY DEF TypeOK, FieldTypes
  <2>3. todo' \in [Proc -> SUBSET Path]
    BY <2>1 DEF TypeOK, FieldTypes
  <2>4. CASE ~CannotRead(disk, f)
    <3>1. disk[f] \in Content
      BY <2>2, <2>4 DEF CannotRead, isFile, Disk, TypeOK, FieldTypes
    <3>2. PICK stage \in {"load", "lint"} : pc' = [pc EXCEPT ![p] = stage]
      BY <2>1, <2>4 DEF Goto
    <3>3. file' = [file EXCEPT ![p] = f] /\ source' = [source EXCEPT ![p] = disk[f]]
      BY <2>1, <2>4
    <3>4. pc' \in [Proc -> Stage]
      BY <3>2 DEF TypeOK, FieldTypes, Stage
    <3>5. FieldTypes'
      BY <1>6, <2>2, <2>3, <3>1, <3>3, <3>4 DEF TypeOK, FieldTypes, ReadFile, storeVars, runVars
    <3>6. StageHas(p)'
      BY <1>6, <2>2, <3>1, <3>2, <3>3
      DEF TypeOK, FieldTypes, StageHas, ReadFile, runVars, InHand, Saving, Keyed
    <3>7. \A y \in Proc \ {p} :
             /\ pc'[y] = pc[y] /\ run'[y] = run[y] /\ answer'[y] = answer[y]
             /\ file'[y] = file[y] /\ source'[y] = source[y] /\ graph'[y] = graph[y]
             /\ typesOpen'[y] = typesOpen[y]
      BY <1>6, <3>2, <3>3 DEF TypeOK, FieldTypes, ReadFile, runVars
    <3> QED BY <3>5, <3>6, <3>7, OthersHave DEF TypeOK
  <2>5. CASE CannotRead(disk, f)
    <3>1. FieldTypes'
      BY <1>6, <2>1, <2>3, <2>5 DEF TypeOK, FieldTypes, ReadFile, storeVars, runVars
    <3> QED BY <1>6, <2>1, <2>5, <3>1 DEF TypeOK, ReadFile, StageHas, runVars
  <2> QED BY <2>4, <2>5
<1>7. ASSUME NEW p \in Proc, LoadLookup(p) PROVE TypeOK'
  <2>1. old' \in [Proc -> Content \cup {Absent}]
    <3>1. file[p] \in Path
      BY <1>7 DEF LoadLookup, TypeOK, StageHas, InHand
    <3>2. files[file[p]] # NoRecord => files[file[p]].contentHash \in Content
      BY <3>1 DEF TypeOK, FieldTypes, FileRecord
    <3> QED BY <1>7, <3>2 DEF TypeOK, FieldTypes, LoadLookup, Stale, Missing
  <2>2. PICK stage \in {"lint", "replay", "loadDrop"} :
          Goto(p, stage) /\ (stage = "replay" => file[p] \in DOMAIN graph[p])
    BY <1>7 DEF LoadLookup
  <2>3. pc' \in [Proc -> Stage] /\ \A x \in Proc : StageHas(x)'
    <3>1. stage \in Stage \ Saving /\ (stage \in Keyed => stage = "replay") /\ pc[p] \in InHand
      BY <1>7 DEF LoadLookup, Stage, Saving, Keyed, InHand
    <3> QED BY <1>7, <2>2, <3>1, GotoTypes DEF LoadLookup, runVars
  <2> QED BY <1>7, <2>1, <2>3 DEF TypeOK, FieldTypes, LoadLookup, storeVars, runVars
<1>8. ASSUME NEW p \in Proc, LoadDrop(p) PROVE TypeOK'
  <2>1. rows' \subseteq RuleRow
    BY <1>8 DEF TypeOK, FieldTypes, LoadDrop, dropRuleResults
  <2>2. pc' \in [Proc -> Stage] /\ \A x \in Proc : StageHas(x)'
    <3>1. "lint" \in Stage \ (Saving \cup Keyed) /\ pc[p] \in InHand
      BY <1>8 DEF LoadDrop, Stage, Saving, Keyed, InHand
    <3> QED BY <1>8, <3>1, GotoTypes DEF LoadDrop, runVars
  <2> QED BY <1>8, <2>1, <2>2 DEF TypeOK, FieldTypes, LoadDrop, runVars
<1>9. ASSUME NEW p \in Proc, Replay(p) PROVE TypeOK'
  <2> DEFINE found == ruleResult(rows, CurrentRecord(p), run[p].rule)
  <2>1. \A r \in found : r.payload \in Payload
    BY DEF TypeOK, FieldTypes, ruleResult, RuleRow
  <2>2. CASE found = {}
    <3>1. pc' \in [Proc -> Stage] /\ \A x \in Proc : StageHas(x)'
      <4>1. "lint" \in Stage \ (Saving \cup Keyed) /\ pc[p] \in InHand
        BY <1>9 DEF Replay, Stage, Saving, Keyed, InHand
      <4> QED BY <1>9, <2>2, <4>1, GotoTypes DEF Replay, runVars
    <3> QED BY <1>9, <2>2, <3>1 DEF TypeOK, FieldTypes, Replay, storeVars, runVars
  <2>3. CASE found # {}
    <3>1. PICK r \in found : answer' = [answer EXCEPT ![p] = r.payload]
      BY <1>9, <2>3 DEF Replay
    <3>2. /\ NextFile(p) /\ pc[p] = "replay"
          /\ UNCHANGED <<disk, storeVars, runVars, pending, todo, old, edits, runs>>
      BY <1>9, <2>3 DEF Replay
    <3> HIDE DEF found
    <3>3. /\ answer' \in [Proc -> Payload \cup {NoAnswer}]
          /\ \A y \in Proc \ {p} : answer'[y] = answer[y]
      BY <2>1, <3>1 DEF TypeOK, FieldTypes
    <3> QED BY <3>2, <3>3, NextFileTypes DEF TypeOK, FieldTypes, storeVars, runVars
  <2> QED BY <2>2, <2>3
<1>10. ASSUME NEW p \in Proc, Lint(p) PROVE TypeOK'
  <2>1. PICK failed \in BOOLEAN :
          /\ answer' = [answer EXCEPT
               ![p] = lintSource(disk, file[p], source[p], run[p].env, run[p].rule,
                                 typesOpen[p] /\ ~failed)]
          /\ IF ready[p] /\ ~failed
               THEN Goto(p, "save") /\ UNCHANGED <<file, source>>
               ELSE NextFile(p)
    BY <1>10 DEF Lint
  <2>2. /\ file[p] \in Path /\ source[p] \in Content /\ disk \in Disk
        /\ run[p].env \in Env /\ run[p].rule \in Rule /\ (typesOpen[p] /\ ~failed) \in BOOLEAN
    BY <1>10 DEF Lint, TypeOK, FieldTypes, StageHas, InHand, Run
  <2> DEFINE pl == lintSource(disk, file[p], source[p], run[p].env, run[p].rule,
                              typesOpen[p] /\ ~failed)
  <2>3. pl \in Payload /\ pl.path = file[p] /\ pl.typed = (typesOpen[p] /\ ~failed)
    <3> DEFINE typed == typesOpen[p] /\ ~failed
    <3>1. typed \in BOOLEAN
      BY <2>2
    <3>2. pl = lintSource(disk, file[p], source[p], run[p].env, run[p].rule, typed)
      OBVIOUS
    <3>3. pl.typed = typed
      BY <3>2 DEF lintSource
    <3> HIDE DEF pl, typed
    <3>4. pl \in Payload /\ pl.path = file[p]
      BY <2>2, <3>1, <3>2, LintTyped
    <3> QED BY <3>3, <3>4 DEF typed
  <2>4. answer' = [answer EXCEPT ![p] = pl]
    BY <2>1
  <2> HIDE DEF pl
  <2>5. /\ answer' \in [Proc -> Payload \cup {NoAnswer}]
        /\ answer'[p] \in Payload /\ answer'[p].path = file[p]
        /\ answer'[p].typed = (typesOpen[p] /\ ~failed)
        /\ \A y \in Proc \ {p} : answer'[y] = answer[y]
    BY <2>3, <2>4 DEF TypeOK, FieldTypes
  <2>6. CASE ~failed /\ Goto(p, "save") /\ UNCHANGED <<file, source>>
    <3>1. "save" \in Stage \ Keyed /\ pc[p] \in InHand
      BY <1>10 DEF Lint, Stage, Keyed, InHand
    <3>2. pc' \in [Proc -> Stage] /\ \A x \in Proc : StageHas(x)'
      BY <1>10, <2>5, <2>6, <3>1, GotoTypes DEF Lint, runVars
    <3> QED BY <1>10, <2>5, <2>6, <3>2 DEF TypeOK, FieldTypes, Lint, storeVars, runVars
  <2>7. CASE NextFile(p)
    BY <1>10, <2>5, <2>7, NextFileTypes DEF TypeOK, FieldTypes, Lint, storeVars, runVars
  <2> QED BY <2>1, <2>6, <2>7
<1>11. ASSUME NEW p \in Proc, SaveLookup(p) PROVE TypeOK'
  <2>1. CASE file[p] \notin DOMAIN graph[p]
    BY <1>11, <2>1, NextFileTypes DEF TypeOK, FieldTypes, SaveLookup, storeVars, runVars
  <2>2. CASE file[p] \in DOMAIN graph[p]
    <3>1. file[p] \in Path
      BY <1>11 DEF SaveLookup, TypeOK, StageHas, InHand
    <3>2. files[file[p]] # NoRecord => files[file[p]].contentHash \in Content
      BY <3>1 DEF TypeOK, FieldTypes, FileRecord
    <3>3. old' \in [Proc -> Content \cup {Absent}]
      BY <1>11, <2>2, <3>2 DEF TypeOK, FieldTypes, SaveLookup, Stale, Missing
    <3>4. PICK stage \in {"saveDrop", "begin"} : Goto(p, stage)
      BY <1>11, <2>2 DEF SaveLookup
    <3>5. UNCHANGED <<file, source, answer, run, graph, typesOpen>>
      BY <1>11, <2>2 DEF SaveLookup, runVars
    <3>6. /\ stage \in Stage /\ pc[p] \in InHand /\ answer[p] \in Payload
          /\ answer[p].path = file[p] /\ (typesOpen[p] => answer[p].typed)
      BY <1>11 DEF SaveLookup, Stage, Saving, InHand, TypeOK, StageHas
    <3>7. pc' \in [Proc -> Stage] /\ \A x \in Proc : StageHas(x)'
      BY <1>11, <2>2, <3>4, <3>5, <3>6, GotoTypes DEF SaveLookup
    <3> QED BY <1>11, <3>3, <3>5, <3>7 DEF TypeOK, FieldTypes, SaveLookup, storeVars, runVars
  <2> QED BY <2>1, <2>2
<1>12. ASSUME NEW p \in Proc, SaveDrop(p) PROVE TypeOK'
  <2>1. rows' \subseteq RuleRow
    BY <1>12 DEF TypeOK, FieldTypes, SaveDrop, dropRuleResults
  <2>2. /\ pc[p] \in InHand /\ answer[p] \in Payload /\ file[p] \in DOMAIN graph[p]
        /\ answer[p].path = file[p] /\ (typesOpen[p] => answer[p].typed)
        /\ "begin" \in Stage
    BY <1>12 DEF SaveDrop, Stage, Saving, Keyed, InHand, TypeOK, StageHas
  <2>3. CASE lock = {}
    <3>1. pc' \in [Proc -> Stage] /\ \A x \in Proc : StageHas(x)'
      BY <1>12, <2>2, <2>3, GotoTypes DEF SaveDrop, runVars
    <3> QED BY <1>12, <2>1, <2>3, <3>1 DEF TypeOK, FieldTypes, SaveDrop, runVars
  <2>4. CASE lock # {}
    BY <1>12, <2>1, <2>4, NextFileTypes DEF TypeOK, FieldTypes, SaveDrop, runVars
  <2> QED BY <2>3, <2>4
<1>13. ASSUME NEW p \in Proc, Begin(p) PROVE TypeOK'
  <2>1. /\ pc[p] \in InHand /\ answer[p] \in Payload /\ file[p] \in DOMAIN graph[p]
        /\ answer[p].path = file[p] /\ (typesOpen[p] => answer[p].typed)
        /\ "commit" \in Stage
    BY <1>13 DEF Begin, Stage, Saving, Keyed, InHand, TypeOK, StageHas
  <2>2. CASE lock = {}
    <3>1. pc' \in [Proc -> Stage] /\ \A x \in Proc : StageHas(x)'
      BY <1>13, <2>1, <2>2, GotoTypes DEF Begin, runVars
    <3> QED BY <1>13, <2>2, <3>1 DEF TypeOK, FieldTypes, Begin, runVars
  <2>3. CASE lock # {}
    BY <1>13, <2>3, NextFileTypes DEF TypeOK, FieldTypes, Begin, runVars
  <2> QED BY <2>2, <2>3
<1>14. ASSUME NEW p \in Proc, Commit(p) PROVE TypeOK'
  <2>1. /\ file[p] \in DOMAIN graph[p] /\ file[p] \in Path /\ graph[p] \in Graph
        /\ run[p].env \in Env /\ run[p].rule \in Rule /\ answer[p] \in Payload
    BY <1>14 DEF Commit, TypeOK, FieldTypes, StageHas, InHand, Saving, Keyed, Run
  <2>2. CurrentRecord(p) \in FileRecord
    BY <2>1, RecordTyped DEF CurrentRecord
  <2>3. rows' \subseteq RuleRow
    BY <1>14, <2>1, <2>2, RowsTyped DEF Commit, TypeOK, FieldTypes
  <2>4. files' \in [Path -> FileRecord \cup {NoRecord}]
    BY <1>14, <2>2 DEF Commit, TypeOK, FieldTypes, putFile
  <2> QED BY <1>14, <2>3, <2>4, NextFileTypes DEF TypeOK, FieldTypes, Commit, runVars
<1>15. ASSUME NEW p \in Proc, Rollback(p) PROVE TypeOK'
  BY <1>15, NextFileTypes DEF TypeOK, FieldTypes, Rollback, runVars
<1>16. ASSUME NEW p \in Proc, Exit(p) PROVE TypeOK'
  <2>1. graph' \in [Proc -> Graph]
    BY <1>16, EmptyGraphTyped DEF TypeOK, FieldTypes, Exit
  <2>2. pc' \in [Proc -> Stage] /\ pc'[p] = "idle"
    BY <1>16 DEF TypeOK, FieldTypes, Exit, Goto, Stage
  <2>3. FieldTypes'
    BY <1>16, <2>1, <2>2 DEF TypeOK, FieldTypes, Exit
  <2>4. StageHas(p)'
    BY <2>2 DEF StageHas, InHand, Saving, Keyed
  <2>5. \A y \in Proc \ {p} :
           /\ pc'[y] = pc[y] /\ run'[y] = run[y] /\ answer'[y] = answer[y]
           /\ file'[y] = file[y] /\ source'[y] = source[y] /\ graph'[y] = graph[y]
           /\ typesOpen'[y] = typesOpen[y]
    BY <1>16 DEF TypeOK, FieldTypes, Exit, Goto
  <2> QED BY <2>3, <2>4, <2>5, OthersHave DEF TypeOK
<1>17. CASE UNCHANGED vars
  <2>1. FieldTypes'
    BY <1>17 DEF TypeOK, FieldTypes, vars
  <2> QED BY <1>17, <2>1 DEF TypeOK, StageHas, vars
<1> QED BY <1>1, <1>2, <1>3, <1>4, <1>5, <1>6, <1>7, <1>8, <1>9, <1>10, <1>11, <1>12, <1>13,
           <1>14, <1>15, <1>16, <1>17 DEF Next, Step, Finish, Crash

(* Types hold in every run of the program (cli/lint.cc, cli/run.cc).        *)
THEOREM TypeCorrect == Spec => []TypeOK
BY InitTypes, StepTypes, PTL DEF Spec
-----------------------------------------------------------------------------
(* What a run does to the state of the others, and to the disk: nothing.    *)
Untouched(y) ==
  /\ pc'[y] = pc[y] /\ run'[y] = run[y] /\ answer'[y] = answer[y] /\ typesOpen'[y] = typesOpen[y]
  /\ file'[y] = file[y] /\ source'[y] = source[y] /\ graph'[y] = graph[y]
  /\ pending'[y] = pending[y] /\ toRefresh'[y] = toRefresh[y] /\ todo'[y] = todo[y]

(* Processes share nothing but the store (cli/run.cc, ResultCache).         *)
LEMMA OthersUntouched ==
  ASSUME TypeOK, NEW p \in Proc, Start(p) \/ Step(p) \/ Crash(p)
  PROVE  disk' = disk /\ \A y \in Proc \ {p} : Untouched(y)
<1> USE DEF TypeOK, FieldTypes, Untouched, Goto, NextFile, storeVars, runVars
<1>1. CASE Start(p)
  BY <1>1 DEF Start
<1>2. CASE Refresh(p)
  BY <1>2 DEF Refresh
<1>3. CASE LoadFile(p)
  BY <1>3 DEF LoadFile
<1>4. CASE Opened(p)
  BY <1>4 DEF Opened
<1>5. CASE ReadFile(p)
  BY <1>5 DEF ReadFile
<1>6. CASE LoadLookup(p)
  BY <1>6 DEF LoadLookup
<1>7. CASE LoadDrop(p)
  BY <1>7 DEF LoadDrop
<1>8. CASE Replay(p)
  BY <1>8 DEF Replay
<1>9. CASE Lint(p)
  BY <1>9 DEF Lint
<1>10. CASE SaveLookup(p)
  BY <1>10 DEF SaveLookup
<1>11. CASE SaveDrop(p)
  BY <1>11 DEF SaveDrop
<1>12. CASE Begin(p)
  BY <1>12 DEF Begin
<1>13. CASE Commit(p) \/ Rollback(p)
  BY <1>13 DEF Commit, Rollback
<1>14. CASE Exit(p)
  BY <1>14 DEF Exit
<1> QED BY <1>1, <1>2, <1>3, <1>4, <1>5, <1>6, <1>7, <1>8, <1>9, <1>10, <1>11, <1>12, <1>13,
           <1>14 DEF Step, Finish, Crash

(* So a run knows no less of the disk for what another one does.           *)
LEMMA OthersKnow ==
  ASSUME TypeOK, RunsKnowTheDisk, disk' = disk, NEW y \in Proc, Untouched(y)
  PROVE  KnowsDisk(y)'
<1>1. GraphAgrees(y)'
  BY DEF RunsKnowTheDisk, KnowsDisk, GraphAgrees, Untouched
<1>2. OnDisk(y)'
  BY DEF RunsKnowTheDisk, KnowsDisk, OnDisk, Untouched
<1>3. AtStage(y)'
  BY DEF RunsKnowTheDisk, KnowsDisk, AtStage, Untouched
<1> QED BY <1>1, <1>2, <1>3 DEF KnowsDisk

(* Before the first run there is nothing to know.                           *)
LEMMA InitKnows == Init => RunsKnowTheDisk
BY EmptyGraphTyped
DEF Init, ServiceInit, RunsKnowTheDisk, KnowsDisk, GraphAgrees, OnDisk, AtStage, InHand, Saving

(* A run that turns to its next file, or gives up what it had to save, knows *)
(* what it knew.                                                            *)
LEMMA NextFileKnows ==
  ASSUME TypeOK, RunsKnowTheDisk, NEW p \in Proc, NextFile(p), pc[p] \in InHand,
         UNCHANGED <<disk, run, graph, pending, toRefresh, todo, typesOpen>>
  PROVE  KnowsDisk(p)'
<1>1. pc'[p] = "next"
  BY DEF NextFile, Goto, TypeOK, FieldTypes
<1>2. GraphAgrees(p)' /\ OnDisk(p)'
  BY DEF RunsKnowTheDisk, KnowsDisk, GraphAgrees, OnDisk
<1>3. AtStage(p)'
  BY <1>1 DEF RunsKnowTheDisk, KnowsDisk, AtStage, InHand, Saving
<1> QED BY <1>2, <1>3 DEF KnowsDisk

(* So does one that moves on with the file it has in hand.                  *)
LEMMA GotoKnows ==
  ASSUME TypeOK, RunsKnowTheDisk, NEW p \in Proc, NEW stage \in InHand, Goto(p, stage),
         pc[p] \in InHand, stage \in Saving => pc[p] \in Saving,
         UNCHANGED <<disk, run, graph, pending, toRefresh, todo, typesOpen, file, source, answer>>
  PROVE  KnowsDisk(p)'
<1>1. pc'[p] = stage
  BY DEF Goto, TypeOK, FieldTypes
<1>2. GraphAgrees(p)' /\ OnDisk(p)'
  BY DEF RunsKnowTheDisk, KnowsDisk, GraphAgrees, OnDisk
<1>3. AtStage(p)'
  BY <1>1 DEF RunsKnowTheDisk, KnowsDisk, AtStage, InHand, Saving
<1> QED BY <1>2, <1>3 DEF KnowsDisk

(* The type server starts with every run, nobody edits under one, and every  *)
(* file there is can be opened.                                             *)
Quiet == ~EditsDuringRun /\ ~ServerMayNotStart /\ AllReadable

(* One turn of loadClosure: the file it reads joins the graph, and what that *)
(* file imports and the graph lacks joins the work list.                    *)
LEMMA LoadFileKnows ==
  ASSUME Quiet, TypeOK, RunsKnowTheDisk, NEW p \in Proc, LoadFile(p)
  PROVE  KnowsDisk(p)'
<1>1. PICK q \in pending[p] :
        /\ graph' = [graph EXCEPT ![p] = loadedGraph(graph[p], disk, q)]
        /\ pending' = [pending EXCEPT ![p] = loadedPending(graph[p], disk, q, pending[p])]
  BY DEF LoadFile, TypeOK, FieldTypes
<1> DEFINE e == entryOf(disk, disk[q])
<1>2. q \in Path /\ isFile(disk, q) /\ disk \in Disk /\ disk[q] \in Content
  BY DEF RunsKnowTheDisk, KnowsDisk, OnDisk, TypeOK, FieldTypes, isFile, Disk
<1>3. \A z \in e.imports : isFile(disk, z)
  BY <1>2, ImportsAreFiles
<1>4. /\ graph'[p] = loadedGraph(graph[p], disk, q)
      /\ pending'[p] = loadedPending(graph[p], disk, q, pending[p])
      /\ UNCHANGED <<disk, pc, typesOpen, toRefresh, todo>>
      /\ pc[p] = "open"
  BY <1>1 DEF LoadFile, TypeOK, FieldTypes
<1>5. /\ \A z \in DOMAIN graph[p] :
           /\ isFile(disk, z)
           /\ graph[p][z] = entryOf(disk, disk[z])
           /\ graph[p][z].imports \subseteq DOMAIN graph[p] \cup pending[p]
      /\ \A z \in pending[p] \cup toRefresh[p] \cup todo[p] : isFile(disk, z)
      /\ typesOpen[p]
  BY <1>4 DEF RunsKnowTheDisk, KnowsDisk, GraphAgrees, OnDisk, AtStage
<1>6. AtStage(p)'
  BY <1>4, <1>5 DEF AtStage, InHand, Saving
<1>7. CASE AlreadyLoaded(graph[p], disk, q)
  <2>1. graph'[p] = graph[p] /\ pending'[p] = pending[p] \ {q} /\ q \in DOMAIN graph[p]
    BY <1>2, <1>4, <1>7 DEF loadedGraph, loadedPending, CannotRead, AlreadyLoaded, Quiet, AllReadable
  <2>2. GraphAgrees(p)' /\ OnDisk(p)'
    BY <1>4, <1>5, <2>1 DEF GraphAgrees, OnDisk
  <2> QED BY <1>6, <2>2 DEF KnowsDisk
<1>8. CASE ~AlreadyLoaded(graph[p], disk, q)
  <2>1. /\ graph'[p] = setFile(graph[p], q, e)
        /\ pending'[p] = (pending[p] \ {q}) \cup (e.imports \ DOMAIN graph[p])
    BY <1>2, <1>4, <1>8 DEF loadedGraph, loadedPending, CannotRead, Quiet, AllReadable
  <2> HIDE DEF e
  <2>2. /\ DOMAIN graph'[p] = DOMAIN graph[p] \cup {q}
        /\ graph'[p][q] = e
        /\ \A z \in DOMAIN graph[p] \ {q} : graph'[p][z] = graph[p][z]
    BY <2>1 DEF setFile
  <2>3. GraphAgrees(p)'
    <3>1. ASSUME NEW z \in DOMAIN graph'[p]
          PROVE  /\ isFile(disk, z)
                 /\ graph'[p][z] = entryOf(disk, disk[z])
                 /\ graph'[p][z].imports \subseteq DOMAIN graph'[p] \cup pending'[p]
      <4>1. CASE z = q
        BY <1>2, <2>1, <2>2, <4>1 DEF e
      <4>2. CASE z # q
        BY <1>5, <2>1, <2>2, <4>2
      <4> QED BY <4>1, <4>2
    <3> QED BY <1>4, <3>1 DEF GraphAgrees
  <2>4. OnDisk(p)'
    BY <1>3, <1>4, <1>5, <2>1 DEF OnDisk, e
  <2> QED BY <1>6, <2>3, <2>4 DEF KnowsDisk
<1> QED BY <1>7, <1>8

(* lintSource is asked for the file in hand, as it was read: the answer to   *)
(* save is the typed lint of the disk.                                      *)
LEMMA LintKnows ==
  ASSUME TypeOK, RunsKnowTheDisk, NEW p \in Proc, Lint(p)
  PROVE  KnowsDisk(p)'
<1>1. PICK failed \in BOOLEAN :
        /\ answer' = [answer EXCEPT
             ![p] = lintSource(disk, file[p], source[p], run[p].env, run[p].rule,
                               typesOpen[p] /\ ~failed)]
        /\ IF ready[p] /\ ~failed
             THEN Goto(p, "save") /\ UNCHANGED <<file, source>>
             ELSE NextFile(p)
  BY DEF Lint
<1>2. /\ pc[p] = "lint" /\ pc[p] \in InHand
      /\ UNCHANGED <<disk, run, graph, pending, toRefresh, todo, typesOpen>>
  BY DEF Lint, InHand, runVars, storeVars
<1>3. CASE failed \/ ~ready[p]
  BY <1>1, <1>2, <1>3, NextFileKnows
<1>4. CASE ~failed /\ ready[p]
  <2>1. typesOpen[p]
    BY <1>2 DEF RunsKnowTheDisk, KnowsDisk, AtStage
  <2>2. (typesOpen[p] /\ ~failed) = TRUE
    BY <2>1, <1>4
  <2>3. answer'[p] = lintSource(disk, file[p], source[p], run[p].env, run[p].rule, TRUE)
    BY <1>1, <2>2 DEF TypeOK, FieldTypes
  <2>4. pc'[p] = "save" /\ UNCHANGED <<file, source>>
    BY <1>1, <1>4 DEF Goto, TypeOK, FieldTypes
  <2>5. isFile(disk, file[p]) /\ source[p] = disk[file[p]] /\ pending[p] = {}
    BY <1>2 DEF RunsKnowTheDisk, KnowsDisk, AtStage, InHand
  <2>6. AtStage(p)'
    BY <1>2, <2>1, <2>3, <2>4, <2>5 DEF AtStage, InHand, Saving
  <2>7. GraphAgrees(p)' /\ OnDisk(p)'
    BY <1>2 DEF RunsKnowTheDisk, KnowsDisk, GraphAgrees, OnDisk
  <2> QED BY <2>6, <2>7 DEF KnowsDisk
<1> QED BY <1>3, <1>4

(* ReadFile, between two files: what it takes in hand is what is on disk.   *)
LEMMA ReadFileKnows ==
  ASSUME Quiet, TypeOK, RunsKnowTheDisk, NEW p \in Proc, ReadFile(p)
  PROVE  KnowsDisk(p)'
<1>1. PICK f \in todo[p] :
        /\ todo' = [todo EXCEPT ![p] = todo[p] \ {f}]
        /\ IF ~CannotRead(disk, f)
             THEN /\ file' = [file EXCEPT ![p] = f]
                  /\ source' = [source EXCEPT ![p] = disk[f]]
                  /\ Goto(p, IF ready[p] THEN "load" ELSE "lint")
             ELSE UNCHANGED <<file, source, pc>>
  BY DEF ReadFile, TypeOK, FieldTypes
<1>2. /\ isFile(disk, f) /\ ~CannotRead(disk, f)
      /\ pc[p] = "next"
      /\ UNCHANGED <<disk, run, graph, pending, toRefresh, typesOpen>>
  BY DEF RunsKnowTheDisk, KnowsDisk, OnDisk, ReadFile, runVars, storeVars, CannotRead, Quiet, AllReadable
<1>3. file'[p] = f /\ source'[p] = disk[f] /\ pc'[p] \in {"load", "lint"}
  BY <1>1, <1>2 DEF Goto, TypeOK, FieldTypes
<1>4. todo'[p] \subseteq todo[p]
  BY <1>1 DEF TypeOK, FieldTypes
<1>5. GraphAgrees(p)' /\ OnDisk(p)'
  BY <1>2, <1>4 DEF RunsKnowTheDisk, KnowsDisk, GraphAgrees, OnDisk
<1>6. AtStage(p)'
  BY <1>2, <1>3 DEF RunsKnowTheDisk, KnowsDisk, AtStage, InHand, Saving
<1> QED BY <1>5, <1>6 DEF KnowsDisk

(* A process that ends has nothing left to know.                            *)
LEMMA ExitKnows ==
  ASSUME TypeOK, NEW p \in Proc, Exit(p)
  PROVE  KnowsDisk(p)'
<1>1. /\ pc'[p] = "idle" /\ graph'[p] = EmptyGraph
      /\ pending'[p] = {} /\ toRefresh'[p] = {} /\ todo'[p] = {}
  BY DEF Exit, Goto, TypeOK, FieldTypes
<1> QED BY <1>1, EmptyGraphTyped DEF KnowsDisk, GraphAgrees, OnDisk, AtStage, InHand, Saving

(* A process that starts knows that its files are there.                    *)
LEMMA StartKnows ==
  ASSUME Quiet, TypeOK, RunsKnowTheDisk, NEW p \in Proc, Start(p)
  PROVE  KnowsDisk(p)'
<1>1. PICK fs \in SUBSET {q \in Path : isFile(disk, q)}, opened \in BOOLEAN :
        /\ typesOpen' = [typesOpen EXCEPT ![p] = TRUE]
        /\ toRefresh' = [toRefresh EXCEPT ![p] = IF opened THEN fs ELSE {}]
        /\ todo' = [todo EXCEPT ![p] = fs]
  BY DEF Start, Quiet
<1>2. /\ pc[p] = "idle" /\ pc'[p] = "open" /\ graph'[p] = EmptyGraph
      /\ UNCHANGED <<disk, pending>>
  BY DEF Start, Goto, TypeOK, FieldTypes
<1>3. typesOpen'[p] /\ toRefresh'[p] \subseteq fs /\ todo'[p] = fs
  BY <1>1 DEF TypeOK, FieldTypes
<1>4. pending[p] = {}
  BY <1>2 DEF RunsKnowTheDisk, KnowsDisk, AtStage
<1> QED BY <1>2, <1>3, <1>4, EmptyGraphTyped
    DEF KnowsDisk, GraphAgrees, OnDisk, AtStage, InHand, Saving

(* ResultCache::open passes its files to loadClosure one by one.            *)
LEMMA OpenKnows ==
  ASSUME TypeOK, RunsKnowTheDisk, NEW p \in Proc, Refresh(p) \/ Opened(p)
  PROVE  KnowsDisk(p)'
<1>1. CASE Refresh(p)
  <2>1. PICK f \in toRefresh[p] :
          /\ pending' = [pending EXCEPT ![p] = {f}]
          /\ toRefresh' = [toRefresh EXCEPT ![p] = toRefresh[p] \ {f}]
    BY <1>1 DEF Refresh, TypeOK, FieldTypes
  <2>2. /\ pc[p] = "open" /\ pending[p] = {}
        /\ UNCHANGED <<disk, pc, graph, todo, typesOpen, file, source, run, answer>>
    BY <1>1 DEF Refresh
  <2>3. pending'[p] = {f} /\ toRefresh'[p] = toRefresh[p] \ {f}
    BY <2>1 DEF TypeOK, FieldTypes
  <2>4. GraphAgrees(p)'
    BY <2>2 DEF RunsKnowTheDisk, KnowsDisk, GraphAgrees
  <2>5. OnDisk(p)'
    BY <2>2, <2>3 DEF RunsKnowTheDisk, KnowsDisk, OnDisk
  <2>6. AtStage(p)'
    BY <2>2 DEF RunsKnowTheDisk, KnowsDisk, AtStage, InHand, Saving
  <2> QED BY <2>4, <2>5, <2>6 DEF KnowsDisk
<1>2. CASE Opened(p)
  <2>1. /\ pc[p] = "open" /\ pc'[p] = "next" /\ pending[p] = {}
        /\ UNCHANGED <<disk, graph, todo, typesOpen, pending, toRefresh>>
    BY <1>2 DEF Opened, Goto, TypeOK, FieldTypes
  <2>2. GraphAgrees(p)' /\ OnDisk(p)'
    BY <2>1 DEF RunsKnowTheDisk, KnowsDisk, GraphAgrees, OnDisk
  <2>3. AtStage(p)'
    BY <2>1 DEF RunsKnowTheDisk, KnowsDisk, AtStage, InHand, Saving
  <2> QED BY <2>2, <2>3 DEF KnowsDisk
<1> QED BY <1>1, <1>2

(* The store's steps leave a run's view of the disk alone.                  *)
LEMMA StoreKnows ==
  ASSUME TypeOK, RunsKnowTheDisk, NEW p \in Proc,
         \/ LoadLookup(p) \/ LoadDrop(p) \/ Replay(p) \/ SaveLookup(p) \/ SaveDrop(p)
         \/ Begin(p) \/ Commit(p) \/ Rollback(p)
  PROVE  KnowsDisk(p)'
<1>0. UNCHANGED <<disk, run, graph, pending, toRefresh, todo, typesOpen>>
  BY DEF LoadLookup, LoadDrop, Replay, SaveLookup, SaveDrop, Begin, Commit, Rollback,
         runVars, storeVars
<1>1. pc[p] \in InHand
  BY DEF LoadLookup, LoadDrop, Replay, SaveLookup, SaveDrop, Begin, Commit, Rollback, InHand
<1>2. CASE NextFile(p)
  BY <1>0, <1>1, <1>2, NextFileKnows
<1>3. CASE ~NextFile(p)
  <2>1. PICK stage \in InHand :
          /\ Goto(p, stage)
          /\ stage \in Saving => pc[p] \in Saving
          /\ UNCHANGED <<file, source, answer>>
    <3>1. {"lint", "replay", "loadDrop", "saveDrop", "begin", "commit"} \subseteq InHand
      BY DEF InHand
    <3>2. /\ "lint" \notin Saving /\ "replay" \notin Saving /\ "loadDrop" \notin Saving
          /\ "save" \in Saving /\ "saveDrop" \in Saving /\ "begin" \in Saving
      BY DEF Saving
    <3> QED BY <1>3, <3>1, <3>2
        DEF LoadLookup, LoadDrop, Replay, SaveLookup, SaveDrop, Begin, Commit, Rollback
  <2> QED BY <1>0, <1>1, <2>1, GotoKnows
<1> QED BY <1>2, <1>3

(* An edit meets no run; every other step is one of the above.              *)
LEMMA StepKnows ==
  ASSUME Quiet
  PROVE  TypeOK /\ RunsKnowTheDisk /\ [Next]_vars => RunsKnowTheDisk'
<1> SUFFICES ASSUME TypeOK, RunsKnowTheDisk, [Next]_vars PROVE RunsKnowTheDisk'
  OBVIOUS
<1>1. ASSUME NEW q \in Path, Edit(q) PROVE RunsKnowTheDisk'
  <2>1. ASSUME NEW y \in Proc PROVE KnowsDisk(y)'
    <3>1. /\ pc[y] = "idle"
          /\ UNCHANGED <<pc, graph, pending, toRefresh, todo>>
      BY <1>1 DEF Edit, Quiet
    <3>2. /\ DOMAIN graph[y] = {} /\ pending[y] \cup toRefresh[y] \cup todo[y] = {}
      BY <3>1 DEF RunsKnowTheDisk, KnowsDisk, AtStage
    <3> QED BY <3>1, <3>2 DEF KnowsDisk, GraphAgrees, OnDisk, AtStage, InHand, Saving
  <2> QED BY <2>1 DEF RunsKnowTheDisk
<1>2. ASSUME NEW p \in Proc, Start(p) \/ Step(p) \/ Crash(p) PROVE RunsKnowTheDisk'
  <2>1. KnowsDisk(p)'
    BY <1>2, StartKnows, OpenKnows, LoadFileKnows, ReadFileKnows, LintKnows, StoreKnows, ExitKnows
    DEF Step, Finish, Crash
  <2>2. \A y \in Proc \ {p} : KnowsDisk(y)'
    BY <1>2, OthersUntouched, OthersKnow
  <2> QED BY <2>1, <2>2 DEF RunsKnowTheDisk
<1>3. CASE UNCHANGED vars
  <2>1. disk' = disk /\ \A y \in Proc : Untouched(y)
    BY <1>3 DEF vars, Untouched
  <2> QED BY <2>1, OthersKnow DEF RunsKnowTheDisk
<1> QED BY <1>1, <1>2, <1>3 DEF Next

(* While nobody edits under a run, the type server starts and every file there *)
(* is can be opened (a locked one cuts a closure short), a run's graph,      *)
(* work list, text and answer are those of the disk (cli/run.cc, cli/lint.cc). *)
THEOREM RunsStayInformed ==
  ASSUME Quiet
  PROVE  Spec => []RunsKnowTheDisk
<1>1. Init => TypeOK /\ RunsKnowTheDisk
  BY InitTypes, InitKnows
<1>2. TypeOK /\ RunsKnowTheDisk /\ [Next]_vars => TypeOK' /\ RunsKnowTheDisk'
  BY StepTypes, StepKnows
<1> QED BY <1>1, <1>2, PTL DEF Spec
-----------------------------------------------------------------------------
(* No tsconfig maps a bare name to a file, which resolveImport would miss.   *)
NoAliases == \A s \in Specifier : Candidates[s] = << >> => Alias[s] = {}

(* The key a row is filed under is the closure hash of the world seen.      *)
LEMMA KeyOfWorld ==
  ASSUME NEW g, NEW f
  PROVE  KeyOf(World(g, f)) = closureHash(g, f)
<1> DEFINE key(q) == <<q, g[q].contentHash, g[q].unresolved>>
<1>1. ASSUME NEW w \in World(g, f)
      PROVE  <<w[1], w[2].contentHash, w[2].unresolved>> \in closureHash(g, f)
  BY <1>1 DEF World, closureHash
<1>2. ASSUME NEW q \in Reach(g, f)
      PROVE  key(q) \in KeyOf(World(g, f))
  <2>1. <<q, g[q]>> \in World(g, f)
    BY DEF World
  <2>2. key(q) = <<<<q, g[q]>>[1], <<q, g[q]>>[2].contentHash, <<q, g[q]>>[2].unresolved>>
    OBVIOUS
  <2> HIDE DEF key
  <2> QED BY <2>1, <2>2 DEF KeyOf
<1>3. closureHash(g, f) = {key(q) : q \in Reach(g, f)}
  BY DEF closureHash
<1> HIDE DEF key
<1>4. KeyOf(World(g, f)) \subseteq closureHash(g, f)
  BY <1>1 DEF KeyOf
<1>5. closureHash(g, f) \subseteq KeyOf(World(g, f))
  BY <1>2, <1>3
<1> QED BY <1>4, <1>5

(* The key a run computes from its graph is the key of the disk.            *)
LEMMA KeyOfTheDisk ==
  ASSUME AllReadable, TypeOK, RunsKnowTheDisk, NEW p \in Proc, pc[p] \in Keyed
  PROVE  /\ file[p] \in Path /\ isFile(disk, file[p]) /\ disk \in Disk
         /\ CurrentRecord(p).contentHash = disk[file[p]]
         /\ CurrentRecord(p).closureHash = closureHash(diskGraph(disk), file[p])
<1> DEFINE g == graph[p]
           f == file[p]
<1>1. pc[p] \in InHand /\ pc[p] # "open"
  BY DEF Keyed, InHand
<1>2. isFile(disk, f) /\ pending[p] = {}
  BY <1>1 DEF RunsKnowTheDisk, KnowsDisk, AtStage
<1>3. f \in Path /\ f \in DOMAIN g /\ disk \in Disk /\ g \in Graph
  BY <1>1 DEF TypeOK, FieldTypes, StageHas
<1>4. \A q \in DOMAIN g :
        /\ isFile(disk, q)
        /\ g[q] = entryOf(disk, disk[q])
        /\ g[q].imports \subseteq DOMAIN g
  BY <1>2 DEF RunsKnowTheDisk, KnowsDisk, GraphAgrees
<1>5. \A q \in DOMAIN g : q \in DOMAIN diskGraph(disk) /\ g[q] = diskGraph(disk)[q]
  <2>1. DOMAIN g \subseteq DOMAIN diskGraph(disk)
    BY <1>3, <1>4, GraphFacts, DiskGraphDomain
  <2> QED BY <1>4, <2>1 DEF diskGraph
<1>6. closureHash(g, f) = closureHash(diskGraph(disk), f)
  <2>1. Reach(g, f) = Reach(diskGraph(disk), f)
    BY <1>3, <1>4, <1>5, ClosureOfSubgraph
  <2>2. Reach(g, f) \subseteq DOMAIN g
    BY DEF Reach
  <2> QED BY <1>5, <2>1, <2>2 DEF closureHash
<1>7. g[f].contentHash = disk[f]
  BY <1>3, <1>4, EntryFields
<1>8. /\ CurrentRecord(p).contentHash = g[f].contentHash
      /\ CurrentRecord(p).closureHash = closureHash(g, f)
  BY DEF CurrentRecord, recordFor
<1> QED BY <1>2, <1>3, <1>6, <1>7, <1>8

(* A typed lint of a file as it is on disk saw the world the disk holds.     *)
LEMMA LintSawTheDisk ==
  ASSUME NoAliases, NEW d \in Disk, NEW f \in Path, isFile(d, f), NEW e \in Env, NEW r \in Rule
  PROVE  lintSource(d, f, d[f], e, r, TRUE) =
           [path |-> f, text |-> d[f], env |-> e, rule |-> r, typed |-> TRUE,
            world |-> World(diskGraph(d), f)]
<1>1. [d EXCEPT ![f] = d[f]] = d
  BY DEF Disk
<1>2. serverGraph(d) = diskGraph(d)
  BY NoAliasNoDifference DEF NoAliases
<1> QED BY <1>1, <1>2 DEF lintSource

(* What Commit files is the typed lint of what its key says.                *)
LEMMA CommitHonest ==
  ASSUME AllReadable, NoAliases, TypeOK, RunsKnowTheDisk, NEW p \in Proc, pc[p] = "commit"
  PROVE  /\ answer[p].typed
         /\ answer[p].text = CurrentRecord(p).contentHash
         /\ answer[p].rule = run[p].rule
         /\ KeyOf(answer[p].world) = CurrentRecord(p).closureHash
<1> DEFINE f == file[p]
<1>1. pc[p] \in Keyed /\ pc[p] \in Saving /\ pc[p] \in InHand
  BY DEF Keyed, Saving, InHand
<1>2. answer[p] = lintSource(disk, f, disk[f], run[p].env, run[p].rule, TRUE)
  BY <1>1 DEF RunsKnowTheDisk, KnowsDisk, AtStage
<1>3. run[p].env \in Env /\ run[p].rule \in Rule
  BY <1>1 DEF TypeOK, StageHas, Run
<1>4. /\ f \in Path /\ isFile(disk, f) /\ disk \in Disk
      /\ CurrentRecord(p).contentHash = disk[f]
      /\ CurrentRecord(p).closureHash = closureHash(diskGraph(disk), f)
  BY <1>1, KeyOfTheDisk
<1>5. answer[p] = [path |-> f, text |-> disk[f], env |-> run[p].env, rule |-> run[p].rule,
                   typed |-> TRUE, world |-> World(diskGraph(disk), f)]
  BY <1>2, <1>3, <1>4, LintSawTheDisk
<1>6. KeyOf(World(diskGraph(disk), f)) = closureHash(diskGraph(disk), f)
  BY KeyOfWorld
<1> QED BY <1>4, <1>5, <1>6

(* Only a commit adds a row; the rest drop rows or leave them.              *)
LEMMA StepHonest ==
  ASSUME AllReadable, NoAliases
  PROVE  TypeOK /\ RunsKnowTheDisk /\ RowsHonest /\ [Next]_vars => RowsHonest'
<1> SUFFICES ASSUME TypeOK, RunsKnowTheDisk, RowsHonest, [Next]_vars PROVE RowsHonest'
  OBVIOUS
<1>1. ASSUME NEW p \in Proc, Commit(p) PROVE RowsHonest'
  <2>1. rows' = putRuleResult(rows, CurrentRecord(p), run[p].rule, answer[p]) /\ pc[p] = "commit"
    BY <1>1 DEF Commit
  <2> DEFINE new == [fileHash |-> CurrentRecord(p).contentHash,
                     closureHash |-> CurrentRecord(p).closureHash,
                     rule |-> run[p].rule, payload |-> answer[p]]
  <2>2. rows' \subseteq rows \cup {new}
    BY <2>1 DEF putRuleResult
  <2>3. /\ new.payload.typed /\ new.payload.text = new.fileHash
        /\ new.payload.rule = new.rule /\ KeyOf(new.payload.world) = new.closureHash
    BY <2>1, CommitHonest
  <2> HIDE DEF new
  <2>4. \A r \in rows' : r \in rows \/ r = new
    BY <2>2
  <2> QED BY <2>3, <2>4 DEF RowsHonest
<1>2. ASSUME NEW p \in Proc, LoadDrop(p) \/ SaveDrop(p) PROVE RowsHonest'
  <2>1. rows' \subseteq rows
    BY <1>2 DEF LoadDrop, SaveDrop, dropRuleResults
  <2> QED BY <2>1 DEF RowsHonest
<1>3. ASSUME NEW p \in Proc, Start(p) \/ Step(p) \/ Crash(p),
             ~(Commit(p) \/ LoadDrop(p) \/ SaveDrop(p))
      PROVE  RowsHonest'
  <2>1. rows' = rows
    BY <1>3 DEF Start, Step, Refresh, LoadFile, Opened, ReadFile, LoadLookup, Replay, Lint,
                SaveLookup, Begin, Rollback, Finish, Crash, Exit, storeVars
  <2> QED BY <2>1 DEF RowsHonest
<1>4. CASE UNCHANGED vars \/ \E q \in Path : Edit(q)
  <2>1. rows' = rows
    BY <1>4 DEF vars, Edit, storeVars
  <2> QED BY <2>1 DEF RowsHonest
<1> QED BY <1>1, <1>2, <1>3, <1>4 DEF Next, Step

(* Every row of the store is the typed lint of the text, closure and rule it *)
(* is filed under, so a lookup that finds the row current replays the truth  *)
(* (cache/closure.cc, FileCache; cli/run.cc, ResultCache::save).            *)
THEOREM RowsStayHonest ==
  ASSUME Quiet, NoAliases
  PROVE  Spec => []RowsHonest
<1>1. Init => TypeOK /\ RunsKnowTheDisk /\ RowsHonest
  BY InitTypes, InitKnows DEF Init, RowsHonest
<1>2. TypeOK /\ RunsKnowTheDisk /\ RowsHonest /\ [Next]_vars
        => TypeOK' /\ RunsKnowTheDisk' /\ RowsHonest'
  BY StepTypes, StepKnows, StepHonest DEF Quiet
<1> QED BY <1>1, <1>2, PTL DEF Spec
-----------------------------------------------------------------------------
(* One process at a time: nothing happens to the store between two steps of *)
(* a run.                                                                  *)
OneProcess == \A p, q \in Proc : p = q

(* What a run knows of the store from its lookup on: the record it compared *)
(* is still there, and rows it did not find fresh are gone.                 *)
StoreKept(p) ==
  /\ pc[p] \in Saving => answer[p].env = run[p].env
  /\ pc[p] = "replay" => files[file[p]] = CurrentRecord(p)
  /\ pc[p] = "saveDrop" => files[file[p]] # NoRecord /\ old[p] = files[file[p]].contentHash
  /\ pc[p] \in {"begin", "commit"} =>
       \A r \in rows : r.payload.path = file[p] => files[file[p]] = CurrentRecord(p)

RecordInv == RowsMatchRecord /\ \A p \in Proc : StoreKept(p)

(* A stage that asks nothing of the store is as good with fewer rows.       *)
LEMMA FewerRows ==
  ASSUME RowsMatchRecord, rows' \subseteq rows, UNCHANGED files
  PROVE  RowsMatchRecord'
BY DEF RowsMatchRecord

(* Stages no part of StoreKept speaks of.                                   *)
LEMMA NothingKept ==
  ASSUME NEW p \in Proc, pc'[p] \in {"idle", "open", "next", "load", "loadDrop", "lint"}
  PROVE  StoreKept(p)'
BY DEF StoreKept, Saving

(* The store's own steps, one by one (cli/run.cc, ResultCache; cache/closure.cc, *)
(* FileCache).                                                              *)
LEMMA StoreStepsKeep ==
  ASSUME TypeOK, RecordInv, NEW p \in Proc,
         \/ LoadLookup(p) \/ LoadDrop(p) \/ Replay(p) \/ Lint(p) \/ SaveLookup(p)
         \/ SaveDrop(p) \/ Begin(p) \/ Commit(p) \/ Rollback(p)
  PROVE  RowsMatchRecord' /\ StoreKept(p)'
<1>1. \A stage : Goto(p, stage) => pc'[p] = stage
  BY DEF Goto, TypeOK, FieldTypes
<1>2. NextFile(p) => pc'[p] = "next"
  BY <1>1 DEF NextFile
<1>3. StoreKept(p) /\ RowsMatchRecord
  BY DEF RecordInv
<1>4. CASE LoadLookup(p)
  <2>1. /\ rows' = rows /\ files' = files
        /\ UNCHANGED <<graph, file, run, answer>>
    BY <1>4 DEF LoadLookup, storeVars, runVars
  <2>2. \/ pc'[p] \in {"lint", "loadDrop"}
        \/ pc'[p] = "replay" /\ files[file[p]] = CurrentRecord(p)
    BY <1>1, <1>4 DEF LoadLookup, Fresh
  <2>3. StoreKept(p)'
    <3>1. CASE pc'[p] \in {"lint", "loadDrop"}
      BY <3>1, NothingKept
    <3>2. CASE pc'[p] = "replay" /\ files[file[p]] = CurrentRecord(p)
      BY <2>1, <3>2 DEF StoreKept, Saving, CurrentRecord
    <3> QED BY <2>2, <3>1, <3>2
  <2> QED BY <1>3, <2>1, <2>3, FewerRows
<1>5. CASE LoadDrop(p)
  <2>1. rows' \subseteq rows /\ files' = files /\ pc'[p] = "lint"
    BY <1>1, <1>5 DEF LoadDrop, dropRuleResults
  <2> QED BY <1>3, <2>1, FewerRows, NothingKept
<1>6. CASE Replay(p)
  <2>1. rows' = rows /\ files' = files
    BY <1>6 DEF Replay, storeVars
  <2>2. pc'[p] \in {"lint", "next"}
    BY <1>1, <1>2, <1>6 DEF Replay
  <2> QED BY <1>3, <2>1, <2>2, FewerRows, NothingKept
<1>7. CASE Lint(p)
  <2>1. PICK failed \in BOOLEAN :
          /\ answer' = [answer EXCEPT
               ![p] = lintSource(disk, file[p], source[p], run[p].env, run[p].rule,
                                 typesOpen[p] /\ ~failed)]
          /\ \/ Goto(p, "save")
             \/ NextFile(p)
    BY <1>7 DEF Lint
  <2>2. rows' = rows /\ files' = files /\ run' = run
    BY <1>7 DEF Lint, storeVars, runVars
  <2>3. answer'[p].env = run'[p].env
    BY <2>1, <2>2 DEF TypeOK, FieldTypes, lintSource
  <2>4. pc'[p] \in {"save", "next"}
    BY <1>1, <1>2, <2>1
  <2>5. StoreKept(p)'
    BY <2>3, <2>4 DEF StoreKept, Saving
  <2> QED BY <1>3, <2>2, <2>5, FewerRows
<1>8. CASE SaveLookup(p)
  <2>1. rows' = rows /\ files' = files /\ answer' = answer /\ UNCHANGED <<run, graph>>
    BY <1>8 DEF SaveLookup, storeVars, runVars
  <2>2. answer[p].env = run[p].env
    BY <1>3, <1>8 DEF SaveLookup, StoreKept, Saving
  <2>3. CASE file[p] \notin DOMAIN graph[p]
    <3>1. pc'[p] = "next"
      BY <1>2, <1>8, <2>3 DEF SaveLookup
    <3> QED BY <1>3, <2>1, <3>1, FewerRows, NothingKept
  <2>4. CASE file[p] \in DOMAIN graph[p] /\ Stale(files[file[p]], CurrentRecord(p))
    <3>1. /\ pc'[p] = "saveDrop" /\ file' = file
          /\ old' = [old EXCEPT ![p] = files[file[p]].contentHash]
      BY <1>1, <1>8, <2>4 DEF SaveLookup
    <3>2. old'[p] = files[file[p]].contentHash /\ files[file[p]] # NoRecord
      BY <2>4, <3>1 DEF TypeOK, FieldTypes, Stale, Missing
    <3>3. StoreKept(p)'
      BY <2>1, <2>2, <3>1, <3>2 DEF StoreKept, Saving
    <3> QED BY <1>3, <2>1, <3>3, FewerRows
  <2>5. CASE file[p] \in DOMAIN graph[p] /\ ~Stale(files[file[p]], CurrentRecord(p))
    <3>1. pc'[p] = "begin" /\ file' = file
      BY <1>1, <1>8, <2>5 DEF SaveLookup
    <3>2. CASE files[file[p]] = CurrentRecord(p)
      <4>1. StoreKept(p)'
        BY <2>1, <2>2, <3>1, <3>2 DEF StoreKept, Saving, CurrentRecord
      <4> QED BY <1>3, <2>1, <4>1, FewerRows
    <3>3. CASE files[file[p]] = NoRecord
      <4>1. file[p] \in Path
        BY <1>8 DEF SaveLookup, TypeOK, StageHas, InHand
      <4>2. \A r \in rows : r.payload.path # file[p]
        <5> SUFFICES ASSUME NEW r \in rows, r.payload.path = file[p] PROVE FALSE
          OBVIOUS
        <5>1. files[file[p]] = [contentHash |-> r.fileHash, closureHash |-> r.closureHash,
                                tsconfigHash |-> r.payload.env]
          BY <1>3 DEF RowsMatchRecord
        <5>2. [contentHash |-> r.fileHash, closureHash |-> r.closureHash,
               tsconfigHash |-> r.payload.env] \in FileRecord
          BY DEF TypeOK, FieldTypes, RuleRow, Payload, FileRecord
        <5> QED BY <3>3, <5>1, <5>2, LintAssumption
      <4>3. StoreKept(p)'
        BY <2>1, <2>2, <3>1, <4>2 DEF StoreKept, Saving
      <4> QED BY <1>3, <2>1, <4>3, FewerRows
    <3> QED BY <2>5, <3>2, <3>3 DEF Stale, Missing, Fresh
  <2> QED BY <2>3, <2>4, <2>5
<1>9. CASE SaveDrop(p)
  <2>1. rows' \subseteq rows /\ files' = files /\ UNCHANGED <<answer, run, graph>>
    BY <1>9 DEF SaveDrop, dropRuleResults, runVars
  <2>2. CASE lock # {}
    <3>1. pc'[p] = "next"
      BY <1>2, <1>9, <2>2 DEF SaveDrop
    <3> QED BY <1>3, <2>1, <3>1, FewerRows, NothingKept
  <2>3. CASE lock = {}
    <3>1. rows' = {r \in rows : r.fileHash # old[p]} /\ pc'[p] = "begin" /\ file' = file
      BY <1>1, <1>9, <2>3 DEF SaveDrop, dropRuleResults
    <3>2. /\ old[p] = files[file[p]].contentHash
          /\ answer[p].env = run[p].env
      BY <1>3, <1>9 DEF SaveDrop, StoreKept, Saving
    <3>3. \A r \in rows' : r.payload.path # file[p]
      <4> SUFFICES ASSUME NEW r \in rows, r.payload.path = file[p] PROVE r.fileHash = old[p]
        BY <3>1
      <4>1. files[file[p]] = [contentHash |-> r.fileHash, closureHash |-> r.closureHash,
                              tsconfigHash |-> r.payload.env]
        BY <1>3 DEF RowsMatchRecord
      <4> QED BY <3>2, <4>1
    <3>4. StoreKept(p)'
      BY <2>1, <3>1, <3>2, <3>3 DEF StoreKept, Saving
    <3> QED BY <1>3, <2>1, <3>4, FewerRows
  <2> QED BY <2>2, <2>3
<1>10. CASE Begin(p)
  <2>1. rows' = rows /\ files' = files /\ UNCHANGED <<answer, run, graph>>
    BY <1>10 DEF Begin, runVars
  <2>2. CASE lock # {}
    <3>1. pc'[p] = "next"
      BY <1>2, <1>10, <2>2 DEF Begin
    <3> QED BY <1>3, <2>1, <3>1, FewerRows, NothingKept
  <2>3. CASE lock = {}
    <3>1. pc[p] = "begin" /\ pc'[p] = "commit" /\ file' = file
      BY <1>1, <1>10, <2>3 DEF Begin
    <3>2. StoreKept(p)'
      BY <1>3, <2>1, <3>1 DEF StoreKept, Saving, CurrentRecord
    <3> QED BY <1>3, <2>1, <3>2, FewerRows
  <2> QED BY <2>2, <2>3
<1>11. CASE Commit(p)
  <2> DEFINE rec == CurrentRecord(p)
             new == [fileHash |-> rec.contentHash, closureHash |-> rec.closureHash,
                     rule |-> run[p].rule, payload |-> answer[p]]
  <2>1. /\ pc[p] = "commit" /\ pc'[p] = "next"
        /\ files' = [files EXCEPT ![file[p]] = rec]
        /\ rows' \subseteq rows \cup {new}
    BY <1>2, <1>11 DEF Commit, putFile, putRuleResult
  <2>2. /\ answer[p].env = run[p].env
        /\ \A r \in rows : r.payload.path = file[p] => files[file[p]] = rec
    BY <1>3, <2>1 DEF StoreKept, Saving
  <2>3. file[p] \in Path /\ answer[p].path = file[p]
    BY <2>1 DEF TypeOK, StageHas, InHand, Saving
  <2>4. rec = [contentHash |-> new.fileHash, closureHash |-> new.closureHash,
               tsconfigHash |-> new.payload.env] /\ new.payload.path = file[p]
    BY <2>2, <2>3 DEF CurrentRecord, recordFor
  <2>5. \A r \in rows : r.payload.path \in Path
    BY DEF TypeOK, FieldTypes, RuleRow, Payload
  <2> HIDE DEF rec, new
  <2>6. files' \in [Path -> FileRecord \cup {NoRecord, rec}] /\ files'[file[p]] = rec
        /\ \A q \in Path : q # file[p] => files'[q] = files[q]
    BY <2>1, <2>3 DEF TypeOK, FieldTypes
  <2>7. ASSUME NEW r \in rows'
        PROVE  files'[r.payload.path] = [contentHash  |-> r.fileHash,
                                         closureHash  |-> r.closureHash,
                                         tsconfigHash |-> r.payload.env]
    <3>1. CASE r = new
      BY <2>4, <2>6, <3>1
    <3>2. CASE r \in rows
      <4>1. files[r.payload.path] = [contentHash  |-> r.fileHash,
                                     closureHash  |-> r.closureHash,
                                     tsconfigHash |-> r.payload.env]
        BY <1>3, <3>2 DEF RowsMatchRecord
      <4>2. files'[r.payload.path] = files[r.payload.path]
        BY <2>2, <2>5, <2>6, <3>2
      <4> QED BY <4>1, <4>2
    <3> QED BY <2>1, <3>1, <3>2
  <2> QED BY <2>1, <2>7, NothingKept DEF RowsMatchRecord
<1>12. CASE Rollback(p)
  <2>1. rows' = rows /\ files' = files /\ pc'[p] = "next"
    BY <1>2, <1>12 DEF Rollback
  <2> QED BY <1>3, <2>1, FewerRows, NothingKept
<1> QED BY <1>4, <1>5, <1>6, <1>7, <1>8, <1>9, <1>10, <1>11, <1>12

(* The one process keeps what it knows of the store through every step.     *)
LEMMA StepKeepsRecords ==
  ASSUME OneProcess
  PROVE  TypeOK /\ RecordInv /\ [Next]_vars => RecordInv'
<1> SUFFICES ASSUME TypeOK, RecordInv, [Next]_vars PROVE RecordInv'
  OBVIOUS
<1>1. CASE UNCHANGED vars \/ \E q \in Path : Edit(q)
  <2>1. UNCHANGED <<rows, files, pc, answer, run, file, graph, old>>
    BY <1>1 DEF vars, Edit, storeVars
  <2>2. \A p \in Proc : StoreKept(p)'
    BY <2>1 DEF RecordInv, StoreKept, CurrentRecord
  <2> QED BY <2>1, <2>2, FewerRows DEF RecordInv
<1>2. ASSUME NEW p \in Proc,
             \/ Start(p) \/ Refresh(p) \/ LoadFile(p) \/ Opened(p) \/ ReadFile(p) \/ Exit(p)
      PROVE  RecordInv'
  <2>1. rows' = rows /\ files' = files
    BY <1>2 DEF Start, Refresh, LoadFile, Opened, ReadFile, Exit, storeVars
  <2>2. pc'[p] \in {"idle", "open", "next", "load", "lint"}
    BY <1>2 DEF Start, Refresh, LoadFile, Opened, ReadFile, Exit, Goto, TypeOK, FieldTypes
  <2>3. StoreKept(p)'
    BY <2>2, NothingKept
  <2> QED BY <2>1, <2>3, FewerRows DEF RecordInv, OneProcess
<1>3. ASSUME NEW p \in Proc,
             \/ LoadLookup(p) \/ LoadDrop(p) \/ Replay(p) \/ Lint(p) \/ SaveLookup(p)
             \/ SaveDrop(p) \/ Begin(p) \/ Commit(p) \/ Rollback(p)
      PROVE  RecordInv'
  <2>1. RowsMatchRecord' /\ StoreKept(p)'
    BY <1>3, StoreStepsKeep
  <2> QED BY <2>1 DEF RecordInv, OneProcess
<1> QED BY <1>1, <1>2, <1>3 DEF Next, Step, Finish, Crash

(* With one process at a time, a row is never left behind by the record of   *)
(* its file: one that turns fresh again brings back no row made under        *)
(* another configuration (cache/closure.cc, FileCache::lookup and save).     *)
THEOREM RowsKeepTheirRecord ==
  ASSUME OneProcess
  PROVE  Spec => []RowsMatchRecord
<1>1. Init => TypeOK /\ RecordInv
  <2>1. Init => RecordInv
    BY DEF Init, RecordInv, RowsMatchRecord, StoreKept, Saving
  <2> QED BY <2>1, InitTypes
<1>2. TypeOK /\ RecordInv /\ [Next]_vars => TypeOK' /\ RecordInv'
  BY StepTypes, StepKeepsRecords
<1>3. RecordInv => RowsMatchRecord
  BY DEF RecordInv
<1> QED BY <1>1, <1>2, <1>3, PTL DEF Spec
-----------------------------------------------------------------------------
(* A row is the typed lint of a file on a disk there was, filed under the key *)
(* that disk gives the file.                                                *)
RowFrom(r) ==
  \E d \in Disk, f \in Path, e \in Env :
    /\ isFile(d, f)
    /\ r.payload = lintSource(d, f, d[f], e, r.rule, TRUE)
    /\ r.fileHash = d[f]
    /\ r.closureHash = closureHash(diskGraph(d), f)

RowsFromDisk == \A r \in rows : RowFrom(r)

IdleHasNoRun == \A p \in Proc : pc[p] = "idle" => run[p] = NoRun

(* No two files with one text import each other: their closures, and so     *)
(* their keys, would be the same.                                          *)
NoTwins ==
  \A d \in Disk : \A f1, f2 \in Path :
    /\ isFile(d, f1) /\ isFile(d, f2) /\ d[f1] = d[f2]
    /\ f1 \in Reach(diskGraph(d), f2) /\ f2 \in Reach(diskGraph(d), f1)
    => f1 = f2

(* Every run is made with one configuration.                               *)
OneEnv == \A e1, e2 \in Env : e1 = e2

(* What keeps a row from being replayed under another configuration.        *)
EnvKept == OneEnv \/ (OneProcess /\ NoTwins)

TransparentInv ==
  /\ TypeOK /\ RunsKnowTheDisk /\ RowsFromDisk /\ IdleHasNoRun
  /\ OneProcess => RecordInv

(* Only a commit adds a row, the lint of the disk it is made on.            *)
LEMMA StepRowsFromDisk ==
  ASSUME AllReadable, TypeOK, RunsKnowTheDisk, RowsFromDisk, [Next]_vars
  PROVE  RowsFromDisk'
<1> USE DEF RowsFromDisk
<1>1. ASSUME NEW p \in Proc, Commit(p) PROVE RowsFromDisk'
  <2> DEFINE f == file[p]
             new == [fileHash |-> CurrentRecord(p).contentHash,
                     closureHash |-> CurrentRecord(p).closureHash,
                     rule |-> run[p].rule, payload |-> answer[p]]
  <2>1. pc[p] \in Keyed /\ pc[p] \in Saving /\ pc[p] \in InHand /\ pc[p] # "idle"
    BY <1>1 DEF Commit, Keyed, Saving, InHand
  <2>2. rows' \subseteq rows \cup {new}
    BY <1>1 DEF Commit, putRuleResult
  <2>3. /\ f \in Path /\ isFile(disk, f) /\ disk \in Disk
        /\ new.fileHash = disk[f]
        /\ new.closureHash = closureHash(diskGraph(disk), f)
    BY <2>1, KeyOfTheDisk
  <2>4. run[p].env \in Env
    BY <2>1 DEF TypeOK, StageHas, Run
  <2>5. new.payload = lintSource(disk, f, disk[f], run[p].env, new.rule, TRUE)
    BY <2>1 DEF RunsKnowTheDisk, KnowsDisk, AtStage
  <2> HIDE DEF new
  <2>6. RowFrom(new)
    BY <2>3, <2>4, <2>5 DEF RowFrom
  <2>7. \A r \in rows' : r \in rows \/ r = new
    BY <2>2
  <2> QED BY <2>6, <2>7 DEF RowFrom
<1>2. ASSUME rows' \subseteq rows PROVE RowsFromDisk'
  BY <1>2 DEF RowFrom
<1>3. ASSUME NEW p \in Proc, Start(p) \/ Step(p) \/ Crash(p), ~Commit(p)
      PROVE  RowsFromDisk'
  <2>1. rows' \subseteq rows
    BY <1>3 DEF Start, Step, Refresh, LoadFile, Opened, ReadFile, LoadLookup, LoadDrop, Replay,
                Lint, SaveLookup, SaveDrop, Begin, Rollback, Finish, Crash, Exit, storeVars,
                dropRuleResults
  <2> QED BY <1>2, <2>1
<1>4. CASE UNCHANGED vars \/ \E q \in Path : Edit(q)
  <2>1. rows' = rows
    BY <1>4 DEF vars, Edit, storeVars
  <2> QED BY <1>2, <2>1
<1> QED BY <1>1, <1>3, <1>4 DEF Next, Step

(* A process has a run from its start to its end.                           *)
LEMMA StepIdle ==
  ASSUME TypeOK, IdleHasNoRun, [Next]_vars
  PROVE  IdleHasNoRun'
<1> USE DEF IdleHasNoRun
<1>1. CASE UNCHANGED vars \/ \E q \in Path : Edit(q)
  BY <1>1 DEF vars, Edit
<1>2. ASSUME NEW p \in Proc, Start(p) \/ Step(p) \/ Crash(p) PROVE IdleHasNoRun'
  <2>1. \A y \in Proc \ {p} : pc'[y] = pc[y] /\ run'[y] = run[y]
    BY <1>2, OthersUntouched DEF Untouched
  <2>2. pc'[p] = "idle" => run'[p] = NoRun
    <3>1. CASE Exit(p)
      BY <3>1 DEF Exit, TypeOK, FieldTypes
    <3>2. CASE ~Exit(p)
      <4>1. pc[p] \in Stage /\ pc \in [Proc -> Stage]
        BY DEF TypeOK, FieldTypes
      <4>2. pc'[p] # "idle"
        BY <1>2, <3>2, <4>1
        DEF Start, Step, Refresh, LoadFile, Opened, ReadFile, LoadLookup, LoadDrop, Replay, Lint,
            SaveLookup, SaveDrop, Begin, Commit, Rollback, Finish, Crash, Goto, NextFile
      <4> QED BY <4>2
    <3> QED BY <3>1, <3>2
  <2> QED BY <2>1, <2>2
<1> QED BY <1>1, <1>2 DEF Next

(* What a fresh lookup replays is the typed lint of a file of the disk as it *)
(* is: of the file in hand or, when the key cannot tell, of its twin.       *)
LEMMA ReplayTellsTheDisk ==
  ASSUME AllReadable, NoAliases, EnvKept, TransparentInv, NEW p \in Proc, pc[p] = "replay",
         NEW r \in ruleResult(rows, CurrentRecord(p), run[p].rule)
  PROVE  \E f \in Path :
           /\ isFile(disk, f)
           /\ r.payload = lintSource(disk, f, disk[f], run[p].env, run[p].rule, TRUE)
<1> DEFINE f2 == file[p]
<1> USE DEF TransparentInv
<1>1. /\ r \in rows /\ r.fileHash = CurrentRecord(p).contentHash
      /\ r.closureHash = CurrentRecord(p).closureHash /\ r.rule = run[p].rule
  BY DEF ruleResult, SameKey
<1>2. /\ f2 \in Path /\ isFile(disk, f2) /\ disk \in Disk
      /\ r.fileHash = disk[f2]
      /\ r.closureHash = closureHash(diskGraph(disk), f2)
  BY <1>1, KeyOfTheDisk DEF Keyed
<1>3. run[p].env \in Env /\ run[p].rule \in Rule
  BY DEF TypeOK, StageHas, Run
<1>4. PICK d \in Disk, f1 \in Path, e \in Env :
        /\ isFile(d, f1)
        /\ r.payload = lintSource(d, f1, d[f1], e, r.rule, TRUE)
        /\ r.fileHash = d[f1]
        /\ r.closureHash = closureHash(diskGraph(d), f1)
  BY <1>1 DEF RowsFromDisk, RowFrom
<1>5. World(diskGraph(d), f1) = World(diskGraph(disk), f2)
  <2>1. closureHash(diskGraph(d), f1) = closureHash(diskGraph(disk), f2)
    BY <1>2, <1>4
  <2> HIDE DEF f2
  <2> QED BY <1>2, <2>1, ClosureDeterminesWorld
<1>6. /\ isFile(disk, f1) /\ disk[f1] = d[f1]
      /\ f1 \in Reach(diskGraph(disk), f2)
      /\ World(diskGraph(disk), f1) = World(diskGraph(d), f1)
  BY <1>2, <1>4, <1>5, WorldOfMember
<1>7. lintSource(d, f1, d[f1], e, run[p].rule, TRUE) =
      lintSource(disk, f1, disk[f1], e, run[p].rule, TRUE)
  <2> DEFINE payload(w) == [path |-> f1, text |-> disk[f1], env |-> e, rule |-> run[p].rule,
                            typed |-> TRUE, world |-> w]
  <2>1. lintSource(d, f1, d[f1], e, run[p].rule, TRUE) = payload(World(diskGraph(d), f1))
    BY <1>3, <1>4, <1>6, LintSawTheDisk
  <2>2. lintSource(disk, f1, disk[f1], e, run[p].rule, TRUE) = payload(World(diskGraph(disk), f1))
    BY <1>2, <1>3, <1>6, LintSawTheDisk
  <2> QED BY <1>6, <2>1, <2>2
<1>8. e = run[p].env
  <2>1. CASE OneEnv
    BY <1>3, <2>1 DEF OneEnv
  <2>2. CASE OneProcess /\ NoTwins
    <3>1. f2 \in Reach(diskGraph(disk), f1)
      BY <1>2, <1>5, <1>6, WorldOfMember
    <3>2. f1 = f2
      BY <1>2, <1>4, <1>6, <2>2, <3>1 DEF NoTwins
    <3>3. r.payload.path = f1 /\ r.payload.env = e
      BY <1>4 DEF lintSource
    <3>4. files[f1].tsconfigHash = e
      <4>1. files[r.payload.path] = [contentHash  |-> r.fileHash,
                                     closureHash  |-> r.closureHash,
                                     tsconfigHash |-> r.payload.env]
        BY <1>1, <2>2 DEF RecordInv, RowsMatchRecord
      <4> QED BY <3>3, <4>1
    <3>5. files[f2].tsconfigHash = run[p].env
      BY <2>2 DEF RecordInv, StoreKept, CurrentRecord, recordFor
    <3> QED BY <3>2, <3>4, <3>5
  <2> QED BY <2>1, <2>2 DEF EnvKept
<1> QED BY <1>1, <1>4, <1>6, <1>7, <1>8

(* Each action is one of the service's, or nothing the caller can see.      *)
LEMMA StepServes ==
  ASSUME Quiet, NoAliases, EnvKept, TransparentInv, [Next]_vars
  PROVE  [ServiceNext]_serviceVars
<1> USE DEF TransparentInv
<1>1. ASSUME NEW q \in Path, Edit(q) PROVE Change
  BY <1>1 DEF Edit, Change, TypeOK, FieldTypes, Disk
<1>2. ASSUME NEW p \in Proc, Start(p) PROVE Ask(p)
  BY <1>2 DEF Start, Ask, IdleHasNoRun
<1>3. ASSUME NEW p \in Proc, Exit(p), pc[p] # "idle" PROVE Leave(p)
  <2>1. run[p] # NoRun
    BY <1>3, LintAssumption DEF TypeOK, StageHas
  <2> QED BY <1>3, <2>1 DEF Exit, Leave
<1>4. ASSUME NEW p \in Proc, Replay(p) PROVE Reply(p) \/ UNCHANGED serviceVars
  <2> DEFINE found == ruleResult(rows, CurrentRecord(p), run[p].rule)
  <2>1. pc[p] = "replay" /\ UNCHANGED <<disk, run>>
    BY <1>4 DEF Replay, runVars
  <2>2. CASE found = {}
    BY <1>4, <2>1, <2>2 DEF Replay, serviceVars
  <2>3. CASE found # {}
    <3>1. PICK r \in found : answer' = [answer EXCEPT ![p] = r.payload]
      BY <1>4, <2>3 DEF Replay
    <3>2. PICK f \in Path :
            /\ isFile(disk, f)
            /\ r.payload = lintSource(disk, f, disk[f], run[p].env, run[p].rule, TRUE)
      BY <2>1, ReplayTellsTheDisk DEF Quiet
    <3>3. run[p] # NoRun
      BY <2>1, LintAssumption DEF TypeOK, StageHas
    <3>4. answer' = [answer EXCEPT
                       ![p] = lintSource(disk, f, disk[f], run[p].env, run[p].rule, TRUE)]
      BY <3>1, <3>2
    <3> QED BY <2>1, <3>2, <3>3, <3>4 DEF Reply
  <2> QED BY <2>2, <2>3
<1>5. ASSUME NEW p \in Proc, Lint(p) PROVE Reply(p)
  <2>1. PICK failed \in BOOLEAN :
          answer' = [answer EXCEPT
            ![p] = lintSource(disk, file[p], source[p], run[p].env, run[p].rule,
                              typesOpen[p] /\ ~failed)]
    BY <1>5 DEF Lint
  <2>2. pc[p] \in InHand /\ pc[p] # "idle" /\ UNCHANGED <<disk, run>>
    BY <1>5 DEF Lint, InHand, runVars
  <2>3. isFile(disk, file[p]) /\ source[p] = disk[file[p]]
    BY <2>2 DEF RunsKnowTheDisk, KnowsDisk, AtStage
  <2>5. file[p] \in Path /\ run[p] # NoRun
    BY <2>2, LintAssumption DEF TypeOK, StageHas
  <2>4. (typesOpen[p] /\ ~failed) \in BOOLEAN
    OBVIOUS
  <2> QED BY <2>1, <2>2, <2>3, <2>4, <2>5 DEF Reply
<1>6. ASSUME NEW p \in Proc, Step(p), ~Replay(p), ~Lint(p), ~Finish(p)
      PROVE  UNCHANGED serviceVars
  BY <1>6 DEF Step, Refresh, LoadFile, Opened, ReadFile, LoadLookup, LoadDrop, SaveLookup,
              SaveDrop, Begin, Commit, Rollback, serviceVars, runVars
<1>7. CASE UNCHANGED vars
  BY <1>7 DEF vars, serviceVars
<1>8. ASSUME NEW p \in Proc, Finish(p) \/ Crash(p) PROVE Exit(p) /\ pc[p] # "idle"
  BY <1>8 DEF Finish, Crash
<1>9. ASSUME NEW p \in Proc, Start(p) \/ Step(p) \/ Crash(p)
      PROVE  Ask(p) \/ Reply(p) \/ Leave(p) \/ UNCHANGED serviceVars
  <2>1. CASE Start(p)
    BY <1>2, <2>1
  <2>2. CASE Finish(p) \/ Crash(p)
    BY <1>3, <1>8, <2>2
  <2>3. CASE Replay(p)
    BY <1>4, <2>3
  <2>4. CASE Lint(p)
    BY <1>5, <2>4
  <2>5. CASE Step(p) /\ ~Replay(p) /\ ~Lint(p) /\ ~Finish(p)
    BY <1>6, <2>5
  <2> QED BY <1>9, <2>1, <2>2, <2>3, <2>4, <2>5
<1> QED BY <1>1, <1>7, <1>9 DEF Next, ServiceNext

(* The cache is invisible (docs/rules.md, "Result cache"): while nobody edits *)
(* under a run, the type server starts and no tsconfig has aliases, every    *)
(* answer is the lint of the disk as it is, under the run's own              *)
(* configuration, whichever of lint, replay, drop, save, failure and crash   *)
(* came before (cli/lint.cc, cli/run.cc).  Runs with several configurations  *)
(* need one process at a time and no twins.                                 *)
THEOREM CacheIsTransparent ==
  ASSUME Quiet, NoAliases, EnvKept
  PROVE  Spec => Transparent
<1>1. Init => TransparentInv /\ ServiceInit
  <2>1. Init => RowsFromDisk /\ IdleHasNoRun /\ RecordInv /\ ServiceInit
    BY DEF Init, ServiceInit, RowsFromDisk, IdleHasNoRun, RecordInv, RowsMatchRecord, StoreKept,
           Saving
  <2> QED BY <2>1, InitTypes, InitKnows DEF TransparentInv
<1>2. TransparentInv /\ [Next]_vars => TransparentInv'
  <2> SUFFICES ASSUME TransparentInv, [Next]_vars PROVE TransparentInv'
    OBVIOUS
  <2>1. TypeOK' /\ RunsKnowTheDisk'
    BY StepTypes, StepKnows DEF TransparentInv
  <2>2. RowsFromDisk'
    BY StepRowsFromDisk DEF TransparentInv, Quiet
  <2>3. IdleHasNoRun'
    BY StepIdle DEF TransparentInv
  <2>4. OneProcess => RecordInv'
    BY StepKeepsRecords DEF TransparentInv
  <2> QED BY <2>1, <2>2, <2>3, <2>4 DEF TransparentInv, OneProcess
<1>3. TransparentInv /\ [Next]_vars => [ServiceNext]_serviceVars
  BY StepServes
<1> QED BY <1>1, <1>2, <1>3, PTL DEF Spec, Transparent, ServiceSpec

(* What the service keeps: no answer outlives its run.                      *)
ServiceInv ==
  /\ disk \in Disk
  /\ run \in [Proc -> Run \cup {NoRun}]
  /\ answer \in [Proc -> Payload \cup {NoAnswer}]
  /\ \A p \in Proc : run[p] = NoRun => answer[p] = NoAnswer
  /\ AnswersUnderOwnEnv

(* Each of the service's actions answers under the run that asked.          *)
LEMMA ServiceStep ==
  ASSUME ServiceInv, [ServiceNext]_serviceVars
  PROVE  ServiceInv'
<1> USE DEF ServiceInv, AnswersUnderOwnEnv
<1>1. CASE Change \/ UNCHANGED serviceVars
  BY <1>1 DEF Change, serviceVars
<1>2. ASSUME NEW p \in Proc, Ask(p) PROVE ServiceInv'
  BY <1>2 DEF Ask
<1>3. ASSUME NEW p \in Proc, Reply(p) PROVE ServiceInv'
  <2>1. PICK f \in Path, typed \in BOOLEAN :
          /\ isFile(disk, f)
          /\ answer' = [answer EXCEPT
               ![p] = lintSource(disk, f, disk[f], run[p].env, run[p].rule, typed)]
    BY <1>3 DEF Reply
  <2> DEFINE pl == lintSource(disk, f, disk[f], run[p].env, run[p].rule, typed)
  <2>2. /\ run[p] # NoRun /\ run[p].env \in Env /\ run[p].rule \in Rule
        /\ disk[f] \in Content /\ UNCHANGED <<disk, run>>
    BY <1>3, <2>1 DEF Reply, Run, Disk, isFile
  <2>3. pl \in Payload
    BY <2>2, LintTyped
  <2>4. pl.env = run[p].env
    BY DEF lintSource
  <2>5. answer' = [answer EXCEPT ![p] = pl]
    BY <2>1
  <2> HIDE DEF pl
  <2> QED BY <2>2, <2>3, <2>4, <2>5
<1>4. ASSUME NEW p \in Proc, Leave(p) PROVE ServiceInv'
  BY <1>4 DEF Leave
<1> QED BY <1>1, <1>2, <1>3, <1>4 DEF ServiceNext

(* So, where the cache is invisible, no run answers with what another        *)
(* configuration made (cli/run.cc, ResultCache::load).                      *)
THEOREM AnswersStayUnderOwnEnv ==
  ASSUME Quiet, NoAliases, EnvKept
  PROVE  Spec => []AnswersUnderOwnEnv
<1>1. ServiceInit => ServiceInv
  BY DEF ServiceInit, ServiceInv, AnswersUnderOwnEnv
<1>2. ServiceInv /\ [ServiceNext]_serviceVars => ServiceInv'
  BY ServiceStep
<1>3. ServiceInv => AnswersUnderOwnEnv
  BY DEF ServiceInv
<1>4. ServiceSpec => []AnswersUnderOwnEnv
  BY <1>1, <1>2, <1>3, PTL DEF ServiceSpec
<1>5. Spec => ServiceSpec
  BY CacheIsTransparent DEF Transparent
<1> QED BY <1>4, <1>5, PTL
=============================================================================
