------------------------ MODULE ProjectTypesProofs ------------------------
(***************************************************************************)
(* Proofs about the type source: its types, that live handles never leave  *)
(* the scope of the session, and that the server checks the text a caller  *)
(* handed over as long as no update is refused and every change of a file   *)
(* is reported before the file is typed.                                   *)
(***************************************************************************)
EXTENDS ProjectTypes, TLAPS

-----------------------------------------------------------------------------
(* A text the server reads again is a text or nothing (FileProvider).       *)
LEMMA ProgramTyped ==
  ASSUME TypeOK, NEW texts \in Disk, NEW opened,
         NEW held \in [Path -> Served \cup {NotServed}], NEW u
  PROVE  programAfter(texts, opened, held, u) \in Disk
<1>1. \A q \in Path : readFile(held, q) \in Content \cup {Absent}
  BY DEF readFile, Served, TypeOK, FieldTypes, Disk
<1> QED BY <1>1 DEF programAfter, Disk

(* The text held for a file is recorded with whether it is open (beginFile). *)
LEMMA HandedTyped ==
  ASSUME TypeOK, NEW f \in Path, NEW c \in Content
  PROVE  /\ Handed(f, c) \in Served
         /\ [served EXCEPT ![f] = Handed(f, c)] \in [Path -> Served \cup {NotServed}]
<1>1. Handed(f, c) \in Served
  BY DEF Handed, Served, TypeOK, FieldTypes
<1> QED BY <1>1 DEF TypeOK, FieldTypes

(* newSnapshot leaves the server with texts and open files, and with handles *)
(* it had before.                                                           *)
LEMMA UpdateTyped ==
  ASSUME TypeOK, NEW held \in [Path -> Served \cup {NotServed}],
         NEW u, u.open \subseteq Path, newSnapshot(held, u)
  PROVE  /\ program' \in Disk
         /\ openFiles' \subseteq Path
         /\ snapshot' \in SnapshotId
         /\ live' \subseteq live
<1>1. programAfter(program, openFiles, held, u) \in Disk
  BY ProgramTyped DEF TypeOK, FieldTypes
<1>2. openAfter(openFiles, u) \subseteq Path
  BY DEF openAfter, TypeOK, FieldTypes
<1>3. CASE Apply(held, u) /\ live' = {}
  BY <1>1, <1>2, <1>3 DEF Apply, NewSnapshot
<1>4. CASE Refused /\ UNCHANGED live
  BY <1>4 DEF Refused, serverVars, TypeOK, FieldTypes
<1> QED BY <1>3, <1>4 DEF newSnapshot

(* A file that is typed is typed under a registered tsconfig.               *)
LEMMA RoutedToProject ==
  ASSUME TypeOK, NEW f \in Path, projectOf(f) # NoProject
  PROVE  projectOf(f) = fileProject[f] /\ projectOf(f) \in projects
BY DEF projectOf

(* A caller's file is in hand under a session of the current snapshot and    *)
(* the file's project, and the handles that are live are that session's.    *)
LEMMA TypedInSession ==
  ASSUME TypeOK, HandlesInScope, NEW f \in Path, NEW c \in Content, projectOf(f) # NoProject,
         snapshot' \in SnapshotId, Typed(f, c)
  PROVE  /\ session' = [snapshot |-> snapshot', project |-> fileProject[f]]
         /\ session' \in Session /\ session'.project \in projects
         /\ live' \subseteq {session'}
         /\ live' \subseteq Session
         /\ facts' = [file |-> f, text |-> c]
         /\ facts' \in Facts
<1>1. projectOf(f) = fileProject[f] /\ projectOf(f) \in projects /\ projects \subseteq Project
  BY RoutedToProject DEF TypeOK, FieldTypes
<1>2. facts' = [file |-> f, text |-> c] /\ facts' \in Facts
  BY DEF Typed, Facts
<1>3. session' = [snapshot |-> snapshot', project |-> fileProject[f]]
  BY <1>1 DEF Typed, bindSession
<1>4. session' \in Session /\ session'.project \in projects
  BY <1>1, <1>3 DEF Session
<1>5. live' \subseteq {session'} /\ live' \subseteq Session
  BY <1>1, <1>3, <1>4 DEF Typed, bindSession, HandlesInScope, TypeOK, FieldTypes
<1> QED BY <1>2, <1>3, <1>4, <1>5
-----------------------------------------------------------------------------
(* The scope of the handles together with the types: one invariant.         *)
Scoped == TypeOK /\ HandlesInScope

(* A source that was not opened yet holds nothing.                          *)
LEMMA InitScoped == Init => Scoped
<1> SUFFICES ASSUME Init PROVE Scoped
  OBVIOUS
<1> USE DEF Init, TypesInit
<1>1. served \in [Path -> Served \cup {NotServed}]
  OBVIOUS
<1>2. fileProject \in [Path -> Project \cup {NoProject}]
  OBVIOUS
<1>3. program \in Disk
  BY DEF Disk
<1>4. edits \in 0..MaxEdits
  BY TypesAssumption
<1> QED BY <1>1, <1>2, <1>3, <1>4 DEF Scoped, TypeOK, FieldTypes, HandlesInScope

(* Outside of beginFile a file in hand keeps its snapshot and its session.   *)
LEMMA BeginFileScoped ==
  ASSUME Scoped, NEW f \in Path, NEW c \in Content, facts = NoFacts, beginFile(f, c),
         UNCHANGED environment
  PROVE  Scoped'
<1> USE DEF Scoped
<1> DEFINE held == [served EXCEPT ![f] = Handed(f, c)]
<1>1. held \in [Path -> Served \cup {NotServed}]
  BY HandedTyped
<1>2. isOpen' = isOpen /\ alive' = alive /\ projects' = projects /\ fileProject' = fileProject
  BY DEF beginFile
<1>3. CASE ~alive \/ projectOf(f) = NoProject
  BY <1>3 DEF beginFile, Untyped, serverVars, environment, TypeOK, FieldTypes, HandlesInScope
<1>4. CASE alive /\ projectOf(f) # NoProject
  <2>1. served' = held
    BY <1>4 DEF beginFile
  <2>2. served' \in [Path -> Served \cup {NotServed}]
    BY <1>1, <2>1
  <2> HIDE DEF held
  <2>3. ASSUME program' \in Disk, openFiles' \subseteq Path, snapshot' \in SnapshotId, Typed(f, c)
        PROVE  Scoped'
    <3>1. /\ session' = [snapshot |-> snapshot', project |-> fileProject[f]]
          /\ session' \in Session /\ session'.project \in projects
          /\ live' \subseteq {session'}
          /\ live' \subseteq Session
          /\ facts' = [file |-> f, text |-> c]
          /\ facts' \in Facts
      BY <1>4, <2>3, TypedInSession
    <3>2. session' # NoSession /\ facts'.file = f
      BY <3>1, TypesSentinels
    <3> QED BY <1>2, <1>4, <2>2, <2>3, <3>1, <3>2
        DEF TypeOK, FieldTypes, HandlesInScope, environment
  <2>4. ASSUME program' \in Disk, openFiles' \subseteq Path, snapshot' \in SnapshotId, Untyped,
               live' \subseteq live
        PROVE  Scoped'
    BY <1>2, <2>2, <2>4 DEF Untyped, TypeOK, FieldTypes, HandlesInScope, environment
  <2>5. ASSUME NEW texts \in Disk, NEW opened, NEW u
        PROVE  programAfter(texts, opened, held, u) \in Disk
    BY <1>1, <2>5, ProgramTyped
  <2>6. ASSUME NEW u, u.open \subseteq Path, Apply(held, u)
        PROVE  program' \in Disk /\ openFiles' \subseteq Path /\ snapshot' \in SnapshotId
    BY <2>5, <2>6 DEF Apply, openAfter, NewSnapshot, TypeOK, FieldTypes
  <2>7. ASSUME NEW u, u.open \subseteq Path, NEW v, v.open \subseteq Path, ApplyBoth(held, u, v)
        PROVE  program' \in Disk /\ openFiles' \subseteq Path /\ snapshot' \in SnapshotId
    BY <2>5, <2>7 DEF ApplyBoth, openAfter, NewSnapshot, TypeOK, FieldTypes
  <2>8. UpdateFor(f).open \subseteq Path /\ Closing(f).open \subseteq Path
        /\ Opening(f).open \subseteq Path
    BY DEF UpdateFor, Created, Changed, Closing, Opening
  <2>9. CASE UNCHANGED serverVars /\ Typed(f, c)
    BY <2>3, <2>9 DEF serverVars, TypeOK, FieldTypes
  <2>10. CASE Apply(held, UpdateFor(f)) /\ Typed(f, c)
    BY <2>3, <2>6, <2>8, <2>10
  <2>11. CASE ApplyBoth(held, Closing(f), Opening(f)) /\ Typed(f, c)
    BY <2>3, <2>7, <2>8, <2>11
  <2>12. CASE Apply(held, Closing(f)) /\ live' = {} /\ Untyped
    BY <2>4, <2>6, <2>8, <2>12
  <2>13. CASE Refused /\ Untyped /\ UNCHANGED live
    BY <2>4, <2>13 DEF Refused, serverVars, TypeOK, FieldTypes
  <2> QED BY <1>4, <2>9, <2>10, <2>11, <2>12, <2>13 DEF beginFile, held
<1> QED BY <1>3, <1>4

(* forgetFile and filesChanged drop texts and ask for a snapshot.            *)
LEMMA FilesChangedScoped ==
  ASSUME Scoped, NEW fs \in SUBSET Path, facts = NoFacts, filesChanged(fs),
         disk' = disk, notices' \subseteq Path, edits' = edits
  PROVE  Scoped'
<1> USE DEF Scoped
<1> DEFINE held == [q \in Path |-> IF q \in fs THEN NotServed ELSE served[q]]
<1>1. CASE ~isOpen
  BY <1>1 DEF filesChanged, serverVars, TypeOK, FieldTypes, HandlesInScope
<1>2. CASE isOpen
  <2>1. held \in [Path -> Served \cup {NotServed}]
    BY DEF TypeOK, FieldTypes
  <2>2. served' = held /\ newSnapshot(held, dropServed(fs))
    BY <1>2 DEF filesChanged
  <2> HIDE DEF held
  <2>3. dropServed(fs).open \subseteq Path
    BY DEF dropServed
  <2>4. program' \in Disk /\ openFiles' \subseteq Path /\ snapshot' \in SnapshotId /\ live' \subseteq live
    BY <2>1, <2>2, <2>3, UpdateTyped
  <2> QED BY <2>1, <2>2, <2>4 DEF filesChanged, TypeOK, FieldTypes, HandlesInScope
<1> QED BY <1>1, <1>2

(* One step per operation: only beginFile binds a session, and only query     *)
(* adds handles.                                                            *)
LEMMA StepScoped == Scoped /\ [Next]_vars => Scoped'
<1> SUFFICES ASSUME Scoped, [Next]_vars PROVE Scoped'
  OBVIOUS
<1> USE DEF Scoped
<1>1. ASSUME NEW q \in Path, Edit(q) PROVE Scoped'
  <2>1. disk' \in Disk /\ notices' \subseteq Path /\ edits' \in 0..MaxEdits
    BY <1>1, TypesAssumption DEF Edit, TypeOK, FieldTypes, Disk
  <2> QED BY <1>1, <2>1 DEF Edit, typeVars, serverVars, TypeOK, FieldTypes, HandlesInScope
<1>2. CASE Report
  BY <1>2, FilesChangedScoped DEF Report, TypeOK, FieldTypes
<1>3. ASSUME NEW configs \in SUBSET Project, Caller(open(configs)) PROVE Scoped'
  BY <1>3 DEF Caller, open, NothingHeld, NewSnapshot, environment, TypeOK, FieldTypes, HandlesInScope
<1>4. ASSUME NEW config \in Project, Caller(addProject(config)) PROVE Scoped'
  <2>1. PICK more \in SUBSET Path :
          newSnapshot(served, [files |-> more, open |-> {}, close |-> {}])
    BY <1>4 DEF Caller, addProject
  <2>2. program' \in Disk /\ openFiles' \subseteq Path /\ snapshot' \in SnapshotId /\ live' \subseteq live
    BY <2>1, UpdateTyped DEF TypeOK, FieldTypes
  <2> QED BY <1>4, <2>2 DEF Caller, addProject, environment, TypeOK, FieldTypes, HandlesInScope
<1>5. ASSUME NEW f \in Path, NEW config \in Project, Caller(setFileProject(f, config)) PROVE Scoped'
  BY <1>5 DEF Caller, setFileProject, environment, serverVars, TypeOK, FieldTypes, HandlesInScope
<1>6. ASSUME NEW f \in Path, Caller(filesChanged({f})) PROVE Scoped'
  BY <1>6, FilesChangedScoped DEF Caller, environment, TypeOK, FieldTypes
<1>7. ASSUME NEW f \in Path, NEW c \in Content, Begin(f, c) PROVE Scoped'
  BY <1>7, BeginFileScoped DEF Begin, Caller
<1>8. CASE query /\ UNCHANGED environment
  BY <1>8 DEF query, environment, serverVars, TypeOK, FieldTypes, HandlesInScope
<1>9. CASE endFile /\ UNCHANGED environment
  BY <1>9 DEF endFile, environment, serverVars, TypeOK, FieldTypes, HandlesInScope
<1>10. CASE Caller(close)
  BY <1>10 DEF Caller, close, NothingHeld, environment, TypeOK, FieldTypes, HandlesInScope, Disk
<1>11. CASE ServerDies /\ UNCHANGED environment
  BY <1>11 DEF ServerDies, environment, serverVars, TypeOK, FieldTypes, HandlesInScope
<1>12. CASE UNCHANGED vars
  BY <1>12 DEF vars, environment, typeVars, serverVars, TypeOK, FieldTypes, HandlesInScope
<1> QED BY <1>1, <1>2, <1>3, <1>4, <1>5, <1>6, <1>7, <1>8, <1>9, <1>10, <1>11, <1>12 DEF Next

(* Types hold in every use of the type source (types/type_source.cc).       *)
THEOREM TypesHold == Spec => []TypeOK
<1>1. Scoped => TypeOK
  BY DEF Scoped
<1> QED BY <1>1, InitScoped, StepScoped, PTL DEF Spec

(* types/type_source.cc, bindSession and newSnapshot: whatever the server     *)
(* refuses and whenever it dies, the handles in the type graph are those of   *)
(* the session that asks, and a file in hand is asked about in the current    *)
(* snapshot under its own project.                                          *)
THEOREM HandlesStayInScope == Spec => []HandlesInScope
<1>1. Scoped => HandlesInScope
  BY DEF Scoped
<1> QED BY <1>1, InitScoped, StepScoped, PTL DEF Spec
-----------------------------------------------------------------------------
(* Every update of a live server goes through, and a change is reported       *)
(* before the file is typed.                                                *)
Prompt == ~SnapshotMayFail /\ ~LateNotices

(* The file in hand was handed over: its text is the one held for it.       *)
InHandIsHanded ==
  facts # NoFacts /\ alive =>
    served[facts.file] # NotServed /\ served[facts.file].text = facts.text

InStep == TypeOK /\ ServerInStep /\ InHandIsHanded

(* What the server has for a file after one update (FileProvider, snapshot).  *)
LEMMA ReadAgain ==
  ASSUME NEW texts, NEW opened, NEW held, NEW u, NEW q \in Path
  PROVE  programAfter(texts, opened, held, u)[q] =
           IF q \in (u.files \cup u.open \cup u.close) \ (opened \ u.close)
             THEN readFile(held, q) ELSE texts[q]
BY DEF programAfter

(* beginFile: the server has the text it was handed, under its updates for a  *)
(* file of the disk, a file that has to be created and one that is held open. *)
LEMMA BeginFileInStep ==
  ASSUME Prompt, InStep, NEW f \in Path, NEW c \in Content, Begin(f, c), TypeOK'
  PROVE  InStep'
<1> DEFINE held == [served EXCEPT ![f] = Handed(f, c)]
<1>1. /\ facts = NoFacts /\ notices = {} /\ beginFile(f, c)
      /\ disk' = disk /\ notices' = notices /\ alive' = alive
  BY DEF Prompt, Begin, Caller, environment, beginFile
<1>2. CASE ~alive \/ projectOf(f) = NoProject
  BY <1>1, <1>2
  DEF beginFile, Untyped, serverVars, InStep, ServerInStep, HoldsWhatItWouldRead, InHandIsHanded
<1>3. CASE alive /\ projectOf(f) # NoProject
  <2>1. served' = held
    BY <1>1, <1>3 DEF beginFile
  <2>2. /\ held[f] = Handed(f, c) /\ held[f] # NotServed /\ held[f].text = c
        /\ \A q \in Path \ {f} : held[q] = served[q]
    BY HandedTyped, TypesSentinels DEF InStep, TypeOK, FieldTypes, Handed
  <2>3. readFile(held, f) = c
    BY <2>2 DEF readFile
  <2> HIDE DEF held
  <2>4. \A q \in Path : HoldsWhatItWouldRead(q)
    BY <1>3 DEF InStep, ServerInStep
  <2>5. served[f] # NotServed => served[f] \in Served
    BY DEF InStep, TypeOK, FieldTypes
  <2>12. /\ served[f] = NotServed => (held[f].opened <=> disk[f] = Absent)
         /\ served[f] # NotServed => (held[f].opened <=> served[f].opened)
    <3>1. Handed(f, c).opened =
            IF served[f] = NotServed THEN disk[f] = Absent ELSE served[f].opened
      BY DEF Handed
    <3>2. served[f] # NotServed => served[f].opened \in BOOLEAN
      BY <2>5 DEF Served
    <3> QED BY <2>2, <3>1, <3>2
  <2>6. openFiles \subseteq Path /\ disk[f] \in Content \cup {Absent}
    BY DEF InStep, TypeOK, FieldTypes, Disk
  <2>7. ASSUME program'[f] = c, f \in openFiles' <=> held[f].opened,
               \A q \in Path \ {f} : program'[q] = program[q] /\ (q \in openFiles' <=> q \in openFiles),
               Typed(f, c)
        PROVE  InStep'
    <3>1. ServerInStep'
      BY <1>1, <2>1, <2>2, <2>4, <2>7 DEF ServerInStep, HoldsWhatItWouldRead
    <3>2. facts' = [file |-> f, text |-> c]
      BY <2>7 DEF Typed
    <3>3. InHandIsHanded'
      BY <2>1, <2>2, <3>2 DEF InHandIsHanded
    <3> QED BY <3>1, <3>3 DEF InStep
  <2>8. CASE SameText(f, c) /\ UNCHANGED serverVars /\ Typed(f, c)
    <3>1. program[f] = c
      BY <1>1, <2>4, <2>8 DEF SameText, HoldsWhatItWouldRead
    <3>2. f \in openFiles <=> held[f].opened
      BY <2>4, <2>8, <2>12, ImportsAssumption DEF SameText, HoldsWhatItWouldRead
    <3> QED BY <2>7, <2>8, <3>1, <3>2 DEF serverVars
  <2>9. CASE ~SameText(f, c) /\ ~ToReopen(f) /\ Apply(held, UpdateFor(f)) /\ Typed(f, c)
    <3>1. f \notin openFiles
      BY <2>4, <2>9 DEF ToReopen, HoldsWhatItWouldRead
    <3>2. /\ UpdateFor(f).files = {f} /\ UpdateFor(f).close = {}
          /\ UpdateFor(f).open = IF ToCreate(f) THEN {f} ELSE {}
      BY DEF UpdateFor, Created, Changed
    <3>3. program'[f] = c
      BY <2>3, <2>9, <3>1, <3>2, ReadAgain DEF Apply
    <3>4. \A q \in Path \ {f} : program'[q] = program[q]
      BY <2>9, <3>2, ReadAgain DEF Apply
    <3>5. openFiles' = openFiles \cup (IF ToCreate(f) THEN {f} ELSE {})
      BY <2>9, <3>2 DEF Apply, openAfter
    <3>6. held[f].opened <=> ToCreate(f)
      BY <2>9, <2>12 DEF ToCreate, ToReopen
    <3> QED BY <2>7, <2>9, <3>1, <3>3, <3>4, <3>5, <3>6
  <2>10. CASE ToReopen(f) /\ ApplyBoth(held, Closing(f), Opening(f)) /\ Typed(f, c)
    <3>1. f \in openFiles /\ held[f].opened
      BY <2>4, <2>10, <2>12 DEF ToReopen, HoldsWhatItWouldRead
    <3>2. /\ Closing(f).files = {f} /\ Closing(f).open = {} /\ Closing(f).close = {f}
          /\ Opening(f).files = {} /\ Opening(f).open = {f} /\ Opening(f).close = {}
      BY DEF Closing, Opening
    <3>3. openAfter(openFiles, Closing(f)) = openFiles \ {f}
      BY <3>2 DEF openAfter
    <3>4. openFiles' = openFiles
      BY <2>10, <3>1, <3>2, <3>3 DEF ApplyBoth, openAfter
    <3>5. program'[f] = c
      BY <2>3, <2>10, <3>2, <3>3, ReadAgain DEF ApplyBoth
    <3>6. \A q \in Path \ {f} : program'[q] = program[q]
      BY <2>10, <3>2, ReadAgain DEF ApplyBoth
    <3> QED BY <2>7, <2>10, <3>1, <3>4, <3>5, <3>6
  <2>11. ~Refused
    BY <1>3 DEF Refused, Prompt
  <2> QED BY <1>1, <1>3, <2>8, <2>9, <2>10, <2>11 DEF beginFile, Prompt, held
<1> QED BY <1>2, <1>3

(* filesChanged: a text that is dropped leaves the server with the disk's.   *)
LEMMA FilesChangedInStep ==
  ASSUME Prompt, InStep, NEW fs \in SUBSET Path, facts = NoFacts, filesChanged(fs),
         disk' = disk, notices' = notices \/ (notices' = {} /\ fs = notices), TypeOK'
  PROVE  InStep'
<1> DEFINE held == [q \in Path |-> IF q \in fs THEN NotServed ELSE served[q]]
<1>1. facts' = NoFacts /\ alive' = alive
  BY DEF filesChanged
<1>2. InHandIsHanded'
  BY <1>1 DEF InHandIsHanded
<1>3. CASE ~alive
  BY <1>1, <1>2, <1>3 DEF InStep, ServerInStep
<1>4. CASE alive
  <2>1. isOpen
    BY <1>4 DEF InStep, TypeOK
  <2>2. served' = held /\ Apply(held, dropServed(fs))
    BY <1>4, <2>1 DEF filesChanged, newSnapshot, Refused, Prompt
  <2>3. \A q \in Path : held[q] = IF q \in fs THEN NotServed ELSE served[q]
    OBVIOUS
  <2> HIDE DEF held
  <2>4. /\ dropServed(fs).files = fs /\ dropServed(fs).open = {}
        /\ dropServed(fs).close = {q \in fs : served[q] # NotServed /\ served[q].opened}
    BY DEF dropServed
  <2>5. ASSUME NEW q \in Path PROVE HoldsWhatItWouldRead(q)'
    <3>1. HoldsWhatItWouldRead(q)
      BY <1>4 DEF InStep, ServerInStep
    <3>2. q \in openFiles' <=> q \in openFiles /\ q \notin dropServed(fs).close
      BY <2>2, <2>4 DEF Apply, openAfter
    <3>3. CASE q \in fs
      <4>1. q \in openFiles <=> q \in dropServed(fs).close
        BY <2>4, <3>1, <3>3 DEF HoldsWhatItWouldRead
      <4>2. program'[q] = readFile(held, q)
        BY <2>2, <2>4, <3>3, <4>1, ReadAgain DEF Apply
      <4>3. program'[q] = disk[q]
        BY <2>3, <3>3, <4>2 DEF readFile
      <4> QED BY <2>2, <2>3, <3>2, <3>3, <4>1, <4>3 DEF HoldsWhatItWouldRead
    <3>4. CASE q \notin fs
      <4>1. program'[q] = program[q]
        BY <2>2, <2>4, <3>4, ReadAgain DEF Apply
      <4>2. q \in openFiles' <=> q \in openFiles
        BY <2>4, <3>2, <3>4
      <4> QED BY <2>2, <2>3, <3>1, <3>4, <4>1, <4>2 DEF HoldsWhatItWouldRead
    <3> QED BY <3>3, <3>4
  <2> QED BY <1>1, <1>2, <2>5 DEF InStep, ServerInStep
<1> QED BY <1>3, <1>4

(* addProject: whatever the server reads again, it finds what it held.       *)
LEMMA AddProjectInStep ==
  ASSUME Prompt, InStep, NEW config \in Project, Caller(addProject(config)), TypeOK'
  PROVE  InStep'
<1>1. /\ facts' = NoFacts /\ alive' = alive /\ served' = served /\ UNCHANGED environment
  BY DEF Caller, addProject
<1>2. InHandIsHanded'
  BY <1>1 DEF InHandIsHanded
<1>3. CASE ~alive
  BY <1>1, <1>2, <1>3 DEF InStep, ServerInStep
<1>4. CASE alive
  <2>1. PICK more \in SUBSET Path :
          newSnapshot(served, [files |-> more, open |-> {}, close |-> {}])
    BY DEF Caller, addProject
  <2> DEFINE u == [files |-> more, open |-> {}, close |-> {}]
  <2>2. Apply(served, u)
    BY <1>4, <2>1 DEF newSnapshot, Refused, Prompt
  <2>3. u.files = more /\ u.open = {} /\ u.close = {}
    OBVIOUS
  <2> HIDE DEF u
  <2>4. openFiles' = openFiles
    BY <2>2, <2>3 DEF Apply, openAfter
  <2>5. ASSUME NEW q \in Path PROVE HoldsWhatItWouldRead(q)'
    <3>1. HoldsWhatItWouldRead(q)
      BY <1>4 DEF InStep, ServerInStep
    <3>2. program'[q] \in {readFile(served, q), program[q]}
      BY <2>2, ReadAgain DEF Apply
    <3> QED BY <1>1, <2>4, <3>1, <3>2 DEF HoldsWhatItWouldRead, readFile, environment
  <2> QED BY <1>1, <1>2, <2>5 DEF InStep, ServerInStep
<1> QED BY <1>3, <1>4

(* One step per operation.                                                  *)
LEMMA StepInStep ==
  ASSUME Prompt
  PROVE  InStep /\ TypeOK' /\ [Next]_vars => InStep'
<1> SUFFICES ASSUME InStep, TypeOK', [Next]_vars PROVE InStep'
  OBVIOUS
<1>1. ASSUME NEW q \in Path, Edit(q) PROVE InStep'
  <2>1. \A x \in Path : x \notin notices' => x \notin notices /\ disk'[x] = disk[x]
    BY <1>1 DEF Edit, InStep, TypeOK, FieldTypes, Disk
  <2> QED BY <1>1, <2>1 DEF Edit, typeVars, serverVars, InStep, ServerInStep,
             HoldsWhatItWouldRead, InHandIsHanded
<1>2. CASE Report
  BY <1>2, FilesChangedInStep DEF Report, InStep, TypeOK, FieldTypes
<1>3. ASSUME NEW configs \in SUBSET Project, Caller(open(configs)) PROVE InStep'
  BY <1>3 DEF Caller, open, NothingHeld, environment, InStep, ServerInStep,
              HoldsWhatItWouldRead, InHandIsHanded
<1>4. ASSUME NEW config \in Project, Caller(addProject(config)) PROVE InStep'
  BY <1>4, AddProjectInStep
<1>5. ASSUME NEW f \in Path, NEW config \in Project, Caller(setFileProject(f, config)) PROVE InStep'
  BY <1>5 DEF Caller, setFileProject, environment, serverVars, InStep, ServerInStep,
              HoldsWhatItWouldRead, InHandIsHanded
<1>6. ASSUME NEW f \in Path, Caller(filesChanged({f})) PROVE InStep'
  <2>1. facts = NoFacts /\ filesChanged({f}) /\ disk' = disk /\ notices' = notices
    BY <1>6 DEF Caller, environment
  <2> QED BY <2>1, FilesChangedInStep
<1>7. ASSUME NEW f \in Path, NEW c \in Content, Begin(f, c) PROVE InStep'
  BY <1>7, BeginFileInStep
<1>8. CASE query /\ UNCHANGED environment
  BY <1>8 DEF query, environment, serverVars, InStep, ServerInStep, HoldsWhatItWouldRead,
              InHandIsHanded
<1>9. CASE endFile /\ UNCHANGED environment
  BY <1>9 DEF endFile, environment, serverVars, InStep, ServerInStep, HoldsWhatItWouldRead,
              InHandIsHanded
<1>10. CASE Caller(close)
  BY <1>10 DEF Caller, close, NothingHeld, environment, InStep, ServerInStep, InHandIsHanded
<1>11. CASE ServerDies /\ UNCHANGED environment
  BY <1>11 DEF ServerDies, InStep, ServerInStep, InHandIsHanded
<1>12. CASE UNCHANGED vars
  BY <1>12 DEF vars, environment, typeVars, serverVars, InStep, ServerInStep,
               HoldsWhatItWouldRead, InHandIsHanded
<1> QED BY <1>1, <1>2, <1>3, <1>4, <1>5, <1>6, <1>7, <1>8, <1>9, <1>10, <1>11, <1>12 DEF Next

(* A server that was not started holds nothing to be out of step with.       *)
LEMMA InitInStep == Init => InStep
BY InitScoped DEF Init, TypesInit, Scoped, InStep, ServerInStep, InHandIsHanded

(* types/type_source.cc: with every update accepted and every change reported *)
(* in time, a live server holds the texts it was handed and the disk's for    *)
(* the rest, and holds open exactly the files it was told to create.         *)
THEOREM ServerStaysInStep ==
  ASSUME Prompt
  PROVE  Spec => []ServerInStep
<1>1. Init => Scoped /\ InStep
  BY InitScoped, InitInStep
<1>2. Scoped /\ InStep /\ [Next]_vars => Scoped' /\ InStep'
  BY StepScoped, StepInStep DEF Scoped
<1>3. InStep => ServerInStep
  BY DEF InStep
<1> QED BY <1>1, <1>2, <1>3, PTL DEF Spec

(* docs/type-facts.md, "Type sources": the tree the rules walk and the text   *)
(* the server answers about are the same, whatever was handed over, dropped,  *)
(* created or changed before.                                               *)
THEOREM AnswersStayMatched ==
  ASSUME Prompt
  PROVE  Spec => []AnswersMatchTree
<1>1. Init => Scoped /\ InStep
  BY InitScoped, InitInStep
<1>2. Scoped /\ InStep /\ [Next]_vars => Scoped' /\ InStep'
  BY StepScoped, StepInStep DEF Scoped
<1>3. InStep => AnswersMatchTree
  <2>1. ASSUME InStep, facts # NoFacts, alive PROVE program[facts.file] = facts.text
    <3>1. facts.file \in Path
      BY <2>1 DEF InStep, TypeOK, FieldTypes, Facts
    <3> QED BY <2>1, <3>1 DEF InStep, ServerInStep, HoldsWhatItWouldRead, InHandIsHanded
  <2> QED BY <2>1 DEF AnswersMatchTree
<1> QED BY <1>1, <1>2, <1>3, PTL DEF Spec
=============================================================================
