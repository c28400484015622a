---------------------------- MODULE ProjectTypes ----------------------------
(***************************************************************************)
(* The type source of types/type_source.cc: which text of each file the    *)
(* type server was handed, what it holds, and whose snapshot the live      *)
(* handles belong to.                                                      *)
(*                                                                         *)
(* The server (tsgo) is modelled from how this code uses it: it holds one  *)
(* text per file, reads again exactly the files an update names, through   *)
(* FileProvider, and keeps the text of an open file until it is closed.    *)
(* A list of updates is sent in order, and one that fails ends it.         *)
(***************************************************************************)
EXTENDS ImportGraph

CONSTANTS
  Project,           \* tsconfigs
  SnapshotId,        \* names of snapshots; one nothing refers to may come again
  NotServed,         \* no text is held for a file
  NoSession,         \* nothing is bound
  NoProject,         \* a file no tsconfig claims
  NoFacts,           \* no file in hand
  SnapshotMayFail,   \* whether a live server may refuse an update
  LateNotices,       \* whether a file may be typed before its change is reported
  MaxEdits           \* bound: changes to the disk

(* What a request reads, the provider can open. *)
ASSUME ReadableAssumption == Locked = {}

ASSUME TypesAssumption ==
  /\ {SnapshotMayFail, LateNotices} \subseteq BOOLEAN
  /\ MaxEdits \in Nat
  /\ NoProject \notin Project
  /\ SnapshotId # {}

Served == [text : Content, opened : BOOLEAN]
Session == [snapshot : SnapshotId, project : Project]
Facts == [file : Path, text : Content]

ASSUME TypesSentinels ==
  /\ NotServed \notin Served
  /\ NoSession \notin Session
  /\ NoFacts \notin Facts

VARIABLES
  disk,         \* [Path -> Content or Absent]
  notices,      \* files changed on disk and not reported yet
  edits,        \* changes made to the disk so far
  isOpen,       \* m_open
  alive,        \* the server process runs and the connection is sound
  projects,     \* m_projects
  fileProject,  \* [Path -> Project or NoProject]: m_fileProject
  served,       \* [Path -> Served or NotServed]: m_served
  program,      \* [Path -> Content or Absent]: what the server holds
  openFiles,    \* the files the server holds open
  snapshot,     \* the current snapshot
  session,      \* what m_session is bound to, or NoSession
  live,         \* whose handles the type graph's rows carry
  facts         \* the file being linted and the text of its tree, or NoFacts

environment == <<disk, notices, edits>>
serverVars == <<program, openFiles, snapshot>>
typeVars == <<isOpen, alive, projects, fileProject, served, serverVars, session, live, facts>>
vars == <<environment, typeVars>>

TypesInit ==
  /\ isOpen = FALSE
  /\ alive = FALSE
  /\ projects = {}
  /\ fileProject = [q \in Path |-> NoProject]
  /\ served = [q \in Path |-> NotServed]
  /\ program = [q \in Path |-> Absent]
  /\ openFiles = {}
  /\ snapshot \in SnapshotId
  /\ session = NoSession
  /\ live = {}
  /\ facts = NoFacts
-----------------------------------------------------------------------------
(* What a re-read of q finds: the text handed over, or the disk. *)
readFile(held, q) == IF held[q] = NotServed THEN disk[q] ELSE held[q].text

(* SnapshotUpdate: files changed, created or deleted, and files to open and close. *)
Changed(q) == [files |-> {q}, open |-> {}, close |-> {}]
Created(q) == [files |-> {q}, open |-> {q}, close |-> {}]
Closing(q) == [files |-> {q}, open |-> {}, close |-> {q}]
Opening(q) == [files |-> {}, open |-> {q}, close |-> {}]

(* The server's texts and open files after an update. *)
programAfter(texts, opened, held, u) ==
  LET reread == (u.files \cup u.open \cup u.close) \ (opened \ u.close) IN
  [q \in Path |-> IF q \in reread THEN readFile(held, q) ELSE texts[q]]

openAfter(opened, u) == (opened \ u.close) \cup u.open

(* The server answers an update with a snapshot of its own. *)
InUse == {snapshot} \cup {h.snapshot : h \in live \cup ({session} \ {NoSession})}

NewSnapshot == snapshot' \in SnapshotId \ InUse

(* One update goes through. *)
Apply(held, u) ==
  /\ alive
  /\ program' = programAfter(program, openFiles, held, u)
  /\ openFiles' = openAfter(openFiles, u)
  /\ NewSnapshot

(* Two updates go through, one after the other. *)
ApplyBoth(held, u, v) ==
  /\ alive
  /\ program' = programAfter(programAfter(program, openFiles, held, u),
                             openAfter(openFiles, u), held, v)
  /\ openFiles' = openAfter(openAfter(openFiles, u), v)
  /\ NewSnapshot

(* An update the server refused, or that could not be sent, changes nothing. *)
Refused ==
  /\ ~alive \/ SnapshotMayFail
  /\ UNCHANGED serverVars

(* newSnapshot: handles of the snapshot before are dropped from the graph.   *)
newSnapshot(held, u) ==
  \/ Apply(held, u) /\ live' = {}
  \/ Refused /\ UNCHANGED live
-----------------------------------------------------------------------------
NothingHeld ==
  /\ fileProject' = [q \in Path |-> NoProject]
  /\ served' = [q \in Path |-> NotServed]
  /\ openFiles' = {}
  /\ session' = NoSession
  /\ live' = {}
  /\ facts' = NoFacts

(* open: the server starts and reads the files of every tsconfig.  When that *)
(* fails, nothing is open.                                                 *)
open(configs) ==
  /\ ~isOpen
  /\ isOpen' = TRUE
  /\ alive' = TRUE
  /\ projects' = configs
  /\ program' = disk
  /\ NewSnapshot
  /\ NothingHeld

(* addProject: the server may read any file again for one more tsconfig.    *)
addProject(config) ==
  /\ isOpen
  /\ \E more \in SUBSET Path :
       newSnapshot(served, [files |-> more, open |-> {}, close |-> {}])
  /\ projects' = IF snapshot' = snapshot THEN projects ELSE projects \cup {config}
  /\ UNCHANGED <<isOpen, alive, fileProject, served, session, facts>>

setFileProject(f, config) ==
  /\ fileProject' = [fileProject EXCEPT ![f] = config]
  /\ UNCHANGED <<isOpen, alive, projects, served, serverVars, session, live, facts>>

(* As dropServed, but naming only the files that were held open. *)
dropOpened(fs) ==
  LET held == {q \in fs : served[q] # NotServed /\ served[q].opened} IN
  [files |-> held, open |-> {}, close |-> held]

(* The update for files whose held text goes: each is read again, and closed *)
(* first when the server holds it open.                                    *)
dropServed(fs) ==
  [files |-> fs, open |-> {},
   close |-> {q \in fs : served[q] # NotServed /\ served[q].opened}]

(* forgetFile and filesChanged: the texts stay dropped when the update fails. *)
filesChanged(fs) ==
  /\ UNCHANGED <<isOpen, alive, projects, fileProject, session, facts>>
  /\ IF ~isOpen
       THEN UNCHANGED <<served, serverVars, live>>
       ELSE LET held == [q \in Path |-> IF q \in fs THEN NotServed ELSE served[q]] IN
            /\ served' = held
            /\ newSnapshot(held, dropServed(fs))

(* As bindSession, but keeping the session while the snapshot stays. *)
bindSnapshot(config) ==
  IF session # NoSession /\ session.snapshot = snapshot'
    THEN UNCHANGED <<session, live>>
    ELSE /\ session' = [snapshot |-> snapshot', project |-> config]
         /\ live' = {}

(* bindSession: another snapshot or another project takes a session of its   *)
(* own, and the handles of the last one go.                                *)
bindSession(config) ==
  LET wanted == [snapshot |-> snapshot', project |-> config] IN
  IF session = wanted
    THEN UNCHANGED <<session, live>>
    ELSE session' = wanted /\ live' = {}

(* The text held for f once it is to be typed as c: a file the disk lacks is *)
(* held open, and stays so.                                                *)
Handed(f, c) ==
  [text |-> c, opened |-> IF served[f] = NotServed THEN disk[f] = Absent ELSE served[f].opened]

(* No update is due for a text the server was handed, nor for a file first   *)
(* seen with the text the disk has.                                        *)
SameText(f, c) ==
  IF served[f] = NotServed THEN disk[f] = c ELSE served[f].text = c

(* As ToReopen, but never. *)
neverReopen(f) == FALSE

(* A file the server holds open has to be closed to change. *)
ToReopen(f) == served[f] # NotServed /\ served[f].opened

ToCreate(f) == served[f] = NotServed /\ disk[f] = Absent

UpdateFor(f) == IF ToCreate(f) THEN Created(f) ELSE Changed(f)

(* As projectOf, but trusting the route. *)
anyProjectOf(f) == fileProject[f]

(* A file has a project when its tsconfig was registered. *)
projectOf(f) == IF fileProject[f] \in projects THEN fileProject[f] ELSE NoProject

Typed(f, c) ==
  /\ bindSession(projectOf(f))
  /\ facts' = [file |-> f, text |-> c]

Untyped == facts' = NoFacts /\ UNCHANGED session

(* beginFile: the text is handed over before the server is told, and an      *)
(* update that fails leaves it there.                                      *)
beginFile(f, c) ==
  /\ UNCHANGED <<isOpen, alive, projects, fileProject>>
  /\ IF ~alive \/ projectOf(f) = NoProject
       THEN Untyped /\ UNCHANGED <<served, serverVars, live>>
       ELSE LET held == [served EXCEPT ![f] = Handed(f, c)] IN
            /\ served' = held
            /\ \/ SameText(f, c) /\ UNCHANGED serverVars /\ Typed(f, c)
               \/ /\ ~SameText(f, c) /\ ~ToReopen(f)
                  /\ \/ Apply(held, UpdateFor(f)) /\ Typed(f, c)
                     \/ Refused /\ Untyped /\ UNCHANGED live
               \/ /\ ~SameText(f, c) /\ ToReopen(f)
                  /\ \/ ApplyBoth(held, Closing(f), Opening(f)) /\ Typed(f, c)
                     \/ Apply(held, Closing(f)) /\ live' = {} /\ SnapshotMayFail /\ Untyped
                     \/ Refused /\ Untyped /\ UNCHANGED live

(* A rule's question: the rows it interns carry handles of the session.     *)
query ==
  /\ facts # NoFacts
  /\ alive
  /\ live' = live \cup {session}
  /\ UNCHANGED <<isOpen, alive, projects, fileProject, served, serverVars, session, facts>>

endFile ==
  /\ facts # NoFacts
  /\ facts' = NoFacts
  /\ UNCHANGED <<isOpen, alive, projects, fileProject, served, serverVars, session, live>>

(* close: a caller that goes on makes a type source of its own. *)
close ==
  /\ isOpen
  /\ isOpen' = FALSE
  /\ alive' = FALSE
  /\ projects' = {}
  /\ program' = [q \in Path |-> Absent]
  /\ NothingHeld
  /\ UNCHANGED snapshot

(* The server process ends, or its pipe breaks: m_open stays as it was.     *)
ServerDies ==
  /\ alive
  /\ alive' = FALSE
  /\ UNCHANGED <<isOpen, projects, fileProject, served, serverVars, session, live, facts>>
-----------------------------------------------------------------------------
Init ==
  /\ disk \in Disk
  /\ notices = {}
  /\ edits = 0
  /\ TypesInit

(* Someone saves, creates or deletes a file; a watcher will report it.      *)
Edit(q) ==
  /\ edits < MaxEdits
  /\ \E c \in Content \cup {Absent} :
       /\ c # disk[q]
       /\ disk' = [disk EXCEPT ![q] = c]
  /\ notices' = notices \cup {q}
  /\ edits' = edits + 1
  /\ UNCHANGED typeVars

(* The caller runs one operation at a time, and none between a beginFile and *)
(* its endFile.                                                            *)
Caller(operation) == facts = NoFacts /\ operation /\ UNCHANGED environment

Report ==
  /\ facts = NoFacts
  /\ notices # {}
  /\ filesChanged(notices)
  /\ notices' = {}
  /\ UNCHANGED <<disk, edits>>

(* A file is typed as any text: its own on disk, an unsaved buffer, what a   *)
(* fix made of it.                                                         *)
Begin(f, c) ==
  /\ LateNotices \/ notices = {}
  /\ Caller(beginFile(f, c))

Next ==
  \/ \E q \in Path : Edit(q)
  \/ Report
  \/ \E configs \in SUBSET Project : configs # {} /\ Caller(open(configs))
  \/ \E config \in Project : Caller(addProject(config))
  \/ \E f \in Path, config \in Project : Caller(setFileProject(f, config))
  \/ \E f \in Path : Caller(filesChanged({f}))
  \/ \E f \in Path, c \in Content : Begin(f, c)
  \/ query /\ UNCHANGED environment
  \/ endFile /\ UNCHANGED environment
  \/ Caller(close)
  \/ ServerDies /\ UNCHANGED environment

Spec == Init /\ [][Next]_vars
-----------------------------------------------------------------------------
FieldTypes ==
  /\ disk \in Disk
  /\ notices \subseteq Path
  /\ edits \in 0..MaxEdits
  /\ isOpen \in BOOLEAN
  /\ alive \in BOOLEAN
  /\ projects \subseteq Project
  /\ fileProject \in [Path -> Project \cup {NoProject}]
  /\ served \in [Path -> Served \cup {NotServed}]
  /\ program \in Disk
  /\ openFiles \subseteq Path
  /\ snapshot \in SnapshotId
  /\ session \in Session \cup {NoSession}
  /\ live \subseteq Session
  /\ facts \in Facts \cup {NoFacts}

(* Types, with what a file in hand needs: an open source and a session under *)
(* a project that was registered (types/type_source.cc, beginFile).        *)
TypeOK ==
  /\ FieldTypes
  /\ alive => isOpen
  /\ session # NoSession => isOpen /\ session.project \in projects
  /\ facts # NoFacts => session # NoSession

(* docs/type-facts.md, "Type sources": the text handed to beginFile is what  *)
(* the server checks, whatever was handed over, dropped or changed before.  *)
AnswersMatchTree ==
  facts # NoFacts /\ alive => program[facts.file] = facts.text

(* What the server holds is what it would read: for a file whose text was    *)
(* handed over that text, for any other the disk, but for changes nobody    *)
(* has reported; and it holds open exactly the files that were created.    *)
HoldsWhatItWouldRead(q) ==
  /\ served[q] # NotServed => program[q] = served[q].text
  /\ served[q] = NotServed /\ q \notin notices => program[q] = disk[q]
  /\ q \in openFiles <=> served[q] # NotServed /\ served[q].opened

ServerInStep == alive => \A q \in Path : HoldsWhatItWouldRead(q)

(* docs/type-facts.md: handles are scoped to one project's registry within a *)
(* snapshot.  The rows of the graph carry handles of the session that asks,  *)
(* which is the current snapshot's while a file is in hand, under the        *)
(* project that file was routed to.                                        *)
HandlesInScope ==
  /\ live \subseteq {session}
  /\ facts # NoFacts =>
       session = [snapshot |-> snapshot, project |-> fileProject[facts.file]]
=============================================================================
