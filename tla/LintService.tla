---------------------------- MODULE LintService ----------------------------
(***************************************************************************)
(* What `lintrix lint` promises its caller, with no cache in sight: an     *)
(* answer is the lint of the file as it is on disk when the answer is      *)
(* given, under the configuration of the run that asked.  LintCache        *)
(* implements this specification.                                          *)
(***************************************************************************)
EXTENDS FileCache

CONSTANTS
  Proc,      \* processes that may run at once
  NoRun,     \* a process with no run under way
  NoAnswer   \* a run that has not answered yet

VARIABLES
  disk,    \* [Path -> Content or Absent]
  run,     \* [Proc -> the environment and payload key of its run, or NoRun]
  answer   \* [Proc -> the last answer of its run, or NoAnswer]

serviceVars == <<disk, run, answer>>

Run == [env : Env, rule : Rule]

ServiceInit ==
  /\ disk \in Disk
  /\ run = [p \in Proc |-> NoRun]
  /\ answer = [p \in Proc |-> NoAnswer]

(* The files change. *)
Change ==
  /\ disk' \in Disk
  /\ UNCHANGED <<run, answer>>

Ask(p) ==
  /\ run[p] = NoRun
  /\ \E asked \in Run : run' = [run EXCEPT ![p] = asked]
  /\ UNCHANGED <<disk, answer>>

(* A run answers for one readable file: with the typed lint of it, or, when *)
(* it has no type server to ask, with the lint its syntax alone gives.     *)
Reply(p) ==
  /\ run[p] # NoRun
  /\ \E f \in Path, typed \in BOOLEAN :
       /\ isFile(disk, f)
       /\ answer' = [answer EXCEPT
            ![p] = lintSource(disk, f, disk[f], run[p].env, run[p].rule, typed)]
  /\ UNCHANGED <<disk, run>>

(* A run ends, or is killed. *)
Leave(p) ==
  /\ run[p] # NoRun
  /\ run' = [run EXCEPT ![p] = NoRun]
  /\ answer' = [answer EXCEPT ![p] = NoAnswer]
  /\ UNCHANGED disk

ServiceNext == Change \/ \E p \in Proc : Ask(p) \/ Reply(p) \/ Leave(p)

ServiceSpec == ServiceInit /\ [][ServiceNext]_serviceVars
=============================================================================
