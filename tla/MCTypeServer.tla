---------------------------- MODULE MCTypeServer ----------------------------
(* The two sides of the type server's connection for TLC: the type source,   *)
(* which takes the server's answers as they are, and the client, which makes *)
(* each of its calls. A behaviour is about one of them.                      *)
EXTENDS ProjectTypes, TsgoClient, TLC

CONSTANTS boot, q1, q2, f1, f2

MCCall == {boot, q1, q2}
MCFile == {f1, f2}
MCOurs == {f1}

(* The type source never looks into a text, so no text imports anything here. *)
NoImports == [c \in Content |-> {}]
Nowhere == [s \in Specifier |-> << >>]
NoAlias == [s \in Specifier |-> {}]

(* The values of the type source alone, which no temporal property and no     *)
(* fairness looks at: what a behaviour does to the client is the same in every *)
(* permutation of it.                                                        *)
Symmetry ==
  Permutations(Path) \cup Permutations(Content) \cup Permutations(Project) \cup Permutations(SnapshotId)

VARIABLE side

MCVars == <<vars, clientVars, side>>
MCInit == side \in {"source", "client"} /\ Init /\ ClientInit

MCNext ==
  /\ \/ side = "source" /\ Next /\ UNCHANGED clientVars
     \/ side = "client" /\ ClientNext /\ UNCHANGED vars
  /\ UNCHANGED side

ClientTakes(step) == side = "client" /\ step /\ UNCHANGED <<vars, side>>
MCSpec ==
  /\ MCInit /\ [][MCNext]_MCVars
  /\ WF_MCVars(ClientTakes(clientStep)) /\ WF_MCVars(ClientTakes(serverStep))
=============================================================================
