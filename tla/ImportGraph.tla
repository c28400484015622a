---------------------------- MODULE ImportGraph ----------------------------
(***************************************************************************)
(* The import graph a cached result is keyed by: cache/closure.cc and      *)
(* cache/imports.cc.                                                       *)
(*                                                                         *)
(* A file's text is a member of Content; hashing it is taken as injective. *)
(* What a text imports is the constant Names, and where a specifier is     *)
(* looked for is the constant Candidates, in the order resolveImport tries *)
(* them.  A graph is a function from the paths it holds to their entries.  *)
(***************************************************************************)
EXTENDS Integers, Sequences, FiniteSets

CONSTANTS
  Path,         \* absolute, normalised paths
  Content,      \* file texts, one per content hash
  Specifier,    \* module specifiers, already joined with the importing directory
  Names,        \* [Content -> SUBSET Specifier]: collectImports
  Candidates,   \* [Specifier -> Seq(Path)]: what resolveImport tries; <<>> for a bare name
  Alias,        \* [Specifier -> SUBSET Path]: files a tsconfig `paths` entry maps a bare name to
  Locked,       \* paths whose file, when there is one, cannot be opened
  Absent        \* the content of a path with no file

ASSUME ImportsAssumption ==
  /\ Names \in [Content -> SUBSET Specifier]
  /\ Candidates \in [Specifier -> Seq(Path)]
  /\ Alias \in [Specifier -> SUBSET Path]
  /\ Locked \subseteq Path
  /\ Absent \notin Content
-----------------------------------------------------------------------------
Disk == [Path -> Content \cup {Absent}]

isFile(disk, q) == disk[q] # Absent

(* readFile fails: there is no file any more, or it cannot be opened. *)
CannotRead(disk, q) == ~isFile(disk, q) \/ q \in Locked

(* The candidates of s that are files, by position. *)
Found(disk, s) == {i \in DOMAIN Candidates[s] : isFile(disk, Candidates[s][i])}

(* The path s resolves to, as a set: empty when it resolves to none. *)
resolveImport(disk, s) ==
  {Candidates[s][i] : i \in {j \in Found(disk, s) : \A k \in Found(disk, s) : j <= k}}

(* What the type server resolves: relative specifiers the same way, and a  *)
(* bare name through the tsconfig's `paths`.                               *)
serverResolve(disk, s) ==
  IF Candidates[s] = << >> THEN {q \in Alias[s] : isFile(disk, q)} ELSE resolveImport(disk, s)

FileEntry == [contentHash : Content, imports : SUBSET Path, unresolved : SUBSET Specifier]

(* The entry a file with text c gets, its imports resolved against disk. *)
entryOf(disk, c) ==
  [contentHash |-> c,
   imports     |-> UNION {resolveImport(disk, s) : s \in Names[c]},
   unresolved  |-> {s \in Names[c] : resolveImport(disk, s) = {}}]

serverEntry(disk, c) ==
  [contentHash |-> c,
   imports     |-> UNION {serverResolve(disk, s) : s \in Names[c]},
   unresolved  |-> {s \in Names[c] : serverResolve(disk, s) = {}}]

Graph == UNION {[D -> FileEntry] : D \in SUBSET Path}

EmptyGraph == [q \in {} |-> Absent]

setFile(g, q, entry) == [x \in DOMAIN g \cup {q} |-> IF x = q THEN entry ELSE g[x]]

(* A set of files that leads nowhere outside itself, imports the graph does *)
(* not hold aside.                                                         *)
Closed(g, S) == \A q \in S : g[q].imports \cap DOMAIN g \subseteq S

Reach(g, root) ==
  {q \in DOMAIN g : \A S \in SUBSET DOMAIN g : root \in S /\ Closed(g, S) => q \in S}

(* As closureHash, but of the file alone. *)
ownHash(g, root) == {<<root, g[root].contentHash, g[root].unresolved>>}

(* The sorted selfHashes of the closure: path, text and unresolved names of *)
(* each member, and not the edges between them.                            *)
closureHash(g, root) == {<<q, g[q].contentHash, g[q].unresolved>> : q \in Reach(g, root)}

(* The graph a load of everything on disk would build, and the one the type *)
(* server sees.                                                            *)
diskGraph(disk) ==
  [q \in {x \in Path : ~CannotRead(disk, x)} |-> entryOf(disk, disk[q])]

serverGraph(disk) ==
  [q \in {x \in Path : ~CannotRead(disk, x)} |-> serverEntry(disk, disk[q])]

(* Everything a type-aware lint of root can observe: each file of its      *)
(* closure, with where its imports lead.                                   *)
World(g, root) == {<<q, g[q]>> : q \in Reach(g, root)}
-----------------------------------------------------------------------------
(* One turn of loadClosure's loop on the graph g with the work list pending, *)
(* for the path q taken from it.  Any member may be next: the order follows *)
(* the order of the imports in the texts.                                  *)

AlreadyLoaded(g, disk, q) == q \in DOMAIN g /\ g[q].contentHash = disk[q]

loadedGraph(g, disk, q) ==
  IF CannotRead(disk, q) \/ AlreadyLoaded(g, disk, q)
    THEN g
    ELSE setFile(g, q, entryOf(disk, disk[q]))

(* As loadedPending, but forgetting what the file just read imports. *)
pendingWithoutImports(g, disk, q, pending) ==
  IF CannotRead(disk, q) THEN {} ELSE pending \ {q}

(* As loadedPending, but following every import of every file again. *)
pendingAllImports(g, disk, q, pending) ==
  IF CannotRead(disk, q) THEN {} ELSE (pending \ {q}) \cup entryOf(disk, disk[q]).imports

(* An unreadable file abandons the rest of the work list. *)
loadedPending(g, disk, q, pending) ==
  IF CannotRead(disk, q)
    THEN {}
    ELSE IF AlreadyLoaded(g, disk, q)
      THEN pending \ {q}
      ELSE (pending \ {q}) \cup (entryOf(disk, disk[q]).imports \ DOMAIN g)
=============================================================================
