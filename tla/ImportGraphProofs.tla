------------------------- MODULE ImportGraphProofs -------------------------
(***************************************************************************)
(* Facts about the import graph: what resolution returns, what a closure   *)
(* depends on, and that a closure hash, which holds no edges, still        *)
(* determines where every import of the closure leads; and the types of    *)
(* what the cache stores.                                                  *)
(***************************************************************************)
EXTENDS FileCache, TLAPS

(* A specifier resolves to files only: resolveImport tests each candidate.  *)
LEMMA ResolvesToFiles ==
  ASSUME NEW disk \in Disk, NEW s \in Specifier, NEW q \in resolveImport(disk, s)
  PROVE  q \in Path /\ isFile(disk, q)
BY ImportsAssumption DEF resolveImport, Found, Disk

(* The fields of the entry loadClosure builds, import by import.             *)
LEMMA EntryFields ==
  ASSUME NEW disk, NEW c
  PROVE  /\ entryOf(disk, c).contentHash = c
         /\ \A s \in Names[c] : resolveImport(disk, s) \subseteq entryOf(disk, c).imports
         /\ \A s : s \in entryOf(disk, c).unresolved <=> s \in Names[c] /\ resolveImport(disk, s) = {}
<1>1. entryOf(disk, c).contentHash = c
  BY DEF entryOf
<1>2. entryOf(disk, c).imports = UNION {resolveImport(disk, s) : s \in Names[c]}
  BY DEF entryOf
<1>3. entryOf(disk, c).unresolved = {s \in Names[c] : resolveImport(disk, s) = {}}
  BY DEF entryOf
<1> QED BY <1>1, <1>2, <1>3

(* The same of what a whole text imports (loadClosure's entry).            *)
LEMMA ImportsAreFiles ==
  ASSUME NEW disk \in Disk, NEW c \in Content, NEW q \in entryOf(disk, c).imports
  PROVE  q \in Path /\ isFile(disk, q)
<1>1. PICK s \in Names[c] : q \in resolveImport(disk, s)
  BY DEF entryOf
<1>2. s \in Specifier
  BY <1>1, ImportsAssumption
<1> QED BY <1>1, <1>2, ResolvesToFiles

(* loadClosure builds well-formed entries.                                 *)
LEMMA EntryTyped ==
  ASSUME NEW disk \in Disk, NEW c \in Content
  PROVE  entryOf(disk, c) \in FileEntry
<1>1. entryOf(disk, c).imports \subseteq Path
  BY ImportsAreFiles
<1>2. entryOf(disk, c).unresolved \subseteq Specifier
  BY ImportsAssumption DEF entryOf
<1> QED BY <1>1, <1>2 DEF entryOf, FileEntry

(* A file of a program the type server sees is a well-formed entry.         *)
LEMMA ServerEntryTyped ==
  ASSUME NEW disk \in Disk, NEW c \in Content
  PROVE  serverEntry(disk, c) \in FileEntry
<1>1. ASSUME NEW s \in Names[c]
      PROVE  serverResolve(disk, s) \subseteq Path
  <2>1. s \in Specifier
    BY ImportsAssumption
  <2>2. Alias[s] \subseteq Path
    BY <2>1, ImportsAssumption
  <2> QED BY <2>1, <2>2, ResolvesToFiles DEF serverResolve
<1>2. serverEntry(disk, c).imports \subseteq Path
  BY <1>1 DEF serverEntry
<1>3. serverEntry(disk, c).unresolved \subseteq Specifier
  BY ImportsAssumption DEF serverEntry
<1> QED BY <1>2, <1>3 DEF serverEntry, FileEntry

(* What it is to be a graph, without the union over domains.               *)
LEMMA GraphFacts ==
  ASSUME NEW g \in Graph
  PROVE  /\ DOMAIN g \subseteq Path
         /\ \A q \in DOMAIN g : g[q] \in FileEntry
BY DEF Graph

(* And the other way round.                                                *)
LEMMA GraphIntro ==
  ASSUME NEW D \in SUBSET Path, NEW g \in [D -> FileEntry]
  PROVE  g \in Graph
BY DEF Graph

(* ImportGraph::clear leaves a graph.                                     *)
LEMMA EmptyGraphTyped == EmptyGraph \in Graph /\ DOMAIN EmptyGraph = {}
<1>1. EmptyGraph \in [{} -> FileEntry]
  BY DEF EmptyGraph
<1>2. {} \in SUBSET Path
  OBVIOUS
<1> QED BY <1>1, <1>2, GraphIntro DEF EmptyGraph

(* ImportGraph::setFile keeps a graph a graph.                              *)
LEMMA SetFileTyped ==
  ASSUME NEW g \in Graph, NEW q \in Path, NEW e \in FileEntry
  PROVE  setFile(g, q, e) \in Graph
<1>1. DOMAIN g \cup {q} \in SUBSET Path
  BY GraphFacts
<1>2. setFile(g, q, e) \in [DOMAIN g \cup {q} -> FileEntry]
  BY GraphFacts DEF setFile
<1> QED BY <1>1, <1>2, GraphIntro

(* What a load of everything builds, and what the type server has, are     *)
(* graphs.                                                                 *)
LEMMA DiskGraphTyped ==
  ASSUME NEW disk \in Disk
  PROVE  diskGraph(disk) \in Graph /\ serverGraph(disk) \in Graph
<1> DEFINE D == {x \in Path : ~CannotRead(disk, x)}
<1>1. D \in SUBSET Path /\ \A x \in D : disk[x] \in Content
  BY DEF CannotRead, isFile, Disk
<1>2. diskGraph(disk) \in [D -> FileEntry]
  BY <1>1, EntryTyped DEF diskGraph
<1>3. serverGraph(disk) \in [D -> FileEntry]
  BY <1>1, ServerEntryTyped DEF serverGraph
<1> QED BY <1>1, <1>2, <1>3, GraphIntro

(* ImportGraph::closureHash returns a well-formed key.                      *)
LEMMA ClosureHashTyped ==
  ASSUME NEW g \in Graph, NEW f
  PROVE  closureHash(g, f) \subseteq Path \X Content \X SUBSET Specifier
<1>1. ASSUME NEW q \in Reach(g, f)
      PROVE  q \in Path /\ g[q].contentHash \in Content /\ g[q].unresolved \in SUBSET Specifier
  BY GraphFacts DEF Reach, FileEntry
<1> QED BY <1>1 DEF closureHash

(* What a lint can observe is files with their entries.                    *)
LEMMA WorldTyped ==
  ASSUME NEW g \in Graph, NEW f
  PROVE  World(g, f) \subseteq Path \X FileEntry
<1>1. ASSUME NEW q \in Reach(g, f)
      PROVE  q \in Path /\ g[q] \in FileEntry
  BY GraphFacts DEF Reach
<1> QED BY <1>1 DEF World

(* loadClosure keeps its graph a graph and its work list a set of paths.    *)
LEMMA LoadTyped ==
  ASSUME NEW disk \in Disk, NEW g \in Graph, NEW pending \in SUBSET Path, NEW q \in pending
  PROVE  /\ loadedGraph(g, disk, q) \in Graph
         /\ loadedPending(g, disk, q, pending) \in SUBSET Path
<1>1. CASE CannotRead(disk, q)
  BY <1>1 DEF loadedGraph, loadedPending
<1>2. CASE ~CannotRead(disk, q)
  <2>1. disk[q] \in Content
    BY <1>2 DEF CannotRead, isFile, Disk
  <2>2. entryOf(disk, disk[q]) \in FileEntry
    BY <2>1, EntryTyped
  <2>3. entryOf(disk, disk[q]).imports \subseteq Path
    BY <2>1, ImportsAreFiles
  <2> QED BY <2>2, <2>3, SetFileTyped DEF loadedGraph, loadedPending
<1> QED BY <1>1, <1>2

-----------------------------------------------------------------------------
(* A closure holds its root and everything its members import.             *)
LEMMA ReachRoot ==
  ASSUME NEW g, NEW f \in DOMAIN g
  PROVE  f \in Reach(g, f)
BY DEF Reach

(* The walk of closureHash follows every import the graph holds.           *)
LEMMA ReachClosed ==
  ASSUME NEW g, NEW f, NEW q \in Reach(g, f), NEW x \in g[q].imports \cap DOMAIN g
  PROVE  x \in Reach(g, f)
BY DEF Reach, Closed

(* A graph that holds every import of its files has the closures of any     *)
(* larger graph that agrees with it: what loadClosure did not visit cannot  *)
(* change closureHash.                                                     *)
LEMMA ClosureOfSubgraph ==
  ASSUME NEW g, NEW h, NEW f \in DOMAIN g,
         DOMAIN g \subseteq DOMAIN h,
         \A q \in DOMAIN g : g[q] = h[q] /\ g[q].imports \subseteq DOMAIN g
  PROVE  Reach(g, f) = Reach(h, f)
<1>1. ASSUME NEW q \in Reach(g, f)
      PROVE  q \in Reach(h, f)
  <2>1. q \in DOMAIN h
    BY DEF Reach
  <2>2. ASSUME NEW S \in SUBSET DOMAIN h, f \in S, Closed(h, S)
        PROVE  q \in S
    <3> DEFINE T == S \cap DOMAIN g
    <3>1. T \in SUBSET DOMAIN g /\ f \in T
      BY <2>2
    <3>2. Closed(g, T)
      BY <2>2 DEF Closed
    <3> QED BY <3>1, <3>2 DEF Reach
  <2> QED BY <2>1, <2>2 DEF Reach
<1>2. ASSUME NEW q \in Reach(h, f)
      PROVE  q \in Reach(g, f)
  <2>1. Closed(h, DOMAIN g)
    BY DEF Closed
  <2>2. q \in DOMAIN g
    BY <2>1 DEF Reach
  <2>3. ASSUME NEW S \in SUBSET DOMAIN g, f \in S, Closed(g, S)
        PROVE  q \in S
    <3>1. Closed(h, S)
      BY <2>3 DEF Closed
    <3>2. S \in SUBSET DOMAIN h
      OBVIOUS
    <3> QED BY <2>3, <3>1, <3>2 DEF Reach
  <2> QED BY <2>2, <2>3 DEF Reach
<1> QED BY <1>1, <1>2

(* With no alias in the tsconfig, the type server sees the graph the cache  *)
(* sees: loadClosure's resolution against tsgo's.                          *)
LEMMA NoAliasNoDifference ==
  ASSUME NEW disk \in Disk,
         \A s \in Specifier : Candidates[s] = << >> => Alias[s] = {}
  PROVE  serverGraph(disk) = diskGraph(disk)
<1>1. ASSUME NEW s \in Specifier
      PROVE  serverResolve(disk, s) = resolveImport(disk, s)
  <2>1. CASE Candidates[s] = << >>
    <3>1. Found(disk, s) = {}
      BY <2>1 DEF Found
    <3> QED BY <2>1, <3>1 DEF serverResolve, resolveImport
  <2> QED BY <2>1 DEF serverResolve
<1>2. ASSUME NEW c \in Content
      PROVE  serverEntry(disk, c) = entryOf(disk, c)
  <2>1. Names[c] \subseteq Specifier
    BY ImportsAssumption
  <2>2. \A s \in Names[c] : serverResolve(disk, s) = resolveImport(disk, s)
    BY <1>1, <2>1
  <2>3. UNION {serverResolve(disk, s) : s \in Names[c]} =
        UNION {resolveImport(disk, s) : s \in Names[c]}
    BY <2>2
  <2>4. {s \in Names[c] : serverResolve(disk, s) = {}} =
        {s \in Names[c] : resolveImport(disk, s) = {}}
    BY <2>2
  <2> QED BY <2>3, <2>4 DEF serverEntry, entryOf
<1>3. \A q \in {x \in Path : ~CannotRead(disk, x)} : serverEntry(disk, disk[q]) = entryOf(disk, disk[q])
  BY <1>2 DEF CannotRead, isFile, Disk
<1> QED BY <1>3 DEF serverGraph, diskGraph

-----------------------------------------------------------------------------
(* Every file there is can be opened. One that cannot is in no graph, and the  *)
(* hash of what imports it does not name it.                                *)
AllReadable == Locked = {}

LEMMA DiskGraphDomain ==
  ASSUME AllReadable, NEW disk
  PROVE  DOMAIN diskGraph(disk) = {q \in Path : isFile(disk, q)}
BY DEF AllReadable, diskGraph, CannotRead

(* The closure hash names the files of a closure, their texts and what none *)
(* of the candidates of a specifier answered to, and no edge between them.  *)
(* It still decides every edge: were an earlier candidate to appear, the    *)
(* file would join the closure (ImportGraph::closureHash, setFile).  It does *)
(* not decide the root: two files that import each other have one hash.     *)
THEOREM ClosureDeterminesWorld ==
  ASSUME AllReadable, NEW d1 \in Disk, NEW d2 \in Disk, NEW f1 \in Path, NEW f2 \in Path,
         closureHash(diskGraph(d1), f1) = closureHash(diskGraph(d2), f2)
  PROVE  World(diskGraph(d1), f1) = World(diskGraph(d2), f2)
<1> DEFINE g1 == diskGraph(d1)
           g2 == diskGraph(d2)
           R1 == Reach(g1, f1)
           R2 == Reach(g2, f2)
<1>1. ASSUME NEW q
      PROVE  /\ q \in R1 => q \in DOMAIN g1
             /\ q \in R2 => q \in DOMAIN g2
  BY DEF Reach
<1>2. /\ \A q \in R1 : q \in R2 /\ g1[q].contentHash = g2[q].contentHash
                       /\ g1[q].unresolved = g2[q].unresolved
      /\ \A q \in R2 : q \in R1
  <2>1. \A q \in R1 : <<q, g1[q].contentHash, g1[q].unresolved>> \in closureHash(g2, f2)
    BY DEF closureHash
  <2>2. \A q \in R2 : <<q, g2[q].contentHash, g2[q].unresolved>> \in closureHash(g1, f1)
    BY DEF closureHash
  <2> QED BY <2>1, <2>2 DEF closureHash
<1>3. R1 = R2
  BY <1>2
<1>4. ASSUME NEW q \in R1
      PROVE  /\ q \in Path
             /\ d1[q] \in Content
             /\ d2[q] = d1[q]
             /\ g1[q] = entryOf(d1, d1[q])
             /\ g2[q] = entryOf(d2, d1[q])
  <2>1. q \in DOMAIN g1 /\ q \in DOMAIN g2
    BY <1>1, <1>3
  <2>2. /\ q \in Path /\ d1[q] \in Content /\ d2[q] \in Content
        /\ g1[q] = entryOf(d1, d1[q]) /\ g2[q] = entryOf(d2, d2[q])
    BY <2>1 DEF diskGraph, CannotRead, isFile, Disk
  <2>3. d1[q] = d2[q]
    BY <1>2, <2>2 DEF entryOf
  <2> QED BY <2>2, <2>3
<1>5. ASSUME NEW q \in R1, NEW s \in Names[d1[q]], NEW i \in DOMAIN Candidates[s],
             Candidates[s][i] \in R1
      PROVE  i \in Found(d1, s) /\ i \in Found(d2, s)
  <2>1. Candidates[s][i] \in DOMAIN g1 /\ Candidates[s][i] \in DOMAIN g2
    BY <1>1, <1>3, <1>5
  <2> QED BY <2>1, DiskGraphDomain DEF Found
<1>6. ASSUME NEW q \in R1, NEW s \in Names[d1[q]]
      PROVE  resolveImport(d1, s) = resolveImport(d2, s)
  <2> DEFINE c == d1[q]
  <2>0. c \in Content /\ s \in Specifier /\ Candidates[s] \in Seq(Path)
    BY <1>4, ImportsAssumption
  <2>1. resolveImport(d1, s) = {} <=> resolveImport(d2, s) = {}
    <3>1. g1[q].unresolved = g2[q].unresolved
      BY <1>2
    <3>2. g1[q] = entryOf(d1, c) /\ g2[q] = entryOf(d2, c)
      BY <1>4
    <3>3. s \in entryOf(d1, c).unresolved <=> s \in entryOf(d2, c).unresolved
      BY <3>1, <3>2
    <3>4. s \in entryOf(d1, c).unresolved <=> resolveImport(d1, s) = {}
      BY EntryFields
    <3>5. s \in entryOf(d2, c).unresolved <=> resolveImport(d2, s) = {}
      BY EntryFields
    <3> QED BY <3>3, <3>4, <3>5
  <2>2. CASE resolveImport(d1, s) # {} /\ resolveImport(d2, s) # {}
    <3>1. PICK i \in Found(d1, s) : \A k \in Found(d1, s) : i <= k
      BY <2>2 DEF resolveImport
    <3>2. PICK j \in Found(d2, s) : \A k \in Found(d2, s) : j <= k
      BY <2>2 DEF resolveImport
    <3>3. i \in DOMAIN Candidates[s] /\ j \in DOMAIN Candidates[s] /\ i \in Nat /\ j \in Nat
      BY <2>0, <3>1, <3>2 DEF Found
    <3>4. Candidates[s][i] \in R1
      <4>1. Candidates[s][i] \in resolveImport(d1, s)
        BY <3>1 DEF resolveImport
      <4>2. Candidates[s][i] \in g1[q].imports
        BY <4>1, <1>4, EntryFields
      <4>3. Candidates[s][i] \in DOMAIN g1
        BY <4>1, <2>0, ResolvesToFiles, DiskGraphDomain
      <4> QED BY <4>2, <4>3, ReachClosed
    <3>5. Candidates[s][j] \in R1
      <4>1. Candidates[s][j] \in resolveImport(d2, s)
        BY <3>2 DEF resolveImport
      <4>2. Candidates[s][j] \in g2[q].imports
        BY <4>1, <1>4, EntryFields
      <4>3. Candidates[s][j] \in DOMAIN g2
        BY <4>1, <2>0, ResolvesToFiles, DiskGraphDomain
      <4>4. q \in R2
        BY <1>3
      <4>5. Candidates[s][j] \in R2
        BY <4>2, <4>3, <4>4, ReachClosed
      <4> QED BY <4>5, <1>3
    <3>6. i \in Found(d2, s) /\ j \in Found(d1, s)
      BY <1>5, <3>3, <3>4, <3>5
    <3>7. i = j
      BY <3>1, <3>2, <3>3, <3>6
    <3>8. \A k \in Found(d1, s) \cup Found(d2, s) : k \in Nat
      BY <2>0 DEF Found
    <3>9. resolveImport(d1, s) = {Candidates[s][i]}
      BY <3>1, <3>3, <3>8 DEF resolveImport
    <3>10. resolveImport(d2, s) = {Candidates[s][j]}
      BY <3>2, <3>3, <3>8 DEF resolveImport
    <3> QED BY <3>7, <3>9, <3>10
  <2> QED BY <2>1, <2>2
<1>7. ASSUME NEW q \in R1
      PROVE  g1[q] = g2[q]
  <2> DEFINE c == d1[q]
  <2>1. UNION {resolveImport(d1, s) : s \in Names[c]} = UNION {resolveImport(d2, s) : s \in Names[c]}
    BY <1>6
  <2>2. {s \in Names[c] : resolveImport(d1, s) = {}} = {s \in Names[c] : resolveImport(d2, s) = {}}
    BY <1>6
  <2> QED BY <1>4, <2>1, <2>2 DEF entryOf
<1> QED BY <1>3, <1>7 DEF World

(* A file of a world that the disk holds has the same world there, whatever  *)
(* file of it the closure was taken of.                                     *)
LEMMA WorldOfMember ==
  ASSUME AllReadable, NEW d1 \in Disk, NEW d2 \in Disk, NEW f1 \in Path, NEW f2 \in Path, isFile(d1, f1),
         World(diskGraph(d1), f1) = World(diskGraph(d2), f2)
  PROVE  /\ isFile(d2, f1) /\ d2[f1] = d1[f1]
         /\ f1 \in Reach(diskGraph(d2), f2)
         /\ World(diskGraph(d2), f1) = World(diskGraph(d1), f1)
<1> DEFINE g1 == diskGraph(d1)
           g2 == diskGraph(d2)
           R == Reach(g1, f1)
<1>1. DOMAIN g1 = {x \in Path : isFile(d1, x)} /\ DOMAIN g2 = {x \in Path : isFile(d2, x)}
  BY DiskGraphDomain
<1>2. \A q : q \in R => q \in DOMAIN g1
  BY DEF Reach
<1>3. \A q : q \in Reach(g2, f2) => q \in DOMAIN g2
  BY DEF Reach
<1>4. \A q \in R : q \in Reach(g2, f2) /\ g1[q] = g2[q]
  <2> SUFFICES ASSUME NEW q \in R PROVE q \in Reach(g2, f2) /\ g1[q] = g2[q]
    OBVIOUS
  <2>1. <<q, g1[q]>> \in World(g2, f2)
    BY DEF World
  <2>2. PICK x \in Reach(g2, f2) : <<q, g1[q]>> = <<x, g2[x]>>
    BY <2>1 DEF World
  <2> QED BY <2>2
<1>5. f1 \in R
  BY <1>1, ReachRoot
<1>6. f1 \in Reach(g2, f2) /\ isFile(d2, f1)
  BY <1>1, <1>3, <1>4, <1>5
<1>7. d2[f1] = d1[f1]
  <2>1. g1[f1] = entryOf(d1, d1[f1]) /\ g2[f1] = entryOf(d2, d2[f1])
    BY <1>1, <1>6 DEF diskGraph
  <2>2. g1[f1].contentHash = d1[f1] /\ g2[f1].contentHash = d2[f1]
    BY <2>1, EntryFields
  <2> QED BY <1>4, <1>5, <2>2
<1> DEFINE h == [q \in R |-> g1[q]]
<1>8. \A q \in R : g1[q].imports \subseteq R
  <2> SUFFICES ASSUME NEW q \in R, NEW x \in g1[q].imports PROVE x \in R
    OBVIOUS
  <2>1. q \in Path /\ isFile(d1, q) /\ g1[q] = entryOf(d1, d1[q])
    BY <1>1, <1>2 DEF diskGraph
  <2>2. d1[q] \in Content
    BY <2>1 DEF isFile, Disk
  <2>3. x \in DOMAIN g1
    BY <1>1, <2>1, <2>2, ImportsAreFiles
  <2> QED BY <2>3, ReachClosed
<1>9. DOMAIN h = R /\ \A q \in R : h[q] = g1[q] /\ h[q] = g2[q] /\ h[q].imports \subseteq R
  BY <1>4, <1>8
<1>10. R \subseteq DOMAIN g1 /\ R \subseteq DOMAIN g2
  BY <1>2, <1>3, <1>4
<1> HIDE DEF h
<1>11. Reach(h, f1) = Reach(g1, f1)
  BY <1>5, <1>9, <1>10, ClosureOfSubgraph
<1>12. Reach(h, f1) = Reach(g2, f1)
  BY <1>5, <1>9, <1>10, ClosureOfSubgraph
<1>13. Reach(g2, f1) = R
  BY <1>11, <1>12
<1>14. World(g2, f1) = World(g1, f1)
  BY <1>4, <1>13 DEF World
<1> QED BY <1>6, <1>7, <1>14
-----------------------------------------------------------------------------
(* A record a lookup builds is a record (FileCache::lookup).               *)
LEMMA RecordTyped ==
  ASSUME NEW g \in Graph, NEW f \in DOMAIN g, NEW e \in Env
  PROVE  recordFor(g, f, e) \in FileRecord
<1>1. closureHash(g, f) \in Closure
  BY ClosureHashTyped DEF Closure
<1>2. g[f].contentHash \in Content
  BY GraphFacts DEF FileEntry
<1> QED BY <1>1, <1>2 DEF recordFor, FileRecord

(* A lint answers with a payload (Linter::lintSource).                      *)
LEMMA LintTyped ==
  ASSUME NEW d \in Disk, NEW f \in Path, NEW c \in Content, NEW e \in Env, NEW r \in Rule,
         NEW typed \in BOOLEAN
  PROVE  /\ lintSource(d, f, c, e, r, typed) \in Payload
         /\ lintSource(d, f, c, e, r, typed).path = f
<1> DEFINE w == IF typed THEN World(serverGraph([d EXCEPT ![f] = c]), f) ELSE {}
<1>1. [d EXCEPT ![f] = c] \in Disk
  BY DEF Disk
<1>2. World(serverGraph([d EXCEPT ![f] = c]), f) \subseteq Path \X FileEntry
  BY <1>1, DiskGraphTyped, WorldTyped
<1>3. w \in SUBSET (Path \X FileEntry)
  BY <1>2
<1>4. lintSource(d, f, c, e, r, typed) =
        [path |-> f, text |-> c, env |-> e, rule |-> r, typed |-> typed, world |-> w]
  BY DEF lintSource
<1> HIDE DEF w
<1> QED BY <1>3, <1>4 DEF Payload

(* A stored row is a row (Store::putRuleResult).                            *)
LEMMA RowsTyped ==
  ASSUME NEW rs \in SUBSET RuleRow, NEW rec \in FileRecord, NEW r \in Rule, NEW pl \in Payload
  PROVE  putRuleResult(rs, rec, r, pl) \in SUBSET RuleRow
<1>1. rec.contentHash \in Content /\ rec.closureHash \in Closure
  BY DEF FileRecord
<1>2. [fileHash |-> rec.contentHash, closureHash |-> rec.closureHash,
       rule |-> r, payload |-> pl] \in RuleRow
  BY <1>1 DEF RuleRow
<1> QED BY <1>2 DEF putRuleResult
=============================================================================
