SPECIFICATION MCSpec
CONSTANTS
  Specifier = {}
  Names <- NoImports
  Candidates <- Nowhere
  Alias <- NoAlias
  Locked = {}
  Absent = Absent  NotServed = NotServed  NoSession = NoSession  NoProject = NoProject
  NoFacts = NoFacts
  Path = {a, b}
  Content = {c1, c2}
  Project = {p, r}
  SnapshotId = {n1, n2, n3}
  SnapshotMayFail = FALSE
  LateNotices = FALSE
  MaxEdits = 2
  boot = boot  q1 = q1  q2 = q2  f1 = f1  f2 = f2
  Call <- MCCall
  Init0 = boot
  NoCall = NoCall  NotYet = NotYet  Failed = Failed  NoQuestion = NoQuestion
  Method = {"readFile", "fileExists"}
  File <- MCFile
  Ours <- MCOurs
  ServerMayDie = TRUE
  ServerMayGarble = TRUE
  PipeKills = FALSE
  MaxAsks = 2
SYMMETRY Symmetry
INVARIANTS TypeOK ServerInStep AnswersMatchTree HandlesInScope InStep OurBytes
PROPERTIES CallsImplemented StopEnds
CHECK_DEADLOCK FALSE
