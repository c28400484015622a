SPECIFICATION MCSpec
CONSTANTS
  a = a  x = x  leaf = leaf  user = user  s = s  p = p  r = r
  Absent = Absent  NotServed = NotServed  NoSession = NoSession  NoProject = NoProject
  NoFacts = NoFacts  NoRecord = NoRecord  NoText = NoText  NoFile = NoFile  NoEnv = NoEnv
  NoRule = NoRule  NoReply = NoReply
  Path <- MCPath
  Content <- MCContent
  Specifier <- MCSpecifier
  Names <- MCNames
  Candidates <- MCCandidates
  Alias <- MCAlias
  Locked = {}
  Project <- TwoProjects
  ProjectFor <- TwoProjectsFor
  SnapshotId = {n1, n2, n3}
  Env = {e1, e2}
  Rule = {t1, t2}
  SnapshotMayFail = FALSE
  LateNotices = FALSE
  Overlays = TRUE
  ServerMayNotStart = TRUE
  MaxEdits = 2
  MaxRequests = 3
SYMMETRY Symmetry
INVARIANTS ServeTypeOK RowsOfTheirKey
PROPERTY RepliesCurrent
CHECK_DEADLOCK FALSE
