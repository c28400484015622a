SPECIFICATION Spec
CONSTANTS
  a = a  x = x  y = y  leaf = leaf  user = user  s = s  t = t
  Absent = Absent  NoRecord = NoRecord  NoRun = NoRun  NoAnswer = NoAnswer  NoFile = NoFile
  Path <- MCPath
  Content <- MCContent
  Specifier <- MCSpecifier
  Names <- MCNames
  Candidates <- MCCandidates
  Alias <- MCAlias
  Locked = {}
  Env = {e1, e2}
  Rule = {lint}
  Proc = {p1}
  EditsDuringRun = FALSE
  ServerMayNotStart = FALSE
  ServerMayFail = TRUE
  MayCrash = TRUE
  MaxEdits = 1
  MaxRuns = 2
INVARIANTS TypeOK RowsMatchRecord
PROPERTY Transparent
CHECK_DEADLOCK FALSE
