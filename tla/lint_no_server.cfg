SPECIFICATION Spec
CONSTANTS
  a = a  x = x  y = y  leaf = leaf  user = user  s = s  t = t
  Absent = Absent  NoRecord = NoRecord  NoRun = NoRun  NoAnswer = NoAnswer  NoFile = NoFile
  Path <- SmallPath
  Content <- MCContent
  Specifier <- MCSpecifier
  Names <- MCNames
  Candidates <- SmallCandidates
  Alias <- MCAlias
  Locked = {}
  Env = {e1}
  Rule = {lint}
  Proc = {p1}
  EditsDuringRun = FALSE
  ServerMayNotStart = TRUE
  ServerMayFail = FALSE
  MayCrash = FALSE
  MaxEdits = 1
  MaxRuns = 2
INVARIANT UntypedNeverStored
CHECK_DEADLOCK FALSE
