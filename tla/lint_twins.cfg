SPECIFICATION Spec
CONSTANTS
  a = a  x = x  y = y  leaf = leaf  user = user  s = s  t = t
  Absent = Absent  NoRecord = NoRecord  NoRun = NoRun  NoAnswer = NoAnswer  NoFile = NoFile
  Path <- SmallPath
  Content <- MCContent
  Specifier <- TwinSpecifier
  Names <- TwinNames
  Candidates <- TwinCandidates
  Alias <- TwinAlias
  Locked = {}
  Env = {e1}
  Rule = {lint}
  Proc = {p1}
  EditsDuringRun = FALSE
  ServerMayNotStart = FALSE
  ServerMayFail = FALSE
  MayCrash = FALSE
  MaxEdits = 1
  MaxRuns = 2
PROPERTY ReplayIsOfFile
CHECK_DEADLOCK FALSE
