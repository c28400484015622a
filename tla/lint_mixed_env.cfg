SPECIFICATION Spec
CONSTANTS
  a = a  x = x  y = y  leaf = leaf  user = user  s = s  t = t
  Absent = Absent  NoRecord = NoRecord  NoRun = NoRun  NoAnswer = NoAnswer  NoFile = NoFile
  Path <- SmallPath
  Content <- MCContent
  Specifier <- MCSpecifier
  Names <- MCNames
  Candidates <- SmallCandidates
  Alias <- MCAlias
  Locked = {}
  Env = {e1, e2}
  Rule = {lint}
  Proc = {p1, p2}
  EditsDuringRun = FALSE
  ServerMayNotStart = FALSE
  ServerMayFail = FALSE
  MayCrash = FALSE
  MaxEdits = 0
  MaxRuns = 3
SYMMETRY Symmetry
INVARIANT AnswersUnderOwnEnv
CHECK_DEADLOCK FALSE
