SPECIFICATION LiveSpec
CONSTANTS
  a = a  x = x  y = y  leaf = leaf  user = user  s = s  t = t
  Absent = Absent  NoRecord = NoRecord  NoRun = NoRun  NoAnswer = NoAnswer  NoFile = NoFile
  Path <- SmallPath
  Content <- MCContent
  Specifier <- MCSpecifier
  Names <- MCNames
  Candidates <- SmallCandidates
  Alias <- MCAlias
  Locked = {}
  Env = {e1}
  Rule = {lint}
  Proc = {p1, p2}
  EditsDuringRun = FALSE
  ServerMayNotStart = FALSE
  ServerMayFail = FALSE
  MayCrash = TRUE
  MaxEdits = 1
  MaxRuns = 3
INVARIANTS RowsHonest RunsKnowTheDisk
PROPERTIES Transparent RunsEnd
CHECK_DEADLOCK FALSE
