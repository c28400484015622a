INIT FixerInit
NEXT FixerNext
CONSTANTS
  Sources <- ListSources
  Fresh = {"n1"}
  MaxFixes = 1
INVARIANT CommentsAreNeverLost
CHECK_DEADLOCK FALSE
