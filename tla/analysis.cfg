INIT Init
NEXT Next
CONSTANTS
  Nesting = 6
  Conditions <- MCConditions
  StrictOptions <- MCStrictOptions
  LoopConstants = {"never", "only-allowed-literals"}
  ExpressionStatements <- MCStatements
  FloatingOptions <- MCFloatingOptions
  Calls <- MCCalls
  Returns <- MCReturns
  Chains <- MCChains
  Assertions <- MCAssertions
  ExpressionTexts <- MCExpressionTexts
  TypeTexts <- MCTypeTexts
  StatementTexts <- MCStatementTexts
  Core <- MCCore
  Deep = 2
  Deeper = 3
  r1 = r1  r2 = r2  zz = zz
  Rule = {r1, r2}
  Unknown = zz
  AllRules = AllRules
  Position = {1, 2, 3, 4}
  Line <- MCLine
  MaxProblems = 2
  Comments <- MCComments
  Shapes <- MCShapes
  Fillers <- MCNameStatements
  Label = {"K", "L", "M"}
  NoLabel = ""
  Bodies <- MCBodies
  Sources <- MCSources
  Fresh = {"n1"}
  MaxFixes = 2
  TextOf = {t1, t2}
  Unparsable = Unparsable
  MaxProblem = 3
  Aware = {2}
  Offers <- MCOffers
  Untargeted = {1}
  MaxPasses = 3
INVARIANTS
  ConditionVerdictsHold AcceptedConditionIsUnambiguous
  NoPromiseFloats
  ArgumentsMeetTheirParameter NoAnyIsReturned
  NamesMeanTheirVariables FixesKeepMeaning UnusedReachesNothing
  UnreachableNeverRuns FallsAreReported
  SuppressedAsWritten UnusedMayGo
  PrintedTreeReadsBack TemplateFindsWhatItBuilt
  CommentsPrintOnce PrintedCodeIsTheTree
  OutputWasLinted EditsAreOfTheirProblem
CHECK_DEADLOCK FALSE
