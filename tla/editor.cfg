SPECIFICATION Spec
CONSTANTS
  Req = {q1, q2}
  Config = {c1, c2, c3}
  Broken = {c3}
  Engine = {"native", "wasm"}
  NoConfig = NoConfig  Waiting = Waiting  Failed = Failed  Done = Done
  NoState = NoState  NoOffer = NoOffer
  MayRefuse = TRUE
  LoadsInOrder = TRUE
  CloseMidway = FALSE
  MaxSpawns = 2
  MaxLives = 2
  MaxVersion = 2
  MaxLoads = 2
  MaxConfigEdits = 1
  MaxFixPasses = 2
SYMMETRY Symmetry
INVARIANTS TypeOK OfferFitsHere ReportIsCurrent
PROPERTY ReportsGoForward
CHECK_DEADLOCK FALSE
