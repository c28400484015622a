SPECIFICATION Spec
CONSTANTS
  Req = {q1}
  Config = {c1}
  Broken = {}
  Engine = {"native"}
  NoConfig = NoConfig  Waiting = Waiting  Failed = Failed  Done = Done
  NoState = NoState  NoOffer = NoOffer
  MayRefuse = FALSE
  LoadsInOrder = TRUE
  CloseMidway = FALSE
  MaxSpawns = 2
  MaxLives = 1
  MaxVersion = 2
  MaxLoads = 2
  MaxConfigEdits = 0
  MaxFixPasses = 2
INVARIANT OfferFits
CHECK_DEADLOCK FALSE
