SPECIFICATION Spec
CONSTANTS
  Handlers = {"h1", "h2"}
  Pairings = {"h1", "h2"}
  Key <- OneKey
  Watchers = {w1, w2}
  Confirms = {c1}
  QueueCap = 1
SYMMETRY Symmetry
CHECK_DEADLOCK FALSE
INVARIANTS
  ConsentGiven
  NoOfferMissed
