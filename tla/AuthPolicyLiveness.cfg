CONSTANTS
  h1 = h1
  h2 = h2
  w1 = w1
  w2 = w2
  Worker = {w1, w2}
  Hash = {h1, h2}
  Control = Control
  Helper = Helper
  NoOne = NoOne
  NoHash = NoHash
SPECIFICATION SessionSpec
PROPERTIES RequestDecided DecidedNeverWaits
