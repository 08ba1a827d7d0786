CONSTANTS
  Worker = {w1, w2}
  Hash = {h1}
  Control = Control
  Helper = Helper
  NoOne = NoOne
  NoHash = NoHash
SPECIFICATION ClaimsSpec
PROPERTY ResetMeansReapproval
