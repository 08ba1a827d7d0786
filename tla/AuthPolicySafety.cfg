CONSTANTS
  Worker = {w1, w2}
  Hash = {h1, h2}
  Control = Control
  Helper = Helper
  NoOne = NoOne
  NoHash = NoHash
SPECIFICATION Spec
SYMMETRY Symmetry
INVARIANTS TypeOK DurableApprovals InSync
PROPERTIES AllowNeedsApproval ApprovalHonoured WhitelistIsAtomic
