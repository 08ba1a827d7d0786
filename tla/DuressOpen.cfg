SPECIFICATION FairSpec
CONSTANTS
  Opener = {a1}
  Keeper = {a2}
  Password = {p1, p2}
  None = None
  Torn = Torn
INVARIANTS DuressTypeOK KeyGoesFirst NoHalfDestruction ArmedStays OblivionMeansGone
PROPERTIES OnlyConfirmedDestroys DestructionFinishes
