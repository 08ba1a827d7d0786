SPECIFICATION Spec
CONSTANTS
  Opener = {a1}
  Keeper = {a2}
  Password = {p1, p2}
  None = None
  Torn = Torn
PROPERTIES RealNeverDestroys
