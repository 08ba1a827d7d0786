SPECIFICATION Spec
CONSTANTS
  Name = {n1, n2}
  Data = {v1, v2}
  Link = Link
  Absent = Absent
  Torn = Torn
  MaxSeen = 3
  Rotting = {n1}
PROPERTIES ForceOverwrites
