SPECIFICATION Spec
CONSTANTS
  Files = {f, g}
  Texts = {t, u}
  Empty = Empty
  Torn = Torn
  Absent = Absent
  NoName = NoName
  MaxSaves = 2
  MaxEvents = 2
  CanCrash = FALSE
CHECK_DEADLOCK FALSE
SYMMETRY Alike
PROPERTIES ClosedIsSaved
