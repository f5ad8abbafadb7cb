SPECIFICATION Spec
CONSTANTS
  Files = {f, g}
  Texts = {t, u}
  Empty = Empty
  Torn = Torn
  Absent = Absent
  NoName = NoName
  MaxSaves = 1
  MaxEvents = 1
  CanCrash = FALSE
CHECK_DEADLOCK FALSE
SYMMETRY Alike
PROPERTIES RemovedIsUnsaved
