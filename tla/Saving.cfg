SPECIFICATION SavingSpec
CONSTANTS
  Files = {f, g}
  Texts = {t, u}
  Empty = Empty
  Torn = Torn
  Absent = Absent
  NoName = NoName
  MaxSaves = 2
  MaxEvents = 2
  CanCrash = TRUE
  LineValues = {1, 2}
  MaxLines = 3
  NoBackup = NoBackup
  MaxMerges = 2
  MaxSessions = 2
  MaxFailures = 1
CHECK_DEADLOCK FALSE
SYMMETRY Alike
INVARIANTS CopySurvives ResultIsTrue UnmodifiedIsOnDisk RowsTrue
PROPERTIES NoSilentOverwrite OnlyAsAsked
