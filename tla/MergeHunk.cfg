SPECIFICATION DvSpec
CONSTANTS
  LineValues = {1, 2, 3}
  MaxLines = 5
  NoBackup = NoBackup
  MaxMerges = 1
  MaxSessions = 1
  MaxFailures = 0
CHECK_DEADLOCK FALSE
PROPERTIES OnlyCurrentHunk
