SPECIFICATION LbSpec
CONSTANTS
  LF = LF
  CR = CR
  Other = {o}
  MaxText = 5
CHECK_DEADLOCK FALSE
INVARIANTS UnixStaysUnix
