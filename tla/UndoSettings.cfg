SPECIFICATION SettingsSpec
CONSTANTS
  NL = nl
  Byte = {nl, ch}
  MaxSize = 9
  Blanks = {nl}
  CharBytes = 2
  START_STACK_SIZE = 6
  MaxUndo = 10
  Margin = 5
  MAX_RUN = 3
  Codes <- TwoKeysTwoCodes
  Rows = 1
  option_group_undo = FALSE
  Ops = {"insert", "ahead", "delete", "backspace", "move", "scroll"}
  FirstTexts = {2}
  MaxKeys = 3
  MaxOps = 2
  MaxUndos = 3
  MaxRedos = 1
CHECK_DEADLOCK FALSE
INVARIANTS OldestIsKey RoomLeft UndoRestores LinesExact
