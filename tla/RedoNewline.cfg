SPECIFICATION KeysSpec
CONSTANTS
  NL = nl
  Byte = {nl, ch}
  MaxSize = 9
  Blanks = {nl}
  CharBytes = 1
  START_STACK_SIZE = 32
  MaxUndo = 32
  Margin = 10
  MAX_RUN = 1000000000
  Rows = 1
  option_group_undo = FALSE
  Ops = {"insert", "delete", "backspace", "move"}
  FirstTexts = {2}
  MaxKeys = 2
  MaxOps = 1
  MaxUndos = 3
  MaxRedos = 3
CHECK_DEADLOCK FALSE
INVARIANTS RedoRestores
