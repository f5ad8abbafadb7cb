SPECIFICATION ProgressSpec
CONSTANTS
  NL = nl
  Byte = {ch}
  MaxSize = 9
  Blanks = {nl}
  CharBytes = 2
  START_STACK_SIZE = 32
  MaxUndo = 32
  Margin = 10
  MAX_RUN = 1000000000
  Rows = 1
  option_group_undo = TRUE
  Ops = {"insert", "backspace"}
  FirstTexts = {0}
  MaxKeys = 3
  MaxOps = 1
  MaxUndos = 2
  MaxRedos = 1
  Tasks = {s, t}
  NoTask = NoTask
  MaxQuestions = 2
  MaxDeaths = 1
  MaxLines = 5
  MaxKills = 1
  ConsoleRows = 3
  Bytes = 8
  MaxRequests = 3
CHECK_DEADLOCK FALSE
INVARIANTS RedoRestores AnswersMatch InactiveAwaits TurnsMatch
PROPERTIES UndoEnds EveryCallReturns CommandReturns RequestEnds
