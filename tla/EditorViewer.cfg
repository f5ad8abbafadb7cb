SPECIFICATION PartsSpec
CONSTANTS
  NL = nl
  NUL = nul
  Byte = {nl, nul}
  EDIT_BUF_SIZE = 2
  MaxSize = 5
  START_STACK_SIZE = 8
  MaxUndo = 16
  Margin = 5
  MAX_RUN = 3
  Codes <- KeyAndCode
  MaxPushes = 16
  LF = LF
  CR = CR
  Other = {o}
  MaxText = 5
  MaxLine = 3
  MaxMarks = 2
  VIEW_COORD_CACHE_GRANUL = 2
  BS = BS
  CRet = CRet
  Newline = Newline
  Tab = Tab
  Printable = {us, plus, x}
  Underscore = us
  Plus = plus
  LetterO = x
  MaxFile = 4
  FileBytes = {BS, CRet, Tab, us, plus, x}
  HexBytes = {Newline}
  Columns = {8}
  Offsets = {0, 1}
  Values = {u, v}
  Unchanged = Unchanged
  MaxTyped = 4
CONSTRAINT CacheFresh
CHECK_DEADLOCK FALSE
INVARIANTS TypeOK BreaksConverted MarksFollow ChangesKept
PROPERTIES ImplementsText WrittenIsText LoadedIsFile RingIsStack 
