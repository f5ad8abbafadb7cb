SPECIFICATION FilesSpec
CONSTANTS
  p1 = p1
  p2 = p2
  p3 = p3
  w1 = w1
  w2 = w2
  w3 = w3
  Processes = {p1, p2}
  Windows = {w1, w2}
  Files = {f, g}
  Owner <- OwnerTwo
  Pid <- PidsDiffer
  Host <- OneMachine
  NoProcess = NoProcess
  NoFile = NoFile
  Sources = {a, b}
  Setups <- Several
  NoSource = NoSource
  Gone = Gone
  Old = Old
  Other = Other
  Zero = Zero
  Archives = {"outer", "inner", "other"}
  Local = "disk"
  Within <- OneInside
  Panels = {1, 2}
  NoListing = "other view"
  MaxOpen = 1
  Names = {1, 2, 3}
  Dirs = {2}
  TopDir = 0
  Heights = {2, 3}
  Scrolls = {"none", "pages", "center"}
  READ_STEPS = 2
  MaxCommands = 4
  MaxChanges = 1
CHECK_DEADLOCK FALSE
SYMMETRY Alike
INVARIANTS TypeOK NoLeak Exclusive SourceSurvives StampsExact SummaryTrue CursorShown EachOnce
PROPERTIES ReportIsTrue NothingHalfDone AgreedOverwrite CopyKept MarksKept
