SPECIFICATION OpSpec
CONSTANTS
  Sources = {a, b}
  Setups <- Several
  NoSource = NoSource
  Gone = Gone
  Old = Old
  Other = Other
  Zero = Zero
CHECK_DEADLOCK FALSE
PROPERTIES AskedBeforeReplaced
