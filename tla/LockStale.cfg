SPECIFICATION Spec
CONSTANTS
  p1 = p1
  p2 = p2
  p3 = p3
  w1 = w1
  w2 = w2
  w3 = w3
  Processes = {p1, p2, p3}
  Windows = {w1, w2, w3}
  Files = {f}
  Owner <- OwnerThree
  Pid <- PidsDiffer
  Host <- OneMachine
  NoProcess = NoProcess
  NoFile = NoFile
CHECK_DEADLOCK FALSE
SYMMETRY Alike
INVARIANTS ExclusiveWhenStale
