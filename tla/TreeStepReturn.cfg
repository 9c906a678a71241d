SPECIFICATION Spec
CONSTANTS
  StepMode = "kdk"
  OneCluster = one
  Isolated = {i1}
  Connected = {}
  DtSnap = 6
  Breaks = {6, 12}
  Interrupts = TRUE
  Evolving = {}
  Reopt = FALSE
  Restarts = FALSE
INVARIANT
  ReturnsSynchronised
