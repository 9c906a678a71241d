SPECIFICATION Spec
CONSTANTS
  StepMode = "kdk"
  OneCluster = one
  Isolated = {i1}
  Connected = {c1}
  DtSnap = 6
  Breaks = {12}
  Interrupts = TRUE
  Evolving = {c1}
  Reopt = FALSE
  Restarts = FALSE
INVARIANT
  MassChangesCorrected
