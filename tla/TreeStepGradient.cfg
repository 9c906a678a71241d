SPECIFICATION Spec
CONSTANTS
  StepMode = "kdkdk4"
  OneCluster = one
  Isolated = {i1}
  Connected = {}
  DtSnap = 6
  Breaks = {12}
  Interrupts = FALSE
  Evolving = {}
  Reopt = FALSE
  Restarts = FALSE
INVARIANT
  GradientAtMiddle
