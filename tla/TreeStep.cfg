SPECIFICATION FairSpec
CONSTANTS
  StepMode = "kdkdk"
  OneCluster = one
  Isolated = {i1, i2}
  Connected = {c1, c2}
  DtSnap = 12
  Breaks = {5, 12, 20}
  Interrupts = TRUE
  Evolving = {i1}
  Reopt = TRUE
  Restarts = TRUE
INVARIANTS
  KickFollowsDrift
  OriginsFollow
  OutputSynchronised
  SnapshotsNumbered
  ChangeoversApplied
  MassChangesCorrected
PROPERTY
  CallReturns
