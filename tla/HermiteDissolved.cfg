SPECIFICATION Spec
CONSTANTS
  Particle = {p1, p2, p3, p4}
  Steps = {1, 2}
  TimeEnd = 2
  Events = {}
SYMMETRY Symmetry
INVARIANTS
  DissolvedAtNow
