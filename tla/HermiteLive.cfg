SPECIFICATION FairSpec
CONSTANTS
  Particle = {p1, p2, p3}
  Steps = {1, 2, 4}
  TimeEnd = 4
  Events = {"change", "merge", "destroy", "vanish"}
PROPERTIES
  ReachesEnd
