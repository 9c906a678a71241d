SPECIFICATION HSpec
CONSTANTS
  Particle = {p1, p2, p3, p4}
  Steps = {1, 2, 4}
  TimeEnd = 4
  Events = {"change", "merge", "destroy", "vanish"}
SYMMETRY Symmetry
INVARIANTS
  TypeOK
  ParticlesKept
  GroupsSound
  SortedLists
  BrokenAtNow
PROPERTIES
  RefinesSchedule
