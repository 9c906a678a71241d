SPECIFICATION PartsSpec
CONSTANTS
  Item = {i1, i2, i3, i4}
  Steps = {1, 2, 4, 8}
  TimeEnd = 16
  TimeMax = 32
  Word = 256
  MaxLength = 7
  NParticle = 8
  NGroup = 2
INVARIANTS
  OnGrid
  NeverOvertakes
  EndsTogether
  LargestStep
  ListsEdited
  NewGroupsHold
PROPERTIES
  LoopsEnd
