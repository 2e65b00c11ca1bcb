CONSTANTS
  Containers = {c1, c2}
  c1 = c1
  c2 = c2
  Loads <- MixedLoads
  PPS = 2
  BPS = 4
  Word = 64
  MaxPackets = 2
  MaxAge = 2
SYMMETRY ContainerSymmetry
SPECIFICATION Spec
PROPERTIES FlaggedOnlyIfFlooding
