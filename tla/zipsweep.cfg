CONSTANTS
  Paths = {"zip", "gz"}
  Gzips = {"gz"}
  Contents <- MixedContents
  Ratio = 4
  MaxUncompressed = 8
  Word = 16
  MaxWrites = 3
SPECIFICATION Spec
INVARIANTS TypeOK ClearedIsHarmless
PROPERTIES BombsAreCaught
