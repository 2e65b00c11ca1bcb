CONSTANTS
  Pids = {1}
  Programs <- PlainAndMarked
  Burn = {0, 2}
  Threshold = 1
  Sustained = 2
  MaxDelay = 1
  MaxNow = 7
SPECIFICATION Spec
INVARIANTS TypeOK FlaggedOnlyIfSustained BurntForReal
PROPERTIES FlaggedIfSustained
