CONSTANTS
  Pids <- TwoPids
  Fds = {1, 2}
  Inodes = {101, 102}
  Workers = {w1, w2}
  Capacity = 1
  Chunk = 1
  Rep = 7
  MaxChanges = 1
SPECIFICATION FairSpec
INVARIANTS TypeOK OwnersAreHolders NothingLost
PROPERTIES Terminates
