CONSTANTS
  Mode = "both"
  Containers = {"game", "tool"}
  Name <- Names
  Label <- Labels
  Servers = {1, 2}
  Uuid <- Uuids
  Ident <- Idents
  ServerOf <- Owners
  PageSize = 1
  TTL = 1
  Latency = 1
  MaxUp = 4
SPECIFICATION Spec
INVARIANTS TypeOK OnlyTheOffendingServer
PROPERTIES StrikeHitsTheFound SettledContainersAreKnown SteadyServerIsFound
