CONSTANTS
  Words <- SomeWords
  DockerActions <- BuiltDocker
  DockerUp <- DockerPings
  FileActions <- BuiltFile
  PteroActions <- BuiltPtero
  DryRun <- BuiltDryRun
  Rules <- BuiltRules
  Findings <- MixedThreats
  Rank <- AnyRank
  Detectors <- HostDetectors
  Mode <- HostMode
  Alerters <- HostAlerters
  HttpAlerters <- HttpOnly
  MinSeverity <- MinSeverities
  Cooldown = 2
  SendTimeout = 1
SPECIFICATION Spec
INVARIANTS TypeOK NoOverlappingSends
PROPERTIES IsThrottle
