CONSTANTS
  Words <- SomeWords
  DockerActions <- BuiltDocker
  DockerUp <- DockerPings
  FileActions <- BuiltFile
  PteroActions <- BuiltPtero
  DryRun <- BuiltDryRun
  Rules <- BuiltRules
  Findings <- TwoThreats
  Rank <- AnyRank
  Detectors <- NodeDetectors
  Mode <- NodeMode
  Alerters <- NodeAlerters
  HttpAlerters <- HttpOnly
  MinSeverity <- MinSeverities
  Cooldown = 1
  SendTimeout = 0
SPECIFICATION FairSpec
PROPERTIES ShutdownCompletes EnforceableThreatsEnd PersistentThreatReported
