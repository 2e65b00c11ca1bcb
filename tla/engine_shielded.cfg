CONSTANTS
  Words <- SomeWords
  DockerActions <- BuiltDocker
  DockerUp <- DockerPings
  FileActions <- BuiltFile
  PteroActions <- BuiltPtero
  DryRun <- BuiltDryRun
  Rules <- BuiltRules
  Findings <- OneProcess
  Rank <- ProcessesThenConns
  Detectors <- BareDetectors
  Mode <- NodeMode
  Alerters <- NodeAlerters
  HttpAlerters <- HttpOnly
  MinSeverity <- MinSeverities
  Cooldown = 1
  SendTimeout = 0
SPECIFICATION FairSpec
PROPERTIES EveryMatchingRuleContributes
