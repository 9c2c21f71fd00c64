SPECIFICATION TaskSpec
CONSTANTS
  a1 = a1
  a2 = a2
  a3 = a3
  Apps <- ThreeApps
  DockerApps = {}
  NoApp = NoApp
  MaxRegroups = 3
  MaxFaults = 2
  MaxRuns = 2
  MaxRestarts = 1
INVARIANTS
  OneDownload
  ArgsOfOwnApp
  OneRunInstance
  NothingEscapes
PROPERTIES
  AssignedAppRuns
