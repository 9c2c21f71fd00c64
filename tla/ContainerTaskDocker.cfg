SPECIFICATION TaskSpec
CONSTANTS
  a1 = a1
  a2 = a2
  a3 = a3
  Apps <- TwoApps
  DockerApps = {a1}
  NoApp = NoApp
  MaxRegroups = 3
  MaxFaults = 0
  MaxRuns = 2
  MaxRestarts = 0
INVARIANTS
  OldInstanceStopped
