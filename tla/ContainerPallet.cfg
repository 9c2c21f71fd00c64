SPECIFICATION PalletsSpec
CONSTANTS
  s1 = s1
  s2 = s2
  s3 = s3
  s4 = s4
  p1 = p1
  p2 = p2
  MaxGroupSize = 2
  MaxGroupNumber = 3
  MaxRunningAPP = 2
  GenesisMetric <- McGenesisMetric
  Metrics <- McMetrics
  Seeds = {0, 1, 2, 3}
  Processors = {p1, p2}
  Addresses = {1, 2}
  CandidateLists <- McCandidateLists
  Announcements <- McAnnouncements
  AppInfos = {1}
  Urls = {1}
  MaxRuningAPP = 4
INVARIANTS
  GroupsDisjoint
  OneProcessorPerGroup
  AppsMatchGroups
  LoadsMatchGroups
PROPERTIES
  AnnouncedGroupsServed
  GroupKeepsApp
  WaitingGroupServed
