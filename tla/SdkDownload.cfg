SPECIFICATION DownloadSpec
CONSTANTS
  Lengths <- SomeLengths
  ChunkSize = 2
  Word = 16
  DiskSize = 8
  MaxFaults = 3
INVARIANTS
  RangesCoverFile
PROPERTIES
  ImplementsVerifiedDownload
  DownloadRecovers
