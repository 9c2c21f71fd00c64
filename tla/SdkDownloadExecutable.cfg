SPECIFICATION DownloadSpec
CONSTANTS
  Lengths <- FewLengths
  ChunkSize = 2
  Word = 16
  DiskSize = 8
  MaxFaults = 3
INVARIANT
  ReadyIsExecutable
