SPECIFICATION Spec
CONSTANTS
  AddrMod = 64
  RamPage = 16
  RamTag = 1
  RamDepth = 4
  LocalBase = 48
  Data = {d1, d2}
  LenMod = 16
  StreamLenMod = 16
  Jobs <- CopyJobs
  Configs <- OneConfig
  CpuRequests <- CoreStores
  CoreYields = TRUE
  StreamStarts <- Never
  ResultBeats <- NoResults
PROPERTY CopyMovesWords
