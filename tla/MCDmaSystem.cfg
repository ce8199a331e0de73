SPECIFICATION FairSpec
CONSTANTS
  AddrMod = 64
  RamPage = 16
  RamTag = 1
  RamDepth = 4
  LocalBase = 48
  Data = {d1}
  LenMod = 16
  StreamLenMod = 16
  Jobs <- OneOrLocalJob
  Configs <- OneConfig
  CpuRequests <- CoreTraffic
  CoreYields = FALSE
  StreamStarts <- Both
  ResultBeats <- AnyBeat
INVARIANT OwnersFollowMemory
PROPERTY Contracts
PROPERTY EnginesProgress
