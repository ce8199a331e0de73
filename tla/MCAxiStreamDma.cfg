SPECIFICATION Spec
CONSTANTS
  AddrMod = 16
  RamPage = 8
  RamTag = 0
  RamDepth = 2
  LocalBase = 12
  Data = {d1, d2}
  StreamLenMod = 16
  Configs <- MCConfigs
INVARIANT AnswersCurrentWord
INVARIANT RepeatsAtMostOnce
