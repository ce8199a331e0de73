SPECIFICATION FairSpec
CONSTANTS
  AddrMod = 16
  RamPage = 8
  RamTag = 0
  RamDepth = 2
  LocalBase = 12
  Data = {d1}
  LenMod = 8
  Accesses <- MCAccesses
INVARIANT AnsweredInOrder
INVARIANT StartIsSeen
INVARIANT DoneIsOfLastJob
INVARIANT JobIsVisible
PROPERTY AccessFinishes
