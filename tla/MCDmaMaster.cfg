SPECIFICATION Spec
CONSTANTS
  AddrMod = 32
  RamPage = 16
  RamTag = 0
  RamDepth = 4
  LocalBase = 24
  Data = {d1, d2}
  LenMod = 16
  Jobs <- MCJobs
INVARIANT WaitsForItsRead
INVARIANT AsksForCurrentWord
PROPERTY HeldUntilGranted
