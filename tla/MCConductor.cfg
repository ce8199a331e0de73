SPECIFICATION FairSpec
CONSTANTS
  Proc <- AllProc
  Codes <- AllCodes
  Hint <- HintOfKind
  Peak <- PeakOfKind
  Timed <- TimedProc
  Sizes = {0, 3}
  TotalMem = 5
  MaxMem = 0
  Buffer = 2
  MinShare = 1
  MaxRunning = 2
  NoKill = FALSE
  JobId = {1, 2, 3}
  Steps = 1
  Props <- OneStep
  Ranks <- ByName
  Launches <- CommandLines
  Answers = {"20", "30"}
  Stored <- StoredBefore
  MaxFiles = 3
  MaxLaunches = 2
INVARIANT NoStray
INVARIANT StoredIsProven
INVARIANT HonestExit
PROPERTY InOrderOfArrival
PROPERTY StaysHeldUp
PROPERTY ConductorEnds
CHECK_DEADLOCK FALSE
