SPECIFICATION Spec
CONSTANTS
  AddrMod = 64
  RamPage = 16
  RamTag = 1
  RamDepth = 2
  LocalBase = 48
  Data = {d1, d2}
  CpuRequests <- MCCpu
  MacRequests <- MCMac
  DmaRequests <- MCDma
INVARIANT UndisturbedReadIsExact
INVARIANT RoundRobinIsFair
 
