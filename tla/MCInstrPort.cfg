SPECIFICATION FetchSpec
CONSTANTS
  RomDepth = 2
  PcMod = 12
  RomWord <- MCWord
  Rom <- MCRom
INVARIANT FetchesItsWord
INVARIANT OneFetchInFlight
