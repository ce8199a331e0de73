SPECIFICATION MCSpec
CONSTANTS
  t1 = t1
  t2 = t2
  Script <- MCScript
  Nobody = Nobody
  Test <- MCTest
  Directed <- MCDirected
  MaxMakes = 2
  MaxEdits = 1
  ToolCalls <- MCToolCalls
  ConfigCalls <- MCConfigCalls
  FilterCalls <- MCFilterCalls
  Logs <- MCLogs
  GenCalls <- MCGenCalls
  MacCalls <- MCMacCalls
INVARIANT TypeOK
INVARIANT NothingLost
INVARIANT MetadataImpliesTests
INVARIANT VerdictIsOfItsLog
INVARIANT PassIsEarned
INVARIANT ToolVerdictIsExact
INVARIANT FieldsReachSimulator
INVARIANT SupportedTestsRun
INVARIANT LogVerdict
INVARIANT CopiesWhatWasWritten
INVARIANT GoldenIsBanded
PROPERTY RegressionEnds
CHECK_DEADLOCK FALSE
