SPECIFICATION FairSpec
CONSTANTS
  GrpcCalls = {g1, g2}
  HttpCalls = {h1, h2}
  Statements = 3
  MaxBoots = 2
INVARIANTS
  TypeOK ShutdownLosesNoCall BootstrapIsPrefix TelemetryEndsLast
PROPERTIES
  SignalEndsProcess
CHECK_DEADLOCK FALSE
