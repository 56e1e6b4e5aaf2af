SPECIFICATION Spec
CONSTANTS
  desktop = desktop
  server = server
  install = install
  join = join
  both = both
  NoRun = NoRun
  Sources = {desktop, server}
  Tests = {install, join, both}
  Inputs <- TwoInputs
  Name <- Names
  Runs = {1, 2, 3}
  Target <- TwoFiles
  Forced = FALSE
  Recorded = TRUE
  ExpectedFailures = {}
INVARIANTS
  ExecutorInv
  LocksMatchCalls
  ArgumentsExact
  PublishedOnce
  FailuresHaveCauses
PROPERTIES
  EveryRunEnds
