SPECIFICATION Spec
CONSTANTS
  desktop = desktop
  server = server
  install = install
  join = join
  both = both
  NoRun = NoRun
  Sources = {desktop, server}
  Tests = {install, join}
  Inputs <- Projected
  Name <- Names
  Runs = {1, 2}
  Target <- PodAndConsumer
  Forced = FALSE
  Recorded = TRUE
  ExpectedFailures = {}
INVARIANT
  ProjectionsRun
