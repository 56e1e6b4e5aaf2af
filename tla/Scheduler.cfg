CONSTANTS
  boot = boot
  left = left
  right = right
  join = join
  side = side
  f1 = f1
  f2 = f2
  NoNode = NoNode
  Nodes = {boot, left, right, join, side}
  Files = {f1, f2}
  NodeDeps <- MixedDeps
  Targets <- MixedTargets
  Position <- MixedPosition
  ExpectedFailures = {right}
  Leftovers = {boot, left}
  Jobs = 2
SPECIFICATION Spec
INVARIANTS
  LabelsMatchReport
  RunsOnPassedInputs
  CancelsExactlyConsumers
  ExitCodeFaithful
  NoTaskOutlivesRun
PROPERTIES
  NodesRunOnce
  ImplementsGraphRun
  Terminates
