CONSTANTS
  boot = boot
  desk = desk
  shell = shell
  one = one
  two = two
  NoNode = NoNode
  default = default
  tcg = tcg
  Nodes = {boot, desk, shell}
  NodeDeps <- ImportDeps
  FileOf <- ImportFiles
  Files = {one, two}
  Selections <- OneOrBoth
  Editable = {desk}
  Runtimes = {default}
  Default = default
  MayForce = TRUE
  CrashPhases = {"prune", "run"}
  MaxBuilds = 4
SPECIFICATION Spec
INVARIANTS
  NothingPilesUp
  PruneSparesCurrent
PROPERTIES
  ReplacedOnlyOnSuccess
