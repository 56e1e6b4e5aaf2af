CONSTANTS
  boot = boot
  desk = desk
  shell = shell
  one = one
  two = two
  NoNode = NoNode
  default = default
  tcg = tcg
  Nodes = {boot, desk, shell}
  NodeDeps <- ChainDeps
  FileOf <- ChainFiles
  Files = {one}
  Selections <- OneFile
  Editable = {boot, desk}
  Runtimes = {default}
  Default = default
  MayForce = FALSE
  CrashPhases = {"run"}
  MaxBuilds = 4
SPECIFICATION Spec
INVARIANTS
  ChainsIntact
