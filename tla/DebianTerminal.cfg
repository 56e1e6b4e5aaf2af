SPECIFICATION Spec
CONSTANTS
  Last = 2
  MaxShells = 2
  MaxLag = 2
  Script <- FocusThenAct
INVARIANTS
  TerminalInv
  ReturnsTruthful
  PasswordStays
