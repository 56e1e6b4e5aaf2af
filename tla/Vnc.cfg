SPECIFICATION Spec
CONSTANTS
  Regions = {1, 2}
  MaxEvents = 2
  MaxCalls = 2
INVARIANTS
  VncInv
  FrameWhole
  FrameFresh
PROPERTIES
  FrameEnds
