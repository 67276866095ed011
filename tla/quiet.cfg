SPECIFICATION Spec
CONSTANTS
  Hours = 5
  Day = 5
  Offset = 2
  Presets <- MCPresets
  Off = Off
  Delay = 1
  Horizon = 11
INVARIANTS EndIsRight OnlyTheBoundary
CHECK_DEADLOCK FALSE
