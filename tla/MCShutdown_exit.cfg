SPECIFICATION Unfair
CONSTANTS
  NBufs = 1
  Faults <- MCNone
  CameraFaults <- MCNone
  Formats <- MCFormats
  Native <- MCNative
  MaxEvents = 2
INVARIANTS
  CleanExit
