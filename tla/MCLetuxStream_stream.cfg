SPECIFICATION Spec
CONSTANTS
  NBufs = 2
  CameraGrants = {2, 3}
  Modes = {"camera", "pattern"}
  Faults <- MCAnyFault
  MaxFaults = 1
  MaxEvents = 2
  MaxStarts = 3
INVARIANTS
  OneOwner
  CountersCover
  Circulation
  MemoryHeld
  KeepsRunning
PROPERTIES
  FramesFlow
CHECK_DEADLOCK FALSE
