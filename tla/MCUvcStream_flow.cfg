SPECIFICATION Spec
CONSTANTS
  SourceTypes = {"DMABUF", "STATIC"}
  NBufs = 4
  MaxEvents = 2
  Faults <- MCNoFaults
INVARIANTS
  NothingStranded
PROPERTIES
  StreamOnStarts
  EventsServed
  FramesFlow
