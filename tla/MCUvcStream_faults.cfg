SPECIFICATION Safety
CONSTANTS
  SourceTypes = {"DMABUF", "STATIC"}
  NBufs = 4
  MaxEvents = 2
  Faults <- MCAllFaults
INVARIANTS
  OneOwner
  WatchedOrReleased
  CursorInList
