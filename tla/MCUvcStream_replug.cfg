SPECIFICATION Safety
CONSTANTS
  SourceTypes = {"DMABUF"}
  NBufs = 2
  MaxEvents = 2
  Faults <- MCReset
PROPERTIES
  StreamOnStarts
