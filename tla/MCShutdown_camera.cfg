SPECIFICATION Program
CONSTANTS
  NBufs = 3
  Faults <- MCSinkFaults
  CameraFaults <- MCCameraFaults
  Formats <- MCFormats
  Native <- MCNative
  MaxEvents = 2
INVARIANTS
  OneOwner
  NothingStranded
  EncoderMemory
  RequestsLive
  StoppedIsReleased
PROPERTIES
  FramesFlow
  InterruptEnds
  ExitOrder
