SPECIFICATION Spec
CONSTANTS
  Worlds <- MCWorlds
  HostIntervals <- MCHostIntervals
  MaxSlides = 3
  Sources = {"slideshow", "camera"}
  CameraRates <- MCCameraRates
  SinkRefuses = TRUE
INVARIANTS
  Declared
  AnswerStands
  EndsAgree
  SlideToShow
  LoopRuns
  Paced
CHECK_DEADLOCK FALSE
