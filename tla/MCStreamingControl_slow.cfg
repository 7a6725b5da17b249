SPECIFICATION Spec
CONSTANTS
  Worlds <- MCLegacy
  HostIntervals <- MCSlowHostIntervals
  MaxSlides = 3
  Sources = {"slideshow"}
  CameraRates <- MCCameraRates
  SinkRefuses = FALSE
PROPERTIES
  FpsNonZero
