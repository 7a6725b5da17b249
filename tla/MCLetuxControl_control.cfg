SPECIFICATION ControlSpec
CONSTANTS
  Formats <- MCFormats
  ImageSize = 2
  Pictures = {"camera", "pattern", "image"}
  HostIndices = {0, 1, 2, 3}
  HostIntervals = {0, 2, 76}
  HostLevels = {127, 256}
INVARIANTS
  AnswerStands
  DataFindsControl
  FrameFits
CHECK_DEADLOCK FALSE
