CONSTANTS
  Bodies <- MCWithEmpty
  Valid <- MCValid
  MaxFrames = 2
SPECIFICATION Spec
PROPERTY NoFrameEndsServer
CHECK_DEADLOCK FALSE
