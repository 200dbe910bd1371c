CONSTANTS
  Bodies <- MCWellFormed
  Valid <- MCValid
  MaxFrames = 3
SPECIFICATION FairSpec
PROPERTY FramesHandled
\* The connection ends once the peer has closed and its bytes are read.
CHECK_DEADLOCK FALSE
