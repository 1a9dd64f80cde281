CONSTANTS
  Streams = {0, 1}
  OutOfRange = 2
  NoStream = 3
  Base = 4
  MaxArgs = {0, 9}
  Wires <- MCWires
SPECIFICATION Spec
INVARIANTS TypeOK RxBounded FramesWellFormed FramesAreReference
CHECK_DEADLOCK FALSE
PROPERTY RoundsProgress
