CONSTANTS
  PipeSize = 1
  OutputLimit = 1
  InputSize = 2
  MaxChunks = 2
  Ends = {"cr", "lf"}
  Digit <- MCDigit
  MaxLine = 5
SPECIFICATION ProcessSpec
CHECK_DEADLOCK FALSE
INVARIANTS
  ReturnsAlone
  SuccessIsWhole
PROPERTIES
  EveryRunEnds
