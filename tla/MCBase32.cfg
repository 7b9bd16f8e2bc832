SPECIFICATION DecoderSpec
CONSTANTS
  Inputs <- MCInputs
  BufSizes = {0, 2, 5, 6, 16}
  Padding = Padding
  Illegal = Illegal
  Nul = Nul
  Running = Running
INVARIANTS
  DecodesTheBits
  StaysInside
CHECK_DEADLOCK FALSE
