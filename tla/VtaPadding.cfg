SPECIFICATION Spec
CONSTANTS
  kMaxNumUop = 24
  MaxXfer = 128
  PageBytes = 16
  NUM_THREADS = 2
  BLOCK = 2
  ACC_DEPTH = 8
  Models <- Padded
  MaxEval = 1
  In1 <- Operand1
  In2 <- Operand2
  Quant1 <- QIn1
  Quant2 <- QIn2
  QuantOut <- QOut
PROPERTY AddsElements
CHECK_DEADLOCK FALSE
