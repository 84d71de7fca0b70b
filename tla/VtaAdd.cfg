SPECIFICATION Spec
CONSTANTS
  kMaxNumUop = 24
  MaxXfer = 128
  PageBytes = 16
  NUM_THREADS = 2
  BLOCK = 2
  ACC_DEPTH = 8
  Models <- Fitting
  MaxEval = 2
  In1 <- Operand1
  In2 <- Operand2
  Quant1 <- QIn1
  Quant2 <- QIn2
  QuantOut <- QOut
INVARIANTS DeviceAtRest BuffersReturned
PROPERTIES AddsElements EvalReturns
\* the model is evaluated MaxEval times
CHECK_DEADLOCK FALSE
