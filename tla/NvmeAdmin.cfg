SPECIFICATION Spec
CONSTANTS
  AdmSize = 3
  IoSize = 3
  MaxAdm = 2
  MaxResets = 2
  DataOp = {"identify", "get_log"}
  Workload <- MCWorkload
INVARIANTS ReadyMeansConfigured RunsOwnCommands CompletionsAreNew ResponsesIntact ArraysRespected
PROPERTIES CommandsAnswered HandshakesEnd
CHECK_DEADLOCK FALSE
