SPECIFICATION Spec
CONSTANTS
  Desc = {d1, d2, d3}
  NoDesc = NoDesc
  MaxXfers = 3
INVARIANTS NoLostWakeup DescHasOneOwner CompletionMatchesHead
PROPERTIES EngineNotDisturbed KeepsPromise
\* every transfer of the bounded number may have been delivered
CHECK_DEADLOCK FALSE
