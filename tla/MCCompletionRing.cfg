SPECIFICATION Spec
CONSTANTS
  Size = 4
  Data = {a, b}
  NoData = NoData
  MaxIrq = 2
INVARIANTS HostReadsOldest NoOverwrite
PROPERTIES DropOnlyWhenHostBehind FullIsTemporary CompletionsArrive
