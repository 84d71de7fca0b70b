SPECIFICATION Spec
CONSTANTS
  f1 = f1
  f2 = f2
  Firmware = {f1, f2}
  NoFirmware = NoFirmware
  Data = {d1}
  NoData = NoData
  Factory <- FactoryImage
  DeviceSize = 4
  EraseSize = 2
  Erased = Erased
  Workloads <- MCWorkloads
  AckCap = 2
  MaxAcc = 2
  MaxRun = 2
  MaxLoss = 1
INVARIANTS AnsweredInOrder DoneMeansWritten NoUseAfterDelete FlashHoldsOneImage
PROPERTIES EveryCommandAnswered
\* the host sends a bounded number of commands
CHECK_DEADLOCK FALSE
