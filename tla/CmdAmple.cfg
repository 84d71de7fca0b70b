SPECIFICATION Spec
CONSTANTS
  r = r
  w3 = w3
  n = n
  v = v
  in = in
  in3 = in3
  out = out
  out2 = out2
  out3 = out3
  fw = fw
  Cmd = {r, w3, out, fw}
  MaxOut = 2
  Kind <- KindOf
  Pages <- PagesOf
  Bad = {}
  Block = {b1, b2, b3}
  Buffer = {x1, x2, x3}
  PrpSlab = 2
  SendFails = 0
  Null = Null
  Disk = Disk
  NoCmd = NoCmd
  NoBlock = NoBlock
CONSTRAINT Followed
INVARIANTS DataBeforeCompletion TransfersHaveBuffer
PROPERTIES EveryCommandEnds
