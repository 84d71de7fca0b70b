SPECIFICATION Spec
CONSTANTS
  r = r
  w3 = w3
  n = n
  v = v
  in = in
  in3 = in3
  out = out
  out2 = out2
  out3 = out3
  fw = fw
  Cmd = {n, v, in, in3, out, out2, out3}
  MaxOut = 3
  Kind <- KindOf
  Pages <- PagesOf
  Bad = {in, out}
  Block = {b1, b2}
  Buffer = {x1, x2}
  PrpSlab = 1
  SendFails = 1
  Null = Null
  Disk = Disk
  NoCmd = NoCmd
  NoBlock = NoBlock
CONSTRAINT Followed
INVARIANTS PoolsAccounted NoneForgotten
\* errors may have taken every block
CHECK_DEADLOCK FALSE
