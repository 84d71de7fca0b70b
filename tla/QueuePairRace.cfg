SPECIFICATION Spec
CONSTANTS
  SqSize = 3
  CqSize = 3
  c1 = c1
  c2 = c2
  b1 = b1
  b2 = b2
  b3 = b3
  Block = {b1, b2, b3}
  Cmd = {c1, c2}
  NoCmd = NoCmd
  NoBlock = NoBlock
  MaxOut = 2
  Scenes <- MixedScene
INVARIANT PhaseCorrect
