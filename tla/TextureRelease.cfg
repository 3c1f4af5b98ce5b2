CONSTANTS
  a = a
  b = b
  c = c
  t = t
  Image = {a, b}
  MissingImage = {}
  Cube = {}
  BrokenCube = {}
  Target = {}
  Unnamed = Unnamed
  MaxTextures = 2
  Hash <- HashApart
  CountLimit = 8
  MaxHeld <- HeldAtATime
  MaxNames = 2
  MaxLoads = 2
  Hasty = TRUE
  Null = Null
SPECIFICATION Spec
INVARIANTS SlotReclaimed
