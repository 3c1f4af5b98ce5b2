CONSTANTS
  a = a
  b = b
  c = c
  t = t
  Image = {a, b}
  MissingImage = {b}
  Cube = {c}
  BrokenCube = {c}
  Target = {t}
  Unnamed = Unnamed
  MaxTextures = 4
  Hash <- HashApart
  CountLimit = 8
  MaxHeld <- HeldAtATime
  MaxNames = 2
  MaxLoads = 2
  Hasty = FALSE
  Null = Null
SPECIFICATION FairSpec
INVARIANTS HandlesDistinct BackendOwned HoldersServed
PROPERTIES TextureArrives ImplementsContract
