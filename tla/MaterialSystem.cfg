CONSTANTS
  a = a
  b = b
  brick = brick
  glass = glass
  sky = sky
  Image = {a, b}
  Material <- Materials
  Config <- Configs
  AutoRelease = {brick, glass}
  Faulty = {glass}
  MaxMaterials = 3
  MaxHeld = 2
  MaxStray = 1
  NoMap = NoMap
  Null = Null
SPECIFICATION Spec
INVARIANTS TexturesHeld MaterialsOwned NothingLeft
