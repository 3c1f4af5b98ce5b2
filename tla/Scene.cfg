CONSTANTS
  SlotCount = 4
  Block = {b1, b2}
  NoBlock = NoBlock
  MeshCount = 2
  GeometriesOf <- OneAndTwo
  LightCount = 2
  MaxPointLights = 2
  MaxScenes = 2
SPECIFICATION FairSpec
INVARIANTS GeometriesOwned NothingLeft NeverShort
PROPERTIES LightsCurrent UnloadHappens
