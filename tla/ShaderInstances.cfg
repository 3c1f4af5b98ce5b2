SPECIFICATION Spec
INVARIANTS ReadsAlive DrawsCurrent InstancesOwned NeverRewritten
CONSTANTS
    m1 = m1  m2 = m2  m3 = m3
    brick = brick  slate = slate
    Material = {m1, m2, m3}
    Texture = {brick, slate}
    TextureOf <- SharedTexture
    IdCount = 3
    MaxCount = 3
    SetCount = 2
    Image = {a, b}
    NoView = NoView  Default = Default  Gone = Gone
SYMMETRY AlikeMaterials
