SPECIFICATION FrameFairSpec
CONSTANTS
    Textures = {1, 3}
    Missing = 2
    Layers = {0, 1}
    MaxBatchSize = 2
    MaxSprites = 3
    MaxSubmits = 2
    VertexCounts = {1, 2}
    MaxLists = 2
INVARIANTS
    EverySpriteOnce
    OwnTexture
    EveryDrawOwnBindings
    BuffersNeverOverrun
PROPERTIES
    SubmitReturns
