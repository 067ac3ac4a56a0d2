\* The image, sync, crashes and device errors.
SPECIFICATION Spec
CONSTANTS
    MaxCluster = 4
    EntrySize = 1
    FcbSize = 2
    BootSize = 4
    Slots = {1, 2}
    ClusterSize = 2
    Values = {1}
    MaxSize <- Sizes
    Configs <- Images
VIEW diskState
CONSTRAINT Followed
INVARIANTS
    IInv
    GeometrySound
    CleanIsStored
    ReadsBack
    BeyondEndZero
    SyncedSurvive
PROPERTIES
    GrowthRollsBack
