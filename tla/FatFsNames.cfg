\* Two keys that differ by a trailing blank are written with the same short name.
SPECIFICATION Spec
CONSTANTS
    A = A
    B = B
    C = C
    BlankA = BlankA
    NoName = NoName
    NoFile = NoFile
    Keys = {A, BlankA}
    ShortName <- Trimming
    MaxCluster = 3
    SlotsPerCluster = 2
    ClusterSize = 2
    MaxOpen = 1
    MaxOffset = 0
    MaxLen = 0
VIEW fsState
INVARIANT NamesUnique
