\* A failed mkdir: the root is full and one cluster is left.
SPECIFICATION Spec
CONSTANTS
    A = A
    B = B
    C = C
    BlankA = BlankA
    NoName = NoName
    NoFile = NoFile
    Keys = {A, B, C}
    ShortName <- Distinct
    MaxCluster = 3
    SlotsPerCluster = 2
    ClusterSize = 2
    MaxOpen = 1
    MaxOffset = 0
    MaxLen = 0
VIEW fsState
INVARIANT NoLostCluster
