\* A mounted file system of one open file at most; times are those of any day.
SPECIFICATION FrontSpec
CONSTANTS
    A = A
    B = B
    C = C
    NoName = NoName
    NoFile = NoFile
    Keys = {A, B, C}
    ShortName <- Distinct
    MaxCluster = 4
    SlotsPerCluster = 1
    ClusterSize = 1
    MaxOpen = 1
    MaxOffset = 0
    MaxLen = 1
    MaxRoom = 2
    MaxUnset = 1
    MaxParts = 2
VIEW frontState
SYMMETRY NameSymmetry
INVARIANT ListingSucceeds
