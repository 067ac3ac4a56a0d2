\* The programs over three clusters of one slot: directories of up to two entries
\* grow, come and go under a current directory or a reading of one or two a reply.
SPECIFICATION FrontSpec
CONSTANTS
    A = A
    B = B
    C = C
    NoName = NoName
    NoFile = NoFile
    Keys = {A, B}
    ShortName <- Distinct
    MaxCluster = 4
    SlotsPerCluster = 1
    ClusterSize = 1
    MaxOpen = 1
    MaxOffset = 0
    MaxLen = 1
    MaxRoom = 2
    MaxUnset = 1
    MaxParts = 2
VIEW frontState
SYMMETRY NameSymmetry
INVARIANTS
    FrontTypeOK
    ListingFaithful
    HandlesAgree
    CwdFollowsPath
    ResolveAgrees
PROPERTIES
    ErrorLeavesTree
