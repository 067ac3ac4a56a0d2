\* Nested and growing directories, exhaustion of space at every point, and two
\* handles writing and cutting files of up to two clusters beside path writes.
SPECIFICATION Spec
CONSTANTS
    A = A
    B = B
    C = C
    BlankA = BlankA
    NoName = NoName
    NoFile = NoFile
    Keys = {A, B}
    ShortName <- Distinct
    MaxCluster = 5
    SlotsPerCluster = 1
    ClusterSize = 2
    MaxOpen = 2
    MaxOffset = 3
    MaxLen = 1
VIEW fsState
SYMMETRY NameSymmetry
INVARIANTS
    IInv
    ChainsSound
    ChainMatchesSize
    TreeRooted
    DirSizeCurrent
    NamesUnique
    OpenCoherent
PROPERTIES
    OthersUntouched
    SuccessLosesNothing
