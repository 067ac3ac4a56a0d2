\* Two clients and message queues of one frame; one client may be killed; the other or the
\* host is interrupted, or a line typed: the constraint only cuts short what is safety.
SPECIFICATION Spec
CONSTANTS
    Alice = Alice
    Bob = Bob
    X = X
    Y = Y
    Clients = {Alice, Bob}
    Host = Host
    Names = {X, Y}
    NoName = NoName
    Interruptible = {Alice, Host}
    Killable = {Bob}
    N_MAX_MSG = 1
    MaxLines = 1
CONSTRAINT FewEvents
SYMMETRY NameSymmetry
\* Every client may leave, and the system then waits.
CHECK_DEADLOCK FALSE
INVARIANTS
    IInv
    TableAnnounced
    HostNeverStuck
PROPERTIES
    RoomSpec
