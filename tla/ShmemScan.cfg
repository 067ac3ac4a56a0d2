\* Two clients.
SPECIFICATION Spec
CONSTANTS
    Alice = Alice
    Bob = Bob
    Clients = {Alice, Bob}
    Host = Host
    NoFrame = NoFrame
    NameOf <- OwnNames
    LengthOf <- ThreeLengths
    Interruptible = {}
    Killable = {}
    MaxEvents = 1
\* Every client may leave, and the system then waits.
CHECK_DEADLOCK FALSE
INVARIANT MessagesWhole
