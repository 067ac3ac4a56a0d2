\* A host and two clients; one client may be interrupted.
SPECIFICATION Spec
CONSTANTS
    Alice = Alice
    Bob = Bob
    Clients = {Alice, Bob}
    Host = Host
    NoFrame = NoFrame
    Interruptible = {Alice}
\* Every process may leave, and the system then stops.
CHECK_DEADLOCK FALSE
INVARIANTS
    IInv
    BufferExclusive
    OneClient
PROPERTIES
    SessionsInOrder
    ExchangeSpec
    FrameIsRead
    SenderGetsBuffer
