\* A host whose user types before a client has joined; nobody is interrupted.
SPECIFICATION Spec
CONSTANTS
    Alice = Alice
    Bob = Bob
    Clients = {Alice}
    Host = Host
    NoFrame = NoFrame
    Interruptible = {}
CHECK_DEADLOCK FALSE
INVARIANT DeadlockFree
