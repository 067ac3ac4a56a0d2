\* Two clients, one of which may be killed; nobody types a line or is interrupted.
SPECIFICATION FairSpec
CONSTANTS
    Clients = {Alice, Bob}
    Host = Host
    Names = {X, Y}
    NoName = NoName
    Interruptible = {}
    Killable = {Bob}
    N_MAX_MSG = 1
    MaxLines = 0
\* Every client may leave, and the system then waits.
CHECK_DEADLOCK FALSE
PROPERTY KilledReaped
