\* Two clients, one of which may be killed, the other or the host interrupted,
\* or one line typed; joining and leaving are broadcast as well.
SPECIFICATION Spec
CONSTANTS
    Alice = Alice
    Bob = Bob
    Clients = {Alice, Bob}
    Host = Host
    NoFrame = NoFrame
    NameOf <- OwnNames
    LengthOf <- ThreeLengths
    Interruptible = {Alice, Host}
    Killable = {Bob}
    MaxEvents = 1
\* Every client may leave, and the system then waits.
CHECK_DEADLOCK FALSE
INVARIANTS
    IInv
    UplinkExclusive
    DownlinkSound
    RosterCurrent
PROPERTIES
    UplinkSpec
    BroadcastEnds
    ZombieReaped
