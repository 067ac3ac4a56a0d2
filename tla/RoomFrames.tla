----------------------------- MODULE RoomFrames -----------------------------
(***************************************************************************)
(* What the chat rooms over message queues and over FIFOs have in common:  *)
(* their processes, and the frames these exchange (exp_3/mychat).          *)
(***************************************************************************)
EXTENDS Integers, SequencesExt

CONSTANTS
    Clients,          \* the client processes, which stand for the names of their inboxes
    Host,             \* the host process
    Names,            \* the user names to choose from
    NoName,           \* the name of a client that has not started
    Interruptible,    \* the processes that may be sent SIGINT
    Killable,         \* the clients that may be sent SIGKILL
    N_MAX_MSG,        \* the length of a message queue
    MaxLines          \* bound on the lines that users type

Process == Clients \cup {Host}
ASSUME ProcessAssumption ==
    /\ Host \notin Clients /\ NoName \notin Names /\ IsFiniteSet(Clients)
    /\ Interruptible \subseteq Process /\ Killable \subseteq Clients
ASSUME BoundAssumption == N_MAX_MSG \in Nat \ {0} /\ MaxLines \in Nat

Kind == {"JOIN", "MSG", "LEAVE"}
Frame == [kind : Kind, name : Names, from : Clients]

\* Where these frames announce that a client joins.
Joins(frames, c) == {i \in DOMAIN frames : frames[i].kind = "JOIN" /\ frames[i].from = c}

\* The users that are there, for one that has been told of all these frames.
Present(frames) ==
    {n \in Names : \E i \in DOMAIN frames :
        /\ frames[i].kind = "JOIN" /\ frames[i].name = n
        /\ \A j \in DOMAIN frames :
              j > i /\ frames[j].kind = "LEAVE" => frames[j].name # n}
=============================================================================
