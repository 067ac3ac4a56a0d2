-------------------------------- MODULE Room --------------------------------
(***************************************************************************)
(* What a chat room of mychat promises its clients: one order of events.   *)
(* The host announces frames one after the other.  What a client is given  *)
(* begins with the announcement of its own joining and then follows the    *)
(* announcements one by one.  A client may fall behind for ever, or be     *)
(* dropped, but it never misses a frame and gets a later one, gets a frame *)
(* twice, or sees two frames in another order than the other clients.      *)
(***************************************************************************)
EXTENDS Naturals, Sequences

CONSTANTS
    Clients,    \* the client processes
    Frame       \* the frames, each with its kind and the client it is from

VARIABLES
    log,        \* the frames announced
    heard       \* the frames that each client was given

Init == log = <<>> /\ heard = [c \in Clients |-> <<>>]

\* Where in the log a client's joining is announced; nobody joins twice.
JoinsAt(c) == {i \in DOMAIN log : log[i].kind = "JOIN" /\ log[i].from = c}

Announce(f) ==
    /\ log' = Append(log, f)
    /\ f.kind = "JOIN" => JoinsAt(f.from) = {}
    /\ UNCHANGED heard

Hear(c) ==
    /\ UNCHANGED log
    /\ \E i \in JoinsAt(c) :
          /\ i + Len(heard[c]) \in DOMAIN log
          /\ heard' = [heard EXCEPT ![c] = Append(@, log[i + Len(@)])]

Next == (\E f \in Frame : Announce(f)) \/ (\E c \in Clients : Hear(c))

Spec == Init /\ [][Next]_<<log, heard>>
=============================================================================
