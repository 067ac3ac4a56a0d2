------------------------------ MODULE Exchange ------------------------------
(***************************************************************************)
(* What a region of shared memory between mychat's processes promises,     *)
(* that of peer-to-peer mode and the host's region in a room: a place that *)
(* holds one frame.  A frame is put only when the place is empty, and is   *)
(* taken whole, once, by a process of the other side.                      *)
(***************************************************************************)
CONSTANTS
    Process,    \* the host and the clients
    Side,       \* the side of each process
    Kind,       \* the kinds of frame
    NoFrame     \* the content of an empty place

VARIABLES
    box,    \* the frame put and not yet taken
    got     \* the last frame each process took

Frame == [kind : Kind, from : Process]

Init == box = NoFrame /\ got = [p \in Process |-> NoFrame]

Put(p, kind) ==
    /\ box = NoFrame
    /\ box' = [kind |-> kind, from |-> p]
    /\ UNCHANGED got

Take(p) ==
    /\ box # NoFrame
    /\ Side[box.from] # Side[p]
    /\ got' = [got EXCEPT ![p] = box]
    /\ box' = NoFrame

Next == \E p \in Process : Take(p) \/ \E kind \in Kind : Put(p, kind)

Spec == Init /\ [][Next]_<<box, got>>
=============================================================================
