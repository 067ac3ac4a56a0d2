------------------------------ MODULE MCShmem -------------------------------
(* A small room: each kind of frame has a length of its own, so that a     *)
(* long one leaves a record separator behind a short one, and hides its    *)
(* predecessor's.                                                          *)
EXTENDS Shmem

CONSTANTS Alice, Bob

OwnNames == [c \in Clients |-> c]
ThreeLengths == [JOIN |-> 2, MSG |-> 3, LEAVE |-> 1]
=============================================================================
