----------------------------- MODULE MCChatRooms ----------------------------
(* Small rooms, in which the two clients may choose the same name.         *)
EXTENDS ChatRooms

CONSTANTS Alice, Bob, X, Y

MaxEvents == 1  \* bound on the lines typed and the processes sent SIGINT, together
Events == lines + Cardinality({p \in Process : shutdown[p]})
FewEvents == Events <= MaxEvents

NameSymmetry == Permutations(Names)
=============================================================================
