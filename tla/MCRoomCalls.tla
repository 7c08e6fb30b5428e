----------------------------- MODULE MCRoomCalls ------------------------------
(* Instances of RoomCalls: two calls for overlapping intervals of two games,  *)
(* one of them written at two offsets, and two deadline calls.                *)
EXTENDS RoomCalls, TLC

CONSTANTS k1, k2, k3, k4, k5, g1, g2, t1, t2, t3

MCProcess == (t1 :> 1) @@ (t2 :> 1) @@ (t3 :> 2)
MCReserve(g, room, start, end, offset) ==
  [tool |-> "reserve_room", game |-> g, room |-> room, start |-> start, end |-> end, offset |-> offset]
MCDeadline == [tool |-> "set_participation_deadline", game |-> g1, room |-> None,
               start |-> 0, end |-> 0, offset |-> 0]
MCRequest == (k1 :> MCReserve(g1, None, 0, 2, 0)) @@ (k2 :> MCReserve(g2, 1, 1, 4, 0))
             @@ (k3 :> MCDeadline) @@ (k4 :> MCDeadline)
             @@ (k5 :> MCReserve(g2, None, 1, 4, 3))
\* Threads of one process are alike.
Symmetry == Permutations({t1, t2})

MCInventories == {{1}, {1, 2}}
===============================================================================
