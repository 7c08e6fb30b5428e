------------------------------ MODULE RoomCalls -------------------------------
(***************************************************************************)
(* Room reservations (stores/sqlite/rooms.py) made by calls of the gateway  *)
(* (ToolLedger), beside a tool whose failures without effect are retried.   *)
(*                                                                         *)
(* An interval is stored as ISO text with the offset it was written in, and *)
(* the store compares the texts: instants by their wall clocks.             *)
(***************************************************************************)
EXTENDS ToolLedger, Sequences

CONSTANTS
  Rooms,        \* SUBSET Nat, in the order of their identifiers
  Inventories,  \* the room lists a process may be started with
  Games,
  Request       \* [Keys -> Requests]

Requests == [tool : {"reserve_room", "set_participation_deadline"}, game : Games,
             room : Rooms \cup {None}, start : Nat, end : Nat, offset : Nat]

ASSUME RoomsAssumption == /\ Rooms \subseteq Nat /\ Inventories \subseteq SUBSET Rooms
                          /\ Request \in [Keys -> Requests]

VARIABLES
  inventory,     \* runtime_rooms
  reservations,  \* Seq(Reservation): runtime_room_reservations
  closed         \* games that are cancelled, finished or expired

roomVars == <<inventory, reservations, closed>>
vars == <<ledgerVars, roomVars>>

Reservation == [key : Keys, room : Rooms, status : {"held", "released"}]

TypeOK == /\ LedgerTypeOK
          /\ inventory \subseteq Rooms
          /\ reservations \in Seq(Reservation)
          /\ closed \subseteq Games

Init == /\ LedgerInit
        /\ inventory \in Inventories
        /\ reservations = <<>>
        /\ closed = {}

----------------------------------------------------------------------------
Reserves(k) == Request[k].tool = "reserve_room"

\* isoformat: the wall clock of an instant at the request's offset.
Start(k) == Request[k].start + Request[k].offset
End(k) == Request[k].end + Request[k].offset

Held(i) == reservations[i].status = "held"

\* Variant the properties must reject: only what lies within the interval.
OccupiedWithin(k) == {reservations[i].room : i \in {j \in DOMAIN reservations :
  Held(j) /\ Start(reservations[j].key) >= Start(k) /\ End(reservations[j].key) <= End(k)}}

Occupied(k) == {reservations[i].room : i \in {j \in DOMAIN reservations :
  Held(j) /\ Start(reservations[j].key) < End(k) /\ End(reservations[j].key) > Start(k)}}

\* search_room_availability
Available(k) == inventory \ Occupied(k)

\* The room asked for, or the first that is free.
Chosen(k) == IF Request[k].room # None THEN {Request[k].room} \cap Available(k)
             ELSE {r \in Available(k) : \A s \in Available(k) : r <= s}

\* reserve_room in the handler, one write transaction: the game is not read again.
ReserveRoom(t) ==
  LET k == call[t].key
  IN  /\ call[t].pc = "handling" /\ Reserves(k)
      /\ \/ \E r \in Chosen(k) :
              /\ Request[k].start < Request[k].end
              /\ reservations' = Append(reservations, [key |-> k, room |-> r, status |-> "held"])
              /\ Handle(t, "ok", TRUE)
         \/ /\ Chosen(k) = {} \/ Request[k].end <= Request[k].start
            /\ Handle(t, "failed", FALSE)
            /\ UNCHANGED reservations
      /\ UNCHANGED <<inventory, closed>>

\* set_participation_deadline: saved, rolled back, or an error that leaves open
\* which of the two.
SetParticipationDeadline(t) ==
  /\ call[t].pc = "handling" /\ ~Reserves(call[t].key)
  /\ \/ Handle(t, "ok", TRUE)
     \/ Handle(t, "no_effect", FALSE)
     \/ \E effect \in BOOLEAN : Handle(t, "failed", effect)
  /\ UNCHANGED roomVars

\* configure_rooms: a process starts with another list.
ConfigureRooms ==
  /\ inventory' \in Inventories \ {inventory}
  /\ UNCHANGED <<ledgerVars, reservations, closed>>

\* Variant the properties must reject: every reservation of the game's rooms goes.
CloseGameByRoom(g) ==
  /\ g \in Games \ closed
  /\ closed' = closed \cup {g}
  /\ reservations' = [i \in DOMAIN reservations |->
       IF \E j \in DOMAIN reservations : reservations[j].room = reservations[i].room
                                          /\ Request[reservations[j].key].game = g
         THEN [reservations[i] EXCEPT !.status = "released"] ELSE reservations[i]]
  /\ UNCHANGED <<ledgerVars, inventory>>

\* _release_room_reservations_for_game, in the transaction that closes the game.
CloseGame(g) ==
  /\ g \in Games \ closed
  /\ closed' = closed \cup {g}
  /\ reservations' = [i \in DOMAIN reservations |->
       IF Request[reservations[i].key].game = g THEN [reservations[i] EXCEPT !.status = "released"]
       ELSE reservations[i]]
  /\ UNCHANGED <<ledgerVars, inventory>>

Next == \/ LedgerNext /\ UNCHANGED roomVars
        \/ \E t \in Threads : ReserveRoom(t) \/ SetParticipationDeadline(t)
        \/ ConfigureRooms
        \/ \E g \in Games : CloseGame(g)

Spec == Init /\ [][Next]_vars

----------------------------------------------------------------------------
(* Properties.                                                             *)

Overlap(k, l) == Request[k].start < Request[l].end /\ Request[l].start < Request[k].end

\* Several games ask for a room at once: of the reservations that are held and
\* written at one offset no two overlap, also when the same call reserved twice.
NoRoomBookedTwice ==
  \A i, j \in DOMAIN reservations :
    LET k == reservations[i].key
        l == reservations[j].key
    IN  i # j /\ Held(i) /\ Held(j) /\ reservations[i].room = reservations[j].room
          /\ Request[k].offset = Request[l].offset => ~Overlap(k, l)

Rows(k) == {i \in DOMAIN reservations : reservations[i].key = k}

\* What callers were told is what the rooms hold, across processes, crashes and closing
\* games: a success has a room until its game is closed; unless a claim was taken over,
\* a call holds no second room, and none at all once its caller was told it failed.
AnswersHoldRooms ==
  \A k \in Keys : Reserves(k) =>
    /\ "ok" \in told[k] => \E i \in Rows(k) : Held(i) \/ Request[k].game \in closed
    /\ lost[k] = 0 => Cardinality(Rows(k)) <= 1
    /\ lost[k] = 0 /\ "failed" \in told[k] => Rows(k) = {}
===============================================================================
