------------------------------ MODULE Commitments ------------------------------
(***************************************************************************)
(* What a table that filled promises its players, without invitations,     *)
(* seats, deadlines or late saves: it is committed as a whole, with no     *)
(* player who is committed elsewhere at that time, and it is dissolved as  *)
(* a whole.  Nobody joins, leaves or moves a table that is committed.      *)
(***************************************************************************)
EXTENDS Naturals

CONSTANTS Games, Customers, Windows

VARIABLE committed   \* the tables that are committed now

Commitment == [game : Games, party : SUBSET Customers, window : Windows]

\* The times of two commitments meet.
Meet(c, d) == c.window.start < d.window.end /\ d.window.start < c.window.end

Init == committed = {}

Commit(c) ==
  /\ \A d \in committed : /\ d.game # c.game
                          /\ Meet(c, d) => d.party \cap c.party = {}
  /\ committed' = committed \cup {c}

\* Some players left, or the game was closed, edited or expired.
Dissolve == committed' \subseteq committed

Next == Dissolve \/ \E c \in Commitment : Commit(c)

Spec == Init /\ [][Next]_committed
===============================================================================
