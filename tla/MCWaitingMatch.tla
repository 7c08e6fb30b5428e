---------------------------- MODULE MCWaitingMatch ----------------------------
(* Instances of WaitingMatch: three customers, two of them with a waiting    *)
(* demand.                                                                    *)
EXTENDS WaitingMatch, TLC

CONSTANTS a, b, o, da, db, g1, g2

MCOwner == (da :> a) @@ (db :> b)
\* No game exists to begin with, or o has one.
MCNoGame == {[g \in Games |-> None]}
MCOneGame == {[g \in Games |-> IF g = g1 THEN o ELSE None]}
\* Each demand suits both games, or each a game of its own.
MCSuits == Demands \X Games
MCOneEach == {<<da, g2>>, <<db, g1>>}
===============================================================================
