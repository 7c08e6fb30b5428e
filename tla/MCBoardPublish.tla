---------------------------- MODULE MCBoardPublish ----------------------------
(* Two games, one with room for a withdrawal, and publications enough for every *)
(* change to need one and every creation another.                               *)
EXTENDS BoardPublish

TwoGames == 1..2
TwoGamesSeats == <<2, 1>>
EnoughPublications == 1..5
===============================================================================
