------------------------------- MODULE MCGames -------------------------------
(* Instances of Games for TLC. *)
EXTENDS Games, TLC

\* Two schedules that overlap at different starts.
MCOptions == {[start |-> 0, end |-> 2, opens |-> 0, expires |-> 1],
              [start |-> 1, end |-> 3, opens |-> 1, expires |-> 2]}

\* Two overlapping schedules at different starts and one apart from the first.
MCWindows == MCOptions \cup {[start |-> 2, end |-> 4, opens |-> 0, expires |-> 2]}

\* Invitations do not meet the processes' late saves, which never touch them;
\* those work on the two overlapping schedules.
Uninvited == \A g \in Games, c \in Customers : drafts[g][c] = <<>>

Unprocessed == /\ \A p \in Processes : writes[p] = Nothing
               /\ \A g \in Games : ~game[g].forced /\ game[g].status \notin Closed

InvitedOrProcessed ==
  \/ Unprocessed
  \/ Uninvited /\ \A g \in Games : game[g].status # "absent" => game[g].window \in MCOptions

Symmetry == Permutations(Customers) \cup Permutations(Games)
===============================================================================
