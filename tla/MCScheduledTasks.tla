--------------------------- MODULE MCScheduledTasks ---------------------------
(* The instance of ScheduledTasks for TLC: which rows exist and what they are about. *)
EXTENDS ScheduledTasks, TLC

\* Two publish rows of one room; the one recruitment row of a game, beside a
\* waiting-list expiry; two follow-ups of a goal; two deadlines of a seat.
TableTasks == 1..8
TableKind == <<"publish_group_board", "publish_group_board",
               "activate_game_recruitment", "waiting_demand_expiry",
               "conversation_follow_up", "conversation_follow_up",
               "participation_deadline", "participation_deadline">>
TableAggregate == <<"room", "room", "game", "list", "goal", "goal", "seat", "seat">>

Created == {t \in Tasks : status[t] # "absent"}

\* Rows of different pairs never meet: one pair is created.  The room's pair is
\* claimed four times, one row up to three times; the recruitment's delays make its
\* pair large, which stops a unit of time earlier; other rows are claimed twice.
OnePair == /\ \E pair \in {1..2, 3..4, 5..6, 7..8} : Created \subseteq pair
           /\ claims[1] + claims[2] <= 4
           /\ Created \cap 3..4 # {} => now <= 2
           /\ Created \cap 3..8 # {} => \A t \in Tasks : claims[t] <= 2

Symmetry == Permutations(Workers)
===============================================================================
