-------------------------------- MODULE Games --------------------------------
(***************************************************************************)
(* Games, the seats customers hold in them, the invitations they answer    *)
(* and what a full table does to the other games of its players            *)
(* (stores/sqlite/game_mutations.py, stores/sqlite/drafts.py,              *)
(* domains/game_commitments.py).                                           *)
(*                                                                         *)
(* A method under _write_transaction (BEGIN IMMEDIATE) is one action.      *)
(* update_game_status and _expire_stale_games read their games before      *)
(* their transaction begins, at its first write, and save them whole: two  *)
(* actions of a process, between which other processes commit.             *)
(*                                                                         *)
(* A participant is the number of seats he holds, 0 once declined,         *)
(* negotiating, silent or superseded.  Rooms, boards, recruitment rows and *)
(* names are left out.                                                     *)
(***************************************************************************)
EXTENDS Naturals, Sequences, FiniteSets, Functions

CONSTANTS
  Games, Customers,
  Windows,      \* [start, end: what games compete for; opens: private outreach; expires]
  Processes,    \* processes that share the database and run the unprotected operations
  SeatsTotal,   \* Game.seats_total
  MaxDrafts,    \* bound: invitations
  MaxTime       \* bound: clock

ASSUME GamesAssumption ==
  /\ Windows \subseteq [start : Nat, end : Nat, opens : Nat, expires : Nat]
  /\ Games # {} /\ Customers # {} /\ Windows # {} /\ IsFiniteSet(Customers)
  /\ SeatsTotal \in Nat \ {0}
  /\ MaxDrafts \in Nat /\ MaxTime \in Nat

VARIABLES
  now,
  game,     \* [Games -> Game]: runtime_games and its participants
  drafts,   \* [Games -> [Customers -> Seq(InviteStatuses)]]: runtime_invite_drafts, oldest first
  writes    \* [Processes -> ...]: the games a process has read, changed and not yet saved

vars == <<now, game, drafts, writes>>

Waiting == {"forming", "inviting"}
Active == Waiting \cup {"ready"}
Closed == {"cancelled", "finished"}
GameStatuses == {"absent"} \cup Active \cup Closed

OpenInvites == {"pending_approval", "sent", "confirmed", "negotiating"}
Unconfirmed == {"declined", "negotiating", "no_reply"}
InviteStatuses == OpenInvites \cup Unconfirmed \cup {"superseded"}

\* root: option_root_game_id, the game itself when it stands alone; forced, a
\* history field: its "ready" was written by update_game_status.
Game == [status : GameStatuses, window : Windows, organizer : Customers, root : Games,
         seats : [Customers -> 0..SeatsTotal], forced : BOOLEAN]

TypeOK == /\ now \in 0..MaxTime
          /\ game \in [Games -> Game]
          /\ drafts \in [Games -> [Customers -> Seq(InviteStatuses)]]
          /\ DOMAIN writes = Processes
          /\ \A p \in Processes : /\ DOMAIN writes[p] \subseteq Games
                                  /\ \A g \in DOMAIN writes[p] : writes[p][g] \in Game

Nothing == [g \in {} |-> {}]

Init ==
  /\ now = 0
  /\ \E o \in Customers :   \* window and organizer of an absent game are never read
       game = [g \in Games |-> [status |-> "absent", window |-> CHOOSE w \in Windows : TRUE,
                                organizer |-> o, root |-> g,
                                seats |-> [c \in Customers |-> 0], forced |-> FALSE]]
  /\ drafts = [g \in Games |-> [c \in Customers |-> <<>>]]
  /\ writes = [p \in Processes |-> Nothing]

Tick == now < MaxTime /\ now' = now + 1 /\ UNCHANGED <<game, drafts, writes>>

----------------------------------------------------------------------------
\* active_game_participant_ids, remaining_seats
Players(r) == {c \in Customers : r.seats[c] > 0}

\* The seats that are taken: the first, the second, ... of each customer.
Taken(r) == UNION {{c} \X (1..r.seats[c]) : c \in Customers}

Claimed(r) == Cardinality(Taken(r))

Full(r) == Claimed(r) >= SeatsTotal

\* game_commitment_windows_overlap
Overlap(v, w) == v.start < w.end /\ w.start < v.end

\* ready_commitment_conflicts of candidate r, which is or will be game g
ReadyConflicts(g, r, customers) ==
  {h \in Games \ {g} : /\ game[h].status = "ready"
                       /\ Overlap(r.window, game[h].window)
                       /\ Players(game[h]) \cap customers # {}}

\* _release_game_participants: out[h] leave game h of gs, their open invitations to it close.
Released(gs, out) ==
  [h \in Games |-> [gs[h] EXCEPT !.seats = [c \in Customers |-> IF c \in out[h] THEN 0 ELSE @[c]]]]

\* Variant the properties must reject: an invitation that was accepted stays so.
SupersededUndecided(ds, out) ==
  [h \in Games |-> [c \in Customers |->
     [i \in DOMAIN ds[h][c] |-> IF c \in out[h] /\ ds[h][c][i] \in {"pending_approval", "sent"}
                                  THEN "superseded" ELSE ds[h][c][i]]]]

Superseded(ds, out) ==
  [h \in Games |-> [c \in Customers |->
     [i \in DOMAIN ds[h][c] |-> IF c \in out[h] /\ ds[h][c][i] \in OpenInvites
                                  THEN "superseded" ELSE ds[h][c][i]]]]

\* Variants the properties must reject: only the games that already invite lose
\* the players; or a full game wins whatever its players have committed to.
LosersOfInviting(g, r) ==
  [h \in Games |-> IF h # g /\ game[h].status = "inviting" /\ Overlap(r.window, game[h].window)
                     THEN Players(r) \cap Players(game[h]) ELSE {}]

NeverBlocked(g, r) == {}

Losers(g, r) ==
  [h \in Games |-> IF h # g /\ game[h].status \in Waiting /\ Overlap(r.window, game[h].window)
                     THEN Players(r) \cap Players(game[h]) ELSE {}]

Blocked(g, r) ==
  Players(r) \cap UNION {Players(game[h]) : h \in ReadyConflicts(g, r, Players(r))}

\* resolve_full_game_commitments: a full candidate either loses the players who
\* are committed elsewhere, or is ready and takes its players out of other games.
Resolve(g, r, ds) ==
  IF Blocked(g, r) # {}
    THEN LET out == [h \in Games |-> IF h = g THEN Blocked(g, r) ELSE {}]
         IN /\ game' = Released([game EXCEPT ![g] = r], out)
            /\ drafts' = Superseded(ds, out)
    ELSE /\ game' = Released([game EXCEPT ![g] = [r EXCEPT !.status = "ready"]], Losers(g, r))
         /\ drafts' = Superseded(ds, Losers(g, r))

Invited(g) == \E c \in Customers : drafts[g][c] # <<>>

\* Variant the properties must reject: a ready game that loses a player stays ready.
ReopenedNever(g, r) == r

\* "seats_reopened"
Reopened(g, r) ==
  IF r.status = "ready" /\ ~Full(r)
    THEN [r EXCEPT !.status = IF Invited(g) THEN "inviting" ELSE "forming", !.forced = FALSE]
    ELSE r

\* Variant the properties must reject: an answer adds seats to those c holds.
ReplyOnTop(g, c, n, st) ==
  LET r == [game[g] EXCEPT !.seats[c] = @ + n]
      ds == [drafts EXCEPT ![g][c] = [i \in DOMAIN @ |-> st]]
  IN IF Full(r) /\ r.status \in Waiting
       THEN Resolve(g, r, ds)
       ELSE game' = [game EXCEPT ![g] = Reopened(g, r)] /\ drafts' = ds

\* _record_candidate_reply_in_transaction once the reply is valid: customer c
\* holds n seats, all his invitations to g get the status of the reply.
Reply(g, c, n, st) ==
  LET r == [game[g] EXCEPT !.seats[c] = n]
      ds == [drafts EXCEPT ![g][c] = [i \in DOMAIN @ |-> st]]
  IN IF Full(r) /\ r.status \in Waiting
       THEN Resolve(g, r, ds)
       ELSE game' = [game EXCEPT ![g] = Reopened(g, r)] /\ drafts' = ds

----------------------------------------------------------------------------
\* creation_option_root: the organizer's overlapping games must be options of
\* the same need at another start; alt = g asks for a game on its own.
MayCreate(g, o, w, alt) ==
  /\ alt # g => /\ game[alt].organizer = o
                /\ game[alt].status \in Waiting /\ now < game[alt].window.expires
  /\ \A h \in Games : game[h].status \in Active /\ game[h].organizer = o /\ Overlap(w, game[h].window)
       => /\ alt # g /\ game[h].root = game[alt].root
          /\ game[h].status # "ready" /\ game[h].window.start # w.start

\* Even a game that is created full is forming until the next reply.
CreateGame(g, o, w, seats, alt) ==
  /\ game[g].status = "absent"
  /\ MayCreate(g, o, w, alt)
  /\ LET r == [status |-> "forming", window |-> w, organizer |-> o, seats |-> seats,
               root |-> game[alt].root, forced |-> FALSE]
     IN /\ seats[o] > 0 /\ Claimed(r) <= SeatsTotal
        /\ ReadyConflicts(g, r, Players(r)) = {}
        /\ game' = [game EXCEPT ![g] = r]
  /\ UNCHANGED <<now, drafts, writes>>

\* Variant the properties must reject: the seats c holds already are on top.
AvailableToAnyone(g, c) == IF game[g].seats[c] > 0 THEN SeatsTotal ELSE SeatsTotal - Claimed(game[g])

Available(g, c) == SeatsTotal - Claimed([game[g] EXCEPT !.seats[c] = 0])

\* join_game, atomic_claim_seat, and record_candidate_reply with a confirmation.
Confirm(g, c, n) ==
  /\ game[g].status \in Active /\ now < game[g].window.expires
  /\ ReadyConflicts(g, game[g], {c}) = {}
  /\ n <= Available(g, c)
  /\ Reply(g, c, n, "confirmed")
  /\ UNCHANGED <<now, writes>>

\* record_candidate_reply with any other answer, in any status of the game; the
\* withdrawal an organizer reports is the same step under stricter guards.
Unconfirm(g, c, st) ==
  /\ game[g].status # "absent"
  /\ Reply(g, c, 0, st)
  /\ UNCHANGED <<now, writes>>

\* A claim that is current when the transaction starts withdraws its customer.
ExecuteParticipationDeadline(g, c) ==
  /\ game[g].status \in Waiting /\ ~Full(game[g]) /\ game[g].seats[c] = 1
  /\ Reply(g, c, 0, "declined")
  /\ UNCHANGED <<now, writes>>

UpdateGameRequirement(g, w) ==
  /\ game[g].status \in Waiting
  /\ LET r == [game[g] EXCEPT !.window = w]
     IN /\ ReadyConflicts(g, r, Players(r)) = {}
        /\ game' = [game EXCEPT ![g] = r]
  /\ UNCHANGED <<now, drafts, writes>>

Invitations == SumFunction([g \in Games |-> SumFunction([c \in Customers |-> Len(drafts[g][c])])])

Stale == {g \in Games : game[g].status \in Active /\ now >= game[g].window.expires}

\* expire_game_if_stale
Expired(r) ==
  [r EXCEPT !.status = IF r.status = "ready" \/ Full(r) THEN "finished" ELSE "cancelled",
            !.forced = FALSE]

WithoutStale == [g \in Games |-> IF g \in Stale THEN Expired(game[g]) ELSE game[g]]

\* create_invite_drafts to customers without a draft in one of the statuses "open".
\* It expires the stale games first, in a transaction of its own just before.
Invite(g, customers, open) ==
  /\ WithoutStale[g].status \in Waiting /\ now >= game[g].window.opens
  /\ \A c \in customers : Range(drafts[g][c]) \cap open = {}
  /\ Invitations + Cardinality(customers) <= MaxDrafts
  /\ game' = [WithoutStale EXCEPT ![g].status = "inviting"]
  /\ drafts' = [drafts EXCEPT ![g] = [c \in Customers |->
                  IF c \in customers THEN Append(@[c], "pending_approval") ELSE @[c]]]
  /\ UNCHANGED <<now, writes>>

\* Variant the properties must reject: a draft that waits for approval is not an
\* open invitation yet.
CreateInviteDraftsOverDrafts(g, customers) ==
  Invite(g, customers, {"sent", "confirmed", "negotiating"})

CreateInviteDrafts(g, customers) == Invite(g, customers, OpenInvites)

\* update_invite_delivery_status, and supersede_pending_outputs on a new message.
UpdateInviteDelivery(g, c, i, st) ==
  /\ drafts[g][c][i] = "pending_approval"
  /\ drafts' = [drafts EXCEPT ![g][c][i] = st]
  /\ UNCHANGED <<now, game, writes>>

----------------------------------------------------------------------------
\* ALLOWED_GAME_TRANSITIONS; the status a game has is always accepted.
AllowedTransitions(st) ==
  {st} \cup CASE st = "forming" -> {"inviting", "ready", "cancelled"}
              [] st = "inviting" -> {"ready", "cancelled", "finished"}
              [] st = "ready" -> Closed
              [] OTHER -> {}

\* update_game_status up to its first write
UpdateGameStatus(p, g, target) ==
  /\ writes[p] = Nothing
  /\ game[g].status # "absent"
  /\ target \in AllowedTransitions(game[g].status)
  /\ writes' = [writes EXCEPT ![p] =
                  [h \in {g} |-> [game[h] EXCEPT !.status = target, !.forced = (target = "ready")]]]
  /\ UNCHANGED <<now, game, drafts>>

\* _expire_stale_games up to its first write
ExpireStaleGames(p) ==
  /\ writes[p] = Nothing /\ Stale # {}
  /\ writes' = [writes EXCEPT ![p] = [g \in Stale |-> Expired(game[g])]]
  /\ UNCHANGED <<now, game, drafts>>

\* _save_game writes the row and its participants as they are in memory.
SaveGames(p) ==
  /\ writes[p] # Nothing
  /\ game' = [g \in Games |-> IF g \in DOMAIN writes[p] THEN writes[p][g] ELSE game[g]]
  /\ writes' = [writes EXCEPT ![p] = Nothing]
  /\ UNCHANGED <<now, drafts>>

----------------------------------------------------------------------------
InvitationStep ==
  \E g \in Games :
    \/ \E customers \in SUBSET Customers \ {{}} : CreateInviteDrafts(g, customers)
    \/ \E c \in Customers : \E i \in DOMAIN drafts[g][c], st \in {"sent", "superseded"} :
         UpdateInviteDelivery(g, c, i, st)

ReplyStep ==
  \E g \in Games, c \in Customers :
    \/ \E n \in 1..SeatsTotal : Confirm(g, c, n)
    \/ \E st \in Unconfirmed : Unconfirm(g, c, st)
    \/ ExecuteParticipationDeadline(g, c)

OrganizerStep ==
  \E g \in Games, w \in Windows :
    \/ \E o \in Customers, seats \in [Customers -> 0..SeatsTotal], alt \in Games :
         CreateGame(g, o, w, seats, alt)
    \/ UpdateGameRequirement(g, w)

ProcessStep ==
  \E p \in Processes :
    \/ \E g \in Games, target \in GameStatuses : UpdateGameStatus(p, g, target)
    \/ ExpireStaleGames(p)
    \/ SaveGames(p)

Next == Tick \/ InvitationStep \/ ReplyStep \/ OrganizerStep \/ ProcessStep

Spec == Init /\ [][Next]_vars

----------------------------------------------------------------------------
(* Properties.                                                             *)

\* A table has no more players than seats, whatever replies, releases and
\* late saves meet.
TableIsNotOverbooked == \A g \in Games : Claimed(game[g]) <= SeatsTotal

Filled(r) == r.status = "ready" /\ ~r.forced

\* A game that became ready by filling is full: who leaves it reopens it, and
\* no other game takes its players.
FilledGameIsFull == \A g \in Games : Filled(game[g]) => Full(game[g])

\* Two games that filled in overlapping windows share no player: a customer is
\* committed once, in whatever order his games fill.
CommitmentsAreExclusive ==
  \A g, h \in Games :
    /\ g # h /\ Filled(game[g]) /\ Filled(game[h])
    /\ Overlap(game[g].window, game[h].window)
    => Players(game[g]) \cap Players(game[h]) = {}

\* When a game fills, none of its players keeps a seat in another game of that
\* time, waiting or ready.
WinnerTakesItsPlayers ==
  [][\A g, h \in Games :
       /\ g # h /\ Filled(game'[g]) /\ game[g].status # "ready"
       /\ game'[h].status \in Active /\ Overlap(game'[g].window, game'[h].window)
       => Players(game'[g]) \cap Players(game'[h]) = {}]_vars

\* Who loses the seat in a game, by an answer or because another game filled,
\* keeps no invitation to it but one he negotiates.
SeatAndInvitationGoTogether ==
  [][\A g \in Games, c \in Customers :
       /\ writes' = writes /\ game[g].seats[c] > 0 /\ game'[g].seats[c] = 0
       => Range(drafts'[g][c]) \cap (OpenInvites \ {"negotiating"}) = {}]_vars

\* A customer is not asked twice for a game: one of his invitations to it waits
\* for approval or an answer at most.
OneUndecidedInvitation ==
  \A g \in Games, c \in Customers :
    Cardinality({i \in DOMAIN drafts[g][c] : drafts[g][c][i] \in {"pending_approval", "sent"}}) <= 1

Ready == INSTANCE Commitments WITH
  committed <- {[game |-> g, party |-> Players(game[g]), window |-> game[g].window] :
                  g \in {h \in Games : Filled(game[h])}}

\* The tables that filled implement Commitments: each is committed with all its
\* players or not at all, and who leaves it, or a save that is late, dissolves it.
ImplementsCommitments == Ready!Spec

\* README: the active players of ready games are final commitments, a time window
\* belongs to one ready game only.
OneCommitmentPerWindow ==
  \A g, h \in Games :
    /\ g # h /\ game[g].status = "ready" /\ game[h].status = "ready"
    /\ Overlap(game[g].window, game[h].window)
    => Players(game[g]) \cap Players(game[h]) = {}

\* runtime_loop_design.md: ALLOWED_GAME_TRANSITIONS controls the transitions,
\* illegal ones are refused; a closed game has none.
ClosedGamesStayClosed ==
  [][\A g \in Games : game[g].status \in Closed => game'[g].status = game[g].status]_vars
===============================================================================
