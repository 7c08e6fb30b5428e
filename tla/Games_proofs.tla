----------------------------- MODULE Games_proofs -----------------------------
(***************************************************************************)
(* The commitments of Games for any number of games, customers, processes  *)
(* and any windows.  What a reply does to the games is summarised once     *)
(* (ReplyShape); the invariants follow from it operation by operation.     *)
(***************************************************************************)
EXTENDS Games, FiniteSetTheorems, SequenceTheorems, TLAPS

Drafts == [Games -> [Customers -> Seq(InviteStatuses)]]

\* Overwriting the statuses of invitations keeps the sequence.
LEMMA DraftSequence ==
  ASSUME NEW s \in Seq(InviteStatuses), NEW f, DOMAIN f = DOMAIN s, f = [i \in DOMAIN f |-> f[i]],
         \A i \in DOMAIN s : f[i] \in InviteStatuses
  PROVE  f \in Seq(InviteStatuses)
<1>1. Len(s) \in Nat /\ DOMAIN s = 1..Len(s)
  BY LenProperties
<1>2. f \in [1..Len(s) -> InviteStatuses]
  BY <1>1
<1> QED BY <1>1, <1>2

\* Players and seats taken are told from the seats.
LEMMA SameSeats ==
  ASSUME NEW r, NEW q, r.seats = q.seats
  PROVE  Players(r) = Players(q) /\ Claimed(r) = Claimed(q)
BY DEF Players, Claimed, Taken

\* _release_game_participants keeps games well typed and only takes seats away.
LEMMA ReleasedShape ==
  ASSUME NEW gs \in [Games -> Game], NEW out \in [Games -> SUBSET Customers]
  PROVE  /\ Released(gs, out) \in [Games -> Game]
         /\ \A h \in Games :
              /\ Released(gs, out)[h].status = gs[h].status
              /\ Released(gs, out)[h].window = gs[h].window
              /\ Released(gs, out)[h].forced = gs[h].forced
              /\ Players(Released(gs, out)[h]) = Players(gs[h]) \ out[h]
              /\ out[h] = {} => Released(gs, out)[h] = gs[h]
<1> USE GamesAssumption
<1> DEFINE rel(h) == [gs[h] EXCEPT !.seats = [c \in Customers |-> IF c \in out[h] THEN 0 ELSE @[c]]]
<1>1. ASSUME NEW h \in Games
      PROVE  /\ rel(h) \in Game
             /\ rel(h).status = gs[h].status
             /\ rel(h).window = gs[h].window
             /\ rel(h).forced = gs[h].forced
             /\ Players(rel(h)) = Players(gs[h]) \ out[h]
             /\ out[h] = {} => rel(h) = gs[h]
  <2>1. gs[h] \in Game /\ gs[h].seats \in [Customers -> 0..SeatsTotal]
    BY DEF Game
  <2>2. rel(h).seats = [c \in Customers |-> IF c \in out[h] THEN 0 ELSE gs[h].seats[c]]
    BY <2>1 DEF Game
  <2>3. rel(h).seats \in [Customers -> 0..SeatsTotal]
    BY <2>1, <2>2
  <2>4. rel(h) \in Game
    BY <2>1, <2>3 DEF Game
  <2>5. Players(rel(h)) = Players(gs[h]) \ out[h]
    BY <2>1, <2>2 DEF Players
  <2>6. ASSUME out[h] = {} PROVE rel(h) = gs[h]
    <3>1. rel(h).seats = gs[h].seats
      BY <2>1, <2>2, <2>6
    <3> QED BY <2>1, <3>1 DEF Game
  <2> QED BY <2>1, <2>4, <2>5, <2>6 DEF Game
<1>2. \A h \in Games : Released(gs, out)[h] = rel(h)
  BY DEF Released
<1>3. Released(gs, out) = [h \in Games |-> rel(h)]
  BY DEF Released
<1> HIDE DEF rel
<1> QED BY <1>1, <1>2, <1>3

\* Closing invitations keeps them well typed.
LEMMA SupersededType ==
  ASSUME NEW ds \in Drafts, NEW out
  PROVE  Superseded(ds, out) \in Drafts
<1>1. ASSUME NEW h \in Games, NEW c \in Customers
      PROVE  [i \in DOMAIN ds[h][c] |-> IF c \in out[h] /\ ds[h][c][i] \in OpenInvites
                                          THEN "superseded" ELSE ds[h][c][i]] \in Seq(InviteStatuses)
  <2>1. ds[h][c] \in Seq(InviteStatuses)
    BY DEF Drafts
  <2>2. \A i \in DOMAIN ds[h][c] : ds[h][c][i] \in InviteStatuses
    BY <2>1, LenProperties, ElementOfSeq
  <2> QED BY <2>1, <2>2, DraftSequence DEF InviteStatuses
<1> QED BY <1>1 DEF Superseded, Drafts

\* The players of a reply: c joins or leaves, the others stay.
LEMMA RepliedPlayers ==
  ASSUME NEW r \in Game, NEW c \in Customers, NEW n \in 0..SeatsTotal
  PROVE  LET q == [r EXCEPT !.seats[c] = n]
         IN  /\ q \in Game
             /\ q.status = r.status /\ q.window = r.window /\ q.forced = r.forced
             /\ Players(q) \subseteq Players(r) \cup (IF n > 0 THEN {c} ELSE {})
<1> DEFINE q == [r EXCEPT !.seats[c] = n]
<1>1. r.seats \in [Customers -> 0..SeatsTotal]
  BY DEF Game
<1>2. q.seats = [r.seats EXCEPT ![c] = n]
  BY DEF Game
<1>3. q.seats \in [Customers -> 0..SeatsTotal]
  BY <1>1, <1>2
<1>4. q \in Game /\ q.status = r.status /\ q.window = r.window /\ q.forced = r.forced
  BY <1>3 DEF Game
<1>5. Players(q) \subseteq Players(r) \cup (IF n > 0 THEN {c} ELSE {})
  BY <1>1, <1>2, GamesAssumption DEF Players
<1> QED BY <1>4, <1>5

\* What _record_candidate_reply does to the games: the other games keep their
\* status and lose players at most, and those that are ready do not change; a
\* game that is ready by filling is full, and either was it before, or has
\* none of its players in another game of its time.
Unshared(gs, g) ==
  \A h \in Games \ {g} :
    gs[h].status \in Active /\ Overlap(gs[g].window, gs[h].window)
      => Players(gs[g]) \cap Players(gs[h]) = {}

Replied(g, c, n) ==
  /\ game' \in [Games -> Game]
  /\ \A h \in Games : game'[h].window = game[h].window
  /\ \A h \in Games \ {g} :
       /\ game'[h].status = game[h].status
       /\ game[h].status = "ready" => game'[h] = game[h]
  /\ Filled(game'[g]) =>
       /\ Full(game'[g])
       /\ \/ /\ Filled(game[g])
             /\ Players(game'[g]) \subseteq Players(game[g]) \cup (IF n > 0 THEN {c} ELSE {})
          \/ game[g].status # "ready" /\ Unshared(game', g)

LEMMA ReplyShape ==
  ASSUME game \in [Games -> Game], drafts \in Drafts, NEW g \in Games, NEW c \in Customers,
         NEW n \in 0..SeatsTotal, NEW st \in InviteStatuses, Reply(g, c, n, st)
  PROVE  Replied(g, c, n) /\ drafts' \in Drafts
<1> DEFINE r == [game[g] EXCEPT !.seats[c] = n]
           ds == [drafts EXCEPT ![g][c] = [i \in DOMAIN @ |-> st]]
<1>1. /\ r \in Game
      /\ r.status = game[g].status /\ r.window = game[g].window /\ r.forced = game[g].forced
      /\ Players(r) \subseteq Players(game[g]) \cup (IF n > 0 THEN {c} ELSE {})
  BY RepliedPlayers
<1>2. ds \in Drafts
  <2>1. drafts[g][c] \in Seq(InviteStatuses)
    BY DEF Drafts
  <2>2. [i \in DOMAIN drafts[g][c] |-> st] \in Seq(InviteStatuses)
    BY <2>1, DraftSequence
  <2> QED BY <2>2 DEF Drafts
<1>3. IF Full(r) /\ r.status \in Waiting
        THEN Resolve(g, r, ds)
        ELSE game' = [game EXCEPT ![g] = Reopened(g, r)] /\ drafts' = ds
  BY DEF Reply
<1> HIDE DEF r, ds
<1>4. CASE Full(r) /\ r.status \in Waiting /\ Blocked(g, r) # {}
  <2> DEFINE out == [h \in Games |-> IF h = g THEN Blocked(g, r) ELSE {}]
             gs == [game EXCEPT ![g] = r]
  <2>1. game' = Released(gs, out) /\ drafts' = Superseded(ds, out)
    BY <1>3, <1>4 DEF Resolve
  <2>2. gs \in [Games -> Game] /\ gs[g] = r /\ \A h \in Games \ {g} : gs[h] = game[h]
    BY <1>1
  <2>3. out \in [Games -> SUBSET Customers] /\ \A h \in Games \ {g} : out[h] = {}
    BY DEF Blocked, Players
  <2>4. drafts' \in Drafts
    BY <1>2, <2>1, SupersededType
  <2> HIDE DEF out, gs
  <2>5. game' \in [Games -> Game] /\ game'[g].status = r.status /\ game'[g].window = r.window
        /\ \A h \in Games \ {g} : game'[h] = game[h]
    BY <2>1, <2>2, <2>3, ReleasedShape
  <2>6. ~Filled(game'[g])
    BY <1>4, <2>5 DEF Filled, Waiting
  <2> QED BY <1>1, <2>4, <2>5, <2>6 DEF Replied
<1>5. CASE Full(r) /\ r.status \in Waiting /\ Blocked(g, r) = {}
  <2> DEFINE out == Losers(g, r)
             gs == [game EXCEPT ![g] = [r EXCEPT !.status = "ready"]]
  <2>1. game' = Released(gs, out) /\ drafts' = Superseded(ds, out)
    BY <1>3, <1>5 DEF Resolve
  <2>2. /\ gs \in [Games -> Game] /\ \A h \in Games \ {g} : gs[h] = game[h]
        /\ gs[g].status = "ready" /\ gs[g].window = r.window /\ gs[g].seats = r.seats
    BY <1>1 DEF Game, GameStatuses, Active
  <2>3. /\ out \in [Games -> SUBSET Customers] /\ out[g] = {}
        /\ \A h \in Games \ {g} : out[h] = IF game[h].status \in Waiting /\ Overlap(r.window, game[h].window)
                                            THEN Players(r) \cap Players(game[h]) ELSE {}
    BY DEF Losers, Players
  <2>4. drafts' \in Drafts
    BY <1>2, <2>1, SupersededType
  <2> HIDE DEF out, gs
  <2>5. /\ game' \in [Games -> Game] /\ game'[g] = gs[g]
        /\ \A h \in Games \ {g} : /\ game'[h].status = game[h].status
                                  /\ game'[h].window = game[h].window
                                  /\ Players(game'[h]) = Players(game[h]) \ out[h]
                                  /\ out[h] = {} => game'[h] = game[h]
    BY <2>1, <2>2, <2>3, ReleasedShape
  <2>6. Full(game'[g]) /\ Players(game'[g]) = Players(r)
    BY <1>5, <2>2, <2>5, SameSeats DEF Full
  <2>7. ASSUME NEW h \in Games \ {g}, game'[h].status \in Active,
               Overlap(game'[g].window, game'[h].window)
        PROVE  Players(game'[g]) \cap Players(game'[h]) = {}
    <3>1. Overlap(r.window, game[h].window)
      BY <2>2, <2>5, <2>7
    <3>2. CASE game[h].status \in Waiting
      BY <2>3, <2>5, <2>6, <3>1, <3>2
    <3>3. CASE game[h].status = "ready"
      <4>1. Players(game'[h]) = Players(game[h])
        BY <2>3, <2>5, <3>3 DEF Waiting
      <4>2. Players(r) \cap Players(game[h]) # {} => h \in ReadyConflicts(g, r, Players(r))
        BY <3>1, <3>3 DEF ReadyConflicts
      <4>3. Players(r) \cap Players(game[h]) # {} => Blocked(g, r) # {}
        BY <4>2 DEF Blocked
      <4> QED BY <1>5, <2>6, <4>1, <4>3
    <3> QED BY <2>5, <2>7, <3>2, <3>3 DEF Active
  <2>8. \A h \in Games \ {g} : game[h].status = "ready" => game'[h] = game[h]
    BY <2>3, <2>5 DEF Waiting
  <2>9. game[g].status # "ready"
    BY <1>1, <1>5 DEF Waiting
  <2> QED BY <1>1, <2>2, <2>4, <2>5, <2>6, <2>7, <2>8, <2>9 DEF Replied, Unshared
<1>6. CASE ~(Full(r) /\ r.status \in Waiting)
  <2>1. game' = [game EXCEPT ![g] = Reopened(g, r)] /\ drafts' = ds
    BY <1>3, <1>6
  <2>2. /\ Reopened(g, r) \in Game /\ Reopened(g, r).window = r.window
        /\ r.status = "ready" /\ Full(r) => Reopened(g, r) = r
        /\ Filled(Reopened(g, r)) => r.status = "ready" /\ Full(r)
    BY <1>1 DEF Reopened, Game, GameStatuses, Active, Waiting, Filled
  <2>3. Filled(Reopened(g, r)) => Filled(game[g])
    BY <1>1, <2>2 DEF Filled
  <2> QED BY <1>1, <1>2, <2>1, <2>2, <2>3 DEF Replied
<1> QED BY <1>4, <1>5, <1>6

\* Every reply action is such a reply; a confirmation comes from a customer
\* whom no ready game of that time has.
LEMMA ReplyStepShape ==
  ASSUME TypeOK, ReplyStep
  PROVE  /\ drafts' \in Drafts /\ UNCHANGED <<now, writes>>
         /\ \E g \in Games, c \in Customers, n \in 0..SeatsTotal :
              /\ Replied(g, c, n)
              /\ n > 0 => ReadyConflicts(g, game[g], {c}) = {}
<1> USE GamesAssumption
<1>1. game \in [Games -> Game] /\ drafts \in Drafts
  BY DEF TypeOK, Drafts
<1>2. PICK g \in Games, c \in Customers :
        \/ \E n \in 1..SeatsTotal : Confirm(g, c, n)
        \/ \E st \in Unconfirmed : Unconfirm(g, c, st)
        \/ ExecuteParticipationDeadline(g, c)
  BY DEF ReplyStep
<1>3. CASE \E n \in 1..SeatsTotal : Confirm(g, c, n)
  <2>1. PICK n \in 1..SeatsTotal : Confirm(g, c, n)
    BY <1>3
  <2>2. n \in 0..SeatsTotal /\ "confirmed" \in InviteStatuses
    BY DEF InviteStatuses, OpenInvites
  <2>3. Reply(g, c, n, "confirmed") /\ ReadyConflicts(g, game[g], {c}) = {} /\ UNCHANGED <<now, writes>>
    BY <2>1 DEF Confirm
  <2> QED BY <1>1, <2>2, <2>3, ReplyShape
<1>4. CASE \E st \in Unconfirmed : Unconfirm(g, c, st)
  <2>1. PICK st \in Unconfirmed : Unconfirm(g, c, st)
    BY <1>4
  <2>2. 0 \in 0..SeatsTotal /\ st \in InviteStatuses /\ ~(0 > 0)
    BY DEF InviteStatuses
  <2>3. Reply(g, c, 0, st) /\ UNCHANGED <<now, writes>>
    BY <2>1 DEF Unconfirm
  <2> QED BY <1>1, <2>2, <2>3, ReplyShape
<1>5. CASE ExecuteParticipationDeadline(g, c)
  <2>1. 0 \in 0..SeatsTotal /\ "declined" \in InviteStatuses /\ ~(0 > 0)
    BY DEF InviteStatuses, Unconfirmed
  <2>2. Reply(g, c, 0, "declined") /\ UNCHANGED <<now, writes>>
    BY <1>5 DEF ExecuteParticipationDeadline
  <2> QED BY <1>1, <2>1, <2>2, ReplyShape
<1> QED BY <1>2, <1>3, <1>4, <1>5

----------------------------------------------------------------------------
\* The database is empty and no process has read it.
LEMMA TypeInit == Init => TypeOK
<1> SUFFICES ASSUME Init PROVE TypeOK
  OBVIOUS
<1> USE GamesAssumption DEF Init
<1>1. now \in 0..MaxTime
  OBVIOUS
<1>2. game \in [Games -> Game]
  BY DEF Game, GameStatuses
<1>3. drafts \in [Games -> [Customers -> Seq(InviteStatuses)]]
  BY EmptySeq
<1>4. DOMAIN writes = Processes /\ \A p \in Processes : DOMAIN writes[p] = {}
  BY DEF Nothing
<1> QED BY <1>1, <1>2, <1>3, <1>4 DEF TypeOK

\* update_game_status and _expire_stale_games write games they have read, never a
\* ready one but where the caller asked for that status.
LateSaves == \A p \in Processes : \A g \in DOMAIN writes[p] : ~Filled(writes[p][g])

\* Writing the columns of a game keeps it well typed.
LEMMA GameFields ==
  ASSUME NEW r \in Game
  PROVE  /\ \A st \in GameStatuses : [r EXCEPT !.status = st] \in Game
         /\ \A w \in Windows : [r EXCEPT !.window = w] \in Game
BY DEF Game

\* update_game_status and expire_game_if_stale write the status and its history.
LEMMA StatusWritten ==
  ASSUME NEW r \in Game, NEW st \in GameStatuses, NEW f \in BOOLEAN
  PROVE  /\ [r EXCEPT !.status = st, !.forced = f] \in Game
         /\ [r EXCEPT !.status = st, !.forced = f].status = st
         /\ [r EXCEPT !.status = st, !.forced = f].forced = f
BY DEF Game

\* What a process has in memory between reading and saving is well typed.
LEMMA ReadShape ==
  ASSUME TypeOK, LateSaves, NEW p \in Processes, NEW gs \in SUBSET Games, NEW f \in [gs -> Game],
         \A g \in gs : ~Filled(f[g]),
         writes' = [writes EXCEPT ![p] = f], UNCHANGED <<now, game, drafts>>
  PROVE  TypeOK' /\ LateSaves'
<1>1. DOMAIN writes = Processes /\ DOMAIN writes' = Processes
  BY DEF TypeOK
<1>2. ASSUME NEW q \in Processes PROVE writes'[q] = IF q = p THEN f ELSE writes[q]
  BY <1>1
<1>3. TypeOK'
  BY <1>1, <1>2 DEF TypeOK
<1>4. LateSaves'
  BY <1>2 DEF LateSaves
<1> QED BY <1>3, <1>4

\* expire_game_if_stale closes a game, which is then neither waiting nor filled.
LEMMA ExpiredShape ==
  ASSUME TypeOK, NEW g \in Games
  PROVE  Expired(game[g]) \in Game /\ ~Filled(Expired(game[g]))
<1>1. game[g] \in Game /\ {"finished", "cancelled"} \subseteq GameStatuses
  BY DEF TypeOK, GameStatuses, Closed
<1>2. \A st \in {"finished", "cancelled"} :
        LET q == [game[g] EXCEPT !.status = st, !.forced = FALSE]
        IN  q \in Game /\ q.status = st
  BY <1>1, StatusWritten
<1> QED BY <1>2 DEF Expired, Filled

\* Inviting closes the stale games and changes the status of one more that waits.
LEMMA InvitingShape ==
  ASSUME TypeOK, NEW g \in Games, NEW customers, CreateInviteDrafts(g, customers)
  PROVE  /\ game' \in [Games -> Game]
         /\ \A h \in Games : Filled(game'[h]) => game'[h] = game[h]
<1>1. /\ game' = [WithoutStale EXCEPT ![g].status = "inviting"]
      /\ DOMAIN WithoutStale = Games
  BY DEF CreateInviteDrafts, Invite, WithoutStale
<1>2. \A h \in Games : WithoutStale[h] = IF h \in Stale THEN Expired(game[h]) ELSE game[h]
  BY DEF WithoutStale
<1> HIDE DEF WithoutStale
<1>3. \A h \in Games : /\ WithoutStale[h] \in Game
                       /\ Filled(WithoutStale[h]) => WithoutStale[h] = game[h]
  BY <1>2, ExpiredShape DEF TypeOK
<1>4. game' = [WithoutStale EXCEPT ![g] = [WithoutStale[g] EXCEPT !.status = "inviting"]]
  BY <1>1
<1>5. /\ [WithoutStale[g] EXCEPT !.status = "inviting"] \in Game
      /\ ~Filled([WithoutStale[g] EXCEPT !.status = "inviting"])
  <2>1. "inviting" \in GameStatuses
    BY DEF GameStatuses, Active, Waiting
  <2>2. [WithoutStale[g] EXCEPT !.status = "inviting"].status = "inviting"
    BY <1>3 DEF Game
  <2> QED BY <1>3, <2>1, <2>2, GameFields DEF Filled
<1> QED BY <1>1, <1>3, <1>4, <1>5

\* Every step keeps the games, their invitations and the unsaved reads well typed.
LEMMA TypeStep == TypeOK /\ LateSaves /\ [Next]_vars => TypeOK' /\ LateSaves'
<1> SUFFICES ASSUME TypeOK, LateSaves, [Next]_vars PROVE TypeOK' /\ LateSaves'
  OBVIOUS
<1> USE GamesAssumption
<1>1. CASE Tick
  BY <1>1 DEF Tick, TypeOK, LateSaves
<1>2. CASE InvitationStep
  <2>1. UNCHANGED <<now, writes>>
    BY <1>2 DEF InvitationStep, CreateInviteDrafts, Invite, UpdateInviteDelivery
  <2>2. drafts \in Drafts /\ game \in [Games -> Game]
    BY DEF TypeOK, Drafts
  <2>3. ASSUME NEW g \in Games, NEW customers \in SUBSET Customers, CreateInviteDrafts(g, customers)
        PROVE  drafts' \in Drafts /\ game' \in [Games -> Game]
    <3>1. \A c \in Customers : Append(drafts[g][c], "pending_approval") \in Seq(InviteStatuses)
      <4> SUFFICES ASSUME NEW c \in Customers
                   PROVE  Append(drafts[g][c], "pending_approval") \in Seq(InviteStatuses)
        OBVIOUS
      <4>1. drafts[g][c] \in Seq(InviteStatuses) /\ "pending_approval" \in InviteStatuses
        BY <2>2 DEF Drafts, InviteStatuses, OpenInvites
      <4> QED BY <4>1, AppendProperties
    <3>2. [c \in Customers |-> IF c \in customers THEN Append(drafts[g][c], "pending_approval")
                                                   ELSE drafts[g][c]] \in [Customers -> Seq(InviteStatuses)]
      BY <2>2, <3>1 DEF Drafts
    <3>3. drafts' \in Drafts
      BY <2>2, <2>3, <3>2 DEF CreateInviteDrafts, Invite, Drafts
    <3> QED BY <2>3, <3>3, InvitingShape
  <2>4. ASSUME NEW g \in Games, NEW c \in Customers, NEW i \in DOMAIN drafts[g][c],
               NEW st \in {"sent", "superseded"}, UpdateInviteDelivery(g, c, i, st)
        PROVE  drafts' \in Drafts /\ game' \in [Games -> Game]
    <3>1. drafts[g][c] \in Seq(InviteStatuses) /\ st \in InviteStatuses
      BY <2>2 DEF Drafts, InviteStatuses, OpenInvites
    <3>2. [drafts[g][c] EXCEPT ![i] = st] \in Seq(InviteStatuses)
      BY <3>1, LenProperties, ExceptSeq
    <3>3. drafts' \in Drafts
      BY <2>2, <2>4, <3>2 DEF UpdateInviteDelivery, Drafts
    <3> QED BY <2>2, <2>4, <3>3 DEF UpdateInviteDelivery
  <2>5. drafts' \in Drafts /\ game' \in [Games -> Game]
    BY <1>2, <2>3, <2>4 DEF InvitationStep
  <2> QED BY <2>1, <2>5 DEF TypeOK, LateSaves, Drafts
<1>3. CASE ReplyStep
  <2>1. drafts' \in Drafts /\ UNCHANGED <<now, writes>> /\ game' \in [Games -> Game]
    BY <1>3, ReplyStepShape DEF Replied
  <2> QED BY <2>1 DEF TypeOK, LateSaves, Drafts
<1>4. CASE OrganizerStep
  <2>1. PICK g \in Games, w \in Windows :
          \/ \E o \in Customers, seats \in [Customers -> 0..SeatsTotal], alt \in Games :
               CreateGame(g, o, w, seats, alt)
          \/ UpdateGameRequirement(g, w)
    BY <1>4 DEF OrganizerStep
  <2>2. ASSUME NEW o \in Customers, NEW seats \in [Customers -> 0..SeatsTotal], NEW alt \in Games,
               CreateGame(g, o, w, seats, alt)
        PROVE  game' \in [Games -> Game] /\ UNCHANGED <<now, drafts, writes>>
    <3>1. game[alt].root \in Games
      BY DEF TypeOK, Game
    <3> DEFINE r == [status |-> "forming", window |-> w, organizer |-> o, seats |-> seats,
                     root |-> game[alt].root, forced |-> FALSE]
    <3>2. r \in Game
      BY <3>1 DEF Game, GameStatuses, Active, Waiting
    <3>3. game' = [game EXCEPT ![g] = r] /\ UNCHANGED <<now, drafts, writes>>
      BY <2>2 DEF CreateGame
    <3> HIDE DEF r
    <3> QED BY <3>2, <3>3 DEF TypeOK
  <2>3. CASE UpdateGameRequirement(g, w)
    <3>1. [game[g] EXCEPT !.window = w] \in Game
      BY GameFields DEF TypeOK
    <3>2. game' \in [Games -> Game] /\ UNCHANGED <<now, drafts, writes>>
      BY <2>3, <3>1 DEF UpdateGameRequirement, TypeOK
    <3> QED BY <3>2 DEF TypeOK, LateSaves
  <2>4. CASE ~UpdateGameRequirement(g, w)
    <3>1. game' \in [Games -> Game] /\ UNCHANGED <<now, drafts, writes>>
      BY <2>1, <2>2, <2>4
    <3> QED BY <3>1 DEF TypeOK, LateSaves
  <2> QED BY <2>3, <2>4
<1>5. CASE ProcessStep
  <2>1. PICK p \in Processes :
          \/ \E g \in Games, target \in GameStatuses : UpdateGameStatus(p, g, target)
          \/ ExpireStaleGames(p)
          \/ SaveGames(p)
    BY <1>5 DEF ProcessStep
  <2>2. ASSUME NEW g \in Games, NEW target \in GameStatuses, UpdateGameStatus(p, g, target)
        PROVE  TypeOK' /\ LateSaves'
    <3> DEFINE f == [h \in {g} |-> [game[h] EXCEPT !.status = target, !.forced = (target = "ready")]]
    <3>1. f \in [{g} -> Game] /\ \A h \in {g} : ~Filled(f[h])
      <4>1. PICK b \in BOOLEAN : b = (target = "ready")
        OBVIOUS
      <4>2. game[g] \in Game
        BY DEF TypeOK
      <4>3. f = [h \in {g} |-> [game[h] EXCEPT !.status = target, !.forced = b]]
        BY <4>1
      <4> HIDE DEF f
      <4>4. [game[g] EXCEPT !.status = target, !.forced = b] \in Game
        BY <4>2, StatusWritten
      <4>5. ~Filled([game[g] EXCEPT !.status = target, !.forced = b])
        BY <4>1, <4>2 DEF Filled, Game
      <4> QED BY <4>3, <4>4, <4>5
    <3>2. writes' = [writes EXCEPT ![p] = f] /\ UNCHANGED <<now, game, drafts>>
      BY <2>2 DEF UpdateGameStatus
    <3> HIDE DEF f
    <3> QED BY <3>1, <3>2, ReadShape
  <2>3. CASE ExpireStaleGames(p)
    <3> DEFINE f == [g \in Stale |-> Expired(game[g])]
    <3>1. Stale \in SUBSET Games
      BY DEF Stale
    <3>3. f \in [Stale -> Game] /\ \A h \in Stale : ~Filled(f[h])
      BY <3>1, ExpiredShape
    <3>4. writes' = [writes EXCEPT ![p] = f] /\ UNCHANGED <<now, game, drafts>>
      BY <2>3 DEF ExpireStaleGames
    <3> HIDE DEF f
    <3> QED BY <3>1, <3>3, <3>4, ReadShape
  <2>4. CASE SaveGames(p)
    <3>1. \A g \in DOMAIN writes[p] : writes[p][g] \in Game
      BY DEF TypeOK
    <3>2. game' \in [Games -> Game] /\ UNCHANGED <<now, drafts>>
      BY <2>4, <3>1 DEF SaveGames, TypeOK
    <3>3. \A q \in Processes : writes'[q] = IF q = p THEN Nothing ELSE writes[q]
      BY <2>4 DEF SaveGames, TypeOK
    <3>4. DOMAIN writes' = Processes /\ DOMAIN Nothing = {}
      BY <2>4 DEF SaveGames, TypeOK, Nothing
    <3> QED BY <3>2, <3>3, <3>4 DEF TypeOK, LateSaves
  <2> QED BY <2>1, <2>2, <2>3, <2>4
<1>6. CASE UNCHANGED vars
  BY <1>6 DEF vars, TypeOK, LateSaves
<1> QED BY <1>1, <1>2, <1>3, <1>4, <1>5, <1>6 DEF Next

\* Type correctness: games, participants, invitations and what processes hold unsaved.
THEOREM TypeCorrect == Spec => []TypeOK
<1>1. Init => TypeOK /\ LateSaves
  <2>1. Init => LateSaves
    BY DEF Init, LateSaves, Nothing
  <2> QED BY <2>1, TypeInit
<1>2. TypeOK /\ LateSaves /\ [Next]_vars => (TypeOK /\ LateSaves)'
  BY TypeStep
<1> QED BY <1>1, <1>2, PTL DEF Spec

----------------------------------------------------------------------------
(* Commitments.  The invariant needs no sum of seats: a game fills where   *)
(* resolve_full_game_commitments finds none of its players committed and   *)
(* takes them out of the rest, and a reply to a game that has filled       *)
(* brings in a customer without a commitment at most.                      *)

Committed == TypeOK /\ LateSaves /\ FilledGameIsFull /\ CommitmentsAreExclusive

\* No other step makes a game ready by filling or changes one that is.
LEMMA OtherStep ==
  ASSUME TypeOK, LateSaves, Tick \/ InvitationStep \/ OrganizerStep \/ ProcessStep \/ UNCHANGED vars
  PROVE  \A h \in Games : Filled(game'[h]) => game'[h] = game[h]
<1> USE GamesAssumption
<1>1. CASE Tick \/ UNCHANGED vars
  BY <1>1 DEF Tick, vars
<1>2. CASE InvitationStep
  <2>1. ASSUME NEW g \in Games, NEW customers, CreateInviteDrafts(g, customers), NEW h \in Games
        PROVE  Filled(game'[h]) => game'[h] = game[h]
    BY <2>1, InvitingShape
  <2>2. (\E g \in Games, customers \in SUBSET Customers : CreateInviteDrafts(g, customers)) \/ game' = game
    BY <1>2 DEF InvitationStep, UpdateInviteDelivery
  <2> QED BY <2>1, <2>2
<1>3. CASE OrganizerStep
  <2>1. ASSUME NEW g \in Games, NEW w \in Windows, NEW o \in Customers, NEW alt \in Games,
               NEW seats \in [Customers -> 0..SeatsTotal], CreateGame(g, o, w, seats, alt),
               NEW h \in Games
        PROVE  Filled(game'[h]) => game'[h] = game[h]
    <3> DEFINE r == [status |-> "forming", window |-> w, organizer |-> o, seats |-> seats,
                     root |-> game[alt].root, forced |-> FALSE]
    <3>1. game' = [game EXCEPT ![g] = r]
      BY <2>1 DEF CreateGame
    <3>2. ~Filled(r)
      BY DEF Filled
    <3> HIDE DEF r
    <3> QED BY <3>1, <3>2 DEF TypeOK
  <2>2. ASSUME NEW g \in Games, NEW w \in Windows, UpdateGameRequirement(g, w), NEW h \in Games
        PROVE  Filled(game'[h]) => game'[h] = game[h]
    <3>1. game' = [game EXCEPT ![g] = [game[g] EXCEPT !.window = w]] /\ game[g].status \in Waiting
      BY <2>2 DEF UpdateGameRequirement
    <3>2. [game[g] EXCEPT !.window = w].status = game[g].status
      BY DEF TypeOK, Game
    <3>3. ~Filled([game[g] EXCEPT !.window = w])
      BY <3>1, <3>2 DEF Filled, Waiting
    <3> QED BY <3>1, <3>3 DEF TypeOK
  <2> QED BY <1>3, <2>1, <2>2 DEF OrganizerStep
<1>4. CASE ProcessStep
  <2>1. PICK p \in Processes :
          \/ \E g \in Games, target \in GameStatuses : UpdateGameStatus(p, g, target)
          \/ ExpireStaleGames(p)
          \/ SaveGames(p)
    BY <1>4 DEF ProcessStep
  <2>2. SaveGames(p) \/ game' = game
    BY <2>1 DEF UpdateGameStatus, ExpireStaleGames
  <2>3. CASE SaveGames(p)
    BY <2>3 DEF SaveGames, LateSaves
  <2> QED BY <2>2, <2>3
<1> QED BY <1>1, <1>2, <1>3, <1>4

\* The invariant survives every reply and everything else.
LEMMA CommittedStep == Committed /\ [Next]_vars => Committed'
<1> SUFFICES ASSUME Committed, [Next]_vars PROVE Committed'
  OBVIOUS
<1> USE DEF Committed
<1>1. TypeOK' /\ LateSaves'
  BY TypeStep
<1>2. CASE Tick \/ InvitationStep \/ OrganizerStep \/ ProcessStep \/ UNCHANGED vars
  <2>1. \A h \in Games : Filled(game'[h]) => game'[h] = game[h]
    BY <1>2, OtherStep
  <2> QED BY <1>1, <2>1 DEF FilledGameIsFull, CommitmentsAreExclusive
<1>3. CASE ReplyStep
  <2>1. PICK g \in Games, c \in Customers, n \in 0..SeatsTotal :
          Replied(g, c, n) /\ (n > 0 => ReadyConflicts(g, game[g], {c}) = {})
    BY <1>3, ReplyStepShape
  <2>2. \A h \in Games \ {g} : Filled(game'[h]) => game'[h] = game[h]
    BY <2>1 DEF Replied, Filled
  <2>3. FilledGameIsFull'
    BY <2>1, <2>2 DEF FilledGameIsFull, Replied
  <2>4. ASSUME NEW h \in Games \ {g}, Filled(game'[g]), Filled(game'[h]),
               Overlap(game'[g].window, game'[h].window)
        PROVE  Players(game'[g]) \cap Players(game'[h]) = {}
    <3>1. game'[h] = game[h] /\ game'[g].window = game[g].window
      BY <2>1, <2>2, <2>4 DEF Replied
    <3>2. CASE Unshared(game', g)
      BY <2>4, <3>2 DEF Unshared, Filled, Active
    <3>3. CASE /\ Filled(game[g])
               /\ Players(game'[g]) \subseteq Players(game[g]) \cup (IF n > 0 THEN {c} ELSE {})
      <4>1. Players(game[g]) \cap Players(game[h]) = {}
        BY <2>4, <3>1, <3>3 DEF CommitmentsAreExclusive
      <4>2. n > 0 /\ c \in Players(game[h]) => h \in ReadyConflicts(g, game[g], {c})
        BY <2>4, <3>1 DEF ReadyConflicts, Filled
      <4> QED BY <2>1, <3>1, <3>3, <4>1, <4>2
    <3> QED BY <2>1, <2>4, <3>2, <3>3 DEF Replied
  <2>5. CommitmentsAreExclusive'
    <3> SUFFICES ASSUME NEW h \in Games, NEW k \in Games, h # k,
                        Filled(game'[h]), Filled(game'[k]), Overlap(game'[h].window, game'[k].window)
                 PROVE  Players(game'[h]) \cap Players(game'[k]) = {}
      BY DEF CommitmentsAreExclusive
    <3>1. Overlap(game'[k].window, game'[h].window)
      BY DEF Overlap
    <3>2. CASE h = g
      BY <2>4, <3>2
    <3>3. CASE k = g
      BY <2>4, <3>1, <3>3
    <3>4. CASE h # g /\ k # g
      BY <2>2, <3>4 DEF CommitmentsAreExclusive
    <3> QED BY <3>2, <3>3, <3>4
  <2> QED BY <1>1, <2>3, <2>5
<1> QED BY <1>2, <1>3 DEF Next

\* Nothing is ready at first.
LEMMA CommittedInit == Init => Committed
<1> SUFFICES ASSUME Init PROVE Committed
  OBVIOUS
<1>1. TypeOK
  BY TypeInit
<1>2. LateSaves
  BY DEF Init, LateSaves, Nothing
<1>3. \A g \in Games : ~Filled(game[g])
  BY DEF Init, Filled
<1> QED BY <1>1, <1>2, <1>3 DEF Committed, FilledGameIsFull, CommitmentsAreExclusive

\* A game that became ready by filling stays full while it is ready.
THEOREM FilledStaysFull == Spec => []FilledGameIsFull
<1>1. Committed => FilledGameIsFull
  BY DEF Committed
<1> QED BY <1>1, CommittedInit, CommittedStep, PTL DEF Spec

\* A customer is committed to one of the overlapping games that filled.
THEOREM CommittedOnce == Spec => []CommitmentsAreExclusive
<1>1. Committed => CommitmentsAreExclusive
  BY DEF Committed
<1> QED BY <1>1, CommittedInit, CommittedStep, PTL DEF Spec

\* One step of WinnerTakesItsPlayers.
TakesPlayers ==
  \A g, h \in Games :
    /\ g # h /\ Filled(game'[g]) /\ game[g].status # "ready"
    /\ game'[h].status \in Active /\ Overlap(game'[g].window, game'[h].window)
    => Players(game'[g]) \cap Players(game'[h]) = {}

\* The game that fills takes its players out of every other game of its time.
THEOREM WinnerTakes == Spec => WinnerTakesItsPlayers
<1>1. Committed /\ [Next]_vars => TakesPlayers
  <2> SUFFICES ASSUME Committed, [Next]_vars, NEW g \in Games, NEW h \in Games, g # h,
                      Filled(game'[g]), game[g].status # "ready", game'[h].status \in Active,
                      Overlap(game'[g].window, game'[h].window)
               PROVE  Players(game'[g]) \cap Players(game'[h]) = {}
    BY DEF TakesPlayers
  <2> USE DEF Committed
  <2>1. ~(Tick \/ InvitationStep \/ OrganizerStep \/ ProcessStep \/ UNCHANGED vars)
    BY OtherStep DEF Filled
  <2>2. PICK k \in Games, c \in Customers, n \in 0..SeatsTotal : Replied(k, c, n)
    BY <2>1, ReplyStepShape DEF Next
  <2>3. k = g
    BY <2>2 DEF Replied, Filled
  <2> QED BY <2>2, <2>3 DEF Replied, Unshared, Filled
<1>2. TakesPlayers => [TakesPlayers]_vars
  OBVIOUS
<1> QED BY <1>1, <1>2, CommittedInit, CommittedStep, PTL DEF Spec, WinnerTakesItsPlayers, TakesPlayers

----------------------------------------------------------------------------
(* Seats and invitations.                                                  *)

Undecided(s) == {i \in DOMAIN s : s[i] \in {"pending_approval", "sent"}}

\* A seat is lost by an answer, which all invitations of the customer then have,
\* or to a game that filled, which closes them; and no answer asks anybody.
Answered(g, c, n, st) ==
  /\ game[g].status # "absent" /\ game'[g].status # "absent"
  /\ \A h \in Games \ {g} : game'[h].status = game[h].status
  /\ \A h \in Games, d \in Customers :
       /\ game'[h].seats[d] > 0 => game[h].seats[d] > 0 \/ h = g
       /\ game[h].seats[d] > 0 /\ ~(game'[h].seats[d] > 0) =>
            \A i \in DOMAIN drafts'[h][d] : \/ drafts'[h][d][i] \notin OpenInvites
                                            \/ n = 0 /\ drafts'[h][d][i] = st
       /\ Undecided(drafts'[h][d]) \subseteq Undecided(drafts[h][d])

\* Resolving takes the seats of "out" away and closes their invitations.
LEMMA ResolveSeats ==
  ASSUME game \in [Games -> Game], NEW g \in Games, NEW r \in Game, NEW ds \in Drafts, Resolve(g, r, ds)
  PROVE  \E out \in [Games -> SUBSET Customers] :
           /\ drafts' = Superseded(ds, out)
           /\ game'[g].status \in {"ready", r.status}
           /\ \A h \in Games \ {g} : game'[h].status = game[h].status
           /\ \A h \in Games, d \in Customers :
                game'[h].seats[d] = IF d \in out[h] THEN 0 ELSE IF h = g THEN r.seats[d] ELSE game[h].seats[d]
<1>1. PICK top \in Game, out \in [Games -> SUBSET Customers] :
        /\ top.seats = r.seats /\ top.status \in {"ready", r.status}
        /\ game' = Released([game EXCEPT ![g] = top], out) /\ drafts' = Superseded(ds, out)
  <2>1. CASE Blocked(g, r) # {}
    <3>1. [h \in Games |-> IF h = g THEN Blocked(g, r) ELSE {}] \in [Games -> SUBSET Customers]
      BY DEF Blocked, Players
    <3> QED BY <2>1, <3>1 DEF Resolve
  <2>2. CASE Blocked(g, r) = {}
    <3>1. Losers(g, r) \in [Games -> SUBSET Customers]
      BY DEF Losers, Players
    <3>2. PICK top : top = [r EXCEPT !.status = "ready"]
      OBVIOUS
    <3>3. top \in Game /\ top.seats = r.seats /\ top.status = "ready"
      BY <3>2 DEF Game, GameStatuses, Active
    <3>4. game' = Released([game EXCEPT ![g] = top], Losers(g, r)) /\ drafts' = Superseded(ds, Losers(g, r))
      BY <2>2, <3>2 DEF Resolve
    <3> QED BY <3>1, <3>3, <3>4
  <2> QED BY <2>1, <2>2
<1>2. PICK gs \in [Games -> Game] : gs = [game EXCEPT ![g] = top]
  OBVIOUS
<1>3. gs[g] = top /\ \A h \in Games \ {g} : gs[h] = game[h]
  BY <1>2
<1>4. \A h \in Games : game'[h] = [gs[h] EXCEPT !.seats = [c \in Customers |-> IF c \in out[h] THEN 0 ELSE @[c]]]
  BY <1>1, <1>2 DEF Released
<1>5. \A h \in Games : /\ game'[h].status = gs[h].status
                       /\ \A d \in Customers : game'[h].seats[d] = IF d \in out[h] THEN 0 ELSE gs[h].seats[d]
  <2> TAKE h \in Games
  <2>1. gs[h] \in Game /\ gs[h].seats \in [Customers -> 0..SeatsTotal]
    BY DEF Game
  <2>2. PICK seats : seats = [c \in Customers |-> IF c \in out[h] THEN 0 ELSE gs[h].seats[c]]
    OBVIOUS
  <2>3. game'[h] = [gs[h] EXCEPT !.seats = seats]
    BY <1>4, <2>2
  <2>4. game'[h].status = gs[h].status /\ game'[h].seats = seats
    BY <2>1, <2>3 DEF Game
  <2> QED BY <2>2, <2>4
<1>6. game'[g].status \in {"ready", r.status} /\ \A h \in Games \ {g} : game'[h].status = game[h].status
  BY <1>1, <1>3, <1>5
<1>7. \A h \in Games, d \in Customers :
        game'[h].seats[d] = IF d \in out[h] THEN 0 ELSE IF h = g THEN r.seats[d] ELSE game[h].seats[d]
  BY <1>1, <1>3, <1>5
<1> QED BY <1>1, <1>6, <1>7

LEMMA AnswerShape ==
  ASSUME game \in [Games -> Game], drafts \in Drafts, NEW g \in Games, NEW c \in Customers,
         NEW n \in 0..SeatsTotal, NEW st \in InviteStatuses, Reply(g, c, n, st),
         st \notin {"pending_approval", "sent"}, game[g].status # "absent"
  PROVE  Answered(g, c, n, st)
<1> USE GamesAssumption
<1>1. PICK r : r = [game[g] EXCEPT !.seats[c] = n]
  OBVIOUS
<1>2. PICK ds : ds = [drafts EXCEPT ![g][c] = [i \in DOMAIN @ |-> st]]
  OBVIOUS
<1>3. r \in Game /\ r.status = game[g].status
  BY <1>1, RepliedPlayers
<1>4. \A d \in Customers : r.seats[d] = IF d = c THEN n ELSE game[g].seats[d]
  BY <1>1 DEF Game
<1>5. \A h \in Games, d \in Customers :
        ds[h][d] = IF h = g /\ d = c THEN [i \in DOMAIN drafts[g][c] |-> st] ELSE drafts[h][d]
  BY <1>2 DEF Drafts
<1>6. ds \in Drafts
  <2>1. drafts[g][c] \in Seq(InviteStatuses)
    BY DEF Drafts
  <2>2. [i \in DOMAIN drafts[g][c] |-> st] \in Seq(InviteStatuses)
    BY <2>1, DraftSequence
  <2> QED BY <1>2, <2>2 DEF Drafts
<1>7. \A h \in Games, d \in Customers : Undecided(ds[h][d]) \subseteq Undecided(drafts[h][d])
  BY <1>5 DEF Undecided
<1>8. CASE Resolve(g, r, ds)
  <2>1. PICK out \in [Games -> SUBSET Customers] :
           /\ drafts' = Superseded(ds, out)
           /\ game'[g].status \in {"ready", r.status}
           /\ \A h \in Games \ {g} : game'[h].status = game[h].status
           /\ \A h \in Games, d \in Customers :
                game'[h].seats[d] = IF d \in out[h] THEN 0 ELSE IF h = g THEN r.seats[d] ELSE game[h].seats[d]
    BY <1>3, <1>6, <1>8, ResolveSeats
  <2>2. \A h \in Games, d \in Customers :
          drafts'[h][d] = [i \in DOMAIN ds[h][d] |-> IF d \in out[h] /\ ds[h][d][i] \in OpenInvites
                                                       THEN "superseded" ELSE ds[h][d][i]]
    BY <2>1 DEF Superseded
  <2>3. ASSUME NEW h \in Games, NEW d \in Customers
        PROVE  Undecided(drafts'[h][d]) \subseteq Undecided(drafts[h][d])
    <3>1. PICK s, t : s = drafts'[h][d] /\ t = ds[h][d]
      OBVIOUS
    <3>2. s = [i \in DOMAIN t |-> IF d \in out[h] /\ t[i] \in OpenInvites THEN "superseded" ELSE t[i]]
      BY <2>2, <3>1
    <3>3. Undecided(s) \subseteq Undecided(t)
      BY <3>2 DEF Undecided
    <3> QED BY <1>7, <3>1, <3>3
  <2>4. ASSUME NEW h \in Games, NEW d \in Customers, game[h].seats[d] > 0, ~(game'[h].seats[d] > 0)
        PROVE  \A i \in DOMAIN drafts'[h][d] : \/ drafts'[h][d][i] \notin OpenInvites
                                               \/ n = 0 /\ drafts'[h][d][i] = st
    <3>1. CASE d \in out[h]
      BY <2>2, <3>1 DEF OpenInvites
    <3>2. CASE d \notin out[h]
      <4>1. h = g /\ d = c /\ ~(n > 0)
        BY <1>4, <2>1, <2>4, <3>2
      <4> QED BY <1>5, <2>2, <3>2, <4>1
    <3> QED BY <3>1, <3>2
  <2>5. ASSUME NEW h \in Games, NEW d \in Customers, game'[h].seats[d] > 0
        PROVE  game[h].seats[d] > 0 \/ h = g
    BY <2>1, <2>5
  <2> QED BY <1>3, <2>1, <2>3, <2>4, <2>5 DEF Answered
<1>9. CASE game' = [game EXCEPT ![g] = Reopened(g, r)] /\ drafts' = ds
  <2>1. /\ Reopened(g, r).seats = r.seats
        /\ Reopened(g, r).status \in {r.status, "inviting", "forming"}
    BY <1>3 DEF Reopened, Game
  <2>2. ASSUME NEW h \in Games, NEW d \in Customers, game[h].seats[d] > 0, ~(game'[h].seats[d] > 0)
        PROVE  h = g /\ d = c /\ ~(n > 0)
    BY <1>4, <1>9, <2>1, <2>2
  <2>3. ASSUME NEW h \in Games, NEW d \in Customers, game[h].seats[d] > 0, ~(game'[h].seats[d] > 0)
        PROVE  \A i \in DOMAIN drafts'[h][d] : n = 0 /\ drafts'[h][d][i] = st
    BY <1>5, <1>9, <2>2, <2>3
  <2> QED BY <1>3, <1>7, <1>9, <2>1, <2>3 DEF Answered
<1> QED BY <1>1, <1>2, <1>8, <1>9 DEF Reply

\* Every reply action answers; what is not a confirmation is one of Unconfirmed.
LEMMA ReplyStepAnswers ==
  ASSUME TypeOK, ReplyStep
  PROVE  UNCHANGED writes /\ \E g \in Games, c \in Customers, n \in 0..SeatsTotal, st \in InviteStatuses :
           Answered(g, c, n, st) /\ (n = 0 => st \in Unconfirmed)
<1> USE GamesAssumption
<1>1. game \in [Games -> Game] /\ drafts \in Drafts
  BY DEF TypeOK, Drafts
<1>2. PICK g \in Games, c \in Customers :
        \/ \E n \in 1..SeatsTotal : Confirm(g, c, n)
        \/ \E st \in Unconfirmed : Unconfirm(g, c, st)
        \/ ExecuteParticipationDeadline(g, c)
  BY DEF ReplyStep
<1>3. PICK n \in 0..SeatsTotal, st \in InviteStatuses :
        /\ Reply(g, c, n, st) /\ game[g].status # "absent" /\ UNCHANGED writes
        /\ st \notin {"pending_approval", "sent"} /\ (n = 0 => st \in Unconfirmed)
  <2>1. ASSUME NEW n \in 1..SeatsTotal, Confirm(g, c, n)
        PROVE  /\ n \in 0..SeatsTotal /\ n # 0 /\ "confirmed" \in InviteStatuses
               /\ Reply(g, c, n, "confirmed") /\ game[g].status # "absent" /\ UNCHANGED writes
    BY <2>1 DEF Confirm, InviteStatuses, OpenInvites, Active, Waiting
  <2>2. ASSUME NEW st \in Unconfirmed, Unconfirm(g, c, st)
        PROVE  /\ 0 \in 0..SeatsTotal /\ st \in InviteStatuses \ {"pending_approval", "sent"}
               /\ Reply(g, c, 0, st) /\ game[g].status # "absent" /\ UNCHANGED writes
    BY <2>2 DEF Unconfirm, InviteStatuses, Unconfirmed
  <2>3. CASE ExecuteParticipationDeadline(g, c)
    <3>1. /\ 0 \in 0..SeatsTotal /\ "declined" \in InviteStatuses /\ "declined" \in Unconfirmed
          /\ Reply(g, c, 0, "declined") /\ game[g].status # "absent" /\ UNCHANGED writes
      BY <2>3 DEF ExecuteParticipationDeadline, InviteStatuses, Unconfirmed, Waiting
    <3> QED BY <3>1
  <2>4. CASE \E k \in 1..SeatsTotal : Confirm(g, c, k)
    BY <2>1, <2>4
  <2>5. CASE \E st \in Unconfirmed : Unconfirm(g, c, st)
    BY <2>2, <2>5
  <2> QED BY <1>2, <2>3, <2>4, <2>5
<1>4. Answered(g, c, n, st)
  BY <1>1, <1>3, AnswerShape
<1> QED BY <1>3, <1>4

AtMostOne(s) == \A i, j \in Undecided(s) : i = j

Asked == \A g \in Games, c \in Customers : AtMostOne(drafts[g][c])

LEMMA AskedStep ==
  ASSUME TypeOK, Asked, [Next]_vars
  PROVE  Asked'
<1>1. CASE Tick \/ OrganizerStep \/ ProcessStep \/ UNCHANGED vars
  <2>1. ASSUME Tick \/ UNCHANGED vars PROVE UNCHANGED drafts
    BY <2>1 DEF Tick, vars
  <2>2. ASSUME NEW p \in Processes, NEW g \in Games, NEW target \in GameStatuses,
               UpdateGameStatus(p, g, target)
        PROVE  UNCHANGED drafts
    BY <2>2 DEF UpdateGameStatus
  <2>3. ASSUME NEW p \in Processes, ExpireStaleGames(p) \/ SaveGames(p)
        PROVE  UNCHANGED drafts
    BY <2>3 DEF ExpireStaleGames, SaveGames
  <2>4. ASSUME NEW g \in Games, NEW w \in Windows, NEW o \in Customers, NEW alt \in Games,
               NEW seats \in [Customers -> 0..SeatsTotal], CreateGame(g, o, w, seats, alt)
        PROVE  UNCHANGED drafts
    BY <2>4 DEF CreateGame
  <2>5. ASSUME NEW g \in Games, NEW w \in Windows, UpdateGameRequirement(g, w)
        PROVE  UNCHANGED drafts
    BY <2>5 DEF UpdateGameRequirement
  <2>6. UNCHANGED drafts
    BY <1>1, <2>1, <2>2, <2>3, <2>4, <2>5 DEF OrganizerStep, ProcessStep
  <2> QED BY <2>6 DEF Asked
<1>2. CASE ReplyStep
  <2>1. \A h \in Games, d \in Customers : Undecided(drafts'[h][d]) \subseteq Undecided(drafts[h][d])
    BY <1>2, ReplyStepAnswers DEF Answered
  <2> QED BY <2>1 DEF Asked, AtMostOne
<1>3. ASSUME NEW g \in Games, NEW c \in Customers, NEW i \in DOMAIN drafts[g][c],
             NEW st \in {"sent", "superseded"}, UpdateInviteDelivery(g, c, i, st)
      PROVE  Asked'
  <2>1. PICK s : s = drafts[g][c] /\ s[i] = "pending_approval"
    BY <1>3 DEF UpdateInviteDelivery
  <2>2. drafts' = [drafts EXCEPT ![g][c] = [s EXCEPT ![i] = st]]
    BY <1>3, <2>1 DEF UpdateInviteDelivery
  <2>3. Undecided([s EXCEPT ![i] = st]) \subseteq Undecided(s)
    BY <2>1 DEF Undecided
  <2>4. \A h \in Games, d \in Customers :
          drafts'[h][d] = IF h = g /\ d = c THEN [s EXCEPT ![i] = st] ELSE drafts[h][d]
    BY <2>2 DEF TypeOK
  <2> QED BY <2>1, <2>3, <2>4 DEF Asked, AtMostOne
<1>4. ASSUME NEW g \in Games, NEW customers \in SUBSET Customers, CreateInviteDrafts(g, customers)
      PROVE  Asked'
  <2>1. \A h \in Games, d \in Customers :
          drafts'[h][d] = IF h = g /\ d \in customers THEN Append(drafts[h][d], "pending_approval")
                                                      ELSE drafts[h][d]
    BY <1>4 DEF CreateInviteDrafts, Invite, TypeOK
  <2>2. ASSUME NEW d \in customers PROVE AtMostOne(Append(drafts[g][d], "pending_approval"))
    <3>1. PICK s : s = drafts[g][d] /\ s \in Seq(InviteStatuses)
      BY <2>2 DEF TypeOK
    <3>2. \A i \in DOMAIN s : s[i] \notin {"pending_approval", "sent"}
      BY <1>4, <2>2, <3>1 DEF CreateInviteDrafts, Invite, OpenInvites, Range
    <3>3. PICK more : more = Append(s, "pending_approval")
      OBVIOUS
    <3>4. /\ DOMAIN more = 1..(Len(s) + 1) /\ DOMAIN s = 1..Len(s) /\ Len(s) \in Nat
          /\ \A i \in 1..Len(s) : more[i] = s[i]
      BY <3>1, <3>3
    <3>5. Undecided(more) \subseteq {Len(s) + 1}
      BY <3>2, <3>4 DEF Undecided
    <3> QED BY <3>1, <3>3, <3>5 DEF AtMostOne
  <2> QED BY <2>1, <2>2 DEF Asked
<1>5. CASE InvitationStep
  BY <1>3, <1>4, <1>5 DEF InvitationStep
<1> QED BY <1>1, <1>2, <1>5 DEF Next

\* Nobody has two undecided invitations to a game.
THEOREM AskedOnce == Spec => []OneUndecidedInvitation
<1>1. Init => Asked
  BY DEF Init, Asked, AtMostOne, Undecided
<1>2. TypeOK /\ Asked => OneUndecidedInvitation
  <2> SUFFICES ASSUME TypeOK, Asked, NEW g \in Games, NEW c \in Customers
               PROVE  Cardinality(Undecided(drafts[g][c])) <= 1
    BY DEF OneUndecidedInvitation, Undecided
  <2>1. PICK S : S = Undecided(drafts[g][c]) /\ \A i, j \in S : i = j
    BY DEF Asked, AtMostOne
  <2>2. CASE S = {}
    BY <2>1, <2>2, FS_EmptySet
  <2>3. CASE S # {}
    <3>1. PICK i \in S : S = {i}
      BY <2>1, <2>3
    <3>2. Cardinality({i}) = 1
      BY FS_Singleton
    <3> QED BY <2>1, <3>1, <3>2
  <2> QED BY <2>2, <2>3
<1>3. TypeOK /\ Asked /\ [Next]_vars => Asked'
  BY AskedStep
<1> QED BY <1>1, <1>2, <1>3, TypeCorrect, PTL DEF Spec

\* A game that does not exist has no players, and nobody saves one.
Absent == /\ \A g \in Games, c \in Customers : game[g].status = "absent" => ~(game[g].seats[c] > 0)
          /\ \A p \in Processes : \A g \in DOMAIN writes[p] : writes[p][g].status # "absent"

\* Only replies and saves change the seats of a game that exists.
LEMMA SeatsStep ==
  ASSUME TypeOK, Absent, Tick \/ InvitationStep \/ OrganizerStep \/ UNCHANGED vars
  PROVE  /\ \A h \in Games : \/ game'[h].seats = game[h].seats /\ (game'[h].status = "absent" => game[h].status = "absent")
                             \/ /\ game[h].status = "absent" /\ game'[h].status # "absent"
                                /\ Claimed(game'[h]) <= SeatsTotal
         /\ UNCHANGED writes
<1>1. CASE Tick \/ UNCHANGED vars
  BY <1>1 DEF Tick, vars
<1>2. ASSUME NEW g \in Games, NEW customers, CreateInviteDrafts(g, customers)
      PROVE  /\ \A h \in Games : \/ game'[h].seats = game[h].seats /\ game'[h].status # "absent"
                                 \/ game'[h] = game[h]
             /\ UNCHANGED writes
  <2>1. /\ game' = [WithoutStale EXCEPT ![g].status = "inviting"] /\ DOMAIN WithoutStale = Games
        /\ UNCHANGED writes
    BY <1>2 DEF CreateInviteDrafts, Invite, WithoutStale
  <2>2. \A h \in Games : WithoutStale[h] = IF h \in Stale THEN Expired(game[h]) ELSE game[h]
    BY DEF WithoutStale
  <2>3. \A h \in Games : Expired(game[h]) \in Game /\ Expired(game[h]).seats = game[h].seats /\ Expired(game[h]).status # "absent"
    <3> TAKE h \in Games
    <3>1. game[h] \in Game
      BY DEF TypeOK
    <3>2. PICK st \in {"finished", "cancelled"} : Expired(game[h]) = [game[h] EXCEPT !.status = st, !.forced = FALSE]
      BY DEF Expired
    <3> QED BY <3>1, <3>2 DEF Game, GameStatuses, Closed
  <2> HIDE DEF WithoutStale
  <2>4. \A h \in Games : WithoutStale[h] \in Game /\ WithoutStale[h].seats = game[h].seats
    BY <2>2, <2>3 DEF TypeOK
  <2>5. PICK new : new = [WithoutStale[g] EXCEPT !.status = "inviting"]
    OBVIOUS
  <2>6. new.seats = game[g].seats /\ new.status = "inviting"
    BY <2>4, <2>5 DEF Game
  <2>7. game' = [WithoutStale EXCEPT ![g] = new]
    BY <2>1, <2>5
  <2> QED BY <2>1, <2>2, <2>3, <2>6, <2>7
<1>3. CASE InvitationStep
  <2>1. \/ \E g \in Games, customers \in SUBSET Customers : CreateInviteDrafts(g, customers)
        \/ UNCHANGED <<game, writes>>
    BY <1>3 DEF InvitationStep, UpdateInviteDelivery
  <2> QED BY <1>2, <2>1
<1>4. ASSUME NEW g \in Games, NEW w \in Windows, NEW o \in Customers, NEW alt \in Games,
             NEW seats \in [Customers -> 0..SeatsTotal], CreateGame(g, o, w, seats, alt)
      PROVE  /\ \A h \in Games : \/ game'[h] = game[h]
                                 \/ /\ game[h].status = "absent" /\ game'[h].status # "absent"
                                    /\ Claimed(game'[h]) <= SeatsTotal
             /\ UNCHANGED writes
  <2>1. PICK r : /\ r = [status |-> "forming", window |-> w, organizer |-> o, seats |-> seats,
                         root |-> game[alt].root, forced |-> FALSE]
                 /\ game' = [game EXCEPT ![g] = r] /\ Claimed(r) <= SeatsTotal
    BY <1>4 DEF CreateGame
  <2>2. r.status = "forming" /\ game[g].status = "absent" /\ Claimed(r) <= SeatsTotal /\ UNCHANGED writes
    BY <1>4, <2>1 DEF CreateGame
  <2>3. game' = [game EXCEPT ![g] = r] /\ DOMAIN game = Games
    BY <2>1 DEF TypeOK
  <2> QED BY <2>2, <2>3
<1>5. ASSUME NEW g \in Games, NEW w \in Windows, UpdateGameRequirement(g, w)
      PROVE  /\ \A h \in Games : game'[h].seats = game[h].seats /\ game'[h].status = game[h].status
             /\ UNCHANGED writes
  <2>1. PICK r : r = [game[g] EXCEPT !.window = w] /\ game' = [game EXCEPT ![g] = r] /\ UNCHANGED writes
    BY <1>5 DEF UpdateGameRequirement
  <2>2. r.seats = game[g].seats /\ r.status = game[g].status
    BY <2>1 DEF TypeOK, Game
  <2> QED BY <2>1, <2>2 DEF TypeOK
<1>6. CASE OrganizerStep
  BY <1>4, <1>5, <1>6 DEF OrganizerStep
<1> QED BY <1>1, <1>3, <1>6

\* Games are saved only as they were read, and no game that exists becomes absent.
LEMMA AbsentStep ==
  ASSUME TypeOK, Absent, [Next]_vars
  PROVE  Absent'
<1> USE GamesAssumption
<1>1. CASE Tick \/ InvitationStep \/ OrganizerStep \/ UNCHANGED vars
  BY <1>1, SeatsStep DEF Absent
<1>2. CASE ReplyStep
  <2>1. PICK g \in Games, c \in Customers, n \in 0..SeatsTotal, st \in InviteStatuses : Answered(g, c, n, st)
    BY <1>2, ReplyStepAnswers
  <2>2. UNCHANGED writes
    BY <1>2, ReplyStepAnswers
  <2>3. \A h \in Games, d \in Customers : game'[h].status = "absent" => ~(game'[h].seats[d] > 0)
    BY <2>1 DEF Absent, Answered
  <2> QED BY <2>2, <2>3 DEF Absent
<1>3. ASSUME NEW p \in Processes, NEW g \in Games, NEW target \in GameStatuses, UpdateGameStatus(p, g, target)
      PROVE  Absent'
  <2>1. PICK read : /\ read = [game[g] EXCEPT !.status = target, !.forced = (target = "ready")]
                    /\ writes' = [writes EXCEPT ![p] = [h \in {g} |-> read]]
    <3>1. [h \in {g} |-> [game[h] EXCEPT !.status = target, !.forced = (target = "ready")]]
          = [h \in {g} |-> [game[g] EXCEPT !.status = target, !.forced = (target = "ready")]]
      OBVIOUS
    <3> QED BY <1>3, <3>1 DEF UpdateGameStatus
  <2>2. target # "absent" /\ UNCHANGED game
    BY <1>3 DEF UpdateGameStatus, AllowedTransitions, Closed
  <2>3. read.status = target
    BY <2>1 DEF TypeOK, Game
  <2>4. writes'[p] = [h \in {g} |-> read] /\ \A q \in Processes \ {p} : writes'[q] = writes[q]
    BY <2>1 DEF TypeOK
  <2> QED BY <2>2, <2>3, <2>4 DEF Absent
<1>4. ASSUME NEW p \in Processes, ExpireStaleGames(p)
      PROVE  Absent'
  <2>1. /\ writes' = [writes EXCEPT ![p] = [h \in Stale |-> Expired(game[h])]] /\ UNCHANGED game
        /\ Stale \subseteq Games
    BY <1>4 DEF ExpireStaleGames, Stale
  <2>2. ASSUME NEW h \in Stale PROVE Expired(game[h]).status # "absent"
    <3>1. game[h] \in Game
      BY <2>1 DEF TypeOK
    <3>2. PICK st \in {"finished", "cancelled"} : Expired(game[h]) = [game[h] EXCEPT !.status = st, !.forced = FALSE]
      BY DEF Expired
    <3> QED BY <3>1, <3>2 DEF Game
  <2>3. writes'[p] = [h \in Stale |-> Expired(game[h])] /\ \A q \in Processes \ {p} : writes'[q] = writes[q]
    BY <2>1 DEF TypeOK
  <2> QED BY <2>1, <2>2, <2>3 DEF Absent
<1>5. ASSUME NEW p \in Processes, SaveGames(p)
      PROVE  Absent'
  <2>1. /\ \A h \in Games : game'[h] = IF h \in DOMAIN writes[p] THEN writes[p][h] ELSE game[h]
        /\ writes'[p] = Nothing /\ \A q \in Processes \ {p} : writes'[q] = writes[q]
    BY <1>5 DEF SaveGames, TypeOK
  <2> QED BY <2>1 DEF Absent, Nothing
<1>6. CASE ProcessStep
  BY <1>3, <1>4, <1>5, <1>6 DEF ProcessStep
<1> QED BY <1>1, <1>2, <1>6 DEF Next

\* Whoever loses a seat other than by a late save keeps no invitation to the game
\* that he could still take up.
THEOREM SeatLostClosesInvitations == Spec => SeatAndInvitationGoTogether
<1>1. Init => Absent
  BY GamesAssumption DEF Init, Absent, Nothing
<1>2. ASSUME TypeOK, Absent, Next, NEW g \in Games, NEW c \in Customers,
             writes' = writes, game[g].seats[c] > 0, game'[g].seats[c] = 0
      PROVE  Range(drafts'[g][c]) \cap (OpenInvites \ {"negotiating"}) = {}
  <2>1. ~(game'[g].seats[c] > 0) /\ game[g].status # "absent"
    BY <1>2 DEF Absent
  <2>2. ~(Tick \/ InvitationStep \/ OrganizerStep)
    BY <1>2, <2>1, SeatsStep
  <2>3. ~ProcessStep
    <3>1. ASSUME NEW p \in Processes, SaveGames(p) PROVE FALSE
      BY <1>2, <3>1 DEF SaveGames, TypeOK
    <3>2. ASSUME NEW p \in Processes, NEW h \in Games, NEW target \in GameStatuses, UpdateGameStatus(p, h, target)
          PROVE FALSE
      BY <1>2, <2>1, <3>2 DEF UpdateGameStatus
    <3>3. ASSUME NEW p \in Processes, ExpireStaleGames(p) PROVE FALSE
      BY <1>2, <2>1, <3>3 DEF ExpireStaleGames
    <3> QED BY <3>1, <3>2, <3>3 DEF ProcessStep
  <2>4. PICK h \in Games, d \in Customers, n \in 0..SeatsTotal, st \in InviteStatuses :
          Answered(h, d, n, st) /\ (n = 0 => st \in Unconfirmed)
    BY <1>2, <2>2, <2>3, ReplyStepAnswers DEF Next
  <2>5. \A i \in DOMAIN drafts'[g][c] : \/ drafts'[g][c][i] \notin OpenInvites
                                        \/ n = 0 /\ drafts'[g][c][i] = st
    BY <1>2, <2>1, <2>4 DEF Answered
  <2> QED BY <2>4, <2>5 DEF Range, Unconfirmed, OpenInvites
<1>3. TypeOK /\ Absent /\ [Next]_vars => Absent'
  BY AbsentStep
<1>4. TypeOK /\ Absent /\ [Next]_vars =>
        [\A g \in Games, c \in Customers :
           /\ writes' = writes /\ game[g].seats[c] > 0 /\ game'[g].seats[c] = 0
           => Range(drafts'[g][c]) \cap (OpenInvites \ {"negotiating"}) = {}]_vars
  BY <1>2
<1> QED BY <1>1, <1>3, <1>4, TypeCorrect, PTL DEF Spec, SeatAndInvitationGoTogether
----------------------------------------------------------------------------
(* Seats at a table.  A reply gives its customer n seats in place of those *)
(* he held, and takes seats from anybody else at most; what a process has  *)
(* read and saves late was a legal table when it was read.                 *)

Seats == [Customers -> 0..SeatsTotal]

\* The seats taken at a table are finitely many.
LEMMA TakenFinite ==
  ASSUME NEW r, r.seats \in Seats
  PROVE  IsFiniteSet(Taken(r)) /\ Claimed(r) \in Nat
<1> USE GamesAssumption
<1>1. IsFiniteSet(Customers \X (1..SeatsTotal))
  <2>1. 1 \in Int /\ SeatsTotal \in Int
    OBVIOUS
  <2>2. IsFiniteSet(1..SeatsTotal)
    BY <2>1, FS_Interval
  <2> QED BY <2>2, FS_Product
<1>2. Taken(r) \subseteq Customers \X (1..SeatsTotal)
  BY DEF Taken, Seats
<1>3. IsFiniteSet(Taken(r))
  BY <1>1, <1>2, FS_Subset
<1> QED BY <1>3, FS_CardinalityType DEF Claimed

\* Where nobody holds more seats, no more are taken.
LEMMA TakenMonotonic ==
  ASSUME NEW r, NEW q, r.seats \in Seats, q.seats \in Seats,
         \A d \in Customers : r.seats[d] <= q.seats[d]
  PROVE  Claimed(r) <= Claimed(q)
<1> USE GamesAssumption
<1>1. Taken(r) \subseteq Taken(q)
  <2> SUFFICES ASSUME NEW d \in Customers PROVE {d} \X (1..r.seats[d]) \subseteq {d} \X (1..q.seats[d])
    BY DEF Taken
  <2> QED BY DEF Seats
<1> QED BY <1>1, TakenFinite, FS_Subset DEF Claimed

\* A customer's seats are counted once: with n of them, n more are taken than without.
LEMMA TakenSplit ==
  ASSUME NEW q, NEW z, NEW c \in Customers, NEW n \in 0..SeatsTotal,
         q.seats \in Seats, z.seats = [q.seats EXCEPT ![c] = 0], q.seats[c] = n
  PROVE  Claimed(q) = Claimed(z) + n
<1> USE GamesAssumption
<1>1. z.seats \in Seats
  BY DEF Seats
<1>2. \A d \in Customers : z.seats[d] = IF d = c THEN 0 ELSE q.seats[d]
  BY DEF Seats
<1> DEFINE own == {c} \X (1..n)
<1>3. IsFiniteSet(own) /\ Cardinality(own) = n
  <2>1. IsFiniteSet({c}) /\ Cardinality({c}) = 1
    BY FS_Singleton
  <2>2. IsFiniteSet(1..n) /\ Cardinality(1..n) = n
    <3>1. 1 \in Int /\ n \in Int
      OBVIOUS
    <3>2. IsFiniteSet(1..n) /\ Cardinality(1..n) = IF 1 > n THEN 0 ELSE n - 1 + 1
      BY <3>1, FS_Interval
    <3> QED BY <3>2
  <2>3. IsFiniteSet(own) /\ Cardinality(own) = Cardinality({c}) * Cardinality(1..n)
    BY <2>1, <2>2, FS_Product
  <2> QED BY <2>1, <2>2, <2>3
<1>4. Taken(q) = Taken(z) \cup own
  <2>1. ASSUME NEW x \in Taken(q) PROVE x \in Taken(z) \cup own
    <3>1. PICK d \in Customers : x \in {d} \X (1..q.seats[d])
      BY DEF Taken
    <3> QED BY <1>2, <3>1 DEF Taken
  <2>2. ASSUME NEW x \in Taken(z) PROVE x \in Taken(q)
    <3>1. PICK d \in Customers : x \in {d} \X (1..z.seats[d])
      BY DEF Taken
    <3>2. d # c
      BY <1>2, <3>1
    <3> QED BY <1>2, <3>1, <3>2 DEF Taken
  <2>3. own \subseteq Taken(q)
    BY DEF Taken
  <2> QED BY <2>1, <2>2, <2>3
<1>5. Taken(z) \cap own = {}
  BY <1>2 DEF Taken
<1>6. Cardinality(Taken(z) \cup own) = Cardinality(Taken(z)) + Cardinality(own) - Cardinality(Taken(z) \cap own)
  BY <1>1, <1>3, TakenFinite, FS_Union
<1>7. Claimed(z) \in Nat
  BY <1>1, TakenFinite
<1> QED BY <1>3, <1>4, <1>5, <1>6, <1>7, FS_EmptySet DEF Claimed

\* After a reply c has n seats in g, or none, and nobody has more than he had.
LEMMA ReplySeats ==
  ASSUME game \in [Games -> Game], drafts \in Drafts, NEW g \in Games, NEW c \in Customers,
         NEW n \in 0..SeatsTotal, NEW st \in InviteStatuses, Reply(g, c, n, st)
  PROVE  \A h \in Games, d \in Customers :
           game'[h].seats[d] \in {0, IF h = g /\ d = c THEN n ELSE game[h].seats[d]}
<1>1. PICK r : r = [game[g] EXCEPT !.seats[c] = n]
  OBVIOUS
<1>2. PICK ds : ds = [drafts EXCEPT ![g][c] = [i \in DOMAIN @ |-> st]]
  OBVIOUS
<1>3. r \in Game
  BY <1>1, RepliedPlayers
<1>4. \A d \in Customers : r.seats[d] = IF d = c THEN n ELSE game[g].seats[d]
  BY <1>1 DEF Game
<1>5. ds \in Drafts
  <2>1. drafts[g][c] \in Seq(InviteStatuses)
    BY DEF Drafts
  <2>2. [i \in DOMAIN drafts[g][c] |-> st] \in Seq(InviteStatuses)
    BY <2>1, DraftSequence
  <2> QED BY <1>2, <2>2 DEF Drafts
<1>6. CASE Resolve(g, r, ds)
  <2>1. PICK out \in [Games -> SUBSET Customers] :
          \A h \in Games, d \in Customers :
            game'[h].seats[d] = IF d \in out[h] THEN 0 ELSE IF h = g THEN r.seats[d] ELSE game[h].seats[d]
    BY <1>3, <1>5, <1>6, ResolveSeats
  <2> QED BY <1>4, <2>1
<1>7. CASE game' = [game EXCEPT ![g] = Reopened(g, r)]
  <2>1. Reopened(g, r).seats = r.seats
    BY <1>3 DEF Reopened, Game
  <2> QED BY <1>4, <1>7, <2>1
<1> QED BY <1>1, <1>2, <1>6, <1>7 DEF Reply

\* A reply that claims seats finds them free.
LEMMA ReplyStepSeats ==
  ASSUME ReplyStep
  PROVE  \E g \in Games, c \in Customers, n \in 0..SeatsTotal, st \in InviteStatuses :
           Reply(g, c, n, st) /\ (n > 0 => n <= Available(g, c))
<1> USE GamesAssumption
<1>1. PICK g \in Games, c \in Customers :
        \/ \E n \in 1..SeatsTotal : Confirm(g, c, n)
        \/ \E st \in Unconfirmed : Unconfirm(g, c, st)
        \/ ExecuteParticipationDeadline(g, c)
  BY DEF ReplyStep
<1>2. ASSUME NEW n \in 1..SeatsTotal, Confirm(g, c, n)
      PROVE  n \in 0..SeatsTotal /\ "confirmed" \in InviteStatuses /\ Reply(g, c, n, "confirmed") /\ n <= Available(g, c)
  BY <1>2 DEF Confirm, InviteStatuses, OpenInvites
<1>3. ASSUME NEW st \in Unconfirmed, Unconfirm(g, c, st)
      PROVE  0 \in 0..SeatsTotal /\ ~(0 > 0) /\ st \in InviteStatuses /\ Reply(g, c, 0, st)
  BY <1>3 DEF Unconfirm, InviteStatuses
<1>4. ASSUME ExecuteParticipationDeadline(g, c)
      PROVE  0 \in 0..SeatsTotal /\ ~(0 > 0) /\ "declined" \in InviteStatuses /\ Reply(g, c, 0, "declined")
  BY <1>4 DEF ExecuteParticipationDeadline, InviteStatuses, Unconfirmed
<1> QED BY <1>1, <1>2, <1>3, <1>4

\* No table is overbooked, in the database or in a process's memory.
Seated == /\ \A g \in Games : Claimed(game[g]) <= SeatsTotal
          /\ \A p \in Processes : \A g \in DOMAIN writes[p] : Claimed(writes[p][g]) <= SeatsTotal

\* A reply finds its seats free, or gives some back.
LEMMA SeatedReply ==
  ASSUME TypeOK, Seated, ReplyStep
  PROVE  Seated'
<1> USE GamesAssumption
<1>1. game \in [Games -> Game] /\ drafts \in Drafts /\ game' \in [Games -> Game] /\ UNCHANGED writes
  BY ReplyStepShape DEF TypeOK, Drafts, Replied
<1>2. \A h \in Games : game[h].seats \in Seats /\ game'[h].seats \in Seats
  BY <1>1 DEF Game, Seats
<1>3. PICK g \in Games, c \in Customers, n \in 0..SeatsTotal, st \in InviteStatuses :
        Reply(g, c, n, st) /\ (n > 0 => n <= Available(g, c))
  BY ReplyStepSeats
<1>4. \A h \in Games, d \in Customers :
        game'[h].seats[d] \in {0, IF h = g /\ d = c THEN n ELSE game[h].seats[d]}
  BY <1>1, <1>3, ReplySeats
<1>5. ASSUME NEW h \in Games \ {g} PROVE Claimed(game'[h]) <= SeatsTotal
  <2>1. \A d \in Customers : game'[h].seats[d] <= game[h].seats[d]
    BY <1>2, <1>4 DEF Seats
  <2>2. Claimed(game'[h]) <= Claimed(game[h])
    BY <1>2, <2>1, TakenMonotonic
  <2> QED BY <1>2, <2>2, TakenFinite DEF Seated
<1>6. Claimed(game'[g]) <= SeatsTotal
  <2>1. PICK q, z : q = [game[g] EXCEPT !.seats[c] = n] /\ z = [game[g] EXCEPT !.seats[c] = 0]
    OBVIOUS
  <2>2. /\ q.seats = [game[g].seats EXCEPT ![c] = n] /\ q.seats \in Seats
        /\ z.seats = [game[g].seats EXCEPT ![c] = 0] /\ z.seats \in Seats
    <3>1. game[g] \in Game
      BY <1>1
    <3>2. q.seats = [game[g].seats EXCEPT ![c] = n] /\ z.seats = [game[g].seats EXCEPT ![c] = 0]
      BY <2>1, <3>1 DEF Game
    <3> QED BY <1>2, <3>2 DEF Seats
  <2>3. Claimed(q) = Claimed(z) + n
    <3>1. z.seats = [q.seats EXCEPT ![c] = 0] /\ q.seats[c] = n
      BY <1>2, <2>2 DEF Seats
    <3>2. q.seats \in Seats
      BY <2>2
    <3> QED BY <3>1, <3>2, TakenSplit
  <2>4. Claimed(z) <= SeatsTotal
    <3>1. \A d \in Customers : z.seats[d] <= game[g].seats[d]
      BY <1>2, <2>2 DEF Seats
    <3>2. Claimed(z) <= Claimed(game[g])
      BY <1>2, <2>2, <3>1, TakenMonotonic
    <3> QED BY <1>2, <2>2, <3>2, TakenFinite DEF Seated
  <2>5. n > 0 => n <= SeatsTotal - Claimed(z)
    BY <1>3, <2>1 DEF Available
  <2>6. Claimed(q) <= SeatsTotal /\ Claimed(q) \in Nat /\ Claimed(game'[g]) \in Nat
    <3>1. Claimed(z) \in Nat /\ Claimed(q) \in Nat /\ Claimed(game'[g]) \in Nat
      BY <1>2, <2>2, TakenFinite
    <3> QED BY <2>3, <2>4, <2>5, <3>1
  <2>7. \A d \in Customers : game'[g].seats[d] <= q.seats[d]
    BY <1>2, <1>4, <2>2 DEF Seats
  <2>8. Claimed(game'[g]) <= Claimed(q)
    BY <1>2, <2>2, <2>7, TakenMonotonic
  <2> QED BY <2>6, <2>8
<1> QED BY <1>1, <1>5, <1>6 DEF Seated

\* Reading keeps the seats, and so does saving what was read.
LEMMA SeatedStep ==
  ASSUME TypeOK, Absent, Seated, [Next]_vars
  PROVE  Seated'
<1> USE GamesAssumption
<1>1. CASE Tick \/ InvitationStep \/ OrganizerStep \/ UNCHANGED vars
  <2>1. UNCHANGED writes
    BY <1>1, SeatsStep
  <2>2. ASSUME NEW h \in Games PROVE Claimed(game'[h]) <= SeatsTotal
    <3>1. game'[h].seats = game[h].seats \/ Claimed(game'[h]) <= SeatsTotal
      BY <1>1, SeatsStep
    <3>2. game'[h].seats = game[h].seats => Claimed(game'[h]) = Claimed(game[h])
      BY SameSeats
    <3> QED BY <3>1, <3>2 DEF Seated
  <2> QED BY <2>1, <2>2 DEF Seated
<1>2. CASE ReplyStep
  BY <1>2, SeatedReply
<1>3. ASSUME NEW p \in Processes, NEW g \in Games, NEW target \in GameStatuses, UpdateGameStatus(p, g, target)
      PROVE  Seated'
  <2>1. PICK read : /\ read = [game[g] EXCEPT !.status = target, !.forced = (target = "ready")]
                    /\ writes' = [writes EXCEPT ![p] = [h \in {g} |-> read]]
    <3>1. [h \in {g} |-> [game[h] EXCEPT !.status = target, !.forced = (target = "ready")]]
          = [h \in {g} |-> [game[g] EXCEPT !.status = target, !.forced = (target = "ready")]]
      OBVIOUS
    <3> QED BY <1>3, <3>1 DEF UpdateGameStatus
  <2>2. read.seats = game[g].seats /\ UNCHANGED game
    BY <1>3, <2>1 DEF TypeOK, Game, UpdateGameStatus
  <2>3. Claimed(read) <= SeatsTotal
    <3>1. Claimed(read) = Claimed(game[g])
      BY <2>2, SameSeats
    <3> QED BY <3>1 DEF Seated
  <2>4. writes'[p] = [h \in {g} |-> read] /\ \A q \in Processes \ {p} : writes'[q] = writes[q]
    BY <2>1 DEF TypeOK
  <2> QED BY <2>2, <2>3, <2>4 DEF Seated
<1>4. ASSUME NEW p \in Processes, ExpireStaleGames(p)
      PROVE  Seated'
  <2>1. /\ writes' = [writes EXCEPT ![p] = [h \in Stale |-> Expired(game[h])]] /\ UNCHANGED game
        /\ Stale \subseteq Games
    BY <1>4 DEF ExpireStaleGames, Stale
  <2>2. ASSUME NEW h \in Stale PROVE Claimed(Expired(game[h])) <= SeatsTotal
    <3>1. game[h] \in Game
      BY <2>1 DEF TypeOK
    <3>2. PICK st \in {"finished", "cancelled"} : Expired(game[h]) = [game[h] EXCEPT !.status = st, !.forced = FALSE]
      BY DEF Expired
    <3>3. Expired(game[h]).seats = game[h].seats
      BY <3>1, <3>2 DEF Game
    <3>4. Claimed(Expired(game[h])) = Claimed(game[h])
      BY <3>3, SameSeats
    <3> QED BY <2>1, <3>4 DEF Seated
  <2>3. writes'[p] = [h \in Stale |-> Expired(game[h])] /\ \A q \in Processes \ {p} : writes'[q] = writes[q]
    BY <2>1 DEF TypeOK
  <2> QED BY <2>1, <2>2, <2>3 DEF Seated
<1>5. ASSUME NEW p \in Processes, SaveGames(p)
      PROVE  Seated'
  <2>1. /\ \A h \in Games : game'[h] = IF h \in DOMAIN writes[p] THEN writes[p][h] ELSE game[h]
        /\ writes'[p] = Nothing /\ \A q \in Processes \ {p} : writes'[q] = writes[q]
    BY <1>5 DEF SaveGames, TypeOK
  <2> QED BY <2>1 DEF Seated, Nothing
<1>6. CASE ProcessStep
  BY <1>3, <1>4, <1>5, <1>6 DEF ProcessStep
<1> QED BY <1>1, <1>2, <1>6 DEF Next

\* No game exists at first.
LEMMA SeatedInit == Init => Absent /\ Seated
<1> SUFFICES ASSUME Init PROVE Absent /\ Seated
  OBVIOUS
<1>1. Absent
  BY GamesAssumption DEF Init, Absent, Nothing
<1>2. ASSUME NEW g \in Games PROVE Claimed(game[g]) <= SeatsTotal
  <2>1. game[g].seats = [c \in Customers |-> 0]
    BY DEF Init
  <2>2. Taken(game[g]) = {}
    BY <2>1 DEF Taken
  <2> QED BY <2>2, FS_EmptySet, GamesAssumption DEF Claimed
<1>3. \A p \in Processes : DOMAIN writes[p] = {}
  BY DEF Init, Nothing
<1> QED BY <1>1, <1>2, <1>3 DEF Seated

\* A table has no more players than seats, however many games, customers and processes.
THEOREM NeverOverbooked == Spec => []TableIsNotOverbooked
<1>1. Init => Absent /\ Seated
  BY SeatedInit
<1>2. TypeOK /\ Absent /\ Seated /\ [Next]_vars => Absent' /\ Seated'
  BY AbsentStep, SeatedStep
<1>3. Seated => TableIsNotOverbooked
  BY DEF Seated, TableIsNotOverbooked
<1> QED BY <1>1, <1>2, <1>3, TypeCorrect, PTL DEF Spec
----------------------------------------------------------------------------
(* The tables that filled implement Commitments.  A reply to such a table  *)
(* either asks for the seats its customer holds already, for none are free,*)
(* or reopens it; a reply that fills a table commits it as a whole.        *)

\* The commitment of a filled table, and those of the database.
Entry(g, r) == [game |-> g, party |-> Players(r), window |-> r.window]

Entries == {Entry(g, game[g]) : g \in {h \in Games : Filled(game[h])}}

\* A table that filled, answered and still full has the players it had.
LEMMA FilledTableKeepsPlayers ==
  ASSUME game \in [Games -> Game], drafts \in Drafts, NEW g \in Games, NEW c \in Customers,
         NEW n \in 0..SeatsTotal, NEW st \in InviteStatuses, Reply(g, c, n, st),
         n > 0 => n <= Available(g, c), game[g].status = "ready",
         Claimed(game[g]) = SeatsTotal, Full(game'[g])
  PROVE  Players(game'[g]) = Players(game[g])
<1> USE GamesAssumption
<1>1. PICK q, z : q = [game[g] EXCEPT !.seats[c] = n] /\ z = [game[g] EXCEPT !.seats[c] = 0]
  OBVIOUS
<1>2. game[g] \in Game /\ game[g].seats \in Seats
  BY DEF Game, Seats
<1>3. /\ q.seats = [game[g].seats EXCEPT ![c] = n] /\ q.seats \in Seats
      /\ z.seats = [game[g].seats EXCEPT ![c] = 0] /\ z.seats \in Seats
  <2>1. q.seats = [game[g].seats EXCEPT ![c] = n] /\ z.seats = [game[g].seats EXCEPT ![c] = 0]
    BY <1>1, <1>2 DEF Game
  <2> QED BY <1>2, <2>1 DEF Seats
<1>4. q \in Game /\ q.status = "ready"
  BY <1>1, <1>2, RepliedPlayers
<1>5. game'[g].seats = q.seats
  <2>1. game' = [game EXCEPT ![g] = Reopened(g, q)]
    BY <1>1, <1>4 DEF Reply, Waiting
  <2>2. Reopened(g, q).seats = q.seats
    BY <1>4 DEF Reopened, Game
  <2> QED BY <2>1, <2>2
<1>6. Claimed(q) = Claimed(z) + n
  <2>1. z.seats = [q.seats EXCEPT ![c] = 0] /\ q.seats[c] = n /\ q.seats \in Seats
    BY <1>2, <1>3 DEF Seats
  <2> QED BY <2>1, TakenSplit
<1>7. PICK k \in 0..SeatsTotal : k = game[g].seats[c]
  BY <1>2 DEF Seats
<1>8. Claimed(game[g]) = Claimed(z) + k
  <2>1. game[g].seats \in Seats /\ game[g].seats[c] = k
    BY <1>2, <1>7
  <2> QED BY <1>3, <2>1, TakenSplit
<1>9. Claimed(z) \in Nat
  BY <1>3, TakenFinite
<1>10. n > 0 => n <= SeatsTotal - Claimed(z)
  BY <1>1 DEF Available
<1>11. Claimed(q) >= SeatsTotal
  BY <1>5, SameSeats DEF Full
<1>12. n = k
  BY <1>6, <1>8, <1>9, <1>10, <1>11
<1>13. q.seats = game[g].seats
  BY <1>2, <1>3, <1>7, <1>12 DEF Seats
<1> QED BY <1>5, <1>13, SameSeats

\* A reply commits a table that it fills, or dissolves one at most.
LEMMA RepliesCommit ==
  ASSUME Committed, Seated, ReplyStep
  PROVE  Ready!Next
<1> USE GamesAssumption DEF Committed
<1>1. game \in [Games -> Game] /\ drafts \in Drafts
  BY DEF TypeOK, Drafts
<1>2. PICK g \in Games, c \in Customers, n \in 0..SeatsTotal, st \in InviteStatuses :
        Reply(g, c, n, st) /\ (n > 0 => n <= Available(g, c))
  BY ReplyStepSeats
<1>3. Replied(g, c, n)
  BY <1>1, <1>2, ReplyShape
<1>4. \A h \in Games \ {g} : Filled(game'[h]) \/ Filled(game[h]) => game'[h] = game[h]
  BY <1>3 DEF Replied, Filled
<1>5. CASE ~Filled(game'[g])
  <2>1. Entries' \subseteq Entries
    BY <1>4, <1>5 DEF Entries
  <2> QED BY <2>1 DEF Ready!Next, Ready!Dissolve, Entries, Entry
<1>6. CASE Filled(game'[g]) /\ Filled(game[g])
  <2>1. Claimed(game[g]) = SeatsTotal
    <3>1. Claimed(game[g]) \in Nat
      BY <1>1, TakenFinite DEF Game, Seats
    <3> QED BY <1>6, <3>1 DEF FilledGameIsFull, Full, Seated
  <2>2. Full(game'[g]) /\ game[g].status = "ready" /\ game'[g].window = game[g].window
    BY <1>3, <1>6 DEF Replied, Filled
  <2>3. Players(game'[g]) = Players(game[g])
    BY <1>1, <1>2, <2>1, <2>2, FilledTableKeepsPlayers
  <2>4. Entry(g, game'[g]) = Entry(g, game[g])
    BY <2>2, <2>3 DEF Entry
  <2>5. Entries' \subseteq Entries
    BY <1>4, <1>6, <2>4 DEF Entries
  <2> QED BY <2>5 DEF Ready!Next, Ready!Dissolve, Entries, Entry
<1>7. CASE Filled(game'[g]) /\ ~Filled(game[g])
  <2>1. Unshared(game', g) /\ game' \in [Games -> Game]
    BY <1>3, <1>7 DEF Replied
  <2>2. PICK e : e = Entry(g, game'[g])
    OBVIOUS
  <2>3. e \in Ready!Commitment
    BY <2>1, <2>2 DEF Entry, Ready!Commitment, Game, Players
  <2>4. Entries' = Entries \cup {e}
    BY <1>4, <1>7, <2>2 DEF Entries
  <2>5. ASSUME NEW d \in Entries
        PROVE  d.game # e.game /\ (Ready!Meet(e, d) => d.party \cap e.party = {})
    <3>1. PICK h \in Games : Filled(game[h]) /\ d = Entry(h, game[h])
      BY DEF Entries
    <3>2. h # g /\ game'[h] = game[h]
      BY <1>4, <1>7, <3>1
    <3>3. d.game # e.game
      BY <2>2, <3>1, <3>2 DEF Entry
    <3>4. Ready!Meet(e, d) => Overlap(game'[g].window, game'[h].window)
      BY <2>2, <3>1, <3>2 DEF Ready!Meet, Overlap, Entry
    <3>5. game'[h].status \in Active
      BY <3>1, <3>2 DEF Filled, Active
    <3> QED BY <2>1, <2>2, <3>1, <3>2, <3>3, <3>4, <3>5 DEF Unshared, Entry
  <2>6. Ready!Commit(e)
    BY <2>4, <2>5 DEF Ready!Commit, Entries, Entry
  <2> QED BY <2>3, <2>6 DEF Ready!Next
<1> QED BY <1>5, <1>6, <1>7

\* Filled tables implement the abstract commitments.
THEOREM CommitmentsImplemented == Spec => ImplementsCommitments
<1>1. Init => Ready!Init
  <2>1. ASSUME Init PROVE \A h \in Games : ~Filled(game[h])
    BY <2>1 DEF Init, Filled
  <2>2. ASSUME \A h \in Games : ~Filled(game[h]) PROVE Ready!Init
    BY <2>2 DEF Ready!Init
  <2> QED BY <2>1, <2>2
<1>2. Committed /\ Seated /\ [Next]_vars =>
        Ready!Next \/ UNCHANGED {[game |-> g, party |-> Players(game[g]), window |-> game[g].window] :
                                   g \in {h \in Games : Filled(game[h])}}
  <2> SUFFICES ASSUME Committed, Seated, [Next]_vars, ~ReplyStep PROVE Ready!Next
    BY RepliesCommit
  <2>1. \A h \in Games : Filled(game'[h]) => game'[h] = game[h]
    BY OtherStep DEF Committed, Next
  <2>2. Entries' \subseteq Entries
    BY <2>1 DEF Entries
  <2> QED BY <2>2 DEF Ready!Next, Ready!Dissolve, Entries, Entry
<1>3. Init => Committed /\ Absent /\ Seated
  BY CommittedInit, SeatedInit
<1>4. Committed /\ Absent /\ Seated /\ [Next]_vars => (Committed /\ Absent /\ Seated)'
  <2>1. Committed => TypeOK
    BY DEF Committed
  <2> QED BY <2>1, CommittedStep, AbsentStep, SeatedStep
<1> QED BY <1>1, <1>2, <1>3, <1>4, PTL DEF Spec, ImplementsCommitments, Ready!Spec
===============================================================================
