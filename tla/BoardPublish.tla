----------------------------- MODULE BoardPublish -----------------------------
(***************************************************************************)
(* The board of one managed room: which games it lists under which number, *)
(* how a change of a game gets it published anew, what the room has been   *)
(* shown, and what a number in an answer means (group_chat/board_engine.py,*)
(* board_trigger.py, claim_handler.py, the board side of                   *)
(* stores/sqlite/group_chat.py and of scripts/agent_runtime_app.py).       *)
(*                                                                         *)
(* A publish task is what ScheduledTasks promises of it: processed by the  *)
(* worker that claimed it last, under a lease that may run out; the tasks  *)
(* of the room exclude each other.  Due times are left out: a pending task *)
(* may be claimed at any time.  A game is the seats it has to offer, 0     *)
(* unless it is forming or inviting; wording and order of the list do not  *)
(* change.  The bridge is another process, modelled by its answers.        *)
(***************************************************************************)
EXTENDS Naturals, Sequences, FiniteSets

CONSTANTS
  Games,         \* numbered in the order of game_schedule_sort_key
  Seats,         \* [Games -> Nat]: seats a game offers at most
  Publications,  \* publication_id of the publish tasks, numbered in the order of their creation
  Workers, None,
  MaxAttempts,   \* max_attempts of a task
  MaxChanges,    \* bound: changes of games
  MaxFaults      \* bound: failures, deaths, leases that run out under a live worker

ASSUME BoardAssumption ==
  /\ Games \subseteq Nat /\ IsFiniteSet(Games)
  /\ Publications \subseteq Nat /\ None \notin Workers \cup Publications
  /\ Seats \in [Games -> Nat \ {0}] /\ MaxAttempts \in Nat \ {0}
  /\ {MaxChanges, MaxFaults} \subseteq Nat

VARIABLES
  created,    \* the games that exist; all are linked to the room
  free,       \* [Games -> Nat]: remaining_seats of a game that is forming or inviting, or 0
  owed,       \* tool results whose hook GroupBoardTrigger has not run yet
  task,       \* [Publications -> Task]: the publish tasks of the room
  job,        \* [Workers -> Job]: BoardEngine.publish in progress
  room,       \* the messages of the room that are boards, oldest first
  ledger,     \* ids the bridge has recorded as delivered
  bridge,     \* requests the bridge still works at after their sender gave up
  snapshots,  \* runtime_group_board_snapshots, oldest first
  changes, faults,
  silent,     \* history: a change no refresh was asked for
  late,       \* history: a lease ran out between the guard and the snapshot of a board, or
              \* the bridge said a board after its sender gave up
  reused      \* history: a publication took an older message of the room for its own

games == <<created, free>>
shown == <<room, ledger, bridge, late, reused>>
vars == <<games, owed, task, job, shown, snapshots, changes, faults, silent>>

Boards == Seq([game : Games, free : Nat])
Ids == Publications \X Boards
Messages == [id : Ids, board : Boards]

Task == [status : {"absent", "pending", "processing", "completed", "failed"},
         attempts : Nat, holder : Workers \cup {None}, leased : BOOLEAN]
Steps == {"reading", "review", "sending", "saving", "done"}
Job == [pub : Publications, step : Steps, board : Boards]
Idle == [pub |-> None, step |-> "idle", board |-> <<>>]

\* A tool result on its way to the hook.
Result == [game : Games, tool : {"create_game", "other"}]

TypeOK ==
  /\ created \subseteq Games
  /\ free \in [Games -> Nat] /\ \A g \in Games : free[g] <= Seats[g]
  /\ owed \subseteq Result
  /\ task \in [Publications -> Task]
  /\ job \in [Workers -> Job \cup {Idle}]
  /\ room \in Seq(Messages)
  /\ ledger \subseteq Ids /\ bridge \subseteq Messages
  /\ snapshots \in Seq(Messages)
  /\ changes \in 0..MaxChanges /\ faults \in 0..MaxFaults
  /\ {silent, late, reused} \subseteq BOOLEAN

Init ==
  /\ created = {} /\ free = [g \in Games |-> 0] /\ owed = {}
  /\ task = [p \in Publications |->
               [status |-> "absent", attempts |-> 0, holder |-> None, leased |-> FALSE]]
  /\ job = [w \in Workers |-> Idle]
  /\ room = <<>> /\ ledger = {} /\ bridge = {} /\ snapshots = <<>>
  /\ changes = 0 /\ faults = 0 /\ silent = FALSE
  /\ late = FALSE /\ reused = FALSE

Last(s) == s[Len(s)]

Fault == faults < MaxFaults /\ faults' = faults + 1

----------------------------------------------------------------------------
(* What is on the board.                                                   *)

\* get_board_eligible_games, numbered from 1
Listed == {g \in Games : free[g] > 0}

Number(g) == Cardinality({h \in Listed : h <= g})

Board == [n \in {Number(g) : g \in Listed} |->
            LET g == CHOOSE g \in Listed : Number(g) = n IN [game |-> g, free |-> free[g]]]

\* Variant the properties must reject: the text alone names a version, though two
\* games may read the same.
SnapshotIdOfText(p, board) == <<p, [n \in DOMAIN board |-> [board[n] EXCEPT !.game = 0]]>>

\* snapshot_id: the publication, the text and the game behind each number
SnapshotId(p, board) == <<p, board>>

\* The games at number n of the snapshot of the quoted message, or of the latest one
\* when none is quoted: quoted holds at most one id.
NumberedGames(quoted, n) ==
  LET found == IF quoted = {}
                 THEN {snapshots[i] : i \in {Len(snapshots)} \ {0}}
                 ELSE {snapshots[i] : i \in {i \in DOMAIN snapshots : snapshots[i].id \in quoted}}
  IN  {s.board[n].game : s \in {s \in found : n \in DOMAIN s.board}}

\* Variant the properties must reject: the game is taken as the board showed it.
ResolveItemNoAsShown(quoted, n) == NumberedGames(quoted, n)

\* resolve_item_no: that game, if it still offers a seat.
ResolveItemNo(quoted, n) == NumberedGames(quoted, n) \cap Listed

----------------------------------------------------------------------------
(* Games change, and the board owes the room a refresh.                    *)

Live == {"pending", "processing"}

\* Variant the properties must reject: a publication in progress absorbs the request.
EnsurePublishTaskUnlessLive ==
  IF \E p \in Publications : task[p].status \in Live
    THEN UNCHANGED task
    ELSE \E p \in Publications :
           /\ task[p].status = "absent" /\ \A q \in Publications : q < p => task[q].status # "absent"
           /\ task' = [task EXCEPT ![p].status = "pending"]

\* _ensure_group_board_publish_task_in_transaction: a pending task absorbs the
\* request, a publication in progress has read its games and gets a successor.
EnsurePublishTask ==
  IF \E p \in Publications : task[p].status = "pending"
    THEN UNCHANGED task
    ELSE \E p \in Publications :
           /\ task[p].status = "absent" /\ \A q \in Publications : q < p => task[q].status # "absent"
           /\ task' = [task EXCEPT ![p].status = "pending"]

Change(g, n) ==
  /\ changes < MaxChanges /\ changes' = changes + 1
  /\ free' = [free EXCEPT ![g] = n]
  /\ UNCHANGED <<job, shown, snapshots, faults>>

\* create_game links the game and registers the refresh in its transaction.
CreateGame(g, n) ==
  /\ g \notin created /\ created' = created \cup {g}
  /\ Change(g, n)
  /\ EnsurePublishTask
  /\ owed' = owed \cup {[game |-> g, tool |-> "create_game"]}
  /\ UNCHANGED silent

\* So does a participation deadline that withdraws its customer.
ExecuteParticipationDeadline(g) ==
  /\ free[g] \in 1..(Seats[g] - 1)
  /\ Change(g, free[g] + 1)
  /\ EnsurePublishTask
  /\ UNCHANGED <<created, owed, silent>>

\* Any other tool that changes a game; the hook behind it asks for the refresh.
ChangeGame(g, n) ==
  /\ g \in created /\ n # free[g]
  /\ Change(g, n)
  /\ owed' = owed \cup {[game |-> g, tool |-> "other"]}
  /\ UNCHANGED <<created, task, silent>>

\* A member answers a board, or the latest one, with a number.
ProcessClaim(quoted, n) ==
  \E g \in ResolveItemNo(quoted, n) :
    /\ Change(g, free[g] - 1)
    /\ owed' = owed \cup {[game |-> g, tool |-> "other"]}
    /\ UNCHANGED <<created, task, silent>>

\* _expire_stale_games: nobody tells the board.
ExpireStaleGame(g) ==
  /\ free[g] > 0
  /\ Change(g, 0)
  /\ silent' = TRUE
  /\ UNCHANGED <<created, owed, task>>

\* on_game_event and GroupBoardTrigger.  The result of create_game only fills in
\* what is missing: nothing published of the game, and nothing under way.
AskForRefresh(o) ==
  /\ owed' = owed \ {o}
  /\ IF /\ o.tool = "create_game"
        /\ \/ \E p \in Publications : task[p].status \in Live
           \/ \E n \in 1..Cardinality(Games) : o.game \in NumberedGames({}, n)
       THEN UNCHANGED task
       ELSE EnsurePublishTask
  /\ UNCHANGED <<games, job, shown, snapshots, changes, faults, silent>>

\* The process dies before the hook; a repeated call finds its result remembered
\* and asks for nothing.
LoseResult(o) ==
  /\ Fault
  /\ owed' = owed \ {o}
  /\ silent' = (silent \/ o.tool = "other")
  /\ UNCHANGED <<games, task, job, shown, snapshots, changes>>

----------------------------------------------------------------------------
(* The publishers.                                                         *)

\* What every settlement asks for, the latest claim of the task, and what the
\* guard asks for.
Holds(w) == task[job[w].pub].status = "processing" /\ task[job[w].pub].holder = w
Leased(w) == Holds(w) /\ task[job[w].pub].leased

\* claim_scheduled_task
ClaimPublication(w, p) ==
  /\ job[w] = Idle
  /\ \/ task[p].status = "pending"
     \/ task[p].status = "processing" /\ ~task[p].leased
  /\ \A q \in Publications \ {p} : ~(task[q].status = "processing" /\ task[q].leased)
  /\ task' = [task EXCEPT ![p] = [status |-> "processing", attempts |-> @.attempts + 1,
                                  holder |-> w, leased |-> TRUE]]
  /\ job' = [job EXCEPT ![w] = [pub |-> p, step |-> "reading", board |-> <<>>]]
  /\ UNCHANGED <<games, owed, shown, snapshots, changes, faults, silent>>

Goto(w, step) == job' = [job EXCEPT ![w].step = step]

Saved(id) == \E i \in DOMAIN snapshots : snapshots[i].id = id

\* publish up to the transport: an empty board and a version that has its
\* snapshot are not sent.
ReadGames(w) ==
  /\ job[w].step = "reading"
  /\ LET id == SnapshotId(job[w].pub, Board)
     IN /\ job' = [job EXCEPT ![w].board = Board,
                              ![w].step = IF Board = <<>> \/ Saved(id) THEN "done" ELSE "review"]
        /\ reused' = (reused \/ (Saved(id) /\ id # Last(room).id))
  /\ UNCHANGED <<games, owed, task, room, ledger, bridge, late, snapshots, changes, faults, silent>>

\* Variant the properties must reject: the claim is not verified before the board
\* is sent.
PassGuardUnverified(w) ==
  /\ job[w].step = "review"
  /\ Goto(w, "sending")
  /\ UNCHANGED <<games, owed, task, shown, snapshots, changes, faults, silent>>

\* The review approves, the room still wants boards and verify_publication_claim
\* finds the claim current and its lease not run out.
PassGuard(w) ==
  /\ job[w].step = "review"
  /\ Leased(w)
  /\ Goto(w, "sending")
  /\ UNCHANGED <<games, owed, task, shown, snapshots, changes, faults, silent>>

Message(w) == [id |-> SnapshotId(job[w].pub, job[w].board), board |-> job[w].board]

\* /send of the bridge: what its ledger holds is acknowledged and not said again.
Send(w) ==
  /\ job[w].step = "sending"
  /\ IF Message(w).id \in ledger
       THEN /\ reused' = (reused \/ Message(w).id # Last(room).id)
            /\ UNCHANGED <<room, ledger>>
       ELSE /\ room' = Append(room, Message(w))
            /\ ledger' = ledger \cup {Message(w).id}
            /\ UNCHANGED reused
  /\ Goto(w, "saving")
  /\ UNCHANGED <<games, owed, task, bridge, late, snapshots, changes, faults, silent>>

SaveBoardSnapshot(w) ==
  /\ job[w].step = "saving" /\ ~Saved(Message(w).id)
  /\ snapshots' = Append(snapshots, Message(w))
  /\ Goto(w, "done")
  /\ UNCHANGED <<games, owed, task, shown, changes, faults, silent>>

\* Variant the properties must reject: whoever worked at the task settles it.
SettleAlways(w, status, attempts) ==
  /\ job' = [job EXCEPT ![w] = Idle]
  /\ task' = [task EXCEPT ![job[w].pub] = [status |-> status, attempts |-> attempts,
                                          holder |-> None, leased |-> FALSE]]
  /\ UNCHANGED <<games, owed, snapshots, changes, silent>>

\* A settlement is ignored once the task was claimed by another worker.
Settle(w, status, attempts) ==
  /\ job' = [job EXCEPT ![w] = Idle]
  /\ task' = IF Holds(w)
               THEN [task EXCEPT ![job[w].pub] = [status |-> status, attempts |-> attempts,
                                                  holder |-> None, leased |-> FALSE]]
               ELSE task
  /\ UNCHANGED <<games, owed, snapshots, changes, silent>>

CompletePublication(w) ==
  /\ job[w].step = "done"
  /\ Settle(w, "completed", task[job[w].pub].attempts)
  /\ UNCHANGED <<shown, faults>>

\* An exception of the handler ends in fail_scheduled_task.
Raise(w) == Settle(w, IF task[job[w].pub].attempts >= MaxAttempts THEN "failed" ELSE "pending",
                   task[job[w].pub].attempts)

\* The guard refuses, or the snapshot of this version is there already.
RefusePublication(w) ==
  /\ \/ job[w].step = "review" /\ ~Leased(w)
     \/ job[w].step = "saving" /\ Saved(Message(w).id)
  /\ Raise(w)
  /\ UNCHANGED <<shown, faults>>

\* The review rejects, the bridge is down or refuses, or the snapshot is not saved.
FailPublication(w) ==
  /\ job[w].step \in {"review", "sending", "saving"} /\ Fault
  /\ Raise(w)
  /\ UNCHANGED shown

\* The bridge does not answer in time; its request goes on.
TimeOut(w) ==
  /\ job[w].step = "sending" /\ Message(w).id \notin ledger /\ Fault
  /\ bridge' = bridge \cup {Message(w)}
  /\ Raise(w)
  /\ UNCHANGED <<room, ledger, late, reused>>

SayLate(m) ==
  /\ m \in bridge /\ bridge' = bridge \ {m}
  /\ room' = Append(room, m)
  /\ ledger' = ledger \cup {m.id}
  /\ late' = TRUE
  /\ UNCHANGED <<games, owed, task, job, reused, snapshots, changes, faults, silent>>

\* The room's policy or the bridge's switch is off: the attempt is given back.
DeferPublication(w) ==
  /\ job[w].step \in {"reading", "review"} /\ Fault
  /\ Settle(w, "pending", task[job[w].pub].attempts - 1)
  /\ UNCHANGED shown

\* The worker's process dies; its task stays as it is until its lease runs out.
Crash(w) ==
  /\ job[w] # Idle /\ Fault
  /\ job' = [job EXCEPT ![w] = Idle]
  /\ UNCHANGED <<games, owed, task, shown, snapshots, changes, silent>>

Abandoned(p) == \A w \in Workers : job[w].pub = p => task[p].holder # w

LeaseRunsOut(p) ==
  /\ task[p].status = "processing" /\ task[p].leased
  /\ \/ Abandoned(p) /\ UNCHANGED faults
     \/ ~Abandoned(p) /\ Fault
  /\ task' = [task EXCEPT ![p].leased = FALSE]
  /\ late' = (late \/ \E w \in Workers : /\ job[w].pub = p /\ task[p].holder = w
                                         /\ job[w].step \in {"sending", "saving"})
  /\ UNCHANGED <<games, owed, job, room, ledger, bridge, reused, snapshots, changes, silent>>

----------------------------------------------------------------------------
GameStep ==
  \/ \E n \in 1..Cardinality(Games), quoted \in {{}} \cup {{room[i].id} : i \in DOMAIN room} :
       ProcessClaim(quoted, n)
  \/ \E g \in Games :
       \/ \E n \in 1..Seats[g] : CreateGame(g, n)
       \/ \E n \in 0..Seats[g] : ChangeGame(g, n)
       \/ ExecuteParticipationDeadline(g) \/ ExpireStaleGame(g)

HookStep == \E o \in owed : AskForRefresh(o) \/ LoseResult(o)

Work(w) ==
  \/ \E p \in Publications : ClaimPublication(w, p)
  \/ ReadGames(w) \/ PassGuard(w) \/ Send(w) \/ SaveBoardSnapshot(w) \/ CompletePublication(w)
  \/ RefusePublication(w)

Faulty(w) == FailPublication(w) \/ TimeOut(w) \/ DeferPublication(w) \/ Crash(w)

Next ==
  \/ GameStep
  \/ HookStep
  \/ \E w \in Workers : Work(w) \/ Faulty(w)
  \/ \E m \in bridge : SayLate(m)
  \/ \E p \in Publications : LeaseRunsOut(p)

Spec == Init /\ [][Next]_vars

\* Hooks run, schedulers poll for ever and go on with what they claimed, and the
\* lease of a worker that is gone runs out.  None of it goes on for ever by itself,
\* so that one of them is enough to ask for; games need not change again.
Fairness ==
  WF_vars(\/ \E o \in owed : AskForRefresh(o)
          \/ \E w \in Workers : Work(w)
          \/ \E p \in Publications : Abandoned(p) /\ LeaseRunsOut(p))

FairSpec == Spec /\ Fairness

----------------------------------------------------------------------------
(* Properties.                                                             *)

\* Who answers a board with a number joins the game that board showed under it,
\* however many boards, retries and crashes came in between, or nothing.
QuotedNumberMeansItsGame ==
  \A i \in DOMAIN room : \A n \in 1..Cardinality(Games) :
    \A g \in ResolveItemNo({room[i].id}, n) : n \in DOMAIN room[i].board /\ room[i].board[n].game = g

\* What is published in the end: the room's last board lists the games as they
\* are, and a number without a quote means that board.
UpToDate ==
  /\ room # <<>> /\ Last(room).board = Board
  /\ snapshots # <<>> /\ Last(snapshots).id = Last(room).id

\* A number without a quote means the board the room saw last, once that board has
\* its snapshot, whichever worker of whichever publication saved it.
UnquotedNumberMeansLastBoard ==
  room # <<>> /\ Saved(Last(room).id) /\ ~late /\ ~reused => Last(snapshots).id = Last(room).id

\* What a room is not told in the end is excused: no refresh was asked for, a
\* publication failed for good or took an older message for its own, or a board was
\* sent or saved late.
Excused == silent \/ late \/ reused \/ \E p \in Publications : task[p].status = "failed"

\* A refresh is asked for, or will be.
Owed == (\E o \in owed : o.tool = "other") \/ \E p \in Publications : task[p].status = "pending"

\* The publication in progress will list the games as they are: it reads them anew,
\* by its worker or by the next one, or has read them as they are now.
Pursued(p) ==
  /\ task[p].status = "processing"
  /\ \/ Abandoned(p)
     \/ \E w \in Workers :
          /\ job[w].pub = p /\ task[p].holder = w
          /\ \/ job[w].step = "reading"
             \/ job[w].step = "review" /\ ~task[p].leased
             \/ job[w].step \in {"review", "sending", "saving"} /\ job[w].board = Board

\* No change of a game is forgotten: the room sees the games as they are, or
\* somebody is still going to tell it.
NoChangeIsForgotten ==
  Board = <<>> \/ Excused \/ UpToDate \/ Owed \/ \E p \in Publications : Pursued(p)

\* However games change while boards are being published, in the end the room sees
\* the games as they are: unless no game is left to list, no refresh was asked for,
\* a publication failed for good or took an older message for its own, or a board
\* was sent or saved late.
BoardSettles == <>[](Board = <<>> \/ Excused \/ UpToDate)

Phase(status) ==
  CASE status = "absent" -> "absent" [] status = "pending" -> "open"
    [] status = "processing" -> "held" [] OTHER -> "closed"

Owner(p) == IF task[p].status = "processing" /\ ~Abandoned(p) THEN task[p].holder ELSE None

Publishing == INSTANCE LeasedWork WITH
  Tasks <- Publications,
  phase <- [p \in Publications |-> Phase(task[p].status)],
  owner <- [p \in Publications |-> Owner(p)],
  job <- [w \in Workers |-> job[w].pub]

\* The publish tasks are work as the durable scheduler promises it: whatever else
\* happens to boards and games, a publication is settled by its last claim.
ImplementsLeasedWork == Publishing!Spec
===============================================================================
