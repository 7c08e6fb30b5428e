-------------------------- MODULE BoardPublish_proofs --------------------------
(***************************************************************************)
(* A quoted number means the game its board showed, for any number of      *)
(* games, publications and workers.  The invariant behind it is that a     *)
(* version names its board, wherever it is kept: in the room, among the    *)
(* snapshots, in the bridge.                                               *)
(***************************************************************************)
EXTENDS BoardPublish, FiniteSetTheorems, SequenceTheorems, TLAPS

Jobs == Job \cup {Idle}

Typed ==
  /\ created \subseteq Games
  /\ free \in [Games -> Nat] /\ \A g \in Games : free[g] <= Seats[g]
  /\ job \in [Workers -> Jobs]
  /\ room \in Seq(Messages) /\ snapshots \in Seq(Messages)
  /\ bridge \subseteq Messages

\* A version is named by the board it shows.
Named ==
  /\ \A i \in DOMAIN room : room[i].id[2] = room[i].board
  /\ \A i \in DOMAIN snapshots : snapshots[i].id[2] = snapshots[i].board
  /\ \A m \in bridge : m.id[2] = m.board

BoardInv == Typed /\ Named

----------------------------------------------------------------------------
(* The board of the moment.                                                *)

\* The games a game is numbered after, and itself.
UpTo(g) == {h \in Listed : h <= g}

LEMMA ListedFinite == IsFiniteSet(Listed) /\ Cardinality(Listed) \in Nat
<1>1. Listed \subseteq Games /\ IsFiniteSet(Games)
  BY BoardAssumption DEF Listed
<1> QED BY <1>1, FS_Subset, FS_CardinalityType

\* Numbers start at 1 and do not exceed the games listed.
LEMMA NumberRange ==
  ASSUME NEW g \in Listed
  PROVE  Number(g) \in 1..Cardinality(Listed)
<1>1. UpTo(g) \subseteq Listed /\ g \in UpTo(g)
  BY BoardAssumption DEF UpTo, Listed
<1>2. IsFiniteSet(UpTo(g)) /\ Cardinality(UpTo(g)) <= Cardinality(Listed)
  BY <1>1, ListedFinite, FS_Subset
<1>3. Cardinality(UpTo(g)) \in Nat /\ Cardinality(UpTo(g)) # 0
  BY <1>1, <1>2, FS_CardinalityType, FS_EmptySet
<1> QED BY <1>2, <1>3, ListedFinite DEF Number, UpTo

\* No two listed games have the same number.
LEMMA NumberInjective ==
  ASSUME NEW g \in Listed, NEW h \in Listed, Number(g) = Number(h)
  PROVE  g = h
<1>1. ASSUME NEW i \in Listed, NEW j \in Listed, i < j PROVE Number(i) # Number(j)
  <2>1. i \in Nat /\ j \in Nat /\ Listed \subseteq Nat
    BY BoardAssumption DEF Listed
  <2>2. j \in UpTo(j) /\ j \notin UpTo(i) /\ UpTo(j) \subseteq Listed
    BY <1>1, <2>1 DEF UpTo
  <2>3. UpTo(i) \subseteq UpTo(j)
    <3> SUFFICES ASSUME NEW k \in Listed, k <= i PROVE k <= j
      BY DEF UpTo
    <3>1. k \in Nat
      BY <2>1
    <3> QED BY <1>1, <2>1, <3>1
  <2>4. IsFiniteSet(UpTo(j))
    BY <2>2, ListedFinite, FS_Subset
  <2>5. Cardinality(UpTo(i)) # Cardinality(UpTo(j))
    BY <2>2, <2>3, <2>4, FS_Subset
  <2> QED BY <2>5 DEF Number, UpTo
<1>2. g \in Nat /\ h \in Nat
  BY BoardAssumption DEF Listed
<1>3. ~(g < h) /\ ~(h < g)
  BY <1>1
<1> QED BY <1>2, <1>3

\* The numbers of the board are 1, 2, ... without a gap, so that a board is a sequence.
LEMMA NumbersFill == {Number(g) : g \in Listed} = 1..Cardinality(Listed)
<1> DEFINE number == [g \in Listed |-> Number(g)]
           last == Cardinality(Listed)
<1>1. last \in Nat
  BY ListedFinite
<1>2. IsFiniteSet(1..last) /\ Cardinality(1..last) = last
  <2>1. 1 \in Int /\ last \in Int
    BY <1>1
  <2>2. IsFiniteSet(1..last) /\ Cardinality(1..last) = IF 1 > last THEN 0 ELSE last - 1 + 1
    BY <2>1, FS_Interval
  <2> QED BY <1>1, <2>2
<1>3. number \in [Listed -> 1..last]
  BY NumberRange
<1>4. \A g, h \in Listed : number[g] = number[h] => g = h
  BY NumberInjective
<1>5. number \in Injection(Listed, 1..last)
  BY <1>3, <1>4 DEF Injection, IsInjective
<1>6. number \in Surjection(Listed, 1..last)
  BY <1>2, <1>5, FS_Injection
<1>7. \A n \in 1..last : \E g \in Listed : number[g] = n
  BY <1>6 DEF Surjection
<1> QED BY <1>3, <1>7

LEMMA BoardType ==
  ASSUME free \in [Games -> Nat]
  PROVE  Board \in Boards
<1> DEFINE numbers == {Number(g) : g \in Listed}
           chosen(n) == CHOOSE g \in Listed : Number(g) = n
<1>1. ASSUME NEW n \in numbers PROVE chosen(n) \in Games
  <2>1. \E g \in Listed : Number(g) = n
    OBVIOUS
  <2>2. chosen(n) \in Listed
    BY <2>1
  <2> QED BY <2>2 DEF Listed
<1>2. \A n \in numbers : [game |-> chosen(n), free |-> free[chosen(n)]] \in [game : Games, free : Nat]
  BY <1>1
<1>3. Board = [n \in numbers |-> [game |-> chosen(n), free |-> free[chosen(n)]]]
  BY DEF Board
<1> HIDE DEF numbers, chosen
<1>4. Board \in [numbers -> [game : Games, free : Nat]]
  BY <1>2, <1>3
<1>5. numbers = 1..Cardinality(Listed) /\ Cardinality(Listed) \in Nat
  BY NumbersFill, ListedFinite DEF numbers
<1>6. PICK n \in Nat : n = Cardinality(Listed)
  BY <1>5
<1>7. PICK entries : entries = [game : Games, free : Nat]
  OBVIOUS
<1>8. Board \in [1..n -> entries]
  BY <1>4, <1>5, <1>6, <1>7
<1>9. Board \in Seq(entries)
  BY <1>8, SeqDef
<1> QED BY <1>7, <1>9 DEF Boards

\* Without games the board is empty.
LEMMA EmptyBoard ==
  ASSUME Listed = {}
  PROVE  Board = <<>>
<1>1. Board = [n \in {} |-> LET g == CHOOSE g \in Listed : Number(g) = n IN [game |-> g, free |-> free[g]]]
  BY DEF Board
<1>2. DOMAIN Board = {} /\ DOMAIN <<>> = {}
  BY <1>1
<1> QED BY <1>1, <1>2

\* What a worker is about to send or save is a version named by its board.
LEMMA MessageNamed ==
  ASSUME Typed, NEW w \in Workers, job[w].step \in Steps
  PROVE  Message(w) \in Messages /\ Message(w).id[2] = Message(w).board
<1>1. job[w] \in Jobs
  BY DEF Typed
<1>2. job[w] # Idle
  BY DEF Idle, Steps
<1>3. job[w].pub \in Publications /\ job[w].board \in Boards
  BY <1>1, <1>2 DEF Jobs, Job
<1> QED BY <1>3 DEF Message, SnapshotId, Messages, Ids

----------------------------------------------------------------------------
(* The invariant.                                                          *)

LEMMA InvInit == Init => BoardInv
<1> SUFFICES ASSUME Init PROVE BoardInv
  OBVIOUS
<1>1. Typed
  <2>1. \A g \in Games : 0 <= Seats[g]
    BY BoardAssumption
  <2>2. Idle \in Jobs
    BY DEF Jobs
  <2> QED BY <2>1, <2>2 DEF Init, Typed
<1>2. Named
  BY DEF Init, Named
<1> QED BY <1>1, <1>2 DEF BoardInv

\* A sequence of named versions stays one when a named version is appended.
LEMMA AppendNamed ==
  ASSUME NEW s \in Seq(Messages), NEW m \in Messages,
         \A i \in DOMAIN s : s[i].id[2] = s[i].board, m.id[2] = m.board
  PROVE  /\ Append(s, m) \in Seq(Messages)
         /\ \A i \in DOMAIN Append(s, m) : Append(s, m)[i].id[2] = Append(s, m)[i].board
OBVIOUS

\* A worker ends its job, or goes on with it.
LEMMA JobEnds ==
  ASSUME Typed, NEW w \in Workers, job' = [job EXCEPT ![w] = Idle]
  PROVE  job' \in [Workers -> Jobs]
BY DEF Typed, Jobs, Job

LEMMA JobGoesOn ==
  ASSUME Typed, NEW w \in Workers, NEW step \in Steps, job[w].step \in Steps, Goto(w, step)
  PROVE  job' \in [Workers -> Jobs]
<1>1. job[w] \in Jobs /\ job[w] # Idle
  BY DEF Typed, Idle, Steps
<1>2. [job[w] EXCEPT !.step = step] \in Jobs
  BY <1>1 DEF Jobs, Job
<1> QED BY <1>2 DEF Goto, Typed

\* Changes of games leave the versions and the jobs alone.
LEMMA GameKeeps ==
  ASSUME BoardInv, GameStep
  PROVE  BoardInv'
<1>1. UNCHANGED <<job, room, bridge, snapshots>>
  BY DEF GameStep, CreateGame, ExecuteParticipationDeadline, ChangeGame, ProcessClaim,
         ExpireStaleGame, Change, shown
<1> DEFINE GamesTyped == /\ created' \subseteq Games /\ free' \in [Games -> Nat]
                         /\ \A g \in Games : free'[g] <= Seats[g]
<1>2. GamesTyped
  <2> USE DEF BoardInv, Typed
  <2>1. \A g \in Games : Seats[g] \in Nat
    BY BoardAssumption
  <2>2. ASSUME NEW n, NEW quoted, ProcessClaim(quoted, n) PROVE GamesTyped
    <3>1. PICK g \in ResolveItemNo(quoted, n) : Change(g, free[g] - 1) /\ UNCHANGED created
      BY <2>2 DEF ProcessClaim
    <3>2. g \in Games /\ free[g] > 0
      BY DEF ResolveItemNo, Listed
    <3>3. free[g] - 1 \in Nat /\ free[g] - 1 <= Seats[g]
      BY <2>1, <3>2
    <3> QED BY <3>1, <3>2, <3>3 DEF Change
  <2>3. ASSUME NEW g \in Games, NEW n \in 1..Seats[g], CreateGame(g, n)
        PROVE  GamesTyped
    BY <2>1, <2>3 DEF CreateGame, Change
  <2>4. ASSUME NEW g \in Games, NEW n \in 0..Seats[g], ChangeGame(g, n)
        PROVE  GamesTyped
    BY <2>1, <2>4 DEF ChangeGame, Change
  <2>5. ASSUME NEW g \in Games, ExecuteParticipationDeadline(g)
        PROVE  GamesTyped
    BY <2>1, <2>5 DEF ExecuteParticipationDeadline, Change
  <2>6. ASSUME NEW g \in Games, ExpireStaleGame(g)
        PROVE  GamesTyped
    BY <2>1, <2>6 DEF ExpireStaleGame, Change
  <2> QED BY <2>2, <2>3, <2>4, <2>5, <2>6 DEF GameStep
<1> QED BY <1>1, <1>2 DEF BoardInv, Typed, Named

\* What a worker does to the versions: it appends its own, or hands it to the bridge.
LEMMA WorkKeeps ==
  ASSUME BoardInv, NEW w \in Workers, Work(w) \/ Faulty(w)
  PROVE  BoardInv'
<1>1. UNCHANGED games
  BY DEF Work, ClaimPublication, ReadGames, PassGuard, Send, SaveBoardSnapshot, CompletePublication,
         RefusePublication, Faulty, FailPublication, TimeOut, DeferPublication, Crash, Raise, Settle
<1>2. ASSUME NEW p \in Publications, ClaimPublication(w, p) PROVE BoardInv'
  <2>1. [pub |-> p, step |-> "reading", board |-> <<>>] \in Jobs
    <3>1. <<>> \in Boards
      BY DEF Boards
    <3> QED BY <3>1 DEF Jobs, Job, Steps
  <2>2. job' \in [Workers -> Jobs]
    BY <1>2, <2>1 DEF ClaimPublication, BoardInv, Typed
  <2>3. UNCHANGED <<room, bridge, snapshots>>
    BY <1>2 DEF ClaimPublication, shown
  <2> QED BY <1>1, <2>2, <2>3 DEF BoardInv, Typed, Named, games
<1>3. CASE ReadGames(w)
  <2>1. Board \in Boards
    BY BoardType DEF BoardInv, Typed
  <2>2. PICK step \in {"done", "review"} : job' = [job EXCEPT ![w].board = Board, ![w].step = step]
    BY <1>3 DEF ReadGames
  <2>3. job[w] \in Jobs /\ job[w] # Idle
    BY <1>3 DEF ReadGames, BoardInv, Typed, Idle
  <2>4. [job[w] EXCEPT !.board = Board, !.step = step] \in Jobs
    BY <2>1, <2>3 DEF Jobs, Job, Steps
  <2>5. job' \in [Workers -> Jobs]
    BY <2>2, <2>4 DEF BoardInv, Typed
  <2>6. UNCHANGED <<room, bridge, snapshots>>
    BY <1>3 DEF ReadGames
  <2> QED BY <1>1, <2>5, <2>6 DEF BoardInv, Typed, Named, games
<1>4. CASE PassGuard(w)
  <2>1. job' \in [Workers -> Jobs]
    BY <1>4, JobGoesOn DEF PassGuard, BoardInv, Steps
  <2>2. UNCHANGED <<room, bridge, snapshots>>
    BY <1>4 DEF PassGuard, shown
  <2> QED BY <1>1, <2>1, <2>2 DEF BoardInv, Typed, Named, games
<1>5. CASE Send(w)
  <2>1. Typed /\ job[w].step = "sending" /\ Goto(w, "saving") /\ UNCHANGED <<bridge, snapshots>>
    BY <1>5 DEF Send, BoardInv
  <2>2. job' \in [Workers -> Jobs]
    BY <2>1, JobGoesOn DEF Steps
  <2>3. Message(w) \in Messages /\ Message(w).id[2] = Message(w).board
    BY <2>1, MessageNamed DEF Steps
  <2>4. UNCHANGED room \/ room' = Append(room, Message(w))
    BY <1>5 DEF Send
  <2>5. room \in Seq(Messages) /\ \A i \in DOMAIN room : room[i].id[2] = room[i].board
    BY DEF BoardInv, Typed, Named
  <2>6. room' \in Seq(Messages) /\ \A i \in DOMAIN room' : room'[i].id[2] = room'[i].board
    <3>1. CASE UNCHANGED room
      BY <2>5, <3>1
    <3>2. CASE room' = Append(room, Message(w))
      BY <2>3, <2>5, <3>2, AppendNamed
    <3> QED BY <2>4, <3>1, <3>2
  <2> QED BY <1>1, <2>1, <2>2, <2>6 DEF BoardInv, Typed, Named, games
<1>6. CASE SaveBoardSnapshot(w)
  <2>1. /\ Typed /\ job[w].step = "saving" /\ Goto(w, "done") /\ UNCHANGED <<room, bridge>>
        /\ snapshots' = Append(snapshots, Message(w))
    BY <1>6 DEF SaveBoardSnapshot, BoardInv, shown
  <2>2. job' \in [Workers -> Jobs]
    BY <2>1, JobGoesOn DEF Steps
  <2>3. Message(w) \in Messages /\ Message(w).id[2] = Message(w).board
    BY <2>1, MessageNamed DEF Steps
  <2>4. snapshots' \in Seq(Messages) /\ \A i \in DOMAIN snapshots' : snapshots'[i].id[2] = snapshots'[i].board
    BY <2>1, <2>3, AppendNamed DEF BoardInv, Typed, Named
  <2> QED BY <1>1, <2>1, <2>2, <2>4 DEF BoardInv, Typed, Named, games
<1>7. CASE TimeOut(w)
  <2>1. /\ Typed /\ job[w].step = "sending" /\ UNCHANGED <<room, snapshots>>
        /\ bridge' = bridge \cup {Message(w)} /\ job' = [job EXCEPT ![w] = Idle]
    BY <1>7 DEF TimeOut, Raise, Settle, BoardInv
  <2>2. Message(w) \in Messages /\ Message(w).id[2] = Message(w).board
    BY <2>1, MessageNamed DEF Steps
  <2>3. job' \in [Workers -> Jobs]
    BY <2>1, JobEnds
  <2> QED BY <1>1, <2>1, <2>2, <2>3 DEF BoardInv, Typed, Named, games
<1>8. CASE \/ CompletePublication(w) \/ RefusePublication(w) \/ FailPublication(w)
           \/ DeferPublication(w) \/ Crash(w)
  <2>1. job' = [job EXCEPT ![w] = Idle] /\ UNCHANGED <<room, bridge, snapshots>>
    BY <1>8 DEF CompletePublication, RefusePublication, FailPublication, DeferPublication, Crash,
                Raise, Settle, shown
  <2>2. job' \in [Workers -> Jobs]
    BY <2>1, JobEnds DEF BoardInv
  <2> QED BY <1>1, <2>1, <2>2 DEF BoardInv, Typed, Named, games
<1> QED BY <1>2, <1>3, <1>4, <1>5, <1>6, <1>7, <1>8 DEF Work, Faulty

LEMMA InvStep == BoardInv /\ [Next]_vars => BoardInv'
<1> SUFFICES ASSUME BoardInv, [Next]_vars PROVE BoardInv'
  OBVIOUS
<1>1. CASE GameStep
  BY <1>1, GameKeeps
<1>2. CASE HookStep
  <2>1. UNCHANGED <<games, job, room, bridge, snapshots>>
    BY <1>2 DEF HookStep, AskForRefresh, LoseResult, shown
  <2> QED BY <2>1 DEF BoardInv, Typed, Named, games
<1>3. ASSUME NEW w \in Workers, Work(w) \/ Faulty(w) PROVE BoardInv'
  BY <1>3, WorkKeeps
<1>4. ASSUME NEW m \in bridge, SayLate(m) PROVE BoardInv'
  <2>1. m \in Messages /\ m.id[2] = m.board
    BY DEF BoardInv, Typed, Named
  <2>2. room' \in Seq(Messages) /\ \A i \in DOMAIN room' : room'[i].id[2] = room'[i].board
    BY <1>4, <2>1, AppendNamed DEF SayLate, BoardInv, Typed, Named
  <2>3. UNCHANGED <<games, job, snapshots>> /\ bridge' \subseteq bridge
    BY <1>4 DEF SayLate
  <2> QED BY <2>2, <2>3 DEF BoardInv, Typed, Named, games
<1>5. ASSUME NEW p \in Publications, LeaseRunsOut(p) PROVE BoardInv'
  <2>1. UNCHANGED <<games, job, room, bridge, snapshots>>
    BY <1>5 DEF LeaseRunsOut
  <2> QED BY <2>1 DEF BoardInv, Typed, Named, games
<1>6. CASE UNCHANGED vars
  BY <1>6 DEF vars, games, shown, BoardInv, Typed, Named
<1> QED BY <1>1, <1>2, <1>3, <1>4, <1>5, <1>6 DEF Next

----------------------------------------------------------------------------
(* The publish tasks and what is counted.                                  *)

\* A task that was claimed has used an attempt, which a deferral gives back.
Attempted == \A p \in Publications : task[p].status = "processing" => task[p].attempts > 0

TableTyped ==
  /\ owed \subseteq Result
  /\ task \in [Publications -> Task] /\ Attempted
  /\ ledger \subseteq Ids
  /\ changes \in 0..MaxChanges /\ faults \in 0..MaxFaults
  /\ silent \in BOOLEAN /\ late \in BOOLEAN /\ reused \in BOOLEAN

\* Registering a refresh changes one absent task at most, to pending.
LEMMA EnsureShape ==
  ASSUME TableTyped, EnsurePublishTask
  PROVE  \/ UNCHANGED task
         \/ \E p \in Publications : /\ task[p].status = "absent"
                                    /\ task' = [task EXCEPT ![p].status = "pending"]
BY DEF EnsurePublishTask

LEMMA EnsureTyped ==
  ASSUME TableTyped, EnsurePublishTask
  PROVE  task' \in [Publications -> Task] /\ Attempted'
<1>1. CASE UNCHANGED task
  BY <1>1 DEF TableTyped, Attempted
<1>2. ASSUME NEW p \in Publications, task' = [task EXCEPT ![p].status = "pending"]
      PROVE  task' \in [Publications -> Task] /\ Attempted'
  <2>1. PICK t : t = [task[p] EXCEPT !.status = "pending"]
    OBVIOUS
  <2>2. t \in Task /\ t.status = "pending"
    BY <2>1 DEF TableTyped, Task
  <2>3. task' = [task EXCEPT ![p] = t]
    BY <1>2, <2>1
  <2> QED BY <2>2, <2>3 DEF TableTyped, Attempted
<1> QED BY <1>1, <1>2, EnsureShape

\* A settlement writes the task it holds, to pending or to an end, or nothing.
LEMMA SettleShape ==
  ASSUME NEW w \in Workers, NEW status, NEW attempts, Settle(w, status, attempts)
  PROVE  /\ job' = [job EXCEPT ![w] = Idle]
         /\ UNCHANGED <<games, owed, snapshots, changes, silent>>
         /\ \/ ~Holds(w) /\ UNCHANGED task
            \/ /\ Holds(w)
               /\ task' = [task EXCEPT ![job[w].pub] = [status |-> status, attempts |-> attempts,
                                                       holder |-> None, leased |-> FALSE]]
BY DEF Settle

LEMMA SettleTyped ==
  ASSUME Typed, TableTyped, NEW w \in Workers, job[w].step \in Steps,
         NEW status \in {"pending", "completed", "failed"}, NEW attempts,
         Holds(w) => attempts \in Nat, Settle(w, status, attempts)
  PROVE  task' \in [Publications -> Task] /\ Attempted'
<1>1. CASE UNCHANGED task
  BY <1>1 DEF TableTyped, Attempted
<1>2. CASE Holds(w) /\ task' = [task EXCEPT ![job[w].pub] = [status |-> status, attempts |-> attempts,
                                                            holder |-> None, leased |-> FALSE]]
  <2>1. PICK t : t = [status |-> status, attempts |-> attempts, holder |-> None, leased |-> FALSE]
    OBVIOUS
  <2>2. t \in Task /\ t.status # "processing"
    BY <1>2, <2>1 DEF Task
  <2>3. task' = [task EXCEPT ![job[w].pub] = t]
    BY <1>2, <2>1
  <2> QED BY <2>2, <2>3 DEF TableTyped, Attempted
<1> QED BY <1>1, <1>2, SettleShape

\* A worker at a step has a publication.
LEMMA JobOf ==
  ASSUME Typed, NEW w \in Workers, job[w].step \in Steps
  PROVE  job[w] \in Job /\ job[w] # Idle /\ job[w].pub \in Publications
BY DEF Typed, Jobs, Job, Idle, Steps

LEMMA FaultCounts ==
  ASSUME TableTyped, Fault
  PROVE  faults' \in 0..MaxFaults
<1>1. MaxFaults \in Nat
  BY BoardAssumption
<1> QED BY <1>1 DEF TableTyped, Fault

LEMMA TableGame ==
  ASSUME Typed, TableTyped, GameStep
  PROVE  TableTyped'
<1>1. /\ UNCHANGED <<job, shown, snapshots, faults>>
      /\ changes < MaxChanges /\ changes' = changes + 1
      /\ silent' \in {silent, TRUE}
      /\ UNCHANGED task \/ EnsurePublishTask
  BY DEF GameStep, CreateGame, ExecuteParticipationDeadline, ChangeGame, ProcessClaim,
         ExpireStaleGame, Change
<1>2. changes' \in 0..MaxChanges
  BY <1>1, BoardAssumption DEF TableTyped
<1>3. owed' \subseteq Result
  <2>1. owed' = owed \/ \E g \in Games, tool \in {"create_game", "other"} : owed' = owed \cup {[game |-> g, tool |-> tool]}
    BY DEF GameStep, CreateGame, ExecuteParticipationDeadline, ChangeGame, ProcessClaim,
           ExpireStaleGame, ResolveItemNo, Listed
  <2> QED BY <2>1 DEF Result, TableTyped
<1>4. task' \in [Publications -> Task] /\ Attempted'
  BY <1>1, EnsureTyped DEF TableTyped, Attempted
<1> QED BY <1>1, <1>2, <1>3, <1>4 DEF TableTyped, shown

LEMMA TableWork ==
  ASSUME Typed, TableTyped, NEW w \in Workers, Work(w) \/ Faulty(w)
  PROVE  TableTyped'
<1> USE BoardAssumption
<1>1. ASSUME NEW p \in Publications, ClaimPublication(w, p) PROVE TableTyped'
  <2>1. PICK t : /\ t = [status |-> "processing", attempts |-> task[p].attempts + 1, holder |-> w, leased |-> TRUE]
                 /\ task' = [task EXCEPT ![p] = t]
    BY <1>1 DEF ClaimPublication
  <2>2. t \in Task /\ t.attempts > 0
    <3>1. PICK n \in Nat : n = task[p].attempts
      BY DEF TableTyped, Task
    <3>2. t = [status |-> "processing", attempts |-> n + 1, holder |-> w, leased |-> TRUE]
      BY <2>1, <3>1
    <3> QED BY <3>2 DEF Task
  <2>3. task' \in [Publications -> Task] /\ Attempted'
    BY <2>1, <2>2 DEF TableTyped, Attempted
  <2>4. UNCHANGED <<owed, shown, changes, faults, silent>>
    BY <1>1 DEF ClaimPublication
  <2> QED BY <2>3, <2>4 DEF TableTyped, shown
<1>2. CASE ReadGames(w) \/ PassGuard(w) \/ SaveBoardSnapshot(w)
  <2>1. /\ UNCHANGED <<owed, task, ledger, late, changes, faults, silent>>
        /\ reused' = reused \/ reused' \in BOOLEAN
    BY <1>2 DEF ReadGames, PassGuard, SaveBoardSnapshot, shown
  <2> QED BY <2>1 DEF TableTyped, Attempted
<1>3. CASE Send(w)
  <2>1. Message(w) \in Messages
    BY <1>3, MessageNamed DEF Send, Steps
  <2>2. ledger' \subseteq ledger \cup {Message(w).id} /\ reused' \in BOOLEAN
    BY <1>3 DEF Send, TableTyped
  <2>3. UNCHANGED <<owed, task, late, changes, faults, silent>>
    BY <1>3 DEF Send
  <2>4. ledger' \subseteq Ids
    BY <2>1, <2>2 DEF Messages, TableTyped
  <2> QED BY <2>2, <2>3, <2>4 DEF TableTyped, Attempted
<1>4. CASE Crash(w)
  <2>1. UNCHANGED <<owed, task, shown, changes, silent>> /\ faults' \in 0..MaxFaults
    BY <1>4, FaultCounts DEF Crash
  <2> QED BY <2>1 DEF TableTyped, Attempted, shown
<1>5. CASE CompletePublication(w) \/ RefusePublication(w) \/ FailPublication(w) \/ TimeOut(w) \/ DeferPublication(w)
  <2>1. job[w].step \in Steps
    BY <1>5 DEF CompletePublication, RefusePublication, FailPublication, TimeOut, DeferPublication, Steps
  <2>2. Holds(w) => task[job[w].pub].attempts \in Nat /\ task[job[w].pub].attempts > 0
    BY <2>1, JobOf DEF Holds, TableTyped, Attempted, Task
  <2>3. PICK status, attempts :
          /\ status \in {"pending", "completed", "failed"}
          /\ Settle(w, status, attempts) /\ (Holds(w) => attempts \in Nat)
    <3>1. CASE CompletePublication(w) \/ RefusePublication(w) \/ FailPublication(w) \/ TimeOut(w)
      <4>1. \E status \in {"pending", "completed", "failed"} : Settle(w, status, task[job[w].pub].attempts)
        BY <3>1 DEF CompletePublication, RefusePublication, FailPublication, TimeOut, Raise
      <4> QED BY <2>2, <4>1
    <3>2. CASE DeferPublication(w)
      <4>1. Settle(w, "pending", task[job[w].pub].attempts - 1)
        BY <3>2 DEF DeferPublication
      <4>2. Holds(w) => task[job[w].pub].attempts - 1 \in Nat
        BY <2>2
      <4> QED BY <4>1, <4>2
    <3> QED BY <1>5, <3>1, <3>2
  <2>4. task' \in [Publications -> Task] /\ Attempted'
    BY <2>1, <2>3, SettleTyped
  <2>5. UNCHANGED <<owed, changes, silent>>
    BY <2>3, SettleShape
  <2>6. faults' \in 0..MaxFaults
    <3>1. UNCHANGED faults \/ Fault
      BY <1>5 DEF CompletePublication, RefusePublication, FailPublication, TimeOut, DeferPublication
    <3> QED BY <3>1, FaultCounts DEF TableTyped
  <2>7. UNCHANGED <<ledger, late, reused>>
    BY <1>5 DEF CompletePublication, RefusePublication, FailPublication, TimeOut, DeferPublication, shown
  <2> QED BY <2>4, <2>5, <2>6, <2>7 DEF TableTyped
<1> QED BY <1>1, <1>2, <1>3, <1>4, <1>5 DEF Work, Faulty

LEMMA TableStep == Typed /\ TableTyped /\ [Next]_vars => TableTyped'
<1> SUFFICES ASSUME Typed, TableTyped, [Next]_vars PROVE TableTyped'
  OBVIOUS
<1>1. CASE GameStep
  BY <1>1, TableGame
<1>2. ASSUME NEW o \in owed, AskForRefresh(o) PROVE TableTyped'
  <2>1. UNCHANGED <<shown, changes, faults, silent>> /\ owed' \subseteq owed
        /\ (UNCHANGED task \/ EnsurePublishTask)
    BY <1>2 DEF AskForRefresh
  <2>2. task' \in [Publications -> Task] /\ Attempted'
    BY <2>1, EnsureTyped DEF TableTyped, Attempted
  <2> QED BY <2>1, <2>2 DEF TableTyped, shown
<1>3. ASSUME NEW o \in owed, LoseResult(o) PROVE TableTyped'
  <2>1. /\ UNCHANGED <<task, shown, changes>> /\ owed' \subseteq owed /\ faults' \in 0..MaxFaults
        /\ silent' \in BOOLEAN
    BY <1>3, FaultCounts DEF LoseResult, TableTyped
  <2> QED BY <2>1 DEF TableTyped, Attempted, shown
<1>4. ASSUME NEW w \in Workers, Work(w) \/ Faulty(w) PROVE TableTyped'
  BY <1>4, TableWork
<1>5. ASSUME NEW m \in bridge, SayLate(m) PROVE TableTyped'
  <2>1. m.id \in Ids
    BY DEF Typed, Messages
  <2>2. /\ UNCHANGED <<owed, task, reused, changes, faults, silent>> /\ late' = TRUE
        /\ ledger' = ledger \cup {m.id}
    BY <1>5 DEF SayLate
  <2> QED BY <2>1, <2>2 DEF TableTyped, Attempted
<1>6. ASSUME NEW p \in Publications, LeaseRunsOut(p) PROVE TableTyped'
  <2>1. PICK t : t = [task[p] EXCEPT !.leased = FALSE] /\ task' = [task EXCEPT ![p] = t]
    BY <1>6 DEF LeaseRunsOut
  <2>2. t \in Task /\ t.status = task[p].status /\ t.attempts = task[p].attempts
    BY <2>1 DEF TableTyped, Task
  <2>3. task' \in [Publications -> Task] /\ Attempted'
    BY <2>1, <2>2 DEF TableTyped, Attempted
  <2>4. UNCHANGED <<owed, ledger, reused, changes, silent>> /\ late' \in BOOLEAN /\ (UNCHANGED faults \/ Fault)
    BY <1>6 DEF LeaseRunsOut
  <2>5. faults' \in 0..MaxFaults
    BY <2>4, FaultCounts DEF TableTyped
  <2> QED BY <2>3, <2>4, <2>5 DEF TableTyped
<1>7. CASE UNCHANGED vars
  BY <1>7 DEF vars, shown, TableTyped, Attempted
<1> QED BY <1>1, <1>2, <1>3, <1>4, <1>5, <1>6, <1>7 DEF Next, HookStep

LEMMA TableInit == Init => TableTyped
<1> SUFFICES ASSUME Init PROVE TableTyped
  OBVIOUS
<1>1. task \in [Publications -> Task] /\ Attempted
  BY DEF Init, Task, Attempted
<1>2. 0 \in 0..MaxChanges /\ 0 \in 0..MaxFaults
  BY BoardAssumption
<1> QED BY <1>1, <1>2 DEF Init, TableTyped

\* Type correctness: a board is a sequence, numbered without a gap, and an attempt
\* is given back only where one was counted.
THEOREM TypeCorrect == Spec => []TypeOK
<1>1. Init => BoardInv /\ TableTyped
  BY InvInit, TableInit
<1>2. BoardInv /\ TableTyped /\ [Next]_vars => (BoardInv /\ TableTyped)'
  BY InvStep, TableStep DEF BoardInv
<1>3. BoardInv /\ TableTyped => TypeOK
  BY DEF BoardInv, Typed, TableTyped, TypeOK, Jobs
<1> QED BY <1>1, <1>2, <1>3, PTL DEF Spec

----------------------------------------------------------------------------
\* Who quotes a board of the room joins the game it showed under the number, or
\* nothing: the snapshot found by the version of the quoted message shows the same.
LEMMA QuotedBoard ==
  ASSUME BoardInv, NEW i \in DOMAIN room, NEW n, NEW g \in ResolveItemNo({room[i].id}, n)
  PROVE  n \in DOMAIN room[i].board /\ room[i].board[n].game = g
<1>2. PICK k \in DOMAIN snapshots :
         /\ snapshots[k].id = room[i].id
         /\ n \in DOMAIN snapshots[k].board /\ snapshots[k].board[n].game = g
  BY DEF ResolveItemNo, NumberedGames
<1>3. snapshots[k].board = room[i].board
  BY <1>2 DEF BoardInv, Named
<1> QED BY <1>2, <1>3

\* A number that quotes a board is answered with the game that board showed under
\* it, however many versions, retries and takeovers of a publication there were.
THEOREM QuotesCorrect == Spec => []QuotedNumberMeansItsGame
<1>1. BoardInv => QuotedNumberMeansItsGame
  BY QuotedBoard DEF QuotedNumberMeansItsGame
<1> QED BY <1>1, InvInit, InvStep, PTL DEF Spec

----------------------------------------------------------------------------
(* Leases.  Of the room's publications one is leased at a time, and a      *)
(* board is sent and saved under its lease unless it ran out meanwhile, so *)
(* that the board that is saved is the one the room saw last.              *)

Running(p) == task[p].status = "processing" /\ task[p].leased

Exclusive == \A p, q \in Publications : Running(p) /\ Running(q) => p = q

Timely == ~late => \A w \in Workers : job[w].step \in {"sending", "saving"} => Leased(w)

\* What is delivered is in the room, what is saved was delivered.
Delivered ==
  /\ \A id \in ledger : \E i \in DOMAIN room : room[i].id = id
  /\ \A i \in DOMAIN snapshots : snapshots[i].id \in ledger
  /\ \A w \in Workers : job[w].step = "saving" => Message(w).id \in ledger

SavesLast ==
  ~late /\ ~reused => \A w \in Workers : job[w].step = "saving" => Message(w).id = Last(room).id

PubInv == Exclusive /\ Timely /\ Delivered /\ SavesLast /\ UnquotedNumberMeansLastBoard

\* Tasks that are processed stay as they are, and no other becomes one.
Undisturbed ==
  \A q \in Publications : "processing" \in {task[q].status, task'[q].status} => task'[q] = task[q]

\* Changes and hooks only ask for refreshes.
LEMMA QuietShape ==
  ASSUME TableTyped, GameStep \/ HookStep \/ UNCHANGED vars
  PROVE  /\ UNCHANGED <<job, shown, snapshots>>
         /\ Undisturbed
         /\ \A q \in Publications : task'[q] = task[q] \/ task[q].status = "absent"
<1>1. UNCHANGED <<job, shown, snapshots>> /\ (UNCHANGED task \/ EnsurePublishTask)
  BY DEF GameStep, CreateGame, ExecuteParticipationDeadline, ChangeGame, ProcessClaim,
         ExpireStaleGame, Change, HookStep, AskForRefresh, LoseResult, vars
<1>2. ASSUME NEW p \in Publications, task[p].status = "absent", task' = [task EXCEPT ![p].status = "pending"]
      PROVE  \A q \in Publications : /\ "processing" \in {task[q].status, task'[q].status} => task'[q] = task[q]
                                     /\ task'[q] = task[q] \/ task[q].status = "absent"
  <2>1. PICK t : t = [task[p] EXCEPT !.status = "pending"]
    OBVIOUS
  <2>2. task[p] \in Task /\ t.status = "pending"
    BY <2>1 DEF TableTyped, Task
  <2>3. \A q \in Publications : task'[q] = IF q = p THEN t ELSE task[q]
    BY <1>2, <2>1 DEF TableTyped
  <2> QED BY <1>2, <2>2, <2>3
<1> QED BY <1>1, <1>2, EnsureShape DEF Undisturbed

\* A worker goes on with its board.
LEMMA Moves ==
  ASSUME Typed, NEW w \in Workers, NEW step \in Steps, job[w].step \in Steps, Goto(w, step)
  PROVE  /\ job'[w].pub = job[w].pub /\ job'[w].board = job[w].board /\ job'[w].step = step
         /\ \A v \in Workers \ {w} : job'[v] = job[v]
         /\ \A v \in Workers : Message(v)' = Message(v)
<1>1. job[w] \in Job
  BY JobOf
<1>2. PICK j : j = [job[w] EXCEPT !.step = step]
  OBVIOUS
<1>3. j.pub = job[w].pub /\ j.board = job[w].board /\ j.step = step
  BY <1>1, <1>2 DEF Job
<1>4. \A v \in Workers : job'[v] = IF v = w THEN j ELSE job[v]
  BY <1>2 DEF Goto, Typed
<1> QED BY <1>3, <1>4 DEF Message, SnapshotId

\* One worker is leased at most.
LEMMA OneLeased ==
  ASSUME Typed, Exclusive, NEW v \in Workers, NEW w \in Workers,
         job[v].step \in Steps, job[w].step \in Steps, Leased(v), Leased(w)
  PROVE  v = w
BY JobOf DEF Exclusive, Running, Leased, Holds

\* What a worker does when it ends its job or dies: it gives up at most the task it holds.
Ends(w) ==
  /\ \A v \in Workers : job'[v] = IF v = w THEN Idle ELSE job[v]
  /\ UNCHANGED <<games, owed, room, ledger, late, reused, snapshots, silent>>
  /\ \/ UNCHANGED task /\ (~Holds(w) \/ Crash(w))
     \/ /\ Holds(w)
        /\ \E t \in Task :
             /\ \A q \in Publications : task'[q] = IF q = job[w].pub THEN t ELSE task[q]
             /\ t.status \in {"pending", "failed", "completed"}
             /\ t.status = "completed" => job[w].step = "done"

LEMMA EndShape ==
  ASSUME Typed, TableTyped, NEW w \in Workers,
         \/ CompletePublication(w) \/ RefusePublication(w) \/ FailPublication(w) \/ TimeOut(w)
         \/ DeferPublication(w) \/ Crash(w)
  PROVE  Ends(w) /\ job[w].step \in Steps
<1>1. job[w].step \in Steps \/ job[w] # Idle
  BY DEF CompletePublication, RefusePublication, FailPublication, TimeOut, DeferPublication, Crash, Steps
<1>2. job[w].step \in Steps
  BY <1>1 DEF Typed, Jobs, Job, Steps
<1>3. UNCHANGED <<room, ledger, late, reused>>
  BY DEF CompletePublication, RefusePublication, FailPublication, TimeOut, DeferPublication, Crash, shown
<1>4. CASE Crash(w)
  BY <1>2, <1>3, <1>4 DEF Crash, Ends, Typed
<1>5. CASE ~Crash(w)
  <2>1. PICK status, attempts : /\ Settle(w, status, attempts)
                                /\ \/ status \in {"pending", "failed"}
                                   \/ status = "completed" /\ job[w].step = "done"
    <3>1. \/ /\ job[w].step = "done" /\ Settle(w, "completed", task[job[w].pub].attempts)
          \/ Raise(w)
          \/ Settle(w, "pending", task[job[w].pub].attempts - 1)
      BY <1>5 DEF CompletePublication, RefusePublication, FailPublication, TimeOut, DeferPublication
    <3>2. Raise(w) => \E status \in {"pending", "failed"} : Settle(w, status, task[job[w].pub].attempts)
      BY DEF Raise
    <3> QED BY <3>1, <3>2
  <2>2. /\ job' = [job EXCEPT ![w] = Idle]
        /\ UNCHANGED <<games, owed, snapshots, changes, silent>>
        /\ \/ ~Holds(w) /\ UNCHANGED task
           \/ /\ Holds(w)
              /\ task' = [task EXCEPT ![job[w].pub] = [status |-> status, attempts |-> attempts,
                                                      holder |-> None, leased |-> FALSE]]
    BY <2>1, SettleShape
  <2>3. CASE ~Holds(w) /\ UNCHANGED task
    BY <1>2, <1>3, <2>2, <2>3 DEF Ends, Typed
  <2>4. CASE /\ Holds(w)
             /\ task' = [task EXCEPT ![job[w].pub] = [status |-> status, attempts |-> attempts,
                                                     holder |-> None, leased |-> FALSE]]
    <3>1. PICK t : t = [status |-> status, attempts |-> attempts, holder |-> None, leased |-> FALSE]
      OBVIOUS
    <3>2. t.status = status
      BY <3>1
    <3>3. \A q \in Publications : task'[q] = IF q = job[w].pub THEN t ELSE task[q]
      BY <2>4, <3>1 DEF TableTyped
    <3>4. t \in Task
      <4>1. task' \in [Publications -> Task]
        BY <1>5, TableWork DEF Work, Faulty, TableTyped
      <4>2. job[w].pub \in Publications
        BY <1>2, JobOf
      <4> QED BY <3>3, <4>1, <4>2
    <3> QED BY <1>2, <1>3, <2>1, <2>2, <2>4, <3>2, <3>3, <3>4 DEF Ends, Typed
  <2> QED BY <2>2, <2>3, <2>4
<1> QED BY <1>2, <1>4, <1>5

\* The lease of a publication runs out.
LEMMA LeaseShape ==
  ASSUME TableTyped, NEW p \in Publications, LeaseRunsOut(p)
  PROVE  /\ task[p].status = "processing" /\ task'[p].status = "processing"
         /\ task'[p].holder = task[p].holder /\ ~task'[p].leased
         /\ \A q \in Publications \ {p} : task'[q] = task[q]
<1>1. PICK t : t = [task[p] EXCEPT !.leased = FALSE]
  OBVIOUS
<1>2. t.status = task[p].status /\ t.holder = task[p].holder /\ ~t.leased
  BY <1>1 DEF TableTyped, Task
<1>3. \A q \in Publications : task'[q] = IF q = p THEN t ELSE task[q]
  BY <1>1 DEF LeaseRunsOut, TableTyped
<1> QED BY <1>2, <1>3 DEF LeaseRunsOut

\* A claim takes the task over.
LEMMA ClaimShape ==
  ASSUME Typed, TableTyped, NEW w \in Workers, NEW p \in Publications, ClaimPublication(w, p)
  PROVE  /\ job[w] = Idle /\ job'[w].pub = p /\ job'[w].step = "reading"
         /\ \A v \in Workers \ {w} : job'[v] = job[v]
         /\ task'[p].status = "processing" /\ task'[p].holder = w
         /\ task[p].status \in {"pending", "processing"} /\ ~Running(p)
         /\ \A q \in Publications \ {p} : task'[q] = task[q] /\ ~Running(q)
         /\ UNCHANGED <<games, owed, shown, snapshots, silent>>
BY DEF ClaimPublication, Typed, TableTyped, Running

LEMMA PubInit == Init => PubInv
<1> SUFFICES ASSUME Init PROVE PubInv
  OBVIOUS
<1>1. Exclusive /\ Timely
  BY DEF Init, Exclusive, Running, Timely, Idle
<1>2. Delivered /\ SavesLast /\ UnquotedNumberMeansLastBoard
  BY DEF Init, Delivered, SavesLast, UnquotedNumberMeansLastBoard, Idle
<1> QED BY <1>1, <1>2 DEF PubInv

\* A step that leaves jobs, room and snapshots alone, and no task newly leased.
LEMMA PubKept ==
  ASSUME Typed, PubInv, UNCHANGED <<job, shown, snapshots>>, Undisturbed
  PROVE  PubInv'
<1> USE DEF PubInv, shown
<1>1. Exclusive'
  BY DEF Exclusive, Running, Undisturbed
<1>2. Timely'
  <2> SUFFICES ASSUME ~late, NEW w \in Workers, job[w].step \in {"sending", "saving"}
               PROVE  Leased(w)'
    BY DEF Timely
  <2>1. Leased(w) /\ job[w].pub \in Publications
    BY JobOf DEF Timely, Steps
  <2> QED BY <2>1 DEF Leased, Holds, Undisturbed
<1>3. \A w \in Workers : Message(w)' = Message(w)
  BY DEF Message, SnapshotId
<1>4. Delivered' /\ SavesLast' /\ UnquotedNumberMeansLastBoard'
  BY <1>3 DEF Delivered, SavesLast, UnquotedNumberMeansLastBoard, Saved
<1> QED BY <1>1, <1>2, <1>4

\* While a board is sent or saved in time, nobody claims a publication of the room.
LEMMA PubClaim ==
  ASSUME Typed, TableTyped, PubInv, NEW w \in Workers, NEW p \in Publications, ClaimPublication(w, p)
  PROVE  PubInv'
<1> USE DEF PubInv
<1>1. /\ job[w] = Idle /\ job'[w].pub = p /\ job'[w].step = "reading"
      /\ \A v \in Workers \ {w} : job'[v] = job[v]
      /\ ~Running(p)
      /\ \A q \in Publications \ {p} : task'[q] = task[q] /\ ~Running(q)
      /\ UNCHANGED <<games, owed, shown, snapshots, silent>>
  BY ClaimShape
<1>2. Exclusive'
  BY <1>1 DEF Exclusive, Running
<1>3. Timely'
  <2> SUFFICES ASSUME ~late, NEW v \in Workers, job'[v].step \in {"sending", "saving"}
               PROVE  FALSE
    BY <1>1 DEF Timely, shown
  <2>1. job'[v] = job[v]
    BY <1>1
  <2>2. Leased(v) /\ job[v].pub \in Publications
    BY <2>1, JobOf DEF Timely, Steps
  <2> QED BY <1>1, <2>2 DEF Leased, Holds, Running
<1>4. \A v \in Workers \ {w} : Message(v)' = Message(v)
  BY <1>1 DEF Message, SnapshotId
<1>5. Delivered' /\ SavesLast' /\ UnquotedNumberMeansLastBoard'
  BY <1>1, <1>4 DEF Delivered, SavesLast, UnquotedNumberMeansLastBoard, Saved, shown
<1> QED BY <1>2, <1>3, <1>5

LEMMA PubRead ==
  ASSUME Typed, TableTyped, PubInv, NEW w \in Workers, ReadGames(w)
  PROVE  PubInv'
<1> USE DEF PubInv
<1>1. /\ job'[w].step \notin {"sending", "saving"}
      /\ \A v \in Workers \ {w} : job'[v] = job[v]
      /\ UNCHANGED <<task, room, ledger, late, snapshots>>
      /\ reused => reused'
  BY DEF ReadGames, Typed, TableTyped
<1>2. Exclusive' /\ Timely'
  BY <1>1 DEF Exclusive, Running, Timely, Leased, Holds
<1>3. \A v \in Workers \ {w} : Message(v)' = Message(v)
  BY <1>1 DEF Message, SnapshotId
<1>4. Delivered' /\ SavesLast' /\ UnquotedNumberMeansLastBoard'
  BY <1>1, <1>3 DEF Delivered, SavesLast, UnquotedNumberMeansLastBoard, Saved
<1> QED BY <1>2, <1>4

LEMMA PubGuard ==
  ASSUME Typed, TableTyped, PubInv, NEW w \in Workers, PassGuard(w)
  PROVE  PubInv'
<1> USE DEF PubInv
<1>1. /\ job'[w].pub = job[w].pub /\ job'[w].step = "sending"
      /\ \A v \in Workers \ {w} : job'[v] = job[v]
      /\ \A v \in Workers : Message(v)' = Message(v)
  BY Moves DEF PassGuard, Steps
<1>2. Leased(w) /\ UNCHANGED <<task, shown, snapshots>>
  BY DEF PassGuard
<1>3. Exclusive' /\ Timely'
  BY <1>1, <1>2 DEF Exclusive, Running, Timely, Leased, Holds, shown
<1>4. Delivered' /\ SavesLast' /\ UnquotedNumberMeansLastBoard'
  BY <1>1, <1>2 DEF Delivered, SavesLast, UnquotedNumberMeansLastBoard, Saved, shown
<1> QED BY <1>3, <1>4

\* Sending: nobody else saves a board meanwhile, and a new version has no snapshot yet.
LEMMA PubSend ==
  ASSUME Typed, TableTyped, PubInv, NEW w \in Workers, Send(w)
  PROVE  PubInv'
<1> USE DEF PubInv
<1>1. /\ job[w].step = "sending" /\ job'[w].pub = job[w].pub /\ job'[w].step = "saving"
      /\ \A v \in Workers \ {w} : job'[v] = job[v]
      /\ \A v \in Workers : Message(v)' = Message(v)
  BY Moves DEF Send, Steps
<1>2. UNCHANGED <<task, late, snapshots>>
  BY DEF Send
<1>3. Exclusive' /\ Timely'
  BY <1>1, <1>2 DEF Exclusive, Running, Timely, Leased, Holds
<1>4. CASE Message(w).id \in ledger
  <2>1. UNCHANGED <<room, ledger>> /\ (~reused' => ~reused /\ Message(w).id = Last(room).id)
    BY <1>4 DEF Send, TableTyped
  <2>2. Delivered' /\ SavesLast' /\ UnquotedNumberMeansLastBoard'
    BY <1>1, <1>2, <1>4, <2>1 DEF Delivered, SavesLast, UnquotedNumberMeansLastBoard, Saved
  <2> QED BY <1>3, <2>2
<1>5. CASE Message(w).id \notin ledger
  <2>1. PICK m : m = Message(w)
    OBVIOUS
  <2>2. room' = Append(room, m) /\ ledger' = ledger \cup {m.id} /\ UNCHANGED reused
    BY <1>5, <2>1 DEF Send
  <2>3. /\ Len(room) \in Nat /\ DOMAIN room = 1..Len(room)
        /\ DOMAIN room' = 1..(Len(room) + 1) /\ Len(room') = Len(room) + 1
        /\ room'[Len(room) + 1] = m /\ \A i \in DOMAIN room : room'[i] = room[i]
    <3>1. m \in Messages /\ room \in Seq(Messages)
      BY <1>1, <2>1, MessageNamed DEF Typed, Steps
    <3> QED BY <2>2, <3>1, AppendProperties, LenProperties
  <2>4. Last(room') = m
    BY <2>3 DEF Last
  <2>5. Delivered'
    <3>1. \A id \in ledger' : \E i \in DOMAIN room' : room'[i].id = id
      BY <2>2, <2>3 DEF Delivered
    <3>2. \A i \in DOMAIN snapshots : snapshots[i].id \in ledger'
      BY <2>2 DEF Delivered
    <3>3. \A v \in Workers : job'[v].step = "saving" => Message(v).id \in ledger'
      BY <1>1, <2>1, <2>2 DEF Delivered
    <3> QED BY <1>1, <1>2, <3>1, <3>2, <3>3 DEF Delivered
  <2>6. SavesLast'
    <3> SUFFICES ASSUME ~late, ~reused, NEW v \in Workers, job'[v].step = "saving"
                 PROVE  v = w
      BY <1>1, <1>2, <2>1, <2>2, <2>4 DEF SavesLast
    <3>1. v # w => Leased(v) /\ job[v].step \in Steps
      BY <1>1 DEF Timely, Steps
    <3>2. Leased(w) /\ job[w].step \in Steps
      BY <1>1 DEF Timely, Steps
    <3> QED BY <3>1, <3>2, OneLeased
  <2>7. UnquotedNumberMeansLastBoard'
    <3>1. ~Saved(m.id)
      BY <1>5, <2>1 DEF Saved, Delivered
    <3> QED BY <1>2, <2>4, <3>1 DEF UnquotedNumberMeansLastBoard, Saved
  <2> QED BY <1>3, <2>5, <2>6, <2>7
<1> QED BY <1>4, <1>5

\* Saving: the version saved is the last one said.
LEMMA PubSave ==
  ASSUME Typed, TableTyped, PubInv, NEW w \in Workers, SaveBoardSnapshot(w)
  PROVE  PubInv'
<1> USE DEF PubInv
<1>1. /\ job[w].step = "saving" /\ job'[w].step = "done"
      /\ \A v \in Workers \ {w} : job'[v] = job[v]
      /\ \A v \in Workers : Message(v)' = Message(v)
  BY Moves DEF SaveBoardSnapshot, Steps
<1>2. UNCHANGED <<task, shown>>
  BY DEF SaveBoardSnapshot
<1>3. Exclusive' /\ Timely'
  BY <1>1, <1>2 DEF Exclusive, Running, Timely, Leased, Holds, shown
<1>4. PICK m : m = Message(w)
  OBVIOUS
<1>5. /\ Len(snapshots) \in Nat /\ DOMAIN snapshots = 1..Len(snapshots)
      /\ DOMAIN snapshots' = 1..(Len(snapshots) + 1) /\ Len(snapshots') = Len(snapshots) + 1
      /\ snapshots'[Len(snapshots) + 1] = m /\ \A i \in DOMAIN snapshots : snapshots'[i] = snapshots[i]
  <2>1. m \in Messages /\ snapshots \in Seq(Messages) /\ snapshots' = Append(snapshots, m)
    BY <1>1, <1>4, MessageNamed DEF Typed, Steps, SaveBoardSnapshot
  <2> QED BY <2>1, AppendProperties, LenProperties
<1>6. Delivered'
  BY <1>1, <1>2, <1>4, <1>5 DEF Delivered, shown
<1>7. SavesLast'
  BY <1>1, <1>2 DEF SavesLast, shown
<1>8. UnquotedNumberMeansLastBoard'
  <2>1. Last(snapshots') = m
    BY <1>5 DEF Last
  <2>2. ~late /\ ~reused => m.id = Last(room).id
    BY <1>1, <1>4 DEF SavesLast
  <2> QED BY <1>2, <2>1, <2>2 DEF UnquotedNumberMeansLastBoard, shown
<1> QED BY <1>3, <1>6, <1>7, <1>8

LEMMA PubEnd ==
  ASSUME Typed, TableTyped, PubInv, NEW w \in Workers, Ends(w), job[w].step \in Steps
  PROVE  PubInv'
<1> USE DEF PubInv
<1>1. /\ job'[w] = Idle /\ \A v \in Workers \ {w} : job'[v] = job[v]
      /\ UNCHANGED <<room, ledger, late, reused, snapshots>>
  BY DEF Ends
<1>2. \A q \in Publications : \/ task'[q] = task[q]
                              \/ q = job[w].pub /\ task[q].holder = w /\ task'[q].status # "processing"
  BY DEF Ends, Holds
<1>3. Exclusive'
  BY <1>2 DEF Exclusive, Running
<1>4. Timely'
  <2> SUFFICES ASSUME ~late, NEW v \in Workers, job'[v].step \in {"sending", "saving"}
               PROVE  Leased(v)'
    BY <1>1 DEF Timely
  <2>1. v # w
    BY <1>1 DEF Idle
  <2>2. Leased(v) /\ job[v].pub \in Publications /\ job'[v] = job[v]
    BY <1>1, <2>1, JobOf DEF Timely, Steps
  <2>3. task'[job[v].pub] = task[job[v].pub]
    BY <1>2, <2>1, <2>2 DEF Leased, Holds
  <2> QED BY <2>2, <2>3 DEF Leased, Holds
<1>5. \A v \in Workers \ {w} : Message(v)' = Message(v)
  BY <1>1 DEF Message, SnapshotId
<1>6. Delivered' /\ SavesLast' /\ UnquotedNumberMeansLastBoard'
  BY <1>1, <1>5 DEF Delivered, SavesLast, UnquotedNumberMeansLastBoard, Saved, Idle
<1> QED BY <1>3, <1>4, <1>6

LEMMA PubLease ==
  ASSUME Typed, TableTyped, PubInv, NEW p \in Publications, LeaseRunsOut(p)
  PROVE  PubInv'
<1> USE DEF PubInv
<1>1. UNCHANGED <<job, room, ledger, reused, snapshots>> /\ (late => late')
  BY DEF LeaseRunsOut, TableTyped
<1>2. ~task'[p].leased /\ \A q \in Publications \ {p} : task'[q] = task[q]
  BY LeaseShape
<1>3. Exclusive'
  BY <1>2 DEF Exclusive, Running
<1>4. Timely'
  <2> SUFFICES ASSUME ~late', NEW v \in Workers, job[v].step \in {"sending", "saving"}
               PROVE  Leased(v)'
    BY <1>1 DEF Timely
  <2>1. Leased(v) /\ job[v].pub \in Publications
    BY <1>1, JobOf DEF Timely, Steps
  <2>2. job[v].pub # p
    BY <2>1 DEF LeaseRunsOut, Leased, Holds
  <2> QED BY <1>1, <1>2, <2>1, <2>2 DEF Leased, Holds
<1>5. \A v \in Workers : Message(v)' = Message(v)
  BY <1>1 DEF Message, SnapshotId
<1>6. Delivered' /\ SavesLast' /\ UnquotedNumberMeansLastBoard'
  BY <1>1, <1>5 DEF Delivered, SavesLast, UnquotedNumberMeansLastBoard, Saved
<1> QED BY <1>3, <1>4, <1>6

\* What the bridge says late is in the room, and the rest is excused.
LEMMA PubLate ==
  ASSUME Typed, TableTyped, PubInv, NEW m \in bridge, SayLate(m)
  PROVE  PubInv'
<1> USE DEF PubInv
<1>1. /\ UNCHANGED <<task, job, snapshots>> /\ late' = TRUE
      /\ room' = Append(room, m) /\ ledger' = ledger \cup {m.id}
  BY DEF SayLate
<1>2. Exclusive' /\ Timely' /\ SavesLast' /\ UnquotedNumberMeansLastBoard'
  BY <1>1 DEF Exclusive, Running, Timely, SavesLast, UnquotedNumberMeansLastBoard
<1>3. /\ DOMAIN room \subseteq DOMAIN room' /\ \A i \in DOMAIN room : room'[i] = room[i]
      /\ \E i \in DOMAIN room' : room'[i] = m
  <2>1. m \in Messages /\ room \in Seq(Messages)
    BY DEF Typed
  <2>2. /\ Len(room) \in Nat /\ DOMAIN room = 1..Len(room)
        /\ DOMAIN room' = 1..(Len(room) + 1)
        /\ room'[Len(room) + 1] = m /\ \A i \in DOMAIN room : room'[i] = room[i]
    BY <1>1, <2>1, AppendProperties, LenProperties
  <2> QED BY <2>2
<1>4. \A v \in Workers : Message(v)' = Message(v)
  BY <1>1 DEF Message, SnapshotId
<1>5. Delivered'
  <2>1. \A id \in ledger' : \E i \in DOMAIN room' : room'[i].id = id
    BY <1>1, <1>3 DEF Delivered
  <2> QED BY <1>1, <1>4, <2>1 DEF Delivered
<1> QED BY <1>2, <1>5

LEMMA PubStep == Typed /\ TableTyped /\ PubInv /\ [Next]_vars => PubInv'
<1> SUFFICES ASSUME Typed, TableTyped, PubInv, [Next]_vars PROVE PubInv'
  OBVIOUS
<1>1. CASE GameStep \/ HookStep \/ UNCHANGED vars
  BY <1>1, QuietShape, PubKept
<1>2. ASSUME NEW w \in Workers, Work(w) \/ Faulty(w) PROVE PubInv'
  BY <1>2, PubClaim, PubRead, PubGuard, PubSend, PubSave, PubEnd, EndShape DEF Work, Faulty
<1> QED BY <1>1, <1>2, PubLate, PubLease DEF Next

\* A number that quotes no board is answered with the board the room saw last, once
\* that board has its snapshot: unless a lease ran out behind the guard, or the bridge
\* was late, or a publication took an older message for its own.
THEOREM UnquotedCorrect == Spec => []UnquotedNumberMeansLastBoard
<1>1. Init => BoardInv /\ TableTyped /\ PubInv
  BY InvInit, TableInit, PubInit
<1>2. BoardInv /\ TableTyped /\ PubInv /\ [Next]_vars => (BoardInv /\ TableTyped /\ PubInv)'
  BY InvStep, TableStep, PubStep DEF BoardInv
<1>3. PubInv => UnquotedNumberMeansLastBoard
  BY DEF PubInv
<1> QED BY <1>1, <1>2, <1>3, PTL DEF Spec

----------------------------------------------------------------------------
(* Refreshes.  A worker that is leased with an old board is no threat as   *)
(* long as the refresh for the change it missed is owed; nobody can take   *)
(* that refresh up before the lease is gone.                               *)

Old(w) == /\ job[w].step \in {"review", "sending", "saving"} /\ Leased(w)
          /\ job[w].board # Board

OldIsOwed == (\E w \in Workers : Old(w)) => Owed \/ Excused

RefreshInv == OldIsOwed /\ NoChangeIsForgotten

\* The board of the moment changes with the games only.
LEMMA SameBoard ==
  ASSUME UNCHANGED games
  PROVE  Board' = Board
<1>1. free' = free
  BY DEF games
<1>2. Listed' = Listed
  BY <1>1 DEF Listed
<1>3. \A g : Number(g)' = Number(g)
  BY <1>2 DEF Number
<1> QED BY <1>1, <1>2, <1>3 DEF Board

\* What excuses the board once excuses it for good.
LEMMA ExcusedStays ==
  ASSUME Typed, TableTyped, [Next]_vars, Excused
  PROVE  Excused'
<1>1. CASE GameStep \/ HookStep \/ UNCHANGED vars
  <2>1. /\ UNCHANGED shown
        /\ \A q \in Publications : task'[q] = task[q] \/ task[q].status = "absent"
    BY <1>1, QuietShape
  <2>2. silent => silent'
    BY <1>1 DEF GameStep, CreateGame, ExecuteParticipationDeadline, ChangeGame, ProcessClaim,
                ExpireStaleGame, HookStep, AskForRefresh, LoseResult, vars, TableTyped
  <2> QED BY <2>1, <2>2 DEF Excused, shown
<1>2. ASSUME NEW w \in Workers, NEW p \in Publications, ClaimPublication(w, p) PROVE Excused'
  BY <1>2, ClaimShape DEF Excused, shown
<1>3. ASSUME NEW w \in Workers,
             ReadGames(w) \/ PassGuard(w) \/ Send(w) \/ SaveBoardSnapshot(w)
      PROVE  Excused'
  <2>1. UNCHANGED <<task, late, silent>> /\ (reused => reused')
    BY <1>3 DEF ReadGames, PassGuard, Send, SaveBoardSnapshot, shown, TableTyped
  <2> QED BY <2>1 DEF Excused
<1>4. ASSUME NEW w \in Workers, Ends(w) PROVE Excused'
  <2>1. \A q \in Publications : task'[q] = task[q] \/ task[q].status = "processing"
    BY <1>4 DEF Ends, Holds
  <2> QED BY <1>4, <2>1 DEF Excused, Ends
<1>5. ASSUME NEW m \in bridge, SayLate(m) PROVE Excused'
  BY <1>5 DEF SayLate, Excused
<1>6. ASSUME NEW p \in Publications, LeaseRunsOut(p) PROVE Excused'
  <2>1. \A q \in Publications : task'[q] = task[q] \/ task[q].status = "processing"
    BY <1>6, LeaseShape
  <2>2. UNCHANGED <<reused, silent>> /\ (late => late')
    BY <1>6 DEF LeaseRunsOut, TableTyped
  <2> QED BY <2>1, <2>2 DEF Excused
<1>7. ASSUME NEW w \in Workers, Work(w) \/ Faulty(w) PROVE Excused'
  BY <1>2, <1>3, <1>4, <1>7, EndShape DEF Work, Faulty
<1> QED BY <1>1, <1>5, <1>6, <1>7 DEF Next

\* Asking for a refresh leaves one owed.
LEMMA EnsureOwes ==
  ASSUME TableTyped, EnsurePublishTask
  PROVE  Owed'
<1>1. CASE \E p \in Publications : task[p].status = "pending"
  BY <1>1 DEF EnsurePublishTask, Owed
<1>2. ASSUME NEW p \in Publications, task' = [task EXCEPT ![p].status = "pending"] PROVE Owed'
  <2>1. PICK t : t = [task[p] EXCEPT !.status = "pending"]
    OBVIOUS
  <2>2. t.status = "pending"
    BY <2>1 DEF TableTyped, Task
  <2>3. task'[p] = t
    BY <1>2, <2>1 DEF TableTyped
  <2> QED BY <2>2, <2>3 DEF Owed
<1> QED BY <1>1, <1>2 DEF EnsurePublishTask

\* Every change of a game owes a refresh, but those nobody tells the board of.
LEMMA ChangeOwes ==
  ASSUME TableTyped, GameStep
  PROVE  Owed' \/ Excused'
<1>1. \/ EnsurePublishTask
      \/ \E g \in Games : owed' = owed \cup {[game |-> g, tool |-> "other"]}
      \/ silent'
  BY DEF GameStep, CreateGame, ExecuteParticipationDeadline, ChangeGame, ProcessClaim,
         ExpireStaleGame, ResolveItemNo, Listed
<1>2. ASSUME NEW g \in Games, owed' = owed \cup {[game |-> g, tool |-> "other"]} PROVE Owed'
  <2>1. PICK o : o = [game |-> g, tool |-> "other"]
    OBVIOUS
  <2> QED BY <1>2, <2>1 DEF Owed
<1>3. silent' => Excused'
  BY DEF Excused
<1> QED BY <1>1, <1>2, <1>3, EnsureOwes

\* Hooks pay what is owed with a task, or lose it.
LEMMA HookOwes ==
  ASSUME TableTyped, HookStep \/ UNCHANGED vars
  PROVE  UNCHANGED games /\ (Owed => Owed' \/ Excused')
<1>1. ASSUME NEW o \in owed, AskForRefresh(o) PROVE UNCHANGED games /\ (Owed => Owed')
  <2>1. owed' = owed \ {o} /\ UNCHANGED games
    BY <1>1 DEF AskForRefresh
  <2>2. \/ EnsurePublishTask
        \/ o.tool = "create_game" /\ UNCHANGED task
    BY <1>1 DEF AskForRefresh
  <2>3. CASE o.tool = "create_game" /\ UNCHANGED task
    BY <2>1, <2>3 DEF Owed
  <2> QED BY <2>1, <2>2, <2>3, EnsureOwes
<1>2. ASSUME NEW o \in owed, LoseResult(o) PROVE UNCHANGED games /\ (Owed => Owed' \/ Excused')
  <2>1. owed' = owed \ {o} /\ UNCHANGED <<games, task>> /\ (silent' <=> silent \/ o.tool = "other")
    BY <1>2 DEF LoseResult
  <2> QED BY <2>1 DEF Owed, Excused
<1>3. CASE UNCHANGED vars
  BY <1>3 DEF vars, Owed
<1> QED BY <1>1, <1>2, <1>3 DEF HookStep

LEMMA RefreshQuiet ==
  ASSUME Typed, TableTyped, RefreshInv, GameStep \/ HookStep \/ UNCHANGED vars
  PROVE  RefreshInv'
<1> USE DEF RefreshInv
<1>1. CASE Owed' \/ Excused'
  BY <1>1 DEF OldIsOwed, NoChangeIsForgotten
<1>2. CASE ~(Owed' \/ Excused')
  <2>1. ~GameStep
    BY <1>2, ChangeOwes
  <2>2. Board' = Board /\ ~Owed
    BY <1>2, <2>1, HookOwes, SameBoard
  <2>3. ~Excused
    BY <1>2, ExcusedStays DEF Next
  <2>4. UNCHANGED <<job, shown, snapshots>> /\ Undisturbed
    BY QuietShape
  <2>5. ASSUME NEW w \in Workers, Old(w)' PROVE FALSE
    <3>1. job[w].pub \in Publications
      BY <2>4, <2>5, JobOf DEF Old, Steps
    <3>2. Old(w)
      BY <2>2, <2>4, <2>5, <3>1 DEF Old, Leased, Holds, Undisturbed
    <3> QED BY <2>2, <2>3, <3>2 DEF OldIsOwed
  <2>6. ASSUME NEW p \in Publications, Pursued(p) PROVE Pursued(p)'
    <3>1. task'[p] = task[p]
      BY <2>4, <2>6 DEF Pursued, Undisturbed
    <3> QED BY <2>2, <2>4, <2>6, <3>1 DEF Pursued, Abandoned
  <2>7. UpToDate => UpToDate'
    BY <2>2, <2>4 DEF UpToDate, shown
  <2> QED BY <2>2, <2>3, <2>5, <2>6, <2>7 DEF OldIsOwed, NoChangeIsForgotten
<1> QED BY <1>1, <1>2

\* Claiming a publication pursues it, and nobody is leased with an old board.
LEMMA RefreshClaim ==
  ASSUME Typed, TableTyped, RefreshInv, NEW w \in Workers, NEW p \in Publications, ClaimPublication(w, p)
  PROVE  RefreshInv'
<1>1. /\ job'[w].pub = p /\ job'[w].step = "reading"
      /\ \A v \in Workers \ {w} : job'[v] = job[v]
      /\ task'[p].status = "processing" /\ task'[p].holder = w
      /\ \A q \in Publications \ {p} : task'[q] = task[q] /\ ~Running(q)
  BY ClaimShape
<1>2. Pursued(p)'
  BY <1>1 DEF Pursued
<1>3. ASSUME NEW v \in Workers, Old(v)' PROVE FALSE
  <2>1. v # w /\ job'[v] = job[v]
    BY <1>1, <1>3 DEF Old
  <2>2. job[v].pub \in Publications
    BY <1>3, <2>1, JobOf DEF Old, Steps
  <2> QED BY <1>1, <1>3, <2>1, <2>2 DEF Old, Leased, Holds, Running
<1> QED BY <1>2, <1>3 DEF RefreshInv, OldIsOwed, NoChangeIsForgotten

\* What is pursued by others than w stays so, whatever w does to its own job.
LEMMA OthersPursue ==
  ASSUME Typed, NEW w \in Workers, UNCHANGED <<games, task>>, job'[w].pub = job[w].pub,
         \A v \in Workers \ {w} : job'[v] = job[v],
         NEW p \in Publications, Pursued(p), ~(job[w].pub = p /\ Holds(w))
  PROVE  Pursued(p)'
<1>1. Board' = Board
  BY SameBoard
<1>2. CASE Abandoned(p)
  BY <1>2 DEF Pursued, Abandoned
<1>3. CASE ~Abandoned(p)
  <2>1. PICK v \in Workers : /\ job[v].pub = p /\ task[p].holder = v /\ task[p].status = "processing"
                             /\ \/ job[v].step = "reading"
                                \/ job[v].step = "review" /\ ~task[p].leased
                                \/ job[v].step \in {"review", "sending", "saving"} /\ job[v].board = Board
    BY <1>3 DEF Pursued
  <2>2. v # w
    BY <2>1 DEF Holds
  <2> QED BY <1>1, <2>1, <2>2 DEF Pursued
<1> QED BY <1>2, <1>3

\* Reading lists the games as they are, or finds them published.
LEMMA RefreshRead ==
  ASSUME BoardInv, TableTyped, PubInv, RefreshInv, NEW w \in Workers, ReadGames(w)
  PROVE  RefreshInv'
<1> USE DEF RefreshInv, BoardInv
<1>1. /\ job[w].step = "reading" /\ UNCHANGED <<games, owed, task, room, late, snapshots, silent>>
      /\ \A v \in Workers \ {w} : job'[v] = job[v]
  BY DEF ReadGames, Typed
<1>2. Board' = Board
  BY <1>1, SameBoard
<1>3. PICK id : id = SnapshotId(job[w].pub, Board)
  OBVIOUS
<1>4. /\ job'[w].pub = job[w].pub /\ job'[w].board = Board
      /\ job'[w].step = IF Board = <<>> \/ Saved(id) THEN "done" ELSE "review"
  <2>1. PICK step : step = IF Board = <<>> \/ Saved(id) THEN "done" ELSE "review"
    OBVIOUS
  <2>2. PICK j : j = [job[w] EXCEPT !.board = Board, !.step = step]
    OBVIOUS
  <2>3. job[w] \in Job
    BY <1>1, JobOf DEF Steps
  <2>4. j.pub = job[w].pub /\ j.board = Board /\ j.step = step
    BY <2>2, <2>3 DEF Job
  <2>5. job' = [job EXCEPT ![w] = j]
    BY <1>3, <2>1, <2>2 DEF ReadGames
  <2> QED BY <2>1, <2>4, <2>5 DEF Typed
<1>5. (Owed <=> Owed') /\ (Excused => Excused')
  BY <1>1 DEF Owed, Excused, ReadGames, TableTyped
<1>6. OldIsOwed'
  <2>1. ASSUME NEW v \in Workers, Old(v)' PROVE Old(v)
    BY <1>1, <1>2, <1>4, <2>1 DEF Old, Leased, Holds
  <2> QED BY <1>5, <2>1 DEF OldIsOwed
<1>7. CASE Excused' \/ Owed' \/ Board = <<>>
  BY <1>2, <1>6, <1>7 DEF NoChangeIsForgotten
<1>8. CASE ~Excused' /\ ~Owed' /\ Board # <<>> /\ Saved(id)
  <2>1. ~late /\ ~reused /\ id = Last(room).id
    <3>1. ~late' /\ ~reused'
      BY <1>8 DEF Excused
    <3>2. reused' = (reused \/ (Saved(id) /\ id # Last(room).id))
      BY <1>3 DEF ReadGames
    <3> QED BY <1>1, <1>8, <3>1, <3>2
  <2>2. PICK i \in DOMAIN snapshots : snapshots[i].id = id
    BY <1>8 DEF Saved
  <2>3. room # <<>>
    BY <2>2 DEF PubInv, Delivered
  <2>4. Last(room).id[2] = Last(room).board
    <3>1. Len(room) \in DOMAIN room
      BY <2>3 DEF Typed
    <3> QED BY <3>1 DEF Named, Last
  <2>5. Last(room).board = Board
    BY <1>3, <2>1, <2>4 DEF SnapshotId
  <2>6. Last(snapshots).id = Last(room).id /\ snapshots # <<>>
    BY <1>8, <2>1, <2>2, <2>3 DEF PubInv, UnquotedNumberMeansLastBoard
  <2>7. UpToDate'
    BY <1>1, <1>2, <2>3, <2>5, <2>6 DEF UpToDate
  <2> QED BY <1>6, <2>7 DEF NoChangeIsForgotten
<1>9. CASE ~Excused' /\ ~Owed' /\ Board # <<>> /\ ~Saved(id)
  <2>1. ASSUME NEW p \in Publications, Pursued(p) PROVE Pursued(p)'
    <3>1. CASE job[w].pub = p /\ Holds(w)
      BY <1>1, <1>2, <1>4, <1>9, <3>1 DEF Pursued, Holds
    <3>2. CASE ~(job[w].pub = p /\ Holds(w))
      BY <1>1, <1>4, <2>1, <3>2, OthersPursue
    <3> QED BY <3>1, <3>2
  <2>2. UpToDate => UpToDate'
    BY <1>1, <1>2 DEF UpToDate
  <2> QED BY <1>2, <1>5, <1>6, <1>9, <2>1, <2>2 DEF NoChangeIsForgotten
<1> QED BY <1>7, <1>8, <1>9

\* The guard lets a board pass while its lease runs: the board is the board of the
\* moment, or its successor is owed.
LEMMA RefreshGuard ==
  ASSUME Typed, TableTyped, RefreshInv, NEW w \in Workers, PassGuard(w)
  PROVE  RefreshInv'
<1> USE DEF RefreshInv
<1>1. /\ job'[w].pub = job[w].pub /\ job'[w].board = job[w].board /\ job'[w].step = "sending"
      /\ \A v \in Workers \ {w} : job'[v] = job[v]
  BY Moves DEF PassGuard, Steps
<1>2. /\ job[w].step = "review" /\ Leased(w)
      /\ UNCHANGED <<games, owed, task, shown, snapshots, silent>>
  BY DEF PassGuard
<1>3. Board' = Board
  BY <1>2, SameBoard
<1>4. ASSUME NEW v \in Workers, Old(v)' PROVE Old(v)
  BY <1>1, <1>2, <1>3, <1>4 DEF Old, Leased, Holds
<1>5. (Owed <=> Owed') /\ (Excused <=> Excused') /\ (UpToDate <=> UpToDate')
  BY <1>2, <1>3 DEF Owed, Excused, UpToDate, shown
<1>6. ASSUME NEW p \in Publications, Pursued(p) PROVE Pursued(p)'
  <2>1. CASE job[w].pub = p /\ Holds(w)
    BY <1>1, <1>2, <1>3, <1>6, <2>1 DEF Pursued, Abandoned, Holds, Leased
  <2>2. CASE ~(job[w].pub = p /\ Holds(w))
    BY <1>1, <1>2, <1>6, <2>2, OthersPursue
  <2> QED BY <2>1, <2>2
<1> QED BY <1>3, <1>4, <1>5, <1>6 DEF OldIsOwed, NoChangeIsForgotten

\* What is sent is the board of the moment, and will be saved, or its successor is owed.
LEMMA RefreshSend ==
  ASSUME Typed, TableTyped, PubInv, RefreshInv, NEW w \in Workers, Send(w)
  PROVE  RefreshInv'
<1> USE DEF RefreshInv
<1>1. /\ job'[w].pub = job[w].pub /\ job'[w].board = job[w].board /\ job'[w].step = "saving"
      /\ \A v \in Workers \ {w} : job'[v] = job[v]
  BY Moves DEF Send, Steps
<1>2. job[w].step = "sending" /\ UNCHANGED <<games, owed, task, late, silent>> /\ (reused => reused')
  BY DEF Send, TableTyped
<1>3. Board' = Board
  BY <1>2, SameBoard
<1>4. ASSUME NEW v \in Workers, Old(v)' PROVE Old(v)
  BY <1>1, <1>2, <1>3, <1>4 DEF Old, Leased, Holds
<1>5. (Owed <=> Owed') /\ (Excused => Excused')
  BY <1>2 DEF Owed, Excused
<1>6. CASE Excused'
  BY <1>6 DEF OldIsOwed, NoChangeIsForgotten
<1>7. CASE ~Excused'
  <2>1. Leased(w) /\ job[w].pub \in Publications
    BY <1>2, <1>7, JobOf DEF PubInv, Timely, Excused, Steps
  <2>2. CASE job[w].board = Board
    <3>1. task[job[w].pub]' = task[job[w].pub] /\ task[job[w].pub].status = "processing"
          /\ task[job[w].pub].holder = w
      BY <1>1, <1>2, <2>1 DEF Leased, Holds
    <3>2. PICK p \in Publications : p = job[w].pub
      BY <2>1
    <3>3. Pursued(p)'
      BY <1>1, <1>2, <1>3, <2>2, <3>1, <3>2 DEF Pursued
    <3> QED BY <1>4, <1>5, <3>3 DEF OldIsOwed, NoChangeIsForgotten
  <2>3. CASE job[w].board # Board
    <3>1. Old(w)
      BY <1>2, <2>1, <2>3 DEF Old
    <3>2. Owed'
      BY <1>5, <1>7, <3>1 DEF OldIsOwed
    <3> QED BY <3>2 DEF OldIsOwed, NoChangeIsForgotten
  <2> QED BY <2>2, <2>3
<1> QED BY <1>6, <1>7

\* Saving the board of the moment brings the room up to date.
LEMMA RefreshSave ==
  ASSUME BoardInv, TableTyped, PubInv, RefreshInv, NEW w \in Workers, SaveBoardSnapshot(w)
  PROVE  RefreshInv'
<1> USE DEF RefreshInv, BoardInv
<1>1. /\ job[w].step = "saving" /\ job'[w].step = "done"
      /\ \A v \in Workers \ {w} : job'[v] = job[v]
  BY Moves DEF SaveBoardSnapshot, Steps
<1>2. UNCHANGED <<games, owed, task, shown, silent>> /\ snapshots' = Append(snapshots, Message(w))
  BY DEF SaveBoardSnapshot
<1>3. Board' = Board
  BY <1>2, SameBoard
<1>4. ASSUME NEW v \in Workers, Old(v)' PROVE Old(v)
  BY <1>1, <1>2, <1>3, <1>4 DEF Old, Leased, Holds
<1>5. (Owed <=> Owed') /\ (Excused <=> Excused')
  BY <1>2 DEF Owed, Excused, shown
<1>6. CASE Excused'
  BY <1>6 DEF OldIsOwed, NoChangeIsForgotten
<1>7. CASE ~Excused'
  <2>1. Leased(w)
    BY <1>1, <1>5, <1>7 DEF PubInv, Timely, Excused
  <2>2. CASE job[w].board = Board
    <3>1. PICK m : m = Message(w) /\ m \in Messages
      BY <1>1, MessageNamed DEF Steps
    <3>2. m.id = Last(room).id /\ m.id \in ledger
      BY <1>1, <1>5, <1>7, <3>1 DEF PubInv, SavesLast, Delivered, Excused
    <3>3. room # <<>> /\ Len(room) \in DOMAIN room
      BY <3>2 DEF PubInv, Delivered, Typed
    <3>4. Last(room).board = Last(room).id[2]
      BY <3>3 DEF Named, Last
    <3>5. m.id[2] = job[w].board
      BY <3>1 DEF Message, SnapshotId
    <3>6. snapshots' # <<>> /\ Last(snapshots') = m
      <4>1. snapshots \in Seq(Messages) /\ snapshots' = Append(snapshots, m)
        BY <1>2, <3>1 DEF Typed
      <4> QED BY <3>1, <4>1, AppendProperties DEF Last
    <3>7. UpToDate'
      BY <1>2, <1>3, <2>2, <3>2, <3>3, <3>4, <3>5, <3>6 DEF UpToDate, shown
    <3> QED BY <1>4, <1>5, <3>7 DEF OldIsOwed, NoChangeIsForgotten
  <2>3. CASE job[w].board # Board
    <3>1. Old(w)
      BY <1>1, <2>1, <2>3 DEF Old
    <3>2. Owed'
      BY <1>5, <1>7, <3>1 DEF OldIsOwed
    <3> QED BY <3>2 DEF OldIsOwed, NoChangeIsForgotten
  <2> QED BY <2>2, <2>3
<1> QED BY <1>6, <1>7

\* A worker that gives up hands its publication back; one that dies abandons it.
LEMMA RefreshEnd ==
  ASSUME Typed, TableTyped, RefreshInv, NEW w \in Workers, Ends(w), job[w].step \in Steps,
         Excused => Excused'
  PROVE  RefreshInv'
<1> USE DEF RefreshInv
<1>1. /\ job'[w] = Idle /\ \A v \in Workers \ {w} : job'[v] = job[v]
      /\ UNCHANGED <<games, owed, room, late, reused, snapshots, silent>>
  BY DEF Ends
<1>2. Board' = Board
  BY <1>1, SameBoard
<1>3. job[w].pub \in Publications
  BY JobOf
<1>4. \A q \in Publications : \/ task'[q] = task[q]
                              \/ /\ q = job[w].pub /\ Holds(w)
                                 /\ task'[q].status \in {"pending", "failed", "completed"}
  BY DEF Ends
<1>5. Owed => Owed'
  BY <1>1, <1>4 DEF Owed, Holds
<1>6. ASSUME NEW v \in Workers, Old(v)' PROVE Old(v)
  <2>1. v # w /\ job'[v] = job[v]
    BY <1>1, <1>6 DEF Old, Idle
  <2>2. job[v].pub \in Publications
    BY <1>6, <2>1, JobOf DEF Old, Steps
  <2>3. task'[job[v].pub] = task[job[v].pub]
    BY <1>4, <1>6, <2>1, <2>2 DEF Old, Leased, Holds
  <2> QED BY <1>2, <1>6, <2>1, <2>3 DEF Old, Leased, Holds
<1>7. OldIsOwed'
  BY <1>5, <1>6 DEF OldIsOwed
<1>8. UpToDate => UpToDate'
  BY <1>1, <1>2 DEF UpToDate
<1>9. ASSUME NEW p \in Publications, Pursued(p)
      PROVE  Pursued(p)' \/ Owed' \/ Excused'
  <2>1. CASE ~(job[w].pub = p /\ Holds(w))
    <3>1. task'[p] = task[p]
      BY <1>4, <2>1
    <3>2. CASE Abandoned(p)
      <4>1. Abandoned(p)'
        BY <1>1, <3>1, <3>2, BoardAssumption DEF Abandoned, Idle
      <4> QED BY <1>9, <3>1, <4>1 DEF Pursued
    <3>3. CASE ~Abandoned(p)
      <4>1. PICK v \in Workers :
              /\ job[v].pub = p /\ task[p].holder = v /\ task[p].status = "processing"
              /\ \/ job[v].step = "reading"
                 \/ job[v].step = "review" /\ ~task[p].leased
                 \/ job[v].step \in {"review", "sending", "saving"} /\ job[v].board = Board
        BY <1>9, <3>3 DEF Pursued
      <4>2. v # w
        BY <2>1, <4>1 DEF Holds
      <4> QED BY <1>1, <1>2, <3>1, <4>1, <4>2 DEF Pursued
    <3> QED BY <3>2, <3>3
  <2>2. CASE job[w].pub = p /\ Holds(w) /\ task'[p] = task[p]
    <3>1. Abandoned(p)'
      BY <1>1, <2>2, BoardAssumption DEF Abandoned, Holds, Idle
    <3> QED BY <1>9, <2>2, <3>1 DEF Pursued
  <2>3. CASE job[w].pub = p /\ Holds(w) /\ task'[p].status = "pending"
    BY <2>3 DEF Owed
  <2>4. CASE job[w].pub = p /\ Holds(w) /\ task'[p].status = "failed"
    BY <2>4 DEF Excused
  <2>5. CASE job[w].pub = p /\ Holds(w) /\ task'[p].status = "completed"
    <3>1. job[w].step = "done"
      BY <2>5 DEF Ends, Holds
    <3> QED BY <1>9, <2>5, <3>1 DEF Pursued, Abandoned, Holds
  <2> QED BY <1>3, <1>4, <2>1, <2>2, <2>3, <2>4, <2>5
<1> QED BY <1>2, <1>5, <1>7, <1>8, <1>9 DEF NoChangeIsForgotten

\* A lease that runs out under a worker in review has it refused.
LEMMA RefreshLease ==
  ASSUME Typed, TableTyped, RefreshInv, NEW p \in Publications, LeaseRunsOut(p), Excused => Excused'
  PROVE  RefreshInv'
<1> USE DEF RefreshInv
<1>1. UNCHANGED <<games, owed, job, room, snapshots>>
  BY DEF LeaseRunsOut
<1>2. Board' = Board
  BY <1>1, SameBoard
<1>3. /\ task[p].status = "processing" /\ task'[p].status = "processing"
      /\ task'[p].holder = task[p].holder /\ ~task'[p].leased
      /\ \A q \in Publications \ {p} : task'[q] = task[q]
  BY LeaseShape
<1>4. (Owed => Owed') /\ (UpToDate => UpToDate')
  BY <1>1, <1>2, <1>3 DEF Owed, UpToDate
<1>5. ASSUME NEW v \in Workers, Old(v)' PROVE Old(v)
  <2>1. job[v].pub \in Publications
    BY <1>1, <1>5, JobOf DEF Old, Steps
  <2> QED BY <1>1, <1>2, <1>3, <1>5, <2>1 DEF Old, Leased, Holds
<1>6. ASSUME NEW q \in Publications, Pursued(q) PROVE Pursued(q)'
  BY <1>1, <1>2, <1>3, <1>6 DEF Pursued, Abandoned
<1> QED BY <1>2, <1>4, <1>5, <1>6 DEF OldIsOwed, NoChangeIsForgotten

LEMMA RefreshStep == BoardInv /\ TableTyped /\ PubInv /\ RefreshInv /\ [Next]_vars => RefreshInv'
<1> SUFFICES ASSUME BoardInv, TableTyped, PubInv, RefreshInv, [Next]_vars PROVE RefreshInv'
  OBVIOUS
<1> USE DEF BoardInv
<1>1. Excused => Excused'
  BY ExcusedStays
<1>2. CASE GameStep \/ HookStep \/ UNCHANGED vars
  BY <1>2, RefreshQuiet
<1>3. ASSUME NEW w \in Workers, Work(w) \/ Faulty(w) PROVE RefreshInv'
  <2>1. ASSUME NEW p \in Publications, ClaimPublication(w, p) PROVE RefreshInv'
    BY <2>1, RefreshClaim
  <2>2. CASE ReadGames(w) \/ PassGuard(w) \/ Send(w) \/ SaveBoardSnapshot(w)
    BY <2>2, RefreshRead, RefreshGuard, RefreshSend, RefreshSave
  <2>3. CASE \/ CompletePublication(w) \/ RefusePublication(w) \/ FailPublication(w) \/ TimeOut(w)
             \/ DeferPublication(w) \/ Crash(w)
    BY <1>1, <2>3, EndShape, RefreshEnd
  <2> QED BY <1>3, <2>1, <2>2, <2>3 DEF Work, Faulty
<1>4. ASSUME NEW m \in bridge, SayLate(m) PROVE RefreshInv'
  BY <1>4 DEF SayLate, RefreshInv, OldIsOwed, NoChangeIsForgotten, Excused
<1>5. ASSUME NEW p \in Publications, LeaseRunsOut(p) PROVE RefreshInv'
  BY <1>1, <1>5, RefreshLease
<1> QED BY <1>2, <1>3, <1>4, <1>5 DEF Next

LEMMA RefreshInit == Init => RefreshInv
<1> SUFFICES ASSUME Init PROVE RefreshInv
  OBVIOUS
<1>1. \A w \in Workers : ~Old(w)
  BY DEF Init, Old, Idle
<1>2. Board = <<>>
  <2>1. Listed = {}
    BY DEF Init, Listed
  <2> QED BY <2>1, EmptyBoard
<1> QED BY <1>1, <1>2 DEF RefreshInv, OldIsOwed, NoChangeIsForgotten

\* The room sees the games as they are, or a refresh is owed or on its way: no change
\* falls between a publication that has read its games and the request that it absorbs.
THEOREM NothingForgotten == Spec => []NoChangeIsForgotten
<1> DEFINE Inv == BoardInv /\ TableTyped /\ PubInv /\ RefreshInv
<1>1. Init => Inv
  BY InvInit, TableInit, PubInit, RefreshInit
<1>2. Inv /\ [Next]_vars => Inv'
  BY InvStep, TableStep, PubStep, RefreshStep DEF BoardInv
<1>3. Inv => NoChangeIsForgotten
  BY DEF RefreshInv
<1> QED BY <1>1, <1>2, <1>3, PTL DEF Spec

----------------------------------------------------------------------------
(* The publish tasks are leased work: the owner of a publication is the    *)
(* worker that claimed it last, while it is at it.                         *)

\* The phase of every status.
LEMMA PhaseIs ==
  /\ Phase("absent") = "absent" /\ Phase("pending") = "open" /\ Phase("processing") = "held"
  /\ Phase("completed") = "closed" /\ Phase("failed") = "closed"
<1>1. Phase("absent") = "absent" /\ Phase("pending") = "open" /\ Phase("processing") = "held"
  BY DEF Phase
<1>2. Phase("completed") = "closed" /\ Phase("failed") = "closed"
  BY DEF Phase
<1> QED BY <1>1, <1>2

\* The owner is the worker that holds the publication it works on.
LEMMA OwnerHolds ==
  ASSUME NEW w \in Workers, NEW p \in Publications
  PROVE  Owner(p) = w <=> job[w].pub = p /\ Holds(w)
<1>1. w # None
  BY BoardAssumption
<1> QED BY <1>1 DEF Owner, Abandoned, Holds

\* The owner depends on the task and on the job of its holder only.
LEMMA SameOwner ==
  ASSUME NEW p \in Publications,
         task'[p].status = task[p].status, task'[p].holder = task[p].holder,
         \A v \in Workers : task[p].holder = v => (job'[v].pub = p <=> job[v].pub = p)
  PROVE  Phase(task'[p].status) = Phase(task[p].status) /\ Owner(p)' = Owner(p)
<1>1. task[p].status = "processing" => (Abandoned(p)' <=> Abandoned(p))
  BY DEF Abandoned
<1> QED BY <1>1 DEF Owner

\* A task that is not processed has no owner.
LEMMA NoOwner ==
  ASSUME NEW p \in Publications, task[p].status # "processing"
  PROVE  Owner(p) = None
BY DEF Owner

LEMMA RefinedInit == Init => Publishing!Init
<1> SUFFICES ASSUME Init PROVE Publishing!Init
  OBVIOUS
<1>1. \A p \in Publications : task[p].status = "absent"
  BY DEF Init
<1>2. \A p \in Publications : Phase(task[p].status) = "absent" /\ Owner(p) = None
  BY <1>1, PhaseIs, NoOwner
<1>3. \A w \in Workers : job[w].pub = None
  BY DEF Init, Idle
<1> QED BY <1>2, <1>3 DEF Publishing!Init

\* A step that keeps the status and the holder of every task and the publication of
\* every worker is no step of theirs.
LEMMA RefinedStutter ==
  ASSUME \A p \in Publications : /\ task'[p].status = task[p].status
                                 /\ task'[p].holder = task[p].holder,
         \A w \in Workers : job'[w].pub = job[w].pub
  PROVE  UNCHANGED Publishing!vars
<1>1. \A p \in Publications : Phase(task'[p].status) = Phase(task[p].status) /\ Owner(p)' = Owner(p)
  BY SameOwner
<1> QED BY <1>1 DEF Publishing!vars

\* Changes of games and their hooks administer: they ask for publications.
LEMMA RefinedQuiet ==
  ASSUME TableTyped, TableTyped', GameStep \/ HookStep \/ UNCHANGED vars
  PROVE  Publishing!Administer
<1>1. /\ UNCHANGED job /\ Undisturbed
      /\ \A p \in Publications : task'[p] = task[p] \/ task[p].status = "absent"
  BY QuietShape
<1>2. \A p \in Publications : Phase(task'[p].status) \in Publishing!Phases /\ Owner(p)' \in Workers \cup {None}
  <2>1. ASSUME NEW p \in Publications
        PROVE  /\ task'[p].status \in {"absent", "pending", "processing", "completed", "failed"}
               /\ task'[p].holder \in Workers \cup {None}
    BY DEF TableTyped, Task
  <2>2. \A p \in Publications : Phase(task'[p].status) \in Publishing!Phases
    BY <2>1, PhaseIs DEF Publishing!Phases
  <2> QED BY <2>1, <2>2 DEF Owner
<1>3. ASSUME NEW p \in Publications
      PROVE  \/ Phase(task'[p].status) = Phase(task[p].status) /\ Owner(p)' = Owner(p)
             \/ Phase(task'[p].status) \in {"open", "closed"} /\ Owner(p)' = None
  <2>1. CASE task'[p] = task[p]
    BY <1>1, <2>1, SameOwner
  <2>2. CASE task'[p] # task[p]
    <3>1. task[p].status = "absent" /\ task'[p].status \in {"absent", "pending", "completed", "failed"}
      BY <1>1, <2>2 DEF Undisturbed, TableTyped, Task
    <3>2. Owner(p) = None /\ Owner(p)' = None
      BY <3>1 DEF Owner
    <3> QED BY <3>1, <3>2, PhaseIs
  <2> QED BY <2>1, <2>2
<1> QED BY <1>1, <1>2, <1>3 DEF Publishing!Administer

\* A claim takes the publication, from nobody or from a worker whose lease ran out.
LEMMA RefinedClaim ==
  ASSUME Typed, TableTyped, NEW w \in Workers, NEW p \in Publications, ClaimPublication(w, p)
  PROVE  Publishing!Take(w, p)
<1>1. /\ job[w] = Idle /\ job'[w].pub = p
      /\ \A v \in Workers \ {w} : job'[v] = job[v]
      /\ task'[p].status = "processing" /\ task'[p].holder = w
      /\ task[p].status \in {"pending", "processing"}
      /\ \A q \in Publications \ {p} : task'[q] = task[q]
  BY ClaimShape
<1>2. job[w].pub = None /\ None \notin Publications
  BY <1>1, BoardAssumption DEF Idle
<1>3. Phase(task[p].status) \in {"open", "held"} /\ Phase(task'[p].status) = "held"
  BY <1>1, PhaseIs
<1>4. Owner(p)' = w
  BY <1>1 DEF Owner, Abandoned
<1>5. ASSUME NEW q \in Publications, q # p
      PROVE  Phase(task'[q].status) = Phase(task[q].status) /\ Owner(q)' = Owner(q)
  <2>1. \A v \in Workers : job'[v].pub = q <=> job[v].pub = q
    BY <1>1, <1>2, <1>5
  <2> QED BY <1>1, <1>5, <2>1, SameOwner
<1>6. [q \in Publications |-> Phase(task'[q].status)]
        = [[q \in Publications |-> Phase(task[q].status)] EXCEPT ![p] = "held"]
  BY <1>3, <1>5
<1>7. [q \in Publications |-> Owner(q)'] = [[q \in Publications |-> Owner(q)] EXCEPT ![p] = w]
  BY <1>4, <1>5
<1>8. [v \in Workers |-> job'[v].pub] = [[v \in Workers |-> job[v].pub] EXCEPT ![w] = p]
  BY <1>1
<1> QED BY <1>2, <1>3, <1>6, <1>7, <1>8 DEF Publishing!Take

\* A worker that reads, passes, sends or saves keeps its publication.
LEMMA RefinedWork ==
  ASSUME Typed, NEW w \in Workers,
         ReadGames(w) \/ PassGuard(w) \/ Send(w) \/ SaveBoardSnapshot(w)
  PROVE  UNCHANGED Publishing!vars
<1>1. UNCHANGED task /\ job[w].step \in Steps
  BY DEF ReadGames, PassGuard, Send, SaveBoardSnapshot, Steps
<1>2. CASE PassGuard(w) \/ Send(w) \/ SaveBoardSnapshot(w)
  <2>1. \A v \in Workers : job'[v].pub = job[v].pub
    BY <1>1, <1>2, Moves DEF PassGuard, Send, SaveBoardSnapshot, Steps
  <2> QED BY <1>1, <2>1, RefinedStutter
<1>3. CASE ReadGames(w)
  <2>1. job[w] \in Job
    BY <1>1, JobOf
  <2>2. PICK step : step = IF Board = <<>> \/ Saved(SnapshotId(job[w].pub, Board)) THEN "done" ELSE "review"
    OBVIOUS
  <2>3. PICK j : j = [job[w] EXCEPT !.board = Board, !.step = step]
    OBVIOUS
  <2>4. j.pub = job[w].pub
    BY <2>1, <2>3 DEF Job
  <2>5. \A v \in Workers : job'[v] = IF v = w THEN j ELSE job[v]
    <3>1. job' = [job EXCEPT ![w] = j]
      BY <1>3, <2>2, <2>3 DEF ReadGames
    <3> QED BY <3>1 DEF Typed
  <2>6. \A v \in Workers : job'[v].pub = job[v].pub
    BY <2>4, <2>5
  <2> QED BY <1>1, <2>6, RefinedStutter
<1> QED BY <1>2, <1>3

\* A worker that ends its job settles its publication if it is its owner, and changes
\* none otherwise; one that dies abandons it.
LEMMA RefinedEnd ==
  ASSUME Typed, TableTyped, NEW w \in Workers, Ends(w), job[w].step \in Steps
  PROVE  \E p \in Publications : Publishing!Settle(w, p) \/ Publishing!Abandon(w, p)
<1>1. PICK p \in Publications : p = job[w].pub
  BY JobOf
<1>2. job'[w].pub = None /\ \A v \in Workers \ {w} : job'[v] = job[v]
  BY DEF Ends, Idle
<1>3. None \notin Publications /\ None \notin Workers
  BY BoardAssumption
<1>4. \A q \in Publications \ {p} : task'[q] = task[q]
  BY <1>1 DEF Ends
<1>5. [v \in Workers |-> job'[v].pub] = [[v \in Workers |-> job[v].pub] EXCEPT ![w] = None]
  BY <1>2
<1>6. ASSUME NEW q \in Publications, q # p
      PROVE  Phase(task'[q].status) = Phase(task[q].status) /\ Owner(q)' = Owner(q)
  <2>1. \A v \in Workers : job'[v].pub = q <=> job[v].pub = q
    BY <1>1, <1>2, <1>3, <1>6
  <2> QED BY <1>4, <1>6, <2>1, SameOwner
<1>7. Owner(p) = w <=> Holds(w)
  BY <1>1, OwnerHolds
<1>8. CASE Holds(w) /\ task'[p].status \in {"pending", "failed", "completed"}
  <2>1. Phase(task'[p].status) \in {"open", "closed"}
    BY <1>8, PhaseIs
  <2>2. Owner(p)' = None
    BY <1>8 DEF Owner
  <2>3. PICK ph \in {"open", "closed"} : ph = Phase(task'[p].status)
    BY <2>1
  <2>4. [q \in Publications |-> Phase(task'[q].status)]
          = [[q \in Publications |-> Phase(task[q].status)] EXCEPT ![p] = ph]
    BY <1>6, <2>3
  <2>5. [q \in Publications |-> Owner(q)'] = [[q \in Publications |-> Owner(q)] EXCEPT ![p] = None]
    BY <1>6, <2>2
  <2>6. [q \in Publications |-> Owner(q)][p] = w /\ [v \in Workers |-> job[v].pub][w] = p
    BY <1>1, <1>7, <1>8
  <2>7. Publishing!Settle(w, p)
    BY <1>5, <2>4, <2>5, <2>6 DEF Publishing!Settle
  <2> QED BY <2>7
<1>9. CASE UNCHANGED task /\ ~Holds(w)
  <2>1. task[p].status = "processing" => task[p].holder # w
    BY <1>1, <1>9 DEF Holds
  <2>2. Owner(p)' = Owner(p)
    <3>1. CASE task[p].status = "processing"
      <4>1. \A v \in Workers : task[p].holder = v => (job'[v].pub = p <=> job[v].pub = p)
        BY <1>2, <2>1, <3>1
      <4> QED BY <1>9, <4>1, SameOwner
    <3>2. CASE task[p].status # "processing"
      BY <1>9, <3>2 DEF Owner
    <3> QED BY <3>1, <3>2
  <2>3. \A q \in Publications : Phase(task'[q].status) = Phase(task[q].status) /\ Owner(q)' = Owner(q)
    BY <1>6, <1>9, <2>2
  <2>4. [q \in Publications |-> Owner(q)][p] # w /\ [v \in Workers |-> job[v].pub][w] = p
    BY <1>1, <1>7, <1>9
  <2>5. Publishing!Settle(w, p)
    BY <1>5, <2>3, <2>4 DEF Publishing!Settle
  <2> QED BY <2>5
<1>10. CASE UNCHANGED task /\ Holds(w)
  <2>1. Abandoned(p)'
    BY <1>1, <1>2, <1>3, <1>10 DEF Abandoned, Holds
  <2>2. Owner(p)' = None
    BY <2>1 DEF Owner
  <2>3. [q \in Publications |-> Owner(q)'] = [[q \in Publications |-> Owner(q)] EXCEPT ![p] = IF @ = w THEN None ELSE @]
    BY <1>6, <1>7, <1>10, <2>2
  <2>4. [q \in Publications |-> Phase(task'[q].status)] = [q \in Publications |-> Phase(task[q].status)]
    BY <1>10
  <2>5. [v \in Workers |-> job[v].pub][w] = p
    BY <1>1
  <2>6. Publishing!Abandon(w, p)
    BY <1>5, <2>3, <2>4, <2>5 DEF Publishing!Abandon
  <2> QED BY <2>6
<1> QED BY <1>1, <1>8, <1>9, <1>10 DEF Ends

LEMMA RefinedStep ==
  ASSUME Typed, TableTyped, TableTyped', [Next]_vars
  PROVE  [Publishing!Next]_Publishing!vars
<1>1. CASE GameStep \/ HookStep \/ UNCHANGED vars
  BY <1>1, RefinedQuiet DEF Publishing!Next
<1>2. ASSUME NEW w \in Workers, NEW p \in Publications, ClaimPublication(w, p)
      PROVE  Publishing!Next
  BY <1>2, RefinedClaim DEF Publishing!Next
<1>3. ASSUME NEW w \in Workers,
             \/ CompletePublication(w) \/ RefusePublication(w) \/ FailPublication(w) \/ TimeOut(w)
             \/ DeferPublication(w) \/ Crash(w)
      PROVE  Publishing!Next
  <2>1. Ends(w) /\ job[w].step \in Steps
    BY <1>3, EndShape
  <2> QED BY <2>1, RefinedEnd DEF Publishing!Next
<1>4. ASSUME NEW w \in Workers, Work(w) \/ Faulty(w) PROVE [Publishing!Next]_Publishing!vars
  BY <1>2, <1>3, <1>4, RefinedWork DEF Work, Faulty
<1>5. ASSUME NEW m \in bridge, SayLate(m) PROVE UNCHANGED Publishing!vars
  <2>1. UNCHANGED <<task, job>>
    BY <1>5 DEF SayLate
  <2> QED BY <2>1, RefinedStutter
<1>6. ASSUME NEW p \in Publications, LeaseRunsOut(p) PROVE UNCHANGED Publishing!vars
  <2>1. UNCHANGED job
    BY <1>6 DEF LeaseRunsOut
  <2>2. \A q \in Publications : task'[q].status = task[q].status /\ task'[q].holder = task[q].holder
    BY <1>6, LeaseShape
  <2> QED BY <2>1, <2>2, RefinedStutter
<1> QED BY <1>1, <1>4, <1>5, <1>6 DEF Next

\* The publishers of a room implement leased work: a publication is worked at by whom
\* it was claimed last, and a worker whose claim was taken over settles nothing.
THEOREM PublicationsAreLeasedWork == Spec => ImplementsLeasedWork
<1> DEFINE Inv == BoardInv /\ TableTyped
<1>1. Init => Inv
  BY InvInit, TableInit
<1>2. Inv /\ [Next]_vars => Inv'
  BY InvStep, TableStep DEF BoardInv
<1>3. Init => Publishing!Init
  BY RefinedInit
<1>4. Inv /\ Inv' /\ [Next]_vars => [Publishing!Next]_Publishing!vars
  BY RefinedStep DEF BoardInv
<1> QED BY <1>1, <1>2, <1>3, <1>4, PTL DEF Spec, ImplementsLeasedWork, Publishing!Spec
===============================================================================
