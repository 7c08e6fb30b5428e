-------------------------- MODULE WaitingMatch_proofs --------------------------
(***************************************************************************)
(* The claims of waiting demands for any number of customers, demands,      *)
(* games and threads: who holds a claim, when it is given back, and that    *)
(* no match is notified twice.                                              *)
(***************************************************************************)
EXTENDS WaitingMatch, TLAPS

\* Where a thread holds the claim of a demand, and where it works on a game.
Dispatching == {"dispatching", "calling", "triggered", "drafting", "releasing"}
Hooked == {"sweeping", "scanning", "claiming"} \cup Dispatching

PlaceOf(t) == /\ thread[t].demand # None <=> thread[t].pc \in Dispatching
              /\ thread[t].pc \in Hooked => thread[t].game \in Games

Places == \A t \in Threads : PlaceOf(t)

Typed == TypeOK /\ Places

LEMMA TypeInit == Init => Typed
<1> SUFFICES ASSUME Init PROVE Typed
  OBVIOUS
<1> USE WaitingAssumption
<1>1. Idle \in Thread
  BY DEF Idle, Thread
<1>2. Places
  BY DEF Init, Idle, Places, PlaceOf, Dispatching, Hooked
<1>3. seat \in [Games -> [Customers -> SeatStatuses]]
  BY DEF Init, SeatStatuses
<1>5. host \in [Games -> Customers \cup {None}]
  BY DEF Init
<1>4. demand \in [Demands -> [status : Statuses, game : Games \cup {None}]]
      /\ \A d \in Demands : demand[d].status \in {"absent", "active"} => demand[d].game = None
  BY DEF Init, Statuses
<1> QED BY <1>1, <1>2, <1>3, <1>4, <1>5 DEF Init, TypeOK, Typed, Answers

\* A step that only moves one thread.
LEMMA MoveType ==
  ASSUME Typed, NEW t \in Threads, NEW c \in Thread, thread' = [thread EXCEPT ![t] = c],
         c.demand # None <=> c.pc \in Dispatching, c.pc \in Hooked => c.game \in Games
  PROVE  thread' \in [Threads -> Thread] /\ Places'
<1>1. thread' \in [Threads -> Thread]
  BY DEF Typed, TypeOK
<1>2. \A u \in Threads : thread'[u] = IF u = t THEN c ELSE thread[u]
  BY DEF Typed, TypeOK
<1>3. Places'
  BY <1>2 DEF Typed, Places, PlaceOf
<1> QED BY <1>1, <1>3

\* The fields of a thread's record, updated.
LEMMA Fields ==
  ASSUME Typed, NEW t \in Threads
  PROVE  /\ thread[t] \in Thread /\ PlaceOf(t) /\ Idle \in Thread
         /\ \A pc \in Hooked \cup {"running"} : [thread[t] EXCEPT !.pc = pc] \in Thread
         /\ [thread[t] EXCEPT !.pc = "claiming", !.demand = None, !.stale = FALSE] \in Thread
  BY DEF Typed, TypeOK, Places, Thread, Idle, Hooked, Dispatching

LEMMA GoToType ==
  ASSUME Typed, NEW t \in Threads, NEW pc \in Hooked, GoTo(t, pc), thread[t].pc \in Hooked,
         pc \in Dispatching <=> thread[t].pc \in Dispatching
  PROVE  thread' \in [Threads -> Thread] /\ Places'
<1> DEFINE c == [thread[t] EXCEPT !.pc = pc]
<1>1. c \in Thread /\ thread' = [thread EXCEPT ![t] = c]
  BY Fields DEF GoTo, Typed, TypeOK
<1>2. c.pc = pc /\ c.demand = thread[t].demand /\ c.game = thread[t].game
  BY Fields DEF Thread
<1>3. /\ c.demand # None <=> c.pc \in Dispatching
      /\ c.pc \in Hooked => c.game \in Games
  BY <1>2, Fields DEF PlaceOf
<1> HIDE DEF c
<1> QED BY <1>1, <1>3, MoveType

LEMMA NextDemandType ==
  ASSUME Typed, NEW t \in Threads, NextDemand(t), thread[t].pc \in Hooked
  PROVE  thread' \in [Threads -> Thread] /\ Places'
<1> DEFINE c == [thread[t] EXCEPT !.pc = "claiming", !.demand = None, !.stale = FALSE]
<1>1. c \in Thread /\ thread' = [thread EXCEPT ![t] = c]
  BY Fields DEF NextDemand, Typed, TypeOK
<1>2. c.pc = "claiming" /\ c.demand = None /\ c.game = thread[t].game
  BY DEF Typed, TypeOK, Thread
<1>3. /\ c.demand # None <=> c.pc \in Dispatching
      /\ c.pc \in Hooked => c.game \in Games
  BY <1>2, Fields DEF PlaceOf, Dispatching
<1> HIDE DEF c
<1> QED BY <1>1, <1>3, MoveType

\* What a tool call does to the participants and the organizer.
LEMMA SeatsType ==
  ASSUME Typed, NEW c \in Customers \cup {None}, NEW g \in Games,
         \/ CreateGame(c, g) \/ JoinGame(c, g)
         \/ RecordCandidateReply(c, g) \/ RecordRegisteredMemberWithdrawal(c, g)
  PROVE  seat' \in [Games -> [Customers -> SeatStatuses]] /\ host' \in [Games -> Customers \cup {None}]
<1>0. seat \in [Games -> [Customers -> SeatStatuses]] /\ host \in [Games -> Customers \cup {None}]
  BY DEF Typed, TypeOK
<1>1. ASSUME NEW e, NEW status \in SeatStatuses, SetSeat(g, e, status)
      PROVE  seat' \in [Games -> [Customers -> SeatStatuses]]
  BY <1>0, <1>1 DEF SetSeat
<1>2. CASE CreateGame(c, g)
  <2>1. PICK known : seat' = [seat EXCEPT ![g] = [e \in Customers |-> IF e = c THEN "confirmed"
                                             ELSE IF e \in known THEN "registered" ELSE "none"]]
    BY <1>2 DEF CreateGame
  <2>2. seat' \in [Games -> [Customers -> SeatStatuses]]
    BY <1>0, <2>1 DEF SeatStatuses
  <2> QED BY <1>0, <1>2, <2>2 DEF CreateGame
<1>3. CASE JoinGame(c, g)
  BY <1>0, <1>1, <1>3 DEF JoinGame, SeatStatuses
<1>4. CASE RecordCandidateReply(c, g)
  BY <1>0, <1>1, <1>4 DEF RecordCandidateReply, SeatStatuses
<1>5. CASE RecordRegisteredMemberWithdrawal(c, g)
  BY <1>0, <1>1, <1>5 DEF RecordRegisteredMemberWithdrawal, SeatStatuses
<1> QED BY <1>2, <1>3, <1>4, <1>5

LEMMA TypeStep == Typed /\ [Next]_vars => Typed'
<1> SUFFICES ASSUME Typed, [Next]_vars PROVE Typed'
  OBVIOUS
<1> USE WaitingAssumption
<1>0. TypeOK /\ Places
  BY DEF Typed
<1>r. \A t \in Threads : thread[t] \in Thread
  BY <1>0 DEF TypeOK
<1>1. ASSUME NEW t \in Threads, NEW c \in Customers, EnterConversation(t, c) PROVE Typed'
  <2> DEFINE new == [Idle EXCEPT !.pc = "running", !.customer = c]
  <2>1. new \in Thread /\ new.demand = None /\ new.pc = "running"
    BY DEF Idle, Thread
  <2>2. (new.demand # None <=> new.pc \in Dispatching) /\ (new.pc \in Hooked => new.game \in Games)
    BY <2>1 DEF Hooked, Dispatching
  <2>3. thread' = [thread EXCEPT ![t] = new]
    BY <1>1 DEF EnterConversation
  <2> HIDE DEF new
  <2>4. thread' \in [Threads -> Thread] /\ Places'
    BY <2>1, <2>2, <2>3, MoveType
  <2> QED BY <1>0, <1>1, <2>4 DEF EnterConversation, store, TypeOK, Typed
<1>2. ASSUME NEW t \in Threads, LeaveConversation(t) PROVE Typed'
  <2>1. Idle \in Thread /\ (Idle.demand # None <=> Idle.pc \in Dispatching)
        /\ (Idle.pc \in Hooked => Idle.game \in Games)
    BY DEF Idle, Thread, Hooked, Dispatching
  <2>2. thread' \in [Threads -> Thread] /\ Places'
    BY <1>2, <2>1, MoveType DEF LeaveConversation
  <2> QED BY <1>0, <1>2, <2>2 DEF LeaveConversation, store, TypeOK, Typed
<1>3. ASSUME NEW t \in Threads, NEW d \in Demands, RegisterWaitingDemand(t, d) PROVE Typed'
  BY <1>0, <1>3 DEF RegisterWaitingDemand, TypeOK, Typed, Places, PlaceOf, Statuses
<1>4. ASSUME NEW t \in Threads, NEW d \in Demands, CancelWaitingDemand(t, d) PROVE Typed'
  BY <1>0, <1>4 DEF CancelWaitingDemand, TypeOK, Typed, Places, PlaceOf, Statuses, Ended
<1>5. ASSUME NEW t \in Threads, NEW g \in Games, ChangeGame(t, g) PROVE Typed'
  <2> DEFINE new == [thread[t] EXCEPT !.pc = "sweeping", !.game = g]
  <2>1. new \in Thread /\ new.demand = thread[t].demand /\ new.pc = "sweeping" /\ new.game = g
    BY <1>r DEF Thread
  <2>2. thread[t].demand = None
    BY <1>0, <1>5 DEF ChangeGame, Places, PlaceOf, Dispatching
  <2>3. (new.demand # None <=> new.pc \in Dispatching) /\ (new.pc \in Hooked => new.game \in Games)
    BY <2>1, <2>2 DEF Dispatching
  <2>4. thread' = [thread EXCEPT ![t] = new]
    BY <1>0, <1>5 DEF ChangeGame, TypeOK
  <2> HIDE DEF new
  <2>5. thread' \in [Threads -> Thread] /\ Places'
    BY <2>1, <2>3, <2>4, MoveType
  <2>6. calls' \in 0..MaxCalls
    BY <1>0, <1>5 DEF ChangeGame, TypeOK
  <2>7. seat' \in [Games -> [Customers -> SeatStatuses]] /\ host' \in [Games -> Customers \cup {None}]
    <3>1. thread[t].customer \in Customers \cup {None}
      BY <1>r DEF Thread
    <3> QED BY <1>5, <3>1, SeatsType DEF ChangeGame
  <2> QED BY <1>0, <1>5, <2>5, <2>6, <2>7 DEF ChangeGame, TypeOK, Typed
<1>6. ASSUME NEW d \in Demands, Lapse(d) PROVE Typed'
  BY <1>0, <1>6 DEF Lapse, TypeOK, Typed, Places, PlaceOf
<1>7. ASSUME demand' = Swept
      PROVE  /\ demand' \in [Demands -> [status : Statuses, game : Games \cup {None}]]
             /\ \A d \in Demands : demand'[d].status \in {"absent", "active"} => demand'[d].game = None
  <2>1. /\ demand \in [Demands -> [status : Statuses, game : Games \cup {None}]]
        /\ \A d \in Demands : demand[d].status \in {"absent", "active"} => demand[d].game = None
    BY <1>0 DEF TypeOK
  <2>2. ASSUME NEW d \in Demands
        PROVE  /\ Swept[d] \in [status : Statuses, game : Games \cup {None}]
               /\ Swept[d].status \in {"absent", "active"} => Swept[d].game = None
    <3>1. demand[d] \in [status : Statuses, game : Games \cup {None}]
      BY <2>1
    <3>2. [demand[d] EXCEPT !.status = "expired"] \in [status : Statuses, game : Games \cup {None}]
          /\ [demand[d] EXCEPT !.status = "expired"].status = "expired"
      BY <3>1 DEF Statuses, Ended
    <3>3. Swept[d] = [demand[d] EXCEPT !.status = "expired"] \/ Swept[d] = demand[d]
      BY DEF Swept
    <3> QED BY <2>1, <3>1, <3>2, <3>3
  <2>3. Swept = [d \in Demands |-> Swept[d]]
    BY DEF Swept
  <2> QED BY <1>7, <2>2, <2>3
<1>8. ASSUME NEW t \in Threads, SweepFirst(t) PROVE Typed'
  <2>1. thread' \in [Threads -> Thread] /\ Places'
    BY <1>8, GoToType DEF SweepFirst, Hooked, Dispatching
  <2> QED BY <1>0, <1>7, <1>8, <2>1 DEF SweepFirst, TypeOK, Typed
<1>9. CASE SweepExpired
  BY <1>0, <1>7, <1>9 DEF SweepExpired, TypeOK, Typed, Places, PlaceOf
<1>10. ASSUME NEW t \in Threads, Scan(t) PROVE Typed'
  <2>1. PICK found \in SUBSET Demands : thread' = [thread EXCEPT ![t].pc = "claiming", ![t].todo = found]
    <3> DEFINE found == IF IsFull(thread[t].game) THEN {}
                        ELSE {d \in Demands : demand[d].status = "active" /\ d \notin lapsed
                                                /\ Matches(d, thread[t].game)}
    <3>1. thread' = [thread EXCEPT ![t].pc = "claiming", ![t].todo = found] /\ found \in SUBSET Demands
      BY <1>10 DEF Scan
    <3> HIDE DEF found
    <3> QED BY <3>1
  <2> DEFINE new == [thread[t] EXCEPT !.pc = "claiming", !.todo = found]
  <2>2. new \in Thread /\ new.demand = thread[t].demand /\ new.pc = "claiming" /\ new.game = thread[t].game
    BY <1>r DEF Thread
  <2>3. (new.demand # None <=> new.pc \in Dispatching) /\ (new.pc \in Hooked => new.game \in Games)
    BY <1>0, <1>10, <2>2 DEF Scan, Places, PlaceOf, Hooked, Dispatching
  <2>4. thread' = [thread EXCEPT ![t] = new]
    BY <1>0, <2>1 DEF TypeOK
  <2> HIDE DEF new
  <2>5. thread' \in [Threads -> Thread] /\ Places'
    BY <2>2, <2>3, <2>4, MoveType
  <2> QED BY <1>0, <1>10, <2>5 DEF Scan, store, TypeOK, Typed
<1>11. ASSUME NEW t \in Threads, ClaimWaitingDemandMatch(t) PROVE Typed'
  <2>1. PICK d \in thread[t].todo :
          IF Claimable(d)
            THEN /\ demand' = [demand EXCEPT ![d] = [status |-> "matched", game |-> thread[t].game]]
                 /\ thread' = [thread EXCEPT ![t].pc = "dispatching", ![t].todo = @ \ {d}, ![t].demand = d]
            ELSE /\ thread' = [thread EXCEPT ![t].todo = @ \ {d}]
                 /\ UNCHANGED demand
    BY <1>11 DEF ClaimWaitingDemandMatch
  <2>2. d \in Demands /\ thread[t].game \in Games /\ thread[t].demand = None /\ thread[t].pc = "claiming"
    BY <1>0, <1>11 DEF ClaimWaitingDemandMatch, TypeOK, Thread, Places, PlaceOf, Hooked, Dispatching
  <2>3. CASE Claimable(d)
    <3> DEFINE new == [thread[t] EXCEPT !.pc = "dispatching", !.todo = @ \ {d}, !.demand = d]
    <3>1. new \in Thread /\ new.demand = d /\ new.pc = "dispatching" /\ new.game = thread[t].game
      BY <1>r, <2>2 DEF Thread
    <3>2. (new.demand # None <=> new.pc \in Dispatching) /\ (new.pc \in Hooked => new.game \in Games)
      BY <2>2, <3>1 DEF Dispatching
    <3>3. thread' = [thread EXCEPT ![t] = new]
      BY <1>0, <2>1, <2>3 DEF TypeOK
    <3> HIDE DEF new
    <3>4. thread' \in [Threads -> Thread] /\ Places'
      BY <3>1, <3>2, <3>3, MoveType
    <3>5. /\ demand' \in [Demands -> [status : Statuses, game : Games \cup {None}]]
          /\ \A e \in Demands : demand'[e].status \in {"absent", "active"} => demand'[e].game = None
      <4> DEFINE claim == [status |-> "matched", game |-> thread[t].game]
      <4>1. claim \in [status : Statuses, game : Games \cup {None}] /\ claim.status = "matched"
        BY <2>2 DEF Statuses
      <4>2. demand' = [demand EXCEPT ![d] = claim]
        BY <2>1, <2>3
      <4> HIDE DEF claim
      <4> QED BY <1>0, <2>2, <4>1, <4>2 DEF TypeOK
    <3> QED BY <1>0, <1>11, <3>4, <3>5 DEF ClaimWaitingDemandMatch, TypeOK, Typed
  <2>4. CASE ~Claimable(d)
    <3> DEFINE new == [thread[t] EXCEPT !.todo = @ \ {d}]
    <3>1. new \in Thread /\ new.demand = None /\ new.pc = "claiming" /\ new.game = thread[t].game
      BY <1>r, <2>2 DEF Thread
    <3>2. (new.demand # None <=> new.pc \in Dispatching) /\ (new.pc \in Hooked => new.game \in Games)
      BY <2>2, <3>1 DEF Dispatching
    <3>3. thread' = [thread EXCEPT ![t] = new] /\ UNCHANGED demand
      BY <1>0, <2>1, <2>4 DEF TypeOK
    <3> HIDE DEF new
    <3>4. thread' \in [Threads -> Thread] /\ Places'
      BY <3>1, <3>2, <3>3, MoveType
    <3> QED BY <1>0, <1>11, <3>3, <3>4 DEF ClaimWaitingDemandMatch, TypeOK, Typed
  <2> QED BY <2>3, <2>4
<1>12. ASSUME NEW t \in Threads, EndScan(t) PROVE Typed'
  <2> DEFINE new == [thread[t] EXCEPT !.pc = "running", !.game = None]
  <2>1. new \in Thread /\ new.demand = thread[t].demand /\ new.pc = "running"
    BY <1>r DEF Thread
  <2>2. (new.demand # None <=> new.pc \in Dispatching) /\ (new.pc \in Hooked => new.game \in Games)
    BY <1>0, <1>12, <2>1 DEF EndScan, Places, PlaceOf, Hooked, Dispatching
  <2>3. thread' = [thread EXCEPT ![t] = new]
    BY <1>0, <1>12 DEF EndScan, TypeOK
  <2> HIDE DEF new
  <2>4. thread' \in [Threads -> Thread] /\ Places'
    BY <2>1, <2>2, <2>3, MoveType
  <2> QED BY <1>0, <1>12, <2>4 DEF EndScan, store, TypeOK, Typed
<1>13. ASSUME NEW t \in Threads, Dispatch(t) PROVE Typed'
  <2>1. thread' \in [Threads -> Thread] /\ Places'
    BY <1>13, GoToType, NextDemandType DEF Dispatch, Hooked, Dispatching
  <2> QED BY <1>0, <1>13, <2>1 DEF Dispatch, store, TypeOK, Typed
<1>14. ASSUME NEW t \in Threads, EnterTrigger(t) PROVE Typed'
  <2>1. thread[t].pc = "calling" /\ UNCHANGED <<store, calls, deaths>>
    BY <1>14 DEF EnterTrigger
  <2>2. CASE \E a \in Answers : GoTo(t, Then(a)) /\ UNCHANGED lock
    <3>1. thread' \in [Threads -> Thread] /\ Places'
      BY <2>1, <2>2, GoToType DEF Then, Hooked, Dispatching
    <3> QED BY <1>0, <2>1, <2>2, <3>1 DEF store, TypeOK, Typed
  <2>3. CASE /\ lock' = [lock EXCEPT ![Target(t)] = t]
             /\ thread' = [thread EXCEPT ![t].pc = "triggered", ![t].stale = FALSE]
    <3> DEFINE new == [thread[t] EXCEPT !.pc = "triggered", !.stale = FALSE]
    <3>1. new \in Thread /\ new.demand = thread[t].demand /\ new.pc = "triggered" /\ new.game = thread[t].game
      BY <1>r DEF Thread
    <3>2. (new.demand # None <=> new.pc \in Dispatching) /\ (new.pc \in Hooked => new.game \in Games)
      BY <1>0, <2>1, <3>1 DEF Places, PlaceOf, Hooked, Dispatching
    <3>3. thread' = [thread EXCEPT ![t] = new]
      BY <1>0, <2>3 DEF TypeOK
    <3> HIDE DEF new
    <3>4. thread' \in [Threads -> Thread] /\ Places'
      BY <3>1, <3>2, <3>3, MoveType
    <3> QED BY <1>0, <2>1, <2>3, <3>4 DEF store, TypeOK, Typed
  <2>4. result[Claimed(t)][thread[t].game] \in Answers
    BY <1>0, <2>1 DEF TypeOK, Thread, Places, PlaceOf, Claimed, Hooked, Dispatching
  <2> QED BY <1>14, <2>2, <2>3, <2>4 DEF EnterTrigger
<1>15. ASSUME NEW t \in Threads, GiveUpLock(t) PROVE Typed'
  <2>1. thread' \in [Threads -> Thread] /\ Places'
    BY <1>15, GoToType DEF GiveUpLock, Hooked, Dispatching
  <2> QED BY <1>0, <1>15, <2>1 DEF GiveUpLock, store, TypeOK, Typed
<1>16. ASSUME NEW c \in Customers, ReceiveUserMessage(c) PROVE Typed'
  <2>1. \A t \in Threads : thread'[t] \in Thread /\ thread'[t].pc = thread[t].pc
          /\ thread'[t].demand = thread[t].demand /\ thread'[t].game = thread[t].game
    BY <1>r, <1>16 DEF ReceiveUserMessage, Thread
  <2>2. thread' \in [Threads -> Thread]
    BY <1>0, <1>16, <2>1 DEF ReceiveUserMessage, TypeOK
  <2>3. Places'
    BY <1>0, <2>1 DEF Places, PlaceOf
  <2> QED BY <1>0, <1>16, <2>2, <2>3 DEF ReceiveUserMessage, store, TypeOK, Typed
<1>17. ASSUME NEW t \in Threads, EndTrigger(t) PROVE Typed'
  <2>1. thread[t].pc = "triggered" /\ lock' = [lock EXCEPT ![Target(t)] = None]
        /\ UNCHANGED <<demand, lapsed, seat, host, notices, calls, deaths>>
    BY <1>17 DEF EndTrigger
  <2>2. PICK pc \in {"drafting", "releasing"} : GoTo(t, pc)
    BY <1>17 DEF EndTrigger, Then
  <2>3. thread' \in [Threads -> Thread] /\ Places'
    BY <2>1, <2>2, GoToType DEF Hooked, Dispatching
  <2>4. result' \in [Demands -> [Games -> Answers]]
    <3>1. UNCHANGED result \/ \E answer \in Answers :
            result' = [result EXCEPT ![Claimed(t)][thread[t].game] = answer]
      BY <1>17 DEF EndTrigger, Answers
    <3>2. Claimed(t) \in Demands /\ thread[t].game \in Games
      BY <1>0, <1>r, <2>1 DEF Thread, Places, PlaceOf, Claimed, Hooked, Dispatching
    <3>3. ASSUME NEW answer \in Answers,
                 result' = [result EXCEPT ![Claimed(t)][thread[t].game] = answer]
          PROVE  result' \in [Demands -> [Games -> Answers]]
      <4>1. result \in [Demands -> [Games -> Answers]]
        BY <1>0 DEF TypeOK
      <4> QED BY <3>2, <3>3, <4>1
    <3>4. CASE UNCHANGED result
      BY <1>0, <3>4 DEF TypeOK
    <3> QED BY <3>1, <3>3, <3>4
  <2> QED BY <1>0, <2>1, <2>3, <2>4 DEF TypeOK, Typed
<1>18. ASSUME NEW t \in Threads, CreateNotice(t) PROVE Typed'
  <2>1. thread' \in [Threads -> Thread] /\ Places'
    BY <1>18, NextDemandType DEF CreateNotice, Hooked, Dispatching
  <2>2. Claimed(t) \in Demands /\ thread[t].game \in Games
    BY <1>0, <1>18 DEF CreateNotice, TypeOK, Thread, Places, PlaceOf, Claimed, Hooked, Dispatching
  <2>3. notices' \in [Demands -> [Games -> Nat]]
    BY <1>0, <1>18, <2>2 DEF CreateNotice, TypeOK
  <2> QED BY <1>0, <1>18, <2>1, <2>3 DEF CreateNotice, TypeOK, Typed
<1>19. ASSUME NEW t \in Threads, ReleaseWaitingDemandMatch(t) PROVE Typed'
  <2>1. thread' \in [Threads -> Thread] /\ Places'
    BY <1>19, NextDemandType DEF ReleaseWaitingDemandMatch, Hooked, Dispatching
  <2>2. /\ demand' \in [Demands -> [status : Statuses, game : Games \cup {None}]]
        /\ \A e \in Demands : demand'[e].status \in {"absent", "active"} => demand'[e].game = None
    BY <1>0, <1>19 DEF ReleaseWaitingDemandMatch, TypeOK, Statuses
  <2> QED BY <1>0, <1>19, <2>1, <2>2 DEF ReleaseWaitingDemandMatch, TypeOK, Typed
<1>20. ASSUME NEW t \in Threads, Die(t) PROVE Typed'
  <2>1. Idle \in Thread /\ (Idle.demand # None <=> Idle.pc \in Dispatching)
        /\ (Idle.pc \in Hooked => Idle.game \in Games)
    BY DEF Idle, Thread, Hooked, Dispatching
  <2>2. thread' \in [Threads -> Thread] /\ Places'
    BY <1>20, <2>1, MoveType DEF Die
  <2>3. lock' \in [Customers -> Threads \cup {None}] /\ deaths' \in 0..MaxDeaths
    BY <1>0, <1>20 DEF Die, TypeOK
  <2> QED BY <1>0, <1>20, <2>2, <2>3 DEF Die, store, TypeOK, Typed
<1>21. CASE UNCHANGED vars
  BY <1>0, <1>21 DEF vars, store, TypeOK, Typed, Places, PlaceOf
<1> QED BY <1>1, <1>2, <1>3, <1>4, <1>5, <1>6, <1>8, <1>9, <1>10, <1>11, <1>12, <1>13, <1>14,
           <1>15, <1>16, <1>17, <1>18, <1>19, <1>20, <1>21
        DEF Next, MatchGame, DispatchMatch


----------------------------------------------------------------------------
(* Who holds a claim.                                                      *)

\* A demand is dispatched by one thread at most, by none before it is claimed, and
\* for the game it was claimed for.
Exclusive ==
  \A t \in Threads : thread[t].demand # None =>
    /\ \A u \in Threads : thread[u].demand = thread[t].demand => u = t
    /\ demand[thread[t].demand].status \notin {"absent", "active"}
    /\ demand[thread[t].demand].status = "matched" =>
         demand[thread[t].demand].game = thread[t].game

\* No notice has been written of a match that is being worked out.
Fresh ==
  \A t \in Threads : thread[t].pc \in {"calling", "triggered", "drafting"} =>
    notices[thread[t].demand][thread[t].game] = 0

ClaimInv == Typed /\ Exclusive /\ Fresh /\ OneNoticePerMatch /\ ClaimIsNotForgotten

\* What a step does to a claim.  It is kept: no thread changes its demand or game,
\* none begins to work out a match, no demand becomes active and no claim is taken.
Keeps ==
  /\ \A t \in Threads :
       /\ thread'[t].demand = thread[t].demand
       /\ thread[t].demand # None => thread'[t].game = thread[t].game
       /\ thread'[t].pc \in {"calling", "triggered", "drafting"} =>
            \/ thread[t].pc \in {"calling", "triggered", "drafting"}
            \/ notices[thread[t].demand][thread[t].game] = 0
  /\ \A d \in Demands : \/ demand'[d] = demand[d]
                        \/ demand[d].status = "absent" /\ demand'[d].status = "active"
                        \/ demand[d].status \in {"active", "matched"} /\ demand'[d].status \in Ended
  /\ UNCHANGED <<notices, deaths>>

\* A thread takes the claim of a demand nobody holds.
Claims(t) ==
  \E d \in Demands :
    /\ thread[t].pc = "claiming" /\ demand[d].status = "active"
    /\ demand' = [demand EXCEPT ![d] = [status |-> "matched", game |-> thread[t].game]]
    /\ thread'[t].demand = d /\ thread'[t].pc = "dispatching" /\ thread'[t].game = thread[t].game
    /\ \A u \in Threads \ {t} : thread'[u] = thread[u]
    /\ UNCHANGED <<notices, deaths>>

\* A thread lets its claim go: a notice was written of it, or the demand is active
\* again, or it was not the thread's any more.
LetsGo(t) ==
  /\ thread[t].demand # None
  /\ thread'[t].demand = None /\ thread'[t].pc = "claiming"
  /\ \A u \in Threads \ {t} : thread'[u] = thread[u]
  /\ \/ UNCHANGED <<demand, notices>> /\ notices[thread[t].demand][thread[t].game] > 0
     \/ /\ thread[t].pc = "drafting" /\ UNCHANGED demand
        /\ notices' = [notices EXCEPT ![thread[t].demand][thread[t].game] = @ + 1]
     \/ /\ UNCHANGED notices
        /\ demand' = IF demand[thread[t].demand] = [status |-> "matched", game |-> thread[t].game]
                       THEN [demand EXCEPT ![thread[t].demand] = [status |-> "active", game |-> None]]
                       ELSE demand
  /\ UNCHANGED deaths

\* A thread dies with its claim.
Dies(t) ==
  /\ thread'[t].demand = None /\ thread'[t].pc = "idle"
  /\ \A u \in Threads \ {t} : thread'[u] = thread[u]
  /\ deaths' = deaths + 1 /\ UNCHANGED <<demand, notices>>

ClaimStep == Keeps \/ \E t \in Threads : Claims(t) \/ LetsGo(t) \/ Dies(t)

LEMMA KeepsClaims == ClaimInv /\ Typed' /\ Keeps => ClaimInv'
<1> SUFFICES ASSUME ClaimInv, Typed', Keeps PROVE ClaimInv'
  OBVIOUS
<1>0. Typed /\ Exclusive /\ Fresh /\ OneNoticePerMatch /\ ClaimIsNotForgotten
  BY DEF ClaimInv
<1>1. \A t \in Threads : thread[t].demand \in Demands \cup {None}
  BY <1>0 DEF Typed, TypeOK, Thread
<1>2. \A d \in Demands : demand'[d].status = "matched" => demand'[d] = demand[d]
  BY DEF Keeps, Ended
<1>3. Exclusive'
  <2> SUFFICES ASSUME NEW t \in Threads, thread'[t].demand # None
      PROVE  /\ \A u \in Threads : thread'[u].demand = thread'[t].demand => u = t
             /\ demand'[thread'[t].demand].status \notin {"absent", "active"}
             /\ demand'[thread'[t].demand].status = "matched" =>
                  demand'[thread'[t].demand].game = thread'[t].game
    BY DEF Exclusive
  <2>1. /\ \A u \in Threads : thread'[u].demand = thread[u].demand
        /\ thread'[t].game = thread[t].game /\ thread[t].demand \in Demands
    BY <1>1 DEF Keeps
  <2>2. \A u \in Threads : thread'[u].demand = thread'[t].demand => u = t
    BY <1>0, <2>1 DEF Exclusive
  <2>3. demand[thread[t].demand].status \notin {"absent", "active"}
    BY <1>0, <2>1 DEF Exclusive
  <2>4. demand'[thread[t].demand].status \notin {"absent", "active"}
    BY <2>1, <2>3 DEF Keeps, Ended
  <2> QED BY <1>0, <1>2, <2>1, <2>2, <2>4 DEF Exclusive
<1>4. Fresh'
  <2> SUFFICES ASSUME NEW t \in Threads, thread'[t].pc \in {"calling", "triggered", "drafting"}
               PROVE  notices'[thread'[t].demand][thread'[t].game] = 0
    BY DEF Fresh
  <2>1. thread'[t].demand # None
    BY DEF Typed, Places, PlaceOf, Dispatching
  <2> QED BY <1>0, <2>1 DEF Keeps, Fresh
<1>5. OneNoticePerMatch'
  BY <1>0 DEF Keeps, OneNoticePerMatch
<1>6. ClaimIsNotForgotten'
  <2> SUFFICES ASSUME deaths' = 0, NEW d \in Demands, demand'[d].status = "matched"
               PROVE  notices'[d][demand'[d].game] > 0 \/ Dispatchers(d)' # {}
    BY DEF ClaimIsNotForgotten, Dispatchers, Claimed
  <2>1. Dispatchers(d)' = Dispatchers(d)
    BY DEF Keeps, Dispatchers, Claimed
  <2> QED BY <1>0, <1>2, <2>1 DEF Keeps, ClaimIsNotForgotten
<1> QED BY <1>3, <1>4, <1>5, <1>6 DEF ClaimInv


LEMMA ClaimsClaim ==
  ASSUME ClaimInv, Typed', NEW t \in Threads, Claims(t)
  PROVE  ClaimInv'
<1>0. Typed /\ Exclusive /\ Fresh /\ OneNoticePerMatch /\ ClaimIsNotForgotten
  BY DEF ClaimInv
<1>1. PICK d \in Demands :
        /\ thread[t].pc = "claiming" /\ demand[d].status = "active"
        /\ demand' = [demand EXCEPT ![d] = [status |-> "matched", game |-> thread[t].game]]
        /\ thread'[t].demand = d /\ thread'[t].pc = "dispatching" /\ thread'[t].game = thread[t].game
        /\ \A u \in Threads \ {t} : thread'[u] = thread[u]
        /\ UNCHANGED <<notices, deaths>>
  BY DEF Claims
<1>2. \A u \in Threads : thread[u].demand # d /\ thread[u].demand \in Demands \cup {None}
  BY <1>0, <1>1, WaitingAssumption DEF Exclusive, Typed, TypeOK, Thread
<1>3. /\ demand'[d].status = "matched" /\ demand'[d].game = thread[t].game
      /\ \A e \in Demands \ {d} : demand'[e] = demand[e]
  BY <1>0, <1>1 DEF Typed, TypeOK
<1>4. Exclusive'
  <2> SUFFICES ASSUME NEW u \in Threads, thread'[u].demand # None
      PROVE  /\ \A v \in Threads : thread'[v].demand = thread'[u].demand => v = u
             /\ demand'[thread'[u].demand].status \notin {"absent", "active"}
             /\ demand'[thread'[u].demand].status = "matched" =>
                  demand'[thread'[u].demand].game = thread'[u].game
    BY DEF Exclusive
  <2>1. CASE u = t
    BY <1>1, <1>2, <1>3, <2>1
  <2>2. CASE u # t
    <3>1. thread'[u] = thread[u] /\ thread[u].demand \in Demands \ {d}
      BY <1>1, <1>2, <2>2
    <3> QED BY <1>0, <1>1, <1>3, <3>1 DEF Exclusive
  <2> QED BY <2>1, <2>2
<1>5. Fresh'
  BY <1>0, <1>1 DEF Fresh
<1>6. OneNoticePerMatch'
  BY <1>0, <1>1 DEF OneNoticePerMatch
<1>7. ClaimIsNotForgotten'
  <2> SUFFICES ASSUME deaths' = 0, NEW e \in Demands, demand'[e].status = "matched"
               PROVE  notices'[e][demand'[e].game] > 0 \/ Dispatchers(e)' # {}
    BY DEF ClaimIsNotForgotten, Dispatchers, Claimed
  <2>1. CASE e = d
    BY <1>1, <2>1 DEF Dispatchers, Claimed
  <2>2. CASE e # d
    <3>1. notices[e][demand[e].game] > 0 \/ Dispatchers(e) # {}
      BY <1>0, <1>1, <1>3, <2>2 DEF ClaimIsNotForgotten
    <3>2. ASSUME NEW u \in Dispatchers(e) PROVE u \in Dispatchers(e)'
      <4>1. u # t
        BY <1>0, <1>1, <2>2, WaitingAssumption DEF Dispatchers, Claimed, Typed, Places, PlaceOf, Dispatching
      <4> QED BY <1>1, <4>1 DEF Dispatchers, Claimed
    <3> QED BY <1>1, <1>3, <2>2, <3>1, <3>2
  <2> QED BY <2>1, <2>2
<1> QED BY <1>4, <1>5, <1>6, <1>7 DEF ClaimInv

LEMMA ReleaseClaim ==
  ASSUME ClaimInv, Typed', NEW t \in Threads, LetsGo(t) \/ Dies(t)
  PROVE  ClaimInv'
<1>0. Typed /\ Exclusive /\ Fresh /\ OneNoticePerMatch /\ ClaimIsNotForgotten
  BY DEF ClaimInv
<1> DEFINE d == thread[t].demand
           g == thread[t].game
<1>1. /\ thread'[t].demand = None /\ thread'[t].pc \in {"claiming", "idle"}
      /\ \A u \in Threads \ {t} : thread'[u] = thread[u]
  BY DEF LetsGo, Dies
<1>2. \A u \in Threads : /\ thread[u].demand \in Demands \cup {None} /\ thread[u].pc = thread[u].pc
                         /\ thread[u].demand # None => thread[u].game \in Games
  BY <1>0 DEF Typed, TypeOK, Thread, Places, PlaceOf, Hooked
<1>3. \A u \in Threads \ {t} : thread[u].demand # None => thread[u].demand # d
  BY <1>0 DEF Exclusive
<1>4. \A e \in Demands \ {d} : demand'[e] = demand[e] /\ notices'[e] = notices[e]
  BY <1>0 DEF LetsGo, Dies, Typed, TypeOK
<1>5. Exclusive'
  BY <1>0, <1>1, <1>2, <1>3, <1>4 DEF Exclusive
<1>6. Fresh'
  <2> SUFFICES ASSUME NEW u \in Threads, thread'[u].pc \in {"calling", "triggered", "drafting"}
               PROVE  notices'[thread'[u].demand][thread'[u].game] = 0
    BY DEF Fresh
  <2>1. u # t /\ thread'[u] = thread[u]
    BY <1>1
  <2>2. thread[u].demand \in Demands \ {d}
    BY <1>0, <1>2, <1>3, <2>1 DEF Typed, Places, PlaceOf, Dispatching
  <2> QED BY <1>0, <1>4, <2>1, <2>2 DEF Fresh
<1>7. CASE Dies(t)
  <2>1. OneNoticePerMatch'
    BY <1>0, <1>7 DEF Dies, OneNoticePerMatch
  <2>2. deaths' # 0
    BY <1>0, <1>7 DEF Dies, Typed, TypeOK
  <2> QED BY <1>5, <1>6, <2>1, <2>2 DEF ClaimInv, ClaimIsNotForgotten
<1>8. CASE LetsGo(t)
  <2>0. d \in Demands /\ g \in Games /\ notices \in [Demands -> [Games -> Nat]]
    BY <1>0, <1>2, <1>8 DEF LetsGo, Typed, TypeOK
  <2>1. /\ OneNoticePerMatch'
        /\ demand'[d].status = "matched" => notices'[d][demand'[d].game] > 0
    <3>1. CASE UNCHANGED <<demand, notices>> /\ notices[d][g] > 0
      <4>1. OneNoticePerMatch'
        BY <1>0, <3>1 DEF OneNoticePerMatch
      <4>2. demand'[d].status = "matched" => notices'[d][demand'[d].game] > 0
        BY <1>0, <1>8, <2>0, <3>1 DEF Exclusive, LetsGo
      <4> QED BY <4>1, <4>2
    <3>2. CASE /\ thread[t].pc = "drafting" /\ UNCHANGED demand
               /\ notices' = [notices EXCEPT ![d][g] = @ + 1]
      <4>1. notices[d][g] = 0
        BY <1>0, <3>2 DEF Fresh
      <4>2. notices'[d][g] = 1 /\ \A h \in Games \ {g} : notices'[d][h] = notices[d][h]
        BY <2>0, <3>2, <4>1
      <4>3. OneNoticePerMatch'
        BY <1>0, <1>4, <2>0, <4>2 DEF OneNoticePerMatch
      <4>4. demand'[d].status = "matched" => notices'[d][demand'[d].game] > 0
        BY <1>0, <1>8, <2>0, <3>2, <4>2 DEF Exclusive, LetsGo
      <4> QED BY <4>3, <4>4
    <3>3. CASE /\ UNCHANGED notices
               /\ demand' = IF demand[d] = [status |-> "matched", game |-> g]
                              THEN [demand EXCEPT ![d] = [status |-> "active", game |-> None]]
                              ELSE demand
      <4>1. demand[d].status = "matched" => demand[d].game = g
        BY <1>0, <2>0, WaitingAssumption DEF Exclusive
      <4>2. demand[d] \in [status : Statuses, game : Games \cup {None}]
        BY <1>0, <2>0 DEF Typed, TypeOK
      <4>3. demand[d].status = "matched" => demand[d] = [status |-> "matched", game |-> g]
        BY <4>1, <4>2
      <4>4. demand'[d].status # "matched"
        BY <1>0, <2>0, <3>3, <4>3 DEF Typed, TypeOK
      <4> QED BY <1>0, <3>3, <4>4 DEF OneNoticePerMatch
    <3> QED BY <1>8, <3>1, <3>2, <3>3 DEF LetsGo
  <2>2. ClaimIsNotForgotten'
    <3> SUFFICES ASSUME deaths' = 0, NEW e \in Demands, demand'[e].status = "matched"
                 PROVE  notices'[e][demand'[e].game] > 0 \/ Dispatchers(e)' # {}
      BY DEF ClaimIsNotForgotten, Dispatchers, Claimed
    <3>1. CASE e = d
      BY <2>1, <3>1
    <3>2. CASE e # d
      <4>1. notices[e][demand[e].game] > 0 \/ Dispatchers(e) # {}
        BY <1>0, <1>4, <1>8, <3>2 DEF ClaimIsNotForgotten, LetsGo
      <4>2. ASSUME NEW u \in Dispatchers(e) PROVE u \in Dispatchers(e)'
        BY <1>1, <3>2, <4>2 DEF Dispatchers, Claimed
      <4> QED BY <1>4, <3>2, <4>1, <4>2
    <3> QED BY <3>1, <3>2
  <2> QED BY <1>5, <1>6, <2>1, <2>2 DEF ClaimInv
<1> QED BY <1>7, <1>8

LEMMA StepOfClaims == Typed /\ [Next]_vars => ClaimStep
<1> SUFFICES ASSUME Typed, [Next]_vars PROVE ClaimStep
  OBVIOUS
<1>0. TypeOK /\ Places /\ (\A t \in Threads : thread[t] \in Thread)
  BY DEF Typed, TypeOK
<1>1. ASSUME NEW t \in Threads,
             \/ \E c \in Customers : EnterConversation(t, c)
             \/ LeaveConversation(t)
      PROVE  Keeps
  <2>1. PICK new : /\ thread' = [thread EXCEPT ![t] = new]
                   /\ new.demand = None /\ new.pc \in {"running", "idle"}
    <3>1. ASSUME NEW c \in Customers
          PROVE  [Idle EXCEPT !.pc = "running", !.customer = c].demand = None
                 /\ [Idle EXCEPT !.pc = "running", !.customer = c].pc = "running"
      BY DEF Idle
    <3>2. Idle.demand = None /\ Idle.pc = "idle"
      BY DEF Idle
    <3> QED BY <1>1, <3>1, <3>2 DEF EnterConversation, LeaveConversation
  <2>2. thread[t].demand = None
    BY <1>0, <1>1 DEF EnterConversation, LeaveConversation, Places, PlaceOf, Dispatching
  <2>3. /\ thread'[t].demand = None /\ thread'[t].pc \in {"running", "idle"}
        /\ \A u \in Threads \ {t} : thread'[u] = thread[u]
    BY <1>0, <2>1 DEF TypeOK
  <2>4. UNCHANGED <<demand, notices, deaths>>
    BY <1>1 DEF EnterConversation, LeaveConversation, store
  <2> QED BY <2>2, <2>3, <2>4 DEF Keeps
<1>2. ASSUME NEW t \in Threads, NEW d \in Demands,
             RegisterWaitingDemand(t, d) \/ CancelWaitingDemand(t, d)
      PROVE  Keeps
  BY <1>0, <1>2 DEF RegisterWaitingDemand, CancelWaitingDemand, Keeps, TypeOK, Ended
<1>3. ASSUME NEW t \in Threads, NEW g \in Games, ChangeGame(t, g) PROVE Keeps
  <2>1. /\ thread[t].demand = None /\ thread'[t].demand = None /\ thread'[t].pc = "sweeping"
        /\ \A u \in Threads \ {t} : thread'[u] = thread[u]
    BY <1>0, <1>3 DEF ChangeGame, TypeOK, Thread, Places, PlaceOf, Dispatching
  <2> QED BY <1>0, <1>3, <2>1 DEF ChangeGame, Keeps
<1>4. ASSUME NEW d \in Demands, Lapse(d) PROVE Keeps
  BY <1>4 DEF Lapse, Keeps
<1>5. ASSUME demand' = Swept
      PROVE  \A d \in Demands : demand'[d] = demand[d] \/
               (demand[d].status \in {"active", "matched"} /\ demand'[d].status \in Ended)
  BY <1>0, <1>5 DEF Swept, Ended, TypeOK
<1>6. ASSUME NEW t \in Threads, NEW pc \in Hooked, GoTo(t, pc),
             pc \in {"calling", "triggered", "drafting"} =>
               \/ thread[t].pc \in {"calling", "triggered", "drafting"}
               \/ notices[thread[t].demand][thread[t].game] = 0
      PROVE  \A u \in Threads :
               /\ thread'[u].demand = thread[u].demand /\ thread'[u].game = thread[u].game
               /\ thread'[u].pc \in {"calling", "triggered", "drafting"} =>
                    \/ thread[u].pc \in {"calling", "triggered", "drafting"}
                    \/ notices[thread[u].demand][thread[u].game] = 0
  BY <1>0, <1>6 DEF GoTo, TypeOK, Thread
<1>7. ASSUME NEW t \in Threads, SweepFirst(t) PROVE Keeps
  BY <1>5, <1>6, <1>7 DEF SweepFirst, Keeps, Hooked
<1>8. CASE SweepExpired
  <2>1. UNCHANGED <<thread, notices, deaths>> /\ demand' = Swept
    BY <1>8 DEF SweepExpired
  <2> QED BY <1>5, <2>1 DEF Keeps, ClaimStep
<1>9. ASSUME NEW t \in Threads, Scan(t) \/ EndScan(t) PROVE Keeps
  <2>1. /\ thread[t].demand = None /\ thread'[t].demand = None /\ thread'[t].pc \in {"claiming", "running"}
        /\ \A u \in Threads \ {t} : thread'[u] = thread[u]
    <3>1. thread[t].demand = None
      BY <1>0, <1>9 DEF Scan, EndScan, Places, PlaceOf, Dispatching
    <3>2. CASE Scan(t)
      BY <1>0, <3>1, <3>2 DEF Scan, TypeOK, Thread
    <3>3. CASE EndScan(t)
      BY <1>0, <3>1, <3>3 DEF EndScan, TypeOK, Thread
    <3> QED BY <1>9, <3>2, <3>3
  <2>2. UNCHANGED <<demand, notices, deaths>>
    BY <1>9 DEF Scan, EndScan, store
  <2> QED BY <2>1, <2>2 DEF Keeps
<1>10. ASSUME NEW t \in Threads, ClaimWaitingDemandMatch(t) PROVE Claims(t) \/ Keeps
  <2>1. PICK d \in thread[t].todo :
          IF Claimable(d)
            THEN /\ demand' = [demand EXCEPT ![d] = [status |-> "matched", game |-> thread[t].game]]
                 /\ thread' = [thread EXCEPT ![t].pc = "dispatching", ![t].todo = @ \ {d}, ![t].demand = d]
            ELSE /\ thread' = [thread EXCEPT ![t].todo = @ \ {d}]
                 /\ UNCHANGED demand
    BY <1>10 DEF ClaimWaitingDemandMatch
  <2>2. d \in Demands /\ thread[t].pc = "claiming" /\ UNCHANGED <<notices, deaths>>
    BY <1>0, <1>10 DEF ClaimWaitingDemandMatch, Thread
  <2>3. CASE Claimable(d)
    <3>1. thread'[t].demand = d /\ thread'[t].pc = "dispatching" /\ thread'[t].game = thread[t].game
          /\ \A u \in Threads \ {t} : thread'[u] = thread[u]
      BY <1>0, <2>1, <2>3 DEF TypeOK, Thread
    <3> QED BY <2>1, <2>2, <2>3, <3>1 DEF Claims, Claimable
  <2>4. CASE ~Claimable(d)
    <3>1. \A u \in Threads : thread'[u].pc = thread[u].pc
            /\ thread'[u].demand = thread[u].demand /\ thread'[u].game = thread[u].game
      <4> DEFINE new == [thread[t] EXCEPT !.todo = @ \ {d}]
      <4>1. new.pc = thread[t].pc /\ new.demand = thread[t].demand /\ new.game = thread[t].game
        BY <1>0 DEF Thread
      <4>2. thread' = [thread EXCEPT ![t] = new]
        BY <1>0, <2>1, <2>4 DEF TypeOK
      <4> HIDE DEF new
      <4> QED BY <1>0, <4>1, <4>2 DEF TypeOK
    <3> QED BY <2>1, <2>2, <2>4, <3>1 DEF Keeps
  <2> QED BY <2>3, <2>4
<1>11. ASSUME NEW t \in Threads, NextDemand(t), thread[t].pc \in Dispatching
       PROVE  /\ thread[t].demand # None /\ thread'[t].demand = None /\ thread'[t].pc = "claiming"
              /\ \A u \in Threads \ {t} : thread'[u] = thread[u]
  BY <1>0, <1>11 DEF NextDemand, TypeOK, Thread, Places, PlaceOf
<1>12. ASSUME NEW t \in Threads, Dispatch(t) PROVE LetsGo(t) \/ Keeps
  <2>1. /\ thread[t].pc = "dispatching" /\ UNCHANGED <<demand, notices, deaths>>
        /\ Claimed(t) \in Demands /\ thread[t].game \in Games
    BY <1>0, <1>12 DEF Dispatch, store, Claimed, Thread, Places, PlaceOf, Dispatching, Hooked
  <2>2. CASE notices[Claimed(t)][thread[t].game] > 0
    BY <1>11, <1>12, <2>1, <2>2 DEF Dispatch, LetsGo, Dispatching, Claimed
  <2>3. CASE ~(notices[Claimed(t)][thread[t].game] > 0)
    <3>1. notices[thread[t].demand][thread[t].game] = 0
      BY <1>0, <2>1, <2>3 DEF TypeOK, Claimed
    <3>2. GoTo(t, "calling")
      BY <1>12, <2>3 DEF Dispatch
    <3> QED BY <1>6, <2>1, <3>1, <3>2 DEF Keeps, Hooked, Dispatching
  <2> QED BY <2>2, <2>3
<1>13. ASSUME NEW t \in Threads, EnterTrigger(t) PROVE Keeps
  <2>1. thread[t].pc = "calling" /\ UNCHANGED <<demand, notices, deaths>>
    BY <1>13 DEF EnterTrigger, store
  <2>2. CASE \E pc \in {"drafting", "releasing"} : GoTo(t, pc)
    BY <1>6, <2>1, <2>2 DEF Keeps, Hooked, Dispatching
  <2>3. CASE thread' = [thread EXCEPT ![t].pc = "triggered", ![t].stale = FALSE]
    <3>1. /\ thread'[t].demand = thread[t].demand /\ thread'[t].game = thread[t].game
          /\ \A u \in Threads \ {t} : thread'[u] = thread[u]
      BY <1>0, <2>3 DEF TypeOK, Thread
    <3> QED BY <2>1, <3>1 DEF Keeps
  <2> QED BY <1>13, <2>2, <2>3 DEF EnterTrigger, Then
<1>14. ASSUME NEW t \in Threads, GiveUpLock(t) PROVE Keeps
  BY <1>6, <1>14 DEF GiveUpLock, Keeps, Hooked, Dispatching, store
<1>15. ASSUME NEW c \in Customers, ReceiveUserMessage(c) PROVE Keeps
  <2>1. \A u \in Threads : thread'[u].pc = thread[u].pc
          /\ thread'[u].demand = thread[u].demand /\ thread'[u].game = thread[u].game
    BY <1>0, <1>15 DEF ReceiveUserMessage, Thread
  <2> QED BY <1>15, <2>1 DEF ReceiveUserMessage, Keeps, store
<1>16. ASSUME NEW t \in Threads, EndTrigger(t) PROVE Keeps
  <2>1. thread[t].pc = "triggered" /\ UNCHANGED <<demand, notices, deaths>>
    BY <1>16 DEF EndTrigger
  <2>2. PICK pc \in {"drafting", "releasing"} : GoTo(t, pc)
    BY <1>16 DEF EndTrigger, Then
  <2> QED BY <1>6, <2>1, <2>2 DEF Keeps, Hooked, Dispatching
<1>17. ASSUME NEW t \in Threads, CreateNotice(t) \/ ReleaseWaitingDemandMatch(t) PROVE LetsGo(t)
  BY <1>11, <1>17 DEF CreateNotice, ReleaseWaitingDemandMatch, LetsGo, Dispatching, Claimed
<1>18. ASSUME NEW t \in Threads, Die(t) PROVE Dies(t)
  BY <1>0, <1>18 DEF Die, Dies, Idle, TypeOK, store
<1>19. CASE UNCHANGED vars
  <2>1. UNCHANGED <<demand, thread, notices, deaths>>
    BY <1>19 DEF vars, store
  <2> QED BY <2>1 DEF Keeps, ClaimStep
<1> QED BY <1>1, <1>2, <1>3, <1>4, <1>7, <1>8, <1>9, <1>10, <1>12, <1>13, <1>14, <1>15, <1>16,
           <1>17, <1>18, <1>19
        DEF Next, MatchGame, DispatchMatch, ClaimStep


LEMMA ClaimInvariant == Spec => []ClaimInv
<1>1. Init => ClaimInv
  <2> SUFFICES ASSUME Init PROVE ClaimInv
    OBVIOUS
  <2>1. \A t \in Threads : thread[t].demand = None /\ thread[t].pc = "idle"
    BY DEF Init, Idle
  <2>2. Exclusive /\ Fresh
    BY <2>1 DEF Exclusive, Fresh
  <2>3. OneNoticePerMatch /\ ClaimIsNotForgotten
    BY DEF Init, OneNoticePerMatch, ClaimIsNotForgotten
  <2> QED BY <2>2, <2>3, TypeInit DEF ClaimInv
<1>2. ClaimInv /\ [Next]_vars => ClaimInv'
  <2> SUFFICES ASSUME ClaimInv, [Next]_vars PROVE ClaimInv'
    OBVIOUS
  <2>1. Typed /\ Typed'
    BY TypeStep DEF ClaimInv
  <2> QED BY <2>1, StepOfClaims, KeepsClaims, ClaimsClaim, ReleaseClaim DEF ClaimStep
<1> QED BY <1>1, <1>2, PTL DEF Spec

\* Every variable has its type, and a demand that is not claimed names no game.
THEOREM TypeCorrect == Spec => []TypeOK
<1>1. ClaimInv => TypeOK
  BY DEF ClaimInv, Typed
<1> QED BY <1>1, ClaimInvariant, PTL

\* A customer is notified of a game once, however many threads find the match, fail
\* on it, die on it and find it again.
THEOREM NoticesCorrect == Spec => []OneNoticePerMatch
<1>1. ClaimInv => OneNoticePerMatch
  BY DEF ClaimInv
<1> QED BY <1>1, ClaimInvariant, PTL

\* While no thread has died, no claim is left without a thread or a notice.
THEOREM ClaimsCorrect == Spec => []ClaimIsNotForgotten
<1>1. ClaimInv => ClaimIsNotForgotten
  BY DEF ClaimInv
<1> QED BY <1>1, ClaimInvariant, PTL

\* A demand that was cancelled or that expired changes no more, whoever still
\* dispatches it.
THEOREM EndedCorrect == Spec => EndedDemandStaysEnded
<1> DEFINE Stays == \A d \in Demands : demand[d].status \in Ended => demand'[d] = demand[d]
<1>1. ASSUME ClaimInv, ClaimStep PROVE Stays
  <2>0. Typed
    BY <1>1 DEF ClaimInv
  <2>1. CASE Keeps
    BY <2>1 DEF Keeps, Ended
  <2>2. ASSUME NEW t \in Threads, Claims(t) PROVE Stays
    BY <2>0, <2>2 DEF Claims, Typed, TypeOK, Ended
  <2>3. ASSUME NEW t \in Threads, LetsGo(t) PROVE Stays
    <3>1. \A d \in Demands : demand'[d] = demand[d] \/ demand[d].status = "matched"
      BY <2>0, <2>3 DEF LetsGo, Typed, TypeOK
    <3> QED BY <3>1 DEF Ended
  <2>4. ASSUME NEW t \in Threads, Dies(t) PROVE Stays
    BY <2>4 DEF Dies
  <2> QED BY <1>1, <2>1, <2>2, <2>3, <2>4 DEF ClaimStep
<1>2. ClaimInv /\ [Next]_vars => [Stays]_vars
  BY <1>1, StepOfClaims DEF ClaimInv
<1> QED BY <1>2, ClaimInvariant, PTL DEF Spec, EndedDemandStaysEnded

----------------------------------------------------------------------------
(* Locks.  A thread holds the locks of the conversations it works in; the   *)
(* one it enters for a match was free, so it is not the one it came from.   *)

\* A thread at work has a customer, and enters no conversation twice.
Own(t) ==
  /\ thread[t].pc # "idle" => thread[t].customer \in Customers
  /\ thread[t].pc = "triggered" => Target(t) # thread[t].customer

Locked(t) == \A c \in Inside(t) : lock[c] = t

LockInv == \A t \in Threads : Own(t) /\ Locked(t)

LEMMA TargetType ==
  ASSUME Typed, NEW t \in Threads, thread[t].pc \in Dispatching
  PROVE  Claimed(t) \in Demands /\ Target(t) \in Customers
<1>1. thread[t].demand \in Demands
  BY DEF Typed, TypeOK, Places, PlaceOf, Thread
<1> QED BY <1>1, WaitingAssumption DEF Claimed, Target

LEMMA InsideType ==
  ASSUME Typed, LockInv, NEW t \in Threads
  PROVE  Inside(t) \subseteq Customers
<1>1. thread[t].pc = "triggered" => Target(t) \in Customers
  BY TargetType DEF Dispatching
<1> QED BY <1>1 DEF Inside, LockInv, Own

LEMMA GoToFields ==
  ASSUME Typed, NEW t \in Threads, NEW pc, GoTo(t, pc)
  PROVE  /\ thread'[t].pc = pc /\ thread'[t].customer = thread[t].customer
         /\ thread'[t].demand = thread[t].demand
         /\ \A u \in Threads \ {t} : thread'[u] = thread[u]
BY DEF GoTo, Typed, TypeOK, Thread

LEMMA NextDemandFields ==
  ASSUME Typed, NEW t \in Threads, NextDemand(t)
  PROVE  /\ thread'[t].pc = "claiming" /\ thread'[t].customer = thread[t].customer
         /\ \A u \in Threads \ {t} : thread'[u] = thread[u]
BY DEF NextDemand, Typed, TypeOK, Thread

\* A thread that stays where it is keeps its conversations.
LEMMA OwnKept ==
  ASSUME NEW u \in Threads, Own(u), thread'[u].pc = thread[u].pc,
         thread'[u].customer = thread[u].customer, thread'[u].demand = thread[u].demand
  PROVE  Own(u)' /\ Inside(u)' = Inside(u)
BY DEF Own, Inside, Target, Claimed

\* A step of t within the run of its customer that takes no lock.
LEMMA RunKept ==
  ASSUME LockInv, NEW t \in Threads, UNCHANGED lock,
         thread[t].pc # "idle", thread'[t].pc \notin {"idle", "triggered"},
         thread'[t].customer = thread[t].customer,
         \A u \in Threads \ {t} : thread'[u] = thread[u]
  PROVE  LockInv'
<1>1. Own(t)' /\ Inside(t)' \subseteq Inside(t)
  BY DEF LockInv, Own, Inside
<1>2. \A u \in Threads \ {t} : Own(u)' /\ Inside(u)' = Inside(u)
  BY OwnKept DEF LockInv
<1> QED BY <1>1, <1>2 DEF LockInv, Locked

\* The tool call and the hook's steps behind it, up to the next claim.
LEMMA HookKept ==
  ASSUME Typed, LockInv, NEW t \in Threads,
         \/ \E g \in Games : ChangeGame(t, g)
         \/ Scan(t) \/ EndScan(t) \/ ClaimWaitingDemandMatch(t)
  PROVE  LockInv'
<1>0. thread \in [Threads -> Thread] /\ thread[t] \in Thread
  BY DEF Typed, TypeOK
<1>1. ASSUME NEW g \in Games, ChangeGame(t, g) PROVE LockInv'
  <2>1. /\ thread[t].pc = "running" /\ UNCHANGED lock
        /\ thread' = [thread EXCEPT ![t].pc = "sweeping", ![t].game = g]
    BY <1>1 DEF ChangeGame
  <2>2. /\ thread'[t].pc = "sweeping" /\ thread'[t].customer = thread[t].customer
        /\ \A u \in Threads \ {t} : thread'[u] = thread[u]
    BY <1>0, <2>1 DEF Thread
  <2> QED BY <2>1, <2>2, RunKept
<1>2. CASE Scan(t)
  <2>1. PICK found : thread' = [thread EXCEPT ![t].pc = "claiming", ![t].todo = found]
    BY <1>2, Zenon DEF Scan
  <2>2. /\ thread'[t].pc = "claiming" /\ thread'[t].customer = thread[t].customer
        /\ \A u \in Threads \ {t} : thread'[u] = thread[u]
    BY <1>0, <2>1 DEF Thread
  <2>3. thread[t].pc = "scanning" /\ UNCHANGED lock
    BY <1>2 DEF Scan
  <2> QED BY <2>2, <2>3, RunKept
<1>3. CASE EndScan(t)
  <2>1. /\ thread[t].pc = "claiming" /\ UNCHANGED lock
        /\ thread' = [thread EXCEPT ![t].pc = "running", ![t].game = None]
    BY <1>3 DEF EndScan
  <2>2. /\ thread'[t].pc = "running" /\ thread'[t].customer = thread[t].customer
        /\ \A u \in Threads \ {t} : thread'[u] = thread[u]
    BY <1>0, <2>1 DEF Thread
  <2> QED BY <2>1, <2>2, RunKept
<1>4. CASE ClaimWaitingDemandMatch(t)
  <2>1. thread[t].pc = "claiming" /\ UNCHANGED lock
    BY <1>4 DEF ClaimWaitingDemandMatch
  <2>2. PICK d \in thread[t].todo :
          IF Claimable(d)
            THEN /\ demand' = [demand EXCEPT ![d] = [status |-> "matched", game |-> thread[t].game]]
                 /\ thread' = [thread EXCEPT ![t].pc = "dispatching", ![t].todo = @ \ {d}, ![t].demand = d]
            ELSE /\ thread' = [thread EXCEPT ![t].todo = @ \ {d}]
                 /\ UNCHANGED demand
    BY <1>4, ZenonT(30) DEF ClaimWaitingDemandMatch
  <2>3. /\ thread'[t].pc \in {"claiming", "dispatching"} /\ thread'[t].customer = thread[t].customer
        /\ \A u \in Threads \ {t} : thread'[u] = thread[u]
    <3>1. CASE Claimable(d)
      BY <1>0, <2>1, <2>2, <3>1 DEF Thread
    <3>2. CASE ~Claimable(d)
      BY <1>0, <2>1, <2>2, <3>2 DEF Thread
    <3> QED BY <3>1, <3>2
  <2> QED BY <2>1, <2>3, RunKept
<1> QED BY <1>1, <1>2, <1>3, <1>4

\* Who is inside a conversation other than t's keeps its lock.
LEMMA OthersLocked ==
  ASSUME LockInv, NEW t \in Threads, NEW c, lock[c] \in {t, None},
         NEW u \in Threads \ {t}, None \notin Threads
  PROVE  c \notin Inside(u)
BY DEF LockInv, Locked

LEMMA EnterKept ==
  ASSUME Typed, LockInv, NEW t \in Threads, NEW c \in Customers, EnterConversation(t, c)
  PROVE  LockInv'
<1>1. /\ lock[c] = None /\ lock' = [lock EXCEPT ![c] = t]
      /\ thread' = [thread EXCEPT ![t] = [Idle EXCEPT !.pc = "running", !.customer = c]]
  BY DEF EnterConversation
<1>2. /\ thread'[t].pc = "running" /\ thread'[t].customer = c
      /\ \A u \in Threads \ {t} : thread'[u] = thread[u]
  BY <1>1 DEF Idle, Typed, TypeOK
<1>3. Own(t)' /\ Inside(t)' = {c}
  BY <1>2 DEF Own, Inside
<1>4. \A u \in Threads \ {t} : Own(u)' /\ Inside(u)' = Inside(u) /\ c \notin Inside(u)
  BY <1>1, <1>2, OwnKept, OthersLocked, WaitingAssumption DEF LockInv
<1>5. \A e : lock'[e] # lock[e] => e = c
  BY <1>1 DEF Typed, TypeOK
<1> QED BY <1>1, <1>3, <1>4, <1>5 DEF LockInv, Locked, Typed, TypeOK

\* The thread is idle again, and its locks are free.
LEMMA LeaveKept ==
  ASSUME Typed, LockInv, NEW t \in Threads, LeaveConversation(t) \/ Die(t)
  PROVE  LockInv'
<1>1. thread' = [thread EXCEPT ![t] = Idle]
  BY DEF LeaveConversation, Die
<1>2. thread'[t] = Idle /\ \A u \in Threads \ {t} : thread'[u] = thread[u]
  BY <1>1 DEF Typed, TypeOK
<1>3. Own(t)' /\ Inside(t)' = {}
  BY <1>2 DEF Own, Inside, Idle
<1>4. \A u \in Threads \ {t} : Own(u)' /\ Inside(u)' = Inside(u)
  BY <1>2, OwnKept DEF LockInv
<1>5. \A c \in Customers : lock'[c] = lock[c] \/ lock[c] = t
  <2>1. CASE LeaveConversation(t)
    <3>1. lock[thread[t].customer] = t
      BY <2>1 DEF LeaveConversation, LockInv, Locked, Inside
    <3> QED BY <2>1, <3>1 DEF LeaveConversation, Typed, TypeOK
  <2>2. CASE Die(t)
    BY <2>2 DEF Die
  <2> QED BY <2>1, <2>2
<1>6. \A u \in Threads : Inside(u) \subseteq Customers
  BY InsideType
<1>7. \A u \in Threads \ {t} : Locked(u)'
  BY <1>4, <1>5, <1>6 DEF LockInv, Locked
<1> QED BY <1>3, <1>4, <1>7 DEF LockInv, Locked

\* The trigger's conversation is free, so it is not the one the thread is in, or its
\* result is known and no lock is taken.
LEMMA EnterTriggerKept ==
  ASSUME Typed, LockInv, NEW t \in Threads, EnterTrigger(t)
  PROVE  LockInv'
<1>1. thread[t].pc = "calling" /\ lock[Target(t)] = None
  BY DEF EnterTrigger
<1>2. ASSUME NEW a, GoTo(t, Then(a)), UNCHANGED lock PROVE LockInv'
  <2>1. Then(a) \notin {"idle", "triggered"}
    BY DEF Then
  <2> QED BY <1>1, <1>2, <2>1, GoToFields, RunKept
<1>3. CASE /\ lock' = [lock EXCEPT ![Target(t)] = t]
           /\ thread' = [thread EXCEPT ![t].pc = "triggered", ![t].stale = FALSE]
  <2>1. /\ thread'[t].pc = "triggered" /\ thread'[t].customer = thread[t].customer
        /\ thread'[t].demand = thread[t].demand
        /\ \A u \in Threads \ {t} : thread'[u] = thread[u]
    BY <1>3 DEF Typed, TypeOK, Thread
  <2>2. Inside(t)' = Inside(t) \cup {Target(t)}
    BY <1>1, <2>1 DEF Inside, Target, Claimed
  <2>3. Own(t)'
    <3>1. lock[thread[t].customer] = t
      BY <1>1 DEF LockInv, Locked, Inside
    <3>2. Target(t) # thread[t].customer
      BY <1>1, <3>1, WaitingAssumption
    <3> QED BY <1>1, <2>1, <3>2 DEF LockInv, Own, Target, Claimed
  <2>4. \A u \in Threads \ {t} : Own(u)' /\ Inside(u)' = Inside(u) /\ Target(t) \notin Inside(u)
    BY <1>1, <2>1, OwnKept, OthersLocked, WaitingAssumption DEF LockInv
  <2>5. Target(t) \in Customers
    BY <1>1, TargetType DEF Dispatching
  <2>6. \A e : lock'[e] # lock[e] => e = Target(t)
    BY <1>3 DEF Typed, TypeOK
  <2>7. lock'[Target(t)] = t
    BY <1>3, <2>5 DEF Typed, TypeOK
  <2>8. Locked(t)'
    BY <2>2, <2>6, <2>7 DEF LockInv, Locked
  <2>9. \A u \in Threads \ {t} : Locked(u)'
    BY <2>4, <2>6 DEF LockInv, Locked
  <2> QED BY <2>3, <2>4, <2>8, <2>9 DEF LockInv
<1> QED BY <1>2, <1>3 DEF EnterTrigger

\* The trigger's lock is given back, and it is not the lock of the run around it.
LEMMA EndTriggerKept ==
  ASSUME Typed, LockInv, NEW t \in Threads, EndTrigger(t)
  PROVE  LockInv'
<1>1. thread[t].pc = "triggered" /\ lock' = [lock EXCEPT ![Target(t)] = None]
  BY DEF EndTrigger
<1>2. PICK pc \in {"drafting", "releasing"} : GoTo(t, pc)
  BY DEF EndTrigger, Then
<1>3. /\ thread'[t].pc = pc /\ thread'[t].customer = thread[t].customer
      /\ \A u \in Threads \ {t} : thread'[u] = thread[u]
  BY <1>2, GoToFields
<1>4. Own(t)' /\ Inside(t)' = {thread[t].customer} /\ Target(t) # thread[t].customer
  BY <1>1, <1>3 DEF LockInv, Own, Inside
<1>5. lock[thread[t].customer] = t /\ lock[Target(t)] = t
  BY <1>1 DEF LockInv, Locked, Inside
<1>6. \A u \in Threads \ {t} : Own(u)' /\ Inside(u)' = Inside(u) /\ Target(t) \notin Inside(u)
  BY <1>3, <1>5, OwnKept, OthersLocked, WaitingAssumption DEF LockInv
<1>7. \A e : e # Target(t) => lock'[e] = lock[e]
  BY <1>1 DEF Typed, TypeOK
<1>8. Locked(t)' /\ \A u \in Threads \ {t} : Locked(u)'
  BY <1>4, <1>5, <1>6, <1>7 DEF LockInv, Locked
<1> QED BY <1>4, <1>6, <1>8 DEF LockInv

\* A message only marks the triggers it overtakes.
LEMMA ReceiveKept ==
  ASSUME Typed, LockInv, NEW c \in Customers, ReceiveUserMessage(c)
  PROVE  LockInv'
<1>1. UNCHANGED lock
  BY DEF ReceiveUserMessage
<1>2. \A u \in Threads :
        /\ thread'[u].pc = thread[u].pc /\ thread'[u].customer = thread[u].customer
        /\ thread'[u].demand = thread[u].demand
  BY DEF ReceiveUserMessage, Typed, TypeOK, Thread
<1>3. \A u \in Threads : Own(u)' /\ Inside(u)' = Inside(u)
  BY <1>2, OwnKept DEF LockInv
<1> QED BY <1>1, <1>3 DEF LockInv, Locked

LEMMA LockInit == Init => LockInv
<1> SUFFICES ASSUME Init, NEW t \in Threads PROVE Own(t) /\ Locked(t)
  BY DEF LockInv
<1>1. thread[t] = Idle
  BY DEF Init
<1> QED BY <1>1 DEF Own, Locked, Inside, Idle

LEMMA LockStep == Typed /\ LockInv /\ [Next]_vars => LockInv'
<1> SUFFICES ASSUME Typed, LockInv, [Next]_vars PROVE LockInv'
  OBVIOUS
<1>1. ASSUME UNCHANGED <<lock, thread>> PROVE LockInv'
  BY <1>1 DEF LockInv, Own, Locked, Inside, Target, Claimed
<1>2. ASSUME NEW t \in Threads, NEW pc, pc \notin {"idle", "triggered"}, GoTo(t, pc),
             thread[t].pc # "idle", UNCHANGED lock
      PROVE  LockInv'
  BY <1>2, GoToFields, RunKept
<1>3. ASSUME NEW t \in Threads, NextDemand(t), thread[t].pc # "idle", UNCHANGED lock
      PROVE  LockInv'
  BY <1>3, NextDemandFields, RunKept
<1>4. ASSUME NEW t \in Threads, NEW d \in Demands,
             RegisterWaitingDemand(t, d) \/ CancelWaitingDemand(t, d)
      PROVE  LockInv'
  BY <1>1, <1>4 DEF RegisterWaitingDemand, CancelWaitingDemand
<1>5. ASSUME NEW t \in Threads, SweepFirst(t) \/ GiveUpLock(t) PROVE LockInv'
  BY <1>2, <1>5 DEF SweepFirst, GiveUpLock
<1>6. ASSUME NEW t \in Threads, Dispatch(t) PROVE LockInv'
  <2>1. thread[t].pc # "idle" /\ UNCHANGED lock /\ (NextDemand(t) \/ GoTo(t, "calling"))
    BY <1>6 DEF Dispatch
  <2> QED BY <1>2, <1>3, <2>1
<1>7. ASSUME NEW t \in Threads, CreateNotice(t) \/ ReleaseWaitingDemandMatch(t) PROVE LockInv'
  BY <1>3, <1>7 DEF CreateNotice, ReleaseWaitingDemandMatch
<1>8. CASE (\E d \in Demands : Lapse(d)) \/ SweepExpired \/ UNCHANGED vars
  BY <1>1, <1>8 DEF Lapse, SweepExpired, vars
<1> QED BY <1>4, <1>5, <1>6, <1>7, <1>8, HookKept, EnterKept, LeaveKept,
           EnterTriggerKept, EndTriggerKept, ReceiveKept
        DEF Next, MatchGame, DispatchMatch

LEMMA LockInvariant == Spec => [](Typed /\ LockInv)
<1>1. Typed /\ [Next]_vars => Typed'
  BY TypeStep
<1> QED BY <1>1, TypeInit, LockInit, LockStep, PTL DEF Spec

\* A conversation is worked in by one thread at a time, also when it is entered for
\* the match of another conversation's run, and when threads die in it.
THEOREM OneThreadInside == Spec => []OneThreadPerConversation
<1>1. LockInv => OneThreadPerConversation
  BY DEF LockInv, Locked, OneThreadPerConversation
<1> QED BY <1>1, LockInvariant, PTL
===============================================================================
