----------------------------- MODULE WaitingMatch -----------------------------
(***************************************************************************)
(* Waiting demands and their reverse match (matching.py, waiting.py).  A    *)
(* run of one conversation changes a game; the hook behind the tool call    *)
(* scans the waiting demands, claims those the game suits and, for each,    *)
(* runs the agent in the conversation of the customer who waits.            *)
(*                                                                          *)
(* That second run happens in the thread of the first, inside the first     *)
(* conversation's lock, and takes the lock of the second.  A store method   *)
(* is one action; the agent's answer is nondeterministic.                   *)
(***************************************************************************)
EXTENDS Naturals, FiniteSets

CONSTANTS
  Customers,   \* each with a conversation of his own
  Demands,
  Owner,       \* [Demands -> Customers]
  Games,
  Suits,       \* SUBSET (Demands \X Games): stake, smoke, time and constraints agree
  Seats,       \* of a game
  Hosts,       \* SUBSET [Games -> Customers or None]: whose the games are that exist to begin with
  Guests,      \* bound: the customers an organizer may seat beside himself
  Tools,       \* the tools a run may call that start a scan, SUBSET AllTools
  Threads,     \* threads that run the agent
  None,
  Lapsing,     \* bound: the demands whose expires_at may pass
  LockWaits,   \* waiting for a lock ends with an error (Redis), a file lock waits for ever
  MaxCalls,    \* bound: successful tool calls
  MaxDeaths    \* bound: threads that die

AllTools == {"create_game", "join_game", "record_candidate_reply", "record_registered_member_withdrawal"}

ASSUME WaitingAssumption == /\ Owner \in [Demands -> Customers]
                            /\ Suits \subseteq Demands \X Games
                            /\ Hosts \subseteq [Games -> Customers \cup {None}]
                            /\ Guests \subseteq Customers
                            /\ Tools \subseteq AllTools
                            /\ LockWaits \in BOOLEAN
                            /\ {Seats, MaxCalls, MaxDeaths} \subseteq Nat
                            /\ None \notin Threads \cup Customers \cup Demands \cup Games

VARIABLES
  demand,   \* [Demands -> [status, game]]: waiting_demands
  lapsed,   \* demands whose expires_at has passed
  seat,     \* [Games -> [Customers -> SeatStatuses]]: the participants
  host,     \* [Games -> Customers or None]: organizer_id, None before the game exists
  result,   \* [Demands -> [Games -> Answers]]: the remembered result of a match's trigger
  notices,  \* [Demands -> [Games -> Nat]]: notification drafts written
  lock,     \* [Customers -> Threads or None]: the conversation locks
  thread,   \* [Threads -> Thread]
  calls,    \* successful tool calls so far
  deaths    \* threads that died so far

store == <<demand, lapsed, seat, host, result, notices>>
vars == <<store, lock, thread, calls, deaths>>

Answers == {"none", "reply", "silent", "superseded"}
Ended == {"cancelled", "expired"}
Statuses == {"absent", "active", "matched"} \cup Ended

\* registered: seated by the organizer, who may also report that he withdrew;
\* declined: every answer of his own that takes no seat.
SeatStatuses == {"none", "confirmed", "registered", "withdrawn", "declined"}
Taken == {"confirmed", "registered"}

\* todo: the demands the scan found that are not dealt with yet; demand: the one
\* claimed; stale: a message came in since the trigger's run began.
Thread == [pc : {"idle", "running", "sweeping", "scanning", "claiming", "dispatching",
                 "calling", "triggered", "drafting", "releasing"},
           customer : Customers \cup {None}, game : Games \cup {None},
           todo : SUBSET Demands, demand : Demands \cup {None}, stale : BOOLEAN]

Idle == [pc |-> "idle", customer |-> None, game |-> None, todo |-> {}, demand |-> None, stale |-> FALSE]

TypeOK ==
  /\ demand \in [Demands -> [status : Statuses, game : Games \cup {None}]]
  /\ \A d \in Demands : demand[d].status \in {"absent", "active"} => demand[d].game = None
  /\ lapsed \subseteq Demands
  /\ seat \in [Games -> [Customers -> SeatStatuses]]
  /\ host \in [Games -> Customers \cup {None}]
  /\ result \in [Demands -> [Games -> Answers]]
  /\ notices \in [Demands -> [Games -> Nat]]
  /\ lock \in [Customers -> Threads \cup {None}]
  /\ thread \in [Threads -> Thread]
  /\ calls \in 0..MaxCalls /\ deaths \in 0..MaxDeaths

Init ==
  /\ demand = [d \in Demands |-> [status |-> "absent", game |-> None]]
  /\ lapsed = {}
  /\ host \in Hosts
  /\ seat = [g \in Games |-> [c \in Customers |-> IF c = host[g] THEN "confirmed" ELSE "none"]]
  /\ result = [d \in Demands |-> [g \in Games |-> "none"]]
  /\ notices = [d \in Demands |-> [g \in Games |-> 0]]
  /\ lock = [c \in Customers |-> None]
  /\ thread = [t \in Threads |-> Idle]
  /\ calls = 0 /\ deaths = 0

----------------------------------------------------------------------------
GoTo(t, pc) == thread' = [thread EXCEPT ![t].pc = pc]

\* The demand the thread has claimed, and its owner's conversation.
Claimed(t) == thread[t].demand
Target(t) == Owner[Claimed(t)]

NextDemand(t) == thread' = [thread EXCEPT ![t].pc = "claiming", ![t].demand = None, ![t].stale = FALSE]

----------------------------------------------------------------------------
(* A run of a conversation, and the tools it calls.                        *)

EnterConversation(t, c) ==
  /\ thread[t].pc = "idle" /\ lock[c] = None
  /\ lock' = [lock EXCEPT ![c] = t]
  /\ thread' = [thread EXCEPT ![t] = [Idle EXCEPT !.pc = "running", !.customer = c]]
  /\ UNCHANGED <<store, calls, deaths>>

LeaveConversation(t) ==
  /\ thread[t].pc = "running"
  /\ lock' = [lock EXCEPT ![thread[t].customer] = None]
  /\ thread' = [thread EXCEPT ![t] = Idle]
  /\ UNCHANGED <<store, calls, deaths>>

\* register_waiting_demand
RegisterWaitingDemand(t, d) ==
  /\ thread[t].pc = "running" /\ Owner[d] = thread[t].customer
  /\ demand[d].status = "absent"
  /\ demand' = [demand EXCEPT ![d].status = "active"]
  /\ UNCHANGED <<lapsed, seat, host, result, notices, lock, thread, calls, deaths>>

\* cancel_waiting_demands, of one demand: also one that is being dispatched.
CancelWaitingDemand(t, d) ==
  /\ thread[t].pc = "running" /\ Owner[d] = thread[t].customer
  /\ demand[d].status \in {"active", "matched"}
  /\ demand' = [demand EXCEPT ![d].status = "cancelled"]
  /\ UNCHANGED <<lapsed, seat, host, result, notices, lock, thread, calls, deaths>>

\* The participants keep who declined; the seats are of those who are confirmed.
Participants(g) == {c \in Customers : seat[g][c] # "none"}
Seated(g) == {c \in Customers : seat[g][c] \in Taken}
IsFull(g) == Cardinality(Seated(g)) >= Seats

SetSeat(g, c, status) == seat' = [seat EXCEPT ![g][c] = status]

\* The organizer takes a seat, and one for each of the known players.
CreateGame(c, g) ==
  /\ "create_game" \in Tools /\ host[g] = None
  /\ host' = [host EXCEPT ![g] = c]
  /\ \E known \in SUBSET (Guests \ {c}) :
       /\ Cardinality(known) < Seats
       /\ seat' = [seat EXCEPT ![g] = [e \in Customers |-> IF e = c THEN "confirmed"
                                          ELSE IF e \in known THEN "registered" ELSE "none"]]

\* Also who has a seat may confirm it; the seats of the others are counted.
JoinGame(c, g) ==
  /\ "join_game" \in Tools /\ host[g] # None
  /\ Cardinality(Seated(g) \ {c}) < Seats
  /\ SetSeat(g, c, "confirmed") /\ UNCHANGED host

\* An answer that takes no seat, of a participant, or of who was invited to the game or
\* found it and is none: that changes no participant.
RecordCandidateReply(c, g) ==
  /\ "record_candidate_reply" \in Tools /\ host[g] # None
  /\ SetSeat(g, c, IF c \in Participants(g) THEN "declined" ELSE "none") /\ UNCHANGED host

\* The organizer reports that a player he registered withdrew, as often as he likes.
RecordRegisteredMemberWithdrawal(c, g) ==
  /\ "record_registered_member_withdrawal" \in Tools /\ host[g] = c
  /\ \E e \in Customers \ {c} :
       seat[g][e] \in {"registered", "withdrawn"} /\ SetSeat(g, e, "withdrawn")
  /\ UNCHANGED host

\* A tool call of the customer that the hook follows, whatever it changed.
ChangeGame(t, g) ==
  LET c == thread[t].customer
  IN  /\ thread[t].pc = "running" /\ calls < MaxCalls
      /\ \/ CreateGame(c, g) \/ JoinGame(c, g)
         \/ RecordCandidateReply(c, g) \/ RecordRegisteredMemberWithdrawal(c, g)
      /\ calls' = calls + 1
      /\ thread' = [thread EXCEPT ![t].pc = "sweeping", ![t].game = g]
      /\ UNCHANGED <<demand, lapsed, result, notices, lock, deaths>>

----------------------------------------------------------------------------
(* MatchTrigger.match_game.                                                *)

\* expires_at passes.
Lapse(d) ==
  /\ demand[d].status \in {"active", "matched"} /\ d \in Lapsing \ lapsed
  /\ lapsed' = lapsed \cup {d}
  /\ UNCHANGED <<demand, seat, host, result, notices, lock, thread, calls, deaths>>

\* expire_stale_demands: also of demands that are being dispatched.
Swept == [d \in Demands |-> IF d \in lapsed /\ demand[d].status \in {"active", "matched"}
                              THEN [demand[d] EXCEPT !.status = "expired"] ELSE demand[d]]

SweepFirst(t) ==
  /\ thread[t].pc = "sweeping"
  /\ demand' = Swept
  /\ GoTo(t, "scanning")
  /\ UNCHANGED <<lapsed, seat, host, result, notices, lock, calls, deaths>>

\* The task of the scheduler that sweeps every minute.
SweepExpired ==
  /\ Swept # demand
  /\ demand' = Swept
  /\ UNCHANGED <<lapsed, seat, host, result, notices, lock, thread, calls, deaths>>

\* waiting_demand_mismatch_reason: participants are passed over, also those who
\* declined, but not the customer whose run this is.
Matches(d, g) == Owner[d] \notin Participants(g) /\ <<d, g>> \in Suits

\* The demands are listed once, the game is read once.
Scan(t) ==
  /\ thread[t].pc = "scanning"
  /\ LET g == thread[t].game
     IN  thread' = [thread EXCEPT ![t].pc = "claiming",
           ![t].todo = IF IsFull(g) THEN {}
                       ELSE {d \in Demands : demand[d].status = "active" /\ d \notin lapsed /\ Matches(d, g)}]
  /\ UNCHANGED <<store, lock, calls, deaths>>

\* Variant the properties must reject: the claim does not ask for the status.
ClaimableListed(d) == d \notin lapsed

\* claim_waiting_demand_match: its WHERE clause.
Claimable(d) == demand[d].status = "active" /\ d \notin lapsed

ClaimWaitingDemandMatch(t) ==
  /\ thread[t].pc = "claiming"
  /\ \E d \in thread[t].todo :
       IF Claimable(d)
         THEN /\ demand' = [demand EXCEPT ![d] = [status |-> "matched", game |-> thread[t].game]]
              /\ thread' = [thread EXCEPT ![t].pc = "dispatching", ![t].todo = @ \ {d}, ![t].demand = d]
         ELSE /\ thread' = [thread EXCEPT ![t].todo = @ \ {d}]
              /\ UNCHANGED demand
  /\ UNCHANGED <<lapsed, seat, host, result, notices, lock, calls, deaths>>

\* The hook returns to the run that called the tool.
EndScan(t) ==
  /\ thread[t].pc = "claiming" /\ thread[t].todo = {}
  /\ thread' = [thread EXCEPT ![t].pc = "running", ![t].game = None]
  /\ UNCHANGED <<store, lock, calls, deaths>>

----------------------------------------------------------------------------
(* OutboundDispatcher.dispatch_match.                                      *)

\* A match with a draft is not notified again.
Dispatch(t) ==
  /\ thread[t].pc = "dispatching"
  /\ IF notices[Claimed(t)][thread[t].game] > 0 THEN NextDemand(t) ELSE GoTo(t, "calling")
  /\ UNCHANGED <<store, lock, calls, deaths>>

\* What the agent's answer leads to: a draft, or the release of the claim.
Then(answer) == IF answer = "reply" THEN "drafting" ELSE "releasing"

\* Variant the properties must reject: the trigger runs without the lock.
EnterTriggerUnlocked(t) ==
  /\ thread[t].pc = "calling"
  /\ LET known == result[Claimed(t)][thread[t].game]
     IN  IF known # "none" THEN GoTo(t, Then(known))
                           ELSE thread' = [thread EXCEPT ![t].pc = "triggered", ![t].stale = FALSE]
  /\ UNCHANGED <<store, lock, calls, deaths>>

\* handle_system_trigger: the trigger of a match is keyed by demand and game, a
\* remembered result is not worked out again.
EnterTrigger(t) ==
  /\ thread[t].pc = "calling" /\ lock[Target(t)] = None
  /\ LET known == result[Claimed(t)][thread[t].game]
     IN  IF known # "none"
           THEN GoTo(t, Then(known)) /\ UNCHANGED lock
           ELSE /\ lock' = [lock EXCEPT ![Target(t)] = t]
                /\ thread' = [thread EXCEPT ![t].pc = "triggered", ![t].stale = FALSE]
  /\ UNCHANGED <<store, calls, deaths>>

\* Variant the properties must reject: the lock is asked for again.
RetryLock(t) ==
  /\ LockWaits
  /\ thread[t].pc = "calling" /\ lock[Target(t)] # None
  /\ GoTo(t, "calling")
  /\ UNCHANGED <<store, lock, calls, deaths>>

\* Redis: blocking_timeout, LockError.
GiveUpLock(t) ==
  /\ LockWaits
  /\ thread[t].pc = "calling" /\ lock[Target(t)] # None
  /\ GoTo(t, "releasing")
  /\ UNCHANGED <<store, lock, calls, deaths>>

\* A message is received in the conversation: its version advances, which the
\* run of the trigger finds out when it ends.
ReceiveUserMessage(c) ==
  /\ \E t \in Threads : thread[t].pc = "triggered" /\ Target(t) = c /\ ~thread[t].stale
  /\ thread' = [t \in Threads |-> IF thread[t].pc = "triggered" /\ Target(t) = c
                                    THEN [thread[t] EXCEPT !.stale = TRUE] ELSE thread[t]]
  /\ UNCHANGED <<store, lock, calls, deaths>>

\* The run ends and its result is remembered, or it raises and leaves none.
EndTrigger(t) ==
  /\ thread[t].pc = "triggered"
  /\ lock' = [lock EXCEPT ![Target(t)] = None]
  /\ \/ \E answer \in IF thread[t].stale THEN {"superseded"} ELSE {"reply", "silent"} :
          /\ result' = [result EXCEPT ![Claimed(t)][thread[t].game] = answer]
          /\ GoTo(t, Then(answer))
     \/ GoTo(t, "releasing") /\ UNCHANGED result
  /\ UNCHANGED <<demand, lapsed, seat, host, notices, calls, deaths>>

\* create_outbound_message_drafts
CreateNotice(t) ==
  /\ thread[t].pc = "drafting"
  /\ notices' = [notices EXCEPT ![Claimed(t)][thread[t].game] = @ + 1]
  /\ NextDemand(t)
  /\ UNCHANGED <<demand, lapsed, seat, host, result, lock, calls, deaths>>

\* Variants the properties must reject: a release does not ask whether the claim
\* is still there, or is left out.
ReleaseBlindly(t) ==
  /\ thread[t].pc = "releasing"
  /\ demand' = [demand EXCEPT ![Claimed(t)] = [status |-> "active", game |-> None]]
  /\ NextDemand(t)
  /\ UNCHANGED <<lapsed, seat, host, result, notices, lock, calls, deaths>>

ReleaseNever(t) ==
  /\ thread[t].pc = "releasing"
  /\ NextDemand(t)
  /\ UNCHANGED <<store, lock, calls, deaths>>

\* release_waiting_demand_match: the exact claim only.
ReleaseWaitingDemandMatch(t) ==
  /\ thread[t].pc = "releasing"
  /\ demand' = IF demand[Claimed(t)] = [status |-> "matched", game |-> thread[t].game]
                 THEN [demand EXCEPT ![Claimed(t)] = [status |-> "active", game |-> None]]
                 ELSE demand
  /\ NextDemand(t)
  /\ UNCHANGED <<lapsed, seat, host, result, notices, lock, calls, deaths>>

\* The process of a thread dies: its locks are free, its claims stay.
Die(t) ==
  /\ deaths < MaxDeaths /\ thread[t].pc # "idle"
  /\ deaths' = deaths + 1
  /\ thread' = [thread EXCEPT ![t] = Idle]
  /\ lock' = [c \in Customers |-> IF lock[c] = t THEN None ELSE lock[c]]
  /\ UNCHANGED <<store, calls>>

----------------------------------------------------------------------------
MatchGame(t) == SweepFirst(t) \/ Scan(t) \/ ClaimWaitingDemandMatch(t) \/ EndScan(t)

DispatchMatch(t) ==
  \/ Dispatch(t) \/ EnterTrigger(t) \/ GiveUpLock(t) \/ EndTrigger(t)
  \/ CreateNotice(t) \/ ReleaseWaitingDemandMatch(t)

Next ==
  \/ \E t \in Threads :
       \/ \E c \in Customers : EnterConversation(t, c)
       \/ \E d \in Demands : RegisterWaitingDemand(t, d) \/ CancelWaitingDemand(t, d)
       \/ \E g \in Games : ChangeGame(t, g)
       \/ LeaveConversation(t) \/ MatchGame(t) \/ DispatchMatch(t) \/ Die(t)
  \/ \E d \in Demands : Lapse(d)
  \/ \E c \in Customers : ReceiveUserMessage(c)
  \/ SweepExpired

Spec == Init /\ [][Next]_vars

\* A thread goes on, the model answers or raises, a run ends; who waits for a lock
\* that becomes free again and again gets it.
Progress(t) == LeaveConversation(t) \/ MatchGame(t) \/ DispatchMatch(t)

Fairness == \A t \in Threads : SF_vars(Progress(t))

FairSpec == Spec /\ Fairness

----------------------------------------------------------------------------
(* Properties.                                                             *)

\* A customer hears of a game once, however many nodes find the match, fail on
\* it and find it again.
OneNoticePerMatch == \A d \in Demands, g \in Games : notices[d][g] <= 1

Dispatchers(d) == {t \in Threads : Claimed(t) = d}

\* As long as no process died, a matched demand is in the hands of one thread or
\* its customer was notified: no claim is left behind.
ClaimIsNotForgotten ==
  deaths = 0 =>
    \A d \in Demands : demand[d].status = "matched" =>
      notices[d][demand[d].game] > 0 \/ Dispatchers(d) # {}

\* A demand its customer cancelled or that expired is never looked for again, also
\* when a dispatch that was under way fails later.
EndedDemandStaysEnded ==
  [][\A d \in Demands : demand[d].status \in Ended => demand'[d] = demand[d]]_vars

\* The conversations a thread works in: its own and, within it, that of a trigger.
Inside(t) ==
  (IF thread[t].pc = "idle" THEN {} ELSE {thread[t].customer})
    \cup (IF thread[t].pc = "triggered" THEN {Target(t)} ELSE {})

\* A conversation is worked in by one thread, also when its customer was matched
\* by a run of another conversation (locks that run out: ConversationRuns).
OneThreadPerConversation ==
  \A t, u \in Threads : Inside(t) \cap Inside(u) # {} => t = u

\* "Within a conversation one by one, different conversations in parallel": a run ends,
\* whatever conversations its matches lead to.
EveryRunEnds == \A t \in Threads : thread[t].pc # "idle" ~> thread[t].pc = "idle"
===============================================================================
