---------------------------- MODULE ScheduledTasks ----------------------------
(***************************************************************************)
(* The durable task table (stores/sqlite/scheduling.py and the other       *)
(* writers of runtime_scheduled_agent_tasks) and the scheduler threads     *)
(* that lease tasks from it (scheduled_tasks.py), in any number of         *)
(* processes sharing the database.                                         *)
(*                                                                         *)
(* Every store method runs inside one BEGIN IMMEDIATE transaction, so each *)
(* is one action.  A worker is a scheduler thread: it scans, claims the    *)
(* scanned identifiers one by one, runs a handler and settles.  Between    *)
(* two of its transactions anything may happen, including its death.       *)
(***************************************************************************)
EXTENDS Integers, Sequences, FiniteSets

CONSTANTS
  Tasks,        \* identifiers, numbered in the order they can be created
  Kind,         \* [Tasks -> Kinds]: task_type
  Aggregate,    \* [Tasks -> ...]: aggregate_id, what the task is about
  Workers,      \* scheduler threads of all processes
  None,
  Lease,        \* lease_seconds
  RetryDelay,   \* retry_delay_seconds of a failure
  DeferDelay,   \* delay_seconds of a ScheduledTaskDeferred
  MaxAttempts,  \* max_attempts
  DueDelays,    \* how far ahead business code schedules work
  MaxStall,     \* bound: how long a write may wait after its clock was read
  MaxTime,      \* bound: the clock stops here
  MaxClaims     \* bound: claims of one task

Kinds == {"publish_group_board", "activate_game_recruitment", "conversation_follow_up",
          "participation_deadline", "waiting_demand_expiry"}

ASSUME TasksAssumption == Tasks \subseteq Nat /\ IsFiniteSet(Tasks)
ASSUME KindAssumption == Kind \in [Tasks -> Kinds]
ASSUME NoneAssumption == None \notin Tasks /\ None \notin Workers
ASSUME DelayAssumption == /\ {Lease, RetryDelay, DeferDelay, MaxAttempts} \subseteq Nat \ {0}
                          /\ {MaxStall, MaxTime, MaxClaims} \subseteq Nat
                          /\ DueDelays \subseteq Nat

VARIABLES
  now,
  status,      \* [Tasks -> Statuses]
  dueAt,       \* [Tasks -> Nat]
  attempts,    \* [Tasks -> Nat]
  leaseUntil,  \* [Tasks -> Nat], NoLease for a null lease_until
  queue,       \* [Workers -> Seq(Tasks)]: identifiers of the last scan still to claim
  held,        \* [Workers -> Claim \cup {NoClaim}]: the claim whose handler is running
  claims,      \* history, [Tasks -> Nat]: how often each task was claimed
  refunds      \* history, [Tasks -> Nat]: how many of these claims were deferred

store == <<status, dueAt, attempts, leaseUntil>>
vars == <<now, status, dueAt, attempts, leaseUntil, queue, held, claims, refunds>>

Live == {"pending", "processing"}
Terminal == {"completed", "failed", "cancelled"}
Statuses == {"absent"} \cup Live \cup Terminal
NoLease == 0

\* The credentials _run_tasks captures before the handler runs; "claim" numbers
\* the claim itself, which the code does not keep.
Claim == [task : Tasks, attempts : Nat, lease : Nat, claim : Nat]
NoClaim == [task |-> None, attempts |-> 0, lease |-> 0, claim |-> 0]

TypeOK ==
  /\ now \in Nat
  /\ status \in [Tasks -> Statuses]
  /\ dueAt \in [Tasks -> Nat]
  /\ attempts \in [Tasks -> Nat]
  /\ leaseUntil \in [Tasks -> Nat]
  /\ queue \in [Workers -> Seq(Tasks)]
  /\ held \in [Workers -> Claim \cup {NoClaim}]
  /\ claims \in [Tasks -> Nat]
  /\ refunds \in [Tasks -> Nat]

Init ==
  /\ now = 0
  /\ status = [t \in Tasks |-> "absent"]
  /\ dueAt = [t \in Tasks |-> 0]
  /\ attempts = [t \in Tasks |-> 0]
  /\ leaseUntil = [t \in Tasks |-> NoLease]
  /\ queue = [w \in Workers |-> <<>>]
  /\ held = [w \in Workers |-> NoClaim]
  /\ claims = [t \in Tasks |-> 0]
  /\ refunds = [t \in Tasks |-> 0]

Tick == /\ now < MaxTime
        /\ now' = now + 1
        /\ UNCHANGED <<status, dueAt, attempts, leaseUntil, queue, held, claims, refunds>>

\* The values a transaction's clock may have: it was read before the write lock.
Stamps == {at \in 0..now : now <= at + MaxStall}

----------------------------------------------------------------------------
(* The writers that register, replace and revoke work.                     *)

Of(kind, aggregate) == {t \in Tasks : Kind[t] = kind /\ Aggregate[t] = aggregate}

\* Variant the properties must reject: a task being processed is not replaced.
LiveOfPendingOnly(kind, aggregate) == {t \in Of(kind, aggregate) : status[t] = "pending"}

LiveOf(kind, aggregate) == {t \in Of(kind, aggregate) : status[t] \in Live}

\* The first unused identifiers of a kind and aggregate: new_id never repeats one.
Fresh(t) == /\ status[t] = "absent"
            /\ \A u \in Of(Kind[t], Aggregate[t]) : status[u] = "absent" => t <= u

\* ScheduledAgentTask(...): a new row, nothing else of the table changed but
\* the rows of "dropped", which become cancelled; those of "unleased" lose their lease.
NewRow(t, st, due, dropped, unleased) ==
  /\ Fresh(t)
  /\ status' = [u \in Tasks |-> IF u = t THEN st
                                ELSE IF u \in dropped THEN "cancelled" ELSE status[u]]
  /\ dueAt' = [dueAt EXCEPT ![t] = due]
  /\ leaseUntil' = [u \in Tasks |-> IF u \in unleased THEN NoLease ELSE leaseUntil[u]]
  /\ UNCHANGED <<now, attempts, queue, held, claims, refunds>>

RevokeRows(dropped, unleased) ==
  /\ dropped # {}
  /\ status' = [u \in Tasks |-> IF u \in dropped THEN "cancelled" ELSE status[u]]
  /\ leaseUntil' = [u \in Tasks |-> IF u \in unleased THEN NoLease ELSE leaseUntil[u]]
  /\ UNCHANGED <<now, dueAt, attempts, queue, held, claims, refunds>>

\* A pending refresh of the room absorbs the request; otherwise, also while one
\* is being published, a successor of its own is registered.
EnsureGroupBoardPublishTask(t) ==
  /\ Kind[t] = "publish_group_board"
  /\ \E delay \in DueDelays :
       LET due == now + delay
           pending == {u \in Of(Kind[t], Aggregate[t]) : status[u] = "pending"}
       IN  IF pending = {}
             THEN NewRow(t, "pending", due, {}, {})
             ELSE /\ t \in pending /\ \A u \in pending : t <= u
                  /\ due < dueAt[t]
                  /\ dueAt' = [dueAt EXCEPT ![t] = due]
                  /\ UNCHANGED <<now, status, attempts, leaseUntil, queue, held, claims, refunds>>

\* Variant the properties must reject: rescheduling starts the attempts over.
ScheduleRecruitmentAfresh(t) ==
  /\ Kind[t] = "activate_game_recruitment"
  /\ \E delay \in DueDelays \ {0} :
       /\ status' = [status EXCEPT ![t] = "pending"]
       /\ dueAt' = [dueAt EXCEPT ![t] = now + delay]
       /\ leaseUntil' = [leaseUntil EXCEPT ![t] = NoLease]
       /\ attempts' = [attempts EXCEPT ![t] = 0]
       /\ UNCHANGED <<now, queue, held, claims, refunds>>

\* A game whose recruitment opens in the future, created or edited: one row per
\* game, rewound to pending whatever its status, its attempts kept.
ScheduleRecruitment(t) ==
  /\ Kind[t] = "activate_game_recruitment"
  /\ \E delay \in DueDelays \ {0} :
       /\ status' = [status EXCEPT ![t] = "pending"]
       /\ dueAt' = [dueAt EXCEPT ![t] = now + delay]
       /\ leaseUntil' = [leaseUntil EXCEPT ![t] = NoLease]
       /\ UNCHANGED <<now, attempts, queue, held, claims, refunds>>

CancelRecruitment(t) ==
  /\ Kind[t] = "activate_game_recruitment"
  /\ status[t] \in Live
  /\ RevokeRows({t}, {t})

\* A follow-up replaces the live one of its goal; the replaced row keeps its
\* lease.  cancel_follow_up stores a row that is already cancelled: its check
\* for a live follow-up ran before this transaction.
SaveFollowUpTask(t) ==
  /\ Kind[t] = "conversation_follow_up"
  /\ LET old == LiveOf(Kind[t], Aggregate[t])
     IN  \/ \E delay \in DueDelays \ {0} : NewRow(t, "pending", now + delay, old, {})
         \/ NewRow(t, "cancelled", now, old, {})

SaveParticipationDeadline(t) ==
  /\ Kind[t] = "participation_deadline"
  /\ \E delay \in DueDelays \ {0} :
       LET old == LiveOf(Kind[t], Aggregate[t])
       IN  NewRow(t, "pending", now + delay, old, old)

ClearParticipationDeadline(t) ==
  /\ Kind[t] = "participation_deadline"
  /\ status[t] \in Live
  /\ LET old == LiveOf(Kind[t], Aggregate[t]) IN RevokeRows(old, old)

\* The message a follow-up or a deadline came from is recalled.
InvalidateMessageContext(t) ==
  /\ Kind[t] \in {"conversation_follow_up", "participation_deadline"}
  /\ status[t] \in Live
  /\ RevokeRows({t}, {})

EnsureWaitingDemandExpirationTask(t) ==
  /\ Kind[t] = "waiting_demand_expiry"
  /\ \E delay \in DueDelays : NewRow(t, "pending", now + delay, {}, {})

----------------------------------------------------------------------------
(* The scheduler threads.                                                  *)

Recoverable(t, at) == /\ status[t] = "processing"
                      /\ leaseUntil[t] # NoLease
                      /\ leaseUntil[t] <= at

DueTasks(at) == {t \in Tasks : \/ status[t] = "pending" /\ dueAt[t] <= at
                               \/ Recoverable(t, at)}

\* The scan is ordered by due_at, rows due together in the order of their random ids.
RunDueOnce(w) ==
  /\ held[w] = NoClaim /\ queue[w] = <<>>
  /\ DueTasks(now) # {}
  /\ \E batch \in [1..Cardinality(DueTasks(now)) -> DueTasks(now)] :
       /\ \A i, j \in DOMAIN batch : i < j => batch[i] # batch[j] /\ dueAt[batch[i]] <= dueAt[batch[j]]
       /\ queue' = [queue EXCEPT ![w] = batch]
  /\ UNCHANGED <<now, status, dueAt, attempts, leaseUntil, held, claims, refunds>>

\* run_task_once: an operator triggers one task by hand, due or not.
RunTaskOnce(w, t) ==
  /\ held[w] = NoClaim /\ queue[w] = <<>>
  /\ status[t] # "absent"
  /\ queue' = [queue EXCEPT ![w] = <<t>>]
  /\ UNCHANGED <<now, status, dueAt, attempts, leaseUntil, held, claims, refunds>>

\* Variant the properties must reject: any processing row of the room counts as free.
RoomIsNeverPublishing(t, at) == FALSE

\* Another group-board task of the room is being published under a live lease.
RoomIsPublishing(t, at) ==
  /\ Kind[t] = "publish_group_board"
  /\ \E u \in Of(Kind[t], Aggregate[t]) \ {t} :
       status[u] = "processing" /\ leaseUntil[u] > at

CanClaim(t, at) == /\ dueAt[t] <= at
                   /\ status[t] = "pending" \/ Recoverable(t, at)
                   /\ ~RoomIsPublishing(t, at)

\* The lease only moves forward, past the mark a deferred claim left behind.
NextLease(t, at) == IF leaseUntil[t] # NoLease /\ at + Lease <= leaseUntil[t]
                      THEN leaseUntil[t] + 1
                      ELSE at + Lease

ClaimScheduledTask(w) ==
  /\ held[w] = NoClaim /\ queue[w] # <<>>
  /\ queue' = [queue EXCEPT ![w] = Tail(@)]
  /\ \E at \in Stamps :
       LET t == Head(queue[w])
       IN  /\ CanClaim(t, at)
           /\ claims[t] < MaxClaims
           /\ status' = [status EXCEPT ![t] = "processing"]
           /\ attempts' = [attempts EXCEPT ![t] = @ + 1]
           /\ leaseUntil' = [leaseUntil EXCEPT ![t] = NextLease(t, at)]
           /\ claims' = [claims EXCEPT ![t] = @ + 1]
           /\ held' = [held EXCEPT ![w] = [task |-> t, attempts |-> attempts[t] + 1,
                                           lease |-> NextLease(t, at), claim |-> claims[t] + 1]]
  /\ UNCHANGED <<now, dueAt, refunds>>

\* claim_scheduled_task returned None: the next identifier of the scan.
SkipScheduledTask(w) ==
  /\ held[w] = NoClaim /\ queue[w] # <<>>
  /\ \E at \in Stamps : ~CanClaim(Head(queue[w]), at)
  /\ queue' = [queue EXCEPT ![w] = Tail(@)]
  /\ UNCHANGED <<now, status, dueAt, attempts, leaseUntil, held, claims, refunds>>

\* Variant the properties must reject: the row is only known to be processing.
MatchesClaimByStatus(t, c) == status[t] = "processing"

\* ScheduledAgentTask.matches_claim
MatchesClaim(t, c) == /\ status[t] = "processing"
                      /\ attempts[t] = c.attempts
                      /\ leaseUntil[t] = c.lease

\* A settlement ends the worker's claim.  The row changes if the claim is still
\* the row's; it is left alone, and the settlement reported as ignored, otherwise.
Current(w) == MatchesClaim(held[w].task, held[w])

EndClaim(w) == /\ held[w] # NoClaim
               /\ held' = [held EXCEPT ![w] = NoClaim]
               /\ UNCHANGED <<now, queue, claims>>

\* Variant the properties must reject: completion does not look at the row.
CompleteScheduledTaskBlindly(w) ==
  /\ EndClaim(w)
  /\ status' = [status EXCEPT ![held[w].task] = "completed"]
  /\ leaseUntil' = [leaseUntil EXCEPT ![held[w].task] = NoLease]
  /\ UNCHANGED <<dueAt, attempts, refunds>>

CompleteScheduledTask(w) ==
  /\ EndClaim(w) /\ Current(w)
  /\ status' = [status EXCEPT ![held[w].task] = "completed"]
  /\ leaseUntil' = [leaseUntil EXCEPT ![held[w].task] = NoLease]
  /\ UNCHANGED <<dueAt, attempts, refunds>>

RetryScheduledTask(w) ==
  /\ EndClaim(w) /\ Current(w)
  /\ attempts[held[w].task] < MaxAttempts
  /\ status' = [status EXCEPT ![held[w].task] = "pending"]
  /\ leaseUntil' = [leaseUntil EXCEPT ![held[w].task] = NoLease]
  /\ \E at \in Stamps : dueAt' = [dueAt EXCEPT ![held[w].task] = at + RetryDelay]
  /\ UNCHANGED <<attempts, refunds>>

ExhaustScheduledTask(w) ==
  /\ EndClaim(w) /\ Current(w)
  /\ attempts[held[w].task] >= MaxAttempts
  /\ status' = [status EXCEPT ![held[w].task] = "failed"]
  /\ leaseUntil' = [leaseUntil EXCEPT ![held[w].task] = NoLease]
  /\ UNCHANGED <<dueAt, attempts, refunds>>

\* A pause is not a failure: the attempt is given back, the lease stays as a mark.
DeferScheduledTask(w) ==
  /\ EndClaim(w) /\ Current(w)
  /\ status' = [status EXCEPT ![held[w].task] = "pending"]
  /\ attempts' = [attempts EXCEPT ![held[w].task] = IF @ > 0 THEN @ - 1 ELSE 0]
  /\ refunds' = [refunds EXCEPT ![held[w].task] = @ + 1]
  /\ \E at \in Stamps : dueAt' = [dueAt EXCEPT ![held[w].task] = at + DeferDelay]
  /\ UNCHANGED <<leaseUntil>>

IgnoreSettlement(w) ==
  /\ EndClaim(w) /\ ~Current(w)
  /\ UNCHANGED <<store, refunds>>

\* The process dies: its scan and its running handler are gone, the rows stay.
Crash(w) ==
  /\ held[w] # NoClaim \/ queue[w] # <<>>
  /\ queue' = [queue EXCEPT ![w] = <<>>]
  /\ held' = [held EXCEPT ![w] = NoClaim]
  /\ UNCHANGED <<now, status, dueAt, attempts, leaseUntil, claims, refunds>>

----------------------------------------------------------------------------
Business(t) == \/ EnsureGroupBoardPublishTask(t)
               \/ ScheduleRecruitment(t)
               \/ CancelRecruitment(t)
               \/ SaveFollowUpTask(t)
               \/ SaveParticipationDeadline(t)
               \/ ClearParticipationDeadline(t)
               \/ InvalidateMessageContext(t)
               \/ EnsureWaitingDemandExpirationTask(t)

Settlement(w) == \/ CompleteScheduledTask(w)
                 \/ RetryScheduledTask(w)
                 \/ ExhaustScheduledTask(w)
                 \/ DeferScheduledTask(w)
                 \/ IgnoreSettlement(w)

Scheduler(w) == \/ RunDueOnce(w)
                \/ \E t \in Tasks : RunTaskOnce(w, t)
                \/ ClaimScheduledTask(w)
                \/ SkipScheduledTask(w)
                \/ Settlement(w)

Next == \/ Tick
        \/ \E t \in Tasks : Business(t)
        \/ \E w \in Workers : Scheduler(w) \/ Crash(w)

Spec == Init /\ [][Next]_vars

----------------------------------------------------------------------------
(* Properties.                                                             *)

\* A credential that still matches its row belongs to the row's latest claim:
\* complete, fail and defer of any earlier worker are ignored, whatever was
\* retried, deferred, cancelled or rescheduled in between.
FencedClaims ==
  \A w \in Workers : held[w] # NoClaim /\ Current(w) => held[w].claim = claims[held[w].task]

\* attempts counts exactly the claims that were not deferred: no claim is
\* refunded twice and none is charged to a task without a worker taking it.
AttemptsAccountForClaims ==
  \A t \in Tasks : attempts[t] + refunds[t] = claims[t]

\* Boards of one room are published one at a time: at most one of the room's
\* publish tasks is processing under a lease that has not run out.
OneLiveBoardLease ==
  \A t \in Tasks :
    status[t] = "processing" /\ leaseUntil[t] > now /\ Kind[t] = "publish_group_board"
    => \A u \in Of(Kind[t], Aggregate[t]) :
         status[u] = "processing" /\ leaseUntil[u] > now => t = u

\* A goal has at most one live follow-up and a seat at most one live deadline,
\* also while the one being replaced is processing.
OneLiveResponsibility ==
  \A t \in Tasks :
    status[t] \in Live /\ Kind[t] \in {"conversation_follow_up", "participation_deadline"}
    => \A u \in Of(Kind[t], Aggregate[t]) : status[u] \in Live => t = u

\* Only rescheduling a game revives a row that was completed, failed or cancelled.
SettledWorkStaysSettled ==
  [][\A t \in Tasks : status[t] \in Terminal /\ status'[t] # status[t]
                        => Kind[t] = "activate_game_recruitment"]_vars

Phase(s) == CASE s = "absent" -> "absent"
              [] s = "pending" -> "open"
              [] s = "processing" -> "held"
              [] s \in Terminal -> "closed"

\* The worker with the latest claim of a row that is processing.
Owns(w, t) == status[t] = "processing" /\ held[w].task = t /\ held[w].claim = claims[t]
Owner(t) == IF \E w \in Workers : Owns(w, t) THEN CHOOSE w \in Workers : Owns(w, t) ELSE None

Work == INSTANCE LeasedWork WITH
  phase <- [t \in Tasks |-> Phase(status[t])],
  owner <- [t \in Tasks |-> Owner(t)],
  job <- [w \in Workers |-> held[w].task]

\* The table and its workers implement LeasedWork: a row's settlement counts if it
\* comes from the worker that claimed it last, while the row is processing.
ImplementsLeasedWork == Work!Spec
===============================================================================
