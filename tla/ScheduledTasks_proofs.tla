------------------------- MODULE ScheduledTasks_proofs -------------------------
(***************************************************************************)
(* The properties of ScheduledTasks for any table, any number of workers   *)
(* and any bounds.  The argument is that a claim's attempts credential     *)
(* alone fences it: the row's attempts is never below a holder's, and is   *)
(* above it as soon as the row was claimed again.                          *)
(***************************************************************************)
EXTENDS ScheduledTasks, FiniteSetTheorems, SequenceTheorems, TLAPS

\* What a writer of the table leaves alone: no row becomes processing, no lease
\* of a processing row moves, no row is removed, and nothing the workers hold or counted changes.
TableWrite ==
  /\ UNCHANGED <<now, attempts, queue, held, claims, refunds>>
  /\ status' \in [Tasks -> Statuses]
  /\ dueAt' \in [Tasks -> Nat]
  /\ leaseUntil' \in [Tasks -> Nat]
  /\ \A u \in Tasks : status'[u] = "processing" =>
        status[u] = "processing" /\ leaseUntil'[u] = leaseUntil[u]
  /\ \A u \in Tasks : status'[u] = "absent" => status[u] = "absent"

\* Every registration, replacement and revocation is such a write.
LEMMA BusinessStep ==
  ASSUME TypeOK, NEW t \in Tasks, Business(t)
  PROVE  TableWrite
<1> USE DelayAssumption DEF TypeOK, Statuses, Live, Terminal, NoLease, TableWrite
<1>1. ASSUME NEW st \in {"pending", "cancelled"}, NEW due \in Nat,
             NEW dropped \in SUBSET Tasks, NEW unleased \in SUBSET dropped,
             NewRow(t, st, due, dropped, unleased)
      PROVE  TableWrite
  BY <1>1 DEF NewRow, Fresh
<1>2. ASSUME NEW dropped \in SUBSET Tasks, NEW unleased \in SUBSET dropped,
             RevokeRows(dropped, unleased)
      PROVE  TableWrite
  BY <1>2 DEF RevokeRows
<1>3. LiveOf(Kind[t], Aggregate[t]) \in SUBSET Tasks
  BY DEF LiveOf, Of
<1>4. CASE EnsureGroupBoardPublishTask(t)
  <2> PICK delay \in DueDelays :
         LET pending == {u \in Of(Kind[t], Aggregate[t]) : status[u] = "pending"}
         IN  IF pending = {}
               THEN NewRow(t, "pending", now + delay, {}, {})
               ELSE /\ dueAt' = [dueAt EXCEPT ![t] = now + delay]
                    /\ UNCHANGED <<now, status, attempts, leaseUntil, queue, held, claims, refunds>>
    BY <1>4 DEF EnsureGroupBoardPublishTask
  <2> now + delay \in Nat
    OBVIOUS
  <2> QED BY <1>1
<1>5. CASE ScheduleRecruitment(t)
  BY <1>5 DEF ScheduleRecruitment
<1>6. CASE CancelRecruitment(t)
  BY <1>2, <1>6 DEF CancelRecruitment
<1>7. CASE SaveFollowUpTask(t)
  <2> DEFINE old == LiveOf(Kind[t], Aggregate[t])
  <2>1. \/ \E delay \in DueDelays \ {0} : NewRow(t, "pending", now + delay, old, {})
        \/ NewRow(t, "cancelled", now, old, {})
    BY <1>7 DEF SaveFollowUpTask
  <2>2. old \in SUBSET Tasks /\ {} \in SUBSET old
    BY <1>3
  <2>3. \A delay \in DueDelays : now + delay \in Nat
    OBVIOUS
  <2> HIDE DEF old
  <2> QED BY <1>1, <2>1, <2>2, <2>3
<1>8. CASE SaveParticipationDeadline(t)
  <2> DEFINE old == LiveOf(Kind[t], Aggregate[t])
  <2>1. \E delay \in DueDelays \ {0} : NewRow(t, "pending", now + delay, old, old)
    BY <1>8 DEF SaveParticipationDeadline
  <2>2. old \in SUBSET Tasks /\ old \in SUBSET old
    BY <1>3
  <2>3. \A delay \in DueDelays : now + delay \in Nat
    OBVIOUS
  <2> HIDE DEF old
  <2> QED BY <1>1, <2>1, <2>2, <2>3
<1>9. CASE ClearParticipationDeadline(t)
  BY <1>2, <1>3, <1>9 DEF ClearParticipationDeadline
<1>10. CASE InvalidateMessageContext(t)
  BY <1>2, <1>10 DEF InvalidateMessageContext
<1>11. CASE EnsureWaitingDemandExpirationTask(t)
  <2>1. PICK delay \in DueDelays : NewRow(t, "pending", now + delay, {}, {})
    BY <1>11 DEF EnsureWaitingDemandExpirationTask
  <2>2. now + delay \in Nat
    OBVIOUS
  <2>3. {} \in SUBSET Tasks /\ {} \in SUBSET {}
    OBVIOUS
  <2> QED BY <1>1, <2>1, <2>2, <2>3
<1> QED BY <1>4, <1>5, <1>6, <1>7, <1>8, <1>9, <1>10, <1>11 DEF Business

----------------------------------------------------------------------------
(* Type correctness.                                                       *)

\* The batch of a scan (due_scheduled_tasks) is a sequence of identifiers of the table.
LEMMA ScanType == ASSUME TypeOK, NEW w \in Workers, RunDueOnce(w) PROVE queue' \in [Workers -> Seq(Tasks)]
<1>1. DueTasks(now) \subseteq Tasks
  BY DEF DueTasks
<1>2. Cardinality(DueTasks(now)) \in Nat
  BY <1>1, TasksAssumption, FS_Subset, FS_CardinalityType
<1>3. \A batch \in [1..Cardinality(DueTasks(now)) -> DueTasks(now)] : batch \in Seq(Tasks)
  BY <1>1, <1>2, SeqDef
<1> QED BY <1>3 DEF RunDueOnce, TypeOK

\* A worker that still claims takes an existing identifier from its scan.
LEMMA ScannedTask ==
  ASSUME TypeOK, NEW w \in Workers, queue[w] # <<>>
  PROVE  Head(queue[w]) \in Tasks /\ Tail(queue[w]) \in Seq(Tasks)
BY HeadTailProperties DEF TypeOK

\* The running claim of a worker names a task of the table and its credentials.
LEMMA HolderType ==
  ASSUME TypeOK, NEW w \in Workers, held[w] # NoClaim
  PROVE  /\ held[w] \in Claim
         /\ held[w].task \in Tasks
         /\ held[w].attempts \in Nat /\ held[w].lease \in Nat /\ held[w].claim \in Nat
BY DEF TypeOK, Claim

\* The empty table and idle workers are well typed.
LEMMA TypeInit == Init => TypeOK
BY DEF Init, TypeOK, Statuses, NoLease

\* Lease, retry and pause lengths are numbers, so stamps computed from them are.
LEMMA Delays == {Lease, RetryDelay, DeferDelay} \subseteq Nat
BY DelayAssumption

\* Every store method and scheduler step keeps the columns and claims well typed.
LEMMA TypeStep == TypeOK /\ [Next]_vars => TypeOK'
<1> SUFFICES ASSUME TypeOK, [Next]_vars PROVE TypeOK'
  OBVIOUS
<1> USE Delays DEF Statuses, Live, Terminal, NoLease
<1>1. CASE Tick
  BY <1>1 DEF Tick, TypeOK
<1>2. ASSUME NEW t \in Tasks, Business(t) PROVE TypeOK'
  BY <1>2, BusinessStep DEF TypeOK, TableWrite
<1>3. ASSUME NEW w \in Workers, Scheduler(w) \/ Crash(w) PROVE TypeOK'
  <2>1. CASE RunDueOnce(w)
    BY <2>1, ScanType DEF RunDueOnce, TypeOK
  <2>2. ASSUME NEW t \in Tasks, RunTaskOnce(w, t) PROVE TypeOK'
    BY <2>2 DEF RunTaskOnce, TypeOK
  <2>3. CASE ClaimScheduledTask(w)
    <3> DEFINE t == Head(queue[w])
    <3>1. PICK at \in Stamps :
            /\ status' = [status EXCEPT ![t] = "processing"]
            /\ attempts' = [attempts EXCEPT ![t] = @ + 1]
            /\ leaseUntil' = [leaseUntil EXCEPT ![t] = NextLease(t, at)]
            /\ claims' = [claims EXCEPT ![t] = @ + 1]
            /\ held' = [held EXCEPT ![w] = [task |-> t, attempts |-> attempts[t] + 1,
                                            lease |-> NextLease(t, at), claim |-> claims[t] + 1]]
      BY <2>3 DEF ClaimScheduledTask
    <3>2. t \in Tasks /\ Tail(queue[w]) \in Seq(Tasks)
      BY <2>3, ScannedTask DEF ClaimScheduledTask
    <3>3. NextLease(t, at) \in Nat
      <4>1. at \in Nat /\ leaseUntil[t] \in Nat
        BY <3>2 DEF Stamps, TypeOK
      <4> QED BY <4>1 DEF NextLease
    <3>4. UNCHANGED <<now, dueAt, refunds>> /\ queue' = [queue EXCEPT ![w] = Tail(@)]
      BY <2>3 DEF ClaimScheduledTask
    <3> HIDE DEF t
    <3>8. attempts \in [Tasks -> Nat] /\ claims \in [Tasks -> Nat]
      BY DEF TypeOK
    <3>9. attempts[t] + 1 \in Nat /\ claims[t] + 1 \in Nat
      BY <3>2, <3>8
    <3>5. held' \in [Workers -> Claim \cup {NoClaim}]
      <4>1. [task |-> t, attempts |-> attempts[t] + 1, lease |-> NextLease(t, at),
             claim |-> claims[t] + 1] \in Claim
        BY <3>2, <3>3, <3>9 DEF Claim
      <4>2. held \in [Workers -> Claim \cup {NoClaim}]
        BY DEF TypeOK
      <4> QED BY <3>1, <4>1, <4>2
    <3>6. queue' \in [Workers -> Seq(Tasks)]
      BY <3>2, <3>4 DEF TypeOK
    <3>7. /\ status' \in [Tasks -> Statuses]
          /\ attempts' \in [Tasks -> Nat]
          /\ leaseUntil' \in [Tasks -> Nat]
          /\ claims' \in [Tasks -> Nat]
      <4>1. status' \in [Tasks -> Statuses]
        BY <3>1, <3>2 DEF TypeOK
      <4>3. attempts' \in [Tasks -> Nat] /\ claims' \in [Tasks -> Nat]
        BY <3>1, <3>2, <3>8, <3>9
      <4>4. leaseUntil' \in [Tasks -> Nat]
        BY <3>1, <3>2, <3>3 DEF TypeOK
      <4> QED BY <4>1, <4>3, <4>4
    <3> QED BY <3>4, <3>5, <3>6, <3>7 DEF TypeOK
  <2>4. CASE SkipScheduledTask(w)
    BY <2>4, ScannedTask DEF SkipScheduledTask, TypeOK
  <2>5. CASE Settlement(w)
    <3>1. held[w].task \in Tasks
      BY <2>5, HolderType DEF Settlement, CompleteScheduledTask, RetryScheduledTask,
         ExhaustScheduledTask, DeferScheduledTask, IgnoreSettlement, EndClaim
    <3>2. CASE CompleteScheduledTask(w)
      BY <3>1, <3>2 DEF CompleteScheduledTask, EndClaim, TypeOK
    <3>3. CASE RetryScheduledTask(w)
      BY <3>1, <3>3 DEF RetryScheduledTask, EndClaim, Stamps, TypeOK
    <3>4. CASE ExhaustScheduledTask(w)
      BY <3>1, <3>4 DEF ExhaustScheduledTask, EndClaim, TypeOK
    <3>5. CASE DeferScheduledTask(w)
      <4>1. PICK at \in Stamps : dueAt' = [dueAt EXCEPT ![held[w].task] = at + DeferDelay]
        BY <3>5 DEF DeferScheduledTask
      <4>2. at + DeferDelay \in Nat
        BY DEF Stamps, TypeOK
      <4>3. attempts' \in [Tasks -> Nat] /\ refunds' \in [Tasks -> Nat]
        BY <3>1, <3>5 DEF DeferScheduledTask, TypeOK
      <4> QED BY <3>1, <3>5, <4>1, <4>2, <4>3 DEF DeferScheduledTask, EndClaim, TypeOK
    <3>6. CASE IgnoreSettlement(w)
      BY <3>6 DEF IgnoreSettlement, EndClaim, store, TypeOK
    <3> QED BY <2>5, <3>2, <3>3, <3>4, <3>5, <3>6 DEF Settlement
  <2>6. CASE Crash(w)
    BY <2>6, EmptySeq DEF Crash, TypeOK
  <2> QED BY <1>3, <2>1, <2>2, <2>3, <2>4, <2>5, <2>6 DEF Scheduler
<1>4. CASE UNCHANGED vars
  BY <1>4 DEF vars, TypeOK
<1> QED BY <1>1, <1>2, <1>3, <1>4 DEF Next

\* Type correctness of the table and its workers.
THEOREM TypeCorrect == Spec => []TypeOK
BY TypeInit, TypeStep, PTL DEF Spec

----------------------------------------------------------------------------
(* Fencing.  FencedClaims is not inductive: it says nothing of a credential *)
(* that does not match yet.  The strengthening orders every holder's        *)
(* credential before the row's, strictly once a later claim is processing.  *)

Behind(w) ==
  held[w] # NoClaim =>
    /\ 1 <= held[w].attempts /\ held[w].attempts <= attempts[held[w].task]
    /\ held[w].claim <= claims[held[w].task]
    /\ status[held[w].task] = "processing" /\ held[w].claim < claims[held[w].task]
         => held[w].attempts < attempts[held[w].task]

\* Two workers on one row have different claims of it.
Apart(v, w) == held[v] # NoClaim /\ held[w] # NoClaim /\ held[v].task = held[w].task
                 => held[v].claim # held[w].claim

ClaimOrder == /\ \A w \in Workers : Behind(w)
              /\ \A v, w \in Workers : v # w => Apart(v, w)

IInv == TypeOK /\ ClaimOrder

\* A claim behind the row's latest one fails matches_claim: fencing follows from the order.
LEMMA Fencing == IInv => FencedClaims
<1> SUFFICES ASSUME IInv, NEW w \in Workers, held[w] # NoClaim, Current(w)
             PROVE  held[w].claim = claims[held[w].task]
  BY DEF FencedClaims
<1>1. /\ held[w].claim \in Nat /\ claims[held[w].task] \in Nat
      /\ held[w].attempts \in Nat /\ attempts[held[w].task] \in Nat
  BY HolderType DEF IInv, TypeOK
<1>2. Behind(w)
  BY DEF IInv, ClaimOrder
<1> QED BY <1>1, <1>2 DEF Behind, Current, MatchesClaim

\* A step that hands out no work and settles none.
LEMMA OrderKept ==
  ASSUME ClaimOrder, UNCHANGED <<attempts, held, claims>>, TypeOK,
         \A t \in Tasks : status'[t] = "processing" => status[t] = "processing"
  PROVE  ClaimOrder'
<1>1. \A w \in Workers : held[w] # NoClaim => held[w].task \in Tasks
  BY HolderType
<1> QED BY <1>1 DEF ClaimOrder, Behind, Apart

\* A step that ends a claim without touching the attempts of the row.
LEMMA OrderReleased ==
  ASSUME ClaimOrder, TypeOK, NEW w \in Workers,
         held' = [held EXCEPT ![w] = NoClaim], UNCHANGED <<attempts, claims>>,
         \A t \in Tasks : status'[t] = "processing" => status[t] = "processing"
  PROVE  ClaimOrder'
<1>1. \A v \in Workers : held[v] # NoClaim => held[v].task \in Tasks
  BY HolderType
<1>2. \A v \in Workers : held'[v] = (IF v = w THEN NoClaim ELSE held[v])
  BY DEF TypeOK
<1> QED BY <1>1, <1>2 DEF ClaimOrder, Behind, Apart

\* claim_scheduled_task moves the row's credentials past those of every earlier claim.
LEMMA OrderClaimed ==
  ASSUME IInv, NEW w \in Workers, ClaimScheduledTask(w)
  PROVE  ClaimOrder'
<1> DEFINE t == Head(queue[w])
<1>1. PICK at \in Stamps :
        /\ status' = [status EXCEPT ![t] = "processing"]
        /\ attempts' = [attempts EXCEPT ![t] = @ + 1]
        /\ claims' = [claims EXCEPT ![t] = @ + 1]
        /\ held' = [held EXCEPT ![w] = [task |-> t, attempts |-> attempts[t] + 1,
                                        lease |-> NextLease(t, at), claim |-> claims[t] + 1]]
  BY DEF ClaimScheduledTask
<1>2. t \in Tasks /\ attempts[t] \in Nat /\ claims[t] \in Nat
  BY ScannedTask DEF ClaimScheduledTask, IInv, TypeOK
<1> HIDE DEF t
<1>3. \A u \in Tasks : /\ attempts'[u] = (IF u = t THEN attempts[t] + 1 ELSE attempts[u])
                       /\ claims'[u] = (IF u = t THEN claims[t] + 1 ELSE claims[u])
                       /\ u # t => status'[u] = status[u]
  BY <1>1 DEF IInv, TypeOK
<1>4. /\ held'[w].task = t /\ held'[w].attempts = attempts[t] + 1 /\ held'[w].claim = claims[t] + 1
      /\ \A v \in Workers : v # w => held'[v] = held[v]
  BY <1>1 DEF IInv, TypeOK
<1>5. \A v \in Workers : held[v] # NoClaim =>
        /\ held[v].task \in Tasks /\ held[v].attempts \in Nat /\ held[v].claim \in Nat
        /\ attempts[held[v].task] \in Nat /\ claims[held[v].task] \in Nat
  BY HolderType DEF IInv, TypeOK
<1>6. Behind(w)'
  BY <1>2, <1>3, <1>4 DEF Behind
<1>7. ASSUME NEW v \in Workers, v # w PROVE Behind(v)' /\ Apart(v, w)' /\ Apart(w, v)'
  <2>1. Behind(v) /\ held'[v] = held[v]
    BY <1>4, <1>7 DEF IInv, ClaimOrder
  <2>2. Behind(v)'
    BY <1>2, <1>3, <1>5, <2>1 DEF Behind
  <2>3. held[v] # NoClaim /\ held[v].task = t => held[v].claim < claims[t] + 1
    BY <1>2, <1>5, <2>1 DEF Behind
  <2> QED BY <1>2, <1>4, <1>5, <2>1, <2>2, <2>3 DEF Apart
<1>8. \A u, v \in Workers : u # v /\ u # w /\ v # w => Apart(u, v)'
  BY <1>4 DEF IInv, ClaimOrder, Apart
<1> QED BY <1>6, <1>7, <1>8 DEF ClaimOrder

\* A deferral gives an attempt back: the others on the row are strictly behind
\* its owner, so they are still not ahead of it afterwards.
LEMMA OrderDeferred ==
  ASSUME IInv, NEW w \in Workers, DeferScheduledTask(w)
  PROVE  ClaimOrder'
<1> DEFINE t == held[w].task
<1>1. /\ held[w] # NoClaim /\ Current(w)
      /\ status' = [status EXCEPT ![t] = "pending"]
      /\ attempts' = [attempts EXCEPT ![t] = IF @ > 0 THEN @ - 1 ELSE 0]
      /\ held' = [held EXCEPT ![w] = NoClaim]
      /\ claims' = claims
  BY DEF DeferScheduledTask, EndClaim
<1>2. \A v \in Workers : held[v] # NoClaim =>
        /\ held[v].task \in Tasks /\ held[v].attempts \in Nat /\ held[v].claim \in Nat
        /\ attempts[held[v].task] \in Nat /\ claims[held[v].task] \in Nat
  BY HolderType DEF IInv, TypeOK
<1>3. t \in Tasks /\ status[t] = "processing" /\ held[w].claim = claims[t]
  BY <1>1, <1>2, Fencing DEF FencedClaims, Current, MatchesClaim
<1>4. \A u \in Tasks : /\ attempts'[u] = (IF u = t THEN (IF attempts[t] > 0 THEN attempts[t] - 1 ELSE 0)
                                            ELSE attempts[u])
                       /\ status'[u] = (IF u = t THEN "pending" ELSE status[u])
  BY <1>1, <1>3 DEF IInv, TypeOK
<1>5. \A v \in Workers : held'[v] = (IF v = w THEN NoClaim ELSE held[v])
  BY <1>1 DEF IInv, TypeOK
<1> HIDE DEF t
<1>6. ASSUME NEW v \in Workers PROVE Behind(v)'
  <2>1. CASE v = w
    BY <1>5, <2>1 DEF Behind
  <2>2. CASE v # w /\ held[v] # NoClaim /\ held[v].task = t
    <3>1. Behind(v) /\ held[v].claim # claims[t]
      BY <1>1, <1>3, <2>2 DEF IInv, ClaimOrder, Apart, t
    <3>2. held[v].attempts < attempts[t] /\ 1 <= held[v].attempts /\ held[v].claim <= claims[t]
      BY <1>2, <1>3, <2>2, <3>1 DEF Behind
    <3>3. attempts'[t] = attempts[t] - 1 /\ attempts[t] \in Nat
      BY <1>2, <1>3, <1>4, <2>2, <3>2
    <3> QED BY <1>1, <1>2, <1>3, <1>4, <1>5, <2>2, <3>2, <3>3 DEF Behind
  <2>3. CASE v # w /\ (held[v] = NoClaim \/ held[v].task # t)
    <3>1. Behind(v)
      BY DEF IInv, ClaimOrder
    <3> QED BY <1>1, <1>2, <1>4, <1>5, <2>3, <3>1 DEF Behind
  <2> QED BY <2>1, <2>2, <2>3
<1>7. \A u, v \in Workers : u # v => Apart(u, v)'
  BY <1>5 DEF IInv, ClaimOrder, Apart
<1> QED BY <1>6, <1>7 DEF ClaimOrder

\* The order of claims survives every step of the table and its workers.
LEMMA OrderStep == IInv /\ [Next]_vars => IInv'
<1> SUFFICES ASSUME IInv, [Next]_vars PROVE ClaimOrder'
  BY TypeStep DEF IInv
<1> USE DEF IInv
<1>1. CASE Tick \/ UNCHANGED vars
  BY <1>1, OrderKept DEF Tick, vars
<1>2. ASSUME NEW t \in Tasks, Business(t) PROVE ClaimOrder'
  BY <1>2, BusinessStep, OrderKept DEF TableWrite
<1>3. ASSUME NEW w \in Workers, Scheduler(w) \/ Crash(w) PROVE ClaimOrder'
  <2>1. CASE RunDueOnce(w) \/ (\E t \in Tasks : RunTaskOnce(w, t)) \/ SkipScheduledTask(w)
    BY <2>1, OrderKept DEF RunDueOnce, RunTaskOnce, SkipScheduledTask
  <2>2. CASE ClaimScheduledTask(w)
    BY <2>2, OrderClaimed
  <2>3. CASE Settlement(w)
    <3>1. CASE DeferScheduledTask(w)
      BY <3>1, OrderDeferred
    <3>2. CASE CompleteScheduledTask(w) \/ RetryScheduledTask(w) \/ ExhaustScheduledTask(w)
      <4>1. \E st \in {"completed", "pending", "failed"} :
               status' = [status EXCEPT ![held[w].task] = st]
        BY <3>2 DEF CompleteScheduledTask, RetryScheduledTask, ExhaustScheduledTask
      <4>2. \A t \in Tasks : status'[t] = "processing" => status[t] = "processing"
        BY <4>1 DEF TypeOK
      <4> QED BY <3>2, <4>2, OrderReleased DEF CompleteScheduledTask, RetryScheduledTask,
                 ExhaustScheduledTask, EndClaim
    <3>3. CASE IgnoreSettlement(w)
      BY <3>3, OrderReleased DEF IgnoreSettlement, EndClaim, store
    <3> QED BY <2>3, <3>1, <3>2, <3>3 DEF Settlement
  <2>4. CASE Crash(w)
    BY <2>4, OrderReleased DEF Crash
  <2> QED BY <1>3, <2>1, <2>2, <2>3, <2>4 DEF Scheduler
<1> QED BY <1>1, <1>2, <1>3 DEF Next

\* No claim exists at first.
LEMMA OrderInit == Init => IInv
<1> SUFFICES ASSUME Init PROVE ClaimOrder
  BY TypeInit DEF IInv
<1> QED BY DEF Init, ClaimOrder, Behind, Apart

\* complete_, fail_ and defer_scheduled_task accept the latest claim of a row only.
THEOREM Fenced == Spec => []FencedClaims
<1>1. Spec => []IInv
  BY OrderInit, OrderStep, PTL DEF Spec
<1> QED BY <1>1, Fencing, PTL

----------------------------------------------------------------------------
(* The accounting of attempts.                                             *)

\* Every step changes attempts, claims and refunds together.
LEMMA AccountStep == IInv /\ AttemptsAccountForClaims /\ [Next]_vars => AttemptsAccountForClaims'
<1> SUFFICES ASSUME IInv, AttemptsAccountForClaims, [Next]_vars PROVE AttemptsAccountForClaims'
  OBVIOUS
<1> USE DEF IInv, AttemptsAccountForClaims
<1>1. ASSUME UNCHANGED <<attempts, claims, refunds>> PROVE AttemptsAccountForClaims'
  BY <1>1
<1>2. CASE Tick \/ UNCHANGED vars
  BY <1>1, <1>2 DEF Tick, vars
<1>3. ASSUME NEW t \in Tasks, Business(t) PROVE AttemptsAccountForClaims'
  BY <1>1, <1>3, BusinessStep DEF TableWrite
<1>4. ASSUME NEW w \in Workers, Scheduler(w) \/ Crash(w) PROVE AttemptsAccountForClaims'
  <2>1. CASE ClaimScheduledTask(w)
    <3> DEFINE t == Head(queue[w])
    <3>1. /\ attempts' = [attempts EXCEPT ![t] = @ + 1] /\ claims' = [claims EXCEPT ![t] = @ + 1]
          /\ refunds' = refunds
      BY <2>1 DEF ClaimScheduledTask
    <3>2. t \in Tasks
      BY <2>1, ScannedTask DEF ClaimScheduledTask
    <3> HIDE DEF t
    <3> QED BY <3>1, <3>2 DEF TypeOK
  <2>2. CASE DeferScheduledTask(w)
    <3> DEFINE t == held[w].task
    <3>1. /\ attempts' = [attempts EXCEPT ![t] = IF @ > 0 THEN @ - 1 ELSE 0]
          /\ refunds' = [refunds EXCEPT ![t] = @ + 1]
          /\ claims' = claims /\ held[w] # NoClaim
      BY <2>2 DEF DeferScheduledTask, EndClaim
    <3>2. t \in Tasks /\ attempts[t] \in Nat /\ attempts[t] > 0
      <4>1. Behind(w) /\ held[w].attempts \in Nat /\ t \in Tasks
        BY <3>1, HolderType DEF ClaimOrder
      <4> QED BY <3>1, <4>1 DEF Behind, TypeOK
    <3> HIDE DEF t
    <3> QED BY <3>1, <3>2 DEF TypeOK
  <2>3. CASE Scheduler(w) /\ ~ClaimScheduledTask(w) /\ ~DeferScheduledTask(w)
    BY <1>1, <2>3 DEF Scheduler, RunDueOnce, RunTaskOnce, SkipScheduledTask, Settlement, EndClaim,
       CompleteScheduledTask, RetryScheduledTask, ExhaustScheduledTask, IgnoreSettlement, store
  <2>4. CASE Crash(w)
    BY <1>1, <2>4 DEF Crash
  <2> QED BY <1>4, <2>1, <2>2, <2>3, <2>4
<1> QED BY <1>2, <1>3, <1>4 DEF Next

\* No claim is refunded twice, and an attempt is charged only to a claim.
THEOREM AttemptsAccounted == Spec => []AttemptsAccountForClaims
<1>1. Init => AttemptsAccountForClaims
  BY DEF Init, AttemptsAccountForClaims
<1> QED BY <1>1, OrderInit, OrderStep, AccountStep, PTL DEF Spec

----------------------------------------------------------------------------
(* One room, one board lease.                                              *)

\* A step that neither starts processing a row nor extends a lease.
LEMMA BoardLeasesKept ==
  ASSUME TypeOK, OneLiveBoardLease, now' \in Nat, now' >= now,
         \A t \in Tasks : status'[t] = "processing" =>
            status[t] = "processing" /\ leaseUntil'[t] = leaseUntil[t]
  PROVE  OneLiveBoardLease'
<1>1. ASSUME NEW t \in Tasks, status'[t] = "processing", leaseUntil'[t] > now'
      PROVE  status[t] = "processing" /\ leaseUntil[t] > now
  <2>1. status[t] = "processing" /\ leaseUntil'[t] = leaseUntil[t]
    BY <1>1
  <2>2. leaseUntil[t] \in Nat /\ now \in Nat
    BY DEF TypeOK
  <2> QED BY <1>1, <2>1, <2>2
<1> QED BY <1>1 DEF OneLiveBoardLease, Of

\* Every step keeps the boards of a room serialised; only a claim starts one.
LEMMA BoardLeaseStep == TypeOK /\ OneLiveBoardLease /\ [Next]_vars => OneLiveBoardLease'
<1> SUFFICES ASSUME TypeOK, OneLiveBoardLease, [Next]_vars PROVE OneLiveBoardLease'
  OBVIOUS
<1>1. now \in Nat /\ now >= now
  BY DEF TypeOK
<1>2. CASE Tick \/ UNCHANGED vars
  BY <1>1, <1>2, BoardLeasesKept DEF Tick, vars
<1>3. ASSUME NEW t \in Tasks, Business(t) PROVE OneLiveBoardLease'
  BY <1>1, <1>3, BusinessStep, BoardLeasesKept DEF TableWrite
<1>4. ASSUME NEW w \in Workers, Scheduler(w) \/ Crash(w) PROVE OneLiveBoardLease'
  <2>1. CASE ClaimScheduledTask(w)
    <3> DEFINE t == Head(queue[w])
    <3>1. PICK at \in Stamps : /\ CanClaim(t, at)
                              /\ status' = [status EXCEPT ![t] = "processing"]
                              /\ leaseUntil' = [leaseUntil EXCEPT ![t] = NextLease(t, at)]
      BY <2>1 DEF ClaimScheduledTask
    <3>2. t \in Tasks /\ now' = now
      BY <2>1, ScannedTask DEF ClaimScheduledTask
    <3> HIDE DEF t
    <3>3. \A u \in Tasks \ {t} : status'[u] = status[u] /\ leaseUntil'[u] = leaseUntil[u]
      BY <3>1, <3>2 DEF TypeOK
    <3>4. ASSUME NEW u \in Tasks \ {t}, Kind[t] = "publish_group_board",
                 Kind[u] = Kind[t], Aggregate[u] = Aggregate[t], status[u] = "processing"
          PROVE  leaseUntil[u] <= now
      BY <3>1, <3>4 DEF CanClaim, RoomIsPublishing, Of, Stamps, TypeOK
    <3>5. ASSUME NEW u \in Tasks \ {t}, Kind[t] = "publish_group_board",
                 Kind[u] = Kind[t], Aggregate[u] = Aggregate[t], status'[u] = "processing"
          PROVE  ~(leaseUntil'[u] > now')
      <4>1. leaseUntil'[u] = leaseUntil[u] /\ leaseUntil[u] \in Nat /\ now \in Nat
        BY <3>3 DEF TypeOK
      <4>2. leaseUntil[u] <= now
        BY <3>3, <3>4, <3>5
      <4> QED BY <3>2, <4>1, <4>2
    <3>6. ASSUME NEW u \in Tasks, NEW v \in Tasks, u # v, u # t, v # t,
                 Kind[u] = "publish_group_board", v \in Of(Kind[u], Aggregate[u]),
                 status'[u] = "processing", leaseUntil'[u] > now',
                 status'[v] = "processing", leaseUntil'[v] > now'
          PROVE  FALSE
      BY <3>2, <3>3, <3>6 DEF OneLiveBoardLease
    <3> QED BY <3>5, <3>6 DEF OneLiveBoardLease, Of
  <2>2. CASE Settlement(w)
    <3>1. \A t \in Tasks : status'[t] = "processing" =>
             status[t] = "processing" /\ leaseUntil'[t] = leaseUntil[t]
      BY <2>2 DEF Settlement, CompleteScheduledTask, RetryScheduledTask, ExhaustScheduledTask,
         DeferScheduledTask, IgnoreSettlement, store, TypeOK
    <3>2. now' = now
      BY <2>2 DEF Settlement, CompleteScheduledTask, RetryScheduledTask, ExhaustScheduledTask,
         DeferScheduledTask, IgnoreSettlement, EndClaim
    <3> QED BY <1>1, <3>1, <3>2, BoardLeasesKept
  <2>3. CASE RunDueOnce(w) \/ (\E t \in Tasks : RunTaskOnce(w, t)) \/ SkipScheduledTask(w) \/ Crash(w)
    BY <1>1, <2>3, BoardLeasesKept DEF RunDueOnce, RunTaskOnce, SkipScheduledTask, Crash
  <2> QED BY <1>4, <2>1, <2>2, <2>3 DEF Scheduler
<1> QED BY <1>2, <1>3, <1>4 DEF Next

\* claim_scheduled_task serialises the boards of a room, whoever claims them.
THEOREM BoardsSerialised == Spec => []OneLiveBoardLease
<1>1. Init => OneLiveBoardLease
  BY DEF Init, OneLiveBoardLease, Of
<1> QED BY <1>1, TypeInit, TypeStep, BoardLeaseStep, PTL DEF Spec

----------------------------------------------------------------------------
(* Settled rows.                                                           *)

SettledRow(t) == status[t] \in Terminal /\ status'[t] # status[t] => Kind[t] = "activate_game_recruitment"

\* No step but the rescheduling of a recruitment changes a settled row.
LEMMA SettledStep == TypeOK /\ [Next]_vars => \A t \in Tasks : SettledRow(t)
<1> SUFFICES ASSUME TypeOK, [Next]_vars, NEW t \in Tasks PROVE SettledRow(t)
  OBVIOUS
<1> USE DEF SettledRow, Terminal, Live
<1>1. CASE status' = status
  BY <1>1
<1>2. ASSUME NEW u \in Tasks, Business(u) PROVE SettledRow(t)
  <2>1. ASSUME NEW st, NEW due, NEW old \in SUBSET Tasks, NEW unleased,
               NewRow(u, st, due, old, unleased), \A v \in old : status[v] \in Live
        PROVE  SettledRow(t)
    BY <2>1 DEF NewRow, Fresh, TypeOK
  <2>2. ASSUME NEW old \in SUBSET Tasks, NEW unleased,
               RevokeRows(old, unleased), \A v \in old : status[v] \in Live
        PROVE  SettledRow(t)
    BY <2>2 DEF RevokeRows, TypeOK
  <2> DEFINE old == LiveOf(Kind[u], Aggregate[u])
  <2>3. old \in SUBSET Tasks /\ \A v \in old : status[v] \in Live
    BY DEF LiveOf, Of
  <2>4. {} \in SUBSET Tasks /\ {u} \in SUBSET Tasks
    OBVIOUS
  <2> HIDE DEF old
  <2>5. CASE EnsureGroupBoardPublishTask(u)
    BY <1>1, <2>1, <2>4, <2>5 DEF EnsureGroupBoardPublishTask
  <2>6. CASE ScheduleRecruitment(u)
    BY <2>6 DEF ScheduleRecruitment, TypeOK
  <2>7. CASE CancelRecruitment(u)
    BY <2>2, <2>4, <2>7 DEF CancelRecruitment
  <2>8. CASE SaveFollowUpTask(u)
    BY <2>1, <2>3, <2>8 DEF SaveFollowUpTask, old
  <2>9. CASE SaveParticipationDeadline(u)
    BY <2>1, <2>3, <2>9 DEF SaveParticipationDeadline, old
  <2>10. CASE ClearParticipationDeadline(u)
    BY <2>2, <2>3, <2>10 DEF ClearParticipationDeadline, old
  <2>11. CASE InvalidateMessageContext(u)
    BY <2>2, <2>4, <2>11 DEF InvalidateMessageContext
  <2>12. CASE EnsureWaitingDemandExpirationTask(u)
    BY <2>1, <2>4, <2>12 DEF EnsureWaitingDemandExpirationTask
  <2> QED BY <1>2, <2>5, <2>6, <2>7, <2>8, <2>9, <2>10, <2>11, <2>12 DEF Business
<1>3. ASSUME NEW w \in Workers, ClaimScheduledTask(w) PROVE SettledRow(t)
  BY <1>3 DEF ClaimScheduledTask, CanClaim, Recoverable, TypeOK
<1>4. ASSUME NEW w \in Workers, Settlement(w) PROVE SettledRow(t)
  BY <1>4 DEF Settlement, CompleteScheduledTask, RetryScheduledTask, ExhaustScheduledTask,
     DeferScheduledTask, IgnoreSettlement, Current, MatchesClaim, store, TypeOK
<1>5. ASSUME NEW w \in Workers, Scheduler(w) \/ Crash(w), ~ClaimScheduledTask(w), ~Settlement(w)
      PROVE  SettledRow(t)
  BY <1>1, <1>5 DEF Scheduler, RunDueOnce, RunTaskOnce, SkipScheduledTask, Crash
<1>6. CASE Tick \/ UNCHANGED vars
  BY <1>1, <1>6 DEF Tick, vars
<1> QED BY <1>2, <1>3, <1>4, <1>5, <1>6 DEF Next, Scheduler

\* Completed, failed and cancelled rows are final, a game's recruitment excepted.
THEOREM SettledStays == Spec => SettledWorkStaysSettled
<1>1. TypeOK /\ [Next]_vars =>
        [\A t \in Tasks : status[t] \in Terminal /\ status'[t] # status[t]
                             => Kind[t] = "activate_game_recruitment"]_vars
  BY SettledStep DEF SettledRow
<1> QED BY <1>1, TypeInit, TypeStep, PTL DEF Spec, SettledWorkStaysSettled

----------------------------------------------------------------------------
(* One live responsibility.                                                *)

Replaced == {"conversation_follow_up", "participation_deadline"}

\* A step after which no row of a replaced kind is live that was not before.
LEMMA ResponsibilityKept ==
  ASSUME OneLiveResponsibility,
         \A t \in Tasks : Kind[t] \in Replaced /\ status'[t] \in Live => status[t] \in Live
  PROVE  OneLiveResponsibility'
BY DEF OneLiveResponsibility, Replaced, Of

\* A new row that cancels every live one of its kind and aggregate.
LEMMA ResponsibilityReplaced ==
  ASSUME TypeOK, OneLiveResponsibility, NEW t \in Tasks, NEW st, NEW due, NEW unleased,
         NewRow(t, st, due, LiveOf(Kind[t], Aggregate[t]), unleased)
  PROVE  OneLiveResponsibility'
<1> DEFINE old == LiveOf(Kind[t], Aggregate[t])
<1>1. \A u \in Tasks \ {t} : status'[u] = (IF u \in old THEN "cancelled" ELSE status[u])
  BY DEF NewRow
<1> HIDE DEF old
<1>2. \A u \in Tasks \ {t} : status'[u] \in Live => status[u] \in Live /\ u \notin old
  BY <1>1 DEF Live
<1>3. \A u \in Tasks \ {t} : status'[u] \in Live => ~(Kind[u] = Kind[t] /\ Aggregate[u] = Aggregate[t])
  BY <1>2 DEF LiveOf, Of, old
<1>4. ASSUME NEW u \in Tasks, NEW v \in Tasks, Kind[u] \in Replaced, v \in Of(Kind[u], Aggregate[u]),
             status'[u] \in Live, status'[v] \in Live
      PROVE  u = v
  <2>1. Kind[u] = Kind[v] /\ Aggregate[u] = Aggregate[v]
    BY <1>4 DEF Of
  <2>2. CASE u = t \/ v = t
    BY <1>3, <1>4, <2>1, <2>2
  <2>3. CASE u # t /\ v # t
    BY <1>2, <1>4, <2>3 DEF OneLiveResponsibility, Replaced
  <2> QED BY <2>2, <2>3
<1>5. \A u \in Tasks : \A v \in Of(Kind[u], Aggregate[u]) : v \in Tasks
  BY DEF Of
<1> QED BY <1>4, <1>5 DEF OneLiveResponsibility, Replaced, Of

\* Every step keeps one live follow-up per goal and one live deadline per seat.
LEMMA ResponsibilityStep == TypeOK /\ OneLiveResponsibility /\ [Next]_vars => OneLiveResponsibility'
<1> SUFFICES ASSUME TypeOK, OneLiveResponsibility, [Next]_vars PROVE OneLiveResponsibility'
  OBVIOUS
<1>1. CASE status' = status
  BY <1>1, ResponsibilityKept
<1>2. ASSUME NEW t \in Tasks, Business(t) PROVE OneLiveResponsibility'
  <2>1. CASE SaveFollowUpTask(t) \/ SaveParticipationDeadline(t)
    BY <2>1, ResponsibilityReplaced DEF SaveFollowUpTask, SaveParticipationDeadline
  <2>2. CASE EnsureGroupBoardPublishTask(t) \/ EnsureWaitingDemandExpirationTask(t)
    <3>1. Kind[t] \notin Replaced
      BY <2>2 DEF EnsureGroupBoardPublishTask, EnsureWaitingDemandExpirationTask, Replaced
    <3>2. \A u \in Tasks \ {t} : status'[u] = status[u]
      BY <2>2 DEF EnsureGroupBoardPublishTask, EnsureWaitingDemandExpirationTask, NewRow
    <3> QED BY <3>1, <3>2, ResponsibilityKept
  <2>3. CASE ScheduleRecruitment(t)
    BY <2>3, ResponsibilityKept DEF ScheduleRecruitment, Replaced, TypeOK
  <2>4. CASE CancelRecruitment(t) \/ ClearParticipationDeadline(t) \/ InvalidateMessageContext(t)
    <3>1. \E rows, unleased : RevokeRows(rows, unleased)
      BY <2>4 DEF CancelRecruitment, ClearParticipationDeadline, InvalidateMessageContext
    <3>2. \A u \in Tasks : status'[u] \in Live => status[u] \in Live
      BY <3>1 DEF RevokeRows, Live
    <3> QED BY <3>2, ResponsibilityKept
  <2> QED BY <1>2, <2>1, <2>2, <2>3, <2>4 DEF Business
<1>3. ASSUME NEW w \in Workers, ClaimScheduledTask(w) PROVE OneLiveResponsibility'
  <2>1. \A t \in Tasks : status'[t] \in Live => status[t] \in Live
    BY <1>3 DEF ClaimScheduledTask, CanClaim, Recoverable, Live, TypeOK
  <2> QED BY <2>1, ResponsibilityKept
<1>4. ASSUME NEW w \in Workers, Settlement(w) PROVE OneLiveResponsibility'
  <2>1. \A t \in Tasks : status'[t] \in Live => status[t] \in Live
    BY <1>4 DEF Settlement, CompleteScheduledTask, RetryScheduledTask, ExhaustScheduledTask,
       DeferScheduledTask, IgnoreSettlement, Current, MatchesClaim, store, Live, TypeOK
  <2> QED BY <2>1, ResponsibilityKept
<1>5. ASSUME NEW w \in Workers, Scheduler(w) \/ Crash(w), ~ClaimScheduledTask(w), ~Settlement(w)
      PROVE  OneLiveResponsibility'
  BY <1>1, <1>5 DEF Scheduler, RunDueOnce, RunTaskOnce, SkipScheduledTask, Crash
<1>6. CASE Tick \/ UNCHANGED vars
  BY <1>1, <1>6 DEF Tick, vars
<1> QED BY <1>2, <1>3, <1>4, <1>5, <1>6 DEF Next, Scheduler

\* Follow-ups of a goal and deadlines of a seat replace each other.
THEOREM ResponsibilitiesUnique == Spec => []OneLiveResponsibility
<1>1. Init => OneLiveResponsibility
  BY DEF Init, OneLiveResponsibility, Live
<1> QED BY <1>1, TypeInit, TypeStep, ResponsibilityStep, PTL DEF Spec
===============================================================================
