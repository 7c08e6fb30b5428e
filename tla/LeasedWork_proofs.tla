--------------------------- MODULE LeasedWork_proofs ---------------------------
(***************************************************************************)
(* The task table implements LeasedWork for any rows, workers and bounds.  *)
(* Besides the order of claims it takes that the worker with the latest    *)
(* claim of a processing row still has credentials that match it: else its *)
(* settlement would be ignored though nobody took the row over.            *)
(***************************************************************************)
EXTENDS ScheduledTasks_proofs

\* The latest claim of a processing row has the row's credentials.
Matches(w) == held[w] # NoClaim /\ Owns(w, held[w].task) => Current(w)

WInv == IInv /\ \A w \in Workers : Matches(w)

----------------------------------------------------------------------------
(* Owners.                                                                 *)

\* Who holds a row holds a claim of it.
LEMMA OwnerHolds ==
  ASSUME TypeOK, NEW w \in Workers, NEW t \in Tasks, held[w].task = t
  PROVE  held[w] # NoClaim
BY NoneAssumption DEF NoClaim

\* A row has one owner at most, and Owner names it.
LEMMA OwnerIs ==
  ASSUME IInv, NEW t \in Tasks, NEW w \in Workers, Owns(w, t)
  PROVE  Owner(t) = w
<1>1. ASSUME NEW v \in Workers, Owns(v, t) PROVE v = w
  <2>1. held[v] # NoClaim /\ held[w] # NoClaim
    BY <1>1, OwnerHolds DEF IInv, Owns
  <2> QED BY <1>1, <2>1 DEF IInv, ClaimOrder, Apart, Owns
<1> QED BY <1>1 DEF Owner

\* A row without owner is held by nobody.
LEMMA OwnerIsNone ==
  ASSUME NEW t \in Tasks, ~\E w \in Workers : Owns(w, t)
  PROVE  Owner(t) = None
BY DEF Owner

\* Owner names a worker or nobody, and the worker it names owns the row.
LEMMA OwnerType ==
  ASSUME NEW t \in Tasks
  PROVE  /\ Owner(t) \in Workers \cup {None}
         /\ Owner(t) # None => Owns(Owner(t), t)
BY DEF Owner

\* The phases of rows are those of LeasedWork.
LEMMA PhaseIs ==
  /\ Phase("absent") = "absent" /\ Phase("pending") = "open" /\ Phase("processing") = "held"
  /\ \A s \in Terminal : Phase(s) = "closed"
  /\ \A s \in Statuses : Phase(s) \in Work!Phases
<1>1. Phase("absent") = "absent" /\ Phase("pending") = "open" /\ Phase("processing") = "held"
  BY DEF Phase, Terminal
<1>2. Phase("completed") = "closed" /\ Phase("failed") = "closed" /\ Phase("cancelled") = "closed"
  BY DEF Phase, Terminal
<1> QED BY <1>1, <1>2 DEF Statuses, Live, Terminal, Work!Phases

----------------------------------------------------------------------------
(* The invariant.                                                          *)

\* No worker holds anything at first.
LEMMA WorkInit == Init => WInv
BY OrderInit DEF WInv, Init, Matches

\* A step that neither claims nor changes the credentials of a processing row.
LEMMA MatchesKept ==
  ASSUME TypeOK, TypeOK', \A w \in Workers : Matches(w), UNCHANGED claims,
         \A w \in Workers : held'[w] = held[w] \/ held'[w] = NoClaim,
         \A t \in Tasks : status'[t] = "processing" =>
            status[t] = "processing" /\ attempts'[t] = attempts[t] /\ leaseUntil'[t] = leaseUntil[t]
  PROVE  \A w \in Workers : Matches(w)'
<1> SUFFICES ASSUME NEW w \in Workers, held'[w] # NoClaim, Owns(w, held[w].task)'
             PROVE  Current(w)'
  BY DEF Matches
<1>1. held'[w] = held[w] /\ held[w] # NoClaim
  OBVIOUS
<1>2. held[w].task \in Tasks
  BY <1>1, HolderType
<1>3. Current(w)
  BY <1>1, <1>2 DEF Matches, Owns
<1> QED BY <1>1, <1>2, <1>3 DEF Owns, Current, MatchesClaim

\* claim_scheduled_task writes into the row what it hands to the worker.
LEMMA MatchesClaimed ==
  ASSUME WInv, IInv', NEW w \in Workers, ClaimScheduledTask(w)
  PROVE  \A v \in Workers : Matches(v)'
<1> DEFINE t == Head(queue[w])
<1>1. PICK at \in Stamps :
        /\ status' = [status EXCEPT ![t] = "processing"]
        /\ attempts' = [attempts EXCEPT ![t] = @ + 1]
        /\ leaseUntil' = [leaseUntil EXCEPT ![t] = NextLease(t, at)]
        /\ claims' = [claims EXCEPT ![t] = @ + 1]
        /\ held' = [held EXCEPT ![w] = [task |-> t, attempts |-> attempts[t] + 1,
                                        lease |-> NextLease(t, at), claim |-> claims[t] + 1]]
  BY DEF ClaimScheduledTask
<1>2. t \in Tasks
  BY ScannedTask DEF ClaimScheduledTask, WInv, IInv
<1> HIDE DEF t
<1>3. ASSUME NEW v \in Workers, v # w PROVE Matches(v)'
  <2>1. held'[v] = held[v]
    BY <1>1, <1>3 DEF WInv, IInv, TypeOK
  <2>2. CASE held[v] # NoClaim /\ held[v].task = t
    <3>1. held[v].claim <= claims[t] /\ held[v].claim \in Nat /\ claims[t] \in Nat
      BY <2>2, HolderType DEF WInv, IInv, ClaimOrder, Behind, TypeOK
    <3>2. claims'[t] = claims[t] + 1
      BY <1>1, <1>2 DEF WInv, IInv, TypeOK
    <3> QED BY <2>1, <2>2, <3>1, <3>2 DEF Matches, Owns
  <2>3. CASE held[v] # NoClaim /\ held[v].task # t
    <3>1. held[v].task \in Tasks
      BY <2>3, HolderType DEF WInv, IInv
    <3>2. Matches(v)
      BY DEF WInv
    <3>3. /\ status'[held[v].task] = status[held[v].task]
          /\ attempts'[held[v].task] = attempts[held[v].task]
          /\ leaseUntil'[held[v].task] = leaseUntil[held[v].task]
          /\ claims'[held[v].task] = claims[held[v].task]
      BY <1>1, <2>3, <3>1 DEF WInv, IInv, TypeOK
    <3> QED BY <2>1, <2>3, <3>2, <3>3 DEF Matches, Owns, Current, MatchesClaim
  <2>4. CASE held[v] = NoClaim
    BY <2>1, <2>4 DEF Matches
  <2> QED BY <2>2, <2>3, <2>4
<1>4. Matches(w)'
  BY <1>1, <1>2 DEF Matches, Current, MatchesClaim, WInv, IInv, TypeOK
<1> QED BY <1>3, <1>4

\* A settlement ends one claim and takes a row it changes out of processing.
LEMMA SettlementEffect ==
  ASSUME TypeOK, NEW w \in Workers, Settlement(w)
  PROVE  /\ held[w] # NoClaim /\ held[w].task \in Tasks
         /\ held' = [held EXCEPT ![w] = NoClaim]
         /\ UNCHANGED claims
         /\ \/ /\ Current(w)
               /\ \E st \in {"pending", "completed", "failed"} :
                     status' = [status EXCEPT ![held[w].task] = st]
               /\ \A t \in Tasks \ {held[w].task} :
                     attempts'[t] = attempts[t] /\ leaseUntil'[t] = leaseUntil[t]
            \/ ~Current(w) /\ UNCHANGED <<status, attempts, leaseUntil>>
<1>1. held[w] # NoClaim /\ held' = [held EXCEPT ![w] = NoClaim] /\ UNCHANGED claims
  BY DEF Settlement, CompleteScheduledTask, RetryScheduledTask, ExhaustScheduledTask,
     DeferScheduledTask, IgnoreSettlement, EndClaim
<1>2. held[w].task \in Tasks
  BY <1>1, HolderType
<1>3. CASE CompleteScheduledTask(w) \/ RetryScheduledTask(w) \/ ExhaustScheduledTask(w)
  BY <1>1, <1>2, <1>3 DEF CompleteScheduledTask, RetryScheduledTask, ExhaustScheduledTask, TypeOK
<1>4. CASE DeferScheduledTask(w)
  BY <1>1, <1>2, <1>4 DEF DeferScheduledTask, TypeOK
<1>5. CASE IgnoreSettlement(w)
  BY <1>1, <1>2, <1>5 DEF IgnoreSettlement, store
<1> QED BY <1>3, <1>4, <1>5 DEF Settlement

\* Every step keeps the latest claim of a processing row matching it.
LEMMA WorkStep == WInv /\ [Next]_vars => WInv'
<1> SUFFICES ASSUME WInv, [Next]_vars PROVE \A w \in Workers : Matches(w)'
  BY OrderStep DEF WInv
<1>1. IInv' /\ TypeOK /\ TypeOK' /\ \A w \in Workers : Matches(w)
  BY OrderStep DEF WInv, IInv
<1>2. CASE Tick \/ UNCHANGED vars
  BY <1>1, <1>2, MatchesKept DEF Tick, vars
<1>3. ASSUME NEW t \in Tasks, Business(t) PROVE \A w \in Workers : Matches(w)'
  BY <1>1, <1>3, BusinessStep, MatchesKept DEF TableWrite
<1>4. ASSUME NEW w \in Workers, ClaimScheduledTask(w) PROVE \A v \in Workers : Matches(v)'
  BY <1>1, <1>4, MatchesClaimed
<1>5. ASSUME NEW w \in Workers, Settlement(w) PROVE \A v \in Workers : Matches(v)'
  <2>1. \A v \in Workers : held'[v] = held[v] \/ held'[v] = NoClaim
    BY <1>1, <1>5, SettlementEffect DEF TypeOK
  <2>2. \A t \in Tasks : status'[t] = "processing" =>
          status[t] = "processing" /\ attempts'[t] = attempts[t] /\ leaseUntil'[t] = leaseUntil[t]
    BY <1>1, <1>5, SettlementEffect DEF TypeOK
  <2> QED BY <1>1, <1>5, <2>1, <2>2, SettlementEffect, MatchesKept
<1>6. ASSUME NEW w \in Workers, Scheduler(w) \/ Crash(w), ~ClaimScheduledTask(w), ~Settlement(w)
      PROVE  \A v \in Workers : Matches(v)'
  <2>1. /\ UNCHANGED <<status, attempts, leaseUntil, claims>>
        /\ held' = held \/ held' = [held EXCEPT ![w] = NoClaim]
    BY <1>6 DEF Scheduler, RunDueOnce, RunTaskOnce, SkipScheduledTask, Crash
  <2>2. \A v \in Workers : held'[v] = held[v] \/ held'[v] = NoClaim
    BY <1>1, <2>1 DEF TypeOK
  <2> QED BY <1>1, <2>1, <2>2, MatchesKept
<1> QED BY <1>2, <1>3, <1>4, <1>5, <1>6 DEF Next, Scheduler

----------------------------------------------------------------------------
(* The refinement.                                                         *)

\* The empty table is an empty LeasedWork.
LEMMA RefinedInit == Init => Work!Init
<1> SUFFICES ASSUME Init PROVE Work!Init
  OBVIOUS
<1>1. \A t \in Tasks : Phase(status[t]) = "absent"
  BY PhaseIs DEF Init
<1>2. ASSUME NEW t \in Tasks PROVE Owner(t) = None
  <2>1. ~\E w \in Workers : Owns(w, t)
    BY DEF Init, Owns
  <2> QED BY <2>1, OwnerIsNone
<1>3. [w \in Workers |-> held[w].task] = [w \in Workers |-> None]
  BY DEF Init, NoClaim
<1> QED BY <1>1, <1>2, <1>3 DEF Work!Init

\* What a step leaves of the owners of a row whose status, holders and claims it keeps.
LEMMA OwnerKept ==
  ASSUME IInv, IInv', NEW t \in Tasks,
         \A w \in Workers : Owns(w, t)' <=> Owns(w, t)
  PROVE  Owner(t)' = Owner(t)
<1>1. CASE \E w \in Workers : Owns(w, t)
  <2> PICK w \in Workers : Owns(w, t)
    BY <1>1
  <2>1. Owner(t) = w
    BY OwnerIs
  <2>2. Owner(t)' = w
    <3>1. Owns(w, t)'
      OBVIOUS
    <3>2. ASSUME NEW v \in Workers, Owns(v, t)' PROVE v = w
      <4>1. Owns(v, t)
        BY <3>2
      <4> QED BY <2>1, <4>1, OwnerIs
    <3> QED BY <3>1, <3>2 DEF Owner
  <2> QED BY <2>1, <2>2
<1>2. CASE ~\E w \in Workers : Owns(w, t)
  <2>1. Owner(t) = None
    BY <1>2, OwnerIsNone
  <2>2. ~\E w \in Workers : Owns(w, t)'
    BY <1>2
  <2>3. Owner(t)' = None
    BY <2>2 DEF Owner
  <2> QED BY <2>1, <2>3
<1> QED BY <1>1, <1>2

\* A step that changes no status, no claim and nobody's work is a stutter.
LEMMA RefinedStutter ==
  ASSUME UNCHANGED <<status, held, claims>>
  PROVE  UNCHANGED Work!vars
BY DEF Work!vars, Owner, Owns

\* Business code is Administer.
LEMMA RefinedBusiness ==
  ASSUME IInv, IInv', NEW b \in Tasks, Business(b)
  PROVE  Work!Administer
<1>1. TableWrite /\ TypeOK /\ TypeOK'
  BY BusinessStep DEF IInv
<1>2. UNCHANGED <<held, claims>>
  BY <1>1 DEF TableWrite
<1>3. ASSUME NEW t \in Tasks PROVE Phase(status'[t]) \in Work!Phases /\ Owner(t)' \in Workers \cup {None}
  BY <1>1, PhaseIs DEF Owner, TypeOK
<1>4. ASSUME NEW t \in Tasks
      PROVE  \/ Phase(status'[t]) = Phase(status[t]) /\ Owner(t)' = Owner(t)
             \/ Phase(status'[t]) \in {"open", "closed"} /\ Owner(t)' = None
  <2>1. CASE status'[t] = status[t]
    BY <1>2, <2>1 DEF Owner, Owns
  <2>2. CASE status'[t] # status[t]
    <3>1. status'[t] = "pending" \/ status'[t] \in Terminal
      BY <1>1, <2>2 DEF TableWrite, TypeOK, Statuses, Live, Terminal
    <3>2. status'[t] # "processing"
      BY <3>1 DEF Terminal
    <3> QED BY <3>1, <3>2, PhaseIs DEF Owner, Owns
  <2> QED BY <2>1, <2>2
<1> QED BY <1>2, <1>3, <1>4 DEF Work!Administer

\* A claim takes the row, from nobody or from a worker whose lease ran out.
LEMMA RefinedClaim ==
  ASSUME IInv, IInv', NEW w \in Workers, ClaimScheduledTask(w)
  PROVE  \E t \in Tasks : Work!Take(w, t)
<1>1. PICK t \in Tasks, at \in Stamps :
        /\ CanClaim(t, at)
        /\ status' = [status EXCEPT ![t] = "processing"]
        /\ claims' = [claims EXCEPT ![t] = @ + 1]
        /\ held' = [held EXCEPT ![w] = [task |-> t, attempts |-> attempts[t] + 1,
                                        lease |-> NextLease(t, at), claim |-> claims[t] + 1]]
  <2>1. Head(queue[w]) \in Tasks
    BY ScannedTask DEF ClaimScheduledTask, IInv
  <2> QED BY <2>1 DEF ClaimScheduledTask
<1>2. held[w] = NoClaim
  BY DEF ClaimScheduledTask
<1>3. /\ held'[w].task = t /\ held'[w].claim = claims[t] + 1
      /\ \A v \in Workers \ {w} : held'[v] = held[v]
      /\ status'[t] = "processing" /\ claims'[t] = claims[t] + 1
      /\ \A u \in Tasks \ {t} : status'[u] = status[u] /\ claims'[u] = claims[u]
  BY <1>1 DEF IInv, TypeOK
<1>4. held[w].task = None /\ None \notin Tasks
  BY <1>2, NoneAssumption DEF NoClaim
<1>5. Phase(status[t]) \in {"open", "held"} /\ Phase(status'[t]) = "held"
  BY <1>1, <1>3, PhaseIs DEF CanClaim, Recoverable
<1>6. [u \in Tasks |-> Phase(status'[u])] = [[u \in Tasks |-> Phase(status[u])] EXCEPT ![t] = "held"]
  BY <1>3, <1>5
<1>7. ASSUME NEW u \in Tasks, u # t PROVE Owner(u)' = Owner(u)
  <2>1. ~Owns(w, u) /\ ~Owns(w, u)'
    BY <1>3, <1>4, <1>7 DEF Owns
  <2>2. \A v \in Workers \ {w} : Owns(v, u)' <=> Owns(v, u)
    BY <1>3, <1>7 DEF Owns
  <2> QED BY <2>1, <2>2, OwnerKept
<1>8. Owner(t)' = w
  <2>1. Owns(w, t)'
    BY <1>3 DEF Owns
  <2>2. ASSUME NEW v \in Workers, Owns(v, t)', v # w PROVE FALSE
    <3>1. held[v].task = t /\ held[v].claim = claims[t] + 1
      BY <1>3, <2>2 DEF Owns
    <3>2. held[v] # NoClaim
      BY <3>1, OwnerHolds DEF IInv
    <3>3. held[v].claim <= claims[t] /\ claims[t] \in Nat
      BY <3>1, <3>2 DEF IInv, ClaimOrder, Behind, TypeOK
    <3> QED BY <3>1, <3>3
  <2> QED BY <2>1, <2>2 DEF Owner
<1>9. [u \in Tasks |-> Owner(u)'] = [[u \in Tasks |-> Owner(u)] EXCEPT ![t] = w]
  BY <1>7, <1>8
<1>10. [v \in Workers |-> held'[v].task] = [[v \in Workers |-> held[v].task] EXCEPT ![w] = t]
  BY <1>3
<1>11. Work!Take(w, t)
  BY <1>4, <1>5, <1>6, <1>9, <1>10 DEF Work!Take
<1> QED BY <1>11

\* Ending a claim ends the worker's job and no other.
LEMMA JobEnds ==
  ASSUME TypeOK, NEW w \in Workers, held' = [held EXCEPT ![w] = NoClaim]
  PROVE  /\ \A v \in Workers : held'[v] = (IF v = w THEN NoClaim ELSE held[v])
         /\ [v \in Workers |-> held'[v].task] = [[v \in Workers |-> held[v].task] EXCEPT ![w] = None]
BY DEF TypeOK, NoClaim

\* A worker that ends its claim of one row leaves the owners of all other rows.
LEMMA OthersKept ==
  ASSUME IInv, IInv', NEW w \in Workers, NEW t \in Tasks, held[w].task = t,
         held' = [held EXCEPT ![w] = NoClaim], UNCHANGED claims,
         NEW u \in Tasks, u # t, status'[u] = status[u]
  PROVE  Owner(u)' = Owner(u)
<1>1. \A v \in Workers : held'[v] = (IF v = w THEN NoClaim ELSE held[v])
  BY JobEnds DEF IInv
<1>2. ~Owns(w, u) /\ ~Owns(w, u)'
  BY <1>1, NoneAssumption DEF Owns, NoClaim
<1>3. \A v \in Workers \ {w} : Owns(v, u)' <=> Owns(v, u)
  BY <1>1 DEF Owns
<1> QED BY <1>2, <1>3, OwnerKept

\* A settlement counts if it comes from the owner, and changes nothing otherwise.
LEMMA RefinedSettlement ==
  ASSUME WInv, WInv', NEW w \in Workers, Settlement(w)
  PROVE  \E t \in Tasks : Work!Settle(w, t)
<1> USE DEF WInv, IInv
<1>1. PICK t \in Tasks : t = held[w].task
  BY SettlementEffect
<1>2. /\ held[w] # NoClaim /\ UNCHANGED claims
      /\ held' = [held EXCEPT ![w] = NoClaim]
  BY SettlementEffect
<1>3. /\ \A v \in Workers : held'[v] = (IF v = w THEN NoClaim ELSE held[v])
      /\ [v \in Workers |-> held'[v].task] = [[v \in Workers |-> held[v].task] EXCEPT ![w] = None]
  BY <1>2, JobEnds
<1>4. None \notin Tasks /\ None \notin Workers /\ NoClaim.task = None
  BY NoneAssumption DEF NoClaim
<1>5. CASE Current(w)
  <2>1. Owns(w, t)
    BY <1>1, <1>2, <1>5, Fencing DEF FencedClaims, Current, MatchesClaim, Owns
  <2>2. Owner(t) = w
    BY <2>1, OwnerIs
  <2>3. PICK st \in {"pending", "completed", "failed"} : status' = [status EXCEPT ![t] = st]
    BY <1>1, <1>5, SettlementEffect
  <2>4. status'[t] = st /\ \A u \in Tasks \ {t} : status'[u] = status[u]
    BY <2>3 DEF TypeOK
  <2>5. Owner(t)' = None
    BY <2>4 DEF Owner, Owns
  <2>6. Phase(st) \in {"open", "closed"}
    BY PhaseIs DEF Terminal
  <2>7. [u \in Tasks |-> Phase(status'[u])] = [[u \in Tasks |-> Phase(status[u])] EXCEPT ![t] = Phase(st)]
    BY <2>4
  <2>8. \A u \in Tasks \ {t} : Owner(u)' = Owner(u)
    BY <1>1, <1>2, <2>4, OthersKept
  <2>9. [u \in Tasks |-> Owner(u)'] = [[u \in Tasks |-> Owner(u)] EXCEPT ![t] = None]
    BY <2>5, <2>8
  <2>10. Work!Settle(w, t)
    BY <1>1, <1>3, <2>2, <2>6, <2>7, <2>9 DEF Work!Settle
  <2> QED BY <2>10
<1>6. CASE ~Current(w)
  <2>1. UNCHANGED status
    BY <1>6, SettlementEffect
  <2>2. ~Owns(w, t)
    BY <1>1, <1>2, <1>6 DEF Matches
  <2>3. Owner(t) # w
    BY <1>4, <2>2, OwnerType
  <2>4. ~Owns(w, t)'
    BY <1>3, <1>4 DEF Owns
  <2>5. \A v \in Workers \ {w} : Owns(v, t)' <=> Owns(v, t)
    BY <1>2, <1>3, <2>1 DEF Owns
  <2>6. Owner(t)' = Owner(t)
    BY <2>2, <2>4, <2>5, OwnerKept
  <2>7. \A u \in Tasks \ {t} : Owner(u)' = Owner(u)
    BY <1>1, <1>2, <2>1, OthersKept
  <2>8. \A u \in Tasks : Owner(u)' = Owner(u)
    BY <2>6, <2>7
  <2>9. Work!Settle(w, t)
    BY <1>1, <1>3, <2>1, <2>3, <2>8 DEF Work!Settle
  <2> QED BY <2>9
<1> QED BY <1>5, <1>6

\* The death of a worker abandons the row it holds, if it holds one.
LEMMA RefinedCrash ==
  ASSUME IInv, IInv', NEW w \in Workers, Crash(w)
  PROVE  UNCHANGED Work!vars \/ \E t \in Tasks : Work!Abandon(w, t)
<1> USE DEF IInv
<1>1. UNCHANGED <<status, claims>> /\ held' = [held EXCEPT ![w] = NoClaim]
  BY DEF Crash
<1>2. CASE held[w] = NoClaim
  <2>1. held' = held
    BY <1>1, <1>2 DEF TypeOK
  <2> QED BY <1>1, <2>1, RefinedStutter
<1>3. CASE held[w] # NoClaim
  <2>1. PICK t \in Tasks : t = held[w].task
    BY <1>3, HolderType
  <2>2. /\ \A v \in Workers : held'[v] = (IF v = w THEN NoClaim ELSE held[v])
        /\ [v \in Workers |-> held'[v].task] = [[v \in Workers |-> held[v].task] EXCEPT ![w] = None]
    BY <1>1, JobEnds
  <2>3. None \notin Tasks /\ None \notin Workers /\ NoClaim.task = None
    BY NoneAssumption DEF NoClaim
  <2>4. \A u \in Tasks \ {t} : Owner(u)' = Owner(u)
    BY <1>1, <2>1, OthersKept
  <2>5. ~Owns(w, t)'
    BY <2>2, <2>3 DEF Owns
  <2>6. \A v \in Workers \ {w} : Owns(v, t)' <=> Owns(v, t)
    BY <1>1, <2>2 DEF Owns
  <2>7. Owner(t)' = IF Owner(t) = w THEN None ELSE Owner(t)
    <3>1. CASE Owner(t) = w
      <4>1. Owns(w, t)
        BY <2>3, <3>1, OwnerType
      <4>2. ASSUME NEW v \in Workers, Owns(v, t)' PROVE FALSE
        <5>1. v # w
          BY <2>5, <4>2
        <5>2. Owns(v, t)
          BY <2>6, <4>2, <5>1
        <5> QED BY <3>1, <5>1, <5>2, OwnerIs
      <4> QED BY <3>1, <4>2 DEF Owner
    <3>2. CASE Owner(t) # w
      <4>1. ~Owns(w, t)
        BY <3>2, OwnerIs
      <4>2. \A v \in Workers : Owns(v, t)' <=> Owns(v, t)
        BY <2>5, <2>6, <4>1
      <4> QED BY <3>2, <4>2, OwnerKept
    <3> QED BY <3>1, <3>2
  <2>8. [u \in Tasks |-> Owner(u)'] = [[u \in Tasks |-> Owner(u)] EXCEPT ![t] = IF @ = w THEN None ELSE @]
    BY <2>4, <2>7
  <2>9. Work!Abandon(w, t)
    BY <1>1, <2>1, <2>2, <2>8 DEF Work!Abandon
  <2> QED BY <2>9
<1> QED BY <1>2, <1>3

\* Every step of the table is a step of LeasedWork or a stutter.
LEMMA RefinedStep == WInv /\ WInv' /\ [Next]_vars => [Work!Next]_(Work!vars)
<1> SUFFICES ASSUME WInv, WInv', [Next]_vars PROVE Work!Next \/ UNCHANGED Work!vars
  OBVIOUS
<1> USE DEF WInv
<1>1. CASE Tick \/ UNCHANGED vars
  BY <1>1, RefinedStutter DEF Tick, vars
<1>2. ASSUME NEW t \in Tasks, Business(t) PROVE Work!Next
  BY <1>2, RefinedBusiness DEF Work!Next
<1>3. ASSUME NEW w \in Workers, ClaimScheduledTask(w) PROVE Work!Next
  BY <1>3, RefinedClaim DEF Work!Next
<1>4. ASSUME NEW w \in Workers, Settlement(w) PROVE Work!Next
  BY <1>4, RefinedSettlement DEF Work!Next
<1>5. ASSUME NEW w \in Workers, RunDueOnce(w) \/ (\E t \in Tasks : RunTaskOnce(w, t)) \/ SkipScheduledTask(w)
      PROVE  UNCHANGED Work!vars
  BY <1>5, RefinedStutter DEF RunDueOnce, RunTaskOnce, SkipScheduledTask
<1>6. ASSUME NEW w \in Workers, Crash(w) PROVE Work!Next \/ UNCHANGED Work!vars
  BY <1>6, RefinedCrash DEF Work!Next
<1> QED BY <1>1, <1>2, <1>3, <1>4, <1>5, <1>6 DEF Next, Scheduler

\* Leases and credentials implement the promise of exclusive work: whatever runs
\* out, dies, is replaced or arrives late, only the latest claim settles a row.
THEOREM LeasedWorkImplemented == Spec => ImplementsLeasedWork
<1>1. Spec => []WInv
  BY WorkInit, WorkStep, PTL DEF Spec
<1> QED BY <1>1, RefinedInit, RefinedStep, PTL DEF Spec, ImplementsLeasedWork, Work!Spec
===============================================================================
