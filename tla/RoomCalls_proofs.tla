--------------------------- MODULE RoomCalls_proofs ---------------------------
(***************************************************************************)
(* The idempotency ledger and the room reservations for any number of       *)
(* keys, threads, processes, rooms and games.  The ledger's theorems go     *)
(* over LedgerStep, which is all a handler of RoomCalls can do to it.       *)
(***************************************************************************)
EXTENDS RoomCalls, FiniteSetTheorems, SequenceTheorems, TLAPS

\* A handler proves that it had no effect, or it succeeds and had one; the one that
\* reserves a room has no other.
Handles(t) ==
  \E outcome \in {"ok", "failed", "no_effect"}, effect \in BOOLEAN :
    /\ outcome = "ok" => effect
    /\ Reserves(call[t].key) /\ outcome = "failed" => ~effect
    /\ outcome = "no_effect" => ~effect
    /\ Handle(t, outcome, effect)

LedgerStep == LedgerNext \/ (\E t \in Threads : Handles(t)) \/ UNCHANGED ledgerVars

\* Whatever a tool does to the rooms, the ledger takes one of its own steps.
LEMMA StepOfLedger == [Next]_vars => LedgerStep
<1> SUFFICES ASSUME [Next]_vars PROVE LedgerStep
  OBVIOUS
<1>1. CASE LedgerNext
  BY <1>1 DEF LedgerStep
<1>2. ASSUME NEW t \in Threads, ReserveRoom(t) PROVE Handles(t)
  <2>1. Handle(t, "ok", TRUE) \/ Handle(t, "failed", FALSE)
    BY <1>2, Zenon DEF ReserveRoom
  <2> QED BY <2>1, Zenon DEF Handles
<1>3. ASSUME NEW t \in Threads, SetParticipationDeadline(t) PROVE Handles(t)
  <2>1. \/ Handle(t, "ok", TRUE) \/ Handle(t, "no_effect", FALSE)
        \/ \E effect \in BOOLEAN : Handle(t, "failed", effect)
    BY <1>3, Zenon DEF SetParticipationDeadline
  <2>0. ~Reserves(call[t].key)
    BY <1>3, Zenon DEF SetParticipationDeadline
  <2>2. CASE \E effect \in BOOLEAN : Handle(t, "failed", effect)
    BY <2>0, <2>2 DEF Handles
  <2> QED BY <2>0, <2>1, <2>2, Zenon DEF Handles
<1>4. CASE ConfigureRooms \/ (\E g \in Games : CloseGame(g)) \/ UNCHANGED vars
  BY <1>4 DEF ConfigureRooms, CloseGame, vars, LedgerStep
<1> QED BY <1>1, <1>2, <1>3, <1>4 DEF Next, LedgerStep

----------------------------------------------------------------------------
(* Types.                                                                  *)

\* A call under way has a key, and an outcome once its handler returned.
WellFormed ==
  \A t \in Threads :
    /\ call[t].pc = "idle" <=> call[t].key = None
    /\ call[t].pc = "remembering" => call[t].outcome \in Outcomes

LedgerTyped == LedgerTypeOK /\ WellFormed

LEMMA TypeInit == Init => LedgerTyped /\ TypeOK
<1> SUFFICES ASSUME Init PROVE LedgerTyped /\ TypeOK
  OBVIOUS
<1> USE LedgerAssumption, RoomsAssumption
<1>1. NoCall \in Call
  BY DEF NoCall, Call
<1>2. LedgerTypeOK
  BY <1>1 DEF Init, LedgerInit, LedgerTypeOK, Entries, NoCall
<1>3. WellFormed
  BY DEF Init, LedgerInit, WellFormed, NoCall
<1>4. reservations \in Seq(Reservation) /\ inventory \subseteq Rooms /\ closed \subseteq Games
  BY EmptySeq DEF Init
<1> QED BY <1>2, <1>3, <1>4 DEF LedgerTyped, TypeOK

\* Where every call returns to: idle, its key free, its result told.
LEMMA ReturnType ==
  ASSUME LedgerTyped, NEW t \in Threads, call[t].pc # "idle", NEW result, Return(t, result)
  PROVE  /\ call' \in [Threads -> Call] /\ WellFormed'
         /\ keyLock' \in [Processes -> [Keys -> Threads \cup {None}]]
         /\ told' \in [Keys -> SUBSET Outcomes]
         /\ \A p \in Processes, k \in Keys : keyLock'[p][k] # None =>
              Process[keyLock'[p][k]] = p /\ call'[keyLock'[p][k]].key = k
<1> USE LedgerAssumption
<1>1. NoCall \in Call /\ call[t] \in Call /\ call[t].key \in Keys /\ Process[t] \in Processes
  BY DEF LedgerTyped, LedgerTypeOK, WellFormed, NoCall, Call, Processes
<1>2. call' \in [Threads -> Call] /\ WellFormed'
  BY <1>1 DEF Return, LedgerTyped, LedgerTypeOK, WellFormed, NoCall
<1>3. keyLock' \in [Processes -> [Keys -> Threads \cup {None}]]
  BY <1>1 DEF Return, Unlocked, LedgerTyped, LedgerTypeOK
<1>4. told' \in [Keys -> SUBSET Outcomes]
  BY <1>1 DEF Return, LedgerTyped, LedgerTypeOK
<1>5. ASSUME NEW p \in Processes, NEW k \in Keys, keyLock'[p][k] # None
      PROVE  Process[keyLock'[p][k]] = p /\ call'[keyLock'[p][k]].key = k
  <2>1. ~(p = Process[t] /\ k = call[t].key) /\ keyLock'[p][k] = keyLock[p][k]
    BY <1>1, <1>5 DEF Return, Unlocked, LedgerTyped, LedgerTypeOK
  <2>2. keyLock[p][k] \in Threads /\ Process[keyLock[p][k]] = p /\ call[keyLock[p][k]].key = k
    BY <2>1, <1>5 DEF LedgerTyped, LedgerTypeOK
  <2>3. keyLock[p][k] # t
    BY <2>1, <2>2
  <2> QED BY <2>1, <2>2, <2>3 DEF Return, LedgerTyped, LedgerTypeOK
<1> QED BY <1>2, <1>3, <1>4, <1>5

\* A call that goes on keeps its key.
LEMMA ProceedType ==
  ASSUME LedgerTyped, NEW t \in Threads, call[t].pc # "idle", NEW c \in Call,
         c.pc # "idle", c.key = call[t].key, c.pc = "remembering" => c.outcome \in Outcomes,
         call' = [call EXCEPT ![t] = c], UNCHANGED keyLock
  PROVE  /\ call' \in [Threads -> Call] /\ WellFormed'
         /\ \A p \in Processes, k \in Keys : keyLock'[p][k] # None =>
              Process[keyLock'[p][k]] = p /\ call'[keyLock'[p][k]].key = k
<1> USE LedgerAssumption
<1>1. call' \in [Threads -> Call]
  BY DEF LedgerTyped, LedgerTypeOK
<1>2. WellFormed'
  BY DEF LedgerTyped, LedgerTypeOK, WellFormed
<1>3. \A u \in Threads : call'[u].key = call[u].key
  BY DEF LedgerTyped, LedgerTypeOK
<1>4. ASSUME NEW p \in Processes, NEW k \in Keys, keyLock'[p][k] # None
      PROVE  Process[keyLock'[p][k]] = p /\ call'[keyLock'[p][k]].key = k
  <2>1. keyLock[p][k] \in Threads
    BY <1>4 DEF LedgerTyped, LedgerTypeOK
  <2> QED BY <2>1, <1>3, <1>4 DEF LedgerTyped, LedgerTypeOK
<1> QED BY <1>1, <1>2, <1>4

LEMMA TypeStep == LedgerTyped /\ LedgerStep => LedgerTyped'
<1> SUFFICES ASSUME LedgerTyped, LedgerStep PROVE LedgerTyped'
  OBVIOUS
<1> USE LedgerAssumption
<1>0. \A t \in Threads : call[t] \in Call /\ (call[t].pc # "idle" => call[t].key \in Keys)
  BY DEF LedgerTyped, LedgerTypeOK, WellFormed, Call
<1>1. ASSUME NEW t \in Threads, NEW k \in Keys, BeginCall(t, k) PROVE LedgerTyped'
  <2>1. [NoCall EXCEPT !.pc = "checking", !.key = k] \in Call
    BY DEF NoCall, Call
  <2>2. call' \in [Threads -> Call] /\ calls' \in 0..MaxCalls /\ Process[t] \in Processes
    BY <1>1, <2>1 DEF BeginCall, LedgerTyped, LedgerTypeOK, Processes
  <2>3. WellFormed'
    BY <1>1 DEF BeginCall, LedgerTyped, LedgerTypeOK, WellFormed, NoCall
  <2>4. keyLock' \in [Processes -> [Keys -> Threads \cup {None}]]
    BY <1>1, <2>2 DEF BeginCall, LedgerTyped, LedgerTypeOK
  <2>5. ASSUME NEW p \in Processes, NEW l \in Keys, keyLock'[p][l] # None
        PROVE  Process[keyLock'[p][l]] = p /\ call'[keyLock'[p][l]].key = l
    <3>1. CASE p = Process[t] /\ l = k
      <4>1. keyLock'[p][l] = t
        BY <1>1, <3>1 DEF BeginCall, LedgerTyped, LedgerTypeOK
      <4> QED BY <1>1, <3>1, <4>1 DEF BeginCall, LedgerTyped, LedgerTypeOK, NoCall
    <3>2. CASE ~(p = Process[t] /\ l = k)
      <4>1. keyLock'[p][l] = keyLock[p][l] /\ keyLock[p][l] \in Threads
        BY <1>1, <2>5, <3>2 DEF BeginCall, LedgerTyped, LedgerTypeOK
      <4>2. keyLock[p][l] # t
        BY <1>1, <4>1 DEF BeginCall, LedgerTyped, LedgerTypeOK, WellFormed
      <4> QED BY <1>1, <4>1, <4>2 DEF BeginCall, LedgerTyped, LedgerTypeOK
    <3> QED BY <3>1, <3>2
  <2> QED BY <1>1, <2>2, <2>3, <2>4, <2>5 DEF BeginCall, LedgerTyped, LedgerTypeOK
<1>2. ASSUME NEW t \in Threads, Block(t) PROVE LedgerTyped'
  BY <1>2, ReturnType DEF Block, LedgerTyped, LedgerTypeOK
<1>3. ASSUME NEW t \in Threads, IdempotentResult(t) PROVE LedgerTyped'
  <2>1. CASE GoTo(t, "claiming")
    <3>1. [call[t] EXCEPT !.pc = "claiming"] \in Call
      BY <1>0 DEF Call
    <3>2. /\ call' \in [Threads -> Call] /\ WellFormed'
          /\ \A p \in Processes, k \in Keys : keyLock'[p][k] # None =>
               Process[keyLock'[p][k]] = p /\ call'[keyLock'[p][k]].key = k
      BY <1>3, <2>1, <3>1, <1>0, ProceedType DEF IdempotentResult, GoTo, Call
    <3> QED BY <1>3, <2>1, <3>2 DEF IdempotentResult, GoTo, LedgerTyped, LedgerTypeOK
  <2>2. CASE Return(t, entry[call[t].key])
    <3>1. call[t].pc # "idle" /\ UNCHANGED <<entry, effects, lost, calls, lapses, crashes>>
      BY <1>3 DEF IdempotentResult
    <3> QED BY <2>2, <3>1, ReturnType DEF LedgerTyped, LedgerTypeOK
  <2> QED BY <1>3, <2>1, <2>2 DEF IdempotentResult
<1>4. ASSUME NEW t \in Threads, Forbid(t) PROVE LedgerTyped'
  <2>1. entry' \in [Keys -> Entries]
    BY <1>4, <1>0 DEF Forbid, LedgerTyped, LedgerTypeOK, Entries, Outcomes
  <2> QED BY <1>4, <2>1, ReturnType DEF Forbid, LedgerTyped, LedgerTypeOK
<1>5. ASSUME NEW t \in Threads, ClaimIdempotentResult(t) PROVE LedgerTyped'
  <2>1. CASE Claimable(call[t].key)
    <3>1. [call[t] EXCEPT !.pc = "handling"] \in Call
      BY <1>0 DEF Call
    <3>2. GoTo(t, "handling")
      BY <1>5, <2>1 DEF ClaimIdempotentResult
    <3>3. /\ call' \in [Threads -> Call] /\ WellFormed'
          /\ \A p \in Processes, k \in Keys : keyLock'[p][k] # None =>
               Process[keyLock'[p][k]] = p /\ call'[keyLock'[p][k]].key = k
      BY <1>5, <3>1, <3>2, <1>0, ProceedType DEF ClaimIdempotentResult, GoTo, Call
    <3>4. entry' \in [Keys -> Entries]
      BY <1>5, <2>1, <1>0 DEF ClaimIdempotentResult, LedgerTyped, LedgerTypeOK, Entries
    <3>5. lost' \in [Keys -> Nat]
      BY <1>5, <2>1, <1>0 DEF ClaimIdempotentResult, LedgerTyped, LedgerTypeOK
    <3> QED BY <1>5, <3>2, <3>3, <3>4, <3>5 DEF ClaimIdempotentResult, GoTo, LedgerTyped, LedgerTypeOK
  <2>2. CASE ~Claimable(call[t].key)
    BY <1>5, <2>2, ReturnType DEF ClaimIdempotentResult, LedgerTyped, LedgerTypeOK
  <2> QED BY <2>1, <2>2
<1>6. ASSUME NEW t \in Threads, RememberResult(t) PROVE LedgerTyped'
  <2>1. entry' \in [Keys -> Entries]
    BY <1>6, <1>0 DEF RememberResult, LedgerTyped, LedgerTypeOK, WellFormed, Entries
  <2> QED BY <1>6, <2>1, ReturnType DEF RememberResult, LedgerTyped, LedgerTypeOK
<1>7. ASSUME NEW k \in Keys, ClaimLapses(k) PROVE LedgerTyped'
  BY <1>7 DEF ClaimLapses, LedgerTyped, LedgerTypeOK, WellFormed, Entries
<1>8. ASSUME NEW p \in Processes, Crash(p) PROVE LedgerTyped'
  <2>1. NoCall \in Call
    BY DEF NoCall, Call
  <2>2. call' \in [Threads -> Call] /\ WellFormed' /\ crashes' \in 0..MaxCrashes
    BY <1>8, <2>1 DEF Crash, LedgerTyped, LedgerTypeOK, WellFormed, NoCall
  <2>3. keyLock' \in [Processes -> [Keys -> Threads \cup {None}]]
    BY <1>8 DEF Crash, LedgerTyped, LedgerTypeOK
  <2>4. ASSUME NEW q \in Processes, NEW l \in Keys, keyLock'[q][l] # None
        PROVE  Process[keyLock'[q][l]] = q /\ call'[keyLock'[q][l]].key = l
    <3>1. q # p /\ keyLock'[q][l] = keyLock[q][l]
      BY <1>8, <2>4 DEF Crash, LedgerTyped, LedgerTypeOK
    <3>2. keyLock[q][l] \in Threads /\ Process[keyLock[q][l]] = q /\ call[keyLock[q][l]].key = l
      BY <3>1, <2>4 DEF LedgerTyped, LedgerTypeOK
    <3> QED BY <1>8, <3>1, <3>2 DEF Crash
  <2> QED BY <1>8, <2>2, <2>3, <2>4 DEF Crash, LedgerTyped, LedgerTypeOK
<1>9. ASSUME NEW t \in Threads, Handles(t) PROVE LedgerTyped'
  <2>1. PICK outcome \in {"ok", "failed", "no_effect"}, effect \in BOOLEAN : Handle(t, outcome, effect)
    BY <1>9 DEF Handles
  <2>2. [call[t] EXCEPT !.pc = "remembering", !.outcome = outcome] \in Call
    BY <1>0 DEF Call, Outcomes
  <2>3. /\ call' \in [Threads -> Call] /\ WellFormed'
        /\ \A p \in Processes, k \in Keys : keyLock'[p][k] # None =>
             Process[keyLock'[p][k]] = p /\ call'[keyLock'[p][k]].key = k
    <3> DEFINE c == [call[t] EXCEPT !.pc = "remembering", !.outcome = outcome]
    <3>1. c.pc # "idle" /\ c.key = call[t].key /\ c.outcome \in Outcomes
      BY <1>0 DEF Call, Outcomes
    <3>2. call[t].pc # "idle" /\ call' = [call EXCEPT ![t] = c] /\ UNCHANGED keyLock
      BY <2>1 DEF Handle, LedgerTyped, LedgerTypeOK
    <3> HIDE DEF c
    <3> QED BY <2>2, <3>1, <3>2, ProceedType DEF c
  <2>4. effects' \in [Keys -> Nat]
    BY <2>1, <1>0 DEF Handle, LedgerTyped, LedgerTypeOK
  <2> QED BY <2>1, <2>3, <2>4 DEF Handle, LedgerTyped, LedgerTypeOK
<1>10. CASE UNCHANGED ledgerVars
  BY <1>10 DEF ledgerVars, LedgerTyped, LedgerTypeOK, WellFormed
<1> QED BY <1>1, <1>2, <1>3, <1>4, <1>5, <1>6, <1>7, <1>8, <1>9, <1>10 DEF LedgerStep, LedgerNext

----------------------------------------------------------------------------
(* What may happen to a key from now on.                                   *)

\* Calls of a key that may still take effect, or let another call do so.
Pending(k) == {t \in Threads : call[t].key = k /\ (call[t].pc = "handling"
                                 \/ (call[t].pc = "remembering" /\ call[t].outcome = "no_effect"))}

\* Effects and the chances of one are paid for by the first claim and by the
\* claims that were taken over; a failure without effect gives its chance back.
BudgetOf(k) ==
  effects[k] + Cardinality(Pending(k)) + (IF entry[k] = "no_effect" THEN 1 ELSE 0)
    <= lost[k] + (IF entry[k] = "none" THEN 0 ELSE 1)

Budget == \A k \in Keys : BudgetOf(k)

\* Calls between their claim and their result.
Active(k) == {t \in Threads : call[t].key = k /\ call[t].pc \in {"handling", "remembering"}}

\* As long as no claim was taken over, one call at a time is under way, and its
\* claim is in the ledger; a tool that is not allowed is never called.
TurnsOf(k) ==
  /\ lost[k] = 0 => \A t, u \in Active(k) : t = u
  /\ lost[k] = 0 /\ Active(k) # {} => entry[k] \in {"claimed", "lapsed"}
  /\ k \notin Permitted => Active(k) = {} /\ entry[k] \in {"none", "forbidden"}

Turns == \A k \in Keys : TurnsOf(k)

\* What callers were told is what the ledger says now, or may be tried again.
ToldOf(k) ==
  /\ lost[k] = 0 => told[k] \ {"no_effect"} \subseteq {entry[k]}
  /\ "ok" \in told[k] \/ entry[k] = "ok" => effects[k] > 0
  /\ \A t \in Threads : call[t].key = k /\ call[t].pc = "remembering" /\ call[t].outcome = "ok"
                          => effects[k] > 0

Told == \A k \in Keys : ToldOf(k)

LedgerInv == LedgerTyped /\ Budget /\ Turns /\ Told

\* Sets of threads with one thread more, one less, or some less.
LEMMA Counting ==
  ASSUME NEW S \in SUBSET Threads, NEW P \in SUBSET Threads
  PROVE  /\ Cardinality(S) \in Nat /\ Cardinality(P) \in Nat
         /\ P \subseteq S => Cardinality(P) <= Cardinality(S)
         /\ \A t \in Threads : P = S \cup {t} => Cardinality(P) <= Cardinality(S) + 1
         /\ \A t \in S : P = S \ {t} => Cardinality(P) = Cardinality(S) - 1
<1>1. IsFiniteSet(S) /\ Cardinality(S) \in Nat /\ IsFiniteSet(P) /\ Cardinality(P) \in Nat
  BY LedgerAssumption, FS_Subset, FS_CardinalityType
<1>2. P \subseteq S => Cardinality(P) <= Cardinality(S)
  BY <1>1, FS_Subset
<1>3. ASSUME NEW t \in Threads, P = S \cup {t} PROVE Cardinality(P) <= Cardinality(S) + 1
  BY <1>1, <1>3, FS_AddElement
<1>4. ASSUME NEW t \in S, P = S \ {t} PROVE Cardinality(P) = Cardinality(S) - 1
  BY <1>1, <1>4, FS_RemoveElement
<1> QED BY <1>1, <1>2, <1>3, <1>4

\* A step that neither claims, handles nor remembers: calls come, go and die,
\* claims lapse, refusals are written down, callers are told what there is.
Quiet ==
  /\ UNCHANGED <<effects, lost>>
  /\ \A t \in Threads : call'[t].pc \in {"handling", "remembering"} => call'[t] = call[t]
  /\ \A k \in Keys : \/ entry'[k] = entry[k]
                     \/ entry[k] = "claimed" /\ entry'[k] = "lapsed"
                     \/ k \notin Permitted /\ entry'[k] = "forbidden"
  /\ \A k \in Keys : told'[k] \subseteq told[k] \cup (Outcomes \cap {entry'[k]})

LEMMA QuietKeeps == LedgerInv /\ LedgerTyped' /\ Quiet => Budget' /\ Turns' /\ Told'
<1> SUFFICES ASSUME LedgerInv, LedgerTyped', Quiet, NEW k \in Keys
             PROVE  BudgetOf(k)' /\ TurnsOf(k)' /\ ToldOf(k)'
  BY DEF Budget, BudgetOf, Turns, TurnsOf, Told, ToldOf
<1>1. Pending(k)' \subseteq Pending(k) /\ Active(k)' \subseteq Active(k)
  BY DEF Quiet, Pending, Active
<1>2. Cardinality(Pending(k)') <= Cardinality(Pending(k))
      /\ Cardinality(Pending(k)) \in Nat /\ Cardinality(Pending(k)') \in Nat
  <2>1. Pending(k) \in SUBSET Threads /\ Pending(k)' \in SUBSET Threads
    BY DEF Pending
  <2> QED BY <1>1, <2>1, Counting
<1>3. effects[k] \in Nat /\ lost[k] \in Nat
  BY DEF LedgerInv, LedgerTyped, LedgerTypeOK
<1>4. BudgetOf(k)'
  BY <1>2, <1>3 DEF LedgerInv, Budget, BudgetOf, Quiet
<1>5. TurnsOf(k)'
  BY <1>1 DEF LedgerInv, Turns, TurnsOf, Quiet
<1>6. ToldOf(k)'
  <2>1. told[k] \subseteq Outcomes
    BY DEF LedgerInv, LedgerTyped, LedgerTypeOK
  <2>2. told[k] \ {"no_effect"} \subseteq {entry[k]} => told'[k] \ {"no_effect"} \subseteq {entry'[k]}
    BY <2>1 DEF LedgerInv, Turns, TurnsOf, Quiet, Outcomes
  <2>3. "ok" \in told'[k] \/ entry'[k] = "ok" => "ok" \in told[k] \/ entry[k] = "ok"
    BY DEF LedgerInv, Turns, TurnsOf, Quiet
  <2> QED BY <2>2, <2>3 DEF LedgerInv, Told, ToldOf, Quiet
<1> QED BY <1>4, <1>5, <1>6

LEMMA InvInit == Init => LedgerInv
<1> SUFFICES ASSUME Init PROVE LedgerInv
  OBVIOUS
<1>1. LedgerTyped
  BY TypeInit
<1>2. \A k \in Keys : Pending(k) = {} /\ Active(k) = {}
  BY DEF Init, LedgerInit, Pending, Active, NoCall
<1>3. Budget
  <2> SUFFICES ASSUME NEW k \in Keys PROVE BudgetOf(k)
    BY DEF Budget, BudgetOf
  <2>1. effects[k] = 0 /\ lost[k] = 0 /\ entry[k] = "none"
    BY DEF Init, LedgerInit
  <2>2. Cardinality(Pending(k)) = 0
    BY <1>2, FS_EmptySet
  <2> QED BY <2>1, <2>2 DEF BudgetOf
<1>4. Turns /\ Told
  BY <1>2 DEF Init, LedgerInit, Turns, TurnsOf, Told, ToldOf, NoCall
<1> QED BY <1>1, <1>3, <1>4 DEF LedgerInv

LEMMA QuietSteps ==
  ASSUME LedgerInv, LedgerStep
  PROVE  \/ Quiet
         \/ \E t \in Threads : \/ ClaimIdempotentResult(t) /\ Claimable(call[t].key)
                             \/ Handles(t) \/ RememberResult(t)
<1> USE LedgerAssumption
<1>0. LedgerTypeOK /\ WellFormed
  BY DEF LedgerInv, LedgerTyped
<1>1. ASSUME NEW t \in Threads, NEW k \in Keys, BeginCall(t, k) PROVE Quiet
  <2>1. call'[t].pc = "checking" /\ \A u \in Threads \ {t} : call'[u] = call[u]
    BY <1>1, <1>0 DEF BeginCall, LedgerTypeOK, NoCall
  <2> QED BY <1>1, <2>1 DEF BeginCall, Quiet
<1>2. ASSUME NEW t \in Threads, NEW o, Return(t, o), call[t].pc # "idle", UNCHANGED <<effects, lost>>,
             \/ UNCHANGED entry /\ o = None
             \/ UNCHANGED entry /\ o = entry[call[t].key]
             \/ /\ call[t].key \notin Permitted /\ o = "forbidden"
                /\ entry' = [entry EXCEPT ![call[t].key] = "forbidden"]
      PROVE  Quiet
  <2>0. call[t].key \in Keys
    BY <1>0, <1>2 DEF LedgerTypeOK, WellFormed, Call
  <2>1. \A u \in Threads : call'[u].pc \in {"handling", "remembering"} => call'[u] = call[u]
    BY <1>0, <1>2 DEF Return, LedgerTypeOK, NoCall
  <2>2. \A k \in Keys : entry'[k] = entry[k] \/ (k \notin Permitted /\ entry'[k] = "forbidden")
    BY <1>0, <1>2 DEF LedgerTypeOK
  <2>3. Outcomes \cap {o} \subseteq Outcomes \cap {entry'[call[t].key]}
    BY <1>0, <1>2, <2>0 DEF LedgerTypeOK
  <2>4. \A k \in Keys : told'[k] \subseteq told[k] \cup (Outcomes \cap {entry'[k]})
    BY <1>0, <1>2, <2>0, <2>3 DEF Return, LedgerTypeOK
  <2> QED BY <1>2, <2>1, <2>2, <2>4 DEF Quiet
<1>3. ASSUME NEW t \in Threads, Block(t) PROVE Quiet
  BY <1>2, <1>3 DEF Block
<1>4. ASSUME NEW t \in Threads, IdempotentResult(t) PROVE Quiet
  <2>1. call[t].pc # "idle" /\ UNCHANGED <<entry, effects, lost>>
    BY <1>4 DEF IdempotentResult
  <2>2. CASE GoTo(t, "claiming")
    BY <1>0, <2>1, <2>2 DEF GoTo, Quiet, LedgerTypeOK, Call
  <2>3. CASE Return(t, entry[call[t].key])
    BY <1>2, <2>1, <2>3
  <2> QED BY <1>4, <2>2, <2>3 DEF IdempotentResult
<1>5. ASSUME NEW t \in Threads, Forbid(t) PROVE Quiet
  BY <1>2, <1>5 DEF Forbid
<1>6. ASSUME NEW t \in Threads, ClaimIdempotentResult(t), ~Claimable(call[t].key) PROVE Quiet
  <2>1. /\ call[t].pc # "idle" /\ UNCHANGED <<entry, effects, lost>>
        /\ Return(t, entry[call[t].key])
    BY <1>6 DEF ClaimIdempotentResult
  <2> QED BY <1>2, <2>1
<1>7. ASSUME NEW k \in Keys, ClaimLapses(k) PROVE Quiet
  BY <1>0, <1>7 DEF ClaimLapses, Quiet, LedgerTypeOK
<1>8. ASSUME NEW p \in Processes, Crash(p) PROVE Quiet
  BY <1>8 DEF Crash, Quiet, NoCall
<1>9. CASE UNCHANGED ledgerVars
  BY <1>9 DEF ledgerVars, Quiet
<1> QED BY <1>1, <1>3, <1>4, <1>5, <1>6, <1>7, <1>8, <1>9 DEF LedgerStep, LedgerNext

\* The three steps that matter, one invariant at a time.
LEMMA ClaimKeeps ==
  ASSUME LedgerInv, LedgerTyped', NEW t \in Threads, NEW k \in Keys, call[t].key = k,
         ClaimIdempotentResult(t), Claimable(k)
  PROVE  Budget' /\ Turns' /\ Told'
<1>0. LedgerTypeOK /\ WellFormed /\ k \in Permitted
  BY DEF LedgerInv, LedgerTyped, LedgerTypeOK, WellFormed, ClaimIdempotentResult, Call
<1>1. /\ call[t].pc = "claiming"
      /\ entry' = [entry EXCEPT ![k] = "claimed"]
      /\ lost' = [lost EXCEPT ![k] = IF entry[k] = "lapsed" THEN @ + 1 ELSE @]
      /\ call' = [call EXCEPT ![t].pc = "handling"] /\ UNCHANGED <<told, effects>>
      /\ entry[k] \in {"none", "lapsed", "no_effect"}
  BY DEF ClaimIdempotentResult, GoTo, Claimable
<1>2. /\ call'[t].pc = "handling" /\ call'[t].key = k
      /\ \A u \in Threads \ {t} : call'[u] = call[u]
  BY <1>0, <1>1 DEF LedgerTypeOK, Call
<1>3. \A l \in Keys \ {k} : /\ Pending(l)' = Pending(l) /\ Active(l)' = Active(l)
                            /\ entry'[l] = entry[l] /\ lost'[l] = lost[l]
  BY <1>0, <1>1, <1>2 DEF Pending, Active, LedgerTypeOK
<1>4. Pending(k)' = Pending(k) \cup {t} /\ Active(k)' = Active(k) \cup {t} /\ t \notin Active(k)
  BY <1>0, <1>1, <1>2 DEF Pending, Active
<1>5. entry'[k] = "claimed" /\ lost'[k] = (IF entry[k] = "lapsed" THEN lost[k] + 1 ELSE lost[k])
  BY <1>0, <1>1 DEF LedgerTypeOK
<1>6. Budget'
  <2>1. /\ Cardinality(Pending(k)') <= Cardinality(Pending(k)) + 1
        /\ Cardinality(Pending(k)) \in Nat /\ Cardinality(Pending(k)') \in Nat
    <3>1. Pending(k) \in SUBSET Threads /\ Pending(k)' \in SUBSET Threads
      BY DEF Pending
    <3> QED BY <1>4, <3>1, Counting
  <2>2. effects[k] \in Nat /\ lost[k] \in Nat
    BY <1>0 DEF LedgerTypeOK
  <2>3. BudgetOf(k)'
    <3>1. BudgetOf(k)
      BY <1>0 DEF LedgerInv, Budget, BudgetOf
    <3> QED BY <1>1, <1>5, <2>1, <2>2, <3>1 DEF BudgetOf
  <2>4. ASSUME NEW l \in Keys, l # k PROVE BudgetOf(l)'
    BY <1>1, <1>3, <2>4 DEF LedgerInv, Budget, BudgetOf
  <2> QED BY <2>3, <2>4 DEF Budget
<1>7. Turns'
  <2>1. lost'[k] = 0 => Active(k) = {}
    BY <1>0, <1>1, <1>5 DEF LedgerInv, Turns, TurnsOf, LedgerTypeOK
  <2>2. \A l \in Keys \ {k} : TurnsOf(l)'
    BY <1>3 DEF LedgerInv, Turns, TurnsOf
  <2>3. TurnsOf(k)'
    BY <1>0, <1>4, <1>5, <2>1 DEF TurnsOf
  <2> QED BY <2>2, <2>3 DEF Turns
<1>8. Told'
  <2>1. lost'[k] = 0 => told[k] \ {"no_effect"} = {}
    <3>1. told[k] \subseteq Outcomes
      BY <1>0 DEF LedgerTypeOK
    <3>2. lost'[k] = 0 => lost[k] = 0
      BY <1>0, <1>5 DEF LedgerTypeOK
    <3>3. lost'[k] = 0 => told[k] \ {"no_effect"} \subseteq {"none", "lapsed", "no_effect"}
      BY <1>0, <1>1, <3>2 DEF LedgerInv, Told, ToldOf
    <3> QED BY <3>1, <3>3 DEF Outcomes
  <2>2. ToldOf(k)'
    BY <1>0, <1>1, <1>2, <1>5, <2>1 DEF LedgerInv, Told, ToldOf
  <2>3. \A l \in Keys \ {k} : ToldOf(l)'
    BY <1>1, <1>2, <1>3 DEF LedgerInv, Told, ToldOf
  <2> QED BY <2>2, <2>3 DEF Told
<1> QED BY <1>6, <1>7, <1>8


LEMMA HandleKeeps ==
  ASSUME LedgerInv, LedgerTyped', NEW t \in Threads, NEW k \in Keys, call[t].key = k, Handles(t)
  PROVE  Budget' /\ Turns' /\ Told'
<1>0. LedgerTypeOK /\ WellFormed
  BY DEF LedgerInv, LedgerTyped
<1>1. PICK outcome \in {"ok", "failed", "no_effect"}, effect \in BOOLEAN :
        /\ outcome = "ok" => effect
        /\ outcome = "no_effect" => ~effect
        /\ Handle(t, outcome, effect)
  BY DEF Handles
<1>2. /\ call[t].pc = "handling" /\ call'[t].pc = "remembering"
      /\ call'[t].key = k /\ call'[t].outcome = outcome
      /\ \A u \in Threads \ {t} : call'[u] = call[u]
      /\ UNCHANGED <<entry, lost, told>>
      /\ effects' = [effects EXCEPT ![k] = IF effect THEN @ + 1 ELSE @]
  BY <1>0, <1>1 DEF Handle, LedgerTypeOK, Call
<1>3. \A l \in Keys : Active(l)' = Active(l)
  BY <1>2 DEF Active
<1>4. \A l \in Keys \ {k} : Pending(l)' = Pending(l) /\ effects'[l] = effects[l]
  BY <1>0, <1>2 DEF Pending, LedgerTypeOK
<1>5. /\ effects[k] \in Nat /\ effects'[k] = effects[k] + (IF effect THEN 1 ELSE 0)
      /\ lost[k] \in Nat
  BY <1>0, <1>2 DEF LedgerTypeOK
<1>6. Budget'
  <2>1. t \in Pending(k) /\ Pending(k) \in SUBSET Threads /\ Pending(k)' \in SUBSET Threads
    BY <1>2 DEF Pending
  <2>2. Pending(k)' = IF outcome = "no_effect" THEN Pending(k) ELSE Pending(k) \ {t}
    BY <1>2 DEF Pending
  <2>3. /\ Cardinality(Pending(k)) \in Nat /\ Cardinality(Pending(k)') \in Nat
        /\ Cardinality(Pending(k)') + (IF effect THEN 1 ELSE 0) <= Cardinality(Pending(k))
    <3>1. CASE outcome = "no_effect"
      BY <1>1, <2>1, <2>2, <3>1, Counting
    <3>2. CASE outcome # "no_effect"
      <4>1. Cardinality(Pending(k)') = Cardinality(Pending(k)) - 1
        BY <2>1, <2>2, <3>2, Counting
      <4> QED BY <2>1, <4>1, Counting
    <3> QED BY <3>1, <3>2
  <2>4. BudgetOf(k)'
    <3>1. BudgetOf(k)
      BY DEF LedgerInv, Budget
    <3> QED BY <1>2, <1>5, <2>3, <3>1 DEF BudgetOf
  <2>5. ASSUME NEW l \in Keys, l # k PROVE BudgetOf(l)'
    BY <1>2, <1>4, <2>5 DEF LedgerInv, Budget, BudgetOf
  <2> QED BY <2>4, <2>5 DEF Budget
<1>7. Turns'
  BY <1>2, <1>3 DEF LedgerInv, Turns, TurnsOf
<1>8. Told'
  <2>1. ToldOf(k)'
    BY <1>1, <1>2, <1>5 DEF LedgerInv, Told, ToldOf
  <2>2. \A l \in Keys \ {k} : ToldOf(l)'
    BY <1>2, <1>4 DEF LedgerInv, Told, ToldOf
  <2> QED BY <2>1, <2>2 DEF Told
<1> QED BY <1>6, <1>7, <1>8

LEMMA RememberKeeps ==
  ASSUME LedgerInv, LedgerTyped', NEW t \in Threads, NEW k \in Keys, call[t].key = k,
         RememberResult(t)
  PROVE  Budget' /\ Turns' /\ Told'
<1>0. LedgerTypeOK /\ WellFormed
  BY DEF LedgerInv, LedgerTyped
<1> DEFINE o == call[t].outcome
<1>1. /\ call[t].pc = "remembering" /\ o \in Outcomes
      /\ call' = [call EXCEPT ![t] = NoCall]
      /\ entry' = [entry EXCEPT ![k] = o]
      /\ told' = [told EXCEPT ![k] = @ \cup (Outcomes \cap {o})]
      /\ UNCHANGED <<effects, lost>>
  BY <1>0 DEF RememberResult, Return, WellFormed
<1>2. /\ call'[t].pc = "idle" /\ entry'[k] = o /\ told'[k] = told[k] \cup {o}
      /\ \A u \in Threads \ {t} : call'[u] = call[u]
  BY <1>0, <1>1 DEF LedgerTypeOK, NoCall
<1>3. \A l \in Keys \ {k} : /\ Pending(l)' = Pending(l) /\ Active(l)' = Active(l)
                            /\ entry'[l] = entry[l] /\ told'[l] = told[l]
  BY <1>0, <1>1, <1>2 DEF Pending, Active, LedgerTypeOK
<1>4. t \in Active(k) /\ Active(k)' = Active(k) \ {t}
  BY <1>1, <1>2 DEF Active
<1>5. k \in Permitted /\ (lost[k] = 0 => entry[k] \in {"claimed", "lapsed"} /\ Active(k) = {t})
  BY <1>4 DEF LedgerInv, Turns, TurnsOf
<1>6. Budget'
  <2>1. Pending(k) \in SUBSET Threads /\ Pending(k)' \in SUBSET Threads
    BY DEF Pending
  <2>2. Pending(k)' = IF o = "no_effect" THEN Pending(k) \ {t} ELSE Pending(k)
    BY <1>1, <1>2 DEF Pending
  <2>3. /\ Cardinality(Pending(k)) \in Nat /\ Cardinality(Pending(k)') \in Nat
        /\ Cardinality(Pending(k)') + (IF o = "no_effect" THEN 1 ELSE 0) <= Cardinality(Pending(k))
    <3>1. CASE o = "no_effect"
      <4>1. t \in Pending(k)
        BY <1>1, <3>1 DEF Pending
      <4>2. Cardinality(Pending(k)') = Cardinality(Pending(k)) - 1
        BY <2>1, <2>2, <3>1, <4>1, Counting
      <4> QED BY <2>1, <3>1, <4>2, Counting
    <3>2. CASE o # "no_effect"
      BY <2>1, <2>2, <3>2, Counting
    <3> QED BY <3>1, <3>2
  <2>4. BudgetOf(k)'
    <3>1. BudgetOf(k) /\ effects[k] \in Nat /\ lost[k] \in Nat /\ o # "none"
      BY <1>0, <1>1 DEF LedgerInv, Budget, LedgerTypeOK, Outcomes
    <3> HIDE DEF o
    <3> QED BY <1>1, <1>2, <2>3, <3>1 DEF BudgetOf
  <2>5. ASSUME NEW l \in Keys, l # k PROVE BudgetOf(l)'
    BY <1>1, <1>3, <2>5 DEF LedgerInv, Budget, BudgetOf
  <2> QED BY <2>4, <2>5 DEF Budget
<1>7. Turns'
  <2>1. TurnsOf(k)'
    BY <1>1, <1>4, <1>5 DEF LedgerInv, Turns, TurnsOf
  <2>2. \A l \in Keys \ {k} : TurnsOf(l)'
    BY <1>1, <1>3 DEF LedgerInv, Turns, TurnsOf
  <2> QED BY <2>1, <2>2 DEF Turns
<1>8. Told'
  <2>1. lost[k] = 0 => told[k] \ {"no_effect"} = {}
    <3>1. told[k] \subseteq Outcomes
      BY <1>0 DEF LedgerTypeOK
    <3> QED BY <1>5, <3>1 DEF LedgerInv, Told, ToldOf, Outcomes
  <2>2. o = "ok" => effects[k] > 0
    BY <1>1 DEF LedgerInv, Told, ToldOf
  <2>3. ToldOf(k)'
    BY <1>1, <1>2, <2>1, <2>2 DEF LedgerInv, Told, ToldOf
  <2>4. \A l \in Keys \ {k} : ToldOf(l)'
    BY <1>1, <1>2, <1>3 DEF LedgerInv, Told, ToldOf
  <2> QED BY <2>3, <2>4 DEF Told
<1> QED BY <1>6, <1>7, <1>8

LEMMA InvStep == LedgerInv /\ LedgerStep => LedgerInv'
<1> SUFFICES ASSUME LedgerInv, LedgerStep PROVE LedgerInv'
  OBVIOUS
<1>1. LedgerTyped'
  BY TypeStep DEF LedgerInv
<1>2. ASSUME NEW t \in Threads, call[t].pc # "idle",
             \/ ClaimIdempotentResult(t) /\ Claimable(call[t].key)
             \/ Handles(t) \/ RememberResult(t)
      PROVE  Budget' /\ Turns' /\ Told'
  <2>1. PICK k \in Keys : call[t].key = k
    BY <1>2 DEF LedgerInv, LedgerTyped, LedgerTypeOK, WellFormed, Call
  <2> QED BY <1>1, <1>2, <2>1, ClaimKeeps, HandleKeeps, RememberKeeps
<1>3. \A t \in Threads : ClaimIdempotentResult(t) \/ Handles(t) \/ RememberResult(t) => call[t].pc # "idle"
  BY DEF ClaimIdempotentResult, Handles, Handle, RememberResult
<1> QED BY <1>1, <1>2, <1>3, QuietSteps, QuietKeeps DEF LedgerInv


----------------------------------------------------------------------------
(* The ledger's theorems.                                                  *)

LEMMA LedgerInvariant == Spec => []LedgerInv
<1>1. LedgerInv /\ [Next]_vars => LedgerInv'
  BY InvStep, StepOfLedger
<1> QED BY <1>1, InvInit, PTL DEF Spec

\* Repeated by any number of threads of any number of processes, a call's tool
\* takes effect once, and once more for each claim that was taken over.
THEOREM EffectsCorrect == Spec => []EffectsPerLostClaim
<1>1. LedgerInv => EffectsPerLostClaim
  <2> SUFFICES ASSUME LedgerInv, NEW k \in Keys PROVE effects[k] <= 1 + lost[k]
    BY DEF EffectsPerLostClaim
  <2>1. Pending(k) \in SUBSET Threads
    BY DEF Pending
  <2>2. Cardinality(Pending(k)) \in Nat /\ effects[k] \in Nat /\ lost[k] \in Nat
    BY <2>1, Counting DEF LedgerInv, LedgerTyped, LedgerTypeOK
  <2> QED BY <2>2 DEF LedgerInv, Budget, BudgetOf
<1> QED BY <1>1, LedgerInvariant, PTL

\* Callers of a key whose claim was never taken over are told one final result,
\* and a success only of what took effect.
THEOREM AnswersCorrect == Spec => []AnswersAgree
<1>1. LedgerInv => AnswersAgree
  <2> SUFFICES ASSUME LedgerInv, NEW k \in Keys
               PROVE  /\ lost[k] = 0 => Cardinality(told[k] \ {"no_effect"}) <= 1
                      /\ "ok" \in told[k] => effects[k] > 0
    BY DEF AnswersAgree
  <2>1. ASSUME lost[k] = 0 PROVE Cardinality(told[k] \ {"no_effect"}) <= 1
    <3>1. told[k] \ {"no_effect"} \subseteq {entry[k]}
      BY <2>1 DEF LedgerInv, Told, ToldOf
    <3>2. IsFiniteSet({entry[k]}) /\ Cardinality({entry[k]}) = 1
      BY FS_Singleton
    <3> QED BY <3>1, <3>2, FS_Subset
  <2> QED BY <2>1 DEF LedgerInv, Told, ToldOf
<1> QED BY <1>1, LedgerInvariant, PTL

\* No late caller, no crash and no second process overwrites a remembered result
\* of a key whose claim was never taken over.
THEOREM ResultStays == Spec => RememberedResultStays
<1> DEFINE Stays == \A k \in Keys : entry[k] \in Outcomes /\ lost[k] = 0 =>
                      entry'[k] = entry[k] \/ (entry[k] = "no_effect" /\ k \in Retryable)
<1>1. ASSUME LedgerInv, LedgerStep PROVE Stays
  <2>0. LedgerTypeOK
    BY <1>1 DEF LedgerInv, LedgerTyped
  <2>1. ASSUME Quiet PROVE Stays
    BY <1>1, <2>1 DEF Quiet, Outcomes, LedgerInv, Turns, TurnsOf
  <2>2. ASSUME NEW t \in Threads, ClaimIdempotentResult(t), Claimable(call[t].key) PROVE Stays
    BY <2>0, <2>2 DEF ClaimIdempotentResult, Claimable, LedgerTypeOK, Outcomes
  <2>3. ASSUME NEW t \in Threads, Handles(t) PROVE Stays
    BY <2>3 DEF Handles, Handle
  <2>4. ASSUME NEW t \in Threads, RememberResult(t) PROVE Stays
    <3>1. ASSUME NEW k \in Keys, call[t].key = k, lost[k] = 0 PROVE entry[k] \in {"claimed", "lapsed"}
      <4>1. t \in Active(k)
        BY <2>4, <3>1 DEF Active, RememberResult
      <4> QED BY <1>1, <3>1, <4>1 DEF LedgerInv, Turns, TurnsOf
    <3> QED BY <2>0, <2>4, <3>1 DEF RememberResult, LedgerTypeOK, Outcomes
  <2> QED BY <1>1, <2>1, <2>2, <2>3, <2>4, QuietSteps
<1>2. LedgerInv /\ [Next]_vars => [Stays]_ledgerVars
  BY <1>1, StepOfLedger
<1> QED BY <1>2, LedgerInvariant, PTL DEF Spec, RememberedResultStays

----------------------------------------------------------------------------
(* The rooms.                                                              *)

RoomTypeOK == /\ inventory \subseteq Rooms /\ closed \subseteq Games
              /\ reservations \in Seq(Reservation)

\* As many reservations of a key as its call took effect.
Accounts == \A k \in Keys : Reserves(k) => Cardinality(Rows(k)) = effects[k]

\* Only closing its game releases a reservation.
KeptOf(i) == Held(i) \/ Request[reservations[i].key].game \in closed
Kept == \A i \in DOMAIN reservations : KeptOf(i)

RoomInv == LedgerTyped /\ RoomTypeOK /\ NoRoomBookedTwice /\ Accounts /\ Kept

\* How the reservations and the effects change together.
Books(k) ==
  /\ Reserves(k) /\ effects' = [effects EXCEPT ![k] = @ + 1] /\ UNCHANGED closed
  /\ \E r \in Available(k) : reservations' = Append(reservations, [key |-> k, room |-> r, status |-> "held"])

Releases ==
  /\ UNCHANGED effects /\ closed \subseteq closed'
  /\ reservations' \in Seq(Reservation) /\ Len(reservations') = Len(reservations)
  /\ \A i \in DOMAIN reservations :
       /\ reservations'[i].key = reservations[i].key /\ reservations'[i].room = reservations[i].room
       /\ reservations'[i].status = "held" => Held(i)
       /\ Held(i) => reservations'[i].status = "held" \/ Request[reservations[i].key].game \in closed'

LeavesRooms ==
  /\ UNCHANGED <<reservations, closed>>
  /\ \A k \in Keys : Reserves(k) => effects'[k] = effects[k]

LEMMA RoomStep ==
  ASSUME LedgerTyped, RoomTypeOK, [Next]_vars
  PROVE  /\ inventory' \subseteq Rooms /\ closed' \subseteq Games
         /\ (\E k \in Keys : Books(k)) \/ Releases \/ LeavesRooms
<1> USE LedgerAssumption, RoomsAssumption
<1>0. LedgerTypeOK /\ WellFormed
  BY DEF LedgerTyped
<1>1. CASE LedgerNext /\ UNCHANGED roomVars
  <2>1. UNCHANGED effects
    BY <1>1 DEF LedgerNext, BeginCall, Block, IdempotentResult, Forbid, ClaimIdempotentResult,
                RememberResult, ClaimLapses, Crash
  <2> QED BY <1>1, <2>1 DEF roomVars, LeavesRooms, RoomTypeOK
<1>2. ASSUME NEW t \in Threads, ReserveRoom(t)
      PROVE  /\ UNCHANGED <<inventory, closed>>
             /\ (\E k \in Keys : Books(k)) \/ LeavesRooms
  <2>1. PICK k \in Keys : call[t].key = k
    BY <1>0, <1>2 DEF ReserveRoom, LedgerTypeOK, WellFormed, Call
  <2>2. /\ Reserves(k) /\ UNCHANGED <<inventory, closed>>
        /\ \/ \E r \in Chosen(k) :
                /\ reservations' = Append(reservations, [key |-> k, room |-> r, status |-> "held"])
                /\ Handle(t, "ok", TRUE)
           \/ Handle(t, "failed", FALSE) /\ UNCHANGED reservations
    BY <1>2, <2>1 DEF ReserveRoom
  <2>3. Handle(t, "ok", TRUE) => effects' = [effects EXCEPT ![k] = @ + 1]
    BY <2>1 DEF Handle
  <2>4. Handle(t, "failed", FALSE) => UNCHANGED effects
    BY <1>0, <2>1 DEF Handle, LedgerTypeOK
  <2>5. Chosen(k) \subseteq Available(k)
    BY DEF Chosen
  <2> QED BY <2>2, <2>3, <2>4, <2>5 DEF Books, LeavesRooms
<1>3. ASSUME NEW t \in Threads, SetParticipationDeadline(t)
      PROVE  UNCHANGED <<inventory, closed>> /\ LeavesRooms
  <2>1. \A k \in Keys : Reserves(k) => effects'[k] = effects[k]
    BY <1>0, <1>3 DEF SetParticipationDeadline, Handle, LedgerTypeOK
  <2> QED BY <1>3, <2>1 DEF SetParticipationDeadline, roomVars, LeavesRooms
<1>4. CASE ConfigureRooms
  BY <1>4 DEF ConfigureRooms, ledgerVars, LeavesRooms, RoomTypeOK
<1>5. ASSUME NEW g \in Games, CloseGame(g)
      PROVE  inventory' \subseteq Rooms /\ closed' \subseteq Games /\ Releases
  <2>1. reservations \in [1..Len(reservations) -> Reservation] /\ Len(reservations) \in Nat
        /\ DOMAIN reservations = 1..Len(reservations)
    BY LenProperties, ElementOfSeq DEF RoomTypeOK
  <2>2. \A i \in DOMAIN reservations : [reservations[i] EXCEPT !.status = "released"] \in Reservation
    BY <2>1 DEF Reservation
  <2>3. reservations' \in [1..Len(reservations) -> Reservation]
    BY <1>5, <2>1, <2>2 DEF CloseGame
  <2>4. reservations' \in Seq(Reservation) /\ Len(reservations') = Len(reservations)
    <3>1. reservations' \in Seq(Reservation)
      BY <2>1, <2>3, SeqDef
    <3>2. Len(reservations') \in Nat /\ 1..Len(reservations') = 1..Len(reservations)
      BY <2>3, <3>1, LenProperties
    <3> QED BY <2>1, <3>1, <3>2
  <2>5. \A i \in DOMAIN reservations :
          /\ reservations'[i].key = reservations[i].key /\ reservations'[i].room = reservations[i].room
          /\ reservations'[i].status = "held" => Held(i)
          /\ Held(i) => reservations'[i].status = "held" \/ Request[reservations[i].key].game \in closed'
    BY <1>5, <2>1 DEF CloseGame, Held, Reservation
  <2> QED BY <1>5, <2>4, <2>5 DEF CloseGame, Releases, ledgerVars, RoomTypeOK
<1>6. CASE UNCHANGED vars
  BY <1>6 DEF vars, ledgerVars, roomVars, LeavesRooms, RoomTypeOK
<1> QED BY <1>1, <1>2, <1>3, <1>4, <1>5, <1>6 DEF Next, RoomTypeOK


LEMMA RoomsStep == RoomInv /\ [Next]_vars => RoomInv'
<1> SUFFICES ASSUME RoomInv, [Next]_vars PROVE RoomInv'
  OBVIOUS
<1> USE LedgerAssumption, RoomsAssumption
<1>0. LedgerTyped /\ RoomTypeOK /\ NoRoomBookedTwice /\ Accounts /\ Kept
  BY DEF RoomInv
<1>1. LedgerTyped'
  BY <1>0, StepOfLedger, TypeStep
<1>2. /\ inventory' \subseteq Rooms /\ closed' \subseteq Games
      /\ (\E k \in Keys : Books(k)) \/ Releases \/ LeavesRooms
  BY <1>0, RoomStep
<1>3. DOMAIN reservations = 1..Len(reservations) /\ Len(reservations) \in Nat
  BY <1>0, LenProperties DEF RoomTypeOK
<1>4. \A i \in DOMAIN reservations : reservations[i] \in Reservation
  BY <1>0, <1>3, ElementOfSeq DEF RoomTypeOK
<1>5. ASSUME NEW k \in Keys, Books(k) PROVE RoomInv'
  <2>1. PICK r \in Available(k) :
          reservations' = Append(reservations, [key |-> k, room |-> r, status |-> "held"])
    BY <1>5 DEF Books
  <2> DEFINE new == [key |-> k, room |-> r, status |-> "held"]
             n == Len(reservations) + 1
  <2>2. new \in Reservation
    BY <1>0 DEF Reservation, Available, RoomTypeOK
  <2>3. /\ reservations' \in Seq(Reservation) /\ Len(reservations') = n
        /\ \A i \in 1..Len(reservations) : reservations'[i] = reservations[i]
        /\ reservations'[n] = new
    BY <1>0, <2>1, <2>2, AppendProperties DEF RoomTypeOK
  <2>4. DOMAIN reservations' = 1..n
    BY <2>3, LenProperties
  <2>5. ASSUME NEW i \in 1..Len(reservations), Held(i), reservations[i].room = r,
               Request[reservations[i].key].offset = Request[k].offset
        PROVE  ~Overlap(reservations[i].key, k) /\ ~Overlap(k, reservations[i].key)
    <3>1. reservations[i].room \notin Occupied(k)
      BY <2>5 DEF Available
    <3>2. ~(Start(reservations[i].key) < End(k) /\ End(reservations[i].key) > Start(k))
      BY <1>3, <2>5, <3>1 DEF Occupied
    <3>3. reservations[i].key \in Keys
      BY <1>3, <1>4 DEF Reservation
    <3>4. ASSUME NEW l \in Keys, Request[l].offset = Request[k].offset,
                 ~(Start(l) < End(k) /\ End(l) > Start(k))
          PROVE  ~Overlap(l, k) /\ ~Overlap(k, l)
      <4>1. Request[k] \in Requests /\ Request[l] \in Requests
        OBVIOUS
      <4>2. \A q \in Requests : q.start \in Nat /\ q.end \in Nat /\ q.offset \in Nat
        BY DEF Requests
      <4>3. /\ {Request[k].start, Request[k].end, Request[k].offset} \subseteq Nat
            /\ {Request[l].start, Request[l].end} \subseteq Nat
        BY <4>1, <4>2
      <4> QED BY <3>4, <4>3 DEF Start, End, Overlap
    <3> QED BY <2>5, <3>2, <3>3, <3>4
  <2>6. NoRoomBookedTwice'
    <3> SUFFICES ASSUME NEW i \in 1..n, NEW j \in 1..n, i # j, Held(i)', Held(j)',
                        reservations'[i].room = reservations'[j].room,
                        Request[reservations'[i].key].offset = Request[reservations'[j].key].offset
                 PROVE  ~Overlap(reservations'[i].key, reservations'[j].key)
      BY <2>4 DEF NoRoomBookedTwice, Overlap
    <3>1. CASE i # n /\ j # n
      <4>1. i \in 1..Len(reservations) /\ j \in 1..Len(reservations)
        BY <1>3, <3>1
      <4> QED BY <1>0, <1>3, <2>3, <4>1 DEF NoRoomBookedTwice, Held
    <3>2. CASE i # n /\ j = n
      <4>1. i \in 1..Len(reservations)
        BY <1>3, <3>2
      <4> QED BY <2>3, <2>5, <3>2, <4>1 DEF Held
    <3>3. CASE i = n /\ j # n
      <4>1. j \in 1..Len(reservations)
        BY <1>3, <3>3
      <4> QED BY <2>3, <2>5, <3>3, <4>1 DEF Held
    <3> QED BY <3>1, <3>2, <3>3
  <2>7. Accounts'
    <3> SUFFICES ASSUME NEW l \in Keys, Reserves(l)
                 PROVE  Cardinality({i \in 1..n : reservations'[i].key = l}) = effects'[l]
      BY <2>4 DEF Accounts, Reserves, Rows
    <3> DEFINE S == {i \in 1..Len(reservations) : reservations[i].key = l}
    <3>1. Cardinality(S) = effects[l] /\ IsFiniteSet(S) /\ n \notin S
      <4>1. IsFiniteSet(S)
        <5>1. 1 \in Int /\ Len(reservations) \in Int
          BY <1>3
        <5>2. IsFiniteSet(1..Len(reservations))
          BY <5>1, FS_Interval, Zenon
        <5> QED BY <5>2, FS_Subset
      <4> QED BY <1>0, <1>3, <4>1 DEF Accounts, Rows
    <3>2. effects \in [Keys -> Nat]
      BY <1>0 DEF LedgerTyped, LedgerTypeOK
    <3>3. CASE l = k
      <4>1. {i \in 1..n : reservations'[i].key = l} = S \cup {n}
        BY <1>3, <2>3, <3>3
      <4>2. Cardinality(S \cup {n}) = Cardinality(S) + 1
        BY <3>1, FS_AddElement
      <4> QED BY <1>5, <3>1, <3>2, <3>3, <4>1, <4>2 DEF Books
    <3>4. CASE l # k
      <4>1. {i \in 1..n : reservations'[i].key = l} = S
        BY <1>3, <2>3, <3>4
      <4> QED BY <1>5, <3>1, <3>2, <3>4, <4>1 DEF Books
    <3> QED BY <3>3, <3>4
  <2>8. Kept'
    <3> SUFFICES ASSUME NEW i \in 1..n PROVE KeptOf(i)'
      BY <2>4 DEF Kept, KeptOf, Held
    <3>1. CASE i = n
      BY <2>3, <3>1 DEF KeptOf, Held
    <3>2. CASE i # n
      <4>1. i \in 1..Len(reservations)
        BY <1>3, <3>2
      <4> QED BY <1>0, <1>3, <1>5, <2>3, <4>1 DEF Kept, KeptOf, Held, Books
    <3> QED BY <3>1, <3>2
  <2> QED BY <1>1, <1>2, <2>3, <2>6, <2>7, <2>8 DEF RoomInv, RoomTypeOK
<1>6. CASE Releases
  <2>1. DOMAIN reservations' = DOMAIN reservations /\ reservations' \in Seq(Reservation)
    BY <1>3, <1>6, LenProperties DEF Releases
  <2>2. NoRoomBookedTwice'
    BY <1>0, <1>6, <2>1 DEF Releases, NoRoomBookedTwice, Held, Overlap
  <2>3. Accounts'
    <3> SUFFICES ASSUME NEW k \in Keys, Reserves(k)
                 PROVE  Cardinality({i \in DOMAIN reservations' : reservations'[i].key = k}) = effects'[k]
      BY DEF Accounts, Reserves, Rows
    <3>1. {i \in DOMAIN reservations' : reservations'[i].key = k} = {i \in DOMAIN reservations : reservations[i].key = k}
      BY <1>6, <2>1 DEF Releases
    <3> QED BY <1>0, <1>6, <3>1 DEF Releases, Accounts, Rows
  <2>4. Kept'
    BY <1>0, <1>6, <2>1 DEF Releases, Kept, KeptOf, Held
  <2> QED BY <1>1, <1>2, <2>1, <2>2, <2>3, <2>4 DEF RoomInv, RoomTypeOK
<1>7. CASE LeavesRooms
  BY <1>0, <1>1, <1>2, <1>7 DEF LeavesRooms, RoomInv, RoomTypeOK, NoRoomBookedTwice,
     Accounts, Rows, Kept, KeptOf, Held, Reserves, Overlap
<1> QED BY <1>2, <1>5, <1>6, <1>7

LEMMA RoomInvariant == Spec => []RoomInv
<1>1. Init => RoomInv
  <2> SUFFICES ASSUME Init PROVE RoomInv
    OBVIOUS
  <2>1. LedgerTyped /\ RoomTypeOK
    BY TypeInit DEF TypeOK, RoomTypeOK
  <2>2. DOMAIN reservations = {} /\ \A k \in Keys : effects[k] = 0
    BY DEF Init, LedgerInit
  <2>3. NoRoomBookedTwice
    BY <2>2 DEF NoRoomBookedTwice
  <2>4. Accounts
    BY <2>2, FS_EmptySet DEF Accounts, Rows
  <2> QED BY <2>1, <2>2, <2>3, <2>4 DEF RoomInv, Kept
<1> QED BY <1>1, RoomsStep, PTL DEF Spec

\* A lock is held by a call of its own process on its own key, and every variable
\* has its type.
THEOREM TypeCorrect == Spec => []TypeOK
<1>1. RoomInv => TypeOK
  BY DEF RoomInv, RoomTypeOK, LedgerTyped, TypeOK
<1> QED BY <1>1, RoomInvariant, PTL

\* However many processes reserve and close games at once, and however often a call
\* is repeated, no room is held twice for overlapping times of one offset.
THEOREM BookingCorrect == Spec => []NoRoomBookedTwice
<1>1. RoomInv => NoRoomBookedTwice
  BY DEF RoomInv
<1> QED BY <1>1, RoomInvariant, PTL

\* Who is or will be told that no room was reserved has none, short of a takeover.
RefusedOf(k) ==
  lost[k] = 0 /\ (\/ entry[k] = "failed" \/ "failed" \in told[k]
                  \/ \E t \in Active(k) : call[t].pc = "remembering" /\ call[t].outcome = "failed")
    => effects[k] = 0

Refused == \A k \in Keys : Reserves(k) => RefusedOf(k)

LEMMA RefusedStep ==
  ASSUME LedgerInv, LedgerTyped', Refused, LedgerStep
  PROVE  Refused'
<1> SUFFICES ASSUME NEW k \in Keys, Reserves(k), RefusedOf(k) PROVE RefusedOf(k)'
  BY DEF Refused, Reserves, RefusedOf
<1>0. LedgerTypeOK /\ WellFormed /\ TurnsOf(k) /\ ToldOf(k) /\ BudgetOf(k)
  BY DEF LedgerInv, LedgerTyped, Turns, Told, Budget
<1>1. CASE Quiet
  <2>1. \A t \in Active(k)' : t \in Active(k) /\ call'[t] = call[t]
    BY <1>1 DEF Quiet, Active
  <2> QED BY <1>1, <2>1 DEF Quiet, RefusedOf
<1>2. ASSUME NEW t \in Threads, ClaimIdempotentResult(t), Claimable(call[t].key) PROVE RefusedOf(k)'
  <2>1. /\ call' = [call EXCEPT ![t].pc = "handling"] /\ UNCHANGED <<told, effects>>
        /\ entry' = [entry EXCEPT ![call[t].key] = "claimed"]
        /\ lost' = [lost EXCEPT ![call[t].key] = IF entry[call[t].key] = "lapsed" THEN @ + 1 ELSE @]
    BY <1>2 DEF ClaimIdempotentResult, GoTo
  <2>2. \A u \in Threads : call'[u].pc = "remembering" => call'[u] = call[u]
    BY <1>0, <2>1 DEF LedgerTypeOK, Call
  <2>3. lost'[k] = 0 => lost[k] = 0
    BY <1>0, <2>1 DEF LedgerTypeOK
  <2>4. entry'[k] = "failed" => entry[k] = "failed"
    BY <1>0, <2>1 DEF LedgerTypeOK
  <2> QED BY <2>1, <2>2, <2>3, <2>4 DEF RefusedOf, Active
<1>3. ASSUME NEW t \in Threads, Handles(t) PROVE RefusedOf(k)'
  <2>1. PICK outcome \in {"ok", "failed", "no_effect"}, effect \in BOOLEAN :
          /\ Reserves(call[t].key) /\ outcome = "failed" => ~effect
          /\ Handle(t, outcome, effect)
    BY <1>3 DEF Handles
  <2>2. /\ call[t].pc = "handling" /\ call'[t].outcome = outcome /\ call'[t].key = call[t].key
        /\ \A u \in Threads \ {t} : call'[u] = call[u]
        /\ UNCHANGED <<entry, lost, told>>
        /\ effects' = [effects EXCEPT ![call[t].key] = IF effect THEN @ + 1 ELSE @]
    BY <1>0, <2>1 DEF Handle, LedgerTypeOK, Call
  <2>3. CASE call[t].key # k
    <3>1. effects'[k] = effects[k]
      BY <1>0, <2>2, <2>3 DEF LedgerTypeOK
    <3> QED BY <2>2, <2>3, <3>1 DEF RefusedOf, Active
  <2>4. CASE call[t].key = k /\ lost[k] = 0
    <3>1. t \in Active(k) /\ t \in Pending(k)
      BY <2>2, <2>4 DEF Active, Pending
    <3>2. effects[k] = 0
      <4>1. Pending(k) \in SUBSET Threads
        BY DEF Pending
      <4>2. Cardinality(Pending(k)) \in Nat /\ Cardinality(Pending(k) \ {t}) = Cardinality(Pending(k)) - 1
            /\ Cardinality(Pending(k) \ {t}) \in Nat
        BY <3>1, <4>1, Counting
      <4>3. effects[k] \in Nat
        BY <1>0 DEF LedgerTypeOK
      <4> QED BY <1>0, <2>4, <4>2, <4>3 DEF BudgetOf
    <3>3. entry[k] \in {"claimed", "lapsed"} /\ "failed" \notin told[k]
          /\ \A u \in Active(k) : u = t
      BY <1>0, <2>4, <3>1 DEF TurnsOf, ToldOf
    <3>4. outcome = "failed" => effects'[k] = effects[k]
      BY <1>0, <2>1, <2>2, <2>4 DEF LedgerTypeOK
    <3>5. \A u \in Active(k)' : u = t
      BY <2>2, <3>3 DEF Active
    <3> QED BY <2>2, <3>2, <3>3, <3>4, <3>5 DEF RefusedOf
  <2> QED BY <2>2, <2>3, <2>4 DEF RefusedOf
<1>4. ASSUME NEW t \in Threads, RememberResult(t) PROVE RefusedOf(k)'
  <2>1. /\ call[t].pc = "remembering" /\ UNCHANGED <<effects, lost>>
        /\ call' = [call EXCEPT ![t] = NoCall]
        /\ entry' = [entry EXCEPT ![call[t].key] = call[t].outcome]
        /\ told' = [told EXCEPT ![call[t].key] = @ \cup (Outcomes \cap {call[t].outcome})]
    BY <1>4 DEF RememberResult, Return
  <2>2. \A u \in Active(k)' : u \in Active(k) /\ call'[u] = call[u]
    BY <1>0, <2>1 DEF Active, LedgerTypeOK, NoCall
  <2>3. CASE call[t].key # k
    <3>1. entry'[k] = entry[k] /\ told'[k] = told[k]
      BY <1>0, <2>1, <2>3 DEF LedgerTypeOK
    <3> QED BY <2>1, <2>2, <3>1 DEF RefusedOf
  <2>4. CASE call[t].key = k
    <3>1. /\ entry'[k] = call[t].outcome /\ t \in Active(k)
          /\ "failed" \in told'[k] => "failed" \in told[k] \/ call[t].outcome = "failed"
      BY <1>0, <2>1, <2>4 DEF LedgerTypeOK, Active
    <3> QED BY <2>1, <2>2, <3>1 DEF RefusedOf
  <2> QED BY <2>3, <2>4
<1> QED BY <1>1, <1>2, <1>3, <1>4, QuietSteps

LEMMA RefusedInvariant == Spec => []Refused
<1>1. Init => Refused
  BY DEF Init, LedgerInit, Refused, RefusedOf
<1>2. LedgerInv /\ LedgerInv' /\ Refused /\ [Next]_vars => Refused'
  BY RefusedStep, StepOfLedger DEF LedgerInv
<1> QED BY <1>1, <1>2, LedgerInvariant, PTL DEF Spec

\* Whatever crashed between a reservation and its entry in the ledger, and however many
\* callers repeat a call: who was told of a room has one until his game is closed, and
\* short of a takeover a call has one room at most, and none if it was told to fail.
THEOREM AnswersHoldRoomsCorrect == Spec => []AnswersHoldRooms
<1>1. RoomInv /\ LedgerInv /\ Refused => AnswersHoldRooms
  <2> SUFFICES ASSUME RoomInv, LedgerInv, Refused, NEW k \in Keys, Reserves(k)
               PROVE  /\ "ok" \in told[k] => \E i \in Rows(k) : Held(i) \/ Request[k].game \in closed
                      /\ lost[k] = 0 => Cardinality(Rows(k)) <= 1
                      /\ lost[k] = 0 /\ "failed" \in told[k] => Rows(k) = {}
    BY DEF AnswersHoldRooms
  <2>1. Cardinality(Rows(k)) = effects[k] /\ effects[k] \in Nat
    BY DEF RoomInv, Accounts, LedgerTyped, LedgerTypeOK
  <2>2. IsFiniteSet(Rows(k))
    <3>1. DOMAIN reservations = 1..Len(reservations) /\ Len(reservations) \in Int /\ 1 \in Int
      BY LenProperties DEF RoomInv, RoomTypeOK
    <3>2. IsFiniteSet(1..Len(reservations))
      BY <3>1, FS_Interval, Zenon
    <3> QED BY <3>1, <3>2, FS_Subset DEF Rows
  <2>3. Cardinality(Rows(k)) = 0 <=> Rows(k) = {}
    BY <2>2, FS_EmptySet
  <2>4. "ok" \in told[k] => \E i \in Rows(k) : Held(i) \/ Request[k].game \in closed
    <3> SUFFICES ASSUME "ok" \in told[k] PROVE \E i \in Rows(k) : Held(i) \/ Request[k].game \in closed
      OBVIOUS
    <3>1. effects[k] > 0
      BY DEF LedgerInv, Told, ToldOf
    <3>2. PICK i \in Rows(k) : TRUE
      BY <2>1, <2>3, <3>1
    <3> QED BY <3>2 DEF RoomInv, Kept, KeptOf, Rows
  <2>5. lost[k] = 0 => effects[k] <= 1
    <3>1. Pending(k) \in SUBSET Threads
      BY DEF Pending
    <3>2. Cardinality(Pending(k)) \in Nat
      BY <3>1, Counting
    <3> QED BY <2>1, <3>2 DEF LedgerInv, Budget, BudgetOf
  <2>6. lost[k] = 0 /\ "failed" \in told[k] => effects[k] = 0
    BY DEF Refused, RefusedOf
  <2> QED BY <2>1, <2>3, <2>4, <2>5, <2>6
<1> QED BY <1>1, RoomInvariant, LedgerInvariant, RefusedInvariant, PTL
===============================================================================
