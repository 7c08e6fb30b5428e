------------------------------ MODULE ToolLedger ------------------------------
(***************************************************************************)
(* The idempotency ledger and the tool gateway in front of it              *)
(* (stores/sqlite/idempotency.py, domains/tools/gateway.py): a call looks   *)
(* its key up, claims it, runs the tool's handler and remembers the result. *)
(*                                                                         *)
(* The calls of a process on one key take turns, those of several processes *)
(* meet in the ledger.  A claim older than the lease is taken over, whether *)
(* its caller died or is only slow.  What a handler does is left to the     *)
(* module that composes its store with this one.                           *)
(***************************************************************************)
EXTENDS Naturals, FiniteSets

CONSTANTS
  Keys,       \* idempotency keys: message, sender, tool and arguments
  Retryable,  \* keys of tools with retry_no_effect_failures
  Permitted,  \* keys of tools the deployment allows
  Threads,
  Process,    \* [Threads -> processes]
  None,
  MaxCalls,   \* bound: calls
  MaxLapses,  \* bound: claims that grow older than the lease
  MaxCrashes  \* bound: processes that die

\* "failed": the handler raised or refused, its effect is unknown; "no_effect": it
\* proved that it rolled back; "forbidden": the deployment does not allow the tool.
Outcomes == {"ok", "failed", "no_effect", "forbidden"}

ASSUME LedgerAssumption == /\ IsFiniteSet(Threads)
                           /\ Retryable \subseteq Keys /\ Permitted \subseteq Keys
                           /\ Process \in [Threads -> {Process[t] : t \in Threads}]
                           /\ None \notin Threads \cup Keys \cup Outcomes
                           /\ {MaxCalls, MaxLapses, MaxCrashes} \subseteq Nat

VARIABLES
  entry,    \* [Keys -> Entries]: runtime_idempotency_ledger
  keyLock,  \* [Processes -> [Keys -> Threads or None]]: idempotency_lock_for_key
  call,     \* [Threads -> Call]
  effects,  \* history, [Keys -> Nat]: how often a handler took effect
  lost,     \* history, [Keys -> Nat]: claims that were taken over
  told,     \* history, [Keys -> SUBSET Outcomes]: results callers were given
  calls, lapses, crashes

ledgerVars == <<entry, keyLock, call, effects, lost, told, calls, lapses, crashes>>

Processes == {Process[t] : t \in Threads}

Entries == {"none", "claimed", "lapsed"} \cup Outcomes

Call == [pc : {"idle", "checking", "claiming", "handling", "remembering"},
         key : Keys \cup {None}, outcome : Outcomes \cup {None}]
NoCall == [pc |-> "idle", key |-> None, outcome |-> None]

LedgerTypeOK ==
  /\ entry \in [Keys -> Entries]
  /\ keyLock \in [Processes -> [Keys -> Threads \cup {None}]]
  /\ call \in [Threads -> Call]
  /\ \A p \in Processes, k \in Keys : keyLock[p][k] # None =>
       Process[keyLock[p][k]] = p /\ call[keyLock[p][k]].key = k
  /\ effects \in [Keys -> Nat] /\ lost \in [Keys -> Nat]
  /\ told \in [Keys -> SUBSET Outcomes]
  /\ calls \in 0..MaxCalls /\ lapses \in 0..MaxLapses /\ crashes \in 0..MaxCrashes

LedgerInit ==
  /\ entry = [k \in Keys |-> "none"]
  /\ keyLock = [p \in Processes |-> [k \in Keys |-> None]]
  /\ call = [t \in Threads |-> NoCall]
  /\ effects = [k \in Keys |-> 0] /\ lost = [k \in Keys |-> 0]
  /\ told = [k \in Keys |-> {}]
  /\ calls = 0 /\ lapses = 0 /\ crashes = 0

----------------------------------------------------------------------------
Unlocked(t) == [keyLock EXCEPT ![Process[t]][call[t].key] = None]

\* The call returns a result and leaves the key to the next call of the process.
Return(t, result) ==
  /\ call' = [call EXCEPT ![t] = NoCall]
  /\ keyLock' = Unlocked(t)
  /\ told' = [told EXCEPT ![call[t].key] = @ \cup (Outcomes \cap {result})]

GoTo(t, pc) == call' = [call EXCEPT ![t].pc = pc] /\ UNCHANGED <<keyLock, told>>

\* execute: the key's lock is taken.
BeginCall(t, k) ==
  /\ call[t].pc = "idle" /\ calls < MaxCalls
  /\ keyLock[Process[t]][k] = None
  /\ calls' = calls + 1
  /\ keyLock' = [keyLock EXCEPT ![Process[t]][k] = t]
  /\ call' = [call EXCEPT ![t] = [NoCall EXCEPT !.pc = "checking", !.key = k]]
  /\ UNCHANGED <<entry, effects, lost, told, lapses, crashes>>

\* An unknown tool, arguments against the schema, a scope that only reads, a
\* subject or resource of somebody else: blocked, and nothing is remembered.
Block(t) ==
  /\ \/ call[t].pc = "checking"
     \/ call[t].pc = "claiming" /\ call[t].key \in Permitted
  /\ Return(t, None)
  /\ UNCHANGED <<entry, effects, lost, calls, lapses, crashes>>

\* idempotent_result: a lapsed claim counts as none, a failure without effect may
\* be tried again.
IdempotentResult(t) ==
  LET k == call[t].key
  IN  /\ call[t].pc = "checking"
      /\ IF entry[k] \in {"none", "lapsed"} \/ (entry[k] = "no_effect" /\ k \in Retryable)
           THEN GoTo(t, "claiming")
           ELSE Return(t, entry[k])
      /\ UNCHANGED <<entry, effects, lost, calls, lapses, crashes>>

\* A tool the deployment does not allow: the refusal is remembered.
Forbid(t) ==
  /\ call[t].pc = "claiming" /\ call[t].key \notin Permitted
  /\ entry' = [entry EXCEPT ![call[t].key] = "forbidden"]
  /\ Return(t, "forbidden")
  /\ UNCHANGED <<effects, lost, calls, lapses, crashes>>

\* Variants the properties must reject: a claim not asked for its age, a failure
\* of unknown effect taken for one without.
ClaimableAtOnce(k) == \/ entry[k] \in {"none", "claimed", "lapsed"}
                      \/ entry[k] = "no_effect" /\ k \in Retryable

ClaimableFailed(k) == \/ entry[k] \in {"none", "lapsed"}
                      \/ entry[k] \in {"no_effect", "failed"} /\ k \in Retryable

Claimable(k) == \/ entry[k] \in {"none", "lapsed"}
                \/ entry[k] = "no_effect" /\ k \in Retryable

\* claim_idempotent_result, one transaction from the INSERT on.
ClaimIdempotentResult(t) ==
  LET k == call[t].key
  IN  /\ call[t].pc = "claiming" /\ k \in Permitted
      /\ IF Claimable(k)
           THEN /\ entry' = [entry EXCEPT ![k] = "claimed"]
                /\ lost' = [lost EXCEPT ![k] = IF entry[k] = "lapsed" THEN @ + 1 ELSE @]
                /\ GoTo(t, "handling")
           ELSE Return(t, entry[k]) /\ UNCHANGED <<entry, lost>>
      /\ UNCHANGED <<effects, calls, lapses, crashes>>

\* The handler returns or raises; "effect" tells whether its transaction committed.
Handle(t, outcome, effect) ==
  /\ call[t].pc = "handling"
  /\ call' = [call EXCEPT ![t].pc = "remembering", ![t].outcome = outcome]
  /\ effects' = [effects EXCEPT ![call[t].key] = IF effect THEN @ + 1 ELSE @]
  /\ UNCHANGED <<entry, keyLock, lost, told, calls, lapses, crashes>>

\* remember_result, whoever holds the claim by now.
RememberResult(t) ==
  /\ call[t].pc = "remembering"
  /\ entry' = [entry EXCEPT ![call[t].key] = call[t].outcome]
  /\ Return(t, call[t].outcome)
  /\ UNCHANGED <<effects, lost, calls, lapses, crashes>>

\* A claim grows older than IDEMPOTENCY_CLAIM_LEASE_SECONDS.
ClaimLapses(k) ==
  /\ entry[k] = "claimed" /\ lapses < MaxLapses
  /\ entry' = [entry EXCEPT ![k] = "lapsed"]
  /\ lapses' = lapses + 1
  /\ UNCHANGED <<keyLock, call, effects, lost, told, calls, crashes>>

\* A process dies with its threads and locks, its claims stay.
Crash(p) ==
  /\ crashes < MaxCrashes /\ \E t \in Threads : Process[t] = p /\ call[t].pc # "idle"
  /\ call' = [t \in Threads |-> IF Process[t] = p THEN NoCall ELSE call[t]]
  /\ keyLock' = [keyLock EXCEPT ![p] = [k \in Keys |-> None]]
  /\ crashes' = crashes + 1
  /\ UNCHANGED <<entry, effects, lost, told, calls, lapses>>

\* Every step but the handlers'.
LedgerNext ==
  \/ \E t \in Threads : \/ \E k \in Keys : BeginCall(t, k)
                        \/ Block(t) \/ IdempotentResult(t) \/ Forbid(t)
                        \/ ClaimIdempotentResult(t) \/ RememberResult(t)
  \/ \E k \in Keys : ClaimLapses(k)
  \/ \E p \in Processes : Crash(p)

----------------------------------------------------------------------------
(* Properties.                                                             *)

\* However often a call is repeated and by whatever process, its tool takes effect
\* once, and once more for each claim that was taken over.
EffectsPerLostClaim == \A k \in Keys : effects[k] <= 1 + lost[k]

\* As long as no claim was taken over, every caller who is given a final result of
\* a key is given the same one, and a success only of a tool that took effect.
AnswersAgree ==
  \A k \in Keys :
    /\ lost[k] = 0 => Cardinality(told[k] \ {"no_effect"}) <= 1
    /\ "ok" \in told[k] => effects[k] > 0

\* A remembered result stays, unless its claim was taken over and the late caller
\* writes his, or it is a failure without effect that is tried again.
RememberedResultStays ==
  [][\A k \in Keys : entry[k] \in Outcomes /\ lost[k] = 0 =>
       entry'[k] = entry[k] \/ (entry[k] = "no_effect" /\ k \in Retryable)]_ledgerVars
===============================================================================
