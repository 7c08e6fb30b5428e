--------------------------- MODULE ConversationRuns ---------------------------
(***************************************************************************)
(* The reliability shell of the agent runtime (runtime.py) for one         *)
(* conversation: messages are received and numbered, one agent run answers *)
(* the newest of them, its result is remembered under the message's key,   *)
(* and a run whose process died is taken over by the recovery scheduler.   *)
(*                                                                         *)
(* The model, its tools and the review of a text take any time between two *)
(* actions; what they decide is nondeterministic.  A store method is one   *)
(* action.  Receiving takes only the short receipt lock, so it falls       *)
(* between any two actions of a run; a run holds the conversation lock.    *)
(***************************************************************************)
EXTENDS Integers, Sequences, FiniteSets

CONSTANTS
  Messages,     \* messages of one sender and system triggers of the conversation
  Channel,      \* [Messages -> Channels], those of messages without input aggregation
  Requests,     \* request threads
  Background,   \* scheduler threads: recovery of runs, and triggers of due tasks
  Process,      \* [Threads -> processes]: also the worker_id of its runs
  None,
  MaxSteps,     \* max_steps of the loop
  MaxAttempts,  \* max_attempts of recovery
  MaxRuns,      \* bound: runs that are started
  LockExpires,  \* the conversation lock has a timeout (Redis), a file lock has none
  MaxFaults     \* bound: exceptions, deaths of a process, locks that run out

Channels == {"api", "wechaty", "system"}
Threads == Requests \cup Background
Runs == 1..MaxRuns

ASSUME ThreadsAssumption == /\ Requests \cap Background = {}
                            /\ Process \in [Threads -> {Process[t] : t \in Threads}]
                            /\ Channel \in [Messages -> Channels]
                            /\ None \notin Messages \cup Threads \cup {Process[t] : t \in Threads}
ASSUME BoundsAssumption == /\ {MaxFaults, MaxRuns} \subseteq Nat /\ LockExpires \in BOOLEAN
                           /\ {MaxSteps, MaxAttempts} \subseteq Nat \ {0} /\ IsFiniteSet(Messages)

VARIABLES
  version,   \* conversation version
  receipt,   \* [Messages -> Nat]: the version a message was received with, 0 before
  result,    \* [Messages -> Replies]: runtime_message_results
  run,       \* [Runs -> Run]: runtime_agent_runs
  rows,      \* [Runs -> Seq(delivery_status)]: assistant turns of the run's trace
  ledger,    \* delivery keys the WeChaty bridge has sent a reply under
  lock,      \* the conversation lock: a thread or None
  thread,    \* [Threads -> Thread]
  failures,  \* exceptions and deaths so far
  expiries   \* locks that ran out so far

store == <<version, receipt, result, run, rows>>
faults == <<failures, expiries>>
vars == <<store, ledger, lock, thread, faults>>

\* A reply is the run that worded it; a run may also stay silent or find itself
\* superseded, both of which show nothing.
NoReply == 0
Silent == -1
Superseded == -2
Replies == {NoReply, Silent, Superseded} \cup Runs

Unfinished == {"running", "recoverable"}
Finished == {"completed", "superseded", "failed"}

Run == [msg : Messages \cup {None}, version : Nat, status : {"absent"} \cup Unfinished \cup Finished,
        owner : {Process[t] : t \in Threads} \cup {None}, leased : BOOLEAN,
        attempts : Nat, step : 1..(MaxSteps + 1), final : {NoReply} \cup Runs]

NoRun == [msg |-> None, version |-> 0, status |-> "absent", owner |-> None, leased |-> FALSE,
          attempts |-> 0, step |-> 1, final |-> NoReply]

\* attempt, step: what the thread's copy of the run says, which it saves whole.
Thread == [pc : {"idle", "received", "starting", "claimed", "looping", "replied",
                 "finishing", "handed_over", "completing", "returned", "writing"},
           msg : Messages \cup {None}, version : Nat, run : {0} \cup Runs, attempt : Nat, step : 1..(MaxSteps + 1),
           reply : Replies, durable : BOOLEAN]

Idle == [pc |-> "idle", msg |-> None, version |-> 0, run |-> 0, attempt |-> 0, step |-> 1,
         reply |-> NoReply, durable |-> FALSE]

TypeOK ==
  /\ version \in 0..Cardinality(Messages)
  /\ receipt \in [Messages -> 0..version]
  /\ result \in [Messages -> Replies]
  /\ run \in [Runs -> Run]
  /\ rows \in [Runs -> Seq({"pending", "superseded", "dispatching", "delivered"})]
  /\ ledger \subseteq Messages \cup Runs
  /\ lock \in Threads \cup {None}
  /\ thread \in [Threads -> Thread]
  /\ {failures, expiries} \subseteq 0..MaxFaults

Init ==
  /\ version = 0
  /\ receipt = [m \in Messages |-> 0]
  /\ result = [m \in Messages |-> NoReply]
  /\ run = [r \in Runs |-> NoRun]
  /\ rows = [r \in Runs |-> <<>>]
  /\ ledger = {}
  /\ lock = None
  /\ thread = [t \in Threads |-> Idle]
  /\ failures = 0 /\ expiries = 0

----------------------------------------------------------------------------
\* run_is_stale
Stale(t) == version # thread[t].version

\* Save with expected_lease_owner: the row is still the process's own.
Owns(t) == run[thread[t].run].owner = Process[t]

Unlock(t) == lock' = IF lock = t THEN None ELSE lock

\* What a request does with the reply it ends with; a recoverer is done.
EndWith(t, reply) ==
  thread' = [thread EXCEPT ![t] = IF t \in Requests /\ reply \in Runs
                                    THEN [Idle EXCEPT !.pc = "returned", !.msg = thread[t].msg, !.reply = reply]
                                    ELSE Idle]

FaultsLeft == failures + expiries < MaxFaults

\* The thread took the run over: the start is the first attempt, a claim one more.
Recovered(t) == thread[t].attempt > 1

GoTo(t, pc) == thread' = [thread EXCEPT ![t].pc = pc]

\* supersede_agent_runs
SupersedeBefore(current) ==
  run' = [r \in Runs |-> IF run[r].status \in Unfinished /\ run[r].version < current
                           THEN [run[r] EXCEPT !.status = "superseded", !.owner = None, !.leased = FALSE]
                           ELSE run[r]]

----------------------------------------------------------------------------
(* Receiving: the receipt lock only.                                       *)

\* Bound: runs are left for every thread that may still start one.
RunsLeft == Cardinality({r \in Runs : run[r].status = "absent"})
              > Cardinality({t \in Threads : thread[t].pc \in {"received", "starting"}})

\* _supersede_pending_outputs_in_transaction
SupersedeRows == rows' = [r \in Runs |-> [i \in DOMAIN rows[r] |->
                            IF rows[r][i] = "pending" THEN "superseded" ELSE rows[r][i]]]

\* A first delivery advances the version and supersedes what still waits to be
\* sent, in one transaction; a repeated one finds its receipt.
AcceptUserInput(m) ==
  IF receipt[m] = 0
    THEN /\ version' = version + 1
         /\ receipt' = [receipt EXCEPT ![m] = version + 1]
         /\ SupersedeRows
    ELSE UNCHANGED <<version, receipt, rows>>

ReceiveUserMessage(t, m) ==
  /\ thread[t].pc = "idle" /\ Channel[m] # "system"
  /\ result[m] = NoReply
  /\ RunsLeft
  /\ AcceptUserInput(m)
  /\ thread' = [thread EXCEPT ![t] = [Idle EXCEPT !.pc = "received", !.msg = m, !.version = receipt'[m]]]
  /\ UNCHANGED <<result, run, ledger, lock, faults>>

\* Showing a reply again that was shown changes nothing, and is left out.
Shown(m) == m \in ledger \/ (result[m] \in Runs /\ rows[result[m]][1] = "delivered")

\* _cached_message_result: a redelivery is answered with the remembered result.
AnswerRedelivery(t, m) ==
  /\ thread[t].pc = "idle" /\ Channel[m] # "system"
  /\ result[m] \in Runs /\ ~Shown(m)
  /\ thread' = [thread EXCEPT ![t] = [Idle EXCEPT !.pc = "returned", !.msg = m, !.reply = result[m]]]
  /\ UNCHANGED <<store, ledger, lock, faults>>

----------------------------------------------------------------------------
(* handle_user_message, inside the conversation lock.                      *)

\* Taking the lock and the reads that follow are one action: nobody else reads
\* or writes the thread's state in between.
Enter(t) == thread[t].pc = "received" /\ lock = None

ReuseResult(t) ==
  /\ Enter(t)
  /\ result[thread[t].msg] # NoReply
  /\ EndWith(t, result[thread[t].msg])
  /\ UNCHANGED <<store, ledger, lock, faults>>

SkipStaleMessage(t) ==
  /\ Enter(t)
  /\ result[thread[t].msg] = NoReply /\ Stale(t)
  /\ result' = [result EXCEPT ![thread[t].msg] = Superseded]
  /\ EndWith(t, Superseded)
  /\ UNCHANGED <<version, receipt, run, rows, ledger, lock, faults>>

\* Variant the properties must reject: the result is not read again inside the lock.
SupersedeStaleRunsAnyway(t) ==
  /\ Enter(t) /\ ~Stale(t)
  /\ lock' = t
  /\ SupersedeBefore(thread[t].version)
  /\ GoTo(t, "starting")
  /\ UNCHANGED <<version, receipt, result, rows, ledger, faults>>

SupersedeStaleRuns(t) ==
  /\ Enter(t)
  /\ result[thread[t].msg] = NoReply /\ ~Stale(t)
  /\ lock' = t
  /\ SupersedeBefore(thread[t].version)
  /\ GoTo(t, "starting")
  /\ UNCHANGED <<version, receipt, result, rows, ledger, faults>>

\* handle_system_trigger, handle_system_event: neither receipt nor version, the
\* run belongs to the version it finds and supersedes nothing.
HandleSystemTrigger(t, m) ==
  /\ thread[t].pc = "idle" /\ Channel[m] = "system"
  /\ lock = None
  /\ result[m] = NoReply
  /\ RunsLeft
  /\ lock' = t
  /\ thread' = [thread EXCEPT ![t] = [Idle EXCEPT !.pc = "starting", !.msg = m, !.version = version]]
  /\ UNCHANGED <<store, ledger, faults>>

StartRun(t) ==
  /\ thread[t].pc = "starting"
  /\ \E r \in Runs :
       /\ run[r].status = "absent" /\ \A s \in Runs : run[s].status = "absent" => r <= s
       /\ run' = [run EXCEPT ![r] = [NoRun EXCEPT !.msg = thread[t].msg, !.version = thread[t].version,
                                                  !.status = "running", !.attempts = 1,
                                                  !.owner = Process[t], !.leased = TRUE]]
       /\ thread' = [thread EXCEPT ![t].pc = "looping", ![t].run = r, ![t].attempt = 1]
  /\ UNCHANGED <<version, receipt, result, rows, ledger, lock, faults>>

----------------------------------------------------------------------------
(* The loop, of a new run and of a recovered one.                          *)

\* The copy is saved with the next step, as running and with a new lease.
Checkpoint(t, pc, step, final) ==
  /\ thread' = [thread EXCEPT ![t].pc = pc, ![t].step = step]
  /\ run' = [run EXCEPT ![thread[t].run] =
               [@ EXCEPT !.step = step, !.attempts = thread[t].attempt, !.final = final,
                         !.status = "running", !.owner = Process[t], !.leased = TRUE]]

\* Variant the properties must reject: a checkpoint does not ask who owns the run.
LoopStepUnfenced(t) ==
  /\ thread[t].pc = "looping"
  /\ thread[t].step <= MaxSteps
  /\ Checkpoint(t, "looping", thread[t].step + 1, NoReply)
  /\ UNCHANGED <<version, receipt, result, rows, ledger, lock, faults>>

\* A step that ends in tool results or a rejected reply: the loop goes on.
LoopStep(t) ==
  /\ thread[t].pc = "looping" /\ Owns(t)
  /\ thread[t].step <= MaxSteps
  /\ Checkpoint(t, "looping", thread[t].step + 1, NoReply)
  /\ UNCHANGED <<version, receipt, result, rows, ledger, lock, faults>>

AddRow(r) == rows' = [rows EXCEPT ![r] = Append(@, "pending")]

\* Variant the properties must reject: the version was checked before the review.
EndLoopUnfenced(t) ==
  /\ thread[t].pc = "looping"
  /\ thread' = [thread EXCEPT ![t].pc = "replied", ![t].reply = thread[t].run]
  /\ AddRow(thread[t].run)
  /\ UNCHANGED <<version, receipt, result, run, ledger, lock, faults>>

\* The step that ends the loop.  The reply becomes a pending assistant turn
\* behind the receipt lock, unless a newer message was received; past the last
\* step it is the failure reply.
EndLoop(t) ==
  /\ thread[t].pc = "looping"
  /\ \/ /\ Stale(t)
        /\ thread' = [thread EXCEPT ![t].pc = "replied", ![t].reply = Superseded]
        /\ UNCHANGED rows
     \/ /\ ~Stale(t)
        /\ thread' = [thread EXCEPT ![t].pc = "replied", ![t].reply = thread[t].run]
        /\ AddRow(thread[t].run)
     \/ /\ ~Stale(t) /\ thread[t].step <= MaxSteps
        /\ thread' = [thread EXCEPT ![t].pc = "replied", ![t].reply = Silent]
        /\ UNCHANGED rows
  /\ UNCHANGED <<version, receipt, result, run, ledger, lock, faults>>

CheckpointReply(t) ==
  /\ thread[t].pc = "replied" /\ Owns(t)
  /\ Checkpoint(t, "finishing",
                IF thread[t].step <= MaxSteps THEN thread[t].step + 1 ELSE MaxSteps + 1,
                IF thread[t].reply \in Runs THEN thread[t].reply ELSE NoReply)
  /\ UNCHANGED <<version, receipt, result, rows, ledger, lock, faults>>

\* mark_recoverable: a run that is finished or another's is left alone.
MarkRecoverable(t) ==
  LET r == thread[t].run
  IN  run' = IF run[r].status \in {"completed", "superseded"} \/ ~Owns(t) THEN run
             ELSE [run EXCEPT ![r].owner = None, ![r].leased = FALSE,
                     ![r].status = IF run[r].attempts >= MaxAttempts THEN "failed" ELSE "recoverable"]

\* An exception of the loop or of the delivery of a recovered reply, and the
\* AgentRunLeaseLostError of a checkpoint.
RunFails(t) ==
  /\ thread[t].pc \in {"looping", "replied"} \/ (thread[t].pc = "finishing" /\ Recovered(t))
  /\ IF thread[t].pc # "finishing" /\ ~Owns(t)
       THEN UNCHANGED failures
       ELSE FaultsLeft /\ failures' = failures + 1
  /\ MarkRecoverable(t)
  /\ EndWith(t, NoReply) /\ Unlock(t)
  /\ UNCHANGED <<version, receipt, result, rows, ledger, expiries>>

----------------------------------------------------------------------------
(* Recovery: resume_recoverable_runs.                                      *)

\* Variant the properties must reject: a running row is never looked at.
RecoverableOnly(r) == run[r].status = "recoverable"

Recoverable(r) == run[r].status = "recoverable" \/ (run[r].status = "running" /\ ~run[r].leased)

\* Variant the properties must reject: the claim comes before the lock.
ClaimRunUnlocked(t) ==
  /\ thread[t].pc = "idle"
  /\ \E r \in Runs :
       /\ Recoverable(r)
       /\ run' = [run EXCEPT ![r].status = "running", ![r].owner = Process[t],
                             ![r].leased = TRUE, ![r].attempts = @ + 1]
       /\ thread' = [thread EXCEPT ![t] = [Idle EXCEPT !.pc = "claimed", !.msg = run[r].msg,
                                                       !.version = run[r].version, !.run = r, !.attempt = run[r].attempts + 1,
                                                       !.step = run[r].step]]
  /\ UNCHANGED <<version, receipt, result, rows, ledger, lock, faults>>

ClaimRun(t) ==
  /\ thread[t].pc = "idle" /\ lock = None
  /\ lock' = t
  /\ \E r \in Runs :
       /\ Recoverable(r)
       /\ run' = [run EXCEPT ![r].status = "running", ![r].owner = Process[t],
                             ![r].leased = TRUE, ![r].attempts = @ + 1]
       /\ thread' = [thread EXCEPT ![t] = [Idle EXCEPT !.pc = "claimed", !.msg = run[r].msg,
                                                       !.version = run[r].version, !.run = r, !.attempt = run[r].attempts + 1,
                                                       !.step = run[r].step]]
  /\ UNCHANGED <<version, receipt, result, rows, ledger, faults>>

DropStaleRun(t) ==
  /\ thread[t].pc = "claimed" /\ Stale(t)
  /\ SupersedeBefore(version)
  /\ EndWith(t, NoReply) /\ Unlock(t)
  /\ UNCHANGED <<version, receipt, result, rows, ledger, faults>>

\* A remembered result and a checkpointed reply are not worked out again.
ResumeRun(t) ==
  /\ thread[t].pc = "claimed" /\ ~Stale(t)
  /\ LET known == result[thread[t].msg]
         final == run[thread[t].run].final
     IN  thread' = [thread EXCEPT
           ![t].pc = IF known # NoReply \/ final # NoReply THEN "finishing" ELSE "looping",
           ![t].reply = IF known # NoReply THEN known ELSE final,
           ![t].durable = known # NoReply]
  /\ UNCHANGED <<store, ledger, lock, faults>>

\* recovered_result_handler: only a WeChaty reply is sent from here, under a
\* delivery key of the run; the bridge ignores a key it has sent under.
HandOverRecovered(t) ==
  /\ thread[t].pc = "finishing" /\ Recovered(t)
  /\ LET reply == IF Stale(t) THEN Superseded ELSE thread[t].reply
     IN  /\ thread' = [thread EXCEPT ![t].pc = "handed_over", ![t].reply = reply]
         /\ ledger' = IF reply \in Runs /\ Channel[thread[t].msg] = "wechaty"
                        THEN ledger \cup {thread[t].run} ELSE ledger
  /\ UNCHANGED <<store, lock, faults>>

----------------------------------------------------------------------------
(* _finish_run: the result first, then the run.  The receipt lock spans    *)
(* both, but what a receipt changes the second does not read.              *)

\* Variant the properties must reject: the later result replaces the earlier.
RememberLatest(m, reply) == result' = [result EXCEPT ![m] = reply]

\* The result of an earlier finish stays (ON CONFLICT DO NOTHING).
Remember(m, reply) == result' = [result EXCEPT ![m] = IF @ = NoReply THEN reply ELSE @]

\* Variant the properties must reject: recovery takes the result for remembered.
RememberResultOfNewRuns(t) ==
  /\ thread[t].pc = (IF Recovered(t) THEN "handed_over" ELSE "finishing")
  /\ thread' = [thread EXCEPT ![t].pc = "completing"]
  /\ IF Recovered(t) THEN UNCHANGED result ELSE Remember(thread[t].msg, thread[t].reply)
  /\ UNCHANGED <<version, receipt, run, rows, ledger, lock, faults>>

RememberResult(t) ==
  /\ thread[t].pc = (IF Recovered(t) THEN "handed_over" ELSE "finishing")
  /\ LET reply == IF Stale(t) THEN Superseded ELSE thread[t].reply
     IN  /\ thread' = [thread EXCEPT ![t].pc = "completing", ![t].reply = reply]
         /\ IF thread[t].durable THEN UNCHANGED result ELSE Remember(thread[t].msg, reply)
  /\ UNCHANGED <<version, receipt, run, rows, ledger, lock, faults>>

\* complete; a lost lease ends the request with an error, its result stays.
\* Leaving a lock that ran out raises: the request ends with an error.
CompleteRun(t) ==
  /\ thread[t].pc = "completing"
  /\ IF Owns(t)
       THEN /\ run' = [run EXCEPT ![thread[t].run].owner = None, ![thread[t].run].leased = FALSE,
                         ![thread[t].run].status = IF thread[t].reply = Superseded THEN "superseded" ELSE "completed"]
            /\ EndWith(t, IF lock = t THEN thread[t].reply ELSE NoReply)
       ELSE EndWith(t, NoReply) /\ UNCHANGED run
  /\ Unlock(t)
  /\ UNCHANGED <<version, receipt, result, rows, ledger, faults>>

----------------------------------------------------------------------------
(* Handing a request's reply to its channel.                               *)

\* claim_assistant_reply_delivery, of the first turn of the trace: delivered
\* before, or still of the current version.
Deliverable(r) ==
  /\ rows[r] # <<>>
  /\ \/ rows[r][1] = "delivered"
     \/ rows[r][1] \in {"pending", "dispatching"} /\ run[r].version = version

ClaimReplyDelivery(t) ==
  /\ thread[t].pc = "returned" /\ Channel[thread[t].msg] = "api"
  /\ IF Deliverable(thread[t].reply)
       THEN /\ rows' = [rows EXCEPT ![thread[t].reply][1] = IF @ = "delivered" THEN @ ELSE "dispatching"]
            /\ GoTo(t, "writing")
       ELSE EndWith(t, NoReply) /\ UNCHANGED rows
  /\ UNCHANGED <<version, receipt, result, run, ledger, lock, faults>>

\* The body is written, mark_assistant_reply_delivered; a superseded turn stays so.
MarkReplyDelivered(t) ==
  /\ thread[t].pc = "writing"
  /\ rows' = [rows EXCEPT ![thread[t].reply] =
                [i \in DOMAIN @ |-> IF @[i] = "superseded" THEN @[i] ELSE "delivered"]]
  /\ EndWith(t, NoReply)
  /\ UNCHANGED <<version, receipt, result, run, ledger, lock, faults>>

\* maybeAutoSendReply: the bridge sends the response of its own request, once
\* for each source message.
AutoSendReply(t) ==
  /\ thread[t].pc = "returned" /\ Channel[thread[t].msg] = "wechaty"
  /\ ledger' = ledger \cup {thread[t].msg}
  /\ EndWith(t, NoReply)
  /\ UNCHANGED <<store, lock, faults>>

----------------------------------------------------------------------------
(* Faults.                                                                 *)

\* A process dies with its threads; the file lock of a dead process is free.
Crash(p) ==
  /\ FaultsLeft
  /\ \E t \in Threads : Process[t] = p /\ thread[t].pc # "idle"
  /\ failures' = failures + 1
  /\ thread' = [t \in Threads |-> IF Process[t] = p THEN Idle ELSE thread[t]]
  /\ lock' = IF lock # None /\ Process[lock] = p THEN None ELSE lock
  /\ UNCHANGED <<store, ledger, expiries>>

\* lease_until passes: the run is not renewed for 120 seconds, its thread may live.
LeaseRunsOut(r) ==
  /\ run[r].status = "running" /\ run[r].leased
  /\ run' = [run EXCEPT ![r].leased = FALSE]
  /\ UNCHANGED <<version, receipt, result, rows, ledger, lock, thread, faults>>

\* The Redis lock has a timeout of its own, which a long run outlives.
LockRunsOut ==
  /\ LockExpires /\ FaultsLeft /\ lock # None
  /\ expiries' = expiries + 1
  /\ lock' = None
  /\ UNCHANGED <<store, ledger, thread, failures>>

----------------------------------------------------------------------------
Shell(t) == ReuseResult(t) \/ SkipStaleMessage(t) \/ SupersedeStaleRuns(t)

Loop(t) == LoopStep(t) \/ EndLoop(t) \/ CheckpointReply(t)

Finish(t) == HandOverRecovered(t) \/ RememberResult(t) \/ CompleteRun(t)

Recover(t) == ClaimRun(t) \/ DropStaleRun(t) \/ ResumeRun(t)

Deliver(t) == ClaimReplyDelivery(t) \/ MarkReplyDelivered(t) \/ AutoSendReply(t)

Next == \/ \E t \in Requests : Shell(t) \/ Deliver(t) \/ \E m \in Messages : ReceiveUserMessage(t, m) \/ AnswerRedelivery(t, m)
        \/ \E t \in Background : Recover(t) \/ \E m \in Messages : HandleSystemTrigger(t, m)
        \/ \E t \in Threads : StartRun(t) \/ Loop(t) \/ Finish(t) \/ RunFails(t)
        \/ \E p \in {Process[t] : t \in Threads} : Crash(p)
        \/ \E r \in Runs : LeaseRunsOut(r)
        \/ LockRunsOut

Spec == Init /\ [][Next]_vars

\* What a thread has begun goes on: model and channel calls return or raise, the
\* lock is handed to a waiting thread in the end.  The recovery scheduler polls
\* for ever, and time passes.
Work(t) == \/ StartRun(t) \/ Loop(t) \/ Finish(t) \/ RunFails(t)
           \/ t \in Requests /\ (Shell(t) \/ Deliver(t))
           \/ t \in Background /\ Recover(t)

Fairness == /\ \A t \in Threads : SF_vars(Work(t))
            /\ \A r \in Runs : WF_vars(LeaseRunsOut(r))

FairSpec == Spec /\ Fairness

----------------------------------------------------------------------------
(* Properties.                                                             *)

\* What still waits to be sent answers the newest message: no run, however slow,
\* recovered or robbed of its lock, leaves a reply to an older one behind a
\* message that was received meanwhile.
PendingRepliesAreCurrent ==
  \A r \in Runs : \A i \in DOMAIN rows[r] : rows[r][i] = "pending" => run[r].version = version

\* A run is only completed once its message has a result that a redelivery finds.
CompletedRunHasResult ==
  \A r \in Runs : run[r].status = "completed" => result[run[r].msg] # NoReply

\* As long as no lock ran out under its holder, the reply the API shows is the
\* one remembered for the message, whichever of its requests and runs won.
ShownReplyIsTheResult ==
  expiries = 0 =>
    \A r \in Runs : rows[r] # <<>> /\ rows[r][1] \in {"dispatching", "delivered"}
                     => result[run[r].msg] = r

\* A run is saved under its owner's name alone, and a process may take over a run
\* of its own.  The conversation lock is what keeps an earlier thread of that
\* process from writing to it.
LatestClaimWrites ==
  expiries = 0 =>
    \A t \in Threads : /\ thread[t].pc \in {"claimed", "looping", "replied", "finishing",
                                             "handed_over", "completing"}
                       /\ Owns(t)
                       => thread[t].attempt = run[thread[t].run].attempts

\* A result once remembered is never replaced, also not by a thread that went on
\* after its lock ran out.
ResultIsKept == [][\A m \in Messages : result[m] # NoReply => result'[m] = result[m]]_vars

\* A completed, superseded or failed run is never touched again.
FinishedRunStaysFinished ==
  [][\A r \in Runs : run[r].status \in Finished => run'[r] = run[r]]_vars

\* Every run ends: a process that died, a lease that was lost or a model that
\* keeps failing leave no run behind that nobody takes up.
UnfinishedRunEnds ==
  \A r \in Runs : run[r].status \in Unfinished ~> run[r].status \in Finished
===============================================================================
