----------------------------- MODULE PendingInput -----------------------------
(***************************************************************************)
(* Aggregation of fragmented input: the row one customer has in            *)
(* runtime_pending_input_batches (stores/sqlite/input_aggregation.py) and  *)
(* the threads that dispatch it: the request handlers that bring a message *)
(* (route_user_message_with_aggregation) and the PendingInputScheduler     *)
(* threads, all running dispatch_pending_input_batch of                    *)
(* scripts/agent_runtime_app.py.  Rows of different customers never meet.  *)
(* A run that stays unfinished is recovered apart from its dispatch        *)
(* (AgentRunRecoveryScheduler, deliver_recovered_agent_result), which      *)
(* settles the batch too.                                                  *)
(*                                                                         *)
(* Each store method is one action.  The gate model, the agent run and the *)
(* stall of a thread take any time in between.  Stamps are kept as what    *)
(* the code compares: time left until quiet_deadline, time since           *)
(* updated_at, both saturating.                                            *)
(***************************************************************************)
EXTENDS Naturals, FiniteSets

CONSTANTS
  Messages,     \* source messages of the customer
  Handlers,     \* request-handler threads
  Schedulers,   \* PendingInputScheduler threads, one per process
  Recoverers,   \* AgentRunRecoveryScheduler threads, {} where replies are not recovered
  Background,   \* immediate_ack_enabled \/ background_processing_enabled of the channel
  Quiet,        \* input_effective_quiet_period_seconds
  AckDelay,     \* delay of a queued background dispatch
  Lease,        \* PENDING_INPUT_PROCESSING_LEASE_SECONDS
  MaxBatches,   \* bound: batches the customer opens
  MaxVersion,   \* bound: fragments of one batch
  MaxCrashes    \* bound: threads that die

ASSUME BatchAssumption == /\ {Quiet, AckDelay, MaxBatches, MaxCrashes} \subseteq Nat
                          /\ {Lease, MaxVersion} \subseteq Nat \ {0}
                          /\ Background \in BOOLEAN
                          /\ Handlers \cap Schedulers = {}

VARIABLES
  row,       \* the customer's batch
  job,       \* [Dispatchers -> Job]: the dispatch each thread is in
  runs,      \* the unfinished agent runs of the batch's version, to be recovered
  recovery,  \* [Recoverers -> Recovery]: the run each thread delivers
  crashes

vars == <<row, job, runs, recovery, crashes>>

Dispatchers == Handlers \cup Schedulers

Terminal == {"completed", "ignored", "failed"}
Statuses == {"absent", "pending", "processing"} \cup Terminal

GateActions == {"wait_for_more_input", "process_business", "process_casual", "ignore"}

\* "queued" is process_business with a background dispatch_mode.
Actions == {"none", "queued"} \cup GateActions

\* result: the fragments that decision.agent_result answers, {} without one;
\* settled, a history field: the fragments the finishing dispatch aggregated.
Row == [batch : 0..MaxBatches, version : 0..MaxVersion, status : Statuses,
        fragments : SUBSET Messages, quiet : 0..(Quiet + AckDelay), idle : 0..Lease,
        action : Actions, result : SUBSET Messages, settled : SUBSET Messages]

\* age: time since the thread's claim, a history field.
Job == [pc : {"idle", "gate", "decided", "running"}, batch : 0..MaxBatches,
        version : 0..MaxVersion, fragments : SUBSET Messages, elapsed : BOOLEAN,
        action : Actions, age : 0..Lease]

NoJob == [pc |-> "idle", batch |-> 0, version |-> 0, fragments |-> {}, elapsed |-> FALSE,
          action |-> "none", age |-> 0]

\* The aggregated message of a run names its batch and version (input_window).
Run == [batch : 0..MaxBatches, version : 0..MaxVersion, fragments : SUBSET Messages]

\* run: {} when idle; action, result: the decision as it was read.
Recovery == [run : {{}} \cup {{run} : run \in Run}, action : Actions, result : SUBSET Messages]

NoRecovery == [run |-> {}, action |-> "none", result |-> {}]

TypeOK == /\ row \in Row /\ job \in [Dispatchers -> Job] /\ crashes \in 0..MaxCrashes
          /\ runs \subseteq Run /\ recovery \in [Recoverers -> Recovery]

Init ==
  /\ row = [batch |-> 0, version |-> 0, status |-> "absent", fragments |-> {}, quiet |-> 0,
            idle |-> 0, action |-> "none", result |-> {}, settled |-> {}]
  /\ job = [d \in Dispatchers |-> NoJob]
  /\ runs = {} /\ recovery = [r \in Recoverers |-> NoRecovery]
  /\ crashes = 0

Older(age) == IF age < Lease THEN age + 1 ELSE age

Tick ==
  /\ row' = [row EXCEPT !.quiet = IF @ > 0 THEN @ - 1 ELSE 0, !.idle = Older(@)]
  /\ job' = [d \in Dispatchers |-> IF job[d].pc = "running" THEN [job[d] EXCEPT !.age = Older(@)]
                                   ELSE job[d]]
  /\ UNCHANGED <<runs, recovery, crashes>>

----------------------------------------------------------------------------
\* A thread starts dispatching the row as it read it.  A row queued in the
\* background keeps the decision it was queued with.
Dispatch(d, read, elapsed) ==
  job' = [job EXCEPT ![d] = [NoJob EXCEPT !.pc = "gate", !.batch = read.batch,
                               !.version = read.version, !.fragments = read.fragments,
                               !.elapsed = elapsed,
                               !.action = IF d \in Schedulers /\ read.action = "queued"
                                            THEN "queued" ELSE "none"]]

\* buffer_input_fragment, then dispatch; a fragment the row already has changes nothing.
\* The runs of older versions, unless their delivery has begun, leave the row alone.
UpsertPendingInputFragment(h, m) ==
  /\ job[h].pc = "idle"
  /\ ~(row.status # "absent" /\ m \in row.fragments)
  /\ IF row.status \in Terminal \cup {"absent"}
       THEN /\ row.batch < MaxBatches
            /\ row' = [batch |-> row.batch + 1, version |-> 1, status |-> "pending",
                       fragments |-> {m}, quiet |-> Quiet, idle |-> 0, action |-> "none",
                       result |-> {}, settled |-> {}]
       ELSE /\ row.version < MaxVersion
            /\ row' = [row EXCEPT !.version = @ + 1, !.status = "pending",
                         !.fragments = @ \cup {m}, !.quiet = Quiet, !.idle = 0,
                         !.action = "none", !.result = {}]
  /\ Dispatch(h, row', FALSE)
  /\ runs' = {}
  /\ UNCHANGED <<recovery, crashes>>

\* Variant the properties must reject: the scan leaves queued rows to their handler.
DueUnqueuedBatches(s) ==
  /\ job[s].pc = "idle" /\ row.action # "queued"
  /\ \/ row.status = "pending" /\ row.quiet = 0
     \/ row.status = "processing" /\ row.idle >= Lease
  /\ Dispatch(s, row, TRUE)
  /\ UNCHANGED <<row, runs, recovery, crashes>>

\* PendingInputScheduler.run_due_once, handle_due_pending_input_batch.
DuePendingInputBatches(s) ==
  /\ job[s].pc = "idle"
  /\ \/ row.status = "pending" /\ row.quiet = 0
     \/ row.status = "processing" /\ row.idle >= Lease
  /\ Dispatch(s, row, row.action # "queued")
  /\ UNCHANGED <<row, runs, recovery, crashes>>

\* Variant the properties must reject: the version is not compared.
SameBatch(d) == row.batch = job[d].batch

\* WHERE batch_id = ? AND version = ?
SameVersion(d) == row.batch = job[d].batch /\ row.version = job[d].version

\* The gate model answers; waiting is no answer once the input has been quiet.
Gate(d) == IF job[d].action = "queued" THEN {"queued"}
           ELSE IF job[d].elapsed THEN GateActions \ {"wait_for_more_input"}
           ELSE GateActions

RecordPendingInputDecision(d) ==
  /\ job[d].pc = "gate"
  /\ \E action \in Gate(d) :
       /\ row' = IF SameVersion(d)
                   THEN [row EXCEPT !.action = action, !.result = {}, !.idle = 0]
                   ELSE row
       /\ job' = [job EXCEPT ![d] = IF action = "wait_for_more_input" THEN NoJob
                                    ELSE [@ EXCEPT !.pc = "decided", !.action = action]]
  /\ UNCHANGED <<runs, recovery, crashes>>

\* allow_immediate_ack, not quiet, business: only handlers hand over to the background.
HandsOver(d) == Background /\ d \in Handlers /\ job[d].action = "process_business"

QueuePendingInputBatch(d) ==
  /\ job[d].pc = "decided" /\ HandsOver(d)
  /\ row' = IF SameVersion(d) /\ row.status = "pending"
              THEN [row EXCEPT !.action = "queued", !.result = {}, !.quiet = AckDelay, !.idle = 0]
              ELSE row
  /\ job' = [job EXCEPT ![d] = NoJob]
  /\ UNCHANGED <<runs, recovery, crashes>>

\* Variants the properties must reject: a lease does not protect the run, or a
\* settled batch of the right version is claimed again.
ClaimableAnytime(d) == SameVersion(d) /\ row.status \in {"pending", "processing"}

ClaimableEvenSettled(d) == SameVersion(d) /\ (row.status = "processing" => row.idle >= Lease)

Claimable(d) == /\ SameVersion(d)
                /\ row.status = "pending" \/ (row.status = "processing" /\ row.idle >= Lease)

RunOf(d) == [batch |-> job[d].batch, version |-> job[d].version, fragments |-> job[d].fragments]

\* Business input begins an agent run; small talk is answered without one.
Begun(d) == IF job[d].action \in {"queued", "process_business"} /\ Recoverers # {}
              THEN {RunOf(d)} ELSE {}

ClaimPendingInputBatch(d) ==
  /\ job[d].pc = "decided" /\ ~HandsOver(d)
  /\ IF Claimable(d)
       THEN /\ row' = [row EXCEPT !.status = "processing", !.idle = 0]
            /\ job' = [job EXCEPT ![d].pc = "running"]
            /\ runs' = runs \cup Begun(d)
       ELSE /\ job' = [job EXCEPT ![d] = NoJob]
            /\ UNCHANGED <<row, runs>>
  /\ UNCHANGED <<recovery, crashes>>

\* What a dispatch may end in: an exception fails it; small talk is ignored where
\* replies to it are switched off; an ignored one has no result.
Outcomes(action) == {"failed"} \cup (IF action # "ignore" THEN {"completed"} ELSE {})
                               \cup (IF action \in {"ignore", "process_casual"} THEN {"ignored"} ELSE {})

\* An exception leaves the run unfinished, or comes after its end.
FinishPendingInputBatch(d) ==
  /\ job[d].pc = "running"
  /\ \E st \in Outcomes(job[d].action) :
     /\ \/ runs' = runs \ {RunOf(d)}
        \/ st = "failed" /\ UNCHANGED runs
     /\ row' = IF SameVersion(d)
                THEN [row EXCEPT !.status = st, !.action = job[d].action, !.idle = 0,
                        !.result = IF st = "completed" THEN job[d].fragments ELSE {},
                        !.settled = job[d].fragments]
                ELSE row
  /\ job' = [job EXCEPT ![d] = NoJob]
  /\ UNCHANGED <<recovery, crashes>>

\* The thread's process dies; the row stays as it is.
Crash(d) ==
  /\ crashes < MaxCrashes
  /\ job[d].pc # "idle"
  /\ crashes' = crashes + 1
  /\ job' = [job EXCEPT ![d] = NoJob]
  /\ UNCHANGED <<row, runs, recovery>>

----------------------------------------------------------------------------
(* Recovery of an agent run whose process died, that raised or lost its    *)
(* lease: executed to its end under the conversation's lock, then          *)
(* delivered.  None of this asks for the claim of the batch.               *)

\* deliver_recovered_agent_result compares the batch before it sends.  Other runs
\* leave the batch alone: they are superseded, have no reply, or it is sent apart.
RecoverRun(r, run) ==
  /\ run \in runs /\ recovery[r].run = {}
  /\ \/ /\ row.batch = run.batch /\ row.version = run.version
        /\ recovery' = [recovery EXCEPT ![r] = [run |-> {run}, action |-> row.action,
                                                result |-> row.result]]
        /\ UNCHANGED runs
     \/ /\ runs' = runs \ {run}
        /\ UNCHANGED recovery
  /\ UNCHANGED <<row, job, crashes>>

\* Variant the properties must reject: the version is not compared after the send.
FinishRecoveredAnyVersion(r) ==
  /\ \E run \in recovery[r].run :
       /\ row' = IF row.batch = run.batch
                   THEN [row EXCEPT !.status = "completed", !.action = recovery[r].action, !.idle = 0,
                           !.result = recovery[r].result, !.settled = run.fragments]
                   ELSE row
       /\ runs' = runs \ {run}
  /\ recovery' = [recovery EXCEPT ![r] = NoRecovery]
  /\ UNCHANGED <<job, crashes>>

\* finish_pending_input_batch after the send, with the decision read before it.
FinishRecoveredBatch(r) ==
  /\ \E run \in recovery[r].run :
       /\ row' = IF row.batch = run.batch /\ row.version = run.version
                   THEN [row EXCEPT !.status = "completed", !.action = recovery[r].action, !.idle = 0,
                           !.result = recovery[r].result, !.settled = run.fragments]
                   ELSE row
       /\ runs' = runs \ {run}
  /\ recovery' = [recovery EXCEPT ![r] = NoRecovery]
  /\ UNCHANGED <<job, crashes>>

\* The send fails, or the recovering process dies: the run stays recoverable.
AbandonRecovery(r) ==
  /\ recovery[r].run # {}
  /\ recovery' = [recovery EXCEPT ![r] = NoRecovery]
  /\ UNCHANGED <<row, job, runs, crashes>>

----------------------------------------------------------------------------
Step(d) == \/ RecordPendingInputDecision(d)
           \/ QueuePendingInputBatch(d)
           \/ ClaimPendingInputBatch(d)
           \/ FinishPendingInputBatch(d)

Recover(r) ==
  (\E run \in runs : RecoverRun(r, run)) \/ FinishRecoveredBatch(r) \/ AbandonRecovery(r)

Next == \/ Tick
        \/ \E h \in Handlers, m \in Messages : UpsertPendingInputFragment(h, m)
        \/ \E s \in Schedulers : DuePendingInputBatches(s)
        \/ \E d \in Dispatchers : Step(d) \/ Crash(d)
        \/ \E r \in Recoverers : Recover(r)

Spec == Init /\ [][Next]_vars

\* Time passes, a scheduler thread polls for ever, and every model call and
\* agent run returns or times out.  Customers need not write, nothing need be
\* recovered.
Fairness == /\ WF_vars(Tick)
            /\ \A s \in Schedulers : WF_vars(DuePendingInputBatches(s))
            /\ \A d \in Dispatchers : WF_vars(Step(d))

FairSpec == Spec /\ Fairness

----------------------------------------------------------------------------
(* Properties.                                                             *)

\* A batch is settled by a dispatch that aggregated all its fragments, or with the
\* recovered reply to all of them: one that arrived during the run or the send is
\* never marked as handled with it.
SettledBatchIsComplete == row.status \in Terminal => row.settled = row.fragments

\* Two dispatches run the same version of a batch at a time only if the first had
\* the batch for a whole processing lease.
OneRunPerLease ==
  \A d, e \in Dispatchers :
    /\ d # e /\ job[d].pc = "running" /\ job[e].pc = "running"
    /\ job[d].batch = job[e].batch /\ job[d].version = job[e].version
    => job[d].age >= Lease \/ job[e].age >= Lease

\* A settled batch is not run again: only a new fragment, which opens a new
\* batch, follows it.
SettledBatchStaysSettled ==
  [][row.status \in Terminal /\ row'.status \notin Terminal => row'.batch # row.batch]_row

\* Input that waits, for a pause or for its background dispatch, is settled in
\* the end, whatever the gate answers and whoever else dispatches it, as long as
\* no thread dies.
WaitingInputIsSettled ==
  row.status = "pending" /\ crashes = 0 ~> row.status \in Terminal \/ crashes > 0

\* "after a restart of the process the scheduler goes on claiming": a batch whose
\* run died is taken up again when its processing lease is over.
AbandonedBatchIsReclaimed == row.status = "processing" ~> row.status # "processing"

\* The result of a settled batch stays readable for the poll of its page.
AgentResultIsKept ==
  [][row.result # {} /\ row'.batch = row.batch /\ row'.version = row.version
       => row'.result = row.result]_row
===============================================================================
