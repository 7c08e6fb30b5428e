-------------------------- MODULE PendingInput_proofs --------------------------
(***************************************************************************)
(* The row of aggregated input for any number of messages, handlers and     *)
(* scheduler threads, and any lease, pause and delay.                       *)
(***************************************************************************)
EXTENDS PendingInput, TLAPS

LEMMA TypeInit == Init => TypeOK
<1> SUFFICES ASSUME Init PROVE TypeOK
  OBVIOUS
<1> USE BatchAssumption
<1>1. row \in Row
  BY DEF Init, Row, Statuses, Actions
<1>2. NoJob \in Job
  BY DEF NoJob, Job, Actions
<1>3. NoRecovery \in Recovery
  BY DEF NoRecovery, Recovery, Actions
<1> QED BY <1>1, <1>2, <1>3 DEF Init, TypeOK

\* The thread's job as a dispatch of the row begins.
LEMMA DispatchType ==
  ASSUME TypeOK, NEW d \in Dispatchers, NEW read \in Row, NEW elapsed \in BOOLEAN,
         Dispatch(d, read, elapsed)
  PROVE  /\ job' \in [Dispatchers -> Job]
         /\ \A e \in Dispatchers \ {d} : job'[e] = job[e]
         /\ job'[d].pc = "gate" /\ job'[d].batch = read.batch /\ job'[d].version = read.version
         /\ job'[d].fragments = read.fragments /\ job'[d].age = 0
<1> USE BatchAssumption
<1>1. PICK action \in Actions :
        job' = [job EXCEPT ![d] = [NoJob EXCEPT !.pc = "gate", !.batch = read.batch,
                                     !.version = read.version, !.fragments = read.fragments,
                                     !.elapsed = elapsed, !.action = action]]
  BY DEF Dispatch, Actions
<1> DEFINE new == [NoJob EXCEPT !.pc = "gate", !.batch = read.batch,
                                !.version = read.version, !.fragments = read.fragments,
                                !.elapsed = elapsed, !.action = action]
<1>2. /\ new.pc = "gate" /\ new.batch = read.batch /\ new.version = read.version
      /\ new.fragments = read.fragments /\ new.age = 0
  BY DEF NoJob
<1>3. new \in Job
  <2>1. /\ read.batch \in 0..MaxBatches /\ read.version \in 0..MaxVersion
        /\ read.fragments \in SUBSET Messages /\ 0 \in 0..Lease
    BY DEF Row
  <2> QED BY <2>1 DEF NoJob, Job
<1>4. job' = [job EXCEPT ![d] = new]
  BY <1>1
<1> HIDE DEF new
<1> QED BY <1>2, <1>3, <1>4 DEF TypeOK

\* What a step of a dispatch makes of its job: it ends or goes on with the same
\* fragments.
GoesOn(d) ==
  /\ job' \in [Dispatchers -> Job]
  /\ \A e \in Dispatchers \ {d} : job'[e] = job[e]
  /\ \/ job'[d] = NoJob
     \/ /\ job'[d].batch = job[d].batch /\ job'[d].version = job[d].version
        /\ job'[d].fragments = job[d].fragments /\ job'[d].age = job[d].age
        /\ job[d].pc # "idle" /\ job'[d].pc \in {"gate", "decided", "running"}

LEMMA GoesOnType ==
  ASSUME TypeOK, NEW d \in Dispatchers, NEW new \in Job, job' = [job EXCEPT ![d] = new],
         \/ new = NoJob
         \/ /\ new.batch = job[d].batch /\ new.version = job[d].version
            /\ new.fragments = job[d].fragments /\ new.age = job[d].age
            /\ job[d].pc # "idle" /\ new.pc \in {"gate", "decided", "running"}
  PROVE  GoesOn(d)
BY DEF TypeOK, GoesOn

LEMMA JobFields ==
  ASSUME TypeOK, NEW d \in Dispatchers
  PROVE  /\ job[d] \in Job /\ NoJob \in Job /\ NoJob.pc = "idle" /\ NoJob.age = 0
         /\ [job[d] EXCEPT !.pc = "running"] \in Job
         /\ \A action \in Actions : [job[d] EXCEPT !.pc = "decided", !.action = action] \in Job
<1>1. job[d] \in Job
  BY DEF TypeOK
<1>2. NoJob \in Job /\ NoJob.pc = "idle" /\ NoJob.age = 0
  BY BatchAssumption DEF NoJob, Job, Actions
<1> QED BY <1>1, <1>2 DEF Job

----------------------------------------------------------------------------
(* What each step does to the row.                                         *)

\* A fragment opens a batch or adds to the one that is not settled.
Receives ==
  /\ row' \in Row
  /\ row'.status = "pending"
  /\ \/ row.status \in Terminal \cup {"absent"} /\ row'.batch = row.batch + 1
     \/ /\ row.status \notin Terminal /\ row'.batch = row.batch
        /\ row'.version = row.version + 1

\* The version and its fragments stay; a row that is processed may be young again.
KeepsVersion ==
  /\ row' \in Row
  /\ row'.batch = row.batch /\ row'.version = row.version /\ row'.fragments = row.fragments

Touches ==
  /\ KeepsVersion
  /\ row'.status = row.status /\ row'.settled = row.settled
  /\ row'.idle = row.idle \/ row'.idle = 0

LEMMA TickStep ==
  ASSUME TypeOK, Tick
  PROVE  /\ KeepsVersion /\ row'.status = row.status /\ row'.settled = row.settled
         /\ row'.idle = Older(row.idle)
         /\ job' \in [Dispatchers -> Job]
         /\ \A d \in Dispatchers :
              /\ job'[d].pc = job[d].pc /\ job'[d].batch = job[d].batch
              /\ job'[d].version = job[d].version /\ job'[d].fragments = job[d].fragments
              /\ job'[d].age = IF job[d].pc = "running" THEN Older(job[d].age) ELSE job[d].age
<1> USE BatchAssumption
<1>1. \A age \in 0..Lease : Older(age) \in 0..Lease
  BY DEF Older
<1>2. row \in Row /\ job \in [Dispatchers -> Job]
  BY DEF TypeOK
<1>3. row' = [row EXCEPT !.quiet = IF row.quiet > 0 THEN row.quiet - 1 ELSE 0, !.idle = Older(row.idle)]
  BY DEF Tick
<1>4. row' \in Row
  <2> DEFINE quiet == IF row.quiet > 0 THEN row.quiet - 1 ELSE 0
             idle == Older(row.idle)
  <2>1. row.quiet \in 0..(Quiet + AckDelay) /\ row.idle \in 0..Lease
    BY <1>2 DEF Row
  <2>2. quiet \in 0..(Quiet + AckDelay) /\ idle \in 0..Lease
    BY <1>1, <2>1
  <2>3. row' = [row EXCEPT !.quiet = quiet, !.idle = idle]
    BY <1>3
  <2> HIDE DEF quiet, idle
  <2> QED BY <1>2, <2>2, <2>3 DEF Row
<1>5. /\ row'.batch = row.batch /\ row'.version = row.version /\ row'.fragments = row.fragments
      /\ row'.status = row.status /\ row'.settled = row.settled /\ row'.idle = Older(row.idle)
  BY <1>2, <1>3 DEF Row
<1>6. ASSUME NEW d \in Dispatchers
      PROVE  /\ job'[d] \in Job
             /\ job'[d].pc = job[d].pc /\ job'[d].batch = job[d].batch
             /\ job'[d].version = job[d].version /\ job'[d].fragments = job[d].fragments
             /\ job'[d].age = IF job[d].pc = "running" THEN Older(job[d].age) ELSE job[d].age
  <2>1. job'[d] = IF job[d].pc = "running" THEN [job[d] EXCEPT !.age = Older(job[d].age)] ELSE job[d]
    BY DEF Tick
  <2>2. job[d] \in Job
    BY <1>2
  <2> QED BY <1>1, <2>1, <2>2 DEF Job
<1>7. job' \in [Dispatchers -> Job]
  BY <1>6 DEF Tick
<1> QED BY <1>4, <1>5, <1>6, <1>7 DEF KeepsVersion

LEMMA UpsertStep ==
  ASSUME TypeOK, NEW h \in Handlers, NEW m \in Messages, UpsertPendingInputFragment(h, m)
  PROVE  Receives /\ Dispatch(h, row', FALSE)
<1> USE BatchAssumption
<1>1. row \in Row
  BY DEF TypeOK
<1>2. CASE row.status \in Terminal \cup {"absent"}
  <2>1. /\ row.batch < MaxBatches
        /\ row' = [batch |-> row.batch + 1, version |-> 1, status |-> "pending",
                   fragments |-> {m}, quiet |-> Quiet, idle |-> 0, action |-> "none",
                   result |-> {}, settled |-> {}]
    BY <1>2 DEF UpsertPendingInputFragment
  <2>2. /\ row.batch + 1 \in 0..MaxBatches /\ 1 \in 0..MaxVersion
        /\ Quiet \in 0..(Quiet + AckDelay) /\ 0 \in 0..Lease
        /\ "pending" \in Statuses /\ "none" \in Actions
    BY <1>1, <2>1 DEF Row, Statuses, Actions
  <2>3. row' \in Row
    BY <2>1, <2>2 DEF Row
  <2> QED BY <1>2, <2>1, <2>3 DEF UpsertPendingInputFragment, Receives
<1>3. CASE row.status \notin Terminal \cup {"absent"}
  <2>1. /\ row.version < MaxVersion
        /\ row' = [row EXCEPT !.version = row.version + 1, !.status = "pending",
                     !.fragments = row.fragments \cup {m}, !.quiet = Quiet, !.idle = 0,
                     !.action = "none", !.result = {}]
    BY <1>3 DEF UpsertPendingInputFragment
  <2>2. row' \in Row
    <3>1. /\ row.version + 1 \in 0..MaxVersion
          /\ Quiet \in 0..(Quiet + AckDelay) /\ 0 \in 0..Lease
          /\ "pending" \in Statuses /\ "none" \in Actions
      BY <1>1, <2>1 DEF Row, Statuses, Actions
    <3>2. row.fragments \cup {m} \in SUBSET Messages
      BY <1>1 DEF Row
    <3> QED BY <1>1, <2>1, <3>1, <3>2 DEF Row
  <2> QED BY <1>1, <1>3, <2>1, <2>2 DEF UpsertPendingInputFragment, Receives, Row
<1> QED BY <1>2, <1>3


LEMMA DispatcherStep ==
  ASSUME TypeOK, NEW d \in Dispatchers, Step(d) \/ Crash(d)
  PROVE  /\ GoesOn(d)
         /\ \/ /\ Touches /\ job'[d].pc # "running"
               /\ job'[d] = NoJob \/ job[d].pc # "running"
            \/ /\ Claimable(d) /\ KeepsVersion
               /\ row'.status = "processing" /\ row'.idle = 0
               /\ job[d].pc # "running" /\ job'[d].pc = "running"
            \/ /\ SameVersion(d) /\ KeepsVersion /\ job[d].pc = "running" /\ job'[d].pc = "idle"
               /\ row'.status \in Terminal /\ row'.settled = job[d].fragments
<1> USE BatchAssumption
<1>0. row \in Row /\ job \in [Dispatchers -> Job] /\ job[d] \in Job
  BY DEF TypeOK
<1>1. CASE RecordPendingInputDecision(d)
  <2>1. PICK action \in Gate(d) :
          /\ row' = IF SameVersion(d) THEN [row EXCEPT !.action = action, !.result = {}, !.idle = 0] ELSE row
          /\ job' = [job EXCEPT ![d] = IF action = "wait_for_more_input" THEN NoJob
                                       ELSE [job[d] EXCEPT !.pc = "decided", !.action = action]]
    BY <1>1 DEF RecordPendingInputDecision
  <2>2. action \in Actions
    BY DEF Gate, Actions
  <2>3. Touches
    <3>1. row' \in Row
      <4>1. 0 \in 0..Lease
        OBVIOUS
      <4> QED BY <1>0, <2>1, <2>2, <4>1 DEF Row
    <3> QED BY <1>0, <2>1, <3>1 DEF Touches, KeepsVersion, Row
  <2>4. GoesOn(d) /\ job'[d].pc # "running" /\ job[d].pc # "running"
    <3> DEFINE new == IF action = "wait_for_more_input" THEN NoJob
                      ELSE [job[d] EXCEPT !.pc = "decided", !.action = action]
    <3>1. new \in Job
      BY <2>2, JobFields
    <3>2. new = NoJob \/ /\ new.batch = job[d].batch /\ new.version = job[d].version
                         /\ new.fragments = job[d].fragments /\ new.age = job[d].age
                         /\ new.pc = "decided"
      BY <1>0 DEF Job
    <3>3. job[d].pc # "idle" /\ job' = [job EXCEPT ![d] = new] /\ NoJob.pc # "running"
      BY <1>1, <2>1 DEF RecordPendingInputDecision, NoJob
    <3> HIDE DEF new
    <3>4. GoesOn(d)
      BY <3>1, <3>2, <3>3, GoesOnType
    <3> QED BY <1>0, <1>1, <3>2, <3>3, <3>4 DEF RecordPendingInputDecision
  <2> QED BY <2>3, <2>4
<1>2. CASE QueuePendingInputBatch(d)
  <2>1. GoesOn(d) /\ job'[d].pc # "running" /\ job[d].pc # "running"
    BY <1>0, <1>2, JobFields, GoesOnType DEF QueuePendingInputBatch
  <2>2. row' \in Row
    <3>1. AckDelay \in 0..(Quiet + AckDelay) /\ 0 \in 0..Lease /\ "queued" \in Actions
      BY DEF Actions
    <3> QED BY <1>0, <1>2, <3>1 DEF QueuePendingInputBatch, Row
  <2>3. Touches
    BY <1>0, <1>2, <2>2 DEF QueuePendingInputBatch, Touches, KeepsVersion, Row
  <2> QED BY <2>1, <2>3
<1>3. CASE ClaimPendingInputBatch(d)
  <2>1. CASE Claimable(d)
    <3>1. row' = [row EXCEPT !.status = "processing", !.idle = 0] /\ job' = [job EXCEPT ![d].pc = "running"]
      BY <1>3, <2>1 DEF ClaimPendingInputBatch
    <3>2. row' \in Row
      <4>1. 0 \in 0..Lease /\ "processing" \in Statuses
        BY DEF Statuses
      <4> QED BY <1>0, <3>1, <4>1 DEF Row
    <3>3. KeepsVersion /\ row'.status = "processing" /\ row'.idle = 0
      BY <1>0, <3>1, <3>2 DEF KeepsVersion, Row
    <3> DEFINE new == [job[d] EXCEPT !.pc = "running"]
    <3>4. new \in Job /\ job[d].pc = "decided" /\ job' = [job EXCEPT ![d] = new]
      BY <1>0, <1>3, <3>1, JobFields DEF ClaimPendingInputBatch
    <3>5. /\ new.batch = job[d].batch /\ new.version = job[d].version
          /\ new.fragments = job[d].fragments /\ new.age = job[d].age /\ new.pc = "running"
      BY <1>0 DEF Job
    <3> HIDE DEF new
    <3>6. GoesOn(d) /\ job'[d].pc = "running"
      BY <1>0, <3>4, <3>5, GoesOnType
    <3> QED BY <2>1, <3>3, <3>4, <3>6
  <2>2. CASE ~Claimable(d)
    <3>1. UNCHANGED row /\ job' = [job EXCEPT ![d] = NoJob]
      BY <1>3, <2>2 DEF ClaimPendingInputBatch
    <3> QED BY <1>0, <3>1, JobFields, GoesOnType DEF Touches, KeepsVersion
  <2> QED BY <2>1, <2>2
<1>4. CASE FinishPendingInputBatch(d)
  <2>1. PICK st \in Outcomes(job[d].action) :
          row' = IF SameVersion(d)
                   THEN [row EXCEPT !.status = st, !.action = job[d].action, !.idle = 0,
                           !.result = IF st = "completed" THEN job[d].fragments ELSE {},
                           !.settled = job[d].fragments]
                   ELSE row
    BY <1>4 DEF FinishPendingInputBatch
  <2>2. st \in Terminal
    BY DEF Outcomes, Terminal
  <2>3. job[d].pc = "running" /\ job' = [job EXCEPT ![d] = NoJob]
    BY <1>4 DEF FinishPendingInputBatch
  <2>4. GoesOn(d) /\ job'[d].pc = "idle"
    BY <1>0, <2>3, JobFields, GoesOnType
  <2>5. CASE SameVersion(d)
    <3> DEFINE result == IF st = "completed" THEN job[d].fragments ELSE {}
    <3>1. row' = [row EXCEPT !.status = st, !.action = job[d].action, !.idle = 0,
                    !.result = result, !.settled = job[d].fragments]
      BY <2>1, <2>5
    <3>2. /\ st \in Statuses /\ job[d].action \in Actions /\ 0 \in 0..Lease
          /\ result \in SUBSET Messages /\ job[d].fragments \in SUBSET Messages
      BY <1>0, <2>2 DEF Statuses, Job
    <3> HIDE DEF result
    <3>3. row' \in Row
      BY <1>0, <3>1, <3>2 DEF Row
    <3>4. KeepsVersion /\ row'.status \in Terminal /\ row'.settled = job[d].fragments
      BY <1>0, <2>2, <3>1, <3>3 DEF KeepsVersion, Row
    <3> QED BY <2>3, <2>4, <2>5, <3>4
  <2>6. CASE ~SameVersion(d)
    <3>1. job'[d] = NoJob
      BY <1>0, <2>3
    <3> QED BY <1>0, <2>1, <2>4, <2>6, <3>1 DEF Touches, KeepsVersion
  <2> QED BY <2>5, <2>6
<1>5. CASE Crash(d)
  <2>1. UNCHANGED row /\ job' = [job EXCEPT ![d] = NoJob]
    BY <1>5 DEF Crash
  <2> QED BY <1>0, <2>1, JobFields, GoesOnType DEF Touches, KeepsVersion
<1> QED BY <1>1, <1>2, <1>3, <1>4, <1>5 DEF Step

\* A dispatch adds its own run at most, when it claims the batch.
LEMMA RunsStep ==
  ASSUME TypeOK, NEW d \in Dispatchers, Step(d) \/ Crash(d)
  PROVE  /\ recovery' = recovery /\ RunOf(d) \in Run
         /\ runs' \subseteq runs \/ (job[d].pc = "decided" /\ runs' \subseteq runs \cup {RunOf(d)})
<1>1. RunOf(d) \in Run
  BY JobFields DEF RunOf, Run, Job
<1>2. CASE RecordPendingInputDecision(d) \/ QueuePendingInputBatch(d) \/ Crash(d)
  BY <1>1, <1>2 DEF RecordPendingInputDecision, QueuePendingInputBatch, Crash
<1>3. CASE ClaimPendingInputBatch(d)
  <2>1. Begun(d) \subseteq {RunOf(d)}
    BY DEF Begun
  <2>2. job[d].pc = "decided" /\ recovery' = recovery
        /\ (runs' = runs \/ runs' = runs \cup Begun(d))
    BY <1>3 DEF ClaimPendingInputBatch
  <2> QED BY <1>1, <2>1, <2>2
<1>4. CASE FinishPendingInputBatch(d)
  BY <1>1, <1>4 DEF FinishPendingInputBatch
<1> QED BY <1>2, <1>3, <1>4 DEF Step

\* A recovery delivers a run that was unfinished, and settles the batch at most when
\* it still is the run's.
LEMMA RecoveryStep ==
  ASSUME TypeOK, NEW r \in Recoverers, Recover(r)
  PROVE  /\ UNCHANGED <<job, crashes>> /\ runs' \subseteq runs
         /\ recovery' \in [Recoverers -> Recovery]
         /\ \A e \in Recoverers : recovery'[e].run \subseteq recovery[e].run \cup runs
         /\ \/ UNCHANGED row
            \/ \E run \in recovery[r].run :
                 /\ row.batch = run.batch /\ row.version = run.version /\ KeepsVersion
                 /\ row'.status = "completed" /\ row'.settled = run.fragments
<1> USE BatchAssumption
<1>0. /\ row \in Row /\ runs \subseteq Run /\ recovery \in [Recoverers -> Recovery]
      /\ NoRecovery \in Recovery /\ NoRecovery.run = {}
  BY DEF TypeOK, NoRecovery, Recovery, Actions
<1>1. ASSUME NEW run \in runs, RecoverRun(r, run)
      PROVE  /\ UNCHANGED <<row, job, crashes>> /\ runs' \subseteq runs
             /\ recovery' \in [Recoverers -> Recovery]
             /\ \A e \in Recoverers : recovery'[e].run \subseteq recovery[e].run \cup runs
  <2>1. CASE recovery' = [recovery EXCEPT ![r] = [run |-> {run}, action |-> row.action,
                                                  result |-> row.result]]
             /\ UNCHANGED runs
    <3> DEFINE new == [run |-> {run}, action |-> row.action, result |-> row.result]
    <3>1. new \in Recovery /\ new.run = {run}
      BY <1>0 DEF Recovery, Row
    <3>2. recovery' = [recovery EXCEPT ![r] = new]
      BY <2>1
    <3> HIDE DEF new
    <3> QED BY <1>0, <1>1, <2>1, <3>1, <3>2 DEF RecoverRun
  <2>2. CASE runs' = runs \ {run} /\ UNCHANGED recovery
    BY <1>0, <1>1, <2>2 DEF RecoverRun
  <2> QED BY <1>1, <2>1, <2>2 DEF RecoverRun
<1>2. CASE FinishRecoveredBatch(r)
  <2>1. PICK run \in recovery[r].run :
          /\ row' = IF row.batch = run.batch /\ row.version = run.version
                      THEN [row EXCEPT !.status = "completed", !.action = recovery[r].action, !.idle = 0,
                              !.result = recovery[r].result, !.settled = run.fragments]
                      ELSE row
          /\ runs' = runs \ {run}
    BY <1>2 DEF FinishRecoveredBatch
  <2>2. /\ run \in Run /\ recovery[r].action \in Actions /\ recovery[r].result \in SUBSET Messages
    <3>1. recovery[r] \in Recovery
      BY <1>0
    <3> QED BY <2>1, <3>1 DEF Recovery
  <2>3. recovery' = [recovery EXCEPT ![r] = NoRecovery] /\ UNCHANGED <<job, crashes>>
    BY <1>2 DEF FinishRecoveredBatch
  <2>4. CASE row.batch = run.batch /\ row.version = run.version
    <3>1. row' = [row EXCEPT !.status = "completed", !.action = recovery[r].action, !.idle = 0,
                    !.result = recovery[r].result, !.settled = run.fragments]
      BY <2>1, <2>4
    <3>2. "completed" \in Statuses /\ 0 \in 0..Lease /\ run.fragments \in SUBSET Messages
      BY <2>2 DEF Statuses, Terminal, Run
    <3>3. row' \in Row
      BY <1>0, <2>2, <3>1, <3>2 DEF Row
    <3>4. KeepsVersion /\ row'.status = "completed" /\ row'.settled = run.fragments
      BY <1>0, <3>1, <3>3 DEF KeepsVersion, Row
    <3> QED BY <1>0, <2>1, <2>3, <2>4, <3>4
  <2>5. CASE ~(row.batch = run.batch /\ row.version = run.version)
    BY <1>0, <2>1, <2>3, <2>5
  <2> QED BY <2>4, <2>5
<1>3. CASE AbandonRecovery(r)
  BY <1>0, <1>3 DEF AbandonRecovery
<1> QED BY <1>1, <1>2, <1>3 DEF Recover

LEMMA TypeStep == TypeOK /\ [Next]_vars => TypeOK'
<1> SUFFICES ASSUME TypeOK, [Next]_vars PROVE TypeOK'
  OBVIOUS
<1> USE BatchAssumption
<1>1. CASE Tick
  BY <1>1, TickStep DEF Tick, KeepsVersion, TypeOK
<1>2. ASSUME NEW h \in Handlers, NEW m \in Messages, UpsertPendingInputFragment(h, m) PROVE TypeOK'
  <2>1. h \in Dispatchers /\ FALSE \in BOOLEAN
    BY DEF Dispatchers
  <2>2. row' \in Row /\ Dispatch(h, row', FALSE)
    BY <1>2, UpsertStep DEF Receives
  <2>3. job' \in [Dispatchers -> Job]
    BY <2>1, <2>2, DispatchType
  <2>4. runs' = {} /\ UNCHANGED <<recovery, crashes>>
    BY <1>2 DEF UpsertPendingInputFragment
  <2> QED BY <2>2, <2>3, <2>4 DEF TypeOK
<1>3. ASSUME NEW s \in Schedulers, DuePendingInputBatches(s) PROVE TypeOK'
  <2>1. s \in Dispatchers /\ row \in Row /\ (row.action # "queued") \in BOOLEAN
    BY DEF Dispatchers, TypeOK
  <2>2. job' \in [Dispatchers -> Job]
    BY <1>3, <2>1, DispatchType DEF DuePendingInputBatches
  <2> QED BY <1>3, <2>2 DEF DuePendingInputBatches, TypeOK
<1>4. ASSUME NEW d \in Dispatchers, Step(d) \/ Crash(d) PROVE TypeOK'
  <2>1. row' \in Row /\ job' \in [Dispatchers -> Job]
    BY <1>4, DispatcherStep DEF GoesOn, Touches, KeepsVersion
  <2>2. crashes' \in 0..MaxCrashes
    <3>1. Step(d) => UNCHANGED crashes
      BY DEF Step, RecordPendingInputDecision, QueuePendingInputBatch, ClaimPendingInputBatch,
             FinishPendingInputBatch
    <3>2. Crash(d) => crashes < MaxCrashes /\ crashes' = crashes + 1
      BY DEF Crash
    <3> QED BY <1>4, <3>1, <3>2 DEF TypeOK
  <2>3. runs' \subseteq Run /\ recovery' \in [Recoverers -> Recovery]
    BY <1>4, RunsStep DEF TypeOK
  <2> QED BY <2>1, <2>2, <2>3 DEF TypeOK
<1>5. ASSUME NEW r \in Recoverers, Recover(r) PROVE TypeOK'
  <2>1. /\ UNCHANGED <<job, crashes>> /\ runs' \subseteq runs
        /\ recovery' \in [Recoverers -> Recovery] /\ row' \in Row
    BY <1>5, RecoveryStep DEF KeepsVersion, TypeOK
  <2> QED BY <2>1 DEF TypeOK
<1>6. CASE UNCHANGED vars
  BY <1>6 DEF vars, TypeOK
<1> QED BY <1>1, <1>2, <1>3, <1>4, <1>5, <1>6 DEF Next


----------------------------------------------------------------------------
(* What a dispatch knows of the row.                                       *)

\* A job was read from this batch or an older one; one of the current version has
\* the fragments of the row.
ReadFromRow(d) ==
  job[d].pc # "idle" =>
    /\ job[d].batch <= row.batch
    /\ job[d].batch = row.batch => job[d].version <= row.version
    /\ SameVersion(d) => job[d].fragments = row.fragments

\* A run of the current version has the row: it is not pending, and it has not been
\* processed for longer than the run is old.
HasRow(d) ==
  /\ job[d].pc # "running" => job[d].age = 0
  /\ job[d].pc = "running" /\ SameVersion(d) =>
       row.status # "pending" /\ (row.status = "processing" => row.idle <= job[d].age)

JobInv == \A d \in Dispatchers : ReadFromRow(d) /\ HasRow(d)

BatchInv == TypeOK /\ JobInv /\ SettledBatchIsComplete /\ OneRunPerLease

LEMMA Numbers ==
  ASSUME TypeOK
  PROVE  /\ row.batch \in Nat /\ row.version \in Nat /\ row.idle \in 0..Lease
         /\ \A d \in Dispatchers : job[d].batch \in Nat /\ job[d].version \in Nat /\ job[d].age \in 0..Lease
BY BatchAssumption DEF TypeOK, Row, Job

\* A row that is received again leaves the jobs of its older versions behind.
LEMMA ReceivesKeeps ==
  ASSUME BatchInv, TypeOK', NEW h \in Dispatchers, Receives, NEW elapsed \in BOOLEAN,
         Dispatch(h, row', elapsed)
  PROVE  BatchInv'
<1> USE BatchAssumption
<1>0. TypeOK /\ JobInv /\ OneRunPerLease /\ row' \in Row
  BY DEF BatchInv, Receives
<1>1. /\ \A e \in Dispatchers \ {h} : job'[e] = job[e]
      /\ job'[h].pc = "gate" /\ job'[h].batch = row'.batch /\ job'[h].version = row'.version
      /\ job'[h].fragments = row'.fragments /\ job'[h].age = 0
  BY <1>0, DispatchType
<1>2. row'.batch \in Nat /\ row'.version \in Nat
  BY <1>0 DEF Row
<1>3. ASSUME NEW e \in Dispatchers, e # h PROVE ReadFromRow(e)' /\ HasRow(e)'
  <2>1. job[e].pc # "idle" => /\ job[e].batch <= row.batch
                              /\ job[e].batch = row.batch => job[e].version <= row.version
    BY <1>0 DEF JobInv, ReadFromRow
  <2>2. job[e].pc # "idle" => /\ job[e].batch <= row'.batch
                              /\ job[e].batch = row'.batch => job[e].version < row'.version
    BY <1>0, <1>2, <2>1, Numbers DEF Receives
  <2>3. job[e].pc # "idle" => ~(row'.batch = job[e].batch /\ row'.version = job[e].version)
    BY <1>0, <1>2, <2>2, Numbers
  <2>4. ReadFromRow(e)'
    BY <1>0, <1>1, <1>2, <1>3, <2>2, <2>3, Numbers DEF ReadFromRow, SameVersion
  <2>5. HasRow(e)'
    BY <1>0, <1>1, <1>3, <2>3 DEF JobInv, HasRow, SameVersion
  <2> QED BY <2>4, <2>5
<1>4. ReadFromRow(h)' /\ HasRow(h)'
  BY <1>1, <1>2 DEF ReadFromRow, HasRow
<1>5. SettledBatchIsComplete'
  BY DEF Receives, SettledBatchIsComplete, Terminal
<1>6. OneRunPerLease'
  BY <1>0, <1>1 DEF OneRunPerLease
<1> QED BY <1>3, <1>4, <1>5, <1>6 DEF BatchInv, JobInv

LEMMA DispatchKeeps ==
  ASSUME BatchInv, TypeOK', NEW s \in Dispatchers, UNCHANGED row, NEW elapsed \in BOOLEAN,
         Dispatch(s, row, elapsed)
  PROVE  BatchInv'
<1>0. TypeOK /\ JobInv /\ OneRunPerLease /\ row \in Row
  BY DEF BatchInv, TypeOK
<1>1. /\ \A e \in Dispatchers \ {s} : job'[e] = job[e]
      /\ job'[s].pc = "gate" /\ job'[s].batch = row.batch /\ job'[s].version = row.version
      /\ job'[s].fragments = row.fragments /\ job'[s].age = 0
  BY <1>0, DispatchType
<1>2. JobInv'
  <2>1. ASSUME NEW e \in Dispatchers, e # s PROVE ReadFromRow(e)' /\ HasRow(e)'
    BY <1>0, <1>1, <2>1 DEF JobInv, ReadFromRow, HasRow, SameVersion
  <2>2. ReadFromRow(s)' /\ HasRow(s)'
    BY <1>0, <1>1, Numbers DEF ReadFromRow, HasRow
  <2> QED BY <2>1, <2>2 DEF JobInv
<1>3. OneRunPerLease' /\ SettledBatchIsComplete'
  BY <1>0, <1>1 DEF OneRunPerLease, BatchInv, SettledBatchIsComplete
<1> QED BY <1>2, <1>3 DEF BatchInv

LEMMA TickKeeps ==
  ASSUME BatchInv, TypeOK', Tick
  PROVE  BatchInv'
<1> USE BatchAssumption
<1>0. TypeOK /\ JobInv /\ OneRunPerLease /\ SettledBatchIsComplete
  BY DEF BatchInv
<1>1. /\ KeepsVersion /\ row'.status = row.status /\ row'.settled = row.settled
      /\ row'.idle = Older(row.idle)
      /\ \A d \in Dispatchers :
           /\ job'[d].pc = job[d].pc /\ job'[d].batch = job[d].batch
           /\ job'[d].version = job[d].version /\ job'[d].fragments = job[d].fragments
           /\ job'[d].age = IF job[d].pc = "running" THEN Older(job[d].age) ELSE job[d].age
  BY <1>0, TickStep
<1>2. ASSUME NEW x \in 0..Lease, NEW y \in 0..Lease
      PROVE  (x <= y => Older(x) <= Older(y)) /\ (x >= Lease => Older(x) >= Lease)
  BY DEF Older
<1>3. JobInv'
  BY <1>0, <1>1, <1>2, Numbers DEF JobInv, ReadFromRow, HasRow, SameVersion, KeepsVersion
<1>4. OneRunPerLease'
  BY <1>0, <1>1, <1>2, Numbers DEF OneRunPerLease
<1>5. SettledBatchIsComplete'
  BY <1>0, <1>1 DEF SettledBatchIsComplete, KeepsVersion
<1> QED BY <1>3, <1>4, <1>5 DEF BatchInv

LEMMA DispatcherKeeps ==
  ASSUME BatchInv, TypeOK', NEW d \in Dispatchers, Step(d) \/ Crash(d)
  PROVE  BatchInv'
<1> USE BatchAssumption
<1>0. TypeOK /\ JobInv /\ OneRunPerLease /\ SettledBatchIsComplete
  BY DEF BatchInv
<1>1. GoesOn(d) /\ KeepsVersion
  BY <1>0, DispatcherStep DEF Touches
<1>2. \A e \in Dispatchers : job'[e].pc # "idle" =>
        /\ job[e].pc # "idle" /\ job'[e].batch = job[e].batch /\ job'[e].version = job[e].version
        /\ job'[e].fragments = job[e].fragments /\ job'[e].age = job[e].age
  BY <1>1 DEF GoesOn, NoJob
<1>3. \A e \in Dispatchers : ReadFromRow(e)'
  BY <1>0, <1>1, <1>2 DEF JobInv, ReadFromRow, SameVersion, KeepsVersion
<1>4. \A e \in Dispatchers : job'[e].pc # "running" => job'[e].age = 0
  <2>1. job'[d].pc # "running" => job'[d].age = 0
    BY <1>0, <1>1, DispatcherStep DEF GoesOn, NoJob, JobInv, HasRow
  <2> QED BY <1>0, <1>1, <2>1 DEF GoesOn, JobInv, HasRow
<1>5. CASE Touches /\ job'[d].pc # "running"
  <2>1. \A e \in Dispatchers : job'[e].pc = "running" => job[e].pc = "running" /\ job'[e] = job[e]
    BY <1>1, <1>5 DEF GoesOn
  <2>2. JobInv'
    BY <1>0, <1>3, <1>4, <1>5, <2>1, Numbers DEF JobInv, HasRow, SameVersion, Touches, KeepsVersion
  <2>3. OneRunPerLease'
    BY <1>0, <2>1 DEF OneRunPerLease
  <2>4. SettledBatchIsComplete'
    BY <1>0, <1>5 DEF SettledBatchIsComplete, Touches, KeepsVersion
  <2> QED BY <2>2, <2>3, <2>4 DEF BatchInv
<1>6. CASE /\ Claimable(d) /\ row'.status = "processing" /\ row'.idle = 0
           /\ job[d].pc # "running" /\ job'[d].pc = "running"
  <2>1. \A e \in Dispatchers \ {d} : job'[e] = job[e]
    BY <1>1 DEF GoesOn
  <2>2. \A e \in Dispatchers : job'[e].age \in 0..Lease
    BY Numbers DEF TypeOK, Job
  <2>3. JobInv'
    BY <1>3, <1>4, <1>6, <2>2 DEF JobInv, HasRow
  <2>4. ASSUME NEW e \in Dispatchers \ {d}, job'[e].pc = "running", job'[e].batch = job'[d].batch,
               job'[e].version = job'[d].version
        PROVE  job'[e].age >= Lease
    <3>1. job[e].pc = "running" /\ SameVersion(e)
      BY <1>2, <1>6, <2>1, <2>4 DEF Claimable, SameVersion
    <3>2. row.status = "processing" /\ row.idle >= Lease /\ row.idle <= job[e].age
      BY <1>0, <1>6, <3>1 DEF JobInv, HasRow, Claimable
    <3> QED BY <1>0, <2>1, <3>2, Numbers
  <2>5. OneRunPerLease'
    BY <1>0, <2>1, <2>4 DEF OneRunPerLease
  <2>6. SettledBatchIsComplete'
    BY <1>6 DEF SettledBatchIsComplete, Terminal
  <2> QED BY <2>3, <2>5, <2>6 DEF BatchInv
<1>7. CASE /\ SameVersion(d) /\ job[d].pc = "running" /\ job'[d].pc = "idle"
           /\ row'.status \in Terminal /\ row'.settled = job[d].fragments
  <2>1. row'.status \notin {"pending", "processing"}
    BY <1>7 DEF Terminal
  <2>2. JobInv'
    BY <1>3, <1>4, <2>1 DEF JobInv, HasRow
  <2>3. \A e \in Dispatchers : job'[e].pc = "running" => job[e].pc = "running" /\ job'[e] = job[e]
    BY <1>1, <1>7 DEF GoesOn
  <2>4. OneRunPerLease'
    BY <1>0, <2>3 DEF OneRunPerLease
  <2>5. SettledBatchIsComplete'
    BY <1>0, <1>1, <1>7 DEF SettledBatchIsComplete, JobInv, ReadFromRow, KeepsVersion
  <2> QED BY <2>2, <2>4, <2>5 DEF BatchInv
<1> QED BY <1>0, <1>5, <1>6, <1>7, DispatcherStep

----------------------------------------------------------------------------
(* What a recovery knows of the row: a run was claimed of this batch or an  *)
(* older one; one of the current version answers the fragments of the row.  *)

Known(run) ==
  /\ run.batch <= row.batch
  /\ run.batch = row.batch => run.version <= row.version
  /\ run.batch = row.batch /\ run.version = row.version => run.fragments = row.fragments

RunInv == /\ \A run \in runs : Known(run)
          /\ \A r \in Recoverers : \A run \in recovery[r].run : Known(run)

LEMMA RunNumbers ==
  ASSUME TypeOK
  PROVE  /\ \A run \in runs : run.batch \in Nat /\ run.version \in Nat
         /\ \A r \in Recoverers : \A run \in recovery[r].run : run.batch \in Nat /\ run.version \in Nat
<1>1. \A run \in Run : run.batch \in Nat /\ run.version \in Nat
  BY BatchAssumption DEF Run
<1>2. \A r \in Recoverers : recovery[r].run \subseteq Run
  BY DEF TypeOK, Recovery
<1> QED BY <1>1, <1>2 DEF TypeOK

\* A run that is known stays so when the row takes a fragment in.
LEMMA ReceivesKnown ==
  ASSUME TypeOK, Receives, NEW run, run.batch \in Nat, run.version \in Nat, Known(run)
  PROVE  Known(run)'
<1>1. row'.batch \in Nat /\ row'.version \in Nat
  BY BatchAssumption DEF Receives, Row
<1> QED BY <1>1, Numbers DEF Receives, Known

LEMMA KeepsKnown ==
  ASSUME NEW run, Known(run), KeepsVersion \/ UNCHANGED row
  PROVE  Known(run)'
BY DEF Known, KeepsVersion

LEMMA RecoveryKeeps ==
  ASSUME BatchInv, RunInv, TypeOK', NEW r \in Recoverers, Recover(r)
  PROVE  BatchInv' /\ RunInv'
<1>0. TypeOK /\ JobInv /\ OneRunPerLease /\ SettledBatchIsComplete
  BY DEF BatchInv
<1>1. /\ job' = job /\ runs' \subseteq runs
      /\ \A e \in Recoverers : recovery'[e].run \subseteq recovery[e].run \cup runs
      /\ KeepsVersion \/ UNCHANGED row
  BY <1>0, RecoveryStep
<1>2. RunInv'
  BY <1>1, KeepsKnown DEF RunInv
<1>3. OneRunPerLease'
  BY <1>0, <1>1 DEF OneRunPerLease
<1>4. CASE UNCHANGED row
  BY <1>0, <1>1, <1>2, <1>3, <1>4 DEF BatchInv, JobInv, ReadFromRow, HasRow, SameVersion,
                                      SettledBatchIsComplete
<1>5. ASSUME NEW run \in recovery[r].run, row.batch = run.batch, row.version = run.version,
             KeepsVersion, row'.status = "completed", row'.settled = run.fragments
      PROVE  BatchInv'
  <2>1. JobInv'
    BY <1>0, <1>1, <1>5 DEF JobInv, ReadFromRow, HasRow, SameVersion, KeepsVersion
  <2>2. run.fragments = row.fragments
    BY <1>5 DEF RunInv, Known
  <2>3. SettledBatchIsComplete'
    BY <1>5, <2>2 DEF SettledBatchIsComplete, KeepsVersion
  <2> QED BY <1>3, <2>1, <2>3 DEF BatchInv
<1> QED BY <1>0, <1>2, <1>4, <1>5, RecoveryStep

LEMMA BatchInvariant == Spec => [](BatchInv /\ RunInv)
<1>1. Init => BatchInv /\ RunInv
  <2> SUFFICES ASSUME Init PROVE BatchInv /\ RunInv
    OBVIOUS
  <2>1. \A d \in Dispatchers : job[d].pc = "idle" /\ job[d].age = 0
    BY DEF Init, NoJob
  <2>2. JobInv /\ OneRunPerLease
    BY <2>1 DEF JobInv, ReadFromRow, HasRow, OneRunPerLease
  <2>3. SettledBatchIsComplete
    BY DEF Init, SettledBatchIsComplete
  <2>4. RunInv
    BY DEF Init, NoRecovery, RunInv
  <2> QED BY <2>2, <2>3, <2>4, TypeInit DEF BatchInv
<1>2. BatchInv /\ RunInv /\ [Next]_vars => BatchInv' /\ RunInv'
  <2> SUFFICES ASSUME BatchInv, RunInv, [Next]_vars PROVE BatchInv' /\ RunInv'
    OBVIOUS
  <2>1. TypeOK /\ TypeOK' /\ JobInv
    BY TypeStep DEF BatchInv
  <2>2. ASSUME NEW h \in Handlers, NEW m \in Messages, UpsertPendingInputFragment(h, m)
        PROVE  BatchInv' /\ RunInv'
    <3>1. Receives /\ runs' = {} /\ UNCHANGED recovery
      BY <2>1, <2>2, UpsertStep DEF UpsertPendingInputFragment
    <3>2. RunInv'
      BY <2>1, <3>1, ReceivesKnown, RunNumbers DEF RunInv
    <3> QED BY <2>1, <2>2, <3>2, UpsertStep, ReceivesKeeps DEF Dispatchers
  <2>3. ASSUME NEW s \in Schedulers, DuePendingInputBatches(s) PROVE BatchInv' /\ RunInv'
    <3>1. /\ s \in Dispatchers /\ (row.action # "queued") \in BOOLEAN
          /\ UNCHANGED <<row, runs, recovery>>
          /\ Dispatch(s, row, row.action # "queued")
      BY <2>3 DEF Dispatchers, DuePendingInputBatches
    <3>2. RunInv'
      BY <3>1, KeepsKnown DEF RunInv
    <3> QED BY <2>1, <3>1, <3>2, DispatchKeeps
  <2>4. CASE Tick
    <3>1. KeepsVersion /\ UNCHANGED <<runs, recovery>>
      BY <2>1, <2>4, TickStep DEF Tick
    <3>2. RunInv'
      BY <3>1, KeepsKnown DEF RunInv
    <3> QED BY <2>1, <2>4, <3>2, TickKeeps
  <2>5. ASSUME NEW d \in Dispatchers, Step(d) \/ Crash(d) PROVE BatchInv' /\ RunInv'
    <3>1. KeepsVersion
      BY <2>1, <2>5, DispatcherStep DEF Touches
    <3>2. job[d].pc = "decided" => Known(RunOf(d))
      BY <2>1 DEF JobInv, ReadFromRow, SameVersion, Known, RunOf
    <3>3. \A run \in runs' : Known(run)
      BY <2>1, <2>5, <3>2, RunsStep DEF RunInv
    <3>4. RunInv'
      <4>1. recovery' = recovery
        BY <2>1, <2>5, RunsStep
      <4> QED BY <3>1, <3>3, <4>1, KeepsKnown DEF RunInv
    <3> QED BY <2>1, <2>5, <3>4, DispatcherKeeps
  <2>6. CASE UNCHANGED vars
    BY <2>6 DEF vars, BatchInv, TypeOK, JobInv, ReadFromRow, HasRow, SameVersion, RunInv, Known,
                SettledBatchIsComplete, OneRunPerLease
  <2> QED BY <2>1, <2>2, <2>3, <2>4, <2>5, <2>6, RecoveryKeeps DEF Next
<1> QED BY <1>1, <1>2, PTL DEF Spec

\* The row, the jobs and the counters have their types.
THEOREM TypeCorrect == Spec => []TypeOK
<1>1. BatchInv => TypeOK
  BY DEF BatchInv
<1> QED BY <1>1, BatchInvariant, PTL

\* A fragment that arrives during a run or before a recovered reply is sent is not
\* settled with it: who settles a batch has aggregated all of it.
THEOREM CompleteCorrect == Spec => []SettledBatchIsComplete
<1>1. BatchInv => SettledBatchIsComplete
  BY DEF BatchInv
<1> QED BY <1>1, BatchInvariant, PTL

\* Two runs of one version overlap only when the first has had it for a lease.
THEOREM LeaseCorrect == Spec => []OneRunPerLease
<1>1. BatchInv => OneRunPerLease
  BY DEF BatchInv
<1> QED BY <1>1, BatchInvariant, PTL

\* A settled batch is followed by a new one and never taken up again.
THEOREM SettledCorrect == Spec => SettledBatchStaysSettled
<1> DEFINE Stays == row.status \in Terminal /\ row'.status \notin Terminal => row'.batch # row.batch
<1>1. ASSUME TypeOK, [Next]_vars PROVE Stays
  <2>1. ASSUME Receives PROVE Stays
    BY <1>1, <2>1, Numbers DEF Receives
  <2>2. ASSUME Tick PROVE Stays
    BY <1>1, <2>2, TickStep
  <2>3. ASSUME NEW d \in Dispatchers, Step(d) \/ Crash(d) PROVE Stays
    <3>1. Touches \/ Claimable(d) \/ row'.status \in Terminal
      BY <1>1, <2>3, DispatcherStep
    <3> QED BY <3>1 DEF Touches, Claimable, Terminal
  <2>4. ASSUME NEW r \in Recoverers, Recover(r) PROVE Stays
    <3>1. UNCHANGED row \/ row'.status = "completed"
      BY <1>1, <2>4, RecoveryStep
    <3> QED BY <3>1 DEF Terminal
  <2> QED BY <1>1, <2>1, <2>2, <2>3, <2>4, UpsertStep DEF Next, vars, DuePendingInputBatches
<1>2. TypeOK /\ [Next]_vars => [Stays]_row
  BY <1>1
<1> QED BY <1>2, TypeCorrect, PTL DEF Spec, SettledBatchStaysSettled
===============================================================================
