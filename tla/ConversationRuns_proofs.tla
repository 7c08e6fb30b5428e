------------------------ MODULE ConversationRuns_proofs ------------------------
(***************************************************************************)
(* The runs of a conversation for any number of messages, threads and       *)
(* processes, any number of steps, attempts, exceptions, deaths and locks    *)
(* that run out: what is remembered stays, what is finished stays, what      *)
(* waits to be sent is current, and while no lock ran out the holder of the  *)
(* lock is the only one who writes.                                          *)
(***************************************************************************)
EXTENDS ConversationRuns, FiniteSetTheorems, SequenceTheorems, TLAPS

Processes == {Process[t] : t \in Threads}
Turns == {"pending", "superseded", "dispatching", "delivered"}

Typed ==
  /\ version \in Nat
  /\ receipt \in [Messages -> Nat]
  /\ result \in [Messages -> Replies]
  /\ run \in [Runs -> Run]
  /\ rows \in [Runs -> Seq(Turns)]
  /\ lock \in Threads \cup {None}
  /\ thread \in [Threads -> Thread]
  /\ ledger \subseteq Messages \cup Runs
  /\ {failures, expiries} \subseteq 0..MaxFaults

\* Where a thread works on a run, and where it is inside the conversation lock.
OnRun == {"claimed", "looping", "replied", "finishing", "handed_over", "completing"}
Inner == {"starting"} \cup OnRun

Exists(r) == run[r].status # "absent"

\* A thread knows its message, its run is of that message, and so is its reply.
PlaceOf(t) ==
  /\ thread[t].pc # "idle" => thread[t].msg \in Messages
  /\ thread[t].pc \in OnRun => /\ thread[t].run \in Runs /\ Exists(thread[t].run)
                               /\ run[thread[t].run].msg = thread[t].msg
                               /\ run[thread[t].run].version = thread[t].version
  /\ thread[t].pc \in {"replied", "finishing", "handed_over", "completing"} => thread[t].reply # NoReply
  /\ thread[t].pc \in {"returned", "writing"} => thread[t].reply \in Runs
  /\ thread[t].pc # "idle" /\ thread[t].reply \in Runs =>
       Exists(thread[t].reply) /\ run[thread[t].reply].msg = thread[t].msg
  /\ thread[t].pc \in {"received", "starting", "looping", "replied"} => ~thread[t].durable
  /\ thread[t].pc = "completing" \/ (thread[t].pc \in {"finishing", "handed_over"} /\ thread[t].durable)
       => result[thread[t].msg] # NoReply

RunOf(r) ==
  /\ Exists(r) => run[r].msg \in Messages
  /\ ~Exists(r) => rows[r] = <<>> /\ run[r].final = NoReply
  /\ run[r].status \notin Unfinished => run[r].owner = None
  /\ run[r].final \in Runs => Exists(run[r].final) /\ run[run[r].final].msg = run[r].msg
  /\ run[r].status = "completed" => result[run[r].msg] # NoReply
  /\ \A i \in DOMAIN rows[r] : rows[r][i] = "pending" => run[r].version = version

ResultOf(m) == result[m] \in Runs => Exists(result[m]) /\ run[result[m]].msg = m

Kept == /\ \A t \in Threads : PlaceOf(t)
        /\ \A r \in Runs : RunOf(r)
        /\ \A m \in Messages : ResultOf(m)

\* While no lock ran out: who is inside holds the lock, made the last claim of its
\* run, and its message has no result but the one it found or wrote.
HoldsOf(t) ==
  /\ thread[t].pc \in Inner => lock = t
  /\ thread[t].pc \in OnRun => thread[t].attempt = run[thread[t].run].attempts
  /\ thread[t].pc \in {"starting", "looping", "replied", "finishing", "handed_over"} /\ ~thread[t].durable
       => result[thread[t].msg] = NoReply
  /\ \/ thread[t].pc \in {"finishing", "handed_over"} /\ thread[t].durable
     \/ thread[t].pc \in {"completing", "returned", "writing"}
     => (thread[t].reply \in Runs => result[thread[t].msg] = thread[t].reply)

Holds == expiries = 0 => (\A t \in Threads : HoldsOf(t)) /\ ShownReplyIsTheResult

Inv == Typed /\ Kept /\ Holds

----------------------------------------------------------------------------
(* How runs and results may change.                                        *)

RunsGoOn ==
  /\ run' \in [Runs -> Run]
  /\ \A r \in Runs : Exists(r) =>
       /\ run'[r].status # "absent" /\ run'[r].msg = run[r].msg /\ run'[r].version = run[r].version

ResultsStay ==
  /\ result' \in [Messages -> Replies]
  /\ \A m \in Messages : result[m] # NoReply => result'[m] = result[m]

LEMMA Constants ==
  /\ NoReply \notin Runs /\ Silent \notin Runs /\ Superseded \notin Runs
  /\ Silent # NoReply /\ Superseded # NoReply /\ 0 \notin Runs
  /\ None \notin Processes /\ None \notin Threads /\ None \notin Messages
  /\ \A t \in Threads : Process[t] \in Processes
BY ThreadsAssumption DEF NoReply, Silent, Superseded, Runs, Processes

\* A thread that a step leaves alone, or ends, knows what it knew.
LEMMA OthersKeep ==
  ASSUME Typed, RunsGoOn, ResultsStay, NEW u \in Threads, PlaceOf(u),
         thread'[u] = thread[u] \/ thread'[u] = Idle
  PROVE  PlaceOf(u)'
<1> USE Constants
<1>1. CASE thread'[u] = Idle
  BY <1>1 DEF Idle, PlaceOf, OnRun
<1>2. CASE thread'[u] = thread[u]
  BY <1>2 DEF Typed, Thread, PlaceOf, RunsGoOn, ResultsStay, Exists
<1> QED BY <1>1, <1>2


\* The runs' own facts, from how a step changes the runs.
LEMMA RunsKeep ==
  ASSUME Typed, Kept, RunsGoOn, ResultsStay, UNCHANGED <<rows, version>>, NEW r \in Runs,
         run'[r].status \notin Unfinished => run'[r].owner = None,
         ~Exists(r) => \/ run'[r] = run[r]
                       \/ run'[r].status = "running" /\ run'[r].msg \in Messages /\ run'[r].final = NoReply,
         Exists(r) /\ run'[r].final # run[r].final =>
           \/ run'[r].final = NoReply
           \/ Exists(run'[r].final) /\ run[run'[r].final].msg = run[r].msg,
         run'[r].status = "completed" => run[r].status = "completed" \/ result'[run[r].msg] # NoReply
  PROVE  RunOf(r)'
<1> USE Constants
<1>1. RunOf(r) /\ run'[r] \in Run /\ run[r] \in Run
  BY DEF Kept, Typed, RunsGoOn
<1>2. CASE ~Exists(r)
  <2>1. rows[r] = <<>> /\ run[r].final = NoReply /\ run[r].status = "absent"
    BY <1>1, <1>2 DEF RunOf, Exists
  <2>2. \A i \in DOMAIN rows'[r] : FALSE
    BY <2>1
  <2> QED BY <1>1, <1>2, <2>1, <2>2 DEF RunOf, Exists
<1>3. CASE Exists(r)
  <2>1. /\ run'[r].status # "absent" /\ run'[r].msg = run[r].msg /\ run'[r].version = run[r].version
        /\ run[r].msg \in Messages
    BY <1>1, <1>3 DEF RunsGoOn, RunOf
  <2>2. run'[r].final \in Runs => /\ run'[run'[r].final].status # "absent"
                                  /\ run'[run'[r].final].msg = run'[r].msg
    <3>1. run'[r].final \in Runs => Exists(run'[r].final) /\ run[run'[r].final].msg = run[r].msg
      BY <1>1, <1>3 DEF RunOf
    <3> QED BY <2>1, <3>1 DEF RunsGoOn, Exists
  <2>3. run'[r].status = "completed" => result'[run'[r].msg] # NoReply
    BY <1>1, <2>1 DEF RunOf, ResultsStay
  <2> QED BY <1>1, <2>1, <2>2, <2>3 DEF RunOf, Exists
<1> QED BY <1>2, <1>3

LEMMA ResultKeeps ==
  ASSUME Typed, Kept, RunsGoOn, NEW m \in Messages,
         \/ result'[m] = result[m] \/ result'[m] \notin Runs
         \/ Exists(result'[m]) /\ run[result'[m]].msg = m
  PROVE  ResultOf(m)'
<1>1. result'[m] \in Runs => Exists(result'[m]) /\ run[result'[m]].msg = m
  BY DEF Kept, ResultOf
<1> QED BY <1>1 DEF RunsGoOn, ResultOf, Exists

\* While the others wait for the lock, they know what they knew.
LEMMA OthersHold ==
  ASSUME Typed, Kept, ResultsStay, NEW u \in Threads, HoldsOf(u),
         thread'[u] = thread[u] \/ thread'[u] = Idle,
         thread'[u].pc \in Inner =>
           /\ lock' = lock /\ UNCHANGED result
           /\ thread[u].pc \in OnRun => run'[thread[u].run].attempts = run[thread[u].run].attempts
  PROVE  HoldsOf(u)'
<1> USE Constants
<1>1. CASE thread'[u] = Idle
  BY <1>1 DEF Idle, HoldsOf, Inner, OnRun
<1>2. CASE thread'[u] = thread[u]
  <2>1. PlaceOf(u)
    BY DEF Kept
  <2>2. CASE thread[u].pc \in Inner
    BY <1>2, <2>2 DEF HoldsOf, Inner
  <2>3. CASE thread[u].pc \notin Inner
    BY <1>2, <2>1, <2>3 DEF HoldsOf, PlaceOf, ResultsStay, Inner, OnRun
  <2> QED BY <2>2, <2>3
<1> QED BY <1>1, <1>2

LEMMA ShownKeeps ==
  ASSUME Typed, Kept, ResultsStay, RunsGoOn, expiries = 0, ShownReplyIsTheResult,
         \A r \in Runs : rows'[r] # <<>> /\ rows'[r][1] \in {"dispatching", "delivered"} =>
           \/ rows[r] # <<>> /\ rows[r][1] \in {"dispatching", "delivered"}
           \/ Exists(r) /\ result[run[r].msg] = r
  PROVE  ShownReplyIsTheResult'
<1> USE Constants
<1> SUFFICES ASSUME NEW r \in Runs, rows'[r] # <<>>, rows'[r][1] \in {"dispatching", "delivered"}
             PROVE  result'[run'[r].msg] = r
  BY DEF ShownReplyIsTheResult
<1>1. Exists(r) /\ result[run[r].msg] = r
  BY DEF Kept, RunOf, ShownReplyIsTheResult
<1>2. run[r].msg \in Messages
  BY <1>1 DEF Kept, RunOf
<1> QED BY <1>1, <1>2 DEF RunsGoOn, ResultsStay

\* What ends a thread's part: it is idle, or has a run's reply in its hands.
LEMMA EndWithMoves ==
  ASSUME Typed, NEW t \in Threads, NEW reply \in Replies, EndWith(t, reply)
  PROVE  /\ thread' \in [Threads -> Thread]
         /\ \A u \in Threads \ {t} : thread'[u] = thread[u]
         /\ \/ thread'[t] = Idle
            \/ /\ thread'[t].pc = "returned" /\ thread'[t].msg = thread[t].msg
               /\ thread'[t].reply = reply /\ reply \in Runs
<1>0. thread[t] \in Thread
  BY DEF Typed
<1>1. Idle \in Thread
  BY BoundsAssumption DEF Idle, Thread, Replies
<1> DEFINE new == [Idle EXCEPT !.pc = "returned", !.msg = thread[t].msg, !.reply = reply]
<1>2. new \in Thread /\ new.pc = "returned" /\ new.msg = thread[t].msg /\ new.reply = reply
  <2>1. thread[t].msg \in Messages \cup {None}
    BY <1>0 DEF Thread
  <2>2. 1 \in 1..(MaxSteps + 1)
    BY BoundsAssumption
  <2> QED BY <2>1, <2>2 DEF Idle, Thread
<1>3. \/ thread' = [thread EXCEPT ![t] = Idle]
      \/ thread' = [thread EXCEPT ![t] = new] /\ reply \in Runs
  BY DEF EndWith
<1> HIDE DEF new
<1> QED BY <1>1, <1>2, <1>3 DEF Typed

----------------------------------------------------------------------------
(* What a step owes.                                                       *)

\* While no lock ran out, nobody is inside beside the one who works there.
LEMMA AloneInside ==
  ASSUME Holds, expiries = 0, NEW t, lock \in {t, None}, NEW u \in Threads, u # t
  PROVE  thread[u].pc \notin Inner
BY Constants DEF Holds, HoldsOf

\* A step of one thread, t, or of none.
LEMMA StepKeeps ==
  ASSUME Inv, NEW t, RunsGoOn, ResultsStay, Typed',
         \A u \in Threads \ {t} : thread'[u] = thread[u] \/ thread'[u] = Idle,
         t \in Threads => PlaceOf(t)',
         \A r \in Runs : RunOf(r)', \A m \in Messages : ResultOf(m)',
         expiries' = 0 => expiries = 0,
         expiries = 0 =>
           /\ t \in Threads => HoldsOf(t)'
           /\ ShownReplyIsTheResult'
           /\ \A u \in Threads \ {t} : thread'[u].pc \in Inner =>
                /\ lock' = lock /\ UNCHANGED result
                /\ thread[u].pc \in OnRun => run'[thread[u].run].attempts = run[thread[u].run].attempts
  PROVE  Inv'
<1>1. \A u \in Threads : PlaceOf(u)'
  BY OthersKeep DEF Inv, Kept
<1>2. ASSUME expiries' = 0 PROVE \A u \in Threads : HoldsOf(u)'
  BY <1>2, OthersHold DEF Inv, Holds
<1> QED BY <1>1, <1>2 DEF Inv, Kept, Holds

\* A step that writes runs or results, but neither turns nor version.
LEMMA StoreKeeps ==
  ASSUME Inv, RunsGoOn, ResultsStay, UNCHANGED <<rows, version>>,
         \A r \in Runs :
           /\ run'[r].status \notin Unfinished => run'[r].owner = None
           /\ ~Exists(r) => \/ run'[r] = run[r]
                            \/ run'[r].status = "running" /\ run'[r].msg \in Messages /\ run'[r].final = NoReply
           /\ Exists(r) /\ run'[r].final # run[r].final =>
                \/ run'[r].final = NoReply
                \/ Exists(run'[r].final) /\ run[run'[r].final].msg = run[r].msg
           /\ run'[r].status = "completed" => run[r].status = "completed" \/ result'[run[r].msg] # NoReply,
         \A m \in Messages : \/ result'[m] = result[m] \/ result'[m] \notin Runs
                             \/ Exists(result'[m]) /\ run[result'[m]].msg = m
  PROVE  /\ \A r \in Runs : RunOf(r)'
         /\ \A m \in Messages : ResultOf(m)'
         /\ expiries = 0 => ShownReplyIsTheResult'
<1>1. Typed /\ Kept
  BY DEF Inv
<1>2. \A r \in Runs : RunOf(r)'
  BY <1>1, RunsKeep
<1>3. \A m \in Messages : ResultOf(m)'
  BY <1>1, ResultKeeps
<1>4. ASSUME expiries = 0 PROVE ShownReplyIsTheResult'
  <2>1. ShownReplyIsTheResult
    BY <1>4 DEF Inv, Holds
  <2> QED BY <1>1, <1>4, <2>1, ShownKeeps
<1> QED BY <1>2, <1>3, <1>4

LEMMA StoreSame ==
  ASSUME Inv, UNCHANGED <<run, result, rows, version>>
  PROVE  /\ RunsGoOn /\ ResultsStay
         /\ \A r \in Runs : RunOf(r)'
         /\ \A m \in Messages : ResultOf(m)'
         /\ expiries = 0 => ShownReplyIsTheResult'
<1>1. RunsGoOn /\ ResultsStay
  BY DEF Inv, Typed, RunsGoOn, ResultsStay, Exists
<1>2. \A r \in Runs : run'[r].status \notin Unfinished => run'[r].owner = None
  BY DEF Inv, Kept, RunOf
<1> QED BY <1>1, <1>2, StoreKeeps

\* One thread's record is set.
LEMMA SetThread ==
  ASSUME Typed, NEW t \in Threads, NEW new \in Thread, thread' = [thread EXCEPT ![t] = new]
  PROVE  /\ thread' \in [Threads -> Thread] /\ thread'[t] = new
         /\ \A u \in Threads \ {t} : thread'[u] = thread[u]
BY DEF Typed

LEMMA FromIdle ==
  ASSUME NEW m \in Messages \cup {None}, NEW v \in Nat, NEW reply \in Replies,
         NEW pc \in {"received", "starting", "returned"}
  PROVE  [Idle EXCEPT !.pc = pc, !.msg = m, !.version = v, !.reply = reply] \in Thread
<1>1. 1 \in 1..(MaxSteps + 1)
  BY BoundsAssumption
<1> QED BY <1>1 DEF Idle, Thread

----------------------------------------------------------------------------
(* Receiving and the shell.                                                *)

LEMMA AnswerRedeliveryKeeps ==
  ASSUME Inv, NEW t \in Threads, NEW m \in Messages, AnswerRedelivery(t, m)
  PROVE  Inv'
<1> USE Constants
<1> DEFINE new == [Idle EXCEPT !.pc = "returned", !.msg = m, !.reply = result[m]]
<1>1. new \in Thread /\ new.pc = "returned" /\ new.msg = m /\ new.reply = result[m]
  <2>1. 1 \in 1..(MaxSteps + 1) /\ result[m] \in Replies
    BY BoundsAssumption DEF Inv, Typed
  <2> QED BY <2>1 DEF Idle, Thread
<1>2. thread' = [thread EXCEPT ![t] = new] /\ result[m] \in Runs
  BY DEF AnswerRedelivery
<1> HIDE DEF new
<1>3. /\ thread' \in [Threads -> Thread] /\ thread'[t] = new
      /\ \A u \in Threads \ {t} : thread'[u] = thread[u]
  BY <1>1, <1>2, SetThread DEF Inv
<1>4. UNCHANGED <<version, receipt, result, run, rows, ledger, lock, failures, expiries>>
  BY DEF AnswerRedelivery, store, faults
<1>5. PlaceOf(t)' /\ HoldsOf(t)'
  <2>1. ResultOf(m)
    BY DEF Inv, Kept
  <2> QED BY <1>1, <1>2, <1>3, <1>4, <2>1 DEF PlaceOf, HoldsOf, OnRun, Inner, ResultOf, Exists
<1>6. Typed'
  BY <1>3, <1>4 DEF Inv, Typed
<1> QED BY <1>3, <1>4, <1>5, <1>6, StoreSame, StepKeeps

\* Who ends with a reply of its message's run, the result, knows what it must.
LEMMA EndKeeps ==
  ASSUME Inv, NEW t \in Threads, NEW reply \in Replies, EndWith(t, reply),
         reply \in Runs => /\ thread[t].msg \in Messages
                           /\ run'[reply].status # "absent" /\ run'[reply].msg = thread[t].msg
  PROVE  /\ thread' \in [Threads -> Thread]
         /\ \A u \in Threads \ {t} : thread'[u] = thread[u]
         /\ PlaceOf(t)'
         /\ (expiries = 0 /\ reply \in Runs => result'[thread[t].msg] = reply) /\ expiries = 0 => HoldsOf(t)'
<1> USE Constants
<1>1. /\ thread' \in [Threads -> Thread]
      /\ \A u \in Threads \ {t} : thread'[u] = thread[u]
      /\ \/ thread'[t] = Idle
         \/ /\ thread'[t].pc = "returned" /\ thread'[t].msg = thread[t].msg
            /\ thread'[t].reply = reply /\ reply \in Runs
  BY EndWithMoves DEF Inv
<1>2. CASE thread'[t] = Idle
  BY <1>1, <1>2 DEF Idle, PlaceOf, HoldsOf, OnRun, Inner
<1>3. CASE thread'[t] # Idle
  BY <1>1, <1>3 DEF PlaceOf, HoldsOf, OnRun, Inner, Exists
<1> QED BY <1>1, <1>2, <1>3

LEMMA ReuseResultKeeps ==
  ASSUME Inv, NEW t \in Threads, ReuseResult(t)
  PROVE  Inv'
<1> USE Constants
<1>1. /\ UNCHANGED <<version, receipt, result, run, rows, ledger, lock, failures, expiries>>
      /\ thread[t].pc = "received" /\ lock = None /\ EndWith(t, result[thread[t].msg])
  BY DEF ReuseResult, Enter, store, faults
<1>2. thread[t].msg \in Messages
  BY <1>1 DEF Inv, Kept, PlaceOf
<1>3. /\ result[thread[t].msg] \in Replies
      /\ result[thread[t].msg] \in Runs => /\ run[result[thread[t].msg]].status # "absent"
                                           /\ run[result[thread[t].msg]].msg = thread[t].msg
  BY <1>2 DEF Inv, Typed, Kept, ResultOf, Exists
<1>4. /\ thread' \in [Threads -> Thread]
      /\ \A u \in Threads \ {t} : thread'[u] = thread[u]
      /\ PlaceOf(t)' /\ (expiries = 0 => HoldsOf(t)')
  BY <1>1, <1>2, <1>3, EndKeeps
<1>5. Typed'
  BY <1>1, <1>4 DEF Inv, Typed
<1> QED BY <1>1, <1>4, <1>5, StoreSame, StepKeeps

LEMMA SkipStaleMessageKeeps ==
  ASSUME Inv, NEW t \in Threads, SkipStaleMessage(t)
  PROVE  Inv'
<1> USE Constants
<1>1. /\ UNCHANGED <<version, receipt, run, rows, ledger, lock, failures, expiries>>
      /\ thread[t].pc = "received" /\ lock = None /\ EndWith(t, Superseded)
      /\ result[thread[t].msg] = NoReply
      /\ result' = [result EXCEPT ![thread[t].msg] = Superseded]
  BY DEF SkipStaleMessage, Enter, store, faults
<1>2. Superseded \in Replies
  BY DEF Replies
<1>3. /\ thread' \in [Threads -> Thread]
      /\ \A u \in Threads \ {t} : thread'[u] = thread[u]
      /\ PlaceOf(t)' /\ (expiries = 0 => HoldsOf(t)')
  BY <1>1, <1>2, EndKeeps
<1>4. Typed'
  BY <1>1, <1>2, <1>3 DEF Inv, Typed
<1>5. RunsGoOn /\ ResultsStay
  BY <1>1, <1>2 DEF Inv, Typed, RunsGoOn, ResultsStay, Exists
<1>6. \A m \in Messages : result'[m] = result[m] \/ result'[m] \notin Runs
  BY <1>1 DEF Inv, Typed
<1>7. \A r \in Runs : run'[r].status \notin Unfinished => run'[r].owner = None
  BY <1>1 DEF Inv, Kept, RunOf
<1>8. /\ \A r \in Runs : RunOf(r)'
      /\ \A m \in Messages : ResultOf(m)'
      /\ expiries = 0 => ShownReplyIsTheResult'
  BY <1>1, <1>5, <1>6, <1>7, StoreKeeps
<1>9. expiries = 0 => \A u \in Threads \ {t} : thread'[u].pc \notin Inner
  BY <1>1, <1>3, AloneInside DEF Inv
<1> QED BY <1>1, <1>3, <1>4, <1>5, <1>8, <1>9, StepKeeps

\* A superseded run is let go, the others are as they were.
LEMMA SupersedeBeforeKeeps ==
  ASSUME Inv, NEW current, SupersedeBefore(current), UNCHANGED <<rows, version, result>>
  PROVE  /\ run' \in [Runs -> Run] /\ RunsGoOn /\ ResultsStay
         /\ \A r \in Runs : RunOf(r)' /\ run'[r].attempts = run[r].attempts
         /\ \A m \in Messages : ResultOf(m)'
         /\ expiries = 0 => ShownReplyIsTheResult'
<1> USE Constants
<1>1. \A r \in Runs : /\ run'[r] \in Run
                      /\ run'[r].msg = run[r].msg /\ run'[r].version = run[r].version
                      /\ run'[r].final = run[r].final /\ run'[r].attempts = run[r].attempts
                      /\ \/ run'[r] = run[r]
                         \/ run[r].status \in Unfinished /\ run'[r].status = "superseded" /\ run'[r].owner = None
  <2> TAKE r \in Runs
  <2>1. run[r] \in Run
    BY DEF Inv, Typed
  <2>2. CASE run[r].status \in Unfinished /\ run[r].version < current
    <3>1. run'[r] = [run[r] EXCEPT !.status = "superseded", !.owner = None, !.leased = FALSE]
      BY <2>2 DEF SupersedeBefore
    <3> QED BY <2>1, <2>2, <3>1 DEF Run, Finished
  <2>3. CASE ~(run[r].status \in Unfinished /\ run[r].version < current)
    BY <2>1, <2>3 DEF SupersedeBefore
  <2> QED BY <2>2, <2>3
<1>2. run' \in [Runs -> Run]
  BY <1>1 DEF SupersedeBefore
<1>3. RunsGoOn /\ ResultsStay
  BY <1>1, <1>2 DEF Inv, Typed, RunsGoOn, ResultsStay, Exists, Unfinished
<1>4. \A r \in Runs : run'[r].status \notin Unfinished => run'[r].owner = None
  BY <1>1 DEF Inv, Kept, RunOf
<1>5. \A r \in Runs : (~Exists(r) => run'[r] = run[r]) /\ (run'[r].status = "completed" => run[r].status = "completed")
  BY <1>1 DEF Exists, Unfinished
<1> QED BY <1>1, <1>2, <1>3, <1>4, <1>5, StoreKeeps

LEMMA SupersedeStaleRunsKeeps ==
  ASSUME Inv, NEW t \in Threads, SupersedeStaleRuns(t)
  PROVE  Inv'
<1> USE Constants
<1>1. /\ UNCHANGED <<version, receipt, result, rows, ledger, failures, expiries>>
      /\ thread[t].pc = "received" /\ lock = None /\ lock' = t
      /\ result[thread[t].msg] = NoReply
      /\ SupersedeBefore(thread[t].version)
  BY DEF SupersedeStaleRuns, Enter, faults
<1>2. thread[t] \in Thread /\ PlaceOf(t)
  BY DEF Inv, Typed, Kept
<1> DEFINE new == [thread[t] EXCEPT !.pc = "starting"]
<1>3. /\ new \in Thread /\ new.pc = "starting" /\ new.msg = thread[t].msg /\ new.reply = thread[t].reply
      /\ new.durable = thread[t].durable
  BY <1>2 DEF Thread
<1>4. thread' = [thread EXCEPT ![t] = new]
  BY DEF SupersedeStaleRuns, GoTo
<1> HIDE DEF new
<1>5. /\ thread' \in [Threads -> Thread] /\ thread'[t] = new
      /\ \A u \in Threads \ {t} : thread'[u] = thread[u]
  BY <1>3, <1>4, SetThread DEF Inv
<1>6. /\ run' \in [Runs -> Run] /\ RunsGoOn /\ ResultsStay
      /\ \A r \in Runs : RunOf(r)' /\ run'[r].attempts = run[r].attempts
      /\ \A m \in Messages : ResultOf(m)'
      /\ expiries = 0 => ShownReplyIsTheResult'
  BY <1>1, SupersedeBeforeKeeps
<1>7. Typed'
  BY <1>1, <1>5, <1>6 DEF Inv, Typed
<1>8. PlaceOf(t)' /\ (expiries = 0 => HoldsOf(t)')
  BY <1>1, <1>2, <1>3, <1>5, <1>6 DEF PlaceOf, HoldsOf, OnRun, Inner, RunsGoOn, Exists
<1>9. expiries = 0 => \A u \in Threads \ {t} : thread'[u].pc \notin Inner
  BY <1>1, <1>5, AloneInside DEF Inv
<1> QED BY <1>1, <1>5, <1>6, <1>7, <1>8, <1>9, StepKeeps

LEMMA HandleSystemTriggerKeeps ==
  ASSUME Inv, NEW t \in Threads, NEW m \in Messages, HandleSystemTrigger(t, m)
  PROVE  Inv'
<1> USE Constants
<1> DEFINE new == [Idle EXCEPT !.pc = "starting", !.msg = m, !.version = version]
<1>1. /\ new \in Thread /\ new.pc = "starting" /\ new.msg = m /\ new.reply = NoReply /\ ~new.durable
  <2>1. 1 \in 1..(MaxSteps + 1) /\ version \in Nat
    BY BoundsAssumption DEF Inv, Typed
  <2> QED BY <2>1 DEF Idle, Thread, Replies
<1>2. /\ thread' = [thread EXCEPT ![t] = new]
      /\ UNCHANGED <<version, receipt, result, run, rows, ledger, failures, expiries>>
      /\ lock = None /\ lock' = t /\ result[m] = NoReply
  BY DEF HandleSystemTrigger, store, faults
<1> HIDE DEF new
<1>3. /\ thread' \in [Threads -> Thread] /\ thread'[t] = new
      /\ \A u \in Threads \ {t} : thread'[u] = thread[u]
  BY <1>1, <1>2, SetThread DEF Inv
<1>4. PlaceOf(t)' /\ HoldsOf(t)'
  BY <1>1, <1>2, <1>3 DEF PlaceOf, HoldsOf, OnRun, Inner
<1>5. Typed'
  BY <1>2, <1>3 DEF Inv, Typed
<1>6. expiries = 0 => \A u \in Threads \ {t} : thread'[u].pc \notin Inner
  BY <1>2, <1>3, AloneInside DEF Inv
<1> QED BY <1>2, <1>3, <1>4, <1>5, <1>6, StoreSame, StepKeeps

\* What still waited to be sent is superseded with a new version.
LEMMA AcceptUserInputKeeps ==
  ASSUME Inv, NEW m \in Messages, AcceptUserInput(m), UNCHANGED <<result, run>>
  PROVE  /\ version' \in Nat /\ receipt' \in [Messages -> Nat] /\ rows' \in [Runs -> Seq(Turns)]
         /\ RunsGoOn /\ ResultsStay
         /\ \A r \in Runs : RunOf(r)'
         /\ \A n \in Messages : ResultOf(n)'
         /\ expiries = 0 => ShownReplyIsTheResult'
<1> USE Constants
<1>1. RunsGoOn /\ ResultsStay
  BY DEF Inv, Typed, RunsGoOn, ResultsStay, Exists
<1>2. CASE receipt[m] # 0
  <2>1. UNCHANGED <<version, receipt, rows>>
    BY <1>2 DEF AcceptUserInput
  <2> QED BY <1>1, <2>1, StoreSame DEF Inv, Typed
<1>3. CASE receipt[m] = 0
  <2>1. /\ version' = version + 1 /\ receipt' = [receipt EXCEPT ![m] = version + 1]
        /\ \A r \in Runs : rows'[r] = [i \in DOMAIN rows[r] |-> IF rows[r][i] = "pending" THEN "superseded" ELSE rows[r][i]]
        /\ DOMAIN rows' = Runs /\ rows' = [r \in Runs |-> rows'[r]]
    BY <1>3 DEF AcceptUserInput, SupersedeRows
  <2>2. version' \in Nat /\ receipt' \in [Messages -> Nat]
    BY <2>1 DEF Inv, Typed
  <2>3. \A r \in Runs : /\ rows'[r] \in Seq(Turns) /\ DOMAIN rows'[r] = DOMAIN rows[r]
                        /\ \A i \in DOMAIN rows'[r] : rows'[r][i] # "pending"
                        /\ rows[r] = <<>> <=> rows'[r] = <<>>
                        /\ rows'[r] # <<>> /\ rows'[r][1] \in {"dispatching", "delivered"} => rows'[r][1] = rows[r][1]
    <3> TAKE r \in Runs
    <3>1. rows[r] \in Seq(Turns)
      BY DEF Inv, Typed
    <3>2. rows'[r] = [i \in 1..Len(rows[r]) |-> IF rows[r][i] = "pending" THEN "superseded" ELSE rows[r][i]]
      BY <2>1, <3>1
    <3>3. \A i \in 1..Len(rows[r]) : rows[r][i] \in Turns
      BY <3>1
    <3>4. \A i \in 1..Len(rows[r]) : (IF rows[r][i] = "pending" THEN "superseded" ELSE rows[r][i]) \in Turns \ {"pending"}
      BY <3>3 DEF Turns
    <3>5. rows'[r] \in Seq(Turns) /\ Len(rows'[r]) = Len(rows[r])
      <4>1. rows'[r] \in [1..Len(rows[r]) -> Turns]
        BY <3>2, <3>4
      <4>2. Len(rows[r]) \in Nat
        BY <3>1
      <4> QED BY <4>1, <4>2, SeqDef
    <3>6. rows[r] # <<>> => 1 \in 1..Len(rows[r])
      BY <3>1
    <3> QED BY <3>1, <3>2, <3>4, <3>5, <3>6
  <2>4. rows' \in [Runs -> Seq(Turns)]
    BY <2>1, <2>3
  <2>5. ASSUME NEW r \in Runs PROVE RunOf(r)'
    <3>1. RunOf(r)
      BY DEF Inv, Kept
    <3> QED BY <2>3, <3>1 DEF RunOf, Exists
  <2>6. \A n \in Messages : ResultOf(n)'
    BY DEF Inv, Kept, ResultOf, Exists
  <2>7. ASSUME expiries = 0 PROVE ShownReplyIsTheResult'
    <3>1. ShownReplyIsTheResult
      BY <2>7 DEF Inv, Holds
    <3> QED BY <2>3, <2>7, <3>1 DEF ShownReplyIsTheResult
  <2> QED BY <1>1, <2>2, <2>4, <2>5, <2>6, <2>7
<1> QED BY <1>2, <1>3

LEMMA ReceiveUserMessageKeeps ==
  ASSUME Inv, NEW t \in Threads, NEW m \in Messages, ReceiveUserMessage(t, m)
  PROVE  Inv'
<1> USE Constants
<1>1. UNCHANGED <<result, run, ledger, lock, failures, expiries>> /\ AcceptUserInput(m)
  BY DEF ReceiveUserMessage, faults
<1>2. /\ version' \in Nat /\ receipt' \in [Messages -> Nat] /\ rows' \in [Runs -> Seq(Turns)]
      /\ RunsGoOn /\ ResultsStay
      /\ \A r \in Runs : RunOf(r)'
      /\ \A n \in Messages : ResultOf(n)'
      /\ expiries = 0 => ShownReplyIsTheResult'
  BY <1>1, AcceptUserInputKeeps
<1>3. PICK new : new = [Idle EXCEPT !.pc = "received", !.msg = m, !.version = receipt'[m]]
  OBVIOUS
<1>4. /\ new \in Thread /\ new.pc = "received" /\ new.msg = m /\ new.reply = NoReply /\ ~new.durable
  <2>1. 1 \in 1..(MaxSteps + 1) /\ receipt'[m] \in Nat
    BY <1>2, BoundsAssumption
  <2> QED BY <1>3, <2>1 DEF Idle, Thread, Replies
<1>5. thread' = [thread EXCEPT ![t] = new]
  BY <1>3 DEF ReceiveUserMessage
<1>6. /\ thread' \in [Threads -> Thread] /\ thread'[t] = new
      /\ \A u \in Threads \ {t} : thread'[u] = thread[u]
  BY <1>4, <1>5, SetThread DEF Inv
<1>7. PlaceOf(t)' /\ HoldsOf(t)'
  BY <1>4, <1>6 DEF PlaceOf, HoldsOf, OnRun, Inner
<1>8. Typed'
  BY <1>1, <1>2, <1>6 DEF Inv, Typed
<1> QED BY <1>1, <1>2, <1>6, <1>7, <1>8, StepKeeps

----------------------------------------------------------------------------
(* The loop.                                                               *)

LEMMA StartRunKeeps ==
  ASSUME Inv, NEW t \in Threads, StartRun(t)
  PROVE  Inv'
<1> USE Constants
<1>1. /\ UNCHANGED <<version, receipt, result, rows, ledger, lock, failures, expiries>>
      /\ thread[t].pc = "starting"
  BY DEF StartRun, faults
<1>2. PICK r \in Runs :
        /\ run[r].status = "absent"
        /\ run' = [run EXCEPT ![r] = [NoRun EXCEPT !.msg = thread[t].msg, !.version = thread[t].version,
                                                   !.status = "running", !.attempts = 1,
                                                   !.owner = Process[t], !.leased = TRUE]]
        /\ thread' = [thread EXCEPT ![t].pc = "looping", ![t].run = r, ![t].attempt = 1]
  BY DEF StartRun
<1>3. thread[t] \in Thread /\ PlaceOf(t) /\ thread[t].msg \in Messages
  BY <1>1 DEF Inv, Typed, Kept, PlaceOf
<1>4. PICK new : new = [thread[t] EXCEPT !.pc = "looping", !.run = r, !.attempt = 1]
  OBVIOUS
<1>5. /\ new \in Thread /\ new.pc = "looping" /\ new.msg = thread[t].msg /\ new.reply = thread[t].reply
      /\ new.durable = thread[t].durable /\ new.run = r /\ new.attempt = 1 /\ new.version = thread[t].version
  BY <1>3, <1>4 DEF Thread
<1>6. thread' = [thread EXCEPT ![t] = new]
  BY <1>2, <1>4 DEF Inv, Typed
<1>7. /\ thread' \in [Threads -> Thread] /\ thread'[t] = new
      /\ \A u \in Threads \ {t} : thread'[u] = thread[u]
  BY <1>5, <1>6, SetThread DEF Inv
<1>8. PICK row : row = [NoRun EXCEPT !.msg = thread[t].msg, !.version = thread[t].version,
                                     !.status = "running", !.attempts = 1,
                                     !.owner = Process[t], !.leased = TRUE]
  OBVIOUS
<1>9. /\ row \in Run /\ row.msg = thread[t].msg /\ row.version = thread[t].version /\ row.status = "running"
      /\ row.attempts = 1 /\ row.final = NoReply
  <2>1. 1 \in 1..(MaxSteps + 1) /\ thread[t].version \in Nat
    BY <1>3, BoundsAssumption DEF Thread
  <2> QED BY <1>3, <1>8, <2>1 DEF NoRun, Run, Processes, Unfinished
<1>10. /\ run' = [run EXCEPT ![r] = row] /\ run' \in [Runs -> Run] /\ run'[r] = row
       /\ \A s \in Runs \ {r} : run'[s] = run[s]
  BY <1>2, <1>8, <1>9 DEF Inv, Typed
<1>11. RunsGoOn /\ ResultsStay
  BY <1>1, <1>2, <1>10 DEF Inv, Typed, RunsGoOn, ResultsStay, Exists
<1>12. \A s \in Runs : run'[s].status \notin Unfinished => run'[s].owner = None
  BY <1>9, <1>10 DEF Inv, Kept, RunOf, Unfinished
<1>13. /\ \A s \in Runs : RunOf(s)'
       /\ \A m \in Messages : ResultOf(m)'
       /\ expiries = 0 => ShownReplyIsTheResult'
  <2>1. /\ \A s \in Runs : ~Exists(s) => run'[s] = run[s] \/ (run'[s].status = "running" /\ run'[s].msg \in Messages /\ run'[s].final = NoReply)
        /\ \A s \in Runs : Exists(s) => run'[s] = run[s]
        /\ \A s \in Runs : run'[s].status = "completed" => run[s].status = "completed"
    BY <1>2, <1>3, <1>9, <1>10 DEF Exists
  <2> QED BY <1>1, <1>11, <1>12, <2>1, StoreKeeps
<1>14. PlaceOf(t)' /\ (expiries = 0 => HoldsOf(t)')
  <2>1. PlaceOf(t)'
    BY <1>1, <1>3, <1>5, <1>7, <1>9, <1>10, <1>11 DEF PlaceOf, OnRun, RunsGoOn, Exists
  <2>2. ASSUME expiries = 0 PROVE HoldsOf(t)'
    <3>1. HoldsOf(t)
      BY <2>2 DEF Inv, Holds
    <3> QED BY <1>1, <1>5, <1>7, <1>9, <1>10, <1>3, <3>1 DEF PlaceOf, HoldsOf, OnRun, Inner
  <2> QED BY <2>1, <2>2
<1>15. Typed'
  BY <1>1, <1>7, <1>10 DEF Inv, Typed
<1>16. expiries = 0 => \A u \in Threads \ {t} : thread'[u].pc \notin Inner
  <2>1. expiries = 0 => lock = t
    BY <1>1 DEF Inv, Holds, HoldsOf, Inner
  <2> QED BY <1>7, <2>1, AloneInside DEF Inv
<1> QED BY <1>1, <1>7, <1>11, <1>13, <1>14, <1>15, <1>16, StepKeeps

\* A checkpoint saves the thread's copy over its own run.
LEMMA CheckpointKeeps ==
  ASSUME Inv, NEW t \in Threads, NEW pc \in {"looping", "finishing"}, NEW step \in 1..(MaxSteps + 1), NEW final,
         thread[t].pc \in {"looping", "replied"}, pc = "finishing" => thread[t].pc = "replied",
         pc = "looping" => thread[t].pc = "looping",
         Checkpoint(t, pc, step, final),
         final = NoReply \/ (final \in Runs /\ Exists(final) /\ run[final].msg = thread[t].msg),
         UNCHANGED <<version, receipt, result, rows, ledger, lock, failures, expiries>>
  PROVE  Inv'
<1> USE Constants
<1>1. /\ thread[t] \in Thread /\ PlaceOf(t) /\ thread[t].msg \in Messages
      /\ thread[t].run \in Runs /\ Exists(thread[t].run)
  BY DEF Inv, Typed, Kept, PlaceOf, OnRun
<1>2. PICK r \in Runs : r = thread[t].run
  BY <1>1
<1>3. run[r] \in Run /\ Exists(r) /\ run[r].msg = thread[t].msg
  BY <1>1, <1>2 DEF Inv, Typed, PlaceOf, OnRun
<1>4. PICK new : new = [thread[t] EXCEPT !.pc = pc, !.step = step]
  OBVIOUS
<1>5. /\ new \in Thread /\ new.pc = pc /\ new.msg = thread[t].msg /\ new.reply = thread[t].reply
      /\ new.durable = thread[t].durable /\ new.run = r /\ new.attempt = thread[t].attempt
      /\ new.version = thread[t].version
  BY <1>1, <1>2, <1>4 DEF Thread
<1>6. thread' = [thread EXCEPT ![t] = new]
  BY <1>4 DEF Checkpoint, Inv, Typed
<1>7. /\ thread' \in [Threads -> Thread] /\ thread'[t] = new
      /\ \A u \in Threads \ {t} : thread'[u] = thread[u]
  BY <1>5, <1>6, SetThread DEF Inv
<1>8. PICK row : row = [run[r] EXCEPT !.step = step, !.attempts = thread[t].attempt, !.final = final,
                                      !.status = "running", !.owner = Process[t], !.leased = TRUE]
  OBVIOUS
<1>9. /\ row \in Run /\ row.msg = run[r].msg /\ row.version = run[r].version /\ row.status = "running"
      /\ row.attempts = thread[t].attempt /\ row.final = final
  <2>1. thread[t].attempt \in Nat
    BY <1>1 DEF Thread
  <2> QED BY <1>3, <1>8, <2>1 DEF Run, Processes, Unfinished
<1>10. /\ run' = [run EXCEPT ![r] = row] /\ run' \in [Runs -> Run] /\ run'[r] = row
       /\ \A s \in Runs \ {r} : run'[s] = run[s]
  <2>1. run' = [run EXCEPT ![r] = row]
    BY <1>2, <1>8 DEF Checkpoint, Inv, Typed
  <2> QED BY <1>9, <2>1 DEF Inv, Typed
<1>11. RunsGoOn /\ ResultsStay
  BY <1>3, <1>9, <1>10 DEF Inv, Typed, RunsGoOn, ResultsStay, Exists
<1>12. \A s \in Runs : run'[s].status \notin Unfinished => run'[s].owner = None
  BY <1>9, <1>10 DEF Inv, Kept, RunOf, Unfinished
<1>13. /\ \A s \in Runs : RunOf(s)'
       /\ \A m \in Messages : ResultOf(m)'
       /\ expiries = 0 => ShownReplyIsTheResult'
  <2>1. /\ \A s \in Runs : ~Exists(s) => run'[s] = run[s]
        /\ \A s \in Runs : run'[s].final = run[s].final \/ run'[s].final = NoReply
                           \/ (Exists(run'[s].final) /\ run[run'[s].final].msg = run[s].msg)
        /\ \A s \in Runs : run'[s].status = "completed" => run[s].status = "completed"
    BY <1>3, <1>9, <1>10 DEF Exists
  <2> QED BY <1>11, <1>12, <2>1, StoreKeeps
<1>14. PlaceOf(t)' /\ (expiries = 0 => HoldsOf(t)')
  <2>1. PlaceOf(t)'
    BY <1>1, <1>2, <1>3, <1>5, <1>7, <1>9, <1>10, <1>11 DEF PlaceOf, OnRun, RunsGoOn, Exists
  <2>2. ASSUME expiries = 0 PROVE HoldsOf(t)'
    <3>1. HoldsOf(t)
      BY <2>2 DEF Inv, Holds
    <3> QED BY <1>1, <1>2, <1>5, <1>7, <1>9, <1>10, <3>1 DEF PlaceOf, HoldsOf, OnRun, Inner
  <2> QED BY <2>1, <2>2
<1>15. Typed'
  BY <1>7, <1>10 DEF Inv, Typed
<1>16. expiries = 0 => \A u \in Threads \ {t} : thread'[u].pc \notin Inner
  <2>1. expiries = 0 => lock = t
    BY DEF Inv, Holds, HoldsOf, Inner, OnRun
  <2> QED BY <1>7, <2>1, AloneInside DEF Inv
<1> QED BY <1>7, <1>11, <1>13, <1>14, <1>15, <1>16, StepKeeps

LEMMA LoopStepKeeps ==
  ASSUME Inv, NEW t \in Threads, LoopStep(t)
  PROVE  Inv'
<1>1. /\ thread[t].pc = "looping" /\ Checkpoint(t, "looping", thread[t].step + 1, NoReply)
      /\ UNCHANGED <<version, receipt, result, rows, ledger, lock, failures, expiries>>
  BY DEF LoopStep, faults
<1>2. thread[t].step + 1 \in 1..(MaxSteps + 1)
  BY BoundsAssumption DEF LoopStep, Inv, Typed, Thread
<1> QED BY <1>1, <1>2, CheckpointKeeps

LEMMA CheckpointReplyKeeps ==
  ASSUME Inv, NEW t \in Threads, CheckpointReply(t)
  PROVE  Inv'
<1>1. PICK step, final :
        /\ step = IF thread[t].step <= MaxSteps THEN thread[t].step + 1 ELSE MaxSteps + 1
        /\ final = IF thread[t].reply \in Runs THEN thread[t].reply ELSE NoReply
  OBVIOUS
<1>2. /\ thread[t].pc = "replied" /\ Checkpoint(t, "finishing", step, final)
      /\ UNCHANGED <<version, receipt, result, rows, ledger, lock, failures, expiries>>
  BY <1>1 DEF CheckpointReply, faults
<1>3. step \in 1..(MaxSteps + 1)
  BY <1>1, BoundsAssumption DEF Inv, Typed, Thread
<1>4. final = NoReply \/ (final \in Runs /\ Exists(final) /\ run[final].msg = thread[t].msg)
  BY <1>1, <1>2 DEF Inv, Kept, PlaceOf
<1> QED BY <1>2, <1>3, <1>4, CheckpointKeeps

\* A pending turn of a current run is added, or none.
LEMMA AddRowKeeps ==
  ASSUME Inv, NEW r \in Runs, Exists(r), run[r].version = version,
         AddRow(r) \/ UNCHANGED rows, UNCHANGED <<run, result, version>>
  PROVE  /\ rows' \in [Runs -> Seq(Turns)] /\ RunsGoOn /\ ResultsStay
         /\ \A s \in Runs : RunOf(s)'
         /\ \A m \in Messages : ResultOf(m)'
         /\ expiries = 0 => ShownReplyIsTheResult'
<1> USE Constants
<1>1. CASE UNCHANGED rows
  BY <1>1, StoreSame DEF Inv, Typed
<1>2. CASE AddRow(r)
  <2>1. rows \in [Runs -> Seq(Turns)] /\ rows[r] \in Seq(Turns) /\ "pending" \in Turns
    BY DEF Inv, Typed, Turns
  <2>2. PICK more : more = Append(rows[r], "pending")
    OBVIOUS
  <2>3. /\ more \in Seq(Turns) /\ Len(more) = Len(rows[r]) + 1 /\ Len(rows[r]) \in Nat
        /\ \A i \in 1..Len(rows[r]) : more[i] = rows[r][i]
        /\ more[Len(rows[r]) + 1] = "pending"
    BY <2>1, <2>2
  <2>4. rows' = [rows EXCEPT ![r] = more]
    BY <1>2, <2>2 DEF AddRow
  <2>5. rows' \in [Runs -> Seq(Turns)] /\ rows'[r] = more /\ \A s \in Runs \ {r} : rows'[s] = rows[s]
    BY <2>1, <2>3, <2>4
  <2>6. RunsGoOn /\ ResultsStay
    BY DEF Inv, Typed, RunsGoOn, ResultsStay, Exists
  <2>7. ASSUME NEW s \in Runs PROVE RunOf(s)'
    <3>1. RunOf(s)
      BY DEF Inv, Kept
    <3>2. CASE s = r
      <4>1. \A i \in DOMAIN rows'[s] : rows'[s][i] = "pending" => run'[s].version = version'
        BY <3>2, <2>5
      <4> QED BY <3>1, <3>2, <4>1 DEF RunOf, Exists
    <3>3. CASE s # r
      BY <2>5, <3>1, <3>3 DEF RunOf, Exists
    <3> QED BY <3>2, <3>3
  <2>8. \A m \in Messages : ResultOf(m)'
    BY DEF Inv, Kept, ResultOf, Exists
  <2>9. ASSUME expiries = 0 PROVE ShownReplyIsTheResult'
    <3>1. ShownReplyIsTheResult
      BY <2>9 DEF Inv, Holds
    <3>2. rows'[r][1] \in {"dispatching", "delivered"} => rows[r] # <<>> /\ rows'[r][1] = rows[r][1]
      <4>1. CASE Len(rows[r]) = 0
        BY <2>3, <2>5, <4>1
      <4>2. CASE Len(rows[r]) # 0
        <5>1. 1 \in 1..Len(rows[r]) /\ rows[r] # <<>>
          BY <2>1, <2>3, <4>2
        <5> QED BY <2>3, <2>5, <5>1
      <4> QED BY <4>1, <4>2
    <3>3. \A s \in Runs : rows'[s] # <<>> /\ rows'[s][1] \in {"dispatching", "delivered"}
                            => rows[s] # <<>> /\ rows'[s][1] = rows[s][1]
      BY <2>5, <3>2
    <3>4. \A s \in Runs : rows'[s] # <<>> /\ rows'[s][1] \in {"dispatching", "delivered"} => result[run[s].msg] = s
      <4> TAKE s \in Runs
      <4> HAVE rows'[s] # <<>> /\ rows'[s][1] \in {"dispatching", "delivered"}
      <4>1. rows[s] # <<>> /\ rows[s][1] \in {"dispatching", "delivered"}
        BY <3>3
      <4> QED BY <2>9, <3>1, <4>1 DEF ShownReplyIsTheResult
    <3> QED BY <3>4 DEF ShownReplyIsTheResult
  <2> QED BY <2>5, <2>6, <2>7, <2>8, <2>9
<1> QED BY <1>1, <1>2

LEMMA EndLoopKeeps ==
  ASSUME Inv, NEW t \in Threads, EndLoop(t)
  PROVE  Inv'
<1> USE Constants
<1>1. /\ UNCHANGED <<version, receipt, result, run, ledger, lock, failures, expiries>>
      /\ thread[t].pc = "looping"
  BY DEF EndLoop, faults
<1>2. /\ thread[t] \in Thread /\ PlaceOf(t) /\ thread[t].msg \in Messages
      /\ thread[t].run \in Runs /\ Exists(thread[t].run) /\ run[thread[t].run].msg = thread[t].msg
      /\ run[thread[t].run].version = thread[t].version
  BY <1>1 DEF Inv, Typed, Kept, PlaceOf, OnRun
<1>3. PICK reply \in {Superseded, thread[t].run, Silent} :
        /\ thread' = [thread EXCEPT ![t].pc = "replied", ![t].reply = reply]
        /\ UNCHANGED rows \/ (AddRow(thread[t].run) /\ ~Stale(t))
  BY DEF EndLoop
<1>4. PICK new : new = [thread[t] EXCEPT !.pc = "replied", !.reply = reply]
  OBVIOUS
<1>5. /\ new \in Thread /\ new.pc = "replied" /\ new.msg = thread[t].msg /\ new.reply = reply
      /\ new.durable = thread[t].durable /\ new.run = thread[t].run /\ new.attempt = thread[t].attempt
      /\ new.version = thread[t].version
  <2>1. reply \in Replies
    BY <1>2 DEF Replies
  <2> QED BY <1>2, <1>4, <2>1 DEF Thread
<1>6. thread' = [thread EXCEPT ![t] = new]
  BY <1>3, <1>4 DEF Inv, Typed
<1>7. /\ thread' \in [Threads -> Thread] /\ thread'[t] = new
      /\ \A u \in Threads \ {t} : thread'[u] = thread[u]
  BY <1>5, <1>6, SetThread DEF Inv
<1>8. /\ rows' \in [Runs -> Seq(Turns)] /\ RunsGoOn /\ ResultsStay
      /\ \A s \in Runs : RunOf(s)'
      /\ \A m \in Messages : ResultOf(m)'
      /\ expiries = 0 => ShownReplyIsTheResult'
  <2>1. CASE UNCHANGED rows
    BY <1>1, <2>1, StoreSame DEF Inv, Typed
  <2>2. CASE AddRow(thread[t].run) /\ ~Stale(t)
    <3>1. run[thread[t].run].version = version
      BY <1>2, <2>2 DEF Stale
    <3> QED BY <1>1, <1>2, <2>2, <3>1, AddRowKeeps
  <2> QED BY <1>3, <2>1, <2>2
<1>9. PlaceOf(t)' /\ (expiries = 0 => HoldsOf(t)')
  <2>1. PlaceOf(t)'
    BY <1>1, <1>2, <1>5, <1>7 DEF PlaceOf, OnRun, Exists
  <2>2. ASSUME expiries = 0 PROVE HoldsOf(t)'
    <3>1. HoldsOf(t)
      BY <2>2 DEF Inv, Holds
    <3> QED BY <1>1, <1>2, <1>5, <1>7, <3>1 DEF PlaceOf, HoldsOf, OnRun, Inner
  <2> QED BY <2>1, <2>2
<1>10. Typed'
  BY <1>1, <1>7, <1>8 DEF Inv, Typed
<1> QED BY <1>1, <1>7, <1>8, <1>9, <1>10, StepKeeps

LEMMA MarkRecoverableKeeps ==
  ASSUME Inv, NEW t \in Threads, thread[t].pc \in OnRun, MarkRecoverable(t), UNCHANGED <<rows, version, result>>
  PROVE  /\ run' \in [Runs -> Run] /\ RunsGoOn /\ ResultsStay
         /\ \A r \in Runs : RunOf(r)'
         /\ \A m \in Messages : ResultOf(m)'
         /\ expiries = 0 => ShownReplyIsTheResult'
<1> USE Constants
<1>1. PICK r \in Runs : r = thread[t].run /\ run[r] \in Run /\ Exists(r)
  BY DEF Inv, Typed, Kept, PlaceOf
<1>2. CASE run' = run
  BY <1>2, StoreSame DEF Inv, Typed
<1>3. CASE run' # run
  <2>1. PICK ends \in {"failed", "recoverable"} : ends = IF run[r].attempts >= MaxAttempts THEN "failed" ELSE "recoverable"
    OBVIOUS
  <2>2. PICK row : row = [run[r] EXCEPT !.owner = None, !.leased = FALSE, !.status = ends]
    OBVIOUS
  <2>3. run' = [run EXCEPT ![r].owner = None, ![r].leased = FALSE, ![r].status = ends]
    BY <1>1, <1>3, <2>1 DEF MarkRecoverable
  <2>4. run' = [run EXCEPT ![r] = row]
    BY <1>1, <2>2, <2>3 DEF Inv, Typed
  <2>5. row = [run[r] EXCEPT !.owner = None, !.leased = FALSE, !.status = ends] /\ run' = [run EXCEPT ![r] = row]
    BY <2>2, <2>4
  <2>6. /\ row \in Run /\ row.msg = run[r].msg /\ row.version = run[r].version /\ row.status = ends
        /\ row.owner = None /\ row.final = run[r].final
    BY <1>1, <2>5 DEF Run, Unfinished, Finished
  <2>7. run' \in [Runs -> Run] /\ run'[r] = row /\ \A s \in Runs \ {r} : run'[s] = run[s]
    BY <2>5, <2>6 DEF Inv, Typed
  <2>8. RunsGoOn /\ ResultsStay
    BY <1>1, <2>6, <2>7 DEF Inv, Typed, RunsGoOn, ResultsStay, Exists
  <2>9. \A s \in Runs : run'[s].status \notin Unfinished => run'[s].owner = None
    BY <2>6, <2>7 DEF Inv, Kept, RunOf
  <2>10. \A s \in Runs : /\ ~Exists(s) => run'[s] = run[s]
                         /\ run'[s].final = run[s].final
                         /\ run'[s].status = "completed" => run[s].status = "completed"
    BY <1>1, <2>6, <2>7 DEF Exists
  <2> QED BY <2>7, <2>8, <2>9, <2>10, StoreKeeps
<1> QED BY <1>2, <1>3

LEMMA RunFailsKeeps ==
  ASSUME Inv, NEW t \in Threads, RunFails(t)
  PROVE  Inv'
<1> USE Constants
<1>1. /\ UNCHANGED <<version, receipt, result, rows, ledger, expiries>>
      /\ thread[t].pc \in OnRun /\ MarkRecoverable(t) /\ EndWith(t, NoReply) /\ lock' \in {lock, None}
  BY DEF RunFails, Unlock, OnRun
<1>2. {failures', expiries'} \subseteq 0..MaxFaults
  BY <1>1, BoundsAssumption DEF RunFails, FaultsLeft, Inv, Typed
<1>3. /\ thread' \in [Threads -> Thread]
      /\ \A u \in Threads \ {t} : thread'[u] = thread[u]
      /\ PlaceOf(t)' /\ (expiries = 0 => HoldsOf(t)')
  <2>1. NoReply \in Replies
    BY DEF Replies
  <2> QED BY <1>1, <2>1, EndKeeps
<1>4. /\ run' \in [Runs -> Run] /\ RunsGoOn /\ ResultsStay
      /\ \A r \in Runs : RunOf(r)'
      /\ \A m \in Messages : ResultOf(m)'
      /\ expiries = 0 => ShownReplyIsTheResult'
  BY <1>1, MarkRecoverableKeeps
<1>5. Typed'
  BY <1>1, <1>2, <1>3, <1>4 DEF Inv, Typed
<1>6. expiries = 0 => \A u \in Threads \ {t} : thread'[u].pc \notin Inner
  <2>1. expiries = 0 => lock = t
    BY <1>1 DEF Inv, Holds, HoldsOf, Inner
  <2> QED BY <1>3, <2>1, AloneInside DEF Inv
<1> QED BY <1>1, <1>3, <1>4, <1>5, <1>6, StepKeeps

----------------------------------------------------------------------------
(* Recovery.                                                               *)

LEMMA ClaimRunKeeps ==
  ASSUME Inv, NEW t \in Threads, ClaimRun(t)
  PROVE  Inv'
<1> USE Constants
<1>1. /\ UNCHANGED <<version, receipt, result, rows, ledger, failures, expiries>>
      /\ lock = None /\ lock' = t
  BY DEF ClaimRun, faults
<1>2. PICK r \in Runs :
        /\ Recoverable(r)
        /\ run' = [run EXCEPT ![r].status = "running", ![r].owner = Process[t],
                              ![r].leased = TRUE, ![r].attempts = @ + 1]
        /\ thread' = [thread EXCEPT ![t] = [Idle EXCEPT !.pc = "claimed", !.msg = run[r].msg,
                                                        !.version = run[r].version, !.run = r,
                                                        !.attempt = run[r].attempts + 1, !.step = run[r].step]]
  BY DEF ClaimRun
<1>3. run[r] \in Run /\ Exists(r) /\ run[r].msg \in Messages
  BY <1>2 DEF Inv, Typed, Kept, RunOf, Exists, Recoverable
<1>4. PICK new : new = [Idle EXCEPT !.pc = "claimed", !.msg = run[r].msg, !.version = run[r].version, !.run = r,
                                    !.attempt = run[r].attempts + 1, !.step = run[r].step]
  OBVIOUS
<1>5. /\ new \in Thread /\ new.pc = "claimed" /\ new.msg = run[r].msg /\ new.reply = NoReply
      /\ new.run = r /\ new.attempt = run[r].attempts + 1 /\ new.version = run[r].version
  <2>1. /\ run[r].version \in Nat /\ run[r].attempts + 1 \in Nat /\ run[r].step \in 1..(MaxSteps + 1)
    BY <1>3 DEF Run
  <2> QED BY <1>3, <1>4, <2>1 DEF Idle, Thread, Replies
<1>6. thread' = [thread EXCEPT ![t] = new]
  BY <1>2, <1>4
<1>7. /\ thread' \in [Threads -> Thread] /\ thread'[t] = new
      /\ \A u \in Threads \ {t} : thread'[u] = thread[u]
  BY <1>5, <1>6, SetThread DEF Inv
<1>8. PICK row : row = [run[r] EXCEPT !.status = "running", !.owner = Process[t], !.leased = TRUE,
                                      !.attempts = run[r].attempts + 1]
  OBVIOUS
<1>9. /\ row \in Run /\ row.msg = run[r].msg /\ row.version = run[r].version /\ row.status = "running"
      /\ row.attempts = run[r].attempts + 1 /\ row.final = run[r].final
  <2>1. run[r].attempts + 1 \in Nat
    BY <1>3 DEF Run
  <2> QED BY <1>3, <1>8, <2>1 DEF Run, Processes, Unfinished
<1>10. /\ run' \in [Runs -> Run] /\ run'[r] = row
       /\ \A s \in Runs \ {r} : run'[s] = run[s]
  <2>1. run' = [run EXCEPT ![r] = row]
    BY <1>2, <1>8 DEF Inv, Typed
  <2> QED BY <1>9, <2>1 DEF Inv, Typed
<1>11. RunsGoOn /\ ResultsStay
  BY <1>1, <1>3, <1>9, <1>10 DEF Inv, Typed, RunsGoOn, ResultsStay, Exists
<1>12. \A s \in Runs : run'[s].status \notin Unfinished => run'[s].owner = None
  BY <1>9, <1>10 DEF Inv, Kept, RunOf, Unfinished
<1>13. /\ \A s \in Runs : RunOf(s)'
       /\ \A m \in Messages : ResultOf(m)'
       /\ expiries = 0 => ShownReplyIsTheResult'
  <2>1. \A s \in Runs : /\ ~Exists(s) => run'[s] = run[s]
                        /\ run'[s].final = run[s].final
                        /\ run'[s].status = "completed" => run[s].status = "completed"
    BY <1>3, <1>9, <1>10
  <2> QED BY <1>1, <1>11, <1>12, <2>1, StoreKeeps
<1>14. PlaceOf(t)' /\ HoldsOf(t)'
  BY <1>1, <1>3, <1>5, <1>7, <1>9, <1>10 DEF PlaceOf, HoldsOf, OnRun, Inner, Exists
<1>15. Typed'
  BY <1>1, <1>7, <1>10 DEF Inv, Typed
<1>16. expiries = 0 => \A u \in Threads \ {t} : thread'[u].pc \notin Inner
  BY <1>1, <1>7, AloneInside DEF Inv
<1> QED BY <1>1, <1>7, <1>11, <1>13, <1>14, <1>15, <1>16, StepKeeps

LEMMA DropStaleRunKeeps ==
  ASSUME Inv, NEW t \in Threads, DropStaleRun(t)
  PROVE  Inv'
<1> USE Constants
<1>1. /\ UNCHANGED <<version, receipt, result, rows, ledger, failures, expiries>>
      /\ thread[t].pc = "claimed" /\ SupersedeBefore(version) /\ EndWith(t, NoReply) /\ lock' \in {lock, None}
  BY DEF DropStaleRun, Unlock, faults
<1>2. /\ thread' \in [Threads -> Thread]
      /\ \A u \in Threads \ {t} : thread'[u] = thread[u]
      /\ PlaceOf(t)' /\ (expiries = 0 => HoldsOf(t)')
  <2>1. NoReply \in Replies
    BY DEF Replies
  <2> QED BY <1>1, <2>1, EndKeeps
<1>3. /\ run' \in [Runs -> Run] /\ RunsGoOn /\ ResultsStay
      /\ \A r \in Runs : RunOf(r)'
      /\ \A m \in Messages : ResultOf(m)'
      /\ expiries = 0 => ShownReplyIsTheResult'
  BY <1>1, SupersedeBeforeKeeps
<1>4. Typed'
  BY <1>1, <1>2, <1>3 DEF Inv, Typed
<1>5. expiries = 0 => \A u \in Threads \ {t} : thread'[u].pc \notin Inner
  <2>1. expiries = 0 => lock = t
    BY <1>1 DEF Inv, Holds, HoldsOf, Inner, OnRun
  <2> QED BY <1>2, <2>1, AloneInside DEF Inv
<1> QED BY <1>1, <1>2, <1>3, <1>4, <1>5, StepKeeps

LEMMA ResumeRunKeeps ==
  ASSUME Inv, NEW t \in Threads, ResumeRun(t)
  PROVE  Inv'
<1> USE Constants
<1>1. /\ UNCHANGED <<version, receipt, result, run, rows, ledger, lock, failures, expiries>>
      /\ thread[t].pc = "claimed"
  BY DEF ResumeRun, store, faults
<1>2. /\ thread[t] \in Thread /\ PlaceOf(t) /\ thread[t].msg \in Messages
      /\ thread[t].run \in Runs /\ Exists(thread[t].run) /\ run[thread[t].run].msg = thread[t].msg
  BY <1>1 DEF Inv, Typed, Kept, PlaceOf, OnRun
<1>3. PICK known, final : known = result[thread[t].msg] /\ final = run[thread[t].run].final
  OBVIOUS
<1>4. /\ known \in Replies /\ final \in {NoReply} \cup Runs
      /\ known \in Runs => Exists(known) /\ run[known].msg = thread[t].msg
      /\ final \in Runs => Exists(final) /\ run[final].msg = thread[t].msg
  <2>1. run[thread[t].run] \in Run /\ result[thread[t].msg] \in Replies
    BY <1>2 DEF Inv, Typed
  <2>2. RunOf(thread[t].run) /\ ResultOf(thread[t].msg)
    BY <1>2 DEF Inv, Kept
  <2> QED BY <1>2, <1>3, <2>1, <2>2 DEF Run, RunOf, ResultOf
<1>5. PICK pc, reply, durable :
        /\ pc = IF known # NoReply \/ final # NoReply THEN "finishing" ELSE "looping"
        /\ reply = IF known # NoReply THEN known ELSE final
        /\ durable = (known # NoReply)
  OBVIOUS
<1>6. /\ pc \in {"finishing", "looping"} /\ reply \in Replies /\ durable \in BOOLEAN
      /\ pc = "finishing" => reply # NoReply
      /\ reply \in Runs => Exists(reply) /\ run[reply].msg = thread[t].msg
      /\ durable => reply = result[thread[t].msg] /\ result[thread[t].msg] # NoReply
      /\ ~durable => result[thread[t].msg] = NoReply
      /\ pc = "looping" => ~durable
  BY <1>3, <1>4, <1>5 DEF Replies
<1>7. PICK new : new = [thread[t] EXCEPT !.pc = pc, !.reply = reply, !.durable = durable]
  OBVIOUS
<1>8. /\ new \in Thread /\ new.pc = pc /\ new.msg = thread[t].msg /\ new.reply = reply
      /\ new.durable = durable /\ new.run = thread[t].run /\ new.attempt = thread[t].attempt
      /\ new.version = thread[t].version
  BY <1>2, <1>6, <1>7 DEF Thread
<1>9. thread' = [thread EXCEPT ![t] = new]
  BY <1>3, <1>5, <1>7 DEF ResumeRun, Inv, Typed
<1>10. /\ thread' \in [Threads -> Thread] /\ thread'[t] = new
       /\ \A u \in Threads \ {t} : thread'[u] = thread[u]
  BY <1>8, <1>9, SetThread DEF Inv
<1>11. PlaceOf(t)' /\ (expiries = 0 => HoldsOf(t)')
  <2>1. PlaceOf(t)'
    BY <1>1, <1>2, <1>6, <1>8, <1>10 DEF PlaceOf, OnRun, Exists
  <2>2. ASSUME expiries = 0 PROVE HoldsOf(t)'
    <3>1. HoldsOf(t)
      BY <2>2 DEF Inv, Holds
    <3> QED BY <1>1, <1>2, <1>6, <1>8, <1>10, <3>1 DEF HoldsOf, OnRun, Inner
  <2> QED BY <2>1, <2>2
<1>12. Typed'
  BY <1>1, <1>10 DEF Inv, Typed
<1> QED BY <1>1, <1>10, <1>11, <1>12, StoreSame, StepKeeps

----------------------------------------------------------------------------
(* Finishing.                                                              *)

LEMMA HandOverRecoveredKeeps ==
  ASSUME Inv, NEW t \in Threads, HandOverRecovered(t)
  PROVE  Inv'
<1> USE Constants
<1>1. /\ UNCHANGED <<version, receipt, result, run, rows, lock, failures, expiries>>
      /\ thread[t].pc = "finishing"
  BY DEF HandOverRecovered, store, faults
<1>2. /\ thread[t] \in Thread /\ PlaceOf(t) /\ thread[t].msg \in Messages
      /\ thread[t].run \in Runs /\ Exists(thread[t].run) /\ run[thread[t].run].msg = thread[t].msg
  BY <1>1 DEF Inv, Typed, Kept, PlaceOf, OnRun
<1>3. PICK reply \in {Superseded, thread[t].reply} :
        thread' = [thread EXCEPT ![t].pc = "handed_over", ![t].reply = reply]
  BY DEF HandOverRecovered
<1>4. PICK new : new = [thread[t] EXCEPT !.pc = "handed_over", !.reply = reply]
  OBVIOUS
<1>5. /\ new \in Thread /\ new.pc = "handed_over" /\ new.msg = thread[t].msg /\ new.reply = reply
      /\ new.durable = thread[t].durable /\ new.run = thread[t].run /\ new.attempt = thread[t].attempt
      /\ new.version = thread[t].version
  <2>1. reply \in Replies
    BY <1>2 DEF Thread, Replies
  <2> QED BY <1>2, <1>4, <2>1 DEF Thread
<1>6. thread' = [thread EXCEPT ![t] = new]
  BY <1>3, <1>4 DEF Inv, Typed
<1>7. /\ thread' \in [Threads -> Thread] /\ thread'[t] = new
      /\ \A u \in Threads \ {t} : thread'[u] = thread[u]
  BY <1>5, <1>6, SetThread DEF Inv
<1>8. PlaceOf(t)' /\ (expiries = 0 => HoldsOf(t)')
  <2>1. PlaceOf(t)'
    BY <1>1, <1>2, <1>5, <1>7 DEF PlaceOf, OnRun, Exists
  <2>2. ASSUME expiries = 0 PROVE HoldsOf(t)'
    <3>1. HoldsOf(t)
      BY <2>2 DEF Inv, Holds
    <3> QED BY <1>1, <1>2, <1>5, <1>7, <3>1 DEF HoldsOf, OnRun, Inner
  <2> QED BY <2>1, <2>2
<1>9. Typed'
  <2>1. ledger' \subseteq Messages \cup Runs
    BY <1>2 DEF HandOverRecovered, Inv, Typed
  <2> QED BY <1>1, <1>7, <2>1 DEF Inv, Typed
<1> QED BY <1>1, <1>7, <1>8, <1>9, StoreSame, StepKeeps

LEMMA RememberResultKeeps ==
  ASSUME Inv, NEW t \in Threads, RememberResult(t)
  PROVE  Inv'
<1> USE Constants
<1>1. /\ UNCHANGED <<version, receipt, run, rows, ledger, lock, failures, expiries>>
      /\ thread[t].pc \in {"finishing", "handed_over"}
  BY DEF RememberResult, faults
<1>2. /\ thread[t] \in Thread /\ PlaceOf(t) /\ thread[t].msg \in Messages
      /\ thread[t].run \in Runs /\ Exists(thread[t].run) /\ run[thread[t].run].msg = thread[t].msg
  BY <1>1 DEF Inv, Typed, Kept, PlaceOf, OnRun
<1>3. PICK reply \in {Superseded, thread[t].reply} :
        /\ thread' = [thread EXCEPT ![t].pc = "completing", ![t].reply = reply]
        /\ IF thread[t].durable THEN UNCHANGED result ELSE Remember(thread[t].msg, reply)
  BY DEF RememberResult
<1>4. reply \in Replies /\ reply # NoReply /\ (reply \in Runs => Exists(reply) /\ run[reply].msg = thread[t].msg)
  BY <1>1, <1>2 DEF Thread, Replies, PlaceOf
<1>5. PICK new : new = [thread[t] EXCEPT !.pc = "completing", !.reply = reply]
  OBVIOUS
<1>6. /\ new \in Thread /\ new.pc = "completing" /\ new.msg = thread[t].msg /\ new.reply = reply
      /\ new.durable = thread[t].durable /\ new.run = thread[t].run /\ new.attempt = thread[t].attempt
      /\ new.version = thread[t].version
  BY <1>2, <1>4, <1>5 DEF Thread
<1>7. thread' = [thread EXCEPT ![t] = new]
  BY <1>3, <1>5 DEF Inv, Typed
<1>8. /\ thread' \in [Threads -> Thread] /\ thread'[t] = new
      /\ \A u \in Threads \ {t} : thread'[u] = thread[u]
  BY <1>6, <1>7, SetThread DEF Inv
<1>9. /\ result' \in [Messages -> Replies] /\ result'[thread[t].msg] # NoReply
      /\ \A m \in Messages : result'[m] = result[m] \/ (m = thread[t].msg /\ result[m] = NoReply /\ result'[m] = reply)
  BY <1>1, <1>2, <1>3, <1>4 DEF Remember, Inv, Typed, PlaceOf
<1>10. RunsGoOn /\ ResultsStay
  BY <1>1, <1>9 DEF Inv, Typed, RunsGoOn, ResultsStay, Exists
<1>11. /\ \A s \in Runs : RunOf(s)'
       /\ \A m \in Messages : ResultOf(m)'
       /\ expiries = 0 => ShownReplyIsTheResult'
  <2>1. \A s \in Runs : run'[s].status \notin Unfinished => run'[s].owner = None
    BY <1>1 DEF Inv, Kept, RunOf
  <2>2. \A m \in Messages : \/ result'[m] = result[m] \/ result'[m] \notin Runs
                            \/ Exists(result'[m]) /\ run[result'[m]].msg = m
    BY <1>4, <1>9
  <2> QED BY <1>1, <1>10, <2>1, <2>2, StoreKeeps
<1>12. PlaceOf(t)' /\ (expiries = 0 => HoldsOf(t)')
  <2>1. PlaceOf(t)'
    BY <1>1, <1>2, <1>4, <1>6, <1>8, <1>9 DEF PlaceOf, OnRun, Exists
  <2>2. ASSUME expiries = 0 PROVE HoldsOf(t)'
    <3>1. HoldsOf(t)
      BY <2>2 DEF Inv, Holds
    <3>2. reply \in Runs => result'[thread[t].msg] = reply
      <4>1. CASE thread[t].durable
        BY <1>1, <1>3, <3>1, <4>1 DEF HoldsOf
      <4>2. CASE ~thread[t].durable
        <5>1. result[thread[t].msg] = NoReply
          BY <1>1, <3>1, <4>2 DEF HoldsOf
        <5> QED BY <1>2, <1>9, <5>1
      <4> QED BY <4>1, <4>2
    <3> QED BY <1>1, <1>2, <1>6, <1>8, <3>1, <3>2 DEF HoldsOf, OnRun, Inner
  <2> QED BY <2>1, <2>2
<1>13. Typed'
  BY <1>1, <1>8, <1>9 DEF Inv, Typed
<1>14. expiries = 0 => \A u \in Threads \ {t} : thread'[u].pc \notin Inner
  <2>1. expiries = 0 => lock = t
    BY <1>1 DEF Inv, Holds, HoldsOf, Inner, OnRun
  <2> QED BY <1>8, <2>1, AloneInside DEF Inv
<1> QED BY <1>1, <1>8, <1>10, <1>11, <1>12, <1>13, <1>14, StepKeeps

LEMMA CompleteRunKeeps ==
  ASSUME Inv, NEW t \in Threads, CompleteRun(t)
  PROVE  Inv'
<1> USE Constants
<1>1. /\ UNCHANGED <<version, receipt, result, rows, ledger, failures, expiries>>
      /\ thread[t].pc = "completing" /\ lock' \in {lock, None}
  BY DEF CompleteRun, Unlock, faults
<1>2. /\ thread[t] \in Thread /\ PlaceOf(t) /\ thread[t].msg \in Messages
      /\ thread[t].run \in Runs /\ Exists(thread[t].run) /\ run[thread[t].run].msg = thread[t].msg
      /\ result[thread[t].msg] # NoReply
  BY <1>1 DEF Inv, Typed, Kept, PlaceOf, OnRun
<1>3. PICK r \in Runs : r = thread[t].run /\ run[r] \in Run /\ Exists(r) /\ run[r].msg = thread[t].msg
  BY <1>2 DEF Inv, Typed
<1>4. PICK reply \in {NoReply, thread[t].reply} : EndWith(t, reply)
  BY DEF CompleteRun
<1>5. reply \in Replies /\ (reply \in Runs => reply = thread[t].reply /\ Exists(reply) /\ run[reply].msg = thread[t].msg)
  BY <1>1, <1>2 DEF Thread, Replies, PlaceOf
<1>6. PICK ends \in {"superseded", "completed"} : ends = IF thread[t].reply = Superseded THEN "superseded" ELSE "completed"
  OBVIOUS
<1>7. PICK row : row = [run[r] EXCEPT !.owner = None, !.leased = FALSE, !.status = ends]
  OBVIOUS
<1>8. /\ row \in Run /\ row.msg = run[r].msg /\ row.version = run[r].version /\ row.status = ends
      /\ row.owner = None /\ row.final = run[r].final
  BY <1>3, <1>7 DEF Run, Unfinished, Finished
<1>9. run' = run \/ run' = [run EXCEPT ![r] = row]
  <2>1. run' = run \/ run' = [run EXCEPT ![r].owner = None, ![r].leased = FALSE, ![r].status = ends]
    BY <1>3, <1>6 DEF CompleteRun
  <2> QED BY <1>3, <1>7, <2>1 DEF Inv, Typed
<1>10. /\ run' \in [Runs -> Run]
       /\ run'[r] = run[r] \/ run'[r] = row
       /\ \A s \in Runs \ {r} : run'[s] = run[s]
  BY <1>8, <1>9 DEF Inv, Typed
<1>11. RunsGoOn /\ ResultsStay
  BY <1>1, <1>3, <1>8, <1>10 DEF Inv, Typed, RunsGoOn, ResultsStay, Exists
<1>12. /\ \A s \in Runs : RunOf(s)'
       /\ \A m \in Messages : ResultOf(m)'
       /\ expiries = 0 => ShownReplyIsTheResult'
  <2>1. \A s \in Runs : run'[s].status \notin Unfinished => run'[s].owner = None
    BY <1>8, <1>10 DEF Inv, Kept, RunOf
  <2>2. \A s \in Runs : /\ ~Exists(s) => run'[s] = run[s]
                        /\ run'[s].final = run[s].final
                        /\ run'[s].status = "completed" => run[s].status = "completed" \/ result'[run[s].msg] # NoReply
    BY <1>1, <1>2, <1>3, <1>8, <1>10
  <2> QED BY <1>1, <1>11, <2>1, <2>2, StoreKeeps
<1>13. /\ thread' \in [Threads -> Thread]
       /\ \A u \in Threads \ {t} : thread'[u] = thread[u]
       /\ PlaceOf(t)' /\ (expiries = 0 => HoldsOf(t)')
  <2>1. reply \in Runs => /\ thread[t].msg \in Messages
                          /\ run'[reply].status # "absent" /\ run'[reply].msg = thread[t].msg
    BY <1>2, <1>5, <1>11 DEF RunsGoOn
  <2>2. expiries = 0 /\ reply \in Runs => result'[thread[t].msg] = reply
    BY <1>1, <1>5 DEF Inv, Holds, HoldsOf
  <2> QED BY <1>4, <1>5, <2>1, <2>2, EndKeeps
<1>14. Typed'
  BY <1>1, <1>10, <1>13 DEF Inv, Typed
<1>15. expiries = 0 => \A u \in Threads \ {t} : thread'[u].pc \notin Inner
  <2>1. expiries = 0 => lock = t
    BY <1>1 DEF Inv, Holds, HoldsOf, Inner, OnRun
  <2> QED BY <1>13, <2>1, AloneInside DEF Inv
<1> QED BY <1>1, <1>11, <1>12, <1>13, <1>14, <1>15, StepKeeps

----------------------------------------------------------------------------
(* Delivery.                                                               *)

\* A run's turns are marked; none begins to wait, and the first is only taken up
\* for the result of its message.
LEMMA TurnsKeep ==
  ASSUME Inv, NEW r \in Runs, Exists(r), NEW turns \in Seq(Turns), rows' = [rows EXCEPT ![r] = turns],
         \A i \in DOMAIN turns : turns[i] = "pending" => i \in DOMAIN rows[r] /\ rows[r][i] = "pending",
         expiries = 0 => result[run[r].msg] = r,
         UNCHANGED <<run, result, version>>
  PROVE  /\ rows' \in [Runs -> Seq(Turns)] /\ RunsGoOn /\ ResultsStay
         /\ \A s \in Runs : RunOf(s)'
         /\ \A m \in Messages : ResultOf(m)'
         /\ expiries = 0 => ShownReplyIsTheResult'
<1> USE Constants
<1>1. rows' \in [Runs -> Seq(Turns)] /\ rows'[r] = turns /\ \A s \in Runs \ {r} : rows'[s] = rows[s]
  BY DEF Inv, Typed
<1>2. RunsGoOn /\ ResultsStay
  BY DEF Inv, Typed, RunsGoOn, ResultsStay, Exists
<1>3. ASSUME NEW s \in Runs PROVE RunOf(s)'
  <2>1. RunOf(s)
    BY DEF Inv, Kept
  <2>2. CASE s = r
    <3>1. \A i \in DOMAIN rows'[s] : rows'[s][i] = "pending" => run'[s].version = version'
      BY <1>1, <2>1, <2>2 DEF RunOf
    <3> QED BY <2>1, <2>2, <3>1 DEF RunOf, Exists
  <2>3. CASE s # r
    BY <1>1, <2>1, <2>3 DEF RunOf, Exists
  <2> QED BY <2>2, <2>3
<1>4. \A m \in Messages : ResultOf(m)'
  BY DEF Inv, Kept, ResultOf, Exists
<1>5. ASSUME expiries = 0 PROVE ShownReplyIsTheResult'
  <2>1. ShownReplyIsTheResult
    BY <1>5 DEF Inv, Holds
  <2>2. \A s \in Runs : rows'[s] # <<>> /\ rows'[s][1] \in {"dispatching", "delivered"} => result[run[s].msg] = s
    <3> TAKE s \in Runs
    <3> HAVE rows'[s] # <<>> /\ rows'[s][1] \in {"dispatching", "delivered"}
    <3>1. CASE s = r
      BY <1>5, <3>1
    <3>2. CASE s # r
      BY <1>1, <1>5, <2>1, <3>2 DEF ShownReplyIsTheResult
    <3> QED BY <3>1, <3>2
  <2> QED BY <2>2 DEF ShownReplyIsTheResult
<1> QED BY <1>1, <1>2, <1>3, <1>4, <1>5

LEMMA ClaimReplyDeliveryKeeps ==
  ASSUME Inv, NEW t \in Threads, ClaimReplyDelivery(t)
  PROVE  Inv'
<1> USE Constants
<1>1. /\ UNCHANGED <<version, receipt, result, run, ledger, lock, failures, expiries>>
      /\ thread[t].pc = "returned"
  BY DEF ClaimReplyDelivery, faults
<1>2. PICK r \in Runs : r = thread[t].reply /\ Exists(r) /\ run[r].msg = thread[t].msg
  BY <1>1 DEF Inv, Kept, PlaceOf
<1>3. /\ thread[t] \in Thread /\ PlaceOf(t) /\ thread[t].msg \in Messages /\ rows[r] \in Seq(Turns)
  BY <1>1 DEF Inv, Typed, Kept, PlaceOf
<1>4. CASE Deliverable(thread[t].reply)
  <2>1. PICK first \in {"dispatching", "delivered"} : first = IF rows[r][1] = "delivered" THEN "delivered" ELSE "dispatching"
    OBVIOUS
  <2>2. PICK turns : turns = [rows[r] EXCEPT ![1] = first]
    OBVIOUS
  <2>3. rows' = [rows EXCEPT ![r] = turns]
    BY <1>2, <1>4, <2>1, <2>2 DEF ClaimReplyDelivery
  <2>4. /\ turns \in Seq(Turns) /\ DOMAIN turns = DOMAIN rows[r]
        /\ \A i \in DOMAIN turns : turns[i] = rows[r][i] \/ turns[i] = first
    <3>1. first \in Turns
      BY <2>1 DEF Turns
    <3>2. Len(rows[r]) \in Nat /\ rows[r] \in [1..Len(rows[r]) -> Turns]
      BY <1>3
    <3>3. turns \in [1..Len(rows[r]) -> Turns] /\ DOMAIN turns = DOMAIN rows[r]
          /\ \A i \in DOMAIN turns : turns[i] = rows[r][i] \/ turns[i] = first
      BY <2>2, <3>1, <3>2
    <3> QED BY <3>2, <3>3, SeqDef
  <2>5. \A i \in DOMAIN turns : turns[i] = "pending" => i \in DOMAIN rows[r] /\ rows[r][i] = "pending"
    BY <2>1, <2>4
  <2>6. expiries = 0 => result[run[r].msg] = r
    BY <1>1, <1>2 DEF Inv, Holds, HoldsOf
  <2>7. /\ rows' \in [Runs -> Seq(Turns)] /\ RunsGoOn /\ ResultsStay
        /\ \A s \in Runs : RunOf(s)'
        /\ \A m \in Messages : ResultOf(m)'
        /\ expiries = 0 => ShownReplyIsTheResult'
    BY <1>1, <1>2, <2>3, <2>4, <2>5, <2>6, TurnsKeep
  <2>8. PICK new : new = [thread[t] EXCEPT !.pc = "writing"]
    OBVIOUS
  <2>9. new \in Thread /\ new.pc = "writing" /\ new.msg = thread[t].msg /\ new.reply = r /\ new.durable = thread[t].durable
    BY <1>2, <1>3, <2>8 DEF Thread
  <2>10. thread' = [thread EXCEPT ![t] = new]
    BY <1>2, <1>4, <2>8 DEF ClaimReplyDelivery, GoTo
  <2>11. /\ thread' \in [Threads -> Thread] /\ thread'[t] = new
         /\ \A u \in Threads \ {t} : thread'[u] = thread[u]
    BY <2>9, <2>10, SetThread DEF Inv
  <2>12. PlaceOf(t)' /\ (expiries = 0 => HoldsOf(t)')
    <3>1. PlaceOf(t)'
      BY <1>1, <1>2, <1>3, <2>9, <2>11 DEF PlaceOf, OnRun, Exists
    <3>2. ASSUME expiries = 0 PROVE HoldsOf(t)'
      BY <1>1, <1>2, <2>6, <2>9, <2>11, <3>2 DEF HoldsOf, OnRun, Inner
    <3> QED BY <3>1, <3>2
  <2>13. Typed'
    BY <1>1, <2>7, <2>11 DEF Inv, Typed
  <2> QED BY <1>1, <2>7, <2>11, <2>12, <2>13, StepKeeps
<1>5. CASE ~Deliverable(thread[t].reply)
  <2>1. UNCHANGED rows /\ EndWith(t, NoReply)
    BY <1>5 DEF ClaimReplyDelivery
  <2>2. NoReply \in Replies
    BY DEF Replies
  <2>3. /\ thread' \in [Threads -> Thread]
        /\ \A u \in Threads \ {t} : thread'[u] = thread[u]
        /\ PlaceOf(t)' /\ (expiries = 0 => HoldsOf(t)')
    BY <2>1, <2>2, EndKeeps
  <2>4. Typed'
    BY <1>1, <2>1, <2>3 DEF Inv, Typed
  <2> QED BY <1>1, <2>1, <2>3, <2>4, StoreSame, StepKeeps
<1> QED BY <1>4, <1>5

LEMMA MarkReplyDeliveredKeeps ==
  ASSUME Inv, NEW t \in Threads, MarkReplyDelivered(t)
  PROVE  Inv'
<1> USE Constants
<1>1. /\ UNCHANGED <<version, receipt, result, run, ledger, lock, failures, expiries>>
      /\ thread[t].pc = "writing" /\ EndWith(t, NoReply)
  BY DEF MarkReplyDelivered, faults
<1>2. PICK r \in Runs : r = thread[t].reply /\ Exists(r) /\ run[r].msg = thread[t].msg
  BY <1>1 DEF Inv, Kept, PlaceOf
<1>3. rows[r] \in Seq(Turns)
  BY DEF Inv, Typed
<1>4. PICK turns : turns = [i \in DOMAIN rows[r] |-> IF rows[r][i] = "superseded" THEN rows[r][i] ELSE "delivered"]
  OBVIOUS
<1>5. rows' = [rows EXCEPT ![r] = turns]
  BY <1>2, <1>4 DEF MarkReplyDelivered
<1>6. turns \in Seq(Turns) /\ \A i \in DOMAIN turns : turns[i] # "pending"
  <2>1. turns \in [1..Len(rows[r]) -> Turns] /\ \A i \in DOMAIN turns : turns[i] # "pending"
    BY <1>3, <1>4 DEF Turns
  <2>2. Len(rows[r]) \in Nat
    BY <1>3
  <2> QED BY <2>1, <2>2, SeqDef
<1>7. expiries = 0 => result[run[r].msg] = r
  BY <1>1, <1>2 DEF Inv, Holds, HoldsOf
<1>8. /\ rows' \in [Runs -> Seq(Turns)] /\ RunsGoOn /\ ResultsStay
      /\ \A s \in Runs : RunOf(s)'
      /\ \A m \in Messages : ResultOf(m)'
      /\ expiries = 0 => ShownReplyIsTheResult'
  BY <1>1, <1>2, <1>5, <1>6, <1>7, TurnsKeep
<1>9. /\ thread' \in [Threads -> Thread]
      /\ \A u \in Threads \ {t} : thread'[u] = thread[u]
      /\ PlaceOf(t)' /\ (expiries = 0 => HoldsOf(t)')
  <2>1. NoReply \in Replies
    BY DEF Replies
  <2> QED BY <1>1, <2>1, EndKeeps
<1>10. Typed'
  BY <1>1, <1>8, <1>9 DEF Inv, Typed
<1> QED BY <1>1, <1>8, <1>9, <1>10, StepKeeps

LEMMA AutoSendReplyKeeps ==
  ASSUME Inv, NEW t \in Threads, AutoSendReply(t)
  PROVE  Inv'
<1> USE Constants
<1>1. /\ UNCHANGED <<version, receipt, result, run, rows, lock, failures, expiries>>
      /\ thread[t].pc = "returned" /\ EndWith(t, NoReply) /\ ledger' = ledger \cup {thread[t].msg}
  BY DEF AutoSendReply, store, faults
<1>2. thread[t].msg \in Messages
  BY <1>1 DEF Inv, Kept, PlaceOf
<1>3. /\ thread' \in [Threads -> Thread]
      /\ \A u \in Threads \ {t} : thread'[u] = thread[u]
      /\ PlaceOf(t)' /\ (expiries = 0 => HoldsOf(t)')
  <2>1. NoReply \in Replies
    BY DEF Replies
  <2> QED BY <1>1, <2>1, EndKeeps
<1>4. Typed'
  BY <1>1, <1>2, <1>3 DEF Inv, Typed
<1> QED BY <1>1, <1>3, <1>4, StoreSame, StepKeeps

----------------------------------------------------------------------------
(* Faults, and the invariant.                                              *)

LEMMA CrashKeeps ==
  ASSUME Inv, NEW p, Crash(p)
  PROVE  Inv'
<1> USE Constants
<1>1. /\ UNCHANGED <<version, receipt, result, run, rows, ledger, expiries>>
      /\ lock' = IF lock # None /\ Process[lock] = p THEN None ELSE lock
      /\ thread' = [t \in Threads |-> IF Process[t] = p THEN Idle ELSE thread[t]]
  BY DEF Crash, store
<1>2. {failures', expiries'} \subseteq 0..MaxFaults
  BY <1>1, BoundsAssumption DEF Crash, FaultsLeft, Inv, Typed
<1>3. thread' \in [Threads -> Thread]
  <2>1. Idle \in Thread
    <3>1. 1 \in 1..(MaxSteps + 1)
      BY BoundsAssumption
    <3> QED BY <3>1 DEF Idle, Thread, Replies
  <2> QED BY <1>1, <2>1 DEF Inv, Typed
<1>4. \A u \in Threads : thread'[u] = Idle \/ (thread'[u] = thread[u] /\ Process[u] # p)
  BY <1>1
<1>5. Typed'
  BY <1>1, <1>2, <1>3 DEF Inv, Typed
<1>6. expiries = 0 => \A u \in Threads : thread'[u].pc \in Inner => lock' = lock
  <2> SUFFICES ASSUME expiries = 0, NEW u \in Threads, thread'[u].pc \in Inner PROVE lock' = lock
    OBVIOUS
  <2>1. thread'[u] = thread[u] /\ Process[u] # p
    BY <1>4 DEF Idle, Inner, OnRun
  <2>2. lock = u
    BY <2>1 DEF Inv, Holds, HoldsOf
  <2> QED BY <1>1, <2>1, <2>2
<1> QED BY <1>1, <1>4, <1>5, <1>6, StoreSame, StepKeeps

LEMMA LeaseRunsOutKeeps ==
  ASSUME Inv, NEW r \in Runs, LeaseRunsOut(r)
  PROVE  Inv'
<1> USE Constants
<1>1. /\ UNCHANGED <<version, receipt, result, rows, ledger, lock, thread, failures, expiries>>
      /\ run[r].status = "running" /\ run[r] \in Run /\ run' = [run EXCEPT ![r].leased = FALSE]
  BY DEF LeaseRunsOut, faults, Inv, Typed
<1>2. PICK row : row = [run[r] EXCEPT !.leased = FALSE]
  OBVIOUS
<1>3. /\ row \in Run /\ row.msg = run[r].msg /\ row.version = run[r].version /\ row.status = "running"
      /\ row.attempts = run[r].attempts /\ row.final = run[r].final
  BY <1>1, <1>2 DEF Run
<1>4. /\ run' \in [Runs -> Run] /\ run'[r] = row
      /\ \A s \in Runs \ {r} : run'[s] = run[s]
  <2>1. run' = [run EXCEPT ![r] = row]
    BY <1>1, <1>2 DEF Inv, Typed
  <2> QED BY <1>3, <2>1 DEF Inv, Typed
<1>5. RunsGoOn /\ ResultsStay
  BY <1>1, <1>3, <1>4 DEF Inv, Typed, RunsGoOn, ResultsStay, Exists
<1>6. /\ \A s \in Runs : RunOf(s)'
      /\ \A m \in Messages : ResultOf(m)'
      /\ expiries = 0 => ShownReplyIsTheResult'
  <2>1. \A s \in Runs : run'[s].status \notin Unfinished => run'[s].owner = None
    BY <1>3, <1>4 DEF Inv, Kept, RunOf, Unfinished
  <2>2. \A s \in Runs : /\ ~Exists(s) => run'[s] = run[s]
                        /\ run'[s].final = run[s].final
                        /\ run'[s].status = "completed" => run[s].status = "completed"
    BY <1>1, <1>3, <1>4 DEF Exists
  <2> QED BY <1>1, <1>5, <2>1, <2>2, StoreKeeps
<1>7. Typed'
  BY <1>1, <1>4 DEF Inv, Typed
<1>8. \A s \in Runs : run'[s].attempts = run[s].attempts
  BY <1>3, <1>4
<1>9. expiries = 0 => \A u \in Threads : thread[u].pc \in OnRun => thread[u].run \in Runs
  BY DEF Inv, Kept, PlaceOf
<1> QED BY <1>1, <1>5, <1>6, <1>7, <1>8, <1>9, StepKeeps

\* Once a lock ran out, what rests on the lock is owed no more.
LEMMA LockRunsOutKeeps ==
  ASSUME Inv, LockRunsOut
  PROVE  Inv'
<1> USE Constants
<1>1. /\ UNCHANGED <<version, receipt, result, run, rows, ledger, thread, failures>>
      /\ expiries' = expiries + 1 /\ lock' = None
  BY DEF LockRunsOut, store
<1>2. {failures', expiries'} \subseteq 0..MaxFaults /\ expiries' # 0
  BY <1>1, BoundsAssumption DEF LockRunsOut, FaultsLeft, Inv, Typed
<1>3. Typed'
  BY <1>1, <1>2 DEF Inv, Typed
<1>4. Kept'
  BY <1>1 DEF Inv, Kept, PlaceOf, RunOf, ResultOf, Exists
<1> QED BY <1>2, <1>3, <1>4 DEF Inv, Holds

LEMMA NextKeeps ==
  ASSUME Inv, [Next]_vars
  PROVE  Inv'
<1>1. CASE UNCHANGED vars
  <2>1. UNCHANGED <<version, receipt, result, run, rows, ledger, lock, thread, failures, expiries>>
    BY <1>1 DEF vars, store, faults
  <2> QED BY <2>1 DEF Inv, Typed, Kept, Holds, PlaceOf, RunOf, ResultOf, HoldsOf, Exists, ShownReplyIsTheResult
<1>2. ASSUME NEW t \in Threads, Shell(t) \/ Deliver(t) PROVE Inv'
  BY <1>2, ReuseResultKeeps, SkipStaleMessageKeeps, SupersedeStaleRunsKeeps, ClaimReplyDeliveryKeeps,
     MarkReplyDeliveredKeeps, AutoSendReplyKeeps DEF Shell, Deliver
<1>3. ASSUME NEW t \in Threads, NEW m \in Messages,
             ReceiveUserMessage(t, m) \/ AnswerRedelivery(t, m) \/ HandleSystemTrigger(t, m)
      PROVE  Inv'
  BY <1>3, ReceiveUserMessageKeeps, AnswerRedeliveryKeeps, HandleSystemTriggerKeeps
<1>4. ASSUME NEW t \in Threads, Recover(t) PROVE Inv'
  BY <1>4, ClaimRunKeeps, DropStaleRunKeeps, ResumeRunKeeps DEF Recover
<1>5. ASSUME NEW t \in Threads, StartRun(t) \/ Loop(t) PROVE Inv'
  BY <1>5, StartRunKeeps, LoopStepKeeps, EndLoopKeeps, CheckpointReplyKeeps DEF Loop
<1>6. ASSUME NEW t \in Threads, Finish(t) \/ RunFails(t) PROVE Inv'
  BY <1>6, HandOverRecoveredKeeps, RememberResultKeeps, CompleteRunKeeps, RunFailsKeeps DEF Finish
<1>7. ASSUME NEW p, Crash(p) PROVE Inv'
  BY <1>7, CrashKeeps
<1>8. ASSUME NEW r \in Runs, LeaseRunsOut(r) PROVE Inv'
  BY <1>8, LeaseRunsOutKeeps
<1>9. CASE LockRunsOut
  BY <1>9, LockRunsOutKeeps
<1> QED BY <1>1, <1>2, <1>3, <1>4, <1>5, <1>6, <1>7, <1>8, <1>9 DEF Next, Threads

LEMMA InitInv ==
  ASSUME Init
  PROVE  Inv
<1> USE Constants
<1>1. /\ 1 \in 1..(MaxSteps + 1) /\ 0 \in 0..MaxFaults /\ <<>> \in Seq(Turns)
  BY BoundsAssumption
<1>2. NoRun \in Run /\ Idle \in Thread
  BY <1>1 DEF NoRun, Idle, Run, Thread, Replies
<1>3. Typed
  BY <1>1, <1>2 DEF Init, Typed, Replies
<1>4. Kept
  BY DEF Init, Kept, PlaceOf, RunOf, ResultOf, Exists, NoRun, Idle, OnRun, Unfinished
<1>5. Holds
  BY DEF Init, Holds, HoldsOf, Idle, Inner, OnRun, ShownReplyIsTheResult
<1> QED BY <1>3, <1>4, <1>5 DEF Inv

\* The invariant everything below is read from.
THEOREM InvHolds == Spec => []Inv
BY InitInv, NextKeeps, PTL DEF Spec

----------------------------------------------------------------------------
(* Theorems.                                                               *)

\* A completed run's message has the result that a redelivery finds.
THEOREM CompletedCorrect == Spec => []CompletedRunHasResult
<1>1. Inv => CompletedRunHasResult
  BY DEF Inv, Kept, RunOf, CompletedRunHasResult
<1> QED BY <1>1, InvHolds, PTL

\* A reply that still waits to be sent answers the newest message that was received.
THEOREM PendingCorrect == Spec => []PendingRepliesAreCurrent
<1>1. Inv => PendingRepliesAreCurrent
  BY DEF Inv, Kept, RunOf, PendingRepliesAreCurrent
<1> QED BY <1>1, InvHolds, PTL

\* While no lock ran out, the reply the API shows is the one remembered.
THEOREM ShownCorrect == Spec => []ShownReplyIsTheResult
<1>1. Inv => ShownReplyIsTheResult
  BY DEF Inv, Holds, ShownReplyIsTheResult
<1> QED BY <1>1, InvHolds, PTL

\* While no lock ran out, only the last claim of a run writes to it.
THEOREM ClaimCorrect == Spec => []LatestClaimWrites
<1>1. Inv => LatestClaimWrites
  BY DEF Inv, Holds, HoldsOf, LatestClaimWrites, OnRun
<1> QED BY <1>1, InvHolds, PTL

LEMMA ResultIsKeptStep ==
  ASSUME Inv, [Next]_vars
  PROVE  \A m \in Messages : result[m] # NoReply => result'[m] = result[m]
<1> SUFFICES ASSUME ~UNCHANGED result
             PROVE  \A m \in Messages : result[m] # NoReply => result'[m] = result[m]
  OBVIOUS
<1>1. PICK t \in Threads : SkipStaleMessage(t) \/ RememberResult(t)
  <2>1. CASE UNCHANGED vars
    BY <2>1 DEF vars, store
  <2>2. ASSUME NEW t \in Threads, Shell(t) \/ Deliver(t) PROVE SkipStaleMessage(t)
    BY <2>2 DEF Shell, ReuseResult, SupersedeStaleRuns, Deliver, ClaimReplyDelivery, MarkReplyDelivered,
       AutoSendReply, store
  <2>3. ASSUME NEW t \in Threads, NEW m \in Messages,
               ReceiveUserMessage(t, m) \/ AnswerRedelivery(t, m) \/ HandleSystemTrigger(t, m)
        PROVE  FALSE
    BY <2>3 DEF ReceiveUserMessage, AnswerRedelivery, HandleSystemTrigger, store
  <2>4. ASSUME NEW t \in Threads, Recover(t) PROVE FALSE
    BY <2>4 DEF Recover, ClaimRun, DropStaleRun, ResumeRun, store
  <2>5. ASSUME NEW t \in Threads, StartRun(t) \/ Loop(t) PROVE FALSE
    BY <2>5 DEF StartRun, Loop, LoopStep, EndLoop, CheckpointReply
  <2>6. ASSUME NEW t \in Threads, Finish(t) \/ RunFails(t) PROVE RememberResult(t)
    BY <2>6 DEF Finish, HandOverRecovered, CompleteRun, RunFails, store
  <2>7. ASSUME NEW p, Crash(p) PROVE FALSE
    BY <2>7 DEF Crash, store
  <2>8. ASSUME NEW r \in Runs, LeaseRunsOut(r) PROVE FALSE
    BY <2>8 DEF LeaseRunsOut
  <2>9. CASE LockRunsOut
    BY <2>9 DEF LockRunsOut, store
  <2> QED BY <2>1, <2>2, <2>3, <2>4, <2>5, <2>6, <2>7, <2>8, <2>9 DEF Next, Threads
<1>2. result \in [Messages -> Replies]
  BY DEF Inv, Typed
<1> QED BY <1>1, <1>2 DEF SkipStaleMessage, RememberResult, Remember

\* A result once remembered is never replaced.
THEOREM ResultCorrect == Spec => ResultIsKept
<1>1. Inv /\ [Next]_vars => [\A m \in Messages : result[m] # NoReply => result'[m] = result[m]]_vars
  BY ResultIsKeptStep
<1> QED BY <1>1, InvHolds, PTL DEF Spec, ResultIsKept

LEMMA FinishedStays ==
  ASSUME Inv, [Next]_vars, NEW r \in Runs, run[r].status \in Finished
  PROVE  run'[r] = run[r]
<1> USE Constants
<1> SUFFICES ASSUME ~UNCHANGED run PROVE run'[r] = run[r]
  OBVIOUS
<1>1. /\ run[r].owner = None /\ run[r].status \notin Unfinished /\ run[r].status # "absent"
      /\ run[r].status # "running" /\ run[r].status # "recoverable"
      /\ run \in [Runs -> Run]
  BY DEF Inv, Kept, Typed, RunOf, Finished, Unfinished
<1>2. \A t \in Threads : thread[t].run # r \/ ~Owns(t)
  BY <1>1 DEF Owns
<1>3. \A n : SupersedeBefore(n) => run'[r] = run[r]
  BY <1>1 DEF SupersedeBefore
<1>4. CASE UNCHANGED vars
  BY <1>4 DEF vars, store
<1>5. ASSUME NEW t \in Threads, Shell(t) \/ Deliver(t) PROVE run'[r] = run[r]
  BY <1>3, <1>5 DEF Shell, ReuseResult, SkipStaleMessage, SupersedeStaleRuns, Deliver, ClaimReplyDelivery,
     MarkReplyDelivered, AutoSendReply, store
<1>6. ASSUME NEW t \in Threads, NEW m \in Messages,
             ReceiveUserMessage(t, m) \/ AnswerRedelivery(t, m) \/ HandleSystemTrigger(t, m)
      PROVE  FALSE
  BY <1>6 DEF ReceiveUserMessage, AnswerRedelivery, HandleSystemTrigger, store
<1>7. ASSUME NEW t \in Threads, Recover(t) PROVE run'[r] = run[r]
  <2>1. CASE ClaimRun(t)
    BY <1>1, <2>1 DEF ClaimRun, Recoverable
  <2> QED BY <1>3, <1>7, <2>1 DEF Recover, DropStaleRun, ResumeRun, store
<1>8. ASSUME NEW t \in Threads, StartRun(t) \/ Loop(t) PROVE run'[r] = run[r]
  <2>1. CASE StartRun(t)
    BY <1>1, <2>1 DEF StartRun
  <2>2. CASE LoopStep(t) \/ CheckpointReply(t)
    BY <1>1, <1>2, <2>2 DEF LoopStep, CheckpointReply, Checkpoint
  <2> QED BY <1>8, <2>1, <2>2 DEF Loop, EndLoop
<1>9. ASSUME NEW t \in Threads, Finish(t) \/ RunFails(t) PROVE run'[r] = run[r]
  <2>1. CASE CompleteRun(t)
    BY <1>1, <1>2, <2>1 DEF CompleteRun
  <2>2. CASE RunFails(t)
    BY <1>1, <1>2, <2>2 DEF RunFails, MarkRecoverable
  <2> QED BY <1>9, <2>1, <2>2 DEF Finish, HandOverRecovered, RememberResult, store
<1>10. ASSUME NEW p, Crash(p) PROVE FALSE
  BY <1>10 DEF Crash, store
<1>11. ASSUME NEW s \in Runs, LeaseRunsOut(s) PROVE run'[r] = run[r]
  BY <1>1, <1>11 DEF LeaseRunsOut
<1>12. CASE LockRunsOut
  BY <1>12 DEF LockRunsOut, store
<1> QED BY <1>4, <1>5, <1>6, <1>7, <1>8, <1>9, <1>10, <1>11, <1>12 DEF Next, Threads

\* A completed, superseded or failed run is never touched again.
THEOREM FinishedCorrect == Spec => FinishedRunStaysFinished
<1>1. Inv /\ [Next]_vars => [\A r \in Runs : run[r].status \in Finished => run'[r] = run[r]]_vars
  BY FinishedStays
<1> QED BY <1>1, InvHolds, PTL DEF Spec, FinishedRunStaysFinished

\* The version counts the messages that were received.
Received == {m \in Messages : receipt[m] # 0}

Counted == receipt \in [Messages -> 0..version] /\ version = Cardinality(Received)

LEMMA CountedKeeps ==
  ASSUME Inv, Counted, [Next]_vars
  PROVE  Counted'
<1>1. UNCHANGED <<version, receipt>> \/ \E m \in Messages : AcceptUserInput(m)
  <2>1. CASE UNCHANGED vars
    BY <2>1 DEF vars, store
  <2>2. ASSUME NEW t \in Threads, Shell(t) \/ Deliver(t) PROVE UNCHANGED <<version, receipt>>
    BY <2>2 DEF Shell, ReuseResult, SkipStaleMessage, SupersedeStaleRuns, Deliver, ClaimReplyDelivery,
       MarkReplyDelivered, AutoSendReply, store
  <2>3. ASSUME NEW t \in Threads, NEW m \in Messages,
               ReceiveUserMessage(t, m) \/ AnswerRedelivery(t, m) \/ HandleSystemTrigger(t, m)
        PROVE  UNCHANGED <<version, receipt>> \/ AcceptUserInput(m)
    BY <2>3 DEF ReceiveUserMessage, AnswerRedelivery, HandleSystemTrigger, store
  <2>4. ASSUME NEW t \in Threads, Recover(t) PROVE UNCHANGED <<version, receipt>>
    BY <2>4 DEF Recover, ClaimRun, DropStaleRun, ResumeRun, store
  <2>5. ASSUME NEW t \in Threads, StartRun(t) \/ Loop(t) PROVE UNCHANGED <<version, receipt>>
    BY <2>5 DEF StartRun, Loop, LoopStep, EndLoop, CheckpointReply
  <2>6. ASSUME NEW t \in Threads, Finish(t) \/ RunFails(t) PROVE UNCHANGED <<version, receipt>>
    BY <2>6 DEF Finish, HandOverRecovered, RememberResult, CompleteRun, RunFails, store
  <2>7. ASSUME NEW p, Crash(p) PROVE UNCHANGED <<version, receipt>>
    BY <2>7 DEF Crash, store
  <2>8. ASSUME NEW r \in Runs, LeaseRunsOut(r) PROVE UNCHANGED <<version, receipt>>
    BY <2>8 DEF LeaseRunsOut
  <2>9. CASE LockRunsOut
    BY <2>9 DEF LockRunsOut, store
  <2> QED BY <2>1, <2>2, <2>3, <2>4, <2>5, <2>6, <2>7, <2>8, <2>9 DEF Next, Threads
<1>2. CASE UNCHANGED <<version, receipt>>
  BY <1>2 DEF Counted, Received
<1>3. ASSUME NEW m \in Messages, AcceptUserInput(m), receipt[m] = 0 PROVE Counted'
  <2>1. /\ version' = version + 1 /\ receipt' = [receipt EXCEPT ![m] = version + 1]
        /\ version \in Nat /\ receipt \in [Messages -> 0..version]
    BY <1>3 DEF AcceptUserInput, Inv, Typed, Counted
  <2>2. /\ version + 1 \in 0..(version + 1) /\ 0..version \subseteq 0..(version + 1) /\ version + 1 # 0
    BY <2>1
  <2>3. receipt' \in [Messages -> 0..(version + 1)]
    BY <2>1, <2>2
  <2>4. IsFiniteSet(Received) /\ m \notin Received /\ Received' = Received \cup {m}
    <3>1. IsFiniteSet(Received)
      BY BoundsAssumption, FS_Subset DEF Received
    <3> QED BY <1>3, <2>1, <2>2, <3>1 DEF Received
  <2>5. Cardinality(Received \cup {m}) = Cardinality(Received) + 1
    BY <2>4, FS_AddElement
  <2> QED BY <2>1, <2>3, <2>4, <2>5 DEF Counted
<1>4. ASSUME NEW m \in Messages, AcceptUserInput(m), receipt[m] # 0 PROVE Counted'
  BY <1>4 DEF AcceptUserInput, Counted, Received
<1> QED BY <1>1, <1>2, <1>3, <1>4

\* Every variable keeps its type, and no more versions are given than messages received.
THEOREM TypeCorrect == Spec => []TypeOK
<1>1. Init => Counted
  <2> SUFFICES ASSUME Init PROVE Counted
    OBVIOUS
  <2>1. Received = {} /\ receipt \in [Messages -> 0..version]
    BY DEF Init, Received
  <2> QED BY <2>1, FS_EmptySet DEF Init, Counted
<1>2. Inv /\ Counted => TypeOK
  <2> SUFFICES ASSUME Inv, Counted PROVE TypeOK
    OBVIOUS
  <2>1. Cardinality(Received) <= Cardinality(Messages) /\ Cardinality(Messages) \in Nat
    <3>1. Received \subseteq Messages /\ IsFiniteSet(Messages)
      BY BoundsAssumption DEF Received
    <3> QED BY <3>1, FS_Subset, FS_CardinalityType
  <2>2. version \in 0..Cardinality(Messages)
    BY <2>1 DEF Counted, Inv, Typed
  <2> QED BY <2>2 DEF Inv, Typed, Counted, TypeOK, Turns
<1>3. Inv /\ Counted /\ [Next]_vars => Counted'
  BY CountedKeeps
<1> QED BY <1>1, <1>2, <1>3, InvHolds, PTL DEF Spec
===============================================================================
