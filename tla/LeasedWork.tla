------------------------------ MODULE LeasedWork ------------------------------
(***************************************************************************)
(* What the durable scheduler promises to the code that registers work     *)
(* with it, without clocks, leases or credentials: a piece of work is held *)
(* by at most one worker, and a worker that lost it settles nothing.       *)
(***************************************************************************)
CONSTANTS Tasks, Workers, None

VARIABLES phase,   \* [Tasks -> Phases]
          owner,   \* [Tasks -> Workers \cup {None}]: whose settlement counts
          job      \* [Workers -> Tasks \cup {None}]: what each worker works on

vars == <<phase, owner, job>>

Phases == {"absent", "open", "held", "closed"}

TypeOK == /\ phase \in [Tasks -> Phases]
          /\ owner \in [Tasks -> Workers \cup {None}]
          /\ job \in [Workers -> Tasks \cup {None}]

Init == /\ phase = [t \in Tasks |-> "absent"]
        /\ owner = [t \in Tasks |-> None]
        /\ job = [w \in Workers |-> None]

(***************************************************************************)
(* Business code registers, revokes and reopens work; it never hands work  *)
(* to a worker and never takes a job away from one.                        *)
(***************************************************************************)
Administer ==
  /\ UNCHANGED job
  /\ phase' \in [Tasks -> Phases]
  /\ \A t \in Tasks :
       \/ phase'[t] = phase[t] /\ owner'[t] = owner[t]
       \/ phase'[t] \in {"open", "closed"} /\ owner'[t] = None
  /\ owner' \in [Tasks -> Workers \cup {None}]

Take(w, t) ==
  /\ job[w] = None
  /\ job' = [job EXCEPT ![w] = t]
  /\ phase[t] \in {"open", "held"}
  /\ phase' = [phase EXCEPT ![t] = "held"]
  /\ owner' = [owner EXCEPT ![t] = w]

\* Only the owner's settlement changes the work it was working on.
Settle(w, t) ==
  /\ job[w] = t
  /\ job' = [job EXCEPT ![w] = None]
  /\ IF owner[t] = w
       THEN /\ \E p \in {"open", "closed"} : phase' = [phase EXCEPT ![t] = p]
            /\ owner' = [owner EXCEPT ![t] = None]
       ELSE UNCHANGED <<phase, owner>>

\* A worker dies: the work stays held, by nobody, until it is taken again.
Abandon(w, t) ==
  /\ job[w] = t
  /\ job' = [job EXCEPT ![w] = None]
  /\ owner' = [owner EXCEPT ![t] = IF @ = w THEN None ELSE @]
  /\ UNCHANGED phase

Next == \/ Administer
        \/ \E w \in Workers, t \in Tasks : Take(w, t) \/ Settle(w, t) \/ Abandon(w, t)

Spec == Init /\ [][Next]_vars
===============================================================================
