-------------------------- MODULE MCConversationRuns --------------------------
(* Instances of ConversationRuns: two processes, each with a request thread; *)
(* the first also runs the recovery scheduler.                               *)
EXTENDS ConversationRuns, TLC

CONSTANTS m1, m2, x, q1, q2, s1, p1, p2

MCChannel == (m1 :> "api") @@ (m2 :> "wechaty") @@ (x :> "system")
MCProcess == (q1 :> p1) @@ (q2 :> p2) @@ (s1 :> p1)
===============================================================================
