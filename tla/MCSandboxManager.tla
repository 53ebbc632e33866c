-------------------------- MODULE MCSandboxManager --------------------------
(* Operations o1 and p1, a provision(), of one task and o2 of another one.   *)
EXTENDS SandboxManager, TLC

CONSTANTS t1, t2, o1, o2, p1
TaskOfOp == o1 :> t1 @@ p1 :> t1 @@ o2 :> t2
=============================================================================
