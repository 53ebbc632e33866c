----------------------------- MODULE MCServices -----------------------------
(***************************************************************************)
(* Services on a small instance, with the fairness of its workers.         *)
(***************************************************************************)
EXTENDS Services

(* Both accounts are of one tenant: its seats and administrators are shared.*)
OneTenant == [a \in Accounts |-> "t1"]

(* A behaviour is of one component, so one fairness condition may speak of  *)
(* a worker of each.                                                        *)
GoesOn(w) ==
  /\ \/ part = "jobs" /\ w <= 2 /\ J!Works(w)
     \/ part = "calls" /\ L!Proceeds(<<"k1", "k2", "k3">>[w])
     \/ part = "subtasks" /\ w <= 2 /\ D!WorkerGoesOn(<<"w1", "w2">>[w])
  /\ OthersStay

FairSpec ==
  /\ Spec
  /\ \A w \in 1 .. 3 : WF_vars(GoesOn(w))
  /\ WF_pagePoll(part = "page" /\ V!Polls)

-----------------------------------------------------------------------------
(* Jobs of either name and calls of the three are alike, so one of each is  *)
(* followed.                                                                *)
JobOpen == part = "jobs" /\ disk["j1"] \in J!Open /\ "j1" \notin lost
CallWorks == part = "calls" /\ pc["k1"] \in L!Working
PageUntold == part = "page" /\ pageStatus # "RUNNING" /\ pagePage.running
ToolCallOpen == part = "subtasks" /\ ~D!Returns

(* What was started ends: jobs, local calls, the wait of the page for the   *)
(* end of its task, and a tool call that delegates.                         *)
Pending == JobOpen \/ CallWorks \/ PageUntold \/ ToolCallOpen
WorkEnds == Pending ~> ~Pending
=============================================================================
