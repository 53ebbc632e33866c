---------------------------- MODULE TaskLifecycle ----------------------------
(***************************************************************************)
(* What the orchestrator promises about the status of tasks, with no disk, *)
(* no events and no runner: a task is submitted once, moves along the      *)
(* transition table, and a restart interrupts every unfinished task at     *)
(* once and touches no other.                                              *)
(***************************************************************************)
EXTENDS TaskStatus

CONSTANT Tasks
VARIABLE state

Init == state = [t \in Tasks |-> "NONE"]

Submit(t) ==
  /\ state[t] = "NONE"
  /\ state' = [state EXCEPT ![t] = "QUEUED"]

Advance(t, to) ==
  /\ CanTransition(state[t], to)
  /\ state' = [state EXCEPT ![t] = to]

Kept == Settled \cup {"NONE"}

Restart ==
  state' = [t \in Tasks |-> IF state[t] \in Kept THEN state[t] ELSE "INTERRUPTED"]

Next ==
  \/ \E t \in Tasks : Submit(t) \/ \E to \in Status : Advance(t, to)
  \/ Restart

Spec == Init /\ [][Next]_state
==============================================================================
