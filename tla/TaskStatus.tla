----------------------------- MODULE TaskStatus -----------------------------
(***************************************************************************)
(* The status machine of a task: which statuses exist, which are terminal  *)
(* and which moves the transition table allows.  "NONE" is no status of    *)
(* the code: it stands for a task the orchestrator's map does not hold.    *)
(***************************************************************************)

Status == {"QUEUED", "RUNNING", "AWAIT_CONFIRM", "SUCCEEDED", "FAILED",
           "CANCELLED", "EXCEEDED", "INTERRUPTED"}

Terminal == {"SUCCEEDED", "FAILED", "CANCELLED"}

Transitions ==
  [QUEUED        |-> {"RUNNING", "CANCELLED", "FAILED"},
   RUNNING       |-> {"AWAIT_CONFIRM", "SUCCEEDED", "FAILED", "CANCELLED",
                      "EXCEEDED"},
   AWAIT_CONFIRM |-> {"RUNNING", "CANCELLED", "FAILED"},
   EXCEEDED      |-> {"RUNNING", "CANCELLED"},
   INTERRUPTED   |-> {"RUNNING", "CANCELLED"},
   SUCCEEDED     |-> {},
   FAILED        |-> {},
   CANCELLED     |-> {}]

\* The table guards the moves of tasks that exist, hence the first conjunct.
CanTransition(from, to) == from \in Status /\ to \in Transitions[from]

StatusOrNone == Status \cup {"NONE"}

\* Mutant of Settled: a queued task is restored as it was.
SettledQueued == Terminal \cup {"INTERRUPTED", "QUEUED"}

\* recover() keeps these as they are and rewrites every other status.
Settled == Terminal \cup {"INTERRUPTED"}
=============================================================================
