------------------------------ MODULE SubTasks ------------------------------
(***************************************************************************)
(* delegate_tasks: a few workers give the sub-tasks of one tool call each  *)
(* to a runner of its own, with a deadline, and the tool call may be       *)
(* aborted at any time.  fanOut of core has the same pool, without the     *)
(* deadline and the abort.                                                 *)
(***************************************************************************)
EXTENDS Naturals, FiniteSets

CONSTANTS Size, Workers   \* sub-tasks (at most 5), and workers

VARIABLES
  aborted,    \* the signal of the tool call
  next,       \* the position to take next
  job,        \* the position each worker is at, or Out
  at,         \* how far each worker is with it
  timedOut,   \* its deadline has passed
  stopped,    \* its runner was told to abort
  open,       \* positions whose runner is open
  answered,   \* positions whose prompt returned, before a deadline or an abort
  results,    \* the status at each position
  artifacts   \* positions whose runner made a file

vars == <<aborted, next, job, at, timedOut, stopped, open, answered, results, artifacts>>

Tasks == 1 .. Size
Out == 0
Idle == "idle"
Statuses == {"succeeded", "failed", "timed_out", "cancelled"}

Init ==
  /\ aborted = FALSE /\ next = 1
  /\ job = [w \in Workers |-> Out] /\ at = [w \in Workers |-> Idle]
  /\ timedOut = [w \in Workers |-> FALSE] /\ stopped = [w \in Workers |-> FALSE]
  /\ open = {} /\ answered = {} /\ artifacts = {}
  /\ results = [t \in Tasks |-> "none"]

-----------------------------------------------------------------------------
(* The positions a worker leaves behind: after an abort all that are left   *)
(* are cancelled, by the first worker that comes by.                        *)
Take(w) ==
  /\ at[w] = Idle
  /\ IF next > Size
     THEN at' = [at EXCEPT ![w] = "over"] /\ UNCHANGED <<next, job, results>>
     ELSE IF aborted
     THEN /\ next' = Size + 1 /\ at' = [at EXCEPT ![w] = "over"]
          /\ results' = [t \in Tasks |-> IF t >= next THEN "cancelled" ELSE results[t]]
          /\ UNCHANGED job
     ELSE /\ next' = next + 1 /\ job' = [job EXCEPT ![w] = next]
          /\ at' = [at EXCEPT ![w] = "creates"] /\ UNCHANGED results
  /\ timedOut' = [timedOut EXCEPT ![w] = FALSE] /\ stopped' = [stopped EXCEPT ![w] = FALSE]
  /\ UNCHANGED <<aborted, open, answered, artifacts>>

Unwell(w) == IF aborted THEN "cancelled" ELSE IF timedOut[w] THEN "timed_out" ELSE "failed"
Verdict(w) == IF aborted THEN "cancelled" ELSE IF timedOut[w] THEN "timed_out" ELSE "succeeded"
Closing(w, verdict) ==
  /\ results' = [results EXCEPT ![job[w]] = verdict]
  /\ at' = [at EXCEPT ![w] = "closes"]

(* createRunner returns or throws.  An abort of meanwhile is found here.    *)
Created(w) ==
  /\ at[w] = "creates"
  /\ \/ /\ open' = open \cup {job[w]}
        /\ IF aborted THEN Closing(w, Unwell(w))
           ELSE at' = [at EXCEPT ![w] = "prompts"] /\ UNCHANGED results
     \/ Closing(w, Unwell(w)) /\ UNCHANGED open
  /\ UNCHANGED <<aborted, next, job, timedOut, stopped, answered, artifacts>>

(* The deadline runs from the creation on, and ends with the prompt.        *)
Deadline(w) ==
  /\ at[w] = "prompts" /\ ~timedOut[w]
  /\ timedOut' = [timedOut EXCEPT ![w] = TRUE] /\ stopped' = [stopped EXCEPT ![w] = TRUE]
  /\ UNCHANGED <<aborted, next, job, at, open, answered, results, artifacts>>

Abort ==
  /\ ~aborted /\ aborted' = TRUE
  /\ stopped' = [w \in Workers |-> stopped[w] \/ at[w] = "prompts"]
  /\ UNCHANGED <<next, job, at, timedOut, open, answered, results, artifacts>>

Makes(w) ==
  /\ at[w] = "prompts" /\ artifacts' = artifacts \cup {job[w]}
  /\ UNCHANGED <<aborted, next, job, at, timedOut, stopped, open, answered, results>>

(* prompt returns, with an abort also, or throws.                           *)
Prompted(w) ==
  /\ at[w] = "prompts"
  /\ \/ Closing(w, Verdict(w)) /\ answered' = IF stopped[w] THEN answered ELSE answered \cup {job[w]}
     \/ Closing(w, Unwell(w)) /\ UNCHANGED answered
  /\ UNCHANGED <<aborted, next, job, timedOut, stopped, open, artifacts>>

(* The runner is closed, or fails to: then the sub-task has failed.         *)
Closed(w) ==
  /\ at[w] = "closes" /\ at' = [at EXCEPT ![w] = Idle] /\ job' = [job EXCEPT ![w] = Out]
  /\ open' = open \ {job[w]}
  /\ \/ UNCHANGED results
     \/ job[w] \in open /\ results' = [results EXCEPT ![job[w]] = "failed"]
  /\ UNCHANGED <<aborted, next, timedOut, stopped, answered, artifacts>>

WorkerGoesOn(w) == Take(w) \/ Created(w) \/ Prompted(w) \/ Closed(w)
Next == Abort \/ \E w \in Workers : WorkerGoesOn(w) \/ Deadline(w) \/ Makes(w)

(* Runners are created, answer and close: their own calls have time-outs.   *)
Fairness == \A w \in Workers : WF_vars(WorkerGoesOn(w))

Spec == Init /\ [][Next]_vars /\ Fairness

-----------------------------------------------------------------------------
Returns == \A w \in Workers : at[w] = "over"

(* "succeeded" is said only of what was answered in time; a file is that of *)
(* a position with a result or of a runner that is still open; and in an    *)
(* aborted call no runner is at work that was not told to stop, the ones    *)
(* that were being created when the abort came included.                    *)
HonestResults ==
  /\ \A t \in Tasks : results[t] = "succeeded" => t \in answered
  /\ \A t \in artifacts : results[t] # "none" \/ t \in open
  /\ \A w \in Workers : aborted /\ at[w] = "prompts" => stopped[w]

(* The call returns when all its runners are closed, with a result at every *)
(* position, one runner for each worker at a time.                          *)
PoolSound ==
  /\ Cardinality(open) <= Cardinality(Workers)
  /\ \A v, w \in Workers : v # w => job[v] # job[w] \/ job[v] = Out
  /\ Returns => open = {} /\ \A t \in Tasks : results[t] \in Statuses

Safe == HonestResults /\ PoolSound

(* The code does not have it: the files of sub-tasks that failed are handed *)
(* over with the others: extensions.ts:239.                                 *)
OnlyGoodFiles == Returns => \A t \in artifacts : results[t] = "succeeded"
=============================================================================
