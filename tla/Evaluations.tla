----------------------------- MODULE Evaluations -----------------------------
(***************************************************************************)
(* Evaluation runs: workers take the cases of a data set one by one, each  *)
(* result is saved with all runs, and a run ends when its cases or its     *)
(* budget do, when it is cancelled, or with the process.                   *)
(***************************************************************************)
EXTENDS Naturals, FiniteSets

CONSTANTS
  Runs,          \* runs ever started
  Size,          \* cases of the data set
  Workers,       \* EVAL_CONCURRENCY, at most 5
  MaxFaults, MaxRestarts   \* bounds

VARIABLES
  status,     \* of each run, in memory
  results,    \* cases of each run that have a result
  saved,      \* status and results as evaluations.json has them
  busy,       \* the runs that hold a controller
  next,       \* the case to take next
  worker,     \* what each worker of a run does: a case, or none any more
  exceeded,   \* the budget of the run is used up
  taken,      \* how often each case was taken
  faults, restarts

vars == <<status, results, saved, busy, next, worker, exceeded, taken, faults, restarts>>

Cases == 1 .. Size
None == 0          \* a worker that has left its loop
Broken == Size + 1 \* a worker a save has thrown out of it
Outcomes == {"completed", "failed", "budget_exceeded", "cancelled", "interrupted"}

Init ==
  /\ status = [r \in Runs |-> "none"] /\ results = [r \in Runs |-> {}]
  /\ saved = [r \in Runs |-> [status |-> "none", results |-> {}]]
  /\ busy = {} /\ next = [r \in Runs |-> 1]
  /\ worker = [r \in Runs |-> [w \in Workers |-> None]]
  /\ exceeded = [r \in Runs |-> FALSE]
  /\ taken = [r \in Runs |-> [c \in Cases |-> 0]]
  /\ faults = 0 /\ restarts = 0

-----------------------------------------------------------------------------
(* save(): all runs as they are in memory, or an error.                     *)
Saves(ok) ==
  IF ok
  THEN saved' = [r \in Runs |-> [status |-> status'[r], results |-> results'[r]]] /\ UNCHANGED faults
  ELSE faults < MaxFaults /\ faults' = faults + 1 /\ UNCHANGED saved

(* Workers start in a row, each with the next case, as long as there are    *)
(* cases.                                                                   *)
Start(r) ==
  /\ status[r] = "none" /\ busy = {}
  /\ status' = [status EXCEPT ![r] = "running"] /\ busy' = {r}
  /\ UNCHANGED results
  /\ \E ok \in BOOLEAN :
       /\ Saves(ok)
       /\ IF ok
          THEN \E first \in [Workers -> Cases \cup {None}] :
                 LET begun == {first[w] : w \in Workers} \ {None} IN
                 /\ begun = {c \in Cases : c <= Cardinality(Workers)}
                 /\ \A v, w \in Workers : first[v] = first[w] => v = w \/ first[v] = None
                 /\ worker' = [worker EXCEPT ![r] = first]
                 /\ next' = [next EXCEPT ![r] = Cardinality(begun) + 1]
                 /\ taken' = [taken EXCEPT ![r] = [c \in Cases |-> IF c \in begun THEN 1 ELSE 0]]
          ELSE UNCHANGED <<worker, next, taken>>
  /\ UNCHANGED <<exceeded, restarts>>

(* A model call of the run does not fit its budget any more.                *)
Exceed(r) ==
  /\ \E w \in Workers : worker[r][w] \in Cases
  /\ exceeded' = [exceeded EXCEPT ![r] = TRUE]
  /\ UNCHANGED <<status, results, saved, busy, next, worker, taken, faults, restarts>>

MayGoOn(r) == next[r] <= Size /\ status[r] = "running" /\ ~exceeded[r]

(* A case has its result, whatever it is; the worker takes the next one.    *)
CaseEnds(r, w) ==
  /\ worker[r][w] \in Cases
  /\ results' = [results EXCEPT ![r] = @ \cup {worker[r][w]}]
  /\ UNCHANGED status
  /\ \E ok \in BOOLEAN :
       /\ Saves(ok)
       /\ IF ok /\ MayGoOn(r)
          THEN /\ worker' = [worker EXCEPT ![r][w] = next[r]]
               /\ next' = [next EXCEPT ![r] = @ + 1]
               /\ taken' = [taken EXCEPT ![r][next[r]] = @ + 1]
          ELSE /\ worker' = [worker EXCEPT ![r][w] = IF ok THEN None ELSE Broken]
               /\ UNCHANGED <<next, taken>>
  /\ UNCHANGED <<busy, exceeded, restarts>>

(* All workers are through.  A run whose first save failed has none, and    *)
(* keeps its controller.                                                    *)
RunEnds(r) ==
  /\ r \in busy /\ next[r] > 1 /\ \A w \in Workers : worker[r][w] \notin Cases
  /\ status' = [status EXCEPT ![r] =
       IF @ # "running" THEN @
       ELSE IF exceeded[r] THEN "budget_exceeded"
       ELSE IF \E w \in Workers : worker[r][w] = Broken THEN "failed" ELSE "completed"]
  /\ busy' = busy \ {r}
  /\ UNCHANGED results
  /\ \E ok \in BOOLEAN : Saves(ok)
  /\ UNCHANGED <<next, worker, exceeded, taken, restarts>>

(* The calls of a cancelled run are aborted; its workers end by themselves. *)
Cancel(r) ==
  /\ status[r] = "running" /\ status' = [status EXCEPT ![r] = "cancelled"]
  /\ UNCHANGED results
  /\ \E ok \in BOOLEAN : Saves(ok)
  /\ UNCHANGED <<busy, next, worker, exceeded, taken, restarts>>

(* What the file says is running was interrupted.                           *)
Restart ==
  /\ restarts < MaxRestarts /\ restarts' = restarts + 1
  /\ status' = [r \in Runs |-> IF saved[r].status = "running" THEN "interrupted"
                               ELSE IF saved[r].status = "none" /\ status[r] # "none" THEN "lost" ELSE saved[r].status]
  /\ results' = [r \in Runs |-> saved[r].results]
  /\ saved' = [r \in Runs |-> [saved[r] EXCEPT !.status = IF @ = "running" THEN "interrupted" ELSE @]]
  /\ busy' = {}
  /\ worker' = [r \in Runs |-> [w \in Workers |-> None]]
  /\ UNCHANGED <<next, exceeded, taken, faults>>

RunGoesOn(r) == RunEnds(r) \/ \E w \in Workers : CaseEnds(r, w)

Next ==
  \/ \E r \in Runs : Start(r) \/ Exceed(r) \/ RunGoesOn(r) \/ Cancel(r)
  \/ Restart

(* Every call of a model ends: it has a time-out.                           *)
Fairness == \A r \in Runs : WF_vars(RunGoesOn(r))

Spec == Init /\ [][Next]_vars /\ Fairness

-----------------------------------------------------------------------------
(* "completed" is said only of a run that has a result for every case, none *)
(* of them cut short by the budget or lost in a save that failed.           *)
CompletedIsWhole ==
  \A r \in Runs : status[r] = "completed" =>
    results[r] = Cases /\ ~exceeded[r] /\ saved[r].results \subseteq results[r]

(* A case is taken once, however many workers the run has; a run that has a *)
(* worker is busy, and only one is.                                         *)
TakenOnce ==
  /\ \A r \in Runs : \A c \in Cases : taken[r][c] <= 1
  /\ \A r \in Runs : results[r] \subseteq {c \in Cases : taken[r][c] = 1}
  /\ \A r \in Runs : (\E w \in Workers : worker[r][w] \in Cases) => busy = {r}

(* What the file calls over is over, as it says.                            *)
FileTells ==
  \A r \in Runs : /\ saved[r].status \in Outcomes => status[r] = saved[r].status
                  /\ saved[r].results \subseteq results[r]

Safe == CompletedIsWhole /\ TakenOnce /\ FileTells

(* The code does not have it: a run whose first save fails keeps its        *)
(* controller, and no other starts before a restart: admin-evaluations.ts:48*)
BusyIsAtWork == \A r \in busy : next[r] > 1
=============================================================================
