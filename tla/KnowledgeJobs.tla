--------------------------- MODULE KnowledgeJobs ---------------------------
(***************************************************************************)
(* The jobs that put documents into the knowledge store: a queue and one   *)
(* worker loop in the process, the state of every job on disk.             *)
(*                                                                         *)
(* A published configuration replaces the queue, when it is not busy, by a *)
(* new one over the same directory; a request keeps the queue it found     *)
(* when it arrived, across the awaits of its authentication and its body.  *)
(* So there are several Queues, and Current is the one new requests find.  *)
(***************************************************************************)
EXTENDS Naturals, Sequences, FiniteSets

CONSTANTS
  Jobs, NoJob,   \* jobs of one workspace, named by their idempotency keys
  Queues,        \* 1 .. n: the queues a process may come to have
  Cap,           \* jobs a queue holds (100 in the code)
  MaxRequests, MaxFaults, MaxRestarts   \* bounds

VARIABLES
  disk,       \* the state of each job in the store
  queue, running, doing,   \* of each queue: the waiting jobs and its worker
  current,    \* the queue main.ts serves
  requests,   \* requests under way: what they ask, of which queue
  enabled,    \* an account of the workspace is enabled
  lost,       \* jobs no step of the process will settle
  requested, faults, restarts

workers == <<queue, running, doing>>
counts == <<requested, faults, restarts>>
vars == <<disk, workers, current, requests, enabled, lost, counts>>

Open == {"queued", "processing"}
Waiting(i) == {queue[i][n] : n \in DOMAIN queue[i]}
Held == (UNION {Waiting(i) \cup {doing[i]} : i \in Queues}) \ {NoJob}
Busy(i) == running[i] \/ queue[i] # <<>>

(* Between two awaits the loop is not interrupted.                          *)
Drained == \A i \in Queues : running[i] => doing[i] # NoJob

Init ==
  /\ disk = [j \in Jobs |-> "none"]
  /\ queue = [i \in Queues |-> <<>>]
  /\ running = [i \in Queues |-> FALSE] /\ doing = [i \in Queues |-> NoJob]
  /\ current = 1 /\ requests = {} /\ enabled = TRUE /\ lost = {}
  /\ requested = 0 /\ faults = 0 /\ restarts = 0

-----------------------------------------------------------------------------
Arrive(what, j) ==
  /\ Drained /\ enabled /\ requested < MaxRequests
  /\ requested' = requested + 1
  /\ requests' = requests \cup {[what |-> what, job |-> j, of |-> current]}
  /\ UNCHANGED <<disk, workers, current, enabled, lost, faults, restarts>>

(* put, push and start: the loop runs on at once when it was not running.   *)
Enter(i, j) ==
  /\ disk' = [disk EXCEPT ![j] = "queued"]
  /\ queue' = [queue EXCEPT ![i] = Append(@, j)]
  /\ running' = [running EXCEPT ![i] = TRUE]

(* A key that has a job gets that job; a full queue refuses.                *)
Creates(i, j) == Len(queue[i]) < Cap /\ disk[j] = "none"

(* Mutant of Retries: retry queues whatever has not been indexed yet.       *)
RetriesOpen(i, j) == disk[j] \in {"failed", "queued"} /\ Len(queue[i]) < Cap

(* Only a failed job is queued again; one that is open is answered as it is *)
Retries(i, j) == disk[j] = "failed" /\ Len(queue[i]) < Cap

(* The handler has the body and calls create or retry; the put may fail,    *)
(* and so does the request.                                                 *)
Serve(r) ==
  /\ Drained /\ r \in requests
  /\ requests' = requests \ {r}
  /\ \/ /\ IF r.what = "create" THEN Creates(r.of, r.job) ELSE Retries(r.of, r.job)
        /\ Enter(r.of, r.job)
        /\ lost' = lost \ {r.job}
     \/ UNCHANGED <<disk, queue, running, lost>>
  /\ UNCHANGED <<doing, current, enabled, counts>>

(* The catch of the loop, after f writes failed: if this one fails too the  *)
(* loop ends, and start() runs it again for the jobs that wait.             *)
Fails(i, j, f, q) ==
  /\ doing' = [doing EXCEPT ![i] = NoJob]
  /\ \/ /\ faults + f <= MaxFaults /\ faults' = faults + f
        /\ disk' = [disk EXCEPT ![j] = "failed"]
        /\ UNCHANGED <<running, lost>>
     \/ /\ faults + f < MaxFaults /\ faults' = faults + f + 1
        /\ running' = [running EXCEPT ![i] = q # <<>>]
        /\ lost' = lost \cup {j}
        /\ UNCHANGED disk

Take(i) ==
  /\ running[i] /\ doing[i] = NoJob /\ queue[i] # <<>>
  /\ LET j == Head(queue[i]) IN
     /\ queue' = [queue EXCEPT ![i] = Tail(@)]
     /\ \/ /\ disk' = [disk EXCEPT ![j] = "processing"]
           /\ doing' = [doing EXCEPT ![i] = j]
           /\ UNCHANGED <<running, faults, lost>>
        \/ Fails(i, j, 1, Tail(queue[i]))
  /\ UNCHANGED <<current, requests, enabled, requested, restarts>>

Rest(i) ==
  /\ running[i] /\ doing[i] = NoJob /\ queue[i] = <<>>
  /\ running' = [running EXCEPT ![i] = FALSE]
  /\ UNCHANGED <<disk, queue, doing, current, requests, enabled, lost, counts>>

(* The document is indexed, or it is not, or the put of "ready" fails.      *)
Indexed(i) ==
  /\ Drained /\ doing[i] # NoJob
  /\ \/ /\ disk' = [disk EXCEPT ![doing[i]] = "ready"]
        /\ doing' = [doing EXCEPT ![i] = NoJob]
        /\ UNCHANGED <<running, faults, lost>>
     \/ \E f \in {0, 1} : Fails(i, doing[i], f, queue[i])
  /\ UNCHANGED <<queue, current, requests, enabled, requested, restarts>>

Publish ==
  /\ Drained /\ ~Busy(current) /\ current + 1 \in Queues
  /\ current' = current + 1
  /\ UNCHANGED <<disk, workers, requests, enabled, lost, counts>>

SetEnabled ==
  /\ Drained /\ enabled' = ~enabled
  /\ UNCHANGED <<disk, workers, current, requests, lost, counts>>

(* recover() fails the open jobs of the workspaces of enabled accounts.     *)
Restart ==
  /\ restarts < MaxRestarts /\ restarts' = restarts + 1
  /\ queue' = [i \in Queues |-> <<>>]
  /\ running' = [i \in Queues |-> FALSE] /\ doing' = [i \in Queues |-> NoJob]
  /\ current' = 1 /\ requests' = {}
  /\ LET open == {j \in Jobs : disk[j] \in Open} IN
     IF enabled
     THEN /\ disk' = [j \in Jobs |-> IF j \in open THEN "failed" ELSE disk[j]]
          /\ lost' = {}
     ELSE lost' = open /\ UNCHANGED disk
  /\ UNCHANGED <<enabled, requested, faults>>

(* The loop of a queue goes on: extraction and embedding have time-outs.    *)
Works(i) == Take(i) \/ Rest(i) \/ Indexed(i)

Next ==
  \/ \E what \in {"create", "retry"}, j \in Jobs : Arrive(what, j)
  \/ \E r \in requests : Serve(r)
  \/ \E i \in Queues : Works(i)
  \/ Publish \/ SetEnabled \/ Restart

Fairness == \A i \in Queues : WF_vars(Works(i))

Spec == Init /\ [][Next]_vars /\ Fairness

-----------------------------------------------------------------------------
(* A job waits or is worked on once, over all queues, even when a request   *)
(* of before a published configuration comes to the queue it replaced.      *)
OnceAtATime ==
  /\ \A i \in Queues : \A m, n \in DOMAIN queue[i] : queue[i][m] = queue[i][n] => m = n
  /\ \A i \in Queues : doing[i] \notin Waiting(i)
  /\ \A i, k \in Queues : i # k => (Waiting(i) \cup {doing[i]}) \cap (Waiting(k) \cup {doing[k]}) \subseteq {NoJob}

(* The disk says "queued" of what waits and "processing" of what is worked  *)
(* on; what it says is open is held by a queue, or is one of the lost.      *)
DiskTells ==
  /\ \A i \in Queues : \A j \in Waiting(i) : disk[j] = "queued"
  /\ \A i \in Queues : doing[i] # NoJob => disk[doing[i]] = "processing"
  /\ \A j \in Jobs : disk[j] \in Open => j \in Held \cup lost

(* Jobs that wait have a worker: a loop that an error ended runs again.     *)
WorkerThere == \A i \in Queues : queue[i] # <<>> => running[i]

(* Every job of knowledge-jobs.ts is in one place and its record says so,   *)
(* through failing writes, restarts and published configurations.           *)
Safe ==
  /\ disk \in [Jobs -> Open \cup {"none", "ready", "failed"}]
  /\ \A i \in Queues : Len(queue[i]) <= Cap
  /\ OnceAtATime /\ DiskTells /\ WorkerThere

(* Every job comes to an end, through failing writes, restarts and replaced *)
(* queues, but for the lost ones: knowledge-jobs.ts:91.                     *)
JobsSettle == \A j \in Jobs : disk[j] \in Open ~> disk[j] \notin Open \/ j \in lost

(* The code does not have it: a request that arrived before a published     *)
(* configuration starts the queue main.ts no longer asks whether it is busy.*)
OnlyCurrentWorks == \A i \in Queues : Busy(i) => i = current

(* The code does not have it: a job whose error cannot be written, or whose *)
(* workspace had no enabled account at a restart, stays open.               *)
NoneLost == lost = {}
=============================================================================
