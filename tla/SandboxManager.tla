--------------------------- MODULE SandboxManager ---------------------------
(***************************************************************************)
(* The leases of code sandboxes: a task gets a seat and a runtime at its   *)
(* first operation, its operations run in it one after another, and the    *)
(* runtime is closed when the task ends, an operation is cancelled or times *)
(* out, an administrator asks, or its time to live is over.  The           *)
(* configuration check takes a seat too.                                   *)
(*                                                                         *)
(* release() is asynchronous: it looks the lease up, waits until the       *)
(* runtime exists, closes it and then removes whatever lease the task has. *)
(* A runtime's close() returns at once when another close() is under way.  *)
(***************************************************************************)
EXTENDS Naturals, FiniteSets

CONSTANTS
  Tasks, Leases, NoLease,
  Ops,          \* operations the agents ask for
  TaskOf,       \* the task of an operation
  Provisions,   \* the operations that are provision(), the others are run()
  MaxConcurrent,
  MaxAsked      \* bound: releases asked for from outside the manager

ASSUME SandboxAssumption ==
  /\ TaskOf \in [Ops -> Tasks] /\ Provisions \subseteq Ops
  /\ NoLease \notin Leases /\ IsFiniteSet(Tasks)
  /\ MaxConcurrent \in Nat \ {0} /\ MaxAsked \in Nat

VARIABLES
  leases,    \* the manager's map from tasks to leases
  owner,     \* the task a lease was made for; NoLease while it is unused
  expired,
  timer,     \* leases whose time-to-live timer is armed
  runtime,   \* "none", "creating", "live", "closing", "gone" or "failed"
  awaiting,  \* release() calls of a lease that wait for its runtime
  closer,    \* leases whose close under way a release() waits for
  checking,
  op,        \* where each operation is
  on,        \* the lease of an operation
  ahead,     \* operations of the lease that have to unlock before it
  aborted,   \* operations whose signal is aborted
  asked

leaseVars == <<leases, owner, expired, timer, runtime, awaiting, closer>>
opVars == <<op, on, ahead, aborted>>
vars == <<leaseVars, checking, opVars, asked>>

Init ==
  /\ leases = [t \in Tasks |-> NoLease]
  /\ owner = [l \in Leases |-> NoLease]
  /\ expired = {} /\ timer = {} /\ closer = {}
  /\ runtime = [l \in Leases |-> "none"]
  /\ awaiting = [l \in Leases |-> 0]
  /\ checking = FALSE
  /\ op = [o \in Ops |-> "idle"] /\ on = [o \in Ops |-> NoLease]
  /\ ahead = [o \in Ops |-> {}] /\ aborted = {}
  /\ asked = 0

-----------------------------------------------------------------------------
Held == {leases[t] : t \in Tasks} \ {NoLease}
Leased == {t \in Tasks : leases[t] # NoLease}

(* Mutant of ActiveCount: the check of the configuration is not counted.    *)
ActiveCountLeases == Cardinality(Leased)

ActiveCount == Cardinality(Leased) + (IF checking THEN 1 ELSE 0)

Unused == {l \in Leases : owner[l] = NoLease}   \* a fresh lease is any of them

Active(o) == op[o] \in {"waiting", "entered", "calling"}

(* Settled promises run on before the next timer, message or request does. *)
Wakes(l) == awaiting[l] > 0 /\ runtime[l] # "creating"
GetsLock(o) == op[o] = "waiting" /\ ahead[o] = {}
GetsRuntime(o) == op[o] = "entered" /\ runtime[on[o]] # "creating"
LosesRuntime(o) == op[o] = "calling" /\ runtime[on[o]] # "live"

Drained ==
  /\ \A l \in Leases : ~Wakes(l)
  /\ \A o \in Ops : ~GetsLock(o) /\ ~GetsRuntime(o) /\ ~LosesRuntime(o)

(* What release(t) does before its first await. *)
Release(t) ==
  LET l == leases[t] IN
  IF l = NoLease THEN UNCHANGED <<expired, timer, awaiting>>
  ELSE /\ expired' = expired \cup {l}
       /\ timer' = timer \ {l}
       /\ awaiting' = [awaiting EXCEPT ![l] = @ + 1]

(* Its last step, which removes the lease the task has by then. *)
Forget(l) == leases' = [leases EXCEPT ![owner[l]] = NoLease]

(* release() wakes up: it is the first to close the runtime, or there is    *)
(* nothing it has to wait for.                                              *)
Awake(l) ==
  /\ Wakes(l)
  /\ awaiting' = [awaiting EXCEPT ![l] = @ - 1]
  /\ IF runtime[l] = "live"
     THEN /\ runtime' = [runtime EXCEPT ![l] = "closing"]
          /\ closer' = closer \cup {l}
          /\ UNCHANGED leases
     ELSE Forget(l) /\ UNCHANGED <<runtime, closer>>
  /\ UNCHANGED <<owner, expired, timer, checking, opVars, asked>>

(* Mutant of Closed: a kill that fails ends the release before it removes   *)
(* the lease.                                                               *)
ClosedOrLeft(l) ==
  /\ Drained /\ runtime[l] = "closing"
  /\ runtime' = [runtime EXCEPT ![l] = "gone"]
  /\ closer' = closer \ {l}
  /\ IF l \in closer THEN Forget(l) \/ UNCHANGED leases ELSE UNCHANGED leases
  /\ UNCHANGED <<owner, expired, timer, awaiting, checking, opVars, asked>>

(* The process is dead, or is given up after two seconds; a kill that fails *)
(* ends the release all the same.                                           *)
Closed(l) ==
  /\ Drained /\ runtime[l] = "closing"
  /\ runtime' = [runtime EXCEPT ![l] = "gone"]
  /\ closer' = closer \ {l}
  /\ IF l \in closer THEN Forget(l) ELSE UNCHANGED leases
  /\ UNCHANGED <<owner, expired, timer, awaiting, checking, opVars, asked>>

(* The factory and the copy of the inputs succeed, or one of them fails. *)
Created(l) ==
  /\ Drained /\ runtime[l] = "creating"
  /\ runtime' = [runtime EXCEPT ![l] = "live"]
  /\ UNCHANGED <<leases, owner, expired, timer, awaiting, closer, checking,
                 opVars, asked>>

CreationFails(l) ==
  /\ Drained /\ runtime[l] = "creating"
  /\ runtime' = [runtime EXCEPT ![l] = "failed"]
  /\ IF leases[owner[l]] = l
     THEN Forget(l) /\ timer' = timer \ {l}
     ELSE UNCHANGED <<leases, timer>>
  /\ UNCHANGED <<owner, expired, awaiting, closer, checking, opVars, asked>>

(* The runtime closes itself: its process exits, writes too much, uses too  *)
(* much memory or disk, or outlives its time.                               *)
Dies(l) ==
  /\ Drained /\ runtime[l] = "live"
  /\ runtime' = [runtime EXCEPT ![l] = "closing"]
  /\ UNCHANGED <<leases, owner, expired, timer, awaiting, closer, checking,
                 opVars, asked>>

Expires(l) ==
  /\ Drained /\ l \in timer
  /\ LET s == leases[owner[l]] IN
     IF s = NoLease
     THEN timer' = timer \ {l} /\ UNCHANGED <<expired, awaiting>>
     ELSE /\ expired' = expired \cup {s}
          /\ timer' = timer \ {l, s}
          /\ awaiting' = [awaiting EXCEPT ![s] = @ + 1]
  /\ UNCHANGED <<leases, owner, runtime, closer, checking, opVars, asked>>

(* The end of a task, an administrator, or the end of the process. *)
Ask(t) ==
  /\ Drained /\ asked < MaxAsked /\ leases[t] # NoLease
  /\ asked' = asked + 1
  /\ Release(t)
  /\ UNCHANGED <<leases, owner, runtime, closer, checking, opVars>>

-----------------------------------------------------------------------------
(* acquire(), and the place in the queue of the lease. *)
Enqueue(o, l) ==
  /\ op' = [op EXCEPT ![o] = "waiting"]
  /\ on' = [on EXCEPT ![o] = l]
  /\ ahead' = [ahead EXCEPT ![o] = {p \in Ops : Active(p) /\ on[p] = l}]
  /\ UNCHANGED aborted

Refused(o) ==
  /\ op' = [op EXCEPT ![o] = "done"]
  /\ UNCHANGED <<leaseVars, on, ahead, aborted>>

TakeSeat(o, t) ==
  IF ActiveCount >= MaxConcurrent THEN Refused(o)
  ELSE /\ Unused # {}
       /\ LET l == CHOOSE l \in Unused : TRUE IN
          /\ leases' = [leases EXCEPT ![t] = l]
          /\ owner' = [owner EXCEPT ![l] = t]
          /\ timer' = timer \cup {l}
          /\ runtime' = [runtime EXCEPT ![l] = "creating"]
          /\ UNCHANGED <<expired, awaiting, closer>>
          /\ Enqueue(o, l)

Start(o) ==
  /\ Drained /\ op[o] = "idle"
  /\ LET t == TaskOf[o] l == leases[t] IN
     \/ l # NoLease /\ l \in expired /\ Refused(o)
     \/ l # NoLease /\ l \notin expired /\ Enqueue(o, l) /\ UNCHANGED leaseVars
     \/ l = NoLease /\ TakeSeat(o, t)
  /\ UNCHANGED <<checking, asked>>

(* The finally of run() and provision(): the next in the queue may go on. *)
Unlock(o) ==
  /\ op' = [op EXCEPT ![o] = "done"]
  /\ ahead' = [p \in Ops |-> ahead[p] \ {o}]
  /\ UNCHANGED on

(* An operation gets the lock.  provision() looks at the lease here and     *)
(* run() only when the runtime is there.                                    *)
Enter(o) ==
  /\ GetsLock(o)
  /\ IF o \in Provisions /\ (o \in aborted \/ on[o] \in expired)
     THEN Unlock(o)
     ELSE op' = [op EXCEPT ![o] = "entered"] /\ UNCHANGED <<on, ahead>>
  /\ UNCHANGED <<leaseVars, checking, aborted, asked>>

MayCall(o) ==
  /\ runtime[on[o]] = "live" /\ o \notin aborted
  /\ o \in Provisions \/ on[o] \notin expired

Call(o) ==
  /\ GetsRuntime(o)
  /\ IF MayCall(o)
     THEN op' = [op EXCEPT ![o] = "calling"] /\ UNCHANGED <<on, ahead>>
     ELSE Unlock(o)
  /\ UNCHANGED <<leaseVars, checking, aborted, asked>>

(* The worker answers; code that ran out of its time has the sandbox        *)
(* released.                                                                *)
Answer(o) ==
  /\ Drained /\ op[o] = "calling" /\ runtime[on[o]] = "live"
  /\ Unlock(o)
  /\ \/ UNCHANGED leaseVars
     \/ /\ o \notin Provisions
        /\ Release(TaskOf[o])
        /\ UNCHANGED <<leases, owner, runtime, closer>>
  /\ UNCHANGED <<checking, aborted, asked>>

(* close() rejects the pending call. *)
Rejected(o) ==
  /\ LosesRuntime(o)
  /\ Unlock(o)
  /\ UNCHANGED <<leaseVars, checking, aborted, asked>>

(* The caller's signal, or the timeout of the operation, which also counts  *)
(* the time in the queue.  run() gives up waiting and releases whatever     *)
(* lease the task has; a pending call closes its runtime.                   *)
Abort(o) ==
  /\ Drained /\ Active(o) /\ o \notin aborted
  /\ aborted' = aborted \cup {o}
  /\ IF o \in Provisions THEN UNCHANGED <<expired, timer, awaiting>>
     ELSE Release(TaskOf[o])
  /\ IF op[o] = "calling" /\ runtime[on[o]] = "live"
     THEN runtime' = [runtime EXCEPT ![on[o]] = "closing"]
     ELSE UNCHANGED runtime
  /\ IF op[o] = "calling" \/ (op[o] = "waiting" /\ o \notin Provisions)
     THEN Unlock(o)
     ELSE UNCHANGED <<op, on, ahead>>
  /\ UNCHANGED <<leases, owner, closer, checking, asked>>

-----------------------------------------------------------------------------
CheckBegins ==
  /\ Drained /\ ~checking /\ ActiveCount < MaxConcurrent
  /\ checking' = TRUE
  /\ UNCHANGED <<leaseVars, opVars, asked>>

CheckEnds ==
  /\ Drained /\ checking
  /\ checking' = FALSE
  /\ UNCHANGED <<leaseVars, opVars, asked>>

Next ==
  \/ \E l \in Leases :
       \/ Awake(l) \/ Closed(l) \/ Created(l) \/ CreationFails(l)
       \/ Dies(l) \/ Expires(l)
  \/ \E o \in Ops :
       \/ Start(o) \/ Enter(o) \/ Call(o)
       \/ Answer(o) \/ Rejected(o) \/ Abort(o)
  \/ \E t \in Tasks : Ask(t)
  \/ CheckBegins \/ CheckEnds

Spec == Init /\ [][Next]_vars

(* Settled promises wake up, timers fire, processes start or fail to and    *)
(* end when they are killed, and the signal of an operation that is not     *)
(* answered aborts.                                                         *)
Microtask ==
  \/ \E l \in Leases : Awake(l)
  \/ \E o \in Ops : Enter(o) \/ Call(o) \/ Rejected(o)

Fairness ==
  /\ WF_vars(Microtask)
  /\ \A l \in Leases :
       /\ WF_vars(Closed(l)) /\ WF_vars(Expires(l))
       /\ WF_vars(Created(l) \/ CreationFails(l))
  /\ \A o \in Ops : WF_vars(Abort(o))
  /\ WF_vars(CheckEnds)

FairSpec == Spec /\ Fairness

-----------------------------------------------------------------------------
TypeOK ==
  /\ leases \in [Tasks -> Leases \cup {NoLease}]
  /\ owner \in [Leases -> Tasks \cup {NoLease}]
  /\ expired \subseteq Leases /\ timer \subseteq Leases /\ closer \subseteq Leases
  /\ runtime \in [Leases -> {"none", "creating", "live", "closing", "gone", "failed"}]
  /\ awaiting \in [Leases -> Nat]
  /\ checking \in BOOLEAN
  /\ op \in [Ops -> {"idle", "waiting", "entered", "calling", "done"}]
  /\ on \in [Ops -> Leases \cup {NoLease}]
  /\ ahead \in [Ops -> SUBSET Ops] /\ aborted \subseteq Ops
  /\ asked \in Nat

(* Leases and the check of the configuration together never take more seats *)
(* than there are (the seat is taken before the runtime is created).        *)
SeatsBounded == Cardinality(Leased) + (IF checking THEN 1 ELSE 0) <= MaxConcurrent

(* Operations of one lease exclude each other from the lock to the answer,  *)
(* whatever was cancelled in the queue between them.                        *)
OneAtATime ==
  \A o, p \in Ops :
    op[o] \in {"entered", "calling"} /\ op[p] \in {"entered", "calling"}
      /\ on[o] = on[p] => o = p

Safe == SeatsBounded /\ OneAtATime

(* Every seat comes back: a lease leaves the map, at the latest when its     *)
(* time is over, even if a runtime was never created or its kill failed,    *)
(* and every operation ends.                                                *)
SeatsReturn ==
  /\ \A l \in Leases : l \in Held ~> l \notin Held
  /\ \A o \in Ops : Active(o) ~> ~Active(o)

(* A task that ends has its sandbox closed: a runtime nobody is closing     *)
(* belongs to the lease its task has in the map.                            *)
NoOrphan ==
  \A l \in Leases : runtime[l] = "live" => leases[owner[l]] = l

(* No more runtimes are alive than seats are configured. *)
RuntimesBounded ==
  Cardinality({l \in Leases : runtime[l] \in {"creating", "live", "closing"}})
    + (IF checking THEN 1 ELSE 0) <= MaxConcurrent
=============================================================================
