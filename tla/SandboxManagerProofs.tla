----------------------- MODULE SandboxManagerProofs -----------------------
(***************************************************************************)
(* The seats of sandboxes are bounded, and the operations of one lease     *)
(* exclude each other, for all numbers of tasks, leases and operations.    *)
(***************************************************************************)
EXTENDS SandboxManager, FiniteSetTheorems, TLAPS

(* Of two operations in the queue of a lease one waits for the other, and   *)
(* the one that has the lock waits for nobody.                              *)
Ordered ==
  \A o, p \in Ops :
    o # p /\ Active(o) /\ Active(p) /\ on[o] = on[p]
      => o \in ahead[p] \/ p \in ahead[o]

LockFree ==
  \A o \in Ops : op[o] \in {"entered", "calling"} => ahead[o] = {}

Queue == Ordered /\ LockFree

(* A timer that is armed is the timer of a lease that was made. *)
Owned == \A l \in timer : owner[l] \in Tasks

IInv == TypeOK /\ Owned /\ SeatsBounded /\ Queue

USE SandboxAssumption

-----------------------------------------------------------------------------
LEMMA LeasedFinite ==
  IsFiniteSet(Leased) /\ Cardinality(Leased) \in Nat
<1>1. Leased \subseteq Tasks  BY DEF Leased
<1> QED  BY <1>1, FS_Subset, FS_CardinalityType

(* The map shrinks, or stays: the seats stay bounded. *)
LEMMA FewerSeats ==
  ASSUME TypeOK, SeatsBounded,
         \A t \in Tasks : leases'[t] \in {leases[t], NoLease},
         checking' = checking \/ checking' = FALSE
  PROVE  SeatsBounded'
<1>1. Leased' \subseteq Leased  BY DEF Leased
<1>2. Cardinality(Leased') \in Nat /\ Cardinality(Leased') <= Cardinality(Leased)
  BY <1>1, LeasedFinite, FS_Subset, FS_CardinalityType
<1> DEFINE a == IF checking THEN 1 ELSE 0
           b == IF checking' THEN 1 ELSE 0
<1>3. b <= a /\ a \in Nat /\ b \in Nat  BY DEF TypeOK
<1>4. Cardinality(Leased) + a <= MaxConcurrent
  BY DEF SeatsBounded, ActiveCount
<1> HIDE DEF a, b
<1>5. Cardinality(Leased') + b <= MaxConcurrent
  BY <1>2, <1>3, <1>4, LeasedFinite
<1> QED  BY <1>5 DEF SeatsBounded, ActiveCount, b

(* A seat more is within the bound when there was one left. *)
LEMMA OneSeatMore ==
  ASSUME TypeOK, ~(ActiveCount >= MaxConcurrent), UNCHANGED checking,
         NEW t \in Tasks, NEW l, leases' = [leases EXCEPT ![t] = l]
  PROVE  SeatsBounded'
<1>1. Leased' \subseteq Leased \cup {t}  BY DEF Leased, TypeOK
<1>2. IsFiniteSet(Leased \cup {t})
      /\ Cardinality(Leased \cup {t}) <= Cardinality(Leased) + 1
      /\ Cardinality(Leased \cup {t}) \in Nat
  <2> DEFINE S == Leased
  <2>0. IsFiniteSet(S) /\ Cardinality(S) \in Nat  BY LeasedFinite
  <2> HIDE DEF S
  <2>1. /\ IsFiniteSet(S \cup {t})
        /\ Cardinality(S \cup {t}) = Cardinality(S)
           \/ Cardinality(S \cup {t}) = Cardinality(S) + 1
    BY <2>0, FS_AddElement
  <2>2. /\ Cardinality(S \cup {t}) <= Cardinality(S) + 1
        /\ Cardinality(S \cup {t}) \in Nat
    BY <2>0, <2>1
  <2> QED  BY <2>1, <2>2 DEF S
<1>3. Cardinality(Leased') \in Nat
      /\ Cardinality(Leased') <= Cardinality(Leased) + 1
  BY <1>1, <1>2, FS_Subset, FS_CardinalityType
<1> DEFINE a == IF checking THEN 1 ELSE 0
<1>4. a \in Nat  OBVIOUS
<1>5. Cardinality(Leased) + a < MaxConcurrent
  BY <1>4, LeasedFinite DEF ActiveCount
<1> HIDE DEF a
<1>6. Cardinality(Leased') + a <= MaxConcurrent
  BY <1>3, <1>4, <1>5, LeasedFinite
<1> QED  BY <1>6 DEF SeatsBounded, ActiveCount, a

-----------------------------------------------------------------------------
(* An operation that unlocks leaves the queue in order. *)
LEMMA UnlockQueue ==
  ASSUME TypeOK, Queue, NEW o \in Ops, Unlock(o)
  PROVE  Queue'
<1>1. \A p \in Ops : Active(p)' => Active(p) /\ p # o
  BY DEF Unlock, Active, TypeOK
<1>2. \A p \in Ops : ahead'[p] = ahead[p] \ {o}  BY DEF Unlock, TypeOK
<1>3. on' = on  BY DEF Unlock
<1>4. Ordered'  BY <1>1, <1>2, <1>3 DEF Queue, Ordered
<1>5. LockFree'  BY <1>2 DEF Queue, LockFree, Unlock, TypeOK
<1> QED  BY <1>4, <1>5 DEF Queue

(* The last one in waits for all the others. *)
LEMMA EnqueueQueue ==
  ASSUME TypeOK, Queue, NEW o \in Ops, NEW l \in Leases, op[o] = "idle",
         Enqueue(o, l)
  PROVE  Queue'
<1>1. \A p \in Ops \ {o} : /\ op'[p] = op[p] /\ on'[p] = on[p]
                           /\ ahead'[p] = ahead[p]
  BY DEF Enqueue, TypeOK
<1>2. /\ op'[o] = "waiting" /\ on'[o] = l
      /\ ahead'[o] = {p \in Ops : Active(p) /\ on[p] = l}
  BY DEF Enqueue, TypeOK
<1>3. Ordered'
  <2> SUFFICES ASSUME NEW p \in Ops, NEW q \in Ops, p # q, Active(p)',
                      Active(q)', on'[p] = on'[q]
               PROVE  p \in ahead'[q] \/ q \in ahead'[p]
    BY DEF Ordered
  <2>1. CASE p = o  BY <1>1, <1>2, <2>1 DEF Active
  <2>2. CASE q = o  BY <1>1, <1>2, <2>2 DEF Active
  <2>3. CASE p # o /\ q # o  BY <1>1, <2>3 DEF Queue, Ordered, Active
  <2> QED  BY <2>1, <2>2, <2>3
<1>4. LockFree'  BY <1>1, <1>2 DEF Queue, LockFree
<1> QED  BY <1>3, <1>4 DEF Queue

LEMMA SameQueue ==
  ASSUME Queue, UNCHANGED <<op, on, ahead>>
  PROVE  Queue'
BY DEF Queue, Ordered, LockFree, Active

(* An operation that keeps its place goes on to the lock or to the call. *)
LEMMA AdvanceQueue ==
  ASSUME TypeOK, Queue, NEW o \in Ops, Active(o), ahead[o] = {},
         NEW v \in {"entered", "calling"},
         op' = [op EXCEPT ![o] = v], UNCHANGED <<on, ahead>>
  PROVE  Queue'
<1>1. \A p \in Ops : Active(p)' => Active(p)  BY DEF Active, TypeOK
<1>2. Ordered'  BY <1>1 DEF Queue, Ordered
<1>3. LockFree'  BY DEF Queue, LockFree, TypeOK
<1> QED  BY <1>2, <1>3 DEF Queue

-----------------------------------------------------------------------------
LEMMA InitIInv == Init => IInv
<1> SUFFICES ASSUME Init PROVE IInv  OBVIOUS
<1>1. TypeOK /\ Owned  BY DEF Init, TypeOK, Owned
<1>2. Queue  BY DEF Init, Queue, Ordered, LockFree, Active
<1>3. Leased = {}  BY DEF Init, Leased
<1>4. SeatsBounded
  BY <1>3, FS_EmptySet DEF Init, SeatsBounded, ActiveCount
<1> QED  BY <1>1, <1>2, <1>4 DEF IInv

(* Each action keeps the types. *)
LEMMA LeaseStepTypes ==
  ASSUME TypeOK, Owned, NEW l \in Leases,
         \/ Awake(l) \/ Closed(l) \/ Created(l) \/ CreationFails(l)
         \/ Dies(l) \/ Expires(l)
  PROVE  TypeOK' /\ Owned'
<1> USE DEF TypeOK, Owned
<1>1. CASE Awake(l)  BY <1>1 DEF Awake, Wakes, Forget, opVars
<1>2. CASE Closed(l)  BY <1>2 DEF Closed, Forget, opVars
<1>3. CASE Created(l)  BY <1>3 DEF Created, opVars
<1>4. CASE CreationFails(l)  BY <1>4 DEF CreationFails, Forget, opVars
<1>5. CASE Dies(l)  BY <1>5 DEF Dies, opVars
<1>6. CASE Expires(l)
  <2> DEFINE s == leases[owner[l]]
  <2>1. s \in Leases \cup {NoLease}  BY <1>6 DEF Expires
  <2>2. UNCHANGED <<leases, owner, runtime, closer, checking, opVars, asked>>
    BY <1>6 DEF Expires
  <2>3. CASE s = NoLease
    <3>1. timer' = timer \ {l} /\ UNCHANGED <<expired, awaiting>>
      BY <1>6, <2>3 DEF Expires
    <3> QED  BY <2>2, <3>1 DEF opVars
  <2>4. CASE s # NoLease
    <3>1. /\ expired' = expired \cup {s} /\ timer' = timer \ {l, s}
          /\ awaiting' = [awaiting EXCEPT ![s] = @ + 1]
      BY <1>6, <2>4 DEF Expires
    <3> HIDE DEF s
    <3> QED  BY <2>1, <2>2, <2>4, <3>1 DEF opVars
  <2> QED  BY <2>3, <2>4
<1> QED  BY <1>1, <1>2, <1>3, <1>4, <1>5, <1>6

LEMMA ReleaseTypes ==
  ASSUME TypeOK, Owned, NEW t \in Tasks, Release(t), UNCHANGED owner
  PROVE  /\ expired' \subseteq Leases /\ timer' \subseteq Leases
         /\ awaiting' \in [Leases -> Nat] /\ Owned'
<1> DEFINE l == leases[t]
<1>1. l \in Leases \cup {NoLease}  BY DEF TypeOK
<1>2. CASE l = NoLease  BY <1>2 DEF Release, TypeOK, Owned
<1>3. CASE l # NoLease
  <2>1. /\ expired' = expired \cup {l} /\ timer' = timer \ {l}
        /\ awaiting' = [awaiting EXCEPT ![l] = @ + 1]
    BY <1>3 DEF Release
  <2> HIDE DEF l
  <2> QED  BY <1>1, <1>3, <2>1 DEF TypeOK, Owned
<1> QED  BY <1>2, <1>3

LEMMA UnlockTypes ==
  ASSUME TypeOK, NEW o \in Ops, Unlock(o)
  PROVE  /\ op' \in [Ops -> {"idle", "waiting", "entered", "calling", "done"}]
         /\ on' \in [Ops -> Leases \cup {NoLease}]
         /\ ahead' \in [Ops -> SUBSET Ops]
BY DEF TypeOK, Unlock

-----------------------------------------------------------------------------
(* One fact per action of an operation: it keeps the whole invariant. *)
LEMMA SameMap ==
  ASSUME TypeOK, SeatsBounded, UNCHANGED <<leases, checking>>
  PROVE  SeatsBounded'
BY FewerSeats DEF TypeOK

LEMMA LeaseStep ==
  ASSUME IInv, NEW l \in Leases,
         \/ Awake(l) \/ Closed(l) \/ Created(l) \/ CreationFails(l)
         \/ Dies(l) \/ Expires(l)
  PROVE  IInv'
<1>1. TypeOK' /\ Owned'  BY LeaseStepTypes DEF IInv
<1>2. /\ \A t \in Tasks : leases'[t] \in {leases[t], NoLease}
      /\ UNCHANGED <<checking, opVars>>
  <2> USE DEF IInv, TypeOK
  <2>1. CASE Awake(l)  BY <2>1 DEF Awake, Forget
  <2>2. CASE Closed(l)  BY <2>2 DEF Closed, Forget
  <2>3. CASE Created(l)  BY <2>3 DEF Created
  <2>4. CASE CreationFails(l)  BY <2>4 DEF CreationFails, Forget
  <2>5. CASE Dies(l)  BY <2>5 DEF Dies
  <2>6. CASE Expires(l)  BY <2>6 DEF Expires
  <2> QED  BY <2>1, <2>2, <2>3, <2>4, <2>5, <2>6
<1>3. SeatsBounded'  BY <1>2, FewerSeats DEF IInv
<1>4. Queue'  BY <1>2, SameQueue DEF IInv, opVars
<1> QED  BY <1>1, <1>3, <1>4 DEF IInv

LEMMA AskStep ==
  ASSUME IInv, NEW t \in Tasks, Ask(t)
  PROVE  IInv'
<1>1. /\ expired' \subseteq Leases /\ timer' \subseteq Leases
      /\ awaiting' \in [Leases -> Nat] /\ Owned'
  BY ReleaseTypes DEF Ask, IInv
<1>2. TypeOK'  BY <1>1 DEF Ask, IInv, TypeOK, opVars
<1>3. SeatsBounded'  BY SameMap DEF Ask, IInv
<1>4. Queue'  BY SameQueue DEF Ask, IInv, opVars
<1> QED  BY <1>1, <1>2, <1>3, <1>4 DEF IInv

LEMMA StartStep ==
  ASSUME IInv, NEW o \in Ops, Start(o)
  PROVE  IInv'
<1> DEFINE t == TaskOf[o]
           l == leases[t]
<1>0. /\ TypeOK /\ Owned /\ SeatsBounded /\ Queue /\ op[o] = "idle"
      /\ UNCHANGED <<checking, asked>> /\ t \in Tasks
      /\ l \in Leases \cup {NoLease}
  BY DEF IInv, Start, TypeOK
<1>1. CASE Refused(o)
  <2>1. TypeOK' /\ Owned'
    BY <1>0, <1>1 DEF Refused, TypeOK, Owned, leaseVars
  <2>2. SeatsBounded'  BY <1>0, <1>1, SameMap DEF Refused, leaseVars
  <2>3. \A p \in Ops : Active(p)' <=> Active(p)
    BY <1>0, <1>1 DEF Refused, Active, TypeOK
  <2>4. Ordered'  BY <1>0, <1>1, <2>3 DEF Refused, Queue, Ordered
  <2>5. LockFree'  BY <1>0, <1>1 DEF Refused, Queue, LockFree, TypeOK
  <2> QED  BY <2>1, <2>2, <2>4, <2>5 DEF IInv, Queue
<1>2. CASE l # NoLease /\ l \notin expired /\ Enqueue(o, l) /\ UNCHANGED leaseVars
  <2>1. TypeOK' /\ Owned'
    BY <1>0, <1>2 DEF Enqueue, TypeOK, Owned, leaseVars
  <2>2. SeatsBounded'  BY <1>0, <1>2, SameMap DEF leaseVars
  <2>3. Queue'  BY <1>0, <1>2, EnqueueQueue
  <2> QED  BY <2>1, <2>2, <2>3 DEF IInv
<1>3. CASE l = NoLease /\ ~(ActiveCount >= MaxConcurrent) /\ TakeSeat(o, t)
  <2> DEFINE u == CHOOSE x \in Unused : TRUE
  <2>1. u \in Leases  BY <1>3 DEF TakeSeat, Unused
  <2>2. /\ leases' = [leases EXCEPT ![t] = u]
        /\ owner' = [owner EXCEPT ![u] = t]
        /\ timer' = timer \cup {u}
        /\ runtime' = [runtime EXCEPT ![u] = "creating"]
        /\ UNCHANGED <<expired, awaiting, closer>>
        /\ Enqueue(o, u)
    BY <1>3 DEF TakeSeat
  <2> HIDE DEF u, t
  <2>3. TypeOK'  BY <1>0, <2>1, <2>2 DEF Enqueue, TypeOK
  <2>4. Owned'  BY <1>0, <2>1, <2>2 DEF TypeOK, Owned
  <2>5. SeatsBounded'  BY <1>0, <1>3, <2>2, OneSeatMore
  <2>6. Queue'  BY <1>0, <2>1, <2>2, EnqueueQueue
  <2> QED  BY <2>3, <2>4, <2>5, <2>6 DEF IInv
<1> QED  BY <1>1, <1>2, <1>3 DEF Start, TakeSeat

LEMMA EnterStep ==
  ASSUME IInv, NEW o \in Ops, Enter(o)
  PROVE  IInv'
<1>1. TypeOK' /\ Owned'
  BY DEF Enter, Unlock, IInv, TypeOK, Owned, leaseVars
<1>2. SeatsBounded'  BY SameMap DEF Enter, IInv, leaseVars
<1>3. CASE Unlock(o)  BY <1>1, <1>2, <1>3, UnlockQueue DEF IInv
<1>4. CASE op' = [op EXCEPT ![o] = "entered"] /\ UNCHANGED <<on, ahead>>
  <2>1. Queue'
    BY <1>4, AdvanceQueue DEF Enter, GetsLock, Active, IInv
  <2> QED  BY <1>1, <1>2, <2>1 DEF IInv
<1> QED  BY <1>3, <1>4 DEF Enter

LEMMA CallStep ==
  ASSUME IInv, NEW o \in Ops, Call(o)
  PROVE  IInv'
<1>1. TypeOK' /\ Owned'
  BY DEF Call, Unlock, IInv, TypeOK, Owned, leaseVars
<1>2. SeatsBounded'  BY SameMap DEF Call, IInv, leaseVars
<1>3. CASE Unlock(o)  BY <1>1, <1>2, <1>3, UnlockQueue DEF IInv
<1>4. CASE op' = [op EXCEPT ![o] = "calling"] /\ UNCHANGED <<on, ahead>>
  <2>1. ahead[o] = {} /\ Active(o)
    BY DEF Call, GetsRuntime, Active, IInv, Queue, LockFree
  <2>2. Queue'  BY <1>4, <2>1, AdvanceQueue DEF IInv
  <2> QED  BY <1>1, <1>2, <2>2 DEF IInv
<1> QED  BY <1>3, <1>4 DEF Call

LEMMA EndStep ==
  ASSUME IInv, NEW o \in Ops, Answer(o) \/ Rejected(o)
  PROVE  IInv'
<1>1. /\ Unlock(o) /\ UNCHANGED <<leases, checking, owner, runtime, closer, aborted, asked>>
  BY DEF Answer, Rejected, leaseVars
<1>2. TaskOf[o] \in Tasks  OBVIOUS
<1>3. /\ expired' \subseteq Leases /\ timer' \subseteq Leases
      /\ awaiting' \in [Leases -> Nat] /\ Owned'
  <2>1. CASE UNCHANGED leaseVars
    BY <2>1 DEF leaseVars, IInv, TypeOK, Owned
  <2>2. CASE Release(TaskOf[o])
    BY <1>1, <1>2, <2>2, ReleaseTypes DEF IInv
  <2> QED  BY <2>1, <2>2 DEF Answer, Rejected
<1>4. TypeOK'  BY <1>1, <1>3, UnlockTypes DEF IInv, TypeOK
<1>5. SeatsBounded'  BY <1>1, SameMap DEF IInv
<1>6. Queue'  BY <1>1, UnlockQueue DEF IInv
<1> QED  BY <1>3, <1>4, <1>5, <1>6 DEF IInv

LEMMA AbortStep ==
  ASSUME IInv, NEW o \in Ops, Abort(o)
  PROVE  IInv'
<1>1. /\ UNCHANGED <<leases, owner, closer, checking, asked>>
      /\ aborted' = aborted \cup {o}
  BY DEF Abort
<1>2. /\ expired' \subseteq Leases /\ timer' \subseteq Leases
      /\ awaiting' \in [Leases -> Nat] /\ Owned'
  <2>1. CASE UNCHANGED <<expired, timer, awaiting>>
    BY <1>1, <2>1 DEF IInv, TypeOK, Owned
  <2>2. CASE Release(TaskOf[o])
    BY <1>1, <2>2, ReleaseTypes DEF IInv
  <2> QED  BY <2>1, <2>2 DEF Abort
<1>3. runtime' \in [Leases -> {"none", "creating", "live", "closing", "gone", "failed"}]
  BY DEF Abort, IInv, TypeOK
<1>4. SeatsBounded'  BY <1>1, SameMap DEF IInv
<1>5. CASE Unlock(o)
  <2>1. TypeOK'  BY <1>1, <1>2, <1>3, <1>5, UnlockTypes DEF IInv, TypeOK
  <2>2. Queue'  BY <1>5, UnlockQueue DEF IInv
  <2> QED  BY <1>2, <1>4, <2>1, <2>2 DEF IInv
<1>6. CASE UNCHANGED <<op, on, ahead>>
  <2>1. TypeOK'  BY <1>1, <1>2, <1>3, <1>6 DEF IInv, TypeOK
  <2>2. Queue'  BY <1>6, SameQueue DEF IInv
  <2> QED  BY <1>2, <1>4, <2>1, <2>2 DEF IInv
<1> QED  BY <1>5, <1>6 DEF Abort

LEMMA CheckStep ==
  ASSUME IInv, CheckBegins \/ CheckEnds
  PROVE  IInv'
<1>1. TypeOK' /\ Owned'
  BY DEF CheckBegins, CheckEnds, IInv, TypeOK, Owned, leaseVars, opVars
<1>2. Queue'
  BY SameQueue DEF CheckBegins, CheckEnds, IInv, opVars
<1>3. CASE CheckEnds
  <2>1. SeatsBounded'  BY <1>3, FewerSeats DEF CheckEnds, IInv, leaseVars
  <2> QED  BY <1>1, <1>2, <2>1 DEF IInv
<1>4. CASE CheckBegins
  <2>1. /\ ~checking /\ checking' = TRUE /\ ActiveCount < MaxConcurrent
        /\ leases' = leases
    BY <1>4 DEF CheckBegins, leaseVars
  <2>2. Leased' = Leased  BY <2>1 DEF Leased
  <2>3. Cardinality(Leased) + 0 < MaxConcurrent  BY <2>1 DEF ActiveCount
  <2>4. Cardinality(Leased') + 1 <= MaxConcurrent
    BY <2>2, <2>3, LeasedFinite
  <2>5. SeatsBounded'  BY <2>1, <2>4 DEF SeatsBounded, ActiveCount
  <2> QED  BY <1>1, <1>2, <2>5 DEF IInv
<1> QED  BY <1>3, <1>4

LEMMA NextIInv == IInv /\ [Next]_vars => IInv'
<1> SUFFICES ASSUME IInv, [Next]_vars PROVE IInv'  OBVIOUS
<1>1. ASSUME NEW l \in Leases,
             \/ Awake(l) \/ Closed(l) \/ Created(l) \/ CreationFails(l)
             \/ Dies(l) \/ Expires(l)
      PROVE  IInv'
  BY <1>1, LeaseStep
<1>2. ASSUME NEW o \in Ops,
             \/ Start(o) \/ Enter(o) \/ Call(o)
             \/ Answer(o) \/ Rejected(o) \/ Abort(o)
      PROVE  IInv'
  BY <1>2, StartStep, EnterStep, CallStep, EndStep, AbortStep
<1>3. ASSUME NEW t \in Tasks, Ask(t) PROVE IInv'
  BY <1>3, AskStep
<1>4. CASE CheckBegins \/ CheckEnds  BY <1>4, CheckStep
<1>5. CASE UNCHANGED vars
  <2>1. UNCHANGED <<leases, checking, op, on, ahead>>
    BY <1>5 DEF vars, leaseVars, opVars
  <2>2. SeatsBounded' /\ Queue'  BY <2>1, SameMap, SameQueue DEF IInv
  <2>3. TypeOK' /\ Owned'
    BY <1>5 DEF vars, leaseVars, opVars, IInv, TypeOK, Owned
  <2> QED  BY <2>2, <2>3 DEF IInv
<1> QED  BY <1>1, <1>2, <1>3, <1>4, <1>5 DEF Next

LEMMA IInvSafe == IInv => Safe
BY DEF IInv, Safe, OneAtATime, Queue, Ordered, LockFree, Active

(* The manager never gives out more seats than are configured, the check   *)
(* of the configuration included, and the operations of a lease exclude    *)
(* each other from the lock to the answer whatever was cancelled or expired *)
(* in between.                                                              *)
THEOREM SeatsAndOrder == Spec => []Safe
<1>1. Spec => []IInv
  BY InitIInv, NextIInv, PTL DEF Spec
<1> QED  BY <1>1, IInvSafe, PTL
=============================================================================
