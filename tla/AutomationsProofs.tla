-------------------------- MODULE AutomationsProofs -------------------------
(***************************************************************************)
(* What automation.ts promises, for every set of plans and events, any     *)
(* schedules, any number of repetitions, users' interventions and crashes: *)
(*   - an occurrence creates one task.  The receipt is stored before the   *)
(*     task is made and never removed, so that of all submissions only the *)
(*     first, which finds none, reaches the orchestrator;                  *)
(*   - the records keep their form, attempts of a delivery their limit,    *)
(*     and an occurrence that is closed has its delivery in the outbox;    *)
(*   - an occurrence shown as cancelled has no running task;               *)
(*   - a native message that may have arrived is not sent again;           *)
(*   - of the times a plan missed, one is made up for.                     *)
(* The last three need what their theorems assume: a disk that takes the   *)
(* writes at the end of a step, or users that leave the plans alone.       *)
(***************************************************************************)
EXTENDS Automations, TLAPS

TypeInv ==
  /\ task \in [Occs -> {"none", "live", "SUCCEEDED", "FAILED", "CANCELLED", "INTERRUPTED"}]
  /\ dispatch \in [Occs -> {"idle", "creating", "known", "revoking"}]
  /\ receipt \in [Occs -> {"absent", "creating", "submitted", "failed"}]

\* Without a receipt there is no task, and the one submission that may make it has
\* not done so.
FirstOnly ==
  \A o \in Occs : receipt[o] = "absent" \/ dispatch[o] = "creating" => task[o] = "none"

IInv == TypeInv /\ FirstOnly

\* What a step may do to the task of one occurrence.
Once == \A o \in Occs : task[o] \notin {"none", "live"} => task'[o] # "live"

\* Initially no occurrence has a receipt or a task.
LEMMA InitIInv == Init => IInv
  BY DEF Init, IInv, TypeInv, FirstOnly

\* A submission that finds a receipt does not come to create a task.
LEMMA DispatchIInv ==
  ASSUME IInv, NEW o \in Occs, NEW item, Dispatch(o, item), UNCHANGED task
  PROVE  IInv' /\ Once
  <1>1. CASE dispatch[o] = "idle" /\ item.state \in Open
    BY <1>1 DEF Dispatch, IInv, TypeInv, FirstOnly, Once
  <1>2. CASE ~(dispatch[o] = "idle" /\ item.state \in Open)
    BY <1>2 DEF Dispatch, IInv, TypeInv, FirstOnly, Once
  <1> QED BY <1>1, <1>2

\* A submission that ends leaves the receipt and the tasks alone.
LEMMA StoreFacts ==
  ASSUME NEW o, NEW item, Store(o, item)
  PROVE  dispatch' = [dispatch EXCEPT ![o] = "idle"]
  BY DEF Store

\* The answer to a submission makes a task at most where there was none.
LEMMA AnswerIInv ==
  ASSUME IInv, NEW o \in Occs, Answer(o)
  PROVE  IInv' /\ Once
  <1>1. \/ dispatch' = [dispatch EXCEPT ![o] = "idle"]
        \/ dispatch' = [dispatch EXCEPT ![o] = "revoking"]
    BY StoreFacts DEF Answer, Accepted, Rejected
  <1>2. \/ /\ dispatch[o] = "creating"
           /\ task' = [task EXCEPT ![o] = "live"]
           /\ receipt' = [receipt EXCEPT ![o] = "submitted"]
        \/ /\ receipt' = [receipt EXCEPT ![o] = "failed"] /\ task' = task
           /\ dispatch[o] = "creating"
        \/ task' = task /\ receipt' = receipt
    BY DEF Answer
  <1> QED BY <1>1, <1>2 DEF IInv, TypeInv, FirstOnly, Once

\* Every step keeps the invariant, and no step makes a task for an occurrence whose
\* task is over.
LEMMA NextIInv ==
  ASSUME IInv, [Next]_vars
  PROVE  IInv' /\ Once
  <1>0. ASSUME UNCHANGED <<task, dispatch, receipt>> PROVE IInv' /\ Once
    BY <1>0 DEF IInv, TypeInv, FirstOnly, Once
  <1>1. CASE UNCHANGED vars
    BY <1>1, <1>0 DEF vars, occurrences
  <1>2. CASE TickStep
    <2>1. CASE Tick \/ Fired \/ Sent
      BY <2>1, <1>0 DEF Tick, Fired, Sent, occurrences
    <2>2. CASE Visited
      BY <2>2, <1>0 DEF Visited
    <2>3. ASSUME NEW x \in todo, Send(x[1], x[2]) \/ NotDue(x[1], x[2]) PROVE IInv' /\ Once
      BY <2>3, <1>0 DEF Send, NotDue
    <2>4. ASSUME NEW x \in todo, Fire(x[1], x[2]) PROVE IInv' /\ Once
      <3>0. task' = task
        BY <2>4 DEF Fire
      <3>1. CASE x[2].enabled /\ x[2].next # Null /\ x[2].next <= now
        <4> DEFINE o == <<x[1], x[2].next>>
        <4>1. Dispatch(o, Found(o))
          BY <2>4, <3>1 DEF Fire
        <4>2. CASE o \in Occs
          BY <3>0, <4>1, <4>2, DispatchIInv
        <4>3. CASE o \notin Occs
          BY <3>0, <4>1, <4>3 DEF Dispatch, IInv, TypeInv, FirstOnly, Once
        <4> QED BY <4>2, <4>3
      <3>2. CASE ~(x[2].enabled /\ x[2].next # Null /\ x[2].next <= now)
        BY <2>4, <3>0, <3>2, <1>0 DEF Fire
      <3> QED BY <3>1, <3>2
    <2>5. ASSUME NEW x \in todo, Visit(x[1], x[2]) PROVE IInv' /\ Once
      <3>0. task' = task
        BY <2>5 DEF Visit
      <3>1. CASE x[2].state \in Open
        <4>1. Dispatch(x[1], x[2])
          BY <2>5, <3>1 DEF Visit
        <4>2. CASE x[1] \in Occs
          BY <3>0, <4>1, <4>2, DispatchIInv
        <4>3. CASE x[1] \notin Occs
          BY <3>0, <4>1, <4>3 DEF Dispatch, IInv, TypeInv, FirstOnly, Once
        <4> QED BY <4>2, <4>3
      <3>2. CASE x[2].state \notin Open
        BY <2>5, <3>0, <3>2, <1>0 DEF Visit
      <3> QED BY <3>1, <3>2
    <2> QED BY <1>2, <2>1, <2>2, <2>3, <2>4, <2>5 DEF TickStep
  <1>3. ASSUME NEW o \in Occs, Continue(o) PROVE IInv' /\ Once
    <2>1. CASE Answer(o)
      BY <2>1, AnswerIInv
    <2>2. CASE Revoke(o)
      <3>1. dispatch' = [dispatch EXCEPT ![o] = "idle"] /\ receipt' = receipt
        BY <2>2, StoreFacts DEF Revoke, Rejected
      <3>2. task' = task \/ (task[o] = "live" /\ task' = [task EXCEPT ![o] = "CANCELLED"])
        BY <2>2 DEF Revoke
      <3> QED BY <3>1, <3>2 DEF IInv, TypeInv, FirstOnly, Once
    <2>3. CASE Cancelled(o)
      BY <2>3, <1>0 DEF Cancelled
    <2> QED BY <1>3, <2>1, <2>2, <2>3 DEF Continue
  <1>4. ASSUME NEW o \in Occs, Receive(o) PROVE IInv' /\ Once
    BY <1>4, DispatchIInv DEF Receive
  <1>5. ASSUME NEW o \in Occs, CancelOccurrence(o) PROVE IInv' /\ Once
    <2>1. task' = task \/ (task[o] = "live" /\ task' = [task EXCEPT ![o] = "CANCELLED"])
      BY <1>5 DEF CancelOccurrence
    <2>2. UNCHANGED <<receipt, dispatch>>
      BY <1>5 DEF CancelOccurrence
    <2> QED BY <2>1, <2>2 DEF IInv, TypeInv, FirstOnly, Once
  <1>6. ASSUME NEW o \in Occs, TaskEnds(o) PROVE IInv' /\ Once
    BY <1>6 DEF TaskEnds, IInv, TypeInv, FirstOnly, Once
  <1>7. ASSUME NEW o \in Occs, Retry(o) \/ Stop(o) PROVE IInv' /\ Once
    BY <1>7, <1>0 DEF Retry, Stop, occurrences
  <1>8. ASSUME NEW p \in Plans, SetEnabled(p) \/ Remove(p) PROVE IInv' /\ Once
    BY <1>8, <1>0 DEF SetEnabled, Remove, occurrences
  <1>9. CASE Advance
    BY <1>9, <1>0 DEF Advance, occurrences
  <1>10. CASE Crash
    <2>1. /\ task' = [o \in Occs |-> IF task[o] = "live" THEN "INTERRUPTED" ELSE task[o]]
          /\ dispatch' = [o \in Occs |-> "idle"] /\ receipt' = receipt
      BY <1>10 DEF Crash
    <2> QED BY <2>1 DEF IInv, TypeInv, FirstOnly, Once
  <1> QED BY <1>1, <1>2, <1>3, <1>4, <1>5, <1>6, <1>7, <1>8, <1>9, <1>10 DEF Next

\* The invariant holds throughout.
THEOREM FirstOnlyAlways == Spec => []IInv
  <1>1. IInv /\ [Next]_vars => IInv'
    BY NextIInv
  <1> QED BY InitIInv, <1>1, PTL DEF Spec

\* An occurrence never has a second task, whoever submits it, however often, and
\* wherever the process dies (submitOccurrence, dispatch).
THEOREM OneTaskEach == Spec => OneTaskPerOccurrence
  <1>1. IInv /\ [Next]_vars => [Once]_vars
    BY NextIInv
  <1> QED BY FirstOnlyAlways, <1>1, PTL DEF Spec, OneTaskPerOccurrence, Once

-----------------------------------------------------------------------------
(* The records on disk, and the snapshot the tick works from.               *)

PlanRec == [there : BOOLEAN, enabled : BOOLEAN, next : (Nat \ {0}) \cup {Null}]
OccRec == [state : {"none", "pending", "submitting", "submitted", "uncertain",
                    "completed", "failed", "cancelled"}, named : BOOLEAN]
OutRec == [state : {"none", "pending", "sending", "delivered", "failed", "cancelled"},
           tries : Nat]

Clock == now \in 0..MaxTime /\ acts \in 0..MaxActs /\ restarts \in 0..MaxRestarts
PlanTypes == plan \in [Plans -> PlanRec] /\ fired \in [Plans -> Nat \cup {Null}]
OccTypes == occ \in [Occs -> OccRec] /\ revoking \subseteq Occs
OutTypes == out \in [Occs -> OutRec] /\ reached \subseteq Occs

\* What is in the snapshot, and what the tick waits for, is of the kind of its phase.
TickTypes ==
  /\ at \in {"idle", "plans", "occurrences", "outbox"} /\ try \in Nat
  /\ cur \in Occs \cup {Null} /\ (cur # Null => at # "idle")
  /\ at = "plans" => todo \subseteq Plans \X PlanRec /\ (cur # Null => cur \in Scheduled)
  /\ at = "occurrences" => todo \subseteq Occs \X OccRec
  /\ at = "outbox" => todo \subseteq Occs \X OutRec

Records == Clock /\ PlanTypes /\ OccTypes /\ OutTypes /\ TickTypes

\* The next multiple of d after a.
LEMMA LaterMultiple ==
  ASSUME NEW a \in Nat, NEW d \in Nat \ {0}
  PROVE  a \div d \in Nat /\ (a \div d + 1) * d > a
OBVIOUS

\* The next time of a plan is later than the time it is computed from.
LEMMA NextTimeLater ==
  ASSUME AutomationsAssumption, NEW p \in Plans, NEW after \in Nat
  PROVE  /\ NextTime(p, after) \in (Nat \ {0}) \cup {Null}
         /\ NextTime(p, after) # Null => NextTime(p, after) > after
<1>1. Kind[p] \in {"once", "every", "cron"} /\ Period[p] \in Nat \ {0}
  BY DEF AutomationsAssumption
<1>2. CASE Kind[p] = "once"  BY <1>1, <1>2 DEF NextTime
<1>3. CASE Kind[p] = "every"  BY <1>1, <1>3 DEF NextTime
<1>4. CASE Kind[p] = "cron"
  <2> DEFINE k == after \div Period[p]
  <2>1. NextTime(p, after) = (k + 1) * Period[p]
    BY <1>4 DEF NextTime
  <2>2. k \in Nat /\ (k + 1) * Period[p] > after
    BY <1>1, LaterMultiple
  <2>3. (k + 1) * Period[p] \in Nat
    BY <1>1, <2>2
  <2> QED BY <2>1, <2>2, <2>3
<1> QED BY <1>1, <1>2, <1>3, <1>4

\* What a submission writes, if it is let in.
LEMMA DispatchEffect ==
  ASSUME IInv, OccTypes, NEW o \in Occs, NEW item \in OccRec, Dispatch(o, item)
  PROVE  /\ occ' \in [Occs -> OccRec]
         /\ \A u \in Occs : u # o => occ'[u] = occ[u] /\ dispatch'[u] = dispatch[u]
                                     /\ receipt'[u] = receipt[u]
         /\ \/ UNCHANGED <<occ, dispatch, receipt>> /\ ~(dispatch[o] = "idle" /\ item.state \in Open)
            \/ /\ dispatch[o] = "idle" /\ item.state \in Open
               /\ occ'[o].state = "submitting" /\ occ'[o].named = item.named
               /\ dispatch'[o] \in {"creating", "known"} /\ receipt'[o] # "absent"
               /\ receipt[o] # "absent" => receipt'[o] = receipt[o]
<1>1. CASE dispatch[o] = "idle" /\ item.state \in Open
  <2> DEFINE new == [item EXCEPT !.state = "submitting"]
  <2>1. new \in OccRec /\ new.state = "submitting" /\ new.named = item.named
    BY DEF OccRec
  <2>2. /\ occ' = [occ EXCEPT ![o] = new]
        /\ dispatch' = [dispatch EXCEPT ![o] =
             IF receipt[o] = "absent" THEN "creating" ELSE "known"]
        /\ receipt' = [receipt EXCEPT ![o] =
             IF receipt[o] = "absent" THEN "creating" ELSE receipt[o]]
    BY <1>1 DEF Dispatch
  <2> HIDE DEF new
  <2>3. occ' \in [Occs -> OccRec] /\ occ'[o] = new /\ \A u \in Occs : u # o => occ'[u] = occ[u]
    BY <2>1, <2>2 DEF OccTypes
  <2> QED BY <1>1, <2>1, <2>2, <2>3 DEF IInv, TypeInv
<1>2. CASE ~(dispatch[o] = "idle" /\ item.state \in Open)
  BY <1>2 DEF Dispatch, OccTypes
<1> QED BY <1>1, <1>2

\* The end of a submission: its record is written, or the write fails.
LEMMA StoreEffect ==
  ASSUME IInv, OccTypes, NEW o \in Occs, NEW item \in OccRec, Store(o, item)
  PROVE  /\ dispatch'[o] = "idle" /\ \A u \in Occs : u # o => dispatch'[u] = dispatch[u]
         /\ occ' \in [Occs -> OccRec] /\ \A u \in Occs : u # o => occ'[u] = occ[u]
         /\ occ'[o] = item \/ (Faults /\ UNCHANGED occ)
         /\ UNCHANGED ticking \/ (Faults /\ cur = o /\ at # "outbox" /\ TickStops)
BY DEF Store, IInv, TypeInv, OccTypes

\* An occurrence nobody recorded before is found as a pending one.
LEMMA FoundType ==
  ASSUME OccTypes, NEW o \in Occs
  PROVE  /\ Found(o) \in OccRec /\ (occ[o] = NoOcc => Found(o).state \in Open)
         /\ Found(o).state \in Open => Found(o) = Pending \/ Found(o) = occ[o]
BY DEF OccTypes, Found, Pending, NoOcc, OccRec, Open

\* The element of the snapshot a step of the tick takes is of the kind of the phase.
LEMMA Taken ==
  ASSUME TickTypes, NEW x \in todo
  PROVE  /\ Fire(x[1], x[2]) => at = "plans" /\ x[1] \in Plans /\ x[2] \in PlanRec
         /\ Visit(x[1], x[2]) => at = "occurrences" /\ x[1] \in Occs /\ x[2] \in OccRec
         /\ Send(x[1], x[2]) \/ NotDue(x[1], x[2]) =>
              at = "outbox" /\ x[1] \in Occs /\ x[2] \in OutRec
BY DEF TickTypes, Fire, Visit, Send, NotDue, Take

\* A plan of the snapshot that is due names an occurrence.
LEMMA DueIsOcc ==
  ASSUME AutomationsAssumption, Clock, NEW p \in Plans, NEW seen \in PlanRec,
         seen.next # Null, seen.next <= now
  PROVE  /\ <<p, seen.next>> \in Scheduled /\ <<p, seen.next>> \in Occs
         /\ <<p, seen.next>> # Null
BY DEF AutomationsAssumption, Clock, PlanRec, Scheduled, Occs

LEMMA ClockStep ==
  ASSUME AutomationsAssumption, Clock, [Next]_vars
  PROVE  Clock'
<1> USE DEF AutomationsAssumption, Clock
<1>1. CASE UNCHANGED <<now, acts, restarts>>
  BY <1>1
<1>2. CASE TickStep
  BY <1>2, <1>1 DEF TickStep, Tick, Fired, Visited, Sent, Fire, Visit, Send, NotDue, Take
<1>3. ASSUME NEW o \in Occs, Continue(o) \/ Receive(o) \/ CancelOccurrence(o) \/ TaskEnds(o)
      PROVE  Clock'
  BY <1>3, <1>1 DEF Continue, Answer, Revoke, Cancelled, Receive, CancelOccurrence, TaskEnds
<1>4. ASSUME NEW o \in Occs, Retry(o) \/ Stop(o) PROVE Clock'
  BY <1>4 DEF Retry, Stop, Act
<1>5. ASSUME NEW p \in Plans, SetEnabled(p) \/ Remove(p) PROVE Clock'
  BY <1>5 DEF SetEnabled, Remove, Act
<1>6. CASE Advance  BY <1>6 DEF Advance
<1>7. CASE Crash  BY <1>7 DEF Crash
<1> QED BY <1>1, <1>2, <1>3, <1>4, <1>5, <1>6, <1>7 DEF Next, vars

\* A plan with other flags is a plan.
LEMMA OtherFlag ==
  ASSUME PlanTypes, NEW p \in Plans, NEW b \in BOOLEAN, NEW n \in (Nat \ {0}) \cup {Null}
  PROVE  /\ [plan EXCEPT ![p].there = b] \in [Plans -> PlanRec]
         /\ [plan EXCEPT ![p].enabled = b] \in [Plans -> PlanRec]
         /\ [plan EXCEPT ![p].enabled = b, ![p].next = n] \in [Plans -> PlanRec]
BY DEF PlanTypes, PlanRec

LEMMA PlanStep ==
  ASSUME AutomationsAssumption, Records, [Next]_vars
  PROVE  PlanTypes'
<1> USE DEF PlanTypes
<1>0. PlanTypes /\ TickTypes /\ Clock /\ now \in Nat
  BY DEF Records, Clock
<1>1. CASE UNCHANGED <<plan, fired>>
  BY <1>0, <1>1
<1>2. CASE TickStep
  <2>1. ASSUME NEW x \in todo, Fire(x[1], x[2]) PROVE PlanTypes'
    <3>1. UNCHANGED plan /\ (UNCHANGED fired \/ fired' = [fired EXCEPT ![x[1]] = now])
      BY <2>1 DEF Fire
    <3> QED BY <1>0, <3>1
  <2>2. CASE Fired
    <3> DEFINE p == cur[1]  n == Rescheduled(p, cur[2])
    <3>1. p \in Plans
      BY <1>0, <2>2 DEF Fired, TickTypes, Scheduled
    <3>2. n \in (Nat \ {0}) \cup {Null}
      BY <1>0, <3>1, NextTimeLater DEF Rescheduled
    <3>3. \/ plan' = plan
          \/ plan' = [plan EXCEPT ![p].next = n, ![p].enabled = plan[p].enabled /\ n # Null]
      BY <2>2 DEF Fired
    <3> HIDE DEF n, p
    <3>4. plan[p].enabled \in BOOLEAN
      BY <1>0, <3>1 DEF PlanRec
    <3> DEFINE e == plan[p].enabled /\ n # Null
    <3>5. e \in BOOLEAN
      OBVIOUS
    <3>6. \/ plan' = plan
          \/ plan' = [plan EXCEPT ![p].next = n, ![p].enabled = e]
      BY <3>3
    <3> HIDE DEF e
    <3>7. plan' \in [Plans -> PlanRec]
      BY <1>0, <3>1, <3>2, <3>5, <3>6 DEF PlanRec
    <3> QED BY <1>0, <2>2, <3>7 DEF Fired
  <2>3. CASE Tick \/ Visited \/ Sent
    BY <2>3, <1>1 DEF Tick, Visited, Sent
  <2>4. ASSUME NEW x \in todo, Visit(x[1], x[2]) \/ Send(x[1], x[2]) \/ NotDue(x[1], x[2])
        PROVE  PlanTypes'
    BY <2>4, <1>1 DEF Visit, Send, NotDue
  <2> QED BY <1>2, <2>1, <2>2, <2>3, <2>4 DEF TickStep
<1>3. ASSUME NEW o \in Occs, Continue(o) \/ Receive(o) \/ CancelOccurrence(o) \/ TaskEnds(o)
                             \/ Retry(o) \/ Stop(o)
      PROVE  PlanTypes'
  BY <1>3, <1>1 DEF Continue, Answer, Revoke, Cancelled, Receive, CancelOccurrence, TaskEnds,
                    Retry, Stop
<1>4. ASSUME NEW p \in Plans, SetEnabled(p) PROVE PlanTypes'
  <2> DEFINE n == NextTime(p, now)
  <2>1. n \in (Nat \ {0}) \cup {Null}
    BY <1>0, NextTimeLater
  <2>2. /\ fired' = fired
        /\ \/ plan' = [plan EXCEPT ![p].enabled = FALSE]
           \/ plan' = [plan EXCEPT ![p].enabled = TRUE, ![p].next = n]
    BY <1>4 DEF SetEnabled
  <2> HIDE DEF n
  <2>3. plan' \in [Plans -> PlanRec]
    <3>1. /\ [plan EXCEPT ![p].enabled = FALSE] \in [Plans -> PlanRec]
          /\ [plan EXCEPT ![p].enabled = TRUE, ![p].next = n] \in [Plans -> PlanRec]
      BY <1>0, <2>1, OtherFlag
    <3> QED BY <2>2, <3>1
  <2> QED BY <1>0, <2>2, <2>3
<1>5. ASSUME NEW p \in Plans, Remove(p) PROVE PlanTypes'
  <2>1. fired' = fired /\ plan' = [plan EXCEPT ![p].there = FALSE]
    BY <1>5 DEF Remove
  <2>2. plan' \in [Plans -> PlanRec]
    BY <1>0, <2>1, NextTimeLater, OtherFlag
  <2> QED BY <1>0, <2>1, <2>2
<1>6. CASE Advance \/ Crash \/ UNCHANGED vars
  BY <1>6, <1>1 DEF Advance, Crash, vars
<1> QED BY <1>2, <1>3, <1>4, <1>5, <1>6 DEF Next

\* What filing a delivery writes.
LEMMA FileEffect ==
  ASSUME OutTypes, NEW o \in Occs, File(o)
  PROVE  /\ out' \in [Occs -> OutRec] /\ \A u \in Occs : u # o => out'[u] = out[u]
         /\ out'[o] = out[o] \/ (out[o] = NoOut /\ out'[o] = [state |-> "pending", tries |-> 0])
         /\ TargetOf(o) # "nowhere" => out'[o] # NoOut
BY DEF File, OutTypes, OutRec, NoOut

\* What closing an occurrence writes.
LEMMA CloseEffect ==
  ASSUME OccTypes, OutTypes, NEW o \in Occs, NEW item \in OccRec, Close(o, item)
  PROVE  /\ occ' \in [Occs -> OccRec] /\ out' \in [Occs -> OutRec]
         /\ \A u \in Occs : u # o => occ'[u] = occ[u] /\ out'[u] = out[u]
         /\ out'[o] = out[o] \/ (out[o] = NoOut /\ out'[o] = [state |-> "pending", tries |-> 0])
         /\ \/ occ'[o] = occ[o]
            \/ /\ occ'[o].state \in {"completed", "failed", "cancelled"} /\ Closable(o, item)
               /\ TargetOf(o) # "nowhere" => out'[o] # NoOut
            \/ Faults /\ occ'[o].state = "uncertain" /\ item.state = "submitted"
<1>2. CASE Closable(o, item) /\ File(o) /\ occ' = Closed(o, item)
  <2> DEFINE new == [item EXCEPT !.state = Final(o)]
  <2>1. new \in OccRec /\ new.state \in {"completed", "failed", "cancelled"}
    BY DEF OccRec, Final
  <2>2. occ' = [occ EXCEPT ![o] = new]
    BY <1>2 DEF Closed
  <2> HIDE DEF new
  <2> QED BY <1>2, <2>1, <2>2, FileEffect DEF OccTypes
<1>3. CASE UNCHANGED <<occ, out>>
  BY <1>3 DEF OccTypes, OutTypes
<1>4. CASE /\ Faults /\ item.state = "submitted"
           /\ occ' = [occ EXCEPT ![o] = [item EXCEPT !.state = "uncertain"]] /\ UNCHANGED out
  <2> DEFINE new == [item EXCEPT !.state = "uncertain"]
  <2>1. new \in OccRec /\ new.state = "uncertain"
    BY DEF OccRec
  <2>2. occ' = [occ EXCEPT ![o] = new]
    BY <1>4
  <2> HIDE DEF new
  <2> QED BY <1>4, <2>1, <2>2 DEF OccTypes, OutTypes
<1> QED BY <1>2, <1>3, <1>4 DEF Close

\* How a step of the tick that looks at a plan changes occurrences.
LEMMA FireEffect ==
  ASSUME AutomationsAssumption, Records, NEW p \in Plans, NEW seen \in PlanRec, Fire(p, seen)
  PROVE  /\ UNCHANGED <<now, plan, revoking, task, out, reached, try, at>>
         /\ at = "plans" /\ cur = Null /\ todo' = todo \ {<<p, seen>>} /\ <<p, seen>> \in todo
         /\ \/ UNCHANGED <<occ, dispatch, receipt, fired, cur>>
            \/ \E o \in Scheduled :
                 /\ o = <<p, seen.next>> /\ seen.next # Null /\ seen.next <= now
                 /\ o \in Occs /\ o # Null /\ cur' = o
                 /\ Dispatch(o, Found(o))
                 /\ fired' = IF occ[o] = NoOcc THEN [fired EXCEPT ![p] = now] ELSE fired
BY DueIsOcc DEF Fire, Take, Records, deliveries

LEMMA OccStep ==
  ASSUME AutomationsAssumption, IInv, Records, [Next]_vars
  PROVE  OccTypes'
<1>0. OccTypes /\ OutTypes /\ TickTypes
  BY DEF Records
<1>1. CASE UNCHANGED <<occ, revoking>>
  BY <1>0, <1>1 DEF OccTypes
<1>2. CASE TickStep
  <2>1. ASSUME NEW x \in todo, Fire(x[1], x[2]) PROVE OccTypes'
    <3>1. x[1] \in Plans /\ x[2] \in PlanRec
      BY <1>0, <2>1, Taken
    <3>2. UNCHANGED <<occ, revoking>> \/ (revoking' = revoking /\ \E o \in Occs : Dispatch(o, Found(o)))
      BY <2>1, <3>1, FireEffect
    <3>3. ASSUME NEW o \in Occs, Dispatch(o, Found(o)) PROVE occ' \in [Occs -> OccRec]
      BY <1>0, <3>3, FoundType, DispatchEffect
    <3> QED BY <1>0, <1>1, <3>2, <3>3 DEF OccTypes
  <2>2. ASSUME NEW x \in todo, Visit(x[1], x[2]) PROVE OccTypes'
    <3>1. x[1] \in Occs /\ x[2] \in OccRec
      BY <1>0, <2>2, Taken
    <3>2. revoking' = revoking /\ (Dispatch(x[1], x[2]) \/ Close(x[1], x[2]))
      BY <2>2 DEF Visit, Take
    <3>3. occ' \in [Occs -> OccRec]
      BY <1>0, <3>1, <3>2, DispatchEffect, CloseEffect
    <3> QED BY <1>0, <3>2, <3>3 DEF OccTypes
  <2>3. CASE Visited
    <3>1. cur \in Occs /\ Close(cur, occ[cur]) /\ revoking' = revoking
      BY <1>0, <2>3 DEF Visited, TickTypes
    <3>2. occ' \in [Occs -> OccRec]
      BY <1>0, <3>1, CloseEffect DEF OccTypes
    <3> QED BY <1>0, <3>1, <3>2 DEF OccTypes
  <2>4. CASE Tick \/ Fired \/ Sent
    BY <2>4, <1>1 DEF Tick, Fired, Sent, occurrences
  <2>5. ASSUME NEW x \in todo, Send(x[1], x[2]) \/ NotDue(x[1], x[2]) PROVE OccTypes'
    BY <2>5, <1>1 DEF Send, NotDue, Take
  <2> QED BY <1>2, <2>1, <2>2, <2>3, <2>4, <2>5 DEF TickStep
<1>3. ASSUME NEW o \in Occs, Answer(o) \/ Revoke(o) PROVE OccTypes'
  <2>1. revoking' = revoking
    BY <1>3 DEF Answer, Revoke
  <2>2. UNCHANGED occ \/ \E item \in OccRec : Store(o, item)
    BY <1>3 DEF Answer, Accepted, Rejected, Revoke, OccRec
  <2> QED BY <1>0, <2>1, <2>2, StoreEffect DEF OccTypes
<1>4. ASSUME NEW o \in Occs, Cancelled(o) \/ CancelOccurrence(o) PROVE OccTypes'
  <2>1. revoking' \subseteq Occs
    BY <1>0, <1>4 DEF Cancelled, CancelOccurrence, OccTypes
  <2>2. \/ UNCHANGED occ
        \/ occ' = [occ EXCEPT ![o] = [state |-> "cancelled", named |-> TRUE]]
        \/ occ' = [occ EXCEPT ![o].state = "cancelled"]
    BY <1>4 DEF Cancelled, CancelOccurrence
  <2>3. occ' \in [Occs -> OccRec]
    <3>1. /\ [state |-> "cancelled", named |-> TRUE] \in OccRec
          /\ \A r \in OccRec : [r EXCEPT !.state = "cancelled"] \in OccRec
      BY DEF OccRec
    <3>2. UNCHANGED occ \/ \E r \in OccRec : occ' = [occ EXCEPT ![o] = r]
      BY <1>0, <2>2, <3>1 DEF OccTypes
    <3> QED BY <1>0, <3>2 DEF OccTypes
  <2> QED BY <2>1, <2>3 DEF OccTypes
<1>5. ASSUME NEW o \in Occs, Receive(o) PROVE OccTypes'
  BY <1>0, <1>5, FoundType, DispatchEffect DEF Receive, OccTypes
<1>6. ASSUME NEW o \in Occs, TaskEnds(o) \/ Retry(o) \/ Stop(o) PROVE OccTypes'
  BY <1>6, <1>1 DEF TaskEnds, Retry, Stop, occurrences
<1>7. ASSUME NEW p \in Plans, SetEnabled(p) \/ Remove(p) PROVE OccTypes'
  BY <1>7, <1>1 DEF SetEnabled, Remove, occurrences
<1>8. CASE Advance \/ UNCHANGED vars
  BY <1>8, <1>1 DEF Advance, vars, occurrences
<1>9. CASE Crash
  <2>1. revoking' = {}
    BY <1>9 DEF Crash
  <2>2. UNCHANGED occ \/ \E o \in Occs : occ' = [occ EXCEPT ![o] = Pending]
    BY <1>9 DEF Crash, Firing, FirstWrite, Occs, Scheduled
  <2>3. Pending \in OccRec
    BY DEF Pending, OccRec
  <2> QED BY <1>0, <2>1, <2>2, <2>3 DEF OccTypes
<1> QED BY <1>2, <1>3, <1>4, <1>5, <1>6, <1>7, <1>8, <1>9 DEF Next, Continue

\* The delivery a step writes.
LEMMA SentEffect ==
  ASSUME OutTypes, TickTypes, Sent
  PROVE  /\ cur \in Occs /\ at = "outbox"
         /\ \E r \in {"ok", "refused", "again", "lost"} :
              /\ \/ out' = out
                 \/ /\ out[cur].state # "cancelled"
                    /\ out' = [out EXCEPT ![cur] = [state |-> After(r, try), tries |-> try]]
              /\ reached' = reached \/ (reached' = reached \cup {cur} /\ out[cur].state = "sending")
<1>1. at = "outbox" /\ cur \in Occs
  BY DEF Sent, TickTypes
<1>2. PICK answer \in Results(cur), written \in {"first", "second", "never"} :
        /\ out' = IF out[cur].state = "cancelled" \/ written = "never" THEN out
                  ELSE [out EXCEPT ![cur] =
                         [state |-> After(IF written = "first" THEN answer ELSE "again", try),
                          tries |-> try]]
        /\ reached' = IF answer \in {"ok", "lost"} /\ out[cur].state = "sending"
                      THEN reached \cup {cur} ELSE reached
  BY DEF Sent
<1>3. answer \in {"ok", "refused", "again", "lost"}
  BY DEF Results
<1>4. reached' = reached \/ (reached' = reached \cup {cur} /\ out[cur].state = "sending")
  BY <1>2
<1>5. (IF written = "first" THEN answer ELSE "again") \in {"ok", "refused", "again", "lost"}
  BY <1>3
<1> QED BY <1>1, <1>2, <1>4, <1>5

LEMMA OutStep ==
  ASSUME AutomationsAssumption, Records, [Next]_vars
  PROVE  OutTypes'
<1>0. OccTypes /\ OutTypes /\ TickTypes
  BY DEF Records
<1>1. CASE UNCHANGED <<out, reached>>
  BY <1>0, <1>1 DEF OutTypes
<1>2. CASE TickStep
  <2>1. ASSUME NEW x \in todo, Visit(x[1], x[2]) PROVE OutTypes'
    <3>1. x[1] \in Occs /\ x[2] \in OccRec /\ reached' = reached
      BY <1>0, <2>1, Taken DEF Visit
    <3>2. UNCHANGED out \/ Close(x[1], x[2])
      BY <2>1 DEF Visit
    <3> QED BY <1>0, <3>1, <3>2, CloseEffect DEF OutTypes
  <2>2. CASE Visited
    <3>1. cur \in Occs /\ Close(cur, occ[cur]) /\ reached' = reached
      BY <1>0, <2>2 DEF Visited, TickTypes
    <3>2. out' \in [Occs -> OutRec]
      BY <1>0, <3>1, CloseEffect DEF OccTypes
    <3> QED BY <1>0, <3>1, <3>2 DEF OutTypes
  <2>3. ASSUME NEW x \in todo, Send(x[1], x[2]) PROVE OutTypes'
    <3>1. x[1] \in Occs /\ x[2] \in OutRec /\ reached' = reached
      BY <1>0, <2>3, Taken DEF Send
    <3>2. \E r \in OutRec : out' = [out EXCEPT ![x[1]] = r]
      <4>1. /\ [x[2] EXCEPT !.state = "failed"] \in OutRec
            /\ [state |-> "sending", tries |-> Attempt(x[2])] \in OutRec
        BY <3>1 DEF OutRec, Attempt
      <4> QED BY <2>3, <4>1 DEF Send
    <3> QED BY <1>0, <3>1, <3>2 DEF OutTypes
  <2>4. CASE Sent
    <3>1. \A r : After(r, try) \in {"delivered", "pending", "failed"}
      BY DEF After
    <3>2. \A r : [state |-> After(r, try), tries |-> try] \in OutRec
      BY <1>0, <3>1 DEF OutRec, TickTypes
    <3> QED BY <1>0, <2>4, <3>2, SentEffect DEF OutTypes
  <2>5. CASE Tick \/ Fired
    BY <2>5, <1>1 DEF Tick, Fired, deliveries
  <2>6. ASSUME NEW x \in todo, Fire(x[1], x[2]) \/ NotDue(x[1], x[2]) PROVE OutTypes'
    BY <2>6, <1>1 DEF Fire, NotDue, deliveries
  <2> QED BY <1>2, <2>1, <2>2, <2>3, <2>4, <2>5, <2>6 DEF TickStep
<1>3. ASSUME NEW o \in Occs, Retry(o) \/ Stop(o) PROVE OutTypes'
  <2>1. \/ out' = [out EXCEPT ![o] = [state |-> "pending", tries |-> 0]]
        \/ out' = [out EXCEPT ![o].state = "cancelled"]
    BY <1>3 DEF Retry, Stop
  <2>2. out' \in [Occs -> OutRec]
    BY <1>0, <2>1 DEF OutTypes, OutRec
  <2>3. reached' \subseteq Occs
    BY <1>0, <1>3 DEF Retry, Stop, OutTypes
  <2> QED BY <2>2, <2>3 DEF OutTypes
<1>4. ASSUME NEW o \in Occs, Continue(o) \/ Receive(o) \/ CancelOccurrence(o) \/ TaskEnds(o)
      PROVE  OutTypes'
  BY <1>4, <1>1 DEF Continue, Answer, Revoke, Cancelled, Receive, CancelOccurrence, TaskEnds,
                    deliveries
<1>5. ASSUME NEW p \in Plans, SetEnabled(p) \/ Remove(p) PROVE OutTypes'
  BY <1>5, <1>1 DEF SetEnabled, Remove, deliveries
<1>6. CASE Advance \/ UNCHANGED vars
  BY <1>6, <1>1 DEF Advance, vars, deliveries
<1>7. CASE Crash
  <2>1. reached' \subseteq Occs
    BY <1>0, <1>7 DEF Crash, OutTypes, TickTypes
  <2>2. UNCHANGED out \/ \E o \in Occs : File(o)
    BY <1>0, <1>7 DEF Crash, FirstWrite, TickTypes
  <2>3. out' \in [Occs -> OutRec]
    BY <1>0, <2>2 DEF File, OutTypes, OutRec
  <2> QED BY <2>1, <2>3 DEF OutTypes
<1> QED BY <1>2, <1>3, <1>4, <1>5, <1>6, <1>7 DEF Next

\* A directory that is read gives entries of its kind.
LEMMA EnterTypes ==
  ASSUME Records, cur = Null, NEW phase \in {"plans", "occurrences", "outbox"}, Enter(phase)
  PROVE  TickTypes'
<1> USE DEF Records, PlanTypes, OccTypes, OutTypes, TickTypes, Snapshot
<1>0. at' = phase /\ cur' = Null /\ try' = try
  BY DEF Enter
<1>1. CASE phase = "plans"
  <2>1. todo' = Snapshot(plan, {p \in Plans : plan[p].there})  BY <1>1 DEF Enter
  <2> QED BY <1>0, <1>1, <2>1
<1>2. CASE phase = "occurrences"
  <2>1. todo' = Snapshot(occ, ToVisit)  BY <1>2 DEF Enter
  <2> QED BY <1>0, <1>2, <2>1 DEF ToVisit
<1>3. CASE phase = "outbox"
  <2>1. todo' = Snapshot(out, {o \in Occs : out[o].state \in {"pending", "sending"}})
    BY <1>3 DEF Enter
  <2> QED BY <1>0, <1>3, <2>1
<1> QED BY <1>1, <1>2, <1>3

LEMMA TickTypesStep ==
  ASSUME AutomationsAssumption, IInv, Records, [Next]_vars
  PROVE  TickTypes'
<1>0. OccTypes /\ OutTypes /\ TickTypes
  BY DEF Records
<1>1. CASE UNCHANGED ticking
  BY <1>0, <1>1 DEF TickTypes, ticking
<1>2. CASE TickStops
  BY <1>2 DEF TickTypes, TickStops
<1>3. CASE TickStep
  <2>1. CASE Tick
    BY <2>1, <1>2, EnterTypes DEF Tick
  <2>2. CASE Fired \/ Visited
    BY <1>0, <2>2 DEF Fired, Visited, TickTypes
  <2>3. CASE Sent
    BY <1>0, <2>3, <1>2 DEF Sent, TickTypes
  <2>4. ASSUME NEW x \in todo, Fire(x[1], x[2]) PROVE TickTypes'
    <3>1. x[1] \in Plans /\ x[2] \in PlanRec
      BY <1>0, <2>4, Taken
    <3>2. at = "plans" /\ at' = at /\ try' = try /\ todo' \subseteq todo
      BY <2>4 DEF Fire, Take
    <3>3. cur' = cur \/ cur' \in Scheduled
      BY <2>4, <3>1, DueIsOcc DEF Fire, Records
    <3> QED BY <1>0, <3>2, <3>3 DEF TickTypes, Occs, Scheduled
  <2>5. ASSUME NEW x \in todo, Visit(x[1], x[2]) PROVE TickTypes'
    <3>1. x[1] \in Occs /\ at = "occurrences"
      BY <1>0, <2>5, Taken
    <3>2. at' = at /\ try' = try /\ todo' \subseteq todo /\ (cur' = cur \/ cur' = x[1])
      BY <2>5 DEF Visit, Take
    <3> QED BY <1>0, <3>1, <3>2 DEF TickTypes
  <2>6. ASSUME NEW x \in todo, Send(x[1], x[2]) \/ NotDue(x[1], x[2]) PROVE TickTypes'
    <3>1. x[1] \in Occs /\ x[2] \in OutRec /\ at = "outbox"
      BY <1>0, <2>6, Taken
    <3>2. /\ at' = at /\ todo' \subseteq todo /\ (cur' = cur \/ cur' = x[1])
          /\ try' = try \/ try' = Attempt(x[2])
      BY <2>6 DEF Send, NotDue, Take
    <3>3. Attempt(x[2]) \in Nat
      BY <3>1 DEF Attempt, OutRec
    <3> QED BY <1>0, <3>1, <3>2, <3>3 DEF TickTypes
  <2> QED BY <1>3, <2>1, <2>2, <2>3, <2>4, <2>5, <2>6 DEF TickStep
<1>4. ASSUME NEW o \in Occs, Answer(o) \/ Revoke(o) PROVE TickTypes'
  <2>1. UNCHANGED ticking \/ \E item \in OccRec : Store(o, item)
    BY <1>4 DEF Answer, Accepted, Rejected, Revoke, OccRec, ticking
  <2> QED BY <1>0, <1>1, <1>2, <2>1, StoreEffect
<1>5. ASSUME NEW o \in Occs, Cancelled(o) \/ CancelOccurrence(o) \/ Receive(o) \/ TaskEnds(o)
                             \/ Retry(o) \/ Stop(o)
      PROVE  TickTypes'
  BY <1>5, <1>1 DEF Cancelled, CancelOccurrence, Receive, TaskEnds, Retry, Stop
<1>6. ASSUME NEW p \in Plans, SetEnabled(p) \/ Remove(p) PROVE TickTypes'
  BY <1>6, <1>1 DEF SetEnabled, Remove
<1>7. CASE Advance \/ UNCHANGED vars
  BY <1>7, <1>1 DEF Advance, vars
<1>8. CASE Crash
  BY <1>8, <1>2 DEF Crash
<1> QED BY <1>3, <1>4, <1>5, <1>6, <1>7, <1>8 DEF Next, Continue

LEMMA RecordsInit ==
  ASSUME AutomationsAssumption, Init
  PROVE  Records
<1> USE DEF Init, AutomationsAssumption
<1>1. Clock  BY DEF Clock
<1>2. PlanTypes
  <2>1. \A p \in Plans : NextTime(p, 0) \in (Nat \ {0}) \cup {Null}
    BY NextTimeLater
  <2> QED BY <2>1 DEF PlanTypes, PlanRec
<1>3. OccTypes  BY DEF OccTypes, OccRec, NoOcc
<1>4. OutTypes  BY DEF OutTypes, OutRec, NoOut
<1>5. TickTypes  BY DEF TickTypes
<1> QED BY <1>1, <1>2, <1>3, <1>4, <1>5 DEF Records

LEMMA RecordsNext ==
  ASSUME AutomationsAssumption, IInv, Records, [Next]_vars
  PROVE  Records'
BY ClockStep, PlanStep, OccStep, OutStep, TickTypesStep DEF Records

-----------------------------------------------------------------------------
(* The attempts of a delivery.  Every attempt is counted when it begins.    *)
(* One that ends with a record leaves a delivery that is over, or pending   *)
(* below the limit; only a crash, or a disk that fails twice, leaves one    *)
(* that is counted and not over.                                            *)

Slack == IF Faults THEN 1 ELSE 0
Bound == MaxTries + restarts + Slack

Attempts ==
  /\ try <= Bound
  /\ \A o \in Occs :
       /\ out[o].tries <= Bound
       /\ out[o].state = "pending" => out[o].tries < MaxTries
       /\ out[o].state = "sending" =>
            IF at = "outbox" /\ cur = o THEN out[o].tries = try ELSE out[o].tries < Bound
  /\ at = "outbox" => \A x \in todo : x[2].state \in {"pending", "sending"} /\ x[2].tries < Bound

LEMMA BoundType ==
  ASSUME AutomationsAssumption, Clock
  PROVE  /\ Slack \in 0..1 /\ Bound \in Nat /\ MaxTries \in Nat \ {0} /\ MaxTries <= Bound
         /\ restarts \in Nat /\ MaxRestarts \in Nat /\ restarts <= MaxRestarts
         /\ Faults => Slack = 1
BY DEF AutomationsAssumption, Clock, Slack, Bound

\* A step that begins and ends no attempt.
LEMMA AttemptsKept ==
  ASSUME AutomationsAssumption, Records, Attempts, UNCHANGED restarts,
         \A o \in Occs : \/ out'[o] = out[o]
                         \/ out'[o].state = "pending" /\ out'[o].tries = 0
                         \/ out'[o].state = "cancelled" /\ out'[o].tries = out[o].tries,
         \/ UNCHANGED ticking
         \/ at # "outbox" /\ at' # "outbox" /\ try' \in {try, 0}
         \/ at' = at /\ todo' \subseteq todo /\ UNCHANGED <<cur, try>>
  PROVE  Attempts'
<1>1. Bound' = Bound /\ Bound \in Nat /\ MaxTries \in Nat \ {0} /\ MaxTries <= Bound
  BY BoundType DEF Records, Bound, Slack
<1>2. try' <= Bound
  BY <1>1 DEF Attempts, ticking
<1>3. ASSUME NEW o \in Occs
      PROVE  /\ out'[o].tries <= Bound
             /\ out'[o].state = "pending" => out'[o].tries < MaxTries
             /\ out'[o].state = "sending" =>
                  IF at' = "outbox" /\ cur' = o THEN out'[o].tries = try' ELSE out'[o].tries < Bound
  <2>1. CASE out'[o] = out[o]
    BY <1>1, <2>1 DEF Attempts, ticking
  <2>2. CASE out'[o].state = "pending" /\ out'[o].tries = 0
    BY <1>1, <2>2
  <2>3. CASE out'[o].state = "cancelled" /\ out'[o].tries = out[o].tries
    BY <1>1, <2>3 DEF Attempts
  <2> QED BY <2>1, <2>2, <2>3
<1>4. at' = "outbox" => \A x \in todo' : x[2].state \in {"pending", "sending"} /\ x[2].tries < Bound
  BY DEF Attempts, ticking
<1> QED BY <1>1, <1>2, <1>3, <1>4 DEF Attempts

LEMMA AttemptsStep ==
  ASSUME AutomationsAssumption, IInv, Records, Attempts, [Next]_vars
  PROVE  Attempts'
<1>0. OccTypes /\ OutTypes /\ TickTypes /\ Clock
  BY DEF Records
<1>00. /\ Bound \in Nat /\ MaxTries \in Nat \ {0} /\ MaxTries <= Bound /\ Slack \in 0..1
       /\ Faults => Slack = 1
       /\ Null \notin Occs /\ restarts \in Nat
       /\ UNCHANGED restarts => Bound' = Bound
  BY <1>0, BoundType DEF AutomationsAssumption, Occs, Bound, Slack
<1>1. CASE UNCHANGED <<restarts, out, at, todo, cur, try>>
  BY <1>1, AttemptsKept DEF ticking
<1>2. CASE TickStep
  <2>1. CASE Tick
    <3>1. UNCHANGED <<restarts, out>> /\ cur = Null /\ Bound' = Bound
      BY <2>1, <1>00 DEF Tick, deliveries
    <3>2. CASE at = "outbox" \/ at = "idle" \/ at = "plans"
      <4>1. at' # "outbox" /\ cur' = Null /\ try' \in {try, 0}
        BY <2>1, <3>1, <3>2 DEF Tick, Enter, TickStops
      <4> QED BY <1>00, <3>1, <4>1 DEF Attempts
    <3>3. CASE at = "occurrences"
      <4>1. /\ at' = "outbox" /\ cur' = Null /\ try' = try
            /\ todo' = Snapshot(out, {o \in Occs : out[o].state \in {"pending", "sending"}})
        BY <2>1, <3>1, <3>3 DEF Tick, Enter
      <4>2. ASSUME NEW x \in todo' PROVE x[2].state \in {"pending", "sending"} /\ x[2].tries < Bound
        <5>1. PICK o \in Occs : out[o].state \in {"pending", "sending"} /\ x = <<o, out[o]>>
          BY <4>1, <4>2 DEF Snapshot
        <5>2. out[o].tries \in Nat /\ out[o].tries < Bound
          BY <1>0, <1>00, <3>3, <5>1 DEF Attempts, OutTypes, OutRec
        <5> QED BY <5>1, <5>2
      <4> QED BY <1>00, <3>1, <3>3, <4>1, <4>2 DEF Attempts
    <3> QED BY <1>0, <3>2, <3>3 DEF TickTypes
  <2>2. CASE Fired
    <3>1. UNCHANGED <<restarts, out, at, try>> /\ at = "plans"
      BY <2>2 DEF Fired, deliveries
    <3> QED BY <3>1, AttemptsKept
  <2>3. CASE Visited
    <3>1. UNCHANGED <<restarts, at, try>> /\ at = "occurrences" /\ cur \in Occs /\ Close(cur, occ[cur])
      BY <1>0, <2>3 DEF Visited, TickTypes
    <3>2. \A o \in Occs : out'[o] = out[o] \/ (out'[o].state = "pending" /\ out'[o].tries = 0)
      BY <1>0, <3>1, CloseEffect DEF OccTypes
    <3> QED BY <3>1, <3>2, AttemptsKept
  <2>4. ASSUME NEW x \in todo, Fire(x[1], x[2]) PROVE Attempts'
    <3>1. UNCHANGED <<restarts, out, at, try>> /\ at = "plans"
      BY <2>4 DEF Fire, Take, deliveries
    <3> QED BY <3>1, AttemptsKept
  <2>5. ASSUME NEW x \in todo, Visit(x[1], x[2]) PROVE Attempts'
    <3>1. UNCHANGED <<restarts, at, try>> /\ at = "occurrences" /\ x[1] \in Occs /\ x[2] \in OccRec
      BY <1>0, <2>5, Taken DEF Visit, Take
    <3>2. UNCHANGED out \/ Close(x[1], x[2])
      BY <2>5 DEF Visit
    <3>3. \A o \in Occs : out'[o] = out[o] \/ (out'[o].state = "pending" /\ out'[o].tries = 0)
      BY <1>0, <3>1, <3>2, CloseEffect
    <3> QED BY <3>1, <3>3, AttemptsKept
  <2>6. ASSUME NEW x \in todo, NotDue(x[1], x[2]) PROVE Attempts'
    <3>1. UNCHANGED <<restarts, out, at, cur, try>> /\ todo' \subseteq todo
      BY <2>6 DEF NotDue, Take, deliveries
    <3> QED BY <3>1, AttemptsKept
  <2>7. ASSUME NEW x \in todo, Send(x[1], x[2]) PROVE Attempts'
    <3> DEFINE o == x[1]  seen == x[2]
    <3>1. /\ o \in Occs /\ seen \in OutRec /\ at = "outbox" /\ cur = Null
          /\ UNCHANGED <<restarts, at>> /\ todo' \subseteq todo /\ seen.tries \in Nat
          /\ seen.tries < Bound
      BY <1>0, <2>7, Taken DEF Send, Take, Attempts, OutRec
    <3>2. CASE Interrupted(o, seen)
      <4>1. out' = [out EXCEPT ![o] = [seen EXCEPT !.state = "failed"]] /\ UNCHANGED <<cur, try>>
        BY <2>7, <3>2 DEF Send
      <4>2. out'[o].state = "failed" /\ out'[o].tries = seen.tries /\ \A u \in Occs : u # o => out'[u] = out[u]
        BY <1>0, <3>1, <4>1 DEF OutTypes, OutRec
      <4> QED BY <1>00, <3>1, <4>1, <4>2 DEF Attempts
    <3>3. CASE ~Interrupted(o, seen)
      <4>1. /\ out' = [out EXCEPT ![o] = [state |-> "sending", tries |-> seen.tries + 1]]
            /\ cur' = o /\ try' = seen.tries + 1
        BY <2>7, <3>3 DEF Send, Attempt
      <4>2. out'[o].state = "sending" /\ out'[o].tries = seen.tries + 1 /\ \A u \in Occs : u # o => out'[u] = out[u]
        BY <1>0, <3>1, <4>1 DEF OutTypes
      <4>3. seen.tries + 1 <= Bound
        BY <1>00, <3>1
      <4> QED BY <1>00, <3>1, <4>1, <4>2, <4>3 DEF Attempts
    <3> QED BY <3>2, <3>3
  <2>8. CASE Sent
    <3>1. /\ cur \in Occs /\ at = "outbox" /\ restarts' = restarts /\ try \in Nat /\ try <= Bound
          /\ Bound' = Bound
      BY <1>0, <1>00, <2>8 DEF Sent, TickTypes, Attempts
    <3>2. PICK answer \in Results(cur), written \in {"first", "second", "never"} :
            /\ written # "first" => Faults
            /\ written = "never" => try <= MaxTries
            /\ out' = IF out[cur].state = "cancelled" \/ written = "never" THEN out
                      ELSE [out EXCEPT ![cur] =
                             [state |-> After(IF written = "first" THEN answer ELSE "again", try),
                              tries |-> try]]
            /\ IF written = "never" THEN TickStops
               ELSE cur' = Null /\ try' = 0 /\ UNCHANGED <<at, todo>>
      BY <2>8 DEF Sent
    <3>3. /\ cur' = Null /\ try' = 0 /\ (at' = "outbox" => at' = at /\ todo' = todo)
      BY <3>2 DEF TickStops
    <3>4. \A u \in Occs : u # cur => out'[u] = out[u]
      BY <1>0, <3>2 DEF OutTypes
    <3>5. /\ out'[cur].tries <= Bound
          /\ out'[cur].state = "pending" => out'[cur].tries < MaxTries
          /\ out'[cur].state = "sending" => out'[cur].tries < Bound
      <4>1. CASE out[cur].state = "cancelled"
        BY <3>1, <3>2, <4>1 DEF Attempts
      <4>2. CASE out[cur].state # "cancelled" /\ written = "never"
        <5>1. out' = out /\ try <= MaxTries /\ Slack = 1
          BY <1>00, <3>2, <4>2
        <5>2. Bound = MaxTries + restarts + 1
          BY <5>1 DEF Bound
        <5> QED BY <1>00, <3>1, <5>1, <5>2 DEF Attempts
      <4>3. CASE out[cur].state # "cancelled" /\ written # "never"
        <5> DEFINE a == IF written = "first" THEN answer ELSE "again"
        <5>1. out'[cur].state = After(a, try) /\ out'[cur].tries = try
          BY <1>0, <3>1, <3>2, <4>3 DEF OutTypes
        <5>2. /\ After(a, try) # "sending"
              /\ After(a, try) = "pending" => try < MaxTries
          BY DEF After
        <5> HIDE DEF a
        <5> QED BY <3>1, <5>1, <5>2
      <4> QED BY <4>1, <4>2, <4>3
    <3> QED BY <1>00, <3>1, <3>3, <3>4, <3>5 DEF Attempts
  <2> QED BY <1>2, <2>1, <2>2, <2>3, <2>4, <2>5, <2>6, <2>7, <2>8 DEF TickStep
<1>3. ASSUME NEW o \in Occs, Answer(o) \/ Revoke(o) PROVE Attempts'
  <2>1. UNCHANGED <<restarts, out>> /\ (UNCHANGED ticking \/ \E item \in OccRec : Store(o, item))
    BY <1>3 DEF Answer, Accepted, Rejected, Revoke, OccRec, ticking, deliveries
  <2>2. UNCHANGED ticking \/ (at # "outbox" /\ at' # "outbox" /\ try' = 0)
    BY <1>0, <2>1, StoreEffect DEF TickStops
  <2> QED BY <2>1, <2>2, AttemptsKept
<1>4. ASSUME NEW o \in Occs, Retry(o) \/ Stop(o) PROVE Attempts'
  <2>1. UNCHANGED <<restarts, at, todo, cur, try>>
    BY <1>4 DEF Retry, Stop, ticking
  <2>2. \A u \in Occs : \/ out'[u] = out[u]
                        \/ out'[u].state = "pending" /\ out'[u].tries = 0
                        \/ out'[u].state = "cancelled" /\ out'[u].tries = out[u].tries
    BY <1>0, <1>4 DEF Retry, Stop, OutTypes, OutRec
  <2> QED BY <2>1, <2>2, AttemptsKept DEF ticking
<1>5. ASSUME NEW o \in Occs, Cancelled(o) \/ CancelOccurrence(o) \/ Receive(o) \/ TaskEnds(o)
      PROVE  Attempts'
  BY <1>5, <1>1 DEF Cancelled, CancelOccurrence, Receive, TaskEnds, deliveries, ticking
<1>6. ASSUME NEW p \in Plans, SetEnabled(p) \/ Remove(p) PROVE Attempts'
  BY <1>6, <1>1 DEF SetEnabled, Remove, deliveries, ticking
<1>7. CASE Advance \/ UNCHANGED vars
  BY <1>7, <1>1 DEF Advance, vars, deliveries, ticking
<1>8. CASE Crash
  <2>1. restarts' = restarts + 1 /\ at' = "idle" /\ cur' = Null /\ try' = 0
    BY <1>8 DEF Crash, TickStops
  <2>2. Bound' = Bound + 1
    BY <1>00, <2>1 DEF Bound, Slack
  <2>3. UNCHANGED out \/ \E o \in Occs : File(o)
    BY <1>0, <1>8 DEF Crash, FirstWrite, TickTypes
  <2>4. \A u \in Occs : out'[u] = out[u] \/ (out'[u].state = "pending" /\ out'[u].tries = 0)
    BY <1>0, <2>3, FileEffect
  <2>5. \A u \in Occs : out[u].tries \in Nat /\ out[u].tries <= Bound
    BY <1>0 DEF Attempts, OutTypes, OutRec
  <2>6. ASSUME NEW u \in Occs
        PROVE  /\ out'[u].tries \in Nat /\ out'[u].tries < Bound'
               /\ out'[u].state = "pending" => out'[u].tries < MaxTries
    BY <1>00, <2>2, <2>4, <2>5 DEF Attempts
  <2> QED BY <1>00, <2>1, <2>2, <2>5, <2>6 DEF Attempts
<1> QED BY <1>2, <1>3, <1>4, <1>5, <1>6, <1>7, <1>8 DEF Next, Continue

\* The result of a closed occurrence is filed before the occurrence is closed, and
\* no delivery is removed.
LEMMA FiledStep ==
  ASSUME AutomationsAssumption, IInv, Records, ClosedIsFiled, [Next]_vars
  PROVE  ClosedIsFiled'
<1>0. OccTypes /\ OutTypes /\ TickTypes
  BY DEF Records
<1> DEFINE over(o) == occ[o].state \in {"completed", "failed"}
<1>1. ASSUME \A o \in Occs : out'[o] # NoOut \/ out'[o] = out[o],
             \A o \in Occs : \/ occ'[o] = occ[o]
                             \/ occ'[o].state \notin {"completed", "failed"}
                             \/ TargetOf(o) # "nowhere" => out'[o] # NoOut
      PROVE  ClosedIsFiled'
  BY <1>1 DEF ClosedIsFiled, TargetOf
<1>2. ASSUME NEW o \in Occs, NEW item \in OccRec, Close(o, item)
      PROVE  ClosedIsFiled'
  <2>1. \A u \in Occs : out'[u] # NoOut \/ out'[u] = out[u]
    BY <1>0, <1>2, CloseEffect DEF NoOut
  <2>2. \A u \in Occs : \/ occ'[u] = occ[u]
                        \/ occ'[u].state \notin {"completed", "failed"}
                        \/ TargetOf(u) # "nowhere" => out'[u] # NoOut
    BY <1>0, <1>2, CloseEffect
  <2> QED BY <2>1, <2>2, <1>1
<1>3. ASSUME NEW o \in Occs, NEW item \in OccRec, Dispatch(o, item), UNCHANGED out
      PROVE  ClosedIsFiled'
  BY <1>0, <1>1, <1>3, DispatchEffect
<1>4. CASE UNCHANGED <<occ, out>>
  BY <1>1, <1>4
<1>5. CASE TickStep
  <2>1. CASE Tick \/ Fired
    BY <2>1, <1>4 DEF Tick, Fired, occurrences, deliveries
  <2>2. CASE Visited
    <3>1. cur \in Occs /\ occ[cur] \in OccRec /\ Close(cur, occ[cur])
      BY <1>0, <2>2 DEF Visited, TickTypes, OccTypes
    <3> QED BY <1>2, <3>1
  <2>3. CASE Sent
    <3>1. UNCHANGED occ /\ cur \in Occs
      BY <1>0, <2>3 DEF Sent, occurrences, TickTypes
    <3>2. \A r : After(r, try) # "none"
      BY DEF After
    <3>3. \A o \in Occs : out'[o] # NoOut \/ out'[o] = out[o]
      BY <1>0, <2>3, <3>2, SentEffect DEF OutTypes, NoOut
    <3> QED BY <3>1, <3>3, <1>1
  <2>4. ASSUME NEW x \in todo, Fire(x[1], x[2]) PROVE ClosedIsFiled'
    <3>1. x[1] \in Plans /\ x[2] \in PlanRec
      BY <1>0, <2>4, Taken
    <3>2. UNCHANGED out /\ (UNCHANGED occ \/ \E o \in Occs : Dispatch(o, Found(o)))
      BY <2>4, <3>1, FireEffect
    <3> QED BY <1>0, <3>2, <1>3, <1>4, FoundType
  <2>5. ASSUME NEW x \in todo, Visit(x[1], x[2]) PROVE ClosedIsFiled'
    <3>1. x[1] \in Occs /\ x[2] \in OccRec
      BY <1>0, <2>5, Taken
    <3>2. (Dispatch(x[1], x[2]) /\ UNCHANGED out) \/ Close(x[1], x[2])
      BY <2>5 DEF Visit
    <3> QED BY <3>1, <3>2, <1>2, <1>3
  <2>6. ASSUME NEW x \in todo, Send(x[1], x[2]) PROVE ClosedIsFiled'
    <3>1. x[1] \in Occs /\ x[2] \in OutRec /\ UNCHANGED occ
      BY <1>0, <2>6, Taken DEF Send
    <3>2. \E r \in OutRec : r.state # "none" /\ out' = [out EXCEPT ![x[1]] = r]
      <4>1. /\ [x[2] EXCEPT !.state = "failed"] \in OutRec
            /\ [x[2] EXCEPT !.state = "failed"].state = "failed"
            /\ [state |-> "sending", tries |-> Attempt(x[2])] \in OutRec
        BY <3>1 DEF OutRec, Attempt
      <4> QED BY <2>6, <4>1 DEF Send
    <3>3. \A o \in Occs : out'[o] # NoOut \/ out'[o] = out[o]
      BY <1>0, <3>2 DEF OutTypes, NoOut
    <3> QED BY <3>1, <3>3, <1>1
  <2>7. ASSUME NEW x \in todo, NotDue(x[1], x[2]) PROVE ClosedIsFiled'
    BY <2>7, <1>4 DEF NotDue, deliveries
  <2> QED BY <1>5, <2>1, <2>2, <2>3, <2>4, <2>5, <2>6, <2>7 DEF TickStep
<1>6. ASSUME NEW o \in Occs, Answer(o) \/ Revoke(o) PROVE ClosedIsFiled'
  <2>1. UNCHANGED out
    BY <1>6 DEF Answer, Revoke, deliveries
  <2>2. UNCHANGED occ \/ \E item \in OccRec : Store(o, item) /\ item.state \notin {"completed", "failed"}
    <3>1. /\ [state |-> "submitted", named |-> TRUE] \in OccRec
          /\ [state |-> "uncertain", named |-> FALSE] \in OccRec
          /\ [state |-> "cancelled", named |-> TRUE] \in OccRec
      BY DEF OccRec
    <3> QED BY <1>6, <3>1 DEF Answer, Accepted, Rejected, Revoke
  <2> QED BY <1>0, <1>1, <2>1, <2>2, StoreEffect
<1>7. ASSUME NEW o \in Occs, Cancelled(o) \/ CancelOccurrence(o) PROVE ClosedIsFiled'
  <2>1. UNCHANGED out
    BY <1>7 DEF Cancelled, CancelOccurrence, deliveries
  <2>2. \A u \in Occs : occ'[u] = occ[u] \/ occ'[u].state = "cancelled"
    BY <1>0, <1>7 DEF Cancelled, CancelOccurrence, OccTypes, OccRec
  <2> QED BY <2>1, <2>2, <1>1
<1>8. ASSUME NEW o \in Occs, Receive(o) PROVE ClosedIsFiled'
  BY <1>0, <1>8, <1>3, FoundType DEF Receive, deliveries
<1>9. ASSUME NEW o \in Occs, Retry(o) \/ Stop(o) PROVE ClosedIsFiled'
  <2>1. UNCHANGED occ
    BY <1>9 DEF Retry, Stop, occurrences
  <2>2. \A u \in Occs : out'[u] = out[u] \/ out'[u].state \in {"pending", "cancelled"}
    BY <1>0, <1>9 DEF Retry, Stop, OutTypes, OutRec
  <2> QED BY <2>1, <2>2, <1>1 DEF NoOut
<1>10. ASSUME NEW o \in Occs, TaskEnds(o) PROVE ClosedIsFiled'
  BY <1>10, <1>4 DEF TaskEnds, deliveries
<1>11. ASSUME NEW p \in Plans, SetEnabled(p) \/ Remove(p) PROVE ClosedIsFiled'
  BY <1>11, <1>4 DEF SetEnabled, Remove, occurrences, deliveries
<1>12. CASE Advance \/ UNCHANGED vars
  BY <1>12, <1>4 DEF Advance, vars, occurrences, deliveries
<1>13. CASE Crash
  <2>1. \/ UNCHANGED out /\ (UNCHANGED occ \/ \E o \in Occs : occ' = [occ EXCEPT ![o] = Pending])
        \/ UNCHANGED occ /\ \E o \in Occs : File(o)
    BY <1>0, <1>13 DEF Crash, Firing, FirstWrite, TickTypes, Occs, Scheduled
  <2>2. \A u \in Occs : out'[u] # NoOut \/ out'[u] = out[u]
    BY <1>0, <2>1, FileEffect DEF NoOut
  <2>3. \A u \in Occs : occ'[u] = occ[u] \/ occ'[u].state = "pending"
    BY <1>0, <2>1 DEF OccTypes, Pending
  <2> QED BY <2>2, <2>3, <1>1
<1> QED BY <1>5, <1>6, <1>7, <1>8, <1>9, <1>10, <1>11, <1>12, <1>13 DEF Next, Continue

\* The records keep their types, the attempts their limit, closed occurrences their
\* deliveries.
LEMMA AutomationsAlways == Spec => [](IInv /\ Records /\ Attempts /\ ClosedIsFiled)
<1>1. Init => IInv /\ Records /\ Attempts /\ ClosedIsFiled
  <2> SUFFICES ASSUME Init PROVE IInv /\ Records /\ Attempts /\ ClosedIsFiled
    OBVIOUS
  <2>1. IInv /\ Records
    BY InitIInv, RecordsInit, AutomationsAssumption
  <2>2. Attempts
    BY <2>1, BoundType, AutomationsAssumption DEF Init, Attempts, NoOut, Records
  <2>3. ClosedIsFiled
    BY DEF Init, ClosedIsFiled, NoOcc
  <2> QED BY <2>1, <2>2, <2>3
<1>2. (IInv /\ Records /\ Attempts /\ ClosedIsFiled) /\ [Next]_vars
        => (IInv /\ Records /\ Attempts /\ ClosedIsFiled)'
  BY NextIInv, RecordsNext, AttemptsStep, FiledStep, AutomationsAssumption
<1> QED BY <1>1, <1>2, PTL DEF Spec

\* tick, deliver, dispatch: whatever users do, wherever the process dies and whichever
\* writes fail, attempts are counted to their limit and an occurrence that is closed
\* has its delivery in the outbox.
THEOREM AutomationsSafe == Spec => []Safe
<1>1. IInv /\ Records /\ Attempts /\ ClosedIsFiled => Safe
  <2> SUFFICES ASSUME IInv, Records, Attempts, ClosedIsFiled
               PROVE  Safe
    OBVIOUS
  <2>1. Bound \in Nat /\ Bound <= MostTries /\ MostTries \in Nat
    BY BoundType, AutomationsAssumption DEF Records, Bound, Slack, MostTries
  <2>2. out \in [Occs -> [state : {"none", "pending", "sending", "delivered", "failed",
                                   "cancelled"}, tries : 0..MostTries]]
    <3>1. \A o \in Occs : out[o] \in OutRec /\ out[o].tries \in 0..MostTries
      BY <2>1 DEF Records, OutTypes, Attempts, OutRec
    <3> QED BY <3>1 DEF Records, OutTypes, OutRec
  <2>3. try \in 0..MostTries
    BY <2>1 DEF Records, TickTypes, Attempts
  <2>4. plan \in [Plans -> [there : BOOLEAN, enabled : BOOLEAN, next : Nat \cup {Null}]]
    BY DEF Records, PlanTypes, PlanRec
  <2> QED BY <2>2, <2>3, <2>4
          DEF Safe, TypeOK, Records, Clock, PlanTypes, OccTypes, OccRec, OutTypes, TickTypes,
              IInv, TypeInv
<1> QED BY <1>1, AutomationsAlways, PTL

-----------------------------------------------------------------------------
(* What cancelling an occurrence does to its task.  An occurrence whose     *)
(* record could not be written forgets its task, so this needs a disk that  *)
(* takes the records of finished submissions.                               *)

\* A task that runs has its receipt, and an occurrence that names it unless its
\* submission goes on.
Tasks ==
  \A o \in Occs :
    /\ task[o] = "live" => receipt[o] = "submitted"
    /\ o \in revoking => task[o] \notin {"none", "live"}
    /\ task[o] = "live" /\ dispatch[o] = "idle" => occ[o].named /\ occ[o].state # "cancelled"

LEMMA TasksStep ==
  ASSUME AutomationsAssumption, Faults = FALSE, IInv, Records, Tasks, [Next]_vars
  PROVE  Tasks'
<1>0. OccTypes /\ OutTypes /\ TickTypes /\ TypeInv
  BY DEF Records, IInv
<1>1. CASE UNCHANGED <<task, receipt, dispatch, revoking, occ>>
  BY <1>1 DEF Tasks
<1>2. ASSUME NEW o \in Occs, NEW item \in OccRec, Dispatch(o, item), UNCHANGED <<task, revoking>>
      PROVE  Tasks'
  BY <1>0, <1>2, DispatchEffect DEF Tasks
<1>3. ASSUME NEW o \in Occs, NEW item \in OccRec, Close(o, item),
             UNCHANGED <<task, receipt, dispatch, revoking>>
      PROVE  Tasks'
  BY <1>0, <1>3, CloseEffect DEF Tasks, Closable
<1>4. CASE TickStep
  <2>1. CASE Tick \/ Fired \/ Sent
    BY <2>1, <1>1 DEF Tick, Fired, Sent, occurrences
  <2>2. CASE Visited
    <3>1. cur \in Occs /\ occ[cur] \in OccRec /\ Close(cur, occ[cur])
          /\ UNCHANGED <<task, receipt, dispatch, revoking>>
      BY <1>0, <2>2 DEF Visited, TickTypes, OccTypes
    <3> QED BY <1>3, <3>1
  <2>3. ASSUME NEW x \in todo, Fire(x[1], x[2]) PROVE Tasks'
    <3>1. x[1] \in Plans /\ x[2] \in PlanRec
      BY <1>0, <2>3, Taken
    <3>2. UNCHANGED <<task, revoking>>
          /\ (UNCHANGED <<occ, dispatch, receipt>> \/ \E o \in Occs : Dispatch(o, Found(o)))
      BY <2>3, <3>1, FireEffect
    <3> QED BY <1>0, <3>2, <1>1, <1>2, FoundType
  <2>4. ASSUME NEW x \in todo, Visit(x[1], x[2]) PROVE Tasks'
    <3>1. x[1] \in Occs /\ x[2] \in OccRec
      BY <1>0, <2>4, Taken
    <3>2. /\ UNCHANGED <<task, revoking>>
          /\ Dispatch(x[1], x[2]) \/ (Close(x[1], x[2]) /\ UNCHANGED <<dispatch, receipt>>)
      BY <2>4 DEF Visit, Take
    <3> QED BY <3>1, <3>2, <1>2, <1>3
  <2>5. ASSUME NEW x \in todo, Send(x[1], x[2]) \/ NotDue(x[1], x[2]) PROVE Tasks'
    BY <2>5, <1>1 DEF Send, NotDue, Take
  <2> QED BY <1>4, <2>1, <2>2, <2>3, <2>4, <2>5 DEF TickStep
<1>5. ASSUME NEW o \in Occs, Answer(o) PROVE Tasks'
  <2> DEFINE kept == [state |-> "submitted", named |-> TRUE]
             lost == [state |-> "uncertain", named |-> FALSE]
  <2>1. kept \in OccRec /\ lost \in OccRec
    BY DEF OccRec
  <2>2. revoking' = revoking /\ dispatch[o] \in {"creating", "known"}
    BY <1>5 DEF Answer
  <2>3. dispatch[o] = "creating" => task[o] = "none"
    BY DEF IInv, FirstOnly
  <2>4. Accepted(o) => /\ dispatch' \in [Occs -> {"idle", "creating", "known", "revoking"}]
                       /\ \A u \in Occs : u # o => dispatch'[u] = dispatch[u] /\ occ'[u] = occ[u]
                       /\ dispatch'[o] = "revoking" \/ occ'[o] = kept
    <3>1. CASE occ[o].state = "cancelled"
      BY <1>0, <3>1 DEF Accepted, TypeInv
    <3>2. CASE occ[o].state # "cancelled"
      <4>1. Accepted(o) => Store(o, kept)  BY <3>2 DEF Accepted
      <4>2. Store(o, kept) => dispatch' \in [Occs -> {"idle", "creating", "known", "revoking"}]
        BY <1>0 DEF Store, TypeInv
      <4> HIDE DEF kept
      <4> QED BY <1>0, <2>1, <4>1, <4>2, StoreEffect
    <3> QED BY <3>1, <3>2
  <2>5. Rejected(o) => /\ \A u \in Occs : u # o => dispatch'[u] = dispatch[u] /\ occ'[u] = occ[u]
    BY <1>0, <2>1, StoreEffect DEF Rejected
  <2>6. kept.named /\ kept.state # "cancelled"
    OBVIOUS
  <2>7. CASE /\ dispatch[o] = "creating" /\ task' = [task EXCEPT ![o] = "live"]
             /\ receipt' = [receipt EXCEPT ![o] = "submitted"] /\ Accepted(o)
    <3>1. /\ task'[o] = "live" /\ receipt'[o] = "submitted" /\ o \notin revoking
          /\ \A u \in Occs : u # o => task'[u] = task[u] /\ receipt'[u] = receipt[u]
      BY <1>0, <2>3, <2>7 DEF TypeInv, Tasks
    <3> HIDE DEF kept
    <3> QED BY <2>2, <2>4, <2>6, <2>7, <3>1 DEF Tasks
  <2>8. CASE /\ dispatch[o] = "creating" /\ receipt' = [receipt EXCEPT ![o] = "failed"]
             /\ Rejected(o) /\ UNCHANGED task
    <3>1. \A u \in Occs : u # o => receipt'[u] = receipt[u]
      BY <1>0, <2>8 DEF TypeInv
    <3> QED BY <2>2, <2>3, <2>5, <2>8, <3>1 DEF Tasks
  <2>9. CASE dispatch[o] = "known" /\ receipt[o] = "submitted" /\ Accepted(o) /\ UNCHANGED <<task, receipt>>
    <3> HIDE DEF kept
    <3> QED BY <2>2, <2>4, <2>6, <2>9 DEF Tasks
  <2>10. CASE dispatch[o] = "known" /\ receipt[o] # "submitted" /\ Rejected(o) /\ UNCHANGED <<task, receipt>>
    BY <2>2, <2>5, <2>10 DEF Tasks
  <2> QED BY <1>5, <2>7, <2>8, <2>9, <2>10 DEF Answer
<1>6. ASSUME NEW o \in Occs, Revoke(o) PROVE Tasks'
  <2>1. /\ receipt' = receipt /\ revoking' = revoking
        /\ task'[o] # "live" /\ (o \in revoking => task'[o] # "none")
        /\ \A u \in Occs : u # o => task'[u] = task[u]
    BY <1>0, <1>6 DEF Revoke, TypeInv, Tasks
  <2>2. \E item \in OccRec : Store(o, item)
    BY <1>6 DEF Revoke, Rejected, OccRec
  <2>3. \A u \in Occs : u # o => dispatch'[u] = dispatch[u] /\ occ'[u] = occ[u]
    BY <1>0, <2>2, StoreEffect
  <2> QED BY <2>1, <2>3 DEF Tasks
<1>7. ASSUME NEW o \in Occs, CancelOccurrence(o) PROVE Tasks'
  <2>1. CASE occ[o].named
    BY <1>0, <1>7, <2>1 DEF CancelOccurrence, Tasks, TypeInv
  <2>2. CASE ~occ[o].named
    <3>1. UNCHANGED <<task, revoking, receipt, dispatch>> /\ occ' = [occ EXCEPT ![o].state = "cancelled"]
      BY <1>7, <2>2 DEF CancelOccurrence
    <3>2. \A u \in Occs : u # o => occ'[u] = occ[u]
      BY <1>0, <3>1 DEF OccTypes
    <3>3. ~(task[o] = "live" /\ dispatch[o] = "idle")
      BY <2>2 DEF Tasks
    <3> QED BY <3>1, <3>2, <3>3 DEF Tasks
  <2> QED BY <2>1, <2>2
<1>8. ASSUME NEW o \in Occs, Cancelled(o) PROVE Tasks'
  <2>1. /\ UNCHANGED <<task, receipt, dispatch>> /\ revoking' = revoking \ {o} /\ o \in revoking
        /\ \A u \in Occs : u # o => occ'[u] = occ[u]
    BY <1>0, <1>8 DEF Cancelled, OccTypes
  <2> QED BY <2>1 DEF Tasks
<1>9. ASSUME NEW o \in Occs, Receive(o) PROVE Tasks'
  BY <1>0, <1>9, <1>2, FoundType DEF Receive
<1>10. ASSUME NEW o \in Occs, TaskEnds(o) PROVE Tasks'
  BY <1>0, <1>10 DEF TaskEnds, Tasks, TypeInv
<1>11. ASSUME NEW o \in Occs, Retry(o) \/ Stop(o) PROVE Tasks'
  BY <1>11, <1>1 DEF Retry, Stop, occurrences
<1>12. ASSUME NEW p \in Plans, SetEnabled(p) \/ Remove(p) PROVE Tasks'
  BY <1>12, <1>1 DEF SetEnabled, Remove, occurrences
<1>13. CASE Advance \/ UNCHANGED vars
  BY <1>13, <1>1 DEF Advance, vars, occurrences
<1>14. CASE Crash
  <2>1. revoking' = {} /\ \A u \in Occs : task'[u] # "live"
    BY <1>14 DEF Crash
  <2> QED BY <2>1 DEF Tasks
<1> QED BY <1>4, <1>5, <1>6, <1>7, <1>8, <1>9, <1>10, <1>11, <1>12, <1>13, <1>14
       DEF Next, Continue

\* cancelOccurrence, dispatch: an occurrence cancelled before, during or after its
\* submission, or reopened from the snapshot of a tick, ends up without a task that
\* runs.
THEOREM CancelledAlwaysOver ==
  ASSUME Faults = FALSE
  PROVE  Spec => []CancelledIsOver
<1>1. Init => Tasks
  BY DEF Init, Tasks
<1>2. IInv /\ Records /\ Tasks /\ [Next]_vars => Tasks'
  BY TasksStep, AutomationsAssumption
<1>3. Tasks => CancelledIsOver
  BY DEF Tasks, CancelledIsOver
<1> QED BY <1>1, <1>2, <1>3, AutomationsAlways, PTL DEF Spec

-----------------------------------------------------------------------------
(* The snapshot of the tick has one entry for each plan, occurrence or      *)
(* delivery, and none any more for the one it waits for.                    *)

Unique ==
  /\ \A x, y \in todo : x[1] = y[1] => x = y
  /\ at = "plans" /\ cur # Null => \A x \in todo : x[1] # cur[1]
  /\ at = "outbox" /\ cur # Null => \A x \in todo : x[1] # cur

\* Taking an entry leaves the others.
LEMMA TakenOnce ==
  ASSUME TickTypes, Unique, NEW x \in todo,
         Fire(x[1], x[2]) \/ Visit(x[1], x[2]) \/ Send(x[1], x[2]) \/ NotDue(x[1], x[2])
  PROVE  /\ at' = at /\ cur = Null /\ todo' = todo \ {x}
         /\ \A y \in todo' : y \in todo /\ y[1] # x[1]
         /\ \A y, z \in todo' : y[1] = z[1] => y = z
<1>1. at \in {"plans", "occurrences", "outbox"} /\ x = <<x[1], x[2]>>
  BY DEF TickTypes, Fire, Visit, Send, NotDue, Take
<1>2. at' = at /\ cur = Null /\ todo' = todo \ {<<x[1], x[2]>>}
  BY DEF Fire, Visit, Send, NotDue, Take
<1>3. todo' = todo \ {x}
  BY <1>1, <1>2
<1> QED BY <1>2, <1>3 DEF Unique

LEMMA UniqueStep ==
  ASSUME AutomationsAssumption, IInv, Records, Unique, [Next]_vars
  PROVE  Unique'
<1>0. OccTypes /\ TickTypes
  BY DEF Records
<1>1. CASE UNCHANGED ticking
  BY <1>1 DEF Unique, ticking
<1>2. CASE TickStops
  BY <1>2 DEF Unique, TickStops
<1>3. CASE TickStep
  <2>1. CASE Tick
    <3>1. cur = Null
      BY <2>1 DEF Tick
    <3>2. ASSUME NEW phase \in {"plans", "occurrences", "outbox"}, Enter(phase) PROVE Unique'
      <4>1. cur' = Null
        BY <3>1, <3>2 DEF Enter
      <4>2. \/ todo' = Snapshot(plan, {p \in Plans : plan[p].there})
            \/ todo' = Snapshot(occ, ToVisit)
            \/ todo' = Snapshot(out, {o \in Occs : out[o].state \in {"pending", "sending"}})
        BY <3>2 DEF Enter
      <4>3. \A x, y \in todo' : x[1] = y[1] => x = y
        BY <4>2 DEF Snapshot
      <4> QED BY <4>1, <4>3 DEF Unique
    <3> QED BY <2>1, <3>2, <1>2 DEF Tick
  <2>2. CASE Fired \/ Visited
    BY <2>2 DEF Fired, Visited, Unique
  <2>3. CASE Sent
    BY <2>3, <1>2 DEF Sent, Unique
  <2>4. ASSUME NEW x \in todo, Fire(x[1], x[2]) PROVE Unique'
    <3>1. at = "plans" /\ x[1] \in Plans /\ x[2] \in PlanRec
      BY <1>0, <2>4, Taken
    <3>2. cur' = cur \/ cur' = <<x[1], x[2].next>>
      BY <2>4 DEF Fire
    <3> QED BY <1>0, <2>4, <3>1, <3>2, TakenOnce DEF Unique
  <2>5. ASSUME NEW x \in todo, Visit(x[1], x[2]) PROVE Unique'
    <3>1. at = "occurrences"
      BY <1>0, <2>5, Taken
    <3> QED BY <1>0, <2>5, <3>1, TakenOnce DEF Unique
  <2>6. ASSUME NEW x \in todo, Send(x[1], x[2]) \/ NotDue(x[1], x[2]) PROVE Unique'
    <3>1. at = "outbox" /\ (cur' = cur \/ cur' = x[1])
      BY <1>0, <2>6, Taken DEF Send, NotDue
    <3> QED BY <1>0, <2>6, <3>1, TakenOnce DEF Unique
  <2> QED BY <1>3, <2>1, <2>2, <2>3, <2>4, <2>5, <2>6 DEF TickStep
<1>4. ASSUME NEW o \in Occs, Answer(o) \/ Revoke(o) PROVE Unique'
  <2>1. UNCHANGED ticking \/ \E item \in OccRec : Store(o, item)
    BY <1>4 DEF Answer, Accepted, Rejected, Revoke, OccRec, ticking
  <2> QED BY <1>0, <1>1, <1>2, <2>1, StoreEffect
<1>5. ASSUME NEW o \in Occs, Cancelled(o) \/ CancelOccurrence(o) \/ Receive(o) \/ TaskEnds(o)
                             \/ Retry(o) \/ Stop(o)
      PROVE  Unique'
  BY <1>5, <1>1 DEF Cancelled, CancelOccurrence, Receive, TaskEnds, Retry, Stop
<1>6. ASSUME NEW p \in Plans, SetEnabled(p) \/ Remove(p) PROVE Unique'
  BY <1>6, <1>1 DEF SetEnabled, Remove
<1>7. CASE Advance \/ UNCHANGED vars
  BY <1>7, <1>1 DEF Advance, vars
<1>8. CASE Crash
  BY <1>8, <1>2 DEF Crash
<1> QED BY <1>3, <1>4, <1>5, <1>6, <1>7, <1>8 DEF Next, Continue

LEMMA UniqueAlways == Spec => []Unique
<1>1. Init => Unique
  BY DEF Init, Unique
<1>2. IInv /\ Records /\ Unique /\ [Next]_vars => Unique'
  BY UniqueStep, AutomationsAssumption
<1> QED BY <1>1, <1>2, AutomationsAlways, PTL DEF Spec

-----------------------------------------------------------------------------
(* Native messages.  A success that cannot be recorded is recorded as a     *)
(* failed attempt, so this needs a disk that takes the records of attempts. *)

\* A native message that may have arrived is not waiting to be sent, in the outbox
\* or in the snapshot, and not being sent.
Arrived ==
  /\ \A o \in reached : TargetOf(o) = "native" =>
       out[o].state \notin {"none", "pending"} /\ ~(at = "outbox" /\ cur = o)
  /\ at = "outbox" => \A x \in todo :
       x[2].state = "pending" /\ TargetOf(x[1]) = "native" => x[1] \notin reached

\* What the step may do to the delivery of a native message.
Unrepeated ==
  \A o \in Occs :
    TargetOf(o) = "native" /\ out'[o] # out[o] /\ out'[o].state = "sending" => o \notin reached

\* A step that files deliveries at most, and learns of no arrival.
LEMMA ArrivedKept ==
  ASSUME Arrived, OutTypes, reached' \subseteq reached,
         \A o \in Occs : out'[o] = out[o] \/ (out[o].state = "none" /\ out'[o].state = "pending"),
         \/ UNCHANGED <<at, todo, cur>>
         \/ at' # "outbox"
  PROVE  Arrived' /\ Unrepeated
<1>1. \A o \in Occs : TargetOf(o)' = TargetOf(o)
  BY DEF TargetOf
<1>2. Arrived'
  BY <1>1 DEF Arrived, OutTypes, TargetOf
<1>3. Unrepeated
  BY DEF Unrepeated
<1> QED BY <1>2, <1>3

LEMMA ArrivedStep ==
  ASSUME AutomationsAssumption, Faults = FALSE, IInv, Records, Attempts, Unique, Arrived, [Next]_vars
  PROVE  Arrived' /\ Unrepeated
<1>0. OccTypes /\ OutTypes /\ TickTypes /\ Null \notin Occs
  BY DEF Records, AutomationsAssumption, Occs
<1>1. CASE UNCHANGED <<out, reached, at, todo, cur>>
  BY <1>0, <1>1, ArrivedKept
<1>2. CASE TickStep
  <2>1. CASE Tick
    <3>1. UNCHANGED <<out, reached>> /\ cur = Null
      BY <2>1 DEF Tick, deliveries
    <3>2. CASE at' # "outbox"
      BY <1>0, <3>1, <3>2, ArrivedKept
    <3>3. CASE at' = "outbox"
      <4>1. /\ cur' = Null
            /\ todo' = Snapshot(out, {o \in Occs : out[o].state \in {"pending", "sending"}})
        BY <2>1, <3>1, <3>3 DEF Tick, Enter, TickStops
      <4>2. Arrived'
        BY <1>0, <3>1, <4>1 DEF Arrived, Snapshot, OutTypes, TargetOf
      <4> QED BY <3>1, <4>2 DEF Unrepeated
    <3> QED BY <3>2, <3>3
  <2>2. CASE Fired
    <3>1. UNCHANGED <<out, reached>> /\ at' = at /\ at = "plans"
      BY <2>2 DEF Fired, deliveries
    <3> QED BY <1>0, <3>1, ArrivedKept
  <2>3. CASE Visited
    <3>1. reached' = reached /\ at' = at /\ at = "occurrences" /\ cur \in Occs /\ Close(cur, occ[cur])
      BY <1>0, <2>3 DEF Visited, TickTypes
    <3>2. \A o \in Occs : out'[o] = out[o] \/ (out[o].state = "none" /\ out'[o].state = "pending")
      BY <1>0, <3>1, CloseEffect DEF OccTypes, NoOut
    <3> QED BY <1>0, <3>1, <3>2, ArrivedKept
  <2>4. ASSUME NEW x \in todo, Fire(x[1], x[2]) PROVE Arrived' /\ Unrepeated
    <3>1. UNCHANGED <<out, reached>> /\ at' = at /\ at = "plans"
      BY <2>4 DEF Fire, Take, deliveries
    <3> QED BY <1>0, <3>1, ArrivedKept
  <2>5. ASSUME NEW x \in todo, Visit(x[1], x[2]) PROVE Arrived' /\ Unrepeated
    <3>1. reached' = reached /\ at' = at /\ at = "occurrences" /\ x[1] \in Occs /\ x[2] \in OccRec
      BY <1>0, <2>5, Taken DEF Visit, Take
    <3>2. UNCHANGED out \/ Close(x[1], x[2])
      BY <2>5 DEF Visit
    <3>3. \A o \in Occs : out'[o] = out[o] \/ (out[o].state = "none" /\ out'[o].state = "pending")
      BY <1>0, <3>1, <3>2, CloseEffect DEF NoOut
    <3> QED BY <1>0, <3>1, <3>3, ArrivedKept
  <2>6. ASSUME NEW x \in todo, NotDue(x[1], x[2]) PROVE Arrived' /\ Unrepeated
    <3>1. UNCHANGED <<out, reached, at, cur>> /\ todo' \subseteq todo
      BY <2>6 DEF NotDue, Take, deliveries
    <3> QED BY <1>0, <3>1 DEF Arrived, Unrepeated, OutTypes, TargetOf
  <2>7. ASSUME NEW x \in todo, Send(x[1], x[2]) PROVE Arrived' /\ Unrepeated
    <3> DEFINE o == x[1]  seen == x[2]
    <3>1. /\ o \in Occs /\ seen \in OutRec /\ at = "outbox" /\ reached' = reached
          /\ seen.state \in {"pending", "sending"}
      BY <1>0, <2>7, Taken DEF Send, Attempts
    <3>2. at' = at /\ cur = Null /\ \A y \in todo' : y \in todo /\ y[1] # o
      BY <1>0, <2>7, TakenOnce
    <3>3. CASE Interrupted(o, seen)
      <4>1. out' = [out EXCEPT ![o] = [seen EXCEPT !.state = "failed"]] /\ UNCHANGED cur
        BY <2>7, <3>3 DEF Send
      <4>2. out'[o].state = "failed" /\ \A u \in Occs : u # o => out'[u] = out[u]
        BY <1>0, <3>1, <4>1 DEF OutTypes, OutRec
      <4> QED BY <1>0, <3>1, <3>2, <4>1, <4>2 DEF Arrived, Unrepeated, OutTypes, TargetOf
    <3>4. CASE ~Interrupted(o, seen)
      <4>1. out' = [out EXCEPT ![o] = [state |-> "sending", tries |-> Attempt(seen)]] /\ cur' = o
        BY <2>7, <3>4 DEF Send
      <4>2. out'[o].state = "sending" /\ \A u \in Occs : u # o => out'[u] = out[u]
        BY <1>0, <3>1, <4>1 DEF OutTypes
      <4>3. TargetOf(o) = "native" => o \notin reached
        BY <3>1, <3>4 DEF Interrupted, Arrived
      <4> QED BY <1>0, <3>1, <3>2, <4>1, <4>2, <4>3 DEF Arrived, Unrepeated, OutTypes, TargetOf
    <3> QED BY <3>3, <3>4
  <2>8. CASE Sent
    <3>1. /\ at = "outbox" /\ cur \in Occs /\ cur # Null
      BY <1>0, <2>8 DEF Sent, TickTypes
    <3>2. PICK answer \in Results(cur), written \in {"first", "second", "never"} :
            /\ written # "first" => Faults /\ out[cur].state # "cancelled"
            /\ out' = IF out[cur].state = "cancelled" \/ written = "never" THEN out
                      ELSE [out EXCEPT ![cur] =
                             [state |-> After(IF written = "first" THEN answer ELSE "again", try),
                              tries |-> try]]
            /\ reached' = IF answer \in {"ok", "lost"} /\ out[cur].state = "sending"
                          THEN reached \cup {cur} ELSE reached
            /\ IF written = "never" THEN TickStops
               ELSE cur' = Null /\ try' = 0 /\ UNCHANGED <<at, todo>>
      BY <2>8 DEF Sent
    <3>3. written = "first" /\ cur' = Null /\ at' = at /\ todo' = todo
      BY <3>2
    <3>4. \A u \in Occs : u # cur => out'[u] = out[u] /\ (u \in reached' <=> u \in reached)
      BY <1>0, <3>2 DEF OutTypes
    <3>5. \/ out' = out /\ out[cur].state = "cancelled"
          \/ out'[cur].state = After(answer, try)
      BY <1>0, <3>1, <3>2, <3>3 DEF OutTypes
    <3>6. /\ After(answer, try) \in {"delivered", "pending", "failed"}
          /\ answer \in {"ok", "lost"} => After(answer, try) # "pending"
      BY DEF After
    <3>7. TargetOf(cur) = "native" => cur \notin reached
      BY <3>1 DEF Arrived
    <3>8. cur \in reached' /\ TargetOf(cur) = "native" => out'[cur].state \notin {"none", "pending"}
      BY <3>2, <3>5, <3>6, <3>7
    <3>9. \A x \in todo : x[1] \in Occs /\ x[1] # cur
      BY <1>0, <3>1 DEF Unique, TickTypes
    <3>10. reached' \subseteq Occs
      BY <1>0, <3>1, <3>2 DEF OutTypes
    <3>11. Arrived'
      <4>1. ASSUME NEW u \in reached', TargetOf(u) = "native"
            PROVE  out'[u].state \notin {"none", "pending"} /\ ~(at' = "outbox" /\ cur' = u)
        BY <1>0, <3>3, <3>4, <3>8, <3>10, <4>1 DEF Arrived
      <4>2. ASSUME NEW x \in todo, x[2].state = "pending", TargetOf(x[1]) = "native"
            PROVE  x[1] \notin reached'
        BY <3>1, <3>4, <3>9, <4>2 DEF Arrived
      <4> QED BY <3>3, <4>1, <4>2 DEF Arrived, TargetOf
    <3>12. Unrepeated
      BY <3>4, <3>5, <3>6 DEF Unrepeated
    <3> QED BY <3>11, <3>12
  <2> QED BY <1>2, <2>1, <2>2, <2>3, <2>4, <2>5, <2>6, <2>7, <2>8 DEF TickStep
<1>3. ASSUME NEW o \in Occs, Answer(o) \/ Revoke(o) PROVE Arrived' /\ Unrepeated
  <2>1. UNCHANGED <<out, reached>> /\ (UNCHANGED ticking \/ \E item \in OccRec : Store(o, item))
    BY <1>3 DEF Answer, Accepted, Rejected, Revoke, OccRec, ticking, deliveries
  <2>2. UNCHANGED <<at, todo, cur>>
    BY <1>0, <2>1, StoreEffect DEF ticking
  <2> QED BY <2>1, <2>2, <1>1
<1>4. ASSUME NEW o \in Occs, Retry(o) \/ Stop(o) PROVE Arrived' /\ Unrepeated
  <2>1. UNCHANGED <<at, todo, cur>>
    BY <1>4 DEF Retry, Stop, ticking
  <2>2. \/ /\ reached' = reached \ {o} /\ out'[o].state = "pending"
        \/ /\ reached' = reached /\ out'[o].state = "cancelled"
    BY <1>0, <1>4 DEF Retry, Stop, OutTypes, OutRec
  <2>3. \A u \in Occs : u # o => out'[u] = out[u]
    BY <1>0, <1>4 DEF Retry, Stop, OutTypes
  <2> QED BY <1>0, <2>1, <2>2, <2>3 DEF Arrived, Unrepeated, OutTypes, TargetOf
<1>5. ASSUME NEW o \in Occs, Cancelled(o) \/ CancelOccurrence(o) \/ Receive(o) \/ TaskEnds(o)
      PROVE  Arrived' /\ Unrepeated
  BY <1>5, <1>1 DEF Cancelled, CancelOccurrence, Receive, TaskEnds, deliveries, ticking
<1>6. ASSUME NEW p \in Plans, SetEnabled(p) \/ Remove(p) PROVE Arrived' /\ Unrepeated
  BY <1>6, <1>1 DEF SetEnabled, Remove, deliveries, ticking
<1>7. CASE Advance \/ UNCHANGED vars
  BY <1>7, <1>1 DEF Advance, vars, deliveries, ticking
<1>8. CASE Crash
  <2>1. at' = "idle" /\ cur' = Null
    BY <1>8 DEF Crash, TickStops
  <2>2. reached' = reached \/ \E o \in Occs : reached' = reached \cup {o} /\ out[o].state = "sending"
    <3>1. reached' = reached \/ (at = "outbox" /\ cur # Null /\
            reached' = reached \cup {o \in {cur} : out[o].state = "sending"})
      BY <1>8 DEF Crash
    <3>2. CASE cur # Null /\ out[cur].state = "sending"
      BY <1>0, <3>1, <3>2 DEF TickTypes
    <3>3. CASE ~(cur # Null /\ out[cur].state = "sending")
      BY <3>1, <3>3
    <3> QED BY <3>2, <3>3
  <2>3. UNCHANGED out \/ \E o \in Occs : File(o)
    BY <1>0, <1>8 DEF Crash, FirstWrite, TickTypes
  <2>4. \A u \in Occs : out'[u] = out[u] \/ (out[u].state = "none" /\ out'[u].state = "pending")
    BY <1>0, <2>3, FileEffect DEF NoOut
  <2> QED BY <1>0, <2>1, <2>2, <2>4 DEF Arrived, Unrepeated, OutTypes, TargetOf
<1> QED BY <1>2, <1>3, <1>4, <1>5, <1>6, <1>7, <1>8 DEF Next, Continue

\* deliver, NativeConnectorSender: whatever snapshot the tick works from, whenever the
\* process dies and whatever users stop and retry meanwhile, no step of the program
\* by itself sends a native message again that may have arrived.
THEOREM NativeNeverRepeated ==
  ASSUME Faults = FALSE
  PROVE  Spec => NativeNotRepeated
<1>1. Init => Arrived
  BY DEF Init, Arrived
<1>2. IInv /\ Records /\ Attempts /\ Unique /\ Arrived /\ [Next]_vars => Arrived' /\ Unrepeated
  BY ArrivedStep, AutomationsAssumption
<1>3. IInv /\ Records /\ Attempts /\ Unique /\ Arrived /\ [Next]_vars => [Unrepeated]_vars
  BY <1>2
<1>4. Spec => []Arrived
  BY <1>1, <1>2, AutomationsAlways, UniqueAlways, PTL DEF Spec
<1> QED BY <1>3, <1>4, AutomationsAlways, UniqueAlways, PTL
       DEF Spec, NativeNotRepeated, Unrepeated

-----------------------------------------------------------------------------
(* Missed times.  A plan that fired has a later next time, or one that is   *)
(* recorded already, as soon as the step that fired it is over.  When a     *)
(* user gives the plan another time between the snapshot and the firing,    *)
(* and the tick ends, by a crash or a write that fails, before the plan is  *)
(* written back, that time is left although it has passed: the theorem      *)
(* excludes the one or the other.                                           *)

Seamless == MaxRestarts = 0 /\ Faults = FALSE

Ahead(p, n) == n # Null => fired[p] = Null \/ n > fired[p] \/ occ[<<p, n>>] # NoOcc

\* What is being worked on was recorded.
Noted ==
  /\ \A o \in Occs : dispatch[o] # "idle" \/ o \in revoking => occ[o] # NoOcc
  /\ at = "occurrences" => \A x \in todo : occ[x[1]] # NoOcc

MadeUp ==
  /\ \A p \in Plans : fired[p] # Null => fired[p] <= now
  /\ at = "plans" => \A x \in todo : Ahead(x[1], x[2].next)
  /\ \A p \in Plans : plan[p].there =>
       \/ Ahead(p, plan[p].next)
       \/ Seamless /\ at = "plans" /\ cur # Null /\ cur[1] = p
  /\ MaxActs = 0 /\ at = "plans" => \A x \in todo : plan[x[1]].next = x[2].next

\* What the step may record for the first time.
OnlyLater ==
  \A o \in Scheduled : occ[o] = NoOcc /\ occ'[o] # NoOcc =>
    fired[o[1]] = Null \/ o[2] > fired[o[1]]

\* What is recorded stays recorded, so what is ahead stays ahead.
LEMMA AheadKept ==
  ASSUME AutomationsAssumption, Records, MadeUp, NEW p \in Plans,
         NEW n \in (Nat \ {0}) \cup {Null}, Ahead(p, n),
         fired'[p] = fired[p], \A o \in Occs : occ[o] # NoOcc => occ'[o] # NoOcc
  PROVE  Ahead(p, n)'
<1>1. CASE n = Null \/ fired[p] = Null \/ n > fired[p]
  BY <1>1 DEF Ahead
<1>2. CASE n # Null /\ fired[p] # Null /\ ~(n > fired[p])
  <2>1. fired[p] \in Nat /\ n \in Nat \ {0} /\ n <= fired[p]
    BY <1>2 DEF Records, PlanTypes
  <2>2. fired[p] <= now /\ now <= MaxTime /\ now \in Nat /\ MaxTime \in Nat
    BY <1>2 DEF MadeUp, Records, Clock, AutomationsAssumption
  <2>3. <<p, n>> \in Occs
    BY <2>1, <2>2 DEF Occs
  <2>4. occ[<<p, n>>] # NoOcc
    BY <1>2 DEF Ahead
  <2> QED BY <2>3, <2>4 DEF Ahead
<1> QED BY <1>1, <1>2

\* A step that fires no plan and gives none another time, and records, of the
\* scheduled occurrences, only what was recorded before.
LEMMA MadeUpKept ==
  ASSUME AutomationsAssumption, Records, MadeUp, now' \in Nat, now' >= now,
         UNCHANGED <<plan, fired>>,
         \A o \in Occs : occ[o] # NoOcc => occ'[o] # NoOcc,
         \A o \in Scheduled : occ'[o] # NoOcc => occ[o] # NoOcc,
         \/ UNCHANGED <<at, todo, cur>>
         \/ at' = at /\ at # "plans"
         \/ at' = "idle" /\ (at # "plans" \/ cur = Null \/ ~Seamless)
  PROVE  MadeUp' /\ OnlyLater
<1>1. \A p \in Plans : fired'[p] # Null => fired'[p] <= now'
  BY DEF MadeUp, Records, PlanTypes, Clock
<1>2. OnlyLater
  BY DEF OnlyLater
<1>3. \A p \in Plans : plan[p].next \in (Nat \ {0}) \cup {Null}
  BY DEF Records, PlanTypes, PlanRec
<1>4. \A p \in Plans : Ahead(p, plan[p].next) => Ahead(p, plan[p].next)'
  BY <1>3, AheadKept
<1>5. ASSUME at' = "plans" PROVE \A x \in todo' : Ahead(x[1], x[2].next)'
  <2>1. UNCHANGED <<at, todo, cur>>
    BY <1>5
  <2>2. \A x \in todo : x[1] \in Plans /\ x[2].next \in (Nat \ {0}) \cup {Null}
    BY <1>5, <2>1 DEF Records, TickTypes, PlanRec
  <2> QED BY <1>5, <2>1, <2>2, AheadKept DEF MadeUp
<1> QED BY <1>1, <1>2, <1>4, <1>5 DEF MadeUp, Seamless

\* What is recorded stays recorded; only an event, or the tick that looks at a plan,
\* leaves a new record.
LEMMA NotedStep ==
  ASSUME AutomationsAssumption, IInv, Records, Noted, [Next]_vars
  PROVE  /\ Noted' /\ \A o \in Occs : occ[o] # NoOcc => occ'[o] # NoOcc
         /\ \A o \in Scheduled : occ[o] = NoOcc /\ occ'[o] # NoOcc => at = "plans" /\ cur = Null
<1> DEFINE Good == /\ Noted' /\ \A o \in Occs : occ[o] # NoOcc => occ'[o] # NoOcc
                   /\ \A o \in Scheduled :
                        occ[o] = NoOcc /\ occ'[o] # NoOcc => at = "plans" /\ cur = Null
<1>0. /\ OccTypes /\ OutTypes /\ TickTypes /\ Scheduled \subseteq Occs
      /\ \A o \in Scheduled : o \notin Events /\ o # Null
  BY DEF Records, Occs, Scheduled, AutomationsAssumption
<1>1. ASSUME UNCHANGED <<occ, dispatch>>, revoking' \subseteq revoking,
             at' # "occurrences" \/ (at = "occurrences" /\ todo' \subseteq todo)
      PROVE  Good
  BY <1>1 DEF Noted
<1>2. ASSUME NEW o \in Occs, UNCHANGED revoking,
             \A u \in Occs : u # o => occ'[u] = occ[u] /\ dispatch'[u] = dispatch[u],
             occ'[o] # NoOcc \/ (occ'[o] = occ[o] /\ dispatch'[o] = dispatch[o]),
             o \in Scheduled /\ occ[o] = NoOcc /\ occ'[o] # NoOcc => at = "plans" /\ cur = Null,
             at' # "occurrences" \/ (at = "occurrences" /\ todo' \subseteq todo)
      PROVE  Good
  BY <1>0, <1>2 DEF Noted, TickTypes
<1>3. CASE TickStep
  <2>1. CASE Tick
    <3>1. UNCHANGED <<occ, dispatch, revoking>>
      BY <2>1 DEF Tick, occurrences
    <3>2. at' # "occurrences" \/ todo' = Snapshot(occ, ToVisit)
      BY <2>1 DEF Tick, Enter, TickStops
    <3>3. \A x \in Snapshot(occ, ToVisit) : occ[x[1]] # NoOcc
      BY DEF Snapshot, ToVisit, NoOcc, Open
    <3> QED BY <3>1, <3>2, <3>3 DEF Noted
  <2>2. CASE Fired \/ Sent
    BY <2>2, <1>1 DEF Fired, Sent, occurrences, TickStops
  <2>3. CASE Visited
    <3>1. cur \in Occs /\ Close(cur, occ[cur]) /\ UNCHANGED <<dispatch, revoking, at, todo>>
      BY <1>0, <2>3 DEF Visited, TickTypes
    <3>2. /\ \A u \in Occs : u # cur => occ'[u] = occ[u]
          /\ occ'[cur] = occ[cur] \/ (occ'[cur] # NoOcc /\ occ[cur] # NoOcc)
      BY <1>0, <3>1, CloseEffect DEF OccTypes, Closable, NoOcc
    <3> QED BY <3>1, <3>2, <1>2 DEF Noted
  <2>4. ASSUME NEW x \in todo, Fire(x[1], x[2]) PROVE Good
    <3>1. x[1] \in Plans /\ x[2] \in PlanRec
      BY <1>0, <2>4, Taken
    <3>2. /\ UNCHANGED revoking /\ at' = at /\ at = "plans" /\ cur = Null
          /\ \/ UNCHANGED <<occ, dispatch>>
             \/ \E o \in Occs : Dispatch(o, Found(o))
      BY <2>4, <3>1, FireEffect
    <3>3. ASSUME NEW o \in Occs, Dispatch(o, Found(o)) PROVE Good
      BY <1>0, <3>2, <3>3, FoundType, DispatchEffect, <1>2 DEF NoOcc
    <3> QED BY <3>2, <3>3, <1>1
  <2>5. ASSUME NEW x \in todo, Visit(x[1], x[2]) PROVE Good
    <3>1. /\ x[1] \in Occs /\ x[2] \in OccRec /\ at = "occurrences" /\ occ[x[1]] # NoOcc
          /\ at' = at /\ todo' \subseteq todo /\ UNCHANGED revoking
      BY <1>0, <2>5, Taken DEF Visit, Take, Noted
    <3>2. Dispatch(x[1], x[2]) \/ (Close(x[1], x[2]) /\ UNCHANGED dispatch)
      BY <2>5 DEF Visit
    <3>3. CASE Dispatch(x[1], x[2])
      BY <1>0, <3>1, <3>3, DispatchEffect, <1>2 DEF NoOcc
    <3>4. CASE Close(x[1], x[2]) /\ UNCHANGED dispatch
      BY <1>0, <3>1, <3>4, CloseEffect, <1>2 DEF NoOcc
    <3> QED BY <3>2, <3>3, <3>4
  <2>6. ASSUME NEW x \in todo, Send(x[1], x[2]) \/ NotDue(x[1], x[2]) PROVE Good
    <3>1. UNCHANGED <<occ, dispatch, revoking, at>> /\ at = "outbox"
      BY <2>6 DEF Send, NotDue, Take
    <3> QED BY <3>1, <1>1
  <2> QED BY <1>3, <2>1, <2>2, <2>3, <2>4, <2>5, <2>6 DEF TickStep
<1>4. ASSUME NEW o \in Occs, Answer(o) \/ Revoke(o) PROVE Good
  <2>1. dispatch[o] # "idle" /\ occ[o] # NoOcc
    BY <1>4 DEF Answer, Revoke, Noted
  <2>2. UNCHANGED revoking
    BY <1>4 DEF Answer, Revoke
  <2>3. \/ dispatch' = [dispatch EXCEPT ![o] = "revoking"] /\ UNCHANGED <<occ, ticking>>
        \/ \E item \in OccRec : item.state # "none" /\ Store(o, item)
    BY <1>4 DEF Answer, Accepted, Rejected, Revoke, OccRec
  <2>4. CASE dispatch' = [dispatch EXCEPT ![o] = "revoking"] /\ UNCHANGED <<occ, ticking>>
    BY <2>1, <2>2, <2>4 DEF Noted, IInv, TypeInv, ticking
  <2>5. ASSUME NEW item \in OccRec, item.state # "none", Store(o, item) PROVE Good
    <3>1. /\ \A u \in Occs : u # o => occ'[u] = occ[u] /\ dispatch'[u] = dispatch[u]
          /\ occ'[o] = item \/ occ'[o] = occ[o]
          /\ UNCHANGED ticking \/ TickStops
      BY <1>0, <2>5, StoreEffect
    <3>2. occ'[o] # NoOcc
      BY <2>1, <2>5, <3>1 DEF NoOcc
    <3>3. at' # "occurrences" \/ (at = "occurrences" /\ todo' \subseteq todo)
      BY <3>1 DEF ticking, TickStops
    <3> QED BY <2>1, <2>2, <3>1, <3>2, <3>3, <1>2
  <2> QED BY <2>3, <2>4, <2>5
<1>5. ASSUME NEW o \in Occs, Cancelled(o) \/ CancelOccurrence(o) PROVE Good
  <2>1. occ[o] # NoOcc /\ UNCHANGED <<dispatch, ticking>> /\ revoking' \subseteq revoking \cup {o}
    BY <1>5 DEF Cancelled, CancelOccurrence, Noted
  <2>2. /\ \A u \in Occs : u # o => occ'[u] = occ[u]
        /\ occ'[o] = occ[o] \/ occ'[o].state = "cancelled"
    BY <1>0, <1>5 DEF Cancelled, CancelOccurrence, OccTypes, OccRec
  <2>3. occ'[o] # NoOcc
    BY <2>1, <2>2 DEF NoOcc
  <2>4. Noted'
    BY <1>0, <2>1, <2>2, <2>3 DEF Noted, ticking, TickTypes
  <2> QED BY <1>0, <2>1, <2>2, <2>3, <2>4
<1>6. ASSUME NEW o \in Occs, Receive(o) PROVE Good
  <2>1. o \in Events /\ Dispatch(o, Found(o)) /\ UNCHANGED <<revoking, ticking>>
    BY <1>6 DEF Receive
  <2> QED BY <1>0, <2>1, FoundType, DispatchEffect, <1>2 DEF NoOcc, ticking
<1>7. ASSUME NEW o \in Occs, TaskEnds(o) \/ Retry(o) \/ Stop(o) PROVE Good
  BY <1>7, <1>1 DEF TaskEnds, Retry, Stop, occurrences, ticking
<1>8. ASSUME NEW p \in Plans, SetEnabled(p) \/ Remove(p) PROVE Good
  BY <1>8, <1>1 DEF SetEnabled, Remove, occurrences, ticking
<1>9. CASE Advance \/ UNCHANGED vars
  BY <1>9, <1>1 DEF Advance, vars, occurrences, ticking
<1>10. CASE Crash
  <2>1. dispatch' = [o \in Occs |-> "idle"] /\ revoking' = {} /\ at' = "idle"
    BY <1>10 DEF Crash, TickStops
  <2>2. UNCHANGED occ \/ \E o \in Firing : occ' = [occ EXCEPT ![o] = Pending]
    BY <1>10 DEF Crash, FirstWrite
  <2>3. Pending # NoOcc /\ \A o \in Firing \cap Scheduled : at = "plans" /\ cur = Null
    BY <1>0 DEF Pending, NoOcc, Firing
  <2> QED BY <1>0, <2>1, <2>2, <2>3 DEF Noted, OccTypes
<1> QED BY <1>3, <1>4, <1>5, <1>6, <1>7, <1>8, <1>9, <1>10 DEF Next, Continue

LEMMA MadeUpStep ==
  ASSUME AutomationsAssumption, MaxActs = 0 \/ Seamless,
         IInv, Records, Unique, Noted, MadeUp, [Next]_vars
  PROVE  MadeUp' /\ OnlyLater
<1>0. /\ OccTypes /\ OutTypes /\ TickTypes /\ PlanTypes /\ Clock /\ Scheduled \subseteq Occs
      /\ now \in Nat /\ MaxActs \in Nat /\ MaxRestarts \in Nat /\ \A o \in Scheduled : o # Null
  BY DEF Records, Clock, Occs, Scheduled, AutomationsAssumption
<1>1. /\ \A o \in Occs : occ[o] # NoOcc => occ'[o] # NoOcc
      /\ \A o \in Scheduled : occ[o] = NoOcc /\ occ'[o] # NoOcc => at = "plans" /\ cur = Null
  BY NotedStep
<1>2. ASSUME UNCHANGED <<plan, fired, ticking>>, now' \in Nat, now' >= now,
             \A o \in Scheduled : occ'[o] # NoOcc => occ[o] # NoOcc
      PROVE  MadeUp' /\ OnlyLater
  BY <1>1, <1>2, MadeUpKept DEF ticking
<1>3. \A p \in Plans : plan[p].next \in (Nat \ {0}) \cup {Null}
  BY <1>0 DEF PlanTypes, PlanRec
<1>4. at = "plans" => \A y \in todo : y[1] \in Plans /\ y[2].next \in (Nat \ {0}) \cup {Null}
  BY <1>0 DEF TickTypes, PlanRec
<1>5. CASE TickStep
  <2>1. CASE Tick
    <3>1. cur = Null /\ UNCHANGED <<plan, fired, now, occ>>
      BY <2>1 DEF Tick, occurrences
    <3>2. \/ at' # "plans"
          \/ todo' = Snapshot(plan, {p \in Plans : plan[p].there})
      BY <2>1 DEF Tick, Enter, TickStops
    <3>3. \A p \in Plans : plan[p].there => Ahead(p, plan[p].next)
      BY <3>1 DEF MadeUp
    <3>4. \A x \in Snapshot(plan, {p \in Plans : plan[p].there}) :
            Ahead(x[1], x[2].next) /\ plan[x[1]].next = x[2].next
      BY <3>3 DEF Snapshot
    <3>5. \A p, n : Ahead(p, n)' <=> Ahead(p, n)
      BY <3>1 DEF Ahead
    <3>6. OnlyLater
      BY <3>1 DEF OnlyLater
    <3> QED BY <3>1, <3>2, <3>3, <3>4, <3>5, <3>6 DEF MadeUp
  <2>2. CASE Fired
    <3> DEFINE p == cur[1]  n == NextTime(p, now)
    <3>1. p \in Plans /\ at = "plans" /\ cur # Null
      BY <1>0, <2>2 DEF Fired, TickTypes, Scheduled
    <3>2. n \in Nat \cup {Null} /\ (n = Null \/ n > now)
      BY <1>0, <3>1, NextTimeLater
    <3>3. /\ UNCHANGED <<fired, now, occ, at, todo>> /\ cur' = Null
          /\ \A q \in Plans : /\ plan'[q].there = plan[q].there /\ (q # p => plan'[q] = plan[q])
                              /\ plan[q].there /\ q = p => plan'[q].next = n
      <4>1. /\ UNCHANGED <<fired, now, occ, at, todo>> /\ cur' = Null
            /\ plan' = IF plan[p].there
                       THEN [plan EXCEPT ![p].next = n, ![p].enabled = plan[p].enabled /\ n # Null]
                       ELSE plan
        BY <2>2 DEF Fired, Rescheduled, occurrences
      <4> HIDE DEF p, n
      <4> QED BY <1>0, <3>1, <4>1 DEF PlanTypes, PlanRec
    <3>4. Ahead(p, n)
      <4> HIDE DEF p, n
      <4>1. fired[p] = Null \/ (fired[p] \in Nat /\ fired[p] <= now)
        BY <1>0, <3>1 DEF MadeUp, PlanTypes
      <4> QED BY <1>0, <3>2, <4>1 DEF Ahead
    <3>5. \A q, m : Ahead(q, m)' <=> Ahead(q, m)
      BY <3>3 DEF Ahead
    <3>6. \A x \in todo : x[1] \in Plans /\ x[1] # p
      BY <1>4, <3>1 DEF Unique
    <3> HIDE DEF p, n
    <3>7. \A q \in Plans : plan'[q].there => Ahead(q, plan'[q].next)
      BY <3>1, <3>3, <3>4 DEF MadeUp, p
    <3>8. MaxActs = 0 => \A x \in todo : plan'[x[1]].next = x[2].next
      BY <3>1, <3>3, <3>6 DEF MadeUp
    <3>9. OnlyLater
      BY <3>3 DEF OnlyLater
    <3> QED BY <3>1, <3>3, <3>5, <3>7, <3>8, <3>9 DEF MadeUp
  <2>3. CASE Visited \/ Sent
    <3>1. UNCHANGED <<plan, fired, now>> /\ at \in {"occurrences", "outbox"}
          /\ (at' = at \/ at' = "idle")
      BY <2>3 DEF Visited, Sent, TickStops
    <3> QED BY <1>0, <1>1, <3>1, MadeUpKept
  <2>4. ASSUME NEW x \in todo, Visit(x[1], x[2]) \/ Send(x[1], x[2]) \/ NotDue(x[1], x[2])
        PROVE  MadeUp' /\ OnlyLater
    <3>1. UNCHANGED <<plan, fired, now, at>> /\ at \in {"occurrences", "outbox"}
      BY <2>4 DEF Visit, Send, NotDue, Take
    <3> QED BY <1>0, <1>1, <3>1, MadeUpKept
  <2>5. ASSUME NEW x \in todo, Fire(x[1], x[2]) PROVE MadeUp' /\ OnlyLater
    <3> DEFINE p == x[1]  seen == x[2]
    <3>1. p \in Plans /\ seen \in PlanRec /\ at = "plans" /\ x = <<p, seen>>
      BY <1>0, <2>5, Taken DEF TickTypes
    <3>2. /\ at' = at /\ cur = Null /\ \A y \in todo' : y \in todo /\ y[1] # p
      BY <1>0, <2>5, TakenOnce
    <3>3. UNCHANGED <<plan, now>>
      BY <2>5, <3>1, FireEffect
    <3>4. ASSUME NEW q \in Plans, NEW m \in (Nat \ {0}) \cup {Null}, Ahead(q, m), fired'[q] = fired[q]
          PROVE  Ahead(q, m)'
      BY <1>1, <3>4, AheadKept
    <3>5. \A q \in Plans : plan[q].there => Ahead(q, plan[q].next)
      BY <3>2 DEF MadeUp
    <3>6. CASE UNCHANGED <<occ, fired>>
      <4>1. OnlyLater
        BY <3>6 DEF OnlyLater
      <4>2. \A q \in Plans : plan[q].there => Ahead(q, plan[q].next)'
        BY <1>3, <3>3, <3>4, <3>5, <3>6
      <4>3. \A y \in todo' : Ahead(y[1], y[2].next)'
        BY <1>4, <3>1, <3>2, <3>4, <3>6 DEF MadeUp
      <4> QED BY <3>1, <3>2, <3>3, <3>6, <4>1, <4>2, <4>3 DEF MadeUp
    <3>7. ASSUME NEW o \in Scheduled, o = <<p, seen.next>>, seen.next # Null, cur' = o,
                 Dispatch(o, Found(o)),
                 fired' = IF occ[o] = NoOcc THEN [fired EXCEPT ![p] = now] ELSE fired
          PROVE  MadeUp' /\ OnlyLater
      <4>1. /\ \A u \in Occs : u # o => occ'[u] = occ[u]
            /\ occ'[o] # NoOcc
        <5>1. CASE occ[o] = NoOcc
          BY <1>0, <3>7, <5>1, FoundType, DispatchEffect DEF Noted, NoOcc
        <5>2. CASE occ[o] # NoOcc
          BY <1>0, <1>1, <3>7, <5>2, FoundType, DispatchEffect
        <5> QED BY <5>1, <5>2
      <4>2. /\ \A q \in Plans : q # p => fired'[q] = fired[q]
            /\ \A q \in Plans : fired'[q] # Null => fired'[q] <= now
        BY <1>0, <3>1, <3>7 DEF PlanTypes, MadeUp
      <4>3. OnlyLater
        <5>1. Ahead(p, seen.next)
          BY <3>1 DEF MadeUp
        <5> QED BY <1>0, <3>1, <3>7, <4>1, <5>1 DEF OnlyLater, Ahead
      <4>4. \A y \in todo' : Ahead(y[1], y[2].next)'
        BY <1>4, <3>1, <3>2, <3>4, <4>2 DEF MadeUp
      <4>5. \A q \in Plans : plan[q].there /\ q # p => Ahead(q, plan[q].next)'
        BY <1>3, <3>3, <3>4, <3>5, <4>2
      <4>6. MaxActs = 0 => Ahead(p, plan[p].next)'
        <5>1. MaxActs = 0 => plan[p].next = seen.next
          BY <3>1 DEF MadeUp
        <5> QED BY <3>3, <3>7, <4>1, <5>1 DEF Ahead
      <4>7. cur' # Null /\ cur'[1] = p
        BY <1>0, <3>7
      <4>8. Seamless' <=> Seamless
        BY DEF Seamless
      <4>9. \A y \in todo' : MaxActs = 0 => plan'[y[1]].next = y[2].next
        BY <3>1, <3>2, <3>3 DEF MadeUp
      <4> HIDE DEF p, seen
      <4> QED BY <3>1, <3>2, <3>3, <4>2, <4>3, <4>4, <4>5, <4>6, <4>7, <4>8, <4>9 DEF MadeUp
    <3> QED BY <2>5, <3>1, <3>6, <3>7, FireEffect
  <2> QED BY <1>5, <2>1, <2>2, <2>3, <2>4, <2>5 DEF TickStep
<1>6. Yielded => ~(at = "plans" /\ cur = Null)
  BY DEF Yielded
<1>7. ASSUME NEW o \in Occs, Continue(o) \/ Receive(o) \/ CancelOccurrence(o) \/ TaskEnds(o)
                             \/ Retry(o) \/ Stop(o), Yielded
      PROVE  MadeUp' /\ OnlyLater
  <2>1. UNCHANGED <<plan, fired, now>>
    BY <1>7 DEF Continue, Answer, Revoke, Cancelled, Receive, CancelOccurrence, TaskEnds,
                Retry, Stop
  <2>2. UNCHANGED ticking \/ (Faults /\ TickStops)
    <3>1. CASE Answer(o) \/ Revoke(o)
      <4>1. UNCHANGED ticking \/ \E item \in OccRec : Store(o, item)
        BY <3>1 DEF Answer, Accepted, Rejected, Revoke, OccRec
      <4> QED BY <1>0, <4>1, StoreEffect
    <3>2. CASE ~(Answer(o) \/ Revoke(o))
      BY <1>7, <3>2 DEF Continue, Cancelled, Receive, CancelOccurrence, TaskEnds, Retry, Stop
    <3> QED BY <3>1, <3>2
  <2>3. UNCHANGED <<at, todo, cur>> \/ (at' = "idle" /\ ~Seamless)
    BY <2>2 DEF ticking, TickStops, Seamless
  <2> QED BY <1>0, <1>1, <1>6, <1>7, <2>1, <2>3, MadeUpKept
<1>8. ASSUME NEW p \in Plans, SetEnabled(p) \/ Remove(p) PROVE MadeUp' /\ OnlyLater
  <2>1. UNCHANGED <<fired, now, occ, at, todo, cur>> /\ MaxActs # 0
    BY <1>0, <1>8 DEF SetEnabled, Remove, Act, occurrences, ticking, Clock
  <2> DEFINE n == NextTime(p, now)
  <2>2. n \in Nat \cup {Null} /\ (n = Null \/ n > now)
    BY <1>0, NextTimeLater
  <2>3. Ahead(p, n)
    <3> HIDE DEF n
    <3>1. fired[p] = Null \/ (fired[p] \in Nat /\ fired[p] <= now)
      BY <1>0 DEF MadeUp, PlanTypes
    <3> QED BY <1>0, <2>2, <3>1 DEF Ahead
  <2>4. /\ \A q \in Plans : q # p => plan'[q] = plan[q]
        /\ plan'[p].there => plan[p].there /\ plan'[p].next \in {plan[p].next, n}
    <3> HIDE DEF n
    <3>1. \/ plan' = [plan EXCEPT ![p].enabled = FALSE]
          \/ plan' = [plan EXCEPT ![p].enabled = TRUE, ![p].next = n]
          \/ plan' = [plan EXCEPT ![p].there = FALSE]
      BY <1>8 DEF SetEnabled, Remove, n
    <3> QED BY <1>0, <3>1 DEF PlanTypes, PlanRec
  <2>5. \A q, m : Ahead(q, m)' <=> Ahead(q, m)
    BY <2>1 DEF Ahead
  <2>6. OnlyLater
    BY <2>1 DEF OnlyLater
  <2>7. Seamless' <=> Seamless
    BY DEF Seamless
  <2> HIDE DEF n
  <2> QED BY <2>1, <2>3, <2>4, <2>5, <2>6, <2>7 DEF MadeUp
<1>9. CASE Advance
  <2>1. now' = now + 1 /\ UNCHANGED <<plan, fired, occ, ticking>>
    BY <1>9 DEF Advance, occurrences
  <2> QED BY <1>0, <2>1, <1>2
<1>10. CASE UNCHANGED vars
  BY <1>0, <1>10, <1>2 DEF vars, occurrences
<1>11. CASE Crash
  <2>1. /\ UNCHANGED <<plan, fired, now>> /\ at' = "idle" /\ MaxRestarts # 0
        /\ UNCHANGED occ \/ \E o \in Firing : occ' = [occ EXCEPT ![o] = Pending]
    BY <1>0, <1>11 DEF Crash, TickStops, FirstWrite, Clock
  <2>2. ~Seamless
    BY <2>1 DEF Seamless
  <2>3. \A p \in Plans : plan[p].there => Ahead(p, plan[p].next)
    BY <2>2 DEF MadeUp
  <2>4. \A p \in Plans : plan[p].there => Ahead(p, plan[p].next)'
    BY <1>1, <1>3, <2>1, <2>3, AheadKept
  <2>5. OnlyLater
    <3> SUFFICES ASSUME NEW o \in Scheduled, occ[o] = NoOcc, occ'[o] # NoOcc
                 PROVE  fired[o[1]] = Null \/ o[2] > fired[o[1]]
      BY DEF OnlyLater
    <3>1. o \in Firing
      BY <1>0, <2>1 DEF OccTypes
    <3>2. PICK x \in todo : at = "plans" /\ x[1] = o[1] /\ x[2].next = o[2]
      BY <1>0, <3>1 DEF Firing, AutomationsAssumption, Scheduled
    <3>3. Ahead(o[1], o[2]) /\ o = <<o[1], o[2]>> /\ o[2] # Null
      BY <3>2 DEF MadeUp, Scheduled, AutomationsAssumption
    <3> QED BY <3>3 DEF Ahead
  <2> QED BY <2>1, <2>4, <2>5 DEF MadeUp
<1> QED BY <1>5, <1>7, <1>8, <1>9, <1>10, <1>11 DEF Next, Continue

\* runDue: after a stop only the first missed time of a plan is made up for, however
\* many have passed: a time that fires is later than the last firing.  It holds for the
\* plans nobody gives another time, with crashes and failing writes; and for any plan
\* when the tick that fires one is not cut off before it has written the plan back.
THEOREM CatchUpAtMostOnce ==
  ASSUME MaxActs = 0 \/ (MaxRestarts = 0 /\ Faults = FALSE)
  PROVE  Spec => CatchUpOnce
<1>0. MaxActs = 0 \/ Seamless
  BY DEF Seamless
<1>1. Init => Noted /\ MadeUp
  BY DEF Init, Noted, MadeUp, Ahead
<1>2. IInv /\ Records /\ Unique /\ Noted /\ MadeUp /\ [Next]_vars => Noted' /\ MadeUp' /\ OnlyLater
  BY <1>0, NotedStep, MadeUpStep, AutomationsAssumption
<1>3. IInv /\ Records /\ Unique /\ Noted /\ MadeUp /\ [Next]_vars => [OnlyLater]_vars
  BY <1>2
<1>4. Spec => [](Noted /\ MadeUp)
  BY <1>1, <1>2, AutomationsAlways, UniqueAlways, PTL DEF Spec
<1> QED BY <1>3, <1>4, AutomationsAlways, UniqueAlways, PTL
       DEF Spec, CatchUpOnce, OnlyLater

=============================================================================
