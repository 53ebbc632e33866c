----------------------------- MODULE Automations ----------------------------
(***************************************************************************)
(* Automations: plans that fire by the clock and events that connectors    *)
(* bring in, the occurrences they leave, the tasks these submit, and the   *)
(* outbox that delivers the results.                                       *)
(*                                                                         *)
(* Plans, occurrences and deliveries live on disk.  One timer handler, the *)
(* tick, goes through all three; it takes a snapshot of each directory and *)
(* waits in the middle of it, while users pause, cancel and retry.  The    *)
(* registry and the orchestrator are Admission's and TaskOrchestrator's    *)
(* subject: here a submission yields a task or an error, and a key that    *)
(* was used gives the answer its receipt holds.                            *)
(***************************************************************************)
EXTENDS Naturals, FiniteSets

CONSTANTS
  Plans, Events,  \* scheduled plans; inbound events and runs by hand
  Kind, Period,   \* schedule of a plan: "once" at Period, "every" Period, "cron" at its multiples
  Target,         \* where a plan's or an event's result goes: "nowhere", "webhook", "native"
  Null,
  MaxTime,        \* bound: the clock
  MaxTries,       \* attempts of one delivery (5 in the code)
  MaxActs,        \* bound: interventions of users in deliveries
  MaxRestarts,    \* bound: crashes
  Faults          \* TRUE: a write at the end of a step may fail, a task be unreadable

ASSUME AutomationsAssumption ==
  /\ Kind \in [Plans -> {"once", "every", "cron"}] /\ Period \in [Plans -> Nat \ {0}]
  /\ Target \in [Plans \cup Events -> {"nowhere", "webhook", "native"}]
  /\ {MaxTime, MaxActs, MaxRestarts} \subseteq Nat /\ MaxTries \in Nat \ {0}
  /\ Faults \in BOOLEAN /\ Null \notin Nat \cup Events \cup (Plans \X (1..MaxTime))
  /\ Events \cap (Plans \X (1..MaxTime)) = {}

VARIABLES
  now, acts, restarts,
  plan,      \* disk: automations
  occ,       \* disk: occurrences, with whether they name their task
  receipt,   \* disk: the registry's receipt for the occurrence's key
  task,      \* the task an occurrence created
  dispatch,  \* submissions: where the submission of an occurrence is
  revoking,  \* occurrences whose cancellation waits for the orchestrator
  out,       \* disk: outbox
  at, todo, cur, try, \* the tick: its phase, what is left of its snapshot, what it waits
                      \* for, which attempt of a delivery that is
  reached,   \* deliveries that may have arrived since a user last decided on them
  fired      \* when each plan last left an occurrence

occurrences == <<occ, receipt, task, dispatch, revoking>>
deliveries == <<out, reached>>
ticking == <<at, todo, cur, try>>
vars == <<now, acts, restarts, plan, occurrences, deliveries, ticking, fired>>

Occs == (Plans \X (1..MaxTime)) \cup Events
Scheduled == Plans \X (1..MaxTime)
TargetOf(o) == IF o \in Scheduled THEN Target[o[1]] ELSE Target[o]

Open == {"pending", "submitting"}
NoOcc == [state |-> "none", named |-> FALSE]
Pending == [state |-> "pending", named |-> FALSE]
NoOut == [state |-> "none", tries |-> 0]

\* nextAutomationTime.
NextTime(p, after) ==
  CASE Kind[p] = "once" -> IF Period[p] > after THEN Period[p] ELSE Null
    [] Kind[p] = "every" -> after + Period[p]
    [] Kind[p] = "cron" -> (after \div Period[p] + 1) * Period[p]

-----------------------------------------------------------------------------
(* Occurrences: submitOccurrence and dispatch.                             *)

\* Mutant of Dispatch: every submission has a key of its own.
DispatchFreshKey(o, item) ==
  IF dispatch[o] = "idle" /\ item.state \in Open
  THEN /\ occ' = [occ EXCEPT ![o] = [item EXCEPT !.state = "submitting"]]
       /\ dispatch' = [dispatch EXCEPT ![o] = "creating"]
       /\ receipt' = [receipt EXCEPT ![o] = "creating"]
  ELSE UNCHANGED <<occ, dispatch, receipt>>

\* dispatch() of an item in memory, up to the answer of the registry: the item is
\* written back, the key's receipt is consulted or stored.
Dispatch(o, item) ==
  IF dispatch[o] = "idle" /\ item.state \in Open
  THEN /\ occ' = [occ EXCEPT ![o] = [item EXCEPT !.state = "submitting"]]
       /\ dispatch' = [dispatch EXCEPT ![o] =
            IF receipt[o] = "absent" THEN "creating" ELSE "known"]
       /\ receipt' = [receipt EXCEPT ![o] = IF @ = "absent" THEN "creating" ELSE @]
  ELSE UNCHANGED <<occ, dispatch, receipt>>

Found(o) == IF occ[o] = NoOcc THEN Pending ELSE occ[o]

\* A connector's event, or a run by hand; events may come more than once.
Receive(e) ==
  /\ e \in Events
  /\ Dispatch(e, Found(e))
  /\ UNCHANGED <<now, acts, restarts, plan, task, revoking, deliveries, ticking, fired>>

\* The tick is over, early or not.
TickStops == at' = "idle" /\ todo' = {} /\ cur' = Null /\ try' = 0

\* The submission of o is over with this record, unless it cannot be written; the
\* tick that waits for it then fails.
Store(o, item) ==
  /\ dispatch' = [dispatch EXCEPT ![o] = "idle"]
  /\ \/ occ' = [occ EXCEPT ![o] = item] /\ UNCHANGED ticking
     \/ /\ Faults /\ UNCHANGED occ
        /\ IF cur = o /\ at # "outbox" THEN TickStops ELSE UNCHANGED ticking

\* Mutant of Accepted: the record stays cancelled, the task is forgotten.
AcceptedUnrevoked(o) ==
  Store(o, [state |-> IF occ[o].state = "cancelled" THEN "cancelled" ELSE "submitted",
            named |-> TRUE])

\* The registry answers with a task: one that was cancelled meanwhile is revoked.
Accepted(o) ==
  IF occ[o].state = "cancelled"
  THEN dispatch' = [dispatch EXCEPT ![o] = "revoking"] /\ UNCHANGED <<occ, ticking>>
  ELSE Store(o, [state |-> "submitted", named |-> TRUE])

Rejected(o) == Store(o, [state |-> "uncertain", named |-> FALSE])

Answer(o) ==
  /\ \/ /\ dispatch[o] = "creating"
        /\ \/ /\ task' = [task EXCEPT ![o] = "live"]
              /\ receipt' = [receipt EXCEPT ![o] = "submitted"]
              /\ Accepted(o)
           \/ /\ receipt' = [receipt EXCEPT ![o] = "failed"]
              /\ Rejected(o) /\ UNCHANGED task
     \/ /\ dispatch[o] = "known"
        /\ IF receipt[o] = "submitted" THEN Accepted(o) ELSE Rejected(o)
        /\ UNCHANGED <<task, receipt>>
  /\ UNCHANGED <<now, acts, restarts, plan, revoking, deliveries, fired>>

\* The task of a cancelled occurrence is cancelled; one that is over cannot be.
Revoke(o) ==
  /\ dispatch[o] = "revoking"
  /\ IF task[o] = "live"
     THEN /\ task' = [task EXCEPT ![o] = "CANCELLED"]
          /\ Store(o, [state |-> "cancelled", named |-> TRUE])
     ELSE Rejected(o) /\ UNCHANGED task
  /\ UNCHANGED <<now, acts, restarts, plan, receipt, revoking, deliveries, fired>>

\* cancelOccurrence: with a task, after the orchestrator has cancelled it.
CancelOccurrence(o) ==
  /\ occ[o] # NoOcc
  /\ IF occ[o].named
     THEN /\ task[o] = "live"
          /\ task' = [task EXCEPT ![o] = "CANCELLED"]
          /\ revoking' = revoking \cup {o}
          /\ UNCHANGED occ
     ELSE occ' = [occ EXCEPT ![o].state = "cancelled"] /\ UNCHANGED <<task, revoking>>
  /\ UNCHANGED <<now, acts, restarts, plan, receipt, dispatch, deliveries, ticking, fired>>

Cancelled(o) ==
  /\ o \in revoking
  /\ revoking' = revoking \ {o}
  /\ occ' = [occ EXCEPT ![o] = [state |-> "cancelled", named |-> TRUE]]
  /\ UNCHANGED <<now, acts, restarts, plan, receipt, task, dispatch, deliveries, ticking, fired>>

TaskEnds(o) ==
  /\ task[o] = "live"
  /\ \E s \in {"SUCCEEDED", "FAILED"} : task' = [task EXCEPT ![o] = s]
  /\ UNCHANGED <<now, acts, restarts, plan, occ, receipt, dispatch, revoking,
                 deliveries, ticking, fired>>

-----------------------------------------------------------------------------
(* The tick.                                                               *)

Snapshot(f, S) == {<<x, f[x]>> : x \in S}

\* Mutant of ToVisit: records left open by a crash are not taken up.
ToVisitSubmitted == {o \in Occs : occ[o].state = "submitted"}

ToVisit == {o \in Occs : occ[o].state \in Open \cup {"submitted"}}

Enter(phase) ==
  /\ at' = phase /\ UNCHANGED <<cur, try>>
  /\ todo' = CASE phase = "plans" -> Snapshot(plan, {p \in Plans : plan[p].there})
               [] phase = "occurrences" -> Snapshot(occ, ToVisit)
               [] phase = "outbox" ->
                    Snapshot(out, {o \in Occs : out[o].state \in {"pending", "sending"}})

Tick ==
  /\ todo = {} /\ cur = Null
  /\ \/ at = "idle" /\ Enter("plans")
     \/ at = "plans" /\ Enter("occurrences")
     \/ at = "occurrences" /\ Enter("outbox")
     \/ at = "outbox" /\ TickStops
  /\ UNCHANGED <<now, acts, restarts, plan, occurrences, deliveries, fired>>

Take(phase, x) ==
  /\ at = phase /\ cur = Null /\ x \in todo
  /\ todo' = todo \ {x}
  /\ UNCHANGED <<now, acts, restarts, at, revoking>>

\* A plan of the snapshot that is due fires, for the time it was due first.
Fire(p, seen) ==
  /\ Take("plans", <<p, seen>>)
  /\ IF seen.enabled /\ seen.next # Null /\ seen.next <= now
     THEN LET o == <<p, seen.next>> IN
          /\ Dispatch(o, Found(o))
          /\ fired' = IF occ[o] = NoOcc THEN [fired EXCEPT ![p] = now] ELSE fired
          /\ cur' = o
     ELSE UNCHANGED <<occ, dispatch, receipt, fired, cur>>
  /\ UNCHANGED <<plan, task, deliveries, try>>

\* Mutant of Rescheduled: from the time that was missed, not from now.
RescheduledFromSlot(p, slot) == NextTime(p, slot)

Rescheduled(p, slot) == NextTime(p, now)

\* The plan, as it is by now, gets its next time.
Fired ==
  /\ at = "plans" /\ cur # Null /\ dispatch[cur] = "idle"
  /\ cur' = Null
  /\ LET p == cur[1]  next == Rescheduled(p, cur[2]) IN
     plan' = IF plan[p].there
             THEN [plan EXCEPT ![p].next = next, ![p].enabled = @ /\ next # Null]
             ELSE plan
  /\ UNCHANGED <<now, acts, restarts, occurrences, deliveries, at, todo, try, fired>>

\* The result of o goes into the outbox, once.
File(o) ==
  IF TargetOf(o) = "nowhere" \/ out[o] # NoOut THEN UNCHANGED out
  ELSE out' = [out EXCEPT ![o] = [state |-> "pending", tries |-> 0]]

Final(o) ==
  CASE task[o] = "SUCCEEDED" -> "completed"
    [] task[o] = "CANCELLED" -> "cancelled"
    [] OTHER -> "failed"

Closed(o, item) == [occ EXCEPT ![o] = [item EXCEPT !.state = Final(o)]]

\* Mutant of FirstWrite: the occurrence is closed before its delivery is filed.
FirstWriteCloses(o, item) == occ' = Closed(o, item) /\ UNCHANGED out

\* Of the two writes that close an occurrence, the one that comes first.
FirstWrite(o, item) == File(o) /\ UNCHANGED occ

Closable(o, item) == item.state = "submitted" /\ item.named /\ task[o] # "live"

\* A submitted occurrence is closed when its task is over.
Close(o, item) ==
  \/ Closable(o, item) /\ File(o) /\ occ' = Closed(o, item)
  \/ ~Closable(o, item) /\ UNCHANGED <<occ, out>>
  \/ /\ Faults /\ item.state = "submitted" /\ item.named
     /\ occ' = [occ EXCEPT ![o] = [item EXCEPT !.state = "uncertain"]]
     /\ UNCHANGED out

\* An occurrence of the snapshot: an open one is submitted (again), a submitted one
\* closed when its task is over.
Visit(o, seen) ==
  /\ Take("occurrences", <<o, seen>>)
  /\ IF seen.state \in Open
     THEN Dispatch(o, seen) /\ cur' = o /\ UNCHANGED out
     ELSE Close(o, seen) /\ UNCHANGED <<dispatch, receipt, cur>>
  /\ UNCHANGED <<plan, task, reached, try, fired>>

Visited ==
  /\ at = "occurrences" /\ cur # Null /\ dispatch[cur] = "idle"
  /\ cur' = Null
  /\ Close(cur, occ[cur])
  /\ UNCHANGED <<now, acts, restarts, plan, receipt, task, dispatch, revoking, at, todo,
                 try, reached, fired>>

\* Mutant of Interrupted: a native message that was being sent is sent again.
InterruptedNever(o, seen) == FALSE

\* A native message that was being sent when the process died.
Interrupted(o, seen) == seen.state = "sending" /\ TargetOf(o) = "native"

Attempt(seen) == seen.tries + 1

\* A delivery of the snapshot is sent, as the snapshot has it.
Send(o, seen) ==
  /\ Take("outbox", <<o, seen>>)
  /\ IF Interrupted(o, seen)
     THEN out' = [out EXCEPT ![o] = [seen EXCEPT !.state = "failed"]] /\ UNCHANGED <<cur, try>>
     ELSE /\ out' = [out EXCEPT ![o] = [state |-> "sending", tries |-> Attempt(seen)]]
          /\ cur' = o /\ try' = Attempt(seen)
  /\ UNCHANGED <<plan, occ, receipt, task, dispatch, reached, fired>>

\* Its next attempt is later.
NotDue(o, seen) ==
  /\ Take("outbox", <<o, seen>>)
  /\ seen.state = "pending" /\ seen.tries > 0
  /\ UNCHANGED <<plan, occ, receipt, task, dispatch, deliveries, cur, try, fired>>

\* What a receiver, or the way to it, may answer; a native message whose answer is
\* lost may have arrived.
Results(o) ==
  {"ok", "refused", "again"} \cup IF TargetOf(o) = "native" THEN {"lost"} ELSE {}

After(answer, tries) ==
  CASE answer = "ok" -> "delivered"
    [] answer = "again" /\ tries < MaxTries -> "pending"
    [] OTHER -> "failed"

\* The delivery is over.  When its record cannot be written, the handler of errors
\* writes it as a failed attempt; when that fails too, the tick stops.
Sent ==
  /\ at = "outbox" /\ cur # Null
  /\ \E answer \in Results(cur), written \in {"first", "second", "never"} :
       LET record == IF written = "first" THEN answer ELSE "again" IN
       /\ written # "first" => Faults /\ out[cur].state # "cancelled"
       /\ written = "second" => answer # "lost"
       /\ written = "never" => try <= MaxTries  \* bound
       /\ out' = IF out[cur].state = "cancelled" \/ written = "never" THEN out
                 ELSE [out EXCEPT ![cur] = [state |-> After(record, try), tries |-> try]]
       /\ reached' = IF answer \in {"ok", "lost"} /\ out[cur].state = "sending"
                     THEN reached \cup {cur} ELSE reached
       /\ IF written = "never" THEN TickStops
          ELSE cur' = Null /\ try' = 0 /\ UNCHANGED <<at, todo>>
  /\ UNCHANGED <<now, acts, restarts, plan, occurrences, fired>>

-----------------------------------------------------------------------------
(* Users, time, crashes.                                                   *)

Act == acts < MaxActs /\ acts' = acts + 1

SetEnabled(p) ==
  /\ Act /\ plan[p].there
  /\ \/ plan' = [plan EXCEPT ![p].enabled = FALSE]
     \/ /\ NextTime(p, now) # Null
        /\ plan' = [plan EXCEPT ![p].enabled = TRUE, ![p].next = NextTime(p, now)]
  /\ UNCHANGED <<now, restarts, occurrences, deliveries, ticking, fired>>

Remove(p) ==
  /\ Act /\ plan[p].there
  /\ plan' = [plan EXCEPT ![p].there = FALSE]
  /\ UNCHANGED <<now, restarts, occurrences, deliveries, ticking, fired>>

\* deliveryAction.
Retry(o) ==
  /\ Act /\ out[o].state \in {"pending", "failed", "cancelled"}
  /\ out' = [out EXCEPT ![o] = [state |-> "pending", tries |-> 0]]
  /\ reached' = reached \ {o}
  /\ UNCHANGED <<now, restarts, plan, occurrences, ticking, fired>>

Stop(o) ==
  /\ Act /\ out[o].state \in {"pending", "sending", "failed"}
  /\ out' = [out EXCEPT ![o].state = "cancelled"]
  /\ UNCHANGED <<now, restarts, plan, occurrences, reached, ticking, fired>>

Advance ==
  /\ now < MaxTime /\ now' = now + 1
  /\ UNCHANGED <<acts, restarts, plan, occurrences, deliveries, ticking, fired>>

\* Occurrences a step of the program is about to record for the first time.
Firing ==
  {e \in Events : occ[e] = NoOcc} \cup
  {o \in Scheduled : /\ occ[o] = NoOcc /\ at = "plans" /\ cur = Null /\ o[2] <= now
                     /\ \E x \in todo : x[1] = o[1] /\ x[2].enabled /\ x[2].next = o[2]}

\* The process dies and starts again, possibly between the first and the second
\* write of a step.
Crash ==
  /\ restarts < MaxRestarts /\ restarts' = restarts + 1
  /\ \/ UNCHANGED <<occ, out>>
     \/ \E o \in Firing : occ' = [occ EXCEPT ![o] = Pending] /\ UNCHANGED out
     \/ /\ at = "occurrences"
        /\ \E x \in IF cur = Null THEN todo ELSE {<<cur, occ[cur]>>} :
             Closable(x[1], x[2]) /\ FirstWrite(x[1], x[2])
  /\ reached' = IF at = "outbox" /\ cur # Null
                THEN reached \cup {o \in {cur} : out[o].state = "sending"} ELSE reached
  /\ task' = [o \in Occs |-> IF task[o] = "live" THEN "INTERRUPTED" ELSE task[o]]
  /\ dispatch' = [o \in Occs |-> "idle"] /\ revoking' = {}
  /\ TickStops
  /\ UNCHANGED <<now, acts, plan, receipt, fired>>

-----------------------------------------------------------------------------
Init ==
  /\ now = 0 /\ acts = 0 /\ restarts = 0
  /\ plan = [p \in Plans |-> [there |-> TRUE, enabled |-> TRUE, next |-> NextTime(p, 0)]]
  /\ occ = [o \in Occs |-> NoOcc] /\ receipt = [o \in Occs |-> "absent"]
  /\ task = [o \in Occs |-> "none"] /\ dispatch = [o \in Occs |-> "idle"]
  /\ revoking = {}
  /\ out = [o \in Occs |-> NoOut] /\ reached = {}
  /\ at = "idle" /\ todo = {} /\ cur = Null /\ try = 0
  /\ fired = [p \in Plans |-> Null]

TickStep ==
  \/ Tick \/ Fired \/ Visited \/ Sent
  \/ \E x \in todo : Fire(x[1], x[2]) \/ Visit(x[1], x[2]) \/ Send(x[1], x[2]) \/ NotDue(x[1], x[2])

\* Handlers run one at a time: others only get in where the tick really waits.
Yielded == at = "idle" \/ (cur # Null /\ (at = "outbox" \/ dispatch[cur] # "idle"))

Continue(o) == Yielded /\ (Answer(o) \/ Revoke(o) \/ Cancelled(o))

Next ==
  \/ TickStep
  \/ \E o \in Occs :
       \/ Continue(o)
       \/ Yielded /\ (Receive(o) \/ CancelOccurrence(o) \/ TaskEnds(o) \/ Retry(o) \/ Stop(o))
  \/ Yielded /\ \E p \in Plans : SetEnabled(p) \/ Remove(p)
  \/ Advance \/ Crash

Spec == Init /\ [][Next]_vars

\* The timer fires every second, and between two ticks the event loop runs whatever
\* continuation is ready; a delivery is due again after a day at the latest, so it is
\* not passed over for ever.
FairSpec ==
  /\ Spec /\ WF_vars(TickStep)
  /\ \A o \in Occs : /\ SF_vars(Continue(o))
                     /\ SF_vars(\E x \in todo : x[1] = o /\ Send(o, x[2]))

-----------------------------------------------------------------------------
(* Properties.                                                             *)

\* An attempt whose end was not recorded, for a crash or a failing disk, is not counted
\* against the limit until the next one ends.
MostTries == MaxTries + MaxRestarts + (IF Faults THEN 2 ELSE 0)

\* Every variable has its type, and the attempts of a delivery their limit; the tick
\* waits for an occurrence only in the middle of a phase.
TypeOK ==
  /\ now \in 0..MaxTime /\ acts \in 0..MaxActs /\ restarts \in 0..MaxRestarts
  /\ plan \in [Plans -> [there : BOOLEAN, enabled : BOOLEAN, next : Nat \cup {Null}]]
  /\ occ \in [Occs -> [state : {"none", "pending", "submitting", "submitted", "uncertain",
                                "completed", "failed", "cancelled"}, named : BOOLEAN]]
  /\ receipt \in [Occs -> {"absent", "creating", "submitted", "failed"}]
  /\ task \in [Occs -> {"none", "live", "SUCCEEDED", "FAILED", "CANCELLED", "INTERRUPTED"}]
  /\ dispatch \in [Occs -> {"idle", "creating", "known", "revoking"}]
  /\ revoking \subseteq Occs /\ reached \subseteq Occs
  /\ out \in [Occs -> [state : {"none", "pending", "sending", "delivered", "failed",
                                "cancelled"}, tries : 0..MostTries]]
  /\ at \in {"idle", "plans", "occurrences", "outbox"}
  /\ cur \in Occs \cup {Null} /\ (cur # Null => at # "idle")
  /\ try \in 0..MostTries /\ fired \in [Plans -> Nat \cup {Null}]

\* However often an event comes, whoever submits its occurrence and whenever the
\* process dies: it creates one task.
OneTaskPerOccurrence ==
  [][\A o \in Occs : task[o] \notin {"none", "live"} => task'[o] # "live"]_vars

\* An occurrence that is shown as cancelled, and not being worked on, has no task
\* that runs.
CancelledIsOver ==
  \A o \in Occs :
    occ[o].state = "cancelled" /\ dispatch[o] = "idle" /\ o \notin revoking => task[o] # "live"

\* The result of an occurrence that was closed is in the outbox, crashes or not.
ClosedIsFiled ==
  \A o \in Occs :
    occ[o].state \in {"completed", "failed"} /\ TargetOf(o) # "nowhere" => out[o] # NoOut

\* The records of automation.ts agree through crashes and failing writes: attempts
\* are counted to their limit, and what is closed has its delivery.
Safe == TypeOK /\ ClosedIsFiled

\* After a stop only the first missed time of a plan is made up for: whatever fires
\* next is later than the catching up.
CatchUpOnce ==
  [][\A o \in Scheduled : occ[o] = NoOcc /\ occ'[o] # NoOcc =>
       fired[o[1]] = Null \/ o[2] > fired[o[1]]]_vars

\* A native message that may have arrived is not sent again unless a user says so.
NativeNotRepeated ==
  [][\A o \in Occs :
       TargetOf(o) = "native" /\ out'[o] # out[o] /\ out'[o].state = "sending"
         => o \notin reached]_vars

\* A plan that is paused or removed does not fire.
PausedDoesNotFire ==
  [][\A o \in Scheduled : occ[o] = NoOcc /\ occ'[o] # NoOcc =>
       plan[o[1]].there /\ plan[o[1]].enabled]_vars

\* A delivery that was cancelled is not sent.
CancelledNotSent ==
  [][\A o \in Occs : out[o].state = "cancelled" => out'[o].state # "sending"]_vars

\* An occurrence that was recorded is submitted, or told to be uncertain.
OccurrenceSettles == \A o \in Occs : occ[o].state \in Open ~> occ[o].state \notin Open

\* A delivery ends: delivered, failed or cancelled.
DeliveryEnds ==
  \A o \in Occs : out[o].state \in {"pending", "sending"} ~>
                  out[o].state \in {"delivered", "failed", "cancelled"}

Due(p) == plan[p].there /\ plan[p].enabled /\ plan[p].next # Null /\ plan[p].next <= now

\* A plan that is due fires.
DuePlanFires == \A p \in Plans : Due(p) ~> ~Due(p)

\* What the tick has begun it ends, and what is due it begins.
EverythingSettles == OccurrenceSettles /\ DeliveryEnds /\ DuePlanFires
=============================================================================
