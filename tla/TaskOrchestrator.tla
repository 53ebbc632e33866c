-------------------------- MODULE TaskOrchestrator --------------------------
(***************************************************************************)
(* The task orchestrator, its two on-disk streams and the driver that runs *)
(* tasks.  Every action is one block the event loop runs to completion:    *)
(* the code between two awaits.  What may run in between is another action.*)
(*                                                                         *)
(* A task has up to five activities in flight: the driver (submit, then    *)
(* run, then close), the runner's before_tool hook, the listener the       *)
(* orchestrator attached to the runner (events reach it one at a time), a  *)
(* cancel request and a confirm request.                                   *)
(***************************************************************************)
EXTENDS Naturals, FiniteSets, TaskStatus

CONSTANTS
  Tasks,         \* task ids
  MaxEvents,     \* bound: the environment starts nothing new at this seq
  MaxRestarts,   \* bound: how often the process may die
  DiskFaults,    \* TRUE: a change-stream or action write may fail
  EventFaults,   \* TRUE: an event-stream write may fail (disk full, ...)
  EarlyConfirm   \* TRUE: a confirm may arrive before await_confirm is handled

ASSUME OrchestratorAssumption ==
  /\ MaxEvents \in Nat
  /\ MaxRestarts \in Nat
  /\ {DiskFaults, EventFaults, EarlyConfirm} \subseteq BOOLEAN

VARIABLES
  up,        \* the process is running and has finished recover()
  restarts,  \* number of crashes so far
  \* memory of the process
  status,    \* status in the tasks map, "NONE" when the map has no entry
  cursor,    \* seqCursor
  log,       \* eventLog, as a set: seq orders it
  runner,    \* the runners map holds an open runner
  act,       \* the runner's current confirmation
  stop,      \* how far Runner.abort got
  driver, tool, listener, canceller, confirmer,  \* where each activity waits
  \* disk
  changes,   \* tasks/<id>.jsonl
  events,    \* events/<id>.jsonl
  \* a client of the task's event stream
  linked,    \* the client is connected
  seen       \* events it has received, across restarts (history)

disk  == <<changes, events>>
phase == <<driver, tool, listener, canceller, confirmer>>
vars  == <<up, restarts, status, cursor, log, runner, act, stop, phase,
           disk, linked, seen>>

Kinds  == {"status", "await_confirm", "artifact", "other"}
Event  == [seq : Nat, kind : Kinds, to : StatusOrNone]
Change == [seq : Nat, to : Status]
NoTurn == [at |-> "idle", seq |-> 0]

-----------------------------------------------------------------------------
(* Disk streams.                                                           *)

\* The current status on disk is the change with the greatest seq.
Fold(rows) ==
  IF rows = {} THEN "NONE"
  ELSE (CHOOSE r \in rows : \A x \in rows : x.seq <= r.seq).to

LastSeq(rows) ==
  IF rows = {} THEN 0
  ELSE (CHOOSE r \in rows : \A x \in rows : x.seq <= r.seq).seq

\* A write that reports an error may still leave a readable line behind (a
\* short write that lost only its newline; create() failing after its append).
WriteChange == IF DiskFaults THEN {"ok", "lost", "kept"} ELSE {"ok"}
WriteEvent  == IF EventFaults THEN {"ok", "lost"} ELSE {"ok"}

Written(rows, row, w) == IF w = "lost" THEN rows ELSE rows \cup {row}

\* What the client holds after the set evs is published.
Published(t, evs) ==
  seen' = [seen EXCEPT ![t] = IF linked[t] THEN @ \cup evs ELSE @]

StatusEvent(n, s) == [seq |-> n, kind |-> "status", to |-> s]

-----------------------------------------------------------------------------
(* ingest and transition.                                                  *)

\* Mutant of Deliver: the event keeps the runner's own numbering, from 1.
DeliverUnstamped(t, kind, to) ==
  LET ev == [seq |-> 1, kind |-> kind, to |-> to] IN
  /\ log'    = [log EXCEPT ![t] = @ \cup {ev}]
  /\ events' = [events EXCEPT ![t] = @ \cup {ev}]
  /\ Published(t, {ev})
  /\ UNCHANGED <<up, cursor>>

\* Mutant of Deliver: the event is logged but its fanout is skipped.
DeliverSilent(t, kind, to) ==
  LET ev == [seq |-> cursor[t] + 1, kind |-> kind, to |-> to] IN
  /\ cursor' = [cursor EXCEPT ![t] = @ + 1]
  /\ log'    = [log EXCEPT ![t] = @ \cup {ev}]
  /\ events' = [events EXCEPT ![t] = @ \cup {ev}]
  /\ UNCHANGED <<up, seen>>

\* ingest() and the first subscriber of fanout() run in one block, so a
\* non-status event is logged, stored (best effort) and delivered at once.
Deliver(t, kind, to) ==
  \E e \in WriteEvent :
    LET ev == [seq |-> cursor[t] + 1, kind |-> kind, to |-> to] IN
    /\ cursor' = [cursor EXCEPT ![t] = @ + 1]
    /\ log'    = [log EXCEPT ![t] = @ \cup {ev}]
    /\ events' = [events EXCEPT ![t] = Written(@, ev, e)]
    /\ Published(t, {ev})
    /\ UNCHANGED up

\* Mutant of MoveStored: the change carries the record read before the update.
MoveStoredStale(t, to) ==
  LET ev == StatusEvent(cursor[t] + 1, to) IN
  /\ status'  = [status EXCEPT ![t] = to]
  /\ cursor'  = [cursor EXCEPT ![t] = @ + 1]
  /\ log'     = [log EXCEPT ![t] = @ \cup {ev}]
  /\ changes' = [changes EXCEPT ![t] = @ \cup {[seq |-> ev.seq, to |-> status[t]]}]
  /\ events'  = [events EXCEPT ![t] = @ \cup {ev}]
  /\ Published(t, {ev})
  /\ UNCHANGED up

\* transition() whose change reached the disk.
MoveStored(t, to) ==
  \E e \in WriteEvent :
    LET ev == StatusEvent(cursor[t] + 1, to) IN
    /\ status'  = [status EXCEPT ![t] = to]
    /\ cursor'  = [cursor EXCEPT ![t] = @ + 1]
    /\ log'     = [log EXCEPT ![t] = @ \cup {ev}]
    /\ changes' = [changes EXCEPT ![t] = @ \cup {[seq |-> ev.seq, to |-> to]}]
    /\ events'  = [events EXCEPT ![t] = Written(@, ev, e)]
    /\ Published(t, {ev})
    /\ UNCHANGED up

\* Mutant of MoveFailed: the error is reported, the status kept.
MoveFailedKept(t, to) ==
  /\ WriteChange # {"ok"}
  /\ status' = [status EXCEPT ![t] = to]
  /\ cursor' = [cursor EXCEPT ![t] = @ + 1]
  /\ log'    = [log EXCEPT ![t] = @ \cup {StatusEvent(cursor[t] + 1, to)}]
  /\ UNCHANGED <<up, disk, seen>>

\* transition() whose change write failed: the first event stays in the memory
\* log, undelivered; the task becomes FAILED and a second event, stored as far
\* as the disk lets it, says so.
MoveFailed(t, to) ==
  \E w \in WriteChange \ {"ok"}, w2 \in WriteChange, e \in WriteEvent :
    LET ev1 == StatusEvent(cursor[t] + 1, to)
        ev2 == StatusEvent(cursor[t] + 2, "FAILED")
    IN /\ status'  = [status EXCEPT ![t] = "FAILED"]
       /\ cursor'  = [cursor EXCEPT ![t] = @ + 2]
       /\ log'     = [log EXCEPT ![t] = @ \cup {ev1, ev2}]
       /\ changes' = [changes EXCEPT ![t] =
                        Written(Written(@, [seq |-> ev1.seq, to |-> to], w),
                                [seq |-> ev2.seq, to |-> "FAILED"], w2)]
       /\ events'  = [events EXCEPT ![t] = Written(@, ev2, e)]
       /\ Published(t, {ev2})
       /\ UNCHANGED up

\* The process is killed between the change write and the event write.
MoveCut(t, to) ==
  /\ restarts < MaxRestarts
  /\ up' = FALSE
  /\ changes' = [changes EXCEPT ![t] =
                   @ \cup {[seq |-> cursor[t] + 1, to |-> to]}]
  /\ UNCHANGED <<status, cursor, log, events, seen>>

Move(t, to) == MoveStored(t, to) \/ MoveCut(t, to)

Unmoved == UNCHANGED <<up, status, cursor, log, changes, events, seen>>

\* Moves if the table allows it; otherwise the transition throws (or is the
\* idempotent repeat) and nothing changes.
MoveIfLegal(t, to) ==
  IF CanTransition(status[t], to) THEN Move(t, to) \/ MoveFailed(t, to)
                                  ELSE Unmoved

-----------------------------------------------------------------------------
(* The driver: submit(), run() and the close that follows.                 *)

DriverPhases == {"idle", "creating", "refused", "queued", "preparing",
                 "prompting", "closing", "done"}

\* main.ts keeps a task in runningTasks from submit's return to the finally.
RunningTask(t) == driver[t] \in {"queued", "preparing", "prompting", "closing"}

Room(t) == cursor[t] < MaxEvents

\* Task ids are random and never handed out twice.
Fresh(t) == status[t] = "NONE" /\ changes[t] \cup events[t] \cup seen[t] = {}

\* submit(): the record enters the map first; a failed first write throws and
\* leaves it there.
Submit(t) ==
  /\ up /\ driver[t] = "idle" /\ Fresh(t)
  /\ \/ MoveStored(t, "QUEUED") /\ driver' = [driver EXCEPT ![t] = "creating"]
     \/ MoveCut(t, "QUEUED") /\ UNCHANGED driver
     \/ \E w \in WriteChange \ {"ok"} :
          LET ev == StatusEvent(cursor[t] + 1, "QUEUED") IN
          /\ status'  = [status EXCEPT ![t] = "QUEUED"]
          /\ cursor'  = [cursor EXCEPT ![t] = @ + 1]
          /\ log'     = [log EXCEPT ![t] = @ \cup {ev}]
          /\ changes' = [changes EXCEPT ![t] =
                           Written(@, [seq |-> ev.seq, to |-> "QUEUED"], w)]
          /\ driver'  = [driver EXCEPT ![t] = "refused"]
          /\ UNCHANGED <<up, events, seen>>
  /\ UNCHANGED <<restarts, linked, runner, act, stop, tool, listener, canceller,
                 confirmer>>

\* createRunner resolves: the runner joins the map, its events get a listener.
CreateRunner(t) ==
  /\ up /\ driver[t] = "creating"
  /\ runner' = [runner EXCEPT ![t] = TRUE]
  /\ driver' = [driver EXCEPT ![t] = "queued"]
  /\ Unmoved
  /\ UNCHANGED <<restarts, linked, act, stop, tool, listener, canceller, confirmer>>

\* createRunner rejects: the compensation moves the task to FAILED.
CreateRunnerFails(t) ==
  /\ up /\ driver[t] = "creating"
  /\ MoveIfLegal(t, "FAILED")
  /\ driver' = [driver EXCEPT ![t] = "refused"]
  /\ UNCHANGED <<restarts, linked, runner, act, stop, tool, listener, canceller,
                 confirmer>>

\* The queue gives the task a slot: a task cancelled meanwhile is skipped,
\* any other moves to RUNNING and runner.prompt is called.
Run(t) ==
  /\ up /\ driver[t] = "queued"
  /\ \/ /\ status[t] \in Terminal
        /\ Unmoved
        /\ driver' = [driver EXCEPT ![t] = "closing"]
     \/ /\ CanTransition(status[t], "RUNNING")
        /\ \/ Move(t, "RUNNING")
              /\ driver' = [driver EXCEPT ![t] = "preparing"]
           \/ MoveFailed(t, "RUNNING")
              /\ driver' = [driver EXCEPT ![t] = "closing"]
  /\ UNCHANGED <<restarts, linked, runner, act, stop, tool, listener, canceller,
                 confirmer>>

\* Lifecycle hooks and the quota preflight are over: lane.prompt starts.
StartLane(t) ==
  /\ up /\ driver[t] = "preparing" /\ listener[t] = NoTurn
  /\ driver' = [driver EXCEPT ![t] = "prompting"]
  /\ Unmoved
  /\ UNCHANGED <<restarts, linked, runner, act, stop, tool, listener, canceller,
                 confirmer>>

\* Mutant of PromptReturns: a resolved prompt is a success, whatever happened.
PromptReturnsBlind(t) ==
  /\ up /\ driver[t] = "prompting" /\ tool[t] = "idle" /\ listener[t] = NoTurn
  /\ Move(t, "SUCCEEDED")
  /\ driver' = [driver EXCEPT ![t] = "closing"]
  /\ UNCHANGED <<restarts, linked, runner, act, stop, tool, listener, canceller,
                 confirmer>>

\* runner.prompt resolves; only a task still RUNNING becomes SUCCEEDED.
PromptReturns(t) ==
  /\ up /\ driver[t] = "prompting" /\ tool[t] = "idle" /\ listener[t] = NoTurn
  /\ IF status[t] = "RUNNING" THEN MoveIfLegal(t, "SUCCEEDED") ELSE Unmoved
  /\ driver' = [driver EXCEPT ![t] = "closing"]
  /\ UNCHANGED <<restarts, linked, runner, act, stop, tool, listener, canceller,
                 confirmer>>

\* runner.prompt rejects (preflight refusal, model failure, refused action).
PromptThrows(t) ==
  /\ up /\ driver[t] \in {"preparing", "prompting"}
  /\ tool[t] \in {"idle", "failed"} /\ listener[t] = NoTurn
  /\ IF status[t] \in Terminal \cup {"EXCEEDED", "INTERRUPTED"}
     THEN Unmoved ELSE MoveIfLegal(t, "FAILED")
  /\ driver' = [driver EXCEPT ![t] = "closing"]
  /\ UNCHANGED <<restarts, linked, runner, act, stop, tool, listener, canceller,
                 confirmer>>

Closable(t) == status[t] \in Terminal \cup {"EXCEEDED", "INTERRUPTED"}

\* Mutant of DriverClose: the finished task's runner is forgotten.
DriverCloseLeaks(t) ==
  /\ up /\ driver[t] = "closing"
  /\ driver' = [driver EXCEPT ![t] = "done"]
  /\ Unmoved
  /\ UNCHANGED <<restarts, linked, runner, act, stop, tool, listener, canceller,
                 confirmer>>

\* The finally of the background run: closeFinishedTask drops the runner.
DriverClose(t) ==
  /\ up /\ driver[t] = "closing"
  /\ driver' = [driver EXCEPT ![t] = "done"]
  /\ runner' = [runner EXCEPT ![t] = @ /\ ~Closable(t)]
  /\ Unmoved
  /\ UNCHANGED <<restarts, linked, act, stop, tool, listener, canceller, confirmer>>

-----------------------------------------------------------------------------
(* The runner: its before_tool hook and the events it emits.               *)

\* A tool call needs approval.  After abort began, the request is refused at
\* once; an aborted lane starts no tool.
RequestConfirm(t) ==
  /\ up /\ driver[t] = "prompting" /\ tool[t] = "idle" /\ Room(t)
  /\ stop[t] # "aborted" /\ confirmer[t] = "idle"
  /\ act'  = [act EXCEPT ![t] = IF stop[t] = "no" THEN "pending" ELSE "refused"]
  /\ tool' = [tool EXCEPT ![t] = "announcing"]
  /\ Unmoved
  /\ UNCHANGED <<restarts, linked, runner, stop, driver, listener, canceller, confirmer>>

\* The listener receives await_confirm: logged and fanned out first.
Announce(t) ==
  /\ up /\ tool[t] = "announcing" /\ listener[t] = NoTurn
  /\ Deliver(t, "await_confirm", "NONE")
  /\ listener' = [listener EXCEPT ![t] = [at |-> "await", seq |-> cursor[t] + 1]]
  /\ tool' = [tool EXCEPT ![t] = "announced"]
  /\ UNCHANGED <<restarts, linked, status, changes, runner, act, stop, driver,
                 canceller, confirmer>>

\* Then the derived transition; when it throws, the runner's publish swallows
\* the error.  The hook goes on to wait for the decision.
ListenAwait(t) ==
  /\ up /\ listener[t].at = "await"
  /\ MoveIfLegal(t, "AWAIT_CONFIRM")
  /\ listener' = [listener EXCEPT ![t] = NoTurn]
  /\ tool' = [tool EXCEPT ![t] = "waiting"]
  /\ UNCHANGED <<restarts, linked, runner, act, stop, driver, canceller, confirmer>>

\* The decision: approved runs the tool, anything else blocks it and marks the
\* run as failed.
ToolDecision(t) ==
  /\ up /\ tool[t] = "waiting" /\ act[t] \in {"approved", "refused"}
  /\ tool' = [tool EXCEPT ![t] = IF act[t] = "approved" THEN "idle" ELSE "failed"]
  /\ Unmoved
  /\ UNCHANGED <<restarts, linked, runner, act, stop, driver, listener, canceller,
                 confirmer>>

\* The approval timer.
Expire(t) ==
  /\ up /\ act[t] = "pending" /\ runner[t]
  /\ act' = [act EXCEPT ![t] = "refused"]
  /\ Unmoved
  /\ UNCHANGED <<restarts, linked, runner, stop, phase>>

\* Any other runner event: steps, usage, user messages (steer), artifacts.
Emit(t) ==
  /\ up /\ runner[t] /\ driver[t] \in {"queued", "preparing", "prompting"}
  /\ listener[t] = NoTurn /\ Room(t)
  /\ \E kind \in {"artifact", "other"} :
       /\ Deliver(t, kind, "NONE")
       /\ listener' = IF kind = "other" THEN listener
                      ELSE [listener EXCEPT ![t] =
                              [at |-> "artifact", seq |-> cursor[t] + 1]]
  /\ UNCHANGED <<restarts, linked, status, changes, runner, act, stop, driver, tool,
                 canceller, confirmer>>

\* After the fanout of an artifact, its change is stored (best effort) under
\* the event's seq, with the status of this later moment.
ListenArtifact(t) ==
  /\ up /\ listener[t].at = "artifact"
  /\ \E w \in WriteChange :
       changes' = [changes EXCEPT ![t] =
         Written(@, [seq |-> listener[t].seq, to |-> status[t]], w)]
  /\ listener' = [listener EXCEPT ![t] = NoTurn]
  /\ UNCHANGED <<up, restarts, linked, status, cursor, log, runner, act, stop,
                 driver, tool, canceller, confirmer, events, seen>>

-----------------------------------------------------------------------------
(* Requests: cancel (reject is the same) and confirm.                      *)

\* cancel(): CANCELLED first, the runner's abort afterwards.  A transition that
\* throws skips the abort.
Cancel(t) ==
  /\ up /\ canceller[t] = "idle" /\ Room(t)
  /\ \/ /\ status[t] = "CANCELLED" /\ runner[t]
        /\ Unmoved
        /\ canceller' = [canceller EXCEPT ![t] = "aborting"]
     \/ /\ CanTransition(status[t], "CANCELLED")
        /\ \/ Move(t, "CANCELLED")
              /\ canceller' = [canceller EXCEPT ![t] = "aborting"]
           \/ MoveFailed(t, "CANCELLED")
              /\ canceller' = [canceller EXCEPT ![t] = "closing"]
  /\ UNCHANGED <<restarts, linked, runner, act, stop, driver, tool, listener, confirmer>>

\* Runner.abort: pending confirmations are refused, then the lane is aborted.
\* lane.abort finds nothing to abort unless a lane run is active, and it is not
\* reached when saving a refused confirmation fails.
Abort(t) ==
  /\ up /\ canceller[t] = "aborting"
  /\ IF ~runner[t]
     THEN /\ canceller' = [canceller EXCEPT ![t] = "closing"]
          /\ UNCHANGED <<act, stop>>
     ELSE /\ act' = [act EXCEPT ![t] = IF @ = "pending" THEN "refused" ELSE @]
          /\ \/ /\ stop' = [stop EXCEPT ![t] =
                     IF driver[t] = "prompting" THEN "aborted"
                     ELSE IF @ = "no" THEN "refusing" ELSE @]
                /\ canceller' = [canceller EXCEPT ![t] = "announcing"]
             \/ /\ DiskFaults /\ act[t] = "pending"
                /\ stop' = [stop EXCEPT ![t] = IF @ = "no" THEN "refusing" ELSE @]
                /\ canceller' = [canceller EXCEPT ![t] = "closing"]
  /\ Unmoved
  /\ UNCHANGED <<restarts, linked, runner, driver, tool, listener, confirmer>>

\* abort's own status event (from null) passes through the listener: the store
\* already knows the task, so only log, event stream and clients get it.
AnnounceCancel(t) ==
  /\ up /\ canceller[t] = "announcing" /\ listener[t] = NoTurn
  /\ IF runner[t] THEN Deliver(t, "status", "CANCELLED")
     ELSE UNCHANGED <<up, cursor, log, events, seen>>
  /\ canceller' = [canceller EXCEPT ![t] = "closing"]
  /\ UNCHANGED <<restarts, linked, status, changes, runner, act, stop, driver, tool,
                 listener, confirmer>>

\* The finally of the cancel route.
CloseAfterCancel(t) ==
  /\ up /\ canceller[t] = "closing"
  /\ canceller' = [canceller EXCEPT ![t] = "idle"]
  /\ runner' = [runner EXCEPT ![t] = @ /\ (RunningTask(t) \/ ~Closable(t))]
  /\ Unmoved
  /\ UNCHANGED <<restarts, linked, act, stop, driver, tool, listener, confirmer>>

\* confirm(): back to RUNNING (already RUNNING is the idempotent case), then
\* the action is approved.
Confirm(t) ==
  /\ up /\ runner[t] /\ act[t] = "pending" /\ confirmer[t] = "idle"
  /\ EarlyConfirm \/ tool[t] = "waiting"
  /\ \/ /\ status[t] = "RUNNING" /\ Unmoved
        /\ confirmer' = [confirmer EXCEPT ![t] = "approving"]
     \/ /\ CanTransition(status[t], "RUNNING")
        /\ \/ Move(t, "RUNNING")
              /\ confirmer' = [confirmer EXCEPT ![t] = "approving"]
           \/ MoveFailed(t, "RUNNING") /\ UNCHANGED confirmer
  /\ UNCHANGED <<restarts, linked, runner, act, stop, driver, tool, listener, canceller>>

\* runner.confirmAction: an action that is no longer pending, or one whose
\* approval cannot be saved, is refused and the task fails.
Approve(t) ==
  /\ up /\ confirmer[t] = "approving"
  /\ confirmer' = [confirmer EXCEPT ![t] = "idle"]
  /\ \/ act[t] = "approved" /\ Unmoved /\ UNCHANGED act
     \/ /\ act[t] = "pending" /\ Unmoved
        /\ act' = [act EXCEPT ![t] = "approved"]
     \/ /\ act[t] = "refused" \/ (act[t] = "pending" /\ DiskFaults)
        /\ MoveIfLegal(t, "FAILED")
        /\ act' = [act EXCEPT ![t] = "refused"]
  /\ UNCHANGED <<restarts, linked, runner, stop, driver, tool, listener, canceller>>

-----------------------------------------------------------------------------
(* Crash, restart, and a client that reconnects.                           *)

ClearedPhases ==
  /\ driver'    = [t \in Tasks |-> "idle"]
  /\ tool'      = [t \in Tasks |-> "idle"]
  /\ listener'  = [t \in Tasks |-> NoTurn]
  /\ canceller' = [t \in Tasks |-> "idle"]
  /\ confirmer' = [t \in Tasks |-> "idle"]

Crash ==
  /\ up /\ restarts < MaxRestarts
  /\ up' = FALSE
  /\ UNCHANGED <<restarts, linked, status, cursor, log, runner, act, stop, phase, disk,
                 seen>>

\* recover(): one synchronous pass over listAll().  L and E are the tasks whose
\* INTERRUPTED change or event could not be stored (both writes best effort).
Recover ==
  /\ ~up
  /\ up' = TRUE
  /\ restarts' = restarts + 1
  /\ \E L \in SUBSET (IF DiskFaults THEN Tasks ELSE {}),
        E \in SUBSET (IF EventFaults THEN Tasks ELSE {}) :
       LET stored(t) == Fold(changes[t])
           cut(t)    == stored(t) \notin Settled \cup {"NONE"}
           last(t)   == IF LastSeq(changes[t]) > LastSeq(events[t])
                        THEN LastSeq(changes[t]) ELSE LastSeq(events[t])
           ev(t)     == StatusEvent(last(t) + 1, "INTERRUPTED")
           history(t) == IF stored(t) = "NONE" THEN {} ELSE events[t]
       IN /\ status' = [t \in Tasks |-> IF cut(t) THEN "INTERRUPTED" ELSE stored(t)]
          /\ cursor' = [t \in Tasks |-> IF cut(t) THEN last(t) + 1
                                        ELSE IF stored(t) = "NONE" THEN 0
                                        ELSE last(t)]
          /\ log' = [t \in Tasks |-> history(t) \cup (IF cut(t) THEN {ev(t)} ELSE {})]
          /\ changes' = [t \in Tasks |-> changes[t] \cup
               (IF cut(t) /\ t \notin L
                THEN {[seq |-> last(t) + 1, to |-> "INTERRUPTED"]} ELSE {})]
          /\ events' = [t \in Tasks |-> events[t] \cup
               (IF cut(t) /\ t \notin E THEN {ev(t)} ELSE {})]
  /\ runner' = [t \in Tasks |-> FALSE]
  /\ act'    = [t \in Tasks |-> "none"]
  /\ stop'   = [t \in Tasks |-> "no"]
  /\ ClearedPhases
  /\ linked' = [t \in Tasks |-> FALSE]
  /\ UNCHANGED seen

\* A client reconnects with its last seq: it is subscribed and sent
\* events(afterSeq) in one block.
Anchor(t) == LastSeq(seen[t])
Connect(t) ==
  /\ up /\ ~linked[t]
  /\ linked' = [linked EXCEPT ![t] = TRUE]
  /\ seen' = [seen EXCEPT ![t] = @ \cup {e \in log[t] : e.seq > Anchor(t)}]
  /\ UNCHANGED <<up, restarts, status, cursor, log, runner, act, stop, phase,
                 disk>>

Disconnect(t) ==
  /\ linked[t]
  /\ linked' = [linked EXCEPT ![t] = FALSE]
  /\ UNCHANGED <<up, restarts, status, cursor, log, runner, act, stop, phase,
                 disk, seen>>

-----------------------------------------------------------------------------
Init ==
  /\ up = TRUE
  /\ restarts = 0
  /\ status = [t \in Tasks |-> "NONE"]
  /\ cursor = [t \in Tasks |-> 0]
  /\ log = [t \in Tasks |-> {}]
  /\ runner = [t \in Tasks |-> FALSE]
  /\ act = [t \in Tasks |-> "none"]
  /\ stop = [t \in Tasks |-> "no"]
  /\ driver = [t \in Tasks |-> "idle"]
  /\ tool = [t \in Tasks |-> "idle"]
  /\ listener = [t \in Tasks |-> NoTurn]
  /\ canceller = [t \in Tasks |-> "idle"]
  /\ confirmer = [t \in Tasks |-> "idle"]
  /\ changes = [t \in Tasks |-> {}]
  /\ events = [t \in Tasks |-> {}]
  /\ linked = [t \in Tasks |-> FALSE]
  /\ seen = [t \in Tasks |-> {}]

DriverStep(t) ==
  \/ CreateRunner(t) \/ CreateRunnerFails(t) \/ Run(t) \/ StartLane(t)
  \/ PromptReturns(t) \/ PromptThrows(t) \/ DriverClose(t)

RunnerStep(t) ==
  \/ Announce(t) \/ ListenAwait(t) \/ ToolDecision(t) \/ ListenArtifact(t)

RequestStep(t) ==
  \/ Abort(t) \/ AnnounceCancel(t) \/ CloseAfterCancel(t) \/ Approve(t)

Next ==
  \/ \E t \in Tasks :
       \/ Submit(t) \/ DriverStep(t)
       \/ RequestConfirm(t) \/ RunnerStep(t) \/ Expire(t) \/ Emit(t)
       \/ Cancel(t) \/ RequestStep(t) \/ Confirm(t)
       \/ Connect(t) \/ Disconnect(t)
  \/ Crash \/ Recover

Spec == Init /\ [][Next]_vars

\* The event loop runs every continuation that is ready; createRunner and the
\* model call return or fail (HTTP timeouts); the approval timer fires; a
\* supervisor restarts the process.  Requests, events and crashes are free.
Fairness ==
  /\ WF_vars(Recover)
  /\ \A t \in Tasks :
       WF_vars(DriverStep(t)) /\ WF_vars(RunnerStep(t))
       /\ WF_vars(RequestStep(t)) /\ WF_vars(Expire(t))

FairSpec == Spec /\ Fairness

-----------------------------------------------------------------------------
(* Properties.                                                             *)

\* Every variable has its type.
TypeOK ==
  /\ up \in BOOLEAN /\ restarts \in Nat
  /\ status \in [Tasks -> StatusOrNone]
  /\ cursor \in [Tasks -> Nat]
  /\ log \in [Tasks -> SUBSET Event]
  /\ runner \in [Tasks -> BOOLEAN]
  /\ act \in [Tasks -> {"none", "pending", "approved", "refused"}]
  /\ stop \in [Tasks -> {"no", "refusing", "aborted"}]
  /\ driver \in [Tasks -> DriverPhases]
  /\ tool \in [Tasks -> {"idle", "announcing", "announced", "waiting", "failed"}]
  /\ listener \in [Tasks -> [at : {"idle", "await", "artifact"}, seq : Nat]]
  /\ canceller \in [Tasks -> {"idle", "aborting", "announcing", "closing"}]
  /\ confirmer \in [Tasks -> {"idle", "approving"}]
  /\ changes \in [Tasks -> SUBSET Change]
  /\ events \in [Tasks -> SUBSET Event]
  /\ linked \in [Tasks -> BOOLEAN]
  /\ seen \in [Tasks -> SUBSET Event]

\* What a restart would rebuild is what memory holds: after every block the
\* folded change stream equals the in-memory status (persist before anyone
\* learns of the move, the late artifact row included).
DiskAgrees == up => \A t \in Tasks : Fold(changes[t]) = status[t]

\* With a failing disk memory may run ahead of the change stream only as FAILED,
\* as the QUEUED record of a refused submit, or as INTERRUPTED: a task never
\* shows progress (RUNNING, AWAIT_CONFIRM, SUCCEEDED, CANCELLED) a restart would
\* take back.
NoUnstoredProgress ==
  up => \A t \in Tasks :
    \/ Fold(changes[t]) = status[t]
    \/ status[t] \in {"FAILED", "INTERRUPTED"}
    \/ status[t] = "QUEUED" /\ driver[t] = "refused"

\* Reconnecting with the last seen seq loses nothing: an event at or before the
\* anchor has been received (the reason cursor, Last-Event-ID and the order of
\* delivery before derived transition exist).
NothingMissed ==
  up => \A t \in Tasks : \A e \in log[t] : e.seq <= Anchor(t) => e \in seen[t]

\* One seq never names two events, not even across a restart: no client drops a
\* new event as one it already has.
SeqNamesOneEvent ==
  \A t \in Tasks : \A e \in log[t], s \in seen[t] :
    (up /\ e.seq = s.seq) => e = s

\* What status() promises of a terminal status: a client that was told a task's
\* outcome finds that outcome in the task's status ever after, restarts included,
\* and so is told at most one outcome.
ToldIsTrue ==
  up => \A t \in Tasks : \A e \in seen[t] :
    e.to \in Terminal => status[t] = e.to

\* Persist before publish: a status a client was told of was stored first.
ToldAfterStored ==
  \A t \in Tasks : \A e \in seen[t] :
    e.to \in {"QUEUED", "RUNNING", "AWAIT_CONFIRM", "SUCCEEDED"} =>
      \E row \in changes[t] : row.seq = e.seq /\ row.to = e.to

\* What a client reads is sound: nothing it was sent before its anchor is
\* missing, no outcome it was told is taken back, and no status was told of that
\* is not stored (the anchor, status() and persist-before-publish together).
ClientSound == NothingMissed /\ ToldIsTrue /\ ToldAfterStored

\* A task that failed because its status could not be stored does not itself
\* rest on a status the disk does not hold.
FailureIsStored ==
  up => \A t \in Tasks : status[t] = "FAILED" => Fold(changes[t]) = "FAILED"

\* A task shown as queued, running or waiting has an executor, or is still
\* being submitted: no zombie, after a restart or otherwise.
NoZombie ==
  up => \A t \in Tasks :
    status[t] \in {"QUEUED", "RUNNING", "AWAIT_CONFIRM"} =>
      runner[t] \/ driver[t] = "creating"

\* A task whose prompt is over is not left waiting for a confirmation nobody
\* can give any more.
NoStaleWait ==
  up => \A t \in Tasks :
    status[t] = "AWAIT_CONFIRM" => driver[t] \in {"preparing", "prompting"}

\* Once the cancel request is answered, a lane that is still running has been
\* told to abort.
CancelAborts ==
  up => \A t \in Tasks :
    status[t] = "CANCELLED" /\ canceller[t] = "idle" /\ driver[t] = "prompting"
      => stop[t] = "aborted"

\* The orchestrator implements the abstract life cycle, restarts included: the
\* current status is memory's while the process lives, the change stream's
\* fold while it is down.  Terminal statuses therefore stay, on disk as well,
\* and a late artifact row overwrites nothing.
Current == [t \in Tasks |-> IF up THEN status[t] ELSE Fold(changes[t])]
Lifecycle == INSTANCE TaskLifecycle WITH state <- Current
ImplementsLifecycle == Lifecycle!Spec

\* A task that was cancelled never starts its model run afterwards.
NoStartAfterCancel ==
  [][\A t \in Tasks : (driver[t] = "preparing" /\ driver'[t] = "prompting")
       => status[t] \notin Terminal]_vars

\* What the documentation says of a restart: a queued task is restored as it is.
QueuedRestored ==
  [][\A t \in Tasks : (~up /\ up' /\ Fold(changes[t]) = "QUEUED")
       => status'[t] = "QUEUED"]_vars

\* Every accepted task comes to rest, and its runner is released.
ComesToRest ==
  \A t \in Tasks : (driver[t] = "creating") ~> (up /\ status[t] \in Settled)
RunnerReleased ==
  \A t \in Tasks : runner[t] ~> ~runner[t]
EveryTaskSettles == ComesToRest /\ RunnerReleased
=============================================================================
