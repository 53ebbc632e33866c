----------------------------- MODULE Admission -----------------------------
(***************************************************************************)
(* How a submitted request becomes a task that runs: the idempotency       *)
(* receipts of the execution registry, the conversation reservations, the  *)
(* bounded queue of executions, the driver that runs and closes a task,    *)
(* and the administrator who applies a new configuration (and with it a    *)
(* new queue) or suspends all model calls.                                 *)
(*                                                                         *)
(* A call creates at most one task, so the task has the name of its call.  *)
(* What a running task does is TaskOrchestrator's subject; here it is      *)
(* "queued", "running" or "over".                                          *)
(***************************************************************************)
EXTENDS Naturals, FiniteSets, Sequences, SequencesExt

CONSTANTS
  Calls,         \* submissions, by users, automations and evaluations
  Keys, NoKey,   \* idempotency keys of one user; NoKey when there is none
  Convs, NoConv, \* conversations; NoConv when the call starts one
  KeyOf, ConvOf, \* key and conversation of a call
  PayloadOf,     \* the rest of the request, as far as fingerprints tell
  Limits,        \* concurrency limits a configuration may set
  QueueCap,      \* how many tasks may wait (100 in the code)
  MaxApplies,    \* bound: configurations applied
  MaxRestarts,   \* bound: crashes
  ReceiptFaults, \* TRUE: a receipt may fail to be written or become unreadable
  JobFaults      \* TRUE: filing the task under a job may fail

ASSUME AdmissionAssumption ==
  /\ KeyOf \in [Calls -> Keys \cup {NoKey}] /\ NoKey \notin Keys
  /\ ConvOf \in [Calls -> Convs \cup {NoConv}] /\ NoConv \notin Convs
  /\ Limits \subseteq Nat \ {0} /\ Limits # {}
  /\ QueueCap \in Nat /\ MaxApplies \in Nat /\ MaxRestarts \in Nat
  /\ {ReceiptFaults, JobFaults} \subseteq BOOLEAN
  /\ {"none", "refused", "lost"} \cap Calls = {}

VARIABLES
  restarts,
  ready,     \* modelReady; its negation is kept on disk
  receipts,  \* receipt of each key, on disk
  inFlight,  \* the call each key is being submitted by, or NoKey
  call,      \* where each submission is
  answer,    \* its answer: a task, "refused", or "lost" in a crash
  reserved,  \* conversationReservations
  task,      \* status of each task
  rev,       \* configuration each submission was prepared under
  queues,    \* one TaskQueue per configuration; the last is the current one
  seat,      \* the queue each task entered
  driver,    \* how far the background execution of each task is
  running,   \* runningTasks
  released,  \* tasks whose runner and sandbox were released
  doomed     \* tasks a suspension still has to cancel

registry == <<receipts, inFlight>>
background == <<queues, seat, driver, running, released>>
vars == <<restarts, ready, registry, call, answer, reserved, task, rev,
          background, doomed>>

gen == Len(queues)
Live == {t \in Calls : task[t] \in {"queued", "running"}}
InSubmission == {c \in Calls : call[c] \in {"preparing", "enrolled", "made"}}
Receipt == [state : {"absent", "creating", "submitted", "failed", "unreadable"},
            by : Calls \cup {NoKey}]
NewQueue(n) == [limit |-> n, active |-> 0, waiting |-> <<>>]
Writes == IF ReceiptFaults THEN {TRUE, FALSE} ELSE {TRUE}

-----------------------------------------------------------------------------
(* ExecutionRegistry.submit.                                               *)

\* Mutant of Used: a receipt that cannot be read counts as none.
UsedIfReadable(k) == receipts[k].state \notin {"absent", "unreadable"}

Used(k) == receipts[k].state # "absent"

Same(c, d) == PayloadOf[c] = PayloadOf[d]

Answer(c, a) ==
  /\ call' = [call EXCEPT ![c] = "answered"]
  /\ answer' = [answer EXCEPT ![c] = a]

\* A first use of the key: the receipt is stored before anything is created.
Open(c, k) ==
  \/ /\ receipts' = [receipts EXCEPT ![k] = [state |-> "creating", by |-> c]]
     /\ inFlight' = [inFlight EXCEPT ![k] = c]
     /\ call' = [call EXCEPT ![c] = "creating"]
     /\ UNCHANGED answer
  \/ ReceiptFaults /\ Answer(c, "refused") /\ UNCHANGED registry

\* The answer a stored receipt gives.
Recorded(c, r) ==
  IF r.state = "submitted" /\ Same(c, r.by) THEN r.by ELSE "refused"

Submit(c) ==
  /\ call[c] = "none"
  /\ LET k == KeyOf[c] IN
     IF k = NoKey
     THEN call' = [call EXCEPT ![c] = "creating"] /\ UNCHANGED <<answer, registry>>
     ELSE IF inFlight[k] # NoKey
     THEN /\ IF Same(c, inFlight[k])
             THEN call' = [call EXCEPT ![c] = "joined"] /\ UNCHANGED answer
             ELSE Answer(c, "refused")
          /\ UNCHANGED registry
     ELSE IF Used(k)
     THEN Answer(c, Recorded(c, receipts[k])) /\ UNCHANGED registry
     ELSE Open(c, k)
  /\ UNCHANGED <<restarts, ready, reserved, task, rev, background, doomed>>

Group(c) == {c} \cup
  IF KeyOf[c] = NoKey THEN {} ELSE {d \in Calls : call[d] = "joined" /\ KeyOf[d] = KeyOf[c]}

Reply(c, a) ==
  /\ call' = [d \in Calls |-> IF d \in Group(c) THEN "answered" ELSE call[d]]
  /\ answer' = [d \in Calls |-> IF d \in Group(c) THEN a ELSE answer[d]]

\* create() is over: the receipt gets its final state, everyone who waits is
\* answered.  A receipt that cannot be written stays "creating", and is an error.
Settle(c, a) ==
  LET k == KeyOf[c] IN
  IF k = NoKey THEN Reply(c, a) /\ UNCHANGED registry
  ELSE \E ok \in Writes :
    /\ inFlight' = [inFlight EXCEPT ![k] = NoKey]
    /\ receipts' = IF ok
         THEN [receipts EXCEPT ![k].state = IF a = "refused" THEN "failed" ELSE "submitted"]
         ELSE receipts
    /\ Reply(c, IF ok THEN a ELSE "refused")

-----------------------------------------------------------------------------
(* guardedSubmit and nativeSubmit.                                         *)

\* Mutant of ConversationFree: only tasks are looked at, not reservations.
ConversationFreeOfTasks(c) ==
  ConvOf[c] = NoConv \/ \A t \in Live : ConvOf[t] # ConvOf[c]

ConversationFree(c) ==
  \/ ConvOf[c] = NoConv
  \/ ConvOf[c] \notin reserved /\ \A t \in Live : ConvOf[t] # ConvOf[c]

Admissible(c) ==
  /\ ready
  /\ ConversationFree(c)
  /\ Len(queues[gen].waiting) < QueueCap

\* guardedSubmit up to the first await of nativeSubmit.
Guard(c) ==
  /\ call[c] = "creating"
  /\ IF Admissible(c)
     THEN /\ call' = [call EXCEPT ![c] = "preparing"]
          /\ reserved' = reserved \cup ({ConvOf[c]} \ {NoConv})
          /\ rev' = [rev EXCEPT ![c] = gen]
          /\ UNCHANGED <<answer, registry>>
     ELSE Settle(c, "refused") /\ UNCHANGED <<reserved, rev>>
  /\ UNCHANGED <<restarts, ready, task, background, doomed>>

\* The finally of guardedSubmit, and what the registry does with the outcome.
Leave(c, a) ==
  /\ reserved' = reserved \ {ConvOf[c]}
  /\ Settle(c, a)

\* The request is compiled and the task enters the orchestrator; forms, retries,
\* quotations and disks may refuse it before.
Enroll(c) ==
  /\ call[c] = "preparing"
  /\ \/ /\ task' = [task EXCEPT ![c] = "queued"]
        /\ call' = [call EXCEPT ![c] = "enrolled"]
        /\ UNCHANGED <<answer, registry, reserved>>
     \/ Leave(c, "refused") /\ UNCHANGED task
  /\ UNCHANGED <<restarts, ready, rev, background, doomed>>

\* Mutant of Fail: the record of a task that got no runner is left as it is.
FailLeft(c) == UNCHANGED task

Fail(c) == task' = [task EXCEPT ![c] = "over"]

\* createRunner: refused while suspended; a failure fails the task.
Make(c) ==
  /\ call[c] = "enrolled"
  /\ \/ /\ ready
        /\ call' = [call EXCEPT ![c] = "made"]
        /\ UNCHANGED <<answer, registry, reserved, task>>
     \/ Fail(c) /\ Leave(c, "refused")
  /\ UNCHANGED <<restarts, ready, rev, background, doomed>>

\* TaskQueue.run up to its await: a seat, or the end of the line.
Enter(q, t) ==
  IF q.active < q.limit THEN [q EXCEPT !.active = @ + 1]
  ELSE [q EXCEPT !.waiting = Append(@, t)]

\* The task is handed to the background and the submission answered, unless the
\* job it is filed under cannot be written.
Launch(c) ==
  /\ call[c] = "made"
  /\ \/ /\ running' = running \cup {c}
        /\ seat' = [seat EXCEPT ![c] = gen]
        /\ queues' = [queues EXCEPT ![gen] = Enter(@, c)]
        /\ driver' = [driver EXCEPT ![c] =
             IF Contains(queues'[gen].waiting, c) THEN "waiting" ELSE "starting"]
        /\ Leave(c, c)
     \/ /\ JobFaults
        /\ Leave(c, "refused")
        /\ UNCHANGED <<running, seat, queues, driver>>
  /\ UNCHANGED <<restarts, ready, task, rev, released, doomed>>

-----------------------------------------------------------------------------
(* The background execution of a task.                                     *)

\* The task has its seat; one that was cancelled in the queue is skipped.
Execute(t) ==
  /\ driver[t] = "starting"
  /\ IF task[t] = "over"
     THEN driver' = [driver EXCEPT ![t] = "ended"] /\ UNCHANGED task
     ELSE /\ driver' = [driver EXCEPT ![t] = "executing"]
          /\ task' = [task EXCEPT ![t] = "running"]
  /\ UNCHANGED <<restarts, ready, registry, call, answer, reserved, rev, queues,
                 seat, running, released, doomed>>

\* The run returns, well or badly.
Return(t) ==
  /\ driver[t] = "executing"
  /\ driver' = [driver EXCEPT ![t] = "ended"]
  /\ task' = [task EXCEPT ![t] = "over"]
  /\ UNCHANGED <<restarts, ready, registry, call, answer, reserved, rev, queues,
                 seat, running, released, doomed>>

\* Mutant of PassOn: the seat is given back, nobody is called.
PassOnNobody(q) == [q EXCEPT !.active = @ - 1]

\* The finally of TaskQueue.run: the seat goes to the first in the line.
PassOn(q) ==
  IF q.waiting = <<>> THEN [q EXCEPT !.active = @ - 1]
  ELSE [q EXCEPT !.waiting = Tail(@)]

Yield(t) ==
  /\ driver[t] = "ended"
  /\ LET q == queues[seat[t]]  after == PassOn(q) IN
     /\ queues' = [queues EXCEPT ![seat[t]] = after]
     /\ driver' = [u \in Calls |->
          IF u = t THEN "leaving"
          ELSE IF Contains(q.waiting, u) /\ ~Contains(after.waiting, u) THEN "starting"
          ELSE driver[u]]
  /\ UNCHANGED <<restarts, ready, registry, call, answer, reserved, task, rev,
                 seat, running, released, doomed>>

\* Mutant of Releasable: whether the execution is over is not asked.
ReleasableEarly(t, executing) == task[t] = "over"

\* closeFinishedTask: only a task that is over and no longer executed.
Releasable(t, executing) == task[t] = "over" /\ t \notin executing

Close(t) ==
  /\ driver[t] = "leaving"
  /\ driver' = [driver EXCEPT ![t] = "closed"]
  /\ running' = running \ {t}
  /\ released' = IF Releasable(t, running') THEN released \cup {t} ELSE released
  /\ UNCHANGED <<restarts, ready, registry, call, answer, reserved, task, rev,
                 queues, seat, doomed>>

-----------------------------------------------------------------------------
(* Users, the administrator, crashes.                                      *)

\* orchestrator.cancel: the task is over, its execution ends later.
Cancelled(t) ==
  /\ task' = [task EXCEPT ![t] = "over"]
  /\ UNCHANGED <<restarts, ready, registry, call, answer, reserved, rev, queues,
                 seat, driver, running>>

\* cancelTask: then closeFinishedTask.
Cancel(t) == t \in Live /\ Cancelled(t) /\ UNCHANGED <<released, doomed>>

CloseCancelled(t) ==
  /\ Releasable(t, running) /\ t \notin released
  /\ released' = released \cup {t}
  /\ UNCHANGED <<restarts, ready, registry, call, answer, reserved, task, rev,
                 queues, seat, driver, running, doomed>>

ToCancel == Live

\* suspend(): no model from now on, and every pending task is cancelled in turn.
Suspend ==
  /\ ready
  /\ ready' = FALSE
  /\ doomed' = doomed \cup ToCancel
  /\ UNCHANGED <<restarts, registry, call, answer, reserved, task, rev, background>>

SuspendOne(t) ==
  /\ t \in doomed
  /\ doomed' = doomed \ {t}
  /\ IF t \in Live THEN Cancelled(t) /\ UNCHANGED released
     ELSE UNCHANGED <<restarts, ready, registry, call, answer, reserved, task, rev, background>>

Quiet ==
  /\ InSubmission = {} /\ running = {} /\ Live = {}
  /\ queues[gen].waiting = <<>>

\* apply(): a new configuration, with a queue of its own; the model is ready if the
\* configuration names one.
Apply ==
  /\ Quiet /\ gen <= MaxApplies
  /\ \E n \in Limits : queues' = Append(queues, NewQueue(n))
  /\ ready' \in BOOLEAN
  /\ UNCHANGED <<restarts, registry, call, answer, reserved, task, rev, seat,
                 driver, running, released, doomed>>

\* The process dies and starts again: memory is gone, tasks that were pending are
\* interrupted, and a receipt may have become unreadable.
Crash ==
  /\ restarts < MaxRestarts
  /\ restarts' = restarts + 1
  /\ call' = [c \in Calls |-> IF call[c] = "none" THEN "none" ELSE "answered"]
  /\ answer' = [c \in Calls |->
       IF call[c] \in {"none", "answered"} THEN answer[c] ELSE "lost"]
  /\ task' = [t \in Calls |-> IF t \in Live THEN "interrupted" ELSE task[t]]
  /\ \E bad \in SUBSET Keys :
       /\ bad # {} => ReceiptFaults /\ \A k \in bad : Used(k)
       /\ receipts' = [k \in Keys |->
            IF k \in bad THEN [receipts[k] EXCEPT !.state = "unreadable"] ELSE receipts[k]]
  /\ inFlight' = [k \in Keys |-> NoKey]
  /\ reserved' = {} /\ running' = {} /\ doomed' = {}
  /\ driver' = [t \in Calls |-> IF driver[t] = "none" THEN "none" ELSE "closed"]
  /\ queues' = [g \in 1..gen |-> NewQueue(queues[g].limit)]
  /\ UNCHANGED <<ready, rev, seat, released>>

-----------------------------------------------------------------------------
Init ==
  /\ restarts = 0 /\ ready = TRUE
  /\ receipts = [k \in Keys |-> [state |-> "absent", by |-> NoKey]]
  /\ inFlight = [k \in Keys |-> NoKey]
  /\ call = [c \in Calls |-> "none"] /\ answer = [c \in Calls |-> "none"]
  /\ reserved = {}
  /\ task = [t \in Calls |-> "none"] /\ rev = [t \in Calls |-> 0]
  /\ \E n \in Limits : queues = <<NewQueue(n)>>
  /\ seat = [t \in Calls |-> 0] /\ driver = [t \in Calls |-> "none"]
  /\ running = {} /\ released = {} /\ doomed = {}

Continue(c) == Guard(c) \/ Enroll(c) \/ Make(c) \/ Launch(c)
Drive(t) == Execute(t) \/ Return(t) \/ Yield(t) \/ Close(t)

Next ==
  \/ \E c \in Calls :
       \/ Submit(c) \/ Continue(c) \/ Drive(c)
       \/ Cancel(c) \/ CloseCancelled(c) \/ SuspendOne(c)
  \/ Suspend \/ Apply \/ Crash

Spec == Init /\ [][Next]_vars

\* The event loop runs what is ready; a run returns (a step limit, a timer on every
\* confirmation and on every model request bound it); suspend() goes on.
FairSpec ==
  /\ Spec
  /\ \A c \in Calls : WF_vars(Continue(c)) /\ WF_vars(Drive(c)) /\ WF_vars(SuspendOne(c))

-----------------------------------------------------------------------------
(* Properties.                                                             *)

\* Every variable has its type; the counter of the current queue is the number of
\* tasks that hold one of its seats.
TypeOK ==
  /\ restarts \in Nat /\ ready \in BOOLEAN
  /\ receipts \in [Keys -> Receipt] /\ inFlight \in [Keys -> Calls \cup {NoKey}]
  /\ call \in [Calls -> {"none", "joined", "creating", "preparing", "enrolled",
                         "made", "answered"}]
  /\ answer \in [Calls -> Calls \cup {"none", "refused", "lost"}]
  /\ reserved \subseteq Convs
  /\ task \in [Calls -> {"none", "queued", "running", "over", "interrupted"}]
  /\ \A q \in Range(queues) :
       q.limit \in Limits /\ q.active \in Nat /\ Range(q.waiting) \subseteq Calls
  /\ rev \in [Calls -> 0..gen] /\ seat \in [Calls -> 0..gen]
  /\ driver \in [Calls -> {"none", "waiting", "starting", "executing", "ended",
                           "leaving", "closed"}]
  /\ running \subseteq Calls /\ released \subseteq Calls /\ doomed \subseteq Calls
  /\ queues[gen].active =
       Cardinality({t \in Calls : driver[t] \in {"starting", "executing", "ended"}})

\* However often a request is repeated with its key, concurrently, after an error
\* or after a crash, and whatever happened to its receipt: it creates one task.
CreatedOnce ==
  \A c, d \in Calls :
    KeyOf[c] = KeyOf[d] /\ KeyOf[c] # NoKey /\ task[c] # "none" /\ task[d] # "none"
      => c = d

\* A call that is answered with a task asked for that task: same key, same request.
AnswerMatches ==
  \A c \in Calls : answer[c] \in Calls =>
    /\ task[answer[c]] # "none"
    /\ answer[c] = c \/ (KeyOf[c] = KeyOf[answer[c]] /\ PayloadOf[c] = PayloadOf[answer[c]])

\* A key stands for one request and its task, as execution-registry.ts:55 promises.
KeysHonoured == CreatedOnce /\ AnswerMatches

\* A conversation has one task at a time, from the first look at it on.
OneTaskPerConversation ==
  \A t, u \in Live : ConvOf[t] = ConvOf[u] /\ ConvOf[t] # NoConv => t = u

\* No more executions than the configuration in force allows, whatever was applied,
\* cancelled or interrupted on the way.
WithinConcurrency ==
  Cardinality({t \in Calls : driver[t] \in {"starting", "executing"}}) <= queues[gen].limit

\* A task runs under the configuration its submission was prepared with.
NoSwitchInFlight ==
  \A t \in Calls :
    call[t] \in {"preparing", "enrolled", "made"} \/ driver[t] \in {"starting", "executing"}
      => rev[t] = gen

\* The runner and the sandbox of a task are never released under its execution.
ReleasedIsIdle == \A t \in released : driver[t] # "executing"

\* The seats of the queue, the configuration tasks run under and the release of
\* their runners stay right when the queue is replaced under them (main.ts:1365).
QueueSound == TypeOK /\ WithinConcurrency /\ NoSwitchInFlight /\ ReleasedIsIdle

\* A task that is pending has someone who will run it.
PendingIsDriven == \A t \in Live : call[t] \in {"enrolled", "made"} \/ t \in running

\* Every submission is answered.
EveryCallAnswered == \A c \in Calls : call[c] # "none" ~> call[c] = "answered"

\* Every task that waits for a seat is executed or skipped, and closed.
EveryTaskCloses == \A t \in Calls : driver[t] = "waiting" ~> driver[t] = "closed"

\* After a suspension nothing is pending, whatever was being submitted meanwhile.
SuspensionStops == ~ready ~> Live = {}

\* Submissions are answered, tasks that wait are closed, suspensions take hold.
EverythingEnds == EveryCallAnswered /\ EveryTaskCloses /\ SuspensionStops
=============================================================================
