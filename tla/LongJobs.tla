------------------------------ MODULE LongJobs ------------------------------
(***************************************************************************)
(* Long jobs of one user: a goal that conversations of many days work for. *)
(* A job is created by hand or, for a conversation, by the model's tool or *)
(* the user's choice of mode; the conclusion of every conversation becomes *)
(* the memory the next one is told.  Tasks, edits and deletions of a job   *)
(* overlap; each write of it writes all of it.                             *)
(***************************************************************************)
EXTENDS Naturals, Sequences, FiniteSets, SequencesExt

CONSTANTS
  Convs, Tasks,
  Long,         \* the job created by hand; that of a conversation has its name
  None,
  MaxMemory,    \* conclusions a job keeps
  MaxEdits, MaxRestarts   \* bounds

Jobs == Convs \cup {Long}
JobStatus == {"active", "archived"}     \* "done" is closed as "archived" is

VARIABLES
  job,        \* the stored record of each job
  task,       \* the tasks of the conversations
  given,      \* the job a task is shown under, if not the one it was made with
  deletion,   \* the request that deletes a job, while it cancels tasks
  concluded,  \* conversations whose conclusion a job was given
  erased,     \* jobs a deletion wrote over with an older copy
  edits, restarts

vars == <<job, task, given, deletion, concluded, erased, edits, restarts>>

Init ==
  /\ job = [j \in Jobs |-> None] /\ task = [t \in Tasks |-> None] /\ given = [t \in Tasks |-> None]
  /\ deletion = None /\ concluded = [j \in Jobs |-> {}] /\ erased = {}
  /\ edits = 0 /\ restarts = 0

-----------------------------------------------------------------------------
Fresh(title, convs) == [status |-> "active", title |-> title, convs |-> convs, memory |-> <<>>]

Made(t) == task[t] # None
Finished(t) == task[t].status \in {"finished", "cancelled"}
Of(c) == {t \in Tasks : Made(t) /\ task[t].conv = c}

(* The job a task is listed under.                                          *)
ShownUnder(t) == IF given[t] = None THEN task[t].filed ELSE given[t]

(* Jobs that hold a conversation.                                           *)
Holding(c) == {j \in Jobs : job[j] # None /\ c \in job[j].convs}

Create ==
  /\ job[Long] = None
  /\ job' = [job EXCEPT ![Long] = Fresh("named", {})]
  /\ UNCHANGED <<task, given, deletion, concluded, erased, edits, restarts>>

NewTask(c, j, tool, chosen) ==
  [conv |-> c, filed |-> j, job |-> j, tool |-> tool, chosen |-> chosen, status |-> "queued", at |-> "made"]

(* Nothing of a task is used any more but what it is listed by.             *)
Left(r) == [r EXCEPT !.at = "left", !.job = None, !.tool = FALSE, !.chosen = FALSE]

(* A message to a job begins a conversation of its own.                     *)
SubmitToJob(t, c) ==
  /\ ~Made(t) /\ Of(c) = {} /\ job[Long] # None /\ job[Long].status = "active"
  /\ task' = [task EXCEPT ![t] = NewTask(c, Long, FALSE, FALSE)]
  /\ UNCHANGED <<job, given, deletion, concluded, erased, edits, restarts>>

(* A message to a conversation: it belongs to the job that holds it, and is *)
(* refused when that job is over.  The tool that names a job is offered     *)
(* while there is none, or none with a name.                                *)
Submit(t, c, chosen) ==
  /\ ~Made(t) /\ \A s \in Of(c) : Finished(s)
  /\ \/ /\ Holding(c) = {}
        /\ task' = [task EXCEPT ![t] = NewTask(c, None, TRUE, chosen)]
     \/ \E j \in Holding(c) :
          /\ job[j].status = "active"
          /\ task' = [task EXCEPT ![t] = NewTask(c, j, job[j].title = "new", chosen)]
  /\ UNCHANGED <<job, given, deletion, concluded, erased, edits, restarts>>

(* The task is stored.  In the mode of tasks the conversation has its job   *)
(* from now on, unnamed.                                                    *)
Enroll(t) ==
  LET c == task[t].conv
      files == task[t].chosen /\ task[t].tool /\ task[t].job = None
  IN /\ Made(t) /\ task[t].at = "made"
     /\ \/ /\ ~files /\ task' = [task EXCEPT ![t].at = "ready"] /\ UNCHANGED <<job, given>>
        \/ /\ files /\ job[c] = None
           /\ job' = [job EXCEPT ![c] = Fresh("new", {c})]
           /\ task' = [task EXCEPT ![t].at = "ready", ![t].job = c]
           /\ given' = [given EXCEPT ![t] = c]
        \/ /\ files /\ job[c] # None
           /\ task' = [task EXCEPT ![t] = Left(@)] /\ UNCHANGED <<job, given>>
     /\ UNCHANGED <<deletion, concluded, erased, edits, restarts>>

(* A queued task that was cancelled does not run, and concludes.            *)
Start(t) ==
  /\ Made(t) /\ task[t].at = "ready"
  /\ task' = [task EXCEPT ![t].at = IF task[t].status = "cancelled" THEN "ended" ELSE "running",
                          ![t].status = IF @ = "queued" THEN "running" ELSE @]
  /\ UNCHANGED <<job, given, deletion, concluded, erased, edits, restarts>>

(* register_chat_task: the model names the job of its conversation.  All    *)
(* tasks of the conversation are shown under it.                            *)
Register(t) ==
  LET c == task[t].conv
  IN /\ Made(t) /\ task[t].at = "running" /\ task[t].tool /\ task[t].status # "cancelled"
     /\ job[c] # None => job[c].status = "active"
     /\ job' = [job EXCEPT ![c] = IF @ = None THEN Fresh("named", {c}) ELSE [@ EXCEPT !.title = "named"]]
     /\ given' = [s \in Tasks |-> IF s \in Of(c) THEN c ELSE given[s]]
     /\ task' = [task EXCEPT ![t].job = c]
     /\ UNCHANGED <<deletion, concluded, erased, edits, restarts>>

(* The run ends: the status first, then, for a job, its conclusion.  A run  *)
(* that throws has none.                                                    *)
Finish(t) ==
  /\ Made(t) /\ task[t].at = "running"
  /\ LET over == [task[t] EXCEPT !.at = "ended", !.status = IF @ = "running" THEN "finished" ELSE @]
     IN \E after \in {over, Left(over)} : task' = [task EXCEPT ![t] = after]
  /\ UNCHANGED <<job, given, deletion, concluded, erased, edits, restarts>>

(* The entry of a conversation is taken out: there is one at most, as      *)
(* MemoryKept says.                                                         *)
Without(memory, c) ==
  IF c \in ToSet(memory) THEN RemoveAt(memory, CHOOSE i \in DOMAIN memory : memory[i] = c) ELSE memory

(* One conclusion of a conversation, its last, and the latest of all.       *)
Entered(memory, t) ==
  LET all == Append(Without(memory, task[t].conv), task[t].conv)
  IN SubSeq(all, IF Len(all) > MaxMemory THEN Len(all) - MaxMemory + 1 ELSE 1, Len(all))

(* commitJobConversation.                                                   *)
Conclude(t) ==
  LET j == task[t].job
  IN /\ Made(t) /\ task[t].at = "ended"
     /\ task' = [task EXCEPT ![t] = Left(@)]
     /\ IF j = None THEN UNCHANGED <<job, concluded>>
        ELSE /\ job' = [job EXCEPT ![j].convs = @ \cup {task[t].conv}, ![j].memory = Entered(@, t)]
             /\ concluded' = [concluded EXCEPT ![j] = @ \cup {task[t].conv}]
     /\ UNCHANGED <<given, deletion, erased, edits, restarts>>

Cancels(t) == [task EXCEPT ![t].status = "cancelled"]

Cancel(t) ==
  /\ Made(t) /\ ~Finished(t) /\ task' = Cancels(t)
  /\ UNCHANGED <<job, given, deletion, concluded, erased, edits, restarts>>

(* The user names a job, or sets its status; running tasks are left alone.   *)
Patch(j, status) ==
  /\ job[j] # None /\ edits < MaxEdits /\ edits' = edits + 1
  /\ \E title \in {job[j].title, "named"} : job' = [job EXCEPT ![j].title = title, ![j].status = status]
  /\ UNCHANGED <<task, given, deletion, concluded, erased, restarts>>

(* Deleting a job archives it: the tasks shown under it are cancelled, one  *)
(* after the other, then the record that was read is written.               *)
Delete(j) ==
  /\ job[j] # None /\ deletion = None /\ edits < MaxEdits /\ edits' = edits + 1
  /\ deletion' = [of |-> j, seen |-> job[j],
                  left |-> {t \in Tasks : Made(t) /\ ShownUnder(t) = j /\ ~Finished(t)}]
  /\ UNCHANGED <<job, task, given, concluded, erased, restarts>>

(* A task that ended meanwhile cannot be cancelled: the request fails.      *)
DeleteNext(t) ==
  /\ deletion # None /\ t \in deletion.left
  /\ \/ /\ task[t].status # "finished" /\ task' = Cancels(t)
        /\ deletion' = [deletion EXCEPT !.left = @ \ {t}]
     \/ /\ task[t].status = "finished" /\ deletion' = None /\ UNCHANGED task
  /\ UNCHANGED <<job, given, concluded, erased, edits, restarts>>

Archive ==
  /\ deletion # None /\ deletion.left = {} /\ deletion' = None
  /\ job' = [job EXCEPT ![deletion.of] = [deletion.seen EXCEPT !.status = "archived"]]
  /\ erased' = IF deletion.seen = job[deletion.of] THEN erased ELSE erased \cup {deletion.of}
  /\ UNCHANGED <<task, given, concluded, edits, restarts>>

(* Tasks that were under way are marked interrupted and conclude nothing.   *)
Restart ==
  /\ restarts < MaxRestarts /\ restarts' = restarts + 1
  /\ task' = [t \in Tasks |->
       IF Made(t) THEN [Left(task[t]) EXCEPT !.status = IF Finished(t) THEN @ ELSE "finished"] ELSE None]
  /\ deletion' = None
  /\ UNCHANGED <<job, given, concluded, erased, edits>>

Next ==
  \/ Create \/ Archive \/ Restart
  \/ \E t \in Tasks, c \in Convs : SubmitToJob(t, c) \/ \E chosen \in BOOLEAN : Submit(t, c, chosen)
  \/ \E t \in Tasks :
       Enroll(t) \/ Start(t) \/ Register(t) \/ Finish(t) \/ Conclude(t) \/ Cancel(t) \/ DeleteNext(t)
  \/ \E j \in Jobs : Delete(j) \/ \E s \in JobStatus : Patch(j, s)

Spec == Init /\ [][Next]_vars

-----------------------------------------------------------------------------
(* No conclusion of a conversation is lost while others conclude, the job   *)
(* is edited or named: the memory holds one of each, or the latest of more  *)
(* than fit.  Not after a deletion, which writes an older copy back.        *)
MemoryKept ==
  \A j \in Jobs : (job[j] # None /\ j \notin erased) =>
    /\ IsInjective(job[j].memory) /\ ToSet(job[j].memory) \subseteq concluded[j]
    /\ Len(job[j].memory) =
         IF Cardinality(concluded[j]) > MaxMemory THEN MaxMemory ELSE Cardinality(concluded[j])
    /\ concluded[j] \subseteq job[j].convs

(* A task is shown under a job that has its conversation.                   *)
ShownWhereHeld ==
  \A t \in Tasks : given[t] # None => job[given[t]] # None /\ task[t].conv \in job[given[t]].convs

Safe == MemoryKept /\ ShownWhereHeld

(* What goes on in the conversations of a job that is over does not open it *)
(* again, nor takes a name away: only its user does.                        *)
OnlyTheUserReopens ==
  \A j \in Jobs : (job[j] # None /\ job'[j] # job[j]) =>
    \/ edits' # edits
    \/ /\ job'[j].status \in {job[j].status, "archived"}
       /\ (job[j].title = "named" /\ j \notin erased') => job'[j].title = "named"
KeepsClosed == [][OnlyTheUserReopens]_vars

(* The code does not have these: a task submitted while the deletion waits  *)
(* goes on under an archived job, and conclusions of that time are lost     *)
(* (workspace-management.ts:59); a conversation that is continued before    *)
(* its cancelled task has concluded gets a job of its own (main.ts:1045).   *)
ArchivedIsQuiet ==
  \A t \in Tasks : (Made(t) /\ ~Finished(t) /\ ShownUnder(t) # None) => job[ShownUnder(t)].status # "archived"
NothingErased == erased = {}
OneJobOfAConversation == \A c \in Convs : Cardinality(Holding(c)) <= 1
=============================================================================
