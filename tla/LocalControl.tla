---------------------------- MODULE LocalControl ----------------------------
(***************************************************************************)
(* The tools that work in the directories of the owner's computer: a       *)
(* command in an isolated process (local_shell), a file copied in          *)
(* (stage_to_local) or out (collect_from_local).  A call reserves all the  *)
(* directories, works, and gives them back.  A command ends by itself, by  *)
(* its timer or by a cancellation, and may leave processes that hold its   *)
(* pipes open.                                                             *)
(***************************************************************************)
EXTENDS Naturals

CONSTANTS
  Calls,      \* calls of the tools, by any task
  None        \* nobody

VARIABLES
  activeRoots,  \* the call that reserved the directories, or None
  pc,           \* where a call is
  child,        \* the leader of its process group, as the service sees it
  group,        \* whether processes of the group live
  timeout,      \* whether the timer of the command is set
  killFallback, \* the timer that gives up on the pipes
  stopped,      \* whether the call was cancelled or timed out
  copy          \* the file stage_to_local writes: "none", "part" or "whole"

vars == <<activeRoots, pc, child, group, timeout, killFallback, stopped, copy>>
process == <<child, group, timeout, killFallback>>

Working == {"scanning", "running", "collecting", "copying"}

Init ==
  /\ activeRoots = None
  /\ pc = [c \in Calls |-> "idle"]
  /\ child = [c \in Calls |-> "none"]
  /\ group = [c \in Calls |-> "none"]
  /\ timeout = [c \in Calls |-> FALSE]
  /\ killFallback = [c \in Calls |-> "unset"]
  /\ stopped = [c \in Calls |-> FALSE]
  /\ copy = [c \in Calls |-> "none"]

(* What "finally" does: the directories are free, the call answers.         *)
Answers(c, answer) ==
  /\ activeRoots' = None
  /\ pc' = [pc EXCEPT ![c] = answer]

(* reserveLocalRoots(): a call that finds the directories taken is refused  *)
(* and has nothing to give back.                                            *)
Reserve(c) ==
  /\ pc[c] = "idle"
  /\ IF activeRoots # None
     THEN /\ pc' = [pc EXCEPT ![c] = "failed"]
          /\ UNCHANGED activeRoots
     ELSE \E tool \in {"scanning", "copying", "collecting"} :
            /\ activeRoots' = c
            /\ pc' = [pc EXCEPT ![c] = tool]
  /\ UNCHANGED <<process, stopped, copy>>

(* A step of the call fails: a check of the files, a write, the audit.  The *)
(* file that was being copied is removed, which is taken to succeed.        *)
Breaks(c) ==
  /\ pc[c] \in {"scanning", "collecting", "copying"}
  /\ Answers(c, "failed")
  /\ copy' = [copy EXCEPT ![c] = "none"]
  /\ UNCHANGED <<process, stopped>>

(* local_shell has listed the files that are there: unless it was cancelled *)
(* the isolated process starts.                                             *)
Spawn(c) ==
  /\ pc[c] = "scanning"
  /\ IF stopped[c]
     THEN /\ Answers(c, "failed")
          /\ UNCHANGED process
     ELSE /\ pc' = [pc EXCEPT ![c] = "running"]
          /\ child' = [child EXCEPT ![c] = "alive"]
          /\ group' = [group EXCEPT ![c] = "alive"]
          /\ timeout' = [timeout EXCEPT ![c] = TRUE]
          /\ UNCHANGED <<activeRoots, killFallback>>
  /\ UNCHANGED <<stopped, copy>>

(* Mutant of Kill: the leader alone is killed.                              *)
KillLeader(c) == UNCHANGED group

Kill(c) == group' = [group EXCEPT ![c] = "dead"]

(* cleanup()                                                                *)
Cleanup(c) ==
  /\ timeout' = [timeout EXCEPT ![c] = FALSE]
  /\ killFallback' = [killFallback EXCEPT ![c] = IF @ = "set" THEN "over" ELSE @]

(* finish(): once; a command that ended by itself with code 0 has its       *)
(* artifacts collected, any other answers.                                  *)
Finish(c, ok) ==
  /\ Kill(c)
  /\ Cleanup(c)
  /\ IF ok /\ ~stopped[c]
     THEN /\ pc' = [pc EXCEPT ![c] = "collecting"]
          /\ UNCHANGED activeRoots
     ELSE Answers(c, "failed")

(* Mutant of StopWaiting: the pipes are waited for as long as somebody      *)
(* holds them.                                                              *)
KeepWaiting(c) == UNCHANGED killFallback

(* The pipes are waited for one second more.                                *)
StopWaiting(c) == killFallback' = [killFallback EXCEPT ![c] = IF @ = "unset" THEN "set" ELSE @]

(* terminate(), by the timer or by the cancellation.                        *)
Terminate(c) ==
  /\ stopped' = [stopped EXCEPT ![c] = TRUE]
  /\ Kill(c)
  /\ StopWaiting(c)

TimesOut(c) ==
  /\ pc[c] = "running" /\ timeout[c]
  /\ Terminate(c)
  /\ timeout' = [timeout EXCEPT ![c] = FALSE]
  /\ UNCHANGED <<activeRoots, pc, child, copy>>

(* The task is cancelled while the call works.                              *)
Abort(c) ==
  /\ pc[c] \in Working /\ ~stopped[c]
  /\ IF pc[c] = "running"
     THEN Terminate(c)
     ELSE /\ stopped' = [stopped EXCEPT ![c] = TRUE]
          /\ UNCHANGED <<group, killFallback>>
  /\ UNCHANGED <<activeRoots, pc, child, timeout, copy>>

(* The isolation cannot be started: "error", and "close" behind it.         *)
SpawnFails(c) ==
  /\ pc[c] = "running" /\ child[c] = "alive"
  /\ child' = [child EXCEPT ![c] = "closed"]
  /\ Kill(c)
  /\ Cleanup(c)
  /\ Answers(c, "failed")
  /\ UNCHANGED <<stopped, copy>>

(* "exit": the leader is gone; what it left in the group is killed.         *)
Exits(c) ==
  /\ child[c] = "alive"
  /\ child' = [child EXCEPT ![c] = "exited"]
  /\ Kill(c)
  /\ StopWaiting(c)
  /\ UNCHANGED <<activeRoots, pc, timeout, stopped, copy>>

(* "close": nobody holds the pipes any more.                                *)
Closes(c) ==
  /\ pc[c] = "running" /\ child[c] = "exited"
  /\ child' = [child EXCEPT ![c] = "closed"]
  /\ \E ok \in BOOLEAN : Finish(c, ok)
  /\ UNCHANGED <<stopped, copy>>

(* A second after the kill or the exit: the pipes are given up.             *)
GivesUp(c) ==
  /\ pc[c] = "running" /\ killFallback[c] = "set"
  /\ \E ok \in BOOLEAN : (ok => child[c] = "exited") /\ Finish(c, ok)
  /\ UNCHANGED <<child, stopped, copy>>

(* The artifacts are copied to the task.  A cancellation that comes now is  *)
(* not looked at.                                                           *)
Collected(c) ==
  /\ pc[c] = "collecting"
  /\ Answers(c, "done")
  /\ UNCHANGED <<process, stopped, copy>>

(* stage_to_local: the file is created, unless the call was cancelled while *)
(* the attachment was read; then written, and the call audited.             *)
Create(c) ==
  /\ pc[c] = "copying" /\ copy[c] = "none"
  /\ IF stopped[c]
     THEN /\ Answers(c, "failed")
          /\ UNCHANGED copy
     ELSE /\ copy' = [copy EXCEPT ![c] = "part"]
          /\ UNCHANGED <<activeRoots, pc>>
  /\ UNCHANGED <<process, stopped>>

Write(c) ==
  /\ pc[c] = "copying" /\ copy[c] = "part"
  /\ copy' = [copy EXCEPT ![c] = "whole"]
  /\ UNCHANGED <<activeRoots, pc, process, stopped>>

Staged(c) ==
  /\ pc[c] = "copying" /\ copy[c] = "whole"
  /\ Answers(c, "done")
  /\ UNCHANGED <<process, stopped, copy>>

(* A step of the service that happens once its promise is resolved.         *)
Proceeds(c) ==
  \/ Reserve(c) \/ Spawn(c) \/ Collected(c) \/ Create(c) \/ Write(c) \/ Staged(c)
  \/ TimesOut(c) \/ GivesUp(c)

Next ==
  \E c \in Calls :
    \/ Proceeds(c)
    \/ Breaks(c) \/ Abort(c) \/ SpawnFails(c) \/ Exits(c) \/ Closes(c)

(* Promises are resolved and timers fire; a command need not end, nor close *)
(* its pipes.                                                               *)
Fairness == \A c \in Calls : WF_vars(Proceeds(c))

Spec == Init /\ [][Next]_vars /\ Fairness

-----------------------------------------------------------------------------
TypeOK ==
  /\ activeRoots \in Calls \cup {None}
  /\ pc \in [Calls -> {"idle", "failed", "done"} \cup Working]
  /\ child \in [Calls -> {"none", "alive", "exited", "closed"}]
  /\ group \in [Calls -> {"none", "alive", "dead"}]
  /\ timeout \in [Calls -> BOOLEAN]
  /\ killFallback \in [Calls -> {"unset", "set", "over"}]
  /\ stopped \in [Calls -> BOOLEAN]
  /\ copy \in [Calls -> {"none", "part", "whole"}]

(* A call that works, and any process it may have left in its group, has    *)
(* the directories for itself: a call refused because they are taken gives  *)
(* back nothing, and no command outlives its call: tool.ts:18, tool.ts:96.  *)
RootsExclusive ==
  \A c \in Calls : pc[c] \in Working \/ group[c] = "alive" => activeRoots = c

(* The directories are reserved by a call that will give them back.         *)
ReservedByWorker == activeRoots # None => pc[activeRoots] \in Working

(* Nothing of an ended command fires later: no timer is left.               *)
NoTimerLeft ==
  \A c \in Calls : timeout[c] \/ killFallback[c] = "set" => pc[c] = "running"

(* A file is in the owner's directories exactly when the call says so, and  *)
(* then it is whole: transfer.ts:73-76.                                     *)
CopiedWhole ==
  \A c \in Calls :
    /\ pc[c] = "done" => copy[c] # "part"
    /\ pc[c] = "failed" => copy[c] = "none"

Safe == TypeOK /\ RootsExclusive /\ ReservedByWorker /\ NoTimerLeft /\ CopiedWhole

(* Every call answers and gives the directories back, though its command    *)
(* may never end, or leave processes that hold its pipes: tool.ts:101.      *)
CallsReturn == \A c \in Calls : pc[c] \in Working ~> pc[c] \in {"failed", "done"}
=============================================================================
