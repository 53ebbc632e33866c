-------------------------- MODULE CustomExtensions --------------------------
(***************************************************************************)
(* Commands of deployed extensions: a command is asked for, confirmed with *)
(* the token of the answer, and then run once; administrators switch       *)
(* extensions on and off meanwhile, and the state they chose is stored.    *)
(***************************************************************************)
EXTENDS Naturals, FiniteSets

CONSTANTS
  Owners, Exts,         \* tenants, and extensions of one command each
  Args,                 \* arguments a command may be given
  Tokens,               \* tokens ever made, in order: 1 .. n
  PerOwner, Total,      \* confirmations that may be open (16 and 10000)
  MaxToggles, MaxFaults, MaxRestarts   \* bounds

VARIABLES
  enabled, generation,  \* of each extension, in memory
  file,                 \* extensions.json
  open,                 \* the confirmations asked for
  made,                 \* tokens made so far
  running,              \* handlers under way
  inFlight,             \* owners that have one
  closed,               \* the registry is
  confirmed,            \* how often a handler ran on each token
  faults, restarts

vars == <<enabled, generation, file, open, made, running, inFlight, closed, confirmed, faults, restarts>>

Fresh == [x \in Exts |-> 0]

Init ==
  /\ file \in [Exts -> BOOLEAN] /\ enabled = file /\ generation = Fresh
  /\ open = {} /\ made = 0
  /\ running = {} /\ inFlight = {} /\ closed = FALSE
  /\ confirmed = [t \in Tokens |-> 0]
  /\ faults = 0 /\ restarts = 0

-----------------------------------------------------------------------------
Serves(x) == enabled[x] /\ ~closed

Ask(o, x, a) ==
  /\ Serves(x) /\ made + 1 \in Tokens /\ made' = made + 1
  /\ Cardinality(open) < Total
  /\ Cardinality({p \in open : p.owner = o}) < PerOwner
  /\ open' = open \cup {[token |-> made', owner |-> o, ext |-> x, args |-> a, generation |-> generation[x]]}
  /\ UNCHANGED <<enabled, generation, file, running, inFlight, closed, confirmed, faults, restarts>>

(* A minute after it was asked for.                                         *)
Expire(p) ==
  /\ p \in open /\ open' = open \ {p}
  /\ UNCHANGED <<enabled, generation, file, made, running, inFlight, closed, confirmed, faults, restarts>>

Matches(p, o, x, a) == p.owner = o /\ p.ext = x /\ p.args = a /\ p.generation = generation[x]

(* The confirmation is used up before the handler starts.                   *)
Confirm(p, o, x, a) ==
  /\ Serves(x) /\ p \in open /\ Matches(p, o, x, a)
  /\ o \notin inFlight
  /\ open' = open \ {p} /\ inFlight' = inFlight \cup {o}
  /\ running' = running \cup {p}
  /\ confirmed' = [confirmed EXCEPT ![p.token] = @ + 1]
  /\ UNCHANGED <<enabled, generation, file, made, closed, faults, restarts>>

(* The handler returns or throws, also after the registry is closed.        *)
End(p) ==
  /\ p \in running /\ running' = running \ {p}
  /\ inFlight' = inFlight \ {p.owner}
  /\ UNCHANGED <<enabled, generation, file, open, made, closed, confirmed, faults, restarts>>

(* The file first; if that fails nothing is changed.                        *)
SetEnabled(x, on) ==
  /\ generation[x] < MaxToggles
  /\ \/ /\ file' = [file EXCEPT ![x] = on] /\ enabled' = [enabled EXCEPT ![x] = on]
        /\ generation' = [generation EXCEPT ![x] = @ + 1]
        /\ open' = {p \in open : p.ext # x}
        /\ UNCHANGED faults
     \/ faults < MaxFaults /\ faults' = faults + 1 /\ UNCHANGED <<file, enabled, generation, open>>
  /\ UNCHANGED <<made, running, inFlight, closed, confirmed, restarts>>

Close ==
  /\ ~closed /\ closed' = TRUE /\ open' = {}
  /\ UNCHANGED <<enabled, generation, file, made, running, inFlight, confirmed, faults, restarts>>

Restart ==
  /\ restarts < MaxRestarts /\ restarts' = restarts + 1
  /\ enabled' = file /\ generation' = Fresh
  /\ open' = {} /\ running' = {} /\ inFlight' = {} /\ closed' = FALSE
  /\ UNCHANGED <<file, made, confirmed, faults>>

Next ==
  \/ \E o \in Owners, x \in Exts, a \in Args :
       Ask(o, x, a) \/ \E p \in open : Confirm(p, o, x, a)
  \/ \E p \in open : Expire(p)
  \/ \E p \in running : End(p)
  \/ \E x \in Exts, on \in BOOLEAN : SetEnabled(x, on)
  \/ Close \/ Restart

Spec == Init /\ [][Next]_vars

-----------------------------------------------------------------------------
(* A confirmation runs one handler, whatever is sent twice, cancelled or    *)
(* restarted, and is not open while that runs.                              *)
ConfirmedOnce ==
  /\ \A t \in Tokens : confirmed[t] <= 1
  /\ \A p \in open : confirmed[p.token] = 0

(* What is open was asked for since the extension was last switched, and    *)
(* can still be run: a confirmation outlives neither the switch nor close.  *)
OpenIsCurrent ==
  \A p \in open : Serves(p.ext) /\ p.generation = generation[p.ext]

(* One command of an owner at a time, and an owner is let in again only     *)
(* when the handler has come back.                                          *)
OneAtATime ==
  /\ inFlight = {p.owner : p \in running}
  /\ \A p, q \in running : p.owner = q.owner => p = q

(* What the process does is what a restart would do.                        *)
ChoiceIsStored == enabled = file

Safe == ConfirmedOnce /\ OpenIsCurrent /\ OneAtATime /\ ChoiceIsStored

(* The code does not have it: a handler under way when its extension is     *)
(* switched off is not stopped: custom-extensions.ts:231-237.               *)
OffIsIdle == \A p \in running : Serves(p.ext)
=============================================================================
