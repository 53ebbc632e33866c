--------------------------- MODULE Confirmations ---------------------------
(***************************************************************************)
(* The confirmations of one runner: the before_tool hook that asks, the    *)
(* requests that approve, the approval timer, cancellation, and the record *)
(* of every action in memory and on disk.                                  *)
(*                                                                         *)
(* Most of it runs through finish(), which changes the record in memory,   *)
(* saves it, awaits, and then goes on only if nobody has replaced the      *)
(* record meanwhile.  A finish in flight is a record in flights; writer    *)
(* stands for the identity of the record object memory holds.              *)
(***************************************************************************)
EXTENDS FiniteSets

CONSTANTS
  Actions,      \* action ids
  Sessions,     \* actions whose command may be granted for the session
  Requests,     \* confirm requests
  SaveFaults,   \* TRUE: the action store may fail to write
  GrantFaults   \* TRUE: a session grant may be refused when it is made

\* A request is told apart from whoever else writes a record.
ASSUME ConfirmationsAssumption ==
  /\ Sessions \subseteq Actions
  /\ Requests \cap {"none", "request", "timer", "hook", "tool", "abort", "close"} = {}
  /\ {SaveFaults, GrantFaults} \subseteq BOOLEAN

VARIABLES
  alive,     \* "run", "down" after a crash, "swept" after the next start
  record,    \* status of each action in memory
  writer,    \* who wrote that record object
  stored,    \* status of each action on disk
  decision,  \* the promise the hook awaits; "open" while it has a waiter
  clock,     \* "early", "late" once expiresAt has passed, "fired" timer
  cancelled, \* the flag cancel() sets
  ended,     \* who has called cancel()
  flights,   \* finishes in flight
  hook,      \* the before_tool hook: where it is, and for which action
  tool,      \* the confirmed tool call: "none", "running", "over"
  asked,     \* confirm requests that were made
  consent,   \* actions a confirm request found pending and in time (history)
  grants     \* session grants that were made

vars == <<alive, record, writer, stored, decision, clock, cancelled, ended,
          flights, hook, tool, asked, consent, grants>>
outside == <<alive, clock, tool, asked, consent>>

Status == {"none", "pending", "approved", "executed", "failed", "rejected",
           "expired", "invalidated"}
Cancellers == {"abort", "close"}
Writers == Requests \cup Cancellers \cup {"none", "request", "timer", "hook", "tool"}
Flight == [by : Writers, action : Actions, to : Status, session : BOOLEAN,
           at : {"saved", "granted"}]
Idle == [at |-> "idle", action |-> "none"]
At(where, a) == [at |-> where, action |-> a]

Open == {a \in Actions : decision[a] = "open"}
Saves == IF SaveFaults THEN {TRUE, FALSE} ELSE {TRUE}

-----------------------------------------------------------------------------
(* finish().                                                               *)

\* Mutant of Fail: the waiter is forgotten, not refused.
FailSilently(a) ==
  /\ record' = [record EXCEPT ![a] = "failed"]
  /\ writer' = [writer EXCEPT ![a] = "none"]
  /\ UNCHANGED decision

\* A finish that throws: the record fails and a waiter is refused.
Fail(a) ==
  /\ record' = [record EXCEPT ![a] = "failed"]
  /\ writer' = [writer EXCEPT ![a] = "none"]
  /\ decision' = [decision EXCEPT ![a] = IF @ = "open" THEN "no" ELSE @]

Saved(a, to) == stored' = [stored EXCEPT ![a] = to]

\* Its first block: memory, then disk.
Begin(by, a, to, session) ==
  \E ok \in Saves :
    IF ok
    THEN /\ record' = [record EXCEPT ![a] = to]
         /\ writer' = [writer EXCEPT ![a] = by]
         /\ Saved(a, to)
         /\ flights' = flights \cup
              {[by |-> by, action |-> a, to |-> to, session |-> session, at |-> "saved"]}
         /\ UNCHANGED decision
    ELSE Fail(a) /\ UNCHANGED <<stored, flights>>

\* Mutant of Mine: a replaced record is not noticed.
MineAlways(f) == TRUE

Mine(f) == writer[f.action] = f.by

\* Its last block: tell the waiter, unless the record was replaced.
Settle(f) ==
  /\ flights' = flights \ {f}
  /\ decision' = [decision EXCEPT ![f.action] =
       IF @ = "open" /\ Mine(f) THEN (IF f.to = "approved" THEN "yes" ELSE "no") ELSE @]
  /\ UNCHANGED <<record, writer, stored, grants>>

\* Its second block, after the save: beforeSettle makes the session grant.
GrantOrSettle(f) ==
  IF Mine(f) /\ ~cancelled
  THEN \/ /\ flights' = (flights \ {f}) \cup {[f EXCEPT !.at = "granted"]}
          /\ grants' = IF f.session THEN grants \cup {f.action} ELSE grants
          /\ UNCHANGED <<record, writer, stored, decision>>
       \/ /\ f.session /\ GrantFaults
          /\ Fail(f.action)
          /\ flights' = flights \ {f}
          /\ UNCHANGED <<stored, grants>>
  ELSE Settle(f)

Continue(f) ==
  /\ alive = "run"
  /\ IF f.at = "saved" THEN GrantOrSettle(f) ELSE Settle(f)
  /\ UNCHANGED <<outside, cancelled, ended, hook>>

-----------------------------------------------------------------------------
(* The before_tool hook: one tool call at a time asks.                     *)

\* request() saves the action before memory knows it.  A save that fails changes
\* nothing: the hook throws and the kernel refuses the tool.
Request(a) ==
  /\ alive = "run" /\ hook = Idle /\ stored[a] = "none"
  /\ stored' = [stored EXCEPT ![a] = "pending"]
  /\ hook' = At("saving", a)
  /\ UNCHANGED <<outside, record, writer, decision, cancelled, ended, flights, grants>>

\* The action is known; after a cancel it is refused at once.
Await(a) ==
  /\ alive = "run" /\ hook = At("saving", a)
  /\ IF cancelled
     THEN /\ Begin("hook", a, "rejected", FALSE)
          /\ hook' = At("closing", a)
     ELSE /\ record' = [record EXCEPT ![a] = "pending"]
          /\ writer' = [writer EXCEPT ![a] = "request"]
          /\ decision' = [decision EXCEPT ![a] = "open"]
          /\ hook' = At("waiting", a)
          /\ UNCHANGED <<stored, flights>>
  /\ UNCHANGED <<outside, cancelled, ended, grants>>

\* The hook's own finish is over, or threw: the tool is blocked.
Blocked(a) ==
  /\ alive = "run" /\ hook = At("closing", a)
  /\ ~\E f \in flights : f.by = "hook"
  /\ hook' = Idle
  /\ decision' = [decision EXCEPT ![a] = IF @ = "none" THEN "no" ELSE @]
  /\ UNCHANGED <<outside, record, writer, stored, cancelled, ended, flights, grants>>

\* The promise is settled: a no blocks the tool, a yes asks the gate again.
Decided(a) ==
  /\ alive = "run" /\ hook = At("waiting", a) /\ decision[a] # "open"
  /\ hook' = IF decision[a] = "yes" THEN At("rechecking", a) ELSE Idle
  /\ UNCHANGED <<outside, record, writer, stored, decision, cancelled, ended,
                 flights, grants>>

\* The gate's second answer: path, input version and quota as they are now.
Recheck(a) ==
  /\ alive = "run" /\ hook = At("rechecking", a)
  /\ \/ /\ tool' = [tool EXCEPT ![a] = "running"]
        /\ hook' = Idle
        /\ UNCHANGED <<record, writer, stored, decision, flights>>
     \/ /\ Begin("hook", a, "invalidated", FALSE)
        /\ hook' = At("closing", a)
        /\ UNCHANGED tool
  /\ UNCHANGED <<alive, clock, asked, consent, cancelled, ended, grants>>

\* after_tool: completed() marks the approved action of the call.
ToolEnds(a) ==
  /\ alive = "run" /\ tool[a] = "running"
  /\ tool' = [tool EXCEPT ![a] = "over"]
  /\ IF record[a] = "approved"
     THEN \E to \in {"executed", "failed"} : Begin("tool", a, to, FALSE)
     ELSE UNCHANGED <<record, writer, stored, decision, flights>>
  /\ UNCHANGED <<alive, clock, asked, consent, cancelled, ended, hook, grants>>

-----------------------------------------------------------------------------
(* Users, timers, cancellation, crashes.                                   *)

\* An approve in flight for the session keeps the action for itself.
Approving(a) == \E f \in flights : f.action = a /\ f.session

Approvable(a) == record[a] = "pending" /\ clock[a] = "early" /\ ~Approving(a)

\* Mutant of Approve: the session grant is made before the action is saved.
ApproveGrantFirst(r, a) ==
  /\ alive = "run" /\ r \notin asked
  /\ asked' = asked \cup {r}
  /\ IF Approvable(a)
     THEN \E session \in {FALSE} \cup {a \in Sessions} :
            /\ Begin(r, a, "approved", session)
            /\ grants' = IF session THEN grants \cup {a} ELSE grants
            /\ consent' = consent \cup {a}
     ELSE UNCHANGED <<record, writer, stored, decision, flights, consent, grants>>
  /\ UNCHANGED <<alive, clock, tool, cancelled, ended, hook>>

\* approve(): an action that is approved or executed is answered with success
\* and nothing more; one that is not pending, or late, is an error.
Approve(r, a) ==
  /\ alive = "run" /\ r \notin asked
  /\ asked' = asked \cup {r}
  /\ IF Approvable(a)
     THEN /\ \E session \in {FALSE} \cup {a \in Sessions} : Begin(r, a, "approved", session)
          /\ consent' = consent \cup {a}
     ELSE UNCHANGED <<record, writer, stored, decision, flights, consent>>
  /\ UNCHANGED <<alive, clock, tool, cancelled, ended, hook, grants>>

\* expiresAt passes.
Pass(a) ==
  /\ alive = "run" /\ decision[a] = "open" /\ clock[a] = "early"
  /\ clock' = [clock EXCEPT ![a] = "late"]
  /\ UNCHANGED <<alive, record, writer, stored, decision, cancelled, ended,
                 flights, hook, tool, asked, consent, grants>>

\* The timer of a waiter fires, once.
Expire(a) ==
  /\ alive = "run" /\ decision[a] = "open" /\ clock[a] = "late"
  /\ clock' = [clock EXCEPT ![a] = "fired"]
  /\ IF record[a] = "pending" THEN Begin("timer", a, "expired", FALSE)
     ELSE UNCHANGED <<record, writer, stored, decision, flights>>
  /\ UNCHANGED <<alive, cancelled, ended, hook, tool, asked, consent, grants>>

\* cancel(), from abort() or close(): the waiting action, if any, is refused.
Cancel(c) ==
  /\ alive = "run" /\ c \notin ended
  /\ cancelled' = TRUE
  /\ ended' = ended \cup {c}
  /\ IF Open = {} THEN UNCHANGED <<record, writer, stored, decision, flights>>
     ELSE \E a \in Open : Begin(c, a, "rejected", FALSE)
  /\ UNCHANGED <<outside, hook, grants>>

\* The process dies: the disk is all that is left.
Crash ==
  /\ alive = "run"
  /\ alive' = "down"
  /\ record' = [a \in Actions |-> "none"]
  /\ writer' = [a \in Actions |-> "none"]
  /\ decision' = [a \in Actions |-> IF decision[a] = "open" THEN "no" ELSE decision[a]]
  /\ cancelled' = TRUE
  /\ flights' = {} /\ hook' = Idle /\ grants' = {}
  /\ tool' = [a \in Actions |-> IF tool[a] = "running" THEN "over" ELSE tool[a]]
  /\ UNCHANGED <<stored, clock, ended, asked, consent>>

\* The next start invalidates what it finds waiting or authorised, file by file.
Sweep(a) ==
  /\ alive = "down" /\ stored[a] \in {"pending", "approved"}
  /\ stored' = [stored EXCEPT ![a] = "invalidated"]
  /\ UNCHANGED <<outside, record, writer, decision, cancelled, ended, flights, hook, grants>>

Start ==
  /\ alive = "down" /\ \A a \in Actions : stored[a] \notin {"pending", "approved"}
  /\ alive' = "swept"
  /\ UNCHANGED <<record, writer, stored, decision, clock, cancelled, ended,
                 flights, hook, tool, asked, consent, grants>>

-----------------------------------------------------------------------------
Init ==
  /\ alive = "run"
  /\ record = [a \in Actions |-> "none"]
  /\ writer = [a \in Actions |-> "none"]
  /\ stored = [a \in Actions |-> "none"]
  /\ decision = [a \in Actions |-> "none"]
  /\ clock = [a \in Actions |-> "early"]
  /\ cancelled = FALSE /\ ended = {}
  /\ flights = {} /\ hook = Idle
  /\ tool = [a \in Actions |-> "none"]
  /\ asked = {} /\ consent = {} /\ grants = {}

HookStep(a) == Await(a) \/ Blocked(a) \/ Decided(a) \/ Recheck(a)

Next ==
  \/ \E f \in flights : Continue(f)
  \/ \E a \in Actions :
       \/ Request(a) \/ HookStep(a) \/ ToolEnds(a)
       \/ Pass(a) \/ Expire(a) \/ Sweep(a)
       \/ \E r \in Requests : Approve(r, a)
  \/ \E c \in Cancellers : Cancel(c)
  \/ Crash \/ Start

Spec == Init /\ [][Next]_vars

\* The event loop runs every continuation, time passes, timers fire.
FairSpec ==
  /\ Spec
  /\ WF_vars(\E f \in flights : Continue(f))
  /\ \A a \in Actions : WF_vars(HookStep(a)) /\ WF_vars(Pass(a)) /\ WF_vars(Expire(a))

-----------------------------------------------------------------------------
(* Properties.                                                             *)

\* Every variable has its type; one call at a time awaits a decision, and a tool
\* that was started had a yes.
TypeOK ==
  /\ alive \in {"run", "down", "swept"}
  /\ record \in [Actions -> Status] /\ stored \in [Actions -> Status]
  /\ writer \in [Actions -> Writers]
  /\ decision \in [Actions -> {"none", "open", "yes", "no"}]
  /\ clock \in [Actions -> {"early", "late", "fired"}]
  /\ cancelled \in BOOLEAN /\ ended \subseteq Cancellers
  /\ flights \subseteq Flight
  /\ hook \in {Idle} \cup
       [at : {"saving", "waiting", "rechecking", "closing"}, action : Actions]
  /\ tool \in [Actions -> {"none", "running", "over"}]
  /\ asked \subseteq Requests /\ consent \subseteq Actions /\ grants \subseteq Actions
  /\ \A a \in Open : hook = At("waiting", a)
  /\ \A a \in Actions : tool[a] # "none" => decision[a] = "yes"

\* What the user and the tool call see of the races between approvals, timer,
\* cancellation and failing writes is what ActionDecision promises.
D == INSTANCE ActionDecision WITH
       verdict <- decision, over <- cancelled,
       overdue <- {a \in Actions : clock[a] # "early"}
ImplementsDecision == D!Spec

\* No interleaving leaves a tool call waiting for ever: whoever replaced the
\* record of a finish settles in its place.
WaitSettles == \A a \in Actions : decision[a] = "open" ~> decision[a] # "open"

\* Memory and disk (which the action list of the server reads) part only over an
\* action that failed: a refusal that overtook an approval did so on disk as well.
DiskFollows ==
  alive = "run" =>
    \A a \in Actions : record[a] \in {"none", "failed"} \/ stored[a] = record[a]

\* A session grant exists only for an action that is authorised or about to be, or
\* whose runner was cancelled on the way (its task drops its grants when it ends).
GrantBacked ==
  \A a \in grants :
    \/ decision[a] = "yes" \/ cancelled
    \/ \E f \in flights : f.action = a /\ f.session /\ f.at = "granted" /\ Mine(f)

\* The records of confirmations.ts, in memory and on disk, and the grants of local
\* control stay consistent through every failing save.
Safe == TypeOK /\ DiskFollows /\ GrantBacked
=============================================================================
