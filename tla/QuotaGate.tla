----------------------------- MODULE QuotaGate -----------------------------
(***************************************************************************)
(* How a tenant's quota admits tasks: the critical section a tenant has in *)
(* a TenantTaskGate, the preflight it runs against the usage records, the  *)
(* usage a running task records round by round, and the before_tool gate   *)
(* that reads the same records.  Token and cost limits are one limit on    *)
(* rounds: a round is the unit in which usage is recorded.                 *)
(*                                                                         *)
(* Every runner factory has a TenantTaskGate of its own, and a tenant has  *)
(* several factories at once: the active one and one for each evaluation   *)
(* case that runs.  The usage records are the tenant's, the chain and the  *)
(* seats are those of one gate.                                            *)
(***************************************************************************)
EXTENDS Naturals, Sequences, FiniteSets, FiniteSetsExt

CONSTANTS
  Tasks, Tenants,
  TenantOf,     \* the tenant a task belongs to
  Gates,        \* the tenants' places in the gates of the runner factories
  GateOf,       \* the place of the factory that makes a task's runner
  MaxTasks,     \* quota.maxTasks
  MaxTokens,    \* quota.maxTokens, in rounds
  MaxRounds,    \* bound: rounds a task records per period
  MaxPeriod,    \* bound: billing periods
  WriteFaults,  \* TRUE: a usage record may fail to be written
  ReadFaults    \* TRUE: a usage shard may fail to be read

ASSUME QuotaAssumption ==
  /\ TenantOf \in [Tasks -> Tenants]
  /\ GateOf \in [Tasks -> Gates]
  /\ \A t, u \in Tasks : GateOf[t] = GateOf[u] => TenantOf[t] = TenantOf[u]
  /\ IsFiniteSet(Tasks)
  /\ {MaxTasks, MaxTokens, MaxRounds} \subseteq Nat
  /\ MaxPeriod \in Nat \ {0}
  /\ {WriteFaults, ReadFaults} \subseteq BOOLEAN

VARIABLES
  period,    \* the current billing period
  spent,     \* usage records: rounds by task and period
  phase,     \* where each task's prompt() stands
  opened,    \* the period whose quota the task's tool gate captured
  window,    \* the period whose quota its preflight captured
  chain,     \* the gates' promise chains, the head is in the critical section
  inflight,  \* the gates' reserved seats
  snapshot,  \* the union a preflight was handed
  full,      \* verdict of evaluateQuota inside a preflight
  lane       \* what a running task's model loop does next

vars == <<period, spent, phase, opened, window, chain, inflight, snapshot,
          full, lane>>

Periods == 1..MaxPeriod
Waiting == {"waiting", "judging", "totalled", "granted"}
Critical == Waiting \ {"waiting"}
TasksOf(n) == {t \in Tasks : TenantOf[t] = n}
TasksAt(g) == {t \in Tasks : GateOf[t] = g}

-----------------------------------------------------------------------------
(* The usage records.                                                      *)

Metered(n, p) == {t \in TasksOf(n) : spent[t][p] > 0}
MeteredAt(g, p) == {t \in TasksAt(g) : spent[t][p] > 0}
Used(n, p) == MapThenSumSet(LAMBDA t : spent[t][p], TasksOf(n))

\* A shard that cannot be read is skipped: the reader sees no records.
Reads == IF ReadFaults THEN {TRUE, FALSE} ELSE {TRUE}

\* evaluateQuota on the records of period p: a limit is reached, not exceeded.
AtLimit(n, p, readable) ==
  LET tasks == IF readable THEN Cardinality(Metered(n, p)) ELSE 0
      used  == IF readable THEN Used(n, p) ELSE 0
  IN  tasks >= MaxTasks \/ used >= MaxTokens

-----------------------------------------------------------------------------
Init ==
  /\ period = 1
  /\ spent = [t \in Tasks |-> [p \in Periods |-> 0]]
  /\ phase = [t \in Tasks |-> "new"]
  /\ opened = [t \in Tasks |-> 1]
  /\ window = [t \in Tasks |-> 1]
  /\ chain = [g \in Gates |-> <<>>]
  /\ inflight = [g \in Gates |-> {}]
  /\ snapshot = [t \in Tasks |-> {}]
  /\ full = [t \in Tasks |-> FALSE]
  /\ lane = [t \in Tasks |-> "off"]

\* The submission builds the task's tool gate around the quota of this moment.
Submit(t) ==
  /\ phase[t] = "new"
  /\ phase' = [phase EXCEPT ![t] = "queued"]
  /\ opened' = [opened EXCEPT ![t] = period]
  /\ UNCHANGED <<period, spent, window, chain, inflight, snapshot, full, lane>>

\* prompt() reaches its factory's gate and joins its tenant's chain there.
Prompt(t) ==
  /\ phase[t] = "queued"
  /\ phase' = [phase EXCEPT ![t] = "waiting"]
  /\ chain' = [chain EXCEPT ![GateOf[t]] = Append(@, t)]
  /\ UNCHANGED <<period, spent, opened, window, inflight, snapshot, full, lane>>

\* The section begins: the seats and the quota are read before the first await.
Enter(t) ==
  /\ phase[t] = "waiting"
  /\ chain[GateOf[t]] # <<>> /\ Head(chain[GateOf[t]]) = t
  /\ phase' = [phase EXCEPT ![t] = "judging"]
  /\ snapshot' = [snapshot EXCEPT ![t] = inflight[GateOf[t]] \cup {t}]
  /\ window' = [window EXCEPT ![t] = period]
  /\ UNCHANGED <<period, spent, opened, chain, inflight, full, lane>>

\* evaluateQuota reads the totals.
Total(t) ==
  /\ phase[t] = "judging"
  /\ phase' = [phase EXCEPT ![t] = "totalled"]
  /\ \E readable \in Reads :
       full' = [full EXCEPT ![t] = AtLimit(TenantOf[t], window[t], readable)]
  /\ UNCHANGED <<period, spent, opened, window, chain, inflight, snapshot, lane>>

\* Mutant of Leave: a rejected preflight stays on the chain and nobody follows.
LeavePoisoned(t) ==
  chain' = IF phase'[t] = "refused" THEN chain
           ELSE [chain EXCEPT ![GateOf[t]] = Tail(@)]

\* The section ends, well or badly: the next in the chain may enter.
Leave(t) == chain' = [chain EXCEPT ![GateOf[t]] = Tail(@)]

\* The preflight's verdict on the totals and on the tasks with usage or a seat,
\* each counted once.
JudgeWith(t, seats) ==
  /\ phase[t] = "totalled"
  /\ \E readable \in Reads :
       LET known == IF readable THEN Metered(TenantOf[t], window[t]) ELSE {}
           ok    == ~full[t] /\ Cardinality(known \cup seats) <= MaxTasks
       IN  /\ phase' = [phase EXCEPT ![t] = IF ok THEN "granted" ELSE "refused"]
           /\ IF ok THEN UNCHANGED chain ELSE Leave(t)
  /\ UNCHANGED <<period, spent, opened, window, inflight, snapshot, full, lane>>

\* Mutant of Judge: only the tasks with usage records count.
JudgeMetered(t) == JudgeWith(t, {t})

Judge(t) == JudgeWith(t, snapshot[t])

ReserveFrom(t, seats) ==
  /\ phase[t] = "granted"
  /\ phase' = [phase EXCEPT ![t] = "running"]
  /\ lane' = [lane EXCEPT ![t] = "model"]
  /\ inflight' = [inflight EXCEPT ![GateOf[t]] = seats \cup {t}]
  /\ Leave(t)
  /\ UNCHANGED <<period, spent, opened, window, snapshot, full>>

\* Mutant of Reserve: the seats are those of the snapshot.
ReserveStale(t) == ReserveFrom(t, snapshot[t])

\* The seats as they are after the preflight: releases in between are kept.
Reserve(t) == ReserveFrom(t, inflight[GateOf[t]])

\* A model round burns tokens and records them; a failing record is reported
\* and changes nothing.  A tool call follows, or the lane ends.
Round(t) ==
  /\ phase[t] = "running" /\ lane[t] \in {"model", "allowed", "blocked"}
  /\ lane' = [lane EXCEPT ![t] = "tool"]
  /\ \/ /\ spent[t][period] < MaxRounds
        /\ spent' = [spent EXCEPT ![t][period] = @ + 1]
     \/ WriteFaults /\ UNCHANGED spent
  /\ UNCHANGED <<period, phase, opened, window, chain, inflight, snapshot, full>>

\* before_tool: the quota captured at submission, the records of this moment.
\* A blocked call is answered with a reason and the model goes on.
ToolGate(t) ==
  /\ phase[t] = "running" /\ lane[t] = "tool"
  /\ \E readable \in Reads :
       lane' = [lane EXCEPT ![t] =
         IF AtLimit(TenantOf[t], opened[t], readable) THEN "blocked" ELSE "allowed"]
  /\ UNCHANGED <<period, spent, phase, opened, window, chain, inflight, snapshot,
                 full>>

\* prompt() ends and gives the seat back.
Finish(t) ==
  /\ phase[t] = "running"
  /\ phase' = [phase EXCEPT ![t] = "done"]
  /\ lane' = [lane EXCEPT ![t] = "off"]
  /\ inflight' = [inflight EXCEPT ![GateOf[t]] = @ \ {t}]
  /\ UNCHANGED <<period, spent, opened, window, chain, snapshot, full>>

\* A new billing period begins.
Rollover ==
  /\ period < MaxPeriod
  /\ period' = period + 1
  /\ UNCHANGED <<spent, phase, opened, window, chain, inflight, snapshot, full,
                 lane>>

\* The process dies: seats and chains go with it, usage records stay, and no
\* interrupted task is prompted again.
Crash ==
  /\ phase' = [t \in Tasks |-> IF phase[t] \in {"queued", "running"} \cup Waiting
                               THEN "lost" ELSE phase[t]]
  /\ chain' = [g \in Gates |-> <<>>]
  /\ inflight' = [g \in Gates |-> {}]
  /\ lane' = [t \in Tasks |-> "off"]
  /\ UNCHANGED <<period, spent, opened, window, snapshot, full>>

Section(t) == Enter(t) \/ Total(t) \/ Judge(t) \/ Reserve(t)

Next ==
  \/ \E t \in Tasks :
       \/ Submit(t) \/ Prompt(t) \/ Section(t)
       \/ Round(t) \/ ToolGate(t) \/ Finish(t)
  \/ Rollover \/ Crash

Spec == Init /\ [][Next]_vars

\* The event loop runs every continuation of the gate; model and tool calls,
\* submissions, the calendar and crashes are free.
FairSpec == Spec /\ \A t \in Tasks : WF_vars(Section(t))

\* Values of TenantOf and GateOf for TLC.  All tasks are of the tenant that is
\* contended; another's would have a chain and seats of their own.  Either all of
\* them are users' tasks and share the active factory, or one is an evaluation
\* case, which has a factory to itself.
OneTenant == [t \in Tasks |-> CHOOSE n \in Tenants : TRUE]
OneGate == [t \in Tasks |-> CHOOSE g \in Gates : TRUE]
OneEvaluation ==
  LET case == CHOOSE t \in Tasks : TRUE
      own  == CHOOSE g \in Gates : TRUE
      active == CHOOSE g \in Gates : g # own
  IN  [t \in Tasks |-> IF t = case THEN own ELSE active]

-----------------------------------------------------------------------------
(* Properties.                                                             *)

\* Every variable has its type, and the model loop is on exactly while its task
\* runs.
TypeOK ==
  /\ period \in Periods
  /\ spent \in [Tasks -> [Periods -> Nat]]
  /\ phase \in [Tasks -> {"new", "queued", "running", "refused", "done", "lost"}
                           \cup Waiting]
  /\ opened \in [Tasks -> Periods] /\ window \in [Tasks -> Periods]
  /\ chain \in [Gates -> Seq(Tasks)]
  /\ inflight \in [Gates -> SUBSET Tasks]
  /\ snapshot \in [Tasks -> SUBSET Tasks]
  /\ full \in [Tasks -> BOOLEAN]
  /\ lane \in [Tasks -> {"off", "model", "tool", "allowed", "blocked"}]
  /\ \A t \in Tasks : lane[t] # "off" <=> phase[t] = "running"

\* Concurrent prompts never push one gate past maxTasks: of the tasks it admits,
\* those that have usage in this period and those that hold a seat are never more
\* than that.
WithinTaskLimit ==
  \A g \in Gates : Cardinality(MeteredAt(g, period) \cup inflight[g]) <= MaxTasks

\* The seats are exactly the running tasks' of the gate: none is lost to a
\* preflight that overlapped a release, none outlives its prompt.
SeatsAreHeld ==
  \A g \in Gates : inflight[g] = {t \in TasksAt(g) : phase[t] = "running"}

\* A preflight judges every seat of its gate, however long its reads take.
SnapshotCovers ==
  \A t \in Tasks : phase[t] \in Critical => inflight[GateOf[t]] \subseteq snapshot[t]

\* A prompt that waits for its gate's section is judged, whatever became of
\* the preflights before it.
EveryPromptJudged ==
  \A t \in Tasks :
    phase[t] = "waiting" ~> phase[t] \in {"running", "refused", "done", "lost"}

\* What InProcessRunnerFactory says of its gate, that all runners share it, and
\* TenantTaskGate of its seats, that concurrency does not break maxTasks: a whole
\* tenant keeps to the limit.  The program does not have it, since a tenant's
\* tasks run through several gates.
TenantWithinLimit ==
  \A n \in Tenants :
    Cardinality({t \in TasksOf(n) : spent[t][period] > 0 \/ phase[t] = "running"})
      <= MaxTasks

\* What preflightModelQuota says of the last admitted task: the N-th task of N
\* is let through, so the task limit does not block its tools either.
NthTaskWorks ==
  \A t \in Tasks :
    lane[t] = "blocked" => Cardinality(Metered(TenantOf[t], opened[t])) > MaxTasks

\* What Quota says of its period: usage counts from zero in a new one, so a
\* tool call is only blocked for what the current period used.
PeriodResets ==
  [][\A t \in Tasks :
       (lane'[t] = "blocked" /\ lane[t] = "tool") => AtLimit(TenantOf[t], period, TRUE)]_vars

\* What metering.ts says of the overshoot: at most one round for each task that
\* runs concurrently.
OvershootBounded ==
  \A n \in Tenants, p \in Periods :
    Used(n, p) <= MaxTokens - 1 + Cardinality(TasksOf(n))
=============================================================================
