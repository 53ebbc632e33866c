-------------------------- MODULE QuotaGateProofs --------------------------
(***************************************************************************)
(* Theorems about QuotaGate, for any tenants, gates, tasks and limits,     *)
(* however the tasks are spread over the gates.                            *)
(*                                                                         *)
(* The argument for the task limit of a gate: the chain lets one preflight *)
(* in at a time (Chained), so the gate's seats only shrink while it judges *)
(* and its snapshot stays an upper bound of them (SnapshotCovers).  Usage  *)
(* of the gate's tasks that appears meanwhile belongs to a task with a     *)
(* seat, hence to the snapshot (Foreseen).  What the verdict counted of    *)
(* the gate's tasks is then still an upper bound when the seat is taken    *)
(* (Granted).  Nothing of this holds of usage through other gates, so the  *)
(* limit of a tenant follows only where one gate has all its tasks.        *)
(***************************************************************************)
EXTENDS QuotaGate, FiniteSetTheorems, TLAPS

\* One chain per gate: its members are the gate's waiting tasks, each once,
\* and all but the first are outside the section.
Chained ==
  \A n \in Gates :
    /\ \A i \in 1..Len(chain[n]) :
         /\ phase[chain[n][i]] \in Waiting /\ GateOf[chain[n][i]] = n
         /\ i # 1 => phase[chain[n][i]] = "waiting"
         /\ \A j \in 1..Len(chain[n]) : chain[n][i] = chain[n][j] => i = j
    /\ \A t \in TasksAt(n) : phase[t] \in Waiting =>
         \E i \in 1..Len(chain[n]) : chain[n][i] = t

GateInv == TypeOK /\ Chained /\ SeatsAreHeld /\ SnapshotCovers

\* In the section of a task nobody else is, and its chain is not empty.
LEMMA SectionIsHead ==
  ASSUME TypeOK, Chained, NEW t \in Tasks, phase[t] \in Critical
  PROVE  /\ chain[GateOf[t]] # <<>> /\ Head(chain[GateOf[t]]) = t
         /\ \A u \in TasksAt(GateOf[t]) : phase[u] \in Critical => u = t
<1> DEFINE n == GateOf[t]
<1> n \in Gates /\ t \in TasksAt(n)
  BY QuotaAssumption DEF TasksAt
<1>1. chain[n] \in Seq(Tasks)
  BY DEF TypeOK
<1>2. \A u \in TasksAt(n) : phase[u] \in Critical => Len(chain[n]) >= 1 /\ chain[n][1] = u
  <2> SUFFICES ASSUME NEW u \in TasksAt(n), phase[u] \in Critical
               PROVE  Len(chain[n]) >= 1 /\ chain[n][1] = u
    OBVIOUS
  <2>1. PICK i \in 1..Len(chain[n]) : chain[n][i] = u
    BY DEF Chained, Critical
  <2>2. i = 1
    BY <2>1 DEF Chained, Critical
  <2> QED BY <2>1, <2>2, <1>1
<1>3. Len(chain[n]) >= 1 /\ chain[n][1] = t
  BY <1>2
<1>4. chain[n] # <<>> /\ Head(chain[n]) = t
  BY <1>1, <1>3
<1> QED BY <1>2, <1>3, <1>4

\* The gate's bookkeeping is right in the initial state.
LEMMA GateInit == Init => GateInv
BY QuotaAssumption DEF Init, GateInv, TypeOK, Chained, SeatsAreHeld, SnapshotCovers,
   Waiting, Critical, TasksAt, Periods

\* Leaving the section shortens the chain of the task's gate by its head.
LEMMA LeaveType ==
  ASSUME TypeOK, Chained, NEW t \in Tasks, phase[t] \in Critical, Leave(t)
  PROVE  chain' \in [Gates -> Seq(Tasks)]
<1> DEFINE n == GateOf[t]
<1>1. n \in Gates /\ chain[n] \in Seq(Tasks) /\ chain[n] # <<>>
  BY SectionIsHead, QuotaAssumption DEF TypeOK
<1>2. Tail(chain[n]) \in Seq(Tasks)
  BY <1>1
<1> QED BY <1>1, <1>2 DEF Leave, TypeOK

\* The verdict of the totals is a truth value.
LEMMA LimitType == \A n, p, r : AtLimit(n, p, r) \in BOOLEAN
BY DEF AtLimit

\* Types are kept by every step.
LEMMA TypeStep == TypeOK /\ Chained /\ [Next]_vars => TypeOK'
<1> SUFFICES ASSUME TypeOK, Chained, [Next]_vars PROVE TypeOK'
  OBVIOUS
<1> USE QuotaAssumption DEF TypeOK, Periods, Waiting
<1>1. ASSUME NEW t \in Tasks, Submit(t) PROVE TypeOK'
  BY <1>1 DEF Submit
<1>2. ASSUME NEW t \in Tasks, Prompt(t) PROVE TypeOK'
  <2>1. GateOf[t] \in Gates /\ Append(chain[GateOf[t]], t) \in Seq(Tasks)
    OBVIOUS
  <2>2. chain' \in [Gates -> Seq(Tasks)]
    BY <1>2, <2>1 DEF Prompt
  <2> QED BY <1>2, <2>2 DEF Prompt
<1>3. ASSUME NEW t \in Tasks, Enter(t) PROVE TypeOK'
  <2>1. snapshot' \in [Tasks -> SUBSET Tasks]
    <3>1. inflight[GateOf[t]] \cup {t} \in SUBSET Tasks
      OBVIOUS
    <3>2. snapshot' = [snapshot EXCEPT ![t] = inflight[GateOf[t]] \cup {t}]
      BY <1>3 DEF Enter
    <3> QED BY <3>1, <3>2
  <2>2. phase[t] = "waiting" /\ phase' = [phase EXCEPT ![t] = "judging"]
        /\ window' = [window EXCEPT ![t] = period]
        /\ UNCHANGED <<period, spent, opened, chain, inflight, full, lane>>
    BY <1>3 DEF Enter
  <2> QED BY <2>1, <2>2
<1>4. ASSUME NEW t \in Tasks, Total(t) PROVE TypeOK'
  <2>1. full' \in [Tasks -> BOOLEAN]
    BY <1>4, LimitType DEF Total
  <2>2. UNCHANGED <<period, spent, opened, window, chain, inflight, snapshot, lane>>
        /\ phase[t] = "judging" /\ phase' = [phase EXCEPT ![t] = "totalled"]
    BY <1>4 DEF Total
  <2> QED BY <2>1, <2>2
<1>5. ASSUME NEW t \in Tasks, Judge(t) PROVE TypeOK'
  <2>1. phase[t] \in Critical
    BY <1>5 DEF Judge, JudgeWith, Critical
  <2>2. chain' \in [Gates -> Seq(Tasks)]
    BY <1>5, <2>1, LeaveType DEF Judge, JudgeWith
  <2>3. \E out \in {"granted", "refused"} : phase' = [phase EXCEPT ![t] = out]
    BY <1>5 DEF Judge, JudgeWith
  <2>4. phase[t] = "totalled"
        /\ UNCHANGED <<period, spent, opened, window, inflight, snapshot, full, lane>>
    BY <1>5 DEF Judge, JudgeWith
  <2>5. phase' \in [Tasks -> {"new", "queued", "running", "refused", "done", "lost"} \cup Waiting]
    BY <2>3
  <2>6. lane' = lane /\ \A u \in Tasks : phase'[u] = "running" <=> phase[u] = "running"
    BY <2>3, <2>4
  <2> QED BY <2>2, <2>4, <2>5, <2>6
<1>6. ASSUME NEW t \in Tasks, Reserve(t) PROVE TypeOK'
  <2>1. phase[t] \in Critical
    BY <1>6 DEF Reserve, ReserveFrom, Critical
  <2>2. chain' \in [Gates -> Seq(Tasks)]
    BY <1>6, <2>1, LeaveType DEF Reserve, ReserveFrom
  <2>3. inflight' \in [Gates -> SUBSET Tasks]
    BY <1>6 DEF Reserve, ReserveFrom
  <2>4. phase[t] = "granted" /\ phase' = [phase EXCEPT ![t] = "running"]
        /\ lane' = [lane EXCEPT ![t] = "model"]
        /\ UNCHANGED <<period, spent, opened, window, snapshot, full>>
    BY <1>6 DEF Reserve, ReserveFrom
  <2> QED BY <2>2, <2>3, <2>4
<1>7. ASSUME NEW t \in Tasks, Round(t) PROVE TypeOK'
  <2>1. spent' \in [Tasks -> [Periods -> Nat]]
    <3>1. CASE spent' = [spent EXCEPT ![t][period] = @ + 1]
      <4> DEFINE of == spent[t]
                 more == of[period] + 1
      <4>1. of \in [Periods -> Nat] /\ period \in Periods
        OBVIOUS
      <4>2. more \in Nat
        BY <4>1
      <4> HIDE DEF more, of
      <4>3. [of EXCEPT ![period] = more] \in [Periods -> Nat]
        BY ONLY <4>1, <4>2
      <4>4. [spent[t] EXCEPT ![period] = @ + 1] \in [Periods -> Nat]
        BY <4>3 DEF more, of
      <4> QED BY <3>1, <4>4
    <3>2. CASE UNCHANGED spent
      BY <3>2
    <3> QED BY <3>1, <3>2, <1>7 DEF Round
  <2>2. phase[t] = "running" /\ lane' = [lane EXCEPT ![t] = "tool"]
        /\ UNCHANGED <<period, phase, opened, window, chain, inflight, snapshot, full>>
    BY <1>7 DEF Round
  <2> QED BY <2>1, <2>2
<1>8. ASSUME NEW t \in Tasks, ToolGate(t) PROVE TypeOK'
  <2>1. \E v \in {"blocked", "allowed"} : lane' = [lane EXCEPT ![t] = v]
    BY <1>8 DEF ToolGate
  <2>2. phase[t] = "running"
        /\ UNCHANGED <<period, spent, phase, opened, window, chain, inflight,
                       snapshot, full>>
    BY <1>8 DEF ToolGate
  <2>3. PICK v \in {"blocked", "allowed"} : lane' = [lane EXCEPT ![t] = v]
    BY <2>1
  <2>4. lane' \in [Tasks -> {"off", "model", "tool", "allowed", "blocked"}]
    BY <2>3
  <2>5. \A u \in Tasks : lane'[u] # "off" <=> phase'[u] = "running"
    BY <2>2, <2>3
  <2> QED BY <2>2, <2>4, <2>5
<1>9. ASSUME NEW t \in Tasks, Finish(t) PROVE TypeOK'
  BY <1>9 DEF Finish
<1>10. ASSUME Rollover PROVE TypeOK'
  BY <1>10 DEF Rollover
<1>11. ASSUME Crash PROVE TypeOK'
  BY <1>11 DEF Crash
<1>12. CASE UNCHANGED vars
  BY <1>12 DEF vars
<1> QED BY <1>1, <1>2, <1>3, <1>4, <1>5, <1>6, <1>7, <1>8, <1>9, <1>10, <1>11,
           <1>12 DEF Next, Section

\* The chains as a step that neither joins nor leaves one sees them.
LEMMA ChainedKept ==
  ASSUME TypeOK, Chained, TypeOK', chain' = chain,
         \A u \in Tasks : phase'[u] \in Waiting <=> phase[u] \in Waiting,
         \A u \in Tasks : phase[u] = "waiting" =>
            phase'[u] = "waiting" \/ Head(chain[GateOf[u]]) = u
  PROVE  Chained'
<1> SUFFICES ASSUME NEW n \in Gates
             PROVE
    /\ \A i \in 1..Len(chain[n]) :
         /\ phase'[chain[n][i]] \in Waiting /\ GateOf[chain[n][i]] = n
         /\ i # 1 => phase'[chain[n][i]] = "waiting"
         /\ \A j \in 1..Len(chain[n]) : chain[n][i] = chain[n][j] => i = j
    /\ \A t \in TasksAt(n) : phase'[t] \in Waiting =>
         \E i \in 1..Len(chain[n]) : chain[n][i] = t
  BY DEF Chained
<1>1. chain[n] \in Seq(Tasks)
  BY DEF TypeOK
<1>2. ASSUME NEW i \in 1..Len(chain[n])
      PROVE  /\ phase'[chain[n][i]] \in Waiting /\ GateOf[chain[n][i]] = n
             /\ i # 1 => phase'[chain[n][i]] = "waiting"
             /\ \A j \in 1..Len(chain[n]) : chain[n][i] = chain[n][j] => i = j
  <2> DEFINE u == chain[n][i]
  <2>1. u \in Tasks
    BY <1>1
  <2>2. phase[u] \in Waiting /\ GateOf[u] = n /\ (i # 1 => phase[u] = "waiting")
        /\ \A j \in 1..Len(chain[n]) : u = chain[n][j] => i = j
    BY DEF Chained
  <2>3. Head(chain[n]) = chain[n][1] /\ 1 \in 1..Len(chain[n])
    BY <1>1
  <2> QED BY <2>1, <2>2, <2>3
<1>3. \A t \in TasksAt(n) : phase'[t] \in Waiting =>
         \E i \in 1..Len(chain[n]) : chain[n][i] = t
  BY DEF Chained, TasksAt
<1> QED BY <1>2, <1>3

\* The chain of the gate whose section ends starts with the next waiting task.
LEMMA ChainedLeave ==
  ASSUME TypeOK, Chained, NEW t \in Tasks, phase[t] \in Critical, Leave(t),
         NEW out \in {"refused", "running"}, phase' = [phase EXCEPT ![t] = out]
  PROVE  Chained'
<1> DEFINE m == GateOf[t]
           q == Tail(chain[m])
<1>1. m \in Gates /\ chain[m] \in Seq(Tasks) /\ chain[m] # <<>> /\ chain[m][1] = t
  <2>1. m \in Gates /\ chain[m] \in Seq(Tasks)
    BY QuotaAssumption DEF TypeOK
  <2>2. chain[m] # <<>> /\ Head(chain[m]) = t
    BY SectionIsHead
  <2> QED BY <2>1, <2>2
<1>2. /\ Len(q) = Len(chain[m]) - 1
      /\ \A i \in 1..Len(q) : q[i] = chain[m][i + 1] /\ i + 1 \in 1..Len(chain[m])
      /\ Len(q) \in Nat
  BY <1>1
<1>3. chain' = [chain EXCEPT ![m] = q]
  BY DEF Leave
<1>4. \A u \in Tasks : u # t => phase'[u] = phase[u]
  BY DEF TypeOK
<1>5. phase'[t] \notin Waiting
  BY DEF TypeOK, Waiting
<1>6. ASSUME NEW n \in Gates, n # m, NEW i \in 1..Len(chain[n])
      PROVE  chain[n][i] \in Tasks /\ chain[n][i] # t
  <2>1. chain[n] \in Seq(Tasks)
    BY DEF TypeOK
  <2>2. GateOf[chain[n][i]] = n
    BY DEF Chained
  <2> QED BY <1>6, <2>1, <2>2
<1>7. ASSUME NEW i \in 1..Len(chain[m]), i # 1
      PROVE  chain[m][i] \in Tasks /\ chain[m][i] # t /\ phase[chain[m][i]] = "waiting"
  <2>1. 1 \in 1..Len(chain[m])
    BY <1>1
  <2> QED BY <1>1, <1>7, <2>1 DEF Chained
<1>8. ASSUME NEW n \in Gates
      PROVE
        /\ \A i \in 1..Len(chain'[n]) :
             /\ phase'[chain'[n][i]] \in Waiting /\ GateOf[chain'[n][i]] = n
             /\ i # 1 => phase'[chain'[n][i]] = "waiting"
             /\ \A j \in 1..Len(chain'[n]) : chain'[n][i] = chain'[n][j] => i = j
        /\ \A u \in TasksAt(n) : phase'[u] \in Waiting =>
             \E i \in 1..Len(chain'[n]) : chain'[n][i] = u
  <2>1. CASE n # m
    <3>1. chain'[n] = chain[n]
      BY <1>3, <2>1 DEF TypeOK
    <3>2. \A i \in 1..Len(chain[n]) :
             /\ phase'[chain[n][i]] \in Waiting /\ GateOf[chain[n][i]] = n
             /\ i # 1 => phase'[chain[n][i]] = "waiting"
             /\ \A j \in 1..Len(chain[n]) : chain[n][i] = chain[n][j] => i = j
      BY <1>4, <1>6, <2>1 DEF Chained
    <3>3. \A u \in TasksAt(n) : phase'[u] \in Waiting =>
             \E i \in 1..Len(chain[n]) : chain[n][i] = u
      BY <1>4, <2>1 DEF Chained, TasksAt
    <3> QED BY <3>1, <3>2, <3>3
  <2>2. CASE n = m
    <3>1. chain'[n] = q
      BY <1>1, <1>3, <2>2 DEF TypeOK
    <3>2. ASSUME NEW i \in 1..Len(q)
          PROVE  /\ phase'[q[i]] \in Waiting /\ GateOf[q[i]] = n
                 /\ i # 1 => phase'[q[i]] = "waiting"
                 /\ \A j \in 1..Len(q) : q[i] = q[j] => i = j
      <4>1. q[i] = chain[m][i + 1] /\ i + 1 \in 1..Len(chain[m]) /\ i + 1 # 1
        BY <1>2
      <4>2. phase'[q[i]] = "waiting" /\ GateOf[q[i]] = n
        BY <4>1, <1>4, <1>7, <2>2 DEF Chained
      <4>3. ASSUME NEW j \in 1..Len(q), q[i] = q[j] PROVE i = j
        <5>1. q[j] = chain[m][j + 1] /\ j + 1 \in 1..Len(chain[m])
          BY <1>2
        <5>2. i + 1 = j + 1
          BY <4>1, <4>3, <5>1, <1>1 DEF Chained
        <5> QED BY <5>2
      <4> QED BY <4>2, <4>3 DEF Waiting
    <3>3. ASSUME NEW u \in TasksAt(n), phase'[u] \in Waiting
          PROVE  \E i \in 1..Len(q) : q[i] = u
      <4>1. u \in Tasks /\ u # t /\ phase[u] \in Waiting
        BY <3>3, <1>4, <1>5 DEF TasksAt
      <4>2. PICK k \in 1..Len(chain[m]) : chain[m][k] = u
        BY <4>1, <2>2, <3>3 DEF Chained
      <4>3. k # 1
        BY <4>1, <4>2, <1>1
      <4>4. k - 1 \in 1..Len(q) /\ q[k - 1] = u
        BY <4>2, <4>3, <1>1, <1>2
      <4> QED BY <4>4
    <3> QED BY <3>1, <3>2, <3>3
  <2> QED BY <2>1, <2>2
<1> QED BY <1>8 DEF Chained

\* A task that joins goes to the end of its gate's chain.
LEMMA ChainedJoin ==
  ASSUME TypeOK, Chained, NEW t \in Tasks, Prompt(t)
  PROVE  Chained'
<1> DEFINE m == GateOf[t]
           q == Append(chain[m], t)
<1>1. m \in Gates /\ chain[m] \in Seq(Tasks)
  BY QuotaAssumption DEF TypeOK
<1>2. /\ Len(q) = Len(chain[m]) + 1 /\ q[Len(q)] = t
      /\ \A i \in 1..Len(chain[m]) : q[i] = chain[m][i]
      /\ Len(chain[m]) \in Nat
  BY <1>1
<1>3. chain' = [chain EXCEPT ![m] = q] /\ phase[t] = "queued"
      /\ phase' = [phase EXCEPT ![t] = "waiting"]
  BY DEF Prompt
<1>4. (\A u \in Tasks : u # t => phase'[u] = phase[u]) /\ phase'[t] = "waiting"
  BY <1>3 DEF TypeOK
<1>5. ASSUME NEW n \in Gates, NEW i \in 1..Len(chain[n])
      PROVE  chain[n][i] \in Tasks /\ chain[n][i] # t
  <2>1. chain[n] \in Seq(Tasks)
    BY DEF TypeOK
  <2>2. phase[chain[n][i]] \in Waiting
    BY DEF Chained
  <2> QED BY <1>3, <2>1, <2>2 DEF Waiting
<1>6. ASSUME NEW n \in Gates
      PROVE
        /\ \A i \in 1..Len(chain'[n]) :
             /\ phase'[chain'[n][i]] \in Waiting /\ GateOf[chain'[n][i]] = n
             /\ i # 1 => phase'[chain'[n][i]] = "waiting"
             /\ \A j \in 1..Len(chain'[n]) : chain'[n][i] = chain'[n][j] => i = j
        /\ \A u \in TasksAt(n) : phase'[u] \in Waiting =>
             \E i \in 1..Len(chain'[n]) : chain'[n][i] = u
  <2>1. CASE n # m
    <3>1. chain'[n] = chain[n]
      BY <1>3, <2>1 DEF TypeOK
    <3>2. \A i \in 1..Len(chain[n]) :
             /\ phase'[chain[n][i]] \in Waiting /\ GateOf[chain[n][i]] = n
             /\ i # 1 => phase'[chain[n][i]] = "waiting"
             /\ \A j \in 1..Len(chain[n]) : chain[n][i] = chain[n][j] => i = j
      BY <1>4, <1>5 DEF Chained
    <3>3. \A u \in TasksAt(n) : phase'[u] \in Waiting =>
             \E i \in 1..Len(chain[n]) : chain[n][i] = u
      BY <1>4, <2>1 DEF Chained, TasksAt
    <3> QED BY <3>1, <3>2, <3>3
  <2>2. CASE n = m
    <3>1. chain'[n] = q
      BY <1>1, <1>3, <2>2 DEF TypeOK
    <3>2. ASSUME NEW i \in 1..Len(q)
          PROVE  /\ phase'[q[i]] \in Waiting /\ GateOf[q[i]] = n
                 /\ i # 1 => phase'[q[i]] = "waiting"
                 /\ \A j \in 1..Len(q) : q[i] = q[j] => i = j
      <4>1. CASE i = Len(q)
        <5>1. \A j \in 1..Len(q) : q[j] = t => j = Len(q)
          BY <1>1, <1>2, <1>5
        <5> QED BY <4>1, <5>1, <1>2, <1>4, <2>2 DEF Waiting
      <4>2. CASE i # Len(q)
        <5>1. i \in 1..Len(chain[m])
          BY <4>2, <1>2
        <5>2. q[i] = chain[m][i] /\ q[i] # t /\ q[i] \in Tasks
          BY <5>1, <1>1, <1>2, <1>5
        <5>3. phase[q[i]] \in Waiting /\ GateOf[q[i]] = n
              /\ (i # 1 => phase[q[i]] = "waiting")
          BY <5>1, <5>2, <1>1, <2>2 DEF Chained
        <5>4. \A j \in 1..Len(chain[m]) : q[i] = q[j] => i = j
          BY <5>1, <5>2, <1>1, <1>2 DEF Chained
        <5>5. \A j \in 1..Len(q) : q[i] = q[j] => i = j
          BY <5>2, <5>4, <1>2
        <5> QED BY <5>2, <5>3, <5>5, <1>4
      <4> QED BY <4>1, <4>2
    <3>3. ASSUME NEW u \in TasksAt(n), phase'[u] \in Waiting
          PROVE  \E i \in 1..Len(q) : q[i] = u
      <4>1. CASE u = t
        BY <4>1, <1>2
      <4>2. CASE u # t
        <5>1. PICK k \in 1..Len(chain[m]) : chain[m][k] = u
          BY <4>2, <3>3, <1>4, <2>2 DEF Chained, TasksAt
        <5> QED BY <5>1, <1>2
      <4> QED BY <4>1, <4>2
    <3> QED BY <3>1, <3>2, <3>3
  <2> QED BY <2>1, <2>2
<1> QED BY <1>6 DEF Chained

\* Every step keeps the chains in order.
LEMMA ChainedStep == TypeOK /\ Chained /\ [Next]_vars => Chained'
<1> SUFFICES ASSUME TypeOK, Chained, [Next]_vars PROVE Chained'
  OBVIOUS
<1>0. TypeOK'
  BY TypeStep
<1>1. ASSUME NEW t \in Tasks, Submit(t) \/ Total(t) PROVE Chained'
  <2>1. chain' = chain
    BY <1>1 DEF Submit, Total
  <2>2. CASE phase[t] = "new" /\ phase' = [phase EXCEPT ![t] = "queued"]
    BY <1>0, <2>1, <2>2, ChainedKept DEF TypeOK, Waiting
  <2>3. CASE phase[t] = "judging" /\ phase' = [phase EXCEPT ![t] = "totalled"]
    BY <1>0, <2>1, <2>3, ChainedKept DEF TypeOK, Waiting
  <2> QED BY <1>1, <2>2, <2>3 DEF Submit, Total
<1>2. ASSUME NEW t \in Tasks, Prompt(t) PROVE Chained'
  BY <1>2, ChainedJoin
<1>3. ASSUME NEW t \in Tasks, Enter(t) PROVE Chained'
  <2>1. chain' = chain /\ Head(chain[GateOf[t]]) = t /\ phase[t] = "waiting"
        /\ phase' = [phase EXCEPT ![t] = "judging"]
    BY <1>3 DEF Enter
  <2>2. \A u \in Tasks : u # t => phase'[u] = phase[u]
    BY <2>1 DEF TypeOK
  <2>3. phase[t] \in Waiting /\ phase'[t] \in Waiting
    BY <2>1 DEF TypeOK, Waiting
  <2> QED BY <1>0, <2>1, <2>2, <2>3, ChainedKept
<1>4. ASSUME NEW t \in Tasks, Judge(t) PROVE Chained'
  <2>1. phase[t] = "totalled"
    BY <1>4 DEF Judge, JudgeWith
  <2>2. \/ phase' = [phase EXCEPT ![t] = "granted"] /\ chain' = chain
        \/ phase' = [phase EXCEPT ![t] = "refused"] /\ Leave(t)
    BY <1>4 DEF Judge, JudgeWith
  <2>3. CASE phase' = [phase EXCEPT ![t] = "granted"] /\ chain' = chain
    BY <1>0, <2>1, <2>3, ChainedKept DEF TypeOK, Waiting
  <2>4. CASE phase' = [phase EXCEPT ![t] = "refused"] /\ Leave(t)
    BY <2>1, <2>4, ChainedLeave DEF Critical, Waiting
  <2> QED BY <2>2, <2>3, <2>4
<1>5. ASSUME NEW t \in Tasks, Reserve(t) PROVE Chained'
  <2>1. phase[t] = "granted" /\ phase' = [phase EXCEPT ![t] = "running"] /\ Leave(t)
    BY <1>5 DEF Reserve, ReserveFrom
  <2> QED BY <2>1, ChainedLeave DEF Critical, Waiting
<1>6. ASSUME NEW t \in Tasks, Finish(t) PROVE Chained'
  <2>1. chain' = chain /\ phase[t] = "running"
        /\ phase' = [phase EXCEPT ![t] = "done"]
    BY <1>6 DEF Finish
  <2> QED BY <1>0, <2>1, ChainedKept DEF TypeOK, Waiting
<1>7. CASE UNCHANGED <<phase, chain>>
  BY <1>0, <1>7, ChainedKept
<1>8. ASSUME Crash PROVE Chained'
  <2>1. \A n \in Gates : chain'[n] = <<>>
    BY <1>8 DEF Crash
  <2>2. \A t \in Tasks : phase'[t] \notin Waiting
    BY <1>8 DEF Crash, Waiting
  <2> QED BY <2>1, <2>2 DEF Chained, TasksAt
<1> QED BY <1>1, <1>2, <1>3, <1>4, <1>5, <1>6, <1>7, <1>8
        DEF Next, Section, Round, ToolGate, Rollover, vars

\* Seats follow the tasks that run.
LEMMA SeatsStep == TypeOK /\ SeatsAreHeld /\ [Next]_vars => SeatsAreHeld'
<1> SUFFICES ASSUME TypeOK, SeatsAreHeld, [Next]_vars PROVE SeatsAreHeld'
  OBVIOUS
<1> USE DEF TypeOK, SeatsAreHeld, TasksAt
<1>1. ASSUME NEW t \in Tasks, inflight' = inflight,
             NEW to \in {"queued", "waiting", "judging", "totalled", "granted", "refused"},
             phase[t] # "running", phase' = [phase EXCEPT ![t] = to]
      PROVE  SeatsAreHeld'
  BY <1>1
<1>2. ASSUME NEW t \in Tasks,
             Submit(t) \/ Prompt(t) \/ Enter(t) \/ Total(t) \/ Judge(t)
      PROVE  SeatsAreHeld'
  <2>1. /\ inflight' = inflight /\ phase[t] # "running"
        /\ \E to \in {"queued", "waiting", "judging", "totalled", "granted", "refused"} :
             phase' = [phase EXCEPT ![t] = to]
    BY <1>2 DEF Submit, Prompt, Enter, Total, Judge, JudgeWith
  <2> QED BY <1>1, <2>1
<1>3. ASSUME NEW t \in Tasks, Reserve(t) PROVE SeatsAreHeld'
  <2>1. phase' = [phase EXCEPT ![t] = "running"]
        /\ inflight' = [inflight EXCEPT ![GateOf[t]] = @ \cup {t}]
    BY <1>3 DEF Reserve, ReserveFrom
  <2> QED BY <2>1
<1>4. ASSUME NEW t \in Tasks, Finish(t) PROVE SeatsAreHeld'
  <2>1. phase' = [phase EXCEPT ![t] = "done"]
        /\ inflight' = [inflight EXCEPT ![GateOf[t]] = @ \ {t}]
    BY <1>4 DEF Finish
  <2> QED BY <2>1
<1>5. CASE UNCHANGED <<phase, inflight>>
  BY <1>5
<1>6. ASSUME Crash PROVE SeatsAreHeld'
  <2>1. \A n \in Gates : inflight'[n] = {}
    BY <1>6 DEF Crash
  <2>2. \A t \in Tasks : phase'[t] # "running"
    BY <1>6 DEF Crash
  <2> QED BY <2>1, <2>2
<1> QED BY <1>2, <1>3, <1>4, <1>5, <1>6 DEF Next, Section, Round, ToolGate, Rollover, vars

\* Seats only shrink while a task of their gate is in the section.
LEMMA SnapshotStep ==
  TypeOK /\ Chained /\ SnapshotCovers /\ [Next]_vars => SnapshotCovers'
<1> SUFFICES ASSUME TypeOK, Chained, SnapshotCovers, [Next]_vars,
                    NEW u \in Tasks, phase'[u] \in Critical
             PROVE  inflight'[GateOf[u]] \subseteq snapshot'[u]
  BY DEF SnapshotCovers
<1> USE QuotaAssumption DEF TypeOK, Critical, Waiting
<1>1. ASSUME phase[u] \in Critical, snapshot'[u] = snapshot[u],
             inflight'[GateOf[u]] \subseteq inflight[GateOf[u]]
      PROVE  inflight'[GateOf[u]] \subseteq snapshot'[u]
  BY <1>1 DEF SnapshotCovers
<1>2. ASSUME NEW t \in Tasks, Submit(t) \/ Prompt(t) \/ Total(t) \/ Judge(t)
      PROVE  inflight'[GateOf[u]] \subseteq snapshot'[u]
  <2>1. UNCHANGED <<inflight, snapshot>> /\ (phase'[u] # phase[u] => u = t)
    BY <1>2 DEF Submit, Prompt, Total, Judge, JudgeWith
  <2>2. phase[u] \in Critical
    BY <1>2 DEF Submit, Prompt, Total, Judge, JudgeWith
  <2> QED BY <1>1, <2>1, <2>2
<1>3. ASSUME NEW t \in Tasks, Enter(t)
      PROVE  inflight'[GateOf[u]] \subseteq snapshot'[u]
  <2>1. inflight' = inflight /\ phase' = [phase EXCEPT ![t] = "judging"]
        /\ snapshot' = [snapshot EXCEPT ![t] = inflight[GateOf[t]] \cup {t}]
    BY <1>3 DEF Enter
  <2> QED BY <1>1, <2>1
<1>4. ASSUME NEW t \in Tasks, Reserve(t)
      PROVE  inflight'[GateOf[u]] \subseteq snapshot'[u]
  <2>1. phase[t] \in Critical /\ phase' = [phase EXCEPT ![t] = "running"]
        /\ snapshot' = snapshot
        /\ inflight' = [inflight EXCEPT ![GateOf[t]] = @ \cup {t}]
    BY <1>4 DEF Reserve, ReserveFrom
  <2>2. u # t /\ phase[u] \in Critical
    BY <2>1
  <2>3. GateOf[u] # GateOf[t]
    BY <2>1, <2>2, SectionIsHead DEF TasksAt
  <2> QED BY <1>1, <2>1, <2>2, <2>3
<1>5. ASSUME NEW t \in Tasks, Finish(t)
      PROVE  inflight'[GateOf[u]] \subseteq snapshot'[u]
  <2>1. phase' = [phase EXCEPT ![t] = "done"] /\ snapshot' = snapshot
        /\ inflight' = [inflight EXCEPT ![GateOf[t]] = @ \ {t}]
    BY <1>5 DEF Finish
  <2> QED BY <1>1, <2>1
<1>6. CASE UNCHANGED <<phase, inflight, snapshot>>
  BY <1>1, <1>6
<1>7. ASSUME Crash PROVE FALSE
  BY <1>7 DEF Crash
<1> QED BY <1>2, <1>3, <1>4, <1>5, <1>6, <1>7
        DEF Next, Section, Round, ToolGate, Rollover, vars

\* Whatever fails, seats are running tasks and preflights see all of them.
THEOREM GateCorrect == Spec => []GateInv
<1>1. GateInv /\ [Next]_vars => GateInv'
  BY TypeStep, ChainedStep, SeatsStep, SnapshotStep DEF GateInv
<1> QED BY <1>1, GateInit, PTL DEF Spec

\* The seats are exactly the running tasks', under every interleaving, crash and
\* failing record.
THEOREM SeatsAlwaysHeld == Spec => []SeatsAreHeld
<1>1. GateInv => SeatsAreHeld
  BY DEF GateInv
<1> QED BY <1>1, GateCorrect, PTL

\* Every preflight judges all the seats there are.
THEOREM SnapshotAlwaysCovers == Spec => []SnapshotCovers
<1>1. GateInv => SnapshotCovers
  BY DEF GateInv
<1> QED BY <1>1, GateCorrect, PTL

-----------------------------------------------------------------------------
(* The task limit, with records that can be read.                          *)

\* Nobody has usage in a period to come.
FutureUnused == \A t \in Tasks, p \in Periods : p > period => spent[t][p] = 0

\* A task in the section has itself in its snapshot, and usage of its gate that its
\* window does not show belongs to its snapshot.
Foreseen ==
  \A t \in Tasks : phase[t] \in Critical =>
    /\ t \in snapshot[t]
    /\ window[t] <= period
    /\ MeteredAt(GateOf[t], period)
         \subseteq MeteredAt(GateOf[t], window[t]) \cup snapshot[t]

\* What a positive verdict counted of its own gate is within the limit.
Granted ==
  \A t \in Tasks : phase[t] = "granted" =>
    Cardinality(MeteredAt(GateOf[t], window[t]) \cup snapshot[t]) <= MaxTasks

LimitInv == FutureUnused /\ Foreseen /\ Granted /\ WithinTaskLimit

\* Fewer tasks than a number within the limit are within the limit.
LEMMA Fewer ==
  ASSUME NEW S, NEW T \in SUBSET Tasks, S \subseteq T, Cardinality(T) <= MaxTasks
  PROVE  Cardinality(S) <= MaxTasks
<1>1. IsFiniteSet(T)
  BY FS_Subset, QuotaAssumption
<1>2. Cardinality(S) <= Cardinality(T) /\ Cardinality(S) \in Nat /\ Cardinality(T) \in Nat
  BY <1>1, FS_Subset, FS_CardinalityType
<1> QED BY <1>2, QuotaAssumption

\* The limit's bookkeeping is right in the initial state.
LEMMA LimitInit == Init => LimitInv
<1> SUFFICES ASSUME Init PROVE LimitInv
  OBVIOUS
<1>1. FutureUnused /\ Foreseen /\ Granted
  BY DEF Init, FutureUnused, Foreseen, Granted, Critical, Waiting
<1>2. \A n \in Gates : MeteredAt(n, period) \cup inflight[n] = {}
  BY QuotaAssumption DEF Init, MeteredAt, TasksAt, Periods
<1>3. WithinTaskLimit
  BY <1>2, FS_EmptySet, QuotaAssumption DEF WithinTaskLimit
<1> QED BY <1>1, <1>3 DEF LimitInv

\* A step that leaves records and seats alone, and the section of everyone.
LEMMA LimitQuiet ==
  ASSUME LimitInv, UNCHANGED <<period, spent, window, snapshot>>,
         \A n \in Gates : inflight'[n] \subseteq inflight[n],
         \A n \in Gates : inflight[n] \subseteq Tasks,
         \A u \in Tasks : phase'[u] \in Critical => phase[u] \in Critical,
         \A u \in Tasks : phase'[u] = "granted" => phase[u] = "granted"
  PROVE  LimitInv'
<1>1. \A n, p : MeteredAt(n, p)' = MeteredAt(n, p)
  BY DEF MeteredAt
<1>2. FutureUnused' /\ Foreseen' /\ Granted'
  BY <1>1 DEF LimitInv, FutureUnused, Foreseen, Granted
<1>3. ASSUME NEW n \in Gates
      PROVE  Cardinality(MeteredAt(n, period) \cup inflight'[n]) <= MaxTasks
  <2>1. MeteredAt(n, period) \cup inflight[n] \in SUBSET Tasks
    BY DEF MeteredAt, TasksAt
  <2>2. Cardinality(MeteredAt(n, period) \cup inflight[n]) <= MaxTasks
    BY DEF LimitInv, WithinTaskLimit
  <2>3. MeteredAt(n, period) \cup inflight'[n] \subseteq MeteredAt(n, period) \cup inflight[n]
    OBVIOUS
  <2> QED BY <2>1, <2>2, <2>3, Fewer
<1> QED BY <1>1, <1>2, <1>3 DEF LimitInv, WithinTaskLimit

\* A verdict counts what the records and the snapshot show.
LEMMA LimitJudge ==
  ASSUME ~ReadFaults, GateInv, LimitInv, NEW t \in Tasks, Judge(t)
  PROVE  LimitInv'
<1>1. /\ UNCHANGED <<period, spent, window, inflight, snapshot>>
      /\ phase[t] = "totalled"
      /\ \E out \in {"granted", "refused"} :
           /\ phase' = [phase EXCEPT ![t] = out]
           /\ out = "granted" =>
                Cardinality(MeteredAt(GateOf[t], window[t]) \cup snapshot[t]) <= MaxTasks
  <2> DEFINE known == Metered(TenantOf[t], window[t])
             ok == ~full[t] /\ Cardinality(known \cup snapshot[t]) <= MaxTasks
  <2>1. /\ UNCHANGED <<period, spent, window, inflight, snapshot>>
        /\ phase[t] = "totalled"
        /\ phase' = [phase EXCEPT ![t] = IF ok THEN "granted" ELSE "refused"]
    BY DEF Judge, JudgeWith, Reads
  <2>2. MeteredAt(GateOf[t], window[t]) \subseteq known
    BY QuotaAssumption DEF MeteredAt, Metered, TasksAt, TasksOf
  <2>3. known \cup snapshot[t] \in SUBSET Tasks
    BY DEF GateInv, TypeOK, Metered, TasksOf
  <2>4. ok => Cardinality(MeteredAt(GateOf[t], window[t]) \cup snapshot[t]) <= MaxTasks
    <3> SUFFICES ASSUME Cardinality(known \cup snapshot[t]) <= MaxTasks
                 PROVE  Cardinality(MeteredAt(GateOf[t], window[t]) \cup snapshot[t]) <= MaxTasks
      OBVIOUS
    <3>1. MeteredAt(GateOf[t], window[t]) \cup snapshot[t] \subseteq known \cup snapshot[t]
      BY <2>2
    <3> HIDE DEF known
    <3> QED BY <2>3, <3>1, Fewer
  <2> HIDE DEF ok
  <2>5. CASE ok
    BY <2>1, <2>4, <2>5
  <2>6. CASE ~ok
    BY <2>1, <2>6
  <2> QED BY <2>5, <2>6
<1>2. \A n, p : MeteredAt(n, p)' = MeteredAt(n, p)
  BY <1>1 DEF MeteredAt
<1>3. FutureUnused' /\ WithinTaskLimit'
  BY <1>1, <1>2 DEF LimitInv, FutureUnused, WithinTaskLimit
<1>4. phase \in [Tasks -> {"new", "queued", "running", "refused", "done", "lost"}
                             \cup Waiting]
  BY DEF GateInv, TypeOK
<1>5. \A u \in Tasks : phase'[u] \in Critical => phase[u] \in Critical
  BY <1>1, <1>4 DEF Critical, Waiting
<1>6. Foreseen'
  BY <1>1, <1>2, <1>5 DEF LimitInv, Foreseen
<1>7. Granted'
  <2> SUFFICES ASSUME NEW u \in Tasks, phase'[u] = "granted"
               PROVE  Cardinality(MeteredAt(GateOf[u], window[u]) \cup snapshot[u]) <= MaxTasks
    BY <1>1, <1>2 DEF Granted
  <2>1. CASE u = t
    BY <1>1, <1>4, <2>1
  <2>2. CASE u # t
    BY <1>1, <1>4, <2>2 DEF LimitInv, Granted
  <2> QED BY <2>1, <2>2
<1> QED BY <1>3, <1>6, <1>7 DEF LimitInv

\* What was granted is still an upper bound when the seat is taken.
LEMMA LimitReserve ==
  ASSUME GateInv, LimitInv, NEW t \in Tasks, Reserve(t)
  PROVE  LimitInv'
<1> DEFINE m == GateOf[t]
<1>1. /\ UNCHANGED <<period, spent, window, snapshot>>
      /\ phase[t] = "granted" /\ phase' = [phase EXCEPT ![t] = "running"]
      /\ inflight' = [inflight EXCEPT ![m] = @ \cup {t}]
  BY DEF Reserve, ReserveFrom
<1>2. \A n, p : MeteredAt(n, p)' = MeteredAt(n, p)
  BY <1>1 DEF MeteredAt
<1>3. phase \in [Tasks -> {"new", "queued", "running", "refused", "done", "lost"}
                             \cup Waiting]
      /\ inflight \in [Gates -> SUBSET Tasks] /\ snapshot \in [Tasks -> SUBSET Tasks]
  BY DEF GateInv, TypeOK
<1>4. FutureUnused' /\ Foreseen' /\ Granted'
  BY <1>1, <1>2, <1>3 DEF LimitInv, FutureUnused, Foreseen, Granted, Critical, Waiting
<1>5. ASSUME NEW n \in Gates
      PROVE  Cardinality(MeteredAt(n, period) \cup inflight'[n]) <= MaxTasks
  <2>1. CASE n = m
    <3>1. /\ t \in snapshot[t] /\ inflight[m] \subseteq snapshot[t]
          /\ MeteredAt(m, period) \subseteq MeteredAt(m, window[t]) \cup snapshot[t]
      BY <1>1 DEF GateInv, SnapshotCovers, LimitInv, Foreseen, Critical, Waiting
    <3>2. inflight'[n] = inflight[m] \cup {t}
      BY <1>1, <1>3, <2>1
    <3>3. MeteredAt(m, window[t]) \cup snapshot[t] \in SUBSET Tasks
      BY <1>3 DEF MeteredAt, TasksAt
    <3>4. Cardinality(MeteredAt(m, window[t]) \cup snapshot[t]) <= MaxTasks
      BY <1>1 DEF LimitInv, Granted
    <3> QED BY <2>1, <3>1, <3>2, <3>3, <3>4, Fewer
  <2>2. CASE n # m
    BY <1>1, <1>3, <2>2 DEF LimitInv, WithinTaskLimit
  <2> QED BY <2>1, <2>2
<1> QED BY <1>1, <1>2, <1>4, <1>5 DEF LimitInv, WithinTaskLimit

\* New usage belongs to a task with a seat, which every snapshot has.
LEMMA LimitRound ==
  ASSUME GateInv, LimitInv, NEW t \in Tasks, Round(t)
  PROVE  LimitInv'
<1> DEFINE m == GateOf[t]
           New(n, p) == {u \in TasksAt(n) : spent'[u][p] > 0}
<1>1. /\ UNCHANGED <<period, phase, window, inflight, snapshot>>
      /\ phase[t] = "running"
      /\ spent' = spent \/ spent' = [spent EXCEPT ![t][period] = @ + 1]
  BY DEF Round
<1>2. m \in Gates /\ t \in inflight[m]
  BY <1>1, QuotaAssumption DEF GateInv, SeatsAreHeld, TasksAt
<1>3. spent \in [Tasks -> [Periods -> Nat]] /\ period \in Periods
      /\ window \in [Tasks -> Periods]
  BY DEF GateInv, TypeOK
<1>4. \A u \in Tasks, p \in Periods :
        u # t \/ p # period => spent'[u][p] = spent[u][p]
  BY <1>1, <1>3
<1>5. \A n \in Gates, p \in Periods : n # m \/ p # period =>
        New(n, p) = MeteredAt(n, p)
  BY <1>4 DEF MeteredAt, TasksAt
<1>6. New(m, period) \subseteq MeteredAt(m, period) \cup {t}
  BY <1>1, <1>3, <1>4 DEF MeteredAt, TasksAt
<1>6a. MeteredAt(m, period) \subseteq New(m, period)
  BY <1>1, <1>3, <1>4 DEF MeteredAt, TasksAt
<1>7. FutureUnused'
  <2>1. period \in Nat
    BY <1>3 DEF Periods
  <2> QED BY <1>1, <1>3, <1>4, <2>1 DEF LimitInv, FutureUnused, Periods
<1>8. ASSUME NEW u \in Tasks, phase[u] \in Critical
      PROVE  /\ u \in snapshot[u] /\ window[u] <= period
             /\ New(GateOf[u], period)
                  \subseteq New(GateOf[u], window[u]) \cup snapshot[u]
             /\ New(GateOf[u], window[u]) \cup snapshot[u]
                  = MeteredAt(GateOf[u], window[u]) \cup snapshot[u]
  <2>1. u \in snapshot[u] /\ window[u] <= period
        /\ MeteredAt(GateOf[u], period)
             \subseteq MeteredAt(GateOf[u], window[u]) \cup snapshot[u]
    BY <1>8 DEF LimitInv, Foreseen
  <2>2. GateOf[u] \in Gates /\ window[u] \in Periods
    BY <1>3, QuotaAssumption
  <2>3. CASE GateOf[u] = m
    <3>1. t \in snapshot[u]
      BY <1>2, <1>8, <2>3 DEF GateInv, SnapshotCovers
    <3> QED BY <1>3, <1>5, <1>6, <1>6a, <2>1, <2>2, <2>3, <3>1
  <2>4. CASE GateOf[u] # m
    BY <1>3, <1>5, <2>1, <2>2, <2>4
  <2> QED BY <2>3, <2>4
<1>8a. \A n : MeteredAt(n, period)' = New(n, period) /\ \A p : MeteredAt(n, p)' = New(n, p)
  BY <1>1 DEF MeteredAt
<1>9. Foreseen' /\ Granted'
  <2>1. \A u \in Tasks : phase[u] = "granted" => phase[u] \in Critical
    BY DEF Critical, Waiting
  <2> QED BY <1>1, <1>8, <1>8a, <2>1 DEF LimitInv, Foreseen, Granted
<1>10. ASSUME NEW n \in Gates
       PROVE  New(n, period) \cup inflight[n] = MeteredAt(n, period) \cup inflight[n]
  <2>1. CASE n = m
    BY <1>2, <1>6, <1>6a, <2>1
  <2>2. CASE n # m
    BY <1>3, <1>5, <2>2
  <2> QED BY <2>1, <2>2
<1> QED BY <1>1, <1>7, <1>8a, <1>9, <1>10 DEF LimitInv, WithinTaskLimit

\* A new period starts without usage.
LEMMA LimitRollover ==
  ASSUME GateInv, LimitInv, Rollover
  PROVE  LimitInv'
<1>1. period' = period + 1 /\ period < MaxPeriod
      /\ UNCHANGED <<spent, phase, window, inflight, snapshot>>
  BY DEF Rollover
<1>2. period \in 1..MaxPeriod /\ period' \in Periods /\ spent \in [Tasks -> [Periods -> Nat]]
      /\ inflight \in [Gates -> SUBSET Tasks] /\ window \in [Tasks -> Periods]
  BY <1>1, QuotaAssumption DEF GateInv, TypeOK, Periods
<1>3. \A n, p : MeteredAt(n, p)' = MeteredAt(n, p)
  BY <1>1 DEF MeteredAt
<1>4. \A n \in Gates : MeteredAt(n, period') = {}
  <2>1. period' > period
    BY <1>1, <1>2
  <2>2. \A u \in Tasks : spent[u][period'] = 0
    BY <1>2, <2>1 DEF LimitInv, FutureUnused
  <2> QED BY <2>2 DEF MeteredAt, TasksAt
<1>5. FutureUnused' /\ Granted'
  <2>1. \A p \in Periods : p > period' => p > period
    BY <1>1, <1>2, QuotaAssumption DEF Periods
  <2>2. FutureUnused'
    BY <1>1, <2>1 DEF LimitInv, FutureUnused
  <2>3. \A u \in Tasks : MeteredAt(GateOf[u], window[u])' = MeteredAt(GateOf[u], window[u])
    BY <1>1, <1>3 DEF MeteredAt
  <2>4. Granted'
    BY <1>1, <2>3 DEF LimitInv, Granted
  <2> QED BY <2>2, <2>4
<1>6. Foreseen'
  <2> SUFFICES ASSUME NEW u \in Tasks, phase[u] \in Critical
               PROVE  /\ u \in snapshot[u] /\ window[u] <= period'
                      /\ MeteredAt(GateOf[u], period')
                           \subseteq MeteredAt(GateOf[u], window[u]) \cup snapshot[u]
    BY <1>1, <1>3 DEF Foreseen
  <2>1. u \in snapshot[u] /\ window[u] <= period
    BY DEF LimitInv, Foreseen
  <2>2. GateOf[u] \in Gates
    BY QuotaAssumption
  <2> QED BY <1>1, <1>2, <1>4, <2>1, <2>2 DEF Periods
<1>7. ASSUME NEW n \in Gates
      PROVE  Cardinality(MeteredAt(n, period') \cup inflight[n]) <= MaxTasks
  <2>1. MeteredAt(n, period) \cup inflight[n] \in SUBSET Tasks
    BY <1>2 DEF MeteredAt, TasksAt
  <2>2. MeteredAt(n, period') \cup inflight[n] \subseteq MeteredAt(n, period) \cup inflight[n]
    BY <1>4
  <2>3. Cardinality(MeteredAt(n, period) \cup inflight[n]) <= MaxTasks
    BY DEF LimitInv, WithinTaskLimit
  <2> QED BY <2>1, <2>2, <2>3, Fewer
<1> QED BY <1>1, <1>3, <1>5, <1>6, <1>7 DEF LimitInv, WithinTaskLimit

\* Every step keeps the limit's bookkeeping.
LEMMA LimitStep == ~ReadFaults /\ GateInv /\ LimitInv /\ [Next]_vars => LimitInv'
<1> SUFFICES ASSUME ~ReadFaults, GateInv, LimitInv, [Next]_vars PROVE LimitInv'
  OBVIOUS
<1> USE DEF Critical, Waiting
<1>0. phase \in [Tasks -> {"new", "queued", "running", "refused", "done", "lost"}
                             \cup Waiting]
      /\ inflight \in [Gates -> SUBSET Tasks]
  BY DEF GateInv, TypeOK
<1>1. ASSUME NEW t \in Tasks, Submit(t) \/ Prompt(t) \/ Total(t) PROVE LimitInv'
  <2>1. UNCHANGED <<period, spent, window, snapshot, inflight>>
    BY <1>1 DEF Submit, Prompt, Total
  <2>2. \E from, to \in {"new", "queued", "waiting", "judging", "totalled"} :
           /\ phase[t] = from /\ phase' = [phase EXCEPT ![t] = to]
           /\ to \in Critical => from \in Critical
    BY <1>1 DEF Submit, Prompt, Total
  <2>3. \A u \in Tasks : /\ phase'[u] \in Critical => phase[u] \in Critical
                         /\ phase'[u] = "granted" => phase[u] = "granted"
    BY <1>0, <2>2
  <2> QED BY <1>0, <2>1, <2>3, LimitQuiet
<1>2. ASSUME NEW t \in Tasks, Enter(t) PROVE LimitInv'
  <2>1. /\ UNCHANGED <<period, spent, inflight>>
        /\ phase' = [phase EXCEPT ![t] = "judging"]
        /\ snapshot' = [snapshot EXCEPT ![t] = inflight[GateOf[t]] \cup {t}]
        /\ window' = [window EXCEPT ![t] = period]
    BY <1>2 DEF Enter
  <2>2. \A n, p : MeteredAt(n, p)' = MeteredAt(n, p)
    BY <2>1 DEF MeteredAt
  <2>3. FutureUnused' /\ WithinTaskLimit'
    BY <2>1, <2>2 DEF LimitInv, FutureUnused, WithinTaskLimit
  <2>4. window \in [Tasks -> Periods] /\ snapshot \in [Tasks -> SUBSET Tasks]
        /\ period \in Periods /\ period <= period
    <3>1. period \in 1..MaxPeriod
      BY DEF GateInv, TypeOK, Periods
    <3> QED BY <3>1, QuotaAssumption DEF GateInv, TypeOK
  <2>5. Foreseen'
    <3> SUFFICES ASSUME NEW u \in Tasks, phase'[u] \in Critical
                 PROVE  /\ u \in snapshot'[u] /\ window'[u] <= period
                        /\ MeteredAt(GateOf[u], period)
                             \subseteq MeteredAt(GateOf[u], window'[u]) \cup snapshot'[u]
      BY <2>1, <2>2 DEF Foreseen
    <3>1. CASE u = t
      BY <2>1, <2>4, <3>1
    <3>2. CASE u # t
      BY <1>0, <2>1, <2>4, <3>2 DEF LimitInv, Foreseen
    <3> QED BY <3>1, <3>2
  <2>6. Granted'
    BY <1>0, <2>1, <2>2, <2>4 DEF LimitInv, Granted
  <2> QED BY <2>3, <2>5, <2>6 DEF LimitInv
<1>3. ASSUME NEW t \in Tasks, Finish(t) PROVE LimitInv'
  <2>1. /\ UNCHANGED <<period, spent, window, snapshot>>
        /\ phase' = [phase EXCEPT ![t] = "done"]
        /\ inflight' = [inflight EXCEPT ![GateOf[t]] = @ \ {t}]
    BY <1>3 DEF Finish
  <2> QED BY <1>0, <2>1, LimitQuiet
<1>4. ASSUME Crash PROVE LimitInv'
  <2>1. UNCHANGED <<period, spent, window, snapshot>> /\ \A n \in Gates : inflight'[n] = {}
    BY <1>4 DEF Crash
  <2>2. \A u \in Tasks : phase'[u] \notin Critical /\ phase'[u] # "granted"
    BY <1>4 DEF Crash
  <2> QED BY <1>0, <2>1, <2>2, LimitQuiet
<1>5. CASE UNCHANGED <<period, spent, window, snapshot, inflight, phase>>
  BY <1>0, <1>5, LimitQuiet
<1> QED BY <1>1, <1>2, <1>3, <1>4, <1>5, LimitJudge, LimitReserve, LimitRound,
           LimitRollover DEF Next, Section, ToolGate, vars

\* With records that can be read, though some may never be written, no
\* interleaving of prompts, releases, usage, crashes and changes of period takes a
\* gate past the task limit.
THEOREM NeverPastTaskLimit == ~ReadFaults => (Spec => []WithinTaskLimit)
<1> SUFFICES ASSUME ~ReadFaults PROVE Spec => []WithinTaskLimit
  OBVIOUS
<1>1. GateInv /\ LimitInv /\ [Next]_vars => LimitInv'
  BY LimitStep
<1>2. LimitInv => WithinTaskLimit
  BY DEF LimitInv
<1> QED BY <1>1, <1>2, GateCorrect, LimitInit, PTL DEF Spec

\* What InProcessRunnerFactory and TenantTaskGate say of maxTasks holds where it
\* applies: if one gate has all tasks of a tenant, the whole tenant keeps to the
\* limit.
THEOREM OneGateKeepsTenant ==
  ASSUME ~ReadFaults,
         \A t, u \in Tasks : TenantOf[t] = TenantOf[u] => GateOf[t] = GateOf[u]
  PROVE  Spec => []TenantWithinLimit
<1>1. ASSUME WithinTaskLimit, SeatsAreHeld, NEW n \in Tenants
      PROVE  Cardinality({t \in TasksOf(n) : spent[t][period] > 0 \/ phase[t] = "running"})
               <= MaxTasks
  <2> DEFINE busy == {t \in TasksOf(n) : spent[t][period] > 0 \/ phase[t] = "running"}
  <2>1. CASE TasksOf(n) = {}
    <3>1. busy = {}
      BY <2>1
    <3> QED BY <3>1, FS_EmptySet, QuotaAssumption
  <2>2. CASE TasksOf(n) # {}
    <3>1. PICK u \in TasksOf(n) : TRUE
      BY <2>2
    <3>2. TasksOf(n) = TasksAt(GateOf[u]) /\ GateOf[u] \in Gates
      BY <3>1, QuotaAssumption DEF TasksOf, TasksAt
    <3>3. busy = MeteredAt(GateOf[u], period) \cup inflight[GateOf[u]]
      BY <1>1, <3>2 DEF MeteredAt, SeatsAreHeld
    <3> QED BY <1>1, <3>2, <3>3 DEF WithinTaskLimit
  <2> QED BY <2>1, <2>2
<1>2. WithinTaskLimit /\ SeatsAreHeld => TenantWithinLimit
  BY <1>1 DEF TenantWithinLimit
<1> QED BY <1>2, NeverPastTaskLimit, SeatsAlwaysHeld, PTL
=============================================================================
