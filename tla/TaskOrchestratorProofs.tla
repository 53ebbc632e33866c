----------------------- MODULE TaskOrchestratorProofs -----------------------
(***************************************************************************)
(* Theorems about TaskOrchestrator, for every set of tasks, every bound    *)
(* and, unless a theorem says otherwise, with every kind of disk fault.    *)
(*                                                                         *)
(* The order of the argument.  The two streams always have a last row, so  *)
(* that Fold and LastSeq are what their names say; with the types this is  *)
(* inductive (TypeInv).  Every step is of one of a few kinds: an event is  *)
(* logged, a move is stored, cut off by a crash or fails, a submission is  *)
(* refused, an artifact row comes late, a client connects, the process dies*)
(* or recovers (Kind); the invariants below are proved kind by kind.       *)
(* - DiskInv: memory is ahead of the change stream only as FAILED, as      *)
(*   INTERRUPTED or as a refused submission; without faults, never.  From  *)
(*   it the step simulation of the abstract life cycle follows.            *)
(* - ExecutorInv: a live task has an executor.                             *)
(* - NamesInv: the cursor is above every seq in use, so that none is given *)
(*   twice, and a restart does not fall behind it.                         *)
(* - TellInv: what was told is in the change stream.                       *)
(* - ReadInv: a client has everything up to its anchor.                    *)
(***************************************************************************)
EXTENDS TaskOrchestrator, TLAPS

-----------------------------------------------------------------------------
(* The streams.                                                            *)

IsLast(r, rows) == r \in rows /\ \A x \in rows : x.seq <= r.seq
HasLast(rows)   == rows = {} \/ \E r \in rows : IsLast(r, rows)

\* Appending a row to a stream that has a last row leaves one that has.
LEMMA HasLastAppend ==
  ASSUME NEW rows, \A x \in rows : x.seq \in Nat, HasLast(rows),
         NEW r, r.seq \in Nat
  PROVE  HasLast(rows \cup {r})
<1>1. CASE rows = {}
  <2>1. IsLast(r, rows \cup {r})
    BY <1>1 DEF IsLast
  <2> QED BY <2>1 DEF HasLast, IsLast
<1>2. CASE rows # {}
  <2>1. PICK m \in rows : IsLast(m, rows)
    BY <1>2 DEF HasLast
  <2>2. CASE m.seq <= r.seq
    <3>1. IsLast(r, rows \cup {r})
      BY <2>1, <2>2 DEF IsLast
    <3> QED BY <3>1 DEF HasLast, IsLast
  <2>3. CASE ~(m.seq <= r.seq)
    <3>1. IsLast(m, rows \cup {r})
      BY <2>1, <2>3 DEF IsLast
    <3> QED BY <3>1, <2>1 DEF HasLast
  <2> QED BY <2>2, <2>3
<1> QED BY <1>1, <1>2

\* Fold and LastSeq read a last row of a stream that is not empty.
LEMMA LastRow ==
  ASSUME NEW rows, HasLast(rows), rows # {}
  PROVE  \E r \in rows : IsLast(r, rows) /\ Fold(rows) = r.to /\ LastSeq(rows) = r.seq
<1> DEFINE r == CHOOSE r \in rows : \A x \in rows : x.seq <= r.seq
<1>1. \E q \in rows : \A x \in rows : x.seq <= q.seq
  BY DEF HasLast, IsLast
<1>2. r \in rows /\ \A x \in rows : x.seq <= r.seq
  BY <1>1
<1>3. Fold(rows) = r.to /\ LastSeq(rows) = r.seq
  BY DEF Fold, LastSeq
<1> QED BY <1>2, <1>3 DEF IsLast

\* A stream of changes folds to a status, and its last seq is a number.
LEMMA FoldType ==
  ASSUME NEW rows \in SUBSET Change, HasLast(rows)
  PROVE  /\ Fold(rows) \in StatusOrNone
         /\ LastSeq(rows) \in Nat
         /\ Fold(rows) = "NONE" <=> rows = {}
         /\ \A x \in rows : x.seq <= LastSeq(rows)
<1>1. CASE rows = {}
  BY <1>1 DEF Fold, LastSeq, StatusOrNone
<1>2. CASE rows # {}
  <2>1. PICK r \in rows : IsLast(r, rows) /\ Fold(rows) = r.to /\ LastSeq(rows) = r.seq
    BY <1>2, LastRow
  <2>2. r \in Change
    OBVIOUS
  <2> QED BY <2>1, <2>2 DEF IsLast, Change, StatusOrNone, Status
<1> QED BY <1>1, <1>2

\* The last seq of an event stream is a number no row exceeds.
LEMMA LastSeqType ==
  ASSUME NEW rows \in SUBSET Event, HasLast(rows)
  PROVE  /\ LastSeq(rows) \in Nat
         /\ \A x \in rows : x.seq <= LastSeq(rows)
<1>1. CASE rows = {}
  BY <1>1 DEF LastSeq
<1>2. CASE rows # {}
  <2>1. PICK r \in rows : IsLast(r, rows) /\ LastSeq(rows) = r.seq
    BY <1>2, LastRow
  <2> QED BY <2>1 DEF IsLast, Event
<1> QED BY <1>1, <1>2

\* A row with the greatest seq of all is what the stream folds to.
LEMMA FoldAppend ==
  ASSUME NEW rows \in SUBSET Change, NEW r \in Change,
         \A x \in rows : x.seq < r.seq
  PROVE  Fold(rows \cup {r}) = r.to
<1> DEFINE all == rows \cup {r}
<1>1. IsLast(r, all)
  BY DEF IsLast, Change
<1>2. PICK m \in all : IsLast(m, all) /\ Fold(all) = m.to
  BY <1>1, LastRow DEF HasLast, IsLast
<1>3. r.seq <= m.seq
  BY <1>1, <1>2 DEF IsLast
<1>4. m \in Change
  BY <1>2
<1>5. m = r
  BY <1>2, <1>3, <1>4 DEF Change
<1> QED BY <1>2, <1>5

-----------------------------------------------------------------------------
(* Types.                                                                  *)

StoreOK ==
  /\ up \in BOOLEAN
  /\ status \in [Tasks -> StatusOrNone]
  /\ cursor \in [Tasks -> Nat]
  /\ log \in [Tasks -> SUBSET Event]
  /\ changes \in [Tasks -> SUBSET Change]
  /\ events \in [Tasks -> SUBSET Event]
  /\ seen \in [Tasks -> SUBSET Event]
  /\ \A t \in Tasks : HasLast(changes[t]) /\ HasLast(events[t])

ControlOK ==
  /\ restarts \in Nat
  /\ runner \in [Tasks -> BOOLEAN]
  /\ act \in [Tasks -> {"none", "pending", "approved", "refused"}]
  /\ stop \in [Tasks -> {"no", "refusing", "aborted"}]
  /\ driver \in [Tasks -> DriverPhases]
  /\ tool \in [Tasks -> {"idle", "announcing", "announced", "waiting", "failed"}]
  /\ listener \in [Tasks -> [at : {"idle", "await", "artifact"}, seq : Nat]]
  /\ canceller \in [Tasks -> {"idle", "aborting", "announcing", "closing"}]
  /\ confirmer \in [Tasks -> {"idle", "approving"}]
  /\ linked \in [Tasks -> BOOLEAN]

\* An activity of a task exists only once the map holds the task.
Held ==
  \A t \in Tasks :
    driver[t] # "idle" \/ tool[t] # "idle" \/ runner[t] \/ listener[t].at # "idle"
      => status[t] # "NONE"

TypeInv == StoreOK /\ ControlOK /\ Held

\* Appending a change, written or not, keeps a change stream in order.
LEMMA AppendChange ==
  ASSUME NEW rows \in SUBSET Change, HasLast(rows), NEW r \in Change, NEW w
  PROVE  /\ Written(rows, r, w) \in SUBSET Change
         /\ HasLast(Written(rows, r, w))
         /\ rows \cup {r} \in SUBSET Change
         /\ HasLast(rows \cup {r})
<1>1. r.seq \in Nat /\ \A x \in rows : x.seq \in Nat
  BY DEF Change
<1>2. HasLast(rows \cup {r})
  BY <1>1, HasLastAppend
<1> QED BY <1>2 DEF Written

\* Appending an event, written or not, keeps an event stream in order.
LEMMA AppendEvent ==
  ASSUME NEW rows \in SUBSET Event, HasLast(rows), NEW r \in Event, NEW w
  PROVE  /\ Written(rows, r, w) \in SUBSET Event
         /\ HasLast(Written(rows, r, w))
         /\ rows \cup {r} \in SUBSET Event
         /\ HasLast(rows \cup {r})
<1>1. r.seq \in Nat /\ \A x \in rows : x.seq \in Nat
  BY DEF Event
<1>2. HasLast(rows \cup {r})
  BY <1>1, HasLastAppend
<1> QED BY <1>2 DEF Written

\* A status event is an event.
LEMMA StatusEventType ==
  ASSUME NEW n \in Nat, NEW s \in StatusOrNone
  PROVE  /\ StatusEvent(n, s) \in Event
         /\ StatusEvent(n, s).seq = n /\ StatusEvent(n, s).to = s
BY DEF StatusEvent, Event, Kinds

\* What a client has seen stays a set of events.
LEMMA PublishedType ==
  ASSUME StoreOK, NEW t \in Tasks, NEW evs \in SUBSET Event, Published(t, evs)
  PROVE  seen' \in [Tasks -> SUBSET Event]
BY DEF StoreOK, Published

\* Replacing one stream of a family keeps what all of them have.
LEMMA ExceptStream ==
  ASSUME NEW S, NEW f \in [Tasks -> SUBSET S], NEW t \in Tasks,
         NEW rows \in SUBSET S
  PROVE  /\ [f EXCEPT ![t] = rows] \in [Tasks -> SUBSET S]
         /\ (\A u \in Tasks : HasLast(f[u])) /\ HasLast(rows)
              => \A u \in Tasks : HasLast([f EXCEPT ![t] = rows][u])
OBVIOUS

\* Delivering an event of the runner keeps the types of the store.
LEMMA DeliverType ==
  ASSUME StoreOK, NEW t \in Tasks, NEW kind \in Kinds, NEW to \in StatusOrNone,
         Deliver(t, kind, to), UNCHANGED <<status, changes>>
  PROVE  StoreOK'
<1> DEFINE ev == [seq |-> cursor[t] + 1, kind |-> kind, to |-> to]
<1>1. PICK e \in WriteEvent :
        /\ cursor' = [cursor EXCEPT ![t] = @ + 1]
        /\ log'    = [log EXCEPT ![t] = @ \cup {ev}]
        /\ events' = [events EXCEPT ![t] = Written(@, ev, e)]
        /\ Published(t, {ev})
        /\ UNCHANGED up
  BY DEF Deliver
<1>2. ev \in Event
  BY DEF StoreOK, Event
<1>3. events[t] \in SUBSET Event /\ HasLast(events[t])
  BY DEF StoreOK
<1>4. Written(events[t], ev, e) \in SUBSET Event /\ HasLast(Written(events[t], ev, e))
  BY <1>2, <1>3, AppendEvent
<1>5. seen' \in [Tasks -> SUBSET Event]
  BY <1>1, <1>2, PublishedType
<1> HIDE DEF ev
<1>6. events' \in [Tasks -> SUBSET Event] /\ \A u \in Tasks : HasLast(events'[u])
  BY <1>1, <1>4, ExceptStream DEF StoreOK
<1>7. log' \in [Tasks -> SUBSET Event] /\ cursor' \in [Tasks -> Nat]
  BY <1>1, <1>2 DEF StoreOK
<1> QED BY <1>1, <1>5, <1>6, <1>7 DEF StoreOK

\* A move that is stored keeps the types of the store.
LEMMA MoveStoredType ==
  ASSUME StoreOK, NEW t \in Tasks, NEW to \in Status, MoveStored(t, to)
  PROVE  StoreOK'
<1> DEFINE ev == StatusEvent(cursor[t] + 1, to)
           row == [seq |-> ev.seq, to |-> to]
<1>1. PICK e \in WriteEvent :
        /\ status'  = [status EXCEPT ![t] = to]
        /\ cursor'  = [cursor EXCEPT ![t] = @ + 1]
        /\ log'     = [log EXCEPT ![t] = @ \cup {ev}]
        /\ changes' = [changes EXCEPT ![t] = @ \cup {row}]
        /\ events'  = [events EXCEPT ![t] = Written(@, ev, e)]
        /\ Published(t, {ev})
        /\ UNCHANGED up
  BY DEF MoveStored
<1>2. ev \in Event /\ row \in Change
  BY StatusEventType DEF StoreOK, Change, StatusOrNone
<1>3. /\ events[t] \in SUBSET Event /\ HasLast(events[t])
      /\ changes[t] \in SUBSET Change /\ HasLast(changes[t])
  BY DEF StoreOK
<1>4. Written(events[t], ev, e) \in SUBSET Event /\ HasLast(Written(events[t], ev, e))
  BY <1>2, <1>3, AppendEvent
<1>5. changes[t] \cup {row} \in SUBSET Change /\ HasLast(changes[t] \cup {row})
  BY <1>2, <1>3, AppendChange
<1>6. seen' \in [Tasks -> SUBSET Event]
  BY <1>1, <1>2, PublishedType
<1> HIDE DEF ev, row
<1>7. events' \in [Tasks -> SUBSET Event] /\ \A u \in Tasks : HasLast(events'[u])
  BY <1>1, <1>4, ExceptStream DEF StoreOK
<1>8. changes' \in [Tasks -> SUBSET Change] /\ \A u \in Tasks : HasLast(changes'[u])
  BY <1>1, <1>5, ExceptStream DEF StoreOK
<1>9. log' \in [Tasks -> SUBSET Event] /\ cursor' \in [Tasks -> Nat]
  BY <1>1, <1>2 DEF StoreOK
<1>10. status' \in [Tasks -> StatusOrNone]
  BY <1>1 DEF StoreOK, StatusOrNone
<1> QED BY <1>1, <1>6, <1>7, <1>8, <1>9, <1>10 DEF StoreOK

\* A move whose change is not stored, and becomes a failure, keeps the types.
LEMMA MoveFailedType ==
  ASSUME StoreOK, NEW t \in Tasks, NEW to \in Status, MoveFailed(t, to)
  PROVE  StoreOK'
<1> DEFINE ev1 == StatusEvent(cursor[t] + 1, to)
           ev2 == StatusEvent(cursor[t] + 2, "FAILED")
           row1 == [seq |-> ev1.seq, to |-> to]
           row2 == [seq |-> ev2.seq, to |-> "FAILED"]
<1>1. PICK w \in WriteChange \ {"ok"}, w2 \in WriteChange, e \in WriteEvent :
        /\ status'  = [status EXCEPT ![t] = "FAILED"]
        /\ cursor'  = [cursor EXCEPT ![t] = @ + 2]
        /\ log'     = [log EXCEPT ![t] = @ \cup {ev1, ev2}]
        /\ changes' = [changes EXCEPT ![t] = Written(Written(@, row1, w), row2, w2)]
        /\ events'  = [events EXCEPT ![t] = Written(@, ev2, e)]
        /\ Published(t, {ev2})
        /\ UNCHANGED up
  BY DEF MoveFailed
<1>2. ev1 \in Event /\ ev2 \in Event /\ row1 \in Change /\ row2 \in Change
  BY StatusEventType DEF StoreOK, Change, StatusOrNone, Status
<1>3. /\ events[t] \in SUBSET Event /\ HasLast(events[t])
      /\ changes[t] \in SUBSET Change /\ HasLast(changes[t])
  BY DEF StoreOK
<1>4. Written(events[t], ev2, e) \in SUBSET Event /\ HasLast(Written(events[t], ev2, e))
  BY <1>2, <1>3, AppendEvent
<1>5. Written(changes[t], row1, w) \in SUBSET Change /\ HasLast(Written(changes[t], row1, w))
  BY <1>2, <1>3, AppendChange
<1>6. /\ Written(Written(changes[t], row1, w), row2, w2) \in SUBSET Change
      /\ HasLast(Written(Written(changes[t], row1, w), row2, w2))
  BY <1>2, <1>5, AppendChange
<1>7. seen' \in [Tasks -> SUBSET Event]
  BY <1>1, <1>2, PublishedType
<1>8. "FAILED" \in StatusOrNone
  BY DEF StatusOrNone, Status
<1> HIDE DEF ev1, ev2, row1, row2
<1>9. events' \in [Tasks -> SUBSET Event] /\ \A u \in Tasks : HasLast(events'[u])
  BY <1>1, <1>4, ExceptStream DEF StoreOK
<1>10. changes' \in [Tasks -> SUBSET Change] /\ \A u \in Tasks : HasLast(changes'[u])
  BY <1>1, <1>6, ExceptStream DEF StoreOK
<1>11. log' \in [Tasks -> SUBSET Event] /\ cursor' \in [Tasks -> Nat]
  BY <1>1, <1>2 DEF StoreOK
<1>12. status' \in [Tasks -> StatusOrNone]
  BY <1>1, <1>8 DEF StoreOK
<1> QED BY <1>1, <1>7, <1>9, <1>10, <1>11, <1>12 DEF StoreOK

\* A move the process does not survive keeps the types.
LEMMA MoveCutType ==
  ASSUME StoreOK, NEW t \in Tasks, NEW to \in Status, MoveCut(t, to)
  PROVE  StoreOK'
<1> DEFINE row == [seq |-> cursor[t] + 1, to |-> to]
<1>1. row \in Change /\ changes[t] \in SUBSET Change /\ HasLast(changes[t])
  BY DEF StoreOK, Change
<1>2. changes[t] \cup {row} \in SUBSET Change /\ HasLast(changes[t] \cup {row})
  BY <1>1, AppendChange
<1>3. /\ changes' = [changes EXCEPT ![t] = @ \cup {row}] /\ up' = FALSE
      /\ UNCHANGED <<status, cursor, log, events, seen>>
  BY DEF MoveCut
<1> HIDE DEF row
<1> QED BY <1>2, <1>3 DEF StoreOK

\* A step that moves nothing keeps the types of the store.
LEMMA UnmovedType ==
  ASSUME StoreOK, Unmoved
  PROVE  StoreOK'
BY DEF StoreOK, Unmoved

\* Every way a move can go keeps the types of the store.
LEMMA MoveIfLegalType ==
  ASSUME StoreOK, NEW t \in Tasks, NEW to \in Status,
         MoveIfLegal(t, to) \/ Move(t, to) \/ MoveFailed(t, to) \/ Unmoved
  PROVE  StoreOK'
BY MoveStoredType, MoveFailedType, MoveCutType, UnmovedType DEF MoveIfLegal, Move

\* The restart pass keeps the types: this is where a stream must have a last row.
LEMMA RecoverType ==
  ASSUME TypeInv, Recover
  PROVE  TypeInv'
<1> DEFINE stored(t) == Fold(changes[t])
           cut(t)    == stored(t) \notin Settled \cup {"NONE"}
           last(t)   == IF LastSeq(changes[t]) > LastSeq(events[t])
                        THEN LastSeq(changes[t]) ELSE LastSeq(events[t])
           ev(t)     == StatusEvent(last(t) + 1, "INTERRUPTED")
           history(t) == IF stored(t) = "NONE" THEN {} ELSE events[t]
           row(t)    == [seq |-> last(t) + 1, to |-> "INTERRUPTED"]
<1>1. PICK L \in SUBSET (IF DiskFaults THEN Tasks ELSE {}),
           E \in SUBSET (IF EventFaults THEN Tasks ELSE {}) :
        /\ status' = [t \in Tasks |-> IF cut(t) THEN "INTERRUPTED" ELSE stored(t)]
        /\ cursor' = [t \in Tasks |-> IF cut(t) THEN last(t) + 1
                                      ELSE IF stored(t) = "NONE" THEN 0
                                      ELSE last(t)]
        /\ log' = [t \in Tasks |-> history(t) \cup (IF cut(t) THEN {ev(t)} ELSE {})]
        /\ changes' = [t \in Tasks |-> changes[t] \cup
                         (IF cut(t) /\ t \notin L THEN {row(t)} ELSE {})]
        /\ events' = [t \in Tasks |-> events[t] \cup
                         (IF cut(t) /\ t \notin E THEN {ev(t)} ELSE {})]
  BY Zenon DEF Recover
<1>2. ASSUME NEW t \in Tasks
      PROVE  /\ stored(t) \in StatusOrNone /\ last(t) \in Nat
             /\ ev(t) \in Event /\ row(t) \in Change
  <2>1. stored(t) \in StatusOrNone /\ LastSeq(changes[t]) \in Nat
    BY FoldType DEF TypeInv, StoreOK
  <2>2. LastSeq(events[t]) \in Nat
    BY LastSeqType DEF TypeInv, StoreOK
  <2>3. last(t) \in Nat
    BY <2>1, <2>2
  <2>4. "INTERRUPTED" \in Status
    BY DEF Status
  <2>5. ev(t) \in Event
    BY <2>3, <2>4, StatusEventType DEF StatusOrNone
  <2> QED BY <2>1, <2>3, <2>4, <2>5 DEF Change
<1> HIDE DEF stored, cut, last, ev, row
<1>3. status' \in [Tasks -> StatusOrNone] /\ cursor' \in [Tasks -> Nat]
  <2>1. "INTERRUPTED" \in StatusOrNone
    BY DEF StatusOrNone, Status
  <2> QED BY <1>1, <1>2, <2>1
<1>4. log' \in [Tasks -> SUBSET Event]
  BY <1>1, <1>2 DEF TypeInv, StoreOK
<1>5. changes' \in [Tasks -> SUBSET Change] /\ \A t \in Tasks : HasLast(changes'[t])
  <2>1. ASSUME NEW t \in Tasks
        PROVE  changes'[t] \in SUBSET Change /\ HasLast(changes'[t])
    <3>1. changes[t] \in SUBSET Change /\ HasLast(changes[t])
      BY DEF TypeInv, StoreOK
    <3>2. changes[t] \cup {row(t)} \in SUBSET Change /\ HasLast(changes[t] \cup {row(t)})
      BY <1>2, <3>1, AppendChange
    <3>3. changes'[t] = changes[t] \cup {row(t)} \/ changes'[t] = changes[t]
      BY <1>1
    <3> QED BY <3>1, <3>2, <3>3
  <2> QED BY <1>1, <2>1
<1>6. events' \in [Tasks -> SUBSET Event] /\ \A t \in Tasks : HasLast(events'[t])
  <2>1. ASSUME NEW t \in Tasks
        PROVE  events'[t] \in SUBSET Event /\ HasLast(events'[t])
    <3>1. events[t] \in SUBSET Event /\ HasLast(events[t])
      BY DEF TypeInv, StoreOK
    <3>2. events[t] \cup {ev(t)} \in SUBSET Event /\ HasLast(events[t] \cup {ev(t)})
      BY <1>2, <3>1, AppendEvent
    <3>3. events'[t] = events[t] \cup {ev(t)} \/ events'[t] = events[t]
      BY <1>1
    <3> QED BY <3>1, <3>2, <3>3
  <2> QED BY <1>1, <2>1
<1>7. up' \in BOOLEAN /\ seen' \in [Tasks -> SUBSET Event]
  BY DEF TypeInv, StoreOK, Recover
<1>8. StoreOK'
  BY <1>3, <1>4, <1>5, <1>6, <1>7 DEF StoreOK
<1>9. ControlOK'
  BY DEF TypeInv, ControlOK, Recover, ClearedPhases, NoTurn, DriverPhases
<1>10. Held'
  BY DEF Held, Recover, ClearedPhases, NoTurn
<1> QED BY <1>8, <1>9, <1>10 DEF TypeInv

\* A move never takes a task out of the map.
LEMMA MoveHeld ==
  ASSUME StoreOK, NEW t \in Tasks, NEW to \in Status,
         MoveIfLegal(t, to) \/ Move(t, to) \/ MoveFailed(t, to) \/ Unmoved
  PROVE  \A u \in Tasks : status[u] # "NONE" => status'[u] # "NONE"
BY DEF StoreOK, MoveIfLegal, Move, MoveStored, MoveCut, MoveFailed, Unmoved, Status

\* Every step keeps the types: one step per action.
LEMMA TypeStep ==
  ASSUME TypeInv, [Next]_vars
  PROVE  TypeInv'
<1> USE DEF TypeInv
<1>1. ASSUME NEW t \in Tasks, Submit(t) PROVE TypeInv'
  <2>1. StoreOK'
    <3>1. "QUEUED" \in Status
      BY DEF Status
    <3>2. CASE MoveStored(t, "QUEUED") \/ MoveCut(t, "QUEUED")
      BY <3>1, <3>2, MoveStoredType, MoveCutType
    <3>3. CASE ~(MoveStored(t, "QUEUED") \/ MoveCut(t, "QUEUED"))
      <4> DEFINE ev == StatusEvent(cursor[t] + 1, "QUEUED")
                 row == [seq |-> ev.seq, to |-> "QUEUED"]
      <4>1. PICK w \in WriteChange \ {"ok"} :
              /\ status'  = [status EXCEPT ![t] = "QUEUED"]
              /\ cursor'  = [cursor EXCEPT ![t] = @ + 1]
              /\ log'     = [log EXCEPT ![t] = @ \cup {ev}]
              /\ changes' = [changes EXCEPT ![t] = Written(@, row, w)]
              /\ UNCHANGED <<up, events, seen>>
        BY <1>1, <3>3 DEF Submit
      <4>2. ev \in Event /\ row \in Change
        BY <3>1, StatusEventType DEF StoreOK, Change, StatusOrNone
      <4>3. /\ Written(changes[t], row, w) \in SUBSET Change
            /\ HasLast(Written(changes[t], row, w))
        BY <4>2, AppendChange DEF StoreOK
      <4> HIDE DEF ev, row
      <4>4. changes' \in [Tasks -> SUBSET Change] /\ \A u \in Tasks : HasLast(changes'[u])
        BY <4>1, <4>3, ExceptStream DEF StoreOK
      <4>5. log' \in [Tasks -> SUBSET Event] /\ cursor' \in [Tasks -> Nat]
        BY <4>1, <4>2 DEF StoreOK
      <4>6. status' \in [Tasks -> StatusOrNone]
        BY <4>1, <3>1 DEF StoreOK, StatusOrNone
      <4> QED BY <4>1, <4>4, <4>5, <4>6 DEF StoreOK
    <3> QED BY <3>2, <3>3
  <2>2. ControlOK'
    BY <1>1 DEF Submit, ControlOK, DriverPhases
  <2>3. Held'
    <3>1. \/ status' = [status EXCEPT ![t] = "QUEUED"]
          \/ UNCHANGED <<status, driver>>
      BY <1>1 DEF Submit, MoveStored, MoveCut
    <3>2. /\ UNCHANGED <<runner, tool, listener>>
          /\ \A u \in Tasks : u # t => driver'[u] = driver[u]
      BY <1>1 DEF Submit, ControlOK
    <3> QED BY <3>1, <3>2 DEF Held, StoreOK
  <2> QED BY <2>1, <2>2, <2>3
<1>2. ASSUME NEW t \in Tasks, CreateRunner(t) PROVE TypeInv'
  <2>1. StoreOK'
    BY <1>2, UnmovedType DEF CreateRunner
  <2>2. ControlOK'
    BY <1>2 DEF CreateRunner, ControlOK, DriverPhases, phase
  <2>3. Held'
    BY <1>2 DEF CreateRunner, Held, Unmoved, ControlOK, phase
  <2> QED BY <2>1, <2>2, <2>3
<1>3. ASSUME NEW t \in Tasks, CreateRunnerFails(t) PROVE TypeInv'
  <2>0. "FAILED" \in Status
    BY DEF Status
  <2>1. StoreOK'
    BY <1>3, <2>0, MoveIfLegalType DEF CreateRunnerFails
  <2>2. ControlOK'
    BY <1>3 DEF CreateRunnerFails, ControlOK, DriverPhases, NoTurn
  <2>3. Held'
    <3>1. \A u \in Tasks : status[u] # "NONE" => status'[u] # "NONE"
      BY <1>3, <2>0, MoveHeld DEF CreateRunnerFails
    <3> QED BY <1>3, <3>1 DEF CreateRunnerFails, Held, ControlOK, NoTurn
  <2> QED BY <2>1, <2>2, <2>3
<1>4. ASSUME NEW t \in Tasks, Run(t) PROVE TypeInv'
  <2>0. "RUNNING" \in Status
    BY DEF Status
  <2>1. StoreOK'
    BY <1>4, <2>0, MoveIfLegalType DEF Run
  <2>2. ControlOK'
    BY <1>4 DEF Run, ControlOK, DriverPhases, NoTurn
  <2>3. Held'
    <3>1. \A u \in Tasks : status[u] # "NONE" => status'[u] # "NONE"
      BY <1>4, <2>0, MoveHeld DEF Run
    <3> QED BY <1>4, <3>1 DEF Run, Held, ControlOK, NoTurn
  <2> QED BY <2>1, <2>2, <2>3
<1>5. ASSUME NEW t \in Tasks, StartLane(t) PROVE TypeInv'
  <2>1. StoreOK'
    BY <1>5, UnmovedType DEF StartLane
  <2>2. ControlOK'
    BY <1>5 DEF StartLane, ControlOK, DriverPhases, phase
  <2>3. Held'
    BY <1>5 DEF StartLane, Held, Unmoved, ControlOK, phase
  <2> QED BY <2>1, <2>2, <2>3
<1>6. ASSUME NEW t \in Tasks, PromptReturns(t) PROVE TypeInv'
  <2>0. "SUCCEEDED" \in Status
    BY DEF Status
  <2>1. StoreOK'
    BY <1>6, <2>0, MoveIfLegalType DEF PromptReturns
  <2>2. ControlOK'
    BY <1>6 DEF PromptReturns, ControlOK, DriverPhases, NoTurn
  <2>3. Held'
    <3>1. \A u \in Tasks : status[u] # "NONE" => status'[u] # "NONE"
      BY <1>6, <2>0, MoveHeld DEF PromptReturns
    <3> QED BY <1>6, <3>1 DEF PromptReturns, Held, ControlOK, NoTurn
  <2> QED BY <2>1, <2>2, <2>3
<1>7. ASSUME NEW t \in Tasks, PromptThrows(t) PROVE TypeInv'
  <2>0. "FAILED" \in Status
    BY DEF Status
  <2>1. StoreOK'
    BY <1>7, <2>0, MoveIfLegalType DEF PromptThrows
  <2>2. ControlOK'
    BY <1>7 DEF PromptThrows, ControlOK, DriverPhases, NoTurn
  <2>3. Held'
    <3>1. \A u \in Tasks : status[u] # "NONE" => status'[u] # "NONE"
      BY <1>7, <2>0, MoveHeld DEF PromptThrows
    <3> QED BY <1>7, <3>1 DEF PromptThrows, Held, ControlOK, NoTurn
  <2> QED BY <2>1, <2>2, <2>3
<1>8. ASSUME NEW t \in Tasks, DriverClose(t) PROVE TypeInv'
  <2>1. StoreOK'
    BY <1>8, UnmovedType DEF DriverClose
  <2>2. ControlOK'
    BY <1>8 DEF DriverClose, ControlOK, DriverPhases, phase
  <2>3. Held'
    BY <1>8 DEF DriverClose, Held, Unmoved, ControlOK, phase
  <2> QED BY <2>1, <2>2, <2>3
<1>9. ASSUME NEW t \in Tasks, RequestConfirm(t) PROVE TypeInv'
  <2>1. StoreOK'
    BY <1>9, UnmovedType DEF RequestConfirm
  <2>2. ControlOK'
    BY <1>9 DEF RequestConfirm, ControlOK, DriverPhases, phase
  <2>3. Held'
    BY <1>9 DEF RequestConfirm, Held, Unmoved, ControlOK, phase
  <2> QED BY <2>1, <2>2, <2>3
<1>10. ASSUME NEW t \in Tasks, Announce(t) PROVE TypeInv'
  <2>1. StoreOK'
    <3>1. "await_confirm" \in Kinds /\ "NONE" \in StatusOrNone
      BY DEF Kinds, StatusOrNone
    <3> QED BY <1>10, <3>1, DeliverType DEF Announce
  <2>2. ControlOK'
    BY <1>10 DEF Announce, ControlOK, StoreOK
  <2>3. Held'
    BY <1>10 DEF Announce, Held, ControlOK, DriverPhases
  <2> QED BY <2>1, <2>2, <2>3
<1>11. ASSUME NEW t \in Tasks, ListenAwait(t) PROVE TypeInv'
  <2>0. "AWAIT_CONFIRM" \in Status
    BY DEF Status
  <2>1. StoreOK'
    BY <1>11, <2>0, MoveIfLegalType DEF ListenAwait
  <2>2. ControlOK'
    BY <1>11 DEF ListenAwait, ControlOK, DriverPhases, NoTurn
  <2>3. Held'
    <3>1. \A u \in Tasks : status[u] # "NONE" => status'[u] # "NONE"
      BY <1>11, <2>0, MoveHeld DEF ListenAwait
    <3> QED BY <1>11, <3>1 DEF ListenAwait, Held, ControlOK, NoTurn
  <2> QED BY <2>1, <2>2, <2>3
<1>12. ASSUME NEW t \in Tasks, ToolDecision(t) PROVE TypeInv'
  <2>1. StoreOK'
    BY <1>12, UnmovedType DEF ToolDecision
  <2>2. ControlOK'
    BY <1>12 DEF ToolDecision, ControlOK, DriverPhases, phase
  <2>3. Held'
    BY <1>12 DEF ToolDecision, Held, Unmoved, ControlOK, phase
  <2> QED BY <2>1, <2>2, <2>3
<1>13. ASSUME NEW t \in Tasks, Expire(t) PROVE TypeInv'
  <2>1. StoreOK'
    BY <1>13, UnmovedType DEF Expire
  <2>2. ControlOK'
    BY <1>13 DEF Expire, ControlOK, DriverPhases, phase
  <2>3. Held'
    BY <1>13 DEF Expire, Held, Unmoved, ControlOK, phase
  <2> QED BY <2>1, <2>2, <2>3
<1>14. ASSUME NEW t \in Tasks, Emit(t) PROVE TypeInv'
  <2>1. StoreOK'
    <3>1. PICK kind \in {"artifact", "other"} : Deliver(t, kind, "NONE")
      BY <1>14 DEF Emit
    <3>2. kind \in Kinds /\ "NONE" \in StatusOrNone
      BY DEF Kinds, StatusOrNone
    <3> QED BY <1>14, <3>1, <3>2, DeliverType DEF Emit
  <2>2. ControlOK'
    BY <1>14 DEF Emit, ControlOK, StoreOK
  <2>3. Held'
    BY <1>14 DEF Emit, Held, ControlOK, DriverPhases
  <2> QED BY <2>1, <2>2, <2>3
<1>15. ASSUME NEW t \in Tasks, ListenArtifact(t) PROVE TypeInv'
  <2>1. StoreOK'
    <3> DEFINE row == [seq |-> listener[t].seq, to |-> status[t]]
    <3>1. PICK w \in WriteChange :
            changes' = [changes EXCEPT ![t] = Written(@, row, w)]
      BY <1>15 DEF ListenArtifact
    <3>2. row \in Change
      BY <1>15 DEF ListenArtifact, StoreOK, ControlOK, Held, Change, StatusOrNone
    <3>3. /\ Written(changes[t], row, w) \in SUBSET Change
          /\ HasLast(Written(changes[t], row, w))
      BY <3>2, AppendChange DEF StoreOK
    <3> HIDE DEF row
    <3>4. changes' \in [Tasks -> SUBSET Change] /\ \A u \in Tasks : HasLast(changes'[u])
      BY <3>1, <3>3, ExceptStream DEF StoreOK
    <3> QED BY <1>15, <3>4 DEF ListenArtifact, StoreOK
  <2>2. ControlOK'
    BY <1>15 DEF ListenArtifact, ControlOK, NoTurn
  <2>3. Held'
    BY <1>15 DEF ListenArtifact, Held, ControlOK, NoTurn
  <2> QED BY <2>1, <2>2, <2>3
<1>16. ASSUME NEW t \in Tasks, Cancel(t) PROVE TypeInv'
  <2>0. "CANCELLED" \in Status
    BY DEF Status
  <2>1. StoreOK'
    BY <1>16, <2>0, MoveIfLegalType DEF Cancel
  <2>2. ControlOK'
    BY <1>16 DEF Cancel, ControlOK, DriverPhases, NoTurn
  <2>3. Held'
    <3>1. \A u \in Tasks : status[u] # "NONE" => status'[u] # "NONE"
      BY <1>16, <2>0, MoveHeld DEF Cancel
    <3> QED BY <1>16, <3>1 DEF Cancel, Held, ControlOK, NoTurn
  <2> QED BY <2>1, <2>2, <2>3
<1>17. ASSUME NEW t \in Tasks, Abort(t) PROVE TypeInv'
  <2>1. StoreOK'
    BY <1>17, UnmovedType DEF Abort
  <2>2. ControlOK'
    <3>1. /\ UNCHANGED <<restarts, linked, runner, driver, tool, listener, confirmer>>
          /\ \E to \in {"announcing", "closing"} :
               canceller' = [canceller EXCEPT ![t] = to]
      BY <1>17 DEF Abort
    <3>2. \/ UNCHANGED <<act, stop>>
          \/ /\ act' = [act EXCEPT ![t] = IF @ = "pending" THEN "refused" ELSE @]
             /\ \E how \in {"no", "refusing", "aborted"} :
                  stop' = [stop EXCEPT ![t] = how]
      BY <1>17 DEF Abort, ControlOK
    <3> QED BY <3>1, <3>2 DEF ControlOK
  <2>3. Held'
    BY <1>17 DEF Abort, Held, Unmoved, ControlOK, phase
  <2> QED BY <2>1, <2>2, <2>3
<1>18. ASSUME NEW t \in Tasks, AnnounceCancel(t) PROVE TypeInv'
  <2>1. StoreOK'
    <3>1. "status" \in Kinds /\ "CANCELLED" \in StatusOrNone
      BY DEF Kinds, StatusOrNone, Status
    <3>2. CASE Deliver(t, "status", "CANCELLED")
      BY <1>18, <3>1, <3>2, DeliverType DEF AnnounceCancel
    <3>3. CASE UNCHANGED <<up, cursor, log, events, seen>>
      BY <1>18, <3>3 DEF AnnounceCancel, StoreOK
    <3> QED BY <1>18, <3>2, <3>3 DEF AnnounceCancel
  <2>2. ControlOK'
    BY <1>18 DEF AnnounceCancel, ControlOK, StoreOK
  <2>3. Held'
    BY <1>18 DEF AnnounceCancel, Held, ControlOK, DriverPhases
  <2> QED BY <2>1, <2>2, <2>3
<1>19. ASSUME NEW t \in Tasks, CloseAfterCancel(t) PROVE TypeInv'
  <2>1. StoreOK'
    BY <1>19, UnmovedType DEF CloseAfterCancel
  <2>2. ControlOK'
    BY <1>19 DEF CloseAfterCancel, ControlOK, DriverPhases, phase
  <2>3. Held'
    BY <1>19 DEF CloseAfterCancel, Held, Unmoved, ControlOK, phase
  <2> QED BY <2>1, <2>2, <2>3
<1>20. ASSUME NEW t \in Tasks, Confirm(t) PROVE TypeInv'
  <2>0. "RUNNING" \in Status
    BY DEF Status
  <2>1. StoreOK'
    BY <1>20, <2>0, MoveIfLegalType DEF Confirm
  <2>2. ControlOK'
    BY <1>20 DEF Confirm, ControlOK, DriverPhases, NoTurn
  <2>3. Held'
    <3>1. \A u \in Tasks : status[u] # "NONE" => status'[u] # "NONE"
      BY <1>20, <2>0, MoveHeld DEF Confirm
    <3> QED BY <1>20, <3>1 DEF Confirm, Held, ControlOK, NoTurn
  <2> QED BY <2>1, <2>2, <2>3
<1>21. ASSUME NEW t \in Tasks, Approve(t) PROVE TypeInv'
  <2>0. "FAILED" \in Status
    BY DEF Status
  <2>1. StoreOK'
    BY <1>21, <2>0, MoveIfLegalType DEF Approve
  <2>2. ControlOK'
    BY <1>21 DEF Approve, ControlOK, DriverPhases, NoTurn
  <2>3. Held'
    <3>1. \A u \in Tasks : status[u] # "NONE" => status'[u] # "NONE"
      BY <1>21, <2>0, MoveHeld DEF Approve
    <3> QED BY <1>21, <3>1 DEF Approve, Held, ControlOK, NoTurn
  <2> QED BY <2>1, <2>2, <2>3
<1>22. ASSUME NEW t \in Tasks, Connect(t) PROVE TypeInv'
  <2>1. StoreOK'
    BY <1>22 DEF Connect, StoreOK, disk
  <2>2. ControlOK'
    BY <1>22 DEF Connect, ControlOK, phase
  <2>3. Held'
    BY <1>22 DEF Connect, Held, phase
  <2> QED BY <2>1, <2>2, <2>3
<1>23. ASSUME NEW t \in Tasks, Disconnect(t) PROVE TypeInv'
  <2>1. StoreOK'
    BY <1>23 DEF Disconnect, StoreOK, disk
  <2>2. ControlOK'
    BY <1>23 DEF Disconnect, ControlOK, phase
  <2>3. Held'
    BY <1>23 DEF Disconnect, Held, phase
  <2> QED BY <2>1, <2>2, <2>3
<1>24. CASE Crash
  <2>1. StoreOK'
    BY <1>24 DEF Crash, StoreOK, disk
  <2>2. ControlOK'
    BY <1>24 DEF Crash, ControlOK, phase
  <2>3. Held'
    BY <1>24 DEF Crash, Held, phase
  <2> QED BY <2>1, <2>2, <2>3
<1>25. CASE Recover
  BY <1>25, RecoverType
<1>26. CASE UNCHANGED vars
  BY <1>26 DEF vars, phase, disk, StoreOK, ControlOK, Held
<1> QED
  BY <1>1, <1>2, <1>3, <1>4, <1>5, <1>6, <1>7, <1>8, <1>9, <1>10, <1>11, <1>12, <1>13, <1>14, <1>15, <1>16, <1>17, <1>18, <1>19, <1>20, <1>21, <1>22, <1>23, <1>24, <1>25, <1>26
  DEF Next, DriverStep, RunnerStep, RequestStep

\* The types hold when the process starts for the first time.
LEMMA TypeInit ==
  Init => TypeInv
BY DEF Init, TypeInv, StoreOK, ControlOK, Held, HasLast, NoTurn, DriverPhases,
       StatusOrNone

\* The inductive invariant holds of every behaviour.
LEMMA TypeInvariant ==
  Spec => []TypeInv
BY TypeInit, TypeStep, PTL DEF Spec

\* Every variable has its type, whatever the disk does.
THEOREM TypeCorrect ==
  Spec => []TypeOK
<1>1. TypeInv => TypeOK
  BY DEF TypeInv, StoreOK, ControlOK, TypeOK
<1> QED BY <1>1, TypeInvariant, PTL

-----------------------------------------------------------------------------
(* What a step does to the store.                                          *)

\* A move the transition table (or submit) allows.
Legal(t, to) == (Fresh(t) /\ to = "QUEUED") \/ CanTransition(status[t], to)

\* No new artifact turn, or one that carries the seq its event has just got.
OldTurn(t)   == listener'[t].at = "artifact" => listener'[t] = listener[t]
FreshTurn(t) ==
  \/ OldTurn(t)
  \/ listener'[t].seq = cursor[t] + 1 /\ cursor'[t] = cursor[t] + 1

\* A cancel request that has not yet been through the runner's abort.
Cancelling(t) == canceller[t] \in {"aborting", "announcing"}

\* A refused submission stays refused, clients come by Connect only, and a cancel
\* request goes on to the runner's abort only with the task CANCELLED.
Frame ==
  \A u \in Tasks :
    /\ driver[u] = "refused" => driver'[u] = "refused"
    /\ linked'[u] => linked[u]
    /\ Cancelling(u)' => Cancelling(u) \/ (up' => status'[u] = "CANCELLED")

\* An event of the runner is logged, for a task the map holds.
Logged(t, kind, to) ==
  /\ up /\ Deliver(t, kind, to) /\ UNCHANGED <<status, changes>>
  /\ status[t] # "NONE" /\ \A u \in Tasks : FreshTurn(u)
  /\ to = "NONE" \/ (to = "CANCELLED" /\ canceller[t] = "announcing")

Stored(t, to) == up /\ MoveStored(t, to) /\ Legal(t, to) /\ \A u \in Tasks : OldTurn(u)
Cut(t, to)    == up /\ MoveCut(t, to) /\ Legal(t, to) /\ \A u \in Tasks : OldTurn(u)
Failed(t, to) ==
  up /\ MoveFailed(t, to) /\ CanTransition(status[t], to) /\ \A u \in Tasks : OldTurn(u)

\* A submission whose first write failed.
Refused(t) ==
  /\ up /\ Fresh(t) /\ DiskFaults /\ driver'[t] = "refused"
  /\ \A u \in Tasks : OldTurn(u)
  /\ status' = [status EXCEPT ![t] = "QUEUED"]
  /\ cursor' = [cursor EXCEPT ![t] = @ + 1]
  /\ log' = [log EXCEPT ![t] = @ \cup {StatusEvent(cursor[t] + 1, "QUEUED")}]
  /\ \E w \in {"lost", "kept"} :
       changes' = [changes EXCEPT ![t] =
                     Written(@, [seq |-> cursor[t] + 1, to |-> "QUEUED"], w)]
  /\ UNCHANGED <<up, events, seen>>

\* What a step is, whatever the disk does.
Kind ==
  \/ /\ Frame
     /\ \/ Unmoved /\ \A u \in Tasks : OldTurn(u)
        \/ \E t \in Tasks, kind \in Kinds, to \in StatusOrNone : Logged(t, kind, to)
        \/ \E t \in Tasks, to \in Status : Stored(t, to) \/ Cut(t, to) \/ Failed(t, to)
        \/ \E t \in Tasks : Refused(t)
  \/ \E t \in Tasks : ListenArtifact(t) \/ Connect(t)
  \/ Crash \/ Recover

\* A move that is tried is stored, cut off or failed, or nothing moves.
LEMMA MoveKind ==
  ASSUME TypeInv, up, Frame, NEW t \in Tasks, NEW to \in Status,
         \/ MoveIfLegal(t, to) \/ Unmoved
         \/ CanTransition(status[t], to) /\ (Move(t, to) \/ MoveFailed(t, to)),
         \A u \in Tasks : OldTurn(u)
  PROVE  Kind
<1>1. Unmoved => Kind
  BY DEF Kind
<1>2. CanTransition(status[t], to) /\ (Move(t, to) \/ MoveFailed(t, to)) => Kind
  <2>1. CanTransition(status[t], to) => Legal(t, to)
    BY DEF Legal
  <2> QED BY <2>1 DEF Kind, Move, Stored, Cut, Failed
<1>3. MoveIfLegal(t, to) =>
        Unmoved \/ (CanTransition(status[t], to) /\ (Move(t, to) \/ MoveFailed(t, to)))
  BY DEF MoveIfLegal
<1> QED BY <1>1, <1>2, <1>3

\* Every step is of one of these kinds: one step per action.
LEMMA StepKind ==
  ASSUME TypeInv, Next
  PROVE  Kind
<1>1. ASSUME NEW t \in Tasks, Submit(t) PROVE Kind
  <2>1. Frame /\ \A u \in Tasks : OldTurn(u)
    BY <1>1 DEF Submit, OldTurn, Frame, Cancelling, TypeInv, ControlOK
  <2>2. up /\ Fresh(t) /\ Legal(t, "QUEUED") /\ "QUEUED" \in Status
    BY <1>1 DEF Submit, Fresh, Legal, Status
  <2>3. \/ MoveStored(t, "QUEUED") \/ MoveCut(t, "QUEUED")
        \/ Refused(t)
    <3>1. CASE MoveStored(t, "QUEUED") \/ MoveCut(t, "QUEUED")
      BY <3>1
    <3>2. CASE ~(MoveStored(t, "QUEUED") \/ MoveCut(t, "QUEUED"))
      <4>1. PICK w \in WriteChange \ {"ok"} :
              /\ status' = [status EXCEPT ![t] = "QUEUED"]
              /\ cursor' = [cursor EXCEPT ![t] = @ + 1]
              /\ log' = [log EXCEPT ![t] = @ \cup {StatusEvent(cursor[t] + 1, "QUEUED")}]
              /\ changes' = [changes EXCEPT ![t] =
                   Written(@, [seq |-> StatusEvent(cursor[t] + 1, "QUEUED").seq,
                               to |-> "QUEUED"], w)]
              /\ driver' = [driver EXCEPT ![t] = "refused"]
              /\ UNCHANGED <<up, events, seen>>
        BY <1>1, <3>2, Zenon DEF Submit
      <4>2. w \in {"lost", "kept"} /\ DiskFaults
        BY <4>1 DEF WriteChange
      <4>3. StatusEvent(cursor[t] + 1, "QUEUED").seq = cursor[t] + 1
        BY DEF StatusEvent
      <4> QED BY <2>1, <2>2, <4>1, <4>2, <4>3 DEF Refused, TypeInv, ControlOK
    <3> QED BY <3>1, <3>2
  <2> QED BY <2>1, <2>2, <2>3 DEF Kind, Stored, Cut
<1>2. ASSUME NEW t \in Tasks, CreateRunner(t) PROVE Kind
  <2>1. Unmoved /\ UNCHANGED listener
    BY <1>2 DEF CreateRunner, phase
  <2>2. Frame /\ \A u \in Tasks : OldTurn(u)
    BY <1>2, <2>1 DEF CreateRunner, Frame, Cancelling, OldTurn, TypeInv, ControlOK, phase
  <2> QED BY <2>1, <2>2 DEF Kind
<1>3. ASSUME NEW t \in Tasks, CreateRunnerFails(t) PROVE Kind
  <2>1. up /\ "FAILED" \in Status
    BY <1>3 DEF CreateRunnerFails, Status
  <2>2. Frame /\ \A u \in Tasks : OldTurn(u)
    BY <1>3 DEF CreateRunnerFails, Frame, Cancelling, OldTurn, NoTurn, TypeInv, ControlOK
  <2>3. \/ MoveIfLegal(t, "FAILED") \/ Unmoved
        \/ CanTransition(status[t], "FAILED") /\ (Move(t, "FAILED") \/ MoveFailed(t, "FAILED"))
    BY <1>3 DEF CreateRunnerFails
  <2> QED BY <2>1, <2>2, <2>3, MoveKind
<1>4. ASSUME NEW t \in Tasks, Run(t) PROVE Kind
  <2>1. up /\ "RUNNING" \in Status
    BY <1>4 DEF Run, Status
  <2>2. Frame /\ \A u \in Tasks : OldTurn(u)
    BY <1>4 DEF Run, Frame, Cancelling, OldTurn, NoTurn, TypeInv, ControlOK
  <2>3. \/ MoveIfLegal(t, "RUNNING") \/ Unmoved
        \/ CanTransition(status[t], "RUNNING") /\ (Move(t, "RUNNING") \/ MoveFailed(t, "RUNNING"))
    BY <1>4 DEF Run
  <2> QED BY <2>1, <2>2, <2>3, MoveKind
<1>5. ASSUME NEW t \in Tasks, StartLane(t) PROVE Kind
  <2>1. Unmoved /\ UNCHANGED listener
    BY <1>5 DEF StartLane, phase
  <2>2. Frame /\ \A u \in Tasks : OldTurn(u)
    BY <1>5, <2>1 DEF StartLane, Frame, Cancelling, OldTurn, TypeInv, ControlOK, phase
  <2> QED BY <2>1, <2>2 DEF Kind
<1>6. ASSUME NEW t \in Tasks, PromptReturns(t) PROVE Kind
  <2>1. up /\ "SUCCEEDED" \in Status
    BY <1>6 DEF PromptReturns, Status
  <2>2. Frame /\ \A u \in Tasks : OldTurn(u)
    BY <1>6 DEF PromptReturns, Frame, Cancelling, OldTurn, NoTurn, TypeInv, ControlOK
  <2>3. \/ MoveIfLegal(t, "SUCCEEDED") \/ Unmoved
        \/ CanTransition(status[t], "SUCCEEDED") /\ (Move(t, "SUCCEEDED") \/ MoveFailed(t, "SUCCEEDED"))
    BY <1>6 DEF PromptReturns
  <2> QED BY <2>1, <2>2, <2>3, MoveKind
<1>7. ASSUME NEW t \in Tasks, PromptThrows(t) PROVE Kind
  <2>1. up /\ "FAILED" \in Status
    BY <1>7 DEF PromptThrows, Status
  <2>2. Frame /\ \A u \in Tasks : OldTurn(u)
    BY <1>7 DEF PromptThrows, Frame, Cancelling, OldTurn, NoTurn, TypeInv, ControlOK
  <2>3. \/ MoveIfLegal(t, "FAILED") \/ Unmoved
        \/ CanTransition(status[t], "FAILED") /\ (Move(t, "FAILED") \/ MoveFailed(t, "FAILED"))
    BY <1>7 DEF PromptThrows
  <2> QED BY <2>1, <2>2, <2>3, MoveKind
<1>8. ASSUME NEW t \in Tasks, DriverClose(t) PROVE Kind
  <2>1. Unmoved /\ UNCHANGED listener
    BY <1>8 DEF DriverClose, phase
  <2>2. Frame /\ \A u \in Tasks : OldTurn(u)
    BY <1>8, <2>1 DEF DriverClose, Frame, Cancelling, OldTurn, TypeInv, ControlOK, phase
  <2> QED BY <2>1, <2>2 DEF Kind
<1>9. ASSUME NEW t \in Tasks, RequestConfirm(t) PROVE Kind
  <2>1. Unmoved /\ UNCHANGED listener
    BY <1>9 DEF RequestConfirm, phase
  <2>2. Frame /\ \A u \in Tasks : OldTurn(u)
    BY <1>9, <2>1 DEF RequestConfirm, Frame, Cancelling, OldTurn, TypeInv, ControlOK, phase
  <2> QED BY <2>1, <2>2 DEF Kind
<1>10. ASSUME NEW t \in Tasks, Announce(t) PROVE Kind
  <2>1. Frame /\ \A u \in Tasks : FreshTurn(u)
    BY <1>10 DEF Announce, Frame, Cancelling, Deliver, FreshTurn, OldTurn, TypeInv, StoreOK, ControlOK
  <2>2. up /\ status[t] # "NONE" /\ UNCHANGED <<status, changes>>
    BY <1>10 DEF Announce, TypeInv, Held
  <2>3. \E kind \in Kinds : Deliver(t, kind, "NONE")
    BY <1>10 DEF Announce, Kinds
  <2> QED BY <2>1, <2>2, <2>3 DEF Kind, Logged, StatusOrNone
<1>11. ASSUME NEW t \in Tasks, ListenAwait(t) PROVE Kind
  <2>1. up /\ "AWAIT_CONFIRM" \in Status
    BY <1>11 DEF ListenAwait, Status
  <2>2. Frame /\ \A u \in Tasks : OldTurn(u)
    BY <1>11 DEF ListenAwait, Frame, Cancelling, OldTurn, NoTurn, TypeInv, ControlOK
  <2>3. \/ MoveIfLegal(t, "AWAIT_CONFIRM") \/ Unmoved
        \/ CanTransition(status[t], "AWAIT_CONFIRM") /\ (Move(t, "AWAIT_CONFIRM") \/ MoveFailed(t, "AWAIT_CONFIRM"))
    BY <1>11 DEF ListenAwait
  <2> QED BY <2>1, <2>2, <2>3, MoveKind
<1>12. ASSUME NEW t \in Tasks, ToolDecision(t) PROVE Kind
  <2>1. Unmoved /\ UNCHANGED listener
    BY <1>12 DEF ToolDecision, phase
  <2>2. Frame /\ \A u \in Tasks : OldTurn(u)
    BY <1>12, <2>1 DEF ToolDecision, Frame, Cancelling, OldTurn, TypeInv, ControlOK, phase
  <2> QED BY <2>1, <2>2 DEF Kind
<1>13. ASSUME NEW t \in Tasks, Expire(t) PROVE Kind
  <2>1. Unmoved /\ UNCHANGED listener
    BY <1>13 DEF Expire, phase
  <2>2. Frame /\ \A u \in Tasks : OldTurn(u)
    BY <1>13, <2>1 DEF Expire, Frame, Cancelling, OldTurn, TypeInv, ControlOK, phase
  <2> QED BY <2>1, <2>2 DEF Kind
<1>14. ASSUME NEW t \in Tasks, Emit(t) PROVE Kind
  <2>1. Frame /\ \A u \in Tasks : FreshTurn(u)
    BY <1>14 DEF Emit, Frame, Cancelling, Deliver, FreshTurn, OldTurn, TypeInv, StoreOK, ControlOK
  <2>2. up /\ status[t] # "NONE" /\ UNCHANGED <<status, changes>>
    BY <1>14 DEF Emit, TypeInv, Held
  <2>3. \E kind \in Kinds : Deliver(t, kind, "NONE")
    BY <1>14 DEF Emit, Kinds
  <2> QED BY <2>1, <2>2, <2>3 DEF Kind, Logged, StatusOrNone
<1>15. ASSUME NEW t \in Tasks, ListenArtifact(t) PROVE Kind
  BY <1>15 DEF Kind
<1>16. ASSUME NEW t \in Tasks, Cancel(t) PROVE Kind
  <2>1. up /\ "CANCELLED" \in Status
    BY <1>16 DEF Cancel, Status
  <2>2. Frame /\ \A u \in Tasks : OldTurn(u)
    <3>1. \A u \in Tasks \ {t} : canceller'[u] = canceller[u]
      BY <1>16 DEF Cancel, TypeInv, ControlOK
    <3>2. Cancelling(t)' => Cancelling(t) \/ (up' => status'[t] = "CANCELLED")
      <4>1. Move(t, "CANCELLED") => ~up' \/ status'[t] = "CANCELLED"
        BY DEF Move, MoveStored, MoveCut, TypeInv, StoreOK
      <4> QED BY <1>16, <4>1 DEF Cancel, Cancelling, Unmoved, TypeInv, ControlOK
    <3> QED BY <1>16, <3>1, <3>2 DEF Cancel, Frame, Cancelling, OldTurn
  <2>3. \/ MoveIfLegal(t, "CANCELLED") \/ Unmoved
        \/ CanTransition(status[t], "CANCELLED") /\ (Move(t, "CANCELLED") \/ MoveFailed(t, "CANCELLED"))
    BY <1>16 DEF Cancel
  <2> QED BY <2>1, <2>2, <2>3, MoveKind
<1>17. ASSUME NEW t \in Tasks, Abort(t) PROVE Kind
  <2>1. Unmoved /\ UNCHANGED listener
    BY <1>17 DEF Abort, phase
  <2>2. Frame /\ \A u \in Tasks : OldTurn(u)
    BY <1>17, <2>1 DEF Abort, Frame, Cancelling, OldTurn, TypeInv, ControlOK, phase
  <2> QED BY <2>1, <2>2 DEF Kind
<1>18. ASSUME NEW t \in Tasks, AnnounceCancel(t) PROVE Kind
  <2>1. Frame /\ \A u \in Tasks : OldTurn(u)
    BY <1>18 DEF AnnounceCancel, Frame, Cancelling, OldTurn
  <2>2. CASE runner[t]
    <3>1. /\ up /\ Deliver(t, "status", "CANCELLED") /\ UNCHANGED <<status, changes>>
          /\ status[t] # "NONE" /\ canceller[t] = "announcing"
      BY <1>18, <2>2 DEF AnnounceCancel, TypeInv, Held
    <3> QED BY <2>1, <3>1 DEF Kind, Logged, FreshTurn, Kinds, StatusOrNone, Status
  <2>3. CASE ~runner[t]
    BY <1>18, <2>1, <2>3 DEF AnnounceCancel, Kind, Unmoved
  <2> QED BY <2>2, <2>3
<1>19. ASSUME NEW t \in Tasks, CloseAfterCancel(t) PROVE Kind
  <2>1. Unmoved /\ UNCHANGED listener
    BY <1>19 DEF CloseAfterCancel, phase
  <2>2. Frame /\ \A u \in Tasks : OldTurn(u)
    BY <1>19, <2>1 DEF CloseAfterCancel, Frame, Cancelling, OldTurn, TypeInv, ControlOK, phase
  <2> QED BY <2>1, <2>2 DEF Kind
<1>20. ASSUME NEW t \in Tasks, Confirm(t) PROVE Kind
  <2>1. up /\ "RUNNING" \in Status
    BY <1>20 DEF Confirm, Status
  <2>2. Frame /\ \A u \in Tasks : OldTurn(u)
    BY <1>20 DEF Confirm, Frame, Cancelling, OldTurn, NoTurn, TypeInv, ControlOK
  <2>3. \/ MoveIfLegal(t, "RUNNING") \/ Unmoved
        \/ CanTransition(status[t], "RUNNING") /\ (Move(t, "RUNNING") \/ MoveFailed(t, "RUNNING"))
    BY <1>20 DEF Confirm
  <2> QED BY <2>1, <2>2, <2>3, MoveKind
<1>21. ASSUME NEW t \in Tasks, Approve(t) PROVE Kind
  <2>1. up /\ "FAILED" \in Status
    BY <1>21 DEF Approve, Status
  <2>2. Frame /\ \A u \in Tasks : OldTurn(u)
    BY <1>21 DEF Approve, Frame, Cancelling, OldTurn, NoTurn, TypeInv, ControlOK
  <2>3. \/ MoveIfLegal(t, "FAILED") \/ Unmoved
        \/ CanTransition(status[t], "FAILED") /\ (Move(t, "FAILED") \/ MoveFailed(t, "FAILED"))
    BY <1>21 DEF Approve
  <2> QED BY <2>1, <2>2, <2>3, MoveKind
<1>22. ASSUME NEW t \in Tasks, Connect(t) PROVE Kind
  BY <1>22 DEF Kind
<1>23. ASSUME NEW t \in Tasks, Disconnect(t) PROVE Kind
  <2>1. Unmoved /\ UNCHANGED <<driver, listener, canceller>>
    BY <1>23 DEF Disconnect, Unmoved, phase, disk
  <2>2. Frame /\ \A u \in Tasks : OldTurn(u)
    BY <1>23, <2>1 DEF Disconnect, Frame, Cancelling, OldTurn, TypeInv, ControlOK
  <2> QED BY <2>1, <2>2 DEF Kind
<1> QED
  BY <1>1, <1>2, <1>3, <1>4, <1>5, <1>6, <1>7, <1>8, <1>9, <1>10, <1>11, <1>12, <1>13, <1>14, <1>15, <1>16, <1>17, <1>18, <1>19, <1>20, <1>21, <1>22, <1>23
  DEF Next, DriverStep, RunnerStep, RequestStep, Kind

-----------------------------------------------------------------------------
(* Memory and change stream.                                               *)

OneRowPerSeq(rows) == \A a, b \in rows : a.seq = b.seq => a = b

\* With a failing disk memory may be ahead of the change stream as FAILED, as
\* INTERRUPTED or as a refused submission, and not otherwise.
Backed(t) ==
  \/ Fold(changes[t]) = status[t]
  \/ DiskFaults /\ status[t] \in {"FAILED", "INTERRUPTED"}
  \/ DiskFaults /\ status[t] = "QUEUED" /\ driver[t] = "refused"

\* Why this survives: the next seq is above every stored one, and the row a pending
\* artifact will add has a seq no stored row has.
Tracked(t) ==
  /\ Backed(t)
  /\ \A r \in changes[t] : r.seq <= cursor[t]
  /\ listener[t].at = "artifact" =>
       /\ listener[t].seq <= cursor[t]
       /\ \A r \in changes[t] : r.seq # listener[t].seq

DiskInv ==
  /\ \A t \in Tasks : OneRowPerSeq(changes[t])
  /\ up => \A t \in Tasks : Tracked(t)

\* A step that moves no task: events may be logged, no status changes.
Calm ==
  /\ UNCHANGED <<up, status, changes>>
  /\ \A t \in Tasks : /\ cursor'[t] >= cursor[t] /\ FreshTurn(t)
                      /\ driver[t] = "refused" => driver'[t] = "refused"

LEMMA CalmKinds ==
  ASSUME TypeInv,
         \/ Frame /\ Unmoved /\ \A u \in Tasks : OldTurn(u)
         \/ Frame /\ \E t \in Tasks, kind \in Kinds, to \in StatusOrNone : Logged(t, kind, to)
         \/ \E t \in Tasks : Connect(t)
  PROVE  Calm
<1>1. CASE Frame /\ Unmoved /\ \A u \in Tasks : OldTurn(u)
  BY <1>1 DEF Unmoved, Calm, Frame, FreshTurn, TypeInv, StoreOK
<1>2. ASSUME Frame, NEW t \in Tasks, NEW kind \in Kinds, NEW to \in StatusOrNone,
             Logged(t, kind, to)
      PROVE  Calm
  BY <1>2 DEF Logged, Deliver, Calm, Frame, TypeInv, StoreOK
<1>3. ASSUME NEW t \in Tasks, Connect(t) PROVE Calm
  BY <1>3 DEF Connect, phase, disk, Calm, FreshTurn, OldTurn, TypeInv, StoreOK
<1> QED BY <1>1, <1>2, <1>3

\* A late row that repeats the folded status does not change the fold.
LEMMA FoldLate ==
  ASSUME NEW rows \in SUBSET Change, HasLast(rows), rows # {}, OneRowPerSeq(rows),
         NEW r \in Change, r.to = Fold(rows)
  PROVE  Fold(rows \cup {r}) = Fold(rows)
<1> DEFINE all == rows \cup {r}
<1>1. HasLast(all)
  BY HasLastAppend DEF Change
<1>2. PICK m \in all : IsLast(m, all) /\ Fold(all) = m.to
  BY <1>1, LastRow
<1>3. PICK q \in rows : IsLast(q, rows) /\ Fold(rows) = q.to
  BY LastRow
<1>4. CASE m = r
  BY <1>2, <1>4
<1>5. CASE m \in rows
  <2>1. m.seq = q.seq
    BY <1>2, <1>3, <1>5 DEF IsLast, Change
  <2> QED BY <1>2, <1>3, <1>5, <2>1 DEF OneRowPerSeq
<1> QED BY <1>2, <1>4, <1>5

\* A move's row is the greatest, so the streams of all tasks fold as expected.
LEMMA MoveFold ==
  ASSUME TypeInv, DiskInv, up, NEW t \in Tasks, NEW to \in Status,
         changes' = [changes EXCEPT ![t] = @ \cup {[seq |-> cursor[t] + 1, to |-> to]}]
  PROVE  /\ \A u \in Tasks : Fold(changes'[u]) = IF u = t THEN to ELSE Fold(changes[u])
         /\ \A u \in Tasks : OneRowPerSeq(changes'[u])
         /\ \A r \in changes'[t] : r \in changes[t] \/ r.seq = cursor[t] + 1
<1> DEFINE row == [seq |-> cursor[t] + 1, to |-> to]
<1>1. /\ row \in Change /\ row.to = to /\ row.seq = cursor[t] + 1
      /\ changes[t] \in SUBSET Change /\ cursor[t] \in Nat
  BY DEF TypeInv, StoreOK, Change
<1>2. \A x \in changes[t] : x.seq < row.seq
  BY <1>1 DEF DiskInv, Tracked, Change
<1>3. changes'[t] = changes[t] \cup {row} /\ \A u \in Tasks \ {t} : changes'[u] = changes[u]
  BY DEF TypeInv, StoreOK
<1> HIDE DEF row
<1>4. Fold(changes'[t]) = to
  BY <1>1, <1>2, <1>3, FoldAppend
<1>5. OneRowPerSeq(changes'[t])
  BY <1>1, <1>2, <1>3 DEF OneRowPerSeq, DiskInv, Change
<1>6. ASSUME NEW u \in Tasks
      PROVE  /\ Fold(changes'[u]) = IF u = t THEN to ELSE Fold(changes[u])
             /\ OneRowPerSeq(changes'[u])
  <2>1. CASE u = t
    BY <1>1, <1>4, <1>5, <2>1
  <2>2. CASE u # t
    BY <1>3, <2>2 DEF DiskInv
  <2> QED BY <2>1, <2>2
<1>7. \A r \in changes'[t] : r \in changes[t] \/ r.seq = cursor[t] + 1
  BY <1>1, <1>3
<1> QED BY <1>6, <1>7

\* What a step does not touch stays tracked.
LEMMA TrackedKept ==
  ASSUME TypeInv, NEW u \in Tasks, Tracked(u), OldTurn(u),
         status'[u] = status[u], cursor'[u] = cursor[u], changes'[u] = changes[u],
         driver[u] = "refused" => driver'[u] = "refused"
  PROVE  Tracked(u)'
BY DEF Tracked, Backed, OldTurn

\* Every step keeps memory and change stream in agreement, as far as the disk lets it.
LEMMA DiskStep ==
  ASSUME TypeInv, TypeInv', DiskInv, [Next]_vars
  PROVE  DiskInv'
<1>1. CASE Calm
  <2>1. \A t \in Tasks : changes'[t] = changes[t] /\ status'[t] = status[t]
    BY <1>1 DEF Calm
  <2>2. ASSUME NEW t \in Tasks, up' PROVE Tracked(t)'
    <3>1. Tracked(t) /\ cursor[t] \in Nat /\ cursor'[t] \in Nat
          /\ cursor'[t] >= cursor[t] /\ FreshTurn(t) /\ changes[t] \in SUBSET Change
      BY <1>1, <2>2 DEF Calm, DiskInv, TypeInv, StoreOK
    <3>2. \A r \in changes[t] : r.seq \in Nat
      BY <3>1 DEF Change
    <3>3. Backed(t)' /\ \A r \in changes'[t] : r.seq <= cursor'[t]
      BY <1>1, <2>1, <3>1, <3>2 DEF Tracked, Backed, Calm
    <3>4. CASE OldTurn(t)
      <4>1. listener[t].seq \in Nat
        BY DEF TypeInv, ControlOK
      <4> QED BY <2>1, <3>1, <3>3, <3>4, <4>1 DEF Tracked, OldTurn
    <3>5. CASE listener'[t].seq = cursor[t] + 1 /\ cursor'[t] = cursor[t] + 1
      BY <2>1, <3>1, <3>2, <3>3, <3>5 DEF Tracked
    <3> QED BY <3>1, <3>4, <3>5 DEF FreshTurn
  <2> QED BY <2>1, <2>2 DEF DiskInv
<1>2. ASSUME Frame, NEW t \in Tasks, NEW to \in Status, Stored(t, to) PROVE DiskInv'
  <2>1. /\ up /\ up' /\ status' = [status EXCEPT ![t] = to]
        /\ cursor' = [cursor EXCEPT ![t] = @ + 1]
        /\ changes' = [changes EXCEPT ![t] = @ \cup {[seq |-> cursor[t] + 1, to |-> to]}]
        /\ \A u \in Tasks : OldTurn(u)
    BY <1>2 DEF Stored, MoveStored, StatusEvent
  <2>2. /\ \A u \in Tasks : Fold(changes'[u]) = IF u = t THEN to ELSE Fold(changes[u])
        /\ \A u \in Tasks : OneRowPerSeq(changes'[u])
        /\ \A r \in changes'[t] : r \in changes[t] \/ r.seq = cursor[t] + 1
    BY <2>1, MoveFold
  <2>3. ASSUME NEW u \in Tasks PROVE Tracked(u)'
    <3>1. /\ Tracked(u) /\ cursor[u] \in Nat /\ listener[u].seq \in Nat
          /\ \A r \in changes[u] : r.seq \in Nat
      BY <2>1 DEF DiskInv, TypeInv, StoreOK, ControlOK, Change
    <3>2. CASE u = t
      <4>1. cursor'[u] = cursor[u] + 1
        BY <2>1, <3>2 DEF TypeInv, StoreOK
      <4>2. \A r \in changes'[u] : r.seq <= cursor'[u]
        BY <2>2, <3>1, <3>2, <4>1 DEF Tracked
      <4>3. listener'[u].at = "artifact" =>
              /\ listener'[u].seq <= cursor'[u]
              /\ \A r \in changes'[u] : r.seq # listener'[u].seq
        BY <2>1, <2>2, <3>1, <3>2, <4>1 DEF Tracked, OldTurn
      <4>4. Backed(u)'
        BY <2>1, <2>2, <3>2 DEF Backed, TypeInv, StoreOK
      <4> QED BY <4>2, <4>3, <4>4 DEF Tracked
    <3>3. CASE u # t
      <4>1. cursor'[u] = cursor[u] /\ changes'[u] = changes[u] /\ status'[u] = status[u]
        BY <2>1, <3>3 DEF TypeInv, StoreOK
      <4> QED BY <1>2, <2>1, <3>1, <4>1, TrackedKept DEF Frame
    <3> QED BY <3>2, <3>3
  <2> QED BY <2>2, <2>3 DEF DiskInv
<1>3. ASSUME NEW t \in Tasks, NEW to \in Status, Cut(t, to) PROVE DiskInv'
  <2>1. /\ up /\ ~up'
        /\ changes' = [changes EXCEPT ![t] = @ \cup {[seq |-> cursor[t] + 1, to |-> to]}]
    BY <1>3 DEF Cut, MoveCut
  <2> QED BY <2>1, MoveFold DEF DiskInv
<1>4. ASSUME Frame, NEW t \in Tasks, NEW to \in Status, Failed(t, to) PROVE DiskInv'
  <2> DEFINE row1 == [seq |-> cursor[t] + 1, to |-> to]
             row2 == [seq |-> cursor[t] + 2, to |-> "FAILED"]
  <2>1. PICK w \in WriteChange \ {"ok"}, w2 \in WriteChange :
          /\ up /\ status' = [status EXCEPT ![t] = "FAILED"]
          /\ cursor' = [cursor EXCEPT ![t] = @ + 2]
          /\ changes' = [changes EXCEPT ![t] = Written(Written(@, row1, w), row2, w2)]
    BY <1>4, Zenon DEF Failed, MoveFailed, StatusEvent
  <2>2. DiskFaults /\ \A u \in Tasks : OldTurn(u)
    BY <1>4, <2>1 DEF WriteChange, Failed
  <2>3. /\ Tracked(t) /\ OneRowPerSeq(changes[t]) /\ cursor[t] \in Nat /\ listener[t].seq \in Nat
        /\ \A r \in changes[t] : r.seq \in Nat
    BY <2>1 DEF DiskInv, TypeInv, StoreOK, ControlOK, Change
  <2>4. row1.seq = cursor[t] + 1 /\ row2.seq = cursor[t] + 2
    OBVIOUS
  <2>5. /\ cursor'[t] = cursor[t] + 2 /\ status'[t] = "FAILED"
        /\ changes'[t] \subseteq changes[t] \cup {row1, row2}
    BY <2>1 DEF TypeInv, StoreOK, Written
  <2> HIDE DEF row1, row2
  <2>6. OneRowPerSeq(changes'[t])
    BY <2>3, <2>4, <2>5 DEF OneRowPerSeq, Tracked
  <2>7. Tracked(t)'
    <3>1. Backed(t)'
      BY <2>2, <2>5 DEF Backed
    <3>2. \A r \in changes'[t] : r.seq <= cursor'[t]
      BY <2>3, <2>4, <2>5 DEF Tracked
    <3>3. listener'[t].at = "artifact" =>
            /\ listener'[t].seq <= cursor'[t]
            /\ \A r \in changes'[t] : r.seq # listener'[t].seq
      BY <2>2, <2>3, <2>4, <2>5 DEF Tracked, OldTurn
    <3> QED BY <3>1, <3>2, <3>3 DEF Tracked
  <2>8. ASSUME NEW u \in Tasks \ {t} PROVE Tracked(u)' /\ OneRowPerSeq(changes'[u])
    <3>1. cursor'[u] = cursor[u] /\ changes'[u] = changes[u] /\ status'[u] = status[u]
      BY <2>1 DEF TypeInv, StoreOK
    <3> QED BY <1>4, <2>1, <2>2, <3>1, TrackedKept DEF Frame, DiskInv
  <2> QED BY <2>6, <2>7, <2>8 DEF DiskInv
<1>5. ASSUME Frame, NEW t \in Tasks, Refused(t) PROVE DiskInv'
  <2> DEFINE row == [seq |-> cursor[t] + 1, to |-> "QUEUED"]
  <2>1. /\ up /\ status' = [status EXCEPT ![t] = "QUEUED"] /\ changes[t] = {}
        /\ cursor' = [cursor EXCEPT ![t] = @ + 1] /\ DiskFaults /\ driver'[t] = "refused"
        /\ \E w \in {"lost", "kept"} :
             changes' = [changes EXCEPT ![t] = Written(@, row, w)]
        /\ \A u \in Tasks : OldTurn(u)
    BY <1>5 DEF Refused, Fresh
  <2>2. listener[t].at # "artifact" /\ cursor[t] \in Nat
    BY <1>5 DEF Refused, Fresh, TypeInv, Held, StoreOK
  <2>3. /\ cursor'[t] = cursor[t] + 1 /\ status'[t] = "QUEUED" /\ row.seq = cursor[t] + 1
        /\ changes'[t] \subseteq {row}
    BY <2>1 DEF TypeInv, StoreOK, Written
  <2>4. Tracked(t)' /\ OneRowPerSeq(changes'[t])
    BY <2>1, <2>2, <2>3 DEF Tracked, Backed, OldTurn, OneRowPerSeq
  <2>5. ASSUME NEW u \in Tasks \ {t} PROVE Tracked(u)' /\ OneRowPerSeq(changes'[u])
    <3>1. cursor'[u] = cursor[u] /\ changes'[u] = changes[u] /\ status'[u] = status[u]
      BY <2>1 DEF TypeInv, StoreOK
    <3> QED BY <1>5, <2>1, <3>1, TrackedKept DEF Frame, DiskInv
  <2> QED BY <2>4, <2>5 DEF DiskInv
<1>6. ASSUME NEW t \in Tasks, ListenArtifact(t) PROVE DiskInv'
  <2> DEFINE row == [seq |-> listener[t].seq, to |-> status[t]]
  <2>1. PICK w \in WriteChange :
          /\ up /\ listener[t].at = "artifact"
          /\ changes' = [changes EXCEPT ![t] = Written(@, row, w)]
          /\ listener' = [listener EXCEPT ![t] = NoTurn]
          /\ UNCHANGED <<up, status, cursor, driver>>
    BY <1>6 DEF ListenArtifact
  <2>2. /\ Tracked(t) /\ OneRowPerSeq(changes[t])
        /\ changes[t] \in SUBSET Change /\ HasLast(changes[t])
    BY <2>1 DEF DiskInv, TypeInv, StoreOK
  <2>3. status[t] # "NONE" /\ row \in Change
    BY <2>1 DEF TypeInv, Held, StoreOK, ControlOK, Change, StatusOrNone
  <2>4. row.to = status[t] /\ row.seq = listener[t].seq
    OBVIOUS
  <2>5. /\ changes'[t] = changes[t] \/ changes'[t] = changes[t] \cup {row}
        /\ \A u \in Tasks \ {t} : changes'[u] = changes[u]
    BY <2>1 DEF TypeInv, StoreOK, Written
  <2> HIDE DEF row
  <2>6. Backed(t)'
    <3>1. CASE Fold(changes[t]) = status[t]
      <4>1. changes[t] # {}
        BY <2>2, <2>3, <3>1, FoldType
      <4>2. Fold(changes'[t]) = status[t]
        BY <2>2, <2>3, <2>4, <2>5, <3>1, <4>1, FoldLate
      <4> QED BY <2>1, <4>2 DEF Backed
    <3>2. CASE Fold(changes[t]) # status[t]
      BY <2>1, <2>2, <3>2 DEF Tracked, Backed
    <3> QED BY <3>1, <3>2
  <2>7. OneRowPerSeq(changes'[t]) /\ \A r \in changes'[t] : r.seq <= cursor[t]
    BY <2>1, <2>2, <2>4, <2>5 DEF OneRowPerSeq, Tracked
  <2>8. Tracked(t)'
    BY <2>1, <2>6, <2>7 DEF Tracked, NoTurn, TypeInv, ControlOK
  <2>9. ASSUME NEW u \in Tasks \ {t} PROVE Tracked(u)' /\ OneRowPerSeq(changes'[u])
    <3>1. OldTurn(u) /\ UNCHANGED <<status[u], cursor[u], changes[u], driver[u]>>
      BY <2>1, <2>5 DEF OldTurn, TypeInv, ControlOK
    <3> QED BY <2>1, <3>1, TrackedKept DEF DiskInv
  <2> QED BY <2>7, <2>8, <2>9 DEF DiskInv
<1>7. CASE Crash
  BY <1>7 DEF Crash, DiskInv, disk
<1>8. CASE Recover
  <2> DEFINE stored(t) == Fold(changes[t])
             cut(t)    == stored(t) \notin Settled \cup {"NONE"}
             last(t)   == IF LastSeq(changes[t]) > LastSeq(events[t])
                          THEN LastSeq(changes[t]) ELSE LastSeq(events[t])
             row(t)    == [seq |-> last(t) + 1, to |-> "INTERRUPTED"]
  <2>1. PICK L \in SUBSET (IF DiskFaults THEN Tasks ELSE {}) :
        /\ status' = [t \in Tasks |-> IF cut(t) THEN "INTERRUPTED" ELSE stored(t)]
        /\ cursor' = [t \in Tasks |-> IF cut(t) THEN last(t) + 1
                                      ELSE IF stored(t) = "NONE" THEN 0
                                      ELSE last(t)]
        /\ changes' = [t \in Tasks |-> changes[t] \cup
                         (IF cut(t) /\ t \notin L THEN {row(t)} ELSE {})]
        /\ listener' = [t \in Tasks |-> NoTurn]
    BY <1>8, Zenon DEF Recover, ClearedPhases
  <2>2. ASSUME NEW t \in Tasks PROVE OneRowPerSeq(changes'[t]) /\ Tracked(t)'
    <3>1. changes[t] \in SUBSET Change /\ HasLast(changes[t]) /\ OneRowPerSeq(changes[t])
      BY DEF TypeInv, StoreOK, DiskInv
    <3>2. /\ LastSeq(changes[t]) \in Nat
          /\ stored(t) = "NONE" <=> changes[t] = {}
          /\ \A x \in changes[t] : x.seq <= LastSeq(changes[t])
      BY <3>1, FoldType
    <3>3. LastSeq(events[t]) \in Nat
      BY LastSeqType DEF TypeInv, StoreOK
    <3>4. last(t) \in Nat /\ \A x \in changes[t] : x.seq \in Nat /\ x.seq <= last(t)
      BY <3>1, <3>2, <3>3 DEF Change
    <3>5. row(t) \in Change /\ row(t).seq = last(t) + 1 /\ row(t).to = "INTERRUPTED"
      BY <3>4 DEF Change, Status
    <3>6. listener'[t].at # "artifact"
      BY <2>1 DEF NoTurn
    <3>7. CASE cut(t)
      <4>1. /\ changes'[t] = IF t \notin L THEN changes[t] \cup {row(t)} ELSE changes[t]
            /\ status'[t] = "INTERRUPTED" /\ cursor'[t] = last(t) + 1
        BY <2>1, <3>7
      <4> HIDE DEF row, last, cut
      <4>2. \A x \in changes[t] : x.seq < row(t).seq
        BY <3>4, <3>5
      <4>3. Backed(t)'
        <5>1. CASE t \in L
          BY <4>1, <5>1 DEF Backed
        <5>2. CASE t \notin L
          BY <3>1, <3>5, <4>1, <4>2, <5>2, FoldAppend DEF Backed
        <5> QED BY <5>1, <5>2
      <4>4. OneRowPerSeq(changes'[t])
        BY <3>1, <3>4, <3>5, <4>1, <4>2 DEF OneRowPerSeq
      <4>5. \A r \in changes'[t] : r.seq <= cursor'[t]
        BY <3>4, <3>5, <4>1
      <4> QED BY <3>6, <4>3, <4>4, <4>5 DEF Tracked
    <3>8. CASE ~cut(t)
      <4>1. /\ changes'[t] = changes[t] /\ status'[t] = stored(t)
            /\ cursor'[t] = IF stored(t) = "NONE" THEN 0 ELSE last(t)
        BY <2>1, <3>8
      <4>2. \A r \in changes'[t] : r.seq <= cursor'[t]
        BY <3>2, <3>4, <4>1
      <4> QED BY <3>1, <3>6, <4>1, <4>2 DEF Tracked, Backed
    <3> QED BY <3>7, <3>8
  <2> QED BY <2>2 DEF DiskInv
<1>9. CASE UNCHANGED vars
  BY <1>9 DEF vars, phase, disk, DiskInv, Tracked, Backed
<1> QED BY <1>1, <1>2, <1>3, <1>4, <1>5, <1>6, <1>7, <1>8, <1>9, StepKind, CalmKinds DEF Kind

\* Memory and change stream agree when both are empty.
LEMMA DiskInit ==
  Init => DiskInv
BY DEF Init, DiskInv, Tracked, Backed, OneRowPerSeq, Fold, NoTurn

\* Every task stays tracked in every behaviour.
LEMMA DiskInvariant ==
  Spec => [](TypeInv /\ DiskInv)
<1>1. Init => TypeInv /\ DiskInv
  BY TypeInit, DiskInit
<1>2. TypeInv /\ DiskInv /\ [Next]_vars => (TypeInv /\ DiskInv)'
  BY TypeStep, DiskStep
<1> QED BY <1>1, <1>2, PTL DEF Spec

\* On a disk that stores what it is given, a restart at any moment would rebuild
\* exactly the statuses memory holds, whatever happens to the event stream.
THEOREM DiskAlwaysAgrees ==
  ASSUME DiskFaults = FALSE
  PROVE  Spec => []DiskAgrees
<1>1. TypeInv /\ DiskInv => DiskAgrees
  BY DEF DiskInv, Tracked, Backed, DiskAgrees
<1> QED BY <1>1, DiskInvariant, PTL

\* Whatever writes fail, of whatever stream, a task never shows progress that a restart
\* would take back (transition, the compensation of a failed write, recover).
THEOREM ProgressAlwaysStored ==
  Spec => []NoUnstoredProgress
<1>1. TypeInv /\ DiskInv => NoUnstoredProgress
  BY DEF DiskInv, Tracked, Backed, NoUnstoredProgress
<1> QED BY <1>1, DiskInvariant, PTL

-----------------------------------------------------------------------------
(* The abstract life cycle.                                                *)

\* While the process is down, the fold of the change stream is the state.
LEMMA CurrentIsFold ==
  ASSUME TypeInv, DiskInv, DiskFaults = FALSE
  PROVE  Current = [t \in Tasks |-> Fold(changes[t])]
BY DEF Current, DiskInv, Tracked, Backed

\* Every step is a step of the abstract life cycle, or one it does not see.
LEMMA LifecycleStep ==
  ASSUME TypeInv, DiskInv, TypeInv', DiskInv', [Next]_vars, DiskFaults = FALSE
  PROVE  [Lifecycle!Next]_Current
<1>1. Current = [t \in Tasks |-> Fold(changes[t])]
  BY CurrentIsFold
<1>2. Current' = [t \in Tasks |-> Fold(changes'[t])]
  BY DEF Current, DiskInv, Tracked, Backed
<1>3. up => Current = status
  BY DEF Current, TypeInv, StoreOK
<1>4. CASE UNCHANGED changes
  BY <1>1, <1>2, <1>4
<1>5. ASSUME NEW t \in Tasks, NEW to \in Status, Stored(t, to) \/ Cut(t, to)
      PROVE  Lifecycle!Next
  <2>1. /\ up /\ Legal(t, to)
        /\ changes' = [changes EXCEPT ![t] = @ \cup {[seq |-> cursor[t] + 1, to |-> to]}]
    BY <1>5 DEF Stored, Cut, MoveStored, MoveCut, StatusEvent
  <2>2. \A u \in Tasks : Fold(changes'[u]) = IF u = t THEN to ELSE Fold(changes[u])
    BY <2>1, MoveFold
  <2>3. Current' = [Current EXCEPT ![t] = to]
    BY <1>1, <1>2, <2>2
  <2>4. CASE CanTransition(status[t], to)
    <3>1. Lifecycle!Advance(t, to)
      <4>1. Lifecycle!CanTransition(status[t], to)
        BY <2>4 DEF CanTransition, Lifecycle!CanTransition, Status, Lifecycle!Status,
                    Transitions, Lifecycle!Transitions
      <4> QED BY <1>3, <2>1, <2>3, <4>1 DEF Lifecycle!Advance
    <3> QED BY <3>1 DEF Lifecycle!Next, Status, Lifecycle!Status
  <2>5. CASE Fresh(t) /\ to = "QUEUED"
    <3>1. Lifecycle!Submit(t)
      BY <1>3, <2>1, <2>3, <2>5 DEF Lifecycle!Submit, Fresh
    <3> QED BY <3>1 DEF Lifecycle!Next
  <2> QED BY <2>1, <2>4, <2>5 DEF Legal
<1>6. ASSUME NEW t \in Tasks, ListenArtifact(t) PROVE UNCHANGED Current
  <2>1. up /\ up' /\ status' = status
    BY <1>6 DEF ListenArtifact
  <2> QED BY <2>1 DEF Current
<1>7. CASE Crash
  BY <1>4, <1>7 DEF Crash, disk
<1>8. CASE Recover
  <2>1. status' = [t \in Tasks |->
           IF Fold(changes[t]) \notin Settled \cup {"NONE"} THEN "INTERRUPTED"
           ELSE Fold(changes[t])]
    BY <1>8, Zenon DEF Recover
  <2>2. Current' = status'
    BY <1>8 DEF Recover, Current, TypeInv, StoreOK
  <2>3. Lifecycle!Restart
    <3>1. Lifecycle!Kept = Settled \cup {"NONE"}
      BY DEF Lifecycle!Kept, Settled, Lifecycle!Settled, Terminal, Lifecycle!Terminal
    <3>2. Current' = [t \in Tasks |-> IF Current[t] \in Settled \cup {"NONE"}
                                     THEN Current[t] ELSE "INTERRUPTED"]
      BY <1>1, <2>1, <2>2
    <3> QED BY <3>1, <3>2 DEF Lifecycle!Restart
  <2> QED BY <2>3 DEF Lifecycle!Next
<1>9. CASE Calm
  BY <1>4, <1>9 DEF Calm
<1>10. CASE UNCHANGED vars
  BY <1>4, <1>10 DEF vars, disk
<1>11. ASSUME NEW t \in Tasks, NEW to \in Status, Failed(t, to) \/ Refused(t) PROVE FALSE
  BY <1>11 DEF Failed, MoveFailed, WriteChange, Refused
<1> QED BY <1>5, <1>6, <1>7, <1>8, <1>9, <1>10, <1>11, StepKind, CalmKinds DEF Kind, Status

\* On a disk that stores what it is given, the orchestrator implements the
\* abstract life cycle: crash, restart and late artifact rows included, no task
\* moves off the transition table and none leaves a terminal status.
THEOREM LifecycleImplemented ==
  ASSUME DiskFaults = FALSE
  PROVE  Spec => ImplementsLifecycle
<1>1. Init => Lifecycle!Init
  BY DEF Init, Lifecycle!Init, Current
<1>2. /\ TypeInv /\ DiskInv /\ (TypeInv /\ DiskInv)' /\ [Next]_vars
      => [Lifecycle!Next]_Current
  BY LifecycleStep
<1> QED BY <1>1, <1>2, DiskInvariant, PTL DEF Spec, Lifecycle!Spec, ImplementsLifecycle

-----------------------------------------------------------------------------
(* Executors.                                                              *)

Active == {"QUEUED", "RUNNING", "AWAIT_CONFIRM"}

\* NoZombie is inductive once one knows which driver phases hold the runner.
\* A refused submission is the one record that may be left without executor.
Attended(t) ==
  /\ status[t] \in Active =>
       \/ runner[t]
       \/ driver[t] = "creating"
       \/ driver[t] = "refused" /\ status[t] = "QUEUED" /\ DiskFaults
  /\ RunningTask(t) => runner[t]

ExecutorInv == up => \A t \in Tasks : Attended(t)

\* Where a move can lead, and that it touches one task.
LEMMA MoveTarget ==
  ASSUME TypeInv, NEW t \in Tasks, NEW to \in Status,
         MoveIfLegal(t, to) \/ Move(t, to) \/ MoveFailed(t, to) \/ Unmoved
  PROVE  /\ \A u \in Tasks \ {t} : status'[u] = status[u]
         /\ up' => \/ status'[t] = status[t]
                   \/ CanTransition(status[t], to) /\ status'[t] = to
                   \/ ~MoveIfLegal(t, to) /\ status'[t] = to
                   \/ status'[t] = "FAILED"
         /\ up' /\ MoveIfLegal(t, to) /\ CanTransition(status[t], to)
              => status'[t] \in {to, "FAILED"}
BY DEF TypeInv, StoreOK, MoveIfLegal, Move, MoveStored, MoveCut, MoveFailed, Unmoved

\* Every step keeps an executor with every live task: one step per action.
LEMMA ExecutorStep ==
  ASSUME TypeInv, ExecutorInv, [Next]_vars
  PROVE  ExecutorInv'
<1> SUFFICES ASSUME up' PROVE \A t \in Tasks : Attended(t)'
  BY DEF ExecutorInv
<1> DEFINE Same(t) == status'[t] = status[t] /\ runner'[t] = runner[t] /\ driver'[t] = driver[t]
<1>0. ASSUME up, NEW t \in Tasks, Same(t) PROVE Attended(t)'
  BY <1>0 DEF ExecutorInv, Attended, RunningTask
<1>1. ASSUME NEW t \in Tasks, Submit(t) PROVE \A u \in Tasks : Attended(u)'
  <2>1. up /\ Attended(t)
    BY <1>1 DEF Submit, ExecutorInv
  <2>3. \A u \in Tasks \ {t} : Same(u)
    BY <1>1 DEF Submit, MoveStored, MoveCut, TypeInv, StoreOK, ControlOK
  <2>4. Attended(t)'
    <3>1. \/ driver'[t] = "creating"
          \/ /\ driver'[t] = "refused" /\ status'[t] = "QUEUED"
             /\ WriteChange \ {"ok"} # {}
      BY <1>1 DEF Submit, MoveCut, TypeInv, ControlOK, StoreOK
    <3> QED BY <3>1 DEF Attended, RunningTask, WriteChange
  <2> QED BY <1>0, <2>1, <2>3, <2>4
<1>2. ASSUME NEW t \in Tasks, CreateRunner(t) PROVE \A u \in Tasks : Attended(u)'
  <2>1. up /\ Attended(t)
    BY <1>2 DEF CreateRunner, ExecutorInv
  <2>3. \A u \in Tasks \ {t} : Same(u)
    BY <1>2 DEF CreateRunner, Unmoved, TypeInv, ControlOK
  <2>4. Attended(t)'
    BY <1>2 DEF CreateRunner, Attended, TypeInv, ControlOK
  <2> QED BY <1>0, <2>1, <2>3, <2>4
<1>3. ASSUME NEW t \in Tasks, CreateRunnerFails(t) PROVE \A u \in Tasks : Attended(u)'
  <2>1. up /\ Attended(t)
    BY <1>3 DEF CreateRunnerFails, ExecutorInv
  <2>2. "FAILED" \in Status
    BY DEF Status
  <2>3. \A u \in Tasks \ {t} : Same(u)
    BY <1>3, <2>2, MoveTarget DEF CreateRunnerFails, TypeInv, ControlOK
  <2>4. Attended(t)'
    <3>1. MoveIfLegal(t, "FAILED") /\ driver'[t] = "refused"
      BY <1>3 DEF CreateRunnerFails, TypeInv, ControlOK
    <3>2. status'[t] \in {status[t], "FAILED"}
      BY <2>2, <3>1, MoveTarget
    <3>3. status[t] \in Active => CanTransition(status[t], "FAILED")
      BY DEF Active, CanTransition, Status, Transitions
    <3>4. status[t] \in Active => status'[t] = "FAILED"
      BY <2>2, <3>1, <3>3, MoveTarget
    <3> QED BY <3>1, <3>2, <3>4 DEF Attended, Active, RunningTask
  <2> QED BY <1>0, <2>1, <2>3, <2>4
<1>4. ASSUME NEW t \in Tasks, Run(t) PROVE \A u \in Tasks : Attended(u)'
  <2>1. up /\ Attended(t)
    BY <1>4 DEF Run, ExecutorInv
  <2>2. "RUNNING" \in Status
    BY DEF Status
  <2>3. \A u \in Tasks \ {t} : Same(u)
    BY <1>4, <2>2, MoveTarget DEF Run, TypeInv, ControlOK
  <2>4. Attended(t)'
    <3>1. runner[t] /\ runner'[t] = runner[t]
      BY <1>4, <2>1 DEF Run, Attended, RunningTask
    <3> QED BY <3>1 DEF Attended
  <2> QED BY <1>0, <2>1, <2>3, <2>4
<1>5. ASSUME NEW t \in Tasks, StartLane(t) PROVE \A u \in Tasks : Attended(u)'
  <2>1. up /\ Attended(t)
    BY <1>5 DEF StartLane, ExecutorInv
  <2>3. \A u \in Tasks \ {t} : Same(u)
    BY <1>5 DEF StartLane, Unmoved, TypeInv, ControlOK
  <2>4. Attended(t)'
    <3>1. runner[t] /\ runner'[t] = runner[t]
      BY <1>5, <2>1 DEF StartLane, Attended, RunningTask
    <3> QED BY <3>1 DEF Attended
  <2> QED BY <1>0, <2>1, <2>3, <2>4
<1>6. ASSUME NEW t \in Tasks, PromptReturns(t) PROVE \A u \in Tasks : Attended(u)'
  <2>1. up /\ Attended(t)
    BY <1>6 DEF PromptReturns, ExecutorInv
  <2>2. "SUCCEEDED" \in Status
    BY DEF Status
  <2>3. \A u \in Tasks \ {t} : Same(u)
    BY <1>6, <2>2, MoveTarget DEF PromptReturns, TypeInv, ControlOK
  <2>4. Attended(t)'
    <3>1. runner[t] /\ runner'[t] = runner[t]
      BY <1>6, <2>1 DEF PromptReturns, Attended, RunningTask
    <3> QED BY <3>1 DEF Attended
  <2> QED BY <1>0, <2>1, <2>3, <2>4
<1>7. ASSUME NEW t \in Tasks, PromptThrows(t) PROVE \A u \in Tasks : Attended(u)'
  <2>1. up /\ Attended(t)
    BY <1>7 DEF PromptThrows, ExecutorInv
  <2>2. "FAILED" \in Status
    BY DEF Status
  <2>3. \A u \in Tasks \ {t} : Same(u)
    BY <1>7, <2>2, MoveTarget DEF PromptThrows, TypeInv, ControlOK
  <2>4. Attended(t)'
    <3>1. runner[t] /\ runner'[t] = runner[t]
      BY <1>7, <2>1 DEF PromptThrows, Attended, RunningTask
    <3> QED BY <3>1 DEF Attended
  <2> QED BY <1>0, <2>1, <2>3, <2>4
<1>8. ASSUME NEW t \in Tasks, DriverClose(t) PROVE \A u \in Tasks : Attended(u)'
  <2>1. up /\ Attended(t)
    BY <1>8 DEF DriverClose, ExecutorInv
  <2>3. \A u \in Tasks \ {t} : Same(u)
    BY <1>8 DEF DriverClose, Unmoved, TypeInv, ControlOK
  <2>4. Attended(t)'
    <3>1. status'[t] = status[t] /\ (status[t] \in Active => ~Closable(t))
      BY <1>8 DEF DriverClose, Unmoved, Closable, Active, Terminal
    <3> QED BY <1>8, <2>1, <3>1 DEF DriverClose, Attended, RunningTask, TypeInv, ControlOK
  <2> QED BY <1>0, <2>1, <2>3, <2>4
<1>9. ASSUME NEW t \in Tasks, RequestConfirm(t) PROVE \A u \in Tasks : Attended(u)'
  BY <1>0, <1>9 DEF RequestConfirm, Unmoved, phase
<1>10. ASSUME NEW t \in Tasks, Announce(t) PROVE \A u \in Tasks : Attended(u)'
  BY <1>0, <1>10 DEF Announce, Unmoved, phase
<1>11. ASSUME NEW t \in Tasks, ListenAwait(t) PROVE \A u \in Tasks : Attended(u)'
  <2>1. up /\ Attended(t)
    BY <1>11 DEF ListenAwait, ExecutorInv
  <2>2. "AWAIT_CONFIRM" \in Status
    BY DEF Status
  <2>3. \A u \in Tasks \ {t} : Same(u)
    BY <1>11, <2>2, MoveTarget DEF ListenAwait, TypeInv, ControlOK
  <2>4. Attended(t)'
    <3>1. MoveIfLegal(t, "AWAIT_CONFIRM") /\ UNCHANGED <<runner, driver>>
      BY <1>11 DEF ListenAwait
    <3>2. \/ status'[t] = status[t] \/ status'[t] = "FAILED"
          \/ CanTransition(status[t], "AWAIT_CONFIRM")
      BY <2>2, <3>1, MoveTarget
    <3>3. CanTransition(status[t], "AWAIT_CONFIRM") => status[t] = "RUNNING"
      BY DEF CanTransition, Status, Transitions
    <3> QED BY <2>1, <3>1, <3>2, <3>3 DEF Attended, Active, RunningTask
  <2> QED BY <1>0, <2>1, <2>3, <2>4
<1>12. ASSUME NEW t \in Tasks, ToolDecision(t) PROVE \A u \in Tasks : Attended(u)'
  BY <1>0, <1>12 DEF ToolDecision, Unmoved, phase
<1>13. ASSUME NEW t \in Tasks, Expire(t) PROVE \A u \in Tasks : Attended(u)'
  BY <1>0, <1>13 DEF Expire, Unmoved, phase
<1>14. ASSUME NEW t \in Tasks, Emit(t) PROVE \A u \in Tasks : Attended(u)'
  BY <1>0, <1>14 DEF Emit, Unmoved, phase
<1>15. ASSUME NEW t \in Tasks, ListenArtifact(t) PROVE \A u \in Tasks : Attended(u)'
  BY <1>0, <1>15 DEF ListenArtifact, Unmoved, phase
<1>16. ASSUME NEW t \in Tasks, Cancel(t) PROVE \A u \in Tasks : Attended(u)'
  <2>1. up /\ Attended(t)
    BY <1>16 DEF Cancel, ExecutorInv
  <2>2. "CANCELLED" \in Status
    BY DEF Status
  <2>3. \A u \in Tasks \ {t} : Same(u)
    BY <1>16, <2>2, MoveTarget DEF Cancel, TypeInv, ControlOK
  <2>4. Attended(t)'
    <3>1. UNCHANGED <<runner, driver>>
      BY <1>16 DEF Cancel
    <3>2. status'[t] \in {status[t], "CANCELLED", "FAILED"}
      BY <1>16, <2>2, MoveTarget DEF Cancel
    <3> QED BY <2>1, <3>1, <3>2 DEF Attended, Active, RunningTask
  <2> QED BY <1>0, <2>1, <2>3, <2>4
<1>17. ASSUME NEW t \in Tasks, Abort(t) PROVE \A u \in Tasks : Attended(u)'
  BY <1>0, <1>17 DEF Abort, Unmoved, phase
<1>18. ASSUME NEW t \in Tasks, AnnounceCancel(t) PROVE \A u \in Tasks : Attended(u)'
  BY <1>0, <1>18 DEF AnnounceCancel, Unmoved, phase
<1>19. ASSUME NEW t \in Tasks, CloseAfterCancel(t) PROVE \A u \in Tasks : Attended(u)'
  <2>1. up /\ Attended(t)
    BY <1>19 DEF CloseAfterCancel, ExecutorInv
  <2>3. \A u \in Tasks \ {t} : Same(u)
    BY <1>19 DEF CloseAfterCancel, Unmoved, TypeInv, ControlOK
  <2>4. Attended(t)'
    <3>1. status'[t] = status[t] /\ (status[t] \in Active => ~Closable(t))
      BY <1>19 DEF CloseAfterCancel, Unmoved, Closable, Active, Terminal
    <3> QED BY <1>19, <2>1, <3>1 DEF CloseAfterCancel, Attended, RunningTask, TypeInv, ControlOK
  <2> QED BY <1>0, <2>1, <2>3, <2>4
<1>20. ASSUME NEW t \in Tasks, Confirm(t) PROVE \A u \in Tasks : Attended(u)'
  <2>1. up /\ Attended(t)
    BY <1>20 DEF Confirm, ExecutorInv
  <2>2. "RUNNING" \in Status
    BY DEF Status
  <2>3. \A u \in Tasks \ {t} : Same(u)
    BY <1>20, <2>2, MoveTarget DEF Confirm, TypeInv, ControlOK
  <2>4. Attended(t)'
    <3>1. runner[t] /\ runner'[t] = runner[t]
      BY <1>20, <2>1 DEF Confirm, Attended, RunningTask
    <3> QED BY <3>1 DEF Attended
  <2> QED BY <1>0, <2>1, <2>3, <2>4
<1>21. ASSUME NEW t \in Tasks, Approve(t) PROVE \A u \in Tasks : Attended(u)'
  <2>1. up /\ Attended(t)
    BY <1>21 DEF Approve, ExecutorInv
  <2>2. "FAILED" \in Status
    BY DEF Status
  <2>3. \A u \in Tasks \ {t} : Same(u)
    BY <1>21, <2>2, MoveTarget DEF Approve, TypeInv, ControlOK
  <2>4. Attended(t)'
    <3>1. UNCHANGED <<runner, driver>>
      BY <1>21 DEF Approve
    <3>2. status'[t] \in {status[t], "FAILED", "FAILED"}
      BY <1>21, <2>2, MoveTarget DEF Approve
    <3> QED BY <2>1, <3>1, <3>2 DEF Attended, Active, RunningTask
  <2> QED BY <1>0, <2>1, <2>3, <2>4
<1>22. ASSUME NEW t \in Tasks, Connect(t) PROVE \A u \in Tasks : Attended(u)'
  BY <1>0, <1>22 DEF Connect, Unmoved, phase
<1>23. ASSUME NEW t \in Tasks, Disconnect(t) PROVE \A u \in Tasks : Attended(u)'
  BY <1>0, <1>23 DEF Disconnect, phase
<1>24. CASE Crash
  BY <1>24 DEF Crash
<1>25. CASE Recover
  <2>1. ASSUME NEW t \in Tasks PROVE status'[t] \notin Active
    <3>1. status'[t] = IF Fold(changes[t]) \notin Settled \cup {"NONE"}
                       THEN "INTERRUPTED" ELSE Fold(changes[t])
      BY <1>25, Zenon DEF Recover
    <3> QED BY <3>1 DEF Settled, Terminal, Active
  <2>2. driver' = [t \in Tasks |-> "idle"]
    BY <1>25 DEF Recover, ClearedPhases
  <2> QED BY <2>1, <2>2 DEF Attended, RunningTask
<1>26. CASE UNCHANGED vars
  BY <1>0, <1>26 DEF vars, phase
<1> QED
  BY <1>1, <1>2, <1>3, <1>4, <1>5, <1>6, <1>7, <1>8, <1>9, <1>10, <1>11, <1>12, <1>13, <1>14, <1>15, <1>16, <1>17, <1>18, <1>19, <1>20, <1>21, <1>22, <1>23, <1>24, <1>25, <1>26
  DEF Next, DriverStep, RunnerStep, RequestStep

\* The executors' invariant holds of every behaviour.
LEMMA ExecutorInvariant ==
  Spec => [](TypeInv /\ ExecutorInv)
<1>1. Init => TypeInv /\ ExecutorInv
  <2>1. Init => ExecutorInv
    BY DEF Init, ExecutorInv, Attended, Active, RunningTask
  <2> QED BY <2>1, TypeInit
<1>2. TypeInv /\ ExecutorInv /\ [Next]_vars => (TypeInv /\ ExecutorInv)'
  BY TypeStep, ExecutorStep
<1> QED BY <1>1, <1>2, PTL DEF Spec

\* Whatever the disk does, the only record shown as live without an executor is
\* the QUEUED one of a submission whose first write failed.
ZombiesAreRefused ==
  up => \A t \in Tasks :
    status[t] \in Active =>
      runner[t] \/ driver[t] = "creating" \/ (driver[t] = "refused" /\ status[t] = "QUEUED")

\* Under every disk fault, a live task without an executor is one whose submission was
\* refused.
THEOREM OnlyRefusedLackExecutor ==
  Spec => []ZombiesAreRefused
<1>1. ExecutorInv => ZombiesAreRefused
  BY DEF ExecutorInv, Attended, ZombiesAreRefused
<1> QED BY <1>1, ExecutorInvariant, PTL

\* On a disk that stores what it is given no task is a zombie: what is shown as
\* queued, running or waiting has an executor or is still being given one.
THEOREM NeverZombie ==
  ASSUME DiskFaults = FALSE
  PROVE  Spec => []NoZombie
<1>1. ExecutorInv => NoZombie
  BY DEF ExecutorInv, Attended, NoZombie, Active
<1> QED BY <1>1, ExecutorInvariant, PTL

-----------------------------------------------------------------------------
(* The event stream: what a seq names.                                      *)

\* While the process lives the cursor is above every event, logged, stored or received;
\* so no seq is given twice.
Named(t) ==
  /\ OneRowPerSeq(log[t] \cup events[t] \cup seen[t])
  /\ up /\ status[t] # "NONE" =>
       \A e \in log[t] \cup events[t] \cup seen[t] : e.seq <= cursor[t]

\* What a restart counts on: it continues from the last stored row, and only the first
\* event of a refused submission may be without one at its seq or after it.
Covered(t) ==
  /\ \A r \in changes[t] \cup events[t] : r.seq >= 1
  /\ listener[t].at = "artifact" => listener[t].seq >= 1
  /\ \A e \in log[t] \cup seen[t] :
       e.seq <= 1 \/ \E r \in changes[t] \cup events[t] : e.seq <= r.seq
  /\ status[t] = "NONE" => log[t] = {} /\ cursor[t] = 0

NamesInv == \A t \in Tasks : Named(t) /\ Covered(t)

\* A task whose log, streams and status stay as they are.
LEMMA NamesKept ==
  ASSUME TypeInv, NEW u \in Tasks, Named(u), Covered(u), OldTurn(u), up' => up,
         UNCHANGED <<status[u], cursor[u], log[u], changes[u], events[u], seen[u]>>
  PROVE  Named(u)' /\ Covered(u)'
BY DEF Named, Covered, OldTurn

\* Of a task the map holds, or a new one, no event has the next seq or a later one.
LEMMA NextSeqIsFree ==
  ASSUME TypeInv, NamesInv, up, NEW t \in Tasks, status[t] # "NONE" \/ Fresh(t)
  PROVE  /\ cursor[t] \in Nat
         /\ \A e \in log[t] \cup events[t] \cup seen[t] : e.seq \in Nat /\ e.seq <= cursor[t]
<1>1. \A e \in log[t] \cup events[t] \cup seen[t] : e.seq \in Nat
  BY DEF TypeInv, StoreOK, Event
<1>2. cursor[t] \in Nat
  BY DEF TypeInv, StoreOK
<1>3. CASE status[t] # "NONE"
  BY <1>1, <1>2, <1>3 DEF NamesInv, Named
<1>4. CASE Fresh(t)
  BY <1>2, <1>4 DEF NamesInv, Covered, Fresh
<1> QED BY <1>1, <1>2, <1>3, <1>4

\* The task gets new events at the next seqs, the last of them stored.
Grown(t, evs, last, rows) ==
  /\ evs \in SUBSET Event /\ last \in evs /\ rows \in SUBSET Change
  /\ \A e \in evs : e.seq > cursor[t] /\ e.seq <= last.seq
  /\ \A d, e \in evs : d.seq = e.seq => d = e
  /\ \A r \in rows : r.seq >= 1
  /\ status'[t] # "NONE" /\ cursor'[t] = last.seq
  /\ log'[t] = log[t] \cup evs /\ events'[t] = events[t] \cup {last}
  /\ seen'[t] \in {seen[t], seen[t] \cup {last}}
  /\ changes[t] \subseteq changes'[t] /\ changes'[t] \subseteq changes[t] \cup rows
  /\ FreshTurn(t)

\* A task that grows so names each of its events anew.
LEMMA NamesAppend ==
  ASSUME TypeInv, NamesInv, up, up', NEW t \in Tasks, status[t] # "NONE" \/ Fresh(t),
         NEW evs, NEW last, NEW rows, Grown(t, evs, last, rows)
  PROVE  Named(t)' /\ Covered(t)'
<1> USE DEF Grown
<1>1. /\ cursor[t] \in Nat /\ last.seq \in Nat /\ last.seq > cursor[t]
      /\ \A e \in log[t] \cup events[t] \cup seen[t] : e.seq \in Nat /\ e.seq <= cursor[t]
      /\ \A e \in evs : e.seq \in Nat
  BY NextSeqIsFree DEF Event
<1>2. log'[t] \cup events'[t] \cup seen'[t] \subseteq (log[t] \cup events[t] \cup seen[t]) \cup evs
  OBVIOUS
<1>3. OneRowPerSeq(log[t] \cup events[t] \cup seen[t])
  BY DEF NamesInv, Named
<1>4. \A d \in log[t] \cup events[t] \cup seen[t], e \in evs : d.seq # e.seq
  BY <1>1
<1>5. OneRowPerSeq(log'[t] \cup events'[t] \cup seen'[t])
  BY <1>2, <1>3, <1>4 DEF OneRowPerSeq
<1>6. Named(t)'
  BY <1>1, <1>2, <1>5 DEF Named
<1>7. \A r \in changes'[t] \cup events'[t] : r.seq >= 1
  BY <1>1 DEF NamesInv, Covered
<1>8. listener'[t].at = "artifact" => listener'[t].seq >= 1
  BY <1>1 DEF NamesInv, Covered, FreshTurn, OldTurn
<1>9. \A e \in log'[t] \cup seen'[t] :
        e.seq <= 1 \/ \E r \in changes'[t] \cup events'[t] : e.seq <= r.seq
  BY <1>1
<1> QED BY <1>6, <1>7, <1>8, <1>9 DEF Covered

\* Every step names each event anew, as long as the event stream takes what is written.
LEMMA NamesStep ==
  ASSUME TypeInv, TypeInv', NamesInv, [Next]_vars, EventFaults = FALSE
  PROVE  NamesInv'
<1>0. WriteEvent = {"ok"} /\ \A rows, r : Written(rows, r, "ok") = rows \cup {r}
  BY DEF WriteEvent, Written
<1>1. CASE Unmoved /\ \A u \in Tasks : OldTurn(u)
  BY <1>1, NamesKept DEF Unmoved, NamesInv
<1>2. ASSUME NEW t \in Tasks, NEW kind \in Kinds, NEW to \in StatusOrNone, Logged(t, kind, to)
      PROVE  NamesInv'
  <2> DEFINE ev == [seq |-> cursor[t] + 1, kind |-> kind, to |-> to]
  <2>1. /\ up /\ up' /\ status[t] # "NONE" /\ UNCHANGED <<status, changes>>
        /\ cursor' = [cursor EXCEPT ![t] = @ + 1] /\ log' = [log EXCEPT ![t] = @ \cup {ev}]
        /\ events' = [events EXCEPT ![t] = @ \cup {ev}]
        /\ seen' = [seen EXCEPT ![t] = IF linked[t] THEN @ \cup {ev} ELSE @]
        /\ \A u \in Tasks : FreshTurn(u)
    <3>1. PICK e \in WriteEvent :
            /\ cursor' = [cursor EXCEPT ![t] = @ + 1]
            /\ log'    = [log EXCEPT ![t] = @ \cup {ev}]
            /\ events' = [events EXCEPT ![t] = Written(@, ev, e)]
            /\ Published(t, {ev})
            /\ UNCHANGED up
      BY <1>2, Zenon DEF Logged, Deliver
    <3>2. e = "ok" /\ Written(events[t], ev, e) = events[t] \cup {ev}
      BY <1>0
    <3>3. events' = [events EXCEPT ![t] = @ \cup {ev}]
      BY <3>1, <3>2, <1>0
    <3> QED BY <1>2, <3>1, <3>3 DEF Logged, Published
  <2>2. cursor[t] \in Nat /\ ev \in Event /\ ev.seq = cursor[t] + 1
    BY DEF TypeInv, StoreOK, Event
  <2> HIDE DEF ev
  <2>3. Named(t)' /\ Covered(t)'
    <3>1. /\ cursor'[t] = ev.seq /\ log'[t] = log[t] \cup {ev} /\ events'[t] = events[t] \cup {ev}
          /\ seen'[t] \in {seen[t], seen[t] \cup {ev}} /\ {ev} \in SUBSET Event
      BY <2>1, <2>2 DEF TypeInv, StoreOK
    <3>2. \A e \in {ev} : e.seq > cursor[t] /\ e.seq <= ev.seq
      BY <2>2
    <3>3. Grown(t, {ev}, ev, {})
      BY <2>1, <3>1, <3>2 DEF Grown
    <3> QED BY <2>1, <3>3, NamesAppend
  <2>4. ASSUME NEW u \in Tasks \ {t} PROVE Named(u)' /\ Covered(u)'
    <3>1. UNCHANGED <<status[u], cursor[u], log[u], changes[u], events[u], seen[u]>>
      BY <2>1 DEF TypeInv, StoreOK
    <3>2. OldTurn(u)
      BY <2>1, <3>1 DEF FreshTurn, TypeInv, StoreOK
    <3> QED BY <2>1, <3>1, <3>2, NamesKept DEF NamesInv
  <2> QED BY <2>3, <2>4 DEF NamesInv
<1>3. ASSUME NEW t \in Tasks, NEW to \in Status, Stored(t, to) PROVE NamesInv'
  <2> DEFINE ev == StatusEvent(cursor[t] + 1, to)
             row == [seq |-> cursor[t] + 1, to |-> to]
  <2>1. /\ up /\ up' /\ (status[t] # "NONE" \/ Fresh(t)) /\ status' = [status EXCEPT ![t] = to]
        /\ cursor' = [cursor EXCEPT ![t] = @ + 1] /\ log' = [log EXCEPT ![t] = @ \cup {ev}]
        /\ changes' = [changes EXCEPT ![t] = @ \cup {row}]
        /\ events' = [events EXCEPT ![t] = @ \cup {ev}]
        /\ seen' = [seen EXCEPT ![t] = IF linked[t] THEN @ \cup {ev} ELSE @]
        /\ \A u \in Tasks : OldTurn(u)
    <3>1. PICK e \in WriteEvent :
            /\ status'  = [status EXCEPT ![t] = to]
            /\ cursor'  = [cursor EXCEPT ![t] = @ + 1]
            /\ log'     = [log EXCEPT ![t] = @ \cup {ev}]
            /\ changes' = [changes EXCEPT ![t] = @ \cup {[seq |-> ev.seq, to |-> to]}]
            /\ events'  = [events EXCEPT ![t] = Written(@, ev, e)]
            /\ Published(t, {ev})
            /\ UNCHANGED up
      BY <1>3, Zenon DEF Stored, MoveStored
    <3>2. ev.seq = cursor[t] + 1
      BY DEF StatusEvent
    <3>3. events' = [events EXCEPT ![t] = @ \cup {ev}]
      BY <3>1, <1>0
    <3>4. changes' = [changes EXCEPT ![t] = @ \cup {row}]
      BY <3>1, <3>2
    <3>5. status[t] # "NONE" \/ Fresh(t)
      BY <1>3 DEF Stored, Legal, CanTransition, Status
    <3> QED BY <1>3, <3>1, <3>3, <3>4, <3>5 DEF Stored, Published
  <2>2. /\ cursor[t] \in Nat /\ ev \in Event /\ ev.seq = cursor[t] + 1
        /\ row \in Change /\ row.seq = cursor[t] + 1 /\ to # "NONE"
    BY DEF TypeInv, StoreOK, Event, Change, StatusEvent, Kinds, StatusOrNone, Status
  <2> HIDE DEF ev, row
  <2>3. Named(t)' /\ Covered(t)'
    <3>1. /\ cursor'[t] = ev.seq /\ log'[t] = log[t] \cup {ev} /\ events'[t] = events[t] \cup {ev}
          /\ seen'[t] \in {seen[t], seen[t] \cup {ev}} /\ {ev} \in SUBSET Event
          /\ status'[t] # "NONE" /\ changes'[t] = changes[t] \cup {row}
          /\ {row} \in SUBSET Change
      BY <2>1, <2>2 DEF TypeInv, StoreOK
    <3>2. /\ \A e \in {ev} : e.seq > cursor[t] /\ e.seq <= ev.seq
          /\ \A r \in {row} : r.seq >= 1
      BY <2>2
    <3>3. Grown(t, {ev}, ev, {row})
      BY <2>1, <3>1, <3>2 DEF Grown, FreshTurn
    <3> QED BY <2>1, <3>3, NamesAppend
  <2>4. ASSUME NEW u \in Tasks \ {t} PROVE Named(u)' /\ Covered(u)'
    <3>1. UNCHANGED <<status[u], cursor[u], log[u], changes[u], events[u], seen[u]>>
      BY <2>1 DEF TypeInv, StoreOK
    <3> QED BY <2>1, <3>1, NamesKept DEF NamesInv
  <2> QED BY <2>3, <2>4 DEF NamesInv
<1>4. ASSUME NEW t \in Tasks, NEW to \in Status, Failed(t, to) PROVE NamesInv'
  <2> DEFINE ev1 == StatusEvent(cursor[t] + 1, to)
             ev2 == StatusEvent(cursor[t] + 2, "FAILED")
             row1 == [seq |-> cursor[t] + 1, to |-> to]
             row2 == [seq |-> cursor[t] + 2, to |-> "FAILED"]
  <2>1. PICK w \in WriteChange \ {"ok"}, w2 \in WriteChange, e \in WriteEvent :
          /\ status' = [status EXCEPT ![t] = "FAILED"]
          /\ cursor' = [cursor EXCEPT ![t] = @ + 2]
          /\ log' = [log EXCEPT ![t] = @ \cup {ev1, ev2}]
          /\ changes' = [changes EXCEPT ![t] =
               Written(Written(@, [seq |-> ev1.seq, to |-> to], w),
                       [seq |-> ev2.seq, to |-> "FAILED"], w2)]
          /\ events' = [events EXCEPT ![t] = Written(@, ev2, e)]
          /\ Published(t, {ev2})
          /\ UNCHANGED up
    BY <1>4, Zenon DEF Failed, MoveFailed
  <2>2. /\ up /\ status[t] # "NONE" /\ \A u \in Tasks : OldTurn(u)
    BY <1>4 DEF Failed, CanTransition, Status
  <2>3. /\ cursor[t] \in Nat /\ ev1 \in Event /\ ev1.seq = cursor[t] + 1
        /\ ev2 \in Event /\ ev2.seq = cursor[t] + 2
        /\ row1 \in Change /\ row1.seq = cursor[t] + 1 /\ row2 \in Change
        /\ row2.seq = cursor[t] + 2
        /\ row1 = [seq |-> ev1.seq, to |-> to] /\ row2 = [seq |-> ev2.seq, to |-> "FAILED"]
    BY DEF TypeInv, StoreOK, Event, Change, StatusEvent, Kinds, StatusOrNone, Status
  <2> HIDE DEF ev1, ev2, row1, row2
  <2>4. Named(t)' /\ Covered(t)'
    <3>1. /\ cursor'[t] = ev2.seq /\ log'[t] = log[t] \cup {ev1, ev2}
          /\ events'[t] = events[t] \cup {ev2}
          /\ seen'[t] \in {seen[t], seen[t] \cup {ev2}} /\ {ev1, ev2} \in SUBSET Event
          /\ status'[t] # "NONE" /\ {row1, row2} \in SUBSET Change
      BY <1>0, <2>1, <2>3 DEF TypeInv, StoreOK, Published
    <3>2. changes[t] \subseteq changes'[t] /\ changes'[t] \subseteq changes[t] \cup {row1, row2}
      BY <2>1, <2>3 DEF TypeInv, StoreOK, Written
    <3>3. /\ \A p \in {ev1, ev2} : p.seq > cursor[t] /\ p.seq <= ev2.seq
          /\ \A p, q \in {ev1, ev2} : p.seq = q.seq => p = q
          /\ \A r \in {row1, row2} : r.seq >= 1
      BY <2>3
    <3>4. Grown(t, {ev1, ev2}, ev2, {row1, row2})
      BY <2>2, <3>1, <3>2, <3>3 DEF Grown, FreshTurn
    <3> QED BY <2>1, <2>2, <3>4, NamesAppend
  <2>5. ASSUME NEW u \in Tasks \ {t} PROVE Named(u)' /\ Covered(u)'
    <3>1. UNCHANGED <<status[u], cursor[u], log[u], changes[u], events[u], seen[u]>>
      BY <2>1 DEF TypeInv, StoreOK, Published
    <3> QED BY <2>1, <2>2, <3>1, NamesKept DEF NamesInv
  <2> QED BY <2>4, <2>5 DEF NamesInv
<1>5. ASSUME NEW t \in Tasks, NEW to \in Status, Cut(t, to) PROVE NamesInv'
  <2> DEFINE row == [seq |-> cursor[t] + 1, to |-> to]
  <2>1. /\ ~up' /\ UNCHANGED <<status, cursor, log, events, seen>>
        /\ changes' = [changes EXCEPT ![t] = @ \cup {row}]
        /\ \A u \in Tasks : OldTurn(u)
    BY <1>5 DEF Cut, MoveCut
  <2>2. row.seq >= 1 /\ cursor[t] \in Nat
    BY DEF TypeInv, StoreOK
  <2>3. changes'[t] = changes[t] \cup {row} /\ \A u \in Tasks \ {t} : changes'[u] = changes[u]
    BY <2>1 DEF TypeInv, StoreOK
  <2> HIDE DEF row
  <2>4. Named(t)' /\ Covered(t)'
    BY <2>1, <2>2, <2>3 DEF NamesInv, Named, Covered, OldTurn
  <2>5. ASSUME NEW u \in Tasks \ {t} PROVE Named(u)' /\ Covered(u)'
    BY <2>1, <2>3, NamesKept DEF NamesInv
  <2> QED BY <2>4, <2>5 DEF NamesInv
<1>6. ASSUME NEW t \in Tasks, Refused(t) PROVE NamesInv'
  <2> DEFINE ev == StatusEvent(cursor[t] + 1, "QUEUED")
             row == [seq |-> cursor[t] + 1, to |-> "QUEUED"]
  <2>1. PICK w \in {"lost", "kept"} :
          /\ up /\ UNCHANGED <<up, events, seen>> /\ Fresh(t)
          /\ status' = [status EXCEPT ![t] = "QUEUED"]
          /\ cursor' = [cursor EXCEPT ![t] = @ + 1] /\ log' = [log EXCEPT ![t] = @ \cup {ev}]
          /\ changes' = [changes EXCEPT ![t] = Written(@, row, w)]
          /\ \A u \in Tasks : OldTurn(u)
    BY <1>6, Zenon DEF Refused
  <2>2. /\ cursor[t] = 0 /\ ev.seq = cursor[t] + 1 /\ row.seq = cursor[t] + 1
        /\ changes[t] = {} /\ events[t] = {} /\ seen[t] = {} /\ log[t] = {}
        /\ listener[t].at # "artifact"
    BY <2>1 DEF Fresh, NamesInv, Covered, StatusEvent, TypeInv, Held
  <2> HIDE DEF ev, row
  <2>3. Named(t)' /\ Covered(t)'
    <3>1. /\ log'[t] = {ev} /\ events'[t] = {} /\ seen'[t] = {} /\ cursor'[t] = 1
          /\ status'[t] = "QUEUED" /\ changes'[t] \subseteq {row}
      BY <2>1, <2>2 DEF TypeInv, StoreOK, Written
    <3>2. listener'[t].at # "artifact"
      BY <2>1, <2>2 DEF OldTurn
    <3> QED BY <2>2, <3>1, <3>2 DEF Named, Covered, OneRowPerSeq
  <2>4. ASSUME NEW u \in Tasks \ {t} PROVE Named(u)' /\ Covered(u)'
    <3>1. UNCHANGED <<status[u], cursor[u], log[u], changes[u], events[u], seen[u]>>
      BY <2>1 DEF TypeInv, StoreOK
    <3> QED BY <2>1, <3>1, NamesKept DEF NamesInv
  <2> QED BY <2>3, <2>4 DEF NamesInv
<1>7. ASSUME NEW t \in Tasks, ListenArtifact(t) PROVE NamesInv'
  <2> DEFINE row == [seq |-> listener[t].seq, to |-> status[t]]
  <2>1. PICK w \in WriteChange :
          /\ listener[t].at = "artifact"
          /\ changes' = [changes EXCEPT ![t] = Written(@, row, w)]
          /\ listener' = [listener EXCEPT ![t] = NoTurn]
          /\ UNCHANGED <<up, status, cursor, log, events, seen>>
    BY <1>7 DEF ListenArtifact
  <2>2. row.seq >= 1
    BY <2>1 DEF NamesInv, Covered
  <2> HIDE DEF row
  <2>3. /\ changes'[t] = changes[t] \/ changes'[t] = changes[t] \cup {row}
        /\ \A u \in Tasks \ {t} : changes'[u] = changes[u]
        /\ \A u \in Tasks : OldTurn(u)
    BY <2>1 DEF TypeInv, StoreOK, ControlOK, Written, OldTurn, NoTurn
  <2>4. Named(t)' /\ Covered(t)'
    BY <2>1, <2>2, <2>3 DEF NamesInv, Named, Covered, OldTurn
  <2>5. ASSUME NEW u \in Tasks \ {t} PROVE Named(u)' /\ Covered(u)'
    BY <2>1, <2>3, NamesKept DEF NamesInv
  <2> QED BY <2>4, <2>5 DEF NamesInv
<1>8. ASSUME NEW t \in Tasks, Connect(t) PROVE NamesInv'
  <2>1. /\ UNCHANGED <<up, status, cursor, log, listener, changes, events>>
        /\ seen[t] \subseteq seen'[t] /\ seen'[t] \subseteq seen[t] \cup log[t]
        /\ \A u \in Tasks \ {t} : seen'[u] = seen[u]
    BY <1>8 DEF Connect, phase, disk, TypeInv, StoreOK
  <2>2. Named(t)' /\ Covered(t)'
    BY <2>1 DEF NamesInv, Named, Covered, OneRowPerSeq
  <2>3. ASSUME NEW u \in Tasks \ {t} PROVE Named(u)' /\ Covered(u)'
    BY <2>1, NamesKept DEF NamesInv, OldTurn
  <2> QED BY <2>2, <2>3 DEF NamesInv
<1>9. CASE Crash \/ UNCHANGED vars
  BY <1>9, NamesKept DEF Crash, vars, phase, disk, NamesInv, OldTurn
<1>10. CASE Recover
  <2> DEFINE stored(t) == Fold(changes[t])
             cut(t)    == stored(t) \notin Settled \cup {"NONE"}
             last(t)   == IF LastSeq(changes[t]) > LastSeq(events[t])
                          THEN LastSeq(changes[t]) ELSE LastSeq(events[t])
             ev(t)     == StatusEvent(last(t) + 1, "INTERRUPTED")
             history(t) == IF stored(t) = "NONE" THEN {} ELSE events[t]
             row(t)    == [seq |-> last(t) + 1, to |-> "INTERRUPTED"]
  <2>1. PICK L \in SUBSET (IF DiskFaults THEN Tasks ELSE {}),
             E \in SUBSET (IF EventFaults THEN Tasks ELSE {}) :
          /\ status' = [t \in Tasks |-> IF cut(t) THEN "INTERRUPTED" ELSE stored(t)]
          /\ cursor' = [t \in Tasks |-> IF cut(t) THEN last(t) + 1
                                        ELSE IF stored(t) = "NONE" THEN 0
                                        ELSE last(t)]
          /\ log' = [t \in Tasks |-> history(t) \cup (IF cut(t) THEN {ev(t)} ELSE {})]
          /\ changes' = [t \in Tasks |-> changes[t] \cup
                           (IF cut(t) /\ t \notin L THEN {row(t)} ELSE {})]
          /\ events' = [t \in Tasks |-> events[t] \cup
                           (IF cut(t) /\ t \notin E THEN {ev(t)} ELSE {})]
          /\ listener' = [t \in Tasks |-> NoTurn] /\ seen' = seen
    BY <1>10, Zenon DEF Recover, ClearedPhases
  <2>2. ASSUME NEW t \in Tasks PROVE Named(t)' /\ Covered(t)'
    <3>1. /\ changes[t] \in SUBSET Change /\ events[t] \in SUBSET Event /\ seen[t] \in SUBSET Event
          /\ HasLast(changes[t]) /\ HasLast(events[t])
      BY DEF TypeInv, StoreOK
    <3>2. /\ LastSeq(changes[t]) \in Nat /\ (stored(t) = "NONE" <=> changes[t] = {})
          /\ \A x \in changes[t] : x.seq <= LastSeq(changes[t])
      BY <3>1, FoldType
    <3>3. LastSeq(events[t]) \in Nat /\ \A x \in events[t] : x.seq <= LastSeq(events[t])
      BY <3>1, LastSeqType
    <3>4. /\ last(t) \in Nat
          /\ \A x \in changes[t] \cup events[t] : x.seq \in Nat /\ x.seq <= last(t) /\ x.seq >= 1
      BY <3>1, <3>2, <3>3 DEF Change, Event, NamesInv, Covered
    <3>5. stored(t) # "NONE" => \A e \in events[t] \cup seen[t] : e.seq \in Nat /\ e.seq <= last(t)
      <4>1. \A e \in seen[t] : e.seq \in Nat
        BY <3>1 DEF Event
      <4>2. \A e \in seen[t] : e.seq <= 1 \/ \E r \in changes[t] \cup events[t] : e.seq <= r.seq
        BY DEF NamesInv, Covered
      <4>3. stored(t) # "NONE" => \E r \in changes[t] : r.seq >= 1 /\ r.seq <= last(t) /\ r.seq \in Nat
        BY <3>2, <3>4
      <4> HIDE DEF stored, last
      <4> QED BY <3>4, <4>1, <4>2, <4>3
    <3>6. ev(t).seq = last(t) + 1 /\ row(t).seq = last(t) + 1
      BY DEF StatusEvent
    <3>7. OneRowPerSeq(events[t] \cup seen[t])
      BY DEF NamesInv, Named, OneRowPerSeq
    <3>8. listener'[t].at # "artifact" /\ seen'[t] = seen[t]
      BY <2>1 DEF NoTurn
    <3>9. CASE cut(t)
      <4>1. /\ log'[t] = events[t] \cup {ev(t)} /\ events'[t] = events[t] \cup {ev(t)}
            /\ cursor'[t] = last(t) + 1 /\ status'[t] = "INTERRUPTED" /\ stored(t) # "NONE"
            /\ changes'[t] \in {changes[t], changes[t] \cup {row(t)}}
        BY <2>1, <3>9
      <4> HIDE DEF stored, cut, last, ev, history, row
      <4>2. OneRowPerSeq(log'[t] \cup events'[t] \cup seen'[t])
        BY <3>5, <3>6, <3>7, <3>8, <4>1, <3>4 DEF OneRowPerSeq
      <4>3. \A e \in log'[t] \cup events'[t] \cup seen'[t] : e.seq <= cursor'[t]
        BY <3>4, <3>5, <3>6, <3>8, <4>1
      <4>4. Covered(t)'
        BY <3>4, <3>5, <3>6, <3>8, <4>1 DEF Covered
      <4> QED BY <4>2, <4>3, <4>4 DEF Named
    <3>10. CASE ~cut(t)
      <4>1. /\ log'[t] = history(t) /\ events'[t] = events[t] /\ changes'[t] = changes[t]
            /\ cursor'[t] = IF stored(t) = "NONE" THEN 0 ELSE last(t)
            /\ status'[t] = stored(t)
        BY <2>1, <3>10
      <4>2. log'[t] \subseteq events[t] /\ (stored(t) = "NONE" => log'[t] = {})
        BY <4>1
      <4> HIDE DEF stored, cut, last, ev, history, row
      <4>3. OneRowPerSeq(log'[t] \cup events'[t] \cup seen'[t])
        BY <3>7, <3>8, <4>1, <4>2 DEF OneRowPerSeq
      <4>4. status'[t] # "NONE" => \A e \in log'[t] \cup events'[t] \cup seen'[t] : e.seq <= cursor'[t]
        BY <3>5, <3>8, <4>1, <4>2
      <4>5. \A e \in log'[t] \cup seen'[t] :
              e.seq <= 1 \/ \E r \in changes'[t] \cup events'[t] : e.seq <= r.seq
        BY <3>4, <3>8, <4>1, <4>2 DEF NamesInv, Covered
      <4>6. Covered(t)'
        BY <3>4, <3>8, <4>1, <4>2, <4>5 DEF Covered
      <4> QED BY <4>3, <4>4, <4>6 DEF Named
    <3> QED BY <3>9, <3>10
  <2> QED BY <2>2 DEF NamesInv
<1> QED BY <1>1, <1>2, <1>3, <1>4, <1>5, <1>6, <1>7, <1>8, <1>9, <1>10, StepKind DEF Kind

LEMMA NamesInvariant ==
  ASSUME EventFaults = FALSE
  PROVE  Spec => [](TypeInv /\ NamesInv)
<1>1. Init => TypeInv /\ NamesInv
  <2>1. Init => NamesInv
    BY DEF Init, NamesInv, Named, Covered, OneRowPerSeq, NoTurn
  <2> QED BY <2>1, TypeInit
<1>2. TypeInv /\ NamesInv /\ [Next]_vars => (TypeInv /\ NamesInv)'
  BY TypeStep, NamesStep
<1> QED BY <1>1, <1>2, PTL DEF Spec

\* When the event stream takes what is written, a seq names one event for every client,
\* failed changes, crashes and restarts included: Last-Event-ID never makes a client
\* pass over a new event as one it already has.
THEOREM SeqAlwaysNamesOne ==
  ASSUME EventFaults = FALSE
  PROVE  Spec => []SeqNamesOneEvent
<1>1. NamesInv => SeqNamesOneEvent
  BY DEF NamesInv, Named, OneRowPerSeq, SeqNamesOneEvent
<1> QED BY <1>1, NamesInvariant, PTL

-----------------------------------------------------------------------------
(* What a client is told.                                                   *)

\* The statuses a client is told of only once they are stored.
Shown == {"QUEUED", "RUNNING", "AWAIT_CONFIRM", "SUCCEEDED"}

\* An outcome that was logged, stored or received is the one the change stream folds to,
\* and a status shown has its row.
Told(t) ==
  \A e \in log[t] \cup events[t] \cup seen[t] :
    /\ e.to \in Terminal => Fold(changes[t]) = e.to
    /\ e.to \in Shown => \E r \in changes[t] : r.seq = e.seq /\ r.to = e.to

\* The abort's own event says CANCELLED; until it is out the task stays so.
Answered(t) == up /\ Cancelling(t) => status[t] = "CANCELLED"

TellInv == \A t \in Tasks : Told(t) /\ Answered(t)

\* New events may be told when no outcome was told before or the fold stays, and each of
\* them is backed by the change stream after the step.
LEMMA ToldGrown ==
  ASSUME NEW t \in Tasks, Told(t), NEW evs,
         log'[t] \cup events'[t] \cup seen'[t]
           \subseteq (log[t] \cup events[t] \cup seen[t]) \cup evs,
         changes[t] \subseteq changes'[t],
         Fold(changes'[t]) = Fold(changes[t]) \/ Fold(changes[t]) \notin Terminal,
         \A e \in evs :
           /\ e.to \in Terminal => Fold(changes'[t]) = e.to
           /\ e.to \in Shown => \E r \in changes'[t] : r.seq = e.seq /\ r.to = e.to
  PROVE  Told(t)'
<1>1. ASSUME NEW e \in log'[t] \cup events'[t] \cup seen'[t], e \notin evs
      PROVE  /\ e.to \in Terminal => Fold(changes'[t]) = e.to
             /\ e.to \in Shown => \E r \in changes'[t] : r.seq = e.seq /\ r.to = e.to
  <2>1. e \in log[t] \cup events[t] \cup seen[t]
    BY <1>1
  <2>2. /\ e.to \in Terminal => Fold(changes[t]) = e.to
        /\ e.to \in Shown => \E r \in changes[t] : r.seq = e.seq /\ r.to = e.to
    BY <2>1 DEF Told
  <2> QED BY <2>2
<1> QED BY <1>1 DEF Told

\* No event is new, and the change stream takes no outcome back.
LEMMA ToldBacked ==
  ASSUME NEW t \in Tasks, Told(t), UNCHANGED <<log[t], events[t], seen[t]>>,
         changes[t] \subseteq changes'[t],
         Fold(changes'[t]) = Fold(changes[t]) \/ Fold(changes[t]) \notin Terminal
  PROVE  Told(t)'
BY DEF Told

\* A task whose streams stay as they are.
LEMMA ToldKept ==
  ASSUME NEW u \in Tasks, Told(u), UNCHANGED <<log[u], changes[u], events[u], seen[u]>>
  PROVE  Told(u)'
BY DEF Told

\* CANCELLED is not left while a cancel request is on its way through the abort.
LEMMA AnsweredStep ==
  ASSUME TypeInv, NEW u \in Tasks, Answered(u), Kind
  PROVE  Answered(u)'
<1>1. ASSUME Frame, up, up' => (status[u] = "CANCELLED" => status'[u] = "CANCELLED")
      PROVE  Answered(u)'
  BY <1>1 DEF Frame, Answered
<1>2. CASE Frame /\ Unmoved
  BY <1>2 DEF Frame, Answered, Unmoved
<1>3. ASSUME Frame, NEW t \in Tasks, NEW kind \in Kinds, NEW to \in StatusOrNone,
             Logged(t, kind, to)
      PROVE  Answered(u)'
  BY <1>1, <1>3 DEF Logged
<1>4. ASSUME Frame, NEW t \in Tasks, NEW to \in Status, Stored(t, to) \/ Failed(t, to)
      PROVE  Answered(u)'
  <2>1. /\ up /\ (Fresh(t) \/ CanTransition(status[t], to))
        /\ \E s \in Status : status' = [status EXCEPT ![t] = s]
    BY <1>4 DEF Stored, Failed, MoveStored, MoveFailed, Legal, Status
  <2>2. status[t] # "CANCELLED"
    BY <2>1 DEF Fresh, CanTransition, Transitions, Status
  <2> QED BY <1>1, <1>4, <2>1, <2>2 DEF TypeInv, StoreOK
<1>5. ASSUME NEW t \in Tasks, NEW to \in Status, Cut(t, to) PROVE Answered(u)'
  BY <1>5 DEF Cut, MoveCut, Answered
<1>6. ASSUME Frame, NEW t \in Tasks, Refused(t) PROVE Answered(u)'
  BY <1>1, <1>6 DEF Refused, Fresh, TypeInv, StoreOK
<1>7. ASSUME NEW t \in Tasks, ListenArtifact(t) \/ Connect(t) PROVE Answered(u)'
  BY <1>7 DEF ListenArtifact, Connect, phase, Answered, Cancelling
<1>8. CASE Crash
  BY <1>8 DEF Crash, Answered
<1>9. CASE Recover
  BY <1>9 DEF Recover, ClearedPhases, Answered, Cancelling
<1> QED BY <1>2, <1>3, <1>4, <1>5, <1>6, <1>7, <1>8, <1>9 DEF Kind

\* What was told stays true, as long as the change stream takes what is written.
LEMMA TellStep ==
  ASSUME TypeInv, TypeInv', DiskInv, DiskInv', TellInv, [Next]_vars, DiskFaults = FALSE
  PROVE  TellInv'
<1>0. /\ up => \A u \in Tasks : Fold(changes[u]) = status[u]
      /\ up' => \A u \in Tasks : Fold(changes'[u]) = status'[u]
  BY DEF DiskInv, Tracked, Backed
<1>1. ASSUME Unmoved \/ Crash \/ UNCHANGED vars PROVE \A u \in Tasks : Told(u)'
  BY <1>1, ToldKept DEF Unmoved, Crash, vars, disk, TellInv
<1>2. ASSUME NEW t \in Tasks, NEW kind \in Kinds, NEW to \in StatusOrNone, Logged(t, kind, to)
      PROVE  \A u \in Tasks : Told(u)'
  <2> DEFINE ev == [seq |-> cursor[t] + 1, kind |-> kind, to |-> to]
  <2>1. PICK e \in WriteEvent :
          /\ log'    = [log EXCEPT ![t] = @ \cup {ev}]
          /\ events' = [events EXCEPT ![t] = Written(@, ev, e)]
          /\ Published(t, {ev})
    BY <1>2, Zenon DEF Logged, Deliver
  <2>2. up /\ UNCHANGED changes /\ (to = "NONE" \/ (to = "CANCELLED" /\ canceller[t] = "announcing"))
    BY <1>2 DEF Logged
  <2>3. ev.to = to
    OBVIOUS
  <2> HIDE DEF ev
  <2>4. ASSUME NEW u \in Tasks \ {t} PROVE Told(u)'
    <3>1. UNCHANGED <<log[u], changes[u], events[u], seen[u]>>
      BY <2>1, <2>2 DEF Published, TypeInv, StoreOK
    <3> QED BY <3>1, ToldKept DEF TellInv
  <2>5. Told(t)'
    <3>1. log'[t] \cup events'[t] \cup seen'[t]
            \subseteq (log[t] \cup events[t] \cup seen[t]) \cup {ev}
      BY <2>1 DEF Published, Written, TypeInv, StoreOK
    <3>2. /\ ev.to \in Terminal => Fold(changes'[t]) = ev.to
          /\ ev.to \notin Shown
      BY <1>0, <2>2, <2>3 DEF TellInv, Answered, Cancelling, Terminal, Shown
    <3> QED BY <2>2, <3>1, <3>2, ToldGrown DEF TellInv
  <2> QED BY <2>4, <2>5
<1>3. ASSUME NEW t \in Tasks, NEW to \in Status, Stored(t, to)
      PROVE  \A u \in Tasks : Told(u)'
  <2> DEFINE ev == StatusEvent(cursor[t] + 1, to)
  <2>1. PICK e \in WriteEvent :
          /\ status'  = [status EXCEPT ![t] = to]
          /\ log'     = [log EXCEPT ![t] = @ \cup {ev}]
          /\ changes' = [changes EXCEPT ![t] = @ \cup {[seq |-> ev.seq, to |-> to]}]
          /\ events'  = [events EXCEPT ![t] = Written(@, ev, e)]
          /\ Published(t, {ev})
          /\ UNCHANGED up
    BY <1>3, Zenon DEF Stored, MoveStored
  <2>2. ev.to = to
    BY DEF StatusEvent
  <2> HIDE DEF ev
  <2>3. ASSUME NEW u \in Tasks \ {t} PROVE Told(u)'
    <3>1. UNCHANGED <<log[u], changes[u], events[u], seen[u]>>
      BY <2>1 DEF Published, TypeInv, StoreOK
    <3> QED BY <3>1, ToldKept DEF TellInv
  <2>4. Told(t)'
    <3>1. log'[t] \cup events'[t] \cup seen'[t]
            \subseteq (log[t] \cup events[t] \cup seen[t]) \cup {ev}
      BY <2>1 DEF Published, Written, TypeInv, StoreOK
    <3>2. changes[t] \subseteq changes'[t] /\ [seq |-> ev.seq, to |-> to] \in changes'[t]
      BY <2>1 DEF TypeInv, StoreOK
    <3>3. Fold(changes'[t]) = to
      BY <1>0, <1>3, <2>1 DEF Stored, TypeInv, StoreOK
    <3>4. Fold(changes[t]) \notin Terminal
      BY <1>0, <1>3 DEF Stored, Legal, Fresh, CanTransition, Transitions, Status, Terminal
    <3>5. ev.to \in Shown => \E r \in changes'[t] : r.seq = ev.seq /\ r.to = ev.to
      BY <2>2, <3>2
    <3> QED BY <2>2, <3>1, <3>2, <3>3, <3>4, <3>5, ToldGrown DEF TellInv
  <2> QED BY <2>3, <2>4
<1>4. ASSUME NEW t \in Tasks, NEW to \in Status, Cut(t, to)
      PROVE  \A u \in Tasks : Told(u)'
  <2>1. /\ UNCHANGED <<log, events, seen>> /\ changes[t] \subseteq changes'[t]
        /\ \A u \in Tasks \ {t} : changes'[u] = changes[u]
    BY <1>4 DEF Cut, MoveCut, TypeInv, StoreOK
  <2>2. Fold(changes[t]) \notin Terminal
    BY <1>0, <1>4 DEF Cut, Legal, Fresh, CanTransition, Transitions, Status, Terminal
  <2>3. Told(t)'
    BY <2>1, <2>2, ToldBacked DEF TellInv
  <2> QED BY <2>1, <2>3, ToldKept DEF TellInv
<1>5. ASSUME NEW t \in Tasks, NEW to \in Status, Failed(t, to) \/ Refused(t)
      PROVE  FALSE
  BY <1>5 DEF Failed, MoveFailed, Refused, WriteChange
<1>6. ASSUME NEW t \in Tasks, ListenArtifact(t) PROVE \A u \in Tasks : Told(u)'
  <2>1. /\ up /\ UNCHANGED <<up, status, log, events, seen>> /\ changes[t] \subseteq changes'[t]
        /\ \A u \in Tasks \ {t} : changes'[u] = changes[u]
    BY <1>6 DEF ListenArtifact, Written, TypeInv, StoreOK
  <2>2. Fold(changes'[t]) = Fold(changes[t])
    BY <1>0, <2>1
  <2>3. Told(t)'
    BY <2>1, <2>2, ToldBacked DEF TellInv
  <2> QED BY <2>1, <2>3, ToldKept DEF TellInv
<1>7. ASSUME NEW t \in Tasks, Connect(t) PROVE \A u \in Tasks : Told(u)'
  <2>1. /\ UNCHANGED <<log, changes, events>> /\ seen'[t] \subseteq seen[t] \cup log[t]
        /\ \A u \in Tasks \ {t} : seen'[u] = seen[u]
    BY <1>7 DEF Connect, disk, TypeInv, StoreOK
  <2> QED BY <2>1 DEF TellInv, Told
<1>8. ASSUME Recover PROVE \A u \in Tasks : Told(u)'
  <2> DEFINE stored(t) == Fold(changes[t])
             cut(t)    == stored(t) \notin Settled \cup {"NONE"}
             last(t)   == IF LastSeq(changes[t]) > LastSeq(events[t])
                          THEN LastSeq(changes[t]) ELSE LastSeq(events[t])
             ev(t)     == StatusEvent(last(t) + 1, "INTERRUPTED")
             history(t) == IF stored(t) = "NONE" THEN {} ELSE events[t]
             row(t)    == [seq |-> last(t) + 1, to |-> "INTERRUPTED"]
  <2>1. PICK L \in SUBSET (IF DiskFaults THEN Tasks ELSE {}),
             E \in SUBSET (IF EventFaults THEN Tasks ELSE {}) :
          /\ log' = [t \in Tasks |-> history(t) \cup (IF cut(t) THEN {ev(t)} ELSE {})]
          /\ changes' = [t \in Tasks |-> changes[t] \cup
                           (IF cut(t) /\ t \notin L THEN {row(t)} ELSE {})]
          /\ events' = [t \in Tasks |-> events[t] \cup
                           (IF cut(t) /\ t \notin E THEN {ev(t)} ELSE {})]
          /\ seen' = seen
    BY <1>8, Zenon DEF Recover
  <2> SUFFICES ASSUME NEW t \in Tasks PROVE Told(t)'
    OBVIOUS
  <2>2. PICK n : n = ev(t)
    OBVIOUS
  <2>3. changes[t] \subseteq changes'[t]
    BY <2>1
  <2>4. log'[t] \cup events'[t] \cup seen'[t]
          \subseteq (log[t] \cup events[t] \cup seen[t]) \cup {n}
    BY <2>1, <2>2
  <2>5. Fold(changes'[t]) = Fold(changes[t]) \/ Fold(changes[t]) \notin Terminal
    BY <2>1 DEF Settled
  <2>6. n.to \notin Terminal /\ n.to \notin Shown
    BY <2>2 DEF StatusEvent, Terminal, Shown
  <2> HIDE DEF stored, cut, last, ev, history, row
  <2> QED BY <2>3, <2>4, <2>5, <2>6, ToldGrown DEF TellInv
<1>9. \A u \in Tasks : Told(u)'
  <2>1. Kind \/ UNCHANGED vars
    BY StepKind
  <2>2. \A t \in Tasks, to \in Status : ~Failed(t, to)
    BY <1>5
  <2>3. \A t \in Tasks : Refused(t) => FALSE
    <3>1. "QUEUED" \in Status
      BY DEF Status
    <3> QED BY <1>5, <3>1
  <2> HIDE DEF Told
  <2> QED BY <1>1, <1>2, <1>3, <1>4, <1>6, <1>7, <1>8, <2>1, <2>2, <2>3 DEF Kind
<1>10. \A u \in Tasks : Answered(u)'
  <2>1. CASE Next
    BY <2>1, AnsweredStep, StepKind DEF TellInv
  <2>2. CASE UNCHANGED vars
    BY <2>2 DEF vars, phase, TellInv, Answered, Cancelling
  <2> QED BY <2>1, <2>2
<1> QED BY <1>9, <1>10 DEF TellInv

LEMMA TellInvariant ==
  ASSUME DiskFaults = FALSE
  PROVE  Spec => [](TypeInv /\ DiskInv /\ TellInv)
<1>1. Init => TypeInv /\ DiskInv /\ TellInv
  <2>1. Init => TellInv
    BY DEF Init, TellInv, Told, Answered, Cancelling
  <2> QED BY <2>1, TypeInit, DiskInit
<1>2. TypeInv /\ DiskInv /\ TellInv /\ [Next]_vars => (TypeInv /\ DiskInv /\ TellInv)'
  BY TypeStep, DiskStep, TellStep
<1> QED BY <1>1, <1>2, PTL DEF Spec

\* Persist before publish, and its consequence: whatever is lost of the event stream, no
\* client is ever told an outcome that a status query or a restart takes back, nor a
\* progress that is not stored.
THEOREM ToldStaysTrue ==
  ASSUME DiskFaults = FALSE
  PROVE  Spec => [](ToldIsTrue /\ ToldAfterStored)
<1>1. DiskInv /\ TellInv => ToldIsTrue /\ ToldAfterStored
  BY DEF DiskInv, Tracked, Backed, TellInv, Told, Shown, ToldIsTrue, ToldAfterStored
<1> QED BY <1>1, TellInvariant, PTL

-----------------------------------------------------------------------------
(* What a client misses.                                                    *)

\* The log is what the event stream holds; a client has received all of it up to its
\* anchor, and all of it while it is connected.
Read(t) ==
  /\ log[t] = events[t]
  /\ seen[t] \subseteq events[t] /\ HasLast(seen[t])
  /\ linked[t] => seen[t] = events[t]
  /\ \A e \in events[t] : e.seq <= LastSeq(seen[t]) => e \in seen[t]
  /\ changes[t] = {} => events[t] = {}

ReadInv == \A t \in Tasks : Read(t)

\* A new event above all others, published to a client that is connected.
LEMMA ReadGrown ==
  ASSUME TypeInv, NEW t \in Tasks, Read(t), NEW ev \in Event,
         ev.seq > 0, \A e \in events[t] : e.seq < ev.seq,
         log'[t] = log[t] \cup {ev}, events'[t] = events[t] \cup {ev},
         seen'[t] = IF linked[t] THEN seen[t] \cup {ev} ELSE seen[t],
         linked'[t] => linked[t], changes'[t] # {}
  PROVE  Read(t)'
<1>1. /\ events[t] \in SUBSET Event /\ seen[t] \in SUBSET Event
      /\ ev.seq \in Nat /\ \A x \in events[t] \cup seen[t] : x.seq \in Nat
  BY DEF TypeInv, StoreOK, Event
<1>2. CASE linked[t]
  <2>1. seen'[t] = events'[t] /\ seen'[t] = seen[t] \cup {ev} /\ log'[t] = events'[t]
    BY <1>2 DEF Read
  <2>2. HasLast(seen[t] \cup {ev})
    BY <1>1, HasLastAppend DEF Read
  <2> QED BY <2>1, <2>2 DEF Read
<1>3. CASE ~linked[t]
  <2>1. seen'[t] = seen[t] /\ ~linked'[t] /\ log'[t] = events'[t]
    BY <1>3 DEF Read
  <2>2. ev.seq > LastSeq(seen[t])
    <3>1. CASE seen[t] = {}
      BY <3>1, <1>1 DEF LastSeq
    <3>2. CASE seen[t] # {}
      <4>1. PICK r \in seen[t] : LastSeq(seen[t]) = r.seq
        BY <3>2, LastRow DEF Read
      <4> QED BY <1>1, <4>1 DEF Read
    <3> QED BY <3>1, <3>2
  <2>3. LastSeq(seen[t]) \in Nat
    BY <1>1, LastSeqType DEF Read
  <2>4. \A e \in events'[t] : e.seq <= LastSeq(seen[t]) => e \in seen[t]
    BY <1>1, <2>2, <2>3 DEF Read
  <2> QED BY <2>1, <2>4 DEF Read
<1> QED BY <1>2, <1>3

\* A task whose events stay as they are.
LEMMA ReadKept ==
  ASSUME NEW u \in Tasks, Read(u), UNCHANGED <<log[u], events[u], seen[u]>>,
         changes[u] \subseteq changes'[u], linked'[u] => linked[u]
  PROVE  Read(u)'
BY DEF Read

\* A client that connects has everything the log holds.
LEMMA ReadAll ==
  ASSUME TypeInv, NEW t \in Tasks, Read(t), UNCHANGED <<log[t], changes[t], events[t]>>,
         seen'[t] = seen[t] \cup {e \in log[t] : e.seq > Anchor(t)}
  PROVE  Read(t)'
<1>1. /\ events[t] \in SUBSET Event /\ seen[t] \in SUBSET Event /\ HasLast(events[t])
      /\ \A e \in events[t] : e.seq \in Nat
  BY DEF TypeInv, StoreOK, Event
<1>2. LastSeq(seen[t]) \in Nat
  BY <1>1, LastSeqType DEF Read
<1>3. \A e \in events[t] : e \in seen[t] \/ e.seq > LastSeq(seen[t])
  BY <1>1, <1>2 DEF Read
<1>4. seen'[t] = events[t]
  BY <1>3 DEF Read, Anchor
<1> QED BY <1>1, <1>4 DEF Read

\* As long as both streams take what is written, no client misses what is before its anchor.
LEMMA ReadStep ==
  ASSUME TypeInv, DiskInv, NamesInv, ReadInv, [Next]_vars,
         DiskFaults = FALSE, EventFaults = FALSE
  PROVE  ReadInv'
<1>0. WriteEvent = {"ok"} /\ \A rows, r : Written(rows, r, "ok") = rows \cup {r}
  BY DEF WriteEvent, Written
<1>1. ASSUME Frame, Unmoved PROVE ReadInv'
  BY <1>1, ReadKept DEF Frame, Unmoved, ReadInv
<1>2. ASSUME Frame, NEW t \in Tasks, NEW kind \in Kinds, NEW to \in StatusOrNone,
             Logged(t, kind, to)
      PROVE  ReadInv'
  <2> DEFINE ev == [seq |-> cursor[t] + 1, kind |-> kind, to |-> to]
  <2>1. PICK e \in WriteEvent :
          /\ log'    = [log EXCEPT ![t] = @ \cup {ev}]
          /\ events' = [events EXCEPT ![t] = Written(@, ev, e)]
          /\ Published(t, {ev})
    BY <1>2, Zenon DEF Logged, Deliver
  <2>2. up /\ UNCHANGED changes /\ status[t] # "NONE" /\ \A u \in Tasks : linked'[u] => linked[u]
    BY <1>2 DEF Logged, Frame
  <2>3. ev \in Event /\ ev.seq = cursor[t] + 1
    BY DEF TypeInv, StoreOK, Event
  <2> HIDE DEF ev
  <2>4. ASSUME NEW u \in Tasks \ {t} PROVE Read(u)'
    <3>1. UNCHANGED <<log[u], changes[u], events[u], seen[u]>>
      BY <2>1, <2>2 DEF Published, TypeInv, StoreOK
    <3> QED BY <2>2, <3>1, ReadKept DEF ReadInv
  <2>5. Read(t)'
    <3>1. /\ log'[t] = log[t] \cup {ev} /\ events'[t] = events[t] \cup {ev}
          /\ seen'[t] = IF linked[t] THEN seen[t] \cup {ev} ELSE seen[t]
      BY <1>0, <2>1 DEF Published, TypeInv, StoreOK
    <3>2. ev.seq > 0 /\ \A p \in events[t] : p.seq < ev.seq
      BY <2>2, <2>3, NextSeqIsFree
    <3>3. changes'[t] # {}
      BY <2>2 DEF DiskInv, Tracked, Backed, Fold
    <3> QED BY <2>2, <2>3, <3>1, <3>2, <3>3, ReadGrown DEF ReadInv
  <2> QED BY <2>4, <2>5 DEF ReadInv
<1>3. ASSUME Frame, NEW t \in Tasks, NEW to \in Status, Stored(t, to) PROVE ReadInv'
  <2> DEFINE ev == StatusEvent(cursor[t] + 1, to)
  <2>1. PICK e \in WriteEvent :
          /\ log'     = [log EXCEPT ![t] = @ \cup {ev}]
          /\ changes' = [changes EXCEPT ![t] = @ \cup {[seq |-> ev.seq, to |-> to]}]
          /\ events'  = [events EXCEPT ![t] = Written(@, ev, e)]
          /\ Published(t, {ev})
    BY <1>3, Zenon DEF Stored, MoveStored
  <2>2. /\ up /\ (status[t] # "NONE" \/ Fresh(t)) /\ \A u \in Tasks : linked'[u] => linked[u]
    BY <1>3 DEF Stored, Legal, CanTransition, Status, Frame
  <2>3. ev \in Event /\ ev.seq = cursor[t] + 1
    BY DEF TypeInv, StoreOK, Event, StatusEvent, Kinds, StatusOrNone
  <2> HIDE DEF ev
  <2>4. ASSUME NEW u \in Tasks \ {t} PROVE Read(u)'
    <3>1. UNCHANGED <<log[u], changes[u], events[u], seen[u]>>
      BY <2>1, <2>2 DEF Published, TypeInv, StoreOK
    <3> QED BY <2>2, <3>1, ReadKept DEF ReadInv
  <2>5. Read(t)'
    <3>1. /\ log'[t] = log[t] \cup {ev} /\ events'[t] = events[t] \cup {ev}
          /\ seen'[t] = IF linked[t] THEN seen[t] \cup {ev} ELSE seen[t]
          /\ changes'[t] # {}
      BY <1>0, <2>1 DEF Published, TypeInv, StoreOK
    <3>2. ev.seq > 0 /\ \A p \in events[t] : p.seq < ev.seq
      BY <2>2, <2>3, NextSeqIsFree
    <3> QED BY <2>2, <2>3, <3>1, <3>2, ReadGrown DEF ReadInv
  <2> QED BY <2>4, <2>5 DEF ReadInv
<1>4. ASSUME Frame, NEW t \in Tasks, NEW to \in Status, Cut(t, to) PROVE ReadInv'
  <2>1. /\ UNCHANGED <<log, events, seen>>
        /\ \A u \in Tasks : changes[u] \subseteq changes'[u] /\ (linked'[u] => linked[u])
    BY <1>4 DEF Cut, MoveCut, Frame, TypeInv, StoreOK
  <2> QED BY <2>1, ReadKept DEF ReadInv
<1>5. /\ \A t \in Tasks, to \in Status : ~Failed(t, to)
      /\ \A t \in Tasks : ~Refused(t)
  BY DEF Failed, MoveFailed, Refused, WriteChange
<1>6. ASSUME NEW t \in Tasks, ListenArtifact(t) PROVE ReadInv'
  <2>1. /\ UNCHANGED <<log, events, seen, linked>>
        /\ \A u \in Tasks : changes[u] \subseteq changes'[u]
    BY <1>6 DEF ListenArtifact, Written, TypeInv, StoreOK
  <2> QED BY <2>1, ReadKept DEF ReadInv
<1>7. ASSUME NEW t \in Tasks, Connect(t) PROVE ReadInv'
  <2>1. /\ UNCHANGED <<log, changes, events>>
        /\ seen'[t] = seen[t] \cup {e \in log[t] : e.seq > Anchor(t)}
        /\ \A u \in Tasks \ {t} : seen'[u] = seen[u] /\ linked'[u] = linked[u]
    BY <1>7 DEF Connect, disk, TypeInv, StoreOK, ControlOK
  <2>2. Read(t)'
    BY <2>1, ReadAll DEF ReadInv
  <2>3. \A u \in Tasks \ {t} : Read(u)'
    BY <2>1, ReadKept DEF ReadInv
  <2> QED BY <2>2, <2>3 DEF ReadInv
<1>8. ASSUME Recover PROVE ReadInv'
  <2> DEFINE stored(t) == Fold(changes[t])
             cut(t)    == stored(t) \notin Settled \cup {"NONE"}
             last(t)   == IF LastSeq(changes[t]) > LastSeq(events[t])
                          THEN LastSeq(changes[t]) ELSE LastSeq(events[t])
             ev(t)     == StatusEvent(last(t) + 1, "INTERRUPTED")
             history(t) == IF stored(t) = "NONE" THEN {} ELSE events[t]
             row(t)    == [seq |-> last(t) + 1, to |-> "INTERRUPTED"]
  <2>1. PICK L \in SUBSET (IF DiskFaults THEN Tasks ELSE {}),
             E \in SUBSET (IF EventFaults THEN Tasks ELSE {}) :
          /\ log' = [t \in Tasks |-> history(t) \cup (IF cut(t) THEN {ev(t)} ELSE {})]
          /\ changes' = [t \in Tasks |-> changes[t] \cup
                           (IF cut(t) /\ t \notin L THEN {row(t)} ELSE {})]
          /\ events' = [t \in Tasks |-> events[t] \cup
                           (IF cut(t) /\ t \notin E THEN {ev(t)} ELSE {})]
          /\ linked' = [t \in Tasks |-> FALSE]
          /\ seen' = seen
    BY <1>8, Zenon DEF Recover
  <2>2. ASSUME NEW t \in Tasks PROVE Read(t)'
    <3>1. /\ changes[t] \in SUBSET Change /\ events[t] \in SUBSET Event
          /\ HasLast(changes[t]) /\ HasLast(events[t])
      BY DEF TypeInv, StoreOK
    <3>2. LastSeq(changes[t]) \in Nat /\ (stored(t) = "NONE" <=> changes[t] = {})
      BY <3>1, FoldType
    <3>3. LastSeq(events[t]) \in Nat /\ \A x \in events[t] : x.seq <= LastSeq(events[t])
      BY <3>1, LastSeqType
    <3>4. last(t) \in Nat /\ \A x \in events[t] : x.seq \in Nat /\ x.seq <= last(t)
      BY <3>1, <3>2, <3>3 DEF Event
    <3>5. Read(t) /\ seen'[t] = seen[t] /\ ~linked'[t]
      BY <2>1 DEF ReadInv
    <3>6. CASE cut(t)
      <4>1. PICK n : n = ev(t)
        OBVIOUS
      <4>2. log'[t] = events[t] \cup {n} /\ events'[t] = events[t] \cup {n} /\ changes'[t] # {}
        BY <2>1, <3>6, <4>1
      <4>3. n \in Event /\ n.seq = last(t) + 1
        BY <3>4, <4>1 DEF StatusEvent, Event, Kinds, StatusOrNone, Status
      <4> HIDE DEF stored, cut, last, ev, history, row
      <4>4. LastSeq(seen[t]) \in Nat /\ LastSeq(seen[t]) <= last(t)
        <5>1. CASE seen[t] = {}
          BY <3>4, <5>1 DEF LastSeq
        <5>2. CASE seen[t] # {}
          <6>1. PICK r \in seen[t] : LastSeq(seen[t]) = r.seq
            BY <3>5, <5>2, LastRow DEF Read
          <6> QED BY <3>4, <3>5, <6>1 DEF Read
        <5> QED BY <5>1, <5>2
      <4>5. \A e \in events'[t] : e.seq <= LastSeq(seen[t]) => e \in seen[t]
        BY <3>4, <3>5, <4>2, <4>3, <4>4 DEF Read
      <4> QED BY <3>5, <4>2, <4>5 DEF Read
    <3>7. CASE ~cut(t)
      <4>1. log'[t] = history(t) /\ events'[t] = events[t] /\ changes'[t] = changes[t]
        BY <2>1, <3>7
      <4>2. log'[t] = events[t]
        BY <3>2, <3>5, <4>1 DEF Read
      <4> QED BY <3>5, <4>1, <4>2 DEF Read
    <3> QED BY <3>6, <3>7
  <2> QED BY <2>2 DEF ReadInv
<1>9. ASSUME Crash \/ UNCHANGED vars PROVE ReadInv'
  BY <1>9, ReadKept DEF Crash, vars, disk, ReadInv
<1> QED
  <2>1. Kind \/ UNCHANGED vars
    BY StepKind
  <2> QED BY <1>1, <1>2, <1>3, <1>4, <1>5, <1>6, <1>7, <1>8, <1>9, <2>1 DEF Kind

LEMMA ReadInvariant ==
  ASSUME DiskFaults = FALSE, EventFaults = FALSE
  PROVE  Spec => [](DiskInv /\ NamesInv /\ ReadInv)
<1>1. Init => TypeInv /\ DiskInv /\ NamesInv /\ ReadInv
  <2>1. Init => ReadInv
    BY DEF Init, ReadInv, Read, HasLast
  <2>2. Init => NamesInv
    BY DEF Init, NamesInv, Named, Covered, OneRowPerSeq, NoTurn
  <2> QED BY <2>1, <2>2, TypeInit, DiskInit
<1>2. TypeInv /\ DiskInv /\ NamesInv /\ ReadInv /\ [Next]_vars
        => (TypeInv /\ DiskInv /\ NamesInv /\ ReadInv)'
  BY TypeStep, DiskStep, NamesStep, ReadStep
<1> QED BY <1>1, <1>2, PTL DEF Spec

\* On streams that take what is written, what a client reads is sound across crashes,
\* restarts and reconnections: nothing before its anchor is missing, no outcome is taken
\* back, nothing is told that is not stored.
THEOREM ClientAlwaysSound ==
  ASSUME DiskFaults = FALSE, EventFaults = FALSE
  PROVE  Spec => []ClientSound
<1>1. ReadInv => NothingMissed
  BY DEF ReadInv, Read, NothingMissed, Anchor
<1>2. Spec => [](ToldIsTrue /\ ToldAfterStored)
  BY ToldStaysTrue
<1> QED BY <1>1, <1>2, ReadInvariant, PTL DEF ClientSound
=============================================================================
