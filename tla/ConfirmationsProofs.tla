------------------------ MODULE ConfirmationsProofs ------------------------
(***************************************************************************)
(* The confirmations of a runner keep records, disk and grants consistent, *)
(* and implement ActionDecision, for all actions, requests and faults.     *)
(*                                                                         *)
(* finish() recognises its own record by identity.  The proof shows that   *)
(* this is enough: no two finishes in flight can be taken for one another, *)
(* a finish that still owns its record finds it as it wrote it, and an     *)
(* approval that does has a consent, an open waiter and no cancel.         *)
(***************************************************************************)
EXTENDS Confirmations, TLAPS

USE ConfirmationsAssumption

(* Where the hook is tells what became of its action. *)
HookOrder ==
  /\ hook.at # "idle" => alive = "run"
  /\ \A a \in Actions :
       /\ hook = At("saving", a) =>
            stored[a] = "pending" /\ record[a] = "none" /\ decision[a] = "none"
       /\ hook = At("waiting", a) => tool[a] = "none"
       /\ hook = At("rechecking", a) => decision[a] = "yes" /\ tool[a] = "none"
       /\ hook = At("closing", a) => stored[a] # "none"
       /\ stored[a] = "none" => record[a] = "none" /\ decision[a] = "none"

(* A pending action has its waiter, and nobody has cancelled; after a cancel  *)
(* the record of an open action is the canceller's.                           *)
PendingWaits ==
  \A a \in Actions :
    /\ record[a] = "pending" =>
         decision[a] = "open" /\ ~cancelled /\ writer[a] = "request"
    /\ cancelled /\ decision[a] = "open" => writer[a] \in Cancellers

(* Who began a finish, for what, and that it cannot begin another one. *)
Begun ==
  \A f \in flights :
    /\ f.by \in Requests => f.to = "approved" /\ f.by \in asked /\ f.action \in consent
    /\ f.by \in Cancellers => f.to = "rejected" /\ f.by \in ended
    /\ f.by = "timer" => f.to = "expired" /\ clock[f.action] = "fired"
    /\ f.by = "hook" => f.to \in {"rejected", "invalidated"} /\ hook = At("closing", f.action)
    /\ f.by = "tool" => f.to \in {"executed", "failed"} /\ tool[f.action] = "over"
    /\ f.by \notin {"none", "request"}
    /\ f.session => f.to = "approved"
    /\ alive = "run"

(* The identity of a record is that of one finish. *)
NoTwins ==
  \A f, g \in flights : f.by = g.by /\ f.action = g.action => f = g

(* A finish that owns its record finds it as it wrote it; an approval finds   *)
(* its waiter as well, and no cancel.                                         *)
OwnsRecord ==
  \A f \in flights : Mine(f) =>
    /\ record[f.action] = f.to
    /\ f.to = "approved" => decision[f.action] = "open" /\ ~cancelled

IInv == Safe /\ HookOrder /\ PendingWaits /\ Begun /\ NoTwins /\ OwnsRecord

-----------------------------------------------------------------------------
(* The hook is in one place. *)
LEMMA OnePlace ==
  ASSUME NEW x, NEW a, hook = At(x, a)
  PROVE  \A y, b : hook = At(y, b) <=> x = y /\ a = b
<1>1. hook.at = x /\ hook.action = a  BY DEF At
<1>2. \A y, b : hook = At(y, b) => hook.at = y /\ hook.action = b  BY DEF At
<1> QED BY <1>1, <1>2

(* The two outcomes of the first block of finish(). *)
Flown(by, a, to, session) ==
  [by |-> by, action |-> a, to |-> to, session |-> session, at |-> "saved"]

Wrote(by, a, to, session) ==
  /\ record' = [record EXCEPT ![a] = to]
  /\ writer' = [writer EXCEPT ![a] = by]
  /\ stored' = [stored EXCEPT ![a] = to]
  /\ flights' = flights \cup {Flown(by, a, to, session)}
  /\ UNCHANGED decision

Threw(a) == Fail(a) /\ UNCHANGED <<stored, flights>>

LEMMA BeginOutcomes ==
  ASSUME NEW by, NEW a, NEW to, NEW session, Begin(by, a, to, session)
  PROVE  Wrote(by, a, to, session) \/ Threw(a)
BY DEF Begin, Wrote, Threw, Saved, Flown

(* The part of the invariant that the record decides. *)
Records == DiskFollows /\ GrantBacked /\ PendingWaits /\ NoTwins /\ OwnsRecord

(* What waits for a verdict has no grant. *)
LEMMA PendingUngranted ==
  ASSUME IInv, NEW a \in Actions, record[a] = "pending"
  PROVE  a \notin grants /\ decision[a] = "open" /\ ~cancelled
<1>1. decision[a] = "open" /\ ~cancelled  BY DEF IInv, PendingWaits
<1>2. ASSUME NEW f \in flights, f.action = a, f.session, Mine(f)
      PROVE  FALSE
  <2>1. f.to = "approved"  BY <1>2 DEF IInv, Begun
  <2> QED BY <2>1, <1>2 DEF IInv, OwnsRecord
<1> QED BY <1>1, <1>2 DEF IInv, Safe, GrantBacked

(* A finish that begins keeps it, if it is the only one of its kind, if it    *)
(* supersedes an approval only after a verdict or a cancel, and if it         *)
(* approves only what is open before any cancel.                              *)
LEMMA WroteKeeps ==
  ASSUME IInv, UNCHANGED <<alive, grants>>,
         NEW by \in Writers \ {"none", "request"}, NEW a \in Actions,
         NEW to \in Status \ {"none", "pending"}, NEW session \in BOOLEAN,
         Wrote(by, a, to, session),
         \A f \in flights : ~(f.by = by /\ f.action = a),
         cancelled' \in BOOLEAN, cancelled => cancelled',
         decision[a] = "yes" \/ cancelled' \/ a \notin grants,
         cancelled' = cancelled \/ \A b \in Open : b = a,
         cancelled' /\ decision[a] = "open" => by \in Cancellers,
         to = "approved" => decision[a] = "open" /\ ~cancelled'
  PROVE  Records'
<1> DEFINE new == Flown(by, a, to, session)
<1>1. /\ record' = [record EXCEPT ![a] = to] /\ writer' = [writer EXCEPT ![a] = by]
      /\ stored' = [stored EXCEPT ![a] = to] /\ decision' = decision
      /\ flights' = flights \cup {new}
  BY DEF Wrote
<1>2. new.by = by /\ new.action = a /\ new.to = to /\ new.session = session /\ new.at = "saved"
  BY DEF Flown
<1>3. TypeOK /\ DiskFollows /\ GrantBacked /\ PendingWaits /\ NoTwins /\ OwnsRecord /\ Begun
  BY DEF IInv, Safe
<1> HIDE DEF new
<1>4. \A f \in flights : f.action \in Actions
  BY <1>3 DEF TypeOK, Flight
<1>5. \A f \in flights : f.action = a => ~Mine(f)'
  BY <1>1, <1>3 DEF Mine, TypeOK
<1>6. \A f \in flights : f.action # a => Mine(f)' = Mine(f)
  BY <1>1, <1>3, <1>4 DEF Mine, TypeOK
<1>7. DiskFollows'
  BY <1>1, <1>3 DEF DiskFollows, TypeOK
<1>8. GrantBacked'
  <2> SUFFICES ASSUME NEW b \in grants, ~cancelled', decision[b] # "yes"
               PROVE  \E f \in flights' : f.action = b /\ f.session /\ f.at = "granted" /\ Mine(f)'
    BY <1>1 DEF GrantBacked
  <2>1. PICK f \in flights : f.action = b /\ f.session /\ f.at = "granted" /\ Mine(f)
    BY <1>3 DEF GrantBacked
  <2>2. f.action # a  BY <2>1
  <2> QED BY <2>1, <2>2, <1>1, <1>6
<1>9. PendingWaits'
  <2> SUFFICES ASSUME NEW b \in Actions
               PROVE  /\ record'[b] = "pending" =>
                           decision[b] = "open" /\ ~cancelled' /\ writer'[b] = "request"
                      /\ cancelled' /\ decision[b] = "open" => writer'[b] \in Cancellers
    BY <1>1 DEF PendingWaits
  <2>1. CASE b = a  BY <2>1, <1>1, <1>3 DEF TypeOK
  <2>2. CASE b # a
    <3>1. record'[b] = record[b] /\ writer'[b] = writer[b]  BY <2>2, <1>1, <1>3 DEF TypeOK
    <3>2. decision[b] = "open" => cancelled' = cancelled  BY <2>2 DEF Open
    <3> QED BY <3>1, <3>2, <1>3 DEF PendingWaits
  <2> QED BY <2>1, <2>2
<1>10. NoTwins'
  BY <1>1, <1>2, <1>3 DEF NoTwins
<1>11. OwnsRecord'
  <2> SUFFICES ASSUME NEW f \in flights', Mine(f)'
               PROVE  /\ record'[f.action] = f.to
                      /\ f.to = "approved" => decision[f.action] = "open" /\ ~cancelled'
    BY <1>1 DEF OwnsRecord
  <2>1. CASE f = new  BY <2>1, <1>1, <1>2, <1>3 DEF TypeOK
  <2>2. CASE f \in flights
    <3>1. f.action # a /\ Mine(f)  BY <2>2, <1>5, <1>6
    <3>2. record'[f.action] = record[f.action]  BY <3>1, <2>2, <1>1, <1>3, <1>4 DEF TypeOK
    <3>3. decision[f.action] = "open" => cancelled' = cancelled  BY <3>1, <2>2, <1>4 DEF Open
    <3> QED BY <3>1, <3>2, <3>3, <2>2, <1>3 DEF OwnsRecord
  <2> QED BY <2>1, <2>2, <1>1
<1> QED BY <1>7, <1>8, <1>9, <1>10, <1>11 DEF Records

(* So does one that throws. *)
LEMMA ThrewKeeps ==
  ASSUME IInv, UNCHANGED <<alive, grants, stored>>,
         NEW a \in Actions, Fail(a), flights' \subseteq flights,
         cancelled' \in BOOLEAN, cancelled => cancelled',
         \A f \in flights \ flights' : f.action = a,
         decision[a] = "yes" \/ cancelled' \/ a \notin grants,
         cancelled' = cancelled \/ \A b \in Open : b = a
  PROVE  Records'
<1>1. /\ record' = [record EXCEPT ![a] = "failed"] /\ writer' = [writer EXCEPT ![a] = "none"]
      /\ decision' = [decision EXCEPT ![a] = IF @ = "open" THEN "no" ELSE @]
  BY DEF Fail
<1>2. TypeOK /\ DiskFollows /\ GrantBacked /\ PendingWaits /\ NoTwins /\ OwnsRecord /\ Begun
  BY DEF IInv, Safe
<1>3. \A f \in flights : f.action \in Actions /\ f.by # "none"
  BY <1>2 DEF TypeOK, Flight, Begun
<1>4. \A f \in flights : f.action = a => ~Mine(f)'
  BY <1>1, <1>2, <1>3 DEF Mine, TypeOK
<1>5. \A f \in flights : f.action # a =>
        Mine(f)' = Mine(f) /\ record'[f.action] = record[f.action] /\ decision'[f.action] = decision[f.action]
  BY <1>1, <1>2, <1>3 DEF Mine, TypeOK
<1>6. DiskFollows'
  BY <1>1, <1>2 DEF DiskFollows, TypeOK
<1>7. GrantBacked'
  <2> SUFFICES ASSUME NEW b \in grants, ~cancelled', decision'[b] # "yes"
               PROVE  \E f \in flights' : f.action = b /\ f.session /\ f.at = "granted" /\ Mine(f)'
    BY DEF GrantBacked
  <2>1. decision[b] # "yes"  BY <1>1, <1>2 DEF TypeOK
  <2>2. PICK f \in flights : f.action = b /\ f.session /\ f.at = "granted" /\ Mine(f)
    BY <2>1, <1>2 DEF GrantBacked
  <2>3. f.action # a /\ f \in flights'  BY <2>1, <2>2
  <2> QED BY <2>2, <2>3, <1>5
<1>8. PendingWaits'
  <2> SUFFICES ASSUME NEW b \in Actions
               PROVE  /\ record'[b] = "pending" =>
                           decision'[b] = "open" /\ ~cancelled' /\ writer'[b] = "request"
                      /\ cancelled' /\ decision'[b] = "open" => writer'[b] \in Cancellers
    BY DEF PendingWaits
  <2>1. CASE b = a  BY <2>1, <1>1, <1>2 DEF TypeOK
  <2>2. CASE b # a
    <3>1. record'[b] = record[b] /\ writer'[b] = writer[b] /\ decision'[b] = decision[b]
      BY <2>2, <1>1, <1>2 DEF TypeOK
    <3>2. decision[b] = "open" => cancelled' = cancelled  BY <2>2 DEF Open
    <3> QED BY <3>1, <3>2, <1>2 DEF PendingWaits
  <2> QED BY <2>1, <2>2
<1>9. NoTwins'
  BY <1>2 DEF NoTwins
<1>10. OwnsRecord'
  <2> SUFFICES ASSUME NEW f \in flights', Mine(f)'
               PROVE  /\ record'[f.action] = f.to
                      /\ f.to = "approved" => decision'[f.action] = "open" /\ ~cancelled'
    BY DEF OwnsRecord
  <2>1. f \in flights /\ f.action # a /\ Mine(f)  BY <1>4, <1>5
  <2>2. decision[f.action] = "open" => cancelled' = cancelled  BY <2>1, <1>3 DEF Open
  <2> QED BY <2>1, <2>2, <1>2, <1>5 DEF OwnsRecord
<1> QED BY <1>6, <1>7, <1>8, <1>9, <1>10 DEF Records

(* A finish that goes on after its save, or settles, keeps it. *)
LEMMA SettleKeeps ==
  ASSUME IInv, UNCHANGED <<alive, cancelled>>, NEW f \in flights, Settle(f)
  PROVE  Records'
<1>1. TypeOK /\ DiskFollows /\ GrantBacked /\ PendingWaits /\ NoTwins /\ OwnsRecord /\ Begun
  BY DEF IInv, Safe
<1>2. /\ flights' = flights \ {f} /\ UNCHANGED <<record, writer, stored, grants>>
      /\ decision' = [decision EXCEPT ![f.action] =
           IF @ = "open" /\ Mine(f) THEN (IF f.to = "approved" THEN "yes" ELSE "no") ELSE @]
  BY DEF Settle
<1>3. f.action \in Actions /\ f.by # "request"
  BY <1>1 DEF TypeOK, Flight, Begun
<1>4. DiskFollows' /\ NoTwins'
  BY <1>1, <1>2 DEF DiskFollows, NoTwins
<1>5. GrantBacked'
  <2> SUFFICES ASSUME NEW b \in grants, ~cancelled, decision'[b] # "yes"
               PROVE  \E g \in flights' : g.action = b /\ g.session /\ g.at = "granted" /\ Mine(g)
    BY <1>2 DEF GrantBacked, Mine
  <2>1. decision[b] # "yes"  BY <1>1, <1>2 DEF TypeOK
  <2>2. PICK g \in flights : g.action = b /\ g.session /\ g.at = "granted" /\ Mine(g)
    BY <2>1, <1>1 DEF GrantBacked
  <2>3. g.to = "approved" /\ decision[b] = "open"
    BY <2>2, <1>1 DEF Begun, OwnsRecord
  <2>4. g # f  BY <2>2, <2>3, <1>1, <1>2, <1>3 DEF TypeOK
  <2> QED BY <2>2, <2>4, <1>2
<1>6. PendingWaits'
  <2> SUFFICES ASSUME NEW b \in Actions
               PROVE  /\ record[b] = "pending" =>
                           decision'[b] = "open" /\ ~cancelled /\ writer[b] = "request"
                      /\ cancelled /\ decision'[b] = "open" => writer[b] \in Cancellers
    BY <1>2 DEF PendingWaits
  <2>1. decision'[b] = decision[b] \/ (b = f.action /\ Mine(f) /\ decision'[b] # "open")
    BY <1>1, <1>2, <1>3 DEF TypeOK
  <2> QED BY <2>1, <1>1, <1>3 DEF PendingWaits, Mine
<1>7. OwnsRecord'
  <2> SUFFICES ASSUME NEW g \in flights, g # f, Mine(g)
               PROVE  /\ record[g.action] = g.to
                      /\ g.to = "approved" => decision'[g.action] = "open" /\ ~cancelled
    BY <1>2 DEF OwnsRecord, Mine
  <2>1. g.action = f.action => ~Mine(f)  BY <1>1 DEF NoTwins, Mine
  <2>2. decision'[g.action] = decision[g.action]
    BY <2>1, <1>1, <1>2, <1>3 DEF TypeOK, Flight
  <2> QED BY <2>2, <1>1 DEF OwnsRecord
<1> QED BY <1>4, <1>5, <1>6, <1>7 DEF Records

(* The session grant is made by the finish that owns the record. *)
LEMMA GrantKeeps ==
  ASSUME IInv, UNCHANGED <<alive, cancelled, record, writer, stored, decision>>,
         NEW f \in flights, f.at = "saved", Mine(f), ~cancelled,
         flights' = (flights \ {f}) \cup {[f EXCEPT !.at = "granted"]},
         grants' = IF f.session THEN grants \cup {f.action} ELSE grants
  PROVE  Records'
<1> DEFINE new == [f EXCEPT !.at = "granted"]
<1>1. TypeOK /\ DiskFollows /\ GrantBacked /\ PendingWaits /\ NoTwins /\ OwnsRecord /\ Begun
  BY DEF IInv, Safe
<1>2. new.by = f.by /\ new.action = f.action /\ new.to = f.to /\ new.session = f.session
      /\ new.at = "granted"
  BY <1>1 DEF TypeOK, Flight
<1>3. flights' = (flights \ {f}) \cup {new}  OBVIOUS
<1> HIDE DEF new
<1>4. \A g : Mine(g)' = Mine(g)  BY DEF Mine
<1>5. Mine(new) = Mine(f)  BY <1>2 DEF Mine
<1>6. DiskFollows' /\ PendingWaits'
  BY <1>1 DEF DiskFollows, PendingWaits
<1>7. GrantBacked'
  <2> SUFFICES ASSUME NEW b \in grants', decision[b] # "yes"
               PROVE  \E g \in flights' : g.action = b /\ g.session /\ g.at = "granted" /\ Mine(g)
    BY <1>4 DEF GrantBacked
  <2>1. CASE b \in grants
    <3>1. PICK g \in flights : g.action = b /\ g.session /\ g.at = "granted" /\ Mine(g)
      BY <2>1, <1>1 DEF GrantBacked
    <3> QED BY <3>1, <1>3
  <2>2. CASE b \notin grants  BY <2>2, <1>2, <1>3, <1>5
  <2> QED BY <2>1, <2>2
<1>8. NoTwins'
  <2> SUFFICES ASSUME NEW g \in flights', NEW h \in flights', g.by = h.by, g.action = h.action
               PROVE  g = h
    BY DEF NoTwins
  <2>1. CASE g = new \/ h = new  BY <2>1, <1>1, <1>2, <1>3 DEF NoTwins
  <2>2. CASE g # new /\ h # new  BY <2>2, <1>1, <1>3 DEF NoTwins
  <2> QED BY <2>1, <2>2
<1>9. OwnsRecord'
  <2> SUFFICES ASSUME NEW g \in flights', Mine(g)
               PROVE  /\ record[g.action] = g.to
                      /\ g.to = "approved" => decision[g.action] = "open" /\ ~cancelled
    BY <1>4 DEF OwnsRecord
  <2>1. CASE g = new  BY <2>1, <1>1, <1>2 DEF OwnsRecord
  <2>2. CASE g # new  BY <2>2, <1>1, <1>3 DEF OwnsRecord
  <2> QED BY <2>1, <2>2
<1> QED BY <1>6, <1>7, <1>8, <1>9 DEF Records

-----------------------------------------------------------------------------
(* The part that is left: types, the hook, and what each finish came from. *)
Origins == TypeOK /\ HookOrder /\ Begun

LEMMA FlownType ==
  ASSUME NEW by \in Writers, NEW a \in Actions, NEW to \in Status, NEW session \in BOOLEAN
  PROVE  LET new == Flown(by, a, to, session)
         IN  /\ new \in Flight
             /\ new.by = by /\ new.action = a /\ new.to = to /\ new.session = session
BY DEF Flown, Flight

LEMMA ContinueKeeps ==
  ASSUME IInv, NEW f \in flights, Continue(f)
  PROVE  IInv'
<1> USE DEF Continue, outside
<1>1. TypeOK /\ HookOrder /\ Begun /\ f \in Flight /\ f.action \in Actions
  BY DEF IInv, Safe, TypeOK, Flight
<1>2. CASE Settle(f)
  <2>1. Records'  BY <1>2, SettleKeeps
  <2>2. TypeOK'  BY <1>1, <1>2 DEF TypeOK, Settle, Open
  <2>3. HookOrder'  BY <1>1, <1>2 DEF HookOrder, Settle, TypeOK
  <2>4. Begun'  BY <1>1, <1>2 DEF Begun, Settle
  <2> QED BY <2>1, <2>2, <2>3, <2>4 DEF IInv, Safe, Records, Origins
<1>3. CASE /\ f.at = "saved" /\ Mine(f) /\ ~cancelled
           /\ flights' = (flights \ {f}) \cup {[f EXCEPT !.at = "granted"]}
           /\ grants' = IF f.session THEN grants \cup {f.action} ELSE grants
           /\ UNCHANGED <<record, writer, stored, decision>>
  <2>1. Records'  BY <1>3, GrantKeeps
  <2>2. [f EXCEPT !.at = "granted"] \in Flight  BY <1>1 DEF Flight
  <2>3. TypeOK'  BY <1>1, <1>3, <2>2 DEF TypeOK, Open
  <2>4. HookOrder'  BY <1>1, <1>3 DEF HookOrder
  <2>5. Begun'
    <3> DEFINE new == [f EXCEPT !.at = "granted"]
    <3>1. new.by = f.by /\ new.action = f.action /\ new.to = f.to /\ new.session = f.session
      BY <1>1 DEF Flight
    <3>2. flights' = (flights \ {f}) \cup {new}  BY <1>3
    <3> HIDE DEF new
    <3> QED BY <1>1, <3>1, <3>2 DEF Begun
  <2> QED BY <2>1, <2>3, <2>4, <2>5 DEF IInv, Safe, Records, Origins
<1>4. CASE /\ f.at = "saved" /\ Mine(f) /\ ~cancelled /\ f.session /\ Fail(f.action)
           /\ flights' = flights \ {f} /\ UNCHANGED <<stored, grants>>
  <2>1. f.action \notin grants \/ decision[f.action] = "yes"
    BY <1>4 DEF IInv, Safe, GrantBacked, NoTwins, Mine
  <2>2. Records'  BY <1>1, <1>4, <2>1, ThrewKeeps DEF TypeOK
  <2>3. TypeOK'  BY <1>1, <1>4 DEF TypeOK, Fail, Open, Status, Writers
  <2>4. HookOrder'
    <3>1. record[f.action] = "approved"  BY <1>1, <1>4 DEF IInv, OwnsRecord, Begun
    <3> QED BY <1>1, <1>4, <3>1 DEF HookOrder, Fail, TypeOK
  <2>5. Begun'  BY <1>1, <1>4 DEF Begun
  <2> QED BY <2>2, <2>3, <2>4, <2>5 DEF IInv, Safe, Records, Origins
<1> QED BY <1>2, <1>3, <1>4 DEF GrantOrSettle

-----------------------------------------------------------------------------
(* What holds of whatever step begins a finish: the variables finish() leaves *)
(* alone keep their types, and only go forward.                               *)
Forward ==
  /\ alive = "run" /\ UNCHANGED <<alive, grants>>
  /\ clock' \in [Actions -> {"early", "late", "fired"}]
  /\ tool' \in [Actions -> {"none", "running", "over"}]
  /\ \A b \in Actions :
       /\ clock[b] = "fired" => clock'[b] = "fired"
       /\ tool[b] \in {"none", "over"} => tool'[b] = tool[b]
       /\ tool'[b] # "none" => decision[b] = "yes"
  /\ cancelled' \in BOOLEAN /\ (cancelled => cancelled')
  /\ ended \subseteq ended' /\ ended' \subseteq Cancellers
  /\ asked \subseteq asked' /\ asked' \subseteq Requests
  /\ consent \subseteq consent' /\ consent' \subseteq Actions

(* Who begins a finish, for what, and that it has not done so before. *)
Entitled(by, a, to, session) ==
  /\ by \in Writers \ {"none", "request"} /\ to \in Status \ {"none", "pending"}
  /\ session \in BOOLEAN /\ (session => to = "approved")
  /\ by \in Requests => to = "approved" /\ by \in asked' \ asked /\ a \in consent'
  /\ by \in Cancellers => to = "rejected" /\ by \in ended' \ ended
  /\ by = "timer" => to = "expired" /\ clock[a] # "fired" /\ clock'[a] = "fired"
  /\ by = "tool" => to \in {"executed", "failed"} /\ tool[a] # "over" /\ tool'[a] = "over"
  /\ by = "hook" => to \in {"rejected", "invalidated"} /\ hook.at # "closing"
  /\ hook' = IF by = "hook" THEN At("closing", a) ELSE hook
  /\ hook # At("saving", a) \/ by = "hook"

(* What it supersedes: nothing that matters, or an action that was decided or *)
(* whose runner is cancelled.                                                 *)
Supersedes(by, a, to) ==
  /\ decision[a] = "yes" \/ cancelled' \/ a \notin grants
  /\ cancelled' = cancelled \/ \A b \in Open : b = a
  /\ cancelled' /\ decision[a] = "open" => by \in Cancellers
  /\ to = "approved" => decision[a] = "open" /\ ~cancelled'

LEMMA BeginKeeps ==
  ASSUME IInv, NEW by, NEW a \in Actions, NEW to, NEW session,
         Begin(by, a, to, session), Forward, Entitled(by, a, to, session),
         Supersedes(by, a, to), stored[a] # "none", by = "hook" => Open = {}
  PROVE  IInv'
<1>1. TypeOK /\ HookOrder /\ Begun  BY DEF IInv, Safe
<1>2. /\ by \in Writers \ {"none", "request"} /\ to \in Status \ {"none", "pending"}
      /\ session \in BOOLEAN
  BY DEF Entitled
<1>3. \A f \in flights : ~(f.by = by /\ f.action = a)
  BY <1>1, <1>2 DEF Begun, Entitled, Writers, At
<1>4. CASE Wrote(by, a, to, session)
  <2> DEFINE new == Flown(by, a, to, session)
  <2>1. /\ new \in Flight /\ new.by = by /\ new.action = a /\ new.to = to /\ new.session = session
        /\ flights' = flights \cup {new}
    BY <1>2, <1>4, FlownType DEF Wrote
  <2> HIDE DEF new
  <2>2. Records'  BY <1>2, <1>3, <1>4, WroteKeeps DEF Forward, Supersedes
  <2>3. TypeOK'
    BY <1>1, <1>2, <1>4, <2>1 DEF TypeOK, Wrote, Forward, Entitled, Open, At
  <2>4. HookOrder'
    BY <1>1, <1>2, <1>4 DEF HookOrder, TypeOK, Wrote, Forward, Entitled, At
  <2>5. Begun'
    <3>1. ASSUME NEW f \in flights, f.by = "hook"
          PROVE  hook' = At("closing", f.action)
      BY <1>1, <3>1 DEF Begun, Entitled, At
    <3> QED BY <1>1, <1>2, <2>1, <3>1 DEF Begun, Forward, Entitled, TypeOK, Flight
  <2> QED BY <2>2, <2>3, <2>4, <2>5 DEF IInv, Safe, Records, Origins
<1>5. CASE Threw(a)
  <2>1. Fail(a) /\ UNCHANGED <<stored, flights>>  BY <1>5 DEF Threw
  <2>2. Records'  BY <2>1, ThrewKeeps DEF Forward, Supersedes
  <2>3. TypeOK'
    BY <1>1, <2>1 DEF TypeOK, Fail, Forward, Entitled, Open, At, Status, Writers
  <2>4. HookOrder'
    BY <1>1, <2>1 DEF HookOrder, TypeOK, Fail, Forward, Entitled, At
  <2>5. Begun'
    <3>1. ASSUME NEW f \in flights, f.by = "hook"
          PROVE  hook' = At("closing", f.action)
      BY <1>1, <3>1 DEF Begun, Entitled, At
    <3> QED BY <1>1, <2>1, <3>1 DEF Begun, Forward, Entitled, TypeOK, Flight
  <2> QED BY <2>2, <2>3, <2>4, <2>5 DEF IInv, Safe, Records, Origins
<1> QED BY <1>4, <1>5, BeginOutcomes

-----------------------------------------------------------------------------
(* The steps that begin a finish. *)
LEMMA ApproveKeeps ==
  ASSUME IInv, NEW r \in Requests, NEW a \in Actions, Approve(r, a), Approvable(a)
  PROVE  IInv'
<1>1. PICK session \in {FALSE} \cup {a \in Sessions} : Begin(r, a, "approved", session)
  BY DEF Approve
<1>2. TypeOK /\ HookOrder  BY DEF IInv, Safe
<1>3. a \notin grants /\ decision[a] = "open" /\ ~cancelled
  BY PendingUngranted DEF Approvable
<1>4. Forward  BY <1>2 DEF Forward, Approve, TypeOK
<1>5. Entitled(r, a, "approved", session)
  BY <1>2, <1>3 DEF Entitled, Approve, Writers, Cancellers, Status, TypeOK, HookOrder
<1>6. Supersedes(r, a, "approved")  BY <1>3 DEF Supersedes, Approve
<1>7. stored[a] # "none"  BY <1>2, <1>3 DEF HookOrder
<1> QED BY <1>1, <1>4, <1>5, <1>6, <1>7, BeginKeeps

LEMMA ExpireKeeps ==
  ASSUME IInv, NEW a \in Actions, Expire(a), record[a] = "pending"
  PROVE  IInv'
<1>1. TypeOK /\ HookOrder  BY DEF IInv, Safe
<1>2. a \notin grants /\ decision[a] = "open" /\ ~cancelled  BY PendingUngranted
<1>3. Begin("timer", a, "expired", FALSE)  BY DEF Expire
<1>4. Forward  BY <1>1 DEF Forward, Expire, TypeOK
<1>5. Entitled("timer", a, "expired", FALSE)
  BY <1>1, <1>2 DEF Entitled, Expire, Writers, Cancellers, Status, TypeOK, HookOrder
<1>6. Supersedes("timer", a, "expired")  BY <1>2 DEF Supersedes, Expire
<1>7. stored[a] # "none"  BY <1>1, <1>2 DEF HookOrder
<1> QED BY <1>3, <1>4, <1>5, <1>6, <1>7, BeginKeeps

LEMMA CancelKeeps ==
  ASSUME IInv, NEW c \in Cancellers, Cancel(c), NEW a \in Open, Begin(c, a, "rejected", FALSE)
  PROVE  IInv'
<1>1. TypeOK /\ HookOrder /\ a \in Actions /\ decision[a] = "open"
  BY DEF IInv, Safe, Open
<1>2. \A b \in Open : b = a  BY <1>1 DEF TypeOK, At
<1>3. Forward  BY <1>1 DEF Forward, Cancel, TypeOK, outside
<1>4. Entitled(c, a, "rejected", FALSE)
  BY <1>1 DEF Entitled, Cancel, Writers, Cancellers, Status, HookOrder
<1>5. Supersedes(c, a, "rejected")  BY <1>2 DEF Supersedes, Cancel
<1>6. stored[a] # "none"  BY <1>1 DEF HookOrder
<1> QED BY <1>1, <1>3, <1>4, <1>5, <1>6, BeginKeeps DEF Cancellers

LEMMA AwaitKeeps ==
  ASSUME IInv, NEW a \in Actions, Await(a), cancelled
  PROVE  IInv'
<1>1. TypeOK /\ HookOrder  BY DEF IInv, Safe
<1>2. Begin("hook", a, "rejected", FALSE) /\ hook = At("saving", a)  BY DEF Await
<1>3. Forward  BY <1>1 DEF Forward, Await, TypeOK, outside
<1>4. Entitled("hook", a, "rejected", FALSE)
  BY <1>2 DEF Entitled, Await, Writers, Cancellers, Status, At
<1>5. Supersedes("hook", a, "rejected")  BY <1>1, <1>2 DEF Supersedes, HookOrder, Await
<1>6. stored[a] # "none"  BY <1>1, <1>2 DEF HookOrder
<1>7. Open = {}  BY <1>1, <1>2 DEF TypeOK, At
<1> QED BY <1>2, <1>3, <1>4, <1>5, <1>6, <1>7, BeginKeeps

LEMMA RecheckKeeps ==
  ASSUME IInv, NEW a \in Actions, Recheck(a), Begin("hook", a, "invalidated", FALSE),
         hook' = At("closing", a), UNCHANGED tool
  PROVE  IInv'
<1>1. TypeOK /\ HookOrder  BY DEF IInv, Safe
<1>2. hook = At("rechecking", a) /\ decision[a] = "yes"  BY <1>1 DEF Recheck, HookOrder
<1>3. Forward  BY <1>1 DEF Forward, Recheck, TypeOK
<1>4. Entitled("hook", a, "invalidated", FALSE)
  BY <1>2 DEF Entitled, Writers, Cancellers, Status, At
<1>5. Supersedes("hook", a, "invalidated")  BY <1>2 DEF Supersedes, Recheck
<1>6. stored[a] # "none"  BY <1>1, <1>2 DEF HookOrder
<1>7. Open = {}  BY <1>1, <1>2 DEF TypeOK, At
<1> QED BY <1>3, <1>4, <1>5, <1>6, <1>7, BeginKeeps

LEMMA ToolEndsKeeps ==
  ASSUME IInv, NEW a \in Actions, ToolEnds(a), record[a] = "approved"
  PROVE  IInv'
<1>1. TypeOK /\ HookOrder  BY DEF IInv, Safe
<1>2. PICK to \in {"executed", "failed"} : Begin("tool", a, to, FALSE)  BY DEF ToolEnds
<1>3. decision[a] = "yes"  BY <1>1 DEF ToolEnds, TypeOK
<1>4. Forward  BY <1>1, <1>3 DEF Forward, ToolEnds, TypeOK
<1>5. Entitled("tool", a, to, FALSE)
  BY <1>1, <1>3 DEF Entitled, ToolEnds, Writers, Cancellers, Status, TypeOK, HookOrder, At
<1>6. Supersedes("tool", a, to)  BY <1>3 DEF Supersedes, ToolEnds
<1>7. stored[a] # "none"  BY <1>1, <1>3 DEF HookOrder
<1> QED BY <1>2, <1>4, <1>5, <1>6, <1>7, BeginKeeps

-----------------------------------------------------------------------------
(* The steps that leave the records alone, or take one up. *)
Alone == UNCHANGED <<record, writer, stored, decision, flights>>

LEMMA AloneKeeps ==
  ASSUME IInv, Alone, UNCHANGED <<alive, cancelled, hook, grants>>, Forward
  PROVE  IInv'
<1>1. Records'
  BY DEF IInv, Safe, Records, Alone, DiskFollows, GrantBacked, PendingWaits, NoTwins,
         OwnsRecord, Mine, Open
<1>2. TypeOK'  BY DEF IInv, Safe, TypeOK, Alone, Forward, Open
<1>3. HookOrder'  BY DEF IInv, HookOrder, Alone, Forward
<1>4. Begun'  BY DEF IInv, Safe, TypeOK, Begun, Alone, Forward, Flight
<1> QED BY <1>1, <1>2, <1>3, <1>4 DEF IInv, Safe, Records, Origins

(* A cancel that finds nobody waiting. *)
LEMMA IdleCancelKeeps ==
  ASSUME IInv, NEW c \in Cancellers, Cancel(c), Open = {}
  PROVE  IInv'
<1>1. Alone /\ UNCHANGED <<alive, clock, tool, asked, consent, hook, grants>> /\ cancelled'
  BY DEF Cancel, Alone, outside
<1>2. Records'
  BY <1>1 DEF IInv, Safe, Records, Alone, DiskFollows, GrantBacked, PendingWaits, NoTwins,
              OwnsRecord, Mine, Open, TypeOK, Flight
<1>3. TypeOK'  BY <1>1 DEF IInv, Safe, TypeOK, Alone, Cancel, Open
<1>4. HookOrder'  BY <1>1 DEF IInv, HookOrder, Alone
<1>5. Begun'  BY <1>1 DEF IInv, Begun, Alone, Cancel
<1> QED BY <1>2, <1>3, <1>4, <1>5 DEF IInv, Safe, Records, Origins

LEMMA RequestKeeps ==
  ASSUME IInv, NEW a \in Actions, Request(a)
  PROVE  IInv'
<1> USE DEF Request, outside
<1>1. TypeOK /\ HookOrder  BY DEF IInv, Safe
<1>2. Records'
  BY <1>1 DEF IInv, Safe, Records, DiskFollows, GrantBacked, PendingWaits, NoTwins,
              OwnsRecord, Mine, HookOrder, TypeOK
<1>3. TypeOK'  BY <1>1 DEF TypeOK, Status, Idle, At, Open
<1>4. HookOrder'  BY <1>1 DEF HookOrder, TypeOK, At
<1>5. Begun'  BY DEF IInv, Begun, Idle, At
<1> QED BY <1>2, <1>3, <1>4, <1>5 DEF IInv, Safe, Records, Origins

LEMMA KnownKeeps ==
  ASSUME IInv, NEW a \in Actions, Await(a), ~cancelled
  PROVE  IInv'
<1> USE DEF Await, outside
<1>1. TypeOK /\ HookOrder /\ Begun  BY DEF IInv, Safe
<1>2. hook = At("saving", a) /\ stored[a] = "pending" /\ decision[a] = "none"
  BY <1>1 DEF HookOrder
<1>3. \A f \in flights : f.action \in Actions /\ (Mine(f)' => f.action # a /\ Mine(f))
  BY <1>1 DEF TypeOK, Flight, Begun, Mine
<1>4. DiskFollows' /\ PendingWaits' /\ NoTwins'
  BY <1>1, <1>2 DEF IInv, Safe, DiskFollows, PendingWaits, NoTwins, TypeOK
<1>5. OwnsRecord'
  BY <1>1, <1>3 DEF IInv, OwnsRecord, TypeOK
<1>6. GrantBacked'
  <2> SUFFICES ASSUME NEW b \in grants, decision'[b] # "yes"
               PROVE  \E f \in flights : f.action = b /\ f.session /\ f.at = "granted" /\ Mine(f)'
    BY DEF GrantBacked
  <2>1. decision[b] # "yes"  BY <1>1, <1>2 DEF TypeOK
  <2>2. PICK f \in flights : f.action = b /\ f.session /\ f.at = "granted" /\ Mine(f)
    BY <2>1 DEF IInv, Safe, GrantBacked
  <2>3. f.to = "approved"  BY <2>2, <1>1 DEF Begun
  <2>4. f.action # a  BY <2>2, <2>3, <1>2 DEF IInv, OwnsRecord
  <2> QED BY <2>2, <2>4, <1>1 DEF Mine, TypeOK
<1>7. \A b \in Actions : decision[b] # "open"
  BY <1>1, <1>2, OnePlace DEF TypeOK, Open
<1>8. TypeOK'
  <2>1. hook' \in [at : {"saving", "waiting", "rechecking", "closing"}, action : Actions]
    BY <1>7 DEF At
  <2> QED BY <1>1, <1>2, <1>7, <2>1 DEF TypeOK, Status, Writers, Open
<1>9. HookOrder'
  <2>1. \A b \in Actions :
          /\ \A x \in {"saving", "rechecking", "closing"} : hook' # At(x, b)
          /\ hook' = At("waiting", b) => b = a
    BY DEF At
  <2>2. tool[a] = "none"  BY <1>1, <1>2 DEF TypeOK
  <2> QED BY <1>1, <1>2, <2>1, <2>2 DEF HookOrder, TypeOK
<1>10. Begun'
  <2>1. \A f \in flights : f.by # "hook"  BY <1>1, <1>2, OnePlace DEF Begun
  <2> QED BY <1>1, <2>1 DEF Begun
<1> QED BY <1>4, <1>5, <1>6, <1>8, <1>9, <1>10 DEF IInv, Safe

LEMMA BlockedKeeps ==
  ASSUME IInv, NEW a \in Actions, Blocked(a)
  PROVE  IInv'
<1> USE DEF Blocked, outside
<1>1. TypeOK /\ HookOrder /\ Begun  BY DEF IInv, Safe
<1>2. \A b \in Actions : decision'[b] = decision[b] \/ (decision[b] = "none" /\ decision'[b] = "no")
  BY <1>1 DEF TypeOK
<1>3. Records'
  BY <1>1, <1>2 DEF IInv, Safe, Records, DiskFollows, GrantBacked, PendingWaits, NoTwins,
                    OwnsRecord, Mine, TypeOK, Flight
<1>4. TypeOK'  BY <1>1 DEF TypeOK, Idle, At, Open
<1>5. HookOrder'  BY <1>1, <1>2 DEF HookOrder, TypeOK, Idle, At
<1>6. Begun'  BY <1>1 DEF Begun
<1> QED BY <1>3, <1>4, <1>5, <1>6 DEF IInv, Safe, Records

(* The hook moves on, and perhaps starts the tool of an action it had a yes for. *)
LEMMA HookKeeps ==
  ASSUME IInv, NEW a \in Actions, Decided(a) \/ Recheck(a), Alone
  PROVE  IInv'
<1>1. TypeOK /\ HookOrder /\ Begun  BY DEF IInv, Safe
<1>2. /\ UNCHANGED <<alive, clock, cancelled, ended, asked, consent, grants>>
      /\ hook = At("waiting", a) \/ hook = At("rechecking", a)
      /\ tool[a] = "none"
      /\ \/ hook' = Idle /\ UNCHANGED tool
         \/ hook' = Idle /\ tool' = [tool EXCEPT ![a] = "running"] /\ decision[a] = "yes"
         \/ hook' \in {At("rechecking", a), At("closing", a)} /\ decision[a] = "yes" /\ UNCHANGED tool
  BY <1>1 DEF Decided, Recheck, outside, HookOrder
<1>3. \A b \in Actions : decision[b] # "open"
  <2>1. decision[a] # "open"  BY <1>1 DEF Decided, Recheck, HookOrder
  <2> QED BY <1>1, <1>2, <2>1, OnePlace DEF TypeOK, Open
<1>4. Records'
  BY <1>2 DEF IInv, Safe, Records, Alone, DiskFollows, GrantBacked, PendingWaits, NoTwins,
              OwnsRecord, Mine
<1>5. TypeOK'
  <2>1. hook' \in {Idle} \cup [at : {"saving", "waiting", "rechecking", "closing"}, action : Actions]
    BY <1>2 DEF At
  <2> QED BY <1>1, <1>2, <1>3, <2>1 DEF TypeOK, Alone, Open
<1>6. HookOrder'
  <2>1. alive = "run"  BY DEF Decided, Recheck
  <2>2. \A b \in Actions :
          /\ hook' # At("saving", b) /\ hook' # At("waiting", b)
          /\ hook' = At("rechecking", b) => UNCHANGED tool
          /\ hook' = At("rechecking", b) \/ hook' = At("closing", b) => b = a /\ decision[a] = "yes"
    BY <1>2 DEF At, Idle
  <2> QED BY <1>1, <1>2, <2>1, <2>2 DEF HookOrder, Alone
<1>7. Begun'
  <2>1. \A f \in flights : f.by # "hook"  BY <1>1, <1>2, OnePlace DEF Begun
  <2>2. \A f \in flights : tool[f.action] = "over" => tool'[f.action] = "over"
    BY <1>1, <1>2 DEF TypeOK, Flight
  <2> QED BY <1>1, <1>2, <2>1, <2>2 DEF Begun, Alone
<1> QED BY <1>4, <1>5, <1>6, <1>7 DEF IInv, Safe, Records

(* A crash forgets all but the disk, and nothing runs until the next start. *)
LEMMA DownKeeps ==
  ASSUME IInv, Crash \/ Start \/ \E a \in Actions : Sweep(a)
  PROVE  IInv'
<1>1. TypeOK /\ HookOrder /\ Begun  BY DEF IInv, Safe
<1>2. CASE Crash
  <2> USE <1>2 DEF Crash
  <2>1. Records'
    BY <1>1 DEF Records, DiskFollows, GrantBacked, PendingWaits, NoTwins, OwnsRecord, TypeOK
  <2>2. TypeOK'  BY <1>1 DEF TypeOK, Status, Writers, Idle, Open
  <2>3. HookOrder'  BY <1>1 DEF HookOrder, TypeOK, Idle, At
  <2>4. Begun'  BY DEF Begun
  <2> QED BY <2>1, <2>2, <2>3, <2>4 DEF IInv, Safe, Records
<1>3. ASSUME Start \/ \E a \in Actions : Sweep(a)  PROVE IInv'
  <2>1. /\ alive # "run" /\ alive' \in {"down", "swept"} /\ stored' \in [Actions -> Status]
        /\ UNCHANGED <<record, writer, decision, clock, cancelled, ended, flights, hook,
                       tool, asked, consent, grants>>
        /\ \A b \in Actions : stored'[b] = "none" => stored[b] = "none"
    BY <1>1, <1>3 DEF Start, Sweep, outside, TypeOK, Status
  <2>2. flights = {} /\ hook.at = "idle"  BY <1>1, <2>1 DEF Begun, HookOrder
  <2>3. Records'
    BY <2>1, <2>2 DEF IInv, Safe, Records, DiskFollows, GrantBacked, PendingWaits, NoTwins,
                      OwnsRecord, Mine
  <2>4. TypeOK'  BY <1>1, <2>1 DEF TypeOK, Open
  <2>5. HookOrder'  BY <1>1, <2>1, <2>2 DEF HookOrder, At
  <2>6. Begun'  BY <2>1, <2>2 DEF Begun
  <2> QED BY <2>3, <2>4, <2>5, <2>6 DEF IInv, Safe, Records
<1> QED BY <1>2, <1>3

-----------------------------------------------------------------------------
LEMMA NextKeeps ==
  ASSUME IInv, [Next]_vars
  PROVE  IInv'
<1>1. ASSUME NEW f \in flights, Continue(f)  PROVE IInv'
  BY <1>1, ContinueKeeps
<1>2. ASSUME NEW a \in Actions, Request(a)  PROVE IInv'
  BY <1>2, RequestKeeps
<1>3. ASSUME NEW a \in Actions, HookStep(a)  PROVE IInv'
  <2>1. CASE Await(a)  BY <2>1, AwaitKeeps, KnownKeeps
  <2>2. CASE Blocked(a)  BY <2>2, BlockedKeeps
  <2>3. CASE Decided(a)  BY <2>3, HookKeeps DEF Decided, Alone, outside
  <2>4. CASE Recheck(a)  BY <2>4, RecheckKeeps, HookKeeps DEF Recheck, Alone
  <2> QED BY <1>3, <2>1, <2>2, <2>3, <2>4 DEF HookStep
<1>4. ASSUME NEW a \in Actions, ToolEnds(a)  PROVE IInv'
  <2>1. CASE record[a] = "approved"  BY <1>4, <2>1, ToolEndsKeeps
  <2>2. CASE record[a] # "approved"
    <3>1. Alone /\ UNCHANGED <<alive, cancelled, hook, grants>>  BY <1>4, <2>2 DEF ToolEnds, Alone
    <3>2. Forward  BY <1>4 DEF IInv, Safe, Forward, ToolEnds, TypeOK
    <3> QED BY <3>1, <3>2, AloneKeeps
  <2> QED BY <2>1, <2>2
<1>5. ASSUME NEW a \in Actions, Pass(a)  PROVE IInv'
  <2>1. Alone /\ UNCHANGED <<alive, cancelled, hook, grants>>  BY <1>5 DEF Pass, Alone
  <2>2. Forward  BY <1>5 DEF IInv, Safe, Forward, Pass, TypeOK
  <2> QED BY <2>1, <2>2, AloneKeeps
<1>6. ASSUME NEW a \in Actions, Expire(a)  PROVE IInv'
  <2>1. CASE record[a] = "pending"  BY <1>6, <2>1, ExpireKeeps
  <2>2. CASE record[a] # "pending"
    <3>1. Alone /\ UNCHANGED <<alive, cancelled, hook, grants>>  BY <1>6, <2>2 DEF Expire, Alone
    <3>2. Forward  BY <1>6 DEF IInv, Safe, Forward, Expire, TypeOK
    <3> QED BY <3>1, <3>2, AloneKeeps
  <2> QED BY <2>1, <2>2
<1>7. ASSUME NEW a \in Actions, NEW r \in Requests, Approve(r, a)  PROVE IInv'
  <2>1. CASE Approvable(a)  BY <1>7, <2>1, ApproveKeeps
  <2>2. CASE ~Approvable(a)
    <3>1. Alone /\ UNCHANGED <<alive, cancelled, hook, grants>>  BY <1>7, <2>2 DEF Approve, Alone
    <3>2. Forward  BY <1>7, <2>2 DEF IInv, Safe, Forward, Approve, TypeOK
    <3> QED BY <3>1, <3>2, AloneKeeps
  <2> QED BY <2>1, <2>2
<1>8. ASSUME NEW c \in Cancellers, Cancel(c)  PROVE IInv'
  <2>1. CASE Open = {}  BY <1>8, <2>1, IdleCancelKeeps
  <2>2. CASE Open # {}
    <3>1. PICK a \in Open : Begin(c, a, "rejected", FALSE)  BY <1>8, <2>2 DEF Cancel
    <3> QED BY <1>8, <3>1, CancelKeeps
  <2> QED BY <2>1, <2>2
<1>9. ASSUME Crash \/ Start \/ \E a \in Actions : Sweep(a)  PROVE IInv'
  BY <1>9, DownKeeps
<1>10. CASE UNCHANGED vars
  BY <1>10 DEF vars, IInv, Safe, TypeOK, DiskFollows, GrantBacked, HookOrder, PendingWaits,
               Begun, NoTwins, OwnsRecord, Mine, Open
<1> QED BY <1>1, <1>2, <1>3, <1>4, <1>5, <1>6, <1>7, <1>8, <1>9, <1>10 DEF Next

LEMMA InitHolds ==
  ASSUME Init
  PROVE  IInv
BY DEF Init, IInv, Safe, TypeOK, DiskFollows, GrantBacked, HookOrder, PendingWaits, Begun,
       NoTwins, OwnsRecord, Open, Idle, At, Status, Writers

LEMMA Invariant == Spec => []IInv
BY InitHolds, NextKeeps, PTL DEF Spec

(* Whatever approvals, the timer, cancels, failing writes, refused grants and *)
(* a crash do to each other, memory and disk part only over an action that    *)
(* failed, and no session grant is left without authority.                    *)
THEOREM ConfirmationsSafe == Spec => []Safe
<1>1. IInv => Safe  BY DEF IInv
<1> QED BY <1>1, Invariant, PTL

-----------------------------------------------------------------------------
(* Step by step, the confirmations do what ActionDecision promises.          *)
Overdue == {a \in Actions : clock[a] # "early"}

(* Beginning a finish is no verdict, or a no to an open action whose save failed. *)
LEMMA BeginDecides ==
  ASSUME TypeOK, NEW by, NEW a \in Actions, NEW to, NEW session, Begin(by, a, to, session)
  PROVE  decision' = decision
         \/ (decision[a] = "open" /\ decision' = [decision EXCEPT ![a] = "no"])
BY DEF Begin, Fail, TypeOK

LEMMA NoOrStutter ==
  ASSUME NEW a \in Actions, UNCHANGED <<consent, Overdue, cancelled>>,
         decision' = decision
           \/ (decision[a] \in {"none", "open"} /\ decision' = [decision EXCEPT ![a] = "no"])
  PROVE  [D!Next]_(D!vars)
BY DEF D!Next, D!No, D!vars, Overdue

(* Settling an approval is a yes: it owns the record, so it has its consent and *)
(* no cancel came before.                                                        *)
LEMMA ContinueDecides ==
  ASSUME IInv, NEW f \in flights, Continue(f)
  PROVE  [D!Next]_(D!vars)
<1>1. TypeOK /\ Begun /\ OwnsRecord /\ f.action \in Actions
  BY DEF IInv, Safe, TypeOK, Flight
<1>2. UNCHANGED <<consent, Overdue, cancelled>>  BY DEF Continue, outside, Overdue
<1>3. CASE Settle(f) /\ Mine(f) /\ decision[f.action] = "open" /\ f.to = "approved"
  <2>1. f.by \in Requests
    BY <1>1, <1>3 DEF Begun, TypeOK, Flight, Writers
  <2>2. f.action \in consent /\ ~cancelled  BY <1>1, <1>3, <2>1 DEF Begun, OwnsRecord
  <2>3. decision' = [decision EXCEPT ![f.action] = "yes"]  BY <1>3 DEF Settle
  <2>4. D!Yes(f.action)  BY <1>2, <1>3, <2>2, <2>3 DEF D!Yes, Overdue
  <2> QED BY <1>1, <2>4 DEF D!Next
<1>4. CASE Settle(f) /\ ~(Mine(f) /\ decision[f.action] = "open" /\ f.to = "approved")
  <2>1. decision' = decision
        \/ (decision[f.action] = "open" /\ decision' = [decision EXCEPT ![f.action] = "no"])
    BY <1>1, <1>4 DEF Settle, TypeOK
  <2> QED BY <1>1, <1>2, <2>1, NoOrStutter
<1>5. CASE ~Settle(f)
  <2>1. decision' = decision
        \/ (decision[f.action] = "open" /\ decision' = [decision EXCEPT ![f.action] = "no"])
    BY <1>1, <1>5 DEF Continue, GrantOrSettle, Fail, TypeOK
  <2> QED BY <1>1, <1>2, <2>1, NoOrStutter
<1> QED BY <1>3, <1>4, <1>5

(* A confirm request that finds the action open and in time is the consent.  *)
LEMMA ApproveDecides ==
  ASSUME IInv, NEW r \in Requests, NEW a \in Actions, Approve(r, a)
  PROVE  [D!Next]_(D!vars)
<1>1. TypeOK  BY DEF IInv, Safe
<1>2. CASE Approvable(a)
  <2>1. decision[a] = "open" /\ ~cancelled /\ a \notin Overdue
    BY <1>2, PendingUngranted DEF Approvable, Overdue
  <2>2. PICK session : Begin(r, a, "approved", session)  BY <1>2 DEF Approve
  <2>3. D!Consent(a)
    BY <1>1, <1>2, <2>1, <2>2, BeginDecides DEF D!Consent, Approve, Overdue
  <2> QED BY <2>3 DEF D!Next
<1>3. CASE ~Approvable(a)
  BY <1>3 DEF Approve, D!vars
<1> QED BY <1>2, <1>3

LEMMA HookDecides ==
  ASSUME IInv, NEW a \in Actions, HookStep(a)
  PROVE  [D!Next]_(D!vars)
<1>1. TypeOK /\ HookOrder  BY DEF IInv, Safe
<1>2. UNCHANGED <<consent, Overdue>> /\ UNCHANGED cancelled
  BY DEF HookStep, Await, Blocked, Decided, Recheck, outside, Overdue
<1>3. CASE Await(a) /\ ~cancelled
  <2>1. decision[a] = "none"  BY <1>1, <1>3 DEF Await, HookOrder
  <2>2. D!Ask(a)  BY <1>2, <1>3, <2>1 DEF D!Ask, Await, Overdue
  <2> QED BY <2>2 DEF D!Next
<1>4. CASE (Await(a) /\ cancelled) \/ Recheck(a)
  <2>1. decision' = decision
        \/ (decision[a] = "open" /\ decision' = [decision EXCEPT ![a] = "no"])
    BY <1>1, <1>4, BeginDecides DEF Await, Recheck
  <2> QED BY <1>2, <2>1, NoOrStutter
<1>5. CASE Blocked(a) \/ Decided(a)
  <2>1. decision' = decision
        \/ (decision[a] = "none" /\ decision' = [decision EXCEPT ![a] = "no"])
    BY <1>1, <1>5 DEF Blocked, Decided, TypeOK
  <2> QED BY <1>2, <2>1, NoOrStutter
<1> QED BY <1>3, <1>4, <1>5 DEF HookStep

LEMMA ClockDecides ==
  ASSUME IInv, NEW a \in Actions, Pass(a) \/ Expire(a)
  PROVE  [D!Next]_(D!vars)
<1>1. TypeOK  BY DEF IInv, Safe
<1>2. CASE Pass(a)
  <2>1. Overdue' = Overdue \cup {a}  BY <1>1, <1>2 DEF Pass, Overdue, TypeOK
  <2>2. D!Pass(a)  BY <1>2, <2>1 DEF D!Pass, Pass, Overdue
  <2> QED BY <2>2 DEF D!Next
<1>3. CASE Expire(a)
  <2>1. UNCHANGED <<consent, Overdue, cancelled>>  BY <1>1, <1>3 DEF Expire, Overdue, TypeOK
  <2>2. decision' = decision
        \/ (decision[a] = "open" /\ decision' = [decision EXCEPT ![a] = "no"])
    BY <1>1, <1>3, BeginDecides DEF Expire
  <2> QED BY <2>1, <2>2, NoOrStutter
<1> QED BY <1>2, <1>3

(* A cancel, and a crash with it, refuses what is open, at once or later.    *)
LEMMA CancelDecides ==
  ASSUME IInv, Crash \/ \E c \in Cancellers : Cancel(c)
  PROVE  [D!Next]_(D!vars)
<1>1. TypeOK  BY DEF IInv, Safe
<1>2. cancelled' = TRUE /\ UNCHANGED <<consent, Overdue>>
  BY DEF Crash, Cancel, outside, Overdue
<1>3. \E refused \in SUBSET {a \in Actions : decision[a] = "open"} :
        decision' = [a \in Actions |-> IF a \in refused THEN "no" ELSE decision[a]]
  <2>1. CASE Crash
    <3>1. decision' = [a \in Actions |-> IF a \in Open THEN "no" ELSE decision[a]]
      BY <2>1 DEF Crash, Open
    <3> QED BY <3>1 DEF Open
  <2>2. CASE decision' = decision
    <3>1. decision' = [a \in Actions |-> IF a \in {} THEN "no" ELSE decision[a]]
      BY <1>1, <2>2 DEF TypeOK
    <3> QED BY <3>1
  <2>3. CASE ~Crash /\ decision' # decision
    <3>1. PICK a \in Open : decision' = [decision EXCEPT ![a] = "no"]
      BY <1>1, <2>3, BeginDecides DEF Cancel, Open
    <3>2. decision' = [b \in Actions |-> IF b \in {a} THEN "no" ELSE decision[b]]
      BY <1>1, <3>1 DEF TypeOK
    <3> QED BY <3>2 DEF Open
  <2> QED BY <2>1, <2>2, <2>3
<1>4. D!Cancel  BY <1>2, <1>3 DEF D!Cancel, Overdue
<1> QED BY <1>4 DEF D!Next

LEMMA NextDecides ==
  ASSUME IInv, [Next]_vars
  PROVE  [D!Next]_(D!vars)
<1>1. ASSUME NEW a \in Actions, Request(a) \/ Sweep(a)  PROVE [D!Next]_(D!vars)
  BY <1>1 DEF Request, Sweep, outside, D!vars
<1>2. ASSUME NEW a \in Actions, ToolEnds(a)  PROVE [D!Next]_(D!vars)
  <2>1. UNCHANGED <<consent, Overdue, cancelled>>  BY <1>2 DEF ToolEnds, Overdue
  <2>2. decision' = decision
        \/ (decision[a] = "open" /\ decision' = [decision EXCEPT ![a] = "no"])
    BY <1>2, BeginDecides DEF IInv, Safe, ToolEnds
  <2> QED BY <2>1, <2>2, NoOrStutter
<1>3. CASE Start \/ UNCHANGED vars
  BY <1>3 DEF Start, vars, D!vars
<1> QED
  BY <1>1, <1>2, <1>3, ContinueDecides, ApproveDecides, HookDecides, ClockDecides, CancelDecides
  DEF Next

(* One verdict for each action; a yes only with a consent that was given while  *)
(* the action was open and in time, and never after a cancel: what the hook and *)
(* the user see of confirmations.ts is what ActionDecision promises.            *)
THEOREM DecisionImplemented == Spec => ImplementsDecision
<1>1. Init => D!Init  BY DEF Init, D!Init
<1>2. IInv /\ [Next]_vars => [D!Next]_(D!vars)  BY NextDecides
<1> QED BY <1>1, <1>2, Invariant, PTL DEF Spec, ImplementsDecision, D!Spec

=============================================================================
