------------------------------- MODULE Streams -------------------------------
(***************************************************************************)
(* One-time tickets for event streams and downloads, and the streams that  *)
(* are open.  An account changes while its tickets are out and its streams *)
(* open: accountChanged revokes the first and closes all of the second.    *)
(***************************************************************************)
EXTENDS Naturals, FiniteSets

CONSTANTS
  Users, Workspaces, Resources,
  Ids,                  \* the tickets ever issued: random, never used again
  Conns,
  MaxActive, MaxOfOne,  \* tickets out: of all (10 000), of one user (200)
  MaxFaults             \* bound

VARIABLES
  user,      \* each user: enabled, and in which workspace
  claims,    \* what each ticket stands for, Unissued before it is out, then Gone
  stale,     \* tickets whose time is over
  count,     \* perPrincipal: the tickets that are out of a user in a workspace
  opened,    \* how often each ticket opened something
  stream,    \* the principal of each open stream, or Closed
  uncut,     \* users that were changed by a save that reported a failure
  faults

vars == <<user, claims, stale, count, opened, stream, uncut, faults>>

Kinds == {"events", "download"}
Unissued == [kind |-> "unissued"]
Gone == [kind |-> "gone"]
Closed == [ws |-> "none"]

Out == {i \in Ids : claims[i].kind \in Kinds}
Principals == [u : Users, ws : Workspaces]
Principal(u) == [u |-> u, ws |-> user[u].ws]
ValidPrincipal(p) == user[p.u].on /\ user[p.u].ws = p.ws

Init ==
  /\ \E w \in [Users -> Workspaces] : user = [u \in Users |-> [on |-> TRUE, ws |-> w[u]]]
  /\ claims = [i \in Ids |-> Unissued] /\ stale = {}
  /\ count = [p \in Principals |-> 0]
  /\ opened = [i \in Ids |-> 0]
  /\ stream = [c \in Conns |-> Closed] /\ uncut = {} /\ faults = 0

-----------------------------------------------------------------------------
OfPrincipal(p, ids) == {i \in ids : claims[i].of = p}

(* delete and releasePrincipalSlot, for each of these tickets               *)
Without(ids) == [i \in Ids |-> IF i \in ids THEN Gone ELSE claims[i]]
Left(ids) == [p \in Principals |-> count[p] - Cardinality(OfPrincipal(p, ids))]
Take(ids) == claims' = Without(ids) /\ count' = Left(ids) /\ stale' = stale \ ids

(* Expired tickets go first; at a limit nothing is issued.                  *)
Issue(u, kind, res) ==
  LET me == Principal(u)
      full == Cardinality(Out \ stale) >= MaxActive \/ Left(stale)[me] >= MaxOfOne
  IN /\ user[u].on
     /\ IF full THEN Take(stale)
        ELSE \E i \in Ids :
               /\ claims[i] = Unissued /\ \A j \in Ids : j < i => claims[j] # Unissued
               /\ claims' = [Without(stale) EXCEPT ![i] = [kind |-> kind, res |-> res, of |-> me]]
               /\ count' = [Left(stale) EXCEPT ![me] = @ + 1]
               /\ stale' = {}
     /\ UNCHANGED <<user, opened, stream, uncut, faults>>

Fits(i, kind, res) == i \in Out \ stale /\ claims[i].kind = kind /\ claims[i].res = res

(* A ticket is taken whether or not it fits what it is presented for.       *)
Consume(i, kind, res) == Take({i} \cap Out)

(* A download, or an attach to the hub, for the principal of the ticket.    *)
Present(i, kind, res, c) ==
  /\ stream[c] = Closed
  /\ Consume(i, kind, res)
  /\ IF Fits(i, kind, res) /\ ValidPrincipal(claims[i].of)
     THEN /\ opened' = [opened EXCEPT ![i] = @ + 1]
          /\ stream' = IF kind = "events" THEN [stream EXCEPT ![c] = claims[i].of] ELSE stream
     ELSE UNCHANGED <<opened, stream>>
  /\ UNCHANGED <<user, uncut, faults>>

(* A stream of a session, without a ticket.                                 *)
Attach(u, c) ==
  /\ user[u].on /\ stream[c] = Closed
  /\ stream' = [stream EXCEPT ![c] = Principal(u)]
  /\ UNCHANGED <<user, claims, stale, count, opened, uncut, faults>>

(* The client closes, or a write fails.                                     *)
Detach(c) ==
  /\ stream[c] # Closed
  /\ stream' = [stream EXCEPT ![c] = Closed]
  /\ UNCHANGED <<user, claims, stale, count, opened, uncut, faults>>

Expire(i) ==
  /\ i \in Out \ stale /\ stale' = stale \cup {i}
  /\ UNCHANGED <<user, claims, count, opened, stream, uncut, faults>>

(* The account is changed, and accountChanged follows, unless the save      *)
(* failed after it had replaced the file.                                   *)
Change(u, on, ws) ==
  /\ user' = [user EXCEPT ![u] = [on |-> on, ws |-> ws]]
  /\ \/ /\ Take({i \in Out : claims[i].of.u = u})
        /\ stream' = [c \in Conns |-> Closed]
        /\ uncut' = uncut \ {u} /\ UNCHANGED faults
     \/ /\ faults < MaxFaults /\ faults' = faults + 1
        /\ uncut' = uncut \cup {u} /\ UNCHANGED <<claims, count, stale, stream>>
  /\ UNCHANGED opened

Next ==
  \/ \E u \in Users, kind \in Kinds, res \in Resources : Issue(u, kind, res)
  \/ \E i \in Ids, kind \in Kinds, res \in Resources, c \in Conns : Present(i, kind, res, c)
  \/ \E u \in Users, c \in Conns : Attach(u, c)
  \/ \E c \in Conns : Detach(c)
  \/ \E i \in Ids : Expire(i)
  \/ \E u \in Users, on \in BOOLEAN, ws \in Workspaces : Change(u, on, ws)

Spec == Init /\ [][Next]_vars

-----------------------------------------------------------------------------
(* The count of a user is the number of his tickets, however they went, so  *)
(* the limits are neither passed nor reached too early: tickets.ts:73.      *)
CountsExact ==
  /\ \A p \in Principals : count[p] = Cardinality(OfPrincipal(p, Out)) /\ count[p] <= MaxOfOne
  /\ Cardinality(Out) <= MaxActive

(* A ticket opens at most one stream or download.                           *)
OpensOnce == \A i \in Ids : opened[i] <= 1 /\ (opened[i] = 1 => i \notin Out)

(* A stream is of a user as he is now: a change of the account closes it,   *)
(* and no ticket of before opens it again, unless the change reported a     *)
(* failure.                                                                 *)
StreamsValid ==
  \A c \in Conns : stream[c] # Closed /\ stream[c].u \notin uncut => ValidPrincipal(stream[c])

Safe == CountsExact /\ OpensOnce /\ StreamsValid
=============================================================================
