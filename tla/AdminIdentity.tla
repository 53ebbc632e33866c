--------------------------- MODULE AdminIdentity ---------------------------
(***************************************************************************)
(* Accounts, their credentials and sessions, and the seats of a tenant.    *)
(* A password is derived in the background: a login, the creation of an    *)
(* account, a reset and a change of one's own password have a first step,  *)
(* which reads the accounts, and a last one, which reads them again.       *)
(***************************************************************************)
EXTENDS Naturals, FiniteSets

CONSTANTS
  Accounts, TenantOf,
  Founders,      \* the platform administrators of accounts.json
  Writers,       \* accounts that submit tasks
  Limits,        \* the seats an administrator may set
  MaxCrypto,     \* derivations at a time (2 in the code)
  MaxChanges     \* bound

VARIABLES
  account,    \* each account: "none", "on" or "off", its role and revision,
              \* whether it has a password and a token of accounts.json
  sessions,
  deriving,   \* operations whose password is being derived
  limit,      \* the seats of each tenant; 0: no limit
  claimed,    \* the account that claimed the deployment, as a set
  requests,   \* accounts whose request is authenticated and reads its body
  active,     \* accounts with a task that is not terminal
  changes

vars == <<account, sessions, deriving, limit, claimed, requests, active, changes>>

Roles == {"platform", "tenant", "member"}
Tenants == {TenantOf[a] : a \in Accounts}
On(a) == account[a].is = "on"
IsAdmin(role) == role # "member"

Init ==
  /\ account = [a \in Accounts |->
       [is |-> IF a \in Founders THEN "on" ELSE "none", role |-> IF a \in Founders THEN "platform" ELSE "member",
        rev |-> 0, password |-> FALSE, token |-> a \in Founders]]
  /\ sessions = {} /\ deriving = {}
  /\ limit = [t \in Tenants |-> 0] /\ claimed = {}
  /\ requests = {} /\ active = {} /\ changes = 0

-----------------------------------------------------------------------------
(* Who is authenticated, who may act on whom                                *)

Valid(s) == On(s.of) /\ s.rev = account[s.of].rev
Authenticated(a) == On(a) /\ (account[a].token \/ \E s \in sessions : s.of = a /\ Valid(s))

Actor(a) == On(a) /\ IsAdmin(account[a].role)
MayTouch(by, t, role) ==
  account[by].role = "platform" \/ (TenantOf[by] = t /\ role # "platform")
Target(by, a) == account[a].is # "none" /\ MayTouch(by, TenantOf[a], account[a].role)

Others(a) == {b \in Accounts \ {a} : On(b)}

(* The last platform administrator and the last administrator of a tenant   *)
(* are neither disabled nor downgraded.                                     *)
KeepsAdmin(a, new) ==
  On(a) /\ IsAdmin(account[a].role) =>
    /\ account[a].role = "platform" /\ (new.is = "off" \/ new.role # "platform")
         => \E b \in Others(a) : account[b].role = "platform"
    /\ new.is = "off" \/ ~IsAdmin(new.role)
         => \E b \in Others(a) : TenantOf[b] = TenantOf[a] /\ IsAdmin(account[b].role)

Enabled(t) == {a \in Accounts : TenantOf[a] = t /\ On(a)}
Reserved(t) == {d \in deriving : d.op = "create" /\ TenantOf[d.of] = t}
SeatFree(t) == limit[t] = 0 \/ Cardinality(Enabled(t)) + Cardinality(Reserved(t)) < limit[t]

-----------------------------------------------------------------------------
(* A session with the account's present revision; cred is the revision      *)
(* whose credentials opened it.  That the oldest of twenty sessions goes is *)
(* one of the ways a session Ends.                                          *)
Issue(a, cred, kept) == sessions' = kept \cup {[of |-> a, rev |-> account'[a].rev, cred |-> cred]}

Of(a) == {s \in sessions : s.of = a}

(* A change of an account: its sessions end.  accountChanged then cancels   *)
(* its tasks, unless the change was saved but its save reported a failure.  *)
Changed(a, new) ==
  /\ changes < MaxChanges /\ changes' = changes + 1
  /\ account' = [account EXCEPT ![a] = [new EXCEPT !.rev = account[a].rev + 1]]
  /\ sessions' = sessions \ Of(a)
  /\ active' \in {active, active \ {a}}

Derive(d) ==
  /\ Cardinality(deriving) < MaxCrypto /\ d \notin deriving
  /\ deriving' = deriving \cup {d}
  /\ UNCHANGED <<account, sessions, limit, claimed, requests, active, changes>>

Derived(d) == deriving' = deriving \ {d}

ClaimRequired == claimed = {} /\ ~\E a \in Accounts : On(a) /\ IsAdmin(account[a].role) /\ account[a].password

Begin ==
  \/ \E a \in Accounts : ClaimRequired /\ Derive([op |-> "claim", of |-> a])
  \/ \E a \in Accounts : account[a].password /\ Derive([op |-> "login", of |-> a, rev |-> account[a].rev])
  \/ \E a \in Accounts : /\ Authenticated(a) /\ account[a].password
                         /\ Derive([op |-> "own", of |-> a, rev |-> account[a].rev])
  \/ \E by \in Accounts, a \in Accounts :
       /\ Authenticated(by) /\ Actor(by) /\ Target(by, a)
       /\ Derive([op |-> "reset", of |-> a, by |-> by, rev |-> account[by].rev])
  \/ \E by \in Accounts, a \in Accounts, role \in Roles :
       /\ Authenticated(by) /\ Actor(by) /\ account[a].is = "none"
       /\ MayTouch(by, TenantOf[a], role) /\ SeatFree(TenantOf[a])
       /\ Derive([op |-> "create", of |-> a, by |-> by, rev |-> account[by].rev, role |-> role])

(* Mutant of Same: the revision that was read before the derivation is not  *)
(* compared                                                                 *)
SameAll(a, rev) == On(a)

(* What was read before the derivation still holds.                         *)
Same(a, rev) == On(a) /\ account[a].rev = rev

Claim(d) ==
  /\ d.op = "claim" /\ ClaimRequired /\ Derived(d)
  /\ account' = [account EXCEPT ![d.of] =
       [is |-> "on", role |-> "platform", password |-> TRUE, token |-> FALSE,
        rev |-> IF account[d.of].is = "none" THEN 0 ELSE account[d.of].rev + 1]]
  /\ Issue(d.of, account'[d.of].rev, sessions \ Of(d.of))
  /\ claimed' = {d.of}
  /\ UNCHANGED <<limit, requests, active, changes>>

Login(d) ==
  /\ d.op = "login" /\ Same(d.of, d.rev) /\ Derived(d)
  /\ UNCHANGED account /\ Issue(d.of, d.rev, sessions)
  /\ UNCHANGED <<limit, claimed, requests, active, changes>>

NewPassword(d) ==
  /\ \/ d.op = "own" /\ Same(d.of, d.rev)
     \/ d.op = "reset" /\ Actor(d.by) /\ account[d.by].rev = d.rev /\ Target(d.by, d.of)
  /\ Derived(d)
  /\ Changed(d.of, [account[d.of] EXCEPT !.password = TRUE, !.token = FALSE])
  /\ UNCHANGED <<limit, claimed, requests>>

Create(d) ==
  /\ d.op = "create" /\ Actor(d.by) /\ account[d.by].rev = d.rev
  /\ account[d.of].is = "none" /\ MayTouch(d.by, TenantOf[d.of], d.role)
  /\ Derived(d)
  /\ account' = [account EXCEPT ![d.of] = [@ EXCEPT !.is = "on", !.role = d.role, !.password = TRUE]]
  /\ UNCHANGED <<sessions, limit, claimed, requests, active, changes>>

(* The second look, or the save, refuses.                                   *)
Fails(d) == Derived(d) /\ UNCHANGED <<account, sessions, limit, claimed, requests, active, changes>>

(* update(): to enable an account takes a free seat, unless it is enabled.  *)
Update(by, a, is, role) ==
  LET new == [account[a] EXCEPT !.is = is, !.role = role] IN
  /\ Authenticated(by) /\ Actor(by) /\ Target(by, a) /\ MayTouch(by, TenantOf[a], role)
  /\ is = "on" => On(a) \/ SeatFree(TenantOf[a])
  /\ KeepsAdmin(a, new)
  /\ Changed(a, [new EXCEPT !.token = @ /\ new = account[a]])
  /\ UNCHANGED <<deriving, limit, claimed, requests>>

Revoke(by, a) ==
  /\ Authenticated(by) /\ Actor(by) /\ Target(by, a)
  /\ Changed(a, [account[a] EXCEPT !.token = FALSE])
  /\ UNCHANGED <<deriving, limit, claimed, requests>>

(* An administrator exchanges a token for a session, or the identity        *)
(* provider vouches for an account.                                         *)
Exchange(a) ==
  /\ On(a) /\ UNCHANGED account
  /\ Issue(a, account[a].rev, sessions)
  /\ UNCHANGED <<deriving, limit, claimed, requests, active, changes>>

Ends(s) ==
  /\ sessions' = sessions \ {s}
  /\ UNCHANGED <<account, deriving, limit, claimed, requests, active, changes>>

SetLimit(t, n) ==
  /\ limit[t] # n
  /\ n # 0 => Cardinality(Enabled(t)) + Cardinality(Reserved(t)) <= n
  /\ limit' = [limit EXCEPT ![t] = n]
  /\ UNCHANGED <<account, sessions, deriving, claimed, requests, active, changes>>

(* A request is authenticated when it arrives and submits when it has read  *)
(* its body.                                                                *)
Arrive(a) ==
  /\ Authenticated(a) /\ requests' = requests \cup {a}
  /\ UNCHANGED <<account, sessions, deriving, limit, claimed, active, changes>>

Submit(a) ==
  /\ a \in requests /\ requests' = requests \ {a}
  /\ active' = active \cup {a}
  /\ UNCHANGED <<account, sessions, deriving, limit, claimed, changes>>

TaskEnds(a) ==
  /\ a \in active /\ active' = active \ {a}
  /\ UNCHANGED <<account, sessions, deriving, limit, claimed, requests, changes>>

Next ==
  \/ Begin
  \/ \E d \in deriving : Claim(d) \/ Login(d) \/ NewPassword(d) \/ Create(d) \/ Fails(d)
  \/ \E by, a \in Accounts, is \in {"on", "off"}, role \in Roles : Update(by, a, is, role)
  \/ \E by, a \in Accounts : Revoke(by, a)
  \/ \E a \in Accounts : Exchange(a)
  \/ \E a \in Writers : Arrive(a) \/ Submit(a) \/ TaskEnds(a)
  \/ \E s \in sessions : Ends(s)
  \/ \E t \in Tenants, n \in Limits : SetLimit(t, n)

Spec == Init /\ [][Next]_vars

-----------------------------------------------------------------------------
(* A session that is accepted was opened with credentials of the account's  *)
(* present revision: no login that began before a reset, a revocation, a    *)
(* change of role or a disabling ends in one (admin-identity.ts:137).       *)
CredentialsCurrent == \A s \in sessions : Valid(s) => s.cred = s.rev

(* A deployment that has had an administrator of the platform, from the     *)
(* start or by being claimed, has one, and so has every tenant that had one *)
(* from the start (admin-identity.ts:234).                                  *)
AdminRemains ==
  /\ Founders \cup claimed # {} => \E a \in Accounts : On(a) /\ account[a].role = "platform"
  /\ \A f \in Founders : \E a \in Enabled(TenantOf[f]) : IsAdmin(account[a].role)

(* Accounts enabled, and those being created, stay within the seats; the    *)
(* account that claims the deployment does not ask for one.                 *)
SeatsWithin ==
  \A t \in Tenants : limit[t] # 0 =>
    Cardinality(Enabled(t) \ claimed) + Cardinality(Reserved(t)) <= limit[t]

Safe == CredentialsCurrent /\ AdminRemains /\ SeatsWithin

(* The code does not have it: a request that was authenticated before its   *)
(* account was disabled submits its task after the cancelling.              *)
DisabledIsIdle == \A a \in active : On(a)
=============================================================================
