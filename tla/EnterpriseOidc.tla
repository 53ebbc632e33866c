---------------------------- MODULE EnterpriseOidc ----------------------------
(***************************************************************************)
(* Login through one OIDC provider of a tenant: begin and callback ask the *)
(* provider over the network, while administrators change the provider,    *)
(* the bindings of its subjects and the accounts they are bound to.        *)
(* The provider's answers and its signed token are the environment's.      *)
(***************************************************************************)
EXTENDS Naturals, FiniteSets, Sequences

CONSTANTS
  States,            \* login states ever made
  Handlers,          \* requests under way at a time
  Subjects, Accounts, Issuers,
  Room,              \* states that may be stored (1000)
  MaxEdits, MaxRestarts   \* bounds

VARIABLES
  provider,      \* its record, or Gone
  bindings,      \* account of a subject, under the issuer it was bound at
  able,          \* accounts that are enabled
  transactions,  \* stored login states
  unused,        \* states not made yet
  at,            \* what each request does
  edits,         \* changes of the provider so far
  logins,        \* logins, in order
  restarts

vars == <<provider, bindings, able, transactions, unused, at, edits, logins, restarts>>

Gone == [revision |-> 0, enabled |-> FALSE]
Idle == [step |-> "idle"]
Bound(i, s) == {b \in bindings : b.issuer = i /\ b.subject = s}

Init ==
  /\ \E i \in Issuers : provider = [revision |-> 1, enabled |-> TRUE, issuer |-> i]
  /\ bindings = {} /\ able = Accounts
  /\ transactions = {} /\ unused = States
  /\ at = [h \in Handlers |-> Idle]
  /\ edits = 0 /\ logins = <<>> /\ restarts = 0

-----------------------------------------------------------------------------
(* Administrators.                                                          *)

Edited == edits < MaxEdits /\ edits' = edits + 1

Configure(i, on) ==
  /\ provider # Gone /\ Edited
  /\ provider' = [revision |-> provider.revision + 1, enabled |-> on, issuer |-> i]
  /\ UNCHANGED <<bindings, able, transactions, unused, at, logins, restarts>>

(* The next provider has another id, so this one is gone for good.          *)
Remove ==
  /\ provider # Gone /\ Edited
  /\ provider' = Gone /\ bindings' = {}
  /\ UNCHANGED <<able, transactions, unused, at, logins, restarts>>

Bind(s, a) ==
  /\ provider # Gone /\ a \in able
  /\ bindings' = (bindings \ Bound(provider.issuer, s)) \cup {[issuer |-> provider.issuer, subject |-> s, account |-> a]}
  /\ UNCHANGED <<provider, able, transactions, unused, at, edits, logins, restarts>>

Unbind(b) ==
  /\ b \in bindings /\ bindings' = bindings \ {b}
  /\ UNCHANGED <<provider, able, transactions, unused, at, edits, logins, restarts>>

Switch(a) ==
  /\ able' = IF a \in able THEN able \ {a} ELSE able \cup {a}
  /\ UNCHANGED <<provider, bindings, transactions, unused, at, edits, logins, restarts>>

-----------------------------------------------------------------------------
(* Requests.                                                                *)

(* begin reads the provider, then waits for its discovery document.         *)
Begin(h) ==
  /\ at[h] = Idle /\ provider.enabled
  /\ Cardinality(transactions) < Room
  /\ at' = [at EXCEPT ![h] = [step |-> "begins", p |-> provider, edits |-> edits]]
  /\ UNCHANGED <<provider, bindings, able, transactions, unused, edits, logins, restarts>>

Begun(h, t) ==
  /\ at[h].step = "begins" /\ t \in unused /\ unused' = unused \ {t}
  /\ transactions' = transactions \cup
       {[state |-> t, revision |-> at[h].p.revision, used |-> FALSE, edits |-> at[h].edits]}
  /\ at' = [at EXCEPT ![h] = Idle]
  /\ UNCHANGED <<provider, bindings, able, edits, logins, restarts>>

Expire(x) ==
  /\ x \in transactions /\ transactions' = transactions \ {x}
  /\ UNCHANGED <<provider, bindings, able, unused, at, edits, logins, restarts>>

(* Mutant of Callback: the state is used up by the login.                   *)
CallbackLate(h, x) ==
  /\ at[h] = Idle /\ x \in transactions /\ ~x.used
  /\ provider.enabled /\ provider.revision = x.revision
  /\ at' = [at EXCEPT ![h] = [step |-> "asks", of |-> x, p |-> provider]]
  /\ UNCHANGED <<provider, bindings, able, transactions, unused, edits, logins, restarts>>

(* callback, from the browser that began, uses up the state before it goes  *)
(* to the network.                                                          *)
Callback(h, x) ==
  /\ at[h] = Idle /\ x \in transactions
  /\ ~x.used
  /\ provider.enabled /\ provider.revision = x.revision
  /\ transactions' = (transactions \ {x}) \cup {[x EXCEPT !.used = TRUE]}
  /\ at' = [at EXCEPT ![h] = [step |-> "asks", of |-> x, p |-> provider]]
  /\ UNCHANGED <<provider, bindings, able, unused, edits, logins, restarts>>

(* The token names the subject; binding, account and provider are read now. *)
Login(h, s) ==
  /\ at[h].step = "asks"
  /\ provider.enabled /\ provider.revision = at[h].p.revision
  /\ \E b \in Bound(at[h].p.issuer, s) :
       /\ b.account \in able
       /\ logins' = Append(logins, [state |-> at[h].of.state, since |-> at[h].of.edits, edits |-> edits,
                                    subject |-> s, account |-> b.account])
  /\ at' = [at EXCEPT ![h] = Idle]
  /\ UNCHANGED <<provider, bindings, able, transactions, unused, edits, restarts>>

(* The network, the token or one of the checks fails.                       *)
Fail(h) ==
  /\ at[h] # Idle /\ at' = [at EXCEPT ![h] = Idle]
  /\ UNCHANGED <<provider, bindings, able, transactions, unused, edits, logins, restarts>>

Restart ==
  /\ restarts < MaxRestarts /\ restarts' = restarts + 1
  /\ at' = [h \in Handlers |-> Idle]
  /\ UNCHANGED <<provider, bindings, able, transactions, unused, edits, logins>>

Next ==
  \/ \E i \in Issuers, on \in BOOLEAN : Configure(i, on)
  \/ Remove
  \/ \E s \in Subjects, a \in Accounts : Bind(s, a)
  \/ \E b \in bindings : Unbind(b)
  \/ \E a \in Accounts : Switch(a)
  \/ \E x \in transactions : Expire(x)
  \/ \E h \in Handlers :
       \/ Begin(h) \/ \E x \in transactions : Callback(h, x)
       \/ \E t \in States : Begun(h, t)
       \/ \E s \in Subjects : Login(h, s)
       \/ Fail(h)
  \/ Restart

Spec == Init /\ [][Next]_vars

-----------------------------------------------------------------------------
(* A login state lets in once, with callbacks of two requests at a time,    *)
(* and over a restart between the two halves of one.                        *)
OneLoginPerState ==
  \A i, j \in DOMAIN logins : logins[i].state = logins[j].state => i = j

(* No login spans a change of the provider: not one that was begun before   *)
(* it, at whichever of the three network calls it was.                      *)
NoLoginAcrossAnEdit == \A i \in DOMAIN logins : logins[i].since = logins[i].edits

Safe == OneLoginPerState /\ NoLoginAcrossAnEdit

(* Who is let in is bound and enabled at that moment, whatever was so when  *)
(* the login began.                                                         *)
LetsInTheBound ==
  logins' # logins =>
    LET l == logins'[Len(logins')] IN
    l.account \in able /\ \E b \in Bound(provider.issuer, l.subject) : b.account = l.account
NoStaleLogin == [][LetsInTheBound]_vars

(* The code does not have it: the places are counted before discovery is    *)
(* waited for, and filled after: enterprise-oidc.ts:62-65.                  *)
RoomHeld == Cardinality(transactions) <= Room
=============================================================================
