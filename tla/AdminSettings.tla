--------------------------- MODULE AdminSettings ---------------------------
(***************************************************************************)
(* The settings of a deployment (the scope "global"): one draft, one       *)
(* active version, a history to roll back to, kept in a file and its       *)
(* .previous, with an expected revision against concurrent administrators. *)
(* A version published is installed in the running process after it is     *)
(* saved.  A change is one synchronous step; what may fail in it is the    *)
(* saving, at each of its three writes, and the file may be damaged.       *)
(***************************************************************************)
EXTENDS Naturals, Sequences

CONSTANTS
  Admins, Values,
  MaxWrites, MaxFaults, MaxDamage   \* bounds

VARIABLES
  mem, main, prev,   \* the store in memory, in the file and in its .previous
  installed,         \* the version the process runs
  seen,              \* what each administrator has on the page
  writes, faults, damage,
  torn,      \* the process was told of a failure after the file was replaced,
             \* or read the backup, and has not restarted since
  retired,   \* credentials that were in use and were replaced or cleared
  blind      \* a change was made to a version its author has not seen

vars == <<mem, main, prev, installed, seen, writes, faults, damage, torn, retired, blind>>

Bad == [id |-> 0]      \* a file that cannot be read
None == [val |-> 0]    \* no draft
Cleared == 0

ReadStore == IF main # Bad THEN main ELSE prev

Init ==
  \E v \in Values :
    LET active == [val |-> v, sec |-> Cleared, rev |-> 0]
        store == [id |-> 1, rev |-> 0, active |-> active, draft |-> None, history |-> <<active>>]
    IN /\ mem = store /\ main = store /\ prev = Bad
       /\ installed = [val |-> v, sec |-> Cleared]
       /\ seen = [a \in Admins |-> [id |-> 1, rev |-> 0]]
       /\ writes = 1 /\ faults = 0 /\ damage = 0
       /\ torn = FALSE /\ retired = {} /\ blind = FALSE

-----------------------------------------------------------------------------
(* The three changes, of a store s that has the revision expected.          *)

Fresh == writes + 1   \* the next store, and the reference of a new credential

(* A draft starts from the one there is, or from the active version; its    *)
(* credential is kept, replaced or cleared.                                 *)
Draft(s, v, sec) ==
  [s EXCEPT !.draft = [val |-> v, sec |-> sec], !.rev = @ + 1, !.id = Fresh]

Base(s) == IF s.draft # None THEN s.draft ELSE s.active

Publish(s, val, sec) ==
  LET new == [val |-> val, sec |-> sec, rev |-> s.rev + 1] IN
  [s EXCEPT !.active = new, !.history = Append(@, new), !.draft = None, !.rev = @ + 1, !.id = Fresh]

(* Mutant of RolledBack: the credential of the target comes back with its   *)
(* values.                                                                  *)
RolledBackAll(s, target) == Publish(s, target.val, target.sec)

(* The history gives the values; the credential stays the active one.       *)
RolledBack(s, target) == Publish(s, target.val, s.active.sec)

-----------------------------------------------------------------------------
Runs(new) ==
  /\ installed' = [val |-> new.val, sec |-> new.sec]
  /\ retired' = IF new.sec # installed.sec THEN (retired \cup {installed.sec}) \ {Cleared} ELSE retired

(* persist(): the backup, the file, the sync of the directory.  The process *)
(* keeps the old version when any of them fails.                            *)
Persist(s, next, publishes) ==
  /\ writes' = Fresh
  /\ \/ /\ mem' = next /\ main' = next /\ prev' = s
        /\ IF publishes THEN Runs(next.active) /\ torn' = FALSE
           ELSE UNCHANGED <<installed, retired>> /\ torn' = (torn \/ s # mem)
        /\ UNCHANGED faults
     \/ /\ faults < MaxFaults /\ faults' = faults + 1
        /\ mem' = s /\ UNCHANGED <<installed, retired>>
        /\ \/ prev' \in {prev, s} /\ torn' = (torn \/ s # mem) /\ UNCHANGED main
           \/ prev' = s /\ main' = next /\ torn' = TRUE

(* mutate() reads the file again first, and keeps what it has read.         *)
Reads(s) ==
  /\ mem' = s /\ torn' = (torn \/ s # mem)
  /\ UNCHANGED <<main, prev, installed, writes, faults, retired, blind>>

(* Change(a, ...): the change of an administrator goes through; a draft     *)
(* there is none of, a candidate that is not valid and a deployment that is *)
(* busy (deps.apply) refuse it as an old revision does.                     *)
Change(a, next, publishes) ==
  /\ seen[a].rev = ReadStore.rev
  /\ blind' = (blind \/ seen[a].id # ReadStore.id)
  /\ Persist(ReadStore, next, publishes)
  /\ UNCHANGED <<seen, damage>>

Ready == ReadStore # Bad /\ writes < MaxWrites

SaveDraft(a) ==
  /\ Ready
  /\ \E v \in Values, sec \in {Base(ReadStore).sec, Fresh, Cleared} :
       Change(a, Draft(ReadStore, v, sec), FALSE)

Apply(a) ==
  /\ Ready /\ ReadStore.draft # None
  /\ Change(a, Publish(ReadStore, ReadStore.draft.val, ReadStore.draft.sec), TRUE)

Rollback(a) ==
  /\ Ready
  /\ \E n \in DOMAIN ReadStore.history :
       Change(a, RolledBack(ReadStore, ReadStore.history[n]), TRUE)

Refused == ReadStore # Bad /\ Reads(ReadStore) /\ UNCHANGED <<seen, damage>>

View(a) ==
  /\ seen' = [seen EXCEPT ![a] = [id |-> mem.id, rev |-> mem.rev]]
  /\ UNCHANGED <<mem, main, prev, installed, writes, faults, damage, torn, retired, blind>>

Damage ==
  /\ damage < MaxDamage /\ damage' = damage + 1
  /\ main' = Bad
  /\ UNCHANGED <<mem, prev, installed, seen, writes, faults, torn, retired, blind>>

(* A crash and the constructor: the file, or its backup, is what runs.      *)
Restart ==
  /\ ReadStore # Bad
  /\ mem' = ReadStore /\ Runs(ReadStore.active) /\ torn' = FALSE
  /\ UNCHANGED <<main, prev, seen, writes, faults, damage, blind>>

Next ==
  \/ \E a \in Admins : SaveDraft(a) \/ Apply(a) \/ Rollback(a) \/ View(a)
  \/ Refused \/ Damage \/ Restart

Spec == Init /\ [][Next]_vars

-----------------------------------------------------------------------------
(* A credential that was replaced or cleared is never used again, whatever  *)
(* version is rolled back to or draft published: admin-settings.ts:358.     *)
SecretsStayRetired == damage = 0 => installed.sec \notin retired

(* The process runs the version the settings call active, unless a failure  *)
(* came after the file was replaced or the backup was read.                 *)
RunsTheActive == ~torn => installed = [val |-> mem.active.val, sec |-> mem.active.sec]

(* Nobody changes a version he has not seen: the revisions of two stores    *)
(* differ, unless a damaged file took one back.                             *)
NoLostUpdate == damage = 0 => ~blind

(* Every version is in the history once, the active one last.               *)
HistoryInOrder ==
  \A s \in {mem, main, prev} \ {Bad} :
    /\ s.history[Len(s.history)] = s.active
    /\ \A m, n \in DOMAIN s.history : m < n => s.history[m].rev < s.history[n].rev
    /\ s.active.rev <= s.rev

Safe == SecretsStayRetired /\ RunsTheActive /\ NoLostUpdate /\ HistoryInOrder

(* The code does not have these.  The message of a failed save says that    *)
(* the version in effect is kept (admin-settings.ts:445), but the file may  *)
(* have been replaced, and the next change reads it without installing it;  *)
(* and a backup brings revisions and credentials back.                      *)
AlwaysRunsTheActive == installed = [val |-> mem.active.val, sec |-> mem.active.sec]
NeverBlind == ~blind
=============================================================================
