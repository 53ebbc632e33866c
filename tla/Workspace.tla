----------------------------- MODULE Workspace -----------------------------
(***************************************************************************)
(* The files of a workspace: shared between its users, listed in a catalog *)
(* that says who brought each one and from which version of a result it    *)
(* was copied, with a recycle bin and with the versions tasks produced.    *)
(* A request runs to its end without waiting, but its writes are several,  *)
(* and the process may die between them; the catalog keeps the entry of a  *)
(* file that is gone.                                                      *)
(***************************************************************************)
EXTENDS Naturals, Sequences, FiniteSets

CONSTANTS
  Names, Users, Admins, Slots, Tasks,
  None,
  MaxTexts, MaxCrashes   \* bounds

Texts == 1 .. MaxTexts

VARIABLES
  file,       \* the text of each name
  catalog,    \* the entry of each name
  bin, binned,\* the files in the bin, and the records that name them
  task,       \* the input and the entry a task was given
  versions,   \* the results: text, version its input was copied from
  copyName,   \* the name of the copy of a version, by its key
  made,       \* texts made so far
  holders,    \* of each text: who brought or used it
  torn,       \* texts the process died over before their entry
  inherited,  \* texts whose name had the entry of another
  deleted, crashes

stored == <<file, catalog, bin, binned>>
vars == <<stored, task, versions, copyName, made, holders, torn, inherited, deleted, crashes>>

Init ==
  /\ file = [n \in Names |-> None] /\ catalog = [n \in Names |-> None]
  /\ bin = [s \in Slots |-> None] /\ binned = [s \in Slots |-> None]
  /\ task = [t \in Tasks |-> None] /\ versions = <<>> /\ copyName = [v \in Texts |-> None]
  /\ made = 0 /\ holders = [x \in Texts |-> {}]
  /\ torn = {} /\ inherited = {} /\ deleted = {} /\ crashes = 0

-----------------------------------------------------------------------------
Free(n) == file[n] = None

(* registerFile: an entry for a file, with the parent of the entry it is    *)
(* made from, unless another parent is given.                               *)
Entry(u, prior, parent) ==
  [by |-> u, from |-> IF parent # None THEN parent ELSE IF prior = None THEN None ELSE prior.from]

(* Only who brought a file, by its entry, or an administrator may move it.  *)
MayEdit(u, n) == u \in Admins \/ (catalog[n] # None /\ catalog[n].by = u)

(* Files are not managed while a task of the workspace is open.             *)
Quiet == \A t \in Tasks : ~(task[t] # None /\ task[t].open)

(* The process lives, or dies here and all tasks end.                       *)
Lives == UNCHANGED <<crashes, task>>
Dies ==
  /\ crashes < MaxCrashes /\ crashes' = crashes + 1
  /\ task' = [t \in Tasks |-> IF task[t] = None THEN None ELSE [task[t] EXCEPT !.open = FALSE]]

Holds(x, u) == holders' = [holders EXCEPT ![x] = @ \cup {u}]

(* A new file takes a free name, then gets its entry.                       *)
Upload(u, n) ==
  LET x == made + 1
  IN /\ x \in Texts /\ Free(n) /\ made' = x
     /\ file' = [file EXCEPT ![n] = x] /\ Holds(x, u)
     /\ inherited' = IF catalog[n] # None THEN inherited \cup {x} ELSE inherited
     /\ \/ catalog' = [catalog EXCEPT ![n] = Entry(u, @, None)] /\ Lives /\ UNCHANGED torn
        \/ Dies /\ torn' = torn \cup {x} /\ UNCHANGED catalog
     /\ UNCHANGED <<bin, binned, versions, copyName, deleted>>

(* Whom a file is filed under: who brought it, or who moves it.             *)
Uploader(u, n) == IF catalog[n] = None THEN u ELSE catalog[n].by

Rename(u, n, m) ==
  LET x == file[n]
  IN /\ ~Free(n) /\ Free(m) /\ Quiet /\ MayEdit(u, n)
     /\ file' = [file EXCEPT ![n] = None, ![m] = x]
     /\ Holds(x, Uploader(u, n))
     /\ \/ catalog' = [catalog EXCEPT ![m] = Entry(Uploader(u, n), catalog[n], None)] /\ Lives /\ UNCHANGED torn
        \/ Dies /\ torn' = torn \cup {x} /\ UNCHANGED catalog
     /\ UNCHANGED <<bin, binned, versions, copyName, made, inherited, deleted>>

(* The record of the bin is written before the file is moved there.         *)
Trash(u, n, s) ==
  LET x == file[n]
  IN /\ ~Free(n) /\ bin[s] = None /\ binned[s] = None /\ Quiet /\ MayEdit(u, n) /\ Holds(x, Uploader(u, n))
     /\ binned' = [binned EXCEPT ![s] = [name |-> n, by |-> Uploader(u, n)]]
     /\ \/ file' = [file EXCEPT ![n] = None] /\ bin' = [bin EXCEPT ![s] = x] /\ Lives
        \/ Dies /\ UNCHANGED <<file, bin>>
     /\ UNCHANGED <<catalog, versions, copyName, made, torn, inherited, deleted>>

(* Back to its name, if that is free; entry; record.                        *)
Restore(u, s) ==
  LET r == binned[s]
      x == bin[s]
  IN /\ r # None /\ x # None /\ Quiet /\ Free(r.name) /\ (r.by = u \/ u \in Admins)
     /\ file' = [file EXCEPT ![r.name] = x] /\ bin' = [bin EXCEPT ![s] = None]
     /\ Holds(x, r.by)
     /\ inherited' = IF catalog[r.name] = None THEN inherited ELSE inherited \cup {x}
     /\ \/ /\ catalog' = [catalog EXCEPT ![r.name] = Entry(r.by, @, None)]
           /\ binned' = [binned EXCEPT ![s] = None] /\ Lives /\ UNCHANGED torn
        \/ /\ catalog' = [catalog EXCEPT ![r.name] = Entry(r.by, @, None)] /\ Dies /\ UNCHANGED <<binned, torn>>
        \/ Dies /\ torn' = torn \cup {x} /\ UNCHANGED <<catalog, binned>>
     /\ UNCHANGED <<versions, copyName, made, deleted>>

(* An administrator deletes for good; the entry stays.                      *)
Delete(u, n) ==
  /\ u \in Admins /\ ~Free(n) /\ Quiet
  /\ deleted' = deleted \cup {file[n]} /\ file' = [file EXCEPT ![n] = None]
  /\ UNCHANGED <<catalog, bin, binned, task, versions, copyName, made, holders, torn, inherited, crashes>>

(* A file is put into a message: the catalog takes the sender for the one   *)
(* who brought it.                                                          *)
Reference(u, n) ==
  /\ ~Free(n) /\ catalog' = [catalog EXCEPT ![n] = Entry(u, @, None)] /\ Holds(file[n], u)
  /\ UNCHANGED <<file, bin, binned, task, versions, copyName, made, torn, inherited, deleted, crashes>>

(* A task gets a copy of its input, with its entry.                         *)
Submit(u, t, n) ==
  /\ task[t] = None /\ ~Free(n)
  /\ catalog' = [catalog EXCEPT ![n] = Entry(u, @, None)] /\ Holds(file[n], u)
  /\ task' = [task EXCEPT ![t] = [open |-> TRUE, by |-> u, input |-> file[n], from |-> catalog'[n].from]]
  /\ UNCHANGED <<file, bin, binned, versions, copyName, made, torn, inherited, deleted, crashes>>

(* record: a new text of its result becomes a version.                      *)
Produce(t) ==
  LET x == made + 1
  IN /\ task[t] # None /\ task[t].open /\ x \in Texts /\ made' = x
     /\ versions' = Append(versions, [text |-> x, from |-> task[t].from, input |-> task[t].input])
     /\ Holds(x, task[t].by)
     /\ UNCHANGED <<stored, task, copyName, torn, inherited, deleted, crashes>>

Finish(t) ==
  /\ task[t] # None /\ task[t].open /\ task' = [task EXCEPT ![t].open = FALSE]
  /\ UNCHANGED <<stored, versions, copyName, made, holders, torn, inherited, deleted, crashes>>

(* A version is copied to be worked on, under a name of its own: once for a *)
(* key.  A copy whose name was given to another file is found changed, after*)
(* its entry was written.                                                   *)
CopyVersion(u, v, n) ==
  LET x == versions[v].text
      there == ~Free(n)
  IN /\ n = copyName[v] \/ (copyName[v] = None /\ Free(n) /\ catalog[n] = None /\ \A w \in Texts : copyName[w] # n)
     /\ copyName' = [copyName EXCEPT ![v] = n]
     /\ file' = [file EXCEPT ![n] = IF there THEN @ ELSE x]
     /\ Holds(file'[n], u)
     /\ inherited' = IF there /\ file[n] # x THEN inherited \cup {file[n]} ELSE inherited
     /\ \/ catalog' = [catalog EXCEPT ![n] = Entry(u, @, v)] /\ Lives /\ UNCHANGED torn
        \/ Dies /\ ~there /\ torn' = torn \cup {x} /\ UNCHANGED catalog
     /\ UNCHANGED <<bin, binned, versions, made, deleted>>

Next ==
  \/ \E u \in Users, n \in Names :
       \/ Upload(u, n) \/ Delete(u, n) \/ Reference(u, n)
       \/ \E m \in Names : Rename(u, n, m)
       \/ \E s \in Slots : Trash(u, n, s)
       \/ \E t \in Tasks : Submit(u, t, n)
       \/ \E v \in DOMAIN versions : CopyVersion(u, v, n)
  \/ \E u \in Users, s \in Slots : Restore(u, s)
  \/ \E t \in Tasks : Produce(t) \/ Finish(t)

Spec == Init /\ [][Next]_vars

-----------------------------------------------------------------------------
Uploads == {x \in 1 .. made : \A v \in DOMAIN versions : versions[v].text # x}

(* Whatever requests and deaths of the process do, a file that was brought  *)
(* and not deleted is in the workspace or in the bin, where a record names  *)
(* it.                                                                      *)
NothingLost ==
  \A x \in Uploads \ deleted :
    \/ \E n \in Names : file[n] = x
    \/ \E s \in Slots : bin[s] = x /\ binned[s] # None

(* Nobody gets the right to move a file who neither brought nor used it,    *)
(* whatever became of other files of its name.                              *)
HoldersOnly ==
  /\ \A n \in Names : (file[n] # None /\ catalog[n] # None /\ file[n] \notin torn) =>
       catalog[n].by \in holders[file[n]]
  /\ \A s \in Slots : (bin[s] # None /\ binned[s] # None /\ bin[s] \notin torn) => binned[s].by \in holders[bin[s]]

(* What a file was copied from, and what a result was made from, is a       *)
(* version of that text.                                                    *)
CopyOf(x, from) ==
  IF from = None THEN x \in Uploads ELSE from \in DOMAIN versions /\ versions[from].text = x
ParentsTrue ==
  /\ \A n \in Names :
       (file[n] # None /\ catalog[n] # None /\ file[n] \notin torn \cup inherited) => CopyOf(file[n], catalog[n].from)
  /\ \A v \in DOMAIN versions :
       versions[v].input \notin torn \cup inherited => CopyOf(versions[v].input, versions[v].from)

Safe == NothingLost /\ HoldersOnly /\ ParentsTrue

(* The code does not have these: a file that gets the name of one that is   *)
(* gone inherits its parent (resources.ts:58), and whoever puts a file into *)
(* a message may move it afterwards (main.ts:915, 1458).                    *)
ParentsAlwaysTrue ==
  \A n \in Names : (file[n] # None /\ catalog[n] # None /\ file[n] \notin torn) => CopyOf(file[n], catalog[n].from)
BroughtBy == \A n \in Names : (file[n] # None /\ catalog[n] # None) => Cardinality(holders[file[n]]) <= 1
=============================================================================
