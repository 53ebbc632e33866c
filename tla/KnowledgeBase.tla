--------------------------- MODULE KnowledgeBase ---------------------------
(***************************************************************************)
(* The documents of a workspace's knowledge base: one file per name, the   *)
(* versions before the current one in a directory of history.  A document  *)
(* is read, embedded by a service over the network, and written if nobody  *)
(* wrote it meanwhile, which each instance of the services counts in       *)
(* memory.  A published configuration replaces the instance; requests      *)
(* under way keep the one they began with.                                 *)
(***************************************************************************)
EXTENDS Naturals

CONSTANTS
  Docs, Users, Texts, Requests,
  None,
  SpaceOf,      \* of each instance, in order: its embeddings, or None
  MaxVersion, MaxWrites, MaxFaults   \* bounds, MaxWrites of an instance

Instances == DOMAIN SpaceOf
Versions == 1 .. MaxVersion

VARIABLES
  store,     \* the current version of each document
  history,   \* texts of older versions
  epochs,    \* writes of each document an instance counted
  current,   \* the instance that serves new requests
  request,   \* requests that wait for their embeddings
  texts,     \* the text of each version a citation was given for
  deleted,   \* documents removed once
  mixed,     \* an instance wrote after it was replaced
  faults     \* failed writes and deaths of the process

disk == <<store, history, texts, deleted>>
vars == <<disk, epochs, current, request, mixed, faults>>

Empty == [v \in Versions |-> None]

Init ==
  /\ store = [d \in Docs |-> None] /\ history = [d \in Docs |-> Empty]
  /\ texts = [d \in Docs |-> Empty] /\ deleted = {}
  /\ epochs = [i \in Instances |-> [d \in Docs |-> 0]]
  /\ current = 1 /\ request = [r \in Requests |-> None] /\ mixed = FALSE
  /\ faults = 0

-----------------------------------------------------------------------------
(* What a request writes when it is through: the text and owner it read or  *)
(* was given, the version after the one it read.                            *)
Ingestion(u, d, t) ==
  [what |-> "ingest", of |-> current, doc |-> d, epoch |-> epochs[current][d], before |-> store[d],
   file |-> [owner |-> u, version |-> IF store[d] = None THEN 1 ELSE store[d].version + 1,
             text |-> t, space |-> SpaceOf[current]]]
Rebuild(d) ==
  [what |-> "reindex", of |-> current, doc |-> d, epoch |-> epochs[current][d], before |-> store[d],
   file |-> [store[d] EXCEPT !.space = SpaceOf[current]]]

(* Only who created a document may replace it.                              *)
MayIngest(u, d) == store[d] # None => store[d].owner = u

(* An administrator may also rebuild the index of a colleague's document.   *)
MayReindex(u, d, admin) ==
  /\ SpaceOf[current] # None /\ store[d] # None
  /\ store[d].owner = u \/ admin

(* The version that is replaced is kept, unless a file of its number is     *)
(* there.                                                                   *)
Kept(q) ==
  IF q.what = "ingest" /\ q.before # None /\ history[q.doc][q.before.version] = None
  THEN [history EXCEPT ![q.doc][q.before.version] = q.before.text]
  ELSE history

Persist(q) ==
  /\ epochs[q.of][q.doc] < MaxWrites
  /\ store' = [store EXCEPT ![q.doc] = q.file]
  /\ texts' = [texts EXCEPT ![q.doc][q.file.version] = q.file.text]
  /\ epochs' = [epochs EXCEPT ![q.of][q.doc] = @ + 1]
  /\ mixed' = (mixed \/ q.of # current)

(* Without embeddings nothing is awaited.                                   *)
IngestNow(u, d, t) ==
  /\ SpaceOf[current] = None /\ MayIngest(u, d)
  /\ LET q == Ingestion(u, d, t)
     IN /\ q.file.version \in Versions
        /\ history' = Kept(q) /\ Persist(q)
  /\ UNCHANGED <<deleted, current, request, faults>>

Begin(r, u, d, t) ==
  /\ request[r] = None /\ SpaceOf[current] # None /\ MayIngest(u, d)
  /\ Ingestion(u, d, t).file.version \in Versions
  /\ request' = [request EXCEPT ![r] = Ingestion(u, d, t)]
  /\ UNCHANGED <<disk, epochs, current, mixed, faults>>

BeginReindex(r, u, d, admin) ==
  /\ request[r] = None /\ MayReindex(u, d, admin)
  /\ request' = [request EXCEPT ![r] = Rebuild(d)]
  /\ UNCHANGED <<disk, epochs, current, mixed, faults>>

(* Mutant of Unchanged: nobody looks again after the network call.          *)
UnchangedSince(q) == q.epoch <= epochs[q.of][q.doc]

(* Nobody wrote or deleted the document since it was read.                  *)
Unchanged(q) == epochs[q.of][q.doc] = q.epoch

(* The vectors are there: the document is written, or the request refused.  *)
(* A document too large, or a full disk, is noticed after the history.      *)
Embedded(r) ==
  LET q == request[r]
  IN /\ q # None /\ request' = [request EXCEPT ![r] = None]
     /\ \/ /\ Unchanged(q) /\ history' = Kept(q) /\ Persist(q)
           /\ UNCHANGED <<deleted, faults>>
        \/ /\ ~Unchanged(q) /\ UNCHANGED <<disk, epochs, mixed, faults>>
        \/ /\ Unchanged(q) /\ faults < MaxFaults /\ faults' = faults + 1
           /\ history' = Kept(q)
           /\ UNCHANGED <<store, texts, deleted, epochs, mixed>>
  /\ UNCHANGED current

(* The service of embeddings does not answer, or not in time.               *)
Refused(r) ==
  /\ request[r] # None /\ request' = [request EXCEPT ![r] = None]
  /\ UNCHANGED <<disk, epochs, current, mixed, faults>>

(* The file goes, its history stays.                                        *)
Delete(u, d, admin) ==
  /\ store[d] # None /\ epochs[current][d] < MaxWrites
  /\ store[d].owner = u \/ admin
  /\ store' = [store EXCEPT ![d] = None] /\ texts' = [texts EXCEPT ![d] = Empty]
  /\ deleted' = deleted \cup {d}
  /\ epochs' = [epochs EXCEPT ![current][d] = @ + 1]
  /\ UNCHANGED <<history, current, request, mixed, faults>>

(* A new configuration: it waits for jobs, not for requests that ingest.    *)
Apply ==
  /\ current + 1 \in Instances /\ current' = current + 1
  /\ UNCHANGED <<disk, epochs, request, mixed, faults>>

(* The process may also die between the history and the file.               *)
Restart ==
  /\ faults < MaxFaults /\ faults' = faults + 1
  /\ history' \in {history} \cup {Kept(request[r]) : r \in {s \in Requests : request[s] # None /\ Unchanged(request[s])}}
  /\ request' = [r \in Requests |-> None]
  /\ epochs' = [i \in Instances |-> [d \in Docs |-> 0]]
  /\ UNCHANGED <<store, texts, deleted, current, mixed>>

Next ==
  \/ \E u \in Users, d \in Docs, t \in Texts :
       IngestNow(u, d, t) \/ \E r \in Requests : Begin(r, u, d, t)
  \/ \E u \in Users, d \in Docs, admin \in BOOLEAN :
       Delete(u, d, admin) \/ \E r \in Requests : BeginReindex(r, u, d, admin)
  \/ \E r \in Requests : Embedded(r) \/ Refused(r)
  \/ Apply \/ Restart

Spec == Init /\ [][Next]_vars

-----------------------------------------------------------------------------
(* knowledgeVersion: what a citation of a version opens.                    *)
Opens(d, v) == IF store[d].version = v THEN store[d].text ELSE history[d][v]
Cited(d) == IF store[d] = None THEN {} ELSE 1 .. store[d].version

(* A citation opens the text that was cited, however often the document is  *)
(* replaced, indexed anew or a write of it fails.  Not for a document that  *)
(* was deleted and came again, nor once a replaced instance has written.    *)
CitationsTrue ==
  \A d \in Docs : (d \notin deleted /\ ~mixed) => \A v \in Cited(d) : Opens(d, v) = texts[d][v]

(* The code does not have it without the exceptions: history of a deleted   *)
(* document is found by its successor (workspace-services.ts:284), and two  *)
(* instances do not see each other's writes (228).                          *)
CitationsAlwaysTrue == \A d \in Docs : \A v \in Cited(d) : Opens(d, v) = texts[d][v]

(* An update adds one version of the same owner, a rebuild changes neither  *)
(* text nor version: no write is lost under another.                        *)
NoWriteLost ==
  \A d \in Docs : (store[d] # None /\ store'[d] # None /\ store'[d] # store[d] /\ ~mixed') =>
    /\ store'[d].owner = store[d].owner
    /\ \/ store'[d].version = store[d].version + 1
       \/ store'[d] = [store[d] EXCEPT !.space = store'[d].space]

(* A request that waits writes over what it read, or nothing.               *)
ReadsStand ==
  \A r \in Requests :
    (request[r] # None /\ ~mixed /\ request[r].of = current /\ Unchanged(request[r])) =>
      store[request[r].doc] = request[r].before

Safe == CitationsTrue /\ ReadsStand
KeepsWrites == [][NoWriteLost]_vars
=============================================================================
