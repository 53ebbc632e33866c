-------------------------------- MODULE Stores --------------------------------
(***************************************************************************)
(* Four components that keep what users gave them and share no variable:   *)
(* the knowledge base, long jobs, the files of a workspace, and the way    *)
(* out of a sandbox.  A behaviour is one of the component "part" names.    *)
(* MCData gives the instance TLC checks; StoresProofs has what holds of    *)
(* every one.                                                              *)
(***************************************************************************)
EXTENDS Naturals, Sequences, FiniteSets

CONSTANTS   \* of each component, under its own name or one of its part here
  None, Users,
  Docs, DocTexts, DocRequests, SpaceOf, MaxVersion, MaxDocWrites, MaxDocFaults,
  Convs, ConvTasks, Long, MaxMemory, MaxEdits, MaxJobRestarts,
  FileNames, FileAdmins, Slots, FileTasks, MaxTexts, MaxCrashes,
  NetConns, Hosts, Allowed, MaxConnections, MaxBytes, MaxRequests

VARIABLES
  part,
  docStore, docHistory, docEpochs, docCurrent, docRequest, docTexts, docDeleted, docMixed, docFaults,
  longJob, longTask, longGiven, longDeletion, longConcluded, longErased, longEdits, longRestarts,
  wsFile, wsCatalog, wsBin, wsBinned, wsTask, wsVersions, wsCopyName, wsMade, wsHolders, wsTorn,
  wsInherited, wsDeleted, wsCrashes,
  netConn, netTransferred, netClosed

K == INSTANCE KnowledgeBase
       WITH Texts <- DocTexts, Requests <- DocRequests, MaxWrites <- MaxDocWrites, MaxFaults <- MaxDocFaults,
            store <- docStore, history <- docHistory, epochs <- docEpochs, current <- docCurrent,
            request <- docRequest, texts <- docTexts, deleted <- docDeleted, mixed <- docMixed,
            faults <- docFaults
L == INSTANCE LongJobs
       WITH Tasks <- ConvTasks, MaxRestarts <- MaxJobRestarts,
            job <- longJob, task <- longTask, given <- longGiven, deletion <- longDeletion,
            concluded <- longConcluded, erased <- longErased, edits <- longEdits,
            restarts <- longRestarts
W == INSTANCE Workspace
       WITH Names <- FileNames, Admins <- FileAdmins, Tasks <- FileTasks,
            file <- wsFile, catalog <- wsCatalog, bin <- wsBin, binned <- wsBinned, task <- wsTask,
            versions <- wsVersions, copyName <- wsCopyName, made <- wsMade, holders <- wsHolders,
            torn <- wsTorn, inherited <- wsInherited, deleted <- wsDeleted, crashes <- wsCrashes
X == INSTANCE Egress
       WITH Conns <- NetConns, Names <- Hosts,
            conn <- netConn, transferred <- netTransferred, closed <- netClosed

docs == <<docStore, docHistory, docEpochs, docCurrent, docRequest, docTexts, docDeleted, docMixed,
          docFaults>>
longs == <<longJob, longTask, longGiven, longDeletion, longConcluded, longErased, longEdits,
           longRestarts>>
files == <<wsFile, wsCatalog, wsBin, wsBinned, wsTask, wsVersions, wsCopyName, wsMade, wsHolders,
           wsTorn, wsInherited, wsDeleted, wsCrashes>>
nets == <<netConn, netTransferred, netClosed>>

-----------------------------------------------------------------------------
(* The records the components store.                                        *)
DocFiles ==
  [owner : Users, version : K!Versions, text : DocTexts, space : {SpaceOf[i] : i \in K!Instances}]
JobRecords ==
  [status : L!JobStatus, title : {"new", "named"}, convs : SUBSET Convs, memory : Seq(Convs)]
TaskRecords ==
  [conv : Convs, filed : L!Jobs \cup {None}, job : L!Jobs \cup {None}, tool : BOOLEAN, chosen : BOOLEAN,
   status : {"queued", "running", "finished", "cancelled"}, at : {"made", "ready", "running", "ended", "left"}]
Deletions == [of : L!Jobs, seen : JobRecords, left : SUBSET ConvTasks]
CatalogRecords == [by : Users, from : Nat \cup {None}]
BinRecords == [name : FileNames, by : Users]
WorkRecords == [open : BOOLEAN, by : Users, input : W!Texts, from : Nat \cup {None}]

(* No value is told from every other; instances begin with the first; a job *)
(* remembers something, and one created by hand has no conversation's name; *)
(* what is counted is finite.                                               *)
ASSUME StoresAssumption ==
  /\ 1 \in DOMAIN SpaceOf /\ DOMAIN SpaceOf \subseteq Nat /\ MaxVersion \in Nat
  /\ None \notin DocTexts /\ None \notin DocFiles
  /\ Long \notin Convs /\ MaxMemory \in Nat \ {0}
  /\ None \notin L!Jobs /\ None \notin JobRecords /\ None \notin TaskRecords /\ None \notin Deletions
  /\ MaxTexts \in Nat /\ None \notin Nat
  /\ None \notin CatalogRecords /\ None \notin BinRecords /\ None \notin WorkRecords
  /\ IsFiniteSet(NetConns) /\ MaxConnections \in Nat /\ MaxBytes \in Nat

DocsOff ==
  /\ docStore = "off" /\ docHistory = "off" /\ docEpochs = "off" /\ docCurrent = "off"
  /\ docRequest = "off" /\ docTexts = "off" /\ docDeleted = "off" /\ docMixed = "off" /\ docFaults = "off"
LongsOff ==
  /\ longJob = "off" /\ longTask = "off" /\ longGiven = "off" /\ longDeletion = "off"
  /\ longConcluded = "off" /\ longErased = "off" /\ longEdits = "off" /\ longRestarts = "off"
FilesOff ==
  /\ wsFile = "off" /\ wsCatalog = "off" /\ wsBin = "off" /\ wsBinned = "off" /\ wsTask = "off"
  /\ wsVersions = "off" /\ wsCopyName = "off" /\ wsMade = "off" /\ wsHolders = "off" /\ wsTorn = "off"
  /\ wsInherited = "off" /\ wsDeleted = "off" /\ wsCrashes = "off"
NetsOff == netConn = "off" /\ netTransferred = "off" /\ netClosed = "off"

(* The components "part" does not name.                                     *)
OthersOff ==
  /\ IF part = "documents" THEN TRUE ELSE DocsOff
  /\ IF part = "long jobs" THEN TRUE ELSE LongsOff
  /\ IF part = "files" THEN TRUE ELSE FilesOff
  /\ IF part = "egress" THEN TRUE ELSE NetsOff
OthersStay ==
  /\ UNCHANGED part
  /\ IF part = "documents" THEN TRUE ELSE UNCHANGED docs
  /\ IF part = "long jobs" THEN TRUE ELSE UNCHANGED longs
  /\ IF part = "files" THEN TRUE ELSE UNCHANGED files
  /\ IF part = "egress" THEN TRUE ELSE UNCHANGED nets

Init ==
  /\ \/ part = "documents" /\ K!Init
     \/ part = "long jobs" /\ L!Init
     \/ part = "files" /\ W!Init
     \/ part = "egress" /\ X!Init
  /\ OthersOff

Next ==
  /\ \/ part = "documents" /\ K!Next
     \/ part = "long jobs" /\ L!Next
     \/ part = "files" /\ W!Next
     \/ part = "egress" /\ X!Next
  /\ OthersStay

vars == <<part, docs, longs, files, nets>>

Spec == Init /\ [][Next]_vars

-----------------------------------------------------------------------------
(* Citations, conclusions of conversations and files survive replacements,  *)
(* failed writes, deletions and restarts; and the way out of a sandbox ends *)
(* with its budget and with the sandbox (workspace-services.ts,             *)
(* workspace-management.ts, workbench.ts, egress.ts).                       *)
StoresSafe ==
  /\ [](part = "documents" => K!Safe)
  /\ [](part = "long jobs" => L!Safe)
  /\ [](part = "files" => W!Safe)
  /\ [](part = "egress" => X!Safe)
  /\ [][part = "documents" => K!NoWriteLost]_docs
  /\ [][part = "long jobs" => L!OnlyTheUserReopens]_longs
=============================================================================
