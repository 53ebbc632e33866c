----------------------------- MODULE StoresProofs -----------------------------
(***************************************************************************)
(* What the four components side by side in Stores promise, for any number *)
(* of documents, conversations, files and connections, and without the     *)
(* bounds of the run.  One section for each component: what its promise    *)
(* needs to be inductive, that the initial states have it, and that every  *)
(* step keeps it; then the theorem.  After it, the algorithms that have no *)
(* state: access, search, paths and gate, commands, callbacks, slices and  *)
(* tables, one theorem each.                                               *)
(***************************************************************************)
EXTENDS Stores, Integers, FiniteSetTheorems, SequenceTheorems, WellFoundedInduction, TLAPS

-----------------------------------------------------------------------------
(* The knowledge base.                                                      *)

DocSpaces == {SpaceOf[i] : i \in K!Instances}

LEMMA DocsConstants ==
  /\ 1 \in K!Instances /\ K!Instances \subseteq Nat /\ MaxVersion \in Nat
  /\ None \notin DocTexts /\ None \notin DocFiles
  BY StoresAssumption DEF K!Instances

FileRequests ==
  [what : {"ingest", "reindex"}, of : K!Instances, doc : Docs, epoch : Nat, before : DocFiles \cup {None}, file : DocFiles]

DocsTypes ==
  /\ docStore \in [Docs -> DocFiles \cup {None}]
  /\ docHistory \in [Docs -> [K!Versions -> DocTexts \cup {None}]] /\ docTexts \in [Docs -> [K!Versions -> DocTexts \cup {None}]]
  /\ docEpochs \in [K!Instances -> [Docs -> Nat]] /\ docCurrent \in K!Instances
  /\ docRequest \in [DocRequests -> FileRequests \cup {None}]
  /\ docMixed \in BOOLEAN

(* History holds what was cited of the versions before the current one, of  *)
(* the current one nothing else, and nothing of later ones.                 *)
DocSound(d) ==
  (d \notin docDeleted /\ ~docMixed) =>
    /\ docStore[d] = None => \A v \in K!Versions : docHistory[d][v] = None
    /\ docStore[d] # None =>
         /\ docTexts[d][docStore[d].version] = docStore[d].text
         /\ docHistory[d][docStore[d].version] \in {None, docStore[d].text}
         /\ \A v \in K!Versions : v < docStore[d].version => docTexts[d][v] # None /\ docHistory[d][v] = docTexts[d][v]
         /\ \A v \in K!Versions : v > docStore[d].version => docHistory[d][v] = None

(* What a request writes continues what it read.                            *)
Continues(q) ==
  /\ q.what = "ingest" =>
       /\ q.before = None => q.file.version = 1
       /\ q.before # None => q.file.version = q.before.version + 1 /\ q.file.owner = q.before.owner
  /\ q.what = "reindex" => q.before # None /\ q.file = [q.before EXCEPT !.space = q.file.space]

(* What a request read is current while nobody wrote; and still cited when  *)
(* somebody did.                                                            *)
ReadSound(q) ==
  /\ Continues(q)
  /\ q.of <= docCurrent /\ q.epoch <= docEpochs[q.of][q.doc]
  /\ (~docMixed /\ q.of = docCurrent /\ K!Unchanged(q)) => docStore[q.doc] = q.before
  /\ (~docMixed /\ q.doc \notin docDeleted /\ q.before # None) =>
       /\ docStore[q.doc] # None /\ q.before.version <= docStore[q.doc].version
       /\ docTexts[q.doc][q.before.version] = q.before.text

DocsInv ==
  /\ DocsTypes
  /\ \A d \in Docs : DocSound(d)
  /\ \A r \in DocRequests : docRequest[r] # None => ReadSound(docRequest[r])

LEMMA DocsInvSafe == DocsInv => K!Safe
<1> SUFFICES ASSUME DocsInv PROVE K!Safe
  OBVIOUS
<1>1. K!CitationsTrue
  <2> SUFFICES ASSUME NEW d \in Docs, d \notin docDeleted, ~docMixed, NEW v \in K!Cited(d) PROVE K!Opens(d, v) = docTexts[d][v]
    BY DEF K!CitationsTrue
  <2>1. docStore[d] # None /\ docStore[d] \in DocFiles /\ v \in 1 .. docStore[d].version
    BY DEF DocsInv, DocsTypes, K!Cited
  <2>2. v \in K!Versions /\ docStore[d].version \in Nat /\ (v = docStore[d].version \/ v < docStore[d].version)
    BY <2>1, DocsConstants DEF DocFiles, K!Versions
  <2> QED BY <2>1, <2>2 DEF DocsInv, DocSound, K!Opens
<1>2. K!ReadsStand
  BY DEF K!ReadsStand, DocsInv, ReadSound
<1> QED BY <1>1, <1>2 DEF K!Safe

LEMMA DocsInit == K!Init => DocsInv
<1> SUFFICES ASSUME K!Init PROVE DocsInv
  OBVIOUS
<1>1. DocsTypes
  BY DocsConstants DEF K!Init, DocsTypes, K!Empty
<1>2. \A d \in Docs : DocSound(d)
  BY DEF K!Init, DocSound, K!Empty
<1> QED BY <1>1, <1>2 DEF DocsInv, K!Init

LEMMA FileFields ==
  ASSUME NEW f \in DocFiles
  PROVE  /\ f.owner \in Users /\ f.version \in K!Versions /\ f.version \in Nat /\ f.text \in DocTexts /\ f.text # None
         /\ f.space \in DocSpaces /\ f # None
  BY DocsConstants DEF DocFiles, DocSpaces, K!Versions

(* The history gets what was cited.                                         *)
LEMMA KeptKeeps ==
  ASSUME DocsInv, NEW q \in FileRequests, ReadSound(q)
  PROVE  /\ K!Kept(q) \in [Docs -> [K!Versions -> DocTexts \cup {None}]]
         /\ \A d \in Docs \ {q.doc} : K!Kept(q)[d] = docHistory[d]
         /\ \A v \in K!Versions :
              \/ K!Kept(q)[q.doc][v] = docHistory[q.doc][v]
              \/ /\ q.what = "ingest" /\ q.before # None /\ v = q.before.version
                 /\ docHistory[q.doc][v] = None /\ K!Kept(q)[q.doc][v] = q.before.text
         /\ q.what = "ingest" /\ q.before # None => K!Kept(q)[q.doc][q.before.version] # None
<1> DEFINE d == q.doc
           w == q.before.version
<1>1. d \in Docs /\ docHistory \in [Docs -> [K!Versions -> DocTexts \cup {None}]]
  BY DEF FileRequests, DocsInv, DocsTypes
<1>2. CASE q.what = "ingest" /\ q.before # None /\ docHistory[d][w] = None
  <2>1. q.before \in DocFiles
    BY <1>2 DEF FileRequests
  <2>2. w \in K!Versions /\ q.before.text \in DocTexts /\ q.before.text # None
    BY <2>1, FileFields
  <2>3. K!Kept(q) = [docHistory EXCEPT ![d][w] = q.before.text]
    BY <1>2 DEF K!Kept
  <2> QED BY <1>1, <1>2, <2>2, <2>3
<1>3. CASE ~(q.what = "ingest" /\ q.before # None /\ docHistory[d][w] = None)
  <2>1. K!Kept(q) = docHistory
    BY <1>3 DEF K!Kept
  <2> QED BY <1>1, <1>3, <2>1
<1> QED BY <1>2, <1>3

LEMMA HistoryGrows ==
  ASSUME DocsInv, NEW q \in FileRequests, ReadSound(q), docHistory' = K!Kept(q),
         UNCHANGED <<docStore, docTexts, docDeleted, docMixed>>
  PROVE  \A d \in Docs : DocSound(d)'
<1> SUFFICES ASSUME NEW d \in Docs, d \notin docDeleted, ~docMixed PROVE DocSound(d)'
  BY DEF DocSound
<1>0. DocSound(d) /\ DocsTypes
  BY DEF DocsInv
<1>1. CASE d # q.doc
  <2>1. docHistory'[d] = docHistory[d]
    BY <1>1, KeptKeeps
  <2> QED BY <1>0, <2>1 DEF DocSound
<1>2. CASE d = q.doc
  <2>1. \A v \in K!Versions :
              \/ docHistory'[d][v] = docHistory[d][v]
              \/ /\ q.before # None /\ v = q.before.version
                 /\ docHistory[d][v] = None /\ docHistory'[d][v] = q.before.text
    BY <1>2, KeptKeeps
  <2>2. CASE q.before = None
    BY <1>0, <2>1, <2>2, FileFields DEF DocSound, DocsTypes
  <2>3. CASE q.before # None
    <3>1. /\ docStore[d] # None /\ docStore[d] \in DocFiles /\ q.before \in DocFiles
          /\ q.before.version <= docStore[d].version /\ docTexts[d][q.before.version] = q.before.text
      BY <1>0, <1>2, <2>3 DEF ReadSound, DocsTypes, FileRequests
    <3>2. docStore[d].version \in Nat /\ q.before.version \in Nat /\ q.before.version \in K!Versions /\ docStore[d].version \in K!Versions /\ K!Versions \subseteq Nat
      BY <3>1, FileFields DEF K!Versions
    <3>3. q.before.version < docStore[d].version => docHistory[d][q.before.version] # None
      BY <1>0, <3>1, <3>2 DEF DocSound
    <3>4. \A v \in K!Versions :
              \/ docHistory'[d][v] = docHistory[d][v]
              \/ v = docStore[d].version /\ docHistory'[d][v] = docStore[d].text
      BY <1>0, <2>1, <3>1, <3>2, <3>3 DEF DocSound
    <3> QED BY <1>0, <3>1, <3>2, <3>4 DEF DocSound
  <2> QED BY <2>2, <2>3
<1> QED BY <1>1, <1>2

(* A document is written from what it is, or by an instance that was        *)
(* replaced.                                                                *)
LEMMA PersistKeeps ==
  ASSUME DocsInv, NEW q \in FileRequests, ReadSound(q), K!Unchanged(q), docHistory' = K!Kept(q), K!Persist(q),
         UNCHANGED <<docDeleted, docCurrent>>
  PROVE  \A d \in Docs : DocSound(d)'
<1> SUFFICES ASSUME NEW d \in Docs, d \notin docDeleted, ~docMixed' PROVE DocSound(d)'
  BY DEF DocSound
<1>0. DocSound(d) /\ DocsTypes /\ ~docMixed /\ q.of = docCurrent /\ K!Versions \subseteq Nat
  <2>1. DocSound(d) /\ DocsTypes /\ K!Versions \subseteq Nat
    BY DEF DocsInv, K!Versions
  <2>2. ~docMixed /\ q.of = docCurrent
    BY DEF K!Persist
  <2> QED BY <2>1, <2>2
<1>1. /\ docStore' = [docStore EXCEPT ![q.doc] = q.file] /\ docTexts' = [docTexts EXCEPT ![q.doc][q.file.version] = q.file.text]
      /\ q.doc \in Docs /\ q.file \in DocFiles /\ q.what \in {"ingest", "reindex"}
  BY DEF K!Persist, FileRequests
<1>2. CASE d # q.doc
  <2>1. docHistory'[d] = docHistory[d] /\ docStore'[d] = docStore[d] /\ docTexts'[d] = docTexts[d]
    BY <1>0, <1>1, <1>2, KeptKeeps DEF DocsTypes
  <2> QED BY <1>0, <2>1 DEF DocSound
<1>3. CASE d = q.doc
  <2> DEFINE n == q.file.version
  <2>1. docStore[d] = q.before
    BY <1>0, <1>3 DEF ReadSound
  <2>2. /\ docStore'[d] = q.file /\ docStore'[d] # None /\ n \in K!Versions /\ n \in Nat
        /\ docTexts'[d][n] = q.file.text /\ \A v \in K!Versions \ {n} : docTexts'[d][v] = docTexts[d][v]
    BY <1>0, <1>1, <1>3, FileFields DEF DocsTypes
  <2>3. \A v \in K!Versions :
              \/ docHistory'[d][v] = docHistory[d][v]
              \/ /\ q.what = "ingest" /\ q.before # None /\ v = q.before.version
                 /\ docHistory[d][v] = None /\ docHistory'[d][v] = q.before.text
    BY <1>3, KeptKeeps
  <2>4. CASE q.before = None
    <3>1. n = 1 /\ \A v \in K!Versions : docHistory'[d][v] = None /\ ~(v < n)
      BY <1>0, <1>1, <2>1, <2>3, <2>4 DEF ReadSound, Continues, DocSound, K!Versions
    <3> QED BY <2>2, <3>1 DEF DocSound
  <2>5. CASE q.before # None /\ q.what = "ingest"
    <3>1. q.before \in DocFiles /\ n = q.before.version + 1
      BY <2>5 DEF FileRequests, ReadSound, Continues
    <3>2. q.before.version \in K!Versions /\ q.before.version \in Nat /\ q.before.text # None
      BY <3>1, FileFields
    <3>3. docHistory'[d][q.before.version] = q.before.text /\ docTexts[d][q.before.version] = q.before.text
      <4>1. docHistory'[d][q.before.version] # None
        BY <1>3, <2>5, KeptKeeps
      <4> QED BY <1>0, <2>1, <2>3, <2>5, <3>2, <4>1 DEF DocSound
    <3>4. ASSUME NEW v \in K!Versions, v < n PROVE docTexts'[d][v] # None /\ docHistory'[d][v] = docTexts'[d][v]
      BY <1>0, <2>1, <2>2, <2>3, <2>5, <3>1, <3>2, <3>3, <3>4 DEF DocSound
    <3>5. ASSUME NEW v \in K!Versions, v >= n PROVE docHistory'[d][v] = None
      BY <1>0, <2>1, <2>3, <2>5, <3>1, <3>2, <3>5 DEF DocSound
    <3>6. n >= n /\ \A v \in K!Versions : v > n => v >= n
      BY <1>0, <2>2
    <3>7. docHistory'[d][n] = None /\ \A v \in K!Versions : v > n => docHistory'[d][v] = None
      BY <2>2, <3>5, <3>6
    <3> QED BY <2>2, <3>4, <3>7 DEF DocSound
  <2>6. CASE q.before # None /\ q.what = "reindex"
    <3>1. q.before \in DocFiles /\ q.file = [q.before EXCEPT !.space = q.file.space]
      BY <2>6 DEF FileRequests, ReadSound, Continues
    <3>2. n = q.before.version /\ q.file.text = q.before.text
      BY <3>1 DEF DocFiles
    <3>3. \A v \in K!Versions : docHistory'[d][v] = docHistory[d][v] /\ docTexts'[d][v] = docTexts[d][v]
      BY <1>0, <2>1, <2>2, <2>3, <2>6, <3>2 DEF DocSound
    <3> QED BY <1>0, <2>1, <2>2, <2>6, <3>2, <3>3 DEF DocSound
  <2> QED BY <1>1, <2>4, <2>5, <2>6
<1> QED BY <1>2, <1>3

(* The other requests see that it was written.                              *)
LEMMA OthersSee ==
  ASSUME DocsInv, NEW q \in FileRequests, ReadSound(q), K!Unchanged(q), K!Persist(q), UNCHANGED <<docDeleted, docCurrent>>,
         NEW p \in FileRequests, ReadSound(p)
  PROVE  ReadSound(p)'
<1>0. DocsTypes /\ p.of \in K!Instances /\ q.of \in K!Instances /\ p.doc \in Docs /\ q.doc \in Docs /\ p.epoch \in Nat /\ q.epoch \in Nat
  BY DEF DocsInv, FileRequests
<1>1. /\ docStore' = [docStore EXCEPT ![q.doc] = q.file] /\ docTexts' = [docTexts EXCEPT ![q.doc][q.file.version] = q.file.text]
      /\ docEpochs' = [docEpochs EXCEPT ![q.of][q.doc] = @ + 1] /\ q.file \in DocFiles
  BY DEF K!Persist, FileRequests
<1>2. docEpochs'[p.of][p.doc] = IF p.of = q.of /\ p.doc = q.doc THEN docEpochs[p.of][p.doc] + 1 ELSE docEpochs[p.of][p.doc]
  BY <1>0, <1>1 DEF DocsTypes
<1>3. docEpochs[p.of][p.doc] \in Nat /\ p.epoch <= docEpochs[p.of][p.doc] /\ p.of <= docCurrent /\ Continues(p)
  BY <1>0 DEF DocsTypes, ReadSound
<1>4. p.of <= docCurrent' /\ p.epoch <= docEpochs'[p.of][p.doc]
  BY <1>0, <1>2, <1>3
<1>5. ASSUME ~docMixed', p.of = docCurrent', K!Unchanged(p)' PROVE docStore'[p.doc] = p.before
  <2>1. ~docMixed /\ q.of = docCurrent /\ p.of = docCurrent
    BY <1>0, <1>5 DEF K!Persist, DocsTypes
  <2>2. p.doc # q.doc /\ K!Unchanged(p)
    BY <1>2, <1>3, <1>5, <2>1 DEF K!Unchanged
  <2> QED BY <1>0, <1>1, <2>1, <2>2 DEF ReadSound, DocsTypes
<1>6. ASSUME ~docMixed', p.doc \notin docDeleted, p.before # None
      PROVE  /\ docStore'[p.doc] # None /\ p.before.version <= docStore'[p.doc].version
             /\ docTexts'[p.doc][p.before.version] = p.before.text
  <2>1. ~docMixed /\ q.of = docCurrent
    BY <1>0, <1>6 DEF K!Persist, DocsTypes
  <2>2. /\ docStore[p.doc] # None /\ p.before.version <= docStore[p.doc].version
        /\ docTexts[p.doc][p.before.version] = p.before.text /\ docStore[p.doc] \in DocFiles /\ p.before \in DocFiles
    BY <1>0, <1>6, <2>1 DEF ReadSound, DocsTypes, FileRequests
  <2>3. CASE p.doc # q.doc
    BY <1>0, <1>1, <2>2, <2>3 DEF DocsTypes
  <2>4. CASE p.doc = q.doc
    <3>1. docStore[q.doc] = q.before /\ q.before # None /\ q.before \in DocFiles
      BY <2>1, <2>2, <2>4 DEF ReadSound
    <3>2. q.file.version \in K!Versions /\ q.before.version \in Nat /\ p.before.version \in Nat /\ p.before.version \in K!Versions /\ q.file # None
      BY <1>1, <2>2, <3>1, FileFields
    <3>3. q.file.version = q.before.version + 1 \/ (q.file.version = q.before.version /\ q.file.text = q.before.text)
      <4>1. q.what = "ingest" \/ q.file = [q.before EXCEPT !.space = q.file.space]
        BY DEF ReadSound, Continues, FileRequests
      <4>2. CASE q.what = "ingest"
        BY <3>1, <4>2 DEF ReadSound, Continues
      <4>3. CASE q.file = [q.before EXCEPT !.space = q.file.space]
        BY <3>1, <4>3 DEF DocFiles
      <4> QED BY <4>1, <4>2, <4>3
    <3>4. docStore'[p.doc] = q.file
      BY <1>0, <1>1, <2>4 DEF DocsTypes
    <3>5. p.before.version = q.file.version => p.before.text = q.file.text
      <4>1. docTexts[q.doc][q.before.version] = q.before.text
        BY <1>0, <1>6, <2>1, <2>4, <3>1 DEF ReadSound
      <4>2. p.before.version <= q.before.version
        BY <2>2, <2>4, <3>1
      <4>3. p.before.version = q.file.version => q.file.version = q.before.version /\ q.file.text = q.before.text
        BY <3>2, <3>3, <4>2
      <4> QED BY <2>2, <2>4, <4>1, <4>3
    <3>6. docTexts'[p.doc][p.before.version] = IF p.before.version = q.file.version THEN q.file.text ELSE docTexts[p.doc][p.before.version]
      BY <1>0, <1>1, <2>4, <3>2 DEF DocsTypes
    <3> QED BY <2>2, <2>4, <3>1, <3>2, <3>3, <3>4, <3>5, <3>6
  <2> QED BY <2>3, <2>4
<1> QED BY <1>3, <1>4, <1>5, <1>6 DEF ReadSound

LEMMA NewIsSound ==
  ASSUME DocsInv, NEW q \in FileRequests, Continues(q), q.of = docCurrent, q.epoch = docEpochs[docCurrent][q.doc], q.before = docStore[q.doc]
  PROVE  ReadSound(q) /\ K!Unchanged(q)
<1>0. DocsTypes /\ q.of \in K!Instances /\ q.doc \in Docs /\ DocSound(q.doc)
  BY DEF DocsInv, FileRequests
<1>1. q.of <= docCurrent /\ q.epoch <= docEpochs[q.of][q.doc] /\ K!Unchanged(q)
  BY <1>0, DocsConstants DEF DocsTypes, K!Unchanged
<1>2. ASSUME ~docMixed, q.doc \notin docDeleted, q.before # None
      PROVE  /\ docStore[q.doc] # None /\ q.before.version <= docStore[q.doc].version
             /\ docTexts[q.doc][q.before.version] = q.before.text
  <2>1. docStore[q.doc].version \in Nat
    BY <1>0, <1>2, FileFields DEF DocsTypes
  <2> QED BY <1>0, <1>2, <2>1 DEF DocSound
<1> QED BY <1>1, <1>2 DEF ReadSound

LEMMA IngestionSound ==
  ASSUME DocsInv, NEW u \in Users, NEW d \in Docs, NEW t \in DocTexts, K!MayIngest(u, d), K!Ingestion(u, d, t).file.version \in K!Versions
  PROVE  LET q == K!Ingestion(u, d, t) IN q \in FileRequests /\ ReadSound(q) /\ K!Unchanged(q)
<1> DEFINE q == K!Ingestion(u, d, t)
<1> SUFFICES q \in FileRequests /\ ReadSound(q) /\ K!Unchanged(q)
  OBVIOUS
<1>0. DocsTypes
  BY DEF DocsInv
<1>1. q.file \in DocFiles /\ q.file.owner = u /\ q.file.version = IF docStore[d] = None THEN 1 ELSE docStore[d].version + 1
  BY <1>0 DEF K!Ingestion, DocFiles, DocSpaces, DocsTypes
<1>2. q \in FileRequests
  BY <1>0, <1>1 DEF K!Ingestion, FileRequests, DocsTypes
<1>3. /\ q.of = docCurrent /\ q.epoch = docEpochs[docCurrent][d] /\ q.before = docStore[d] /\ q.what = "ingest" /\ q.doc = d
  BY DEF K!Ingestion
<1>4. Continues(q)
  BY <1>1, <1>3 DEF Continues, K!MayIngest
<1> HIDE DEF q
<1> QED BY <1>2, <1>3, <1>4, NewIsSound

LEMMA RebuildSound ==
  ASSUME DocsInv, NEW d \in Docs, docStore[d] # None
  PROVE  LET q == K!Rebuild(d) IN q \in FileRequests /\ ReadSound(q) /\ K!Unchanged(q)
<1> DEFINE q == K!Rebuild(d)
<1> SUFFICES q \in FileRequests /\ ReadSound(q) /\ K!Unchanged(q)
  OBVIOUS
<1>0. DocsTypes /\ docStore[d] \in DocFiles
  BY DEF DocsInv, DocsTypes
<1>1. q.file = [docStore[d] EXCEPT !.space = SpaceOf[docCurrent]] /\ q.file \in DocFiles /\ q.file.space = SpaceOf[docCurrent]
  BY <1>0 DEF K!Rebuild, DocFiles, DocSpaces, DocsTypes
<1>2. q \in FileRequests
  BY <1>0, <1>1 DEF K!Rebuild, FileRequests, DocsTypes
<1>3. /\ q.of = docCurrent /\ q.epoch = docEpochs[docCurrent][d] /\ q.before = docStore[d] /\ q.what = "reindex" /\ q.doc = d
  BY DEF K!Rebuild
<1>4. Continues(q)
  BY <1>1, <1>3 DEF Continues
<1> HIDE DEF q
<1> QED BY <1>2, <1>3, <1>4, NewIsSound

(* What does not concern documents and their counts.                        *)
LEMMA ReadsStaySound ==
  ASSUME NEW q \in FileRequests, ReadSound(q), docCurrent' = docCurrent, UNCHANGED <<docStore, docTexts, docDeleted, docEpochs, docMixed>>
  PROVE  ReadSound(q)'
  BY DEF ReadSound, K!Unchanged

LEMMA WriteKeeps ==
  ASSUME DocsInv, NEW q \in FileRequests, ReadSound(q), K!Unchanged(q), docHistory' = K!Kept(q), K!Persist(q),
         UNCHANGED <<docDeleted, docCurrent>>, \A r \in DocRequests : docRequest'[r] \in {docRequest[r], None},
         docRequest' \in [DocRequests -> FileRequests \cup {None}]
  PROVE  DocsInv'
<1>0. DocsTypes /\ q.of \in K!Instances /\ q.doc \in Docs /\ q.file \in DocFiles
  BY DEF DocsInv, FileRequests
<1>1. DocsTypes'
  <2>1. q.file.version \in K!Versions /\ q.file.text \in DocTexts
    BY <1>0, FileFields
  <2>2. docStore' \in [Docs -> DocFiles \cup {None}] /\ docTexts' \in [Docs -> [K!Versions -> DocTexts \cup {None}]]
    BY <1>0, <2>1 DEF K!Persist, DocsTypes
  <2>3. docEpochs' \in [K!Instances -> [Docs -> Nat]]
    BY <1>0 DEF K!Persist, DocsTypes
  <2>4. docMixed' \in BOOLEAN
    BY <1>0 DEF K!Persist, DocsTypes
  <2>5. docHistory' \in [Docs -> [K!Versions -> DocTexts \cup {None}]]
    BY KeptKeeps
  <2> QED BY <1>0, <2>2, <2>3, <2>4, <2>5 DEF DocsTypes
<1>2. \A d \in Docs : DocSound(d)'
  BY PersistKeeps
<1>3. ASSUME NEW r \in DocRequests, docRequest'[r] # None PROVE ReadSound(docRequest[r])'
  <2>1. docRequest'[r] = docRequest[r] /\ docRequest[r] \in FileRequests /\ ReadSound(docRequest[r])
    BY <1>0, <1>3 DEF DocsInv, DocsTypes
  <2>2. PICK p \in FileRequests : p = docRequest[r]
    BY <2>1
  <2>3. ReadSound(p)'
    BY <2>1, <2>2, OthersSee
  <2> QED BY <2>1, <2>2, <2>3 DEF ReadSound, K!Unchanged
<1> QED BY <1>1, <1>2, <1>3 DEF DocsInv

(* Requests that wait, and new ones, when nothing is written.               *)
LEMMA RequestsMove ==
  ASSUME DocsInv, UNCHANGED <<docStore, docTexts, docDeleted, docEpochs, docMixed>>, docCurrent' \in K!Instances, docCurrent' >= docCurrent,
         DocsTypes', \A d \in Docs : DocSound(d)',
         \A r \in DocRequests : docRequest'[r] # None =>
           docRequest'[r] \in FileRequests /\ ReadSound(docRequest'[r]) /\ (docCurrent' # docCurrent => docRequest'[r].of < docCurrent')
  PROVE  DocsInv'
<1>1. ASSUME NEW r \in DocRequests, docRequest'[r] # None PROVE ReadSound(docRequest[r])'
  <2>1. PICK p \in FileRequests : p = docRequest'[r] /\ ReadSound(p) /\ (docCurrent' # docCurrent => p.of < docCurrent')
    BY <1>1
  <2>2. ReadSound(p)'
    <3>1. p.of \in Nat /\ docCurrent \in Nat /\ docCurrent' \in Nat
      BY DocsConstants DEF DocsInv, DocsTypes, FileRequests
    <3> QED BY <2>1, <3>1 DEF ReadSound, K!Unchanged
  <2> QED BY <2>1, <2>2 DEF ReadSound, K!Unchanged
<1> QED BY <1>1 DEF DocsInv

LEMMA DocsStep == ASSUME DocsInv, K!Next PROVE DocsInv'
<1>0. DocsTypes /\ docCurrent \in Nat /\ \A r \in DocRequests : docRequest[r] # None => docRequest[r] \in FileRequests /\ ReadSound(docRequest[r])
  BY DocsConstants DEF DocsInv, DocsTypes
<1>1. ASSUME NEW u \in Users, NEW d \in Docs, NEW t \in DocTexts, K!IngestNow(u, d, t) PROVE DocsInv'
  <2>1. K!Ingestion(u, d, t).file.version \in K!Versions /\ K!MayIngest(u, d)
    BY <1>1 DEF K!IngestNow
  <2>2. PICK q \in FileRequests : q = K!Ingestion(u, d, t) /\ ReadSound(q) /\ K!Unchanged(q)
    BY <2>1, IngestionSound
  <2>3. docHistory' = K!Kept(q) /\ K!Persist(q) /\ UNCHANGED <<docDeleted, docCurrent, docRequest>>
    BY <1>1, <2>2 DEF K!IngestNow
  <2> QED BY <1>0, <2>2, <2>3, WriteKeeps DEF DocsTypes
<1>2. ASSUME NEW r \in DocRequests, NEW q \in FileRequests, ReadSound(q), docRequest' = [docRequest EXCEPT ![r] = q],
             UNCHANGED <<K!disk, docEpochs, docCurrent, docMixed>>
      PROVE  DocsInv'
  <2>1. DocsTypes' /\ \A d \in Docs : DocSound(d)'
    BY <1>0, <1>2 DEF DocsTypes, DocsInv, DocSound, K!disk
  <2>2. \A p \in DocRequests : docRequest'[p] # None => docRequest'[p] \in FileRequests /\ ReadSound(docRequest'[p])
    BY <1>0, <1>2 DEF DocsTypes
  <2> QED BY <1>0, <1>2, <2>1, <2>2, RequestsMove DEF K!disk, DocsTypes
<1>3. ASSUME NEW r \in DocRequests, NEW u \in Users, NEW d \in Docs, NEW t \in DocTexts, K!Begin(r, u, d, t) PROVE DocsInv'
  <2>1. PICK q \in FileRequests : q = K!Ingestion(u, d, t) /\ ReadSound(q)
    BY <1>3, IngestionSound DEF K!Begin
  <2> QED BY <1>2, <1>3, <2>1 DEF K!Begin
<1>4. ASSUME NEW r \in DocRequests, NEW u \in Users, NEW d \in Docs, NEW admin \in BOOLEAN, K!BeginReindex(r, u, d, admin) PROVE DocsInv'
  <2>1. PICK q \in FileRequests : q = K!Rebuild(d) /\ ReadSound(q)
    BY <1>4, RebuildSound DEF K!BeginReindex, K!MayReindex
  <2> QED BY <1>2, <1>4, <2>1 DEF K!BeginReindex
<1>5. ASSUME NEW r \in DocRequests, docRequest' = [docRequest EXCEPT ![r] = None], UNCHANGED <<docStore, docTexts, docDeleted, docEpochs, docCurrent, docMixed>>,
             docHistory' \in [Docs -> [K!Versions -> DocTexts \cup {None}]], \A d \in Docs : DocSound(d)'
      PROVE  DocsInv'
  <2>1. DocsTypes'
    BY <1>0, <1>5 DEF DocsTypes
  <2>2. \A p \in DocRequests : docRequest'[p] # None => docRequest'[p] \in FileRequests /\ ReadSound(docRequest'[p])
    BY <1>0, <1>5 DEF DocsTypes
  <2> QED BY <1>0, <1>5, <2>1, <2>2, RequestsMove DEF DocsTypes
<1>6. ASSUME NEW r \in DocRequests, K!Embedded(r) PROVE DocsInv'
  <2>1. PICK q \in FileRequests : q = docRequest[r] /\ ReadSound(q)
    BY <1>0, <1>6 DEF K!Embedded
  <2>2. docRequest' = [docRequest EXCEPT ![r] = None] /\ UNCHANGED docCurrent
    BY <1>6 DEF K!Embedded
  <2>3. CASE K!Unchanged(q) /\ docHistory' = K!Kept(q) /\ K!Persist(q) /\ UNCHANGED <<docDeleted, docFaults>>
    <3>1. docRequest' \in [DocRequests -> FileRequests \cup {None}] /\ \A p \in DocRequests : docRequest'[p] \in {docRequest[p], None}
      BY <1>0, <2>2 DEF DocsTypes
    <3> QED BY <2>1, <2>2, <2>3, <3>1, WriteKeeps
  <2>4. CASE UNCHANGED <<K!disk, docEpochs, docMixed>>
    <3>1. \A d \in Docs : DocSound(d)'
      BY <2>4 DEF DocsInv, DocSound, K!disk
    <3> QED BY <1>0, <1>5, <2>2, <2>4, <3>1 DEF K!disk, DocsTypes
  <2>5. CASE docHistory' = K!Kept(q) /\ UNCHANGED <<docStore, docTexts, docDeleted, docEpochs, docMixed>>
    <3>1. \A d \in Docs : DocSound(d)'
      BY <2>1, <2>5, HistoryGrows
    <3>2. docHistory' \in [Docs -> [K!Versions -> DocTexts \cup {None}]]
      BY <2>1, <2>5, KeptKeeps
    <3> QED BY <1>5, <2>2, <2>5, <3>1, <3>2
  <2> QED BY <1>6, <2>1, <2>3, <2>4, <2>5 DEF K!Embedded
<1>7. ASSUME NEW r \in DocRequests, K!Refused(r) PROVE DocsInv'
  <2>1. \A d \in Docs : DocSound(d)'
    BY <1>7 DEF DocsInv, DocSound, K!Refused, K!disk
  <2> QED BY <1>0, <1>5, <1>7, <2>1 DEF K!Refused, K!disk, DocsTypes
<1>8. ASSUME NEW u \in Users, NEW d \in Docs, NEW admin \in BOOLEAN, K!Delete(u, d, admin) PROVE DocsInv'
  <2>1. /\ docStore' = [docStore EXCEPT ![d] = None] /\ docTexts' = [docTexts EXCEPT ![d] = K!Empty] /\ docDeleted' = docDeleted \cup {d}
        /\ docEpochs' = [docEpochs EXCEPT ![docCurrent][d] = @ + 1] /\ UNCHANGED <<docHistory, docCurrent, docRequest, docMixed>>
    BY <1>8 DEF K!Delete
  <2>2. DocsTypes'
    BY <1>0, <2>1 DEF DocsTypes, K!Empty
  <2>3. \A c \in Docs : DocSound(c)'
    BY <1>0, <2>1 DEF DocsInv, DocSound, DocsTypes
  <2>4. ASSUME NEW p \in FileRequests, ReadSound(p) PROVE ReadSound(p)'
    <3>0. p.of \in K!Instances /\ p.doc \in Docs /\ p.epoch \in Nat
      BY DEF FileRequests
    <3>1. docEpochs'[p.of][p.doc] = IF p.of = docCurrent /\ p.doc = d THEN docEpochs[p.of][p.doc] + 1 ELSE docEpochs[p.of][p.doc]
      BY <1>0, <2>1, <3>0 DEF DocsTypes
    <3>2. docEpochs[p.of][p.doc] \in Nat /\ p.epoch <= docEpochs[p.of][p.doc]
      BY <1>0, <2>4, <3>0 DEF DocsTypes, ReadSound
    <3>3. p.epoch <= docEpochs'[p.of][p.doc] /\ (p.of = docCurrent /\ p.doc = d => ~K!Unchanged(p)')
      BY <3>0, <3>1, <3>2, <2>1 DEF K!Unchanged
    <3>4. p.doc # d => docStore'[p.doc] = docStore[p.doc] /\ docTexts'[p.doc] = docTexts[p.doc] /\ (K!Unchanged(p)' <=> K!Unchanged(p))
      BY <1>0, <2>1, <3>0, <3>1 DEF DocsTypes, K!Unchanged
    <3> QED BY <2>1, <2>4, <3>3, <3>4 DEF ReadSound
  <2>5. ASSUME NEW r \in DocRequests, docRequest'[r] # None PROVE ReadSound(docRequest[r])'
    <3>1. PICK p \in FileRequests : p = docRequest[r] /\ ReadSound(p)
      BY <1>0, <2>1, <2>5
    <3>2. ReadSound(p)'
      BY <2>4, <3>1
    <3> QED BY <2>1, <3>1, <3>2 DEF ReadSound, K!Unchanged
  <2> QED BY <2>2, <2>3, <2>5 DEF DocsInv
<1>9. ASSUME K!Apply PROVE DocsInv'
  <2>1. docCurrent' = docCurrent + 1 /\ docCurrent' \in K!Instances /\ UNCHANGED <<K!disk, docEpochs, docRequest, docMixed>>
    BY <1>9 DEF K!Apply
  <2>2. DocsTypes' /\ \A d \in Docs : DocSound(d)'
    BY <1>0, <2>1 DEF DocsTypes, DocsInv, DocSound, K!disk
  <2>3. ASSUME NEW r \in DocRequests, docRequest'[r] # None
        PROVE  docRequest'[r] \in FileRequests /\ ReadSound(docRequest'[r]) /\ docRequest'[r].of < docCurrent'
    <3>1. PICK p \in FileRequests : p = docRequest[r] /\ ReadSound(p)
      BY <1>0, <2>1, <2>3
    <3>2. p.of \in Nat /\ p.of <= docCurrent
      BY <3>1, DocsConstants DEF ReadSound, FileRequests
    <3>3. p.of < docCurrent'
      BY <1>0, <2>1, <3>2
    <3> QED BY <2>1, <3>1, <3>3 DEF ReadSound, K!Unchanged
  <2> QED BY <1>0, <2>1, <2>2, <2>3, RequestsMove DEF K!disk
<1>10. ASSUME K!Restart PROVE DocsInv'
  <2>1. /\ docRequest' = [r \in DocRequests |-> None] /\ docEpochs' = [i \in K!Instances |-> [d \in Docs |-> 0]]
        /\ UNCHANGED <<docStore, docTexts, docDeleted, docCurrent, docMixed>>
    BY <1>10 DEF K!Restart
  <2>2. /\ docHistory' \in [Docs -> [K!Versions -> DocTexts \cup {None}]] /\ \A d \in Docs : DocSound(d)'
    <3>1. CASE docHistory' = docHistory
      BY <1>0, <2>1, <3>1 DEF DocsInv, DocSound, DocsTypes
    <3>2. ASSUME NEW r \in DocRequests, docRequest[r] # None, docHistory' = K!Kept(docRequest[r])
          PROVE  /\ docHistory' \in [Docs -> [K!Versions -> DocTexts \cup {None}]] /\ \A d \in Docs : DocSound(d)'
      <4>1. PICK p \in FileRequests : p = docRequest[r] /\ ReadSound(p)
        BY <1>0, <3>2
      <4> QED BY <2>1, <3>2, <4>1, KeptKeeps, HistoryGrows
    <3> QED BY <1>10, <3>1, <3>2 DEF K!Restart
  <2>3. DocsTypes'
    BY <1>0, <2>1, <2>2 DEF DocsTypes
  <2> QED BY <2>1, <2>2, <2>3 DEF DocsInv
<1> QED BY <1>1, <1>3, <1>4, <1>6, <1>7, <1>8, <1>9, <1>10 DEF K!Next

(* No write is lost under another.                                          *)
LEMMA DocsKeepWrites == ASSUME DocsInv, K!Next PROVE K!NoWriteLost
<1> SUFFICES ASSUME NEW d \in Docs, docStore[d] # None, docStore'[d] # None, docStore'[d] # docStore[d], ~docMixed'
             PROVE  /\ docStore'[d].owner = docStore[d].owner
                    /\ \/ docStore'[d].version = docStore[d].version + 1
                       \/ docStore'[d] = [docStore[d] EXCEPT !.space = docStore'[d].space]
  BY DEF K!NoWriteLost
<1>0. DocsTypes /\ \A r \in DocRequests : docRequest[r] # None => docRequest[r] \in FileRequests /\ ReadSound(docRequest[r])
  BY DEF DocsInv, DocsTypes
<1>1. ASSUME NEW q \in FileRequests, ReadSound(q), K!Unchanged(q), K!Persist(q)
      PROVE  /\ docStore'[d].owner = docStore[d].owner
             /\ \/ docStore'[d].version = docStore[d].version + 1
                \/ docStore'[d] = [docStore[d] EXCEPT !.space = docStore'[d].space]
  <2>1. ~docMixed /\ q.of = docCurrent
    BY <1>1 DEF K!Persist
  <2>2. q.doc = d /\ docStore'[d] = q.file /\ q.what \in {"ingest", "reindex"}
    BY <1>0, <1>1 DEF K!Persist, DocsTypes, FileRequests
  <2>3. docStore[d] = q.before /\ q.before \in DocFiles
    BY <1>0, <1>1, <2>1, <2>2 DEF ReadSound, DocsTypes
  <2>4. CASE q.what = "ingest"
    BY <1>1, <2>2, <2>3, <2>4 DEF ReadSound, Continues
  <2>5. CASE q.what = "reindex"
    <3>1. q.file = [q.before EXCEPT !.space = q.file.space]
      BY <1>1, <2>5 DEF ReadSound, Continues
    <3> QED BY <2>2, <2>3, <3>1 DEF DocFiles
  <2> QED BY <2>2, <2>4, <2>5
<1>2. ASSUME NEW u \in Users, NEW c \in Docs, NEW t \in DocTexts, K!IngestNow(u, c, t)
      PROVE  \E q \in FileRequests : ReadSound(q) /\ K!Unchanged(q) /\ K!Persist(q)
  <2>1. K!Ingestion(u, c, t).file.version \in K!Versions /\ K!MayIngest(u, c)
    BY <1>2 DEF K!IngestNow
  <2>2. PICK q \in FileRequests : q = K!Ingestion(u, c, t) /\ ReadSound(q) /\ K!Unchanged(q)
    BY <2>1, IngestionSound
  <2> QED BY <1>2, <2>2 DEF K!IngestNow
<1>3. ASSUME NEW r \in DocRequests, K!Embedded(r)
      PROVE  \E q \in FileRequests : ReadSound(q) /\ K!Unchanged(q) /\ K!Persist(q)
  <2>1. PICK q \in FileRequests : q = docRequest[r] /\ ReadSound(q)
    BY <1>0, <1>3 DEF K!Embedded
  <2> QED BY <1>3, <2>1 DEF K!Embedded, K!disk
<1>4. ASSUME NEW u \in Users, NEW c \in Docs, NEW admin \in BOOLEAN, K!Delete(u, c, admin) PROVE FALSE
  BY <1>0, <1>4 DEF K!Delete, DocsTypes
<1>5. CASE UNCHANGED docStore
  BY <1>5
<1> QED
  BY <1>1, <1>2, <1>3, <1>4, <1>5 DEF K!Next, K!Begin, K!BeginReindex, K!Refused, K!Apply, K!Restart, K!disk

LEMMA DocsStay == ASSUME DocsInv, UNCHANGED docs PROVE DocsInv'
  BY DEF docs,
      DocsInv, DocSound, DocsTypes, ReadSound, K!Unchanged

-----------------------------------------------------------------------------
(* Long jobs.                                                               *)

LEMMA LongConstants ==
  /\ Long \notin Convs /\ MaxMemory \in Nat \ {0}
  /\ None \notin L!Jobs /\ None \notin JobRecords /\ None \notin TaskRecords /\ None \notin Deletions
  BY StoresAssumption

(* The instance counts as this module does.                                 *)
LEMMA ConclusionsCount == \A set : L!Cardinality(set) = Cardinality(set)
  BY DEF L!Cardinality, Cardinality

(* A sequence without repetition has as many elements as places.            *)
LEMMA InjectiveLength ==
  ASSUME NEW set, NEW m \in Seq(set), L!IsInjective(m)
  PROVE  IsFiniteSet(L!ToSet(m)) /\ Cardinality(L!ToSet(m)) = Len(m)
<1>1. m \in [1 .. Len(m) -> L!ToSet(m)] /\ Len(m) \in Nat
  BY DEF L!ToSet
<1>2. m \in Bijection(1 .. Len(m), L!ToSet(m))
  BY <1>1 DEF Bijection, Injection, Surjection, IsInjective, L!IsInjective, L!ToSet
<1>3. Cardinality(L!ToSet(m)) = Len(m)
  BY <1>1, <1>2, FS_CountingElements DEF ExistsBijection
<1>4. IsFiniteSet(1 .. Len(m))
  BY <1>1, FS_Interval
<1> QED BY <1>2, <1>3, <1>4, FS_Bijection DEF ExistsBijection

LEMMA WithoutOne ==
  ASSUME NEW set, NEW m \in Seq(set), L!IsInjective(m), NEW c
  PROVE  /\ L!Without(m, c) \in Seq(set) /\ L!IsInjective(L!Without(m, c)) /\ c \notin L!ToSet(L!Without(m, c))
         /\ L!ToSet(L!Without(m, c)) \subseteq L!ToSet(m)
         /\ Len(L!Without(m, c)) = IF c \in L!ToSet(m) THEN Len(m) - 1 ELSE Len(m)
<1>1. CASE c \in L!ToSet(m)
  <2> DEFINE i == CHOOSE k \in DOMAIN m : m[k] = c
             x == SubSeq(m, 1, i - 1)
             y == SubSeq(m, i + 1, Len(m))
             r == x \o y
  <2>1. i \in 1 .. Len(m) /\ m[i] = c /\ Len(m) \in Nat /\ DOMAIN m = 1 .. Len(m)
    BY <1>1 DEF L!ToSet
  <2>2. L!Without(m, c) = r
    BY <1>1 DEF L!Without, L!RemoveAt
  <2> HIDE DEF i
  <2>a. x \in Seq(set) /\ Len(x) = i - 1 /\ \A k \in 1 .. i - 1 : x[k] = m[k]
    BY <2>1
  <2>b. y \in Seq(set) /\ Len(y) = Len(m) - i /\ \A k \in 1 .. Len(m) - i : y[k] = m[i + k]
    <3>1. i + 1 \in Int /\ Len(m) \in Int /\ \A k \in i + 1 .. Len(m) : m[k] \in set
      BY <2>1
    <3>2. /\ y \in Seq(set) /\ Len(y) = IF i + 1 <= Len(m) THEN Len(m) - (i + 1) + 1 ELSE 0
          /\ \A k \in 1 .. Len(m) - (i + 1) + 1 : y[k] = m[(i + 1) + k - 1]
      BY <3>1, SubSeqProperties
    <3> HIDE DEF y
    <3>3. Len(y) = Len(m) - i
      <4>1. CASE i + 1 <= Len(m)
        BY <2>1, <3>2, <4>1
      <4>2. CASE i = Len(m)
        BY <2>1, <3>2, <4>2
      <4>3. i \in Int /\ Len(m) \in Int /\ i <= Len(m)
        BY <2>1
      <4>4. i + 1 <= Len(m) \/ i = Len(m)
        BY <4>3
      <4> QED BY <4>1, <4>2, <4>4
    <3>4. ASSUME NEW k \in 1 .. Len(m) - i PROVE y[k] = m[i + k]
      <4>1. k \in 1 .. Len(m) - (i + 1) + 1 /\ (i + 1) + k - 1 = i + k
        BY <2>1
      <4>2. y[k] = m[(i + 1) + k - 1]
        BY <3>2, <4>1
      <4> QED BY <4>1, <4>2
    <3> QED BY <3>2, <3>3, <3>4
  <2> HIDE DEF x, y
  <2>3. r \in Seq(set) /\ Len(r) = Len(m) - 1 /\ DOMAIN r = 1 .. Len(m) - 1
    <3>1. r \in Seq(set) /\ Len(r) = Len(x) + Len(y)
      BY <2>a, <2>b, ConcatProperties
    <3> HIDE DEF r
    <3> QED BY <2>1, <2>a, <2>b, <3>1
  <2>4. \A k \in 1 .. Len(m) - 1 : r[k] = IF k < i THEN m[k] ELSE m[k + 1]
    <3> SUFFICES ASSUME NEW k \in 1 .. Len(m) - 1 PROVE r[k] = IF k < i THEN m[k] ELSE m[k + 1]
      OBVIOUS
    <3>1. CASE k < i
      BY <2>1, <2>a, <2>b, <3>1
    <3>2. CASE ~(k < i)
      <4>1. k - (i - 1) \in 1 .. Len(m) - i /\ i + (k - (i - 1)) = k + 1
        BY <2>1, <3>2
      <4>2. r[k] = y[k - (i - 1)]
        BY <2>1, <2>a, <2>b, <3>2
      <4> QED BY <2>b, <3>2, <4>1, <4>2
    <3> QED BY <3>1, <3>2
  <2> HIDE DEF r
  <2>5. \A a, b \in DOMAIN m : m[a] = m[b] => a = b
    BY DEF L!IsInjective
  <2>6. L!IsInjective(r)
    <3> SUFFICES ASSUME NEW a \in 1 .. Len(m) - 1, NEW b \in 1 .. Len(m) - 1, r[a] = r[b] PROVE a = b
      BY <2>3 DEF L!IsInjective
    <3> DEFINE p == IF a < i THEN a ELSE a + 1
               q == IF b < i THEN b ELSE b + 1
    <3>1. p \in DOMAIN m /\ q \in DOMAIN m /\ m[p] = m[q]
      BY <2>1, <2>4
    <3>2. p = q
      BY <2>5, <3>1
    <3> QED BY <2>1, <3>2
  <2>7. \A k \in DOMAIN r : r[k] # c /\ r[k] \in L!ToSet(m)
    <3> SUFFICES ASSUME NEW k \in 1 .. Len(m) - 1 PROVE r[k] # c /\ r[k] \in L!ToSet(m)
      BY <2>3
    <3> DEFINE p == IF k < i THEN k ELSE k + 1
    <3>1. p \in DOMAIN m /\ p # i /\ r[k] = m[p]
      BY <2>1, <2>4
    <3> QED BY <2>1, <2>5, <3>1 DEF L!ToSet
  <2> QED BY <1>1, <2>2, <2>3, <2>6, <2>7 DEF L!ToSet
<1>2. CASE c \notin L!ToSet(m)
  BY <1>2 DEF L!Without
<1> QED BY <1>1, <1>2

LEMMA LatestOf ==
  ASSUME NEW set, NEW m \in Seq(set), L!IsInjective(m), NEW c \in set, c \notin L!ToSet(m)
  PROVE  LET all == Append(m, c)
             e == SubSeq(all, IF Len(all) > MaxMemory THEN Len(all) - MaxMemory + 1 ELSE 1, Len(all))
         IN /\ e \in Seq(set) /\ L!IsInjective(e) /\ L!ToSet(e) \subseteq L!ToSet(m) \cup {c}
            /\ Len(e) = IF Len(m) + 1 > MaxMemory THEN MaxMemory ELSE Len(m) + 1
<1> DEFINE all == Append(m, c)
           n == IF Len(all) > MaxMemory THEN Len(all) - MaxMemory + 1 ELSE 1
           e == SubSeq(all, n, Len(all))
<1> SUFFICES /\ e \in Seq(set) /\ L!IsInjective(e) /\ L!ToSet(e) \subseteq L!ToSet(m) \cup {c}
             /\ Len(e) = IF Len(m) + 1 > MaxMemory THEN MaxMemory ELSE Len(m) + 1
  OBVIOUS
<1>1. /\ Len(m) \in Nat /\ Len(all) = Len(m) + 1 /\ all \in Seq(set)
      /\ \A k \in 1 .. Len(m) : all[k] = m[k]
      /\ all[Len(m) + 1] = c /\ DOMAIN m = 1 .. Len(m)
  OBVIOUS
<1> HIDE DEF all
<1>2. n \in 1 .. Len(all) /\ n \in Nat /\ Len(all) - n + 1 = IF Len(m) + 1 > MaxMemory THEN MaxMemory ELSE Len(m) + 1
  BY <1>1, LongConstants
<1> HIDE DEF n
<1>3. /\ e \in Seq(set) /\ Len(e) = Len(all) - n + 1 /\ DOMAIN e = 1 .. (Len(all) - n + 1)
      /\ \A k \in 1 .. (Len(all) - n + 1) : e[k] = all[n + k - 1]
  BY <1>1, <1>2
<1> HIDE DEF e
<1>4. \A a, b \in 1 .. Len(all) : all[a] = all[b] => a = b
  <2>1. \A a \in 1 .. Len(m) : m[a] # c
    BY <1>1 DEF L!ToSet
  <2>2. \A a, b \in 1 .. Len(m) : m[a] = m[b] => a = b
    BY <1>1 DEF L!IsInjective
  <2> QED BY <1>1, <2>1, <2>2
<1>5. L!IsInjective(e)
  <2> SUFFICES ASSUME NEW a \in 1 .. (Len(all) - n + 1), NEW b \in 1 .. (Len(all) - n + 1), e[a] = e[b] PROVE a = b
    BY <1>3 DEF L!IsInjective
  <2>1. n + a - 1 \in 1 .. Len(all) /\ n + b - 1 \in 1 .. Len(all)
    BY <1>1, <1>2
  <2>2. n + a - 1 = n + b - 1
    BY <1>3, <1>4, <2>1
  <2> QED BY <1>1, <1>2, <2>2
<1>6. L!ToSet(e) \subseteq L!ToSet(m) \cup {c}
  <2>1. \A k \in 1 .. Len(all) : all[k] \in L!ToSet(m) \cup {c}
    BY <1>1 DEF L!ToSet
  <2>2. \A k \in 1 .. (Len(all) - n + 1) : n + k - 1 \in 1 .. Len(all)
    BY <1>1, <1>2
  <2> SUFFICES ASSUME NEW x \in L!ToSet(e) PROVE x \in L!ToSet(m) \cup {c}
    OBVIOUS
  <2>3. PICK k \in 1 .. (Len(all) - n + 1) : x = e[k]
    BY <1>3 DEF L!ToSet
  <2>4. x = all[n + k - 1]
    BY <1>3, <2>3
  <2> QED BY <2>1, <2>2, <2>4
<1> QED BY <1>2, <1>3, <1>5, <1>6

LEMMA EnteredType ==
  ASSUME NEW t \in ConvTasks, longTask[t].conv \in Convs, NEW m \in Seq(Convs) PROVE L!Entered(m, t) \in Seq(Convs)
<1> DEFINE c == longTask[t].conv
           w == L!Without(m, c)
           all == Append(w, c)
           n == IF Len(all) > MaxMemory THEN Len(all) - MaxMemory + 1 ELSE 1
<1>1. w \in Seq(Convs)
  <2>1. CASE c \in L!ToSet(m)
    <3> DEFINE i == CHOOSE k \in DOMAIN m : m[k] = c
    <3>1. i \in 1 .. Len(m) /\ Len(m) \in Nat
      BY <2>1 DEF L!ToSet
    <3>2. w = SubSeq(m, 1, i - 1) \o SubSeq(m, i + 1, Len(m))
      BY <2>1 DEF L!Without, L!RemoveAt
    <3> HIDE DEF i
    <3>3. SubSeq(m, 1, i - 1) \in Seq(Convs) /\ SubSeq(m, i + 1, Len(m)) \in Seq(Convs)
      BY <3>1
    <3> QED BY <3>2, <3>3, ConcatProperties
  <2>2. CASE c \notin L!ToSet(m)
    BY <2>2 DEF L!Without
  <2> QED BY <2>1, <2>2
<1> HIDE DEF w
<1>2. all \in Seq(Convs) /\ Len(all) \in Nat \ {0}
  BY <1>1
<1> HIDE DEF all
<1>3. n \in 1 .. Len(all)
  BY <1>2, LongConstants
<1> HIDE DEF n
<1>4. SubSeq(all, n, Len(all)) \in Seq(Convs)
  BY <1>2, <1>3
<1> QED BY <1>4 DEF L!Entered, all, n, w

(* What a conclusion does to the memory of a job.                           *)
LEMMA MemoryEntered ==
  ASSUME NEW t \in ConvTasks, longTask[t].conv \in Convs, NEW m \in Seq(Convs), L!IsInjective(m), Len(m) <= MaxMemory
  PROVE  /\ L!Entered(m, t) \in Seq(Convs) /\ L!IsInjective(L!Entered(m, t))
         /\ L!ToSet(L!Entered(m, t)) \subseteq L!ToSet(m) \cup {longTask[t].conv}
         /\ Len(L!Entered(m, t)) =
              IF longTask[t].conv \in L!ToSet(m) THEN Len(m) ELSE IF Len(m) + 1 > MaxMemory THEN MaxMemory ELSE Len(m) + 1
<1> DEFINE c == longTask[t].conv
           w == L!Without(m, c)
<1>1. /\ w \in Seq(Convs) /\ L!IsInjective(w) /\ c \notin L!ToSet(w) /\ L!ToSet(w) \subseteq L!ToSet(m)
      /\ Len(w) = IF c \in L!ToSet(m) THEN Len(m) - 1 ELSE Len(m)
  BY WithoutOne
<1>2. L!Entered(m, t) = SubSeq(Append(w, c), IF Len(Append(w, c)) > MaxMemory THEN Len(Append(w, c)) - MaxMemory + 1 ELSE 1, Len(Append(w, c)))
  BY DEF L!Entered
<1> HIDE DEF w
<1>3. /\ L!Entered(m, t) \in Seq(Convs) /\ L!IsInjective(L!Entered(m, t)) /\ L!ToSet(L!Entered(m, t)) \subseteq L!ToSet(w) \cup {c}
      /\ Len(L!Entered(m, t)) = IF Len(w) + 1 > MaxMemory THEN MaxMemory ELSE Len(w) + 1
  BY <1>1, <1>2, LatestOf
<1>4. Len(m) \in Nat
  OBVIOUS
<1> QED BY <1>1, <1>3, <1>4, LongConstants

LongTypes ==
  /\ longJob \in [L!Jobs -> JobRecords \cup {None}] /\ longTask \in [ConvTasks -> TaskRecords \cup {None}]
  /\ longGiven \in [ConvTasks -> Convs \cup {None}] /\ longDeletion \in Deletions \cup {None}
  /\ longConcluded \in [L!Jobs -> SUBSET Convs] /\ longEdits \in Nat

(* The memory of a job, as MemoryKept has it.                               *)
MemoryOf(j) ==
  /\ IsFiniteSet(longConcluded[j]) /\ (longJob[j] = None => longConcluded[j] = {})
  /\ (longJob[j] # None /\ j \notin longErased) =>
       /\ L!IsInjective(longJob[j].memory) /\ L!ToSet(longJob[j].memory) \subseteq longConcluded[j]
       /\ Len(longJob[j].memory) =
            IF Cardinality(longConcluded[j]) > MaxMemory THEN MaxMemory ELSE Cardinality(longConcluded[j])
       /\ longConcluded[j] \subseteq longJob[j].convs

(* The job of a conversation holds it, and so does the copy of it that a    *)
(* deletion read; a task knows only jobs that are there.                    *)
HoldsItsOwn == \A c \in Convs : longJob[c] # None => c \in longJob[c].convs
TaskSound(t) ==
  /\ longTask[t] # None /\ longTask[t].job # None => longJob[longTask[t].job] # None
  /\ longGiven[t] # None => longTask[t] # None /\ longGiven[t] = longTask[t].conv /\ longJob[longGiven[t]] # None
DeletionSound ==
  longDeletion # None => longJob[longDeletion.of] # None /\ (longDeletion.of \in Convs => longDeletion.of \in longDeletion.seen.convs)
                      /\ \A t \in longDeletion.left : longTask[t] # None

LongInv ==
  /\ LongTypes
  /\ \A j \in L!Jobs : MemoryOf(j)
  /\ HoldsItsOwn /\ DeletionSound
  /\ \A t \in ConvTasks : TaskSound(t)

LEMMA LongInvSafe == LongInv => L!Safe
<1> SUFFICES ASSUME LongInv PROVE L!Safe
  OBVIOUS
<1>1. L!MemoryKept
  BY ConclusionsCount DEF LongInv, MemoryOf, L!MemoryKept
<1>2. L!ShownWhereHeld
  BY DEF LongInv, LongTypes, TaskSound, HoldsItsOwn, L!ShownWhereHeld
<1> QED BY <1>1, <1>2 DEF L!Safe

LEMMA LongInit == L!Init => LongInv
<1> SUFFICES ASSUME L!Init PROVE LongInv
  OBVIOUS
<1>1. LongTypes
  BY DEF L!Init, LongTypes
<1>2. \A j \in L!Jobs : MemoryOf(j)
  BY FS_EmptySet DEF L!Init, MemoryOf
<1>3. HoldsItsOwn /\ DeletionSound /\ \A t \in ConvTasks : TaskSound(t)
  BY DEF L!Init, HoldsItsOwn, DeletionSound, TaskSound, L!Jobs
<1> QED BY <1>1, <1>2, <1>3 DEF LongInv

(* The parts of the invariant that steps of a task leave alone.             *)
LEMMA JobsUntouched ==
  ASSUME LongInv, UNCHANGED <<longJob, longConcluded, longErased>> PROVE (\A j \in L!Jobs : MemoryOf(j)') /\ HoldsItsOwn'
  BY DEF LongInv, MemoryOf, HoldsItsOwn

(* What a deletion knows holds while jobs and tasks remain.                 *)
LEMMA DeletionStays ==
  ASSUME LongInv, \A i \in L!Jobs : longJob[i] # None => longJob'[i] # None, \A t \in ConvTasks : longTask[t] # None => longTask'[t] # None,
         UNCHANGED longDeletion
  PROVE  DeletionSound'
<1>1. ASSUME longDeletion # None
      PROVE  /\ longDeletion' = longDeletion /\ longDeletion.of \in L!Jobs /\ longDeletion.left \subseteq ConvTasks /\ longJob[longDeletion.of] # None
             /\ (longDeletion.of \in Convs => longDeletion.of \in longDeletion.seen.convs) /\ \A t \in longDeletion.left : longTask[t] # None
  BY <1>1 DEF LongInv, DeletionSound, LongTypes, Deletions
<1> QED BY <1>1 DEF DeletionSound

(* Only a task moves on, to a job that is there.                            *)
LEMMA TaskMoves ==
  ASSUME LongInv, NEW t \in ConvTasks, NEW r \in TaskRecords, longTask' = [longTask EXCEPT ![t] = r],
         UNCHANGED <<longJob, longGiven, longDeletion, longConcluded, longErased>>, longEdits' \in Nat,
         r.job # None => longJob[r.job] # None, longGiven[t] # None => r.conv = longTask[t].conv
  PROVE  LongInv'
<1>0. LongTypes
  BY DEF LongInv
<1>1. LongTypes'
  BY <1>0 DEF LongTypes
<1>2. \A s \in ConvTasks : TaskSound(s)'
  <2>1. r # None
    BY LongConstants
  <2> QED BY <1>0, <2>1 DEF LongInv, TaskSound, LongTypes
<1>3. DeletionSound'
  <2>1. \A s \in ConvTasks : longTask[s] # None => longTask'[s] # None
    BY <1>0, LongConstants DEF LongTypes
  <2> QED BY <2>1, DeletionStays
<1> QED BY <1>1, <1>2, <1>3, JobsUntouched DEF LongInv

(* A job is made that was not there.                                        *)
LEMMA FreshIsSound ==
  ASSUME LongInv, NEW j \in L!Jobs, longJob[j] = None, NEW r \in JobRecords, r.memory = <<>>,
         longJob' = [longJob EXCEPT ![j] = r], j \in Convs => j \in r.convs,
         UNCHANGED <<longConcluded, longErased>>
  PROVE  /\ longJob' \in [L!Jobs -> JobRecords \cup {None}] /\ \A i \in L!Jobs : MemoryOf(i)'
         /\ HoldsItsOwn' /\ \A i \in L!Jobs : longJob[i] # None => longJob'[i] # None
<1>0. LongTypes /\ r # None /\ MaxMemory \in Nat
  BY LongConstants DEF LongInv
<1>1. longJob' \in [L!Jobs -> JobRecords \cup {None}]
  BY <1>0 DEF LongTypes
<1>2. ASSUME NEW i \in L!Jobs PROVE MemoryOf(i)'
  <2>1. CASE i # j
    BY <1>0, <2>1 DEF LongInv, MemoryOf, LongTypes
  <2>2. CASE i = j
    <3>1. longConcluded'[i] = {} /\ longJob'[i].memory = <<>>
      BY <1>0, <2>2 DEF LongInv, MemoryOf, LongTypes
    <3>2. L!IsInjective(<<>>) /\ L!ToSet(<<>>) = {} /\ Len(<<>>) = 0
      BY DEF L!IsInjective, L!ToSet
    <3>3. IsFiniteSet({}) /\ Cardinality({}) = 0 /\ ~(0 > MaxMemory)
      BY <1>0, FS_EmptySet
    <3>4. longJob'[i] # None
      BY <1>0, <2>2 DEF LongTypes
    <3> QED BY <3>1, <3>2, <3>3, <3>4 DEF MemoryOf
  <2> QED BY <2>1, <2>2
<1>3. HoldsItsOwn'
  BY <1>0 DEF LongInv, HoldsItsOwn, LongTypes, L!Jobs
<1> QED BY <1>0, <1>1, <1>2, <1>3 DEF LongTypes

(* A job is edited, and keeps its conversations and its memory.             *)
LEMMA EditIsSound ==
  ASSUME LongInv, NEW j \in L!Jobs, longJob[j] # None, NEW r \in JobRecords, r.memory = longJob[j].memory, r.convs = longJob[j].convs,
         longJob' = [longJob EXCEPT ![j] = r], UNCHANGED longConcluded, longErased \subseteq longErased'
  PROVE  /\ longJob' \in [L!Jobs -> JobRecords \cup {None}] /\ \A i \in L!Jobs : MemoryOf(i)'
         /\ HoldsItsOwn' /\ \A i \in L!Jobs : longJob[i] # None <=> longJob'[i] # None
<1>0. LongTypes /\ r # None
  BY LongConstants DEF LongInv
<1>1. longJob' \in [L!Jobs -> JobRecords \cup {None}]
  BY <1>0 DEF LongTypes
<1>2. \A i \in L!Jobs : MemoryOf(i)'
  BY <1>0 DEF LongInv, MemoryOf, LongTypes
<1>3. HoldsItsOwn'
  BY <1>0 DEF LongInv, HoldsItsOwn, LongTypes, L!Jobs
<1> QED BY <1>0, <1>1, <1>2, <1>3 DEF LongTypes

(* What tasks and a deletion know of jobs holds while jobs remain.          *)
LEMMA KnownJobsRemain ==
  ASSUME LongInv, LongTypes', \A i \in L!Jobs : longJob[i] # None => longJob'[i] # None, UNCHANGED <<longGiven, longDeletion>>,
         \A s \in ConvTasks : longTask'[s] = longTask[s]
  PROVE  DeletionSound' /\ \A s \in ConvTasks : TaskSound(s)'
<1>0. LongTypes
  BY DEF LongInv
<1>1. DeletionSound'
  BY DeletionStays
<1>2. \A s \in ConvTasks : TaskSound(s)'
  BY <1>0 DEF LongInv, TaskSound, LongTypes, TaskRecords, L!Jobs
<1> QED BY <1>1, <1>2

Same(q, r) == q \in TaskRecords /\ q.job = r.job /\ q.conv = r.conv

LEMMA TaskFields ==
  ASSUME NEW r \in TaskRecords
  PROVE  /\ r # None /\ r.conv \in Convs /\ r.filed \in L!Jobs \cup {None} /\ r.job \in L!Jobs \cup {None} /\ r.tool \in BOOLEAN
         /\ r.chosen \in BOOLEAN
         /\ \A s \in {"queued", "running", "finished", "cancelled"}, a \in {"made", "ready", "running", "ended", "left"} :
              Same([r EXCEPT !.status = s, !.at = a], r)
         /\ \A a \in {"made", "ready", "running", "ended", "left"} : Same([r EXCEPT !.at = a], r)
         /\ \A s \in {"queued", "running", "finished", "cancelled"} : Same([r EXCEPT !.status = s], r)
         /\ \A j \in L!Jobs : [r EXCEPT !.job = j] \in TaskRecords /\ [r EXCEPT !.job = j].job = j /\ [r EXCEPT !.job = j].conv = r.conv
         /\ L!Left(r) \in TaskRecords /\ L!Left(r).conv = r.conv /\ L!Left(r).job = None
  BY LongConstants DEF TaskRecords, L!Left, Same

LEMMA LongStep == ASSUME LongInv, L!Next PROVE LongInv'
<1> USE DEF L!Made
<1>0. LongTypes /\ longEdits \in Nat /\ \A t \in ConvTasks : longTask[t] # None => longTask[t] \in TaskRecords
  BY DEF LongInv, LongTypes
<1>1. ASSUME L!Create PROVE LongInv'
  <2>1z. (L!Fresh("named", {})) \in JobRecords /\ (L!Fresh("named", {})).memory = <<>>
    BY DEF L!Fresh, JobRecords, L!JobStatus
  <2>1. PICK r \in JobRecords : r = L!Fresh("named", {}) /\ r.memory = <<>>
    BY <2>1z
  <2>2. longJob[Long] = None /\ longJob' = [longJob EXCEPT ![Long] = r] /\ Long \in L!Jobs /\ Long \notin Convs
        /\ UNCHANGED <<longTask, longGiven, longDeletion, longConcluded, longErased, longEdits>>
    BY <1>1, <2>1, LongConstants DEF L!Create, L!Jobs
  <2>3. /\ longJob' \in [L!Jobs -> JobRecords \cup {None}] /\ \A i \in L!Jobs : MemoryOf(i)'
        /\ HoldsItsOwn' /\ \A i \in L!Jobs : longJob[i] # None => longJob'[i] # None
    BY <2>1, <2>2, FreshIsSound
  <2>4. LongTypes'
    BY <1>0, <2>2, <2>3 DEF LongTypes
  <2> QED BY <2>2, <2>3, <2>4, KnownJobsRemain DEF LongInv
<1>2. ASSUME NEW t \in ConvTasks, NEW c \in Convs, NEW j \in L!Jobs \cup {None}, NEW tool \in BOOLEAN, NEW chosen \in BOOLEAN,
             ~L!Made(t), j # None => longJob[j] # None, longTask' = [longTask EXCEPT ![t] = L!NewTask(c, j, tool, chosen)],
             UNCHANGED <<longJob, longGiven, longDeletion, longConcluded, longErased, longEdits>>
      PROVE  LongInv'
  <2>1z. (L!NewTask(c, j, tool, chosen)) \in TaskRecords /\ (L!NewTask(c, j, tool, chosen)).job = j
    BY DEF L!NewTask, TaskRecords
  <2>1. PICK r \in TaskRecords : r = L!NewTask(c, j, tool, chosen) /\ r.job = j
    BY <2>1z
  <2>2. longGiven[t] = None
    BY <1>2 DEF LongInv, TaskSound
  <2> QED BY <1>0, <1>2, <2>1, <2>2, TaskMoves
<1>3. ASSUME NEW t \in ConvTasks, NEW c \in Convs, L!SubmitToJob(t, c) PROVE LongInv'
  BY <1>2, <1>3 DEF L!SubmitToJob, L!Jobs
<1>4. ASSUME NEW t \in ConvTasks, NEW c \in Convs, NEW chosen \in BOOLEAN, L!Submit(t, c, chosen) PROVE LongInv'
  <2>1. ~L!Made(t) /\ UNCHANGED <<longJob, longGiven, longDeletion, longConcluded, longErased, longEdits>>
    BY <1>4 DEF L!Submit
  <2>2. CASE longTask' = [longTask EXCEPT ![t] = L!NewTask(c, None, TRUE, chosen)]
    BY <1>2, <2>1, <2>2
  <2>3. ASSUME NEW j \in L!Holding(c), longTask' = [longTask EXCEPT ![t] = L!NewTask(c, j, longJob[j].title = "new", chosen)] PROVE LongInv'
    BY <1>2, <2>1, <2>3 DEF L!Holding
  <2> QED BY <1>4, <2>2, <2>3 DEF L!Submit
<1>5. ASSUME NEW t \in ConvTasks, L!Enroll(t) PROVE LongInv'
  <2> DEFINE c == longTask[t].conv
             k == longTask[t]
  <2>0. k \in TaskRecords /\ k # None /\ c \in Convs /\ c \in L!Jobs /\ UNCHANGED <<longDeletion, longConcluded, longErased, longEdits>>
    BY <1>0, <1>5, TaskFields DEF L!Enroll, L!Jobs
  <2>1. CASE longTask' = [longTask EXCEPT ![t].at = "ready"] /\ UNCHANGED <<longJob, longGiven>>
    <3>1z. ([k EXCEPT !.at = "ready"]) \in TaskRecords /\ ([k EXCEPT !.at = "ready"]).job = k.job /\ ([k EXCEPT !.at = "ready"]).conv = k.conv
      BY <2>0, TaskFields DEF Same
    <3>1. PICK r \in TaskRecords : r = [k EXCEPT !.at = "ready"] /\ r.job = k.job /\ r.conv = k.conv
      BY <3>1z
    <3>2. longTask' = [longTask EXCEPT ![t] = r]
      BY <1>0, <2>1, <3>1
    <3>3. r.job # None => longJob[r.job] # None
      BY <2>0, <3>1 DEF LongInv, TaskSound
    <3> QED BY <1>0, <2>0, <2>1, <3>1, <3>2, <3>3, TaskMoves
  <2>2. CASE longTask' = [longTask EXCEPT ![t] = L!Left(@)] /\ UNCHANGED <<longJob, longGiven>>
    <3>1z. (L!Left(k)) \in TaskRecords /\ (L!Left(k)).job = None /\ (L!Left(k)).conv = k.conv
      BY <2>0, TaskFields
    <3>1. PICK r \in TaskRecords : r = L!Left(k) /\ r.job = None /\ r.conv = k.conv
      BY <3>1z
    <3>2. longTask' = [longTask EXCEPT ![t] = r]
      BY <1>0, <2>2, <3>1
    <3> QED BY <1>0, <2>0, <2>2, <3>1, <3>2, TaskMoves
  <2>3. CASE /\ longJob[c] = None /\ longJob' = [longJob EXCEPT ![c] = L!Fresh("new", {c})]
             /\ longTask' = [longTask EXCEPT ![t].at = "ready", ![t].job = c] /\ longGiven' = [longGiven EXCEPT ![t] = c]
    <3>1z. (L!Fresh("new", {c})) \in JobRecords /\ (L!Fresh("new", {c})).memory = <<>> /\ (L!Fresh("new", {c})).convs = {c}
      BY <2>0 DEF L!Fresh, JobRecords, L!JobStatus
    <3>1. PICK f \in JobRecords : f = L!Fresh("new", {c}) /\ f.memory = <<>> /\ f.convs = {c}
      BY <3>1z
    <3>2. /\ longJob' \in [L!Jobs -> JobRecords \cup {None}] /\ \A i \in L!Jobs : MemoryOf(i)'
          /\ HoldsItsOwn' /\ \A i \in L!Jobs : longJob[i] # None => longJob'[i] # None
      BY <2>0, <2>3, <3>1, FreshIsSound
    <3>3. PICK r \in TaskRecords : r = [[k EXCEPT !.at = "ready"] EXCEPT !.job = c] /\ r.job = c /\ r.conv = c
      <4>1z. ([k EXCEPT !.at = "ready"]) \in TaskRecords /\ ([k EXCEPT !.at = "ready"]).conv = c
        BY <2>0, TaskFields DEF Same
      <4>1. PICK p \in TaskRecords : p = [k EXCEPT !.at = "ready"] /\ p.conv = c
        BY <4>1z
      <4>2. [p EXCEPT !.job = c] \in TaskRecords /\ [p EXCEPT !.job = c].job = c /\ [p EXCEPT !.job = c].conv = c
        BY <2>0, <4>1 DEF TaskRecords
      <4> QED BY <4>1, <4>2
    <3>4. longTask' = [longTask EXCEPT ![t] = r]
      BY <1>0, <2>0, <2>3, <3>3 DEF LongTypes
    <3>5. longJob'[c] # None
      BY <1>0, <2>0, <2>3, <3>1, LongConstants DEF LongTypes
    <3>6. LongTypes'
      <4>1. longTask' \in [ConvTasks -> TaskRecords \cup {None}]
        BY <1>0, <3>4 DEF LongTypes
      <4>2. longGiven' \in [ConvTasks -> Convs \cup {None}]
        BY <1>0, <2>0, <2>3 DEF LongTypes
      <4> QED BY <1>0, <2>0, <3>2, <4>1, <4>2 DEF LongTypes
    <3>7. \A s \in ConvTasks : TaskSound(s)'
      <4> SUFFICES ASSUME NEW s \in ConvTasks PROVE TaskSound(s)'
        OBVIOUS
      <4>1. CASE s = t
        <5>1. longTask'[s] = r /\ longGiven'[s] = c
          BY <1>0, <2>3, <3>4, <4>1 DEF LongTypes
        <5>2. r # None
          BY LongConstants
        <5> QED BY <3>3, <3>5, <5>1, <5>2 DEF TaskSound
      <4>2. CASE s # t
        <5>1. longTask'[s] = longTask[s] /\ longGiven'[s] = longGiven[s]
          BY <1>0, <2>3, <3>4, <4>2 DEF LongTypes
        <5>2. TaskSound(s) /\ (longTask[s] # None => longTask[s].job \in L!Jobs \cup {None}) /\ longGiven[s] \in L!Jobs \cup {None}
          BY <1>0, TaskFields DEF LongInv, LongTypes, L!Jobs
        <5> QED BY <3>2, <5>1, <5>2 DEF TaskSound
      <4> QED BY <4>1, <4>2
    <3>8. DeletionSound'
      <4>1. \A s \in ConvTasks : longTask[s] # None => longTask'[s] # None
        BY <1>0, <3>4, LongConstants DEF LongTypes
      <4> QED BY <2>0, <3>2, <4>1, DeletionStays
    <3> QED BY <3>2, <3>6, <3>7, <3>8 DEF LongInv
  <2> QED BY <1>5, <2>1, <2>2, <2>3 DEF L!Enroll
<1>6. ASSUME NEW t \in ConvTasks, longTask[t] # None, NEW s \in {"queued", "running", "finished", "cancelled"},
             NEW a \in {"made", "ready", "running", "ended", "left"},
             longTask' = [longTask EXCEPT ![t].at = a, ![t].status = s], UNCHANGED <<longJob, longGiven, longDeletion, longConcluded, longErased, longEdits>>
      PROVE  LongInv'
  <2> DEFINE k == longTask[t]
  <2>5. k \in TaskRecords
    BY <1>0, <1>6
  <2>1z. ([k EXCEPT !.status = s, !.at = a]) \in TaskRecords /\ ([k EXCEPT !.status = s, !.at = a]).job = k.job /\ ([k EXCEPT !.status = s, !.at = a]).conv = k.conv
    BY <1>6, <2>5 DEF TaskRecords
  <2>1. PICK r \in TaskRecords : r = [k EXCEPT !.status = s, !.at = a] /\ r.job = k.job /\ r.conv = k.conv
    BY <2>1z
  <2>2. longTask' = [longTask EXCEPT ![t] = r]
    BY <1>0, <1>6, <2>1 DEF LongTypes, TaskRecords
  <2>3. r.job # None => longJob[r.job] # None
    BY <1>6, <2>1 DEF LongInv, TaskSound
  <2> QED BY <1>0, <1>6, <2>1, <2>2, <2>3, TaskMoves
<1>7. ASSUME NEW t \in ConvTasks, L!Start(t) PROVE LongInv'
  <2>1. longTask[t] # None /\ longTask[t].status \in {"queued", "running", "finished", "cancelled"}
    BY <1>0, <1>7 DEF L!Start, TaskRecords
  <2> DEFINE a == IF longTask[t].status = "cancelled" THEN "ended" ELSE "running"
             s == IF longTask[t].status = "queued" THEN "running" ELSE longTask[t].status
  <2>2. longTask' = [longTask EXCEPT ![t].at = a, ![t].status = s] /\ UNCHANGED <<longJob, longGiven, longDeletion, longConcluded, longErased, longEdits>>
    BY <1>7 DEF L!Start
  <2>3. a \in {"made", "ready", "running", "ended", "left"} /\ s \in {"queued", "running", "finished", "cancelled"}
    BY <2>1
  <2> HIDE DEF a, s
  <2> QED BY <1>6, <2>1, <2>2, <2>3
<1>8. ASSUME NEW t \in ConvTasks, L!Register(t) PROVE LongInv'
  <2> DEFINE c == longTask[t].conv
             k == longTask[t]
  <2>0. /\ k \in TaskRecords /\ k # None /\ c \in Convs /\ c \in L!Jobs /\ UNCHANGED <<longDeletion, longConcluded, longErased, longEdits>>
        /\ longJob' = [longJob EXCEPT ![c] = IF longJob[c] = None THEN L!Fresh("named", {c}) ELSE [longJob[c] EXCEPT !.title = "named"]]
        /\ longGiven' = [s \in ConvTasks |-> IF s \in L!Of(c) THEN c ELSE longGiven[s]]
        /\ longTask' = [longTask EXCEPT ![t].job = c]
    BY <1>0, <1>8, TaskFields DEF L!Register, L!Jobs
  <2>1. /\ longJob' \in [L!Jobs -> JobRecords \cup {None}] /\ \A i \in L!Jobs : MemoryOf(i)'
        /\ HoldsItsOwn' /\ (\A i \in L!Jobs : longJob[i] # None => longJob'[i] # None) /\ longJob'[c] # None
    <3>1. CASE longJob[c] = None
      <4>1z. (L!Fresh("named", {c})) \in JobRecords /\ (L!Fresh("named", {c})).memory = <<>> /\ (L!Fresh("named", {c})).convs = {c}
        BY <2>0 DEF L!Fresh, JobRecords, L!JobStatus
      <4>1. PICK f \in JobRecords : f = L!Fresh("named", {c}) /\ f.memory = <<>> /\ f.convs = {c}
        BY <4>1z
      <4>2. longJob' = [longJob EXCEPT ![c] = f]
        BY <2>0, <3>1, <4>1
      <4>3. /\ longJob' \in [L!Jobs -> JobRecords \cup {None}] /\ \A i \in L!Jobs : MemoryOf(i)'
            /\ HoldsItsOwn' /\ \A i \in L!Jobs : longJob[i] # None => longJob'[i] # None
        BY <2>0, <3>1, <4>1, <4>2, FreshIsSound
      <4> QED BY <1>0, <2>0, <4>2, <4>3, LongConstants DEF LongTypes
    <3>2. CASE longJob[c] # None
      <4>1z. ([longJob[c] EXCEPT !.title = "named"]) \in JobRecords /\ ([longJob[c] EXCEPT !.title = "named"]).memory = longJob[c].memory /\ ([longJob[c] EXCEPT !.title = "named"]).convs = longJob[c].convs
        BY <1>0, <2>0, <3>2 DEF LongTypes, JobRecords
      <4>1. PICK f \in JobRecords : f = [longJob[c] EXCEPT !.title = "named"] /\ f.memory = longJob[c].memory /\ f.convs = longJob[c].convs
        BY <4>1z
      <4>2. longJob' = [longJob EXCEPT ![c] = f] /\ longErased \subseteq longErased'
        BY <2>0, <3>2, <4>1
      <4>3. /\ longJob' \in [L!Jobs -> JobRecords \cup {None}] /\ \A i \in L!Jobs : MemoryOf(i)'
            /\ HoldsItsOwn' /\ \A i \in L!Jobs : longJob[i] # None <=> longJob'[i] # None
        BY <2>0, <3>2, <4>1, <4>2, EditIsSound
      <4> QED BY <2>0, <3>2, <4>3
    <3> QED BY <3>1, <3>2
  <2>2z. ([k EXCEPT !.job = c]) \in TaskRecords /\ ([k EXCEPT !.job = c]).job = c /\ ([k EXCEPT !.job = c]).conv = c
    BY <2>0, TaskFields
  <2>2. PICK r \in TaskRecords : r = [k EXCEPT !.job = c] /\ r.job = c /\ r.conv = c
    BY <2>2z
  <2>3. longTask' = [longTask EXCEPT ![t] = r] /\ r # None
    BY <1>0, <2>0, <2>2, LongConstants DEF LongTypes
  <2>4. LongTypes'
    BY <1>0, <2>0, <2>1, <2>2, <2>3 DEF LongTypes
  <2>5. \A s \in ConvTasks : TaskSound(s)'
    <3> SUFFICES ASSUME NEW s \in ConvTasks PROVE TaskSound(s)'
      OBVIOUS
    <3>1. /\ TaskSound(s) /\ (longTask[s] # None => longTask[s].job \in L!Jobs \cup {None}) /\ longGiven[s] \in L!Jobs \cup {None}
          /\ (longTask'[s] = None <=> longTask[s] = None) /\ longTask'[s].conv = longTask[s].conv
          /\ longTask'[s].job \in {longTask[s].job, c}
      BY <1>0, <2>0, <2>2, <2>3, TaskFields DEF LongInv, LongTypes, L!Jobs
    <3>2. CASE s \in L!Of(c)
      <4>1. longGiven'[s] = c /\ longTask[s] # None /\ longTask[s].conv = c
        BY <2>0, <3>2 DEF L!Of
      <4> QED BY <2>0, <2>1, <3>1, <4>1 DEF TaskSound
    <3>3. CASE s \notin L!Of(c)
      <4>1. longGiven'[s] = longGiven[s]
        BY <2>0, <3>3
      <4> QED BY <2>0, <2>1, <3>1, <4>1 DEF TaskSound
    <3> QED BY <3>2, <3>3
  <2>6. DeletionSound'
    <3>1. \A s \in ConvTasks : longTask[s] # None => longTask'[s] # None
      BY <1>0, <2>3, LongConstants DEF LongTypes
    <3> QED BY <2>0, <2>1, <3>1, DeletionStays
  <2> QED BY <2>1, <2>4, <2>5, <2>6 DEF LongInv
<1>9. ASSUME NEW t \in ConvTasks, L!Finish(t) PROVE LongInv'
  <2> DEFINE k == longTask[t]
             over == [k EXCEPT !.at = "ended", !.status = IF k.status = "running" THEN "finished" ELSE k.status]
  <2>0. k \in TaskRecords /\ k # None /\ UNCHANGED <<longJob, longGiven, longDeletion, longConcluded, longErased, longEdits>>
    BY <1>0, <1>9 DEF L!Finish
  <2>1z. (over) \in TaskRecords /\ (over).job = k.job /\ (over).conv = k.conv
    BY <2>0 DEF TaskRecords
  <2>1. PICK o \in TaskRecords : o = over /\ o.job = k.job /\ o.conv = k.conv
    BY <2>1z
  <2>2. longTask' = [longTask EXCEPT ![t] = o] \/ longTask' = [longTask EXCEPT ![t] = L!Left(o)]
    BY <1>9, <2>1 DEF L!Finish
  <2>3. k.job # None => longJob[k.job] # None
    BY <2>0 DEF LongInv, TaskSound
  <2>4. CASE longTask' = [longTask EXCEPT ![t] = o]
    BY <1>0, <2>0, <2>1, <2>3, <2>4, TaskMoves
  <2>5. CASE longTask' = [longTask EXCEPT ![t] = L!Left(o)]
    <3>1z. (L!Left(o)) \in TaskRecords /\ (L!Left(o)).job = None /\ (L!Left(o)).conv = k.conv
      BY <2>1, TaskFields
    <3>1. PICK r \in TaskRecords : r = L!Left(o) /\ r.job = None /\ r.conv = k.conv
      BY <3>1z
    <3> QED BY <1>0, <2>0, <2>5, <3>1, TaskMoves
  <2> QED BY <2>2, <2>4, <2>5
<1>10. ASSUME NEW t \in ConvTasks, L!Conclude(t) PROVE LongInv'
  <2> DEFINE k == longTask[t]
             c == k.conv
             j == k.job
  <2>0. k \in TaskRecords /\ k # None /\ c \in Convs /\ j \in L!Jobs \cup {None} /\ UNCHANGED <<longGiven, longDeletion, longErased, longEdits>>
    BY <1>0, <1>10, TaskFields DEF L!Conclude
  <2>1z. (L!Left(k)) \in TaskRecords /\ (L!Left(k)).job = None /\ (L!Left(k)).conv = c
    BY <2>0, TaskFields
  <2>1. PICK r \in TaskRecords : r = L!Left(k) /\ r.job = None /\ r.conv = c
    BY <2>1z
  <2>2. longTask' = [longTask EXCEPT ![t] = r]
    BY <1>10, <2>1 DEF L!Conclude
  <2>3. CASE j = None
    <3>1. UNCHANGED <<longJob, longConcluded>>
      BY <1>10, <2>3 DEF L!Conclude
    <3> QED BY <1>0, <2>0, <2>1, <2>2, <3>1, TaskMoves
  <2>4. CASE j # None
    <3>0. /\ j \in L!Jobs /\ longJob[j] # None /\ longJob[j] \in JobRecords
          /\ longJob' = [longJob EXCEPT ![j].convs = @ \cup {c}, ![j].memory = L!Entered(@, t)]
          /\ longConcluded' = [longConcluded EXCEPT ![j] = @ \cup {c}]
      BY <1>0, <1>10, <2>0, <2>4 DEF L!Conclude, LongInv, TaskSound, LongTypes
    <3> DEFINE f == [longJob[j] EXCEPT !.convs = longJob[j].convs \cup {c}, !.memory = L!Entered(longJob[j].memory, t)]
    <3>1. longJob' = [longJob EXCEPT ![j] = f]
      BY <1>0, <3>0 DEF LongTypes, JobRecords
    <3>a. f.convs = longJob[j].convs \cup {c} /\ f.memory = L!Entered(longJob[j].memory, t)
      BY <3>0 DEF JobRecords
    <3>5. f \in JobRecords
      BY <2>0, <3>0, EnteredType DEF JobRecords
    <3> DEFINE m == longJob[j].memory
    <3>3. m \in Seq(Convs) /\ MemoryOf(j) /\ IsFiniteSet(longConcluded[j]) /\ MaxMemory \in Nat
      BY <3>0, LongConstants DEF LongInv, JobRecords, MemoryOf
    <3>4. ASSUME NEW i \in L!Jobs PROVE MemoryOf(i)'
      <4>1. CASE i # j
        <5>1. longJob'[i] = longJob[i] /\ longConcluded'[i] = longConcluded[i] /\ longErased' = longErased
          BY <1>0, <2>0, <3>0, <4>1 DEF LongTypes
        <5> QED BY <5>1 DEF LongInv, MemoryOf
      <4>2. CASE i = j
        <5>1. longJob'[j] = f /\ longConcluded'[j] = longConcluded[j] \cup {c} /\ longErased' = longErased
          BY <1>0, <2>0, <3>0, <3>1 DEF LongTypes
        <5>2. IsFiniteSet(longConcluded'[j]) /\ longJob'[j] # None
          <6>1. IsFiniteSet(longConcluded[j] \cup {c})
            BY <3>3, FS_AddElement
          <6>2. longJob'[j] # None
            BY <3>5, <5>1, LongConstants
          <6> QED BY <5>1, <6>1, <6>2
        <5>3. ASSUME j \notin longErased
              PROVE  /\ L!IsInjective(f.memory) /\ L!ToSet(f.memory) \subseteq longConcluded[j] \cup {c}
                     /\ Len(f.memory) = IF Cardinality(longConcluded[j] \cup {c}) > MaxMemory THEN MaxMemory
                                        ELSE Cardinality(longConcluded[j] \cup {c})
                     /\ longConcluded[j] \cup {c} \subseteq f.convs
          <6>0z. (Cardinality(longConcluded[j])) \in Nat
            BY <3>3, FS_CardinalityType
          <6>0. PICK n \in Nat : n = Cardinality(longConcluded[j])
            BY <6>0z
          <6>1. /\ L!IsInjective(m) /\ L!ToSet(m) \subseteq longConcluded[j] /\ longConcluded[j] \subseteq longJob[j].convs
                /\ Len(m) = IF n > MaxMemory THEN MaxMemory ELSE n
            BY <3>0, <3>3, <5>3, <6>0 DEF MemoryOf
          <6>2. Len(m) \in Nat /\ Len(m) <= MaxMemory
            BY <3>3, <6>0, <6>1
          <6>3. /\ L!IsInjective(f.memory) /\ L!ToSet(f.memory) \subseteq L!ToSet(m) \cup {c}
                /\ Len(f.memory) = IF c \in L!ToSet(m) THEN Len(m) ELSE IF Len(m) + 1 > MaxMemory THEN MaxMemory ELSE Len(m) + 1
            BY <2>0, <3>3, <3>a, <6>1, <6>2, MemoryEntered
          <6>4. longConcluded[j] \cup {c} \subseteq f.convs
            BY <3>a, <6>1
          <6>5. IsFiniteSet(L!ToSet(m)) /\ Cardinality(L!ToSet(m)) = Len(m)
            BY <3>3, <6>1, InjectiveLength
          <6>6. CASE c \notin longConcluded[j]
            <7>1. Cardinality(longConcluded[j] \cup {c}) = n + 1
              BY <3>3, <6>0, <6>6, FS_AddElement
            <7>2. Len(f.memory) = IF Len(m) + 1 > MaxMemory THEN MaxMemory ELSE Len(m) + 1
              BY <6>1, <6>3, <6>6
            <7>3. L!ToSet(f.memory) \subseteq longConcluded[j] \cup {c}
              BY <6>1, <6>3
            <7>4. Len(f.memory) = IF n + 1 > MaxMemory THEN MaxMemory ELSE n + 1
              BY <6>0, <6>1, <6>2, <7>2, LongConstants
            <7> QED BY <6>3, <6>4, <7>1, <7>3, <7>4
          <6>7. CASE c \in longConcluded[j]
            <7>1. longConcluded[j] \cup {c} = longConcluded[j]
              BY <6>7
            <7>2. c \notin L!ToSet(m) => n > MaxMemory
              <8>1. SUFFICES ASSUME c \notin L!ToSet(m), ~(n > MaxMemory) PROVE FALSE
                OBVIOUS
              <8>2. Len(m) = n
                BY <6>1, <8>1
              <8>3. L!ToSet(m) = longConcluded[j]
                BY <3>3, <6>0, <6>1, <6>5, <8>2, FS_Subset
              <8> QED BY <6>7, <8>1, <8>3
            <7>3. Len(f.memory) = IF n > MaxMemory THEN MaxMemory ELSE n
              BY <3>3, <6>0, <6>1, <6>2, <6>3, <7>2
            <7>4. L!ToSet(f.memory) \subseteq longConcluded[j] \cup {c}
              BY <6>1, <6>3
            <7> QED BY <6>0, <6>3, <6>4, <7>1, <7>3, <7>4
          <6> QED BY <6>6, <6>7
        <5> QED BY <4>2, <5>1, <5>2, <5>3 DEF MemoryOf
      <4> QED BY <4>1, <4>2
    <3>b. f # None /\ longJob'[j] = f /\ \A i \in L!Jobs : i # j => longJob'[i] = longJob[i]
      <4> HIDE DEF f
      <4>1. f # None /\ DOMAIN longJob = L!Jobs
        BY <1>0, <3>5, LongConstants DEF LongTypes
      <4> QED BY <3>0, <3>1, <4>1
    <3>6. HoldsItsOwn'
      <4>1. \A i \in L!Jobs : longJob[i] # None => longJob'[i] # None /\ longJob[i].convs \subseteq longJob'[i].convs
        <5> HIDE DEF f
        <5> QED BY <3>a, <3>b
      <4>2. \A i \in L!Jobs : longJob'[i] # None => longJob[i] # None
        BY <1>0, <3>0, <3>1 DEF LongTypes
      <4> QED BY <4>1, <4>2 DEF LongInv, HoldsItsOwn, L!Jobs
    <3>7. LongTypes'
      <4>1. longJob' \in [L!Jobs -> JobRecords \cup {None}] /\ longConcluded' \in [L!Jobs -> SUBSET Convs]
        BY <1>0, <2>0, <3>0, <3>1, <3>5 DEF LongTypes
      <4> QED BY <1>0, <2>0, <2>1, <2>2, <4>1 DEF LongTypes
    <3>8. \A i \in L!Jobs : longJob[i] # None => longJob'[i] # None
      <4> HIDE DEF f
      <4> QED BY <3>b
    <3>9. DeletionSound'
      <4>1. \A s \in ConvTasks : longTask[s] # None => longTask'[s] # None
        BY <1>0, <2>1, <2>2, LongConstants DEF LongTypes
      <4> QED BY <2>0, <3>8, <4>1, DeletionStays
    <3>10. \A s \in ConvTasks : TaskSound(s)'
      <4> SUFFICES ASSUME NEW s \in ConvTasks PROVE TaskSound(s)'
        OBVIOUS
      <4>1. /\ TaskSound(s) /\ (longTask[s] # None => longTask[s].job \in L!Jobs \cup {None}) /\ longGiven[s] \in L!Jobs \cup {None}
            /\ (longTask'[s] = None <=> longTask[s] = None) /\ longTask'[s].conv = longTask[s].conv
            /\ longTask'[s].job \in {longTask[s].job, None} /\ longGiven'[s] = longGiven[s]
        BY <1>0, <2>0, <2>1, <2>2, TaskFields DEF LongInv, LongTypes, L!Jobs
      <4> QED BY <3>8, <4>1 DEF TaskSound
    <3> QED BY <3>4, <3>6, <3>7, <3>9, <3>10 DEF LongInv
  <2> QED BY <2>3, <2>4
<1>11. ASSUME NEW t \in ConvTasks, L!Cancel(t) PROVE LongInv'
  <2>1z. ([longTask[t] EXCEPT !.status = "cancelled"]) \in TaskRecords /\ ([longTask[t] EXCEPT !.status = "cancelled"]).job = longTask[t].job /\ ([longTask[t] EXCEPT !.status = "cancelled"]).conv = longTask[t].conv
    BY <1>0, <1>11, TaskFields DEF L!Cancel, Same
  <2>1. PICK r \in TaskRecords : r = [longTask[t] EXCEPT !.status = "cancelled"] /\ r.job = longTask[t].job /\ r.conv = longTask[t].conv
    BY <2>1z
  <2>2. longTask' = [longTask EXCEPT ![t] = r] /\ UNCHANGED <<longJob, longGiven, longDeletion, longConcluded, longErased, longEdits>>
    BY <1>0, <1>11, <2>1 DEF L!Cancel, L!Cancels
  <2>3. longTask[t].job # None => longJob[longTask[t].job] # None
    BY <1>11 DEF L!Cancel, LongInv, TaskSound
  <2> QED BY <1>0, <2>1, <2>2, <2>3, TaskMoves
<1>12. ASSUME NEW j \in L!Jobs, NEW v \in L!JobStatus, L!Patch(j, v) PROVE LongInv'
  <2>1. PICK title \in {longJob[j].title, "named"} : longJob' = [longJob EXCEPT ![j].title = title, ![j].status = v]
    BY <1>12 DEF L!Patch
  <2>2. longJob[j] # None /\ longJob[j] \in JobRecords /\ longEdits' \in Nat /\ UNCHANGED <<longTask, longGiven, longDeletion, longConcluded, longErased>>
    BY <1>0, <1>12 DEF L!Patch, LongTypes
  <2>3z. ([longJob[j] EXCEPT !.title = title, !.status = v]) \in JobRecords /\ ([longJob[j] EXCEPT !.title = title, !.status = v]).memory = longJob[j].memory /\ ([longJob[j] EXCEPT !.title = title, !.status = v]).convs = longJob[j].convs
    BY <2>2 DEF JobRecords
  <2>3. PICK f \in JobRecords : f = [longJob[j] EXCEPT !.title = title, !.status = v] /\ f.memory = longJob[j].memory /\ f.convs = longJob[j].convs
    BY <2>3z
  <2>4. longJob' = [longJob EXCEPT ![j] = f] /\ longErased \subseteq longErased'
    BY <1>0, <2>1, <2>2, <2>3 DEF LongTypes, JobRecords
  <2>5. /\ longJob' \in [L!Jobs -> JobRecords \cup {None}] /\ \A i \in L!Jobs : MemoryOf(i)'
        /\ HoldsItsOwn' /\ \A i \in L!Jobs : longJob[i] # None <=> longJob'[i] # None
    BY <2>2, <2>3, <2>4, EditIsSound
  <2>6. LongTypes'
    BY <1>0, <2>2, <2>5 DEF LongTypes
  <2> QED BY <2>2, <2>5, <2>6, KnownJobsRemain DEF LongInv
<1>13. ASSUME NEW j \in L!Jobs, L!Delete(j) PROVE LongInv'
  <2>1. PICK d \in Deletions : longDeletion' = d /\ d.of = j /\ d.seen = longJob[j]
    BY <1>0, <1>13 DEF L!Delete, Deletions, LongTypes
  <2>2. longJob[j] # None /\ longEdits' \in Nat /\ UNCHANGED <<longJob, longTask, longGiven, longConcluded, longErased>>
    BY <1>0, <1>13 DEF L!Delete
  <2>3. LongTypes'
    BY <1>0, <2>1, <2>2 DEF LongTypes
  <2>4. DeletionSound'
    <3>1. \A u \in longDeletion'.left : longTask'[u] # None
      BY <1>13, <2>2 DEF L!Delete
    <3>2. longDeletion'.of = j /\ longDeletion'.seen = longJob[j] /\ longJob'[j] # None /\ (j \in Convs => j \in longJob[j].convs)
      BY <2>1, <2>2 DEF LongInv, HoldsItsOwn
    <3> QED BY <3>1, <3>2 DEF DeletionSound
  <2>5. \A s \in ConvTasks : TaskSound(s)'
    BY <2>2 DEF LongInv, TaskSound
  <2> QED BY <2>2, <2>3, <2>4, <2>5, JobsUntouched DEF LongInv
<1>14. ASSUME NEW t \in ConvTasks, L!DeleteNext(t) PROVE LongInv'
  <2>0. longDeletion # None /\ t \in longDeletion.left /\ longDeletion \in Deletions /\ UNCHANGED <<longJob, longGiven, longConcluded, longErased, longEdits>>
    BY <1>0, <1>14 DEF L!DeleteNext, LongTypes
  <2>1. longDeletion' \in Deletions \cup {None} /\ (longDeletion' # None => longDeletion'.of = longDeletion.of /\ longDeletion'.seen = longDeletion.seen /\ longDeletion'.left \subseteq longDeletion.left)
    BY <1>14, <2>0 DEF L!DeleteNext, Deletions
  <2>2. \A s \in ConvTasks : /\ (longTask'[s] = None <=> longTask[s] = None) /\ longTask'[s].conv = longTask[s].conv /\ longTask'[s].job = longTask[s].job
                         /\ longTask'[s] \in TaskRecords \cup {None}
    <3>1. CASE longTask' = longTask
      BY <1>0, <3>1 DEF LongTypes
    <3>2. CASE longTask' = L!Cancels(t)
      <4>2. longTask[t] # None
        BY <2>0 DEF LongInv, DeletionSound
      <4>3z. ([longTask[t] EXCEPT !.status = "cancelled"]) \in TaskRecords /\ ([longTask[t] EXCEPT !.status = "cancelled"]).job = longTask[t].job /\ ([longTask[t] EXCEPT !.status = "cancelled"]).conv = longTask[t].conv
        BY <1>0, <4>2, TaskFields DEF Same
      <4>3. PICK r \in TaskRecords : r = [longTask[t] EXCEPT !.status = "cancelled"] /\ r.job = longTask[t].job /\ r.conv = longTask[t].conv
        BY <4>3z
      <4>4. longTask' = [longTask EXCEPT ![t] = r]
        BY <1>0, <3>2, <4>3 DEF L!Cancels
      <4> QED BY <1>0, <4>2, <4>3, <4>4, LongConstants DEF LongTypes
    <3> QED BY <1>14, <3>1, <3>2 DEF L!DeleteNext
  <2>9. longTask' = [s \in ConvTasks |-> longTask'[s]]
    BY <1>0, <1>14 DEF L!DeleteNext, L!Cancels, LongTypes
  <2>3. LongTypes'
    BY <1>0, <2>0, <2>1, <2>2, <2>9 DEF LongTypes
  <2>4. DeletionSound'
    BY <2>0, <2>1, <2>2 DEF LongInv, DeletionSound, Deletions
  <2>5. \A s \in ConvTasks : TaskSound(s)'
    BY <2>0, <2>2 DEF LongInv, TaskSound
  <2> QED BY <2>0, <2>3, <2>4, <2>5, JobsUntouched DEF LongInv
<1>15. ASSUME L!Archive PROVE LongInv'
  <2> DEFINE j == longDeletion.of
             k == longDeletion.seen
  <2>0. /\ longDeletion # None /\ longDeletion \in Deletions /\ j \in L!Jobs /\ k \in JobRecords /\ longJob[j] # None /\ longJob[j] \in JobRecords
        /\ longDeletion' = None /\ longJob' = [longJob EXCEPT ![j] = [k EXCEPT !.status = "archived"]]
        /\ longErased' = (IF k = longJob[j] THEN longErased ELSE longErased \cup {j})
        /\ UNCHANGED <<longTask, longGiven, longConcluded, longEdits>> /\ (j \in Convs => j \in k.convs)
    BY <1>0, <1>15 DEF L!Archive, LongTypes, LongInv, DeletionSound, Deletions
  <2>1z. ([k EXCEPT !.status = "archived"]) \in JobRecords /\ ([k EXCEPT !.status = "archived"]).memory = k.memory /\ ([k EXCEPT !.status = "archived"]).convs = k.convs
    BY <2>0 DEF JobRecords, L!JobStatus
  <2>1. PICK f \in JobRecords : f = [k EXCEPT !.status = "archived"] /\ f.memory = k.memory /\ f.convs = k.convs
    BY <2>1z
  <2>2. longJob' = [longJob EXCEPT ![j] = f] /\ longErased \subseteq longErased' /\ f # None
    BY <2>0, <2>1, LongConstants
  <2>3. /\ longJob' \in [L!Jobs -> JobRecords \cup {None}] /\ \A i \in L!Jobs : MemoryOf(i)'
        /\ HoldsItsOwn' /\ \A i \in L!Jobs : longJob[i] # None <=> longJob'[i] # None
    <3>1. CASE k = longJob[j]
      <4>1. f.memory = longJob[j].memory /\ f.convs = longJob[j].convs
        BY <2>1, <3>1
      <4> QED BY <2>0, <2>2, <4>1, EditIsSound
    <3>2. CASE k # longJob[j]
      <4>1. longJob' \in [L!Jobs -> JobRecords \cup {None}] /\ \A i \in L!Jobs : longJob[i] # None <=> longJob'[i] # None
        BY <1>0, <2>0, <2>2 DEF LongTypes
      <4>2. \A i \in L!Jobs : MemoryOf(i)'
        <5> SUFFICES ASSUME NEW i \in L!Jobs PROVE MemoryOf(i)'
          OBVIOUS
        <5>1. CASE i = j
          <6>1. i \in longErased' /\ longConcluded'[i] = longConcluded[i] /\ longJob'[i] # None
            BY <1>0, <2>0, <2>2, <3>2, <5>1, <4>1 DEF LongTypes
          <6> QED BY <6>1 DEF LongInv, MemoryOf
        <5>2. CASE i # j
          <6>1. longJob'[i] = longJob[i] /\ longConcluded'[i] = longConcluded[i] /\ (i \in longErased <=> i \in longErased')
            BY <1>0, <2>0, <2>2, <5>2 DEF LongTypes
          <6> QED BY <6>1 DEF LongInv, MemoryOf
        <5> QED BY <5>1, <5>2
      <4>3. HoldsItsOwn'
        BY <1>0, <2>0, <2>1, <2>2 DEF LongInv, HoldsItsOwn, LongTypes, L!Jobs
      <4> QED BY <4>1, <4>2, <4>3
    <3> QED BY <3>1, <3>2
  <2>4. LongTypes'
    BY <1>0, <2>0, <2>3 DEF LongTypes
  <2>5. DeletionSound'
    BY <2>0 DEF DeletionSound
  <2>6. \A s \in ConvTasks : TaskSound(s)'
    <3> SUFFICES ASSUME NEW s \in ConvTasks PROVE TaskSound(s)'
      OBVIOUS
    <3>1. TaskSound(s) /\ (longGiven[s] # None => longGiven[s] \in L!Jobs)
      BY <1>0 DEF LongInv, LongTypes, L!Jobs
    <3>2. longTask[s] # None => longTask[s].job \in L!Jobs \cup {None}
      BY <1>0, TaskFields DEF LongTypes
    <3> QED BY <2>0, <2>3, <3>1, <3>2 DEF TaskSound
  <2> QED BY <2>3, <2>4, <2>5, <2>6 DEF LongInv
<1>16. ASSUME L!Restart PROVE LongInv'
  <2>0. UNCHANGED <<longJob, longGiven, longConcluded, longErased, longEdits>> /\ longDeletion' = None
    BY <1>16 DEF L!Restart
  <2>1. ASSUME NEW s \in ConvTasks
        PROVE  /\ longTask'[s] \in TaskRecords \cup {None} /\ (longTask'[s] = None <=> longTask[s] = None) /\ longTask'[s].conv = longTask[s].conv
               /\ (longTask[s] # None => longTask'[s].job = None)
    <3>1. CASE longTask[s] = None
      BY <1>16, <3>1 DEF L!Restart
    <3>2. CASE longTask[s] # None
      <4>1z. (L!Left(longTask[s])) \in TaskRecords /\ (L!Left(longTask[s])).job = None /\ (L!Left(longTask[s])).conv = longTask[s].conv
        BY <1>0, <3>2, TaskFields
      <4>1. PICK r \in TaskRecords : r = L!Left(longTask[s]) /\ r.job = None /\ r.conv = longTask[s].conv
        BY <4>1z
      <4>2. r.status \in {"queued", "running", "finished", "cancelled"}
        BY DEF TaskRecords
      <4>3z. ([r EXCEPT !.status = IF L!Finished(s) THEN r.status ELSE "finished"]) \in TaskRecords /\ ([r EXCEPT !.status = IF L!Finished(s) THEN r.status ELSE "finished"]).job = None /\ ([r EXCEPT !.status = IF L!Finished(s) THEN r.status ELSE "finished"]).conv = r.conv
        BY <4>1, <4>2 DEF TaskRecords
      <4>3. PICK q \in TaskRecords : q = [r EXCEPT !.status = IF L!Finished(s) THEN r.status ELSE "finished"] /\ q.job = None /\ q.conv = r.conv
        BY <4>3z
      <4>4. longTask'[s] = q
        BY <1>16, <3>2, <4>1, <4>3 DEF L!Restart
      <4> QED BY <3>2, <4>1, <4>3, <4>4, LongConstants
    <3> QED BY <3>1, <3>2
  <2>2. LongTypes'
    <3>1. longTask' \in [ConvTasks -> TaskRecords \cup {None}]
      BY <1>16, <2>1 DEF L!Restart
    <3> QED BY <1>0, <2>0, <3>1 DEF LongTypes
  <2>3. \A s \in ConvTasks : TaskSound(s)'
    BY <2>0, <2>1 DEF LongInv, TaskSound
  <2>4. DeletionSound'
    BY <2>0 DEF DeletionSound
  <2> QED BY <2>0, <2>2, <2>3, <2>4, JobsUntouched DEF LongInv
<1> QED BY <1>1, <1>3, <1>4, <1>5, <1>7, <1>8, <1>9, <1>10, <1>11, <1>12, <1>13, <1>14, <1>15, <1>16 DEF L!Next

(* Steps of a conversation do not open its job again.                       *)
LEMMA LongKeepsClosed == LongInv /\ L!Next => L!OnlyTheUserReopens
<1> SUFFICES ASSUME LongInv, L!Next, NEW j \in L!Jobs, longJob[j] # None, longJob'[j] # longJob[j], longEdits' = longEdits
             PROVE  /\ longJob'[j].status \in {longJob[j].status, "archived"}
                    /\ (longJob[j].title = "named" /\ j \notin longErased') => longJob'[j].title = "named"
  BY DEF L!OnlyTheUserReopens
<1> USE DEF L!Made
<1>0. LongTypes /\ longEdits \in Nat /\ longJob[j] \in JobRecords /\ \A t \in ConvTasks : longTask[t] # None => longTask[t] \in TaskRecords
  BY DEF LongInv, LongTypes
<1>1. CASE L!Create
  BY <1>0, <1>1 DEF L!Create, LongTypes
<1>2. ASSUME NEW t \in ConvTasks, L!Enroll(t) PROVE FALSE
  BY <1>0, <1>2 DEF L!Enroll, LongTypes
<1>3. CASE \E t \in ConvTasks : L!Register(t)
  <2>1. PICK t \in ConvTasks : L!Register(t)
    BY <1>3
  <2> DEFINE c == longTask[t].conv
  <2>2. longJob' = [longJob EXCEPT ![c] = IF longJob[c] = None THEN L!Fresh("named", {c}) ELSE [longJob[c] EXCEPT !.title = "named"]]
    BY <2>1 DEF L!Register
  <2>3. j = c
    BY <1>0, <2>2 DEF LongTypes
  <2>4. longJob'[j] = [longJob[j] EXCEPT !.title = "named"]
    BY <1>0, <2>2, <2>3 DEF LongTypes
  <2> QED BY <1>0, <2>4 DEF JobRecords
<1>4. CASE \E t \in ConvTasks : L!Conclude(t)
  <2>1. PICK t \in ConvTasks : L!Conclude(t)
    BY <1>4
  <2>2. longTask[t].job # None /\ longJob' = [longJob EXCEPT ![longTask[t].job].convs = @ \cup {longTask[t].conv}, ![longTask[t].job].memory = L!Entered(@, t)]
    BY <2>1 DEF L!Conclude
  <2>3. longJob'[j].status = longJob[j].status /\ longJob'[j].title = longJob[j].title
    BY <1>0, <2>2 DEF LongTypes, JobRecords
  <2> QED BY <2>3
<1>5. CASE L!Archive
  <2>1. /\ longDeletion # None /\ longDeletion \in Deletions
        /\ longJob' = [longJob EXCEPT ![longDeletion.of] = [longDeletion.seen EXCEPT !.status = "archived"]]
        /\ longErased' = IF longDeletion.seen = longJob[longDeletion.of] THEN longErased ELSE longErased \cup {longDeletion.of}
    BY <1>0, <1>5 DEF L!Archive, LongTypes
  <2>2. longDeletion.of = j /\ longJob'[j] = [longDeletion.seen EXCEPT !.status = "archived"] /\ longDeletion.seen \in JobRecords
    BY <1>0, <2>1 DEF LongTypes, Deletions
  <2>3. longJob'[j].status = "archived" /\ longJob'[j].title = longDeletion.seen.title
    BY <2>2 DEF JobRecords
  <2>4. j \notin longErased' => longDeletion.seen = longJob[j]
    BY <2>1, <2>2
  <2> QED BY <2>3, <2>4
<1>6. ASSUME NEW i \in L!Jobs, NEW v \in L!JobStatus, L!Patch(i, v) PROVE FALSE
  BY <1>0, <1>6 DEF L!Patch
<1>7. UNCHANGED longJob => FALSE
  OBVIOUS
<1> QED BY <1>1, <1>2, <1>3, <1>4, <1>5, <1>6, <1>7
        DEF L!Next, L!SubmitToJob, L!Submit, L!Start, L!Finish, L!Cancel, L!DeleteNext, L!Delete, L!Restart

LEMMA LongStay == ASSUME LongInv, UNCHANGED longs PROVE LongInv'
  BY DEF longs,
      LongInv, DeletionSound, HoldsItsOwn, LongTypes, MemoryOf, TaskSound

-----------------------------------------------------------------------------
(* The files of a workspace.                                                *)

LEMMA FilesConstants ==
  /\ MaxTexts \in Nat /\ None \notin Nat
  /\ None \notin CatalogRecords /\ None \notin BinRecords /\ None \notin WorkRecords
  BY StoresAssumption

VersionRecords == [text : W!Texts, from : Nat \cup {None}, input : W!Texts]

FilesTypes ==
  /\ wsFile \in [FileNames -> W!Texts \cup {None}] /\ wsCatalog \in [FileNames -> CatalogRecords \cup {None}]
  /\ wsBin \in [Slots -> W!Texts \cup {None}] /\ wsBinned \in [Slots -> BinRecords \cup {None}]
  /\ wsTask \in [FileTasks -> WorkRecords \cup {None}] /\ wsVersions \in Seq(VersionRecords)
  /\ wsMade \in 0 .. MaxTexts /\ wsHolders \in [W!Texts -> SUBSET Users]

(* Texts are known by their number: no later text has that of an earlier.   *)
Known(x) == x = None \/ x <= wsMade
AllKnown ==
  /\ \A n \in FileNames : Known(wsFile[n])
  /\ \A s \in Slots : Known(wsBin[s])
  /\ \A t \in FileTasks : wsTask[t] # None => Known(wsTask[t].input)
  /\ \A v \in DOMAIN wsVersions : Known(wsVersions[v].text) /\ Known(wsVersions[v].input)

Exempt(x) == x \in wsTorn \/ x \in wsInherited

NameSound(n) ==
  (wsFile[n] # None /\ wsFile[n] \notin wsTorn) =>
    /\ wsCatalog[n] # None /\ wsCatalog[n].by \in wsHolders[wsFile[n]]
    /\ (wsFile[n] \notin wsInherited => W!CopyOf(wsFile[n], wsCatalog[n].from))

(* A file of the bin comes back under a name that has an entry.             *)
SlotSound(s) ==
  wsBin[s] # None =>
    /\ wsBinned[s] # None
    /\ wsBin[s] \notin wsTorn => wsBinned[s].by \in wsHolders[wsBin[s]] /\ wsCatalog[wsBinned[s].name] # None

InputSound(t) == (wsTask[t] # None /\ ~Exempt(wsTask[t].input)) => W!CopyOf(wsTask[t].input, wsTask[t].from)
VersionSound(v) == ~Exempt(wsVersions[v].input) => W!CopyOf(wsVersions[v].input, wsVersions[v].from)

FilesInv ==
  /\ FilesTypes /\ AllKnown /\ W!NothingLost
  /\ \A n \in FileNames : NameSound(n)
  /\ \A s \in Slots : SlotSound(s)
  /\ \A t \in FileTasks : InputSound(t)
  /\ \A v \in DOMAIN wsVersions : VersionSound(v)

LEMMA FilesInvSafe == FilesInv => W!Safe
<1> SUFFICES ASSUME FilesInv PROVE W!Safe
  OBVIOUS
<1>1. W!NothingLost
  BY DEF FilesInv
<1>2. W!HoldersOnly
  BY DEF FilesInv, NameSound, SlotSound, W!HoldersOnly
<1>3. W!ParentsTrue
  BY DEF FilesInv, NameSound, VersionSound, Exempt, W!ParentsTrue
<1> QED BY <1>1, <1>2, <1>3 DEF W!Safe

LEMMA FilesInit == W!Init => FilesInv
<1> SUFFICES ASSUME W!Init PROVE FilesInv
  OBVIOUS
<1>1. FilesTypes
  BY FilesConstants DEF W!Init, FilesTypes
<1>2. AllKnown /\ W!NothingLost
  BY DEF W!Init, AllKnown, Known, W!NothingLost, W!Uploads
<1>3. /\ \A n \in FileNames : NameSound(n)
      /\ \A s \in Slots : SlotSound(s)
      /\ \A t \in FileTasks : InputSound(t)
      /\ \A v \in DOMAIN wsVersions : VersionSound(v)
  BY DEF W!Init, NameSound, SlotSound, InputSound, VersionSound
<1> QED BY <1>1, <1>2, <1>3 DEF FilesInv

(* What is a copy stays one: of a text that was made, no version comes      *)
(* later.                                                                   *)
Remembers ==
  /\ wsMade <= wsMade' /\ DOMAIN wsVersions \subseteq DOMAIN wsVersions'
  /\ \A v \in DOMAIN wsVersions : wsVersions'[v] = wsVersions[v]
  /\ \A v \in DOMAIN wsVersions' \ DOMAIN wsVersions : wsVersions'[v].text > wsMade
  /\ wsTorn \subseteq wsTorn' /\ wsInherited \subseteq wsInherited' /\ wsDeleted \subseteq wsDeleted'
  /\ \A x \in W!Texts : wsHolders[x] \subseteq wsHolders'[x]

CopyNext(x, p) ==
  IF p = None THEN x \in 1 .. wsMade' /\ \A v \in DOMAIN wsVersions' : wsVersions'[v].text # x
  ELSE p \in DOMAIN wsVersions' /\ wsVersions'[p].text = x

LEMMA NameNext ==
  ASSUME NEW n, (wsFile'[n] # None /\ wsFile'[n] \notin wsTorn') =>
                  /\ wsCatalog'[n] # None /\ wsCatalog'[n].by \in wsHolders'[wsFile'[n]]
                  /\ (wsFile'[n] \notin wsInherited' => CopyNext(wsFile'[n], wsCatalog'[n].from))
  PROVE  NameSound(n)'
  BY DEF NameSound, W!CopyOf, W!Uploads, CopyNext

LEMMA InputNext ==
  ASSUME NEW t, (wsTask'[t] # None /\ wsTask'[t].input \notin wsTorn' \cup wsInherited') => CopyNext(wsTask'[t].input, wsTask'[t].from)
  PROVE  InputSound(t)'
  BY DEF InputSound, W!CopyOf, W!Uploads, CopyNext, Exempt

LEMMA VersionNext ==
  ASSUME NEW v, wsVersions'[v].input \notin wsTorn' \cup wsInherited' => CopyNext(wsVersions'[v].input, wsVersions'[v].from)
  PROVE  VersionSound(v)'
  BY DEF VersionSound, W!CopyOf, W!Uploads, CopyNext, Exempt

LEMMA CopiesStay ==
  ASSUME FilesInv, FilesTypes', Remembers, NEW x \in W!Texts, Known(x), NEW p \in Nat \cup {None}, W!CopyOf(x, p)
  PROVE  CopyNext(x, p)
<1>0. None \notin Nat /\ x # None /\ x <= wsMade /\ wsMade \in Nat /\ wsMade' \in Nat
  BY FilesConstants DEF FilesInv, FilesTypes, W!Texts, Known
<1>1. CASE p = None
  <2>1. x \in 1 .. wsMade /\ \A v \in DOMAIN wsVersions : wsVersions[v].text # x
    BY <1>1 DEF W!CopyOf, W!Uploads
  <2>2. x \in 1 .. wsMade'
    BY <1>0, <2>1 DEF Remembers
  <2>3. ASSUME NEW v \in DOMAIN wsVersions' PROVE wsVersions'[v].text # x
    <3>1. CASE v \in DOMAIN wsVersions
      BY <2>1, <3>1 DEF Remembers
    <3>2. CASE v \notin DOMAIN wsVersions
      <4>1. wsVersions'[v].text > wsMade
        BY <3>2 DEF Remembers
      <4>2. wsVersions'[v].text \in Nat
        <5>1. wsVersions'[v] \in VersionRecords
          BY DEF FilesTypes
        <5> QED BY <1>0, <5>1 DEF VersionRecords, W!Texts
      <4> QED BY <1>0, <4>1, <4>2
    <3> QED BY <3>1, <3>2
  <2> QED BY <1>1, <2>2, <2>3 DEF CopyNext
<1>2. CASE p # None
  BY <1>2 DEF W!CopyOf, CopyNext, Remembers
<1> QED BY <1>1, <1>2

(* What the invariant says of a name, a place of the bin, a task and a      *)
(* version a step leaves alone.                                             *)
Stays(n) == wsFile'[n] = None \/ (wsFile'[n] = wsFile[n] /\ wsCatalog'[n] = wsCatalog[n])
Rests(s) == wsBin'[s] = None \/ (wsBin'[s] = wsBin[s] /\ wsBinned'[s] = wsBinned[s])
Works(t) == wsTask'[t] = None \/ (wsTask[t] # None /\ wsTask'[t].input = wsTask[t].input /\ wsTask'[t].from = wsTask[t].from)
EntriesRemain == \A n \in FileNames : wsCatalog[n] # None => wsCatalog'[n] # None

LEMMA NameStays ==
  ASSUME FilesInv, FilesTypes', Remembers, NEW n \in FileNames, Stays(n) PROVE NameSound(n)'
<1> SUFFICES ASSUME wsFile'[n] # None, wsFile'[n] \notin wsTorn'
             PROVE  /\ wsCatalog'[n] # None /\ wsCatalog'[n].by \in wsHolders'[wsFile'[n]]
                    /\ (wsFile'[n] \notin wsInherited' => CopyNext(wsFile'[n], wsCatalog'[n].from))
  BY NameNext
<1>1. wsFile'[n] = wsFile[n] /\ wsCatalog'[n] = wsCatalog[n] /\ wsFile[n] \in W!Texts /\ NameSound(n) /\ Known(wsFile[n])
  BY DEF Stays, FilesInv, FilesTypes, AllKnown
<1>2. wsFile[n] \notin wsTorn /\ (wsFile[n] \notin wsInherited' => wsFile[n] \notin wsInherited) /\ wsHolders[wsFile[n]] \subseteq wsHolders'[wsFile[n]]
  BY <1>1 DEF Remembers
<1>3. wsCatalog[n] # None /\ wsCatalog[n].by \in wsHolders[wsFile[n]] /\ wsCatalog[n].from \in Nat \cup {None}
  BY <1>1, <1>2 DEF NameSound, FilesInv, FilesTypes, CatalogRecords
<1>4. ASSUME wsFile[n] \notin wsInherited' PROVE CopyNext(wsFile[n], wsCatalog[n].from)
  <2>1. PICK x \in W!Texts : x = wsFile[n]
    BY <1>1
  <2>2. PICK p \in Nat \cup {None} : p = wsCatalog[n].from
    BY <1>3
  <2>3. W!CopyOf(x, p) /\ Known(x)
    BY <1>1, <1>2, <1>4, <2>1, <2>2 DEF NameSound
  <2>4. CopyNext(x, p)
    BY <2>3, CopiesStay
  <2> QED BY <2>1, <2>2, <2>4
<1> QED BY <1>1, <1>2, <1>3, <1>4

LEMMA SlotStays ==
  ASSUME FilesInv, FilesTypes', Remembers, EntriesRemain, NEW s \in Slots, Rests(s) PROVE SlotSound(s)'
<1> SUFFICES ASSUME wsBin'[s] # None PROVE SlotSound(s)'
  BY DEF SlotSound
<1>1. wsBin'[s] = wsBin[s] /\ wsBinned'[s] = wsBinned[s] /\ wsBin[s] \in W!Texts /\ SlotSound(s)
  BY DEF Rests, FilesInv, FilesTypes
<1>2. wsBinned[s] # None /\ wsBinned[s].name \in FileNames
  BY <1>1 DEF SlotSound, FilesInv, FilesTypes, BinRecords
<1>3. wsBin[s] \notin wsTorn' => wsBin[s] \notin wsTorn /\ wsHolders[wsBin[s]] \subseteq wsHolders'[wsBin[s]]
  BY <1>1 DEF Remembers
<1> QED BY <1>1, <1>2, <1>3 DEF SlotSound, EntriesRemain

LEMMA WorkStays ==
  ASSUME FilesInv, FilesTypes', Remembers, NEW t \in FileTasks, Works(t) PROVE InputSound(t)'
<1> SUFFICES ASSUME wsTask'[t] # None, wsTask'[t].input \notin wsTorn' \cup wsInherited' PROVE CopyNext(wsTask'[t].input, wsTask'[t].from)
  BY InputNext
<1>1. /\ wsTask[t] # None /\ wsTask'[t].input = wsTask[t].input /\ wsTask'[t].from = wsTask[t].from /\ InputSound(t)
      /\ wsTask[t].input \in W!Texts /\ wsTask[t].from \in Nat \cup {None} /\ Known(wsTask[t].input)
  BY DEF Works, FilesInv, FilesTypes, WorkRecords, AllKnown
<1>2. PICK x \in W!Texts, p \in Nat \cup {None} : x = wsTask[t].input /\ p = wsTask[t].from
  BY <1>1
<1>3. W!CopyOf(x, p) /\ Known(x)
  BY <1>1, <1>2 DEF InputSound, Exempt, Remembers
<1>4. CopyNext(x, p)
  BY <1>3, CopiesStay
<1> QED BY <1>1, <1>2, <1>4

LEMMA VersionStays ==
  ASSUME FilesInv, FilesTypes', Remembers, NEW v \in DOMAIN wsVersions PROVE VersionSound(v)'
<1> SUFFICES ASSUME wsVersions'[v].input \notin wsTorn' \cup wsInherited' PROVE CopyNext(wsVersions'[v].input, wsVersions'[v].from)
  BY VersionNext
<1>0. wsVersions[v] \in VersionRecords
  BY DEF FilesInv, FilesTypes
<1>1. /\ wsVersions'[v] = wsVersions[v] /\ VersionSound(v) /\ Known(wsVersions[v].input)
      /\ wsVersions[v].input \in W!Texts /\ wsVersions[v].from \in Nat \cup {None}
  BY <1>0 DEF Remembers, FilesInv, VersionRecords, AllKnown
<1>2. PICK x \in W!Texts, p \in Nat \cup {None} : x = wsVersions[v].input /\ p = wsVersions[v].from
  BY <1>1
<1>3. W!CopyOf(x, p) /\ Known(x)
  BY <1>1, <1>2 DEF VersionSound, Exempt, Remembers
<1>4. CopyNext(x, p)
  BY <1>3, CopiesStay
<1> QED BY <1>1, <1>2, <1>4

(* A step that makes no text: what it must say of the names and of the bin. *)
LEMMA NoNewText ==
  ASSUME FilesInv, FilesTypes', UNCHANGED <<wsMade, wsVersions>>, Remembers, EntriesRemain,
         \A t \in FileTasks : Works(t) \/ (InputSound(t)' /\ Known(wsTask'[t].input)),
         \A n \in FileNames : NameSound(n)', \A s \in Slots : SlotSound(s)',
         \A n \in FileNames : wsFile'[n] # None => wsFile'[n] <= wsMade, \A s \in Slots : Known(wsBin'[s]),
         \A x \in W!Uploads \ wsDeleted' :
           (\E n \in FileNames : wsFile'[n] = x) \/ (\E s \in Slots : wsBin'[s] = x /\ wsBinned'[s] # None)
  PROVE  FilesInv'
<1>1. AllKnown'
  <2>1. \A n \in FileNames : Known(wsFile[n])'
    BY DEF Known
  <2>2. \A s \in Slots : Known(wsBin[s])'
    BY DEF Known
  <2>3. \A t \in FileTasks : wsTask'[t] # None => Known(wsTask[t].input)'
    BY DEF Works, FilesInv, AllKnown, Known
  <2>4. \A v \in DOMAIN wsVersions' : Known(wsVersions[v].text)' /\ Known(wsVersions[v].input)'
    BY DEF FilesInv, AllKnown, Known
  <2> QED BY <2>1, <2>2, <2>3, <2>4 DEF AllKnown
<1>2. W!NothingLost'
  BY DEF W!NothingLost, W!Uploads
<1>3. \A t \in FileTasks : InputSound(t)'
  BY WorkStays
<1>4. \A v \in DOMAIN wsVersions' : VersionSound(v)'
  BY VersionStays
<1> QED BY <1>1, <1>2, <1>3, <1>4 DEF FilesInv

LEMMA TasksEnd ==
  ASSUME FilesTypes, UNCHANGED wsTask \/ W!Dies
  PROVE  wsTask' \in [FileTasks -> WorkRecords \cup {None}] /\ \A t \in FileTasks : Works(t)
<1>1. CASE UNCHANGED wsTask
  BY <1>1 DEF FilesTypes, Works
<1>2. CASE W!Dies
  <2>1. ASSUME NEW t \in FileTasks PROVE wsTask'[t] \in WorkRecords \cup {None} /\ Works(t)
    <3>1. CASE wsTask[t] = None
      BY <1>2, <3>1 DEF W!Dies, Works
    <3>2. CASE wsTask[t] # None
      <4>1. wsTask'[t] = [wsTask[t] EXCEPT !.open = FALSE] /\ wsTask[t] \in WorkRecords
        BY <1>2, <3>2 DEF W!Dies, FilesTypes
      <4> QED BY <3>2, <4>1 DEF WorkRecords, Works
    <3> QED BY <3>1, <3>2
  <2> QED BY <1>2, <2>1 DEF W!Dies
<1> QED BY <1>1, <1>2

LEMMA HoldersGrow ==
  ASSUME FilesTypes, NEW x \in W!Texts, NEW u \in Users, W!Holds(x, u)
  PROVE  /\ wsHolders' \in [W!Texts -> SUBSET Users] /\ u \in wsHolders'[x] /\ \A y \in W!Texts : wsHolders[y] \subseteq wsHolders'[y]
  BY DEF FilesTypes, W!Holds

LEMMA EntryFields ==
  ASSUME NEW u \in Users, NEW prior \in CatalogRecords \cup {None}, NEW p \in Nat \cup {None}
  PROVE  /\ W!Entry(u, prior, p) \in CatalogRecords /\ W!Entry(u, prior, p) # None /\ W!Entry(u, prior, p).by = u
         /\ W!Entry(u, prior, p).from = IF p # None THEN p ELSE IF prior = None THEN None ELSE prior.from
  BY FilesConstants DEF W!Entry, CatalogRecords

LEMMA FilesFacts ==
  ASSUME FilesInv
  PROVE  /\ FilesTypes /\ AllKnown /\ W!NothingLost /\ wsMade \in Nat /\ MaxTexts \in Nat /\ None \notin Nat
         /\ \A n \in FileNames : wsFile[n] # None => wsFile[n] \in W!Texts /\ wsFile[n] <= wsMade
         /\ \A n \in FileNames : NameSound(n)
         /\ \A s \in Slots : wsBin[s] # None => wsBin[s] \in W!Texts /\ wsBin[s] <= wsMade /\ wsBinned[s] # None
         /\ \A s \in Slots : wsBinned[s] # None => wsBinned[s] \in BinRecords /\ wsBinned[s].name \in FileNames /\ wsBinned[s].by \in Users
         /\ \A n \in FileNames : wsCatalog[n] # None => wsCatalog[n] \in CatalogRecords
  BY FilesConstants DEF FilesInv, FilesTypes, AllKnown, Known, SlotSound, BinRecords

LEMMA UploaderKnown ==
  ASSUME FilesInv, NEW u \in Users, NEW n \in FileNames
  PROVE  W!Uploader(u, n) \in Users
  BY FilesFacts DEF W!Uploader, CatalogRecords

(* A file gets a name and its entry, or the process dies before the entry.  *)
LEMMA NameGiven ==
  ASSUME FilesInv, FilesTypes', Remembers, NEW n \in FileNames, NEW u \in Users,
         wsFile'[n] \in W!Texts, u \in wsHolders'[wsFile'[n]],
         \/ wsFile'[n] \in wsTorn'
         \/ /\ wsCatalog'[n] # None /\ wsCatalog'[n].by = u
            /\ wsFile'[n] \notin wsInherited' => CopyNext(wsFile'[n], wsCatalog'[n].from)
  PROVE  NameSound(n)'
  BY NameNext

LEMMA DeleteKeeps == ASSUME FilesInv, NEW u \in Users, NEW n \in FileNames, W!Delete(u, n) PROVE FilesInv'
<1>0. /\ wsFile[n] # None /\ wsDeleted' = wsDeleted \cup {wsFile[n]} /\ wsFile' = [wsFile EXCEPT ![n] = None]
      /\ UNCHANGED <<wsCatalog, wsBin, wsBinned, wsTask, wsVersions, wsCopyName, wsMade, wsHolders, wsTorn, wsInherited, wsCrashes>>
  BY DEF W!Delete, W!Free
<1>1. FilesTypes'
  BY <1>0, FilesFacts DEF FilesTypes
<1>2. Remembers /\ EntriesRemain /\ \A t \in FileTasks : Works(t)
  BY <1>0, FilesFacts DEF Remembers, EntriesRemain, Works
<1>3. \A m \in FileNames : Stays(m) /\ (wsFile'[m] = wsFile[m] \/ wsFile'[m] = None)
  BY <1>0, FilesFacts DEF FilesTypes, Stays
<1>4. \A s \in Slots : Rests(s)
  BY <1>0 DEF Rests
<1>5. (\A m \in FileNames : NameSound(m)') /\ \A s \in Slots : SlotSound(s)'
  BY <1>1, <1>2, <1>3, <1>4, NameStays, SlotStays
<1>6. \A x \in W!Uploads \ wsDeleted' :
        (\E m \in FileNames : wsFile'[m] = x) \/ (\E s \in Slots : wsBin'[s] = x /\ wsBinned'[s] # None)
  <2> SUFFICES ASSUME NEW x \in W!Uploads, x \notin wsDeleted'
               PROVE  (\E m \in FileNames : wsFile'[m] = x) \/ (\E s \in Slots : wsBin'[s] = x /\ wsBinned'[s] # None)
    OBVIOUS
  <2>1. x \notin wsDeleted /\ x # wsFile[n]
    BY <1>0
  <2> QED BY <1>0, <2>1, FilesFacts DEF W!NothingLost, FilesTypes
<1>7. (\A m \in FileNames : wsFile'[m] # None => wsFile'[m] <= wsMade) /\ \A s \in Slots : Known(wsBin'[s])
  BY <1>0, <1>3, FilesFacts DEF AllKnown
<1> QED BY <1>0, <1>1, <1>2, <1>5, <1>6, <1>7, NoNewText

(* The sender of a message, or of a task, is taken for who brought a file.  *)
LEMMA SenderKeeps ==
  ASSUME FilesInv, NEW u \in Users, NEW n \in FileNames, ~W!Free(n),
         wsCatalog' = [wsCatalog EXCEPT ![n] = W!Entry(u, @, None)], W!Holds(wsFile[n], u),
         UNCHANGED <<wsFile, wsBin, wsBinned, wsVersions, wsMade, wsTorn, wsInherited, wsDeleted>>
  PROVE  /\ Remembers /\ EntriesRemain /\ wsCatalog' \in [FileNames -> CatalogRecords \cup {None}]
         /\ wsHolders' \in [W!Texts -> SUBSET Users]
         /\ (FilesTypes' => (\A m \in FileNames : NameSound(m)') /\ \A s \in Slots : SlotSound(s)')
         /\ (FilesTypes' /\ wsFile[n] \notin wsTorn \cup wsInherited => CopyNext(wsFile[n], wsCatalog'[n].from))
<1>0. wsFile[n] \in W!Texts /\ wsFile[n] # None
  BY FilesFacts DEF W!Free
<1>1. wsHolders' \in [W!Texts -> SUBSET Users] /\ u \in wsHolders'[wsFile[n]] /\ \A y \in W!Texts : wsHolders[y] \subseteq wsHolders'[y]
  BY <1>0, FilesFacts, HoldersGrow
<1>2. PICK e \in CatalogRecords : e = W!Entry(u, wsCatalog[n], None) /\ e # None /\ e.by = u /\ e.from = IF wsCatalog[n] = None THEN None ELSE wsCatalog[n].from
  <2>1. wsCatalog[n] \in CatalogRecords \cup {None} /\ None \in Nat \cup {None}
    BY FilesFacts DEF FilesTypes
  <2>2. /\ W!Entry(u, wsCatalog[n], None) \in CatalogRecords /\ W!Entry(u, wsCatalog[n], None) # None /\ W!Entry(u, wsCatalog[n], None).by = u
        /\ W!Entry(u, wsCatalog[n], None).from = IF wsCatalog[n] = None THEN None ELSE wsCatalog[n].from
    <3>1. PICK q \in CatalogRecords \cup {None}, p \in Nat \cup {None} : q = wsCatalog[n] /\ p = None
      BY <2>1
    <3> QED BY <3>1, EntryFields
  <2> QED BY <2>2
<1>3. wsCatalog' = [wsCatalog EXCEPT ![n] = e]
  BY <1>2
<1>4. Remembers
  BY <1>1, FilesFacts DEF Remembers
<1>5. EntriesRemain /\ wsCatalog' \in [FileNames -> CatalogRecords \cup {None}]
  BY <1>2, <1>3, FilesFacts DEF FilesTypes, EntriesRemain
<1>6. ASSUME FilesTypes', wsFile[n] \notin wsTorn \cup wsInherited PROVE CopyNext(wsFile[n], wsCatalog'[n].from)
  <2>1. wsCatalog[n] # None /\ W!CopyOf(wsFile[n], wsCatalog[n].from) /\ wsCatalog[n].from \in Nat \cup {None} /\ Known(wsFile[n])
    BY <1>0, <1>6, FilesFacts DEF NameSound, CatalogRecords, Known
  <2>2. wsCatalog'[n].from = wsCatalog[n].from
    BY <1>2, <1>3, <2>1, FilesFacts DEF FilesTypes
  <2>3. PICK x \in W!Texts, p \in Nat \cup {None} : x = wsFile[n] /\ p = wsCatalog[n].from
    BY <1>0, <2>1
  <2>4. CopyNext(x, p)
    BY <1>4, <1>6, <2>1, <2>3, CopiesStay
  <2> QED BY <2>2, <2>3, <2>4
<1>7. ASSUME FilesTypes', NEW m \in FileNames PROVE NameSound(m)'
  <2>1. CASE m = n
    <3>1. wsCatalog'[n] = e /\ wsFile'[n] = wsFile[n] /\ wsTorn' = wsTorn /\ wsInherited' = wsInherited
      BY <1>3, FilesFacts DEF FilesTypes
    <3>2. wsFile'[n] \in wsTorn' \/ (wsFile'[n] \notin wsInherited' => CopyNext(wsFile'[n], wsCatalog'[n].from))
      BY <1>6, <1>7, <3>1
    <3> QED BY <1>0, <1>1, <1>2, <1>4, <1>7, <2>1, <3>1, <3>2, NameGiven
  <2>2. CASE m # n
    <3>1. Stays(m)
      BY <1>3, <2>2, FilesFacts DEF Stays, FilesTypes
    <3> QED BY <1>4, <1>7, <3>1, NameStays
  <2> QED BY <2>1, <2>2
<1>8. ASSUME FilesTypes', NEW s \in Slots PROVE SlotSound(s)'
  <2>1. Rests(s)
    BY DEF Rests
  <2> QED BY <1>4, <1>5, <1>8, <2>1, SlotStays
<1> QED BY <1>1, <1>4, <1>5, <1>6, <1>7, <1>8

LEMMA ReferenceKeeps == ASSUME FilesInv, NEW u \in Users, NEW n \in FileNames, W!Reference(u, n) PROVE FilesInv'
<1>0. /\ ~W!Free(n) /\ wsCatalog' = [wsCatalog EXCEPT ![n] = W!Entry(u, @, None)] /\ W!Holds(wsFile[n], u)
      /\ UNCHANGED <<wsFile, wsBin, wsBinned, wsTask, wsVersions, wsMade, wsTorn, wsInherited, wsDeleted>>
  BY DEF W!Reference
<1>1. Remembers /\ EntriesRemain /\ wsCatalog' \in [FileNames -> CatalogRecords \cup {None}] /\ wsHolders' \in [W!Texts -> SUBSET Users]
  BY <1>0, SenderKeeps
<1>2. FilesTypes'
  BY <1>0, <1>1, FilesFacts DEF FilesTypes
<1>3. (\A m \in FileNames : NameSound(m)') /\ \A s \in Slots : SlotSound(s)'
  BY <1>0, <1>2, SenderKeeps
<1>4. \A t \in FileTasks : Works(t)
  BY <1>0 DEF Works
<1>5. \A x \in W!Uploads \ wsDeleted' :
        (\E m \in FileNames : wsFile'[m] = x) \/ (\E s \in Slots : wsBin'[s] = x /\ wsBinned'[s] # None)
  BY <1>0, FilesFacts DEF W!NothingLost
<1>6. (\A m \in FileNames : wsFile'[m] # None => wsFile'[m] <= wsMade) /\ \A s \in Slots : Known(wsBin'[s])
  BY <1>0, FilesFacts DEF AllKnown
<1> QED BY <1>0, <1>1, <1>2, <1>3, <1>4, <1>5, <1>6, NoNewText

LEMMA SubmitKeeps == ASSUME FilesInv, NEW u \in Users, NEW t \in FileTasks, NEW n \in FileNames, W!Submit(u, t, n) PROVE FilesInv'
<1>0. /\ ~W!Free(n) /\ wsCatalog' = [wsCatalog EXCEPT ![n] = W!Entry(u, @, None)] /\ W!Holds(wsFile[n], u) /\ wsTask[t] = None
      /\ wsTask' = [wsTask EXCEPT ![t] = [open |-> TRUE, by |-> u, input |-> wsFile[n], from |-> wsCatalog'[n].from]]
      /\ UNCHANGED <<wsFile, wsBin, wsBinned, wsVersions, wsMade, wsTorn, wsInherited, wsDeleted>>
  BY DEF W!Submit
<1>a. wsFile[n] # None /\ wsFile[n] \in W!Texts /\ wsFile[n] <= wsMade
  BY <1>0, FilesFacts DEF W!Free
<1>1. Remembers /\ EntriesRemain /\ wsCatalog' \in [FileNames -> CatalogRecords \cup {None}] /\ wsHolders' \in [W!Texts -> SUBSET Users]
  BY <1>0, SenderKeeps
<1>b. wsCatalog'[n].from \in Nat \cup {None}
  <2>1. PICK q \in CatalogRecords \cup {None}, p \in Nat \cup {None} : q = wsCatalog[n] /\ p = None
    BY FilesFacts DEF FilesTypes
  <2>2. wsCatalog'[n] = W!Entry(u, q, p)
    BY <1>0, <2>1, FilesFacts DEF FilesTypes
  <2>3. W!Entry(u, q, p) \in CatalogRecords
    BY EntryFields
  <2> QED BY <2>2, <2>3 DEF CatalogRecords
<1>c. PICK w \in WorkRecords : wsTask' = [wsTask EXCEPT ![t] = w] /\ w.input = wsFile[n] /\ w.from = wsCatalog'[n].from
  <2>1. /\ [open |-> TRUE, by |-> u, input |-> wsFile[n], from |-> wsCatalog'[n].from] \in WorkRecords
        /\ [open |-> TRUE, by |-> u, input |-> wsFile[n], from |-> wsCatalog'[n].from].input = wsFile[n]
        /\ [open |-> TRUE, by |-> u, input |-> wsFile[n], from |-> wsCatalog'[n].from].from = wsCatalog'[n].from
    BY <1>a, <1>b DEF WorkRecords
  <2> QED BY <1>0, <2>1
<1>2. FilesTypes'
  <2>1. wsTask' \in [FileTasks -> WorkRecords \cup {None}]
    BY <1>c, FilesFacts DEF FilesTypes
  <2> QED BY <1>0, <1>1, <2>1, FilesFacts DEF FilesTypes
<1>3. (\A m \in FileNames : NameSound(m)') /\ \A s \in Slots : SlotSound(s)'
  BY <1>0, <1>2, SenderKeeps
<1>4. \A k \in FileTasks : Works(k) \/ (InputSound(k)' /\ Known(wsTask'[k].input))
  <2>1. ASSUME NEW k \in FileTasks, k # t PROVE Works(k)
    BY <1>c, <2>1, FilesFacts DEF Works, FilesTypes
  <2>2. wsTask'[t] = w
    BY <1>c, FilesFacts DEF FilesTypes
  <2>3. InputSound(t)'
    <3>1. w.input \notin wsTorn' \cup wsInherited' => CopyNext(wsFile[n], wsCatalog'[n].from)
      BY <1>0, <1>2, <1>c, SenderKeeps
    <3> QED BY <1>c, <2>2, <3>1, InputNext
  <2> QED BY <1>a, <1>c, <2>1, <2>2, <2>3 DEF Known
<1>5. \A x \in W!Uploads \ wsDeleted' :
        (\E m \in FileNames : wsFile'[m] = x) \/ (\E s \in Slots : wsBin'[s] = x /\ wsBinned'[s] # None)
  BY <1>0, FilesFacts DEF W!NothingLost
<1>6. (\A m \in FileNames : wsFile'[m] # None => wsFile'[m] <= wsMade) /\ \A s \in Slots : Known(wsBin'[s])
  BY <1>0, FilesFacts DEF AllKnown
<1> QED BY <1>0, <1>1, <1>2, <1>3, <1>4, <1>5, <1>6, NoNewText

LEMMA FinishKeeps == ASSUME FilesInv, NEW t \in FileTasks, W!Finish(t) PROVE FilesInv'
<1>0. /\ wsTask[t] # None /\ wsTask' = [wsTask EXCEPT ![t].open = FALSE]
      /\ UNCHANGED <<W!stored, wsVersions, wsCopyName, wsMade, wsHolders, wsTorn, wsInherited, wsDeleted, wsCrashes>>
  BY DEF W!Finish
<1>a. PICK w \in WorkRecords : wsTask' = [wsTask EXCEPT ![t] = w] /\ w.input = wsTask[t].input /\ w.from = wsTask[t].from
  <2>1. wsTask[t] \in WorkRecords
    BY <1>0, FilesFacts DEF FilesTypes
  <2>2. /\ [wsTask[t] EXCEPT !.open = FALSE] \in WorkRecords /\ [wsTask[t] EXCEPT !.open = FALSE].input = wsTask[t].input
        /\ [wsTask[t] EXCEPT !.open = FALSE].from = wsTask[t].from
    BY <2>1 DEF WorkRecords
  <2> QED BY <1>0, <2>2
<1>1. FilesTypes'
  BY <1>0, <1>a, FilesFacts DEF FilesTypes, W!stored
<1>2. Remembers /\ EntriesRemain
  BY <1>0, FilesFacts DEF Remembers, EntriesRemain, W!stored
<1>3. \A k \in FileTasks : Works(k)
  BY <1>0, <1>a, FilesFacts DEF Works, FilesTypes
<1>4. (\A m \in FileNames : Stays(m)) /\ \A s \in Slots : Rests(s)
  BY <1>0 DEF Stays, Rests, W!stored
<1>5. (\A m \in FileNames : NameSound(m)') /\ \A s \in Slots : SlotSound(s)'
  BY <1>1, <1>2, <1>4, NameStays, SlotStays
<1>6. \A x \in W!Uploads \ wsDeleted' :
        (\E m \in FileNames : wsFile'[m] = x) \/ (\E s \in Slots : wsBin'[s] = x /\ wsBinned'[s] # None)
  BY <1>0, FilesFacts DEF W!NothingLost, W!stored
<1>7. (\A m \in FileNames : wsFile'[m] # None => wsFile'[m] <= wsMade) /\ \A s \in Slots : Known(wsBin'[s])
  BY <1>0, FilesFacts DEF AllKnown, W!stored
<1> QED BY <1>0, <1>1, <1>2, <1>3, <1>5, <1>6, <1>7, NoNewText DEF W!stored

LEMMA RenameKeeps == ASSUME FilesInv, NEW u \in Users, NEW n \in FileNames, NEW m \in FileNames, W!Rename(u, n, m) PROVE FilesInv'
<1> DEFINE x == wsFile[n]
           who == W!Uploader(u, n)
<1>0. /\ x # None /\ wsFile[m] = None /\ wsFile' = [wsFile EXCEPT ![n] = None, ![m] = x] /\ W!Holds(x, who)
      /\ UNCHANGED <<wsBin, wsBinned, wsVersions, wsCopyName, wsMade, wsInherited, wsDeleted>>
      /\ \/ wsCatalog' = [wsCatalog EXCEPT ![m] = W!Entry(who, wsCatalog[n], None)] /\ UNCHANGED <<wsTask, wsTorn>>
         \/ W!Dies /\ wsTorn' = wsTorn \cup {x} /\ UNCHANGED wsCatalog
  BY DEF W!Rename, W!Free, W!Lives
<1>a. x \in W!Texts /\ x <= wsMade /\ n # m /\ who \in Users
  BY <1>0, FilesFacts, UploaderKnown
<1>b. wsFile'[m] = x /\ wsFile'[n] = None /\ \A k \in FileNames \ {m, n} : wsFile'[k] = wsFile[k]
  BY <1>0, <1>a, FilesFacts DEF FilesTypes
<1>c. wsHolders' \in [W!Texts -> SUBSET Users] /\ who \in wsHolders'[x] /\ \A y \in W!Texts : wsHolders[y] \subseteq wsHolders'[y]
  BY <1>0, <1>a, FilesFacts, HoldersGrow
<1>d. PICK e \in CatalogRecords : e = W!Entry(who, wsCatalog[n], None) /\ e # None /\ e.by = who /\ e.from = IF wsCatalog[n] = None THEN None ELSE wsCatalog[n].from
  <2>1. PICK q \in CatalogRecords \cup {None}, p \in Nat \cup {None} : q = wsCatalog[n] /\ p = None
    BY FilesFacts DEF FilesTypes
  <2>2. /\ W!Entry(who, q, p) \in CatalogRecords /\ W!Entry(who, q, p) # None /\ W!Entry(who, q, p).by = who
        /\ W!Entry(who, q, p).from = IF q = None THEN None ELSE q.from
    <3>1. PICK v \in Users : v = who
      BY <1>a
    <3>2. /\ W!Entry(v, q, p) \in CatalogRecords /\ W!Entry(v, q, p) # None /\ W!Entry(v, q, p).by = v
          /\ W!Entry(v, q, p).from = IF p # None THEN p ELSE IF q = None THEN None ELSE q.from
      BY EntryFields
    <3> QED BY <2>1, <3>1, <3>2
  <2> QED BY <2>1, <2>2
<1>e. wsTask' \in [FileTasks -> WorkRecords \cup {None}] /\ \A t \in FileTasks : Works(t)
  BY <1>0, FilesFacts, TasksEnd
<1>f. /\ wsCatalog' \in [FileNames -> CatalogRecords \cup {None}] /\ EntriesRemain /\ \A k \in FileNames \ {m} : wsCatalog'[k] = wsCatalog[k]
      /\ wsTorn \subseteq wsTorn'
  BY <1>0, <1>d, FilesFacts DEF FilesTypes, EntriesRemain
<1>1. FilesTypes'
  <2>1. wsFile' \in [FileNames -> W!Texts \cup {None}]
    BY <1>0, <1>a, FilesFacts DEF FilesTypes
  <2> QED BY <1>0, <1>c, <1>e, <1>f, <2>1, FilesFacts DEF FilesTypes
<1>2. Remembers
  BY <1>0, <1>c, <1>f, FilesFacts DEF Remembers
<1>3. ASSUME NEW k \in FileNames PROVE NameSound(k)'
  <2>1. CASE k # m
    <3>1. Stays(k)
      BY <1>b, <1>f, <2>1 DEF Stays
    <3> QED BY <1>1, <1>2, <3>1, NameStays
  <2>2. CASE k = m
    <3>1. CASE W!Dies /\ wsTorn' = wsTorn \cup {x}
      BY <1>1, <1>2, <1>a, <1>b, <1>c, <2>2, <3>1, NameGiven
    <3>2. CASE wsCatalog' = [wsCatalog EXCEPT ![m] = W!Entry(who, wsCatalog[n], None)] /\ UNCHANGED <<wsTask, wsTorn>>
      <4>1. wsCatalog'[m] = e
        BY <1>d, <3>2, FilesFacts DEF FilesTypes
      <4>2. ASSUME x \notin wsTorn', x \notin wsInherited' PROVE CopyNext(x, e.from)
        <5>1. wsCatalog[n] # None /\ W!CopyOf(x, wsCatalog[n].from) /\ wsCatalog[n].from \in Nat \cup {None} /\ Known(x)
          BY <1>0, <1>a, <3>2, <4>2, FilesFacts DEF NameSound, CatalogRecords, Known
        <5>2. PICK y \in W!Texts, p \in Nat \cup {None} : y = x /\ p = wsCatalog[n].from
          BY <1>a, <5>1
        <5>3. CopyNext(y, p)
          BY <1>1, <1>2, <5>1, <5>2, CopiesStay
        <5> QED BY <1>d, <5>1, <5>2, <5>3
      <4> QED BY <1>1, <1>2, <1>a, <1>b, <1>c, <1>d, <2>2, <4>1, <4>2, NameGiven
    <3> QED BY <1>0, <3>1, <3>2
  <2> QED BY <2>1, <2>2
<1>4. \A s \in Slots : SlotSound(s)'
  <2>1. \A s \in Slots : Rests(s)
    BY <1>0 DEF Rests
  <2> QED BY <1>1, <1>2, <1>f, <2>1, SlotStays
<1>5. \A y \in W!Uploads \ wsDeleted' :
        (\E k \in FileNames : wsFile'[k] = y) \/ (\E s \in Slots : wsBin'[s] = y /\ wsBinned'[s] # None)
  <2> SUFFICES ASSUME NEW y \in W!Uploads, y \notin wsDeleted
               PROVE  (\E k \in FileNames : wsFile'[k] = y) \/ (\E s \in Slots : wsBin'[s] = y /\ wsBinned'[s] # None)
    BY <1>0
  <2>1. CASE \E k \in FileNames : wsFile[k] = y
    <3>1. PICK k \in FileNames : wsFile[k] = y
      BY <2>1
    <3>2. y # None
      BY FilesFacts DEF W!Uploads
    <3>3. k # m
      BY <1>0, <3>1, <3>2
    <3>4. wsFile'[IF k = n THEN m ELSE k] = y
      BY <1>b, <3>1, <3>3
    <3> QED BY <3>4
  <2>2. CASE \E s \in Slots : wsBin[s] = y /\ wsBinned[s] # None
    BY <1>0, <2>2
  <2> QED BY <2>1, <2>2, FilesFacts DEF W!NothingLost
<1>6. (\A k \in FileNames : wsFile'[k] # None => wsFile'[k] <= wsMade) /\ \A s \in Slots : Known(wsBin'[s])
  BY <1>0, <1>a, <1>b, FilesFacts DEF AllKnown
<1> QED BY <1>0, <1>1, <1>2, <1>3, <1>4, <1>5, <1>6, <1>e, <1>f, NoNewText

LEMMA TrashKeeps == ASSUME FilesInv, NEW u \in Users, NEW n \in FileNames, NEW s \in Slots, W!Trash(u, n, s) PROVE FilesInv'
<1> DEFINE x == wsFile[n]
           who == W!Uploader(u, n)
<1>0. /\ x # None /\ wsBin[s] = None /\ W!Holds(x, who) /\ wsBinned' = [wsBinned EXCEPT ![s] = [name |-> n, by |-> who]]
      /\ UNCHANGED <<wsCatalog, wsVersions, wsCopyName, wsMade, wsTorn, wsInherited, wsDeleted>>
      /\ \/ wsFile' = [wsFile EXCEPT ![n] = None] /\ wsBin' = [wsBin EXCEPT ![s] = x] /\ UNCHANGED wsTask
         \/ W!Dies /\ UNCHANGED <<wsFile, wsBin>>
  BY DEF W!Trash, W!Free, W!Lives
<1>a. x \in W!Texts /\ x <= wsMade /\ who \in Users
  BY <1>0, FilesFacts, UploaderKnown
<1>b. PICK r \in BinRecords : wsBinned' = [wsBinned EXCEPT ![s] = r] /\ r.name = n /\ r.by = who /\ r # None
  <2>1. [name |-> n, by |-> who] \in BinRecords /\ [name |-> n, by |-> who].name = n /\ [name |-> n, by |-> who].by = who
    BY <1>a DEF BinRecords
  <2> QED BY <1>0, <2>1, FilesConstants
<1>c. wsHolders' \in [W!Texts -> SUBSET Users] /\ who \in wsHolders'[x] /\ \A y \in W!Texts : wsHolders[y] \subseteq wsHolders'[y]
  BY <1>0, <1>a, FilesFacts, HoldersGrow
<1>d. wsTask' \in [FileTasks -> WorkRecords \cup {None}] /\ \A t \in FileTasks : Works(t)
  BY <1>0, FilesFacts, TasksEnd
<1>e. wsBinned'[s] = r /\ \A k \in Slots \ {s} : wsBinned'[k] = wsBinned[k] /\ wsBin'[k] = wsBin[k]
  BY <1>0, <1>b, FilesFacts DEF FilesTypes
<1>1. FilesTypes'
  <2>1. wsFile' \in [FileNames -> W!Texts \cup {None}] /\ wsBin' \in [Slots -> W!Texts \cup {None}]
    BY <1>0, <1>a, FilesFacts DEF FilesTypes
  <2>2. wsBinned' \in [Slots -> BinRecords \cup {None}]
    BY <1>b, FilesFacts DEF FilesTypes
  <2> QED BY <1>0, <1>c, <1>d, <2>1, <2>2, FilesFacts DEF FilesTypes
<1>2. Remembers /\ EntriesRemain
  BY <1>0, <1>c, FilesFacts DEF Remembers, EntriesRemain
<1>3. \A k \in FileNames : NameSound(k)'
  <2>1. \A k \in FileNames : Stays(k)
    BY <1>0, FilesFacts DEF Stays, FilesTypes
  <2> QED BY <1>1, <1>2, <2>1, NameStays
<1>4. ASSUME NEW k \in Slots PROVE SlotSound(k)'
  <2>1. CASE k # s
    <3>1. Rests(k)
      BY <1>e, <2>1 DEF Rests
    <3> QED BY <1>1, <1>2, <3>1, SlotStays
  <2>2. CASE k = s
    <3>1. wsBin'[s] = None \/ wsBin'[s] = x
      BY <1>0, FilesFacts DEF FilesTypes
    <3>2. x \notin wsTorn' => wsCatalog'[n] # None
      BY <1>0, FilesFacts DEF NameSound
    <3> QED BY <1>b, <1>c, <1>e, <2>2, <3>1, <3>2 DEF SlotSound
  <2> QED BY <2>1, <2>2
<1>5. \A y \in W!Uploads \ wsDeleted' :
        (\E k \in FileNames : wsFile'[k] = y) \/ (\E k \in Slots : wsBin'[k] = y /\ wsBinned'[k] # None)
  <2> SUFFICES ASSUME NEW y \in W!Uploads, y \notin wsDeleted
               PROVE  (\E k \in FileNames : wsFile'[k] = y) \/ (\E k \in Slots : wsBin'[k] = y /\ wsBinned'[k] # None)
    BY <1>0
  <2>0. y # None
    BY FilesFacts DEF W!Uploads
  <2>1. CASE \E k \in FileNames : wsFile[k] = y
    <3>1. PICK k \in FileNames : wsFile[k] = y
      BY <2>1
    <3>2. CASE wsFile' = wsFile
      BY <3>1, <3>2
    <3>3. CASE wsFile' = [wsFile EXCEPT ![n] = None] /\ wsBin' = [wsBin EXCEPT ![s] = x]
      <4>1. k # n => wsFile'[k] = y
        BY <3>1, <3>3, FilesFacts DEF FilesTypes
      <4>2. k = n => wsBin'[s] = y /\ wsBinned'[s] # None
        BY <1>b, <1>e, <3>1, <3>3, FilesFacts DEF FilesTypes
      <4> QED BY <4>1, <4>2
    <3> QED BY <1>0, <3>2, <3>3
  <2>2. CASE \E k \in Slots : wsBin[k] = y /\ wsBinned[k] # None
    <3>1. PICK k \in Slots : wsBin[k] = y /\ wsBinned[k] # None
      BY <2>2
    <3>2. k # s
      BY <1>0, <2>0, <3>1
    <3> QED BY <1>e, <3>1, <3>2
  <2> QED BY <2>1, <2>2, FilesFacts DEF W!NothingLost
<1>6. (\A k \in FileNames : wsFile'[k] # None => wsFile'[k] <= wsMade) /\ \A k \in Slots : Known(wsBin'[k])
  <2>1. \A k \in FileNames : wsFile'[k] # None => wsFile'[k] = wsFile[k]
    BY <1>0, FilesFacts DEF FilesTypes
  <2>2. \A k \in Slots : wsBin'[k] = wsBin[k] \/ wsBin'[k] = x
    BY <1>0, FilesFacts DEF FilesTypes
  <2> QED BY <1>a, <2>1, <2>2, FilesFacts DEF AllKnown, Known
<1> QED BY <1>0, <1>1, <1>2, <1>3, <1>4, <1>5, <1>6, <1>d, NoNewText

LEMMA RestoreKeeps == ASSUME FilesInv, NEW u \in Users, NEW s \in Slots, W!Restore(u, s) PROVE FilesInv'
<1> DEFINE r == wsBinned[s]
           x == wsBin[s]
           n == r.name
           e == W!Entry(r.by, wsCatalog[n], None)
<1>0. /\ r # None /\ x # None /\ wsFile[n] = None /\ wsFile' = [wsFile EXCEPT ![n] = x] /\ wsBin' = [wsBin EXCEPT ![s] = None]
      /\ W!Holds(x, r.by) /\ wsInherited' = (IF wsCatalog[n] = None THEN wsInherited ELSE wsInherited \cup {x})
      /\ UNCHANGED <<wsVersions, wsCopyName, wsMade, wsDeleted>>
      /\ \/ wsCatalog' = [wsCatalog EXCEPT ![n] = e] /\ UNCHANGED wsTorn /\ (wsBinned' = [wsBinned EXCEPT ![s] = None] \/ UNCHANGED wsBinned)
         \/ wsTorn' = wsTorn \cup {x} /\ UNCHANGED <<wsCatalog, wsBinned>>
      /\ (UNCHANGED wsTask \/ W!Dies)
  BY DEF W!Restore, W!Free, W!Lives
<1>a. x \in W!Texts /\ x <= wsMade /\ n \in FileNames /\ r.by \in Users /\ SlotSound(s)
  BY <1>0, FilesFacts DEF FilesInv
<1>b. wsFile'[n] = x /\ wsBin'[s] = None /\ (\A k \in FileNames \ {n} : wsFile'[k] = wsFile[k]) /\ \A k \in Slots \ {s} : wsBin'[k] = wsBin[k] /\ wsBinned'[k] = wsBinned[k]
  BY <1>0, <1>a, FilesFacts DEF FilesTypes
<1>c. wsHolders' \in [W!Texts -> SUBSET Users] /\ r.by \in wsHolders'[x] /\ \A y \in W!Texts : wsHolders[y] \subseteq wsHolders'[y]
  BY <1>0, <1>a, FilesFacts, HoldersGrow
<1>d. e \in CatalogRecords /\ e # None /\ e.by = r.by
  <2>1. PICK v \in Users, q \in CatalogRecords \cup {None}, p \in Nat \cup {None} : v = r.by /\ q = wsCatalog[n] /\ p = None
    BY <1>a, FilesFacts DEF FilesTypes
  <2>2. W!Entry(v, q, p) \in CatalogRecords /\ W!Entry(v, q, p) # None /\ W!Entry(v, q, p).by = v
    BY EntryFields
  <2> QED BY <2>1, <2>2
<1> HIDE DEF e
<1>e. wsTask' \in [FileTasks -> WorkRecords \cup {None}] /\ \A t \in FileTasks : Works(t)
  BY <1>0, FilesFacts, TasksEnd
<1>f. /\ wsCatalog' \in [FileNames -> CatalogRecords \cup {None}] /\ EntriesRemain /\ \A k \in FileNames \ {n} : wsCatalog'[k] = wsCatalog[k]
      /\ wsTorn \subseteq wsTorn'
  BY <1>0, <1>a, <1>d, FilesFacts DEF FilesTypes, EntriesRemain
<1>1. FilesTypes'
  <2>1. wsFile' \in [FileNames -> W!Texts \cup {None}] /\ wsBin' \in [Slots -> W!Texts \cup {None}] /\ wsBinned' \in [Slots -> BinRecords \cup {None}]
    BY <1>0, <1>a, FilesFacts DEF FilesTypes
  <2> QED BY <1>0, <1>c, <1>e, <1>f, <2>1, FilesFacts DEF FilesTypes
<1>2. Remembers
  BY <1>0, <1>c, <1>f, FilesFacts DEF Remembers
<1>3. ASSUME NEW k \in FileNames PROVE NameSound(k)'
  <2>1. CASE k # n
    <3>1. Stays(k)
      BY <1>b, <1>f, <2>1 DEF Stays
    <3> QED BY <1>1, <1>2, <3>1, NameStays
  <2>2. CASE k = n
    <3>1. x \in wsTorn' \/ (x \in wsInherited' /\ wsCatalog'[n] = e)
      <4>1. CASE wsCatalog[n] = None
        BY <1>0, <1>a, <4>1 DEF SlotSound
      <4>2. CASE wsCatalog[n] # None
        BY <1>0, <1>a, <4>2, FilesFacts DEF FilesTypes
      <4> QED BY <4>1, <4>2
    <3> QED BY <1>1, <1>2, <1>a, <1>b, <1>c, <1>d, <2>2, <3>1, NameGiven
  <2> QED BY <2>1, <2>2
<1>4. \A k \in Slots : SlotSound(k)'
  <2>1. \A k \in Slots : Rests(k)
    BY <1>b DEF Rests
  <2> QED BY <1>1, <1>2, <1>f, <2>1, SlotStays
<1>5. \A y \in W!Uploads \ wsDeleted' :
        (\E k \in FileNames : wsFile'[k] = y) \/ (\E k \in Slots : wsBin'[k] = y /\ wsBinned'[k] # None)
  <2> SUFFICES ASSUME NEW y \in W!Uploads, y \notin wsDeleted
               PROVE  (\E k \in FileNames : wsFile'[k] = y) \/ (\E k \in Slots : wsBin'[k] = y /\ wsBinned'[k] # None)
    BY <1>0
  <2>0. y # None
    BY FilesFacts DEF W!Uploads
  <2>1. CASE \E k \in FileNames : wsFile[k] = y
    BY <1>0, <1>b, <2>0, <2>1
  <2>2. CASE \E k \in Slots : wsBin[k] = y /\ wsBinned[k] # None
    <3>1. PICK k \in Slots : wsBin[k] = y /\ wsBinned[k] # None
      BY <2>2
    <3>2. k = s => wsFile'[n] = y
      BY <1>b, <3>1
    <3>3. k # s => wsBin'[k] = y /\ wsBinned'[k] # None
      BY <1>b, <3>1
    <3> QED BY <1>a, <3>2, <3>3
  <2> QED BY <2>1, <2>2, FilesFacts DEF W!NothingLost
<1>6. (\A k \in FileNames : wsFile'[k] # None => wsFile'[k] <= wsMade) /\ \A k \in Slots : Known(wsBin'[k])
  <2>1. \A k \in Slots : wsBin'[k] = None \/ wsBin'[k] = wsBin[k]
    BY <1>b
  <2> QED BY <1>a, <1>b, <2>1, FilesFacts DEF AllKnown, Known
<1> QED BY <1>0, <1>1, <1>2, <1>3, <1>4, <1>5, <1>6, <1>e, <1>f, NoNewText

LEMMA CopyKeeps ==
  ASSUME FilesInv, NEW u \in Users, NEW n \in FileNames, NEW v \in DOMAIN wsVersions, W!CopyVersion(u, v, n) PROVE FilesInv'
<1> DEFINE x == wsVersions[v].text
           e == W!Entry(u, wsCatalog[n], v)
<1>0. /\ wsFile' = [wsFile EXCEPT ![n] = IF wsFile[n] # None THEN wsFile[n] ELSE x] /\ W!Holds(wsFile'[n], u)
      /\ wsInherited' = (IF wsFile[n] # None /\ wsFile[n] # x THEN wsInherited \cup {wsFile[n]} ELSE wsInherited)
      /\ UNCHANGED <<wsBin, wsBinned, wsVersions, wsMade, wsDeleted>>
      /\ \/ wsCatalog' = [wsCatalog EXCEPT ![n] = e] /\ UNCHANGED <<wsTorn, wsTask>>
         \/ W!Dies /\ wsFile[n] = None /\ wsTorn' = wsTorn \cup {x} /\ UNCHANGED wsCatalog
  BY DEF W!CopyVersion, W!Free, W!Lives
<1>a. x \in W!Texts /\ x <= wsMade /\ v \in Nat /\ v # None /\ x # None
  <2>1. wsVersions[v] \in VersionRecords /\ v \in Nat
    BY FilesFacts DEF FilesTypes
  <2>2. x \in W!Texts /\ x # None
    BY <2>1, FilesFacts DEF VersionRecords, W!Texts
  <2> QED BY <2>1, <2>2, FilesFacts DEF AllKnown, Known
<1> HIDE DEF x
<1>b. /\ wsFile'[n] \in {x, wsFile[n]} /\ wsFile'[n] \in W!Texts /\ wsFile'[n] <= wsMade /\ (wsFile[n] = None => wsFile'[n] = x)
      /\ (wsFile[n] # None => wsFile'[n] = wsFile[n]) /\ \A k \in FileNames \ {n} : wsFile'[k] = wsFile[k]
  BY <1>0, <1>a, FilesFacts DEF FilesTypes
<1>c. wsHolders' \in [W!Texts -> SUBSET Users] /\ u \in wsHolders'[wsFile'[n]] /\ \A y \in W!Texts : wsHolders[y] \subseteq wsHolders'[y]
  BY <1>0, <1>b, FilesFacts, HoldersGrow
<1>d. e \in CatalogRecords /\ e # None /\ e.by = u /\ e.from = v
  <2>1. PICK q \in CatalogRecords \cup {None}, p \in Nat \cup {None} : q = wsCatalog[n] /\ p = v
    BY <1>a, FilesFacts DEF FilesTypes
  <2>2. W!Entry(u, q, p) \in CatalogRecords /\ W!Entry(u, q, p) # None /\ W!Entry(u, q, p).by = u /\ (p # None => W!Entry(u, q, p).from = p)
    BY EntryFields
  <2> QED BY <1>a, <2>1, <2>2
<1> HIDE DEF e
<1>e. wsTask' \in [FileTasks -> WorkRecords \cup {None}] /\ \A t \in FileTasks : Works(t)
  BY <1>0, FilesFacts, TasksEnd
<1>f. /\ wsCatalog' \in [FileNames -> CatalogRecords \cup {None}] /\ EntriesRemain /\ \A k \in FileNames \ {n} : wsCatalog'[k] = wsCatalog[k]
      /\ wsTorn \subseteq wsTorn' /\ wsInherited \subseteq wsInherited'
  BY <1>0, <1>d, FilesFacts DEF FilesTypes, EntriesRemain
<1>1. FilesTypes'
  <2>1. wsFile' \in [FileNames -> W!Texts \cup {None}]
    BY <1>0, <1>a, FilesFacts DEF FilesTypes
  <2> QED BY <1>0, <1>c, <1>e, <1>f, <2>1, FilesFacts DEF FilesTypes
<1>2. Remembers
  BY <1>0, <1>c, <1>f, FilesFacts DEF Remembers
<1>3. ASSUME NEW k \in FileNames PROVE NameSound(k)'
  <2>1. CASE k # n
    <3>1. Stays(k)
      BY <1>b, <1>f, <2>1 DEF Stays
    <3> QED BY <1>1, <1>2, <3>1, NameStays
  <2>2. CASE k = n
    <3>1. CASE wsFile'[n] \in wsTorn'
      BY <1>1, <1>2, <1>b, <1>c, <2>2, <3>1, NameGiven
    <3>2. CASE wsFile'[n] \notin wsTorn'
      <4>1. wsCatalog'[n] = e
        BY <1>0, <1>b, <3>2, FilesFacts DEF FilesTypes
      <4>2. wsFile'[n] \notin wsInherited' => wsFile'[n] = x
        BY <1>0, <1>b
      <4>3. CopyNext(x, v)
        BY <1>0, <1>a DEF CopyNext, x
      <4> QED BY <1>1, <1>2, <1>b, <1>c, <1>d, <2>2, <4>1, <4>2, <4>3, NameGiven
    <3> QED BY <3>1, <3>2
  <2> QED BY <2>1, <2>2
<1>4. \A k \in Slots : SlotSound(k)'
  <2>1. \A k \in Slots : Rests(k)
    BY <1>0 DEF Rests
  <2> QED BY <1>1, <1>2, <1>f, <2>1, SlotStays
<1>5. \A y \in W!Uploads \ wsDeleted' :
        (\E k \in FileNames : wsFile'[k] = y) \/ (\E k \in Slots : wsBin'[k] = y /\ wsBinned'[k] # None)
  <2>1. \A y \in W!Uploads : y # None
    BY FilesFacts DEF W!Uploads
  <2>2. \A y, k \in FileNames : (wsFile[k] = y /\ y # None) => wsFile'[k] = y
    BY <1>b
  <2> QED BY <1>0, <1>b, <2>1, FilesFacts DEF W!NothingLost
<1>6. (\A k \in FileNames : wsFile'[k] # None => wsFile'[k] <= wsMade) /\ \A k \in Slots : Known(wsBin'[k])
  BY <1>0, <1>b, FilesFacts DEF AllKnown
<1> QED BY <1>0, <1>1, <1>2, <1>3, <1>4, <1>5, <1>6, <1>e, <1>f, NoNewText

(* What was known still is, when there is one more text.                    *)
Numbered(x) == x \in W!Texts \cup {None} /\ (x = None \/ x <= wsMade')

LEMMA KnownNext ==
  ASSUME \A n \in FileNames : Numbered(wsFile'[n]), \A s \in Slots : Numbered(wsBin'[s]),
         \A t \in FileTasks : wsTask'[t] # None => Numbered(wsTask'[t].input),
         \A v \in DOMAIN wsVersions' : Numbered(wsVersions'[v].text) /\ Numbered(wsVersions'[v].input)
  PROVE  AllKnown'
<1>1. (\A n \in FileNames : Known(wsFile[n])') /\ \A s \in Slots : Known(wsBin[s])'
  BY DEF Known, Numbered
<1>2. \A t \in FileTasks : wsTask'[t] # None => Known(wsTask[t].input)'
  BY DEF Known, Numbered
<1>3. \A v \in DOMAIN wsVersions' : Known(wsVersions[v].text)' /\ Known(wsVersions[v].input)'
  BY DEF Known, Numbered
<1> QED BY <1>1, <1>2, <1>3 DEF AllKnown

LEMMA KnownStays ==
  ASSUME FilesInv, wsMade <= wsMade', wsMade' \in Nat
  PROVE  /\ \A n \in FileNames : Numbered(wsFile[n])
         /\ \A s \in Slots : Numbered(wsBin[s])
         /\ \A t \in FileTasks : wsTask[t] # None => Numbered(wsTask[t].input)
         /\ \A v \in DOMAIN wsVersions : Numbered(wsVersions[v].text) /\ Numbered(wsVersions[v].input)
<1>1. \A x \in W!Texts \cup {None} : Known(x) => Numbered(x)
  BY FilesFacts DEF Known, Numbered, W!Texts
<1>2. /\ \A n \in FileNames : wsFile[n] \in W!Texts \cup {None}
      /\ \A s \in Slots : wsBin[s] \in W!Texts \cup {None}
      /\ \A t \in FileTasks : wsTask[t] # None => wsTask[t].input \in W!Texts
  BY FilesFacts DEF FilesTypes, WorkRecords
<1>3. \A v \in DOMAIN wsVersions : wsVersions[v].text \in W!Texts /\ wsVersions[v].input \in W!Texts
  <2>1. \A v \in DOMAIN wsVersions : wsVersions[v] \in VersionRecords
    BY FilesFacts DEF FilesTypes
  <2> QED BY <2>1 DEF VersionRecords
<1> QED BY <1>1, <1>2, <1>3, FilesFacts DEF AllKnown

LEMMA UploadKeeps == ASSUME FilesInv, NEW u \in Users, NEW n \in FileNames, W!Upload(u, n) PROVE FilesInv'
<1> DEFINE x == wsMade + 1
           e == W!Entry(u, wsCatalog[n], None)
<1>0. /\ x \in W!Texts /\ wsFile[n] = None /\ wsMade' = x /\ wsFile' = [wsFile EXCEPT ![n] = x] /\ W!Holds(x, u)
      /\ wsInherited' = (IF wsCatalog[n] # None THEN wsInherited \cup {x} ELSE wsInherited)
      /\ UNCHANGED <<wsBin, wsBinned, wsVersions, wsCopyName, wsDeleted>>
      /\ \/ wsCatalog' = [wsCatalog EXCEPT ![n] = e] /\ UNCHANGED <<wsTorn, wsTask>>
         \/ W!Dies /\ wsTorn' = wsTorn \cup {x} /\ UNCHANGED wsCatalog
  BY DEF W!Upload, W!Free, W!Lives
<1>a. wsMade \in Nat /\ x \in Nat /\ x > wsMade /\ x # None /\ MaxTexts \in Nat
  BY FilesFacts
<1> HIDE DEF x
<1>b. wsFile'[n] = x /\ \A k \in FileNames \ {n} : wsFile'[k] = wsFile[k]
  BY <1>0, FilesFacts DEF FilesTypes
<1>c. wsHolders' \in [W!Texts -> SUBSET Users] /\ u \in wsHolders'[x] /\ \A y \in W!Texts : wsHolders[y] \subseteq wsHolders'[y]
  BY <1>0, FilesFacts, HoldersGrow
<1>d. e \in CatalogRecords /\ e # None /\ e.by = u /\ (wsCatalog[n] = None => e.from = None)
  <2>1. PICK q \in CatalogRecords \cup {None}, p \in Nat \cup {None} : q = wsCatalog[n] /\ p = None
    BY FilesFacts DEF FilesTypes
  <2>2. /\ W!Entry(u, q, p) \in CatalogRecords /\ W!Entry(u, q, p) # None /\ W!Entry(u, q, p).by = u
        /\ W!Entry(u, q, p).from = IF p # None THEN p ELSE IF q = None THEN None ELSE q.from
    BY EntryFields
  <2> QED BY <2>1, <2>2
<1> HIDE DEF e
<1>e. wsTask' \in [FileTasks -> WorkRecords \cup {None}] /\ \A t \in FileTasks : Works(t)
  BY <1>0, FilesFacts, TasksEnd
<1>f. /\ wsCatalog' \in [FileNames -> CatalogRecords \cup {None}] /\ EntriesRemain /\ \A k \in FileNames \ {n} : wsCatalog'[k] = wsCatalog[k]
      /\ wsTorn \subseteq wsTorn' /\ wsInherited \subseteq wsInherited'
  BY <1>0, <1>d, FilesFacts DEF FilesTypes, EntriesRemain
<1>1. FilesTypes'
  <2>1. wsFile' \in [FileNames -> W!Texts \cup {None}]
    BY <1>0, FilesFacts DEF FilesTypes
  <2>2. wsMade' \in 0 .. MaxTexts
    BY <1>0, <1>a DEF W!Texts
  <2> QED BY <1>0, <1>c, <1>e, <1>f, <2>1, <2>2, FilesFacts DEF FilesTypes
<1>2. Remembers
  <2>1. wsMade <= wsMade'
    BY <1>0, <1>a
  <2> QED BY <1>0, <1>c, <1>f, <2>1, FilesFacts DEF Remembers
<1>3. ASSUME NEW k \in FileNames PROVE NameSound(k)'
  <2>1. CASE k # n
    <3>1. Stays(k)
      BY <1>b, <1>f, <2>1 DEF Stays
    <3> QED BY <1>1, <1>2, <3>1, NameStays
  <2>2. CASE k = n
    <3>1. CASE x \in wsTorn'
      BY <1>0, <1>1, <1>2, <1>b, <1>c, <2>2, <3>1, NameGiven
    <3>2. CASE x \notin wsTorn'
      <4>1. wsCatalog'[n] = e
        BY <1>0, <3>2, FilesFacts DEF FilesTypes
      <4>2. x \notin wsInherited' => e.from = None
        BY <1>0, <1>d
      <4>3. CopyNext(x, None)
        <5>1. \A v \in DOMAIN wsVersions : wsVersions[v].text # x
          <6>1. ASSUME NEW v \in DOMAIN wsVersions PROVE wsVersions[v].text # x
            <7>1. wsVersions[v] \in VersionRecords /\ Known(wsVersions[v].text)
              BY FilesFacts DEF FilesTypes, AllKnown
            <7>2. wsVersions[v].text \in Nat /\ wsVersions[v].text <= wsMade
              BY <1>a, <7>1, FilesFacts DEF VersionRecords, W!Texts, Known
            <7> QED BY <1>a, <7>2
          <6> QED BY <6>1
        <5>2. x \in 1 .. wsMade'
          BY <1>0, <1>a
        <5> QED BY <1>0, <5>1, <5>2 DEF CopyNext
      <4> QED BY <1>0, <1>1, <1>2, <1>b, <1>c, <1>d, <2>2, <4>1, <4>2, <4>3, NameGiven
    <3> QED BY <3>1, <3>2
  <2> QED BY <2>1, <2>2
<1>4. \A k \in Slots : SlotSound(k)'
  <2>1. \A k \in Slots : Rests(k)
    BY <1>0 DEF Rests
  <2> QED BY <1>1, <1>2, <1>f, <2>1, SlotStays
<1>5. W!NothingLost'
  <2> SUFFICES ASSUME NEW y \in W!Uploads', y \notin wsDeleted
               PROVE  (\E k \in FileNames : wsFile'[k] = y) \/ (\E k \in Slots : wsBin'[k] = y /\ wsBinned'[k] # None)
    BY <1>0 DEF W!NothingLost
  <2>1. CASE y = x
    BY <1>b, <2>1
  <2>2. CASE y # x
    <3>1. y \in W!Uploads /\ y # None
      BY <1>0, <1>a, <2>2, FilesFacts DEF W!Uploads, x
    <3>2. CASE \E k \in FileNames : wsFile[k] = y
      BY <1>0, <1>b, <3>1, <3>2
    <3>3. CASE \E k \in Slots : wsBin[k] = y /\ wsBinned[k] # None
      BY <1>0, <3>3
    <3> QED BY <3>1, <3>2, <3>3, FilesFacts DEF W!NothingLost
  <2> QED BY <2>1, <2>2
<1>6. AllKnown'
  <2>1. /\ \A k \in FileNames : Numbered(wsFile[k])
        /\ \A s \in Slots : Numbered(wsBin[s])
        /\ \A t \in FileTasks : wsTask[t] # None => Numbered(wsTask[t].input)
        /\ \A v \in DOMAIN wsVersions : Numbered(wsVersions[v].text) /\ Numbered(wsVersions[v].input)
    BY <1>0, <1>a, KnownStays
  <2>2. Numbered(x)
    BY <1>0, <1>a DEF Numbered
  <2>3. \A t \in FileTasks : wsTask'[t] # None => Numbered(wsTask'[t].input)
    BY <1>e, <2>1 DEF Works
  <2> QED BY <1>0, <1>b, <2>1, <2>2, <2>3, KnownNext
<1>7. \A t \in FileTasks : InputSound(t)'
  BY <1>1, <1>2, <1>e, WorkStays
<1>8. \A v \in DOMAIN wsVersions' : VersionSound(v)'
  BY <1>0, <1>1, <1>2, VersionStays
<1> QED BY <1>1, <1>3, <1>4, <1>5, <1>6, <1>7, <1>8 DEF FilesInv

LEMMA ProduceKeeps == ASSUME FilesInv, NEW t \in FileTasks, W!Produce(t) PROVE FilesInv'
<1> DEFINE x == wsMade + 1
           k == wsTask[t]
<1>0. /\ x \in W!Texts /\ wsMade' = x /\ W!Holds(x, k.by) /\ k # None
      /\ wsVersions' = Append(wsVersions, [text |-> x, from |-> k.from, input |-> k.input])
      /\ UNCHANGED <<wsFile, wsCatalog, wsBin, wsBinned, wsTask, wsCopyName, wsTorn, wsInherited, wsDeleted, wsCrashes>>
  BY DEF W!Produce, W!stored
<1>a. wsMade \in Nat /\ x \in Nat /\ x > wsMade /\ x # None /\ MaxTexts \in Nat
  BY FilesFacts
<1> HIDE DEF x
<1>b. k \in WorkRecords /\ k.by \in Users /\ k.input \in W!Texts /\ k.from \in Nat \cup {None} /\ Known(k.input) /\ InputSound(t)
  BY <1>0, FilesFacts DEF FilesTypes, WorkRecords, AllKnown, FilesInv
<1>c. wsHolders' \in [W!Texts -> SUBSET Users] /\ \A y \in W!Texts : wsHolders[y] \subseteq wsHolders'[y]
  BY <1>0, <1>b, FilesFacts, HoldersGrow
<1>d. PICK r \in VersionRecords : wsVersions' = Append(wsVersions, r) /\ r.text = x /\ r.from = k.from /\ r.input = k.input
  <2>1. /\ [text |-> x, from |-> k.from, input |-> k.input] \in VersionRecords
        /\ [text |-> x, from |-> k.from, input |-> k.input].text = x
        /\ [text |-> x, from |-> k.from, input |-> k.input].from = k.from
        /\ [text |-> x, from |-> k.from, input |-> k.input].input = k.input
    BY <1>0, <1>b DEF VersionRecords
  <2> QED BY <1>0, <2>1
<1>e. /\ wsVersions \in Seq(VersionRecords) /\ wsVersions' \in Seq(VersionRecords) /\ Len(wsVersions) \in Nat
      /\ DOMAIN wsVersions = 1 .. Len(wsVersions) /\ DOMAIN wsVersions' = 1 .. Len(wsVersions) + 1
      /\ wsVersions'[Len(wsVersions) + 1] = r /\ \A v \in DOMAIN wsVersions : wsVersions'[v] = wsVersions[v]
  BY <1>d, FilesFacts DEF FilesTypes
<1>f. \A v \in DOMAIN wsVersions' : v \in DOMAIN wsVersions \/ v = Len(wsVersions) + 1
  BY <1>e
<1>1. FilesTypes'
  <2>1. wsMade' \in 0 .. MaxTexts
    BY <1>0, <1>a DEF W!Texts
  <2> QED BY <1>0, <1>c, <1>e, <2>1, FilesFacts DEF FilesTypes
<1>2. Remembers /\ EntriesRemain
  <2>1. wsMade <= wsMade' /\ DOMAIN wsVersions \subseteq DOMAIN wsVersions'
    BY <1>0, <1>a, <1>e
  <2>2. \A v \in DOMAIN wsVersions' \ DOMAIN wsVersions : wsVersions'[v].text > wsMade
    BY <1>a, <1>d, <1>e, <1>f
  <2> QED BY <1>0, <1>c, <1>e, <2>1, <2>2 DEF Remembers, EntriesRemain
<1>3. (\A n \in FileNames : NameSound(n)') /\ \A s \in Slots : SlotSound(s)'
  <2>1. (\A n \in FileNames : Stays(n)) /\ \A s \in Slots : Rests(s)
    BY <1>0 DEF Stays, Rests
  <2> QED BY <1>1, <1>2, <2>1, NameStays, SlotStays
<1>4. \A s \in FileTasks : InputSound(s)'
  <2>1. \A s \in FileTasks : Works(s)
    BY <1>0 DEF Works
  <2> QED BY <1>1, <1>2, <2>1, WorkStays
<1>5. ASSUME NEW v \in DOMAIN wsVersions' PROVE VersionSound(v)'
  <2>1. CASE v \in DOMAIN wsVersions
    BY <1>1, <1>2, <2>1, VersionStays
  <2>2. CASE v \notin DOMAIN wsVersions
    <3>1. wsVersions'[v].input = k.input /\ wsVersions'[v].from = k.from
      BY <1>d, <1>e, <1>f, <2>2
    <3>2. ASSUME k.input \notin wsTorn' \cup wsInherited' PROVE CopyNext(k.input, k.from)
      <4>1. W!CopyOf(k.input, k.from)
        BY <1>0, <1>b, <3>2 DEF InputSound, Exempt
      <4>2. PICK y \in W!Texts, p \in Nat \cup {None} : y = k.input /\ p = k.from
        BY <1>b
      <4>3. CopyNext(y, p)
        BY <1>1, <1>2, <1>b, <4>1, <4>2, CopiesStay
      <4> QED BY <4>2, <4>3
    <3> QED BY <3>1, <3>2, VersionNext
  <2> QED BY <2>1, <2>2
<1>6. W!NothingLost'
  <2> SUFFICES ASSUME NEW y \in W!Uploads', y \notin wsDeleted
               PROVE  (\E n \in FileNames : wsFile'[n] = y) \/ (\E s \in Slots : wsBin'[s] = y /\ wsBinned'[s] # None)
    BY <1>0 DEF W!NothingLost
  <2>1. y \in 1 .. x /\ \A v \in DOMAIN wsVersions' : wsVersions'[v].text # y
    BY <1>0 DEF W!Uploads
  <2>2. y # x
    BY <1>d, <1>e, <2>1
  <2>3. y \in 1 .. wsMade
    BY <1>a, <2>1, <2>2 DEF x
  <2>4. y \in W!Uploads
    BY <1>e, <2>1, <2>3 DEF W!Uploads
  <2> QED BY <1>0, <2>4, FilesFacts DEF W!NothingLost
<1>7. AllKnown'
  <2>1. /\ \A n \in FileNames : Numbered(wsFile[n])
        /\ \A s \in Slots : Numbered(wsBin[s])
        /\ \A s \in FileTasks : wsTask[s] # None => Numbered(wsTask[s].input)
        /\ \A v \in DOMAIN wsVersions : Numbered(wsVersions[v].text) /\ Numbered(wsVersions[v].input)
    BY <1>0, <1>a, KnownStays
  <2>2. Numbered(r.text) /\ Numbered(r.input)
    BY <1>0, <1>a, <1>d, <2>1 DEF Numbered
  <2>3. \A v \in DOMAIN wsVersions' : Numbered(wsVersions'[v].text) /\ Numbered(wsVersions'[v].input)
    BY <1>e, <1>f, <2>1, <2>2
  <2> QED BY <1>0, <2>1, <2>3, KnownNext
<1> QED BY <1>1, <1>3, <1>4, <1>5, <1>6, <1>7 DEF FilesInv

LEMMA FilesStep == ASSUME FilesInv, W!Next PROVE FilesInv'
  BY DeleteKeeps, ReferenceKeeps, SubmitKeeps, FinishKeeps, RenameKeeps, TrashKeeps, RestoreKeeps, CopyKeeps, UploadKeeps,
     ProduceKeeps DEF W!Next

LEMMA FilesStay == ASSUME FilesInv, UNCHANGED files PROVE FilesInv'
  BY DEF files,
      FilesInv, AllKnown, Known, FilesTypes, InputSound, Exempt, W!CopyOf, W!Uploads, NameSound, SlotSound, VersionSound, W!NothingLost

-----------------------------------------------------------------------------
(* The way out of a sandbox.                                                *)

LEMMA NetsConstants ==
  IsFiniteSet(NetConns) /\ MaxConnections \in Nat /\ MaxBytes \in Nat
  BY StoresAssumption

(* The instance counts as this module does.                                 *)
LEMMA ConnectionsCount == \A set : X!Cardinality(set) = Cardinality(set)
  BY DEF X!Cardinality, Cardinality

Connection ==
  [client : X!Clients, kind : {"http", "tunnel"}, name : Hosts \cup {"none"}, stage : {"idle", "lookup", "busy", "over"},
   upstream : X!Upstreams, late : BOOLEAN, unheard : BOOLEAN, asked : Nat, excess : Nat]

NetsTypes == netConn \in [NetConns -> Connection] /\ netTransferred \in Nat /\ netClosed \in BOOLEAN

(* What carries data was dialled in time and belongs to the request being   *)
(* served; it outlives its client only when the client's end went unheard,  *)
(* and close() only when it is a plain request's.                           *)
WayOut(c) ==
  LET k == netConn[c]
  IN /\ k.late = FALSE
     /\ k.client = "none" => k.stage = "idle" /\ k.upstream = "none"
     /\ k.stage \in {"idle", "lookup"} => k.excess = 0 /\ ~X!Live(c)
     /\ k.upstream = "dialling" => k.kind = "tunnel" /\ k.excess = 0
     /\ k.upstream = "open" => k.excess <= IF k.kind = "tunnel" THEN 1 ELSE 0
     /\ k.excess <= IF k.kind = "tunnel" THEN 2 ELSE 1
     /\ k.excess > 0 => netTransferred >= MaxBytes
     /\ X!Live(c) /\ k.client = "gone" => k.unheard = TRUE
     /\ X!Live(c) /\ netClosed => k.kind = "http"

OpenOnes == {c \in NetConns : netConn[c].client = "open"}

NetsInv ==
  /\ NetsTypes /\ \A c \in NetConns : WayOut(c)
  /\ Cardinality(OpenOnes) <= MaxConnections

LEMMA NetsInvSafe == NetsInv => X!Safe
<1> SUFFICES ASSUME NetsInv PROVE X!Safe
  OBVIOUS
<1> USE DEF NetsInv
<1>1. Cardinality({c \in NetConns : netConn[c].client = "open"}) <= MaxConnections
  BY DEF OpenOnes
<1>2. ASSUME NEW c \in NetConns
      PROVE  /\ netConn[c].client \in X!Clients /\ netConn[c].upstream \in X!Upstreams
             /\ netConn[c].excess <= IF netConn[c].late THEN 0 ELSE IF netConn[c].kind = "tunnel" THEN 2 ELSE 1
             /\ X!Stopped /\ X!Live(c) => netConn[c].kind = "http" /\ netConn[c].unheard
  <2>1. netConn[c] \in Connection /\ WayOut(c)
    BY DEF NetsTypes
  <2>2. ASSUME X!Stopped, X!Live(c) PROVE netConn[c].kind = "http" /\ netConn[c].unheard
    <3>1. netClosed /\ netConn[c].client \notin {"open", "destroyed"}
      BY <2>2 DEF X!Stopped, X!Connections
    <3>2. netConn[c].client # "none"
      BY <2>1, <2>2 DEF WayOut, X!Live
    <3>3. netConn[c].client = "gone"
      BY <2>1, <3>1, <3>2 DEF Connection, X!Clients
    <3> QED BY <2>1, <2>2, <3>1, <3>3 DEF WayOut
  <2> QED BY <2>1, <2>2 DEF WayOut, Connection
<1> QED BY <1>1, <1>2, ConnectionsCount DEF X!Safe

LEMMA NetsInit == X!Init => NetsInv
<1> SUFFICES ASSUME X!Init PROVE NetsInv
  OBVIOUS
<1>1. NetsTypes
  BY DEF X!Init, NetsTypes, Connection, X!Unused, X!Clients, X!Upstreams
<1>2. \A c \in NetConns : WayOut(c)
  BY DEF X!Init, WayOut, X!Unused, X!Live
<1>3. OpenOnes = {}
  BY DEF X!Init, OpenOnes, X!Unused
<1> QED BY <1>1, <1>2, <1>3, FS_EmptySet, NetsConstants DEF NetsInv

(* A connection is opened only where there is room.                         *)
LEMMA NoneOpens ==
  ASSUME NetsInv, \A c \in NetConns : netConn'[c].client = "open" => netConn[c].client = "open"
  PROVE  Cardinality(OpenOnes') <= MaxConnections
<1>1. OpenOnes' \subseteq OpenOnes /\ OpenOnes \subseteq NetConns
  BY DEF OpenOnes
<1>2. IsFiniteSet(OpenOnes) /\ IsFiniteSet(OpenOnes')
  BY <1>1, FS_Subset, NetsConstants
<1>3. Cardinality(OpenOnes') <= Cardinality(OpenOnes)
  BY <1>1, <1>2, FS_Subset
<1> QED BY <1>2, <1>3, FS_CardinalityType, NetsConstants DEF NetsInv

LEMMA OneOpens ==
  ASSUME NetsInv, NEW c \in NetConns, X!Connect(c)
  PROVE  Cardinality(OpenOnes') <= MaxConnections
<1>1. CASE Cardinality(X!Connections) < MaxConnections
  <2>1. OpenOnes' \subseteq X!Connections \cup {c} /\ X!Connections \subseteq NetConns
    BY <1>1 DEF OpenOnes, X!Connections, X!Connect, NetsInv, NetsTypes
  <2>2. IsFiniteSet(X!Connections) /\ IsFiniteSet(X!Connections \cup {c})
    BY <2>1, FS_Subset, FS_AddElement, NetsConstants
  <2>3. Cardinality(X!Connections \cup {c}) <= Cardinality(X!Connections) + 1
    BY <2>2, FS_AddElement, FS_CardinalityType
  <2>4. Cardinality(OpenOnes') <= Cardinality(X!Connections \cup {c}) /\ IsFiniteSet(OpenOnes')
    BY <2>1, <2>2, FS_Subset
  <2> QED BY <1>1, <2>2, <2>3, <2>4, FS_CardinalityType, NetsConstants
<1>2. CASE ~(Cardinality(X!Connections) < MaxConnections)
  <2>1. \A d \in NetConns : netConn'[d].client = "open" => netConn[d].client = "open"
    BY <1>2, ConnectionsCount DEF X!Connect, NetsInv, NetsTypes
  <2> QED BY <2>1, NoneOpens
<1> QED BY <1>1, <1>2

(* A step of one connection, as far as the others are concerned.            *)
LEMMA OthersSound ==
  ASSUME NetsInv, NEW c \in NetConns, UNCHANGED netClosed, netTransferred' >= netTransferred, netTransferred' \in Nat,
         \A d \in NetConns \ {c} : netConn'[d] = netConn[d]
  PROVE  \A d \in NetConns \ {c} : WayOut(d)'
<1> SUFFICES ASSUME NEW d \in NetConns \ {c} PROVE WayOut(d)'
  OBVIOUS
<1>1. netConn'[d] = netConn[d] /\ netConn[d] \in Connection /\ WayOut(d)
  BY DEF NetsInv, NetsTypes
<1>2. netTransferred \in Nat /\ MaxBytes \in Nat
  BY NetsConstants DEF NetsInv, NetsTypes
<1> QED BY <1>1, <1>2 DEF WayOut, X!Live

(* A connection that is cut keeps what it was and is open no more.          *)
LEMMA CutKeeps ==
  ASSUME NEW k \in Connection
  PROVE  /\ X!Cut(k) \in Connection
         /\ X!Cut(k).client = X!Destroyed(k.client) /\ X!Cut(k).client # "open"
         /\ (X!Cut(k).client = "none" => k.client = "none")
         /\ X!Cut(k).upstream = "closed" /\ X!Cut(k).kind = k.kind /\ X!Cut(k).stage = k.stage
         /\ X!Cut(k).excess = k.excess /\ X!Cut(k).late = k.late /\ X!Cut(k).unheard = k.unheard
<1>1. X!Destroyed(k.client) \in X!Clients \ {"open"} /\ (X!Destroyed(k.client) = "none" => k.client = "none")
  BY DEF Connection, X!Clients, X!Destroyed
<1>2. X!Cut(k) = [k EXCEPT !.upstream = "closed", !.client = X!Destroyed(k.client)]
  BY DEF X!Cut
<1>3. X!Cut(k) \in Connection
  BY <1>1, <1>2 DEF Connection, X!Upstreams
<1>4. /\ X!Cut(k).client = X!Destroyed(k.client) /\ X!Cut(k).upstream = "closed" /\ X!Cut(k).kind = k.kind
      /\ X!Cut(k).stage = k.stage /\ X!Cut(k).excess = k.excess /\ X!Cut(k).late = k.late /\ X!Cut(k).unheard = k.unheard
  BY <1>2 DEF Connection
<1> QED BY <1>1, <1>3, <1>4

LEMMA NetsStep == ASSUME NetsInv, X!Next PROVE NetsInv'
<1> USE NetsConstants
<1>0. NetsTypes /\ \A c \in NetConns : netConn[c] \in Connection /\ WayOut(c)
  BY DEF NetsInv, NetsTypes
<1>1. ASSUME NEW c \in NetConns, netConn' = [netConn EXCEPT ![c] = netConn'[c]], netConn'[c] \in Connection, WayOut(c)',
             UNCHANGED netClosed, netTransferred' >= netTransferred, netTransferred' \in Nat,
             netConn'[c].client = "open" => netConn[c].client = "open"
      PROVE  NetsInv'
  <2>1. NetsTypes' /\ \A d \in NetConns \ {c} : netConn'[d] = netConn[d]
    BY <1>0, <1>1 DEF NetsTypes
  <2>2. \A d \in NetConns : WayOut(d)'
    BY <1>1, <2>1, OthersSound
  <2>3. \A d \in NetConns : netConn'[d].client = "open" => netConn[d].client = "open"
    BY <1>1, <2>1
  <2> QED BY <2>1, <2>2, <2>3, NoneOpens DEF NetsInv
<1>2. ASSUME NEW c \in NetConns, X!Connect(c) PROVE NetsInv'
  <2>1. netConn'[c].client \in {"open", "destroyed"} /\ netConn' = [netConn EXCEPT ![c] = [netConn[c] EXCEPT !.client = netConn'[c].client]]
    BY <1>0, <1>2 DEF X!Connect, NetsTypes
  <2>2. NetsTypes'
    BY <1>0, <1>2, <2>1 DEF X!Connect, NetsTypes, Connection, X!Clients
  <2>3. WayOut(c)'
    BY <1>0, <1>2, <2>1 DEF X!Connect, WayOut, X!Live, Connection, NetsTypes
  <2>4. \A d \in NetConns : WayOut(d)'
    BY <1>0, <1>2, <2>1, <2>3, OthersSound DEF X!Connect, NetsTypes
  <2> QED BY <1>2, <2>2, <2>4, OneOpens DEF NetsInv
<1>3. ASSUME NEW c \in NetConns, X!Leave(c) PROVE NetsInv'
  <2> DEFINE k == netConn[c]
              j == netConn'[c]
  <2>1. j = [k EXCEPT !.client = "destroyed"] /\ netConn' = [netConn EXCEPT ![c] = j] /\ UNCHANGED netClosed
    BY <1>0, <1>3 DEF X!Leave, NetsTypes
  <2>2. netTransferred' \in Nat /\ netTransferred' >= netTransferred
    BY <1>0, <1>3 DEF X!Leave, NetsTypes
  <2>3. j \in Connection
    BY <1>0, <2>1 DEF Connection, X!Clients
  <2>4. j.client = "destroyed" /\ j.kind = k.kind /\ j.stage = k.stage /\ j.upstream = k.upstream /\ j.late = k.late /\ j.unheard = k.unheard /\ j.excess = k.excess
    BY <1>0, <2>1 DEF Connection
  <2>5. WayOut(c)'
    BY <1>0, <1>3, <2>1, <2>2, <2>4 DEF X!Leave, WayOut, X!Live, Connection, NetsTypes
  <2>6. j.client = "open" => k.client = "open"
    BY <2>4
  <2> QED BY <1>1, <2>1, <2>2, <2>3, <2>5, <2>6
<1>4. ASSUME NEW c \in NetConns, X!Gone(c) PROVE NetsInv'
  <2> DEFINE k == netConn[c]
              j == netConn'[c]
  <2>1. j = [k EXCEPT !.client = "gone", !.upstream = IF X!Live(c) THEN "closed" ELSE @] /\ netConn' = [netConn EXCEPT ![c] = j] /\ UNCHANGED netClosed
    BY <1>0, <1>4 DEF X!Gone, NetsTypes
  <2>2. netTransferred' \in Nat /\ netTransferred' >= netTransferred
    BY <1>0, <1>4 DEF X!Gone, NetsTypes
  <2>3. j \in Connection
    BY <1>0, <2>1 DEF Connection, X!Clients, X!Upstreams
  <2>4. j.client = "gone" /\ j.kind = k.kind /\ j.stage = k.stage /\ j.upstream = (IF X!Live(c) THEN "closed" ELSE k.upstream) /\ j.late = k.late /\ j.unheard = k.unheard /\ j.excess = k.excess
    BY <1>0, <2>1 DEF Connection
  <2>5. WayOut(c)'
    BY <1>0, <1>4, <2>1, <2>2, <2>4 DEF X!Gone, WayOut, X!Live, Connection, NetsTypes
  <2>6. j.client = "open" => k.client = "open"
    BY <2>4
  <2> QED BY <1>1, <2>1, <2>2, <2>3, <2>5, <2>6
<1>5. ASSUME NEW c \in NetConns, NEW kind \in {"http", "tunnel"}, NEW name \in Hosts, X!Ask(c, kind, name) PROVE NetsInv'
  <2> DEFINE k == netConn[c]
              j == netConn'[c]
              more == k.asked + 1
              asks == [k EXCEPT !.kind = kind, !.name = name]
  <2>1. j = [asks EXCEPT !.stage = "lookup", !.asked = more] /\ netConn' = [netConn EXCEPT ![c] = j] /\ UNCHANGED <<netTransferred, netClosed>>
    BY <1>0, <1>5 DEF X!Ask, NetsTypes
  <2>a. /\ asks \in Connection /\ asks.client = k.client /\ asks.kind = kind /\ asks.upstream = k.upstream
        /\ asks.late = k.late /\ asks.unheard = k.unheard /\ asks.excess = k.excess
    BY <1>0 DEF Connection
  <2>2. more \in Nat
    BY <1>0 DEF Connection
  <2> HIDE DEF more, asks
  <2>3. j \in Connection
    BY <2>1, <2>2, <2>a DEF Connection
  <2>4. /\ j.client = k.client /\ j.kind = kind /\ j.stage = "lookup" /\ j.upstream = k.upstream
        /\ j.late = k.late /\ j.unheard = k.unheard /\ j.excess = k.excess
    BY <2>1, <2>a DEF Connection
  <2>5. WayOut(c)'
    BY <1>0, <1>5, <2>1, <2>4 DEF X!Ask, WayOut, X!Live, Connection, NetsTypes
  <2>6. netTransferred' \in Nat /\ netTransferred' >= netTransferred /\ (j.client = "open" => k.client = "open")
    BY <1>0, <2>1, <2>4 DEF NetsTypes
  <2> QED BY <1>1, <2>1, <2>3, <2>5, <2>6
<1>6. ASSUME NEW c \in NetConns, NEW found \in SUBSET X!Addresses, X!Resolved(c, found) PROVE NetsInv'
  <2> DEFINE k == netConn[c]
              j == netConn'[c]
  <2>1. j = X!Denied(k) \/ (j = X!Dialled(k) /\ X!MayDial)
    BY <1>0, <1>6 DEF X!Resolved, NetsTypes
  <2>2. netConn' = [netConn EXCEPT ![c] = j] /\ UNCHANGED <<netTransferred, netClosed>> /\ k.stage = "lookup"
    BY <1>0, <1>6 DEF X!Resolved, NetsTypes
  <2>3. CASE j = X!Denied(k)
    <3>1. j \in Connection
      <4>1. CASE k.kind = "tunnel"
        BY <1>0, <2>3, <4>1 DEF X!Denied, X!Destroyed, Connection, X!Clients
      <4>2. CASE k.kind # "tunnel"
        BY <1>0, <2>3, <4>2 DEF X!Denied, Connection
      <4> QED BY <4>1, <4>2
    <3>2. /\ j.kind = k.kind /\ j.upstream = k.upstream /\ j.late = k.late /\ j.unheard = k.unheard
          /\ j.excess = k.excess /\ j.stage \in {"over", "idle"} /\ j.client \in {k.client, X!Destroyed(k.client)}
      BY <1>0, <2>3 DEF X!Denied, Connection
    <3>3. WayOut(c)' /\ (j.client = "open" => k.client = "open")
      BY <1>0, <2>2, <3>2 DEF WayOut, X!Live, Connection, X!Destroyed
    <3> QED BY <1>0, <1>1, <2>2, <3>1, <3>3 DEF NetsTypes
  <2>4. CASE j = X!Dialled(k) /\ X!MayDial
    <3>0. j = [k EXCEPT !.stage = "busy", !.late = FALSE, !.unheard = (k.client = "gone"),
                        !.upstream = IF k.kind = "tunnel" THEN "dialling" ELSE "open"]
      <4>1. (netTransferred >= MaxBytes) = FALSE
        BY <1>0, <2>4 DEF X!MayDial, NetsTypes
      <4> QED BY <2>4, <4>1 DEF X!Dialled
    <3>1. j \in Connection
      BY <1>0, <3>0 DEF Connection, X!Upstreams
    <3>2. /\ j.kind = k.kind /\ j.client = k.client /\ j.late = FALSE
          /\ (k.client = "gone" => j.unheard = TRUE) /\ j.excess = k.excess /\ j.stage = "busy"
          /\ j.upstream = IF k.kind = "tunnel" THEN "dialling" ELSE "open"
      BY <1>0, <3>0 DEF Connection
    <3>3. ~netClosed' /\ netTransferred' = netTransferred /\ netTransferred \in Nat
      BY <1>0, <2>2, <2>4 DEF X!MayDial, NetsTypes
    <3>4. WayOut(c)'
      BY <1>0, <2>2, <3>2, <3>3 DEF WayOut, X!Live, Connection
    <3> QED BY <1>0, <1>1, <2>2, <3>1, <3>2, <3>3, <3>4
  <2> QED BY <2>1, <2>3, <2>4
<1>7. ASSUME NEW c \in NetConns, NEW head \in 0 .. 1, X!Answer(c, head) PROVE NetsInv'
  <2> DEFINE k == netConn[c]
              j == netConn'[c]
              carried == IF netTransferred >= MaxBytes THEN k.excess + head ELSE k.excess
  <2>1. j = [k EXCEPT !.upstream = "open", !.excess = carried] /\ netConn' = [netConn EXCEPT ![c] = j] /\ UNCHANGED netClosed
    BY <1>0, <1>7 DEF X!Answer, NetsTypes
  <2>2. netTransferred' \in Nat /\ netTransferred' >= netTransferred
    BY <1>0, <1>7 DEF X!Answer, NetsTypes
  <2>3. carried \in Nat /\ (carried = k.excess \/ (netTransferred >= MaxBytes /\ carried <= k.excess + 1))
    BY <1>0 DEF Connection
  <2> HIDE DEF carried
  <2>4. j \in Connection
    BY <1>0, <2>1, <2>3 DEF Connection, X!Upstreams
  <2>5. /\ j.client = k.client /\ j.kind = k.kind /\ j.stage = k.stage /\ j.upstream = "open"
        /\ j.late = k.late /\ j.unheard = k.unheard /\ j.excess = carried
    BY <1>0, <2>1 DEF Connection
  <2>6. WayOut(c)'
    BY <1>0, <1>7, <2>1, <2>2, <2>3, <2>5 DEF X!Answer, WayOut, X!Live, Connection, NetsTypes
  <2> QED BY <1>1, <2>1, <2>2, <2>4, <2>5, <2>6
<1>8. ASSUME NEW c \in NetConns, X!Carry(c) PROVE NetsInv'
  <2> DEFINE k == netConn[c]
              j == netConn'[c]
              more == [k EXCEPT !.excess = @ + 1]
  <2>1. j = (IF netTransferred >= MaxBytes THEN X!Cut(more) ELSE k) /\ UNCHANGED netClosed /\ X!Live(c)
    <3>1. netConn' = [netConn EXCEPT ![c] = IF netTransferred >= MaxBytes THEN X!Cut(more) ELSE k]
      BY <1>8 DEF X!Carry
    <3> QED BY <1>0, <1>8, <3>1 DEF X!Carry, NetsTypes
  <2>2. netConn' = [netConn EXCEPT ![c] = j] /\ netTransferred' \in Nat /\ netTransferred' >= netTransferred
    BY <1>0, <1>8 DEF X!Carry, NetsTypes
  <2>3. more \in Connection /\ more.excess = k.excess + 1 /\ more.client = k.client /\ more.kind = k.kind
        /\ more.stage = k.stage /\ more.late = k.late /\ more.unheard = k.unheard
    BY <1>0 DEF Connection
  <2> HIDE DEF more
  <2>4. CASE netTransferred >= MaxBytes
    <3>1. j = [more EXCEPT !.upstream = "closed", !.client = X!Destroyed(more.client)]
      BY <2>1, <2>4 DEF X!Cut
    <3>2. j \in Connection
      BY <2>3, <3>1 DEF Connection, X!Destroyed, X!Clients, X!Upstreams
    <3>3. j.upstream = "closed" /\ j.client = X!Destroyed(k.client) /\ j.excess = k.excess + 1 /\ j.kind = k.kind
          /\ j.stage = k.stage /\ j.late = k.late /\ j.unheard = k.unheard
      BY <2>3, <3>1 DEF Connection
    <3>4. WayOut(c)' /\ (j.client = "open" => k.client = "open")
      BY <1>0, <2>1, <2>2, <2>4, <3>3 DEF WayOut, X!Live, Connection, X!Destroyed, NetsTypes
    <3> QED BY <1>1, <2>1, <2>2, <3>2, <3>4
  <2>5. CASE ~(netTransferred >= MaxBytes)
    <3>1. j = k
      BY <2>1, <2>5
    <3>2. WayOut(c)'
      BY <1>0, <2>1, <2>2, <2>5, <3>1 DEF WayOut, X!Live, NetsTypes, Connection
    <3> QED BY <1>0, <1>1, <2>1, <2>2, <3>1, <3>2
  <2> QED BY <2>4, <2>5
<1>9. ASSUME NEW c \in NetConns, X!Ends(c) PROVE NetsInv'
  <2> DEFINE k == netConn[c]
              j == netConn'[c]
  <2>1. j = (IF k.kind = "tunnel" THEN X!Cut(k) ELSE [k EXCEPT !.upstream = "closed", !.stage = "idle"])
    BY <1>0, <1>9 DEF X!Ends, NetsTypes
  <2>2. netConn' = [netConn EXCEPT ![c] = j] /\ UNCHANGED <<netTransferred, netClosed>> /\ X!Live(c)
    BY <1>0, <1>9 DEF X!Ends, NetsTypes
  <2>3. j \in Connection
    <3>1. CASE k.kind = "tunnel"
      BY <1>0, <2>1, <3>1, CutKeeps
    <3>2. CASE k.kind # "tunnel"
      BY <1>0, <2>1, <3>2 DEF Connection, X!Upstreams
    <3> QED BY <3>1, <3>2
  <2>4. /\ j.upstream = "closed" /\ j.kind = k.kind /\ j.late = k.late /\ j.unheard = k.unheard /\ j.excess = k.excess
        /\ j.client = (IF k.kind = "tunnel" THEN X!Destroyed(k.client) ELSE k.client)
        /\ j.stage = (IF k.kind = "tunnel" THEN k.stage ELSE "idle")
    BY <1>0, <2>1 DEF X!Cut, Connection
  <2>5. WayOut(c)' /\ (j.client = "open" => k.client = "open")
    BY <1>0, <2>2, <2>4 DEF WayOut, X!Live, Connection, X!Destroyed
  <2> QED BY <1>0, <1>1, <2>2, <2>3, <2>5 DEF NetsTypes
<1>10. ASSUME X!Close PROVE NetsInv'
  <2>1. ASSUME NEW c \in NetConns PROVE netConn'[c] \in Connection /\ WayOut(c)' /\ netConn'[c].client # "open"
    <3> DEFINE k == netConn[c]
               j == netConn'[c]
    <3>0. UNCHANGED netTransferred /\ netClosed' = TRUE /\ k \in Connection /\ WayOut(c)
      BY <1>0, <1>10 DEF X!Close, NetsTypes
    <3>1. CASE X!Live(c) /\ k.kind = "tunnel"
      <4>1. j = X!Cut(k)
        BY <1>10, <3>1 DEF X!Close
      <4>2. j \in Connection /\ j.client # "open" /\ j.upstream = "closed" /\ j.kind = k.kind /\ j.stage = k.stage
            /\ j.excess = k.excess /\ j.late = k.late /\ j.unheard = k.unheard /\ (j.client = "none" => k.client = "none")
        BY <3>0, <4>1, CutKeeps
      <4> QED BY <3>0, <3>1, <4>2 DEF WayOut, X!Live
    <3>2. CASE ~(X!Live(c) /\ k.kind = "tunnel")
      <4>1. j = [k EXCEPT !.client = X!Destroyed(k.client)]
        BY <1>10, <3>2 DEF X!Close
      <4>2. j \in Connection /\ j.client # "open" /\ j.upstream = k.upstream /\ j.kind = k.kind /\ j.stage = k.stage
            /\ j.excess = k.excess /\ j.late = k.late /\ j.unheard = k.unheard
            /\ (j.client \in {"none", "gone"} => k.client = j.client)
        BY <3>0, <4>1 DEF Connection, X!Clients, X!Destroyed
      <4>3. k.kind \in {"http", "tunnel"}
        BY <3>0 DEF Connection
      <4> QED BY <3>0, <3>2, <4>2, <4>3 DEF WayOut, X!Live
    <3> QED BY <3>1, <3>2
  <2>2. NetsTypes'
    BY <1>0, <1>10, <2>1 DEF X!Close, NetsTypes
  <2> QED BY <2>1, <2>2, NoneOpens DEF NetsInv
<1> QED BY <1>2, <1>3, <1>4, <1>5, <1>6, <1>7, <1>8, <1>9, <1>10 DEF X!Next

LEMMA NetsStay == ASSUME NetsInv, UNCHANGED nets PROVE NetsInv'
  BY DEF nets,
      NetsInv, NetsTypes, Connection, X!Upstreams, OpenOnes, WayOut, X!Live

-----------------------------------------------------------------------------
(* The components side by side: a step is one of the component a behaviour  *)
(* is of, or none.                                                          *)

LEMMA StepsOfParts ==
  ASSUME [Next]_vars
  PROVE  /\ part' = part
         /\ part = "documents" => K!Next \/ UNCHANGED docs
         /\ part = "long jobs" => L!Next \/ UNCHANGED longs
         /\ part = "files" => W!Next \/ UNCHANGED files
         /\ part = "egress" => X!Next \/ UNCHANGED nets
<1>1. CASE Next
  BY <1>1 DEF Next, OthersStay
<1>2. CASE UNCHANGED vars
  BY <1>2 DEF vars
<1> QED
  BY <1>1, <1>2

(* What users gave is kept: a citation opens the text it was given for and  *)
(* no write of a document is lost under another; a job remembers what its   *)
(* conversations concluded and is opened again by its user only; a file is  *)
(* in the workspace or in the bin, in the hands of those who brought it,    *)
(* and known by its origin; and the way out of a sandbox keeps its limits   *)
(* and ends with it.  Each with the exceptions its invariant names.         *)
THEOREM StoresAlwaysSafe == Spec => StoresSafe
<1> DEFINE Inv == /\ part = "documents" => DocsInv
                  /\ part = "long jobs" => LongInv
                  /\ part = "files" => FilesInv
                  /\ part = "egress" => NetsInv
           Documents == part = "documents" => K!Safe
           Jobs == part = "long jobs" => L!Safe
           Files == part = "files" => W!Safe
           Connections == part = "egress" => X!Safe
           Writes == part = "documents" => K!NoWriteLost
           Reopened == part = "long jobs" => L!OnlyTheUserReopens
<1>1. Init => Inv
  BY DocsInit, LongInit, FilesInit, NetsInit DEF Init
<1>2. Inv /\ [Next]_vars => Inv'
  BY StepsOfParts, DocsStep, DocsStay, LongStep, LongStay, FilesStep, FilesStay, NetsStep, NetsStay
<1>3. Inv => Documents /\ Jobs /\ Files /\ Connections
  BY DocsInvSafe, LongInvSafe, FilesInvSafe, NetsInvSafe
<1>4. Inv /\ [Next]_vars => [Writes]_docs
  BY StepsOfParts, DocsKeepWrites
<1>5. Inv /\ [Next]_vars => [Reopened]_longs
  BY StepsOfParts, LongKeepsClosed
<1> QED
  BY <1>1, <1>2, <1>3, <1>4, <1>5, PTL DEF Spec, StoresSafe
-----------------------------------------------------------------------------
(* The algorithms of Documents and ToolGate: what the run of MCData checks  *)
(* of them on small inputs, for every input of the form their code reads.   *)
CONSTANTS MIN_ITEMS_FOR_RATIO, Columns, Threshold, Pool

D == INSTANCE Documents
G == INSTANCE ToolGate

LEMMA LeastOf == ASSUME NEW set, set \subseteq Nat, set # {} PROVE \E x \in set : \A y \in set : x <= y
<1>1. IsWellFoundedOn(OpToRel(<, Nat), Nat)
  BY NatLessThanWellFounded
<1>2. \E x \in set : \A y \in set : ~(<<y, x>> \in OpToRel(<, Nat))
  BY <1>1, WFMin
<1>3. \A x, y \in set : y < x => <<y, x>> \in OpToRel(<, Nat)
  BY DEF OpToRel
<1>4. \E x \in set : \A y \in set : ~(y < x)
  BY <1>2, <1>3, Zenon
<1> QED BY <1>4

(* Counting upwards, in the place of an induction.                          *)
LEMMA Upward ==
  ASSUME NEW set, NEW m \in Nat, 0 \in set, \A n \in set : n \in 0 .. m - 1 => n + 1 \in set
  PROVE  \A n \in 0 .. m : n \in set
<1> DEFINE Rest == {n \in Nat : n <= m /\ n \notin set}
<1>1. SUFFICES ASSUME Rest # {} PROVE FALSE
  OBVIOUS
<1>2. PICK x \in Rest : \A y \in Rest : x <= y
  BY <1>1, LeastOf
<1>3. x # 0 /\ x - 1 \in Nat /\ x - 1 <= m /\ ~(x <= x - 1) /\ x - 1 + 1 = x
  OBVIOUS
<1>4. x - 1 \in set
  BY <1>2, <1>3
<1>5. x - 1 \in 0 .. m - 1
  BY <1>3
<1> QED BY <1>3, <1>4, <1>5

(* The modules taken with INSTANCE count as this one does.                  *)
LEMMA CountIs == \A set : D!Cardinality(set) = Cardinality(set)
  BY DEF D!Cardinality, Cardinality

LEMMA Divided ==
  ASSUME NEW a \in Nat, NEW b \in Nat \ {0}
  PROVE  /\ a \div b \in Nat /\ (a \div b) * b <= a /\ a < (a \div b) * b + b
  OBVIOUS

-----------------------------------------------------------------------------
(* Who may do what, whoever and whatever it is.                             *)
Person(Names) == [user : Names, tenant : Names, workspace : Names, role : D!Range(D!Roles)]
Thing(Names) == [owner : Names, tenant : Names, workspace : Names, scope : D!Scopes]

LEMMA RankIs ==
  /\ D!Range(D!Roles) = {"member", "workspace_admin", "tenant_admin", "platform_admin"}
  /\ D!rankOf("member") = 1 /\ D!rankOf("workspace_admin") = 2
  /\ D!rankOf("tenant_admin") = 3 /\ D!rankOf("platform_admin") = 4
<1>1. /\ D!Roles[1] = "member" /\ D!Roles[2] = "workspace_admin" /\ D!Roles[3] = "tenant_admin"
      /\ D!Roles[4] = "platform_admin" /\ Len(D!Roles) = 4 /\ DOMAIN D!Roles = 1 .. 4
  BY DEF D!Roles
<1>2. 1 .. 4 = {1, 2, 3, 4}
  OBVIOUS
<1>3. \A role : D!rankOf(role) = CHOOSE i \in {1, 2, 3, 4} : D!Roles[i] = role
  BY <1>1, <1>2 DEF D!rankOf
<1>4. ASSUME NEW n \in {1, 2, 3, 4} PROVE (CHOOSE i \in {1, 2, 3, 4} : D!Roles[i] = D!Roles[n]) = n
  BY <1>1, <1>4
<1>5. D!Range(D!Roles) = {"member", "workspace_admin", "tenant_admin", "platform_admin"}
  BY <1>1, <1>2 DEF D!Range
<1> QED BY <1>1, <1>3, <1>4, <1>5

(* A higher role never may less, writing implies reading, and nothing       *)
(* crosses a tenant: checkAccess() of access.ts, for any person and thing.  *)
THEOREM AccessAlwaysSound ==
  ASSUME NEW Names, NEW m \in Person(Names), NEW r \in Thing(Names) PROVE D!AccessSound(m, r)
<1>1. /\ m.role \in {"member", "workspace_admin", "tenant_admin", "platform_admin"}
      /\ r.scope \in {"personal", "workspace", "tenant", "platform"}
  BY RankIs DEF Person, Thing, D!Scopes
<1>2. \A role : LET n == [m EXCEPT !.role = role] IN
        n.role = role /\ n.user = m.user /\ n.tenant = m.tenant /\ n.workspace = m.workspace
  BY DEF Person
<1>3. ASSUME NEW role \in D!Range(D!Roles), NEW action \in D!Actions,
             D!checkAccess(m, r, action), D!hasRoleAtLeast(role, m.role)
      PROVE  D!checkAccess([m EXCEPT !.role = role], r, action)
  <2> DEFINE n == [m EXCEPT !.role = role]
  <2>1. n.role = role /\ n.user = m.user /\ n.tenant = m.tenant /\ n.workspace = m.workspace
    BY <1>2
  <2> HIDE DEF n
  <2>2. \A least \in {"workspace_admin", "tenant_admin"} : D!hasRoleAtLeast(m.role, least) => D!hasRoleAtLeast(role, least)
    BY <1>1, <1>3, RankIs DEF D!hasRoleAtLeast
  <2>3. D!checkAccess(n, r, action)
    BY <1>3, <2>1, <2>2 DEF D!checkAccess, D!Actions
  <2> QED BY <2>3 DEF n
<1>4. /\ D!checkAccess(m, r, "administer") => D!checkAccess(m, r, "write")
      /\ D!checkAccess(m, r, "write") <=> D!checkAccess(m, r, "delete")
      /\ D!checkAccess(m, r, "write") => D!checkAccess(m, r, "read")
  BY DEF D!checkAccess
<1>5. ASSUME NEW action \in D!Actions, D!checkAccess(m, r, action)
      PROVE  /\ m.tenant = r.tenant
             /\ m.workspace = r.workspace \/ action = "read" \/ D!hasRoleAtLeast(m.role, "tenant_admin")
  BY <1>5 DEF D!checkAccess
<1> QED BY <1>3, <1>4, <1>5 DEF D!AccessSound

-----------------------------------------------------------------------------
(* A search of the knowledge base.                                          *)
(* Sorting by a score puts everything in a place of its own.                *)
LEMMA SortedIs ==
  ASSUME NEW ids, IsFiniteSet(ids), ids \subseteq Nat, NEW score \in [ids -> Int]
  PROVE  /\ D!SortedBy(score) \in [1 .. Cardinality(ids) -> ids]
         /\ \A a, b \in 1 .. Cardinality(ids) : D!SortedBy(score)[a] = D!SortedBy(score)[b] => a = b
<1> DEFINE ahead(i) == D!Ahead(score, i)
           n == Cardinality(ids)
           place == [i \in ids |-> Cardinality(ahead(i))]
<1>1. /\ n \in Nat /\ DOMAIN score = ids
      /\ \A i, j : j \in ahead(i) <=> j \in ids /\ (score[j] > score[i] \/ (score[j] = score[i] /\ j < i))
      /\ \A i : ahead(i) \subseteq ids
  BY FS_CardinalityType DEF D!Ahead
<1> HIDE DEF ahead
<1>2. \A i \in ids : IsFiniteSet(ahead(i)) /\ Cardinality(ahead(i)) \in 0 .. n - 1
  <2> SUFFICES ASSUME NEW i \in ids PROVE IsFiniteSet(ahead(i)) /\ Cardinality(ahead(i)) \in 0 .. n - 1
    OBVIOUS
  <2>1. i \in Nat /\ score[i] \in Int
    OBVIOUS
  <2>2. ahead(i) \subseteq ids \ {i}
    BY <1>1, <2>1
  <2>3. IsFiniteSet(ids \ {i}) /\ Cardinality(ids \ {i}) = n - 1
    BY FS_RemoveElement
  <2>4. IsFiniteSet(ahead(i)) /\ Cardinality(ahead(i)) <= n - 1
    BY <2>2, <2>3, FS_Subset
  <2> QED BY <1>1, <2>4, FS_CardinalityType
<1>3. ASSUME NEW i \in ids, NEW j \in ids, i \in ahead(j) PROVE Cardinality(ahead(i)) < Cardinality(ahead(j))
  <2>1. /\ score[i] \in Int /\ score[j] \in Int /\ i \in Nat /\ j \in Nat
        /\ (score[i] > score[j] \/ (score[i] = score[j] /\ i < j))
    BY <1>1, <1>3
  <2>2. i \notin ahead(i)
    BY <1>1, <2>1
  <2>3. ASSUME NEW k \in ahead(i) PROVE k \in ahead(j)
    <3>1. k \in ids /\ k \in Nat /\ score[k] \in Int /\ (score[k] > score[i] \/ (score[k] = score[i] /\ k < i))
      BY <1>1, <2>3
    <3> QED BY <1>1, <2>1, <3>1
  <2>4. ahead(i) \cup {i} \subseteq ahead(j)
    BY <1>3, <2>3
  <2>5. Cardinality(ahead(i) \cup {i}) = Cardinality(ahead(i)) + 1
    BY <1>2, <2>2, FS_AddElement
  <2>6. Cardinality(ahead(i) \cup {i}) <= Cardinality(ahead(j))
    BY <1>2, <2>4, FS_Subset
  <2> QED BY <1>2, <2>5, <2>6
<1>4. ASSUME NEW i \in ids, NEW j \in ids, i # j PROVE place[i] # place[j]
  <2>1. score[i] \in Int /\ score[j] \in Int /\ i \in Nat /\ j \in Nat
    OBVIOUS
  <2>2. i \in ahead(j) \/ j \in ahead(i)
    BY <1>1, <1>4, <2>1
  <2>3. Cardinality(ahead(i)) \in Nat /\ Cardinality(ahead(j)) \in Nat
    BY <1>1, <1>2
  <2> QED BY <1>3, <2>2, <2>3
<1>5. place \in [ids -> 0 .. n - 1]
  BY <1>2
<1>6. place \in Injection(ids, 0 .. n - 1)
  BY <1>4, <1>5 DEF Injection, IsInjective
<1>7. IsFiniteSet(0 .. n - 1) /\ Cardinality(0 .. n - 1) = n
  <2>1. 0 \in Int /\ n - 1 \in Int
    BY <1>1
  <2>2. IsFiniteSet(0 .. n - 1) /\ Cardinality(0 .. n - 1) = IF 0 > n - 1 THEN 0 ELSE n - 1 - 0 + 1
    BY <2>1, FS_Interval
  <2> QED BY <1>1, <2>2
<1>8. place \in Surjection(ids, 0 .. n - 1)
  BY <1>6, <1>7, FS_Injection
<1>9. \A k \in 0 .. n - 1 : \E i \in ids : place[i] = k
  BY <1>8 DEF Surjection
<1> DEFINE sorted == [k \in 1 .. n |-> CHOOSE i \in ids : Cardinality(ahead(i)) = k - 1]
<1>10. D!SortedBy(score) = sorted
  BY <1>1, CountIs DEF D!SortedBy, ahead
<1>11. ASSUME NEW k \in 1 .. n PROVE sorted[k] \in ids /\ Cardinality(ahead(sorted[k])) = k - 1
  <2>1. k - 1 \in 0 .. n - 1
    BY <1>1
  <2>2. \E i \in ids : Cardinality(ahead(i)) = k - 1
    BY <1>9, <2>1
  <2> QED BY <2>2
<1>12. sorted \in [1 .. n -> ids]
  BY <1>11
<1> HIDE DEF sorted
<1>13. ASSUME NEW a \in 1 .. n, NEW b \in 1 .. n, sorted[a] = sorted[b] PROVE a = b
  BY <1>1, <1>11, <1>13
<1> QED BY <1>10, <1>12, <1>13

(* The beginning of what is sorted.                                         *)
LEMMA LeastNumber ==
  ASSUME NEW a \in Nat, NEW b \in Nat PROVE D!Min({a, b}) \in Nat /\ D!Min({a, b}) <= a /\ D!Min({a, b}) <= b
<1>1. \E x \in {a, b} : \A y \in {a, b} : x =< y
  BY SMT
<1>2. D!Min({a, b}) \in {a, b} /\ \A y \in {a, b} : D!Min({a, b}) =< y
  BY <1>1 DEF D!Min
<1> QED BY <1>2

LEMMA TakeIs ==
  ASSUME NEW set, NEW s \in Seq(set), NEW n \in Nat, \A a, b \in 1 .. Len(s) : s[a] = s[b] => a = b
  PROVE  /\ D!Take(s, n) \in Seq(set) /\ Len(D!Take(s, n)) <= n
         /\ \A a, b \in 1 .. Len(D!Take(s, n)) : D!Take(s, n)[a] = D!Take(s, n)[b] => a = b
<1> DEFINE m == D!Min({n, Len(s)})
           taken == D!Take(s, n)
<1>1. m \in Nat /\ m <= n /\ m <= Len(s) /\ Len(s) \in Nat
  BY LeastNumber
<1> HIDE DEF m
<1>2. taken = SubSeq(s, 1, m)
  BY DEF D!Take, m
<1>3. \A i \in 1 .. m : s[i] \in set
  BY <1>1
<1>4. taken \in Seq(set) /\ Len(taken) = m /\ \A i \in 1 .. m : taken[i] = s[i]
  <2>1. 1 \in Int /\ m \in Int /\ (IF 1 <= m THEN m - 1 + 1 ELSE 0) = m /\ m - 1 + 1 = m
    BY <1>1
  <2>2. /\ SubSeq(s, 1, m) \in Seq(set) /\ Len(SubSeq(s, 1, m)) = m
        /\ \A i \in 1 .. m : SubSeq(s, 1, m)[i] = s[1 + i - 1]
    BY <1>3, <2>1, SubSeqProperties
  <2>3. \A i \in 1 .. m : 1 + i - 1 = i
    BY <1>1
  <2> QED BY <1>2, <2>2, <2>3
<1> HIDE DEF taken
<1>5. ASSUME NEW a \in 1 .. Len(taken), NEW b \in 1 .. Len(taken), taken[a] = taken[b] PROVE a = b
  <2>1. a \in 1 .. Len(s) /\ b \in 1 .. Len(s) /\ s[a] = s[b]
    BY <1>1, <1>4, <1>5
  <2> QED BY <2>1
<1> QED BY <1>1, <1>4, <1>5 DEF taken

(* The best by a score: some of what has one, each once.                    *)
LEMMA BestIs ==
  \A ids \in SUBSET Nat, n \in Nat : IsFiniteSet(ids) =>
    \A score \in [ids -> Int] :
      /\ D!Take(D!SortedBy(score), n) \in Seq(ids) /\ Len(D!Take(D!SortedBy(score), n)) <= n
      /\ \A a, b \in 1 .. Len(D!Take(D!SortedBy(score), n)) :
           D!Take(D!SortedBy(score), n)[a] = D!Take(D!SortedBy(score), n)[b] => a = b
<1> TAKE ids \in SUBSET Nat, n \in Nat
<1> HAVE IsFiniteSet(ids)
<1> TAKE score \in [ids -> Int]
<1> DEFINE s == D!SortedBy(score)
<1>1. /\ s \in [1 .. Cardinality(ids) -> ids]
      /\ \A a, b \in 1 .. Cardinality(ids) : s[a] = s[b] => a = b
  BY SortedIs
<1> HIDE DEF s
<1>2. Cardinality(ids) \in Nat
  BY FS_CardinalityType
<1>3. s \in Seq(ids) /\ Len(s) = Cardinality(ids)
  BY <1>1, <1>2
<1>4. /\ D!Take(s, n) \in Seq(ids) /\ Len(D!Take(s, n)) <= n
      /\ \A a, b \in 1 .. Len(D!Take(s, n)) : D!Take(s, n)[a] = D!Take(s, n)[b] => a = b
  BY <1>1, <1>3, TakeIs
<1> QED BY <1>4 DEF s

LEMMA SeqWider == ASSUME NEW small, NEW set, small \subseteq set, NEW list \in Seq(small) PROVE list \in Seq(set)
<1>1. Len(list) \in Nat /\ list \in [1 .. Len(list) -> small]
  OBVIOUS
<1>2. list \in [1 .. Len(list) -> set]
  BY <1>1
<1> QED BY <1>1, <1>2

(* A search: any member, fragments and bases; "stale" are the documents     *)
(* whose index is older than their text.                                    *)
Searches(Member, Fragment, Base, Doc) ==
  [kind : {"search"}, member : Member, chunks : Seq(Fragment), bases : SUBSET Base, limit : Nat,
   semantic : BOOLEAN, stale : SUBSET Doc]

LEMMA WeightIs == ASSUME NEW set, NEW list \in Seq(set), NEW i PROVE D!Weight(list, i) \in Int
<1> DEFINE at == {n \in 1 .. Len(list) : list[n] = i}
<1>0. DOMAIN list = 1 .. Len(list) /\ Len(list) \in Nat
  OBVIOUS
<1>1. CASE i \in D!Range(list)
  <2>1. at # {} /\ at \subseteq Nat /\ IsFiniteSet(at)
    <3>1. at # {}
      BY <1>0, <1>1 DEF D!Range
    <3>2. 1 \in Int /\ Len(list) \in Int /\ at \in SUBSET (1 .. Len(list))
      BY <1>0
    <3>3. IsFiniteSet(1 .. Len(list))
      BY <3>2, FS_Interval
    <3> QED BY <1>0, <3>1, <3>2, <3>3, FS_Subset
  <2>2. \E x \in at : \A y \in at : x =< y
    BY <2>1, LeastOf
  <2>3. D!Min(at) \in at
    BY <2>2 DEF D!Min
  <2>4. D!SelectInSeq(list, LAMBDA x : x = i) = D!Min(at)
    BY <2>1 DEF D!SelectInSeq
  <2> DEFINE m == D!Min(at)
  <2>5. m \in Nat /\ 60 + m \in Nat \ {0}
    BY <2>1, <2>3
  <2> HIDE DEF m
  <2>6. (61 * 62 * 63 * 64) \div (60 + m) \in Int
    BY <2>5
  <2> QED BY <1>1, <2>4, <2>6 DEF D!Weight, m
<1>2. CASE i \notin D!Range(list)
  BY <1>2 DEF D!Weight
<1> QED BY <1>1, <1>2

(* What a search returns are fragments its member may read, of the bases    *)
(* asked for, each once and no more than asked for, whatever the scores     *)
(* and ties; and with every other fragment taken out it returns the same    *)
(* and fails where it failed: retrieveVectors(), of vector-retrieval.ts.    *)
THEOREM SearchTellsNoMore ==
  ASSUME NEW Member, NEW Fragment, \A f \in Fragment : f.near \in Int /\ f.words \in Int,
         NEW Base, NEW Doc, Pool \in Nat,
         NEW q \in (* A search: any member, fragments and bases; "stale" are the documents     *)
(* whose index is older than their text.                                    *)
Searches(Member, Fragment, Base, Doc), NEW hits, hits = D!Retrieve(q)
  PROVE  /\ hits = D!Retrieve(D!Without(q))
         /\ hits # D!Failed =>
              /\ hits \in Seq(D!Visible(q)) /\ Len(hits) <= q.limit
              /\ \A a, b \in 1 .. Len(hits) : hits[a] = hits[b] => a = b
<1> DEFINE seen == D!Visible(q)
           near == {i \in seen : q.chunks[i].near >= Threshold}
           words == {i \in seen : q.chunks[i].words > 0}
           other == D!Without(q)
<1>1. /\ q.chunks \in Seq(Fragment) /\ q.limit \in Nat /\ q.semantic \in BOOLEAN
      /\ DOMAIN q.chunks = 1 .. Len(q.chunks) /\ Len(q.chunks) \in Nat
  BY DEF Searches
<1>2. /\ seen \subseteq 1 .. Len(q.chunks) /\ seen \subseteq Nat /\ IsFiniteSet(seen)
      /\ \A i \in seen : q.chunks[i].near \in Int /\ q.chunks[i].words \in Int
  <2>1. seen \in SUBSET (1 .. Len(q.chunks))
    BY <1>1 DEF D!Visible
  <2> HIDE DEF seen
  <2>2. 1 \in Int /\ Len(q.chunks) \in Int
    BY <1>1
  <2>3. IsFiniteSet(1 .. Len(q.chunks))
    BY <2>2, FS_Interval
  <2>4. \A i \in 1 .. Len(q.chunks) : q.chunks[i] \in Fragment
    BY <1>1
  <2>5. IsFiniteSet(seen)
    BY <2>1, <2>3, FS_Subset
  <2>6. \A i \in seen : q.chunks[i] \in Fragment
    BY <2>1, <2>4
  <2> QED BY <1>1, <2>1, <2>5, <2>6
<1>3. /\ other.member = q.member /\ other.bases = q.bases /\ other.limit = q.limit
      /\ other.semantic = q.semantic /\ other.stale = q.stale
      /\ other.chunks = [i \in seen |-> q.chunks[i]]
  BY DEF D!Without, Searches
<1> HIDE DEF other
<1>4. D!Visible(other) = seen
  <2>1. DOMAIN other.chunks = seen /\ \A i \in seen : other.chunks[i] = q.chunks[i]
    BY <1>3
  <2>2. \A i \in seen : D!checkAccess(q.member, q.chunks[i].resource, "read") /\ q.chunks[i].base \in q.bases
    BY DEF D!Visible
  <2> HIDE DEF seen
  <2> QED BY <1>3, <2>1, <2>2 DEF D!Visible
<1> HIDE DEF seen
<1>5. \A i \in seen : other.chunks[i] = q.chunks[i]
  BY <1>3
<1>6. /\ {i \in seen : other.chunks[i].near >= Threshold} = near
      /\ {i \in seen : other.chunks[i].words > 0} = words
      /\ [i \in near |-> other.chunks[i].near] = [i \in near |-> q.chunks[i].near]
      /\ [i \in words |-> other.chunks[i].words] = [i \in words |-> q.chunks[i].words]
  BY <1>5
<1>7. D!Semantic(other) = D!Semantic(q)
  BY <1>3, <1>4, <1>6 DEF D!Semantic, seen
<1>8. D!Keyword(other) = D!Keyword(q)
  BY <1>3, <1>4, <1>6 DEF D!Keyword, seen
<1>9. \A i : D!Fused(other, i) = D!Fused(q, i)
  BY <1>7, <1>8 DEF D!Fused
<1>10. D!Hybrid(other) = D!Hybrid(q)
  BY <1>3, <1>7, <1>8, <1>9 DEF D!Hybrid
<1>11. (\E i \in D!Visible(other) : other.chunks[i].doc \in other.stale) <=> \E i \in D!Visible(q) : q.chunks[i].doc \in q.stale
  BY <1>3, <1>4, <1>5 DEF seen
<1>12. D!Retrieve(other) = D!Retrieve(q)
  BY <1>3, <1>7, <1>10, <1>11 DEF D!Retrieve
<1> DEFINE Fine(list) == list \in Seq(seen) /\ \A a, b \in 1 .. Len(list) : list[a] = list[b] => a = b
<1>13. D!Best(q.limit) \in Nat
  <2>1. 3 * q.limit \in Nat
    BY <1>1
  <2> DEFINE n == 3 * q.limit
  <2>2. \E x \in {Pool, n} : \A y \in {Pool, n} : x >= y
    BY <2>1
  <2> HIDE DEF n
  <2>3. D!Max({Pool, n}) \in {Pool, n}
    BY <2>2 DEF D!Max
  <2> QED BY <2>1, <2>3 DEF D!Best, n
<1>14. Fine(D!Semantic(q))
  <2> DEFINE score == [i \in near |-> q.chunks[i].near]
  <2>1. near \subseteq seen /\ near \subseteq Nat /\ score \in [near -> Int]
    BY <1>2
  <2>2. IsFiniteSet(near)
    BY <1>2, <2>1, FS_Subset
  <2> DEFINE list == D!Semantic(q)
             most == D!Best(q.limit)
  <2>3. list = D!Take(D!SortedBy(score), most)
    BY DEF D!Semantic, seen
  <2>4. most \in Nat
    BY <1>13
  <2> HIDE DEF score, near, list, most
  <2>5. list \in Seq(near) /\ \A a, b \in 1 .. Len(list) : list[a] = list[b] => a = b
    BY <2>1, <2>2, <2>3, <2>4, BestIs
  <2>6. list \in Seq(seen)
    BY <2>1, <2>5, SeqWider
  <2> QED BY <2>5, <2>6 DEF list
<1>15. Fine(D!Keyword(q))
  <2> DEFINE score == [i \in words |-> q.chunks[i].words]
  <2>1. words \subseteq seen /\ words \subseteq Nat /\ score \in [words -> Int]
    BY <1>2
  <2>2. IsFiniteSet(words)
    BY <1>2, <2>1, FS_Subset
  <2> DEFINE list == D!Keyword(q)
             most == D!Best(q.limit)
  <2>3. list = D!Take(D!SortedBy(score), most)
    BY DEF D!Keyword, seen
  <2>4. most \in Nat
    BY <1>13
  <2> HIDE DEF score, words, list, most
  <2>5. list \in Seq(words) /\ \A a, b \in 1 .. Len(list) : list[a] = list[b] => a = b
    BY <2>1, <2>2, <2>3, <2>4, BestIs
  <2>6. list \in Seq(seen)
    BY <2>1, <2>5, SeqWider
  <2> QED BY <2>5, <2>6 DEF list
<1>16. Fine(D!Hybrid(q)) /\ Len(D!Hybrid(q)) <= q.limit
  <2> DEFINE both == D!Range(D!Semantic(q)) \cup D!Range(D!Keyword(q))
             score == [i \in both |-> D!Fused(q, i)]
  <2>1. both \subseteq seen
    BY <1>14, <1>15 DEF D!Range
  <2>2. \A i : D!Fused(q, i) \in Int
    <3>1. \A i : D!Weight(D!Semantic(q), i) \in Int /\ D!Weight(D!Keyword(q), i) \in Int
      BY <1>14, <1>15, WeightIs
    <3> QED BY <3>1 DEF D!Fused
  <2>3. D!Hybrid(q) = D!Take(D!SortedBy(score), q.limit)
    BY DEF D!Hybrid
  <2> HIDE DEF both
  <2>4. score \in [both -> Int] /\ both \subseteq Nat
    BY <1>2, <2>1, <2>2
  <2>5. IsFiniteSet(both)
    BY <1>2, <2>1, FS_Subset
  <2> HIDE DEF score
  <2> DEFINE list == D!Hybrid(q)
             most == q.limit
  <2>6. list = D!Take(D!SortedBy(score), most) /\ most \in Nat
    BY <1>1, <2>3
  <2> HIDE DEF list, most
  <2>7. /\ list \in Seq(both) /\ Len(list) <= most
        /\ \A a, b \in 1 .. Len(list) : list[a] = list[b] => a = b
    BY <2>4, <2>5, <2>6, BestIs
  <2>8. list \in Seq(seen)
    BY <2>1, <2>7, SeqWider
  <2> QED BY <2>7, <2>8 DEF list, most
<1>17. Fine(D!Take(D!Semantic(q), q.limit)) /\ Len(D!Take(D!Semantic(q), q.limit)) <= q.limit
  BY <1>1, <1>14, TakeIs
<1>18. hits = D!Failed \/ hits = D!Take(D!Semantic(q), q.limit) \/ hits = D!Hybrid(q)
  BY DEF D!Retrieve
<1>19. hits # D!Failed => Fine(hits) /\ Len(hits) <= q.limit
  BY <1>16, <1>17, <1>18
<1> QED BY <1>12, <1>19 DEF seen, other
-----------------------------------------------------------------------------
(* Where a path leads: name by name.  Any names will do that include the    *)
(* four the workspace and the detours need.                                 *)
FilePath(Name) == [absolute : BOOLEAN, names : Seq(Name)]
Enough(Name) == {"data", "task", "sub", ".."} \subseteq Name
Start(path) == IF path.absolute THEN <<>> ELSE G!Workspace
Walk(at, path, Name) ==
  /\ at[0] = Start(path) /\ G!resolve(path) = at[Len(path.names)]
  /\ \A n \in 1 .. Len(path.names) : at[n] = G!Step(at[n - 1], path.names[n])
  /\ \A n \in 0 .. Len(path.names) : at[n] \in Seq(Name)

Follows(g, m, start, names) == g = [n \in 0 .. m |-> IF n = 0 THEN start ELSE G!Step(g[n - 1], names[n])]

LEMMA WalkExists == ASSUME NEW m \in Nat, NEW start, NEW names PROVE \E g : Follows(g, m, start, names)
<1> DEFINE To(k) == \E g : g = [n \in 0 .. k |-> IF n = 0 THEN start ELSE G!Step(g[n - 1], names[n])]
           Have == {k \in 0 .. m : To(k)}
<1>1. 0 \in Have
  <2> DEFINE g == [n \in 0 .. 0 |-> start]
  <2>1. g = [n \in 0 .. 0 |-> g[n]] /\ \A n \in 0 .. 0 : n = 0 /\ g[n] = start
    OBVIOUS
  <2> HIDE DEF g
  <2>2. g = [n \in 0 .. 0 |-> IF n = 0 THEN start ELSE G!Step(g[n - 1], names[n])]
    BY <2>1
  <2> QED BY <2>2
<1>2. \A k \in Have : k \in 0 .. m - 1 => k + 1 \in Have
  <2> SUFFICES ASSUME NEW k \in 0 .. m - 1, k \in Have PROVE k + 1 \in Have
    OBVIOUS
  <2>1. PICK g : g = [n \in 0 .. k |-> IF n = 0 THEN start ELSE G!Step(g[n - 1], names[n])]
    OBVIOUS
  <2> DEFINE h == [n \in 0 .. k + 1 |-> IF n = k + 1 THEN G!Step(g[k], names[k + 1]) ELSE g[n]]
  <2>2. \A n \in 0 .. k + 1 : h[n] = IF n = 0 THEN start ELSE G!Step(h[n - 1], names[n])
    <3> TAKE n \in 0 .. k + 1
    <3>1. CASE n = k + 1
      <4>1. n # 0 /\ n - 1 = k /\ k \in 0 .. k + 1 /\ k # k + 1
        BY <3>1
      <4>2. h[k] = g[k] /\ h[n] = G!Step(g[k], names[n])
        BY <3>1, <4>1
      <4> QED BY <4>1, <4>2
    <3>2. CASE n \in 0 .. k
      <4>1. h[n] = g[n] /\ (n # 0 => n - 1 \in 0 .. k /\ h[n - 1] = g[n - 1])
        BY <3>2
      <4>2. g[n] = IF n = 0 THEN start ELSE G!Step(g[n - 1], names[n])
        BY <2>1, <3>2
      <4> QED BY <4>1, <4>2
    <3> QED BY <3>1, <3>2
  <2>3. h = [n \in 0 .. k + 1 |-> h[n]]
    OBVIOUS
  <2> HIDE DEF h
  <2>4. h = [n \in 0 .. k + 1 |-> IF n = 0 THEN start ELSE G!Step(h[n - 1], names[n])]
    BY <2>2, <2>3
  <2>5. k + 1 \in 0 .. m
    OBVIOUS
  <2>6. To(k + 1)
    BY <2>4
  <2> HIDE DEF To
  <2> QED BY <2>5, <2>6
<1> HIDE DEF Have
<1>3. m \in Have
  BY <1>1, <1>2, Upward
<1> QED BY <1>3 DEF Have, Follows

LEMMA Joined ==
  ASSUME NEW S, NEW a \in Seq(S), NEW b \in Seq(S)
  PROVE  /\ a \o b \in Seq(S) /\ Len(a \o b) = Len(a) + Len(b)
         /\ \A n \in 1 .. Len(a) : (a \o b)[n] = a[n]
         /\ \A n \in 1 .. Len(b) : (a \o b)[Len(a) + n] = b[n]
BY ConcatProperties

LEMMA StepIs ==
  ASSUME NEW Name, Enough(Name), NEW at \in Seq(Name), NEW name \in Name
  PROVE  /\ G!Step(at, name) \in Seq(Name)
         /\ G!Step(G!Step(at, "sub"), "..") = at
<1>1. at # <<>> => G!Front(at) \in Seq(Name)
  <2> SUFFICES ASSUME at # <<>> PROVE G!Front(at) \in Seq(Name)
    OBVIOUS
  <2>1. Len(at) \in Nat /\ Len(at) >= 1 /\ at \in [1 .. Len(at) -> Name]
    OBVIOUS
  <2>2. SubSeq(at, 1, Len(at) - 1) \in Seq(Name)
    BY <2>1
  <2> QED BY <2>2 DEF G!Front
<1>2. G!Step(at, name) \in Seq(Name)
  <2>1. Append(at, name) \in Seq(Name)
    OBVIOUS
  <2>2. G!Step(at, name) = Append(at, name) \/ G!Step(at, name) = at \/ (at # <<>> /\ G!Step(at, name) = G!Front(at))
    BY Zenon DEF G!Step
  <2> QED BY <1>1, <2>1, <2>2
<1>3. G!Step(at, "sub") = Append(at, "sub")
  BY DEF G!Step
<1>4. Append(at, "sub") # <<>> /\ SubSeq(Append(at, "sub"), 1, Len(Append(at, "sub")) - 1) = at
  OBVIOUS
<1>5. G!Front(Append(at, "sub")) = at
  BY <1>4 DEF G!Front
<1>6. G!Step(Append(at, "sub"), "..") = at
  BY <1>4, <1>5 DEF G!Step
<1> QED BY <1>2, <1>3, <1>6

LEMMA WalkIs ==
  ASSUME NEW Name, Enough(Name), NEW path \in FilePath(Name) PROVE \E at : Walk(at, path, Name)
<1> DEFINE names == path.names
           m == Len(names)
           start == Start(path)
<1>1. m \in Nat /\ names \in Seq(Name) /\ \A n \in 1 .. m : names[n] \in Name
  BY DEF FilePath
<1>2. G!resolve(path) = LET at[n \in 0 .. m] == IF n = 0 THEN start ELSE G!Step(at[n - 1], names[n]) IN at[m]
  BY DEF G!resolve, Start
<1>3. start \in Seq(Name)
  <2>1. <<"data", "task">> \in Seq(Name) /\ <<>> \in Seq(Name)
    BY DEF Enough
  <2> QED BY <2>1 DEF Start, G!Workspace
<1> HIDE DEF start, m, names
<1>4. \E g : g = [n \in 0 .. m |-> IF n = 0 THEN start ELSE G!Step(g[n - 1], names[n])]
  <2>1. m \in Nat
    BY <1>1
  <2>2. \E g : Follows(g, m, start, names)
    BY <2>1, WalkExists
  <2> QED BY <2>2, Zenon DEF Follows
<1> DEFINE at == CHOOSE f : f = [n \in 0 .. m |-> IF n = 0 THEN start ELSE G!Step(f[n - 1], names[n])]
<1>5. at = [n \in 0 .. m |-> IF n = 0 THEN start ELSE G!Step(at[n - 1], names[n])]
  BY <1>4, Zenon
<1>6. G!resolve(path) = at[m]
  BY <1>2
<1> HIDE DEF at
<1>7. at[0] = start /\ \A n \in 1 .. m : at[n] = G!Step(at[n - 1], names[n])
  BY <1>1, <1>5
<1> DEFINE Have == {n \in 0 .. m : at[n] \in Seq(Name)}
<1>8. 0 \in Have
  BY <1>1, <1>3, <1>7
<1>9. \A n \in Have : n \in 0 .. m - 1 => n + 1 \in Have
  <2> SUFFICES ASSUME NEW n \in 0 .. m - 1, at[n] \in Seq(Name) PROVE at[n + 1] \in Seq(Name)
    BY <1>1
  <2>1. n + 1 \in 1 .. m /\ n + 1 - 1 = n
    BY <1>1
  <2>2. at[n + 1] = G!Step(at[n], names[n + 1]) /\ names[n + 1] \in Name
    BY <1>1, <1>7, <2>1
  <2> QED BY <2>2, StepIs
<1> HIDE DEF Have
<1>10. \A n \in 0 .. m : n \in Have
  BY <1>1, <1>8, <1>9, Upward
<1>11. Walk(at, path, Name)
  BY <1>6, <1>7, <1>10 DEF Walk, Have, start, m, names
<1> QED BY <1>11

(* A directory entered and left again leads nowhere else.                   *)
LEMMA DetourLeads ==
  ASSUME NEW Name, Enough(Name), NEW path \in FilePath(Name), NEW k \in 0 .. Len(path.names)
  PROVE  G!Detour(path, k) \in FilePath(Name) /\ G!resolve(G!Detour(path, k)) = G!resolve(path)
<1> DEFINE names == path.names
           m == Len(names)
           more == SubSeq(names, 1, k) \o <<"sub", "..">> \o SubSeq(names, k + 1, Len(names))
           other == G!Detour(path, k)
<1>1. names \in Seq(Name) /\ m \in Nat /\ k \in 0 .. m
  BY DEF FilePath
<1>2. other.names = more /\ other.absolute = path.absolute /\ (more \in Seq(Name) => other \in FilePath(Name))
  BY DEF G!Detour, FilePath
<1> HIDE DEF names, other
<1>3. /\ SubSeq(names, 1, k) \in Seq(Name) /\ Len(SubSeq(names, 1, k)) = k
      /\ \A n \in 1 .. k : SubSeq(names, 1, k)[n] = names[n]
  BY <1>1
<1>4. /\ SubSeq(names, k + 1, m) \in Seq(Name) /\ Len(SubSeq(names, k + 1, m)) = m - k
      /\ \A n \in 1 .. m - k : SubSeq(names, k + 1, m)[n] = names[k + n]
  BY <1>1
<1>5. /\ more \in Seq(Name) /\ Len(more) = m + 2
      /\ \A n \in 1 .. k : more[n] = names[n]
      /\ more[k + 1] = "sub" /\ more[k + 2] = ".."
      /\ \A n \in k + 1 .. m : more[n + 2] = names[n]
  <2> DEFINE a == SubSeq(names, 1, k)
             b == SubSeq(names, k + 1, m)
  <2>1. a \in Seq(Name) /\ Len(a) = k /\ \A n \in 1 .. k : a[n] = names[n]
    BY <1>3
  <2>2. b \in Seq(Name) /\ Len(b) = m - k /\ \A n \in k + 1 .. m : b[n - k] = names[n]
    <3>1. \A n \in k + 1 .. m : n - k \in 1 .. m - k /\ k + (n - k) = n
      BY <1>1
    <3>2. b \in Seq(Name) /\ Len(b) = m - k /\ \A n \in 1 .. m - k : b[n] = names[k + n]
      BY <1>4
    <3> HIDE DEF b
    <3> QED BY <3>1, <3>2
  <2>3. more = a \o <<"sub", "..">> \o b
    OBVIOUS
  <2> HIDE DEF a, b, more, m
  <2> DEFINE c == a \o <<"sub", "..">>
  <2>4. /\ c \in Seq(Name) /\ Len(c) = k + 2 /\ c[k + 1] = "sub" /\ c[k + 2] = ".."
        /\ \A n \in 1 .. k : c[n] = a[n]
    <3> DEFINE d == <<"sub", "..">>
    <3>1. d \in Seq(Name) /\ Len(d) = 2 /\ d[1] = "sub" /\ d[2] = ".."
      BY DEF Enough
    <3>2. c = a \o d
      OBVIOUS
    <3> HIDE DEF d, c
    <3>3. k \in Nat
      BY <1>1
    <3>4. /\ a \o d \in Seq(Name) /\ Len(a \o d) = Len(a) + Len(d)
          /\ \A n \in 1 .. Len(a) : (a \o d)[n] = a[n]
      <4>1. a \in Seq(Name) /\ d \in Seq(Name)
        BY <2>1, <3>1
      <4> QED BY <4>1, Joined
    <3>5. 1 \in 1 .. Len(d) /\ 2 \in 1 .. Len(d)
      BY <3>1
    <3>6. c[k + 1] = d[1] /\ c[k + 2] = d[2]
      BY <2>1, <3>1, <3>2, <3>3, <3>5, Joined
    <3> QED BY <2>1, <3>1, <3>2, <3>3, <3>4, <3>6
  <2>5. more = c \o b
    BY <2>3
  <2> HIDE DEF c
  <2>6. more \in Seq(Name) /\ Len(more) = m + 2
    <3>1. c \o b \in Seq(Name) /\ Len(c \o b) = Len(c) + Len(b)
      BY <2>2, <2>4, Joined
    <3> QED BY <1>1, <2>2, <2>4, <2>5, <3>1
  <2>7. \A n \in 1 .. k + 2 : more[n] = c[n]
    BY <1>1, <2>2, <2>4, <2>5
  <2>8. \A n \in k + 1 .. m : more[n + 2] = b[n - k]
    BY <1>1, <2>2, <2>4, <2>5
  <2> QED BY <1>1, <2>1, <2>2, <2>4, <2>6, <2>7, <2>8
<1> HIDE DEF more
<1>6. other \in FilePath(Name)
  BY <1>2, <1>5
<1>7. PICK at : Walk(at, path, Name)
  BY WalkIs
<1>8. PICK by : Walk(by, other, Name)
  BY <1>6, WalkIs
<1>9. /\ at[0] = Start(path) /\ G!resolve(path) = at[m] /\ \A n \in 0 .. m : at[n] \in Seq(Name)
      /\ \A n \in 1 .. m : at[n] = G!Step(at[n - 1], names[n])
  BY <1>7 DEF Walk, names
<1>10. /\ by[0] = Start(path) /\ G!resolve(other) = by[m + 2]
       /\ \A n \in 1 .. m + 2 : by[n] = G!Step(by[n - 1], more[n])
  BY <1>2, <1>5, <1>8 DEF Walk, Start
<1> HIDE DEF m
<1> DEFINE Alike == {n \in 0 .. k : by[n] = at[n]}
<1>11. 0 \in Alike
  BY <1>1, <1>9, <1>10
<1>12. \A n \in Alike : n \in 0 .. k - 1 => n + 1 \in Alike
  <2> SUFFICES ASSUME NEW n \in 0 .. k - 1, by[n] = at[n] PROVE by[n + 1] = at[n + 1]
    BY <1>1
  <2>1. n + 1 \in 1 .. m /\ n + 1 \in 1 .. m + 2 /\ n + 1 \in 1 .. k /\ n + 1 - 1 = n
    BY <1>1
  <2> QED BY <1>5, <1>9, <1>10, <2>1
<1> HIDE DEF Alike
<1>13. by[k] = at[k]
  <2>1. \A n \in 0 .. k : n \in Alike
    BY <1>1, <1>11, <1>12, Upward
  <2> QED BY <1>1, <2>1 DEF Alike
<1>14. by[k + 2] = at[k]
  <2>1. k + 1 \in 1 .. m + 2 /\ k + 2 \in 1 .. m + 2 /\ k + 1 - 1 = k /\ k + 2 - 1 = k + 1
    BY <1>1
  <2>2. by[k + 1] = G!Step(by[k], "sub") /\ by[k + 2] = G!Step(by[k + 1], "..")
    BY <1>5, <1>10, <2>1
  <2>3. at[k] \in Seq(Name)
    BY <1>1, <1>9
  <2>4. G!Step(G!Step(at[k], "sub"), "..") = at[k]
    BY <2>3, StepIs DEF Enough
  <2> QED BY <1>13, <2>2, <2>4
<1> DEFINE Again == {n \in 0 .. m - k : by[n + k + 2] = at[n + k]}
<1>15. 0 \in Again
  BY <1>1, <1>14
<1>16. \A n \in Again : n \in 0 .. m - k - 1 => n + 1 \in Again
  <2> SUFFICES ASSUME NEW n \in 0 .. m - k - 1, by[n + k + 2] = at[n + k] PROVE by[n + 1 + k + 2] = at[n + 1 + k]
    BY <1>1
  <2>1. /\ n + 1 + k \in k + 1 .. m /\ n + 1 + k \in 1 .. m /\ n + 1 + k + 2 \in 1 .. m + 2
        /\ n + 1 + k - 1 = n + k /\ n + 1 + k + 2 - 1 = n + k + 2
    <3>1. n \in Nat /\ k \in Nat /\ m \in Nat /\ n + 1 <= m - k
      BY <1>1
    <3>2. n + 1 + k \in Nat /\ k + 1 <= n + 1 + k /\ n + 1 + k <= m
      BY <3>1
    <3> QED BY <3>1, <3>2
  <2> QED BY <1>5, <1>9, <1>10, <2>1
<1> HIDE DEF Again
<1>17. m - k \in Again
  <2>1. m - k \in Nat /\ m - k \in 0 .. m - k
    BY <1>1
  <2>2. \A n \in 0 .. m - k : n \in Again
    BY <1>15, <1>16, <2>1, Upward
  <2> QED BY <2>1, <2>2
<1>18. by[m + 2] = at[m]
  <2>1. by[m - k + k + 2] = at[m - k + k] /\ m - k + k = m
    BY <1>1, <1>17 DEF Again
  <2> QED BY <1>1, <2>1
<1> QED BY <1>6, <1>9, <1>10, <1>18 DEF other
-----------------------------------------------------------------------------
(* What checkPath() asks, apart from the wording of its refusal.            *)
Secret(at) == (\E d \in G!CredentialDirs : G!Holds(at, d)) \/ (at # <<>> /\ G!Last(at) \in G!CredentialFiles)
Own(at) == G!Range(at) \cap G!SELF_SEGMENTS # {} \/ G!Range(at) \cap G!EVIDENCE_SEGMENTS # {}
Passes(at, granted, those) ==
  /\ ~G!Under(at, G!System) /\ ~Secret(at)
  /\ G!IsPrefix(G!Workspace, at) \/ (~Own(at) /\ (at \in those \/ G!Under(at, granted)))

LEMMA CheckIs ==
  ASSUME NEW path, NEW granted, NEW those
  PROVE  G!checkPath(path, granted, those) = "ok" <=> Passes(G!resolve(path), granted, those)
<1> DEFINE at == G!resolve(path)
           answer == G!checkPath(path, granted, those)
<1>1. answer = IF G!Under(at, G!System) THEN "system"
               ELSE IF Secret(at) THEN "credential"
               ELSE IF G!IsPrefix(G!Workspace, at) THEN "ok"
               ELSE IF G!Range(at) \cap G!SELF_SEGMENTS # {} THEN "self"
               ELSE IF G!Range(at) \cap G!EVIDENCE_SEGMENTS # {} THEN "evidence"
               ELSE IF at \in those \/ G!Under(at, granted) THEN "ok"
               ELSE IF ".." \in G!Range(path.names) THEN "escape" ELSE "outside_workspace"
  BY Zenon DEF G!checkPath, Secret
<1> HIDE DEF at, answer
<1>2. answer = "ok" <=> Passes(at, granted, those)
  BY <1>1 DEF Passes, Own
<1> QED BY <1>2 DEF at, answer

LEMMA LeadsIs ==
  ASSUME NEW Name, Enough(Name), NEW path \in FilePath(Name)
  PROVE  G!resolve(path) \in Seq(Name)
<1>1. PICK at : Walk(at, path, Name)
  BY WalkIs
<1>2. Len(path.names) \in Nat
  BY DEF FilePath
<1> QED BY <1>1, <1>2 DEF Walk

(* A path is judged by where it leads, a directory entered and left again   *)
(* changing nothing; what is granted opens nothing of the system, of the    *)
(* credentials or of the service itself: checkPath() of path-policy.ts.     *)
THEOREM PathsAlwaysSound ==
  ASSUME NEW Name, Enough(Name), NEW path \in FilePath(Name), NEW granted, NEW those
  PROVE  G!PathsSound(path, granted, those)
<1> DEFINE at == G!resolve(path)
<1>1. at \in Seq(Name) /\ Len(at) \in Nat
  BY LeadsIs
<1>2. \A k \in 0 .. Len(path.names) :
        G!checkPath(path, granted, those) = "ok" <=> G!checkPath(G!Detour(path, k), granted, those) = "ok"
  <2> TAKE k \in 0 .. Len(path.names)
  <2>1. G!resolve(G!Detour(path, k)) = at
    BY DetourLeads
  <2>2. G!checkPath(G!Detour(path, k), granted, those) = "ok" <=> Passes(G!resolve(G!Detour(path, k)), granted, those)
    BY CheckIs
  <2>3. G!checkPath(path, granted, those) = "ok" <=> Passes(at, granted, those)
    BY CheckIs
  <2> QED BY <2>1, <2>2, <2>3
<1>3. \A g, f : G!checkPath(path, g, f) = "ok" <=> Passes(at, g, f)
  BY CheckIs
<1> HIDE DEF at
<1>4. ASSUME Passes(at, granted, those)
      PROVE  /\ at \notin G!System /\ ".ssh" \notin G!Range(at) /\ "key.pem" # (IF at = <<>> THEN "" ELSE G!Last(at))
             /\ G!IsPrefix(G!Workspace, at) \/ G!Range(at) \cap {"vendor", "sessions"} = {}
  <2>1. at \notin G!System
    <3>1. at \in G!System => G!Under(at, G!System)
      BY <1>1 DEF G!Under, G!IsPrefix
    <3> QED BY <1>4, <3>1 DEF Passes
  <2>2. ".ssh" \notin G!Range(at)
    <3> SUFFICES ASSUME NEW i \in 1 .. Len(at), at[i] = ".ssh" PROVE Secret(at)
      BY <1>1, <1>4 DEF G!Range, Passes
    <3> DEFINE d == <<".ssh">>
    <3>1. Len(d) = 1 /\ d[1] = ".ssh" /\ d \in G!CredentialDirs
      BY DEF G!CredentialDirs
    <3>2. SubSeq(at, i, i) = <<at[i]>>
      <4>1. i \in Int /\ 1 <= i /\ i <= Len(at) /\ i - i + 1 = 1
        BY <1>1
      <4>2. SubSeq(at, i, i) = [n \in 1 .. 1 |-> at[i + n - 1]]
        BY <1>1, <4>1
      <4>3. \A n \in 1 .. 1 : i + n - 1 = i
        BY <4>1
      <4> QED BY <4>2, <4>3
    <3>3. SubSeq(at, i, i) = d
      BY <3>2
    <3> HIDE DEF d
    <3>4. i \in 1 .. Len(at) - Len(d) + 1 /\ i + Len(d) - 1 = i
      BY <1>1, <3>1
    <3>5. G!Holds(at, d)
      BY <3>3, <3>4 DEF G!Holds
    <3> QED BY <3>1, <3>5 DEF Secret
  <2>3. "key.pem" # (IF at = <<>> THEN "" ELSE G!Last(at))
    BY <1>4 DEF Passes, Secret, G!CredentialFiles
  <2>4. G!IsPrefix(G!Workspace, at) \/ G!Range(at) \cap {"vendor", "sessions"} = {}
    BY <1>4 DEF Passes, Own, G!SELF_SEGMENTS, G!EVIDENCE_SEGMENTS
  <2> QED BY <2>1, <2>2, <2>3, <2>4
<1>5. /\ Passes(at, granted, those) /\ ~Passes(at, granted, {}) => at \in those
      /\ Passes(at, granted, those) /\ ~Passes(at, {}, those) => G!Under(at, granted)
      /\ Passes(at, {}, {}) => Passes(at, granted, those)
  <2>1. ~G!Under(at, {})
    BY DEF G!Under
  <2> QED BY <2>1 DEF Passes
<1> QED BY <1>2, <1>3, <1>4, <1>5 DEF G!PathsSound, at
-----------------------------------------------------------------------------
(* What is asked and the rules it is judged by, whatever the tools.         *)
Asked(Tool, Name) == [tool : Tool, paths : SUBSET FilePath(Name), runs : BOOLEAN, secret : BOOLEAN]
Policy(Tool) == [tool : Tool, checksPaths : BOOLEAN, requiresConfirm : BOOLEAN]
Rule(Tool, Name) ==
  [tool : Tool, decision : {"deny", "confirm"}, byPath : BOOLEAN, prefix : Seq(Name), byCommand : BOOLEAN]
Governing(Tool, Name) ==
  [rules : SUBSET Rule(Tool, Name), disabledTools : SUBSET Tool, blocksSecrets : BOOLEAN, confirmWrites : BOOLEAN]

LEMMA AnswersAre ==
  ASSUME NEW request, NEW policies, NEW those, NEW governance
  PROVE  /\ G!PermissionGate(request, policies, {}, those) \in {"allow", "confirm", "block"}
         /\ G!governToolRequest(request, governance) \in {"none", "confirm", "block"}
         /\ G!Decide(request, policies, those, governance) =
              LET base == G!PermissionGate(request, policies, {}, those)
                  extra == G!governToolRequest(request, governance)
              IN  IF base = "block" \/ extra = "block" THEN "block"
                  ELSE IF base = "confirm" \/ extra = "none" THEN base ELSE extra
<1>1. G!PermissionGate(request, policies, {}, those) \in {"allow", "confirm", "block"}
  BY Zenon DEF G!PermissionGate
<1>2. G!governToolRequest(request, governance) \in {"none", "confirm", "block"}
  BY Zenon DEF G!governToolRequest
<1> QED BY <1>1, <1>2, Zenon DEF G!Decide

LEMMA StrictnessIs == G!Strictness("allow") = 0 /\ G!Strictness("confirm") = 1 /\ G!Strictness("block") = 2
  BY DEF G!Strictness

(* A path below a prefix of the workspace is below it there.                *)
LEMMA BelowIs ==
  ASSUME NEW Name, Enough(Name), NEW prefix \in Seq(Name), NEW at \in Seq(Name),
         G!IsPrefix(G!Workspace \o prefix, at)
  PROVE  /\ G!IsPrefix(G!Workspace, at)
         /\ G!IsPrefix(prefix, SubSeq(at, Len(G!Workspace) + 1, Len(at)))
<1> DEFINE w == G!Workspace
           whole == w \o prefix
           rest == SubSeq(at, 3, Len(at))
<1>1. w \in Seq(Name) /\ Len(w) = 2
  BY DEF Enough, G!Workspace
<1>2. Len(prefix) \in Nat /\ Len(at) \in Nat
  OBVIOUS
<1> HIDE DEF w
<1>3. /\ whole \in Seq(Name) /\ Len(whole) = 2 + Len(prefix)
      /\ \A n \in 1 .. 2 : whole[n] = w[n]
      /\ \A n \in 1 .. Len(prefix) : whole[2 + n] = prefix[n]
  <2>1. /\ whole \in Seq(Name) /\ Len(whole) = Len(w) + Len(prefix)
        /\ \A n \in 1 .. Len(w) : whole[n] = w[n]
        /\ \A n \in 1 .. Len(prefix) : whole[Len(w) + n] = prefix[n]
    <3>1. w \in Seq(Name) /\ prefix \in Seq(Name)
      BY <1>1
    <3> QED BY <3>1, Joined
  <2> QED BY <1>1, <2>1
<1> HIDE DEF whole
<1>4. 2 + Len(prefix) <= Len(at) /\ \A n \in 1 .. 2 + Len(prefix) : whole[n] = at[n]
  <2>1. Len(whole) <= Len(at) /\ SubSeq(whole, 1, Len(whole)) = SubSeq(at, 1, Len(whole))
    BY DEF G!IsPrefix, whole, w
  <2>2. \A n \in 1 .. Len(whole) : SubSeq(whole, 1, Len(whole))[n] = whole[n] /\ SubSeq(at, 1, Len(whole))[n] = at[n]
    BY <1>2, <1>3, <2>1
  <2> QED BY <1>3, <2>1, <2>2
<1>5. G!IsPrefix(w, at)
  <2>1. \A n \in 1 .. 2 : n \in 1 .. 2 + Len(prefix) /\ w[n] = at[n]
    BY <1>2, <1>3, <1>4
  <2>2. SubSeq(w, 1, 2) = [n \in 1 .. 2 |-> w[n]] /\ SubSeq(at, 1, 2) = [n \in 1 .. 2 |-> at[n]]
    BY <1>1, <1>2, <1>4
  <2>3. SubSeq(w, 1, 2) = SubSeq(at, 1, 2) /\ 2 <= Len(at)
    BY <1>2, <1>4, <2>1, <2>2
  <2> QED BY <1>1, <2>3 DEF G!IsPrefix
<1>6. rest \in Seq(Name) /\ Len(rest) = Len(at) - 2 /\ \A n \in 1 .. Len(at) - 2 : rest[n] = at[2 + n]
  <2>1. at \in Seq(Name) /\ Len(at) \in Nat /\ Len(at) >= 2
    BY <1>2, <1>4
  <2>2. rest = [n \in 1 .. Len(at) - 2 |-> at[2 + n]]
    <3>1. rest = [n \in 1 .. Len(at) - 3 + 1 |-> at[3 + n - 1]]
      BY <2>1
    <3>2. Len(at) - 3 + 1 = Len(at) - 2 /\ \A n \in 1 .. Len(at) - 2 : 3 + n - 1 = 2 + n
      BY <2>1
    <3> QED BY <3>1, <3>2
  <2>3. \A n \in 1 .. Len(at) - 2 : at[2 + n] \in Name
    BY <2>1
  <2>4. Len(at) - 2 \in Nat
    BY <2>1
  <2> HIDE DEF rest
  <2> QED BY <2>2, <2>3, <2>4
<1> HIDE DEF rest
<1>7. G!IsPrefix(prefix, rest)
  <2>1. \A n \in 1 .. Len(prefix) : n \in 1 .. Len(at) - 2 /\ 2 + n \in 1 .. 2 + Len(prefix)
    BY <1>2, <1>4
  <2>2. \A n \in 1 .. Len(prefix) : prefix[n] = rest[n]
    BY <1>3, <1>4, <1>6, <2>1
  <2>3. Len(prefix) <= Len(rest)
    BY <1>2, <1>4, <1>6
  <2>4. /\ SubSeq(prefix, 1, Len(prefix)) = [n \in 1 .. Len(prefix) |-> prefix[n]]
        /\ SubSeq(rest, 1, Len(prefix)) = [n \in 1 .. Len(prefix) |-> rest[n]]
    BY <1>2, <1>6, <2>3
  <2> QED BY <2>2, <2>3, <2>4 DEF G!IsPrefix
<1> QED BY <1>1, <1>5, <1>7 DEF rest, w

(* The rules of the administrator only tighten what the task's gate says,   *)
(* each of them, and deny what they name wherever it leads; what is hidden  *)
(* is blocked: withToolGovernance() of tool-governance.ts.                  *)
THEOREM GateAlwaysSound ==
  ASSUME NEW Tool, NEW Name, Enough(Name), NEW request \in Asked(Tool, Name), NEW those,
         NEW policies \in SUBSET Policy(Tool), NEW governance \in Governing(Tool, Name)
  PROVE  G!GateSound(request, policies, those, governance)
<1> DEFINE base == G!PermissionGate(request, policies, {}, those)
           extra == G!governToolRequest(request, governance)
           decision == G!Decide(request, policies, those, governance)
<1>1. base \in {"allow", "confirm", "block"} /\ extra \in {"none", "confirm", "block"}
  BY AnswersAre
<1>2. decision = IF base = "block" \/ extra = "block" THEN "block"
                 ELSE IF base = "confirm" \/ extra = "none" THEN base ELSE extra
  BY AnswersAre, Zenon
<1> HIDE DEF base, extra, decision
<1>3. G!Strictness(decision) >= G!Strictness(base)
  BY <1>1, <1>2, StrictnessIs
<1>4. ASSUME NEW r \in governance.rules
      PROVE  G!Strictness(G!Decide(request, policies, those, [governance EXCEPT !.rules = @ \ {r}])) <= G!Strictness(decision)
  <2> DEFINE fewer == [governance EXCEPT !.rules = @ \ {r}]
             less == G!governToolRequest(request, fewer)
             milder == G!Decide(request, policies, those, fewer)
  <2>1. /\ fewer.rules = governance.rules \ {r} /\ fewer.disabledTools = governance.disabledTools
        /\ fewer.blocksSecrets = governance.blocksSecrets /\ fewer.confirmWrites = governance.confirmWrites
    BY DEF Governing
  <2> HIDE DEF fewer
  <2>2. less \in {"none", "confirm", "block"}
    BY AnswersAre
  <2>3. milder = IF base = "block" \/ less = "block" THEN "block"
                 ELSE IF base = "confirm" \/ less = "none" THEN base ELSE less
    BY AnswersAre, Zenon DEF base
  <2>4. (less = "block" => extra = "block") /\ (extra = "none" => less = "none")
    <3> DEFINE rules == {x \in governance.rules : G!Applies(x, request)}
               few == {x \in fewer.rules : G!Applies(x, request)}
    <3>1. few \subseteq rules
      BY <2>1
    <3>2. extra = IF request.tool \in governance.disabledTools \/ (governance.blocksSecrets /\ request.secret)
                     \/ (\E x \in rules : x.decision = "deny")
                  THEN "block"
                  ELSE IF rules # {} \/ (governance.confirmWrites /\ request.tool \in G!WriteTools)
                  THEN "confirm" ELSE "none"
      BY Zenon DEF extra, G!governToolRequest
    <3>3. less = IF request.tool \in governance.disabledTools \/ (governance.blocksSecrets /\ request.secret)
                    \/ (\E x \in few : x.decision = "deny")
                 THEN "block"
                 ELSE IF few # {} \/ (governance.confirmWrites /\ request.tool \in G!WriteTools)
                 THEN "confirm" ELSE "none"
      <4>1. less = IF request.tool \in fewer.disabledTools \/ (fewer.blocksSecrets /\ request.secret)
                      \/ (\E x \in few : x.decision = "deny")
                   THEN "block"
                   ELSE IF few # {} \/ (fewer.confirmWrites /\ request.tool \in G!WriteTools)
                   THEN "confirm" ELSE "none"
        BY Zenon DEF G!governToolRequest
      <4> HIDE DEF less, few
      <4> QED BY <2>1, <4>1
    <3> HIDE DEF less, few, rules
    <3> QED BY <3>1, <3>2, <3>3
  <2> HIDE DEF less, milder
  <2>5. G!Strictness(milder) <= G!Strictness(decision)
    BY <1>1, <1>2, <2>2, <2>3, <2>4, StrictnessIs
  <2> QED BY <2>5 DEF milder, fewer
<1>5. ASSUME G!Hidden(request.tool, governance) PROVE decision = "block"
  <2>1. CASE request.tool \in governance.disabledTools
    <3>1. extra = "block"
      BY <2>1 DEF extra, G!governToolRequest
    <3> QED BY <1>2, <3>1
  <2>2. CASE \E r \in governance.rules : r.tool \in {"*", request.tool} /\ r.decision = "deny" /\ ~r.byPath /\ ~r.byCommand
    <3>1. PICK r \in governance.rules : r.tool \in {"*", request.tool} /\ r.decision = "deny" /\ ~r.byPath /\ ~r.byCommand
      BY <2>2
    <3>2. G!Applies(r, request)
      BY <3>1 DEF G!Applies
    <3>3. extra = "block"
      BY <3>1, <3>2 DEF extra, G!governToolRequest
    <3> QED BY <1>2, <3>3
  <2> QED BY <1>5, <2>1, <2>2 DEF G!Hidden
<1>6. ASSUME decision # "block"
      PROVE  \E p \in policies :
               p.tool = request.tool /\ (p.checksPaths => \A q \in request.paths : G!PathsSound(q, {}, those) /\ G!checkPath(q, {}, those) = "ok")
  <2>1. base # "block"
    BY <1>2, <1>6
  <2> DEFINE mine == {p \in policies : p.tool = request.tool}
  <2>2. /\ mine # {}
        /\ ~\E p \in mine : p.checksPaths /\ \E path \in request.paths : G!checkPath(path, {}, those) # "ok"
    BY <2>1 DEF base, G!PermissionGate
  <2>3. PICK p \in mine : TRUE
    BY <2>2
  <2>4. \A q \in request.paths : G!PathsSound(q, {}, those)
    <3>1. request.paths \subseteq FilePath(Name)
      BY DEF Asked
    <3> QED BY <3>1, PathsAlwaysSound
  <2>5. p.checksPaths => \A q \in request.paths : G!checkPath(q, {}, those) = "ok"
    BY <2>2, <2>3
  <2> QED BY <2>3, <2>4, <2>5
<1>7. ASSUME NEW r \in governance.rules, NEW path \in request.paths,
             r.decision = "deny", r.tool = "*", r.byPath, ~r.byCommand,
             G!IsPrefix(G!Workspace \o r.prefix, G!resolve(path))
      PROVE  decision = "block"
  <2> DEFINE at == G!resolve(path)
             inside == SubSeq(at, Len(G!Workspace) + 1, Len(at))
  <2>1. at \in Seq(Name) /\ r.prefix \in Seq(Name)
    <3>1. path \in FilePath(Name)
      BY DEF Asked
    <3>2. r \in Rule(Tool, Name)
      BY DEF Governing
    <3> QED BY <3>1, <3>2, LeadsIs DEF Rule
  <2>2. G!IsPrefix(G!Workspace, at) /\ G!IsPrefix(r.prefix, inside)
    BY <1>7, <2>1, BelowIs
  <2>3. inside \in G!Logical(request)
    BY <2>2 DEF G!Logical
  <2> HIDE DEF inside
  <2>4. G!Applies(r, request)
    BY <1>7, <2>2, <2>3 DEF G!Applies
  <2>5. extra = "block"
    BY <1>7, <2>4 DEF extra, G!governToolRequest
  <2> QED BY <1>2, <2>5
<1> QED BY <1>3, <1>4, <1>5, <1>6, <1>7 DEF G!GateSound, base, decision
-----------------------------------------------------------------------------
(* No command runs unasked with a power of high risk, of its own or of the  *)
(* program it starts, and none runs beyond the settings, whatever the lexer *)
(* finds in it: classifyCommand() of classify.ts.                           *)
THEOREM CommandsAlwaysSound ==
  ASSUME NEW cmd \in SUBSET G!Features, NEW c \in G!Configs
  PROVE  G!CommandSound(cmd, c)
<1> DEFINE needs == G!Needs(cmd, c)
           able == G!Capabilities(c)
<1>1. G!Accepts(c) /\ (c.level = "full" => G!Extended(c))
  BY DEF G!Configs, G!Extended
<1>2. /\ "read" \notin cmd => "write_in_root" \in needs
      /\ "program" \in cmd => /\ "delete" \in needs /\ (c.network => "network" \in needs)
                              /\ (c.install => "install_pkg" \in needs)
      /\ "remove" \in cmd => "delete" \in needs
      /\ "net" \in cmd => "network" \in needs
      /\ "installer" \in cmd => "install_pkg" \in needs
      /\ "maintain" \in cmd => "system_maintenance" \in needs
  BY DEF G!Needs
<1>3. /\ "write_in_root" \in able => c.level # "readonly"
      /\ "delete" \in able => c.remove
      /\ "network" \in able => G!Extended(c) /\ c.network
      /\ "install_pkg" \in able => c.install
      /\ "system_maintenance" \in able => c.level = "full"
  BY DEF G!Capabilities
<1>4. G!Powers(c) \cap G!HighRisk # {} => "network" \in able \/ "install_pkg" \in able
  BY DEF G!Powers, G!HighRisk
<1>5. G!Classify(cmd, c) # "block" => needs \subseteq able
  BY DEF G!Classify
<1>6. G!Classify(cmd, c) = "allow" \/ G!MayGrant(cmd, c) => needs \cap G!HighRisk = {}
  BY DEF G!Classify, G!MayGrant, G!IsHighRisk
<1> HIDE DEF needs, able
<1>7. ASSUME G!Classify(cmd, c) = "allow" \/ G!MayGrant(cmd, c)
      PROVE  /\ cmd \cap {"net", "installer", "maintain"} = {}
             /\ "program" \in cmd => G!Powers(c) \cap G!HighRisk = {}
  <2>1. "network" \notin needs /\ "install_pkg" \notin needs /\ "system_maintenance" \notin needs
    BY <1>6, <1>7 DEF G!HighRisk
  <2> QED BY <1>2, <1>3, <1>4, <2>1
<1>8. ASSUME G!Classify(cmd, c) # "block"
      PROVE  /\ c.level = "readonly" => "read" \in cmd
             /\ "program" \in cmd \/ "remove" \in cmd => c.remove
             /\ "net" \in cmd => c.network /\ G!Extended(c)
             /\ "maintain" \in cmd => c.level = "full" /\ c.disclaimer
  <2>1. needs \subseteq able
    BY <1>5, <1>8
  <2>2. c.level = "full" => c.disclaimer
    BY <1>1 DEF G!Accepts
  <2> QED BY <1>2, <1>3, <2>1, <2>2
<1> QED BY <1>7, <1>8 DEF G!CommandSound
-----------------------------------------------------------------------------
(* What a connector was given, and a call of it.                            *)
Offered(User) ==
  [kind : G!Kinds, user : User, single : BOOLEAN, enabled : BOOLEAN,
   keys : UNION {[given -> BOOLEAN] : given \in SUBSET UNION {G!KeysOf(kind) : kind \in G!Kinds}}]
Called(User) ==
  [method : {"GET", "POST"}, fresh : BOOLEAN, signed : BOOLEAN, nonce : BOOLEAN, opens : BOOLEAN, event : BOOLEAN,
   says : {"text", "verification", "other"}, sender : User]

(* A call from outside starts a task only when it is fresh, signed and of   *)
(* the user of the connector, and is answered to nobody else; a call that   *)
(* is all it should be starts one; and a connector that is not ready        *)
(* refuses: receive() and createBinding() of the connectors.                *)
THEOREM CallbacksAlwaysSound ==
  ASSUME NEW User, NEW v \in Offered(User), NEW r \in Called(User) PROVE G!CallbackSound(v, r)
<1> SUFFICES ASSUME NEW b \in G!createBinding(v)
             PROVE  LET sent == r.fresh /\ r.signed /\ r.nonce /\ r.opens /\ r.method = "POST" /\ r.says = "text" /\ r.event
                    IN  /\ G!receive(b, r) = "task" =>
                             /\ r.fresh /\ r.signed /\ r.sender = v.user
                             /\ r.says = "text" \/ b.kind = "signed-webhook"
                             /\ G!nativeDelivery(b) \subseteq {r.sender}
                        /\ b.enabled /\ G!configured(b) /\ sent /\ r.sender = v.user => G!receive(b, r) = "task"
                        /\ ~b.enabled \/ ~G!configured(b) => G!receive(b, r) = "refused"
  BY DEF G!CallbackSound
<1>1. /\ b.kind = v.kind /\ b.user = v.user /\ b.single = v.single /\ b.enabled = v.enabled
      /\ v.kind # "signed-webhook" => v.single
  BY DEF G!createBinding
<1>2. v.kind \in {"signed-webhook", "feishu", "wecom"}
  BY DEF Offered, G!Kinds
<1>3. G!nativeDelivery(b) \subseteq {b.user}
  BY DEF G!nativeDelivery
<1>4. G!receive(b, r) =
        IF ~b.enabled \/ ~G!configured(b) \/ ~G!Authentic(b, r) THEN "refused"
        ELSE IF G!Echoed(b, r) THEN "echo"
        ELSE IF /\ b.kind # "signed-webhook" => r.says = "text" /\ b.single
                /\ r.method = "POST" /\ r.event /\ r.sender = b.user
             THEN "task" ELSE "refused"
  BY Zenon DEF G!receive
<1>5. G!Authentic(b, r) => r.fresh /\ r.signed
  BY DEF G!Authentic
<1>6. r.fresh /\ r.signed /\ r.nonce /\ r.opens /\ r.method = "POST" => G!Authentic(b, r)
  BY DEF G!Authentic
<1>7. r.method = "POST" /\ r.says = "text" => ~G!Echoed(b, r)
  BY DEF G!Echoed
<1> QED BY <1>1, <1>2, <1>3, <1>4, <1>5, <1>6, <1>7

-----------------------------------------------------------------------------
(* The slices of a long text cover it, are within the limit, share just the *)
(* overlap, and each brings something new, whatever the length, the limit   *)
(* and the overlap below it: boundRagChunks() of the index.                 *)
THEOREM SlicesAlwaysSound ==
  ASSUME NEW size \in Nat \ {0}, NEW max \in Nat, NEW overlap \in Nat, overlap < max
  PROVE  D!SlicesSound(size, max, overlap)
<1> DEFINE step == max - overlap
           last == D!Max({0, size - max})
           more == (last + step - 1) \div step
           slices == D!Slices(size, max, overlap)
<1>1. step \in Nat \ {0} /\ step <= max /\ max = step + overlap
  OBVIOUS
<1>2. last = IF size > max THEN size - max ELSE 0
  <2>1. {0, size - max} # {} /\ \E x \in {0, size - max} : \A y \in {0, size - max} : x >= y
    OBVIOUS
  <2>2. last \in {0, size - max} /\ \A y \in {0, size - max} : last >= y
    BY <2>1 DEF D!Max
  <2> HIDE DEF last
  <2> QED BY <2>2
<1>3. last \in Nat
  BY <1>2
<1> HIDE DEF last, step
<1>4. last + step - 1 \in Nat
  BY <1>1, <1>3
<1>5. more \in Nat /\ more * step <= last + step - 1 /\ last + step - 1 < more * step + step
  BY <1>1, <1>4, Divided
<1> HIDE DEF more
<1>6. \A x, y \in Int : D!Min({x, y}) = IF x <= y THEN x ELSE y
  <2> TAKE x, y \in Int
  <2>1. \E z \in {x, y} : \A u \in {x, y} : z <= u
    OBVIOUS
  <2>2. D!Min({x, y}) \in {x, y} /\ \A u \in {x, y} : D!Min({x, y}) <= u
    BY <2>1 DEF D!Min
  <2> QED BY <2>2
<1>7. \A n \in Nat : n * step \in Nat /\ (n + 1) * step = n * step + step
  BY <1>1
<1>8. \A n, m \in Nat : n <= m => n * step <= m * step
  BY <1>1
<1>9. slices = [n \in 1 .. 1 + more |-> [from |-> (n - 1) * step, to |-> D!Min({size, (n - 1) * step + max})]]
  BY DEF D!Slices, more, last, step
<1> HIDE DEF slices
<1>10. \A n \in 1 .. 1 + more :
         /\ n - 1 \in Nat /\ (n - 1) * step \in Nat
         /\ slices[n].from = (n - 1) * step
         /\ slices[n].to = IF size <= (n - 1) * step + max THEN size ELSE (n - 1) * step + max
  <2> TAKE n \in 1 .. 1 + more
  <2>1. n - 1 \in Nat
    BY <1>5
  <2>2. (n - 1) * step \in Nat
    BY <1>7, <2>1
  <2>3. slices[n] = [from |-> (n - 1) * step, to |-> D!Min({size, (n - 1) * step + max})]
    BY <1>9
  <2>4. D!Min({size, (n - 1) * step + max}) = IF size <= (n - 1) * step + max THEN size ELSE (n - 1) * step + max
    BY <1>6, <2>2
  <2> QED BY <2>1, <2>2, <2>3, <2>4
<1>11. Len(slices) = 1 + more /\ DOMAIN slices = 1 .. 1 + more /\ D!Last(slices) = slices[1 + more]
  BY <1>5, <1>9 DEF D!Last
<1>12. slices[1].from = 0
  BY <1>1, <1>5, <1>10
<1>13. D!Last(slices).to = size
  <2>1. more \in Nat /\ 1 + more \in 1 .. 1 + more /\ 1 + more - 1 = more
    BY <1>5
  <2>2. more * step \in Nat
    BY <1>5, <1>7
  <2>3. size <= more * step + max
    BY <1>1, <1>2, <1>5, <2>2
  <2>4. slices[1 + more].to = IF size <= more * step + max THEN size ELSE more * step + max
    <3> DEFINE end == 1 + more
    <3>1. end \in 1 .. 1 + more /\ end - 1 = more
      BY <2>1
    <3> HIDE DEF end
    <3>2. slices[end].to = IF size <= (end - 1) * step + max THEN size ELSE (end - 1) * step + max
      BY <1>10, <3>1
    <3>3. slices[end].to = IF size <= more * step + max THEN size ELSE more * step + max
      BY <3>1, <3>2
    <3> QED BY <3>3 DEF end
  <2> HIDE DEF slices
  <2>5. slices[1 + more].to = size
    BY <2>2, <2>3, <2>4
  <2> QED BY <1>11, <2>5
<1>14. \A n \in 1 .. 1 + more : slices[n].to - slices[n].from <= max
  BY <1>10
<1>15. ASSUME NEW n \in 1 .. Len(slices) - 1
       PROVE  slices[n].to - slices[n + 1].from = overlap /\ slices[n].to < slices[n + 1].to
  <2>1. n \in 1 .. 1 + more /\ n + 1 \in 1 .. 1 + more /\ n - 1 \in Nat /\ n <= more /\ n + 1 - 1 = n /\ n - 1 + 1 = n /\ n \in Nat
    BY <1>5, <1>11
  <2> DEFINE a == (n - 1) * step
  <2>2. a \in Nat /\ n * step = a + step /\ n * step \in Nat
    BY <1>7, <2>1
  <2>3. n * step <= more * step
    BY <1>5, <1>8, <2>1
  <2>4. more * step \in Nat
    BY <1>5, <1>7
  <2> DEFINE c == more * step
             d == n * step
  <2>5. /\ slices[n].to = IF size <= a + max THEN size ELSE a + max
        /\ slices[n + 1].to = IF size <= d + max THEN size ELSE d + max
        /\ slices[n + 1].from = d
    BY <1>10, <2>1
  <2>6. c <= last + step - 1 /\ d = a + step /\ d <= c /\ a \in Nat /\ c \in Nat
    BY <1>5, <2>2, <2>3, <2>4
  <2> HIDE DEF a, c, d
  <2>7. a + 1 <= last
    BY <1>1, <1>3, <2>6
  <2>8. a + max < size
    BY <1>2, <2>6, <2>7
  <2> QED BY <1>1, <2>5, <2>6, <2>8
<1> QED BY <1>11, <1>12, <1>13, <1>14, <1>15 DEF D!SlicesSound, slices
-----------------------------------------------------------------------------
(* Two tables.                                                              *)
TableRow(Key) == [key : Key, value : [Columns -> Int \cup {None}]]

LEMMA KeysFinite ==
  ASSUME NEW Key, NEW table \in Seq(TableRow(Key)) PROVE IsFiniteSet(D!Keys(table))
<1> DEFINE at == 1 .. Len(table)
           found == {table[n].key : n \in at}
           key == [n \in at |-> table[n].key]
<1>1. Len(table) \in Nat /\ DOMAIN table = at
  OBVIOUS
<1>2. IsFiniteSet(at)
  BY <1>1, FS_Interval
<1>3. key \in Surjection(at, found)
  <2>1. key \in [at -> found] /\ \A k \in found : \E n \in at : key[n] = k
    OBVIOUS
  <2> HIDE DEF key, at, found
  <2> QED BY <2>1 DEF Surjection
<1> HIDE DEF key
<1>4. IsFiniteSet(found)
  <2> HIDE DEF at, found
  <2> QED BY <1>2, <1>3, FS_Surjection
<1>5. D!Keys(table) \subseteq found
  BY <1>1 DEF D!Keys, D!Range
<1> HIDE DEF found
<1> QED BY <1>4, <1>5, FS_Subset

(* The row of a key is one of its rows, the only one if it has no double.   *)
LEMMA RowIs ==
  ASSUME NEW Key, NEW table \in Seq(TableRow(Key)), NEW key \in D!Keys(table)
  PROVE  /\ D!Row(table, key) \in D!Range(table) /\ D!Row(table, key).key = key /\ key # 0
         /\ D!Row(table, key).value \in [Columns -> Int \cup {None}]
         /\ key \notin D!Duplicates(table) => \A row \in D!Range(table) : row.key = key => row = D!Row(table, key)
<1> DEFINE at == {n \in DOMAIN table : table[n].key = key}
<1>1. Len(table) \in Nat /\ DOMAIN table = 1 .. Len(table) /\ \A n \in DOMAIN table : table[n] \in TableRow(Key)
  OBVIOUS
<1>2. at # {} /\ key # 0
  BY DEF D!Keys, D!Range
<1>3. at \subseteq Nat /\ at \subseteq 1 .. Len(table)
  BY <1>1
<1>9. IsFiniteSet(at)
  <2>1. IsFiniteSet(1 .. Len(table))
    BY <1>1, FS_Interval
  <2> HIDE DEF at
  <2> QED BY <1>3, <2>1, FS_Subset
<1>4. \E x \in at : \A y \in at : x <= y
  <2> HIDE DEF at
  <2> QED BY <1>2, <1>3, LeastOf
<1> DEFINE n == D!Min(at)
<1>5. n \in at
  BY <1>4 DEF D!Min
<1>6. D!Row(table, key) = table[n]
  BY DEF D!Row
<1> HIDE DEF n
<1>7. table[n] \in D!Range(table) /\ table[n].key = key /\ table[n].value \in [Columns -> Int \cup {None}]
  BY <1>1, <1>5 DEF D!Range, TableRow
<1>8. ASSUME key \notin D!Duplicates(table), NEW row \in D!Range(table), row.key = key PROVE row = table[n]
  <2>1. Cardinality(at) <= 1
    <3>2. ~(D!Cardinality(at) > 1)
      BY <1>8 DEF D!Duplicates
    <3> HIDE DEF at
    <3> QED BY <1>9, <3>2, CountIs, FS_CardinalityType
  <2>2. PICK m \in DOMAIN table : row = table[m]
    BY <1>8 DEF D!Range
  <2>3. m \in at
    BY <1>8, <2>2
  <2>5. m = n
    <3> SUFFICES ASSUME m # n PROVE FALSE
      OBVIOUS
    <3>1. Cardinality({m, n}) = 2
      <4>1. IsFiniteSet({m}) /\ Cardinality({m}) = 1 /\ n \notin {m} /\ {m} \cup {n} = {m, n}
        BY FS_Singleton
      <4>2. Cardinality({m} \cup {n}) = Cardinality({m}) + 1
        BY <4>1, FS_AddElement
      <4>3. Cardinality({m} \cup {n}) = 2
        <5> DEFINE pair == {m} \cup {n}
        <5> HIDE DEF pair
        <5>1. Cardinality(pair) = 1 + 1
          BY <4>1, <4>2, Zenon DEF pair
        <5>2. Cardinality(pair) = 2
          BY <5>1
        <5> QED BY <5>2 DEF pair
      <4> QED BY <4>1, <4>3, Zenon
    <3>2. {m, n} \subseteq at
      BY <1>5, <2>3
    <3>3. Cardinality({m, n}) <= Cardinality(at)
      BY <1>9, <3>2, FS_Subset
    <3> HIDE DEF at
    <3>4. Cardinality(at) \in Nat
      BY <1>9, FS_CardinalityType
    <3> QED BY <2>1, <3>1, <3>3, <3>4
  <2> QED BY <2>2, <2>5
<1> QED BY <1>2, <1>6, <1>7, <1>8
(* The differences of one key, and what they are with the sides exchanged.  *)
Turn(d) ==
  [d EXCEPT !.left = d.right, !.right = d.left, !.delta = IF @ = None THEN None ELSE -@,
            !.kind = CASE @ = "missing_left" -> "missing_right" [] @ = "missing_right" -> "missing_left" [] OTHER -> @]
Diff(key, c, l, r, delta, kind) == [key |-> key, column |-> c, left |-> l, right |-> r, delta |-> delta, kind |-> kind]

LEMMA TurnIs ==
  ASSUME None \notin Int, NEW key, NEW c, NEW l, NEW r, NEW n \in Int
  PROVE  /\ Turn(Diff(key, c, l, r, n, "value_mismatch")) = Diff(key, c, r, l, -n, "value_mismatch")
         /\ Turn(Diff(key, c, l, r, None, "missing_left")) = Diff(key, c, r, l, None, "missing_right")
         /\ Turn(Diff(key, c, l, r, None, "missing_right")) = Diff(key, c, r, l, None, "missing_left")
<1>1. ASSUME NEW delta, NEW kind, NEW back, NEW other,
             delta = None => back = None, delta # None => back = -delta,
             kind = "missing_left" => other = "missing_right", kind = "missing_right" => other = "missing_left",
             kind \notin {"missing_left", "missing_right"} => other = kind
      PROVE  Turn(Diff(key, c, l, r, delta, kind)) = Diff(key, c, r, l, back, other)
  <2> DEFINE d == Diff(key, c, l, r, delta, kind)
             Form == [key : {key}, column : {c}, left : {l, r}, right : {l, r}, delta : {delta, back}, kind : {kind, other}]
             e == [d EXCEPT !.left = r, !.right = l, !.delta = back, !.kind = other]
  <2>1. d \in Form /\ d.key = key /\ d.column = c /\ d.left = l /\ d.right = r /\ d.delta = delta /\ d.kind = kind
    BY DEF Diff
  <2> HIDE DEF d
  <2>2. (IF delta = None THEN None ELSE -delta) = back
    BY <1>1, Zenon
  <2>3. (CASE kind = "missing_left" -> "missing_right" [] kind = "missing_right" -> "missing_left" [] OTHER -> kind) = other
    BY <1>1
  <2>4. Turn(d) = e
    BY <2>1, <2>2, <2>3, Zenon DEF Turn
  <2>5. e \in Form /\ e.key = key /\ e.column = c /\ e.left = r /\ e.right = l /\ e.delta = back /\ e.kind = other
    BY <2>1
  <2> HIDE DEF e
  <2>6. e = Diff(key, c, r, l, back, other)
    BY <2>5 DEF Diff
  <2> QED BY <2>4, <2>6 DEF d
<1>2. n # None
  OBVIOUS
<1>3. Turn(Diff(key, c, l, r, n, "value_mismatch")) = Diff(key, c, r, l, -n, "value_mismatch")
  <2> DEFINE delta == n
             back == -n
             kind == "value_mismatch"
             other == "value_mismatch"
  <2>1. /\ delta = None => back = None
        /\ delta # None => back = -delta
    BY <1>2
  <2>2. /\ kind = "missing_left" => other = "missing_right"
        /\ kind = "missing_right" => other = "missing_left"
        /\ kind \notin {"missing_left", "missing_right"} => other = kind
    OBVIOUS
  <2> HIDE DEF delta, back, kind, other
  <2>3. Turn(Diff(key, c, l, r, delta, kind)) = Diff(key, c, r, l, back, other)
    BY <1>1, <2>1, <2>2
  <2> QED BY <2>3 DEF delta, back, kind, other
<1>4. Turn(Diff(key, c, l, r, None, "missing_left")) = Diff(key, c, r, l, None, "missing_right")
  <2> DEFINE delta == None
             back == None
             kind == "missing_left"
             other == "missing_right"
  <2>1. /\ delta = None => back = None
        /\ delta # None => back = -delta
    BY <1>2
  <2>2. /\ kind = "missing_left" => other = "missing_right"
        /\ kind = "missing_right" => other = "missing_left"
        /\ kind \notin {"missing_left", "missing_right"} => other = kind
    OBVIOUS
  <2> HIDE DEF delta, back, kind, other
  <2>3. Turn(Diff(key, c, l, r, delta, kind)) = Diff(key, c, r, l, back, other)
    BY <1>1, <2>1, <2>2
  <2> QED BY <2>3 DEF delta, back, kind, other
<1>5. Turn(Diff(key, c, l, r, None, "missing_right")) = Diff(key, c, r, l, None, "missing_left")
  <2> DEFINE delta == None
             back == None
             kind == "missing_right"
             other == "missing_left"
  <2>1. /\ delta = None => back = None
        /\ delta # None => back = -delta
    BY <1>2
  <2>2. /\ kind = "missing_left" => other = "missing_right"
        /\ kind = "missing_right" => other = "missing_left"
        /\ kind \notin {"missing_left", "missing_right"} => other = kind
    OBVIOUS
  <2> HIDE DEF delta, back, kind, other
  <2>3. Turn(Diff(key, c, l, r, delta, kind)) = Diff(key, c, r, l, back, other)
    BY <1>1, <2>1, <2>2
  <2> QED BY <2>3 DEF delta, back, kind, other
<1> QED BY <1>3, <1>4, <1>5

LEMMA DiffersIs ==
  ASSUME NEW key, NEW c, NEW l, NEW r, NEW tolerance
  PROVE  D!Differs(key, c, l, r, tolerance) =
           IF l = None /\ r = None THEN {}
           ELSE IF l = None THEN {Diff(key, c, l, r, None, "missing_left")}
           ELSE IF r = None THEN {Diff(key, c, l, r, None, "missing_right")}
           ELSE IF D!exceedsTolerance(l, r, tolerance) THEN {Diff(key, c, l, r, l - r, "value_mismatch")} ELSE {}
  BY Zenon DEF D!Differs, Diff

LEMMA ExceedsIs ==
  ASSUME NEW l \in Int, NEW r \in Int, NEW tolerance
  PROVE  D!exceedsTolerance(l, r, tolerance) <=> D!exceedsTolerance(r, l, tolerance)
<1>1. (IF l > r THEN l - r ELSE r - l) = (IF r > l THEN r - l ELSE l - r)
  OBVIOUS
<1> QED BY <1>1, Zenon DEF D!exceedsTolerance

LEMMA DiffersTurned ==
  ASSUME None \notin Int, NEW key, NEW c, NEW l \in Int \cup {None}, NEW r \in Int \cup {None}, NEW tolerance
  PROVE  /\ D!Differs(key, c, r, l, tolerance) = {Turn(d) : d \in D!Differs(key, c, l, r, tolerance)}
         /\ \A d \in D!Differs(key, c, l, r, tolerance) : d.key = key
         /\ D!Differs(key, c, l, r, tolerance) = {} <=>
              \/ l = None /\ r = None
              \/ l # None /\ r # None /\ ~D!exceedsTolerance(l, r, tolerance)
<1> DEFINE here == D!Differs(key, c, l, r, tolerance)
           there == D!Differs(key, c, r, l, tolerance)
<1>1. CASE l = None /\ r = None
  <2>1. here = {} /\ there = {}
    BY <1>1, DiffersIs
  <2> QED BY <1>1, <2>1
<1>2. CASE l = None /\ r # None
  <2>1. here = {Diff(key, c, l, r, None, "missing_left")} /\ there = {Diff(key, c, r, l, None, "missing_right")}
    BY <1>2, DiffersIs
  <2>2. Turn(Diff(key, c, l, r, None, "missing_left")) = Diff(key, c, r, l, None, "missing_right")
    BY TurnIs, 0 \in Int
  <2>3. Diff(key, c, l, r, None, "missing_left").key = key
    BY DEF Diff
  <2> QED BY <1>2, <2>1, <2>2, <2>3
<1>3. CASE l # None /\ r = None
  <2>1. here = {Diff(key, c, l, r, None, "missing_right")} /\ there = {Diff(key, c, r, l, None, "missing_left")}
    BY <1>3, DiffersIs
  <2>2. Turn(Diff(key, c, l, r, None, "missing_right")) = Diff(key, c, r, l, None, "missing_left")
    BY TurnIs, 0 \in Int
  <2>3. Diff(key, c, l, r, None, "missing_right").key = key
    BY DEF Diff
  <2> QED BY <1>3, <2>1, <2>2, <2>3
<1>4. CASE l # None /\ r # None
  <2>1. l \in Int /\ r \in Int /\ l - r \in Int /\ -(l - r) = r - l
    BY <1>4
  <2>2. D!exceedsTolerance(l, r, tolerance) <=> D!exceedsTolerance(r, l, tolerance)
    BY <2>1, ExceedsIs
  <2>3. /\ here = IF D!exceedsTolerance(l, r, tolerance) THEN {Diff(key, c, l, r, l - r, "value_mismatch")} ELSE {}
        /\ there = IF D!exceedsTolerance(l, r, tolerance) THEN {Diff(key, c, r, l, r - l, "value_mismatch")} ELSE {}
    BY <1>4, <2>2, DiffersIs
  <2>4. Turn(Diff(key, c, l, r, l - r, "value_mismatch")) = Diff(key, c, r, l, r - l, "value_mismatch")
    <3> DEFINE n == l - r
    <3>1. n \in Int
      BY <2>1
    <3> HIDE DEF n
    <3>2. Turn(Diff(key, c, l, r, n, "value_mismatch")) = Diff(key, c, r, l, -n, "value_mismatch")
      BY <3>1, TurnIs
    <3> QED BY <2>1, <3>2 DEF n
  <2>5. Diff(key, c, l, r, l - r, "value_mismatch").key = key
    BY DEF Diff
  <2> HIDE DEF here, there
  <2>6. CASE D!exceedsTolerance(l, r, tolerance)
    <3>1. here = {Diff(key, c, l, r, l - r, "value_mismatch")} /\ there = {Diff(key, c, r, l, r - l, "value_mismatch")}
      BY <2>3, <2>6
    <3> QED BY <1>4, <2>4, <2>5, <2>6, <3>1 DEF here, there
  <2>7. CASE ~D!exceedsTolerance(l, r, tolerance)
    <3>1. here = {} /\ there = {}
      BY <2>3, <2>7
    <3> QED BY <1>4, <2>7, <3>1 DEF here, there
  <2> QED BY <2>6, <2>7
<1> QED BY <1>1, <1>2, <1>3, <1>4
(* What is reported of a key that both tables have, and of one table alone. *)
OfKey(left, right, key, tolerance) ==
  UNION {D!Differs(key, c, D!Row(left, key).value[c], D!Row(right, key).value[c], tolerance) : c \in Columns}
OfAlone(left, right) ==
  {Diff(key, c, D!Row(left, key).value[c], None, None, "missing_right") :
     key \in D!Keys(left) \ D!Keys(right), c \in Columns}
OfOther(left, right) ==
  {Diff(key, c, None, D!Row(right, key).value[c], None, "missing_left") :
     key \in D!Keys(right) \ D!Keys(left), c \in Columns}
OfBoth(left, right, tolerance) ==
  UNION {OfKey(left, right, key, tolerance) : key \in D!Keys(left) \cap D!Keys(right)}
Equal(left, right, tolerance) ==
  {key \in D!Keys(left) \cap D!Keys(right) : OfKey(left, right, key, tolerance) = {}}
Reported(differences, onlyLeft, onlyRight, matched, duplicateKeys) ==
  [differences |-> differences, onlyLeft |-> onlyLeft, onlyRight |-> onlyRight, matched |-> matched,
   duplicateKeys |-> duplicateKeys]

LEMMA ReconcileIs ==
  ASSUME NEW left, NEW right, NEW tolerance
  PROVE  D!reconcile(left, right, tolerance) =
           Reported(OfBoth(left, right, tolerance) \cup OfAlone(left, right) \cup OfOther(left, right),
                    D!Keys(left) \ D!Keys(right), D!Keys(right) \ D!Keys(left),
                    D!Cardinality(Equal(left, right, tolerance)), D!Duplicates(left) \cup D!Duplicates(right))
<1> DEFINE both == D!Keys(left) \cap D!Keys(right)
           alone == {D!Alone(key, c, D!Row(left, key).value[c], None, "missing_right") : key \in D!Keys(left) \ both, c \in Columns}
           other == {D!Alone(key, c, None, D!Row(right, key).value[c], "missing_left") : key \in D!Keys(right) \ both, c \in Columns}
<1>1. D!reconcile(left, right, tolerance) =
        Reported((UNION {OfKey(left, right, key, tolerance) : key \in both}) \cup alone \cup other,
                 D!Keys(left) \ both, D!Keys(right) \ both,
                 D!Cardinality({key \in both : OfKey(left, right, key, tolerance) = {}}),
                 D!Duplicates(left) \cup D!Duplicates(right))
  BY SMT DEF D!reconcile, Reported, OfKey
<1>2. D!Keys(left) \ both = D!Keys(left) \ D!Keys(right) /\ D!Keys(right) \ both = D!Keys(right) \ D!Keys(left)
  OBVIOUS
<1>3. \A key, c, l, r, kind : D!Alone(key, c, l, r, kind) = Diff(key, c, l, r, None, kind)
  BY Zenon DEF D!Alone, Diff
<1>4. alone = OfAlone(left, right) /\ other = OfOther(left, right)
  <2> DEFINE at(table, key, c) == D!Row(table, key).value[c]
  <2>1. /\ alone = {D!Alone(key, c, at(left, key, c), None, "missing_right") : key \in D!Keys(left) \ both, c \in Columns}
        /\ other = {D!Alone(key, c, None, at(right, key, c), "missing_left") : key \in D!Keys(right) \ both, c \in Columns}
        /\ OfAlone(left, right) = {Diff(key, c, at(left, key, c), None, None, "missing_right") :
                                     key \in D!Keys(left) \ D!Keys(right), c \in Columns}
        /\ OfOther(left, right) = {Diff(key, c, None, at(right, key, c), None, "missing_left") :
                                     key \in D!Keys(right) \ D!Keys(left), c \in Columns}
    BY SMT DEF OfAlone, OfOther
  <2> HIDE DEF alone, other, at
  <2> QED BY <1>2, <1>3, <2>1
<1>5. /\ UNION {OfKey(left, right, key, tolerance) : key \in both} = OfBoth(left, right, tolerance)
      /\ {key \in both : OfKey(left, right, key, tolerance) = {}} = Equal(left, right, tolerance)
  BY Zenon DEF OfBoth, Equal
<1> HIDE DEF both, alone, other
<1> QED BY <1>1, <1>2, <1>4, <1>5

LEMMA MirrorIs ==
  ASSUME NEW a, NEW b, NEW c, NEW d, NEW e
  PROVE  D!Mirror(Reported(a, b, c, d, e)) = Reported({Turn(x) : x \in a}, c, b, d, e)
<1> DEFINE report == Reported(a, b, c, d, e)
           turned == {Turn(x) : x \in a}
           Form == [differences : {a, turned}, onlyLeft : {b, c}, onlyRight : {b, c}, matched : {d}, duplicateKeys : {e}]
           back == [report EXCEPT !.differences = turned, !.onlyLeft = c, !.onlyRight = b]
<1> HIDE DEF turned
<1>1. /\ report \in Form /\ report.differences = a /\ report.onlyLeft = b /\ report.onlyRight = c
      /\ report.matched = d /\ report.duplicateKeys = e
  BY DEF Reported
<1> HIDE DEF report
<1>2. D!Mirror(report) =
        [report EXCEPT !.differences = {Turn(x) : x \in report.differences},
                       !.onlyLeft = report.onlyRight, !.onlyRight = report.onlyLeft]
  BY Zenon DEF D!Mirror, Turn
<1>3. D!Mirror(report) = back
  BY <1>1, <1>2, Zenon DEF turned
<1>4. /\ back \in Form /\ back.differences = turned /\ back.onlyLeft = c /\ back.onlyRight = b
      /\ back.matched = d /\ back.duplicateKeys = e
  BY <1>1
<1> HIDE DEF back
<1>5. back = Reported(turned, c, b, d, e)
  BY <1>4 DEF Reported
<1> QED BY <1>3, <1>5 DEF report, turned

Tables(Key) == Seq(TableRow(Key))

LEMMA OfKeyIs ==
  ASSUME None \notin Int, NEW Key, NEW left \in Tables(Key), NEW right \in Tables(Key), NEW tolerance,
         NEW key \in D!Keys(left) \cap D!Keys(right)
  PROVE  /\ OfKey(right, left, key, tolerance) = {Turn(d) : d \in OfKey(left, right, key, tolerance)}
         /\ \A d \in OfKey(left, right, key, tolerance) : d.key = key
         /\ OfKey(left, right, key, tolerance) = {} <=> D!Same(D!Row(left, key), D!Row(right, key), tolerance)
<1> DEFINE l(c) == D!Row(left, key).value[c]
           r(c) == D!Row(right, key).value[c]
<1>1. \A c \in Columns : l(c) \in Int \cup {None} /\ r(c) \in Int \cup {None}
  BY RowIs DEF Tables
<1> HIDE DEF l, r
<1>2. /\ OfKey(left, right, key, tolerance) = UNION {D!Differs(key, c, l(c), r(c), tolerance) : c \in Columns}
      /\ OfKey(right, left, key, tolerance) = UNION {D!Differs(key, c, r(c), l(c), tolerance) : c \in Columns}
  BY Zenon DEF OfKey, l, r
<1>3. \A c \in Columns :
        /\ D!Differs(key, c, r(c), l(c), tolerance) = {Turn(d) : d \in D!Differs(key, c, l(c), r(c), tolerance)}
        /\ \A d \in D!Differs(key, c, l(c), r(c), tolerance) : d.key = key
        /\ D!Differs(key, c, l(c), r(c), tolerance) = {} <=>
             \/ l(c) = None /\ r(c) = None
             \/ l(c) # None /\ r(c) # None /\ ~D!exceedsTolerance(l(c), r(c), tolerance)
  <2> TAKE c \in Columns
  <2> DEFINE x == l(c)
             y == r(c)
  <2>1. x \in Int \cup {None} /\ y \in Int \cup {None}
    BY <1>1
  <2> HIDE DEF x, y
  <2>2. /\ D!Differs(key, c, y, x, tolerance) = {Turn(d) : d \in D!Differs(key, c, x, y, tolerance)}
        /\ \A d \in D!Differs(key, c, x, y, tolerance) : d.key = key
        /\ D!Differs(key, c, x, y, tolerance) = {} <=>
             \/ x = None /\ y = None
             \/ x # None /\ y # None /\ ~D!exceedsTolerance(x, y, tolerance)
    BY <2>1, DiffersTurned
  <2> QED BY <2>2, Zenon DEF x, y
<1>4. OfKey(right, left, key, tolerance) = {Turn(d) : d \in OfKey(left, right, key, tolerance)}
  BY <1>2, <1>3
<1>5. \A d \in OfKey(left, right, key, tolerance) : d.key = key
  BY <1>2, <1>3
<1>6. OfKey(left, right, key, tolerance) = {} <=> \A c \in Columns : D!Differs(key, c, l(c), r(c), tolerance) = {}
  BY <1>2
<1>7. D!Same(D!Row(left, key), D!Row(right, key), tolerance) <=>
        \A c \in Columns :
          \/ l(c) = None /\ r(c) = None
          \/ l(c) # None /\ r(c) # None /\ ~D!exceedsTolerance(l(c), r(c), tolerance)
  BY Zenon DEF D!Same, l, r
<1> QED BY <1>3, <1>4, <1>5, <1>6, <1>7

(* Rows without a double are as many as their keys.                         *)
RowsOf(table) == {row \in D!Range(table) : row.key # 0}
LEMMA RowsCount ==
  ASSUME NEW Key, NEW table \in Tables(Key), D!Duplicates(table) = {}
  PROVE  Cardinality(RowsOf(table)) = Cardinality(D!Keys(table))
<1> DEFINE keys == D!Keys(table)
           rows == RowsOf(table)
           row == [key \in keys |-> D!Row(table, key)]
<1>1. \A key \in keys : D!Row(table, key) \in rows /\ D!Row(table, key).key = key
  BY RowIs DEF RowsOf, Tables
<1>2. \A x \in rows : x.key \in keys /\ D!Row(table, x.key) = x
  <2> TAKE x \in rows
  <2>1. x \in D!Range(table) /\ x.key \in keys
    BY DEF RowsOf, D!Keys
  <2> QED BY <2>1, RowIs DEF Tables
<1> HIDE DEF keys, rows
<1>3. row \in [keys -> rows] /\ (\A a, b \in keys : row[a] = row[b] => a = b) /\ \A x \in rows : \E key \in keys : row[key] = x
  BY <1>1, <1>2
<1> HIDE DEF row
<1>4. row \in Bijection(keys, rows)
  BY <1>3 DEF Bijection, Injection, Surjection, IsInjective
<1>5. IsFiniteSet(keys)
  BY KeysFinite DEF keys, Tables
<1>6. Cardinality(keys) = Cardinality(rows)
  <2>1. ExistsBijection(keys, rows)
    BY <1>4 DEF ExistsBijection
  <2> QED BY <1>5, <2>1, FS_Bijection
<1> QED BY <1>6 DEF keys, rows

(* Whichever table is called the left one, whatever their rows: the report  *)
(* is the other one turned round, no key is missing from it or counted      *)
(* twice, and what it does not mention is equal: reconcile() of             *)
(* reconcile.ts, with at least one column to compare.                       *)
THEOREM TablesAlwaysReconciled ==
  ASSUME None \notin Int, Columns # {}, NEW Key, NEW left \in Tables(Key), NEW right \in Tables(Key), NEW tolerance
  PROVE  D!TablesReconciled(left, right, tolerance)
<1> DEFINE report == D!reconcile(left, right, tolerance)
           other == D!reconcile(right, left, tolerance)
           diffs == OfBoth(left, right, tolerance) \cup OfAlone(left, right) \cup OfOther(left, right)
           turned == OfBoth(right, left, tolerance) \cup OfAlone(right, left) \cup OfOther(right, left)
           both == D!Keys(left) \cap D!Keys(right)
           all == D!Keys(left) \cup D!Keys(right)
           equal == Equal(left, right, tolerance)
           differing == {d.key : d \in report.differences}
<1>1. /\ report = Reported(diffs, D!Keys(left) \ D!Keys(right), D!Keys(right) \ D!Keys(left), D!Cardinality(equal),
                           D!Duplicates(left) \cup D!Duplicates(right))
      /\ other = Reported(turned, D!Keys(right) \ D!Keys(left), D!Keys(left) \ D!Keys(right),
                          D!Cardinality(Equal(right, left, tolerance)), D!Duplicates(right) \cup D!Duplicates(left))
  BY ReconcileIs
<1>2. \A key \in both :
        /\ OfKey(right, left, key, tolerance) = {Turn(d) : d \in OfKey(left, right, key, tolerance)}
        /\ \A d \in OfKey(left, right, key, tolerance) : d.key = key
        /\ OfKey(left, right, key, tolerance) = {} <=> D!Same(D!Row(left, key), D!Row(right, key), tolerance)
  BY OfKeyIs
<1>3. OfBoth(right, left, tolerance) = {Turn(d) : d \in OfBoth(left, right, tolerance)}
  <2>1. D!Keys(right) \cap D!Keys(left) = both
    OBVIOUS
  <2>2. /\ OfBoth(left, right, tolerance) = UNION {OfKey(left, right, key, tolerance) : key \in both}
        /\ OfBoth(right, left, tolerance) = UNION {OfKey(right, left, key, tolerance) : key \in both}
    BY <2>1, Zenon DEF OfBoth
  <2> HIDE DEF both
  <2> QED BY <1>2, <2>2
<1>4. /\ OfOther(right, left) = {Turn(d) : d \in OfAlone(left, right)}
      /\ OfAlone(right, left) = {Turn(d) : d \in OfOther(left, right)}
  <2>1. \A key, c, v : /\ Turn(Diff(key, c, v, None, None, "missing_right")) = Diff(key, c, None, v, None, "missing_left")
                       /\ Turn(Diff(key, c, None, v, None, "missing_left")) = Diff(key, c, v, None, None, "missing_right")
    BY TurnIs, 0 \in Int
  <2>2. OfOther(right, left) = {Turn(d) : d \in OfAlone(left, right)}
    BY <2>1 DEF OfAlone, OfOther
  <2>3. OfAlone(right, left) = {Turn(d) : d \in OfOther(left, right)}
    BY <2>1 DEF OfAlone, OfOther
  <2> QED BY <2>2, <2>3
<1>5. turned = {Turn(d) : d \in diffs}
  BY <1>3, <1>4
<1>6. Equal(right, left, tolerance) = equal
  <2>1. \A key \in both : OfKey(right, left, key, tolerance) = {} <=> OfKey(left, right, key, tolerance) = {}
    BY <1>2
  <2> QED BY <2>1 DEF Equal
<1> HIDE DEF diffs, turned, equal
<1>7. other = D!Mirror(report)
  <2>1. D!Duplicates(right) \cup D!Duplicates(left) = D!Duplicates(left) \cup D!Duplicates(right)
    OBVIOUS
  <2> QED BY <1>1, <1>5, <1>6, <2>1, MirrorIs
<1>8. /\ report.differences = diffs /\ report.onlyLeft = D!Keys(left) \ D!Keys(right)
      /\ report.onlyRight = D!Keys(right) \ D!Keys(left) /\ report.matched = D!Cardinality(equal)
      /\ report.duplicateKeys = D!Duplicates(left) \cup D!Duplicates(right)
  BY <1>1 DEF Reported
<1>9. /\ equal \subseteq both /\ \A key \in both : key \in equal <=> D!Same(D!Row(left, key), D!Row(right, key), tolerance)
  BY <1>2 DEF equal, Equal
<1>10. differing = all \ equal
  <2>1. \A key, c, l, r, delta, kind : Diff(key, c, l, r, delta, kind).key = key
    BY DEF Diff
  <2>2. {d.key : d \in OfAlone(left, right)} = D!Keys(left) \ D!Keys(right)
    <3> DEFINE gone == D!Keys(left) \ D!Keys(right)
               told(key, c) == Diff(key, c, D!Row(left, key).value[c], None, None, "missing_right")
    <3>1. OfAlone(left, right) = {told(key, c) : key \in gone, c \in Columns} /\ \A key, c : told(key, c).key = key
      BY <2>1, SMT DEF OfAlone
    <3> HIDE DEF gone, told
    <3>2. {d.key : d \in OfAlone(left, right)} = gone
      <4>1. PICK c \in Columns : TRUE
        OBVIOUS
      <4>2. \A key \in gone : told(key, c) \in OfAlone(left, right) /\ told(key, c).key = key
        BY <3>1
      <4> QED BY <3>1, <4>2
    <3> QED BY <3>2 DEF gone
  <2>3. {d.key : d \in OfOther(left, right)} = D!Keys(right) \ D!Keys(left)
    <3> DEFINE gone == D!Keys(right) \ D!Keys(left)
               told(key, c) == Diff(key, c, None, D!Row(right, key).value[c], None, "missing_left")
    <3>1. OfOther(left, right) = {told(key, c) : key \in gone, c \in Columns} /\ \A key, c : told(key, c).key = key
      BY <2>1, SMT DEF OfOther
    <3> HIDE DEF gone, told
    <3>2. {d.key : d \in OfOther(left, right)} = gone
      <4>1. PICK c \in Columns : TRUE
        OBVIOUS
      <4>2. \A key \in gone : told(key, c) \in OfOther(left, right) /\ told(key, c).key = key
        BY <3>1
      <4> QED BY <3>1, <4>2
    <3> QED BY <3>2 DEF gone
  <2>4. {d.key : d \in OfBoth(left, right, tolerance)} = both \ equal
    <3>1. OfBoth(left, right, tolerance) = UNION {OfKey(left, right, key, tolerance) : key \in both}
      BY Zenon DEF OfBoth
    <3>2. equal = {key \in both : OfKey(left, right, key, tolerance) = {}}
      BY Zenon DEF equal, Equal
    <3> HIDE DEF both
    <3> QED BY <1>2, <3>1, <3>2
  <2>5. {d.key : d \in diffs} = {d.key : d \in OfBoth(left, right, tolerance)} \cup {d.key : d \in OfAlone(left, right)}
                                  \cup {d.key : d \in OfOther(left, right)}
    BY DEF diffs
  <2> QED BY <1>8, <1>9, <2>2, <2>3, <2>4, <2>5
<1> HIDE DEF differing, report, other
<1>11. Cardinality(all) = report.matched + Cardinality(differing)
  <2>1. IsFiniteSet(all)
    BY KeysFinite, FS_Union DEF Tables
  <2>2. equal \subseteq all /\ all \cap equal = equal
    BY <1>9
  <2> HIDE DEF all
  <2>3. Cardinality(all \ equal) = Cardinality(all) - Cardinality(equal)
    BY <2>1, <2>2, FS_Difference
  <2>4. Cardinality(all) \in Nat /\ Cardinality(equal) \in Nat
    BY <2>1, <2>2, FS_CardinalityType, FS_Subset
  <2> QED BY <1>8, <1>10, <2>3, <2>4, CountIs
<1>12. report.onlyLeft \cup report.onlyRight \subseteq differing
  BY <1>8, <1>9, <1>10
<1>13. ASSUME differing \cup report.duplicateKeys = {}
       PROVE  /\ Cardinality(RowsOf(left)) = Cardinality(RowsOf(right))
              /\ \A row \in RowsOf(left) : \E o \in RowsOf(right) : row.key = o.key /\ D!Same(row, o, tolerance)
  <2>1. D!Keys(left) = D!Keys(right) /\ both = D!Keys(left) /\ equal = both
    BY <1>9, <1>10, <1>13
  <2>2. D!Duplicates(left) = {} /\ D!Duplicates(right) = {}
    BY <1>8, <1>13
  <2>3. Cardinality(RowsOf(left)) = Cardinality(RowsOf(right))
    BY <2>1, <2>2, RowsCount
  <2>4. ASSUME NEW row \in RowsOf(left) PROVE \E o \in RowsOf(right) : row.key = o.key /\ D!Same(row, o, tolerance)
    <3> DEFINE key == row.key
               o == D!Row(right, key)
    <3>1. row \in D!Range(left) /\ key \in D!Keys(left)
      BY DEF RowsOf, D!Keys
    <3>2. row = D!Row(left, key)
      BY <2>2, <3>1, RowIs DEF Tables
    <3>3. o \in RowsOf(right) /\ o.key = key
      BY <2>1, <3>1, RowIs DEF Tables, RowsOf
    <3>4. D!Same(row, o, tolerance)
      BY <1>9, <2>1, <3>1, <3>2
    <3> QED BY <3>3, <3>4
  <2> QED BY <2>3, <2>4
<1>14. ASSUME NEW row \in RowsOf(left), NEW o \in RowsOf(right), row.key = o.key, row.key \notin report.duplicateKeys
       PROVE  D!Same(row, o, tolerance) <=> row.key \notin differing
  <2>1. row.key \in both /\ row \in D!Range(left) /\ o \in D!Range(right)
    BY <1>14 DEF RowsOf, D!Keys
  <2>2. row = D!Row(left, row.key) /\ o = D!Row(right, row.key)
    BY <1>8, <1>14, <2>1, RowIs DEF Tables
  <2> QED BY <1>9, <1>10, <2>1, <2>2
<1>15. D!Cardinality(all) = report.matched + D!Cardinality(differing)
  BY <1>11, CountIs
<1> QED BY <1>7, <1>12, <1>13, <1>14, <1>15, CountIs, Zenon DEF D!TablesReconciled, RowsOf, differing, report, other
=============================================================================
