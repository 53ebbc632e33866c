------------------------------ MODULE Documents ------------------------------
(***************************************************************************)
(* What the service does with documents: it cuts their paragraphs into     *)
(* fragments for the search, cuts long fragments into slices for the model *)
(* of embeddings, reads from two versions what a user revised, and         *)
(* compares two tables.  At the end, who may do what with a resource, and  *)
(* what a search of the knowledge of a tenant returns: keyword search,     *)
(* search by vectors, both fused by rank.                                  *)
(***************************************************************************)
EXTENDS Naturals, Integers, Sequences, FiniteSets, FiniteSetsExt, SequencesExt

CONSTANTS
  None, MIN_ITEMS_FOR_RATIO, Columns,
  Threshold,   \* of the score of a vector
  Pool         \* the least number of candidates each list of a search brings

(* A paragraph: a heading of some level, or (level 0) a body of some length.*)
Bodies(doc) == {i \in DOMAIN doc : doc[i].level = 0}

(* chunkDocument(): the loop's state.  A path holds the paragraph of each   *)
(* level's heading, 0 for a level without one.                              *)
flush(st, doc, overlap) ==
  IF \A i \in Range(st.buffer) : doc[i].length = 0
  THEN [st EXCEPT !.buffer = <<>>]
  ELSE [st EXCEPT
          !.chunks = Append(@, [parts |-> st.buffer, path |-> st.path]),
          !.buffer = SubSeq(@, Max({1, Len(@) - overlap + 1}), Len(@))]

(* A heading closes the section before it; nothing overlaps into the next.  *)
Headed(st, doc, p) ==
  [flush(st, doc, 0) EXCEPT
     !.buffer = <<>>,
     !.path = [l \in 1 .. doc[p].level |-> IF l = doc[p].level THEN p ELSE IF l <= Len(@) THEN @[l] ELSE 0]]

Filled(st, doc, p, limit, overlap) ==
  LET more == [st EXCEPT !.buffer = Append(@, p)]
  IN  IF FoldSeq(LAMBDA i, sum : sum + doc[i].length, 0, more.buffer) >= limit
      THEN flush(more, doc, overlap) ELSE more

chunkDocument(doc, limit, overlap) ==
  LET step(st, p) == IF doc[p].level > 0 THEN Headed(st, doc, p) ELSE Filled(st, doc, p, limit, overlap)
      end == FoldLeft(step, [chunks |-> <<>>, path |-> <<>>, buffer |-> <<>>], [i \in DOMAIN doc |-> i])
  IN  flush(end, doc, overlap).chunks

-----------------------------------------------------------------------------
(* boundRagChunks(): where the slices of a long text of "size" begin.       *)
Slices(size, max, overlap) ==
  LET step == max - overlap
      last == Max({0, size - max})
      count == 1 + (last + step - 1) \div step
  IN  [n \in 1 .. count |-> [from |-> (n - 1) * step, to |-> Min({size, (n - 1) * step + max})]]

-----------------------------------------------------------------------------
(* extractDocumentRevisions(): paragraphs are texts, 0 for a blank one.     *)
CountIn(texts, t) == Cardinality({i \in DOMAIN texts : texts[i] = t})
Anchors(before, after) ==
  {i \in DOMAIN before : before[i] # 0 /\ CountIn(before, before[i]) = 1 /\ CountIn(after, before[i]) = 1}
AnchorOf(after, t) == CHOOSE j \in DOMAIN after : after[j] = t

(* Mutant of Ordered: an anchor may lie before the last one.                *)
OrderedAny(before, after) ==
  SelectSeq([i \in DOMAIN before |-> [b |-> i, a |-> IF i \in Anchors(before, after) THEN AnchorOf(after, before[i]) ELSE 0]],
            LAMBDA p : p.a > 0)

(* Anchors that go back are dropped, in the order of the old version.       *)
Ordered(before, after) ==
  LET step(ps, i) ==
        LET j == IF i \in Anchors(before, after) THEN AnchorOf(after, before[i]) ELSE 0
        IN  IF j > 0 /\ (ps = <<>> \/ j > Last(ps).a) THEN Append(ps, [b |-> i, a |-> j]) ELSE ps
  IN  FoldLeft(step, <<>>, [i \in DOMAIN before |-> i])

(* compareRange(): what lies between two anchors is paired by position; b   *)
(* or a is 0 for what was added or removed.                                 *)
Revised(before, after, p, q) ==
  LET removed == q.b - p.b - 1
      added == q.a - p.a - 1
      pairs == {[b |-> IF k <= removed THEN p.b + k ELSE 0, a |-> IF k <= added THEN p.a + k ELSE 0] :
                k \in 1 .. Max({removed, added})}
  IN  {r \in pairs : r.b = 0 \/ r.a = 0 \/ before[r.b] # after[r.a]}

Revisions(before, after) ==
  LET bounds == <<[b |-> 0, a |-> 0]>> \o Ordered(before, after)
                  \o <<[b |-> Len(before) + 1, a |-> Len(after) + 1]>>
  IN  UNION {Revised(before, after, bounds[n], bounds[n + 1]) : n \in 1 .. Len(bounds) - 1}

Abandoned(before, after) ==
  LET total == Max({Len(before), Len(after), 1})
  IN  total >= MIN_ITEMS_FOR_RATIO /\ 10 * Cardinality(Revisions(before, after)) > 6 * total

-----------------------------------------------------------------------------
(* The heading of each level above paragraph p, from the text alone.        *)
Enclosing(doc, p) ==
  LET heads == {h \in 1 .. p - 1 : doc[h].level > 0}
      over(l) == {h \in heads : doc[h].level <= l}
      depth == IF heads = {} THEN 0 ELSE doc[Max(heads)].level
  IN  [l \in 1 .. depth |->
         IF over(l) # {} /\ doc[Max(over(l))].level = l THEN Max(over(l)) ELSE 0]

(* Every body with a text is in a fragment; the bodies of a fragment follow *)
(* each other in one section, whose headings are its path; without its last *)
(* paragraph a fragment is within the limit or only what overlaps; the next *)
(* one begins with no more of it than the overlap: chunking.ts:69.          *)
ChunksSound(doc, limit, overlap) ==
  LET chunks == chunkDocument(doc, limit, overlap)
      size(s) == FoldSeq(LAMBDA i, sum : sum + doc[i].length, 0, s)
  IN  /\ \A i \in Bodies(doc) : doc[i].length > 0 => \E n \in DOMAIN chunks : i \in Range(chunks[n].parts)
      /\ \A n \in DOMAIN chunks :
           LET c == chunks[n]
           IN  /\ \A k \in 1 .. Len(c.parts) - 1 : c.parts[k + 1] = c.parts[k] + 1
               /\ \A p \in Range(c.parts) : doc[p].level = 0 /\ c.path = Enclosing(doc, p)
               /\ size(Front(c.parts)) < limit \/ Len(c.parts) <= overlap + 1
               /\ n < Len(chunks) =>
                    /\ Cardinality(Range(c.parts) \cap Range(chunks[n + 1].parts)) <= overlap
                    /\ Last(c.parts) <= Last(chunks[n + 1].parts)

(* The slices cover the text, are within the limit, share just the overlap, *)
(* and each brings something new.                                           *)
SlicesSound(size, max, overlap) ==
  LET s == Slices(size, max, overlap)
  IN  /\ s[1].from = 0 /\ Last(s).to = size
      /\ \A n \in DOMAIN s : s[n].to - s[n].from <= max
      /\ \A n \in 1 .. Len(s) - 1 : s[n].to - s[n + 1].from = overlap /\ s[n].to < s[n + 1].to

(* What is in no revision is the same in both versions, in the same order;  *)
(* a paragraph is in one revision at most; and one paragraph put into a     *)
(* text without repetitions is one addition: revision-extract.ts:11.        *)
Kept(texts, revised) == LET ids == SelectSeq([i \in DOMAIN texts |-> i], LAMBDA i : i \notin revised)
                        IN  [n \in DOMAIN ids |-> texts[ids[n]]]
RevisionsSound(before, after) ==
  LET rs == Revisions(before, after)
  IN  /\ Kept(before, {r.b : r \in rs}) = Kept(after, {r.a : r \in rs})
      /\ \A r, o \in rs : r # o => (r.b # o.b \/ r.b = 0) /\ (r.a # o.a \/ r.a = 0)
      /\ \A n \in 0 .. Len(before) :
           /\ after # <<>> /\ Len(after) = Len(before) + 1 /\ IsInjective(after) /\ 0 \notin Range(after)
           /\ before = SubSeq(after, 1, n) \o SubSeq(after, n + 2, Len(after))
           => rs = {[b |-> 0, a |-> n + 1]}
-----------------------------------------------------------------------------
(* The comparison of two tables by their key columns.  A row is its key     *)
(* once normalised, 0 when all its key columns are empty, and the number    *)
(* read in each column compared, None when there is none.                   *)
Keys(table) == {row.key : row \in Range(table)} \ {0}

(* indexRows(): of rows with one key the first counts, the key is reported. *)
Row(table, key) == table[Min({n \in DOMAIN table : table[n].key = key})]
Duplicates(table) == {key \in Keys(table) : Cardinality({n \in DOMAIN table : table[n].key = key}) > 1}

exceedsTolerance(l, r, tolerance) == (IF l > r THEN l - r ELSE r - l) > tolerance

(* The difference of a column in the rows of one key, if there is one.      *)
Differs(key, c, l, r, tolerance) ==
  LET of(kind, delta) == {[key |-> key, column |-> c, left |-> l, right |-> r, delta |-> delta, kind |-> kind]}
  IN  IF l = None /\ r = None THEN {}
      ELSE IF l = None THEN of("missing_left", None)
      ELSE IF r = None THEN of("missing_right", None)
      ELSE IF exceedsTolerance(l, r, tolerance) THEN of("value_mismatch", l - r) ELSE {}

Alone(key, c, l, r, kind) == [key |-> key, column |-> c, left |-> l, right |-> r, delta |-> None, kind |-> kind]

reconcile(left, right, tolerance) ==
  LET both == Keys(left) \cap Keys(right)
      onlyLeft == Keys(left) \ both
      onlyRight == Keys(right) \ both
      of(key) == UNION {Differs(key, c, Row(left, key).value[c], Row(right, key).value[c], tolerance) : c \in Columns}
  IN  [differences |-> (UNION {of(key) : key \in both})
                       \cup {Alone(key, c, Row(left, key).value[c], None, "missing_right") : key \in onlyLeft, c \in Columns}
                       \cup {Alone(key, c, None, Row(right, key).value[c], "missing_left") : key \in onlyRight, c \in Columns},
       onlyLeft |-> onlyLeft, onlyRight |-> onlyRight,
       matched |-> Cardinality({key \in both : of(key) = {}}),
       duplicateKeys |-> Duplicates(left) \cup Duplicates(right)]

-----------------------------------------------------------------------------
(* The report with the sides exchanged.                                     *)
Mirror(report) ==
  LET turn(d) == [d EXCEPT !.left = d.right, !.right = d.left,
                           !.delta = IF @ = None THEN None ELSE -@,
                           !.kind = CASE @ = "missing_left" -> "missing_right" [] @ = "missing_right" -> "missing_left"
                                      [] OTHER -> @]
  IN  [report EXCEPT !.differences = {turn(d) : d \in report.differences},
                     !.onlyLeft = report.onlyRight, !.onlyRight = report.onlyLeft]

Same(row, other, tolerance) ==
  \A c \in Columns :
    \/ row.value[c] = None /\ other.value[c] = None
    \/ row.value[c] # None /\ other.value[c] # None /\ ~exceedsTolerance(row.value[c], other.value[c], tolerance)

(* It does not matter which table is called the left one; each key of       *)
(* either table is matched, different or on one side, and counted once; and *)
(* with no difference and no double key reported every row has its equal in *)
(* the other table: reconcile.ts:184.                                       *)
TablesReconciled(left, right, tolerance) ==
  LET report == reconcile(left, right, tolerance)
      differing == {d.key : d \in report.differences}
      rows(table) == {row \in Range(table) : row.key # 0}
  IN  /\ reconcile(right, left, tolerance) = Mirror(report)
      /\ Cardinality(Keys(left) \cup Keys(right)) = report.matched + Cardinality(differing)
      /\ report.onlyLeft \cup report.onlyRight \subseteq differing
      /\ differing \cup report.duplicateKeys = {} =>
           /\ Cardinality(rows(left)) = Cardinality(rows(right))
           /\ \A row \in rows(left) : \E other \in rows(right) : row.key = other.key /\ Same(row, other, tolerance)
      /\ \A row \in rows(left), other \in rows(right) :
           /\ row.key = other.key /\ row.key \notin report.duplicateKeys
           => (Same(row, other, tolerance) <=> row.key \notin differing)

-----------------------------------------------------------------------------
(* Access: an order of roles, and what each may do where.                   *)
Roles == <<"member", "workspace_admin", "tenant_admin", "platform_admin">>
Scopes == {"personal", "workspace", "tenant", "platform"}
Actions == {"read", "write", "delete", "administer"}

rankOf(role) == CHOOSE i \in 1 .. Len(Roles) : Roles[i] = role
hasRoleAtLeast(role, minimum) == rankOf(role) >= rankOf(minimum)

(* checkAccess()                                                            *)
checkAccess(m, r, action) ==
  LET admin == hasRoleAtLeast(m.role, "workspace_admin")
      owner == m.user = r.owner
      here  == CASE action = "read" -> r.scope # "personal" \/ owner \/ admin
                 [] action \in {"write", "delete"} -> owner \/ admin
                 [] action = "administer" -> admin
  IN  /\ m.tenant = r.tenant
      /\ \/ hasRoleAtLeast(m.role, "tenant_admin")
         \/ m.workspace # r.workspace /\ action = "read" /\ r.scope = "tenant"
         \/ m.workspace = r.workspace /\ here

Members == [user : {"u1", "u2"}, tenant : {"t1", "t2"}, workspace : {"w1", "w2"}, role : Range(Roles)]
Resources == [owner : {"u1", "u2"}, tenant : {"t1"}, workspace : {"w1"}, scope : Scopes]

-----------------------------------------------------------------------------
(* A search.  A fragment is its owner, its knowledge base, its document and *)
(* its two scores, whole numbers: "near" for the cosine, not found below    *)
(* the threshold, "words" for the share of the query.                       *)
Best(limit) == Max({Pool, 3 * limit})
Take(s, n) == SubSeq(s, 1, Min({n, Len(s)}))

(* Array.sort(): the highest score first, stable.                           *)
Ahead(score, i) == {j \in DOMAIN score : score[j] > score[i] \/ (score[j] = score[i] /\ j < i)}
SortedBy(score) ==
  [n \in 1 .. Cardinality(DOMAIN score) |-> CHOOSE i \in DOMAIN score : Cardinality(Ahead(score, i)) = n - 1]

(* Mutant of Visible: the bases asked for are not looked at.                *)
VisibleAnywhere(q) == {i \in DOMAIN q.chunks : checkAccess(q.member, q.chunks[i].resource, "read")}

(* retrieveVectors(): who asks sees what checkAccess() lets him read, in    *)
(* the bases asked for.                                                     *)
Visible(q) ==
  {i \in DOMAIN q.chunks : /\ checkAccess(q.member, q.chunks[i].resource, "read")
                           /\ q.chunks[i].base \in q.bases}

Semantic(q) ==
  Take(SortedBy([i \in {v \in Visible(q) : q.chunks[v].near >= Threshold} |-> q.chunks[i].near]), Best(q.limit))

(* KeywordRetriever.search() over the candidates.                           *)
Keyword(q) ==
  Take(SortedBy([i \in {v \in Visible(q) : q.chunks[v].words > 0} |-> q.chunks[i].words]), Best(q.limit))

(* 1 / (60 + rank + 1), over a common denominator, for at most four.        *)
Weight(list, i) == IF i \in Range(list) THEN (61 * 62 * 63 * 64) \div (60 + SelectInSeq(list, LAMBDA x : x = i)) ELSE 0
Fused(q, i) == Weight(Semantic(q), i) + Weight(Keyword(q), i)
Hybrid(q) ==
  Take(SortedBy([i \in Range(Semantic(q)) \cup Range(Keyword(q)) |-> Fused(q, i)]), q.limit)

Failed == <<0>>

(* A document in sight whose vectors are missing or of another model fails  *)
(* the search.                                                              *)
Retrieve(q) ==
  IF \E i \in Visible(q) : q.chunks[i].doc \in q.stale THEN Failed
  ELSE IF q.semantic THEN Take(Semantic(q), q.limit)
  ELSE Hybrid(q)

-----------------------------------------------------------------------------
(* A higher role never may less; who administers may write and delete, who  *)
(* writes may read; nothing crosses a tenant, and only a reading or the     *)
(* administrator of the tenant crosses a workspace: access.ts:80.           *)
AccessSound(m, r) ==
  /\ \A role \in Range(Roles), action \in Actions :
       checkAccess(m, r, action) /\ hasRoleAtLeast(role, m.role) => checkAccess([m EXCEPT !.role = role], r, action)
  /\ checkAccess(m, r, "administer") => checkAccess(m, r, "write")
  /\ checkAccess(m, r, "write") <=> checkAccess(m, r, "delete")
  /\ checkAccess(m, r, "write") => checkAccess(m, r, "read")
  /\ \A action \in Actions :
       checkAccess(m, r, action) =>
         /\ m.tenant = r.tenant
         /\ m.workspace = r.workspace \/ action = "read" \/ hasRoleAtLeast(m.role, "tenant_admin")

(* The answer to q says nothing of what its member cannot see: with those   *)
(* fragments taken out it is the same, failures included: retrieval.ts:89.  *)
Without(q) == [q EXCEPT !.chunks = [i \in Visible(q) |-> q.chunks[i]]]

(* No other fragment that is better by both scores than one returned is     *)
(* left out or put behind it.                                               *)
Dominates(q, i, j) ==
  /\ q.chunks[i].near > q.chunks[j].near /\ q.chunks[i].near >= Threshold
  /\ q.semantic \/ q.chunks[i].words > q.chunks[j].words

RetrievalSound(q) ==
  LET hits == Retrieve(q)
  IN  /\ hits = Retrieve(Without(q))
      /\ hits # Failed =>
           /\ Len(hits) <= q.limit /\ IsInjective(hits)
           /\ \A n \in DOMAIN hits :
                /\ q.member.tenant = q.chunks[hits[n]].resource.tenant
                /\ q.chunks[hits[n]].base \in q.bases
                /\ \A i \in Visible(q) :
                     Dominates(q, i, hits[n]) => \E k \in 1 .. n - 1 : hits[k] = i
=============================================================================
