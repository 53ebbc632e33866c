-------------------------------- MODULE Assets --------------------------------
(***************************************************************************)
(* What a unit teaches the program: templates, the lessons learnt from the *)
(* changes it makes to what it was given, and the sources of a figure.  A  *)
(* text is [id, length], compared after norm(); a longer one is the set of *)
(* the texts it contains.                                                  *)
(***************************************************************************)
EXTENDS Integers, Sequences, FiniteSets, SequencesExt

CONSTANTS None, MAX_INJECTED_LESSONS

Says(whole, text) == text.length = 0 \/ text \in whole

-----------------------------------------------------------------------------
(* RevisionKind.  A reason makes any change worth learning, and a short one *)
(* of words is taken for a slip of the pen.                                 *)
RevisionKind == {"wording", "structure", "format", "removal", "addition"}
isWorthLearning(r) ==
  /\ r.before # r.after
  /\ \/ r.reason
     \/ r.kind \in {"structure", "format"}
     \/ r.kind = "removal" /\ r.before.length >= 4
     \/ r.kind = "addition" /\ r.after.length >= 4
     \/ r.kind = "wording" /\ r.before.length >= 2 /\ r.after.length >= 2

lessonKey(r) == <<r.kind, r.target, r.before, r.after>>

(* MemoryLessonStore: the lessons of a tenant, a Map by their id, which is  *)
(* the key of the first change they were learnt from.                       *)
Id(lesson) == lessonKey(Head(lesson.evidence))
upsert(store, lesson) ==
  LET at == {i \in DOMAIN store : Id(store[i]) = Id(lesson)}
  IN  IF at = {} THEN Append(store, lesson) ELSE [i \in DOMAIN store |-> IF i \in at THEN lesson ELSE store[i]]

Heavier(a, b) == a.timesObserved > b.timesObserved \/ (a.timesObserved = b.timesObserved /\ a.updatedAt > b.updatedAt)
list(store, scenario) ==
  LET of == SelectSeq(store, LAMBDA l : l.scenario = scenario)
      before(i, j) == Heavier(of[i], of[j]) \/ (~Heavier(of[j], of[i]) /\ i < j)
      order == SetToSortSeq(DOMAIN of, before)
  IN  [n \in DOMAIN order |-> of[order[n]]]

(* learnFromRevisions(): "known" is what was listed at the start and what   *)
(* was created since, not what was updated.                                 *)
Learn(state, r, scenario, now) ==
  LET prior == {l \in state.known : Id(l) = lessonKey(r)}
      new == [scenario |-> scenario, evidence |-> <<r>>, timesObserved |-> 1, updatedAt |-> now]
      again(l) == [l EXCEPT !.timesObserved = @ + 1, !.evidence = Append(@, r), !.updatedAt = now]
  IN  IF ~isWorthLearning(r) THEN [state EXCEPT !.skipped = @ + 1]
      ELSE IF prior = {} THEN [state EXCEPT !.store = upsert(@, new), !.known = @ \cup {new}]
      ELSE [state EXCEPT !.store = upsert(@, again(CHOOSE l \in prior : TRUE))]

learnFromRevisions(store, revisions, scenario, now) ==
  FoldLeft(LAMBDA state, r : Learn(state, r, scenario, now),
           [store |-> store, known |-> Range(list(store, scenario)), skipped |-> 0], revisions)

(* Batches of changes, each of a task of a scenario, in the order they came.*)
Taught(batches) ==
  FoldLeft(LAMBDA store, n : learnFromRevisions(store, batches[n].revisions, batches[n].scenario, n).store,
           <<>>, [n \in DOMAIN batches |-> n])

compileLessons(lessons) == SubSeq(lessons, 1, IF Len(lessons) < MAX_INJECTED_LESSONS THEN Len(lessons) ELSE MAX_INJECTED_LESSONS)

findRepeatedMistakes(output, lessons) ==
  SelectSeq(lessons, LAMBDA l :
    LET r == Head(l.evidence)
    IN  r.kind # "addition" /\ r.before.length > 0 /\ Says(output, r.before) /\ ~Says(output, r.after))

(* Mutant of findRepeatedMistakes: what was corrected is not looked for.    *)
findRepeatedMistakesBefore(output, lessons) ==
  SelectSeq(lessons, LAMBDA l :
    LET r == Head(l.evidence)
    IN  r.kind # "addition" /\ r.before.length > 0 /\ Says(output, r.before))

-----------------------------------------------------------------------------
(* Templates: [scenario, enabled, sections, columns], each section and      *)
(* column [name, required].                                                 *)
listTemplates(templates, scenario) ==
  SelectSeq(templates, LAMBDA t : t.scenario = None \/ (scenario # None /\ t.scenario = scenario))
resolveTemplate(templates, scenario) ==
  LET enabled == SelectSeq(templates, LAMBDA t : t.enabled)
      own == SelectSeq(enabled, LAMBDA t : t.scenario = scenario)
      general == SelectSeq(enabled, LAMBDA t : t.scenario = None)
  IN  IF own # <<>> THEN {Head(own)} ELSE IF general # <<>> THEN {Head(general)} ELSE {}

Names(parts) == {parts[i].name : i \in DOMAIN parts}
Required(parts) == {parts[i].name : i \in {j \in DOMAIN parts : parts[j].required}}

(* compileTemplate(): what the model is told to write.                      *)
compileTemplate(t) ==
  [required |-> Required(t.sections), optional |-> Names(t.sections) \ Required(t.sections),
   columns |-> [i \in DOMAIN t.columns |-> t.columns[i].name]]

(* checkTemplateCompliance(): a title is found inside a longer heading; a   *)
(* column that is too many is a warning.                                    *)
checkTemplateCompliance(t, output) ==
  [errors |-> {<<"section", s>> : s \in {n \in Required(t.sections) : ~\E h \in output.headings : n \in h}}
              \cup {<<"column", c>> : c \in Required(t.columns) \ Range(output.columns)},
   warnings |-> IF t.columns = <<>> THEN {} ELSE Range(output.columns) \ Names(t.columns)]

(* composeAssetContext(): template, definitions and lessons, of which each  *)
(* may be missing, and what goes before what if they disagree.  That the    *)
(* lessons give way to the task at hand is a sentence of theirs.            *)
composeAssetContext(parts) ==
  [blocks |-> SelectSeq(<<"template", "definitions", "lessons">>, LAMBDA p : p \in parts),
   before |-> (IF "lessons" \in parts THEN {<<"task", "lessons">>} ELSE {})
              \cup (IF "lessons" \in parts /\ parts # {"lessons"}
                    THEN {<<"template", "lessons">>, <<"definitions", "lessons">>, <<"lessons", "task">>} ELSE {})]

(* compileDefinitions(): those the task names, all if it is not known.      *)
compileDefinitions(definitions, relevantTo) ==
  IF relevantTo = None THEN definitions ELSE SelectSeq(definitions, LAMBDA d : d \in relevantTo)

-----------------------------------------------------------------------------
(* ProvenanceBuilder: calls are <<"input", source>> and <<"lineage", entry>>*)
(* of [target, sources]; a source is [kind, id, locator].                   *)
addInput(inputs, source) == IF source \in Range(inputs) THEN inputs ELSE Append(inputs, source)
addInputs(inputs, sources) == FoldLeft(addInput, inputs, sources)
build(calls) ==
  FoldLeft(LAMBDA p, call :
             IF call[1] = "input" THEN [p EXCEPT !.inputs = addInput(@, call[2])]
             ELSE [inputs |-> addInputs(p.inputs, call[2].sources), lineage |-> Append(p.lineage, call[2])],
           [inputs |-> <<>>, lineage |-> <<>>], calls)

traceTarget(p, target) ==
  LET of == SelectSeq(p.lineage, LAMBDA l : l.target = target)
  IN  IF of = <<>> THEN {} ELSE {Head(of)}
findImpacted(p, id) == SelectSeq(p.lineage, LAMBDA l : \E s \in Range(l.sources) : s.id = id)
validateProvenance(p) ==
  (IF p.inputs = <<>> THEN {<<"no inputs">>} ELSE {})
  \cup {<<"no sources", l.target>> : l \in {e \in Range(p.lineage) : e.sources = <<>>}}
  \cup UNION {{<<"unknown", l.target, s>> : s \in {t \in Range(l.sources) : ~\E i \in Range(p.inputs) : i.id = t.id /\ i.kind = t.kind}} :
                l \in Range(p.lineage)}

-----------------------------------------------------------------------------
(* What was corrected is not done again: after any batches a lesson of this *)
(* scenario stands for changes that were all the same and worth learning,   *)
(* no more often than they were made, and weighs no less than before; the   *)
(* last batch of it is reported of an output that repeats it, and only what *)
(* is not corrected is; and of those injected none weighs less than one     *)
(* left out (lessons.ts:6, 255).                                            *)
LessonsSound(batches, output) ==
  LET last == batches[Len(batches)]
      lessons == list(Taught(batches), last.scenario)
      earlier == list(Taught(Front(batches)), last.scenario)
      made(r) == {<<n, i>> \in (DOMAIN batches) \X (1 .. 3) :
                    i \in DOMAIN batches[n].revisions /\ lessonKey(batches[n].revisions[i]) = lessonKey(r)}
      repeated == findRepeatedMistakes(output, lessons)
  IN  /\ \A l \in Range(lessons) :
           /\ l.timesObserved = Len(l.evidence)
           /\ \A r \in Range(l.evidence) : lessonKey(r) = Id(l) /\ isWorthLearning(r)
           /\ l.timesObserved <= Cardinality(made(Head(l.evidence)))
      /\ \A l \in Range(earlier) : \E m \in Range(lessons) : Id(m) = Id(l) /\ m.timesObserved >= l.timesObserved
      /\ \A r \in Range(last.revisions) :
           /\ isWorthLearning(r) => \E l \in Range(lessons) : Id(l) = lessonKey(r)
           /\ isWorthLearning(r) /\ r.kind \notin {"addition", "removal"} /\ r.after.length > 0
              /\ Says(output, r.before) /\ r.before.length > 0 /\ ~Says(output, r.after)
              => \E l \in Range(repeated) : Id(l) = lessonKey(r)
           /\ Says(output, r.after) => ~\E l \in Range(repeated) : Id(l) = lessonKey(r)
      /\ \A l \in Range(lessons) \ Range(compileLessons(lessons)) : \A m \in Range(compileLessons(lessons)) :
           m.timesObserved >= l.timesObserved

(* A template that was switched off is not used, one of the scenario before *)
(* a general one, whichever way they are listed; what is written just as    *)
(* the template says passes, and what passes has all that was called        *)
(* required (assets.ts:135, 161, 249).                                      *)
TemplatesSound(templates, scenario, output) ==
  /\ resolveTemplate(templates, scenario) = resolveTemplate(listTemplates(templates, scenario), scenario)
  /\ \A t \in resolveTemplate(templates, scenario) :
       LET asked == compileTemplate(t)
           written == [headings |-> {{n} : n \in asked.required}, columns |-> asked.columns]
           check == checkTemplateCompliance(t, output)
       IN  /\ t.enabled /\ t.scenario \in {scenario, None}
           /\ t.scenario = None => \A i \in DOMAIN templates : templates[i].scenario = scenario => ~templates[i].enabled
           /\ checkTemplateCompliance(t, written) = [errors |-> {}, warnings |-> {}]
           /\ check.errors = {} => asked.required \subseteq UNION output.headings
           /\ check.errors = {} /\ check.warnings = {} /\ asked.columns # <<>>
              => Range(output.columns) \subseteq Range(asked.columns)

(* A figure can be asked about: an artifact that was built is incomplete    *)
(* just when a figure has no source or there is none at all, every target   *)
(* that was given is found, and each of its sources leads back to it        *)
(* (provenance.ts:153, 221).                                                *)
ProvenanceSound(calls) ==
  LET p == build(calls)
      given == {calls[i][2] : i \in {j \in DOMAIN calls : calls[j][1] = "lineage"}}
  IN  /\ validateProvenance(p) = {} <=> p.inputs # <<>> /\ \A e \in given : e.sources # <<>>
      /\ Cardinality(Range(p.inputs)) = Len(p.inputs)
      /\ \A e \in given : \E f \in traceTarget(p, e.target) :
           \A s \in Range(f.sources) : f \in Range(findImpacted(p, s.id)) /\ s \in Range(p.inputs)

(* Not so: a change counts as often as it was made (lessons.ts:85).  Of     *)
(* those repeated in one batch only one counts beside what was known.       *)
EachCounts(batches) ==
  \A l \in Range(Taught(<<Head(batches)>>)) :
    l.timesObserved = Len(SelectSeq(Head(batches).revisions, LAMBDA r : lessonKey(r) = Id(l)))

(* Not so: scenarios do not touch each other's lessons (lessons.ts:75).  A  *)
(* change made in both moves the lesson to the last one.                    *)
ScenariosApart(batches) ==
  LET last == batches[Len(batches)]
  IN  \A s \in {"s1", "s2"} \ {last.scenario} : list(Taught(batches), s) = list(Taught(Front(batches)), s)

(* Not so: what was removed and is there again is reported.  The empty text *)
(* that took its place is always there (lessons.ts:317).                    *)
RemovalsReported(batches, output) ==
  LET last == batches[Len(batches)]
  IN  \A r \in Range(last.revisions) :
        r.kind = "removal" /\ r.after.length = 0 /\ isWorthLearning(r) /\ Says(output, r.before)
        => \E l \in Range(findRepeatedMistakes(output, list(Taught(batches), last.scenario))) : Id(l) = lessonKey(r)

(* Not so: an output that passes has its columns in the order the model was *)
(* told to keep (assets.ts:179).                                            *)
ColumnsInOrder(t, output) ==
  LET check == checkTemplateCompliance(t, output)
  IN  check.errors = {} /\ check.warnings = {} /\ Len(output.columns) = Len(t.columns)
      => output.columns = compileTemplate(t).columns

(* Not so: what goes before what is an order.  The lessons give way to the  *)
(* task (lessons.ts:284), and the task to the lessons (assets.ts:321).      *)
PrecedenceIsOrder(parts) ==
  \A pair \in composeAssetContext(parts).before : <<pair[2], pair[1]>> \notin composeAssetContext(parts).before

(* Not so: a target is traced to all its sources (provenance.ts:153).  Of   *)
(* two entries of a target the first one answers.                           *)
TracedToAll(calls) ==
  LET p == build(calls)
  IN  \A l \in Range(p.lineage) : \A s \in Range(l.sources) :
        \E e \in traceTarget(p, l.target) : s \in Range(e.sources)

(* Not so: what a source touched is what used it (provenance.ts:162).  The  *)
(* kind of a source is not looked at, and its id is one per kind.           *)
ImpactExact(calls) ==
  LET p == build(calls)
  IN  \A s \in Range(p.inputs) : \A l \in Range(findImpacted(p, s.id)) : \E t \in Range(l.sources) : t.kind = s.kind /\ t.id = s.id
=============================================================================
