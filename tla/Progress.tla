------------------------------- MODULE Progress -------------------------------
(***************************************************************************)
(* What is said of the progress of work: the events of the kernel as a     *)
(* task reports them, and those of sub-tasks run side by side.             *)
(***************************************************************************)
EXTENDS Integers, Sequences, FiniteSets, SequencesExt

(* A kernel event is [type, call, isError]; call 0 is one without its id.   *)
(* StepCounter: each tool call is a step, one not started is the current.   *)
Resolve(state, call) == IF call \in DOMAIN state.byCallId THEN state.byCallId[call] ELSE state.step

Phase(event) == IF event.type = "tool_update" THEN "progress" ELSE IF event.isError THEN "failed" ELSE "finished"

(* translate(): one task event or none, with the next number.               *)
Say(state, said) == [state EXCEPT !.seq = @ + 1, !.out = Append(@, said @@ [seq |-> state.seq + 1])]
Started(state, event) ==
  LET step == state.step + 1
  IN  Say([state EXCEPT !.step = step,
                        !.byCallId = [c \in DOMAIN @ \cup {event.call} |-> IF c = event.call THEN step ELSE @[c]]],
          [type |-> "step", step |-> step, call |-> event.call, phase |-> "started"])
translate(state, event) ==
  CASE event.type = "tool_start" -> IF event.call = 0 THEN state ELSE Started(state, event)
    [] event.type \in {"tool_update", "tool_end"} ->
         Say(state, [type |-> "step", step |-> Resolve(state, event.call), call |-> event.call, phase |-> Phase(event)])
    [] event.type = "usage" -> IF event.call = 0 THEN state ELSE Say(state, [type |-> "usage"])
    [] OTHER -> state

Translated(events) == FoldLeft(translate, [seq |-> 0, step |-> 0, byCallId |-> <<>>, out |-> <<>>], events)

(* Mutant of Resolve: whatever it is of, it is the current step.            *)
ResolveCurrent(state, call) == state.step

-----------------------------------------------------------------------------
(* fanOut(): as many workers as the limit and the tasks allow, each takes   *)
(* the next task when its own has ended.  A run is the order in which they  *)
(* end, each [index, outcome], of which "thrown" is a failure too.          *)
Workers(count, limit) == LET n == IF limit < 1 THEN 1 ELSE limit IN IF n < count THEN n ELSE count

Report(state, index, phase) == [state EXCEPT !.reports = Append(@, [index |-> index, phase |-> phase, done |-> state.done])]
Take(state, count) ==
  IF state.next > count THEN state
  ELSE Report([state EXCEPT !.next = @ + 1, !.running = @ \cup {state.next}], state.next, "started")
Status(outcome) == IF outcome = "succeeded" THEN "succeeded" ELSE "failed"
End(state, end, count) ==
  Take(Report([state EXCEPT !.running = @ \ {end.index}, !.done = @ + 1, !.results[end.index] = Status(end.outcome)],
              end.index, Status(end.outcome)), count)

Begun(count, limit) ==
  FoldLeft(LAMBDA state, n : Take(state, count),
           [next |-> 1, running |-> {}, done |-> 0, results |-> [i \in 1 .. count |-> "not run"], reports |-> <<>>],
           [n \in 1 .. Workers(count, limit) |-> n])
fanOut(count, limit, ends) == FoldLeft(LAMBDA state, end : End(state, end, count), Begun(count, limit), ends)

(* Orders in which tasks that are running, and only they, end.              *)
Possible(count, limit, ends) ==
  \A n \in DOMAIN ends : ends[n].index \in fanOut(count, limit, SubSeq(ends, 1, n - 1)).running

describeResults(results) ==
  [ok |-> Cardinality({i \in DOMAIN results : results[i] = "succeeded"}), unfinished |-> {i \in DOMAIN results : results[i] = "failed"}]
allSucceeded(results) == results # <<>> /\ \A i \in DOMAIN results : results[i] = "succeeded"

-----------------------------------------------------------------------------
(* Whatever the kernel sends, the numbers of a task have no gap, its steps  *)
(* count up, nothing names a step that did not start, and what is said of   *)
(* a call whose start was seen is said of the step of its last start        *)
(* (event-translator.ts:16, 75).                                            *)
TranslationSound(events) ==
  LET out == Translated(events).out
      starts == {n \in DOMAIN out : out[n].type = "step" /\ out[n].phase = "started"}
  IN  /\ \A n \in DOMAIN out : out[n].seq = n
      /\ \A n \in starts : out[n].step = Cardinality({m \in starts : m <= n})
      /\ \A n \in DOMAIN out : out[n].type = "step" =>
           LET earlier == {m \in starts : m <= n}
               own == {m \in earlier : out[m].call = out[n].call}
           IN  /\ out[n].step \in {out[m].step : m \in earlier} \cup (IF earlier = {} THEN {0} ELSE {})
               /\ own # {} => \E m \in own : out[m].step = out[n].step /\ \A k \in own : k <= m

(* Whatever the order in which sub-tasks end, no more than the limit run,   *)
(* each result is at its own place and each task is reported once started   *)
(* and once ended, with a count that never falls; one that throws stops no  *)
(* other, and when nothing runs any more all have run (fan-out.ts:97).      *)
FanOutSound(count, limit, ends) ==
  Possible(count, limit, ends) =>
    LET state == fanOut(count, limit, ends)
        of(i, phases) == {n \in DOMAIN state.reports : state.reports[n].index = i /\ state.reports[n].phase \in phases}
    IN  /\ Cardinality(state.running) <= Workers(count, limit)
        /\ \A n \in DOMAIN ends : state.results[ends[n].index] = Status(ends[n].outcome)
        /\ \A i \in 1 .. count :
             LET started == of(i, {"started"})
                 ended == of(i, {"succeeded", "failed"})
             IN  /\ Cardinality(ended) <= Cardinality(started) /\ Cardinality(started) <= 1
                 /\ i \in state.running <=> started # {} /\ ended = {}
                 /\ state.results[i] = "not run" <=> ended = {}
                 /\ \A a \in started, b \in ended : a < b
        /\ \A n \in 1 .. Len(state.reports) - 1 : state.reports[n].done <= state.reports[n + 1].done
        /\ state.running = {} =>
             /\ state.done = count
             /\ describeResults(state.results).ok + Cardinality(describeResults(state.results).unfinished) = count
             /\ allSucceeded(state.results) <=> count > 0 /\ describeResults(state.results).unfinished = {}

(* Not so: what is said of a step is said of the call that started it.  A   *)
(* call whose start was lost is taken for the current step                  *)
(* (event-translator.ts:87).                                                *)
StepsOfOneCall(events) ==
  LET out == Translated(events).out
  IN  \A n, m \in DOMAIN out :
        out[n].type = "step" /\ out[m].type = "step" /\ out[n].step = out[m].step => out[n].call = out[m].call
=============================================================================
