--------------------------- MODULE MCAutomations ---------------------------
(***************************************************************************)
(* Instances of Automations for TLC: plans p1, p2 of different schedules,  *)
(* events e1, e2 that come through connectors of different kinds.          *)
(***************************************************************************)
EXTENDS Automations, TLC

CONSTANTS p1, p2, e1, e2

KindOf == [x \in Plans |-> IF x = p1 THEN "every" ELSE "cron"]
KindCron == [x \in Plans |-> "cron"]
KindOnce == [x \in Plans |-> IF x = p1 THEN "every" ELSE "once"]
PeriodOf == [x \in Plans |-> IF x = p1 THEN 1 ELSE 2]
PeriodOne == [x \in Plans |-> 1]
Targets == [x \in Plans \cup Events |-> IF x = e1 THEN "native" ELSE "webhook"]
Natives == [x \in Plans \cup Events |-> "native"]
EventTargets == [x \in Plans \cup Events |-> IF x \in Events THEN "webhook" ELSE "nowhere"]
NoTargets == [x \in Plans \cup Events |-> "nowhere"]
=============================================================================
