--------------------------- MODULE ActionDecision ---------------------------
(***************************************************************************)
(* What a runner promises about actions that need the user's consent: an   *)
(* action gets one verdict, and the verdict is "yes" only after a user     *)
(* confirmed it while it was open and in time, and never once the runner   *)
(* has been cancelled.                                                     *)
(***************************************************************************)
CONSTANTS Actions

VARIABLES
  verdict,   \* what the waiting tool call is told
  consent,   \* actions a user confirmed in time
  overdue,   \* actions whose deadline has passed
  over       \* the runner was cancelled

vars == <<verdict, consent, overdue, over>>

Init ==
  /\ verdict = [a \in Actions |-> "none"]
  /\ consent = {} /\ overdue = {} /\ over = FALSE

Ask(a) ==
  /\ verdict[a] = "none"
  /\ verdict' = [verdict EXCEPT ![a] = "open"]
  /\ UNCHANGED <<consent, overdue, over>>

\* A confirmation in time; what fails on its way is a no.
Consent(a) ==
  /\ verdict[a] = "open" /\ a \notin overdue /\ ~over
  /\ consent' = consent \cup {a}
  /\ verdict' \in {verdict, [verdict EXCEPT ![a] = "no"]}
  /\ UNCHANGED <<overdue, over>>

Yes(a) ==
  /\ verdict[a] = "open" /\ a \in consent /\ ~over
  /\ verdict' = [verdict EXCEPT ![a] = "yes"]
  /\ UNCHANGED <<consent, overdue, over>>

No(a) ==
  /\ verdict[a] \in {"none", "open"}
  /\ verdict' = [verdict EXCEPT ![a] = "no"]
  /\ UNCHANGED <<consent, overdue, over>>

Pass(a) ==
  /\ overdue' = overdue \cup {a}
  /\ UNCHANGED <<verdict, consent, over>>

\* Cancellation may settle open actions at once.
Cancel ==
  /\ over' = TRUE
  /\ \E refused \in SUBSET {a \in Actions : verdict[a] = "open"} :
       verdict' = [a \in Actions |-> IF a \in refused THEN "no" ELSE verdict[a]]
  /\ UNCHANGED <<consent, overdue>>

Next == Cancel \/ \E a \in Actions : Ask(a) \/ Consent(a) \/ Yes(a) \/ No(a) \/ Pass(a)

Spec == Init /\ [][Next]_vars
=============================================================================
