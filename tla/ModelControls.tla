---------------------------- MODULE ModelControls ----------------------------
(***************************************************************************)
(* The gate in front of the model services (controlledProvider): at most   *)
(* MaxActive calls at a time, and in any minute at most Rpm requests and   *)
(* Tpm tokens, retries included, over restarts of the process.  A call of  *)
(* an evaluation also draws on the budget of its run.                      *)
(* The minute slides: Expire takes the oldest request out of it.           *)
(***************************************************************************)
EXTENDS Naturals, Sequences, FiniteSets

CONSTANTS
  Calls, Evaluated,       \* calls of the models; those of an evaluation run
  MaxActive, Rpm, Tpm,    \* the limits
  Need,                   \* tokens a request reserves: a bound of what it takes
  Budget,                 \* tokens of the evaluation run
  Retries,                \* further attempts of a request (3 in the code)
  MaxFaults, MaxRestarts  \* bounds: writes that fail, and restarts

VARIABLES
  at,        \* where each call is
  tries,     \* its attempts
  active,    \* calls that have a seat
  window,    \* the requests of the last minute, with their tokens
  disk,      \* what the budget file holds of them
  sent,      \* the requests of the last minute that went out
  enabled,   \* the models are not suspended
  used, exceeded,   \* of the evaluation budget
  spent,     \* tokens the calls of the evaluation took or may yet take
  faults, restarts

vars == <<at, tries, active, window, disk, sent, enabled, used, exceeded, spent, faults, restarts>>

Seated == {"window", "sent", "waits", "streams"}
Request(c) == [call |-> c, try |-> tries[c]]
Tokens(rows) ==
  LET sum[n \in 0 .. Len(rows)] == IF n = 0 THEN 0 ELSE sum[n - 1] + rows[n].tokens
  IN  sum[Len(rows)]

Init ==
  /\ at = [c \in Calls |-> "new"] /\ tries = [c \in Calls |-> 0]
  /\ active = 0 /\ window = <<>> /\ disk = <<>> /\ sent = {}
  /\ enabled = TRUE
  /\ used = 0 /\ exceeded = FALSE /\ spent = 0
  /\ faults = 0 /\ restarts = 0

-----------------------------------------------------------------------------
(* A seat is taken in the same step as it is found free.                    *)
Seat(c) ==
  /\ at[c] = "new" /\ active < MaxActive
  /\ active' = active + 1
  /\ at' = [at EXCEPT ![c] = "window"]
  /\ UNCHANGED <<tries, window, disk, sent, enabled, used, exceeded, spent, faults, restarts>>

(* The call ends, whichever way, and gives its seat back.                   *)
Ended(c) ==
  /\ at' = [at EXCEPT ![c] = "over"]
  /\ active' = IF at[c] \in Seated THEN active - 1 ELSE active

(* Cancelled, past its time, refused because the models are suspended, an   *)
(* error in the stream, or an end that tells no tokens.                     *)
GiveUp(c) ==
  /\ at[c] # "over" /\ Ended(c)
  /\ UNCHANGED <<tries, window, disk, sent, enabled, used, exceeded, spent, faults, restarts>>

Fits == Len(window) < Rpm /\ Tokens(window) + Need <= Tpm

Entered(c) == Append(window, [of |-> Request(c), tokens |-> Need])

Covered == ~exceeded /\ used + Need <= Budget
Reserve(c) == used' = IF c \in Evaluated THEN used + Need ELSE used
Spends(c) == spent' = IF c \in Evaluated THEN spent + Need ELSE spent

(* Mutant of Admit: the request goes out before it is written down.         *)
AdmitUnsaved(c) ==
  /\ at[c] = "window" /\ enabled /\ Fits
  /\ (c \in Evaluated => Covered) /\ Reserve(c) /\ Spends(c)
  /\ window' = Entered(c) /\ sent' = sent \cup {Request(c)}
  /\ at' = [at EXCEPT ![c] = "sent"]
  /\ UNCHANGED <<tries, active, disk, enabled, exceeded, faults, restarts>>

(* The request is entered and written down, then it goes out.               *)
Admit(c) ==
  /\ at[c] = "window" /\ enabled /\ Fits
  /\ c \in Evaluated => Covered
  /\ Reserve(c)
  /\ window' = Entered(c)
  /\ \/ /\ disk' = window' /\ sent' = sent \cup {Request(c)} /\ Spends(c)
        /\ at' = [at EXCEPT ![c] = "sent"]
        /\ UNCHANGED <<active, faults>>
     \/ /\ faults < MaxFaults /\ faults' = faults + 1
        /\ Ended(c) /\ UNCHANGED <<disk, sent, spent>>
  /\ UNCHANGED <<tries, enabled, exceeded, restarts>>

(* The budget of the evaluation does not cover it: the run is to stop.      *)
Overdrawn(c) ==
  /\ at[c] = "window" /\ enabled /\ Fits /\ c \in Evaluated /\ ~Covered
  /\ exceeded' = TRUE /\ Ended(c)
  /\ UNCHANGED <<tries, window, disk, sent, enabled, used, spent, faults, restarts>>

(* Only what has no answer yet is tried again, after a while.               *)
Refused(c) ==
  /\ at[c] = "sent"
  /\ IF tries[c] < Retries
     THEN /\ at' = [at EXCEPT ![c] = "waits"] /\ tries' = [tries EXCEPT ![c] = @ + 1]
          /\ spent' = IF c \in Evaluated THEN spent - Need ELSE spent
          /\ UNCHANGED active
     ELSE Ended(c) /\ UNCHANGED <<tries, spent>>
  /\ UNCHANGED <<window, disk, sent, enabled, used, exceeded, faults, restarts>>

Again(c) ==
  /\ at[c] = "waits" /\ at' = [at EXCEPT ![c] = "window"]
  /\ UNCHANGED <<tries, active, window, disk, sent, enabled, used, exceeded, spent, faults, restarts>>

Answered(c) ==
  /\ at[c] = "sent" /\ at' = [at EXCEPT ![c] = "streams"]
  /\ UNCHANGED <<tries, active, window, disk, sent, enabled, used, exceeded, spent, faults, restarts>>

(* The last event tells the tokens: the entry and the budget are corrected. *)
(* If the file cannot be written the call fails, with all that corrected.   *)
Done(c, n) ==
  /\ at[c] = "streams" /\ Ended(c)
  /\ window' = [i \in DOMAIN window |-> IF window[i].of = Request(c) THEN [window[i] EXCEPT !.tokens = n] ELSE window[i]]
  /\ IF c \in Evaluated
     THEN used' = used - Need + n /\ spent' = spent - Need + n
     ELSE UNCHANGED <<used, spent>>
  /\ \/ disk' = window' /\ UNCHANGED faults
     \/ faults < MaxFaults /\ faults' = faults + 1 /\ UNCHANGED disk
  /\ UNCHANGED <<tries, sent, enabled, exceeded, restarts>>

Suspend ==
  /\ enabled' = ~enabled
  /\ UNCHANGED <<at, tries, active, window, disk, sent, used, exceeded, spent, faults, restarts>>

(* A minute after it was entered a request is out of every window; the      *)
(* file, which may lack some, begins with it or has it no more.             *)
Expire ==
  /\ window # <<>>
  /\ LET old == Head(window).of IN
     /\ window' = Tail(window)
     /\ disk' = IF disk # <<>> /\ Head(disk).of = old THEN Tail(disk) ELSE disk
     /\ sent' = sent \ {old}
  /\ UNCHANGED <<at, tries, active, enabled, used, exceeded, spent, faults, restarts>>

(* The file is read again; the calls, and the run they belonged to, end.    *)
Restart ==
  /\ restarts < MaxRestarts /\ restarts' = restarts + 1
  /\ \E next \in SUBSET {c \in Calls : at[c] = "new"} :
       at' = [c \in Calls |-> IF c \in next THEN "new" ELSE "over"]
  /\ active' = 0 /\ window' = disk
  /\ used' = 0 /\ spent' = 0 /\ exceeded' = FALSE
  /\ UNCHANGED <<tries, disk, sent, enabled, faults>>

Next ==
  \/ \E c \in Calls :
       \/ Seat(c) \/ GiveUp(c) \/ Admit(c) \/ Overdrawn(c)
       \/ Refused(c) \/ Again(c) \/ Answered(c)
       \/ \E n \in 1 .. Need : Done(c, n)
  \/ Suspend \/ Expire \/ Restart

Spec == Init /\ [][Next]_vars

-----------------------------------------------------------------------------
(* What went out in the last minute, attempts of a retry and requests of    *)
(* before a restart included, is within the limits.                         *)
RateHeld ==
  /\ Cardinality(sent) <= Rpm
  /\ \A r \in sent : \E i \in DOMAIN window : window[i].of = r
  /\ Tokens(window) <= Tpm

(* A seat is taken by every call under way, and given back by all others.   *)
SeatsExact == active = Cardinality({c \in Calls : at[c] \in Seated}) /\ active <= MaxActive

(* The evaluation never starts what its budget does not cover, and counts   *)
(* no less than its calls took.                                             *)
BudgetHeld == spent <= used /\ used <= Budget

Safe == RateHeld /\ SeatsExact /\ BudgetHeld

(* The code does not have it: the reservation of an attempt that is tried   *)
(* again is replaced, not settled: model-controls.ts:38.                    *)
CountsWhatIsSpent == used = spent
=============================================================================
