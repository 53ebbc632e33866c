-------------------------- MODULE AdmissionProofs --------------------------
(***************************************************************************)
(* Theorems about Admission, for any calls, keys, conversations and        *)
(* limits, with every fault allowed; the last one excludes one of them.    *)
(*                                                                         *)
(* The argument for one task per key: the receipt of a key is stored       *)
(* before anything is created and names its call for ever, and only that   *)
(* call goes on (KeyOwned).  Those who wait for a submission, and those    *)
(* answered from a receipt, asked for the same (JoinedSame, StoredSame).   *)
(* For conversations: a reservation covers a submission until its task is  *)
(* known, so the two checks of guardedSubmit together see everyone         *)
(* (Reserved, Exclusive).                                                  *)
(* For the queue: a configuration is applied only when nobody is inside,   *)
(* so whoever is inside is in the current queue and has one place there, a *)
(* seat that is counted or one position in the line (Places, OnePlaceEach, *)
(* Counted), and runs under the configuration it was prepared with         *)
(* (Versions).                                                             *)
(***************************************************************************)
EXTENDS Admission, FiniteSetTheorems, TLAPS

CallStates == {"none", "joined", "creating", "preparing", "enrolled", "made", "answered"}
TaskStates == {"none", "queued", "running", "over", "interrupted"}
DriverStates == {"none", "waiting", "starting", "executing", "ended", "leaving", "closed"}
Queue == [limit : Nat, active : Int, waiting : Seq(Calls)]
Working == {"creating", "preparing", "enrolled", "made"}
Begun == {"queued", "running", "over"}

RegistryType ==
  /\ receipts \in [Keys -> Receipt] /\ inFlight \in [Keys -> Calls \cup {NoKey}]
  /\ call \in [Calls -> CallStates] /\ task \in [Calls -> TaskStates]
  /\ answer \in [Calls -> Calls \cup {"none", "refused", "lost"}]

\* The receipt of a key names the one call that may create, or created, a task.
KeyOwned ==
  \A c \in Calls :
    KeyOf[c] # NoKey /\ (task[c] # "none" \/ call[c] \in Working) =>
      receipts[KeyOf[c]].state # "absent" /\ receipts[KeyOf[c]].by = c

\* A key in flight is the key of a call that is being worked on.
Flying ==
  \A k \in Keys : inFlight[k] # NoKey =>
    inFlight[k] \in Calls /\ KeyOf[inFlight[k]] = k /\ call[inFlight[k]] \in Working

JoinedSame ==
  \A c \in Calls : call[c] = "joined" =>
    /\ KeyOf[c] \in Keys /\ inFlight[KeyOf[c]] # NoKey
    /\ PayloadOf[c] = PayloadOf[inFlight[KeyOf[c]]]

\* A receipt of success names a task of its key.
StoredSame ==
  \A k \in Keys : receipts[k].state = "submitted" =>
    /\ receipts[k].by \in Calls /\ KeyOf[receipts[k].by] = k
    /\ task[receipts[k].by] # "none"

Enrolled == \A c \in Calls : call[c] \in {"enrolled", "made"} => task[c] \in Begun

RegistryInv ==
  /\ RegistryType /\ KeyOwned /\ Flying /\ JoinedSame /\ StoredSame /\ Enrolled
  /\ AnswerMatches

\* Tasks only move on: none appears, none disappears, none is taken back.
TaskKept ==
  /\ task' \in [Calls -> TaskStates]
  /\ \A t \in Calls : /\ (task'[t] = "none") <=> (task[t] = "none")
                      /\ task[t] \in Begun => task'[t] \in Begun

-----------------------------------------------------------------------------
\* A step that only moves tasks on keeps the registry's invariant.
LEMMA TaskStep ==
  ASSUME RegistryInv, TaskKept, UNCHANGED <<registry, call, answer>>
  PROVE  RegistryInv'
<1> USE DEF RegistryInv, TaskKept, registry
<1>1. RegistryType' BY DEF RegistryType
<1>2. KeyOwned' BY DEF KeyOwned
<1>3. Flying' /\ JoinedSame' BY DEF Flying, JoinedSame
<1>4. StoredSame' BY DEF StoredSame
<1>5. Enrolled' BY DEF Enrolled
<1>6. AnswerMatches' BY DEF AnswerMatches
<1> QED BY <1>1, <1>2, <1>3, <1>4, <1>5, <1>6

\* A submission that moves on inside its call keeps the registry's invariant.
LEMMA CallStep ==
  ASSUME RegistryInv, TaskKept, UNCHANGED <<registry, answer>>,
         NEW c \in Calls, call[c] \in Working, NEW s \in Working,
         call' = [call EXCEPT ![c] = s],
         s \in {"enrolled", "made"} => task'[c] \in Begun
  PROVE  RegistryInv'
<1> USE DEF RegistryInv, TaskKept, registry
<1> DEFINE now(d) == IF d = c THEN s ELSE call[d]
<1>0. call \in [Calls -> CallStates] /\ call' = [d \in Calls |-> now(d)]
  BY DEF RegistryType
<1>1. \A d \in Calls : call'[d] = now(d)
  BY <1>0
<1> HIDE DEF now
<1>2. \A d \in Calls : /\ call'[d] \in Working <=> call[d] \in Working
                       /\ call'[d] = "joined" <=> call[d] = "joined"
                       /\ call'[d] \in {"enrolled", "made"} =>
                            \/ d = c /\ call'[d] = s
                            \/ call[d] \in {"enrolled", "made"}
  BY <1>1 DEF now, Working
<1>3. RegistryType'
  <2> call' \in [Calls -> CallStates] BY <1>0 DEF now, CallStates, Working
  <2> QED BY DEF RegistryType
<1>4. KeyOwned' BY <1>2 DEF KeyOwned
<1>5. Flying' BY <1>2 DEF Flying
<1>6. JoinedSame' BY <1>2 DEF JoinedSame
<1>7. StoredSame' BY DEF StoredSame
<1>8. Enrolled' BY <1>2 DEF Enrolled
<1>9. AnswerMatches' BY DEF AnswerMatches
<1> QED BY <1>3, <1>4, <1>5, <1>6, <1>7, <1>8, <1>9

-----------------------------------------------------------------------------
\* Everyone answered together asked for the same request.
LEMMA GroupSame ==
  ASSUME RegistryInv, NEW c \in Calls, call[c] \in Working, NEW d \in Group(c)
  PROVE  d = c \/ (KeyOf[d] = KeyOf[c] /\ PayloadOf[d] = PayloadOf[c])
<1> SUFFICES ASSUME d # c
             PROVE  KeyOf[d] = KeyOf[c] /\ PayloadOf[d] = PayloadOf[c]
  OBVIOUS
<1>1. d \in Calls /\ call[d] = "joined" /\ KeyOf[d] = KeyOf[c] /\ KeyOf[c] # NoKey
  BY DEF Group
<1>2. KeyOf[d] \in Keys /\ inFlight[KeyOf[d]] # NoKey
      /\ PayloadOf[d] = PayloadOf[inFlight[KeyOf[d]]]
  BY <1>1 DEF RegistryInv, JoinedSame
<1> DEFINE e == inFlight[KeyOf[d]]
<1>3. e \in Calls /\ KeyOf[e] = KeyOf[d] /\ call[e] \in Working
  BY <1>2 DEF RegistryInv, Flying
<1>4. receipts[KeyOf[c]].by = c /\ receipts[KeyOf[e]].by = e
  BY <1>1, <1>3 DEF RegistryInv, KeyOwned
<1> QED BY <1>1, <1>2, <1>3, <1>4

\* Who is in the group of a settled call, and what the reply leaves of the others.
LEMMA ReplyEffect ==
  ASSUME RegistryInv, NEW c \in Calls, call[c] \in Working,
         NEW a \in Calls \cup {"refused"}, Reply(c, a)
  PROVE  /\ call' \in [Calls -> CallStates]
         /\ answer' \in [Calls -> Calls \cup {"none", "refused", "lost"}]
         /\ \A d \in Calls : \/ /\ call'[d] = "answered" /\ answer'[d] = a /\ d \in Group(c)
                             \/ /\ call'[d] = call[d] /\ answer'[d] = answer[d] /\ d \notin Group(c)
         /\ c \in Group(c)
<1>1. c \in Group(c)
  BY DEF Group
<1>2. /\ call' = [d \in Calls |-> IF d \in Group(c) THEN "answered" ELSE call[d]]
      /\ answer' = [d \in Calls |-> IF d \in Group(c) THEN a ELSE answer[d]]
  BY DEF Reply
<1>3. /\ call \in [Calls -> CallStates]
      /\ answer \in [Calls -> Calls \cup {"none", "refused", "lost"}]
  BY DEF RegistryInv, RegistryType
<1>4. call' \in [Calls -> CallStates]
  BY <1>2, <1>3 DEF CallStates
<1>5. answer' \in [Calls -> Calls \cup {"none", "refused", "lost"}]
  BY <1>2, <1>3
<1>6. \A d \in Group(c) \cap Calls : call'[d] = "answered" /\ answer'[d] = a
  BY <1>2
<1>7. \A d \in Calls \ Group(c) : call'[d] = call[d] /\ answer'[d] = answer[d]
  BY <1>2
<1> QED BY <1>1, <1>4, <1>5, <1>6, <1>7

\* The end of a submission keeps the registry's invariant.
LEMMA SettleStep ==
  ASSUME AdmissionAssumption, RegistryInv, TaskKept,
         NEW c \in Calls, call[c] \in Working,
         NEW a \in {"refused", c}, a = c => task[c] \in Begun,
         Settle(c, a)
  PROVE  RegistryInv'
<1>0. "refused" \notin Calls /\ KeyOf \in [Calls -> Keys \cup {NoKey}] /\ NoKey \notin Keys
  BY DEF AdmissionAssumption
<1>1. CASE KeyOf[c] = NoKey
  <2>1. Reply(c, a) /\ UNCHANGED <<receipts, inFlight>>
    BY <1>1 DEF Settle, registry
  <2>2. Group(c) = {c}
    BY <1>1 DEF Group
  <2>3. /\ call' \in [Calls -> CallStates]
        /\ answer' \in [Calls -> Calls \cup {"none", "refused", "lost"}]
        /\ \A d \in Calls : \/ /\ call'[d] = "answered" /\ answer'[d] = a /\ d = c
                            \/ /\ call'[d] = call[d] /\ answer'[d] = answer[d] /\ d # c
    BY <2>1, <2>2, ReplyEffect
  <2>4. RegistryType'
    BY <2>1, <2>3 DEF RegistryInv, RegistryType, TaskKept
  <2>5. KeyOwned'
    BY <2>1, <2>3 DEF RegistryInv, KeyOwned, TaskKept, Working
  <2>6. Flying'
    BY <2>1, <2>3, <1>0, <1>1 DEF RegistryInv, Flying
  <2>7. JoinedSame'
    BY <2>1, <2>3 DEF RegistryInv, JoinedSame
  <2>8. StoredSame'
    BY <2>1 DEF RegistryInv, StoredSame, TaskKept, RegistryType
  <2>9. Enrolled'
    BY <2>3 DEF RegistryInv, Enrolled, TaskKept
  <2>10. AnswerMatches'
    BY <2>3, <1>0 DEF RegistryInv, AnswerMatches, TaskKept, Begun
  <2> QED BY <2>4, <2>5, <2>6, <2>7, <2>8, <2>9, <2>10 DEF RegistryInv
<1>2. CASE KeyOf[c] # NoKey
  <2> DEFINE k == KeyOf[c]
  <2>0. k \in Keys
    BY <1>0, <1>2
  <2>1. PICK ok \in BOOLEAN :
          /\ inFlight' = [inFlight EXCEPT ![k] = NoKey]
          /\ receipts' = IF ok
               THEN [receipts EXCEPT ![k].state = IF a = "refused" THEN "failed" ELSE "submitted"]
               ELSE receipts
          /\ Reply(c, IF ok THEN a ELSE "refused")
    BY <1>2 DEF Settle, Writes
  <2> DEFINE b == IF ok THEN a ELSE "refused"
  <2>2. /\ call' \in [Calls -> CallStates]
        /\ answer' \in [Calls -> Calls \cup {"none", "refused", "lost"}]
        /\ \A d \in Calls : \/ /\ call'[d] = "answered" /\ answer'[d] = b /\ d \in Group(c)
                            \/ /\ call'[d] = call[d] /\ answer'[d] = answer[d] /\ d \notin Group(c)
        /\ c \in Group(c)
    BY <2>1, ReplyEffect
  <2>3. /\ inFlight' \in [Keys -> Calls \cup {NoKey}] /\ inFlight'[k] = NoKey
        /\ \A j \in Keys : j # k => inFlight'[j] = inFlight[j]
    BY <2>0, <2>1 DEF RegistryInv, RegistryType
  <2>4. receipts[k] \in Receipt /\ receipts[k].by = c /\ receipts[k].state # "absent"
    BY <2>0, <1>2 DEF RegistryInv, RegistryType, KeyOwned
  <2>5. /\ receipts' \in [Keys -> Receipt]
        /\ \A j \in Keys : /\ receipts'[j].by = receipts[j].by
                           /\ receipts[j].state # "absent" => receipts'[j].state # "absent"
                           /\ j # k => receipts'[j] = receipts[j]
        /\ receipts'[k].state = "submitted" => a = c \/ receipts'[k] = receipts[k]
    BY <2>0, <2>1, <2>4 DEF RegistryInv, RegistryType, Receipt
  <2>6. RegistryType'
    BY <2>2, <2>3, <2>5 DEF RegistryType, TaskKept
  <2>7. KeyOwned'
    BY <2>2, <2>5, <1>0 DEF RegistryInv, KeyOwned, TaskKept, Working
  <2>8. Flying'
    <3> SUFFICES ASSUME NEW j \in Keys, inFlight'[j] # NoKey
                 PROVE  inFlight'[j] \in Calls /\ KeyOf[inFlight'[j]] = j
                        /\ call'[inFlight'[j]] \in Working
      BY DEF Flying
    <3>1. j # k /\ inFlight'[j] = inFlight[j]
      BY <2>3
    <3>2. inFlight[j] \in Calls /\ KeyOf[inFlight[j]] = j /\ call[inFlight[j]] \in Working
      BY <3>1 DEF RegistryInv, Flying
    <3>3. inFlight[j] \notin Group(c)
      BY <3>1, <3>2 DEF Group
    <3> QED BY <3>1, <3>2, <3>3, <2>2
  <2>9. JoinedSame'
    <3> SUFFICES ASSUME NEW d \in Calls, call'[d] = "joined"
                 PROVE  /\ KeyOf[d] \in Keys /\ inFlight'[KeyOf[d]] # NoKey
                        /\ PayloadOf[d] = PayloadOf[inFlight'[KeyOf[d]]]
      BY DEF JoinedSame
    <3>1. call[d] = "joined" /\ d \notin Group(c)
      BY <2>2
    <3>2. KeyOf[d] # k
      BY <3>1, <1>2 DEF Group
    <3> QED BY <3>1, <3>2, <2>3 DEF RegistryInv, JoinedSame
  <2>10. StoredSame'
    <3> SUFFICES ASSUME NEW j \in Keys, receipts'[j].state = "submitted"
                 PROVE  /\ receipts'[j].by \in Calls /\ KeyOf[receipts'[j].by] = j
                        /\ task'[receipts'[j].by] # "none"
      BY DEF StoredSame
    <3>1. CASE receipts'[j] = receipts[j]
      BY <3>1 DEF RegistryInv, StoredSame, TaskKept
    <3>2. CASE receipts'[j] # receipts[j]
      <4>1. j = k /\ a = c
        BY <3>2, <2>5
      <4> QED BY <4>1, <2>4, <2>5, <2>0 DEF TaskKept, Begun
    <3> QED BY <3>1, <3>2
  <2>11. Enrolled'
    BY <2>2 DEF RegistryInv, Enrolled, TaskKept
  <2>12. AnswerMatches'
    <3> SUFFICES ASSUME NEW d \in Calls, answer'[d] \in Calls
                 PROVE  /\ task'[answer'[d]] # "none"
                        /\ answer'[d] = d \/ (KeyOf[d] = KeyOf[answer'[d]]
                                              /\ PayloadOf[d] = PayloadOf[answer'[d]])
      BY DEF AnswerMatches
    <3>1. CASE d \in Group(c)
      <4>1. answer'[d] = c /\ a = c
        BY <3>1, <2>2, <1>0
      <4> QED BY <4>1, <3>1, GroupSame DEF TaskKept, Begun
    <3>2. CASE d \notin Group(c)
      BY <3>2, <2>2 DEF RegistryInv, AnswerMatches, TaskKept
    <3> QED BY <3>1, <3>2
  <2> QED BY <2>6, <2>7, <2>8, <2>9, <2>10, <2>11, <2>12 DEF RegistryInv
<1> QED BY <1>1, <1>2

-----------------------------------------------------------------------------
\* A new submission keeps the registry's invariant.
LEMMA SubmitStep ==
  ASSUME AdmissionAssumption, RegistryInv, NEW c \in Calls, Submit(c)
  PROVE  RegistryInv'
<1> DEFINE k == KeyOf[c]
<1>0. /\ call[c] = "none" /\ UNCHANGED task
      /\ "refused" \notin Calls /\ KeyOf \in [Calls -> Keys \cup {NoKey}]
      /\ NoKey \notin Keys
  BY DEF Submit, AdmissionAssumption
<1>1. CASE k = NoKey
  <2>1. call' = [call EXCEPT ![c] = "creating"] /\ UNCHANGED <<answer, receipts, inFlight>>
    BY <1>1 DEF Submit, registry
  <2>2. call' \in [Calls -> CallStates] /\ call'[c] = "creating"
        /\ \A d \in Calls : d # c => call'[d] = call[d]
    BY <2>1 DEF RegistryInv, RegistryType, CallStates
  <2>3. RegistryType' BY <1>0, <2>1, <2>2 DEF RegistryInv, RegistryType
  <2>4. KeyOwned' BY <1>0, <1>1, <2>1, <2>2 DEF RegistryInv, KeyOwned
  <2>5. Flying' BY <1>0, <2>1, <2>2 DEF RegistryInv, Flying, Working
  <2>6. JoinedSame' BY <2>1, <2>2 DEF RegistryInv, JoinedSame
  <2>7. StoredSame' BY <1>0, <2>1 DEF RegistryInv, StoredSame
  <2>8. Enrolled' BY <1>0, <2>2 DEF RegistryInv, Enrolled
  <2>9. AnswerMatches' BY <1>0, <2>1 DEF RegistryInv, AnswerMatches
  <2> QED BY <2>3, <2>4, <2>5, <2>6, <2>7, <2>8, <2>9 DEF RegistryInv
<1>2. CASE k # NoKey /\ inFlight[k] # NoKey /\ Same(c, inFlight[k])
  <2>1. call' = [call EXCEPT ![c] = "joined"] /\ UNCHANGED <<answer, receipts, inFlight>>
    BY <1>2 DEF Submit, registry
  <2>2. call' \in [Calls -> CallStates] /\ call'[c] = "joined"
        /\ \A d \in Calls : d # c => call'[d] = call[d]
    BY <2>1 DEF RegistryInv, RegistryType, CallStates
  <2>3. RegistryType' BY <1>0, <2>1, <2>2 DEF RegistryInv, RegistryType
  <2>4. KeyOwned' BY <1>0, <2>1, <2>2 DEF RegistryInv, KeyOwned, Working
  <2>5. Flying' BY <1>0, <2>1, <2>2 DEF RegistryInv, Flying, Working
  <2>6. JoinedSame' BY <1>0, <1>2, <2>1, <2>2 DEF RegistryInv, JoinedSame, Same
  <2>7. StoredSame' BY <1>0, <2>1 DEF RegistryInv, StoredSame
  <2>8. Enrolled' BY <1>0, <2>2 DEF RegistryInv, Enrolled
  <2>9. AnswerMatches' BY <1>0, <2>1 DEF RegistryInv, AnswerMatches
  <2> QED BY <2>3, <2>4, <2>5, <2>6, <2>7, <2>8, <2>9 DEF RegistryInv
<1>3. ASSUME NEW a \in Calls \cup {"refused"}, Answer(c, a), UNCHANGED registry,
             a \in Calls => /\ task[a] # "none" /\ KeyOf[a] = KeyOf[c]
                            /\ PayloadOf[a] = PayloadOf[c]
      PROVE  RegistryInv'
  <2>1. /\ call' = [call EXCEPT ![c] = "answered"] /\ answer' = [answer EXCEPT ![c] = a]
        /\ UNCHANGED <<receipts, inFlight>>
    BY <1>3 DEF Answer, registry
  <2>2. /\ call' \in [Calls -> CallStates] /\ call'[c] = "answered"
        /\ \A d \in Calls : d # c => call'[d] = call[d]
    BY <2>1 DEF RegistryInv, RegistryType, CallStates
  <2>3. /\ answer' \in [Calls -> Calls \cup {"none", "refused", "lost"}] /\ answer'[c] = a
        /\ \A d \in Calls : d # c => answer'[d] = answer[d]
    BY <2>1 DEF RegistryInv, RegistryType
  <2>4. RegistryType' BY <1>0, <2>1, <2>2, <2>3 DEF RegistryInv, RegistryType
  <2>5. KeyOwned' BY <1>0, <2>1, <2>2 DEF RegistryInv, KeyOwned, Working
  <2>6. Flying' BY <1>0, <2>1, <2>2 DEF RegistryInv, Flying, Working
  <2>7. JoinedSame' BY <2>1, <2>2 DEF RegistryInv, JoinedSame
  <2>8. StoredSame' BY <1>0, <2>1 DEF RegistryInv, StoredSame
  <2>9. Enrolled' BY <1>0, <2>2 DEF RegistryInv, Enrolled
  <2>10. AnswerMatches' BY <1>0, <1>3, <2>3 DEF RegistryInv, AnswerMatches
  <2> QED BY <2>4, <2>5, <2>6, <2>7, <2>8, <2>9, <2>10 DEF RegistryInv
<1>4. CASE k # NoKey /\ inFlight[k] # NoKey /\ ~Same(c, inFlight[k])
  <2>1. Answer(c, "refused") /\ UNCHANGED registry
    BY <1>4 DEF Submit
  <2> QED BY <2>1, <1>3, <1>0
<1>5. CASE k # NoKey /\ inFlight[k] = NoKey /\ Used(k)
  <2> DEFINE a == Recorded(c, receipts[k])
  <2>1. Answer(c, a) /\ UNCHANGED registry
    BY <1>5 DEF Submit
  <2>2. k \in Keys
    BY <1>0, <1>5
  <2>3. CASE receipts[k].state = "submitted" /\ Same(c, receipts[k].by)
    <3>1. a = receipts[k].by /\ a \in Calls /\ KeyOf[a] = k /\ task[a] # "none"
          /\ PayloadOf[a] = PayloadOf[c]
      BY <2>2, <2>3 DEF Recorded, RegistryInv, StoredSame, Same
    <3> HIDE DEF a
    <3> QED BY <2>1, <3>1, <1>3
  <2>4. CASE ~(receipts[k].state = "submitted" /\ Same(c, receipts[k].by))
    <3>1. a = "refused"
      BY <2>4 DEF Recorded
    <3> HIDE DEF a
    <3> QED BY <2>1, <3>1, <1>3, <1>0
  <2> QED BY <2>3, <2>4
<1>6. CASE k # NoKey /\ inFlight[k] = NoKey /\ ~Used(k)
  <2>0. k \in Keys /\ receipts[k].state = "absent"
    BY <1>0, <1>6 DEF Used
  <2>1. Open(c, k)
    BY <1>6 DEF Submit
  <2>2. CASE Answer(c, "refused") /\ UNCHANGED registry
    BY <2>2, <1>3, <1>0
  <2>3. CASE /\ receipts' = [receipts EXCEPT ![k] = [state |-> "creating", by |-> c]]
             /\ inFlight' = [inFlight EXCEPT ![k] = c]
             /\ call' = [call EXCEPT ![c] = "creating"]
             /\ UNCHANGED answer
    <3>1. /\ call' \in [Calls -> CallStates] /\ call'[c] = "creating"
          /\ \A d \in Calls : d # c => call'[d] = call[d]
      BY <2>3 DEF RegistryInv, RegistryType, CallStates
    <3>2. /\ receipts' \in [Keys -> Receipt]
          /\ receipts'[k].state = "creating" /\ receipts'[k].by = c
          /\ \A j \in Keys : j # k => receipts'[j] = receipts[j]
      BY <2>0, <2>3 DEF RegistryInv, RegistryType, Receipt
    <3>3. /\ inFlight' \in [Keys -> Calls \cup {NoKey}] /\ inFlight'[k] = c
          /\ \A j \in Keys : j # k => inFlight'[j] = inFlight[j]
      BY <2>0, <2>3 DEF RegistryInv, RegistryType
    <3>4. \A d \in Calls : KeyOf[d] = k => task[d] = "none" /\ call[d] \notin Working
      BY <2>0, <1>6 DEF RegistryInv, KeyOwned
    <3>5. RegistryType' BY <1>0, <2>3, <3>1, <3>2, <3>3 DEF RegistryInv, RegistryType
    <3>6. KeyOwned' BY <1>0, <3>1, <3>2, <3>4 DEF RegistryInv, KeyOwned
    <3>7. Flying' BY <1>0, <1>6, <3>1, <3>3 DEF RegistryInv, Flying, Working
    <3>8. JoinedSame' BY <1>0, <1>6, <3>1, <3>3 DEF RegistryInv, JoinedSame
    <3>9. StoredSame' BY <1>0, <3>2 DEF RegistryInv, StoredSame
    <3>10. Enrolled' BY <1>0, <3>1 DEF RegistryInv, Enrolled
    <3>11. AnswerMatches' BY <1>0, <2>3 DEF RegistryInv, AnswerMatches
    <3> QED BY <3>5, <3>6, <3>7, <3>8, <3>9, <3>10, <3>11 DEF RegistryInv
  <2> QED BY <2>1, <2>2, <2>3 DEF Open
<1> QED BY <1>1, <1>2, <1>4, <1>5, <1>6

\* A crash keeps what is stored, and nothing else is left to keep.
LEMMA CrashStep ==
  ASSUME AdmissionAssumption, RegistryInv, Crash
  PROVE  RegistryInv'
<1>0. {"none", "refused", "lost"} \cap Calls = {}
  BY DEF AdmissionAssumption
<1>1. /\ call' = [c \in Calls |-> IF call[c] = "none" THEN "none" ELSE "answered"]
      /\ answer' = [c \in Calls |->
           IF call[c] \in {"none", "answered"} THEN answer[c] ELSE "lost"]
      /\ task' = [t \in Calls |-> IF t \in Live THEN "interrupted" ELSE task[t]]
      /\ inFlight' = [k \in Keys |-> NoKey]
  BY DEF Crash
<1>2. PICK bad \in SUBSET Keys :
        /\ \A k \in bad : Used(k)
        /\ receipts' = [k \in Keys |->
             IF k \in bad THEN [receipts[k] EXCEPT !.state = "unreadable"] ELSE receipts[k]]
  BY DEF Crash
<1>3. receipts \in [Keys -> Receipt]
  BY DEF RegistryInv, RegistryType
<1>4. \A k \in Keys :
        /\ receipts'[k] \in Receipt /\ receipts'[k].by = receipts[k].by
        /\ receipts[k].state # "absent" => receipts'[k].state # "absent"
        /\ receipts'[k].state = "submitted" => receipts[k].state = "submitted"
  <2> SUFFICES ASSUME NEW k \in Keys
               PROVE  /\ receipts'[k] \in Receipt /\ receipts'[k].by = receipts[k].by
                      /\ receipts[k].state # "absent" => receipts'[k].state # "absent"
                      /\ receipts'[k].state = "submitted" => receipts[k].state = "submitted"
    OBVIOUS
  <2>1. CASE k \in bad
    <3>1. receipts'[k] = [receipts[k] EXCEPT !.state = "unreadable"]
      BY <1>2, <2>1
    <3>2. receipts[k] \in Receipt
      BY <1>3
    <3> QED BY <3>1, <3>2 DEF Receipt
  <2>2. CASE k \notin bad
    <3>1. receipts'[k] = receipts[k]
      BY <1>2, <2>2
    <3> QED BY <3>1, <1>3
  <2> QED BY <2>1, <2>2
<1>5. \A c \in Calls : call'[c] \in {"none", "answered"}
                        /\ (task'[c] # "none" => task[c] # "none")
                        /\ (task[c] # "none" => task'[c] # "none")
  BY <1>1 DEF Live
<1>6. RegistryType'
  <2>1. receipts' \in [Keys -> Receipt]
    <3>1. receipts' = [k \in Keys |-> receipts'[k]]
      BY <1>2
    <3> QED BY <3>1, <1>4
  <2>2. inFlight' \in [Keys -> Calls \cup {NoKey}]
    BY <1>1
  <2>3. call' \in [Calls -> CallStates]
    BY <1>1 DEF CallStates
  <2>4. task' \in [Calls -> TaskStates]
    BY <1>1 DEF RegistryInv, RegistryType, TaskStates
  <2>5. answer' \in [Calls -> Calls \cup {"none", "refused", "lost"}]
    BY <1>1 DEF RegistryInv, RegistryType
  <2> QED BY <2>1, <2>2, <2>3, <2>4, <2>5 DEF RegistryType
<1>7. KeyOwned'
  BY <1>4, <1>5 DEF RegistryInv, KeyOwned, Working, AdmissionAssumption
<1>8. Flying' /\ JoinedSame'
  BY <1>1, <1>5 DEF Flying, JoinedSame
<1>9. StoredSame'
  BY <1>4, <1>5 DEF RegistryInv, StoredSame
<1>10. Enrolled'
  BY <1>5 DEF Enrolled
<1>11. AnswerMatches'
  <2> SUFFICES ASSUME NEW c \in Calls, answer'[c] \in Calls
               PROVE  /\ task'[answer'[c]] # "none"
                      /\ answer'[c] = c \/ (KeyOf[c] = KeyOf[answer'[c]]
                                            /\ PayloadOf[c] = PayloadOf[answer'[c]])
    BY DEF AnswerMatches
  <2>1. answer'[c] = answer[c]
    BY <1>0, <1>1
  <2> QED BY <2>1, <1>5 DEF RegistryInv, AnswerMatches
<1> QED BY <1>6, <1>7, <1>8, <1>9, <1>10, <1>11 DEF RegistryInv

-----------------------------------------------------------------------------
(* The background: a task that has a driver, or a place in a queue, was     *)
(* begun and not interrupted.                                              *)

BackgroundType ==
  /\ driver \in [Calls -> DriverStates] /\ seat \in [Calls -> Nat]
  /\ queues \in Seq(Queue) /\ gen >= 1

Seated ==
  \A t \in Calls : driver[t] \notin {"none", "closed"} => task[t] \in Begun /\ seat[t] \in 1..gen

Lined ==
  \A g \in 1..gen : \A t \in Calls :
    Contains(queues[g].waiting, t) => task[t] \in Begun /\ seat[t] \in 1..gen

BackgroundInv == BackgroundType /\ Seated /\ Lined

\* Tasks that move on keep their places.
LEMMA BackgroundTask ==
  ASSUME BackgroundInv, TaskKept, UNCHANGED <<seat, queues>>,
         driver' \in [Calls -> DriverStates],
         \A t \in Calls : driver'[t] \notin {"none", "closed"} => driver[t] \notin {"none", "closed"}
  PROVE  BackgroundInv'
<1>1. BackgroundType' BY DEF BackgroundInv, BackgroundType, gen
<1>2. Seated' BY DEF BackgroundInv, Seated, TaskKept, gen
<1>3. Lined' BY DEF BackgroundInv, Lined, TaskKept, gen
<1> QED BY <1>1, <1>2, <1>3 DEF BackgroundInv

\* What entering a queue does to its line.
LEMMA EnterEffect ==
  ASSUME NEW q \in Queue, NEW t \in Calls
  PROVE  /\ Enter(q, t) \in Queue
         /\ \A u \in Calls : Contains(Enter(q, t).waiting, u) => u = t \/ Contains(q.waiting, u)
<1>1. CASE q.active < q.limit
  BY <1>1 DEF Enter, Queue, Contains
<1>2. CASE ~(q.active < q.limit)
  <2>1. /\ q.waiting \in Seq(Calls)
        /\ Enter(q, t) = [limit |-> q.limit, active |-> q.active, waiting |-> Append(q.waiting, t)]
    BY <1>2 DEF Enter, Queue
  <2>2. Append(q.waiting, t) \in Seq(Calls)
    BY <2>1
  <2>3. \A u \in Calls : Contains(Append(q.waiting, t), u) => u = t \/ Contains(q.waiting, u)
    BY <2>1 DEF Contains
  <2> QED BY <2>1, <2>2, <2>3 DEF Queue
<1> QED BY <1>1, <1>2

\* What giving a seat back does to the line.
LEMMA PassOnEffect ==
  ASSUME NEW q \in Queue
  PROVE  /\ PassOn(q) \in Queue
         /\ \A u \in Calls : Contains(PassOn(q).waiting, u) => Contains(q.waiting, u)
<1>1. CASE q.waiting = <<>>
  BY <1>1 DEF PassOn, Queue, Contains
<1>2. CASE q.waiting # <<>>
  <2>1. /\ q.waiting \in Seq(Calls)
        /\ PassOn(q) = [limit |-> q.limit, active |-> q.active, waiting |-> Tail(q.waiting)]
    BY <1>2 DEF PassOn, Queue
  <2>2. Tail(q.waiting) \in Seq(Calls)
    BY <1>2, <2>1
  <2>3. \A u \in Calls : Contains(Tail(q.waiting), u) => Contains(q.waiting, u)
    <3> SUFFICES ASSUME NEW u \in Calls, NEW i \in 1..Len(Tail(q.waiting)), Tail(q.waiting)[i] = u
                 PROVE  \E j \in 1..Len(q.waiting) : q.waiting[j] = u
      BY DEF Contains
    <3>1. i + 1 \in 1..Len(q.waiting) /\ q.waiting[i + 1] = u
      BY <1>2, <2>1
    <3> QED BY <3>1
  <2> QED BY <2>1, <2>2, <2>3 DEF Queue
<1> QED BY <1>1, <1>2

\* Queue g becomes q, whose line has at most t more, and t takes its seat there.
Replaced(g, q, t) ==
  /\ queues' = [queues EXCEPT ![g] = q] /\ seat' = [seat EXCEPT ![t] = g]
  /\ \A u \in Calls : Contains(q.waiting, u) => u = t \/ Contains(queues[g].waiting, u)
  /\ driver' \in [Calls -> DriverStates]
  /\ \A u \in Calls : driver'[u] \notin {"none", "closed"} =>
       u = t \/ driver[u] \notin {"none", "closed"} \/ Contains(queues[g].waiting, u)

\* Replacing one queue by another whose line is no longer, up to one task.
LEMMA QueueStep ==
  ASSUME BackgroundInv, UNCHANGED task, NEW g \in 1..gen, NEW q \in Queue,
         NEW t \in Calls, task[t] \in Begun, Replaced(g, q, t)
  PROVE  BackgroundInv'
<1> USE DEF Replaced
<1>1. queues \in Seq(Queue) /\ gen >= 1 /\ seat \in [Calls -> Nat]
  BY DEF BackgroundInv, BackgroundType
<1>2. queues' \in Seq(Queue) /\ gen' = gen /\ queues'[g] = q
      /\ \A h \in 1..gen : h # g => queues'[h] = queues[h]
  BY <1>1 DEF gen
<1>3. seat' \in [Calls -> Nat] /\ seat'[t] \in 1..gen
      /\ \A u \in Calls : u # t => seat'[u] = seat[u]
  BY <1>1
<1>4. BackgroundType'
  BY <1>1, <1>2, <1>3 DEF BackgroundType
<1>5. Seated'
  BY <1>2, <1>3 DEF BackgroundInv, Seated, Lined
<1>6. Lined'
  <2> SUFFICES ASSUME NEW h \in 1..gen, NEW u \in Calls, Contains(queues'[h].waiting, u)
               PROVE  task[u] \in Begun /\ seat'[u] \in 1..gen
    BY <1>2 DEF Lined
  <2>1. u = t \/ Contains(queues[h].waiting, u)
    BY <1>2
  <2> QED BY <2>1, <1>3 DEF BackgroundInv, Lined
<1> QED BY <1>4, <1>5, <1>6 DEF BackgroundInv

-----------------------------------------------------------------------------
(* Conversations.                                                          *)

Reserved ==
  /\ reserved \subseteq Convs
  /\ \A c \in InSubmission : ConvOf[c] # NoConv => ConvOf[c] \in reserved

Exclusive ==
  \A c, d \in InSubmission \cup Live : ConvOf[c] = ConvOf[d] /\ ConvOf[c] # NoConv => c = d

ConversationInv == Reserved /\ Exclusive

\* Submissions and tasks that go away keep conversations exclusive.
LEMMA ConversationShrinks ==
  ASSUME ConversationInv, InSubmission' \subseteq InSubmission, Live' \subseteq Live,
         UNCHANGED reserved
  PROVE  ConversationInv'
BY DEF ConversationInv, Reserved, Exclusive

\* Settling a call touches no other call but those that joined it.
LEMMA SettleCalls ==
  ASSUME RegistryInv, NEW c \in Calls, call[c] \in Working,
         NEW a \in Calls \cup {"refused"}, Settle(c, a)
  PROVE  InSubmission' \subseteq InSubmission \ {c}
<1>1. PICK b \in Calls \cup {"refused"} : Reply(c, b)
  <2>1. CASE KeyOf[c] = NoKey
    BY <2>1 DEF Settle
  <2>2. CASE KeyOf[c] # NoKey
    <3>1. \E ok \in Writes : Reply(c, IF ok THEN a ELSE "refused")
      BY <2>2 DEF Settle
    <3> QED BY <3>1
  <2> QED BY <2>1, <2>2
<1>2. \A d \in Calls : \/ call'[d] = "answered"
                       \/ call'[d] = call[d] /\ d \notin Group(c)
  BY <1>1, ReplyEffect
<1>3. c \in Group(c)
  BY DEF Group
<1> QED BY <1>2, <1>3 DEF InSubmission

\* The end of a submission gives up its reservation, and only its own.
LEMMA LeaveStep ==
  ASSUME ConversationInv, RegistryInv, NEW c \in InSubmission,
         NEW a \in Calls \cup {"refused"}, Leave(c, a), Live' \subseteq Live
  PROVE  ConversationInv'
<1>1. c \in Calls /\ call[c] \in Working
  BY DEF InSubmission, Working
<1>2. InSubmission' \subseteq InSubmission \ {c} /\ reserved' = reserved \ {ConvOf[c]}
  BY <1>1, SettleCalls DEF Leave
<1>3. Reserved'
  BY <1>2 DEF ConversationInv, Reserved, Exclusive
<1>4. Exclusive'
  BY <1>2 DEF ConversationInv, Exclusive
<1> QED BY <1>3, <1>4 DEF ConversationInv

-----------------------------------------------------------------------------
AdmissionInv == RegistryInv /\ BackgroundInv /\ ConversationInv

\* A new queue is empty.
LEMMA NewQueueIsQueue ==
  ASSUME AdmissionAssumption, NEW n \in Limits PROVE NewQueue(n) \in Queue
<1>1. n \in Nat
  BY DEF AdmissionAssumption
<1>2. <<>> \in Seq(Calls)
  OBVIOUS
<1> QED BY <1>1, <1>2 DEF NewQueue, Queue

\* The invariant holds when the server starts.
LEMMA AdmissionInit == ASSUME AdmissionAssumption, Init PROVE AdmissionInv
<1>1. RegistryInv
  BY DEF AdmissionAssumption, Init, RegistryInv, RegistryType, KeyOwned, Flying, JoinedSame,
         StoredSame, Enrolled, AnswerMatches, Receipt, CallStates, TaskStates, Working
<1>2. BackgroundInv
  <2>1. PICK n \in Limits : queues = <<NewQueue(n)>>
    BY DEF Init
  <2>2. NewQueue(n) \in Queue
    BY NewQueueIsQueue
  <2>3. queues \in Seq(Queue) /\ gen = 1 /\ queues[1] = NewQueue(n)
    BY <2>1, <2>2 DEF gen
  <2>4. BackgroundType
    BY <2>3 DEF Init, BackgroundType, DriverStates
  <2>5. Seated
    BY DEF Init, Seated
  <2>6. Lined
    BY <2>3 DEF Lined, Contains, NewQueue
  <2> QED BY <2>4, <2>5, <2>6 DEF BackgroundInv
<1>3. ConversationInv
  BY DEF Init, ConversationInv, Reserved, Exclusive, InSubmission, Live
<1> QED BY <1>1, <1>2, <1>3 DEF AdmissionInv

\* A task that is set to a later status has only moved on.
LEMMA OneTaskKept ==
  ASSUME RegistryInv, NEW t \in Calls, task[t] \in Begun, NEW s \in Begun,
         task' = [task EXCEPT ![t] = s]
  PROVE  TaskKept
BY DEF RegistryInv, RegistryType, TaskKept, Begun, TaskStates

\* A new submission leaves tasks and conversations alone.
LEMMA SubmitKeeps ==
  ASSUME AdmissionAssumption, AdmissionInv, NEW c \in Calls, Submit(c)
  PROVE  AdmissionInv'
<1>1. RegistryInv'
  BY SubmitStep DEF AdmissionInv
<1>2. UNCHANGED <<reserved, task, seat, queues, driver>> /\ call[c] = "none"
  BY DEF Submit, background
<1>3. BackgroundInv'
  BY <1>2, BackgroundTask DEF AdmissionInv, TaskKept, BackgroundInv, BackgroundType,
     RegistryInv, RegistryType
<1>4. \E s \in {"creating", "joined", "answered"} : call' = [call EXCEPT ![c] = s]
  BY DEF Submit, Open, Answer
<1>5. InSubmission' \subseteq InSubmission /\ Live' = Live
  BY <1>2, <1>4 DEF InSubmission, Live, AdmissionInv, RegistryInv, RegistryType
<1>6. ConversationInv'
  BY <1>2, <1>5, ConversationShrinks DEF AdmissionInv
<1> QED BY <1>1, <1>3, <1>6 DEF AdmissionInv

\* A submission that goes on keeps the invariant: it is admitted, enrolled, gets its
\* runner and its driver, or ends on the way.
LEMMA ContinueKeeps ==
  ASSUME AdmissionAssumption, AdmissionInv, NEW c \in Calls, Continue(c)
  PROVE  AdmissionInv'
<1> USE DEF AdmissionInv
<1>0. /\ call \in [Calls -> CallStates] /\ task \in [Calls -> TaskStates]
      /\ driver \in [Calls -> DriverStates]
  BY DEF RegistryInv, RegistryType, BackgroundInv, BackgroundType
<1>1. CASE Guard(c)
  <2>1. call[c] = "creating" /\ UNCHANGED <<task, seat, queues, driver>>
    BY <1>1 DEF Guard, background
  <2>2. TaskKept
    BY <1>0, <2>1 DEF TaskKept
  <2>3. BackgroundInv'
    BY <1>0, <2>1, <2>2, BackgroundTask
  <2>4. call[c] \in Working /\ Live' = Live
    BY <2>1 DEF Working, Live
  <2>5. CASE Admissible(c)
    <3>1. /\ call' = [call EXCEPT ![c] = "preparing"]
          /\ reserved' = reserved \cup ({ConvOf[c]} \ {NoConv})
          /\ UNCHANGED <<answer, registry>>
      BY <1>1, <2>5 DEF Guard
    <3>2. RegistryInv'
      <4>1. "preparing" \in Working /\ "preparing" \notin {"enrolled", "made"}
        BY DEF Working
      <4> QED BY <3>1, <2>2, <2>4, <4>1, CallStep
    <3>3. InSubmission' = InSubmission \cup {c}
      BY <1>0, <3>1 DEF InSubmission
    <3>4. ConvOf[c] = NoConv \/ (ConvOf[c] \notin reserved
            /\ \A t \in Live : ConvOf[t] # ConvOf[c])
      BY <2>5 DEF Admissible, ConversationFree
    <3>5. Reserved'
      <4>1. ConvOf[c] \in Convs \cup {NoConv}
        BY DEF AdmissionAssumption
      <4> QED BY <3>1, <3>3, <4>1 DEF ConversationInv, Reserved
    <3>6. Exclusive'
      BY <3>3, <3>4, <2>4 DEF ConversationInv, Reserved, Exclusive
    <3> QED BY <3>2, <2>3, <3>5, <3>6 DEF ConversationInv
  <2>6. CASE ~Admissible(c)
    <3>1. Settle(c, "refused") /\ UNCHANGED reserved
      BY <1>1, <2>6 DEF Guard
    <3>2. "refused" # c
      BY DEF AdmissionAssumption
    <3>3. RegistryInv'
      BY <3>1, <3>2, <2>2, <2>4, SettleStep
    <3>4. InSubmission' \subseteq InSubmission
      BY <3>1, <2>4, SettleCalls
    <3>5. ConversationInv'
      BY <3>1, <3>4, <2>4, ConversationShrinks
    <3> QED BY <3>3, <2>3, <3>5
  <2> QED BY <2>5, <2>6
<1>2. ASSUME c \in InSubmission, NEW a \in {"refused", c}, a = c => task[c] \in Begun,
             Leave(c, a), TaskKept, Live' \subseteq Live
      PROVE  RegistryInv' /\ ConversationInv'
  <2>1. call[c] \in Working
    BY <1>2 DEF InSubmission, Working
  <2>2. Settle(c, a)
    BY <1>2 DEF Leave
  <2>3. RegistryInv'
    BY <1>2, <2>1, <2>2, SettleStep
  <2>4. ConversationInv'
    BY <1>2, LeaveStep
  <2> QED BY <2>3, <2>4
<1>3. CASE Enroll(c)
  <2>1. call[c] = "preparing" /\ UNCHANGED <<seat, queues, driver>>
    BY <1>3 DEF Enroll, background
  <2>2. c \in InSubmission /\ call[c] \in Working
    BY <2>1 DEF InSubmission, Working
  <2>3. CASE /\ task' = [task EXCEPT ![c] = "queued"]
             /\ call' = [call EXCEPT ![c] = "enrolled"]
             /\ UNCHANGED <<answer, registry, reserved>>
    <3>1. /\ \A d \in Calls : d # c => call'[d] = call[d] /\ task'[d] = task[d]
          /\ call'[c] = "enrolled" /\ task'[c] = "queued"
          /\ call' \in [Calls -> CallStates] /\ task' \in [Calls -> TaskStates]
      BY <1>0, <2>3 DEF CallStates, TaskStates
    <3>2. RegistryInv'
      <4>1. RegistryType' BY <2>3, <3>1 DEF RegistryInv, RegistryType, registry
      <4>2. KeyOwned' BY <2>2, <2>3, <3>1 DEF RegistryInv, KeyOwned, registry
      <4>3. Flying' BY <2>3, <3>1 DEF RegistryInv, Flying, registry, Working
      <4>4. JoinedSame' BY <2>3, <3>1 DEF RegistryInv, JoinedSame, registry
      <4>5. StoredSame' BY <2>3, <3>1 DEF RegistryInv, StoredSame, registry
      <4>6. Enrolled' BY <3>1 DEF RegistryInv, Enrolled, Begun
      <4>7. AnswerMatches' BY <2>3, <3>1 DEF RegistryInv, AnswerMatches
      <4> QED BY <4>1, <4>2, <4>3, <4>4, <4>5, <4>6, <4>7 DEF RegistryInv
    <3>3. BackgroundInv'
      <4>1. \A t \in Calls : task[t] \in Begun => task'[t] \in Begun
        BY <3>1 DEF Begun
      <4> QED BY <2>1, <4>1 DEF BackgroundInv, BackgroundType, Seated, Lined, gen
    <3>4. InSubmission' = InSubmission /\ Live' = Live \cup {c}
      BY <2>2, <3>1 DEF InSubmission, Live
    <3>5. ConversationInv'
      BY <2>2, <2>3, <3>4 DEF ConversationInv, Reserved, Exclusive
    <3> QED BY <3>2, <3>3, <3>5
  <2>4. CASE Leave(c, "refused") /\ UNCHANGED task
    <3>1. TaskKept /\ Live' = Live /\ "refused" # c
      BY <1>0, <2>4 DEF TaskKept, Live, AdmissionAssumption
    <3>2. BackgroundInv'
      BY <1>0, <2>1, <3>1, BackgroundTask
    <3> QED BY <2>2, <2>4, <3>1, <3>2, <1>2
  <2> QED BY <1>3, <2>3, <2>4 DEF Enroll
<1>4. CASE Make(c)
  <2>1. call[c] = "enrolled" /\ UNCHANGED <<seat, queues, driver>>
    BY <1>4 DEF Make, background
  <2>2. c \in InSubmission /\ call[c] \in Working /\ task[c] \in Begun
    BY <2>1 DEF InSubmission, Working, RegistryInv, Enrolled
  <2>3. CASE /\ call' = [call EXCEPT ![c] = "made"]
             /\ UNCHANGED <<answer, registry, reserved, task>>
    <3>1. TaskKept /\ Live' = Live
      BY <1>0, <2>3 DEF TaskKept, Live
    <3>2. RegistryInv'
      <4>1. "made" \in Working /\ task'[c] \in Begun
        BY <2>2, <2>3 DEF Working
      <4> QED BY <2>2, <2>3, <3>1, <4>1, CallStep
    <3>3. InSubmission' = InSubmission
      BY <1>0, <2>1, <2>3 DEF InSubmission
    <3>4. ConversationInv'
      BY <2>3, <3>1, <3>3, ConversationShrinks
    <3>5. BackgroundInv'
      BY <1>0, <2>1, <3>1, BackgroundTask
    <3> QED BY <3>2, <3>4, <3>5
  <2>4. CASE Fail(c) /\ Leave(c, "refused")
    <3>1. TaskKept
      BY <2>2, <2>4, OneTaskKept DEF Fail, Begun
    <3>2. Live' \subseteq Live /\ "refused" # c
      BY <1>0, <2>4 DEF Fail, Live, AdmissionAssumption
    <3>3. BackgroundInv'
      BY <1>0, <2>1, <3>1, BackgroundTask
    <3> QED BY <2>2, <2>4, <3>1, <3>2, <3>3, <1>2
  <2> QED BY <1>4, <2>3, <2>4 DEF Make
<1>5. CASE Launch(c)
  <2>1. call[c] = "made" /\ UNCHANGED task
    BY <1>5 DEF Launch
  <2>2. c \in InSubmission /\ task[c] \in Begun
    BY <2>1 DEF InSubmission, RegistryInv, Enrolled
  <2>3. TaskKept /\ Live' = Live /\ "refused" # c
    BY <1>0, <2>1 DEF TaskKept, Live, AdmissionAssumption
  <2>4. CASE /\ seat' = [seat EXCEPT ![c] = gen]
             /\ queues' = [queues EXCEPT ![gen] = Enter(@, c)]
             /\ driver' = [driver EXCEPT ![c] =
                  IF Contains(queues'[gen].waiting, c) THEN "waiting" ELSE "starting"]
             /\ Leave(c, c)
    <3>1. gen \in 1..gen /\ queues[gen] \in Queue
      BY DEF BackgroundInv, BackgroundType, gen
    <3> DEFINE q == Enter(queues[gen], c)
    <3>2. queues' = [queues EXCEPT ![gen] = q]
      BY <2>4
    <3>3. q \in Queue /\ \A u \in Calls : Contains(q.waiting, u) =>
                            u = c \/ Contains(queues[gen].waiting, u)
      BY <3>1, EnterEffect
    <3>4. driver' \in [Calls -> DriverStates] /\ \A u \in Calls : u # c => driver'[u] = driver[u]
      BY <1>0, <2>4 DEF DriverStates
    <3> HIDE DEF q
    <3>5. seat' = [seat EXCEPT ![c] = gen] /\ UNCHANGED task /\ task[c] \in Begun
      BY <2>1, <2>2, <2>4
    <3>6. \A u \in Calls : driver'[u] \notin {"none", "closed"} =>
            u = c \/ driver[u] \notin {"none", "closed"} \/ Contains(queues[gen].waiting, u)
      BY <3>4
    <3>7. gen \in 1..gen /\ q \in Queue /\ driver' \in [Calls -> DriverStates]
      BY <3>1, <3>3, <3>4
    <3>8. BackgroundInv'
      <4>1. \A u \in Calls : Contains(q.waiting, u) => u = c \/ Contains(queues[gen].waiting, u)
        BY <3>3
      <4>2. Replaced(gen, q, c)
        BY <3>2, <3>5, <3>6, <3>7, <4>1 DEF Replaced
      <4> QED BY <3>5, <3>7, <4>2, QueueStep
    <3> QED BY <2>2, <2>3, <2>4, <3>8, <1>2
  <2>5. CASE Leave(c, "refused") /\ UNCHANGED <<seat, queues, driver>>
    <3>1. BackgroundInv'
      BY <1>0, <2>3, <2>5, BackgroundTask
    <3> QED BY <2>2, <2>3, <2>5, <3>1, <1>2
  <2> QED BY <1>5, <2>4, <2>5 DEF Launch
<1> QED BY <1>1, <1>3, <1>4, <1>5 DEF Continue

\* A step that changes tasks and drivers only: all it needs is that tasks move on.
LEMMA OutsideKeeps ==
  ASSUME AdmissionInv, TaskKept, Live' \subseteq Live,
         UNCHANGED <<registry, call, answer, reserved, seat, queues>>,
         driver' \in [Calls -> DriverStates],
         \A t \in Calls : driver'[t] \notin {"none", "closed"} => driver[t] \notin {"none", "closed"}
  PROVE  AdmissionInv'
<1>1. InSubmission' = InSubmission
  BY DEF InSubmission
<1> QED BY <1>1, TaskStep, BackgroundTask, ConversationShrinks DEF AdmissionInv

\* The background execution keeps the invariant.
LEMMA DriveKeeps ==
  ASSUME AdmissionInv, NEW t \in Calls, Drive(t)
  PROVE  AdmissionInv'
<1>0. /\ call \in [Calls -> CallStates] /\ task \in [Calls -> TaskStates]
      /\ driver \in [Calls -> DriverStates] /\ seat \in [Calls -> Nat]
  BY DEF AdmissionInv, RegistryInv, RegistryType, BackgroundInv, BackgroundType
<1>1. driver[t] \notin {"none", "closed"} => task[t] \in Begun /\ seat[t] \in 1..gen
  BY DEF AdmissionInv, BackgroundInv, Seated
<1>2. CASE Execute(t)
  <2>1. driver[t] = "starting" /\ UNCHANGED <<registry, call, answer, reserved, seat, queues>>
    BY <1>2 DEF Execute
  <2>2. task[t] \in Begun
    BY <1>1, <2>1
  <2>3. CASE task[t] = "over"
    <3>1. driver' = [driver EXCEPT ![t] = "ended"] /\ UNCHANGED task
      BY <1>2, <2>3 DEF Execute
    <3>2. TaskKept /\ Live' = Live
      BY <1>0, <3>1 DEF TaskKept, Live
    <3>3. driver' \in [Calls -> DriverStates] /\ \A u \in Calls : u # t => driver'[u] = driver[u]
      BY <1>0, <3>1 DEF DriverStates
    <3> QED BY <2>1, <3>2, <3>3, OutsideKeeps
  <2>4. CASE task[t] # "over"
    <3>1. driver' = [driver EXCEPT ![t] = "executing"] /\ task' = [task EXCEPT ![t] = "running"]
      BY <1>2, <2>4 DEF Execute
    <3>2. TaskKept
      BY <2>2, <3>1, OneTaskKept DEF AdmissionInv, Begun
    <3>3. Live' \subseteq Live
      BY <1>0, <2>2, <2>4, <3>1 DEF Live, Begun
    <3>4. driver' \in [Calls -> DriverStates] /\ \A u \in Calls : u # t => driver'[u] = driver[u]
      BY <1>0, <3>1 DEF DriverStates
    <3> QED BY <2>1, <3>2, <3>3, <3>4, OutsideKeeps
  <2> QED BY <2>3, <2>4
<1>3. CASE Return(t)
  <2>1. /\ driver[t] = "executing" /\ UNCHANGED <<registry, call, answer, reserved, seat, queues>>
        /\ driver' = [driver EXCEPT ![t] = "ended"] /\ task' = [task EXCEPT ![t] = "over"]
    BY <1>3 DEF Return
  <2>2. TaskKept
    BY <1>1, <2>1, OneTaskKept DEF AdmissionInv, Begun
  <2>3. Live' \subseteq Live
    BY <1>0, <2>1 DEF Live
  <2>4. driver' \in [Calls -> DriverStates] /\ \A u \in Calls : u # t => driver'[u] = driver[u]
    BY <1>0, <2>1 DEF DriverStates
  <2> QED BY <2>1, <2>2, <2>3, <2>4, OutsideKeeps
<1>4. CASE Yield(t)
  <2> DEFINE g == seat[t]  q == queues[g]  after == PassOn(q)
  <2>1. /\ driver[t] = "ended" /\ UNCHANGED <<registry, call, answer, reserved, task, seat>>
        /\ queues' = [queues EXCEPT ![g] = after]
        /\ driver' = [u \in Calls |->
             IF u = t THEN "leaving"
             ELSE IF Contains(q.waiting, u) /\ ~Contains(after.waiting, u) THEN "starting"
             ELSE driver[u]]
    BY <1>4 DEF Yield
  <2>2. g \in 1..gen /\ task[t] \in Begun /\ q \in Queue
    BY <1>1, <2>1 DEF AdmissionInv, BackgroundInv, BackgroundType, gen
  <2>3. after \in Queue /\ \A u \in Calls : Contains(after.waiting, u) => Contains(q.waiting, u)
    BY <2>2, PassOnEffect
  <2>4. seat' = [seat EXCEPT ![t] = g]
    BY <1>0, <2>1
  <2>5. driver' \in [Calls -> DriverStates]
        /\ \A u \in Calls : driver'[u] \notin {"none", "closed"} =>
             u = t \/ driver[u] \notin {"none", "closed"} \/ Contains(q.waiting, u)
    BY <1>0, <2>1 DEF DriverStates
  <2> HIDE DEF after
  <2>6. BackgroundInv'
    <3>1. Replaced(g, after, t)
      BY <2>1, <2>3, <2>4, <2>5 DEF Replaced
    <3>2. UNCHANGED task /\ BackgroundInv
      BY <2>1 DEF AdmissionInv, registry
    <3> QED BY <2>2, <2>3, <3>1, <3>2, QueueStep
  <2>7. TaskKept /\ Live' = Live /\ InSubmission' = InSubmission
    BY <1>0, <2>1 DEF TaskKept, Live, InSubmission
  <2> QED BY <2>1, <2>6, <2>7, TaskStep, ConversationShrinks DEF AdmissionInv
<1>5. CASE Close(t)
  <2>1. /\ driver' = [driver EXCEPT ![t] = "closed"]
        /\ UNCHANGED <<registry, call, answer, reserved, task, seat, queues>>
    BY <1>5 DEF Close
  <2>2. TaskKept /\ Live' = Live
    BY <1>0, <2>1 DEF TaskKept, Live
  <2>3. driver' \in [Calls -> DriverStates]
        /\ \A u \in Calls : driver'[u] \notin {"none", "closed"} => driver[u] \notin {"none", "closed"}
    BY <1>0, <2>1 DEF DriverStates
  <2> QED BY <2>1, <2>2, <2>3, OutsideKeeps
<1> QED BY <1>2, <1>3, <1>4, <1>5 DEF Drive

\* A cancelled task is over, and was pending before.
LEMMA CancelledKeeps ==
  ASSUME AdmissionInv, NEW t \in Live, Cancelled(t)
  PROVE  AdmissionInv'
<1>1. /\ t \in Calls /\ task[t] \in Begun /\ task \in [Calls -> TaskStates]
      /\ driver \in [Calls -> DriverStates]
  BY DEF AdmissionInv, RegistryInv, RegistryType, BackgroundInv, BackgroundType, Live, Begun
<1>2. /\ task' = [task EXCEPT ![t] = "over"]
      /\ UNCHANGED <<registry, call, answer, reserved, seat, queues, driver>>
  BY DEF Cancelled
<1>3. TaskKept
  BY <1>1, <1>2, OneTaskKept DEF AdmissionInv, Begun
<1>4. Live' \subseteq Live
  BY <1>1, <1>2 DEF Live
<1> QED BY <1>1, <1>2, <1>3, <1>4, OutsideKeeps

\* A step that touches none of the variables of the invariant keeps it.
LEMMA NothingKeeps ==
  ASSUME AdmissionInv,
         UNCHANGED <<registry, call, answer, reserved, task, seat, queues, driver>>
  PROVE  AdmissionInv'
<1>1. /\ task \in [Calls -> TaskStates] /\ driver \in [Calls -> DriverStates]
  BY DEF AdmissionInv, RegistryInv, RegistryType, BackgroundInv, BackgroundType
<1>2. TaskKept /\ Live' = Live
  BY <1>1 DEF TaskKept, Live
<1> QED BY <1>1, <1>2, OutsideKeeps

\* A new configuration brings an empty queue.
LEMMA ApplyKeeps ==
  ASSUME AdmissionAssumption, AdmissionInv, Apply
  PROVE  AdmissionInv'
<1>1. PICK n \in Limits : queues' = Append(queues, NewQueue(n))
  BY DEF Apply
<1>2. UNCHANGED <<registry, call, answer, reserved, task, seat, driver>>
  BY DEF Apply
<1>3. /\ task \in [Calls -> TaskStates] /\ queues \in Seq(Queue) /\ gen \in Nat
  BY DEF AdmissionInv, RegistryInv, RegistryType, BackgroundInv, BackgroundType, gen
<1>4. /\ queues' \in Seq(Queue) /\ gen' = gen + 1 /\ queues'[gen'] = NewQueue(n)
      /\ \A g \in 1..gen : queues'[g] = queues[g]
  BY <1>1, <1>3, NewQueueIsQueue DEF gen
<1>5. BackgroundInv'
  <2>1. BackgroundType'
    BY <1>2, <1>3, <1>4 DEF AdmissionInv, BackgroundInv, BackgroundType
  <2>2. Seated'
    BY <1>2, <1>3, <1>4 DEF AdmissionInv, BackgroundInv, Seated
  <2>3. Lined'
    <3>1. \A u \in Calls : ~Contains(NewQueue(n).waiting, u)
      BY DEF Contains, NewQueue
    <3>2. \A g \in 1..gen' : g \in 1..gen \/ g = gen'
      BY <1>3, <1>4
    <3>3. \A g \in 1..gen, t \in Calls : Contains(queues[g].waiting, t) =>
            task[t] \in Begun /\ seat[t] \in 1..gen'
      BY <1>3, <1>4 DEF AdmissionInv, BackgroundInv, Lined
    <3>4. \A g \in 1..gen', t \in Calls : Contains(queues'[g].waiting, t) =>
            task[t] \in Begun /\ seat[t] \in 1..gen'
      BY <1>4, <3>1, <3>2, <3>3
    <3> QED BY <1>2, <3>4 DEF Lined
  <2> QED BY <2>1, <2>2, <2>3 DEF BackgroundInv
<1>6. TaskKept /\ Live' = Live /\ InSubmission' = InSubmission
  BY <1>2, <1>3 DEF TaskKept, Live, InSubmission
<1> QED BY <1>2, <1>5, <1>6, TaskStep, ConversationShrinks DEF AdmissionInv

\* A crash leaves receipts and finished tasks; nothing is submitted, pending or
\* reserved after it.
LEMMA CrashKeeps ==
  ASSUME AdmissionAssumption, AdmissionInv, Crash
  PROVE  AdmissionInv'
<1>1. /\ task' = [t \in Calls |-> IF t \in Live THEN "interrupted" ELSE task[t]]
      /\ call' = [c \in Calls |-> IF call[c] = "none" THEN "none" ELSE "answered"]
      /\ driver' = [t \in Calls |-> IF driver[t] = "none" THEN "none" ELSE "closed"]
      /\ queues' = [g \in 1..gen |-> NewQueue(queues[g].limit)]
      /\ reserved' = {} /\ UNCHANGED seat
  BY DEF Crash
<1>2. /\ queues \in Seq(Queue) /\ gen \in Nat /\ seat \in [Calls -> Nat] /\ gen \in 1..gen
  BY DEF AdmissionInv, BackgroundInv, BackgroundType, gen
<1>3. /\ queues' \in Seq(Queue) /\ gen' = gen
      /\ \A g \in 1..gen : queues'[g].waiting = <<>>
  <2>1. \A g \in 1..gen : NewQueue(queues[g].limit) \in Queue
    <3>1. <<>> \in Seq(Calls)
      OBVIOUS
    <3>2. \A g \in 1..gen : queues[g] \in Queue
      BY <1>2 DEF gen
    <3>3. \A q \in Queue : NewQueue(q.limit) \in Queue
      BY <3>1 DEF NewQueue, Queue
    <3> QED BY <3>2, <3>3
  <2>2. queues' \in [1..gen -> Queue]
    BY <1>1, <2>1
  <2>3. queues' \in Seq(Queue) /\ Len(queues') = gen
    BY <1>2, <2>2
  <2>4. \A g \in 1..gen : queues'[g].waiting = <<>>
    BY <1>1 DEF NewQueue
  <2> QED BY <2>3, <2>4 DEF gen
<1>4. BackgroundInv'
  <2>1. driver' \in [Calls -> DriverStates]
        /\ \A t \in Calls : driver'[t] \in {"none", "closed"}
    BY <1>1 DEF DriverStates
  <2>2. BackgroundType'
    BY <1>1, <1>2, <1>3, <2>1 DEF BackgroundType
  <2>3. Seated'
    BY <2>1 DEF Seated
  <2>4. Lined'
    BY <1>3 DEF Lined, Contains
  <2> QED BY <2>2, <2>3, <2>4 DEF BackgroundInv
<1>5. ConversationInv'
  <2>1. InSubmission' = {} /\ Live' = {}
    BY <1>1 DEF InSubmission, Live
  <2> QED BY <1>1, <2>1 DEF ConversationInv, Reserved, Exclusive
<1> QED BY <1>4, <1>5, CrashStep DEF AdmissionInv

\* Every step keeps the invariant.
LEMMA AdmissionNext ==
  ASSUME AdmissionAssumption, AdmissionInv, [Next]_vars
  PROVE  AdmissionInv'
<1>1. ASSUME NEW c \in Calls, Submit(c)
      PROVE  AdmissionInv'
  BY <1>1, SubmitKeeps
<1>2. ASSUME NEW c \in Calls, Continue(c)
      PROVE  AdmissionInv'
  BY <1>2, ContinueKeeps
<1>3. ASSUME NEW c \in Calls, Drive(c)
      PROVE  AdmissionInv'
  BY <1>3, DriveKeeps
<1>4. ASSUME NEW c \in Calls, Cancel(c)
      PROVE  AdmissionInv'
  BY <1>4, CancelledKeeps DEF Cancel
<1>5. ASSUME NEW c \in Calls, CloseCancelled(c)
      PROVE  AdmissionInv'
  BY <1>5, NothingKeeps DEF CloseCancelled
<1>6. ASSUME NEW c \in Calls, SuspendOne(c)
      PROVE  AdmissionInv'
  BY <1>6, CancelledKeeps, NothingKeeps DEF SuspendOne, background
<1>7. CASE Suspend
  BY <1>7, NothingKeeps DEF Suspend, background
<1>8. CASE Apply
  BY <1>8, ApplyKeeps
<1>9. CASE Crash
  BY <1>9, CrashKeeps
<1>10. CASE UNCHANGED vars
  BY <1>10, NothingKeeps DEF vars, background
<1> QED BY <1>1, <1>2, <1>3, <1>4, <1>5, <1>6, <1>7, <1>8, <1>9, <1>10 DEF Next

\* AdmissionInv is an invariant of every behaviour.
THEOREM AdmissionAlways == Spec => []AdmissionInv
<1>1. Init => AdmissionInv
  BY AdmissionInit, AdmissionAssumption
<1>2. AdmissionInv /\ [Next]_vars => AdmissionInv'
  BY AdmissionNext, AdmissionAssumption
<1> QED BY <1>1, <1>2, PTL DEF Spec

-----------------------------------------------------------------------------
\* ExecutionRegistry.submit: for any number of concurrent submissions, retries and
\* crashes, and whatever happens to the receipts, a key creates at most one task.
THEOREM OneTaskPerKey == Spec => []CreatedOnce
<1>1. AdmissionInv => CreatedOnce
  <2> SUFFICES ASSUME AdmissionInv, NEW c \in Calls, NEW d \in Calls,
                      KeyOf[c] = KeyOf[d], KeyOf[c] # NoKey,
                      task[c] # "none", task[d] # "none"
               PROVE  c = d
    BY DEF CreatedOnce
  <2>1. receipts[KeyOf[c]].by = c /\ receipts[KeyOf[d]].by = d
    BY DEF AdmissionInv, RegistryInv, KeyOwned
  <2> QED BY <2>1
<1> QED BY <1>1, AdmissionAlways, PTL

\* ExecutionRegistry.submit: the task a call is answered with exists, and was created
\* by that call or by one with the same key and the same request.
THEOREM AnswersMatch == Spec => []AnswerMatches
<1>1. AdmissionInv => AnswerMatches
  BY DEF AdmissionInv, RegistryInv
<1> QED BY <1>1, AdmissionAlways, PTL

\* A key stands for one task and for the request that made it.
THEOREM KeysAlwaysHonoured == Spec => []KeysHonoured
<1>1. CreatedOnce /\ AnswerMatches => KeysHonoured
  BY DEF KeysHonoured
<1> QED BY <1>1, OneTaskPerKey, AnswersMatch, PTL

\* guardedSubmit: a conversation never has two pending tasks.
THEOREM ConversationsExclusive == Spec => []OneTaskPerConversation
<1>1. AdmissionInv => OneTaskPerConversation
  BY DEF AdmissionInv, ConversationInv, Exclusive, OneTaskPerConversation, Live
<1> QED BY <1>1, AdmissionAlways, PTL

-----------------------------------------------------------------------------
(* The queue and those in it.  A queue is replaced only when nobody is in   *)
(* it, so everyone inside is in the current one, was prepared under its     *)
(* configuration, and has one place: a seat that is counted, or one place   *)
(* in the line.                                                             *)

Seat == {"starting", "executing", "ended"}
Inside == {"waiting"} \cup Seat
Holders == {t \in Calls : driver[t] \in Seat}
Line == queues[gen].waiting

QueueTypes ==
  /\ restarts \in Nat /\ ready \in BOOLEAN
  /\ rev \in [Calls -> 0..gen] /\ seat \in [Calls -> 0..gen]
  /\ running \subseteq Calls /\ released \subseteq Calls /\ doomed \subseteq Calls
  /\ \A g \in 1..gen : queues[g].limit \in Limits /\ queues[g].active \in Nat

Places ==
  \A t \in Calls :
    /\ driver[t] \in Inside => seat[t] = gen
    /\ driver[t] \notin {"none", "closed"} <=> t \in running
    /\ driver[t] = "waiting" <=> Contains(Line, t)

OnePlaceEach == \A i, j \in 1..Len(Line) : Line[i] = Line[j] => i = j

Counted ==
  /\ IsFiniteSet(Holders) /\ queues[gen].active = Cardinality(Holders)
  /\ queues[gen].active <= queues[gen].limit

Versions ==
  \A t \in Calls :
    call[t] \in {"preparing", "enrolled", "made"} \/ driver[t] \in Inside \ {"ended"}
      => rev[t] = gen

\* A call is answered when its task is handed over; a task that was executed, or
\* released, is not pending any more.
Fates ==
  \A t \in Calls :
    /\ driver[t] # "none" => call[t] = "answered"
    /\ call[t] \in {"none", "joined", "creating", "preparing"} => task[t] = "none"
    /\ driver[t] \in {"ended", "leaving", "closed"} => t \notin Live
    /\ t \in released => task[t] = "over" /\ driver[t] # "executing"

QueueInv == QueueTypes /\ Places /\ OnePlaceEach /\ Counted /\ Versions /\ Fates

\* What the rest of the proof needs of the types of AdmissionInv.
LEMMA QueueBasics ==
  ASSUME AdmissionInv
  PROVE  /\ call \in [Calls -> CallStates] /\ task \in [Calls -> TaskStates]
         /\ driver \in [Calls -> DriverStates]
         /\ queues \in Seq(Queue) /\ gen \in Nat /\ gen \in 1..gen
         /\ Line \in Seq(Calls)
<1>1. queues \in Seq(Queue) /\ gen \in Nat /\ gen \in 1..gen
  BY DEF AdmissionInv, BackgroundInv, BackgroundType, gen
<1>2. queues[gen] \in Queue  BY <1>1 DEF gen
<1>3. Line \in Seq(Calls)  BY <1>2 DEF Queue, Line
<1> QED BY <1>1, <1>3 DEF AdmissionInv, RegistryInv, RegistryType, BackgroundInv, BackgroundType

\* A step outside the queue leaves places and seats as they are.
LEMMA Undisturbed ==
  ASSUME QueueInv, UNCHANGED <<queues, driver>>,
         \A t \in Calls : driver[t] \in Inside => seat'[t] = seat[t],
         UNCHANGED running
  PROVE  Places' /\ OnePlaceEach' /\ Counted' /\ gen' = gen
<1>1. gen' = gen /\ Line' = Line /\ Holders' = Holders
  BY DEF gen, Line, Holders
<1>2. Places'  BY <1>1 DEF QueueInv, Places, Inside, Seat
<1>3. OnePlaceEach'  BY <1>1 DEF QueueInv, OnePlaceEach
<1>4. Counted'  BY <1>1 DEF QueueInv, Counted
<1> QED BY <1>1, <1>2, <1>3, <1>4

\* The answer to a submission leaves every call as it was or answered.
LEMMA SettleAnswers ==
  ASSUME RegistryInv, NEW c \in Calls, call[c] \in Working,
         NEW a \in Calls \cup {"refused"}, Settle(c, a)
  PROVE  /\ call'[c] = "answered"
         /\ \A d \in Calls : call'[d] = "answered" \/ call'[d] = call[d]
<1>1. PICK b \in Calls \cup {"refused"} : Reply(c, b)
  <2>1. CASE KeyOf[c] = NoKey
    BY <2>1 DEF Settle
  <2>2. CASE KeyOf[c] # NoKey
    <3>1. \E ok \in Writes : Reply(c, IF ok THEN a ELSE "refused")
      BY <2>2 DEF Settle
    <3> QED BY <3>1
  <2> QED BY <2>1, <2>2
<1> QED BY <1>1, ReplyEffect

\* A submission that begins, goes on or ends outside the queue: calls become
\* answered, or one call moves on whose task had no driver.
LEMMA CallsMove ==
  ASSUME AdmissionInv, QueueInv, UNCHANGED <<restarts, ready, rev, background, doomed, task>>,
         NEW c \in Calls, call[c] # "answered",
         \A d \in Calls : d # c => call'[d] = "answered" \/ call'[d] = call[d],
         call'[c] \in {"creating", "joined"} => call[c] = "none",
         call'[c] = "made" => call[c] = "enrolled",
         call'[c] \in {"creating", "joined", "made", "answered"}
  PROVE  QueueInv'
<1> USE DEF background
<1>1. Places' /\ OnePlaceEach' /\ Counted' /\ gen' = gen
  BY Undisturbed
<1>2. QueueTypes'  BY <1>1 DEF QueueInv, QueueTypes
<1>3. Versions'  BY <1>1 DEF QueueInv, Versions
<1>4. Fates'  BY DEF QueueInv, Fates, Live
<1> QED BY <1>1, <1>2, <1>3, <1>4 DEF QueueInv

LEMMA SubmitQueue ==
  ASSUME AdmissionInv, QueueInv, NEW c \in Calls, Submit(c)
  PROVE  QueueInv'
<1>1. \E s \in {"creating", "joined", "answered"} : call' = [call EXCEPT ![c] = s]
  BY DEF Submit, Open, Answer
<1>2. call'[c] \in {"creating", "joined", "answered"} /\ \A d \in Calls : d # c => call'[d] = call[d]
  BY <1>1, QueueBasics
<1>3. call[c] = "none" /\ UNCHANGED <<restarts, ready, rev, background, doomed, task>>
  BY DEF Submit
<1> QED BY <1>2, <1>3, CallsMove

\* guardedSubmit notes the configuration in force.
LEMMA GuardQueue ==
  ASSUME AdmissionInv, QueueInv, NEW c \in Calls, Guard(c)
  PROVE  QueueInv'
<1>1. call[c] = "creating" /\ UNCHANGED <<restarts, ready, background, doomed, task>>
  BY DEF Guard
<1>2. CASE Admissible(c)
  <2>1. call' = [call EXCEPT ![c] = "preparing"] /\ rev' = [rev EXCEPT ![c] = gen]
    BY <1>2 DEF Guard
  <2>2. Places' /\ OnePlaceEach' /\ Counted' /\ gen' = gen
    BY <1>1, Undisturbed DEF background
  <2>3. QueueTypes'
    <3>1. gen \in 0..gen  BY QueueBasics
    <3>2. rev' \in [Calls -> 0..gen]  BY <2>1, <3>1 DEF QueueInv, QueueTypes
    <3> QED BY <1>1, <2>2, <3>2 DEF QueueInv, QueueTypes, background
  <2>4. Versions'
    BY <1>1, <2>1, <2>2, QueueBasics DEF QueueInv, QueueTypes, Versions, background
  <2>5. Fates'
    BY <1>1, <2>1, QueueBasics DEF QueueInv, Fates, Live, background
  <2> QED BY <2>2, <2>3, <2>4, <2>5 DEF QueueInv
<1>3. CASE ~Admissible(c)
  <2>1. Settle(c, "refused") /\ UNCHANGED rev  BY <1>3 DEF Guard
  <2>2. call'[c] = "answered" /\ \A d \in Calls : call'[d] = "answered" \/ call'[d] = call[d]
    BY <1>1, <2>1, SettleAnswers DEF AdmissionInv, Working
  <2> QED BY <1>1, <2>1, <2>2, CallsMove
<1> QED BY <1>2, <1>3

LEMMA EnrollQueue ==
  ASSUME AdmissionInv, QueueInv, NEW c \in Calls, Enroll(c)
  PROVE  QueueInv'
<1>1. call[c] = "preparing" /\ UNCHANGED <<restarts, ready, rev, background, doomed>>
  BY DEF Enroll
<1>2. CASE task' = [task EXCEPT ![c] = "queued"] /\ call' = [call EXCEPT ![c] = "enrolled"]
  <2>1. Places' /\ OnePlaceEach' /\ Counted' /\ gen' = gen
    BY <1>1, Undisturbed DEF background
  <2>2. QueueTypes'  BY <1>1, <2>1 DEF QueueInv, QueueTypes, background
  <2>3. Versions'
    BY <1>1, <1>2, <2>1, QueueBasics DEF QueueInv, Versions, background
  <2>4. Fates'
    BY <1>1, <1>2, QueueBasics DEF QueueInv, Fates, Live, background
  <2> QED BY <2>1, <2>2, <2>3, <2>4 DEF QueueInv
<1>3. CASE Leave(c, "refused") /\ UNCHANGED task
  <2>1. call'[c] = "answered" /\ \A d \in Calls : call'[d] = "answered" \/ call'[d] = call[d]
    BY <1>1, <1>3, SettleAnswers DEF AdmissionInv, Working, Leave
  <2> QED BY <1>1, <1>3, <2>1, CallsMove
<1> QED BY <1>2, <1>3 DEF Enroll

\* Tasks that go from pending to over, outside the queue.
LEMMA TasksEnd ==
  ASSUME AdmissionInv, QueueInv,
         UNCHANGED <<restarts, rev, seat, queues, driver, running>>,
         ready' \in BOOLEAN, doomed' \subseteq Calls, released' \subseteq Calls,
         \A t \in Calls : task'[t] = task[t] \/ (t \in Live /\ task'[t] = "over"),
         \A d \in Calls : call'[d] = call[d] \/ call'[d] = "answered",
         \A t \in released' : t \in released \/ (task[t] = "over" /\ t \notin running)
  PROVE  QueueInv'
<1>1. Places' /\ OnePlaceEach' /\ Counted' /\ gen' = gen
  BY Undisturbed
<1>2. QueueTypes'  BY <1>1 DEF QueueInv, QueueTypes
<1>3. Versions'  BY <1>1 DEF QueueInv, Versions
<1>4. Fates'
  <2>1. \A t \in Calls : t \notin running => driver[t] # "executing"
    BY DEF QueueInv, Places
  <2> QED BY <2>1 DEF QueueInv, QueueTypes, Fates, Live
<1> QED BY <1>1, <1>2, <1>3, <1>4 DEF QueueInv

LEMMA MakeQueue ==
  ASSUME AdmissionInv, QueueInv, NEW c \in Calls, Make(c)
  PROVE  QueueInv'
<1>1. call[c] = "enrolled" /\ UNCHANGED <<restarts, ready, rev, background, doomed>>
  BY DEF Make
<1>2. CASE call' = [call EXCEPT ![c] = "made"] /\ UNCHANGED task
  BY <1>1, <1>2, CallsMove, QueueBasics
<1>3. CASE Fail(c) /\ Leave(c, "refused")
  <2>1. call'[c] = "answered" /\ \A d \in Calls : call'[d] = "answered" \/ call'[d] = call[d]
    BY <1>1, <1>3, SettleAnswers DEF AdmissionInv, Working, Leave
  <2>2. driver[c] = "none"  BY <1>1 DEF QueueInv, Fates
  <2>3. Places' /\ OnePlaceEach' /\ Counted' /\ gen' = gen
    BY <1>1, Undisturbed DEF background
  <2>4. QueueTypes'  BY <1>1, <2>3 DEF QueueInv, QueueTypes, background
  <2>5. Versions'  BY <1>1, <2>1, <2>3 DEF QueueInv, Versions, background
  <2>6. task'[c] = "over" /\ \A t \in Calls : t # c => task'[t] = task[t]
    BY <1>3, QueueBasics DEF Fail
  <2>7. Fates'  BY <1>1, <2>1, <2>2, <2>6 DEF QueueInv, Fates, Live, background
  <2> QED BY <2>3, <2>4, <2>5, <2>7 DEF QueueInv
<1> QED BY <1>2, <1>3 DEF Make

\* A task is handed over: it takes a seat that is counted, or the end of the line.
LEMMA LaunchQueue ==
  ASSUME AdmissionAssumption, AdmissionInv, QueueInv, NEW c \in Calls, Launch(c)
  PROVE  QueueInv'
<1>1. /\ call[c] = "made" /\ driver[c] = "none"
      /\ UNCHANGED <<restarts, ready, task, rev, released, doomed>>
  BY DEF Launch, QueueInv, Fates
<1>2. CASE Leave(c, "refused") /\ UNCHANGED <<running, seat, queues, driver>>
  <2>1. call'[c] = "answered" /\ \A d \in Calls : call'[d] = "answered" \/ call'[d] = call[d]
    BY <1>1, <1>2, SettleAnswers DEF AdmissionInv, Working, Leave
  <2> QED BY <1>1, <1>2, <2>1, CallsMove DEF background
<1>3. CASE /\ running' = running \cup {c}
           /\ seat' = [seat EXCEPT ![c] = gen]
           /\ queues' = [queues EXCEPT ![gen] = Enter(@, c)]
           /\ driver' = [driver EXCEPT ![c] =
                IF Contains(queues'[gen].waiting, c) THEN "waiting" ELSE "starting"]
           /\ Leave(c, c)
  <2> DEFINE q == queues[gen]
             entered == Enter(q, c)
             place == IF Contains(entered.waiting, c) THEN "waiting" ELSE "starting"
  <2>1. /\ queues \in Seq(Queue) /\ gen \in Nat /\ gen \in 1..gen /\ q \in Queue
        /\ Line \in Seq(Calls) /\ Line = q.waiting
    BY QueueBasics DEF gen, Line
  <2>2. /\ gen' = gen /\ queues'[gen] = entered /\ Line' = entered.waiting
        /\ \A g \in 1..gen : g # gen => queues'[g] = queues[g]
    BY <1>3, <2>1 DEF gen, Line
  <2>3. /\ driver'[c] = place /\ \A t \in Calls : t # c => driver'[t] = driver[t]
        /\ seat'[c] = gen /\ \A t \in Calls : t # c => seat'[t] = seat[t]
        /\ seat' \in [Calls -> 0..gen] /\ place \in {"waiting", "starting"}
    BY <1>3, <2>1, <2>2, QueueBasics DEF QueueInv, QueueTypes
  <2>4. call'[c] = "answered" /\ \A d \in Calls : call'[d] = "answered" \/ call'[d] = call[d]
    BY <1>1, <1>3, SettleAnswers DEF AdmissionInv, Working, Leave
  <2>5. ~Contains(q.waiting, c)  BY <1>1, <2>1 DEF QueueInv, Places
  <2>6. entered.limit = q.limit /\ q.active \in Nat /\ q.limit \in Nat
        /\ q.active <= q.limit /\ IsFiniteSet(Holders) /\ q.active = Cardinality(Holders)
        /\ c \notin Holders
    BY <1>1, <2>1 DEF QueueInv, QueueTypes, Counted, AdmissionAssumption, Enter, Queue, Holders, Seat
  <2>7. \/ /\ q.active < q.limit /\ entered.active = q.active + 1
           /\ entered.waiting = q.waiting /\ place = "starting"
        \/ /\ q.active = q.limit /\ entered.active = q.active
           /\ entered.waiting = Append(q.waiting, c) /\ place = "waiting"
    <3>1. CASE q.active < q.limit  BY <3>1, <2>1, <2>5, <2>6 DEF Enter, Queue
    <3>2. CASE ~(q.active < q.limit)
      <4>1. q.active = q.limit  BY <3>2, <2>6
      <4>2. entered = [q EXCEPT !.waiting = Append(q.waiting, c)]  BY <3>2 DEF Enter
      <4>3. entered.waiting = Append(q.waiting, c) /\ entered.active = q.active
        BY <4>2, <2>1 DEF Queue
      <4>4. Contains(Append(q.waiting, c), c)  BY <2>1 DEF Contains
      <4> QED BY <4>1, <4>3, <4>4
    <3> QED BY <3>1, <3>2
  <2> HIDE DEF entered, place
  <2>8. QueueTypes'
    BY <1>1, <1>3, <2>1, <2>2, <2>3, <2>6, <2>7 DEF QueueInv, QueueTypes
  <2> DEFINE n == Len(Line)
  <2>15. \/ place = "starting" /\ Line' = Line
        \/ /\ place = "waiting" /\ n \in Nat /\ Len(Line') = n + 1 /\ Line'[n + 1] = c
           /\ \A i \in 1..n : Line'[i] = Line[i] /\ Line[i] # c
    BY <2>1, <2>2, <2>5, <2>7 DEF Contains
  <2>9. \A t \in Calls : Contains(Line', t) <=> Contains(Line, t) \/ (place = "waiting" /\ t = c)
    <3>1. CASE place = "waiting"
      <4> SUFFICES ASSUME NEW t \in Calls
                   PROVE  (\E i \in 1..n+1 : Line'[i] = t) <=> (\E i \in 1..n : Line[i] = t) \/ t = c
        BY <3>1, <2>15 DEF Contains
      <4>1. n + 1 \in 1..n+1 /\ 1..n \subseteq 1..n+1 /\ \A i \in 1..n+1 : i \in 1..n \/ i = n + 1
        BY <3>1, <2>15
      <4> QED BY <3>1, <2>15, <4>1
    <3> QED BY <3>1, <2>15
  <2>10. Places'
    BY <1>1, <1>3, <2>2, <2>3, <2>5, <2>9 DEF QueueInv, Places, Inside, Seat
  <2>11. OnePlaceEach'
    <3>1. CASE place = "waiting"
      <4>1. \A i \in 1..n+1 : i \in 1..n \/ i = n + 1  BY <3>1, <2>15
      <4>2. \A i, j \in 1..n+1 : Line'[i] = Line'[j] => i = j
        BY <3>1, <2>15, <4>1 DEF QueueInv, OnePlaceEach
      <4> QED BY <3>1, <4>2, <2>15 DEF OnePlaceEach
    <3> QED BY <3>1, <2>15 DEF QueueInv, OnePlaceEach
  <2>12. Counted'
    <3>1. CASE place = "starting"
      <4>1. Holders' = Holders \cup {c}
        BY <3>1, <1>1, <2>3 DEF Holders, Seat
      <4>2. IsFiniteSet(Holders') /\ Cardinality(Holders') = Cardinality(Holders) + 1
        BY <4>1, <2>6, FS_AddElement
      <4> QED BY <3>1, <4>2, <2>2, <2>6, <2>7 DEF Counted
    <3>2. CASE place = "waiting"
      <4>1. Holders' = Holders
        BY <3>2, <1>1, <2>3 DEF Holders, Seat
      <4> QED BY <3>2, <4>1, <2>2, <2>6, <2>7 DEF Counted
    <3> QED BY <3>1, <3>2, <2>3
  <2>13. Versions'
    BY <1>1, <2>2, <2>3, <2>4 DEF QueueInv, Versions
  <2>14. Fates'
    BY <1>1, <2>3, <2>4 DEF QueueInv, Fates, Live
  <2> QED BY <2>8, <2>10, <2>11, <2>12, <2>13, <2>14 DEF QueueInv
<1> QED BY <1>2, <1>3 DEF Launch

\* A task moves on in its seat, or out of the queue after it.
LEMMA SeatedQueue ==
  ASSUME AdmissionInv, QueueInv, NEW t \in Calls, Execute(t) \/ Return(t) \/ Close(t)
  PROVE  QueueInv'
<1>1. /\ UNCHANGED <<restarts, ready, call, rev, queues, seat, doomed>>
      /\ gen' = gen /\ Line' = Line
  BY DEF Execute, Return, Close, gen, Line
<1>2. \/ /\ driver[t] \in Seat /\ driver'[t] \in Seat /\ UNCHANGED <<running, released>>
         /\ driver'[t] = "ended" => task'[t] = "over"
         /\ driver'[t] # "ended" => driver[t] = "starting" /\ task[t] # "over" /\ t \notin released
      \/ /\ driver[t] = "leaving" /\ driver'[t] = "closed" /\ running' = running \ {t}
         /\ released' = released \/ (released' = released \cup {t} /\ task[t] = "over")
         /\ UNCHANGED task
  BY QueueBasics DEF Execute, Return, Close, Releasable, Seat, QueueInv, Fates
<1>3. /\ \A u \in Calls : u # t => driver'[u] = driver[u] /\ task'[u] = task[u]
      /\ driver[t] \notin {"none", "waiting"}
  BY QueueBasics DEF Execute, Return, Close
<1>4. Holders' = Holders
  BY <1>2, <1>3 DEF Holders, Seat
<1>5. QueueTypes'  BY <1>1, <1>2 DEF QueueInv, QueueTypes
<1>6. Places'  BY <1>1, <1>2, <1>3 DEF QueueInv, Places, Inside, Seat
<1>7. OnePlaceEach' /\ Counted'  BY <1>1, <1>4 DEF QueueInv, OnePlaceEach, Counted
<1>8. Versions'  BY <1>1, <1>2, <1>3 DEF QueueInv, Versions, Inside, Seat
<1>9. Fates'
  <2>1. call[t] = "answered"  BY <1>3 DEF QueueInv, Fates
  <2> QED BY <1>1, <1>2, <1>3, <2>1 DEF QueueInv, Fates, Live, Seat
<1> QED BY <1>5, <1>6, <1>7, <1>8, <1>9 DEF QueueInv

\* The finally of TaskQueue.run: the seat of an ended task is given up, or goes to
\* the first in the line, and to nobody else.
LEMMA YieldQueue ==
  ASSUME AdmissionInv, QueueInv, NEW t \in Calls, Yield(t)
  PROVE  QueueInv'
<1> DEFINE q == queues[gen]
           after == PassOn(q)
           called(u) == Contains(Line, u) /\ ~Contains(after.waiting, u)
<1>1. /\ driver[t] = "ended" /\ seat[t] = gen /\ t \in running
      /\ UNCHANGED <<restarts, ready, call, task, rev, seat, running, released, doomed>>
  BY DEF Yield, QueueInv, Places, Inside, Seat
<1>2. /\ queues \in Seq(Queue) /\ gen \in Nat /\ gen \in 1..gen /\ q \in Queue
      /\ Line \in Seq(Calls) /\ Line = q.waiting
      /\ driver \in [Calls -> DriverStates]
  BY QueueBasics DEF gen, Line
<1>3. /\ queues' = [queues EXCEPT ![gen] = after]
      /\ driver' = [u \in Calls |->
           IF u = t THEN "leaving" ELSE IF called(u) THEN "starting" ELSE driver[u]]
  BY <1>1, <1>2 DEF Yield
<1>4. /\ gen' = gen /\ queues'[gen] = after /\ Line' = after.waiting
      /\ \A g \in 1..gen : g # gen => queues'[g] = queues[g]
  BY <1>2, <1>3 DEF gen, Line
<1>5. /\ t \in Holders /\ IsFiniteSet(Holders) /\ q.active = Cardinality(Holders)
      /\ q.active <= q.limit /\ q.active \in Nat /\ q.limit \in Nat
  BY <1>1, <1>2 DEF Holders, Seat, QueueInv, Counted, QueueTypes, Queue
<1>6. Cardinality(Holders) \in Nat /\ Cardinality(Holders) >= 1
      /\ IsFiniteSet(Holders \ {t}) /\ Cardinality(Holders \ {t}) = Cardinality(Holders) - 1
  <2>1. IsFiniteSet(Holders \ {t}) /\ Cardinality(Holders \ {t}) = Cardinality(Holders) - 1
    BY <1>5, FS_RemoveElement
  <2>2. Cardinality(Holders) \in Nat /\ Cardinality(Holders \ {t}) \in Nat
    BY <1>5, <2>1, FS_CardinalityType
  <2> QED BY <2>1, <2>2
<1>7. ~Contains(Line, t)
  BY <1>1 DEF QueueInv, Places
<1>8. /\ after.limit = q.limit /\ after.waiting = IF Line = <<>> THEN <<>> ELSE Tail(Line)
      /\ after.active = IF Line = <<>> THEN q.active - 1 ELSE q.active
  BY <1>2 DEF PassOn, Queue
<1>9. CASE Line = <<>>
  <2>1. \A u \in Calls : ~Contains(Line, u)  BY <1>9 DEF Contains
  <2>2. driver'[t] = "leaving" /\ \A u \in Calls : u # t => driver'[u] = driver[u]
    BY <1>3, <2>1
  <2>3. Line' = Line  BY <1>4, <1>8, <1>9
  <2>4. QueueTypes'
    BY <1>1, <1>2, <1>4, <1>5, <1>6, <1>8, <1>9 DEF QueueInv, QueueTypes
  <2>5. Places'
    BY <1>1, <1>4, <2>2, <2>3 DEF QueueInv, Places, Inside, Seat
  <2>6. OnePlaceEach'  BY <2>3 DEF QueueInv, OnePlaceEach
  <2>7. Holders' = Holders \ {t}  BY <1>1, <2>2 DEF Holders, Seat
  <2>8. Counted'
    BY <1>4, <1>5, <1>6, <1>8, <1>9, <2>7 DEF Counted
  <2>9. Versions'  BY <1>1, <1>4, <2>2 DEF QueueInv, Versions, Inside, Seat
  <2>10. Fates'  BY <1>1, <2>2 DEF QueueInv, Fates, Live
  <2> QED BY <2>4, <2>5, <2>6, <2>8, <2>9, <2>10 DEF QueueInv
<1>10. CASE Line # <<>>
  <2> DEFINE h == Line[1]
             n == Len(Line)
  <2>1. /\ n \in Nat /\ n >= 1 /\ h \in Calls /\ Line' = Tail(Line) /\ Len(Line') = n - 1
        /\ \A i \in 1..n-1 : Line'[i] = Line[i + 1]
    BY <1>2, <1>4, <1>8, <1>10
  <2>2. \A i, j \in 1..n : Line[i] = Line[j] => i = j
    BY DEF QueueInv, OnePlaceEach
  <2>3. \A u \in Calls : Contains(Line', u) <=> Contains(Line, u) /\ u # h
    <3> SUFFICES ASSUME NEW u \in Calls
                 PROVE  (\E i \in 1..n-1 : Line'[i] = u) <=> (\E i \in 1..n : Line[i] = u) /\ u # h
      BY <2>1 DEF Contains
    <3>1. ASSUME NEW i \in 1..n-1, Line'[i] = u
          PROVE  (\E j \in 1..n : Line[j] = u) /\ u # h
      <4>1. i + 1 \in 1..n /\ 1 \in 1..n /\ i + 1 # 1 /\ Line[i + 1] = u
        BY <3>1, <2>1
      <4> QED BY <4>1, <2>2
    <3>2. ASSUME NEW i \in 1..n, Line[i] = u, u # h
          PROVE  \E j \in 1..n-1 : Line'[j] = u
      <4>1. i # 1  BY <3>2
      <4>2. i - 1 \in 1..n-1 /\ (i - 1) + 1 = i  BY <4>1, <2>1
      <4>3. Line'[i - 1] = u  BY <4>2, <2>1, <3>2
      <4> QED BY <4>2, <4>3
    <3> QED BY <3>1, <3>2
  <2>4. Contains(Line, h) /\ h # t /\ driver[h] = "waiting"
    <3>1. Contains(Line, h)  BY <2>1 DEF Contains
    <3> QED BY <3>1, <2>1, <1>7 DEF QueueInv, Places
  <2>5. /\ driver'[t] = "leaving" /\ driver'[h] = "starting"
        /\ \A u \in Calls : u # t /\ u # h => driver'[u] = driver[u]
    BY <1>3, <1>4, <2>1, <2>3, <2>4
  <2>6. QueueTypes'
    BY <1>1, <1>2, <1>4, <1>5, <1>8, <1>10 DEF QueueInv, QueueTypes
  <2>7. Places'
    BY <1>1, <1>4, <1>7, <2>1, <2>3, <2>4, <2>5 DEF QueueInv, Places, Inside, Seat
  <2>8. OnePlaceEach'
    <3> SUFFICES ASSUME NEW i \in 1..n-1, NEW j \in 1..n-1, Line'[i] = Line'[j]
                 PROVE  i = j
      BY <2>1 DEF OnePlaceEach
    <3>1. i + 1 \in 1..n /\ j + 1 \in 1..n /\ Line[i + 1] = Line[j + 1]
      BY <2>1
    <3> QED BY <3>1, <2>2
  <2>9. Counted'
    <3>1. Holders' = (Holders \ {t}) \cup {h}
      BY <1>1, <2>1, <2>4, <2>5 DEF Holders, Seat
    <3>2. h \notin Holders \ {t}
      BY <2>4 DEF Holders, Seat
    <3>3. IsFiniteSet(Holders') /\ Cardinality(Holders') = Cardinality(Holders \ {t}) + 1
      BY <3>1, <3>2, <1>6, FS_AddElement
    <3>4. Cardinality(Holders') = Cardinality(Holders)
      BY <3>3, <1>6
    <3> QED BY <1>4, <1>5, <1>8, <1>10, <3>3, <3>4 DEF Counted
  <2>10. Versions'
    BY <1>1, <1>4, <2>1, <2>4, <2>5 DEF QueueInv, Versions, Inside, Seat
  <2>11. Fates'
    BY <1>1, <2>1, <2>4, <2>5 DEF QueueInv, Fates, Live
  <2> QED BY <2>6, <2>7, <2>8, <2>9, <2>10, <2>11 DEF QueueInv
<1> QED BY <1>9, <1>10

\* Users, and an administrator who suspends everything, end tasks and release
\* those that nobody executes.
LEMMA EndQueue ==
  ASSUME AdmissionInv, QueueInv,
         NEW t \in Calls, Cancel(t) \/ CloseCancelled(t) \/ SuspendOne(t) \/ Suspend
  PROVE  QueueInv'
<1> USE DEF background
<1>0. /\ task \in [Calls -> TaskStates] /\ ready \in BOOLEAN
      /\ released \subseteq Calls /\ doomed \subseteq Calls
  BY QueueBasics DEF QueueInv, QueueTypes
<1>1. CASE Cancel(t)
  <2>1. \A u \in Calls : task'[u] = task[u] \/ (u \in Live /\ task'[u] = "over")
    BY <1>0, <1>1 DEF Cancel, Cancelled
  <2> QED BY <1>0, <1>1, <2>1, TasksEnd DEF Cancel, Cancelled
<1>2. CASE CloseCancelled(t)
  <2>1. /\ UNCHANGED <<restarts, ready, call, task, rev, seat, queues, driver, running, doomed>>
        /\ released' = released \cup {t} /\ task[t] = "over" /\ t \notin running
    BY <1>2 DEF CloseCancelled, Releasable
  <2> QED BY <1>0, <2>1, TasksEnd
<1>3. CASE SuspendOne(t)
  <2>1. \A u \in Calls : task'[u] = task[u] \/ (u \in Live /\ task'[u] = "over")
    BY <1>0, <1>3 DEF SuspendOne, Cancelled
  <2>2. /\ UNCHANGED <<restarts, ready, call, rev, seat, queues, driver, running, released>>
        /\ doomed' = doomed \ {t}
    BY <1>3 DEF SuspendOne, Cancelled
  <2> QED BY <1>0, <2>1, <2>2, TasksEnd
<1>4. CASE Suspend
  <2>1. /\ UNCHANGED <<restarts, call, task, rev, seat, queues, driver, running, released>>
        /\ ready' \in BOOLEAN /\ doomed' \subseteq Calls
    BY <1>0, <1>4 DEF Suspend, ToCancel, Live
  <2> QED BY <1>0, <2>1, TasksEnd
<1> QED BY <1>1, <1>2, <1>3, <1>4

\* A configuration is applied when nobody is in the queue: the new one is empty, and
\* nothing was prepared under the old one.
LEMMA ApplyQueue ==
  ASSUME AdmissionAssumption, AdmissionInv, QueueInv, Apply
  PROVE  QueueInv'
<1>1. PICK n \in Limits : queues' = Append(queues, NewQueue(n))
  BY DEF Apply
<1>2. /\ UNCHANGED <<restarts, call, task, rev, seat, driver, running, released, doomed>>
      /\ ready' \in BOOLEAN /\ InSubmission = {} /\ running = {} /\ n \in Nat
  BY DEF Apply, Quiet, AdmissionAssumption
<1>3. queues \in Seq(Queue) /\ gen \in Nat /\ gen \in 1..gen
  BY QueueBasics
<1>4. /\ gen' = gen + 1 /\ queues'[gen'] = NewQueue(n)
      /\ \A g \in 1..gen : queues'[g] = queues[g]
      /\ \A g \in 1..gen' : g \in 1..gen \/ g = gen'
  BY <1>1, <1>3 DEF gen
<1>5. Line' = <<>> /\ \A u \in Calls : ~Contains(Line', u)
  BY <1>4 DEF Line, NewQueue, Contains
<1>6. \A t \in Calls : driver[t] \in {"none", "closed"}
  BY <1>2 DEF QueueInv, Places
<1>7. QueueTypes'
  <2>1. 0..gen \subseteq 0..gen'  BY <1>3, <1>4
  <2>2. rev \in [Calls -> 0..gen'] /\ seat \in [Calls -> 0..gen']
    BY <2>1 DEF QueueInv, QueueTypes
  <2>3. \A g \in 1..gen' : queues'[g].limit \in Limits /\ queues'[g].active \in Nat
    BY <1>4 DEF NewQueue, QueueInv, QueueTypes
  <2> QED BY <1>2, <2>2, <2>3 DEF QueueInv, QueueTypes
<1>8. Places'
  BY <1>2, <1>5, <1>6 DEF Places, Inside, Seat
<1>9. OnePlaceEach'  BY <1>5 DEF OnePlaceEach
<1>10. Counted'
  <2>1. Holders' = {}  BY <1>2, <1>6 DEF Holders, Seat
  <2> QED BY <1>2, <1>4, <2>1, FS_EmptySet DEF Counted, NewQueue
<1>11. Versions'
  BY <1>2, <1>6 DEF Versions, InSubmission, Inside, Seat
<1>12. Fates'  BY <1>2 DEF QueueInv, Fates, Live
<1> QED BY <1>7, <1>8, <1>9, <1>10, <1>11, <1>12 DEF QueueInv

\* After a crash the queues are empty and nobody is in them.
LEMMA CrashQueue ==
  ASSUME AdmissionAssumption, AdmissionInv, QueueInv, Crash
  PROVE  QueueInv'
<1>1. /\ task' = [t \in Calls |-> IF t \in Live THEN "interrupted" ELSE task[t]]
      /\ call' = [c \in Calls |-> IF call[c] = "none" THEN "none" ELSE "answered"]
      /\ driver' = [t \in Calls |-> IF driver[t] = "none" THEN "none" ELSE "closed"]
      /\ queues' = [g \in 1..gen |-> NewQueue(queues[g].limit)]
      /\ running' = {} /\ doomed' = {} /\ restarts' = restarts + 1
      /\ UNCHANGED <<ready, rev, seat, released>>
  BY DEF Crash
<1>2. gen \in Nat /\ gen \in 1..gen  BY QueueBasics
<1>3. /\ gen' = gen
      /\ \A g \in 1..gen : /\ queues'[g].limit = queues[g].limit
                           /\ queues'[g].active = 0 /\ queues'[g].waiting = <<>>
  <2>1. Len(queues') = gen  BY <1>1, <1>2
  <2>2. \A g \in 1..gen : queues'[g] = NewQueue(queues[g].limit)  BY <1>1
  <2>3. \A n \in Limits : /\ NewQueue(n).limit = n
                          /\ NewQueue(n).active = 0 /\ NewQueue(n).waiting = <<>>
    BY DEF NewQueue
  <2>4. \A g \in 1..gen : queues[g].limit \in Limits
    BY DEF QueueInv, QueueTypes
  <2>5. gen' = gen  BY <2>1 DEF gen
  <2>6. ASSUME NEW g \in 1..gen
        PROVE  /\ queues'[g].limit = queues[g].limit
               /\ queues'[g].active = 0 /\ queues'[g].waiting = <<>>
    <3> DEFINE n == queues[g].limit
    <3>1. n \in Limits /\ queues'[g] = NewQueue(n)  BY <2>2, <2>4
    <3> HIDE DEF n
    <3>2. queues'[g].limit = n /\ queues'[g].active = 0 /\ queues'[g].waiting = <<>>
      BY <3>1, <2>3
    <3> QED BY <3>2 DEF n
  <2> QED BY <2>5, <2>6
<1>4. Line' = <<>> /\ \A u \in Calls : ~Contains(Line', u)
  <2>1. Line' = <<>>  BY <1>2, <1>3 DEF Line
  <2> QED BY <2>1 DEF Contains
<1>5. \A t \in Calls : driver'[t] \in {"none", "closed"} /\ (driver'[t] = "none" <=> driver[t] = "none")
  BY <1>1
<1>6. QueueTypes'
  <2>0. QueueTypes  BY DEF QueueInv
  <2>1. restarts' \in Nat /\ ready' \in BOOLEAN
    BY <1>1, <2>0 DEF QueueTypes
  <2>2. rev' \in [Calls -> 0..gen'] /\ seat' \in [Calls -> 0..gen']
    BY <1>1, <1>3, <2>0 DEF QueueTypes
  <2>3. running' \subseteq Calls /\ released' \subseteq Calls /\ doomed' \subseteq Calls
    BY <1>1, <2>0 DEF QueueTypes
  <2>4. ASSUME NEW g \in 1..gen' PROVE queues'[g].limit \in Limits /\ queues'[g].active \in Nat
    <3>1. g \in 1..gen  BY <1>3
    <3>2. queues[g].limit \in Limits  BY <2>0, <3>1 DEF QueueTypes
    <3>3. queues'[g].limit = queues[g].limit /\ queues'[g].active = 0  BY <1>3, <3>1
    <3> QED BY <3>2, <3>3
  <2> QED BY <2>1, <2>2, <2>3, <2>4 DEF QueueTypes
<1>7. Places'
  BY <1>1, <1>4, <1>5 DEF Places, Inside, Seat
<1>8. OnePlaceEach'  BY <1>4 DEF OnePlaceEach
<1>9. Counted'
  <2>1. Holders' = {}  BY <1>5 DEF Holders, Seat
  <2>2. queues[gen].limit \in Nat  BY <1>2 DEF QueueInv, QueueTypes, AdmissionAssumption
  <2> QED BY <1>2, <1>3, <2>1, <2>2, FS_EmptySet DEF Counted
<1>10. Versions'  BY <1>1, <1>5 DEF Versions, Inside, Seat
<1>11. Fates'
  <2>1. \A t \in Calls : t \notin Live'  BY <1>1 DEF Live
  <2>2. \A t \in released : t \notin Live /\ task[t] = "over"
    BY DEF QueueInv, QueueTypes, Fates, Live
  <2>3. \A t \in Calls : call'[t] \in {"none", "joined", "creating", "preparing"}
                           => call[t] = "none" /\ task[t] = "none"
    BY <1>1 DEF QueueInv, Fates
  <2>4. \A t \in Calls : /\ t \in released => task'[t] = "over"
                         /\ task[t] = "none" => task'[t] = "none"
                         /\ driver[t] # "none" => call'[t] = "answered"
    BY <1>1, <2>2 DEF QueueInv, Fates, Live
  <2> QED BY <1>1, <1>5, <2>1, <2>3, <2>4 DEF Fates
<1> QED BY <1>6, <1>7, <1>8, <1>9, <1>10, <1>11 DEF QueueInv

LEMMA QueueInit ==
  ASSUME AdmissionAssumption, Init
  PROVE  QueueInv
<1>1. PICK n \in Limits : queues = <<NewQueue(n)>>
  BY DEF Init
<1>2. /\ restarts = 0 /\ ready = TRUE /\ n \in Nat
      /\ call = [c \in Calls |-> "none"] /\ task = [t \in Calls |-> "none"]
      /\ rev = [t \in Calls |-> 0] /\ seat = [t \in Calls |-> 0]
      /\ driver = [t \in Calls |-> "none"]
      /\ running = {} /\ released = {} /\ doomed = {}
  BY DEF Init, AdmissionAssumption
<1>3. gen = 1 /\ queues[1] = NewQueue(n)
  BY <1>1 DEF gen
<1>4. Line = <<>> /\ \A u \in Calls : ~Contains(Line, u)
  BY <1>3 DEF Line, NewQueue, Contains
<1>5. QueueTypes  BY <1>2, <1>3 DEF QueueTypes, NewQueue
<1>6. Places  BY <1>2, <1>4 DEF Places, Inside, Seat
<1>7. OnePlaceEach  BY <1>4 DEF OnePlaceEach
<1>8. Counted
  <2>1. Holders = {}  BY <1>2 DEF Holders, Seat
  <2> QED BY <1>2, <1>3, <2>1, FS_EmptySet DEF Counted, NewQueue
<1>9. Versions  BY <1>2 DEF Versions, Inside, Seat
<1>10. Fates  BY <1>2 DEF Fates
<1> QED BY <1>5, <1>6, <1>7, <1>8, <1>9, <1>10 DEF QueueInv

LEMMA QueueNext ==
  ASSUME AdmissionAssumption, AdmissionInv, QueueInv, [Next]_vars
  PROVE  QueueInv'
<1>1. ASSUME NEW c \in Calls, Submit(c) PROVE QueueInv'
  BY <1>1, SubmitQueue
<1>2. ASSUME NEW c \in Calls, Continue(c) PROVE QueueInv'
  BY <1>2, GuardQueue, EnrollQueue, MakeQueue, LaunchQueue DEF Continue
<1>3. ASSUME NEW c \in Calls, Drive(c) PROVE QueueInv'
  BY <1>3, SeatedQueue, YieldQueue DEF Drive
<1>4. ASSUME NEW c \in Calls, Cancel(c) \/ CloseCancelled(c) \/ SuspendOne(c) PROVE QueueInv'
  BY <1>4, EndQueue
<1>5. CASE Suspend
  <2>1. CASE Calls = {}
    BY <1>5, <2>1, TasksEnd DEF Suspend, background, ToCancel, Live, QueueInv, QueueTypes
  <2>2. CASE Calls # {}  BY <1>5, <2>2, EndQueue
  <2> QED BY <2>1, <2>2
<1>6. CASE Apply  BY <1>6, ApplyQueue
<1>7. CASE Crash  BY <1>7, CrashQueue
<1>8. CASE UNCHANGED vars
  BY <1>8, TasksEnd DEF vars, background, QueueInv, QueueTypes
<1> QED BY <1>1, <1>2, <1>3, <1>4, <1>5, <1>6, <1>7, <1>8 DEF Next

LEMMA QueueAlways == Spec => [](AdmissionInv /\ QueueInv)
<1>1. Init => AdmissionInv /\ QueueInv
  BY AdmissionInit, QueueInit, AdmissionAssumption
<1>2. (AdmissionInv /\ QueueInv) /\ [Next]_vars => (AdmissionInv /\ QueueInv)'
  BY AdmissionNext, QueueNext, AdmissionAssumption
<1> QED BY <1>1, <1>2, PTL DEF Spec

\* conversationReservations holds conversations only.
LEMMA ReservedAlways == Spec => [](reserved \subseteq Convs)
<1>1. Init => reserved \subseteq Convs
  BY DEF Init
<1>2. reserved \subseteq Convs /\ [Next]_vars => (reserved \subseteq Convs)'
  <2> SUFFICES ASSUME reserved \subseteq Convs, [Next]_vars
               PROVE  reserved' \subseteq Convs
    OBVIOUS
  <2>1. ASSUME NEW c \in Calls, Continue(c) PROVE reserved' \subseteq Convs
    BY <2>1, AdmissionAssumption
       DEF Continue, Guard, Enroll, Make, Launch, Leave, AdmissionAssumption
  <2>2. ASSUME NEW c \in Calls, Drive(c) \/ Submit(c) \/ Cancel(c) \/ CloseCancelled(c) \/ SuspendOne(c)
        PROVE  reserved' \subseteq Convs
    BY <2>2 DEF Drive, Execute, Return, Yield, Close, Submit, Cancel, Cancelled,
                CloseCancelled, SuspendOne
  <2>3. CASE Suspend \/ Apply \/ Crash \/ UNCHANGED vars
    BY <2>3 DEF Suspend, Apply, Crash, vars
  <2> QED BY <2>1, <2>2, <2>3 DEF Next
<1> QED BY <1>1, <1>2, PTL DEF Spec

-----------------------------------------------------------------------------
\* TaskQueue, apply() and closeFinishedTask: for any limits, cancellations, crashes
\* and replacements of the queue, no more tasks are executed than the configuration
\* in force allows, every one under the configuration it was prepared with, and no
\* runner is released under its execution.
THEOREM QueueAlwaysSound == Spec => []QueueSound
<1>1. AdmissionInv /\ QueueInv /\ reserved \subseteq Convs => QueueSound
  <2> SUFFICES ASSUME AdmissionInv, QueueInv, reserved \subseteq Convs
               PROVE  QueueSound
    OBVIOUS
  <2>0. /\ queues \in Seq(Queue) /\ gen \in Nat /\ gen \in 1..gen
    BY QueueBasics
  <2>1. TypeOK
    <3>1. \A q \in Range(queues) : q.limit \in Limits /\ q.active \in Nat /\ Range(q.waiting) \subseteq Calls
      <4> SUFFICES ASSUME NEW g \in 1..gen
                   PROVE  /\ queues[g].limit \in Limits /\ queues[g].active \in Nat
                          /\ Range(queues[g].waiting) \subseteq Calls
        BY <2>0 DEF Range, gen
      <4>1. queues[g] \in Queue  BY <2>0 DEF gen
      <4>2. queues[g].waiting \in Seq(Calls)  BY <4>1 DEF Queue
      <4>3. Range(queues[g].waiting) \subseteq Calls  BY <4>2 DEF Range
      <4> QED BY <4>3 DEF QueueInv, QueueTypes
    <3>2. queues[gen].active
            = Cardinality({t \in Calls : driver[t] \in {"starting", "executing", "ended"}})
      BY DEF QueueInv, Counted, Holders, Seat
    <3> QED BY <3>1, <3>2, QueueBasics
          DEF TypeOK, QueueInv, QueueTypes, AdmissionInv, RegistryInv, RegistryType,
              CallStates, TaskStates, DriverStates
  <2>2. WithinConcurrency
    <3> DEFINE E == {t \in Calls : driver[t] \in {"starting", "executing"}}
    <3>1. E \subseteq Holders  BY DEF Holders, Seat
    <3>2. IsFiniteSet(Holders) /\ Cardinality(Holders) <= queues[gen].limit
      BY DEF QueueInv, Counted
    <3>3. IsFiniteSet(E) /\ Cardinality(E) <= Cardinality(Holders)
      BY <3>1, <3>2, FS_Subset
    <3>4. Cardinality(E) \in Nat /\ Cardinality(Holders) \in Nat /\ queues[gen].limit \in Nat
      BY <2>0, <3>2, <3>3, FS_CardinalityType, AdmissionAssumption
         DEF QueueInv, QueueTypes, AdmissionAssumption
    <3>5. Cardinality(E) <= queues[gen].limit
      BY <3>2, <3>3, <3>4
    <3> QED BY <3>5 DEF WithinConcurrency
  <2>3. NoSwitchInFlight  BY DEF QueueInv, Versions, NoSwitchInFlight, Inside, Seat
  <2>4. ReleasedIsIdle  BY DEF QueueInv, QueueTypes, Fates, ReleasedIsIdle
  <2> QED BY <2>1, <2>2, <2>3, <2>4 DEF QueueSound
<1> QED BY <1>1, QueueAlways, ReservedAlways, PTL

-----------------------------------------------------------------------------
(* Who runs a pending task.  When a task cannot be filed under its job the  *)
(* submission is refused and the task stays behind: the theorem excludes    *)
(* that fault, and a run shows what happens with it.                        *)

\* The reply to a submission leaves every other call that has a task alone.
LEMMA SettleOthers ==
  ASSUME RegistryInv, NEW c \in Calls, call[c] \in Working,
         NEW a \in Calls \cup {"refused"}, Settle(c, a)
  PROVE  \A d \in Calls : d # c => call'[d] = call[d] \/ call[d] = "joined"
<1>1. PICK b \in Calls \cup {"refused"} : Reply(c, b)
  <2>1. CASE KeyOf[c] = NoKey
    BY <2>1 DEF Settle
  <2>2. CASE KeyOf[c] # NoKey
    <3>1. \E ok \in Writes : Reply(c, IF ok THEN a ELSE "refused")
      BY <2>2 DEF Settle
    <3> QED BY <3>1
  <2> QED BY <2>1, <2>2
<1>2. \A d \in Calls : d # c /\ d \in Group(c) => call[d] = "joined"
  BY DEF Group
<1> QED BY <1>1, <1>2, ReplyEffect

\* A pending task is being submitted, or its execution was handed to the background
\* and is not over: no order of cancellations, suspensions, seats and crashes leaves
\* one behind that nobody will run.
THEOREM PendingAlwaysDriven ==
  ASSUME JobFaults = FALSE
  PROVE  Spec => []PendingIsDriven
<1>1. Init => PendingIsDriven
  BY DEF Init, PendingIsDriven, Live
<1>2. AdmissionInv /\ QueueInv /\ PendingIsDriven /\ [Next]_vars => PendingIsDriven'
  <2> SUFFICES ASSUME AdmissionInv, QueueInv, PendingIsDriven, [Next]_vars
               PROVE  PendingIsDriven'
    OBVIOUS
  <2> DEFINE has(t) == call[t] \in {"enrolled", "made"}
  <2>0. /\ call \in [Calls -> CallStates] /\ task \in [Calls -> TaskStates] /\ RegistryInv
    BY QueueBasics DEF AdmissionInv
  <2>1. ASSUME running \subseteq running', Live' \subseteq Live,
               \A t \in Calls : call'[t] = call[t] \/ ~has(t)
        PROVE  PendingIsDriven'
    BY <2>1 DEF PendingIsDriven, Live
  <2>2. ASSUME NEW c \in Calls, Submit(c) PROVE PendingIsDriven'
    <3>1. UNCHANGED <<task, running>> /\ call[c] = "none"
          /\ \A d \in Calls : d # c => call'[d] = call[d]
      BY <2>0, <2>2 DEF Submit, Open, Answer, background
    <3> QED BY <3>1, <2>1 DEF Live
  <2>3. ASSUME NEW c \in Calls, Guard(c) PROVE PendingIsDriven'
    <3>1. UNCHANGED <<task, running>> /\ call[c] = "creating"
      BY <2>3 DEF Guard, background
    <3>2. \A d \in Calls : d # c => call'[d] = call[d] \/ call[d] = "joined"
      BY <2>0, <2>3, <3>1, SettleOthers DEF Guard, Working
    <3> QED BY <3>1, <3>2, <2>1 DEF Live
  <2>4. ASSUME NEW c \in Calls, Enroll(c) PROVE PendingIsDriven'
    <3>1. UNCHANGED running /\ call[c] = "preparing"
      BY <2>4 DEF Enroll, background
    <3>2. CASE task' = [task EXCEPT ![c] = "queued"] /\ call' = [call EXCEPT ![c] = "enrolled"]
      BY <2>0, <3>1, <3>2 DEF PendingIsDriven, Live
    <3>3. CASE Leave(c, "refused") /\ UNCHANGED task
      <4>1. \A d \in Calls : d # c => call'[d] = call[d] \/ call[d] = "joined"
        BY <2>0, <3>1, <3>3, SettleOthers DEF Leave, Working
      <4> QED BY <3>1, <3>3, <4>1, <2>1 DEF Live
    <3> QED BY <2>4, <3>2, <3>3 DEF Enroll
  <2>5. ASSUME NEW c \in Calls, Make(c) PROVE PendingIsDriven'
    <3>1. UNCHANGED running /\ call[c] = "enrolled"
      BY <2>5 DEF Make, background
    <3>2. CASE call' = [call EXCEPT ![c] = "made"] /\ UNCHANGED task
      BY <2>0, <3>1, <3>2 DEF PendingIsDriven, Live
    <3>3. CASE Fail(c) /\ Leave(c, "refused")
      <4>1. \A d \in Calls : d # c => call'[d] = call[d] \/ call[d] = "joined"
        BY <2>0, <3>1, <3>3, SettleOthers DEF Leave, Working
      <4>2. c \notin Live' /\ \A d \in Calls : d # c => task'[d] = task[d]
        BY <2>0, <3>3 DEF Fail, Live
      <4> QED BY <3>1, <4>1, <4>2 DEF PendingIsDriven, Live
    <3> QED BY <2>5, <3>2, <3>3 DEF Make
  <2>6. ASSUME NEW c \in Calls, Launch(c) PROVE PendingIsDriven'
    <3>1. /\ running' = running \cup {c} /\ UNCHANGED task /\ call[c] = "made" /\ Leave(c, c)
      BY <2>6 DEF Launch
    <3>2. \A d \in Calls : d # c => call'[d] = call[d] \/ call[d] = "joined"
      BY <2>0, <3>1, SettleOthers DEF Leave, Working
    <3> QED BY <3>1, <3>2 DEF PendingIsDriven, Live
  <2>7. ASSUME NEW t \in Calls, Execute(t) \/ Return(t) \/ Yield(t) PROVE PendingIsDriven'
    <3>1. UNCHANGED <<call, running>>
      BY <2>7 DEF Execute, Return, Yield
    <3>2. Live' \subseteq Live
      <4>1. driver[t] = "starting" => task[t] \in Begun
        BY DEF AdmissionInv, BackgroundInv, Seated
      <4> QED BY <2>0, <2>7, <4>1 DEF Execute, Return, Yield, Live, Begun
    <3> QED BY <3>1, <3>2, <2>1
  <2>8. ASSUME NEW t \in Calls, Close(t) PROVE PendingIsDriven'
    <3>1. UNCHANGED <<call, task>> /\ running' = running \ {t} /\ t \notin Live
      BY <2>8 DEF Close, QueueInv, Fates
    <3> QED BY <3>1 DEF PendingIsDriven, Live
  <2>9. ASSUME NEW t \in Calls, Cancel(t) \/ CloseCancelled(t) \/ SuspendOne(t)
        PROVE  PendingIsDriven'
    <3>1. UNCHANGED <<call, running>>
      BY <2>9 DEF Cancel, CloseCancelled, SuspendOne, Cancelled, background
    <3>2. Live' \subseteq Live
      BY <2>0, <2>9 DEF Cancel, CloseCancelled, SuspendOne, Cancelled, Live
    <3> QED BY <3>1, <3>2, <2>1
  <2>10. CASE Suspend \/ Apply \/ UNCHANGED vars
    BY <2>10, <2>1 DEF Suspend, Apply, vars, background, Live
  <2>11. CASE Crash
    BY <2>11 DEF Crash, PendingIsDriven, Live
  <2> QED BY <2>2, <2>3, <2>4, <2>5, <2>6, <2>7, <2>8, <2>9, <2>10, <2>11
         DEF Next, Continue, Drive
<1> QED BY <1>1, <1>2, QueueAlways, PTL DEF Spec

=============================================================================
