---------------------------- MODULE ServicesProofs ----------------------------
(***************************************************************************)
(* What the components side by side in Services promise, for any number of *)
(* jobs, accounts, calls, runs, workers, tokens and login states, and      *)
(* without the bounds of the run.  One section for each component: what    *)
(* its promise needs to be inductive, that the initial states have it, and *)
(* that every step keeps it.  The theorems are at the end.                 *)
(***************************************************************************)
EXTENDS Services, FiniteSetTheorems, SequenceTheorems, WellFoundedInduction, TLAPS

-----------------------------------------------------------------------------
(* Indexing jobs.                                                           *)

LEMMA JobsConstants ==
  NoJob \notin Jobs /\ 1 \in Queues /\ Cap \in Nat
  BY ServicesAssumption

Elems(s) == {s[n] : n \in DOMAIN s}
Once(s) == \A m, n \in DOMAIN s : s[m] = s[n] => m = n

LEMMA AppendElems ==
  ASSUME NEW s \in Seq(Jobs), NEW j \in Jobs
  PROVE  /\ Append(s, j) \in Seq(Jobs) /\ Elems(Append(s, j)) = Elems(s) \cup {j}
         /\ Once(s) /\ j \notin Elems(s) => Once(Append(s, j))
<1>1. /\ Append(s, j) \in Seq(Jobs) /\ Len(s) \in Nat /\ DOMAIN s = 1 .. Len(s)
      /\ DOMAIN Append(s, j) = 1 .. Len(s) + 1 /\ Append(s, j)[Len(s) + 1] = j
      /\ \A n \in 1 .. Len(s) : Append(s, j)[n] = s[n]
  OBVIOUS
<1> DEFINE t == Append(s, j)
<1> HIDE DEF t
<1>2. \A n \in 1 .. Len(s) + 1 : n \in 1 .. Len(s) \/ n = Len(s) + 1
  BY <1>1
<1>3. Elems(t) = Elems(s) \cup {j}
  BY <1>1, <1>2 DEF Elems, t
<1>4. Once(s) /\ j \notin Elems(s) => Once(t)
  BY <1>1, <1>2 DEF Elems, Once, t
<1> QED BY <1>1, <1>3, <1>4 DEF t

LEMMA TailElems ==
  ASSUME NEW s \in Seq(Jobs), s # <<>>
  PROVE  /\ Tail(s) \in Seq(Jobs) /\ Len(Tail(s)) = Len(s) - 1 /\ Len(s) \in Nat
         /\ Head(s) \in Elems(s) /\ Head(s) \in Jobs
         /\ Once(s) => Once(Tail(s)) /\ Elems(Tail(s)) = Elems(s) \ {Head(s)}
<1>1. /\ Tail(s) \in Seq(Jobs) /\ Len(s) \in Nat \ {0} /\ DOMAIN s = 1 .. Len(s) /\ Head(s) = s[1]
      /\ Len(Tail(s)) = Len(s) - 1
      /\ DOMAIN Tail(s) = 1 .. Len(s) - 1 /\ \A n \in 1 .. Len(s) - 1 : Tail(s)[n] = s[n + 1]
  OBVIOUS
<1> DEFINE t == Tail(s)
<1> HIDE DEF t
<1>2. Head(s) \in Elems(s) /\ Head(s) \in Jobs
  BY <1>1 DEF Elems
<1>3. ASSUME Once(s) PROVE Once(t)
  BY <1>1, <1>3 DEF Once, t
<1>4. ASSUME Once(s) PROVE Elems(t) = Elems(s) \ {Head(s)}
  <2>1. ASSUME NEW x \in Elems(t) PROVE x \in Elems(s) /\ x # Head(s)
    <3>1. PICK n \in 1 .. Len(s) - 1 : x = s[n + 1]
      BY <1>1 DEF Elems, t
    <3>2. n + 1 \in 1 .. Len(s) /\ 1 \in 1 .. Len(s) /\ n + 1 # 1
      BY <1>1
    <3> QED BY <1>1, <1>4, <3>1, <3>2 DEF Elems, Once
  <2>2. ASSUME NEW x \in Elems(s), x # Head(s) PROVE x \in Elems(t)
    <3>1. PICK n \in 1 .. Len(s) : x = s[n]
      BY <1>1 DEF Elems
    <3>2. n - 1 \in 1 .. Len(s) - 1 /\ (n - 1) + 1 = n
      BY <1>1, <2>2, <3>1
    <3> QED BY <1>1, <3>1, <3>2 DEF Elems, t
  <2> QED BY <2>1, <2>2
<1> QED BY <1>1, <1>2, <1>3, <1>4 DEF t

JobTypes ==
  /\ disk \in [Jobs -> J!Open \cup {"none", "ready", "failed"}]
  /\ queue \in [Queues -> Seq(Jobs)] /\ running \in [Queues -> BOOLEAN]
  /\ doing \in [Queues -> Jobs \cup {NoJob}]
  /\ current \in Queues
  /\ jobRequests \subseteq [what : {"create", "retry"}, job : Jobs, of : Queues]

(* What J!Safe says of one queue, of two, and of the record of a job.       *)
QueueSound(i) ==
  /\ Len(queue[i]) <= Cap /\ Once(queue[i]) /\ doing[i] \notin Elems(queue[i])
  /\ \A j \in Elems(queue[i]) : disk[j] = "queued"
  /\ doing[i] # NoJob => disk[doing[i]] = "processing"
  /\ queue[i] # <<>> => running[i]
Has(i, j) == j \in Elems(queue[i]) \/ doing[i] = j
Apart == \A i, k \in Queues : \A j \in Jobs : Has(i, j) /\ Has(k, j) => i = k
Traced == \A j \in Jobs : disk[j] \in J!Open => j \in lost \/ \E i \in Queues : Has(i, j)

JobsInv == JobTypes /\ (\A i \in Queues : QueueSound(i)) /\ Apart /\ Traced

LEMMA ElemsAreJobs == JobTypes => \A i \in Queues : Elems(queue[i]) \subseteq Jobs /\ J!Waiting(i) = Elems(queue[i])
BY DEF JobTypes, Elems, J!Waiting

LEMMA JobsInvSafe == JobsInv => J!Safe
<1> SUFFICES ASSUME JobsInv PROVE J!Safe
  OBVIOUS
<1>1. \A i \in Queues : Elems(queue[i]) \subseteq Jobs /\ J!Waiting(i) = Elems(queue[i])
  BY ElemsAreJobs DEF JobsInv
<1>2. J!OnceAtATime
  <2>1. ASSUME NEW i \in Queues, NEW k \in Queues, i # k,
               NEW j \in (J!Waiting(i) \cup {doing[i]}) \cap (J!Waiting(k) \cup {doing[k]})
        PROVE  j = NoJob
    BY <1>1, <2>1 DEF JobsInv, Apart, Has, JobTypes
  <2>2. \A i \in Queues : Once(queue[i]) /\ doing[i] \notin J!Waiting(i)
    BY <1>1 DEF JobsInv, QueueSound
  <2> QED BY <2>1, <2>2 DEF J!OnceAtATime, Once
<1>3. J!DiskTells
  <2>1. \A i \in Queues : (\A j \in J!Waiting(i) : disk[j] = "queued") /\ (doing[i] # NoJob => disk[doing[i]] = "processing")
    BY <1>1 DEF JobsInv, QueueSound
  <2>2. ASSUME NEW j \in Jobs, disk[j] \in J!Open, j \notin lost PROVE j \in J!Held
    <3>1. PICK i \in Queues : Has(i, j)
      BY <2>2 DEF JobsInv, Traced
    <3>2. j \in J!Waiting(i) \cup {doing[i]} /\ j # NoJob
      BY <1>1, <3>1, JobsConstants DEF Has
    <3>3. J!Waiting(i) \cup {doing[i]} \in {J!Waiting(k) \cup {doing[k]} : k \in Queues}
      OBVIOUS
    <3>4. j \in UNION {J!Waiting(k) \cup {doing[k]} : k \in Queues}
      BY <3>2, <3>3
    <3> QED BY <3>2, <3>4 DEF J!Held
  <2> QED BY <2>1, <2>2 DEF J!DiskTells
<1> QED BY <1>2, <1>3 DEF J!Safe, JobsInv, JobTypes, QueueSound, J!WorkerThere

LEMMA JobsInit == J!Init => JobsInv
<1> SUFFICES ASSUME J!Init PROVE JobsInv
  OBVIOUS
<1>1. Elems(<<>>) = {} /\ Once(<<>>) /\ Len(<<>>) = 0
  BY DEF Elems, Once
<1>2. <<>> \in Seq(Jobs)
  OBVIOUS
<1> QED
  BY <1>1, <1>2, JobsConstants DEF J!Init, JobsInv, JobTypes, QueueSound, Has, Apart, Traced, J!Open

(* A step about the job j, which is of queue i or of none, on queue i.      *)
JobMoves(i, j) ==
  /\ JobTypes'
  /\ \A k \in Queues \ {i} : UNCHANGED <<queue[k], doing[k], running[k]>> /\ ~Has(k, j)
  /\ \A l \in Jobs \ {j} : disk'[l] = disk[l] /\ (Has(i, l)' <=> Has(i, l)) /\ (l \in lost => l \in lost')
  /\ \A l \in Jobs \ {j} : l \in Elems(queue'[i]) => l \in Elems(queue[i])
  /\ doing'[i] \in {doing[i], j, NoJob}
  /\ Len(queue'[i]) <= Cap /\ Once(queue'[i]) /\ doing'[i] \notin Elems(queue'[i])
  /\ j \in Elems(queue'[i]) => disk'[j] = "queued"
  /\ doing'[i] = j => disk'[j] = "processing"
  /\ queue'[i] # <<>> => running'[i]
  /\ disk'[j] \in J!Open => j \in lost' \/ Has(i, j)'

LEMMA JobMovesKeeps ==
  ASSUME JobsInv, NEW i \in Queues, NEW j \in Jobs, JobMoves(i, j)
  PROVE  JobsInv'
<1>1. JobTypes' /\ JobTypes
  BY DEF JobMoves, JobsInv
<1>2. \A k \in Queues : Elems(queue[k]) \subseteq Jobs /\ Elems(queue'[k]) \subseteq Jobs
  BY <1>1 DEF JobTypes, Elems
<1>3. ASSUME NEW k \in Queues PROVE QueueSound(k)'
  <2>1. CASE k = i
    BY <1>1, <1>2, <2>1, JobsConstants DEF JobMoves, JobsInv, QueueSound, JobTypes
  <2>2. CASE k # i
    <3>1. UNCHANGED <<queue[k], doing[k], running[k]>> /\ ~Has(k, j)
      BY <2>2 DEF JobMoves
    <3>2. \A l \in Jobs : Has(k, l) => disk'[l] = disk[l]
      BY <3>1 DEF JobMoves
    <3> QED BY <1>1, <1>2, <3>1, <3>2 DEF QueueSound, Has, JobsInv, JobTypes
  <2> QED BY <2>1, <2>2
<1>4. \A k \in Queues \ {i} : \A l \in Jobs : (Has(k, l)' <=> Has(k, l)) /\ ~Has(k, j)
  BY DEF JobMoves, Has
<1>5. Apart'
  BY <1>4 DEF JobMoves, JobsInv, Apart
<1>6. Traced'
  <2> SUFFICES ASSUME NEW l \in Jobs, disk'[l] \in J!Open, l \notin lost' PROVE \E k \in Queues : Has(k, l)'
    BY DEF Traced
  <2>1. CASE l = j
    BY <2>1 DEF JobMoves
  <2>2. CASE l # j
    <3>1. disk[l] \in J!Open /\ l \notin lost
      BY <2>2 DEF JobMoves
    <3>2. PICK k \in Queues : Has(k, l)
      BY <3>1 DEF JobsInv, Traced
    <3> QED BY <1>4, <2>2, <3>2 DEF JobMoves
  <2> QED BY <2>1, <2>2
<1> QED BY <1>1, <1>3, <1>5, <1>6 DEF JobsInv

(* put, push and start, of a job that nobody has.                           *)
LEMMA EnterMoves ==
  ASSUME JobsInv, NEW i \in Queues, NEW j \in Jobs, disk[j] \notin J!Open, Len(queue[i]) < Cap,
         J!Enter(i, j), UNCHANGED <<doing, current>>, lost' = lost \ {j}, jobRequests' \subseteq jobRequests
  PROVE  JobsInv'
<1>0. JobTypes /\ QueueSound(i)
  BY DEF JobsInv
<1>1. queue[i] \in Seq(Jobs) /\ Len(queue[i]) \in Nat
  BY <1>0 DEF JobTypes
<1>2. /\ queue' = [queue EXCEPT ![i] = Append(queue[i], j)]
      /\ queue'[i] = Append(queue[i], j) /\ disk' = [disk EXCEPT ![j] = "queued"]
      /\ running' = [running EXCEPT ![i] = TRUE]
  BY <1>0 DEF J!Enter, JobTypes
<1>3. \A k \in Queues : ~Has(k, j)
  <2>1. \A k \in Queues : \A l \in Elems(queue[k]) : disk[l] = "queued"
    BY DEF JobsInv, QueueSound
  <2>2. \A k \in Queues : doing[k] # NoJob => disk[doing[k]] = "processing"
    BY DEF JobsInv, QueueSound
  <2> QED BY <2>1, <2>2, JobsConstants DEF Has, J!Open
<1> DEFINE q == Append(queue[i], j)
<1>4. q \in Seq(Jobs) /\ Elems(q) = Elems(queue[i]) \cup {j} /\ Once(q) /\ Len(q) <= Cap
  BY <1>0, <1>1, <1>3, AppendElems, JobsConstants DEF QueueSound, Has
<1> HIDE DEF q
<1>5. queue' = [queue EXCEPT ![i] = q] /\ queue'[i] = q
  BY <1>2 DEF q
<1>6. JobTypes'
  BY <1>0, <1>2, <1>4, <1>5 DEF JobTypes, J!Open
<1>7. \A k \in Queues \ {i} : UNCHANGED <<queue[k], doing[k], running[k]>>
  BY <1>0, <1>2, <1>5 DEF JobTypes
<1>8. \A l \in Jobs : Has(i, l)' <=> Has(i, l) \/ l = j
  BY <1>4, <1>5 DEF Has
<1>9. running'[i] = TRUE /\ disk'[j] = "queued" /\ \A l \in Jobs \ {j} : disk'[l] = disk[l]
  BY <1>0, <1>2 DEF JobTypes
<1>10. JobMoves(i, j)
  <2>1. \A k \in Queues \ {i} : UNCHANGED <<queue[k], doing[k], running[k]>> /\ ~Has(k, j)
    BY <1>3, <1>7
  <2>2. \A l \in Jobs \ {j} : disk'[l] = disk[l] /\ (Has(i, l)' <=> Has(i, l)) /\ (l \in lost => l \in lost')
                              /\ (l \in Elems(queue'[i]) => l \in Elems(queue[i]))
    BY <1>4, <1>5, <1>8, <1>9
  <2>3. doing'[i] = doing[i] /\ doing[i] # j /\ doing[i] \notin Elems(queue[i])
    BY <1>0, <1>3 DEF Has, QueueSound
  <2>4. Len(queue'[i]) <= Cap /\ Once(queue'[i]) /\ doing'[i] \notin Elems(queue'[i])
    BY <1>4, <1>5, <2>3
  <2>5. Has(i, j)'
    BY <1>8
  <2> QED BY <1>6, <1>9, <2>1, <2>2, <2>3, <2>4, <2>5 DEF JobMoves
<1> QED BY <1>10, JobMovesKeeps

(* A job leaves queue i or its worker: what is known in both cases.         *)
LeavesOrStarts(i, j) ==
  /\ Has(i, j) /\ JobTypes'
  /\ queue' = [queue EXCEPT ![i] = queue'[i]] /\ doing' = [doing EXCEPT ![i] = doing'[i]]
  /\ Once(queue'[i]) /\ Elems(queue'[i]) = Elems(queue[i]) \ {j} /\ Len(queue'[i]) <= Len(queue[i])
  /\ running' = [running EXCEPT ![i] = running'[i]]
  /\ queue'[i] # <<>> => running'[i]
  /\ doing[i] \in {j, NoJob}
  /\ disk' = [disk EXCEPT ![j] = disk'[j]] /\ lost \subseteq lost'
  /\ \/ doing'[i] = j /\ disk'[j] = "processing"
     \/ doing'[i] = NoJob /\ (disk'[j] \notin J!Open \/ j \in lost')

LEMMA LeavesOrStartsKeeps ==
  ASSUME JobsInv, NEW i \in Queues, NEW j \in Jobs, LeavesOrStarts(i, j)
  PROVE  JobsInv'
<1>0. JobTypes /\ QueueSound(i) /\ JobTypes'
  BY DEF JobsInv, LeavesOrStarts
<1>1. \A k \in Queues \ {i} : UNCHANGED <<queue[k], doing[k], running[k]>> /\ ~Has(k, j)
  <2>1. \A k \in Queues \ {i} : ~Has(k, j)
    BY DEF LeavesOrStarts, JobsInv, Apart
  <2>2. \A k \in Queues \ {i} : queue'[k] = queue[k] /\ doing'[k] = doing[k] /\ running'[k] = running[k]
    BY <1>0 DEF LeavesOrStarts, JobTypes
  <2> QED BY <2>1, <2>2
<1>3. doing'[i] \in {j, NoJob} /\ doing[i] \in {j, NoJob} /\ NoJob \notin Jobs
  BY JobsConstants DEF LeavesOrStarts
<1>4. Elems(queue'[i]) = Elems(queue[i]) \ {j} /\ NoJob \notin Elems(queue[i])
  <2>1. Elems(queue[i]) \subseteq Jobs
    BY <1>0 DEF JobTypes, Elems
  <2> QED BY <1>3, <2>1 DEF LeavesOrStarts
<1>5. \A l \in Jobs \ {j} : disk'[l] = disk[l] /\ (Has(i, l)' <=> Has(i, l)) /\ (l \in lost => l \in lost')
  <2>1. \A l \in Jobs \ {j} : disk'[l] = disk[l]
    BY <1>0 DEF LeavesOrStarts, JobTypes
  <2>2. \A l \in Jobs \ {j} : Has(i, l)' <=> Has(i, l)
    BY <1>3, <1>4 DEF Has
  <2> QED BY <2>1, <2>2 DEF LeavesOrStarts
<1>6. Len(queue'[i]) <= Cap
  BY <1>0, JobsConstants DEF LeavesOrStarts, JobTypes, QueueSound
<1>7. doing'[i] = j \/ disk'[j] \notin J!Open \/ j \in lost'
  BY DEF LeavesOrStarts
<1>8. doing'[i] = j => disk'[j] = "processing"
  BY <1>3 DEF LeavesOrStarts
<1>9. JobMoves(i, j)
  <2>1. j \notin Elems(queue'[i]) /\ doing'[i] \notin Elems(queue'[i])
    BY <1>3, <1>4
  <2>2. disk'[j] \in J!Open => j \in lost' \/ Has(i, j)'
    BY <1>7 DEF Has
  <2>3. Once(queue'[i]) /\ (queue'[i] # <<>> => running'[i])
    BY DEF LeavesOrStarts
  <2>4. \A l \in Jobs \ {j} : l \in Elems(queue'[i]) => l \in Elems(queue[i])
    BY <1>4
  <2>5. doing'[i] \in {doing[i], j, NoJob}
    BY <1>3
  <2> QED BY <1>0, <1>1, <1>5, <1>6, <1>8, <2>1, <2>2, <2>3, <2>4, <2>5 DEF JobMoves
<1> QED BY <1>9, JobMovesKeeps

(* The catch of the loop.                                                   *)
LEMMA FailsLeaves ==
  ASSUME JobsInv, NEW i \in Queues, NEW j \in Jobs, NEW f, NEW q \in Seq(Jobs),
         J!Fails(i, j, f, q), queue' = [queue EXCEPT ![i] = q],
         Has(i, j), doing[i] \in {j, NoJob}, q # <<>> => running[i],
         Once(q), Elems(q) = Elems(queue[i]) \ {j}, Len(q) <= Len(queue[i]),
         UNCHANGED <<current, jobRequests>>
  PROVE  JobsInv'
<1>0. JobTypes
  BY DEF JobsInv
<1>1. /\ doing' = [doing EXCEPT ![i] = NoJob]
      /\ \/ disk' = [disk EXCEPT ![j] = "failed"] /\ UNCHANGED <<running, lost>>
         \/ running' = [running EXCEPT ![i] = q # <<>>] /\ lost' = lost \cup {j} /\ UNCHANGED disk
  BY DEF J!Fails
<1>2. JobTypes'
  BY <1>0, <1>1 DEF JobTypes
<1>3. /\ queue'[i] = q /\ doing'[i] = NoJob /\ queue' = [queue EXCEPT ![i] = queue'[i]]
      /\ doing' = [doing EXCEPT ![i] = doing'[i]]
  BY <1>0, <1>1 DEF JobTypes
<1>4. running' = [running EXCEPT ![i] = running'[i]] /\ (q # <<>> => running'[i])
  BY <1>0, <1>1 DEF JobTypes
<1>5. /\ disk' = [disk EXCEPT ![j] = disk'[j]] /\ lost \subseteq lost'
      /\ disk'[j] \notin J!Open \/ j \in lost'
  BY <1>0, <1>1 DEF JobTypes, J!Open
<1>6. LeavesOrStarts(i, j)
  BY <1>2, <1>3, <1>4, <1>5 DEF LeavesOrStarts
<1> QED BY <1>6, LeavesOrStartsKeeps

LEMMA JobsStep == ASSUME JobsInv, J!Next PROVE JobsInv'
<1>0. JobTypes /\ \A i \in Queues : QueueSound(i)
  BY DEF JobsInv
<1>1. ASSUME UNCHANGED <<disk, queue, running, doing, lost>>, current' \in Queues,
             jobRequests' \subseteq [what : {"create", "retry"}, job : Jobs, of : Queues]
      PROVE  JobsInv'
  BY <1>0, <1>1 DEF JobsInv, JobTypes, QueueSound, Has, Apart, Traced
<1>2. ASSUME NEW what \in {"create", "retry"}, NEW j \in Jobs, J!Arrive(what, j) PROVE JobsInv'
  BY <1>0, <1>1, <1>2 DEF J!Arrive, JobTypes, J!workers
<1>3. ASSUME NEW r \in jobRequests, J!Serve(r) PROVE JobsInv'
  <2>1. r.of \in Queues /\ r.job \in Jobs
    BY <1>0 DEF JobTypes
  <2>2. jobRequests' \subseteq jobRequests /\ UNCHANGED <<doing, current>>
    BY <1>3 DEF J!Serve
  <2>3. CASE UNCHANGED <<disk, queue, running, lost>>
    BY <1>0, <1>1, <2>2, <2>3 DEF JobTypes
  <2>4. CASE /\ J!Creates(r.of, r.job) \/ J!Retries(r.of, r.job)
             /\ J!Enter(r.of, r.job) /\ lost' = lost \ {r.job}
    <3>1. disk[r.job] \notin J!Open /\ Len(queue[r.of]) < Cap
      BY <2>4 DEF J!Creates, J!Retries, J!Open
    <3> QED BY <2>1, <2>2, <2>4, <3>1, EnterMoves
  <2> QED BY <1>3, <2>3, <2>4 DEF J!Serve
<1>4. ASSUME NEW i \in Queues, J!Take(i) PROVE JobsInv'
  <2> DEFINE j == Head(queue[i])
             q == Tail(queue[i])
  <2>1. running[i] /\ doing[i] = NoJob /\ queue[i] # <<>> /\ queue' = [queue EXCEPT ![i] = q]
        /\ UNCHANGED <<current, jobRequests>>
    BY <1>4 DEF J!Take
  <2>2. queue[i] \in Seq(Jobs) /\ Once(queue[i])
    BY <1>0 DEF JobTypes, QueueSound
  <2>3. /\ j \in Jobs /\ j \in Elems(queue[i]) /\ q \in Seq(Jobs) /\ Once(q)
        /\ Elems(q) = Elems(queue[i]) \ {j} /\ Len(q) <= Len(queue[i])
    BY <2>1, <2>2, TailElems
  <2>4. CASE J!Fails(i, j, 1, q)
    BY <2>1, <2>3, <2>4, FailsLeaves DEF Has
  <2>5. CASE /\ disk' = [disk EXCEPT ![j] = "processing"] /\ doing' = [doing EXCEPT ![i] = j]
             /\ UNCHANGED <<running, lost>>
    <3> HIDE DEF j, q
    <3>1. JobTypes'
      BY <1>0, <2>1, <2>3, <2>5 DEF JobTypes, J!Open
    <3>2. /\ queue'[i] = q /\ doing'[i] = j /\ queue' = [queue EXCEPT ![i] = queue'[i]]
          /\ doing' = [doing EXCEPT ![i] = doing'[i]] /\ disk'[j] = "processing"
          /\ disk' = [disk EXCEPT ![j] = disk'[j]] /\ running' = [running EXCEPT ![i] = running'[i]]
          /\ running'[i]
      BY <1>0, <2>1, <2>3, <2>5 DEF JobTypes
    <3>3. LeavesOrStarts(i, j)
      BY <2>1, <2>3, <2>5, <3>1, <3>2 DEF LeavesOrStarts, Has
    <3> QED BY <2>3, <3>3, LeavesOrStartsKeeps
  <2> QED BY <1>4, <2>4, <2>5 DEF J!Take
<1>5. ASSUME NEW i \in Queues, J!Rest(i) PROVE JobsInv'
  <2>1. /\ queue[i] = <<>> /\ running' = [running EXCEPT ![i] = FALSE]
        /\ UNCHANGED <<disk, queue, doing, current, jobRequests, lost>>
    BY <1>5 DEF J!Rest
  <2> QED BY <1>0, <2>1 DEF JobsInv, JobTypes, QueueSound, Has, Apart, Traced
<1>6. ASSUME NEW i \in Queues, J!Indexed(i) PROVE JobsInv'
  <2> DEFINE j == doing[i]
             q == queue[i]
  <2>1. j # NoJob /\ UNCHANGED <<queue, current, jobRequests>>
    BY <1>6 DEF J!Indexed
  <2>2. /\ j \in Jobs /\ j \notin Elems(q) /\ q \in Seq(Jobs) /\ Once(q)
        /\ queue' = [queue EXCEPT ![i] = q] /\ queue'[i] = q /\ (q # <<>> => running[i])
    BY <1>0, <2>1 DEF JobTypes, QueueSound
  <2>3. Elems(q) = Elems(queue[i]) \ {j} /\ Len(q) <= Len(queue[i]) /\ Has(i, j)
    BY <2>2 DEF Has
  <2>4. ASSUME NEW f, J!Fails(i, j, f, q) PROVE JobsInv'
    <3>1. doing[i] \in {j, NoJob} /\ UNCHANGED <<current, jobRequests>>
      BY <2>1
    <3> HIDE DEF j, q
    <3> QED BY <2>2, <2>3, <2>4, <3>1, FailsLeaves
  <2>5. CASE /\ disk' = [disk EXCEPT ![doing[i]] = "ready"] /\ doing' = [doing EXCEPT ![i] = NoJob]
             /\ UNCHANGED <<running, lost>>
    <3>1. JobTypes'
      BY <1>0, <2>1, <2>2, <2>5 DEF JobTypes
    <3>2. /\ doing'[i] = NoJob /\ doing' = [doing EXCEPT ![i] = doing'[i]] /\ disk'[j] = "ready"
          /\ disk' = [disk EXCEPT ![j] = disk'[j]] /\ running' = [running EXCEPT ![i] = running'[i]]
      BY <1>0, <2>1, <2>2, <2>5 DEF JobTypes
    <3>3. doing[i] \in {j, NoJob} /\ queue' = [queue EXCEPT ![i] = queue'[i]] /\ running'[i] = running[i]
          /\ lost \subseteq lost' /\ disk'[j] \notin J!Open
      BY <1>0, <2>1, <2>2, <2>5, <3>2 DEF JobTypes, J!Open
    <3> HIDE DEF j, q
    <3>4. LeavesOrStarts(i, j)
      BY <2>2, <2>3, <3>1, <3>2, <3>3 DEF LeavesOrStarts
    <3> QED BY <2>2, <3>4, LeavesOrStartsKeeps
  <2> QED BY <1>6, <2>4, <2>5 DEF J!Indexed
<1>7. CASE J!Publish
  BY <1>0, <1>1, <1>7 DEF J!Publish, JobTypes, J!workers
<1>8. CASE J!SetEnabled
  BY <1>0, <1>1, <1>8 DEF J!SetEnabled, JobTypes, J!workers
<1>9. CASE J!Restart
  <2>1. Elems(<<>>) = {} /\ Once(<<>>) /\ Len(<<>>) = 0 /\ <<>> \in Seq(Jobs)
    BY DEF Elems, Once
  <2>2. /\ queue' = [i \in Queues |-> <<>>] /\ running' = [i \in Queues |-> FALSE]
        /\ doing' = [i \in Queues |-> NoJob] /\ current' = 1 /\ jobRequests' = {}
    BY <1>9 DEF J!Restart
  <2>3. /\ disk' \in [Jobs -> J!Open \cup {"none", "ready", "failed"}]
        /\ \A j \in Jobs : disk'[j] \in J!Open => j \in lost'
    BY <1>0, <1>9 DEF J!Restart, J!Open, JobTypes
  <2>4. JobTypes'
    BY <2>1, <2>2, <2>3, JobsConstants DEF JobTypes
  <2>5. \A i \in Queues : QueueSound(i)'
    BY <2>1, <2>2, JobsConstants DEF QueueSound
  <2>6. Apart' /\ Traced'
    BY <2>1, <2>2, <2>3, JobsConstants DEF Apart, Traced, Has
  <2> QED BY <2>4, <2>5, <2>6 DEF JobsInv
<1> QED BY <1>2, <1>3, <1>4, <1>5, <1>6, <1>7, <1>8, <1>9 DEF J!Next, J!Works

LEMMA JobsStay == ASSUME JobsInv, UNCHANGED jobs PROVE JobsInv'
  BY DEF jobs,
      JobsInv, Apart, Has, JobTypes, QueueSound, Traced

-----------------------------------------------------------------------------
(* Evaluation runs.                                                         *)

LEMMA EvaluationsConstants ==
  IsFiniteSet(EvWorkers) /\ EvSize \in Nat
  BY ServicesAssumption

(* The instance counts as this module does.                                 *)
LEMMA EvaluationsCount == \A set : E!Cardinality(set) = Cardinality(set)
  BY DEF E!Cardinality, Cardinality

RunStatuses == E!Outcomes \cup {"none", "running", "lost"}

EvalTypes ==
  /\ evStatus \in [EvRuns -> RunStatuses] /\ evResults \in [EvRuns -> SUBSET E!Cases]
  /\ evSaved \in [EvRuns -> [status : RunStatuses, results : SUBSET E!Cases]]
  /\ evBusy \subseteq EvRuns /\ evNext \in [EvRuns -> 1 .. EvSize + 1]
  /\ evWorker \in [EvRuns -> [EvWorkers -> 0 .. EvSize + 1]]
  /\ evExceeded \in [EvRuns -> BOOLEAN] /\ evTaken \in [EvRuns -> [E!Cases -> Nat]]

(* The cases before the next one were taken once each, those with a result  *)
(* or a worker among them.                                                  *)
CasesSound(r) ==
  /\ \A c \in E!Cases : evTaken[r][c] = IF c < evNext[r] THEN 1 ELSE 0
  /\ \A c \in evResults[r] : c < evNext[r]
  /\ \A w \in EvWorkers : evWorker[r][w] \in E!Cases => evWorker[r][w] < evNext[r] /\ evBusy = {r}
  /\ evNext[r] > 1 => EvWorkers # {}

(* A case of a running run that was taken is answered or at work; a worker  *)
(* that has gone found no further one.                                      *)
RunningSound(r) ==
  evStatus[r] = "running" =>
    /\ evBusy = {r}
    /\ \A c \in E!Cases : c < evNext[r] => c \in evResults[r] \/ \E w \in EvWorkers : evWorker[r][w] = c
    /\ ~evExceeded[r] /\ evNext[r] > 1 =>
         \A w \in EvWorkers : evWorker[r][w] = E!None => evNext[r] > EvSize

FileSound(r) ==
  /\ evSaved[r].results \subseteq evResults[r]
  /\ evSaved[r].status \in E!Outcomes => evStatus[r] = evSaved[r].status
  /\ evSaved[r].status = "completed" => evSaved[r].results = E!Cases
  /\ evStatus[r] = "none" => evSaved[r].status = "none" /\ evNext[r] = 1
  /\ evStatus[r] = "completed" =>
       /\ evResults[r] = E!Cases /\ ~evExceeded[r]
       /\ \A w \in EvWorkers : evWorker[r][w] \notin E!Cases

RunSound(r) == CasesSound(r) /\ RunningSound(r) /\ FileSound(r)

EvaluationsInv == EvalTypes /\ \A r \in EvRuns : RunSound(r)

LEMMA EvaluationsInvSafe == EvaluationsInv => E!Safe
<1> SUFFICES ASSUME EvaluationsInv PROVE E!Safe
  OBVIOUS
<1>1. E!CompletedIsWhole /\ E!FileTells
  BY DEF EvaluationsInv, RunSound, FileSound, E!CompletedIsWhole, E!FileTells
<1>2. E!TakenOnce
  <2> SUFFICES ASSUME NEW r \in EvRuns
               PROVE  /\ \A c \in E!Cases : evTaken[r][c] <= 1
                      /\ evResults[r] \subseteq {c \in E!Cases : evTaken[r][c] = 1}
                      /\ (\E w \in EvWorkers : evWorker[r][w] \in E!Cases) => evBusy = {r}
    BY DEF E!TakenOnce
  <2> QED BY DEF EvaluationsInv, EvalTypes, RunSound, CasesSound, E!Cases
<1> QED BY <1>1, <1>2 DEF E!Safe

LEMMA EvaluationsInit == E!Init => EvaluationsInv
<1> SUFFICES ASSUME E!Init PROVE EvaluationsInv
  OBVIOUS
<1> USE EvaluationsConstants DEF E!Init, E!Cases, E!None, E!Outcomes
<1>1. EvalTypes
  BY DEF EvalTypes, RunStatuses
<1>2. ASSUME NEW r \in EvRuns PROVE RunSound(r)
  BY DEF RunSound, CasesSound, RunningSound, FileSound
<1> QED BY <1>1, <1>2 DEF EvaluationsInv

(* save() of a run whose memory is what it is now.                          *)
SavesRun(r) ==
  \/ evSaved'[r] = evSaved[r]
  \/ evSaved'[r].status = evStatus'[r] /\ evSaved'[r].results = evResults'[r]

LEMMA SavesEach ==
  ASSUME EvalTypes, evStatus' \in [EvRuns -> RunStatuses], evResults' \in [EvRuns -> SUBSET E!Cases],
         NEW ok \in BOOLEAN, E!Saves(ok)
  PROVE  /\ evSaved' \in [EvRuns -> [status : RunStatuses, results : SUBSET E!Cases]]
         /\ \A r \in EvRuns : SavesRun(r)
BY DEF EvalTypes, E!Saves, SavesRun

(* A run that takes no part in the step.                                    *)
RunStays(r) ==
  /\ evStatus'[r] = evStatus[r] /\ evResults'[r] = evResults[r] /\ evNext'[r] = evNext[r]
  /\ evWorker'[r] = evWorker[r] /\ evExceeded'[r] = evExceeded[r] /\ evTaken'[r] = evTaken[r]
  /\ evBusy = {r} => evBusy' = {r}
  /\ SavesRun(r)

LEMMA RunStaysSound == ASSUME NEW r \in EvRuns, EvalTypes, RunSound(r), RunStays(r) PROVE RunSound(r)'
<1>1. CasesSound(r)'
  BY DEF RunSound, RunStays, CasesSound
<1>2. RunningSound(r)'
  BY DEF RunSound, RunStays, RunningSound
<1>3. FileSound(r)'
  BY DEF RunSound, RunStays, FileSound, SavesRun
<1> QED BY <1>1, <1>2, <1>3 DEF RunSound

LEMMA CountUpTo == \A n \in Nat : Cardinality(1 .. n) = n
<1> SUFFICES ASSUME NEW n \in Nat PROVE Cardinality(1 .. n) = n
  OBVIOUS
<1>1. Cardinality(1 .. n) = IF 1 > n THEN 0 ELSE n - 1 + 1
  BY FS_Interval
<1> QED BY <1>1

LEMMA EvaluationsStep == ASSUME EvaluationsInv, E!Next PROVE EvaluationsInv'
<1> USE EvaluationsConstants DEF E!Cases, E!None, E!Broken
<1>0. EvalTypes /\ \A r \in EvRuns : RunSound(r)
  BY DEF EvaluationsInv
<1>1. ASSUME NEW r \in EvRuns, EvalTypes', RunSound(r)', \A q \in EvRuns \ {r} : RunStays(q)
      PROVE  EvaluationsInv'
  BY <1>0, <1>1, RunStaysSound DEF EvaluationsInv
<1>2. ASSUME NEW r \in EvRuns, E!Start(r) PROVE EvaluationsInv'
  <2>1. /\ evStatus[r] = "none" /\ evBusy = {} /\ evStatus' = [evStatus EXCEPT ![r] = "running"]
        /\ evBusy' = {r} /\ UNCHANGED <<evResults, evExceeded>>
    BY <1>2 DEF E!Start
  <2>2. evNext[r] = 1 /\ evSaved[r].status = "none" /\ evResults[r] = {}
        /\ \A w \in EvWorkers : evWorker[r][w] \notin E!Cases
    BY <1>0, <2>1 DEF RunSound, FileSound, CasesSound, EvalTypes
  <2>3. PICK ok \in BOOLEAN : /\ E!Saves(ok)
          /\ IF ok THEN \E first \in [EvWorkers -> E!Cases \cup {E!None}] :
                 LET begun == {first[w] : w \in EvWorkers} \ {E!None} IN
                 /\ begun = {c \in E!Cases : c <= E!Cardinality(EvWorkers)}
                 /\ \A v, w \in EvWorkers : first[v] = first[w] => v = w \/ first[v] = E!None
                 /\ evWorker' = [evWorker EXCEPT ![r] = first]
                 /\ evNext' = [evNext EXCEPT ![r] = E!Cardinality(begun) + 1]
                 /\ evTaken' = [evTaken EXCEPT ![r] = [c \in E!Cases |-> IF c \in begun THEN 1 ELSE 0]]
             ELSE UNCHANGED <<evWorker, evNext, evTaken>>
    BY <1>2 DEF E!Start
  <2>4. evStatus' \in [EvRuns -> RunStatuses] /\ evResults' \in [EvRuns -> SUBSET E!Cases]
    BY <1>0, <2>1 DEF EvalTypes, RunStatuses
  <2>5. /\ evSaved' \in [EvRuns -> [status : RunStatuses, results : SUBSET E!Cases]]
        /\ \A q \in EvRuns : SavesRun(q)
    BY <1>0, <2>3, <2>4, SavesEach
  <2>6. evStatus'[r] = "running" /\ evResults'[r] = {} /\ FileSound(r)'
    BY <1>0, <2>1, <2>2, <2>5 DEF EvalTypes, FileSound, SavesRun, E!Outcomes, RunSound
  <2>7. CASE ~ok
    <3>1. EvalTypes'
      BY <1>0, <2>1, <2>3, <2>4, <2>5, <2>7 DEF EvalTypes
    <3>2. CasesSound(r)' /\ RunningSound(r)'
      BY <1>0, <2>1, <2>2, <2>3, <2>6, <2>7 DEF RunSound, CasesSound, RunningSound, EvalTypes
    <3>3. \A q \in EvRuns \ {r} : RunStays(q)
      BY <1>0, <2>1, <2>3, <2>5, <2>7 DEF RunStays, EvalTypes
    <3> QED BY <1>1, <2>6, <3>1, <3>2, <3>3 DEF RunSound
  <2>8. CASE ok
    <3>1. PICK first \in [EvWorkers -> E!Cases \cup {E!None}] :
                 LET begun == {first[w] : w \in EvWorkers} \ {E!None} IN
                 /\ begun = {c \in E!Cases : c <= E!Cardinality(EvWorkers)}
                 /\ \A v, w \in EvWorkers : first[v] = first[w] => v = w \/ first[v] = E!None
                 /\ evWorker' = [evWorker EXCEPT ![r] = first]
                 /\ evNext' = [evNext EXCEPT ![r] = E!Cardinality(begun) + 1]
                 /\ evTaken' = [evTaken EXCEPT ![r] = [c \in E!Cases |-> IF c \in begun THEN 1 ELSE 0]]
      BY <2>3, <2>8
    <3> DEFINE begun == {first[w] : w \in EvWorkers} \ {E!None}
               n == Cardinality(EvWorkers)
               b == IF n <= EvSize THEN n ELSE EvSize
    <3>2. n \in Nat /\ b \in 0 .. EvSize /\ b <= n
      BY FS_CardinalityType
    <3>a. E!Cardinality(EvWorkers) = n
      BY EvaluationsCount
    <3>3. begun = 1 .. b
      BY <3>1, <3>2, <3>a
    <3>4. E!Cardinality(begun) = b
      BY <3>2, <3>3, CountUpTo, EvaluationsCount
    <3>5. (\E w \in EvWorkers : first[w] = E!None) => b = EvSize
      <4> SUFFICES ASSUME NEW w \in EvWorkers, first[w] = E!None, b < EvSize PROVE FALSE
        BY <3>2
      <4>1. b = n /\ begun = 1 .. n
        BY <3>2, <3>3
      <4> DEFINE rest == EvWorkers \ {w}
      <4>2. IsFiniteSet(rest) /\ Cardinality(rest) = n - 1
        BY FS_RemoveElement
      <4> DEFINE f == [c \in 1 .. n |-> CHOOSE v \in rest : first[v] = c]
      <4>3. \A c \in 1 .. n : f[c] \in rest /\ first[f[c]] = c
        BY <4>1
      <4>4. \A c, d \in 1 .. n : f[c] = f[d] => c = d
        BY <4>3
      <4>5. f \in [1 .. n -> rest]
        BY <4>3
      <4> HIDE DEF f, rest
      <4>6. f \in Injection(1 .. n, rest)
        BY <4>4, <4>5 DEF Injection, IsInjective
      <4>7. Cardinality(1 .. n) <= n - 1
        BY <4>2, <4>6, FS_Injection
      <4> QED BY <3>2, <4>7, CountUpTo
    <3>6. b > 0 => EvWorkers # {}
      BY <3>2, <3>3
    <3>7. /\ evWorker' = [evWorker EXCEPT ![r] = first] /\ evNext' = [evNext EXCEPT ![r] = b + 1]
          /\ evTaken' = [evTaken EXCEPT ![r] = [c \in E!Cases |-> IF c \in 1 .. b THEN 1 ELSE 0]]
          /\ first \in [EvWorkers -> 0 .. EvSize] /\ \A c \in 1 .. b : \E w \in EvWorkers : first[w] = c
          /\ \A w \in EvWorkers : first[w] \in E!Cases => first[w] \in 1 .. b
      <4>1. /\ evWorker' = [evWorker EXCEPT ![r] = first] /\ evNext' = [evNext EXCEPT ![r] = b + 1]
            /\ evTaken' = [evTaken EXCEPT ![r] = [c \in E!Cases |-> IF c \in 1 .. b THEN 1 ELSE 0]]
        BY <3>1, <3>3, <3>4
      <4>2. first \in [EvWorkers -> 0 .. EvSize]
        OBVIOUS
      <4> HIDE DEF b, n
      <4>3. \A c \in 1 .. b : \E w \in EvWorkers : first[w] = c
        BY <3>3
      <4>4. \A w \in EvWorkers : first[w] \in E!Cases => first[w] \in 1 .. b
        <5> SUFFICES ASSUME NEW w \in EvWorkers, first[w] \in E!Cases PROVE first[w] \in begun
          BY <3>3
        <5> QED OBVIOUS
      <4> QED BY <4>1, <4>2, <4>3, <4>4
    <3> HIDE DEF begun, b, n
    <3>8. EvalTypes'
      BY <1>0, <2>1, <2>4, <2>5, <3>2, <3>7 DEF EvalTypes
    <3>9. evNext'[r] = b + 1 /\ evWorker'[r] = first
          /\ evTaken'[r] = [c \in E!Cases |-> IF c \in 1 .. b THEN 1 ELSE 0]
      BY <1>0, <3>7 DEF EvalTypes
    <3>10. CasesSound(r)'
      BY <2>1, <2>6, <3>2, <3>6, <3>7, <3>9 DEF CasesSound
    <3>11. RunningSound(r)'
      BY <2>1, <3>2, <3>5, <3>7, <3>9 DEF RunningSound
    <3>12. \A q \in EvRuns \ {r} : RunStays(q)
      BY <1>0, <2>1, <2>5, <3>7 DEF RunStays, EvalTypes
    <3> QED BY <1>1, <2>6, <3>8, <3>10, <3>11, <3>12 DEF RunSound
  <2> QED BY <2>7, <2>8
<1>3. ASSUME NEW r \in EvRuns, E!Exceed(r) PROVE EvaluationsInv'
  <2>1. EvalTypes'
    BY <1>0, <1>3 DEF E!Exceed, EvalTypes
  <2>2. \A q \in EvRuns \ {r} : RunStays(q)
    BY <1>0, <1>3 DEF E!Exceed, EvalTypes, RunStays, SavesRun
  <2>3. RunSound(r)'
    BY <1>0, <1>3 DEF E!Exceed, EvalTypes, RunSound, CasesSound, RunningSound, FileSound
  <2> QED BY <1>1, <2>1, <2>2, <2>3
<1>4. ASSUME NEW r \in EvRuns, NEW w \in EvWorkers, E!CaseEnds(r, w) PROVE EvaluationsInv'
  <2> DEFINE c == evWorker[r][w]
  <2>1. PICK ok \in BOOLEAN : /\ E!Saves(ok)
       /\ IF ok /\ E!MayGoOn(r)
          THEN /\ evWorker' = [evWorker EXCEPT ![r][w] = evNext[r]]
               /\ evNext' = [evNext EXCEPT ![r] = @ + 1]
               /\ evTaken' = [evTaken EXCEPT ![r][evNext[r]] = @ + 1]
          ELSE /\ evWorker' = [evWorker EXCEPT ![r][w] = IF ok THEN E!None ELSE E!Broken]
               /\ UNCHANGED <<evNext, evTaken>>
    BY <1>4 DEF E!CaseEnds
  <2>2. /\ c \in E!Cases /\ evResults' = [evResults EXCEPT ![r] = @ \cup {c}]
        /\ UNCHANGED <<evStatus, evBusy, evExceeded>> /\ evBusy = {r} /\ c < evNext[r]
        /\ evResults'[r] = evResults[r] \cup {c} /\ evStatus[r] # "none" /\ evStatus[r] # "completed"
    BY <1>0, <1>4 DEF E!CaseEnds, EvalTypes, RunSound, CasesSound, FileSound
  <2>4. evStatus' \in [EvRuns -> RunStatuses] /\ evResults' \in [EvRuns -> SUBSET E!Cases]
    BY <1>0, <2>2 DEF EvalTypes
  <2>5. /\ evSaved' \in [EvRuns -> [status : RunStatuses, results : SUBSET E!Cases]]
        /\ \A q \in EvRuns : SavesRun(q)
    BY <1>0, <2>1, <2>4, SavesEach
  <2>6. FileSound(r)'
    BY <1>0, <2>2, <2>4, <2>5 DEF FileSound, SavesRun, RunSound, EvalTypes
  <2>7. CASE ok /\ E!MayGoOn(r)
    <3>1. evNext[r] \in 1 .. EvSize /\ ~evExceeded[r] /\ evStatus[r] = "running"
      BY <1>0, <2>7 DEF E!MayGoOn, EvalTypes
    <3>2. EvalTypes'
      <4>1. evTaken' \in [EvRuns -> [E!Cases -> Nat]]
        <5> DEFINE k == evNext[r]
                   f == [evTaken[r] EXCEPT ![k] = @ + 1]
        <5>1. evTaken[r] \in [E!Cases -> Nat] /\ k \in E!Cases
          BY <1>0, <3>1 DEF EvalTypes
        <5>2. f \in [E!Cases -> Nat] /\ evTaken' = [evTaken EXCEPT ![r] = f]
          BY <1>0, <2>1, <2>7, <5>1 DEF EvalTypes
        <5> HIDE DEF f
        <5> QED BY <1>0, <5>2 DEF EvalTypes
      <4>2. evWorker' \in [EvRuns -> [EvWorkers -> 0 .. EvSize + 1]] /\ evNext' \in [EvRuns -> 1 .. EvSize + 1]
        <5> DEFINE f == [evWorker[r] EXCEPT ![w] = evNext[r]]
        <5>1. f \in [EvWorkers -> 0 .. EvSize + 1] /\ evWorker' = [evWorker EXCEPT ![r] = f]
              /\ evNext' = [evNext EXCEPT ![r] = evNext[r] + 1] /\ evNext[r] + 1 \in 1 .. EvSize + 1
          BY <1>0, <2>1, <2>7, <3>1 DEF EvalTypes
        <5> HIDE DEF f
        <5> QED BY <1>0, <5>1 DEF EvalTypes
      <4> QED BY <1>0, <2>2, <2>4, <2>5, <4>1, <4>2 DEF EvalTypes
    <3>3. /\ evNext'[r] = evNext[r] + 1 /\ evWorker'[r] = [evWorker[r] EXCEPT ![w] = evNext[r]]
          /\ evTaken'[r] = [evTaken[r] EXCEPT ![evNext[r]] = evTaken[r][evNext[r]] + 1]
      BY <1>0, <2>1, <2>7 DEF EvalTypes
    <3>4. CasesSound(r)'
      BY <1>0, <2>2, <3>1, <3>3 DEF CasesSound, RunSound, EvalTypes
    <3>5. RunningSound(r)'
      <4>1. \A d \in E!Cases : d < evNext[r] + 1 =>
              d \in evResults'[r] \/ \E v \in EvWorkers : evWorker'[r][v] = d
        <5> SUFFICES ASSUME NEW d \in E!Cases, d < evNext[r] + 1, d \notin evResults'[r]
                     PROVE  \E v \in EvWorkers : evWorker'[r][v] = d
          OBVIOUS
        <5>1. CASE d = evNext[r]
          BY <1>0, <3>3, <5>1 DEF EvalTypes
        <5>2. CASE d < evNext[r]
          <6>1. PICK v \in EvWorkers : evWorker[r][v] = d
            BY <1>0, <2>2, <3>1, <5>2 DEF RunSound, RunningSound
          <6> QED BY <1>0, <2>2, <3>3, <6>1 DEF EvalTypes
        <5> QED BY <3>1, <5>1, <5>2
      <4>2. \A v \in EvWorkers : evWorker'[r][v] = E!None => evNext[r] + 1 > EvSize
        <5> SUFFICES ASSUME NEW v \in EvWorkers, evWorker'[r][v] = E!None PROVE evNext[r] > EvSize
          BY <3>1
        <5>1. v # w /\ evWorker[r][v] = E!None
          BY <1>0, <3>1, <3>3 DEF EvalTypes
        <5> QED BY <1>0, <2>2, <3>1, <5>1 DEF RunSound, RunningSound
      <4> QED BY <2>2, <3>3, <4>1, <4>2 DEF RunningSound
    <3>6. \A q \in EvRuns \ {r} : RunStays(q)
      BY <1>0, <2>1, <2>2, <2>5, <2>7 DEF RunStays, EvalTypes
    <3> QED BY <1>1, <2>6, <3>2, <3>4, <3>5, <3>6 DEF RunSound
  <2>8. CASE ~(ok /\ E!MayGoOn(r))
    <3> DEFINE x == IF ok THEN E!None ELSE E!Broken
    <3>1. /\ evWorker' = [evWorker EXCEPT ![r][w] = x] /\ UNCHANGED <<evNext, evTaken>>
          /\ x \in 0 .. EvSize + 1 /\ x \notin E!Cases
      BY <2>1, <2>8
    <3>2. x = E!None /\ evStatus[r] = "running" /\ ~evExceeded[r] => evNext[r] > EvSize
      BY <1>0, <2>8 DEF E!MayGoOn, EvalTypes
    <3> HIDE DEF x
    <3>3. EvalTypes'
      BY <1>0, <2>2, <2>4, <2>5, <3>1 DEF EvalTypes
    <3>4. evWorker'[r] = [evWorker[r] EXCEPT ![w] = x]
      BY <1>0, <3>1 DEF EvalTypes
    <3>5. CasesSound(r)'
      BY <1>0, <2>2, <3>1, <3>4 DEF CasesSound, RunSound, EvalTypes
    <3>6. RunningSound(r)'
      BY <1>0, <2>2, <3>1, <3>2, <3>4 DEF RunningSound, RunSound, EvalTypes
    <3>7. \A q \in EvRuns \ {r} : RunStays(q)
      BY <1>0, <2>2, <2>5, <3>1 DEF RunStays, EvalTypes
    <3> QED BY <1>1, <2>6, <3>3, <3>5, <3>6, <3>7 DEF RunSound
  <2> QED BY <2>7, <2>8
<1>5. ASSUME NEW r \in EvRuns, E!RunEnds(r) PROVE EvaluationsInv'
  <2>1. /\ r \in evBusy /\ evNext[r] > 1 /\ \A w \in EvWorkers : evWorker[r][w] \notin E!Cases
        /\ evStatus' = [evStatus EXCEPT ![r] = evStatus'[r]] /\ evBusy' = evBusy \ {r}
        /\ UNCHANGED <<evResults, evNext, evWorker, evExceeded, evTaken>>
        /\ \E ok \in BOOLEAN : E!Saves(ok)
    BY <1>0, <1>5 DEF E!RunEnds, EvalTypes
  <2>2. evStatus'[r] = IF evStatus[r] # "running" THEN evStatus[r]
                       ELSE IF evExceeded[r] THEN "budget_exceeded"
                       ELSE IF \E w \in EvWorkers : evWorker[r][w] = E!Broken THEN "failed" ELSE "completed"
    BY <1>0, <1>5 DEF E!RunEnds, EvalTypes
  <2>3. evStatus'[r] \in RunStatuses \ {"running"}
    BY <1>0, <2>2 DEF EvalTypes, RunStatuses, E!Outcomes
  <2>4. evStatus' \in [EvRuns -> RunStatuses] /\ evResults' \in [EvRuns -> SUBSET E!Cases]
    BY <1>0, <2>1, <2>3 DEF EvalTypes
  <2>5. /\ evSaved' \in [EvRuns -> [status : RunStatuses, results : SUBSET E!Cases]]
        /\ \A q \in EvRuns : SavesRun(q)
    BY <1>0, <2>1, <2>4, SavesEach
  <2>6. EvalTypes'
    BY <1>0, <2>1, <2>4, <2>5 DEF EvalTypes
  <2>7. CasesSound(r)' /\ RunningSound(r)'
    BY <1>0, <2>1, <2>3 DEF RunSound, CasesSound, RunningSound
  <2>8. evStatus'[r] = "completed" /\ evStatus[r] = "running" => evResults[r] = E!Cases /\ ~evExceeded[r]
    <3> SUFFICES ASSUME evStatus'[r] = "completed", evStatus[r] = "running"
                 PROVE  evResults[r] = E!Cases /\ ~evExceeded[r]
      OBVIOUS
    <3>1. ~evExceeded[r] /\ \A w \in EvWorkers : evWorker[r][w] # E!Broken
      BY <2>2
    <3>2. \A w \in EvWorkers : evWorker[r][w] = E!None
      <4> SUFFICES ASSUME NEW w \in EvWorkers PROVE evWorker[r][w] = E!None
        OBVIOUS
      <4>1. evWorker[r][w] \in 0 .. EvSize + 1 /\ evWorker[r][w] # EvSize + 1 /\ evWorker[r][w] \notin 1 .. EvSize
        BY <1>0, <2>1, <3>1 DEF EvalTypes
      <4> QED BY <4>1
    <3>3. evNext[r] > EvSize
      BY <1>0, <2>1, <3>1, <3>2 DEF RunSound, CasesSound, RunningSound
    <3>4. \A c \in E!Cases : c \in evResults[r]
      <4> SUFFICES ASSUME NEW c \in E!Cases PROVE c \in evResults[r]
        OBVIOUS
      <4>1. evNext[r] \in Nat /\ c < evNext[r]
        BY <1>0, <3>3 DEF EvalTypes
      <4> QED BY <1>0, <2>1, <4>1 DEF RunSound, RunningSound
    <3> QED BY <1>0, <3>1, <3>4 DEF EvalTypes
  <2>9. FileSound(r)'
    BY <1>0, <2>1, <2>2, <2>4, <2>5, <2>8 DEF RunSound, FileSound, SavesRun, EvalTypes, E!Outcomes
  <2>10. \A q \in EvRuns \ {r} : RunStays(q)
    BY <1>0, <2>1, <2>5 DEF RunStays, EvalTypes
  <2> QED BY <1>1, <2>6, <2>7, <2>9, <2>10 DEF RunSound
<1>6. ASSUME NEW r \in EvRuns, E!Cancel(r) PROVE EvaluationsInv'
  <2>1. /\ evStatus[r] = "running" /\ evStatus' = [evStatus EXCEPT ![r] = "cancelled"]
        /\ UNCHANGED <<evResults, evBusy, evNext, evWorker, evExceeded, evTaken>>
        /\ \E ok \in BOOLEAN : E!Saves(ok)
    BY <1>6 DEF E!Cancel
  <2>4. /\ evStatus' \in [EvRuns -> RunStatuses] /\ evResults' \in [EvRuns -> SUBSET E!Cases]
        /\ evStatus'[r] = "cancelled"
    BY <1>0, <2>1 DEF EvalTypes, RunStatuses, E!Outcomes
  <2>5. /\ evSaved' \in [EvRuns -> [status : RunStatuses, results : SUBSET E!Cases]]
        /\ \A q \in EvRuns : SavesRun(q)
    BY <1>0, <2>1, <2>4, SavesEach
  <2>6. EvalTypes'
    BY <1>0, <2>1, <2>4, <2>5 DEF EvalTypes
  <2>7. CasesSound(r)' /\ RunningSound(r)'
    BY <1>0, <2>1, <2>4 DEF RunSound, CasesSound, RunningSound
  <2>9. FileSound(r)'
    BY <1>0, <2>1, <2>4, <2>5 DEF RunSound, FileSound, SavesRun, EvalTypes, E!Outcomes
  <2>10. \A q \in EvRuns \ {r} : RunStays(q)
    BY <1>0, <2>1, <2>5 DEF RunStays, EvalTypes
  <2> QED BY <1>1, <2>6, <2>7, <2>9, <2>10 DEF RunSound
<1>7. CASE E!Restart
  <2>1. EvalTypes'
    <3>1. evStatus' \in [EvRuns -> RunStatuses] /\ evResults' \in [EvRuns -> SUBSET E!Cases]
      BY <1>0, <1>7 DEF E!Restart, EvalTypes, RunStatuses, E!Outcomes
    <3>2. evSaved' \in [EvRuns -> [status : RunStatuses, results : SUBSET E!Cases]]
      BY <1>0, <1>7 DEF E!Restart, EvalTypes, RunStatuses, E!Outcomes
    <3>3. evWorker' \in [EvRuns -> [EvWorkers -> 0 .. EvSize + 1]] /\ evBusy' \subseteq EvRuns
      BY <1>7 DEF E!Restart
    <3> QED BY <1>0, <1>7, <3>1, <3>2, <3>3 DEF E!Restart, EvalTypes
  <2>2. ASSUME NEW r \in EvRuns PROVE RunSound(r)'
    <3>1. /\ evStatus'[r] = IF evSaved[r].status = "running" THEN "interrupted"
                            ELSE IF evSaved[r].status = "none" /\ evStatus[r] # "none" THEN "lost"
                            ELSE evSaved[r].status
          /\ evResults'[r] = evSaved[r].results /\ evSaved'[r].results = evSaved[r].results
          /\ evSaved'[r].status = IF evSaved[r].status = "running" THEN "interrupted" ELSE evSaved[r].status
          /\ \A w \in EvWorkers : evWorker'[r][w] = E!None
          /\ UNCHANGED <<evNext, evExceeded, evTaken>>
      BY <1>0, <1>7 DEF E!Restart, EvalTypes
    <3>2. CasesSound(r)' /\ RunningSound(r)'
      BY <1>0, <3>1 DEF RunSound, CasesSound, RunningSound, FileSound
    <3>3. FileSound(r)'
      BY <1>0, <3>1 DEF RunSound, FileSound, E!Outcomes
    <3> QED BY <3>2, <3>3 DEF RunSound
  <2> QED BY <2>1, <2>2 DEF EvaluationsInv
<1> QED BY <1>2, <1>3, <1>4, <1>5, <1>6, <1>7 DEF E!Next, E!RunGoesOn

LEMMA EvaluationsStay == ASSUME EvaluationsInv, UNCHANGED evaluations PROVE EvaluationsInv'
  BY DEF evaluations,
      EvaluationsInv, EvalTypes, RunSound, CasesSound, FileSound, RunningSound, E!None

-----------------------------------------------------------------------------
(* Sub-tasks.                                                               *)

LEMMA SubtasksConstants ==
  IsFiniteSet(SubWorkers) /\ SubSize \in Nat /\ (SubWorkers # {} \/ SubSize = 0)
  BY ServicesAssumption

(* The instance counts as this module does.                                 *)
LEMMA SubtasksCount == \A set : D!Cardinality(set) = Cardinality(set)
  BY DEF D!Cardinality, Cardinality

SubTypes ==
  /\ subAborted \in BOOLEAN /\ subNext \in 1 .. SubSize + 1
  /\ subJob \in [SubWorkers -> 0 .. SubSize]
  /\ subAt \in [SubWorkers -> {D!Idle, "creates", "prompts", "closes", "over"}]
  /\ subTimedOut \in [SubWorkers -> BOOLEAN] /\ subStopped \in [SubWorkers -> BOOLEAN]
  /\ subOpen \subseteq D!Tasks /\ subAnswered \subseteq D!Tasks /\ subArtifacts \subseteq D!Tasks
  /\ subResults \in [D!Tasks -> D!Statuses \cup {"none"}]

(* What a worker holds, and how far it is with it.                          *)
WorkerSound(w) ==
  /\ subJob[w] = D!Out <=> subAt[w] \in {D!Idle, "over"}
  /\ subJob[w] < subNext
  /\ subAt[w] = "over" => subNext = SubSize + 1
  /\ subStopped[w] => subAborted \/ subTimedOut[w]
  /\ subAborted /\ subAt[w] = "prompts" => subStopped[w]
  /\ subAt[w] = "prompts" => subJob[w] \in subOpen
  /\ subAt[w] = "closes" => subResults[subJob[w]] # "none"

(* Whose each position is.                                                  *)
PositionSound(t) ==
  /\ t \in subOpen => \E w \in SubWorkers : subJob[w] = t
  /\ subResults[t] = "none" => t >= subNext \/ \E w \in SubWorkers : subJob[w] = t
  /\ subResults[t] = "succeeded" => t \in subAnswered
  /\ t \in subArtifacts => subResults[t] # "none" \/ t \in subOpen

NoJobTwice == \A v, w \in SubWorkers : v # w => subJob[v] # subJob[w] \/ subJob[v] = D!Out

SubtasksInv ==
  /\ SubTypes
  /\ \A w \in SubWorkers : WorkerSound(w)
  /\ \A t \in D!Tasks : PositionSound(t)
  /\ NoJobTwice

LEMMA SubtasksInvSafe == SubtasksInv => D!Safe
<1> SUFFICES ASSUME SubtasksInv PROVE D!Safe
  OBVIOUS
<1>1. D!HonestResults
  BY DEF SubtasksInv, WorkerSound, PositionSound, D!HonestResults, SubTypes
<1>2. Cardinality(subOpen) <= Cardinality(SubWorkers)
  <2> DEFINE f == [t \in subOpen |-> CHOOSE w \in SubWorkers : subJob[w] = t]
  <2>1. \A t \in subOpen : f[t] \in SubWorkers /\ subJob[f[t]] = t
    BY DEF SubtasksInv, SubTypes, PositionSound
  <2>2. f \in Injection(subOpen, SubWorkers)
    <3>1. f \in [subOpen -> SubWorkers]
      BY <2>1
    <3>2. \A s, t \in subOpen : f[s] = f[t] => s = t
      BY <2>1
    <3> HIDE DEF f
    <3> QED BY <3>1, <3>2 DEF Injection, IsInjective
  <2> HIDE DEF f
  <2> QED BY <2>2, FS_Injection, SubtasksConstants
<1>3. ASSUME D!Returns PROVE subOpen = {} /\ \A t \in D!Tasks : subResults[t] \in D!Statuses
  <2>1. \A w \in SubWorkers : subAt[w] = "over" /\ subJob[w] = 0 /\ subNext = SubSize + 1
    BY <1>3 DEF D!Returns, SubtasksInv, WorkerSound, D!Out
  <2>2. subOpen = {}
    BY <2>1 DEF SubtasksInv, SubTypes, PositionSound, D!Tasks
  <2>3. ASSUME NEW t \in D!Tasks PROVE subResults[t] # "none"
    <3>1. SubWorkers # {}
      BY SubtasksConstants DEF D!Tasks
    <3>2. t \in 1 .. SubSize /\ subNext = SubSize + 1
      BY <2>1, <3>1 DEF D!Tasks
    <3> QED BY <2>1, <3>2, SubtasksConstants DEF SubtasksInv, PositionSound
  <2> QED BY <2>2, <2>3 DEF SubtasksInv, SubTypes
<1>4. \A v, w \in SubWorkers : v # w => subJob[v] # subJob[w] \/ subJob[v] = D!Out
  BY DEF SubtasksInv, NoJobTwice
<1>5. D!PoolSound
  BY <1>2, <1>3, <1>4, SubtasksCount DEF D!PoolSound
<1> QED BY <1>1, <1>5 DEF D!Safe

LEMMA SubtasksInit == D!Init => SubtasksInv
<1> SUFFICES ASSUME D!Init PROVE SubtasksInv
  OBVIOUS
<1> USE SubtasksConstants DEF D!Init, D!Idle, D!Out, D!Tasks
<1>1. SubTypes
  <2>1. subNext \in 1 .. SubSize + 1 /\ subJob \in [SubWorkers -> 0 .. SubSize]
    OBVIOUS
  <2>2. subAborted \in BOOLEAN /\ subTimedOut \in [SubWorkers -> BOOLEAN] /\ subStopped \in [SubWorkers -> BOOLEAN]
    OBVIOUS
  <2>3. subResults \in [D!Tasks -> D!Statuses \cup {"none"}]
    OBVIOUS
  <2> QED BY <2>1, <2>2, <2>3 DEF SubTypes
<1>2. NoJobTwice /\ \A w \in SubWorkers : WorkerSound(w)
  BY DEF WorkerSound, NoJobTwice
<1>3. \A t \in D!Tasks : PositionSound(t)
  BY DEF PositionSound
<1> QED BY <1>1, <1>2, <1>3 DEF SubtasksInv

(* A step of one worker about the position it holds.                        *)
LEMMA SubtasksStep == ASSUME SubtasksInv, D!Next PROVE SubtasksInv'
<1> USE SubtasksConstants DEF D!Idle, D!Out, D!Tasks
<1>0. /\ SubTypes /\ NoJobTwice
      /\ \A w \in SubWorkers : WorkerSound(w)
      /\ \A t \in D!Tasks : PositionSound(t)
  BY DEF SubtasksInv
<1>1. CASE D!Abort
  <2>1. SubTypes' /\ NoJobTwice'
    BY <1>0, <1>1 DEF D!Abort, SubTypes, NoJobTwice
  <2>2. \A w \in SubWorkers : WorkerSound(w)'
    BY <1>0, <1>1 DEF D!Abort, SubTypes, WorkerSound
  <2>3. \A t \in D!Tasks : PositionSound(t)'
    BY <1>0, <1>1 DEF D!Abort, PositionSound
  <2> QED BY <2>1, <2>2, <2>3 DEF SubtasksInv
<1>2. ASSUME NEW w \in SubWorkers, D!Deadline(w) PROVE SubtasksInv'
  <2>1. SubTypes' /\ NoJobTwice'
    BY <1>0, <1>2 DEF D!Deadline, SubTypes, NoJobTwice
  <2>2. \A v \in SubWorkers : WorkerSound(v)'
    BY <1>0, <1>2 DEF D!Deadline, SubTypes, WorkerSound
  <2>3. \A t \in D!Tasks : PositionSound(t)'
    BY <1>0, <1>2 DEF D!Deadline, PositionSound
  <2> QED BY <2>1, <2>2, <2>3 DEF SubtasksInv
<1>3. ASSUME NEW w \in SubWorkers, D!Makes(w) PROVE SubtasksInv'
  <2>0. subJob[w] \in D!Tasks /\ subJob[w] \in subOpen
    BY <1>0, <1>3 DEF D!Makes, SubTypes, WorkerSound
  <2>1. SubTypes' /\ NoJobTwice'
    BY <1>0, <1>3, <2>0 DEF D!Makes, SubTypes, NoJobTwice
  <2>2. \A v \in SubWorkers : WorkerSound(v)'
    BY <1>0, <1>3 DEF D!Makes, WorkerSound
  <2>3. \A t \in D!Tasks : PositionSound(t)'
    BY <1>0, <1>3, <2>0 DEF D!Makes, PositionSound
  <2> QED BY <2>1, <2>2, <2>3 DEF SubtasksInv
<1>4. ASSUME NEW w \in SubWorkers, D!Take(w) PROVE SubtasksInv'
  <2>0. subJob[w] = 0 /\ subAt[w] = "idle"
    BY <1>0, <1>4 DEF D!Take, WorkerSound
  <2>1. SubTypes'
    <3>1. /\ subNext' \in 1 .. SubSize + 1 /\ subJob' \in [SubWorkers -> 0 .. SubSize]
          /\ subAt' \in [SubWorkers -> {D!Idle, "creates", "prompts", "closes", "over"}]
      <4>1. /\ SubSize \in Nat /\ subNext \in 1 .. SubSize + 1 /\ subJob \in [SubWorkers -> 0 .. SubSize]
            /\ subAt \in [SubWorkers -> {D!Idle, "creates", "prompts", "closes", "over"}]
        BY SubtasksConstants, <1>0 DEF SubTypes
      <4>2. CASE subNext > SubSize
        BY <1>4, <4>1, <4>2 DEF D!Take
      <4>3. CASE subNext <= SubSize /\ subAborted
        <5>1. subNext' = SubSize + 1 /\ subAt' = [subAt EXCEPT ![w] = "over"] /\ subJob' = subJob
          BY <1>4, <4>1, <4>3 DEF D!Take
        <5> QED BY <4>1, <5>1
      <4>4. CASE subNext <= SubSize /\ ~subAborted
        <5>1. /\ subNext' = subNext + 1 /\ subJob' = [subJob EXCEPT ![w] = subNext]
              /\ subAt' = [subAt EXCEPT ![w] = "creates"]
          BY <1>4, <4>1, <4>4 DEF D!Take
        <5> QED BY <4>1, <4>4, <5>1
      <4> QED BY <4>1, <4>2, <4>3, <4>4
    <3>2. subResults' \in [D!Tasks -> D!Statuses \cup {"none"}]
      BY <1>0, <1>4 DEF D!Take, SubTypes, D!Statuses
    <3>3. subTimedOut' \in [SubWorkers -> BOOLEAN] /\ subStopped' \in [SubWorkers -> BOOLEAN]
      BY <1>0, <1>4 DEF D!Take, SubTypes
    <3>4. UNCHANGED <<subAborted, subOpen, subAnswered, subArtifacts>>
      BY <1>4 DEF D!Take
    <3> QED BY <1>0, <3>1, <3>2, <3>3, <3>4 DEF SubTypes
  <2>2. NoJobTwice'
    BY <1>0, <1>4, <2>0 DEF D!Take, SubTypes, NoJobTwice, WorkerSound
  <2>3. \A v \in SubWorkers : WorkerSound(v)'
    BY <1>0, <1>4, <2>0 DEF D!Take, SubTypes, WorkerSound, D!Statuses
  <2>4. \A t \in D!Tasks : PositionSound(t)'
    BY <1>0, <1>4, <2>0 DEF D!Take, SubTypes, PositionSound, D!Statuses
  <2> QED BY <2>1, <2>2, <2>3, <2>4 DEF SubtasksInv
<1>5. ASSUME NEW w \in SubWorkers, D!Created(w) PROVE SubtasksInv'
  <2>0. subJob[w] \in D!Tasks /\ subAt[w] = "creates"
    BY <1>0, <1>5 DEF D!Created, WorkerSound, SubTypes
  <2>1. SubTypes' /\ NoJobTwice'
    BY <1>0, <1>5, <2>0 DEF D!Created, D!Closing, D!Unwell, SubTypes, D!Statuses, NoJobTwice
  <2>3. \A v \in SubWorkers : WorkerSound(v)'
    BY <1>0, <1>5, <2>0 DEF D!Created, D!Closing, D!Unwell, SubTypes, WorkerSound, D!Statuses, NoJobTwice
  <2>4. \A t \in D!Tasks : PositionSound(t)'
    BY <1>0, <1>5, <2>0 DEF D!Created, D!Closing, D!Unwell, SubTypes, PositionSound, D!Statuses
  <2> QED BY <2>1, <2>3, <2>4 DEF SubtasksInv
<1>6. ASSUME NEW w \in SubWorkers, D!Prompted(w) PROVE SubtasksInv'
  <2>0. subJob[w] \in D!Tasks /\ subAt[w] = "prompts" /\ (subStopped[w] => subAborted \/ subTimedOut[w])
    BY <1>0, <1>6 DEF D!Prompted, WorkerSound, SubTypes
  <2>1. SubTypes' /\ NoJobTwice'
    BY <1>0, <1>6, <2>0 DEF D!Prompted, D!Closing, D!Unwell, D!Verdict, SubTypes, D!Statuses, NoJobTwice
  <2>3. \A v \in SubWorkers : WorkerSound(v)'
    BY <1>0, <1>6, <2>0 DEF D!Prompted, D!Closing, D!Unwell, D!Verdict, SubTypes, WorkerSound, D!Statuses, NoJobTwice
  <2>4. \A t \in D!Tasks : PositionSound(t)'
    BY <1>0, <1>6, <2>0 DEF D!Prompted, D!Closing, D!Unwell, D!Verdict, SubTypes, PositionSound, D!Statuses
  <2> QED BY <2>1, <2>3, <2>4 DEF SubtasksInv
<1>7. ASSUME NEW w \in SubWorkers, D!Closed(w) PROVE SubtasksInv'
  <2>0. subJob[w] \in D!Tasks /\ subAt[w] = "closes" /\ subResults[subJob[w]] # "none"
    BY <1>0, <1>7 DEF D!Closed, WorkerSound, SubTypes
  <2>1. SubTypes'
    <3>1. subJob' = [subJob EXCEPT ![w] = 0] /\ subAt' = [subAt EXCEPT ![w] = "idle"] /\ subOpen' \subseteq subOpen
          /\ UNCHANGED <<subAborted, subNext, subTimedOut, subStopped, subAnswered, subArtifacts>>
      BY <1>7 DEF D!Closed
    <3>2. subResults' = subResults \/ subResults' = [subResults EXCEPT ![subJob[w]] = "failed"]
      BY <1>7 DEF D!Closed
    <3> QED BY <1>0, <3>1, <3>2 DEF SubTypes, D!Statuses
  <2>2. NoJobTwice'
    <3>1. subJob' = [subJob EXCEPT ![w] = 0]
      BY <1>7 DEF D!Closed
    <3> QED BY <1>0, <3>1 DEF SubTypes, NoJobTwice
  <2>3. \A v \in SubWorkers : WorkerSound(v)'
    BY <1>0, <1>7, <2>0 DEF D!Closed, SubTypes, WorkerSound, D!Statuses, NoJobTwice
  <2>4. \A t \in D!Tasks : PositionSound(t)'
    BY <1>0, <1>7, <2>0 DEF D!Closed, SubTypes, PositionSound, D!Statuses
  <2> QED BY <2>1, <2>2, <2>3, <2>4 DEF SubtasksInv
<1> QED BY <1>1, <1>2, <1>3, <1>4, <1>5, <1>6, <1>7 DEF D!Next, D!WorkerGoesOn

LEMMA SubtasksStay == ASSUME SubtasksInv, UNCHANGED subtasks PROVE SubtasksInv'
  BY DEF subtasks,
      SubtasksInv, NoJobTwice, PositionSound, SubTypes, WorkerSound

-----------------------------------------------------------------------------
(* Settings.                                                                *)

Version == [val : Values, sec : Nat, rev : Nat]
DraftOrNone == [val : Values, sec : Nat] \cup {S!None}
Store == [id : Nat \ {0}, rev : Nat, active : Version, draft : DraftOrNone, history : Seq(Version)]

(* The history of a store, as HistoryInOrder has it.                        *)
Ordered(s) ==
  /\ s.history # <<>> /\ s.history[Len(s.history)] = s.active
  /\ \A m, n \in DOMAIN s.history : m < n => s.history[m].rev < s.history[n].rev
  /\ s.active.rev <= s.rev

(* The credentials of a store are none that comes later.                    *)
Known(s) == s.active.sec <= writes /\ (s.draft # S!None => s.draft.sec <= writes)

StoreOK(s) == s = S!Bad \/ (s \in Store /\ Ordered(s))

SettingsTypes ==
  /\ mem \in Store /\ StoreOK(mem) /\ StoreOK(main) /\ StoreOK(prev)
  /\ \A s \in {mem, main, prev} \ {S!Bad} : Known(s)
  /\ installed \in [val : Values, sec : Nat] /\ installed.sec <= writes
  /\ seen \in [Admins -> [id : Nat, rev : Nat]]
  /\ writes \in Nat /\ damage \in Nat
  /\ retired \subseteq 1 .. writes

(* Without damage the file is never behind: what anyone has seen is an      *)
(* older revision or this very store.                                       *)
NoneAhead ==
  /\ main # S!Bad
  /\ mem.rev < main.rev \/ (mem.rev = main.rev /\ mem.id = main.id)
  /\ \A a \in Admins : seen[a].rev < main.rev \/ (seen[a].rev = main.rev /\ seen[a].id = main.id)

(* Without damage the credentials of the file are in use or new.            *)
NoneRetired ==
  /\ installed.sec \notin retired /\ main.active.sec \notin retired
  /\ main.draft # S!None =>
       \/ main.draft.sec \in {S!Cleared, main.active.sec}
       \/ main.draft.sec \notin retired \cup {installed.sec}

SettingsInv ==
  /\ SettingsTypes /\ S!RunsTheActive
  /\ damage = 0 => NoneAhead /\ NoneRetired /\ ~blind

LEMMA SettingsInvSafe == SettingsInv => S!Safe
<1> SUFFICES ASSUME SettingsInv PROVE S!Safe
  OBVIOUS
<1>1. S!HistoryInOrder
  BY DEF SettingsInv, SettingsTypes, StoreOK, Ordered, S!HistoryInOrder
<1>2. S!RunsTheActive /\ S!NoLostUpdate /\ S!SecretsStayRetired
  BY DEF SettingsInv, NoneRetired, S!NoLostUpdate, S!SecretsStayRetired
<1> QED BY <1>1, <1>2 DEF S!Safe

LEMMA SettingsInit == S!Init => SettingsInv
<1> SUFFICES ASSUME S!Init PROVE SettingsInv
  OBVIOUS
<1> PICK v \in Values :
      LET first == [val |-> v, sec |-> 0, rev |-> 0]
          store == [id |-> 1, rev |-> 0, active |-> first, draft |-> S!None, history |-> <<first>>]
      IN /\ mem = store /\ main = store /\ prev = S!Bad
         /\ installed = [val |-> v, sec |-> 0]
         /\ seen = [a \in Admins |-> [id |-> 1, rev |-> 0]]
         /\ writes = 1 /\ saveFaults = 0 /\ damage = 0
         /\ torn = FALSE /\ retired = {} /\ blind = FALSE
  BY DEF S!Init, S!Cleared
<1> DEFINE first == [val |-> v, sec |-> 0, rev |-> 0]
           store == [id |-> 1, rev |-> 0, active |-> first, draft |-> S!None, history |-> <<first>>]
<1>1. /\ first \in Version /\ first.val = v /\ first.sec = 0 /\ first.rev = 0
  BY DEF Version
<1> HIDE DEF first
<1>2. /\ <<first>> \in Seq(Version) /\ Len(<<first>>) = 1 /\ <<first>>[1] = first /\ <<first>> # <<>>
      /\ DOMAIN <<first>> = {1}
  BY <1>1
<1>3. /\ store \in Store /\ store.id = 1 /\ store.rev = 0 /\ store.active = first
      /\ store.draft = S!None /\ store.history = <<first>>
  BY <1>1, <1>2 DEF Store, DraftOrNone
<1>4. store # S!Bad
  BY <1>3 DEF S!Bad
<1>5. Ordered(store)
  BY <1>1, <1>2, <1>3 DEF Ordered
<1>6. mem = store /\ main = store /\ prev = S!Bad
  BY DEF first
<1> HIDE DEF store
<1>7. SettingsTypes
  <2>1. mem \in Store /\ StoreOK(mem) /\ StoreOK(main) /\ StoreOK(prev)
    BY <1>3, <1>5, <1>6 DEF StoreOK
  <2>2. \A s \in {mem, main, prev} \ {S!Bad} : s = store
    BY <1>6
  <2>3. Known(store)
    BY <1>1, <1>3 DEF Known
  <2>4. installed \in [val : Values, sec : Nat] /\ installed.sec <= writes
    OBVIOUS
  <2>5. seen \in [Admins -> [id : Nat, rev : Nat]]
    OBVIOUS
  <2> QED BY <2>1, <2>2, <2>3, <2>4, <2>5 DEF SettingsTypes
<1>8. NoneAhead /\ NoneRetired
  BY <1>1, <1>3, <1>4, <1>6 DEF NoneAhead, NoneRetired
<1>9. S!RunsTheActive
  BY <1>1, <1>3, <1>6 DEF S!RunsTheActive
<1> QED BY <1>7, <1>8, <1>9 DEF SettingsInv

(* The two ways a store is made of another.                                 *)
LEMMA DraftMakes ==
  ASSUME NEW s \in Store, Ordered(s), writes \in Nat, NEW v \in Values, NEW sec \in Nat
  PROVE  LET new == S!Draft(s, v, sec) IN
         /\ new \in Store /\ Ordered(new) /\ new.id = writes + 1 /\ new.rev = s.rev + 1
         /\ new.active = s.active /\ new.draft.sec = sec
<1> DEFINE d == [val |-> v, sec |-> sec]
           new == S!Draft(s, v, sec)
<1>1. d \in DraftOrNone /\ d.sec = sec
  BY DEF DraftOrNone
<1> HIDE DEF d
<1>2. new = [s EXCEPT !.draft = d, !.rev = s.rev + 1, !.id = writes + 1]
  BY DEF S!Draft, S!Fresh, d
<1>3. /\ new \in Store /\ new.id = writes + 1 /\ new.rev = s.rev + 1
      /\ new.active = s.active /\ new.draft = d /\ new.history = s.history
  <2>1. s.rev + 1 \in Nat /\ writes + 1 \in Nat \ {0}
    BY DEF Store
  <2>2. new = [id |-> writes + 1, rev |-> s.rev + 1, active |-> s.active, draft |-> d, history |-> s.history]
    BY <1>2 DEF Store
  <2> QED BY <1>1, <2>1, <2>2 DEF Store
<1> HIDE DEF new
<1>4. Ordered(new)
  BY <1>3 DEF Ordered, Store, Version
<1> QED BY <1>1, <1>3, <1>4 DEF new

LEMMA PublishMakes ==
  ASSUME NEW s \in Store, Ordered(s), writes \in Nat, NEW v \in Values, NEW sec \in Nat
  PROVE  LET new == S!Publish(s, v, sec) IN
         /\ new \in Store /\ Ordered(new) /\ new.id = writes + 1 /\ new.rev = s.rev + 1
         /\ new.active.val = v /\ new.active.sec = sec /\ new.draft = S!None
<1> DEFINE version == [val |-> v, sec |-> sec, rev |-> s.rev + 1]
           new == S!Publish(s, v, sec)
<1>1. version \in Version /\ version.val = v /\ version.sec = sec /\ version.rev = s.rev + 1
  BY DEF Version, Store
<1>2. new = [s EXCEPT !.active = version, !.history = Append(s.history, version), !.draft = S!None,
                      !.rev = s.rev + 1, !.id = writes + 1]
  BY DEF S!Publish, S!Fresh
<1> HIDE DEF version
<1> DEFINE h == s.history
<1>3. /\ h \in Seq(Version) /\ Append(h, version) \in Seq(Version)
      /\ Len(h) \in Nat /\ Len(Append(h, version)) = Len(h) + 1
      /\ Append(h, version)[Len(h) + 1] = version
      /\ \A n \in 1 .. Len(h) : Append(h, version)[n] = h[n]
  BY <1>1 DEF Store
<1>4. /\ new \in Store /\ new.id = writes + 1 /\ new.rev = s.rev + 1
      /\ new.active = version /\ new.draft = S!None /\ new.history = Append(h, version)
  <2>1. s.rev + 1 \in Nat /\ writes + 1 \in Nat \ {0} /\ S!None \in DraftOrNone
    BY DEF Store, DraftOrNone
  <2>2. new = [id |-> writes + 1, rev |-> s.rev + 1, active |-> version, draft |-> S!None,
               history |-> Append(h, version)]
    BY <1>2 DEF Store
  <2> QED BY <1>1, <1>3, <2>1, <2>2 DEF Store
<1> HIDE DEF new
<1>5. \A n \in 1 .. Len(h) : h[n].rev \in Nat /\ h[n].rev < version.rev
  <2>1. Len(h) \in 1 .. Len(h) /\ h[Len(h)].rev <= s.rev /\ s.rev \in Nat
    BY <1>3 DEF Ordered, Store
  <2>2. \A n \in 1 .. Len(h) : h[n].rev \in Nat /\ (n < Len(h) => h[n].rev < h[Len(h)].rev)
    <3>1. DOMAIN h = 1 .. Len(h) /\ \A n \in 1 .. Len(h) : h[n] \in Version
      BY <1>3
    <3>2. \A m, n \in DOMAIN h : m < n => h[m].rev < h[n].rev
      BY DEF Ordered
    <3> HIDE DEF h
    <3> QED BY <2>1, <3>1, <3>2 DEF Version
  <2> HIDE DEF h
  <2> QED BY <1>1, <2>1, <2>2
<1>6. Ordered(new)
  <2> DEFINE g == Append(h, version)
  <2>1. \A m, n \in 1 .. Len(h) : m < n => h[m].rev < h[n].rev
    BY <1>3 DEF Ordered
  <2>2. DOMAIN g = 1 .. Len(h) + 1 /\ Len(g) = Len(h) + 1 /\ g[Len(h) + 1] = version
        /\ \A n \in 1 .. Len(h) : g[n] = h[n]
    BY <1>3
  <2>3. Len(<<>>) = 0
    OBVIOUS
  <2> HIDE DEF g, h
  <2>4. ASSUME NEW m \in 1 .. Len(h) + 1, NEW n \in 1 .. Len(h) + 1, m < n PROVE g[m].rev < g[n].rev
    <3>1. m \in 1 .. Len(h) /\ g[m] = h[m]
      BY <1>3, <2>2, <2>4
    <3>2. CASE n = Len(h) + 1
      BY <1>1, <1>3, <1>5, <2>2, <3>1, <3>2
    <3>3. CASE n \in 1 .. Len(h)
      BY <2>1, <2>2, <2>4, <3>1, <3>3
    <3> QED BY <1>3, <3>2, <3>3
  <2>5. Len(g) # 0
    BY <1>3, <2>2
  <2>6. g # <<>> /\ g[Len(g)] = version /\ version.rev <= s.rev + 1
    BY <1>1, <2>2, <2>3, <2>5, <1>3 DEF Store
  <2> QED BY <1>4, <2>2, <2>4, <2>6 DEF Ordered, g
<1> QED BY <1>1, <1>4, <1>6 DEF new

(* What is read is a store, and without damage it is the file.              *)
LEMMA ReadsAStore ==
  ASSUME SettingsTypes, S!ReadStore # S!Bad
  PROVE  /\ S!ReadStore \in Store /\ Ordered(S!ReadStore) /\ Known(S!ReadStore)
         /\ main # S!Bad => S!ReadStore = main
BY DEF SettingsTypes, StoreOK, S!ReadStore

(* persist(): what it needs of the change.                                  *)
LEMMA PersistKeeps ==
  ASSUME SettingsInv, NEW s \in Store, NEW next \in Store, NEW publishes \in BOOLEAN,
         s = S!ReadStore, s # S!Bad, Ordered(next),
         next.id = writes + 1, next.rev = s.rev + 1,
         next.active.sec <= writes + 1, next.draft # S!None => next.draft.sec <= writes + 1,
         ~publishes => next.active = s.active,
         publishes => next.draft = S!None,
         (damage = 0 /\ publishes) => next.active.sec \notin retired,
         (damage = 0 /\ ~publishes) =>
            (next.draft.sec \in {S!Cleared, s.active.sec} \/ next.draft.sec \notin retired \cup {installed.sec}),
         S!Persist(s, next, publishes), UNCHANGED <<seen, damage>>,
         damage = 0 => ~blind'
  PROVE  SettingsInv'
<1>0. SettingsTypes /\ Ordered(s) /\ Known(s) /\ next # S!Bad
  BY ReadsAStore DEF SettingsInv, Store, S!Bad
<1> DEFINE ins == [val |-> next.active.val, sec |-> next.active.sec]
<1>1. ins \in [val : Values, sec : Nat] /\ ins.sec = next.active.sec
  BY DEF Store, Version
<1>w. writes \in Nat
  BY <1>0 DEF SettingsTypes
<1>2. /\ writes' = writes + 1
      /\ \/ /\ mem' = next /\ main' = next /\ prev' = s
            /\ \/ /\ publishes /\ installed' = ins /\ torn' = FALSE
                  /\ retired' = IF next.active.sec # installed.sec
                                THEN (retired \cup {installed.sec}) \ {S!Cleared} ELSE retired
               \/ /\ ~publishes /\ UNCHANGED <<installed, retired>> /\ torn' = (torn \/ s # mem)
         \/ /\ mem' = s /\ UNCHANGED <<installed, retired>>
            /\ \/ prev' \in {prev, s} /\ torn' = (torn \/ s # mem) /\ UNCHANGED main
               \/ prev' = s /\ main' = next /\ torn' = TRUE
  BY DEF S!Persist, S!Fresh, S!Runs
<1> HIDE DEF ins
<1>3. Known(next)' /\ \A t : Known(t) /\ t \in Store => Known(t)'
  <2>1. \A t \in Store : t.active.sec \in Nat /\ (t.draft # S!None => t.draft.sec \in Nat)
    BY DEF Store, Version, DraftOrNone
  <2>2. writes' = writes + 1
    BY <1>2
  <2> QED BY <1>w, <2>1, <2>2 DEF Known
<1>4. SettingsTypes'
  <2>1. mem' \in Store /\ StoreOK(mem)' /\ StoreOK(main)' /\ StoreOK(prev)'
    BY <1>0, <1>2 DEF SettingsTypes, StoreOK
  <2>2. \A t \in {mem, main, prev}' \ {S!Bad} : Known(t)'
    BY <1>0, <1>2, <1>3 DEF SettingsTypes, StoreOK
  <2>3. installed' \in [val : Values, sec : Nat] /\ installed'.sec <= writes' /\ retired' \subseteq 1 .. writes'
    <3>1. /\ installed \in [val : Values, sec : Nat] /\ installed.sec \in Nat /\ installed.sec <= writes
          /\ retired \subseteq 1 .. writes
      BY <1>0 DEF SettingsTypes
    <3>2. (retired \cup {installed.sec}) \ {S!Cleared} \subseteq 1 .. writes + 1 /\ retired \subseteq 1 .. writes + 1
      <4>1. writes \in Nat
        BY <1>w
      <4>2. \A x \in retired : x \in 1 .. writes + 1
        BY ONLY <3>1, <4>1
      <4>3. \A k \in Nat : k # 0 /\ k <= writes => k \in 1 .. writes + 1
        BY ONLY <4>1
      <4> QED BY <3>1, <4>2, <4>3 DEF S!Cleared
    <3>3. installed' = ins \/ installed' = installed
      BY <1>2
    <3>4. installed' \in [val : Values, sec : Nat] /\ installed'.sec <= writes'
      BY <1>w, <1>1, <1>2, <3>1, <3>3
    <3> QED BY <1>2, <3>2, <3>4
  <2> QED BY <1>w, <1>0, <1>2, <2>1, <2>2, <2>3 DEF SettingsTypes
<1>5. S!RunsTheActive'
  BY <1>0, <1>2 DEF SettingsInv, S!RunsTheActive, ins
<1>6. ASSUME damage = 0 PROVE NoneAhead' /\ NoneRetired'
  <2>1. s = main /\ NoneAhead /\ NoneRetired
    BY <1>6, ReadsAStore, <1>0 DEF SettingsInv, NoneAhead
  <2>2. NoneAhead'
    <3>1. /\ s.rev \in Nat /\ mem.rev \in Nat /\ \A a \in Admins : seen[a].rev \in Nat /\ seen'[a] = seen[a]
          /\ mem.rev <= main.rev /\ \A a \in Admins : seen[a].rev <= main.rev
      <4>1. s.rev \in Nat /\ mem.rev \in Nat /\ mem.rev <= main.rev
        BY <1>0, <2>1 DEF NoneAhead, Store, SettingsTypes
      <4>2. ASSUME NEW a \in Admins PROVE seen[a].rev \in Nat /\ seen'[a] = seen[a] /\ seen[a].rev <= main.rev
        <5>1. seen[a] \in [id : Nat, rev : Nat]
          BY <1>0 DEF SettingsTypes
        <5> QED BY <2>1, <4>1, <5>1 DEF NoneAhead
      <4> QED BY <4>1, <4>2
    <3>2. (mem' \in {next, s} /\ main' = next) \/ (mem' = main /\ main' = main)
      BY <1>2, <2>1
    <3> QED BY <1>0, <2>1, <3>1, <3>2 DEF NoneAhead
  <2>3. NoneRetired'
    BY <1>0, <1>1, <1>2, <1>6, <2>1 DEF NoneRetired, S!Cleared
  <2> QED BY <2>2, <2>3
<1> QED BY <1>4, <1>5, <1>6 DEF SettingsInv

LEMMA SettingsStep == ASSUME SettingsInv, S!Next PROVE SettingsInv'
<1>0. SettingsTypes /\ writes \in Nat /\ damage \in Nat
  BY DEF SettingsInv, SettingsTypes
<1> DEFINE s == S!ReadStore
<1>1. ASSUME NEW a \in Admins, NEW next, NEW publishes, S!Change(a, next, publishes), s # S!Bad
      PROVE  /\ s \in Store /\ Ordered(s) /\ Known(s) /\ s.rev \in Nat
             /\ S!Persist(s, next, publishes) /\ UNCHANGED <<seen, damage>>
             /\ damage = 0 => NoneAhead /\ NoneRetired /\ ~blind' /\ s = main
  <2>1. s \in Store /\ Ordered(s) /\ Known(s) /\ s.rev \in Nat
    BY <1>0, <1>1, ReadsAStore DEF Store
  <2>2. ASSUME damage = 0 PROVE NoneAhead /\ NoneRetired /\ ~blind' /\ s = main
    <3>1. NoneAhead /\ NoneRetired /\ s = main /\ blind = FALSE
      BY <1>0, <1>1, <2>2, ReadsAStore DEF SettingsInv, NoneAhead
    <3>2. seen[a].id = s.id
      <4>1. seen[a].rev = s.rev
        BY <1>1 DEF S!Change
      <4>2. ~(seen[a].rev < main.rev)
        BY <2>1, <3>1, <4>1
      <4> QED BY <3>1, <4>2 DEF NoneAhead
    <3> QED BY <1>1, <3>1, <3>2 DEF S!Change
  <2> QED BY <1>1, <2>1, <2>2 DEF S!Change
<1>2. ASSUME NEW a \in Admins, S!SaveDraft(a) PROVE SettingsInv'
  <2>1. PICK v \in Values, sec \in {S!Base(s).sec, S!Fresh, S!Cleared} :
          s # S!Bad /\ S!Change(a, S!Draft(s, v, sec), FALSE)
    BY <1>2 DEF S!SaveDraft, S!Ready
  <2> DEFINE next == S!Draft(s, v, sec)
  <2>2. /\ s \in Store /\ Ordered(s) /\ Known(s) /\ S!Persist(s, next, FALSE) /\ UNCHANGED <<seen, damage>>
        /\ damage = 0 => NoneAhead /\ NoneRetired /\ ~blind' /\ s = main
    BY <1>1, <2>1
  <2>3. sec \in Nat /\ sec <= writes + 1
        /\ (damage = 0 => sec \in {S!Cleared, s.active.sec} \/ sec \notin retired \cup {installed.sec})
    <3>1. CASE sec = S!Base(s).sec
      <4>1. CASE s.draft = S!None
        BY <1>0, <2>2, <3>1, <4>1 DEF S!Base, Known, Store, Version
      <4>2. CASE s.draft # S!None
        <5>1. s.draft \in [val : Values, sec : Nat] /\ sec = s.draft.sec
          BY <2>2, <3>1, <4>2 DEF S!Base, Store, DraftOrNone
        <5> QED BY <1>0, <2>2, <4>2, <5>1 DEF Known, NoneRetired
      <4> QED BY <4>1, <4>2
    <3>2. CASE sec = S!Fresh
      BY <1>0, <3>2 DEF S!Fresh, SettingsTypes
    <3>3. CASE sec = S!Cleared
      BY <1>0, <3>3 DEF S!Cleared
    <3> QED BY <2>1, <3>1, <3>2, <3>3
  <2>4. /\ next \in Store /\ Ordered(next) /\ next.id = writes + 1 /\ next.rev = s.rev + 1
        /\ next.active = s.active /\ next.draft.sec = sec
    BY <1>0, <2>2, <2>3, DraftMakes
  <2>5. next.active.sec <= writes + 1
    BY <1>0, <2>2, <2>4 DEF Known, Store, Version
  <2> HIDE DEF next
  <2> QED BY <1>0, <2>1, <2>2, <2>3, <2>4, <2>5, PersistKeeps
<1>3. ASSUME NEW a \in Admins, NEW v \in Values, NEW sec \in Nat, s # S!Bad,
             S!Change(a, S!Publish(s, v, sec), TRUE),
             s \in Store => sec <= writes,
             (damage = 0 /\ NoneRetired /\ s = main) => sec \notin retired
      PROVE  SettingsInv'
  <2> DEFINE next == S!Publish(s, v, sec)
  <2>1. /\ s \in Store /\ Ordered(s) /\ S!Persist(s, next, TRUE) /\ UNCHANGED <<seen, damage>>
        /\ damage = 0 => NoneAhead /\ NoneRetired /\ ~blind' /\ s = main
    BY <1>1, <1>3
  <2>2. /\ next \in Store /\ Ordered(next) /\ next.id = writes + 1 /\ next.rev = s.rev + 1
        /\ next.active.sec = sec /\ next.draft = S!None
    BY <1>0, <2>1, PublishMakes
  <2>3. next.active.sec <= writes + 1 /\ (damage = 0 => next.active.sec \notin retired)
    BY <1>0, <1>3, <2>1, <2>2
  <2> HIDE DEF next
  <2> QED BY <1>3, <2>1, <2>2, <2>3, PersistKeeps
<1>4. ASSUME NEW a \in Admins, S!Apply(a) PROVE SettingsInv'
  <2>1. s # S!Bad /\ s.draft # S!None /\ S!Change(a, S!Publish(s, s.draft.val, s.draft.sec), TRUE)
    BY <1>4 DEF S!Apply, S!Ready
  <2>2. s \in Store /\ Known(s)
    BY <1>0, <2>1, ReadsAStore
  <2>3. s.draft.val \in Values /\ s.draft.sec \in Nat /\ s.draft.sec <= writes
    BY <2>1, <2>2 DEF Store, DraftOrNone, Known
  <2>4. (damage = 0 /\ NoneRetired /\ s = main) => s.draft.sec \notin retired
    BY <1>0, <2>1 DEF NoneRetired, S!Cleared, SettingsTypes
  <2> QED BY <1>3, <2>1, <2>3, <2>4
<1>5. ASSUME NEW a \in Admins, S!Rollback(a) PROVE SettingsInv'
  <2>1. PICK n \in DOMAIN s.history : s # S!Bad /\ S!Change(a, S!Publish(s, s.history[n].val, s.active.sec), TRUE)
    BY <1>5 DEF S!Rollback, S!Ready, S!RolledBack
  <2>2. s \in Store /\ Known(s)
    BY <1>0, <2>1, ReadsAStore
  <2>3. s.history[n].val \in Values /\ s.active.sec \in Nat /\ s.active.sec <= writes
    <3>1. s.history[n] \in Version /\ s.active \in Version
      BY <2>2 DEF Store
    <3> QED BY <2>2, <3>1 DEF Version, Known
  <2>4. (damage = 0 /\ NoneRetired /\ s = main) => s.active.sec \notin retired
    BY DEF NoneRetired
  <2> QED BY <1>3, <2>1, <2>3, <2>4
<1>6. ASSUME NEW a \in Admins, S!View(a) PROVE SettingsInv'
  <2>1. mem.id \in Nat /\ mem.rev \in Nat
    BY <1>0 DEF SettingsTypes, Store
  <2> QED BY <1>6, <2>1 DEF SettingsInv, SettingsTypes, NoneAhead, NoneRetired, S!View, S!RunsTheActive, Known
<1>7. CASE S!Refused
  <2>1. s \in Store /\ Ordered(s) /\ Known(s) /\ (main # S!Bad => s = main)
    BY <1>0, <1>7, ReadsAStore DEF S!Refused
  <2>2. mem' = s /\ torn' = (torn \/ s # mem)
        /\ UNCHANGED <<main, prev, installed, seen, writes, damage, retired, blind>>
    BY <1>7 DEF S!Refused, S!Reads
  <2> HIDE DEF s
  <2>3. SettingsTypes'
    BY <1>0, <2>1, <2>2 DEF SettingsTypes, StoreOK, Known
  <2>4. S!RunsTheActive'
    BY <2>2 DEF SettingsInv, S!RunsTheActive
  <2> QED BY <2>1, <2>2, <2>3, <2>4 DEF SettingsInv, NoneAhead, NoneRetired, Store
<1>8. CASE S!Damage
  <2>1. damage' # 0
    BY <1>0, <1>8 DEF S!Damage
  <2> QED BY <1>0, <1>8, <2>1 DEF S!Damage, SettingsInv, SettingsTypes, StoreOK, Known, S!RunsTheActive
<1>9. CASE S!Restart
  <2>1. s \in Store /\ Ordered(s) /\ Known(s) /\ (main # S!Bad => s = main)
    BY <1>0, <1>9, ReadsAStore DEF S!Restart
  <2>2. /\ mem' = s /\ installed' = [val |-> s.active.val, sec |-> s.active.sec]
        /\ retired' = IF s.active.sec # installed.sec
                      THEN (retired \cup {installed.sec}) \ {S!Cleared} ELSE retired
        /\ UNCHANGED <<main, prev, seen, writes, damage, blind>>
    BY <1>9 DEF S!Restart, S!Runs
  <2>3. s.active \in Version /\ installed'.sec = s.active.sec
    BY <2>1, <2>2 DEF Store
  <2> HIDE DEF s
  <2>4. SettingsTypes'
    <3>1. installed' \in [val : Values, sec : Nat] /\ installed'.sec <= writes
      BY <2>1, <2>2, <2>3 DEF Version, Known
    <3>2. retired' \subseteq 1 .. writes
      <4>1. installed.sec \in Nat /\ installed.sec <= writes /\ retired \subseteq 1 .. writes /\ writes \in Nat
        BY <1>0 DEF SettingsTypes
      <4> SUFFICES ASSUME NEW x \in retired \cup {installed.sec}, x # 0 PROVE x \in 1 .. writes
        BY <2>2, <4>1 DEF S!Cleared
      <4>2. CASE x \in retired
        BY <4>1, <4>2
      <4>3. CASE x = installed.sec
        BY <4>1, <4>3
      <4> QED BY <4>2, <4>3
    <3> QED BY <1>0, <2>1, <2>2, <3>1, <3>2 DEF SettingsTypes, StoreOK, Known
  <2>5. S!RunsTheActive'
    BY <2>2 DEF S!RunsTheActive
  <2>6. ASSUME damage = 0 PROVE NoneAhead' /\ NoneRetired'
    <3>1. s = main /\ NoneAhead /\ NoneRetired
      BY <2>1, <2>6 DEF SettingsInv, NoneAhead
    <3>2. NoneAhead'
      BY <2>2, <3>1 DEF NoneAhead
    <3>3. NoneRetired'
      BY <2>2, <2>3, <3>1 DEF NoneRetired, S!Cleared
    <3> QED BY <3>2, <3>3
  <2> QED BY <2>2, <2>4, <2>5, <2>6 DEF SettingsInv
<1> QED
  BY <1>2, <1>4, <1>5, <1>6, <1>7, <1>8, <1>9 DEF S!Next

LEMMA SettingsStay == ASSUME SettingsInv, UNCHANGED settings PROVE SettingsInv'
  BY DEF settings,
      SettingsInv, NoneAhead, NoneRetired, S!RunsTheActive, SettingsTypes, Known

-----------------------------------------------------------------------------
(* Accounts, sessions and seats.                                            *)

LEMMA IdentityConstants ==
  IsFiniteSet(Accounts) /\ Founders \subseteq Accounts /\ Limits \subseteq Nat
  BY ServicesAssumption

(* The instance counts as this module does.                                 *)
LEMMA IdentityCount == \A set : I!Cardinality(set) = Cardinality(set)
  BY DEF I!Cardinality, Cardinality

Person == [is : {"none", "on", "off"}, role : I!Roles, rev : Nat, password : BOOLEAN, token : BOOLEAN]

IdentityTypes ==
  /\ account \in [Accounts -> Person]
  /\ sessions \subseteq [of : Accounts, rev : Nat, cred : Nat]
  /\ IsFiniteSet(deriving) /\ \A d \in deriving : d.op = "create" => d.of \in Accounts /\ d.role \in I!Roles
  /\ \A d \in deriving : d.of \in Accounts
  /\ limit \in [I!Tenants -> Nat]
  /\ claimed \subseteq Accounts

(* A session holds the revision its credentials were of.                    *)
IdentityInv ==
  /\ IdentityTypes
  /\ \A s \in sessions : s.cred = s.rev
  /\ I!AdminRemains /\ I!SeatsWithin

LEMMA IdentityInvSafe == IdentityInv => I!Safe
BY DEF IdentityInv, I!Safe, I!CredentialsCurrent

(* Sets of accounts and of operations are finite, and a smaller one counts  *)
(* less.                                                                    *)
LEMMA CountsLess ==
  ASSUME NEW all, IsFiniteSet(all), NEW some, some \subseteq all
  PROVE  /\ IsFiniteSet(some) /\ Cardinality(some) \in Nat /\ Cardinality(all) \in Nat
         /\ Cardinality(some) <= Cardinality(all)
BY FS_Subset, FS_CardinalityType

LEMMA OneMore ==
  ASSUME NEW all, IsFiniteSet(all), NEW x
  PROVE  IsFiniteSet(all \cup {x}) /\ Cardinality(all \cup {x}) <= Cardinality(all) + 1
<1>1. /\ IsFiniteSet(all \cup {x}) /\ Cardinality(all) \in Nat
      /\ Cardinality(all \cup {x}) = IF x \in all THEN Cardinality(all) ELSE Cardinality(all) + 1
  BY FS_AddElement, FS_CardinalityType
<1> QED BY <1>1

LEMMA IdentityInit == I!Init => IdentityInv
<1> SUFFICES ASSUME I!Init PROVE IdentityInv
  OBVIOUS
<1>1. IdentityTypes
  BY FS_EmptySet, IdentityConstants DEF I!Init, IdentityTypes, Person, I!Roles
<1>2. \A s \in sessions : s.cred = s.rev
  BY DEF I!Init
<1>3. I!AdminRemains
  <2>1. \A a \in Founders : a \in Accounts /\ account[a].is = "on" /\ account[a].role = "platform"
    BY IdentityConstants DEF I!Init
  <2>2. Founders \cup claimed # {} => \E a \in Accounts : I!On(a) /\ account[a].role = "platform"
    BY <2>1 DEF I!Init, I!On
  <2>3. \A f \in Founders : f \in I!Enabled(TenantOf[f]) /\ I!IsAdmin(account[f].role)
    BY <2>1 DEF I!Enabled, I!On, I!IsAdmin
  <2> QED BY <2>2, <2>3 DEF I!AdminRemains
<1>4. I!SeatsWithin
  BY DEF I!Init, I!SeatsWithin
<1> QED BY <1>1, <1>2, <1>3, <1>4 DEF IdentityInv

(* Administrators remain when each account keeps its administration.        *)
LEMMA AdminsStay ==
  ASSUME IdentityInv, UNCHANGED claimed,
         \A a \in Accounts : I!On(a) /\ I!IsAdmin(account[a].role) => I!On(a)' /\ account'[a].role = account[a].role
  PROVE  I!AdminRemains'
<1>1. \A a \in Accounts : I!On(a) /\ account[a].role = "platform" => I!On(a)' /\ account'[a].role = "platform"
  BY DEF I!IsAdmin
<1>2. \A f \in Founders : \A a \in I!Enabled(TenantOf[f]) :
        I!IsAdmin(account[a].role) => a \in I!Enabled(TenantOf[f])' /\ I!IsAdmin(account[a].role)'
  BY DEF I!Enabled, I!IsAdmin
<1> QED BY <1>1, <1>2 DEF IdentityInv, I!AdminRemains

(* Seats: what a tenant has enabled and reserved does not grow.             *)
SeatsStay(t) ==
  /\ limit'[t] = limit[t]
  /\ (I!Enabled(t) \ claimed)' \subseteq I!Enabled(t) \ claimed
  /\ I!Reserved(t)' \subseteq I!Reserved(t)

LEMMA TenantSetsFinite ==
  ASSUME IdentityTypes, NEW t
  PROVE  /\ IsFiniteSet(I!Enabled(t)) /\ IsFiniteSet(I!Reserved(t)) /\ IsFiniteSet(I!Enabled(t) \ claimed)
         /\ Cardinality(I!Enabled(t)) \in Nat /\ Cardinality(I!Reserved(t)) \in Nat
         /\ Cardinality(I!Enabled(t) \ claimed) \in Nat
         /\ Cardinality(I!Enabled(t) \ claimed) <= Cardinality(I!Enabled(t))
<1>1. I!Enabled(t) \subseteq Accounts /\ I!Reserved(t) \subseteq deriving
  BY DEF I!Enabled, I!Reserved
<1>2. IsFiniteSet(I!Enabled(t)) /\ Cardinality(I!Enabled(t)) \in Nat
  BY <1>1, CountsLess, IdentityConstants
<1>3. IsFiniteSet(I!Reserved(t)) /\ Cardinality(I!Reserved(t)) \in Nat
  BY <1>1, CountsLess DEF IdentityTypes
<1>4. /\ IsFiniteSet(I!Enabled(t) \ claimed) /\ Cardinality(I!Enabled(t) \ claimed) \in Nat
      /\ Cardinality(I!Enabled(t) \ claimed) <= Cardinality(I!Enabled(t))
  BY <1>2, CountsLess
<1> QED BY <1>2, <1>3, <1>4

LEMMA SeatsStayWithin ==
  ASSUME IdentityInv, NEW t \in I!Tenants, SeatsStay(t), limit'[t] # 0
  PROVE  Cardinality((I!Enabled(t) \ claimed)') + Cardinality(I!Reserved(t)') <= limit'[t]
<1>1. IdentityTypes /\ limit[t] \in Nat /\ limit[t] # 0 /\ limit'[t] = limit[t]
  BY DEF IdentityInv, IdentityTypes, SeatsStay
<1>2. Cardinality(I!Enabled(t) \ claimed) + Cardinality(I!Reserved(t)) <= limit[t]
  BY <1>1, IdentityCount DEF IdentityInv, I!SeatsWithin
<1>3. IsFiniteSet(I!Enabled(t) \ claimed) /\ IsFiniteSet(I!Reserved(t))
  BY <1>1, TenantSetsFinite
<1>4. /\ Cardinality((I!Enabled(t) \ claimed)') \in Nat /\ Cardinality(I!Enabled(t) \ claimed) \in Nat
      /\ Cardinality((I!Enabled(t) \ claimed)') <= Cardinality(I!Enabled(t) \ claimed)
  BY <1>3, CountsLess DEF SeatsStay
<1>5. /\ Cardinality(I!Reserved(t)') \in Nat /\ Cardinality(I!Reserved(t)) \in Nat
      /\ Cardinality(I!Reserved(t)') <= Cardinality(I!Reserved(t))
  BY <1>3, CountsLess DEF SeatsStay
<1> QED BY <1>1, <1>2, <1>4, <1>5

(* A free seat is taken, by a creation that begins or an account that is    *)
(* enabled.                                                                 *)
LEMMA SeatTaken ==
  ASSUME IdentityInv, NEW t \in I!Tenants, I!SeatFree(t), limit'[t] = limit[t], limit[t] # 0,
         NEW a, NEW d,
         \/ (I!Enabled(t) \ claimed)' \subseteq I!Enabled(t) /\ I!Reserved(t)' \subseteq I!Reserved(t) \cup {d}
         \/ (I!Enabled(t) \ claimed)' \subseteq I!Enabled(t) \cup {a} /\ I!Reserved(t)' \subseteq I!Reserved(t)
  PROVE  Cardinality((I!Enabled(t) \ claimed)') + Cardinality(I!Reserved(t)') <= limit'[t]
<1>1. IdentityTypes /\ limit[t] \in Nat
  BY DEF IdentityInv, IdentityTypes
<1>2. Cardinality(I!Enabled(t)) + Cardinality(I!Reserved(t)) < limit[t]
  BY IdentityCount DEF I!SeatFree
<1> DEFINE e == Cardinality(I!Enabled(t))
           r == Cardinality(I!Reserved(t))
<1>3. IsFiniteSet(I!Enabled(t)) /\ IsFiniteSet(I!Reserved(t)) /\ e \in Nat /\ r \in Nat
  BY <1>1, TenantSetsFinite
<1>4. /\ IsFiniteSet(I!Enabled(t) \cup {a}) /\ Cardinality(I!Enabled(t) \cup {a}) <= e + 1
      /\ IsFiniteSet(I!Reserved(t) \cup {d}) /\ Cardinality(I!Reserved(t) \cup {d}) <= r + 1
  BY <1>3, OneMore
<1>5. CASE (I!Enabled(t) \ claimed)' \subseteq I!Enabled(t) /\ I!Reserved(t)' \subseteq I!Reserved(t) \cup {d}
  <2>1. Cardinality((I!Enabled(t) \ claimed)') <= e /\ Cardinality((I!Enabled(t) \ claimed)') \in Nat
    BY <1>3, <1>5, CountsLess
  <2>2. /\ Cardinality(I!Reserved(t)') <= Cardinality(I!Reserved(t) \cup {d})
        /\ Cardinality(I!Reserved(t)') \in Nat /\ Cardinality(I!Reserved(t) \cup {d}) \in Nat
    BY <1>4, <1>5, CountsLess
  <2> HIDE DEF e, r
  <2>3. e + r < limit[t]
    BY <1>2 DEF e, r
  <2> QED BY <1>1, <1>3, <1>4, <2>1, <2>2, <2>3
<1>6. CASE (I!Enabled(t) \ claimed)' \subseteq I!Enabled(t) \cup {a} /\ I!Reserved(t)' \subseteq I!Reserved(t)
  <2>1. /\ Cardinality((I!Enabled(t) \ claimed)') <= Cardinality(I!Enabled(t) \cup {a})
        /\ Cardinality((I!Enabled(t) \ claimed)') \in Nat /\ Cardinality(I!Enabled(t) \cup {a}) \in Nat
    BY <1>4, <1>6, CountsLess
  <2>2. Cardinality(I!Reserved(t)') <= r /\ Cardinality(I!Reserved(t)') \in Nat
    BY <1>3, <1>6, CountsLess
  <2> HIDE DEF e, r
  <2>3. e + r < limit[t]
    BY <1>2 DEF e, r
  <2> QED BY <1>1, <1>3, <1>4, <2>1, <2>2, <2>3
<1> QED BY <1>5, <1>6

(* A step that neither enables an account nor begins a creation.            *)
LEMMA SeatsStayOrLeft ==
  ASSUME IdentityInv, \A t \in I!Tenants : SeatsStay(t)
  PROVE  I!SeatsWithin'
BY SeatsStayWithin, IdentityCount DEF I!SeatsWithin

LEMMA IdentityStep == ASSUME IdentityInv, I!Next PROVE IdentityInv'
<1>0. /\ IdentityTypes /\ I!AdminRemains /\ I!SeatsWithin
      /\ \A s \in sessions : s.cred = s.rev
  BY DEF IdentityInv
<1>1. \A a \in Accounts : TenantOf[a] \in I!Tenants
  BY DEF I!Tenants
<1>2. ASSUME UNCHANGED <<account, claimed, limit>>, deriving' \subseteq deriving,
             sessions' \subseteq [of : Accounts, rev : Nat, cred : Nat], \A s \in sessions' : s.cred = s.rev
      PROVE  IdentityInv'
  <2>1. IdentityTypes'
    BY <1>0, <1>2, CountsLess DEF IdentityTypes
  <2>2. I!AdminRemains'
    BY <1>2, AdminsStay DEF I!On
  <2>3. \A t \in I!Tenants : SeatsStay(t)
    BY <1>2 DEF SeatsStay, I!Enabled, I!Reserved, I!On
  <2> QED BY <1>2, <2>1, <2>2, <2>3, SeatsStayOrLeft DEF IdentityInv
(* A derivation begins.                                                     *)
<1>3. ASSUME NEW d, d.of \in Accounts, I!Derive(d),
             d.op = "create" => d.role \in I!Roles /\ I!SeatFree(TenantOf[d.of])
      PROVE  IdentityInv'
  <2>1. deriving' = deriving \cup {d} /\ UNCHANGED <<account, sessions, limit, claimed>>
    BY <1>3 DEF I!Derive
  <2>2. IdentityTypes'
    BY <1>0, <1>3, <2>1, FS_AddElement DEF IdentityTypes
  <2>3. I!AdminRemains'
    BY <2>1, AdminsStay DEF I!On
  <2>4. ASSUME NEW t \in I!Tenants, limit'[t] # 0
        PROVE  Cardinality((I!Enabled(t) \ claimed)') + Cardinality(I!Reserved(t)') <= limit'[t]
    <3>1. (I!Enabled(t) \ claimed)' = I!Enabled(t) \ claimed
      BY <2>1 DEF I!Enabled, I!On
    <3>2. CASE d.op = "create" /\ TenantOf[d.of] = t
      <4>1. I!Reserved(t)' \subseteq I!Reserved(t) \cup {d} /\ I!SeatFree(t)
        BY <1>3, <2>1, <3>2 DEF I!Reserved
      <4> QED BY <2>1, <2>4, <3>1, <4>1, SeatTaken
    <3>3. CASE ~(d.op = "create" /\ TenantOf[d.of] = t)
      <4>1. SeatsStay(t)
        BY <2>1, <3>1, <3>3 DEF SeatsStay, I!Reserved
      <4> QED BY <2>4, <4>1, SeatsStayWithin
    <3> QED BY <3>2, <3>3
  <2> QED BY <1>0, <2>1, <2>2, <2>3, <2>4, IdentityCount DEF IdentityInv, I!SeatsWithin
<1>4. CASE I!Begin
  <2>1. PICK d : /\ d.of \in Accounts /\ I!Derive(d)
                 /\ d.op = "create" => d.role \in I!Roles /\ I!SeatFree(TenantOf[d.of])
    <3>1. CASE \E a \in Accounts : I!ClaimRequired /\ I!Derive([op |-> "claim", of |-> a])
      BY <3>1
    <3>2. CASE \E a \in Accounts : account[a].password /\ I!Derive([op |-> "login", of |-> a, rev |-> account[a].rev])
      BY <3>2
    <3>3. CASE \E a \in Accounts : /\ I!Authenticated(a) /\ account[a].password
                                   /\ I!Derive([op |-> "own", of |-> a, rev |-> account[a].rev])
      BY <3>3
    <3>4. CASE \E by \in Accounts, a \in Accounts :
                 /\ I!Authenticated(by) /\ I!Actor(by) /\ I!Target(by, a)
                 /\ I!Derive([op |-> "reset", of |-> a, by |-> by, rev |-> account[by].rev])
      BY <3>4
    <3>5. CASE \E by \in Accounts, a \in Accounts, role \in I!Roles :
                 /\ I!Authenticated(by) /\ I!Actor(by) /\ account[a].is = "none"
                 /\ I!MayTouch(by, TenantOf[a], role) /\ I!SeatFree(TenantOf[a])
                 /\ I!Derive([op |-> "create", of |-> a, by |-> by, rev |-> account[by].rev, role |-> role])
      BY <3>5
    <3> QED BY <1>4, <3>1, <3>2, <3>3, <3>4, <3>5 DEF I!Begin
  <2> QED BY <1>3, <2>1
<1>5. ASSUME NEW d \in deriving, I!Fails(d) PROVE IdentityInv'
  BY <1>0, <1>2, <1>5 DEF I!Fails, I!Derived, IdentityTypes
<1>6. ASSUME NEW a \in Accounts, UNCHANGED <<account, limit, claimed>>, deriving' \subseteq deriving,
             I!Issue(a, account[a].rev, sessions)
      PROVE  IdentityInv'
  <2>1. account[a].rev \in Nat
    BY <1>0 DEF IdentityTypes, Person
  <2> QED BY <1>0, <1>2, <1>6, <2>1 DEF I!Issue, IdentityTypes
<1>7. ASSUME NEW d \in deriving, I!Login(d) PROVE IdentityInv'
  BY <1>0, <1>6, <1>7 DEF I!Login, I!Same, I!Derived, IdentityTypes
<1>8. ASSUME NEW a \in Accounts, I!Exchange(a) PROVE IdentityInv'
  BY <1>6, <1>8 DEF I!Exchange
<1>9. ASSUME NEW d \in deriving, I!Claim(d) PROVE IdentityInv'
  <2>1. /\ claimed = {} /\ claimed' = {d.of} /\ deriving' = deriving \ {d} /\ UNCHANGED limit
        /\ d.of \in Accounts /\ d.op = "claim"
    BY <1>0, <1>9 DEF I!Claim, I!ClaimRequired, I!Derived, IdentityTypes
  <2> DEFINE n == IF account[d.of].is = "none" THEN 0 ELSE account[d.of].rev + 1
             new == [is |-> "on", role |-> "platform", password |-> TRUE, token |-> FALSE, rev |-> n]
  <2>2. n \in Nat
    BY <1>0, <2>1 DEF IdentityTypes, Person
  <2>3. account' = [account EXCEPT ![d.of] = new]
    BY <1>9 DEF I!Claim
  <2> HIDE DEF n
  <2>4. new \in Person
    BY <2>2 DEF Person, I!Roles
  <2>5. account' \in [Accounts -> Person] /\ account'[d.of] = new /\ \A a \in Accounts \ {d.of} : account'[a] = account[a]
    BY <1>0, <2>1, <2>3, <2>4 DEF IdentityTypes
  <2>6. sessions' = (sessions \ I!Of(d.of)) \cup {[of |-> d.of, rev |-> n, cred |-> n]}
    BY <1>9, <2>5 DEF I!Claim, I!Issue
  <2>7. IdentityTypes' /\ \A s \in sessions' : s.cred = s.rev
    BY <1>0, <2>1, <2>2, <2>5, <2>6, CountsLess DEF IdentityTypes
  <2>8. I!AdminRemains'
    <3>1. I!On(d.of)' /\ account'[d.of].role = "platform"
      BY <2>5 DEF I!On
    <3>2. \A f \in Founders : \A a \in I!Enabled(TenantOf[f]) :
            I!IsAdmin(account[a].role) => a \in I!Enabled(TenantOf[f])' /\ I!IsAdmin(account[a].role)'
      BY <2>5 DEF I!Enabled, I!IsAdmin, I!On
    <3> QED BY <1>0, <2>1, <3>1, <3>2 DEF I!AdminRemains
  <2>9. \A t \in I!Tenants : SeatsStay(t)
    BY <2>1, <2>5 DEF SeatsStay, I!Enabled, I!Reserved, I!On
  <2> QED BY <2>7, <2>8, <2>9, SeatsStayOrLeft DEF IdentityInv
(* An account is changed; Update is one such step.                          *)
<1>10. ASSUME NEW a \in Accounts, NEW new \in Person, I!Changed(a, new),
              new.is = account[a].is /\ new.role = account[a].role,
              deriving' \subseteq deriving, UNCHANGED <<limit, claimed>>
       PROVE  IdentityInv'
  <2>1. /\ account' \in [Accounts -> Person] /\ \A b \in Accounts \ {a} : account'[b] = account[b]
        /\ account'[a].is = account[a].is /\ account'[a].role = account[a].role
    BY <1>0, <1>10 DEF I!Changed, IdentityTypes, Person
  <2>2. sessions' \subseteq sessions
    BY <1>10 DEF I!Changed
  <2>3. IdentityTypes' /\ \A s \in sessions' : s.cred = s.rev
    BY <1>0, <1>10, <2>1, <2>2, CountsLess DEF IdentityTypes
  <2>4. I!AdminRemains'
    BY <1>10, <2>1, AdminsStay DEF I!On
  <2>5. \A t \in I!Tenants : SeatsStay(t)
    BY <1>10, <2>1 DEF SeatsStay, I!Enabled, I!Reserved, I!On
  <2> QED BY <2>3, <2>4, <2>5, SeatsStayOrLeft DEF IdentityInv
<1>11. ASSUME NEW d \in deriving, I!NewPassword(d) PROVE IdentityInv'
  <2> DEFINE new == [account[d.of] EXCEPT !.password = TRUE, !.token = FALSE]
  <2>1. d.of \in Accounts /\ account[d.of] \in Person
    BY <1>0 DEF IdentityTypes
  <2>2. new \in Person /\ new.is = account[d.of].is /\ new.role = account[d.of].role
    BY <2>1 DEF Person
  <2>3. I!Changed(d.of, new) /\ deriving' \subseteq deriving /\ UNCHANGED <<limit, claimed>>
    BY <1>11 DEF I!NewPassword, I!Derived
  <2> HIDE DEF new
  <2> QED BY <1>10, <2>1, <2>2, <2>3
<1>12. ASSUME NEW by \in Accounts, NEW a \in Accounts, I!Revoke(by, a) PROVE IdentityInv'
  <2> DEFINE new == [account[a] EXCEPT !.token = FALSE]
  <2>1. account[a] \in Person
    BY <1>0 DEF IdentityTypes
  <2>2. new \in Person /\ new.is = account[a].is /\ new.role = account[a].role
    BY <2>1 DEF Person
  <2>3. I!Changed(a, new) /\ deriving' \subseteq deriving /\ UNCHANGED <<limit, claimed>>
    BY <1>12 DEF I!Revoke
  <2> HIDE DEF new
  <2> QED BY <1>10, <2>2, <2>3
<1>13. ASSUME NEW d \in deriving, I!Create(d) PROVE IdentityInv'
  <2>1. /\ d.op = "create" /\ d.of \in Accounts /\ d.role \in I!Roles /\ deriving' = deriving \ {d}
        /\ account[d.of].is = "none" /\ account[d.of] \in Person /\ UNCHANGED <<sessions, limit, claimed>>
    BY <1>0, <1>13 DEF I!Create, I!Derived, IdentityTypes
  <2> DEFINE new == [account[d.of] EXCEPT !.is = "on", !.role = d.role, !.password = TRUE]
  <2>2. new \in Person
    BY <2>1 DEF Person
  <2>3. account' = [account EXCEPT ![d.of] = new]
    BY <1>13 DEF I!Create
  <2> HIDE DEF new
  <2>4. account' \in [Accounts -> Person] /\ \A b \in Accounts \ {d.of} : account'[b] = account[b]
    BY <1>0, <2>1, <2>2, <2>3 DEF IdentityTypes
  <2>5. IdentityTypes'
    BY <1>0, <2>1, <2>4, CountsLess DEF IdentityTypes
  <2>6. I!AdminRemains'
    BY <2>1, <2>4, AdminsStay DEF I!On
  <2>7. ASSUME NEW t \in I!Tenants, limit'[t] # 0
        PROVE  Cardinality((I!Enabled(t) \ claimed)') + Cardinality(I!Reserved(t)') <= limit'[t]
    <3>1. CASE TenantOf[d.of] # t
      <4>1. SeatsStay(t)
        BY <2>1, <2>4, <3>1 DEF SeatsStay, I!Enabled, I!Reserved, I!On
      <4> QED BY <2>7, <4>1, SeatsStayWithin
    <3>2. CASE TenantOf[d.of] = t
      <4> DEFINE e == I!Enabled(t) \ claimed
                 r == I!Reserved(t)
      <4>1. d \in r /\ I!Reserved(t)' = r \ {d} /\ (I!Enabled(t) \ claimed)' \subseteq e \cup {d.of}
        BY <2>1, <2>4, <3>2 DEF I!Enabled, I!Reserved, I!On
      <4>2. IsFiniteSet(e) /\ IsFiniteSet(r) /\ Cardinality(e) \in Nat /\ Cardinality(r) \in Nat
        BY <1>0, TenantSetsFinite
      <4>3. Cardinality(e) + Cardinality(r) <= limit[t] /\ limit[t] \in Nat /\ limit'[t] = limit[t]
        BY <1>0, <2>1, <2>7, IdentityCount DEF I!SeatsWithin, IdentityTypes
      <4> HIDE DEF e, r
      <4>4. Cardinality(r \ {d}) = Cardinality(r) - 1
        BY <4>1, <4>2, FS_RemoveElement
      <4>5. IsFiniteSet(e \cup {d.of}) /\ Cardinality(e \cup {d.of}) <= Cardinality(e) + 1
        BY <4>2, OneMore
      <4>6. /\ Cardinality((I!Enabled(t) \ claimed)') <= Cardinality(e \cup {d.of})
            /\ Cardinality((I!Enabled(t) \ claimed)') \in Nat /\ Cardinality(e \cup {d.of}) \in Nat
        BY <4>1, <4>5, CountsLess
      <4> QED BY <4>1, <4>2, <4>3, <4>4, <4>5, <4>6
    <3> QED BY <3>1, <3>2
  <2> QED BY <1>0, <2>1, <2>5, <2>6, <2>7, IdentityCount DEF IdentityInv, I!SeatsWithin
<1>14. ASSUME NEW by \in Accounts, NEW a \in Accounts, NEW is \in {"on", "off"}, NEW role \in I!Roles,
              I!Update(by, a, is, role)
       PROVE  IdentityInv'
  <2> DEFINE asked == [account[a] EXCEPT !.is = is, !.role = role]
             new == [asked EXCEPT !.token = @ /\ asked = account[a]]
  <2>1. /\ is = "on" => I!On(a) \/ I!SeatFree(TenantOf[a])
        /\ I!KeepsAdmin(a, asked) /\ I!Changed(a, new) /\ UNCHANGED <<deriving, limit, claimed>>
    BY <1>14 DEF I!Update
  <2>2. account[a] \in Person
    BY <1>0 DEF IdentityTypes
  <2>3. asked \in Person /\ asked.is = is /\ asked.role = role
    BY <2>2 DEF Person
  <2>4. new \in Person /\ new.is = is /\ new.role = role
    BY <2>3 DEF Person
  <2> HIDE DEF asked, new
  <2>5. /\ account' \in [Accounts -> Person] /\ \A b \in Accounts \ {a} : account'[b] = account[b]
        /\ account'[a].is = is /\ account'[a].role = role /\ sessions' \subseteq sessions
    BY <1>0, <2>1, <2>4 DEF I!Changed, IdentityTypes, Person
  <2>6. IdentityTypes' /\ \A s \in sessions' : s.cred = s.rev
    BY <1>0, <2>1, <2>5, CountsLess DEF IdentityTypes
  <2>7. I!AdminRemains'
    <3>1. ASSUME Founders \cup claimed' # {}
          PROVE  \E b \in Accounts : I!On(b)' /\ account'[b].role = "platform"
      <4>1. PICK b \in Accounts : I!On(b) /\ account[b].role = "platform"
        BY <1>0, <2>1, <3>1 DEF I!AdminRemains
      <4>2. CASE b # a \/ (is = "on" /\ role = "platform")
        BY <2>5, <4>1, <4>2 DEF I!On
      <4>3. CASE b = a /\ ~(is = "on" /\ role = "platform")
        <5>1. PICK o \in I!Others(a) : account[o].role = "platform"
          BY <2>1, <2>3, <4>1, <4>3 DEF I!KeepsAdmin, I!IsAdmin
        <5> QED BY <2>5, <5>1 DEF I!Others, I!On
      <4> QED BY <4>2, <4>3
    <3>2. ASSUME NEW f \in Founders
          PROVE  \E b \in I!Enabled(TenantOf[f])' : I!IsAdmin(account[b].role)'
      <4>1. PICK b \in I!Enabled(TenantOf[f]) : I!IsAdmin(account[b].role)
        BY <1>0 DEF I!AdminRemains
      <4>2. CASE b # a \/ (is = "on" /\ I!IsAdmin(role))
        BY <2>5, <4>1, <4>2 DEF I!On, I!Enabled, I!IsAdmin
      <4>3. CASE b = a /\ ~(is = "on" /\ I!IsAdmin(role))
        <5>1. I!On(a) /\ TenantOf[a] = TenantOf[f]
          BY <4>1, <4>3 DEF I!Enabled
        <5>2. PICK o \in I!Others(a) : TenantOf[o] = TenantOf[a] /\ I!IsAdmin(account[o].role)
          BY <2>1, <2>3, <4>1, <4>3, <5>1 DEF I!KeepsAdmin
        <5> QED BY <2>5, <5>1, <5>2 DEF I!Others, I!On, I!Enabled, I!IsAdmin
      <4> QED BY <4>2, <4>3
    <3> QED BY <3>1, <3>2 DEF I!AdminRemains
  <2>8. ASSUME NEW t \in I!Tenants, limit'[t] # 0
        PROVE  Cardinality((I!Enabled(t) \ claimed)') + Cardinality(I!Reserved(t)') <= limit'[t]
    <3>1. I!Reserved(t)' = I!Reserved(t) /\ limit'[t] = limit[t] /\ claimed' = claimed
      BY <2>1 DEF I!Reserved
    <3>2. CASE TenantOf[a] # t \/ I!On(a) \/ is = "off"
      <4>1. SeatsStay(t)
        BY <2>5, <3>1, <3>2 DEF SeatsStay, I!Enabled, I!On
      <4> QED BY <2>8, <4>1, SeatsStayWithin
    <3>3. CASE TenantOf[a] = t /\ ~I!On(a) /\ is = "on"
      <4>1. (I!Enabled(t) \ claimed)' \subseteq I!Enabled(t) \cup {a} /\ I!SeatFree(t)
        BY <2>1, <2>5, <3>1, <3>3 DEF I!Enabled, I!On
      <4> QED BY <2>8, <3>1, <4>1, SeatTaken
    <3> QED BY <3>2, <3>3
  <2> QED BY <2>6, <2>7, <2>8, IdentityCount DEF IdentityInv, I!SeatsWithin
<1>15. ASSUME NEW s \in sessions, I!Ends(s) PROVE IdentityInv'
  BY <1>0, <1>2, <1>15 DEF I!Ends, IdentityTypes
<1>16. ASSUME UNCHANGED <<account, sessions, deriving, limit, claimed>> PROVE IdentityInv'
  BY <1>0, <1>2, <1>16 DEF IdentityTypes
<1>17. ASSUME NEW a \in Writers, I!Arrive(a) \/ I!Submit(a) \/ I!TaskEnds(a) PROVE IdentityInv'
  BY <1>16, <1>17 DEF I!Arrive, I!Submit, I!TaskEnds
<1>18. ASSUME NEW t \in I!Tenants, NEW n \in Limits, I!SetLimit(t, n) PROVE IdentityInv'
  <2>1. /\ n # 0 => Cardinality(I!Enabled(t)) + Cardinality(I!Reserved(t)) <= n
        /\ limit' = [limit EXCEPT ![t] = n] /\ UNCHANGED <<account, sessions, deriving, claimed>>
        /\ n \in Nat
    BY <1>18, IdentityCount, IdentityConstants DEF I!SetLimit
  <2>2. IdentityTypes'
    BY <1>0, <2>1 DEF IdentityTypes
  <2>3. I!AdminRemains'
    BY <2>1, AdminsStay DEF I!On
  <2>4. ASSUME NEW u \in I!Tenants, limit'[u] # 0
        PROVE  Cardinality((I!Enabled(u) \ claimed)') + Cardinality(I!Reserved(u)') <= limit'[u]
    <3>1. (I!Enabled(u) \ claimed)' = I!Enabled(u) \ claimed /\ I!Reserved(u)' = I!Reserved(u)
      BY <2>1 DEF I!Enabled, I!Reserved, I!On
    <3>2. CASE u # t
      <4>1. SeatsStay(u)
        BY <1>0, <2>1, <3>1, <3>2 DEF SeatsStay, IdentityTypes
      <4> QED BY <2>4, <4>1, SeatsStayWithin
    <3>3. CASE u = t
      <4>1. limit'[u] = n
        BY <1>0, <2>1, <3>3 DEF IdentityTypes
      <4>2. /\ Cardinality(I!Enabled(u) \ claimed) <= Cardinality(I!Enabled(u))
            /\ Cardinality(I!Enabled(u) \ claimed) \in Nat /\ Cardinality(I!Enabled(u)) \in Nat
            /\ Cardinality(I!Reserved(u)) \in Nat
        BY <1>0, TenantSetsFinite
      <4>3. n # 0 /\ n \in Nat /\ Cardinality(I!Enabled(u)) + Cardinality(I!Reserved(u)) <= n
        BY <2>1, <2>4, <3>3, <4>1
      <4>4. Cardinality(I!Enabled(u) \ claimed) + Cardinality(I!Reserved(u)) <= n
        BY <4>2, <4>3
      <4> QED BY <3>1, <4>1, <4>4
    <3> QED BY <3>2, <3>3
  <2> QED BY <1>0, <2>1, <2>2, <2>3, <2>4, IdentityCount DEF IdentityInv, I!SeatsWithin
<1> QED BY <1>4, <1>5, <1>7, <1>8, <1>9, <1>11, <1>12, <1>13, <1>14, <1>15, <1>17, <1>18 DEF I!Next

LEMMA IdentityStay == ASSUME IdentityInv, UNCHANGED identity PROVE IdentityInv'
  BY DEF identity,
      IdentityInv, I!AdminRemains, I!Enabled, I!On, I!SeatsWithin, I!Reserved, IdentityTypes

-----------------------------------------------------------------------------
(* Tickets and streams.                                                     *)

LEMMA StreamsConstants ==
  IsFiniteSet(Ids) /\ MaxOut \in Nat /\ MaxOfOne \in Nat
  BY ServicesAssumption

(* The instance counts as this module does.                                 *)
LEMMA StreamsCount == \A set : T!Cardinality(set) = Cardinality(set)
  BY DEF T!Cardinality, Cardinality

LEMMA CountOfRest ==
  ASSUME NEW all, IsFiniteSet(all), NEW some \in SUBSET all
  PROVE  /\ IsFiniteSet(all \ some) /\ IsFiniteSet(some)
         /\ Cardinality(all \ some) = Cardinality(all) - Cardinality(some)
         /\ Cardinality(all \ some) \in Nat /\ Cardinality(all) \in Nat /\ Cardinality(some) \in Nat
<1>1. IsFiniteSet(all \ some) /\ IsFiniteSet(some)
  BY FS_Subset
<1>2. Cardinality((all \ some) \cup some) = Cardinality(all \ some) + Cardinality(some) - Cardinality((all \ some) \cap some)
  BY <1>1, FS_Union
<1>3. (all \ some) \cup some = all /\ (all \ some) \cap some = {}
  OBVIOUS
<1>4. Cardinality(all \ some) \in Nat /\ Cardinality(all) \in Nat /\ Cardinality(some) \in Nat
  BY <1>1, FS_CardinalityType
<1>5. Cardinality((all \ some) \cap some) = 0
  BY <1>3, FS_EmptySet
<1>6. Cardinality(all) = Cardinality(all \ some) + Cardinality(some) - 0
  BY <1>2, <1>3, <1>5
<1> QED BY <1>1, <1>4, <1>6

Ticket == [kind : T!Kinds, res : Resources, of : T!Principals]

StreamTypes ==
  /\ user \in [Users -> [on : BOOLEAN, ws : Workspaces]]
  /\ claims \in [Ids -> Ticket \cup {T!Unissued, T!Gone}]
  /\ stale \subseteq T!Out
  /\ count \in [T!Principals -> Nat]
  /\ opened \in [Ids -> Nat]
  /\ stream \in [Conns -> T!Principals \cup {T!Closed}]

StreamsInv ==
  /\ StreamTypes /\ T!Safe
  /\ \A i \in Ids : claims[i] = T!Unissued \/ i \in T!Out => opened[i] = 0

LEMMA OutIsTickets ==
  ASSUME StreamTypes
  PROVE  /\ T!Out \subseteq Ids /\ IsFiniteSet(T!Out)
         /\ \A i \in Ids : i \in T!Out <=> claims[i] \in Ticket
         /\ \A i \in Ids : claims[i] = T!Unissued => i \notin T!Out
         /\ \A p, ids : ids \subseteq T!Out => T!OfPrincipal(p, ids) \subseteq T!OfPrincipal(p, T!Out)
<1>1. T!Out \subseteq Ids
  BY DEF T!Out
<1>2. IsFiniteSet(T!Out)
  BY <1>1, FS_Subset, StreamsConstants
<1>3. \A i \in Ids : i \in T!Out <=> claims[i] \in Ticket
  BY DEF StreamTypes, T!Out, Ticket, T!Kinds, T!Unissued, T!Gone
<1>4. \A i \in Ids : claims[i] = T!Unissued => i \notin T!Out
  BY DEF T!Out, T!Kinds, T!Unissued
<1>5. \A p, ids : ids \subseteq T!Out => T!OfPrincipal(p, ids) \subseteq T!OfPrincipal(p, T!Out)
  BY DEF T!OfPrincipal
<1> QED BY <1>1, <1>2, <1>3, <1>4, <1>5

(* What is left when some tickets that are out are taken.                   *)
LEMMA TakenAreOut ==
  ASSUME StreamTypes, T!CountsExact, NEW ids, ids \subseteq T!Out
  PROVE  /\ T!Without(ids) \in [Ids -> Ticket \cup {T!Unissued, T!Gone}]
         /\ \A i \in Ids : T!Without(ids)[i].kind \in T!Kinds <=> i \in T!Out \ ids
         /\ \A i \in Ids \ ids : T!Without(ids)[i] = claims[i]
         /\ T!Left(ids) \in [T!Principals -> Nat]
         /\ \A p \in T!Principals :
              /\ T!Left(ids)[p] = Cardinality({i \in T!Out \ ids : claims[i].of = p})
              /\ T!Left(ids)[p] <= MaxOfOne
         /\ IsFiniteSet(T!Out \ ids) /\ Cardinality(T!Out \ ids) <= MaxOut
<1>1. T!Without(ids) \in [Ids -> Ticket \cup {T!Unissued, T!Gone}]
  BY DEF T!Without, StreamTypes
<1>2. \A i \in Ids : T!Without(ids)[i].kind \in T!Kinds <=> i \in T!Out \ ids
  BY DEF T!Without, T!Out, T!Gone, T!Kinds
<1>3. \A i \in Ids \ ids : T!Without(ids)[i] = claims[i]
  BY DEF T!Without
<1>4. ASSUME NEW p \in T!Principals
      PROVE  /\ T!Left(ids)[p] = Cardinality({i \in T!Out \ ids : claims[i].of = p})
             /\ T!Left(ids)[p] \in Nat /\ T!Left(ids)[p] <= MaxOfOne
  <2> DEFINE all == T!OfPrincipal(p, T!Out)
             some == T!OfPrincipal(p, ids)
  <2>1. some \subseteq all /\ all \subseteq T!Out /\ IsFiniteSet(all)
    BY OutIsTickets, FS_Subset DEF T!OfPrincipal
  <2>2. {i \in T!Out \ ids : claims[i].of = p} = all \ some
    BY DEF T!OfPrincipal
  <2>3. T!Left(ids)[p] = count[p] - Cardinality(some)
    BY StreamsCount DEF T!Left
  <2>4. count[p] = Cardinality(all) /\ count[p] <= MaxOfOne
    BY StreamsCount DEF T!CountsExact
  <2> HIDE DEF all, some
  <2>5. /\ Cardinality(all \ some) = Cardinality(all) - Cardinality(some) /\ Cardinality(all \ some) \in Nat
        /\ Cardinality(all) \in Nat /\ Cardinality(some) \in Nat
    BY <2>1, CountOfRest
  <2>6. Cardinality({i \in T!Out \ ids : claims[i].of = p}) = Cardinality(all) - Cardinality(some)
    BY <2>2, <2>5
  <2>7. /\ count[p] - Cardinality(some) = Cardinality(all) - Cardinality(some)
        /\ count[p] - Cardinality(some) \in Nat /\ count[p] - Cardinality(some) <= MaxOfOne
    BY <2>4, <2>5, StreamsConstants
  <2> QED BY <2>3, <2>6, <2>7
<1>5. T!Left(ids) \in [T!Principals -> Nat]
  <2>1. T!Left(ids) = [p \in T!Principals |-> T!Left(ids)[p]]
    BY DEF T!Left
  <2> QED BY <1>4, <2>1
<1>6. IsFiniteSet(T!Out \ ids) /\ Cardinality(T!Out \ ids) <= MaxOut
  <2>1. IsFiniteSet(T!Out) /\ Cardinality(T!Out) <= MaxOut
    BY OutIsTickets, StreamsCount DEF T!CountsExact
  <2>2. Cardinality(T!Out \ ids) = Cardinality(T!Out) - Cardinality(ids) /\ Cardinality(ids) \in Nat
        /\ Cardinality(T!Out) \in Nat /\ IsFiniteSet(T!Out \ ids)
    BY <2>1, CountOfRest
  <2> QED BY <2>1, <2>2, StreamsConstants
<1> QED BY <1>1, <1>2, <1>3, <1>4, <1>5, <1>6

LEMMA TakeKeeps ==
  ASSUME StreamTypes, T!CountsExact, NEW ids, ids \subseteq T!Out, T!Take(ids)
  PROVE  /\ claims' \in [Ids -> Ticket \cup {T!Unissued, T!Gone}] /\ count' \in [T!Principals -> Nat]
         /\ T!Out' = T!Out \ ids /\ stale' \subseteq T!Out'
         /\ \A i \in Ids \ ids : claims'[i] = claims[i]
         /\ \A i \in Ids : claims'[i] = T!Unissued => claims[i] = T!Unissued
         /\ T!CountsExact'
<1>1. claims' = T!Without(ids) /\ count' = T!Left(ids) /\ stale' = stale \ ids
  BY DEF T!Take
<1>2. T!Out' = T!Out \ ids
  BY <1>1, TakenAreOut DEF T!Out
<1>3. \A p \in T!Principals : T!OfPrincipal(p, T!Out)' = {i \in T!Out \ ids : claims[i].of = p}
  <2>1. \A i \in T!Out \ ids : claims'[i] = claims[i]
    BY <1>1, TakenAreOut DEF T!Out
  <2> QED BY <1>2, <2>1 DEF T!OfPrincipal
<1>4. T!CountsExact'
  <2>1. ASSUME NEW p \in T!Principals
        PROVE  count'[p] = Cardinality(T!OfPrincipal(p, T!Out)') /\ count'[p] <= MaxOfOne
    <3>1. T!Left(ids)[p] = Cardinality({i \in T!Out \ ids : claims[i].of = p}) /\ T!Left(ids)[p] <= MaxOfOne
      BY TakenAreOut
    <3>2. T!OfPrincipal(p, T!Out)' = {i \in T!Out \ ids : claims[i].of = p}
      BY <1>3
    <3> QED BY <1>1, <3>1, <3>2
  <2>2. Cardinality(T!Out') <= MaxOut
    BY <1>2, TakenAreOut
  <2> QED BY <2>1, <2>2, StreamsCount DEF T!CountsExact
<1>5. \A i \in Ids : claims'[i] = T!Unissued => claims[i] = T!Unissued
  BY <1>1 DEF T!Without, T!Gone, T!Unissued
<1>6. stale' \subseteq T!Out'
  BY <1>1, <1>2 DEF StreamTypes
<1>7. claims' \in [Ids -> Ticket \cup {T!Unissued, T!Gone}] /\ count' \in [T!Principals -> Nat]
  <2>1. T!Without(ids) \in [Ids -> Ticket \cup {T!Unissued, T!Gone}] /\ T!Left(ids) \in [T!Principals -> Nat]
    BY TakenAreOut
  <2> QED BY <1>1, <2>1
<1>8. \A i \in Ids \ ids : claims'[i] = claims[i]
  BY <1>1 DEF T!Without
<1> QED BY <1>2, <1>4, <1>5, <1>6, <1>7, <1>8

LEMMA StreamsInit == T!Init => StreamsInv
<1> SUFFICES ASSUME T!Init PROVE StreamsInv
  OBVIOUS
<1>1. T!Out = {}
  BY DEF T!Init, T!Out, T!Unissued, T!Kinds
<1>2. StreamTypes
  BY <1>1 DEF T!Init, StreamTypes
<1>3. T!CountsExact
  <2>1. \A p : T!OfPrincipal(p, T!Out) = {}
    BY <1>1 DEF T!OfPrincipal
  <2>2. Cardinality({}) = 0 /\ T!Cardinality({}) = 0
    BY StreamsCount, FS_EmptySet
  <2>3. \A p \in T!Principals : count[p] = 0
    BY DEF T!Init
  <2> QED BY <1>1, <2>1, <2>2, <2>3, StreamsConstants DEF T!CountsExact
<1>4. T!OpensOnce /\ T!StreamsValid /\ \A i \in Ids : opened[i] = 0
  BY DEF T!Init, T!OpensOnce, T!StreamsValid
<1> QED BY <1>2, <1>3, <1>4 DEF StreamsInv, T!Safe

(* The books stay when no ticket is touched.                                *)
LEMMA BooksStay ==
  ASSUME StreamsInv, UNCHANGED <<claims, count, opened>>
  PROVE  /\ T!Out' = T!Out /\ T!CountsExact' /\ T!OpensOnce'
         /\ \A i \in Ids : claims'[i] = T!Unissued \/ i \in T!Out' => opened'[i] = 0
<1>1. T!Out' = T!Out /\ \A p, ids : T!OfPrincipal(p, ids)' = {i \in ids' : claims[i].of = p'}
  BY DEF T!Out, T!OfPrincipal
<1>2. \A p \in T!Principals : T!OfPrincipal(p, T!Out)' = T!OfPrincipal(p, T!Out)
  BY <1>1 DEF T!OfPrincipal
<1> QED BY <1>1, <1>2 DEF StreamsInv, T!Safe, T!CountsExact, T!OpensOnce

LEMMA StreamsStep == ASSUME StreamsInv, T!Next PROVE StreamsInv'
<1>0. /\ StreamTypes /\ T!CountsExact /\ T!OpensOnce /\ T!StreamsValid
      /\ \A i \in Ids : claims[i] = T!Unissued \/ i \in T!Out => opened[i] = 0
  BY DEF StreamsInv, T!Safe
<1>1. ASSUME NEW u \in Users, NEW kind \in T!Kinds, NEW res \in Resources, T!Issue(u, kind, res)
      PROVE  StreamsInv'
  <2> DEFINE me == T!Principal(u)
  <2>1. me \in T!Principals
    BY <1>0 DEF T!Principal, T!Principals, StreamTypes
  <2>2. UNCHANGED <<user, opened, stream, uncut>>
    BY <1>1 DEF T!Issue
  <2>3. stale \subseteq T!Out
    BY <1>0 DEF StreamTypes
  <2>4. T!StreamsValid'
    BY <1>0, <2>2 DEF T!StreamsValid, T!ValidPrincipal
  <2>5. CASE T!Take(stale)
    <3>1. /\ claims' \in [Ids -> Ticket \cup {T!Unissued, T!Gone}] /\ count' \in [T!Principals -> Nat]
          /\ T!Out' \subseteq T!Out /\ stale' \subseteq T!Out'
          /\ \A i \in Ids : claims'[i] = T!Unissued => claims[i] = T!Unissued
          /\ T!CountsExact'
      BY <1>0, <2>3, <2>5, TakeKeeps
    <3>2. StreamTypes'
      BY <1>0, <2>2, <3>1 DEF StreamTypes
    <3> QED BY <1>0, <2>2, <2>4, <3>1, <3>2 DEF StreamsInv, T!Safe, T!OpensOnce
  <2>6. CASE /\ ~(Cardinality(T!Out \ stale) >= MaxOut \/ T!Left(stale)[me] >= MaxOfOne)
             /\ \E i \in Ids :
               /\ claims[i] = T!Unissued /\ \A j \in Ids : j < i => claims[j] # T!Unissued
               /\ claims' = [T!Without(stale) EXCEPT ![i] = [kind |-> kind, res |-> res, of |-> me]]
               /\ count' = [T!Left(stale) EXCEPT ![me] = @ + 1]
               /\ stale' = {}
    <3>1. PICK i \in Ids :
               /\ claims[i] = T!Unissued
               /\ claims' = [T!Without(stale) EXCEPT ![i] = [kind |-> kind, res |-> res, of |-> me]]
               /\ count' = [T!Left(stale) EXCEPT ![me] = @ + 1]
               /\ stale' = {}
      BY <2>6
    <3>2. i \notin T!Out /\ i \notin stale /\ opened[i] = 0
      BY <1>0, <2>3, <3>1, OutIsTickets
    <3> DEFINE w == T!Without(stale)
               l == T!Left(stale)
               new == [kind |-> kind, res |-> res, of |-> me]
    <3>3. new \in Ticket /\ new.of = me /\ new.kind \in T!Kinds
      BY <2>1 DEF Ticket
    <3>4. /\ w \in [Ids -> Ticket \cup {T!Unissued, T!Gone}] /\ l \in [T!Principals -> Nat]
          /\ \A j \in Ids : w[j].kind \in T!Kinds <=> j \in T!Out \ stale
          /\ \A j \in Ids \ stale : w[j] = claims[j]
          /\ \A p \in T!Principals : /\ l[p] = Cardinality({j \in T!Out \ stale : claims[j].of = p})
                                     /\ l[p] <= MaxOfOne
          /\ IsFiniteSet(T!Out \ stale)
      BY <1>0, <2>3, TakenAreOut
    <3>5. Cardinality(T!Out \ stale) < MaxOut /\ l[me] < MaxOfOne
      <4>1. Cardinality(T!Out \ stale) \in Nat /\ l[me] \in Nat
        BY <2>1, <3>4, FS_CardinalityType
      <4> QED BY <2>6, <4>1, StreamsConstants
    <3>6. \A j \in Ids : claims[j] = T!Unissued \/ j \in T!Out => opened[j] = 0
      BY <1>0
    <3> HIDE DEF w, l, new
    <3>7. claims' = [w EXCEPT ![i] = new] /\ count' = [l EXCEPT ![me] = @ + 1] /\ stale' = {}
      BY <3>1 DEF w, l, new
    <3>8. T!Out' = (T!Out \ stale) \cup {i}
      <4>1. \A j \in Ids : j \in T!Out' <=> claims'[j].kind \in T!Kinds
        BY DEF T!Out
      <4>2. \A j \in Ids : j \in T!Out' <=> j = i \/ j \in T!Out \ stale
        BY <3>3, <3>4, <3>7, <4>1
      <4>3. T!Out' \subseteq Ids /\ T!Out \subseteq Ids
        BY DEF T!Out
      <4> QED BY <4>2, <4>3
    <3>9. StreamTypes'
      BY <1>0, <2>1, <2>2, <3>3, <3>4, <3>7 DEF StreamTypes
    <3>10. Cardinality(T!Out') <= MaxOut
      <4>1. Cardinality(T!Out') = Cardinality(T!Out \ stale) + 1
        BY <3>2, <3>4, <3>8, FS_AddElement
      <4>2. Cardinality(T!Out \ stale) \in Nat
        BY <3>4, FS_CardinalityType
      <4> QED BY <3>5, <4>1, <4>2, StreamsConstants
    <3>11. ASSUME NEW p \in T!Principals
           PROVE  count'[p] = Cardinality(T!OfPrincipal(p, T!Out)') /\ count'[p] <= MaxOfOne
      <4> DEFINE old == {j \in T!Out \ stale : claims[j].of = p}
      <4>1. IsFiniteSet(old) /\ Cardinality(old) \in Nat /\ i \notin old
        BY <3>2, <3>4, FS_Subset, FS_CardinalityType
      <4>2. claims'[i].of = me /\ \A j \in T!Out \ stale : claims'[j] = claims[j]
        BY <3>2, <3>3, <3>4, <3>7 DEF T!Out
      <4>3. T!OfPrincipal(p, T!Out)' = IF p = me THEN old \cup {i} ELSE old
        BY <3>8, <4>2 DEF T!OfPrincipal
      <4>4. l[p] = Cardinality(old) /\ l[p] <= MaxOfOne /\ l[p] \in Nat
        BY <3>4
      <4>5. count'[p] = IF p = me THEN l[p] + 1 ELSE l[p]
        BY <3>4, <3>7
      <4>6. Cardinality(old \cup {i}) = Cardinality(old) + 1
        BY <4>1, FS_AddElement
      <4> HIDE DEF old
      <4> QED BY <3>5, <4>3, <4>4, <4>5, <4>6, StreamsConstants
    <3>12. T!CountsExact'
      BY <3>10, <3>11, StreamsCount DEF T!CountsExact
    <3>13. \A j \in Ids : claims'[j] = T!Unissued \/ j \in T!Out' => opened'[j] = 0
      <4> SUFFICES ASSUME NEW j \in Ids, j # i, claims'[j] = T!Unissued \/ j \in T!Out' PROVE opened[j] = 0
        BY <2>2, <3>2
      <4>1. CASE j \in T!Out'
        BY <1>0, <3>8, <4>1
      <4>2. CASE claims'[j] = T!Unissued
        <5>1. w[j] = T!Unissued
          BY <3>4, <3>7, <4>2
        <5>2. j \notin stale
          BY <5>1 DEF w, T!Without, T!Gone, T!Unissued
        <5> QED BY <1>0, <3>4, <5>1, <5>2
      <4> QED BY <4>1, <4>2
    <3>14. T!OpensOnce'
      BY <1>0, <2>2, <3>13 DEF T!OpensOnce
    <3> QED BY <2>4, <3>9, <3>12, <3>13, <3>14 DEF StreamsInv, T!Safe
  <2> QED BY <1>1, <2>5, <2>6, StreamsCount DEF T!Issue
<1>2. ASSUME NEW i \in Ids, NEW kind \in T!Kinds, NEW res \in Resources, NEW c \in Conns, T!Present(i, kind, res, c)
      PROVE  StreamsInv'
  <2> DEFINE ids == {i} \cap T!Out
             taken == T!Fits(i, kind, res) /\ T!ValidPrincipal(claims[i].of)
  <2>1. /\ T!Take(ids) /\ UNCHANGED <<user, uncut>>
        /\ taken => /\ opened' = [opened EXCEPT ![i] = @ + 1]
                    /\ stream' \in {stream, [stream EXCEPT ![c] = claims[i].of]}
        /\ ~taken => UNCHANGED <<opened, stream>>
    BY <1>2 DEF T!Present, T!Consume
  <2>2. /\ claims' \in [Ids -> Ticket \cup {T!Unissued, T!Gone}] /\ count' \in [T!Principals -> Nat]
        /\ T!Out' = T!Out \ {i} /\ stale' \subseteq T!Out'
        /\ \A j \in Ids : claims'[j] = T!Unissued => claims[j] = T!Unissued
        /\ T!CountsExact'
    BY <1>0, <2>1, TakeKeeps
  <2>3. taken => i \in T!Out /\ claims[i].of \in T!Principals /\ opened[i] = 0 /\ claims[i] # T!Unissued
    BY <1>0, OutIsTickets DEF T!Fits, Ticket
  <2>4. taken => T!ValidPrincipal(claims[i].of)
    OBVIOUS
  <2> HIDE DEF taken
  <2>5. StreamTypes'
    BY <1>0, <2>1, <2>2, <2>3 DEF StreamTypes
  <2>6. T!StreamsValid'
    BY <1>0, <2>1, <2>3, <2>4 DEF StreamTypes, T!StreamsValid, T!ValidPrincipal
  <2>7. T!OpensOnce' /\ \A j \in Ids : claims'[j] = T!Unissued \/ j \in T!Out' => opened'[j] = 0
    BY <1>0, <2>1, <2>2, <2>3 DEF StreamTypes, T!OpensOnce
  <2> QED BY <2>2, <2>5, <2>6, <2>7 DEF StreamsInv, T!Safe
<1>3. ASSUME UNCHANGED <<user, claims, count, opened, uncut>>, stale' \subseteq T!Out,
             NEW c \in Conns,
             \/ stream' = stream \/ stream' = [stream EXCEPT ![c] = T!Closed]
             \/ \E u \in Users : user[u].on /\ stream' = [stream EXCEPT ![c] = T!Principal(u)]
      PROVE  StreamsInv'
  <2>1. StreamTypes'
    BY <1>0, <1>3, BooksStay DEF StreamTypes, T!Principal, T!Principals
  <2>2. T!StreamsValid'
    BY <1>0, <1>3 DEF StreamTypes, T!StreamsValid, T!ValidPrincipal, T!Principal
  <2> QED BY <1>3, <2>1, <2>2, BooksStay DEF StreamsInv, T!Safe
<1>4. ASSUME NEW u \in Users, NEW c \in Conns, T!Attach(u, c) PROVE StreamsInv'
  <2>1. stale' \subseteq T!Out /\ UNCHANGED <<user, claims, count, opened, uncut>>
        /\ user[u].on /\ stream' = [stream EXCEPT ![c] = T!Principal(u)]
    BY <1>0, <1>4 DEF T!Attach, StreamTypes
  <2> QED BY <1>3, <2>1
<1>5. ASSUME NEW c \in Conns, T!Detach(c) PROVE StreamsInv'
  <2>1. stale' \subseteq T!Out /\ UNCHANGED <<user, claims, count, opened, uncut>>
        /\ stream' = [stream EXCEPT ![c] = T!Closed]
    BY <1>0, <1>5 DEF T!Detach, StreamTypes
  <2> QED BY <1>3, <2>1
<1>6. ASSUME NEW i \in Ids, T!Expire(i) PROVE StreamsInv'
  <2>1. stale' \subseteq T!Out /\ UNCHANGED <<user, claims, count, opened, uncut, stream>>
    BY <1>0, <1>6 DEF T!Expire, StreamTypes
  <2>2. StreamTypes'
    BY <1>0, <2>1, BooksStay DEF StreamTypes
  <2>3. T!StreamsValid'
    BY <1>0, <2>1 DEF T!StreamsValid, T!ValidPrincipal
  <2> QED BY <2>1, <2>2, <2>3, BooksStay DEF StreamsInv, T!Safe
<1>7. ASSUME NEW u \in Users, NEW on \in BOOLEAN, NEW ws \in Workspaces, T!Change(u, on, ws) PROVE StreamsInv'
  <2>1. user' = [user EXCEPT ![u] = [on |-> on, ws |-> ws]] /\ UNCHANGED opened
    BY <1>7 DEF T!Change
  <2>2. user' \in [Users -> [on : BOOLEAN, ws : Workspaces]] /\ \A v \in Users \ {u} : user'[v] = user[v]
    BY <1>0, <2>1 DEF StreamTypes
  <2>3. CASE /\ T!Take({i \in T!Out : claims[i].of.u = u})
             /\ stream' = [c \in Conns |-> T!Closed]
    <3>1. /\ claims' \in [Ids -> Ticket \cup {T!Unissued, T!Gone}] /\ count' \in [T!Principals -> Nat]
          /\ T!Out' \subseteq T!Out /\ stale' \subseteq T!Out'
          /\ \A j \in Ids : claims'[j] = T!Unissued => claims[j] = T!Unissued
          /\ T!CountsExact'
      BY <1>0, <2>3, TakeKeeps
    <3>2. StreamTypes' /\ T!StreamsValid'
      BY <1>0, <2>1, <2>2, <2>3, <3>1 DEF StreamTypes, T!StreamsValid
    <3> QED BY <1>0, <2>1, <3>1, <3>2 DEF StreamsInv, T!Safe, T!OpensOnce
  <2>4. CASE uncut' = uncut \cup {u} /\ UNCHANGED <<claims, count, stale, stream>>
    <3>1. StreamTypes'
      BY <1>0, <2>1, <2>2, <2>4, BooksStay DEF StreamTypes
    <3>2. T!StreamsValid'
      BY <1>0, <2>2, <2>4 DEF StreamTypes, T!StreamsValid, T!ValidPrincipal, T!Principals
    <3> QED BY <2>1, <2>4, <3>1, <3>2, BooksStay DEF StreamsInv, T!Safe
  <2> QED BY <1>7, <2>3, <2>4 DEF T!Change
<1> QED BY <1>1, <1>2, <1>4, <1>5, <1>6, <1>7 DEF T!Next

LEMMA StreamsStay == ASSUME StreamsInv, UNCHANGED streams PROVE StreamsInv'
  BY DEF streams,
      StreamsInv, StreamTypes, T!Out, T!Safe, T!CountsExact, T!OfPrincipal, T!OpensOnce,
      T!StreamsValid, T!ValidPrincipal

-----------------------------------------------------------------------------
(* Local calls.  Safe alone is not inductive: a timer may not be set for a  *)
(* command that is over, nor a file be there of a call that makes none.     *)

LEMMA CallsConstants ==
  NoCall \notin LocalCalls
  BY ServicesAssumption

CallsInv ==
  /\ L!Safe
  /\ \A c \in LocalCalls :
       /\ group[c] = "alive" => pc[c] = "running"
       /\ child[c] = "alive" /\ pc[c] # "running" => killFallback[c] = "over"
       /\ pc[c] \in {"idle", "scanning", "copying"} => child[c] = "none"
       /\ copy[c] # "none" => pc[c] \in {"copying", "done"}

(* The same of one call.                                                    *)
CallSound(c) ==
  /\ pc[c] \in L!Working => activeRoots = c
  /\ group[c] = "alive" => pc[c] = "running"
  /\ activeRoots = c => pc[c] \in L!Working
  /\ timeout[c] \/ killFallback[c] = "set" => pc[c] = "running"
  /\ child[c] = "alive" /\ pc[c] # "running" => killFallback[c] = "over"
  /\ pc[c] \in {"idle", "scanning", "copying"} => child[c] = "none"
  /\ copy[c] # "none" => pc[c] \in {"copying", "done"}
  /\ pc[c] = "done" => copy[c] # "part"

LEMMA CallsInvIsLocal ==
  /\ CallsInv <=> L!TypeOK /\ \A c \in LocalCalls : CallSound(c)
  /\ CallsInv' <=> L!TypeOK' /\ \A c \in LocalCalls : CallSound(c)'
<1> USE CallsConstants DEF CallsInv, L!Safe, L!TypeOK, L!RootsExclusive, L!ReservedByWorker, L!NoTimerLeft, L!CopiedWhole, CallSound
<1>1. CallsInv <=> L!TypeOK /\ \A c \in LocalCalls : CallSound(c)
  OBVIOUS
<1>2. CallsInv' <=> L!TypeOK' /\ \A c \in LocalCalls : CallSound(c)'
  OBVIOUS
<1> QED BY <1>1, <1>2

LEMMA CallsInit == L!Init => CallsInv
<1> SUFFICES ASSUME L!Init PROVE L!TypeOK /\ \A c \in LocalCalls : CallSound(c)
  BY CallsInvIsLocal
<1> QED
  BY CallsConstants DEF L!Init, L!TypeOK, CallSound, L!Working

(* What is the same of the calls that do not take the step.                 *)
CallStays(d) ==
  /\ pc'[d] = pc[d] /\ child'[d] = child[d] /\ group'[d] = group[d] /\ timeout'[d] = timeout[d]
  /\ killFallback'[d] = killFallback[d] /\ copy'[d] = copy[d]
  /\ activeRoots' = d <=> activeRoots = d

LEMMA CallsNext == ASSUME CallsInv, L!Next PROVE CallsInv'
<1>0. L!TypeOK /\ \A d \in LocalCalls : CallSound(d)
  BY CallsInvIsLocal
<1> PICK c \in LocalCalls : L!Proceeds(c) \/ L!Breaks(c) \/ L!Abort(c) \/ L!SpawnFails(c) \/ L!Exits(c) \/ L!Closes(c)
  BY DEF L!Next
<1>a. L!TypeOK /\ CallSound(c) /\ c # NoCall
  BY <1>0, CallsConstants
<1>b. SUFFICES L!TypeOK' /\ CallSound(c)' /\ \A d \in LocalCalls \ {c} : CallStays(d)
  <2> SUFFICES ASSUME NEW d \in LocalCalls \ {c}, CallStays(d) PROVE CallSound(d)'
    BY CallsInvIsLocal
  <2> QED BY <1>0 DEF CallStays, CallSound
<1> USE <1>a DEF L!process, L!Answers
<1>1. CASE L!Reserve(c)
  <2> USE <1>1 DEF L!Reserve
  <2>1. L!TypeOK'
    <3>1. activeRoots' \in LocalCalls \cup {NoCall}
      BY DEF L!TypeOK
    <3>2. PICK at \in {"failed"} \cup L!Working : pc' = [pc EXCEPT ![c] = at]
      BY DEF L!Working
    <3>3. pc' \in [LocalCalls -> {"idle", "failed", "done"} \cup L!Working]
      BY <3>2 DEF L!TypeOK
    <3> QED BY <3>1, <3>3 DEF L!TypeOK
  <2>2. CallSound(c)'  BY DEF L!TypeOK, CallSound, L!Working
  <2>3. \A d \in LocalCalls \ {c} : CallStays(d)  BY CallsConstants DEF L!TypeOK, CallSound, CallStays, L!Working
  <2> QED BY <2>1, <2>2, <2>3
<1>2. CASE L!Breaks(c)
  <2> USE <1>2 DEF L!Breaks
  <2>1. L!TypeOK'
    <3>1. activeRoots' \in LocalCalls \cup {NoCall} /\ copy' \in [LocalCalls -> {"none", "part", "whole"}]
      BY DEF L!TypeOK
    <3>2. pc' \in [LocalCalls -> {"idle", "failed", "done"} \cup L!Working]
      BY DEF L!TypeOK
    <3> QED BY <3>1, <3>2 DEF L!TypeOK
  <2>2. CallSound(c)'  BY DEF L!TypeOK, CallSound, L!Working
  <2>3. \A d \in LocalCalls \ {c} : CallStays(d)  BY CallsConstants DEF L!TypeOK, CallSound, CallStays, L!Working
  <2> QED BY <2>1, <2>2, <2>3
<1>3. CASE L!Spawn(c)
  <2> USE <1>3 DEF L!Spawn
  <2>1. L!TypeOK'
    <3>1. pc' \in [LocalCalls -> {"idle", "failed", "done"} \cup L!Working]
      BY DEF L!TypeOK, L!Working
    <3>2. activeRoots' \in LocalCalls \cup {NoCall} /\ copy' \in [LocalCalls -> {"none", "part", "whole"}]
      BY DEF L!TypeOK
    <3>3. child' \in [LocalCalls -> {"none", "alive", "exited", "closed"}]
      BY DEF L!TypeOK
    <3>4. /\ group' \in [LocalCalls -> {"none", "alive", "dead"}] /\ timeout' \in [LocalCalls -> BOOLEAN]
          /\ killFallback' \in [LocalCalls -> {"unset", "set", "over"}] /\ stopped' \in [LocalCalls -> BOOLEAN]
      BY DEF L!TypeOK
    <3> QED BY <3>1, <3>2, <3>3, <3>4 DEF L!TypeOK
  <2>2. CallSound(c)'  BY DEF L!TypeOK, CallSound, L!Working
  <2>3. \A d \in LocalCalls \ {c} : CallStays(d)  BY CallsConstants DEF L!TypeOK, CallSound, CallStays, L!Working
  <2> QED BY <2>1, <2>2, <2>3
<1>4. CASE L!TimesOut(c)
  <2> USE <1>4 DEF L!TimesOut, L!Terminate, L!Kill, L!StopWaiting
  <2>1. L!TypeOK'  BY DEF L!TypeOK, L!Working
  <2>2. CallSound(c)'  BY DEF L!TypeOK, CallSound, L!Working
  <2>3. \A d \in LocalCalls \ {c} : CallStays(d)  BY CallsConstants DEF L!TypeOK, CallSound, CallStays, L!Working
  <2> QED BY <2>1, <2>2, <2>3
<1>5. CASE L!Abort(c)
  <2> USE <1>5 DEF L!Abort, L!Terminate, L!Kill, L!StopWaiting
  <2>1. L!TypeOK'  BY DEF L!TypeOK, L!Working
  <2>2. CallSound(c)'  BY DEF L!TypeOK, CallSound, L!Working
  <2>3. \A d \in LocalCalls \ {c} : CallStays(d)  BY CallsConstants DEF L!TypeOK, CallSound, CallStays, L!Working
  <2> QED BY <2>1, <2>2, <2>3
<1>6. CASE L!SpawnFails(c)
  <2> USE <1>6 DEF L!SpawnFails, L!Kill, L!Cleanup
  <2>1. L!TypeOK'  BY DEF L!TypeOK, L!Working
  <2>2. CallSound(c)'  BY DEF L!TypeOK, CallSound, L!Working
  <2>3. \A d \in LocalCalls \ {c} : CallStays(d)  BY CallsConstants DEF L!TypeOK, CallSound, CallStays, L!Working
  <2> QED BY <2>1, <2>2, <2>3
<1>7. CASE L!Exits(c)
  <2> USE <1>7 DEF L!Exits, L!Kill, L!StopWaiting
  <2>1. L!TypeOK'  BY DEF L!TypeOK, L!Working
  <2>2. CallSound(c)'  BY DEF L!TypeOK, CallSound, L!Working
  <2>3. \A d \in LocalCalls \ {c} : CallStays(d)  BY CallsConstants DEF L!TypeOK, CallSound, CallStays, L!Working
  <2> QED BY <2>1, <2>2, <2>3
<1>8. CASE L!Closes(c)
  <2> USE <1>8 DEF L!Closes, L!Finish, L!Kill, L!Cleanup
  <2>1. L!TypeOK'  BY DEF L!TypeOK, L!Working
  <2>2. CallSound(c)'  BY DEF L!TypeOK, CallSound, L!Working
  <2>3. \A d \in LocalCalls \ {c} : CallStays(d)  BY CallsConstants DEF L!TypeOK, CallSound, CallStays, L!Working
  <2> QED BY <2>1, <2>2, <2>3
<1>9. CASE L!GivesUp(c)
  <2> USE <1>9 DEF L!GivesUp, L!Finish, L!Kill, L!Cleanup
  <2>1. L!TypeOK'  BY DEF L!TypeOK, L!Working
  <2>2. CallSound(c)'  BY DEF L!TypeOK, CallSound, L!Working
  <2>3. \A d \in LocalCalls \ {c} : CallStays(d)  BY CallsConstants DEF L!TypeOK, CallSound, CallStays, L!Working
  <2> QED BY <2>1, <2>2, <2>3
<1>10. CASE L!Collected(c)
  <2> USE <1>10 DEF L!Collected
  <2>1. L!TypeOK'  BY DEF L!TypeOK, L!Working
  <2>2. CallSound(c)'  BY DEF L!TypeOK, CallSound, L!Working
  <2>3. \A d \in LocalCalls \ {c} : CallStays(d)  BY CallsConstants DEF L!TypeOK, CallSound, CallStays, L!Working
  <2> QED BY <2>1, <2>2, <2>3
<1>11. CASE L!Create(c)
  <2> USE <1>11 DEF L!Create
  <2>1. L!TypeOK'  BY DEF L!TypeOK, L!Working
  <2>2. CallSound(c)'  BY DEF L!TypeOK, CallSound, L!Working
  <2>3. \A d \in LocalCalls \ {c} : CallStays(d)  BY CallsConstants DEF L!TypeOK, CallSound, CallStays, L!Working
  <2> QED BY <2>1, <2>2, <2>3
<1>12. CASE L!Write(c)
  <2> USE <1>12 DEF L!Write
  <2>1. L!TypeOK'  BY DEF L!TypeOK, L!Working
  <2>2. CallSound(c)'  BY DEF L!TypeOK, CallSound, L!Working
  <2>3. \A d \in LocalCalls \ {c} : CallStays(d)  BY CallsConstants DEF L!TypeOK, CallSound, CallStays, L!Working
  <2> QED BY <2>1, <2>2, <2>3
<1>13. CASE L!Staged(c)
  <2> USE <1>13 DEF L!Staged
  <2>1. L!TypeOK'  BY DEF L!TypeOK, L!Working
  <2>2. CallSound(c)'  BY DEF L!TypeOK, CallSound, L!Working
  <2>3. \A d \in LocalCalls \ {c} : CallStays(d)  BY CallsConstants DEF L!TypeOK, CallSound, CallStays, L!Working
  <2> QED BY <2>1, <2>2, <2>3
<1> QED
  BY <1>1, <1>2, <1>3, <1>4, <1>5, <1>6, <1>7, <1>8, <1>9, <1>10, <1>11, <1>12, <1>13 DEF L!Proceeds

LEMMA CallsStay == ASSUME CallsInv, UNCHANGED calls PROVE CallsInv'
  BY DEF calls,
      CallsInv, L!Safe, L!CopiedWhole, L!NoTimerLeft, L!ReservedByWorker, L!RootsExclusive,
      L!TypeOK

-----------------------------------------------------------------------------
(* Calls of the models: the seats and the budget of an evaluation.          *)

LEMMA ModelsConstants ==
  IsFiniteSet(ModelCalls) /\ MaxActive \in Nat /\ Need \in Nat /\ Budget \in Nat
  BY ServicesAssumption

(* The instance counts as this module does.                                 *)
LEMMA ModelsCount == \A set : M!Cardinality(set) = Cardinality(set)
  BY DEF M!Cardinality, Cardinality

InSeats == {c \in ModelCalls : gateAt[c] \in M!Seated}

ModelsInv ==
  /\ gateAt \in [ModelCalls -> M!Seated \cup {"new", "over"}]
  /\ gateActive \in Nat /\ gateSpent \in Int /\ gateUsed \in Int
  /\ M!SeatsExact /\ M!BudgetHeld

LEMMA ModelsInit == M!Init => ModelsInv
<1> SUFFICES ASSUME M!Init PROVE ModelsInv
  OBVIOUS
<1>1. InSeats = {}
  BY DEF M!Init, InSeats, M!Seated
<1>2. M!Cardinality(InSeats) = 0
  BY <1>1, ModelsCount, FS_EmptySet
<1> QED BY <1>2, ModelsConstants DEF M!Init, ModelsInv, M!SeatsExact, M!BudgetHeld, InSeats

(* One call takes or gives back its seat, or keeps what it has.             *)
LEMMA SeatsMove ==
  ASSUME ModelsInv, NEW c \in ModelCalls, NEW to \in M!Seated \cup {"new", "over"},
         gateAt' = [gateAt EXCEPT ![c] = to],
         \/ gateAt[c] \in M!Seated /\ to \in M!Seated /\ gateActive' = gateActive
         \/ gateAt[c] \in M!Seated /\ to \notin M!Seated /\ gateActive' = gateActive - 1
         \/ gateAt[c] \notin M!Seated /\ to \in M!Seated /\ gateActive' = gateActive + 1 /\ gateActive < MaxActive
         \/ gateAt[c] \notin M!Seated /\ to \notin M!Seated /\ gateActive' = gateActive
  PROVE  /\ gateAt' \in [ModelCalls -> M!Seated \cup {"new", "over"}]
         /\ gateActive' \in Nat /\ M!SeatsExact'
<1>1. gateAt' \in [ModelCalls -> M!Seated \cup {"new", "over"}]
  BY DEF ModelsInv
<1>2. IsFiniteSet(InSeats) /\ gateActive = Cardinality(InSeats) /\ gateActive \in Nat /\ gateActive <= MaxActive
  BY FS_Subset, ModelsCount, ModelsConstants DEF InSeats, ModelsInv, M!SeatsExact
<1>3. /\ c \in InSeats <=> gateAt[c] \in M!Seated
      /\ InSeats' = IF to \in M!Seated THEN InSeats \cup {c} ELSE InSeats \ {c}
  BY DEF InSeats, ModelsInv
<1>4. /\ Cardinality(InSeats \cup {c}) = IF c \in InSeats THEN Cardinality(InSeats) ELSE Cardinality(InSeats) + 1
      /\ Cardinality(InSeats \ {c}) = IF c \in InSeats THEN Cardinality(InSeats) - 1 ELSE Cardinality(InSeats)
  BY <1>2, FS_AddElement, FS_RemoveElement
<1>5. Cardinality(InSeats') \in Nat
  <2>1. InSeats' \subseteq InSeats \cup {c} /\ IsFiniteSet(InSeats \cup {c})
    BY <1>2, <1>3, FS_AddElement
  <2> QED BY <2>1, FS_Subset, FS_CardinalityType
<1>6. gateActive' = Cardinality(InSeats') /\ gateActive' <= MaxActive
  BY <1>2, <1>3, <1>4, ModelsConstants
<1> QED BY <1>1, <1>5, <1>6, ModelsCount DEF M!SeatsExact, InSeats

LEMMA ModelsStep == ASSUME ModelsInv, M!Next PROVE ModelsInv'
<1>0. /\ gateAt \in [ModelCalls -> M!Seated \cup {"new", "over"}] /\ M!SeatsExact /\ M!BudgetHeld
      /\ gateActive \in Nat /\ gateSpent \in Int /\ gateUsed \in Int
  BY DEF ModelsInv
<1> DEFINE Books == gateSpent' \in Int /\ gateUsed' \in Int /\ M!BudgetHeld'
<1>1. ASSUME NEW c \in ModelCalls, NEW to \in M!Seated \cup {"new", "over"}, gateAt' = [gateAt EXCEPT ![c] = to],
             \/ gateAt[c] \in M!Seated /\ to \in M!Seated /\ gateActive' = gateActive
             \/ gateAt[c] \in M!Seated /\ to \notin M!Seated /\ gateActive' = gateActive - 1
             \/ gateAt[c] \notin M!Seated /\ to \in M!Seated /\ gateActive' = gateActive + 1 /\ gateActive < MaxActive
             \/ gateAt[c] \notin M!Seated /\ to \notin M!Seated /\ gateActive' = gateActive,
             Books
      PROVE  ModelsInv'
  BY <1>1, SeatsMove DEF ModelsInv
<1>2. ASSUME NEW c \in ModelCalls, M!Ended(c), Books PROVE ModelsInv'
  <2>1. gateAt' = [gateAt EXCEPT ![c] = "over"] /\ "over" \notin M!Seated
        /\ gateActive' = IF gateAt[c] \in M!Seated THEN gateActive - 1 ELSE gateActive
    BY <1>2 DEF M!Ended, M!Seated
  <2> QED BY <1>1, <1>2, <2>1
<1>3. UNCHANGED <<gateUsed, gateSpent>> => Books
  BY <1>0 DEF M!BudgetHeld
<1>4. ASSUME UNCHANGED <<gateAt, gateActive, gateUsed, gateSpent>> PROVE ModelsInv'
  BY <1>4 DEF ModelsInv, M!SeatsExact, M!BudgetHeld
<1>5. ASSUME NEW c \in ModelCalls, M!Seat(c) PROVE ModelsInv'
  BY <1>1, <1>3, <1>5 DEF M!Seat, M!Seated
<1>6. ASSUME NEW c \in ModelCalls, M!GiveUp(c) PROVE ModelsInv'
  BY <1>2, <1>3, <1>6 DEF M!GiveUp
<1>7. ASSUME NEW c \in ModelCalls, M!Admit(c) PROVE ModelsInv'
  <2>1. /\ gateUsed' = IF c \in Evaluated THEN gateUsed + Need ELSE gateUsed
        /\ c \in Evaluated => gateUsed + Need <= Budget
        /\ gateSpent' = gateSpent \/ gateSpent' = IF c \in Evaluated THEN gateSpent + Need ELSE gateSpent
    BY <1>7 DEF M!Admit, M!Reserve, M!Covered, M!Spends
  <2>2. Books
    BY <1>0, <2>1, ModelsConstants DEF M!BudgetHeld
  <2> HIDE DEF Books
  <2>3. CASE M!Ended(c)
    BY <1>2, <2>2, <2>3
  <2>4. CASE gateAt' = [gateAt EXCEPT ![c] = "sent"] /\ UNCHANGED gateActive
    <3>1. gateAt[c] \in M!Seated /\ "sent" \in M!Seated
      BY <1>7 DEF M!Admit, M!Seated
    <3> QED BY <1>1, <2>2, <2>4, <3>1
  <2> QED BY <1>7, <2>3, <2>4 DEF M!Admit
<1>8. ASSUME NEW c \in ModelCalls, M!Overdrawn(c) PROVE ModelsInv'
  BY <1>2, <1>3, <1>8 DEF M!Overdrawn
<1>9. ASSUME NEW c \in ModelCalls, M!Refused(c) PROVE ModelsInv'
  <2>1. CASE M!Ended(c) /\ UNCHANGED gateSpent
    BY <1>2, <1>3, <1>9, <2>1 DEF M!Refused
  <2>2. CASE /\ gateAt' = [gateAt EXCEPT ![c] = "waits"] /\ UNCHANGED gateActive
             /\ gateSpent' = IF c \in Evaluated THEN gateSpent - Need ELSE gateSpent
    <3>1. Books
      BY <1>0, <1>9, <2>2, ModelsConstants DEF M!Refused, M!BudgetHeld
    <3> HIDE DEF Books
    <3>2. gateAt[c] \in M!Seated /\ "waits" \in M!Seated
      BY <1>9 DEF M!Refused, M!Seated
    <3> QED BY <1>1, <2>2, <3>1, <3>2
  <2> QED BY <1>9, <2>1, <2>2 DEF M!Refused
<1>10. ASSUME NEW c \in ModelCalls, M!Again(c) \/ M!Answered(c) PROVE ModelsInv'
  <2>1. PICK to \in {"window", "streams"} : gateAt' = [gateAt EXCEPT ![c] = to]
    BY <1>10 DEF M!Again, M!Answered
  <2>2. gateAt[c] \in M!Seated /\ to \in M!Seated /\ UNCHANGED <<gateActive, gateUsed, gateSpent>>
    BY <1>10 DEF M!Again, M!Answered, M!Seated
  <2> QED BY <1>1, <1>3, <2>1, <2>2
<1>11. ASSUME NEW c \in ModelCalls, NEW n \in 1 .. Need, M!Done(c, n) PROVE ModelsInv'
  <2>1. /\ M!Ended(c)
        /\ IF c \in Evaluated THEN gateUsed' = gateUsed - Need + n /\ gateSpent' = gateSpent - Need + n
           ELSE UNCHANGED <<gateUsed, gateSpent>>
    BY <1>11 DEF M!Done
  <2>2. Books
    BY <1>0, <2>1, ModelsConstants DEF M!BudgetHeld
  <2> HIDE DEF Books
  <2> QED BY <1>2, <2>1, <2>2
<1>12. CASE M!Suspend \/ M!Expire
  BY <1>4, <1>12 DEF M!Suspend, M!Expire
<1>13. CASE M!Restart
  <2>1. /\ gateAt' \in [ModelCalls -> {"new", "over"}] /\ gateActive' = 0 /\ gateUsed' = 0 /\ gateSpent' = 0
    BY <1>13 DEF M!Restart
  <2>2. InSeats' = {}
    BY <2>1 DEF InSeats, M!Seated
  <2>3. M!SeatsExact'
    BY <2>1, <2>2, ModelsCount, FS_EmptySet, ModelsConstants DEF M!SeatsExact, InSeats
  <2> QED BY <2>1, <2>3, ModelsConstants DEF ModelsInv, M!BudgetHeld
<1> QED BY <1>5, <1>6, <1>7, <1>8, <1>9, <1>10, <1>11, <1>12, <1>13 DEF M!Next

LEMMA ModelsStay == ASSUME ModelsInv, UNCHANGED models PROVE ModelsInv'
  BY DEF models,
      ModelsInv, M!BudgetHeld, M!Seated, M!SeatsExact

-----------------------------------------------------------------------------
(* Induction over the places of a sequence, stated of a set of places, and  *)
(* that what is computed from one place to the next is a function.          *)

LEMMA LeastOf == ASSUME NEW set, set \subseteq Nat, set # {} PROVE \E x \in set : \A y \in set : ~(y < x)
<1>1. IsWellFoundedOn(OpToRel(<, Nat), Nat)
  BY NatLessThanWellFounded
<1>2. \E x \in set : \A y \in set : ~(<<y, x>> \in OpToRel(<, Nat))
  BY <1>1, WFMin
<1>3. \A x, y \in set : y < x => <<y, x>> \in OpToRel(<, Nat)
  BY DEF OpToRel
<1> QED BY <1>2, <1>3, Zenon

LEMMA Upward ==
  ASSUME NEW set, NEW m \in Nat, 0 \in set, \A n \in set : n \in 0 .. m - 1 => n + 1 \in set
  PROVE  \A n \in 0 .. m : n \in set
<1> DEFINE Rest == {n \in Nat : n <= m /\ n \notin set}
<1>1. SUFFICES ASSUME Rest # {} PROVE FALSE
  OBVIOUS
<1>2. PICK x \in Rest : \A y \in Rest : ~(y < x)
  BY <1>1, LeastOf
<1>3. x # 0 /\ x - 1 \in Nat /\ x - 1 <= m /\ x - 1 < x /\ x - 1 + 1 = x
  OBVIOUS
<1>4. x - 1 \in set
  BY <1>2, <1>3
<1>5. x - 1 \in 0 .. m - 1
  BY <1>3
<1> QED BY <1>3, <1>4, <1>5

LEMMA Unfolds ==
  ASSUME NEW m \in Nat, NEW add \in [1 .. m -> Nat]
  PROVE  \E g \in [0 .. m -> Nat] : g = [n \in 0 .. m |-> IF n = 0 THEN 0 ELSE g[n - 1] + add[n]]
<1> DEFINE Upto(k) == \E g \in [0 .. k -> Nat] : g = [n \in 0 .. k |-> IF n = 0 THEN 0 ELSE g[n - 1] + add[n]]
           Holds == {k \in 0 .. m : Upto(k)}
<1>1. 0 \in Holds
  <2> DEFINE g == [n \in 0 .. 0 |-> 0]
  <2>1. g \in [0 .. 0 -> Nat] /\ \A n \in 0 .. 0 : n = 0 /\ g[n] = 0
    OBVIOUS
  <2> HIDE DEF g
  <2>2. g = [n \in 0 .. 0 |-> IF n = 0 THEN 0 ELSE g[n - 1] + add[n]]
    BY <2>1
  <2> QED BY <2>1, <2>2
<1>2. \A k \in Holds : k \in 0 .. m - 1 => k + 1 \in Holds
  <2> SUFFICES ASSUME NEW k \in 0 .. m - 1, k \in Holds PROVE k + 1 \in Holds
    OBVIOUS
  <2>1. PICK g \in [0 .. k -> Nat] : g = [n \in 0 .. k |-> IF n = 0 THEN 0 ELSE g[n - 1] + add[n]]
    OBVIOUS
  <2> DEFINE h == [n \in 0 .. k + 1 |-> IF n = k + 1 THEN g[k] + add[k + 1] ELSE g[n]]
  <2>2. h \in [0 .. k + 1 -> Nat]
    OBVIOUS
  <2>3. \A n \in 0 .. k + 1 : h[n] = IF n = 0 THEN 0 ELSE h[n - 1] + add[n]
    <3> TAKE n \in 0 .. k + 1
    <3>1. CASE n = k + 1
      <4>1. n # 0 /\ n - 1 = k /\ k \in 0 .. k + 1 /\ k # k + 1
        BY <3>1
      <4>2. h[k] = g[k] /\ h[n] = g[k] + add[n]
        BY <3>1, <4>1
      <4> QED BY <4>1, <4>2
    <3>2. CASE n \in 0 .. k
      <4>1. h[n] = g[n] /\ (n # 0 => n - 1 \in 0 .. k /\ h[n - 1] = g[n - 1])
        BY <3>2
      <4>2. g[n] = IF n = 0 THEN 0 ELSE g[n - 1] + add[n]
        BY <2>1, <3>2
      <4> QED BY <4>1, <4>2
    <3> QED BY <3>1, <3>2
  <2> HIDE DEF h
  <2>4. h = [n \in 0 .. k + 1 |-> IF n = 0 THEN 0 ELSE h[n - 1] + add[n]]
    BY <2>2, <2>3
  <2>5. k + 1 \in 0 .. m
    OBVIOUS
  <2>6. Upto(k + 1)
    BY <2>2, <2>4
  <2> HIDE DEF Upto
  <2> QED BY <2>5, <2>6
<1> HIDE DEF Holds
<1>3. m \in Holds
  BY <1>1, <1>2, Upward
<1> QED BY <1>3 DEF Holds

-----------------------------------------------------------------------------
(* The tokens of the requests of a minute.                                  *)

Entry == [of : [call : ModelCalls, try : Nat], tokens : 0 .. Need]

Sums(sum, rows) ==
  /\ sum \in [0 .. Len(rows) -> Nat] /\ sum[0] = 0 /\ M!Tokens(rows) = sum[Len(rows)]
  /\ \A n \in 1 .. Len(rows) : sum[n] = sum[n - 1] + rows[n].tokens

LEMMA TokensAdd == ASSUME NEW rows \in Seq(Entry) PROVE \E sum : Sums(sum, rows)
<1> DEFINE m == Len(rows)
<1>0. Need \in Nat
  BY ServicesAssumption
<1>1. m \in Nat /\ \A n \in 1 .. m : rows[n].tokens \in Nat
  <2>1. m \in Nat
    OBVIOUS
  <2>2. \A n \in 1 .. m : rows[n] \in Entry
    OBVIOUS
  <2>3. \A e \in Entry : e.tokens \in Nat
    BY <1>0 DEF Entry
  <2> QED BY <2>1, <2>2, <2>3
<1>2. M!Tokens(rows) = LET sum[n \in 0 .. m] == IF n = 0 THEN 0 ELSE sum[n - 1] + rows[n].tokens IN sum[m]
  BY DEF M!Tokens
<1> HIDE DEF m
<1> DEFINE add == [n \in 1 .. m |-> rows[n].tokens]
<1>3. add \in [1 .. m -> Nat]
  BY <1>1
<1>4. PICK g \in [0 .. m -> Nat] : g = [n \in 0 .. m |-> IF n = 0 THEN 0 ELSE g[n - 1] + add[n]]
  BY <1>1, <1>3, Unfolds
<1>5. g = [n \in 0 .. m |-> IF n = 0 THEN 0 ELSE g[n - 1] + rows[n].tokens]
  <2>1. \A n \in 0 .. m : n # 0 => add[n] = rows[n].tokens
    BY <1>1
  <2>2. \A n \in 0 .. m : g[n] = IF n = 0 THEN 0 ELSE g[n - 1] + add[n]
    BY <1>4
  <2>3. \A n \in 0 .. m : g[n] = IF n = 0 THEN 0 ELSE g[n - 1] + rows[n].tokens
    BY <2>1, <2>2
  <2> QED BY <2>3
<1> DEFINE sum == CHOOSE f : f = [n \in 0 .. m |-> IF n = 0 THEN 0 ELSE f[n - 1] + rows[n].tokens]
<1>6. sum = [n \in 0 .. m |-> IF n = 0 THEN 0 ELSE sum[n - 1] + rows[n].tokens]
  BY <1>5, Zenon
<1>7. M!Tokens(rows) = sum[m]
  BY <1>2
<1> HIDE DEF sum
<1>8. sum[0] = 0 /\ \A n \in 1 .. m : sum[n] = sum[n - 1] + rows[n].tokens
  BY <1>1, <1>6
<1> DEFINE Holds == {n \in 0 .. m : sum[n] \in Nat}
<1>9. 0 \in Holds
  BY <1>1, <1>8
<1>10. \A n \in Holds : n \in 0 .. m - 1 => n + 1 \in Holds
  <2> SUFFICES ASSUME NEW n \in 0 .. m - 1, sum[n] \in Nat PROVE sum[n + 1] \in Nat
    BY <1>1
  <2>1. n + 1 \in 1 .. m /\ n + 1 - 1 = n
    BY <1>1
  <2>2. sum[n + 1] = sum[n] + rows[n + 1].tokens
    BY <1>8, <2>1
  <2> QED BY <1>1, <2>1, <2>2
<1> HIDE DEF Holds
<1>11. \A n \in 0 .. m : n \in Holds
  BY <1>1, <1>9, <1>10, Upward
<1>12. sum \in [0 .. m -> Nat]
  BY <1>6, <1>11 DEF Holds
<1>13. Sums(sum, rows)
  BY <1>7, <1>8, <1>12 DEF Sums, m
<1> QED BY <1>13

LEMMA TokensNone == M!Tokens(<< >>) = 0
<1>1. << >> \in Seq(Entry) /\ Len(<< >>) = 0
  OBVIOUS
<1>2. PICK sum : Sums(sum, << >>)
  BY <1>1, TokensAdd
<1> QED BY <1>1, <1>2 DEF Sums

(* Fewer tokens in every place are no more tokens together.                 *)
LEMMA TokensLess ==
  ASSUME NEW rows \in Seq(Entry), NEW less \in Seq(Entry), NEW k \in Nat, Len(less) + k = Len(rows),
         \A n \in 1 .. Len(less) : less[n].tokens <= rows[n + k].tokens
  PROVE  M!Tokens(less) <= M!Tokens(rows)
<1>0. Need \in Nat
  BY ServicesAssumption
<1> DEFINE m == Len(less)
<1>1. PICK sum : Sums(sum, rows)
  BY TokensAdd
<1>2. PICK few : Sums(few, less)
  BY TokensAdd
<1>3. m \in Nat /\ Len(rows) = m + k
  OBVIOUS
<1>4. \A n \in 1 .. m : rows[n + k].tokens \in Nat /\ less[n].tokens \in Nat
  <2>1. \A n \in 1 .. m : rows[n + k] \in Entry /\ less[n] \in Entry
    BY <1>3
  <2>2. \A e \in Entry : e.tokens \in Nat
    BY <1>0 DEF Entry
  <2> QED BY <2>1, <2>2
<1>5. /\ \A n \in 0 .. m : few[n] \in Nat
      /\ \A n \in 0 .. m + k : sum[n] \in Nat
      /\ few[0] = 0 /\ \A n \in 1 .. m : few[n] = few[n - 1] + less[n].tokens
      /\ \A n \in 1 .. m + k : sum[n] = sum[n - 1] + rows[n].tokens
  BY <1>1, <1>2, <1>3 DEF Sums
<1> HIDE DEF m
<1> DEFINE Holds == {n \in 0 .. m : few[n] <= sum[n + k]}
<1>6. 0 \in Holds
  BY <1>3, <1>5
<1>7. \A n \in Holds : n \in 0 .. m - 1 => n + 1 \in Holds
  <2> SUFFICES ASSUME NEW n \in 0 .. m - 1, few[n] <= sum[n + k] PROVE few[n + 1] <= sum[n + 1 + k]
    BY <1>3
  <2>1. n + 1 \in 1 .. m /\ n + 1 + k \in 1 .. m + k /\ n + 1 - 1 = n /\ n + 1 + k - 1 = n + k
    BY <1>3
  <2>2. few[n + 1] = few[n] + less[n + 1].tokens
    BY <1>5, <2>1
  <2>3. sum[n + 1 + k] = sum[n + k] + rows[n + 1 + k].tokens
    BY <1>5, <2>1
  <2>4. less[n + 1].tokens <= rows[n + 1 + k].tokens
    BY <2>1 DEF m
  <2>5. few[n] \in Nat /\ sum[n + k] \in Nat /\ rows[n + 1 + k].tokens \in Nat /\ less[n + 1].tokens \in Nat
    BY <1>3, <1>4, <1>5, <2>1
  <2>6. \A a, b, c, d \in Nat : a <= b /\ c <= d => a + c <= b + d
    OBVIOUS
  <2> QED BY <2>2, <2>3, <2>4, <2>5, <2>6
<1> HIDE DEF Holds
<1>8. \A n \in 0 .. m : n \in Holds
  BY <1>3, <1>6, <1>7, Upward
<1>9. m \in Holds
  BY <1>3, <1>8
<1> QED BY <1>1, <1>2, <1>3, <1>9 DEF Holds, m, Sums

LEMMA TokensOneMore ==
  ASSUME NEW rows \in Seq(Entry), NEW e \in Entry
  PROVE  /\ M!Tokens(rows) \in Nat
         /\ M!Tokens(Append(rows, e)) = M!Tokens(rows) + e.tokens
<1>0. Need \in Nat
  BY ServicesAssumption
<1> DEFINE m == Len(rows)
           more == Append(rows, e)
<1>1. m \in Nat /\ more \in Seq(Entry) /\ Len(more) = m + 1 /\ more[m + 1] = e
      /\ \A n \in 1 .. m : more[n] = rows[n]
  OBVIOUS
<1>2. PICK sum : Sums(sum, rows)
  BY TokensAdd
<1>3. PICK whole : Sums(whole, more)
  BY <1>1, TokensAdd
<1>4. /\ \A n \in 0 .. m : sum[n] \in Nat
      /\ sum[0] = 0 /\ \A n \in 1 .. m : sum[n] = sum[n - 1] + rows[n].tokens
      /\ M!Tokens(rows) = sum[m]
  BY <1>2 DEF Sums
<1>5. /\ whole[0] = 0 /\ \A n \in 1 .. m + 1 : whole[n] = whole[n - 1] + more[n].tokens
      /\ M!Tokens(more) = whole[m + 1]
  BY <1>1, <1>3 DEF Sums
<1> HIDE DEF m, more
<1> DEFINE Holds == {n \in 0 .. m : whole[n] = sum[n]}
<1>6. 0 \in Holds
  BY <1>1, <1>4, <1>5
<1>7. \A n \in Holds : n \in 0 .. m - 1 => n + 1 \in Holds
  <2> SUFFICES ASSUME NEW n \in 0 .. m - 1, whole[n] = sum[n] PROVE whole[n + 1] = sum[n + 1]
    <3>1. m \in Nat
      BY <1>1
    <3> QED BY <3>1
  <2>1. n + 1 \in 1 .. m /\ n + 1 \in 1 .. m + 1 /\ n + 1 - 1 = n
    BY <1>1
  <2> QED BY <1>1, <1>4, <1>5, <2>1
<1> HIDE DEF Holds
<1>8. \A n \in 0 .. m : n \in Holds
  BY <1>1, <1>6, <1>7, Upward
<1>9. m \in Holds /\ m + 1 \in 1 .. m + 1 /\ m + 1 - 1 = m
  BY <1>1, <1>8
<1>10. whole[m + 1] = sum[m] + e.tokens /\ sum[m] \in Nat
  BY <1>1, <1>4, <1>5, <1>9 DEF Holds
<1> QED BY <1>4, <1>5, <1>10 DEF more

-----------------------------------------------------------------------------
(* What a minute of requests may hold, when calls are where "at" says and   *)
(* "sent" went out: it is within the limits and has all that went out, and  *)
(* of a call that is not over it still has the whole reservation.           *)
Fit(rows, at, sent) ==
  /\ rows \in Seq(Entry) /\ Len(rows) <= Rpm /\ M!Tokens(rows) <= Tpm
  /\ \A r \in sent : \E i \in 1 .. Len(rows) : rows[i].of = r
  /\ \A i \in 1 .. Len(rows) : at[rows[i].of.call] # "over" => rows[i].tokens = Need

Places == M!Seated \cup {"new", "over"}

RateInv ==
  /\ gateAt \in [ModelCalls -> Places] /\ gateTries \in [ModelCalls -> Nat]
  /\ Fit(gateWindow, gateAt, gateSent) /\ Fit(gateDisk, gateAt, gateSent)

LEMMA RateConstants == Rpm \in Nat /\ Tpm \in Nat /\ Need \in Nat
  BY ServicesAssumption

LEMMA EntryIs ==
  /\ \A e \in Entry : e.of.call \in ModelCalls /\ e.tokens \in 0 .. Need
  /\ \A c \in ModelCalls : gateTries \in [ModelCalls -> Nat] => M!Request(c) \in [call : ModelCalls, try : Nat]
  BY DEF Entry, M!Request

(* Calls that end and requests that leave the minute disturb nothing.       *)
LEMMA FitLater ==
  ASSUME NEW rows, NEW at, NEW sent, NEW at2, NEW sent2, Fit(rows, at, sent), sent2 \subseteq sent,
         \A c \in ModelCalls : at2[c] # "over" => at[c] # "over"
  PROVE  Fit(rows, at2, sent2)
<1>1. \A i \in 1 .. Len(rows) : rows[i].of.call \in ModelCalls
  <2>1. \A i \in 1 .. Len(rows) : rows[i] \in Entry
    BY DEF Fit
  <2> QED BY <2>1, EntryIs
<1> QED BY <1>1 DEF Fit

(* A request that fits is entered before it goes out.                       *)
LEMMA FitMore ==
  ASSUME NEW rows, NEW at, NEW sent, Fit(rows, at, sent), NEW r \in [call : ModelCalls, try : Nat],
         Len(rows) < Rpm, M!Tokens(rows) + Need <= Tpm
  PROVE  Fit(Append(rows, [of |-> r, tokens |-> Need]), at, sent \cup {r})
<1> DEFINE e == [of |-> r, tokens |-> Need]
           more == Append(rows, e)
<1>1. e \in Entry /\ e.of = r /\ e.tokens = Need
  BY RateConstants DEF Entry
<1>2. rows \in Seq(Entry)
  BY DEF Fit
<1> HIDE DEF e
<1>3. more \in Seq(Entry) /\ Len(more) = Len(rows) + 1 /\ more[Len(rows) + 1] = e
      /\ Len(rows) \in Nat /\ \A i \in 1 .. Len(rows) : more[i] = rows[i]
  BY <1>1, <1>2
<1>4. M!Tokens(more) <= Tpm
  BY <1>1, <1>2, TokensOneMore
<1> HIDE DEF more
<1>5. \A r2 \in sent \cup {r} : \E i \in 1 .. Len(more) : more[i].of = r2
  <2>1. \A r2 \in sent : \E i \in 1 .. Len(more) : more[i].of = r2
    BY <1>3 DEF Fit
  <2>2. Len(rows) + 1 \in 1 .. Len(more)
    BY <1>3
  <2> QED BY <1>1, <1>3, <2>1, <2>2
<1>6. ASSUME NEW i \in 1 .. Len(more), at[more[i].of.call] # "over" PROVE more[i].tokens = Need
  <2>1. CASE i = Len(rows) + 1
    BY <1>1, <1>3, <2>1
  <2>2. CASE i \in 1 .. Len(rows)
    BY <1>3, <1>6, <2>2 DEF Fit
  <2> QED BY <1>3, <2>1, <2>2
<1>7. Len(more) <= Rpm
  BY <1>3, RateConstants
<1> HIDE DEF Fit
<1>8. Fit(more, at, sent \cup {r})
  BY <1>3, <1>4, <1>5, <1>6, <1>7 DEF Fit
<1> QED BY <1>8 DEF more, e

Told(rows, r, n) ==
  [i \in DOMAIN rows |-> IF rows[i].of = r THEN [rows[i] EXCEPT !.tokens = n] ELSE rows[i]]

(* The tokens an answer tells are at most what its request reserved.        *)
LEMMA FitTold ==
  ASSUME NEW rows, NEW at, NEW sent, Fit(rows, at, sent), NEW c \in ModelCalls, NEW r, r.call = c,
         at[c] # "over", NEW n \in 1 .. Need,
         NEW at2, at2[c] = "over", \A d \in ModelCalls : at2[d] # "over" => at[d] # "over"
  PROVE  Fit(Told(rows, r, n), at2, sent)
<1> DEFINE told == Told(rows, r, n)
<1>0. told = [i \in DOMAIN rows |-> IF rows[i].of = r THEN [rows[i] EXCEPT !.tokens = n] ELSE rows[i]]
  BY DEF Told
<1> HIDE DEF told
<1>1. rows \in Seq(Entry) /\ Need \in Nat
  BY RateConstants DEF Fit
<1>2. DOMAIN rows = 1 .. Len(rows) /\ Len(rows) \in Nat /\ \A i \in 1 .. Len(rows) : rows[i] \in Entry
  BY <1>1
<1>3. ASSUME NEW i \in 1 .. Len(rows)
      PROVE  /\ told[i] \in Entry /\ told[i].of = rows[i].of /\ told[i].tokens <= rows[i].tokens
             /\ told[i].of = r \/ told[i].tokens = rows[i].tokens
  <2>1. told[i] = IF rows[i].of = r THEN [rows[i] EXCEPT !.tokens = n] ELSE rows[i]
    BY <1>0, <1>2
  <2>2. rows[i] \in Entry /\ rows[i].tokens \in 0 .. Need
    BY <1>2, EntryIs
  <2>3. CASE rows[i].of # r
    BY <2>1, <2>2, <2>3
  <2>4. CASE rows[i].of = r
    <3>1. rows[i].tokens = Need
      BY <2>4 DEF Fit
    <3>2. [rows[i] EXCEPT !.tokens = n] \in Entry /\ [rows[i] EXCEPT !.tokens = n].tokens = n
          /\ [rows[i] EXCEPT !.tokens = n].of = rows[i].of
      BY <1>1, <2>2 DEF Entry
    <3> QED BY <2>1, <2>4, <3>1, <3>2
  <2> QED BY <2>3, <2>4
<1>4. told \in Seq(Entry) /\ Len(told) = Len(rows)
  <2>1. told \in [1 .. Len(rows) -> Entry]
    BY <1>0, <1>2, <1>3
  <2> QED BY <1>2, <2>1
<1>5. M!Tokens(told) <= M!Tokens(rows)
  <2>1. Len(told) + 0 = Len(rows) /\ \A i \in 1 .. Len(told) : told[i].tokens <= rows[i + 0].tokens
    <3>1. Len(told) + 0 = Len(rows)
      BY <1>2, <1>4
    <3>2. \A i \in 1 .. Len(told) : i + 0 = i /\ i \in 1 .. Len(rows)
      BY <1>2, <1>4
    <3> QED BY <1>3, <3>1, <3>2
  <2> QED BY <1>1, <1>4, <2>1, TokensLess
<1>6. M!Tokens(rows) \in Nat /\ M!Tokens(told) \in Nat
  <2>1. [of |-> [call |-> c, try |-> 0], tokens |-> 0] \in Entry
    BY <1>1 DEF Entry
  <2> QED BY <1>1, <1>4, <2>1, TokensOneMore
<1>7. \A s \in sent : \E i \in 1 .. Len(told) : told[i].of = s
  BY <1>3, <1>4 DEF Fit
<1>8. ASSUME NEW i \in 1 .. Len(told), at2[told[i].of.call] # "over" PROVE told[i].tokens = Need
  <2>1. rows[i].of.call \in ModelCalls /\ i \in 1 .. Len(rows)
    <3>1. i \in 1 .. Len(rows)
      BY <1>4
    <3> QED BY <1>2, <3>1, EntryIs
  <2>2. told[i].of # r /\ at[rows[i].of.call] # "over"
    BY <1>3, <1>8, <2>1
  <2> QED BY <1>3, <2>1, <2>2 DEF Fit
<1>9. Len(told) <= Rpm /\ M!Tokens(told) <= Tpm
  BY <1>4, <1>5, <1>6, RateConstants DEF Fit
<1>10. Fit(told, at2, sent)
  BY <1>4, <1>7, <1>8, <1>9 DEF Fit
<1> QED BY <1>10 DEF told

(* The oldest request is out of the minute, and what went out of it.        *)
LEMMA FitWithout ==
  ASSUME NEW rows, NEW at, NEW sent, Fit(rows, at, sent), rows # << >>
  PROVE  Fit(Tail(rows), at, sent \ {Head(rows).of})
<1>1. rows \in Seq(Entry)
  BY DEF Fit
<1> DEFINE rest == Tail(rows)
<1>2. /\ rest \in Seq(Entry) /\ Len(rows) \in Nat /\ Len(rows) > 0 /\ Len(rest) = Len(rows) - 1
      /\ Head(rows) = rows[1] /\ \A i \in 1 .. Len(rest) : rest[i] = rows[i + 1] /\ rest[i] \in Entry
  BY <1>1
<1> HIDE DEF rest
<1>3. M!Tokens(rest) <= M!Tokens(rows)
  <2>1. Len(rest) + 1 = Len(rows)
    BY <1>2
  <2>2. \A i \in 1 .. Len(rest) : rest[i].tokens <= rows[i + 1].tokens
    <3>1. \A i \in 1 .. Len(rest) : rest[i] = rows[i + 1] /\ rest[i].tokens \in 0 .. Need
      BY <1>2, EntryIs
    <3> QED BY <3>1, RateConstants
  <2> QED BY <1>1, <1>2, <2>1, <2>2, TokensLess
<1>4. M!Tokens(rows) \in Nat /\ M!Tokens(rest) \in Nat
  <2>1. Head(rows) \in Entry
    BY <1>1, <1>2
  <2> QED BY <1>1, <1>2, <2>1, TokensOneMore
<1>5. Len(rest) <= Rpm /\ M!Tokens(rest) <= Tpm
  BY <1>2, <1>3, <1>4, RateConstants DEF Fit
<1>6. ASSUME NEW r \in sent \ {Head(rows).of} PROVE \E i \in 1 .. Len(rest) : rest[i].of = r
  <2>1. PICK i \in 1 .. Len(rows) : rows[i].of = r
    BY DEF Fit
  <2>2. i # 1
    BY <1>2, <1>6, <2>1
  <2>3. i - 1 \in 1 .. Len(rest) /\ i - 1 + 1 = i
    BY <1>2, <2>2
  <2> QED BY <1>2, <2>1, <2>3
<1>7. ASSUME NEW i \in 1 .. Len(rest), at[rest[i].of.call] # "over" PROVE rest[i].tokens = Need
  <2>1. i + 1 \in 1 .. Len(rows) /\ rest[i] = rows[i + 1]
    BY <1>2
  <2> QED BY <1>7, <2>1 DEF Fit
<1>8. Fit(rest, at, sent \ {Head(rows).of})
  BY <1>2, <1>5, <1>6, <1>7 DEF Fit
<1> QED BY <1>8 DEF rest

LEMMA RateInit == M!Init => RateInv
<1>1. << >> \in Seq(Entry) /\ Len(<< >>) = 0 /\ M!Tokens(<< >>) = 0
  BY TokensNone
<1> QED BY <1>1, RateConstants DEF M!Init, RateInv, Fit, Places

(* Steps that leave the minute alone.                                       *)
LEMMA RateQuiet ==
  ASSUME RateInv, gateTries' \in [ModelCalls -> Nat], UNCHANGED <<gateWindow, gateDisk, gateSent>>,
         NEW c \in ModelCalls, NEW to \in Places, gateAt' = [gateAt EXCEPT ![c] = to],
         to # "over" => gateAt[c] # "over"
  PROVE  RateInv'
<1>1. gateAt' \in [ModelCalls -> Places]
  BY DEF RateInv
<1>2. \A d \in ModelCalls : gateAt'[d] # "over" => gateAt[d] # "over"
  BY DEF RateInv
<1>3. Fit(gateWindow, gateAt', gateSent) /\ Fit(gateDisk, gateAt', gateSent)
  BY <1>2, FitLater DEF RateInv
<1> QED BY <1>1, <1>3 DEF RateInv, Fit

LEMMA RateStep == ASSUME RateInv, M!Next PROVE RateInv'
<1>0. /\ gateAt \in [ModelCalls -> Places] /\ gateTries \in [ModelCalls -> Nat]
      /\ Fit(gateWindow, gateAt, gateSent) /\ Fit(gateDisk, gateAt, gateSent)
  BY DEF RateInv
<1>a. "over" \in Places /\ M!Seated \subseteq Places /\ "over" \notin M!Seated
  BY DEF Places, M!Seated
<1>1. ASSUME gateAt' \in [ModelCalls -> Places], gateTries' \in [ModelCalls -> Nat],
             Fit(gateWindow', gateAt', gateSent'), Fit(gateDisk', gateAt', gateSent')
      PROVE  RateInv'
  BY <1>1 DEF RateInv, Fit
<1>2. ASSUME NEW c \in ModelCalls, M!Seat(c) \/ M!Again(c) \/ M!Answered(c) PROVE RateInv'
  <2>1. PICK to \in {"window", "streams"} : gateAt' = [gateAt EXCEPT ![c] = to]
    BY <1>2 DEF M!Seat, M!Again, M!Answered
  <2>2. to \in Places /\ gateAt[c] # "over" /\ UNCHANGED <<gateTries, gateWindow, gateDisk, gateSent>>
    BY <1>2 DEF M!Seat, M!Again, M!Answered, M!Seated, Places
  <2> QED BY <1>0, <2>1, <2>2, RateQuiet
<1>3. ASSUME NEW c \in ModelCalls, M!GiveUp(c) \/ M!Overdrawn(c) PROVE RateInv'
  <2>1. gateAt' = [gateAt EXCEPT ![c] = "over"] /\ UNCHANGED <<gateTries, gateWindow, gateDisk, gateSent>>
    BY <1>3 DEF M!GiveUp, M!Overdrawn, M!Ended
  <2> QED BY <1>0, <1>a, <2>1, RateQuiet
<1>4. ASSUME NEW c \in ModelCalls, M!Refused(c) PROVE RateInv'
  <2>1. gateAt[c] = "sent" /\ UNCHANGED <<gateWindow, gateDisk, gateSent>>
    BY <1>4 DEF M!Refused
  <2>2. CASE gateAt' = [gateAt EXCEPT ![c] = "waits"] /\ gateTries' = [gateTries EXCEPT ![c] = @ + 1]
    <3>1. gateTries' \in [ModelCalls -> Nat] /\ "waits" \in Places
      BY <1>0, <2>2 DEF Places, M!Seated
    <3> QED BY <2>1, <2>2, <3>1, RateQuiet
  <2>3. CASE gateAt' = [gateAt EXCEPT ![c] = "over"] /\ UNCHANGED gateTries
    BY <1>0, <1>a, <2>1, <2>3, RateQuiet
  <2> QED BY <1>4, <2>2, <2>3 DEF M!Refused, M!Ended
<1>5. ASSUME NEW c \in ModelCalls, M!Admit(c) PROVE RateInv'
  <2>1. /\ Len(gateWindow) < Rpm /\ M!Tokens(gateWindow) + Need <= Tpm /\ gateTries' = gateTries
        /\ gateWindow' = Append(gateWindow, [of |-> M!Request(c), tokens |-> Need])
        /\ gateAt[c] = "window"
    BY <1>5 DEF M!Admit, M!Fits, M!Entered
  <2>2. M!Request(c) \in [call : ModelCalls, try : Nat]
    BY <1>0, EntryIs
  <2>3. PICK to \in {"sent", "over"} : gateAt' = [gateAt EXCEPT ![c] = to]
    BY <1>5 DEF M!Admit, M!Ended
  <2>4. gateAt' \in [ModelCalls -> Places] /\ \A d \in ModelCalls : gateAt'[d] # "over" => gateAt[d] # "over"
    <3>1. to \in Places
      BY <1>a DEF M!Seated
    <3> QED BY <1>0, <2>1, <2>3, <3>1
  <2>5. Fit(gateWindow', gateAt, gateSent \cup {M!Request(c)})
    BY <1>0, <2>1, <2>2, FitMore
  <2>6. Fit(gateWindow', gateAt', gateSent \cup {M!Request(c)}) /\ Fit(gateWindow', gateAt', gateSent)
    BY <2>4, <2>5, FitLater
  <2>7. Fit(gateDisk, gateAt', gateSent)
    BY <1>0, <2>4, FitLater
  <2>8. \/ gateDisk' = gateWindow' /\ gateSent' = gateSent \cup {M!Request(c)}
        \/ gateDisk' = gateDisk /\ gateSent' = gateSent
    BY <1>5 DEF M!Admit
  <2> QED BY <1>0, <1>1, <2>1, <2>4, <2>6, <2>7, <2>8
<1>6. ASSUME NEW c \in ModelCalls, NEW n \in 1 .. Need, M!Done(c, n) PROVE RateInv'
  <2>1. /\ gateAt[c] = "streams" /\ gateAt' = [gateAt EXCEPT ![c] = "over"]
        /\ gateWindow' = Told(gateWindow, M!Request(c), n)
        /\ gateDisk' = gateWindow' \/ gateDisk' = gateDisk
        /\ gateTries' = gateTries /\ gateSent' = gateSent
    BY <1>6 DEF M!Done, M!Ended, Told
  <2>2. gateAt' \in [ModelCalls -> Places] /\ gateAt[c] # "over" /\ gateAt'[c] = "over"
        /\ \A d \in ModelCalls : gateAt'[d] # "over" => gateAt[d] # "over"
    BY <1>0, <1>a, <2>1
  <2>3. M!Request(c).call = c
    BY DEF M!Request
  <2>4. Fit(gateWindow', gateAt', gateSent)
    BY <1>0, <2>1, <2>2, <2>3, FitTold
  <2>5. Fit(gateDisk, gateAt', gateSent)
    BY <1>0, <2>2, FitLater
  <2> QED BY <1>0, <1>1, <2>1, <2>2, <2>4, <2>5
<1>7. CASE M!Suspend
  BY <1>0, <1>1, <1>7 DEF M!Suspend
<1>8. CASE M!Expire
  <2> DEFINE old == Head(gateWindow).of
  <2>1. /\ gateWindow # << >> /\ gateWindow' = Tail(gateWindow) /\ gateSent' = gateSent \ {old}
        /\ gateDisk' = IF gateDisk # << >> /\ Head(gateDisk).of = old THEN Tail(gateDisk) ELSE gateDisk
        /\ gateAt' = gateAt /\ gateTries' = gateTries
    BY <1>8 DEF M!Expire
  <2>2. Fit(gateWindow', gateAt', gateSent')
    BY <1>0, <2>1, FitWithout
  <2>3. Fit(gateDisk', gateAt', gateSent')
    <3>1. CASE gateDisk # << >> /\ Head(gateDisk).of = old
      BY <1>0, <2>1, <3>1, FitWithout
    <3>2. CASE gateDisk' = gateDisk
      BY <1>0, <2>1, <3>2, FitLater
    <3> QED BY <2>1, <3>1, <3>2
  <2> QED BY <1>0, <1>1, <2>1, <2>2, <2>3
<1>9. CASE M!Restart
  <2>1. /\ gateWindow' = gateDisk /\ gateDisk' = gateDisk /\ gateSent' = gateSent /\ gateTries' = gateTries
        /\ gateAt' \in [ModelCalls -> {"new", "over"}]
        /\ \A d \in ModelCalls : gateAt'[d] # "over" => gateAt[d] = "new"
    BY <1>9 DEF M!Restart
  <2>2. gateAt' \in [ModelCalls -> Places]
    BY <2>1 DEF Places
  <2>3. Fit(gateDisk, gateAt', gateSent)
    BY <1>0, <2>1, FitLater
  <2> QED BY <1>0, <1>1, <2>1, <2>2, <2>3
<1> QED BY <1>2, <1>3, <1>4, <1>5, <1>6, <1>7, <1>8, <1>9 DEF M!Next

LEMMA RateStays == ASSUME RateInv, UNCHANGED models PROVE RateInv'
  BY DEF RateInv, Fit, models

(* The invariant is what is promised: a request that went out has a place   *)
(* of its own in a minute that has no more than Rpm.                        *)
LEMMA RateInvHeld == RateInv => M!RateHeld
<1> SUFFICES ASSUME RateInv PROVE M!RateHeld
  OBVIOUS
<1> DEFINE m == Len(gateWindow)
           places == 1 .. m
           entered == {gateWindow[i].of : i \in places}
           f == [i \in places |-> gateWindow[i].of]
<1>1. m \in Nat /\ m <= Rpm /\ DOMAIN gateWindow = places /\ M!Tokens(gateWindow) <= Tpm
  BY DEF RateInv, Fit
<1>2. \A r \in gateSent : \E i \in places : gateWindow[i].of = r
  BY DEF RateInv, Fit
<1>3. IsFiniteSet(places) /\ Cardinality(places) = m
  <2>1. 1 \in Int /\ m \in Int /\ (IF 1 > m THEN 0 ELSE m - 1 + 1) = m
    BY <1>1
  <2> HIDE DEF m
  <2> QED BY <2>1, FS_Interval
<1>4. f \in Surjection(places, entered)
  <2>1. f \in [places -> entered]
    OBVIOUS
  <2>2. \A r \in entered : \E i \in places : f[i] = r
    OBVIOUS
  <2> HIDE DEF f, entered, places
  <2> QED BY <2>1, <2>2 DEF Surjection
<1>5. IsFiniteSet(entered) /\ Cardinality(entered) <= m
  <2> HIDE DEF f, entered, places, m
  <2>1. IsFiniteSet(entered) /\ Cardinality(entered) <= Cardinality(places)
    BY <1>3, <1>4, FS_Surjection
  <2> QED BY <1>3, <2>1
<1>6. gateSent \subseteq entered
  BY <1>2
<1>7. IsFiniteSet(gateSent) /\ Cardinality(gateSent) <= Cardinality(entered)
  BY <1>5, <1>6, FS_Subset
<1>8. Cardinality(gateSent) <= Rpm
  BY <1>1, <1>5, <1>7, FS_CardinalityType, RateConstants
<1>9. M!Cardinality(gateSent) = Cardinality(gateSent)
  BY DEF M!Cardinality, Cardinality
<1> QED BY <1>1, <1>2, <1>8, <1>9 DEF M!RateHeld

-----------------------------------------------------------------------------
(* Commands of extensions.                                                  *)

Confirmation ==
  [token : Nat \cap CmdTokens, owner : Owners, ext : Exts, args : Args, generation : Nat]

CommandTypes ==
  /\ cmdEnabled \in [Exts -> BOOLEAN] /\ cmdGeneration \in [Exts -> Nat] /\ cmdFile \in [Exts -> BOOLEAN]
  /\ cmdOpen \subseteq Confirmation /\ cmdRunning \subseteq Confirmation
  /\ cmdInFlight \subseteq Owners /\ cmdMade \in Nat /\ cmdClosed \in BOOLEAN
  /\ cmdConfirmed \in [CmdTokens -> Nat]

(* A token is given out once; what is not given out has run nothing.        *)
TokensAreNew ==
  /\ \A p \in cmdOpen : p.token <= cmdMade
  /\ \A p, q \in cmdOpen : p.token = q.token => p = q
  /\ \A t \in CmdTokens \cap Nat : t > cmdMade => cmdConfirmed[t] = 0

CommandsInv == CommandTypes /\ TokensAreNew /\ C!Safe

LEMMA CommandsInit == C!Init => CommandsInv
<1> SUFFICES ASSUME C!Init PROVE CommandsInv
  OBVIOUS
<1>1. CommandTypes
  BY DEF C!Init, CommandTypes, C!Fresh
<1>2. TokensAreNew
  BY DEF C!Init, TokensAreNew
<1>3. C!Safe
  BY DEF C!Init, C!Safe, C!ConfirmedOnce, C!OpenIsCurrent, C!OneAtATime, C!ChoiceIsStored
<1> QED
  BY <1>1, <1>2, <1>3 DEF CommandsInv

(* Asking gives out the next token.                                         *)
LEMMA AskKeeps ==
  ASSUME CommandsInv, NEW o \in Owners, NEW x \in Exts, NEW a \in Args, C!Ask(o, x, a)
  PROVE  CommandsInv'
<1> DEFINE new == [token |-> cmdMade + 1, owner |-> o, ext |-> x, args |-> a, generation |-> cmdGeneration[x]]
<1>1. new \in Confirmation /\ cmdOpen' = cmdOpen \cup {new} /\ cmdMade' = cmdMade + 1
  BY DEF C!Ask, CommandsInv, CommandTypes, Confirmation
<1>2. new.token = cmdMade + 1 /\ new.ext = x /\ new.generation = cmdGeneration[x]
  OBVIOUS
<1>3. UNCHANGED <<cmdEnabled, cmdGeneration, cmdFile, cmdRunning, cmdInFlight, cmdClosed, cmdConfirmed>> /\ C!Serves(x)
  BY DEF C!Ask
<1> HIDE DEF new
<1>4. CommandTypes'
  BY <1>1, <1>3 DEF CommandsInv, CommandTypes
<1>5. TokensAreNew'
  <2>1. cmdMade \in Nat /\ cmdMade + 1 > cmdMade
    BY DEF CommandsInv, CommandTypes
  <2>2. \A p \in cmdOpen : p.token \in Nat /\ p.token <= cmdMade
    BY DEF CommandsInv, CommandTypes, TokensAreNew, Confirmation
  <2>3. \A p \in cmdOpen' : p.token <= cmdMade'
    BY <1>1, <1>2, <2>1, <2>2
  <2>4. \A p, q \in cmdOpen' : p.token = q.token => p = q
    BY <1>1, <1>2, <2>1, <2>2 DEF CommandsInv, TokensAreNew
  <2>5. \A t \in CmdTokens \cap Nat : t > cmdMade' => cmdConfirmed'[t] = 0
    BY <1>1, <1>3, <2>1 DEF CommandsInv, TokensAreNew
  <2> QED
    BY <2>3, <2>4, <2>5 DEF TokensAreNew
<1>6. C!Safe'
  <2>1. cmdConfirmed[new.token] = 0
    BY <1>1, <1>2 DEF CommandsInv, CommandTypes, TokensAreNew, Confirmation
  <2>2. C!ConfirmedOnce'
    BY <1>1, <1>3, <2>1 DEF CommandsInv, C!Safe, C!ConfirmedOnce
  <2>3. C!OpenIsCurrent'
    BY <1>1, <1>2, <1>3 DEF CommandsInv, C!Safe, C!OpenIsCurrent, C!Serves
  <2>4. C!OneAtATime' /\ C!ChoiceIsStored'
    BY <1>3 DEF CommandsInv, C!Safe, C!OneAtATime, C!ChoiceIsStored
  <2> QED
    BY <2>2, <2>3, <2>4 DEF C!Safe
<1> QED
  BY <1>4, <1>5, <1>6 DEF CommandsInv

(* A confirmation is given up in the step that starts its handler, so that  *)
(* no other of its token is left.                                           *)
LEMMA ConfirmKeeps ==
  ASSUME CommandsInv, NEW p \in cmdOpen, NEW o \in Owners, NEW x \in Exts, NEW a \in Args, C!Confirm(p, o, x, a)
  PROVE  CommandsInv'
<1>1. /\ cmdOpen' = cmdOpen \ {p} /\ cmdRunning' = cmdRunning \cup {p} /\ cmdInFlight' = cmdInFlight \cup {p.owner}
      /\ cmdConfirmed' = [cmdConfirmed EXCEPT ![p.token] = @ + 1]
      /\ p.owner \notin cmdInFlight
      /\ UNCHANGED <<cmdEnabled, cmdGeneration, cmdFile, cmdMade, cmdClosed>>
  BY DEF C!Confirm, C!Matches
<1>2. p \in Confirmation /\ p.token \in CmdTokens /\ p.token \in Nat /\ p.owner \in Owners
  BY DEF CommandsInv, CommandTypes, Confirmation
<1>3. p.token <= cmdMade /\ cmdConfirmed[p.token] = 0
  BY DEF CommandsInv, TokensAreNew, C!Safe, C!ConfirmedOnce
<1>4. CommandTypes'
  BY <1>1, <1>2 DEF CommandsInv, CommandTypes
<1>5. TokensAreNew'
  BY <1>1, <1>2, <1>3 DEF CommandsInv, CommandTypes, TokensAreNew
<1>6. C!ConfirmedOnce'
  <2>1. \A t \in CmdTokens : cmdConfirmed'[t] <= 1
    BY <1>1, <1>2, <1>3 DEF CommandsInv, CommandTypes, C!Safe, C!ConfirmedOnce
  <2>2. \A q \in cmdOpen' : q \in cmdOpen /\ q.token # p.token
    BY <1>1 DEF CommandsInv, TokensAreNew
  <2>3. \A q \in cmdOpen' : q.token \in CmdTokens /\ cmdConfirmed[q.token] = 0
    BY <2>2 DEF CommandsInv, CommandTypes, Confirmation, C!Safe, C!ConfirmedOnce
  <2>4. \A q \in cmdOpen' : cmdConfirmed'[q.token] = 0
    BY <1>1, <2>2, <2>3 DEF CommandsInv, CommandTypes
  <2> QED
    BY <2>1, <2>4 DEF C!ConfirmedOnce
<1>7. C!OpenIsCurrent' /\ C!ChoiceIsStored'
  BY <1>1 DEF CommandsInv, C!Safe, C!OpenIsCurrent, C!ChoiceIsStored, C!Serves
<1>8. C!OneAtATime'
  <2>1. \A q \in cmdRunning : q.owner # p.owner
    BY <1>1 DEF CommandsInv, C!Safe, C!OneAtATime
  <2>2. cmdInFlight' = {q.owner : q \in cmdRunning'}
    BY <1>1 DEF CommandsInv, C!Safe, C!OneAtATime
  <2>3. \A q, r \in cmdRunning' : q.owner = r.owner => q = r
    BY <1>1, <2>1 DEF CommandsInv, C!Safe, C!OneAtATime
  <2> QED
    BY <2>2, <2>3 DEF C!OneAtATime
<1> QED
  BY <1>4, <1>5, <1>6, <1>7, <1>8 DEF CommandsInv, C!Safe

LEMMA EndKeeps ==
  ASSUME CommandsInv, NEW p \in cmdRunning, C!End(p)
  PROVE  CommandsInv'
<1>1. /\ cmdRunning' = cmdRunning \ {p} /\ cmdInFlight' = cmdInFlight \ {p.owner}
      /\ UNCHANGED <<cmdEnabled, cmdGeneration, cmdFile, cmdOpen, cmdMade, cmdClosed, cmdConfirmed>>
  BY DEF C!End
<1>2. CommandTypes' /\ TokensAreNew'
  BY <1>1 DEF CommandsInv, CommandTypes, TokensAreNew
<1>3. C!ConfirmedOnce' /\ C!OpenIsCurrent' /\ C!ChoiceIsStored'
  BY <1>1 DEF CommandsInv, C!Safe, C!ConfirmedOnce, C!OpenIsCurrent, C!ChoiceIsStored, C!Serves
<1>4. C!OneAtATime'
  BY <1>1 DEF CommandsInv, C!Safe, C!OneAtATime
<1> QED
  BY <1>2, <1>3, <1>4 DEF CommandsInv, C!Safe

(* Switching an extension takes its confirmations with it, and only those.  *)
LEMMA SetEnabledKeeps ==
  ASSUME CommandsInv, NEW x \in Exts, NEW on \in BOOLEAN, C!SetEnabled(x, on)
  PROVE  CommandsInv'
<1>1. UNCHANGED <<cmdMade, cmdRunning, cmdInFlight, cmdClosed, cmdConfirmed>>
  BY DEF C!SetEnabled
<1>2. CASE UNCHANGED <<cmdFile, cmdEnabled, cmdGeneration, cmdOpen>>
  BY <1>1, <1>2 DEF CommandsInv, CommandTypes, TokensAreNew, C!Safe, C!ConfirmedOnce, C!OpenIsCurrent, C!OneAtATime, C!ChoiceIsStored, C!Serves
<1>3. CASE /\ cmdFile' = [cmdFile EXCEPT ![x] = on] /\ cmdEnabled' = [cmdEnabled EXCEPT ![x] = on]
           /\ cmdGeneration' = [cmdGeneration EXCEPT ![x] = @ + 1]
           /\ cmdOpen' = {p \in cmdOpen : p.ext # x}
  <2>1. CommandTypes'
    BY <1>1, <1>3 DEF CommandsInv, CommandTypes
  <2>2. TokensAreNew' /\ C!ConfirmedOnce'
    BY <1>1, <1>3 DEF CommandsInv, TokensAreNew, C!Safe, C!ConfirmedOnce
  <2>3. C!OneAtATime' /\ C!ChoiceIsStored'
    BY <1>1, <1>3 DEF CommandsInv, C!Safe, C!OneAtATime, C!ChoiceIsStored
  <2>4. C!OpenIsCurrent'
    <3>1. SUFFICES ASSUME NEW p \in cmdOpen' PROVE C!Serves(p.ext)' /\ p.generation = cmdGeneration'[p.ext]
      BY DEF C!OpenIsCurrent
    <3>2. p \in cmdOpen /\ p.ext # x /\ p.ext \in Exts
      BY <1>3, <3>1 DEF CommandsInv, CommandTypes, Confirmation
    <3>3. cmdEnabled'[p.ext] = cmdEnabled[p.ext] /\ cmdGeneration'[p.ext] = cmdGeneration[p.ext]
      BY <1>3, <3>2 DEF CommandsInv, CommandTypes
    <3> QED
      BY <1>1, <3>2, <3>3 DEF CommandsInv, C!Safe, C!OpenIsCurrent, C!Serves
  <2> QED
    BY <2>1, <2>2, <2>3, <2>4 DEF CommandsInv, C!Safe
<1> QED
  BY <1>2, <1>3 DEF C!SetEnabled

LEMMA CommandRestKeeps ==
  ASSUME CommandsInv, (\E p \in cmdOpen : C!Expire(p)) \/ C!Close \/ C!Restart
  PROVE  CommandsInv'
<1>1. CASE \E p \in cmdOpen : C!Expire(p)
  BY <1>1 DEF C!Expire, CommandsInv, CommandTypes, TokensAreNew, C!Safe, C!ConfirmedOnce, C!OpenIsCurrent, C!OneAtATime, C!ChoiceIsStored, C!Serves
<1>2. CASE C!Close
  BY <1>2 DEF C!Close, CommandsInv, CommandTypes, TokensAreNew, C!Safe, C!ConfirmedOnce, C!OpenIsCurrent, C!OneAtATime, C!ChoiceIsStored, C!Serves
<1>3. CASE C!Restart
  BY <1>3 DEF C!Restart, C!Fresh, CommandsInv, CommandTypes, TokensAreNew, C!Safe, C!ConfirmedOnce, C!OpenIsCurrent, C!OneAtATime, C!ChoiceIsStored, C!Serves
<1> QED
  BY <1>1, <1>2, <1>3

LEMMA CommandsStay == ASSUME CommandsInv, UNCHANGED commands PROVE CommandsInv'
  BY DEF commands,
      CommandsInv, C!Safe, C!ChoiceIsStored, C!ConfirmedOnce, C!OneAtATime, C!OpenIsCurrent,
      C!Serves, CommandTypes, TokensAreNew

-----------------------------------------------------------------------------
(* Logins by way of the identity provider.                                  *)

Provider == [revision : Nat, enabled : BOOLEAN, issuer : Issuers]
Transaction == [state : States, revision : Nat, used : BOOLEAN, edits : Nat]
Begins == [step : {"begins"}, p : Provider, edits : Nat]
Asks == [step : {"asks"}, of : Transaction, p : Provider]
Logged == [state : States, since : Nat, edits : Nat, subject : Subjects, account : Bindable]

OidcTypes ==
  /\ ssoProvider \in Provider \cup {O!Gone} /\ ssoEdits \in Nat
  /\ ssoBindings \subseteq [issuer : Issuers, subject : Subjects, account : Bindable]
  /\ ssoTransactions \subseteq Transaction /\ ssoUnused \subseteq States
  /\ ssoAt \in [Handlers -> {O!Idle} \cup Begins \cup Asks]
  /\ ssoLogins \in Seq(Logged)

(* A revision stands for the changes so far: no change is without a new one,*)
(* and a provider that is gone does not come back: a request that finds the *)
(* revision it knows finds the record it knows.                             *)
RevisionsCount ==
  /\ ssoProvider # O!Gone => ssoProvider.revision = ssoEdits + 1
  /\ \A x \in ssoTransactions : x.revision = x.edits + 1
  /\ \A h \in Handlers : ssoAt[h] \in Begins => ssoAt[h].p.revision = ssoAt[h].edits + 1
  /\ \A h \in Handlers : ssoAt[h] \in Asks => ssoAt[h].p.revision = ssoAt[h].of.revision /\ ssoAt[h].of.revision = ssoAt[h].of.edits + 1
  /\ \A h \in Handlers : ssoAt[h] \in Asks =>
       /\ ssoAt[h].p.revision <= ssoEdits + 1
       /\ ssoProvider # O!Gone /\ ssoProvider.revision = ssoAt[h].p.revision => ssoProvider = ssoAt[h].p

(* A state is in one hand: not made yet, stored and not used, with one      *)
(* callback, or done with.                                                  *)
OneHand ==
  /\ \A x \in ssoTransactions : x.state \notin ssoUnused
  /\ \A x, y \in ssoTransactions : x.state = y.state => x = y
  /\ \A h \in Handlers : ssoAt[h] \in Asks =>
       /\ ssoAt[h].of.state \notin ssoUnused
       /\ \A x \in ssoTransactions : x.state = ssoAt[h].of.state => x.used
       /\ \A g \in Handlers \ {h} : ssoAt[g] \in Asks => ssoAt[g].of.state # ssoAt[h].of.state
       /\ \A i \in DOMAIN ssoLogins : ssoLogins[i].state # ssoAt[h].of.state
  /\ \A i \in DOMAIN ssoLogins :
       /\ ssoLogins[i].state \notin ssoUnused
       /\ \A x \in ssoTransactions : x.state = ssoLogins[i].state => x.used

OidcInv == OidcTypes /\ RevisionsCount /\ OneHand /\ O!Safe

LEMMA OidcSteps ==
  /\ \A r \in Begins : r.step = "begins" /\ r \notin Asks /\ r # O!Idle
  /\ \A r \in Asks : r.step = "asks" /\ r \notin Begins /\ r # O!Idle
  /\ O!Idle.step = "idle" /\ O!Idle \notin Begins /\ O!Idle \notin Asks
  /\ O!Gone.enabled = FALSE
  BY DEF Begins, Asks, O!Idle, O!Gone

LEMMA OidcInit == O!Init => OidcInv
<1> SUFFICES ASSUME O!Init PROVE OidcInv
  OBVIOUS
<1>1. OidcTypes
  BY DEF O!Init, OidcTypes, Provider, Logged
<1>2. RevisionsCount
  BY OidcSteps DEF O!Init, RevisionsCount
<1>3. OneHand /\ O!Safe
  BY OidcSteps DEF O!Init, OneHand, O!Safe, O!OneLoginPerState, O!NoLoginAcrossAnEdit
<1> QED
  BY <1>1, <1>2, <1>3 DEF OidcInv

(* Administrators touch neither states nor requests.                        *)
LEMMA EditKeeps ==
  ASSUME OidcInv, (\E i \in Issuers, on \in BOOLEAN : O!Configure(i, on)) \/ O!Remove
  PROVE  OidcInv'
<1>1. UNCHANGED <<ssoTransactions, ssoUnused, ssoAt, ssoLogins>> /\ ssoEdits' = ssoEdits + 1
  BY DEF O!Configure, O!Remove, O!Edited
<1>2. /\ ssoProvider' \in Provider \cup {O!Gone}
      /\ ssoProvider' # O!Gone => ssoProvider'.revision = ssoEdits' + 1
      /\ ssoBindings' \subseteq ssoBindings
  <2>1. CASE O!Remove
    BY <2>1 DEF O!Remove
  <2>2. ASSUME NEW i \in Issuers, NEW on \in BOOLEAN, O!Configure(i, on)
        PROVE  /\ ssoProvider' \in Provider
               /\ ssoProvider'.revision = ssoEdits' + 1
               /\ ssoBindings' = ssoBindings
    <3>1. ssoProvider \in Provider /\ ssoProvider.revision = ssoEdits + 1
      BY <2>2 DEF O!Configure, OidcInv, OidcTypes, RevisionsCount
    <3> QED
      BY <1>1, <2>2, <3>1 DEF O!Configure, Provider
  <2> QED
    BY <2>1, <2>2
<1>3. OidcTypes'
  BY <1>1, <1>2 DEF OidcInv, OidcTypes
<1>4. RevisionsCount'
  <2>1. \A h \in Handlers : ssoAt[h] \in Asks => ssoAt[h].p.revision \in Nat /\ ssoAt[h].p.revision <= ssoEdits + 1
    BY DEF OidcInv, OidcTypes, RevisionsCount, Asks, Provider
  <2>2. \A h \in Handlers : ssoAt[h] \in Asks =>
          /\ ssoAt[h].p.revision <= ssoEdits' + 1
          /\ ~(ssoProvider' # O!Gone /\ ssoProvider'.revision = ssoAt[h].p.revision)
    BY <1>1, <1>2, <2>1 DEF OidcInv, OidcTypes
  <2> QED
    BY <1>1, <1>2, <2>2 DEF OidcInv, RevisionsCount
<1>5. OneHand' /\ O!Safe'
  BY <1>1 DEF OidcInv, OneHand, O!Safe, O!OneLoginPerState, O!NoLoginAcrossAnEdit
<1> QED
  BY <1>3, <1>4, <1>5 DEF OidcInv

LEMMA BindingKeeps ==
  ASSUME OidcInv,
         \/ \E s \in Subjects, a \in Bindable : O!Bind(s, a)
         \/ \E b \in ssoBindings : O!Unbind(b)
         \/ \E a \in Bindable : O!Switch(a)
  PROVE  OidcInv'
<1>1. UNCHANGED <<ssoProvider, ssoTransactions, ssoUnused, ssoAt, ssoEdits, ssoLogins>>
  BY DEF O!Bind, O!Unbind, O!Switch
<1>2. ssoBindings' \subseteq [issuer : Issuers, subject : Subjects, account : Bindable]
  <2>1. ASSUME NEW s \in Subjects, NEW a \in Bindable, O!Bind(s, a)
        PROVE  ssoBindings' \subseteq [issuer : Issuers, subject : Subjects, account : Bindable]
    <3>1. ssoProvider \in Provider /\ ssoProvider.issuer \in Issuers
      BY <2>1 DEF O!Bind, OidcInv, OidcTypes, Provider
    <3> QED
      BY <2>1, <3>1 DEF O!Bind, OidcInv, OidcTypes
  <2>2. ASSUME NEW b \in ssoBindings, O!Unbind(b)
        PROVE  ssoBindings' \subseteq ssoBindings
    BY <2>2 DEF O!Unbind
  <2>3. ASSUME NEW a \in Bindable, O!Switch(a)
        PROVE  ssoBindings' = ssoBindings
    BY <2>3 DEF O!Switch
  <2> QED
    BY <2>1, <2>2, <2>3 DEF OidcInv, OidcTypes
<1> QED
  BY <1>1, <1>2 DEF OidcInv, OidcTypes, RevisionsCount, OneHand, O!Safe, O!OneLoginPerState, O!NoLoginAcrossAnEdit

LEMMA BeginKeeps ==
  ASSUME OidcInv, NEW h \in Handlers, O!Begin(h)
  PROVE  OidcInv'
<1> DEFINE new == [step |-> "begins", p |-> ssoProvider, edits |-> ssoEdits]
<1>1. /\ ssoAt' = [ssoAt EXCEPT ![h] = new] /\ ssoProvider.enabled
      /\ UNCHANGED <<ssoProvider, ssoBindings, ssoTransactions, ssoUnused, ssoEdits, ssoLogins>>
  BY DEF O!Begin
<1>2. ssoProvider \in Provider /\ ssoProvider # O!Gone
  BY <1>1, OidcSteps DEF OidcInv, OidcTypes
<1>3. new \in Begins /\ new.p = ssoProvider /\ new.edits = ssoEdits
  BY <1>2 DEF OidcInv, OidcTypes, Begins
<1> HIDE DEF new
<1>4. /\ ssoAt' \in [Handlers -> {O!Idle} \cup Begins \cup Asks] /\ ssoAt'[h] = new
      /\ \A g \in Handlers \ {h} : ssoAt'[g] = ssoAt[g]
  BY <1>1, <1>3 DEF OidcInv, OidcTypes
<1>5. OidcTypes'
  BY <1>1, <1>4 DEF OidcInv, OidcTypes
<1>6. \A g \in Handlers : ssoAt'[g] \in Asks => g # h /\ ssoAt'[g] = ssoAt[g]
  BY <1>3, <1>4, OidcSteps
<1>7. RevisionsCount'
  BY <1>1, <1>2, <1>3, <1>4, <1>6 DEF OidcInv, RevisionsCount
<1>8. OneHand'
  BY <1>1, <1>6 DEF OidcInv, OneHand
<1>9. O!Safe'
  BY <1>1 DEF OidcInv, O!Safe, O!OneLoginPerState, O!NoLoginAcrossAnEdit
<1> QED
  BY <1>5, <1>7, <1>8, <1>9 DEF OidcInv

(* A new state takes the revision the provider had when login began.        *)
LEMMA BegunKeeps ==
  ASSUME OidcInv, NEW h \in Handlers, NEW t \in States, O!Begun(h, t)
  PROVE  OidcInv'
<1> DEFINE new == [state |-> t, revision |-> ssoAt[h].p.revision, used |-> FALSE, edits |-> ssoAt[h].edits]
<1>1. /\ t \in ssoUnused /\ ssoUnused' = ssoUnused \ {t} /\ ssoTransactions' = ssoTransactions \cup {new}
      /\ ssoAt' = [ssoAt EXCEPT ![h] = O!Idle] /\ ssoAt[h].step = "begins"
      /\ UNCHANGED <<ssoProvider, ssoBindings, ssoEdits, ssoLogins>>
  BY DEF O!Begun
<1>2. ssoAt[h] \in Begins
  BY <1>1, OidcSteps DEF OidcInv, OidcTypes
<1>3. new \in Transaction /\ new.state = t /\ new.revision = new.edits + 1
  BY <1>2 DEF OidcInv, OidcTypes, RevisionsCount, Begins, Provider, Transaction
<1> HIDE DEF new
<1>4. /\ ssoAt' \in [Handlers -> {O!Idle} \cup Begins \cup Asks] /\ ssoAt'[h] = O!Idle
      /\ \A g \in Handlers \ {h} : ssoAt'[g] = ssoAt[g]
  BY <1>1 DEF OidcInv, OidcTypes
<1>5. OidcTypes'
  BY <1>1, <1>3, <1>4 DEF OidcInv, OidcTypes
<1>6. \A g \in Handlers : ssoAt'[g] \in Asks \/ ssoAt'[g] \in Begins => g # h /\ ssoAt'[g] = ssoAt[g]
  BY <1>4, OidcSteps
<1>7. RevisionsCount'
  BY <1>1, <1>3, <1>6 DEF OidcInv, RevisionsCount
<1>8. OneHand'
  <2>1. \A x \in ssoTransactions' : x.state \notin ssoUnused'
    BY <1>1, <1>3 DEF OidcInv, OneHand
  <2>2. \A x, y \in ssoTransactions' : x.state = y.state => x = y
    BY <1>1, <1>3 DEF OidcInv, OneHand
  <2>3. ASSUME NEW g \in Handlers, ssoAt'[g] \in Asks
        PROVE  /\ ssoAt'[g].of.state \notin ssoUnused'
               /\ \A x \in ssoTransactions' : x.state = ssoAt'[g].of.state => x.used
               /\ \A k \in Handlers \ {g} : ssoAt'[k] \in Asks => ssoAt'[k].of.state # ssoAt'[g].of.state
               /\ \A i \in DOMAIN ssoLogins' : ssoLogins'[i].state # ssoAt'[g].of.state
    BY <1>1, <1>3, <1>6, <2>3 DEF OidcInv, OneHand
  <2>4. \A i \in DOMAIN ssoLogins' :
          /\ ssoLogins'[i].state \notin ssoUnused'
          /\ \A x \in ssoTransactions' : x.state = ssoLogins'[i].state => x.used
    BY <1>1, <1>3 DEF OidcInv, OneHand
  <2> QED
    BY <2>1, <2>2, <2>3, <2>4 DEF OneHand
<1>9. O!Safe'
  BY <1>1 DEF OidcInv, O!Safe, O!OneLoginPerState, O!NoLoginAcrossAnEdit
<1> QED
  BY <1>5, <1>7, <1>8, <1>9 DEF OidcInv

(* The state is marked used before the request goes on.                     *)
LEMMA CallbackKeeps ==
  ASSUME OidcInv, NEW h \in Handlers, NEW x \in ssoTransactions, O!Callback(h, x)
  PROVE  OidcInv'
<1> DEFINE spent == [x EXCEPT !.used = TRUE]
           new == [step |-> "asks", of |-> x, p |-> ssoProvider]
<1>1. /\ ~x.used /\ ssoProvider.enabled /\ ssoProvider.revision = x.revision
      /\ ssoTransactions' = (ssoTransactions \ {x}) \cup {spent}
      /\ ssoAt' = [ssoAt EXCEPT ![h] = new]
      /\ UNCHANGED <<ssoProvider, ssoBindings, ssoUnused, ssoEdits, ssoLogins>>
  BY DEF O!Callback
<1>2. x \in Transaction /\ ssoProvider \in Provider
  BY <1>1, OidcSteps DEF OidcInv, OidcTypes
<1>3. /\ spent \in Transaction /\ spent.state = x.state /\ spent.used
      /\ spent.revision = x.revision /\ spent.edits = x.edits
  BY <1>2 DEF Transaction
<1>4. new \in Asks /\ new.of = x /\ new.p = ssoProvider
  BY <1>2 DEF Asks
<1> HIDE DEF spent, new
<1>5. /\ ssoAt' \in [Handlers -> {O!Idle} \cup Begins \cup Asks] /\ ssoAt'[h] = new
      /\ \A g \in Handlers \ {h} : ssoAt'[g] = ssoAt[g]
  BY <1>1, <1>4 DEF OidcInv, OidcTypes
<1>6. OidcTypes'
  BY <1>1, <1>3, <1>5 DEF OidcInv, OidcTypes
<1>7. RevisionsCount'
  <2>1. \A y \in ssoTransactions' : y.revision = y.edits + 1
    BY <1>1, <1>3 DEF OidcInv, RevisionsCount
  <2>2. \A g \in Handlers : ssoAt'[g] \in Begins => ssoAt'[g].p.revision = ssoAt'[g].edits + 1
    BY <1>4, <1>5, OidcSteps DEF OidcInv, RevisionsCount
  <2>3. \A g \in Handlers : ssoAt'[g] \in Asks => ssoAt'[g].p.revision = ssoAt'[g].of.revision /\ ssoAt'[g].of.revision = ssoAt'[g].of.edits + 1
    BY <1>1, <1>4, <1>5 DEF OidcInv, RevisionsCount
  <2>4. ASSUME NEW g \in Handlers, ssoAt'[g] \in Asks
        PROVE  /\ ssoAt'[g].p.revision <= ssoEdits' + 1
               /\ ssoProvider' # O!Gone /\ ssoProvider'.revision = ssoAt'[g].p.revision => ssoProvider' = ssoAt'[g].p
    <3>1. CASE g = h
      <4>1. ssoProvider.revision = ssoEdits + 1 /\ ssoEdits \in Nat
        BY <1>1, OidcSteps DEF OidcInv, OidcTypes, RevisionsCount
      <4> QED
        BY <1>1, <1>4, <1>5, <3>1, <4>1
    <3>2. CASE g # h
      BY <1>1, <1>5, <2>4, <3>2 DEF OidcInv, RevisionsCount
    <3> QED
      BY <3>1, <3>2
  <2> QED
    BY <1>1, <2>1, <2>2, <2>3, <2>4 DEF OidcInv, RevisionsCount
<1>8. OneHand'
  <2>1. \A y \in ssoTransactions' : y.state # x.state \/ y.used
    BY <1>1, <1>3 DEF OidcInv, OneHand
  <2>2. \A y \in ssoTransactions' : y.state \notin ssoUnused'
    BY <1>1, <1>3 DEF OidcInv, OneHand
  <2>3. \A y, z \in ssoTransactions' : y.state = z.state => y = z
    BY <1>1, <1>3 DEF OidcInv, OneHand
  <2>4. \A y \in ssoTransactions' : y = spent \/ y \in ssoTransactions
    BY <1>1
  <2>5. \A g \in Handlers \ {h} : ssoAt[g] \in Asks => ssoAt[g].of.state # x.state
    BY <1>1 DEF OidcInv, OneHand
  <2>6. \A i \in DOMAIN ssoLogins : ssoLogins[i].state # x.state
    BY <1>1 DEF OidcInv, OneHand
  <2>7. ASSUME NEW g \in Handlers, ssoAt'[g] \in Asks
        PROVE  /\ ssoAt'[g].of.state \notin ssoUnused'
               /\ \A y \in ssoTransactions' : y.state = ssoAt'[g].of.state => y.used
               /\ \A k \in Handlers \ {g} : ssoAt'[k] \in Asks => ssoAt'[k].of.state # ssoAt'[g].of.state
               /\ \A i \in DOMAIN ssoLogins' : ssoLogins'[i].state # ssoAt'[g].of.state
    <3>1. CASE g = h
      BY <1>1, <1>4, <1>5, <2>1, <2>5, <2>6, <3>1 DEF OidcInv, OneHand
    <3>2. CASE g # h
      <4>1. ssoAt'[g] = ssoAt[g] /\ ssoAt[g] \in Asks
        BY <1>5, <2>7, <3>2
      <4>2. \A y \in ssoTransactions' : y.state = ssoAt'[g].of.state => y.used
        BY <1>3, <2>4, <4>1 DEF OidcInv, OneHand
      <4>3. \A k \in Handlers \ {g} : ssoAt'[k] \in Asks => ssoAt'[k].of.state # ssoAt'[g].of.state
        BY <1>4, <1>5, <2>5, <3>2, <4>1 DEF OidcInv, OneHand
      <4> QED
        BY <1>1, <4>1, <4>2, <4>3 DEF OidcInv, OneHand
    <3> QED
      BY <3>1, <3>2
  <2>8. \A i \in DOMAIN ssoLogins' :
          /\ ssoLogins'[i].state \notin ssoUnused'
          /\ \A y \in ssoTransactions' : y.state = ssoLogins'[i].state => y.used
    BY <1>1, <1>3, <2>4 DEF OidcInv, OneHand
  <2> QED
    BY <2>2, <2>3, <2>7, <2>8 DEF OneHand
<1>9. O!Safe'
  BY <1>1 DEF OidcInv, O!Safe, O!OneLoginPerState, O!NoLoginAcrossAnEdit
<1> QED
  BY <1>6, <1>7, <1>8, <1>9 DEF OidcInv

(* The provider is as it was at the callback, which found it as it was when *)
(* login began.                                                             *)
LEMMA LoginKeeps ==
  ASSUME OidcInv, NEW h \in Handlers, NEW s \in Subjects, O!Login(h, s)
  PROVE  OidcInv'
<1>1. /\ ssoAt[h].step = "asks" /\ ssoProvider.enabled /\ ssoProvider.revision = ssoAt[h].p.revision
      /\ ssoAt' = [ssoAt EXCEPT ![h] = O!Idle]
      /\ UNCHANGED <<ssoProvider, ssoBindings, ssoTransactions, ssoUnused, ssoEdits>>
  BY DEF O!Login
<1>2. ssoAt[h] \in Asks /\ ssoAt[h].of \in Transaction
  BY <1>1, OidcSteps DEF OidcInv, OidcTypes, Asks
<1>3. ssoProvider # O!Gone /\ ssoProvider.revision = ssoEdits + 1
  BY <1>1, OidcSteps DEF OidcInv, RevisionsCount
<1>4. ssoAt[h].of.edits = ssoEdits
  <2>1. ssoAt[h].p.revision = ssoAt[h].of.revision /\ ssoAt[h].of.revision = ssoAt[h].of.edits + 1
    BY <1>2 DEF OidcInv, RevisionsCount
  <2>2. ssoEdits \in Nat /\ ssoAt[h].of.edits \in Nat
    BY <1>2 DEF OidcInv, OidcTypes, Transaction
  <2>3. ssoProvider.revision = ssoAt[h].p.revision
    BY <1>1
  <2>4. ssoEdits + 1 = ssoAt[h].of.edits + 1
    BY <1>3, <2>1, <2>3, Zenon
  <2> QED
    BY <2>2, <2>4
<1>5. PICK b \in O!Bound(ssoAt[h].p.issuer, s) :
        ssoLogins' = Append(ssoLogins, [state |-> ssoAt[h].of.state, since |-> ssoAt[h].of.edits, edits |-> ssoEdits,
                                  subject |-> s, account |-> b.account])
  BY DEF O!Login
<1> DEFINE new == [state |-> ssoAt[h].of.state, since |-> ssoAt[h].of.edits, edits |-> ssoEdits,
                   subject |-> s, account |-> b.account]
<1>6. new \in Logged /\ new.state = ssoAt[h].of.state /\ new.since = new.edits
  BY <1>2, <1>4 DEF OidcInv, OidcTypes, O!Bound, Logged, Transaction
<1>7. ssoLogins' = Append(ssoLogins, new)
  BY <1>5
<1> HIDE DEF new
<1>8. /\ ssoLogins' \in Seq(Logged) /\ DOMAIN ssoLogins' = DOMAIN ssoLogins \cup {Len(ssoLogins) + 1}
      /\ Len(ssoLogins) + 1 \notin DOMAIN ssoLogins
      /\ \A i \in DOMAIN ssoLogins : ssoLogins'[i] = ssoLogins[i]
      /\ ssoLogins'[Len(ssoLogins) + 1] = new
  <2>1. ssoLogins \in Seq(Logged) /\ new \in Logged
    BY <1>6 DEF OidcInv, OidcTypes
  <2>2. ssoLogins' \in Seq(Logged) /\ Len(ssoLogins') = Len(ssoLogins) + 1 /\ Len(ssoLogins) \in Nat
    BY <1>7, <2>1
  <2>3. DOMAIN ssoLogins = 1..Len(ssoLogins) /\ DOMAIN ssoLogins' = 1..Len(ssoLogins')
    BY <2>1, <2>2
  <2>4. \A i \in 1..Len(ssoLogins) : ssoLogins'[i] = ssoLogins[i]
    BY <1>7, <2>1
  <2>5. ssoLogins'[Len(ssoLogins) + 1] = new
    BY <1>7, <2>1
  <2> QED
    BY <2>2, <2>3, <2>4, <2>5
<1>9. /\ ssoAt' \in [Handlers -> {O!Idle} \cup Begins \cup Asks] /\ ssoAt'[h] = O!Idle
      /\ \A g \in Handlers \ {h} : ssoAt'[g] = ssoAt[g]
  BY <1>1 DEF OidcInv, OidcTypes
<1>10. \A g \in Handlers : ssoAt'[g] \in Asks \/ ssoAt'[g] \in Begins => g # h /\ ssoAt'[g] = ssoAt[g]
  BY <1>9, OidcSteps
<1>11. OidcTypes'
  BY <1>1, <1>8, <1>9 DEF OidcInv, OidcTypes
<1>12. RevisionsCount'
  BY <1>1, <1>10 DEF OidcInv, RevisionsCount
<1>13. \A i \in DOMAIN ssoLogins : ssoLogins[i].state # new.state
  BY <1>2, <1>6 DEF OidcInv, OneHand
<1>14. OneHand'
  <2>1. \A g \in Handlers : ssoAt'[g] \in Asks => ssoAt[g] \in Asks /\ ssoAt'[g].of.state # new.state
    BY <1>2, <1>6, <1>10 DEF OidcInv, OneHand
  <2>2. ASSUME NEW g \in Handlers, ssoAt'[g] \in Asks
        PROVE  /\ ssoAt'[g].of.state \notin ssoUnused'
               /\ \A x \in ssoTransactions' : x.state = ssoAt'[g].of.state => x.used
               /\ \A k \in Handlers \ {g} : ssoAt'[k] \in Asks => ssoAt'[k].of.state # ssoAt'[g].of.state
               /\ \A i \in DOMAIN ssoLogins' : ssoLogins'[i].state # ssoAt'[g].of.state
    BY <1>1, <1>8, <1>10, <2>1, <2>2 DEF OidcInv, OneHand
  <2>3. new.state \notin ssoUnused /\ \A x \in ssoTransactions : x.state = new.state => x.used
    BY <1>2, <1>6 DEF OidcInv, OneHand
  <2>4. \A i \in DOMAIN ssoLogins' :
          /\ ssoLogins'[i].state \notin ssoUnused'
          /\ \A x \in ssoTransactions' : x.state = ssoLogins'[i].state => x.used
    BY <1>1, <1>8, <2>3 DEF OidcInv, OneHand
  <2> QED
    BY <1>1, <2>2, <2>4 DEF OidcInv, OneHand
<1>15. O!Safe'
  <2>1. O!OneLoginPerState'
    BY <1>8, <1>13 DEF OidcInv, O!Safe, O!OneLoginPerState
  <2>2. O!NoLoginAcrossAnEdit'
    BY <1>6, <1>8 DEF OidcInv, O!Safe, O!NoLoginAcrossAnEdit
  <2> QED
    BY <2>1, <2>2 DEF O!Safe
<1> QED
  BY <1>11, <1>12, <1>14, <1>15 DEF OidcInv

LEMMA LeaveKeeps ==
  ASSUME OidcInv, (\E h \in Handlers : O!Fail(h)) \/ O!Restart
  PROVE  OidcInv'
<1>1. UNCHANGED <<ssoProvider, ssoBindings, ssoTransactions, ssoUnused, ssoEdits, ssoLogins>>
  BY DEF O!Fail, O!Restart
<1>2. /\ ssoAt' \in [Handlers -> {O!Idle} \cup Begins \cup Asks]
      /\ \A g \in Handlers : ssoAt'[g] = O!Idle \/ ssoAt'[g] = ssoAt[g]
  BY DEF O!Fail, O!Restart, OidcInv, OidcTypes
<1>3. \A g \in Handlers : ssoAt'[g] \in Asks \/ ssoAt'[g] \in Begins => ssoAt'[g] = ssoAt[g]
  BY <1>2, OidcSteps
<1>4. OidcTypes'
  BY <1>1, <1>2 DEF OidcInv, OidcTypes
<1>5. RevisionsCount'
  BY <1>1, <1>3 DEF OidcInv, RevisionsCount
<1>6. OneHand'
  BY <1>1, <1>3 DEF OidcInv, OneHand
<1> QED
  BY <1>1, <1>4, <1>5, <1>6 DEF OidcInv, O!Safe, O!OneLoginPerState, O!NoLoginAcrossAnEdit

LEMMA ExpireKeeps ==
  ASSUME OidcInv, NEW x \in ssoTransactions, O!Expire(x)
  PROVE  OidcInv'
<1>1. ssoTransactions' \subseteq ssoTransactions /\ UNCHANGED <<ssoProvider, ssoBindings, ssoUnused, ssoAt, ssoEdits, ssoLogins>>
  BY DEF O!Expire
<1> QED
  BY <1>1 DEF OidcInv, OidcTypes, RevisionsCount, OneHand, O!Safe, O!OneLoginPerState, O!NoLoginAcrossAnEdit

LEMMA OidcStay == ASSUME OidcInv, UNCHANGED oidc PROVE OidcInv'
  BY DEF oidc,
      OidcInv, O!Safe, O!NoLoginAcrossAnEdit, O!OneLoginPerState, OidcTypes, OneHand,
      RevisionsCount

LEMMA CommandsStep == ASSUME CommandsInv, C!Next PROVE CommandsInv'
  BY AskKeeps, ConfirmKeeps, EndKeeps, SetEnabledKeeps, CommandRestKeeps DEF C!Next

LEMMA OidcStep == ASSUME OidcInv, O!Next PROVE OidcInv'
  BY EditKeeps, BindingKeeps, BeginKeeps, BegunKeeps, CallbackKeeps, LoginKeeps, LeaveKeeps, ExpireKeeps
     DEF O!Next

(* Only a login adds to the logins.                                         *)
LEMMA OnlyLoginAdds ==
  ASSUME O!Next, ssoLogins' # ssoLogins
  PROVE  \E h \in Handlers, s \in Subjects : O!Login(h, s)
<1>1. ASSUME NEW h \in Handlers
      PROVE  /\ ~O!Begin(h) /\ ~O!Fail(h)
             /\ \A x \in ssoTransactions : ~O!Callback(h, x)
             /\ \A t \in States : ~O!Begun(h, t)
  BY DEF O!Begin, O!Fail, O!Callback, O!Begun
<1>2. ~O!Remove /\ ~O!Restart /\ \A i \in Issuers, on \in BOOLEAN : ~O!Configure(i, on)
  BY DEF O!Remove, O!Restart, O!Configure
<1>3. /\ \A s \in Subjects, a \in Bindable : ~O!Bind(s, a)
      /\ \A b \in ssoBindings : ~O!Unbind(b)
      /\ \A a \in Bindable : ~O!Switch(a)
      /\ \A x \in ssoTransactions : ~O!Expire(x)
  BY DEF O!Bind, O!Unbind, O!Switch, O!Expire
<1> QED
  BY <1>1, <1>2, <1>3 DEF O!Next

LEMMA LetsInWhoIsBound ==
  ASSUME OidcInv, O!Next, ssoLogins' # ssoLogins
  PROVE  O!LetsInTheBound
<1>1. PICK h \in Handlers, s \in Subjects : O!Login(h, s)
  BY OnlyLoginAdds
<1>2. /\ ssoAt[h] \in Asks /\ ssoProvider # O!Gone
      /\ ssoProvider.revision = ssoAt[h].p.revision
  BY <1>1, OidcSteps DEF O!Login, OidcInv, OidcTypes
<1>3. ssoProvider = ssoAt[h].p
  BY <1>2 DEF OidcInv, RevisionsCount
<1>4. PICK b \in O!Bound(ssoAt[h].p.issuer, s) :
        /\ b.account \in ssoAble
        /\ ssoLogins' = Append(ssoLogins, [state |-> ssoAt[h].of.state, since |-> ssoAt[h].of.edits,
                                           edits |-> ssoEdits, subject |-> s, account |-> b.account])
  BY <1>1 DEF O!Login
<1> DEFINE new == [state |-> ssoAt[h].of.state, since |-> ssoAt[h].of.edits, edits |-> ssoEdits,
                   subject |-> s, account |-> b.account]
<1>5. ssoLogins' = Append(ssoLogins, new) /\ new.subject = s /\ new.account = b.account
  BY <1>4
<1>6. new \in Logged
  BY <1>2, <1>4 DEF OidcInv, OidcTypes, Asks, Transaction, Logged, O!Bound
<1> HIDE DEF new
<1>7. ssoLogins'[Len(ssoLogins')] = new
  BY <1>5, <1>6 DEF OidcInv, OidcTypes
<1> QED
  BY <1>3, <1>4, <1>5, <1>7 DEF O!LetsInTheBound

-----------------------------------------------------------------------------
(* The text of an answer, and what the page makes of a piece of it.         *)

LEMMA TextIs ==
  /\ V!Full \in Seq(Nat) /\ Len(V!Full) = TextSize
  /\ \A n \in 0 .. TextSize : V!Text(n) \in Seq(Nat) /\ Len(V!Text(n)) = n
<1>0. TextSize \in Nat
  BY ServicesAssumption
<1>1. V!Full \in [1 .. TextSize -> Nat] /\ \A i \in 1 .. TextSize : V!Full[i] = i
  BY DEF V!Full
<1>2. V!Full \in Seq(Nat) /\ Len(V!Full) = TextSize
  BY <1>0, <1>1
<1>3. ASSUME NEW n \in 0 .. TextSize PROVE V!Text(n) \in Seq(Nat) /\ Len(V!Text(n)) = n
  <2>1. \A i \in 1 .. n : V!Full[i] \in Nat
    BY <1>0, <1>1
  <2>2. 1 \in Int /\ n \in Int /\ (IF 1 <= n THEN n - 1 + 1 ELSE 0) = n
    BY <1>0
  <2>3. SubSeq(V!Full, 1, n) \in Seq(Nat) /\ Len(SubSeq(V!Full, 1, n)) = n
    BY <2>1, <2>2, SubSeqProperties
  <2> QED BY <2>3 DEF V!Text
<1> QED BY <1>2, <1>3

Piece(n) == SubSeq(V!Full, n + 1, n + 1)

LEMMA PieceIs ==
  ASSUME NEW n \in 0 .. TextSize - 1
  PROVE  Piece(n) \in Seq(Nat) /\ Len(Piece(n)) = 1 /\ V!Text(n) \o Piece(n) = V!Text(n + 1)
<1>0. TextSize \in Nat
  BY ServicesAssumption
<1>1. n + 1 \in Int /\ n \in 0 .. Len(V!Full) /\ n + 1 \in n .. Len(V!Full) /\ 1 \in 1 .. Len(V!Full) + 1 /\ 1 - 1 = 0
  BY <1>0, TextIs
<1>2. \A i \in n + 1 .. n + 1 : V!Full[i] \in Nat
  BY <1>0, <1>1, TextIs
<1>3. Piece(n) \in Seq(Nat) /\ Len(Piece(n)) = n + 1 - (n + 1) + 1
  BY <1>0, <1>1, <1>2, SubSeqProperties DEF Piece
<1>4. V!Text(n) \o Piece(n) = V!Text(n + 1)
  BY <1>1, TextIs, ConcatAdjacentSubSeq DEF Piece, V!Text
<1> QED BY <1>0, <1>3, <1>4

(* A piece is put behind the text it follows, and no other.                 *)
LEMMA GrownIs ==
  ASSUME NEW k \in 0 .. TextSize, NEW n \in 0 .. TextSize - 1, NEW e, e.offset = n, e.text = Piece(n)
  PROVE  V!Grown(V!Text(k), e) = IF n = k THEN V!Text(k + 1) ELSE V!Text(k)
<1>0. TextSize \in Nat
  BY ServicesAssumption
<1>1. Len(V!Text(k)) = k /\ V!Text(k) \in Seq(Nat)
  BY TextIs
<1>2. Piece(n) \in Seq(Nat) /\ Len(Piece(n)) = 1 /\ V!Text(n) \o Piece(n) = V!Text(n + 1)
  BY PieceIs
<1>3. V!Grown(V!Text(k), e) = IF n > k THEN V!Text(k) ELSE V!Text(k) \o SubSeq(Piece(n), k - n + 1, 1)
  BY <1>1, <1>2 DEF V!Grown
<1>4. CASE n > k
  BY <1>0, <1>3, <1>4
<1>5. CASE n = k
  <2>1. SubSeq(Piece(n), 1, Len(Piece(n))) = Piece(n)
    BY <1>2, SubSeqFull
  <2>2. k - n + 1 = 1
    BY <1>0, <1>5
  <2>3. SubSeq(Piece(n), k - n + 1, 1) = Piece(n)
    BY <1>2, <2>1, <2>2
  <2>4. ~(n > k) /\ V!Text(k) \o Piece(n) = V!Text(k + 1)
    BY <1>0, <1>2, <1>5
  <2> QED BY <1>3, <1>5, <2>3, <2>4
<1>6. CASE n < k
  <2>1. k - n + 1 \in Int /\ 1 < k - n + 1
    BY <1>0, <1>6
  <2>2. SubSeq(Piece(n), k - n + 1, 1) = << >>
    BY <2>1, SubSeqEmpty
  <2>3. V!Text(k) \o << >> = V!Text(k)
    BY <1>1
  <2>4. ~(n > k) /\ n # k
    BY <1>0, <1>6
  <2> QED BY <1>3, <2>2, <2>3, <2>4
<1> QED BY <1>0, <1>4, <1>5, <1>6

-----------------------------------------------------------------------------
(* What is written is the text of then; what tells all of it is written     *)
(* when no more is made.                                                    *)
Whole(e) == e.type = "assistant_message" \/ (e.type = "message_progress" /\ e.complete)

Lasting(e, made, phase) ==
  \/ /\ e.type = "message_progress" /\ e.complete \in BOOLEAN /\ \E n \in 0 .. made : e.text = V!Text(n)
     /\ e.complete => e.text = V!Text(made) /\ phase # "writes"
  \/ e.type = "assistant_message" /\ e.text = V!Text(made) /\ phase # "writes"
  \/ e.type = "status"

Passing(e, made) == e.type = "assistant_delta" /\ \E n \in 0 .. made - 1 : e.offset = n /\ e.text = Piece(n)

Page == [text : Seq(Nat), final : BOOLEAN, running : BOOLEAN,
         given : SUBSET Nat, lastSeq : Nat, seen : SUBSET Nat]

Texts(p, made, phase) ==
  /\ p \in Page /\ \E k \in 0 .. made : p.text = V!Text(k)
  /\ p.final => p.text = V!Text(made) /\ phase # "writes"

Reading(p, t, b) == [p EXCEPT !.text = t, !.final = b]
Counting(p, n) == [p EXCEPT !.given = @ \cup {n}, !.lastSeq = n]
Seeing(p, n, b) == [p EXCEPT !.seen = @ \cup {n}, !.running = b]

(* One event changes the text, to a longer one, and whether it is final.    *)
LEMMA ConsumedIs ==
  ASSUME NEW made \in 0 .. TextSize, NEW phase, NEW p, Texts(p, made, phase),
         NEW e, Passing(e, made) \/ Lasting(e, made, phase)
  PROVE  \E k \in 0 .. made, b \in BOOLEAN :
           /\ V!Consumed(p, e) = Reading(p, V!Text(k), b)
           /\ Len(p.text) <= k /\ (b => k = made /\ phase # "writes")
           /\ p.text = V!Text(made) \/ Whole(e) => k = made
<1> DEFINE Ends(x, b) == /\ V!Consumed(p, e) = [p EXCEPT !.text = V!Text(x), !.final = b]
                         /\ Len(p.text) <= x /\ (b => x = made /\ phase # "writes")
                         /\ p.text = V!Text(made) \/ Whole(e) => x = made
<1> SUFFICES \E x \in 0 .. made, b \in BOOLEAN : Ends(x, b)
  BY DEF Reading
<1>0. TextSize \in Nat /\ made \in Nat
  BY ServicesAssumption
<1>1. PICK k \in 0 .. made : p.text = V!Text(k)
  BY DEF Texts
<1>2. /\ p \in Page /\ p.final \in BOOLEAN
      /\ p.final => V!Text(k) = V!Text(made) /\ phase # "writes"
  BY <1>1 DEF Texts, Page
<1>3. \A n \in 0 .. made : n \in 0 .. TextSize /\ Len(V!Text(n)) = n
  BY <1>0, TextIs
<1>4. p.final => k = made
  BY <1>0, <1>1, <1>2, <1>3
<1>7. \A t : [p EXCEPT !.text = t] = [p EXCEPT !.text = t, !.final = p.final]
  BY <1>2 DEF Page
<1>8. p = [p EXCEPT !.text = V!Text(k), !.final = p.final]
  BY <1>1, <1>2 DEF Page
<1>9. p.text = V!Text(made) => k = made
  <2>1. Len(V!Text(made)) = made /\ Len(V!Text(k)) = k
    BY <1>0, <1>3
  <2> QED BY <1>1, <2>1
<1>10. Len(p.text) = k
  BY <1>1, <1>3
<1>11. CASE p.final
  <2>1. V!Consumed(p, e) = [p EXCEPT !.text = V!Text(k), !.final = p.final]
    BY <1>8, <1>11 DEF V!Consumed
  <2>2. Ends(k, p.final)
    BY <1>0, <1>2, <1>4, <1>10, <1>11, <2>1
  <2> HIDE DEF Ends
  <2> QED BY <1>2, <2>2
<1>12. CASE ~p.final /\ V!Consumed(p, e) = p /\ ~Whole(e)
  <2>1. V!Consumed(p, e) = [p EXCEPT !.text = V!Text(k), !.final = p.final]
    BY <1>8, <1>12
  <2>2. Ends(k, p.final)
    BY <1>0, <1>9, <1>10, <1>12, <2>1
  <2> HIDE DEF Ends
  <2> QED BY <1>2, <2>2
<1>13. ASSUME NEW k2 \in k .. made, ~p.final, V!Consumed(p, e) = [p EXCEPT !.text = V!Text(k2)],
              k = made \/ Whole(e) => k2 = made
       PROVE  \E x \in 0 .. made, b \in BOOLEAN : Ends(x, b)
  <2>1. k2 \in 0 .. made /\ p.final \in BOOLEAN /\ Len(p.text) <= k2
    BY <1>0, <1>2, <1>10
  <2>2. V!Consumed(p, e) = [p EXCEPT !.text = V!Text(k2), !.final = p.final]
    BY <1>7, <1>13
  <2>3. Ends(k2, p.final)
    BY <1>9, <1>13, <2>1, <2>2
  <2> HIDE DEF Ends
  <2> QED BY <2>1, <2>3
<1>14. CASE ~p.final /\ Passing(e, made)
  <2>1. PICK n \in 0 .. made - 1 : e.offset = n /\ e.text = Piece(n)
    BY <1>14 DEF Passing
  <2>2. e.type = "assistant_delta" /\ ~Whole(e)
    BY <1>14 DEF Passing, Whole
  <2>3. V!Consumed(p, e) = IF p.running THEN [p EXCEPT !.text = V!Grown(@, e)] ELSE p
    BY <1>14, <2>2 DEF V!Consumed
  <2>4. CASE ~p.running
    BY <1>12, <1>14, <2>2, <2>3, <2>4
  <2>5. CASE p.running
    <3>1. n \in 0 .. TextSize - 1 /\ k \in 0 .. TextSize
      BY <1>0
    <3>2. V!Grown(V!Text(k), e) = IF n = k THEN V!Text(k + 1) ELSE V!Text(k)
      BY <2>1, <3>1, GrownIs
    <3>3. V!Consumed(p, e) = [p EXCEPT !.text = V!Grown(V!Text(k), e)]
      BY <1>1, <2>3, <2>5
    <3> DEFINE k2 == IF n = k THEN k + 1 ELSE k
    <3>4. k2 \in k .. made /\ (k = made => k2 = made)
      BY <1>0
    <3>5. V!Consumed(p, e) = [p EXCEPT !.text = V!Text(k2)]
      BY <3>2, <3>3
    <3> HIDE DEF k2
    <3> QED BY <1>13, <1>14, <2>2, <3>4, <3>5
  <2> QED BY <2>4, <2>5
<1>15. CASE ~p.final /\ e.type = "message_progress" /\ Lasting(e, made, phase)
  <2>1. PICK n \in 0 .. made : e.text = V!Text(n)
    BY <1>15 DEF Lasting
  <2>2. e.complete \in BOOLEAN /\ (e.complete => e.text = V!Text(made)) /\ (Whole(e) <=> e.complete)
    BY <1>15 DEF Lasting, Whole
  <2>3. V!Consumed(p, e) = IF e.complete \/ Len(e.text) >= Len(p.text) THEN [p EXCEPT !.text = e.text] ELSE p
    BY <1>15 DEF V!Consumed
  <2>4. Len(e.text) = n
    BY <1>3, <2>1
  <2>5. CASE ~e.complete /\ ~(n >= k)
    BY <1>10, <1>12, <1>15, <2>2, <2>3, <2>4, <2>5
  <2>6. CASE e.complete \/ n >= k
    <3>1. V!Consumed(p, e) = [p EXCEPT !.text = V!Text(n)]
      BY <1>10, <2>1, <2>3, <2>4, <2>6
    <3>2. e.complete => n = made
      BY <1>0, <1>3, <2>1, <2>2, <2>4
    <3>3. n \in k .. made /\ (k = made \/ Whole(e) => n = made)
      BY <1>0, <2>2, <2>6, <3>2
    <3> QED BY <1>13, <1>15, <3>1, <3>3
  <2> QED BY <2>5, <2>6
<1>16. CASE ~p.final /\ e.type = "assistant_message" /\ Lasting(e, made, phase)
  <2>1. e.text = V!Text(made) /\ phase # "writes"
    BY <1>16 DEF Lasting
  <2>2. V!Consumed(p, e) = [p EXCEPT !.text = V!Text(made), !.final = TRUE]
    BY <1>16, <2>1 DEF V!Consumed
  <2>3. Ends(made, TRUE)
    BY <1>0, <1>10, <2>1, <2>2
  <2>4. made \in 0 .. made
    BY <1>0
  <2> HIDE DEF Ends
  <2> QED BY <2>3, <2>4
<1>17. CASE ~p.final /\ e.type = "status"
  <2>1. V!Consumed(p, e) = p /\ ~Whole(e)
    BY <1>17 DEF V!Consumed, Whole
  <2> QED BY <1>12, <1>17, <2>1
<1> QED BY <1>11, <1>14, <1>15, <1>16, <1>17 DEF Lasting

-----------------------------------------------------------------------------
(* What the page holds, of the stored events there are.                     *)
Events ==
  [type : {"assistant_delta"}, offset : Nat, text : Seq(Nat)]
    \cup [type : {"message_progress"}, text : Seq(Nat), complete : BOOLEAN]
    \cup [type : {"assistant_message"}, text : Seq(Nat)]
    \cup [type : {"status"}, to : {"OVER", "CANCELLED"}]
Stamped == [seq : Nat, event : Events]

LogOk(log, made, phase) ==
  /\ log \in Seq(Stamped)
  /\ \A i \in 1 .. Len(log) : log[i].seq = i /\ Lasting(log[i].event, made, phase)

PageOk(p, log, made, phase) ==
  /\ Texts(p, made, phase)
  /\ p.given = 1 .. p.lastSeq /\ p.lastSeq <= Len(log)
  /\ \E m \in p.lastSeq .. Len(log) : p.seen = 1 .. m
  /\ \A i \in p.seen : Whole(log[i].event) => p.text = V!Text(made)
  /\ ~p.running => \E i \in p.seen : log[i].event.type = "status"

(* An event the page may be given next: a delta, or the stored one after    *)
(* the last it was given, or one of before.                                 *)
Due(d, last, log, made) ==
  \/ d.seq = 0 /\ Passing(d.event, made)
  \/ d.seq \in 1 .. Len(log) /\ d.seq <= last + 1 /\ d = log[d.seq]

LEMMA ReadingIs ==
  ASSUME NEW p \in Page, NEW t \in Seq(Nat), NEW b \in BOOLEAN
  PROVE  LET q == Reading(p, t, b) IN
         /\ q \in Page /\ q.text = t /\ q.final = b
         /\ q.running = p.running /\ q.given = p.given /\ q.lastSeq = p.lastSeq /\ q.seen = p.seen
  BY DEF Page, Reading

LEMMA CountingIs ==
  ASSUME NEW p \in Page, NEW n \in Nat
  PROVE  LET q == Counting(p, n) IN
         /\ q \in Page /\ q.given = p.given \cup {n} /\ q.lastSeq = n
         /\ q.running = p.running /\ q.text = p.text /\ q.final = p.final /\ q.seen = p.seen
  BY DEF Page, Counting

LEMMA SeeingIs ==
  ASSUME NEW p \in Page, NEW n \in Nat, NEW b \in BOOLEAN
  PROVE  LET q == Seeing(p, n, b) IN
         /\ q \in Page /\ q.seen = p.seen \cup {n} /\ q.running = b
         /\ q.text = p.text /\ q.final = p.final /\ q.given = p.given /\ q.lastSeq = p.lastSeq
  BY DEF Page, Seeing

LEMMA GivenKeeps ==
  ASSUME NEW made \in 0 .. TextSize, NEW phase, NEW log, LogOk(log, made, phase),
         NEW p, PageOk(p, log, made, phase), NEW d, Due(d, p.lastSeq, log, made), NEW r, r = V!Given(p, d)
  PROVE  /\ PageOk(r, log, made, phase)
         /\ p.lastSeq <= r.lastSeq /\ d.seq <= r.lastSeq /\ Len(p.text) <= Len(r.text)
<1>0. /\ TextSize \in Nat /\ made \in Nat /\ p \in Page /\ p.lastSeq \in Nat /\ Len(log) \in Nat
      /\ p.running \in BOOLEAN /\ Texts(p, made, phase)
  BY ServicesAssumption DEF PageOk, Texts, Page, LogOk
<1>1. PICK k0 \in 0 .. made : p.text = V!Text(k0)
  BY DEF PageOk, Texts
<1>2. Len(p.text) = k0 /\ \A n \in 0 .. made : Len(V!Text(n)) = n /\ V!Text(n) \in Seq(Nat)
  BY <1>0, <1>1, TextIs
<1>3. /\ p.given = 1 .. p.lastSeq /\ p.lastSeq <= Len(log)
      /\ \A i \in p.seen : Whole(log[i].event) => p.text = V!Text(made)
      /\ ~p.running => \E i \in p.seen : log[i].event.type = "status"
  BY DEF PageOk
<1>4. PICK m \in p.lastSeq .. Len(log) : p.seen = 1 .. m
  BY DEF PageOk
<1>5. CASE d.seq = 0 /\ Passing(d.event, made)
  <2>1. r = V!Consumed(p, d.event)
    BY <1>5 DEF V!Given
  <2>2. PICK k \in 0 .. made, b \in BOOLEAN :
          /\ r = Reading(p, V!Text(k), b)
          /\ Len(p.text) <= k /\ (b => k = made /\ phase # "writes")
          /\ p.text = V!Text(made) \/ Whole(d.event) => k = made
    BY <1>0, <1>5, <2>1, ConsumedIs
  <2>a. V!Text(k) \in Seq(Nat) /\ Len(V!Text(k)) = k /\ r = Reading(p, V!Text(k), b) /\ Len(p.text) <= k
    BY <1>2, <2>2
  <2>3. /\ r \in Page /\ r.text = V!Text(k) /\ r.final = b
        /\ r.running = p.running /\ r.given = p.given /\ r.lastSeq = p.lastSeq /\ r.seen = p.seen
    <3>1. LET q == Reading(p, V!Text(k), b) IN
          /\ q \in Page /\ q.text = V!Text(k) /\ q.final = b
          /\ q.running = p.running /\ q.given = p.given /\ q.lastSeq = p.lastSeq /\ q.seen = p.seen
      BY <1>0, <2>a, ReadingIs
    <3> QED BY <2>a, <3>1, Zenon
  <2>4. Texts(r, made, phase)
    BY <2>2, <2>3 DEF Texts
  <2>5. PageOk(r, log, made, phase)
    BY <1>3, <1>4, <2>2, <2>3, <2>4 DEF PageOk
  <2>6. r.lastSeq = p.lastSeq /\ Len(r.text) = k
    BY <2>a, <2>3
  <2> QED BY <1>0, <1>5, <2>a, <2>5, <2>6
<1>6. CASE d.seq \in 1 .. Len(log) /\ d.seq <= p.lastSeq + 1 /\ d = log[d.seq]
  <2>0. d.seq \in Nat /\ d.seq # 0 /\ Lasting(d.event, made, phase)
    BY <1>0, <1>6 DEF LogOk
  <2>1. CASE d.seq \in p.given
    <3>1. r = p
      BY <2>0, <2>1 DEF V!Given
    <3> QED BY <1>0, <1>2, <1>3, <2>1, <3>1
  <2>2. CASE d.seq \notin p.given
    <3> DEFINE q == Counting(p, d.seq)
    <3>1. d.seq = p.lastSeq + 1 /\ d.seq > p.lastSeq
      BY <1>0, <1>3, <1>6, <2>0, <2>2
    <3>2. r = IF d.seq \in p.seen THEN q
              ELSE [V!Consumed(q, d.event) EXCEPT !.seen = @ \cup {d.seq}, !.running = @ /\ d.event.type # "status"]
      BY <2>0, <2>2, <3>1 DEF V!Given, Counting
    <3>3. /\ q \in Page /\ q.given = p.given \cup {d.seq} /\ q.lastSeq = d.seq
          /\ q.running = p.running /\ q.text = p.text /\ q.final = p.final /\ q.seen = p.seen
      BY <1>0, <2>0, CountingIs
    <3> HIDE DEF q
    <3>4. q.given = 1 .. q.lastSeq /\ q.lastSeq <= Len(log) /\ Texts(q, made, phase)
      <4>1. p.given \cup {d.seq} = 1 .. d.seq
        BY <1>0, <1>3, <3>1
      <4> QED BY <1>0, <1>6, <3>3, <4>1 DEF Texts
    <3>5. CASE d.seq \in p.seen
      <4>1. d.seq <= m
        BY <1>4, <3>5
      <4>2. PageOk(q, log, made, phase)
        BY <1>0, <1>3, <1>4, <2>0, <3>3, <3>4, <4>1 DEF PageOk
      <4> QED BY <1>0, <1>2, <3>1, <3>2, <3>3, <3>5, <4>2
    <3>6. CASE d.seq \notin p.seen
      <4>1. m = p.lastSeq /\ p.seen \cup {d.seq} = 1 .. d.seq
        <5>1. m = p.lastSeq
          BY <1>0, <1>4, <3>1, <3>6
        <5> QED BY <1>0, <1>4, <3>1, <5>1
      <4>2. PICK k \in 0 .. made, b \in BOOLEAN :
              /\ V!Consumed(q, d.event) = Reading(q, V!Text(k), b)
              /\ Len(q.text) <= k /\ (b => k = made /\ phase # "writes")
              /\ q.text = V!Text(made) \/ Whole(d.event) => k = made
        BY <1>0, <2>0, <3>4, ConsumedIs
      <4> DEFINE c == V!Consumed(q, d.event)
                 on == p.running /\ d.event.type # "status"
      <4>3. /\ c \in Page /\ c.text = V!Text(k) /\ c.final = b
            /\ c.running = p.running /\ c.given = q.given /\ c.lastSeq = d.seq /\ c.seen = p.seen
        <5>1. V!Text(k) \in Seq(Nat) /\ c = Reading(q, V!Text(k), b)
          BY <1>2, <4>2
        <5> HIDE DEF c
        <5>2. /\ c \in Page /\ c.text = V!Text(k) /\ c.final = b
              /\ c.running = q.running /\ c.given = q.given /\ c.lastSeq = q.lastSeq /\ c.seen = q.seen
          <6>1. LET s == Reading(q, V!Text(k), b) IN
                /\ s \in Page /\ s.text = V!Text(k) /\ s.final = b
                /\ s.running = q.running /\ s.given = q.given /\ s.lastSeq = q.lastSeq /\ s.seen = q.seen
            BY <3>3, <5>1, ReadingIs
          <6> QED BY <5>1, <6>1, Zenon
        <5> QED BY <3>3, <5>2
      <4>4. r = Seeing(c, d.seq, on)
        BY <3>2, <3>6, <4>3 DEF Seeing
      <4>5. on \in BOOLEAN
        OBVIOUS
      <4>6. on <=> p.running /\ d.event.type # "status"
        OBVIOUS
      <4> HIDE DEF c, on
      <4>7. /\ r \in Page /\ r.seen = c.seen \cup {d.seq} /\ r.running = on
            /\ r.text = c.text /\ r.final = c.final /\ r.given = c.given /\ r.lastSeq = c.lastSeq
        <5>1. LET s == Seeing(c, d.seq, on) IN
              /\ s \in Page /\ s.seen = c.seen \cup {d.seq} /\ s.running = on
              /\ s.text = c.text /\ s.final = c.final /\ s.given = c.given /\ s.lastSeq = c.lastSeq
          BY <2>0, <4>3, <4>5, SeeingIs
        <5> QED BY <4>4, <5>1, Zenon
      <4>8. r.seen = 1 .. d.seq /\ r.lastSeq = d.seq /\ r.text = V!Text(k) /\ r.final = b /\ r.given = 1 .. d.seq
        BY <3>3, <3>4, <4>1, <4>3, <4>7
      <4>9. Texts(r, made, phase)
        BY <4>2, <4>7, <4>8 DEF Texts
      <4>10. \A i \in r.seen : Whole(log[i].event) => r.text = V!Text(made)
        <5> SUFFICES ASSUME NEW i \in r.seen, Whole(log[i].event) PROVE r.text = V!Text(made)
          OBVIOUS
        <5>1. CASE i = d.seq
          BY <1>6, <4>2, <4>8, <5>1
        <5>2. CASE i \in p.seen
          BY <1>3, <3>3, <4>2, <4>8, <5>2
        <5> QED BY <4>3, <4>7, <5>1, <5>2
      <4>11. ~r.running => \E i \in r.seen : log[i].event.type = "status"
        <5>1. CASE p.running
          <6>1. ~r.running => d.event.type = "status"
            BY <4>6, <4>7, <5>1
          <6>2. d.seq \in r.seen /\ log[d.seq].event = d.event
            BY <1>6, <4>7
          <6> QED BY <6>1, <6>2
        <5>2. CASE ~p.running
          BY <1>3, <4>3, <4>7, <5>2
        <5> QED BY <5>1, <5>2
      <4>12. r.lastSeq <= Len(log) /\ \E x \in r.lastSeq .. Len(log) : r.seen = 1 .. x
        BY <1>0, <1>6, <2>0, <4>8
      <4>13. PageOk(r, log, made, phase)
        BY <4>8, <4>9, <4>10, <4>11, <4>12 DEF PageOk
      <4>14. Len(p.text) <= k /\ Len(r.text) = k
        <5>1. Len(q.text) <= k /\ q.text = p.text
          BY <3>3, <4>2
        <5>2. r.text = V!Text(k) /\ Len(V!Text(k)) = k
          BY <1>2, <4>8
        <5> QED BY <5>1, <5>2
      <4>15. r.lastSeq = d.seq /\ k \in Nat
        BY <1>0, <4>8
      <4> QED BY <1>0, <2>0, <3>1, <4>13, <4>14, <4>15
    <3> QED BY <3>5, <3>6
  <2> QED BY <2>1, <2>2
<1> QED BY <1>5, <1>6 DEF Due

After(g, p, events, m) ==
  g = [n \in 0 .. m |-> IF n = 0 THEN p ELSE V!Given(g[n - 1], events[n])]

(* What is given one event after another is a function of how many were.    *)
LEMMA AfterIs == ASSUME NEW p, NEW events, NEW m \in Nat PROVE \E g : After(g, p, events, m)
<1> DEFINE Upto(k) == \E g : After(g, p, events, k)
           Holds == {k \in 0 .. m : Upto(k)}
<1>1. 0 \in Holds
  <2> DEFINE g == [n \in 0 .. 0 |-> p]
  <2>1. g = [n \in 0 .. 0 |-> g[n]] /\ \A n \in 0 .. 0 : n = 0 /\ g[n] = p
    OBVIOUS
  <2> HIDE DEF g
  <2>2. After(g, p, events, 0)
    BY <2>1 DEF After
  <2>3. Upto(0)
    BY <2>2
  <2> HIDE DEF Upto
  <2> QED BY <2>3
<1>2. \A k \in Holds : k \in 0 .. m - 1 => k + 1 \in Holds
  <2> SUFFICES ASSUME NEW k \in 0 .. m - 1, k \in Holds PROVE k + 1 \in Holds
    OBVIOUS
  <2>1. PICK g : After(g, p, events, k)
    OBVIOUS
  <2> DEFINE h == [n \in 0 .. k + 1 |-> IF n = k + 1 THEN V!Given(g[k], events[k + 1]) ELSE g[n]]
  <2>2. h = [n \in 0 .. k + 1 |-> h[n]]
    OBVIOUS
  <2>3. \A n \in 0 .. k + 1 : h[n] = IF n = 0 THEN p ELSE V!Given(h[n - 1], events[n])
    <3> TAKE n \in 0 .. k + 1
    <3>1. CASE n = k + 1
      <4>1. n # 0 /\ n - 1 = k /\ k \in 0 .. k + 1 /\ k # k + 1
        BY <3>1
      <4>2. h[k] = g[k] /\ h[n] = V!Given(g[k], events[n])
        BY <3>1, <4>1
      <4> QED BY <4>1, <4>2
    <3>2. CASE n \in 0 .. k
      <4>1. h[n] = g[n] /\ (n # 0 => n - 1 \in 0 .. k /\ h[n - 1] = g[n - 1])
        BY <3>2
      <4>2. g[n] = IF n = 0 THEN p ELSE V!Given(g[n - 1], events[n])
        BY <2>1, <3>2 DEF After
      <4> QED BY <4>1, <4>2
    <3> QED BY <3>1, <3>2
  <2> HIDE DEF h
  <2>4. After(h, p, events, k + 1)
    BY <2>2, <2>3 DEF After
  <2>5. k + 1 \in 0 .. m
    OBVIOUS
  <2>6. Upto(k + 1)
    BY <2>4
  <2> HIDE DEF Upto
  <2> QED BY <2>5, <2>6
<1> HIDE DEF Holds
<1>3. m \in Holds
  BY <1>1, <1>2, Upward
<1> QED BY <1>3 DEF Holds

(* The events of an answer to a poll, or all there are, given on in order.  *)
LEMMA AllGivenKeeps ==
  ASSUME NEW made \in 0 .. TextSize, NEW phase, NEW log, LogOk(log, made, phase),
         NEW p, PageOk(p, log, made, phase), NEW a \in Nat, a <= p.lastSeq, NEW events, Len(events) \in Nat,
         \A i \in 1 .. Len(events) : a + i <= Len(log) /\ events[i] = log[a + i]
  PROVE  LET q == V!AllGiven(p, events)
         IN  PageOk(q, log, made, phase) /\ p.lastSeq <= q.lastSeq /\ Len(p.text) <= Len(q.text)
<1> DEFINE m == Len(events)
           after == CHOOSE f : After(f, p, events, m)
<1>1. V!AllGiven(p, events) = after[m]
  BY DEF V!AllGiven, After
<1> HIDE DEF m
<1>2. m \in Nat /\ Len(log) \in Nat /\ \A i \in 1 .. m : a + i <= Len(log) /\ events[i] = log[a + i]
  BY DEF m, LogOk
<1>3. After(after, p, events, m)
  <2>1. \E f : After(f, p, events, m)
    BY <1>2, AfterIs
  <2> QED BY <2>1, Zenon
<1> HIDE DEF after
<1>4. after[0] = p /\ \A n \in 1 .. m : after[n] = V!Given(after[n - 1], events[n])
  BY <1>2, <1>3 DEF After
<1> DEFINE Holds == {n \in 0 .. m : /\ PageOk(after[n], log, made, phase) /\ a + n <= after[n].lastSeq
                                    /\ p.lastSeq <= after[n].lastSeq /\ Len(p.text) <= Len(after[n].text)}
<1>5. \A q : PageOk(q, log, made, phase) => q.lastSeq \in Nat /\ Len(q.text) \in Nat
  <2>1. \A q \in Page : q.lastSeq \in Nat /\ Len(q.text) \in Nat
    BY DEF Page
  <2> QED BY <2>1 DEF PageOk, Texts
<1>6. 0 \in Holds
  BY <1>2, <1>4, <1>5
<1>7. \A n \in Holds : n \in 0 .. m - 1 => n + 1 \in Holds
  <2> SUFFICES ASSUME NEW n \in 0 .. m - 1, n \in Holds PROVE n + 1 \in Holds
    OBVIOUS
  <2> DEFINE q == after[n]
             d == events[n + 1]
             r == V!Given(q, d)
  <2>1. n + 1 \in 1 .. m /\ n + 1 - 1 = n /\ n + 1 \in 0 .. m /\ n \in Nat
    BY <1>2
  <2>2. after[n + 1] = r
    BY <1>4, <2>1
  <2>3. /\ PageOk(q, log, made, phase) /\ a + n <= q.lastSeq
        /\ p.lastSeq <= q.lastSeq /\ Len(p.text) <= Len(q.text)
    OBVIOUS
  <2> HIDE DEF q, r
  <2>4. d = log[a + (n + 1)] /\ a + (n + 1) <= Len(log)
    BY <1>2, <2>1
  <2> HIDE DEF d
  <2>5. d.seq = a + (n + 1) /\ d.seq \in 1 .. Len(log)
    BY <1>2, <2>1, <2>4 DEF LogOk
  <2>6. Due(d, q.lastSeq, log, made)
    <3>1. d.seq <= q.lastSeq + 1
      BY <1>5, <2>1, <2>3, <2>5
    <3> QED BY <2>4, <2>5, <3>1 DEF Due
  <2>7. /\ PageOk(r, log, made, phase)
        /\ q.lastSeq <= r.lastSeq /\ d.seq <= r.lastSeq /\ Len(q.text) <= Len(r.text)
    BY <2>3, <2>6, GivenKeeps DEF r
  <2>8. /\ q.lastSeq \in Nat /\ r.lastSeq \in Nat /\ p.lastSeq \in Nat
        /\ Len(q.text) \in Nat /\ Len(r.text) \in Nat /\ Len(p.text) \in Nat
    BY <1>5, <2>3, <2>7
  <2>9. a + (n + 1) <= r.lastSeq /\ p.lastSeq <= r.lastSeq /\ Len(p.text) <= Len(r.text)
    <3>1. a + (n + 1) <= r.lastSeq
      BY <2>5, <2>7
    <3>2. \A x, y, z \in Nat : x <= y /\ y <= z => x <= z
      OBVIOUS
    <3> QED BY <2>3, <2>7, <2>8, <3>1, <3>2
  <2> QED BY <2>1, <2>2, <2>7, <2>9
<1> HIDE DEF Holds
<1>8. m \in Holds
  <2>1. \A n \in 0 .. m : n \in Holds
    BY <1>2, <1>6, <1>7, Upward
  <2> QED BY <1>2, <2>1
<1> QED BY <1>1, <1>8 DEF Holds

-----------------------------------------------------------------------------
(* The answer goes on, and what was right of it stays right.                *)
Forward(made, phase, made2, phase2) ==
  /\ made \in 0 .. TextSize /\ made2 \in 0 .. TextSize /\ made <= made2
  /\ phase # "writes" => made2 = made /\ phase2 # "writes"

Longer(log, log2) ==
  Len(log) <= Len(log2) /\ \A i \in 1 .. Len(log) : log2[i] = log[i]

LEMMA EventsLater ==
  ASSUME NEW made, NEW phase, NEW made2, NEW phase2, Forward(made, phase, made2, phase2), NEW e
  PROVE  /\ Passing(e, made) => Passing(e, made2)
         /\ Lasting(e, made, phase) => Lasting(e, made2, phase2)
<1>1. /\ 0 .. made \subseteq 0 .. made2 /\ 0 .. made - 1 \subseteq 0 .. made2 - 1
  BY ServicesAssumption DEF Forward
<1>2. phase # "writes" => made2 = made /\ phase2 # "writes"
  BY DEF Forward
<1>3. ASSUME Passing(e, made) PROVE Passing(e, made2)
  BY <1>1, <1>3 DEF Passing
<1>4. ASSUME Lasting(e, made, phase) PROVE Lasting(e, made2, phase2)
  BY <1>1, <1>2, <1>4, Zenon DEF Lasting
<1> QED BY <1>3, <1>4

LEMMA LogLater ==
  ASSUME NEW made, NEW phase, NEW made2, NEW phase2, Forward(made, phase, made2, phase2),
         NEW log, LogOk(log, made, phase)
  PROVE  LogOk(log, made2, phase2)
  BY EventsLater DEF LogOk

LEMMA LogMore ==
  ASSUME NEW made, NEW phase, NEW log, LogOk(log, made, phase), NEW e \in Events, Lasting(e, made, phase),
         NEW d, d = [seq |-> Len(log) + 1, event |-> e]
  PROVE  /\ LogOk(Append(log, d), made, phase) /\ Longer(log, Append(log, d))
         /\ Len(Append(log, d)) = Len(log) + 1 /\ Append(log, d)[Len(log) + 1] = d /\ d.seq = Len(log) + 1
<1>1. log \in Seq(Stamped) /\ Len(log) \in Nat
  BY DEF LogOk
<1>2. d \in Stamped /\ d.seq = Len(log) + 1 /\ d.event = e
  BY <1>1 DEF Stamped
<1> DEFINE more == Append(log, d)
<1>3. /\ more \in Seq(Stamped) /\ Len(more) = Len(log) + 1 /\ more[Len(log) + 1] = d
      /\ \A i \in 1 .. Len(log) : more[i] = log[i]
  BY <1>1, <1>2
<1> HIDE DEF more
<1>4. ASSUME NEW i \in 1 .. Len(more) PROVE more[i].seq = i /\ Lasting(more[i].event, made, phase)
  <2>1. CASE i = Len(log) + 1
    BY <1>2, <1>3, <2>1
  <2>2. CASE i \in 1 .. Len(log)
    BY <1>3, <2>2 DEF LogOk
  <2> QED BY <1>1, <1>3, <2>1, <2>2
<1>5. LogOk(more, made, phase) /\ Longer(log, more)
  BY <1>1, <1>3, <1>4 DEF LogOk, Longer
<1> QED BY <1>2, <1>3, <1>5 DEF more

LEMMA PageLater ==
  ASSUME NEW made, NEW phase, NEW made2, NEW phase2, Forward(made, phase, made2, phase2),
         NEW log, LogOk(log, made, phase), NEW log2, Len(log2) \in Nat, Longer(log, log2),
         NEW p, PageOk(p, log, made, phase)
  PROVE  PageOk(p, log2, made2, phase2)
<1>1. 0 .. made \subseteq 0 .. made2 /\ (phase # "writes" => made2 = made /\ phase2 # "writes")
  BY ServicesAssumption DEF Forward
<1>2. Texts(p, made2, phase2)
  BY <1>1, Zenon DEF PageOk, Texts
<1>3. Len(log) \in Nat /\ p \in Page /\ p.lastSeq \in Nat
  BY DEF LogOk, PageOk, Texts, Page
<1>4. PICK m \in p.lastSeq .. Len(log) : p.seen = 1 .. m
  BY DEF PageOk
<1>5. m \in p.lastSeq .. Len(log2) /\ p.lastSeq <= Len(log2)
  BY <1>3 DEF Longer, PageOk
<1>6. \A i \in p.seen : i \in 1 .. Len(log) /\ log2[i] = log[i]
  BY <1>3, <1>4 DEF Longer
<1>7. ASSUME NEW i \in p.seen, Whole(log2[i].event) PROVE p.text = V!Text(made2)
  <2>1. Whole(log[i].event) /\ Lasting(log[i].event, made, phase)
    BY <1>6, <1>7 DEF LogOk
  <2>2. phase # "writes"
    BY <2>1 DEF Whole, Lasting
  <2> QED BY <1>1, <2>1, <2>2 DEF PageOk
<1>8. ~p.running => \E i \in p.seen : log2[i].event.type = "status"
  BY <1>6 DEF PageOk
<1>9. p.given = 1 .. p.lastSeq
  BY DEF PageOk
<1> QED BY <1>2, <1>4, <1>5, <1>7, <1>8, <1>9 DEF PageOk

-----------------------------------------------------------------------------
(* What is under way on the event stream: deltas, and the stored events one *)
(* after another, from one the page is given next up to the last.           *)
InOrder(wire, i, log, last) ==
  /\ wire[i].seq \in 1 .. Len(log) /\ wire[i] = log[wire[i].seq]
  /\ wire[i].seq <= last + 1 \/ \E j \in 1 .. i - 1 : wire[j].seq = wire[i].seq - 1

WireOk(wire, log, last, linked, made) ==
  /\ wire \in Seq(Stamped)
  /\ ~linked => wire = << >>
  /\ \A i \in 1 .. Len(wire) : (wire[i].seq = 0 /\ Passing(wire[i].event, made)) \/ InOrder(wire, i, log, last)
  /\ linked => Len(log) <= last \/ \E j \in 1 .. Len(wire) : wire[j].seq = Len(log)

LEMMA WireNone ==
  ASSUME NEW log, NEW last, NEW made PROVE WireOk(<< >>, log, last, FALSE, made)
  BY DEF WireOk

LEMMA WireLater ==
  ASSUME NEW wire, NEW log, Len(log) \in Nat, NEW last \in Nat, NEW linked, NEW made, WireOk(wire, log, last, linked, made),
         NEW last2 \in Nat, last <= last2, NEW made2, \A e : Passing(e, made) => Passing(e, made2)
  PROVE  WireOk(wire, log, last2, linked, made2)
<1>1. ASSUME NEW i \in 1 .. Len(wire), InOrder(wire, i, log, last) PROVE InOrder(wire, i, log, last2)
  BY <1>1 DEF InOrder
<1>2. linked => Len(log) <= last2 \/ \E j \in 1 .. Len(wire) : wire[j].seq = Len(log)
  BY DEF WireOk
<1> QED BY <1>1, <1>2 DEF WireOk

(* The stream begins with all that is stored.                               *)
LEMMA WireAll ==
  ASSUME NEW made, NEW phase, NEW log, LogOk(log, made, phase), NEW last \in Nat
  PROVE  WireOk(log, log, last, TRUE, made)
<1>1. log \in Seq(Stamped) /\ Len(log) \in Nat /\ \A i \in 1 .. Len(log) : log[i].seq = i
  BY DEF LogOk
<1>2. ASSUME NEW i \in 1 .. Len(log) PROVE InOrder(log, i, log, last)
  <2>1. CASE i = 1
    BY <1>1, <2>1 DEF InOrder
  <2>2. CASE i - 1 \in 1 .. i - 1
    <3>1. i - 1 \in 1 .. Len(log) /\ log[i - 1].seq = i - 1 /\ log[i].seq = i
      BY <1>1, <2>2
    <3> QED BY <2>2, <3>1 DEF InOrder
  <2> QED BY <1>1, <2>1, <2>2
<1>3. Len(log) <= last \/ \E j \in 1 .. Len(log) : log[j].seq = Len(log)
  BY <1>1
<1> QED BY <1>1, <1>2, <1>3 DEF WireOk

(* What is sent on it comes behind the rest.                                *)
LEMMA WirePass ==
  ASSUME NEW wire, NEW log, NEW last, NEW made, WireOk(wire, log, last, TRUE, made),
         NEW d \in Stamped, d.seq = 0, Passing(d.event, made)
  PROVE  WireOk(Append(wire, d), log, last, TRUE, made)
<1> DEFINE more == Append(wire, d)
<1>1. wire \in Seq(Stamped) /\ Len(wire) \in Nat
  BY DEF WireOk
<1>2. /\ more \in Seq(Stamped) /\ Len(more) = Len(wire) + 1 /\ more[Len(wire) + 1] = d
      /\ \A i \in 1 .. Len(wire) : more[i] = wire[i]
  BY <1>1
<1> HIDE DEF more
<1>3. ASSUME NEW i \in 1 .. Len(more)
      PROVE  (more[i].seq = 0 /\ Passing(more[i].event, made)) \/ InOrder(more, i, log, last)
  <2>1. CASE i = Len(wire) + 1
    BY <1>2, <2>1
  <2>2. CASE i \in 1 .. Len(wire)
    <3>1. more[i] = wire[i] /\ \A j \in 1 .. i - 1 : more[j] = wire[j]
      BY <1>1, <1>2, <2>2
    <3>2. InOrder(wire, i, log, last) => InOrder(more, i, log, last)
      BY <3>1 DEF InOrder
    <3> QED BY <2>2, <3>1, <3>2 DEF WireOk
  <2> QED BY <1>1, <1>2, <2>1, <2>2
<1>4. Len(log) <= last \/ \E j \in 1 .. Len(more) : more[j].seq = Len(log)
  <2>1. \A j \in 1 .. Len(wire) : j \in 1 .. Len(more) /\ more[j] = wire[j]
    BY <1>1, <1>2
  <2> QED BY <2>1 DEF WireOk
<1>5. WireOk(more, log, last, TRUE, made)
  BY <1>2, <1>3, <1>4 DEF WireOk
<1> QED BY <1>5 DEF more

LEMMA WireMore ==
  ASSUME NEW made, NEW phase, NEW log, LogOk(log, made, phase), NEW e \in Events, Lasting(e, made, phase),
         NEW d, d = [seq |-> Len(log) + 1, event |-> e],
         NEW wire, NEW last \in Nat, last <= Len(log), NEW linked \in BOOLEAN, WireOk(wire, log, last, linked, made)
  PROVE  WireOk(IF linked THEN Append(wire, d) ELSE wire, Append(log, d), last, linked, made)
<1> DEFINE more == Append(wire, d)
           log2 == Append(log, d)
<1>1. wire \in Seq(Stamped) /\ Len(wire) \in Nat /\ Len(log) \in Nat /\ d \in Stamped
  BY DEF WireOk, LogOk, Stamped
<1>2. /\ more \in Seq(Stamped) /\ Len(more) = Len(wire) + 1 /\ more[Len(wire) + 1] = d
      /\ \A i \in 1 .. Len(wire) : more[i] = wire[i]
  BY <1>1
<1>3. /\ Len(log2) = Len(log) + 1 /\ log2[Len(log) + 1] = d /\ d.seq = Len(log) + 1
      /\ \A i \in 1 .. Len(log) : log2[i] = log[i]
  BY LogMore DEF Longer
<1> HIDE DEF more, log2
<1>4. CASE linked = FALSE
  BY <1>4 DEF WireOk, log2
<1>5. CASE linked = TRUE
  <2>1. Len(log) <= last \/ \E j \in 1 .. Len(wire) : wire[j].seq = Len(log)
    BY <1>5 DEF WireOk
  <2>2. ASSUME NEW i \in 1 .. Len(more)
        PROVE  (more[i].seq = 0 /\ Passing(more[i].event, made)) \/ InOrder(more, i, log2, last)
    <3>1. CASE i = Len(wire) + 1
      <4>1. more[i] = d /\ d.seq \in 1 .. Len(log2) /\ d = log2[d.seq] /\ d.seq - 1 = Len(log)
        BY <1>1, <1>2, <1>3, <3>1
      <4>2. d.seq <= last + 1 \/ \E j \in 1 .. i - 1 : more[j].seq = d.seq - 1
        <5>1. CASE Len(log) <= last
          BY <1>1, <1>3, <5>1
        <5>2. ASSUME NEW j \in 1 .. Len(wire), wire[j].seq = Len(log) PROVE j \in 1 .. i - 1 /\ more[j].seq = d.seq - 1
          BY <1>1, <1>2, <3>1, <4>1, <5>2
        <5> QED BY <2>1, <5>1, <5>2
      <4> QED BY <4>1, <4>2 DEF InOrder
    <3>2. CASE i \in 1 .. Len(wire)
      <4>1. more[i] = wire[i] /\ \A j \in 1 .. i - 1 : more[j] = wire[j]
        BY <1>1, <1>2, <3>2
      <4>2. ASSUME InOrder(wire, i, log, last) PROVE InOrder(more, i, log2, last)
        <5>1. wire[i].seq \in 1 .. Len(log2) /\ wire[i] = log2[wire[i].seq]
          BY <1>1, <1>3, <4>2 DEF InOrder
        <5> QED BY <4>1, <4>2, <5>1 DEF InOrder
      <4> QED BY <3>2, <4>1, <4>2 DEF WireOk
    <3> QED BY <1>1, <1>2, <3>1, <3>2
  <2>3. Len(wire) + 1 \in 1 .. Len(more) /\ more[Len(wire) + 1].seq = Len(log2)
    BY <1>1, <1>2, <1>3
  <2>4. WireOk(more, log2, last, TRUE, made)
    BY <1>2, <2>2, <2>3 DEF WireOk
  <2> QED BY <1>5, <2>4 DEF more, log2
<1> QED BY <1>4, <1>5

(* What comes first is due, and then the rest is in order behind it.        *)
LEMMA WireRest ==
  ASSUME NEW wire, NEW log, NEW last \in Nat, NEW made, WireOk(wire, log, last, TRUE, made), wire # << >>,
         Len(log) \in Nat, NEW last2 \in Nat, last <= last2, Head(wire).seq <= last2
  PROVE  WireOk(Tail(wire), log, last2, TRUE, made)
<1> DEFINE rest == Tail(wire)
<1>1. /\ wire \in Seq(Stamped) /\ Len(wire) \in Nat /\ Len(wire) > 0
      /\ rest \in Seq(Stamped) /\ Len(rest) = Len(wire) - 1 /\ Head(wire) = wire[1]
      /\ \A i \in 1 .. Len(rest) : rest[i] = wire[i + 1]
  BY HeadTailProperties DEF WireOk
<1> HIDE DEF rest
<1>0. wire[1].seq \in Nat /\ wire[1].seq <= last2
  <2>1. wire[1] \in Stamped
    BY <1>1
  <2>2. \A d \in Stamped : d.seq \in Nat
    BY DEF Stamped
  <2> QED BY <1>1, <2>1, <2>2
<1>2. ASSUME NEW i \in 1 .. Len(rest), InOrder(wire, i + 1, log, last) PROVE InOrder(rest, i, log, last2)
  <2>1. rest[i] = wire[i + 1] /\ rest[i].seq \in 1 .. Len(log) /\ rest[i] = log[rest[i].seq]
    BY <1>1, <1>2 DEF InOrder
  <2>2. rest[i].seq <= last2 + 1 \/ \E j \in 1 .. i - 1 : rest[j].seq = rest[i].seq - 1
    <3>1. CASE rest[i].seq <= last + 1
      BY <2>1, <3>1
    <3>2. ASSUME NEW j \in 1 .. i + 1 - 1, wire[j].seq = rest[i].seq - 1
          PROVE  rest[i].seq <= last2 + 1 \/ \E x \in 1 .. i - 1 : rest[x].seq = rest[i].seq - 1
      <4>1. CASE j = 1
        BY <1>0, <2>1, <3>2, <4>1
      <4>2. CASE j # 1
        <5>1. j - 1 \in 1 .. i - 1 /\ rest[j - 1] = wire[j]
          BY <1>1, <3>2, <4>2
        <5> QED BY <3>2, <5>1
      <4> QED BY <4>1, <4>2
    <3> QED BY <1>2, <2>1, <3>1, <3>2 DEF InOrder
  <2> QED BY <2>1, <2>2 DEF InOrder
<1>3. ASSUME NEW i \in 1 .. Len(rest)
      PROVE  (rest[i].seq = 0 /\ Passing(rest[i].event, made)) \/ InOrder(rest, i, log, last2)
  <2>1. i + 1 \in 1 .. Len(wire) /\ rest[i] = wire[i + 1]
    BY <1>1
  <2> QED BY <1>2, <2>1 DEF WireOk
<1>4. Len(log) <= last2 \/ \E j \in 1 .. Len(rest) : rest[j].seq = Len(log)
  <2>1. CASE Len(log) <= last
    BY <2>1
  <2>2. ASSUME NEW j \in 1 .. Len(wire), wire[j].seq = Len(log)
        PROVE  Len(log) <= last2 \/ \E x \in 1 .. Len(rest) : rest[x].seq = Len(log)
    <3>1. CASE j = 1
      BY <1>0, <2>2, <3>1
    <3>2. CASE j # 1
      <4>1. j - 1 \in 1 .. Len(rest) /\ rest[j - 1] = wire[j]
        BY <1>1, <2>2, <3>2
      <4> QED BY <2>2, <4>1
    <3> QED BY <3>1, <3>2
  <2> QED BY <2>1, <2>2 DEF WireOk
<1>5. WireOk(rest, log, last2, TRUE, made)
  BY <1>1, <1>3, <1>4 DEF WireOk
<1> QED BY <1>5 DEF rest

LEMMA WireDue ==
  ASSUME NEW wire, NEW log, NEW last, NEW made, NEW linked, WireOk(wire, log, last, linked, made), wire # << >>
  PROVE  Due(Head(wire), last, log, made)
<1>1. wire \in Seq(Stamped) /\ 1 \in 1 .. Len(wire) /\ Head(wire) = wire[1]
  BY DEF WireOk
<1>2. ~ \E j \in 1 .. 1 - 1 : TRUE
  OBVIOUS
<1> QED BY <1>1, <1>2 DEF WireOk, InOrder, Due

(* The answer to a poll is what was stored after an event the page has.     *)
PollOk(poll, log, last) ==
  \/ poll = V!Idle
  \/ /\ poll.at = "answered" /\ Len(poll.events) \in Nat
     /\ \E a \in 0 .. last : \A i \in 1 .. Len(poll.events) : a + i <= Len(log) /\ poll.events[i] = log[a + i]

LEMMA PollLater ==
  ASSUME NEW poll, NEW log, NEW last \in Nat, PollOk(poll, log, last), Len(log) \in Nat,
         NEW log2, Len(log2) \in Nat, Longer(log, log2), NEW last2 \in Nat, last <= last2
  PROVE  PollOk(poll, log2, last2)
<1>1. CASE poll = V!Idle
  BY <1>1 DEF PollOk
<1>2. CASE poll.at = "answered" /\ Len(poll.events) \in Nat
  <2>1. ASSUME NEW a \in 0 .. last, \A i \in 1 .. Len(poll.events) : a + i <= Len(log) /\ poll.events[i] = log[a + i]
        PROVE  a \in 0 .. last2 /\ \A i \in 1 .. Len(poll.events) : a + i <= Len(log2) /\ poll.events[i] = log2[a + i]
    <3>1. a \in 0 .. last2 /\ a \in Nat
      BY <2>1
    <3>2. ASSUME NEW i \in 1 .. Len(poll.events) PROVE a + i <= Len(log2) /\ poll.events[i] = log2[a + i]
      <4>1. a + i \in 1 .. Len(log) /\ poll.events[i] = log[a + i]
        BY <1>2, <2>1, <3>1
      <4> QED BY <4>1 DEF Longer
    <3> QED BY <3>1, <3>2
  <2> QED BY <1>2, <2>1 DEF PollOk
<1> QED BY <1>1, <1>2 DEF PollOk

(* The server tells all that was made, then the end, and nothing after it.  *)
ChainOk(chain, made, phase) ==
  /\ chain \in Seq(Events)
  /\ \A i \in 1 .. Len(chain) :
       Passing(chain[i], made) \/ (Lasting(chain[i], made, phase) /\ chain[i].type # "status")

AnswerInv ==
  /\ pageMade \in 0 .. TextSize /\ pagePhase \in {"writes", "ended", "closed"} /\ pageHeld \in BOOLEAN
  /\ pagePhase # "writes" => pageTimer = FALSE
  /\ pageStatus \in {"RUNNING", "OVER", "CANCELLED"}
  /\ ChainOk(pageChain, pageMade, pagePhase) /\ LogOk(pageLog, pageMade, pagePhase)
  /\ pagePhase = "writes" /\ pageMade > 0 => pageHeld
  /\ pagePhase # "writes" /\ pageMade > 0 =>
       \/ \E i \in 1 .. Len(pageChain) : Whole(pageChain[i])
       \/ \E i \in 1 .. Len(pageLog) : Whole(pageLog[i].event)
  /\ \A i \in 1 .. Len(pageLog) :
       pageLog[i].event.type = "status" => pageStatus # "RUNNING" /\ (pageStatus = "OVER" => i = Len(pageLog))
  /\ pageStatus = "OVER" => pageChain = << >> /\ pagePhase = "closed"

ReaderInv ==
  /\ pageLinked \in BOOLEAN
  /\ PageOk(pagePage, pageLog, pageMade, pagePhase)
  /\ WireOk(pageWire, pageLog, pagePage.lastSeq, pageLinked, pageMade)
  /\ PollOk(pagePoll, pageLog, pagePage.lastSeq)

PageInv == AnswerInv /\ ReaderInv

LEMMA ReaderLasts == ReaderInv => pagePage.lastSeq \in Nat /\ pagePage.lastSeq <= Len(pageLog) /\ Len(pagePage.text) \in Nat
<1>1. \A p \in Page : p.lastSeq \in Nat /\ Len(p.text) \in Nat
  BY DEF Page
<1> QED BY <1>1 DEF ReaderInv, PageOk, Texts

LEMMA TextNone == V!Text(0) = << >>
  BY SubSeqEmpty DEF V!Text

LEMMA PageFresh ==
  ASSUME NEW made \in 0 .. TextSize, NEW phase, NEW log, LogOk(log, made, phase)
  PROVE  PageOk(V!Fresh, log, made, phase) /\ V!Fresh.lastSeq = 0
<1>1. made \in Nat /\ Len(log) \in Nat
  BY ServicesAssumption DEF LogOk
<1>2. V!Fresh \in Page
  BY DEF V!Fresh, Page
<1>3. V!Fresh.text = V!Text(0) /\ V!Fresh.final = FALSE /\ V!Fresh.running = TRUE
      /\ V!Fresh.given = {} /\ V!Fresh.lastSeq = 0 /\ V!Fresh.seen = {}
  BY TextNone DEF V!Fresh
<1>4. 1 .. 0 = {} /\ 0 \in 0 .. made /\ 0 \in 0 .. Len(log)
  BY <1>1
<1> HIDE DEF V!Fresh
<1>5. Texts(V!Fresh, made, phase)
  BY <1>2, <1>3, <1>4 DEF Texts
<1> QED BY <1>1, <1>3, <1>4, <1>5 DEF PageOk

LEMMA PageInit == V!Init => PageInv
<1> SUFFICES ASSUME V!Init PROVE PageInv
  OBVIOUS
<1>1. 0 \in 0 .. TextSize
  BY ServicesAssumption
<1>2. /\ pageMade = 0 /\ pagePhase = "writes" /\ pageHeld = FALSE /\ pageTimer = FALSE
      /\ pageChain = << >> /\ pageLog = << >> /\ pageStatus = "RUNNING"
      /\ pageLinked = FALSE /\ pageWire = << >> /\ pagePoll = V!Idle /\ pagePage = V!Fresh
  BY DEF V!Init
<1>3. Len(<< >>) = 0 /\ << >> \in Seq(Events) /\ << >> \in Seq(Stamped)
  OBVIOUS
<1>4. LogOk(<< >>, 0, "writes") /\ ChainOk(<< >>, 0, "writes")
  BY <1>3 DEF LogOk, ChainOk
<1>5. AnswerInv
  <2>1. /\ Len(pageLog) = 0 /\ pageMade \in 0 .. TextSize /\ ~(pageMade > 0)
        /\ ChainOk(pageChain, pageMade, pagePhase) /\ LogOk(pageLog, pageMade, pagePhase)
    BY <1>1, <1>2, <1>3, <1>4
  <2>2. \A i \in 1 .. Len(pageLog) : FALSE
    BY <2>1
  <2> QED BY <1>2, <2>1, <2>2 DEF AnswerInv
<1>6. PageOk(pagePage, pageLog, pageMade, pagePhase)
  BY <1>1, <1>2, <1>4, PageFresh
<1>7. ReaderInv
  BY <1>2, <1>6, WireNone DEF ReaderInv, PollOk
<1> QED BY <1>5, <1>7 DEF PageInv

LEMMA PageInvSafe == PageInv => V!Safe
<1> SUFFICES ASSUME PageInv PROVE V!Safe
  OBVIOUS
<1> DEFINE p == pagePage
<1>0. /\ pageMade \in 0 .. TextSize /\ pageMade \in Nat /\ TextSize \in Nat /\ Len(pageLog) \in Nat
      /\ PageOk(p, pageLog, pageMade, pagePhase)
  BY ServicesAssumption DEF PageInv, AnswerInv, ReaderInv, LogOk
<1>1. PICK k \in 0 .. pageMade : p.text = V!Text(k)
  BY <1>0 DEF PageOk, Texts
<1>2. Len(V!Text(k)) = k
  BY <1>0, TextIs
<1>3. V!BeginningOfAnswer
  BY <1>0, <1>1, <1>2 DEF V!BeginningOfAnswer
<1>4. V!NothingSkipped
  BY <1>0 DEF V!NothingSkipped, PageOk
<1>5. ASSUME ~p.running, pageStatus # "CANCELLED" PROVE p.text = V!Text(pageMade)
  <2>1. PICK m \in p.lastSeq .. Len(pageLog) : p.seen = 1 .. m
    BY <1>0 DEF PageOk
  <2>2. PICK i \in p.seen : pageLog[i].event.type = "status"
    BY <1>0, <1>5 DEF PageOk
  <2>3. p.lastSeq \in Nat
    BY ReaderLasts DEF PageInv
  <2>4. i \in 1 .. m /\ i \in 1 .. Len(pageLog)
    BY <1>0, <2>1, <2>2, <2>3
  <2>5. pageStatus = "OVER" /\ i = Len(pageLog)
    BY <1>5, <2>2, <2>4 DEF PageInv, AnswerInv
  <2>6. m = Len(pageLog)
    BY <1>0, <2>1, <2>3, <2>4, <2>5
  <2>7. CASE pageMade = 0
    BY <1>1, <2>7
  <2>8. CASE pageMade > 0
    <3>1. Len(pageChain) = 0 /\ pagePhase # "writes"
      BY <2>5 DEF PageInv, AnswerInv
    <3>2. PICK j \in 1 .. Len(pageLog) : Whole(pageLog[j].event)
      BY <2>8, <3>1 DEF PageInv, AnswerInv
    <3> QED BY <1>0, <2>1, <2>6, <3>2 DEF PageOk
  <2> QED BY <1>0, <2>7, <2>8
<1>6. V!WholeAtEnd
  BY <1>5 DEF V!WholeAtEnd
<1> QED BY <1>3, <1>4, <1>6 DEF V!Safe

(* The page alone moves: what it is told is in order, so its place in the   *)
(* stored events and its text only go forward.                              *)
LEMMA ReaderMoves ==
  ASSUME PageInv, UNCHANGED <<pageMade, pagePhase, pageHeld, pageTimer, pageChain, pageLog, pageStatus>>, ReaderInv'
  PROVE  PageInv'
  BY DEF PageInv, AnswerInv

LEMMA PageConnects == ASSUME PageInv, V!Connect PROVE PageInv' /\ V!KeepsText
<1>1. /\ pageLinked' = TRUE /\ pageWire' = pageLog /\ pagePage' = pagePage /\ pagePoll' = pagePoll
      /\ UNCHANGED <<pageMade, pagePhase, pageHeld, pageTimer, pageChain, pageLog, pageStatus>>
  BY DEF V!Connect, V!model
<1>2. LogOk(pageLog, pageMade, pagePhase) /\ pagePage.lastSeq \in Nat /\ Len(pagePage.text) \in Nat
  BY ReaderLasts DEF PageInv, AnswerInv
<1>3. WireOk(pageWire', pageLog, pagePage.lastSeq, pageLinked', pageMade)
  BY <1>1, <1>2, WireAll
<1>4. ReaderInv'
  BY <1>1, <1>3 DEF PageInv, ReaderInv
<1>5. V!KeepsText
  BY <1>1, <1>2 DEF V!KeepsText
<1> QED BY <1>1, <1>4, <1>5, ReaderMoves

LEMMA PageCut == ASSUME PageInv, V!Break \/ V!Ask \/ V!Fail PROVE PageInv' /\ V!KeepsText
<1>1. /\ pagePage' = pagePage
      /\ UNCHANGED <<pageMade, pagePhase, pageHeld, pageTimer, pageChain, pageLog, pageStatus>>
  BY DEF V!Break, V!Ask, V!Fail, V!model
<1>2. /\ pageLog \in Seq(Stamped) /\ Len(pageLog) \in Nat
      /\ pagePage.lastSeq \in Nat /\ pagePage.lastSeq <= Len(pageLog) /\ Len(pagePage.text) \in Nat
  BY ReaderLasts DEF PageInv, AnswerInv, LogOk
<1>3. CASE V!Break
  <2>1. pageLinked' = FALSE /\ pageWire' = << >> /\ pagePoll' = pagePoll
    BY <1>3 DEF V!Break
  <2>2. WireOk(pageWire', pageLog, pagePage.lastSeq, pageLinked', pageMade)
    BY <2>1, WireNone
  <2>3. ReaderInv'
    BY <1>1, <2>1, <2>2 DEF PageInv, ReaderInv
  <2> QED BY <1>1, <1>2, <2>3, ReaderMoves DEF V!KeepsText
<1>4. CASE V!Ask
  <2> DEFINE last == pagePage.lastSeq
             events == SubSeq(pageLog, last + 1, Len(pageLog))
  <2>1. /\ pagePoll' = [at |-> "answered", events |-> events]
        /\ pageLinked' = pageLinked /\ pageWire' = pageWire
    BY <1>4 DEF V!Ask
  <2>2. last + 1 \in Int /\ Len(pageLog) \in Int /\ \A i \in last + 1 .. Len(pageLog) : pageLog[i] \in Stamped
    BY <1>2
  <2>3. /\ Len(events) = IF last + 1 <= Len(pageLog) THEN Len(pageLog) - (last + 1) + 1 ELSE 0
        /\ \A i \in 1 .. Len(pageLog) - (last + 1) + 1 : events[i] = pageLog[last + 1 + i - 1]
    BY <2>2, SubSeqProperties
  <2> HIDE DEF events, last
  <2>4. last \in Nat /\ last <= Len(pageLog)
    BY <1>2 DEF last
  <2>5. Len(events) = Len(pageLog) - last
    BY <1>2, <2>3, <2>4
  <2>6. \A i \in 1 .. Len(events) : last + i <= Len(pageLog) /\ events[i] = pageLog[last + i]
    <3> SUFFICES ASSUME NEW i \in 1 .. Len(events) PROVE last + i <= Len(pageLog) /\ events[i] = pageLog[last + i]
      OBVIOUS
    <3>1. i \in 1 .. Len(pageLog) - (last + 1) + 1 /\ last + 1 + i - 1 = last + i /\ last + i <= Len(pageLog)
      BY <1>2, <2>4, <2>5
    <3> QED BY <2>3, <3>1
  <2>7. pagePoll'.at = "answered" /\ pagePoll'.events = events /\ Len(events) \in Nat /\ last \in 0 .. last
    BY <1>2, <2>1, <2>4, <2>5
  <2>8. PollOk(pagePoll', pageLog, last)
    BY <2>6, <2>7 DEF PollOk
  <2>9. ReaderInv'
    BY <1>1, <2>1, <2>8 DEF PageInv, ReaderInv, last
  <2> QED BY <1>1, <1>2, <2>9, ReaderMoves DEF V!KeepsText
<1>5. CASE V!Fail
  <2>1. pagePoll' = V!Idle /\ pageLinked' = pageLinked /\ pageWire' = pageWire
    BY <1>5 DEF V!Fail
  <2>2. ReaderInv'
    BY <1>1, <2>1 DEF PageInv, ReaderInv, PollOk
  <2> QED BY <1>1, <1>2, <2>2, ReaderMoves DEF V!KeepsText
<1> QED BY <1>3, <1>4, <1>5

(* What the page becomes, with what is on the wire and asked for then.      *)
LEMMA PageShows ==
  ASSUME PageInv, UNCHANGED <<pageMade, pagePhase, pageHeld, pageTimer, pageChain, pageLog, pageStatus>>,
         PageOk(pagePage', pageLog, pageMade, pagePhase),
         pagePage.lastSeq <= pagePage'.lastSeq, Len(pagePage.text) <= Len(pagePage'.text),
         pageLinked' = (pageLinked /\ pagePage'.running),
         pageLinked' => WireOk(pageWire', pageLog, pagePage'.lastSeq, TRUE, pageMade),
         ~pageLinked' => pageWire' = << >>,
         pagePoll' = pagePoll \/ pagePoll' = V!Idle
  PROVE  PageInv' /\ V!KeepsText
<1>1. \A p \in Page : p.lastSeq \in Nat /\ Len(p.text) \in Nat /\ p.running \in BOOLEAN
  BY DEF Page
<1>2. /\ pagePage'.lastSeq \in Nat /\ Len(pagePage'.text) \in Nat /\ pagePage'.running \in BOOLEAN
      /\ pagePage.lastSeq \in Nat /\ Len(pagePage.text) \in Nat /\ pageLinked \in BOOLEAN /\ Len(pageLog) \in Nat
  <2>1. pagePage' \in Page /\ pagePage \in Page
    BY DEF PageInv, ReaderInv, PageOk, Texts
  <2> QED BY <1>1, <2>1 DEF PageInv, ReaderInv, AnswerInv, LogOk
<1>3. pageLinked' \in BOOLEAN
  BY <1>2
<1>4. WireOk(pageWire', pageLog, pagePage'.lastSeq, pageLinked', pageMade)
  <2>1. CASE pageLinked' = TRUE
    BY <2>1
  <2>2. CASE pageLinked' = FALSE
    BY <2>2, WireNone
  <2> QED BY <1>3, <2>1, <2>2
<1>5. PollOk(pagePoll', pageLog, pagePage'.lastSeq)
  <2>1. CASE pagePoll' = V!Idle
    BY <2>1 DEF PollOk
  <2>2. CASE pagePoll' = pagePoll
    <3>1. Longer(pageLog, pageLog)
      BY <1>2 DEF Longer
    <3>2. PollOk(pagePoll, pageLog, pagePage.lastSeq)
      BY DEF PageInv, ReaderInv
    <3> QED BY <1>2, <2>2, <3>1, <3>2, PollLater
  <2> QED BY <2>1, <2>2
<1>6. ReaderInv'
  BY <1>3, <1>4, <1>5 DEF ReaderInv
<1>7. V!KeepsText
  BY <1>2 DEF V!KeepsText
<1> QED BY <1>6, <1>7, ReaderMoves

LEMMA PageReceives == ASSUME PageInv, V!Receive PROVE PageInv' /\ V!KeepsText
<1>1. /\ pageLinked /\ pageWire # << >>
      /\ pagePage' = V!Given(pagePage, Head(pageWire)) /\ pageLinked' = (pageLinked /\ pagePage'.running)
      /\ pageWire' = IF pageLinked' THEN Tail(pageWire) ELSE << >>
      /\ pagePoll' = pagePoll \/ pagePoll' = V!Idle
      /\ UNCHANGED <<pageMade, pagePhase, pageHeld, pageTimer, pageChain, pageLog, pageStatus>>
  BY DEF V!Receive, V!Shows, V!model
<1>2. /\ pageMade \in 0 .. TextSize /\ LogOk(pageLog, pageMade, pagePhase) /\ Len(pageLog) \in Nat
      /\ PageOk(pagePage, pageLog, pageMade, pagePhase)
      /\ WireOk(pageWire, pageLog, pagePage.lastSeq, pageLinked, pageMade) /\ pageLinked \in BOOLEAN
  BY DEF PageInv, AnswerInv, ReaderInv, LogOk
<1>3. Due(Head(pageWire), pagePage.lastSeq, pageLog, pageMade)
  BY <1>1, <1>2, WireDue
<1>4. /\ PageOk(pagePage', pageLog, pageMade, pagePhase)
      /\ pagePage.lastSeq <= pagePage'.lastSeq /\ Head(pageWire).seq <= pagePage'.lastSeq
      /\ Len(pagePage.text) <= Len(pagePage'.text)
  BY <1>1, <1>2, <1>3, GivenKeeps
<1>5. pagePage.lastSeq \in Nat /\ pagePage'.lastSeq \in Nat
  <2>1. \A p \in Page : p.lastSeq \in Nat
    BY DEF Page
  <2> QED BY <1>2, <1>4, <2>1 DEF PageOk, Texts
<1>6. WireOk(Tail(pageWire), pageLog, pagePage'.lastSeq, TRUE, pageMade)
  <2>1. pageLinked = TRUE
    BY <1>1, <1>2
  <2>2. WireOk(pageWire, pageLog, pagePage.lastSeq, TRUE, pageMade)
    BY <1>2, <2>1
  <2> QED BY <1>1, <1>2, <1>4, <1>5, <2>2, WireRest
<1>7. /\ pageLinked' => WireOk(pageWire', pageLog, pagePage'.lastSeq, TRUE, pageMade)
      /\ ~pageLinked' => pageWire' = << >>
  BY <1>1, <1>6
<1> QED BY <1>1, <1>4, <1>7, PageShows

LEMMA PageGets == ASSUME PageInv, V!Got PROVE PageInv' /\ V!KeepsText
<1>1. /\ pagePoll.at = "answered"
      /\ pagePage' = V!AllGiven(pagePage, pagePoll.events) /\ pageLinked' = (pageLinked /\ pagePage'.running)
      /\ pageWire' = IF pageLinked' THEN pageWire ELSE << >>
      /\ pagePoll' = V!Idle
      /\ UNCHANGED <<pageMade, pagePhase, pageHeld, pageTimer, pageChain, pageLog, pageStatus>>
  BY DEF V!Got, V!Shows, V!model
<1>2. /\ pageMade \in 0 .. TextSize /\ LogOk(pageLog, pageMade, pagePhase) /\ Len(pageLog) \in Nat
      /\ PageOk(pagePage, pageLog, pageMade, pagePhase)
      /\ WireOk(pageWire, pageLog, pagePage.lastSeq, pageLinked, pageMade) /\ pageLinked \in BOOLEAN
      /\ PollOk(pagePoll, pageLog, pagePage.lastSeq) /\ pagePage.lastSeq \in Nat
  BY ReaderLasts DEF PageInv, AnswerInv, ReaderInv, LogOk
<1> DEFINE events == pagePoll.events
<1>3. Len(events) \in Nat /\ \E a \in 0 .. pagePage.lastSeq :
        \A i \in 1 .. Len(events) : a + i <= Len(pageLog) /\ events[i] = pageLog[a + i]
  <2>1. V!Idle.at = "idle"
    BY DEF V!Idle
  <2>2. pagePoll # V!Idle
    BY <1>1, <2>1
  <2> QED BY <1>2, <2>2 DEF PollOk
<1>4. PICK a \in 0 .. pagePage.lastSeq :
        \A i \in 1 .. Len(events) : a + i <= Len(pageLog) /\ events[i] = pageLog[a + i]
  BY <1>3
<1> HIDE DEF events
<1>5. /\ PageOk(pagePage', pageLog, pageMade, pagePhase)
      /\ pagePage.lastSeq <= pagePage'.lastSeq /\ Len(pagePage.text) <= Len(pagePage'.text)
  <2>1. a \in Nat /\ a <= pagePage.lastSeq /\ Len(events) \in Nat
    BY <1>2, <1>3
  <2>2. pagePage' = V!AllGiven(pagePage, events)
    BY <1>1 DEF events
  <2> QED BY <1>2, <1>4, <2>1, <2>2, AllGivenKeeps
<1>6. pagePage'.lastSeq \in Nat
  <2>1. \A p \in Page : p.lastSeq \in Nat
    BY DEF Page
  <2> QED BY <1>5, <2>1 DEF PageOk, Texts
<1>7. /\ pageLinked' => WireOk(pageWire', pageLog, pagePage'.lastSeq, TRUE, pageMade)
      /\ ~pageLinked' => pageWire' = << >>
  <2>1. CASE pageLinked'
    <3>1. pageLinked = TRUE /\ pageWire' = pageWire
      BY <1>1, <1>2, <2>1
    <3>2. WireOk(pageWire, pageLog, pagePage.lastSeq, TRUE, pageMade)
      BY <1>2, <3>1
    <3>3. WireOk(pageWire, pageLog, pagePage'.lastSeq, TRUE, pageMade)
      BY <1>2, <1>5, <1>6, <3>2, WireLater
    <3> QED BY <2>1, <3>1, <3>3
  <2>2. CASE ~pageLinked'
    BY <1>1, <2>2
  <2> QED BY <2>1, <2>2
<1> QED BY <1>1, <1>5, <1>7, PageShows

LEMMA PageReloads == ASSUME PageInv, V!Reload PROVE PageInv' /\ V!KeepsText
<1> DEFINE q == V!AllGiven(V!Fresh, pageLog)
<1>1. /\ pagePage' = [q EXCEPT !.given = {}, !.lastSeq = 0]
      /\ pageLinked' = FALSE /\ pageWire' = << >> /\ pagePoll' = V!Idle
      /\ UNCHANGED <<pageMade, pagePhase, pageHeld, pageTimer, pageChain, pageLog, pageStatus>>
  BY DEF V!Reload, V!model
<1>2. pageMade \in 0 .. TextSize /\ LogOk(pageLog, pageMade, pagePhase) /\ Len(pageLog) \in Nat
  BY DEF PageInv, AnswerInv, LogOk
<1>3. PageOk(V!Fresh, pageLog, pageMade, pagePhase) /\ V!Fresh.lastSeq = 0
  BY <1>2, PageFresh
<1>4. PageOk(q, pageLog, pageMade, pagePhase)
  <2>1. 0 \in Nat /\ 0 <= V!Fresh.lastSeq /\ \A i \in 1 .. Len(pageLog) : 0 + i <= Len(pageLog) /\ pageLog[i] = pageLog[0 + i]
    BY <1>2, <1>3
  <2> QED BY <1>2, <1>3, <2>1, AllGivenKeeps
<1> HIDE DEF q
<1>5. q \in Page /\ q.lastSeq \in Nat
  BY <1>4 DEF PageOk, Texts, Page
<1> DEFINE p == [q EXCEPT !.given = {}, !.lastSeq = 0]
<1>6. /\ p \in Page /\ p.given = {} /\ p.lastSeq = 0 /\ p.seen = q.seen
      /\ p.text = q.text /\ p.final = q.final /\ p.running = q.running
  BY <1>5 DEF Page
<1> HIDE DEF p
<1>7. PageOk(p, pageLog, pageMade, pagePhase)
  <2>1. PICK m \in q.lastSeq .. Len(pageLog) : q.seen = 1 .. m
    BY <1>4 DEF PageOk
  <2>2. m \in 0 .. Len(pageLog) /\ 1 .. 0 = {} /\ 0 <= Len(pageLog)
    BY <1>2, <1>5
  <2>3. Texts(p, pageMade, pagePhase)
    BY <1>4, <1>6 DEF PageOk, Texts
  <2> QED BY <1>4, <1>6, <2>1, <2>2, <2>3 DEF PageOk
<1>8. WireOk(pageWire', pageLog, 0, pageLinked', pageMade)
  BY <1>1, WireNone
<1>9. ReaderInv'
  BY <1>1, <1>6, <1>7, <1>8 DEF ReaderInv, PollOk, p
<1> QED BY <1>1, <1>9, ReaderMoves DEF V!KeepsText

(* The model writes, or stops writing: what is to be published is longer.   *)
LEMMA ChainMore ==
  ASSUME PageInv, NEW more \in Seq(Events), pageChain' = pageChain \o more,
         Forward(pageMade, pagePhase, pageMade', pagePhase'), pageStatus # "OVER",
         \A i \in 1 .. Len(more) :
           Passing(more[i], pageMade') \/ (Lasting(more[i], pageMade', pagePhase') /\ more[i].type # "status"),
         pagePhase' \in {"writes", "ended", "closed"}, pageHeld' \in BOOLEAN, pagePhase' # "writes" => pageTimer' = FALSE,
         pagePhase' = "writes" /\ pageMade' > 0 => pageHeld',
         pagePhase = "writes" /\ pagePhase' # "writes" /\ pageMade' > 0 => \E i \in 1 .. Len(more) : Whole(more[i]),
         UNCHANGED <<pageLog, pageStatus, pageLinked, pageWire, pagePoll, pagePage>>
  PROVE  PageInv' /\ V!KeepsText
<1>1. /\ ChainOk(pageChain, pageMade, pagePhase) /\ LogOk(pageLog, pageMade, pagePhase)
      /\ pageChain \in Seq(Events) /\ Len(pageLog) \in Nat
      /\ pagePage.lastSeq \in Nat /\ Len(pagePage.text) \in Nat
  BY ReaderLasts DEF PageInv, AnswerInv, ChainOk, LogOk
<1> DEFINE long == pageChain \o more
<1>2. /\ long \in Seq(Events) /\ Len(pageChain) \in Nat /\ Len(more) \in Nat /\ Len(long) = Len(pageChain) + Len(more)
      /\ \A i \in 1 .. Len(pageChain) : long[i] = pageChain[i]
      /\ \A i \in 1 .. Len(more) : long[Len(pageChain) + i] = more[i]
  BY <1>1
<1> HIDE DEF long
<1>3. \A e : /\ Passing(e, pageMade) => Passing(e, pageMade')
             /\ Lasting(e, pageMade, pagePhase) => Lasting(e, pageMade', pagePhase')
  BY EventsLater
<1>4. ChainOk(long, pageMade', pagePhase')
  <2> SUFFICES ASSUME NEW i \in 1 .. Len(long)
               PROVE  Passing(long[i], pageMade') \/ (Lasting(long[i], pageMade', pagePhase') /\ long[i].type # "status")
    BY <1>2 DEF ChainOk
  <2>1. CASE i \in 1 .. Len(pageChain)
    <3> DEFINE e == pageChain[i]
    <3>1. long[i] = e
      BY <1>2, <2>1
    <3>2. Passing(e, pageMade) \/ (Lasting(e, pageMade, pagePhase) /\ e.type # "status")
      BY <1>1, <2>1 DEF ChainOk
    <3> HIDE DEF e
    <3>3. Passing(e, pageMade') \/ (Lasting(e, pageMade', pagePhase') /\ e.type # "status")
      BY <1>3, <3>2
    <3> QED BY <3>1, <3>3
  <2>2. CASE i - Len(pageChain) \in 1 .. Len(more)
    <3>1. Len(pageChain) + (i - Len(pageChain)) = i
      BY <1>2
    <3>2. long[i] = more[i - Len(pageChain)]
      BY <1>2, <2>2, <3>1
    <3> QED BY <2>2, <3>2
  <2> QED BY <1>2, <2>1, <2>2
<1>5. pageChain' = long
  BY DEF long
<1>6. ASSUME pagePhase' # "writes", pageMade' > 0
      PROVE  (\E i \in 1 .. Len(long) : Whole(long[i])) \/ \E i \in 1 .. Len(pageLog) : Whole(pageLog[i].event)
  <2>1. CASE pagePhase = "writes"
    <3>1. PICK i \in 1 .. Len(more) : Whole(more[i])
      BY <1>6, <2>1
    <3>2. Len(pageChain) + i \in 1 .. Len(long)
      BY <1>2
    <3> QED BY <1>2, <3>1, <3>2
  <2>2. CASE pagePhase # "writes"
    <3>1. pageMade > 0
      BY <1>6, <2>2 DEF Forward
    <3>2. \A i \in 1 .. Len(pageChain) : i \in 1 .. Len(long) /\ long[i] = pageChain[i]
      BY <1>2
    <3> QED BY <2>2, <3>1, <3>2 DEF PageInv, AnswerInv
  <2> QED BY <2>1, <2>2
<1>7. LogOk(pageLog, pageMade', pagePhase')
  BY <1>1, LogLater
<1>8. AnswerInv'
  <2>1. pageMade' \in 0 .. TextSize
    BY DEF Forward
  <2>2. \A i \in 1 .. Len(pageLog) : pageLog[i].event.type = "status" => pageStatus # "RUNNING"
    BY DEF PageInv, AnswerInv
  <2>3. pageStatus \in {"RUNNING", "OVER", "CANCELLED"}
    BY DEF PageInv, AnswerInv
  <2> QED BY <1>4, <1>5, <1>6, <1>7, <2>1, <2>2, <2>3 DEF AnswerInv
<1>9. PageOk(pagePage, pageLog, pageMade', pagePhase')
  <2>1. Longer(pageLog, pageLog)
    BY <1>1 DEF Longer
  <2> QED BY <1>1, <2>1, PageLater DEF PageInv, ReaderInv
<1>10. WireOk(pageWire, pageLog, pagePage.lastSeq, pageLinked, pageMade')
  <2>1. WireOk(pageWire, pageLog, pagePage.lastSeq, pageLinked, pageMade) /\ pagePage.lastSeq <= pagePage.lastSeq
    BY <1>1 DEF PageInv, ReaderInv
  <2> DEFINE made2 == pageMade'
  <2>2. \A e : Passing(e, pageMade) => Passing(e, made2)
    BY <1>3
  <2> HIDE DEF made2
  <2>3. WireOk(pageWire, pageLog, pagePage.lastSeq, pageLinked, made2)
    BY <1>1, <2>1, <2>2, WireLater
  <2> QED BY <2>3 DEF made2
<1>11. ReaderInv'
  BY <1>9, <1>10 DEF PageInv, ReaderInv
<1> QED BY <1>1, <1>8, <1>11 DEF PageInv, V!KeepsText

LEMMA SnapshotIs ==
  ASSUME NEW n \in 0 .. TextSize, NEW b \in BOOLEAN, NEW phase, b => phase # "writes",
         NEW e, e = [type |-> "message_progress", text |-> V!Text(n), complete |-> b]
  PROVE  e \in Events /\ Lasting(e, n, phase) /\ e.type # "status" /\ (b => Whole(e))
<1>1. V!Text(n) \in Seq(Nat) /\ n \in 0 .. n
  BY ServicesAssumption, TextIs
<1>2. e.type = "message_progress" /\ e.text = V!Text(n) /\ e.complete = b
  OBVIOUS
<1>3. e \in Events
  BY <1>1 DEF Events
<1>4. CASE b = TRUE
  BY <1>1, <1>2, <1>3, <1>4 DEF Lasting, Whole
<1>5. CASE b = FALSE
  BY <1>1, <1>2, <1>3, <1>5 DEF Lasting, Whole
<1> QED BY <1>4, <1>5

LEMMA PageWrites == ASSUME PageInv, V!Write PROVE PageInv' /\ V!KeepsText
<1>0. /\ TextSize \in Nat /\ pageMade \in 0 .. TextSize /\ pageMade < TextSize
      /\ pagePhase = "writes" /\ pageHeld \in BOOLEAN
  BY ServicesAssumption DEF PageInv, AnswerInv, V!Write
<1> DEFINE delta == V!Delta(pageMade)
           snap == [type |-> "message_progress", text |-> V!Text(pageMade'), complete |-> FALSE]
           more == IF ~pageHeld THEN <<delta>> \o <<snap>> ELSE <<delta>>
<1>1. /\ pageMade' = pageMade + 1 /\ pageHeld' = TRUE /\ pagePhase' = pagePhase
      /\ pageChain' = pageChain \o <<delta>> \o (IF ~pageHeld THEN <<snap>> ELSE << >>)
      /\ UNCHANGED <<pageLog, pageStatus, pageLinked, pageWire, pagePoll, pagePage>>
  BY DEF V!Write, V!Stays, V!Snapshot
<1>2. pageMade' \in 0 .. TextSize /\ pageMade \in 0 .. TextSize - 1 /\ pageMade \in 0 .. pageMade' - 1
  BY <1>0, <1>1
<1>3. delta \in Events /\ Passing(delta, pageMade')
  <2>1. delta = [type |-> "assistant_delta", offset |-> pageMade, text |-> Piece(pageMade)]
    BY DEF V!Delta, Piece
  <2>2. Piece(pageMade) \in Seq(Nat)
    BY <1>2, PieceIs
  <2> HIDE DEF delta
  <2>3. delta \in Events
    BY <1>0, <2>1, <2>2 DEF Events
  <2>4. delta.type = "assistant_delta" /\ delta.offset = pageMade /\ delta.text = Piece(pageMade)
    BY <2>1
  <2> QED BY <1>2, <2>3, <2>4 DEF Passing
<1>4. snap \in Events /\ Lasting(snap, pageMade', pagePhase') /\ snap.type # "status"
  <2> HIDE DEF snap
  <2>1. FALSE \in BOOLEAN /\ (FALSE => pagePhase' # "writes")
    OBVIOUS
  <2> QED BY <1>2, <2>1, SnapshotIs DEF snap
<1> HIDE DEF delta, snap
<1>5. pageChain \in Seq(Events)
  BY DEF PageInv, AnswerInv, ChainOk
<1>6. /\ more \in Seq(Events) /\ pageChain' = pageChain \o more
      /\ \A i \in 1 .. Len(more) : more[i] = delta \/ more[i] = snap
  <2>1. CASE pageHeld = TRUE
    <3>1. more = <<delta>> /\ pageChain' = pageChain \o <<delta>> \o << >>
      BY <1>1, <2>1
    <3> HIDE DEF more
    <3>2. <<delta>> \in Seq(Events) /\ Len(<<delta>>) = 1 /\ <<delta>>[1] = delta
      BY <1>3
    <3>3. pageChain \o <<delta>> \o << >> = pageChain \o <<delta>>
      BY <1>5, <3>2
    <3> QED BY <3>1, <3>2, <3>3
  <2>2. CASE pageHeld = FALSE
    <3>1. more = <<delta>> \o <<snap>> /\ pageChain' = pageChain \o <<delta>> \o <<snap>>
      BY <1>1, <2>2
    <3> HIDE DEF more
    <3> DEFINE both == <<delta>> \o <<snap>>
    <3>2. delta \in Events /\ snap \in Events
      BY <1>3, <1>4
    <3>3. /\ <<delta>> \in Seq(Events) /\ Len(<<delta>>) = 1 /\ <<delta>>[1] = delta
          /\ <<snap>> \in Seq(Events) /\ Len(<<snap>>) = 1 /\ <<snap>>[1] = snap
      BY <3>2
    <3>4. both \in Seq(Events) /\ Len(both) = 2 /\ both[1] = delta /\ both[2] = snap
      BY <3>3
    <3>5. pageChain \o <<delta>> \o <<snap>> = pageChain \o (<<delta>> \o <<snap>>)
      BY <1>5, <3>3, ConcatAssociative
    <3> HIDE DEF both
    <3>6. more = both /\ pageChain' = pageChain \o both
      BY <3>1, <3>5 DEF both
    <3>7. \A i \in 1 .. Len(both) : both[i] = delta \/ both[i] = snap
      <4>1. \A i \in 1 .. 2 : i = 1 \/ i = 2
        OBVIOUS
      <4> QED BY <3>4, <4>1
    <3> QED BY <3>4, <3>6, <3>7
  <2> QED BY <1>0, <2>1, <2>2
<1> HIDE DEF more
<1>7. Forward(pageMade, pagePhase, pageMade', pagePhase')
  BY <1>0, <1>1, <1>2 DEF Forward
<1>8. pageStatus # "OVER"
  BY <1>0 DEF PageInv, AnswerInv
<1> QED BY <1>0, <1>1, <1>3, <1>4, <1>6, <1>7, <1>8, ChainMore

LEMMA PageTicks == ASSUME PageInv, V!Tick PROVE PageInv' /\ V!KeepsText
<1> DEFINE snap == [type |-> "message_progress", text |-> V!Text(pageMade'), complete |-> FALSE]
<1>1. /\ pageTimer /\ pageTimer' = FALSE /\ UNCHANGED <<pageMade, pagePhase, pageHeld>>
      /\ pageChain' = Append(pageChain, snap)
      /\ UNCHANGED <<pageLog, pageStatus, pageLinked, pageWire, pagePoll, pagePage>>
  BY DEF V!Tick, V!Stays, V!Snapshot
<1>2. /\ pageMade \in 0 .. TextSize /\ pagePhase = "writes" /\ pageStatus # "OVER" /\ pageHeld \in BOOLEAN
      /\ pageChain \in Seq(Events) /\ (pageMade > 0 => pageHeld)
  BY <1>1 DEF PageInv, AnswerInv, ChainOk
<1>3. snap \in Events /\ Lasting(snap, pageMade', pagePhase') /\ snap.type # "status"
  <2>1. FALSE \in BOOLEAN /\ (FALSE => pagePhase' # "writes") /\ pageMade' \in 0 .. TextSize
    BY <1>1, <1>2
  <2> HIDE DEF snap
  <2> QED BY <2>1, SnapshotIs DEF snap
<1> HIDE DEF snap
<1>4. /\ <<snap>> \in Seq(Events) /\ Len(<<snap>>) = 1 /\ <<snap>>[1] = snap
      /\ pageChain' = pageChain \o <<snap>>
  BY <1>1, <1>2, <1>3
<1>5. Forward(pageMade, pagePhase, pageMade', pagePhase')
  BY <1>1, <1>2, ServicesAssumption DEF Forward
<1>6. \A i \in 1 .. Len(<<snap>>) : <<snap>>[i] = snap
  BY <1>4
<1> QED BY <1>1, <1>2, <1>3, <1>4, <1>5, <1>6, ChainMore

(* All the model wrote is told before its answer ends.                      *)
LEMMA FlushedIs ==
  ASSUME PageInv, pageMade' = pageMade, NEW phase, phase # "writes"
  PROVE  /\ V!Flushed \in Seq(Events)
         /\ \A i \in 1 .. Len(V!Flushed) : Lasting(V!Flushed[i], pageMade', phase) /\ V!Flushed[i].type # "status"
         /\ pagePhase = "writes" /\ pageMade' > 0 => \E i \in 1 .. Len(V!Flushed) : Whole(V!Flushed[i])
<1> DEFINE snap == [type |-> "message_progress", text |-> V!Text(pageMade'), complete |-> TRUE]
<1>0. V!Flushed = IF pageHeld THEN <<snap>> ELSE << >>
  BY DEF V!Flushed, V!Snapshot
<1>1. pageMade' \in 0 .. TextSize /\ pageHeld \in BOOLEAN /\ (pagePhase = "writes" /\ pageMade' > 0 => pageHeld)
  BY DEF PageInv, AnswerInv
<1>2. snap \in Events /\ Lasting(snap, pageMade', phase) /\ snap.type # "status" /\ Whole(snap)
  <2>1. TRUE \in BOOLEAN /\ (TRUE => phase # "writes")
    OBVIOUS
  <2> HIDE DEF snap
  <2> QED BY <1>1, <2>1, SnapshotIs DEF snap
<1> HIDE DEF snap
<1>3. CASE pageHeld = TRUE
  <2>1. V!Flushed = <<snap>>
    BY <1>0, <1>3
  <2>2. <<snap>> \in Seq(Events) /\ Len(<<snap>>) = 1 /\ <<snap>>[1] = snap /\ 1 \in 1 .. Len(<<snap>>)
    BY <1>2
  <2>3. \A i \in 1 .. Len(<<snap>>) : <<snap>>[i] = snap
    BY <2>2
  <2> QED BY <1>2, <2>1, <2>2, <2>3
<1>4. CASE pageHeld = FALSE
  <2>1. V!Flushed = << >> /\ << >> \in Seq(Events) /\ \A i \in 1 .. Len(<< >>) : FALSE
    BY <1>0, <1>4
  <2> QED BY <1>1, <1>4, <2>1
<1> QED BY <1>1, <1>3, <1>4

LEMMA PageEnds == ASSUME PageInv, V!End \/ V!Close PROVE PageInv' /\ V!KeepsText
<1> DEFINE message == V!Message
           last == IF V!End /\ pageMade > 0 THEN <<message>> ELSE << >>
           more == V!Flushed \o last
<1>1. /\ pageMade' = pageMade /\ pageHeld' = FALSE /\ pageTimer' = FALSE
      /\ UNCHANGED <<pageLog, pageStatus, pageLinked, pageWire, pagePoll, pagePage>>
      /\ pagePhase' \in {"ended", "closed"} /\ pagePhase' # "writes" /\ pagePhase # "closed"
  BY DEF V!End, V!Close, V!Flush, V!Stays
<1>2. /\ pageMade \in 0 .. TextSize /\ pageStatus # "OVER" /\ pageChain \in Seq(Events)
  BY <1>1 DEF PageInv, AnswerInv, ChainOk
<1>3. /\ V!Flushed \in Seq(Events)
      /\ \A i \in 1 .. Len(V!Flushed) : Lasting(V!Flushed[i], pageMade', pagePhase') /\ V!Flushed[i].type # "status"
      /\ pagePhase = "writes" /\ pageMade' > 0 => \E i \in 1 .. Len(V!Flushed) : Whole(V!Flushed[i])
  BY <1>1, FlushedIs
<1>4. message \in Events /\ Lasting(message, pageMade', pagePhase') /\ message.type # "status"
  <2>1. V!Text(pageMade) \in Seq(Nat)
    BY <1>2, TextIs
  <2>2. message = [type |-> "assistant_message", text |-> V!Text(pageMade)]
    BY DEF V!Message
  <2> HIDE DEF message
  <2> QED BY <1>1, <2>1, <2>2 DEF Events, Lasting
<1> HIDE DEF message
<1>5. last \in Seq(Events) /\ \A i \in 1 .. Len(last) : last[i] = message
  <2>1. <<message>> \in Seq(Events) /\ Len(<<message>>) = 1 /\ <<message>>[1] = message
    BY <1>4
  <2>2. \A i \in 1 .. Len(<<message>>) : <<message>>[i] = message
    BY <2>1
  <2>3. << >> \in Seq(Events) /\ \A i \in 1 .. Len(<< >>) : FALSE
    OBVIOUS
  <2> QED BY <2>1, <2>2, <2>3
<1>6. pageChain' = pageChain \o more
  <2>1. CASE V!End
    <3>1. pageChain' = pageChain \o V!Flushed \o last
      BY <2>1 DEF V!End, message
    <3> HIDE DEF last
    <3> QED BY <1>2, <1>3, <1>5, <3>1, ConcatAssociative
  <2>2. CASE ~V!End
    <3>1. V!Close
      BY <2>2
    <3>2. pageChain' = pageChain \o V!Flushed /\ last = << >>
      BY <2>2, <3>1 DEF V!Close
    <3>3. V!Flushed \o << >> = V!Flushed
      BY <1>3
    <3> QED BY <3>2, <3>3
  <2> QED BY <2>1, <2>2
<1> HIDE DEF last
<1>7. /\ more \in Seq(Events) /\ Len(V!Flushed) \in Nat /\ Len(last) \in Nat /\ Len(more) = Len(V!Flushed) + Len(last)
      /\ \A i \in 1 .. Len(V!Flushed) : more[i] = V!Flushed[i]
      /\ \A i \in 1 .. Len(last) : more[Len(V!Flushed) + i] = last[i]
  BY <1>3, <1>5
<1> HIDE DEF more
<1>8. \A i \in 1 .. Len(more) : Lasting(more[i], pageMade', pagePhase') /\ more[i].type # "status"
  <2> SUFFICES ASSUME NEW i \in 1 .. Len(more) PROVE Lasting(more[i], pageMade', pagePhase') /\ more[i].type # "status"
    OBVIOUS
  <2>1. CASE i \in 1 .. Len(V!Flushed)
    BY <1>3, <1>7, <2>1
  <2>2. CASE i - Len(V!Flushed) \in 1 .. Len(last)
    <3>1. Len(V!Flushed) + (i - Len(V!Flushed)) = i
      BY <1>7
    <3>2. more[i] = message
      BY <1>5, <1>7, <2>2, <3>1
    <3> QED BY <1>4, <3>2
  <2> QED BY <1>7, <2>1, <2>2
<1>9. pagePhase = "writes" /\ pageMade' > 0 => \E i \in 1 .. Len(more) : Whole(more[i])
  <2>1. \A i \in 1 .. Len(V!Flushed) : i \in 1 .. Len(more) /\ more[i] = V!Flushed[i]
    BY <1>7
  <2> QED BY <1>3, <2>1
<1>10. Forward(pageMade, pagePhase, pageMade', pagePhase')
  <2>1. pageMade <= pageMade /\ pageMade' \in 0 .. TextSize
    BY <1>1, <1>2, ServicesAssumption
  <2> QED BY <1>1, <1>2, <2>1 DEF Forward
<1>11. pagePhase' \in {"writes", "ended", "closed"} /\ pageHeld' \in BOOLEAN
  BY <1>1
<1> QED BY <1>1, <1>2, <1>6, <1>7, <1>8, <1>9, <1>10, <1>11, ChainMore

(* An event is stored, and sent to a page that listens.                     *)
LEMMA StoredReads ==
  ASSUME PageInv, NEW e \in Events, Lasting(e, pageMade, pagePhase), V!Store(e),
         UNCHANGED <<pageMade, pagePhase, pageLinked, pagePoll, pagePage>>
  PROVE  /\ ReaderInv' /\ V!KeepsText
         /\ LogOk(pageLog', pageMade, pagePhase) /\ Longer(pageLog, pageLog') /\ Len(pageLog) \in Nat
         /\ Len(pageLog') = Len(pageLog) + 1 /\ pageLog'[Len(pageLog) + 1].event = e
<1> DEFINE d == [seq |-> Len(pageLog) + 1, event |-> e]
           log2 == Append(pageLog, d)
           last == pagePage.lastSeq
<1>1. /\ pageLog' = log2
      /\ pageWire' = IF pageLinked THEN Append(pageWire, d) ELSE pageWire
  BY DEF V!Store, V!Fanout
<1>2. /\ LogOk(pageLog, pageMade, pagePhase) /\ Len(pageLog) \in Nat
      /\ PageOk(pagePage, pageLog, pageMade, pagePhase) /\ pageLinked \in BOOLEAN
      /\ WireOk(pageWire, pageLog, last, pageLinked, pageMade) /\ PollOk(pagePoll, pageLog, last)
      /\ last \in Nat /\ last <= Len(pageLog) /\ Len(pagePage.text) \in Nat
  BY ReaderLasts DEF PageInv, AnswerInv, ReaderInv, LogOk
<1>3. d.event = e /\ d = [seq |-> Len(pageLog) + 1, event |-> e]
  OBVIOUS
<1> HIDE DEF d
<1>4. /\ LogOk(log2, pageMade, pagePhase) /\ Longer(pageLog, log2)
      /\ Len(log2) = Len(pageLog) + 1 /\ log2[Len(pageLog) + 1] = d
  BY <1>2, <1>3, LogMore
<1>5. WireOk(pageWire', log2, last, pageLinked, pageMade)
  <2>1. WireOk(IF pageLinked THEN Append(pageWire, d) ELSE pageWire, Append(pageLog, d), last, pageLinked, pageMade)
    BY <1>2, <1>3, WireMore
  <2> QED BY <1>1, <2>1
<1> HIDE DEF log2
<1>6. Len(log2) \in Nat /\ Forward(pageMade, pagePhase, pageMade, pagePhase)
  BY <1>2, <1>4, ServicesAssumption DEF Forward, PageInv, AnswerInv
<1>7. PageOk(pagePage, log2, pageMade, pagePhase)
  BY <1>2, <1>4, <1>6, PageLater
<1>8. PollOk(pagePoll, log2, last)
  BY <1>2, <1>4, <1>6, PollLater
<1>9. ReaderInv'
  BY <1>1, <1>2, <1>5, <1>7, <1>8 DEF ReaderInv, last
<1>10. V!KeepsText
  BY <1>2 DEF V!KeepsText
<1> QED BY <1>1, <1>2, <1>3, <1>4, <1>9, <1>10

LEMMA PagePublishes == ASSUME PageInv, V!Publish PROVE PageInv' /\ V!KeepsText
<1> DEFINE e == Head(pageChain)
           rest == Tail(pageChain)
<1>1. /\ pageChain # << >> /\ pageChain' = rest
      /\ UNCHANGED <<pageMade, pagePhase, pageHeld, pageTimer, pageStatus, pageLinked, pagePoll, pagePage>>
  BY DEF V!Publish, V!model
<1>2. /\ ChainOk(pageChain, pageMade, pagePhase) /\ LogOk(pageLog, pageMade, pagePhase)
      /\ pageChain \in Seq(Events) /\ Len(pageChain) \in Nat /\ Len(pageLog) \in Nat
      /\ pagePage.lastSeq \in Nat /\ Len(pagePage.text) \in Nat /\ pageLinked \in BOOLEAN
      /\ WireOk(pageWire, pageLog, pagePage.lastSeq, pageLinked, pageMade)
  BY ReaderLasts DEF PageInv, AnswerInv, ReaderInv, ChainOk, LogOk
<1>3. /\ 1 \in 1 .. Len(pageChain) /\ e = pageChain[1] /\ e \in Events
      /\ rest \in Seq(Events) /\ Len(rest) = Len(pageChain) - 1 /\ \A i \in 1 .. Len(rest) : rest[i] = pageChain[i + 1]
  BY <1>1, <1>2, HeadTailProperties
<1>4. pageStatus # "OVER" /\ pageStatus \in {"RUNNING", "CANCELLED"}
  BY <1>1 DEF PageInv, AnswerInv
<1>5. Passing(e, pageMade) \/ (Lasting(e, pageMade, pagePhase) /\ e.type # "status")
  BY <1>2, <1>3 DEF ChainOk
<1>6. ASSUME NEW i \in 1 .. Len(pageChain) PROVE pageChain[i] = e \/ (i - 1 \in 1 .. Len(rest) /\ pageChain[i] = rest[i - 1])
  <2>1. CASE i = 1
    BY <1>3, <2>1
  <2>2. CASE i # 1
    <3>1. i - 1 \in 1 .. Len(rest) /\ i - 1 + 1 = i
      BY <1>2, <1>3, <2>2
    <3> QED BY <1>3, <3>1
  <2> QED BY <2>1, <2>2
<1>7. ChainOk(rest, pageMade, pagePhase)
  <2>1. \A i \in 1 .. Len(rest) : i + 1 \in 1 .. Len(pageChain) /\ rest[i] = pageChain[i + 1]
    BY <1>2, <1>3
  <2> QED BY <1>2, <1>3, <2>1 DEF ChainOk
<1>a. /\ pageMade \in 0 .. TextSize /\ pagePhase \in {"writes", "ended", "closed"} /\ pageHeld \in BOOLEAN
      /\ (pagePhase # "writes" => pageTimer = FALSE) /\ (pagePhase = "writes" /\ pageMade > 0 => pageHeld)
      /\ pagePhase # "writes" /\ pageMade > 0 =>
           \/ \E i \in 1 .. Len(pageChain) : Whole(pageChain[i])
           \/ \E i \in 1 .. Len(pageLog) : Whole(pageLog[i].event)
      /\ \A i \in 1 .. Len(pageLog) : pageLog[i].event.type = "status" => pageStatus # "RUNNING"
  BY DEF PageInv, AnswerInv
<1> HIDE DEF e, rest
<1>8. CASE e.type = "assistant_delta"
  <2> DEFINE d == [seq |-> 0, event |-> e]
  <2>1. pageLog' = pageLog /\ pageWire' = IF pageLinked THEN Append(pageWire, d) ELSE pageWire
    BY <1>8 DEF V!Publish, V!Fanout, e
  <2>2. Passing(e, pageMade) /\ ~Whole(e)
    BY <1>5, <1>8 DEF Lasting, Whole
  <2>3. d.seq = 0 /\ d.event = e /\ d \in Stamped
    BY <1>3 DEF Stamped
  <2> HIDE DEF d
  <2>4. WireOk(pageWire', pageLog, pagePage.lastSeq, pageLinked, pageMade)
    <3>1. CASE pageLinked = TRUE
      <4>1. WireOk(pageWire, pageLog, pagePage.lastSeq, TRUE, pageMade) /\ pageWire' = Append(pageWire, d)
        BY <1>2, <2>1, <3>1
      <4>2. WireOk(Append(pageWire, d), pageLog, pagePage.lastSeq, TRUE, pageMade)
        BY <2>2, <2>3, <4>1, WirePass
      <4> QED BY <3>1, <4>1, <4>2
    <3>2. CASE pageLinked = FALSE
      BY <1>2, <2>1, <3>2
    <3> QED BY <1>2, <3>1, <3>2
  <2>5. ReaderInv'
    BY <1>1, <2>1, <2>4 DEF PageInv, ReaderInv
  <2>6. ASSUME NEW i \in 1 .. Len(pageChain), Whole(pageChain[i]) PROVE \E j \in 1 .. Len(rest) : Whole(rest[j])
    BY <1>6, <2>2, <2>6
  <2>7. AnswerInv'
    BY <1>1, <1>2, <1>4, <1>7, <1>a, <2>1, <2>6 DEF AnswerInv
  <2> QED BY <1>1, <1>2, <2>5, <2>7 DEF PageInv, V!KeepsText
<1>9. CASE e.type # "assistant_delta"
  <2>1. V!Store(e) /\ Lasting(e, pageMade, pagePhase) /\ e.type # "status"
    BY <1>5, <1>9 DEF V!Publish, Passing, e
  <2>2. /\ ReaderInv' /\ V!KeepsText
        /\ LogOk(pageLog', pageMade, pagePhase) /\ Longer(pageLog, pageLog') /\ Len(pageLog) \in Nat
        /\ Len(pageLog') = Len(pageLog) + 1 /\ pageLog'[Len(pageLog) + 1].event = e
    BY <1>1, <1>3, <2>1, StoredReads
  <2>3. \A i \in 1 .. Len(pageLog) : i \in 1 .. Len(pageLog') /\ pageLog'[i] = pageLog[i]
    BY <2>2 DEF Longer
  <2>4. Len(pageLog) + 1 \in 1 .. Len(pageLog')
    BY <2>2
  <2>5. ASSUME pagePhase # "writes", pageMade > 0
        PROVE  (\E i \in 1 .. Len(rest) : Whole(rest[i])) \/ \E i \in 1 .. Len(pageLog') : Whole(pageLog'[i].event)
    <3>1. CASE \E i \in 1 .. Len(pageLog) : Whole(pageLog[i].event)
      BY <2>3, <3>1
    <3>2. ASSUME NEW i \in 1 .. Len(pageChain), Whole(pageChain[i])
          PROVE  (\E j \in 1 .. Len(rest) : Whole(rest[j])) \/ \E j \in 1 .. Len(pageLog') : Whole(pageLog'[j].event)
      <4>1. CASE pageChain[i] = e
        BY <2>2, <2>4, <3>2, <4>1
      <4>2. CASE i - 1 \in 1 .. Len(rest) /\ pageChain[i] = rest[i - 1]
        BY <3>2, <4>2
      <4> QED BY <1>6, <4>1, <4>2
    <3> QED BY <1>a, <2>5, <3>1, <3>2
  <2>6. ASSUME NEW i \in 1 .. Len(pageLog'), pageLog'[i].event.type = "status" PROVE pageStatus # "RUNNING"
    <3>1. CASE i = Len(pageLog) + 1
      BY <2>1, <2>2, <2>6, <3>1
    <3>2. CASE i \in 1 .. Len(pageLog)
      BY <1>a, <2>3, <2>6, <3>2
    <3> QED BY <1>2, <2>2, <3>1, <3>2
  <2>7. AnswerInv'
    BY <1>1, <1>4, <1>7, <1>a, <2>2, <2>5, <2>6 DEF AnswerInv
  <2> QED BY <2>2, <2>7 DEF PageInv
<1> QED BY <1>8, <1>9

(* The end of the task is stored, and told, like everything else.           *)
LEMMA PageStatusTold ==
  ASSUME PageInv, V!Finish \/ V!Cancel PROVE PageInv' /\ V!KeepsText
<1> DEFINE e == [type |-> "status", to |-> pageStatus']
<1>1. /\ pageStatus = "RUNNING" /\ pageStatus' \in {"OVER", "CANCELLED"} /\ V!Store(e)
      /\ UNCHANGED <<pageMade, pagePhase, pageHeld, pageTimer, pageChain, pageLinked, pagePoll, pagePage>>
      /\ pageStatus' = "OVER" => pageChain = << >> /\ pagePhase = "closed"
  <2>1. CASE V!Finish
    BY <2>1 DEF V!Finish, V!StatusEvent, V!model
  <2>2. CASE V!Cancel
    BY <2>2 DEF V!Cancel, V!StatusEvent, V!model
  <2> QED BY <2>1, <2>2
<1>2. e \in Events /\ Lasting(e, pageMade, pagePhase)
  BY <1>1 DEF Events, Lasting
<1> HIDE DEF e
<1>3. /\ ReaderInv' /\ V!KeepsText
      /\ LogOk(pageLog', pageMade, pagePhase) /\ Longer(pageLog, pageLog') /\ Len(pageLog) \in Nat
      /\ Len(pageLog') = Len(pageLog) + 1 /\ pageLog'[Len(pageLog) + 1].event = e
  BY <1>1, <1>2, StoredReads
<1>4. /\ pageMade \in 0 .. TextSize /\ pagePhase \in {"writes", "ended", "closed"} /\ pageHeld \in BOOLEAN
      /\ (pagePhase # "writes" => pageTimer = FALSE) /\ (pagePhase = "writes" /\ pageMade > 0 => pageHeld)
      /\ pagePhase # "writes" /\ pageMade > 0 =>
           \/ \E i \in 1 .. Len(pageChain) : Whole(pageChain[i])
           \/ \E i \in 1 .. Len(pageLog) : Whole(pageLog[i].event)
      /\ \A i \in 1 .. Len(pageLog) : pageLog[i].event.type # "status"
      /\ ChainOk(pageChain, pageMade, pagePhase)
  BY <1>1 DEF PageInv, AnswerInv
<1>5. \A i \in 1 .. Len(pageLog) : i \in 1 .. Len(pageLog') /\ pageLog'[i] = pageLog[i]
  BY <1>3 DEF Longer
<1>6. ASSUME NEW i \in 1 .. Len(pageLog'), pageLog'[i].event.type = "status" PROVE i = Len(pageLog')
  <2>1. CASE i \in 1 .. Len(pageLog)
    BY <1>4, <1>5, <1>6, <2>1
  <2> QED BY <1>3, <2>1
<1>7. pagePhase # "writes" /\ pageMade > 0 =>
        \/ \E i \in 1 .. Len(pageChain) : Whole(pageChain[i])
        \/ \E i \in 1 .. Len(pageLog') : Whole(pageLog'[i].event)
  BY <1>4, <1>5
<1>8. AnswerInv'
  BY <1>1, <1>3, <1>4, <1>6, <1>7 DEF AnswerInv
<1> QED BY <1>3, <1>8 DEF PageInv

LEMMA PageStep == ASSUME PageInv, V!Next PROVE PageInv' /\ V!KeepsText
  BY PageWrites, PageTicks, PageEnds, PagePublishes, PageStatusTold, PageConnects, PageReceives,
     PageCut, PageReloads, PageGets DEF V!Next

LEMMA PageStay == ASSUME PageInv, UNCHANGED page PROVE PageInv' /\ V!KeepsText
<1>1. UNCHANGED <<pageMade, pagePhase, pageHeld, pageTimer, pageChain, pageLog, pageStatus,
                  pageLinked, pageWire, pagePoll, pagePage>>
  BY DEF page
<1>2. Len(pagePage.text) \in Nat
  BY ReaderLasts DEF PageInv
<1>3. PageInv'
  BY <1>1 DEF PageInv, AnswerInv, ReaderInv
<1> QED BY <1>1, <1>2, <1>3 DEF V!KeepsText

-----------------------------------------------------------------------------
(* The components side by side: a step is one of the component a behaviour  *)
(* is of, or none.                                                          *)

LEMMA StepsOfParts ==
  ASSUME [Next]_vars
  PROVE  /\ part' = part
         /\ part = "jobs" => J!Next \/ UNCHANGED jobs
         /\ part = "evaluations" => E!Next \/ UNCHANGED evaluations
         /\ part = "subtasks" => D!Next \/ UNCHANGED subtasks
         /\ part = "settings" => S!Next \/ UNCHANGED settings
         /\ part = "identity" => I!Next \/ UNCHANGED identity
         /\ part = "streams" => T!Next \/ UNCHANGED streams
         /\ part = "calls" => L!Next \/ UNCHANGED calls
         /\ part = "page" => V!Next \/ UNCHANGED page
         /\ part = "models" => M!Next \/ UNCHANGED models
         /\ part = "commands" => C!Next \/ UNCHANGED commands
         /\ part = "oidc" => O!Next \/ UNCHANGED oidc
<1>1. CASE Next
  BY <1>1 DEF Next, OthersStay
<1>2. CASE UNCHANGED vars
  BY <1>2 DEF vars
<1> QED
  BY <1>1, <1>2

(* Work that goes on behind a request keeps its books: no job is in two     *)
(* queues, twice in one, or forgotten while it is open; no evaluation has a *)
(* case twice or is complete without all; every sub-task is taken once, has *)
(* an honest result and leaves no runner open.                              *)
THEOREM JobsAlwaysSafe == Spec => []JobsSafe
<1> DEFINE Inv == /\ part = "jobs" => JobsInv
                  /\ part = "evaluations" => EvaluationsInv
                  /\ part = "subtasks" => SubtasksInv
<1>1. Init => Inv
  BY JobsInit, EvaluationsInit, SubtasksInit DEF Init
<1>2. Inv /\ [Next]_vars => Inv'
  BY StepsOfParts, JobsStep, JobsStay, EvaluationsStep, EvaluationsStay, SubtasksStep, SubtasksStay
<1>3. Inv => JobsSafe
  BY JobsInvSafe, EvaluationsInvSafe, SubtasksInvSafe DEF JobsSafe
<1> QED
  BY <1>1, <1>2, <1>3, PTL DEF Spec

(* What runs is the version that was published last, through failing saves, *)
(* restarts and a fall back to the previous file, unless both were damaged; *)
(* a credential that was replaced does not come back.                       *)
THEOREM SettingsAlwaysSafe == Spec => []SettingsSafe
<1> DEFINE Inv == part = "settings" => SettingsInv
<1>1. Init => Inv
  BY SettingsInit DEF Init
<1>2. Inv /\ [Next]_vars => Inv'
  BY StepsOfParts, SettingsStep, SettingsStay
<1>3. Inv => SettingsSafe
  BY SettingsInvSafe DEF SettingsSafe
<1> QED
  BY <1>1, <1>2, <1>3, PTL DEF Spec

(* No session outlives its credentials, administrators remain, seats are    *)
(* not exceeded by creations under way; a ticket opens one stream, of its   *)
(* own principal, and the slots of a principal are counted exactly.         *)
THEOREM IdentityAlwaysSafe == Spec => []IdentitySafe
<1> DEFINE Inv == (part = "identity" => IdentityInv) /\ (part = "streams" => StreamsInv)
<1>1. Init => Inv
  BY IdentityInit, StreamsInit DEF Init
<1>2. Inv /\ [Next]_vars => Inv'
  BY StepsOfParts, IdentityStep, IdentityStay, StreamsStep, StreamsStay
<1>3. Inv => IdentitySafe
  BY IdentityInvSafe DEF IdentitySafe, StreamsInv
<1> QED
  BY <1>1, <1>2, <1>3, PTL DEF Spec

(* The directories of a local call are reserved for one command at a time,  *)
(* from its start until its last process is gone; no timer is left.         *)
THEOREM CallsAlwaysSafe == Spec => []CallsSafe
<1> DEFINE Inv == part = "calls" => CallsInv
<1>1. Init => Inv
  BY CallsInit DEF Init
<1>2. Inv /\ [Next]_vars => Inv'
  BY StepsOfParts, CallsNext, CallsStay
<1>3. Inv => CallsSafe
  BY DEF CallsInv, CallsSafe
<1> QED
  BY <1>1, <1>2, <1>3, PTL DEF Spec

(* The gate in front of the models lets out no more requests or tokens in   *)
(* a minute than its limits, retries, failing writes and restarts included, *)
(* counts its seats exactly, and lets no evaluation over its budget.        *)
THEOREM ModelsAlwaysSafe == Spec => []ModelsSafe
<1> DEFINE Inv == part = "models" => ModelsInv /\ RateInv
<1>1. Init => Inv
  BY ModelsInit, RateInit DEF Init
<1>2. Inv /\ [Next]_vars => Inv'
  BY StepsOfParts, ModelsStep, ModelsStay, RateStep, RateStays
<1>3. Inv => ModelsSafe
  BY RateInvHeld DEF ModelsInv, ModelsSafe, M!Safe
<1> QED
  BY <1>1, <1>2, <1>3, PTL DEF Spec

(* A confirmation runs at most one handler and is good only until its       *)
(* extension is next switched; a login state lets in at most once, over no  *)
(* change of the provider, and only who is bound and enabled in that step.  *)
THEOREM GrantsAlwaysSafe == Spec => GrantsSafe
<1> DEFINE Inv == (part = "commands" => CommandsInv) /\ (part = "oidc" => OidcInv)
           Commands == part = "commands" => C!Safe
           Logins == part = "oidc" => O!Safe
           LetsIn == part = "oidc" => O!LetsInTheBound
<1>1. Init => Inv
  BY CommandsInit, OidcInit DEF Init
<1>2. Inv /\ [Next]_vars => Inv'
  BY StepsOfParts, CommandsStep, CommandsStay, OidcStep, OidcStay
<1>3. Inv => Commands /\ Logins
  BY DEF CommandsInv, OidcInv
<1>4. Inv /\ [Next]_vars => [LetsIn]_oidc
  <2> SUFFICES ASSUME Inv, [Next]_vars, part = "oidc", ~UNCHANGED oidc PROVE O!LetsInTheBound
    OBVIOUS
  <2>1. O!Next /\ OidcInv
    BY StepsOfParts
  <2> QED
    BY <2>1, LetsInWhoIsBound DEF O!LetsInTheBound
<1> QED
  BY <1>1, <1>2, <1>3, <1>4, PTL DEF Spec, GrantsSafe

(* What the page shows is a beginning of the answer at every time and the   *)
(* whole of it once the task is over, with no stored event passed over: the *)
(* stream may break and begin again, polls may fail or come late, the page  *)
(* may be loaded again.  Only loading it again takes text back.             *)
THEOREM PageAlwaysTrue == Spec => PageTrue
<1> DEFINE Inv == part = "page" => PageInv
           Safe == part = "page" => V!Safe
           Keeps == part = "page" => V!KeepsText
<1>1. Init => Inv
  BY PageInit DEF Init
<1>2. Inv /\ [Next]_vars => Inv'
  BY StepsOfParts, PageStep, PageStay
<1>3. Inv => Safe
  BY PageInvSafe
<1>4. Inv /\ [Next]_vars => [Keeps]_page
  <2> SUFFICES ASSUME Inv, [Next]_vars, part = "page", ~UNCHANGED page PROVE V!KeepsText
    OBVIOUS
  <2>1. V!Next /\ PageInv
    BY StepsOfParts
  <2> QED
    BY <2>1, PageStep
<1> QED
  BY <1>1, <1>2, <1>3, <1>4, PTL DEF Spec, PageTrue
=============================================================================
