------------------------------ MODULE LiveText ------------------------------
(***************************************************************************)
(* The answer of a model on its way to the page: response-stream.ts cuts   *)
(* it into deltas, which are not stored, and snapshots, which are; the     *)
(* runner publishes both in order; the page gets them from its event       *)
(* stream and, in case a proxy holds that back, by polling the stored ones.*)
(* One message of one task; a text is the sequence of its pieces.          *)
(***************************************************************************)
EXTENDS Naturals, Sequences

CONSTANTS
  Size,        \* pieces of the answer, each a delta
  MaxTicks,    \* bound: snapshots the timer makes
  MaxFaults    \* bound: connections and polls that fail, pages loaded again

VARIABLES
  made,      \* pieces the model has written
  phase,     \* of the prompt: "writes", then "ended" by message_end, then "closed"
  held,      \* there is a buffer
  timer,     \* and its timer runs
  chain,     \* the runner's delivery: what publish has not delivered yet
  log,       \* the stored events of the task; an event's seq is its place
  status,    \* of the task
  linked, wire,   \* the event stream, and what is under way on it
  poll,      \* the poll of the page
  page,      \* what the page holds
  ticks, broken

model == <<made, phase, held, timer, ticks>>
vars == <<model, chain, log, status, linked, wire, poll, page, broken>>

Full == [n \in 1 .. Size |-> n]
Text(n) == SubSeq(Full, 1, n)

Delta(from) == [type |-> "assistant_delta", offset |-> from, text |-> SubSeq(Full, from + 1, from + 1)]
Snapshot(complete) == [type |-> "message_progress", text |-> Text(made'), complete |-> complete]
Message == [type |-> "assistant_message", text |-> Text(made)]
StatusEvent(s) == [type |-> "status", to |-> s]

Idle == [at |-> "idle"]
Fresh == [text |-> <<>>, final |-> FALSE, running |-> TRUE, given |-> {}, lastSeq |-> 0, seen |-> {}]

Init ==
  /\ made = 0 /\ phase = "writes" /\ held = FALSE /\ timer = FALSE
  /\ chain = <<>> /\ log = <<>> /\ status = "RUNNING"
  /\ linked = FALSE /\ wire = <<>> /\ poll = Idle /\ page = Fresh
  /\ ticks = 0 /\ broken = 0

-----------------------------------------------------------------------------
(* The server.                                                              *)

Fanout(e) == wire' = IF linked THEN Append(wire, e) ELSE wire

(* ingest: the event gets the next seq, then goes to the subscribers.       *)
Store(e) ==
  LET stamped == [seq |-> Len(log) + 1, event |-> e] IN
  log' = Append(log, stamped) /\ Fanout(stamped)

Stays == UNCHANGED <<log, status, linked, wire, poll, page, broken>>

(* message_update: the first delta makes a snapshot at once.                *)
Write ==
  /\ phase = "writes" /\ made < Size
  /\ made' = made + 1 /\ held' = TRUE /\ timer' = TRUE
  /\ chain' = chain \o <<Delta(made)>> \o (IF ~held THEN <<Snapshot(FALSE)>> ELSE <<>>)
  /\ UNCHANGED <<phase, ticks>> /\ Stays

Tick ==
  /\ timer /\ timer' = FALSE
  /\ ticks < MaxTicks /\ ticks' = ticks + 1
  /\ UNCHANGED <<made, phase, held>>
  /\ chain' = Append(chain, Snapshot(FALSE))
  /\ Stays

(* flush(complete) and the end of the buffer.                               *)
Flushed == IF held THEN <<Snapshot(TRUE)>> ELSE <<>>
Flush == UNCHANGED <<made, ticks>> /\ held' = FALSE /\ timer' = FALSE

(* message_end: the whole text follows, if there is any.                    *)
End ==
  /\ phase = "writes" /\ phase' = "ended"
  /\ Flush /\ chain' = chain \o Flushed \o (IF made > 0 THEN <<Message>> ELSE <<>>)
  /\ Stays

(* The lane is done with the prompt, or aborted: what is held is flushed.   *)
Close ==
  /\ phase # "closed" /\ phase' = "closed"
  /\ Flush /\ chain' = chain \o Flushed
  /\ Stays

(* Deltas only go to those who listen; the rest is stored.                  *)
Publish ==
  /\ chain # <<>> /\ chain' = Tail(chain)
  /\ IF Head(chain).type = "assistant_delta"
     THEN Fanout([seq |-> 0, event |-> Head(chain)]) /\ UNCHANGED log
     ELSE Store(Head(chain))
  /\ UNCHANGED <<model, status, linked, poll, page, broken>>

(* prompt returns, or throws, after the last delivery: the task succeeded,  *)
(* or failed.                                                               *)
Finish ==
  /\ phase = "closed" /\ chain = <<>> /\ status = "RUNNING"
  /\ status' = "OVER" /\ Store(StatusEvent("OVER"))
  /\ UNCHANGED <<model, chain, linked, poll, page, broken>>

(* A cancelled task is so at once; its model stops later.                   *)
Cancel ==
  /\ status = "RUNNING" /\ status' = "CANCELLED" /\ Store(StatusEvent("CANCELLED"))
  /\ UNCHANGED <<model, chain, linked, poll, page, broken>>

-----------------------------------------------------------------------------
(* The page.                                                                *)

(* Mutant of Grown: a delta is put behind whatever the page has.            *)
GrownBlind(text, e) == text \o e.text

(* The part the page has already is left out; a gap waits for a snapshot.   *)
Grown(text, e) ==
  IF e.offset > Len(text) THEN text
  ELSE text \o SubSeq(e.text, Len(text) - e.offset + 1, Len(e.text))

Consumed(p, e) ==
  IF p.final THEN p
  ELSE CASE e.type = "assistant_delta" -> IF p.running THEN [p EXCEPT !.text = Grown(@, e)] ELSE p
         [] e.type = "message_progress" ->
              IF e.complete \/ Len(e.text) >= Len(p.text) THEN [p EXCEPT !.text = e.text] ELSE p
         [] e.type = "assistant_message" -> [p EXCEPT !.text = e.text, !.final = TRUE]
         [] e.type = "status" -> p

(* deliver gives an event on once; so does the page, whose history may hold *)
(* it.  The end of the task closes the subscription.                        *)
Given(p, d) ==
  IF d.seq = 0 THEN Consumed(p, d.event)
  ELSE IF d.seq \in p.given THEN p
  ELSE LET q == [p EXCEPT !.given = @ \cup {d.seq}, !.lastSeq = IF d.seq > @ THEN d.seq ELSE @]
       IN IF d.seq \in p.seen THEN q
          ELSE [Consumed(q, d.event) EXCEPT !.seen = @ \cup {d.seq},
                                            !.running = @ /\ d.event.type # "status"]

(* Events given on one after another.                                       *)
AllGiven(p, events) ==
  LET after[n \in 0 .. Len(events)] == IF n = 0 THEN p ELSE Given(after[n - 1], events[n])
  IN  after[Len(events)]

Shows(p) ==
  /\ page' = p
  /\ linked' = (linked /\ p.running)

(* A ticket, and a stream on it.  The stream starts with all stored events: *)
(* the page sends afterSeq, which the handler of the stream does not read.  *)
Connect ==
  /\ page.running /\ ~linked
  /\ linked' = TRUE /\ wire' = log
  /\ UNCHANGED <<model, chain, log, status, poll, page, broken>>

Receive ==
  /\ linked /\ wire # <<>>
  /\ Shows(Given(page, Head(wire)))
  /\ wire' = IF linked' THEN Tail(wire) ELSE <<>>
  /\ poll' = IF linked' THEN poll ELSE Idle
  /\ UNCHANGED <<model, chain, log, status, broken>>

Break ==
  /\ linked /\ broken < MaxFaults /\ broken' = broken + 1
  /\ linked' = FALSE /\ wire' = <<>>
  /\ UNCHANGED <<model, chain, log, status, poll, page>>

(* A poll asks for what is stored after lastSeq; what the page is given     *)
(* until the answer comes is given again, and left out.                     *)
Ask ==
  /\ page.running /\ poll = Idle
  /\ poll' = [at |-> "answered", events |-> SubSeq(log, page.lastSeq + 1, Len(log))]
  /\ UNCHANGED <<model, chain, log, status, linked, wire, page, broken>>

(* A poll that fails is made again.                                         *)
Fail ==
  /\ poll # Idle /\ broken < MaxFaults /\ broken' = broken + 1
  /\ poll' = Idle
  /\ UNCHANGED <<model, chain, log, status, linked, wire, page>>

(* All events of an answer are given on, even behind the end of the task.   *)
Got ==
  /\ poll.at = "answered" /\ poll' = Idle
  /\ Shows(AllGiven(page, poll.events))
  /\ wire' = IF linked' THEN wire ELSE <<>>
  /\ UNCHANGED <<model, chain, log, status, broken>>

(* The page is loaded again: the history first, then a new subscription.    *)
Reload ==
  /\ broken < MaxFaults /\ broken' = broken + 1
  /\ page' = [AllGiven(Fresh, log) EXCEPT !.given = {}, !.lastSeq = 0]
  /\ linked' = FALSE /\ wire' = <<>> /\ poll' = Idle
  /\ UNCHANGED <<model, chain, log, status>>

-----------------------------------------------------------------------------
Next ==
  \/ Write \/ Tick \/ End \/ Close \/ Publish
  \/ Finish
  \/ Cancel
  \/ Connect \/ Receive \/ Break \/ Reload \/ Ask \/ Got \/ Fail

(* The page goes on polling, and a request is answered or fails.            *)
PollReturns == poll.at = "answered" /\ poll' = Idle
Polls == Ask \/ PollReturns
Fairness == WF_poll(Polls)

Spec == Init /\ [][Next]_vars /\ Fairness

-----------------------------------------------------------------------------
(* What the page shows is a beginning of the answer: deltas that are lost,  *)
(* come late or twice, and snapshots that overtake them, make no gap and no *)
(* repetition: run-display.js:53.                                           *)
BeginningOfAnswer == Len(page.text) <= made /\ page.text = Text(Len(page.text))

(* No stored event is passed over: the page was given all up to the one it  *)
(* asks the next after, by the stream and the polls together.               *)
NothingSkipped == page.given = 1 .. page.lastSeq /\ page.lastSeq <= Len(log)

(* A page that was told of the end of a task that was not cancelled shows   *)
(* the whole answer: the last delivery comes before the end.                *)
WholeAtEnd == ~page.running /\ status # "CANCELLED" => page.text = Text(made)

Safe == BeginningOfAnswer /\ NothingSkipped /\ WholeAtEnd

(* Text that was shown is not taken back, not by an older snapshot either.  *)
KeepsText == Len(page'.text) >= Len(page.text) \/ Reload
NeverShrinks == [][KeepsText]_vars

(* Polling alone tells the page of the end, whatever the stream does.       *)
ToldOfTheEnd == (status # "RUNNING") ~> ~page.running

(* The code does not have it: a page that is told of a cancelled task stops *)
(* listening, and the rest the model had written comes after: core.js:311.  *)
WholeAfterCancel == ~page.running /\ phase = "closed" /\ chain = <<>> => page.text = Text(made)
=============================================================================
