-------------------------------- MODULE Egress --------------------------------
(***************************************************************************)
(* The one way out of an isolated sandbox: a proxy with a limit of         *)
(* connections and a budget of bytes for its whole life.  A connection     *)
(* carries requests one after the other, or becomes a tunnel; the name of  *)
(* each is looked up, which takes time, before the target is dialled, and  *)
(* meanwhile the client may leave and the proxy may be closed.             *)
(*                                                                         *)
(* A chunk of data is one unit of the budget.                              *)
(***************************************************************************)
EXTENDS Naturals, FiniteSets

CONSTANTS
  Conns, Names,
  Allowed,         \* the names on the list of the sandbox; {}: every name
  MaxConnections,
  MaxBytes,
  MaxRequests      \* bound: requests of a connection

VARIABLES
  conn,         \* what is known of each connection of the sandbox
  transferred,
  closed

vars == <<conn, transferred, closed>>

Clients == {"none", "open", "destroyed", "gone"}
Upstreams == {"none", "dialling", "open", "closed"}

(* "excess": the chunks carried when the budget was used up; "late": the    *)
(* target was dialled when it was; "unheard": the target was dialled when   *)
(* the end of the client had been announced.                                *)
Unused ==
  [client |-> "none", kind |-> "http", name |-> "none", stage |-> "idle", upstream |-> "none",
   late |-> FALSE, unheard |-> FALSE, asked |-> 0, excess |-> 0]

Init ==
  /\ conn = [c \in Conns |-> Unused]
  /\ transferred = 0
  /\ closed = FALSE

-----------------------------------------------------------------------------
Connections == {c \in Conns : conn[c].client \in {"open", "destroyed"}}
Live(c) == conn[c].upstream \in {"dialling", "open"}
Stopped == closed /\ Connections = {}

(* socket.destroy(): the socket is closed later.                            *)
Destroyed(client) == IF client = "open" THEN "destroyed" ELSE client

(* publicTarget(): the address of a name on the list, when all its          *)
(* addresses are public ones.                                               *)
Addresses == {"IPv4", "IPv6", "private", "benchmark"}
publicTarget(name, found) ==
  IF (Allowed # {} /\ name \notin Allowed) \/ found \cap {"private", "benchmark"} # {} THEN {} ELSE found \cap {"IPv4"}

(* The promise is rejected: 403, after which a tunnel is closed.            *)
Denied(k) ==
  IF k.kind = "tunnel" THEN [k EXCEPT !.stage = "over", !.client = Destroyed(@)] ELSE [k EXCEPT !.stage = "idle"]

Dialled(k) ==
  [k EXCEPT !.stage = "busy", !.late = transferred >= MaxBytes, !.unheard = k.client = "gone",
            !.upstream = IF k.kind = "tunnel" THEN "dialling" ELSE "open"]

Cut(k) == [k EXCEPT !.upstream = "closed", !.client = Destroyed(@)]

-----------------------------------------------------------------------------
(* The server's "connection": one too many is destroyed, and counts until   *)
(* it is closed.                                                            *)
Connect(c) ==
  /\ ~closed /\ conn[c].client = "none"
  /\ conn' = [conn EXCEPT ![c].client = IF Cardinality(Connections) < MaxConnections THEN "open" ELSE "destroyed"]
  /\ UNCHANGED <<transferred, closed>>

(* The sandbox leaves, or says nothing for a minute.                        *)
Leave(c) ==
  /\ conn[c].client = "open"
  /\ conn' = [conn EXCEPT ![c].client = "destroyed"]
  /\ UNCHANGED <<transferred, closed>>

(* "close" of the client closes the target, if it was dialled before.       *)
Gone(c) ==
  /\ conn[c].client = "destroyed"
  /\ conn' = [conn EXCEPT ![c].client = "gone", ![c].upstream = IF Live(c) THEN "closed" ELSE @]
  /\ UNCHANGED <<transferred, closed>>

Ask(c, kind, name) ==
  /\ conn[c].client = "open" /\ conn[c].stage = "idle" /\ conn[c].asked < MaxRequests
  /\ conn' = [conn EXCEPT ![c].kind = kind, ![c].name = name, ![c].stage = "lookup", ![c].asked = @ + 1]
  /\ UNCHANGED <<transferred, closed>>

(* The name is looked up: the proxy may be closed by now, the budget gone.  *)
MayDial == ~closed /\ transferred < MaxBytes

Resolved(c, found) ==
  /\ conn[c].stage = "lookup"
  /\ conn' = [conn EXCEPT ![c] =
                IF publicTarget(conn[c].name, found) # {} /\ MayDial THEN Dialled(@) ELSE Denied(@)]
  /\ UNCHANGED <<transferred, closed>>

(* A tunnel's target answers; what came with the request goes uncounted     *)
(* against the budget until the next chunk.                                 *)
Answer(c, head) ==
  /\ conn[c].upstream = "dialling"
  /\ conn' = [conn EXCEPT ![c].upstream = "open",
                          ![c].excess = IF transferred >= MaxBytes THEN @ + head ELSE @]
  /\ transferred' = transferred + head
  /\ UNCHANGED closed

Carry(c) ==
  /\ Live(c)
  /\ transferred' = transferred + 1
  /\ conn' = [conn EXCEPT ![c] = IF transferred >= MaxBytes THEN Cut([conn[c] EXCEPT !.excess = @ + 1]) ELSE @]
  /\ UNCHANGED closed

(* The target ends, fails or says nothing: a tunnel ends with it.           *)
Ends(c) ==
  /\ Live(c)
  /\ conn' = [conn EXCEPT ![c] = IF @.kind = "tunnel" THEN Cut(@) ELSE [@ EXCEPT !.upstream = "closed", !.stage = "idle"]]
  /\ UNCHANGED <<transferred, closed>>

(* close(): the sockets it knows are those of the clients and of tunnels.   *)
Close ==
  /\ ~closed
  /\ closed' = TRUE
  /\ conn' = [c \in Conns |-> IF Live(c) /\ conn[c].kind = "tunnel" THEN Cut(conn[c])
                              ELSE [conn[c] EXCEPT !.client = Destroyed(@)]]
  /\ UNCHANGED transferred

Next ==
  \/ \E c \in Conns :
       \/ Connect(c) \/ Leave(c) \/ Gone(c) \/ Carry(c) \/ Ends(c)
       \/ \E kind \in {"http", "tunnel"}, name \in Names : Ask(c, kind, name)
       \/ \E found \in SUBSET Addresses : Resolved(c, found)
       \/ \E head \in 0 .. 1 : Answer(c, head)
  \/ Close

-----------------------------------------------------------------------------
(* The proxy stays within its connections; when the budget is used up a     *)
(* target dialled before carries what came with its tunnel and one chunk,   *)
(* and no other carries anything; and when close() is done no target is     *)
(* connected but of a request whose client had left while its name was      *)
(* looked up: egress.ts:85, 143, 181.                                       *)
Safe ==
  /\ Cardinality({c \in Conns : conn[c].client = "open"}) <= MaxConnections
  /\ \A c \in Conns :
       /\ conn[c].client \in Clients /\ conn[c].upstream \in Upstreams
       /\ conn[c].excess <= IF conn[c].late THEN 0 ELSE IF conn[c].kind = "tunnel" THEN 2 ELSE 1
       /\ Stopped /\ Live(c) => conn[c].kind = "http" /\ conn[c].unheard

(* Not so: when close() is done nothing is connected.  The target of a      *)
(* plain request is not among the sockets, and its client's end was heard   *)
(* by nobody when it came before the target was dialled (egress.ts:122).    *)
NothingOutlives == Stopped => \A c \in Conns : ~Live(c)
=============================================================================
