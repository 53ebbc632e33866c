------------------------------- MODULE ToolGate -------------------------------
(***************************************************************************)
(* What a task's tool call may do: the permission gate of the task with    *)
(* its path policy, the rules of the administrator that tighten it, and    *)
(* the gate of a sub-task; which commands may run on the computer of the   *)
(* service; and what gets in from outside: the address a request is judged *)
(* by, the departments of an organization, the callbacks of its connectors.*)
(* A path is a sequence of names, relative or not.                         *)
(***************************************************************************)
EXTENDS Naturals, Sequences, FiniteSets, SequencesExt, FiniteSetsExt

Workspace == <<"data", "task">>
System == {<<"etc">>}
CredentialDirs == {<<".ssh">>, <<".config", "gcloud">>}
CredentialFiles == {"key.pem"}
SELF_SEGMENTS == {"vendor"}
EVIDENCE_SEGMENTS == {"sessions"}

(* path.resolve() and path.normalize(): names as they are read, ".." leaves *)
(* the last directory, and nothing leaves the root.                         *)
Step(at, name) == IF name # ".." THEN Append(at, name) ELSE IF at = <<>> THEN at ELSE Front(at)
resolve(path) ==
  LET at[n \in 0 .. Len(path.names)] ==
        IF n = 0 THEN IF path.absolute THEN <<>> ELSE Workspace ELSE Step(at[n - 1], path.names[n])
  IN  at[Len(path.names)]

Under(at, dirs) == \E d \in dirs : IsPrefix(d, at)
Holds(at, dir) == \E i \in 1 .. Len(at) - Len(dir) + 1 : SubSeq(at, i, i + Len(dir) - 1) = dir

(* checkPath(): the rule a path breaks, or "ok".                            *)
checkPath(path, granted, files) ==
  LET at == resolve(path)
  IN  IF Under(at, System) THEN "system"
      ELSE IF (\E d \in CredentialDirs : Holds(at, d)) \/ (at # <<>> /\ Last(at) \in CredentialFiles) THEN "credential"
      ELSE IF IsPrefix(Workspace, at) THEN "ok"
      ELSE IF Range(at) \cap SELF_SEGMENTS # {} THEN "self"
      ELSE IF Range(at) \cap EVIDENCE_SEGMENTS # {} THEN "evidence"
      ELSE IF at \in files \/ Under(at, granted) THEN "ok"
      ELSE IF ".." \in Range(path.names) THEN "escape" ELSE "outside_workspace"

-----------------------------------------------------------------------------
(* A request is a tool, the paths its arguments name, and whether a command *)
(* in them begins as some rule says; a policy of the table says whether the *)
(* tool's paths are checked and whether the user confirms.                  *)
PermissionGate(request, policies, granted, files) ==
  LET mine == {p \in policies : p.tool = request.tool}
  IN  IF mine = {} \/ (\E p \in mine : /\ p.checksPaths
                                       /\ \E path \in request.paths : checkPath(path, granted, files) # "ok")
      THEN "block"
      ELSE IF \E p \in mine : p.requiresConfirm THEN "confirm" ELSE "allow"

restrictPolicies(policies, tools) == {p \in policies : p.tool \in tools}

(* logicalPath(): where in the workspace a path leads, if in it.            *)
Logical(request) ==
  {SubSeq(resolve(p), Len(Workspace) + 1, Len(resolve(p))) : p \in {q \in request.paths : IsPrefix(Workspace, resolve(q))}}

(* A rule names a tool or all of them, and a prefix of paths, a beginning   *)
(* of commands, both or neither.                                            *)
Applies(rule, request) ==
  /\ rule.tool \in {"*", request.tool}
  /\ rule.byPath => \E at \in Logical(request) : IsPrefix(rule.prefix, at)
  /\ rule.byCommand => request.runs

WriteTools == {"write_document"}

(* governToolRequest(): "none" says nothing, and allows nothing.            *)
governToolRequest(request, governance) ==
  LET rules == {r \in governance.rules : Applies(r, request)}
  IN  IF request.tool \in governance.disabledTools \/ (governance.blocksSecrets /\ request.secret)
         \/ (\E r \in rules : r.decision = "deny")
      THEN "block"
      ELSE IF rules # {} \/ (governance.confirmWrites /\ request.tool \in WriteTools)
      THEN "confirm" ELSE "none"

(* Mutant of Decide: the answer of the rules, when there is one, is the     *)
(* answer.                                                                  *)
DecideExtra(request, policies, files, governance) ==
  LET extra == governToolRequest(request, governance)
  IN  IF extra = "none" THEN PermissionGate(request, policies, {}, files) ELSE extra

(* withToolGovernance()                                                     *)
Decide(request, policies, files, governance) ==
  LET base == PermissionGate(request, policies, {}, files)
      extra == governToolRequest(request, governance)
  IN  IF base = "block" \/ extra = "block" THEN "block"
      ELSE IF base = "confirm" \/ extra = "none" THEN base ELSE extra

(* filterTools(): what the model is not shown at all.                       *)
Hidden(tool, governance) ==
  \/ tool \in governance.disabledTools
  \/ \E r \in governance.rules : r.tool \in {"*", tool} /\ r.decision = "deny" /\ ~r.byPath /\ ~r.byCommand

(* The gate main.ts gives a sub-task: the base policies of its tools.       *)
DecideForChild(request, policies, files, tools) ==
  PermissionGate(request, restrictPolicies(policies, tools), {}, files)

-----------------------------------------------------------------------------
Strictness(decision) == CASE decision = "allow" -> 0 [] decision = "confirm" -> 1 [] decision = "block" -> 2

(* Spelled otherwise: a directory entered and left again.                   *)
Detour(path, n) == [path EXCEPT !.names = SubSeq(@, 1, n) \o <<"sub", "..">> \o SubSeq(@, n + 1, Len(@))]

(* A path is judged by where it leads; what is granted never opens what is  *)
(* forbidden, and a granted file opens that file only: path-policy.ts:99.   *)
PathsSound(path, granted, files) ==
  LET at == resolve(path)
      ok == checkPath(path, granted, files) = "ok"
  IN  /\ \A n \in 0 .. Len(path.names) : ok <=> checkPath(Detour(path, n), granted, files) = "ok"
      /\ ok => /\ at \notin System /\ ".ssh" \notin Range(at) /\ "key.pem" # (IF at = <<>> THEN "" ELSE Last(at))
               /\ IsPrefix(Workspace, at) \/ Range(at) \cap {"vendor", "sessions"} = {}
      /\ ok /\ checkPath(path, granted, {}) # "ok" => at \in files
      /\ ok /\ checkPath(path, {}, files) # "ok" => Under(at, granted)
      /\ checkPath(path, {}, {}) = "ok" => ok

(* The rules of the administrator only tighten: no answer is looser than    *)
(* the task's gate gives, and no rule taken away makes one stricter.  A     *)
(* hidden tool is one whose every call is blocked, and a prefix denied is   *)
(* denied below it: tool-governance.ts:101.                                 *)
GateSound(request, policies, files, governance) ==
  LET decision == Decide(request, policies, files, governance)
  IN  /\ Strictness(decision) >= Strictness(PermissionGate(request, policies, {}, files))
      /\ \A r \in governance.rules :
           Strictness(Decide(request, policies, files, [governance EXCEPT !.rules = @ \ {r}])) <= Strictness(decision)
      /\ Hidden(request.tool, governance) => decision = "block"
      /\ decision # "block" => \E p \in policies :
           p.tool = request.tool /\ (p.checksPaths => \A q \in request.paths : PathsSound(q, {}, files) /\ checkPath(q, {}, files) = "ok")
      /\ \A r \in governance.rules, path \in request.paths :
           /\ r.decision = "deny" /\ r.tool = "*" /\ r.byPath /\ ~r.byCommand
           /\ IsPrefix(Workspace \o r.prefix, resolve(path))
           => decision = "block"

(* Not so: what is denied to the task is denied to its sub-tasks.           *)
ChildrenGoverned(request, policies, files, governance) ==
  Decide(request, policies, files, governance) = "block" => DecideForChild(request, policies, files, {request.tool}) = "block"
-----------------------------------------------------------------------------
(* Which commands may run on the computer of the service: the settings an   *)
(* administrator may save, the capabilities they open, the class of a       *)
(* command.  A command is the set of what the lexer finds in it; a setting  *)
(* is a record of switches, with valid directories and isolation.           *)
Levels == {"off", "readonly", "workspace", "extended", "full"}
ConfirmModes == {"always", "risk", "session", "never"}
HighRisk == {"network", "install_pkg", "write_outside", "system_maintenance"}

(* "dynamic": expansions and quotes left open; "hard": sudo, eval, dd...;   *)
(* "outside": a path out of the roots or in what is protected; "inline": an *)
(* interpreter with code in its arguments, or fed by a pipe; "denied" and   *)
(* "listed": the patterns of the administrator match; "read": a literal     *)
(* read-only command.                                                       *)
Refusals == {"dynamic", "hard", "outside", "inline", "denied"}
Features == Refusals \cup {"listed", "read", "write", "remove", "program", "net", "installer", "maintain"}

(* What a command is made of: one refusal, or a reading, a file operation   *)
(* or a program, with what else its words say.                              *)
Commands ==
  {{r, "program"} : r \in Refusals}
  \cup {{"read"}, {"read", "listed"}, {"write"}, {"write", "remove"}, {"write", "listed"}}
  \cup {{"program"} \cup s : s \in SUBSET {"net", "installer", "maintain", "remove"}}

Extended(c) == c.level \in {"extended", "full"}

(* The settings localControlConfig() accepts when local control is enabled. *)
Accepts(c) ==
  /\ c.single /\ c.level # "off"
  /\ c.trusted => c.level # "readonly" /\ c.trustAck
  /\ Extended(c) => c.danger
  /\ c.level = "full" => c.disclaimer
  /\ c.network \/ c.install => Extended(c)
  /\ c.outside => c.level = "full"
  /\ c.confirm = "never" => c.level = "full"
  /\ c.confirm = "session" => c.level # "readonly"

Configs ==
  {c \in [level : Levels, confirm : ConfirmModes, network : BOOLEAN, install : BOOLEAN, remove : BOOLEAN,
          outside : BOOLEAN, trusted : BOOLEAN, single : BOOLEAN, trustAck : BOOLEAN, danger : BOOLEAN,
          disclaimer : BOOLEAN] : Accepts(c)}

(* localCapabilities()                                                      *)
Capabilities(c) ==
  {"read"}
  \cup (IF c.level # "readonly" THEN {"write_in_root", "execute_local"} ELSE {})
  \cup (IF c.level # "readonly" /\ c.remove THEN {"delete"} ELSE {})
  \cup (IF Extended(c) /\ c.network THEN {"network"} ELSE {})
  \cup (IF Extended(c) /\ c.install THEN {"install_pkg"} ELSE {})
  \cup (IF c.level = "full" /\ c.outside THEN {"write_outside"} ELSE {})
  \cup (IF c.level = "full" THEN {"system_maintenance"} ELSE {})

(* What the class of a command says it needs.  An arbitrary program needs   *)
(* whatever the isolation lets it do.                                       *)
Needs(cmd, c) ==
  {"read"}
  \cup (IF "read" \notin cmd THEN {"write_in_root"} ELSE {})
  \cup (IF "program" \in cmd
        THEN {"execute_local", "delete"} \cup (IF c.network THEN {"network"} ELSE {})
             \cup (IF c.install THEN {"install_pkg"} ELSE {})
        ELSE {})
  \cup (IF "remove" \in cmd THEN {"delete"} ELSE {})
  \cup (IF "net" \in cmd THEN {"network"} ELSE {})
  \cup (IF "installer" \in cmd THEN {"install_pkg", "network"} ELSE {})
  \cup (IF "maintain" \in cmd THEN {"system_maintenance"} ELSE {})

IsHighRisk(cmd, c) == Needs(cmd, c) \cap HighRisk # {}

(* classifyCommand()                                                        *)
Classify(cmd, c) ==
  IF cmd \cap Refusals # {} \/ ~(Needs(cmd, c) \subseteq Capabilities(c)) THEN "block"
  ELSE IF /\ ~IsHighRisk(cmd, c)
          /\ \/ c.trusted \/ c.confirm = "never"
             \/ "read" \in cmd /\ (c.confirm = "risk" \/ "listed" \in cmd)
       THEN "allow" ELSE "confirm"

(* sessionEligible() and the conditions of LocalSessionGrants               *)
MayGrant(cmd, c) ==
  /\ c.level # "readonly" /\ c.confirm # "never"
  /\ Classify(cmd, c) # "block" /\ ~IsHighRisk(cmd, c)
  /\ Needs(cmd, c) \subseteq Capabilities(c)

-----------------------------------------------------------------------------
(* What the isolation lets a program do.                                    *)
Powers(c) == Capabilities(c) \ {"write_outside", "system_maintenance"}

(* A command runs without being asked about, or under a session grant, only *)
(* when neither it nor the program it may start has a high-risk power; and  *)
(* nothing runs beyond what the administrator opened: classify.ts:99.       *)
CommandSound(cmd, c) ==
  /\ Classify(cmd, c) = "allow" \/ MayGrant(cmd, c) =>
       /\ cmd \cap {"net", "installer", "maintain"} = {}
       /\ "program" \in cmd => Powers(c) \cap HighRisk = {}
  /\ Classify(cmd, c) # "block" =>
       /\ c.level = "readonly" => "read" \in cmd
       /\ "program" \in cmd \/ "remove" \in cmd => c.remove
       /\ "net" \in cmd => c.network /\ Extended(c)
       /\ "maintain" \in cmd => c.level = "full" /\ c.disclaimer
-----------------------------------------------------------------------------
(* The address of who asks, enterpriseClientIp(): the header is believed    *)
(* from trusted proxies only, from the right, as far as they go.  An        *)
(* address "?" is none; {} is a request that is refused.                    *)
MAX_FORWARDED == 16
clientIp(remote, forwarded, trusted) ==
  IF remote \notin trusted \/ forwarded = <<>> THEN {remote}
  ELSE IF Len(forwarded) > MAX_FORWARDED \/ "?" \in Range(forwarded) THEN {}
  ELSE {FoldRight(LAMBDA address, current : IF current \in trusted THEN address ELSE current, forwarded, remote)}

(* assertRequest(): the addresses an organization allows; {} allows all.    *)
Admitted(remote, forwarded, trusted, allowed) ==
  allowed = {} \/ \E ip \in clientIp(remote, forwarded, trusted) : ip \in allowed

(* What a client writes into the header changes nothing: it is judged by    *)
(* the address the last trusted proxy saw, which is no proxy or the first   *)
(* of a chain of proxies: enterprise.ts:31.                                 *)
AddressSound(remote, forwarded, trusted, allowed) ==
  \A ip \in clientIp(remote, forwarded, trusted) :
    /\ ip \notin trusted =>
         \A forged \in Range(forwarded) : clientIp(remote, <<forged>> \o forwarded, trusted) = {ip}
    /\ ip # remote => remote \in trusted
    /\ allowed # {} /\ Admitted(remote, forwarded, trusted, allowed) => ip \in allowed

-----------------------------------------------------------------------------
(* Departments: a function from their ids to the id above, "" at the top.   *)
Above(tree, id) ==
  FoldLeft(LAMBDA met, n : met \cup ({tree[d] : d \in met \ {""}} \ {""}), {id} \ {""}, [n \in 1 .. Cardinality(DOMAIN tree) |-> n])

upsertDepartment(tree, id, parent) ==
  IF parent # "" /\ (parent \notin DOMAIN tree \/ id \in Above(tree, parent)) THEN tree
  ELSE [d \in DOMAIN tree \cup {id} |-> IF d = id THEN parent ELSE tree[d]]

removeDepartment(tree, id) ==
  IF id \in DOMAIN tree /\ \A d \in DOMAIN tree : tree[d] # id THEN [d \in DOMAIN tree \ {id} |-> tree[d]] ELSE tree

Departments(calls) ==
  FoldLeft(LAMBDA tree, c : IF c.removes THEN removeDepartment(tree, c.id) ELSE upsertDepartment(tree, c.id, c.parent),
           << >>, calls)

(* After any calls every department leads to the top: none is above itself, *)
(* and none is below one that is gone: enterprise.ts:66.                    *)
DepartmentsSound(calls) ==
  LET tree == Departments(calls)
  IN  \A d \in DOMAIN tree : /\ tree[d] \in DOMAIN tree \cup {""}
                             /\ d \notin Above(tree, tree[d])

-----------------------------------------------------------------------------
(* Callbacks.  Credentials: a function from the keys given to whether they  *)
(* are of the form asked for.                                               *)
Kinds == {"signed-webhook", "feishu", "wecom"}
KeysOf(kind) ==
  CASE kind = "signed-webhook" -> {"secret"}
    [] kind = "feishu" -> {"verificationToken", "encryptKey", "appId", "appSecret"}
    [] kind = "wecom" -> {"token", "encodingAESKey", "corpId", "corpSecret", "agentId"}
Required(kind) ==
  CASE kind = "signed-webhook" -> {"secret"}
    [] kind = "feishu" -> {"verificationToken", "encryptKey"}
    [] kind = "wecom" -> {"token", "encodingAESKey", "corpId"}
Replying(kind) ==
  CASE kind = "signed-webhook" -> {}
    [] kind = "feishu" -> {"appId", "appSecret"}
    [] kind = "wecom" -> {"corpId", "corpSecret", "agentId"}

(* create(): {} when refused; keys of another kind are dropped.  "single"   *)
(* says that the account is one recipient.                                  *)
createBinding(v) ==
  IF (v.kind # "signed-webhook" /\ ~v.single) \/ \E key \in DOMAIN v.keys \cap KeysOf(v.kind) : ~v.keys[key] THEN {}
  ELSE {[kind |-> v.kind, user |-> v.user, single |-> v.single, enabled |-> v.enabled, keys |-> DOMAIN v.keys \cap KeysOf(v.kind)]}

configured(b) == Required(b.kind) \subseteq b.keys

(* Who is told of the end of the task by the connector's own messages.      *)
nativeDelivery(b) ==
  IF b.single /\ b.kind # "signed-webhook" /\ Replying(b.kind) \subseteq b.keys THEN {b.user} ELSE {}

(* A call: its method, and whether its time is fresh, its nonce in bounds,  *)
(* its signature right, what is encrypted opens for the organization and    *)
(* bears the token, and what it says.                                       *)
Authentic(b, r) ==
  /\ r.fresh /\ r.signed
  /\ b.kind # "wecom" => r.method = "POST"
  /\ b.kind # "signed-webhook" => r.nonce /\ r.opens

Echoed(b, r) == \/ b.kind = "feishu" /\ r.says = "verification"
                \/ b.kind = "wecom" /\ r.method = "GET"

receive(b, r) ==
  IF ~b.enabled \/ ~configured(b) \/ ~Authentic(b, r) THEN "refused"
  ELSE IF Echoed(b, r) THEN "echo"
  ELSE IF /\ b.kind # "signed-webhook" => r.says = "text" /\ b.single
          /\ r.method = "POST" /\ r.event /\ r.sender = b.user
       THEN "task" ELSE "refused"

(* A connector that is shown as configured takes what its user sends, as    *)
(* create() let it in; no other call makes a task, and the answer goes to   *)
(* who sent it and to no one else: connector-inbound.ts:45.                 *)
CallbackSound(v, r) ==
  \A b \in createBinding(v) :
    LET sent == r.fresh /\ r.signed /\ r.nonce /\ r.opens /\ r.method = "POST" /\ r.says = "text" /\ r.event
    IN  /\ receive(b, r) = "task" =>
             /\ r.fresh /\ r.signed /\ r.sender = v.user
             /\ r.says = "text" \/ b.kind = "signed-webhook"
             /\ nativeDelivery(b) \subseteq {r.sender}
        /\ b.enabled /\ configured(b) /\ sent /\ r.sender = v.user => receive(b, r) = "task"
        /\ ~b.enabled \/ ~configured(b) => receive(b, r) = "refused"

(* Not so: a connector that can answer can be called.  The keys to send     *)
(* with and those to receive with are apart (connector-inbound.ts:17).      *)
AnswersAreAsked(v) == \A b \in createBinding(v) : nativeDelivery(b) # {} => configured(b)
=============================================================================
