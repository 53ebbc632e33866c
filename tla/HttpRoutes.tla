----------------------------- MODULE HttpRoutes -----------------------------
(***************************************************************************)
(* The answer to a request: createServer offers it to handlers one after   *)
(* the other, the first that claims it answers it with the first of its    *)
(* rows that matches, and a row is a list of checks in their order, the    *)
(* first of which that fails decides the status.  A path is the sequence   *)
(* of its segments, the query that matters belonging to the last one; the  *)
(* checks of values are one check "body", and rate limits are left out.    *)
(***************************************************************************)
EXTENDS Naturals, Sequences, SequencesExt

CONSTANT None

Id == "*"        \* one segment, whichever
Rest == "..."    \* the segments that follow, if any
All == {"GET", "HEAD", "POST", "PUT", "PATCH", "DELETE"}
Read == {"GET"}
Post == {"POST"}
Patch == {"PATCH"}
Edit == {"PATCH", "PUT"}
Delete == {"DELETE"}

Fits(pattern, path) ==
  LET open == Last(pattern) = Rest
      n == IF open THEN Len(pattern) - 1 ELSE Len(pattern)
  IN /\ IF open THEN Len(path) >= n ELSE Len(path) = n
     /\ \A i \in 1 .. n : pattern[i] \in {Id, path[i]}

(* A row: what it matches, the kind of the object it is about, its checks   *)
(* in order, and whether it changes anything.                               *)
R(methods, path, kind, checks, effect) ==
  [methods |-> methods, path |-> path, kind |-> kind, checks |-> checks, effect |-> effect]
User(methods, path, kind, checks, effect) ==
  R(methods, <<"api">> \o path, kind, <<"login">> \o checks, effect)

(* A handler: what it claims, its rows, and its checks when none matches.   *)
H(claims, rows, otherwise) == [claims |-> claims, rows |-> rows, otherwise |-> otherwise]
Claim(methods, path) == [methods |-> methods, path |-> path]
Api(path) == Claim(All, <<"api">> \o path)
NoRow == <<"login">>

-----------------------------------------------------------------------------
(* The handlers, in their files' order of rows.                             *)
Automation == H({Api(<<"automations", Rest>>), Api(<<"connectors", Rest>>)},
  <<R(All, <<"api", "connectors", "inbound", Id>>, "binding", <<"signed">>, "write"),
    User(Read, <<"automations">>, "automation", <<>>, "read"),
    User(Post, <<"automations">>, None, <<"body">>, "write"),
    User(Read, <<"automations", "history">>, "occurrence", <<>>, "read"),
    User(Read, <<"automations", "deliveries">>, "delivery", <<>>, "read"),
    User(Post, <<"automations", "deliveries", Id, "retry">>, "delivery", <<"body", "found">>, "write"),
    User(Post, <<"automations", "deliveries", Id, "cancel">>, "delivery", <<"body", "found">>, "write"),
    User(Post, <<"automations", "occurrences", Id, "cancel">>, "occurrence", <<"body", "found">>, "write"),
    User(Post, <<"automations", Id, "run">>, "automation", <<"body", "found">>, "write"),
    User(Patch, <<"automations", Id>>, "automation", <<"body", "found">>, "write"),
    User(Delete, <<"automations", Id>>, "automation", <<"found">>, "write"),
    User(Read, <<"connectors">>, "binding", <<>>, "read"),
    User(Read, <<"connectors", "catalog">>, None, <<>>, "read"),
    User(Post, <<"connectors">>, None, <<"body">>, "write"),
    User(Patch, <<"connectors", Id>>, "binding", <<"body", "found">>, "write"),
    User(Delete, <<"connectors", Id>>, "binding", <<"found">>, "write")>>, NoRow)

Enterprise ==
  LET Org(methods, path, kind, checks, effect) == User(methods, <<"admin", "enterprise">> \o path, kind, checks, effect)
  IN H({Api(<<"auth", "oidc", Rest>>), Api(<<"admin", "enterprise", Rest>>)},
  <<R(Read, <<"api", "auth", "oidc", "start">>, None, <<>>, "write"),
    R(Read, <<"api", "auth", "oidc", "callback">>, None, <<"state">>, "write"),
    R(All, <<"api", "auth", "oidc", Rest>>, None, <<"unknown">>, "read"),
    Org(Read, <<>>, "org", <<"admin">>, "read"),
    Org(Patch, <<>>, "org", <<"body", "admin">>, "write"),
    Org(Post, <<"departments">>, "org", <<"body", "admin">>, "write"),
    Org(Delete, <<"departments", Id>>, "department", <<"admin", "found", "free">>, "write"),
    Org(Read, <<"oidc", "providers">>, "org", <<"admin">>, "read"),
    Org(Post, <<"oidc", "providers">>, "org", <<"body", "admin">>, "write"),
    Org(Delete, <<"oidc", "providers", Id>>, "provider", <<"admin", "found">>, "write"),
    Org(Read, <<"oidc", "bindings">>, "org", <<"admin">>, "read"),
    Org(Post, <<"oidc", "bindings">>, "org", <<"body", "admin">>, "write"),
    Org(Delete, <<"oidc", "bindings", Id>>, "provider", <<"admin", "found">>, "write")>>, NoRow)

Logo == H({Claim(Post, <<"api", "control", "branding", "logo">>), Claim(Read, <<"api", "branding", "logo", Id>>)},
  <<User(Post, <<"control", "branding", "logo">>, None, <<"admin", "body">>, "write"),
    R(Read, <<"api", "branding", "logo", Id>>, None, <<>>, "read")>>, NoRow)

CustomExtension ==
  H({Api(<<"extensions">>), Api(<<"extensions", "commands">>), Api(<<"control", "extensions">>)},
  <<User(Read, <<"extensions">>, None, <<>>, "read"),
    User(Read, <<"control", "extensions">>, None, <<"platform">>, "read"),
    User(Post, <<"extensions", "commands">>, None, <<"body">>, "write"),
    User(Patch, <<"control", "extensions">>, None, <<"platform", "body">>, "write")>>, NoRow)

SkillPackage == H({Api(<<"skill-packages", Rest>>)},
  <<User(Read, <<"skill-packages">>, "package", <<>>, "read"),
    User(Post, <<"skill-packages">>, None, <<"body">>, "write"),
    User(Patch, <<"skill-packages", Id, Rest>>, "package", <<"body", "found">>, "write"),
    User(Delete, <<"skill-packages", Id, Rest>>, "package", <<"found">>, "write")>>, NoRow)

Workbench ==
  LET W(methods, path, kind, checks, effect) == User(methods, <<"workbench">> \o path, kind, checks, effect)
  IN H({Api(<<"workbench", Id, Rest>>)},
  <<R(Read, <<"api", "workbench", "shares", Id>>, "share", <<"shared">>, "read"),
    R(Read, <<"api", "workbench", "shares", Id, "files", Id, Id>>, "share", <<"shared">>, "read"),
    W(Read, <<"preferences">>, "preference", <<>>, "read"),
    W({"PUT"}, <<"preferences">>, "preference", <<"body">>, "write"),
    W(Read, <<"conversations">>, "preference", <<>>, "read"),
    W(Patch, <<"conversations", Id>>, "task", <<"body", "found", "owner">>, "write"),
    W(Read, <<"files">>, "file", <<>>, "read"),
    W(Post, <<"files", "batch", Rest>>, "file", <<"body", "quiet">>, "write"),
    W(Read, <<"shares">>, "preference", <<>>, "read"),
    W(Post, <<"shares">>, "task", <<"body", "found">>, "write"),
    W(Delete, <<"shares", Id>>, "team", <<"found", "owner">>, "write"),
    W(Read, <<"handoff", "options", Rest>>, "task", <<"found">>, "read"),
    W(Post, <<"handoff">>, "task", <<"body", "found">>, "read"),
    W(Read, <<"artifacts", Id, "diff", Rest>>, "task", <<"found">>, "read"),
    W(Read, <<"artifacts", Id, "comments", Rest>>, "task", <<"found">>, "read"),
    W(Post, <<"artifacts", Id, "comments", Rest>>, "task", <<"body", "found">>, "write"),
    W(Patch, <<"artifacts", Id, "comments", Id, Rest>>, "task", <<"body", "found", "owner">>, "write"),
    W(Read, <<"teams", "members", Rest>>, None, <<>>, "read"),
    W(Read, <<"teams">>, "team", <<>>, "read"),
    W(Post, <<"teams">>, None, <<"body">>, "write"),
    W(Patch, <<"teams", Id>>, "team", <<"body", "found", "editor">>, "write")>>, NoRow)

Admin ==
  LET Control(methods, path, kind, checks, effect) ==
        R(methods, <<"api", "control">> \o path, kind, <<"csrf", "login", "admin">> \o checks, effect)
      Deploy(methods, path, checks, effect) == Control(methods, path, None, <<"deploy">> \o checks, effect)
      Auth(methods, name, kind, checks, effect) == R(methods, <<"api", "auth", name>>, kind, <<"csrf">> \o checks, effect)
  IN H({Api(<<"control", Id, Rest>>), Api(<<"auth", Id, Rest>>), Api(<<"branding">>)},
  <<R(Read, <<"api", "branding">>, None, <<>>, "read"),
    R(Read, <<"api", "control", "bootstrap-status">>, None, <<>>, "read"),
    R(Post, <<"api", "control", "bootstrap">>, None, <<"csrf", "body", "claim">>, "write"),
    R(Post, <<"api", "auth", "login">>, None, <<"body", "password">>, "write"),
    Auth(Post, "logout", None, <<>>, "leave"),
    Auth(Read, "me", "preference", <<"login">>, "read"),
    Auth(Read, "profile", "preference", <<"login">>, "read"),
    Auth(Patch, "profile", "preference", <<"login", "body">>, "write"),
    Control(Post, <<"session">>, None, <<>>, "write"),
    Deploy(Post, <<"model", "suspend">>, <<>>, "write"),
    Deploy(Post, <<"local-control", "preflight">>, <<"body">>, "read"),
    Control(Read, <<"schema">>, None, <<>>, "read"),
    Deploy(Read, <<"settings">>, <<>>, "read"),
    Deploy(Read, <<"settings", "history">>, <<>>, "read"),
    Deploy(Post, <<"settings", Id, Rest>>, <<"body">>, "write"),
    Deploy({"PUT"}, <<"settings", "draft">>, <<"body">>, "write"),
    Deploy(Read, <<"connections">>, <<>>, "read"),
    Deploy(Post, <<"connections", "test">>, <<"body">>, "write"),
    Control(Read, <<"accounts">>, "account", <<>>, "read"),
    Control(Post, <<"accounts">>, None, <<"body">>, "write"),
    Control({"PATCH", "POST"}, <<"accounts", Id>>, "account", <<"body", "found">>, "write"),
    Control({"PATCH", "POST"}, <<"accounts", Id, "revoke-sessions">>, "account", <<"body", "found">>, "write"),
    Control({"PATCH", "POST"}, <<"accounts", Id, "reset-credential">>, "account", <<"body", "found">>, "write"),
    Control(Read, <<"traces", Id>>, "org", <<"found">>, "read"),
    Control(Post, <<"sandboxes", Id, "release">>, "lease", <<"deploy", "found">>, "write"),
    Control(Read, <<"observability">>, "record", <<>>, "read"),
    Control(Read, <<"evaluations">>, "org", <<>>, "read"),
    Control(Read, <<"evaluations", "compare">>, "org", <<"found">>, "read"),
    Control(Post, <<"evaluations", "datasets">>, None, <<"body">>, "write"),
    Control(Post, <<"evaluations", "runs">>, "org", <<"body", "found">>, "write"),
    Control(Post, <<"evaluations", "runs", Id, "cancel">>, "org", <<"body", "found">>, "write"),
    Control(Post, <<"evaluations", "runs", Id, "review">>, "org", <<"body", "given">>, "write")>>,
  <<"csrf", "login", "admin">>)

(* createServer's own endpoints, and the pages of administrators.           *)
Ready == H({Claim(Read, <<"readyz">>)}, <<R(Read, <<"readyz">>, None, <<>>, "read")>>, NoRow)
OpenApi == H({Claim(Read, <<"api", "openapi.json">>)}, <<R(Read, <<"api", "openapi.json">>, None, <<>>, "read")>>, NoRow)
ModelProfiles == H({Claim(Read, <<"api", "model-profiles">>)}, <<User(Read, <<"model-profiles">>, None, <<>>, "read")>>, NoRow)
Logout == H({Claim(Post, <<"control", "logout">>)}, <<R(Post, <<"control", "logout">>, None, <<>>, "leave")>>, NoRow)
ControlSession == H({Claim(Post, <<"api", "control", "session">>)},
  <<User(Post, <<"control", "session">>, None, <<"admin">>, "write")>>, NoRow)
ControlGate == H({Claim(All, <<"control", Rest>>)},
  <<R({"GET", "HEAD"}, <<"control", Rest>>, None, <<"login", "admin">>, "read")>>, <<"login", "admin">>)
References ==
  LET Taken(what) == <<"workspace", what, "reference">>
  IN H({Claim(Post, <<"api">> \o Taken(what)) : what \in {"files", "artifacts"}},
  <<User(Post, Taken("files"), "file", <<"body", "found">>, "write"),
    User(Post, Taken("artifacts"), "record", <<"body", "found">>, "write")>>, NoRow)

Managed ==
  LET M(methods, kind, object, checks, effect) == User(methods, <<kind, Id>>, object, checks, effect)
  IN <<M(Edit, "tasks", "task", <<"body", "found", "owner", "free">>, "write"),
       M(Delete, "tasks", "task", <<"found", "owner", "free">>, "write"),
       M(Edit, "conversations", "task", <<"body", "found", "owner", "free">>, "write"),
       M(Delete, "conversations", "task", <<"found", "owner", "free">>, "write"),
       M(Edit, "skills", "addon", <<"body", "found", "owner">>, "write"),
       M(Delete, "skills", "addon", <<"found", "owner", "free">>, "write"),
       M(Edit, "agents", "addon", <<"body", "found", "owner">>, "write"),
       M(Delete, "agents", "addon", <<"found", "owner">>, "write"),
       M(Delete, "files", "file", <<"admin", "quiet", "found">>, "write"),
       M(Edit, "jobs", "job", <<"body", "found", "owner">>, "write"),
       M(Delete, "jobs", "job", <<"found", "owner">>, "write")>>
ManagedKinds == {"tasks", "conversations", "skills", "agents", "files", "jobs"}
(* Mutant of Management: it takes its paths whatever the method.            *)
ManagementAnyMethod == H({Claim(All, <<"api", kind, Id>>) : kind \in ManagedKinds}, Managed, NoRow)
Management == H({Claim(Edit \cup Delete, <<"api", kind, Id>>) : kind \in ManagedKinds}, Managed, NoRow)

KnowledgeJob ==
  H({Api(<<"knowledge?async=true">>), Api(<<"knowledge", Id, "reindex">>), Api(<<"knowledge", "jobs", Rest>>)},
  <<User(Post, <<"knowledge", Id, "reindex">>, None, <<>>, "write"),
    User(Post, <<"knowledge?async=true">>, None, <<"body">>, "write"),
    User(Read, <<"knowledge", "jobs", Id>>, "job", <<"found">>, "read"),
    User(Post, <<"knowledge", "jobs", Id, "retry">>, "job", <<"found", "free">>, "write")>>, NoRow)

Resource == H({Api(<<"tasks", Id, "artifacts">>), Api(<<"artifacts", Rest>>)},
  <<User(Read, <<"tasks", Id, "artifacts">>, "record", <<"found">>, "read"),
    User(Read, <<"artifacts", Id, "versions">>, "record", <<"found">>, "read"),
    User(Read, <<"artifacts", Id, "versions", Id>>, "record", <<"found">>, "read"),
    User(Post, <<"artifacts", Id, "revisions">>, "record", <<"found", "body">>, "write")>>, NoRow)

Backend ==
  H({Api(<<"capabilities", Rest>>), Api(<<"conversations", Rest>>), Claim(Patch, <<"api", "jobs", Rest>>), Api(<<"jobs", Id, "events">>)}
      \cup {Api(<<"tasks", Id, what>>) : what \in {"actions", "retry", "retry-generation"}},
  <<User(Read, <<"capabilities">>, None, <<>>, "read"),
    User(Read, <<"tasks", Id, "actions">>, "task", <<"found">>, "read"),
    User(Post, <<"tasks", Id, "retry-generation">>, "task", <<"found", "free", "mine", "body">>, "write"),
    User(Post, <<"tasks", Id, "retry">>, "task", <<"found", "free", "body">>, "write"),
    User(Read, <<"jobs", Id, "events">>, "job", <<"found">>, "read"),
    User(Patch, <<"jobs", Id>>, "job", <<"body", "found", "owner">>, "write"),
    User(Read, <<"conversations">>, "task", <<>>, "read"),
    User(Read, <<"conversations", Id, "events">>, "task", <<"found">>, "read"),
    User(Read, <<"conversations", Id, "messages">>, "task", <<"found">>, "read")>>, NoRow)

Workspace == H({Api(<<"knowledge", Rest>>), Api(<<"files", Id, "preview">>), Api(<<"tasks", Id, "artifacts", Id, "preview">>)},
  <<User(Read, <<"knowledge", "status">>, None, <<>>, "read"),
    User(Post, <<"knowledge", "search">>, "document", <<"body">>, "read"),
    User(Read, <<"knowledge">>, "document", <<>>, "read"),
    User(Read, <<"knowledge", Id, "versions", Id>>, "document", <<"found">>, "read"),
    User(Post, <<"knowledge">>, None, <<"body">>, "write"),
    User(Delete, <<"knowledge", Id>>, "document", <<"found", "owner">>, "write"),
    User(Read, <<"files", Id, "preview">>, "file", <<"found">>, "read"),
    User(Read, <<"tasks", Id, "artifacts", Id, "preview">>, "record", <<"found">>, "read")>>, NoRow)

-----------------------------------------------------------------------------
(* The application, which answers what no handler before it claimed.        *)
Collections ==
  <<User(Read, <<"me">>, None, <<>>, "read"),
    User(Read, <<"scenarios">>, None, <<>>, "read"),
    User(Read, <<"jobs">>, "job", <<>>, "read"),
    User(Post, <<"jobs">>, None, <<"body">>, "write"),
    User(Read, <<"jobs", Id>>, "job", <<"found">>, "read"),
    User(Read, <<"skills">>, "addon", <<>>, "read"),
    User(Post, <<"skills">>, None, <<"body">>, "write"),
    User(Read, <<"agents">>, "addon", <<>>, "read"),
    User(Post, <<"agents">>, None, <<"body">>, "write")>>
FilesAndEvents ==
  <<User(Post, <<"files">>, None, <<"body">>, "write"),
    User(Read, <<"files">>, "file", <<>>, "read"),
    User(Post, <<"files", Id, "ticket">>, "file", <<"found">>, "ticket"),
    User(Read, <<"files", Id>>, "file", <<"found">>, "read"),
    User(Post, <<"events", "ticket?taskId">>, "task", <<"found">>, "ticket"),
    User(Post, <<"events", "ticket">>, None, <<>>, "ticket"),
    User(Read, <<"events?taskId">>, "task", <<"found">>, "read"),
    User(Read, <<"events">>, "task", <<>>, "read")>>
TaskReads ==
  <<User(Read, <<"tasks">>, "task", <<>>, "read"),
    User(Post, <<"tasks">>, None, <<"body">>, "write"),
    User(Read, <<"tasks", Id>>, "task", <<"found">>, "read"),
    User(Read, <<"tasks", Id, "events">>, "task", <<"found">>, "read")>>
TaskArtifacts ==
  <<User(Post, <<"tasks", Id, "artifacts", Id, "ticket">>, "task", <<"found">>, "ticket"),
    User(Read, <<"tasks", Id, "artifacts", Id>>, "task", <<"found">>, "read")>>
Act(action, checks) == User(Post, <<"tasks", Id, action>>, "task", <<"found", "body">> \o checks, "write")
TaskActions ==
  <<Act("steer", <<"free">>), Act("cancel", <<"free">>), Act("confirm", <<"free">>), Act("reject", <<"free">>)>>
Administration ==
  <<User(Read, <<"admin", "usage", Rest>>, "org", <<"admin">>, "read"),
    User(Read, <<"admin", "audit", Rest>>, "org", <<"admin">>, "read"),
    User(Read, <<"admin", "tasks", Rest>>, "task", <<"admin">>, "read"),
    User(All, <<"admin", Rest>>, None, <<"admin", "unknown">>, "read")>>
App ==
  H({Claim(All, <<Rest>>)},
    <<R(Read, <<"healthz">>, None, <<>>, "read"), R({"GET", "HEAD"}, <<"page", Rest>>, None, <<>>, "read")>>
      \o Collections \o FilesAndEvents \o TaskReads \o TaskArtifacts \o TaskActions \o Administration, NoRow)

Handlers ==
  <<Ready, Logo, OpenApi, ModelProfiles, CustomExtension, SkillPackage, Enterprise, Automation, Workbench, Admin, Logout,
    ControlSession, ControlGate, References, Management, KnowledgeJob, Resource, Backend, Workspace, App>>

(* What precedes the gates of origin and session goes to its handler alone. *)
Before == {<<"api", "connectors", "inbound", Id, Rest>>, <<"api", "auth", "oidc", Id, Rest>>}

Claims(h, req) == \E c \in h.claims : req.method \in c.methods /\ Fits(c.path, req.path)
Handler(req) == CHOOSE i \in DOMAIN Handlers : Claims(Handlers[i], req) /\ \A j \in 1 .. i - 1 : ~Claims(Handlers[j], req)
Serves(row, req) == req.method \in row.methods /\ Fits(row.path, req.path)
Row(h, req) ==
  IF \E i \in DOMAIN h.rows : Serves(h.rows[i], req)
  THEN h.rows[CHOOSE i \in DOMAIN h.rows : Serves(h.rows[i], req) /\ \A j \in 1 .. i - 1 : ~Serves(h.rows[j], req)]
  ELSE R(All, <<Rest>>, None, h.otherwise \o <<"unknown">>, "read")

-----------------------------------------------------------------------------
(* Who asks: by a token, else by the session of a browser, else by a ticket *)
(* for this path.                                                           *)
Ticketed(path) ==
  \E p \in {<<"api", "events">>, <<"api", "events?taskId">>, <<"api", "tasks", Id, "artifacts", Id>>, <<"api", "files", Id>>} : Fits(p, path)
Asker(req) ==
  IF req.token # "none" THEN IF req.token = "good" THEN req.who ELSE None
  ELSE IF req.session THEN req.who
  ELSE IF Ticketed(req.path) /\ req.ticket = req.path THEN req.who ELSE None

Admins == {"TENANT_ADMIN", "PLATFORM_ADMIN"}

(* Which objects an asker can see: its own, its workspace's, its tenant's,  *)
(* all (the accounts of a platform administrator).                          *)
Sees(p, kind, o) ==
  IF kind \in {"account", "department", "provider", "org"}
  THEN o.tenant = p.tenant \/ (p.role = "PLATFORM_ADMIN" /\ kind # "org")
  ELSE /\ o.tenant = p.tenant /\ o.workspace = p.workspace
       /\ kind \in {"automation", "occurrence", "delivery", "binding", "package", "preference"} => o.user = p.user
       /\ kind = "task" => ~o.hidden

(* Without its token, a request that may change something needs the secret  *)
(* of the session, except to log in.                                        *)
Unproven(req) ==
  /\ req.session /\ req.token = "none" /\ req.method \notin {"GET", "HEAD"} /\ ~req.csrf
  /\ req.path # <<"api", "auth", "login">>

(* The status a check refuses with, or None.                                *)
Refusal(check, req, kind, o) ==
  LET p == Asker(req)
      seen == o # None /\ Sees(p, kind, o)
      If(refused, status) == IF refused THEN status ELSE None
  IN CASE check = "login" -> If(p = None, "unauthenticated")
       [] check = "csrf" -> If(Unproven(req), "forbidden")
       [] check = "admin" -> If(p.role \notin Admins, "forbidden")
       [] check = "platform" -> If(p.role # "PLATFORM_ADMIN", "forbidden")
       [] check = "deploy" -> If(p.role # "PLATFORM_ADMIN" /\ ~req.alone, "forbidden")
       [] check = "body" -> If(~req.valid, "invalid")
       [] check = "found" -> If(~seen, "missing")
       [] check = "given" -> If(~seen, "invalid")
       [] check = "owner" -> If(o.user # p.user /\ p.role \notin Admins, "forbidden")
       [] check = "editor" -> If(o.user # p.user /\ p.role \notin Admins /\ p.user \notin o.editors, "forbidden")
       [] check = "mine" -> If(o.user # p.user, "conflict")
       [] check = "free" -> If(o.busy, "conflict")
       [] check = "quiet" -> If(seen /\ o.busy, "conflict")
       [] check = "shared" ->
            IF o = None \/ o.busy THEN "missing"
            ELSE If(~o.public /\ (p = None \/ ~Sees(p, kind, o)), IF p = None THEN "unauthenticated" ELSE "missing")
       [] check \in {"signed", "state", "claim", "password"} -> If(~req.proof, "forbidden")
       [] OTHER -> "unsupported"

(* The answer of a row: the first refusal; or what is done, and the object  *)
(* that is read or changed.                                                 *)
Perform(row, req, o) ==
  LET Refused(i) == Refusal(row.checks[i], req, row.kind, o)
      F[i \in 1 .. Len(row.checks) + 1] ==
        IF i > Len(row.checks) THEN None ELSE LET r == Refused(i) IN IF r = None THEN F[i + 1] ELSE r
      p == Asker(req)
  IN IF F[1] # None THEN [status |-> F[1], effect |-> "none", object |-> None]
     ELSE [status |-> "ok", effect |-> row.effect,
           object |-> IF row.kind = None \/ o = None \/ row.checks = <<"signed">> THEN None
                      ELSE IF row.checks = <<"shared">> \/ Sees(p, row.kind, o) THEN o ELSE None]

Answer(row, req, o) ==
  IF \E p \in Before : Fits(p, req.path) THEN Perform(row, req, o)
  ELSE IF req.path[1] = "api" /\ req.foreign THEN [status |-> "forbidden", effect |-> "none", object |-> None]
  ELSE IF Unproven(req) /\ req.path # <<"api", "control", "bootstrap">>
  THEN [status |-> "forbidden", effect |-> "none", object |-> None]
  ELSE Perform(row, req, o)

-----------------------------------------------------------------------------
(* The requests of a method and a path, by who asks and with what.          *)
Person(role) == [user |-> "u1", tenant |-> "t1", workspace |-> "w1", role |-> role]
Persons == {Person(role) : role \in {"MEMBER", "TENANT_ADMIN", "PLATFORM_ADMIN"}}
Objects ==
  [user : {"u1", "u2"}, tenant : {"t1", "t2"}, workspace : {"w1", "w2"}, busy : BOOLEAN, hidden : BOOLEAN,
   public : BOOLEAN, editors : {{}}]
Mine == [user |-> "u1", tenant |-> "t1", workspace |-> "w1", busy |-> FALSE, hidden |-> FALSE, public |-> FALSE, editors |-> {}]
Anonymous(p, input) ==
  [method |-> input.method, path |-> input.path, who |-> p, token |-> "none", session |-> FALSE, ticket |-> None,
   foreign |-> FALSE, csrf |-> FALSE, valid |-> TRUE, proof |-> TRUE, alone |-> TRUE]
ByToken(p, input) == [Anonymous(p, input) EXCEPT !.token = "good"]
BySession(p, input) == [Anonymous(p, input) EXCEPT !.session = TRUE]
ByTicket(p, input) == [Anonymous(p, input) EXCEPT !.ticket = input.path]

(* What the asker may not see is answered like what does not exist, whoever *)
(* asks and whatever the state of the object.                               *)
HiddenIsMissing(input, row) ==
  \A p \in Persons, o \in Objects, valid \in BOOLEAN :
    LET req == [ByToken(p, input) EXCEPT !.valid = valid]
    IN (~Sees(p, row.kind, o) /\ ~(row.checks = <<"shared">> /\ o.public)) => Answer(row, req, o) = Answer(row, req, None)

(* A browser's session changes something only with its secret and from a    *)
(* page of this server; whoever has neither token nor session nor ticket,   *)
(* only with another secret.                                                *)
ChangesProven(input, row) ==
  \A p \in Persons, foreign, csrf, proof \in BOOLEAN :
    LET of == [BySession(p, input) EXCEPT !.foreign = foreign, !.csrf = csrf, !.proof = proof]
        nobody == [of EXCEPT !.session = FALSE]
    IN /\ (Answer(row, of, Mine).effect \in {"write", "ticket"} /\ Contains(row.checks, "login")) => (csrf /\ ~foreign)
       /\ Answer(row, nobody, Mine).effect \in {"write", "ticket"} =>
            proof \/ input.path = <<"api", "auth", "oidc", "start">>

(* A ticket opens what it was issued for, which no handler before takes,    *)
(* and nothing else.                                                        *)
TicketsOpen(input, row) ==
  \A p \in Persons :
    LET req == ByTicket(p, input)
    IN /\ (input.method = "GET" /\ Ticketed(input.path)) =>
            Answer(row, req, Mine) = [status |-> "ok", effect |-> "read", object |-> Mine]
       /\ Contains(row.checks, "login") => Answer(row, [req EXCEPT !.ticket = <<"api", "files", "other">>], Mine).status # "ok"

(* Members do not get past the doors of the administrators.                 *)
MembersOut(input, row) ==
  LET answer == Answer(row, ByToken(Person("MEMBER"), input), Mine)
  IN (answer.status = "ok" /\ \E p \in {<<"api", "admin", Rest>>, <<"api", "control", Rest>>, <<"control", Rest>>} : Fits(p, input.path)) =>
       row.checks = <<"csrf", "body", "claim">> \/ input.path \in {<<"control", "logout">>, <<"api", "control", "bootstrap-status">>}

RequestSound(input) ==
  LET row == Row(Handlers[Handler(input)], input)
  IN HiddenIsMissing(input, row) /\ ChangesProven(input, row) /\ TicketsOpen(input, row) /\ MembersOut(input, row)

(* Every row answers some request that no handler and no row before it      *)
(* takes, except two that are never reached: the control session of         *)
(* createServer (main.ts:1430) and the change of a job in the backend       *)
(* handler (backend-api.ts:97).                                             *)
Concrete(pattern, more) ==
  LET p == SelectSeq(pattern, LAMBDA segment : segment # Rest)
  IN [i \in 1 .. Len(p) |-> IF p[i] = Id THEN "x" ELSE p[i]] \o (IF Last(pattern) = Rest /\ more THEN <<"x">> ELSE <<>>)
Shadowed == {ControlSession.rows[1], Backend.rows[6]}
RowReached(h, row) ==
  (\E method \in row.methods, more \in BOOLEAN :
     LET input == [method |-> method, path |-> Concrete(row.path, more)]
     IN Handlers[Handler(input)] = h /\ Row(h, input) = row) <=> row \notin Shadowed

(* The code does not have this: the artifacts of a task that was deleted    *)
(* remain to be read (main.ts:1357), or previewed (866).                    *)
DeletedIsMissing(input, row) ==
  LET gone == [Mine EXCEPT !.hidden = TRUE]
  IN Fits(<<"api", "tasks", Id, Rest>>, input.path) =>
       \A p \in Persons : Answer(row, ByToken(p, input), gone).object = None
=============================================================================
