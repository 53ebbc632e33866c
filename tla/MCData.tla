------------------------------- MODULE MCData -------------------------------
(***************************************************************************)
(* The pure algorithms, each over all inputs of a bounded set: a state is  *)
(* one input of one algorithm, and no step changes it.  Beside them, the   *)
(* components with a state of Stores: a behaviour is one of these, or      *)
(* stays at one input.                                                     *)
(***************************************************************************)
EXTENDS Stores, Integers, SequencesExt, TLC

CONSTANTS Threshold, Pool, MIN_ITEMS_FOR_RATIO, MAX_INJECTED_LESSONS, Columns

VARIABLE input

D == INSTANCE Documents
G == INSTANCE ToolGate
F == INSTANCE Forms
B == INSTANCE Startup
A == INSTANCE Assets
E == INSTANCE Progress
H == INSTANCE HttpRoutes

(* Two configurations of the knowledge base: one with embeddings, and one   *)
(* without.                                                                 *)
TwoSpaces == <<"e1", None>>

Upto(n, set) == UNION {[1 .. k -> set] : k \in 0 .. n}

(* The member of tenant t1 reads its own private fragments and not those of *)
(* its colleague.                                                           *)
Mine(user) == [owner |-> user, tenant |-> "t1", workspace |-> "w1", scope |-> "personal"]
Fragment(users, bases, doc) ==
  {[resource |-> Mine(u), base |-> b, doc |-> doc, near |-> n, words |-> w] : u \in users, b \in bases, n \in 0 .. 2, w \in 0 .. 2}
Searches ==
  {[kind |-> "search", member |-> [user |-> "u1", tenant |-> "t1", workspace |-> "w1", role |-> "member"],
    chunks |-> <<a, b, c>>, bases |-> {1}, limit |-> l, semantic |-> s, stale |-> {2}] :
     a \in Fragment({"u1"}, {1, 2}, 1), b \in Fragment({"u1"}, {1}, 1), c \in Fragment({"u2"}, {1}, 2),
     l \in 1 .. 2, s \in BOOLEAN}
  \cup
  {[kind |-> "search", member |-> [user |-> "u1", tenant |-> "t1", workspace |-> "w1", role |-> "member"],
    chunks |-> <<a, b, c, d>>, bases |-> {1}, limit |-> 1, semantic |-> FALSE, stale |-> {2}] :
     a \in Fragment({"u1"}, {1}, 1), b \in Fragment({"u1", "u2"}, {1}, 1), c \in Fragment({"u1"}, {1}, 1),
     d \in {x \in Fragment({"u1"}, {1}, 2) : x.near = x.words}}

Paragraphs == [level : 1 .. 3, length : {0}] \cup [level : {0}, length : 0 .. 2]

Rows(keys) == [key : keys, value : {v \in [Columns -> {None, 0, 2}] : v[2] # 2}]

FilePaths == [absolute : BOOLEAN, names : Upto(3, {"..", "data", "task", "etc", ".ssh", "sessions", "key.pem"})]

Policies ==
  {[tool |-> "read_document", checksPaths |-> TRUE, requiresConfirm |-> FALSE],
   [tool |-> "write_document", checksPaths |-> FALSE, requiresConfirm |-> FALSE],
   [tool |-> "mcp_call", checksPaths |-> FALSE, requiresConfirm |-> TRUE]}
Rules == {r \in [tool : {"*", "write_document"}, decision : {"deny", "confirm"}, byPath : BOOLEAN,
                 prefix : {<<>>, <<"out">>}, byCommand : BOOLEAN] : r.byPath \/ r.prefix = <<>>}
Named == {[absolute |-> FALSE, names |-> n] : n \in {<<"out", "a">>, <<"in", "..", "out">>, <<"..", "other">>}}
Requests ==
  [tool : {"read_document", "write_document", "mcp_call", "unknown"}, paths : {{p} : p \in Named} \cup {{}},
   runs : BOOLEAN, secret : {FALSE}]

Field ==
  {f \in [type : F!FieldTypes, required : BOOLEAN, bounds : SUBSET {"low", "high"}, accept : {{}, F!XLSX}] :
     (f.bounds = {} \/ f.type = "number") /\ (f.accept = {} \/ f.type = "file")}
Templates == {<<{}, {"a"}, {"a", "b"}>>, <<{"a", "b"}>>, <<{"b"}, {"a"}>>}

(* Usage: calls of known and unknown users and models, of one day or two,   *)
(* price tables without prices, without one of two, with two for one model. *)
Tok(a, b, c, d) == [input |-> a, output |-> b, cacheRead |-> c, cacheWrite |-> d]
Used(user, workspace, task, model, tokens, at) ==
  [user |-> user, workspace |-> workspace, task |-> task, model |-> model, tokens |-> tokens, at |-> at]
UsageRecords ==
  {Used(u, "w1", "k1", "m1", t, 1) : u \in {"u1", ""}, t \in {Tok(1, 0, 0, 0), Tok(0, 1, 2, 1)}}
  \cup {Used("u1", "w1", "k1", "m2", Tok(0, 1, 2, 1), 1)}
  \cup {Used("u1", w, k, "m2", Tok(2, 1, 0, 0), 2) : w \in {"w1", "w2"}, k \in {"k2"}}
PriceOf(m, i, o, c) == [model |-> m, input |-> i, output |-> o, cacheRead |-> c]
PriceTables ==
  {<<>>, <<PriceOf("m1", 1, 3, {0})>>, <<PriceOf("m2", 2, 2, {}), PriceOf("m1", 1, 0, {}), PriceOf("m1", 1, 3, {1})>>}
Quotas ==
  {[tokens |-> {}, cost |-> {3}, tasks |-> {2}], [tokens |-> {5}, cost |-> {}, tasks |-> {0}],
   [tokens |-> {}, cost |-> {0}, tasks |-> {}]}

(* Starts: each variable empty, unreadable, zero or a number, two models    *)
(* and those the administrator added.                                       *)
ModelOf(p, i, o) == [baseUrl |-> p[1], apiKey |-> p[2], name |-> p[3], input |-> i, output |-> o, cacheRead |-> B!Empty]
NoModel == ModelOf(<<"", "", "">>, B!Empty, B!Empty)
Full(n, i, o) == ModelOf(<<"url", "key", n>>, i, o)
EnvOf(f, l, t, c, p) == [flagship |-> f, lite |-> l, quota |-> [tokens |-> t, cost |-> c, tasks |-> B!Empty], port |-> p]
Entries == {B!Empty, B!Words, B!Number(0), B!Number(3)}
Endpoints(names) == {"", "words", "url"} \X {"", "key"} \X names
Environments ==
  {EnvOf(ModelOf(f, i, i), ModelOf(l, i, i), B!Number(0), c, B!Empty) :
     f \in Endpoints({"", "m1"}), l \in Endpoints({"", "m1", "m2"}), i \in {B!Empty, B!Number(1)},
     c \in {B!Empty, B!Words, B!Number(2)}}
  \cup {EnvOf(Full("m1", i, o), l, B!Empty, c, B!Words) :
     i \in Entries, o \in Entries, l \in {NoModel} \cup {Full("m2", li, lo) : li \in Entries, lo \in Entries},
     c \in {B!Empty, B!Number(0), B!Number(3)}}
Extras ==
  {<<>>, <<Full("m1", B!Number(2), B!Number(2))>>, <<Full("m3", B!Empty, B!Number(2))>>,
   <<ModelOf(<<"url", "", "m3">>, B!Empty, B!Empty)>>}
Starts ==
  [kind : {"start"}, env : Environments, extras : {<<>>}, judged : {NoModel}]
  \cup [kind : {"start"}, extras : Extras, judged : {NoModel, Full("m2", B!Number(6), B!Number(6)), Full("m4", B!Empty, B!Number(6))},
        env : {EnvOf(Full("m1", i, i), l, t, c, B!Empty) :
                 i \in {B!Empty, B!Number(1)}, l \in {NoModel, Full("m2", B!Number(4), B!Number(4)), Full("m2", B!Empty, B!Number(4))},
                 t \in {B!Empty, B!Number(0), B!Number(5)}, c \in {B!Empty, B!Number(0), B!Number(4)}}]
AccountFiles ==
  [is : {"missing", "broken"}, accounts : {<<>>}]
  \cup [is : {"accounts"},
        accounts : Upto(2, [token : {"t1", "t2", "short"}, tenant : {<<"a">>, <<"..">>, <<"a", "b">>},
                            workspace : {<<"b">>, <<"..">>, <<>>}, user : {<<"u">>}, role : {"MEMBER", "other"}])]
Machines ==
  [node : {"new", "old"}, memory : 0 .. 2, disk : {{}, {0}, {1}, {2}}, portInUse : BOOLEAN, writable : BOOLEAN,
   api : [is : {"unconfigured", "unreachable", "silent"}, status : {0}]
         \cup [is : {"answers"}, status : {200, 299, 302, 401, 404, 418, 429, 500}]]

(* What a unit teaches: changes worth learning and not, made alike more     *)
(* than once, in one batch or several, in one scenario or two.              *)
Text(id, length) == [id |-> id, length |-> length]
Change(k, before, after, reason) == [kind |-> k, target |-> 1, before |-> before, after |-> after, reason |-> reason]
Reworded == {Change("wording", Text(2, 2), Text(4, 4), r) : r \in BOOLEAN}
Removed == Change("removal", Text(4, 4), Text(0, 0), FALSE)
Slip == Change("wording", Text(1, 1), Text(2, 2), FALSE)
Changes ==
  Reworded \cup {Removed, Slip, Change("addition", Text(0, 0), Text(4, 4), FALSE),
                 Change("structure", Text(4, 4), Text(2, 2), FALSE), Change("format", Text(2, 2), Text(2, 2), TRUE)}
BatchesOf(revisions) == [scenario : {"s1", "s2"}, revisions : revisions \ {<<>>}]
Taught ==
  [batches : {<<b, c>> : b, c \in BatchesOf(Upto(2, Changes))}, output : {{Text(2, 2)}, {Text(2, 2), Text(4, 4)}}]
  \cup [batches : {<<a, b, c>> : a, b, c \in BatchesOf(Upto(2, Reworded \cup {Removed}))}, output : {{Text(2, 2)}}]
  \cup [batches : {<<b>> : b \in BatchesOf([1 .. 3 -> Changes])}, output : {{Text(4, 4)}}]

Named2 == <<[name |-> 1, required |-> TRUE], [name |-> 2, required |-> FALSE]>>
TemplatesOf(sections, columns) == [scenario : {None, "s1", "s2"}, enabled : BOOLEAN, sections : sections, columns : columns]
TemplateLists ==
  Upto(1, TemplatesOf({<<>>, Named2}, Upto(2, [name : 1 .. 2, required : BOOLEAN])))
  \cup Upto(3, TemplatesOf({Named2}, {SubSeq(Named2, 1, 1)}))
Written ==
  [headings : {{}, {{1}}, {{1, 2}}, {{2}}, {{3}, {1}}}, columns : {<<>>, <<1>>, <<2>>, <<1, 2>>, <<2, 1>>, <<3, 1>>}]

Source(kind, id, locator) == [kind |-> kind, id |-> id, locator |-> locator]
Sources == {Source(k, i, 1) : k \in {"file", "knowledge"}, i \in 1 .. 2}
Figures(n) == {<<"lineage", [target |-> t, sources |-> s]>> : t \in 1 .. 2, s \in Upto(n, Sources)}
Traced == {<<"input", Source("file", 1, l)>> : l \in 1 .. 2}
Calls == Upto(2, Traced \cup Figures(2)) \cup [1 .. 3 -> Traced \cup Figures(1)]

(* The calls that make, save and delete agents and skills: of one workspace,*)
(* and a skill that may be of another one; an identifier is made once.      *)
SkillLists == {<<>>, <<"meeting-minutes">>, <<"s1", "data-report">>, <<"s2", "s2">>}
AddonCall(does, ws, id, skills) == [does |-> does, ws |-> ws, id |-> id, skills |-> skills]
AddonCalls(lists) ==
  {AddonCall(does, "w1", "a1", l) : does \in {"create agent", "save agent"}, l \in lists}
  \cup {AddonCall("delete skill", "w1", "s2", <<>>), AddonCall("create agent", "w2", "a2", <<"s2">>)}
  \cup {AddonCall("create skill", ws, "s2", <<>>) : ws \in {"w1", "w2"}}
MoreCalls ==
  {AddonCall(does, "w1", "s1", <<>>) : does \in {"create skill", "delete skill"}} \cup {AddonCall("delete agent", "w1", "a1", <<>>)}
MadeOnce(calls) ==
  \A i, j \in DOMAIN calls : calls[i].does = calls[j].does /\ calls[i].id = calls[j].id /\ i # j
                             => calls[i].does \notin {"create skill", "create agent"}

(* Addresses "p1" and "p2" of proxies, "?" no address; departments that are *)
(* moved and removed; and callbacks, with every set of credentials, one of  *)
(* them malformed or none.                                                  *)
IPs == {"p1", "p2", "a", "b"}
DepartmentCalls ==
  [removes : {TRUE}, id : {"d1", "d2", "d3"}, parent : {""}]
  \cup [removes : {FALSE}, id : {"d1", "d2", "d3"}, parent : {"", "d1", "d2", "d3"}]
KeySets(kind) ==
  {[k \in given |-> k # bad] : given \in SUBSET (G!KeysOf(kind) \cup {"other"}), bad \in G!KeysOf(kind) \cup {"none"}}
Bindings == UNION {[kind : {k}, single : BOOLEAN, user : {"u1"}, enabled : BOOLEAN, keys : KeySets(k)] : k \in G!Kinds}
Callbacks ==
  [method : {"GET", "POST"}, fresh : BOOLEAN, signed : BOOLEAN, nonce : BOOLEAN, opens : BOOLEAN,
   says : {"text", "verification", "other"}, event : BOOLEAN, sender : {"u1", "u2"}]

(* Events with and without the id of their call, and the ends of sub-tasks. *)
Events ==
  [type : {"tool_start", "tool_update", "tool_end"}, call : 0 .. 2, isError : {FALSE}]
  \cup [type : {"tool_end"}, call : {1}, isError : {TRUE}]
  \cup [type : {"usage"}, call : 0 .. 1, isError : {FALSE}] \cup [type : {"text"}, call : {0}, isError : {FALSE}]
Ends(n) == {e \in Upto(n, [index : 1 .. n, outcome : {"succeeded", "failed", "thrown"}]) :
              \A i, j \in DOMAIN e : e[i].index = e[j].index => i = j}

Handlers == H!Handlers
UrlPatterns ==
  UNION {{c.path : c \in Handlers[h].claims} \cup {Handlers[h].rows[i].path : i \in DOMAIN Handlers[h].rows} :
           h \in DOMAIN Handlers}
UrlPaths == {H!Concrete(p, more) : p \in UrlPatterns, more \in BOOLEAN} \ {<<>>}

Inputs ==
  <<[kind : {"access"}, member : D!Members, resource : D!Resources],
    Searches,
    [kind : {"document"}, doc : Upto(4, Paragraphs), limit : 2 .. 3, overlap : 0 .. 2],
    {x \in [kind : {"slices"}, size : 1 .. 9, max : 1 .. 4, overlap : 0 .. 3] : x.overlap < x.max},
    [kind : {"versions"}, before : Upto(3, 0 .. 3), after : Upto(4, 0 .. 3)],
    [kind : {"tables"}, left : Upto(2, Rows(1 .. 2)), right : Upto(2, Rows(0 .. 2)), tolerance : {1}],
    [kind : {"path"}, path : FilePaths, granted : {{}, {<<"data", "sessions">>}, {<<"data">>}},
        files : {{}, {<<"data", "key.pem">>, <<"data", "data">>}}],
    [kind : {"request"}, request : Requests,
        governance : [rules : {{r, s} : r, s \in Rules} \cup {{}}, disabledTools : {{}, {"write_document"}},
                      confirmWrites : BOOLEAN, blocksSecrets : {FALSE}]],
    [kind : {"local"}, config : G!Configs],
    [kind : {"form"}, card : [fields : {("a" :> f) @@ ("b" :> g) : f \in Field, g \in {h \in Field : h.type = "text"}},
                                template : Templates],
        values : [{"a", "b"} -> F!Values]],
    [kind : {"addons"}, calls : {c \in Upto(3, AddonCalls(SkillLists) \cup MoreCalls)
                                              \cup [1 .. 4 -> AddonCalls({<<>>, <<"s2", "s2">>})] : MadeOnce(c)}],
    [kind : {"address"}, remote : IPs, forwarded : Upto(3, IPs \cup {"?"}), trusted : {{}, {"p1"}, {"p1", "p2"}},
        allowed : {{}, {"a"}, {"p1"}}],
    [kind : {"departments"}, calls : Upto(3, DepartmentCalls) \cup [1 .. 4 -> {c \in DepartmentCalls : ~c.removes}]],
    [kind : {"callback"}, binding : Bindings],
    [kind : {"preset"}, n : DOMAIN F!PRESET_CARDS],
    [kind : {"url"}, method : H!All, path : UrlPaths],
    [kind : {"usage"}, records : Upto(3, UsageRecords), prices : PriceTables, quota : Quotas],
    Starts, [kind : {"accounts"}, file : AccountFiles], [kind : {"doctor"}, machine : Machines],
    [kind : {"lessons"}, taught : Taught],
    [kind : {"template"}, templates : TemplateLists, output : Written],
    [kind : {"provenance"}, calls : Calls],
    [kind : {"events"}, events : Upto(4, Events)],
    UNION {[kind : {"fanout"}, count : {n}, limit : 0 .. n + 1, ends : Ends(n)] : n \in 0 .. 3},
    [kind : {"cards"}, cards : Upto(3, [id : 1 .. 2, owner : {"t1", "t2", "platform"}, enabled : BOOLEAN])]>>

DataInit ==
  \/ /\ part = "none" /\ OthersOff
     /\ \/ \E n \in DOMAIN Inputs : input \in Inputs[n]
        \/ \E h \in DOMAIN Handlers :
             input \in {[kind |-> "row", h |-> h, i |-> i] : i \in DOMAIN Handlers[h].rows}
  \/ input = [kind |-> "none"] /\ Init

DataNext == Next /\ UNCHANGED input

DataSpec == DataInit /\ [][DataNext]_<<input, vars>>

-----------------------------------------------------------------------------
(* Knowledge: a member finds what it may read, ranked as if nothing else    *)
(* existed, with vectors or words alike; and no text is lost or moved when  *)
(* one is cut into fragments or two versions are compared (access.ts,       *)
(* vector-retrieval.ts, chunking.ts, revision-extract.ts).                  *)
KnowledgeSound ==
  /\ input.kind = "access" => D!AccessSound(input.member, input.resource)
  /\ input.kind = "search" => D!RetrievalSound(input)
  /\ input.kind = "document" => D!ChunksSound(input.doc, input.limit, input.overlap)
  /\ input.kind = "slices" => D!SlicesSound(input.size, input.max, input.overlap)
  /\ input.kind = "versions" => D!RevisionsSound(input.before, input.after)

(* Guards: the stricter of all rules decides on a tool call or a local      *)
(* command, on every spelling of a path; what the service starts with is    *)
(* what its environment says, priced and within its limits, and each token  *)
(* opens one directory of one person; a request is judged by the address it *)
(* comes from, a department is below the top, and a callback of a connector *)
(* makes a task for the person it was bound to (permission-gate.ts,         *)
(* path-policy.ts, tool-governance.ts, local-control/, config.ts,           *)
(* accounts.ts, health.ts, enterprise.ts, connector-inbound.ts).            *)
GuardsSound ==
  /\ input.kind = "path" => G!PathsSound(input.path, input.granted, input.files)
  /\ input.kind = "request" => G!GateSound(input.request, Policies, {}, input.governance)
  /\ input.kind = "local" => \A command \in G!Commands : G!CommandSound(command, input.config)
  /\ input.kind = "start" => B!ConfigSound(input.env, input.extras, input.judged)
  /\ input.kind = "accounts" => B!AccountsSound(input.file)
  /\ input.kind = "doctor" => B!DoctorSound(input.machine)
  /\ input.kind = "address" => G!AddressSound(input.remote, input.forwarded, input.trusted, input.allowed)
  /\ input.kind = "departments" => G!DepartmentsSound(input.calls)
  /\ input.kind = "callback" => \A call \in Callbacks : G!CallbackSound(input.binding, call)

(* Forms: a card says what was filled in and is well made, and the agents   *)
(* and skills a workspace is shown can be used (scenario.ts,                *)
(* preset-cards.ts, addons.ts).                                             *)
FormsSound ==
  /\ input.kind = "form" => F!PromptSound(input.card, input.values)
  /\ input.kind = "preset" => F!PresetSound(input.n)
  /\ input.kind = "addons" => F!AddonsSound(input.calls, {"w1", "w2"})
  /\ input.kind = "cards" => F!CardsSound(input.cards, "t1")

(* Reports: two tables without reported difference are equal, sums agree    *)
(* with what they are sums of, what was taught is used, a figure can be     *)
(* traced, and progress is told of the work it is of (reconcile.ts,         *)
(* metering.ts, dashboard.ts, lessons.ts, assets.ts, provenance.ts,         *)
(* event-translator.ts, fan-out.ts).                                        *)
ReportsSound ==
  /\ input.kind = "tables" => D!TablesReconciled(input.left, input.right, input.tolerance)
  /\ input.kind = "usage" => B!UsageSound(input.records, input.prices, input.quota, {1})
  /\ input.kind = "lessons" => A!LessonsSound(input.taught.batches, input.taught.output)
  /\ input.kind = "template" => A!TemplatesSound(input.templates, "s1", input.output)
  /\ input.kind = "provenance" => A!ProvenanceSound(input.calls)
  /\ input.kind = "events" => E!TranslationSound(input.events)
  /\ input.kind = "fanout" => E!FanOutSound(input.count, input.limit, input.ends)

(* Requests: twenty handlers in a row leave each other's paths alone, and   *)
(* none of them tells what the asker may not see (main.ts, app.ts and the   *)
(* handlers).                                                               *)
RoutesSound ==
  /\ input.kind = "url" => H!RequestSound(input)
  /\ input.kind = "row" => H!RowReached(Handlers[input.h], Handlers[input.h].rows[input.i])
=============================================================================
