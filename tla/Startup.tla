------------------------------- MODULE Startup -------------------------------
(***************************************************************************)
(* What the program makes of what its operator wrote: the entries of the   *)
(* environment or of the settings page, the account file, and the report   *)
(* of the doctor; and, under the prices and limits written there, what     *)
(* tenants used: the cost of records, the verdict on a quota, and the      *)
(* dashboard of their administrators.                                      *)
(***************************************************************************)
EXTENDS Integers, Sequences, FiniteSets, FiniteSetsExt, SequencesExt

(* A record is the tokens of one call of a model; prices count halves of a  *)
(* micro-yuan per token.  A limit, or the price of cached tokens, that was  *)
(* left empty is {}, else {n}.                                              *)
Kinds == {"input", "output", "cacheRead", "cacheWrite"}
Of(records, kind) == FoldSeq(LAMBDA r, sum : sum + r.tokens[kind], 0, records)

(* UsageTotals: a quota of tokens counts those of all kinds.                *)
Totals(records) ==
  [totalTokens |-> MapThenSumSet(LAMBDA kind : Of(records, kind), Kinds),
   taskCount |-> Cardinality({records[i].task : i \in DOMAIN records})]

(* Of two rows of a model the later one is its price.                       *)
byModel(prices, model) ==
  LET rows == SelectSeq(prices, LAMBDA p : p.model = model)
  IN  IF rows = <<>> THEN {} ELSE {Last(rows)}

PerToken(price, kind) ==
  CASE kind = "output" -> price.output
    [] kind = "cacheRead" /\ price.cacheRead # {} -> CHOOSE n \in price.cacheRead : TRUE
    [] OTHER -> price.input

(* Halves of a micro-yuan that records of one model cost, before rounding.  *)
Exactly(records, price) == MapThenSumSet(LAMBDA kind : Of(records, kind) * PerToken(price, kind), Kinds)

(* What the rows of a model with a price cost together.                     *)
Priced(records, prices) ==
  {m \in {records[i].model : i \in DOMAIN records} : byModel(prices, m) # {}}
Halves(records, prices) ==
  MapThenSumSet(LAMBDA m : Exactly(SelectSeq(records, LAMBDA r : r.model = m), CHOOSE p \in byModel(prices, m) : TRUE),
                Priced(records, prices))

(* Mutant of estimateCost: the sum is rounded down.                         *)
estimateCostDown(records, prices) ==
  [microYuan |-> Halves(records, prices) \div 2,
   unpricedModels |-> {records[i].model : i \in DOMAIN records} \ Priced(records, prices)]

(* estimateCost(): the tokens of each model are added up first, and the sum *)
(* is rounded up once, at the end.                                          *)
estimateCost(records, prices) ==
  [microYuan |-> (Halves(records, prices) + 1) \div 2,
   unpricedModels |-> {records[i].model : i \in DOMAIN records} \ Priced(records, prices)]

-----------------------------------------------------------------------------
(* checkQuota(): the first dimension that has reached its limit refuses; if *)
(* none has, those at eight tenths of it are warned of.  A limit of nothing *)
(* is reached by using nothing.                                             *)
Dimensions == <<"tokens", "cost", "tasks">>
Spent(totals, cost, dimension) ==
  CASE dimension = "tokens" -> totals.totalTokens
    [] dimension = "cost" -> cost
    [] dimension = "tasks" -> totals.taskCount
Reached(used, limit) == \E n \in limit : used >= n
Warned(used, limit) == \E n \in limit : n > 0 /\ used < n /\ used * 5 >= n * 4

checkQuota(quota, totals, cost) ==
  [exceeded |-> SelectSeq(Dimensions, LAMBDA d : Reached(Spent(totals, cost, d), quota[d])),
   warning |-> SelectSeq(Dimensions, LAMBDA d : Warned(Spent(totals, cost, d), quota[d]))]
Allows(verdict) == verdict.exceeded = <<>>

(* evaluateQuota(): the cost is worked out if there is a limit for it.      *)
Within(records, period) == SelectSeq(records, LAMBDA r : r.at \in period)
evaluateQuota(records, period, quota, prices) ==
  LET used == Within(records, period)
  IN  checkQuota(quota, Totals(used), IF quota.cost = {} THEN 0 ELSE estimateCost(used, prices).microYuan)

-----------------------------------------------------------------------------
(* breakdown(): records grouped by a dimension, the group that used most    *)
(* first, of two that used the same the one that was met first.             *)
keyOf(dimension, r) ==
  CASE dimension = "byUser" -> IF r.user = "" THEN "unknown" ELSE r.user
    [] dimension = "byWorkspace" -> r.workspace
    [] dimension = "byModel" -> r.model
    [] dimension = "byDay" -> r.at

breakdown(records, prices, dimension) ==
  LET bucket(k) == SelectSeq(records, LAMBDA r : keyOf(dimension, r) = k)
      first(k) == Min({i \in DOMAIN records : keyOf(dimension, records[i]) = k})
      before(k, l) ==
        LET a == Totals(bucket(k)).totalTokens
            b == Totals(bucket(l)).totalTokens
        IN  a > b \/ (a = b /\ first(k) < first(l))
      keys == SetToSortSeq({keyOf(dimension, records[i]) : i \in DOMAIN records}, before)
  IN  [n \in DOMAIN keys |->
         [key |-> keys[n], totalTokens |-> Totals(bucket(keys[n])).totalTokens,
          taskCount |-> Totals(bucket(keys[n])).taskCount,
          cost |-> estimateCost(bucket(keys[n]), prices).microYuan]]

Breakdowns == {"byUser", "byWorkspace", "byModel", "byDay"}

(* buildDashboard(), of the records of the window the administrator asks    *)
(* for; the verdict is of the period of the quota.                          *)
buildDashboard(records, window, prices, quota, period) ==
  LET shown == Within(records, window)
      totals == Totals(shown)
      cost == estimateCost(shown, prices)
  IN  [totals |-> totals, cost |-> cost.microYuan, unpricedModels |-> cost.unpricedModels,
       by |-> [d \in Breakdowns |-> breakdown(shown, prices, d)],
       verdict |-> evaluateQuota(records, period, quota, prices),
       limits |-> [d \in {e \in Range(Dimensions) : quota[e] # {}} |->
                     LET n == CHOOSE m \in quota[d] : TRUE
                         used == Spent(totals, cost.microYuan, d)
                     IN  [used |-> used, limit |-> n, full |-> n = 0 \/ used >= n]]]

-----------------------------------------------------------------------------
(* The groups of a dimension are all there is: tokens add up, no task is    *)
(* missing, those that used more come first, and together they cost no less *)
(* than the whole and less than one micro-yuan more each.                   *)
DrilledInto(rows, board) ==
  LET sum(f(_)) == MapThenSumSet(f, DOMAIN rows)
      costs == sum(LAMBDA n : rows[n].cost)
  IN  /\ sum(LAMBDA n : rows[n].totalTokens) = board.totals.totalTokens
      /\ sum(LAMBDA n : rows[n].taskCount) >= board.totals.taskCount
      /\ board.cost <= costs /\ costs <= board.cost + Len(rows)
      /\ \A n \in 1 .. Len(rows) - 1 : rows[n].totalTokens >= rows[n + 1].totalTokens

Agree(verdict, limits) ==
  /\ Allows(verdict) <=> \A d \in DOMAIN limits : ~limits[d].full
  /\ Allows(verdict) \/ limits[Head(verdict.exceeded)].full

BoardSound(board, used, prices) ==
  /\ \A d \in Breakdowns : DrilledInto(board.by[d], board)
  /\ 2 * board.cost >= MapThenSumSet(LAMBDA i : Halves(<<used[i]>>, prices), DOMAIN used)
  /\ \A row \in Range(board.by["byModel"]) : row.key \in board.unpricedModels => row.cost = 0
  /\ Agree(board.verdict, board.limits)
  /\ Range(board.verdict.warning) \cap Range(board.verdict.exceeded) = {}

(* Usage can be drilled into, whatever the dimension; what is shown as free *)
(* has no price or a price of nothing; and over the period of the quota the *)
(* dashboard shows a full limit just when the gate refuses: dashboard.ts:9, *)
(* main.ts:216.                                                             *)
UsageSound(records, prices, quota, period) ==
  BoardSound(buildDashboard(records, period, prices, quota, period), Within(records, period), prices)

(* Not so: the same over any window.  The limits are those of a month, and  *)
(* a dashboard of a week shows the week beside them: nothing looks full,    *)
(* and the gate refuses (main.ts:1317, dashboard.ts:162).                   *)
BoardAgrees(records, window, prices, quota, period) ==
  LET board == buildDashboard(records, window, prices, quota, period)
  IN  Allows(board.verdict) <=> \A d \in DOMAIN board.limits : ~board.limits[d].full

-----------------------------------------------------------------------------
(* Of an entry its parser tells apart that it is empty, no number, or a     *)
(* number; numbers count halves, so half of them are whole.                 *)
Empty == [is |-> "empty", n |-> 0]
Words == [is |-> "words", n |-> 0]
Number(n) == [is |-> "number", n |-> n]
Value(entry) == IF entry.is = "number" THEN {entry.n} ELSE {}

(* parseInteger(), parseOptionalQuota(), parseOptionalPrice(): what they do *)
(* not report.  What they report counts as absent, like what is empty; a    *)
(* price may be a fraction, and a limit of nothing is a limit.              *)
IsInteger(entry, low, high) ==
  entry.is = "empty" \/ (entry.is = "number" /\ entry.n % 2 = 0 /\ entry.n \in 2 * low .. 2 * high)
IsQuota(entry) == entry.is = "empty" \/ (entry.is = "number" /\ entry.n % 2 = 0 /\ entry.n >= 0)
IsPrice(entry) == entry.is = "empty" \/ (entry.is = "number" /\ entry.n >= 0)

Quota(entry) == IF IsQuota(entry) THEN {n \div 2 : n \in Value(entry)} ELSE {}
Price(entry) == IF IsPrice(entry) THEN Value(entry) ELSE {}

Tiers == {"flagship", "lite"}
Parts == {"baseUrl", "apiKey", "name"}
Prices == {"input", "output", "cacheRead"}
Filled(model) == {p \in Parts : model[p] # ""}

(* loadConfig(): the errors, each the set of the keys it names.  The lite   *)
(* model is written in full or not at all, under a name of its own, and a   *)
(* limit of cost needs the prices of each tier that has a name.             *)
Unreadable(env) ==
  {<<tier, "baseUrl">> : tier \in {t \in Tiers : env[t].baseUrl = "words"}}
  \cup {x \in Tiers \X Prices : ~IsPrice(env[x[1]][x[2]])}
  \cup {<<"quota", d>> : d \in {e \in Range(Dimensions) : ~IsQuota(env.quota[e])}}
  \cup {<<"port", "port">> : e \in {f \in {env.port} : ~IsInteger(f, 1, 65535)}}
Missing(env) ==
  {{<<"flagship", p>>} : p \in Parts \ Filled(env.flagship)}
  \cup (IF Filled(env.lite) = {} THEN {} ELSE {{<<"lite", p>> : p \in Parts \ Filled(env.lite)}})
SameName(env) == {{<<"lite", "name">>} : n \in ({env.lite.name} \cap {env.flagship.name}) \ {""}}
Unpriced(env, tier) == {<<tier, p>> : p \in {q \in {"input", "output"} : Price(env[tier][q]) = {}}}

(* Mutant of CostUnbacked: the lite model needs no price.                   *)
CostUnbackedLite(env) ==
  {Unpriced(env, t) : t \in {u \in {"flagship"} : Quota(env.quota["cost"]) # {}}}

CostUnbacked(env) ==
  {Unpriced(env, t) : t \in {u \in Tiers : Quota(env.quota["cost"]) # {} /\ (u = "lite" => env.lite.name # "")}}

errors(env) == ({{key} : key \in Unreadable(env)} \cup Missing(env) \cup SameName(env) \cup CostUnbacked(env)) \ {{}}

(* main.ts: without a model, or suspended, a placeholder takes its place.   *)
ready(env) == Filled(env.flagship) = Parts
Placed(env, suspended) ==
  IF ready(env) /\ ~suspended THEN env
  ELSE [env EXCEPT !.flagship.baseUrl = "url", !.flagship.apiKey = "key", !.flagship.name = "unconfigured"]

(* extraModelEndpoints(): each of the other models in full or not at all.   *)
Complete(extras) == \A i \in DOMAIN extras : Filled(extras[i]) \in {{}, Parts}

(* evaluationConfig(): a model of evaluations stands in for the flagship.   *)
evaluationConfig(env, judged) ==
  IF judged.name = "" THEN env
  ELSE [env EXCEPT !.flagship = [p \in Parts \cup Prices |-> judged[p]]]

(* apply(), of settings to publish, and the start of the program with them. *)
apply(env, extras, judged) ==
  /\ errors(Placed(env, FALSE)) = {}
  /\ Complete(extras)
  /\ ready(env) \/ judged.name # "" => errors(evaluationConfig(env, judged)) = {}
starts(env, extras, suspended) == errors(Placed(env, suspended)) = {} /\ Complete(extras)

(* The price table: of two rows of a name the later one counts.             *)
priceRow(model) ==
  IF model.name = "" \/ Price(model.input) = {} \/ Price(model.output) = {} THEN <<>>
  ELSE <<[model |-> model.name, input |-> CHOOSE n \in Price(model.input) : TRUE,
          output |-> CHOOSE n \in Price(model.output) : TRUE, cacheRead |-> Price(model.cacheRead)]>>
modelPrices(env, extras, judged) ==
  FlattenSeq([i \in DOMAIN extras |-> priceRow(extras[i])])
    \o priceRow(judged) \o priceRow(env.flagship) \o priceRow(env.lite)

(* createModelRuntime(): without a lite model the flagship does its work.   *)
modelForTier(env, tier) ==
  IF tier = "lite" /\ Filled(env.lite) = Parts THEN env.lite ELSE env.flagship

(* currentQuota(): a tenant has none if nothing was written.                *)
currentQuota(env) ==
  LET quota == [d \in Range(Dimensions) |-> Quota(env.quota[d])]
  IN  IF \A d \in Range(Dimensions) : quota[d] = {} THEN {} ELSE {quota}

-----------------------------------------------------------------------------
(* The account file; a segment of a path is the names it would walk.        *)

isSafeSegment(segment) == Len(segment) = 1 /\ segment # <<"..">>

(* resolveWorkspaceDir(): nothing outside the root is given out.            *)
Walk(names) ==
  FoldLeft(LAMBDA dir, name : IF name = ".." THEN SubSeq(dir, 1, Len(dir) - 1) ELSE Append(dir, name),
           <<"/", "root">>, names)
resolveWorkspaceDir(tenant, workspace) ==
  {dir \in {Walk(tenant \o workspace)} : IsPrefix(<<"/", "root">>, dir)}

validateAccounts(accounts) ==
  /\ accounts # <<>>
  /\ \A i \in DOMAIN accounts :
       /\ accounts[i].token # "short"
       /\ \A j \in 1 .. i - 1 : accounts[j].token # accounts[i].token
       /\ \A segment \in {accounts[i].tenant, accounts[i].workspace, accounts[i].user} : isSafeSegment(segment)
       /\ accounts[i].role \in {"MEMBER", "TENANT_ADMIN"}

defaultAccounts ==
  <<[token |-> "change-me-1", tenant |-> <<"default">>, workspace |-> <<"default">>, user |-> <<"admin">>, role |-> "TENANT_ADMIN"],
    [token |-> "change-me-2", tenant |-> <<"default">>, workspace |-> <<"default">>, user |-> <<"member">>, role |-> "MEMBER"]>>

loadAccounts(file) ==
  CASE file.is = "missing" -> {defaultAccounts}
    [] file.is = "broken" -> {}
    [] file.is = "accounts" -> {a \in {file.accounts} : validateAccounts(a)}

authenticateToken(accounts, token) ==
  LET found == SelectSeq(accounts, LAMBDA a : a.token = token)
  IN  IF token = "" \/ found = <<>> THEN {} ELSE {Head(found)}

-----------------------------------------------------------------------------
(* The doctor.  Memory and disk are 0 below the least, 1 below the advice.  *)

Enough(amount) == CASE amount = 0 -> "fail" [] amount = 1 -> "warn" [] amount = 2 -> "pass"
checkNodeVersion(node) == IF node = "new" THEN "pass" ELSE "fail"
Works(yes) == IF yes THEN "pass" ELSE "fail"

checkModelApi(api) ==
  CASE api.is = "unconfigured" -> "warn"
    [] api.is = "unreachable" -> "fail"
    [] api.is = "silent" -> "warn"
    [] api.is = "answers" ->
         IF api.status \in 200 .. 299 THEN "pass" ELSE IF api.status = 429 \/ api.status >= 500 THEN "warn" ELSE "fail"

results(m) ==
  <<checkNodeVersion(m.node), Enough(m.memory)>> \o (IF m.disk = {} THEN <<>> ELSE <<Enough(CHOOSE n \in m.disk : TRUE)>>)
    \o <<Works(~m.portInUse), Works(m.writable), checkModelApi(m.api)>>
summarize(levels) ==
  [failures |-> Len(SelectSeq(levels, LAMBDA l : l = "fail")), warnings |-> Len(SelectSeq(levels, LAMBDA l : l = "warn"))]

-----------------------------------------------------------------------------
(* Whoever corrects what was reported: a good entry for each of the keys.   *)
Corrected(env) ==
  LET keys == UNION errors(env)
      model(t) == [p \in Parts \cup Prices |->
        CASE <<t, p>> \notin keys -> env[t][p]
          [] p = "baseUrl" -> "url"
          [] p = "apiKey" -> "key"
          [] p = "name" -> t
          [] OTHER -> Number(2)]
  IN  [flagship |-> model("flagship"), lite |-> model("lite"),
       quota |-> [d \in Range(Dimensions) |-> IF <<"quota", d>> \in keys THEN Number(2) ELSE env.quota[d]],
       port |-> IF <<"port", "port">> \in keys THEN Number(16160) ELSE env.port]

(* Settings that are published let the program start again, suspended or    *)
(* not; under a limit of cost a call of either tier is billed at the prices *)
(* of its own model, whatever other models are called; a limit of nothing   *)
(* stops the first task and an empty one none; and two rounds of correction *)
(* are enough for any entries (config.ts:5, 336, 385).                      *)
ConfigSound(env, extras, judged) ==
  LET bill(tier) == byModel(modelPrices(env, extras, judged), modelForTier(env, tier).name)
      nothing == Totals(<<>>)
  IN  /\ apply(env, extras, judged) =>
           /\ \A suspended \in BOOLEAN : starts(env, extras, suspended)
           /\ Quota(env.quota["cost"]) # {} /\ ready(env)
              => \A tier \in Tiers : bill(tier) # {} /\ bill(tier) = Range(priceRow(modelForTier(env, tier)))
           /\ \A quota \in currentQuota(env) : \A d \in Range(Dimensions) :
                /\ env.quota[d].is = "empty" => quota[d] = {}
                /\ env.quota[d] = Number(0) => ~Allows(checkQuota(quota, nothing, 0))
           /\ currentQuota(env) = {} => \A d \in Range(Dimensions) : env.quota[d].is = "empty"
      /\ errors(Corrected(Corrected(env))) = {}

(* An account file that is accepted gives each account its own token and a  *)
(* directory below the root, shared just by those of the same tenant and    *)
(* workspace; nothing else gets in (accounts.ts:75).                        *)
AccountsSound(file) ==
  \A accounts \in loadAccounts(file) :
    /\ authenticateToken(accounts, "") = {}
    /\ \A i, j \in DOMAIN accounts :
         LET a == accounts[i]
             b == accounts[j]
         IN  /\ authenticateToken(accounts, a.token) = {a}
             /\ resolveWorkspaceDir(a.tenant, a.workspace) \notin {{}, {<<"/", "root">>}}
             /\ resolveWorkspaceDir(a.tenant, a.workspace) = resolveWorkspaceDir(b.tenant, b.workspace)
                => a.tenant = b.tenant /\ a.workspace = b.workspace

(* The doctor reports each thing that is wrong, passes no machine whose     *)
(* tasks would all fail, and says nothing of one that has all: health.ts:29.*)
DoctorSound(m) ==
  LET report == summarize(results(m))
      wrong == (IF m.node # "new" THEN 1 ELSE 0) + (IF m.memory = 0 THEN 1 ELSE 0) + (IF m.disk = {0} THEN 1 ELSE 0)
               + (IF m.portInUse THEN 1 ELSE 0) + (IF m.writable THEN 0 ELSE 1)
  IN  /\ report.failures >= wrong
      /\ report.failures = 0 => wrong = 0 /\ m.api.is # "unreachable" /\ ~(m.api.is = "answers" /\ m.api.status \in 300 .. 428)
      /\ report.failures + report.warnings = 0 => m.api.is = "answers" /\ m.api.status \in 200 .. 299

(* Not so: what is wrong is reported at once (config.ts:5).  A limit that   *)
(* cannot be read, or a lite model without its name, hides missing prices.  *)
ReportedAtOnce(env) == errors(Corrected(env)) = {}

(* Not so: a limit of cost counts the other models too.  One without a      *)
(* price is used for nothing, and one with the name of a tier at its price. *)
ExtrasBilled(env, extras, judged) ==
  apply(env, extras, judged) /\ Quota(env.quota["cost"]) # {} =>
    \A i \in DOMAIN extras : extras[i].name # "" =>
      byModel(modelPrices(env, extras, judged), extras[i].name) = Range(priceRow(extras[i])) /\ priceRow(extras[i]) # <<>>

(* Not so: the lite model can be evaluated.  It stands in for the flagship  *)
(* beside itself, and is refused for having the name of the lite model.     *)
LiteIsEvaluated(env, extras, judged) ==
  apply(env, extras, [judged EXCEPT !.name = ""]) /\ judged.name = env.lite.name /\ Filled(judged) = Parts
    /\ Unpriced([flagship |-> judged], "flagship") = {} => apply(env, extras, judged)

(* Not so: two accounts are two users.                                      *)
UsersDiffer(file) ==
  \A accounts \in loadAccounts(file) : \A i, j \in DOMAIN accounts :
    accounts[i].tenant = accounts[j].tenant /\ accounts[i].user = accounts[j].user => i = j
=============================================================================
