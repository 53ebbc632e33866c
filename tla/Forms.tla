-------------------------------- MODULE Forms --------------------------------
(***************************************************************************)
(* Scenario cards: which card of an identifier a tenant gets, whether the  *)
(* values of its form are accepted, and the prompt made of them.           *)
(*                                                                         *)
(* Of a value the validation of its field tells apart: undefined, blank,   *)
(* below or above a bound, not of the type or the options, and good.  A    *)
(* field says which bounds it has, and which kinds of file it takes; with  *)
(* no kinds it takes every file.  A line of a template is the set of the   *)
(* placeholders in it.  There follow the cards of the platform, and the    *)
(* agents and skills a form may be submitted with: a workspace has its own *)
(* beside those of the platform.                                           *)
(***************************************************************************)
EXTENDS Naturals, Sequences, FiniteSets, SequencesExt

FieldTypes == {"text", "number", "select", "multiselect", "file", "date", "boolean"}
Values == {"none", "blank", "good", "bad", "low", "high"}

isFilled(v) == v \notin {"none", "blank"}

(* Mutant of Refused: what is filled in is not looked at.                   *)
RefusedRequired(field, v) == field.required /\ ~isFilled(v)

(* validateSubmission(), for a field and its value.                         *)
Refused(field, v) ==
  \/ field.required /\ ~isFilled(v)
  \/ /\ isFilled(v)
     /\ CASE field.type = "text" -> FALSE
          [] field.type = "number" -> v = "bad" \/ v \in field.bounds
          [] field.type = "file" -> v = "bad" /\ field.accept # {}
          [] field.type \in {"select", "multiselect", "date", "boolean"} -> v = "bad"

valid(card, values) == \A name \in DOMAIN card.fields : ~Refused(card.fields[name], values[name])

(* compilePrompt(): a line of the template is the names of its placeholders.*)
(* A line is dropped when it has some and none of them is filled.           *)
compilePrompt(card, values) ==
  LET kept == SelectSeq([n \in DOMAIN card.template |-> n],
                        LAMBDA n : card.template[n] # {} => \E name \in card.template[n] : isFilled(values[name]))
  IN  [k \in DOMAIN kept |-> [line |-> kept[k], says |-> [name \in card.template[kept[k]] |-> values[name]]]]

(* resolveCard(): the tenant's own card first, then the platform's.         *)
Candidates(cards, id, owner) == SelectSeq(cards, LAMBDA c : c.id = id /\ c.enabled /\ c.owner = owner)
resolveCard(cards, id, tenant) ==
  LET found == Candidates(cards, id, tenant) \o Candidates(cards, id, "platform")
  IN  IF found = <<>> THEN {} ELSE {Head(found)}

listCards(cards, tenant) == UNION {resolveCard(cards, c.id, tenant) : c \in {d \in Range(cards) : d.enabled}}

-----------------------------------------------------------------------------
(* The cards of the platform: preset-cards.ts.                              *)

Of(type, required) == [type |-> type, required |-> required, bounds |-> {}, accept |-> {}]
File(required, kinds) == [Of("file", required) EXCEPT !.accept = kinds]
Text == Of("text", FALSE)
Needs(type) == Of(type, TRUE)

XLSX == {"xlsx", "xls"}
DOC == {"docx", "doc"}

Platform(id, industry, fields, template, tools) ==
  [id |-> id, owner |-> "platform", enabled |-> TRUE, industry |-> industry, fields |-> fields,
   template |-> template, tools |-> tools]

(* A template with a line for each of the names, and the demands after them.*)
Lines(names) == [n \in DOMAIN names |-> {names[n]}] \o <<{}>>

supplierReconcile ==
  Platform("mfg.supplier-reconcile", "manufacturing",
    [ourLedger |-> File(TRUE, XLSX), supplierBill |-> File(TRUE, XLSX), keyColumns |-> Needs("multiselect"),
     compareColumns |-> Needs("multiselect"), tolerance |-> [Of("number", FALSE) EXCEPT !.bounds = {"low"}]],
    <<{}>> \o Lines(<<"ourLedger", "supplierBill", "keyColumns", "compareColumns", "tolerance">>),
    {"list_sheets", "read_table", "reconcile_tables"})

eightDReport ==
  Platform("mfg.8d-report", "manufacturing",
    [problemDescription |-> Needs("text"), productInfo |-> Needs("text"), customer |-> Text, rootCause |-> Text,
     evidence |-> File(FALSE, XLSX \cup {"pdf", "jpg", "png"}), deadline |-> Of("date", FALSE)],
    <<{}>> \o Lines(<<"problemDescription", "productInfo", "customer", "rootCause", "evidence", "deadline">>),
    {"read_table", "write_table", "write_document"})

inspectionChecklist ==
  Platform("mfg.inspection-checklist", "manufacturing",
    [rawRecords |-> File(TRUE, XLSX \cup DOC \cup {"txt"}), checkType |-> Needs("select"), area |-> Text],
    <<{}>> \o Lines(<<"rawRecords", "checkType", "area">>),
    {"read_table", "write_table", "write_document"})

productionReport ==
  Platform("mfg.production-report", "manufacturing",
    [productionData |-> File(TRUE, XLSX), period |-> Needs("select"), metrics |-> Needs("multiselect"),
     compareWithLast |-> Of("boolean", FALSE)],
    Lines(<<"period", "productionData", "metrics", "compareWithLast">>),
    {"list_sheets", "read_table", "reconcile_tables", "write_table", "write_document"})

systemDocument ==
  Platform("mfg.system-document", "manufacturing",
    [docType |-> Needs("select"), subject |-> Needs("text"), standard |-> Needs("multiselect"),
     existingDoc |-> File(FALSE, DOC), requirements |-> Text],
    Lines(<<"docType", "subject", "standard", "existingDoc", "requirements">>),
    {"read_document", "write_table", "write_document", "search_knowledge"})

selfAssessment ==
  Platform("univ.self-assessment", "university",
    [indicatorSystem |-> File(TRUE, DOC \cup XLSX \cup {"pdf"}), materials |-> File(TRUE, DOC \cup XLSX \cup {"pdf"}),
     scope |-> Needs("text"), indicators |-> Text],
    <<{}>> \o Lines(<<"scope", "indicatorSystem", "materials", "indicators">>),
    {"read_document", "read_table", "write_table", "write_document", "search_knowledge"})

rectificationLedger ==
  Platform("univ.rectification-ledger", "university",
    [feedback |-> File(TRUE, DOC \cup XLSX \cup {"pdf", "txt"}), deadline |-> Of("date", FALSE),
     departments |-> Text, existingLedger |-> File(FALSE, XLSX)],
    <<{}>> \o Lines(<<"feedback", "deadline", "departments", "existingLedger">>),
    {"read_document", "read_table", "write_table", "write_document"})

officialNotice ==
  Platform("univ.official-notice", "university",
    [docType |-> Needs("select"), subject |-> Needs("text"), issuer |-> Text,
     reference |-> File(FALSE, DOC \cup {"pdf"})],
    Lines(<<"docType", "subject", "issuer", "reference">>),
    {"read_document", "write_table", "write_document", "search_knowledge"})

dataCrossCheck ==
  Platform("univ.data-cross-check", "university",
    [tables |-> File(TRUE, XLSX), keyColumns |-> Needs("multiselect"), compareColumns |-> Needs("multiselect")],
    <<{}>> \o Lines(<<"tables", "keyColumns", "compareColumns">>),
    {"list_sheets", "read_table", "reconcile_tables"})

projectApplication ==
  Platform("univ.project-application", "university",
    [guideline |-> File(TRUE, DOC \cup {"pdf"}), materials |-> File(TRUE, DOC \cup XLSX \cup {"pdf"}),
     projectName |-> Needs("text"), checkOnly |-> Of("boolean", FALSE)],
    <<{}>> \o Lines(<<"projectName", "guideline", "materials", "checkOnly">>),
    {"read_document", "read_table", "write_table", "write_document", "search_knowledge"})

generalTask ==
  Platform("general.free-task", "general",
    [query |-> Needs("text"), attachments |-> File(FALSE, XLSX \cup DOC \cup {"pdf", "txt", "csv"})],
    <<{"query"}, {"attachments"}>>,
    {"local_shell", "list_sheets", "read_table", "reconcile_tables", "read_document", "write_table",
     "write_document", "edit_document", "search_knowledge", "delegate_tasks", "mcp_list_tools", "mcp_call",
     "web_search", "sandbox_execute", "sandbox_files", "sandbox_export", "sandbox_browser",
     "sandbox_browser_action", "sandbox_browser_session", "sandbox_ocr", "run_skill_script", "generate_image",
     "transcribe_audio", "edit_spreadsheet", "write_presentation", "read_file", "merge_pdf",
     "fill_document_template", "read_webpage"})

PRESET_CARDS ==
  <<generalTask, supplierReconcile, eightDReport, inspectionChecklist, productionReport, systemDocument,
    selfAssessment, rectificationLedger, officialNotice, dataCrossCheck, projectApplication>>

cardsByIndustry(industry) == {c \in Range(PRESET_CARDS) : c.industry = industry}

(* The tools, with what they do; all of them are implemented.               *)
TOOL_CATALOG ==
  [write |-> {"stage_to_local", "collect_from_local", "local_shell", "edit_spreadsheet", "write_presentation",
              "merge_pdf", "fill_document_template", "generate_image", "transcribe_audio", "run_skill_script",
              "sandbox_browser_session", "sandbox_execute", "sandbox_files", "sandbox_export",
              "sandbox_browser_action", "write_table", "edit_document", "delegate_tasks", "mcp_call",
              "reconcile_tables", "write_document"},
   read |-> {"read_file", "sandbox_ocr", "read_webpage", "sandbox_browser", "mcp_list_tools", "list_sheets",
             "web_search", "read_table", "read_document", "search_knowledge"}]

unknownTools(names) == names \ (TOOL_CATALOG.write \cup TOOL_CATALOG.read)
isFullyImplemented(names) == unknownTools(names) = {}
activateableTools(declared, registered) == declared \cap registered

-----------------------------------------------------------------------------
(* Skills by name, and agents with the skills they bring, of the platform.  *)
BUILTIN_SKILLS == {"official-writing", "meeting-minutes", "data-report"}
EXPERT_TEMPLATES == {"meeting-assistant", "finance-reconciler", "research-writer"}
BUILTIN_AGENTS ==
  [id : EXPERT_TEMPLATES, skills : {<<>>}]
  \cup {[id |-> "office-assistant", skills |-> <<"official-writing", "data-report">>],
        [id |-> "manufacturing-analyst", skills |-> <<"data-report">>]}

(* A store has the workspace of each skill and agent that was added.        *)
VisibleSkills(store, ws) == BUILTIN_SKILLS \cup {id \in DOMAIN store.skills : store.skills[id] = ws}
VisibleAgents(store, ws) ==
  BUILTIN_AGENTS
  \cup {[id |-> id, skills |-> store.agents[id].skills] : id \in {a \in DOMAIN store.agents : store.agents[a].of = ws}}

distinct(names) == FoldLeft(LAMBDA kept, name : IF name \in Range(kept) THEN kept ELSE Append(kept, name), <<>>, names)

(* resolveAddons(): what a task is run with; "" is nothing asked for.       *)
resolveAddons(store, ws, agent, skill) ==
  LET agents == {a \in VisibleAgents(store, ws) : a.id = agent}
      named == distinct((IF agents = {} THEN <<>> ELSE (CHOOSE a \in agents : TRUE).skills)
                        \o (IF skill = "" THEN <<>> ELSE <<skill>>))
  IN  IF (agent # "" /\ agents = {}) \/ ~(Range(named) \subseteq VisibleSkills(store, ws)) THEN {}
      ELSE {[persona |-> agent, skills |-> named]}

Without(f, id) == [x \in DOMAIN f \ {id} |-> f[x]]
With(f, id, v) == [x \in DOMAIN f \cup {id} |-> IF x = id THEN v ELSE f[x]]

createSkill(store, ws, id) == [store EXCEPT !.skills = With(@, id, ws)]
createAgent(store, ws, id, skills) ==
  LET kept == SelectSeq(distinct(skills), LAMBDA s : s \in VisibleSkills(store, ws))
  IN  IF skills # <<>> /\ kept = <<>> THEN store
      ELSE [store EXCEPT !.agents = With(@, id, [of |-> ws, skills |-> kept])]

(* The skills of the platform an agent may be saved with.                   *)
Savable == {"official-writing", "data-report"}
MaySave(store, ws, id, skills) ==
  /\ id \in DOMAIN store.agents /\ store.agents[id].of = ws
  /\ \A s \in Range(skills) : s \in Savable \/ (s \in DOMAIN store.skills /\ store.skills[s] = ws)

MayDelete(store, ws, id) ==
  /\ id \in DOMAIN store.skills /\ store.skills[id] = ws
  /\ \A a \in DOMAIN store.agents : store.agents[a].of = ws => id \notin Range(store.agents[a].skills)

Change(store, op) ==
  CASE op.does = "create skill" -> createSkill(store, op.ws, op.id)
    [] op.does = "create agent" -> createAgent(store, op.ws, op.id, op.skills)
    [] op.does = "save agent" ->
         IF MaySave(store, op.ws, op.id, op.skills) THEN [store EXCEPT !.agents[op.id].skills = op.skills] ELSE store
    [] op.does = "delete skill" ->
         IF MayDelete(store, op.ws, op.id) THEN [store EXCEPT !.skills = Without(@, op.id)] ELSE store
    [] op.does = "delete agent" ->
         IF op.id \in DOMAIN store.agents /\ store.agents[op.id].of = op.ws THEN [store EXCEPT !.agents = Without(@, op.id)] ELSE store

After(ops) == FoldLeft(Change, [skills |-> << >>, agents |-> << >>], ops)

-----------------------------------------------------------------------------
(* What a model is asked to do with a submission that was accepted: every   *)
(* value in it is filled and of its field, or a blank beside one that is;   *)
(* no required field the template names is missing: scenario.ts:244.        *)
PromptSound(card, values) ==
  valid(card, values) =>
    LET prompt == compilePrompt(card, values)
    IN  /\ \A name \in DOMAIN card.fields :
             /\ card.fields[name].required /\ (\E n \in DOMAIN card.template : name \in card.template[n])
             => \E k \in DOMAIN prompt : name \in DOMAIN prompt[k].says /\ isFilled(prompt[k].says[name])
        /\ \A k \in DOMAIN prompt :
             /\ DOMAIN prompt[k].says # {} => \E name \in DOMAIN prompt[k].says : isFilled(prompt[k].says[name])
             /\ \A name \in DOMAIN prompt[k].says :
                  /\ prompt[k].says[name] = "bad"
                     => card.fields[name].type = "text" \/ (card.fields[name].type = "file" /\ card.fields[name].accept = {})
                  /\ card.fields[name].type = "number" => prompt[k].says[name] \notin card.fields[name].bounds

(* A tenant sees one card of each identifier, its own if it has an enabled  *)
(* one, never another tenant's; and it may submit just what it sees.        *)
CardsSound(cards, tenant) ==
  LET seen == listCards(cards, tenant)
  IN  /\ \A c, d \in seen : c.id = d.id => c = d
      /\ \A c \in seen :
           /\ c.enabled /\ c.owner \in {tenant, "platform"}
           /\ c.owner = "platform" => \A d \in Range(cards) : d.owner = tenant /\ d.id = c.id => ~d.enabled
      /\ \A c \in Range(cards) :
           resolveCard(cards, c.id, tenant) # {} <=> \E d \in seen : d.id = c.id

(* A card of the platform loses nothing a user fills in: its fields are     *)
(* just what its template names, each of them on one line, so that a line   *)
(* is dropped only when nothing was filled in for it; its tools all exist   *)
(* (a name that does not would leave the task without it and tell nobody),  *)
(* with one that writes among them; and the groups of the first page and    *)
(* the card for everything else share the cards out: preset-cards.ts:714.   *)
PresetSound(n) ==
  LET card == PRESET_CARDS[n]
      lines == card.template
      given == [DOMAIN card.fields -> {"none", "good"}]
  IN  /\ UNION Range(lines) = DOMAIN card.fields
      /\ \A k, l \in DOMAIN lines : k # l => lines[k] \cap lines[l] = {}
      /\ \A values \in given :
           /\ PromptSound(card, values)
           /\ valid(card, values) =>
                \A name \in DOMAIN card.fields : isFilled(values[name]) <=>
                  \E k \in DOMAIN compilePrompt(card, values) : name \in DOMAIN compilePrompt(card, values)[k].says
      /\ isFullyImplemented(card.tools)
      /\ activateableTools(card.tools, TOOL_CATALOG.write) # {}
      /\ \A m \in DOMAIN PRESET_CARDS : PRESET_CARDS[m].id = card.id => m = n
      /\ card \in resolveCard(PRESET_CARDS, card.id, "t1")
      /\ (card = generalTask) # (card \in cardsByIndustry("manufacturing") \cup cardsByIndustry("university"))
      /\ cardsByIndustry("manufacturing") \cap cardsByIndustry("university") = {}

(* After any calls, each agent and skill a workspace is shown can be used,  *)
(* together and apart: no call leaves an agent with a skill that is gone.   *)
(* A task gets the skills of its agent and its own, each of them once and   *)
(* in this order, and nothing of another workspace: addons.ts:187.          *)
AddonsSound(ops, workspaces) ==
  LET store == After(ops)
      known == {a.id : a \in BUILTIN_AGENTS} \cup DOMAIN store.agents
  IN  \A ws \in workspaces, agent \in {""} \cup known, skill \in {""} \cup BUILTIN_SKILLS \cup DOMAIN store.skills :
        LET shown == {a \in VisibleAgents(store, ws) : a.id = agent}
            run == resolveAddons(store, ws, agent, skill)
        IN  /\ run # {} <=> (agent = "" \/ shown # {}) /\ skill \in {""} \cup VisibleSkills(store, ws)
            /\ \A r \in run :
                 /\ Cardinality(Range(r.skills)) = Len(r.skills)
                 /\ Range(r.skills) = UNION {Range(a.skills) : a \in shown} \cup ({skill} \ {""})
                 /\ skill # "" /\ (\A a \in shown : skill \notin Range(a.skills)) => Last(r.skills) = skill

(* Not so: an agent can be saved as it is.  One that was created with the   *)
(* platform's skill for minutes cannot (workspace-management.ts:46).        *)
AgentsAreSavable(ops) ==
  LET store == After(ops)
  IN  \A id \in DOMAIN store.agents : MaySave(store, store.agents[id].of, id, store.agents[id].skills)

(* Not so: a card has a tool that reads each kind of file it takes.  The    *)
(* inspection card takes documents and has read_table alone; the 8D report  *)
(* takes pictures and a PDF (preset-cards.ts:130, 186).                     *)
Reads(tool) ==
  CASE tool = "read_table" -> XLSX \cup {"csv"}
    [] tool = "read_document" -> DOC \cup {"pdf", "txt"}
    [] OTHER -> {}
FilesAreReadable ==
  \A n \in DOMAIN PRESET_CARDS : \A name \in DOMAIN PRESET_CARDS[n].fields :
    PRESET_CARDS[n].fields[name].accept \subseteq UNION {Reads(t) : t \in PRESET_CARDS[n].tools}

(* Not so: a blank never stands in the prompt for an optional field.        *)
NoBlanks(card, values) ==
  valid(card, values) =>
    \A k \in DOMAIN compilePrompt(card, values) : \A name \in DOMAIN compilePrompt(card, values)[k].says :
      isFilled(compilePrompt(card, values)[k].says[name])
=============================================================================
