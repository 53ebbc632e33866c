------------------------------- MODULE Services -------------------------------
(***************************************************************************)
(* Eleven components that share no variable, side by side: a behaviour is  *)
(* one of the component "part" names, so the state space is their sum.     *)
(* MCServices gives the instance TLC checks; ServicesProofs has what holds *)
(* of every one.                                                           *)
(***************************************************************************)
EXTENDS Naturals, Sequences, FiniteSets

CONSTANTS   \* of each component, under its own name or one of its part here
  Jobs, NoJob, Queues, Cap, MaxRequests, MaxJobFaults, MaxJobRestarts,
  Admins, Values, MaxWrites, MaxSaveFaults, MaxDamage,
  Accounts, TenantOf, Founders, Writers, Limits, MaxCrypto, MaxChanges,
  Users, Workspaces, Resources, Ids, Conns, MaxOut, MaxOfOne, MaxUncut,
  LocalCalls, NoCall,
  TextSize, MaxTicks, MaxPageFaults,
  ModelCalls, Evaluated, MaxActive, Rpm, Tpm, Need, Budget, MaxRetries, MaxGateFaults,
  MaxGateRestarts,
  EvRuns, EvSize, EvWorkers, MaxEvFaults, MaxEvRestarts,
  SubSize, SubWorkers,
  Owners, Exts, Args, CmdTokens, PerOwner, Total, MaxToggles, MaxCmdFaults, MaxCmdRestarts,
  States, Handlers, Subjects, Bindable, Issuers, Room, MaxEdits, MaxSsoRestarts

(* Calls, jobs and workers are told from nobody; what is counted is finite; *)
(* a configuration begins on the first queue; a call of the tool that has   *)
(* tasks starts workers for them.                                           *)
ASSUME ServicesAssumption ==
  /\ NoJob \notin Jobs /\ 1 \in Queues /\ Cap \in Nat
  /\ IsFiniteSet(Accounts) /\ Founders \subseteq Accounts /\ Limits \subseteq Nat
  /\ IsFiniteSet(Ids) /\ MaxOut \in Nat /\ MaxOfOne \in Nat
  /\ NoCall \notin LocalCalls /\ TextSize \in Nat
  /\ IsFiniteSet(ModelCalls) /\ MaxActive \in Nat /\ Rpm \in Nat /\ Tpm \in Nat /\ Need \in Nat /\ Budget \in Nat
  /\ IsFiniteSet(EvWorkers) /\ EvSize \in Nat
  /\ IsFiniteSet(SubWorkers) /\ SubSize \in Nat /\ (SubWorkers = {} => SubSize = 0)

VARIABLES
  part,
  disk, queue, running, doing, current, jobRequests, enabled, lost, requested, jobFaults, restarts,
  mem, main, prev, installed, seen, writes, saveFaults, damage, torn, retired, blind,
  account, sessions, deriving, limit, claimed, requests, active, changes,
  user, claims, stale, count, opened, stream, uncut, faults,
  activeRoots, pc, child, group, timeout, killFallback, stopped, copy,
  pageMade, pagePhase, pageHeld, pageTimer, pageChain, pageLog, pageStatus, pageLinked, pageWire,
  pagePoll, pagePage, pageTicks, pageBroken,
  gateAt, gateTries, gateActive, gateWindow, gateDisk, gateSent, gateEnabled, gateUsed, gateExceeded,
  gateSpent, gateFaults, gateRestarts,
  evStatus, evResults, evSaved, evBusy, evNext, evWorker, evExceeded, evTaken, evFaults, evRestarts,
  subAborted, subNext, subJob, subAt, subTimedOut, subStopped, subOpen, subAnswered, subResults,
  subArtifacts,
  cmdEnabled, cmdGeneration, cmdFile, cmdOpen, cmdMade, cmdRunning, cmdInFlight, cmdClosed,
  cmdConfirmed, cmdFaults, cmdRestarts,
  ssoProvider, ssoBindings, ssoAble, ssoTransactions, ssoUnused, ssoAt, ssoEdits, ssoLogins,
  ssoRestarts

J == INSTANCE KnowledgeJobs
       WITH MaxFaults <- MaxJobFaults, MaxRestarts <- MaxJobRestarts,
            requests <- jobRequests, faults <- jobFaults
S == INSTANCE AdminSettings
       WITH MaxFaults <- MaxSaveFaults, faults <- saveFaults
I == INSTANCE AdminIdentity
T == INSTANCE Streams WITH MaxActive <- MaxOut, MaxFaults <- MaxUncut
L == INSTANCE LocalControl WITH Calls <- LocalCalls, None <- NoCall
V == INSTANCE LiveText
       WITH Size <- TextSize, MaxFaults <- MaxPageFaults,
            made <- pageMade, phase <- pagePhase, held <- pageHeld, timer <- pageTimer,
            chain <- pageChain, log <- pageLog, status <- pageStatus, linked <- pageLinked,
            wire <- pageWire, poll <- pagePoll, page <- pagePage, ticks <- pageTicks,
            broken <- pageBroken
M == INSTANCE ModelControls
       WITH Calls <- ModelCalls, Retries <- MaxRetries, MaxFaults <- MaxGateFaults, MaxRestarts <- MaxGateRestarts,
            at <- gateAt, tries <- gateTries, active <- gateActive, window <- gateWindow,
            disk <- gateDisk, sent <- gateSent, enabled <- gateEnabled, used <- gateUsed,
            exceeded <- gateExceeded, spent <- gateSpent, faults <- gateFaults,
            restarts <- gateRestarts
E == INSTANCE Evaluations
       WITH Runs <- EvRuns, Size <- EvSize, Workers <- EvWorkers, MaxFaults <- MaxEvFaults,
            MaxRestarts <- MaxEvRestarts,
            status <- evStatus, results <- evResults, saved <- evSaved, busy <- evBusy,
            next <- evNext, worker <- evWorker, exceeded <- evExceeded, taken <- evTaken,
            faults <- evFaults, restarts <- evRestarts
D == INSTANCE SubTasks
       WITH Size <- SubSize, Workers <- SubWorkers,
            aborted <- subAborted, next <- subNext, job <- subJob, at <- subAt,
            timedOut <- subTimedOut, stopped <- subStopped, open <- subOpen,
            answered <- subAnswered, results <- subResults, artifacts <- subArtifacts
C == INSTANCE CustomExtensions
       WITH Tokens <- CmdTokens, MaxFaults <- MaxCmdFaults, MaxRestarts <- MaxCmdRestarts,
            enabled <- cmdEnabled, generation <- cmdGeneration, file <- cmdFile, open <- cmdOpen,
            made <- cmdMade, running <- cmdRunning, inFlight <- cmdInFlight, closed <- cmdClosed,
            confirmed <- cmdConfirmed, faults <- cmdFaults, restarts <- cmdRestarts
O == INSTANCE EnterpriseOidc
       WITH Accounts <- Bindable, MaxRestarts <- MaxSsoRestarts,
            provider <- ssoProvider, bindings <- ssoBindings, able <- ssoAble,
            transactions <- ssoTransactions, unused <- ssoUnused, at <- ssoAt, edits <- ssoEdits,
            logins <- ssoLogins, restarts <- ssoRestarts

jobs == <<disk, queue, running, doing, current, jobRequests, enabled, lost, requested, jobFaults, restarts>>
settings == <<mem, main, prev, installed, seen, writes, saveFaults, damage, torn, retired, blind>>
identity == <<account, sessions, deriving, limit, claimed, requests, active, changes>>
streams == <<user, claims, stale, count, opened, stream, uncut, faults>>
calls == <<activeRoots, pc, child, group, timeout, killFallback, stopped, copy>>
page == <<pageMade, pagePhase, pageHeld, pageTimer, pageChain, pageLog, pageStatus, pageLinked, pageWire,
          pagePoll, pagePage, pageTicks, pageBroken>>
models == <<gateAt, gateTries, gateActive, gateWindow, gateDisk, gateSent, gateEnabled, gateUsed, gateExceeded,
            gateSpent, gateFaults, gateRestarts>>
evaluations == <<evStatus, evResults, evSaved, evBusy, evNext, evWorker, evExceeded, evTaken, evFaults, evRestarts>>
subtasks == <<subAborted, subNext, subJob, subAt, subTimedOut, subStopped, subOpen, subAnswered, subResults,
              subArtifacts>>
commands == <<cmdEnabled, cmdGeneration, cmdFile, cmdOpen, cmdMade, cmdRunning, cmdInFlight, cmdClosed,
              cmdConfirmed, cmdFaults, cmdRestarts>>
oidc == <<ssoProvider, ssoBindings, ssoAble, ssoTransactions, ssoUnused, ssoAt, ssoEdits, ssoLogins,
          ssoRestarts>>

JobsOff ==
  /\ disk = "off" /\ queue = "off" /\ running = "off" /\ doing = "off" /\ current = "off"
  /\ jobRequests = "off" /\ enabled = "off" /\ lost = "off" /\ requested = "off"
  /\ jobFaults = "off" /\ restarts = "off"
SettingsOff ==
  /\ mem = "off" /\ main = "off" /\ prev = "off" /\ installed = "off" /\ seen = "off"
  /\ writes = "off" /\ saveFaults = "off" /\ damage = "off" /\ torn = "off" /\ retired = "off"
  /\ blind = "off"
IdentityOff ==
  /\ account = "off" /\ sessions = "off" /\ deriving = "off" /\ limit = "off" /\ claimed = "off"
  /\ requests = "off" /\ active = "off" /\ changes = "off"
StreamsOff ==
  /\ user = "off" /\ claims = "off" /\ stale = "off" /\ count = "off" /\ opened = "off"
  /\ stream = "off" /\ uncut = "off" /\ faults = "off"
CallsOff ==
  /\ activeRoots = "off" /\ pc = "off" /\ child = "off" /\ group = "off" /\ timeout = "off"
  /\ killFallback = "off" /\ stopped = "off" /\ copy = "off"
PageOff ==
  /\ pageMade = "off" /\ pagePhase = "off" /\ pageHeld = "off" /\ pageTimer = "off"
  /\ pageChain = "off" /\ pageLog = "off" /\ pageStatus = "off" /\ pageLinked = "off"
  /\ pageWire = "off" /\ pagePoll = "off" /\ pagePage = "off" /\ pageTicks = "off"
  /\ pageBroken = "off"
ModelsOff ==
  /\ gateAt = "off" /\ gateTries = "off" /\ gateActive = "off" /\ gateWindow = "off"
  /\ gateDisk = "off" /\ gateSent = "off" /\ gateEnabled = "off" /\ gateUsed = "off"
  /\ gateExceeded = "off" /\ gateSpent = "off" /\ gateFaults = "off" /\ gateRestarts = "off"
EvaluationsOff ==
  /\ evStatus = "off" /\ evResults = "off" /\ evSaved = "off" /\ evBusy = "off" /\ evNext = "off"
  /\ evWorker = "off" /\ evExceeded = "off" /\ evTaken = "off" /\ evFaults = "off"
  /\ evRestarts = "off"
SubtasksOff ==
  /\ subAborted = "off" /\ subNext = "off" /\ subJob = "off" /\ subAt = "off"
  /\ subTimedOut = "off" /\ subStopped = "off" /\ subOpen = "off" /\ subAnswered = "off"
  /\ subResults = "off" /\ subArtifacts = "off"
CommandsOff ==
  /\ cmdEnabled = "off" /\ cmdGeneration = "off" /\ cmdFile = "off" /\ cmdOpen = "off"
  /\ cmdMade = "off" /\ cmdRunning = "off" /\ cmdInFlight = "off" /\ cmdClosed = "off"
  /\ cmdConfirmed = "off" /\ cmdFaults = "off" /\ cmdRestarts = "off"
OidcOff ==
  /\ ssoProvider = "off" /\ ssoBindings = "off" /\ ssoAble = "off" /\ ssoTransactions = "off"
  /\ ssoUnused = "off" /\ ssoAt = "off" /\ ssoEdits = "off" /\ ssoLogins = "off"
  /\ ssoRestarts = "off"

(* The components "part" does not name.                                     *)
OthersOff ==
  /\ IF part = "jobs" THEN TRUE ELSE JobsOff
  /\ IF part = "settings" THEN TRUE ELSE SettingsOff
  /\ IF part = "identity" THEN TRUE ELSE IdentityOff
  /\ IF part = "streams" THEN TRUE ELSE StreamsOff
  /\ IF part = "calls" THEN TRUE ELSE CallsOff
  /\ IF part = "page" THEN TRUE ELSE PageOff
  /\ IF part = "models" THEN TRUE ELSE ModelsOff
  /\ IF part = "evaluations" THEN TRUE ELSE EvaluationsOff
  /\ IF part = "subtasks" THEN TRUE ELSE SubtasksOff
  /\ IF part = "commands" THEN TRUE ELSE CommandsOff
  /\ IF part = "oidc" THEN TRUE ELSE OidcOff
OthersStay ==
  /\ UNCHANGED part
  /\ IF part = "jobs" THEN TRUE ELSE UNCHANGED jobs
  /\ IF part = "settings" THEN TRUE ELSE UNCHANGED settings
  /\ IF part = "identity" THEN TRUE ELSE UNCHANGED identity
  /\ IF part = "streams" THEN TRUE ELSE UNCHANGED streams
  /\ IF part = "calls" THEN TRUE ELSE UNCHANGED calls
  /\ IF part = "page" THEN TRUE ELSE UNCHANGED page
  /\ IF part = "models" THEN TRUE ELSE UNCHANGED models
  /\ IF part = "evaluations" THEN TRUE ELSE UNCHANGED evaluations
  /\ IF part = "subtasks" THEN TRUE ELSE UNCHANGED subtasks
  /\ IF part = "commands" THEN TRUE ELSE UNCHANGED commands
  /\ IF part = "oidc" THEN TRUE ELSE UNCHANGED oidc

Init ==
  /\ \/ part = "jobs" /\ J!Init
     \/ part = "settings" /\ S!Init
     \/ part = "identity" /\ I!Init
     \/ part = "streams" /\ T!Init
     \/ part = "calls" /\ L!Init
     \/ part = "page" /\ V!Init
     \/ part = "models" /\ M!Init
     \/ part = "evaluations" /\ E!Init
     \/ part = "subtasks" /\ D!Init
     \/ part = "commands" /\ C!Init
     \/ part = "oidc" /\ O!Init
  /\ OthersOff

Next ==
  /\ \/ part = "jobs" /\ J!Next
     \/ part = "settings" /\ S!Next
     \/ part = "identity" /\ I!Next
     \/ part = "streams" /\ T!Next
     \/ part = "calls" /\ L!Next
     \/ part = "page" /\ V!Next
     \/ part = "models" /\ M!Next
     \/ part = "evaluations" /\ E!Next
     \/ part = "subtasks" /\ D!Next
     \/ part = "commands" /\ C!Next
     \/ part = "oidc" /\ O!Next
  /\ OthersStay

vars ==
  <<part, jobs, settings, identity, streams, calls, page, models, evaluations, subtasks, commands,
    oidc>>

Spec == Init /\ [][Next]_vars

-----------------------------------------------------------------------------
(* Work of others that goes on behind a request keeps its books: the jobs   *)
(* of the knowledge base, evaluation runs, the sub-tasks of a tool call.    *)
JobsSafe ==
  /\ part = "jobs" => J!Safe
  /\ part = "evaluations" => E!Safe
  /\ part = "subtasks" => D!Safe

(* The running settings are the stored ones.                                *)
SettingsSafe == part = "settings" => S!Safe

(* Sessions, accounts and tenants of a login fit together, and the tickets  *)
(* and connections of a principal are counted right.                        *)
IdentitySafe ==
  /\ part = "identity" => I!Safe
  /\ part = "streams" => T!Safe

(* Local commands hold their root, and end with their processes.            *)
CallsSafe == part = "calls" => L!Safe

(* The page shows a beginning of the answer, all of it in the end, and      *)
(* takes nothing back: core.js, run-display.js:53.                          *)
PageTrue ==
  /\ [](part = "page" => V!Safe)
  /\ [][part = "page" => V!KeepsText]_page

(* The gate in front of the models keeps rate, seats and budget.            *)
ModelsSafe == part = "models" => M!Safe

(* A confirmation of a command, and a login state, work once and not over   *)
(* a change of what they were given for.                                    *)
GrantsSafe ==
  /\ [](part = "commands" => C!Safe)
  /\ [](part = "oidc" => O!Safe)
  /\ [][part = "oidc" => O!LetsInTheBound]_oidc

=============================================================================
