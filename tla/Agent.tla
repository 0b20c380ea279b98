------------------------------- MODULE Agent -------------------------------
(***************************************************************************)
(* The agent on a gateway (internal/agent/agent.go): an HTTP handler that  *)
(* writes the configuration files of keepalived and of nftables, in this   *)
(* order, reloads the services and rolls a file back when that fails.      *)
(*                                                                         *)
(* net/http runs every request in a goroutine of its own.  The handler's   *)
(* mutex is never locked, so requests interleave between any two accesses  *)
(* to a file or a service.  The controller pushes one request at a time,   *)
(* but the handler does not notice that its client is gone: a request of a *)
(* controller that restarted, or whose connection broke, runs beside the   *)
(* next one.  Slot bounds how many do.                                     *)
(*                                                                         *)
(* WriteWithRollback's private files are not modelled; what it learns from *)
(* them (the backup, and whether the new file differs) is one reading of   *)
(* the configuration file, which a rename replaces as a whole.             *)
(*                                                                         *)
(* The services are external.  A service runs the configuration it loaded  *)
(* last, or is down.  Its main configuration includes the agent's file if  *)
(* there is one; with partial reload, nft is given the file itself.        *)
(* Bad[m] are the configurations that m cannot run: the reload reports it, *)
(* or the service dies and the check reports it.                           *)
(* MaxFaults bounds the calls that fail for another reason, MaxCrashes the *)
(* restarts of the agent, MaxRequests the requests and MaxOverlaps those   *)
(* that come while another is in progress.                                 *)
(*                                                                         *)
(* Abstracted: what a configuration says; a preflight, token or validation *)
(* error, which is answered before anything is touched.                    *)
(***************************************************************************)
EXTENDS Naturals, Sequences, Functions

CONSTANTS
    Config,         \* the configurations the controller may push
    Bad,            \* per manager, those its service cannot run
    NoFile,         \* no configuration file, or a service without one
    Down,           \* a service that is not running
    Managers,       \* the managers in order; keepalived may be disabled
    PartialReload,  \* nftables.partial-reload: reload when the agent starts
    Slot,           \* the requests that may be in progress at a time
    MaxRequests, MaxOverlaps, MaxFaults, MaxCrashes

Manager == Range(Managers)

ASSUME AgentAssumption ==
    /\ NoFile \notin Config /\ Down \notin Config \cup {NoFile}
    /\ Managers \in {<<"nftables">>, <<"keepalived", "nftables">>}
    /\ Bad \in [Manager -> SUBSET Config]
    /\ PartialReload \in BOOLEAN
    /\ {MaxRequests, MaxOverlaps, MaxFaults, MaxCrashes} \subseteq Nat

VARIABLES
    file,       \* the configuration file of each manager
    running,    \* what the service of each manager runs
    handler,    \* the handler of each request: where it is, what it knows
    answer,     \* the last answer sent
    requests, overlaps, faults, crashes   \* how much of the bounds is used up

budgetVars == <<requests, overlaps, faults, crashes>>
vars == <<file, running, handler, answer, budgetVars>>

Fault == faults < MaxFaults /\ faults' = faults + 1
NoFault == UNCHANGED faults

(* Between two requests a handler is idle.  `at` is the position of the    *)
(* manager it has come to, `backup` the content it has saved; `nr` numbers *)
(* the request and `before` is what the services ran when it came (both    *)
(* are history).                                                           *)
Idle(r) == handler[r].step = "Idle"
AllIdle == \A r \in Slot : Idle(r)
NoRequest == [step |-> "Idle", config |-> NoFile, at |-> 1, backup |-> NoFile,
              nr |-> 0, before |-> [m \in Manager |-> NoFile]]
Mgr(r) == Managers[handler[r].at]

Goto(r, step) == handler' = [handler EXCEPT ![r] = [@ EXCEPT !.step = step]]

(* ProcessRequest answers; an error ends the request at once.              *)
Reply(r, status) ==
    /\ handler' = [handler EXCEPT ![r] = NoRequest]
    /\ answer' = [nr |-> handler[r].nr, status |-> status, config |-> handler[r].config]

(* Definitions whose names end in _Slip are not the code: each is a slip   *)
(* that could have been made there.                                        *)
PastTheEnd_Slip(r) ==
    IF handler[r].at > Len(Managers)
      THEN Reply(r, 200)
      ELSE /\ handler' = [handler EXCEPT ![r] =
                 [@ EXCEPT !.step = "Prepare", !.at = handler[r].at + 1]]
           /\ UNCHANGED answer

(* WriteWithRollback has returned without an error.                        *)
NextManager(r) ==
    IF handler[r].at = Len(Managers)
      THEN Reply(r, 200)
      ELSE /\ handler' = [handler EXCEPT ![r] =
                 [@ EXCEPT !.step = "Prepare", !.at = handler[r].at + 1]]
           /\ UNCHANGED answer

-----------------------------------------------------------------------------
(* ServeHTTP accepts a request.                                            *)
Receive(r, c) ==
    /\ Idle(r)
    /\ requests < MaxRequests
    /\ requests' = requests + 1
    /\ IF AllIdle THEN UNCHANGED overlaps
                   ELSE overlaps < MaxOverlaps /\ overlaps' = overlaps + 1
    /\ handler' = [handler EXCEPT ![r] =
           [NoRequest EXCEPT !.step = "Prepare", !.config = c,
                             !.nr = requests', !.before = running]]
    /\ UNCHANGED <<file, running, answer, faults, crashes>>

(* diffFiles, of the configuration file and the new one.                   *)
Differs(r) == file[Mgr(r)] # handler[r].config

(* MakeBackup; NoFile if there is nothing to back up.                      *)
MakeBackup(r) ==
    handler' = [handler EXCEPT ![r] = [@ EXCEPT !.step = "Rename", !.backup = file[Mgr(r)]]]

(* WriteWithRollback up to the comparison: an unchanged file is left alone *)
(* and not reloaded; an error touches nothing.                             *)
Prepare(r) ==
    /\ handler[r].step = "Prepare"
    /\ \/ ~Differs(r) /\ NextManager(r) /\ NoFault
       \/ Differs(r) /\ MakeBackup(r) /\ NoFault /\ UNCHANGED answer
       \/ Fault /\ Reply(r, 500)
    /\ UNCHANGED <<file, running, requests, overlaps, crashes>>

NoReload_Slip(r) ==
    /\ handler[r].step = "Rename"
    /\ file' = [file EXCEPT ![Mgr(r)] = handler[r].config] /\ NoFault
    /\ Goto(r, "Check")
    /\ UNCHANGED <<running, answer, requests, overlaps, crashes>>

(* The error of this os.Rename is not looked at.                           *)
Rename(r) ==
    /\ handler[r].step = "Rename"
    /\ \/ file' = [file EXCEPT ![Mgr(r)] = handler[r].config] /\ NoFault
       \/ UNCHANGED file /\ Fault
    /\ Goto(r, "Reload")
    /\ UNCHANGED <<running, answer, requests, overlaps, crashes>>

(* With partial reload there is no service: nft loads the file, or refuses *)
(* and changes nothing.                                                    *)
Direct(m) == PartialReload /\ m = "nftables"

Loadable(m) ==
    /\ file[m] \notin Bad[m]
    /\ file[m] = NoFile => ~Direct(m)

(* What a reload does to the service; `ok` is what its command reports.    *)
Load(m, ok) ==
    \/ /\ Loadable(m) /\ running[m] # Down
       /\ ok /\ running' = [running EXCEPT ![m] = file[m]] /\ NoFault
    \/ /\ file[m] \in Bad[m] /\ running[m] # Down /\ ~Direct(m)
       /\ ok /\ running' = [running EXCEPT ![m] = Down] /\ NoFault
    \/ /\ ~Loadable(m) \/ running[m] = Down
       /\ ~ok /\ UNCHANGED running /\ NoFault
    \/ ~ok /\ UNCHANGED running /\ Fault

Reload(r) ==
    /\ handler[r].step = "Reload"
    /\ \/ Load(Mgr(r), TRUE) /\ Goto(r, "Check")
       \/ Load(Mgr(r), FALSE) /\ Goto(r, "Restore")
    /\ UNCHANGED <<file, answer, requests, overlaps, crashes>>

NoCheck_Slip(r) ==
    /\ handler[r].step = "Check"
    /\ NextManager(r) /\ NoFault
    /\ UNCHANGED <<file, running, requests, overlaps, crashes>>

(* The status command, CheckDelay seconds after the reload.                *)
Check(r) ==
    /\ handler[r].step = "Check"
    /\ \/ running[Mgr(r)] # Down /\ NextManager(r) /\ NoFault
       \/ /\ IF running[Mgr(r)] = Down THEN NoFault ELSE Fault
          /\ Goto(r, "Restore")
          /\ UNCHANGED answer
    /\ UNCHANGED <<file, running, requests, overlaps, crashes>>

NoRestore_Slip(r) ==
    /\ handler[r].step = "Restore"
    /\ Goto(r, "FixReload") /\ NoFault
    /\ UNCHANGED <<file, running, answer, requests, overlaps, crashes>>

(* Swap the backup back, or remove the new file; an error is only logged.  *)
Restore(r) ==
    /\ handler[r].step = "Restore"
    /\ \/ file' = [file EXCEPT ![Mgr(r)] = handler[r].backup] /\ NoFault
       \/ UNCHANGED file /\ Fault
    /\ Goto(r, "FixReload")
    /\ UNCHANGED <<running, answer, requests, overlaps, crashes>>

(* Fix: the reload's error is ignored, because a crashed service cannot    *)
(* reload, and the service is started (keepalived) or restarted.           *)
FixReload(r) ==
    /\ handler[r].step = "FixReload"
    /\ \E ok \in BOOLEAN : Load(Mgr(r), ok)
    /\ Goto(r, "FixStart")
    /\ UNCHANGED <<file, answer, requests, overlaps, crashes>>

FixStart(r) ==
    /\ handler[r].step = "FixStart"
    /\ \/ /\ running' = [running EXCEPT ![Mgr(r)] =
                 IF Mgr(r) = "keepalived" /\ @ # Down THEN @
                 ELSE IF Loadable(Mgr(r)) THEN file[Mgr(r)]
                 ELSE IF Direct(Mgr(r)) THEN @ ELSE Down]
          /\ NoFault
       \/ UNCHANGED running /\ Fault
    /\ Reply(r, 500)
    /\ UNCHANGED <<file, requests, overlaps, crashes>>

NoStartupReload_Slip ==
    /\ crashes < MaxCrashes
    /\ crashes' = crashes + 1
    /\ handler' = [r \in Slot |-> NoRequest]
    /\ UNCHANGED <<running, faults, file, answer, requests, overlaps>>

(* The agent dies and starts again: the handlers are gone, the files and   *)
(* the services remain.  With partial reload it first reloads nftables and *)
(* does not look at the result.                                            *)
Restart ==
    /\ crashes < MaxCrashes
    /\ crashes' = crashes + 1
    /\ handler' = [r \in Slot |-> NoRequest]
    /\ IF PartialReload THEN \E ok \in BOOLEAN : Load("nftables", ok)
                        ELSE UNCHANGED <<running, faults>>
    /\ UNCHANGED <<file, answer, requests, overlaps>>

Step(r) ==
    \/ Prepare(r) \/ Rename(r) \/ Reload(r) \/ Check(r)
    \/ Restore(r) \/ FixReload(r) \/ FixStart(r)

Init ==
    /\ file = [m \in Manager |-> NoFile]
    /\ running = [m \in Manager |-> NoFile]
    /\ handler = [r \in Slot |-> NoRequest]
    /\ answer = [nr |-> 0, status |-> 200, config |-> NoFile]
    /\ requests = 0 /\ overlaps = 0 /\ faults = 0 /\ crashes = 0

Next ==
    \/ \E r \in Slot : (\E c \in Config : Receive(r, c)) \/ Step(r)
    \/ Restart

Spec == Init /\ [][Next]_vars

-----------------------------------------------------------------------------
StepName ==
    {"Idle", "Prepare", "Rename", "Reload", "Check", "Restore", "FixReload", "FixStart"}
HandlerState ==
    [step : StepName,
     config : Config \cup {NoFile}, at : DOMAIN Managers, backup : Config \cup {NoFile},
     nr : 0..MaxRequests, before : [Manager -> Config \cup {NoFile, Down}]]

(* The types of the variables.                                             *)
TypeOK ==
    /\ file \in [Manager -> Config \cup {NoFile}]
    /\ running \in [Manager -> Config \cup {NoFile, Down}]
    /\ handler \in [Slot -> HandlerState]
    /\ answer \in [nr : 0..MaxRequests, status : {200, 500}, config : Config \cup {NoFile}]
    /\ requests \in 0..MaxRequests /\ overlaps \in 0..MaxOverlaps
    /\ faults \in 0..MaxFaults /\ crashes \in 0..MaxCrashes

Answers == answer' # answer

(* "success" is only answered when every file and every service has the    *)
(* configuration of the request, also when an unchanged file was skipped.  *)
(* A rename that failed unseen refutes that, hence the first conjunct.     *)
SuccessMeansApplied ==
    [][faults' = 0 /\ overlaps = 0 /\ crashes = 0 /\ Answers /\ answer'.status = 200 =>
        \A m \in Manager : file'[m] = answer'.config /\ running'[m] = answer'.config]_vars

(* Whatever failed before: a service that has passed the reload and the    *)
(* check runs the new file.                                                *)
PassedCheckRunsFile ==
    [][\A r \in Slot :
        (/\ handler[r].step = "Check" /\ handler'[r].step # "Restore"
         /\ handler'[r] # handler[r] /\ crashes' = crashes /\ overlaps = 0) =>
            running'[Mgr(r)] = file'[Mgr(r)]]_vars

(* A manager that fails is back where it was before the request: the file  *)
(* is the old one and the service, if it ran that then, runs it again.     *)
(* That survives one failed call, unless the service cannot run the        *)
(* configuration either.  nft has no old file to load before the first.    *)
FailureRollsBack ==
    [][\A r \in Slot :
        (/\ handler[r].step = "FixStart" /\ handler'[r].step = "Idle"
         /\ crashes' = crashes /\ overlaps = 0
         /\ handler[r].before[Mgr(r)] = handler[r].backup
         /\ handler[r].backup = NoFile => ~Direct(Mgr(r))
         /\ faults' <= IF handler[r].config \in Bad[Mgr(r)] THEN 0 ELSE 1) =>
            file'[Mgr(r)] = handler[r].backup /\ running'[Mgr(r)] = handler[r].backup]_vars

(* When nobody is at work, the services run what the files say: what the   *)
(* comparison with the file in WriteWithRollback, and the next reload of   *)
(* the service by anybody else, rely on.  Requests may interleave in any   *)
(* way; an agent that dies between the rename and the reload breaks it for *)
(* good, unless it is told to reload nftables when it starts.              *)
IdleRunsFile ==
    AllIdle /\ faults = 0 =>
        \A m \in Manager :
            (/\ crashes = 0 \/ Direct(m)
             /\ Loadable(m) \/ (crashes = 0 /\ overlaps = 0)) => running[m] = file[m]

(* The agent implements AtomicUpdate until a call fails for no reason, two *)
(* requests overlap or it restarts: a manager is at the configuration its  *)
(* service runs, or, in the middle of an update, at the one saved before.  *)
Undisturbed == faults = 0 /\ overlaps = 0 /\ crashes = 0

Updating(r, m) ==
    /\ handler[r].step \in {"Reload", "Check", "Restore", "FixReload", "FixStart"}
    /\ Mgr(r) = m

AbstractConfig == [m \in Manager |->
    IF \E r \in Slot : Updating(r, m)
      THEN handler[CHOOSE r \in Slot : Updating(r, m)].backup
      ELSE running[m]]
AbstractRequest ==
    IF AllIdle THEN [config |-> NoFile, at |-> 1]
    ELSE LET r == CHOOSE q \in Slot : ~Idle(q)
         IN  [config |-> handler[r].config, at |-> handler[r].at]
AbstractAnswer == [status |-> answer.status, config |-> answer.config]

AU == INSTANCE AtomicUpdate WITH
    config <- AbstractConfig, request <- AbstractRequest, answer <- AbstractAnswer

UpdatesAreAtomic == AU!Init /\ [][Undisturbed' => [AU!Next]_(AU!vars)]_vars

(* design.rst:59: "Atomically reconfigure keepalived and nftables": when   *)
(* nobody is at work, both run the same configuration.                     *)
IdleAgrees == AllIdle => \A m, n \in Manager : running[m] = running[n]
=============================================================================
