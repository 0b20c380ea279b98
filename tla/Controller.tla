----------------------------- MODULE Controller -----------------------------
(***************************************************************************)
(* The controller process beside the API server: the service informer and  *)
(* its event handlers (internal/controller/controller.go), the work queue  *)
(* and the single worker that runs its jobs (worker.go), the port mapper   *)
(* (module PortMapper, instantiated), the backend's ports, and the         *)
(* configuration each agent has accepted.                                  *)
(*                                                                         *)
(* The API server refuses a write that is based on an old version of the   *)
(* object and sends every version of it to the informer.  watch[s] holds   *)
(* the versions of s the informer has not seen, so the cached object is    *)
(* the current version iff watch[s] is empty.                              *)
(*                                                                         *)
(* A sync job is two steps: it reads the cached service and updates the    *)
(* port mapper, then it makes at most one API call, before which anybody   *)
(* else may act.  The other jobs take one step: nobody but the worker      *)
(* touches what they read and write, except the cache, which they read     *)
(* once.                                                                   *)
(*                                                                         *)
(* Abstracted: namespaces, the recorder's events, the contents of a port   *)
(* forward (a configuration is the L3 port and the L4 numbers of each      *)
(* service), the address of a port (the status shows the port itself).     *)
(* Jobs without fields are values of zero size: Go gives them all one      *)
(* address, so the queue holds at most one of each kind, whereas sync and  *)
(* remove jobs are never merged.  EnqueueJob'd EnsureAgentsStateJobs do    *)
(* not touch this state; see OpenStackPorts.                               *)
(*                                                                         *)
(* ProvisionPort is a part of the first step, but it may be cut short, by  *)
(* a call that fails or by the end of the process, and then it may leave a *)
(* port that carries the tag and will never have a floating IP.  Port IDs  *)
(* are fresh names, so which of them meet this fate is fixed beforehand:   *)
(* they are the constant Half, empty where no floating IPs are used.       *)
(*                                                                         *)
(* Definitions whose names end in _Slip are not the code: each is a slip   *)
(* that could have been made there.                                        *)
(*                                                                         *)
(* The environment is bounded: MaxEdits user actions, MaxFaults failed     *)
(* calls and lost ports, MaxCrashes restarts, MaxLag unseen versions of a  *)
(* service at a user action, MaxJobs queued jobs of a service at an event. *)
(***************************************************************************)
EXTENDS Naturals, Sequences, SequencesExt, FiniteSets

CONSTANTS
    Service, L3Port, L4Port, NoPort, Free, Foreign,   \* as in PortMapper
    Half,           \* the tagged ports that never get their floating IP
    Agent,          \* the agents that receive the configuration
    Absent,         \* an object that does not exist
    NoCall,         \* the worker makes no API call
    SpecPorts,      \* the L4 port sets a user may give each service
    UserOps,        \* the user actions this instance has
    MaxEdits, MaxFaults, MaxCrashes, MaxLag, MaxJobs

VARIABLES
    services, l3ports, allocations, backend, issued, reply,  \* PortMapper
    api,            \* the service objects of the API server
    watch,          \* per service, the versions the informer has not seen
    cache,          \* the informer's store, read by the lister
    adds,           \* services listed at startup, handler not called yet
    unsynced,       \* services listed at startup, no sync has succeeded yet
    queue,          \* the worker's work queue
    call,           \* the API call the worker is about to make
    allowCleanups,  \* AllowCleanups: the cleanup barrier is removed
    agentCfg,       \* the configuration each agent has accepted
    edits, faults, crashes   \* how much of the bounds is used up

mapperVars == <<services, l3ports, allocations, backend, issued, reply>>
apiVars == <<api, watch>>
informerVars == <<cache, adds, unsynced>>
workerVars == <<queue, call, allowCleanups>>
budgetVars == <<edits, faults, crashes>>
vars == <<mapperVars, apiVars, informerVars, workerVars, agentCfg, budgetVars>>

PM == INSTANCE PortMapper

-----------------------------------------------------------------------------
(* Service objects: spec.ports, spec.type = LoadBalancer, the managed and  *)
(* the inbound-port annotation, and status.loadBalancer.ingress.           *)
Object == [ports : PM!PortSets, lb : BOOLEAN, managed : {"unset", "true", "false"},
           annot : L3Port \cup {NoPort}, ingress : L3Port \cup {NoPort}]
Version == Object \cup {Absent}
APICall == [svc : Service, obj : Object, fresh : BOOLEAN, update : BOOLEAN]

IsServiceManaged(o) == o # Absent /\ o.managed = "true"
CanServiceBeManaged(o) == o # Absent /\ o.lb /\ o.managed # "false"
Wanted(s) == CanServiceBeManaged(api[s])

SyncServiceJob(s) == [type |-> "SyncService", svc |-> s]
RemoveServiceJob(s, managed) == [type |-> "RemoveService", svc |-> s, managed |-> managed]
CleanupJob == [type |-> "Cleanup"]
UpdateConfigJob == [type |-> "UpdateConfig"]
RemoveCleanupBarrierJob == [type |-> "RemoveCleanupBarrier"]
Job == [type : {"SyncService"}, svc : Service]
         \cup [type : {"RemoveService"}, svc : Service, managed : {"unset", "true", "false"}]
         \cup {CleanupJob, UpdateConfigJob, RemoveCleanupBarrierJob}

ASSUME ControllerAssumption ==
    /\ NoPort \notin L3Port /\ Free \notin Service /\ Foreign \subseteq L3Port
    /\ Half \subseteq L3Port \ Foreign
    /\ Absent \notin Object /\ NoCall \notin APICall
    /\ SpecPorts \in [Service -> SUBSET PM!PortSets]
    /\ {MaxEdits, MaxFaults, MaxCrashes, MaxLag, MaxJobs} \subseteq Nat

Enqueue(q, job) ==
    IF job \in {CleanupJob, UpdateConfigJob, RemoveCleanupBarrierJob} /\ Contains(q, job)
      THEN q ELSE Append(q, job)

JobsOf(s) ==
    Cardinality({i \in 1..Len(queue) :
        queue[i].type \in {"SyncService", "RemoveService"} /\ queue[i].svc = s})

Fault == faults < MaxFaults /\ faults' = faults + 1
NoFault == UNCHANGED faults

-----------------------------------------------------------------------------
(* The API server.  A write creates a version; a call the worker has based *)
(* on an older version of the same object becomes stale.                   *)
Write(s, o) ==
    /\ api' = [api EXCEPT ![s] = o]
    /\ watch' = [watch EXCEPT ![s] = Append(@, o)]

UserWrites(op, s, o) ==
    /\ op \in UserOps
    /\ edits < MaxEdits
    /\ Len(watch[s]) < MaxLag
    /\ edits' = edits + 1
    /\ Write(s, o)
    /\ call' = IF call # NoCall /\ call.svc = s THEN [call EXCEPT !.fresh = FALSE] ELSE call
    /\ UNCHANGED <<mapperVars, informerVars, queue, allowCleanups, agentCfg, faults, crashes>>

(* Whether the controller has not yet seen, or not yet handled, the        *)
(* deletion of an earlier service of this name.                            *)
RemovalPending(s) ==
    \/ watch[s] # <<>> \/ cache[s] # Absent
    \/ \E i \in 1..Len(queue) : queue[i].type = "RemoveService" /\ queue[i].svc = s

UserCreates(s) ==
    /\ api[s] = Absent
    /\ RemovalPending(s) => "recreate" \in UserOps
    /\ \E ports \in SpecPorts[s] :
           UserWrites("create", s, [ports |-> ports, lb |-> TRUE, managed |-> "unset",
                                    annot |-> NoPort, ingress |-> NoPort])

UserDeletes(s) == api[s] # Absent /\ UserWrites("delete", s, Absent)

UserChangesPorts(s) ==
    /\ api[s] # Absent
    /\ \E ports \in SpecPorts[s] \ {api[s].ports} :
           UserWrites("ports", s, [api[s] EXCEPT !.ports = ports])

UserChangesType(s) ==
    /\ api[s] # Absent
    /\ UserWrites("type", s, [api[s] EXCEPT !.lb = ~@])

UserDisowns(s) ==
    /\ api[s] # Absent
    /\ UserWrites("disown", s, [api[s] EXCEPT !.managed = "false"])

(* A change of something the controller does not look at.                  *)
SomebodyTouches(s) == api[s] # Absent /\ UserWrites("touch", s, api[s])

User(s) ==
    \/ UserCreates(s)
    \/ UserDeletes(s)
    \/ UserChangesPorts(s)
    \/ UserChangesType(s)
    \/ UserDisowns(s)
    \/ SomebodyTouches(s)

-----------------------------------------------------------------------------
(* The informer and the event handlers.  At startup the listed services    *)
(* are in the cache before their AddFunc is called.                        *)
InformerAdds(s) ==
    /\ s \in adds
    /\ JobsOf(s) < MaxJobs
    /\ adds' = adds \ {s}
    /\ queue' = Enqueue(queue, SyncServiceJob(s))
    /\ UNCHANGED <<mapperVars, apiVars, cache, unsynced, call, allowCleanups, agentCfg, budgetVars>>

WatchBeforeList_Slip(s) ==
    /\ watch[s] # <<>>
    /\ JobsOf(s) < MaxJobs
    /\ cache' = [cache EXCEPT ![s] = Head(watch[s])]
    /\ watch' = [watch EXCEPT ![s] = Tail(@)]
    /\ queue' = Enqueue(queue, IF Head(watch[s]) # Absent
                                 THEN SyncServiceJob(s)
                                 ELSE RemoveServiceJob(s, cache[s].managed))
    /\ UNCHANGED <<mapperVars, api, adds, unsynced, call, allowCleanups, agentCfg, budgetVars>>

(* AddFunc and UpdateFunc enqueue a sync; DeleteFunc enqueues a removal    *)
(* with the annotations of the last version.                               *)
InformerSees(s) ==
    /\ adds = {}
    /\ watch[s] # <<>>
    /\ JobsOf(s) < MaxJobs
    /\ cache' = [cache EXCEPT ![s] = Head(watch[s])]
    /\ watch' = [watch EXCEPT ![s] = Tail(@)]
    /\ queue' = Enqueue(queue, IF Head(watch[s]) # Absent
                                 THEN SyncServiceJob(s)
                                 ELSE RemoveServiceJob(s, cache[s].managed))
    /\ UNCHANGED <<mapperVars, api, adds, unsynced, call, allowCleanups, agentCfg, budgetVars>>

(* The informer's resync calls UpdateFunc for every cached service; one    *)
(* that already waits in the queue gains nothing from a second job.        *)
InformerResyncs(s) ==
    /\ adds = {}
    /\ cache[s] # Absent
    /\ ~Contains(queue, SyncServiceJob(s))
    /\ queue' = Enqueue(queue, SyncServiceJob(s))
    /\ UNCHANGED <<mapperVars, apiVars, informerVars, call, allowCleanups, agentCfg, budgetVars>>

(* handleAuxUpdated: a node, endpoint or network policy changed.           *)
HandleAuxUpdated ==
    /\ ~Contains(queue, UpdateConfigJob)
    /\ queue' = Enqueue(queue, UpdateConfigJob)
    /\ UNCHANGED <<mapperVars, apiVars, informerVars, call, allowCleanups, agentCfg, budgetVars>>

CleanupAtOnce_Slip ==
    /\ ~Contains(queue, CleanupJob)
    /\ queue' = Enqueue(IF allowCleanups THEN queue ELSE Enqueue(queue, RemoveCleanupBarrierJob),
                        CleanupJob)
    /\ UNCHANGED <<mapperVars, apiVars, informerVars, call, allowCleanups, agentCfg, budgetVars>>

(* The first tick, right after the start, only asks to remove the barrier. *)
(* The next one comes three resync intervals later, which the code takes   *)
(* to be enough for the worker to have synced every service once.          *)
(* Time is abstracted to that: a failed sync does not count as one.        *)
PeriodicCleanup ==
    LET job == IF allowCleanups THEN CleanupJob ELSE RemoveCleanupBarrierJob
    IN  /\ allowCleanups => unsynced = {}
        /\ ~Contains(queue, job)
        /\ queue' = Enqueue(queue, job)
        /\ UNCHANGED <<mapperVars, apiVars, informerVars, call, allowCleanups, agentCfg, budgetVars>>

-----------------------------------------------------------------------------
(* The worker.  executeJob marks a job as done and, if it failed, returns: *)
(* no job is ever put back into the queue.                                 *)
Takes(type) ==
    /\ call = NoCall
    /\ queue # <<>>
    /\ Head(queue).type = type

(* The API call a sync job makes next; `update` says that it ends with an  *)
(* UpdateConfigJob when the call succeeds.                                 *)
Calls(s, o, update) ==
    call' = [svc |-> s, obj |-> o, fresh |-> watch[s] = <<>>, update |-> update]

TakeOverService(s) ==
    /\ Calls(s, [cache[s] EXCEPT !.managed = "true"], FALSE)
    /\ queue' = Tail(queue)
    /\ UNCHANGED <<mapperVars, faults>>

UnmapAtOnce_Slip(s) ==
    /\ PM!UnmapService(s)
    /\ Calls(s, IF cache[s].ingress # NoPort
                  THEN [cache[s] EXCEPT !.ingress = NoPort]
                  ELSE [cache[s] EXCEPT !.managed = "unset", !.annot = NoPort], FALSE)
    /\ queue' = Tail(queue)
    /\ NoFault

(* releaseService clears the status first; the next sync unmaps the        *)
(* service and removes the annotations.                                    *)
ReleaseService(s) ==
    /\ IF cache[s].ingress # NoPort
         THEN /\ Calls(s, [cache[s] EXCEPT !.ingress = NoPort], FALSE)
              /\ UNCHANGED mapperVars
         ELSE /\ PM!UnmapService(s)
              /\ Calls(s, [cache[s] EXCEPT !.managed = "unset", !.annot = NoPort], FALSE)
    /\ queue' = Tail(queue)
    /\ NoFault

(* mapService without a port annotation but with a status.                 *)
ClearStaleStatus(s) ==
    /\ cache[s].annot = NoPort /\ cache[s].ingress # NoPort
    /\ Calls(s, [cache[s] EXCEPT !.ingress = NoPort], FALSE)
    /\ queue' = Tail(queue)
    /\ UNCHANGED <<mapperVars, faults>>

NoUpdateConfig_Slip(s) ==
    IF cache[s].ingress # cache[s].annot
      THEN /\ Calls(s, [cache[s] EXCEPT !.ingress = cache[s].annot], FALSE)
           /\ queue' = Tail(queue)
      ELSE queue' = Tail(queue) /\ UNCHANGED call

(* updateServiceStatus for an unchanged mapping, and the job's end.        *)
UpdateServiceStatus(s) ==
    IF cache[s].ingress # cache[s].annot
      THEN /\ Calls(s, [cache[s] EXCEPT !.ingress = cache[s].annot], TRUE)
           /\ queue' = Tail(queue)
      ELSE /\ queue' = Enqueue(Tail(queue), UpdateConfigJob)
           /\ UNCHANGED call

(* No known port suits the service.                                        *)
NeedsNewPort(s) ==
    /\ ~PM!CanKeep(PM!PreferredPort(s, cache[s].annot), s, cache[s].ports)
    /\ PM!FindL3PortFor(cache[s].ports) = {}

(* The backend's quota.                                                    *)
QuotaUsedUp == L3Port \ Half \subseteq issued

(* IDs that were never used are interchangeable; they are used in order.   *)
NextIDs(P) == IF P \subseteq issued THEN {} ELSE {CHOOSE p \in P \ issued : TRUE}
CompleteIDs == NextIDs(L3Port \ Half)
LeftBehindIDs == CompleteIDs \cup NextIDs(Half)
Issues(ids) == issued' \in {issued} \cup {issued \cup {p} : p \in ids}

(* GetExternalAddress finds the port and its floating IP.                  *)
HasExternalAddress(p) == p \in backend \ Half

AnnotateAtOnce_Slip(o, port) == [o EXCEPT !.annot = port]

(* When the port changes, a status goes before the annotation.             *)
Remapped(o, port) ==
    IF o.ingress = NoPort THEN [o EXCEPT !.annot = port] ELSE [o EXCEPT !.ingress = NoPort]

(* mapService, and for an unchanged port the rest of the job.              *)
MapService(s) ==
    /\ cache[s].annot # NoPort \/ cache[s].ingress = NoPort
    /\ PM!MapService(s, cache[s].ports, cache[s].annot)
    /\ Issues(IF reply'.err THEN LeftBehindIDs ELSE CompleteIDs)
    /\ LET port == services'[s].l3port
       IN  IF reply'.err
             THEN /\ \/ Fault
                     \/ NeedsNewPort(s) /\ QuotaUsedUp /\ issued' = issued /\ NoFault
                  /\ queue' = Tail(queue)
                  /\ UNCHANGED call
             ELSE IF port # cache[s].annot
               THEN /\ Calls(s, Remapped(cache[s], port), FALSE)
                    /\ queue' = Tail(queue)
                    /\ NoFault
               ELSE \/ /\ HasExternalAddress(port)
                       /\ UpdateServiceStatus(s) /\ NoFault
                    \/ /\ IF HasExternalAddress(port) THEN Fault ELSE NoFault
                       /\ queue' = Tail(queue)
                       /\ UNCHANGED call

RunSyncService ==
    /\ Takes("SyncService")
    /\ LET s == Head(queue).svc
           o == cache[s]
       IN  \/ /\ ~CanServiceBeManaged(o) /\ ~IsServiceManaged(o)
              /\ queue' = Tail(queue)
              /\ UNCHANGED <<mapperVars, call, faults>>
           \/ /\ ~CanServiceBeManaged(o) /\ IsServiceManaged(o)
              /\ ReleaseService(s)
           \/ /\ CanServiceBeManaged(o) /\ ~IsServiceManaged(o)
              /\ TakeOverService(s)
           \/ /\ CanServiceBeManaged(o) /\ IsServiceManaged(o)
              /\ ClearStaleStatus(s) \/ MapService(s)
    /\ unsynced' = IF faults' = faults THEN unsynced \ {Head(queue).svc} ELSE unsynced
    /\ UNCHANGED <<apiVars, cache, adds, allowCleanups, agentCfg, edits, crashes>>

(* The API server accepts the call if it is based on the current version.  *)
WorkerWrites ==
    /\ call # NoCall
    /\ call.fresh
    /\ Write(call.svc, call.obj)
    /\ queue' = IF call.update THEN Enqueue(queue, UpdateConfigJob) ELSE queue
    /\ call' = NoCall
    /\ UNCHANGED <<mapperVars, informerVars, allowCleanups, agentCfg, budgetVars>>

WorkerWriteFails ==
    /\ call # NoCall
    /\ IF call.fresh THEN Fault ELSE NoFault
    /\ call' = NoCall
    /\ UNCHANGED <<mapperVars, apiVars, informerVars, queue, allowCleanups, agentCfg, edits, crashes>>

NoUpdateAfterRemove_Slip ==
    /\ Takes("RemoveService")
    /\ IF Head(queue).managed = "true"
         THEN PM!UnmapService(Head(queue).svc) /\ queue' = Enqueue(Tail(queue), CleanupJob)
         ELSE UNCHANGED mapperVars /\ queue' = Tail(queue)
    /\ UNCHANGED <<apiVars, informerVars, call, allowCleanups, agentCfg, budgetVars>>

RunRemoveService ==
    /\ Takes("RemoveService")
    /\ IF Head(queue).managed = "true"
         THEN /\ PM!UnmapService(Head(queue).svc)
              /\ queue' = Enqueue(Enqueue(Tail(queue), CleanupJob), UpdateConfigJob)
         ELSE /\ queue' = Tail(queue)
              /\ UNCHANGED mapperVars
    /\ UNCHANGED <<apiVars, informerVars, call, allowCleanups, agentCfg, budgetVars>>

RunRemoveCleanupBarrier ==
    /\ Takes("RemoveCleanupBarrier")
    /\ allowCleanups' = TRUE
    /\ queue' = Tail(queue)
    /\ UNCHANGED <<mapperVars, apiVars, informerVars, call, agentCfg, budgetVars>>

RunCleanup ==
    /\ Takes("Cleanup")
    /\ IF allowCleanups THEN PM!CleanupPorts ELSE UNCHANGED mapperVars
    /\ queue' = Tail(queue)
    /\ UNCHANGED <<apiVars, informerVars, call, allowCleanups, agentCfg, budgetVars>>

(* GenerateModel: the mapped services with the ports of their cached spec. *)
(* It fails when one of them is not in the cache or its port is gone.      *)
ModelFails ==
    \E s \in Service : PM!IsMapped(s) /\ (cache[s] = Absent \/ services[s].l3port \notin backend)

GeneratedModel ==
    [s \in Service |-> IF PM!IsMapped(s)
                         THEN [l3port |-> services[s].l3port, ports |-> cache[s].ports]
                         ELSE PM!Unmapped]

(* PushConfig sends the model to every agent, whatever the others answer.  *)
PushConfig(m) ==
    \E failed \in SUBSET Agent :
        /\ IF failed = {} THEN NoFault ELSE Fault
        /\ agentCfg' = [a \in Agent |-> IF a \in failed THEN agentCfg[a] ELSE m]

RunUpdateConfig ==
    /\ Takes("UpdateConfig")
    /\ IF ModelFails THEN UNCHANGED <<agentCfg, faults>> ELSE PushConfig(GeneratedModel)
    /\ queue' = Tail(queue)
    /\ UNCHANGED <<mapperVars, apiVars, informerVars, call, allowCleanups, edits, crashes>>

Worker ==
    \/ RunSyncService
    \/ WorkerWrites
    \/ WorkerWriteFails
    \/ RunRemoveService
    \/ RunRemoveCleanupBarrier
    \/ RunCleanup
    \/ RunUpdateConfig

-----------------------------------------------------------------------------
(* The worker is inside the ProvisionPort of a sync job.                   *)
Provisioning ==
    /\ Takes("SyncService")
    /\ LET s == Head(queue).svc
       IN  /\ CanServiceBeManaged(cache[s]) /\ IsServiceManaged(cache[s])
           /\ cache[s].annot # NoPort \/ cache[s].ingress = NoPort
           /\ NeedsNewPort(s)

(* The process ends, in the middle of a job if so be, and a new one lists  *)
(* the services and the ports.  Versions of the API server, the backend    *)
(* and the agents remain.                                                  *)
Restart ==
    /\ crashes < MaxCrashes
    /\ crashes' = crashes + 1
    /\ PM!NewPortMapper
    /\ Issues(IF Provisioning THEN LeftBehindIDs ELSE {})
    /\ watch' = [s \in Service |-> <<>>]
    /\ cache' = api
    /\ adds' = {s \in Service : api[s] # Absent}
    /\ unsynced' = adds'
    /\ queue' = <<>>
    /\ call' = NoCall
    /\ allowCleanups' = FALSE
    /\ UNCHANGED <<api, agentCfg, edits, faults>>

PortVanishes ==
    /\ "vanish" \in UserOps
    /\ Fault
    /\ \E p \in L3Port : PM!PortVanishes(p)
    /\ UNCHANGED <<apiVars, informerVars, workerVars, agentCfg, edits, crashes>>

Init ==
    /\ PM!Init /\ backend = Foreign
    /\ api = [s \in Service |-> Absent]
    /\ watch = [s \in Service |-> <<>>]
    /\ cache = api
    /\ adds = {} /\ unsynced = {}
    /\ queue = <<>>
    /\ call = NoCall
    /\ allowCleanups = FALSE
    /\ agentCfg = [a \in Agent |-> [s \in Service |-> PM!Unmapped]]
    /\ edits = 0 /\ faults = 0 /\ crashes = 0

Next ==
    \/ \E s \in Service : User(s) \/ InformerAdds(s) \/ InformerSees(s) \/ InformerResyncs(s)
    \/ HandleAuxUpdated
    \/ PeriodicCleanup
    \/ Worker
    \/ Restart
    \/ PortVanishes

Spec == Init /\ [][Next]_vars

(* The goroutine of the worker runs as long as there are jobs, the         *)
(* informer delivers what it has listed or watched, and resyncs forever.   *)
(* The informer is never blocked by the queue, only by MaxJobs in this     *)
(* model: hence the strong fairness.                                       *)
Fairness ==
    /\ WF_vars(Worker)
    /\ \A s \in Service : /\ SF_vars(InformerAdds(s))
                          /\ SF_vars(InformerSees(s))
                          /\ WF_vars(InformerResyncs(s))

FairSpec == Spec /\ Fairness

-----------------------------------------------------------------------------
(* The types of the variables of this module.                              *)
TypeOK ==
    /\ PM!TypeOK
    /\ api \in [Service -> Version] /\ cache \in [Service -> Version]
    /\ watch \in [Service -> Seq(Version)]
    /\ adds \subseteq unsynced /\ unsynced \subseteq Service
    /\ queue \in Seq(Job)
    /\ call \in APICall \cup {NoCall}
    /\ allowCleanups \in BOOLEAN
    /\ agentCfg \in [Agent -> [Service -> [l3port : L3Port \cup {NoPort}, ports : SUBSET L4Port]]]
    /\ edits \in 0..MaxEdits /\ faults \in 0..MaxFaults /\ crashes \in 0..MaxCrashes

(* The status of a service never shows another port than its annotation    *)
(* names: the flow in SyncServiceJob.Run, which changes only one of them   *)
(* per API call, orders the calls so, and stale calls are refused.         *)
StatusMatchesAnnotation ==
    \A s \in Service :
        api[s] # Absent /\ api[s].ingress # NoPort => api[s].annot = api[s].ingress

(* No call has failed so far, also not for want of quota.                  *)
NothingFailed == faults = 0 /\ ~QuotaUsedUp

(* The worker is about to clear the status of s.                           *)
Clearing(s) == call # NoCall /\ call.svc = s /\ call.fresh /\ call.obj.ingress = NoPort

(* What a service publishes is reserved for it in the mapper, number by    *)
(* number, over every order of its own and other jobs: once its first sync *)
(* after a start has run, and until its status is about to be cleared.     *)
(* After a failed call it can be gone until the next sync; users who       *)
(* change a service in any way can have the call that clears it refused.   *)
PublishedIsReserved ==
    NothingFailed =>
        \A s \in Service \ unsynced :
            api[s] # Absent /\ api[s].ingress # NoPort =>
                \/ services[s] = [l3port |-> api[s].ingress, ports |-> api[s].ports]
                \/ Clearing(s)

(* Two services never publish the same L4 port of the same address.  After *)
(* a second restart they may: if the first came when a service without a   *)
(* port had been given the port of another, the second finds two services  *)
(* that are annotated with it, and publishes whichever is synced first.    *)
PublishedExclusive ==
    NothingFailed /\ crashes <= 1 =>
        \A s, t \in Service :
            (/\ s # t /\ api[s] # Absent /\ api[t] # Absent
             /\ api[s].ingress # NoPort /\ api[s].ingress = api[t].ingress)
                => api[s].ports \cap api[t].ports = {}

(* No agent is told to forward an L4 port of an address to two services.   *)
ConfigExclusive ==
    \A a \in Agent, s, t \in Service :
        (/\ s # t /\ agentCfg[a][s].l3port # NoPort
         /\ agentCfg[a][s].l3port = agentCfg[a][t].l3port)
            => agentCfg[a][s].ports \cap agentCfg[a][t].ports = {}

(* The controller has not acted on the newest version of s yet.            *)
Overtaken(s) == watch[s] # <<>> \/ Contains(queue, SyncServiceJob(s))

(* A cleanup never deletes a port that a managed service publishes, above  *)
(* all not before the first sync of that service after a start.  Only one  *)
(* that a user has changed since, so that the status of a service that     *)
(* moved could not be cleared, loses its old port early.                   *)
CleanupSparesPublished ==
    [][\A s \in Service :
        (/\ reply'.op = "CleanupPorts" /\ NothingFailed
         /\ IsServiceManaged(api[s]) /\ (s \in unsynced \/ ~Overtaken(s)))
            => api[s].ingress \notin backend \ backend']_vars

(* A service that publishes an address stays mapped: the worker, which     *)
(* decides by the cached version, never unmaps one whose present version   *)
(* still shows the address.  (A restart forgets the mappings; and removal  *)
(* jobs do not notice a service that was created again, see "recreate".)   *)
PublishedStaysMapped ==
    [][\A s \in Service :
        crashes' = crashes /\ PM!IsMapped(s) /\ ~PM!IsMapped(s)'
            => api[s] = Absent \/ api[s].ingress = NoPort]_vars

(* A service that is annotated is not moved to another port: neither the   *)
(* resyncs nor the jobs of other services, in any order, change addresses. *)
(* It is stated for one process: after a restart a service without a port  *)
(* may be synced first, take the L4 port of this one, and make it move.    *)
AnnotationStable ==
    [][\A s \in Service :
        crashes' = 0 /\ api[s] # Absent /\ api'[s] # Absent /\ api[s].annot # NoPort
            => api'[s].annot \in {api[s].annot, NoPort}]_vars

(* A wanted service is served: it has a port that exists, shows it, and    *)
(* every agent forwards its present L4 ports.                              *)
Served(s) ==
    /\ IsServiceManaged(api[s])
    /\ api[s].annot \in backend
    /\ api[s].ingress = api[s].annot
    /\ services[s] = [l3port |-> api[s].annot, ports |-> api[s].ports]
    /\ \A a \in Agent : agentCfg[a][s] = services[s]

(* The service has been given a port that was left without a floating IP:  *)
(* it shows no address and never will, as a port in use is not cleaned up. *)
(* docs/old/design.rst:199 is wrong about that: "If interrupted: port will *)
(* be cleaned up by CleanUnusedPorts, floating IP will too."               *)
Stuck(s) ==
    /\ api[s].annot \in Half \cap backend
    /\ api[s].ingress = NoPort
    /\ services[s].l3port = api[s].annot

(* Once the users, the faults and the restarts come to rest, every wanted  *)
(* service is served, although failed jobs are not retried: the resync of  *)
(* the informer repeats them.  The one exception is a service that the     *)
(* mapper has put on a port whose provisioning was cut short.              *)
WantedServicesAreServed ==
    <>[](\A s \in Service : Wanted(s) => Served(s) \/ Stuck(s))

(* And no agent keeps forwarding for a service that was deleted (a service *)
(* that is only released waits for somebody else's UpdateConfigJob), also  *)
(* if it was created again before its removal was handled.  If none is   *)
(* left, nothing repeats a push that failed, nor does a new process push.  *)
OthersAreNotServed ==
    <>[](faults = 0 /\ crashes = 0 =>
            \A s \in Service, a \in Agent : ~Wanted(s) => agentCfg[a][s] = PM!Unmapped)

(* worker.go:437: "the cleanup barrier will prevent execution of the       *)
(* update config job (with requeue) so that no harmful config will be      *)
(* generated during initial sync."  Harmful: one that stops forwarding for *)
(* a service that is published and not changing.                           *)
NoHarmfulConfig ==
    [][\A s \in Service, a \in Agent :
        (/\ ~allowCleanups /\ Wanted(s) /\ watch[s] = <<>>
         /\ api[s].ingress # NoPort /\ agentCfg[a][s].l3port = api[s].ingress)
            => agentCfg'[a][s].l3port = api[s].ingress]_vars
=============================================================================
