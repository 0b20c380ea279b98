-------------------------- MODULE Controller_proofs --------------------------
(***************************************************************************)
(* Proofs about Controller, for any sets of services, ports and agents,    *)
(* any user actions and any bounds.  What PortMapper_proofs proves of the  *)
(* mapper is used here: P is the mapper inside the controller.             *)
(***************************************************************************)
EXTENDS Controller, TLAPS

P == INSTANCE PortMapper_proofs

-----------------------------------------------------------------------------
(* PM and P are two names of one module.                                   *)
LEMMA SameMapper ==
    /\ \A s, ports, annot : PM!MapService(s, ports, annot) <=> P!MapService(s, ports, annot)
    /\ \A s : PM!UnmapService(s) <=> P!UnmapService(s)
    /\ PM!CleanupPorts <=> P!CleanupPorts
    /\ PM!NewPortMapper <=> P!NewPortMapper
    /\ \A p : PM!PortVanishes(p) <=> P!PortVanishes(p)
    /\ PM!Init <=> P!Init
    /\ PM!TypeOK <=> P!TypeOK
    /\ PM!PortSets = P!PortSets
<1> USE DEF PM!Reply, P!Reply, PM!Unmapped, P!Unmapped, PM!NoAllocations, P!NoAllocations,
            PM!mapperVars, P!mapperVars, PM!IsMapped, P!IsMapped, PM!UsedL3Ports, P!UsedL3Ports
<1>1. \A s, ports, annot : PM!MapService(s, ports, annot) <=> P!MapService(s, ports, annot)
  BY DEF PM!MapService, P!MapService, PM!CheckFails, P!CheckFails, PM!KeepPort, P!KeepPort,
         PM!UseKnownPort, P!UseKnownPort, PM!UseNewPort, P!UseNewPort,
         PM!ProvisionFails, P!ProvisionFails, PM!PreferredPort, P!PreferredPort,
         PM!FailMapping, P!FailMapping, PM!CanKeep, P!CanKeep, PM!Emplaced, P!Emplaced,
         PM!IsPortSuitableFor, P!IsPortSuitableFor, PM!Assign, P!Assign,
         PM!Released, P!Released, PM!ProvisionPort, P!ProvisionPort,
         PM!FindL3PortFor, P!FindL3PortFor
<1>2. /\ \A s : PM!UnmapService(s) <=> P!UnmapService(s)
      /\ PM!CleanupPorts <=> P!CleanupPorts
      /\ PM!NewPortMapper <=> P!NewPortMapper
      /\ \A p : PM!PortVanishes(p) <=> P!PortVanishes(p)
  BY DEF PM!UnmapService, P!UnmapService, PM!Released, P!Released,
         PM!CleanupPorts, P!CleanupPorts, PM!NewPortMapper, P!NewPortMapper,
         PM!PortVanishes, P!PortVanishes, PM!ProvisionPort, P!ProvisionPort,
         PM!FindL3PortFor, P!FindL3PortFor, PM!IsPortSuitableFor, P!IsPortSuitableFor,
         PM!PortSets, P!PortSets
<1>3. /\ PM!Init <=> P!Init
      /\ PM!TypeOK <=> P!TypeOK
      /\ PM!PortSets = P!PortSets
  BY DEF PM!Init, P!Init, PM!TypeOK, P!TypeOK, PM!Ops, P!Ops, PM!PortSets, P!PortSets
<1> QED BY <1>1, <1>2, <1>3

LEMMA MapperAssumptionHolds == P!PortMapperAssumption
BY ControllerAssumption DEF P!PortMapperAssumption

-----------------------------------------------------------------------------
(* Objects, jobs and the queue.                                            *)
LEMMA ObjectFields ==
    ASSUME NEW o \in Object
    PROVE  /\ o.ports \in PM!PortSets /\ o.annot \in L3Port \cup {NoPort}
           /\ o.ingress \in L3Port \cup {NoPort} /\ o.lb \in BOOLEAN
           /\ o.managed \in {"unset", "true", "false"} /\ o # Absent
BY ControllerAssumption DEF Object

LEMMA JobsAre ==
    /\ CleanupJob \in Job /\ UpdateConfigJob \in Job /\ RemoveCleanupBarrierJob \in Job
    /\ \A s \in Service : SyncServiceJob(s) \in Job
    /\ \A s \in Service, managed \in {"unset", "true", "false"} :
           RemoveServiceJob(s, managed) \in Job
    /\ \A j \in Job : j.type \in {"SyncService", "RemoveService"} => j.svc \in Service
BY DEF Job, CleanupJob, UpdateConfigJob, RemoveCleanupBarrierJob, SyncServiceJob, RemoveServiceJob

LEMMA QueueTyped ==
    ASSUME NEW q \in Seq(Job)
    PROVE  /\ \A j \in Job : Enqueue(q, j) \in Seq(Job)
           /\ q # <<>> => Head(q) \in Job /\ Tail(q) \in Seq(Job)
BY DEF Enqueue

-----------------------------------------------------------------------------
(* What a sync job asks of the API server, and of the mapper.              *)
Consistent(o) == o.ingress # NoPort => o.annot = o.ingress

Asks(s, o, update) ==
    /\ Calls(s, o, update) /\ o \in Object /\ update \in BOOLEAN
    /\ o.ports = cache[s].ports
    /\ Consistent(cache[s]) => Consistent(o)

SameBut(new, o) == new \in Object /\ new.ports = o.ports /\ new.lb = o.lb

LEMMA ManagedChanged ==
    ASSUME NEW o \in Object
    PROVE  LET new == [o EXCEPT !.managed = "true"]
           IN  /\ SameBut(new, o) /\ new.managed = "true"
               /\ new.annot = o.annot /\ new.ingress = o.ingress
BY DEF Object, SameBut

LEMMA Disowned ==
    ASSUME NEW o \in Object
    PROVE  LET new == [o EXCEPT !.managed = "unset", !.annot = NoPort]
           IN  SameBut(new, o) /\ new.ingress = o.ingress
BY DEF Object, SameBut

LEMMA IngressChanged ==
    ASSUME NEW o \in Object, NEW p, p \in L3Port \cup {NoPort}
    PROVE  LET new == [o EXCEPT !.ingress = p]
           IN  /\ SameBut(new, o) /\ new.managed = o.managed
               /\ new.annot = o.annot /\ new.ingress = p
BY DEF Object, SameBut

LEMMA AnnotationChanged ==
    ASSUME NEW o \in Object, NEW p, p \in L3Port \cup {NoPort}
    PROVE  LET new == [o EXCEPT !.annot = p]
           IN  /\ SameBut(new, o) /\ new.managed = o.managed
               /\ new.annot = p /\ new.ingress = o.ingress
BY DEF Object, SameBut

SyncOutcome(s) ==
    \/ UNCHANGED mapperVars /\ UNCHANGED call
    \/ /\ UNCHANGED mapperVars /\ cache[s] \in Object
       /\ \E o, update : Asks(s, o, update) /\ o.managed \in {"true", cache[s].managed}
    \/ /\ P!UnmapService(s) /\ cache[s] \in Object /\ ~cache[s].lb
       /\ \E o, update : Asks(s, o, update)
    \/ /\ cache[s] \in Object /\ cache[s].lb /\ cache[s].managed = "true"
       /\ P!MapService(s, cache[s].ports, cache[s].annot)
       /\ \/ UNCHANGED call
          \/ \E o, update : Asks(s, o, update) /\ o.managed = "true"

LEMMA SyncDoes ==
    ASSUME TypeOK, P!IndInv, RunSyncService, NEW s \in Service, s = Head(queue).svc
    PROVE  /\ SyncOutcome(s) /\ call = NoCall
           /\ queue # <<>> /\ Head(queue).type = "SyncService"
           /\ queue' = Tail(queue) \/ queue' = Enqueue(Tail(queue), UpdateConfigJob)
           /\ Fault \/ NoFault
           /\ unsynced' \in {unsynced, unsynced \ {s}}
           /\ UNCHANGED <<apiVars, cache, adds, allowCleanups, agentCfg, edits, crashes>>
<1> DEFINE o == cache[s]
<1>1. /\ call = NoCall /\ queue # <<>> /\ Head(queue).type = "SyncService"
      /\ unsynced' \in {unsynced, unsynced \ {s}}
      /\ UNCHANGED <<apiVars, cache, adds, allowCleanups, agentCfg, edits, crashes>>
  BY DEF RunSyncService, Takes
<1>2. o \in Version /\ (o # Absent => o \in Object)
  BY DEF TypeOK, Version
<1>3. CASE /\ ~CanServiceBeManaged(o) /\ ~IsServiceManaged(o)
           /\ queue' = Tail(queue) /\ UNCHANGED <<mapperVars, call, faults>>
  BY <1>1, <1>3 DEF SyncOutcome, NoFault
<1>4. CASE ~CanServiceBeManaged(o) /\ IsServiceManaged(o) /\ ReleaseService(s)
  <2>1. o \in Object /\ o.managed = "true" /\ ~o.lb
    BY <1>2, <1>4 DEF CanServiceBeManaged, IsServiceManaged
  <2>2. queue' = Tail(queue) /\ NoFault
    BY <1>4 DEF ReleaseService
  <2>3. CASE o.ingress # NoPort
    <3> DEFINE new == [o EXCEPT !.ingress = NoPort]
    <3>1. /\ new \in Object /\ new.ports = o.ports /\ new.managed = o.managed
          /\ new.ingress = NoPort
      BY <2>1, IngressChanged DEF SameBut
    <3>2. UNCHANGED mapperVars /\ Calls(s, new, FALSE)
      BY <1>4, <2>3 DEF ReleaseService
    <3> QED BY <1>1, <2>1, <2>2, <3>1, <3>2 DEF SyncOutcome, Asks, Consistent
  <2>4. CASE o.ingress = NoPort
    <3> DEFINE new == [o EXCEPT !.managed = "unset", !.annot = NoPort]
    <3>1. new \in Object /\ new.ports = o.ports /\ new.ingress = NoPort
      BY <2>1, <2>4, Disowned DEF SameBut
    <3>2. P!UnmapService(s) /\ Calls(s, new, FALSE)
      BY <1>4, <2>4, SameMapper DEF ReleaseService
    <3> QED BY <1>1, <2>1, <2>2, <3>1, <3>2 DEF SyncOutcome, Asks, Consistent
  <2> QED BY <2>3, <2>4
<1>5. CASE CanServiceBeManaged(o) /\ ~IsServiceManaged(o) /\ TakeOverService(s)
  <2> DEFINE new == [o EXCEPT !.managed = "true"]
  <2>1. o \in Object
    BY <1>2, <1>5 DEF CanServiceBeManaged
  <2>3. /\ new \in Object /\ new.ports = o.ports /\ new.managed = "true"
        /\ new.ingress = o.ingress /\ new.annot = o.annot
    BY <2>1, ManagedChanged DEF SameBut
  <2>2. UNCHANGED mapperVars /\ Calls(s, new, FALSE) /\ queue' = Tail(queue) /\ NoFault
    BY <1>5 DEF TakeOverService, NoFault
  <2> QED BY <1>1, <2>1, <2>2, <2>3 DEF SyncOutcome, Asks, Consistent
<1>6. CASE CanServiceBeManaged(o) /\ IsServiceManaged(o) /\ ClearStaleStatus(s)
  <2> DEFINE new == [o EXCEPT !.ingress = NoPort]
  <2>1. o \in Object
    BY <1>2, <1>6 DEF CanServiceBeManaged
  <2>3. /\ new \in Object /\ new.ports = o.ports /\ new.managed = o.managed
        /\ new.ingress = NoPort
    BY <2>1, IngressChanged DEF SameBut
  <2>2. UNCHANGED mapperVars /\ Calls(s, new, FALSE) /\ queue' = Tail(queue) /\ NoFault
    BY <1>6 DEF ClearStaleStatus, NoFault
  <2> QED BY <1>1, <2>1, <2>2, <2>3 DEF SyncOutcome, Asks, Consistent
<1>7. CASE CanServiceBeManaged(o) /\ IsServiceManaged(o) /\ MapService(s)
  <2>1. /\ o \in Object /\ o.lb /\ o.managed = "true"
        /\ P!MapService(s, o.ports, o.annot)
    BY <1>2, <1>7, SameMapper DEF CanServiceBeManaged, IsServiceManaged, MapService
  <2>2. PICK port : /\ port = services'[s].l3port
                    /\ IF reply'.err
                         THEN /\ Fault \/ NoFault
                              /\ queue' = Tail(queue)
                              /\ UNCHANGED call
                         ELSE IF port # o.annot
                           THEN /\ Calls(s, Remapped(o, port), FALSE)
                                /\ queue' = Tail(queue)
                                /\ NoFault
                           ELSE \/ UpdateServiceStatus(s) /\ NoFault
                                \/ /\ IF HasExternalAddress(port) THEN Fault ELSE NoFault
                                   /\ queue' = Tail(queue)
                                   /\ UNCHANGED call
    BY <1>7 DEF MapService
  <2>3. CASE UNCHANGED call
    BY <1>1, <2>1, <2>2, <2>3 DEF SyncOutcome, UpdateServiceStatus
  <2>4. CASE /\ Calls(s, Remapped(o, port), FALSE)
             /\ queue' = Tail(queue)
             /\ NoFault
    <3>1. port \in L3Port \cup {NoPort}
      <4>1. P!Next
        BY <2>1, SameMapper, ObjectFields DEF P!Next
      <4>2. P!TypeOK'
        BY <4>1, MapperAssumptionHolds, P!NextKeepsInv DEF P!IndInv
      <4> QED BY <2>2, <4>2 DEF P!TypeOK
    <3>2. /\ Remapped(o, port) \in Object /\ Remapped(o, port).ports = o.ports
          /\ Remapped(o, port).managed = "true" /\ Remapped(o, port).ingress = NoPort
      BY <2>1, <3>1, IngressChanged, AnnotationChanged DEF Remapped, SameBut
    <3> QED BY <1>1, <2>1, <2>4, <3>2 DEF SyncOutcome, Asks, Consistent
  <2>5. CASE UpdateServiceStatus(s) /\ NoFault
    <3> DEFINE new == [o EXCEPT !.ingress = o.annot]
    <3>0. o.annot \in L3Port \cup {NoPort}
      BY <2>1, ObjectFields
    <3>1. /\ new \in Object /\ new.ports = o.ports /\ new.managed = "true"
          /\ new.annot = o.annot /\ new.ingress = o.annot
      BY <2>1, <3>0, IngressChanged DEF SameBut
    <3>2. \/ Calls(s, new, TRUE) /\ queue' = Tail(queue)
          \/ queue' = Enqueue(Tail(queue), UpdateConfigJob) /\ UNCHANGED call
      BY <2>5 DEF UpdateServiceStatus
    <3> QED BY <1>1, <2>1, <2>5, <3>1, <3>2 DEF SyncOutcome, Asks, Consistent
  <2> QED BY <2>2, <2>3, <2>4, <2>5
<1> QED BY <1>3, <1>4, <1>5, <1>6, <1>7 DEF RunSyncService

-----------------------------------------------------------------------------
(* What a user writes: a new object, a deletion, or a new version with the *)
(* annotations and the status of the present one.                          *)
UserOutcome(s, o) ==
    /\ Write(s, o)
    /\ call' = IF call # NoCall /\ call.svc = s THEN [call EXCEPT !.fresh = FALSE] ELSE call
    /\ edits' = edits + 1 /\ edits < MaxEdits
    /\ UNCHANGED <<mapperVars, informerVars, queue, allowCleanups, agentCfg, faults, crashes>>
    /\ \/ o = Absent /\ api[s] # Absent
       \/ /\ o \in Object /\ api[s] = Absent
          /\ o.lb /\ o.managed = "unset" /\ o.annot = NoPort /\ o.ingress = NoPort
          /\ RemovalPending(s) => "recreate" \in UserOps
       \/ /\ o \in Object /\ api[s] # Absent
          /\ o.annot = api[s].annot /\ o.ingress = api[s].ingress
          /\ o.ports # api[s].ports => "ports" \in UserOps
          /\ o.managed # api[s].managed => "disown" \in UserOps
          /\ \/ UserOps \cap {"ports", "type", "disown"} # {}
             \/ o = api[s] /\ "touch" \in UserOps

LEMMA UserDoes ==
    ASSUME TypeOK, NEW s \in Service, User(s)
    PROVE  \E o \in Version : UserOutcome(s, o)
<1> USE DEF UserOutcome
<1>1. api[s] \in Version /\ (api[s] # Absent => api[s] \in Object)
  BY DEF TypeOK, Version
<1>2. CASE UserCreates(s)
  <2>1. PICK ports \in SpecPorts[s] :
            UserWrites("create", s, [ports |-> ports, lb |-> TRUE, managed |-> "unset",
                                     annot |-> NoPort, ingress |-> NoPort])
    BY <1>2 DEF UserCreates
  <2> DEFINE new == [ports |-> ports, lb |-> TRUE, managed |-> "unset",
                     annot |-> NoPort, ingress |-> NoPort]
  <2>2. /\ new \in Object /\ new.lb /\ new.managed = "unset"
        /\ new.annot = NoPort /\ new.ingress = NoPort
    BY ControllerAssumption DEF Object
  <2> QED BY <1>2, <2>1, <2>2 DEF UserCreates, UserWrites, Version
<1>3. CASE UserDeletes(s)
  BY <1>3 DEF UserDeletes, UserWrites, Version
<1>4. CASE UserChangesPorts(s)
  <2>1. PICK ports \in SpecPorts[s] :
            UserWrites("ports", s, [api[s] EXCEPT !.ports = ports])
    BY <1>4 DEF UserChangesPorts
  <2> DEFINE new == [api[s] EXCEPT !.ports = ports]
  <2>2. /\ new \in Object /\ api[s] # Absent
        /\ new.annot = api[s].annot /\ new.ingress = api[s].ingress
        /\ new.managed = api[s].managed
    BY <1>1, <1>4, ControllerAssumption DEF Object, UserChangesPorts
  <2> QED BY <2>1, <2>2 DEF UserWrites, Version
<1>5. CASE UserChangesType(s)
  <2> DEFINE new == [api[s] EXCEPT !.lb = ~api[s].lb]
  <2>1. UserWrites("type", s, new) /\ api[s] \in Object
    BY <1>1, <1>5 DEF UserChangesType
  <2>2. /\ new \in Object /\ new.ports = api[s].ports
        /\ new.annot = api[s].annot /\ new.ingress = api[s].ingress
        /\ new.managed = api[s].managed
    BY <2>1 DEF Object
  <2> QED BY <1>5, <2>1, <2>2 DEF UserWrites, UserChangesType, Version
<1>6. CASE UserDisowns(s)
  <2> DEFINE new == [api[s] EXCEPT !.managed = "false"]
  <2>1. UserWrites("disown", s, new) /\ api[s] \in Object
    BY <1>1, <1>6 DEF UserDisowns
  <2>2. /\ new \in Object /\ new.ports = api[s].ports
        /\ new.annot = api[s].annot /\ new.ingress = api[s].ingress
    BY <2>1 DEF Object
  <2> QED BY <1>6, <2>1, <2>2 DEF UserWrites, UserDisowns, Version
<1>7. CASE SomebodyTouches(s)
  BY <1>1, <1>7 DEF SomebodyTouches, UserWrites, Version
<1> QED BY <1>2, <1>3, <1>4, <1>5, <1>6, <1>7 DEF User

(* Every step of the controller is a call of the mapper or leaves it and   *)
(* its backend alone.                                                      *)
LEMMA NextUsesMapper ==
    ASSUME TypeOK, P!IndInv, [Next]_vars
    PROVE  [P!Next]_(P!vars) /\ P!IndInv'
<1> SUFFICES [P!Next]_(P!vars)
  BY MapperAssumptionHolds, P!NextKeepsInv
<1>1. UNCHANGED mapperVars => UNCHANGED P!vars
  BY DEF mapperVars, P!vars
<1>2. CASE RunSyncService
  <2>1. queue # <<>> /\ Head(queue).type = "SyncService"
    BY <1>2 DEF RunSyncService, Takes
  <2>2. Head(queue).svc \in Service
    BY <2>1, QueueTyped, JobsAre DEF TypeOK
  <2>3. PICK s \in Service : s = Head(queue).svc /\ SyncOutcome(s)
    BY <1>2, <2>2, SyncDoes
  <2>4. cache[s] \in Object => /\ cache[s].ports \in P!PortSets
                               /\ cache[s].annot \in L3Port \cup {NoPort}
    BY ObjectFields, SameMapper
  <2> QED BY <1>1, <2>3, <2>4 DEF SyncOutcome, P!Next
<1>3. CASE RunRemoveService
  <2>1. queue # <<>> /\ Head(queue).type = "RemoveService"
    BY <1>3 DEF RunRemoveService, Takes
  <2>2. Head(queue).svc \in Service
    BY <2>1, QueueTyped, JobsAre DEF TypeOK
  <2> QED BY <1>1, <1>3, <2>2, SameMapper DEF RunRemoveService, P!Next
<1>4. CASE RunCleanup
  BY <1>1, <1>4, SameMapper DEF RunCleanup, P!Next
<1>5. CASE Restart
  BY <1>5, SameMapper DEF Restart, P!Next
<1>6. CASE PortVanishes
  BY <1>6, SameMapper DEF PortVanishes, P!Next
<1>7. CASE WorkerWrites \/ WorkerWriteFails \/ RunRemoveCleanupBarrier \/ RunUpdateConfig
  BY <1>1, <1>7 DEF WorkerWrites, WorkerWriteFails, RunRemoveCleanupBarrier, RunUpdateConfig
<1>8. ASSUME NEW s \in Service,
             User(s) \/ InformerAdds(s) \/ InformerSees(s) \/ InformerResyncs(s)
      PROVE  UNCHANGED mapperVars
  BY <1>8, UserDoes DEF UserOutcome, InformerAdds, InformerSees, InformerResyncs
<1>9. CASE HandleAuxUpdated \/ PeriodicCleanup \/ UNCHANGED vars
  BY <1>1, <1>9 DEF HandleAuxUpdated, PeriodicCleanup, vars
<1> QED BY <1>1, <1>2, <1>3, <1>4, <1>5, <1>6, <1>7, <1>8, <1>9 DEF Next, Worker

-----------------------------------------------------------------------------
(* The work queue as a set of jobs.                                        *)
LEMMA QueueHolds ==
    ASSUME NEW q \in Seq(Job)
    PROVE  /\ \A j \in Job : \A x : Contains(Enqueue(q, j), x) <=> Contains(q, x) \/ x = j
           /\ q # <<>> => /\ \A x : Contains(Tail(q), x) => Contains(q, x)
                          /\ \A x : Contains(q, x) /\ x # Head(q) => Contains(Tail(q), x)
                          /\ Contains(q, Head(q))
<1>1. ASSUME NEW j \in Job, NEW x
      PROVE  Contains(Enqueue(q, j), x) <=> Contains(q, x) \/ x = j
  <2>1. Contains(Append(q, j), x) <=> Contains(q, x) \/ x = j
    <3>1. /\ Len(Append(q, j)) = Len(q) + 1 /\ Len(q) \in Nat
          /\ Append(q, j)[Len(q) + 1] = j
          /\ \A i \in 1..Len(q) : Append(q, j)[i] = q[i]
      OBVIOUS
    <3> QED BY <3>1 DEF Contains
  <2> QED BY <2>1 DEF Enqueue
<1>2. ASSUME q # <<>>
      PROVE  /\ \A x : Contains(Tail(q), x) => Contains(q, x)
             /\ \A x : Contains(q, x) /\ x # Head(q) => Contains(Tail(q), x)
             /\ Contains(q, Head(q))
  <2>1. /\ Len(q) \in Nat \ {0} /\ Len(Tail(q)) = Len(q) - 1
        /\ \A i \in 1..Len(q) - 1 : Tail(q)[i] = q[i + 1]
        /\ Head(q) = q[1]
    BY <1>2
  <2>2. ASSUME NEW x, Contains(q, x), x # Head(q)
        PROVE  Contains(Tail(q), x)
    <3>1. PICK i \in 1..Len(q) : q[i] = x
      BY <2>2 DEF Contains
    <3>2. i - 1 \in 1..Len(q) - 1 /\ Tail(q)[i - 1] = x
      BY <2>1, <2>2, <3>1
    <3> QED BY <2>1, <3>2 DEF Contains
  <2>3. ASSUME NEW x, Contains(Tail(q), x)
        PROVE  Contains(q, x)
    <3>1. PICK i \in 1..Len(q) - 1 : q[i + 1] = x
      BY <2>1, <2>3 DEF Contains
    <3> QED BY <2>1, <3>1 DEF Contains
  <2>4. Contains(q, Head(q))
    BY <2>1 DEF Contains
  <2> QED BY <2>2, <2>3, <2>4
<1> QED BY <1>1, <1>2

LEMMA JobsDiffer ==
    /\ \A s, t : SyncServiceJob(s) = SyncServiceJob(t) => s = t
    /\ \A s, t, m : SyncServiceJob(s) # RemoveServiceJob(t, m)
    /\ \A s, t, m, n : RemoveServiceJob(s, m) = RemoveServiceJob(t, n) => s = t /\ m = n
    /\ \A s, j : j \in {CleanupJob, UpdateConfigJob, RemoveCleanupBarrierJob} =>
           SyncServiceJob(s) # j /\ \A m : RemoveServiceJob(s, m) # j
    /\ \A j \in Job : /\ j.type = "SyncService" => j = SyncServiceJob(j.svc)
                      /\ j.type = "RemoveService" => j = RemoveServiceJob(j.svc, j.managed)
<1>1. \A s, t : SyncServiceJob(s) = SyncServiceJob(t) => s = t
  BY DEF SyncServiceJob
<1>2. \A s, t, m : SyncServiceJob(s) # RemoveServiceJob(t, m)
  <2>1. \A s, t, m : SyncServiceJob(s).type # RemoveServiceJob(t, m).type
    BY DEF SyncServiceJob, RemoveServiceJob
  <2> QED BY <2>1
<1>3. ASSUME NEW s, NEW t, NEW m, NEW n, RemoveServiceJob(s, m) = RemoveServiceJob(t, n)
      PROVE  s = t /\ m = n
  <2>1. /\ RemoveServiceJob(s, m).svc = RemoveServiceJob(t, n).svc
        /\ RemoveServiceJob(s, m).managed = RemoveServiceJob(t, n).managed
    BY <1>3
  <2> QED BY <2>1 DEF RemoveServiceJob
<1>4. ASSUME NEW s, NEW m, NEW j, j \in {CleanupJob, UpdateConfigJob, RemoveCleanupBarrierJob}
      PROVE  SyncServiceJob(s) # j /\ RemoveServiceJob(s, m) # j
  <2>1. j.type \in {"Cleanup", "UpdateConfig", "RemoveCleanupBarrier"}
    BY <1>4 DEF CleanupJob, UpdateConfigJob, RemoveCleanupBarrierJob
  <2>2. SyncServiceJob(s).type = "SyncService" /\ RemoveServiceJob(s, m).type = "RemoveService"
    BY DEF SyncServiceJob, RemoveServiceJob
  <2> QED BY <2>1, <2>2
<1>5. ASSUME NEW j \in Job
      PROVE  /\ j.type = "SyncService" => j = SyncServiceJob(j.svc)
             /\ j.type = "RemoveService" => j = RemoveServiceJob(j.svc, j.managed)
  BY DEF Job, SyncServiceJob, RemoveServiceJob, CleanupJob, UpdateConfigJob,
         RemoveCleanupBarrierJob
<1> QED BY <1>1, <1>2, <1>3, <1>4, <1>5

-----------------------------------------------------------------------------
(* The types.  A service whose AddFunc has not been called has no job, so  *)
(* what is synced is not among those still to be added.  The versions of a *)
(* service, from the cached one (at 0) to the present one, do not contain  *)
(* two deletions in a row, so a deleted service was in the cache.          *)
VersionAt(s, i) == IF i = 0 THEN cache[s] ELSE watch[s][i]

Pipeline(s) ==
    /\ api[s] = VersionAt(s, Len(watch[s]))
    /\ \A i \in 1..Len(watch[s]) : VersionAt(s, i) = Absent => VersionAt(s, i - 1) # Absent

TypeInv ==
    /\ TypeOK /\ P!IndInv
    /\ \A s \in adds : ~Contains(queue, SyncServiceJob(s))
    /\ \A s \in Service : Pipeline(s)

LEMMA FaultsTyped == TypeOK /\ (Fault \/ NoFault) => faults' \in 0..MaxFaults
BY ControllerAssumption DEF TypeOK, Fault, NoFault

(* A step that only enqueues jobs of other services, or takes one.         *)
LEMMA QueueKeepsAdds ==
    ASSUME TypeInv, adds' = adds,
           \/ queue' = queue
           \/ queue # <<>> /\ queue' = Tail(queue)
           \/ \E j \in Job \ {SyncServiceJob(s) : s \in adds} : queue' = Enqueue(queue, j)
           \/ /\ queue # <<>>
              /\ \E j \in {CleanupJob, UpdateConfigJob} :
                     \/ queue' = Enqueue(Tail(queue), j)
                     \/ queue' = Enqueue(Enqueue(Tail(queue), CleanupJob), j)
    PROVE  queue' \in Seq(Job) /\ \A s \in adds' : ~Contains(queue', SyncServiceJob(s))
<1>1. queue \in Seq(Job) /\ \A s \in adds : ~Contains(queue, SyncServiceJob(s))
  BY DEF TypeInv, TypeOK
<1>2. ASSUME queue # <<>>
      PROVE  /\ Tail(queue) \in Seq(Job)
             /\ \A s \in adds : ~Contains(Tail(queue), SyncServiceJob(s))
  BY <1>1, <1>2, QueueTyped, QueueHolds
<1>3. ASSUME NEW q \in Seq(Job), \A s \in adds : ~Contains(q, SyncServiceJob(s)),
             NEW j \in {CleanupJob, UpdateConfigJob}
      PROVE  /\ Enqueue(q, j) \in Seq(Job)
             /\ \A s \in adds : ~Contains(Enqueue(q, j), SyncServiceJob(s))
  <2>1. j \in Job
    BY JobsAre
  <2> QED BY <1>3, <2>1, QueueTyped, QueueHolds, JobsDiffer
<1>4. ASSUME NEW j \in Job \ {SyncServiceJob(s) : s \in adds}, queue' = Enqueue(queue, j)
      PROVE  queue' \in Seq(Job) /\ \A s \in adds' : ~Contains(queue', SyncServiceJob(s))
  BY <1>1, <1>4, QueueTyped, QueueHolds
<1>5. ASSUME queue # <<>>, NEW j \in {CleanupJob, UpdateConfigJob},
             \/ queue' = Enqueue(Tail(queue), j)
             \/ queue' = Enqueue(Enqueue(Tail(queue), CleanupJob), j)
      PROVE  queue' \in Seq(Job) /\ \A s \in adds' : ~Contains(queue', SyncServiceJob(s))
  BY <1>2, <1>3, <1>5
<1> QED BY <1>1, <1>2, <1>4, <1>5

(* A write appends a version; the informer takes the first one.            *)
LEMMA WriteAppends ==
    ASSUME TypeOK, NEW s \in Service, NEW o \in Version, Write(s, o), cache' = cache,
           NEW n \in Nat, n = Len(watch[s])
    PROVE  /\ api' \in [Service -> Version] /\ watch' \in [Service -> Seq(Version)]
           /\ \A t \in Service \ {s} : api'[t] = api[t] /\ watch'[t] = watch[t]
           /\ api'[s] = o /\ Len(watch'[s]) = n + 1 /\ VersionAt(s, n + 1)' = o
           /\ \A i \in 0..n : VersionAt(s, i)' = VersionAt(s, i)
<1> DEFINE new == Append(watch[s], o)
<1>1. watch[s] \in Seq(Version) /\ watch' = [watch EXCEPT ![s] = new]
  BY DEF TypeOK, Write
<1>2. /\ new \in Seq(Version) /\ Len(new) = n + 1 /\ new[n + 1] = o
      /\ \A i \in 1..n : new[i] = watch[s][i]
  BY <1>1
<1>3. /\ watch' \in [Service -> Seq(Version)] /\ watch'[s] = new
      /\ \A t \in Service \ {s} : watch'[t] = watch[t]
  <2> HIDE DEF new
  <2> QED BY <1>1, <1>2 DEF TypeOK
<1>4. /\ api' \in [Service -> Version] /\ api'[s] = o
      /\ \A t \in Service \ {s} : api'[t] = api[t]
  BY DEF TypeOK, Write
<1> HIDE DEF new
<1> QED BY <1>2, <1>3, <1>4 DEF VersionAt

LEMMA SeeingShifts ==
    ASSUME TypeOK, NEW s \in Service, InformerSees(s), NEW n \in Nat, n = Len(watch[s])
    PROVE  /\ cache' \in [Service -> Version] /\ watch' \in [Service -> Seq(Version)]
           /\ \A t \in Service \ {s} : cache'[t] = cache[t] /\ watch'[t] = watch[t]
           /\ n > 0 /\ Len(watch'[s]) = n - 1 /\ cache'[s] = VersionAt(s, 1)
           /\ \A i \in 0..n - 1 : VersionAt(s, i)' = VersionAt(s, i + 1)
<1> DEFINE new == Tail(watch[s])
<1>1. /\ watch[s] \in Seq(Version) /\ watch[s] # <<>>
      /\ watch' = [watch EXCEPT ![s] = new] /\ cache' = [cache EXCEPT ![s] = Head(watch[s])]
  BY DEF TypeOK, InformerSees
<1>2. /\ new \in Seq(Version) /\ n > 0 /\ Len(new) = n - 1
      /\ Head(watch[s]) = watch[s][1] /\ Head(watch[s]) \in Version
      /\ \A i \in 1..n - 1 : new[i] = watch[s][i + 1]
  BY <1>1
<1>3. /\ watch' \in [Service -> Seq(Version)] /\ watch'[s] = new
      /\ \A t \in Service \ {s} : watch'[t] = watch[t]
  <2> HIDE DEF new
  <2> QED BY <1>1, <1>2 DEF TypeOK
<1>4. /\ cache' \in [Service -> Version] /\ cache'[s] = watch[s][1]
      /\ \A t \in Service \ {s} : cache'[t] = cache[t]
  BY <1>1, <1>2 DEF TypeOK
<1> HIDE DEF new
<1> QED BY <1>2, <1>3, <1>4 DEF VersionAt

LEMMA WriteKeepsPipelines ==
    ASSUME TypeInv, NEW s \in Service, NEW o \in Version, Write(s, o), cache' = cache,
           o = Absent => api[s] # Absent
    PROVE  \A t \in Service : Pipeline(t)'
<1>1. TypeOK /\ \A t \in Service : Pipeline(t)
  BY DEF TypeInv
<1>2. PICK n \in Nat : n = Len(watch[s])
  BY <1>1 DEF TypeOK
<1>3. /\ \A t \in Service \ {s} : api'[t] = api[t] /\ watch'[t] = watch[t]
      /\ api'[s] = o /\ Len(watch'[s]) = n + 1 /\ VersionAt(s, n + 1)' = o
      /\ \A i \in 0..n : VersionAt(s, i)' = VersionAt(s, i)
  BY <1>1, <1>2, WriteAppends
<1>4. Pipeline(s)'
  <2>1. ASSUME NEW i \in 1..n + 1, VersionAt(s, i)' = Absent
        PROVE  VersionAt(s, i - 1)' # Absent
    <3>1. CASE i = n + 1
      BY <1>1, <1>2, <1>3, <2>1, <3>1 DEF Pipeline
    <3>2. CASE i # n + 1
      BY <1>1, <1>2, <1>3, <2>1, <3>2 DEF Pipeline
    <3> QED BY <3>1, <3>2
  <2> QED BY <1>3, <2>1 DEF Pipeline
<1>5. \A t \in Service \ {s} : Pipeline(t)'
  BY <1>1, <1>3 DEF Pipeline, VersionAt
<1> QED BY <1>4, <1>5

LEMMA SeeingKeepsPipelines ==
    ASSUME TypeInv, NEW s \in Service, InformerSees(s)
    PROVE  \A t \in Service : Pipeline(t)'
<1>1. TypeOK /\ (\A t \in Service : Pipeline(t)) /\ api' = api
  BY DEF TypeInv, InformerSees
<1>2. PICK n \in Nat : n = Len(watch[s])
  BY <1>1 DEF TypeOK
<1>3. /\ \A t \in Service \ {s} : cache'[t] = cache[t] /\ watch'[t] = watch[t]
      /\ n > 0 /\ Len(watch'[s]) = n - 1
      /\ \A i \in 0..n - 1 : VersionAt(s, i)' = VersionAt(s, i + 1)
  BY <1>1, <1>2, SeeingShifts
<1>4. Pipeline(s)'
  <2>1. \A i \in 1..n - 1 : /\ VersionAt(s, i)' = VersionAt(s, i + 1)
                            /\ VersionAt(s, i - 1)' = VersionAt(s, i)
    BY <1>3
  <2>2. VersionAt(s, n - 1)' = VersionAt(s, n)
    BY <1>3
  <2> QED BY <1>1, <1>2, <1>3, <2>1, <2>2 DEF Pipeline
<1>5. \A t \in Service \ {s} : Pipeline(t)'
  BY <1>1, <1>3 DEF Pipeline, VersionAt
<1> QED BY <1>4, <1>5

(* An accepted or a pending call is of a service and writes an object.     *)
LEMMA CallsTyped ==
    ASSUME TypeOK, NEW s \in Service, NEW o, NEW update, Asks(s, o, update)
    PROVE  call' \in APICall
BY DEF Asks, Calls, APICall

LEMMA NextKeepsTypes == TypeInv /\ [Next]_vars => TypeInv'
<1> SUFFICES ASSUME TypeInv, [Next]_vars
             PROVE  TypeInv'
  OBVIOUS
<1> DEFINE Objects == /\ api \in [Service -> Version] /\ cache \in [Service -> Version]
                      /\ watch \in [Service -> Seq(Version)]
                      /\ \A s \in Service : Pipeline(s)
           Added == adds \subseteq unsynced /\ unsynced \subseteq Service
           Queued == queue \in Seq(Job) /\ \A s \in adds : ~Contains(queue, SyncServiceJob(s))
           Called == call \in APICall \cup {NoCall}
           Configured ==
               agentCfg \in [Agent -> [Service -> [l3port : L3Port \cup {NoPort}, ports : SUBSET L4Port]]]
           Counted == edits \in 0..MaxEdits /\ faults \in 0..MaxFaults /\ crashes \in 0..MaxCrashes
<1>1. TypeOK /\ P!IndInv
  BY DEF TypeInv
<1>2. /\ Objects /\ Added /\ Queued /\ Called /\ Configured /\ Counted
      /\ allowCleanups \in BOOLEAN
  BY <1>1 DEF TypeInv, TypeOK
<1>3. P!IndInv' /\ PM!TypeOK'
  <2>1. P!IndInv' /\ P!TypeOK'
    BY <1>1, NextUsesMapper DEF P!IndInv
  <2>2. (PM!TypeOK <=> P!TypeOK)'
    BY SameMapper, PTL
  <2> QED BY <2>1, <2>2
<1> SUFFICES /\ Objects' /\ Added' /\ Queued' /\ Called' /\ Configured' /\ Counted'
             /\ allowCleanups' \in BOOLEAN
  BY <1>3 DEF TypeInv, TypeOK
<1>4. /\ UNCHANGED <<apiVars, cache>> => Objects'
      /\ UNCHANGED <<adds, unsynced>> => Added'
      /\ UNCHANGED <<adds, queue>> => Queued'
      /\ UNCHANGED call => Called'
      /\ UNCHANGED agentCfg => Configured'
      /\ UNCHANGED budgetVars => Counted'
      /\ (Fault \/ NoFault) /\ UNCHANGED <<edits, crashes>> => Counted'
      /\ UNCHANGED allowCleanups => allowCleanups' \in BOOLEAN
  BY <1>1, <1>2, FaultsTyped DEF apiVars, budgetVars, Pipeline, VersionAt
<1> HIDE DEF Objects, Added, Queued, Called, Configured, Counted
<1>5. ASSUME NEW s \in Service, User(s)
      PROVE  /\ Objects' /\ Added' /\ Queued' /\ Called' /\ Configured' /\ Counted'
             /\ allowCleanups' \in BOOLEAN
  <2>1. PICK o \in Version : UserOutcome(s, o)
    BY <1>1, <1>5, UserDoes
  <2>2. Objects'
    <3>1. PICK n \in Nat : n = Len(watch[s])
      BY <1>1 DEF TypeOK
    <3>2. Write(s, o) /\ cache' = cache /\ (o = Absent => api[s] # Absent)
      <4>1. o \in Object => o # Absent
        BY ControllerAssumption
      <4> QED BY <2>1, <4>1 DEF UserOutcome, informerVars
    <3>3. api' \in [Service -> Version] /\ watch' \in [Service -> Seq(Version)]
      BY <1>1, <3>1, <3>2, WriteAppends
    <3>4. \A t \in Service : Pipeline(t)'
      BY <3>2, WriteKeepsPipelines
    <3> QED BY <1>2, <3>2, <3>3, <3>4 DEF Objects
  <2>3. Called'
    <3>1. call # NoCall => [call EXCEPT !.fresh = FALSE] \in APICall
      BY <1>2 DEF Called, APICall
    <3> QED BY <1>2, <2>1, <3>1 DEF Called, UserOutcome
  <2>4. Counted'
    BY <1>2, <2>1, ControllerAssumption DEF Counted, UserOutcome
  <2> QED BY <1>4, <2>1, <2>2, <2>3, <2>4 DEF UserOutcome, informerVars
<1>6. ASSUME NEW s \in Service, InformerAdds(s)
      PROVE  /\ Objects' /\ Added' /\ Queued' /\ Called' /\ Configured' /\ Counted'
             /\ allowCleanups' \in BOOLEAN
  <2>1. /\ s \in adds /\ adds' = adds \ {s} /\ queue' = Enqueue(queue, SyncServiceJob(s))
        /\ UNCHANGED <<mapperVars, apiVars, cache, unsynced, call, allowCleanups, agentCfg,
                       budgetVars>>
    BY <1>6 DEF InformerAdds
  <2>2. Added'
    BY <1>2, <2>1 DEF Added
  <2>3. Queued'
    BY <1>2, <2>1, JobsAre, JobsDiffer, QueueTyped, QueueHolds DEF Queued
  <2> QED BY <1>4, <2>1, <2>2, <2>3
<1>7. ASSUME NEW s \in Service, InformerSees(s)
      PROVE  /\ Objects' /\ Added' /\ Queued' /\ Called' /\ Configured' /\ Counted'
             /\ allowCleanups' \in BOOLEAN
  <2>1. /\ adds = {} /\ watch[s] # <<>>
        /\ queue' = Enqueue(queue, IF Head(watch[s]) # Absent
                                     THEN SyncServiceJob(s)
                                     ELSE RemoveServiceJob(s, cache[s].managed))
        /\ UNCHANGED <<mapperVars, api, adds, unsynced, call, allowCleanups, agentCfg,
                       budgetVars>>
    BY <1>7 DEF InformerSees
  <2>2. PICK n \in Nat : n = Len(watch[s]) /\ n > 0
    BY <1>1, <2>1 DEF TypeOK
  <2>3. Objects'
    BY <1>1, <1>2, <1>7, <2>1, <2>2, SeeingShifts, SeeingKeepsPipelines DEF Objects
  <2>4. Queued'
    <3>1. Head(watch[s]) = VersionAt(s, 1)
      BY <1>2, <2>2 DEF Objects, VersionAt
    <3>2. Head(watch[s]) = Absent => cache[s] \in Object
      BY <1>2, <2>2, <3>1 DEF Objects, Pipeline, VersionAt, Version
    <3>3. Head(watch[s]) = Absent => RemoveServiceJob(s, cache[s].managed) \in Job
      BY <3>2, ObjectFields, JobsAre
    <3> QED BY <1>2, <2>1, <3>3, JobsAre, QueueTyped DEF Queued
  <2> QED BY <1>4, <2>1, <2>3, <2>4
<1>8. ASSUME NEW s \in Service, InformerResyncs(s)
      PROVE  /\ Objects' /\ Added' /\ Queued' /\ Called' /\ Configured' /\ Counted'
             /\ allowCleanups' \in BOOLEAN
  <2>1. /\ adds = {} /\ queue' = Enqueue(queue, SyncServiceJob(s))
        /\ UNCHANGED <<mapperVars, apiVars, informerVars, call, allowCleanups, agentCfg,
                       budgetVars>>
    BY <1>8 DEF InformerResyncs
  <2>2. Queued'
    BY <1>2, <2>1, JobsAre, QueueTyped DEF Queued, informerVars
  <2> QED BY <1>4, <2>1, <2>2 DEF informerVars
<1>9. CASE HandleAuxUpdated \/ PeriodicCleanup
  <2>1. /\ \E j \in {UpdateConfigJob, CleanupJob, RemoveCleanupBarrierJob} :
               queue' = Enqueue(queue, j)
        /\ UNCHANGED <<mapperVars, apiVars, informerVars, call, allowCleanups, agentCfg,
                       budgetVars>>
    BY <1>9 DEF HandleAuxUpdated, PeriodicCleanup
  <2>2. Queued'
    <3>1. PICK j \in Job \ {SyncServiceJob(s) : s \in adds} : queue' = Enqueue(queue, j)
      BY <2>1, JobsAre, JobsDiffer
    <3> QED BY <2>1, <3>1, QueueKeepsAdds DEF Queued, informerVars
  <2> QED BY <1>4, <2>1, <2>2 DEF informerVars
<1>10. CASE RunSyncService
  <2>1. queue # <<>> /\ Head(queue).type = "SyncService" /\ Head(queue).svc \in Service
    BY <1>1, <1>10, QueueTyped, JobsAre DEF RunSyncService, Takes, TypeOK
  <2>2. PICK s \in Service : s = Head(queue).svc
    BY <2>1
  <2>3. /\ SyncOutcome(s) /\ call = NoCall
        /\ queue' = Tail(queue) \/ queue' = Enqueue(Tail(queue), UpdateConfigJob)
        /\ Fault \/ NoFault
        /\ unsynced' \in {unsynced, unsynced \ {s}}
        /\ UNCHANGED <<apiVars, cache, adds, allowCleanups, agentCfg, edits, crashes>>
    BY <1>1, <1>10, <2>2, SyncDoes
  <2>4. Added'
    <3>1. Head(queue) = SyncServiceJob(s)
      BY <1>1, <2>1, <2>2, QueueTyped, JobsDiffer DEF TypeOK
    <3>2. s \notin adds
      BY <1>1, <1>2, <2>1, <3>1, QueueHolds DEF Queued
    <3> QED BY <1>2, <2>3, <3>2 DEF Added
  <2>5. Queued'
    BY <2>1, <2>3, QueueKeepsAdds DEF Queued
  <2>6. Called'
    BY <1>1, <1>2, <2>3, CallsTyped DEF Called, SyncOutcome
  <2> QED BY <1>4, <2>3, <2>4, <2>5, <2>6
<1>11. CASE WorkerWrites
  <2>1. /\ call # NoCall /\ Write(call.svc, call.obj) /\ call' = NoCall
        /\ queue' = IF call.update THEN Enqueue(queue, UpdateConfigJob) ELSE queue
        /\ UNCHANGED <<mapperVars, informerVars, allowCleanups, agentCfg, budgetVars>>
    BY <1>11 DEF WorkerWrites
  <2>2. PICK s \in Service, o \in Object : s = call.svc /\ o = call.obj
    BY <1>2, <2>1 DEF Called, APICall
  <2>3. Objects'
    <3>1. PICK n \in Nat : n = Len(watch[s])
      BY <1>1 DEF TypeOK
    <3>2. Write(s, o) /\ cache' = cache /\ o # Absent /\ o \in Version
      BY <2>1, <2>2, ControllerAssumption DEF informerVars, Version
    <3>3. api' \in [Service -> Version] /\ watch' \in [Service -> Seq(Version)]
      BY <1>1, <3>1, <3>2, WriteAppends
    <3>4. \A t \in Service : Pipeline(t)'
      BY <3>2, WriteKeepsPipelines
    <3> QED BY <1>2, <3>2, <3>3, <3>4 DEF Objects
  <2>4. Queued'
    <3>1. UpdateConfigJob \in Job \ {SyncServiceJob(t) : t \in adds}
      BY JobsAre, JobsDiffer
    <3> QED BY <2>1, <3>1, QueueKeepsAdds DEF Queued, informerVars
  <2>5. Called'
    BY <2>1 DEF Called
  <2> QED BY <1>4, <2>1, <2>3, <2>4, <2>5 DEF informerVars
<1>12. CASE WorkerWriteFails
  <2>1. Called'
    BY <1>12 DEF WorkerWriteFails, Called
  <2> QED BY <1>4, <1>12, <2>1 DEF WorkerWriteFails, informerVars
<1>13. CASE RunRemoveService
  <2>1. /\ queue # <<>>
        /\ \/ queue' = Enqueue(Enqueue(Tail(queue), CleanupJob), UpdateConfigJob)
           \/ queue' = Tail(queue)
        /\ UNCHANGED <<apiVars, informerVars, call, allowCleanups, agentCfg, budgetVars>>
    BY <1>13 DEF RunRemoveService, Takes
  <2>2. Queued'
    BY <2>1, QueueKeepsAdds DEF Queued, informerVars
  <2> QED BY <1>4, <2>1, <2>2 DEF informerVars
<1>14. CASE RunRemoveCleanupBarrier \/ RunCleanup
  <2>1. /\ queue # <<>> /\ queue' = Tail(queue)
        /\ allowCleanups' \in {allowCleanups, TRUE}
        /\ UNCHANGED <<apiVars, informerVars, call, agentCfg, budgetVars>>
    BY <1>14 DEF RunRemoveCleanupBarrier, RunCleanup, Takes
  <2>2. Queued'
    BY <2>1, QueueKeepsAdds DEF Queued, informerVars
  <2> QED BY <1>2, <1>4, <2>1, <2>2 DEF informerVars
<1>15. CASE RunUpdateConfig
  <2>1. /\ queue # <<>> /\ queue' = Tail(queue)
        /\ UNCHANGED <<mapperVars, apiVars, informerVars, call, allowCleanups, edits, crashes>>
    BY <1>15 DEF RunUpdateConfig, Takes
  <2>2. Queued'
    BY <2>1, QueueKeepsAdds DEF Queued, informerVars
  <2>3. Fault \/ NoFault
    BY <1>15 DEF RunUpdateConfig, PushConfig, NoFault
  <2>4. Configured'
    <3>1. CASE ModelFails
      BY <1>4, <1>15, <3>1 DEF RunUpdateConfig
    <3>2. CASE ~ModelFails
      <4>1. PICK m : m = GeneratedModel
        OBVIOUS
      <4>2. PICK failed \in SUBSET Agent :
                agentCfg' = [a \in Agent |-> IF a \in failed THEN agentCfg[a] ELSE m]
        BY <1>15, <3>2, <4>1 DEF RunUpdateConfig, PushConfig
      <4>3. m \in [Service -> [l3port : L3Port \cup {NoPort}, ports : SUBSET L4Port]]
        <5>1. services \in [Service -> [l3port : L3Port \cup {NoPort}, ports : SUBSET L4Port]]
          BY <1>1 DEF TypeOK, PM!TypeOK
        <5>2. ASSUME NEW s \in Service, PM!IsMapped(s)
              PROVE  cache[s].ports \in SUBSET L4Port
          <6>1. cache[s] \in Object
            BY <1>2, <3>2, <5>2 DEF ModelFails, Objects, Version
          <6> QED BY <6>1, ObjectFields DEF PM!PortSets
        <5> QED BY <4>1, <5>1, <5>2 DEF GeneratedModel, PM!Unmapped
      <4> QED BY <1>2, <4>2, <4>3 DEF Configured
    <3> QED BY <3>1, <3>2
  <2> QED BY <1>4, <2>1, <2>2, <2>3, <2>4 DEF informerVars
<1>16. CASE Restart
  <2>1. /\ crashes < MaxCrashes /\ crashes' = crashes + 1
        /\ watch' = [s \in Service |-> <<>>] /\ cache' = api
        /\ adds' = {s \in Service : api[s] # Absent} /\ unsynced' = adds'
        /\ queue' = <<>> /\ call' = NoCall /\ allowCleanups' = FALSE
        /\ UNCHANGED <<api, agentCfg, edits, faults>>
    BY <1>16 DEF Restart
  <2>2. Objects'
    BY <1>2, <2>1 DEF Objects, Pipeline, VersionAt
  <2>3. Queued'
    BY <2>1 DEF Queued, Contains
  <2>4. Added' /\ Called' /\ Counted'
    BY <1>2, <2>1, ControllerAssumption DEF Added, Called, Counted
  <2> QED BY <1>4, <2>1, <2>2, <2>3, <2>4
<1>17. CASE PortVanishes
  BY <1>4, <1>17 DEF PortVanishes, informerVars, workerVars
<1>18. CASE UNCHANGED vars
  BY <1>4, <1>18 DEF vars, informerVars, workerVars
<1> QED BY <1>5, <1>6, <1>7, <1>8, <1>9, <1>10, <1>11, <1>12, <1>13, <1>14, <1>15,
           <1>16, <1>17, <1>18 DEF Next, Worker

LEMMA InitTypes == Init => TypeInv
<1> SUFFICES ASSUME Init PROVE TypeInv
  OBVIOUS
<1>1. P!IndInv /\ PM!TypeOK
  <2>1. P!IndInv
    BY SameMapper, MapperAssumptionHolds, P!InitEstablishesInv DEF Init
  <2> QED BY <2>1, SameMapper DEF P!IndInv
<1>2. /\ api = [s \in Service |-> Absent] /\ watch = [s \in Service |-> <<>>] /\ cache = api
      /\ adds = {} /\ unsynced = {} /\ queue = <<>> /\ call = NoCall /\ allowCleanups = FALSE
      /\ agentCfg = [a \in Agent |-> [s \in Service |-> PM!Unmapped]]
      /\ edits = 0 /\ faults = 0 /\ crashes = 0
  BY DEF Init
<1>3. \A s \in Service : Pipeline(s)
  BY <1>2 DEF Pipeline, VersionAt
<1>4. agentCfg \in [Agent -> [Service -> [l3port : L3Port \cup {NoPort}, ports : SUBSET L4Port]]]
  BY <1>2 DEF PM!Unmapped
<1>5. /\ api \in [Service -> Version] /\ cache \in [Service -> Version]
      /\ watch \in [Service -> Seq(Version)] /\ queue \in Seq(Job)
  BY <1>2 DEF Version
<1>6. edits \in 0..MaxEdits /\ faults \in 0..MaxFaults /\ crashes \in 0..MaxCrashes
  BY <1>2, ControllerAssumption
<1>7. /\ adds \subseteq unsynced /\ unsynced \subseteq Service /\ allowCleanups \in BOOLEAN
      /\ call \in APICall \cup {NoCall} /\ \A s \in adds : ~Contains(queue, SyncServiceJob(s))
  BY <1>2
<1> QED BY <1>1, <1>3, <1>4, <1>5, <1>6, <1>7 DEF TypeInv, TypeOK

THEOREM TypesHold == Spec => []TypeInv
<1>1. TypeInv /\ [Next]_vars => TypeInv'
  BY NextKeepsTypes
<1> QED BY <1>1, InitTypes, PTL DEF Spec

(* The variables have their types; in particular every removal job has the *)
(* annotations of a service that was there, and whatever the users do, the *)
(* model that is sent to the agents is built from existing services.       *)
THEOREM TypeCorrect == Spec => []TypeOK
<1>1. TypeInv => TypeOK
  BY DEF TypeInv
<1> QED BY <1>1, TypesHold, PTL

-----------------------------------------------------------------------------
(* The controller with its jobs, its restarts and its failing calls uses   *)
(* the mapper as PortMapper assumes: every step is a call of the interface *)
(* with arguments of the right kind, or leaves the mapper alone.           *)
THEOREM DrivesPortMapper == Spec => P!Spec
<1>1. Init => P!Init
  BY SameMapper DEF Init
<1>2. TypeInv /\ [Next]_vars => [P!Next]_(P!vars)
  BY NextUsesMapper DEF TypeInv
<1> QED BY <1>1, <1>2, TypesHold, PTL DEF Spec, P!Spec

(* So what is proved of the mapper holds inside the controller: two        *)
(* services never share an L4 port of an L3 port, and no cleanup deletes   *)
(* the port of a service that is mapped.                                   *)
THEOREM MapperKeepsItsPromises ==
    Spec => []P!Exclusive /\ []P!TablesAgree /\ P!CleanupSparesMapped
<1>1. P!Spec => []P!Exclusive /\ []P!TablesAgree /\ P!CleanupSparesMapped
  BY MapperAssumptionHolds, P!PortsAreExclusive, P!TablesAlwaysAgree,
     P!CleanupSparesMappedServices, PTL
<1> QED BY <1>1, DrivesPortMapper, PTL

-----------------------------------------------------------------------------
(* The status and the annotation.  No version of a service, past, present, *)
(* cached, or about to be written, shows another port than it names.       *)
ConsistentAt(s) ==
    \A i \in 0..Len(watch[s]) : VersionAt(s, i) # Absent => Consistent(VersionAt(s, i))

StatusInv ==
    /\ \A s \in Service : ConsistentAt(s)
    /\ call # NoCall => Consistent(call.obj)

LEMMA WriteKeepsConsistent ==
    ASSUME TypeOK, NEW s \in Service, NEW o \in Version, Write(s, o), cache' = cache,
           o # Absent => Consistent(o), \A t \in Service : ConsistentAt(t)
    PROVE  \A t \in Service : ConsistentAt(t)'
<1>1. PICK n \in Nat : n = Len(watch[s])
  BY DEF TypeOK
<1>2. /\ \A t \in Service \ {s} : api'[t] = api[t] /\ watch'[t] = watch[t]
      /\ Len(watch'[s]) = n + 1 /\ VersionAt(s, n + 1)' = o
      /\ \A i \in 0..n : VersionAt(s, i)' = VersionAt(s, i)
  BY <1>1, WriteAppends
<1>3. \A i \in 0..n + 1 : i \in 0..n \/ i = n + 1
  OBVIOUS
<1>4. ConsistentAt(s)'
  BY <1>1, <1>2, <1>3 DEF ConsistentAt, Consistent
<1>5. \A t \in Service \ {s} : ConsistentAt(t)'
  BY <1>2 DEF ConsistentAt, VersionAt, Consistent
<1> QED BY <1>4, <1>5

LEMMA SeeingKeepsConsistent ==
    ASSUME TypeOK, NEW s \in Service, InformerSees(s), \A t \in Service : ConsistentAt(t)
    PROVE  \A t \in Service : ConsistentAt(t)'
<1>1. PICK n \in Nat : n = Len(watch[s])
  BY DEF TypeOK
<1>2. /\ \A t \in Service \ {s} : cache'[t] = cache[t] /\ watch'[t] = watch[t]
      /\ n > 0 /\ Len(watch'[s]) = n - 1
      /\ \A i \in 0..n - 1 : VersionAt(s, i)' = VersionAt(s, i + 1)
  BY <1>1, SeeingShifts
<1>3. \A i \in 0..n - 1 : i + 1 \in 0..n
  BY <1>2
<1>4. ConsistentAt(s)'
  BY <1>1, <1>2, <1>3 DEF ConsistentAt, Consistent
<1>5. \A t \in Service \ {s} : ConsistentAt(t)'
  BY <1>2 DEF ConsistentAt, VersionAt, Consistent
<1> QED BY <1>4, <1>5

(* A pending call that is not changed, or given up, stays consistent.      *)
LEMMA NextKeepsStatus == TypeInv /\ StatusInv /\ [Next]_vars => StatusInv'
<1> SUFFICES ASSUME TypeInv, StatusInv, [Next]_vars
             PROVE  StatusInv'
  OBVIOUS
<1> DEFINE Versions == \A s \in Service : ConsistentAt(s)
           Calling == call # NoCall => Consistent(call.obj)
<1>1. TypeOK /\ P!IndInv /\ Versions /\ Calling
  BY DEF TypeInv, StatusInv
<1>2. /\ UNCHANGED <<watch, cache>> => Versions'
      /\ UNCHANGED call \/ call' = NoCall => Calling'
  BY <1>1 DEF ConsistentAt, VersionAt, Consistent
<1> SUFFICES Versions' /\ Calling'
  BY DEF StatusInv
<1> HIDE DEF Versions, Calling
<1>3. ASSUME NEW s \in Service, User(s)
      PROVE  Versions' /\ Calling'
  <2>1. PICK o \in Version : UserOutcome(s, o)
    BY <1>1, <1>3, UserDoes
  <2>2. api[s] # Absent => Consistent(api[s])
    <3>1. Pipeline(s) /\ ConsistentAt(s) /\ Len(watch[s]) \in 0..Len(watch[s])
      BY <1>1 DEF TypeInv, TypeOK, Versions
    <3> QED BY <3>1 DEF Pipeline, ConsistentAt
  <2>3. o # Absent => Consistent(o)
    BY <2>1, <2>2 DEF UserOutcome, Consistent
  <2>4. Versions'
    BY <1>1, <2>1, <2>3, WriteKeepsConsistent DEF UserOutcome, informerVars, Versions
  <2>5. Calling'
    <3>1. CASE call' = call
      BY <1>2, <3>1
    <3>2. CASE call # NoCall /\ call' = [call EXCEPT !.fresh = FALSE]
      <4>1. call \in APICall
        BY <1>1, <3>2 DEF TypeOK
      <4>2. call'.obj = call.obj
        BY <3>2, <4>1 DEF APICall
      <4> QED BY <1>1, <3>2, <4>2 DEF Calling, Consistent
    <3> QED BY <2>1, <3>1, <3>2 DEF UserOutcome
  <2> QED BY <2>4, <2>5
<1>4. ASSUME NEW s \in Service, InformerSees(s)
      PROVE  Versions' /\ Calling'
  <2>1. UNCHANGED call
    BY <1>4 DEF InformerSees
  <2>2. Versions'
    BY <1>1, <1>4, SeeingKeepsConsistent DEF Versions
  <2> QED BY <1>2, <2>1, <2>2
<1>5. CASE RunSyncService
  <2>1. queue # <<>> /\ Head(queue).type = "SyncService"
    BY <1>5 DEF RunSyncService, Takes
  <2>2. Head(queue).svc \in Service
    BY <1>1, <2>1, QueueTyped, JobsAre DEF TypeOK
  <2>3. PICK s \in Service : s = Head(queue).svc
    BY <2>2
  <2>4. SyncOutcome(s) /\ UNCHANGED <<apiVars, cache>>
    BY <1>1, <1>5, <2>3, SyncDoes
  <2>5. cache[s] \in Object => Consistent(cache[s])
    <3>1. ConsistentAt(s) /\ 0 \in 0..Len(watch[s]) /\ VersionAt(s, 0) = cache[s]
      BY <1>1 DEF TypeOK, Versions, VersionAt
    <3> QED BY <3>1, ObjectFields DEF ConsistentAt
  <2>6. ASSUME cache[s] \in Object, NEW o, NEW update, Asks(s, o, update)
        PROVE  Calling'
    <3>1. Consistent(o) /\ call'.obj = o
      BY <2>5, <2>6 DEF Asks, Calls
    <3> QED BY <3>1 DEF Calling, Consistent
  <2>7. UNCHANGED call \/ Calling'
    BY <2>4, <2>6 DEF SyncOutcome
  <2> QED BY <1>2, <2>4, <2>7 DEF apiVars
<1>6. CASE WorkerWrites
  <2>1. call # NoCall /\ Write(call.svc, call.obj) /\ call' = NoCall /\ cache' = cache
    BY <1>6 DEF WorkerWrites, informerVars
  <2>2. PICK s \in Service, o \in Object : s = call.svc /\ o = call.obj
    BY <1>1, <2>1 DEF TypeOK, APICall
  <2>3. Consistent(o) /\ o \in Version
    BY <1>1, <2>1, <2>2 DEF Calling, Version
  <2>4. Versions'
    BY <1>1, <2>1, <2>2, <2>3, WriteKeepsConsistent DEF Versions
  <2> QED BY <1>2, <2>1, <2>4
<1>7. CASE Restart
  <2>1. /\ watch' = [s \in Service |-> <<>>] /\ cache' = api /\ call' = NoCall
    BY <1>7 DEF Restart
  <2>2. ASSUME NEW s \in Service
        PROVE  ConsistentAt(s)'
    <3>1. Pipeline(s) /\ ConsistentAt(s) /\ Len(watch[s]) \in 0..Len(watch[s])
      BY <1>1 DEF TypeInv, TypeOK, Versions
    <3>2. api[s] # Absent => Consistent(api[s])
      BY <3>1 DEF Pipeline, ConsistentAt
    <3> QED BY <2>1, <3>2 DEF ConsistentAt, VersionAt, Consistent
  <2> QED BY <1>2, <2>1, <2>2 DEF Versions
<1>8. ASSUME NEW s \in Service, InformerAdds(s) \/ InformerResyncs(s)
      PROVE  UNCHANGED <<watch, cache, call>>
  BY <1>8 DEF InformerAdds, InformerResyncs, apiVars, informerVars
<1>9. CASE \/ HandleAuxUpdated \/ PeriodicCleanup \/ RunRemoveService
           \/ RunRemoveCleanupBarrier \/ RunCleanup \/ RunUpdateConfig \/ PortVanishes
           \/ UNCHANGED vars
  <2>1. UNCHANGED <<watch, cache, call>>
    BY <1>9 DEF HandleAuxUpdated, PeriodicCleanup, RunRemoveService, RunRemoveCleanupBarrier,
                RunCleanup, RunUpdateConfig, PortVanishes, vars, apiVars, informerVars,
                workerVars
  <2> QED BY <1>2, <2>1
<1>10. CASE WorkerWriteFails
  BY <1>2, <1>10 DEF WorkerWriteFails, apiVars, informerVars
<1> QED BY <1>2, <1>3, <1>4, <1>5, <1>6, <1>7, <1>8, <1>9, <1>10 DEF Next, Worker

(* A service never shows an address on another port than the one its       *)
(* annotation names: not when jobs fail between the two API calls, when    *)
(* the mapper moves a service, after a restart, or with an old cache.      *)
THEOREM StatusMatches == Spec => []StatusMatchesAnnotation
<1>1. Init => StatusInv
  BY DEF Init, StatusInv, ConsistentAt, VersionAt
<1>2. TypeInv /\ StatusInv => StatusMatchesAnnotation
  <2> SUFFICES ASSUME TypeInv, StatusInv, NEW s \in Service, api[s] # Absent,
                      api[s].ingress # NoPort
               PROVE  api[s].annot = api[s].ingress
    BY DEF StatusMatchesAnnotation
  <2>1. Pipeline(s) /\ ConsistentAt(s) /\ Len(watch[s]) \in 0..Len(watch[s])
    BY DEF TypeInv, TypeOK, StatusInv
  <2> QED BY <2>1 DEF Pipeline, ConsistentAt, Consistent
<1> QED BY <1>1, <1>2, NextKeepsStatus, TypesHold, PTL DEF Spec

-----------------------------------------------------------------------------
(* The configuration.  GenerateModel takes the ports of a mapped service   *)
(* from the cache, the mapper has those it was given at the last sync.     *)
(* They agree as long as nobody changes the ports of a service, disowns    *)
(* it, or creates it again before its removal is handled.                  *)
VersionsFollow(s) ==
    \A i \in 1..Len(watch[s]) :
        /\ i < Len(watch[s]) => VersionAt(s, i) # Absent
        /\ VersionAt(s, i - 1) # Absent /\ VersionAt(s, i) # Absent =>
               /\ VersionAt(s, i).ports = VersionAt(s, i - 1).ports
               /\ VersionAt(s, i - 1).managed = "true" /\ VersionAt(s, i).managed # "true" =>
                      i = 1 /\ ~cache[s].lb /\ ~P!IsMapped(s)

MappingFollows(s) ==
    P!IsMapped(s) =>
        IF cache[s] = Absent
          THEN watch[s] = <<>> /\ Contains(queue, RemoveServiceJob(s, "true"))
          ELSE cache[s].managed = "true" /\ cache[s].ports = services[s].ports

CallFollows ==
    call # NoCall /\ call.fresh =>
        LET s == call.svc
        IN  /\ watch[s] = <<>> /\ cache[s] # Absent /\ call.obj.ports = cache[s].ports
            /\ cache[s].managed = "true" /\ call.obj.managed # "true" =>
                   ~cache[s].lb /\ ~P!IsMapped(s)

ConfigInv ==
    /\ \A s \in Service : VersionsFollow(s) /\ MappingFollows(s)
    /\ CallFollows
    /\ ConfigExclusive

PortsFixed == UserOps \cap {"ports", "recreate", "disown"} = {}

LEMMA MapsOne ==
    ASSUME TypeOK, NEW s \in Service, NEW ports, NEW annot, P!MapService(s, ports, annot)
    PROVE  /\ \A t \in Service \ {s} : services'[t] = services[t]
           /\ services'[s] = services[s] \/ services'[s].ports = ports
<1>1. services \in [Service -> [l3port : L3Port \cup {NoPort}, ports : SUBSET L4Port]]
  BY DEF TypeOK, PM!TypeOK
<1>2. ASSUME NEW allocs, NEW p, P!Assign(allocs, s, ports, p)
      PROVE  /\ \A t \in Service \ {s} : services'[t] = services[t]
             /\ services'[s].ports = ports
  <2>1. PICK r : r = [l3port |-> p, ports |-> ports]
    OBVIOUS
  <2>2. services' = [services EXCEPT ![s] = r]
    BY <1>2, <2>1 DEF P!Assign
  <2> QED BY <1>1, <2>1, <2>2
<1>3. CASE services' = services
  BY <1>3
<1> QED BY <1>2, <1>3 DEF P!MapService, P!CheckFails, P!KeepPort, P!UseKnownPort, P!UseNewPort,
                          P!ProvisionFails, P!FailMapping, P!mapperVars

LEMMA UnmapsOne ==
    ASSUME TypeOK, NEW s \in Service, P!UnmapService(s)
    PROVE  /\ \A t \in Service \ {s} : services'[t] = services[t]
           /\ services'[s].l3port = NoPort
<1>1. services \in [Service -> [l3port : L3Port \cup {NoPort}, ports : SUBSET L4Port]]
  BY DEF TypeOK, PM!TypeOK
<1> QED BY <1>1 DEF P!UnmapService, P!Unmapped

LEMMA WriteKeepsVersions ==
    ASSUME TypeInv, NEW s \in Service, NEW o \in Version, Write(s, o),
           cache' = cache, services' = services, \A t \in Service : VersionsFollow(t),
           api[s] # Absent \/ watch[s] = <<>>,
           api[s] # Absent /\ o # Absent =>
               /\ o.ports = api[s].ports
               /\ api[s].managed = "true" /\ o.managed # "true" =>
                      watch[s] = <<>> /\ ~cache[s].lb /\ ~P!IsMapped(s)
    PROVE  \A t \in Service : VersionsFollow(t)'
<1>1. TypeOK /\ \A t \in Service : Pipeline(t)
  BY DEF TypeInv
<1>2. PICK n \in Nat : n = Len(watch[s])
  BY <1>1 DEF TypeOK
<1>3. /\ \A t \in Service \ {s} : api'[t] = api[t] /\ watch'[t] = watch[t]
      /\ Len(watch'[s]) = n + 1 /\ VersionAt(s, n + 1)' = o
      /\ \A i \in 0..n : VersionAt(s, i)' = VersionAt(s, i)
  BY <1>1, <1>2, WriteAppends
<1>4. api[s] = VersionAt(s, n) /\ (watch[s] = <<>> => n = 0)
  BY <1>1, <1>2 DEF Pipeline
<1>5. \A t \in Service : P!IsMapped(t)' <=> P!IsMapped(t)
  BY DEF P!IsMapped
<1>6. VersionsFollow(s)'
  <2> SUFFICES ASSUME NEW i \in 1..n + 1
               PROVE  /\ i < n + 1 => VersionAt(s, i)' # Absent
                      /\ VersionAt(s, i - 1)' # Absent /\ VersionAt(s, i)' # Absent =>
                             /\ VersionAt(s, i)'.ports = VersionAt(s, i - 1)'.ports
                             /\ VersionAt(s, i - 1)'.managed = "true"
                                /\ VersionAt(s, i)'.managed # "true" =>
                                    i = 1 /\ ~cache[s].lb /\ ~P!IsMapped(s)
    BY <1>3, <1>5 DEF VersionsFollow
  <2>1. CASE i = n + 1
    BY <1>3, <1>4, <2>1
  <2>2. CASE i # n + 1
    <3>1. i \in 1..n /\ i - 1 \in 0..n /\ i \in 0..n
      BY <2>2
    <3>2. /\ i < n => VersionAt(s, i) # Absent
          /\ VersionAt(s, i - 1) # Absent /\ VersionAt(s, i) # Absent =>
                 /\ VersionAt(s, i).ports = VersionAt(s, i - 1).ports
                 /\ VersionAt(s, i - 1).managed = "true" /\ VersionAt(s, i).managed # "true" =>
                        i = 1 /\ ~cache[s].lb /\ ~P!IsMapped(s)
      BY <1>2, <3>1 DEF VersionsFollow
    <3>3. i = n => VersionAt(s, i) # Absent
      BY <1>4, <3>1
    <3> QED BY <1>3, <3>1, <3>2, <3>3
  <2> QED BY <2>1, <2>2
<1>7. \A t \in Service \ {s} : VersionsFollow(t)'
  BY <1>3, <1>5 DEF VersionsFollow, VersionAt
<1> QED BY <1>6, <1>7

(* When the informer sees a version, an old mapping fits the new cache.    *)
LEMMA SeeingFollows ==
    ASSUME TypeInv, ConfigInv, NEW s \in Service, InformerSees(s)
    PROVE  \A t \in Service : VersionsFollow(t)' /\ MappingFollows(t)'
<1>1. TypeOK /\ (\A t \in Service : Pipeline(t) /\ VersionsFollow(t) /\ MappingFollows(t))
  BY DEF TypeInv, ConfigInv
<1>2. PICK n \in Nat : n = Len(watch[s])
  BY <1>1 DEF TypeOK
<1>3. /\ \A t \in Service \ {s} : cache'[t] = cache[t] /\ watch'[t] = watch[t]
      /\ n > 0 /\ Len(watch'[s]) = n - 1 /\ cache'[s] = VersionAt(s, 1)
      /\ \A i \in 0..n - 1 : VersionAt(s, i)' = VersionAt(s, i + 1)
  BY <1>1, <1>2, SeeingShifts
<1>4. UNCHANGED mapperVars /\ \A t \in Service : P!IsMapped(t)' <=> P!IsMapped(t)
  BY DEF InformerSees, mapperVars, P!IsMapped
<1>5. \A t \in Service \ {s} : VersionsFollow(t)'
  BY <1>1, <1>3, <1>4 DEF VersionsFollow, VersionAt
<1>6. VersionsFollow(s)'
  <2>1. ASSUME NEW i \in 1..n - 1
        PROVE  /\ i < n - 1 => VersionAt(s, i)' # Absent
               /\ VersionAt(s, i - 1)' # Absent /\ VersionAt(s, i)' # Absent =>
                      /\ VersionAt(s, i)'.ports = VersionAt(s, i - 1)'.ports
                      /\ ~(/\ VersionAt(s, i - 1)'.managed = "true"
                           /\ VersionAt(s, i)'.managed # "true")
    <3>1. i + 1 \in 1..n /\ (i + 1) - 1 = i /\ i + 1 # 1 /\ (i < n - 1 => i + 1 < n)
      OBVIOUS
    <3>2. /\ i < n - 1 => VersionAt(s, i + 1) # Absent
          /\ VersionAt(s, i) # Absent /\ VersionAt(s, i + 1) # Absent =>
                 /\ VersionAt(s, i + 1).ports = VersionAt(s, i).ports
                 /\ ~(/\ VersionAt(s, i).managed = "true"
                      /\ VersionAt(s, i + 1).managed # "true")
      BY <1>1, <1>2, <3>1 DEF VersionsFollow
    <3>3. VersionAt(s, i)' = VersionAt(s, i + 1) /\ VersionAt(s, i - 1)' = VersionAt(s, i)
      BY <1>3
    <3> QED BY <3>2, <3>3
  <2>2. Len(watch[s])' = n - 1
    BY <1>3
  <2> QED BY <2>1, <2>2 DEF VersionsFollow
<1>7. \A t \in Service \ {s} : MappingFollows(t)'
  <2>1. PICK j \in Job : queue' = Enqueue(queue, j)
    <3>1. Head(watch[s]) = VersionAt(s, 1)
      BY <1>1, <1>2, <1>3 DEF VersionAt, TypeOK
    <3>2. Head(watch[s]) = Absent => cache[s] \in Object
      <4>1. 1 \in 1..n /\ VersionAt(s, 1 - 1) = cache[s]
        BY <1>3 DEF VersionAt
      <4>2. VersionAt(s, 1) = Absent => VersionAt(s, 1 - 1) # Absent
        BY <1>1, <1>2, <4>1 DEF Pipeline
      <4> QED BY <1>1, <3>1, <4>1, <4>2 DEF Version, TypeOK
    <3>3. Head(watch[s]) = Absent => RemoveServiceJob(s, cache[s].managed) \in Job
      BY <3>2, ObjectFields, JobsAre
    <3> QED BY <3>3, JobsAre DEF InformerSees
  <2>2. \A x : Contains(queue, x) => Contains(queue', x)
    BY <1>1, <2>1, QueueHolds DEF TypeOK
  <2> QED BY <1>1, <1>3, <1>4, <2>2 DEF MappingFollows, mapperVars
<1>8. MappingFollows(s)'
  <2> SUFFICES ASSUME P!IsMapped(s)
               PROVE  IF VersionAt(s, 1) = Absent
                        THEN watch'[s] = <<>> /\ Contains(queue', RemoveServiceJob(s, "true"))
                        ELSE /\ VersionAt(s, 1).managed = "true"
                             /\ VersionAt(s, 1).ports = services[s].ports
    BY <1>3, <1>4 DEF MappingFollows, mapperVars
  <2>1. watch[s] # <<>>
    BY <1>2, <1>3
  <2>2. cache[s] # Absent /\ cache[s].managed = "true" /\ cache[s].ports = services[s].ports
    BY <1>1, <2>1 DEF MappingFollows
  <2>3. VersionAt(s, 0) = cache[s] /\ 1 \in 1..n /\ 1 - 1 = 0
    BY <1>3 DEF VersionAt
  <2>4. CASE VersionAt(s, 1) # Absent
    BY <1>1, <1>2, <2>2, <2>3, <2>4 DEF VersionsFollow
  <2>5. CASE VersionAt(s, 1) = Absent
    <3>1. n = 1
      <4>1. 1 < n => VersionAt(s, 1) # Absent
        BY <1>1, <1>2, <2>3 DEF VersionsFollow
      <4>2. n > 0
        BY <1>3
      <4> QED BY <2>5, <4>1, <4>2
    <3>2. watch'[s] = <<>>
      <4>1. watch'[s] \in Seq(Version)
        BY <1>1, <1>2, SeeingShifts
      <4> QED BY <1>3, <3>1, <4>1
    <3>3. queue' = Enqueue(queue, RemoveServiceJob(s, "true"))
      <4>1. Head(watch[s]) = VersionAt(s, 1)
        BY <1>1, <1>2, <1>3 DEF VersionAt, TypeOK
      <4> QED BY <2>2, <2>5, <4>1 DEF InformerSees
    <3>4. Contains(queue', RemoveServiceJob(s, "true"))
      BY <1>1, <3>3, JobsAre, QueueHolds DEF TypeOK
    <3> QED BY <2>5, <3>2, <3>4
  <2> QED BY <2>4, <2>5
<1> QED BY <1>5, <1>6, <1>7, <1>8

LEMMA UserKeepsConfig ==
    ASSUME PortsFixed, TypeInv, ConfigInv, NEW s \in Service, User(s)
    PROVE  ConfigInv'
<1>1. /\ TypeOK /\ CallFollows
      /\ \A t \in Service : Pipeline(t) /\ VersionsFollow(t) /\ MappingFollows(t)
  BY DEF TypeInv, ConfigInv
<1>2. PICK o \in Version : UserOutcome(s, o)
  BY <1>1, UserDoes
<1>3. PICK n \in Nat : n = Len(watch[s])
  BY <1>1 DEF TypeOK
<1>4. /\ Write(s, o) /\ UNCHANGED <<cache, services, queue, agentCfg>>
      /\ call' = IF call # NoCall /\ call.svc = s THEN [call EXCEPT !.fresh = FALSE] ELSE call
  BY <1>2 DEF UserOutcome, informerVars, mapperVars
<1>5. /\ \A t \in Service \ {s} : watch'[t] = watch[t]
      /\ api[s] = VersionAt(s, n)
  BY <1>1, <1>3, <1>4, WriteAppends DEF Pipeline
<1>6. api[s] = Absent => o # Absent /\ ~RemovalPending(s)
  BY <1>2, ControllerAssumption DEF UserOutcome, PortsFixed
<1>7. api[s] # Absent /\ o # Absent => o.ports = api[s].ports /\ o.managed = api[s].managed
  BY <1>2, ControllerAssumption DEF UserOutcome, PortsFixed
<1>8. \A t \in Service : VersionsFollow(t)'
  BY <1>1, <1>4, <1>6, <1>7, WriteKeepsVersions DEF RemovalPending
<1>9. \A t \in Service : P!IsMapped(t)' <=> P!IsMapped(t)
  BY <1>4 DEF P!IsMapped
<1>10. P!IsMapped(s) => cache[s] # Absent
  <2> SUFFICES ASSUME P!IsMapped(s), cache[s] = Absent
               PROVE  FALSE
    OBVIOUS
  <2>1. watch[s] = <<>> /\ Contains(queue, RemoveServiceJob(s, "true"))
    BY <1>1 DEF MappingFollows
  <2>2. api[s] = Absent
    BY <1>3, <1>5, <2>1 DEF VersionAt
  <2>3. PICK i \in 1..Len(queue) : queue[i] = RemoveServiceJob(s, "true")
    BY <2>1 DEF Contains
  <2>4. queue[i].type = "RemoveService" /\ queue[i].svc = s
    BY <2>3 DEF RemoveServiceJob
  <2> QED BY <1>6, <2>2, <2>4 DEF RemovalPending
<1>11. \A t \in Service : MappingFollows(t)'
  BY <1>1, <1>4, <1>5, <1>9, <1>10 DEF MappingFollows
<1>12. CallFollows'
  <2>1. CASE call # NoCall /\ call.svc = s
    <3>1. call \in APICall /\ call' = [call EXCEPT !.fresh = FALSE]
      BY <1>1, <1>4, <2>1 DEF TypeOK
    <3>2. call'.fresh = FALSE
      BY <3>1 DEF APICall
    <3> QED BY <3>2 DEF CallFollows
  <2>2. CASE call # NoCall /\ call.svc # s
    <3>1. call.svc \in Service \ {s} /\ call' = call
      BY <1>1, <1>4, <2>2 DEF TypeOK, APICall
    <3> QED BY <1>1, <1>4, <1>5, <1>9, <3>1 DEF CallFollows
  <2>3. CASE call = NoCall
    BY <1>4, <2>3 DEF CallFollows
  <2> QED BY <2>1, <2>2, <2>3
<1>13. ConfigExclusive'
  BY <1>4 DEF ConfigInv, ConfigExclusive
<1> QED BY <1>8, <1>11, <1>12, <1>13 DEF ConfigInv

LEMMA SyncKeepsConfig ==
    ASSUME TypeInv, ConfigInv, RunSyncService
    PROVE  ConfigInv'
<1>1. /\ TypeOK /\ P!IndInv
      /\ \A t \in Service : Pipeline(t) /\ VersionsFollow(t) /\ MappingFollows(t)
  BY DEF TypeInv, ConfigInv
<1>2. queue # <<>> /\ Head(queue).type = "SyncService" /\ Head(queue).svc \in Service
  BY <1>1, QueueTyped, JobsAre DEF RunSyncService, Takes, TypeOK
<1>3. PICK s \in Service : s = Head(queue).svc
  BY <1>2
<1>4. /\ SyncOutcome(s) /\ call = NoCall /\ UNCHANGED <<watch, cache, agentCfg>>
      /\ queue' = Tail(queue) \/ queue' = Enqueue(Tail(queue), UpdateConfigJob)
  BY <1>1, <1>3, SyncDoes DEF apiVars
<1>5. ASSUME NEW t \in Service, Contains(queue, RemoveServiceJob(t, "true"))
      PROVE  Contains(queue', RemoveServiceJob(t, "true"))
  <2>1. Head(queue) = SyncServiceJob(s) /\ queue \in Seq(Job)
    BY <1>1, <1>2, <1>3, QueueTyped, JobsDiffer DEF TypeOK
  <2>2. Contains(Tail(queue), RemoveServiceJob(t, "true")) /\ Tail(queue) \in Seq(Job)
    BY <1>2, <1>5, <2>1, QueueHolds, QueueTyped, JobsDiffer
  <2>3. CASE queue' = Tail(queue)
    BY <2>2, <2>3
  <2>4. CASE queue' = Enqueue(Tail(queue), UpdateConfigJob)
    <3>1. \A x : Contains(Tail(queue), x) => Contains(Enqueue(Tail(queue), UpdateConfigJob), x)
      BY <2>2, QueueHolds, JobsAre
    <3> QED BY <2>2, <2>4, <3>1
  <2> QED BY <1>4, <2>3, <2>4
<1>6. /\ UNCHANGED mapperVars => UNCHANGED services
      /\ \A t \in Service : services'[t] = services[t] => (P!IsMapped(t)' <=> P!IsMapped(t))
  BY DEF mapperVars, P!IsMapped
<1>7. \A t \in Service : services'[t] = services[t] => VersionsFollow(t)' /\ MappingFollows(t)'
  BY <1>1, <1>4, <1>5, <1>6 DEF VersionsFollow, MappingFollows, VersionAt
<1>8. /\ \A t \in Service \ {s} : services'[t] = services[t]
      /\ VersionsFollow(s)' /\ MappingFollows(s)'
  <2>1. CASE UNCHANGED mapperVars
    BY <1>6, <1>7, <2>1
  <2>2. CASE P!UnmapService(s)
    <3>1. (\A t \in Service \ {s} : services'[t] = services[t]) /\ ~P!IsMapped(s)'
      BY <1>1, <2>2, UnmapsOne DEF P!IsMapped
    <3>2. VersionsFollow(s)'
      BY <1>1, <1>4, <3>1 DEF VersionsFollow, VersionAt
    <3> QED BY <3>1, <3>2 DEF MappingFollows
  <2>3. CASE /\ cache[s] \in Object /\ cache[s].lb /\ cache[s].managed = "true"
             /\ P!MapService(s, cache[s].ports, cache[s].annot)
    <3>1. /\ \A t \in Service \ {s} : services'[t] = services[t]
          /\ services'[s] = services[s] \/ services'[s].ports = cache[s].ports
      BY <1>1, <2>3, MapsOne
    <3>2. MappingFollows(s)'
      <4>1. CASE services'[s] = services[s]
        BY <1>7, <4>1
      <4>2. CASE services'[s].ports = cache[s].ports
        BY <1>4, <2>3, <4>2, ObjectFields DEF MappingFollows
      <4> QED BY <3>1, <4>1, <4>2
    <3>3. VersionsFollow(s)'
      BY <1>1, <1>4, <2>3 DEF VersionsFollow, VersionAt
    <3> QED BY <3>1, <3>2, <3>3
  <2> QED BY <1>4, <2>1, <2>2, <2>3 DEF SyncOutcome
<1>9. CallFollows'
  <2>1. ASSUME NEW o, NEW update, Asks(s, o, update), cache[s] \in Object,
               \/ o.managed = "true" \/ o.managed = cache[s].managed
               \/ ~cache[s].lb /\ ~P!IsMapped(s)'
        PROVE  CallFollows'
    <3>1. call'.svc = s /\ call'.obj = o /\ (call'.fresh => watch[s] = <<>>)
      BY <2>1 DEF Asks, Calls
    <3>2. o.ports = cache[s].ports /\ cache[s] # Absent
      BY <2>1, ObjectFields DEF Asks
    <3> QED BY <1>4, <2>1, <3>1, <3>2 DEF CallFollows
  <2>2. P!UnmapService(s) => ~P!IsMapped(s)'
    BY <1>1, UnmapsOne DEF P!IsMapped
  <2>3. UNCHANGED call => CallFollows'
    BY <1>4 DEF CallFollows
  <2> QED BY <1>4, <2>1, <2>2, <2>3 DEF SyncOutcome
<1>10. ConfigExclusive'
  BY <1>4 DEF ConfigInv, ConfigExclusive
<1> QED BY <1>7, <1>8, <1>9, <1>10 DEF ConfigInv

LEMMA RemoveKeepsConfig ==
    ASSUME TypeInv, ConfigInv, RunRemoveService
    PROVE  ConfigInv'
<1>1. TypeOK /\ \A t \in Service : VersionsFollow(t) /\ MappingFollows(t)
  BY DEF TypeInv, ConfigInv
<1>2. queue # <<>> /\ Head(queue).type = "RemoveService" /\ call = NoCall
  BY DEF RunRemoveService, Takes
<1>3. /\ queue \in Seq(Job) /\ Tail(queue) \in Seq(Job) /\ Head(queue) \in Job
      /\ Head(queue).svc \in Service
      /\ Head(queue) = RemoveServiceJob(Head(queue).svc, Head(queue).managed)
  BY <1>1, <1>2, QueueTyped, JobsAre, JobsDiffer DEF TypeOK
<1>4. PICK s \in Service, m \in {Head(queue).managed} :
          Head(queue) = RemoveServiceJob(s, m) /\ s = Head(queue).svc
  BY <1>3
<1>5. UNCHANGED <<watch, cache, call, agentCfg>>
  BY DEF RunRemoveService, apiVars, informerVars
<1>6. CallFollows' /\ ConfigExclusive'
  BY <1>2, <1>5 DEF CallFollows, ConfigInv, ConfigExclusive
<1>7. CASE m = "true"
  <2>1. /\ P!UnmapService(s)
        /\ queue' = Enqueue(Enqueue(Tail(queue), CleanupJob), UpdateConfigJob)
    BY <1>4, <1>7, SameMapper DEF RunRemoveService
  <2>2. (\A t \in Service \ {s} : services'[t] = services[t]) /\ ~P!IsMapped(s)'
    BY <1>1, <2>1, UnmapsOne DEF P!IsMapped
  <2>3. ASSUME NEW t \in Service \ {s}, Contains(queue, RemoveServiceJob(t, "true"))
        PROVE  Contains(queue', RemoveServiceJob(t, "true"))
    <3>1. Contains(Tail(queue), RemoveServiceJob(t, "true"))
      <4>1. RemoveServiceJob(t, "true") # Head(queue)
        BY <1>4, JobsDiffer
      <4> QED BY <1>2, <1>3, <2>3, <4>1, QueueHolds
    <3>2. Enqueue(Tail(queue), CleanupJob) \in Seq(Job)
      BY <1>3, JobsAre, QueueTyped
    <3> QED BY <1>3, <2>1, <3>1, <3>2, JobsAre, QueueHolds
  <2>4. VersionsFollow(s)' /\ MappingFollows(s)'
    BY <1>1, <1>5, <2>2 DEF VersionsFollow, MappingFollows, VersionAt
  <2>5. ASSUME NEW t \in Service \ {s}
        PROVE  VersionsFollow(t)' /\ MappingFollows(t)'
    BY <1>1, <1>5, <2>2, <2>3 DEF VersionsFollow, MappingFollows, VersionAt, P!IsMapped
  <2> QED BY <1>6, <2>4, <2>5 DEF ConfigInv
<1>8. CASE m # "true"
  <2>1. UNCHANGED mapperVars /\ queue' = Tail(queue)
    BY <1>4, <1>8 DEF RunRemoveService
  <2>2. ASSUME NEW t \in Service, Contains(queue, RemoveServiceJob(t, "true"))
        PROVE  Contains(queue', RemoveServiceJob(t, "true"))
    <3>1. RemoveServiceJob(t, "true") # Head(queue)
      BY <1>4, <1>8, JobsDiffer
    <3> QED BY <1>2, <1>3, <2>1, <2>2, <3>1, QueueHolds
  <2>3. ASSUME NEW t \in Service
        PROVE  VersionsFollow(t)' /\ MappingFollows(t)'
    BY <1>1, <1>5, <2>1, <2>2 DEF VersionsFollow, MappingFollows, VersionAt, P!IsMapped,
                                  mapperVars
  <2> QED BY <1>6, <2>3 DEF ConfigInv
<1> QED BY <1>7, <1>8

(* The model that is generated is what the mapper has.                     *)
LEMMA UpdateKeepsExclusive ==
    ASSUME TypeInv, ConfigInv, RunUpdateConfig
    PROVE  ConfigExclusive'
<1>1. TypeOK /\ P!TypeOK /\ P!Exclusive /\ \A t \in Service : MappingFollows(t)
  BY SameMapper, MapperAssumptionHolds, P!InvImpliesExclusive DEF TypeInv, ConfigInv, TypeOK
<1>2. CASE ModelFails
  BY <1>2 DEF RunUpdateConfig, ConfigInv, ConfigExclusive
<1>3. CASE ~ModelFails
  <2>1. PICK m : m = GeneratedModel
    OBVIOUS
  <2>2. PICK failed \in SUBSET Agent :
            agentCfg' = [a \in Agent |-> IF a \in failed THEN agentCfg[a] ELSE m]
    BY <1>3, <2>1 DEF RunUpdateConfig, PushConfig
  <2>3. ASSUME NEW s \in Service
        PROVE  /\ m[s].l3port = services[s].l3port
               /\ P!IsMapped(s) => m[s].ports = services[s].ports
    <3>1. CASE P!IsMapped(s)
      <4>1. PM!IsMapped(s) /\ cache[s] # Absent
        BY <1>3, <3>1 DEF ModelFails, PM!IsMapped, P!IsMapped
      <4>2. m[s] = [l3port |-> services[s].l3port, ports |-> cache[s].ports]
        BY <2>1, <4>1 DEF GeneratedModel
      <4> QED BY <1>1, <4>1, <4>2 DEF MappingFollows
    <3>2. CASE ~P!IsMapped(s)
      <4>1. m[s] = [l3port |-> NoPort, ports |-> {}]
        BY <2>1, <3>2 DEF GeneratedModel, PM!IsMapped, P!IsMapped, PM!Unmapped
      <4> QED BY <3>2, <4>1 DEF P!IsMapped
    <3> QED BY <3>1, <3>2
  <2>4. ASSUME NEW s \in Service, NEW t \in Service, s # t, m[s].l3port # NoPort,
               m[s].l3port = m[t].l3port
        PROVE  m[s].ports \cap m[t].ports = {}
    BY <1>1, <2>3, <2>4 DEF P!Exclusive, P!IsMapped
  <2> QED BY <2>2, <2>4 DEF ConfigInv, ConfigExclusive
<1> QED BY <1>2, <1>3

LEMMA NextKeepsConfig == PortsFixed /\ TypeInv /\ ConfigInv /\ [Next]_vars => ConfigInv'
<1> SUFFICES ASSUME PortsFixed, TypeInv, ConfigInv, [Next]_vars
             PROVE  ConfigInv'
  OBVIOUS
<1>1. /\ TypeOK /\ CallFollows /\ ConfigExclusive
      /\ \A t \in Service : Pipeline(t) /\ VersionsFollow(t) /\ MappingFollows(t)
  BY DEF TypeInv, ConfigInv
<1> DEFINE RemovalsStay ==
        \A t \in Service : Contains(queue, RemoveServiceJob(t, "true"))
                             => Contains(queue', RemoveServiceJob(t, "true"))
<1>2. ASSUME UNCHANGED <<watch, cache, services, agentCfg>>, RemovalsStay,
             call' = call \/ call' = NoCall
      PROVE  ConfigInv'
  <2>1. \A t \in Service : VersionsFollow(t)' /\ MappingFollows(t)'
    BY <1>1, <1>2 DEF VersionsFollow, MappingFollows, VersionAt, P!IsMapped
  <2>2. CallFollows' /\ ConfigExclusive'
    BY <1>1, <1>2 DEF CallFollows, ConfigExclusive, P!IsMapped
  <2> QED BY <2>1, <2>2 DEF ConfigInv
<1>3. /\ UNCHANGED queue => RemovalsStay
      /\ \A j \in Job : queue' = Enqueue(queue, j) => RemovalsStay
      /\ (queue # <<>> /\ Head(queue).type # "RemoveService" /\ queue' = Tail(queue)) => RemovalsStay
  <2>1. queue \in Seq(Job)
    BY <1>1 DEF TypeOK
  <2>2. \A t \in Service : RemoveServiceJob(t, "true").type = "RemoveService"
    BY DEF RemoveServiceJob
  <2>3. UNCHANGED queue => RemovalsStay
    OBVIOUS
  <2>4. ASSUME NEW j \in Job, queue' = Enqueue(queue, j)
        PROVE  RemovalsStay
    <3>1. \A x : Contains(queue, x) => Contains(Enqueue(queue, j), x)
      BY <2>1, QueueHolds
    <3> QED BY <2>4, <3>1
  <2>5. ASSUME queue # <<>>, Head(queue).type # "RemoveService", queue' = Tail(queue)
        PROVE  RemovalsStay
    <3>1. \A x : Contains(queue, x) /\ x # Head(queue) => Contains(Tail(queue), x)
      BY <2>1, <2>5, QueueHolds
    <3>2. \A t \in Service : RemoveServiceJob(t, "true") # Head(queue)
      BY <2>2, <2>5
    <3> QED BY <2>5, <3>1, <3>2
  <2> QED BY <2>3, <2>4, <2>5
<1> HIDE DEF RemovalsStay
<1>4. ASSUME NEW s \in Service, User(s)
      PROVE  ConfigInv'
  BY <1>4, UserKeepsConfig
<1>5. ASSUME NEW s \in Service, InformerSees(s)
      PROVE  ConfigInv'
  <2>1. /\ watch[s] # <<>> /\ UNCHANGED <<services, call, agentCfg>>
        /\ \A t \in Service \ {s} : cache'[t] = cache[t] /\ watch'[t] = watch[t]
    BY <1>1, <1>5, SeeingShifts DEF InformerSees, mapperVars, TypeOK
  <2>2. CallFollows'
    <3>1. call # NoCall /\ call.fresh => call.svc \in Service \ {s}
      BY <1>1, <2>1 DEF CallFollows, TypeOK, APICall
    <3> QED BY <1>1, <2>1, <3>1 DEF CallFollows, P!IsMapped
  <2>3. ConfigExclusive'
    BY <1>1, <2>1 DEF ConfigExclusive
  <2> QED BY <1>5, <2>2, <2>3, SeeingFollows DEF ConfigInv
<1>6. ASSUME NEW s \in Service, InformerAdds(s) \/ InformerResyncs(s)
      PROVE  ConfigInv'
  BY <1>2, <1>3, <1>6, JobsAre DEF InformerAdds, InformerResyncs, mapperVars, apiVars,
                                   informerVars
<1>7. CASE HandleAuxUpdated \/ PeriodicCleanup
  BY <1>2, <1>3, <1>7, JobsAre DEF HandleAuxUpdated, PeriodicCleanup, mapperVars, apiVars,
                                   informerVars
<1>8. CASE RunSyncService
  BY <1>8, SyncKeepsConfig
<1>9. CASE WorkerWrites
  <2>1. /\ call # NoCall /\ call.fresh /\ Write(call.svc, call.obj) /\ call' = NoCall
        /\ queue' = IF call.update THEN Enqueue(queue, UpdateConfigJob) ELSE queue
        /\ UNCHANGED <<services, cache, agentCfg>>
    BY <1>9 DEF WorkerWrites, informerVars, mapperVars
  <2>2. PICK s \in Service, o \in Object : s = call.svc /\ o = call.obj
    BY <1>1, <2>1 DEF TypeOK, APICall
  <2>3. /\ watch[s] = <<>> /\ cache[s] # Absent /\ o.ports = cache[s].ports
        /\ cache[s].managed = "true" /\ o.managed # "true" => ~cache[s].lb /\ ~P!IsMapped(s)
    BY <1>1, <2>1, <2>2 DEF CallFollows
  <2>4. api[s] = cache[s]
    BY <1>1, <2>3 DEF Pipeline, VersionAt
  <2>5. \A t \in Service : VersionsFollow(t)'
    <3>1. o \in Version
      BY DEF Version
    <3> QED BY <1>1, <2>1, <2>2, <2>3, <2>4, <3>1, WriteKeepsVersions
  <2>6. \A t \in Service : MappingFollows(t)'
    <3>1. \A t \in Service \ {s} : watch'[t] = watch[t]
      BY <1>1, <2>1, <2>2 DEF Write, TypeOK
    <3>2. RemovalsStay
      BY <1>3, <2>1, JobsAre
    <3> QED BY <1>1, <2>1, <2>3, <3>1, <3>2 DEF MappingFollows, P!IsMapped, RemovalsStay
  <2>7. CallFollows' /\ ConfigExclusive'
    BY <1>1, <2>1 DEF CallFollows, ConfigExclusive
  <2> QED BY <2>5, <2>6, <2>7 DEF ConfigInv
<1>10. CASE WorkerWriteFails
  BY <1>2, <1>3, <1>10 DEF WorkerWriteFails, mapperVars, apiVars, informerVars
<1>11. CASE RunRemoveService
  BY <1>11, RemoveKeepsConfig
<1>12. CASE RunRemoveCleanupBarrier \/ RunCleanup
  <2>1. UNCHANGED services
    BY <1>12, SameMapper DEF RunRemoveCleanupBarrier, RunCleanup, mapperVars, P!CleanupPorts
  <2>2. /\ queue # <<>> /\ Head(queue).type # "RemoveService" /\ queue' = Tail(queue)
        /\ UNCHANGED <<watch, cache, agentCfg, call>>
    BY <1>12 DEF RunRemoveCleanupBarrier, RunCleanup, Takes, apiVars, informerVars
  <2> QED BY <1>2, <1>3, <2>1, <2>2
<1>13. CASE RunUpdateConfig
  <2>1. /\ queue # <<>> /\ Head(queue).type # "RemoveService" /\ queue' = Tail(queue)
        /\ UNCHANGED <<watch, cache, services, call>>
    BY <1>13 DEF RunUpdateConfig, Takes, apiVars, informerVars, mapperVars
  <2>2. RemovalsStay
    BY <1>3, <2>1
  <2>3. \A t \in Service : VersionsFollow(t)' /\ MappingFollows(t)'
    BY <1>1, <2>1, <2>2 DEF VersionsFollow, MappingFollows, VersionAt, P!IsMapped, RemovalsStay
  <2>4. CallFollows'
    BY <1>1, <2>1 DEF CallFollows, P!IsMapped
  <2> QED BY <1>13, <2>3, <2>4, UpdateKeepsExclusive DEF ConfigInv
<1>14. CASE Restart
  <2>1. /\ services' = [s \in Service |-> PM!Unmapped] /\ watch' = [s \in Service |-> <<>>]
        /\ call' = NoCall /\ UNCHANGED agentCfg
    BY <1>14 DEF Restart, PM!NewPortMapper
  <2>2. \A t \in Service : ~P!IsMapped(t)'
    BY <2>1 DEF P!IsMapped, PM!Unmapped
  <2> QED BY <1>1, <2>1, <2>2 DEF ConfigInv, VersionsFollow, MappingFollows, CallFollows,
                                  ConfigExclusive
<1>15. CASE PortVanishes
  <2>1. UNCHANGED services
    BY <1>15 DEF PortVanishes, PM!PortVanishes
  <2> QED BY <1>2, <1>3, <1>15, <2>1 DEF PortVanishes, apiVars, informerVars, workerVars
<1>16. CASE UNCHANGED vars
  BY <1>2, <1>3, <1>16 DEF vars, mapperVars, apiVars, informerVars, workerVars
<1> QED BY <1>4, <1>5, <1>6, <1>7, <1>8, <1>9, <1>10, <1>11, <1>12, <1>13, <1>14, <1>15,
           <1>16 DEF Next, Worker

(* As long as nobody changes the ports of a service, disowns it, or        *)
(* creates it again before its removal is handled, no agent is ever told   *)
(* to forward an L4 port of an address to two services: whatever jobs and  *)
(* pushes fail, and whenever the controller restarts.                      *)
THEOREM ConfigsExclusive == PortsFixed => (Spec => []ConfigExclusive)
<1>1. Init => ConfigInv
  <2> SUFFICES ASSUME Init PROVE ConfigInv
    OBVIOUS
  <2>1. /\ services = [s \in Service |-> PM!Unmapped] /\ watch = [s \in Service |-> <<>>]
        /\ call = NoCall /\ agentCfg = [a \in Agent |-> [s \in Service |-> PM!Unmapped]]
    BY DEF Init, PM!Init
  <2>2. \A t \in Service : ~P!IsMapped(t)
    BY <2>1 DEF P!IsMapped, PM!Unmapped
  <2> QED BY <2>1, <2>2 DEF ConfigInv, VersionsFollow, MappingFollows, CallFollows,
                            ConfigExclusive, PM!Unmapped
<1>2. ConfigInv => ConfigExclusive
  BY DEF ConfigInv
<1>3. SUFFICES ASSUME PortsFixed PROVE Spec => []ConfigExclusive
  OBVIOUS
<1>4. TypeInv /\ ConfigInv /\ [Next]_vars => ConfigInv'
  BY <1>3, NextKeepsConfig
<1> QED BY <1>1, <1>2, <1>4, TypesHold, PTL DEF Spec

=============================================================================
