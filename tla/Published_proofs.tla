--------------------------- MODULE Published_proofs ---------------------------
(***************************************************************************)
(* Proofs about what services publish (Controller), over whole queues of   *)
(* jobs: after a start, until the first sync of every listed service, and  *)
(* with versions of the services on their way to the cache.                *)
(***************************************************************************)
EXTENDS Controller_proofs

-----------------------------------------------------------------------------
(* The queue, job by job.  A step takes the first k jobs (none or one) and *)
(* adds jobs of J at the end.                                              *)
Continues(q, r, k, J) ==
    /\ r \in Seq(Job) /\ Len(q) <= Len(r) + k
    /\ \A i \in 1..Len(r) : IF i + k <= Len(q) THEN r[i] = q[i + k] ELSE r[i] \in J

LEMMA EnqueueContinues ==
    ASSUME NEW q \in Seq(Job), NEW j \in Job
    PROVE  /\ Continues(q, Enqueue(q, j), 0, {j})
           /\ j.type \in {"SyncService", "RemoveService"} =>
                  Enqueue(q, j) = Append(q, j)
<1>1. Append(q, j) \in Seq(Job) /\ Len(Append(q, j)) = Len(q) + 1
  OBVIOUS
<1>2. \A i \in 1..Len(q) + 1 : Append(q, j)[i] = IF i <= Len(q) THEN q[i] ELSE j
  OBVIOUS
<1>3. Continues(q, q, 0, {j}) /\ Continues(q, Append(q, j), 0, {j})
  BY <1>1, <1>2 DEF Continues
<1>4. j.type \in {"SyncService", "RemoveService"} =>
          j \notin {CleanupJob, UpdateConfigJob, RemoveCleanupBarrierJob}
  BY DEF CleanupJob, UpdateConfigJob, RemoveCleanupBarrierJob
<1> QED BY <1>3, <1>4 DEF Enqueue

LEMMA TailContinues ==
    ASSUME NEW q \in Seq(Job), q # <<>>
    PROVE  /\ Continues(q, Tail(q), 1, {})
           /\ Head(q) = q[1] /\ q[1] \in Job /\ Len(q) \in Nat \ {0}
BY DEF Continues

LEMMA ContinuesFurther ==
    ASSUME NEW q \in Seq(Job), NEW r \in Seq(Job), NEW u \in Seq(Job), NEW k \in {0, 1},
           NEW J, NEW K, Continues(q, r, k, J), Continues(r, u, 0, K)
    PROVE  Continues(q, u, k, J \cup K)
<1> SUFFICES ASSUME NEW i \in 1..Len(u)
             PROVE  IF i + k <= Len(q) THEN u[i] = q[i + k] ELSE u[i] \in J \cup K
  BY DEF Continues
<1>1. IF i <= Len(r) THEN u[i] = r[i] ELSE u[i] \in K
  BY DEF Continues
<1>2. i \in 1..Len(r) => IF i + k <= Len(q) THEN r[i] = q[i + k] ELSE r[i] \in J
  BY DEF Continues
<1>3. i \notin 1..Len(r) => ~(i + k <= Len(q))
  BY DEF Continues
<1> QED BY <1>1, <1>2, <1>3

(* The shapes a step of the queue has.                                     *)
LEMMA QueueContinues ==
    ASSUME queue \in Seq(Job)
    PROVE  /\ queue' = queue => Continues(queue, queue', 0, {})
           /\ \A j \in Job : queue' = Enqueue(queue, j) => Continues(queue, queue', 0, {j})
           /\ queue # <<>> =>
                  /\ Head(queue) = queue[1] /\ queue[1] \in Job
                  /\ queue' = Tail(queue) => Continues(queue, queue', 1, {})
                  /\ \A j \in Job :
                         queue' = Enqueue(Tail(queue), j) => Continues(queue, queue', 1, {j})
                  /\ queue' = Enqueue(Enqueue(Tail(queue), CleanupJob), UpdateConfigJob)
                         => Continues(queue, queue', 1, {CleanupJob, UpdateConfigJob})
<1>1. queue' = queue => Continues(queue, queue', 0, {})
  BY DEF Continues
<1>2. \A j \in Job : queue' = Enqueue(queue, j) => Continues(queue, queue', 0, {j})
  BY EnqueueContinues
<1>3. ASSUME queue # <<>>
      PROVE  /\ Continues(queue, Tail(queue), 1, {}) /\ Tail(queue) \in Seq(Job)
             /\ Head(queue) = queue[1] /\ queue[1] \in Job
  BY <1>3, TailContinues DEF Continues
<1>4. ASSUME queue # <<>>, NEW j \in Job
      PROVE  /\ Continues(queue, Enqueue(Tail(queue), j), 1, {j})
             /\ Enqueue(Tail(queue), j) \in Seq(Job)
  <2>1. Continues(Tail(queue), Enqueue(Tail(queue), j), 0, {j})
    BY <1>3, <1>4, EnqueueContinues
  <2>2. Enqueue(Tail(queue), j) \in Seq(Job)
    BY <1>3, <1>4, QueueTyped
  <2>3. Continues(queue, Enqueue(Tail(queue), j), 1, {} \cup {j})
    BY <1>3, <1>4, <2>1, <2>2, ContinuesFurther
  <2>4. {} \cup {j} = {j}
    OBVIOUS
  <2> QED BY <2>2, <2>3, <2>4
<1>5. ASSUME queue # <<>>
      PROVE  Continues(queue, Enqueue(Enqueue(Tail(queue), CleanupJob), UpdateConfigJob), 1,
                       {CleanupJob, UpdateConfigJob})
  <2> DEFINE r == Enqueue(Tail(queue), CleanupJob)
  <2>1. Continues(queue, r, 1, {CleanupJob}) /\ r \in Seq(Job)
    BY <1>4, <1>5, JobsAre
  <2>2. /\ Continues(r, Enqueue(r, UpdateConfigJob), 0, {UpdateConfigJob})
        /\ Enqueue(r, UpdateConfigJob) \in Seq(Job)
    BY <2>1, EnqueueContinues, QueueTyped, JobsAre
  <2>3. Continues(queue, Enqueue(r, UpdateConfigJob), 1, {CleanupJob} \cup {UpdateConfigJob})
    BY <2>1, <2>2, ContinuesFurther
  <2>4. {CleanupJob} \cup {UpdateConfigJob} = {CleanupJob, UpdateConfigJob}
    OBVIOUS
  <2> QED BY <2>3, <2>4
<1> QED BY <1>1, <1>2, <1>3, <1>4, <1>5

(* A job stays in the queue until it is the first and taken.               *)
LEMMA JobsStay ==
    ASSUME queue \in Seq(Job), NEW k \in {0, 1}, NEW J, Continues(queue, queue', k, J),
           NEW x, k = 1 => queue[1] # x
    PROVE  /\ \A i \in 1..Len(queue) : queue[i] = x =>
                  i - k \in 1..Len(queue') /\ queue'[i - k] = x
           /\ Contains(queue, x) => Contains(queue', x)
<1>1. ASSUME NEW i \in 1..Len(queue), queue[i] = x
      PROVE  i - k \in 1..Len(queue') /\ queue'[i - k] = x
  <2>1. i - k \in 1..Len(queue') /\ (i - k) + k = i
    BY <1>1 DEF Continues
  <2> QED BY <1>1, <2>1 DEF Continues
<1> QED BY <1>1 DEF Contains

-----------------------------------------------------------------------------
(* What a sync job does to the mapper and asks of the API server, field by *)
(* field; c is the service as the cache has it.                            *)
Sends(s, o, managed, annot, ingress) ==
    /\ \E update \in BOOLEAN : Calls(s, o, update)
    /\ SameBut(o, cache[s])
    /\ o.managed = managed /\ o.annot = annot /\ o.ingress = ingress

Skips(s) == ~IsServiceManaged(cache[s]) /\ UNCHANGED mapperVars /\ UNCHANGED call

TakesOver(s, c) ==
    /\ c.lb /\ c.managed = "unset" /\ UNCHANGED mapperVars
    /\ \E o : Sends(s, o, "true", c.annot, c.ingress)

Clears(s, c) ==
    /\ c.managed = "true" /\ c.ingress # NoPort /\ (~c.lb \/ c.annot = NoPort)
    /\ UNCHANGED mapperVars
    /\ \E o : Sends(s, o, "true", c.annot, NoPort)

Releases(s, c) ==
    /\ c.managed = "true" /\ ~c.lb /\ c.ingress = NoPort /\ P!UnmapService(s)
    /\ \E o : Sends(s, o, "unset", NoPort, NoPort)

Maps(s, c) ==
    /\ c.managed = "true" /\ c.lb /\ (c.annot # NoPort \/ c.ingress = NoPort)
    /\ P!MapService(s, c.ports, c.annot)

MapFails(s) == UNCHANGED services /\ UNCHANGED call /\ (Fault \/ QuotaUsedUp)

MapsTo(s, c, port) ==
    /\ services' = [services EXCEPT ![s] = [l3port |-> port, ports |-> c.ports]]
    /\ IF port # c.annot
         THEN \E o : Sends(s, o, "true", IF c.ingress = NoPort THEN port ELSE c.annot, NoPort)
         ELSE UNCHANGED call \/ \E o : Sends(s, o, "true", port, port)

SyncEffect(s) ==
    \/ Skips(s)
    \/ /\ cache[s] \in Object
       /\ \/ TakesOver(s, cache[s])
          \/ Clears(s, cache[s])
          \/ Releases(s, cache[s])
          \/ /\ Maps(s, cache[s])
             /\ MapFails(s) \/ \E port \in L3Port : MapsTo(s, cache[s], port)

LEMMA MappingTakesEffect ==
    ASSUME TypeOK, P!IndInv, NEW s \in Service, cache[s] \in Object,
           CanServiceBeManaged(cache[s]), IsServiceManaged(cache[s]), MapService(s)
    PROVE  Maps(s, cache[s]) /\ (MapFails(s) \/ \E port \in L3Port : MapsTo(s, cache[s], port))
<1> DEFINE c == cache[s]
<1>1. /\ c \in Object /\ c.lb /\ c.managed = "true" /\ c.ports \in P!PortSets
      /\ c.annot \in L3Port \cup {NoPort} /\ c.ingress \in L3Port \cup {NoPort}
  BY ObjectFields, SameMapper DEF CanServiceBeManaged, IsServiceManaged
<1>2. Maps(s, c)
  BY <1>1, SameMapper DEF MapService, Maps
<1>3. PICK port : /\ port = services'[s].l3port
                  /\ IF reply'.err
                       THEN /\ Fault \/ QuotaUsedUp
                            /\ queue' = Tail(queue)
                            /\ UNCHANGED call
                       ELSE IF port # c.annot
                         THEN /\ Calls(s, Remapped(c, port), FALSE)
                              /\ queue' = Tail(queue)
                              /\ NoFault
                         ELSE \/ UpdateServiceStatus(s) /\ NoFault
                              \/ /\ IF HasExternalAddress(port) THEN Fault ELSE NoFault
                                 /\ queue' = Tail(queue)
                                 /\ UNCHANGED call
  BY DEF MapService
<1>4. \/ P!FailMapping(s)
      \/ \E p \in issued' : P!Assign(allocations, s, c.ports, p)
  BY <1>1, <1>2, MapperAssumptionHolds, P!MapServiceOutcome DEF Maps
<1>5. issued' \subseteq L3Port
  BY <1>1, <1>2, MapperAssumptionHolds, P!MapServiceOutcome DEF Maps
<1>6. CASE P!FailMapping(s)
  <2>1. reply'.err /\ UNCHANGED services
    BY <1>6 DEF P!FailMapping, P!Reply, P!mapperVars
  <2> QED BY <1>2, <1>3, <2>1 DEF MapFails
<1>7. ASSUME NEW p \in L3Port, P!Assign(allocations, s, c.ports, p)
      PROVE  MapsTo(s, c, p)
  <2>1. /\ services' = [services EXCEPT ![s] = [l3port |-> p, ports |-> c.ports]]
        /\ ~reply'.err
    BY <1>7 DEF P!Assign, P!Reply
  <2>2. services'[s].l3port = p
    <3>1. s \in DOMAIN services
      BY DEF TypeOK, PM!TypeOK
    <3> QED BY <2>1, <3>1
  <2>3. CASE p # c.annot
    <3>1. Calls(s, Remapped(c, p), FALSE)
      BY <1>3, <2>1, <2>2, <2>3
    <3>2. LET o == Remapped(c, p)
          IN  /\ SameBut(o, c) /\ o.managed = "true" /\ o.ingress = NoPort
              /\ o.annot = IF c.ingress = NoPort THEN p ELSE c.annot
      BY <1>1, IngressChanged, AnnotationChanged DEF Remapped
    <3> QED BY <2>1, <2>3, <3>1, <3>2 DEF MapsTo, Sends
  <2>4. CASE p = c.annot
    <3>1. UNCHANGED call \/ Calls(s, [c EXCEPT !.ingress = c.annot], TRUE)
      BY <1>3, <2>1, <2>2, <2>4 DEF UpdateServiceStatus
    <3>2. LET o == [c EXCEPT !.ingress = c.annot]
          IN  SameBut(o, c) /\ o.managed = "true" /\ o.ingress = p /\ o.annot = p
      BY <1>1, <2>4, IngressChanged
    <3> QED BY <2>1, <2>4, <3>1, <3>2 DEF MapsTo, Sends
  <2> QED BY <2>3, <2>4
<1> QED BY <1>2, <1>4, <1>5, <1>6, <1>7

LEMMA SyncTakesEffect ==
    ASSUME TypeOK, P!IndInv, RunSyncService
    PROVE  \E s \in Service :
               /\ SyncEffect(s) /\ call = NoCall
               /\ queue # <<>> /\ queue[1] = SyncServiceJob(s)
               /\ Continues(queue, queue', 1, {UpdateConfigJob})
               /\ unsynced' = IF faults' = faults THEN unsynced \ {s} ELSE unsynced
               /\ UNCHANGED <<api, watch, cache, adds, allowCleanups, agentCfg, edits, crashes>>
<1>1. queue \in Seq(Job) /\ queue # <<>> /\ Head(queue).type = "SyncService" /\ call = NoCall
  BY DEF RunSyncService, Takes, TypeOK
<1>2. PICK s \in Service : s = Head(queue).svc /\ Head(queue) = SyncServiceJob(s)
  BY <1>1, QueueTyped, JobsAre, JobsDiffer
<1> DEFINE c == cache[s]
<1>3. /\ queue' = Tail(queue) \/ queue' = Enqueue(Tail(queue), UpdateConfigJob)
      /\ unsynced' = IF faults' = faults THEN unsynced \ {s} ELSE unsynced
      /\ UNCHANGED <<api, watch, cache, adds, allowCleanups, agentCfg, edits, crashes>>
  BY <1>2, SyncDoes DEF RunSyncService, apiVars
<1>4. Continues(queue, queue', 1, {UpdateConfigJob})
  <2>1. Continues(queue, Tail(queue), 1, {}) => Continues(queue, Tail(queue), 1, {UpdateConfigJob})
    BY <1>1, QueueTyped DEF Continues
  <2>2. queue' = Tail(queue) => Continues(queue, queue', 1, {UpdateConfigJob})
    BY <1>1, <2>1, TailContinues
  <2>3. queue' = Enqueue(Tail(queue), UpdateConfigJob) =>
            Continues(queue, queue', 1, {UpdateConfigJob})
    BY <1>1, QueueContinues, JobsAre
  <2> QED BY <1>3, <2>2, <2>3
<1>5. c # Absent => c \in Object
  BY DEF TypeOK, Version
<1>6. SyncEffect(s)
  <2>1. CASE /\ ~CanServiceBeManaged(c) /\ ~IsServiceManaged(c)
             /\ queue' = Tail(queue) /\ UNCHANGED <<mapperVars, call, faults>>
    BY <2>1 DEF SyncEffect, Skips
  <2>2. CASE ~CanServiceBeManaged(c) /\ IsServiceManaged(c) /\ ReleaseService(s)
    <3>1. c \in Object /\ c.managed = "true" /\ ~c.lb
      BY <1>5, <2>2 DEF CanServiceBeManaged, IsServiceManaged
    <3>2. CASE c.ingress # NoPort
      <4>1. /\ SameBut([c EXCEPT !.ingress = NoPort], c)
            /\ LET o == [c EXCEPT !.ingress = NoPort]
               IN  o.managed = "true" /\ o.annot = c.annot /\ o.ingress = NoPort
        BY <3>1, IngressChanged
      <4>2. Calls(s, [c EXCEPT !.ingress = NoPort], FALSE) /\ UNCHANGED mapperVars
        BY <2>2, <3>2 DEF ReleaseService
      <4> QED BY <3>1, <3>2, <4>1, <4>2 DEF SyncEffect, Clears, Sends
    <3>3. CASE c.ingress = NoPort
      <4>1. LET o == [c EXCEPT !.managed = "unset", !.annot = NoPort]
            IN  SameBut(o, c) /\ o.managed = "unset" /\ o.annot = NoPort /\ o.ingress = NoPort
        <5>1. LET o == [c EXCEPT !.managed = "unset", !.annot = NoPort]
              IN  o.managed = "unset" /\ o.annot = NoPort
          BY <3>1 DEF Object
        <5> QED BY <3>1, <3>3, <5>1, Disowned
      <4>2. /\ Calls(s, [c EXCEPT !.managed = "unset", !.annot = NoPort], FALSE)
            /\ P!UnmapService(s)
        BY <2>2, <3>3, SameMapper DEF ReleaseService
      <4> QED BY <3>1, <3>3, <4>1, <4>2 DEF SyncEffect, Releases, Sends
    <3> QED BY <3>2, <3>3
  <2>3. CASE CanServiceBeManaged(c) /\ ~IsServiceManaged(c) /\ TakeOverService(s)
    <3>1. c \in Object /\ c.managed = "unset" /\ c.lb
      BY <1>5, <2>3, ObjectFields DEF CanServiceBeManaged, IsServiceManaged
    <3>2. LET o == [c EXCEPT !.managed = "true"]
          IN  /\ SameBut(o, c) /\ o.managed = "true"
              /\ o.annot = c.annot /\ o.ingress = c.ingress
      BY <3>1, ManagedChanged
    <3>3. Calls(s, [c EXCEPT !.managed = "true"], FALSE) /\ UNCHANGED mapperVars
      BY <2>3 DEF TakeOverService
    <3> QED BY <3>1, <3>2, <3>3 DEF SyncEffect, TakesOver, Sends
  <2>4. CASE CanServiceBeManaged(c) /\ IsServiceManaged(c) /\ ClearStaleStatus(s)
    <3>1. c \in Object /\ c.managed = "true" /\ c.annot = NoPort /\ c.ingress # NoPort
      BY <1>5, <2>4 DEF IsServiceManaged, ClearStaleStatus
    <3>2. LET o == [c EXCEPT !.ingress = NoPort]
          IN  SameBut(o, c) /\ o.managed = "true" /\ o.annot = c.annot /\ o.ingress = NoPort
      BY <3>1, IngressChanged
    <3>3. Calls(s, [c EXCEPT !.ingress = NoPort], FALSE) /\ UNCHANGED mapperVars
      BY <2>4 DEF ClearStaleStatus
    <3> QED BY <3>1, <3>2, <3>3 DEF SyncEffect, Clears, Sends
  <2>5. CASE CanServiceBeManaged(c) /\ IsServiceManaged(c) /\ MapService(s)
    <3>1. c \in Object
      BY <1>5, <2>5 DEF IsServiceManaged
    <3> QED BY <2>5, <3>1, MappingTakesEffect DEF SyncEffect
  <2> QED BY <1>2, <2>1, <2>2, <2>3, <2>4, <2>5 DEF RunSyncService
<1>7. queue[1] = SyncServiceJob(s)
  BY <1>1, <1>2, TailContinues
<1> QED BY <1>1, <1>3, <1>4, <1>6, <1>7

-----------------------------------------------------------------------------
(* Failures are never forgotten.                                           *)
LEMMA FailuresStay ==
    ASSUME TypeInv, [Next]_vars, NothingFailed'
    PROVE  NothingFailed /\ faults' = faults
<1>1. TypeOK /\ P!IndInv
  BY DEF TypeInv
<1>2. issued \subseteq issued' /\ issued' \subseteq L3Port
  <2>1. [P!Next]_(P!vars) /\ P!IndInv'
    BY <1>1, NextUsesMapper
  <2>2. ASSUME NEW s \in Service, NEW ports \in P!PortSets,
               NEW annot \in L3Port \cup {NoPort}, P!MapService(s, ports, annot)
        PROVE  issued \subseteq issued'
    BY <1>1, <2>2, MapperAssumptionHolds, P!MapServiceOutcome
  <2>3. issued \subseteq issued'
    BY <2>1, <2>2 DEF P!Next, P!vars, P!UnmapService, P!CleanupPorts, P!SetAvailableL3Ports,
                      P!NewPortMapper, P!ProvisionPort, P!PortVanishes
  <2> QED BY <2>1, <2>3 DEF P!IndInv, P!TypeOK
<1>3. faults' = faults \/ Fault
  <2>1. ASSUME NEW s \in Service,
               User(s) \/ InformerAdds(s) \/ InformerSees(s) \/ InformerResyncs(s)
        PROVE  faults' = faults
    BY <1>1, <2>1, UserDoes DEF UserOutcome, InformerAdds, InformerSees, InformerResyncs,
                                budgetVars
  <2>2. CASE RunSyncService
    <3>1. queue # <<>> /\ Head(queue).svc \in Service
      BY <1>1, <2>2, QueueTyped, JobsAre DEF RunSyncService, Takes, TypeOK
    <3> QED BY <1>1, <2>2, <3>1, SyncDoes DEF NoFault
  <2>3. CASE WorkerWriteFails \/ RunUpdateConfig \/ PortVanishes
    BY <2>3 DEF WorkerWriteFails, RunUpdateConfig, PortVanishes, PushConfig, NoFault
  <2>4. CASE \/ HandleAuxUpdated \/ PeriodicCleanup \/ WorkerWrites \/ RunRemoveService
             \/ RunRemoveCleanupBarrier \/ RunCleanup \/ Restart \/ UNCHANGED vars
    BY <2>4 DEF HandleAuxUpdated, PeriodicCleanup, WorkerWrites, RunRemoveService,
                RunRemoveCleanupBarrier, RunCleanup, Restart, vars, budgetVars
  <2> QED BY <2>1, <2>2, <2>3, <2>4 DEF Next, Worker
<1>4. faults \in Nat
  BY <1>1, ControllerAssumption DEF TypeOK
<1> QED BY <1>2, <1>3, <1>4 DEF NothingFailed, QuotaUsedUp, Fault

-----------------------------------------------------------------------------
(* The first syncs after a start.  While nothing fails, every listed       *)
(* service is synced before any job that could disturb it: a removal, a    *)
(* cleanup, or the sync of one that has been synced already.               *)
Late(i) ==
    \/ queue[i].type \in {"RemoveService", "Cleanup"}
    \/ /\ queue[i].type = "SyncService"
       /\ queue[i].svc \notin unsynced \/ \E j \in 1..i - 1 : queue[j] = queue[i]

SyncedBefore(i) == adds = {} /\ \A s \in unsynced : \E j \in 1..i - 1 : queue[j] = SyncServiceJob(s)

FirstQueued ==
    /\ \A s \in unsynced \ adds : Contains(queue, SyncServiceJob(s))
    /\ \A i \in 1..Len(queue) : Late(i) => SyncedBefore(i)

FirstSyncsFirst ==
    NothingFailed => FirstQueued /\ (call # NoCall => call.svc \notin unsynced)

LEMMA HeadIsNotLate ==
    ASSUME queue \in Seq(Job), queue # <<>>, FirstQueued, Late(1)
    PROVE  adds = {} /\ unsynced = {}
<1>1. 1 \in 1..Len(queue)
  BY TailContinues
<1>2. SyncedBefore(1)
  BY <1>1 DEF FirstQueued
<1> QED BY <1>2 DEF SyncedBefore

LEMMA QueueKeepsFirst ==
    ASSUME TypeOK, FirstQueued, NEW k \in {0, 1}, NEW J \in SUBSET Job,
           Continues(queue, queue', k, J), UNCHANGED adds, unsynced' \subseteq unsynced,
           adds = {} \/ J \subseteq {UpdateConfigJob, RemoveCleanupBarrierJob},
           k = 0 => unsynced' = unsynced,
           k = 1 => /\ queue # <<>>
                    /\ \A s \in unsynced' : queue[1] # SyncServiceJob(s)
                    /\ \A s \in unsynced \ unsynced' : queue[1] = SyncServiceJob(s)
    PROVE  FirstQueued'
<1>1. queue \in Seq(Job) /\ queue' \in Seq(Job)
  BY DEF TypeOK, Continues
<1>2. ASSUME NEW s \in unsynced', NEW i \in 1..Len(queue), queue[i] = SyncServiceJob(s)
      PROVE  i - k \in 1..Len(queue') /\ queue'[i - k] = SyncServiceJob(s)
  BY <1>1, <1>2, JobsStay
<1>3. \A s \in unsynced' \ adds' : Contains(queue', SyncServiceJob(s))
  <2> SUFFICES ASSUME NEW s \in unsynced' \ adds'
               PROVE  Contains(queue', SyncServiceJob(s))
    OBVIOUS
  <2>1. PICK i \in 1..Len(queue) : queue[i] = SyncServiceJob(s)
    BY DEF FirstQueued, Contains
  <2> QED BY <1>2, <2>1 DEF Contains
<1>4. ASSUME NEW i \in 1..Len(queue'), Late(i)'
      PROVE  SyncedBefore(i)'
  <2>1. CASE i + k <= Len(queue)
    <3>1. i + k \in 1..Len(queue) /\ queue'[i] = queue[i + k]
      BY <1>1, <2>1 DEF Continues
    <3>2. Late(i + k)
      <4>1. CASE queue'[i].type \in {"RemoveService", "Cleanup"}
        BY <3>1, <4>1 DEF Late
      <4>2. CASE queue'[i].type = "SyncService" /\ queue'[i].svc \notin unsynced
        BY <3>1, <4>2 DEF Late
      <4>3. CASE queue'[i].type = "SyncService" /\ queue'[i].svc \in unsynced \ unsynced'
        <5>1. k = 1 /\ queue[1] = SyncServiceJob(queue'[i].svc)
          BY <4>3
        <5>2. queue[i + 1] = SyncServiceJob(queue'[i].svc)
          BY <1>1, <3>1, <4>3, <5>1, JobsDiffer
        <5>3. 1 \in 1..(i + 1) - 1
          OBVIOUS
        <5> QED BY <3>1, <4>3, <5>1, <5>2, <5>3 DEF Late
      <4>4. ASSUME queue'[i].type = "SyncService", NEW j \in 1..i - 1, queue'[j] = queue'[i]
            PROVE  Late(i + k)
        <5>1. /\ j \in 1..Len(queue') /\ j + k <= Len(queue)
              /\ j + k \in 1..(i + k) - 1
          BY <1>1, <2>1, <4>4
        <5>2. queue'[j] = queue[j + k]
          BY <5>1 DEF Continues
        <5> QED BY <3>1, <4>4, <5>1, <5>2 DEF Late
      <4> QED BY <1>4, <4>1, <4>2, <4>3, <4>4 DEF Late
    <3>3. SyncedBefore(i + k)
      BY <3>1, <3>2 DEF FirstQueued
    <3>4. ASSUME NEW s \in unsynced'
          PROVE  \E j \in 1..i - 1 : queue'[j] = SyncServiceJob(s)
      <4>1. PICK j \in 1..(i + k) - 1 : queue[j] = SyncServiceJob(s)
        BY <3>3, <3>4 DEF SyncedBefore
      <4>2. j \in 1..Len(queue)
        BY <1>1, <3>1
      <4>3. j - k \in 1..Len(queue') /\ queue'[j - k] = SyncServiceJob(s)
        BY <1>2, <4>1, <4>2
      <4>4. j - k \in 1..i - 1
        BY <4>3
      <4> QED BY <4>3, <4>4
    <3> QED BY <3>3, <3>4 DEF SyncedBefore
  <2>2. CASE ~(i + k <= Len(queue))
    <3>1. queue'[i] \in J
      BY <2>2 DEF Continues
    <3>2. adds = {}
      <4>1. queue'[i].type \in {"RemoveService", "Cleanup", "SyncService"}
        BY <1>4 DEF Late
      <4> QED BY <3>1, <4>1 DEF UpdateConfigJob, RemoveCleanupBarrierJob
    <3>3. ASSUME NEW s \in unsynced'
          PROVE  \E j \in 1..i - 1 : queue'[j] = SyncServiceJob(s)
      <4>1. PICK j \in 1..Len(queue) : queue[j] = SyncServiceJob(s)
        BY <3>2, <3>3 DEF FirstQueued, Contains
      <4>2. j - k \in 1..Len(queue') /\ queue'[j - k] = SyncServiceJob(s)
        BY <1>2, <4>1
      <4>3. j - k \in 1..i - 1
        BY <1>1, <2>2, <4>1, <4>2
      <4> QED BY <4>2, <4>3
    <3> QED BY <3>2, <3>3 DEF SyncedBefore
  <2> QED BY <2>1, <2>2
<1> QED BY <1>3, <1>4 DEF FirstQueued

LEMMA AddingKeepsFirst ==
    ASSUME TypeInv, FirstQueued, NEW s \in Service, InformerAdds(s)
    PROVE  FirstQueued'
<1>1. /\ TypeOK /\ queue \in Seq(Job) /\ s \in adds /\ s \in unsynced
      /\ ~Contains(queue, SyncServiceJob(s))
      /\ adds' = adds \ {s} /\ UNCHANGED unsynced
  BY DEF TypeInv, TypeOK, InformerAdds
<1>2. queue' = Append(queue, SyncServiceJob(s)) /\ Continues(queue, queue', 0, {SyncServiceJob(s)})
  <2>1. SyncServiceJob(s).type = "SyncService" /\ SyncServiceJob(s) \in Job
    BY JobsAre DEF SyncServiceJob
  <2> QED BY <1>1, <2>1, EnqueueContinues DEF InformerAdds
<1>3. /\ Len(queue') = Len(queue) + 1 /\ queue'[Len(queue) + 1] = SyncServiceJob(s)
      /\ \A i \in 1..Len(queue) : queue'[i] = queue[i]
  BY <1>1, <1>2, JobsAre
<1>4. \A t \in unsynced' \ adds' : Contains(queue', SyncServiceJob(t))
  <2>1. Contains(queue', SyncServiceJob(s))
    BY <1>1, <1>3 DEF Contains
  <2>2. ASSUME NEW t \in unsynced \ adds
        PROVE  Contains(queue', SyncServiceJob(t))
    <3>1. PICK i \in 1..Len(queue) : queue[i] = SyncServiceJob(t)
      BY DEF FirstQueued, Contains
    <3> QED BY <1>1, <1>3, <3>1 DEF Contains
  <2> QED BY <1>1, <2>1, <2>2
<1>5. ASSUME NEW i \in 1..Len(queue'), Late(i)'
      PROVE  FALSE
  <2>1. CASE i \in 1..Len(queue)
    <3>1. queue'[i] = queue[i] /\ \A j \in 1..i - 1 : queue'[j] = queue[j]
      BY <1>1, <1>3, <2>1
    <3>2. Late(i)
      BY <1>1, <1>5, <3>1 DEF Late
    <3> QED BY <1>1, <2>1, <3>2 DEF FirstQueued, SyncedBefore
  <2>2. CASE i = Len(queue) + 1
    <3>1. queue'[i].type = "SyncService" /\ queue'[i].svc = s
      BY <1>3, <2>2 DEF SyncServiceJob
    <3>2. PICK j \in 1..i - 1 : queue'[j] = queue'[i]
      BY <1>1, <1>5, <3>1 DEF Late
    <3>3. j \in 1..Len(queue) /\ queue[j] = SyncServiceJob(s)
      BY <1>1, <1>3, <2>2, <3>2
    <3> QED BY <1>1, <3>3 DEF Contains
  <2> QED BY <1>1, <1>3, <2>1, <2>2
<1> QED BY <1>4, <1>5 DEF FirstQueued

LEMMA NextKeepsFirst ==
    ASSUME TypeInv, FirstSyncsFirst, [Next]_vars
    PROVE  FirstSyncsFirst'
<1> SUFFICES ASSUME NothingFailed'
             PROVE  FirstQueued' /\ (call' # NoCall => call'.svc \notin unsynced')
  BY DEF FirstSyncsFirst
<1>1. NothingFailed /\ faults' = faults
  BY FailuresStay
<1>2. /\ TypeOK /\ P!IndInv /\ FirstQueued /\ (call # NoCall => call.svc \notin unsynced)
      /\ queue \in Seq(Job) /\ adds \subseteq unsynced
  BY <1>1 DEF TypeInv, TypeOK, FirstSyncsFirst
<1>3. UNCHANGED call \/ call' = NoCall =>
          (unsynced' \subseteq unsynced => (call' # NoCall => call'.svc \notin unsynced'))
  BY <1>2
<1>4. ASSUME NEW j \in Job, queue' = Enqueue(queue, j), UNCHANGED <<adds, unsynced>>,
             adds = {} \/ j \in {UpdateConfigJob, RemoveCleanupBarrierJob}
      PROVE  FirstQueued'
  <2>1. Continues(queue, queue', 0, {j})
    BY <1>2, <1>4, EnqueueContinues
  <2> QED BY <1>2, <1>4, <2>1, QueueKeepsFirst
<1>5. ASSUME UNCHANGED <<queue, adds, unsynced>>
      PROVE  FirstQueued'
  <2>1. Continues(queue, queue', 0, {})
    BY <1>2, <1>5, QueueContinues
  <2> QED BY <1>2, <1>5, <2>1, QueueKeepsFirst
<1>6. ASSUME queue # <<>>, queue' = Tail(queue), UNCHANGED <<adds, unsynced>>,
             Head(queue).type # "SyncService"
      PROVE  FirstQueued'
  <2>1. Continues(queue, queue', 1, {}) /\ queue[1].type # "SyncService"
    BY <1>2, <1>6, TailContinues
  <2>2. \A s \in unsynced' : queue[1] # SyncServiceJob(s)
    BY <2>1 DEF SyncServiceJob
  <2> QED BY <1>2, <1>6, <2>1, <2>2, QueueKeepsFirst
<1>7. ASSUME NEW s \in Service, User(s)
      PROVE  FirstQueued' /\ (call' # NoCall => call'.svc \notin unsynced')
  <2>1. UNCHANGED <<queue, adds, unsynced>>
    BY <1>2, <1>7, UserDoes DEF UserOutcome, informerVars
  <2>2. call' = call \/ (call # NoCall /\ call' = [call EXCEPT !.fresh = FALSE])
    BY <1>2, <1>7, UserDoes DEF UserOutcome
  <2>3. call # NoCall => [call EXCEPT !.fresh = FALSE].svc = call.svc
    BY <1>2 DEF TypeOK, APICall
  <2> QED BY <1>2, <1>5, <2>1, <2>2, <2>3
<1>8. ASSUME NEW s \in Service, InformerAdds(s)
      PROVE  FirstQueued' /\ (call' # NoCall => call'.svc \notin unsynced')
  BY <1>2, <1>3, <1>8, AddingKeepsFirst DEF InformerAdds
<1>9. ASSUME NEW s \in Service, InformerSees(s) \/ InformerResyncs(s)
      PROVE  FirstQueued' /\ (call' # NoCall => call'.svc \notin unsynced')
  <2>1. adds = {} /\ UNCHANGED <<call, adds, unsynced>>
    BY <1>9 DEF InformerSees, InformerResyncs, informerVars
  <2>2. \E j \in Job : queue' = Enqueue(queue, j)
    <3>1. CASE InformerSees(s)
      <4>1. PICK n \in Nat : n = Len(watch[s])
        BY <1>2 DEF TypeOK
      <4>2. n > 0 /\ Head(watch[s]) = VersionAt(s, 1) /\ Pipeline(s)
        BY <1>2, <3>1, <4>1, SeeingShifts DEF TypeInv, TypeOK, VersionAt
      <4>3. Head(watch[s]) = Absent => cache[s] \in Object
        BY <1>2, <4>1, <4>2 DEF Pipeline, VersionAt, TypeOK, Version
      <4>4. Head(watch[s]) = Absent => RemoveServiceJob(s, cache[s].managed) \in Job
        BY <4>3, ObjectFields, JobsAre
      <4> QED BY <3>1, <4>4, JobsAre DEF InformerSees
    <3>2. CASE InformerResyncs(s)
      BY <3>2, JobsAre DEF InformerResyncs
    <3> QED BY <1>9, <3>1, <3>2
  <2> QED BY <1>3, <1>4, <2>1, <2>2
<1>10. CASE HandleAuxUpdated
  BY <1>3, <1>4, <1>10, JobsAre DEF HandleAuxUpdated, informerVars
<1>11. CASE PeriodicCleanup
  <2>1. \E j \in {CleanupJob, RemoveCleanupBarrierJob} :
            queue' = Enqueue(queue, j) /\ (j = CleanupJob => unsynced = {})
    <3>1. CleanupJob # RemoveCleanupBarrierJob
      BY DEF CleanupJob, RemoveCleanupBarrierJob
    <3> QED BY <1>11, <3>1 DEF PeriodicCleanup
  <2>2. UNCHANGED <<call, adds, unsynced>>
    BY <1>11 DEF PeriodicCleanup, informerVars
  <2> QED BY <1>2, <1>3, <1>4, <2>1, <2>2, JobsAre
<1>12. CASE RunSyncService
  <2>1. PICK s \in Service :
            /\ SyncEffect(s) /\ queue # <<>> /\ queue[1] = SyncServiceJob(s)
            /\ Continues(queue, queue', 1, {UpdateConfigJob})
            /\ unsynced' = unsynced \ {s} /\ adds' = adds /\ call = NoCall
    BY <1>1, <1>2, <1>12, SyncTakesEffect
  <2>2. FirstQueued'
    BY <1>2, <2>1, JobsAre, JobsDiffer, QueueKeepsFirst
  <2>3. call' # NoCall => call'.svc = s
    BY <2>1 DEF SyncEffect, Skips, TakesOver, Clears, Releases, MapFails, MapsTo, Sends, Calls
  <2> QED BY <2>1, <2>2, <2>3
<1>13. CASE WorkerWrites
  <2>1. UNCHANGED <<adds, unsynced>> /\ call' = NoCall
    BY <1>13 DEF WorkerWrites, informerVars
  <2>2. queue' = queue \/ queue' = Enqueue(queue, UpdateConfigJob)
    BY <1>13 DEF WorkerWrites
  <2> QED BY <1>4, <1>5, <2>1, <2>2, JobsAre
<1>14. CASE WorkerWriteFails
  BY <1>5, <1>14 DEF WorkerWriteFails, informerVars
<1>15. CASE RunRemoveService
  <2>1. /\ queue # <<>> /\ queue[1].type = "RemoveService" /\ UNCHANGED <<call, adds, unsynced>>
        /\ \/ queue' = Tail(queue)
           \/ queue' = Enqueue(Enqueue(Tail(queue), CleanupJob), UpdateConfigJob)
    BY <1>2, <1>15, TailContinues DEF RunRemoveService, Takes, informerVars
  <2>2. adds = {} /\ unsynced = {}
    BY <1>2, <2>1, HeadIsNotLate DEF Late
  <2>3. \E J \in SUBSET Job : Continues(queue, queue', 1, J)
    <3>1. {} \in SUBSET Job /\ {CleanupJob, UpdateConfigJob} \in SUBSET Job
      BY JobsAre
    <3> QED BY <1>2, <2>1, <3>1, QueueContinues
  <2>4. FirstQueued'
    BY <1>2, <2>1, <2>2, <2>3, QueueKeepsFirst
  <2> QED BY <2>1, <2>2, <2>4
<1>16. CASE RunRemoveCleanupBarrier \/ RunCleanup \/ RunUpdateConfig
  BY <1>3, <1>6, <1>16 DEF RunRemoveCleanupBarrier, RunCleanup, RunUpdateConfig, Takes,
                           informerVars
<1>17. CASE Restart
  <2>1. queue' = <<>> /\ unsynced' = adds' /\ call' = NoCall
    BY <1>17 DEF Restart
  <2>2. FirstQueued'
    BY <2>1 DEF FirstQueued
  <2> QED BY <2>1, <2>2
<1>18. CASE PortVanishes
  BY <1>3, <1>5, <1>18 DEF PortVanishes, informerVars, workerVars
<1>19. CASE UNCHANGED vars
  BY <1>3, <1>5, <1>19 DEF vars, informerVars, workerVars
<1> QED BY <1>7, <1>8, <1>9, <1>10, <1>11, <1>12, <1>13, <1>14, <1>15, <1>16, <1>17, <1>18,
           <1>19 DEF Next, Worker

-----------------------------------------------------------------------------
(* What the informer delivers: the next version, and a job for it.         *)
SeenJob(s) ==
    IF Head(watch[s]) # Absent THEN SyncServiceJob(s) ELSE RemoveServiceJob(s, cache[s].managed)

LEMMA SeeingQueues ==
    ASSUME TypeInv, NEW s \in Service, InformerSees(s)
    PROVE  /\ SeenJob(s) \in Job /\ (Head(watch[s]) = Absent => cache[s] \in Object)
           /\ Continues(queue, queue', 0, {SeenJob(s)})
           /\ Contains(queue', SeenJob(s))
           /\ queue' = Append(queue, SeenJob(s))
           /\ Head(watch[s]) = VersionAt(s, 1) /\ cache'[s] = VersionAt(s, 1)
           /\ watch'[s] = <<>> => api[s] = Head(watch[s])
<1>1. TypeOK /\ Pipeline(s) /\ queue \in Seq(Job)
  BY DEF TypeInv, TypeOK
<1>2. PICK n \in Nat : n = Len(watch[s])
  BY <1>1 DEF TypeOK
<1>3. /\ n > 0 /\ Head(watch[s]) = VersionAt(s, 1) /\ cache'[s] = VersionAt(s, 1)
      /\ Len(watch'[s]) = n - 1
  BY <1>1, <1>2, SeeingShifts DEF TypeOK, VersionAt
<1>4. Head(watch[s]) = Absent => cache[s] \in Object
  <2>1. 1 \in 1..Len(watch[s])
    BY <1>2, <1>3
  <2>2. VersionAt(s, 1) = Absent => VersionAt(s, 1 - 1) # Absent
    BY <1>1, <2>1 DEF Pipeline
  <2>3. cache[s] \in Version
    BY <1>1 DEF TypeOK
  <2> QED BY <1>3, <2>2, <2>3 DEF VersionAt, Version
<1>5. SeenJob(s) \in Job /\ SeenJob(s).type \in {"SyncService", "RemoveService"}
  <2>1. /\ SyncServiceJob(s).type = "SyncService"
        /\ RemoveServiceJob(s, cache[s].managed).type = "RemoveService"
    BY DEF SyncServiceJob, RemoveServiceJob
  <2> QED BY <1>4, <2>1, ObjectFields, JobsAre DEF SeenJob
<1>6. queue' = Enqueue(queue, SeenJob(s))
  BY DEF InformerSees, SeenJob
<1>7. watch'[s] = <<>> => api[s] = Head(watch[s])
  <2>1. watch'[s] = <<>> => n = 1
    BY <1>3
  <2> QED BY <1>1, <1>2, <1>3, <2>1 DEF Pipeline
<1> QED BY <1>1, <1>3, <1>4, <1>5, <1>6, <1>7, EnqueueContinues, QueueHolds

-----------------------------------------------------------------------------
(* Removal jobs do not notice that a service was created again: unless a   *)
(* newer version is on its way, there is a sync behind them.               *)
Followed(i) ==
    LET s == queue[i].svc
    IN  \/ api[s] = Absent \/ watch[s] # <<>>
        \/ \E j \in i + 1..Len(queue) : queue[j] = SyncServiceJob(s)

RemovalsAreFollowed ==
    \A i \in 1..Len(queue) : queue[i].type = "RemoveService" => Followed(i)

LEMMA QueueKeepsFollowed ==
    ASSUME TypeOK, RemovalsAreFollowed, NEW k \in {0, 1}, NEW J,
           Continues(queue, queue', k, J), \A j \in J : j.type # "RemoveService",
           \A t \in Service : watch'[t] # <<>> \/ (api'[t] = api[t] /\ watch'[t] = watch[t])
    PROVE  RemovalsAreFollowed'
<1> SUFFICES ASSUME NEW i \in 1..Len(queue'), queue'[i].type = "RemoveService"
             PROVE  Followed(i)'
  BY DEF RemovalsAreFollowed
<1>1. queue \in Seq(Job) /\ queue' \in Seq(Job) /\ Len(queue) \in Nat /\ Len(queue') \in Nat
  BY DEF TypeOK, Continues
<1>2. i + k \in 1..Len(queue) /\ queue'[i] = queue[i + k]
  BY <1>1 DEF Continues
<1>3. queue[i + k] \in Job /\ queue[i + k].svc \in Service
  BY <1>1, <1>2, JobsAre
<1>4. Followed(i + k)
  BY <1>2 DEF RemovalsAreFollowed
<1>5. ASSUME NEW j \in (i + k) + 1..Len(queue), queue[j] = SyncServiceJob(queue'[i].svc)
      PROVE  \E m \in i + 1..Len(queue') : queue'[m] = SyncServiceJob(queue'[i].svc)
  <2>1. j - k \in i + 1..Len(queue') /\ j - k \in 1..Len(queue') /\ (j - k) + k = j
    BY <1>1, <1>2, <1>5 DEF Continues
  <2>2. queue'[j - k] = queue[j]
    BY <1>1, <1>5, <2>1 DEF Continues
  <2> QED BY <1>5, <2>1, <2>2
<1> QED BY <1>2, <1>3, <1>4, <1>5 DEF Followed

LEMMA NextKeepsFollowed ==
    ASSUME TypeInv, RemovalsAreFollowed, [Next]_vars
    PROVE  RemovalsAreFollowed'
<1>1. TypeOK /\ P!IndInv /\ queue \in Seq(Job)
  BY DEF TypeInv, TypeOK
<1>2. ASSUME UNCHANGED <<api, watch, queue>>
      PROVE  RemovalsAreFollowed'
  <2>1. Continues(queue, queue', 0, {})
    BY <1>1, <1>2, QueueContinues
  <2> QED BY <1>1, <1>2, <2>1, QueueKeepsFollowed
<1>3. ASSUME UNCHANGED <<api, watch>>, NEW k \in {0, 1}, NEW J, Continues(queue, queue', k, J),
             J \subseteq {SyncServiceJob(s) : s \in Service}
                            \cup {CleanupJob, UpdateConfigJob, RemoveCleanupBarrierJob}
      PROVE  RemovalsAreFollowed'
  <2>1. \A j \in J : j.type # "RemoveService"
    BY <1>3 DEF SyncServiceJob, CleanupJob, UpdateConfigJob, RemoveCleanupBarrierJob
  <2> QED BY <1>1, <1>3, <2>1, QueueKeepsFollowed
<1>4. ASSUME NEW s \in Service, NEW o \in Version, Write(s, o), cache' = cache,
             queue' = queue \/ queue' = Enqueue(queue, UpdateConfigJob)
      PROVE  RemovalsAreFollowed'
  <2>1. PICK n \in Nat : n = Len(watch[s])
    BY <1>1 DEF TypeOK
  <2>2. /\ \A t \in Service \ {s} : api'[t] = api[t] /\ watch'[t] = watch[t]
        /\ Len(watch'[s]) = n + 1
    BY <1>1, <1>4, <2>1, WriteAppends
  <2>3. watch'[s] # <<>>
    BY <2>2
  <2>4. \E J \in {{}, {UpdateConfigJob}} : Continues(queue, queue', 0, J)
    BY <1>1, <1>4, QueueContinues, JobsAre
  <2>5. UpdateConfigJob.type # "RemoveService"
    BY DEF UpdateConfigJob
  <2> QED BY <1>1, <2>2, <2>3, <2>4, <2>5, QueueKeepsFollowed
<1>5. ASSUME NEW s \in Service, User(s)
      PROVE  RemovalsAreFollowed'
  BY <1>1, <1>4, <1>5, UserDoes DEF UserOutcome, informerVars
<1>6. ASSUME NEW s \in Service, InformerAdds(s) \/ InformerResyncs(s)
      PROVE  RemovalsAreFollowed'
  <2>1. queue' = Enqueue(queue, SyncServiceJob(s)) /\ UNCHANGED <<api, watch>>
    BY <1>6 DEF InformerAdds, InformerResyncs, apiVars
  <2>2. Continues(queue, queue', 0, {SyncServiceJob(s)})
    BY <1>1, <2>1, EnqueueContinues, JobsAre
  <2> QED BY <1>3, <2>1, <2>2
<1>7. ASSUME NEW s \in Service, InformerSees(s)
      PROVE  RemovalsAreFollowed'
  <2>1. /\ queue' = Append(queue, SeenJob(s)) /\ SeenJob(s) \in Job
        /\ watch'[s] = <<>> => api[s] = Head(watch[s])
        /\ \A t \in Service \ {s} : watch'[t] = watch[t]
        /\ UNCHANGED api
    BY <1>1, <1>7, SeeingQueues, SeeingShifts DEF InformerSees, TypeOK
  <2>2. PICK m \in Nat : m = Len(queue)
    BY <1>1
  <2>3. /\ Len(queue') = m + 1 /\ queue'[m + 1] = SeenJob(s)
        /\ \A i \in 1..m : queue'[i] = queue[i]
    BY <1>1, <2>1, <2>2
  <2> SUFFICES ASSUME NEW i \in 1..m + 1, queue'[i].type = "RemoveService"
               PROVE  Followed(i)'
    BY <2>3 DEF RemovalsAreFollowed
  <2>4. CASE i \in 1..m /\ queue[i].svc # s
    <3>1. queue'[i] = queue[i] /\ queue[i].svc \in Service \ {s}
      BY <1>1, <2>2, <2>3, <2>4, JobsAre
    <3>2. Followed(i)
      BY <2>2, <2>4, <3>1 DEF RemovalsAreFollowed
    <3>3. ASSUME NEW j \in i + 1..m, queue[j] = SyncServiceJob(queue[i].svc)
          PROVE  \E l \in i + 1..m + 1 : queue'[l] = SyncServiceJob(queue[i].svc)
      BY <2>3, <3>3
    <3> QED BY <2>1, <2>2, <2>3, <3>1, <3>2, <3>3 DEF Followed
  <2>5. CASE i \in 1..m /\ queue[i].svc = s
    <3>1. queue'[i].svc = s
      BY <2>3, <2>5
    <3>2. CASE watch'[s] = <<>> /\ Head(watch[s]) # Absent
      <4>1. m + 1 \in i + 1..m + 1 /\ queue'[m + 1] = SyncServiceJob(s)
        BY <2>3, <2>5, <3>2 DEF SeenJob
      <4> QED BY <2>3, <3>1, <4>1 DEF Followed
    <3>3. CASE watch'[s] # <<>> \/ Head(watch[s]) = Absent
      BY <2>1, <3>1, <3>3 DEF Followed
    <3> QED BY <3>2, <3>3
  <2>6. CASE i = m + 1
    <3>1. Head(watch[s]) = Absent /\ queue'[i].svc = s
      BY <2>3, <2>6 DEF SeenJob, SyncServiceJob, RemoveServiceJob
    <3> QED BY <2>1, <3>1 DEF Followed
  <2> QED BY <2>4, <2>5, <2>6
<1>8. CASE HandleAuxUpdated \/ PeriodicCleanup
  <2>1. UNCHANGED <<api, watch>>
    BY <1>8 DEF HandleAuxUpdated, PeriodicCleanup, apiVars
  <2>2. \E j \in {UpdateConfigJob, CleanupJob, RemoveCleanupBarrierJob} :
            queue' = Enqueue(queue, j)
    BY <1>8 DEF HandleAuxUpdated, PeriodicCleanup
  <2>3. PICK j \in {UpdateConfigJob, CleanupJob, RemoveCleanupBarrierJob} :
            Continues(queue, queue', 0, {j})
    BY <1>1, <2>2, EnqueueContinues, JobsAre
  <2> QED BY <1>3, <2>1, <2>3
<1>9. CASE RunSyncService
  <2>1. Continues(queue, queue', 1, {UpdateConfigJob}) /\ UNCHANGED <<api, watch>>
    BY <1>1, <1>9, SyncTakesEffect
  <2> QED BY <1>3, <2>1
<1>10. CASE WorkerWrites
  <2>1. /\ call.svc \in Service /\ call.obj \in Version
        /\ Write(call.svc, call.obj) /\ cache' = cache
        /\ queue' = queue \/ queue' = Enqueue(queue, UpdateConfigJob)
    BY <1>1, <1>10 DEF WorkerWrites, TypeOK, APICall, Version, informerVars
  <2> QED BY <1>4, <2>1
<1>11. CASE RunRemoveService
  <2>1. /\ queue # <<>> /\ UNCHANGED <<api, watch>>
        /\ \/ queue' = Tail(queue)
           \/ queue' = Enqueue(Enqueue(Tail(queue), CleanupJob), UpdateConfigJob)
    BY <1>11 DEF RunRemoveService, Takes, apiVars
  <2>2. \E J \in {{}, {CleanupJob, UpdateConfigJob}} : Continues(queue, queue', 1, J)
    BY <1>1, <2>1, QueueContinues
  <2> QED BY <1>3, <2>1, <2>2
<1>12. CASE RunRemoveCleanupBarrier \/ RunCleanup \/ RunUpdateConfig
  <2>1. queue # <<>> /\ queue' = Tail(queue) /\ UNCHANGED <<api, watch>>
    BY <1>12 DEF RunRemoveCleanupBarrier, RunCleanup, RunUpdateConfig, Takes, apiVars
  <2>2. Continues(queue, queue', 1, {})
    BY <1>1, <2>1, QueueContinues
  <2> QED BY <1>3, <2>1, <2>2
<1>13. CASE Restart
  BY <1>13 DEF Restart, RemovalsAreFollowed
<1>14. CASE WorkerWriteFails \/ PortVanishes \/ UNCHANGED vars
  BY <1>2, <1>14 DEF WorkerWriteFails, PortVanishes, vars, apiVars, workerVars
<1> QED BY <1>5, <1>6, <1>7, <1>8, <1>9, <1>10, <1>11, <1>12, <1>13, <1>14 DEF Next, Worker

-----------------------------------------------------------------------------
(* The steps that change neither a service object, a version on its way,   *)
(* nor a mapping; they take no sync or removal from the queue.             *)
Minor ==
    /\ UNCHANGED <<services, api, watch, cache, unsynced, crashes>>
    /\ queue' \in Seq(Job)
    /\ \A t \in Service : Contains(queue, SyncServiceJob(t)) => Contains(queue', SyncServiceJob(t))
    /\ \A t \in Service, m \in {"unset", "true", "false"} :
           Contains(queue', RemoveServiceJob(t, m)) <=> Contains(queue, RemoveServiceJob(t, m))
    /\ call' = call \/ (call' = NoCall /\ (NothingFailed' => ~call.fresh))

LEMMA MinorQueue ==
    ASSUME queue \in Seq(Job),
           \/ queue' = queue
           \/ \E j \in Job : queue' = Enqueue(queue, j) /\ j.type # "RemoveService"
           \/ /\ queue # <<>> /\ queue' = Tail(queue)
              /\ Head(queue).type \notin {"SyncService", "RemoveService"}
    PROVE  /\ queue' \in Seq(Job)
           /\ \A t \in Service :
                  Contains(queue, SyncServiceJob(t)) => Contains(queue', SyncServiceJob(t))
           /\ \A t \in Service, m \in {"unset", "true", "false"} :
                  Contains(queue', RemoveServiceJob(t, m)) <=> Contains(queue, RemoveServiceJob(t, m))
<1>1. \A t : SyncServiceJob(t).type = "SyncService"
  BY DEF SyncServiceJob
<1>2. \A t, m : RemoveServiceJob(t, m).type = "RemoveService"
  BY DEF RemoveServiceJob
<1>3. CASE queue' = queue
  BY <1>3
<1>4. ASSUME NEW j \in Job, queue' = Enqueue(queue, j), j.type # "RemoveService"
      PROVE  /\ queue' \in Seq(Job)
             /\ \A t \in Service :
                    Contains(queue, SyncServiceJob(t)) => Contains(queue', SyncServiceJob(t))
             /\ \A t \in Service, m \in {"unset", "true", "false"} :
                    Contains(queue', RemoveServiceJob(t, m)) <=> Contains(queue, RemoveServiceJob(t, m))
  <2>1. \A x : Contains(queue', x) <=> Contains(queue, x) \/ x = j
    BY <1>4, QueueHolds
  <2> QED BY <1>2, <1>4, <2>1, QueueTyped
<1>5. CASE /\ queue # <<>> /\ queue' = Tail(queue)
           /\ Head(queue).type \notin {"SyncService", "RemoveService"}
  <2>1. /\ \A x : Contains(queue', x) => Contains(queue, x)
        /\ \A x : Contains(queue, x) /\ x # Head(queue) => Contains(queue', x)
    BY <1>5, QueueHolds
  <2> QED BY <1>1, <1>2, <1>5, <2>1, QueueTyped
<1> QED BY <1>3, <1>4, <1>5

LEMMA StepKinds ==
    ASSUME TypeInv, [Next]_vars
    PROVE  \/ \E s \in Service, o \in Version : UserOutcome(s, o)
           \/ \E s \in Service : InformerSees(s)
           \/ RunSyncService
           \/ WorkerWrites
           \/ RunRemoveService
           \/ Restart
           \/ Minor
<1>1. TypeOK /\ queue \in Seq(Job)
  BY DEF TypeInv, TypeOK
<1>2. /\ UpdateConfigJob.type # "RemoveService" /\ CleanupJob.type # "RemoveService"
      /\ RemoveCleanupBarrierJob.type # "RemoveService"
      /\ \A s : SyncServiceJob(s).type # "RemoveService"
  BY DEF UpdateConfigJob, CleanupJob, RemoveCleanupBarrierJob, SyncServiceJob
<1>3. ASSUME NEW s \in Service, User(s)
      PROVE  \E o \in Version : UserOutcome(s, o)
  BY <1>1, <1>3, UserDoes
<1>4. ASSUME NEW s \in Service, InformerAdds(s) \/ InformerResyncs(s)
      PROVE  Minor
  <2>1. /\ queue' = Enqueue(queue, SyncServiceJob(s))
        /\ UNCHANGED <<services, api, watch, cache, unsynced, crashes, call>>
    BY <1>4 DEF InformerAdds, InformerResyncs, mapperVars, apiVars, informerVars, budgetVars
  <2> QED BY <1>1, <1>2, <2>1, JobsAre, MinorQueue DEF Minor
<1>5. CASE HandleAuxUpdated \/ PeriodicCleanup
  <2>1. /\ \E j \in {UpdateConfigJob, CleanupJob, RemoveCleanupBarrierJob} :
               queue' = Enqueue(queue, j)
        /\ UNCHANGED <<services, api, watch, cache, unsynced, crashes, call>>
    BY <1>5 DEF HandleAuxUpdated, PeriodicCleanup, mapperVars, apiVars, informerVars, budgetVars
  <2> QED BY <1>1, <1>2, <2>1, JobsAre, MinorQueue DEF Minor
<1>6. CASE WorkerWriteFails
  <2>1. /\ UNCHANGED <<services, api, watch, cache, unsynced, crashes, queue>>
        /\ call # NoCall /\ call' = NoCall /\ (call.fresh => Fault)
    BY <1>6 DEF WorkerWriteFails, mapperVars, apiVars, informerVars
  <2>2. NothingFailed' => ~call.fresh
    <3>1. NothingFailed' => faults' = faults
      BY FailuresStay
    <3>2. Fault => faults' # faults
      BY <1>1, ControllerAssumption DEF Fault, TypeOK
    <3> QED BY <2>1, <3>1, <3>2
  <2> QED BY <1>1, <2>1, <2>2, MinorQueue DEF Minor
<1>7. CASE RunRemoveCleanupBarrier \/ RunCleanup \/ RunUpdateConfig
  <2>1. /\ queue # <<>> /\ queue' = Tail(queue)
        /\ Head(queue).type \notin {"SyncService", "RemoveService"}
        /\ UNCHANGED <<api, watch, cache, unsynced, crashes, call>>
    BY <1>7 DEF RunRemoveCleanupBarrier, RunCleanup, RunUpdateConfig, Takes, apiVars,
                informerVars, budgetVars
  <2>2. UNCHANGED services
    BY <1>7 DEF RunRemoveCleanupBarrier, RunCleanup, RunUpdateConfig, mapperVars,
                PM!CleanupPorts
  <2> QED BY <1>1, <2>1, <2>2, MinorQueue DEF Minor
<1>8. CASE PortVanishes \/ UNCHANGED vars
  <2>1. UNCHANGED <<services, api, watch, cache, unsynced, crashes, queue, call>>
    BY <1>8 DEF PortVanishes, PM!PortVanishes, vars, mapperVars, apiVars, informerVars,
                workerVars, budgetVars
  <2> QED BY <1>1, <2>1, MinorQueue DEF Minor
<1> QED BY <1>3, <1>4, <1>5, <1>6, <1>7, <1>8 DEF Next, Worker

(* What a sync job leaves alone.                                           *)
LEMMA SyncsOne ==
    ASSUME TypeOK, P!IndInv, NEW s \in Service, SyncEffect(s), call = NoCall,
           queue # <<>>, queue[1] = SyncServiceJob(s),
           Continues(queue, queue', 1, {UpdateConfigJob})
    PROVE  /\ \A t \in Service \ {s} : services'[t] = services[t]
           /\ \A t \in Service \ {s} :
                  Contains(queue, SyncServiceJob(t)) => Contains(queue', SyncServiceJob(t))
           /\ \A t \in Service, m \in {"unset", "true", "false"} :
                  Contains(queue', RemoveServiceJob(t, m)) <=> Contains(queue, RemoveServiceJob(t, m))
           /\ call' # NoCall => /\ cache[s] \in Object /\ call'.svc = s
                                /\ (call'.fresh <=> watch[s] = <<>>)
                                /\ SameBut(call'.obj, cache[s])
<1>1. services \in [Service -> [l3port : L3Port \cup {NoPort}, ports : SUBSET L4Port]]
      /\ queue \in Seq(Job) /\ queue' \in Seq(Job) /\ Len(queue) \in Nat /\ Len(queue') \in Nat
  BY DEF TypeOK, PM!TypeOK, Continues
<1>2. \A t \in Service \ {s} : services'[t] = services[t]
  <2>1. CASE UNCHANGED services
    BY <2>1
  <2>2. CASE P!UnmapService(s)
    BY <2>2, UnmapsOne
  <2>3. ASSUME NEW port, MapsTo(s, cache[s], port)
        PROVE  \A t \in Service \ {s} : services'[t] = services[t]
    <3>1. PICK r : services' = [services EXCEPT ![s] = r]
      BY <2>3 DEF MapsTo
    <3> QED BY <1>1, <3>1
  <2> QED BY <2>1, <2>2, <2>3 DEF SyncEffect, Skips, TakesOver, Clears, Releases, MapFails,
                                 mapperVars
<1>3. ASSUME NEW t \in Service \ {s}, Contains(queue, SyncServiceJob(t))
      PROVE  Contains(queue', SyncServiceJob(t))
  BY <1>1, <1>3, JobsDiffer, JobsStay
<1>4. ASSUME NEW t \in Service, NEW m \in {"unset", "true", "false"}
      PROVE  Contains(queue', RemoveServiceJob(t, m)) <=> Contains(queue, RemoveServiceJob(t, m))
  <2>1. Contains(queue, RemoveServiceJob(t, m)) => Contains(queue', RemoveServiceJob(t, m))
    BY <1>1, JobsDiffer, JobsStay
  <2>2. ASSUME Contains(queue', RemoveServiceJob(t, m))
        PROVE  Contains(queue, RemoveServiceJob(t, m))
    <3>1. PICK i \in 1..Len(queue') : queue'[i] = RemoveServiceJob(t, m)
      BY <2>2 DEF Contains
    <3>2. queue'[i] \notin {UpdateConfigJob}
      <4>1. RemoveServiceJob(t, m) # UpdateConfigJob
        BY JobsDiffer
      <4> QED BY <3>1, <4>1
    <3>3. i + 1 \in 1..Len(queue) /\ queue'[i] = queue[i + 1]
      BY <1>1, <3>2 DEF Continues
    <3> QED BY <3>1, <3>3 DEF Contains
  <2> QED BY <2>1, <2>2
<1>5. ASSUME call' # NoCall
      PROVE  /\ cache[s] \in Object /\ call'.svc = s
             /\ (call'.fresh <=> watch[s] = <<>>)
             /\ SameBut(call'.obj, cache[s])
  <2>1. PICK o, managed, annot, ingress : Sends(s, o, managed, annot, ingress)
    BY <1>5 DEF SyncEffect, Skips, TakesOver, Clears, Releases, MapFails, MapsTo
  <2>2. cache[s] \in Object
    BY <1>5 DEF SyncEffect, Skips
  <2>3. PICK update : call' = [svc |-> s, obj |-> o, fresh |-> watch[s] = <<>>, update |-> update]
    BY <2>1 DEF Sends, Calls
  <2> QED BY <2>1, <2>2, <2>3 DEF Sends
<1> QED BY <1>2, <1>3, <1>4, <1>5

(* What a removal leaves alone.                                            *)
LEMMA RemovesOne ==
    ASSUME TypeOK, RunRemoveService
    PROVE  \E s \in Service, m \in {"unset", "true", "false"} :
               /\ call = NoCall /\ queue # <<>> /\ queue[1] = RemoveServiceJob(s, m)
               /\ \A t \in Service \ {s} : services'[t] = services[t]
               /\ IF m = "true" THEN P!UnmapService(s) ELSE UNCHANGED services
               /\ \E J \in {{}, {CleanupJob, UpdateConfigJob}} : Continues(queue, queue', 1, J)
               /\ \A t \in Service :
                      Contains(queue, SyncServiceJob(t)) => Contains(queue', SyncServiceJob(t))
               /\ \A t \in Service, n \in {"unset", "true", "false"} :
                      Contains(queue', RemoveServiceJob(t, n)) =>
                          Contains(queue, RemoveServiceJob(t, n))
               /\ UNCHANGED <<api, watch, cache, adds, unsynced, call, crashes>>
<1>1. /\ queue \in Seq(Job) /\ queue # <<>> /\ Head(queue).type = "RemoveService"
      /\ call = NoCall /\ UNCHANGED <<api, watch, cache, adds, unsynced, call, crashes>>
  BY DEF RunRemoveService, Takes, TypeOK, apiVars, informerVars, budgetVars
<1>2. /\ queue[1] = Head(queue) /\ Head(queue) \in Job
      /\ Head(queue) = RemoveServiceJob(Head(queue).svc, Head(queue).managed)
  BY <1>1, TailContinues, JobsDiffer
<1>3. Head(queue).managed \in {"unset", "true", "false"} /\ Head(queue).svc \in Service
  BY <1>1, <1>2 DEF Job, CleanupJob, UpdateConfigJob, RemoveCleanupBarrierJob
<1>4. PICK s \in Service, m \in {"unset", "true", "false"} :
          s = Head(queue).svc /\ m = Head(queue).managed
  BY <1>3
<1>5. IF m = "true" THEN P!UnmapService(s) ELSE UNCHANGED services
  BY <1>4, SameMapper DEF RunRemoveService, mapperVars
<1>6. \A t \in Service \ {s} : services'[t] = services[t]
  BY <1>5, UnmapsOne
<1>7. PICK J \in {{}, {CleanupJob, UpdateConfigJob}} : Continues(queue, queue', 1, J)
  BY <1>1, QueueContinues DEF RunRemoveService
<1>8. queue' \in Seq(Job) /\ Len(queue) \in Nat /\ Len(queue') \in Nat
  BY <1>1, <1>7 DEF Continues
<1>9. ASSUME NEW t \in Service, Contains(queue, SyncServiceJob(t))
      PROVE  Contains(queue', SyncServiceJob(t))
  BY <1>1, <1>2, <1>4, <1>7, <1>9, JobsDiffer, JobsStay
<1>10. ASSUME NEW t \in Service, NEW n \in {"unset", "true", "false"},
              Contains(queue', RemoveServiceJob(t, n))
       PROVE  Contains(queue, RemoveServiceJob(t, n))
  <2>1. PICK i \in 1..Len(queue') : queue'[i] = RemoveServiceJob(t, n)
    BY <1>10 DEF Contains
  <2>2. queue'[i] \notin J
    BY <2>1, JobsDiffer
  <2>3. i + 1 \in 1..Len(queue) /\ queue'[i] = queue[i + 1]
    BY <1>7, <1>8, <2>2 DEF Continues
  <2> QED BY <2>1, <2>3 DEF Contains
<1> QED BY <1>1, <1>2, <1>4, <1>5, <1>6, <1>7, <1>9, <1>10

-----------------------------------------------------------------------------
(* What a managed service publishes is what the mapper has for it, once    *)
(* its first sync has run, and unless a newer version or a sync of it is   *)
(* under way.                                                              *)
Follows(s) ==
    IsServiceManaged(api[s]) /\ api[s].ingress # NoPort =>
        services[s].l3port = api[s].ingress \/ Overtaken(s) \/ Clearing(s)

PublishedFollows == NothingFailed => \A s \in Service \ unsynced : Follows(s)

(* The version that a sync job reads when it is not overtaken.             *)
LEMMA CachedVersion ==
    ASSUME TypeInv, StatusInv, NEW s \in Service, watch[s] = <<>>
    PROVE  cache[s] = api[s] /\ (cache[s] \in Object => Consistent(cache[s]))
<1>1. Pipeline(s) /\ ConsistentAt(s) /\ Len(watch[s]) = 0 /\ VersionAt(s, 0) = cache[s]
  BY DEF TypeInv, StatusInv, VersionAt
<1> QED BY <1>1, ObjectFields DEF Pipeline, ConsistentAt

LEMMA SyncFollows ==
    ASSUME TypeInv, StatusInv, NothingFailed, faults' = faults, NEW s \in Service,
           SyncEffect(s), watch' = watch, api' = api
    PROVE  Follows(s)'
<1>1. TypeOK
  BY DEF TypeInv
<1> SUFFICES ASSUME IsServiceManaged(api[s]), api[s].ingress # NoPort, watch[s] = <<>>
             PROVE  (services[s].l3port = api[s].ingress)' \/ Clearing(s)'
  BY DEF Follows, Overtaken, IsServiceManaged
<1> DEFINE c == cache[s]
<1>2. c = api[s] /\ c \in Object /\ c.managed = "true" /\ c.ingress # NoPort /\ c.annot = c.ingress
  BY <1>1, CachedVersion DEF IsServiceManaged, TypeOK, Version, Consistent
<1>3. ASSUME NEW o, NEW managed, NEW annot, Sends(s, o, managed, annot, NoPort)
      PROVE  Clearing(s)'
  <2>1. /\ \E update \in BOOLEAN :
               call' = [svc |-> s, obj |-> o, fresh |-> TRUE, update |-> update]
        /\ o \in Object /\ o.ingress = NoPort
    BY <1>3 DEF Sends, Calls, SameBut
  <2>2. call' # NoCall
    <3>1. call' \in APICall
      BY <2>1 DEF APICall
    <3> QED BY <3>1, ControllerAssumption
  <2> QED BY <2>1, <2>2 DEF Clearing
<1>4. ~Skips(s) /\ ~TakesOver(s, c) /\ ~Releases(s, c)
  BY <1>2 DEF Skips, TakesOver, Releases, IsServiceManaged
<1>5. CASE Clears(s, c)
  BY <1>3, <1>5 DEF Clears
<1>6. CASE MapFails(s)
  <2>1. ~Fault
    BY <1>1, ControllerAssumption DEF Fault, TypeOK
  <2>2. ~QuotaUsedUp
    BY <1>6, <2>1 DEF MapFails, NothingFailed
  <2> QED BY <1>6, <2>1, <2>2 DEF MapFails
<1>7. ASSUME NEW port \in L3Port, MapsTo(s, c, port)
      PROVE  (services[s].l3port = api[s].ingress)' \/ Clearing(s)'
  <2>1. services'[s].l3port = port
    <3>1. s \in DOMAIN services
      BY <1>1 DEF TypeOK, PM!TypeOK
    <3> QED BY <1>7, <3>1 DEF MapsTo
  <2>2. CASE port # c.annot
    BY <1>3, <1>7, <2>2 DEF MapsTo
  <2>3. CASE port = c.annot
    BY <1>2, <2>1, <2>3
  <2> QED BY <2>2, <2>3
<1> QED BY <1>4, <1>5, <1>6, <1>7 DEF SyncEffect

LEMMA NextKeepsFollows ==
    ASSUME TypeInv, StatusInv, RemovalsAreFollowed, PublishedFollows, [Next]_vars
    PROVE  PublishedFollows'
<1> SUFFICES ASSUME NothingFailed', NEW s \in Service \ unsynced'
             PROVE  Follows(s)'
  BY DEF PublishedFollows
<1>1. NothingFailed /\ faults' = faults
  BY FailuresStay
<1>2. /\ TypeOK /\ P!IndInv /\ queue \in Seq(Job)
      /\ s \notin unsynced => Follows(s)
  BY <1>1 DEF TypeInv, TypeOK, PublishedFollows
<1>3. ASSUME NEW t \in Service, NEW o \in Version, UserOutcome(t, o)
      PROVE  Follows(s)'
  <2>1. PICK n \in Nat : n = Len(watch[t])
    BY <1>2 DEF TypeOK
  <2>2. /\ \A u \in Service \ {t} : api'[u] = api[u] /\ watch'[u] = watch[u]
        /\ Len(watch'[t]) = n + 1
    BY <1>2, <1>3, <2>1, WriteAppends DEF UserOutcome, informerVars
  <2>3. CASE s = t
    <3>1. watch'[s] # <<>>
      BY <2>2, <2>3
    <3> QED BY <3>1 DEF Follows, Overtaken
  <2>4. CASE s # t
    <3>1. UNCHANGED <<services, queue, unsynced>> /\ (Clearing(s) => Clearing(s)')
      BY <1>3, <2>4 DEF UserOutcome, mapperVars, informerVars, Clearing
    <3> QED BY <1>2, <2>2, <2>4, <3>1 DEF Follows, Overtaken, IsServiceManaged
  <2> QED BY <2>3, <2>4
<1>4. ASSUME NEW t \in Service, InformerSees(t)
      PROVE  Follows(s)'
  <2>1. UNCHANGED <<services, api, unsynced, call>> /\ (Clearing(s) => Clearing(s)')
    BY <1>4 DEF InformerSees, mapperVars, Clearing
  <2>2. /\ Contains(queue', SeenJob(t)) /\ (watch'[t] = <<>> => api[t] = Head(watch[t]))
        /\ \A x : Contains(queue, x) => Contains(queue', x)
    <3>1. PICK j \in Job : j = SeenJob(t) /\ queue' = Enqueue(queue, j)
      BY <1>4, SeeingQueues DEF InformerSees, SeenJob
    <3> QED BY <1>2, <1>4, <3>1, SeeingQueues, QueueHolds
  <2>3. \A u \in Service \ {t} : watch'[u] = watch[u]
    BY <1>2, <1>4, SeeingShifts DEF TypeOK
  <2>4. CASE s = t
    BY <2>1, <2>2, <2>4 DEF Follows, Overtaken, SeenJob, IsServiceManaged
  <2>5. CASE s # t
    BY <1>2, <2>1, <2>2, <2>3, <2>5 DEF Follows, Overtaken, IsServiceManaged
  <2> QED BY <2>4, <2>5
<1>5. CASE RunSyncService
  <2>1. PICK t \in Service :
            /\ SyncEffect(t) /\ call = NoCall /\ queue # <<>> /\ queue[1] = SyncServiceJob(t)
            /\ Continues(queue, queue', 1, {UpdateConfigJob})
            /\ unsynced' = unsynced \ {t} /\ UNCHANGED <<api, watch, cache>>
    BY <1>1, <1>2, <1>5, SyncTakesEffect
  <2>2. CASE s = t
    BY <1>1, <2>1, <2>2, SyncFollows
  <2>3. CASE s # t
    <3>1. services'[s] = services[s] /\ ~Clearing(s) /\ s \notin unsynced
      BY <1>2, <2>1, <2>3, SyncsOne DEF Clearing
    <3>2. Contains(queue, SyncServiceJob(s)) => Contains(queue', SyncServiceJob(s))
      BY <1>2, <2>1, <2>3, SyncsOne
    <3> QED BY <1>2, <2>1, <3>1, <3>2 DEF Follows, Overtaken, IsServiceManaged
  <2> QED BY <2>2, <2>3
<1>6. CASE WorkerWrites
  <2>1. PICK t \in Service, o \in Object :
            /\ t = call.svc /\ Write(t, o) /\ UNCHANGED <<services, cache, unsynced>>
            /\ queue' = queue \/ queue' = Enqueue(queue, UpdateConfigJob)
    BY <1>2, <1>6 DEF WorkerWrites, TypeOK, APICall, mapperVars, informerVars
  <2>2. PICK n \in Nat : n = Len(watch[t])
    BY <1>2 DEF TypeOK
  <2>3. /\ \A u \in Service \ {t} : api'[u] = api[u] /\ watch'[u] = watch[u]
        /\ Len(watch'[t]) = n + 1
    BY <1>2, <2>1, <2>2, WriteAppends DEF Version
  <2>4. Contains(queue, SyncServiceJob(s)) => Contains(queue', SyncServiceJob(s))
    BY <1>2, <2>1, QueueHolds, JobsAre
  <2>5. CASE s = t
    <3>1. watch'[s] # <<>>
      BY <2>3, <2>5
    <3> QED BY <3>1 DEF Follows, Overtaken
  <2>6. CASE s # t
    BY <1>2, <2>1, <2>3, <2>4, <2>6 DEF Follows, Overtaken, Clearing, IsServiceManaged
  <2> QED BY <2>5, <2>6
<1>7. CASE RunRemoveService
  <2>1. PICK t \in Service, m \in {"unset", "true", "false"} :
            /\ call = NoCall /\ queue # <<>> /\ queue[1] = RemoveServiceJob(t, m)
            /\ \A u \in Service \ {t} : services'[u] = services[u]
            /\ \E J \in {{}, {CleanupJob, UpdateConfigJob}} : Continues(queue, queue', 1, J)
            /\ \A u \in Service :
                   Contains(queue, SyncServiceJob(u)) => Contains(queue', SyncServiceJob(u))
            /\ UNCHANGED <<api, watch, unsynced>>
    BY <1>2, <1>7, RemovesOne
  <2>2. CASE s = t
    <3>1. 1 \in 1..Len(queue) /\ queue[1].type = "RemoveService" /\ queue[1].svc = s
      BY <1>2, <2>1, <2>2, TailContinues DEF RemoveServiceJob
    <3>2. Followed(1)
      BY <3>1 DEF RemovalsAreFollowed
    <3>3. \A j \in 1 + 1..Len(queue) : j \in 1..Len(queue)
      OBVIOUS
    <3>4. api[s] = Absent \/ watch[s] # <<>> \/ Contains(queue, SyncServiceJob(s))
      BY <3>1, <3>2, <3>3 DEF Followed, Contains
    <3> QED BY <2>1, <3>4 DEF Follows, Overtaken, IsServiceManaged
  <2>3. CASE s # t
    BY <1>2, <2>1, <2>3 DEF Follows, Overtaken, Clearing, IsServiceManaged
  <2> QED BY <2>2, <2>3
<1>8. CASE Restart
  <2>1. unsynced' = {t \in Service : api[t] # Absent} /\ api' = api
    BY <1>8 DEF Restart
  <2> QED BY <2>1 DEF Follows, IsServiceManaged
<1>9. CASE Minor
  <2>1. Clearing(s) => Clearing(s)'
    BY <1>9 DEF Minor, Clearing
  <2> QED BY <1>2, <1>9, <2>1 DEF Minor, Follows, Overtaken, IsServiceManaged
<1> QED BY <1>3, <1>4, <1>5, <1>6, <1>7, <1>8, <1>9, StepKinds

FollowInv == StatusInv /\ FirstSyncsFirst /\ RemovalsAreFollowed /\ PublishedFollows

LEMMA FollowInvHolds == Spec => [](TypeInv /\ FollowInv)
<1>1. Init => FollowInv
  <2> SUFFICES ASSUME Init PROVE FollowInv
    OBVIOUS
  <2>1. /\ api = [s \in Service |-> Absent] /\ watch = [s \in Service |-> <<>>] /\ cache = api
        /\ unsynced = {} /\ queue = <<>> /\ call = NoCall
    BY DEF Init
  <2>2. StatusInv
    BY <2>1 DEF StatusInv, ConsistentAt, VersionAt
  <2>3. FirstSyncsFirst /\ RemovalsAreFollowed
    BY <2>1 DEF FirstSyncsFirst, FirstQueued, RemovalsAreFollowed
  <2>4. PublishedFollows
    BY <2>1 DEF PublishedFollows, Follows, IsServiceManaged
  <2> QED BY <2>2, <2>3, <2>4 DEF FollowInv
<1>2. TypeInv /\ FollowInv /\ [Next]_vars => FollowInv'
  BY NextKeepsStatus, NextKeepsFirst, NextKeepsFollowed, NextKeepsFollows DEF FollowInv
<1> QED BY <1>1, <1>2, TypesHold, PTL DEF Spec

(* Only a cleanup or an outsider takes a port from the backend.            *)
LEMMA PortsAreDeleted ==
    ASSUME TypeInv, [Next]_vars, NEW p, p \in backend \ backend'
    PROVE  RunCleanup \/ reply'.op = "PortVanishes"
<1>1. TypeOK /\ P!IndInv
  BY DEF TypeInv
<1>2. CASE RunSyncService
  <2>1. queue # <<>> /\ Head(queue).svc \in Service
    BY <1>1, <1>2, QueueTyped, JobsAre DEF RunSyncService, Takes, TypeOK
  <2>2. PICK s \in Service : SyncOutcome(s)
    BY <1>1, <1>2, <2>1, SyncDoes
  <2>3. ASSUME NEW ports, NEW annot, P!MapService(s, ports, annot)
        PROVE  backend \subseteq backend'
    BY <2>3 DEF P!MapService, P!CheckFails, P!KeepPort, P!UseKnownPort, P!UseNewPort,
                P!ProvisionFails, P!ProvisionPort
  <2>4. backend \subseteq backend'
    BY <2>2, <2>3 DEF SyncOutcome, mapperVars, P!UnmapService
  <2> QED BY <2>4
<1>3. CASE RunRemoveService
  <2>1. UNCHANGED backend
    BY <1>3 DEF RunRemoveService, mapperVars, PM!UnmapService
  <2> QED BY <2>1
<1>4. CASE Restart
  <2>1. backend \subseteq backend'
    BY <1>4 DEF Restart, PM!NewPortMapper, PM!ProvisionPort
  <2> QED BY <2>1
<1>5. CASE PortVanishes
  BY <1>5 DEF PortVanishes, PM!PortVanishes, PM!Reply
<1>6. ASSUME NEW s \in Service,
             User(s) \/ InformerAdds(s) \/ InformerSees(s) \/ InformerResyncs(s)
      PROVE  UNCHANGED backend
  BY <1>1, <1>6, UserDoes DEF UserOutcome, InformerAdds, InformerSees, InformerResyncs, mapperVars
<1>7. CASE \/ HandleAuxUpdated \/ PeriodicCleanup \/ WorkerWrites \/ WorkerWriteFails
           \/ RunRemoveCleanupBarrier \/ RunUpdateConfig \/ UNCHANGED vars
  <2>1. UNCHANGED backend
    BY <1>7 DEF HandleAuxUpdated, PeriodicCleanup, WorkerWrites, WorkerWriteFails,
                RunRemoveCleanupBarrier, RunUpdateConfig, vars, mapperVars
  <2> QED BY <2>1
<1> QED BY <1>2, <1>3, <1>4, <1>5, <1>6, <1>7 DEF Next, Worker

(* Whatever the users do and whenever the controller restarts: as long as  *)
(* no call fails, a cleanup deletes no port that a managed service         *)
(* publishes.  The first syncs run before it, removals of a service that   *)
(* was created again have a sync behind them, and a service that moves is  *)
(* about to have its status cleared.                                       *)
THEOREM CleanupsSparePublished == Spec => CleanupSparesPublished
<1> DEFINE Step ==
        \A s \in Service :
            (/\ reply'.op = "CleanupPorts" /\ NothingFailed
             /\ IsServiceManaged(api[s]) /\ (s \in unsynced \/ ~Overtaken(s)))
                => api[s].ingress \notin backend \ backend'
<1>1. TypeInv /\ FollowInv /\ [Next]_vars => [Step]_vars
  <2> SUFFICES ASSUME TypeInv, FollowInv, [Next]_vars, NEW s \in Service,
                      reply'.op = "CleanupPorts", NothingFailed, IsServiceManaged(api[s]),
                      s \in unsynced \/ ~Overtaken(s), api[s].ingress \in backend \ backend'
               PROVE  FALSE
    OBVIOUS
  <2>1. /\ TypeOK /\ P!IndInv /\ queue \in Seq(Job) /\ FirstQueued
        /\ \A t \in Service \ unsynced : Follows(t)
    BY DEF TypeInv, TypeOK, FollowInv, FirstSyncsFirst, PublishedFollows
  <2>2. RunCleanup
    BY PortsAreDeleted
  <2>3. queue # <<>> /\ queue[1].type = "Cleanup" /\ call = NoCall
    BY <2>1, <2>2, TailContinues DEF RunCleanup, Takes
  <2>4. unsynced = {}
    BY <2>1, <2>3, HeadIsNotLate DEF Late
  <2>5. api[s].ingress # NoPort
    BY <2>1, ControllerAssumption DEF TypeOK, PM!TypeOK
  <2>6. services[s].l3port = api[s].ingress
    BY <2>1, <2>3, <2>4, <2>5 DEF Follows, Clearing
  <2>7. [P!Next]_(P!vars)
    BY <2>1, NextUsesMapper
  <2>8. UNCHANGED P!vars \/ (backend \ backend') \cap {services[t].l3port : t \in Service} = {}
    BY <2>1, <2>7, MapperAssumptionHolds, P!StepSparesMapped
  <2> QED BY <2>6, <2>8 DEF P!vars
<1> QED BY <1>1, FollowInvHolds, PTL DEF Spec, CleanupSparesPublished

-----------------------------------------------------------------------------
(* The call that the worker is about to make, if it can be accepted, is    *)
(* based on the cached version, which is the present one; it publishes     *)
(* nothing new for a service that is not of type LoadBalancer.             *)
Published(o) == o # Absent /\ o.ingress # NoPort

CallIsBased ==
    call # NoCall /\ call.fresh =>
        LET c == cache[call.svc]
        IN  /\ watch[call.svc] = <<>> /\ c \in Object /\ SameBut(call.obj, c)
            /\ Published(call.obj) => Published(c) \/ c.lb

LEMMA NextKeepsBased == TypeInv /\ CallIsBased /\ [Next]_vars => CallIsBased'
<1> SUFFICES ASSUME TypeInv, CallIsBased, [Next]_vars, call' # NoCall, call'.fresh
             PROVE  LET c == cache'[call'.svc]
                    IN  /\ watch'[call'.svc] = <<>> /\ c \in Object /\ SameBut(call'.obj, c)
                        /\ Published(call'.obj) => Published(c) \/ c.lb
  BY DEF CallIsBased, Published, SameBut
<1> USE DEF CallIsBased
<1>1. TypeOK /\ P!IndInv
  BY DEF TypeInv
<1>2. ASSUME NEW s \in Service, NEW o \in Version, UserOutcome(s, o)
      PROVE  /\ call = call' /\ cache' = cache /\ watch'[call'.svc] = watch[call'.svc]
  <2>1. PICK n \in Nat : n = Len(watch[s])
    BY <1>1 DEF TypeOK
  <2>2. cache' = cache /\ \A t \in Service \ {s} : watch'[t] = watch[t]
    BY <1>1, <1>2, <2>1, WriteAppends DEF UserOutcome, informerVars
  <2>3. call # NoCall /\ call.svc # s /\ call' = call
    <3>1. CASE call # NoCall /\ call.svc = s
      <4>1. call \in APICall /\ call' = [call EXCEPT !.fresh = FALSE]
        BY <1>1, <1>2, <3>1 DEF UserOutcome, TypeOK
      <4>2. call'.fresh = FALSE
        BY <4>1 DEF APICall
      <4> QED BY <4>2
    <3> QED BY <1>2, <3>1 DEF UserOutcome
  <2>4. call.svc \in Service
    BY <1>1, <2>3 DEF TypeOK, APICall
  <2> QED BY <2>2, <2>3, <2>4
<1>3. ASSUME NEW s \in Service, InformerSees(s)
      PROVE  call = call' /\ cache'[call.svc] = cache[call.svc] /\ watch'[call.svc] = watch[call.svc]
  <2>1. /\ watch[s] # <<>> /\ UNCHANGED call
        /\ \A t \in Service \ {s} : cache'[t] = cache[t] /\ watch'[t] = watch[t]
    BY <1>1, <1>3, SeeingShifts DEF InformerSees, TypeOK
  <2>2. call.svc \in Service \ {s}
    BY <1>1, <2>1 DEF TypeOK, APICall
  <2> QED BY <2>1, <2>2
<1>4. CASE RunSyncService
  <2>1. PICK s \in Service :
            /\ SyncEffect(s) /\ call = NoCall /\ queue # <<>> /\ queue[1] = SyncServiceJob(s)
            /\ Continues(queue, queue', 1, {UpdateConfigJob})
            /\ UNCHANGED <<watch, cache>>
    BY <1>1, <1>4, SyncTakesEffect
  <2>2. /\ cache[s] \in Object /\ call'.svc = s /\ watch[s] = <<>>
        /\ SameBut(call'.obj, cache[s])
    BY <1>1, <2>1, SyncsOne
  <2>3. Published(call'.obj) => Published(cache[s]) \/ cache[s].lb
    <3>1. ASSUME NEW o, NEW managed, NEW annot, NEW ingress, Sends(s, o, managed, annot, ingress)
          PROVE  call'.obj = o /\ o.ingress = ingress
      BY <3>1 DEF Sends, Calls
    <3>2. \/ call'.obj.ingress \in {NoPort, cache[s].ingress}
          \/ cache[s].lb
      BY <2>1, <3>1 DEF SyncEffect, Skips, TakesOver, Clears, Releases, Maps
    <3> QED BY <2>2, <3>2, ObjectFields DEF Published
  <2> QED BY <2>1, <2>2, <2>3
<1>5. CASE WorkerWrites \/ Restart
  BY <1>5 DEF WorkerWrites, Restart
<1>6. CASE RunRemoveService \/ Minor
  <2>1. call' = call /\ UNCHANGED <<watch, cache>>
    BY <1>1, <1>6 DEF RunRemoveService, apiVars, informerVars, Minor
  <2> QED BY <2>1
<1> QED BY <1>2, <1>3, <1>4, <1>5, <1>6, StepKinds

-----------------------------------------------------------------------------
(* A version is published only if every version before it is; only the     *)
(* first one after the cached version may be the one that publishes a      *)
(* service, and then the cached version is of type LoadBalancer.           *)
IngressFollows(s) ==
    \A i \in 1..Len(watch[s]) : Published(VersionAt(s, i)) =>
        \A j \in 0..i - 1 :
            /\ VersionAt(s, j) # Absent
            /\ Published(VersionAt(s, j)) \/ (j = 0 /\ cache[s].lb)

LEMMA WriteKeepsIngress ==
    ASSUME TypeInv, NEW s \in Service, NEW o \in Version, Write(s, o), cache' = cache,
           IngressFollows(s),
           Published(o) => /\ api[s] # Absent
                           /\ Published(api[s]) \/ (watch[s] = <<>> /\ cache[s].lb)
    PROVE  IngressFollows(s)'
<1>1. TypeOK /\ Pipeline(s)
  BY DEF TypeInv
<1>2. PICK n \in Nat : n = Len(watch[s])
  BY <1>1 DEF TypeOK
<1>3. /\ Len(watch'[s]) = n + 1 /\ VersionAt(s, n + 1)' = o
      /\ \A i \in 0..n : VersionAt(s, i)' = VersionAt(s, i)
  BY <1>1, <1>2, WriteAppends
<1>4. api[s] = VersionAt(s, n) /\ (watch[s] = <<>> => n = 0)
  BY <1>1, <1>2 DEF Pipeline
<1> SUFFICES ASSUME NEW i \in 1..n + 1, Published(VersionAt(s, i)'), NEW j \in 0..i - 1
             PROVE  /\ VersionAt(s, j)' # Absent
                    /\ Published(VersionAt(s, j)') \/ (j = 0 /\ cache[s].lb)
  BY <1>3 DEF IngressFollows, Published
<1>5. VersionAt(s, j)' = VersionAt(s, j) /\ j \in 0..n
  BY <1>3
<1>6. CASE i \in 1..n
  BY <1>2, <1>3, <1>5, <1>6 DEF IngressFollows
<1>7. CASE i = n + 1 /\ j = n
  BY <1>3, <1>4, <1>5, <1>7
<1>8. CASE i = n + 1 /\ j # n
  <2>1. n \in 1..n /\ j \in 0..n - 1 /\ Published(VersionAt(s, n))
    BY <1>3, <1>4, <1>5, <1>8
  <2> QED BY <1>2, <1>5, <2>1 DEF IngressFollows
<1> QED BY <1>6, <1>7, <1>8

LEMMA SeeingKeepsIngress ==
    ASSUME TypeInv, NEW s \in Service, InformerSees(s), IngressFollows(s)
    PROVE  IngressFollows(s)'
<1>1. TypeOK
  BY DEF TypeInv
<1>2. PICK n \in Nat : n = Len(watch[s])
  BY <1>1 DEF TypeOK
<1>3. /\ n > 0 /\ Len(watch'[s]) = n - 1
      /\ \A i \in 0..n - 1 : VersionAt(s, i)' = VersionAt(s, i + 1)
  BY <1>1, <1>2, SeeingShifts
<1> SUFFICES ASSUME NEW i \in 1..n - 1, Published(VersionAt(s, i)'), NEW j \in 0..i - 1
             PROVE  VersionAt(s, j)' # Absent /\ Published(VersionAt(s, j)')
  BY <1>3 DEF IngressFollows, Published
<1>4. /\ VersionAt(s, i)' = VersionAt(s, i + 1) /\ VersionAt(s, j)' = VersionAt(s, j + 1)
      /\ i + 1 \in 1..n /\ j + 1 \in 0..(i + 1) - 1 /\ j + 1 # 0
  BY <1>3
<1> QED BY <1>2, <1>4 DEF IngressFollows

LEMMA NextKeepsIngress ==
    ASSUME TypeInv, CallIsBased, \A s \in Service : IngressFollows(s), [Next]_vars
    PROVE  \A s \in Service : IngressFollows(s)'
<1>1. TypeOK /\ P!IndInv /\ \A s \in Service : Pipeline(s)
  BY DEF TypeInv
<1>2. ASSUME UNCHANGED <<watch, cache>>
      PROVE  \A s \in Service : IngressFollows(s)'
  BY <1>2 DEF IngressFollows, VersionAt, Published
<1>3. ASSUME NEW s \in Service, NEW o \in Version, Write(s, o), cache' = cache,
             Published(o) => /\ api[s] # Absent
                             /\ Published(api[s]) \/ (watch[s] = <<>> /\ cache[s].lb)
      PROVE  \A t \in Service : IngressFollows(t)'
  <2>1. PICK n \in Nat : n = Len(watch[s])
    BY <1>1 DEF TypeOK
  <2>2. \A t \in Service \ {s} : watch'[t] = watch[t]
    BY <1>1, <1>3, <2>1, WriteAppends
  <2>3. \A t \in Service \ {s} : IngressFollows(t)'
    BY <1>3, <2>2 DEF IngressFollows, VersionAt, Published
  <2> QED BY <1>3, <2>3, WriteKeepsIngress
<1>4. ASSUME NEW s \in Service, NEW o \in Version, UserOutcome(s, o)
      PROVE  \A t \in Service : IngressFollows(t)'
  <2>1. Published(o) => Published(api[s])
    BY <1>4 DEF UserOutcome, Published
  <2> QED BY <1>3, <1>4, <2>1 DEF UserOutcome, informerVars, Published
<1>5. ASSUME NEW s \in Service, InformerSees(s)
      PROVE  \A t \in Service : IngressFollows(t)'
  <2>1. PICK n \in Nat : n = Len(watch[s])
    BY <1>1 DEF TypeOK
  <2>2. \A t \in Service \ {s} : cache'[t] = cache[t] /\ watch'[t] = watch[t]
    BY <1>1, <1>5, <2>1, SeeingShifts
  <2>3. \A t \in Service \ {s} : IngressFollows(t)'
    BY <2>2 DEF IngressFollows, VersionAt, Published
  <2> QED BY <1>5, <2>3, SeeingKeepsIngress
<1>6. CASE WorkerWrites
  <2>1. PICK s \in Service, o \in Object :
            /\ s = call.svc /\ o = call.obj /\ Write(s, o) /\ cache' = cache
            /\ call # NoCall /\ call.fresh
    BY <1>1, <1>6 DEF WorkerWrites, TypeOK, APICall, informerVars
  <2>2. /\ watch[s] = <<>> /\ cache[s] \in Object
        /\ Published(o) => Published(cache[s]) \/ cache[s].lb
    BY <2>1 DEF CallIsBased
  <2>3. api[s] = cache[s] /\ cache[s] # Absent
    BY <1>1, <2>2, ObjectFields DEF Pipeline, VersionAt
  <2> QED BY <1>3, <2>1, <2>2, <2>3 DEF Version
<1>7. CASE RunSyncService \/ RunRemoveService \/ Minor
  <2>1. UNCHANGED <<watch, cache>>
    BY <1>1, <1>7 DEF RunSyncService, RunRemoveService, Minor, apiVars, informerVars
  <2> QED BY <1>2, <2>1
<1>8. CASE Restart
  <2>1. watch' = [s \in Service |-> <<>>]
    BY <1>8 DEF Restart
  <2> QED BY <2>1 DEF IngressFollows
<1> QED BY <1>4, <1>5, <1>6, <1>7, <1>8, StepKinds

-----------------------------------------------------------------------------
(* Without "recreate", a service is created only when the removal of the   *)
(* last one of its name has been handled: a deletion is the last version.  *)
RemovalIsLast(s) ==
    /\ \A i \in 1..Len(watch[s]) : i < Len(watch[s]) => VersionAt(s, i) # Absent
    /\ \A m \in {"unset", "true", "false"} :
           Contains(queue, RemoveServiceJob(s, m)) => api[s] = Absent

LEMMA PendingRemoval ==
    ASSUME TypeOK, NEW s \in Service, NEW m \in {"unset", "true", "false"},
           Contains(queue, RemoveServiceJob(s, m))
    PROVE  RemovalPending(s)
<1>1. PICK i \in 1..Len(queue) : queue[i] = RemoveServiceJob(s, m)
  BY DEF Contains
<1>2. queue[i].type = "RemoveService" /\ queue[i].svc = s
  BY <1>1 DEF RemoveServiceJob
<1> QED BY <1>2 DEF RemovalPending

LEMMA NextKeepsRemovals ==
    ASSUME "recreate" \notin UserOps, TypeInv, CallIsBased,
           \A s \in Service : RemovalIsLast(s), [Next]_vars
    PROVE  \A s \in Service : RemovalIsLast(s)'
<1>1. TypeOK /\ P!IndInv /\ queue \in Seq(Job) /\ \A s \in Service : Pipeline(s)
  BY DEF TypeInv, TypeOK
<1>2. ASSUME NEW s \in Service, UNCHANGED <<api, watch, cache>>,
             \A m \in {"unset", "true", "false"} :
                 Contains(queue', RemoveServiceJob(s, m)) => Contains(queue, RemoveServiceJob(s, m))
      PROVE  RemovalIsLast(s)'
  BY <1>2 DEF RemovalIsLast, VersionAt
<1>3. ASSUME NEW s \in Service, NEW o \in Version, Write(s, o), cache' = cache,
             queue' = queue \/ queue' = Enqueue(queue, UpdateConfigJob),
             api[s] = Absent => ~RemovalPending(s)
      PROVE  \A t \in Service : RemovalIsLast(t)'
  <2>1. PICK n \in Nat : n = Len(watch[s])
    BY <1>1 DEF TypeOK
  <2>2. /\ \A t \in Service \ {s} : api'[t] = api[t] /\ watch'[t] = watch[t]
        /\ Len(watch'[s]) = n + 1
        /\ \A i \in 0..n : VersionAt(s, i)' = VersionAt(s, i)
    BY <1>1, <1>3, <2>1, WriteAppends
  <2>3. \A t \in Service, m \in {"unset", "true", "false"} :
            Contains(queue', RemoveServiceJob(t, m)) => Contains(queue, RemoveServiceJob(t, m))
    <3>1. \A x : Contains(Enqueue(queue, UpdateConfigJob), x) <=>
                    Contains(queue, x) \/ x = UpdateConfigJob
      BY <1>1, JobsAre, QueueHolds
    <3>2. \A t, m : RemoveServiceJob(t, m) # UpdateConfigJob
      BY JobsDiffer
    <3> QED BY <1>3, <3>1, <3>2
  <2>4. \A t \in Service \ {s} : RemovalIsLast(t)'
    BY <1>3, <2>2, <2>3 DEF RemovalIsLast, VersionAt
  <2>5. \A m \in {"unset", "true", "false"} : ~Contains(queue, RemoveServiceJob(s, m))
    BY <1>1, <1>3, PendingRemoval DEF RemovalIsLast
  <2>6. api[s] = VersionAt(s, n) /\ (api[s] = Absent => n = 0)
    BY <1>1, <1>3, <2>1 DEF Pipeline, RemovalPending
  <2>7. ASSUME NEW i \in 1..n
        PROVE  VersionAt(s, i)' # Absent
    <3>1. CASE i < n
      BY <2>1, <2>2, <2>7, <3>1 DEF RemovalIsLast
    <3>2. CASE i = n
      BY <2>2, <2>6, <2>7, <3>2
    <3> QED BY <2>7, <3>1, <3>2
  <2>8. RemovalIsLast(s)'
    <3>1. \A i \in 1..n + 1 : i < n + 1 => i \in 1..n
      OBVIOUS
    <3> QED BY <2>2, <2>3, <2>5, <2>7, <3>1 DEF RemovalIsLast
  <2> QED BY <2>4, <2>8
<1>4. ASSUME NEW s \in Service, NEW o \in Version, UserOutcome(s, o)
      PROVE  \A t \in Service : RemovalIsLast(t)'
  <2>1. api[s] = Absent => ~RemovalPending(s)
    BY <1>4 DEF UserOutcome
  <2> QED BY <1>3, <1>4, <2>1 DEF UserOutcome, informerVars
<1>5. ASSUME NEW s \in Service, InformerSees(s)
      PROVE  \A t \in Service : RemovalIsLast(t)'
  <2>1. PICK n \in Nat : n = Len(watch[s])
    BY <1>1 DEF TypeOK
  <2>2. /\ \A t \in Service \ {s} : cache'[t] = cache[t] /\ watch'[t] = watch[t]
        /\ n > 0 /\ Len(watch'[s]) = n - 1 /\ UNCHANGED api
        /\ \A i \in 0..n - 1 : VersionAt(s, i)' = VersionAt(s, i + 1)
    BY <1>1, <1>5, <2>1, SeeingShifts DEF InformerSees
  <2>3. PICK j \in Job : /\ j = SeenJob(s) /\ queue' = Enqueue(queue, j)
                         /\ Head(watch[s]) = VersionAt(s, 1)
    BY <1>5, SeeingQueues DEF InformerSees, SeenJob
  <2>4. \A x : Contains(queue', x) <=> Contains(queue, x) \/ x = j
    BY <1>1, <2>3, QueueHolds
  <2>5. ASSUME NEW t \in Service, NEW m \in {"unset", "true", "false"},
               Contains(queue', RemoveServiceJob(t, m))
        PROVE  api'[t] = Absent
    <3>1. CASE Contains(queue, RemoveServiceJob(t, m))
      BY <2>2, <3>1 DEF RemovalIsLast
    <3>2. CASE RemoveServiceJob(t, m) = j
      <4>1. t = s /\ VersionAt(s, 1) = Absent
        BY <2>3, <3>2, JobsDiffer DEF SeenJob
      <4>2. ~(1 < n)
        BY <2>1, <2>2, <4>1 DEF RemovalIsLast
      <4>3. api[s] = VersionAt(s, n) /\ n = 1
        <5>1. n = 1
          BY <2>2, <4>2
        <5> QED BY <1>1, <2>1, <5>1 DEF Pipeline
      <4> QED BY <2>2, <4>1, <4>3
    <3> QED BY <2>4, <2>5, <3>1, <3>2
  <2>6. \A t \in Service \ {s} : RemovalIsLast(t)'
    BY <2>2, <2>5 DEF RemovalIsLast, VersionAt
  <2>7. RemovalIsLast(s)'
    <3>1. ASSUME NEW i \in 1..n - 1, i < n - 1
          PROVE  VersionAt(s, i)' # Absent
      <4>1. i + 1 \in 1..n /\ i + 1 < n /\ VersionAt(s, i)' = VersionAt(s, i + 1)
        BY <2>2, <3>1
      <4> QED BY <2>1, <4>1 DEF RemovalIsLast
    <3> QED BY <2>2, <2>5, <3>1 DEF RemovalIsLast
  <2> QED BY <2>6, <2>7
<1>6. CASE RunSyncService
  <2>1. PICK s \in Service :
            /\ SyncEffect(s) /\ call = NoCall /\ queue # <<>> /\ queue[1] = SyncServiceJob(s)
            /\ Continues(queue, queue', 1, {UpdateConfigJob})
            /\ UNCHANGED <<api, watch, cache>>
    BY <1>1, <1>6, SyncTakesEffect
  <2>2. \A t \in Service, m \in {"unset", "true", "false"} :
            Contains(queue', RemoveServiceJob(t, m)) => Contains(queue, RemoveServiceJob(t, m))
    BY <1>1, <2>1, SyncsOne
  <2> QED BY <1>2, <2>1, <2>2
<1>7. CASE WorkerWrites
  <2>1. PICK s \in Service, o \in Object :
            /\ s = call.svc /\ o = call.obj /\ Write(s, o) /\ cache' = cache
            /\ call # NoCall /\ call.fresh
            /\ queue' = queue \/ queue' = Enqueue(queue, UpdateConfigJob)
    BY <1>1, <1>7 DEF WorkerWrites, TypeOK, APICall, informerVars
  <2>2. watch[s] = <<>> /\ cache[s] \in Object
    BY <2>1 DEF CallIsBased
  <2>3. api[s] = cache[s] /\ cache[s] # Absent
    BY <1>1, <2>2, ObjectFields DEF Pipeline, VersionAt
  <2> QED BY <1>3, <2>1, <2>3 DEF Version
<1>8. CASE RunRemoveService
  <2>1. /\ UNCHANGED <<api, watch, cache>>
        /\ \A t \in Service, m \in {"unset", "true", "false"} :
               Contains(queue', RemoveServiceJob(t, m)) => Contains(queue, RemoveServiceJob(t, m))
    BY <1>1, <1>8, RemovesOne
  <2> QED BY <1>2, <2>1
<1>9. CASE Restart
  BY <1>9 DEF Restart, RemovalIsLast, Contains
<1>10. CASE Minor
  BY <1>2, <1>10 DEF Minor
<1> QED BY <1>4, <1>5, <1>6, <1>7, <1>8, <1>9, <1>10, StepKinds

-----------------------------------------------------------------------------
StaysInv ==
    /\ CallIsBased
    /\ \A s \in Service : IngressFollows(s) /\ RemovalIsLast(s)

(* The worker decides by the cached version.  If that is not of type       *)
(* LoadBalancer and shows no address, no later version shows one.          *)
LEMMA ReleasedIsUnpublished ==
    ASSUME TypeInv, NEW s \in Service, IngressFollows(s), cache[s] \in Object,
           cache[s].ingress = NoPort, ~cache[s].lb
    PROVE  ~Published(api[s])
<1>1. TypeOK /\ Pipeline(s)
  BY DEF TypeInv
<1>2. PICK n \in Nat : n = Len(watch[s])
  BY <1>1 DEF TypeOK
<1>3. api[s] = VersionAt(s, n) /\ VersionAt(s, 0) = cache[s]
  BY <1>1, <1>2 DEF Pipeline, VersionAt
<1>4. CASE n = 0
  BY <1>3, <1>4 DEF Published
<1>5. CASE n # 0
  <2>1. n \in 1..n /\ 0 \in 0..n - 1
    BY <1>5
  <2> QED BY <1>2, <1>3, <2>1 DEF IngressFollows, Published
<1> QED BY <1>4, <1>5

(* Unless services are created again too early: a service that publishes   *)
(* an address is never unmapped, whatever calls fail, and whatever newer   *)
(* versions the worker does not see yet.                                   *)
THEOREM PublishedStayMapped == "recreate" \notin UserOps => (Spec => PublishedStaysMapped)
<1> SUFFICES ASSUME "recreate" \notin UserOps
             PROVE  Spec => PublishedStaysMapped
  OBVIOUS
<1> DEFINE Step ==
        \A s \in Service :
            crashes' = crashes /\ PM!IsMapped(s) /\ ~PM!IsMapped(s)'
                => api[s] = Absent \/ api[s].ingress = NoPort
<1>1. Init => StaysInv
  <2> SUFFICES ASSUME Init PROVE StaysInv
    OBVIOUS
  <2>1. watch = [s \in Service |-> <<>>] /\ queue = <<>> /\ call = NoCall
    BY DEF Init
  <2> QED BY <2>1 DEF StaysInv, CallIsBased, IngressFollows, RemovalIsLast, Contains
<1>2. TypeInv /\ StaysInv /\ [Next]_vars => StaysInv'
  <2> SUFFICES ASSUME TypeInv, StaysInv, [Next]_vars
               PROVE  StaysInv'
    OBVIOUS
  <2>1. CallIsBased /\ \A s \in Service : IngressFollows(s) /\ RemovalIsLast(s)
    BY DEF StaysInv
  <2>2. CallIsBased'
    BY <2>1, NextKeepsBased
  <2>3. \A s \in Service : IngressFollows(s)'
    BY <2>1, NextKeepsIngress
  <2>4. \A s \in Service : RemovalIsLast(s)'
    BY <2>1, NextKeepsRemovals
  <2> QED BY <2>2, <2>3, <2>4 DEF StaysInv
<1>3. TypeInv /\ StaysInv /\ [Next]_vars => [Step]_vars
  <2> SUFFICES ASSUME TypeInv, StaysInv, [Next]_vars, NEW s \in Service, crashes' = crashes,
                      services[s].l3port # NoPort, services'[s].l3port = NoPort
               PROVE  ~Published(api[s])
    BY DEF PM!IsMapped, Published
  <2>1. /\ TypeOK /\ P!IndInv /\ queue \in Seq(Job) /\ crashes \in Nat
        /\ IngressFollows(s) /\ RemovalIsLast(s)
    BY ControllerAssumption DEF TypeInv, TypeOK, StaysInv
  <2>2. CASE RunSyncService
    <3>1. PICK t \in Service :
              /\ SyncEffect(t) /\ call = NoCall /\ queue # <<>> /\ queue[1] = SyncServiceJob(t)
              /\ Continues(queue, queue', 1, {UpdateConfigJob})
      BY <2>1, <2>2, SyncTakesEffect
    <3>2. t = s
      BY <2>1, <3>1, SyncsOne
    <3>3. cache[s] \in Object /\ Releases(s, cache[s])
      <4>1. services' # services
        OBVIOUS
      <4>2. ASSUME NEW port \in L3Port
            PROVE  ~MapsTo(s, cache[s], port)
        <5> SUFFICES ASSUME MapsTo(s, cache[s], port)
                     PROVE  FALSE
          OBVIOUS
        <5>1. PICK r : r = [l3port |-> port, ports |-> cache[s].ports]
          OBVIOUS
        <5>2. services' = [services EXCEPT ![s] = r] /\ r.l3port = port
          BY <5>1 DEF MapsTo
        <5>3. services'[s].l3port = port
          BY <2>1, <5>2 DEF TypeOK, PM!TypeOK
        <5> QED BY <5>3, ControllerAssumption
      <4> QED BY <3>1, <3>2, <4>1, <4>2 DEF SyncEffect, Skips, TakesOver, Clears, MapFails,
                                            mapperVars
    <3> QED BY <2>1, <3>3, ReleasedIsUnpublished DEF Releases
  <2>3. CASE RunRemoveService
    <3>1. PICK t \in Service, m \in {"unset", "true", "false"} :
              /\ queue # <<>> /\ queue[1] = RemoveServiceJob(t, m)
              /\ \A u \in Service \ {t} : services'[u] = services[u]
      BY <2>1, <2>3, RemovesOne
    <3>2. t = s /\ 1 \in 1..Len(queue)
      BY <2>1, <3>1, TailContinues
    <3>3. api[s] = Absent
      BY <2>1, <3>1, <3>2 DEF RemovalIsLast, Contains
    <3> QED BY <3>3 DEF Published
  <2>4. CASE Restart
    BY <2>1, <2>4 DEF Restart
  <2>5. services' = services => FALSE
    OBVIOUS
  <2>6. (\E t \in Service : InformerSees(t)) \/ WorkerWrites \/ Minor => services' = services
    BY DEF InformerSees, WorkerWrites, Minor, mapperVars
  <2>7. (\E t \in Service, o \in Version : UserOutcome(t, o)) => services' = services
    BY DEF UserOutcome, mapperVars
  <2> QED BY <2>2, <2>3, <2>4, <2>5, <2>6, <2>7, StepKinds
<1> QED BY <1>1, <1>2, <1>3, TypesHold, PTL DEF Spec, PublishedStaysMapped

=============================================================================
