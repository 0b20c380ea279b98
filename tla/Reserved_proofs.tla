---------------------------- MODULE Reserved_proofs ----------------------------
(***************************************************************************)
(* Proofs about what the mapper reserves for the services as the API       *)
(* server has them (Controller): for users who create and delete services, *)
(* over whole queues of jobs, restarts, and versions the cache has not     *)
(* seen yet.                                                               *)
(***************************************************************************)
EXTENDS Published_proofs

(* Users who do not change the ports, the type or the management of a      *)
(* service, and do not create one too early; nobody deletes ports of the   *)
(* backend.                                                                *)
Settled == UserOps \subseteq {"create", "delete", "touch"}

-----------------------------------------------------------------------------
(* What the mapper has of a service, and whether that is what an object    *)
(* asks for.                                                               *)
Reserves(s, port, ports) == services[s] = [l3port |-> port, ports |-> ports]

(* The ports that the mapper knows exist.                                  *)
KnownPortsExist == l3ports \subseteq backend

LEMMA NextKeepsKnown ==
    ASSUME "vanish" \notin UserOps, TypeInv, KnownPortsExist, [Next]_vars
    PROVE  KnownPortsExist'
<1>1. TypeOK /\ P!IndInv
  BY DEF TypeInv
<1>2. UNCHANGED mapperVars => KnownPortsExist'
  BY DEF mapperVars, KnownPortsExist
<1>3. CASE RunSyncService
  <2>1. queue # <<>> /\ Head(queue).svc \in Service
    BY <1>1, <1>3, QueueTyped, JobsAre DEF RunSyncService, Takes, TypeOK
  <2>2. PICK s \in Service : SyncOutcome(s)
    BY <1>1, <1>3, <2>1, SyncDoes
  <2>3. ASSUME NEW ports, NEW annot, P!MapService(s, ports, annot)
        PROVE  KnownPortsExist'
    <3>1. CASE P!FailMapping(s) /\ (UNCHANGED backend \/ \E p \in L3Port : P!ProvisionPort(p))
      BY <3>1 DEF P!FailMapping, P!mapperVars, P!ProvisionPort, KnownPortsExist
    <3>2. CASE P!KeepPort(s, ports, annot)
      BY <3>2 DEF P!KeepPort, P!CanKeep, P!Assign, KnownPortsExist
    <3>3. CASE P!UseKnownPort(s, ports, annot)
      BY <3>3 DEF P!UseKnownPort, P!FindL3PortFor, P!Assign, KnownPortsExist
    <3>4. CASE P!UseNewPort(s, ports, annot)
      BY <3>4 DEF P!UseNewPort, P!ProvisionPort, P!Assign, KnownPortsExist
    <3> QED BY <2>3, <3>1, <3>2, <3>3, <3>4 DEF P!MapService, P!CheckFails, P!ProvisionFails
  <2>4. P!UnmapService(s) => KnownPortsExist'
    BY DEF P!UnmapService, KnownPortsExist
  <2> QED BY <1>2, <2>2, <2>3, <2>4 DEF SyncOutcome
<1>4. CASE RunRemoveService
  BY <1>2, <1>4 DEF RunRemoveService, PM!UnmapService, KnownPortsExist
<1>5. CASE RunCleanup
  <2>1. PM!CleanupPorts => KnownPortsExist'
    BY DEF PM!CleanupPorts, PM!UsedL3Ports, KnownPortsExist
  <2> QED BY <1>2, <1>5, <2>1 DEF RunCleanup
<1>6. CASE Restart
  BY <1>6 DEF Restart, PM!NewPortMapper, KnownPortsExist
<1>7. ASSUME NEW s \in Service,
             User(s) \/ InformerAdds(s) \/ InformerSees(s) \/ InformerResyncs(s)
      PROVE  UNCHANGED mapperVars
  BY <1>1, <1>7, UserDoes DEF UserOutcome, InformerAdds, InformerSees, InformerResyncs
<1>8. CASE \/ HandleAuxUpdated \/ PeriodicCleanup \/ WorkerWrites \/ WorkerWriteFails
           \/ RunRemoveCleanupBarrier \/ RunUpdateConfig \/ UNCHANGED vars
  BY <1>2, <1>8 DEF HandleAuxUpdated, PeriodicCleanup, WorkerWrites, WorkerWriteFails,
                    RunRemoveCleanupBarrier, RunUpdateConfig, vars
<1> QED BY <1>2, <1>3, <1>4, <1>5, <1>6, <1>7, <1>8 DEF Next, Worker, PortVanishes

(* A sync of a service that is mapped leaves the mapping as it is.         *)
LEMMA SyncKeepsMapping ==
    ASSUME TypeInv, ConfigInv, KnownPortsExist, NEW s \in Service, cache[s] \in Object,
           P!IsMapped(s), Maps(s, cache[s]), NEW port, MapsTo(s, cache[s], port)
    PROVE  services' = services /\ port = services[s].l3port
<1> DEFINE c == cache[s]
<1>1. /\ P!IndInv /\ services \in [Service -> [l3port : L3Port \cup {NoPort}, ports : SUBSET L4Port]]
      /\ MappingFollows(s)
  BY DEF TypeInv, TypeOK, PM!TypeOK, ConfigInv
<1>2. c.ports \in P!PortSets /\ c.annot \in L3Port \cup {NoPort} /\ c.ports = services[s].ports
  BY <1>1, ObjectFields, SameMapper DEF MappingFollows
<1>3. P!MapService(s, c.ports, c.annot) /\ P!Next
  BY <1>2 DEF Maps, P!Next
<1>4. services[s].l3port \in backend
  BY <1>1 DEF P!IndInv, P!MappedPortIsKnown, KnownPortsExist
<1>5. reply'.op = "MapService" /\ reply'.svcs = {s}
  BY <1>3 DEF P!MapService, P!CheckFails, P!KeepPort, P!UseKnownPort, P!UseNewPort,
              P!ProvisionFails, P!FailMapping, P!Assign, P!Reply
<1>6. PICK r : r = [l3port |-> port, ports |-> c.ports]
  OBVIOUS
<1>7. services' = [services EXCEPT ![s] = r] /\ r.l3port = port /\ r.ports = c.ports
  BY <1>6 DEF MapsTo
<1>8. services'[s] = r
  BY <1>1, <1>7
<1>9. port = services[s].l3port
  <2>1. UNCHANGED P!vars => port = services[s].l3port
    BY <1>7, <1>8 DEF P!vars
  <2>2. \/ UNCHANGED P!vars
        \/ services'[s].l3port = services[s].l3port
    BY <1>1, <1>2, <1>3, <1>4, <1>5, <1>7, <1>8, MapperAssumptionHolds, P!StepIsStable
  <2> QED BY <1>7, <1>8, <2>1, <2>2
<1>10. r = services[s]
  BY <1>1, <1>2, <1>6, <1>9
<1>11. services' = services
  BY <1>1, <1>7, <1>10
<1> QED BY <1>9, <1>11

-----------------------------------------------------------------------------
(* Every version of a service, and every one that is about to be written,  *)
(* is of type LoadBalancer, and is annotated only if it is managed.        *)
Plain(o) == o.lb /\ o.managed # "false" /\ (o.managed = "unset" => o.annot = NoPort)

PlainAt(s) == \A i \in 0..Len(watch[s]) : VersionAt(s, i) # Absent => Plain(VersionAt(s, i))

ServicesArePlain ==
    /\ \A s \in Service : PlainAt(s)
    /\ call # NoCall => Plain(call.obj)

LEMMA WriteKeepsPlain ==
    ASSUME TypeOK, NEW s \in Service, NEW o \in Version, Write(s, o), cache' = cache,
           o # Absent => Plain(o), \A t \in Service : PlainAt(t)
    PROVE  \A t \in Service : PlainAt(t)'
<1>1. PICK n \in Nat : n = Len(watch[s])
  BY DEF TypeOK
<1>2. /\ \A t \in Service \ {s} : api'[t] = api[t] /\ watch'[t] = watch[t]
      /\ Len(watch'[s]) = n + 1 /\ VersionAt(s, n + 1)' = o
      /\ \A i \in 0..n : VersionAt(s, i)' = VersionAt(s, i)
  BY <1>1, WriteAppends
<1>3. \A i \in 0..n + 1 : i \in 0..n \/ i = n + 1
  OBVIOUS
<1>4. PlainAt(s)'
  BY <1>1, <1>2, <1>3 DEF PlainAt, Plain
<1>5. ASSUME NEW t \in Service \ {s} PROVE PlainAt(t)'
  <2>1. watch'[t] = watch[t] /\ cache'[t] = cache[t]
    BY <1>2
  <2>2. \A i : VersionAt(t, i)' = VersionAt(t, i)
    BY <2>1 DEF VersionAt
  <2> QED BY <2>1, <2>2 DEF PlainAt
<1> QED BY <1>4, <1>5

LEMMA SeeingKeepsPlain ==
    ASSUME TypeOK, NEW s \in Service, InformerSees(s), \A t \in Service : PlainAt(t)
    PROVE  \A t \in Service : PlainAt(t)'
<1>1. PICK n \in Nat : n = Len(watch[s])
  BY DEF TypeOK
<1>2. /\ \A t \in Service \ {s} : cache'[t] = cache[t] /\ watch'[t] = watch[t]
      /\ n > 0 /\ Len(watch'[s]) = n - 1
      /\ \A i \in 0..n - 1 : VersionAt(s, i)' = VersionAt(s, i + 1)
  BY <1>1, SeeingShifts
<1>3. \A i \in 0..n - 1 : i + 1 \in 0..n
  BY <1>2
<1>4. PlainAt(s)'
  BY <1>1, <1>2, <1>3 DEF PlainAt, Plain
<1>5. ASSUME NEW t \in Service \ {s} PROVE PlainAt(t)'
  <2>1. watch'[t] = watch[t] /\ cache'[t] = cache[t]
    BY <1>2
  <2>2. \A i : VersionAt(t, i)' = VersionAt(t, i)
    BY <2>1 DEF VersionAt
  <2> QED BY <2>1, <2>2 DEF PlainAt
<1> QED BY <1>4, <1>5

(* The versions the API server, and the cache, have.                       *)
LEMMA PresentIsPlain ==
    ASSUME TypeInv, ServicesArePlain, NEW s \in Service
    PROVE  /\ api[s] # Absent => Plain(api[s])
           /\ cache[s] # Absent => Plain(cache[s])
<1>1. Pipeline(s) /\ PlainAt(s) /\ Len(watch[s]) \in 0..Len(watch[s]) /\ 0 \in 0..Len(watch[s])
  BY DEF TypeInv, TypeOK, ServicesArePlain
<1>2. VersionAt(s, 0) = cache[s]
  BY DEF VersionAt
<1> QED BY <1>1, <1>2 DEF Pipeline, PlainAt

LEMMA SettledUser ==
    ASSUME Settled, NEW s \in Service, NEW o \in Version, UserOutcome(s, o)
    PROVE  \/ o = Absent
           \/ o = api[s] /\ "touch" \in UserOps
           \/ /\ api[s] = Absent /\ o \in Object /\ ~RemovalPending(s)
              /\ o.lb /\ o.managed = "unset" /\ o.annot = NoPort /\ o.ingress = NoPort
<1>1. UserOps \cap {"ports", "type", "disown"} = {} /\ "recreate" \notin UserOps
  BY DEF Settled
<1> QED BY <1>1 DEF UserOutcome

LEMMA NextKeepsPlain ==
    ASSUME Settled, TypeInv, ServicesArePlain, [Next]_vars
    PROVE  ServicesArePlain'
<1> DEFINE Versions == \A s \in Service : PlainAt(s)
           Calling == call # NoCall => Plain(call.obj)
<1>1. TypeOK /\ P!IndInv /\ Versions /\ Calling
  BY DEF TypeInv, ServicesArePlain
<1>2. /\ UNCHANGED <<watch, cache>> => Versions'
      /\ UNCHANGED call \/ call' = NoCall => Calling'
  BY <1>1 DEF PlainAt, VersionAt, Plain
<1> SUFFICES Versions' /\ Calling'
  BY DEF ServicesArePlain
<1> HIDE DEF Versions, Calling
<1>3. ASSUME NEW s \in Service, NEW o \in Version, UserOutcome(s, o)
      PROVE  Versions' /\ Calling'
  <2>1. o # Absent => Plain(o)
    BY <1>3, SettledUser, PresentIsPlain DEF Plain
  <2>2. Versions'
    BY <1>1, <1>3, <2>1, WriteKeepsPlain DEF UserOutcome, informerVars, Versions
  <2>3. Calling'
    <3>1. CASE call' = call
      BY <1>2, <3>1
    <3>2. CASE call # NoCall /\ call' = [call EXCEPT !.fresh = FALSE]
      <4>1. call \in APICall
        BY <1>1, <3>2 DEF TypeOK
      <4>2. call'.obj = call.obj
        BY <3>2, <4>1 DEF APICall
      <4> QED BY <1>1, <3>2, <4>2 DEF Calling, Plain
    <3> QED BY <1>3, <3>1, <3>2 DEF UserOutcome
  <2> QED BY <2>2, <2>3
<1>4. ASSUME NEW s \in Service, InformerSees(s)
      PROVE  Versions' /\ Calling'
  <2>1. UNCHANGED call
    BY <1>4 DEF InformerSees
  <2>2. Versions'
    BY <1>1, <1>4, SeeingKeepsPlain DEF Versions
  <2> QED BY <1>2, <2>1, <2>2
<1>5. CASE RunSyncService
  <2>1. PICK s \in Service : SyncEffect(s) /\ UNCHANGED <<watch, cache>>
    BY <1>1, <1>5, SyncTakesEffect
  <2>2. cache[s] \in Object => Plain(cache[s])
    BY PresentIsPlain, ObjectFields
  <2>3. ASSUME cache[s] \in Object, NEW o, NEW annot, NEW ingress,
               Sends(s, o, "true", annot, ingress)
        PROVE  Calling'
    <3>1. Plain(o) /\ call'.obj = o
      BY <2>2, <2>3 DEF Sends, Calls, SameBut, Plain
    <3> QED BY <3>1 DEF Calling, Plain
  <2>4. ~(cache[s] \in Object /\ Releases(s, cache[s]))
    BY <2>2 DEF Releases, Plain
  <2>5. UNCHANGED call \/ Calling'
    BY <2>1, <2>3, <2>4 DEF SyncEffect, Skips, TakesOver, Clears, MapFails, MapsTo
  <2> QED BY <1>2, <2>1, <2>5
<1>6. CASE WorkerWrites
  <2>1. call # NoCall /\ Write(call.svc, call.obj) /\ call' = NoCall /\ cache' = cache
    BY <1>6 DEF WorkerWrites, informerVars
  <2>2. PICK s \in Service, o \in Object : s = call.svc /\ o = call.obj
    BY <1>1, <2>1 DEF TypeOK, APICall
  <2>3. Plain(o) /\ o \in Version
    BY <1>1, <2>1, <2>2 DEF Calling, Version
  <2>4. Versions'
    BY <1>1, <2>1, <2>2, <2>3, WriteKeepsPlain DEF Versions
  <2> QED BY <1>2, <2>1, <2>4
<1>7. CASE Restart
  <2>1. /\ watch' = [s \in Service |-> <<>>] /\ cache' = api /\ call' = NoCall
    BY <1>7 DEF Restart
  <2>2. \A s \in Service : PlainAt(s)'
    BY <2>1, PresentIsPlain DEF PlainAt, VersionAt, Plain
  <2> QED BY <1>2, <2>1, <2>2 DEF Versions
<1>8. CASE RunRemoveService \/ Minor
  <2>1. UNCHANGED <<watch, cache>> /\ (call' = call \/ call' = NoCall)
    BY <1>8 DEF RunRemoveService, Minor, apiVars, informerVars
  <2> QED BY <1>2, <2>1
<1> QED BY <1>3, <1>4, <1>5, <1>6, <1>7, <1>8, StepKinds

(* What a sync does to a plain service.                                    *)
SettledSync(s, c) ==
    \/ ~IsServiceManaged(c) /\ UNCHANGED services /\ UNCHANGED call
    \/ /\ c \in Object /\ c.managed = "unset" /\ c.annot = NoPort /\ c.ingress = NoPort
       /\ UNCHANGED services /\ \E o : Sends(s, o, "true", NoPort, NoPort)
    \/ c \in Object /\ MapFails(s)
    \/ /\ c \in Object
       /\ \E port \in L3Port :
              /\ MapsTo(s, c, port)
              /\ P!IsMapped(s) => services' = services /\ port = services[s].l3port

SettledInv ==
    /\ StatusInv /\ ConfigInv /\ CallIsBased /\ (\A s \in Service : RemovalIsLast(s))
    /\ KnownPortsExist /\ ServicesArePlain

LEMMA SettledSyncs ==
    ASSUME TypeInv, SettledInv, NEW s \in Service, SyncEffect(s)
    PROVE  SettledSync(s, cache[s])
<1> DEFINE c == cache[s]
<1>1. c \in Object => Plain(c) /\ Consistent(c)
  <2>1. TypeOK /\ ServicesArePlain /\ ConsistentAt(s)
    BY DEF TypeInv, SettledInv, StatusInv
  <2>2. 0 \in 0..Len(watch[s]) /\ VersionAt(s, 0) = c
    BY <2>1 DEF VersionAt, TypeOK
  <2> QED BY <2>1, <2>2, PresentIsPlain, ObjectFields DEF ConsistentAt
<1>2. ~(c \in Object /\ Clears(s, c)) /\ ~(c \in Object /\ Releases(s, c))
  BY <1>1 DEF Clears, Releases, Plain, Consistent
<1>3. CASE Skips(s)
  BY <1>3 DEF Skips, SettledSync, mapperVars
<1>4. CASE c \in Object /\ TakesOver(s, c)
  <2>1. c.annot = NoPort /\ c.ingress = NoPort
    BY <1>1, <1>4 DEF TakesOver, Plain, Consistent
  <2> QED BY <1>4, <2>1 DEF TakesOver, SettledSync, mapperVars
<1>5. CASE c \in Object /\ Maps(s, c) /\ MapFails(s)
  BY <1>5 DEF SettledSync
<1>6. ASSUME c \in Object, Maps(s, c), NEW port \in L3Port, MapsTo(s, c, port)
      PROVE  SettledSync(s, c)
  <2>1. P!IsMapped(s) => services' = services /\ port = services[s].l3port
    BY <1>6, SyncKeepsMapping DEF SettledInv
  <2> QED BY <1>6, <2>1 DEF SettledSync
<1> QED BY <1>2, <1>3, <1>4, <1>5, <1>6 DEF SyncEffect

LEMMA SettledInvHolds == Settled => (Spec => [](TypeInv /\ SettledInv))
<1> SUFFICES ASSUME Settled
             PROVE  Spec => [](TypeInv /\ SettledInv)
  OBVIOUS
<1>1. PortsFixed /\ "recreate" \notin UserOps /\ "vanish" \notin UserOps
  BY DEF Settled, PortsFixed
<1>2. Init => SettledInv
  <2> SUFFICES ASSUME Init PROVE SettledInv
    OBVIOUS
  <2>1. /\ api = [s \in Service |-> Absent] /\ watch = [s \in Service |-> <<>>] /\ cache = api
        /\ queue = <<>> /\ call = NoCall
    BY DEF Init
  <2>2. /\ services = [s \in Service |-> P!Unmapped] /\ l3ports = {}
        /\ agentCfg = [a \in Agent |-> [s \in Service |-> P!Unmapped]]
    <3>1. /\ services = [s \in Service |-> PM!Unmapped] /\ l3ports = backend \ Foreign
          /\ backend = Foreign
          /\ agentCfg = [a \in Agent |-> [s \in Service |-> PM!Unmapped]]
      BY DEF Init, PM!Init
    <3>2. l3ports = {}
      BY <3>1
    <3> QED BY <3>1, <3>2 DEF PM!Unmapped, P!Unmapped
  <2>3. StatusInv
    BY <2>1 DEF StatusInv, ConsistentAt, VersionAt
  <2>4. ConfigInv
    BY <2>1, <2>2 DEF ConfigInv, VersionsFollow, MappingFollows, CallFollows, ConfigExclusive,
                      P!IsMapped, P!Unmapped
  <2>5. CallIsBased /\ \A s \in Service : RemovalIsLast(s)
    BY <2>1 DEF CallIsBased, RemovalIsLast, Contains
  <2>6. KnownPortsExist /\ ServicesArePlain
    BY <2>1, <2>2 DEF KnownPortsExist, ServicesArePlain, PlainAt, VersionAt
  <2> QED BY <2>3, <2>4, <2>5, <2>6 DEF SettledInv
<1>3. TypeInv /\ SettledInv /\ [Next]_vars => SettledInv'
  <2> SUFFICES ASSUME TypeInv, SettledInv, [Next]_vars
               PROVE  SettledInv'
    OBVIOUS
  <2>1. /\ StatusInv /\ ConfigInv /\ CallIsBased /\ (\A s \in Service : RemovalIsLast(s))
        /\ KnownPortsExist /\ ServicesArePlain
    BY DEF SettledInv
  <2>2. StatusInv' /\ ConfigInv' /\ CallIsBased'
    BY <1>1, <2>1, NextKeepsStatus, NextKeepsConfig, NextKeepsBased
  <2>3. \A s \in Service : RemovalIsLast(s)'
    BY <1>1, <2>1, NextKeepsRemovals
  <2>4. KnownPortsExist' /\ ServicesArePlain'
    BY <1>1, <2>1, NextKeepsKnown, NextKeepsPlain
  <2> QED BY <2>2, <2>3, <2>4 DEF SettledInv
<1> QED BY <1>2, <1>3, TypesHold, PTL DEF Spec

-----------------------------------------------------------------------------
(* The call that publishes a service shows the port that the mapper has    *)
(* reserved for it.                                                        *)
CallReserved ==
    call # NoCall /\ call.fresh /\ call.obj.ingress # NoPort =>
        Reserves(call.svc, call.obj.ingress, call.obj.ports)

(* A sync writes an annotation or a status only as the mapper has it, or   *)
(* as the cached version has it.                                           *)
LEMMA SyncAsks ==
    ASSUME TypeInv, NEW s \in Service, SettledSync(s, cache[s]), call = NoCall, call' # NoCall
    PROVE  LET c == cache[s]
               o == call'.obj
           IN  /\ c \in Object /\ call'.svc = s /\ (call'.fresh <=> watch[s] = <<>>)
               /\ o \in Object /\ o.ports = c.ports
               /\ \/ o.annot = NoPort /\ o.ingress = NoPort
                  \/ /\ services'[s].l3port # c.annot
                     /\ o.annot = (IF c.ingress = NoPort THEN services'[s].l3port ELSE c.annot)
                     /\ o.ingress = NoPort /\ services'[s].ports = c.ports
                  \/ /\ o.annot = c.annot /\ o.ingress = c.annot
                     /\ services'[s] = [l3port |-> c.annot, ports |-> c.ports]
<1> DEFINE c == cache[s]
<1>1. services \in [Service -> [l3port : L3Port \cup {NoPort}, ports : SUBSET L4Port]]
  BY DEF TypeInv, TypeOK, PM!TypeOK
<1>2. ASSUME NEW o, NEW managed, NEW annot, NEW ingress, Sends(s, o, managed, annot, ingress)
      PROVE  /\ call'.svc = s /\ call'.obj = o /\ (call'.fresh <=> watch[s] = <<>>)
             /\ o \in Object /\ o.ports = c.ports /\ o.annot = annot /\ o.ingress = ingress
  <2>1. PICK update : call' = [svc |-> s, obj |-> o, fresh |-> watch[s] = <<>>, update |-> update]
    BY <1>2 DEF Sends, Calls
  <2> QED BY <1>2, <2>1 DEF Sends, SameBut
<1>3. c \in Object
  BY DEF SettledSync
<1>4. ASSUME NEW o, Sends(s, o, "true", NoPort, NoPort)
      PROVE  call'.obj.annot = NoPort /\ call'.obj.ingress = NoPort
  BY <1>2, <1>4
<1>5. ASSUME NEW port \in L3Port, MapsTo(s, c, port)
      PROVE  services'[s] = [l3port |-> port, ports |-> c.ports]
  <2>1. PICK r : r = [l3port |-> port, ports |-> c.ports]
    OBVIOUS
  <2>2. services' = [services EXCEPT ![s] = r]
    BY <1>5, <2>1 DEF MapsTo
  <2> QED BY <1>1, <2>1, <2>2
<1>6. CASE c \in Object /\ \E o : Sends(s, o, "true", NoPort, NoPort)
  BY <1>2, <1>3, <1>6
<1>7. ASSUME NEW port \in L3Port, MapsTo(s, c, port), port # c.annot
      PROVE  \E o : Sends(s, o, "true", IF c.ingress = NoPort THEN port ELSE c.annot, NoPort)
  BY <1>7 DEF MapsTo
<1>8. ASSUME NEW port \in L3Port, MapsTo(s, c, port), port = c.annot
      PROVE  \E o : Sends(s, o, "true", port, port)
  BY <1>8 DEF MapsTo
<1>9. ASSUME NEW port \in L3Port, MapsTo(s, c, port)
      PROVE  /\ call'.svc = s /\ (call'.fresh <=> watch[s] = <<>>)
             /\ call'.obj \in Object /\ call'.obj.ports = c.ports
             /\ IF port # c.annot
                  THEN /\ call'.obj.annot = (IF c.ingress = NoPort THEN port ELSE c.annot)
                       /\ call'.obj.ingress = NoPort
                  ELSE call'.obj.annot = port /\ call'.obj.ingress = port
  BY <1>2, <1>7, <1>8, <1>9
<1>10. CASE \E port \in L3Port : MapsTo(s, c, port)
  <2>1. PICK port \in L3Port : MapsTo(s, c, port)
    BY <1>10
  <2>2. PICK r : r = services'[s] /\ r = [l3port |-> port, ports |-> c.ports]
    BY <1>5, <2>1
  <2>3. services'[s].l3port = port /\ services'[s].ports = c.ports
    BY <2>2
  <2> QED BY <1>3, <1>5, <1>9, <2>1, <2>3
<1> QED BY <1>6, <1>10 DEF SettledSync, MapFails

(* A step after which a call waits is one before which none did, a sync,   *)
(* or leaves the call and the mappings alone.                              *)
LEMMA WaitingCall ==
    ASSUME TypeInv, [Next]_vars, call' # NoCall, call'.fresh
    PROVE  RunSyncService \/ (call # NoCall /\ call' = call /\ services' = services)
<1>1. TypeOK
  BY DEF TypeInv
<1>2. ASSUME NEW s \in Service, NEW o \in Version, UserOutcome(s, o)
      PROVE  call # NoCall /\ call' = call /\ services' = services
  <2>1. ~(call # NoCall /\ call.svc = s)
    <3> SUFFICES ASSUME call # NoCall, call.svc = s
                 PROVE  FALSE
      OBVIOUS
    <3>1. call \in APICall /\ call' = [call EXCEPT !.fresh = FALSE]
      BY <1>1, <1>2 DEF UserOutcome, TypeOK
    <3>2. call'.fresh = FALSE
      BY <3>1 DEF APICall
    <3> QED BY <3>2
  <2> QED BY <1>2, <2>1 DEF UserOutcome, mapperVars
<1>3. CASE \E s \in Service : InformerSees(s)
  BY <1>3 DEF InformerSees, mapperVars
<1>4. ~WorkerWrites /\ ~Restart
  BY DEF WorkerWrites, Restart
<1>5. ~RunRemoveService
  BY <1>1, RemovesOne
<1>6. CASE Minor
  BY <1>6 DEF Minor
<1> QED BY <1>2, <1>3, <1>4, <1>5, <1>6, StepKinds

(* A sync of a settled service, with all that it leaves alone.             *)
LEMMA RunsSync ==
    ASSUME TypeInv, SettledInv, RunSyncService
    PROVE  \E s \in Service :
               /\ SyncEffect(s) /\ SettledSync(s, cache[s]) /\ call = NoCall
               /\ queue # <<>> /\ queue[1] = SyncServiceJob(s)
               /\ unsynced' = IF faults' = faults THEN unsynced \ {s} ELSE unsynced
               /\ UNCHANGED <<api, watch, cache, crashes>>
               /\ \A t \in Service \ {s} : services'[t] = services[t]
<1>1. TypeOK /\ P!IndInv
  BY DEF TypeInv
<1>2. PICK s \in Service :
          /\ SyncEffect(s) /\ call = NoCall /\ queue # <<>> /\ queue[1] = SyncServiceJob(s)
          /\ Continues(queue, queue', 1, {UpdateConfigJob})
          /\ unsynced' = IF faults' = faults THEN unsynced \ {s} ELSE unsynced
          /\ UNCHANGED <<api, watch, cache, crashes>>
  BY <1>1, SyncTakesEffect
<1>3. SettledSync(s, cache[s])
  BY <1>2, SettledSyncs
<1>4. \A t \in Service \ {s} : services'[t] = services[t]
  BY <1>1, <1>2, SyncsOne
<1> QED BY <1>2, <1>3, <1>4

LEMMA NextReservesCalled ==
    ASSUME TypeInv, SettledInv, CallReserved, [Next]_vars
    PROVE  CallReserved'
<1> SUFFICES ASSUME call' # NoCall, call'.fresh, call'.obj.ingress # NoPort
             PROVE  services'[call'.svc] = [l3port |-> call'.obj.ingress, ports |-> call'.obj.ports]
  BY DEF CallReserved, Reserves
<1>1. CASE RunSyncService
  <2>1. PICK s \in Service : SettledSync(s, cache[s]) /\ call = NoCall
    BY <1>1, RunsSync
  <2>2. /\ call'.svc = s /\ call'.obj.ports = cache[s].ports
        /\ call'.obj.ingress = cache[s].annot
        /\ services'[s] = [l3port |-> cache[s].annot, ports |-> cache[s].ports]
    BY <2>1, SyncAsks
  <2> QED BY <2>2
<1>2. CASE call # NoCall /\ call' = call /\ services' = services
  BY <1>2 DEF CallReserved, Reserves
<1> QED BY <1>1, <1>2, WaitingCall

(* The present version of a service, when the step of the worker that      *)
(* writes it is none of the user's.                                        *)
LEMMA PresentVersions ==
    ASSUME Settled, TypeInv, SettledInv, [Next]_vars, NEW s \in Service, api'[s] # Absent
    PROVE  \/ api'[s] = api[s]
           \/ /\ api[s] = Absent /\ api'[s].annot = NoPort /\ api'[s].ingress = NoPort
              /\ ~RemovalPending(s) /\ \E o \in Version : UserOutcome(s, o)
           \/ /\ WorkerWrites /\ call # NoCall /\ call.fresh /\ s = call.svc
              /\ api[s] # Absent /\ api'[s] = call.obj /\ services' = services /\ call' = NoCall
<1>1. TypeOK /\ P!IndInv /\ CallIsBased /\ \A t \in Service : Pipeline(t)
  BY DEF TypeInv, SettledInv
<1>2. ASSUME NEW t \in Service, NEW o \in Version, UserOutcome(t, o)
      PROVE  \/ api'[s] = api[s]
             \/ /\ api[s] = Absent /\ api'[s].annot = NoPort /\ api'[s].ingress = NoPort
                /\ ~RemovalPending(s) /\ \E v \in Version : UserOutcome(s, v)
  <2>1. api' = [api EXCEPT ![t] = o] /\ api \in [Service -> Version]
    BY <1>1, <1>2 DEF UserOutcome, Write, TypeOK
  <2>2. CASE t # s
    BY <2>1, <2>2
  <2>3. CASE t = s
    <3>1. api'[s] = o
      BY <2>1, <2>3
    <3> QED BY <1>2, <2>3, <3>1, SettledUser
  <2> QED BY <2>2, <2>3
<1>3. CASE WorkerWrites
  <2>1. /\ call # NoCall /\ call.fresh /\ call \in APICall /\ services' = services
        /\ Write(call.svc, call.obj) /\ api \in [Service -> Version] /\ call' = NoCall
    BY <1>1, <1>3 DEF WorkerWrites, TypeOK, mapperVars
  <2>2. PICK t \in Service, o \in Object :
            t = call.svc /\ o = call.obj /\ api' = [api EXCEPT ![t] = o]
    BY <2>1 DEF APICall, Write
  <2>3. watch[t] = <<>> /\ cache[t] \in Object
    <3>1. call # NoCall /\ call.fresh /\ t = call.svc
      BY <2>1, <2>2
    <3> QED BY <1>1, <3>1 DEF CallIsBased
  <2>4. api[t] # Absent
    BY <1>1, <2>2, <2>3, ObjectFields DEF Pipeline, VersionAt
  <2> QED BY <1>3, <2>1, <2>2, <2>4
<1>4. CASE \/ \E t \in Service : InformerSees(t)
           \/ RunSyncService \/ Restart \/ Minor
  BY <1>1, <1>4 DEF InformerSees, RunSyncService, Restart, Minor, apiVars
<1>5. CASE RunRemoveService
  BY <1>1, <1>5, RemovesOne
<1> QED BY <1>2, <1>3, <1>4, <1>5, StepKinds

-----------------------------------------------------------------------------
(* Until the first restart, the mapper has for every service the port that *)
(* its annotation names, and so has the call that is about to annotate it. *)
AnnotReserved ==
    crashes = 0 =>
        /\ \A s \in Service : api[s] # Absent /\ api[s].annot # NoPort =>
               Reserves(s, api[s].annot, api[s].ports)
        /\ call # NoCall /\ call.fresh /\ call.obj.annot # NoPort =>
               Reserves(call.svc, call.obj.annot, call.obj.ports)

(* A mapping stays until the service is deleted or the process ends.       *)
LEMMA MappingsStay ==
    ASSUME TypeInv, SettledInv, [Next]_vars, ~Restart,
           NEW s \in Service, api[s] # Absent, P!IsMapped(s)
    PROVE  services'[s] = services[s]
<1>1. TypeOK /\ P!IndInv /\ queue \in Seq(Job) /\ RemovalIsLast(s)
  BY DEF TypeInv, TypeOK, SettledInv
<1>2. CASE RunSyncService
  <2>1. PICK t \in Service : /\ SettledSync(t, cache[t])
                             /\ \A u \in Service \ {t} : services'[u] = services[u]
    BY <1>2, RunsSync
  <2>2. CASE t # s
    BY <2>1, <2>2
  <2>3. CASE t = s
    BY <2>1, <2>3 DEF SettledSync, MapFails
  <2> QED BY <2>2, <2>3
<1>3. CASE RunRemoveService
  <2>1. PICK t \in Service, m \in {"unset", "true", "false"} :
            /\ queue # <<>> /\ queue[1] = RemoveServiceJob(t, m)
            /\ \A u \in Service \ {t} : services'[u] = services[u]
    BY <1>1, <1>3, RemovesOne
  <2>2. 1 \in 1..Len(queue)
    BY <1>1, <2>1, TailContinues
  <2>3. t # s
    BY <1>1, <2>1, <2>2 DEF RemovalIsLast, Contains
  <2> QED BY <2>1, <2>3
<1>4. CASE \/ \E t \in Service, o \in Version : UserOutcome(t, o)
           \/ \E t \in Service : InformerSees(t)
           \/ WorkerWrites \/ Minor
  <2>1. services' = services
    BY <1>4 DEF UserOutcome, InformerSees, WorkerWrites, Minor, mapperVars
  <2> QED BY <2>1
<1> QED BY <1>2, <1>3, <1>4, StepKinds

LEMMA RestartCounts ==
    ASSUME TypeInv, [Next]_vars
    PROVE  /\ crashes \in Nat
           /\ Restart => crashes' = crashes + 1
           /\ ~Restart => crashes' = crashes
<1>1. TypeOK /\ crashes \in Nat
  BY ControllerAssumption DEF TypeInv, TypeOK
<1>2. CASE \/ \E t \in Service, o \in Version : UserOutcome(t, o)
           \/ \E t \in Service : InformerSees(t)
           \/ RunSyncService \/ WorkerWrites \/ Minor
  <2>1. crashes' = crashes
    BY <1>2 DEF UserOutcome, InformerSees, RunSyncService, WorkerWrites, Minor, budgetVars
  <2> QED BY <1>1, <2>1 DEF Restart
<1>3. CASE RunRemoveService
  <2>1. crashes' = crashes
    BY <1>3 DEF RunRemoveService, budgetVars
  <2> QED BY <1>1, <2>1 DEF Restart
<1>4. Restart => crashes' = crashes + 1
  BY DEF Restart
<1> QED BY <1>1, <1>2, <1>3, <1>4, StepKinds

LEMMA NextKeepsAnnotated ==
    ASSUME Settled, TypeInv, SettledInv, AnnotReserved, [Next]_vars
    PROVE  AnnotReserved'
<1> SUFFICES ASSUME crashes' = 0
             PROVE  /\ \A s \in Service : api'[s] # Absent /\ api'[s].annot # NoPort =>
                           services'[s] = [l3port |-> api'[s].annot, ports |-> api'[s].ports]
                    /\ call' # NoCall /\ call'.fresh /\ call'.obj.annot # NoPort =>
                           services'[call'.svc] =
                               [l3port |-> call'.obj.annot, ports |-> call'.obj.ports]
  BY DEF AnnotReserved, Reserves
<1>1. ~Restart /\ crashes = 0
  BY RestartCounts
<1>2. ASSUME NEW s \in Service, api[s] # Absent, api[s].annot # NoPort
      PROVE  /\ services[s] = [l3port |-> api[s].annot, ports |-> api[s].ports]
             /\ services'[s] = services[s] /\ services'[s].l3port = api[s].annot
  <2>1. PICK r : r = services[s] /\ r = [l3port |-> api[s].annot, ports |-> api[s].ports]
    BY <1>1, <1>2 DEF AnnotReserved, Reserves
  <2>2. r.l3port = api[s].annot
    BY <2>1
  <2>3. P!IsMapped(s)
    BY <1>2, <2>1, <2>2 DEF P!IsMapped
  <2>4. services'[s] = services[s]
    BY <1>1, <1>2, <2>3, MappingsStay
  <2> QED BY <2>1, <2>2, <2>4
<1>3. ASSUME NEW s \in Service, api'[s] # Absent, api'[s].annot # NoPort
      PROVE  services'[s] = [l3port |-> api'[s].annot, ports |-> api'[s].ports]
  <2>1. CASE api'[s] = api[s]
    BY <1>2, <1>3, <2>1
  <2>2. CASE /\ call # NoCall /\ call.fresh /\ s = call.svc
             /\ api'[s] = call.obj /\ services' = services
    BY <1>1, <1>3, <2>2 DEF AnnotReserved, Reserves
  <2> QED BY <1>3, <2>1, <2>2, PresentVersions
<1>4. ASSUME call' # NoCall, call'.fresh, call'.obj.annot # NoPort
      PROVE  services'[call'.svc] = [l3port |-> call'.obj.annot, ports |-> call'.obj.ports]
  <2>1. CASE RunSyncService
    <3>1. PICK s \in Service : SettledSync(s, cache[s]) /\ call = NoCall
      BY <2>1, RunsSync
    <3> DEFINE c == cache[s]
    <3>2. /\ c \in Object /\ call'.svc = s /\ watch[s] = <<>> /\ call'.obj.ports = c.ports
          /\ \/ /\ services'[s].l3port # c.annot
                /\ call'.obj.annot = (IF c.ingress = NoPort THEN services'[s].l3port ELSE c.annot)
                /\ services'[s].ports = c.ports
             \/ /\ call'.obj.annot = c.annot
                /\ services'[s] = [l3port |-> c.annot, ports |-> c.ports]
      BY <1>4, <3>1, SyncAsks
    <3>3. c = api[s] /\ Consistent(c)
      BY <3>2, CachedVersion DEF SettledInv
    <3>4. CASE /\ services'[s].l3port # c.annot
               /\ call'.obj.annot = (IF c.ingress = NoPort THEN services'[s].l3port ELSE c.annot)
               /\ services'[s].ports = c.ports
      <4>1. c.ingress = NoPort
        BY <1>2, <3>2, <3>3, <3>4, ObjectFields DEF Consistent
      <4>2. services' \in [Service -> [l3port : L3Port \cup {NoPort}, ports : SUBSET L4Port]]
        BY NextKeepsTypes DEF TypeInv, TypeOK, PM!TypeOK
      <4>3. services'[s] = [l3port |-> services'[s].l3port, ports |-> services'[s].ports]
        BY <4>2
      <4> QED BY <3>2, <3>4, <4>1, <4>3
    <3> QED BY <3>2, <3>4
  <2>2. CASE call # NoCall /\ call' = call /\ services' = services
    BY <1>1, <1>4, <2>2 DEF AnnotReserved, Reserves
  <2> QED BY <1>4, <2>1, <2>2, WaitingCall
<1> QED BY <1>3, <1>4

(* While the ports, the types and the management of services do not        *)
(* change, and until the first restart, a service keeps the address it was *)
(* given, in whatever order services come, go and are synced, and whatever *)
(* calls fail.                                                             *)
THEOREM AnnotationsStable == Settled => (Spec => AnnotationStable)
<1> SUFFICES ASSUME Settled
             PROVE  Spec => AnnotationStable
  OBVIOUS
<1> DEFINE Step ==
        \A s \in Service :
            crashes' = 0 /\ api[s] # Absent /\ api'[s] # Absent /\ api[s].annot # NoPort
                => api'[s].annot \in {api[s].annot, NoPort}
<1>1. Init => AnnotReserved
  BY DEF Init, AnnotReserved
<1>2. TypeInv /\ SettledInv /\ AnnotReserved /\ [Next]_vars => AnnotReserved'
  BY NextKeepsAnnotated
<1>3. TypeInv /\ SettledInv /\ AnnotReserved /\ [Next]_vars => [Step]_vars
  <2> SUFFICES ASSUME TypeInv, SettledInv, AnnotReserved, [Next]_vars, NEW s \in Service,
                      crashes' = 0, api[s] # Absent, api'[s] # Absent, api[s].annot # NoPort
               PROVE  api'[s].annot \in {api[s].annot, NoPort}
    OBVIOUS
  <2>1. crashes = 0
    BY RestartCounts
  <2>2. CASE call # NoCall /\ call.fresh /\ s = call.svc /\ api'[s] = call.obj
    <3>1. PICK r : r = services[s] /\ r = [l3port |-> api[s].annot, ports |-> api[s].ports]
      BY <2>1 DEF AnnotReserved, Reserves
    <3>2. call.obj.annot # NoPort =>
              r = [l3port |-> call.obj.annot, ports |-> call.obj.ports]
      BY <2>1, <2>2, <3>1 DEF AnnotReserved, Reserves
    <3>3. r.l3port = api[s].annot
      BY <3>1
    <3>4. call.obj.annot # NoPort => r.l3port = call.obj.annot
      BY <3>2
    <3> QED BY <2>2, <3>3, <3>4
  <2> QED BY <2>2, PresentVersions
<1> QED BY <1>1, <1>2, <1>3, SettledInvHolds, PTL DEF Spec, AnnotationStable

-----------------------------------------------------------------------------
(* A service that is listed at startup and has not been synced yet is      *)
(* cached as it is, unless it has been deleted since; then its removal is  *)
(* seen, or waits in the queue behind its first sync.                      *)
Created == UserOps \subseteq {"create", "delete"}

RemovalQueued(s) ==
    \E m \in {"unset", "true", "false"} : Contains(queue, RemoveServiceJob(s, m))

Listed(s) ==
    /\ watch[s] # <<>> => api[s] = Absent
    /\ cache[s] # Absent \/ RemovalQueued(s)

UnsyncedAreListed == NothingFailed => \A s \in unsynced : Listed(s)

LEMMA CreatedIsSettled == Created => Settled
BY DEF Created, Settled

(* Removal jobs stay, except those that the worker takes or a restart      *)
(* loses.                                                                  *)
LEMMA RemovalsStay ==
    ASSUME TypeInv, [Next]_vars, ~Restart, ~RunRemoveService,
           NEW s \in Service, RemovalQueued(s)
    PROVE  RemovalQueued(s)'
<1>1. TypeOK /\ P!IndInv /\ queue \in Seq(Job)
  BY DEF TypeInv, TypeOK
<1>2. PICK m \in {"unset", "true", "false"} : Contains(queue, RemoveServiceJob(s, m))
  BY DEF RemovalQueued
<1> SUFFICES Contains(queue', RemoveServiceJob(s, m))
  BY DEF RemovalQueued, RemoveServiceJob
<1>3. CASE \E t \in Service, o \in Version : UserOutcome(t, o)
  BY <1>2, <1>3 DEF UserOutcome
<1>4. ASSUME NEW t \in Service, InformerSees(t)
      PROVE  Contains(queue', RemoveServiceJob(s, m))
  <2>1. SeenJob(t) \in Job /\ queue' = Enqueue(queue, SeenJob(t))
    BY <1>4, SeeingQueues DEF InformerSees, SeenJob
  <2> QED BY <1>1, <1>2, <2>1, QueueHolds
<1>5. CASE RunSyncService
  <2>1. PICK t \in Service :
            /\ SyncEffect(t) /\ call = NoCall /\ queue # <<>> /\ queue[1] = SyncServiceJob(t)
            /\ Continues(queue, queue', 1, {UpdateConfigJob})
    BY <1>1, <1>5, SyncTakesEffect
  <2> QED BY <1>1, <1>2, <2>1, SyncsOne
<1>6. CASE WorkerWrites
  <2>1. queue' = queue \/ queue' = Enqueue(queue, UpdateConfigJob)
    BY <1>6 DEF WorkerWrites
  <2> QED BY <1>1, <1>2, <2>1, JobsAre, QueueHolds
<1>7. CASE Minor
  BY <1>2, <1>7 DEF Minor
<1> QED BY <1>3, <1>4, <1>5, <1>6, <1>7, StepKinds

LEMMA NextKeepsListed ==
    ASSUME Created, TypeInv, SettledInv, FirstSyncsFirst, UnsyncedAreListed, [Next]_vars
    PROVE  UnsyncedAreListed'
<1> SUFFICES ASSUME NothingFailed', NEW s \in unsynced'
             PROVE  Listed(s)'
  BY DEF UnsyncedAreListed
<1>1. NothingFailed /\ faults' = faults
  BY FailuresStay
<1>2. /\ TypeOK /\ P!IndInv /\ queue \in Seq(Job) /\ FirstQueued /\ s \in Service
      /\ (call # NoCall => call.svc \notin unsynced) /\ unsynced \subseteq Service
  BY <1>1, NextKeepsTypes DEF TypeInv, TypeOK, FirstSyncsFirst
<1>3. CASE Restart
  <2>1. /\ watch' = [t \in Service |-> <<>>] /\ cache' = api
        /\ unsynced' = {t \in Service : api[t] # Absent}
    BY <1>3 DEF Restart
  <2> QED BY <2>1 DEF Listed
<1>4. CASE RunRemoveService
  <2>1. PICK t \in Service, m \in {"unset", "true", "false"} :
            queue # <<>> /\ queue[1] = RemoveServiceJob(t, m) /\ unsynced' = unsynced
    BY <1>2, <1>4, RemovesOne
  <2>2. Late(1)
    BY <2>1 DEF Late, RemoveServiceJob
  <2> QED BY <1>2, <2>1, <2>2, HeadIsNotLate
<1>5. ASSUME ~Restart
      PROVE  s \in unsynced
  <2>1. CASE RunSyncService
    BY <1>2, <2>1, SyncTakesEffect
  <2>2. CASE RunRemoveService
    BY <1>2, <2>2, RemovesOne
  <2>3. CASE \/ \E t \in Service, o \in Version : UserOutcome(t, o)
             \/ \E t \in Service : InformerSees(t)
             \/ WorkerWrites \/ Minor
    BY <2>3 DEF UserOutcome, InformerSees, WorkerWrites, Minor, informerVars
  <2> QED BY <1>5, <2>1, <2>2, <2>3, StepKinds
<1> SUFFICES ASSUME ~Restart, ~RunRemoveService, s \in unsynced
             PROVE  Listed(s)'
  BY <1>3, <1>4, <1>5
<1>6. Listed(s) /\ (RemovalQueued(s) => RemovalQueued(s)')
  BY <1>1, <1>2, RemovalsStay DEF UnsyncedAreListed
<1>7. ASSUME UNCHANGED <<api[s], watch[s], cache[s]>>
      PROVE  Listed(s)'
  BY <1>6, <1>7 DEF Listed
<1>8. ASSUME NEW t \in Service, NEW o \in Version, UserOutcome(t, o)
      PROVE  Listed(s)'
  <2>1. api' = [api EXCEPT ![t] = o] /\ watch' = [watch EXCEPT ![t] = Append(@, o)]
        /\ cache' = cache /\ api \in [Service -> Version] /\ watch \in [Service -> Seq(Version)]
    BY <1>2, <1>8 DEF UserOutcome, Write, TypeOK, informerVars
  <2>2. CASE t # s
    BY <1>2, <1>7, <2>1, <2>2
  <2>3. CASE t = s
    <3>1. o = Absent
      <4>1. ~RemovalPending(s) => FALSE
        BY <1>2, <1>6, PendingRemoval DEF Listed, RemovalQueued, RemovalPending
      <4> QED BY <1>8, <2>3, <4>1, CreatedIsSettled, SettledUser DEF Created
    <3>2. api'[s] = Absent
      BY <2>1, <2>3, <3>1
    <3> QED BY <1>6, <2>1, <3>2 DEF Listed
  <2> QED BY <2>2, <2>3
<1>9. ASSUME NEW t \in Service, InformerSees(t)
      PROVE  Listed(s)'
  <2>1. PICK n \in Nat : n = Len(watch[t])
    BY <1>2 DEF TypeOK
  <2>2. /\ \A u \in Service \ {t} : cache'[u] = cache[u] /\ watch'[u] = watch[u]
        /\ watch[t] # <<>> /\ api' = api
    BY <1>2, <1>9, <2>1, SeeingShifts DEF InformerSees
  <2>3. CASE t # s
    BY <1>2, <1>7, <2>2, <2>3
  <2>4. CASE t = s
    <3>1. api'[s] = Absent
      BY <1>6, <2>2, <2>4 DEF Listed
    <3>2. CASE cache'[s] # Absent
      BY <3>1, <3>2 DEF Listed
    <3>3. CASE cache'[s] = Absent
      <4>1. /\ cache[s] \in Object /\ Contains(queue', SeenJob(s))
            /\ SeenJob(s) = RemoveServiceJob(s, cache[s].managed)
        BY <1>9, <2>4, <3>3, SeeingQueues DEF SeenJob
      <4>2. PICK m \in {"unset", "true", "false"} : m = cache[s].managed
        BY <4>1, ObjectFields
      <4>3. RemovalQueued(s)'
        BY <4>1, <4>2 DEF RemovalQueued, RemoveServiceJob
      <4> QED BY <3>1, <4>3 DEF Listed
    <3> QED BY <3>2, <3>3
  <2> QED BY <2>3, <2>4
<1>10. CASE WorkerWrites
  <2>1. /\ call # NoCall /\ api' = [api EXCEPT ![call.svc] = call.obj]
        /\ watch' = [watch EXCEPT ![call.svc] = Append(@, call.obj)] /\ cache' = cache
        /\ api \in [Service -> Version] /\ watch \in [Service -> Seq(Version)]
        /\ call.svc # s
    BY <1>2, <1>10 DEF WorkerWrites, Write, TypeOK, informerVars
  <2> QED BY <1>2, <1>7, <2>1
<1>11. CASE RunSyncService \/ Minor
  <2>1. UNCHANGED <<api, watch, cache>>
    BY <1>11 DEF RunSyncService, Minor, apiVars
  <2> QED BY <1>7, <2>1
<1> QED BY <1>8, <1>9, <1>10, <1>11, StepKinds

-----------------------------------------------------------------------------
(* The first sync of a service that publishes an address gives it that     *)
(* address in the mapper, or is about to clear the status.                 *)
LEMMA FirstSyncReserves ==
    ASSUME TypeInv, SettledInv, NothingFailed, faults' = faults, api' = api, watch' = watch,
           NEW s \in Service, SettledSync(s, cache[s]), Listed(s), Published(api[s])
    PROVE  Reserves(s, api[s].ingress, api[s].ports)' \/ Clearing(s)'
<1> DEFINE c == cache[s]
<1>1. /\ watch[s] = <<>> /\ c = api[s] /\ c \in Object /\ Published(c) /\ StatusInv
      /\ services \in [Service -> [l3port : L3Port \cup {NoPort}, ports : SUBSET L4Port]]
  <2>1. watch[s] = <<>> /\ StatusInv
    BY DEF Listed, Published, SettledInv
  <2>2. c = api[s]
    BY <2>1, CachedVersion
  <2> QED BY <2>1, <2>2, ObjectFields DEF Published, TypeInv, TypeOK, PM!TypeOK, Version
<1>2. Consistent(c) /\ Plain(c)
  BY <1>1, CachedVersion, PresentIsPlain DEF SettledInv, Published
<1>3. c.annot = c.ingress /\ c.ingress # NoPort /\ c.managed = "true"
  BY <1>1, <1>2, ObjectFields DEF Consistent, Plain, Published
<1>4. ~MapFails(s)
  BY ControllerAssumption DEF MapFails, NothingFailed, Fault, TypeInv, TypeOK
<1>5. PICK port \in L3Port : MapsTo(s, c, port)
  BY <1>1, <1>3, <1>4 DEF SettledSync, IsServiceManaged, Published
<1>6. CASE port = c.annot
  <2>1. PICK r : r = [l3port |-> port, ports |-> c.ports]
    OBVIOUS
  <2>2. services' = [services EXCEPT ![s] = r]
    BY <1>5, <2>1 DEF MapsTo
  <2>3. services'[s] = r
    BY <1>1, <2>2
  <2> QED BY <1>1, <1>3, <1>6, <2>1, <2>3 DEF Reserves
<1>7. CASE port # c.annot
  <2>1. PICK o : Sends(s, o, "true", c.annot, NoPort)
    BY <1>3, <1>5, <1>7 DEF MapsTo
  <2>2. PICK update \in BOOLEAN :
            call' = [svc |-> s, obj |-> o, fresh |-> watch[s] = <<>>, update |-> update]
    BY <2>1 DEF Sends, Calls
  <2>3. call' # NoCall
    <3>1. call' \in APICall
      BY <2>1, <2>2 DEF Sends, SameBut, APICall
    <3> QED BY <3>1, ControllerAssumption
  <2> QED BY <1>1, <2>1, <2>2, <2>3 DEF Sends, Clearing
<1> QED BY <1>6, <1>7

LEMMA NextKeepsReserved ==
    ASSUME Created, TypeInv, SettledInv, CallReserved, UnsyncedAreListed,
           PublishedIsReserved, [Next]_vars
    PROVE  PublishedIsReserved'
<1> SUFFICES ASSUME NothingFailed', NEW s \in Service, s \notin unsynced', Published(api'[s])
             PROVE  Reserves(s, api[s].ingress, api[s].ports)' \/ Clearing(s)'
  BY DEF PublishedIsReserved, Reserves, Published
<1>1. NothingFailed /\ faults' = faults
  BY FailuresStay
<1>2. TypeOK /\ P!IndInv
  BY DEF TypeInv
<1>3. s \notin unsynced /\ Published(api[s]) =>
          Reserves(s, api[s].ingress, api[s].ports) \/ Clearing(s)
  BY <1>1 DEF PublishedIsReserved, Reserves, Published
<1>4. CASE api'[s] = api[s]
  <2>1. CASE Restart
    BY <2>1 DEF Restart, Published
  <2>2. CASE RunSyncService
    <3>1. PICK t \in Service :
              /\ SettledSync(t, cache[t]) /\ call = NoCall
              /\ unsynced' = unsynced \ {t} /\ UNCHANGED <<api, watch>>
              /\ \A u \in Service \ {t} : services'[u] = services[u]
      BY <1>1, <2>2, RunsSync
    <3>2. CASE t # s
      BY <1>3, <1>4, <3>1, <3>2 DEF Reserves, Clearing
    <3>3. CASE t = s /\ s \in unsynced
      BY <1>1, <1>4, <3>1, <3>3, FirstSyncReserves DEF UnsyncedAreListed
    <3>4. CASE t = s /\ s \notin unsynced
      <4>1. PICK r : r = services[s] /\ r = [l3port |-> api[s].ingress, ports |-> api[s].ports]
        BY <1>3, <1>4, <3>1, <3>4 DEF Reserves, Clearing
      <4>2. r.l3port = api[s].ingress
        BY <4>1
      <4>3. P!IsMapped(s)
        BY <1>4, <4>1, <4>2 DEF P!IsMapped, Published
      <4>4. services' = services
        BY <3>1, <3>4, <4>3 DEF SettledSync, MapFails
      <4> QED BY <1>4, <4>1, <4>4 DEF Reserves
    <3> QED BY <3>2, <3>3, <3>4
  <2>3. CASE RunRemoveService
    <3>1. PICK t \in Service, m \in {"unset", "true", "false"} :
              /\ call = NoCall /\ queue # <<>> /\ queue[1] = RemoveServiceJob(t, m)
              /\ \A u \in Service \ {t} : services'[u] = services[u]
              /\ unsynced' = unsynced
      BY <1>2, <2>3, RemovesOne
    <3>2. queue \in Seq(Job) /\ 1 \in 1..Len(queue)
      BY <1>2, <3>1, TailContinues DEF TypeOK
    <3>3. t # s
      BY <1>4, <3>1, <3>2 DEF SettledInv, RemovalIsLast, Contains, Published
    <3> QED BY <1>3, <1>4, <3>1, <3>3 DEF Reserves, Clearing
  <2>4. CASE Minor
    BY <1>3, <1>4, <2>4 DEF Minor, Reserves, Clearing
  <2>5. CASE \E t \in Service : InformerSees(t)
    BY <1>3, <1>4, <2>5 DEF InformerSees, mapperVars, Reserves, Clearing
  <2>6. CASE WorkerWrites
    <3>1. /\ call # NoCall /\ call.fresh /\ services' = services /\ unsynced' = unsynced
          /\ call \in APICall /\ api' = [api EXCEPT ![call.svc] = call.obj]
          /\ api \in [Service -> Version]
      BY <1>2, <2>6 DEF WorkerWrites, TypeOK, Write, mapperVars, informerVars
    <3>2. CASE call.svc # s
      BY <1>3, <1>4, <3>1, <3>2 DEF Reserves, Clearing
    <3>3. CASE call.svc = s
      <4>1. api'[s] = call.obj
        BY <3>1, <3>3
      <4> QED BY <3>1, <3>3, <4>1 DEF CallReserved, Reserves, Published
    <3> QED BY <3>2, <3>3
  <2>7. ASSUME NEW t \in Service, NEW o \in Version, UserOutcome(t, o)
        PROVE  Reserves(s, api[s].ingress, api[s].ports)' \/ Clearing(s)'
    <3>1. /\ api' = [api EXCEPT ![t] = o] /\ api \in [Service -> Version]
          /\ services' = services /\ unsynced' = unsynced
          /\ call' = call \/ call.svc = t
      BY <1>2, <2>7 DEF UserOutcome, Write, TypeOK, mapperVars, informerVars
    <3>2. t # s
      <4> SUFFICES ASSUME t = s
                   PROVE  FALSE
        OBVIOUS
      <4>1. api'[s] = o
        BY <3>1
      <4>2. o # Absent /\ o.ingress # NoPort /\ api[s] = o
        BY <1>4, <4>1 DEF Published
      <4> QED BY <2>7, <4>2, CreatedIsSettled, SettledUser DEF Created
    <3> QED BY <1>3, <1>4, <3>1, <3>2 DEF Reserves, Clearing
  <2> QED BY <2>1, <2>2, <2>3, <2>4, <2>5, <2>6, <2>7, StepKinds
<1>5. CASE /\ call # NoCall /\ call.fresh /\ s = call.svc
           /\ api'[s] = call.obj /\ services' = services
  BY <1>5 DEF CallReserved, Reserves, Published
<1> QED BY <1>4, <1>5, CreatedIsSettled, PresentVersions DEF Published

ReserveInv ==
    /\ SettledInv /\ FirstSyncsFirst /\ CallReserved /\ UnsyncedAreListed /\ PublishedIsReserved

LEMMA ReserveInvHolds == Created => (Spec => [](TypeInv /\ ReserveInv))
<1> SUFFICES ASSUME Created
             PROVE  Spec => [](TypeInv /\ ReserveInv)
  OBVIOUS
<1>1. Settled
  BY CreatedIsSettled
<1>2. Init => FirstSyncsFirst /\ CallReserved /\ UnsyncedAreListed /\ PublishedIsReserved
  <2> SUFFICES ASSUME Init
               PROVE  FirstSyncsFirst /\ CallReserved /\ UnsyncedAreListed /\ PublishedIsReserved
    OBVIOUS
  <2>1. /\ api = [s \in Service |-> Absent] /\ unsynced = {} /\ queue = <<>> /\ call = NoCall
    BY DEF Init
  <2> QED BY <2>1 DEF FirstSyncsFirst, FirstQueued, CallReserved, UnsyncedAreListed,
                      PublishedIsReserved
<1>3. TypeInv /\ SettledInv /\ FirstSyncsFirst /\ [Next]_vars => FirstSyncsFirst'
  BY NextKeepsFirst
<1>4. TypeInv /\ SettledInv /\ CallReserved /\ [Next]_vars => CallReserved'
  BY NextReservesCalled
<1>5. TypeInv /\ SettledInv /\ FirstSyncsFirst /\ UnsyncedAreListed /\ [Next]_vars
          => UnsyncedAreListed'
  BY NextKeepsListed
<1>6. /\ TypeInv /\ SettledInv /\ CallReserved /\ UnsyncedAreListed
      /\ PublishedIsReserved /\ [Next]_vars
      => PublishedIsReserved'
  BY NextKeepsReserved
<1> QED BY <1>1, <1>2, <1>3, <1>4, <1>5, <1>6, SettledInvHolds, PTL DEF Spec, ReserveInv

(* While services come and go as a whole, and no call fails: what a        *)
(* service publishes is reserved for it, L4 port by L4 port, whenever and  *)
(* however often the controller restarts, from the first sync on until its *)
(* status is about to be cleared.                                          *)
THEOREM PublishedAreReserved == Created => (Spec => []PublishedIsReserved)
<1>1. ReserveInv => PublishedIsReserved
  BY DEF ReserveInv
<1> QED BY <1>1, ReserveInvHolds, PTL

-----------------------------------------------------------------------------
(* After the first restart the services that have not been synced again    *)
(* are annotated as they were before it: without conflicts.  The call that *)
(* publishes one that has been synced does not conflict with those that    *)
(* wait for their first sync: it shows what it was annotated with.         *)
NoConflict(s, t) ==
    api[s] # Absent /\ api[t] # Absent /\ api[s].annot # NoPort /\ api[s].annot = api[t].annot
        => api[s].ports \cap api[t].ports = {}

CallSpares(s) ==
    /\ api[s] # Absent /\ api[s].annot # NoPort
    /\ call # NoCall /\ call.fresh /\ call.obj.ingress = api[s].annot
    => api[s].ports \cap call.obj.ports = {}

UnsyncedExclusive ==
    NothingFailed /\ crashes <= 1 =>
        \A s \in unsynced : CallSpares(s) /\ \A t \in unsynced \ {s} : NoConflict(s, t)

(* The present version of a service that has not been synced yet changes   *)
(* only by its deletion.                                                   *)
LEMMA UnsyncedVersions ==
    ASSUME Created, TypeInv, SettledInv, FirstSyncsFirst, UnsyncedAreListed, [Next]_vars,
           NothingFailed, ~Restart, NEW s \in unsynced'
    PROVE  /\ s \in unsynced /\ s \in Service
           /\ api'[s] # Absent => api'[s] = api[s]
<1>1. /\ TypeOK /\ P!IndInv /\ unsynced \subseteq Service /\ (s \in unsynced => Listed(s))
      /\ call # NoCall => call.svc \notin unsynced
  BY DEF TypeInv, TypeOK, FirstSyncsFirst, UnsyncedAreListed
<1>2. s \in unsynced /\ s \in Service
  <2>1. CASE RunSyncService
    BY <1>1, <2>1, SyncTakesEffect
  <2>2. CASE RunRemoveService
    BY <1>1, <2>2, RemovesOne
  <2>3. CASE \/ \E t \in Service, o \in Version : UserOutcome(t, o)
             \/ \E t \in Service : InformerSees(t)
             \/ WorkerWrites \/ Minor
    BY <1>1, <2>3 DEF UserOutcome, InformerSees, WorkerWrites, Minor, informerVars
  <2> QED BY <1>1, <2>1, <2>2, <2>3, StepKinds
<1>3. ~RemovalPending(s) => FALSE
  BY <1>1, <1>2, PendingRemoval DEF Listed, RemovalQueued, RemovalPending
<1> QED BY <1>1, <1>2, <1>3, CreatedIsSettled, PresentVersions

LEMMA NextKeepsUnsynced ==
    ASSUME Created, TypeInv, ReserveInv, AnnotReserved, UnsyncedExclusive, [Next]_vars
    PROVE  UnsyncedExclusive'
<1> SUFFICES ASSUME NothingFailed', crashes' <= 1, NEW s \in unsynced'
             PROVE  CallSpares(s)' /\ \A t \in unsynced' \ {s} : NoConflict(s, t)'
  BY DEF UnsyncedExclusive
<1>1. NothingFailed /\ faults' = faults
  BY FailuresStay
<1>2. /\ TypeOK /\ P!IndInv /\ SettledInv /\ FirstSyncsFirst /\ UnsyncedAreListed
      /\ unsynced' \subseteq Service
  BY NextKeepsTypes DEF TypeInv, TypeOK, ReserveInv
<1>3. CASE Restart
  <2>1. api' = api /\ call' = NoCall /\ crashes = 0
    <3>1. crashes \in Nat /\ crashes' = crashes + 1
      BY <1>3, RestartCounts
    <3>2. crashes = 0
      BY <3>1
    <3> QED BY <1>3, <3>2 DEF Restart
  <2>2. P!Exclusive
    BY <1>2, MapperAssumptionHolds, P!InvImpliesExclusive
  <2>3. ASSUME NEW u \in Service, api[u] # Absent, api[u].annot # NoPort
        PROVE  services[u].l3port = api[u].annot /\ services[u].ports = api[u].ports
    <3>1. PICK r : r = services[u] /\ r = [l3port |-> api[u].annot, ports |-> api[u].ports]
      BY <2>1, <2>3 DEF AnnotReserved, Reserves
    <3>2. r.l3port = api[u].annot /\ r.ports = api[u].ports
      BY <3>1
    <3> QED BY <3>1, <3>2
  <2>4. \A t \in unsynced' \ {s} : NoConflict(s, t)
    BY <1>2, <2>2, <2>3 DEF NoConflict, P!Exclusive, P!IsMapped
  <2> QED BY <2>1, <2>4 DEF NoConflict, CallSpares
<1>4. CASE ~Restart
  <2>1. /\ s \in unsynced /\ s \in Service /\ (api'[s] # Absent => api'[s] = api[s])
        /\ CallSpares(s)
        /\ \A t \in unsynced' \ {s} :
               t \in unsynced /\ (api'[t] # Absent => api'[t] = api[t]) /\ NoConflict(s, t)
    BY <1>1, <1>2, <1>4, RestartCounts, UnsyncedVersions DEF UnsyncedExclusive
  <2>2. \A t \in unsynced' \ {s} : NoConflict(s, t)'
    BY <2>1 DEF NoConflict
  <2>3. CallSpares(s)'
    <3> SUFFICES ASSUME api'[s] # Absent, api'[s].annot # NoPort, call' # NoCall, call'.fresh,
                        call'.obj.ingress = api'[s].annot
                 PROVE  api'[s].ports \cap call'.obj.ports = {}
      BY DEF CallSpares
    <3>1. api'[s] = api[s]
      BY <2>1
    <3>2. CASE RunSyncService
      <4>1. PICK t \in Service :
                /\ SettledSync(t, cache[t]) /\ call = NoCall
                /\ queue # <<>> /\ queue[1] = SyncServiceJob(t)
                /\ unsynced' = unsynced \ {t} /\ UNCHANGED <<api, watch>>
        BY <1>1, <1>2, <3>2, RunsSync
      <4>2. /\ watch[t] = <<>> /\ call'.obj.ports = cache[t].ports /\ cache[t] \in Object
            /\ call'.obj.ingress = cache[t].annot
        BY <3>1, <4>1, SyncAsks
      <4>3. cache[t] = api[t]
        BY <1>2, <4>2, CachedVersion DEF SettledInv
      <4>4. t \in unsynced
        <5> SUFFICES ASSUME t \notin unsynced
                     PROVE  FALSE
          OBVIOUS
        <5>1. Late(1)
          BY <4>1 DEF Late, SyncServiceJob
        <5> QED BY <1>1, <1>2, <2>1, <4>1, <5>1, HeadIsNotLate DEF FirstSyncsFirst, TypeOK
      <4>5. t # s
        BY <4>1
      <4>6. NoConflict(s, t)
        BY <1>1, <1>4, <2>1, <4>4, <4>5, RestartCounts DEF UnsyncedExclusive
      <4> QED BY <3>1, <4>2, <4>3, <4>6, ObjectFields DEF NoConflict
    <3>3. CASE call # NoCall /\ call' = call
      BY <2>1, <3>1, <3>3 DEF CallSpares
    <3> QED BY <3>2, <3>3, WaitingCall
  <2> QED BY <2>2, <2>3
<1> QED BY <1>3, <1>4

(* The call that publishes a service conflicts with none that is           *)
(* published.                                                              *)
LEMMA CallIsExclusive ==
    ASSUME TypeInv, ReserveInv, UnsyncedExclusive, NothingFailed, crashes <= 1,
           call # NoCall, call.fresh, call.obj.ingress # NoPort,
           NEW u \in Service, u # call.svc, Published(api[u]), api[u].ingress = call.obj.ingress
    PROVE  api[u].ports \cap call.obj.ports = {}
<1>1. TypeOK /\ P!IndInv /\ SettledInv
  BY DEF TypeInv, ReserveInv
<1>2. PICK r : r = services[call.svc]
               /\ r = [l3port |-> call.obj.ingress, ports |-> call.obj.ports]
  BY DEF ReserveInv, CallReserved, Reserves
<1>3. r.l3port = call.obj.ingress /\ r.ports = call.obj.ports
  BY <1>2
<1>4. CASE u \in unsynced
  <2>1. Consistent(api[u])
    <3>1. ConsistentAt(u) /\ Pipeline(u) /\ Len(watch[u]) \in 0..Len(watch[u])
      BY <1>1 DEF TypeInv, TypeOK, SettledInv, StatusInv
    <3> QED BY <3>1 DEF ConsistentAt, Pipeline, Published
  <2>2. CallSpares(u)
    BY <1>4 DEF UnsyncedExclusive
  <2> QED BY <2>1, <2>2 DEF CallSpares, Consistent, Published
<1>5. CASE u \notin unsynced
  <2>1. services[u] = [l3port |-> api[u].ingress, ports |-> api[u].ports]
    BY <1>5 DEF ReserveInv, PublishedIsReserved, Clearing, Published
  <2>2. PICK q : q = services[u] /\ q = [l3port |-> api[u].ingress, ports |-> api[u].ports]
    BY <2>1
  <2>3. q.l3port = api[u].ingress /\ q.ports = api[u].ports
    BY <2>2
  <2>4. P!Exclusive /\ call.svc \in Service
    BY <1>1, MapperAssumptionHolds, P!InvImpliesExclusive DEF TypeOK, APICall
  <2>5. services[u].l3port = services[call.svc].l3port /\ services[u].l3port # NoPort
    BY <1>2, <1>3, <2>2, <2>3
  <2>6. services[u].ports \cap services[call.svc].ports = {}
    BY <2>4, <2>5 DEF P!Exclusive, P!IsMapped
  <2> QED BY <1>2, <1>3, <2>2, <2>3, <2>6
<1> QED BY <1>4, <1>5

LEMMA NextKeepsPublished ==
    ASSUME Created, TypeInv, ReserveInv, UnsyncedExclusive, PublishedExclusive, [Next]_vars
    PROVE  PublishedExclusive'
<1> SUFFICES ASSUME NothingFailed', crashes' <= 1, NEW s \in Service, NEW t \in Service,
                    s # t, Published(api'[s]), Published(api'[t]),
                    api'[s].ingress = api'[t].ingress
             PROVE  api'[s].ports \cap api'[t].ports = {}
  BY DEF PublishedExclusive, Published
<1>1. NothingFailed /\ crashes <= 1 /\ SettledInv
  BY FailuresStay, RestartCounts DEF ReserveInv
<1>2. ASSUME NEW u \in Service, Published(api'[u])
      PROVE  \/ api'[u] = api[u]
             \/ call # NoCall /\ call.fresh /\ u = call.svc /\ api'[u] = call.obj
  BY <1>1, <1>2, CreatedIsSettled, PresentVersions DEF Published
<1>3. CASE api'[s] = api[s] /\ api'[t] = api[t]
  BY <1>1, <1>3 DEF PublishedExclusive, Published
<1>4. ASSUME NEW u \in Service, NEW v \in Service, u # v, Published(api'[u]),
             Published(api'[v]), api'[u].ingress = api'[v].ingress,
             call # NoCall, call.fresh, u = call.svc, api'[u] = call.obj
      PROVE  api'[u].ports \cap api'[v].ports = {}
  <2>1. api'[v] = api[v]
    BY <1>2, <1>4
  <2> QED BY <1>1, <1>4, <2>1, CallIsExclusive DEF Published
<1> QED BY <1>2, <1>3, <1>4

(* While services come and go as a whole, no call fails and the controller *)
(* restarts at most once: two services never publish the same L4 port of   *)
(* an address.  The invariant follows the annotations through the restart, *)
(* after which nothing but they are left to tell whose port is whose.      *)
THEOREM PublishedAreExclusive == Created => (Spec => []PublishedExclusive)
<1> SUFFICES ASSUME Created
             PROVE  Spec => []PublishedExclusive
  OBVIOUS
<1>1. Settled
  BY CreatedIsSettled
<1>2. Init => AnnotReserved /\ UnsyncedExclusive /\ PublishedExclusive
  <2> SUFFICES ASSUME Init
               PROVE  AnnotReserved /\ UnsyncedExclusive /\ PublishedExclusive
    OBVIOUS
  <2>1. api = [s \in Service |-> Absent] /\ unsynced = {} /\ call = NoCall
    BY DEF Init
  <2> QED BY <2>1 DEF AnnotReserved, UnsyncedExclusive, PublishedExclusive
<1>3. TypeInv /\ ReserveInv /\ AnnotReserved /\ [Next]_vars => AnnotReserved'
  BY <1>1, NextKeepsAnnotated DEF ReserveInv
<1>4. TypeInv /\ ReserveInv /\ AnnotReserved /\ UnsyncedExclusive /\ [Next]_vars
          => UnsyncedExclusive'
  BY NextKeepsUnsynced
<1>5. TypeInv /\ ReserveInv /\ UnsyncedExclusive /\ PublishedExclusive /\ [Next]_vars
          => PublishedExclusive'
  BY NextKeepsPublished
<1> QED BY <1>2, <1>3, <1>4, <1>5, ReserveInvHolds, PTL DEF Spec

=============================================================================
