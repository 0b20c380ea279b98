# ch-k8s-lbaas in TLA+

ch-k8s-lbaas gives Kubernetes services of type LoadBalancer an address on
OpenStack (or from a static list) and lets gateway nodes forward to them. One
*controller* watches the API server, reserves an *L3 port* (a Neutron port, one
address) and *L4 ports* (numbers on it) for each service, writes the result to
the service object, and pushes a configuration to every *agent*. An agent turns
it into keepalived and nftables files and reloads these services.

The specifications here model the controller's port mapper, its worker with the
informer around it, both port managers, what the controller tells the agents,
and what an agent makes of it, down to the packets that the kernel accepts. TLC
checks them on small instances. TLAPS proves, for all sizes, the port mapper,
the invariants of the OpenStack ports, the agent's guarantees, that the packets
for a service get to its backends in every backend layer, that the kernel
enforces the network policies and has each file's chains and no others, and all
safety properties of the controller: it uses the mapper correctly, never shows a
stale port, never configures or publishes one twice, keeps addresses stable, and
neither unmaps nor deletes what is published, each under the conditions that
the code needs for it. What TLC alone checks is liveness.

    Kubernetes API <--watch/update--> informer -> queue -> worker --HTTP--> agents -> keepalived, nft
                                                            |  |
                                                  port mapper  port manager --REST--> Neutron

- [Inventory](#inventory)
- [Modules and how they correspond to the code](#modules-and-how-they-correspond-to-the-code)
- [Runs and bounds](#runs-and-bounds)
- [Fairness](#fairness)
- [Disagreements between code and documents](#disagreements-between-code-and-documents)
- [Proofs](#proofs)
- [Not modelled](#not-modelled)
- [Plan](#plan)

## Inventory

| Component (source) | State | Operations | Talks to | What is hard | What makes it correct |
|---|---|---|---|---|---|
| Port mapper (`internal/controller/port_mapper.go`) | `services`, `l3ports` with `Allocations` | MapService, UnmapService, SetAvailableL3Ports, GetUsedL3Ports, GetModel, getters | called by the worker; calls the port manager | long sequences of moves; a backend that fails or loses ports; two tables that must agree | no L4 port of an L3 port held twice; tables agree; a service stays where it is; cleanups spare mapped ports |
| Worker (`worker.go`, `utils.go`) | queue, `AllowCleanups` | sync, remove, cleanup, update-config, barrier and agent-state jobs | informer's lister, API server, mapper, manager, agents | one API call per job built from a cached object; jobs that fail are dropped; several steps to move or release a service | status and annotation agree; no address published twice; wanted services end up served, others not |
| Informer and timers (`controller.go`) | cache, three timers | Add/Update/Delete handlers, resync, aux events, periodic cleanup, start | fills the queue | restarts: the mapper is empty while services are published | nothing is deleted before the mapper has been rebuilt |
| Model generators (`model_*.go`) | none | GenerateModel | lister, mapper's model, manager | mapper and lister at different times; fails as a whole; one refused item spoils the configuration of all | forwards lead to the backends and nowhere else; policies admit what Kubernetes says |
| Agent client (`agent.go`) | none | PushConfig | all agents in turn | some agents fail | everybody gets the newest configuration in the end |
| OpenStack port manager (`internal/openstack/port_manager.go`, `ports.go`) | none of its own (Neutron's) | ProvisionPort, CleanUnusedPorts, EnsureAgentsState, GetAvailablePorts, CheckPortExists, address getters | Neutron | four API calls per port, each may fail or be the last of the process; clean-ups that fail | used ports are complete; unused ones go; agents may use the addresses |
| Static port manager (`internal/static`) | the configured list | the same interface | called by the mapper | it cannot provision: what the mapper forgets in a cleanup is out of reach | services are on listed addresses; every listed address stays usable |
| Agent (`internal/agent/agent.go`) | files, services | ServeHTTP, ProcessRequest, WriteWithRollback, Reload, Check, Fix | controller, init system | concurrent requests without a lock; crash between rename and reload; rollback that fails | services run what the files say; success means applied; failure is rolled back |
| Agent generators (`nftables_generator.go`, `keepalived_config_generator.go`) | existing policy chains (in the kernel) | GenerateStructuredConfig, WriteConfig | `nft` | with partial reload, chains of earlier files: which are deleted, and in which order the kernel lets them go | an update replaces all chains; it is refused only for what it says |
| Configuration, OpenStack set-up, metrics, signals, programs | | read once at start; Collect reads the mapper | | an unsynchronised read | |

`PROJECT.json` lists the hazards line by line with the properties that watch
each of them.

## Modules and how they correspond to the code

| Module | Models |
|---|---|
| `PortAssignment` | what the port mapper promises: exclusive L4 ports, one service changed at a time |
| `PortMapper` | every call of the `PortMapper` interface against a failing, shrinking backend; refines `PortAssignment` |
| `StaticPorts` | `PortMapper` with the static port manager as its backend |
| `Controller` | API server, informer, queue, worker and agents' accepted configurations; instantiates `PortMapper` (composition: every job that maps does so through `PM!MapService` and friends) |
| `OpenStackPorts` | `ProvisionPort`, `CleanUnusedPorts`, `EnsureAgentsState`, one API call per step |
| `AtomicUpdate` | what the agent promises: each manager is switched as a whole or not at all |
| `Agent` | `ProcessRequest` and `WriteWithRollback` as interleaving handlers over shared files and services; refines `AtomicUpdate` |
| `LoadBalancerModel` | the three model generators and the validation, as operators; Kubernetes' endpoints and policies as their reference |
| `Nftables` | the nftables and keepalived generators, as operators; external: what `nft` does with a file and the kernel with a packet |
| `Gateway` | composes the last two: a cluster is pushed, written, loaded, rolled back and loaded again, and its forwards and policies should be in force |
| `Published_proofs`, `Reserved_proofs` | theorems about `Controller`: what is published against mappings and cleanups, and against what the mapper reserves |
| other `*_proofs` | theorems about the module they are named after |
| `MC_*` | constants and symmetry for TLC |

Definitions whose names end in `_Slip` are not the code. Each is a slip
somebody could make in the definition it stands before; a property is listed in
`PROJECT.json` with the slip that it catches.

**PortMapper.** The Go maps are total functions: `NoPort` and `Free` stand for
absent keys. `services` and `allocations` are `c.services` and the
`Allocations` of `c.l3ports`, `l3ports` the key set of the latter. An action is
a call, since the worker is the mapper's only writer. `MapService` is split
along its early returns: `CheckFails`, `KeepPort`, `UseKnownPort`,
`UseNewPort`, `ProvisionFails`. `findL3PortFor` iterates a Go map, so any
suitable port may be the first. `CleanupPorts` is the worker's `cleanupPorts`:
`GetUsedL3Ports` (which also forgets unused ports) and `CleanUnusedPorts`, which
may delete any part of what it should. `NewPortMapper` forgets everything and
lists the tagged ports; the process before may have ended inside
`ProvisionPort`, so one more may be among them. `backend` and `issued` are the ports
that exist and that ever existed; IDs are UUIDs. `reply` records what a call
was about, for the action properties.

**StaticPorts.** `backend` is the configured list and never changes.
`ProvisionPort` always fails and `CheckPortExists` never does, which leaves
three of the branches of `MapService`; `CleanUnusedPorts` does nothing, after
`GetUsedL3Ports` has made the mapper forget what nobody uses.

**Controller.** A service object is its L4 port set, whether its type is
LoadBalancer, the managed annotation (`unset`, `true`, `false`), the port
annotation and the ingress status. `watch[s]` holds the versions the informer
has not seen; an API write based on an older version is refused (`call.fresh`).
A `SyncServiceJob` is two steps, because the mapper is changed first and the
API call may find the object changed; it makes at most one API call and ends
there, as `Run` does when an update succeeded. The other jobs are one step each.
`Enqueue` merges jobs without fields only: `client-go`'s queue compares
pointers, and Go gives all values of zero size one address. `executeJob` never
puts a job back. `PeriodicCleanup` has no clock: the tick after the one that
removes the barrier comes 907 s after it, which the code takes to be long
enough for three resyncs to have synced each service once. So the action waits
for `unsynced`, the services listed at the start for which every sync so far
has failed, to be empty. The other way to a cleanup, through a
`RemoveServiceJob`, waits for nothing but the barrier, as in the code.

`ProvisionPort` is part of the first step of a sync, but it can be cut short, by
a call that fails or by the end of the process (`Provisioning`, `Restart`). What
it then leaves with the tag is listed and offered by the next process, and
`GetExternalAddress` fails for good if it has no floating IP. IDs are fresh
names, so which of them will never have one is fixed beforehand, by the constant
`Half` (empty: no floating IPs are used, or no provisioning is cut short).
`HasExternalAddress` asks for a port that exists and is not one of them.

**OpenStackPorts.** `call` is the operation in progress and the next API call
it makes; any of them may fail (`Fault`) and a restart may come between any
two. A call that fails may have been carried out all the same, its reply being
lost: a creation then leaves something that the code cannot name (`lost` counts
these), a tag or a deletion may be in place. `known` and `used` are what the port mapper makes of the ports. Deleting a
port detaches its floating IPs. `EnsureAgentsState` is one step in which any
set of agents may fail.

**Agent.** `handler[r]` is a goroutine of `net/http` between two accesses to a
file or a service; `Slot` of them run at a time. What `WriteWithRollback` does
with private temporary files is part of the step before. The service is
external: it loads a file when reloaded, may be unable to (`Bad`), may crash, is
checked and is started again by `Fix`. Errors of the renames are ignored as in
the code. In the refinement of `AtomicUpdate` a manager is at the configuration
that its service runs or, while a handler is between rename and outcome, at the
backup; the request is that of the one handler at work. It is a refinement
until requests overlap, a call fails for no reason, or the agent restarts.

**LoadBalancerModel, Nftables, Gateway.** A cluster is a snapshot of the
informers' caches and of the mapper. `NodePortModel`, `ClusterIPModel` and
`PodModel` are the three `GenerateModel`s, `Valid` the `validate` tags that the
agent checks, `Generate` the structured configuration with the template:
forwards, and the chains for pods, policies, rules and CIDRs with exceptions.
Against them stand `Backends` (where the docs want a connection to end) and
`Admits` (what Kubernetes says of network policies), which know nothing of
models or chains. `Transaction` is `nft -f`, external: chains keep their place
and their rules when added again, a chain that something jumps to cannot be
deleted, and a file takes effect as a whole or not at all; `Busy`, `DeleteAll` and
`AddAll` say so of whole lists. `Accepted` is the kernel's walk of a packet
through the chains: `Decided` gives what each chain decides, from what those
that it calls decide. It is applied five times, since the jumps of a generated
file are four deep (forward, pod, policy, rule and CIDR chain). `WellFormed` is what Kubernetes sees to: the
ports of one subset of endpoints differ by name or protocol, a policy selects
finitely many pods, and a port that it gives by name is no range. That services
do not share an L4 port of an address is not among it: the mapper sees to that,
but `GenerateModel` takes the L4 ports from the lister, which may be newer
(model_nodeport.go:140). `Sharers` are the service ports at one L4 port; the
first of their forwards in the file takes every connection. `UniqueNames` and `HasNamedPorts`
are what not every cluster is like. In `Gateway`, `Push` is `GenerateModel`,
`PushConfig` and the handler up to the rename, `Apply` the reload with its
rollback, where `Fix` loads the old file twice; `Restart` and `Reboot` lead to
the load at the start of the agent or of nftables. `promised` is the cluster of
the last file that went into force. A file records which cluster it is of, and
whether nft has taken it (`loaded`); a file that the agent finds unchanged is
answered with 200 without a reload, so the answer alone does not tell. SNAT and the marks are left out: the
filter rules only see traffic that was marked.

## Runs and bounds

Passing runs:

| Run | Bounds | Shows |
|---|---|---|
| `port_mapper` | 3 services, 2 tagged and 1 foreign port, 2 L4 ports, any sequence of calls | the tables agree, allocation is exclusive, cleanups spare mapped ports, remaps are stable, evictions exact; `PortAssignment` is implemented |
| `controller_restart` | 2 services whose L4 ports overlap or not, 4 L3 ports of which one may be left without a floating IP, create and delete, a restart at any step | what is published is reserved; nothing is published or configured twice; no address changes within a process; after a restart cleanups and other services spare what is published, if no call fails |
| `controller_moves` | 2 services, 3 L3 ports, port and type changes, disowning, unrelated updates, 2 versions the informer has not seen | the status never shows a port other than the annotation while services move; a service stays mapped, and its port stays, until its status is cleared |
| `controller_served` | 1 service, 2 agents, 4 L3 ports of which one may be left without a floating IP, 3 user actions (create, delete, create again before the removal is handled), a restart, one failed call or lost port, 2 versions the informer has not seen, 3 queued jobs of the service | in the end the service is served by both agents if it is wanted, or it is on the port without a floating IP, although failed jobs are not repeated, and the removal of its predecessor and syncs that pile up come in between; deleted, it leaves the agents, if nothing failed |
| `controller_rivals` | 2 services whose L4 ports overlap or not, 3 L3 ports, 2 user actions (create, ports, type), a restart | both are served in the end, also if the restart makes one of them move |
| `agent` | 3 requests of 3 configurations, one bad for keepalived, one for nftables, 2 at a time with one overlap, 2 failing calls, a restart, partial reload | updates are atomic per manager, success means applied, failure is rolled back, files and services agree when nobody is at work |
| `ports` | 3 ports and floating IPs, 2 failing calls, a restart, 3 changes of use | used ports are complete, every leak has a lost reply, a restart or two failures of its own, unused ports and orphaned floating IPs go, agents follow |
| `gateway` | each backend layer with and without partial reload; 34 clusters first, 8 of them again; 4 pushes, a listing that fails, a restart, a reboot | forwards and policies in force are those of the last accepted cluster, an idle agent's file is in force or one that nft refuses, updates replace all chains and are not refused for their order |

Why the bounds are enough. Exclusive allocation is about pairs of services, and
a third lets two of them share a port beside one that moves. Two L3 ports allow
a move and a fresh port; the runs of `Controller` have three, because a port ID
is never issued twice, one may be lost, and the properties that speak of no
failure say nothing once the backend has none left. `controller_restart` and
`controller_served` have a fourth, which will lack its floating IP. Two L4
numbers make sets that overlap partly. Three user actions create two services
and then change one, or create, delete and create again one service;
`MaxLag = 2` lets a user act on a version the informer has not seen, on top of
another. `MaxJobs` bounds what an event may add to the queue; the worker's own
jobs and the periodic ones come on top. Three jobs let a removal be queued
between a sync that already sees the next service of that name and another
sync. One service is enough for what `controller_served` asks, since nothing of
another can stand in its way but its ports, and those are in
`controller_rivals`. Longer runs repeat these situations. The
faults are independent, so one shows each partial failure, and two let the
clean-up of a failure fail too.

Several properties name a condition under which they are checked (`faults = 0`,
`crashes = 0`). Each such condition is there because the code does not keep the
property without it, and the comment says what then happens.

In `agent` the two configurations that a service cannot load are different ones,
so that a request may fail at either manager and leave the other reconfigured;
a third request is what shows that the state left behind by two others, which
may overlap, is sound. In `gateway` the first clusters try what a policy can say
(sources, blocks with exceptions, ports, ranges, names, protocols, two policies
of a name), services that share a port, and what gets refused; the later ones are those whose chains jump to
each other differently, since that decides whether old chains can be deleted.
Three pushes with a restart let a file be written against chains that neither
it nor its predecessor created. Four pushes are needed without one: two that are
accepted, one that `nft` refuses, so that the second file is rolled back onto
its own chains, and one that meets the chains in their new order. That is why
`UpdatesAreAccepted` asks for chains that were created before those they jump to
(`Ordered`). Every file writes them so, and `ReloadReplacesChains` says that an
accepted update leaves exactly its file's chains; hence updates are accepted
until a file is loaded a second time.

The requests of `Agent` and `Gateway` are bounded, so their runs stop:
`CHECK_DEADLOCK FALSE`. All other runs check deadlock too. Symmetry is used in
`port_mapper` only.

## Fairness

Safety runs assume nothing. `Controller!FairSpec`: weak fairness of the worker
(one goroutine that loops as long as there are jobs) and of the resync (a timer
of the informer); strong fairness of the informer's deliveries, which only this
model's bound `MaxJobs` ever blocks. Nothing is assumed of users, faults,
restarts, aux events, or the periodic cleanup. `OpenStackPorts!FairSpec`: weak
fairness of an operation in progress; strong fairness of starting a cleanup
whose listing succeeds and of an agent-state job that succeeds, because both are
enqueued by timers into a FIFO queue, are disabled only while another job runs,
and fail only finitely often. Fairness is never put on an action that can only
change the state by failing. `Agent` and `Gateway` have no liveness property:
the agent does nothing but answer.

## Disagreements between code and documents

Four runs end in a violation of what a document, comment or message of the
repository says; `PROJECT.json` quotes the lines.

| Run | What happens |
|---|---|
| `finding_harmful_config` | after a restart a configuration without the published services is pushed, since only cleanups look at the barrier |
| `finding_agent_mixed` | two requests succeed and leave keepalived and nftables with different configurations, because the handler's mutex is never locked |
| `finding_update_refused` | with partial reload, the agent restarts and loads its last file once more; the chains that this file created survive, with a place in the kernel's list before chains that jump to them, and `nft` refuses the next file and every later one. The rollback of a refused file does the same without a restart |
| `finding_static_forgets` | a cleanup makes the mapper forget the static addresses that no service uses; a service that comes later is refused although an address is free |

Modelling met others, which no run is spent on. They are the conditions in the
properties and the notes in the hazards:

- Port mapper and controller. `MapService` that fails keeps an older mapping,
  against its interface's comment. Releasing a service pushes no configuration.
  A service set to `managed=false` keeps its mapping, and once it is deleted no
  configuration can be generated any more. A restart may move a published
  service, when one without a port is synced first and takes its L4 port
  (docs/old/design.rst:96 says otherwise). If the push after the deletion of the
  last service fails, nothing repeats it. Right after a restart the first tick
  removes the cleanup barrier, and the removal of one service then starts a
  cleanup that may take the port of one whose first sync failed. If a restart
  makes a service move, and a second one comes before the move is over, both
  services are annotated with the port, and the one that is synced first
  publishes it beside the other. A service that moves while somebody changes it
  (the call that clears its status is refused) may lose its old port to a
  cleanup while it still shows it. When a user
  changes ports, two services can be configured with one L4 port until the next
  sync (add `"ports"` to `UserOps` in `controller_restart.cfg`): then the forward
  that comes first in the file has the port.
- Agent. A request that fails at nftables leaves keepalived reconfigured. If the
  agent dies before the reload of a file that nft refuses, the start cannot load
  it and leaves it in place; the same configuration sent again is answered with
  200 although it is not in force.
- Generators. One item that is refused (SCTP, an end port equal to the port, an
  IPv6 block or address, no node of the address's family) makes the whole
  configuration fail. Ports that a policy names stay closed. Two policies of one
  name in two namespaces are mixed up. Only the first subset of a service's
  endpoints is served.
- OpenStack. An orphaned floating IP that could not be deleted waits for the
  deletion of another port. If the controller ends between the tag and the
  floating IP of a new port, its successor lists the port and may give it to a
  service, for which `GetExternalAddress` then fails for ever; no cleanup takes
  a port in use, though docs/old/design.rst:199 says so. This is the exception
  (`Stuck`) in `WantedServicesAreServed`. A port or floating IP whose creation was carried
  out while its reply was lost is never found again: one failed call is enough
  for a leak, where the comment in `ProvisionPort` only speaks of being killed.

## Proofs

`PortMapper_proofs` holds for every choice of `Service`, `L3Port` and `L4Port`,
finite or not, under `PortMapperAssumption` (the special values are not services
or ports, foreign ports are ports), which TLC evaluates in every run.

The inductive invariant is

    IndInv == TypeOK /\ TablesAgree /\ MappedPortIsKnown /\ KnownPortsWereIssued

`Exclusive` is not inductive: it says nothing of `allocations`, in which
`IsPortSuitableFor` looks the holder up. `TablesAgree` ties the two tables
together, and then needs `MappedPortIsKnown`, since `Emplaced` resets the
allocations of a port that is not in `l3ports`, and `KnownPortsWereIssued`, so
that a new port is not one in the table. `AssignKeepsInv` does the work
for the three successful branches of `MapService`; one lemma per other action
follows. All four conjuncts are invariants of the run `port_mapper`.

| Theorem | States |
|---|---|
| `SpecKeepsInv` | `Spec => []IndInv` |
| `TypeCorrect`, `TablesAlwaysAgree`, `MappedPortsAreKnown`, `KnownPortsAreIssued` | its conjuncts |
| `PortsAreExclusive` | `Spec => []Exclusive` |
| `MapperImplementsAssignment` | `Spec => PA!Spec`: steps map to `Assign`, `Withdraw` or a stutter |
| `CleanupSparesMappedServices`, `RemapsAreStable`, `EvictionsAreExact` | the action properties, from `IndInv` |

Its last part shows `StaticSpec => Spec`, so all of this holds with the static
manager, and `MappedAreListed`: no service is ever mapped to an address
off the list. Inductive is that the known addresses are listed (`KnownIsListed`,
with `IndInv`).

`Controller_proofs` holds for any sets, bounds and `UserOps`, under
`ControllerAssumption` (special values are told apart, bounds are numbers).

| Theorem | States | Inductive invariant, and why it needs more than the property |
|---|---|---|
| `TypeCorrect` | types; a removal job carries annotations of a service that was in the cache | `TypeInv`: `TypeOK`, the mapper's `IndInv`, no sync queued before a service's add event has been handled, and `Pipeline`: from the cache over `watch` to the API server the versions follow one another, never two deletions in a row, so that the handlers find the object they are called with |
| `DrivesPortMapper`, `MapperKeepsItsPromises` | every step of the controller is a step of `PortMapper` or leaves the mapper alone, so the mapper's theorems hold inside it | `TypeInv` |
| `StatusMatches` | the status never shows a port other than the annotation | `StatusInv`: the same of every version not yet seen and of the object of the pending call |
| `ConfigsExclusive` | no agent is configured with an L4 port twice | `ConfigInv`: every version on its way has the same ports and stays managed (`VersionsFollow`), a mapping has the ports of the cached object or its removal is queued (`MappingFollows`), a pending call changes neither (`CallFollows`). Only under `PortsFixed`: users do not change ports, disown or recreate a service early |

`Published_proofs` and `Reserved_proofs` go on from there; they too hold for any
sets and bounds. Their subject is the order of whole queues of jobs, calls that
are built from versions the API server has since replaced, and what is left to
tell whose port is whose after a restart. `StepKinds` sorts the steps of `Next`
by what they do to service objects and mappings, `SyncTakesEffect` says field by
field what a sync does and asks for, `QueueContinues` what becomes of the queue.

| Theorem | States | Condition | Inductive invariant |
|---|---|---|---|
| `CleanupsSparePublished` | no cleanup deletes a published port | none on users or restarts | `FollowInv`: while no call has failed, the first syncs after a start are queued before every removal, cleanup or second sync (`FirstSyncsFirst`), a removal of a service that exists again is followed by a sync of it (`RemovalsAreFollowed`), and the mapping of a published service is the published one, or a newer version or a sync is on its way, or its status is about to be cleared (`PublishedFollows`). `PortMapper`'s `StepSparesMapped` does the rest |
| `PublishedStayMapped` | the worker unmaps no service whose present version shows an address | nobody creates a service before the removal of the last one of its name has been handled | `StaysInv`: a call that can be accepted is based on the present version (`CallIsBased`); of the versions that the worker does not see yet, one is published only if those before it are, except for the first after a cached LoadBalancer (`IngressFollows`); a deletion is the last version while its removal waits (`RemovalIsLast`) |
| `AnnotationsStable` | no service is given another address before a restart | `Settled`: ports, types and management do not change, no port is lost | `SettledInv` (the invariants above, the ports the mapper knows exist, every version is of type LoadBalancer and annotated only if managed), so that a sync of a mapped service changes no mapping; `AnnotReserved`: before the first restart the mapper has what the annotations, and the call on its way, say |
| `PublishedAreReserved` | what is published is reserved in the mapper | `Created`: services are created and deleted; any number of restarts | `ReserveInv`: also, a call that publishes shows what is reserved (`CallReserved`), and a service that waits for its first sync is cached as it is or has been deleted (`UnsyncedAreListed`), so its first sync decides by the version that is published |
| `PublishedAreExclusive` | no L4 port is published twice | `Created`; at most one restart | `UnsyncedExclusive`: a restart forgets all mappings, but until then the annotations agreed with them; so services that still wait for their first sync do not conflict with one another, nor with what the call on its way publishes |

The conditions are those under which the property holds of the code. `Settled`
and `Created` say which of the user actions exist; `NothingFailed` and the bound
on restarts are part of the properties. Each named part of these invariants was
an invariant of `controller_restart` or `controller_moves` before it was proved.

`OpenStackPorts_proofs`: `UsedPortsComplete` by `PortsInv` (types; known ports
are tagged and, in one process, have their floating IP; `CallInv`, what holds of
the port and floating IP of the operation in progress at each of its steps), and
`LeaksAccounted` by `LeakInv`, which counts between the calls of an operation
too: to what lost replies, other failures and restarts account for comes what
the operation in progress answers for, `AnswersFor`. That is a whole leak while
it is about to tag something, and half a one while it is about to delete what it
could not tag, since the failed call counts as the other half.

`Agent_proofs`, under `AgentAssumption` (nftables alone or after keepalived, as
the agent's main has it; special values are told apart; bounds are numbers), for
any configurations, slots and number of requests:

| Theorem | Inductive invariant |
|---|---|
| `IdleServicesRunFiles` | `ReloadInv`: while a service does not run its file, some handler is before a reload of it (`SomebodyReloads`), and a service that is loaded directly is never down; with `SequentialInv` for files that cannot be loaded |
| `CheckedServiceRunsFile` | `AloneInv`: without overlap one handler is at work, and before its check the service runs the file or is down |
| `SuccessIsApplied`, `UpdatesAtomic` (each manager by itself; no overlap, no failed call, no restart) | `SequentialInv`: while undisturbed, a manager that nobody updates is settled (runs its file, and can), and those before the one in progress have the configuration of the request |
| `FailuresRollBack` | `FailureInv`: no service runs what it cannot load, and at each step of a rollback what the file and the service are, compared with the state saved before (`RollbackInv`) |

`Nftables_proofs` is about data: what the generators write, what `nft` makes of
it, and what the kernel then decides, for models, files and chains of any length.

| Theorem | States |
|---|---|
| `GeneratedChains` | every chain of a model is in its file, once, and each jump leads to a later chain |
| `TransactionReplaces` | a file that lists all chains of the kernel replaces them all, and `nft` takes it unless a chain in the list is still jumped to when its turn comes |
| `DeletedInOrder` | that cannot be while the kernel's chains only jump forwards |
| `TransactionRepeats` | a file that is loaded onto its own chains, whatever it deletes first, leaves them as they were but for repeated rules |
| `GeneratedAccepts` | a file accepts a packet exactly if each assignment of its destination names a policy of the model that admits it |
| `PoliciesAreServed` | what a file of the Pod model accepts, the network policies admit, and the other way round unless a policy names ports; policies have different names |

The proofs go up the levels. Lists: what `FlattenSeq` and `Keep` return, by
induction up to an index (`FlattenInduction`, `KeepInduction`). Generator: a
`Part` of a file has distinct chains and jumps only forwards, or to chains that
it does not have; parts with different names can be joined (`PartsJoin`,
`PartsFlatten`), from the chains of one rule to the file. Packets: in a
generated file, each level of chains is decided right if the one below is
(`CidrsComeRight`, `RulesComeRight`, `PoliciesComeRight`, `PodsComeRight`), and
repeating rules changes no decision (`RepeatedAccept`). That the model says what
the cluster's policies say, with ports grouped by protocol and IP blocks with
their exceptions, is `BuiltRuleAdmits`.

`Gateway_proofs` holds for clusters of any size and number, and any number of
requests, faults, restarts and reboots, under `GatewayAssumption`: the clusters
are `WellFormed`, the layers are the code's three, packets have ports from 1 to
65535, bounds are numbers.

| Theorem | States | Condition |
|---|---|---|
| `TypeCorrect` | types; no jump of the kernel's chains leads nowhere, whatever nft takes or refuses | |
| `IdleFilesAreApplied` | the file of an idle agent is in force, or nft refuses it | without partial reload, no restart |
| `TrafficAlwaysReachesBackends` | connections to each mapped port of the cluster in force go to the backends that the layer's doc names, and nowhere else; if services share the port, to the backends of one of them | Pod layer: the target port can be found; that all backends are reached, if the first subset has them all and nobody shares the port |
| `PoliciesStayInForce` | the kernel accepts a connection to a pod exactly if the policies of the cluster in force admit it | nft never failed to list the chains; policies have different names; what named ports admit stays closed |
| `UpdatesReplaceChains` | an accepted update leaves the file's chains and no others | nft never failed to list the chains |
| `UpdatesGetAccepted` | an update that parses is accepted | the same, and chains were created before those they jump to |

The proof has three parts. `ModelServes` is about data: in a model that is valid,
each forward leads to the backends of its service port (`NodePortServes`,
`ClusterIPServes`, `PodServes`), and grouping by address neither loses nor mixes
forwards (`GroupsKeepForwards`). Of several for one port the first takes all
connections (`ReachesForwards`), and it is one of the sharers'
(`SharersHave`). The Pod model needs most, since `findPort`
takes the last match by name, then by number (`FindsByName`, `FindsByNumber`).
The second part is `Nftables_proofs`. The third is the inductive invariant

    GatewayInv == TypeOK /\ FileInv /\ ForceInv /\ RefusedInv /\ ChainInv

`TrafficReachesBackends` and `PolicyInForce` speak of the cluster that was
promised and of the kernel's rules, which share no variable. `FileInv` says that
both files, the current one and the backup, are what `Generate` writes for the
cluster they are of and some list of chains; `ForceInv` that the kernel has the
forwards of the file that is current, if it was loaded, and that this file's
cluster is the promised one; `RefusedInv` that a file which was not loaded is
still refused, as nothing changes the rules while it waits. `ChainInv` is about
the chains, while nft has listed them each time: a file that waits for its
reload lists exactly the chains of the kernel, so that it replaces them; and the
chains of a loaded file are those of the kernel, in whatever order, with rules
that may be there several times (`Repeats`). That much is left when a file is
loaded onto its own chains, as happens when the agent starts and after a
rollback, which loads the file twice: the chains are then out of order, but
decide the same. `TransactionEffect` and `LoadEffect` are what is
used of `nft -f` for the forwards: it takes the file's or changes nothing.
`ChainInv` was an invariant of the run `gateway` before it was proved.

Only model-checked are the liveness properties, `WantedServicesAreServed` and
`OthersAreNotServed` of `Controller` and `UnusedPortsGo`, `OrphansGo` and
`AgentsFollow` of `OpenStackPorts`, since liveness under fairness and `ENABLED`
are beyond the prover; and the four findings, which are counterexamples. Beyond
the prover is also what a recursive operator or a fold of the community modules
computes. So `Nftables` deletes, adds and walks without them: `Busy`,
`DeleteAll` and `AddAll` speak of places in a list, `Keep` filters by
`FlattenSeq`, which is a recursive function, and the walk goes as deep as a
generated file. Induction over numbers is out of reach in the
form of the library's theorems, whose parameter is an operator, but not as a
statement about a set: `InductionUpTo` derives it from the pigeonhole principle.

## Not modelled

- A watch that breaks and relists; events of other objects beyond "some
  configuration input changed" (`HandleAuxUpdated`).
- Where the concurrency is modelled, a configuration is who gets which L4 ports
  of which L3 port (`Controller`), or a name (`Agent`); its contents are in
  `Gateway`, where requests come one at a time.
- SNAT, marks, load distribution among backends, the JSON encoding, and
  keepalived's own protocol.
- Tokens and their expiry: answered before any state changes.
- Configuration files, the OpenStack client and the programs beyond their start,
  which run once; metrics, which only read; signals, since the models let a
  process stop at any step anyway.
- A port whose address is neither IPv4 nor IPv6, which the generators skip.

## Plan

Done, in this order: `PortAssignment`, `PortMapper` and its proofs;
`Controller`; `Agent`; `OpenStackPorts`; `LoadBalancerModel`, `Nftables` and
`Gateway`; `AtomicUpdate` and the agent's refinement; proofs of `Agent`,
`OpenStackPorts` and `Controller`; `StaticPorts`; proofs of what `Controller`
publishes; proofs of `Gateway`: forwards, then chains and policies.

Left, most important first:

1. A composition of `PushConfig` with `Agent`: a controller whose connection
   breaks pushes again while the first request is in progress.
2. Relisting of the informer after a broken watch.
