------------------------------ MODULE Gateway ------------------------------
(***************************************************************************)
(* From a cluster to the packets: the controller generates a load balancer *)
(* model and pushes it, and the agent writes nftables' file from it, loads *)
(* the file into the kernel and rolls it back when nft refuses it.  Here   *)
(* the contents matter and the requests come one at a time; how requests   *)
(* interleave, and what each failing call does, is in Agent.               *)
(*                                                                         *)
(* With partial reload the file is given to `nft -f`, which only deletes   *)
(* the chains that the file lists, and the agent loads it when it starts.  *)
(* Otherwise the nftables service replaces all rules, also at boot.        *)
(*                                                                         *)
(* The agent may die between the rename and the reload, or when idle, and  *)
(* start again; the gateway may reboot.  MaxFaults bounds the times nft    *)
(* fails to list the chains, which the generator does not notice.          *)
(* keepalived takes every configuration.                                   *)
(***************************************************************************)
EXTENDS Nftables

CONSTANTS
    Setups,         \* pairs of a backend layer and whether partial reload is on
    FirstClusters,  \* the clusters that may be pushed first
    Clusters,       \* those that may be pushed later
    NoCluster,      \* nothing was promised yet
    Packets,        \* the connections to pods that the network policies are for
    NamedPort,      \* the container port that all named ports mean
    MaxRequests, MaxFaults, MaxRestarts, MaxReboots

(* WellFormed is what Kubernetes sees to.                                  *)
ASSUME GatewayAssumption ==
    /\ Setups \subseteq Layers \X BOOLEAN
    /\ NoCluster \notin FirstClusters \cup Clusters
    /\ \A C \in FirstClusters \cup Clusters : WellFormed(C)
    /\ \A pkt \in Packets : pkt.port \in Nat \ {0} /\ pkt.port <= 65535
    /\ {MaxRequests, MaxFaults, MaxRestarts, MaxReboots} \subseteq Nat

VARIABLES
    layer, partialReload,   \* the configuration; never changes
    file,       \* nftables' file: its text and (history) the cluster it is
                \* of, and whether nft took it since it was renamed, or at boot
    pending,    \* the backup, between the rename and the reload
    rules,      \* the kernel's rule set
    vips,       \* keepalived's addresses
    answer,     \* the last answer; 0 while there is none
    promised,   \* history: the cluster whose rules should be in force
    requests, faults, restarts, reboots

setup == <<layer, partialReload>>
budgets == <<requests, faults, restarts, reboots>>
vars == <<setup, file, pending, rules, vips, answer, promised, budgets>>

NoFile == [text |-> [existing |-> <<>>, chains |-> <<>>, nat |-> {}],
           of |-> NoCluster, loaded |-> FALSE]

Idle == pending.file = NoFile /\ ~pending.busy
NoRequest == [busy |-> FALSE, file |-> NoFile]

(* Definitions whose names end in _Slip are not the code: each is a slip   *)
(* that could have been made there.                                        *)
NoList_Slip(ok) == <<>>
Backwards_Slip(ok) == IF partialReload /\ ok THEN Reverse(PolicyChainList(rules)) ELSE <<>>

(* The list of the chains, as the generator gets it.                       *)
Listed(ok) == IF partialReload /\ ok THEN PolicyChainList(rules) ELSE <<>>

Load(from, f) ==
    IF f = NoFile THEN [ok |-> ~partialReload, rules |-> IF partialReload THEN from ELSE BaseRules]
    ELSE IF partialReload THEN Transaction(from, f.text) ELSE ServiceReload(from, f.text)

(* GenerateModel and PushConfig; then the agent's handler, up to the       *)
(* rename.  Equal texts may differ in the order of Go's maps.              *)
Push(c) ==
    /\ Idle /\ requests < MaxRequests /\ requests' = requests + 1
    /\ ~ModelFails(c)
    /\ LET m == GenerateModel(layer, c)
       IN  IF ~Valid(m)
             THEN answer' = 400 /\ UNCHANGED <<file, pending, vips, promised, faults>>
             ELSE \E listing \in BOOLEAN :
                    LET text == Generate(m, Listed(listing))
                        same == file # NoFile /\ file.text = text
                    IN  /\ IF listing THEN UNCHANGED faults
                           ELSE faults < MaxFaults /\ partialReload /\ faults' = faults + 1
                        /\ vips' = VirtualAddresses(m)
                        /\ \/ /\ same /\ answer' = 200 /\ promised' = c /\ UNCHANGED pending
                              /\ file' = [text |-> text, of |-> c, loaded |-> file.loaded]
                           \/ /\ pending' = [busy |-> TRUE, file |-> file]
                              /\ file' = [text |-> text, of |-> c, loaded |-> FALSE]
                              /\ answer' = 0 /\ UNCHANGED promised
    /\ UNCHANGED <<setup, rules, restarts, reboots>>

KeepBackup_Slip ==
    /\ ~Idle
    /\ LET loaded == Load(rules, file)
           fixed == Load(Load(rules, pending.file).rules, pending.file)
       IN  IF loaded.ok
             THEN /\ rules' = loaded.rules /\ answer' = 200 /\ promised' = file.of
                  /\ file' = [file EXCEPT !.loaded = TRUE]
             ELSE rules' = fixed.rules /\ answer' = 500 /\ file' = pending.file /\ UNCHANGED promised
    /\ pending' = [pending EXCEPT !.busy = FALSE]
    /\ UNCHANGED <<setup, vips, budgets>>

(* ReloadAndCheck, and when it fails the old file and Fix: it is reloaded  *)
(* and then started, i.e. with partial reload loaded a second time.        *)
Apply ==
    /\ ~Idle
    /\ LET loaded == Load(rules, file)
           fixed == Load(Load(rules, pending.file).rules, pending.file)
       IN  IF loaded.ok
             THEN /\ rules' = loaded.rules /\ answer' = 200 /\ promised' = file.of
                  /\ file' = [file EXCEPT !.loaded = TRUE]
             ELSE rules' = fixed.rules /\ answer' = 500 /\ file' = pending.file /\ UNCHANGED promised
    /\ pending' = NoRequest
    /\ UNCHANGED <<setup, vips, budgets>>

(* What the agent or the service loads when it starts.  A file that is in  *)
(* force replaces what was promised.                                       *)
Start(from, wasLoaded) ==
    LET loaded == Load(from, file)
    IN  /\ rules' = loaded.rules
        /\ IF file = NoFile THEN UNCHANGED <<file, promised>>
           ELSE /\ file' = [file EXCEPT !.loaded = wasLoaded \/ loaded.ok]
                /\ promised' = IF loaded.ok THEN file.of ELSE promised

NoStartupReload_Slip ==
    /\ restarts < MaxRestarts /\ restarts' = restarts + 1
    /\ UNCHANGED <<rules, file, promised>>
    /\ pending' = NoRequest
    /\ UNCHANGED <<setup, vips, answer, requests, faults, reboots>>

(* What was in force stays so if nft refuses to load it once more.         *)
Restart ==
    /\ restarts < MaxRestarts /\ restarts' = restarts + 1
    /\ IF partialReload THEN Start(rules, file # NoFile /\ file.loaded)
                        ELSE UNCHANGED <<rules, file, promised>>
    /\ pending' = NoRequest
    /\ UNCHANGED <<setup, vips, answer, requests, faults, reboots>>

(* At boot the rules are the administrator's, until the service or the     *)
(* agent loads the file.                                                   *)
Reboot ==
    /\ reboots < MaxReboots /\ reboots' = reboots + 1
    /\ Start(BaseRules, FALSE)
    /\ pending' = NoRequest
    /\ UNCHANGED <<setup, vips, answer, requests, faults, restarts>>

Init ==
    /\ \E s \in Setups : layer = s[1] /\ partialReload = s[2]
    /\ file = NoFile /\ pending = NoRequest
    /\ rules = BaseRules /\ vips = {}
    /\ answer = 0 /\ promised = NoCluster
    /\ requests = 0 /\ faults = 0 /\ restarts = 0 /\ reboots = 0

Next ==
    \/ \E c \in IF requests = 0 THEN FirstClusters ELSE Clusters : Push(c)
    \/ Apply
    \/ Restart
    \/ Reboot

Spec == Init /\ [][Next]_vars

-----------------------------------------------------------------------------
(* The types of the variables; the kernel's jumps lead to chains.          *)
TypeOK ==
    /\ setup \in Setups
    /\ {f.of : f \in {file, pending.file} \ {NoFile}} \cup ({promised} \ {NoCluster})
          \subseteq FirstClusters \cup Clusters
    /\ pending.busy \in BOOLEAN /\ (pending.file # NoFile => pending.busy)
    /\ answer \in {0, 200, 400, 500}
    /\ Linked(rules.chains)
    /\ requests \in 0..MaxRequests /\ faults \in 0..MaxFaults
    /\ restarts \in 0..MaxRestarts /\ reboots \in 0..MaxReboots

(* The file that should be in force, and the one case in which it may not  *)
(* be although somebody was told so: the agent died before the reload, and *)
(* did not load the file when it started, or nft refused it.  The agent    *)
(* answers 200 when it is sent the same again, without another reload.     *)
Current == IF pending.busy THEN pending.file ELSE file
InForce == promised # NoCluster /\ Current.loaded

(* The target port is looked up in the endpoints by the name that it has   *)
(* there, the name of the service port, or else by its number.             *)
Resolvable(C, s, p) ==
    C.endpoints[s] # <<>> => \E q \in Range(Head(C.endpoints[s]).ports) :
        /\ q.name = p.name /\ q.proto = p.proto
        /\ IF p.target = Named THEN p.targetName = p.name /\ p.name # "" ELSE q.port = p.target

(* Connections to a mapped port go to the backends that the layer's doc    *)
(* names and to nothing else, and the address is announced: whatever was   *)
(* pushed, refused, rolled back or reloaded since.  When services share    *)
(* the port, they go to the backends of one of them.  In the Pod model     *)
(* only the first subset of the endpoints is served.                       *)
TrafficReachesBackends ==
    InForce =>
        \A s \in Mapped(promised) : \A p \in Range(promised.services[s].ports) :
            LET reached == Destinations(rules, promised.assignment[s], p.proto, p.port)
                sharers == Sharers(promised, s, p)
            IN  layer # "Pod" \/ (\A x \in sharers : Resolvable(promised, x[1], x[2])) =>
                  /\ reached \subseteq UNION {Backends(layer, promised, x[1], x[2]) : x \in sharers}
                  /\ sharers = {<<s, p>>} /\ (layer # "Pod" \/ Len(promised.endpoints[s]) <= 1)
                        => Backends(layer, promised, s, p) \subseteq reached
                  /\ reached # {} /\ answer = 200 => promised.assignment[s] \in vips

(* docs/agent/nftables.md:59, "Enforcing network policies": whatever was   *)
(* pushed, refused, rolled back or reloaded since, the kernel admits what  *)
(* the policies of the last accepted cluster admit.  Ports that a policy   *)
(* names stay closed; policies of one name in two namespaces are mixed up. *)
(* When a listing failed, rules of the old policies may be left.           *)
PolicyInForce ==
    layer = "Pod" /\ InForce /\ faults = 0 /\ UniqueNames(promised) =>
        \A pkt \in Packets :
            LET accepted == Accepted(rules.chains, pkt)
                admitted == Admits(promised, pkt, NamedPort)
            IN  /\ accepted => admitted
                /\ admitted => accepted \/ HasNamedPorts(promised)

(* docs/agent/partial_reload.md: when the agent starts, "the last config   *)
(* is applied", also the one it died over before the reload.  When nobody  *)
(* is at work, the file is in force or is one that nft refuses.            *)
IdleAppliesFile ==
    Idle /\ file # NoFile /\ (partialReload \/ restarts = 0) =>
        \/ file.loaded /\ promised = file.of
        \/ ~file.loaded /\ ~Load(rules, file).ok

Applies == pending.busy /\ answer' # answer

(* docs/config.md:36, "all chains beginning with this prefix will be       *)
(* deleted on nftables config reload": of what was in force before, no     *)
(* chain and no rule survives an update.                                   *)
ReloadReplacesChains ==
    [][Applies /\ answer' = 200 /\ faults' = 0 => rules'.chains = file.text.chains]_vars

(* Chains are listed, and hence deleted, in the order of their creation.   *)
Ordered(chains) == \A i \in DOMAIN chains : \A r \in Range(chains[i].rules) :
    r.target = <<>> \/ \E j \in DOMAIN chains : i < j /\ chains[j].name = r.target

(* The order in which the listed chains are deleted is one that the kernel *)
(* accepts, and so are the chains of a file at boot: an update is refused  *)
(* for what it says, or because some chain was created before one that     *)
(* jumps to it, as happens when a file is loaded onto its own chains.      *)
UpdatesAreAccepted ==
    [][faults' = 0 /\ file # NoFile /\ Parses(file.text) =>
          /\ Applies /\ Ordered(rules.chains) => answer' = 200
          /\ reboots' # reboots => file'.loaded]_vars

(* The same when the agent has restarted.  The template's comment          *)
(* (nftables_generator.go:64) means the file to be applied again "on start *)
(* of the agent"; the chains it has created itself are not in its list.    *)
UpdatesAreAcceptedAfterRestart ==
    [][Applies /\ faults' = 0 /\ Parses(file.text) => answer' = 200]_vars
=============================================================================
