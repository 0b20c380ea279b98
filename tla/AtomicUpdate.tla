---------------------------- MODULE AtomicUpdate ----------------------------
(***************************************************************************)
(* What the agent promises its controller: one request at a time, each     *)
(* manager in turn is switched to the configuration of the request as a    *)
(* whole, or the request is refused and this manager, with all those after *)
(* it, keeps the configuration it has.  "Success" is answered when the     *)
(* last one is switched.  Agent implements this, as long as nothing but a  *)
(* configuration is at fault.                                              *)
(***************************************************************************)
EXTENDS Naturals, Sequences, Functions

CONSTANTS
    Config,         \* the configurations that may be requested
    NoFile,         \* none yet
    Managers        \* the managers, in order

VARIABLES
    config,     \* the configuration each manager is at
    request,    \* what is being worked on: a configuration, for which manager
    answer      \* the last answer

vars == <<config, request, answer>>

NoUpdate == [config |-> NoFile, at |-> 1]

Answer(status) ==
    /\ request' = NoUpdate
    /\ answer' = [status |-> status, config |-> request.config]

Ask(c) ==
    /\ request = NoUpdate
    /\ request' = [NoUpdate EXCEPT !.config = c]
    /\ UNCHANGED <<config, answer>>

Switch ==
    /\ request # NoUpdate
    /\ config' = [config EXCEPT ![Managers[request.at]] = request.config]
    /\ IF request.at = Len(Managers)
         THEN Answer(200)
         ELSE request' = [request EXCEPT !.at = @ + 1] /\ UNCHANGED answer

Refuse ==
    /\ request # NoUpdate
    /\ Answer(500)
    /\ UNCHANGED config

Init ==
    /\ config = [m \in Range(Managers) |-> NoFile]
    /\ request = NoUpdate
    /\ answer = [status |-> 200, config |-> NoFile]

Next == (\E c \in Config : Ask(c)) \/ Switch \/ Refuse

Spec == Init /\ [][Next]_vars
=============================================================================
