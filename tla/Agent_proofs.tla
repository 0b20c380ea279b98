---------------------------- MODULE Agent_proofs ----------------------------
(***************************************************************************)
(* Proofs about Agent, for every set of configurations and of requests in  *)
(* progress, whatever the services cannot run, and any bounds.             *)
(***************************************************************************)
EXTENDS Agent, TLAPS

-----------------------------------------------------------------------------
(* There are one or two managers, each of them once.                       *)
LEMMA ManagersAre ==
    /\ DOMAIN Managers = 1..Len(Managers) /\ Len(Managers) \in {1, 2}
    /\ \A i \in DOMAIN Managers : Managers[i] \in Manager
    /\ \A i, j \in DOMAIN Managers : Managers[i] = Managers[j] => i = j
    /\ Managers[Len(Managers)] = "nftables"
    /\ \A m \in Manager : \E i \in DOMAIN Managers : Managers[i] = m
<1>1. CASE Managers = <<"nftables">>
  BY <1>1 DEF Manager, Range
<1>2. CASE Managers = <<"keepalived", "nftables">>
  BY <1>2 DEF Manager, Range
<1> QED BY <1>1, <1>2, AgentAssumption

(* A typed handler works for a manager.                                    *)
LEMMA MgrIsManager ==
    ASSUME TypeOK, NEW r \in Slot
    PROVE  /\ handler[r].at \in DOMAIN Managers
           /\ Mgr(r) \in Manager
BY ManagersAre DEF TypeOK, HandlerState, Mgr

LEMMA NoRequestTyped ==
    NoRequest \in HandlerState /\ [r \in Slot |-> NoRequest] \in [Slot -> HandlerState]
<1>1. /\ "Idle" \in StepName /\ 1 \in DOMAIN Managers /\ 0 \in 0..MaxRequests
      /\ [m \in Manager |-> NoFile] \in [Manager -> Config \cup {NoFile, Down}]
  BY ManagersAre, AgentAssumption DEF StepName
<1> QED BY <1>1 DEF NoRequest, HandlerState

-----------------------------------------------------------------------------
(* What a step does to the handlers, field by field.                       *)
Only(r) == \A q \in Slot \ {r} : handler'[q] = handler[q]
Moved(r, step, at, backup) ==
    /\ handler' \in [Slot -> HandlerState] /\ Only(r)
    /\ handler'[r].step = step /\ handler'[r].at = at /\ handler'[r].backup = backup
    /\ handler'[r].config = handler[r].config /\ handler'[r].nr = handler[r].nr
    /\ handler'[r].before = handler[r].before

LEMMA GotoMoves ==
    ASSUME TypeOK, NEW r \in Slot, NEW step \in StepName, Goto(r, step)
    PROVE  Moved(r, step, handler[r].at, handler[r].backup)
<1> DEFINE h == handler[r]
           new == [h EXCEPT !.step = step]
<1>1. handler \in [Slot -> HandlerState] /\ h \in HandlerState
  BY DEF TypeOK
<1>2. /\ new \in HandlerState /\ new.step = step /\ new.config = h.config
      /\ new.at = h.at /\ new.backup = h.backup
      /\ new.nr = h.nr /\ new.before = h.before
  BY <1>1 DEF HandlerState
<1>3. handler' = [handler EXCEPT ![r] = new]
  BY DEF Goto
<1> HIDE DEF h, new
<1>4. handler' \in [Slot -> HandlerState] /\ handler'[r] = new /\ Only(r)
  BY <1>1, <1>2, <1>3 DEF Only
<1> QED BY <1>2, <1>4 DEF Moved, h

LEMMA BackupMoves ==
    ASSUME TypeOK, NEW r \in Slot, MakeBackup(r)
    PROVE  Moved(r, "Rename", handler[r].at, file[Mgr(r)])
<1> DEFINE h == handler[r]
           new == [h EXCEPT !.step = "Rename", !.backup = file[Mgr(r)]]
<1>1. /\ handler \in [Slot -> HandlerState] /\ h \in HandlerState
      /\ "Rename" \in StepName /\ file[Mgr(r)] \in Config \cup {NoFile}
  BY MgrIsManager DEF TypeOK, StepName
<1>2. /\ new \in HandlerState /\ new.step = "Rename" /\ new.config = h.config
      /\ new.at = h.at /\ new.backup = file[Mgr(r)]
      /\ new.nr = h.nr /\ new.before = h.before
  BY <1>1 DEF HandlerState
<1>3. handler' = [handler EXCEPT ![r] = new]
  BY DEF MakeBackup
<1> HIDE DEF h, new
<1>4. handler' \in [Slot -> HandlerState] /\ handler'[r] = new /\ Only(r)
  BY <1>1, <1>2, <1>3 DEF Only
<1> QED BY <1>2, <1>4 DEF Moved, h

LEMMA NextMoves ==
    ASSUME TypeOK, NEW r \in Slot, NextManager(r), handler[r].at # Len(Managers)
    PROVE  /\ Moved(r, "Prepare", handler[r].at + 1, handler[r].backup)
           /\ UNCHANGED answer
<1> DEFINE h == handler[r]
           new == [h EXCEPT !.step = "Prepare", !.at = h.at + 1]
<1>1. handler \in [Slot -> HandlerState] /\ h \in HandlerState /\ "Prepare" \in StepName
  BY DEF TypeOK, StepName
<1>2. h.at + 1 \in DOMAIN Managers
  BY ManagersAre, MgrIsManager
<1>3. /\ new \in HandlerState /\ new.step = "Prepare" /\ new.config = h.config
      /\ new.at = h.at + 1 /\ new.backup = h.backup
      /\ new.nr = h.nr /\ new.before = h.before
  BY <1>1, <1>2 DEF HandlerState
<1>4. handler' = [handler EXCEPT ![r] = new] /\ UNCHANGED answer
  BY DEF NextManager
<1> HIDE DEF h, new
<1>5. handler' \in [Slot -> HandlerState] /\ handler'[r] = new /\ Only(r)
  BY <1>1, <1>3, <1>4 DEF Only
<1> QED BY <1>3, <1>4, <1>5 DEF Moved, h

LEMMA ReplyEnds ==
    ASSUME TypeOK, NEW r \in Slot, NEW status \in {200, 500}, Reply(r, status)
    PROVE  /\ handler' \in [Slot -> HandlerState] /\ Only(r)
           /\ handler'[r] = NoRequest /\ handler'[r].step = "Idle"
           /\ answer'.status = status /\ answer'.config = handler[r].config
           /\ answer' \in [nr : 0..MaxRequests, status : {200, 500}, config : Config \cup {NoFile}]
BY NoRequestTyped DEF TypeOK, Reply, Only, HandlerState, NoRequest

LEMMA NextGoesOn ==
    ASSUME TypeOK, NEW r \in Slot, NextManager(r)
    PROVE  handler'[r].step \in {"Idle", "Prepare"}
<1>1. CASE handler[r].at = Len(Managers)
  <2>1. Reply(r, 200)
    BY <1>1 DEF NextManager
  <2> QED BY <2>1, ReplyEnds
<1>2. CASE handler[r].at # Len(Managers)
  BY <1>2, NextMoves DEF Moved
<1> QED BY <1>1, <1>2

LEMMA ReceiveBegins ==
    ASSUME TypeOK, NEW r \in Slot, NEW c \in Config, Receive(r, c)
    PROVE  /\ handler' \in [Slot -> HandlerState] /\ Only(r)
           /\ handler'[r].step = "Prepare" /\ handler'[r].at = 1
           /\ handler'[r].config = c /\ handler'[r].before = running
           /\ requests' \in 0..MaxRequests /\ overlaps' \in 0..MaxOverlaps
<1>1. requests' \in 0..MaxRequests /\ overlaps' \in 0..MaxOverlaps
  BY AgentAssumption DEF Receive, TypeOK
<1> DEFINE received == [NoRequest EXCEPT !.step = "Prepare", !.config = c,
                                         !.nr = requests', !.before = running]
<1>2. handler' = [handler EXCEPT ![r] = received]
  BY DEF Receive
<1>3. "Prepare" \in StepName /\ NoRequest \in HandlerState /\ NoRequest.at = 1
  BY NoRequestTyped DEF StepName, NoRequest
<1>4. /\ received \in HandlerState
      /\ received.step = "Prepare" /\ received.config = c /\ received.nr = requests'
      /\ received.before = running /\ received.at = 1
  BY <1>1, <1>3 DEF HandlerState, TypeOK
<1> QED BY <1>1, <1>2, <1>4 DEF TypeOK, Only

-----------------------------------------------------------------------------
(* What a handler does next is typed.                                      *)
LEMMA HandlerTyped ==
    ASSUME TypeOK, NEW r \in Slot, UNCHANGED <<requests, overlaps, crashes>>,
           file' \in [Manager -> Config \cup {NoFile}],
           running' \in [Manager -> Config \cup {NoFile, Down}],
           faults' \in 0..MaxFaults,
           \/ /\ UNCHANGED answer
              /\ \E step \in StepName : Goto(r, step)
           \/ MakeBackup(r) /\ UNCHANGED answer
           \/ \E status \in {200, 500} : Reply(r, status)
           \/ NextManager(r)
    PROVE  TypeOK'
<1>1. CASE UNCHANGED answer /\ \E step \in StepName : Goto(r, step)
  BY <1>1, GotoMoves DEF TypeOK, Moved
<1>2. CASE MakeBackup(r) /\ UNCHANGED answer
  BY <1>2, BackupMoves DEF TypeOK, Moved
<1>3. ASSUME NEW status \in {200, 500}, Reply(r, status)
      PROVE  TypeOK'
  BY <1>3, ReplyEnds DEF TypeOK
<1>4. CASE NextManager(r)
  <2>1. CASE handler[r].at = Len(Managers)
    BY <1>4, <2>1, <1>3 DEF NextManager
  <2>2. CASE handler[r].at # Len(Managers)
    BY <1>4, <2>2, NextMoves DEF TypeOK, Moved
  <2> QED BY <2>1, <2>2
<1> QED BY <1>1, <1>2, <1>3, <1>4

LEMMA FaultsTyped == TypeOK /\ (Fault \/ NoFault) => faults' \in 0..MaxFaults
BY AgentAssumption DEF TypeOK, Fault, NoFault

LEMMA LoadTyped ==
    ASSUME TypeOK, NEW m \in Manager, NEW ok \in BOOLEAN, Load(m, ok)
    PROVE  /\ running' \in [Manager -> Config \cup {NoFile, Down}]
           /\ faults' \in 0..MaxFaults
BY FaultsTyped DEF TypeOK, Load

LEMMA NextKeepsTypes == TypeOK /\ [Next]_vars => TypeOK'
<1> SUFFICES ASSUME TypeOK, [Next]_vars PROVE TypeOK'
  OBVIOUS
<1>1. ASSUME NEW r \in Slot, NEW c \in Config, Receive(r, c)
      PROVE  TypeOK'
  BY <1>1, ReceiveBegins DEF Receive, TypeOK
<1>2. ASSUME NEW r \in Slot, Step(r)
      PROVE  TypeOK'
  <2>1. Mgr(r) \in Manager
    BY MgrIsManager
  <2>2. CASE Prepare(r)
    BY <2>2, HandlerTyped, FaultsTyped DEF Prepare, TypeOK
  <2>3. CASE Rename(r)
    <3>1. file' \in [Manager -> Config \cup {NoFile}]
      BY <2>3, <2>1 DEF Rename, TypeOK, HandlerState
    <3>2. /\ Goto(r, "Reload") /\ "Reload" \in StepName /\ (Fault \/ NoFault)
          /\ UNCHANGED <<running, answer, requests, overlaps, crashes>>
      BY <2>3 DEF Rename, StepName
    <3> QED BY <3>1, <3>2, HandlerTyped, FaultsTyped DEF TypeOK
  <2>4. CASE Reload(r)
    <3>1. PICK ok \in BOOLEAN : Load(Mgr(r), ok)
      BY <2>4 DEF Reload
    <3>2. /\ Goto(r, "Check") \/ Goto(r, "Restore")
          /\ {"Check", "Restore"} \subseteq StepName
          /\ UNCHANGED <<file, answer, requests, overlaps, crashes>>
      BY <2>4 DEF Reload, StepName
    <3> QED BY <2>1, <3>1, <3>2, HandlerTyped, LoadTyped DEF TypeOK
  <2>5. CASE Check(r)
    <3>1. /\ NextManager(r) \/ (Goto(r, "Restore") /\ UNCHANGED answer)
          /\ "Restore" \in StepName /\ (Fault \/ NoFault)
          /\ UNCHANGED <<file, running, requests, overlaps, crashes>>
      BY <2>5 DEF Check, StepName
    <3> QED BY <3>1, HandlerTyped, FaultsTyped DEF TypeOK
  <2>6. CASE Restore(r)
    <3>1. file' \in [Manager -> Config \cup {NoFile}]
      BY <2>6, <2>1 DEF Restore, TypeOK, HandlerState
    <3>2. /\ Goto(r, "FixReload") /\ "FixReload" \in StepName /\ (Fault \/ NoFault)
          /\ UNCHANGED <<running, answer, requests, overlaps, crashes>>
      BY <2>6 DEF Restore, StepName
    <3> QED BY <3>1, <3>2, HandlerTyped, FaultsTyped DEF TypeOK
  <2>7. CASE FixReload(r)
    <3>1. PICK ok \in BOOLEAN : Load(Mgr(r), ok)
      BY <2>7 DEF FixReload
    <3>2. /\ Goto(r, "FixStart") /\ "FixStart" \in StepName
          /\ UNCHANGED <<file, answer, requests, overlaps, crashes>>
      BY <2>7 DEF FixReload, StepName
    <3> QED BY <2>1, <3>1, <3>2, HandlerTyped, LoadTyped DEF TypeOK
  <2>8. CASE FixStart(r)
    <3>1. running' \in [Manager -> Config \cup {NoFile, Down}]
      BY <2>8, <2>1 DEF FixStart, TypeOK
    <3> QED BY <2>8, <3>1, HandlerTyped, FaultsTyped DEF FixStart, TypeOK
  <2> QED BY <1>2, <2>2, <2>3, <2>4, <2>5, <2>6, <2>7, <2>8 DEF Step
<1>3. CASE Restart
  <2>1. "nftables" \in Manager
    BY ManagersAre
  <2>2. /\ running' \in [Manager -> Config \cup {NoFile, Down}]
        /\ faults' \in 0..MaxFaults
    BY <1>3, <2>1, LoadTyped DEF Restart, TypeOK
  <2>3. crashes' \in 0..MaxCrashes
    BY <1>3, AgentAssumption DEF Restart, TypeOK
  <2> QED BY <1>3, <2>2, <2>3, NoRequestTyped DEF Restart, TypeOK
<1>4. CASE UNCHANGED vars
  BY <1>4 DEF vars, budgetVars, TypeOK
<1> QED BY <1>1, <1>2, <1>3, <1>4 DEF Next

LEMMA InitTyped == Init => TypeOK
<1> SUFFICES ASSUME Init PROVE TypeOK
  OBVIOUS
<1>1. handler \in [Slot -> HandlerState]
  BY NoRequestTyped DEF Init
<1> QED BY <1>1, AgentAssumption DEF Init, TypeOK

(* The variables have their types in every reachable state.                *)
THEOREM TypeCorrect == Spec => []TypeOK
<1>1. TypeOK /\ [Next]_vars => TypeOK'
  BY NextKeepsTypes
<1> QED BY InitTyped, <1>1, PTL DEF Spec

-----------------------------------------------------------------------------
(* A step of a request only touches its own handler and its own manager.   *)
LEMMA StepIsLocal ==
    ASSUME TypeOK, NEW r \in Slot, Step(r)
    PROVE  /\ Only(r) /\ handler[r].step # "Idle"
           /\ \A n \in Manager \ {Mgr(r)} : file'[n] = file[n] /\ running'[n] = running[n]
           /\ UNCHANGED <<requests, overlaps, crashes>>
           /\ faults' \in {faults, faults + 1}
<1>1. \A m \in Manager, ok \in BOOLEAN : Load(m, ok) =>
          /\ \A n \in Manager \ {m} : running'[n] = running[n]
          /\ faults' \in {faults, faults + 1}
  BY DEF TypeOK, Load, Fault, NoFault
<1>2. Mgr(r) \in Manager
  BY MgrIsManager
<1>3. \A step \in StepName : Goto(r, step) => Only(r)
  BY GotoMoves DEF Moved
<1>4. NextManager(r) => Only(r)
  BY NextMoves, ReplyEnds DEF NextManager, Moved
<1>5. CASE Prepare(r)
  BY <1>4, <1>5, BackupMoves, ReplyEnds DEF Prepare, Moved, Fault, NoFault
<1>6. CASE Rename(r)
  BY <1>2, <1>3, <1>6 DEF Rename, TypeOK, StepName, Fault, NoFault
<1>7. CASE Reload(r)
  <2>1. \E ok \in BOOLEAN : Load(Mgr(r), ok)
    BY <1>7 DEF Reload
  <2> QED BY <1>1, <1>2, <1>3, <1>7, <2>1 DEF Reload, StepName
<1>8. CASE Check(r)
  BY <1>3, <1>4, <1>8 DEF Check, StepName, Fault, NoFault
<1>9. CASE Restore(r)
  BY <1>2, <1>3, <1>9 DEF Restore, TypeOK, StepName, Fault, NoFault
<1>10. CASE FixReload(r)
  BY <1>1, <1>2, <1>3, <1>10 DEF FixReload, StepName
<1>11. CASE FixStart(r)
  BY <1>2, <1>11, ReplyEnds DEF FixStart, TypeOK, Fault, NoFault
<1> QED BY <1>5, <1>6, <1>7, <1>8, <1>9, <1>10, <1>11 DEF Step

-----------------------------------------------------------------------------
(* Why services run what the files say although nobody locks anything:     *)
(* whoever changes a file still has to reload it, and whoever sees a       *)
(* service down still has to start it.                                     *)
Pending(m, steps) == \E r \in Slot : handler[r].step \in steps /\ Mgr(r) = m

DirectRuns == \A m \in Manager : Direct(m) => running[m] # Down

SomebodyReloads ==
    faults = 0 => \A m \in Manager :
        (crashes = 0 \/ Direct(m)) /\ Loadable(m) =>
            /\ running[m] \notin {file[m], Down} =>
                   Pending(m, {"Reload", "Restore", "FixReload"})
            /\ running[m] = Down =>
                   Pending(m, {"Reload", "Check", "Restore", "FixReload", "FixStart"})

ReloadInv == TypeOK /\ DirectRuns /\ SomebodyReloads

LEMMA DirectStaysUp == TypeOK /\ DirectRuns /\ [Next]_vars => DirectRuns'
<1> SUFFICES ASSUME TypeOK, DirectRuns, [Next]_vars PROVE DirectRuns'
  OBVIOUS
<1> USE DEF DirectRuns, Direct
<1>1. \A m \in Manager, ok \in BOOLEAN : Load(m, ok) => DirectRuns'
  BY AgentAssumption DEF TypeOK, Load, Loadable
<1>2. ASSUME NEW r \in Slot, Step(r)
      PROVE  DirectRuns'
  <2>1. Mgr(r) \in Manager
    BY MgrIsManager
  <2>2. CASE Reload(r) \/ FixReload(r)
    <3>1. \E ok \in BOOLEAN : Load(Mgr(r), ok)
      BY <2>2 DEF Reload, FixReload
    <3> QED BY <2>1, <3>1, <1>1
  <2>3. CASE FixStart(r)
    BY <2>1, <2>3, AgentAssumption DEF FixStart, TypeOK, Loadable
  <2>4. CASE Prepare(r) \/ Rename(r) \/ Check(r) \/ Restore(r)
    BY <2>4 DEF Prepare, Rename, Check, Restore
  <2> QED BY <1>2, <2>2, <2>3, <2>4 DEF Step
<1>3. CASE Restart
  BY <1>3, <1>1, ManagersAre DEF Restart
<1>4. CASE \E r \in Slot, c \in Config : Receive(r, c)
  BY <1>4 DEF Receive
<1>5. CASE UNCHANGED vars
  BY <1>5 DEF vars
<1> QED BY <1>2, <1>3, <1>4, <1>5 DEF Next

(* Handlers that a step leaves alone still pend.                           *)
LEMMA OthersPend ==
    ASSUME NEW r \in Slot, Only(r), NEW m, NEW steps,
           \E q \in Slot \ {r} : handler[q].step \in steps /\ Mgr(q) = m
    PROVE  Pending(m, steps)'
BY DEF Only, Pending, Mgr

LEMMA MovedPends ==
    ASSUME NEW r \in Slot, NEW m \in Manager, m = Mgr(r), NEW step, NEW steps, step \in steps,
           Moved(r, step, handler[r].at, handler[r].backup)
    PROVE  Pending(m, steps)'
BY DEF Moved, Pending, Mgr

LEMMA StepKeepsReloads ==
    ASSUME TypeOK, DirectRuns, SomebodyReloads, NEW r \in Slot, Step(r)
    PROVE  SomebodyReloads'
<1> DEFINE Strong == {"Reload", "Restore", "FixReload"}
           Weak == {"Reload", "Check", "Restore", "FixReload", "FixStart"}
<1> SUFFICES ASSUME faults' = 0, NEW m \in Manager, (crashes = 0 \/ Direct(m))', Loadable(m)'
             PROVE  /\ running'[m] \notin {file'[m], Down} => Pending(m, Strong)'
                    /\ running'[m] = Down => Pending(m, Weak)'
  BY DEF SomebodyReloads
<1>1. /\ Only(r) /\ faults = 0 /\ ~Fault
      /\ crashes = 0 \/ Direct(m)
      /\ \A n \in Manager \ {Mgr(r)} : file'[n] = file[n] /\ running'[n] = running[n]
      /\ Mgr(r) \in Manager
  BY StepIsLocal, MgrIsManager DEF TypeOK, Direct, Fault
<1>2. Loadable(m) => /\ running[m] \notin {file[m], Down} => Pending(m, Strong)
                     /\ running[m] = Down => Pending(m, Weak)
  BY <1>1 DEF SomebodyReloads
<1>3. \A steps : Pending(m, steps) =>
          \/ handler[r].step \in steps /\ Mgr(r) = m
          \/ Pending(m, steps)'
  BY <1>1, OthersPend DEF Pending
<1>4. CASE m # Mgr(r)
  BY <1>1, <1>2, <1>3, <1>4 DEF Loadable, Direct
<1>5. CASE m = Mgr(r)
  <2>1. \A step \in StepName : Goto(r, step) =>
            \A steps : step \in steps => Pending(m, steps)'
    BY <1>5, GotoMoves, MovedPends
  <2>2. {"Reload", "Check", "Restore", "FixReload", "FixStart"} \subseteq StepName
    BY DEF StepName
  <2>3. CASE Prepare(r)
    <3>1. UNCHANGED <<file, running>> /\ handler[r].step = "Prepare"
      BY <2>3 DEF Prepare
    <3> QED BY <1>2, <1>3, <3>1 DEF Loadable, Direct
  <2>4. CASE Rename(r)
    BY <2>1, <2>2, <2>4 DEF Rename
  <2>5. CASE Reload(r)
    <3>1. CASE Load(m, TRUE) /\ Goto(r, "Check")
      <4>1. UNCHANGED file /\ Pending(m, Weak)'
        BY <2>1, <2>2, <2>5, <3>1 DEF Reload
      <4>2. running'[m] = file[m]
        BY <1>1, <3>1, <4>1 DEF Load, Loadable, Direct, TypeOK
      <4> QED BY <4>1, <4>2
    <3>2. CASE Goto(r, "Restore")
      BY <2>1, <2>2, <3>2
    <3> QED BY <1>5, <2>5, <3>1, <3>2 DEF Reload
  <2>6. CASE Check(r)
    <3>1. UNCHANGED <<file, running>> /\ handler[r].step = "Check"
      BY <2>6 DEF Check
    <3>2. CASE running[m] = Down
      BY <1>1, <1>5, <2>1, <2>2, <2>6, <3>1, <3>2 DEF Check
    <3>3. CASE running[m] # Down
      BY <1>2, <1>3, <3>1, <3>3 DEF Loadable, Direct
    <3> QED BY <3>2, <3>3
  <2>7. CASE Restore(r)
    BY <2>1, <2>2, <2>7 DEF Restore
  <2>8. CASE FixReload(r)
    <3>1. UNCHANGED file /\ Pending(m, Weak)' /\ \E ok \in BOOLEAN : Load(m, ok)
      BY <1>5, <2>1, <2>2, <2>8 DEF FixReload
    <3>2. running'[m] \in {file'[m], Down}
      BY <1>1, <3>1 DEF Load, Loadable, Direct, TypeOK
    <3> QED BY <3>1, <3>2
  <2>9. CASE FixStart(r)
    <3>1. UNCHANGED file /\ Loadable(m) /\ handler[r].step = "FixStart"
      BY <2>9 DEF FixStart, Loadable, Direct
    <3>2. CASE m = "keepalived" /\ running[m] # Down
      <4>1. running'[m] = running[m]
        BY <1>1, <1>5, <2>9, <3>2 DEF FixStart, TypeOK
      <4> QED BY <1>2, <1>3, <3>1, <3>2, <4>1
    <3>3. CASE ~(m = "keepalived" /\ running[m] # Down)
      <4>1. running'[m] = file[m]
        BY <1>1, <1>5, <2>9, <3>1, <3>3 DEF FixStart, TypeOK
      <4>2. file[m] # Down
        BY AgentAssumption DEF TypeOK
      <4> QED BY <3>1, <4>1, <4>2
    <3> QED BY <3>2, <3>3
  <2> QED BY <2>3, <2>4, <2>5, <2>6, <2>7, <2>8, <2>9 DEF Step
<1> QED BY <1>4, <1>5

LEMMA NextKeepsReloads == ReloadInv /\ [Next]_vars => ReloadInv'
<1> SUFFICES ASSUME TypeOK, DirectRuns, SomebodyReloads, [Next]_vars
             PROVE  SomebodyReloads'
  BY NextKeepsTypes, DirectStaysUp DEF ReloadInv
<1>1. ASSUME NEW r \in Slot, NEW c \in Config, Receive(r, c)
      PROVE  SomebodyReloads'
  <2>1. Only(r) /\ handler[r].step = "Idle" /\ UNCHANGED <<file, running, faults, crashes>>
    BY <1>1, ReceiveBegins DEF Receive, Idle
  <2>2. \A m \in Manager : Loadable(m)' = Loadable(m) /\ Direct(m)' = Direct(m)
    BY <2>1 DEF Loadable, Direct
  <2>3. \A m \in Manager : \A steps :
            "Idle" \notin steps /\ Pending(m, steps) => Pending(m, steps)'
    BY <2>1, OthersPend DEF Pending
  <2> QED BY <2>1, <2>2, <2>3 DEF SomebodyReloads
<1>2. CASE Restart
  <2> SUFFICES ASSUME faults' = 0, NEW m \in Manager, (crashes = 0 \/ Direct(m))', Loadable(m)'
               PROVE  running'[m] = file'[m] /\ file'[m] # Down
    BY DEF SomebodyReloads
  <2>1. /\ Direct(m) /\ m = "nftables" /\ PartialReload /\ UNCHANGED file /\ Loadable(m)
        /\ running[m] # Down
    BY <1>2 DEF Restart, Direct, Loadable, TypeOK, DirectRuns
  <2>2. ~Fault /\ \E ok \in BOOLEAN : Load(m, ok)
    BY <1>2, <2>1 DEF Restart, Fault, TypeOK
  <2> QED BY <2>1, <2>2, AgentAssumption DEF Load, TypeOK
<1>3. CASE UNCHANGED vars
  BY <1>3 DEF vars, budgetVars, SomebodyReloads, Loadable, Direct, Pending, Mgr
<1> QED BY <1>1, <1>2, <1>3, StepKeepsReloads DEF Next

LEMMA ReloadInvHolds == Spec => []ReloadInv
<1>1. Init => ReloadInv
  <2> SUFFICES ASSUME Init PROVE ReloadInv
    OBVIOUS
  <2>1. \A m \in Manager : running[m] = file[m] /\ file[m] # Down
    BY AgentAssumption DEF Init
  <2> QED BY <2>1, InitTyped DEF ReloadInv, DirectRuns, SomebodyReloads
<1> QED BY <1>1, NextKeepsReloads, PTL DEF Spec

-----------------------------------------------------------------------------
(* One request at a time: until requests overlap, a service that has been  *)
(* reloaded without an error runs the file or is down.                     *)
OneAtATime ==
    overlaps = 0 => \A q, r \in Slot : ~Idle(q) /\ ~Idle(r) => q = r

ReloadedRunsFile ==
    overlaps = 0 => \A r \in Slot :
        handler[r].step = "Check" => running[Mgr(r)] \in {file[Mgr(r)], Down}

AloneInv == TypeOK /\ OneAtATime /\ ReloadedRunsFile

LEMMA StepStaysAlone ==
    ASSUME AloneInv, NEW r \in Slot, Step(r)
    PROVE  AloneInv'
<1> SUFFICES ASSUME overlaps' = 0
             PROVE  OneAtATime' /\ ReloadedRunsFile'
  BY NextKeepsTypes DEF AloneInv, OneAtATime, ReloadedRunsFile, Next
<1>1. /\ TypeOK /\ overlaps = 0 /\ Only(r) /\ handler[r].step # "Idle" /\ Mgr(r) \in Manager
      /\ \A q \in Slot \ {r} : Idle(q)
  BY StepIsLocal, MgrIsManager DEF AloneInv, OneAtATime, Idle
<1>2. OneAtATime'
  BY <1>1 DEF OneAtATime, Only, Idle
<1>3. CASE handler'[r].step # "Check"
  BY <1>1, <1>2, <1>3 DEF ReloadedRunsFile, Only, Idle
<1>4. CASE handler'[r].step = "Check"
  <2>1. handler[r].step = "Reload" /\ Reload(r)
    <3>1. Prepare(r) => handler'[r].step # "Check"
      <4>1. MakeBackup(r) => handler'[r].step # "Check"
        BY <1>1, BackupMoves DEF Moved
      <4>2. Reply(r, 500) => handler'[r].step # "Check"
        BY <1>1, ReplyEnds
      <4> QED BY <1>1, <4>1, <4>2, NextGoesOn DEF Prepare
    <3>2. Check(r) => handler'[r].step # "Check"
      <4>1. Goto(r, "Restore") => handler'[r].step # "Check"
        BY <1>1, GotoMoves DEF Moved, StepName
      <4> QED BY <1>1, <4>1, NextGoesOn DEF Check
    <3>3. FixStart(r) => handler'[r].step = "Idle"
      BY <1>1, ReplyEnds DEF FixStart
    <3>4. Rename(r) \/ Restore(r) \/ FixReload(r) => handler'[r].step # "Check"
      BY <1>1, GotoMoves DEF Rename, Restore, FixReload, Moved, StepName
    <3> QED BY <1>4, <3>1, <3>2, <3>3, <3>4 DEF Step, Reload
  <2>2. Load(Mgr(r), TRUE) /\ Goto(r, "Check") /\ UNCHANGED file
    BY <1>1, <1>4, <2>1, GotoMoves DEF Reload, Moved, StepName
  <2>3. running'[Mgr(r)] \in {file[Mgr(r)], Down}
    BY <1>1, <2>2 DEF Load, TypeOK
  <2>4. handler'[r].at = handler[r].at
    BY <1>1, <2>2, GotoMoves DEF Moved, StepName
  <2> QED BY <1>1, <1>2, <2>2, <2>3, <2>4 DEF ReloadedRunsFile, Only, Idle, Mgr
<1> QED BY <1>2, <1>3, <1>4

LEMMA NextStaysAlone == AloneInv /\ [Next]_vars => AloneInv'
<1> SUFFICES ASSUME AloneInv, [Next]_vars PROVE AloneInv'
  OBVIOUS
<1>1. TypeOK'
  BY NextKeepsTypes DEF AloneInv
<1>2. ASSUME NEW r \in Slot, NEW c \in Config, Receive(r, c)
      PROVE  AloneInv'
  <2>1. /\ TypeOK /\ Only(r) /\ handler'[r].step = "Prepare"
        /\ UNCHANGED <<file, running>>
        /\ IF AllIdle THEN overlaps' = overlaps ELSE overlaps' = overlaps + 1
    BY <1>2, ReceiveBegins DEF AloneInv, Receive
  <2>2. overlaps' = 0 => AllIdle /\ overlaps = 0
    BY <2>1 DEF TypeOK
  <2>3. OneAtATime' /\ ReloadedRunsFile'
    BY <2>1, <2>2 DEF OneAtATime, ReloadedRunsFile, AllIdle, Idle, Only
  <2> QED BY <1>1, <2>3 DEF AloneInv
<1>3. CASE Restart
  <2>1. \A r \in Slot : handler'[r].step = "Idle"
    BY <1>3 DEF Restart, NoRequest
  <2> QED BY <1>1, <2>1 DEF AloneInv, OneAtATime, ReloadedRunsFile, Idle
<1>4. CASE UNCHANGED vars
  BY <1>1, <1>4 DEF vars, budgetVars, AloneInv, OneAtATime, ReloadedRunsFile, Idle, Mgr
<1> QED BY <1>2, <1>3, <1>4, StepStaysAlone DEF Next

LEMMA InitIsAlone == Init => AloneInv
<1> SUFFICES ASSUME Init PROVE AloneInv
  OBVIOUS
<1>1. \A r \in Slot : handler[r].step = "Idle"
  BY DEF Init, NoRequest
<1> QED BY <1>1, InitTyped DEF AloneInv, OneAtATime, ReloadedRunsFile, Idle

(* Whatever has failed before, as long as requests come one at a time: a   *)
(* service that has passed the reload and the check runs the new file.     *)
THEOREM CheckedServiceRunsFile == Spec => PassedCheckRunsFile
<1> DEFINE Passes == \A r \in Slot :
        (/\ handler[r].step = "Check" /\ handler'[r].step # "Restore"
         /\ handler'[r] # handler[r] /\ crashes' = crashes /\ overlaps = 0) =>
            running'[Mgr(r)] = file'[Mgr(r)]
<1>1. AloneInv /\ [Next]_vars => [Passes]_vars
  <2> SUFFICES ASSUME AloneInv, Next, NEW r \in Slot,
                      handler[r].step = "Check", handler'[r].step # "Restore",
                      handler'[r] # handler[r], crashes' = crashes, overlaps = 0
               PROVE  running'[Mgr(r)] = file'[Mgr(r)]
    OBVIOUS
  <2>1. TypeOK /\ running[Mgr(r)] \in {file[Mgr(r)], Down}
    BY DEF AloneInv, ReloadedRunsFile
  <2>2. ~Restart
    BY <2>1 DEF Restart, TypeOK
  <2>3. \A q \in Slot, c \in Config : ~Receive(q, c)
    BY <2>1, ReceiveBegins DEF Receive, Idle, Only
  <2>4. \A q \in Slot : Step(q) => q = r
    BY <2>1, StepIsLocal DEF Only
  <2>5. Check(r)
    BY <2>2, <2>3, <2>4 DEF Next, Step, Prepare, Rename, Reload, Restore, FixReload, FixStart
  <2>6. ~Goto(r, "Restore")
    BY <2>1, GotoMoves DEF Moved, StepName
  <2> QED BY <2>1, <2>5, <2>6 DEF Check
<1> QED BY <1>1, InitIsAlone, NextStaysAlone, PTL DEF Spec, PassedCheckRunsFile

-----------------------------------------------------------------------------
(* Until something disturbs the agent, the file and the service of the     *)
(* manager at work are where its step says, and those of all others agree. *)
Settled(m) == running[m] = file[m] /\ file[m] \notin Bad[m]

Progress(r, m) ==
    LET h == handler[r] IN
    /\ h.step = "Rename" => h.backup = file[m]
    /\ h.step = "Reload" => file[m] = h.config /\ running[m] = h.backup
    /\ h.step = "Check" =>
           /\ file[m] = h.config
           /\ running[m] = IF h.config \in Bad[m] THEN Down ELSE h.config
    /\ h.step = "Restore" => file[m] = h.config /\ running[m] \in {h.backup, Down}
    /\ h.step \in {"FixReload", "FixStart"} =>
           file[m] = h.backup /\ running[m] \in {h.backup, Down}
    /\ Updating(r, m) => h.backup \notin Bad[m]

RequestInv(r) ==
    /\ handler[r].config \in Config
    /\ \A i \in DOMAIN Managers : i < handler[r].at => file[Managers[i]] = handler[r].config
    /\ Progress(r, Mgr(r))

UndisturbedInv ==
    Undisturbed =>
        /\ \A m \in Manager : (\A r \in Slot : ~Updating(r, m)) => Settled(m)
        /\ \A r \in Slot : ~Idle(r) => RequestInv(r)

SequentialInv == AloneInv /\ DirectRuns /\ UndisturbedInv

(* What the steps of the only request do when no call fails.               *)
LEMMA StepProgresses ==
    ASSUME SequentialInv, Undisturbed, NEW r \in Slot, Step(r), faults' = 0,
           NEW m \in Manager, m = Mgr(r)
    PROVE  UndisturbedInv'
<1> DEFINE h == handler[r]
<1>1. /\ TypeOK /\ TypeOK' /\ ~Fault
      /\ Only(r) /\ h.step # "Idle" /\ h.at \in DOMAIN Managers
      /\ \A q \in Slot \ {r} : Idle(q)
      /\ \A n \in Manager \ {m} : file'[n] = file[n] /\ running'[n] = running[n]
  BY StepIsLocal, MgrIsManager, NextKeepsTypes
     DEF SequentialInv, AloneInv, OneAtATime, Undisturbed, Idle, Fault, TypeOK, Next
<1>2. RequestInv(r) /\ \A n \in Manager : (\A q \in Slot : ~Updating(q, n)) => Settled(n)
  BY <1>1 DEF SequentialInv, UndisturbedInv, Idle
<1>3. \A q \in Slot \ {r} : Idle(q)' /\ \A n : ~Updating(q, n) /\ ~Updating(q, n)'
  BY <1>1 DEF Only, Idle, Updating
<1>4. /\ \A n \in Manager \ {m} : Settled(n) /\ Settled(n)'
      /\ h.step \in {"Prepare", "Rename"} => Settled(m)
  BY <1>1, <1>2, <1>3 DEF Updating, Settled
<1>5. /\ \A i \in DOMAIN Managers : i < h.at => Managers[i] # m
      /\ m = Managers[h.at] /\ h.at \in Nat
  BY <1>1, ManagersAre DEF Mgr
<1>6. h.config \in Config /\ h.config # NoFile /\ h.config # Down /\ h.backup # Down
  BY <1>1, <1>2, AgentAssumption DEF RequestInv, TypeOK, HandlerState
<1>7. \A i \in DOMAIN Managers : i < h.at => file'[Managers[i]] = h.config
  BY <1>1, <1>2, <1>5, ManagersAre DEF RequestInv
<1>8. /\ Progress(r, m)
      /\ running[m] # Down \/ ~Direct(m)
      /\ h.step \notin {"Idle", "Prepare", "Rename"} => Updating(r, m)
  BY <1>1, <1>2 DEF RequestInv, SequentialInv, DirectRuns, Updating, TypeOK, HandlerState, StepName
(* The request goes on with this manager, with the next one, or ends.      *)
<1>9. ASSUME NEW step, NEW backup, Moved(r, step, h.at, backup), Progress(r, m)',
             Settled(m)' \/ Updating(r, m)'
      PROVE  UndisturbedInv'
  <2>1. Mgr(r)' = m /\ RequestInv(r)'
    BY <1>6, <1>7, <1>9 DEF Moved, RequestInv, Mgr
  <2> QED BY <1>3, <1>4, <1>9, <2>1 DEF UndisturbedInv
<1>10. ASSUME NextManager(r), Settled(m)', file'[m] = h.config
       PROVE  UndisturbedInv'
  <2>1. CASE h.at = Len(Managers)
    <3>1. Idle(r)'
      BY <1>1, <1>10, <2>1, ReplyEnds DEF NextManager, Idle
    <3> QED BY <1>3, <1>4, <1>10, <3>1 DEF UndisturbedInv
  <2>2. CASE h.at # Len(Managers)
    <3>1. Moved(r, "Prepare", h.at + 1, h.backup)
      BY <1>1, <1>10, <2>2, NextMoves
    <3>2. \A i \in DOMAIN Managers : i < h.at + 1 => file'[Managers[i]] = h.config
      BY <1>5, <1>7, <1>10, ManagersAre
    <3>3. RequestInv(r)'
      BY <1>6, <3>1, <3>2 DEF Moved, RequestInv, Progress, Updating
    <3> QED BY <1>3, <1>4, <1>10, <3>3 DEF UndisturbedInv
  <2> QED BY <2>1, <2>2
<1>11. ASSUME Reply(r, 500), Settled(m)'
       PROVE  UndisturbedInv'
  <2>1. Idle(r)'
    BY <1>1, <1>11, ReplyEnds DEF Idle
  <2> QED BY <1>3, <1>4, <1>11, <2>1 DEF UndisturbedInv
<1>12. CASE Prepare(r)
  <2>1. UNCHANGED <<file, running>> /\ Settled(m) /\ Settled(m)'
    BY <1>4, <1>12 DEF Prepare, Settled
  <2>2. CASE NextManager(r) /\ file[m] = h.config
    BY <1>10, <2>1, <2>2
  <2>3. CASE MakeBackup(r)
    <3>1. Moved(r, "Rename", h.at, file[m])
      BY <1>1, <2>3, BackupMoves
    <3>2. Progress(r, m)'
      BY <2>1, <3>1 DEF Moved, Progress, Updating
    <3> QED BY <1>9, <2>1, <3>1, <3>2
  <2> QED BY <1>1, <1>12, <2>2, <2>3 DEF Prepare, Differs
<1>13. CASE Rename(r)
  <2>1. Moved(r, "Reload", h.at, h.backup) /\ UNCHANGED running /\ file'[m] = h.config
    BY <1>1, <1>13, GotoMoves DEF Rename, StepName, TypeOK
  <2>2. Progress(r, m)' /\ Updating(r, m)'
    BY <1>4, <1>8, <1>13, <2>1 DEF Rename, Moved, Progress, Updating, Settled, Mgr
  <2> QED BY <1>9, <2>1, <2>2
<1>14. CASE Reload(r)
  <2>1. UNCHANGED file /\ file[m] = h.config /\ running[m] = h.backup /\ h.backup \notin Bad[m]
    BY <1>8, <1>14 DEF Reload, Progress
  <2>2. CASE Load(m, TRUE) /\ Goto(r, "Check")
    <3>1. Moved(r, "Check", h.at, h.backup)
      BY <1>1, <2>2, GotoMoves DEF StepName
    <3>2. running'[m] = IF h.config \in Bad[m] THEN Down ELSE h.config
      BY <1>1, <2>1, <2>2 DEF Load, Loadable, TypeOK
    <3>3. Progress(r, m)' /\ Updating(r, m)'
      BY <2>1, <3>1, <3>2 DEF Moved, Progress, Updating, Mgr
    <3> QED BY <1>9, <3>1, <3>3
  <2>3. CASE Load(m, FALSE) /\ Goto(r, "Restore")
    <3>1. Moved(r, "Restore", h.at, h.backup)
      BY <1>1, <2>3, GotoMoves DEF StepName
    <3>2. running'[m] = h.backup
      BY <1>1, <2>1, <2>3 DEF Load
    <3>3. Progress(r, m)' /\ Updating(r, m)'
      BY <2>1, <3>1, <3>2 DEF Moved, Progress, Updating, Mgr
    <3> QED BY <1>9, <3>1, <3>3
  <2> QED BY <1>14, <2>2, <2>3 DEF Reload
<1>15. CASE Check(r)
  <2>1. /\ UNCHANGED <<file, running>> /\ file[m] = h.config /\ h.backup \notin Bad[m]
        /\ running[m] = IF h.config \in Bad[m] THEN Down ELSE h.config
    BY <1>8, <1>15 DEF Check, Progress
  <2>2. CASE running[m] # Down /\ NextManager(r)
    BY <1>10, <2>1, <2>2 DEF Settled
  <2>3. CASE running[m] = Down /\ Goto(r, "Restore")
    <3>1. Moved(r, "Restore", h.at, h.backup)
      BY <1>1, <2>3, GotoMoves DEF StepName
    <3>2. Progress(r, m)' /\ Updating(r, m)'
      BY <2>1, <2>3, <3>1 DEF Moved, Progress, Updating, Mgr
    <3> QED BY <1>9, <3>1, <3>2
  <2> QED BY <1>1, <1>15, <2>2, <2>3 DEF Check
<1>16. CASE Restore(r)
  <2>1. UNCHANGED running /\ running[m] \in {h.backup, Down} /\ h.backup \notin Bad[m]
    BY <1>8, <1>16 DEF Restore, Progress
  <2>2. Moved(r, "FixReload", h.at, h.backup) /\ file'[m] = h.backup
    BY <1>1, <1>16, GotoMoves DEF Restore, StepName, TypeOK
  <2>3. Progress(r, m)' /\ Updating(r, m)'
    BY <2>1, <2>2 DEF Moved, Progress, Updating, Mgr
  <2> QED BY <1>9, <2>2, <2>3
<1>17. CASE FixReload(r)
  <2>1. /\ UNCHANGED file /\ file[m] = h.backup /\ h.backup \notin Bad[m]
        /\ running[m] \in {h.backup, Down} /\ \E ok \in BOOLEAN : Load(m, ok)
    BY <1>8, <1>17 DEF FixReload, Progress
  <2>2. running'[m] \in {h.backup, Down}
    BY <1>1, <2>1 DEF Load, TypeOK
  <2>3. Moved(r, "FixStart", h.at, h.backup)
    BY <1>1, <1>17, GotoMoves DEF FixReload, StepName
  <2>4. Progress(r, m)' /\ Updating(r, m)'
    BY <2>1, <2>2, <2>3 DEF Moved, Progress, Updating, Mgr
  <2> QED BY <1>9, <2>3, <2>4
<1>18. CASE FixStart(r)
  <2>1. /\ UNCHANGED file /\ file[m] = h.backup /\ h.backup \notin Bad[m]
        /\ running[m] \in {h.backup, Down}
    BY <1>8, <1>18 DEF FixStart, Progress
  <2>2. running'[m] = h.backup
    BY <1>1, <1>8, <1>18, <2>1 DEF FixStart, Loadable, TypeOK
  <2> QED BY <1>11, <1>18, <2>1, <2>2 DEF FixStart, Settled
<1> QED BY <1>12, <1>13, <1>14, <1>15, <1>16, <1>17, <1>18 DEF Step

LEMMA NextKeepsSequential == SequentialInv /\ [Next]_vars => SequentialInv'
<1> SUFFICES ASSUME SequentialInv, [Next]_vars PROVE UndisturbedInv'
  BY NextStaysAlone, DirectStaysUp DEF SequentialInv, AloneInv
<1> SUFFICES ASSUME Undisturbed' PROVE UndisturbedInv'
  BY DEF UndisturbedInv
<1>1. TypeOK /\ faults' = 0 /\ overlaps' = 0 /\ crashes' = 0
  BY DEF SequentialInv, AloneInv, Undisturbed
<1>2. ASSUME NEW r \in Slot, NEW c \in Config, Receive(r, c)
      PROVE  UndisturbedInv'
  <2>0. AllIdle /\ Undisturbed /\ UNCHANGED <<file, running>>
    BY <1>1, <1>2 DEF Receive, Undisturbed, TypeOK
  <2>1. /\ Only(r) /\ handler'[r].step = "Prepare" /\ handler'[r].config = c
        /\ handler'[r].at = 1 /\ AllIdle /\ Undisturbed
        /\ UNCHANGED <<file, running>>
    BY <1>1, <1>2, <2>0, ReceiveBegins
  <2>2. \A q \in Slot, m \in Manager : ~Updating(q, m)
    BY <2>1 DEF AllIdle, Idle, Updating
  <2>3. \A m \in Manager : Settled(m) /\ Settled(m)'
    BY <2>1, <2>2 DEF SequentialInv, UndisturbedInv, Settled
  <2>4. \A q \in Slot : ~Idle(q)' => q = r
    BY <2>1 DEF Only, AllIdle, Idle
  <2>5. RequestInv(r)'
    BY <2>1, ManagersAre DEF RequestInv, Progress, Updating
  <2> QED BY <2>3, <2>4, <2>5 DEF UndisturbedInv
<1>3. ASSUME NEW r \in Slot, Step(r)
      PROVE  UndisturbedInv'
  <2>1. Undisturbed
    BY <1>1, <1>3, StepIsLocal DEF Undisturbed, TypeOK
  <2> QED BY <1>1, <1>3, <2>1, StepProgresses, MgrIsManager
<1>4. ~Restart
  BY <1>1 DEF Restart, TypeOK
<1>5. CASE UNCHANGED vars
  BY <1>5 DEF vars, budgetVars, SequentialInv, UndisturbedInv, Undisturbed, Settled,
              RequestInv, Progress, Updating, Idle, Mgr
<1> QED BY <1>2, <1>3, <1>4, <1>5 DEF Next

LEMMA InitIsSequential == Init => SequentialInv
<1> SUFFICES ASSUME Init PROVE SequentialInv
  OBVIOUS
<1>1. \A m \in Manager : file[m] = NoFile /\ running[m] = NoFile /\ NoFile \notin Bad[m]
  BY AgentAssumption DEF Init
<1>2. \A r \in Slot : Idle(r)
  BY DEF Init, NoRequest, Idle
<1> QED BY <1>1, <1>2, InitIsAlone, AgentAssumption
        DEF SequentialInv, UndisturbedInv, DirectRuns, Settled

LEMMA SequentialInvHolds == Spec => []SequentialInv
BY InitIsSequential, NextKeepsSequential, PTL DEF Spec

(* When nobody is at work, the services run what the files say, however    *)
(* the requests before interleaved: the run's property, without a bound.   *)
THEOREM IdleServicesRunFiles == Spec => []IdleRunsFile
<1>1. ReloadInv /\ SequentialInv => IdleRunsFile
  <2> SUFFICES ASSUME ReloadInv, SequentialInv, AllIdle, faults = 0, NEW m \in Manager,
                      crashes = 0 \/ Direct(m),
                      Loadable(m) \/ (crashes = 0 /\ overlaps = 0)
               PROVE  running[m] = file[m]
    BY DEF IdleRunsFile
  <2>1. CASE Loadable(m)
    <3>1. \A steps : "Idle" \notin steps => ~Pending(m, steps)
      BY DEF Pending, AllIdle, Idle
    <3> QED BY <2>1, <3>1 DEF ReloadInv, SomebodyReloads
  <2>2. CASE crashes = 0 /\ overlaps = 0
    <3>1. \A r \in Slot : ~Updating(r, m)
      BY DEF AllIdle, Idle, Updating
    <3> QED BY <2>2, <3>1 DEF SequentialInv, UndisturbedInv, Undisturbed, Settled
  <2> QED BY <2>1, <2>2
<1> QED BY <1>1, ReloadInvHolds, SequentialInvHolds, PTL

-----------------------------------------------------------------------------
(* Requests come one at a time, no call fails and the agent stays up:      *)
(* "success" is only answered when every file and every service has the    *)
(* configuration of the request.                                           *)
THEOREM SuccessIsApplied == Spec => SuccessMeansApplied
<1> DEFINE Applied ==
        faults' = 0 /\ overlaps = 0 /\ crashes = 0 /\ Answers /\ answer'.status = 200 =>
            \A m \in Manager : file'[m] = answer'.config /\ running'[m] = answer'.config
<1>1. SequentialInv /\ [Next]_vars => [Applied]_vars
  <2> SUFFICES ASSUME SequentialInv, Next, faults' = 0, overlaps = 0, crashes = 0,
                      answer' # answer, answer'.status = 200, NEW m \in Manager
               PROVE  file'[m] = answer'.config /\ running'[m] = answer'.config
    BY DEF Answers
  <2>1. PICK r \in Slot : Step(r)
    BY DEF Next, Receive, Restart
  <2>2. /\ TypeOK /\ Only(r) /\ ~Idle(r) /\ UNCHANGED <<overlaps, crashes>>
        /\ Undisturbed /\ Undisturbed' /\ UndisturbedInv'
        /\ \A n \in Manager \ {Mgr(r)} : file'[n] = file[n]
    BY <2>1, StepIsLocal, NextKeepsSequential
       DEF SequentialInv, AloneInv, Undisturbed, Idle, TypeOK
  <2>3. ~Reply(r, 500)
    BY <2>2, ReplyEnds
  <2>4. /\ NextManager(r) /\ UNCHANGED file
        /\ (Prepare(r) /\ ~Differs(r)) \/ handler[r].step = "Check"
    BY <2>1, <2>3 DEF Step, Prepare, Rename, Reload, Check, Restore, FixReload, FixStart
  <2>5. handler[r].at = Len(Managers) /\ Reply(r, 200)
    BY <2>2, <2>4, NextMoves DEF NextManager
  <2>6. answer'.config = handler[r].config /\ Idle(r)'
    BY <2>2, <2>5, ReplyEnds DEF Idle
  <2>7. file[Mgr(r)] = handler[r].config
    BY <2>2, <2>4 DEF SequentialInv, UndisturbedInv, RequestInv, Progress, Differs
  <2>8. file'[m] = handler[r].config
    <3>1. PICK i \in DOMAIN Managers : Managers[i] = m
      BY ManagersAre
    <3>2. CASE i < handler[r].at
      BY <2>2, <2>4, <3>1, <3>2 DEF SequentialInv, UndisturbedInv, RequestInv
    <3>3. CASE i = handler[r].at
      BY <2>4, <2>7, <3>1, <3>3 DEF Mgr
    <3> QED BY <2>5, <3>2, <3>3, ManagersAre
  <2>9. \A q \in Slot : ~Updating(q, m)'
    BY <2>2, <2>6 DEF SequentialInv, AloneInv, OneAtATime, Undisturbed, Only, Idle, Updating
  <2> QED BY <2>2, <2>6, <2>8, <2>9 DEF UndisturbedInv, Settled
<1> QED BY <1>1, SequentialInvHolds, PTL DEF Spec, SuccessMeansApplied

-----------------------------------------------------------------------------
(* The refinement.  With one request at a time, the handler that a CHOOSE  *)
(* of the refinement mapping picks is that of the request.                 *)
At(r, m) == IF Updating(r, m) THEN handler[r].backup ELSE running[m]

Views ==
    /\ AllIdle => /\ AbstractRequest = [config |-> NoFile, at |-> 1]
                  /\ AbstractConfig = [m \in Manager |-> running[m]]
    /\ \A r \in Slot : ~Idle(r) =>
           /\ AbstractRequest = [config |-> handler[r].config, at |-> handler[r].at]
           /\ AbstractConfig = [m \in Manager |-> At(r, m)]

LEMMA ViewsHold == AloneInv /\ overlaps = 0 => Views
<1> SUFFICES ASSUME AloneInv, overlaps = 0 PROVE Views
  OBVIOUS
<1>1. \A q \in Slot, m \in Manager : Updating(q, m) => ~Idle(q)
  BY DEF Updating, Idle
<1>2. ASSUME AllIdle
      PROVE  /\ AbstractRequest = [config |-> NoFile, at |-> 1]
             /\ AbstractConfig = [m \in Manager |-> running[m]]
  BY <1>1, <1>2 DEF AllIdle, AbstractRequest, AbstractConfig
<1>3. ASSUME NEW r \in Slot, ~Idle(r)
      PROVE  /\ AbstractRequest = [config |-> handler[r].config, at |-> handler[r].at]
             /\ AbstractConfig = [m \in Manager |-> At(r, m)]
  <2>1. \A q \in Slot : ~Idle(q) => q = r
    BY <1>3 DEF AloneInv, OneAtATime
  <2>2. (CHOOSE q \in Slot : ~Idle(q)) = r /\ ~AllIdle
    BY <1>3, <2>1 DEF AllIdle
  <2>3. ASSUME NEW m \in Manager
        PROVE  (IF \E q \in Slot : Updating(q, m)
                  THEN handler[CHOOSE q \in Slot : Updating(q, m)].backup
                  ELSE running[m]) = At(r, m)
    <3>1. CASE Updating(r, m)
      <4>1. (CHOOSE q \in Slot : Updating(q, m)) = r
        BY <1>1, <2>1, <3>1
      <4> QED BY <3>1, <4>1 DEF At
    <3>2. CASE ~Updating(r, m)
      BY <1>1, <2>1, <3>2 DEF At
    <3> QED BY <3>1, <3>2
  <2> QED BY <2>2, <2>3 DEF AbstractRequest, AbstractConfig
<1> QED BY <1>2, <1>3 DEF Views

(* A step of the request that goes on, one that ends it, and one that goes *)
(* on with the next manager, as AtomicUpdate sees them.                    *)
LEMMA StepRefines ==
    ASSUME SequentialInv, SequentialInv', Undisturbed, Undisturbed',
           NEW r \in Slot, Step(r), NEW m \in Manager, m = Mgr(r)
    PROVE  [AU!Next]_(AU!vars)
<1> DEFINE h == handler[r]
<1>1. /\ TypeOK /\ ~Fault /\ ~Idle(r) /\ Only(r) /\ h.at \in DOMAIN Managers
      /\ \A q \in Slot \ {r} : Idle(q)
      /\ \A n \in Manager \ {m} : running'[n] = running[n]
      /\ Managers[h.at] = m
  BY StepIsLocal, MgrIsManager
     DEF SequentialInv, AloneInv, OneAtATime, Undisturbed, Idle, Fault, TypeOK, Mgr
<1>2. Views /\ Views'
  <2>1. AloneInv /\ overlaps = 0 => Views
    BY ViewsHold
  <2>2. (AloneInv /\ overlaps = 0 => Views)'
    BY ViewsHold, PTL
  <2> QED BY <2>1, <2>2 DEF SequentialInv, Undisturbed
<1>3. /\ RequestInv(r) /\ Progress(r, m)
      /\ h.step \in {"Prepare", "Rename"} => running[m] = file[m]
  <2>1. \A q \in Slot : h.step \in {"Prepare", "Rename"} => ~Updating(q, m)
    BY <1>1 DEF Updating, Idle
  <2> QED BY <1>1, <2>1 DEF SequentialInv, UndisturbedInv, RequestInv, Settled
<1>4. /\ AbstractRequest = [config |-> h.config, at |-> h.at]
      /\ AbstractConfig = [n \in Manager |-> IF n = m THEN At(r, m) ELSE running[n]]
      /\ AbstractRequest # AU!NoUpdate
  <2>1. \A n \in Manager \ {m} : At(r, n) = running[n]
    BY DEF At, Updating
  <2>2. h.config # NoFile
    BY <1>3, AgentAssumption DEF RequestInv
  <2> QED BY <1>1, <1>2, <2>1, <2>2 DEF Views, AU!NoUpdate
<1>5. ASSUME NEW step \in StepName \ {"Idle"}, NEW backup, Moved(r, step, h.at, backup),
             UNCHANGED answer, At(r, m)' = At(r, m)
      PROVE  UNCHANGED AU!vars
  <2>1. ~Idle(r)' /\ Mgr(r)' = m
    BY <1>5 DEF Moved, Idle, Mgr
  <2>2. \A n \in Manager \ {m} : At(r, n)' = running[n]
    BY <1>1, <2>1 DEF At, Updating
  <2>3. AbstractConfig' = [n \in Manager |-> At(r, n)']
    BY <1>2, <2>1 DEF Views
  <2>4. AbstractConfig' = AbstractConfig
    BY <1>4, <1>5, <2>2, <2>3
  <2>5. AbstractRequest' = AbstractRequest /\ AbstractAnswer' = AbstractAnswer
    BY <1>2, <1>4, <1>5, <2>1 DEF Views, Moved, AbstractAnswer
  <2> QED BY <2>4, <2>5 DEF AU!vars
<1>6. ASSUME NEW status \in {200, 500}, Reply(r, status)
      PROVE  /\ AU!Answer(status)
             /\ AbstractConfig' = [n \in Manager |-> IF n = m THEN running'[m] ELSE running[n]]
  <2>1. /\ AllIdle' /\ answer'.status = status /\ answer'.config = h.config
    BY <1>1, <1>6, ReplyEnds DEF AllIdle, Idle, Only
  <2>2. /\ AbstractRequest' = AU!NoUpdate
        /\ AbstractConfig' = [n \in Manager |-> running'[n]]
    BY <1>2, <2>1 DEF Views, AU!NoUpdate
  <2>3. AbstractAnswer' = [status |-> status, config |-> AbstractRequest.config]
    BY <1>4, <2>1 DEF AbstractAnswer
  <2> QED BY <1>1, <2>2, <2>3 DEF AU!Answer
<1>7. ASSUME NextManager(r), running'[m] = h.config
      PROVE  AU!Switch
  <2>1. [AbstractConfig EXCEPT ![Managers[AbstractRequest.at]] = AbstractRequest.config]
            = [n \in Manager |-> IF n = m THEN running'[m] ELSE running[n]]
    BY <1>1, <1>4, <1>7
  <2>2. CASE h.at = Len(Managers)
    <3>1. Reply(r, 200)
      BY <1>7, <2>2 DEF NextManager
    <3> QED BY <1>4, <1>6, <2>1, <2>2, <3>1 DEF AU!Switch
  <2>3. CASE h.at # Len(Managers)
    <3>1. Moved(r, "Prepare", h.at + 1, h.backup) /\ UNCHANGED answer
      BY <1>1, <1>7, <2>3, NextMoves
    <3>2. ~Idle(r)' /\ \A n \in Manager : ~Updating(r, n)'
      BY <3>1 DEF Moved, Idle, Updating
    <3>3. /\ AbstractRequest' = [config |-> h.config, at |-> h.at + 1]
          /\ AbstractConfig' = [n \in Manager |-> At(r, n)']
      BY <1>2, <3>1, <3>2 DEF Views, Moved
    <3>4. AbstractConfig' = [n \in Manager |-> IF n = m THEN running'[m] ELSE running[n]]
      BY <1>1, <3>2, <3>3 DEF At
    <3>5. AbstractRequest' = [AbstractRequest EXCEPT !.at = AbstractRequest.at + 1]
      BY <1>4, <3>3
    <3>6. AbstractAnswer' = AbstractAnswer
      BY <3>1 DEF AbstractAnswer
    <3> QED BY <1>4, <2>1, <2>3, <3>4, <3>5, <3>6 DEF AU!Switch
  <2> QED BY <2>2, <2>3
<1>8. CASE Prepare(r)
  <2>1. UNCHANGED <<file, running>> /\ ~Updating(r, m) /\ running[m] = file[m]
    BY <1>3, <1>8 DEF Prepare, Updating
  <2>2. CASE NextManager(r) /\ file[m] = h.config
    BY <1>7, <2>1, <2>2 DEF AU!Next
  <2>3. CASE MakeBackup(r) /\ UNCHANGED answer
    <3>1. Moved(r, "Rename", h.at, file[m])
      BY <1>1, <2>3, BackupMoves
    <3>2. At(r, m)' = At(r, m)
      BY <2>1, <3>1 DEF Moved, At, Updating
    <3> QED BY <1>5, <2>3, <3>1, <3>2 DEF StepName
  <2> QED BY <1>1, <1>8, <2>2, <2>3 DEF Prepare, Differs
<1>9. CASE Rename(r)
  <2>1. /\ Moved(r, "Reload", h.at, h.backup) /\ UNCHANGED <<running, answer>>
        /\ h.step = "Rename" /\ h.backup = running[m]
    BY <1>1, <1>3, <1>9, GotoMoves DEF Rename, StepName, Progress
  <2>2. At(r, m)' = At(r, m)
    BY <2>1 DEF Moved, At, Updating
  <2> QED BY <1>5, <2>1, <2>2 DEF StepName
<1>10. ASSUME NEW step \in {"Check", "Restore", "FixReload", "FixStart"}, Goto(r, step),
              UNCHANGED answer, h.step \in {"Reload", "Check", "Restore", "FixReload"}
       PROVE  UNCHANGED AU!vars
  <2>1. Moved(r, step, h.at, h.backup) /\ step \in StepName \ {"Idle"}
    BY <1>1, <1>10, GotoMoves DEF StepName
  <2>2. At(r, m)' = At(r, m)
    BY <1>10, <2>1 DEF Moved, At, Updating, Mgr
  <2> QED BY <1>5, <1>10, <2>1, <2>2
<1>11. CASE Reload(r) \/ Restore(r) \/ FixReload(r)
  BY <1>10, <1>11 DEF Reload, Restore, FixReload
<1>12. CASE Check(r)
  <2>1. /\ UNCHANGED running /\ h.step = "Check"
        /\ running[m] = IF h.config \in Bad[m] THEN Down ELSE h.config
    BY <1>3, <1>12 DEF Check, Progress
  <2>2. CASE running[m] # Down /\ NextManager(r)
    BY <1>7, <2>1, <2>2 DEF AU!Next
  <2>3. CASE Goto(r, "Restore") /\ UNCHANGED answer
    BY <1>10, <2>1, <2>3
  <2> QED BY <1>12, <2>2, <2>3 DEF Check
<1>13. CASE FixStart(r)
  <2>1. /\ h.step = "FixStart" /\ UNCHANGED file /\ Reply(r, 500)
        /\ file[m] = h.backup /\ running[m] \in {h.backup, Down} /\ h.backup \notin Bad[m]
    BY <1>3, <1>13 DEF FixStart, Progress, Updating
  <2>2. running'[m] = h.backup
    <3>1. h.backup # Down /\ (running[m] # Down \/ ~Direct(m))
      BY <1>1, AgentAssumption DEF SequentialInv, DirectRuns, TypeOK, HandlerState
    <3> QED BY <1>1, <1>13, <2>1, <3>1 DEF FixStart, Loadable, TypeOK
  <2>3. At(r, m) = h.backup
    BY <2>1 DEF At, Updating
  <2> QED BY <1>4, <1>6, <2>1, <2>2, <2>3 DEF AU!Refuse, AU!Next
<1> QED BY <1>8, <1>9, <1>11, <1>12, <1>13 DEF Step

(* The agent implements AtomicUpdate until a call fails for another reason *)
(* than its configuration, two requests overlap or the agent restarts.     *)
THEOREM UpdatesAtomic == Spec => UpdatesAreAtomic
<1>1. Init => AU!Init
  <2> SUFFICES ASSUME Init PROVE AU!Init
    OBVIOUS
  <2>1. AloneInv /\ overlaps = 0 /\ AllIdle
    BY InitIsAlone DEF Init, AllIdle, Idle, NoRequest
  <2>2. Views
    BY <2>1, ViewsHold
  <2> QED BY <2>1, <2>2 DEF Views, Init, AbstractAnswer, AU!Init, AU!NoUpdate, AU!Range, Manager, Range
<1>2. SequentialInv /\ [Next]_vars => [Undisturbed' => [AU!Next]_(AU!vars)]_vars
  <2> SUFFICES ASSUME SequentialInv, Next, Undisturbed' PROVE [AU!Next]_(AU!vars)
    OBVIOUS
  <2>1. SequentialInv' /\ TypeOK
    BY NextKeepsSequential DEF SequentialInv, AloneInv
  <2>2. ASSUME NEW r \in Slot, NEW c \in Config, Receive(r, c)
        PROVE  AU!Ask(c)
    <3>1. AllIdle /\ overlaps = 0
      BY <2>1, <2>2 DEF Receive, Undisturbed, TypeOK
    <3>2. /\ handler'[r].step = "Prepare" /\ handler'[r].at = 1 /\ handler'[r].config = c
          /\ UNCHANGED <<running, answer>>
      BY <2>1, <2>2, ReceiveBegins DEF Receive
    <3>3. Views /\ Views'
      <4>1. (AloneInv /\ overlaps = 0 => Views)'
        BY ViewsHold, PTL
      <4> QED BY <2>1, <3>1, <4>1, ViewsHold DEF SequentialInv, Undisturbed
    <3>4. ~Idle(r)' /\ \A m \in Manager : ~Updating(r, m)'
      BY <3>2 DEF Idle, Updating
    <3>5. AbstractConfig' = AbstractConfig
      BY <3>1, <3>2, <3>3, <3>4 DEF Views, At
    <3>6. /\ AbstractRequest = AU!NoUpdate
          /\ AbstractRequest' = [AU!NoUpdate EXCEPT !.config = c]
          /\ AbstractAnswer' = AbstractAnswer
      BY <3>1, <3>2, <3>3, <3>4 DEF Views, AU!NoUpdate, AbstractAnswer
    <3> QED BY <3>5, <3>6 DEF AU!Ask
  <2>3. ASSUME NEW r \in Slot, Step(r)
        PROVE  [AU!Next]_(AU!vars)
    <3>1. Undisturbed
      BY <2>1, <2>3, StepIsLocal DEF Undisturbed, TypeOK
    <3> QED BY <2>1, <2>3, <3>1, StepRefines, MgrIsManager
  <2>4. ~Restart
    BY <2>1 DEF Restart, TypeOK, Undisturbed
  <2> QED BY <2>2, <2>3, <2>4 DEF Next, AU!Next
<1> QED BY <1>1, <1>2, SequentialInvHolds, PTL DEF Spec, UpdatesAreAtomic

-----------------------------------------------------------------------------
(* Why one failed call does not prevent the rollback.  Within the budget,  *)
(* a handler comes to Restore after its one fault, or, with a              *)
(* configuration the service cannot run, before any.                       *)
NothingBad ==
    \A m \in Manager :
        running[m] \notin Bad[m] /\ \A r \in Slot : handler[r].before[m] \notin Bad[m]

Restorable(r, m) ==
    /\ handler[r].before[m] = handler[r].backup
    /\ handler[r].backup = NoFile => ~Direct(m)
Spent(r, m) == faults > IF handler[r].config \in Bad[m] THEN 0 ELSE 1

Rollback(r, m) ==
    LET h == handler[r] IN
    /\ h.step \in {"Prepare", "Rename", "Reload"} => running[m] = h.before[m]
    /\ h.step = "Rename" => h.backup = file[m]
    /\ h.step \in {"Reload", "Check"} => file[m] \in {h.config, h.backup}
    /\ Restorable(r, m) =>
        /\ h.step \in {"Check", "Restore", "FixReload"} =>
               /\ running[m] \in {h.config, h.backup, Down}
               /\ running[m] = Down => h.config \in Bad[m]
        /\ h.step \in {"Restore", "FixReload", "FixStart"} => h.config \in Bad[m] \/ faults > 0
        /\ h.step \in {"FixReload", "FixStart"} /\ ~Spent(r, m) => file[m] = h.backup
        /\ h.step = "FixStart" /\ ~Spent(r, m) => running[m] \in {h.backup, Down}

RollbackInv ==
    overlaps = 0 => \A r \in Slot : ~Idle(r) =>
        /\ handler[r].config \in Config
        /\ \A i \in DOMAIN Managers : i > handler[r].at =>
               running[Managers[i]] = handler[r].before[Managers[i]]
        /\ Rollback(r, Mgr(r))

FailureInv == AloneInv /\ NothingBad /\ RollbackInv

LEMMA NothingBadStays == TypeOK /\ NothingBad /\ [Next]_vars => NothingBad'
<1> SUFFICES ASSUME TypeOK, NothingBad, [Next]_vars PROVE NothingBad'
  OBVIOUS
<1>1. \A m \in Manager : NoFile \notin Bad[m] /\ Down \notin Bad[m]
  BY AgentAssumption
<1>2. ASSUME NEW m \in Manager, NEW ok \in BOOLEAN, Load(m, ok)
      PROVE  \A n \in Manager : running'[n] \notin Bad[n]
  BY <1>1, <1>2 DEF NothingBad, Load, Loadable, TypeOK
<1>3. ASSUME NEW r \in Slot, NEW c \in Config, Receive(r, c)
      PROVE  NothingBad'
  BY <1>3, ReceiveBegins DEF NothingBad, Receive, Only
<1>4. ASSUME NEW r \in Slot, Step(r)
      PROVE  NothingBad'
  <2>1. \A n \in Manager : handler'[r].before[n] \notin Bad[n]
    <3>1. \A status \in {200, 500} : Reply(r, status) =>
              \A n \in Manager : handler'[r].before[n] \notin Bad[n]
      BY <1>1, ReplyEnds DEF NoRequest
    <3>2. \A step \in StepName : Goto(r, step) => handler'[r].before = handler[r].before
      BY GotoMoves DEF Moved
    <3>3. MakeBackup(r) => handler'[r].before = handler[r].before
      BY BackupMoves DEF Moved
    <3>4. NextManager(r) => \A n \in Manager : handler'[r].before[n] \notin Bad[n]
      <4>1. handler[r].at # Len(Managers) /\ NextManager(r) =>
                handler'[r].before = handler[r].before
        BY NextMoves DEF Moved
      <4>2. handler[r].at = Len(Managers) /\ NextManager(r) => Reply(r, 200)
        BY DEF NextManager
      <4> QED BY <3>1, <4>1, <4>2 DEF NothingBad
    <3> QED BY <1>4, <3>1, <3>2, <3>3, <3>4
            DEF Step, Prepare, Rename, Reload, Check, Restore, FixReload, FixStart,
                NothingBad, StepName
  <2>2. \A n \in Manager : running'[n] \notin Bad[n]
    <3>1. Mgr(r) \in Manager
      BY MgrIsManager
    <3>2. CASE Reload(r) \/ FixReload(r)
      <4>1. \E ok \in BOOLEAN : Load(Mgr(r), ok)
        BY <3>2 DEF Reload, FixReload
      <4> QED BY <1>2, <3>1, <4>1
    <3>3. CASE FixStart(r)
      BY <1>1, <3>1, <3>3 DEF FixStart, NothingBad, Loadable, TypeOK
    <3>4. CASE Prepare(r) \/ Rename(r) \/ Check(r) \/ Restore(r)
      BY <3>4 DEF Prepare, Rename, Check, Restore, NothingBad
    <3> QED BY <1>4, <3>2, <3>3, <3>4 DEF Step
  <2> QED BY <1>4, <2>1, <2>2, StepIsLocal DEF NothingBad, Only
<1>5. CASE Restart
  <2>1. \A m \in Manager : running'[m] \notin Bad[m]
    BY <1>2, <1>5, ManagersAre DEF Restart, NothingBad
  <2> QED BY <1>1, <1>5, <2>1 DEF Restart, NoRequest, NothingBad
<1>6. CASE UNCHANGED vars
  BY <1>6 DEF vars, NothingBad
<1> QED BY <1>3, <1>4, <1>5, <1>6 DEF Next

LEMMA StepRollsBack ==
    ASSUME FailureInv, overlaps = 0, NEW r \in Slot, Step(r), NEW m \in Manager, m = Mgr(r)
    PROVE  RollbackInv'
<1> DEFINE h == handler[r]
<1>1. /\ TypeOK /\ Only(r) /\ h.step # "Idle" /\ h.at \in DOMAIN Managers
      /\ \A q \in Slot \ {r} : Idle(q)
      /\ \A n \in Manager \ {m} : running'[n] = running[n]
      /\ faults \in Nat /\ faults' \in {faults, faults + 1}
  BY StepIsLocal, MgrIsManager, AgentAssumption
     DEF FailureInv, AloneInv, OneAtATime, Idle, TypeOK
<1>2. /\ Rollback(r, m) /\ h.config \in Config
      /\ \A i \in DOMAIN Managers : i > h.at => running[Managers[i]] = h.before[Managers[i]]
  BY <1>1 DEF FailureInv, RollbackInv, Idle
<1>3. /\ \A i \in DOMAIN Managers : Managers[i] \in Manager
      /\ \A i \in DOMAIN Managers : i > h.at => Managers[i] # m
      /\ m = Managers[h.at] /\ DOMAIN Managers \subseteq Nat
  BY <1>1, ManagersAre DEF Mgr
<1>4. \A i \in DOMAIN Managers : i > h.at => running'[Managers[i]] = h.before[Managers[i]]
  BY <1>1, <1>2, <1>3
<1>5. /\ h.backup # Down /\ h.before[m] \notin Bad[m]
      /\ Restorable(r, m) => h.backup \notin Bad[m]
  BY <1>1, AgentAssumption DEF TypeOK, HandlerState, FailureInv, NothingBad, Restorable
<1>6. \A q \in Slot \ {r} : Idle(q)'
  BY <1>1 DEF Only, Idle
<1>7. ASSUME NEW step, NEW backup, Moved(r, step, h.at, backup), Rollback(r, m)'
      PROVE  RollbackInv'
  <2>1. Mgr(r)' = m
    BY <1>7 DEF Moved, Mgr
  <2> QED BY <1>2, <1>4, <1>6, <1>7, <2>1 DEF RollbackInv, Moved
<1>8. ASSUME NEW step \in StepName, Goto(r, step)
      PROVE  /\ Moved(r, step, h.at, h.backup)
             /\ Restorable(r, m)' <=> Restorable(r, m)
             /\ Spent(r, m)' <=> faults' > IF h.config \in Bad[m] THEN 0 ELSE 1
  BY <1>1, <1>8, GotoMoves DEF Moved, Restorable, Spent
<1>9. ASSUME NEW status \in {200, 500}, Reply(r, status)
      PROVE  RollbackInv'
  BY <1>1, <1>6, <1>9, ReplyEnds DEF RollbackInv, Idle
<1>10. ASSUME NextManager(r)
       PROVE  RollbackInv'
  <2>1. CASE h.at = Len(Managers)
    BY <1>9, <1>10, <2>1 DEF NextManager
  <2>2. CASE h.at # Len(Managers)
    <3>1. Moved(r, "Prepare", h.at + 1, h.backup)
      BY <1>1, <1>10, <2>2, NextMoves
    <3>2. PICK n \in Manager : h.at + 1 \in DOMAIN Managers /\ n = Managers[h.at + 1]
      BY <1>1, <1>3, <2>2, ManagersAre
    <3>3. running'[n] = h.before[n] /\ Mgr(r)' = n
      BY <1>1, <1>3, <1>4, <3>1, <3>2 DEF Moved, Mgr
    <3>4. Rollback(r, n)'
      BY <3>1, <3>3 DEF Moved, Rollback
    <3>5. \A i \in DOMAIN Managers : i > h.at + 1 =>
              running'[Managers[i]] = h.before[Managers[i]]
      BY <1>1, <1>3, <1>4
    <3> QED BY <1>2, <1>6, <3>1, <3>3, <3>4, <3>5 DEF RollbackInv, Moved
  <2> QED BY <2>1, <2>2
<1>11. CASE Prepare(r)
  <2>1. CASE MakeBackup(r)
    <3>1. Moved(r, "Rename", h.at, file[m]) /\ UNCHANGED <<file, running>>
      BY <1>1, <1>11, <2>1, BackupMoves DEF Prepare
    <3>2. Rollback(r, m)'
      BY <1>2, <1>11, <3>1 DEF Prepare, Moved, Rollback
    <3> QED BY <1>7, <3>1, <3>2
  <2> QED BY <1>9, <1>10, <1>11, <2>1 DEF Prepare
<1>12. CASE Rename(r)
  <2>1. /\ Moved(r, "Reload", h.at, h.backup) /\ UNCHANGED running
        /\ h.step = "Rename" /\ file'[m] \in {h.config, h.backup}
    BY <1>1, <1>2, <1>8, <1>12 DEF Rename, StepName, Rollback, TypeOK
  <2>2. Rollback(r, m)'
    BY <1>2, <2>1 DEF Moved, Rollback
  <2> QED BY <1>7, <2>1, <2>2
<1>13. CASE Reload(r)
  <2>1. /\ UNCHANGED file /\ running[m] = h.before[m] /\ file[m] \in {h.config, h.backup}
        /\ Restorable(r, m) => running[m] # Down /\ running[m] = h.backup
        /\ Restorable(r, m) /\ file[m] = h.backup => Loadable(m)
    BY <1>2, <1>5, <1>13 DEF Reload, Rollback, Restorable, Loadable
  <2>2. CASE Load(m, TRUE) /\ Goto(r, "Check")
    <3>1. Moved(r, "Check", h.at, h.backup) /\ (Restorable(r, m)' <=> Restorable(r, m))
      BY <1>8, <2>2 DEF StepName
    <3>2. /\ running'[m] \in {file[m], Down}
          /\ Restorable(r, m) /\ running'[m] = Down => h.config \in Bad[m]
      <4>1. Load(m, TRUE) =>
                \/ running'[m] = file[m]
                \/ running'[m] = Down /\ file[m] \in Bad[m]
        BY <1>1 DEF Load, TypeOK
      <4>2. file[m] # Down
        BY <1>1, AgentAssumption DEF TypeOK
      <4> QED BY <1>5, <2>1, <2>2, <4>1, <4>2
    <3>3. Rollback(r, m)'
      BY <2>1, <3>1, <3>2 DEF Moved, Rollback
    <3> QED BY <1>7, <3>1, <3>3
  <2>3. CASE Load(m, FALSE) /\ Goto(r, "Restore")
    <3>1. Moved(r, "Restore", h.at, h.backup) /\ (Restorable(r, m)' <=> Restorable(r, m))
      BY <1>8, <2>3 DEF StepName
    <3>2. /\ UNCHANGED running
          /\ ~Loadable(m) \/ running[m] = Down \/ faults' = faults + 1
      BY <2>3 DEF Load, Fault
    <3>3. Restorable(r, m) => h.config \in Bad[m] \/ faults' > 0
      <4>1. Restorable(r, m) /\ ~Loadable(m) => h.config \in Bad[m] \/ h.config = NoFile
        BY <2>1 DEF Loadable
      <4>2. h.config # NoFile
        BY <1>2, AgentAssumption
      <4> QED BY <1>1, <2>1, <3>2, <4>1, <4>2
    <3>4. Rollback(r, m)'
      BY <2>1, <3>1, <3>2, <3>3 DEF Moved, Rollback
    <3> QED BY <1>7, <3>1, <3>4
  <2> QED BY <1>13, <2>2, <2>3 DEF Reload
<1>14. CASE Check(r)
  <2>1. /\ UNCHANGED <<file, running>> /\ h.step = "Check"
        /\ \/ NextManager(r)
           \/ /\ Goto(r, "Restore")
              /\ running[m] = Down \/ faults' = faults + 1
    BY <1>14 DEF Check, Fault
  <2>2. CASE Goto(r, "Restore") /\ (running[m] = Down \/ faults' = faults + 1)
    <3>1. Moved(r, "Restore", h.at, h.backup) /\ (Restorable(r, m)' <=> Restorable(r, m))
      BY <1>8, <2>2 DEF StepName
    <3>2. Restorable(r, m) => h.config \in Bad[m] \/ faults' > 0
      BY <1>1, <1>2, <2>1, <2>2 DEF Rollback
    <3>3. Rollback(r, m)'
      BY <1>2, <2>1, <3>1, <3>2 DEF Moved, Rollback
    <3> QED BY <1>7, <3>1, <3>3
  <2> QED BY <1>10, <2>1, <2>2
<1>15. CASE Restore(r)
  <2>1. /\ UNCHANGED running /\ h.step = "Restore" /\ Goto(r, "FixReload")
        /\ file'[m] = h.backup \/ faults' = faults + 1
    BY <1>1, <1>15 DEF Restore, Fault, TypeOK
  <2>2. /\ Moved(r, "FixReload", h.at, h.backup) /\ (Restorable(r, m)' <=> Restorable(r, m))
        /\ Spent(r, m)' <=> faults' > IF h.config \in Bad[m] THEN 0 ELSE 1
    BY <1>8, <2>1 DEF StepName
  <2>3. Restorable(r, m) => /\ h.config \in Bad[m] \/ faults' > 0
                            /\ ~Spent(r, m)' => file'[m] = h.backup
    BY <1>1, <1>2, <2>1, <2>2 DEF Rollback
  <2>4. Rollback(r, m)'
    BY <1>2, <2>1, <2>2, <2>3 DEF Moved, Rollback
  <2> QED BY <1>7, <2>2, <2>4
<1>16. CASE FixReload(r)
  <2>1. /\ UNCHANGED file /\ h.step = "FixReload" /\ Goto(r, "FixStart")
    BY <1>16 DEF FixReload
  <2>2. /\ Moved(r, "FixStart", h.at, h.backup) /\ (Restorable(r, m)' <=> Restorable(r, m))
        /\ Spent(r, m)' <=> faults' > IF h.config \in Bad[m] THEN 0 ELSE 1
        /\ Spent(r, m) <=> faults > IF h.config \in Bad[m] THEN 0 ELSE 1
    BY <1>8, <2>1 DEF StepName, Spent
  <2>3. Restorable(r, m) =>
            /\ h.config \in Bad[m] \/ faults' > 0
            /\ ~Spent(r, m)' => ~Spent(r, m) /\ faults' = faults
    BY <1>1, <1>2, <2>1, <2>2 DEF Rollback
  <2>4. ASSUME Restorable(r, m), ~Spent(r, m), faults' = faults
        PROVE  running'[m] \in {h.backup, Down}
    <3>1. file[m] = h.backup /\ Loadable(m)
      BY <1>2, <1>5, <2>1, <2>4 DEF Rollback, Restorable, Loadable
    <3>2. PICK ok \in BOOLEAN : Load(m, ok)
      BY <1>16 DEF FixReload
    <3>3. running[m] # Down => running' = [running EXCEPT ![m] = file[m]]
      BY <1>1, <2>4, <3>1, <3>2 DEF Load, Loadable, Fault
    <3>4. running[m] = Down => running' = running
      BY <3>2 DEF Load
    <3> QED BY <1>1, <3>1, <3>3, <3>4 DEF TypeOK
  <2>5. Rollback(r, m)'
    BY <1>2, <2>1, <2>2, <2>3, <2>4 DEF Moved, Rollback
  <2> QED BY <1>7, <2>2, <2>5
<1>17. CASE FixStart(r)
  BY <1>9, <1>17 DEF FixStart
<1> QED BY <1>11, <1>12, <1>13, <1>14, <1>15, <1>16, <1>17 DEF Step

LEMMA NextKeepsRollback == FailureInv /\ [Next]_vars => FailureInv'
<1> SUFFICES ASSUME FailureInv, [Next]_vars PROVE RollbackInv'
  BY NextStaysAlone, NothingBadStays DEF FailureInv, AloneInv
<1> SUFFICES ASSUME overlaps' = 0 PROVE RollbackInv'
  BY DEF RollbackInv
<1>1. TypeOK
  BY DEF FailureInv, AloneInv
<1>2. ASSUME NEW r \in Slot, NEW c \in Config, Receive(r, c)
      PROVE  RollbackInv'
  <2>1. /\ Only(r) /\ handler'[r].step = "Prepare" /\ handler'[r].config = c
        /\ handler'[r].at = 1 /\ handler'[r].before = running /\ UNCHANGED running
    BY <1>1, <1>2, ReceiveBegins DEF Receive
  <2>2. AllIdle
    BY <1>1, <1>2 DEF Receive, TypeOK
  <2>3. \A m \in Manager : Rollback(r, m)'
    BY <2>1 DEF Rollback
  <2>4. Mgr(r)' \in Manager
    BY <2>1, ManagersAre DEF Mgr
  <2> QED BY <2>1, <2>2, <2>3, <2>4, ManagersAre DEF RollbackInv, AllIdle, Idle, Only
<1>3. ASSUME NEW r \in Slot, Step(r)
      PROVE  RollbackInv'
  BY <1>1, <1>3, StepRollsBack, StepIsLocal, MgrIsManager
<1>4. CASE Restart
  BY <1>4 DEF Restart, RollbackInv, Idle, NoRequest
<1>5. CASE UNCHANGED vars
  BY <1>5 DEF vars, budgetVars, FailureInv, RollbackInv, Rollback, Restorable, Spent, Idle, Mgr
<1> QED BY <1>2, <1>3, <1>4, <1>5 DEF Next

(* A manager that fails is back where it was before the request, with one  *)
(* failed call if the configuration can be run and none if it cannot.      *)
THEOREM FailuresRollBack == Spec => FailureRollsBack
<1> DEFINE RolledBack == \A r \in Slot :
        (/\ handler[r].step = "FixStart" /\ handler'[r].step = "Idle"
         /\ crashes' = crashes /\ overlaps = 0
         /\ handler[r].before[Mgr(r)] = handler[r].backup
         /\ handler[r].backup = NoFile => ~Direct(Mgr(r))
         /\ faults' <= IF handler[r].config \in Bad[Mgr(r)] THEN 0 ELSE 1) =>
            file'[Mgr(r)] = handler[r].backup /\ running'[Mgr(r)] = handler[r].backup
<1>1. Init => FailureInv
  <2> SUFFICES ASSUME Init PROVE FailureInv
    OBVIOUS
  <2>1. \A r \in Slot :
            Idle(r) /\ \A m \in Manager : handler[r].before[m] \notin Bad[m]
    BY AgentAssumption DEF Init, NoRequest, Idle
  <2>2. \A m \in Manager : running[m] \notin Bad[m]
    BY AgentAssumption DEF Init
  <2> QED BY <2>1, <2>2, InitIsAlone DEF FailureInv, NothingBad, RollbackInv
<1>2. FailureInv /\ [Next]_vars => [RolledBack]_vars
  <2> SUFFICES ASSUME FailureInv, Next, NEW r \in Slot, NEW m \in Manager, m = Mgr(r),
                      handler[r].step = "FixStart", handler'[r].step = "Idle",
                      crashes' = crashes, overlaps = 0, Restorable(r, m),
                      faults' <= IF handler[r].config \in Bad[m] THEN 0 ELSE 1
               PROVE  /\ file'[m] = handler[r].backup
                      /\ running'[m] = handler[r].backup
    BY MgrIsManager DEF FailureInv, AloneInv, Restorable
  <2>1. /\ TypeOK /\ Rollback(r, m) /\ handler[r].backup # Down
        /\ faults \in Nat
    BY AgentAssumption DEF FailureInv, AloneInv, RollbackInv, Idle, TypeOK, HandlerState
  <2>2. ~Restart
    BY <2>1 DEF Restart, TypeOK
  <2>3. \A q \in Slot, c \in Config : ~Receive(q, c)
    BY <2>1, ReceiveBegins DEF Receive, Idle, Only
  <2>4. \A q \in Slot : Step(q) => q = r
    BY <2>1, StepIsLocal DEF Only
  <2>5. FixStart(r)
    BY <2>2, <2>3, <2>4 DEF Next, Step, Prepare, Rename, Reload, Check, Restore, FixReload
  <2>6. faults' = faults /\ ~Spent(r, m)
    <3>1. handler[r].config \in Bad[m] \/ faults > 0
      BY <2>1 DEF Rollback
    <3>2. faults' = faults \/ faults' = faults + 1
      BY <2>5 DEF FixStart, Fault, NoFault
    <3> QED BY <2>1, <3>1, <3>2 DEF Spent
  <2>7. /\ file[m] = handler[r].backup /\ UNCHANGED file
        /\ running[m] \in {handler[r].backup, Down}
    BY <2>1, <2>5, <2>6 DEF Rollback, FixStart
  <2>8. Loadable(m)
    BY <2>7 DEF FailureInv, NothingBad, Restorable, Loadable
  <2>9. running'[m] = handler[r].backup
    BY <2>1, <2>5, <2>6, <2>7, <2>8 DEF FixStart, Fault, TypeOK
  <2> QED BY <2>7, <2>9
<1> QED BY <1>1, <1>2, NextKeepsRollback, PTL DEF Spec, FailureRollsBack

=============================================================================
