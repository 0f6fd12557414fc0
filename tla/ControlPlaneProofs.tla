-------------------------- MODULE ControlPlaneProofs --------------------------
(* Theorems about ControlPlane, for any ports, keys, backends, requests,       *)
(* command lines and faults: its types, default deny for any number of tasks,  *)
(* for one control client at a time that what was acknowledged lasts, what     *)
(* becomes of pins and of the grants of the evicted, and, for any number of    *)
(* tasks again, that a request changes what it names and that only evictions   *)
(* hold the bind lock.                                                         *)
EXTENDS ControlPlane, GrantsLemmas

(* The steps that move a task without touching what the daemon knows.          *)
LEMMA EmptyStateFacts == EmptyState \in State
  BY DEF EmptyState, State, Backends, Remaps, Pair

(* Going to a step keeps the types of a task, if the request may be there.     *)
LEMMA GotoType ==
  ASSUME TasksOK, NEW t \in Task, NEW step \in Steps, ServedAt(req[t], step),
         Goto(t, step)
  PROVE  TasksOK'
  BY DEF TasksOK, Goto

LEMMA FinishType ==
  ASSUME TasksOK, NEW t \in Task, Finish(t)
  PROVE  TasksOK'
<1>1. ServedAt(NoRequest, "idle")
  BY DEF ServedAt, PersistSteps
<1>2. "idle" \in Steps
  BY DEF Steps
<1> QED BY <1>1, <1>2, EmptyStateFacts DEF TasksOK, Finish

(* A change of the table keeps its type and that of the ledger.                *)
LEMMA SetGrantsType ==
  ASSUME LedgerOK, NEW table \in Table, SetGrants(table),
         UNCHANGED <<asked, flagged, remapped, pinned>>, evicted' \subseteq Key
  PROVE  LedgerOK' /\ by_port' \in Table
  BY DEF LedgerOK, SetGrants

(* A request that passes its checks is one that may be served, with the peers  *)
(* it is resolved to.                                                          *)
LEMMA ReceiveType ==
  ASSUME TypeOK, NEW t \in Client, NEW r \in Requests, Receive(t, r)
  PROVE  TypeOK'
<1> DEFINE resolved == IF r.kind = "Expose" THEN [r EXCEPT !.to = ExposedTo(r)] ELSE r
<1>1. r \in Request /\ t \in Task
  BY RequestsAssumption DEF Task
<1>2. Verdict(r) = "accepted" => ~Invalid(r)
  BY DEF Verdict
<1>3. ~Invalid(r)
  BY <1>2 DEF Receive
<1>4. /\ ServedAt(resolved, FirstStep(r))
      /\ FirstStep(r) \in Steps
      /\ resolved \in Persisted \cup OfPeer({"Pin", "AddPeer"})
      /\ r.kind = "Expose" => Named(resolved) \subseteq Pair
  <2>1. CASE r \in ExposeRequest
    <3>1. r.kind = "Expose" /\ Malformed \notin r.to /\ r.backend # BadBackend
      BY <2>1, <1>3 DEF ExposeRequest, Invalid, Unparsable
    <3>2. ExposedTo(r) \subseteq Key
      BY <2>1, <3>1 DEF ExposeRequest, ExposedTo, TypeOK, DataOK
    <3>3. resolved \in AcceptedExpose
      BY <2>1, <3>1, <3>2 DEF ExposeRequest, AcceptedExpose
    <3>4. FirstStep(r) = IF r.backend = None THEN "grant" ELSE "register"
      BY <3>1 DEF FirstStep
    <3>5. resolved.backend = r.backend
      BY <2>1, <3>1 DEF ExposeRequest
    <3>6. Named(resolved) \subseteq Pair
      BY <3>3 DEF Named, Pair, AcceptedExpose
    <3> QED BY <3>3, <3>4, <3>5, <3>6 DEF ServedAt, Steps, Persisted, PersistSteps
  <2>2. CASE r \in UnexposeRequest
    <3>1. r.kind = "Unexpose" /\ r.key # Malformed
      BY <2>2, <1>3 DEF UnexposeRequest, Invalid, Unparsable
    <3>2. resolved = r /\ r \in AcceptedUnexpose /\ FirstStep(r) = "ungrant"
      BY <2>2, <3>1 DEF UnexposeRequest, AcceptedUnexpose, FirstStep
    <3> QED BY <3>1, <3>2 DEF ServedAt, Steps, Persisted, PersistSteps
  <2>3. CASE r \in BindRequest
    <3>1. r.kind = "Bind"
      BY <2>3 DEF BindRequest
    <3>2. resolved = r /\ FirstStep(r) = "rebind"
      BY <3>1 DEF FirstStep
    <3> QED BY <2>3, <3>1, <3>2 DEF ServedAt, Steps, Persisted, PersistSteps
  <2>4. CASE r \in PeerRequest
    <3>1. r.kind \in {"AddPeer", "RemovePeer", "Pin"} /\ r.key \in Key
      BY <2>4, <1>3 DEF PeerRequest, Invalid, Unparsable
    <3>2. resolved = r /\ r \in OfPeer({r.kind})
      BY <2>4, <3>1 DEF PeerRequest, OfPeer
    <3>3. CASE r.kind = "AddPeer"
      BY <3>2, <3>3 DEF ServedAt, Steps, Persisted, PersistSteps, FirstStep, OfPeer
    <3>4. CASE r.kind = "RemovePeer"
      BY <3>2, <3>4 DEF ServedAt, Steps, Persisted, PersistSteps, FirstStep, OfPeer
    <3>5. CASE r.kind = "Pin"
      BY <3>2, <3>5 DEF ServedAt, Steps, Persisted, PersistSteps, FirstStep, OfPeer
    <3> QED BY <3>1, <3>3, <3>4, <3>5
  <2> QED BY <1>1, <2>1, <2>2, <2>3, <2>4 DEF Request
<1>5. TasksOK'
  <2>1. /\ req' = [req EXCEPT ![t] = resolved] /\ pc' = [pc EXCEPT ![t] = FirstStep(r)]
        /\ UNCHANGED <<snap, copy>>
    BY DEF Receive
  <2>2. resolved \in Persisted \cup OfPeer({"Collide", "Pin", "Enroll", "AddPeer"})
    BY <1>4 DEF OfPeer
  <2> HIDE DEF resolved
  <2> QED BY <1>1, <1>4, <2>1, <2>2 DEF TypeOK, TasksOK
<1>6. LedgerOK'
  BY <1>4 DEF TypeOK, LedgerOK, Receive
<1>7. DataOK'
  BY DEF TypeOK, DataOK, Receive, memory, files
<1> QED BY <1>5, <1>6, <1>7 DEF TypeOK

LEMMA HappenType ==
  ASSUME TypeOK, NEW t \in Background, NEW e \in Events, Happen(t, e)
  PROVE  TypeOK'
<1>1. e \in Event /\ t \in Task
  BY RequestsAssumption DEF Task
<1>2. /\ ServedAt(e, FirstStep(e))
      /\ FirstStep(e) \in Steps
      /\ e \in OfPeer({"Collide", "Pin", "Enroll", "AddPeer"})
  BY <1>1 DEF Event, OfPeer, ServedAt, FirstStep, Steps, PersistSteps
<1>3. TasksOK'
  BY <1>1, <1>2 DEF TypeOK, TasksOK, Happen
<1>4. DataOK' /\ LedgerOK'
  BY DEF TypeOK, DataOK, LedgerOK, Happen, memory, files, ledger
<1> QED BY <1>3, <1>4 DEF TypeOK
(* Each step of a task keeps the types: the request says which step may come   *)
(* next, and the lemmas on the table what a change of it leaves.               *)
LEMMA ChangeType ==
  ASSUME TypeOK, NEW t \in Task,
         \/ Register(t) \/ Retire(t) \/ Rebind(t) \/ Connect(t) \/ Evict(t)
  PROVE  TypeOK'
<1> USE DEF TypeOK, DataOK, LedgerOK, At, memory, files, ledger
<1>0. TasksOK /\ ServedAt(req[t], pc[t]) /\ {"grant", "snapGrants", "revoke"} \subseteq Steps
  BY DEF TasksOK, Steps
<1>1. CASE Register(t)
  <2>1. req[t] \in AcceptedExpose /\ req[t].backend \in Backend
    BY <1>0, <1>1 DEF Register, ServedAt, AcceptedExpose
  <2>2. TasksOK'
    BY <1>0, <1>1, <2>1, GotoType DEF Register, ServedAt, PersistSteps
  <2>3. services' \in Backends
    BY <1>1, <2>1 DEF Register, Backends, AcceptedExpose
  <2> QED BY <1>1, <2>2, <2>3 DEF Register
<1>2. CASE Retire(t)
  <2>1. req[t] \in AcceptedUnexpose
    BY <1>0, <1>2 DEF Retire, ServedAt
  <2>2. TasksOK'
    BY <1>0, <1>2, <2>1, GotoType DEF Retire, ServedAt, PersistSteps, Persisted
  <2>3. services' \in Backends
    BY <1>2, <2>1 DEF Retire, Backends, AcceptedUnexpose
  <2> QED BY <1>2, <2>2, <2>3 DEF Retire
<1>3. CASE Rebind(t)
  <2>1. req[t] \in BindRequest
    BY <1>0, <1>3 DEF Rebind, ServedAt
  <2>2. TasksOK'
    BY <1>0, <1>3, <2>1, GotoType DEF Rebind, ServedAt, PersistSteps, Persisted
  <2>3. binds' \in Remaps
    BY <1>3, <2>1 DEF Rebind, Remaps, BindRequest
  <2> QED BY <1>3, <2>2, <2>3 DEF Rebind
<1>4. CASE Connect(t)
  <2>1. req[t] \in OfPeer({"AddPeer"})
    BY <1>0, <1>4 DEF Connect, ServedAt
  <2>2. TasksOK'
    BY <1>0, <1>4, FinishType DEF Connect
  <2>3. peers' \subseteq Key
    BY <1>4, <2>1 DEF Connect, OfPeer
  <2> QED BY <1>4, <2>2, <2>3 DEF Connect
<1>5. CASE Evict(t)
  <2>1. req[t] \in OfPeer({"RemovePeer", "Collide"})
    BY <1>0, <1>5 DEF Evict, ServedAt
  <2>2. TasksOK'
    BY <1>0, <1>5, <2>1, GotoType DEF Evict, ServedAt, PersistSteps
  <2> QED BY <1>5, <2>2 DEF Evict
<1> QED BY <1>1, <1>2, <1>3, <1>4, <1>5

LEMMA TableStepType ==
  ASSUME TypeOK, NEW t \in Task, Grant(t) \/ Ungrant(t) \/ Revoke(t)
  PROVE  TypeOK'
<1> USE DEF TypeOK, DataOK, At, files
<1>0. /\ TasksOK /\ ServedAt(req[t], pc[t])
      /\ {"snapGrants", "retire", "unpinLoad"} \subseteq Steps
  BY DEF TasksOK, Steps
<1>1. CASE Grant(t)
  <2>1. req[t] \in AcceptedExpose
    BY <1>0, <1>1 DEF Grant, ServedAt
  <2>2. TasksOK'
    BY <1>0, <1>1, <2>1, GotoType DEF Grant, ServedAt, PersistSteps, Persisted
  <2>3. AddGrants(by_port, req[t].port, req[t].to) \in Table
    BY <2>1, AddGrantsFacts DEF AcceptedExpose
  <2>4. LedgerOK' /\ by_port' \in Table
    BY <1>1, <2>3, SetGrantsType DEF Grant, LedgerOK
  <2> QED BY <1>1, <2>2, <2>4 DEF Grant
<1>2. CASE Ungrant(t)
  <2> DEFINE table == IF req[t].key = None THEN RemovePort(by_port, req[t].port)
                      ELSE RemoveGrant(by_port, req[t].port, req[t].key)
  <2>1. req[t] \in AcceptedUnexpose
    BY <1>0, <1>2 DEF Ungrant, ServedAt
  <2>2. TasksOK'
    <3>1. \/ Goto(t, "snapGrants")
          \/ Goto(t, "retire")
      BY <1>2 DEF Ungrant
    <3> QED BY <1>0, <2>1, <3>1, GotoType DEF ServedAt, PersistSteps, Persisted
  <2>3. table \in Table
    BY <2>1, RemovePortFacts, RemoveGrantFacts DEF AcceptedUnexpose
  <2>4. SetGrants(table) /\ UNCHANGED <<asked, flagged, remapped, pinned, evicted>>
    BY <1>2 DEF Ungrant
  <2>5. LedgerOK' /\ by_port' \in Table
    <3> HIDE DEF table
    <3> QED BY <2>3, <2>4, SetGrantsType DEF LedgerOK
  <2> QED BY <1>2, <2>2, <2>5 DEF Ungrant
<1>3. CASE Revoke(t)
  <2>1. req[t] \in OfPeer({"RemovePeer", "Collide"})
    BY <1>0, <1>3 DEF Revoke, ServedAt
  <2>2. TasksOK'
    BY <1>0, <1>3, <2>1, GotoType DEF Revoke, ServedAt, PersistSteps
  <2>3. RevokeGrantee(by_port, req[t].key) \in Table
    BY <2>1, RevokeGranteeFacts DEF OfPeer
  <2>4. LedgerOK' /\ by_port' \in Table
    BY <1>3, <2>3, SetGrantsType DEF Revoke, LedgerOK
  <2> QED BY <1>3, <2>2, <2>4 DEF Revoke
<1> QED BY <1>1, <1>2, <1>3

LEMMA PinStepType ==
  ASSUME TypeOK, NEW t \in Task,
         \/ UnpinLoad(t) \/ UnpinSave(t) \/ Admit(t) \/ PinLoad(t) \/ PinSave(t)
  PROVE  TypeOK'
<1> USE DEF TypeOK, DataOK, LedgerOK, At, memory, files, ledger
<1>0. /\ TasksOK /\ ServedAt(req[t], pc[t]) /\ copy[t] \subseteq Key
      /\ {"snapGrants", "unpinSave", "pinLoad", "pinSave", "admit"} \subseteq Steps
  BY DEF TasksOK, Steps
<1>1. ASSUME NEW next \in Steps, ServedAt(req[t], next), LoadPins(t, next)
      PROVE  TypeOK'
  <2>1. TasksOK'
    BY <1>0, <1>1 DEF LoadPins, TasksOK
  <2> QED BY <1>1, <2>1 DEF LoadPins
<1>2. CASE UnpinLoad(t)
  <2>1. ServedAt(req[t], "unpinSave")
    BY <1>0, <1>2 DEF UnpinLoad, ServedAt, PersistSteps
  <2> QED BY <1>0, <1>1, <1>2, <2>1 DEF UnpinLoad
<1>3. CASE PinLoad(t)
  <2>1. ServedAt(req[t], "pinSave")
    BY <1>0, <1>3 DEF PinLoad, ServedAt, PersistSteps
  <2> QED BY <1>0, <1>1, <1>3, <2>1 DEF PinLoad
<1>4. CASE UnpinSave(t)
  <2>1. req[t] \in OfPeer({"RemovePeer", "Collide"})
    BY <1>0, <1>4 DEF UnpinSave, ServedAt
  <2>2. req[t].kind = "RemovePeer" => ServedAt(req[t], "snapGrants")
    BY <2>1 DEF ServedAt, PersistSteps, Persisted, OfPeer
  <2>3. TasksOK'
    BY <1>0, <1>4, <2>2, GotoType, FinishType DEF UnpinSave
  <2>4. pins' \subseteq Key /\ evicted' \subseteq Key
    BY <1>0, <1>4, <2>1 DEF UnpinSave, OfPeer
  <2> QED BY <1>4, <2>3, <2>4 DEF UnpinSave
<1>5. CASE Admit(t)
  <2>1. req[t] \in OfPeer({"Pin", "Enroll"})
    BY <1>0, <1>5 DEF Admit, ServedAt
  <2>2. ServedAt(req[t], "pinLoad")
    BY <2>1 DEF ServedAt, PersistSteps
  <2>3. TasksOK'
    BY <1>0, <1>5, <2>2, GotoType, FinishType DEF Admit
  <2>4. peers' \subseteq Key /\ pinned' \subseteq Key
    BY <1>5, <2>1 DEF Admit, OfPeer
  <2> QED BY <1>5, <2>3, <2>4 DEF Admit
<1>6. CASE PinSave(t)
  <2>1. req[t] \in OfPeer({"Pin", "Enroll"})
    BY <1>0, <1>6 DEF PinSave, ServedAt
  <2>2. ServedAt(req[t], "admit")
    BY <2>1 DEF ServedAt, PersistSteps
  <2>3. TasksOK'
    BY <1>0, <1>6, <2>2, GotoType, FinishType DEF PinSave
  <2>4. pins' \subseteq Key /\ pinned' \subseteq Key /\ evicted' \subseteq Key
    BY <1>0, <1>6, <2>1 DEF PinSave, OfPeer
  <2> QED BY <1>6, <2>3, <2>4 DEF PinSave
<1> QED BY <1>2, <1>3, <1>4, <1>5, <1>6

LEMMA PersistType ==
  ASSUME TypeOK, NEW t \in Task,
         \/ SnapGrants(t) \/ SnapServices(t) \/ SnapBinds(t) \/ Save(t) \/ SaveFails(t)
  PROVE  TypeOK'
<1> USE DEF TypeOK, DataOK, LedgerOK, At, memory, files, ledger
<1>0. TasksOK /\ ServedAt(req[t], pc[t]) /\ snap[t] \in State /\ PersistSteps \subseteq Steps
  BY DEF TasksOK, Steps, PersistSteps
<1>1. ASSUME NEW next \in PersistSteps, pc[t] \in PersistSteps,
             NEW state \in State, Snap(t, state, next)
      PROVE  TypeOK'
  <2>1. ServedAt(req[t], next)
    BY <1>0, <1>1 DEF ServedAt, PersistSteps
  <2>2. TasksOK'
    BY <1>0, <1>1, <2>1 DEF Snap, TasksOK
  <2> QED BY <1>1, <2>2 DEF Snap
<1>2. CASE SnapGrants(t)
  <2>1. [snap[t] EXCEPT !.grants = AllGrants(by_port)] \in State
    BY <1>0, PairsOf DEF State, Pair
  <2> QED BY <1>1, <1>2, <2>1 DEF SnapGrants, PersistSteps
<1>3. CASE SnapServices(t)
  <2>1. [snap[t] EXCEPT !.services = services] \in State
    BY <1>0 DEF State
  <2> QED BY <1>1, <1>3, <2>1 DEF SnapServices, PersistSteps
<1>4. CASE SnapBinds(t)
  <2>1. [snap[t] EXCEPT !.binds = binds] \in State
    BY <1>0 DEF State
  <2> QED BY <1>1, <1>4, <2>1 DEF SnapBinds, PersistSteps
<1>5. CASE Save(t)
  <2>1. TasksOK'
    BY <1>0, <1>5, FinishType DEF Save
  <2>2. req[t] \in Persisted
    BY <1>0, <1>5 DEF Save, ServedAt, PersistSteps
  <2>3. /\ req[t].kind \in {"Expose", "Unexpose", "RemovePeer"} => Named(req[t]) \subseteq Pair
        /\ req[t].kind = "Expose" => req[t] \in AcceptedExpose
        /\ req[t].kind = "Bind" => req[t] \in BindRequest
        /\ req[t].kind = "RemovePeer" => req[t].key \in Key
    BY <2>2 DEF Persisted, AcceptedExpose, AcceptedUnexpose, BindRequest, OfPeer, Named, Pair
  <2>4. LedgerOK'
    BY <1>5, <2>3 DEF Save, Acknowledge, AcceptedExpose, BindRequest
  <2> QED BY <1>0, <1>5, <2>1, <2>4 DEF Save
<1>6. CASE SaveFails(t)
  <2>1. TasksOK'
    BY <1>0, <1>6, FinishType DEF SaveFails
  <2> QED BY <1>6, <2>1 DEF SaveFails
<1> QED BY <1>2, <1>3, <1>4, <1>5, <1>6

LEMMA CrashType ==
  ASSUME TypeOK, Crash
  PROVE  TypeOK'
<1>1. ServedAt(NoRequest, "idle") /\ "idle" \in Steps
  BY DEF ServedAt, PersistSteps, Steps
<1> QED BY <1>1, EmptyStateFacts, NoGrantsFacts
     DEF TypeOK, DataOK, TasksOK, LedgerOK, Crash, State, files, ledger

LEMMA StartType ==
  ASSUME TypeOK, NEW o \in Overlays, Start(o)
  PROVE  TypeOK'
<1> DEFINE served == Over(o.services, disk.services)
           given  == (o.ports \cup {port \in Port : served[port] # None}) \X o.to
           table  == FromRows(disk.grants \cup given)
<1>1. o \in Overlay /\ disk \in State
  BY OverlaysAssumption DEF TypeOK, DataOK
<1>2. served \in Backends /\ Over(o.binds, disk.binds) \in Remaps
  BY <1>1 DEF Over, Overlay, State, Backends, Remaps
<1>3. given \subseteq Pair
  BY <1>1 DEF Overlay, Pair
<1>4. table \in Table
  BY <1>1, <1>3, FromRowsFacts DEF State
<1>5. DataOK'
  BY <1>1, <1>2, <1>4 DEF TypeOK, DataOK, Start, Overlay, files
<1>6. LedgerOK'
  BY <1>3 DEF TypeOK, LedgerOK, Start
<1>7. TasksOK'
  BY DEF TypeOK, TasksOK, Start, local
<1> QED BY <1>5, <1>6, <1>7 DEF TypeOK

LEMMA InitType == Init => TypeOK
<1>1. ServedAt(NoRequest, "idle") /\ "idle" \in Steps
  BY DEF ServedAt, PersistSteps, Steps
<1>2. Init => DataOK
  BY EmptyStateFacts, NoGrantsFacts DEF Init, DataOK, State
<1>3. Init => TasksOK
  BY <1>1, EmptyStateFacts DEF Init, TasksOK
<1>4. Init => LedgerOK
  BY DEF Init, LedgerOK
<1> QED BY <1>2, <1>3, <1>4 DEF TypeOK

LEMMA NextType == TypeOK /\ [Next]_vars => TypeOK'
<1> SUFFICES ASSUME TypeOK, [Next]_vars PROVE TypeOK'
  OBVIOUS
<1>1. ASSUME NEW t \in Task, Step(t) PROVE TypeOK'
  BY <1>1, ChangeType, TableStepType, PinStepType, PersistType DEF Step
<1>2. CASE UNCHANGED vars
  BY <1>2 DEF vars, memory, files, local, ledger, TypeOK, DataOK, TasksOK, LedgerOK
<1> QED BY <1>1, <1>2, ReceiveType, HappenType, CrashType, StartType DEF Next

(* Every variable keeps its type, and no request that is being served is one   *)
(* that handle_request should have refused.                                    *)
THEOREM Typing == Spec => []TypeOK
BY InitType, NextType, PTL DEF Spec
-----------------------------------------------------------------------------
(* Default deny, with any number of tasks: a request on its way has been asked *)
(* for, and nothing enters a table, a snapshot or the file but from a request, *)
(* the options of a start, or one another.                                     *)

AskedFor == \A t \in Task : req[t].kind = "Expose" => Named(req[t]) \subseteq asked

DenyInv == DefaultDeny /\ AskedFor

LEMMA FinishDeny ==
  ASSUME TypeOK, AskedFor, NEW t \in Task, Finish(t), asked' = asked,
         \A u \in Task : snap[u].grants \subseteq asked \cup flagged
  PROVE  AskedFor' /\ \A u \in Task : snap[u].grants' \subseteq asked \cup flagged
  BY DEF AskedFor, Finish, NoRequest, TypeOK, TasksOK, Named, EmptyState

LEMMA DenyStep ==
  ASSUME TypeOK, DenyInv, NEW t \in Task, Step(t)
  PROVE  DenyInv'
<1> USE DEF DenyInv, DefaultDeny, At, memory, files, ledger
<1>0. ServedAt(req[t], pc[t]) /\ by_port \in Table
  BY DEF TypeOK, TasksOK, DataOK
<1>1. ASSUME UNCHANGED <<by_port, disk, asked, flagged, req, snap>> PROVE DenyInv'
  BY <1>1 DEF AskedFor, Named
<1>2. ASSUME UNCHANGED <<by_port, disk, asked, flagged>>, Finish(t) PROVE DenyInv'
  BY <1>2, FinishDeny
<1>3. ASSUME NEW table \in Table, SetGrants(table), UNCHANGED <<disk, asked, flagged, req, snap>>,
             AllGrants(table) \subseteq AllGrants(by_port) \cup asked
      PROVE  DenyInv'
  BY <1>3 DEF AskedFor, Named, SetGrants
<1>4. CASE Grant(t)
  <2>1. req[t] \in AcceptedExpose
    BY <1>0, <1>4 DEF Grant, ServedAt
  <2>2. Named(req[t]) = {<<req[t].port, key>> : key \in req[t].to}
    BY <2>1 DEF AcceptedExpose, Named
  <2>3. Named(req[t]) \subseteq asked
    BY <2>1 DEF AskedFor, AcceptedExpose
  <2>4. /\ AddGrants(by_port, req[t].port, req[t].to) \in Table
        /\ AllGrants(AddGrants(by_port, req[t].port, req[t].to)) =
             AllGrants(by_port) \cup {<<req[t].port, key>> : key \in req[t].to}
    BY <1>0, <2>1, AddGrantsFacts DEF AcceptedExpose
  <2> QED BY <1>3, <1>4, <2>2, <2>3, <2>4 DEF Grant, Goto
<1>5. CASE Ungrant(t)
  <2> DEFINE table == IF req[t].key = None THEN RemovePort(by_port, req[t].port)
                      ELSE RemoveGrant(by_port, req[t].port, req[t].key)
  <2>1. req[t] \in AcceptedUnexpose
    BY <1>0, <1>5 DEF Ungrant, ServedAt
  <2>2. table \in Table /\ AllGrants(table) \subseteq AllGrants(by_port)
    BY <1>0, <2>1, RemovePortFacts, RemoveGrantFacts DEF AcceptedUnexpose
  <2>3. SetGrants(table) /\ UNCHANGED <<disk, asked, flagged, req, snap>>
    BY <1>5 DEF Ungrant, Goto
  <2> HIDE DEF table
  <2> QED BY <1>3, <2>2, <2>3
<1>6. CASE Revoke(t)
  <2>1. req[t] \in OfPeer({"RemovePeer", "Collide"})
    BY <1>0, <1>6 DEF Revoke, ServedAt
  <2>2. /\ RevokeGrantee(by_port, req[t].key) \in Table
        /\ AllGrants(RevokeGrantee(by_port, req[t].key)) \subseteq AllGrants(by_port)
    BY <1>0, <2>1, RevokeGranteeFacts DEF OfPeer
  <2> QED BY <1>3, <1>6, <2>2 DEF Revoke, Goto
<1>7. ASSUME NEW state, NEW next, Snap(t, state, next),
             state.grants \subseteq asked \cup flagged
      PROVE  DenyInv'
  BY <1>7 DEF Snap, AskedFor, Named, TypeOK, TasksOK
<1>8. CASE SnapGrants(t)
  BY <1>7, <1>8 DEF SnapGrants, TypeOK, TasksOK, State
<1>9. CASE SnapServices(t)
  BY <1>7, <1>9 DEF SnapServices, TypeOK, TasksOK, State
<1>10. CASE SnapBinds(t)
  BY <1>7, <1>10 DEF SnapBinds, TypeOK, TasksOK, State
<1>11. CASE Save(t)
  <2>1. AskedFor' /\ \A u \in Task : snap[u].grants' \subseteq asked \cup flagged
    BY <1>11, FinishDeny DEF Save
  <2> QED BY <1>11, <2>1 DEF Save
<1>12. CASE UnpinLoad(t) \/ PinLoad(t)
  BY <1>1, <1>12 DEF UnpinLoad, PinLoad, LoadPins
<1>13. CASE Register(t) \/ Retire(t) \/ Rebind(t) \/ Evict(t)
  BY <1>1, <1>13 DEF Register, Retire, Rebind, Evict, Goto
<1>14. CASE Connect(t) \/ SaveFails(t)
  BY <1>2, <1>14 DEF Connect, SaveFails
<1>15. CASE UnpinSave(t) \/ Admit(t) \/ PinSave(t)
  BY <1>1, <1>2, <1>15 DEF UnpinSave, Admit, PinSave, Goto
<1> QED BY <1>4, <1>5, <1>6, <1>8, <1>9, <1>10, <1>11, <1>12, <1>13, <1>14, <1>15 DEF Step

LEMMA DenyNext == TypeOK /\ DenyInv /\ [Next]_vars => DenyInv'
<1> SUFFICES ASSUME TypeOK, DenyInv, [Next]_vars PROVE DenyInv'
  OBVIOUS
<1> USE DEF DenyInv, DefaultDeny
<1>1. ASSUME NEW t \in Client, NEW r \in Requests, Receive(t, r) PROVE DenyInv'
  <2> DEFINE resolved == IF r.kind = "Expose" THEN [r EXCEPT !.to = ExposedTo(r)] ELSE r
  <2>1. /\ req' = [req EXCEPT ![t] = resolved]
        /\ asked' = IF r.kind = "Expose" THEN asked \cup Named(resolved) ELSE asked
        /\ UNCHANGED <<by_port, disk, snap, flagged>>
    BY <1>1 DEF Receive, memory, files
  <2>2. r \in Request
    BY RequestsAssumption
  <2>3. resolved.kind = "Expose" => r.kind = "Expose"
    BY <2>2 DEF Request
  <2>4. resolved.kind = "Expose" => Named(resolved) \subseteq asked'
    BY <2>1, <2>3
  <2> HIDE DEF resolved
  <2>5. AskedFor'
    BY <2>1, <2>4 DEF AskedFor, TypeOK, TasksOK, Named
  <2> QED BY <2>1, <2>5
<1>2. ASSUME NEW t \in Background, NEW e \in Events, Happen(t, e) PROVE DenyInv'
  <2>1. e.kind # "Expose"
    BY RequestsAssumption DEF Event
  <2> QED BY <1>2, <2>1 DEF Happen, AskedFor, Named, TypeOK, TasksOK, memory, files, ledger
<1>3. CASE Crash
  BY <1>3, NoGrantsFacts DEF Crash, AskedFor, NoRequest, EmptyState, files, ledger
<1>4. ASSUME NEW o \in Overlays, Start(o) PROVE DenyInv'
  <2> DEFINE served == Over(o.services, disk.services)
             given  == (o.ports \cup {port \in Port : served[port] # None}) \X o.to
  <2>1. given \subseteq Pair /\ disk.grants \subseteq Pair
    BY OverlaysAssumption DEF Overlay, Pair, TypeOK, DataOK, State
  <2>2. /\ by_port' = FromRows(disk.grants \cup given) /\ flagged' = flagged \cup given
        /\ UNCHANGED <<disk, asked, req, snap>>
    BY <1>4 DEF Start, files, local
  <2> HIDE DEF given
  <2>3. AllGrants(by_port') = disk.grants \cup given
    BY <2>1, <2>2, FromRowsFacts
  <2> QED BY <2>2, <2>3 DEF AskedFor, Named
<1>5. CASE UNCHANGED vars
  BY <1>5 DEF vars, memory, files, local, ledger, AskedFor, Named
<1> QED BY <1>1, <1>2, <1>3, <1>4, <1>5, DenyStep DEF Next

(* No grant exists, in memory, in the file or on its way there, that nobody    *)
(* asked for: however many clients and peers interleave, writes fail, and the  *)
(* daemon stops and starts.                                                    *)
THEOREM NoGrantUnasked == Spec => []DefaultDeny
<1>1. Init => DenyInv
  BY NoGrantsFacts DEF Init, DenyInv, DefaultDeny, AskedFor, NoRequest, EmptyState
<1> QED BY <1>1, DenyNext, Typing, PTL DEF Spec, DenyInv
-----------------------------------------------------------------------------
(* What is acknowledged lasts, if the control requests are served one at a     *)
(* time.  Then between a request's change and the end of its save no other     *)
(* request is in progress, so memory differs from the snapshot only by what    *)
(* peers have caused: grants that evictions dropped.                           *)

OneClient == \A c, d \in Client : c = d

AckedSurvives ==
  /\ AckedGrantSurvives /\ AckedRevocationSurvives
  /\ AckedBackendSurvives /\ AckedRemapSurvives

(* Only clients serve control requests, and nobody serves anything while the   *)
(* daemon is down.                                                             *)
ClientsServe ==
  /\ \A t \in Task : req[t].kind \in {"Expose", "Unexpose", "Bind", "RemovePeer"}
                      => t \in Client
  /\ ~up => \A t \in Task : pc[t] = "idle"

(* What a request has already changed is still so: its pairs are gone after a  *)
(* revocation, its backend or its remap is there.                              *)
ChangeHolds(t) ==
  LET r == req[t] IN
  /\ pc[t] \in PersistSteps \cup {"retire", "unpinLoad", "unpinSave"}
       /\ r.kind \in {"Unexpose", "RemovePeer"}
       => Named(r) \cap AllGrants(by_port) = {}
  /\ pc[t] = "retire" => \A d \in declared : d[1] # r.port
  /\ pc[t] \in PersistSteps \cup {"grant"} /\ r.kind = "Expose"
       => r.backend = None \/ services[r.port] = r.backend
  /\ pc[t] \in PersistSteps /\ r.kind = "Bind" => binds[r.port] = r.local

(* What a task has collected agrees with memory and with the acknowledgements. *)
SnapHolds(t) ==
  LET r == req[t] IN
  /\ pc[t] \in {"snapServices", "snapBinds", "save"}
       => /\ AllGrants(by_port) \subseteq snap[t].grants
          /\ withdrawn \cap snap[t].grants = {}
          /\ r.kind \in {"Unexpose", "RemovePeer"} => Named(r) \cap snap[t].grants = {}
  /\ pc[t] \in {"snapBinds", "save"} => snap[t].services = services
  /\ pc[t] = "save" => snap[t].binds = binds

AckedInv == /\ AckedSurvives /\ ClientsServe
            /\ \A t \in Task : ChangeHolds(t) /\ SnapHolds(t)
(* While a client's request is served, nobody else serves one.                 *)
ControlSteps == PersistSteps \cup {"register", "grant", "ungrant", "retire", "rebind"}

LEMMA ControlStepsAreClients ==
  ASSUME TypeOK, ClientsServe, NEW t \in Task, pc[t] \in ControlSteps
  PROVE  t \in Client
<1>1. ServedAt(req[t], pc[t])
  BY DEF TypeOK, TasksOK
<1>2. req[t].kind \in {"Expose", "Unexpose", "Bind", "RemovePeer"}
  BY <1>1 DEF ServedAt, ControlSteps, PersistSteps, Persisted, AcceptedExpose,
              AcceptedUnexpose, BindRequest, OfPeer
<1> QED BY <1>2 DEF ClientsServe

LEMMA Bystander ==
  ASSUME TypeOK, ClientsServe, OneClient, NEW t \in Client, NEW u \in Task, u # t
  PROVE  /\ pc[u] \notin ControlSteps
         /\ req[u].kind \notin {"Expose", "Unexpose", "Bind", "RemovePeer"}
<1>1. u \notin Client
  BY DEF OneClient
<1> QED BY <1>1, ControlStepsAreClients DEF ClientsServe

(* Who serves what stays as it is while a task moves on or finishes.           *)
LEMMA ClientsServeKept ==
  ASSUME TypeOK, ClientsServe, NEW t \in Task, up, up' = up,
         UNCHANGED req \/ Finish(t)
  PROVE  ClientsServe'
  BY DEF ClientsServe, Finish, NoRequest, TypeOK, TasksOK

(* A step that changes no declaration.                                         *)
kept == <<up, by_port, services, binds, disk, promised, withdrawn, declared, remapped>>

Moves(t) ==
  \/ (\E step \in Steps : pc' = [pc EXCEPT ![t] = step]) /\ UNCHANGED <<req, snap>>
  \/ Finish(t)

LEMMA QuietStep ==
  ASSUME TypeOK, AckedInv, NEW t \in Task, up, UNCHANGED kept, Moves(t),
         ChangeHolds(t)', SnapHolds(t)'
  PROVE  AckedInv'
<1>1. AckedSurvives'
  BY DEF kept, AckedInv, AckedSurvives, AckedGrantSurvives, AckedRevocationSurvives,
         AckedBackendSurvives, AckedRemapSurvives
<1>2. ClientsServe'
  BY ClientsServeKept DEF kept, AckedInv, Moves
<1>3. ASSUME NEW u \in Task, u # t PROVE ChangeHolds(u)' /\ SnapHolds(u)'
  <2>1. pc'[u] = pc[u] /\ req'[u] = req[u] /\ snap'[u] = snap[u]
    BY <1>3 DEF Moves, Finish, TypeOK, TasksOK
  <2>2. ChangeHolds(u) /\ SnapHolds(u)
    BY DEF AckedInv
  <2> QED BY <2>1, <2>2 DEF kept, ChangeHolds, SnapHolds, Named
<1> QED BY <1>1, <1>2, <1>3 DEF AckedInv

(* A finished task holds on to nothing.                                        *)
LEMMA FinishHolds ==
  ASSUME TypeOK, NEW t \in Task, Finish(t)
  PROVE  ChangeHolds(t)' /\ SnapHolds(t)'
<1>1. pc'[t] = "idle"
  BY DEF Finish, TypeOK, TasksOK
<1> QED BY <1>1 DEF ChangeHolds, SnapHolds, PersistSteps

(* A step that drops pairs from the table.                                     *)
LEMMA ShrinkStep ==
  ASSUME TypeOK, AckedInv, NEW t \in Task, up, Moves(t), UNCHANGED req,
         UNCHANGED <<up, services, binds, disk, remapped, snap>>,
         NEW table \in Table, AllGrants(table) \subseteq AllGrants(by_port), SetGrants(table),
         ChangeHolds(t)', SnapHolds(t)'
  PROVE  AckedInv'
<1>1. AckedSurvives'
  BY DEF SetGrants, AckedInv, AckedSurvives, AckedGrantSurvives, AckedRevocationSurvives,
         AckedBackendSurvives, AckedRemapSurvives
<1>2. ClientsServe'
  BY ClientsServeKept DEF AckedInv
<1>3. ASSUME NEW u \in Task, u # t PROVE ChangeHolds(u)' /\ SnapHolds(u)'
  <2>1. pc'[u] = pc[u] /\ req'[u] = req[u] /\ snap'[u] = snap[u]
    BY <1>3 DEF Moves, Finish, TypeOK, TasksOK
  <2>2. ChangeHolds(u) /\ SnapHolds(u)
    BY DEF AckedInv
  <2>3. AllGrants(by_port') \subseteq AllGrants(by_port) /\ withdrawn' \subseteq withdrawn
        /\ declared' \subseteq declared
    BY DEF SetGrants
  <2> QED BY <2>1, <2>2, <2>3 DEF ChangeHolds, SnapHolds, Named
<1> QED BY <1>1, <1>2, <1>3 DEF AckedInv

(* A change by a client: nobody else holds on to anything it could disturb.    *)
LEMMA ClientStep ==
  ASSUME TypeOK, OneClient, AckedInv, NEW t \in Task, t \in Client, up, up' = up,
         \E step \in Steps : pc' = [pc EXCEPT ![t] = step], UNCHANGED req \/ Finish(t),
         AckedSurvives', ChangeHolds(t)', SnapHolds(t)'
  PROVE  AckedInv'
<1>1. ClientsServe'
  BY ClientsServeKept DEF AckedInv
<1>2. ASSUME NEW u \in Task, u # t PROVE ChangeHolds(u)' /\ SnapHolds(u)'
  <2>1. pc'[u] = pc[u] /\ req'[u] = req[u]
    BY <1>2 DEF Finish, TypeOK, TasksOK
  <2>2. /\ pc[u] \notin ControlSteps
        /\ req[u].kind \notin {"Expose", "Unexpose", "Bind", "RemovePeer"}
    BY <1>2, Bystander DEF AckedInv
  <2> QED BY <2>1, <2>2 DEF ChangeHolds, SnapHolds, ControlSteps, PersistSteps
<1> QED BY <1>1, <1>2 DEF AckedInv
(* Expose: the new backend is in place before the grant, the grant before the  *)
(* snapshot.                                                                   *)
LEMMA RegisterAcked ==
  ASSUME TypeOK, OneClient, AckedInv, NEW t \in Task, Register(t)
  PROVE  AckedInv'
<1>1. /\ up /\ pc[t] = "register" /\ req[t] \in AcceptedExpose /\ req[t].backend \in Backend
      /\ up' = up /\ pc' = [pc EXCEPT ![t] = "grant"] /\ UNCHANGED <<req, snap>>
      /\ "grant" \in Steps /\ pc'[t] = "grant"
  BY DEF Register, At, Goto, TypeOK, TasksOK, ServedAt, AcceptedExpose, Steps
<1>2. t \in Client
  BY <1>1, ControlStepsAreClients DEF AckedInv, ControlSteps
<1>3. services'[req[t].port] = req[t].backend
      /\ \A port \in Port : port # req[t].port => services'[port] = services[port]
  BY <1>1 DEF Register, AcceptedExpose, TypeOK, DataOK, Backends
<1>4. AckedSurvives'
  BY <1>1, <1>3 DEF Register, files, TypeOK, LedgerOK, AckedInv, AckedSurvives,
     AckedGrantSurvives, AckedRevocationSurvives, AckedBackendSurvives, AckedRemapSurvives
<1>5. ChangeHolds(t)' /\ SnapHolds(t)'
  BY <1>1, <1>3 DEF ChangeHolds, SnapHolds, PersistSteps, AcceptedExpose
<1> QED BY <1>1, <1>2, <1>4, <1>5, ClientStep

LEMMA GrantAcked ==
  ASSUME TypeOK, OneClient, AckedInv, NEW t \in Task, Grant(t)
  PROVE  AckedInv'
<1> DEFINE table == AddGrants(by_port, req[t].port, req[t].to)
<1>1. /\ up /\ pc[t] = "grant" /\ req[t] \in AcceptedExpose /\ by_port \in Table
      /\ up' = up /\ pc' = [pc EXCEPT ![t] = "snapGrants"]
      /\ UNCHANGED <<req, snap, services, binds, disk, remapped>> /\ SetGrants(table)
      /\ "snapGrants" \in Steps /\ pc'[t] = "snapGrants"
  BY DEF Grant, At, Goto, TypeOK, TasksOK, DataOK, ServedAt, Steps, files
<1>2. t \in Client
  BY <1>1, ControlStepsAreClients DEF AckedInv, ControlSteps
<1>3. AllGrants(by_port) \subseteq AllGrants(table)
  BY <1>1, AddGrantsFacts DEF AcceptedExpose
<1> HIDE DEF table
<1>4. AckedSurvives'
  BY <1>1, <1>3 DEF SetGrants, AckedInv, AckedSurvives,
     AckedGrantSurvives, AckedRevocationSurvives, AckedBackendSurvives, AckedRemapSurvives
<1>5. ChangeHolds(t)' /\ SnapHolds(t)'
  BY <1>1 DEF AckedInv, ChangeHolds, SnapHolds, PersistSteps, AcceptedExpose
<1> QED BY <1>1, <1>2, <1>4, <1>5, ClientStep

(* Unexpose: a port that is to be retired holds no acknowledged backend.       *)
LEMMA UngrantAcked ==
  ASSUME TypeOK, OneClient, AckedInv, NEW t \in Task, Ungrant(t)
  PROVE  AckedInv'
<1> DEFINE table == IF req[t].key = None THEN RemovePort(by_port, req[t].port)
                    ELSE RemoveGrant(by_port, req[t].port, req[t].key)
<1>1. /\ up /\ req[t] \in AcceptedUnexpose /\ by_port \in Table
      /\ UNCHANGED <<up, services, binds, disk, remapped, snap, req>> /\ SetGrants(table)
  BY DEF Ungrant, At, Goto, TypeOK, TasksOK, DataOK, ServedAt, files
<1>2. /\ pc' = [pc EXCEPT ![t] = IF req[t].port \in GrantedPorts(table)
                                 THEN "snapGrants" ELSE "retire"]
      /\ pc'[t] = IF req[t].port \in GrantedPorts(table) THEN "snapGrants" ELSE "retire"
      /\ {"snapGrants", "retire"} \subseteq Steps
  BY DEF Ungrant, Goto, TypeOK, TasksOK, Steps
<1>3. /\ table \in Table /\ AllGrants(table) \subseteq AllGrants(by_port)
      /\ Named(req[t]) \cap AllGrants(table) = {}
  <2>1. CASE req[t].key = None
    <3>1. table = RemovePort(by_port, req[t].port)
      BY <2>1
    <3> QED BY <1>1, <2>1, <3>1, RemovePortFacts DEF AcceptedUnexpose, Named
  <2>2. CASE req[t].key # None
    <3>1. table = RemoveGrant(by_port, req[t].port, req[t].key) /\ req[t].key \in Key
      BY <1>1, <2>2 DEF AcceptedUnexpose
    <3>2. Named(req[t]) = {pair \in Pair : pair[1] = req[t].port /\ pair[2] = req[t].key}
      BY <1>1, <2>2 DEF AcceptedUnexpose, Named
    <3> QED BY <1>1, <3>1, <3>2, RemoveGrantFacts DEF AcceptedUnexpose, Pair
  <2> QED BY <2>1, <2>2
<1> HIDE DEF table
<1>4. ChangeHolds(t)' /\ SnapHolds(t)'
  BY <1>1, <1>2, <1>3 DEF SetGrants, ChangeHolds, SnapHolds, PersistSteps, AcceptedUnexpose, Named
<1>5. Moves(t)
  BY <1>1, <1>2 DEF Moves
<1> QED BY <1>1, <1>3, <1>4, <1>5, ShrinkStep

LEMMA RetireAcked ==
  ASSUME TypeOK, OneClient, AckedInv, NEW t \in Task, Retire(t)
  PROVE  AckedInv'
<1>1. /\ up /\ pc[t] = "retire" /\ req[t] \in AcceptedUnexpose
      /\ up' = up /\ pc' = [pc EXCEPT ![t] = "snapGrants"] /\ UNCHANGED <<req, snap, by_port>>
      /\ "snapGrants" \in Steps /\ pc'[t] = "snapGrants"
  BY DEF Retire, At, Goto, TypeOK, TasksOK, ServedAt, Steps
<1>2. t \in Client
  BY <1>1, ControlStepsAreClients DEF AckedInv, ControlSteps
<1>3. /\ \A d \in declared : d[1] # req[t].port
      /\ Named(req[t]) \cap AllGrants(by_port) = {}
  BY <1>1 DEF AckedInv, ChangeHolds, AcceptedUnexpose
<1>4. \A port \in Port : port # req[t].port => services'[port] = services[port]
  BY <1>1 DEF Retire, TypeOK, DataOK, Backends
<1>5. AckedSurvives'
  BY <1>1, <1>3, <1>4 DEF Retire, files, ledger, TypeOK, LedgerOK, AckedInv, AckedSurvives,
     AckedGrantSurvives, AckedRevocationSurvives, AckedBackendSurvives, AckedRemapSurvives
<1>6. ChangeHolds(t)' /\ SnapHolds(t)'
  BY <1>1, <1>3 DEF ChangeHolds, SnapHolds, PersistSteps, AcceptedUnexpose, Named
<1> QED BY <1>1, <1>2, <1>5, <1>6, ClientStep

LEMMA RebindAcked ==
  ASSUME TypeOK, OneClient, AckedInv, NEW t \in Task, Rebind(t)
  PROVE  AckedInv'
<1>1. /\ up /\ pc[t] = "rebind" /\ req[t] \in BindRequest
      /\ up' = up /\ pc' = [pc EXCEPT ![t] = "snapGrants"] /\ UNCHANGED <<req, snap>>
      /\ "snapGrants" \in Steps /\ pc'[t] = "snapGrants"
  BY DEF Rebind, At, Goto, TypeOK, TasksOK, ServedAt, Steps
<1>2. t \in Client
  BY <1>1, ControlStepsAreClients DEF AckedInv, ControlSteps
<1>3. binds'[req[t].port] = req[t].local
      /\ \A port \in Port : port # req[t].port => binds'[port] = binds[port]
  BY <1>1 DEF Rebind, BindRequest, TypeOK, DataOK, Remaps
<1>4. AckedSurvives'
  BY <1>1, <1>3 DEF Rebind, files, TypeOK, LedgerOK, AckedInv, AckedSurvives,
     AckedGrantSurvives, AckedRevocationSurvives, AckedBackendSurvives, AckedRemapSurvives
<1>5. ChangeHolds(t)' /\ SnapHolds(t)'
  BY <1>1, <1>3 DEF ChangeHolds, SnapHolds, PersistSteps, BindRequest
<1> QED BY <1>1, <1>2, <1>4, <1>5, ClientStep
(* An eviction drops pairs, which disturbs no snapshot and no acknowledgement. *)
LEMMA RevokeAcked ==
  ASSUME TypeOK, OneClient, AckedInv, NEW t \in Task, Revoke(t)
  PROVE  AckedInv'
<1> DEFINE table == RevokeGrantee(by_port, req[t].key)
<1>1. /\ up /\ req[t] \in OfPeer({"RemovePeer", "Collide"}) /\ by_port \in Table
      /\ UNCHANGED <<up, services, binds, disk, remapped, snap, req>> /\ SetGrants(table)
      /\ pc' = [pc EXCEPT ![t] = "unpinLoad"] /\ pc'[t] = "unpinLoad" /\ "unpinLoad" \in Steps
  BY DEF Revoke, At, Goto, TypeOK, TasksOK, DataOK, ServedAt, files, Steps
<1>2. /\ table \in Table /\ AllGrants(table) \subseteq AllGrants(by_port)
      /\ Named(req[t]) \cap AllGrants(table) = {}
  BY <1>1, RevokeGranteeFacts DEF OfPeer, Named
<1> HIDE DEF table
<1>3. ChangeHolds(t)' /\ SnapHolds(t)'
  BY <1>1, <1>2 DEF SetGrants, ChangeHolds, SnapHolds, PersistSteps, Named
<1>4. Moves(t)
  BY <1>1 DEF Moves
<1> QED BY <1>1, <1>2, <1>3, <1>4, ShrinkStep

LEMMA QuietAcked ==
  ASSUME TypeOK, OneClient, AckedInv, NEW t \in Task,
         \/ Connect(t) \/ Evict(t) \/ UnpinLoad(t) \/ UnpinSave(t)
         \/ Admit(t) \/ PinLoad(t) \/ PinSave(t) \/ SaveFails(t)
  PROVE  AckedInv'
<1>0. up /\ UNCHANGED kept
  BY DEF kept, memory, files, ledger, At, LoadPins, Goto,
         Connect, Evict, UnpinLoad, UnpinSave, Admit, PinLoad, PinSave, SaveFails
<1>1. CASE Finish(t)
  <2>1. Moves(t)
    BY <1>1 DEF Moves
  <2> QED BY <1>0, <1>1, <2>1, FinishHolds, QuietStep
<1>2. ASSUME NEW step \in {"revoke", "unpinSave", "pinLoad", "pinSave", "admit"},
             pc' = [pc EXCEPT ![t] = step], UNCHANGED <<req, snap>>,
             step = "unpinSave" => pc[t] = "unpinLoad"
      PROVE  AckedInv'
  <2>1. Moves(t) /\ pc'[t] = step
    BY <1>2 DEF Moves, Steps, TypeOK, TasksOK
  <2>2. ChangeHolds(t) /\ SnapHolds(t)
    BY DEF AckedInv
  <2>3. ChangeHolds(t)' /\ SnapHolds(t)'
    BY <1>0, <1>2, <2>1, <2>2 DEF kept, ChangeHolds, SnapHolds, PersistSteps, Named
  <2> QED BY <1>0, <2>1, <2>3, QuietStep
<1>3. CASE UnpinSave(t) /\ Goto(t, "snapGrants")
  <2>1. /\ Moves(t) /\ pc'[t] = "snapGrants" /\ pc[t] = "unpinSave" /\ UNCHANGED <<req, snap>>
        /\ req[t] \in OfPeer({"RemovePeer", "Collide"})
    BY <1>3 DEF Moves, Goto, Steps, UnpinSave, At, ServedAt, TypeOK, TasksOK
  <2>2. ChangeHolds(t) /\ SnapHolds(t)
    BY DEF AckedInv
  <2>3. ChangeHolds(t)' /\ SnapHolds(t)'
    BY <1>0, <2>1, <2>2 DEF kept, ChangeHolds, SnapHolds, PersistSteps, Named, OfPeer
  <2> QED BY <1>0, <2>1, <2>3, QuietStep
<1> QED BY <1>1, <1>2, <1>3
     DEF At, LoadPins, Goto, Connect, Evict, UnpinLoad, UnpinSave, Admit, PinLoad, PinSave, SaveFails

(* persist: each part is collected as it is in memory, and stays so.           *)
LEMMA SnapAcked ==
  ASSUME TypeOK, OneClient, AckedInv, NEW t \in Task,
         SnapGrants(t) \/ SnapServices(t) \/ SnapBinds(t)
  PROVE  AckedInv'
<1>1. /\ up /\ pc[t] \in PersistSteps /\ UNCHANGED kept /\ UNCHANGED req
      /\ \E step \in Steps : pc' = [pc EXCEPT ![t] = step]
      /\ pc \in [Task -> Steps] /\ snap \in [Task -> State]
  BY DEF kept, memory, files, ledger, At, Snap, SnapGrants, SnapServices, SnapBinds,
         PersistSteps, Steps, TypeOK, TasksOK
<1>2. t \in Client
  BY <1>1, ControlStepsAreClients DEF AckedInv, ControlSteps
<1>3. AckedSurvives'
  BY <1>1 DEF kept, AckedInv, AckedSurvives, AckedGrantSurvives, AckedRevocationSurvives,
         AckedBackendSurvives, AckedRemapSurvives
<1>4. ChangeHolds(t) /\ SnapHolds(t)
  BY DEF AckedInv
<1>5. withdrawn \cap AllGrants(by_port) = {}
  BY <1>1 DEF AckedInv, AckedSurvives, AckedRevocationSurvives
<1>6. CASE SnapGrants(t)
  <2>1. pc[t] = "snapGrants" /\ pc'[t] = "snapServices" /\ snap'[t].grants = AllGrants(by_port)
    BY <1>1, <1>6 DEF SnapGrants, Snap, At, State
  <2>2. ChangeHolds(t)' /\ SnapHolds(t)'
    BY <1>1, <1>4, <1>5, <2>1 DEF kept, ChangeHolds, SnapHolds, PersistSteps, Named
  <2> QED BY <1>1, <1>2, <1>3, <2>2, ClientStep DEF kept
<1>7. CASE SnapServices(t)
  <2>1. /\ pc[t] = "snapServices" /\ pc'[t] = "snapBinds"
        /\ snap'[t].grants = snap[t].grants /\ snap'[t].services = services
    BY <1>1, <1>7 DEF SnapServices, Snap, At, State
  <2>2. ChangeHolds(t)' /\ SnapHolds(t)'
    BY <1>1, <1>4, <2>1 DEF kept, ChangeHolds, SnapHolds, PersistSteps, Named
  <2> QED BY <1>1, <1>2, <1>3, <2>2, ClientStep DEF kept
<1>8. CASE SnapBinds(t)
  <2>1. /\ pc[t] = "snapBinds" /\ pc'[t] = "save" /\ snap'[t].grants = snap[t].grants
        /\ snap'[t].services = snap[t].services /\ snap'[t].binds = binds
    BY <1>1, <1>8 DEF SnapBinds, Snap, At, State
  <2>2. ChangeHolds(t)' /\ SnapHolds(t)'
    BY <1>1, <1>4, <2>1 DEF kept, ChangeHolds, SnapHolds, PersistSteps, Named
  <2> QED BY <1>1, <1>2, <1>3, <2>2, ClientStep DEF kept
<1> QED BY <1>6, <1>7, <1>8

(* The save: what is acknowledged is what was collected, and what is collected *)
(* holds everything that was acknowledged before.                              *)
LEMMA SaveAcked ==
  ASSUME TypeOK, OneClient, AckedInv, NEW t \in Task, Save(t)
  PROVE  AckedInv'
<1> DEFINE r == req[t]
<1>1. /\ up /\ pc[t] = "save" /\ disk' = snap[t] /\ Acknowledge(r) /\ Finish(t)
      /\ UNCHANGED <<up, by_port, services, binds>> /\ r \in Persisted
      /\ snap[t] \in State /\ "idle" \in Steps
  BY DEF Save, At, memory, TypeOK, TasksOK, ServedAt, PersistSteps, Steps
<1>2. t \in Client
  BY <1>1, ControlStepsAreClients DEF AckedInv, ControlSteps, PersistSteps
<1>3. /\ AllGrants(by_port) \subseteq snap[t].grants
      /\ withdrawn \cap snap[t].grants = {}
      /\ r.kind \in {"Unexpose", "RemovePeer"} => Named(r) \cap snap[t].grants = {}
      /\ snap[t].services = services /\ snap[t].binds = binds
      /\ r.kind = "Expose" => r.backend = None \/ services[r.port] = r.backend
      /\ r.kind = "Bind" => binds[r.port] = r.local
  BY <1>1 DEF AckedInv, SnapHolds, ChangeHolds, PersistSteps
<1> HIDE DEF r
<1>4. AckedGrantSurvives' /\ AckedRevocationSurvives'
  BY <1>1, <1>3 DEF Acknowledge, AckedInv, AckedSurvives, AckedGrantSurvives, AckedRevocationSurvives
<1>5. AckedBackendSurvives'
  <2>1. ASSUME NEW d \in declared' PROVE services[d[1]] = d[2]
    <3>1. CASE d \in declared
      BY <1>1, <3>1 DEF AckedInv, AckedSurvives, AckedBackendSurvives
    <3>2. CASE d \notin declared
      BY <1>1, <1>3, <2>1, <3>2 DEF Acknowledge
    <3> QED BY <3>1, <3>2
  <2> QED BY <1>1, <1>3, <2>1 DEF AckedBackendSurvives
<1>6. AckedRemapSurvives'
  <2>1. ASSUME NEW m \in remapped' PROVE binds[m[1]] = m[2]
    <3>1. CASE m \in remapped
      BY <1>1, <3>1 DEF AckedInv, AckedSurvives, AckedRemapSurvives
    <3>2. CASE m \notin remapped
      BY <1>1, <1>3, <2>1, <3>2 DEF Acknowledge
    <3> QED BY <3>1, <3>2
  <2> QED BY <1>1, <1>3, <2>1 DEF AckedRemapSurvives
<1>7. AckedSurvives'
  BY <1>4, <1>5, <1>6 DEF AckedSurvives
<1>8. pc' = [pc EXCEPT ![t] = "idle"]
  BY <1>1 DEF Finish
<1> QED BY <1>1, <1>2, <1>7, <1>8, FinishHolds, ClientStep

(* A request, or an event, that begins to be served has changed nothing yet.   *)
LEMMA BeginAcked ==
  ASSUME TypeOK, AckedInv, NEW t \in Task, up, pc[t] = "idle", UNCHANGED kept, UNCHANGED snap,
         NEW r, req' = [req EXCEPT ![t] = r],
         NEW step \in Steps \ (PersistSteps \cup {"retire", "unpinLoad", "unpinSave"}),
         pc' = [pc EXCEPT ![t] = step],
         r.kind \in {"Expose", "Unexpose", "Bind", "RemovePeer"} => t \in Client,
         step = "grant" => r.kind = "Expose" /\ r.backend = None
  PROVE  AckedInv'
<1>1. AckedSurvives'
  BY DEF kept, AckedInv, AckedSurvives, AckedGrantSurvives, AckedRevocationSurvives,
         AckedBackendSurvives, AckedRemapSurvives
<1>2. ClientsServe'
  BY DEF kept, AckedInv, ClientsServe, TypeOK, TasksOK
<1>3. ASSUME NEW u \in Task PROVE ChangeHolds(u)' /\ SnapHolds(u)'
  <2>1. CASE u = t
    <3>1. pc'[u] = step /\ req'[u] = r
      BY <2>1 DEF TypeOK, TasksOK
    <3> QED BY <3>1 DEF ChangeHolds, SnapHolds, PersistSteps
  <2>2. CASE u # t
    <3>1. pc'[u] = pc[u] /\ req'[u] = req[u]
      BY <2>2 DEF TypeOK, TasksOK
    <3>2. ChangeHolds(u) /\ SnapHolds(u)
      BY DEF AckedInv
    <3> QED BY <3>1, <3>2 DEF kept, ChangeHolds, SnapHolds, Named
  <2> QED BY <2>1, <2>2
<1> QED BY <1>1, <1>2, <1>3 DEF AckedInv

LEMMA ReceiveAcked ==
  ASSUME TypeOK, AckedInv, NEW t \in Client, NEW r \in Requests, Receive(t, r)
  PROVE  AckedInv'
<1> DEFINE resolved == IF r.kind = "Expose" THEN [r EXCEPT !.to = ExposedTo(r)] ELSE r
<1>1. /\ up /\ pc[t] = "idle" /\ UNCHANGED kept /\ UNCHANGED snap /\ t \in Task
      /\ req' = [req EXCEPT ![t] = resolved] /\ pc' = [pc EXCEPT ![t] = FirstStep(r)]
  BY DEF Receive, At, kept, memory, files, Task
<1>2. r \in Request
  BY RequestsAssumption
<1>3. /\ FirstStep(r) \in Steps \ (PersistSteps \cup {"retire", "unpinLoad", "unpinSave"})
      /\ FirstStep(r) = "grant" => r.kind = "Expose" /\ r.backend = None
  BY <1>2 DEF Request, ExposeRequest, UnexposeRequest, BindRequest, PeerRequest,
              FirstStep, Steps, PersistSteps
<1>4. r.kind = "Expose" => resolved.kind = r.kind /\ resolved.backend = r.backend
  BY <1>2 DEF Request, ExposeRequest, UnexposeRequest, BindRequest, PeerRequest
<1> HIDE DEF resolved
<1> QED BY <1>1, <1>3, <1>4, BeginAcked

LEMMA HappenAcked ==
  ASSUME TypeOK, AckedInv, NEW t \in Background, NEW e \in Events, Happen(t, e)
  PROVE  AckedInv'
<1>1. /\ up /\ pc[t] = "idle" /\ UNCHANGED kept /\ UNCHANGED snap /\ t \in Task
      /\ req' = [req EXCEPT ![t] = e] /\ pc' = [pc EXCEPT ![t] = FirstStep(e)]
  BY DEF Happen, At, kept, memory, files, ledger, Task
<1>2. /\ e.kind \in {"Collide", "Enroll"} /\ FirstStep(e) \in {"evict", "pinLoad"}
  BY RequestsAssumption DEF Event, FirstStep
<1>3. FirstStep(e) \in Steps \ (PersistSteps \cup {"retire", "unpinLoad", "unpinSave"})
  BY <1>2 DEF Steps, PersistSteps
<1> QED BY <1>1, <1>2, <1>3, BeginAcked

LEMMA CrashAcked ==
  ASSUME TypeOK, AckedInv, Crash
  PROVE  AckedInv'
<1>1. AckedSurvives'
  BY DEF Crash, files, ledger, AckedInv, AckedSurvives, AckedGrantSurvives,
         AckedRevocationSurvives, AckedBackendSurvives, AckedRemapSurvives
<1>2. ClientsServe'
  BY DEF Crash, ClientsServe, NoRequest
<1>3. \A t \in Task : ChangeHolds(t)' /\ SnapHolds(t)'
  BY DEF Crash, ChangeHolds, SnapHolds, PersistSteps
<1> QED BY <1>1, <1>2, <1>3 DEF AckedInv

(* A start brings back what the file holds, with the options over it.          *)
LEMMA StartAcked ==
  ASSUME TypeOK, AckedInv, NEW o \in Overlays, Start(o)
  PROVE  AckedInv'
<1> DEFINE served == Over(o.services, disk.services)
           given  == (o.ports \cup {port \in Port : served[port] # None}) \X o.to
<1>1. given \subseteq Pair /\ disk.grants \subseteq Pair
  BY OverlaysAssumption DEF Overlay, Pair, TypeOK, DataOK, State
<1>2. /\ ~up /\ by_port' = FromRows(disk.grants \cup given)
      /\ services' = served /\ binds' = Over(o.binds, disk.binds)
      /\ withdrawn' = withdrawn \ given
      /\ declared' = {d \in declared : o.services[d[1]] = None}
      /\ remapped' = {m \in remapped : o.binds[m[1]] = None}
      /\ UNCHANGED <<disk, promised, req, pc, snap>>
  BY DEF Start, files, local
<1> HIDE DEF given
<1>3. AllGrants(by_port') = disk.grants \cup given
  BY <1>1, <1>2, FromRowsFacts
<1>4. AckedGrantSurvives' /\ AckedRevocationSurvives'
  BY <1>2, <1>3 DEF AckedInv, AckedSurvives, AckedGrantSurvives, AckedRevocationSurvives
<1>5. AckedBackendSurvives' /\ AckedRemapSurvives'
  BY <1>2 DEF TypeOK, LedgerOK, Over, AckedInv, AckedSurvives, AckedBackendSurvives, AckedRemapSurvives
<1>6. \A t \in Task : pc'[t] = "idle"
  BY <1>2 DEF AckedInv, ClientsServe
<1>7. ClientsServe'
  BY <1>2, <1>6 DEF AckedInv, ClientsServe
<1>8. \A t \in Task : ChangeHolds(t)' /\ SnapHolds(t)'
  BY <1>6 DEF ChangeHolds, SnapHolds, PersistSteps
<1> QED BY <1>4, <1>5, <1>7, <1>8 DEF AckedInv, AckedSurvives

LEMMA AckedInit == Init => AckedInv
  BY DEF Init, AckedInv, AckedSurvives, AckedGrantSurvives, AckedRevocationSurvives,
         AckedBackendSurvives, AckedRemapSurvives, ClientsServe, NoRequest,
         ChangeHolds, SnapHolds, PersistSteps

LEMMA AckedNext == OneClient /\ TypeOK /\ AckedInv /\ [Next]_vars => AckedInv'
<1> SUFFICES ASSUME OneClient, TypeOK, AckedInv, [Next]_vars PROVE AckedInv'
  OBVIOUS
<1>1. ASSUME NEW t \in Task, Step(t) PROVE AckedInv'
  BY <1>1, RegisterAcked, GrantAcked, UngrantAcked, RetireAcked, RebindAcked, RevokeAcked,
     QuietAcked, SnapAcked, SaveAcked DEF Step
<1>2. CASE UNCHANGED vars
  BY <1>2 DEF vars, memory, files, local, ledger, AckedInv, AckedSurvives, AckedGrantSurvives,
     AckedRevocationSurvives, AckedBackendSurvives, AckedRemapSurvives, ClientsServe,
     ChangeHolds, SnapHolds, Named
<1> QED BY <1>1, <1>2, ReceiveAcked, HappenAcked, CrashAcked, StartAcked DEF Next

LEMMA AckedInvariant == ASSUME OneClient PROVE Spec => []AckedInv
<1>1. TypeOK /\ AckedInv /\ [Next]_vars => AckedInv'
  BY AckedNext
<1> QED BY <1>1, AckedInit, Typing, PTL DEF Spec

(* With control requests served one at a time, and peers enrolling and         *)
(* colliding meanwhile as they like: an acknowledged grant outlives every      *)
(* failed write, stop and start, until it is taken back.                       *)
THEOREM GrantSurvives == ASSUME OneClient PROVE Spec => []AckedGrantSurvives
BY AckedInvariant, PTL DEF AckedInv, AckedSurvives

(* Under the same assumption: so does a revocation, until the port is granted  *)
(* to that key again.                                                          *)
THEOREM RevocationSurvives == ASSUME OneClient PROVE Spec => []AckedRevocationSurvives
BY AckedInvariant, PTL DEF AckedInv, AckedSurvives

(* Under the same assumption: so does a backend, until it is replaced or its   *)
(* port is retired, and unless an option of a start claims the port.           *)
THEOREM BackendSurvives == ASSUME OneClient PROVE Spec => []AckedBackendSurvives
BY AckedInvariant, PTL DEF AckedInv, AckedSurvives

(* Under the same assumption: so does a remap, until it is changed or an       *)
(* option of a start claims its port.                                          *)
THEOREM RemapSurvives == ASSUME OneClient PROVE Spec => []AckedRemapSurvives
BY AckedInvariant, PTL DEF AckedInv, AckedSurvives

-----------------------------------------------------------------------------
(* The pin file, if there is one task that pins or evicts: then nobody else    *)
(* writes it between a load and its save, whatever other requests do meanwhile.*)

PinKinds == {"RemovePeer", "Collide", "Pin", "Enroll"}

MayPin(t) == \/ t \in Client /\ \E r \in Requests : r.kind \in PinKinds
             \/ t \in Background /\ Events # {}

OnePinner == \A t, u \in Task : MayPin(t) /\ MayPin(u) => t = u

PinsSurvive == AckedPinSurvives /\ ("pins" \notin Faults => EvictedIsUnpinned)

(* What a task has loaded is what the file holds; the key of an eviction is no *)
(* longer among the pinned and, once that is done, not in the file; the key of *)
(* an enrollment is in the file before it is admitted.                         *)
PinHolds(t) ==
  LET r == req[t] IN
  /\ pc[t] \in {"pinSave", "unpinSave"} => copy[t] = pins
  /\ pc[t] \in {"revoke", "unpinLoad", "unpinSave"} => r.key \notin pinned
  /\ pc[t] = "admit" /\ r.kind = "Enroll" => r.key \in pins
  /\ "pins" \notin Faults /\ pc[t] \in PersistSteps /\ r.kind = "RemovePeer" => r.key \notin pins

PinInv ==
  /\ PinsSurvive
  /\ \A t \in Task : PinHolds(t) /\ (req[t].kind \in PinKinds => MayPin(t))

(* One task moves on or finishes.                                              *)
Turns(t) ==
  /\ req'[t] \in {req[t], NoRequest}
  /\ \A u \in Task \ {t} : pc'[u] = pc[u] /\ req'[u] = req[u] /\ copy'[u] = copy[u]

LEMMA StepTurns == ASSUME TypeOK, NEW t \in Task, Step(t) PROVE Turns(t)
<1> USE DEF TypeOK, TasksOK, Turns
<1>1. CASE Goto(t, "idle") \/ Finish(t) \/ \E step \in Steps : Goto(t, step)
  BY <1>1 DEF Goto, Finish
<1>2. CASE Register(t) \/ Grant(t) \/ Ungrant(t) \/ Retire(t) \/ Rebind(t) \/ Admit(t)
  BY <1>1, <1>2 DEF Register, Grant, Ungrant, Retire, Rebind, Admit, Steps
<1>3. CASE Connect(t) \/ Save(t) \/ SaveFails(t)
  BY <1>1, <1>3 DEF Connect, Save, SaveFails
<1>4. CASE Evict(t) \/ Revoke(t) \/ UnpinSave(t) \/ PinSave(t)
  BY <1>1, <1>4 DEF Evict, Revoke, UnpinSave, PinSave, Steps
<1>5. CASE UnpinLoad(t) \/ PinLoad(t)
  BY <1>5 DEF UnpinLoad, PinLoad, LoadPins
<1>6. CASE SnapGrants(t) \/ SnapServices(t) \/ SnapBinds(t)
  BY <1>6 DEF SnapGrants, SnapServices, SnapBinds, Snap
<1> QED BY <1>2, <1>3, <1>4, <1>5, <1>6 DEF Step

(* A pin that somebody else makes or drops is nothing to who does neither.     *)
LEMMA OthersHold ==
  ASSUME OnePinner, TypeOK, PinInv, NEW t \in Task,
         req[t].kind \in PinKinds \/ UNCHANGED <<pins, pinned>>,
         NEW u \in Task \ {t}, pc'[u] = pc[u], req'[u] = req[u], copy'[u] = copy[u]
  PROVE  PinHolds(u)'
<1>1. CASE UNCHANGED <<pins, pinned>>
  BY <1>1 DEF PinInv, PinHolds
<1>2. CASE req[t].kind \in PinKinds
  <2>1. req[u].kind \notin PinKinds
    BY <1>2 DEF PinInv, OnePinner
  <2>2. ServedAt(req[u], pc[u])
    BY DEF TypeOK, TasksOK
  <2>3. pc[u] \notin {"admit", "pinSave", "revoke", "unpinLoad", "unpinSave"}
    BY <2>1, <2>2 DEF ServedAt, OfPeer, PinKinds
  <2> QED BY <2>1, <2>3 DEF PinHolds, PinKinds
<1> QED BY <1>1, <1>2

LEMMA PinsTurn ==
  ASSUME OnePinner, TypeOK, PinInv, NEW t \in Task, Turns(t),
         req[t].kind \in PinKinds \/ UNCHANGED <<pins, pinned>>,
         PinsSurvive', PinHolds(t)'
  PROVE  PinInv'
<1>1. \A u \in Task \ {t} : PinHolds(u)' /\ req'[u] = req[u]
  BY OthersHold DEF Turns
<1>2. NoRequest.kind \notin PinKinds
  BY DEF NoRequest, PinKinds
<1> QED BY <1>1, <1>2 DEF PinInv, Turns

(* A step that changes no pin.                                                 *)
LEMMA PinsKept ==
  ASSUME OnePinner, TypeOK, PinInv, NEW t \in Task, Turns(t), UNCHANGED <<pins, pinned>>,
         evicted' \subseteq evicted, PinHolds(t)'
  PROVE  PinInv'
<1>1. PinsSurvive'
  BY DEF PinInv, PinsSurvive, AckedPinSurvives, EvictedIsUnpinned
<1> QED BY <1>1, PinsTurn

LEMMA PinsKeptIdle ==
  ASSUME OnePinner, TypeOK, PinInv, NEW t \in Task, Step(t), UNCHANGED <<pins, pinned>>,
         evicted' \subseteq evicted, Finish(t)
  PROVE  PinInv'
<1>1. pc'[t] = "idle"
  BY DEF Finish, TypeOK, TasksOK
<1>2. PinHolds(t)'
  BY <1>1 DEF PinHolds, PersistSteps
<1> QED BY <1>2, PinsKept, StepTurns

(* The steps that have nothing to do with pins.                                *)
LEMMA OtherPins ==
  ASSUME OnePinner, TypeOK, PinInv, NEW t \in Task,
         \/ Register(t) \/ Grant(t) \/ Ungrant(t) \/ Retire(t) \/ Rebind(t) \/ Connect(t)
         \/ SnapGrants(t) \/ SnapServices(t) \/ SnapBinds(t) \/ SaveFails(t)
  PROVE  PinInv'
<1> USE DEF At, memory, files, ledger
<1>0. ServedAt(req[t], pc[t]) /\ PersistSteps \subseteq Steps
  BY DEF TypeOK, TasksOK, PersistSteps, Steps
<1>t. Step(t) /\ Turns(t)
  BY StepTurns DEF Step
<1>1. CASE Connect(t) \/ SaveFails(t)
  BY <1>t, <1>1, PinsKeptIdle DEF Connect, SaveFails
<1>2. CASE Register(t) \/ Grant(t) \/ Ungrant(t) \/ Retire(t) \/ Rebind(t)
  <2>1. /\ UNCHANGED <<pins, pinned>> /\ evicted' \subseteq evicted /\ UNCHANGED req
        /\ \E step \in {"grant", "retire", "snapGrants"} : pc' = [pc EXCEPT ![t] = step]
    BY <1>2 DEF Register, Grant, Ungrant, Retire, Rebind, Goto
  <2>2. req[t].kind # "RemovePeer"
    BY <1>0, <1>2 DEF Register, Grant, Ungrant, Retire, Rebind, ServedAt, AcceptedExpose,
       AcceptedUnexpose, BindRequest
  <2>3. pc'[t] \in {"grant", "retire", "snapGrants"} /\ req'[t] = req[t]
    BY <2>1 DEF TypeOK, TasksOK
  <2>4. PinHolds(t)'
    BY <2>2, <2>3 DEF PinHolds, PersistSteps
  <2> QED BY <2>1, <2>4, <1>t, PinsKept
<1>3. CASE SnapGrants(t) \/ SnapServices(t) \/ SnapBinds(t)
  <2>1. /\ pc[t] \in PersistSteps /\ UNCHANGED <<pins, pinned, evicted, req>>
        /\ \E step \in {"snapServices", "snapBinds", "save"} : pc' = [pc EXCEPT ![t] = step]
    BY <1>3 DEF SnapGrants, SnapServices, SnapBinds, Snap, PersistSteps
  <2>2. pc'[t] \in {"snapServices", "snapBinds", "save"} /\ req'[t] = req[t]
    BY <2>1 DEF TypeOK, TasksOK
  <2>3. PinHolds(t)'
    BY <2>1, <2>2 DEF PinInv, PinHolds, PersistSteps
  <2> QED BY <2>1, <2>3, <1>t, PinsKept
<1> QED BY <1>1, <1>2, <1>3

(* An eviction, to the removal of the pin.                                     *)
LEMMA EvictPins ==
  ASSUME OnePinner, TypeOK, PinInv, NEW t \in Task,
         Evict(t) \/ Revoke(t) \/ UnpinLoad(t) \/ UnpinSave(t)
  PROVE  PinInv'
<1> USE DEF At, memory, files, ledger
<1>0. PinHolds(t) /\ PinsSurvive
  BY DEF PinInv
<1>t. Turns(t)
  BY StepTurns DEF Step
<1>k. req[t].kind \in PinKinds
  BY DEF TypeOK, TasksOK, ServedAt, OfPeer, PinKinds, Evict, Revoke, UnpinLoad, UnpinSave
<1>1. CASE Evict(t)
  <2>1. /\ UNCHANGED <<pins, evicted, req>> /\ pinned' = pinned \ {req[t].key}
        /\ pc' = [pc EXCEPT ![t] = "revoke"]
    BY <1>1 DEF Evict, Goto
  <2>2. pc'[t] = "revoke"
    BY <2>1 DEF TypeOK, TasksOK
  <2>3. PinHolds(t)'
    BY <2>1, <2>2 DEF PinHolds, PersistSteps
  <2>4. PinsSurvive'
    BY <1>0, <2>1 DEF PinsSurvive, AckedPinSurvives, EvictedIsUnpinned
  <2> QED BY <1>t, <1>k, <2>3, <2>4, PinsTurn
<1>2. CASE Revoke(t)
  <2>1. /\ UNCHANGED <<pins, pinned, evicted, req>> /\ pc[t] = "revoke"
        /\ pc' = [pc EXCEPT ![t] = "unpinLoad"]
    BY <1>2 DEF Revoke, Goto
  <2>2. pc'[t] = "unpinLoad"
    BY <2>1 DEF TypeOK, TasksOK
  <2>3. PinHolds(t)'
    BY <1>0, <2>1, <2>2 DEF PinHolds, PersistSteps
  <2> QED BY <2>1, <2>3, <1>t, PinsKept
<1>3. CASE UnpinLoad(t)
  <2>1. /\ UNCHANGED <<pins, pinned, evicted, req>> /\ pc[t] = "unpinLoad"
        /\ pc' = [pc EXCEPT ![t] = "unpinSave"] /\ copy' = [copy EXCEPT ![t] = pins]
    BY <1>3 DEF UnpinLoad, LoadPins
  <2>2. pc'[t] = "unpinSave" /\ copy'[t] = pins
    BY <2>1 DEF TypeOK, TasksOK
  <2>3. PinHolds(t)'
    BY <1>0, <2>1, <2>2 DEF PinHolds, PersistSteps
  <2> QED BY <2>1, <2>3, <1>t, PinsKept
<1>4. CASE UnpinSave(t)
  <2>1. /\ pc[t] = "unpinSave" /\ UNCHANGED pinned
        /\ pins' = copy[t] \ {req[t].key} \/ ("pins" \in Faults /\ pins' = pins)
        /\ \/ Goto(t, "snapGrants") /\ UNCHANGED evicted
           \/ Finish(t) /\ evicted' = evicted \cup {req[t].key}
    BY <1>4 DEF UnpinSave
  <2>2. copy[t] = pins /\ req[t].key \notin pinned
    BY <1>0, <2>1 DEF PinHolds
  <2>3. PinsSurvive'
    BY <1>0, <2>1, <2>2 DEF PinsSurvive, AckedPinSurvives, EvictedIsUnpinned
  <2>4. \/ pc'[t] = "snapGrants" /\ req'[t] = req[t]
        \/ pc'[t] = "idle"
    BY <2>1 DEF Goto, Finish, TypeOK, TasksOK
  <2>5. PinHolds(t)'
    BY <2>1, <2>4 DEF PinHolds, PersistSteps
  <2> QED BY <1>t, <1>k, <2>3, <2>5, PinsTurn
<1> QED BY <1>1, <1>2, <1>3, <1>4

(* A pin, and the acknowledgement of a removal.                                *)
LEMMA PinPins ==
  ASSUME OnePinner, TypeOK, PinInv, NEW t \in Task,
         Admit(t) \/ PinLoad(t) \/ PinSave(t) \/ Save(t)
  PROVE  PinInv'
<1> USE DEF At, memory, files, ledger
<1>0. PinHolds(t) /\ PinsSurvive /\ ServedAt(req[t], pc[t])
  BY DEF PinInv, TypeOK, TasksOK
<1>t. Turns(t)
  BY StepTurns DEF Step
<1>k. pc[t] \in {"admit", "pinLoad", "pinSave"} => req[t].kind \in PinKinds
  BY <1>0 DEF ServedAt, OfPeer, PinKinds
<1>1. CASE Admit(t)
  <2>1. /\ pc[t] = "admit" /\ UNCHANGED <<pins, evicted>>
        /\ \/ Goto(t, "pinLoad") /\ UNCHANGED pinned
           \/ Finish(t) /\ req[t].kind # "Pin" /\ pinned' = pinned \cup {req[t].key}
    BY <1>1 DEF Admit
  <2>2. req[t].kind \in {"Pin", "Enroll"}
    BY <1>0, <2>1 DEF ServedAt, OfPeer
  <2>3. PinsSurvive'
    BY <1>0, <2>1, <2>2 DEF PinHolds, PinsSurvive, AckedPinSurvives, EvictedIsUnpinned
  <2>4. pc'[t] \in {"pinLoad", "idle"}
    BY <2>1 DEF Goto, Finish, TypeOK, TasksOK
  <2>5. PinHolds(t)'
    BY <2>4 DEF PinHolds, PersistSteps
  <2> QED BY <1>t, <1>k, <2>1, <2>3, <2>5, PinsTurn
<1>2. CASE PinLoad(t)
  <2>1. /\ UNCHANGED <<pins, pinned, evicted, req>>
        /\ pc' = [pc EXCEPT ![t] = "pinSave"] /\ copy' = [copy EXCEPT ![t] = pins]
    BY <1>2 DEF PinLoad, LoadPins
  <2>2. pc'[t] = "pinSave" /\ copy'[t] = pins
    BY <2>1 DEF TypeOK, TasksOK
  <2>3. PinHolds(t)'
    BY <2>1, <2>2 DEF PinHolds, PersistSteps
  <2> QED BY <2>1, <2>3, <1>t, PinsKept
<1>3. CASE PinSave(t)
  <2>1. /\ pc[t] = "pinSave" /\ evicted' = evicted \ {req[t].key}
        /\ \/ /\ pins' = copy[t] \cup {req[t].key}
              /\ \/ Finish(t) /\ pinned' = pinned \cup {req[t].key}
                 \/ Goto(t, "admit") /\ UNCHANGED pinned
           \/ Finish(t) /\ UNCHANGED <<pins, pinned>>
    BY <1>3 DEF PinSave
  <2>2. copy[t] = pins
    BY <1>0, <2>1 DEF PinHolds
  <2>3. PinsSurvive'
    BY <1>0, <2>1, <2>2 DEF PinsSurvive, AckedPinSurvives, EvictedIsUnpinned
  <2>4. \/ pc'[t] = "admit" /\ req'[t] = req[t] /\ req[t].key \in pins'
        \/ pc'[t] = "idle"
    BY <2>1 DEF Goto, Finish, TypeOK, TasksOK
  <2>5. PinHolds(t)'
    BY <2>4 DEF PinHolds, PersistSteps
  <2> QED BY <1>t, <1>k, <2>1, <2>3, <2>5, PinsTurn
<1>4. CASE Save(t)
  <2>1. /\ pc[t] \in PersistSteps /\ UNCHANGED <<pins, pinned>> /\ Finish(t)
        /\ evicted' = IF req[t].kind = "RemovePeer" THEN evicted \cup {req[t].key} ELSE evicted
    BY <1>4 DEF Save, Acknowledge, PersistSteps
  <2>2. PinsSurvive'
    BY <1>0, <2>1 DEF PinHolds, PinsSurvive, AckedPinSurvives, EvictedIsUnpinned
  <2>3. pc'[t] = "idle"
    BY <2>1 DEF Finish, TypeOK, TasksOK
  <2>4. PinHolds(t)'
    BY <2>3 DEF PinHolds, PersistSteps
  <2> QED BY <1>t, <2>1, <2>2, <2>4, PinsTurn
<1> QED BY <1>1, <1>2, <1>3, <1>4

LEMMA PinNext == OnePinner /\ TypeOK /\ PinInv /\ [Next]_vars => PinInv'
<1> SUFFICES ASSUME OnePinner, TypeOK, PinInv, [Next]_vars PROVE PinInv'
  OBVIOUS
<1> USE DEF memory, files, ledger
<1>b. ASSUME NEW t \in Task, UNCHANGED <<pins, pinned, evicted>>, PinHolds(t)',
             req'[t].kind \in PinKinds => MayPin(t),
             \A u \in Task \ {t} : pc'[u] = pc[u] /\ req'[u] = req[u] /\ copy'[u] = copy[u]
      PROVE  PinInv'
  <2>1. \A u \in Task \ {t} : PinHolds(u)'
    BY <1>b, OthersHold
  <2>2. PinsSurvive'
    BY <1>b DEF PinInv, PinsSurvive, AckedPinSurvives, EvictedIsUnpinned
  <2> QED BY <1>b, <2>1, <2>2 DEF PinInv
<1>1. ASSUME NEW t \in Task, Step(t) PROVE PinInv'
  BY <1>1, OtherPins, EvictPins, PinPins DEF Step
<1>2. ASSUME NEW t \in Client, NEW r \in Requests, Receive(t, r) PROVE PinInv'
  <2>1. t \in Task /\ r \in Request
    BY RequestsAssumption DEF Task
  <2>2. UNCHANGED <<pins, pinned, evicted>> /\ pc' = [pc EXCEPT ![t] = FirstStep(r)]
    BY <1>2 DEF Receive
  <2>3. /\ FirstStep(r) \in {"grant", "register", "ungrant", "rebind", "evict", "admit", "connect"}
        /\ FirstStep(r) = "admit" => r.kind = "Pin"
    BY <2>1 DEF Request, ExposeRequest, UnexposeRequest, BindRequest, PeerRequest, FirstStep
  <2>4. pc'[t] = FirstStep(r) /\ (r.kind = "Pin" => req'[t] = r)
    BY <1>2, <2>1, <2>2 DEF Receive, TypeOK, TasksOK
  <2>5. PinHolds(t)'
    BY <2>3, <2>4 DEF PinHolds, PersistSteps
  <2>6. req'[t].kind = r.kind
    BY <1>2, <2>1 DEF Receive, TypeOK, TasksOK, Request, ExposeRequest
  <2>7. req'[t].kind \in PinKinds => MayPin(t)
    BY <2>6 DEF MayPin
  <2>8. \A u \in Task \ {t} : pc'[u] = pc[u] /\ req'[u] = req[u] /\ copy'[u] = copy[u]
    BY <1>2, <2>1 DEF Receive, TypeOK, TasksOK
  <2> QED BY <1>b, <2>1, <2>2, <2>5, <2>7, <2>8
<1>3. ASSUME NEW t \in Background, NEW e \in Events, Happen(t, e) PROVE PinInv'
  <2>1. t \in Task /\ FirstStep(e) \in {"evict", "pinLoad"}
    BY RequestsAssumption DEF Task, Event, FirstStep
  <2>2. UNCHANGED <<pins, pinned, evicted>> /\ pc'[t] = FirstStep(e)
    BY <1>3, <2>1 DEF Happen, TypeOK, TasksOK
  <2>3. PinHolds(t)'
    BY <2>1, <2>2 DEF PinHolds, PersistSteps
  <2>4. MayPin(t)
    BY <1>3 DEF MayPin
  <2>5. \A u \in Task \ {t} : pc'[u] = pc[u] /\ req'[u] = req[u] /\ copy'[u] = copy[u]
    BY <1>3, <2>1 DEF Happen, TypeOK, TasksOK
  <2> QED BY <1>b, <2>1, <2>2, <2>3, <2>4, <2>5
<1>4. CASE Crash
  <2>1. /\ UNCHANGED <<pins, pinned, evicted>>
        /\ \A t \in Task : pc'[t] = "idle" /\ req'[t] = NoRequest
    BY <1>4 DEF Crash
  <2>2. NoRequest.kind \notin PinKinds
    BY DEF NoRequest, PinKinds
  <2> QED BY <2>1, <2>2 DEF PinInv, PinHolds, PersistSteps, PinsSurvive, AckedPinSurvives,
             EvictedIsUnpinned
<1>5. ASSUME NEW o \in Overlays, Start(o) PROVE PinInv'
  <2>1. UNCHANGED <<pins, pinned, pc, req, copy>> /\ evicted' \subseteq evicted
    BY <1>5 DEF Start, local
  <2> QED BY <2>1 DEF PinInv, PinHolds, PinsSurvive, AckedPinSurvives, EvictedIsUnpinned
<1>6. CASE UNCHANGED vars
  BY <1>6 DEF vars, local, PinInv, PinHolds, PinsSurvive, AckedPinSurvives, EvictedIsUnpinned
<1> QED BY <1>1, <1>2, <1>3, <1>4, <1>5, <1>6 DEF Next

LEMMA PinInvariant == ASSUME OnePinner PROVE Spec => []PinInv
<1>1. Init => PinInv
  BY DEF Init, NoRequest, PinKinds, PinInv, PinHolds, PersistSteps, PinsSurvive, AckedPinSurvives, EvictedIsUnpinned
<1>2. TypeOK /\ PinInv /\ [Next]_vars => PinInv'
  BY PinNext
<1> QED BY <1>1, <1>2, Typing, PTL DEF Spec

(* If one task at a time pins or evicts, whatever others do: whoever was       *)
(* pinned, by request or by enrollment, is in the pin file until evicted,      *)
(* whatever writes fail and restarts happen.                                   *)
THEOREM PinSurvives == ASSUME OnePinner PROVE Spec => []AckedPinSurvives
BY PinInvariant, PTL DEF PinInv, PinsSurvive

(* Under the same assumption, and unless a write of the pin file fails, whose  *)
(* failure evict only logs: whoever was evicted is not in the file.            *)
THEOREM EvictionUnpins ==
  ASSUME OnePinner, "pins" \notin Faults PROVE Spec => []EvictedIsUnpinned
<1>1. PinInv => EvictedIsUnpinned
  BY DEF PinInv, PinsSurvive
<1> QED BY <1>1, PinInvariant, PTL

-----------------------------------------------------------------------------
(* What becomes of the grants of an evicted key, if control requests are       *)
(* served one at a time and all evictions are requests.                        *)

NoCollision == \A e \in Events : e.kind # "Collide"

(* No table, snapshot or file grants a port to who is gone.                    *)
GoneInv ==
  /\ EvictedIsUngranted
  /\ \A pair \in AllGrants(by_port) : pair[2] \notin evicted
  /\ \A t \in Task : /\ req[t].kind # "Collide"
                     /\ pc[t] \in {"snapServices", "snapBinds", "save"}
                          => \A pair \in snap[t].grants : pair[2] \notin evicted

LEMMA GoneStep ==
  ASSUME OneClient, TypeOK, AckedInv, GoneInv, NEW t \in Task, Step(t)
  PROVE  GoneInv'
<1> USE DEF At, memory, files, ledger
<1>0. /\ ServedAt(req[t], pc[t]) /\ by_port \in Table
      /\ ChangeHolds(t) /\ SnapHolds(t)
  BY DEF TypeOK, TasksOK, DataOK, AckedInv
<1>a. ASSUME UNCHANGED disk, evicted' \subseteq evicted,
             \A pair \in AllGrants(by_port') : pair[2] \notin evicted',
             UNCHANGED snap, UNCHANGED req, NEW step,
             step \notin {"snapServices", "snapBinds", "save"}, pc' = [pc EXCEPT ![t] = step]
      PROVE  GoneInv'
  <2>1. \A u \in Task : pc'[u] \in {"snapServices", "snapBinds", "save"} => pc'[u] = pc[u]
    BY <1>a DEF TypeOK, TasksOK
  <2> QED BY <1>a, <2>1 DEF GoneInv, EvictedIsUngranted
<1>b. ASSUME UNCHANGED <<disk, by_port>>, evicted' \subseteq evicted, Finish(t) PROVE GoneInv'
  <2>1. \A u \in Task : \/ pc'[u] = "idle" /\ req'[u] = NoRequest
                        \/ pc'[u] = pc[u] /\ req'[u] = req[u] /\ snap'[u] = snap[u]
    BY <1>b DEF Finish, TypeOK, TasksOK
  <2> QED BY <1>b, <2>1 DEF GoneInv, EvictedIsUngranted, NoRequest
<1>1. CASE Grant(t)
  <2>1. req[t] \in AcceptedExpose
    BY <1>0, <1>1 DEF Grant, ServedAt
  <2>2. AllGrants(by_port') = AllGrants(by_port) \cup {<<req[t].port, key>> : key \in req[t].to}
    BY <1>0, <1>1, <2>1, AddGrantsFacts DEF Grant, SetGrants, AcceptedExpose
  <2>3. evicted' = evicted \ req[t].to
    BY <1>1 DEF Grant
  <2>4. \A pair \in AllGrants(by_port') : pair[2] \notin evicted'
    BY <2>2, <2>3 DEF GoneInv
  <2> QED BY <1>1, <1>a, <2>3, <2>4 DEF Grant, Goto
<1>2. CASE Ungrant(t)
  <2> DEFINE table == IF req[t].key = None THEN RemovePort(by_port, req[t].port)
                      ELSE RemoveGrant(by_port, req[t].port, req[t].key)
  <2>1. req[t] \in AcceptedUnexpose
    BY <1>0, <1>2 DEF Ungrant, ServedAt
  <2>2. AllGrants(table) \subseteq AllGrants(by_port)
    BY <1>0, <2>1, RemovePortFacts, RemoveGrantFacts DEF AcceptedUnexpose
  <2>3. /\ by_port' = table /\ UNCHANGED <<disk, evicted, snap, req>>
        /\ pc' = [pc EXCEPT ![t] = "snapGrants"] \/ pc' = [pc EXCEPT ![t] = "retire"]
    BY <1>2 DEF Ungrant, SetGrants, Goto
  <2> HIDE DEF table
  <2>4. \A pair \in AllGrants(by_port') : pair[2] \notin evicted'
    BY <2>2, <2>3 DEF GoneInv
  <2> QED BY <1>a, <2>3, <2>4
<1>3. CASE Revoke(t)
  <2>1. req[t] \in OfPeer({"RemovePeer", "Collide"})
    BY <1>0, <1>3 DEF Revoke, ServedAt
  <2>2. AllGrants(by_port') \subseteq AllGrants(by_port)
    BY <1>0, <1>3, <2>1, RevokeGranteeFacts DEF Revoke, SetGrants, OfPeer
  <2> QED BY <1>3, <1>a, <2>2 DEF Revoke, Goto, GoneInv
<1>4. CASE Register(t) \/ Retire(t) \/ Rebind(t) \/ Evict(t)
  BY <1>4, <1>a DEF Register, Retire, Rebind, Evict, Goto, GoneInv
<1>5. CASE UnpinLoad(t) \/ PinLoad(t)
  BY <1>5, <1>a DEF UnpinLoad, PinLoad, LoadPins, GoneInv
<1>6. CASE Connect(t) \/ SaveFails(t)
  BY <1>6, <1>b DEF Connect, SaveFails
<1>7. CASE UnpinSave(t)
  <2>1. req[t].kind = "RemovePeer"
    BY <1>0, <1>7 DEF UnpinSave, ServedAt, OfPeer, GoneInv
  <2> QED BY <1>7, <1>a, <2>1 DEF UnpinSave, Goto, GoneInv
<1>8. CASE Admit(t) \/ PinSave(t)
  BY <1>8, <1>a, <1>b DEF Admit, PinSave, Goto, GoneInv
<1>9. CASE SnapGrants(t) \/ SnapServices(t) \/ SnapBinds(t)
  <2>1. UNCHANGED <<by_port, disk, evicted, req>>
    BY <1>9 DEF SnapGrants, SnapServices, SnapBinds, Snap
  <2>2. \A pair \in snap'[t].grants : pair[2] \notin evicted
    BY <1>9 DEF SnapGrants, SnapServices, SnapBinds, Snap, GoneInv, TypeOK, TasksOK, State
  <2>3. \A u \in Task : u # t => pc'[u] = pc[u] /\ snap'[u] = snap[u]
    BY <1>9 DEF SnapGrants, SnapServices, SnapBinds, Snap, TypeOK, TasksOK
  <2> QED BY <2>1, <2>2, <2>3 DEF GoneInv, EvictedIsUngranted
<1>10. CASE Save(t)
  <2>1. /\ pc[t] = "save" /\ disk' = snap[t] /\ UNCHANGED by_port /\ Finish(t)
        /\ evicted' = IF req[t].kind = "RemovePeer" THEN evicted \cup {req[t].key} ELSE evicted
        /\ req[t] \in Persisted
    BY <1>0, <1>10 DEF Save, Acknowledge, ServedAt, PersistSteps
  <2>2. t \in Client
    BY <2>1, ControlStepsAreClients DEF AckedInv, ControlSteps, PersistSteps
  <2>3. \A u \in Task : pc'[u] \notin {"snapServices", "snapBinds", "save"}
    <3>1. ASSUME NEW u \in Task PROVE pc'[u] \notin {"snapServices", "snapBinds", "save"}
      <4>1. CASE u = t
        BY <2>1, <4>1 DEF Finish, TypeOK, TasksOK
      <4>2. CASE u # t
        <5>1. pc[u] \notin ControlSteps
          BY <2>2, <4>2, Bystander DEF AckedInv
        <5>2. pc'[u] = pc[u]
          BY <2>1, <4>2 DEF Finish, TypeOK, TasksOK
        <5> QED BY <5>1, <5>2 DEF ControlSteps, PersistSteps
      <4> QED BY <4>1, <4>2
    <3> QED BY <3>1
  <2>4. \A u \in Task : req'[u].kind # "Collide"
    BY <2>1 DEF Finish, GoneInv, NoRequest, TypeOK, TasksOK
  <2>5. AllGrants(by_port) \subseteq snap[t].grants /\ snap[t].grants \subseteq Pair
    BY <1>0, <2>1 DEF SnapHolds, TypeOK, TasksOK, State
  <2>6. \A pair \in snap[t].grants : pair[2] \notin evicted'
    <3>1. CASE req[t].kind = "RemovePeer"
      <4>1. {pair \in Pair : pair[2] = req[t].key} \cap snap[t].grants = {}
        BY <1>0, <2>1, <3>1 DEF SnapHolds, Named
      <4> QED BY <2>1, <2>5, <3>1, <4>1 DEF GoneInv
    <3>2. CASE req[t].kind # "RemovePeer"
      BY <2>1, <3>2 DEF GoneInv
    <3> QED BY <3>1, <3>2
  <2> QED BY <2>1, <2>3, <2>4, <2>5, <2>6 DEF GoneInv, EvictedIsUngranted
<1> QED BY <1>1, <1>2, <1>3, <1>4, <1>5, <1>6, <1>7, <1>8, <1>9, <1>10 DEF Step

LEMMA GoneNext ==
  OneClient /\ NoCollision /\ TypeOK /\ AckedInv /\ GoneInv /\ [Next]_vars => GoneInv'
<1> SUFFICES ASSUME OneClient, NoCollision, TypeOK, AckedInv, GoneInv, [Next]_vars
             PROVE  GoneInv'
  OBVIOUS
<1> USE DEF memory, files, ledger
<1>a. ASSUME NEW t \in Task, NEW r, NEW step, r.kind # "Collide",
             step \notin {"snapServices", "snapBinds", "save"},
             UNCHANGED <<by_port, disk, evicted, snap>>,
             pc' = [pc EXCEPT ![t] = step], req' = [req EXCEPT ![t] = r]
      PROVE  GoneInv'
  <2>1. \A u \in Task : \/ pc'[u] = step /\ req'[u] = r
                        \/ pc'[u] = pc[u] /\ req'[u] = req[u]
    BY <1>a DEF TypeOK, TasksOK
  <2> QED BY <1>a, <2>1 DEF GoneInv, EvictedIsUngranted
<1>1. ASSUME NEW t \in Client, NEW r \in Requests, Receive(t, r) PROVE GoneInv'
  <2> DEFINE resolved == IF r.kind = "Expose" THEN [r EXCEPT !.to = ExposedTo(r)] ELSE r
  <2>1. t \in Task /\ r \in Request
    BY RequestsAssumption DEF Task
  <2>2. FirstStep(r) \notin {"snapServices", "snapBinds", "save"} /\ resolved.kind # "Collide"
    BY <2>1 DEF Request, ExposeRequest, UnexposeRequest, BindRequest, PeerRequest, FirstStep
  <2>3. /\ UNCHANGED <<by_port, disk, evicted, snap>>
        /\ pc' = [pc EXCEPT ![t] = FirstStep(r)] /\ req' = [req EXCEPT ![t] = resolved]
    BY <1>1 DEF Receive
  <2> HIDE DEF resolved
  <2> QED BY <1>a, <2>1, <2>2, <2>3
<1>2. ASSUME NEW t \in Background, NEW e \in Events, Happen(t, e) PROVE GoneInv'
  <2>1. t \in Task /\ e.kind # "Collide" /\ FirstStep(e) \in {"evict", "pinLoad"}
    BY RequestsAssumption DEF Task, Event, FirstStep, NoCollision
  <2> QED BY <1>2, <1>a, <2>1 DEF Happen
<1>3. CASE Crash
  BY <1>3, NoGrantsFacts DEF Crash, GoneInv, EvictedIsUngranted, NoRequest
<1>4. ASSUME NEW o \in Overlays, Start(o) PROVE GoneInv'
  <2> DEFINE served == Over(o.services, disk.services)
             given  == (o.ports \cup {port \in Port : served[port] # None}) \X o.to
  <2>1. given \subseteq Pair /\ disk.grants \subseteq Pair
    BY OverlaysAssumption DEF Overlay, Pair, TypeOK, DataOK, State
  <2>2. /\ by_port' = FromRows(disk.grants \cup given) /\ evicted' = evicted \ o.to
        /\ UNCHANGED <<disk, snap, req, pc>>
    BY <1>4 DEF Start, local
  <2>3. \A pair \in given : pair[2] \in o.to
    OBVIOUS
  <2> HIDE DEF given
  <2>4. AllGrants(by_port') = disk.grants \cup given
    BY <2>1, <2>2, FromRowsFacts
  <2> QED BY <2>2, <2>3, <2>4 DEF GoneInv, EvictedIsUngranted
<1>5. CASE UNCHANGED vars
  BY <1>5 DEF vars, local, GoneInv, EvictedIsUngranted
<1> QED BY <1>1, <1>2, <1>3, <1>4, <1>5, GoneStep DEF Next

(* With control requests served one at a time, peers enrolling meanwhile, and  *)
(* no evictions but by request: the file grants nothing to an evicted key.     *)
THEOREM EvictionUngrants ==
  ASSUME OneClient, NoCollision PROVE Spec => []EvictedIsUngranted
<1>1. Init => GoneInv
  BY NoGrantsFacts DEF Init, GoneInv, EvictedIsUngranted, NoRequest
<1>2. TypeOK /\ AckedInv /\ GoneInv /\ [Next]_vars => GoneInv'
  BY GoneNext
<1>3. GoneInv => EvictedIsUngranted
  BY DEF GoneInv
<1> QED BY <1>1, <1>2, <1>3, Typing, AckedInvariant, PTL DEF Spec
-----------------------------------------------------------------------------
(* What a request may change, and the lock that evictions hold, with any       *)
(* number of tasks.                                                            *)

(* Only who evicts a peer has the bind lock, from the first step of evict to   *)
(* the last, whatever fails on the way.                                        *)
BindLockHeld == \A t \in Task : bind_lock = t <=> pc[t] \in {"revoke", "unpinLoad", "unpinSave"}

LEMMA LockStep ==
  ASSUME TypeOK, BindLockHeld, NEW t \in Task, Step(t)
  PROVE  BindLockHeld'
<1> USE NoneAssumption DEF BindLockHeld, At
<1>1. pc \in [Task -> Steps]
  BY DEF TypeOK, TasksOK
<1>2. ASSUME UNCHANGED bind_lock, pc[t] \notin {"revoke", "unpinLoad", "unpinSave"},
             NEW step \in Steps \ {"revoke", "unpinLoad", "unpinSave"},
             pc' = [pc EXCEPT ![t] = step]
      PROVE  BindLockHeld'
  BY <1>1, <1>2
<1>3. CASE Register(t) \/ Grant(t) \/ Ungrant(t) \/ Retire(t) \/ Rebind(t) \/ Admit(t)
  BY <1>2, <1>3 DEF Register, Grant, Ungrant, Retire, Rebind, Admit, Goto, Finish, Steps
<1>4. CASE Connect(t) \/ PinLoad(t) \/ PinSave(t)
  BY <1>2, <1>4 DEF Connect, PinLoad, PinSave, LoadPins, Goto, Finish, Steps
<1>5. CASE SnapGrants(t) \/ SnapServices(t) \/ SnapBinds(t) \/ Save(t) \/ SaveFails(t)
  BY <1>2, <1>5 DEF SnapGrants, SnapServices, SnapBinds, Save, SaveFails, Snap, Finish, Steps
<1>6. CASE Evict(t)
  BY <1>1, <1>6 DEF Evict, Goto
<1>7. CASE Revoke(t)
  BY <1>1, <1>7 DEF Revoke, Goto
<1>8. CASE UnpinLoad(t)
  BY <1>1, <1>8 DEF UnpinLoad, LoadPins
<1>9. CASE UnpinSave(t)
  <2>1. /\ bind_lock = t /\ bind_lock' = None
        /\ pc' = [pc EXCEPT ![t] = "snapGrants"] \/ pc' = [pc EXCEPT ![t] = "idle"]
    BY <1>9 DEF UnpinSave, Goto, Finish
  <2> QED BY <1>1, <2>1
<1> QED BY <1>3, <1>4, <1>5, <1>6, <1>7, <1>8, <1>9 DEF Step

(* A request, or an event, begins where no lock is held.                       *)
LEMMA FirstSteps ==
  /\ \A r \in Request : FirstStep(r) \in {"grant", "register", "ungrant", "rebind", "evict",
                                          "admit", "connect"}
  /\ \A e \in Event : FirstStep(e) \in {"evict", "pinLoad"}
BY DEF Request, ExposeRequest, UnexposeRequest, BindRequest, PeerRequest, Event, FirstStep

(* The bind lock is never left behind: whoever holds it is in the middle of an *)
(* eviction, and there is one such at a time.                                  *)
THEOREM LockIsForEviction == Spec => []BindLockHeld
<1>1. Init => BindLockHeld
  BY NoneAssumption DEF Init, BindLockHeld
<1>2. ASSUME TypeOK, BindLockHeld, [Next]_vars PROVE BindLockHeld'
  <2>1. ASSUME NEW t \in Client, NEW r \in Requests, Receive(t, r) PROVE BindLockHeld'
    <3>1. t \in Task /\ FirstStep(r) \notin {"revoke", "unpinLoad", "unpinSave"}
      BY FirstSteps, RequestsAssumption DEF Task
    <3> QED BY <1>2, <2>1, <3>1 DEF Receive, At, BindLockHeld, TypeOK, TasksOK
  <2>2. ASSUME NEW t \in Background, NEW e \in Events, Happen(t, e) PROVE BindLockHeld'
    <3>1. t \in Task /\ FirstStep(e) \notin {"revoke", "unpinLoad", "unpinSave"}
      BY FirstSteps, RequestsAssumption DEF Task
    <3> QED BY <1>2, <2>2, <3>1 DEF Happen, At, BindLockHeld, TypeOK, TasksOK
  <2>3. CASE Crash
    BY <2>3, NoneAssumption DEF Crash, BindLockHeld
  <2>4. ASSUME NEW o \in Overlays, Start(o) PROVE BindLockHeld'
    BY <1>2, <2>4 DEF Start, local, BindLockHeld
  <2>5. CASE UNCHANGED vars
    BY <1>2, <2>5 DEF vars, local, BindLockHeld
  <2> QED BY <1>2, <2>1, <2>2, <2>3, <2>4, <2>5, LockStep DEF Next
<1> QED BY <1>1, <1>2, Typing, PTL DEF Spec

(* What a step may change is what the request that takes it names.             *)
LEMMA StepAsNamed ==
  ASSUME TypeOK, NEW t \in Task, Step(t)
  PROVE  /\ \A pair \in AllGrants(by_port') \ AllGrants(by_port) :
              req[t].kind = "Expose" /\ pair \in Named(req[t])
         /\ \A pair \in AllGrants(by_port) \ AllGrants(by_port') :
              req[t].kind # "Expose" /\ pair \in Named(req[t])
         /\ \A port \in Port :
              /\ services'[port] # services[port] =>
                   req[t].kind \in {"Expose", "Unexpose"} /\ req[t].port = port
              /\ binds'[port] # binds[port] => req[t].kind = "Bind" /\ req[t].port = port
<1> DEFINE r == req[t]
<1> USE DEF memory
<1>0. ServedAt(r, pc[t]) /\ by_port \in Table /\ services \in Backends /\ binds \in Remaps
  BY DEF TypeOK, TasksOK, DataOK
<1>1. CASE Register(t)
  <2>1. r \in AcceptedExpose
    BY <1>0, <1>1 DEF Register, At, ServedAt
  <2> QED BY <1>0, <1>1, <2>1 DEF Register, AcceptedExpose, Backends
<1>2. CASE Grant(t)
  <2>1. r \in AcceptedExpose
    BY <1>0, <1>2 DEF Grant, At, ServedAt
  <2>2. /\ AllGrants(by_port') = AllGrants(by_port) \cup {<<r.port, key>> : key \in r.to}
        /\ UNCHANGED <<services, binds>>
    BY <1>0, <1>2, <2>1, AddGrantsFacts DEF Grant, SetGrants, AcceptedExpose
  <2> QED BY <2>1, <2>2 DEF AcceptedExpose, Named
<1>3. CASE Ungrant(t)
  <2>1. r \in AcceptedUnexpose
    BY <1>0, <1>3 DEF Ungrant, At, ServedAt
  <2>2. UNCHANGED <<services, binds>>
    BY <1>3 DEF Ungrant
  <2>3. CASE r.key = None
    <3>1. AllGrants(by_port') = {pair \in AllGrants(by_port) : pair[1] # r.port}
      BY <1>0, <1>3, <2>1, <2>3, RemovePortFacts DEF Ungrant, SetGrants, AcceptedUnexpose
    <3> QED BY <2>1, <2>2, <2>3, <3>1, PairsOf DEF AcceptedUnexpose, Named, Pair
  <2>4. CASE r.key # None
    <3>1. r.key \in Key
      BY <2>1, <2>4 DEF AcceptedUnexpose
    <3>2. AllGrants(by_port') = AllGrants(by_port) \ {<<r.port, r.key>>}
      BY <1>0, <1>3, <2>1, <2>4, <3>1, RemoveGrantFacts DEF Ungrant, SetGrants, AcceptedUnexpose
    <3> QED BY <2>1, <2>2, <3>1, <3>2, PairsOf DEF AcceptedUnexpose, Named, Pair
  <2> QED BY <2>3, <2>4
<1>4. CASE Retire(t)
  <2>1. r \in AcceptedUnexpose
    BY <1>0, <1>4 DEF Retire, At, ServedAt
  <2> QED BY <1>0, <1>4, <2>1 DEF Retire, AcceptedUnexpose, Backends
<1>5. CASE Rebind(t)
  <2>1. r \in BindRequest
    BY <1>0, <1>5 DEF Rebind, At, ServedAt
  <2> QED BY <1>0, <1>5, <2>1 DEF Rebind, BindRequest, Remaps
<1>6. CASE Revoke(t)
  <2>1. r \in OfPeer({"RemovePeer", "Collide"})
    BY <1>0, <1>6 DEF Revoke, At, ServedAt
  <2>2. /\ AllGrants(by_port') = {pair \in AllGrants(by_port) : pair[2] # r.key}
        /\ UNCHANGED <<services, binds>>
    BY <1>0, <1>6, <2>1, RevokeGranteeFacts DEF Revoke, SetGrants, OfPeer
  <2> QED BY <2>1, <2>2, PairsOf DEF OfPeer, Named, Pair
<1>7. CASE UNCHANGED <<by_port, services, binds>>
  BY <1>7
<1> QED
  BY <1>1, <1>2, <1>3, <1>4, <1>5, <1>6, <1>7
     DEF Step, Connect, Evict, UnpinLoad, UnpinSave, Admit, PinLoad, PinSave, LoadPins,
         SnapGrants, SnapServices, SnapBinds, Snap, Save, SaveFails

(* With any number of clients and peers at once, whatever they change of what  *)
(* the others granted, declared or remapped was named to be changed.           *)
THEOREM ChangesAreNamed == Spec => OnlyAsNamed
<1> DEFINE Changes ==
      up /\ up' =>
        /\ \A pair \in AllGrants(by_port') \ AllGrants(by_port) :
             \E t \in Task : req[t].kind = "Expose" /\ pair \in Named(req[t])
        /\ \A pair \in AllGrants(by_port) \ AllGrants(by_port') :
             \E t \in Task : req[t].kind # "Expose" /\ pair \in Named(req[t])
        /\ \A port \in Port :
             /\ services'[port] # services[port] =>
                  \/ \E t \in Task : req[t].kind \in {"Expose", "Unexpose"} /\ req[t].port = port
                  \/ /\ services'[port] = None /\ port \notin GrantedPorts(by_port')
                     /\ \E t \in Task : req[t].kind \in {"RemovePeer", "Collide"}
             /\ binds'[port] # binds[port] =>
                  \E t \in Task : req[t].kind = "Bind" /\ req[t].port = port
<1>1. ASSUME TypeOK, Next PROVE Changes
  <2>1. ASSUME NEW t \in Task, Step(t) PROVE Changes
    BY <1>1, <2>1, StepAsNamed
  <2>2. CASE UNCHANGED <<by_port, services, binds>>
    BY <2>2
  <2>3. CASE Crash \/ \E o \in Overlays : Start(o)
    BY <2>3 DEF Crash, Start
  <2> QED BY <1>1, <2>1, <2>2, <2>3 DEF Next, Receive, Happen, memory
<1>2. TypeOK /\ [Next]_vars => [Changes]_vars
  BY <1>1
<1> QED BY <1>2, Typing, PTL DEF Spec, OnlyAsNamed
-----------------------------------------------------------------------------
(* When a service outlives its last grantee: not if control requests are       *)
(* served one at a time and nobody is evicted, however writes fail and daemons *)
(* stop in between.                                                            *)

NoEviction == /\ \A r \in Requests : r.kind # "RemovePeer"
              /\ \A e \in Events : e.kind # "Collide"

(* A service file may claim the port, whoever it is granted to.                *)
Claimed(port) == \E o \in Overlays : o.services[port] # None

(* Every backend is for a port that is granted or claimed.                     *)
Served(backends, pairs) ==
  \A port \in Port :
    backends[port] # None => Claimed(port) \/ \E key \in Key : <<port, key>> \in pairs

(* In memory, a request may have declared a backend that it is going to grant, *)
(* or have taken the last grantee of one that it is going to retire.  What has *)
(* been collected of the state is what memory holds.                           *)
ServiceInv ==
  /\ \A port \in Port :
       services[port] # None =>
         \/ Claimed(port) \/ \E key \in Key : <<port, key>> \in AllGrants(by_port)
         \/ \E t \in Task : pc[t] \in {"grant", "retire"} /\ req[t].port = port
  /\ Served(disk.services, disk.grants)
  /\ \A t \in Task :
       /\ req[t].kind = "Expose" => req[t].to # {}
       /\ req[t].kind \notin {"RemovePeer", "Collide"}
       /\ pc[t] \in {"snapServices", "snapBinds", "save"} => snap[t].grants = AllGrants(by_port)
       /\ pc[t] \in {"snapBinds", "save"} => snap[t].services = services

(* The steps of a request in progress leave no other half-way.                 *)
LEMMA ServiceStep ==
  ASSUME OneClient, TypeOK, AckedInv, ServiceInv, NEW t \in Task, Step(t)
  PROVE  ServiceInv'
<1> DEFINE r == req[t]
<1> USE DEF At, memory, files, ledger
<1>0. /\ ServedAt(r, pc[t]) /\ by_port \in Table /\ services \in Backends
      /\ pc \in [Task -> Steps] /\ req[t] = r /\ ClientsServe
  BY DEF TypeOK, TasksOK, DataOK, AckedInv
<1>a. ASSUME pc[t] \in ControlSteps, NEW u \in Task, u # t PROVE pc[u] \notin ControlSteps
  BY <1>0, <1>a, ControlStepsAreClients, Bystander
(* A client's request goes on: nobody else is in the middle of one.            *)
<1>b. ASSUME pc[t] \in ControlSteps, UNCHANGED <<disk, req, snap>>,
             NEW step \in ControlSteps, pc' = [pc EXCEPT ![t] = step],
             \A port \in Port :
               services'[port] # None =>
                 \/ Claimed(port) \/ \E key \in Key : <<port, key>> \in AllGrants(by_port')
                 \/ step \in {"grant", "retire"} /\ r.port = port,
             step \notin {"snapServices", "snapBinds", "save"}
      PROVE  ServiceInv'
  <2>1. \A u \in Task : pc'[u] = IF u = t THEN step ELSE pc[u]
    BY <1>0, <1>b
  <2>2. \A u \in Task : pc'[u] \notin {"snapServices", "snapBinds", "save"}
    BY <1>a, <1>b, <2>1 DEF ControlSteps, PersistSteps
  <2> QED BY <1>b, <2>1, <2>2 DEF ServiceInv, Served, Claimed
(* A step that has no part in this.                                            *)
<1>c. ASSUME UNCHANGED <<by_port, services, disk, req, snap>>, NEW step,
             pc' = [pc EXCEPT ![t] = step], pc[t] \notin {"grant", "retire"},
             step \notin {"snapServices", "snapBinds", "save"}
      PROVE  ServiceInv'
  <2>1. \A u \in Task : pc'[u] = IF u = t THEN step ELSE pc[u]
    BY <1>0, <1>c
  <2> QED BY <1>c, <2>1 DEF ServiceInv, Served, Claimed
<1>d. ASSUME UNCHANGED <<by_port, services>>, Finish(t), pc[t] \notin {"grant", "retire"},
             Served(disk'.services, disk'.grants)
      PROVE  ServiceInv'
  <2>1. \A u \in Task : \/ u = t /\ pc'[u] = "idle" /\ req'[u] = NoRequest
                        \/ u # t /\ pc'[u] = pc[u] /\ req'[u] = req[u] /\ snap'[u] = snap[u]
    BY <1>0, <1>d DEF Finish, TypeOK, TasksOK
  <2>2. \A u \in Task : pc[u] \in {"grant", "retire"} => pc'[u] = pc[u] /\ req'[u] = req[u]
    BY <1>d, <2>1
  <2>3. \A u \in Task : pc'[u] # "idle" => pc'[u] = pc[u] /\ req'[u] = req[u] /\ snap'[u] = snap[u]
    BY <2>1
  <2>4. \A u \in Task : req'[u] = req[u] \/ req'[u].kind = "None"
    BY <2>1 DEF NoRequest
  <2> QED BY <1>d, <2>2, <2>3, <2>4 DEF ServiceInv, Claimed
<1>1. CASE Register(t)
  <2>1. r \in AcceptedExpose
    BY <1>0, <1>1 DEF Register, ServedAt
  <2>2. /\ \A port \in Port : port # r.port => services'[port] = services[port]
        /\ UNCHANGED <<by_port, disk, req, snap>> /\ pc' = [pc EXCEPT ![t] = "grant"]
    BY <1>0, <1>1, <2>1 DEF Register, Goto, Backends
  <2>3. \A u \in Task : pc[u] \notin {"grant", "retire"}
    BY <1>1, <1>a DEF Register, ControlSteps
  <2> QED BY <1>1, <1>b, <2>2, <2>3 DEF Register, ControlSteps, ServiceInv, PersistSteps
<1>2. CASE Grant(t)
  <2>1. r \in AcceptedExpose /\ r.to # {}
    BY <1>0, <1>2 DEF Grant, ServedAt, ServiceInv, AcceptedExpose
  <2>2. /\ AllGrants(by_port') = AllGrants(by_port) \cup {<<r.port, key>> : key \in r.to}
        /\ UNCHANGED <<services, disk, req, snap>> /\ pc' = [pc EXCEPT ![t] = "snapGrants"]
    BY <1>0, <1>2, <2>1, AddGrantsFacts DEF Grant, Goto, SetGrants, AcceptedExpose
  <2>3. \A u \in Task \ {t} : pc[u] \notin {"grant", "retire"}
    BY <1>2, <1>a DEF Grant, ControlSteps
  <2>4. \E key \in Key : <<r.port, key>> \in AllGrants(by_port')
    BY <2>1, <2>2 DEF AcceptedExpose
  <2>5. \A port \in Port :
          services'[port] # None =>
            Claimed(port) \/ \E key \in Key : <<port, key>> \in AllGrants(by_port')
    BY <2>2, <2>3, <2>4 DEF ServiceInv
  <2> QED BY <1>2, <1>b, <2>2, <2>5 DEF Grant, ControlSteps, PersistSteps
<1>3. CASE Ungrant(t)
  <2> DEFINE table == IF r.key = None THEN RemovePort(by_port, r.port)
                      ELSE RemoveGrant(by_port, r.port, r.key)
             step == IF r.port \in GrantedPorts(table) THEN "snapGrants" ELSE "retire"
  <2>1. r \in AcceptedUnexpose
    BY <1>0, <1>3 DEF Ungrant, ServedAt
  <2>2. /\ by_port' = table /\ UNCHANGED <<services, disk, req, snap>>
        /\ pc' = [pc EXCEPT ![t] = step]
    BY <1>3 DEF Ungrant, Goto, SetGrants
  <2>3. /\ table \in Table
        /\ \A port \in Port, key \in Key :
             port # r.port /\ <<port, key>> \in AllGrants(by_port)
               => <<port, key>> \in AllGrants(table)
    BY <1>0, <2>1, RemovePortFacts, RemoveGrantFacts DEF AcceptedUnexpose
  <2> HIDE DEF table
  <2>4. step = "snapGrants" => \E key \in Key : <<r.port, key>> \in AllGrants(table)
    BY <2>1, <2>3, GrantedPortsHaveGrantees DEF AcceptedUnexpose
  <2>5. \A u \in Task : pc[u] \notin {"grant", "retire"}
    BY <1>3, <1>a DEF Ungrant, ControlSteps
  <2>6. step \in {"snapGrants", "retire"}
    OBVIOUS
  <2> HIDE DEF step
  <2> QED
    BY <1>3, <1>b, <2>2, <2>3, <2>4, <2>5, <2>6 DEF Ungrant, ControlSteps, PersistSteps, ServiceInv
<1>4. CASE Retire(t)
  <2>1. r \in AcceptedUnexpose
    BY <1>0, <1>4 DEF Retire, ServedAt
  <2>2. /\ \A port \in Port : services'[port] = IF port = r.port THEN None ELSE services[port]
        /\ UNCHANGED <<by_port, disk, req, snap>> /\ pc' = [pc EXCEPT ![t] = "snapGrants"]
    BY <1>0, <1>4, <2>1 DEF Retire, Goto, Backends
  <2>3. \A u \in Task \ {t} : pc[u] \notin {"grant", "retire"}
    BY <1>4, <1>a DEF Retire, ControlSteps
  <2>4. \A port \in Port :
          services'[port] # None =>
            Claimed(port) \/ \E key \in Key : <<port, key>> \in AllGrants(by_port')
    BY <2>2, <2>3 DEF ServiceInv
  <2> QED BY <1>4, <1>b, <2>2, <2>4 DEF Retire, ControlSteps, PersistSteps
<1>5. CASE Rebind(t) \/ Evict(t) \/ UnpinLoad(t) \/ PinLoad(t)
  BY <1>5, <1>c DEF Rebind, Evict, UnpinLoad, PinLoad, LoadPins, Goto
<1>6. CASE Revoke(t)
  BY <1>0, <1>6 DEF Revoke, ServedAt, OfPeer, ServiceInv
<1>7. CASE UnpinSave(t) \/ Admit(t) \/ PinSave(t)
  <2>1. Served(disk'.services, disk'.grants)
    BY <1>7 DEF UnpinSave, Admit, PinSave, ServiceInv
  <2> QED BY <1>7, <1>c, <1>d, <2>1 DEF UnpinSave, Admit, PinSave, Goto
<1>8. CASE Connect(t) \/ SaveFails(t)
  <2>1. Served(disk'.services, disk'.grants)
    BY <1>8 DEF Connect, SaveFails, ServiceInv
  <2> QED BY <1>8, <1>d, <2>1 DEF Connect, SaveFails
<1>9. ASSUME NEW state \in State, NEW step \in {"snapServices", "snapBinds", "save"},
             Snap(t, state, step), pc[t] \in PersistSteps, state.grants = AllGrants(by_port),
             step # "snapServices" => state.services = services
      PROVE  ServiceInv'
  <2>1. \A u \in Task : /\ pc'[u] = IF u = t THEN step ELSE pc[u]
                        /\ snap'[u] = IF u = t THEN state ELSE snap[u]
    BY <1>0, <1>9 DEF Snap, TypeOK, TasksOK
  <2> QED BY <1>9, <2>1 DEF Snap, ServiceInv, Served, Claimed, PersistSteps
<1>10. CASE SnapGrants(t) \/ SnapServices(t) \/ SnapBinds(t)
  <2>1. snap[t] \in State /\ AllGrants(by_port) \subseteq Pair
    BY PairsOf DEF TypeOK, TasksOK, Pair
  <2>2. CASE SnapGrants(t)
    BY <1>0, <1>9, <2>1, <2>2 DEF SnapGrants, PersistSteps, State
  <2>3. CASE SnapServices(t)
    BY <1>0, <1>9, <2>1, <2>3 DEF SnapServices, PersistSteps, State, ServiceInv
  <2>4. CASE SnapBinds(t)
    BY <1>0, <1>9, <2>1, <2>4 DEF SnapBinds, PersistSteps, State, ServiceInv, TypeOK, DataOK
  <2> QED BY <1>10, <2>2, <2>3, <2>4
<1>11. CASE Save(t)
  <2>1. \A u \in Task : pc[u] \notin {"grant", "retire"}
    BY <1>11, <1>a DEF Save, ControlSteps, PersistSteps
  <2>2. disk' = snap[t] /\ Finish(t) /\ UNCHANGED <<by_port, services>>
    BY <1>11 DEF Save
  <2>3. snap[t].grants = AllGrants(by_port) /\ snap[t].services = services
    BY <1>11 DEF Save, ServiceInv
  <2>4. Served(disk'.services, disk'.grants)
    BY <2>1, <2>2, <2>3 DEF ServiceInv, Served
  <2> QED BY <1>d, <2>1, <2>2, <2>4
<1> QED BY <1>1, <1>2, <1>3, <1>4, <1>5, <1>6, <1>7, <1>8, <1>10, <1>11 DEF Step

LEMMA ServiceNext ==
  OneClient /\ NoEviction /\ TypeOK /\ AckedInv /\ ServiceInv /\ [Next]_vars => ServiceInv'
<1> SUFFICES ASSUME OneClient, NoEviction, TypeOK, AckedInv, ServiceInv, [Next]_vars
             PROVE  ServiceInv'
  OBVIOUS
<1> USE DEF memory, files, ledger
<1>a. ASSUME NEW t \in Task, NEW r, NEW step, pc[t] = "idle",
             r.kind \notin {"RemovePeer", "Collide"}, r.kind = "Expose" => r.to # {},
             step \notin {"snapServices", "snapBinds", "save"},
             UNCHANGED <<by_port, services, disk, snap>>,
             pc' = [pc EXCEPT ![t] = step], req' = [req EXCEPT ![t] = r]
      PROVE  ServiceInv'
  <2>1. \A u \in Task : \/ u = t /\ pc'[u] = step /\ req'[u] = r
                        \/ u # t /\ pc'[u] = pc[u] /\ req'[u] = req[u]
    BY <1>a DEF TypeOK, TasksOK
  <2> QED BY <1>a, <2>1 DEF ServiceInv, Served, Claimed
<1>1. ASSUME NEW t \in Client, NEW r \in Requests, Receive(t, r) PROVE ServiceInv'
  <2> DEFINE resolved == IF r.kind = "Expose" THEN [r EXCEPT !.to = ExposedTo(r)] ELSE r
  <2>1. t \in Task /\ r \in Request /\ r.kind # "RemovePeer"
    BY RequestsAssumption DEF Task, NoEviction
  <2>2. ~Invalid(r)
    BY <1>1 DEF Receive, Verdict
  <2>3. /\ resolved.kind \notin {"RemovePeer", "Collide"}
        /\ resolved.kind = "Expose" => resolved.to # {}
    <3>1. CASE r.kind = "Expose"
      <4>1. r \in ExposeRequest /\ ExposedTo(r) # {}
        BY <2>1, <2>2, <3>1
           DEF Request, ExposeRequest, UnexposeRequest, BindRequest, PeerRequest, Invalid
      <4> QED BY <3>1, <4>1 DEF ExposeRequest
    <3>2. CASE r.kind # "Expose"
      BY <2>1, <3>2 DEF Request, ExposeRequest, UnexposeRequest, BindRequest, PeerRequest
    <3> QED BY <3>1, <3>2
  <2>4. FirstStep(r) \notin {"snapServices", "snapBinds", "save"}
    BY <2>1, FirstSteps
  <2>5. /\ UNCHANGED <<by_port, services, disk, snap>> /\ pc[t] = "idle"
        /\ pc' = [pc EXCEPT ![t] = FirstStep(r)] /\ req' = [req EXCEPT ![t] = resolved]
    BY <1>1 DEF Receive, At
  <2> HIDE DEF resolved
  <2> QED BY <1>a, <2>1, <2>3, <2>4, <2>5
<1>2. ASSUME NEW t \in Background, NEW e \in Events, Happen(t, e) PROVE ServiceInv'
  <2>1. t \in Task /\ e.kind = "Enroll" /\ FirstStep(e) \in {"evict", "pinLoad"}
    BY FirstSteps, RequestsAssumption DEF Task, Event, NoEviction
  <2> QED BY <1>2, <1>a, <2>1 DEF Happen, At
<1>3. CASE Crash
  BY <1>3, NoGrantsFacts DEF Crash, ServiceInv, Served, Claimed, NoRequest, EmptyState
<1>4. ASSUME NEW o \in Overlays, Start(o) PROVE ServiceInv'
  <2> DEFINE served == Over(o.services, disk.services)
             given  == (o.ports \cup {port \in Port : served[port] # None}) \X o.to
  <2>1. given \subseteq Pair /\ disk.grants \subseteq Pair
    BY OverlaysAssumption DEF Overlay, Pair, TypeOK, DataOK, State
  <2>2. /\ by_port' = FromRows(disk.grants \cup given) /\ services' = served
        /\ UNCHANGED <<disk, snap, req, pc>> /\ ~up
    BY <1>4 DEF Start, local
  <2>3. \A t \in Task : pc[t] = "idle"
    BY <2>2 DEF AckedInv, ClientsServe
  <2>4. \A port \in Port : served[port] # None => Claimed(port) \/ disk.services[port] # None
    BY DEF Over, Claimed
  <2> HIDE DEF given, served
  <2>5. AllGrants(by_port') = disk.grants \cup given
    BY <2>1, <2>2, FromRowsFacts
  <2> QED BY <2>2, <2>3, <2>4, <2>5 DEF ServiceInv, Served, Claimed
<1>5. CASE UNCHANGED vars
  BY <1>5 DEF vars, local, ServiceInv, Served, Claimed
<1> QED BY <1>1, <1>2, <1>3, <1>4, <1>5, ServiceStep DEF Next

(* "A port whose last grantee is revoked retires its service with it": so it   *)
(* is, whatever writes fail and whenever the daemon stops, as long as control  *)
(* requests are served one at a time and the last grantee is not evicted.      *)
THEOREM ServiceGoesWithGrantee ==
  ASSUME OneClient, NoEviction PROVE Spec => []ServiceHasGrantee
<1>1. Init => ServiceInv
  BY NoGrantsFacts DEF Init, ServiceInv, Served, Claimed, NoRequest, EmptyState
<1>2. TypeOK /\ AckedInv /\ ServiceInv /\ [Next]_vars => ServiceInv'
  BY ServiceNext
<1>3. TypeOK /\ ServiceInv => ServiceHasGrantee
  <2> SUFFICES ASSUME TypeOK, ServiceInv, \A t \in Task : pc[t] = "idle", NEW port \in Port,
                      services[port] # None, ~Claimed(port)
               PROVE  port \in GrantedPorts(by_port)
    BY DEF ServiceHasGrantee, Claimed
  <2>1. \E key \in Key : <<port, key>> \in AllGrants(by_port)
    BY DEF ServiceInv
  <2> QED BY <2>1, GrantedPortsHaveGrantees DEF TypeOK, DataOK
<1> QED BY <1>1, <1>2, <1>3, Typing, AckedInvariant, PTL DEF Spec
=============================================================================
