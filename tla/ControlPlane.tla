----------------------------- MODULE ControlPlane -----------------------------
(* What one ig daemon is told over its control socket, and what of it lasts:   *)
(* the grants, declared backends and remaps it keeps in memory, the state file *)
(* they are written to, and the pin file.  Every connection to the control     *)
(* socket is a task of its own (daemon.rs, run), and so is every incoming peer *)
(* connection and every announcement (peer.rs); tokio runs them on many        *)
(* threads.  One lock guards the grants, one the backends, a sharded map the   *)
(* remaps; nothing covers two of them at once, and nothing covers a file from  *)
(* the snapshot or the load to the save.  So an action is what a task does     *)
(* between two points where another task may run.                              *)
(*                                                                             *)
(* The control requests are the tasks of Client, one request at a time each.   *)
(* What peers cause, an enrollment or an eviction by port collision, is done   *)
(* by the tasks of Background.  Announcing grants to peers changes none of     *)
(* this state and is left out here.                                            *)
EXTENDS Grants

CONSTANTS Backend,     \* backend specs that BackendSpec::validate accepts
          Local,       \* local ports an announced port is remapped onto
          None,        \* Option::None
          Malformed,   \* a key that does not parse
          BadBackend,  \* a backend spec that does not validate
          Client,      \* tasks that serve control connections
          Background,  \* tasks that serve peers
          Requests,    \* control requests that clients may send
          Events,      \* what peers may cause
          Overlays,    \* command lines the daemon may be started with
          Faults       \* the files whose writes may fail: "state", "pins"

Task == Client \cup Background

ExposeRequest ==
  [kind: {"Expose"}, port: Port, to: SUBSET (Key \cup {Malformed}),
   backend: Backend \cup {None, BadBackend}]
UnexposeRequest ==
  [kind: {"Unexpose"}, port: Port, key: Key \cup {None, Malformed}]
BindRequest == [kind: {"Bind"}, port: Port, local: Local \cup {None}]
PeerRequest ==
  [kind: {"AddPeer", "RemovePeer", "Pin"}, key: Key \cup {Malformed}]
Request == ExposeRequest \cup UnexposeRequest \cup BindRequest \cup PeerRequest

(* Collide: an announcement makes update_peer_ports evict the peer of `key`.   *)
(* Enroll: an unknown peer has presented a token that tokens.claim accepted.   *)
Event == [kind: {"Collide", "Enroll"}, key: Key]

Backends == [Port -> Backend \cup {None}]
Remaps == [Port -> Local \cup {None}]

(* State of state.rs: what the state file holds, and what a snapshot collects. *)
State == [grants: SUBSET Pair, services: Backends, binds: Remaps]
EmptyState == [grants   |-> {},
               services |-> [port \in Port |-> None],
               binds    |-> [port \in Port |-> None]]

(* The options of `ig daemon`: -a, -e, --service and --bind.                   *)
Overlay == [to: SUBSET Key, ports: SUBSET Port, services: Backends, binds: Remaps]

ASSUME RequestsAssumption == Requests \subseteq Request /\ Events \subseteq Event
ASSUME OverlaysAssumption == Overlays \subseteq Overlay
ASSUME NoneAssumption ==
  /\ None \notin Key \cup Backend \cup Local \cup Task
  /\ Malformed \notin Key /\ Malformed # None
  /\ BadBackend \notin Backend /\ BadBackend # None

VARIABLES
  up,          \* is the daemon running?
  peers,       \* PeerManager.peers: the known peers
  by_port,     \* Grants.by_port
  services,    \* Services.backends
  binds,       \* PeerManager.binds
  bind_lock,   \* the task that holds PeerManager.bind_lock, or None
  disk,        \* the contents of <key>.state.json
  pins,        \* the keys in <key>.peers.json
  pc, req,     \* the step each task is at, and the request it serves
  snap,        \* the State each task has collected so far in persist
  copy         \* the pins each task has loaded

(* What clients have been told, for the properties; the code reads none of it. *)
VARIABLES
  asked,       \* pairs that an accepted Expose has named
  flagged,     \* pairs that the options of a start have granted
  promised,    \* pairs whose grant was acknowledged and not taken back since
  withdrawn,   \* pairs whose revocation was acknowledged and not granted since
  declared,    \* <<port, backend>> last acknowledged, while the port is granted
  remapped,    \* <<port, local>> last acknowledged
  pinned,      \* keys whose pin was acknowledged, and not evicted since
  evicted      \* keys whose eviction has completed, not pinned or granted since

memory == <<peers, by_port, services, binds>>
files  == <<disk, pins>>
local  == <<pc, req, snap, copy>>
ledger == <<asked, flagged, promised, withdrawn, declared, remapped, pinned, evicted>>
vars   == <<up, memory, bind_lock, files, local, ledger>>

NoRequest == [kind |-> "None"]

Steps == {"idle", "register", "grant", "ungrant", "retire", "rebind", "evict",
          "revoke", "unpinLoad", "unpinSave", "admit", "pinLoad", "pinSave",
          "connect", "snapGrants", "snapServices", "snapBinds", "save"}

-----------------------------------------------------------------------------
(* Requests and what they are refused for.                                     *)

(* An Expose that names nobody is for every known peer.                        *)
ExposedTo(r) == IF r.to = {} THEN peers ELSE r.to

(* Mutant of Unparsable: the grantees of an Expose are taken as they come.     *)
UnparsableKey(r) ==
  r.kind \in {"Unexpose", "AddPeer", "RemovePeer", "Pin"} /\ r.key = Malformed

Unparsable(r) ==
  \/ r.kind = "Expose" /\ Malformed \in r.to
  \/ r.kind \in {"Unexpose", "AddPeer", "RemovePeer", "Pin"} /\ r.key = Malformed

Invalid(r) ==
  \/ Unparsable(r)
  \/ r.kind = "Expose" /\ (ExposedTo(r) = {} \/ r.backend = BadBackend)

(* The answer that a request gets before anything has changed: the kind of the *)
(* error, or "accepted".  The error for an unknown peer has no kind of its     *)
(* own, which makes it "internal".  A dry run changes nothing and is left out. *)
Verdict(r) ==
  CASE Invalid(r) -> "invalid"
    [] r.kind = "AddPeer" /\ r.key \in peers -> "conflict"
    [] r.kind = "RemovePeer" /\ ~Invalid(r) /\ r.key \notin peers -> "internal"
    [] OTHER -> "accepted"

FirstStep(r) ==
  CASE r.kind = "Expose" -> IF r.backend = None THEN "grant" ELSE "register"
    [] r.kind = "Unexpose" -> "ungrant"
    [] r.kind = "Bind" -> "rebind"
    [] r.kind \in {"RemovePeer", "Collide"} -> "evict"
    [] r.kind = "Pin" -> "admit"
    [] r.kind = "Enroll" -> "pinLoad"
    [] r.kind = "AddPeer" -> "connect"

(* The pairs a request grants or takes away.                                   *)
Named(r) ==
  CASE r.kind = "Expose" -> {<<r.port, key>> : key \in r.to}
    [] r.kind = "Unexpose" -> {pair \in Pair : /\ pair[1] = r.port
                                               /\ r.key \in {None, pair[2]}}
    [] r.kind \in {"RemovePeer", "Collide"} -> {pair \in Pair : pair[2] = r.key}
    [] OTHER -> {}

-----------------------------------------------------------------------------
(* Moving a task on.                                                           *)

At(t, step) == up /\ pc[t] = step

Goto(t, step) == pc' = [pc EXCEPT ![t] = step] /\ UNCHANGED <<req, snap, copy>>

Finish(t) ==
  /\ pc' = [pc EXCEPT ![t] = "idle"]
  /\ req' = [req EXCEPT ![t] = NoRequest]
  /\ snap' = [snap EXCEPT ![t] = EmptyState]
  /\ copy' = [copy EXCEPT ![t] = {}]

(* A client's request that passes its checks.  One that does not is answered   *)
(* with Verdict and changes nothing.                                           *)
Receive(t, r) ==
  /\ At(t, "idle")
  /\ Verdict(r) = "accepted"
  /\ LET resolved == IF r.kind = "Expose" THEN [r EXCEPT !.to = ExposedTo(r)] ELSE r
     IN  /\ req' = [req EXCEPT ![t] = resolved]
         /\ asked' = IF r.kind = "Expose" THEN asked \cup Named(resolved) ELSE asked
  /\ pc' = [pc EXCEPT ![t] = FirstStep(r)]
  /\ UNCHANGED <<up, memory, bind_lock, files, snap, copy, flagged, promised,
                 withdrawn, declared, remapped, pinned, evicted>>

(* Something a peer causes.  Only a known peer's announcement can collide, and *)
(* only an unknown peer enrolls.                                               *)
Happen(t, e) ==
  /\ At(t, "idle")
  /\ e.key \in peers <=> e.kind = "Collide"
  /\ req' = [req EXCEPT ![t] = e]
  /\ pc' = [pc EXCEPT ![t] = FirstStep(e)]
  /\ UNCHANGED <<up, memory, bind_lock, files, snap, copy, ledger>>
-----------------------------------------------------------------------------
(* Changing what is in memory.                                                 *)

(* A change to the table takes back what was promised of the pairs that it     *)
(* drops, and of the backend of a port that it leaves without a grantee.       *)
SetGrants(table) ==
  /\ by_port' = table
  /\ promised' = promised \cap AllGrants(table)
  /\ withdrawn' = withdrawn \ AllGrants(table)
  /\ declared' = {d \in declared : d[1] \in GrantedPorts(table)}

(* Expose: services.register, replacing what was declared before.              *)
Register(t) ==
  /\ At(t, "register")
  /\ services' = [services EXCEPT ![req[t].port] = req[t].backend]
  /\ declared' = {d \in declared : d[1] # req[t].port}
  /\ Goto(t, "grant")
  /\ UNCHANGED <<up, peers, by_port, binds, bind_lock, files, asked, flagged,
                 promised, withdrawn, remapped, pinned, evicted>>

(* Mutant of Grant: every known peer gets the port too.                        *)
GrantToPeers(t) ==
  /\ At(t, "grant")
  /\ SetGrants(AddGrants(by_port, req[t].port, req[t].to \cup peers))
  /\ evicted' = evicted \ (req[t].to \cup peers)
  /\ Goto(t, "snapGrants")
  /\ UNCHANGED <<up, peers, services, binds, bind_lock, files, asked, flagged,
                 remapped, pinned>>

(* Expose: Daemon::expose.                                                     *)
Grant(t) ==
  /\ At(t, "grant")
  /\ SetGrants(AddGrants(by_port, req[t].port, req[t].to))
  /\ evicted' = evicted \ req[t].to
  /\ Goto(t, "snapGrants")
  /\ UNCHANGED <<up, peers, services, binds, bind_lock, files, asked, flagged,
                 remapped, pinned>>

(* Mutant of Ungrant: the service goes with any grantee, not with the last.    *)
UngrantAndRetire(t) ==
  LET r == req[t]
      table == IF r.key = None THEN RemovePort(by_port, r.port)
               ELSE RemoveGrant(by_port, r.port, r.key)
  IN  /\ At(t, "ungrant")
      /\ SetGrants(table)
      /\ Goto(t, "retire")
      /\ UNCHANGED <<up, peers, services, binds, bind_lock, files, asked,
                     flagged, remapped, pinned, evicted>>

(* Unexpose: the part of Daemon::unexpose under the write lock, which also     *)
(* finds out whether the port has any grantee left.                            *)
Ungrant(t) ==
  LET r == req[t]
      table == IF r.key = None THEN RemovePort(by_port, r.port)
               ELSE RemoveGrant(by_port, r.port, r.key)
  IN  /\ At(t, "ungrant")
      /\ SetGrants(table)
      /\ Goto(t, IF r.port \in GrantedPorts(table) THEN "snapGrants" ELSE "retire")
      /\ UNCHANGED <<up, peers, services, binds, bind_lock, files, asked,
                     flagged, remapped, pinned, evicted>>

(* Unexpose: services.remove, for a port found to have no grantee left.        *)
Retire(t) ==
  /\ At(t, "retire")
  /\ services' = [services EXCEPT ![req[t].port] = None]
  /\ Goto(t, "snapGrants")
  /\ UNCHANGED <<up, peers, by_port, binds, bind_lock, files, ledger>>

(* Bind: set_bind, under the bind lock.                                        *)
Rebind(t) ==
  /\ At(t, "rebind")
  /\ bind_lock = None
  /\ binds' = [binds EXCEPT ![req[t].port] = req[t].local]
  /\ remapped' = {m \in remapped : m[1] # req[t].port}
  /\ Goto(t, "snapGrants")
  /\ UNCHANGED <<up, peers, by_port, services, bind_lock, files, asked, flagged,
                 promised, withdrawn, declared, pinned, evicted>>

(* AddPeer: the peer is inserted once it has been reached, whoever has         *)
(* inserted it meanwhile.  If it cannot be reached the answer is "not_found".  *)
Connect(t) ==
  /\ At(t, "connect")
  /\ peers' \in {peers, peers \cup {req[t].key}}
  /\ Finish(t)
  /\ UNCHANGED <<up, by_port, services, binds, bind_lock, files, ledger>>
-----------------------------------------------------------------------------
(* Eviction: evict, under the bind lock to its end, for RemovePeer and for a   *)
(* collision alike.  It does not ask whether the peer is still known.          *)

Evict(t) ==
  /\ At(t, "evict")
  /\ bind_lock = None
  /\ bind_lock' = t
  /\ peers' = peers \ {req[t].key}
  /\ pinned' = pinned \ {req[t].key}
  /\ Goto(t, "revoke")
  /\ UNCHANGED <<up, by_port, services, binds, files, asked, flagged, promised,
                 withdrawn, declared, remapped, evicted>>

(* Mutant of Revoke: RemovePeer persists without dropping the pin.             *)
RevokeAndPersist(t) ==
  /\ At(t, "revoke")
  /\ SetGrants(RevokeGrantee(by_port, req[t].key))
  /\ Goto(t, "snapGrants")
  /\ bind_lock' = None
  /\ UNCHANGED <<up, peers, services, binds, files, asked, flagged, remapped,
                 pinned, evicted>>

Revoke(t) ==
  /\ At(t, "revoke")
  /\ SetGrants(RevokeGrantee(by_port, req[t].key))
  /\ Goto(t, "unpinLoad")
  /\ UNCHANGED <<up, peers, services, binds, bind_lock, files, asked, flagged,
                 remapped, pinned, evicted>>

(* Mutant of LoadPins: the file is taken to be missing.                        *)
LoadNoPins(t, next) ==
  /\ copy' = [copy EXCEPT ![t] = {}]
  /\ pc' = [pc EXCEPT ![t] = next]
  /\ UNCHANGED <<up, memory, bind_lock, files, req, snap, ledger>>

LoadPins(t, next) ==
  /\ copy' = [copy EXCEPT ![t] = pins]
  /\ pc' = [pc EXCEPT ![t] = next]
  /\ UNCHANGED <<up, memory, bind_lock, files, req, snap, ledger>>

UnpinLoad(t) == At(t, "unpinLoad") /\ LoadPins(t, "unpinSave")

(* A pin that could not be removed is only logged.  RemovePeer goes on to      *)
(* persist, a collision is over.                                               *)
UnpinSave(t) ==
  /\ At(t, "unpinSave")
  /\ \/ pins' = copy[t] \ {req[t].key}
     \/ "pins" \in Faults /\ pins' = pins
  /\ bind_lock' = None
  /\ IF req[t].kind = "RemovePeer"
     THEN Goto(t, "snapGrants") /\ UNCHANGED evicted
     ELSE Finish(t) /\ evicted' = evicted \cup {req[t].key}
  /\ UNCHANGED <<up, memory, disk, asked, flagged, promised, withdrawn, declared,
                 remapped, pinned>>

-----------------------------------------------------------------------------
(* Pinning.  Pin makes the peer known and then writes the pin; an enrollment   *)
(* writes the pin and then makes the peer known.                               *)

Admit(t) ==
  /\ At(t, "admit")
  /\ peers' = peers \cup {req[t].key}
  /\ IF req[t].kind = "Pin"
     THEN Goto(t, "pinLoad") /\ UNCHANGED pinned
     ELSE Finish(t) /\ pinned' = pinned \cup {req[t].key}
  /\ UNCHANGED <<up, by_port, services, binds, bind_lock, files, asked, flagged,
                 promised, withdrawn, declared, remapped, evicted>>

PinLoad(t) == At(t, "pinLoad") /\ LoadPins(t, "pinSave")

(* A pin that cannot be written fails the request, or refuses the enrollment.  *)
PinSave(t) ==
  /\ At(t, "pinSave")
  /\ evicted' = evicted \ {req[t].key}
  /\ \/ /\ pins' = copy[t] \cup {req[t].key}
        /\ IF req[t].kind = "Pin"
           THEN Finish(t) /\ pinned' = pinned \cup {req[t].key}
           ELSE Goto(t, "admit") /\ UNCHANGED pinned
     \/ "pins" \in Faults /\ Finish(t) /\ UNCHANGED <<pins, pinned>>
  /\ UNCHANGED <<up, memory, bind_lock, disk, asked, flagged, promised,
                 withdrawn, declared, remapped>>

-----------------------------------------------------------------------------
(* persist: a snapshot, one lock at a time, and then the save, which replaces  *)
(* the file or leaves it alone.                                                *)

Snap(t, state, next) ==
  /\ snap' = [snap EXCEPT ![t] = state]
  /\ pc' = [pc EXCEPT ![t] = next]
  /\ UNCHANGED <<up, memory, bind_lock, files, req, copy, ledger>>

(* Mutants of SnapGrants: the ports on the default forward are left out, and   *)
(* the file is added to instead of replaced.                                   *)
SnapServedGrants(t) ==
  /\ At(t, "snapGrants")
  /\ Snap(t, [snap[t] EXCEPT !.grants =
                {pair \in AllGrants(by_port) : services[pair[1]] # None}], "snapServices")

SnapMergedGrants(t) ==
  /\ At(t, "snapGrants")
  /\ Snap(t, [snap[t] EXCEPT !.grants = AllGrants(by_port) \cup disk.grants], "snapServices")

SnapGrants(t) ==
  /\ At(t, "snapGrants")
  /\ Snap(t, [snap[t] EXCEPT !.grants = AllGrants(by_port)], "snapServices")

SnapServices(t) ==
  /\ At(t, "snapServices")
  /\ Snap(t, [snap[t] EXCEPT !.services = services], "snapBinds")

SnapBinds(t) ==
  /\ At(t, "snapBinds")
  /\ Snap(t, [snap[t] EXCEPT !.binds = binds], "save")

(* What the answer "done" to a request tells its client.  It tells nothing of  *)
(* a pair, a remap or a backend that another request has replaced since.  A    *)
(* backend that is gone while its port is granted has not been replaced.       *)
Acknowledge(r) ==
  /\ promised' = IF r.kind = "Expose"
                 THEN promised \cup (Named(r) \cap AllGrants(by_port)) ELSE promised
  /\ withdrawn' = IF r.kind \in {"Unexpose", "RemovePeer"}
                  THEN withdrawn \cup (Named(r) \ AllGrants(by_port)) ELSE withdrawn
  /\ declared' = IF /\ r.kind = "Expose" /\ r.backend # None
                    /\ r.port \in GrantedPorts(by_port)
                    /\ services[r.port] \in {r.backend, None}
                 THEN declared \cup {<<r.port, r.backend>>} ELSE declared
  /\ remapped' = IF r.kind = "Bind" /\ binds[r.port] = r.local
                 THEN remapped \cup {<<r.port, r.local>>} ELSE remapped
  /\ evicted' = IF r.kind = "RemovePeer" THEN evicted \cup {r.key} ELSE evicted

Save(t) ==
  /\ At(t, "save")
  /\ disk' = snap[t]
  /\ Acknowledge(req[t])
  /\ Finish(t)
  /\ UNCHANGED <<up, memory, bind_lock, pins, asked, flagged, pinned>>

(* The change stays in memory and the client gets an error.                    *)
SaveFails(t) ==
  /\ At(t, "save")
  /\ "state" \in Faults
  /\ Finish(t)
  /\ UNCHANGED <<up, memory, bind_lock, files, ledger>>

-----------------------------------------------------------------------------
(* Stopping and starting.                                                      *)

Crash ==
  /\ up
  /\ up' = FALSE
  /\ peers' = {} /\ by_port' = NoGrants
  /\ services' = EmptyState.services /\ binds' = EmptyState.binds
  /\ bind_lock' = None
  /\ pc' = [t \in Task |-> "idle"] /\ req' = [t \in Task |-> NoRequest]
  /\ snap' = [t \in Task |-> EmptyState] /\ copy' = [t \in Task |-> {}]
  /\ UNCHANGED <<files, ledger>>

(* Mutant of Over: what was stored is not restored.                            *)
OverNothing(given, stored) == given

Over(given, stored) ==
  [port \in Port |-> IF given[port] # None THEN given[port] ELSE stored[port]]

(* run up to its accept loops: the --service file, what the state file holds,  *)
(* --bind, -e and the service ports for every -a peer, and of those the peers  *)
(* that could be reached.  Nothing is written.                                 *)
Start(o) ==
  LET served == Over(o.services, disk.services)
      given  == (o.ports \cup {port \in Port : served[port] # None}) \X o.to
      table  == FromRows(disk.grants \cup given)
  IN  /\ ~up
      /\ up' = TRUE
      /\ services' = served
      /\ binds' = Over(o.binds, disk.binds)
      /\ by_port' = table
      /\ \E reached \in SUBSET o.to : peers' = pins \cup reached
      /\ flagged' = flagged \cup given
      /\ withdrawn' = withdrawn \ given
      /\ declared' = {d \in declared : o.services[d[1]] = None}
      /\ remapped' = {m \in remapped : o.binds[m[1]] = None}
      /\ evicted' = evicted \ o.to
      /\ UNCHANGED <<bind_lock, files, local, asked, promised, pinned>>

Init ==
  /\ up = FALSE
  /\ peers = {} /\ by_port = NoGrants
  /\ services = EmptyState.services /\ binds = EmptyState.binds
  /\ bind_lock = None
  /\ disk = EmptyState /\ pins = {}
  /\ pc = [t \in Task |-> "idle"] /\ req = [t \in Task |-> NoRequest]
  /\ snap = [t \in Task |-> EmptyState] /\ copy = [t \in Task |-> {}]
  /\ asked = {} /\ flagged = {} /\ promised = {} /\ withdrawn = {}
  /\ declared = {} /\ remapped = {} /\ pinned = {} /\ evicted = {}

Step(t) ==
  \/ Register(t) \/ Grant(t) \/ Ungrant(t) \/ Retire(t) \/ Rebind(t) \/ Connect(t)
  \/ Evict(t) \/ Revoke(t) \/ UnpinLoad(t) \/ UnpinSave(t)
  \/ Admit(t) \/ PinLoad(t) \/ PinSave(t)
  \/ SnapGrants(t) \/ SnapServices(t) \/ SnapBinds(t) \/ Save(t) \/ SaveFails(t)

Next ==
  \/ \E t \in Client, r \in Requests : Receive(t, r)
  \/ \E t \in Background, e \in Events : Happen(t, e)
  \/ \E t \in Task : Step(t)
  \/ Crash
  \/ \E o \in Overlays : Start(o)

Spec == Init /\ [][Next]_vars

-----------------------------------------------------------------------------
(* Properties.                                                                 *)

(* The requests that get past their checks, and who serves what at which step. *)
AcceptedExpose == [kind: {"Expose"}, port: Port, to: SUBSET Key,
                   backend: Backend \cup {None}]
AcceptedUnexpose == [kind: {"Unexpose"}, port: Port, key: Key \cup {None}]
OfPeer(kinds) == [kind: kinds, key: Key]
Persisted ==
  AcceptedExpose \cup AcceptedUnexpose \cup BindRequest \cup OfPeer({"RemovePeer"})

PersistSteps == {"snapGrants", "snapServices", "snapBinds", "save"}

ServedAt(r, step) ==
  /\ step \in {"register", "grant"} => r \in AcceptedExpose
  /\ step = "register" => r.backend # None
  /\ step \in {"ungrant", "retire"} => r \in AcceptedUnexpose
  /\ step = "rebind" => r \in BindRequest
  /\ step \in {"evict", "revoke", "unpinLoad", "unpinSave"}
       => r \in OfPeer({"RemovePeer", "Collide"})
  /\ step \in {"admit", "pinLoad", "pinSave"} => r \in OfPeer({"Pin", "Enroll"})
  /\ step = "connect" => r \in OfPeer({"AddPeer"})
  /\ step \in PersistSteps => r \in Persisted
  /\ step = "idle" => r = NoRequest

DataOK ==
  /\ up \in BOOLEAN
  /\ peers \subseteq Key /\ pins \subseteq Key
  /\ by_port \in Table
  /\ services \in Backends /\ binds \in Remaps
  /\ bind_lock \in Task \cup {None}
  /\ disk \in State

TasksOK ==
  /\ pc \in [Task -> Steps]
  /\ req \in [Task -> Persisted \cup OfPeer({"Collide", "Pin", "Enroll", "AddPeer"})
                       \cup {NoRequest}]
  /\ snap \in [Task -> State]
  /\ copy \in [Task -> SUBSET Key]
  /\ \A t \in Task : ServedAt(req[t], pc[t])

LedgerOK ==
  /\ asked \subseteq Pair /\ flagged \subseteq Pair
  /\ promised \subseteq Pair /\ withdrawn \subseteq Pair
  /\ declared \subseteq Port \X Backend
  /\ remapped \subseteq Port \X (Local \cup {None})
  /\ pinned \subseteq Key /\ evicted \subseteq Key

(* Every variable keeps its type.  A table has no empty row, and a request     *)
(* that is being served, at whatever step, names keys that parse and a backend *)
(* that validates: nothing that handle_request should have refused gets to a   *)
(* change.                                                                     *)
TypeOK == DataOK /\ TasksOK /\ LedgerOK

(* "Default deny -- no grant, no access" (grants.rs): whatever the table, the  *)
(* file or a snapshot on its way to the file grants was named by an accepted   *)
(* Expose, or by the options the daemon was once started with.                 *)
DefaultDeny ==
  /\ AllGrants(by_port) \cup disk.grants \subseteq asked \cup flagged
  /\ \A t \in Task : snap[t].grants \subseteq asked \cup flagged

(* "what you declare over the control socket survives a restart" (CONTRACT.md, *)
(* daemon.rs persist): a grant that was acknowledged, and that nothing has     *)
(* taken back since, is in the file, and in the table of a running daemon.     *)
AckedGrantSurvives ==
  promised \subseteq disk.grants /\ (up => promised \subseteq AllGrants(by_port))

(* The same for a revocation, by Unexpose or by RemovePeer: once it has been   *)
(* acknowledged no restart hands the grant back, unless somebody grants it.    *)
AckedRevocationSurvives ==
  /\ withdrawn \cap disk.grants = {}
  /\ up => withdrawn \cap AllGrants(by_port) = {}

(* The same for a declared backend, as long as its port has a grantee and no   *)
(* --service file claims the port: the port never falls to the default forward *)
(* and no older declaration comes back.                                        *)
AckedBackendSurvives ==
  \A d \in declared : /\ disk.services[d[1]] = d[2]
                      /\ up => services[d[1]] = d[2]

(* The same for a remap, or for the clearing of one.                           *)
AckedRemapSurvives ==
  \A m \in remapped : /\ disk.binds[m[1]] = m[2]
                      /\ up => binds[m[1]] = m[2]

(* "pins persist across restarts, so a reboot does not orphan enrolled         *)
(* workloads" (README): a key whose Pin was acknowledged, or which was         *)
(* enrolled, is in the pin file until it is evicted.                           *)
AckedPinSurvives == pinned \subseteq pins

(* "peer rm: Disconnect, and drop its pin" (README), evict in peer.rs: a key   *)
(* whose eviction is complete is not in the pin file, where the next start     *)
(* would find it and admit the peer again.                                     *)
EvictedIsUnpinned == evicted \cap pins = {}

(* A grant of a peer whose eviction is complete is not in the file either: "a  *)
(* restart would hand them back" (daemon.rs, RemovePeer).                      *)
EvictedIsUngranted == \A pair \in disk.grants : pair[2] \notin evicted

(* "A port whose last grantee is revoked retires its service with it, however  *)
(* the revoke was spelled" (README, daemon.rs unexpose): when no request is    *)
(* being served, a backend that was declared over the socket serves a port     *)
(* that is granted to someone.                                                 *)
ServiceHasGrantee ==
  up /\ (\A t \in Task : pc[t] = "idle")
    => \A port \in Port : \/ services[port] = None
                          \/ port \in GrantedPorts(by_port)
                          \/ \E o \in Overlays : o.services[port] # None

(* CONTRACT.md: the options of a start "are an overlay applied on top for that *)
(* run and are not written" to the state file.                                 *)
OverlayNotWritten == disk.grants \subseteq asked

(* A request, or an event of a peer, changes what it names and nothing else:   *)
(* only an expose that names a pair grants it, only an unexpose, removal or    *)
(* eviction that names it takes it away, the remap of a port is changed by a   *)
(* Bind of that port only, and its backend by an expose or unexpose of that    *)
(* port, or else by retiring it when a removal leaves the port to nobody,      *)
(* which README and daemon.rs ask for and evict does not do.  revoke_grantee   *)
(* walks the whole table to take one peer out of it.                           *)
OnlyAsNamed ==
  [][up /\ up' =>
       /\ \A pair \in AllGrants(by_port') \ AllGrants(by_port) :
            \E t \in Task : req[t].kind = "Expose" /\ pair \in Named(req[t])
       /\ \A pair \in AllGrants(by_port) \ AllGrants(by_port') :
            \E t \in Task : req[t].kind # "Expose" /\ pair \in Named(req[t])
       /\ \A port \in Port :
            /\ services'[port] # services[port] =>
                 \/ \E t \in Task : req[t].kind \in {"Expose", "Unexpose"} /\ req[t].port = port
                 \/ /\ services'[port] = None /\ port \notin GrantedPorts(by_port')
                    /\ \E t \in Task : req[t].kind \in {"RemovePeer", "Collide"}
            /\ binds'[port] # binds[port] =>
                 \E t \in Task : req[t].kind = "Bind" /\ req[t].port = port]_vars
=============================================================================
