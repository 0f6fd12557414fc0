-------------------------------- MODULE Bindings --------------------------------
(* The peers that one daemon knows and the local listeners on which it offers  *)
(* the ports that they announce: PeerManager of peer.rs.  A peer is an object  *)
(* that the map `peers` leads to by its key.  Tasks keep the object, so that   *)
(* it lives on when the map has lost it or has another for the key.            *)
(*                                                                             *)
(* bind_lock covers whatever creates or releases listeners; it is held while   *)
(* update_peer_ports probes a peer, and then connections come and go, peers    *)
(* are inserted and further tasks queue up for it.  Under the lock a call runs *)
(* to its next probe as one action.  Grants and pins, which an eviction takes  *)
(* away too, are those of ControlPlane.                                        *)
EXTENDS Naturals, FiniteSets

CONSTANTS Key,      \* endpoint ids
          Peer,     \* Peer objects: each is inserted at most once
          KeyOf,    \* the endpoint id of each
          Dialed,   \* those that were added by ticket: their loops dial
          Local,    \* local port numbers
          Port,     \* the port numbers that peers announce
          AnyPort,  \* local port 0: the system picks one
          None,
          Announcements,  \* what peers may announce
          Remaps,         \* <<port, local>> of the set_bind calls
          Task      \* tasks that serve announcements and requests

ASSUME BindingsAssumption ==
  /\ KeyOf \in [Peer -> Key] /\ Dialed \subseteq Peer
  /\ Port \subseteq Local /\ AnyPort \notin Local
  /\ Announcements \subseteq SUBSET Port
  /\ Remaps \subseteq Port \X (Local \cup {AnyPort, None})
  /\ None \notin Local \cup {AnyPort} \cup Peer \cup Task

VARIABLES
  peers,          \* PeerManager.peers
  used,           \* the objects that have been made
  removed,        \* Peer.removed: the objects that were evicted
  connection,     \* Peer.connection: "open", or "closed" if there is none
  dialing,        \* the objects whose connection loop is in a dial
  exposed_ports,  \* Peer.exposed_ports: as last announced
  bindings,       \* Peer.bindings: the local port of each announced port
  binds,          \* PeerManager.binds
  bind_lock,      \* the task that holds it, or None
  job, pc,        \* what each task is for, and its step
  todo,           \* the announced ports that bind_lock's task has still to look at
  probe           \* whom it probes, for which port, and whether in vain

links == <<connection, dialing>>
tasks == <<job, pc, todo, probe>>
vars == <<peers, used, removed, links, exposed_ports, bindings, binds, bind_lock, tasks>>

NoBinding == [port \in Port |-> None]
NoJob == [kind |-> "none"]
NoProbe == [holder |-> None]

Jobs ==
  [kind: {"announce"}, peer: Peer, ports: Announcements]
    \cup [kind: {"insert"}, peer: Peer]
    \cup [kind: {"remove"}, key: Key]
Probes == [holder: Peer, port: Port, gone: BOOLEAN]

Known == {p \in Peer : peers[KeyOf[p]] = p}

(* local_for: where an announced port is to be bound.                          *)
LocalFor(port) == IF binds[port] = None THEN port ELSE binds[port]

Taken(table) == {table[p][port] : p \in Peer, port \in Port} \ {None}

(* find_holder: a known peer of another key with a listener on the local port. *)
Holders(port, p) ==
  {h \in Known : /\ KeyOf[h] # KeyOf[p]
                 /\ LocalFor(port) \in {bindings[h][q] : q \in Port}}

(* Mutant of Release: listeners stay until the port is announced again.        *)
ReleaseNone(table, p, ports) == table

Release(table, p, ports) ==
  [table EXCEPT ![p] = [port \in Port |-> IF port \in ports THEN None ELSE @[port]]]

(* create_binding, for a set of peers in some order: each gets the local port  *)
(* wanted, if it is free, or none; any bind may fail, as other programs have   *)
(* ports too.                                                                  *)
Bound(table, port, wanted, claimants) ==
  {[p \in Peer |-> IF p \in claimants THEN [table[p] EXCEPT ![port] = got[p]] ELSE table[p]] :
     got \in {got \in [claimants -> (Local \ Taken(table)) \cup {None}] :
                /\ \A p \in claimants : wanted = AnyPort \/ got[p] \in {wanted, None}
                /\ \A p, q \in claimants : p # q /\ got[p] = got[q] => got[p] = None}}

Init ==
  /\ peers = [k \in Key |-> None] /\ used = {} /\ removed = {}
  /\ connection = [p \in Peer |-> "closed"] /\ dialing = {}
  /\ exposed_ports = [p \in Peer |-> {}] /\ bindings = [p \in Peer |-> NoBinding]
  /\ binds = [port \in Port |-> None]
  /\ bind_lock = None
  /\ job = [t \in Task |-> NoJob] /\ pc = [t \in Task |-> "idle"]
  /\ todo = {} /\ probe = NoProbe

-----------------------------------------------------------------------------
(* Connections.                                                                *)

(* A probe of a peer whose connection is closed or replaced will fail.         *)
Connection(p, state) ==
  /\ connection' = [connection EXCEPT ![p] = state]
  /\ probe' = IF probe.holder = p THEN [probe EXCEPT !.gone = TRUE] ELSE probe

(* The connection ends, by the remote's doing or the network's.                *)
Disconnect(p) ==
  /\ connection[p] = "open"
  /\ Connection(p, "closed")
  /\ UNCHANGED <<peers, used, removed, dialing, exposed_ports, bindings, binds,
                 bind_lock, job, pc, todo>>

(* handle_connection for a known key: the new connection replaces the old one. *)
Reconnect(p) ==
  /\ p \in Known
  /\ Connection(p, "open")
  /\ UNCHANGED <<peers, used, removed, dialing, exposed_ports, bindings, binds,
                 bind_lock, job, pc, todo>>

(* Mutant of Dial: the loop of a removed peer goes on.                         *)
DialOn(p) ==
  /\ p \in (used \cap Dialed) \ dialing
  /\ connection[p] # "open"
  /\ dialing' = dialing \cup {p}
  /\ UNCHANGED <<peers, used, removed, connection, exposed_ports, bindings, binds,
                 bind_lock, tasks>>

(* peer_connection_loop: without a connection that works it dials, unless the  *)
(* peer has been removed by now.                                               *)
Dial(p) ==
  /\ p \in (used \cap Dialed) \ (removed \cup dialing)
  /\ connection[p] # "open"
  /\ dialing' = dialing \cup {p}
  /\ UNCHANGED <<peers, used, removed, connection, exposed_ports, bindings, binds,
                 bind_lock, tasks>>

(* The dial succeeds, and what has become of the peer is not asked again; or   *)
(* it fails and is tried again after the backoff.                              *)
DialEnds(p) ==
  /\ p \in dialing
  /\ dialing' = dialing \ {p}
  /\ Connection(p, "open") \/ UNCHANGED <<connection, probe>>
  /\ UNCHANGED <<peers, used, removed, exposed_ports, bindings, binds, bind_lock,
                 job, pc, todo>>

-----------------------------------------------------------------------------
(* Tasks.                                                                      *)

At(t, step) == pc[t] = step

Goto(t, step) == pc' = [pc EXCEPT ![t] = step]

Finish(t) ==
  /\ Goto(t, "idle")
  /\ job' = [job EXCEPT ![t] = NoJob]

Begin(t, j, step) ==
  /\ At(t, "idle")
  /\ job' = [job EXCEPT ![t] = j]
  /\ Goto(t, step)
  /\ UNCHANGED <<peers, used, removed, links, exposed_ports, bindings, binds,
                 bind_lock, todo, probe>>

(* handle_uni_stream: run_connection has given an announcement to a task.      *)
Announce(t, p, ports) ==
  /\ connection[p] = "open"
  /\ Begin(t, [kind |-> "announce", peer |-> p, ports |-> ports], "lock")

(* remove_peer, up to the lock.                                                *)
AskRemoval(t, k) ==
  /\ peers[k] # None
  /\ Begin(t, [kind |-> "remove", key |-> k], "lock")

(* add_peer, add_pinned or handle_connection find that the key is not known.   *)
AskInsertion(t, p) ==
  /\ p \notin used /\ peers[KeyOf[p]] = None
  /\ \A u \in Task : job[u].kind = "insert" => job[u].peer # p
  /\ Begin(t, [kind |-> "insert", peer |-> p], "insert")

(* The insertion, once a dial or an enrollment has succeeded: whatever peer    *)
(* the key has got meanwhile is replaced in the map, and nothing else.         *)
Insert(t) ==
  LET p == job[t].peer
  IN  /\ At(t, "insert")
      /\ peers' = [peers EXCEPT ![KeyOf[p]] = p]
      /\ used' = used \cup {p}
      /\ \/ connection' = [connection EXCEPT ![p] = "open"]
         \/ p \notin Dialed /\ UNCHANGED connection
      /\ Finish(t)
      /\ UNCHANGED <<removed, dialing, exposed_ports, bindings, binds, bind_lock,
                     todo, probe>>

(* The peer could not be reached, or did not present a token.                  *)
Refuse(t) ==
  /\ At(t, "insert")
  /\ Finish(t)
  /\ UNCHANGED <<peers, used, removed, links, exposed_ports, bindings, binds,
                 bind_lock, todo, probe>>

(* Mutant of SetBind: a remap takes effect with the next announcement.         *)
SetBindLater(port, local) ==
  /\ bind_lock = None
  /\ binds' = [binds EXCEPT ![port] = local]
  /\ UNCHANGED <<peers, used, removed, links, exposed_ports, bindings, bind_lock, tasks>>

(* set_bind: the listeners of the port are released and made anew.             *)
SetBind(port, local) ==
  /\ bind_lock = None
  /\ binds' = [binds EXCEPT ![port] = local]
  /\ LET released == [p \in Peer |-> IF p \in Known THEN [bindings[p] EXCEPT ![port] = None]
                                     ELSE bindings[p]]
     IN  bindings' \in Bound(released, port, IF local = None THEN port ELSE local,
                             {p \in Known : port \in exposed_ports[p]})
  /\ UNCHANGED <<peers, used, removed, links, exposed_ports, bind_lock, tasks>>

-----------------------------------------------------------------------------
(* evict: the peer that the key has now, if it has one.  Its listeners and its *)
(* connection go.  The rest of a table of bindings is for the caller.          *)

Without(table, k) ==
  [p \in Peer |-> IF p = peers[k] THEN NoBinding ELSE table[p]]

Evict(k) ==
  /\ peers' = [peers EXCEPT ![k] = None]
  /\ removed' = removed \cup ({peers[k]} \ {None})
  /\ connection' = [p \in Peer |-> IF p = peers[k] THEN "closed" ELSE connection[p]]

(* remove_peer, with the lock.                                                 *)
Remove(t) ==
  /\ At(t, "lock") /\ job[t].kind = "remove"
  /\ bind_lock = None
  /\ Evict(job[t].key)
  /\ bindings' = Without(bindings, job[t].key)
  /\ Finish(t)
  /\ UNCHANGED <<used, dialing, exposed_ports, binds, bind_lock, todo, probe>>

-----------------------------------------------------------------------------
(* update_peer_ports.                                                          *)

(* Mutant of Update: `let _ =` for `let _guard =` drops the lock at once.      *)
UpdateUnguarded(t) ==
  LET p == job[t].peer
  IN  /\ At(t, "lock") /\ job[t].kind = "announce"
      /\ bind_lock = None
      /\ bindings' = Release(bindings, p, exposed_ports[p] \ job[t].ports)
      /\ todo' = {port \in job[t].ports : bindings'[p][port] = None}
      /\ Goto(t, "bind")
      /\ UNCHANGED <<peers, used, removed, links, exposed_ports, binds, bind_lock,
                     job, probe>>

(* The lock is taken and what is announced no more is released.                *)
Update(t) ==
  LET p == job[t].peer
  IN  /\ At(t, "lock") /\ job[t].kind = "announce"
      /\ bind_lock = None
      /\ bind_lock' = t
      /\ bindings' = Release(bindings, p, exposed_ports[p] \ job[t].ports)
      /\ todo' = {port \in job[t].ports : bindings'[p][port] = None}
      /\ Goto(t, "bind")
      /\ UNCHANGED <<peers, used, removed, links, exposed_ports, binds, job, probe>>

(* A port without a binding, and nobody known holds its local port.            *)
Bind(t, port) ==
  LET p == job[t].peer
  IN  /\ At(t, "bind") /\ port \in todo
      /\ Holders(port, p) = {}
      /\ bindings' \in Bound(bindings, port, LocalFor(port), {p})
      /\ todo' = todo \ {port}
      /\ UNCHANGED <<peers, used, removed, links, exposed_ports, binds, bind_lock,
                     job, pc, probe>>

(* Somebody does: the probe starts.                                            *)
Probe(t, port) ==
  /\ At(t, "bind") /\ port \in todo
  /\ \E h \in Holders(port, job[t].peer) :
       probe' = [holder |-> h, port |-> port, gone |-> connection[h] # "open"]
  /\ Goto(t, "probe")
  /\ UNCHANGED <<peers, used, removed, links, exposed_ports, bindings, binds,
                 bind_lock, job, todo>>

(* The holder answers and the announcer is evicted, by its key.                *)
Answer(t) ==
  LET k == KeyOf[job[t].peer]
  IN  /\ At(t, "probe") /\ ~probe.gone
      /\ Evict(k)
      /\ bindings' = Without(bindings, k)
      /\ bind_lock' = None
      /\ todo' = {} /\ probe' = NoProbe
      /\ Finish(t)
      /\ UNCHANGED <<used, dialing, exposed_ports, binds>>

(* It does not, or not in time: it is evicted, by its key, and the bind        *)
(* proceeds.                                                                   *)
NoAnswer(t) ==
  LET k == KeyOf[probe.holder]
      port == probe.port
  IN  /\ At(t, "probe")
      /\ Evict(k)
      /\ bindings' \in Bound(Without(bindings, k), port, LocalFor(port), {job[t].peer})
      /\ probe' = NoProbe
      /\ todo' = todo \ {port}
      /\ Goto(t, "bind")
      /\ UNCHANGED <<used, dialing, exposed_ports, binds, bind_lock, job>>

(* All ports have been looked at.                                              *)
Updated(t) ==
  /\ At(t, "bind") /\ todo = {}
  /\ exposed_ports' = [exposed_ports EXCEPT ![job[t].peer] = job[t].ports]
  /\ bind_lock' = None
  /\ Finish(t)
  /\ UNCHANGED <<peers, used, removed, links, bindings, binds, todo, probe>>

Serve(t) ==
  \/ Insert(t) \/ Refuse(t) \/ Remove(t) \/ Update(t) \/ Answer(t) \/ NoAnswer(t)
  \/ Updated(t)
  \/ \E port \in Port : Bind(t, port) \/ Probe(t, port)

Next ==
  \/ \E p \in Peer : Disconnect(p) \/ Reconnect(p) \/ Dial(p) \/ DialEnds(p)
  \/ \E t \in Task, p \in Peer, ports \in Announcements : Announce(t, p, ports)
  \/ \E t \in Task, k \in Key : AskRemoval(t, k)
  \/ \E t \in Task, p \in Peer : AskInsertion(t, p)
  \/ \E remap \in Remaps : SetBind(remap[1], remap[2])
  \/ \E t \in Task : Serve(t)

Spec == Init /\ [][Next]_vars

-----------------------------------------------------------------------------
(* Properties.                                                                 *)

(* Every variable keeps its type, the map leads from a key to a peer that has  *)
(* it, and the one task that is in update_peer_ports is the one with the lock. *)
TypeOK ==
  /\ \A k \in Key : peers[k] = None \/ (peers[k] \in used /\ KeyOf[peers[k]] = k)
  /\ peers \in [Key -> Peer \cup {None}]
  /\ used \subseteq Peer /\ removed \subseteq used
  /\ connection \in [Peer -> {"open", "closed"}]
  /\ dialing \subseteq used
  /\ exposed_ports \in [Peer -> SUBSET Port]
  /\ bindings \in [Peer -> [Port -> Local \cup {None}]]
  /\ binds \in [Port -> Local \cup {AnyPort, None}]
  /\ bind_lock \in Task \cup {None}
  /\ job \in [Task -> Jobs \cup {NoJob}]
  /\ pc \in [Task -> {"idle", "lock", "insert", "bind", "probe"}]
  /\ todo \subseteq Port
  /\ probe \in Probes \cup {NoProbe}
  /\ \A t \in Task : /\ pc[t] = "idle" <=> job[t] = NoJob
                     /\ pc[t] \in {"bind", "probe"} <=> bind_lock = t
                     /\ bind_lock = t => job[t].kind = "announce"
                     /\ pc[t] = "probe" => probe # NoProbe

(* "Always sent, even when empty, so a revocation tears down the peer's        *)
(* binding" (peer.rs, send_exposed_ports_to_peer): when nobody holds the lock, *)
(* a known peer has listeners for no port but those of the announcement that   *)
(* was applied last, whatever collisions, evictions and remaps there were.     *)
AsAnnounced ==
  bind_lock = None =>
    \A p \in Known, port \in Port : bindings[p][port] # None => port \in exposed_ports[p]

(* "Takes effect immediately: any live binding for the port is torn down and   *)
(* rebuilt" (peer.rs, set_bind): when nobody holds the lock, a known peer's    *)
(* listener is where the remap in force says, or where no remap leaves it.     *)
AsRemapped ==
  bind_lock = None =>
    \A p \in Known, port \in Port :
      bindings[p][port] # None => LocalFor(port) \in {AnyPort, bindings[p][port]}

Gone(p) == connection[p] # "open" /\ bindings[p] = NoBinding

(* No dial to the peer is under way, and no announcement of it is being served.*)
Quiet(p) == p \notin dialing /\ \A t \in Task : job[t].kind = "announce" => job[t].peer # p

(* "Fully evict a peer: close its connection, release every binding it holds"  *)
(* (peer.rs, evict): an evicted peer has no connection and no listener,        *)
(* whatever was under way when it was evicted.                                 *)
EvictedIsGone == \A p \in removed : Gone(p)

(* What evict and the checks of `removed` do see to: an eviction leaves the    *)
(* peer without connection and listeners, and if nothing was under way for it, *)
(* nothing begins any more and it stays so, whatever becomes of its key.       *)
EvictionLasts ==
  [][\A p \in removed' :
       /\ p \notin removed => Gone(p)'
       /\ p \in removed /\ Gone(p) /\ Quiet(p) => Gone(p)' /\ Quiet(p)']_vars
=============================================================================
