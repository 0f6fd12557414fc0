----------------------------- MODULE BindingsProofs -----------------------------
(* Theorems about Bindings, for any peers, keys, ports, tasks, announcements   *)
(* and remaps: its types, and that the listeners of the known peers are those  *)
(* of the announcement applied last, where the remaps put them.                *)
EXTENDS Bindings, TLAPS

(* What `bindings` always is, and every table on the way to it.                *)
Tables == [Peer -> [Port -> Local \cup {None}]]

(* create_binding touches the one port of the claimants only, and what it binds *)
(* is what was wanted.                                                         *)
LEMMA BoundFacts ==
  ASSUME NEW table \in Tables, NEW port \in Port, NEW wanted, NEW claimants \in SUBSET Peer,
         NEW result \in Bound(table, port, wanted, claimants)
  PROVE  /\ result \in Tables
         /\ \A p \in Peer \ claimants : result[p] = table[p]
         /\ \A p \in claimants, q \in Port \ {port} : result[p][q] = table[p][q]
         /\ \A p \in claimants : result[p][port] # None => wanted \in {AnyPort, result[p][port]}
<1>1. PICK got \in [claimants -> (Local \ Taken(table)) \cup {None}] :
        /\ \A p \in claimants : wanted = AnyPort \/ got[p] \in {wanted, None}
        /\ result = [p \in Peer |-> IF p \in claimants THEN [table[p] EXCEPT ![port] = got[p]]
                                   ELSE table[p]]
  BY DEF Bound
<1>2. \A p \in claimants : got[p] \in Local \cup {None}
  OBVIOUS
<1> QED
  BY <1>1, <1>2 DEF Tables

(* Taking one peer's listeners away leaves a table of bindings.                  *)
LEMMA WithoutTyped ==
  ASSUME NEW table \in Tables, NEW k \in Key
  PROVE  Without(table, k) \in Tables
BY DEF Without, Tables, NoBinding

(* A task's job fits its step; what is to be inserted is new, and is inserted  *)
(* by one task; a peer that has not been made has no listener; what is still   *)
(* to be bound, or is being probed for, belongs to the announcement.           *)
Shape ==
  /\ \A t \in Task : /\ pc[t] = "insert" <=> job[t].kind = "insert"
                     /\ pc[t] = "insert" => job[t].peer \notin used
                     /\ pc[t] = "lock" => job[t].kind \in {"announce", "remove"}
                     /\ job[t].kind = "announce" => job[t].peer \in used
                     /\ bind_lock = t => todo \subseteq job[t].ports
                     /\ pc[t] = "probe" => probe.port \in todo
  /\ \A t, u \in Task : pc[t] = "insert" /\ pc[u] = "insert" /\ job[t].peer = job[u].peer => t = u
  /\ \A p \in Peer \ used :
       connection[p] = "closed" /\ exposed_ports[p] = {} /\ bindings[p] = NoBinding

(* A connection that opens or closes changes the fate of a probe, not whose it is. *)
LEMMA ConnectionTyped ==
  ASSUME TypeOK, NEW p \in Peer, NEW state \in {"open", "closed"}, Connection(p, state)
  PROVE  /\ connection' \in [Peer -> {"open", "closed"}]
         /\ probe' \in Probes \cup {NoProbe}
         /\ probe # NoProbe => probe' # NoProbe
<1>1. CASE probe = NoProbe
  BY <1>1, BindingsAssumption DEF TypeOK, Connection, NoProbe
<1>2. CASE probe \in Probes
  <2>1. probe' \in Probes
    BY <1>2 DEF Connection, Probes
  <2>2. \A q \in Probes : q # NoProbe
    BY BindingsAssumption DEF Probes, NoProbe
  <2> QED
    BY <2>1, <2>2 DEF TypeOK, Connection
<1> QED
  BY <1>1, <1>2 DEF TypeOK

(* An eviction leaves the map leading to peers of the right key.               *)
LEMMA EvictTyped ==
  ASSUME TypeOK, NEW k \in Key, Evict(k)
  PROVE  /\ \A j \in Key : peers'[j] = None \/ (peers'[j] \in used /\ KeyOf[peers'[j]] = j)
         /\ peers' \in [Key -> Peer \cup {None}]
         /\ removed' \subseteq used
         /\ connection' \in [Peer -> {"open", "closed"}]
BY BindingsAssumption DEF TypeOK, Evict

(* Every step keeps TypeOK.                                                    *)
LEMMA TypeStep ==
  ASSUME TypeOK, Shape, [Next]_vars
  PROVE  TypeOK'
<1> USE BindingsAssumption
<1>1. ASSUME NEW p \in Peer, Disconnect(p) PROVE TypeOK'
  <2>1. connection' \in [Peer -> {"open", "closed"}] /\ probe' \in Probes \cup {NoProbe}
        /\ (probe # NoProbe => probe' # NoProbe)
    BY <1>1, ConnectionTyped DEF Disconnect, TypeOK, Known
  <2> QED
    BY <1>1, <2>1 DEF Disconnect, TypeOK, links, tasks
<1>2. ASSUME NEW p \in Peer, Reconnect(p) PROVE TypeOK'
  <2>1. connection' \in [Peer -> {"open", "closed"}] /\ probe' \in Probes \cup {NoProbe}
        /\ (probe # NoProbe => probe' # NoProbe)
    BY <1>2, ConnectionTyped DEF Reconnect, TypeOK, Known
  <2> QED
    BY <1>2, <2>1 DEF Reconnect, TypeOK, links, tasks
<1>3. ASSUME NEW p \in Peer, Dial(p) PROVE TypeOK'
  BY <1>3 DEF TypeOK, tasks, Dial
<1>4. ASSUME NEW p \in Peer, DialEnds(p) PROVE TypeOK'
  <2>1. connection' \in [Peer -> {"open", "closed"}] /\ probe' \in Probes \cup {NoProbe}
        /\ (probe # NoProbe => probe' # NoProbe)
    BY <1>4, ConnectionTyped DEF DialEnds, TypeOK, Known
  <2> QED
    BY <1>4, <2>1 DEF DialEnds, TypeOK, links, tasks
<1>5. ASSUME NEW t \in Task, NEW p \in Peer, NEW ports \in Announcements, Announce(t, p, ports)
      PROVE TypeOK'
  BY <1>5 DEF TypeOK, links, NoJob, Jobs, Announce, Begin, At, Goto
<1>6. ASSUME NEW t \in Task, NEW k \in Key, AskRemoval(t, k) PROVE TypeOK'
  BY <1>6 DEF TypeOK, links, NoJob, Jobs, AskRemoval, Begin, At, Goto
<1>7. ASSUME NEW t \in Task, NEW p \in Peer, AskInsertion(t, p)
      PROVE TypeOK'
  BY <1>7 DEF TypeOK, links, Jobs, AskInsertion, Begin, At, Goto
<1>8. ASSUME NEW t \in Task, Insert(t) PROVE TypeOK'
  <2>1. job[t].peer \in Peer
    BY <1>8 DEF TypeOK, Shape, Insert, At, Jobs, NoJob
  <2>2. connection' \in [Peer -> {"open", "closed"}] /\ used' = used \cup {job[t].peer}
        /\ peers' = [peers EXCEPT ![KeyOf[job[t].peer]] = job[t].peer]
    BY <1>8, <2>1 DEF TypeOK, Insert
  <2>3. /\ \A k \in Key : peers'[k] = None \/ (peers'[k] \in used' /\ KeyOf[peers'[k]] = k)
        /\ peers' \in [Key -> Peer \cup {None}] /\ used' \subseteq Peer
    BY <2>1, <2>2 DEF TypeOK
  <2> QED
    BY <1>8, <2>2, <2>3 DEF TypeOK, Insert, Finish, At, Goto, NoJob
<1>9. ASSUME NEW t \in Task, Refuse(t) PROVE TypeOK'
  BY <1>9 DEF TypeOK, links, Refuse, Finish, At, Goto
<1>10. ASSUME NEW remap \in Remaps, SetBind(remap[1], remap[2])
       PROVE TypeOK'
  <2>1. remap[1] \in Port /\ remap[2] \in Local \cup {AnyPort, None}
    BY <1>10
  <2> DEFINE released == [p \in Peer |-> IF p \in Known THEN [bindings[p] EXCEPT ![remap[1]] = None]
                                         ELSE bindings[p]]
  <2>2. released \in Tables
    BY <2>1 DEF TypeOK, Tables
  <2> DEFINE wanted == IF remap[2] = None THEN remap[1] ELSE remap[2]
             claimants == {p \in Known : remap[1] \in exposed_ports[p]}
  <2>3. bindings' \in Bound(released, remap[1], wanted, claimants) /\ claimants \in SUBSET Peer
    BY <1>10 DEF SetBind, Known
  <2> HIDE DEF released, wanted, claimants
  <2>4. bindings' \in Tables
    BY <2>1, <2>2, <2>3, BoundFacts
  <2> QED
    BY <1>10, <2>1, <2>4 DEF TypeOK, SetBind, Tables, tasks, links
<1>11. ASSUME NEW t \in Task, Remove(t) PROVE TypeOK'
  <2>1. job[t].key \in Key
    BY <1>11 DEF TypeOK, Remove, Jobs, NoJob
  <2>2. bindings' \in Tables
    BY <1>11, <2>1, WithoutTyped DEF Remove, TypeOK, Tables
  <2> QED
    BY <1>11, <2>1, <2>2, EvictTyped DEF TypeOK, Remove, Finish, At, Goto, NoJob, Tables
<1>12. ASSUME NEW t \in Task, Update(t) PROVE TypeOK'
  BY <1>12 DEF TypeOK, links, Jobs, Update, Release, At, Goto
<1>13. ASSUME NEW t \in Task, NEW port \in Port, Bind(t, port) PROVE TypeOK'
  <2>1. job[t].peer \in Peer
    BY <1>13 DEF TypeOK, Bind, At, Jobs, NoJob
  <2>2. bindings' \in Bound(bindings, port, LocalFor(port), {job[t].peer}) /\ bindings \in Tables
    BY <1>13 DEF Bind, TypeOK, Tables
  <2>3. bindings' \in Tables
    BY <2>1, <2>2, BoundFacts
  <2> QED
    BY <1>13, <2>3 DEF TypeOK, Bind, Tables, links
<1>14. ASSUME NEW t \in Task, NEW port \in Port, Probe(t, port)
       PROVE TypeOK'
  <2>1. probe' \in Probes /\ probe' # NoProbe
    BY <1>14 DEF Probe, Holders, Known, Probes, NoProbe
  <2> QED
    BY <1>14, <2>1 DEF TypeOK, Probe, At, Goto, links
<1>15. ASSUME NEW t \in Task, Answer(t) PROVE TypeOK'
  <2>1. job[t].peer \in Peer /\ KeyOf[job[t].peer] \in Key
    BY <1>15 DEF TypeOK, Answer, At, Jobs, NoJob
  <2>2. bindings' \in Tables
    BY <1>15, <2>1, WithoutTyped DEF Answer, TypeOK, Tables
  <2> QED
    BY <1>15, <2>1, <2>2, EvictTyped DEF TypeOK, Answer, Finish, At, Goto, NoJob, Tables
<1>16. ASSUME NEW t \in Task, NoAnswer(t) PROVE TypeOK'
  <2>1. probe.holder \in Peer /\ KeyOf[probe.holder] \in Key /\ probe.port \in Port
    BY <1>16 DEF TypeOK, NoAnswer, At, Probes
  <2>2. job[t].peer \in Peer
    BY <1>16 DEF TypeOK, NoAnswer, At, Jobs, NoJob
  <2>3. /\ bindings' \in Bound(Without(bindings, KeyOf[probe.holder]), probe.port,
                               LocalFor(probe.port), {job[t].peer})
        /\ Without(bindings, KeyOf[probe.holder]) \in Tables
    BY <1>16, <2>1, WithoutTyped DEF NoAnswer, TypeOK, Tables
  <2>4. bindings' \in Tables
    BY <2>1, <2>2, <2>3, BoundFacts
  <2> QED
    BY <1>16, <2>1, <2>4, EvictTyped DEF TypeOK, NoAnswer, At, Goto, Tables, links
<1>17. ASSUME NEW t \in Task, Updated(t) PROVE TypeOK'
  BY <1>17 DEF TypeOK, links, Jobs, Updated, Finish, At, Goto
<1>18. CASE UNCHANGED vars
  BY <1>18 DEF TypeOK, links, tasks, vars
<1> QED
  BY <1>1, <1>2, <1>3, <1>4, <1>5, <1>6, <1>7, <1>8, <1>9,
     <1>10, <1>11, <1>12, <1>13, <1>14, <1>15, <1>16, <1>17, <1>18
  DEF Next, Serve

(* Every step keeps Shape.                                                     *)
LEMMA ShapeStep ==
  ASSUME TypeOK, Shape, [Next]_vars
  PROVE  Shape'
<1> USE BindingsAssumption
<1>1. ASSUME NEW p \in Peer, Disconnect(p) PROVE Shape'
  BY <1>1 DEF Shape, Disconnect, Connection
<1>2. ASSUME NEW p \in Peer, Reconnect(p) PROVE Shape'
  BY <1>2 DEF TypeOK, Shape, Known, Reconnect, Connection
<1>3. ASSUME NEW p \in Peer, Dial(p) PROVE Shape'
  BY <1>3 DEF Shape, tasks, Dial
<1>4. ASSUME NEW p \in Peer, DialEnds(p) PROVE Shape'
  BY <1>4 DEF TypeOK, Shape, Probes, DialEnds, Connection
<1>5. ASSUME NEW t \in Task, NEW p \in Peer, NEW ports \in Announcements, Announce(t, p, ports)
      PROVE Shape'
  BY <1>5 DEF TypeOK, Shape, links, Announce, Begin, At, Goto
<1>6. ASSUME NEW t \in Task, NEW k \in Key, AskRemoval(t, k) PROVE Shape'
  BY <1>6 DEF TypeOK, Shape, links, AskRemoval, Begin, At, Goto
<1>7. ASSUME NEW t \in Task, NEW p \in Peer, AskInsertion(t, p) PROVE Shape'
  BY <1>7 DEF TypeOK, Shape, links, AskInsertion, Begin, At, Goto
<1>8. ASSUME NEW t \in Task, Insert(t) PROVE Shape'
  BY <1>8 DEF TypeOK, Shape, NoJob, Insert, Finish, At, Goto
<1>9. ASSUME NEW t \in Task, Refuse(t) PROVE Shape'
  BY <1>9 DEF TypeOK, Shape, links, NoJob, Refuse, Finish, At, Goto
<1>10. ASSUME NEW remap \in Remaps, SetBind(remap[1], remap[2]) PROVE Shape'
  <2> DEFINE claimants == {p \in Known : remap[1] \in exposed_ports[p]}
             released == [p \in Peer |-> IF p \in Known THEN [bindings[p] EXCEPT ![remap[1]] = None]
                                         ELSE bindings[p]]
  <2>1. remap[1] \in Port /\ remap[2] \in Local \cup {AnyPort, None}
    BY <1>10
  <2>2. released \in Tables /\ claimants \subseteq Peer
    BY <2>1 DEF TypeOK, Tables, Known
  <2>3. \A p \in Peer \ used : p \notin Known
    BY DEF TypeOK, Known
  <2>4. \A p \in Peer \ used : bindings'[p] = released[p]
    <3>1. PICK wanted : bindings' \in Bound(released, remap[1], wanted, claimants)
      BY <1>10 DEF SetBind
    <3> HIDE DEF released, claimants
    <3>2. \A p \in Peer \ claimants : bindings'[p] = released[p]
      BY <2>1, <2>2, <3>1, BoundFacts
    <3> QED
      BY <2>3, <3>2 DEF claimants
  <2> QED
    BY <1>10, <2>3, <2>4 DEF TypeOK, Shape, SetBind, tasks, links
<1>11. ASSUME NEW t \in Task, Remove(t) PROVE Shape'
  BY <1>11 DEF TypeOK, Shape, NoJob, Remove, Evict, Without, Finish, Goto
<1>12. ASSUME NEW t \in Task, Update(t) PROVE Shape'
  BY <1>12 DEF TypeOK, Shape, links, Update, Release, Goto
<1>13. ASSUME NEW t \in Task, NEW port \in Port, Bind(t, port) PROVE Shape'
  <2>1. job[t].peer \in used /\ used \subseteq Peer
    BY <1>13 DEF TypeOK, Shape, Bind, At
  <2>2. bindings' \in Bound(bindings, port, LocalFor(port), {job[t].peer}) /\ bindings \in Tables
    BY <1>13 DEF Bind, TypeOK, Tables
  <2>3. \A p \in Peer \ {job[t].peer} : bindings'[p] = bindings[p]
    BY <2>1, <2>2, BoundFacts
  <2> QED
    <3>1. ASSUME NEW p \in Peer \ used
          PROVE  connection'[p] = "closed" /\ exposed_ports'[p] = {} /\ bindings'[p] = NoBinding
      BY <1>13, <2>1, <2>3 DEF Shape, Bind, links
    <3>2. /\ \A u \in Task : bind_lock = u => u = t
          /\ todo' \subseteq todo /\ used' = used /\ job' = job /\ pc' = pc
          /\ bind_lock' = bind_lock /\ pc[t] = "bind"
      BY <1>13 DEF TypeOK, Bind, At
    <3> QED
      BY <3>1, <3>2 DEF TypeOK, Shape
<1>14. ASSUME NEW t \in Task, NEW port \in Port, Probe(t, port) PROVE Shape'
  BY <1>14 DEF Shape, links, Probe, At, Goto
<1>15. ASSUME NEW t \in Task, Answer(t) PROVE Shape'
  BY <1>15 DEF TypeOK, Shape, NoJob, Answer, Evict, Without, Finish, At, Goto
<1>16. ASSUME NEW t \in Task, NoAnswer(t) PROVE Shape'
  <2>1. probe.holder \in Peer /\ KeyOf[probe.holder] \in Key /\ probe.port \in Port
    BY <1>16 DEF TypeOK, NoAnswer, At, Probes
  <2>2. job[t].peer \in used /\ used \subseteq Peer
    BY <1>16 DEF TypeOK, Shape, NoAnswer, At
  <2>3. /\ bindings' \in Bound(Without(bindings, KeyOf[probe.holder]), probe.port,
                               LocalFor(probe.port), {job[t].peer})
        /\ Without(bindings, KeyOf[probe.holder]) \in Tables
    BY <1>16, <2>1, WithoutTyped DEF NoAnswer, TypeOK, Tables
  <2>4. \A p \in Peer \ {job[t].peer} : bindings'[p] = Without(bindings, KeyOf[probe.holder])[p]
    BY <2>1, <2>2, <2>3, BoundFacts
  <2> QED
    <3>1. ASSUME NEW p \in Peer \ used
          PROVE  connection'[p] = "closed" /\ exposed_ports'[p] = {} /\ bindings'[p] = NoBinding
      BY <1>16, <2>1, <2>2, <2>4 DEF TypeOK, Shape, NoAnswer, Evict, Without
    <3>2. /\ \A u \in Task : bind_lock = u => u = t
          /\ todo' \subseteq todo /\ used' = used /\ job' = job
          /\ bind_lock' = bind_lock /\ pc' = [pc EXCEPT ![t] = "bind"]
          /\ job[t].kind = "announce"
      BY <1>16 DEF TypeOK, NoAnswer, At, Goto
    <3> QED
      BY <3>1, <3>2 DEF TypeOK, Shape
<1>17. ASSUME NEW t \in Task, Updated(t) PROVE Shape'
  BY <1>17 DEF TypeOK, Shape, links, NoJob, Updated, Finish, At, Goto
<1>18. CASE UNCHANGED vars
  BY <1>18 DEF Shape, links, tasks, vars
<1> QED
  BY <1>1, <1>2, <1>3, <1>4, <1>5, <1>6, <1>7, <1>8, <1>9,
     <1>10, <1>11, <1>12, <1>13, <1>14, <1>15, <1>16, <1>17, <1>18
  DEF Next, Serve

(* An eviction makes the peer of the key unknown and nobody else.              *)
LEMMA KnownAfterEvict ==
  ASSUME TypeOK, NEW k \in Key, Evict(k)
  PROVE  Known' = Known \ {peers[k]}
BY BindingsAssumption DEF TypeOK, Evict, Known

(* An insertion makes no peer known that has a listener.                       *)
LEMMA KnownAfterInsert ==
  ASSUME TypeOK, Shape, NEW t \in Task, Insert(t)
  PROVE  \A p \in Known' : p \in Known \/ bindings'[p] = NoBinding
<1>1. job[t].peer \in Peer \ used
  BY DEF TypeOK, Shape, Insert, At, Jobs, NoJob
<1> QED
  BY <1>1, BindingsAssumption DEF TypeOK, Shape, Insert, Known

(* AsRemapped, at any time.                                                    *)
Mapped ==
  \A p \in Known, port \in Port :
    bindings[p][port] # None => LocalFor(port) \in {AnyPort, bindings[p][port]}

(* The ports for which a peer may have listeners: those of the announcement    *)
(* that is being applied, if it is this peer's, or else of the last.           *)
Due(p) ==
  IF bind_lock \in Task /\ job[bind_lock].peer = p THEN job[bind_lock].ports
  ELSE exposed_ports[p]

(* AsAnnounced, at any time.                                                   *)
Applied ==
  \A p \in Known, port \in Port : bindings[p][port] # None => port \in Due(p)

(* Every step keeps Mapped: a listener is made where LocalFor says, and set_bind *)
(* releases every listener of the port that it remaps.                         *)
LEMMA MappedStep ==
  ASSUME TypeOK, Shape, Mapped, [Next]_vars
  PROVE  Mapped'
<1> USE BindingsAssumption
<1>1. ASSUME NEW p \in Peer, Disconnect(p) PROVE Mapped'
  BY <1>1 DEF Mapped, LocalFor, Known, Disconnect
<1>2. ASSUME NEW p \in Peer, Reconnect(p) PROVE Mapped'
  BY <1>2 DEF Mapped, LocalFor, Known, Reconnect
<1>3. ASSUME NEW p \in Peer, Dial(p) PROVE Mapped'
  BY <1>3 DEF Mapped, LocalFor, Known, Dial
<1>4. ASSUME NEW p \in Peer, DialEnds(p) PROVE Mapped'
  BY <1>4 DEF Mapped, LocalFor, Known, DialEnds
<1>5. ASSUME NEW t \in Task, NEW p \in Peer, NEW ports \in Announcements, Announce(t, p, ports)
      PROVE Mapped'
  BY <1>5 DEF Mapped, LocalFor, Known, Announce, Begin
<1>6. ASSUME NEW t \in Task, NEW k \in Key, AskRemoval(t, k) PROVE Mapped'
  BY <1>6 DEF Mapped, LocalFor, Known, AskRemoval, Begin
<1>7. ASSUME NEW t \in Task, NEW p \in Peer, AskInsertion(t, p)
      PROVE Mapped'
  BY <1>7 DEF Mapped, LocalFor, Known, AskInsertion, Begin
<1>8. ASSUME NEW t \in Task, Insert(t) PROVE Mapped'
  <2>1. \A p \in Known' : p \in Known \/ \A q \in Port : bindings'[p][q] = None
    BY <1>8, KnownAfterInsert DEF NoBinding
  <2>2. bindings' = bindings /\ \A q \in Port : LocalFor(q)' = LocalFor(q)
    BY <1>8 DEF Insert, LocalFor
  <2> QED
    BY <2>1, <2>2 DEF Mapped
<1>9. ASSUME NEW t \in Task, Refuse(t) PROVE Mapped'
  BY <1>9 DEF Mapped, LocalFor, Known, Refuse
<1>10. ASSUME NEW remap \in Remaps, SetBind(remap[1], remap[2])
       PROVE Mapped'
  <2> DEFINE released == [p \in Peer |-> IF p \in Known THEN [bindings[p] EXCEPT ![remap[1]] = None]
                                         ELSE bindings[p]]
             wanted == IF remap[2] = None THEN remap[1] ELSE remap[2]
             claimants == {p \in Known : remap[1] \in exposed_ports[p]}
  <2>1. remap[1] \in Port /\ remap[2] \in Local \cup {AnyPort, None}
    BY <1>10
  <2>2. released \in Tables
    BY <2>1 DEF TypeOK, Tables
  <2>3. bindings' \in Bound(released, remap[1], wanted, claimants) /\ claimants \in SUBSET Peer
    BY <1>10 DEF SetBind, Known
  <2>4. /\ \A p \in Known : released[p] \in [Port -> Local \cup {None}] /\ released[p][remap[1]] = None
        /\ \A p \in Known, q \in Port \ {remap[1]} : released[p][q] = bindings[p][q]
        /\ claimants \subseteq Known
    BY <2>1 DEF TypeOK, Known
  <2>5. Known' = Known /\ Known \subseteq Peer
    BY <1>10 DEF SetBind, Known
  <2>6. LocalFor(remap[1])' = wanted
    BY <1>10, <2>1 DEF SetBind, LocalFor, TypeOK
  <2>7. \A q \in Port \ {remap[1]} : LocalFor(q)' = LocalFor(q)
    BY <1>10, <2>1 DEF SetBind, LocalFor, TypeOK
  <2> HIDE DEF released, wanted, claimants
  <2>8. /\ \A p \in Peer \ claimants : bindings'[p] = released[p]
        /\ \A p \in claimants, q \in Port \ {remap[1]} : bindings'[p][q] = released[p][q]
        /\ \A p \in claimants : bindings'[p][remap[1]] # None
             => wanted \in {AnyPort, bindings'[p][remap[1]]}
    BY <2>1, <2>2, <2>3, BoundFacts
  <2>9. ASSUME NEW p \in Known, bindings'[p][remap[1]] # None
        PROVE  wanted \in {AnyPort, bindings'[p][remap[1]]}
    BY <2>4, <2>5, <2>8, <2>9
  <2>10. \A p \in Known, q \in Port \ {remap[1]} : bindings'[p][q] = bindings[p][q]
    BY <2>4, <2>5, <2>8
  <2>11. ASSUME NEW p \in Known', NEW q \in Port, bindings'[p][q] # None
         PROVE  LocalFor(q)' \in {AnyPort, bindings'[p][q]}
    <3>1. CASE q = remap[1]
      BY <2>5, <2>6, <2>9, <2>11, <3>1
    <3>2. CASE q # remap[1]
      BY <2>5, <2>7, <2>10, <2>11, <3>2 DEF Mapped
    <3> QED
      BY <3>1, <3>2
  <2> QED
    BY <2>11 DEF Mapped, LocalFor
<1>11. ASSUME NEW t \in Task, Remove(t) PROVE Mapped'
  <2>1. job[t].key \in Key
    BY <1>11 DEF TypeOK, Remove, Jobs, NoJob
  <2> QED
    BY <1>11, <2>1, KnownAfterEvict DEF Mapped, LocalFor, Remove, Without, Known
<1>12. ASSUME NEW t \in Task, Update(t) PROVE Mapped'
  <2>1. Known' = Known /\ job[t].peer \in Peer /\ Known \subseteq Peer
    BY <1>12 DEF Update, Known, TypeOK, Jobs, NoJob
  <2> QED
    BY <1>12, <2>1 DEF Mapped, LocalFor, Update, Release, TypeOK
<1>13. ASSUME NEW t \in Task, NEW port \in Port, Bind(t, port) PROVE Mapped'
  <2>1. Known' = Known /\ job[t].peer \in Peer /\ Known \subseteq Peer
    BY <1>13 DEF Bind, At, Known, TypeOK, Jobs, NoJob
  <2>2. bindings' \in Bound(bindings, port, LocalFor(port), {job[t].peer}) /\ bindings \in Tables
    BY <1>13 DEF Bind, TypeOK, Tables
  <2>3. /\ \A p \in Peer \ {job[t].peer} : bindings'[p] = bindings[p]
        /\ \A q \in Port \ {port} : bindings'[job[t].peer][q] = bindings[job[t].peer][q]
        /\ bindings'[job[t].peer][port] # None
             => LocalFor(port) \in {AnyPort, bindings'[job[t].peer][port]}
    BY <2>1, <2>2, BoundFacts
  <2>4. \A q \in Port : LocalFor(q)' = LocalFor(q)
    BY <1>13 DEF Bind, LocalFor
  <2> QED
    BY <2>1, <2>3, <2>4 DEF Mapped, LocalFor
<1>14. ASSUME NEW t \in Task, NEW port \in Port, Probe(t, port)
       PROVE Mapped'
  BY <1>14 DEF Mapped, LocalFor, Known, Probe
<1>15. ASSUME NEW t \in Task, Answer(t) PROVE Mapped'
  <2>1. KeyOf[job[t].peer] \in Key
    BY <1>15 DEF TypeOK, Answer, At, Jobs, NoJob
  <2> QED
    BY <1>15, <2>1, KnownAfterEvict DEF Mapped, LocalFor, Answer, Without, Known
<1>16. ASSUME NEW t \in Task, NoAnswer(t) PROVE Mapped'
  <2> DEFINE k == KeyOf[probe.holder]
             p0 == job[t].peer
             port == probe.port
  <2>1. k \in Key /\ port \in Port /\ p0 \in Peer
    BY <1>16 DEF TypeOK, NoAnswer, At, Probes, Jobs, NoJob
  <2>2. bindings' \in Bound(Without(bindings, k), port, LocalFor(port), {p0})
    BY <1>16 DEF NoAnswer
  <2>3. Known' = Known \ {peers[k]} /\ Known \subseteq Peer
    BY <1>16, <2>1, KnownAfterEvict DEF NoAnswer, Known
  <2>4. Without(bindings, k) \in Tables /\ \A p \in Known' : Without(bindings, k)[p] = bindings[p]
    BY <2>1, <2>3, WithoutTyped DEF TypeOK, Tables, Without
  <2>5. \A q \in Port : LocalFor(q)' = LocalFor(q)
    BY <1>16 DEF NoAnswer, LocalFor
  <2> HIDE DEF k, port, p0
  <2>6. /\ \A p \in Peer \ {p0} : bindings'[p] = Without(bindings, k)[p]
        /\ \A q \in Port \ {port} : bindings'[p0][q] = Without(bindings, k)[p0][q]
        /\ bindings'[p0][port] # None => LocalFor(port) \in {AnyPort, bindings'[p0][port]}
    BY <2>1, <2>2, <2>4, BoundFacts
  <2> QED
    BY <2>1, <2>3, <2>4, <2>5, <2>6 DEF Mapped, LocalFor
<1>17. ASSUME NEW t \in Task, Updated(t) PROVE Mapped'
  BY <1>17 DEF Mapped, LocalFor, Known, Updated
<1>18. CASE UNCHANGED vars
  BY <1>18 DEF Mapped, LocalFor, Known, vars
<1> QED
  BY <1>1, <1>2, <1>3, <1>4, <1>5, <1>6, <1>7, <1>8, <1>9,
     <1>10, <1>11, <1>12, <1>13, <1>14, <1>15, <1>16, <1>17, <1>18
  DEF Next, Serve

(* Every step keeps Applied: what an announcement drops is released before     *)
(* anything is bound, and an announcer that is refused is not known any more.  *)
LEMMA AppliedStep ==
  ASSUME TypeOK, Shape, Applied, [Next]_vars
  PROVE  Applied'
<1> USE BindingsAssumption
<1>1. ASSUME NEW p \in Peer, Disconnect(p) PROVE Applied'
  BY <1>1 DEF Applied, Due, Known, Disconnect
<1>2. ASSUME NEW p \in Peer, Reconnect(p) PROVE Applied'
  BY <1>2 DEF Applied, Due, Known, Reconnect
<1>3. ASSUME NEW p \in Peer, Dial(p) PROVE Applied'
  BY <1>3 DEF Applied, Due, Known, tasks, Dial
<1>4. ASSUME NEW p \in Peer, DialEnds(p) PROVE Applied'
  BY <1>4 DEF Applied, Due, Known, DialEnds
<1>5. ASSUME NEW t \in Task, NEW p \in Peer, NEW ports \in Announcements, Announce(t, p, ports)
      PROVE Applied'
  <2>1. \A h \in Known : Due(h)' = Due(h)
    BY <1>5 DEF TypeOK, Shape, Announce, Begin, At, Due
  <2> QED
    BY <1>5, <2>1 DEF Applied, Known, Announce, Begin
<1>6. ASSUME NEW t \in Task, NEW k \in Key, AskRemoval(t, k) PROVE Applied'
  <2>1. \A p \in Known : Due(p)' = Due(p)
    BY <1>6 DEF TypeOK, Shape, AskRemoval, Begin, At, Due
  <2> QED
    BY <1>6, <2>1 DEF Applied, Known, AskRemoval, Begin
<1>7. ASSUME NEW t \in Task, NEW p \in Peer, AskInsertion(t, p)
      PROVE Applied'
  <2>1. \A h \in Known : Due(h)' = Due(h)
    BY <1>7 DEF TypeOK, Shape, AskInsertion, Begin, At, Due
  <2> QED
    BY <1>7, <2>1 DEF Applied, Known, AskInsertion, Begin
<1>8. ASSUME NEW t \in Task, Insert(t) PROVE Applied'
  <2>1. job[t].kind = "insert" /\ (\A u \in Task : bind_lock = u => u # t)
    BY <1>8 DEF TypeOK, Shape, Insert, At
  <2>2. \A p \in Known : Due(p)' = Due(p)
    BY <1>8, <2>1 DEF Due, Insert, Finish, TypeOK
  <2>3. \A p \in Known' : p \in Known \/ \A q \in Port : bindings'[p][q] = None
    BY <1>8, KnownAfterInsert DEF NoBinding
  <2>4. bindings' = bindings
    BY <1>8 DEF Insert
  <2> QED
    BY <2>2, <2>3, <2>4 DEF Applied
<1>9. ASSUME NEW t \in Task, Refuse(t) PROVE Applied'
  <2>1. \A p \in Known : Due(p)' = Due(p)
    BY <1>9 DEF TypeOK, Shape, Refuse, Finish, At, Due
  <2> QED
    BY <1>9, <2>1 DEF Applied, Known, Refuse, Finish
<1>10. ASSUME NEW remap \in Remaps, SetBind(remap[1], remap[2])
       PROVE Applied'
  <2> DEFINE released == [p \in Peer |-> IF p \in Known THEN [bindings[p] EXCEPT ![remap[1]] = None]
                                         ELSE bindings[p]]
             wanted == IF remap[2] = None THEN remap[1] ELSE remap[2]
             claimants == {p \in Known : remap[1] \in exposed_ports[p]}
  <2>1. remap[1] \in Port /\ remap[2] \in Local \cup {AnyPort, None}
    BY <1>10
  <2>2. released \in Tables
    BY <2>1 DEF TypeOK, Tables
  <2>3. bindings' \in Bound(released, remap[1], wanted, claimants) /\ claimants \in SUBSET Peer
    BY <1>10 DEF SetBind, Known
  <2>4. \A p \in Known, q \in Port : released[p][q] # None => q \in exposed_ports[p]
    BY <1>10, <2>1 DEF TypeOK, Known, SetBind, Applied, Due
  <2>5. Known' = Known /\ Known \subseteq Peer /\ \A p \in Known : Due(p)' = exposed_ports[p]
    BY <1>10 DEF SetBind, Known, Due, tasks
  <2>6. \A p \in claimants : remap[1] \in exposed_ports[p]
    OBVIOUS
  <2> HIDE DEF released, wanted, claimants
  <2>7. /\ \A p \in Peer \ claimants : bindings'[p] = released[p]
        /\ \A p \in claimants, q \in Port \ {remap[1]} : bindings'[p][q] = released[p][q]
    BY <2>1, <2>2, <2>3, BoundFacts
  <2> QED
    BY <2>4, <2>5, <2>6, <2>7 DEF Applied
<1>11. ASSUME NEW t \in Task, Remove(t) PROVE Applied'
  <2>1. job[t].key \in Key
    BY <1>11 DEF TypeOK, Remove, Jobs, NoJob
  <2> QED
    BY <1>11, <2>1, KnownAfterEvict DEF Applied, Due, Remove, Without, Known
<1>12. ASSUME NEW t \in Task, Update(t) PROVE Applied'
  <2>1. Known' = Known /\ job[t].peer \in Peer /\ Known \subseteq Peer
    BY <1>12 DEF Update, Known, TypeOK, Jobs, NoJob
  <2> QED
    BY <1>12, <2>1 DEF Applied, Due, Update, Release, TypeOK
<1>13. ASSUME NEW t \in Task, NEW port \in Port, Bind(t, port)
       PROVE Applied'
  <2>1. Known' = Known /\ job[t].peer \in Peer /\ Known \subseteq Peer
    BY <1>13 DEF Bind, At, Known, TypeOK, Jobs, NoJob
  <2>2. bindings' \in Bound(bindings, port, LocalFor(port), {job[t].peer}) /\ bindings \in Tables
    BY <1>13 DEF Bind, TypeOK, Tables
  <2>3. /\ \A p \in Peer \ {job[t].peer} : bindings'[p] = bindings[p]
        /\ \A q \in Port \ {port} : bindings'[job[t].peer][q] = bindings[job[t].peer][q]
    BY <2>1, <2>2, BoundFacts
  <2>4. port \in Due(job[t].peer) /\ \A p \in Known : Due(p)' = Due(p)
    BY <1>13 DEF Bind, At, Due, TypeOK, Shape
  <2> QED
    BY <2>1, <2>3, <2>4 DEF Applied
<1>14. ASSUME NEW t \in Task, NEW port \in Port, Probe(t, port)
       PROVE Applied'
  BY <1>14 DEF Applied, Due, Known, Probe
<1>15. ASSUME NEW t \in Task, Answer(t) PROVE Applied'
  <2> DEFINE k == KeyOf[job[t].peer]
  <2>1. k \in Key /\ job[t].peer \in Peer /\ bind_lock = t
    BY <1>15 DEF TypeOK, Answer, At, Jobs, NoJob
  <2>2. Known' = Known \ {peers[k]} /\ \A p \in Known' : bindings'[p] = bindings[p]
    BY <1>15, <2>1, KnownAfterEvict DEF Answer, Without, Known
  <2>3. job[t].peer \notin Known'
    BY <2>1, <2>2 DEF Known
  <2>4. \A p \in Known' : Due(p)' = Due(p)
    BY <1>15, <2>1, <2>3 DEF Answer, Due
  <2> QED
    BY <2>2, <2>4 DEF Applied
<1>16. ASSUME NEW t \in Task, NoAnswer(t) PROVE Applied'
  <2> DEFINE k == KeyOf[probe.holder]
             p0 == job[t].peer
             port == probe.port
  <2>1. k \in Key /\ port \in Port /\ p0 \in Peer
    BY <1>16 DEF TypeOK, NoAnswer, At, Probes, Jobs, NoJob
  <2>2. bindings' \in Bound(Without(bindings, k), port, LocalFor(port), {p0})
    BY <1>16 DEF NoAnswer
  <2>3. Known' = Known \ {peers[k]} /\ Known \subseteq Peer
    BY <1>16, <2>1, KnownAfterEvict DEF NoAnswer, Known
  <2>4. Without(bindings, k) \in Tables /\ \A p \in Known' : Without(bindings, k)[p] = bindings[p]
    BY <2>1, <2>3, WithoutTyped DEF TypeOK, Tables, Without
  <2>5. port \in Due(p0) /\ \A p \in Known : Due(p)' = Due(p)
    BY <1>16 DEF NoAnswer, At, Due, TypeOK, Shape
  <2> HIDE DEF k, port, p0
  <2>6. /\ \A p \in Peer \ {p0} : bindings'[p] = Without(bindings, k)[p]
        /\ \A q \in Port \ {port} : bindings'[p0][q] = Without(bindings, k)[p0][q]
    BY <2>1, <2>2, <2>4, BoundFacts
  <2> QED
    BY <2>1, <2>3, <2>4, <2>5, <2>6 DEF Applied
<1>17. ASSUME NEW t \in Task, Updated(t) PROVE Applied'
  <2>1. Known' = Known /\ job[t].peer \in Peer /\ Known \subseteq Peer
    BY <1>17 DEF Updated, At, Known, TypeOK, Jobs, NoJob
  <2>2. \A p \in Known : Due(p)' = Due(p)
    BY <1>17, <2>1 DEF Updated, At, Finish, Due, TypeOK
  <2> QED
    BY <1>17, <2>1, <2>2 DEF Applied, Updated
<1>18. CASE UNCHANGED vars
  BY <1>18 DEF Applied, Due, Known, tasks, vars
<1> QED
  BY <1>1, <1>2, <1>3, <1>4, <1>5, <1>6, <1>7, <1>8, <1>9,
     <1>10, <1>11, <1>12, <1>13, <1>14, <1>15, <1>16, <1>17, <1>18
  DEF Next, Serve

(* Who was evicted is not known any more, under whatever key, and whoever is   *)
(* probed has another key than who announces.                                  *)
Apart ==
  /\ \A p \in removed : p \notin Known
  /\ \A t \in Task : pc[t] = "probe" => KeyOf[probe.holder] # KeyOf[job[t].peer]

LEMMA ApartStep ==
  ASSUME TypeOK, Shape, Apart, [Next]_vars
  PROVE  Apart'
<1> USE BindingsAssumption
<1>1. ASSUME NEW p \in Peer, Disconnect(p) \/ Reconnect(p) \/ DialEnds(p) PROVE Apart'
  <2>1. /\ probe' = probe \/ (\E g \in BOOLEAN : probe' = [probe EXCEPT !.gone = g])
        /\ UNCHANGED <<peers, removed, job, pc>>
    BY <1>1 DEF Disconnect, Reconnect, DialEnds, Connection
  <2>2. \A t \in Task : pc[t] = "probe" => probe \in Probes
    BY DEF TypeOK
  <2>3. probe \in Probes => probe'.holder = probe.holder
    BY <2>1 DEF Probes
  <2> QED BY <2>1, <2>2, <2>3 DEF Apart, Known
<1>2. ASSUME NEW p \in Peer, Dial(p) PROVE Apart'
  BY <1>2 DEF Apart, Known, Dial, tasks
<1>3. ASSUME NEW t \in Task, NEW j, NEW step \in {"lock", "insert"}, Begin(t, j, step) PROVE Apart'
  BY <1>3 DEF Apart, Known, Begin, At, Goto, TypeOK, links
<1>4. ASSUME NEW t \in Task, Insert(t) PROVE Apart'
  <2>1. job[t].peer \in Peer \ used
    BY <1>4 DEF TypeOK, Shape, Insert, At, Jobs, NoJob
  <2>2. \A p \in Known' : p \in Known \/ p = job[t].peer
    BY <1>4, <2>1 DEF TypeOK, Insert, Known
  <2> QED BY <1>4, <2>1, <2>2 DEF Apart, Insert, Finish, Goto, TypeOK
<1>5. ASSUME NEW t \in Task, Refuse(t) \/ Updated(t) PROVE Apart'
  BY <1>5 DEF Apart, Known, Refuse, Updated, Finish, Goto, At, TypeOK, links
<1>6. ASSUME NEW remap \in Remaps, SetBind(remap[1], remap[2]) PROVE Apart'
  BY <1>6 DEF Apart, Known, SetBind, tasks
<1>7. ASSUME NEW t \in Task, NEW k \in Key, Evict(k), UNCHANGED probe,
             NEW step \in {"idle", "bind"}, Goto(t, step),
             \A u \in Task \ {t} : job'[u] = job[u]
      PROVE  Apart'
  <2>1. Known' = Known \ {peers[k]} /\ removed' \subseteq removed \cup {peers[k]}
    BY <1>7, KnownAfterEvict DEF Evict
  <2>2. \A u \in Task : pc'[u] = "probe" => pc[u] = "probe" /\ job'[u] = job[u]
    BY <1>7 DEF Goto, TypeOK
  <2> QED BY <1>7, <2>1, <2>2 DEF Apart
<1>8. ASSUME NEW t \in Task, Remove(t) PROVE Apart'
  <2>1. job[t].key \in Key
    BY <1>8 DEF TypeOK, Remove, Jobs, NoJob
  <2> QED BY <1>7, <1>8, <2>1 DEF Remove, Finish
<1>9. ASSUME NEW t \in Task, Answer(t) \/ NoAnswer(t) PROVE Apart'
  <2>1. PICK k \in Key : Evict(k)
    <3>1. job[t].peer \in Peer /\ probe.holder \in Peer
      BY <1>9 DEF TypeOK, Answer, NoAnswer, At, Jobs, NoJob, Probes
    <3> QED BY <1>9, <3>1 DEF Answer, NoAnswer
  <2>2. Known' = Known \ {peers[k]} /\ removed' \subseteq removed \cup {peers[k]}
    BY <2>1, KnownAfterEvict DEF Evict
  <2>3. \A u \in Task : pc'[u] # "probe"
    BY <1>9 DEF Answer, NoAnswer, At, Finish, Goto, TypeOK
  <2> QED BY <2>2, <2>3 DEF Apart
<1>10. ASSUME NEW t \in Task, Update(t) PROVE Apart'
  BY <1>10 DEF Apart, Known, Update, Goto, TypeOK, links
<1>11. ASSUME NEW t \in Task, NEW port \in Port, Bind(t, port) PROVE Apart'
  BY <1>11 DEF Apart, Known, Bind, links
<1>12. ASSUME NEW t \in Task, NEW port \in Port, Probe(t, port) PROVE Apart'
  <2>1. KeyOf[probe'.holder] # KeyOf[job[t].peer]
    BY <1>12 DEF Probe, Holders
  <2>2. \A u \in Task : pc'[u] = "probe" => u = t
    BY <1>12 DEF Probe, At, Goto, TypeOK
  <2> QED BY <1>12, <2>1, <2>2 DEF Apart, Known, Probe, links
<1>13. CASE UNCHANGED vars
  BY <1>13 DEF Apart, Known, vars, tasks
<1> QED
  BY <1>1, <1>2, <1>3, <1>4, <1>5, <1>6, <1>8, <1>9, <1>10, <1>11, <1>12, <1>13
  DEF Next, Serve, Announce, AskRemoval, AskInsertion

(* The inductive invariant.                                                    *)
Inv == TypeOK /\ Shape /\ Mapped /\ Applied /\ Apart

(* The invariant holds whatever peers, requests and the network do.            *)
THEOREM Invariance == Spec => []Inv
<1>1. Init => Inv
  <2> SUFFICES ASSUME Init PROVE Inv
    OBVIOUS
  <2> USE BindingsAssumption DEF Init, links, tasks
  <2>1. TypeOK
    BY DEF TypeOK, NoBinding, NoJob, NoProbe
  <2>2. Shape
    BY DEF Shape, NoJob
  <2>3. Known = {}
    BY DEF Known
  <2> QED
    BY <2>1, <2>2, <2>3 DEF Inv, Mapped, Applied, Apart
<1>2. Inv /\ [Next]_vars => Inv'
  BY TypeStep, ShapeStep, MappedStep, AppliedStep, ApartStep DEF Inv
<1> QED
  BY <1>1, <1>2, PTL DEF Spec

(* The types hold, and the one task within update_peer_ports has the lock.     *)
THEOREM ListenersTyped == Spec => []TypeOK
<1>1. Inv => TypeOK
  BY DEF Inv
<1> QED
  BY <1>1, Invariance, PTL

(* Once the lock is free, a known peer has listeners for ports of its last     *)
(* announcement only: a revocation that was applied leaves none behind.        *)
THEOREM ListenersAsAnnounced == Spec => []AsAnnounced
<1>1. Inv => AsAnnounced
  BY BindingsAssumption DEF Inv, Applied, Due, AsAnnounced
<1> QED
  BY <1>1, Invariance, PTL

(* Once the lock is free, every listener of a known peer is where set_bind has *)
(* last put its port.                                                          *)
THEOREM ListenersAsRemapped == Spec => []AsRemapped
<1>1. Inv => AsRemapped
  BY DEF Inv, Mapped, AsRemapped
<1> QED
  BY <1>1, Invariance, PTL

-----------------------------------------------------------------------------
(* What lasts of an eviction.                                                  *)

(* An eviction that nothing follows leaves nothing of the peer.                *)
LEMMA EvictedGone ==
  ASSUME TypeOK, NEW k \in Key, Evict(k), NEW p \in removed' \ removed,
         bindings'[p] = Without(bindings, k)[p]
  PROVE  p = peers[k] /\ Gone(p)'
BY BindingsAssumption DEF TypeOK, Evict, Without, Gone

(* A peer that has nothing under way stays as it is, if it is given nothing.   *)
LEMMA StaysGone ==
  ASSUME NEW p \in Peer, Gone(p), Quiet(p),
         connection'[p] = connection[p] \/ connection'[p] = "closed",
         bindings'[p] = bindings[p], p \notin dialing',
         \A t \in Task : job'[t] = job[t] \/ job'[t].kind # "announce" \/ job'[t].peer # p
  PROVE  Gone(p)' /\ Quiet(p)'
BY DEF Gone, Quiet

LEMMA EvictKeeps ==
  ASSUME TypeOK, NEW k \in Key, Evict(k), NEW p \in removed, p \notin Known
  PROVE  connection'[p] = connection[p] \/ connection'[p] = "closed"
BY DEF TypeOK, Evict

(* Every step, for a peer that was removed before it or is removed by it.      *)
Lasts(p) ==
  /\ p \notin removed => Gone(p)'
  /\ p \in removed /\ Gone(p) /\ Quiet(p) => Gone(p)' /\ Quiet(p)'

LEMMA LastsStep ==
  ASSUME Inv, [Next]_vars, NEW p \in removed'
  PROVE  Lasts(p)
<1> USE BindingsAssumption
<1>a. TypeOK /\ Shape /\ Apart
  BY DEF Inv
<1>b. /\ removed \subseteq used /\ used \subseteq Peer
      /\ p \in removed => p \notin Known
  BY <1>a DEF TypeOK, Apart
<1>1. ASSUME NEW q \in Peer, Disconnect(q) PROVE Lasts(p)
  BY <1>1, <1>a, <1>b, StaysGone DEF Disconnect, Connection, TypeOK, Lasts, Quiet
<1>2. ASSUME NEW q \in Peer, Reconnect(q) PROVE Lasts(p)
  BY <1>2, <1>a, <1>b, StaysGone DEF Reconnect, Connection, TypeOK, Lasts, Quiet
<1>3. ASSUME NEW q \in Peer, Dial(q) PROVE Lasts(p)
  BY <1>3, <1>b, StaysGone DEF Dial, tasks, Lasts, Quiet
<1>4. ASSUME NEW q \in Peer, DialEnds(q) PROVE Lasts(p)
  BY <1>4, <1>a, <1>b, StaysGone DEF DialEnds, Connection, TypeOK, Lasts, Quiet
<1>5. ASSUME NEW t \in Task, NEW q \in Peer, NEW ports \in Announcements, Announce(t, q, ports)
      PROVE  Lasts(p)
  BY <1>5, <1>a, <1>b, StaysGone DEF Announce, Begin, TypeOK, Lasts, Quiet, Gone, links
<1>6. ASSUME NEW t \in Task, NEW j, j.kind # "announce", NEW step, Begin(t, j, step)
      PROVE  Lasts(p)
  BY <1>6, <1>a, <1>b, StaysGone DEF Begin, TypeOK, Lasts, Quiet, links
<1>s. ASSUME NEW t \in Task, (\E k \in Key : AskRemoval(t, k)) \/ (\E q \in Peer : AskInsertion(t, q))
      PROVE  Lasts(p)
  <2>1. ASSUME NEW k \in Key, AskRemoval(t, k) PROVE Lasts(p)
    <3>1. [kind |-> "remove", key |-> k].kind # "announce"
      OBVIOUS
    <3> QED BY <1>6, <2>1, <3>1 DEF AskRemoval
  <2>2. ASSUME NEW q \in Peer, AskInsertion(t, q) PROVE Lasts(p)
    <3>1. [kind |-> "insert", peer |-> q].kind # "announce"
      OBVIOUS
    <3> QED BY <1>6, <2>2, <3>1 DEF AskInsertion
  <2> QED BY <1>s, <2>1, <2>2
<1>7. ASSUME NEW t \in Task, Insert(t) PROVE Lasts(p)
  <2>1. job[t].peer \in Peer \ used
    BY <1>7, <1>a DEF TypeOK, Shape, Insert, At, Jobs, NoJob
  <2>2. connection'[p] = connection[p] /\ NoJob.kind # "announce"
    BY <1>7, <1>a, <1>b, <2>1 DEF TypeOK, Insert, NoJob
  <2> QED BY <1>7, <1>a, <1>b, <2>2, StaysGone DEF Insert, Finish, TypeOK, Lasts, Quiet
<1>8. ASSUME NEW t \in Task, Refuse(t) \/ Updated(t) PROVE Lasts(p)
  <2>1. NoJob.kind # "announce"
    BY DEF NoJob
  <2> QED BY <1>8, <1>a, <1>b, <2>1, StaysGone
          DEF Refuse, Updated, Finish, TypeOK, Lasts, Quiet, links
<1>9. ASSUME NEW remap \in Remaps, SetBind(remap[1], remap[2]) PROVE Lasts(p)
  <2> DEFINE released == [r \in Peer |-> IF r \in Known THEN [bindings[r] EXCEPT ![remap[1]] = None]
                                         ELSE bindings[r]]
             wanted == IF remap[2] = None THEN remap[1] ELSE remap[2]
             claimants == {r \in Known : remap[1] \in exposed_ports[r]}
  <2>1. remap[1] \in Port /\ released \in Tables /\ claimants \in SUBSET Peer
    BY <1>9, <1>a DEF TypeOK, Tables, Known
  <2>2. bindings' \in Bound(released, remap[1], wanted, claimants)
    BY <1>9 DEF SetBind
  <2>3. p \in removed => p \notin claimants /\ released[p] = bindings[p]
    BY <1>b
  <2> HIDE DEF released, wanted, claimants
  <2>4. p \in removed => bindings'[p] = bindings[p]
    BY <1>b, <2>1, <2>2, <2>3, BoundFacts
  <2> QED BY <1>9, <1>b, <2>4, StaysGone DEF SetBind, Lasts, Quiet, links, tasks
<1>10. ASSUME NEW t \in Task, NEW k \in Key, Evict(k), dialing' = dialing,
              \A u \in Task : job'[u] = job[u] \/ job'[u] = NoJob,
              (p \in removed /\ Quiet(p)) \/ p = peers[k] => bindings'[p] = Without(bindings, k)[p]
       PROVE  Lasts(p)
  <2>1. p \in removed \/ p = peers[k]
    BY <1>10 DEF Evict
  <2>2. CASE p \notin removed
    BY <1>10, <1>a, <2>1, <2>2, EvictedGone DEF Lasts
  <2>3. CASE p \in removed
    <3>1. p # peers[k]
      BY <1>a, <1>b, <2>3 DEF Known, TypeOK
    <3>2. connection'[p] = connection[p] \/ connection'[p] = "closed"
      BY <1>10, <1>a, <1>b, <2>3, EvictKeeps
    <3>3. NoJob.kind # "announce" /\ Without(bindings, k)[p] = bindings[p]
      BY <1>b, <2>3, <3>1 DEF NoJob, Without
    <3> QED BY <1>10, <1>b, <2>3, <3>2, <3>3, StaysGone DEF Lasts, Quiet
  <2> QED BY <2>2, <2>3
<1>11. ASSUME NEW t \in Task, Remove(t) PROVE Lasts(p)
  <2>1. job[t].key \in Key
    BY <1>11, <1>a DEF TypeOK, Remove, Jobs, NoJob
  <2> QED BY <1>10, <1>11, <1>a, <2>1 DEF Remove, Finish, TypeOK
<1>12. ASSUME NEW t \in Task, Answer(t) PROVE Lasts(p)
  <2>1. KeyOf[job[t].peer] \in Key
    BY <1>12, <1>a DEF TypeOK, Answer, At, Jobs, NoJob
  <2> QED BY <1>10, <1>12, <1>a, <2>1 DEF Answer, Finish, TypeOK
<1>13. ASSUME NEW t \in Task, NoAnswer(t) PROVE Lasts(p)
  <2> DEFINE k == KeyOf[probe.holder]
             p0 == job[t].peer
  <2>1. /\ k \in Key /\ p0 \in Peer /\ probe.port \in Port
        /\ KeyOf[p0] # k /\ job[t].kind = "announce"
    BY <1>13, <1>a DEF TypeOK, Apart, NoAnswer, At, Probes, Jobs, NoJob
  <2>2. p0 # peers[k]
    BY <1>a, <2>1 DEF TypeOK
  <2>3. bindings' \in Bound(Without(bindings, k), probe.port, LocalFor(probe.port), {p0})
        /\ Without(bindings, k) \in Tables
    BY <1>13, <1>a, <2>1, WithoutTyped DEF NoAnswer, TypeOK, Tables
  <2>4. \A r \in Peer \ {p0} : bindings'[r] = Without(bindings, k)[r]
    BY <2>1, <2>3, BoundFacts
  <2>5. Quiet(p) => p # p0
    BY <2>1 DEF Quiet
  <2>6. p \in Peer
    BY <1>13, <1>a, <1>b, <2>1 DEF NoAnswer, Evict, TypeOK
  <2>7. Evict(k) /\ UNCHANGED <<dialing, job>>
    BY <1>13 DEF NoAnswer
  <2> HIDE DEF k, p0
  <2> QED BY <1>10, <2>1, <2>2, <2>4, <2>5, <2>6, <2>7
<1>14. ASSUME NEW t \in Task, Update(t) PROVE Lasts(p)
  <2>1. job[t].kind = "announce" /\ UNCHANGED <<removed, links, job>>
    BY <1>14 DEF Update
  <2>2. p \in removed /\ Quiet(p) => bindings'[p] = bindings[p]
    BY <1>14, <1>b, <2>1 DEF Update, Release, Quiet, TypeOK
  <2> QED BY <1>b, <2>1, <2>2, StaysGone DEF Lasts, Quiet, links
<1>15. ASSUME NEW t \in Task, NEW port \in Port, Bind(t, port) PROVE Lasts(p)
  <2>1. job[t].kind = "announce" /\ job[t].peer \in Peer /\ UNCHANGED <<removed, links, job>>
    BY <1>15, <1>a DEF Bind, At, TypeOK, Jobs, NoJob
  <2>2. bindings' \in Bound(bindings, port, LocalFor(port), {job[t].peer}) /\ bindings \in Tables
    BY <1>15, <1>a DEF Bind, TypeOK, Tables
  <2>3. \A r \in Peer \ {job[t].peer} : bindings'[r] = bindings[r]
    BY <2>1, <2>2, BoundFacts
  <2> QED BY <1>b, <2>1, <2>3, StaysGone DEF Lasts, Quiet, links
<1>16. ASSUME NEW t \in Task, NEW port \in Port, Probe(t, port) PROVE Lasts(p)
  BY <1>16, <1>b, StaysGone DEF Probe, Lasts, Quiet, links
<1>17. CASE UNCHANGED vars
  BY <1>17, <1>b, StaysGone DEF vars, links, tasks, Lasts, Quiet
<1> QED
  BY <1>1, <1>2, <1>3, <1>4, <1>5, <1>s, <1>7, <1>8, <1>9, <1>11, <1>12, <1>13, <1>14, <1>15,
     <1>16, <1>17
  DEF Next, Serve

(* An eviction leaves a peer without connection and listeners, and a peer for  *)
(* whom nothing was under way stays so, for any peers, keys, tasks and remaps: *)
(* a dial and an announcement that began before are all that EvictedIsGone can *)
(* fail by.                                                                    *)
THEOREM EvictionIsForGood == Spec => EvictionLasts
<1>1. Inv /\ [Next]_vars => [\A p \in removed' : Lasts(p)]_vars
  BY LastsStep
<1> QED
  BY <1>1, Invariance, PTL DEF Spec, EvictionLasts, Lasts
===============================================================================
