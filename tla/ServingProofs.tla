----------------------------- MODULE ServingProofs -----------------------------
(* The table of grants.rs keeps no empty entry and implements AccessRelation,  *)
(* by itself and under the requests, evictions and streams of Serving, for any *)
(* clients, ports, keys, backends, gateways and streams; and as long as        *)
(* control requests come one at a time, no stream falls back to the default    *)
(* forward while its port is granted.                                          *)
EXTENDS Serving, GrantsLemmas

-----------------------------------------------------------------------------
(* The table.                                                                  *)

(* An entry with no grantee is never kept, whatever is called in whatever      *)
(* order.                                                                      *)
THEOREM TableHasNoEmptyEntry == TableSpec => []NoEmptyEntry
<1>1. TableInit => NoEmptyEntry
  BY NoGrantsFacts DEF TableInit, NoEmptyEntry
<1>2. NoEmptyEntry /\ [TableNext]_by_port => NoEmptyEntry'
  BY AddGrantsFacts, RemoveGrantFacts, RemovePortFacts, RevokeGranteeFacts
  DEF NoEmptyEntry, TableNext, Add, Remove, RemoveAll, Evict
<1> QED BY <1>1, <1>2, PTL DEF TableSpec

(* Every call changes the pairs of the table as AccessRelation says: it grants *)
(* or revokes the pairs it names and no other.                                 *)
THEOREM TableImplementsAccess == TableSpec => ImplementsAccess
<1>1. TableInit => Access!Init
  BY NoGrantsFacts DEF TableInit, Access!Init
<1>2. NoEmptyEntry /\ [TableNext]_by_port => [Access!Next]_(AllGrants(by_port))
  <2> SUFFICES ASSUME NoEmptyEntry, [TableNext]_by_port
               PROVE  [Access!Next]_(AllGrants(by_port))
    OBVIOUS
  <2>1. ASSUME NEW port \in Port, NEW keys \in SUBSET Key, Add(port, keys)
        PROVE  Access!Grant(port, keys)
    BY <2>1, AddGrantsFacts DEF Add, NoEmptyEntry, Access!Grant
  <2>2. ASSUME NEW port \in Port, NEW key \in Key, Remove(port, key)
        PROVE  Access!Revoke(port, key)
    BY <2>2, RemoveGrantFacts DEF Remove, NoEmptyEntry, Access!Revoke
  <2>3. ASSUME NEW port \in Port, RemoveAll(port)
        PROVE  Access!RevokePort(port)
    BY <2>3, RemovePortFacts DEF RemoveAll, NoEmptyEntry, Access!RevokePort
  <2>4. ASSUME NEW key \in Key, Evict(key)
        PROVE  Access!RevokePeer(key)
    BY <2>4, RevokeGranteeFacts DEF Evict, NoEmptyEntry, Access!RevokePeer
  <2>5. CASE UNCHANGED by_port
    BY <2>5
  <2> QED BY <2>1, <2>2, <2>3, <2>4, <2>5 DEF TableNext, Access!Next
<1> QED BY <1>1, <1>2, TableHasNoEmptyEntry, PTL DEF TableSpec, ImplementsAccess, Access!Spec

-----------------------------------------------------------------------------
(* The requests of Serving are calls of the table.                             *)

(* What is asked for is of the ports and keys there are.                       *)
Asked ==
  /\ scope \in [ports: SUBSET Port, keys: SUBSET Key, declares: SUBSET Declarable,
                streams: SUBSET Stream, changes: Nat]
  /\ request \in [Client -> [do: {"grant", "retire"}, port: Port, keys: SUBSET Key]
                           \cup {NoRequest}]

LEMMA AskedInit == Init => Asked
BY ServingAssumption DEF Init, Asked

(* The steps of a stream and of a gateway change neither grants nor requests.  *)
StreamStep(s) ==
  \/ \E key \in scope.keys, port \in scope.ports : Admit(s, key, port)
  \/ Serve(s) \/ End(s)
  \/ \E r \in HttpRequest : Route(s, r)
  \/ Gate(s) \/ Reply(s)

LEMMA StreamStepKeeps ==
  ASSUME NEW s, StreamStep(s)
  PROVE  UNCHANGED <<by_port, backends, request, resolves, scope>>
BY DEF StreamStep, Admit, Serve, End, Route, Gate, Reuse, Lookup, LookupFails, Store, Reply

(* The steps that a proof by cases has to look at.                             *)
LEMMA NextCases ==
  ASSUME Asked, Next
  PROVE  \/ \E c \in Client, port \in Port, keys \in SUBSET Key, declared \in Declarable,
               b \in Backend : Expose(c, port, keys, declared, b)
         \/ \E c \in Client, port \in Port : Unexpose(c, port, RemoveAll(port))
         \/ \E c \in Client, port \in Port, key \in Key :
               Unexpose(c, port, Remove(port, key))
         \/ \E c \in Client : Grant(c) \/ Retire(c)
         \/ \E key \in Key : Evicted(key)
         \/ \E s \in Stream : StreamStep(s)
         \/ \E g \in Gateway, name \in Name : Age(g, name)
         \/ \E name \in Name, addr \in Address : Dns(name, addr)
<1>1. /\ scope.ports \subseteq Port /\ scope.keys \subseteq Key
      /\ scope.declares \subseteq Declarable /\ scope.streams \subseteq Stream
  BY DEF Asked
<1>2. ASSUME NEW c \in Client, Ask(c)
      PROVE  \/ \E port \in Port, keys \in SUBSET Key, declared \in Declarable,
                   b \in Backend : Expose(c, port, keys, declared, b)
             \/ \E port \in Port : Unexpose(c, port, RemoveAll(port))
             \/ \E port \in Port, key \in Key : Unexpose(c, port, Remove(port, key))
  <2>1. PICK port \in scope.ports :
          \/ \E keys \in SUBSET scope.keys \ {{}}, declared \in scope.declares, b \in Backend :
               Expose(c, port, keys, declared, b)
          \/ Unexpose(c, port, RemoveAll(port))
          \/ \E key \in scope.keys : Unexpose(c, port, Remove(port, key))
    BY <1>2 DEF Ask
  <2> QED BY <1>1, <2>1
<1>3. CASE \E s \in scope.streams : StreamStep(s)
  BY <1>1, <1>3
<1> QED BY <1>1, <1>2, <1>3 DEF Next, StreamStep

LEMMA AskedStep == Asked /\ [Next]_vars => Asked'
<1> SUFFICES ASSUME Asked, [Next]_vars PROVE Asked'
  OBVIOUS
<1> USE DEF Asked
<1>1. ASSUME NEW c \in Client, NEW port \in Port, NEW keys \in SUBSET Key, NEW declared,
             NEW b, Expose(c, port, keys, declared, b)
      PROVE  Asked'
  BY <1>1 DEF Expose, Then
<1>2. ASSUME NEW c \in Client, NEW port \in Port, NEW key,
             \/ Unexpose(c, port, RemoveAll(port))
             \/ Unexpose(c, port, Remove(port, key))
      PROVE  Asked'
  <2>1. [NoRequest EXCEPT !.do = "retire", !.port = port]
          \in [do: {"grant", "retire"}, port: Port, keys: SUBSET Key]
    BY DEF NoRequest
  <2> QED BY <1>2, <2>1 DEF Unexpose, Then
<1>3. ASSUME NEW c \in Client, Grant(c) \/ Retire(c) PROVE Asked'
  BY <1>3 DEF Grant, Retire, Then
<1>4. ASSUME NEW key, Evicted(key) PROVE Asked'
  BY <1>4 DEF Evicted
<1>5. ASSUME NEW s, StreamStep(s) PROVE Asked'
  BY <1>5, StreamStepKeeps
<1>6. ASSUME NEW g, NEW name, Age(g, name) PROVE Asked'
  BY <1>6 DEF Age
<1>7. ASSUME NEW name, NEW addr, Dns(name, addr) PROVE Asked'
  BY <1>7 DEF Dns
<1>8. CASE UNCHANGED vars
  BY <1>8 DEF vars
<1> QED BY <1>1, <1>2, <1>3, <1>4, <1>5, <1>6, <1>7, <1>8, NextCases

LEMMA ServingCallsTable ==
  ASSUME Asked, [Next]_vars
  PROVE  [TableNext]_by_port
<1>1. ASSUME NEW c, NEW port \in Port, Unexpose(c, port, RemoveAll(port)) PROVE TableNext
  BY <1>1 DEF Unexpose, TableNext
<1>2. ASSUME NEW c, NEW port \in Port, NEW key \in Key, Unexpose(c, port, Remove(port, key))
      PROVE  TableNext
  BY <1>2 DEF Unexpose, TableNext
<1>3. ASSUME NEW c \in Client, Grant(c) PROVE TableNext
  <2>1. request[c].port \in Port /\ request[c].keys \in SUBSET Key
    BY <1>3 DEF Grant, Asked, NoRequest
  <2> QED BY <1>3, <2>1 DEF Grant, TableNext
<1>4. ASSUME NEW key \in Key, Evicted(key) PROVE TableNext
  BY <1>4 DEF Evicted, TableNext
<1>5. ASSUME NEW s, StreamStep(s) PROVE UNCHANGED by_port
  BY <1>5, StreamStepKeeps
<1>6. CASE \/ \E c, port, keys, declared, b : Expose(c, port, keys, declared, b)
           \/ \E c : Retire(c)
           \/ \E g, name : Age(g, name)
           \/ \E name, addr : Dns(name, addr)
           \/ UNCHANGED vars
  BY <1>6 DEF Expose, Retire, Age, Dns, vars
<1> QED BY <1>1, <1>2, <1>3, <1>4, <1>5, <1>6, NextCases

LEMMA ServingIsTable == Spec => TableSpec
<1>1. Init => TableInit /\ Asked
  BY AskedInit DEF Init
<1>2. Asked /\ [Next]_vars => Asked' /\ [TableNext]_by_port
  BY AskedStep, ServingCallsTable
<1> QED BY <1>1, <1>2, PTL DEF Spec, TableSpec

(* With requests of two halves, evictions between them and streams that are    *)
(* checked meanwhile, the table keeps no empty entry.                          *)
THEOREM ServingHasNoEmptyEntry == Spec => []NoEmptyEntry
BY ServingIsTable, TableHasNoEmptyEntry, PTL

(* And it is still the relation that the requests name.                        *)
THEOREM ServingImplementsAccess == Spec => ImplementsAccess
BY ServingIsTable, TableImplementsAccess, PTL

-----------------------------------------------------------------------------
(* Types: no gateway comes to be the backend of two ports.                     *)

LEMMA TypeInit == Init => TypeOK
<1> SUFFICES ASSUME Init PROVE TypeOK
  OBVIOUS
<1>1. by_port \in Table
  BY NoGrantsFacts DEF Init, TableInit
<1>2. /\ backends \in [Port -> Backend] /\ request = [c \in Client |-> NoRequest]
      /\ cached \in [Gateway -> [Name -> Address \cup {None}]]
      /\ resolves \in [Name -> Address]
      /\ \A p \in Port : backends[p] \notin Gateway
  BY ServingAssumption DEF Init, Backend, NoAddress
<1>3. scope \in [ports: SUBSET Port, keys: SUBSET Key, declares: SUBSET Declarable,
                 streams: SUBSET Stream, changes: Nat]
  BY ServingAssumption DEF Init
<1>4. /\ stream \in [Stream -> [step: {"closed", "allowed"} \cup InService,
                                port: Port \cup {None}, had: Backend, lapsed: BOOLEAN,
                                by: Backend, name: Name \cup {None}, addr: Address \cup {None}]]
      /\ \A s \in Stream : stream[s].step = "allowed" <=> stream[s].port # None
  BY DEF Init, Closed, Backend
<1> QED BY <1>1, <1>2, <1>3, <1>4 DEF TypeOK

(* What the ports and the table have to do with it, and what streams have.     *)
TablePart == by_port \in Table /\ Asked

BackendPart ==
  /\ backends \in [Port -> Backend]
  /\ \A p, q \in Port : backends[p] \in Gateway /\ backends[p] = backends[q] => p = q

StreamPart ==
  /\ stream \in [Stream -> [step: {"closed", "allowed"} \cup InService,
                            port: Port \cup {None}, had: Backend, lapsed: BOOLEAN,
                            by: Backend, name: Name \cup {None}, addr: Address \cup {None}]]
  /\ \A s \in Stream : stream[s].step = "allowed" <=> stream[s].port # None

CachePart ==
  /\ cached \in [Gateway -> [Name -> Address \cup {None}]]
  /\ resolves \in [Name -> Address]

LEMMA TypeParts == TypeOK <=> TablePart /\ BackendPart /\ StreamPart /\ CachePart
BY DEF TypeOK, TablePart, BackendPart, StreamPart, CachePart, Asked

LEMMA TableStep == TablePart /\ [Next]_vars => TablePart'
<1>1. by_port \in Table /\ [TableNext]_by_port => (by_port \in Table)'
  BY AddGrantsFacts, RemoveGrantFacts, RemovePortFacts, RevokeGranteeFacts
  DEF TableNext, Add, Remove, RemoveAll, Evict
<1> QED BY <1>1, AskedStep, ServingCallsTable DEF TablePart

LEMMA BackendStep == TypeOK /\ [Next]_vars => BackendPart'
<1> SUFFICES ASSUME TypeOK, Asked, BackendPart, [Next]_vars PROVE BackendPart'
  BY TypeParts DEF TablePart
<1> USE DEF BackendPart
<1>1. ASSUME NEW c, NEW port \in Port, NEW keys, NEW declared \in Declarable,
             NEW b \in Backend, Expose(c, port, keys, declared, b)
      PROVE  BackendPart'
  <2>1. backends' = backends \/ backends' = [backends EXCEPT ![port] = b]
    BY <1>1 DEF Expose
  <2>2. b \in Gateway => \/ declared = None
                         \/ declared = Http /\ Unused(b)
                         \/ declared \in Forward /\ b = declared
    BY <1>1 DEF Expose, Build, Declarable
  <2>3. CASE declared = None
    BY <1>1, <2>3 DEF Expose
  <2>4. CASE b \in Gateway => Unused(b)
    BY <2>1, <2>4 DEF Unused
  <2> QED BY <2>2, <2>3, <2>4, ServingAssumption
<1>2. ASSUME NEW c, NEW port, \/ Unexpose(c, port, RemoveAll(port))
                              \/ \E key : Unexpose(c, port, Remove(port, key))
      PROVE  BackendPart'
  BY <1>2 DEF Unexpose
<1>3. ASSUME NEW c, Retire(c) PROVE BackendPart'
  <2>1. backends' = [backends EXCEPT ![request[c].port] = None]
    BY <1>3 DEF Retire
  <2>2. None \in Backend /\ None \notin Gateway
    BY ServingAssumption DEF Backend
  <2> QED BY <2>1, <2>2
<1>4. CASE (\E c : Grant(c)) \/ UNCHANGED vars
  BY <1>4 DEF Grant, vars
<1>5. ASSUME NEW key, Evicted(key) PROVE BackendPart'
  BY <1>5 DEF Evicted
<1>6. ASSUME NEW s, StreamStep(s) PROVE BackendPart'
  BY <1>6, StreamStepKeeps
<1>7. ASSUME NEW g, NEW name, Age(g, name) PROVE BackendPart'
  BY <1>7 DEF Age
<1>8. ASSUME NEW name, NEW addr, Dns(name, addr) PROVE BackendPart'
  BY <1>8 DEF Dns
<1> QED BY <1>1, <1>2, <1>3, <1>4, <1>5, <1>6, <1>7, <1>8, NextCases

LEMMA CacheStep == TypeOK /\ [Next]_vars => CachePart'
<1> SUFFICES ASSUME TypeOK, Asked, StreamPart, CachePart, [Next]_vars PROVE CachePart'
  BY TypeParts DEF TablePart
<1> USE DEF CachePart
<1>1. ASSUME NEW c, NEW port, NEW keys, NEW declared, NEW b,
             Expose(c, port, keys, declared, b)
      PROVE  CachePart'
  <2>1. NoAddress \in [Name -> Address \cup {None}]
    BY DEF NoAddress
  <2>2. UNCHANGED cached \/ cached' = [cached EXCEPT ![b] = NoAddress]
    BY <1>1 DEF Expose, Build
  <2> QED BY <1>1, <2>1, <2>2 DEF Expose
<1>2. ASSUME NEW c, NEW port, \/ Unexpose(c, port, RemoveAll(port))
                              \/ \E key : Unexpose(c, port, Remove(port, key))
      PROVE  CachePart'
  BY <1>2 DEF Unexpose
<1>3. CASE (\E c : Grant(c) \/ Retire(c)) \/ UNCHANGED vars
  BY <1>3 DEF Grant, Retire, vars
<1>4. ASSUME NEW key, Evicted(key) PROVE CachePart'
  BY <1>4 DEF Evicted
<1>5. ASSUME NEW s \in Stream, StreamStep(s) PROVE CachePart'
  <2>1. CASE Store(s)
    <3>1. stream[s].addr \in Address \cup {None}
      BY DEF StreamPart
    <3> QED BY <2>1, <3>1 DEF Store
  <2>2. CASE UNCHANGED cached
    BY <1>5, <2>2, StreamStepKeeps
  <2> QED
    BY <1>5, <2>1, <2>2 DEF StreamStep, Admit, Serve, End, Route, Gate, Reuse, Lookup,
                            LookupFails, Reply
<1>6. ASSUME NEW g, NEW name, Age(g, name) PROVE CachePart'
  BY <1>6 DEF Age
<1>7. ASSUME NEW name \in Name, NEW addr \in Address, Dns(name, addr) PROVE CachePart'
  BY <1>7 DEF Dns
<1> QED BY <1>1, <1>2, <1>3, <1>4, <1>5, <1>6, <1>7, NextCases

-----------------------------------------------------------------------------
(* Streams: each is a record of its kind, and one that the gateway serves has  *)
(* a gateway, and a name while that is resolved.                               *)

StreamRecord == [step: {"closed", "allowed"} \cup InService,
                 port: Port \cup {None}, had: Backend, lapsed: BOOLEAN,
                 by: Backend, name: Name \cup {None}, addr: Address \cup {None}]

Sound(to) ==
  /\ to \in StreamRecord
  /\ to.step = "allowed" <=> to.port # None
  /\ to.step \in {"idle", "resolving", "answered", "proxied"} => to.by \in Gateway
  /\ to.step \in {"resolving", "answered"} => to.name \in Name

Streams == stream \in [Stream -> StreamRecord] /\ \A s \in Stream : Sound(stream[s])

TypeInv == TypeOK /\ Streams

LEMMA OneStream ==
  ASSUME Streams, NEW s \in Stream, NEW to, Step(s, to), Sound(to)
  PROVE  Streams'
BY DEF Streams, Step, Sound

LEMMA ClosedIsSound == Sound(Closed)
BY DEF Sound, Closed, StreamRecord, Backend

LEMMA LapseKeeps == Streams /\ Lapse => Streams'
<1> SUFFICES ASSUME Streams, Lapse PROVE Streams'
  OBVIOUS
<1>1. ASSUME NEW s \in Stream
      PROVE  Sound(stream'[s]) /\ stream'[s] \in StreamRecord
  BY DEF Streams, Lapse, Sound, StreamRecord
<1>2. stream' = [s \in Stream |-> stream'[s]]
  BY DEF Lapse
<1> QED BY <1>1, <1>2 DEF Streams

LEMMA StreamStepSound ==
  ASSUME TypeInv, Asked, NEW s \in Stream, StreamStep(s)
  PROVE  Streams'
<1> DEFINE now == stream[s]
<1>1. /\ Sound(now) /\ now \in StreamRecord /\ Sound(Closed) /\ Closed \in StreamRecord
      /\ CachePart /\ BackendPart
  BY ClosedIsSound, TypeParts DEF TypeInv, Streams, Sound
<1> USE DEF Sound, StreamRecord, InService
<1>2. ASSUME NEW key \in scope.keys, NEW port \in scope.ports, Admit(s, key, port)
      PROVE  Streams'
  <2> DEFINE to == [Closed EXCEPT !.step = "allowed", !.port = port, !.had = backends[port]]
  <2>1. port \in Port /\ port # None
    BY ServingAssumption DEF Asked
  <2>2. Sound(to)
    BY <1>1, <2>1 DEF BackendPart, Closed
  <2> QED BY <1>2, <2>2, OneStream DEF Admit, TypeInv
<1>3. CASE Serve(s)
  <2> DEFINE b == backends[now.port]
             to == [Closed EXCEPT !.step = IF b \in Gateway THEN "idle" ELSE "forwarding",
                                  !.by = b]
  <2>1. now.step = "allowed" /\ Step(s, to)
    BY <1>3 DEF Serve
  <2>2. b \in Backend
    BY <1>1, <2>1 DEF BackendPart
  <2>3. Sound(to)
    BY <1>1, <2>2 DEF Closed
  <2> QED BY <2>1, <2>3, OneStream DEF TypeInv
<1>4. CASE End(s) \/ LookupFails(s)
  BY <1>1, <1>4, OneStream DEF End, LookupFails, TypeInv
<1>5. ASSUME NEW r, Route(s, r) PROVE Streams'
  <2> DEFINE name == Routes[Pick(r)].to
             to == IF name \in Name THEN [now EXCEPT !.step = "resolving", !.name = name]
                   ELSE [now EXCEPT !.step = "proxied"]
  <2>1. now.step = "idle" /\ Step(s, to)
    BY <1>5 DEF Route
  <2>2. Sound(to)
    BY <1>1, <2>1
  <2> QED BY <2>1, <2>2, OneStream DEF TypeInv
<1>6. now.step = "resolving" => Fresh(s) \in Address \cup {None}
  BY <1>1 DEF CachePart, Fresh
<1>7. ASSUME NEW addr \in Address \cup {None}, now.step \in {"resolving", "answered"},
             Proxy(s, addr)
      PROVE  Streams'
  <2> DEFINE to == [now EXCEPT !.step = "proxied", !.addr = addr]
  <2>1. Sound(to)
    BY <1>1, <1>7
  <2> QED BY <1>7, <2>1, OneStream DEF Proxy, TypeInv
<1>8. CASE Reuse(s)
  BY <1>6, <1>7, <1>8 DEF Reuse
<1>9. CASE Lookup(s)
  <2> DEFINE to == [now EXCEPT !.step = "answered", !.addr = resolves[now.name]]
  <2>1. now.step = "resolving" /\ Step(s, to)
    BY <1>9 DEF Lookup
  <2>2. resolves[now.name] \in Address
    BY <1>1, <2>1 DEF CachePart
  <2>3. Sound(to)
    BY <1>1, <2>1, <2>2
  <2> QED BY <2>1, <2>3, OneStream DEF TypeInv
<1>10. CASE Store(s)
  BY <1>1, <1>7, <1>10 DEF Store
<1>11. CASE Reply(s)
  <2> DEFINE to == [now EXCEPT !.step = "idle", !.name = None, !.addr = None]
  <2>1. now.step = "proxied" /\ Step(s, to)
    BY <1>11 DEF Reply
  <2>2. Sound(to)
    BY <1>1, <2>1
  <2> QED BY <2>1, <2>2, OneStream DEF TypeInv
<1> QED
  BY <1>2, <1>3, <1>4, <1>5, <1>8, <1>9, <1>10, <1>11 DEF StreamStep, Gate

LEMMA StreamsStep == TypeInv /\ [Next]_vars => Streams'
<1> SUFFICES ASSUME TypeInv, Asked, Streams, [Next]_vars PROVE Streams'
  BY TypeParts DEF TypeInv, TablePart
<1>1. ASSUME UNCHANGED stream PROVE Streams'
  BY <1>1 DEF Streams, Sound
<1>2. ASSUME NEW c, NEW port, NEW keys, NEW declared, NEW b,
             Expose(c, port, keys, declared, b)
      PROVE  Streams'
  BY <1>1, <1>2 DEF Expose
<1>3. ASSUME NEW c, NEW port, \/ Unexpose(c, port, RemoveAll(port))
                              \/ \E key : Unexpose(c, port, Remove(port, key))
      PROVE  Streams'
  BY <1>3, LapseKeeps DEF Unexpose
<1>4. CASE (\E c : Grant(c) \/ Retire(c)) \/ UNCHANGED vars
  BY <1>1, <1>4 DEF Grant, Retire, vars
<1>5. ASSUME NEW key, Evicted(key) PROVE Streams'
  BY <1>5, LapseKeeps DEF Evicted
<1>6. ASSUME NEW s \in Stream, StreamStep(s) PROVE Streams'
  BY <1>6, StreamStepSound
<1>7. ASSUME NEW g, NEW name, Age(g, name) PROVE Streams'
  BY <1>1, <1>7 DEF Age
<1>8. ASSUME NEW name, NEW addr, Dns(name, addr) PROVE Streams'
  BY <1>1, <1>8 DEF Dns
<1> QED BY <1>2, <1>3, <1>4, <1>5, <1>6, <1>7, <1>8, NextCases

LEMMA TypeInvInit == Init => TypeInv
<1> SUFFICES ASSUME Init PROVE Streams
  BY TypeInit DEF TypeInv
<1> QED BY ClosedIsSound DEF Init, Streams, Sound

LEMMA TypeInvStep == TypeInv /\ [Next]_vars => TypeInv'
<1> SUFFICES ASSUME TypeInv, [Next]_vars PROVE TypeInv'
  OBVIOUS
<1>1. Streams' /\ StreamPart'
  BY StreamsStep DEF Streams, Sound, StreamRecord, StreamPart
<1>2. TablePart' /\ BackendPart' /\ CachePart'
  BY TableStep, BackendStep, CacheStep, TypeParts DEF TypeInv
<1> QED
  BY <1>1, <1>2
  DEF TypeInv, TypeOK, TablePart, BackendPart, StreamPart, CachePart, Asked

(* Whatever is declared, revoked, resolved and routed, no gateway serves two   *)
(* ports, and every variable keeps its type.                                   *)
THEOREM ServingTyped == Spec => []TypeOK
<1>1. TypeInv => TypeOK
  BY DEF TypeInv
<1> QED BY <1>1, TypeInvInit, TypeInvStep, PTL DEF Spec

-----------------------------------------------------------------------------
(* Between the check of a grant and the lookup of the backend.                 *)

(* Control requests come one at a time.                                        *)
OneClient == \A c, d \in Client : c = d

(* What is to be retired is granted to nobody, and stays so if there is no     *)
(* other client: only a request grants.  A stream that was let in and has not  *)
(* lapsed is for a port that is granted, and that still has a backend if it    *)
(* had one.                                                                    *)
Guarded ==
  /\ \A c \in Client :
       request[c].do = "retire" => request[c].port \notin GrantedPorts(by_port)
  /\ \A s \in Stream :
       stream[s].step = "allowed" /\ ~stream[s].lapsed =>
         /\ stream[s].port \in GrantedPorts(by_port)
         /\ stream[s].had # None => backends[stream[s].port] # None

LEMMA GuardedInit == Init => Guarded
BY DEF Init, Guarded, NoRequest, Closed

LEMMA EvictGrantsNothing ==
  ASSUME NEW key, Evict(key)
  PROVE  GrantedPorts(by_port') \subseteq GrantedPorts(by_port)
BY DEF Evict, RevokeGrantee, NonEmpty, GrantedPorts

LEMMA AddRevokesNothing ==
  ASSUME NEW port, NEW keys, Add(port, keys)
  PROVE  GrantedPorts(by_port) \subseteq GrantedPorts(by_port')
BY DEF Add, AddGrants, GrantedPorts

LEMMA GuardedStreamStep ==
  ASSUME TypeInv, Guarded, NEW s \in Stream, StreamStep(s)
  PROVE  Guarded'
<1>1. UNCHANGED <<by_port, backends, request>>
  BY StreamStepKeeps
<1>2. ASSUME NEW to, Step(s, to),
             to.step = "allowed" => /\ to.port \in GrantedPorts(by_port)
                                    /\ to.had = backends[to.port]
      PROVE  Guarded'
  BY <1>1, <1>2 DEF Guarded, Step, TypeInv, Streams
<1>3. ASSUME NEW to, Step(s, to), to.step # "allowed" PROVE Guarded'
  BY <1>2, <1>3
<1>4. ASSUME NEW key, NEW port, Admit(s, key, port) PROVE Guarded'
  <2> DEFINE to == [Closed EXCEPT !.step = "allowed", !.port = port, !.had = backends[port]]
  <2>1. port \in GrantedPorts(by_port)
    BY <1>4 DEF Admit, Allows, Grantees, GrantedPorts
  <2>2. to.port = port /\ to.had = backends[port]
    BY DEF Closed
  <2> QED BY <1>2, <1>4, <2>1, <2>2 DEF Admit
<1>5. CASE Serve(s)
  <2> DEFINE b == backends[stream[s].port]
             to == [Closed EXCEPT !.step = IF b \in Gateway THEN "idle" ELSE "forwarding",
                                  !.by = b]
  <2>1. to.step # "allowed"
    BY DEF Closed
  <2> QED BY <1>3, <1>5, <2>1 DEF Serve
<1>6. CASE End(s) \/ LookupFails(s)
  BY <1>3, <1>6 DEF End, LookupFails, Closed
<1>7. stream[s] \in StreamRecord
  BY DEF TypeInv, Streams
<1>8. ASSUME NEW r, Route(s, r) PROVE Guarded'
  <2> DEFINE name == Routes[Pick(r)].to
             to == IF name \in Name THEN [stream[s] EXCEPT !.step = "resolving", !.name = name]
                   ELSE [stream[s] EXCEPT !.step = "proxied"]
  <2>1. to.step # "allowed"
    BY <1>7 DEF StreamRecord
  <2> QED BY <1>3, <1>8, <2>1 DEF Route
<1>9. ASSUME NEW addr, Proxy(s, addr) PROVE Guarded'
  BY <1>3, <1>7, <1>9 DEF Proxy, StreamRecord
<1>10. CASE Reuse(s) \/ Store(s)
  BY <1>9, <1>10 DEF Reuse, Store
<1>11. CASE Lookup(s) \/ Reply(s)
  BY <1>3, <1>7, <1>11 DEF Lookup, Reply, StreamRecord
<1> QED
  BY <1>4, <1>5, <1>6, <1>8, <1>10, <1>11 DEF StreamStep, Gate

LEMMA GuardedStep ==
  ASSUME OneClient PROVE TypeInv /\ Guarded /\ [Next]_vars => Guarded'
<1> SUFFICES ASSUME TypeInv, Asked, Guarded, [Next]_vars PROVE Guarded'
  BY TypeParts DEF TypeInv, TablePart
<1> USE DEF Guarded
<1>0. ASSUME NEW c \in Client, NEW half, Then(c, half)
      PROVE  \A d \in Client : request'[d] = half
  BY <1>0 DEF OneClient, Then, Asked
<1>1. ASSUME NEW c \in Client, NEW port \in Port, NEW keys, NEW declared \in Declarable,
             NEW b \in Backend, Expose(c, port, keys, declared, b)
      PROVE  Guarded'
  <2>1. /\ UNCHANGED <<by_port, stream>>
        /\ \A d \in Client : request'[d].do # "retire"
    BY <1>1, <1>0 DEF Expose
  <2>2. declared # None => b # None
    BY <1>1, ServingAssumption DEF Expose, Build
  <2>3. \A p \in Port : backends[p] # None => backends'[p] # None
    BY <1>1, <2>2, TypeParts DEF Expose, TypeInv, BackendPart
  <2>4. \A s \in Stream : stream[s].step = "allowed" => stream[s].port \in Port
    BY DEF TypeInv, Streams, Sound, StreamRecord
  <2> QED BY <2>1, <2>3, <2>4
<1>2. ASSUME NEW c \in Client, NEW port, \/ Unexpose(c, port, RemoveAll(port))
                                         \/ \E key : Unexpose(c, port, Remove(port, key))
      PROVE  Guarded'
  <2> DEFINE retire == [NoRequest EXCEPT !.do = "retire", !.port = port]
  <2>1. /\ UNCHANGED backends /\ Lapse
        /\ Then(c, IF Ungranted(port) THEN retire ELSE NoRequest)
    BY <1>2 DEF Unexpose
  <2>2. NoRequest.do # "retire" /\ retire.port = port
    BY DEF NoRequest
  <2>3. \A d \in Client :
          request'[d].do = "retire" => request'[d].port \notin GrantedPorts(by_port')
    <3> DEFINE half == IF Ungranted(port) THEN retire ELSE NoRequest
    <3>1. \A d \in Client : request'[d] = half
      BY <2>1, <1>0
    <3>2. half.do = "retire" => half.port \notin GrantedPorts(by_port')
      BY <2>2 DEF Ungranted
    <3> QED BY <3>1, <3>2
  <2>4. ASSUME NEW s \in Stream, stream'[s].step = "allowed", ~stream'[s].lapsed
        PROVE  /\ stream'[s] = stream[s]
               /\ stream[s].port \in GrantedPorts(by_port')
    BY <2>1, <2>4 DEF Lapse, TypeInv, Streams, StreamRecord
  <2> QED BY <2>1, <2>3, <2>4
<1>3. ASSUME NEW key, Evicted(key) PROVE Guarded'
  <2>1. /\ UNCHANGED <<backends, request>> /\ Lapse
        /\ GrantedPorts(by_port') \subseteq GrantedPorts(by_port)
    BY <1>3, EvictGrantsNothing DEF Evicted
  <2>2. ASSUME NEW s \in Stream, stream'[s].step = "allowed", ~stream'[s].lapsed
        PROVE  /\ stream'[s] = stream[s]
               /\ stream[s].port \in GrantedPorts(by_port')
    BY <2>1, <2>2 DEF Lapse, TypeInv, Streams, StreamRecord
  <2> QED BY <2>1, <2>2
<1>4. ASSUME NEW c \in Client, Grant(c) PROVE Guarded'
  <2>1. /\ UNCHANGED <<backends, stream>>
        /\ \A d \in Client : request'[d].do # "retire"
        /\ GrantedPorts(by_port) \subseteq GrantedPorts(by_port')
    BY <1>4, <1>0, AddRevokesNothing DEF Grant, NoRequest
  <2> QED BY <2>1
<1>5. ASSUME NEW c \in Client, Retire(c) PROVE Guarded'
  <2>1. /\ UNCHANGED <<by_port, stream>>
        /\ \A d \in Client : request'[d].do # "retire"
        /\ request[c].port \notin GrantedPorts(by_port)
        /\ backends' = [backends EXCEPT ![request[c].port] = None]
    BY <1>5, <1>0 DEF Retire, NoRequest
  <2>2. \A p : p # request[c].port => backends'[p] = backends[p]
    BY <2>1, TypeParts DEF TypeInv, BackendPart
  <2> QED BY <2>1, <2>2
<1>6. ASSUME NEW s \in Stream, StreamStep(s) PROVE Guarded'
  BY <1>6, GuardedStreamStep
<1>7. ASSUME NEW g, NEW name, Age(g, name) PROVE Guarded'
  BY <1>7 DEF Age
<1>8. ASSUME NEW name, NEW addr, Dns(name, addr) PROVE Guarded'
  BY <1>8 DEF Dns
<1>9. CASE UNCHANGED vars
  BY <1>9 DEF vars
<1> QED BY <1>1, <1>2, <1>3, <1>4, <1>5, <1>6, <1>7, <1>8, <1>9, NextCases

(* One step of the property: only Serve takes a stream on from the check.      *)
FallsBackNot ==
  \A s \in Stream :
    stream[s].step = "allowed" /\ stream'[s].by = None =>
      stream[s].had = None \/ stream[s].lapsed \/ stream'[s].step = "allowed"

LEMMA FallsBackNotStep == TypeInv /\ Guarded /\ [Next]_vars => [FallsBackNot]_stream
<1> SUFFICES ASSUME TypeInv, Asked, Guarded, [Next]_vars,
                    NEW s \in Stream, stream[s].step = "allowed", stream'[s].by = None,
                    stream[s].had # None, ~stream[s].lapsed, ~UNCHANGED stream
             PROVE  stream'[s].step = "allowed"
  BY TypeParts DEF FallsBackNot, TypeInv, TablePart
<1>1. backends[stream[s].port] # None /\ stream[s] \in StreamRecord
  BY DEF Guarded, TypeInv, Streams
<1>2. ASSUME Lapse PROVE stream'[s].step = "allowed"
  BY <1>1, <1>2 DEF Lapse, StreamRecord
<1>3. ASSUME NEW c, NEW port, \/ Unexpose(c, port, RemoveAll(port))
                              \/ \E key : Unexpose(c, port, Remove(port, key))
      PROVE  stream'[s].step = "allowed"
  BY <1>2, <1>3 DEF Unexpose
<1>4. ASSUME NEW key, Evicted(key) PROVE stream'[s].step = "allowed"
  BY <1>2, <1>4 DEF Evicted
<1>5. ASSUME NEW t \in Stream, StreamStep(t) PROVE stream'[s].step = "allowed"
  <2>1. ASSUME NEW to, Step(t, to), t # s PROVE stream'[s] = stream[s]
    BY <2>1 DEF Step, TypeInv, Streams
  <2>2. CASE t # s
    BY <1>5, <2>1, <2>2 DEF StreamStep, Admit, Serve, End, Route, Gate, Reuse, Lookup,
                            LookupFails, Store, Reply, Proxy
  <2>3. CASE t = s
    <3>1. \A key, port : ~Admit(s, key, port)
      BY DEF Admit, Closed
    <3>2. ~End(s) /\ ~Reply(s) /\ \A r : ~Route(s, r)
      BY DEF End, Reply, Route
    <3>3. ~Gate(s)
      BY DEF Gate, Reuse, Lookup, LookupFails, Store
    <3>4. Serve(s)
      BY <1>5, <2>3, <3>1, <3>2, <3>3 DEF StreamStep
    <3>5. stream'[s].by = backends[stream[s].port]
      BY <3>4 DEF Serve, Step, TypeInv, Streams, Closed
    <3> QED BY <1>1, <3>5
  <2> QED BY <2>2, <2>3
<1>6. CASE \/ \E c, port, keys, declared, b : Expose(c, port, keys, declared, b)
           \/ \E c : Grant(c) \/ Retire(c)
           \/ \E g, name : Age(g, name)
           \/ \E name, addr : Dns(name, addr)
           \/ UNCHANGED vars
  BY <1>6 DEF Expose, Grant, Retire, Age, Dns, vars
<1> QED BY <1>3, <1>4, <1>5, <1>6, NextCases

(* A stream that was let in when its port had a backend is not forwarded to    *)
(* the port of the same number on this machine while the port is granted, if   *)
(* control requests come one at a time (with two clients the run               *)
(* serving_two_clients refutes it), however many peers are evicted and streams *)
(* served meanwhile.                                                           *)
THEOREM ServingNeverFallsBack == ASSUME OneClient PROVE Spec => NeverFallsBack
<1>1. [FallsBackNot]_stream <=>
        [\A s \in Stream :
           stream[s].step = "allowed" /\ stream'[s].by = None =>
             stream[s].had = None \/ stream[s].lapsed \/ stream'[s].step = "allowed"]_stream
  BY DEF FallsBackNot
<1> QED
  BY <1>1, TypeInvInit, TypeInvStep, GuardedInit, GuardedStep, FallsBackNotStep, PTL
  DEF Spec, NeverFallsBack
=============================================================================
