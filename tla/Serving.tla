-------------------------------- MODULE Serving --------------------------------
(* Who is served what: the grants of a port, the backend declared for it, the  *)
(* streams on which peers ask for a port, and the gateway that is the backend  *)
(* of an HTTP service, with its routes and the addresses it has resolved.      *)
(*                                                                             *)
(* Each control client is a task of its own (daemon.rs, run), which changes    *)
(* grants and backends; evictions revoke grants at any time.                   *)
EXTENDS GrantTable, Naturals

CONSTANTS Forward,     \* backends that forward a stream as it is
          Http,        \* an HTTP service: each declaration builds a Gateway
          Client,      \* tasks that serve control connections
          Gateway,     \* bound: gateways that exist at a time
          Stream,      \* bound: streams at a time
          HttpRequest,
          Routes,      \* of a service: what each matches, and where it leads
          Name, Address,
          None,        \* the default forward, to the port of the same number
          Setups       \* bound: what is asked for, and how often DNS changes

Declarable == Forward \cup {Http, None}
Backend == Forward \cup Gateway \cup {None}

ASSUME ServingAssumption ==
  /\ None \notin Port \cup Forward \cup Gateway \cup Name \cup Address
  /\ Forward \cap Gateway = {}
  /\ Setups \subseteq [ports: SUBSET Port, keys: SUBSET Key, declares: SUBSET Declarable,
                       streams: SUBSET Stream, changes: Nat]

VARIABLES
  backends,  \* Services.backends: None where nothing is declared
  request,   \* the second half of the control request of each client
  stream,    \* handle_bi_stream and what follows, for each stream
  cached,    \* Gateway.resolved, for each gateway
  resolves,  \* what the resolver says of each name
  scope      \* the setup that has been chosen

vars == <<by_port, backends, request, stream, cached, resolves, scope>>

NoRequest == [do |-> "nothing", port |-> None, keys |-> {}]
Closed == [step |-> "closed", port |-> None, had |-> None, lapsed |-> FALSE, by |-> None,
           name |-> None, addr |-> None]
NoAddress == [name \in Name |-> None]

Init ==
  /\ TableInit
  /\ backends = [port \in Port |-> None]
  /\ request = [c \in Client |-> NoRequest]
  /\ stream = [s \in Stream |-> Closed]
  /\ cached = [g \in Gateway |-> NoAddress]
  /\ resolves \in [Name -> Address]
  /\ scope \in Setups

-----------------------------------------------------------------------------
(* The control clients: expose and unexpose, each in two halves.               *)

Then(c, half) == request' = [request EXCEPT ![c] = half]

Unused(g) ==
  /\ \A port \in Port : backends[port] # g
  /\ \A s \in Stream : stream[s].by # g

(* Mutant of Build: services that are declared alike share a gateway.          *)
BuildOnce(declared, b) ==
  /\ IF declared = Http THEN b \in Gateway ELSE b = declared
  /\ UNCHANGED cached

(* build: a declaration of an HTTP service is a Gateway of its own, which has  *)
(* resolved nothing yet.                                                       *)
Build(declared, b) ==
  IF declared = Http
  THEN b \in Gateway /\ Unused(b) /\ cached' = [cached EXCEPT ![b] = NoAddress]
  ELSE b = declared /\ UNCHANGED cached

(* Expose declares the backend, if it names one, and then grants.              *)
Expose(c, port, keys, declared, b) ==
  /\ request[c] = NoRequest
  /\ Build(declared, b)
  /\ backends' = IF declared = None THEN backends ELSE [backends EXCEPT ![port] = b]
  /\ Then(c, [do |-> "grant", port |-> port, keys |-> keys])
  /\ UNCHANGED <<by_port, stream, resolves, scope>>

Grant(c) ==
  /\ request[c].do = "grant"
  /\ Add(request[c].port, request[c].keys)
  /\ Then(c, NoRequest)
  /\ UNCHANGED <<backends, stream, cached, resolves, scope>>

(* The streams between the check and the lookup whose port is now granted to   *)
(* nobody: the ledger `lapsed` notes it.                                       *)
Lapse ==
  stream' = [s \in Stream |->
               IF stream[s].step = "allowed" /\ stream[s].port \notin GrantedPorts(by_port')
               THEN [stream[s] EXCEPT !.lapsed = TRUE] ELSE stream[s]]

(* Mutant of Ungranted: any revocation of a port retires its service.          *)
UngrantedAlways(port) == TRUE

(* Whether the last grantee has gone.                                          *)
Ungranted(port) == port \notin GrantedPorts(by_port')

Unexpose(c, port, revoke) ==
  /\ request[c] = NoRequest
  /\ revoke /\ Lapse
  /\ Then(c, IF Ungranted(port) THEN [NoRequest EXCEPT !.do = "retire", !.port = port]
             ELSE NoRequest)
  /\ UNCHANGED <<backends, cached, resolves, scope>>

(* The service goes after the lock of the grants has been given back, whatever *)
(* another client has declared and granted since.                              *)
Retire(c) ==
  /\ request[c].do = "retire"
  /\ backends' = [backends EXCEPT ![request[c].port] = None]
  /\ Then(c, NoRequest)
  /\ UNCHANGED <<by_port, stream, cached, resolves, scope>>

(* Somebody else's task evicts a peer.                                         *)
Evicted(key) ==
  /\ Evict(key) /\ Lapse
  /\ UNCHANGED <<backends, request, cached, resolves, scope>>

-----------------------------------------------------------------------------
(* A stream of a peer: handle_bi_stream, serve.                                *)

Step(s, to) == stream' = [stream EXCEPT ![s] = to]

(* A peer asks for a port, which is checked for a grant; `had` notes what was  *)
(* declared then.  A stream that is refused stays as it was: closed.           *)
Admit(s, key, port) ==
  /\ stream[s] = Closed /\ Allows(by_port, port, key)
  /\ Step(s, [Closed EXCEPT !.step = "allowed", !.port = port, !.had = backends[port]])
  /\ UNCHANGED <<by_port, backends, request, cached, resolves, scope>>

(* The handle on the backend is taken, and kept however long the stream lasts. *)
Serve(s) ==
  /\ stream[s].step = "allowed"
  /\ LET b == backends[stream[s].port]
     IN  Step(s, [Closed EXCEPT !.step = IF b \in Gateway THEN "idle" ELSE "forwarding",
                                !.by = b])
  /\ UNCHANGED <<by_port, backends, request, cached, resolves, scope>>

(* Either end finishes: a forward, an HTTP connection between two requests.    *)
End(s) ==
  /\ stream[s].step \in {"forwarding", "idle", "proxied"}
  /\ Step(s, Closed)
  /\ UNCHANGED <<by_port, backends, request, cached, resolves, scope>>

-----------------------------------------------------------------------------
(* The gateway: request_filter, upstream_peer, resolve.                        *)

Matching(r) == {i \in DOMAIN Routes : r \in Routes[i].matches}

(* pick: routes are tried in order, and the first match wins.                  *)
Pick(r) == CHOOSE i \in Matching(r) : \A j \in Matching(r) : i <= j

(* A request without a route is answered with a 404, and one whose route leads *)
(* to a socket of this machine needs no address.                               *)
Route(s, r) ==
  /\ stream[s].step = "idle" /\ Matching(r) # {}
  /\ LET name == Routes[Pick(r)].to
     IN  IF name \in Name THEN Step(s, [stream[s] EXCEPT !.step = "resolving", !.name = name])
         ELSE Step(s, [stream[s] EXCEPT !.step = "proxied"])
  /\ UNCHANGED <<by_port, backends, request, cached, resolves, scope>>

Fresh(s) == cached[stream[s].by][stream[s].name]

Proxy(s, addr) == Step(s, [stream[s] EXCEPT !.step = "proxied", !.addr = addr])

(* A recent answer is used again.                                              *)
Reuse(s) ==
  /\ stream[s].step = "resolving" /\ Fresh(s) # None
  /\ Proxy(s, Fresh(s))
  /\ UNCHANGED <<by_port, backends, request, cached, resolves, scope>>

(* Without one, the resolver is asked, without the lock of the cache.          *)
Lookup(s) ==
  /\ stream[s].step = "resolving" /\ Fresh(s) = None
  /\ Step(s, [stream[s] EXCEPT !.step = "answered", !.addr = resolves[stream[s].name]])
  /\ UNCHANGED <<by_port, backends, request, cached, resolves, scope>>

(* It has no answer: the request fails, and nothing is kept.                   *)
LookupFails(s) ==
  /\ stream[s].step = "resolving" /\ Fresh(s) = None
  /\ Step(s, Closed)
  /\ UNCHANGED <<by_port, backends, request, cached, resolves, scope>>

(* The answer is kept from now on, though it may be older than what is there.  *)
Store(s) ==
  /\ stream[s].step = "answered"
  /\ cached' = [cached EXCEPT ![stream[s].by][stream[s].name] = stream[s].addr]
  /\ Proxy(s, stream[s].addr)
  /\ UNCHANGED <<by_port, backends, request, resolves, scope>>

(* The response is through, and the connection is used again.                  *)
Reply(s) ==
  /\ stream[s].step = "proxied"
  /\ Step(s, [stream[s] EXCEPT !.step = "idle", !.name = None, !.addr = None])
  /\ UNCHANGED <<by_port, backends, request, cached, resolves, scope>>

(* Mutant of Age: an answer is kept for good.                                  *)
AgeNever(g, name) == FALSE /\ UNCHANGED vars

(* DNS_TTL has passed since an answer was stored.                              *)
Age(g, name) ==
  /\ cached[g][name] # None
  /\ cached' = [cached EXCEPT ![g][name] = None]
  /\ UNCHANGED <<by_port, backends, request, stream, resolves, scope>>

(* The records of a name change.                                               *)
Dns(name, addr) ==
  /\ scope.changes > 0 /\ addr # resolves[name]
  /\ resolves' = [resolves EXCEPT ![name] = addr]
  /\ scope' = [scope EXCEPT !.changes = @ - 1]
  /\ UNCHANGED <<by_port, backends, request, stream, cached>>

-----------------------------------------------------------------------------
Ask(c) ==
  \E port \in scope.ports :
    \/ \E keys \in SUBSET scope.keys \ {{}}, declared \in scope.declares, b \in Backend :
         Expose(c, port, keys, declared, b)
    \/ Unexpose(c, port, RemoveAll(port))
    \/ \E key \in scope.keys : Unexpose(c, port, Remove(port, key))

Gate(s) == Reuse(s) \/ Lookup(s) \/ LookupFails(s) \/ Store(s)

Next ==
  \/ \E c \in Client : Ask(c) \/ Grant(c) \/ Retire(c)
  \/ \E key \in scope.keys : Evicted(key)
  \/ \E s \in scope.streams :
       \/ \E key \in scope.keys, port \in scope.ports : Admit(s, key, port)
       \/ Serve(s) \/ End(s)
       \/ \E r \in HttpRequest : Route(s, r)
       \/ Gate(s) \/ Reply(s)
  \/ \E g \in Gateway, name \in Name : Age(g, name)
  \/ \E name \in Name, addr \in Address : Dns(name, addr)

(* The resolver answers in time, the request goes on, and time passes.         *)
Fairness ==
  /\ \A s \in Stream : WF_vars(Gate(s))
  /\ \A g \in Gateway, name \in Name : WF_vars(Age(g, name))

Spec == Init /\ [][Next]_vars /\ Fairness

-----------------------------------------------------------------------------
(* Properties.                                                                 *)

InService == {"idle", "forwarding", "resolving", "answered", "proxied"}

(* Every variable keeps its type, and no gateway is the backend of two ports.  *)
TypeOK ==
  /\ by_port \in Table
  /\ backends \in [Port -> Backend]
  /\ request \in [Client -> [do: {"grant", "retire"}, port: Port, keys: SUBSET Key]
                           \cup {NoRequest}]
  /\ stream \in [Stream -> [step: {"closed", "allowed"} \cup InService,
                            port: Port \cup {None}, had: Backend, lapsed: BOOLEAN,
                            by: Backend, name: Name \cup {None}, addr: Address \cup {None}]]
  /\ cached \in [Gateway -> [Name -> Address \cup {None}]]
  /\ resolves \in [Name -> Address] /\ scope \in [ports: SUBSET Port, keys: SUBSET Key,
                       declares: SUBSET Declarable, streams: SUBSET Stream, changes: Nat]
  /\ \A s \in Stream : stream[s].step = "allowed" <=> stream[s].port # None
  /\ \A p, q \in Port : backends[p] \in Gateway /\ backends[p] = backends[q] => p = q

(* "Every port is served by exactly one mechanism", and the default forward is *)
(* for "a port with no declared backend" (Services): as long as a port is      *)
(* granted to somebody, a stream that was let in when it had a backend is not  *)
(* forwarded to whatever listens on this machine under the same number,        *)
(* whoever is evicted, and whoever else is granted or revoked by one client,   *)
(* while the backend is looked up.  It is false of two clients: between the    *)
(* two halves of an unexpose (daemon.rs:279-284) another one may declare and   *)
(* grant the port again, although an expose without a backend "keeps whatever  *)
(* is already declared" (protocol.rs).                                         *)
NeverFallsBack ==
  [][\A s \in Stream :
       stream[s].step = "allowed" /\ stream'[s].by = None =>
         stream[s].had = None \/ stream[s].lapsed \/ stream'[s].step = "allowed"]_stream

(* "DNS changes take effect without a restart" (Route): when the records have  *)
(* changed for the last time, there comes a time after which every request     *)
(* goes to the current address, although a lookup that began before the change *)
(* may store its answer after a later one.                                     *)
DnsChangeTakesEffect ==
  \A s \in Stream :
    <>[][stream[s].step \in {"resolving", "answered"} /\ stream'[s].step = "proxied" =>
           stream'[s].addr = resolves[stream'[s].name]]_stream
=============================================================================
