# Specifications of ig

TLA+ specifications of the ig daemon: what it is told over its control socket
and what of that lasts, how it writes its files, who starts and upgrades it, how
peers enroll and tell each other their ports, how a connection is kept up, how
what is announced becomes local listeners, and who is served what. Each module is translated
from the Rust source; `PROJECT.json` maps every definition to the lines it
stands for. TLC checks small instances and TLAPS proves the main invariants for
all values of the constants.

In this file `src/` is the source directory of the repository.

## The system

`ig daemon` is one tokio process. Each connection to its control socket, each
incoming peer connection, each announcement and each tunnel is a task of its
own on a multi-threaded runtime. What the tasks share is behind locks that each
cover one table, and nothing covers two of them, or a table and the file it is
saved to.

| component | state | operations | interacts with |
|---|---|---|---|
| grants (`grants.rs`) | `by_port`: port to the peers it is granted to | add, remove, revoke_grantee, queries | control plane and evict change it, announcing and serving read it |
| control plane (`daemon.rs`) | none of its own: it changes grants, services, binds, peers, pins, tokens | handle_request, persist, restore, run | everything below |
| state file (`state.rs`), pin file (`enroll.rs`) | `<key>.state.json`, `<key>.peers.json` | load, save with write_json | written by control requests and, the pins, by enrollment and eviction |
| startup (`daemon.rs`) | the control socket's path, the key file | bind_control_socket, load_or_create_key | other daemons, the supervisor |
| autostart (`autostart.rs`) | the unit file, and the unit as systemd has loaded it | install, uninstall, restart | systemd, which starts daemons |
| upgrade (`upgrade.rs`) | the executable | download, verify, replace | what is started next |
| enrollment (`enroll.rs`, `peer.rs`) | tokens in memory, pins on disk | mint, claim, handle_enrollment | adds peers, may announce early |
| peer connections (`peer.rs`) | `peers`, and per peer `connection`, `removed`, `conn_notify` | add_peer, handle_connection, the connection loop | bindings, announcements, eviction |
| bindings (`peer.rs`, `tunnel.rs`) | per peer `exposed_ports`, `bindings`; `binds`, `bind_lock` | update_peer_ports, set_bind, evict, remove_peer | called by announcements and requests |
| announcements (`peer.rs`) | streams in flight | send_exposed_ports, broadcast_grants, handle_uni_stream | reads grants, calls update_peer_ports of the other side |
| services and gateway (`service.rs`) | `backends`, routes, a DNS cache | register, remove, serve | serving checks grants |
| tunnel (`tunnel.rs`) | one TCP and one QUIC stream | accept, forward both ways, half-close | bindings, services |
| client, schema, main | none | one request and one answer | the control socket |

What is hard, by component, and what makes it correct:

- **Grants.** No entry without a grantee, as `ports` and unexpose take a key of
  the map for a granted port.
- **Control plane.** Persisting is a snapshot under three locks, one after the
  other, and then a save with none; requests overlap; a save may fail after the
  change; the process may die anywhere. What was acknowledged must be in the
  file, and what was revoked must not.
- **State file.** A save may be cut short by an error, a kill or a power loss;
  the file must be one whole value at any time.
- **Startup, autostart, upgrade.** Two daemons may start at once and a dead one
  leaves its socket; one path must have one daemon, and one must come back. A
  command is a sequence of calls each of which may fail or be the last: what
  reports success must be what runs, and nothing may run on without its unit.
- **Bindings and connections.** update_peer_ports holds the bind lock over a
  probe of up to three seconds, while peers reconnect, are removed and are
  inserted again under the same key; tasks hold on to the object of a peer that
  is not known any more. The listeners of known peers must be those of the last
  announcement, where the remaps put them, and a removed peer must be gone.
- **Connections.** The lock of a connection is kept over a wait for a stream,
  and the shard of the peers map over a wait for the lock; a removal waits for
  both, with the bind lock. A permit of Notify must not be missed.
- **Enrollment.** A token is spent before the checks that may still refuse; the
  timeout races the claim; an announcement may come before the token. A token
  must let one key in, and who is let in must be pinned, and nobody else.
- **Announcements.** Each is a stream and a task of its own, that reads the grants
  before it waits for the connection, and a connection may be lost or replaced
  with announcements on it. The last change must be heard of.
- **Services and gateway.** The grant is checked before the backend is looked
  up, and not again while the tunnel is open; addresses are cached without the
  lock being held over the lookup. No port may fall back to the default forward.
- **Tunnel.** Half-close.

`PROJECT.json` lists the hazards line by line with the properties that cover
them.

## Modules

| module | models | composed of |
|---|---|---|
| `Grants` | the operations of the grant table as operators | |
| `AccessRelation` | what a grant table promises: a relation | |
| `GrantTable` | the calls on the table as actions; implements `AccessRelation` | `Grants` |
| `ControlPlane` | requests, peers' tasks, persist, crash, start | `Grants` |
| `MCControlPlane` | request sets, events and command lines for the runs | `ControlPlane` |
| `LossyRegister` | what a saved file promises | |
| `StateFile` | write_json on inodes; implements `LossyRegister` | |
| `Startup` | claiming the socket, loading the key | |
| `Supervision` | autostart, systemd, upgrade, and the daemons they start | `Startup` |
| `MCSupervision` | how much is asked for and fails, for the run | `Supervision` |
| `Bindings` | peers, listeners, collisions, probe, eviction | |
| `MCBindings` | keys, announcements and remaps for the runs | `Bindings` |
| `Links` | the connection loops of two daemons, replacement, Notify, guards, announcements and removals that wait for them | |
| `MCLinks` | who dials, announces, removes, and what fails, for the run | `Links` |
| `Announcements` | tokens, enrollment, pins by request, and lists of ports on their way, between an operator and workloads | |
| `MCAnnouncements` | who is pinned, what changes and what fails, for the run | `Announcements` |
| `Serving` | grants, backends, streams, and the gateway with its cache | `GrantTable` |
| `MCServing` | ports, routes and what is declared, for the run | `Serving` |
| `GrantsLemmas`, `ControlPlaneProofs`, `BindingsProofs`, `LinksProofs`, `SupervisionProofs`, `AnnouncementsProofs`, `ServingProofs`, `StateFileProofs` | lemmas and theorems | the module they are named for |

### ControlPlane

`peers`, `by_port`, `services` and `binds` are the memory of the daemon,
`disk` and `pins` its files. A task has a step `pc`, the request `req`, the
snapshot it collects and the pins it has loaded. An action is what a task does
between two points where another may run: a request is `Receive`, then for
Expose `Register`, `Grant`, `SnapGrants`, `SnapServices`, `SnapBinds` and `Save`
or `SaveFails`; `Ungrant` and `Retire` are the two halves of unexpose; `Evict`,
`Revoke`, `UnpinLoad` and `UnpinSave` are evict, for RemovePeer as well as for a
collision. `Crash` loses the memory, `Start` restores it under one of the command lines.
The variables called the ledger (`asked` to `evicted`) say what clients have
been told; no action reads them, only properties do.

Left out: announcing after a request, which changes none of this and is in
`Announcements`, as tokens are; dry runs and queries, which change nothing; waiting
for a connection in `-a`.

### StateFile

`StateFile` has inodes with what a reader sees and what is surely on the disk,
two names, and a writer at each of write_json's calls, any of which may fail,
with `Kill` and `PowerLoss` at every step. `LossyRegister` is what the callers
rely on, a register that knows what is being saved: a save that succeeds has put
there what it was given, one that fails or is killed has either done that or
changed nothing, and a power loss may take the value back to what was flushed.

### Startup and Supervision

`Startup` has the path, the key file and, for each process, the call of
bind_control_socket or load_or_create_key that comes next. The key is written but never
synced (`daemon.rs:146-155`): it is `"whole"` until it happens to get to the disk (`Flush`,
`WrittenBack`) and `"kept"` from then on, and a power loss in between may leave it short or
take it away. `Supervision` puts
around it what starts processes: people, and systemd, which runs one of them, `Managed`.
`unit` is the file and `job` the unit as systemd has loaded it; `Install`,
`Uninstall` and `Restart` begin a command, whose calls are `OpenUnit` to
`RemoveUnit` in the order of the source, and `Fail` ends it before any of them.
`Fetch` to `Replace` are an upgrade. `image` is what the managed process was started
from, `promised` what the install that succeeded last was given, and `recent` the
releases that have been the executable since a restart last succeeded.

Of systemd it is assumed, as the commands rely on it: it runs a unit as it was last
loaded, enable and disable load it, and one that is disabled and does not run
is forgotten. `Fetch` takes any
release that is not the one the upgrade was started as, an older one too, as
`upgrade.rs:66` does. One upgrade runs at a time; two have temporary files of their
own, and the later rename would win. launchd, status, the quoting of arguments and dry runs are left
out.

### Bindings

A `Peer` is an object, not a key: `peers` leads from a key to an object and
`KeyOf` back, and a task keeps its object when the map has another. `Announce`,
`AskRemoval` and `AskInsertion` give a task its job. `Update` takes `bind_lock`
and releases what is announced no more; `Bind` and `Probe` are the two cases of
the loop over the ports; `Answer` and `NoAnswer` end a probe and evict the
announcer or the holder, by key, as the code does; `Updated` stores the list and
gives the lock back. `Remove` is remove_peer and `SetBind` is set_bind. `Dial`
and `DialEnds` are the part of the connection loop that calls connect; what
becomes of the peer meanwhile is not asked again, in the model as in the code.

A probe of an open connection may end either way, as a timeout may, but one of
a closed or replaced connection only in vain. A bind may always fail, since other programs have ports too,
and a listener that is not in the map keeps its port. evict is one action: what
it waits for between its steps is in `Links`. The ports of
an announcement are looked at in any order.

Grants and pins, which evict takes away too, are in `ControlPlane`, which in
turn knows only that a collision evicts somebody.

### Links

Two daemons and the connections between them. `loop` is the step of each
peer_connection_loop: `Top` looks for a connection and serves it, `Disconnected`
is the return of run_connection, `Notified` and `Slept` the two ways out of the
select (and the first also that out of a side that phones home), `Connected`,
`Unreachable` and `Install` the dial. A connection that is dialled gives the
other side a task, accept_loop's, which queues for the write guard (`Queue`),
closes and stores (`Replace`) and notifies (`NotifyOne`), or refuses a side that
is a peer no more (`Refuse`). `Open` and `Opened` are
open_tunnel, which keeps the read guard until it has a stream; as tokio's RwLock
serves in order, a writer that waits keeps readers out. `Broadcast` is
broadcast_grants on a side: it refers to the entry of the peer, and so to the
shard of the map, from when it looks for the connection until it has sent. `Tell` and `Told`
(after a dial) and `TellPeer` and `ToldPeer` (in the task of accept_loop) are the
announcements to a connection that has just been installed (`peer.rs:264-276`, `628`):
they keep the read guard while they open a stream, and refer to no entry of the map.
`AskRemoval`, `Remove` and `Take` are remove_peer: the bind lock, then the shard,
then the write guard. `ended` says for which
side a connection has ended: `Lose` is the network, `End` a side that notices or
that drops its last handle, which is how the connection that `Install` overwrites
goes.

Left out: the successor of a removed peer, which `Bindings` has; the contents of
announcements; and the length of the backoff. Connections are identified anew
once nobody knows them, and a dial waits while none of the setup's `pool` is free.

### Announcements

An operator and the workloads that dial it. `Mint`, `Expire` and `Spend` are the
life of a token. `AddPeer`, `Redial` and `Present` are the workload's add_peer and its
loop; `Accept` is handle_connection, and `Early`, `Claim`, `Pin`, `Insert` and
`Welcome` are handle_enrollment, each of which is a step after which the
connection may be lost or the daemon start again; `Unenrolled` is the timeout and
`Rejected` what may still refuse after the claim. `AddPinned` and `SavePin` are the two halves of
pin_peer, which needs no token. `Change` is a request that changes
what is granted, `Read` and `Send` the two halves of send_exposed_ports_to_peer
and `Apply` the task of a stream. A list is known by the number of the
change it has been read after; `newest` is the ledger of what a
listener has ever heard. Messages on a connection are a set: each is a stream,
and streams are not ordered.

Left out: what `update_peer_ports` does with a list (`Bindings`), the
eviction of workloads, and a request to pin a key while that key is enrolling with a token, whose
`Insert` would overwrite the object of the peer that the request has added.

### Serving

The grant table with the operations of `Grants`, the backends, and handle_bi_stream
between its check (`Admit`) and its lookup (`Serve`). `Expose` and `Unexpose` are
requests in two halves; each `Client` is a task of its own, whose requests come one
after another, and there may be any number of clients (`Then` sets what is left of the request of one). `Evicted` is the eviction of a peer by another
task. An HTTP service has a `Gateway` of its own, and a stream that it serves is
one HTTP connection: `Route` is request_filter and upstream_peer, `Reuse`, `Lookup`,
`LookupFails` and `Store` are resolve, `Age` is DNS_TTL.

A refinement mapping, by `GrantTable`, takes the table to `AccessRelation`: what a
request or an eviction does is to add or remove the pairs it names.
Left out: the rewriting of paths and headers, and the HTTP parser.

## Runs

`links`, `announcements`, `serving`, `serving_two_clients` and `supervision` do not check for deadlock,
as two linked daemons, workloads that are told everything, a machine that nobody
asks for anything and one whose faults are used up are at rest. The others do. No run is
limited by a constraint: every
instance is finite by itself or by a bound in a guard that is named below.

| run | instance | shows |
|---|---|---|
| control_solo | one task, every kind of request and refusal, enrollments, failing state saves, crashes, two command lines | everything acknowledged lasts, evicted peers are gone from both files, default deny, a request changes what it names and nothing else |
| control_lost_grant | two clients | finds an acknowledged grant missing from the file |
| control_orphan_service | one client | finds a backend whose port is granted to nobody |
| control_overlay_leak | one client, `-a` and `-e` | finds a grant of the command line in the file |
| state_file | one writer, 3 inodes, 2 values | never torn; a lossy register |
| supervision | 3 processes, `MaxStarting` = 1, two arguments, two releases; 3 commands, an upgrade and a fault, or 2 commands and 3 faults | one daemon on the path; what was installed runs, and nothing that was replaced before the last restart; the executable is whole; one comes back |
| bindings | 2 tasks, 2 keys, 3 objects (two of one key), 2 ports, a remap onto the port of the other | listeners follow announcements and remaps; an eviction lasts unless the peer was under way |
| bindings_zombie | the same | finds a removed peer with an open connection |
| links | 3 connections at a time; dials may fail; one side dials: where a connection is lost, with tunnels and a removal, or announcements, on the other side, or tunnels on its own; where none is, with tunnels, announcements and a removal on either side; or both sides dial, with 2 connections | the loops serve and miss nothing; a daemon that phones home ends up linked; a removal gets past the locks, and a removed peer is not linked again by the side that was dialled |
| announcements | 3 workloads, 1 token, 2 connections at a time, lists 0 and 1; a pinned workload that is granted a port or grants one, one that enrolls, one without a token that is pinned by request, with a fault each; two with one token | a token admits one key, a key is pinned by its token or by a request that names it, who is admitted is pinned, the last change is heard of, a workload gets in |
| serving | one control client; 2 ports, 2 keys, a forward, a stream; an HTTP service declared again and again with 2 streams and 2 changes of DNS; services on 2 ports | no stream falls back to the default forward, the grant table is a relation, new records take effect |
| serving_two_clients | two control clients, 1 port, 1 key, a forward, a stream | finds a stream that is forwarded to the default though its port is granted |

Why the bounds are enough. In `ControlPlane` every
property is about one port or one pair, so that a second port only matters where two
requests are to differ (control_lost_grant); two keys are there for a port with
a grantee left and for one without, two backends for a replacement. In
`StateFile` an open file, the two names and the directory on the disk can lead
to three inodes at most with one writer, and two chunks are what it takes to be
torn. `Supervision` needs one process that serves, one that starts and one that has
died; two commands are an install over another, a third is there for one that
fails half way and is followed by a restart; one fault is a call that fails, three
leave a socket, a key file and a boot behind each other. In `Bindings` a
collision takes two keys, a removed peer with a successor two objects of one
key; one task holds the lock while the other removes, inserts or queues up; both
ports can be made to collide by the remap of one. `SYMMETRY` permutes tasks, in
a run of safety properties only. In `Links` one side can have a connection installed,
another dialled and a third still waiting to be handled late; with two a dial could wait for ever
while each side keeps one that has ended, once a connection is lost. Where none is, dials that cross
replace each other with two. A fault is a lost connection; a dial may fail at any time. A side has one stream
on a connection, so that one tunnel uses them up; the setup with crossing dials
opens none, and what it, more faults and everything at once would add is left, for safety, to the
theorems. In `Announcements`
one change is enough for a list to be stale, and two connections for one to be
replaced by the other; a fault is a lost connection, a timeout, a refusal or a
restart, each at any step; the second workload is there to compete for the token, the third to be pinned without one.
In `Serving` the second port tells a revocation of everything from one of a
port, two streams and two changes let an old answer be stored over a newer one, and
two gateways let a service be declared again while a stream still has the old one.

### Fairness

`supervision` assumes that a starting process goes on, as it waits for nobody, and
that systemd starts a process that is to run and is down, as the unit says
`Restart=always`. Commands, upgrades, deaths and boots are bounded, as nothing
recovers from dying for ever.

`links` assumes weak fairness of each loop, of each accepted
connection, of noticing that a connection has ended (by its close or the idle
timeout), of an announcement that has begun (one to a connection just installed is a step of the loop or of the
accepted connection), and of a tunnel's wait for a stream, once it need not wait; not that a
tunnel ever ends, nor that a program opens one. Strong fairness is assumed of
getting at a shard of the peers map, which may be taken by others again and
again, but never for long once their announcements end, and of a dial that is tried again and
again getting through; lost connections are bounded, as nothing
links over a network that fails for ever.

`announcements` assumes that tasks run, that a stream arrives or its connection
ends, that the end of a connection is noticed, and that a workload's backoff is
over in time. Nobody has to mint a token, change a grant or dial a first time.

`serving` assumes that the resolver answers or fails in time, that the request
goes on then, and that time passes; not that records change or streams come or
end. `ControlPlane`, `StateFile` and
`Bindings` are checked for safety only.

## Proofs

| theorem | says | rests on |
|---|---|---|
| `ControlPlaneProofs!Typing` | `TypeOK` | inductive as it stands: the request of a task fits its step |
| `ControlPlaneProofs!NoGrantUnasked` | `DefaultDeny` | the requests being served are in `asked` |
| `ControlPlaneProofs!GrantSurvives`, `RevocationSurvives`, `BackendSurvives`, `RemapSurvives` | `AckedGrantSurvives` and so on | `AckedInvariant`, for one client |
| `ControlPlaneProofs!PinSurvives` | `AckedPinSurvives` | `PinInv`, for one task that pins or evicts |
| `ControlPlaneProofs!EvictionUnpins` | `EvictedIsUnpinned` | `PinInv`, for one task that pins or evicts and pin writes that do not fail |
| `ControlPlaneProofs!EvictionUngrants` | `EvictedIsUngranted` | `GoneInv`, for one client and no eviction but by request |
| `ControlPlaneProofs!ChangesAreNamed` | `OnlyAsNamed` | each action, with `TypeOK` |
| `ControlPlaneProofs!LockIsForEviction` | the bind lock is held during an eviction and at no other time (`BindLockHeld`) | inductive as it stands |
| `ControlPlaneProofs!ServiceGoesWithGrantee` | no service outlives the last grantee (`ServiceHasGrantee`) | `ServiceInv`, for one client and no eviction |
| `StateFileProofs!FileTyped` | `TypeOK` | inductive as it stands |
| `StateFileProofs!NothingTorn` | `NeverTorn` | `FileInv`, for one writer |
| `StateFileProofs!FileIsRegister` | `StateFile` implements `LossyRegister` | `FileInv`, for one writer |
| `SupervisionProofs!OneSupervisedDaemon` | `Exclusive` | `ClaimInv`, if one starts at a time |
| `SupervisionProofs!SupervisionTyped` | `TypeOK` | `Files`, `Images`, `Supervised` |
| `SupervisionProofs!UnitOutlivesJob` | `JobHasUnit` | `Installing` |
| `SupervisionProofs!RunsWhatWasInstalled` | `RunsAsInstalled` | `Supervised` |
| `SupervisionProofs!RunsWhatWasReplaced` | `RunsAsReplaced`: the executable is a whole release, and nothing runs that was replaced before the last restart | `Upgrading` |
| `SupervisionProofs!IdentityIsMadeOnce` | one process writes the key (`KeyWrittenOnce`), and only the machine going down takes away a whole key, unless it is on the disk (`KeyStays`) | inductive as it stands, for any number that start at once |
| `BindingsProofs!ListenersTyped` | `TypeOK` | `Shape` |
| `BindingsProofs!ListenersAsAnnounced` | `AsAnnounced` | `Applied` |
| `BindingsProofs!ListenersAsRemapped` | `AsRemapped` | `Mapped` |
| `BindingsProofs!EvictionIsForGood` | `EvictionLasts` | `Apart` |
| `LinksProofs!LinksTyped` | `TypeOK` | inductive as it stands, in two parts: `Typed` and `Guarded` |
| `LinksProofs!LinksServeInstalled` | `ServesInstalled` | inductive with `TypeOK` |
| `LinksProofs!LinksMissNothing` | `NoMissedConnection` | `Wakeful` |
| `LinksProofs!LinksPart` | `RemovedIsUnlinked` | `Parted` |
| `LinksProofs!RemovalPastTheMap` | a removal that waits for the guard of a connection waits for a tunnel that opens or for an announcement to a connection just installed, and for no broadcast (`RemovalWaits`) | `Parted` |
| `AnnouncementsProofs!AnnouncementsTyped` | `TypeOK` | `Values`, `Connections`, `Owned` |
| `AnnouncementsProofs!AdmittedArePinned` | `AdmittedIsPinned` | `Admitted` |
| `AnnouncementsProofs!OneKeyPerToken` | `TokenAdmitsOne` | `Unspent` |
| `AnnouncementsProofs!PinsAreOnPurpose` | `PinnedOnPurpose` | `PinInv`, and which steps pin (`PinsOf`) |
| `AnnouncementsProofs!ToldOfLastChange` | `Informed` | `Waiting`, `Bounded`, `Kept` |
| `ServingProofs!ServingTyped` | `TypeOK` | `Streams` |
| `ServingProofs!ServingNeverFallsBack` | `NeverFallsBack` | `Guarded`, for one client (`OneClient`) |
| `ServingProofs!ServingHasNoEmptyEntry` | no entry of the table is empty (`NoEmptyEntry`) | the type of a table, which each operator keeps (`GrantsLemmas`) |
| `ServingProofs!ServingImplementsAccess` | the table of `Serving` implements `AccessRelation` | what each operator does to `AllGrants` |

The theorems hold for all constants that meet the modules' assumptions: any
number of ports, keys, tasks, peers, processes, streams and connections, any
setups and so any faults, any sets of requests, events and command lines.

`AckedInvariant` has the assumption that there is one control client
(`OneClient`), and any number of tasks of peers: with two it is false, which
control_lost_grant shows. What was acknowledged is in the file between
requests, but while a request is under way the file is the older one and the
snapshot is mixed; the inductive invariant says for every step of the client
which part of its snapshot already agrees with memory, and that what a peer's
task may change beside it, the grants of an evicted key, only takes promises back.

`ChangesAreNamed` needs no such assumption: with any number of tasks, a step
changes in memory what the request of its task names and nothing else, although
revoke_grantee walks the whole table.

`PinInv` is about the read and the write of the pin file, between which nobody
may write it. Hence one task that pins or evicts (`OnePinner`), beside any number
that expose, unexpose, bind and persist: what a task has loaded is what the file holds, the
key of an eviction is no longer among the pinned and, once that is done, not in
the file, and the key of an enrollment is in the file before it is admitted.
`evict` only logs a failed removal of the pin (peer.rs:583), so `EvictionUnpins`
needs pin writes that succeed. `GoneInv` says that no table, snapshot or file
grants a port to an evicted key. It allows any number of enrolling peers, but no
eviction for a port, as a collision or as stale: that one persists nothing, so its grants stay in
the file until a later request persists.

`ServiceInv` says that a backend belongs to a port that is granted, or claimed
by a service file, or that a request is about to grant or to retire, and the same
of the snapshots and of the file. It assumes one client and no eviction, and so delimits what
control_orphan_service finds: a backend is orphaned only by an eviction, or by two
requests at once.

`NothingTorn` and `FileIsRegister` assume `OneWriter`. Their invariant says that
what has the file's name, or had it when the directory was flushed, is whole and
on the disk (`Named`), and that the temporary name has an inode of its own, which is
as far as its writer is (`Temporary`). With it every step but a rename and a
power loss is a stutter of the register. What is being saved (`Saving` in the
refinement mapping) is the value of the writer from its first call until it returns,
so that the register tells a save that failed from one that has not happened yet.

`OneSupervisedDaemon` assumes `OneAtATime` (`MaxStarting` is 1). Its invariant adds that
only a starting process can be between the refused connect and the bind, and
that as long as it is there nobody listens. It is proved of `Startup`, of which
every step of `Supervision` is a step or a boot, which ends all processes. `IdentityIsMadeOnce` does without `OneAtATime`: whatever
the sockets come to when daemons start at once, create_new lets one of them write
the key, the others load what is whole or fail, and no process takes a key away. A key
that has not got to the disk may be lost when the machine goes down.

In `SupervisionProofs` the properties speak of times at which a command
has succeeded, and the invariant of what it has done so far: `Installing` says for
each call which of the unit, the loaded unit and the enabling are already there, and
that nothing is promised until the command is through. `Upgrading` says that what
has been verified is a release, and that what runs and what would be started next are
among the `recent` ones.

In `BindingsProofs` the invariant is needed because the properties speak of
times when nobody holds the lock. `Applied` says that a known peer has
listeners for no port but those it is due: the ports of the announcement that
is being applied, if it is its own, and its `exposed_ports` otherwise. `Mapped`
says at any time what `AsRemapped` says without the lock. `Shape` says that an
object that is about to be inserted is new, so that it brings no listener into
the map, that two tasks never insert the same, and that the port under probe is
one of the announcement. `Apart` says that who was removed is known under no key.
With it an eviction leaves the peer neither connection nor listener, and
`EvictionLasts` delimits what bindings_zombie finds: only a dial or an
announcement that was under way revives an evicted peer.

In `LinksProofs` the invariant `Wakeful` says of a loop that serves, waits or
dials that what is installed is what it serves, or has ended, or is announced by
a permit or by a task that is about to notify. It is needed for the loop that
still serves, and for the dial that fails, after which the loop waits again
beside whatever was installed meanwhile. `Parted` says that only a side that
dials is in the steps of a dial, and that nobody refers to the entry of a peer that is out of
the map, so that no task that came in before the removal installs after it. The theorems hold for dials that cross,
faults, tunnels, announcements and removals together.

In `AnnouncementsProofs` the invariant `Admitted` carries the pin along the way
to the peer: a connection past the pin, a list on its way down, and what has been
heard, are all of a key that is `Covered`, which is pinned, or named by a request to pin it
that is under way or was not carried out. The latter is no mere precaution: pin_peer adds the
peer before it saves the pin (`peer.rs:186-188`). `Unspent` says that a token which may still
be claimed has let nobody in. `PinInv` says of a connection between the claim and
the pin that its token is spent, that it let in this key, and that no other
connection is there with the same token. `Informed` speaks of times when all is quiet; its
invariant `Kept` says of every connection that the sender has, and the listener has
or is about to have, where the last change is: heard, or still to be read, sent,
applied, or taken from the early list (`Coming`). A connection on which a list can
be lost is none of these afterwards, and the next one announces anew. `Waiting`
and `Bounded` are what that needs: the operator's loop has no connection that is still
being let in, and no list is newer than the grants.

In `ServingProofs` the invariant `Guarded` (`LinksProofs` has another of that name) says of a stream between the check and
the lookup that, unless its port has lapsed, the port is still granted and
keeps a backend if it had one; and that a port whose service is about to be
retired is granted to nobody. The latter needs that grants are added, and services
retired, by one client (`OneClient`): with two it is false, and so is the theorem,
which serving_two_clients shows.

What is only model-checked: liveness (`Recovers`, `Settles`,
`EvictionEnds`, `Joins`, `DnsChangeTakesEffect`). Liveness, `ENABLED` and what a recursive definition computes are
out of the prover's reach. Of the findings nothing is proved but where they end, as said
above; they are counterexamples of TLC.

## Where the code and its documentation disagree

With runs:

- Two requests that persist at once can leave an acknowledged grant out of the
  file (control_lost_grant). The same schedule loses a revocation, a backend or
  a remap, and, for the pin file, a pin, or brings a removed one back.
- Removing a peer does not retire the services of the ports it empties
  (control_orphan_service). Without evictions and with one client none is left
  (`ServiceGoesWithGrantee`).
- Grants made by the command line are written to the file by the first persist
  (control_overlay_leak).
- unexpose removes the service of a port after it has given back the lock of the
  grants (`daemon.rs:279-284`), so that a backend which another client declares, for a port
  which it grants, in between is lost, and streams of the port are forwarded to
  the default (serving_two_clients). With one client none is (`ServingNeverFallsBack`).
- A peer removed during a dial is connected again, and an announcement that was
  waiting for the lock binds listeners for it (bindings_zombie). Nothing
  releases those: `find_holder` looks at known peers only. A peer for which nothing was under
  way stays away (`EvictionIsForGood`).

Without a run of their own:

Connections.

- "If the connection drops, both sides reconnect with exponential backoff"
  (`README.md:339`): a side that enrolled or pinned the other does not dial. Where
  both do, their dials can cross: each stores its own over the one it has
  accepted, both are dropped, and as a dial that succeeded resets the backoff
  nothing but chance keeps the next ones apart. `Settles` without its premise is
  violated by two sides that do so for ever, without any fault.
- While a task waits for a stream with the guard of the connection, a late
  connection that waits to be stored keeps the loop from serving, and a removal
  waits with the bind lock, until a tunnel ends: the case that `Settles` and
  `EvictionEnds` except as `Starved`.
- A removal that finds the shard of the map locked blocks the thread it runs on, and the
  task that has the shard may wait for a message to be sent. With one thread
  (`#[tokio::main]` takes as many as there are processors) nothing would run any more.
- A holder that reconnects during its probe is evicted, as the probe was of the
  connection before.
- An `-a` peer that cannot be reached when the daemon starts is not dialled again.

Announcements and enrollment.

- Announcements overtake each other, so that the older list may be the one
  that stays: with `heard` in the place of `newest`, `Informed` is violated
  (`peer.rs:706-707` says that a revocation is always sent, so that the binding is
  torn down).
- A peer that is added by a request is announced nothing until the next change or
  its next connection (`silent`), though `README.md:335` says that each peer is
  announced its ports.
- pin_peer adds the peer before it saves the pin (`peer.rs:186-188`), so that a key is let
  in whose pin cannot be saved or is not yet: the request fails, and the peer stays until the next
  restart.
- A token stays spent when the enrollment is refused after the claim, and the
  workload that presents it again, as it does on every connection, is refused
  for good (`wasted`).

Serving.

- "The grant is the only gate" (`peer.rs:368`) is asked once: an open tunnel outlives
  its grant, and a stream between the check and the lookup is served by what has
  been declared meanwhile, or by the default forward once the port has lapsed.
- An answer of DNS that was asked for earlier may be stored over a newer one, and
  counts as fresh again (`service.rs:507`).
- The direction of a tunnel that ends first ends the tunnel, and what the other
  still carries is lost (`tunnel.rs:102`).

Files, startup and upgrades.

- Two tasks that save one file at once share its temporary name; with two writers
  `StateFile` violates `NeverTorn`, as one truncates what the other renames.
- Two daemons that start at once can both get past the refused connect; with
  `MaxStarting` = 2 `Supervision` violates `Exclusive`, and they can also keep unlinking
  each other's sockets.
- A key file that a dying daemon left shorter than 32 bytes stops every later
  start; `Recovers` says so. A power loss can leave one as well, or none, as the
  key is never synced (`daemon.rs:146-155`): the daemon then has another identity.
- `autostart restart` does not make systemd load the unit again, so that one that has been edited
  ("Edit freely", `autostart.rs:245`), or an install that failed after it was written, is
  not picked up; an install that is killed while it writes leaves a truncated unit.
- upgrade asks whether the latest release is another version, not whether it is a newer
  one: a release that is withdrawn would downgrade.

Requests.

- A dry run does not make the checks that need the peers, and RemovePeer of an
  unknown ticket is an internal error and not a not_found.

## Plan

Done: grants, control plane, files, startup with autostart and upgrades,
bindings, links with the guards of removals, announcements with enrollment, serving
with the gateway's cache. What would come next, in this order:

1. `Tunnel`: forwarding with half-close, as a pair of byte queues. Property: what one
   end has written before it closes arrives, which the code does not promise now.
2. `Gateway`: the rewriting of paths and headers, as operators on sequences checked
   against a reference definition.
3. The threads of the runtime, for what blocks on a shard of the peers map.
4. `Bindings` and `Announcements` composed: the listeners that each list leads to,
   when lists overtake each other, and the eviction of workloads by a collision.

## Not modelled

`client.rs`, `main.rs` and `schema.rs` keep no state. The HTTP parser of the
gateway, its rewriting of requests, rendering and logging are data. `load`'s refusal of a newer version
stops the daemon before anything else happens. Running out of file descriptors
ends the accept loop and so the daemon, which `Supervision` counts as a death; that
a listener whose accept fails ends is not modelled. launchd is like systemd, with
fewer calls, and has no module; status and dry runs change nothing.
