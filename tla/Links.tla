--------------------------------- MODULE Links ---------------------------------
(* The link between two daemons that know each other: the connection loop of   *)
(* each side, peer_connection_loop and run_connection of peer.rs, with the     *)
(* tasks that install a connection that the other side has dialled and those   *)
(* that open tunnels on it, announce, or remove the other from the peers.      *)
(*                                                                             *)
(* Peer.connection is behind a lock: who opens a tunnel keeps the read guard   *)
(* until there is a stream, and who waits for the write guard keeps others     *)
(* from getting a read guard.  The entry of the peer is in a shard of the map, *)
(* which is locked by whoever holds a reference into it, over his awaits too.  *)
(* Peer.conn_notify keeps one permit.                                          *)
(*                                                                             *)
(* Who comes after a removed peer, and its listeners, are in Bindings.         *)
(*                                                                             *)
(* Of iroh: a connection that one side has ended, or that the network has      *)
(* lost, ends at the other side after a time; it also ends when a side has     *)
(* dropped the last handle on it, of which tunnels below the limit of streams  *)
(* are not counted; a side has so many streams on it and waits for one when    *)
(* they are in use.                                                            *)
EXTENDS Naturals

CONSTANTS Here, There,  \* the two daemons
          Conn,
          First,        \* the connection of each daemon's add_peer
          None,
          Setups        \* who dials, where tunnels are opened, announcements made
                        \* and peers removed, and bounds: the connections that
                        \* exist at a time, and those that are lost

Side == {Here, There}

ASSUME LinksAssumption ==
  /\ Here # There
  /\ First \in [Side -> Conn] /\ First[Here] # First[There]
  /\ None \notin Conn \cup Side
  /\ Setups \subseteq [dial: SUBSET Side, openers: SUBSET Side, announcers: SUBSET Side,
                       removers: SUBSET Side, pool: SUBSET Conn, faults: Nat]

VARIABLES
  dial,        \* Peer.dial: the sides that added the other by ticket
  openers, announcers, removers,
               \* the sides whose programs connect to the bindings, whose grants
               \* change, and whose clients remove the peer
  pool,        \* the connections that can be dialled
  connection,  \* Peer.connection of each side
  permit,      \* the sides whose conn_notify has a permit
  loop,        \* the step of each connection loop
  conn,        \* its variable `conn`: what it serves, or has dialled
  task,        \* the handle_connection of each connection: its side and step
  ended,       \* the sides for which it has ended, and "network" if it is lost
  reading,     \* the sides where a task holds the read guard, for a stream
  streams,     \* <<side, connection>> where all streams are in use
  announce,    \* the broadcast_grants of each side: which locks it holds
  removal,     \* the remove_peer of each side, and how far it has got
  faults       \* how many connections may still be lost

setup == <<dial, openers, announcers, removers, pool>>
guards == <<reading, streams>>
tasks == <<announce, removal>>
vars == <<setup, connection, permit, loop, conn, task, ended, guards, tasks, faults>>

Other(s) == IF s = Here THEN There ELSE Here

(* Who accepts c, and how far it has got.                                      *)
Handling(c, s, step) == task[c] = [side |-> s, step |-> step]
Handle(c, s, step) == task' = [task EXCEPT ![c] = [side |-> s, step |-> step]]

NoTask == [side |-> None, step |-> "done"]
Tasks == [side: Side, step: {"accepted", "queued", "notify", "tell", "telling"}] \cup {NoTask}

Goto(s, step) == loop' = [loop EXCEPT ![s] = step]

(* The peer is out of the map, and removed is set.                             *)
Removed(s) == removal[s] \in {"removed", "done"}

(* Somebody waits for the write guard of s, or may have it.                    *)
Awaited(s) == \/ loop[s] = "install" \/ removal[s] = "removed"
              \/ \E c \in Conn : Handling(c, s, "queued")
Telling(s) == loop[s] = "telling" \/ \E c \in Conn : Handling(c, s, "telling")
Writable(s) == s \notin reading /\ announce[s] # "sending" /\ ~Telling(s)

(* Mutant of Referred: a reference is given up while its task waits for the    *)
(* guard.                                                                      *)
ReferredUnguarded(s) == \/ announce[s] = "sending"
                        \/ \E c \in Conn : Handling(c, s, "notify")

(* A task of s holds a reference into the map.                                 *)
Referred(s) == \/ announce[s] # "none"
               \/ \E c \in Conn : Handling(c, s, "queued") \/ Handling(c, s, "notify")

Held(s, c) == connection[s] = c \/ conn[s] = c \/ task[c].side = s \/ <<s, c>> \in streams

(* Connections that are no more: a dial waits while there are none, a delay.   *)
Gone == {c \in pool : Side \subseteq ended[c] /\ \A s \in Side : ~Held(s, c)}

(* add_peer has connected those that dial; add_pinned leaves the other to wait.*)
Init ==
  /\ \E chosen \in Setups :
       /\ dial = chosen.dial /\ openers = chosen.openers
       /\ announcers = chosen.announcers /\ removers = chosen.removers
       /\ pool = chosen.pool /\ faults = chosen.faults
  /\ LET made == {First[s] : s \in dial}
     IN  /\ task = [c \in Conn |->
                      IF c \in made
                      THEN [side |-> IF c = First[Here] THEN There ELSE Here,
                            step |-> "accepted"]
                      ELSE NoTask]
         /\ ended = [c \in Conn |-> IF c \in made THEN {} ELSE Side]
  /\ connection = [s \in Side |-> IF s \in dial THEN First[s] ELSE None]
  /\ loop = [s \in Side |-> "top"]
  /\ conn = [s \in Side |-> None]
  /\ permit = {} /\ reading = {} /\ streams = {}
  /\ announce = [s \in Side |-> "none"] /\ removal = [s \in Side |-> "none"]

-----------------------------------------------------------------------------
(* peer_connection_loop.                                                       *)

(* What it does without a connection that works.                               *)
Idle(s) == IF Removed(s) THEN "gone" ELSE IF s \in dial THEN "backoff" ELSE "notified"

(* Mutant of Top: the loop serves without asking for a connection.             *)
TopUnchecked(s) ==
  /\ loop[s] = "top" /\ ~Awaited(s)
  /\ conn' = [conn EXCEPT ![s] = connection[s]]
  /\ Goto(s, "serve")
  /\ UNCHANGED <<setup, connection, permit, task, ended, guards, tasks, faults>>

(* A connection, if there is one, is served.                                   *)
Top(s) ==
  /\ loop[s] = "top" /\ ~Awaited(s)
  /\ conn' = [conn EXCEPT ![s] = connection[s]]
  /\ Goto(s, IF connection[s] = None THEN Idle(s) ELSE "serve")
  /\ UNCHANGED <<setup, connection, permit, task, ended, guards, tasks, faults>>

(* run_connection returns once its connection has ended, which stays in        *)
(* Peer.connection.                                                            *)
Disconnected(s) ==
  /\ loop[s] = "serve" /\ s \in ended[conn[s]]
  /\ conn' = [conn EXCEPT ![s] = None]
  /\ Goto(s, Idle(s))
  /\ UNCHANGED <<setup, connection, permit, task, ended, guards, tasks, faults>>

(* conn_notify.notified(), alone or against the sleep.                         *)
Notified(s) ==
  /\ loop[s] \in {"notified", "backoff"} /\ s \in permit
  /\ permit' = permit \ {s}
  /\ Goto(s, IF Removed(s) /\ loop[s] = "notified" THEN "gone" ELSE "top")
  /\ UNCHANGED <<setup, connection, conn, task, ended, guards, tasks, faults>>

(* The sleep is over.                                                          *)
Slept(s) ==
  /\ loop[s] = "backoff"
  /\ Goto(s, IF Removed(s) THEN "gone" ELSE "dial")
  /\ UNCHANGED <<setup, connection, permit, conn, task, ended, guards, tasks, faults>>

(* endpoint.connect: the other side accepts a connection.                      *)
Connected(s) ==
  /\ loop[s] = "dial" /\ Gone # {}
  /\ LET c == CHOOSE c \in Gone : TRUE
     IN  /\ conn' = [conn EXCEPT ![s] = c]
         /\ ended' = [ended EXCEPT ![c] = {}]
         /\ Handle(c, Other(s), "accepted")
  /\ Goto(s, "install")
  /\ UNCHANGED <<setup, connection, permit, guards, tasks, faults>>

(* Mutant of Unreachable: who could not connect waits to be called.            *)
UnreachableForGood(s) ==
  /\ loop[s] = "dial"
  /\ Goto(s, "notified")
  /\ UNCHANGED <<setup, connection, permit, conn, task, ended, guards, tasks, faults>>

Unreachable(s) ==
  /\ loop[s] = "dial"
  /\ Goto(s, Idle(s))
  /\ UNCHANGED <<setup, connection, permit, conn, task, ended, guards, tasks, faults>>

(* The connection that was dialled is stored over any other, which is dropped  *)
(* and not closed, and in a peer that has been removed, too.                   *)
Install(s) ==
  /\ loop[s] = "install" /\ Writable(s)
  /\ connection' = [connection EXCEPT ![s] = conn[s]]
  /\ Goto(s, "tell")
  /\ UNCHANGED <<setup, permit, conn, task, ended, guards, tasks, faults>>

(* send_exposed_ports_to_peer, with no reference into the map: the token, if   *)
(* there is one, has gone out, and the read guard is held until the ports have *)
(* been sent on what is installed by now, or could not be.                     *)
Tell(s) ==
  /\ loop[s] = "tell" /\ ~Awaited(s) /\ connection[s] # None
  /\ Goto(s, "telling")
  /\ UNCHANGED <<setup, connection, permit, conn, task, ended, guards, tasks, faults>>

Told(s) ==
  /\ loop[s] = "telling" \/ (loop[s] = "tell" /\ ~Awaited(s) /\ connection[s] = None)
  /\ conn' = [conn EXCEPT ![s] = None]
  /\ Goto(s, "top")
  /\ UNCHANGED <<setup, connection, permit, task, ended, guards, tasks, faults>>

-----------------------------------------------------------------------------
(* handle_connection, on the side that was dialled.                            *)

(* A known peer: its entry is referred to from here until it is notified.      *)
Queue(s, c) ==
  /\ Handling(c, s, "accepted") /\ ~Removed(s)
  /\ Handle(c, s, "queued")
  /\ UNCHANGED <<setup, connection, permit, loop, conn, ended, guards, tasks, faults>>

(* Anybody else is refused, as it has no token.                                *)
Refuse(s, c) ==
  /\ Handling(c, s, "accepted") /\ Removed(s)
  /\ ended' = [ended EXCEPT ![c] = @ \cup {s}]
  /\ task' = [task EXCEPT ![c] = NoTask]
  /\ UNCHANGED <<setup, connection, permit, loop, conn, guards, tasks, faults>>

(* Mutant of Replace: the old connection is dropped, as Install does it.       *)
ReplaceByDrop(s, c) ==
  /\ Handling(c, s, "queued") /\ Writable(s)
  /\ connection' = [connection EXCEPT ![s] = c]
  /\ Handle(c, s, "notify")
  /\ UNCHANGED <<setup, permit, loop, conn, ended, guards, tasks, faults>>

(* With the write guard, the old connection is closed, the new one stored.     *)
Replace(s, c) ==
  /\ Handling(c, s, "queued") /\ Writable(s)
  /\ ended' = [k \in Conn |-> IF k = connection[s] THEN ended[k] \cup {s} ELSE ended[k]]
  /\ streams' = streams \ {<<s, connection[s]>>}
  /\ connection' = [connection EXCEPT ![s] = c]
  /\ Handle(c, s, "notify")
  /\ UNCHANGED <<setup, permit, loop, conn, reading, tasks, faults>>

(* Mutant of NotifyOne: notify_waiters wakes who waits and leaves no permit.   *)
NotifyWaiters(s, c) ==
  /\ Handling(c, s, "notify")
  /\ permit' = IF loop[s] \in {"notified", "backoff"} THEN permit \cup {s} ELSE permit
  /\ Handle(c, s, "tell")
  /\ UNCHANGED <<setup, connection, loop, conn, ended, guards, tasks, faults>>

NotifyOne(s, c) ==
  /\ Handling(c, s, "notify")
  /\ permit' = permit \cup {s}
  /\ Handle(c, s, "tell")
  /\ UNCHANGED <<setup, connection, loop, conn, ended, guards, tasks, faults>>

(* Its own send_exposed_ports_to_peer; the reference into the map is given up. *)
TellPeer(s, c) ==
  /\ Handling(c, s, "tell") /\ ~Awaited(s) /\ connection[s] # None
  /\ Handle(c, s, "telling")
  /\ UNCHANGED <<setup, connection, permit, loop, conn, ended, guards, tasks, faults>>

ToldPeer(s, c) ==
  /\ Handling(c, s, "telling") \/ (Handling(c, s, "tell") /\ ~Awaited(s)
                                    /\ connection[s] = None)
  /\ task' = [task EXCEPT ![c] = NoTask]
  /\ UNCHANGED <<setup, connection, permit, loop, conn, ended, guards, tasks, faults>>

-----------------------------------------------------------------------------
(* open_tunnel.                                                                *)

Open(s) ==
  /\ s \in openers \ reading /\ ~Awaited(s) /\ connection[s] # None
  /\ reading' = reading \cup {s}
  /\ UNCHANGED <<setup, connection, permit, loop, conn, task, ended, streams, tasks, faults>>

(* Mutant of Opened: who waits for a stream is not told that the connection    *)
(* has ended.                                                                  *)
OpenedOnly(s) ==
  /\ s \in reading
  /\ <<s, connection[s]>> \notin streams /\ s \notin ended[connection[s]]
  /\ streams' \in {streams, streams \cup {<<s, connection[s]>>}}
  /\ reading' = reading \ {s}
  /\ UNCHANGED <<setup, connection, permit, loop, conn, task, ended, tasks, faults>>

(* There is a stream, and it may be the last; or the connection has ended.     *)
Opened(s) ==
  /\ s \in reading
  /\ \/ <<s, connection[s]>> \notin streams /\ s \notin ended[connection[s]]
        /\ streams' \in {streams, streams \cup {<<s, connection[s]>>}}
     \/ s \in ended[connection[s]] /\ UNCHANGED streams
  /\ reading' = reading \ {s}
  /\ UNCHANGED <<setup, connection, permit, loop, conn, task, ended, tasks, faults>>

(* A tunnel ends, which nobody can count on.                                   *)
Finished(s, c) ==
  /\ <<s, c>> \in streams
  /\ streams' = streams \ {<<s, c>>}
  /\ UNCHANGED <<setup, connection, permit, loop, conn, task, ended, reading, tasks, faults>>

-----------------------------------------------------------------------------
(* broadcast_grants: the entry is referred to until the list has been sent,    *)
(* and the read guard held while it is.                                        *)

Announce(s) ==
  \/ /\ announce[s] = "none" /\ s \in announcers /\ ~Removed(s)
     /\ announce' = [announce EXCEPT ![s] = "waiting"]
  \/ /\ announce[s] = "waiting" /\ ~Awaited(s)
     /\ announce' = [announce EXCEPT ![s] = IF connection[s] = None THEN "none" ELSE "sending"]
  \/ /\ announce[s] = "sending"
     /\ announce' = [announce EXCEPT ![s] = "none"]

Broadcast(s) ==
  /\ Announce(s)
  /\ UNCHANGED <<setup, connection, permit, loop, conn, task, ended, guards, removal, faults>>

-----------------------------------------------------------------------------
(* remove_peer and evict, which hold the bind lock from the first step on.     *)

AskRemoval(s) ==
  /\ removal[s] = "none" /\ s \in removers
  /\ removal' = [removal EXCEPT ![s] = "asked"]
  /\ UNCHANGED <<setup, connection, permit, loop, conn, task, ended, guards, announce, faults>>

(* The peer leaves the map, as soon as nobody refers to its shard, and its     *)
(* loop is told.                                                               *)
Remove(s) ==
  /\ removal[s] = "asked" /\ ~Referred(s)
  /\ removal' = [removal EXCEPT ![s] = "removed"]
  /\ permit' = permit \cup {s}
  /\ UNCHANGED <<setup, connection, loop, conn, task, ended, guards, announce, faults>>

(* With the write guard, the connection is taken and closed.                   *)
Take(s) ==
  /\ removal[s] = "removed" /\ Writable(s)
  /\ ended' = [k \in Conn |-> IF k = connection[s] THEN ended[k] \cup {s} ELSE ended[k]]
  /\ streams' = streams \ {<<s, connection[s]>>}
  /\ connection' = [connection EXCEPT ![s] = None]
  /\ removal' = [removal EXCEPT ![s] = "done"]
  /\ UNCHANGED <<setup, permit, loop, conn, task, reading, announce, faults>>

-----------------------------------------------------------------------------
(* The network.                                                                *)

Lose(c) ==
  /\ ended[c] = {} /\ faults > 0
  /\ faults' = faults - 1
  /\ ended' = [ended EXCEPT ![c] = {"network"}]
  /\ UNCHANGED <<setup, connection, permit, loop, conn, task, guards, tasks>>

(* A side sees that the connection has ended; or it has dropped the last       *)
(* handle on it.                                                               *)
End(s, c) ==
  /\ s \notin ended[c]
  /\ ended[c] # {} \/ ~Held(s, c)
  /\ ended' = [ended EXCEPT ![c] = IF Other(s) \in @ THEN Side ELSE @ \cup {s}]
  /\ streams' = streams \ {<<s, c>>}
  /\ UNCHANGED <<setup, connection, permit, loop, conn, task, reading, tasks, faults>>

Loop(s) == Top(s) \/ Disconnected(s) \/ Notified(s) \/ Slept(s) \/ Connected(s)
           \/ Unreachable(s) \/ Install(s) \/ Tell(s) \/ Told(s)

Accept(s, c) == Queue(s, c) \/ Refuse(s, c) \/ Replace(s, c) \/ NotifyOne(s, c)
                \/ TellPeer(s, c) \/ ToldPeer(s, c)

Next ==
  \/ \E s \in Side : Loop(s) \/ Open(s) \/ Opened(s) \/ Broadcast(s)
                       \/ AskRemoval(s) \/ Remove(s) \/ Take(s)
  \/ \E s \in Side, c \in Conn : Accept(s, c) \/ End(s, c) \/ Finished(s, c)
  \/ \E c \in Conn : Lose(c)

Safety == Init /\ [][Next]_vars

(* The runtime runs every task, sleeps and idle timeouts are over in time, a   *)
(* dial ends, as a message does, and who dials again and again gets through at *)
(* last.  The shard of the map is free at last for who waits for it, if it is  *)
(* so again and again.  No tunnel need ever end.                               *)
Fairness ==
  \A s \in Side :
    /\ WF_vars(Loop(s)) /\ SF_vars(Connected(s)) /\ WF_vars(Opened(s))
    /\ WF_vars(announce[s] # "none" /\ Broadcast(s))
    /\ SF_vars(Remove(s)) /\ WF_vars(Take(s))
    /\ \A c \in Conn : WF_vars(Accept(s, c)) /\ WF_vars(End(s, c))

Spec == Safety /\ Fairness

-----------------------------------------------------------------------------
(* Properties.                                                                 *)

(* Every variable keeps its type; what is served is a connection, and a guard  *)
(* for a stream is held on one.                                                *)
TypeOK ==
  /\ {dial, openers, announcers, removers} \subseteq SUBSET Side /\ pool \subseteq Conn
  /\ connection \in [Side -> Conn \cup {None}]
  /\ permit \subseteq Side
  /\ loop \in [Side -> {"top", "serve", "notified", "backoff", "dial", "install", "tell",
                         "telling", "gone"}]
  /\ conn \in [Side -> Conn \cup {None}]
  /\ task \in [Conn -> Tasks]
  /\ ended \in [Conn -> SUBSET (Side \cup {"network"})]
  /\ reading \subseteq Side /\ streams \subseteq Side \X Conn
  /\ announce \in [Side -> {"none", "waiting", "sending"}]
  /\ removal \in [Side -> {"none", "asked", "removed", "done"}]
  /\ faults \in Nat
  /\ \A s \in Side : /\ loop[s] \in {"serve", "install", "tell", "telling"}
                           <=> conn[s] # None
                     /\ ~Writable(s) => connection[s] # None

(* "Known peer reconnecting -- close old connection, install new one"          *)
(* (handle_connection): a loop never serves a connection that still works when *)
(* another is installed, which nobody would accept streams from.               *)
ServesInstalled ==
  \A s \in Side :
    loop[s] = "serve" => conn[s] = connection[s] \/ s \in ended[conn[s]]

(* "Notified when a new connection replaces the current one" (Peer): a loop    *)
(* does not wait, without a permit, beside an installed connection that works, *)
(* unless its notification is still to come.                                   *)
NoMissedConnection ==
  \A s \in Side :
    /\ loop[s] \in {"notified", "backoff"} /\ s \notin permit
    /\ connection[s] # None
    /\ s \notin ended[connection[s]]
    => Handling(connection[s], s, "notify")

(* "Fully evict a peer: close its connection" (evict): a side that does not    *)
(* dial has no connection to a peer that it has removed, and one that was let  *)
(* in before the removal is not installed after it.  A side that dials may     *)
(* install one still.                                                          *)
RemovedIsUnlinked ==
  \A s \in Side : removal[s] = "done" /\ s \notin dial => connection[s] = None

(* A task of s keeps the guard of a connection whose tunnels do not end, and   *)
(* waits for a stream.                                                         *)
Starved(s) == s \in reading /\ <<s, connection[s]>> \in streams

(* "This peer phones home; wait for an incoming connection"                    *)
(* (peer_connection_loop), and "bindings stay in place and resume when the     *)
(* link comes back" (README): where one side dials, the two end up serving the *)
(* same connection, whatever is lost or late, unless a side removes the other  *)
(* or is starved.                                                              *)
Linked ==
  \E c \in Conn : ended[c] = {} /\ \A s \in Side : conn[s] = c /\ connection[s] = c
                                                   /\ loop[s] = "serve"
Settles ==
  (\E s \in Side : dial = {s})
    => <>[](Linked \/ \E s \in Side : Starved(s) \/ removal[s] # "none")

(* "Fully evict a peer: close its connection, release every binding" (evict):  *)
(* a removal, which holds the bind lock all the time, gets past the map and    *)
(* the guard of the connection, whatever announces, dials, comes in or opens   *)
(* tunnels meanwhile, unless it waits for a task that is starved.              *)
EvictionEnds ==
  <>[](\A s \in Side : removal[s] \in {"none", "done"} \/ Starved(s))
=============================================================================
