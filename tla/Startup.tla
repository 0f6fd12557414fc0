-------------------------------- MODULE Startup --------------------------------
(* How a daemon starts: it claims the control socket, loads its secret key or  *)
(* makes one, and serves.  Every process can die at any step.  Who starts one, *)
(* and starts it again, is in Supervision.                                     *)
(*                                                                             *)
(* Of the system: a socket refuses connections until it listens and once its   *)
(* process is gone; its name stays until it is unlinked, and unlinking it does *)
(* not disturb the process that listens on it.                                 *)
EXTENDS Naturals, FiniteSets

CONSTANTS Process,       \* processes that are told to be the daemon
          NoSocket,      \* nothing at the path of the socket
          Stale,         \* a socket whose process is gone
          MaxStarting    \* bound: how many are starting at a time

ASSUME StartupAssumption ==
  /\ IsFiniteSet(Process)
  /\ NoSocket \notin Process /\ Stale \notin Process /\ NoSocket # Stale
  /\ MaxStarting \in Nat

VARIABLES
  path,    \* whose socket is at the path
  key,     \* the key file: "absent", "partial", "whole", or "kept" if on the disk too
  pc       \* what each process does next

startup == <<path, key, pc>>

Claiming == {"connect", "unlink", "bind", "listen", "restrict"}
Keying == {"loadkey", "create", "writekey"}
Listening == {"restrict", "serve"} \cup Keying

Starting == {p \in Process : pc[p] \in Claiming \cup Keying}
Serving == {p \in Process : pc[p] = "serve"}

StartupInit ==
  /\ path = NoSocket /\ key \in {"absent", "kept"}
  /\ pc = [p \in Process |-> "down"]

Goto(p, step) == pc' = [pc EXCEPT ![p] = step]

(* The process ends: nothing unlinks its socket.                               *)
End(p) ==
  /\ Goto(p, "down")
  /\ path' = IF path = p THEN Stale ELSE path

Start(p) ==
  /\ pc[p] = "down"
  /\ Cardinality(Starting) < MaxStarting
  /\ Goto(p, "connect")
  /\ UNCHANGED <<path, key>>

-----------------------------------------------------------------------------
(* bind_control_socket.                                                        *)

(* Mutant of Connect: whatever is at the path is taken over.                   *)
Displace(p) ==
  /\ pc[p] = "connect"
  /\ Goto(p, "unlink")
  /\ UNCHANGED <<path, key>>

(* Mutant of Connect: a socket a crash left behind is a conflict too.          *)
RefuseStale(p) ==
  /\ pc[p] = "connect"
  /\ Goto(p, IF path = NoSocket THEN "unlink" ELSE "down")
  /\ UNCHANGED <<path, key>>

(* If somebody listens there, exit with Conflict; a socket that refuses, or    *)
(* none, is nobody.                                                            *)
Connect(p) ==
  /\ pc[p] = "connect"
  /\ Goto(p, IF path \in {q \in Process : pc[q] \in Listening} THEN "down" ELSE "unlink")
  /\ UNCHANGED <<path, key>>

(* remove_file, whatever is there by now.                                      *)
Unlink(p) ==
  /\ pc[p] = "unlink"
  /\ path' = NoSocket
  /\ Goto(p, "bind")
  /\ UNCHANGED key

(* Mutant of Bind: the listener is dropped as soon as it is bound.             *)
BindAndDrop(p) ==
  /\ pc[p] = "bind"
  /\ path' = IF path = NoSocket THEN p ELSE path
  /\ Goto(p, "down")
  /\ UNCHANGED key

(* bind, which fails if the name is taken again.                               *)
Bind(p) ==
  /\ pc[p] = "bind"
  /\ IF path = NoSocket THEN path' = p /\ Goto(p, "listen")
     ELSE UNCHANGED path /\ Goto(p, "down")
  /\ UNCHANGED key

Listen(p) ==
  /\ pc[p] = "listen"
  /\ Goto(p, "restrict")
  /\ UNCHANGED <<path, key>>

(* set_permissions, by name: it fails if the name is gone, and does not notice *)
(* if the name is another's.                                                   *)
SetMode(p) ==
  /\ pc[p] = "restrict"
  /\ IF path = NoSocket THEN End(p) ELSE Goto(p, "loadkey") /\ UNCHANGED path
  /\ UNCHANGED key

-----------------------------------------------------------------------------
(* load_or_create_key.                                                         *)

(* A file that is there is read, and an error if it is not 32 bytes long.      *)
LoadKey(p) ==
  /\ pc[p] = "loadkey"
  /\ \/ key \in {"whole", "kept"} /\ Goto(p, "serve") /\ UNCHANGED path
     \/ key = "absent" /\ Goto(p, "create") /\ UNCHANGED path
     \/ key = "partial" /\ End(p)
  /\ UNCHANGED key

(* open with create_new, an error if the file has come to be.                  *)
CreateKey(p) ==
  /\ pc[p] = "create"
  /\ IF key = "absent" THEN key' = "partial" /\ Goto(p, "writekey") /\ UNCHANGED path
     ELSE End(p) /\ UNCHANGED key

WriteKey(p) ==
  /\ pc[p] = "writekey"
  /\ key' = "whole"
  /\ Goto(p, "serve")
  /\ UNCHANGED path

-----------------------------------------------------------------------------
(* A process is killed, or fails at something else than the above.             *)
Die(p) ==
  /\ pc[p] # "down"
  /\ End(p)
  /\ UNCHANGED key

(* The key file, which nobody syncs, gets to the disk at some time.            *)
Flush ==
  /\ key = "whole" /\ key' = "kept"
  /\ UNCHANGED <<path, pc>>

(* The machine goes down, with or without what has not got to the disk.        *)
Halt ==
  /\ pc' = [p \in Process |-> "down"]
  /\ path' = IF path \in Process THEN Stale ELSE path
  /\ key' \in CASE key = "whole" -> {"kept", "partial", "absent"}
               [] key = "partial" -> {"partial", "absent"}
               [] OTHER -> {key}

Step(p) == Connect(p) \/ Unlink(p) \/ Bind(p) \/ Listen(p) \/ SetMode(p)
           \/ LoadKey(p) \/ CreateKey(p) \/ WriteKey(p)

StartupNext ==
  \/ \E p \in Process : Start(p) \/ Step(p) \/ Die(p)
  \/ Flush \/ Halt

StartupSpec == StartupInit /\ [][StartupNext]_startup

-----------------------------------------------------------------------------
(* Properties.                                                                 *)

(* Every variable keeps its type, and the owner of the path has bound it.      *)
StartupTypeOK ==
  /\ path \in Process \cup {NoSocket, Stale}
  /\ key \in {"absent", "partial", "whole", "kept"}
  /\ pc \in [Process -> {"down", "serve"} \cup Claiming \cup Keying]
  /\ path \in Process => pc[path] \in {"listen"} \cup Listening

(* "exits 5 rather than displacing a daemon already listening on that path"    *)
(* (CONTRACT.md), the socket being "the only thing making two daemons on one   *)
(* path mutually exclusive" (daemon.rs): a process that holds the path, or     *)
(* serves, is the one whom a client reaches.                                   *)
Exclusive == \A p \in Process : pc[p] \in Listening => path = p
=============================================================================
