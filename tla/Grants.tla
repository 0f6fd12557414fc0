-------------------------------- MODULE Grants --------------------------------
(* The directed grants of src/grants.rs: by_port maps a port to the set of     *)
(* peers it is granted to.  A table is a function from the granted ports to    *)
(* non-empty sets of keys.  It holds no port with an empty set: `ports` is the *)
(* list of keys of the map, and unexpose asks it whether a port has any        *)
(* grantee left.                                                               *)
CONSTANTS Port,   \* port numbers
          Key     \* endpoint ids of peers

Pair == Port \X Key

Table == UNION {[ports -> (SUBSET Key) \ {{}}] : ports \in SUBSET Port}

NoGrants == [port \in {} |-> {}]

Grantees(table, port) == IF port \in DOMAIN table THEN table[port] ELSE {}

(* allows: is this port granted to this peer?                                  *)
Allows(table, port, key) == key \in Grantees(table, port)

(* ports: the ports granted to anyone at all.                                  *)
GrantedPorts(table) == DOMAIN table

(* ports_for: what is announced to one peer.                                   *)
PortsFor(table, key) == {port \in DOMAIN table : key \in table[port]}

(* all: every (port, grantee) row, as list and the state file have them.       *)
AllGrants(table) == {pair \in Pair : Allows(table, pair[1], pair[2])}

(* Adding row by row to an empty table, as restore does.                       *)
FromRows(rows) ==
  [port \in {pair[1] : pair \in rows} |-> {key \in Key : <<port, key>> \in rows}]

(* add, for every key of a set: the loop of expose holds the write lock.       *)
AddGrants(table, port, keys) ==
  IF keys = {} THEN table
  ELSE [p \in DOMAIN table \cup {port} |->
          IF p = port THEN Grantees(table, port) \cup keys ELSE table[p]]

(* The entries of a table after a change, without those that became empty.     *)
NonEmpty(table) == [port \in {p \in DOMAIN table : table[p] # {}} |-> table[port]]

(* remove(port, Some(key)): an entry left empty goes too.                      *)
RemoveGrant(table, port, key) ==
  NonEmpty([p \in DOMAIN table |->
              IF p = port THEN table[p] \ {key} ELSE table[p]])

(* remove(port, None).                                                         *)
RemovePort(table, port) == [p \in DOMAIN table \ {port} |-> table[p]]

(* Mutant of RevokeGrantee: only the ports granted to nobody else are dropped. *)
RevokeSoleGrantee(table, key) ==
  [port \in {p \in DOMAIN table : table[p] # {key}} |-> table[port]]

(* Mutant of RevokeGrantee: the ports granted to the peer lose everybody.      *)
RevokeItsPorts(table, key) ==
  [port \in {p \in DOMAIN table : key \notin table[p]} |-> table[port]]

(* revoke_grantee: drop every grant that names one peer.                       *)
RevokeGrantee(table, key) ==
  NonEmpty([p \in DOMAIN table |-> table[p] \ {key}])
=============================================================================
