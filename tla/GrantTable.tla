------------------------------ MODULE GrantTable ------------------------------
(* The table of grants.rs under every sequence of the calls the daemon makes   *)
(* of it: expose, unexpose (of one grantee or of all), eviction.  Each call    *)
(* runs under the write lock that guards the table, so a call is a step.       *)
EXTENDS Grants

VARIABLE by_port

TableInit == by_port = NoGrants

Add(port, keys) == by_port' = AddGrants(by_port, port, keys)

Remove(port, key) == by_port' = RemoveGrant(by_port, port, key)

RemoveAll(port) == by_port' = RemovePort(by_port, port)

Evict(key) == by_port' = RevokeGrantee(by_port, key)

TableNext ==
  \/ \E port \in Port, keys \in SUBSET Key : Add(port, keys)
  \/ \E port \in Port, key \in Key : Remove(port, key)
  \/ \E port \in Port : RemoveAll(port)
  \/ \E key \in Key : Evict(key)

TableSpec == TableInit /\ [][TableNext]_by_port

(* The table never keeps an entry with no grantee, so "is this port in         *)
(* ports()?", which unexpose uses to decide whether the last grantee is gone,  *)
(* means what it is taken to mean.                                             *)
NoEmptyEntry == by_port \in Table

(* The table implements the relation of AccessRelation: a call changes the     *)
(* pairs it names and no other, whatever else shares the port or the peer.     *)
Access == INSTANCE AccessRelation WITH granted <- AllGrants(by_port)

ImplementsAccess == Access!Spec
=============================================================================
