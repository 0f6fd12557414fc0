----------------------------- MODULE GrantsLemmas -----------------------------
(* What each operation of grants.rs does to a table and to the pairs it        *)
(* grants, for any ports and any keys.                                         *)
EXTENDS Grants, TLAPS

(* A table, spelled out: no port but known ones, and no entry without a peer.  *)
LEMMA TableIs ==
  ASSUME NEW table
  PROVE  table \in Table <=> /\ table = [port \in DOMAIN table |-> table[port]]
                             /\ DOMAIN table \subseteq Port
                             /\ \A port \in DOMAIN table :
                                  table[port] \subseteq Key /\ table[port] # {}
  BY DEF Table

(* The pairs of a table say of every port what the entry of the port says.     *)
LEMMA PairsOf ==
  ASSUME NEW table
  PROVE  /\ AllGrants(table) \subseteq Port \X Key
         /\ \A port \in Port, key \in Key :
              <<port, key>> \in AllGrants(table) <=> key \in Grantees(table, port)
  BY DEF AllGrants, Allows, Pair

(* A port is in ports() exactly when some pair of the table names it: the      *)
(* test by which unexpose finds that the last grantee is gone.                 *)
LEMMA GrantedPortsHaveGrantees ==
  ASSUME NEW table \in Table, NEW port \in Port
  PROVE  port \in GrantedPorts(table) <=>
           \E key \in Key : <<port, key>> \in AllGrants(table)
<1>1. port \in DOMAIN table => \E key \in Key : key \in table[port]
  BY TableIs
<1> QED BY <1>1, PairsOf DEF GrantedPorts, Grantees

(* add: the port gains the keys, nothing else changes.                         *)
LEMMA AddGrantsFacts ==
  ASSUME NEW table \in Table, NEW port \in Port, NEW keys \in SUBSET Key
  PROVE  /\ AddGrants(table, port, keys) \in Table
         /\ AllGrants(AddGrants(table, port, keys)) =
              AllGrants(table) \cup {<<port, key>> : key \in keys}
<1> DEFINE new == AddGrants(table, port, keys)
<1>1. new \in Table
  <2>1. CASE keys = {}
    BY <2>1 DEF AddGrants
  <2>2. CASE keys # {}
    <3>1. DOMAIN table \cup {port} \in SUBSET Port
      BY TableIs
    <3>2. new \in [DOMAIN table \cup {port} -> (SUBSET Key) \ {{}}]
      BY <2>2, TableIs DEF AddGrants, Grantees
    <3> QED BY <3>1, <3>2 DEF Table
  <2> QED BY <2>1, <2>2
<1>2. \A p \in Port : Grantees(new, p) = IF p = port THEN Grantees(table, p) \cup keys
                                         ELSE Grantees(table, p)
  BY DEF AddGrants, Grantees
<1>3. AllGrants(new) = AllGrants(table) \cup {<<port, key>> : key \in keys}
  BY <1>2 DEF AllGrants, Allows, Pair
<1> QED BY <1>1, <1>3

(* Dropping the entries that became empty drops no pair and leaves a table.    *)
LEMMA NonEmptyFacts ==
  ASSUME NEW ports \in SUBSET Port, NEW entry \in [ports -> SUBSET Key]
  PROVE  /\ NonEmpty(entry) \in Table
         /\ \A p \in Port : Grantees(NonEmpty(entry), p) = Grantees(entry, p)
<1>1. NonEmpty(entry) \in Table
  <2> DEFINE rest == {p \in DOMAIN entry : entry[p] # {}}
  <2>1. NonEmpty(entry) \in [rest -> (SUBSET Key) \ {{}}] /\ rest \in SUBSET Port
    BY DEF NonEmpty
  <2> QED BY <2>1 DEF Table
<1>2. \A p \in Port : Grantees(NonEmpty(entry), p) = Grantees(entry, p)
  BY DEF NonEmpty, Grantees
<1> QED BY <1>1, <1>2

(* remove with a grantee: that pair goes, nothing else changes.                *)
LEMMA RemoveGrantFacts ==
  ASSUME NEW table \in Table, NEW port \in Port, NEW key \in Key
  PROVE  /\ RemoveGrant(table, port, key) \in Table
         /\ AllGrants(RemoveGrant(table, port, key)) =
              AllGrants(table) \ {<<port, key>>}
<1> DEFINE entry == [p \in DOMAIN table |-> IF p = port THEN table[p] \ {key} ELSE table[p]]
<1>1. DOMAIN table \in SUBSET Port /\ entry \in [DOMAIN table -> SUBSET Key]
  BY TableIs
<1>2. /\ RemoveGrant(table, port, key) \in Table
      /\ \A p \in Port : Grantees(RemoveGrant(table, port, key), p) = Grantees(entry, p)
  BY <1>1, NonEmptyFacts DEF RemoveGrant
<1>3. \A p \in Port : Grantees(entry, p) = IF p = port THEN Grantees(table, p) \ {key}
                                           ELSE Grantees(table, p)
  BY DEF Grantees
<1>4. AllGrants(RemoveGrant(table, port, key)) = AllGrants(table) \ {<<port, key>>}
  <2>1. \A p \in Port, k \in Key :
          <<p, k>> \in AllGrants(RemoveGrant(table, port, key)) <=>
            <<p, k>> \in AllGrants(table) /\ ~(p = port /\ k = key)
    BY <1>2, <1>3, PairsOf
  <2> QED BY <2>1, PairsOf
<1> QED BY <1>2, <1>4

(* remove without one: the pairs of the port go, nothing else changes.         *)
LEMMA RemovePortFacts ==
  ASSUME NEW table \in Table, NEW port \in Port
  PROVE  /\ RemovePort(table, port) \in Table
         /\ AllGrants(RemovePort(table, port)) =
              {pair \in AllGrants(table) : pair[1] # port}
<1>1. RemovePort(table, port) \in Table
  <2>1. /\ DOMAIN table \ {port} \in SUBSET Port
        /\ RemovePort(table, port) \in [DOMAIN table \ {port} -> (SUBSET Key) \ {{}}]
    BY TableIs DEF RemovePort
  <2> QED BY <2>1 DEF Table
<1>2. \A p \in Port : Grantees(RemovePort(table, port), p) =
                        IF p = port THEN {} ELSE Grantees(table, p)
  BY DEF RemovePort, Grantees
<1>3. AllGrants(RemovePort(table, port)) = {pair \in AllGrants(table) : pair[1] # port}
  BY <1>2 DEF AllGrants, Allows, Pair
<1> QED BY <1>1, <1>3

(* revoke_grantee: the pairs of the peer go, nothing else changes.             *)
LEMMA RevokeGranteeFacts ==
  ASSUME NEW table \in Table, NEW key \in Key
  PROVE  /\ RevokeGrantee(table, key) \in Table
         /\ AllGrants(RevokeGrantee(table, key)) =
              {pair \in AllGrants(table) : pair[2] # key}
<1> DEFINE entry == [p \in DOMAIN table |-> table[p] \ {key}]
<1>1. DOMAIN table \in SUBSET Port /\ entry \in [DOMAIN table -> SUBSET Key]
  BY TableIs
<1>2. /\ RevokeGrantee(table, key) \in Table
      /\ \A p \in Port : Grantees(RevokeGrantee(table, key), p) = Grantees(entry, p)
  BY <1>1, NonEmptyFacts DEF RevokeGrantee
<1>3. \A p \in Port : Grantees(entry, p) = Grantees(table, p) \ {key}
  BY DEF Grantees
<1>4. AllGrants(RevokeGrantee(table, key)) = {pair \in AllGrants(table) : pair[2] # key}
  <2>1. \A p \in Port, k \in Key :
          <<p, k>> \in AllGrants(RevokeGrantee(table, key)) <=>
            <<p, k>> \in AllGrants(table) /\ k # key
    BY <1>2, <1>3, PairsOf
  <2> QED BY <2>1, PairsOf
<1> QED BY <1>2, <1>4

(* A table built from rows grants exactly these rows.                          *)
LEMMA FromRowsFacts ==
  ASSUME NEW rows \in SUBSET Pair
  PROVE  FromRows(rows) \in Table /\ AllGrants(FromRows(rows)) = rows
<1> DEFINE ports == {pair[1] : pair \in rows}
<1>1. /\ ports \in SUBSET Port
      /\ FromRows(rows) \in [ports -> (SUBSET Key) \ {{}}]
  <2>1. ASSUME NEW port \in ports PROVE \E key \in Key : <<port, key>> \in rows
    BY DEF Pair
  <2> QED BY <2>1 DEF FromRows, Pair
<1>2. FromRows(rows) \in Table
  BY <1>1 DEF Table
<1>3. \A port \in Port : Grantees(FromRows(rows), port) = {key \in Key : <<port, key>> \in rows}
  <2>1. ASSUME NEW port \in Port, port \notin ports
        PROVE  {key \in Key : <<port, key>> \in rows} = {}
    BY <2>1
  <2> QED BY <2>1 DEF FromRows, Grantees
<1>4. AllGrants(FromRows(rows)) = rows
  BY <1>3 DEF AllGrants, Allows, Pair
<1> QED BY <1>2, <1>4

LEMMA NoGrantsFacts == NoGrants \in Table /\ AllGrants(NoGrants) = {}
<1>1. NoGrants \in [{} -> (SUBSET Key) \ {{}}]
  BY DEF NoGrants
<1> QED BY <1>1 DEF Table, AllGrants, Allows, Grantees, NoGrants
=============================================================================
