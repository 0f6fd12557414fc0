---------------------------- MODULE AccessRelation ----------------------------
(* What grants.rs promises, with no table behind it: a relation between ports  *)
(* and peers, empty at first, that gains and loses exactly the pairs named.    *)
CONSTANTS Port, Key

VARIABLE granted

Init == granted = {}

Grant(port, keys) == granted' = granted \cup {<<port, key>> : key \in keys}

Revoke(port, key) == granted' = granted \ {<<port, key>>}

RevokePort(port) == granted' = {pair \in granted : pair[1] # port}

RevokePeer(key) == granted' = {pair \in granted : pair[2] # key}

Next ==
  \/ \E port \in Port, keys \in SUBSET Key : Grant(port, keys)
  \/ \E port \in Port, key \in Key : Revoke(port, key)
  \/ \E port \in Port : RevokePort(port)
  \/ \E key \in Key : RevokePeer(key)

Spec == Init /\ [][Next]_granted
=============================================================================
