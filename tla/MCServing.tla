------------------------------- MODULE MCServing -------------------------------
(* Small instances of Serving.                                                 *)
EXTENDS Serving

CONSTANTS c1, c2, p1, p2, k1, k2, f1, g1, g2, s1, s2, n1, site, api, other

(* A route for one site goes to an upstream by name, and every site's /api to  *)
(* a socket; what is neither has no route.                                     *)
SiteRoutes == <<[matches |-> {api}, to |-> "socket"], [matches |-> {site, api}, to |-> n1]>>

(* Grants and backends of two ports, and a stream; a service that is declared  *)
(* again, with two streams, while DNS changes; services on two ports.          *)
GrantsAndGateway ==
  {[ports |-> {p1, p2}, keys |-> {k1, k2}, declares |-> {None, f1}, streams |-> {s1},
    changes |-> 0],
   [ports |-> {p1}, keys |-> {k1}, declares |-> {Http}, streams |-> {s1, s2},
    changes |-> 2],
   [ports |-> {p1, p2}, keys |-> {k1}, declares |-> {Http}, streams |-> {},
    changes |-> 0]}

(* One port and one peer, for two clients.                                     *)
OnePort ==
  {[ports |-> {p1}, keys |-> {k1}, declares |-> {None, f1}, streams |-> {s1},
    changes |-> 0]}
=============================================================================
