------------------------------- MODULE MCLinks --------------------------------
(* Small instances of Links: who dials, what else is going on, what fails.     *)
EXTENDS Links

CONSTANTS c1, c2, c3

Setup(sides, opening, announcing, removing, conns, n) ==
  [dial |-> sides, openers |-> opening, announcers |-> announcing,
   removers |-> removing, pool |-> conns, faults |-> n]

(* A daemon that phones home, with a connection that is lost: the other side   *)
(* opens tunnels and removes it, or announces; or it opens tunnels.  With none *)
(* that is lost, a side does all of these; or there are two daemons whose      *)
(* dials cross.  Any dial may fail.                                            *)
Cases ==
  {Setup({Here}, {There}, {}, {There}, Conn, 1), Setup({Here}, {}, {There}, {}, Conn, 1),
   Setup({Here}, {Here}, {}, {}, Conn, 1), Setup(Side, {}, {}, {}, {c1, c2}, 0)}
    \cup {Setup({Here}, {s}, {s}, {s}, Conn, 0) : s \in Side}

Firsts == [s \in Side |-> IF s = Here THEN c1 ELSE c2]
=============================================================================
