---------------------------- MODULE MCControlPlane ----------------------------
(* Small instances of ControlPlane: the requests clients send, the events      *)
(* peers cause and the command lines of a start, for each of the runs.         *)
EXTENDS ControlPlane

CONSTANTS p1, p2, k1, k2, s1, s2, l1

Expose(port, to, backend) ==
  [kind |-> "Expose", port |-> port, to |-> to, backend |-> backend]
Unexpose(port, key) == [kind |-> "Unexpose", port |-> port, key |-> key]
Bind(port, to) == [kind |-> "Bind", port |-> port, local |-> to]
Peer(kind, key) == [kind |-> kind, key |-> key]

Plain == [to       |-> {},
          ports    |-> {},
          services |-> [port \in Port |-> None],
          binds    |-> [port \in Port |-> None]]

(* ig daemon, and ig daemon -a k1 -e p1 --service s1:p1 --bind p1:l1           *)
NoOverlay == {Plain}
Flagged == [Plain EXCEPT !.to = {k1}, !.ports = {p1}]
Serving == [Flagged EXCEPT !.services[p1] = s1, !.binds[p1] = l1]

(* One control request at a time: every kind of request and of answer.         *)
AllRequests ==
  {Expose(p1, {k1, k2}, s1), Expose(p1, {}, None), Expose(p1, {k2}, s2),
   Expose(p1, {Malformed}, None), Expose(p1, {k1}, BadBackend),
   Unexpose(p1, k1), Unexpose(p1, None), Unexpose(p1, Malformed),
   Bind(p1, l1), Bind(p1, None),
   Peer("AddPeer", k1), Peer("RemovePeer", k1), Peer("Pin", k1)}
SoloEvents == {Peer("Enroll", k2)}
SoloOverlays == {Plain, Serving}

(* Two requests in flight.                                                     *)
TwoExposes == {Expose(p1, {k1}, None), Expose(p2, {k1}, None)}

(* One request at a time again, for what goes wrong all the same.              *)
JustExpose == {Expose(p1, {k2}, None)}
FlaggedOnly == {Flagged}
ServeAndRemove == {Expose(p1, {k1}, s1), Peer("Pin", k1), Peer("RemovePeer", k1)}
=============================================================================
