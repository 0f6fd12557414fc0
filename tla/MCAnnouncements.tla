---------------------------- MODULE MCAnnouncements ----------------------------
(* Small instances of Announcements: who is pinned, what changes, what fails.  *)
EXTENDS Announcements

CONSTANTS w1, w2, w3, t1

(* Two workloads are given the same token, and a third one none.               *)
Shared == [w \in Workload |-> IF w = w3 THEN None ELSE t1]

Lists(w, up, down) ==
  [x \in Workload \X Way |-> IF x[1] = w THEN IF x[2] = "up" THEN up ELSE down ELSE Last]

Tokens(status) == [t \in Token |-> status]

(* One that is pinned, and whose token is a thing of the past, is granted a    *)
(* port, or grants one; one enrolls with a port to announce; two come with the *)
(* same token; one without a token is pinned by request, and granted a port.   *)
TellOrEnroll ==
  {[dials |-> {w1}, pins |-> {w1}, vouches |-> {}, token |-> Tokens("expired"),
    granted |-> Lists(w1, 1, 0), faults |-> 1],
   [dials |-> {w1}, pins |-> {w1}, vouches |-> {}, token |-> Tokens("expired"),
    granted |-> Lists(w1, 0, 1), faults |-> 1],
   [dials |-> {w1}, pins |-> {}, vouches |-> {}, token |-> Tokens("unminted"),
    granted |-> Lists(w1, 0, 1), faults |-> 1],
   [dials |-> {w1, w2}, pins |-> {}, vouches |-> {}, token |-> Tokens("unminted"),
    granted |-> Lists(w1, 1, 1), faults |-> 0],
   [dials |-> {w3}, pins |-> {}, vouches |-> {w3}, token |-> Tokens("expired"),
    granted |-> Lists(w3, 1, 0), faults |-> 1]}
=============================================================================
