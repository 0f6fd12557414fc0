----------------------------- MODULE MCSupervision -----------------------------
(* Small instances of Supervision.                                             *)
EXTENDS Supervision

(* Commands that fail half way and are given again, and upgrades, beside one   *)
(* daemon; deaths and boots beside an install and a daemon run by hand.        *)
CommandsOrDeaths ==
  {[commands |-> 3, upgrades |-> 1, faults |-> 1], [commands |-> 2, upgrades |-> 0, faults |-> 3]}
=============================================================================
