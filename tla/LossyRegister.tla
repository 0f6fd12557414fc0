----------------------------- MODULE LossyRegister -----------------------------
(* What write_json promises of the file it replaces: a register that holds one *)
(* whole value at a time.  A save that succeeds puts there what it was given,  *)
(* one that fails changes nothing, at some time later the value is on the disk,*)
(* and a power loss takes the register back to what was there.                 *)
CONSTANTS Value, NoValue

VARIABLES current, durable,
          saving   \* what is being saved: nothing, or one value

Init == current = NoValue /\ durable = NoValue /\ saving = {}

Save == saving = {} /\ (\E value \in Value : saving' = {value}) /\ UNCHANGED <<current, durable>>

Succeed == current' \in saving /\ saving' = {} /\ UNCHANGED durable

Abandon == saving' = {} /\ UNCHANGED <<current, durable>>

Flush == durable' = current /\ UNCHANGED <<current, saving>>

Lose == current' = durable /\ saving' = {} /\ UNCHANGED durable

Next == Save \/ Succeed \/ Abandon \/ Flush \/ Lose

Spec == Init /\ [][Next]_<<current, durable, saving>>
=============================================================================
