------------------------------ MODULE MCBindings ------------------------------
(* Small instances of Bindings: the Peer objects of each key, what peers       *)
(* announce and what is remapped.                                              *)
EXTENDS Bindings, TLC

CONSTANTS a, b, a1, a2, b1

Keys == {a, b}
Owner == [p \in Peer |-> IF p = b1 THEN b ELSE a]

AllOrNothing == {{}, {1, 2}}
OntoOne == {<<2, 1>>}

(* Tasks are all alike.                                                        *)
Tasks == Permutations(Task)
=============================================================================
