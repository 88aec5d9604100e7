---------------------------- MODULE MCRepeaters ----------------------------
(* Repeaters with one repeater in the contact replica.                     *)
EXTENDS Repeaters

OneRemote == {[name |-> 2, key |-> 1]}
=============================================================================
