------------------------------- MODULE MCChat -------------------------------
(* Chat over the backend with one text and a stream of one slot.           *)
EXTENDS Chat

OneText == {[body |-> 1, author |-> FALSE, spaced |-> FALSE]}
=============================================================================
