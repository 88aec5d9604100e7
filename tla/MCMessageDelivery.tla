------------------------- MODULE MCMessageDelivery -------------------------
(* MessageDelivery with one message, heard twice, and an ack channel of    *)
(* one slot.                                                               *)
EXTENDS MessageDelivery
=============================================================================
