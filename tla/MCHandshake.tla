----------------------------- MODULE MCHandshake -----------------------------
(* Handshake over TCP with a device that is still booting.                 *)
EXTENDS Handshake
=============================================================================
