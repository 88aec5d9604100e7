------------------------------ MODULE MCDaemon ------------------------------
(* Daemon with one device and one request.                                 *)
EXTENDS Daemon
=============================================================================
