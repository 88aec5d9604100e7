--------------------------- MODULE MCDeviceSession ---------------------------
(* DeviceSession with a TCP and a PTY bridge and one worker.               *)
EXTENDS DeviceSession
=============================================================================
