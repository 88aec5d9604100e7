--------------------------- MODULE MCRequestQueue ---------------------------
(* RequestQueue with two callers and buffers of one or two frames.         *)
EXTENDS RequestQueue
=============================================================================
