----------------------------- MODULE MCPolling ------------------------------
(* Polling with room for two coroutines of the one connector.              *)
EXTENDS Polling
CONSTANTS p1, p2
=============================================================================
