---------------------------- MODULE MCTCPClient ----------------------------
(* A socket whose buffers hold two bytes, over a kernel that holds two.    *)
EXTENDS TCPClient
=============================================================================
