---------------------------- MODULE MCTCPServer ----------------------------
(* Two connections with small buffers in the program and in the kernel.    *)
(* One peer sends more than a receive buffer holds, the other one byte.    *)
EXTENDS TCPServer

CONSTANTS p1, p2

MCPeers == {p1, p2}
MCMaxRequests == [c \in MCPeers |-> IF c = p1 THEN 3 ELSE 1]
=============================================================================
