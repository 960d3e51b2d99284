----------------------------- MODULE MCMemPool -----------------------------
(* MemPoolClient with a pool small enough to enumerate and large enough    *)
(* for the cursor to wrap over several used blocks.                        *)
EXTENDS MemPoolClient
=============================================================================
