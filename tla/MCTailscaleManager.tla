------------------------- MODULE MCTailscaleManager -------------------------
(* One start, one request at a time, the poll loop and the shutdown.         *)
EXTENDS TailscaleManager, TLC
=============================================================================
