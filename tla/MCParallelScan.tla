--------------------------- MODULE MCParallelScan ---------------------------
(* The bounds are in MCParallelScan.cfg.                                   *)
EXTENDS ParallelScan
=============================================================================
