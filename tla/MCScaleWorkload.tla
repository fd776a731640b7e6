-------------------------- MODULE MCScaleWorkload --------------------------
(* Instances of a workload; replicas are small numbers, given in the cfg.  *)
EXTENDS ScaleWorkload, TLC
=============================================================================
