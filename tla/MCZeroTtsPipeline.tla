-------------------------- MODULE MCZeroTtsPipeline --------------------------
(* Small instances of ZeroTtsPipeline for TLC. *)
EXTENDS ZeroTtsPipeline, TLC

Interchangeable == Permutations(Runs)
================================================================================
