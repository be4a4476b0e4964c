-------------------------- MODULE MCSynthesisPipeline --------------------------
(* Small instances of SynthesisPipeline for TLC. *)
EXTENDS SynthesisPipeline, TLC

WholeRequest == {[start |-> TRUE, stop |-> TRUE]}
AnySegment   == [start : BOOLEAN, stop : BOOLEAN]

OnePiece  == <<1>>           \* the shortest result
OneByOne  == <<1, 1>>        \* two engine chunks of one protocol piece each
Uneven    == <<2, 0, 1>>     \* a long chunk, an empty one, a short one

Interchangeable == Permutations(Requests)
================================================================================
