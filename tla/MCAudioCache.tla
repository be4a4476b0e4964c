----------------------------- MODULE MCAudioCache -----------------------------
(* Small instances of AudioCache for TLC. *)
EXTENDS AudioCache, TLC

CONSTANTS a, b, c

FixedSizes   == a :> {1} @@ b :> {2} @@ c :> {4}
VaryingSizes == a :> {1, 3} @@ b :> {1, 3} @@ c :> {}
FaultySizes  == a :> {1, 3} @@ b :> {3} @@ c :> {}

NothingFails == {Healthy}
OneFails ==
  NothingFails \cup
  {[Healthy EXCEPT !.stuck = {a}],
   [Healthy EXCEPT !.listed = FALSE],
   [Healthy EXCEPT !.written = FALSE, !.leaked = TRUE]}

World(sizes, faults) == [sizes |-> sizes, faults |-> faults]
AllWorlds ==
  {World(FixedSizes, NothingFails), World(VaryingSizes, NothingFails), World(FaultySizes, OneFails)}
VaryingOnly == {World(VaryingSizes, NothingFails)}

\* Files of an earlier process, which may have had larger limits or lost power.
Damaged(k)  == [Item(k, 1) EXCEPT !.sound = FALSE]
EmptyOnly   == {<<>>}
OtherLimits == {<<>>, <<Item(c, 4), Item(a, 1)>>, <<Damaged(a), Item(b, 3)>>}
================================================================================
