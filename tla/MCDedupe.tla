------------------------------ MODULE MCDedupe ------------------------------
EXTENDS Dedupe, TLC
CONSTANTS dataA, dataB, dataC     \* dataA and dataC have the same name
MCName == (dataA :> "n" @@ dataB :> "m" @@ dataC :> "n")
instanceOf(vios, count, data, async, compressing, broken) ==
  [vios |-> vios, writes |-> count, data |-> data, async |-> async, compressing |-> compressing, faults |-> broken]
(* Claims, forks and rollover take three writes of the same data; stale    *)
(* advice takes a write and a trim; compression takes two names.           *)
MCInstances ==
  {instanceOf(3, 3, {dataA, dataB}, TRUE, TRUE, FALSE), instanceOf(2, 3, {dataA, dataB, Zero}, FALSE, TRUE, FALSE)}
    \cup {instanceOf(2, 2, {dataA, dataC}, async, TRUE, FALSE) : async \in BOOLEAN}
    \cup {instanceOf(2, 3, {dataA, Zero}, async, FALSE, TRUE) : async \in BOOLEAN}
(* Compression with a disk which may fill or fail.                         *)
MCFaulty == {instanceOf(3, 4, {dataA}, TRUE, TRUE, TRUE)}
Symmetry == Permutations(DataVIOs) \cup Permutations(Blocks)
=============================================================================
