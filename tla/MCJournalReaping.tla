-------------------------- MODULE MCJournalReaping --------------------------
(***************************************************************************)
(* Instances of JournalReaping for TLC.                                    *)
(***************************************************************************)
EXTENDS JournalReaping

CONSTANTS lz1, lz2, pz1, p1, p2, b1

(* Each page is in a logical zone of its own where there are two.          *)
MCPageZone ==
  [p \in Pages |-> IF p = p2 /\ lz2 \in LogicalZones THEN lz2 ELSE lz1]
MCSlabBlockZone == [b \in SlabBlocks |-> pz1]
=============================================================================
