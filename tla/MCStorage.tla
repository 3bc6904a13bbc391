----------------------------- MODULE MCStorage -----------------------------
(***************************************************************************)
(* The parts of the store which share no state, checked side by side: a    *)
(* behaviour is one of a single slab (Slab), of a zone's allocator         *)
(* (BlockAllocator), of the page cache of a block map zone (PageCache), of *)
(* the zone's trees (BlockMapTree), of a VDO which crashes and recovers    *)
(* (Recovery), of a rebuild (Rebuild), of a forest (Forest) or of the      *)
(* flusher with the logical zones (Flush).  The variables of the other     *)
(* parts are empty; those of the flusher, which is extended, are initial.  *)
(***************************************************************************)
EXTENDS Flush, TLC

CONSTANTS JournalSize, FlushingThreshold, BlockingThreshold, ScrubbingThreshold, EntriesPerBlock,
          FullEntriesPerBlock, RecoveryEntriesPerBlock, DataBlocks, CountsPerBlock,
          MaximumReferenceCount, PoolSize, MaxRecoveryBlocks, Instances, MaxSlabProvisional
CONSTANTS SlabBlocks, MaxSlabs, MaxWaiters, MaxChanges, MaxDrains, Depots, MaxProvisional
CONSTANTS CacheSettings, MaxJournalBlock, MaximumAge
CONSTANTS TreeSettings, BlockMapTreeHeight, EntriesPerPage, TreeGenerations, MaxTreeJournalBlock
CONSTANTS LogicalBlocks, PhysicalBlocks, RecoveryJournalSize, ReservedBlocks, SectorsPerBlock, EntriesPerSector,
          EntriesPerLastSector, Workloads
CONSTANTS EntriesInPage, MaximumReferences, Rebuilds
CONSTANTS RootCount, TreeHeight, EntriesInTreePage, EntryCounts, MaxGrowths, StoredTrees

VARIABLES z, host, a, depot, c, user, t, lookups, journal, map, counts, super, vdo, r, trees, memory, cursors

slabVars == <<z, host>>
allocatorVars == <<a, depot>>
cacheVars == <<c, user>>
treeVars == <<t, lookups>>
recoveryVars == <<journal, map, counts, super, vdo>>
forestVars == <<trees, memory, cursors>>
flusherVars == <<flushVars, kernelVars>>

vars == <<slabVars, allocatorVars, cacheVars, treeVars, recoveryVars, r, forestVars, flusherVars>>

theSlab == INSTANCE Slab WITH MaxProvisional <- MaxSlabProvisional
allocator == INSTANCE BlockAllocator
cache == INSTANCE PageCache WITH vdo <- user
tree == INSTANCE BlockMapTree WITH Generations <- TreeGenerations
recovery == INSTANCE Recovery WITH slab <- counts
rebuild == INSTANCE Rebuild
forest == INSTANCE Forest WITH map <- trees

inactive == <<>>
noSlab == z = inactive /\ host = inactive
noAllocator == a = inactive /\ depot = inactive
noCache == c = inactive /\ user = inactive
noTree == t = inactive /\ lookups = inactive
noRecovery == journal = inactive /\ map = inactive /\ counts = inactive /\ super = inactive /\ vdo = inactive
noRebuild == r = inactive
noForest == trees = inactive /\ memory = inactive /\ cursors = inactive
isFlushing == noSlab /\ noAllocator /\ noCache /\ noTree /\ noRecovery /\ noRebuild /\ noForest

Init ==
  /\ KernelFlushInit
  /\ \/ theSlab!SlabInit /\ noAllocator /\ noCache /\ noTree /\ noRecovery /\ noRebuild /\ noForest
     \/ noSlab /\ allocator!AllocatorInit /\ noCache /\ noTree /\ noRecovery /\ noRebuild /\ noForest
     \/ noSlab /\ noAllocator /\ cache!Init /\ noTree /\ noRecovery /\ noRebuild /\ noForest
     \/ noSlab /\ noAllocator /\ noCache /\ tree!Init /\ noRecovery /\ noRebuild /\ noForest
     \/ noSlab /\ noAllocator /\ noCache /\ noTree /\ recovery!Init /\ noRebuild /\ noForest
     \/ noSlab /\ noAllocator /\ noCache /\ noTree /\ noRecovery /\ rebuild!Init /\ noForest
     \/ noSlab /\ noAllocator /\ noCache /\ noTree /\ noRecovery /\ noRebuild /\ forest!Init
     \/ isFlushing

Next ==
  \/ ~noSlab /\ theSlab!Next /\ UNCHANGED <<allocatorVars, cacheVars, treeVars, recoveryVars, r, forestVars, flusherVars>>
  \/ ~noAllocator /\ allocator!Next /\ UNCHANGED <<slabVars, cacheVars, treeVars, recoveryVars, r, forestVars, flusherVars>>
  \/ ~noCache /\ cache!Next /\ UNCHANGED <<slabVars, allocatorVars, treeVars, recoveryVars, r, forestVars, flusherVars>>
  \/ ~noTree /\ tree!Next /\ UNCHANGED <<slabVars, allocatorVars, cacheVars, recoveryVars, r, forestVars, flusherVars>>
  \/ ~noRecovery /\ recovery!Next /\ UNCHANGED <<slabVars, allocatorVars, cacheVars, treeVars, r, forestVars, flusherVars>>
  \/ ~noRebuild /\ rebuild!Next /\ UNCHANGED <<slabVars, allocatorVars, cacheVars, treeVars, recoveryVars, forestVars, flusherVars>>
  \/ ~noForest /\ forest!Next /\ UNCHANGED <<slabVars, allocatorVars, cacheVars, treeVars, recoveryVars, r, flusherVars>>
  \/ isFlushing /\ KernelFlushNext
       /\ UNCHANGED <<slabVars, allocatorVars, cacheVars, treeVars, recoveryVars, r, forestVars>>

Spec == Init /\ [][Next]_vars

-----------------------------------------------------------------------------
(* Every part's state has its type, and no assertion in the code of a      *)
(* slab, of the allocator, of the page cache or of the trees fails.        *)
NoAssertionFails ==
  /\ ~noSlab => theSlab!TypeOK /\ theSlab!NoAssertionFails
  /\ ~noAllocator => allocator!TypeOK /\ allocator!NoAssertionFails
  /\ ~noCache => cache!TypeOK /\ cache!NoAssertionFails
  /\ ~noTree => tree!TypeOK /\ tree!NoAssertionFails
  /\ ~noRecovery => recovery!TypeOK

(* A slab's reference counts are those of the recovery journal entries it  *)
(* was given, also after a crash between any two of its writes, and agree  *)
(* with what it says of itself (Slab).                                     *)
SlabCountsAreRight == ~noSlab => theSlab!CountsAreRight /\ theSlab!CountsAreConsistent

(* Every slab of the allocator is where its state says, and the count of   *)
(* allocated blocks is right (BlockAllocator).                             *)
AllocatorIsConsistent == ~noAllocator => allocator!EverySlabIsInItsPlace /\ allocator!AllocatedBlocksAreCounted

(* No page of the block map is on storage with a change which the journal  *)
(* may lose, and no change is reaped before its page is on storage         *)
(* (PageCache and BlockMapTree).                                           *)
BlockMapIsWrittenBehindTheJournal ==
  /\ ~noCache => cache!ChangesAreJournaled /\ cache!ReapedChangesAreOnStorage
  /\ ~noTree => tree!AllocationsAreJournaled /\ tree!ReapedAllocationsAreOnStorage

(* The books of the page cache and of the trees balance: states, lists,    *)
(* busy counts, generations and locks; and a zone which has been saved has *)
(* nothing which is not on storage (PageCache and BlockMapTree).           *)
BlockMapIsConsistent ==
  /\ ~noCache => cache!CacheIsConsistent /\ cache!SavedZoneIsOnStorage
  /\ ~noTree => tree!GenerationsAreCounted /\ tree!LockedPagesAreDirty /\ tree!SavedZoneIsOnStorage

(* No part waits for what will never come (each module states the cases in *)
(* which the code does, if it has any).                                    *)
NothingIsStuck ==
  /\ ~noSlab => theSlab!NothingIsStuck
  /\ ~noAllocator => allocator!ScrubbingGoesOn
  /\ ~noCache => cache!NothingIsStuck
  /\ ~noTree => tree!NothingIsStuck
  /\ ~noRebuild => rebuild!RebuildGoesOn

(* Recovery finds all of the journal which was stable; recovery and        *)
(* rebuilding leave a block map which has what was journaled, and          *)
(* reference counts which are those of the block map (Recovery, Rebuild).  *)
RecoveredIsConsistent ==
  /\ ~noRecovery => recovery!FoundIsWhatWasJournaled /\ recovery!RecoveredMapIsRight /\ recovery!RecoveredCountsAreRight
  /\ ~noRebuild => rebuild!EntriesAreApplied /\ rebuild!CountsAreRebuilt /\ rebuild!LogicalSpaceIsKept

(* The forest's pages are in memory, each at a place of its own, and a     *)
(* traversal finds every page and loses none of the logical space, for     *)
(* which its boundary has room (Forest).                                   *)
ForestIsComplete ==
  ~noForest => forest!PagesAreNeitherLostNorFreed /\ forest!EveryPageHasItsPlace /\ forest!BoundaryIsNotTooLow
              /\ forest!TraversalFindsEveryPage

(* "Erase mapped entries past the end of the logical space": a traversal   *)
(* of the forest leaves nothing mapped there (Forest).                     *)
TraversalErasesPastTheEnd == ~noForest => forest!ErasedPastTheEnd
-----------------------------------------------------------------------------
(* What is checked                                                         *)

instance(s, p, o, f, n, v) == [script |-> s, policy |-> p, others |-> o, faults |-> f, crashes |-> n, saves |-> v]

MCInstances ==
  {instance(<<"new", "new", "dup", "dec">>, "async", FALSE, FALSE, 1, 0), instance(<<"new", "map">>, "async", TRUE, TRUE, 0, 1),
   instance(<<"new", "decHeld">>, "sync", TRUE, FALSE, 1, 1), instance(<<"new", "dup", "dec">>, "async", TRUE, FALSE, 2, 0)}

slabWith(free, blank, clean, load) ==
  [block |-> [b \in 0 .. SlabBlocks - 1 |-> IF b \in free THEN "free" ELSE "referenced"],
   blank |-> blank, clean |-> clean, load |-> load, long |-> FALSE]
newSlab == slabWith(0 .. SlabBlocks - 1, TRUE, TRUE, FALSE)
dirtySlab(free) == slabWith(free, FALSE, FALSE, TRUE)
depotWith(s, type, grows, faults, l) == [slabs |-> s, loadType |-> type, grows |-> grows, faults |-> faults, long |-> l]

MCDepots ==
  {depotWith(<<newSlab, dirtySlab({0})>>, "recovery", TRUE, TRUE, BOOLEAN),
   depotWith(<<dirtySlab({0}), dirtySlab({1, 2}), dirtySlab({})>>, "recovery", FALSE, FALSE, BOOLEAN),
   depotWith(<<dirtySlab({0}), newSlab>>, "rebuild", FALSE, FALSE, {FALSE})}

put(pbn) == [pbn |-> pbn, writable |-> TRUE]
get(pbn) == [pbn |-> pbn, writable |-> FALSE]
cacheOf(work, pages, policy, faults, drains) ==
  [work |-> work, pages |-> pages, pbns |-> {w.pbn : w \in {work[i] : i \in DOMAIN work}}, policy |-> policy,
   faults |-> faults, drains |-> drains]

MCCacheSettings ==
  {cacheOf(<<put(1), put(2), put(1)>>, 1, "async", 0, 1), cacheOf(<<put(1), put(2), get(1), put(3)>>, 2, "sync", 0, 0),
   cacheOf(<<put(1), put(2), put(1)>>, 1, "async", 1, 0), cacheOf(<<put(1), get(2), get(1), get(3)>>, 1, "async", 2, 1)}

write(leaf) == [leaf |-> leaf, write |-> TRUE]
read(leaf) == [leaf |-> leaf, write |-> FALSE]
treesWith(work, pool, stored, first, last, faults, drains) ==
  [work |-> work, poolSize |-> pool, stored |-> stored, firstFree |-> first, lastFree |-> last, faults |-> faults, drains |-> drains]
rootOnly == <<2, 0>> :> 1
oneLeaf == rootOnly @@ (<<1, 0>> :> 2) @@ (<<0, 0>> :> 3)
badInterior == rootOnly @@ (<<1, 0>> :> 9)
badLeaf == rootOnly @@ (<<1, 0>> :> 2) @@ (<<0, 1>> :> 9)

MCTreeSettings ==
  {treesWith(<<write(0), write(2)>>, 1, badInterior, 2, 4, 0, 1), treesWith(<<write(0), read(1)>>, 1, badLeaf, 3, 4, 0, 0),
   treesWith(<<write(0), write(1)>>, 1, rootOnly, 2, 6, 0, 0), treesWith(<<write(1), write(2)>>, 2, oneLeaf, 4, 6, 0, 1),
   treesWith(<<write(0), read(1), write(2)>>, 1, rootOnly, 2, 3, 0, 0), treesWith(<<write(1), write(2)>>, 1, oneLeaf, 4, 6, 1, 1)}

MCWorkloads ==
  {[script |-> <<<<1, 1>>, <<1, 2>>>>, crashes |-> 2], [script |-> <<<<1, 1>>, <<2, 1>>, <<1, 0>>>>, crashes |-> 1],
   [script |-> <<<<1, 1>>, <<1, 2>>, <<2, 2>>, <<1, 1>>>>, crashes |-> 1]}

entry(page, slot, pbn) == [page |-> page, slot |-> slot, pbn |-> pbn]
rebuildOf(pages, count, entries, faults) ==
  [pages |-> pages, misplaced |-> {}, entryCount |-> count, journal |-> entries, pageCount |-> 2, faults |-> faults,
   physical |-> 1 .. 2]
misplacing(rebuilt, pages) == [rebuilt EXCEPT !.misplaced = pages]

MCRebuilds ==
  {rebuildOf(<<<<0, 0>>, <<1, 2>>, <<1, 1>>>>, 5, <<entry(1, 1, 1), entry(2, 1, 2), entry(1, 1, 2), entry(1, 2, 1)>>, 0),
   rebuildOf(<<<<0, 0>>, <<1, 2>>, <<1, 1>>, <<>>>>, 7,
             <<entry(1, 1, 1), entry(2, 1, 2), entry(3, 1, -1), entry(1, 2, 1), entry(2, 2, 0), entry(2, 1, 1)>>, 1),
   misplacing(rebuildOf(<<<<0, 0>>, <<1, 2>>, <<1, 1>>, <<2, 0>>>>, 7, <<entry(1, 1, 1)>>, 0), {3}),
   misplacing(rebuildOf(<<<<1, 0>>, <<1, 2>>, <<1, 1>>>>, 5, <<entry(1, 1, 1)>>, 0), {2, 3}),
   rebuildOf(<<<<0, 0>>, <<1, 2>>, <<1, 1>>>>, 6, <<entry(3, 2, 2), entry(2, 1, 2), entry(1, 1, 2), entry(1, 2, 1)>>, 0)}
  \cup {rebuildOf(<<<<0, 0>>, <<0, 0>>, <<0, 0>>>>, 5, [k \in 1 .. 4 |-> entry(j[k][1], j[k][2], 1 + (k % 2))], 0) :
          j \in [1 .. 4 -> (1 .. 3) \X (1 .. 2)]}

treePages == {<<3, 0>>} \cup ({2} \X (0 .. 1)) \cup ({1} \X (0 .. 3))
storedTree(pages) == pages @@ [p \in treePages |-> IF p = <<3, 0>> THEN <<"mapped", "unmapped">> ELSE <<"unmapped", "unmapped">>]

MCStoredTrees ==
  {storedTree(<<>>), storedTree((<<2, 0>> :> <<"mapped", "refused">>) @@ (<<1, 0>> :> <<"mapped", "mapped">>)),
   storedTree((<<2, 0>> :> <<"mapped", "mapped">>) @@ (<<1, 0>> :> <<"invalid", "mapped">>) @@ (<<1, 1>> :> <<"mapped", "mapped">>))}
=============================================================================
