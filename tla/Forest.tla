-------------------------------- MODULE Forest --------------------------------
(***************************************************************************)
(* The forest of the block map's trees (vdo/base/forest.c): the memory of  *)
(* the interior pages, which grows by a segment when the logical space     *)
(* grows (blockMap.c: prepareToGrowBlockMap(), growBlockMap() and          *)
(* abandonBlockMapGrowth()), and the traversal which finds all the         *)
(* interior pages of a block map when reference counts are rebuilt.        *)
(*                                                                         *)
(* An allocation of pages is a number; a page is an offset in one.         *)
(***************************************************************************)
EXTENDS Integers, Sequences, FiniteSets, FiniteSetsExt, SequencesExt, Functions

CONSTANTS
  RootCount,
  TreeHeight,        \* BLOCK_MAP_TREE_HEIGHT; the leaves are not in memory
  EntriesInTreePage, \* BLOCK_MAP_ENTRIES_PER_PAGE
  EntryCounts,       \* the sizes of the logical space
  MaxGrowths,        \* a bound on the growths prepared
  StoredTrees        \* the trees found on storage when they are traversed

VARIABLES map, memory, cursors

vars == <<map, memory, cursors>>

heights == 1 .. TreeHeight
roots == 0 .. RootCount - 1
none == [segments |-> 0]

computeBucketCount(count, size) == IF count % size > 0 THEN (count \div size) + 1 ELSE count \div size
computeBlockMapPageCount(entries) == computeBucketCount(entries, EntriesInTreePage)

-----------------------------------------------------------------------------
(* Sizes                                                                   *)

(* newSizes of computeNewPages(): the pages of each level of each tree.    *)
(* There are no flat pages.                                                *)
newSizes(entries) ==
  LET leafPages == Max({computeBlockMapPageCount(entries), 1})
      size[h \in 0 .. TreeHeight] ==
        IF h = 0 THEN computeBucketCount(leafPages, RootCount) ELSE computeBucketCount(size[h - 1], EntriesInTreePage)
  IN  [h \in heights |-> size[h]]

computeNewPages(oldSizes, sizes) ==
  FoldLeft(LAMBDA n, h : n + (sizes[h] - oldSizes[h]) * RootCount, 0, [h \in heights |-> h])

(* The entries which each level of a root's tree may have.                 *)
inCyclicRange(lower, value, upper, modulus) ==
  (IF value < lower THEN value + modulus ELSE value) <= (IF upper < lower THEN upper + modulus ELSE upper)

computeBoundary(entryCount, root) ==
  LET leafPages == computeBlockMapPageCount(entryCount)
      extra == IF inCyclicRange(0, root, (leafPages - 1) % RootCount, RootCount) THEN 1 ELSE 0
      level[h \in heights] == IF h = 1 THEN (leafPages \div RootCount) + extra
                              ELSE computeBucketCount(level[h - 1], EntriesInTreePage)
  IN  [h \in heights |-> IF h = TreeHeight THEN 1 ELSE level[h]]

-----------------------------------------------------------------------------
(* Growing                                                                 *)

noSizes == [h \in heights |-> 0]
lastBoundary(forest) == IF forest = none THEN noSizes ELSE Last(forest.boundaries)

(* Mutant: the levels of a tree overlap.                                   *)
levelOffsetOfTree(sizes, root, height) ==
  FoldLeft(LAMBDA n, h : n + sizes[h], 0, [h \in 1 .. height |-> h]) * root

(* Where the pages of a level of a tree begin in the pages of a segment.   *)
levelOffset(sizes, root, height) ==
  FoldLeft(LAMBDA n, h : n + sizes[h], 0, [h \in heights |-> h]) * root
    + FoldLeft(LAMBDA n, h : n + sizes[h], 0, [h \in 1 .. height - 1 |-> h])

makeSegment(forest, sizes, pages) ==
  LET old == lastBoundary(forest)
      segmentSizes == [h \in heights |-> sizes[h] - old[h]]
      tree(root) == [h \in heights |-> levelOffset(segmentSizes, root, h)]
      before == IF forest = none THEN [boundaries |-> <<>>, pages |-> <<>>, trees |-> [root \in roots |-> <<>>]] ELSE forest
  IN  [segments |-> forest.segments + 1, boundaries |-> Append(before.boundaries, sizes), pages |-> Append(before.pages, pages),
       trees |-> [root \in roots |-> Append(before.trees[root], tree(root))]]

(* The pages from a segment on are freed.                                  *)
deforest(mem, forest, first) ==
  IF forest = none THEN mem ELSE [mem EXCEPT !.live = @ \ {forest.pages[s] : s \in first + 1 .. forest.segments}]

abandonForest(m, mem) ==
  [map |-> [m EXCEPT !.nextForest = none, !.nextEntryCount = 0], memory |-> deforest(mem, m.nextForest, m.nextForest.segments - 1)]

(* makeForest(): allocation may fail, and then what was made is undone.    *)
makeForest(m, mem, entries, fails) ==
  LET sizes == newSizes(entries)
      pages == mem.allocated + 1
      newPages == computeNewPages(lastBoundary(m.forest), sizes)
  IN  IF newPages = 0 THEN [map |-> [m EXCEPT !.nextEntryCount = entries], memory |-> mem]
      ELSE IF fails THEN [map |-> m, memory |-> mem]
      ELSE [map |-> [m EXCEPT !.nextForest = makeSegment(m.forest, sizes, pages), !.nextEntryCount = entries],
            memory |-> [mem EXCEPT !.allocated = pages, !.live = @ \cup {pages}, !.size = Append(@, newPages)]]

prepareToGrow(m, mem, entries, fails) ==
  IF m.nextEntryCount = entries THEN [map |-> m, memory |-> mem]
  ELSE LET clear == IF m.nextEntryCount > 0 THEN abandonForest(m, mem) ELSE [map |-> m, memory |-> mem]
       IN  IF entries < m.entryCount THEN [clear EXCEPT !.map.nextEntryCount = m.entryCount]
           ELSE makeForest(clear.map, clear.memory, entries, fails)

replaceForest(m, mem) ==
  LET grown == m.nextForest # none
  IN  [map |-> [m EXCEPT !.forest = IF grown THEN m.nextForest ELSE @, !.nextForest = none,
                         !.entryCount = m.nextEntryCount, !.nextEntryCount = 0],
       memory |-> IF grown THEN deforest(mem, m.forest, m.forest.segments) ELSE mem]

becomes(result) == map' = result.map /\ memory' = result.memory

PrepareToGrowBlockMap(entries) ==
  /\ map.growths < MaxGrowths /\ \A root \in roots : cursors[root] = <<>>
  /\ \E fails \in BOOLEAN : becomes(prepareToGrow([map EXCEPT !.growths = @ + 1], memory, entries, fails))
  /\ UNCHANGED cursors

GrowBlockMap ==
  /\ map.nextEntryCount > 0
  /\ becomes(replaceForest(map, memory))
  /\ UNCHANGED cursors

AbandonBlockMapGrowth ==
  /\ map.nextEntryCount > 0
  /\ becomes(abandonForest(map, memory))
  /\ UNCHANGED cursors

(* The place of an interior page: its allocation and the offset there.     *)
getTreePageByIndex(forest, root, height, index) ==
  LET segment == Min({s \in 1 .. forest.segments : index < forest.boundaries[s][height]})
      offset == IF segment = 1 THEN 0 ELSE forest.boundaries[segment - 1][height]
  IN  <<forest.pages[segment], forest.trees[root][segment][height] + index - offset>>

-----------------------------------------------------------------------------
(* Traversing                                                              *)

(* A stored tree has the entries of the interior pages, by their height    *)
(* and index.  An entry is "mapped", "unmapped", "invalid" or "refused" by *)
(* the callback.  The first entry of the super-root maps the root.  What   *)
(* was stored is kept as history.                                          *)
traversing(tree, boundary) ==
  [tree |-> tree, stored |-> tree, loaded |-> {<<TreeHeight, 0>>}, height |-> TreeHeight, pageIndex |-> [h \in heights |-> 0],
   slot |-> [h \in heights |-> 0], boundary |-> boundary, called |-> <<>>, loading |-> FALSE]

entryAt(cursor, height, index, slot) == cursor.tree[<<height, index>>][slot + 1]
erase(cursor, height, index, slot) == [cursor EXCEPT !.tree[<<height, index>>][slot + 1] = "unmapped", !.slot[height] = slot + 1]
skip(cursor, height) == [cursor EXCEPT !.slot[height] = @ + 1]

descend(cursor, height, entryIndex) ==
  [skip(cursor, height) EXCEPT !.height = height - 1, !.pageIndex[height - 1] = entryIndex, !.slot[height - 1] = 0, !.loading = TRUE]

called(cursor, height, entryIndex) ==
  IF height = TreeHeight THEN cursor ELSE [cursor EXCEPT !.called = Append(@, <<height - 1, entryIndex>>)]

RECURSIVE traverse(_)
traverse(cursor) ==
  LET height == cursor.height
      index == cursor.pageIndex[height]
      slot == cursor.slot[height]
      entry == entryAt(cursor, height, index, slot)
      entryIndex == EntriesInTreePage * index + slot
  IN  IF height > TreeHeight THEN cursor
      ELSE IF <<height, index>> \notin cursor.loaded \/ slot = EntriesInTreePage THEN traverse([cursor EXCEPT !.height = @ + 1])
      ELSE IF entry = "unmapped" THEN traverse(skip(cursor, height))
      ELSE IF entry = "invalid" \/ entryIndex >= cursor.boundary[height] \/ (entry = "refused" /\ height < TreeHeight)
      THEN traverse(erase(cursor, height, index, slot))
      ELSE IF height = 1 THEN traverse(skip(called(cursor, height, entryIndex), height))
      ELSE descend(called(cursor, height, entryIndex), height, entryIndex)

TraverseForest(root) ==
  /\ cursors[root] = <<>> /\ map.growths = 0
  /\ \E tree \in StoredTrees : cursors' = [cursors EXCEPT ![root] = traverse(traversing(tree, computeBoundary(map.entryCount, root)))]
  /\ UNCHANGED <<map, memory>>

FinishTraversalLoad(root) ==
  /\ cursors[root] # <<>> /\ cursors[root].loading
  /\ LET page == <<cursors[root].height, cursors[root].pageIndex[cursors[root].height]>>
     IN  cursors' = [cursors EXCEPT ![root] = traverse([@ EXCEPT !.loaded = @ \cup {page}, !.loading = FALSE])]
  /\ UNCHANGED <<map, memory>>

(* A page which cannot be read is passed over.                             *)
ContinueTraversal(root) ==
  /\ cursors[root] # <<>> /\ cursors[root].loading
  /\ cursors' = [cursors EXCEPT ![root] = traverse([@ EXCEPT !.loading = FALSE])]
  /\ UNCHANGED <<map, memory>>

-----------------------------------------------------------------------------

Init ==
  /\ \E entries \in EntryCounts :
       LET made == makeForest([forest |-> none, nextForest |-> none, entryCount |-> 0, nextEntryCount |-> 0, growths |-> 0],
                              [allocated |-> 0, live |-> {}, size |-> <<>>], entries, FALSE)
           loaded == replaceForest(made.map, made.memory)
       IN  map = loaded.map /\ memory = loaded.memory
  /\ cursors = [root \in roots |-> <<>>]

Next ==
  \/ \E entries \in EntryCounts : PrepareToGrowBlockMap(entries)
  \/ GrowBlockMap \/ AbandonBlockMapGrowth
  \/ \E root \in roots : TraverseForest(root) \/ FinishTraversalLoad(root) \/ ContinueTraversal(root)

Spec == Init /\ [][Next]_vars

-----------------------------------------------------------------------------

pagesOf(forest) == IF forest = none THEN {} ELSE Range(forest.pages)

(* The page numbers of each level which the leaf pages of the block map    *)
(* need, by walking up from each leaf as computing a tree slot does.       *)
neededPages(entryCount, root) ==
  LET leaves == {i \div RootCount : i \in {j \in 0 .. computeBlockMapPageCount(entryCount) - 1 : j % RootCount = root}}
      parents[h \in 0 .. TreeHeight] == IF h = 0 THEN leaves ELSE {i \div EntriesInTreePage : i \in parents[h - 1]}
  IN  parents

(* No page of the forest in use, or of the one prepared, is freed by a     *)
(* growth which is prepared, done or abandoned, in any order, and no page  *)
(* is left which neither has (deforest()).                                 *)
PagesAreNeitherLostNorFreed == memory.live = pagesOf(map.forest) \cup pagesOf(map.nextForest)

(* getTreePageByIndex() finds a page in memory for each page that the      *)
(* leaves need, and a different one for each.                              *)
EveryPageHasItsPlace ==
  LET numbers == UNION {{<<root, h, i>> : i \in neededPages(map.entryCount, root)[h]} : root \in roots, h \in heights}
      place(n) == getTreePageByIndex(map.forest, n[1], n[2], n[3])
  IN  /\ \A n \in numbers : n[3] < Last(map.forest.boundaries)[n[2]]
      /\ \A n \in numbers : place(n)[1] \in memory.live /\ place(n)[2] < memory.size[place(n)[1]]
      /\ Cardinality({place(n) : n \in numbers}) = Cardinality(numbers)

(* A growth leaves every page where it was, as pages are referred to while *)
(* the block map is in use.                                                *)
PagesStayInPlace ==
  [][\A root \in roots, h \in heights :
       \A i \in 0 .. Last(map.forest.boundaries)[h] - 1 :
          getTreePageByIndex(map'.forest, root, h, i) = getTreePageByIndex(map.forest, root, h, i)]_map

(* computeBoundary() has room, at each level of a root's tree, for all the *)
(* pages which the leaves of the root need; and has no more, as long as    *)
(* the leaf pages do not distribute evenly over the roots.  (When they do, *)
(* the root is given a page too many: see ErasedPastTheEnd.)               *)
BoundaryIsNotTooLow ==
  \A root \in roots, h \in heights \ {TreeHeight} :
    LET needed == Cardinality(neededPages(map.entryCount, root)[h - 1])
        boundary == computeBoundary(map.entryCount, root)[h]
    IN  /\ boundary >= needed
        /\ computeBlockMapPageCount(map.entryCount) % RootCount # 0 => boundary = needed

hasEnded(root) == cursors[root] # <<>> /\ ~cursors[root].loading

(* The pages which the interior pages that could be read map, in a tree.   *)
childrenOf(tree, page) ==
  {<<page[1] - 1, EntriesInTreePage * page[2] + s>> : s \in {s \in 0 .. EntriesInTreePage - 1 : tree[page][s + 1] = "mapped"}}
mappedBy(cursor, tree) == UNION {childrenOf(tree, page) : page \in cursor.loaded \ {<<TreeHeight, 0>>}}

(* A traversal which has ended has told the callback of each page which is *)
(* still mapped, exactly once, whichever pages could not be read; and it   *)
(* has kept every valid mapping of a page of the logical space which the   *)
(* callback accepted.                                                      *)
TraversalFindsEveryPage ==
  \A root \in roots : hasEnded(root) =>
    LET cursor == cursors[root]
        found == mappedBy(cursor, cursor.tree)
    IN  /\ Range(cursor.called) = found /\ Len(cursor.called) = Cardinality(found)
        /\ {page \in mappedBy(cursor, cursor.stored) : page[2] \in neededPages(map.entryCount, root)[page[1]]} \subseteq found

(* "Erase mapped entries past the end of the logical space" (forest.c):    *)
(* what a traversal leaves mapped is needed by some leaf page.             *)
ErasedPastTheEnd ==
  \A root \in roots : hasEnded(root) =>
    \A page \in mappedBy(cursors[root], cursors[root].tree) : page[2] \in neededPages(map.entryCount, root)[page[1]]
=============================================================================
