------------------------------- MODULE Rebuild -------------------------------
(***************************************************************************)
(* Playing journal entries into the block map (vdo/base/blockMapRecovery.c *)
(* with the heap of heap.c) and rebuilding the reference counts from it    *)
(* (referenceCountRebuild.c), as a read-only rebuild does one after the    *)
(* other.  Pages are loaded by a few page completions at a time, in any    *)
(* order, and a load may fail.                                             *)
(*                                                                         *)
(* Page p of the block map has the entries p[1], p[2], ...; an entry is 0  *)
(* when unmapped, a physical block, or Nonsense, which is no data block.   *)
(***************************************************************************)
EXTENDS Integers, Sequences, FiniteSets, SequencesExt, FiniteSetsExt, TLC

CONSTANTS
  EntriesInPage,         \* BLOCK_MAP_ENTRIES_PER_PAGE
  MaximumReferences,     \* MAXIMUM_REFERENCE_COUNT
  Rebuilds               \* what is rebuilt: [pages, misplaced, entryCount, journal, pageCount, faults, physical]

VARIABLE r

Unmapped == 0
Nonsense == -1
NoPage == 0

-----------------------------------------------------------------------------
(* The heap: heap.c with the comparator and swapper of the block map       *)
(* recovery, for which the entries of earlier pages, slots and numbers are *)
(* greater.                                                                *)

exceeds(m, n) ==
  \/ m.page < n.page
  \/ m.page = n.page /\ m.slot < n.slot
  \/ m.page = n.page /\ m.slot = n.slot /\ m.number < n.number

swap(array, i, j) == [array EXCEPT ![i] = array[j], ![j] = array[i]]

largerChild(array, left, last) ==
  IF left < last /\ exceeds(array[left + 1], array[left]) THEN left + 1 ELSE left

RECURSIVE siftHeapDown(_, _, _)
siftHeapDown(array, top, last) ==
  IF 2 * top > last THEN array
  ELSE LET child == largerChild(array, 2 * top, last)
       IN  IF exceeds(array[child], array[top]) THEN siftHeapDown(swap(array, top, child), child, last) ELSE array

buildHeap(array) ==
  LET count == Len(array)
  IN  FoldRight(LAMBDA top, heap : siftHeapDown(heap, top, count), [k \in 1 .. count \div 2 |-> k], array)

(* sortNextHeapElement() moves the greatest element to the sorted ones at  *)
(* the end.                                                                *)
sortNextHeapElement(z) ==
  IF z.heapCount = 0 THEN z
  ELSE [z EXCEPT !.entries = siftHeapDown(swap(@, 1, z.heapCount), 1, z.heapCount - 1), !.heapCount = @ - 1]

-----------------------------------------------------------------------------
(* Playing the entries into the block map                                  *)

(* A page completion waits for a page, or has it and is ready.             *)
idleCompletion == [page |-> NoPage, ready |-> FALSE]

finish(z, phase) == [z EXCEPT !.phase = phase]

(* finishIfDone(), without what the caller does when it is not.            *)
isMapDone(z) ==
  /\ ~z.launching /\ z.outstanding = 0
  /\ z.aborted \/ z.current = 0

finishMap(z) ==
  IF z.aborted THEN [finish(z, "aborted") EXCEPT !.completions = [i \in DOMAIN @ |-> idleCompletion]]
  ELSE finish(z, "flushing")

(* The place of the first entry of another page, going down; the entries   *)
(* passed are sorted first when they have not been fetched before.         *)
RECURSIVE findEntryStartingNextPage(_, _, _, _)
findEntryStartingNextPage(z, page, place, needsSort) ==
  IF place = 0 \/ z.entries[place].page # page THEN [z |-> z, place |-> place]
  ELSE findEntryStartingNextPage(IF needsSort THEN sortNextHeapElement(z) ELSE z, page, place - 1, needsSort)

fetchPage(z, i) ==
  IF z.unfetched = 0 THEN z
  ELSE LET page == z.entries[z.unfetched].page
           next == findEntryStartingNextPage(z, page, z.unfetched, TRUE)
       IN  [next.z EXCEPT !.unfetched = next.place, !.outstanding = @ + 1,
                          !.completions[i] = [page |-> page, ready |-> FALSE]]

applyJournalEntriesToPage(page, entries) ==
  FoldRight(LAMBDA e, p : [p EXCEPT ![e.slot] = e.pbn], entries, page)

nextCompletion(z, i) == (i % Len(z.completions)) + 1

(* recoverReadyPages(), a page at a time and in the order of the entries.  *)
RECURSIVE recoverReadyPages(_, _)
recoverReadyPages(z, i) ==
  IF isMapDone(z) THEN finishMap(z)
  ELSE IF z.page # z.completions[i].page \/ ~z.completions[i].ready THEN z
  ELSE LET page == z.completions[i].page
           next == findEntryStartingNextPage(z, page, z.current, FALSE).place
           recovered == [z EXCEPT !.pages[page] = applyJournalEntriesToPage(@, SubSeq(z.entries, next + 1, z.current)),
                                  !.current = next, !.completions[i] = idleCompletion,
                                  !.page = IF next = 0 THEN NoPage ELSE z.entries[next].page]
       IN  IF isMapDone(recovered) THEN finishMap(recovered)
           ELSE recoverReadyPages(fetchPage(recovered, i), nextCompletion(z, i))

(* recoverBlockMap(): no page is processed until all have been launched.   *)
recoverBlockMap(z) ==
  LET sorted == sortNextHeapElement([z EXCEPT !.entries = buildHeap(@), !.heapCount = Len(z.entries)])
      count == Len(z.entries)
      launched == FoldLeft(LAMBDA y, i : fetchPage(y, i),
                           [sorted EXCEPT !.current = count, !.unfetched = count, !.page = sorted.entries[count].page,
                                          !.launching = TRUE],
                           [i \in DOMAIN z.completions |-> i])
  IN  IF count = 0 THEN finish(z, "flushing")
      ELSE recoverReadyPages([launched EXCEPT !.launching = FALSE, !.phase = "recovering"], 1)

-----------------------------------------------------------------------------
(* Rebuilding the reference counts                                         *)

isCountingDone(z) ==
  /\ ~z.launching /\ z.outstanding = 0
  /\ z.aborted \/ z.pageToFetch > Len(z.pages)

finishCounting(z) == finish(z, IF z.aborted THEN "aborted" ELSE "done")

finishCountingIfDone(z) == IF isCountingDone(z) THEN finishCounting(z) ELSE z

(* fetchPage(): a page which was never allocated is empty, and is passed   *)
(* over; one which is in no data block aborts the rebuild, and the next is *)
(* fetched all the same unless nothing is outstanding.                     *)
RECURSIVE fetchLeaf(_, _)
fetchLeaf(z, i) ==
  LET page == z.pageToFetch
      next == [z EXCEPT !.pageToFetch = page + 1]
      refused == [next EXCEPT !.aborted = TRUE]
  IN  IF page > Len(z.pages) THEN z
      ELSE IF z.pages[page] = <<>> THEN fetchLeaf(next, i)
      ELSE IF page \in z.setting.misplaced
      THEN IF isCountingDone(refused) THEN finishCounting(refused) ELSE fetchLeaf(refused, i)
      ELSE [next EXCEPT !.outstanding = @ + 1, !.completions[i] = [page |-> page, ready |-> FALSE]]

(* What is beyond the end of the logical space is removed.                 *)
lastSlot(z) == z.entryCount % EntriesInPage

withoutBogusEntries(z, page) ==
  IF page # Len(z.pages) THEN z
  ELSE [z EXCEPT !.pages[page] = [s \in DOMAIN @ |-> IF s > lastSlot(z) THEN Unmapped ELSE @[s]]]

(* An entry adds a reference to its block, or is removed.                  *)
countEntry(z, page, slot) ==
  LET pbn == z.pages[page][slot]
  IN  IF pbn = Unmapped THEN z
      ELSE IF pbn = Nonsense \/ z.counts[pbn] = MaximumReferences
      THEN [z EXCEPT !.used = @ + 1, !.pages[page][slot] = Unmapped]
      ELSE [z EXCEPT !.used = @ + 1, !.counts[pbn] = @ + 1]

rebuildReferenceCountsFromPage(z, page) ==
  FoldLeft(LAMBDA y, slot : countEntry(y, page, slot), withoutBogusEntries(z, page), [s \in 1 .. EntriesInPage |-> s])

rebuildFromLeaves(z) ==
  LET launched == FoldLeft(LAMBDA y, i : fetchLeaf(y, i),
                           [z EXCEPT !.phase = "counting", !.launching = TRUE, !.pageToFetch = 1],
                           [i \in DOMAIN z.completions |-> i])
  IN  finishCountingIfDone([launched EXCEPT !.launching = FALSE])

-----------------------------------------------------------------------------
(* The steps                                                               *)

numbered(journal) == [k \in DOMAIN journal |-> journal[k] @@ [number |-> k]]

Init ==
  \E s \in Rebuilds :
    r = [setting |-> s, phase |-> "loading", pages |-> s.pages, entries |-> numbered(s.journal), entryCount |-> s.entryCount,
         heapCount |-> 0, current |-> 0, unfetched |-> 0, page |-> NoPage, pageToFetch |-> 1,
         completions |-> [i \in 1 .. s.pageCount |-> idleCompletion], outstanding |-> 0, launching |-> FALSE,
         aborted |-> FALSE, faults |-> s.faults, used |-> 0, counts |-> [p \in s.physical |-> 0]]

ApplyJournalEntries ==
  /\ r.phase = "loading"
  /\ r' = recoverBlockMap(r)

isLoading(i) == r.completions[i].page # NoPage /\ ~r.completions[i].ready

PageLoaded(i) ==
  /\ r.phase = "recovering" /\ isLoading(i)
  /\ r' = recoverReadyPages([r EXCEPT !.outstanding = @ - 1, !.completions[i].ready = TRUE], i)

(* handlePageLoadError() and abortRecovery().                              *)
PageLoadError(i) ==
  /\ r.phase = "recovering" /\ isLoading(i) /\ r.faults > 0
  /\ LET failed == [r EXCEPT !.outstanding = @ - 1, !.aborted = TRUE, !.faults = @ - 1, !.completions[i] = idleCompletion]
     IN  r' = IF isMapDone(failed) THEN finishMap(failed) ELSE failed

(* The block map is drained, and the counts are rebuilt from its leaves.   *)
FlushBlockMap ==
  /\ r.phase = "flushing"
  /\ r' = rebuildFromLeaves(r)

LeafLoaded(i) ==
  /\ r.phase = "counting" /\ isLoading(i)
  /\ LET counted == [rebuildReferenceCountsFromPage(r, r.completions[i].page) EXCEPT !.outstanding = @ - 1,
                                                                                   !.completions[i] = idleCompletion]
     IN  r' = IF isCountingDone(counted) THEN finishCounting(counted) ELSE fetchLeaf(counted, i)

LeafLoadError(i) ==
  /\ r.phase = "counting" /\ isLoading(i) /\ r.faults > 0
  /\ r' = finishCountingIfDone([r EXCEPT !.outstanding = @ - 1, !.aborted = TRUE, !.faults = @ - 1,
                                         !.completions[i] = idleCompletion])

Next ==
  \/ ApplyJournalEntries \/ FlushBlockMap
  \/ \E i \in DOMAIN r.completions : PageLoaded(i) \/ PageLoadError(i) \/ LeafLoaded(i) \/ LeafLoadError(i)

Spec == Init /\ [][Next]_r

-----------------------------------------------------------------------------

(* The entries of the journal in their order, as the block map should have *)
(* them, and the reference counts of that.                                 *)
played ==
  FoldLeft(LAMBDA p, e : [p EXCEPT ![e.page][e.slot] = e.pbn], r.setting.pages, r.setting.journal)

referencesTo(pages, pbn) ==
  Cardinality({e \in (DOMAIN pages) \X (1 .. EntriesInPage) : pages[e[1]] # <<>> /\ pages[e[1]][e[2]] = pbn})

logicalEntries == {e \in (DOMAIN r.pages) \X (1 .. EntriesInPage) : (e[1] - 1) * EntriesInPage + e[2] <= r.entryCount}

(* A rebuild which ends has counted every mapping of the block map and no  *)
(* other, whatever the order in which pages were loaded; no count exceeds  *)
(* MAXIMUM_REFERENCE_COUNT and nothing beyond the logical space is mapped. *)
CountsAreRebuilt ==
  r.phase = "done" =>
    /\ \A p \in DOMAIN r.counts : r.counts[p] = referencesTo(r.pages, p) /\ r.counts[p] <= MaximumReferences
    /\ \A p \in DOMAIN r.pages, s \in 1 .. EntriesInPage :
          r.pages[p] # <<>> /\ r.pages[p][s] # Unmapped => <<p, s>> \in logicalEntries

(* Each slot has the mapping of its last journal entry when the block map  *)
(* is drained: the heap sorts the entries and the ring of page completions *)
(* applies them to their pages in that order.                              *)
EntriesAreApplied == r.phase = "flushing" => r.pages = played

(* A rebuild removes a mapping only when it is to no data block or is one  *)
(* too many for its block ("Remove any bogus entries which exist beyond    *)
(* the end of the logical space", rebuildReferenceCountsFromPage()).  The  *)
(* exception is a last page which is full: rebuildFromLeaves() takes its   *)
(* first slot for the end of the logical space.                            *)
LogicalSpaceIsKept ==
  r.phase = "done" =>
    \A e \in {e \in logicalEntries : e[1] = Len(r.pages) => lastSlot(r) # 0} :
       LET before == IF played[e[1]] = <<>> THEN Unmapped ELSE played[e[1]][e[2]]
       IN  before \in DOMAIN r.counts /\ r.pages[e[1]][e[2]] = Unmapped => r.counts[before] = MaximumReferences

(* A rebuild which has not ended waits for a page.                         *)
RebuildGoesOn ==
  r.phase \in {"done", "aborted", "loading", "flushing"} \/ \E i \in DOMAIN r.completions : isLoading(i)
=============================================================================
