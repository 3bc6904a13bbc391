----------------------------- MODULE DirtyLists -----------------------------
(***************************************************************************)
(* Lists of dirty pages by the period in which they became dirty           *)
(* (vdo/base/dirtyLists.c).  A period is a recovery journal block.  The    *)
(* lists are a ring of MaximumAge queues of pages; the oldest one expires  *)
(* when a period begins which needs its place.  Expired pages stay in      *)
(* expired until the owner's callback takes them.                          *)
(***************************************************************************)
EXTENDS Integers, Sequences, SequencesExt, Functions

CONSTANT MaximumAge

without(list, page) == SelectSeq(list, LAMBDA p : p # page)

(* makeDirtyLists() and setCurrentPeriod()                                 *)
makeDirtyLists(period) ==
  [lists |-> [k \in 0 .. MaximumAge - 1 |-> <<>>], expired |-> <<>>,
   oldestPeriod |-> period, nextPeriod |-> period + 1, offset |-> period % MaximumAge]

onDirtyList(d, page) == page \in Range(d.expired) \/ \E k \in DOMAIN d.lists : page \in Range(d.lists[k])

takeOff(d, page) ==
  [d EXCEPT !.lists = [k \in DOMAIN @ |-> without(@[k], page)], !.expired = without(@, page)]

expireOldestList(d) ==
  [d EXCEPT !.oldestPeriod = @ + 1, !.expired = @ \o d.lists[d.offset], !.lists[d.offset] = <<>>,
            !.offset = (@ + 1) % MaximumAge]

openNextPeriod(d) ==
  [(IF d.nextPeriod - d.oldestPeriod = MaximumAge THEN expireOldestList(d) ELSE d)
     EXCEPT !.nextPeriod = @ + 1]

times(n) == [k \in 1 .. n |-> k]

(* updatePeriod(), which is advancePeriod() up to the callback.            *)
updatePeriod(d, period) == FoldLeft(LAMBDA e, k : openNextPeriod(e), d, times(period + 1 - d.nextPeriod))

(* addToDirtyLists() up to the callback: a page moves to an earlier list   *)
(* only.                                                                   *)
addToDirtyLists(d, page, oldPeriod, newPeriod) ==
  LET off == takeOff(d, page)
  IN  IF oldPeriod = newPeriod \/ (oldPeriod # 0 /\ oldPeriod < newPeriod) THEN d
      ELSE IF newPeriod < d.oldestPeriod THEN [off EXCEPT !.expired = Append(@, page)]
      ELSE [updatePeriod(off, newPeriod) EXCEPT !.lists[newPeriod % MaximumAge] = Append(@, page)]

flushDirtyLists(d) == FoldLeft(LAMBDA e, k : expireOldestList(e), d, times(d.nextPeriod - d.oldestPeriod))
=============================================================================
