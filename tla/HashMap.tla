-------------------------------- MODULE HashMap --------------------------------
(***************************************************************************)
(* The hash maps of base/intMap.c and base/pointerMap.c, which find locks  *)
(* by block number, pages by their place and hash locks by the name of     *)
(* their data: hopscotch hashing with sorted lists of hops.                *)
(*                                                                         *)
(* A key is a pointer <<name, owner>> into its owner, compared by name; an *)
(* IntMap is the case in which the owner does not matter.  A value which   *)
(* is absent is 0.                                                         *)
(***************************************************************************)
EXTENDS Integers, Sequences, FiniteSets, FiniteSetsExt

CONSTANTS
  Neighborhood,   \* NEIGHBORHOOD
  MaxProbes,      \* MAX_PROBES
  Capacities,     \* with which a map may be made
  Names,
  Hash,           \* from names to 0 .. HashRange - 1
  HashRange,      \* 2^32
  Owners          \* the values, which hold their keys

(* The capacities are more than 3: resizeBuckets() does not enlarge a map  *)
(* of 3 buckets, and the smallest map of the program has 21.               *)
VARIABLE h

noKey == <<0, 0>>
nullBucket == [firstHop |-> 0, nextHop |-> 0, key |-> noKey, value |-> 0]

allocateBuckets(capacity) ==
  [size |-> 0, capacity |-> capacity, buckets |-> [i \in 0 .. capacity + Neighborhood - 2 |-> nullBucket]]

makeIntMap(capacity) == allocateBuckets(capacity)

selectBucket(map, name) == (Hash[name] * map.capacity) \div HashRange

-----------------------------------------------------------------------------
(* Hop lists                                                               *)

(* NULL_HOP_OFFSET is 0; other offsets are biased by one.                  *)
dereferenceHop(neighborhood, hop) == IF hop = 0 THEN -1 ELSE neighborhood + hop - 1

(* The buckets of a neighborhood's list, in its order.                     *)
RECURSIVE hopsFrom(_, _, _)
hopsFrom(buckets, neighborhood, hop) ==
  IF hop = 0 THEN <<>>
  ELSE LET b == dereferenceHop(neighborhood, hop) IN <<b>> \o hopsFrom(buckets, neighborhood, buckets[b].nextHop)

hopList(buckets, neighborhood) == hopsFrom(buckets, neighborhood, buckets[neighborhood].firstHop)

(* Keep the list sorted.                                                   *)
insertInHopList(buckets, neighborhood, new) ==
  LET hops == hopList(buckets, neighborhood)
      before == {i \in DOMAIN hops : hops[i] < new}
      previous == hops[Max(before)]
      next == IF before = {} THEN buckets[neighborhood].firstHop ELSE buckets[previous].nextHop
      linked == [buckets EXCEPT ![new].nextHop = next]
  IN  IF before = {} THEN [linked EXCEPT ![neighborhood].firstHop = 1 + new - neighborhood]
      ELSE [linked EXCEPT ![previous].nextHop = 1 + new - neighborhood]

(* The places in the list of the entries of a name.                        *)
searchHopList(map, neighborhood, name) ==
  LET hops == hopList(map.buckets, neighborhood)
  IN  {i \in DOMAIN hops : map.buckets[hops[i]].key[1] = name /\ map.buckets[hops[i]].value # 0}

pointerMapGet(map, name) ==
  LET start == selectBucket(map, name)
      found == searchHopList(map, start, name)
  IN  IF found = {} THEN 0 ELSE map.buckets[hopList(map.buckets, start)[Min(found)]].value

-----------------------------------------------------------------------------
(* Adding                                                                  *)

findEmptyBucket(map, start) ==
  LET holes == {b \in start .. start + MaxProbes - 1 : b \in DOMAIN map.buckets /\ map.buckets[b].value = 0}
  IN  IF holes = {} THEN -1 ELSE Min(holes)

(* The first entry of the farthest list which has one nearer than the hole *)
(* moves to the hole.                                                      *)
moveEmptyBucket(map, hole) ==
  LET first(b) == dereferenceHop(b, map.buckets[b].firstHop)
      movable == {b \in hole + 1 - Neighborhood .. hole - 1 : first(b) # -1 /\ first(b) <= hole}
      b == Min(movable)
      from == map.buckets[first(b)]
      moved == [map.buckets EXCEPT ![b].firstHop = from.nextHop]
      filled == [[moved EXCEPT ![first(b)].nextHop = 0, ![first(b)].value = 0] EXCEPT
                   ![hole].key = from.key, ![hole].value = from.value]
  IN  IF movable = {} THEN [map |-> map, hole |-> -1]
      ELSE [map |-> [map EXCEPT !.buckets = insertInHopList(filled, b, hole)], hole |-> first(b)]

RECURSIVE bringNear(_, _, _)
bringNear(map, hole, neighborhood) ==
  IF hole = -1 \/ hole - neighborhood < Neighborhood THEN [map |-> map, hole |-> hole]
  ELSE LET r == moveEmptyBucket(map, hole) IN bringNear(r.map, r.hole, neighborhood)

findOrMakeVacancy(map, neighborhood) == bringNear(map, findEmptyBucket(map, neighborhood), neighborhood)

(* The pointer to the key is replaced too.                                 *)
updateMapping(map, bucket, key, value, update) ==
  IF update THEN [map EXCEPT !.buckets[bucket].key = key, !.buckets[bucket].value = value] ELSE map

newEntry(map, neighborhood, bucket, key, value) ==
  LET filled == [map.buckets EXCEPT ![bucket].key = key, ![bucket].value = value]
  IN  [map EXCEPT !.buckets = insertInHopList(filled, neighborhood, bucket), !.size = @ + 1]

RECURSIVE pointerMapPut(_, _, _, _, _)
RECURSIVE resizeBuckets(_, _)
RECURSIVE putAgain(_, _, _)

(* The entries of the old buckets, in their order, from the i-th on.       *)
putAgain(new, old, i) ==
  IF i \notin DOMAIN old.buckets THEN [map |-> new, result |-> "success", old |-> 0]
  ELSE IF old.buckets[i].value = 0 THEN putAgain(new, old, i + 1)
  ELSE LET r == pointerMapPut(new, old.buckets[i].key, old.buckets[i].value, TRUE, FALSE)
       IN  IF r.result # "success" THEN r ELSE putAgain(r.map, old, i + 1)

(* A larger map, or the same when there is no memory for one.              *)
resizeBuckets(map, noMemory) ==
  LET r == putAgain(allocateBuckets((map.capacity \div 2) * 3), map, 0)
  IN  IF noMemory THEN [map |-> map, result |-> "ENOMEM", old |-> 0]
      ELSE IF r.result # "success" THEN [r EXCEPT !.map = map] ELSE r

pointerMapPut(map, key, value, update, noMemory) ==
  LET start == selectBucket(map, key[1])
      found == searchHopList(map, start, key[1])
      bucket == hopList(map.buckets, start)[Min(found)]
      vacancy == findOrMakeVacancy(map, start)
      larger == resizeBuckets(vacancy.map, noMemory)
  IN  IF found # {}
      THEN [map |-> updateMapping(map, bucket, key, value, update), result |-> "success", old |-> map.buckets[bucket].value]
      ELSE IF vacancy.hole # -1
      THEN [map |-> newEntry(vacancy.map, start, vacancy.hole, key, value), result |-> "success", old |-> 0]
      ELSE IF larger.result # "success" THEN larger
      ELSE pointerMapPut(larger.map, key, value, update, noMemory)

-----------------------------------------------------------------------------
(* Removing                                                                *)

intMapRemove(map, name) ==
  LET start == selectBucket(map, name)
      found == searchHopList(map, start, name)
      hops == hopList(map.buckets, start)
      victim == hops[Min(found)]
      next == map.buckets[victim].nextHop
      emptied == [map.buckets EXCEPT ![victim].value = 0, ![victim].key = noKey]
      spliced == IF Min(found) = 1 THEN [emptied EXCEPT ![start].firstHop = next]
                 ELSE [emptied EXCEPT ![hops[Min(found) - 1]].nextHop = next]
  IN  IF found = {} THEN [map |-> map, old |-> 0]
      ELSE [map |-> [map EXCEPT !.size = @ - 1, !.buckets = [spliced EXCEPT ![victim].nextHop = 0]],
            old |-> map.buckets[victim].value]

-----------------------------------------------------------------------------
(* The users of a map                                                      *)

(* contents is what the map should hold; returned is what the operation    *)
(* before returned and what it should have returned.                       *)
Init ==
  \E capacity \in Capacities :
    h = [map |-> makeIntMap(capacity), contents |-> [n \in Names |-> 0], returned |-> <<0, 0>>]

Put ==
  \E name \in Names, owner \in Owners, update, noMemory \in BOOLEAN :
    \E r \in {pointerMapPut(h.map, <<name, owner>>, owner, update, noMemory)} :
         h' = [map |-> r.map,
               contents |-> IF r.result = "success" /\ (update \/ h.contents[name] = 0)
                            THEN [h.contents EXCEPT ![name] = owner] ELSE h.contents,
               returned |-> <<r.old, IF r.result = "success" THEN h.contents[name] ELSE 0>>]

Remove ==
  \E name \in Names :
    \E r \in {intMapRemove(h.map, name)} :
         h' = [map |-> r.map, contents |-> [h.contents EXCEPT ![name] = 0],
               returned |-> <<r.old, h.contents[name]>>]

Next == Put \/ Remove

-----------------------------------------------------------------------------
(* Properties                                                              *)

(* Whatever was put, moved, removed or refused before, and with whichever  *)
(* hashes, the map holds exactly what its users put there: each key is     *)
(* found with its latest value, no other is, the size is right, and an     *)
(* operation returns the value there was (intMap.c, pointerMap.c).         *)
MapHoldsWhatWasPut ==
  /\ \A name \in Names : pointerMapGet(h.map, name) = h.contents[name]
  /\ h.map.size = Cardinality({name \in Names : h.contents[name] # 0})
  /\ h.returned[1] = h.returned[2]

(* Each hop list is sorted and has just the entries which hash to its      *)
(* bucket, all of them in the neighborhood; and the key of an entry is the *)
(* one in its value, so that it lives as long as that does.                *)
HopListsAreSound ==
  \A b \in 0 .. h.map.capacity - 1 :
    LET hops == hopList(h.map.buckets, b)
        mine == {i \in DOMAIN h.map.buckets : h.map.buckets[i].value # 0 /\ selectBucket(h.map, h.map.buckets[i].key[1]) = b}
    IN  /\ \A i \in DOMAIN hops : hops[i] < b + Neighborhood /\ (i > 1 => hops[i - 1] < hops[i])
        /\ {hops[i] : i \in DOMAIN hops} = mine
        /\ \A i \in mine : h.map.buckets[i].key[2] = h.map.buckets[i].value

=============================================================================
