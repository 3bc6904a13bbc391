------------------------------- MODULE Storage -------------------------------
(***************************************************************************)
(* The storage below the VDO, with a volatile write cache.  Each location  *)
(* keeps the versions which may be found there after a crash,              *)
(* oldest first: the last one known to be stable and all those written     *)
(* since.  done is the newest version whose write has completed.  A flush  *)
(* makes every completed write stable; storage without a volatile cache,   *)
(* for which the synchronous write policy is made, needs none.             *)
(***************************************************************************)
EXTENDS Integers, Sequences, FiniteSets, FiniteSetsExt, TLC

blank(locations, initial(_)) == [l \in locations |-> [versions |-> <<initial(l)>>, done |-> 1]]

issueWrite(disk, l, version) == [disk EXCEPT ![l].versions = Append(@, version)]

flushed(location) ==
  [versions |-> SubSeq(location.versions, location.done, Len(location.versions)), done |-> 1]

completeWriteTo(disk, l, cached) ==
  LET completed == [disk[l] EXCEPT !.done = Len(disk[l].versions)]
  IN  [disk EXCEPT ![l] = IF cached THEN completed ELSE flushed(completed)]

flushDisk(disk) == [l \in DOMAIN disk |-> flushed(disk[l])]

(* What a read returns: the newest version.                                *)
contents(disk, l) == disk[l].versions[Len(disk[l].versions)]

surviving(location) == {location.versions[i] : i \in 1 .. Len(location.versions)}

(* Every combination of surviving versions.  torn(l, S) are the versions   *)
(* which a location may hold when its write was interrupted.               *)
crashed(disk, torn(_, _)) ==
  FoldSet(LAMBDA l, partial : {f @@ (l :> [versions |-> <<v>>, done |-> 1]) :
                                 f \in partial, v \in torn(l, surviving(disk[l]))},
          {<<>>}, DOMAIN disk)
=============================================================================
