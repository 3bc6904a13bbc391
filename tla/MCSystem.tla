------------------------------ MODULE MCSystem ------------------------------
(***************************************************************************)
(* The administration of a VDO, the index and the kernel side, checked     *)
(* side by side: a behaviour is one of the part it chooses at its start,   *)
(* whose state is state.                                                   *)
(***************************************************************************)
EXTENDS Integers, Sequences

CONSTANTS SlabSize, MaxSlabs, MaxZones, JournalSize, InitialBlocks, Storage, LogicalSizes, Stride, AdminBudgets
CONSTANTS Offset, VolumeBlocks, MasterIndexBlocks, PageMapBlocks, OpenChapterBlocks, IndexSettings
CONSTANTS Neighborhood, MaxProbes, Capacities, Names, Hash, HashRange, Owners
CONSTANTS ManagerZones, MaxCommands, MaxRequests, MaxFaults
CONSTANTS Chapters, IndexPages, Lists, Packed, CacheEntries, QueueSize, ReaderCount
CONSTANTS SessionBudgets
CONSTANTS LayerSettings, BitCountMinimum, BitCountIncrement
CONSTANTS RequestSettings
CONSTANTS ItemPriority, ThreadCount, MaxEnqueues, MaxTime, Heartbeats

VARIABLES part, state

vars == <<part, state>>

admin == INSTANCE Admin WITH s <- state, Budgets <- AdminBudgets
index == INSTANCE Index WITH s <- state, Settings <- IndexSettings
hashMap == INSTANCE HashMap WITH h <- state
manager == INSTANCE ActionManager WITH am <- state, Zones <- ManagerZones
searches == INSTANCE Volume WITH vl <- state, ZoneCount <- 2, RequestList <- <<0, 1>>, LastChapter <- 3, MaxErrors <- 0
failures == INSTANCE Volume WITH vl <- state, ZoneCount <- 1, RequestList <- <<1>>, LastChapter <- 7, MaxErrors <- 1
session == INSTANCE UDSIndex WITH ui <- state, Budgets <- SessionBudgets
layer == INSTANCE KernelLayer WITH kl <- state, Settings <- LayerSettings
requests == INSTANCE Requests WITH rq <- state, Settings <- RequestSettings
queue == INSTANCE WorkQueue WITH wq <- state

(* What the theorems about Requests assume.                                *)
ASSUME RequestSettingsAreProper == requests!SettingsAreProper

(* What the theorems about WorkQueue assume.                               *)
ASSUME WorkQueueIsProper == queue!isProper

(* What the theorems about ActionManager assume.                           *)
ASSUME ManagerHasZones == manager!hasZones

Init ==
  \/ part = "admin" /\ admin!Init
  \/ part = "index" /\ index!Init
  \/ part = "hashMap" /\ hashMap!Init
  \/ part = "manager" /\ manager!Init
  \/ part = "searches" /\ searches!Init
  \/ part = "failures" /\ failures!Init
  \/ part = "session" /\ session!Init
  \/ part = "layer" /\ layer!Init
  \/ part = "requests" /\ requests!Init
  \/ part = "queue" /\ queue!Init

Next ==
  \/ part = "admin" /\ admin!Next /\ UNCHANGED part
  \/ part = "index" /\ index!Next /\ UNCHANGED part
  \/ part = "hashMap" /\ hashMap!Next /\ UNCHANGED part
  \/ part = "manager" /\ manager!Next /\ UNCHANGED part
  \/ part = "searches" /\ searches!Next /\ UNCHANGED part
  \/ part = "failures" /\ failures!Next /\ UNCHANGED part
  \/ part = "session" /\ session!Next /\ UNCHANGED part
  \/ part = "layer" /\ layer!Next /\ UNCHANGED part
  \/ part = "requests" /\ requests!Next /\ UNCHANGED part
  \/ part = "queue" /\ queue!Next /\ UNCHANGED part

Spec == Init /\ [][Next]_vars

-----------------------------------------------------------------------------
(* A crash at any time leaves a super block from which the VDO is loaded,  *)
(* recovered or rebuilt to what it had (Admin); and an index with a save   *)
(* from which it is loaded, unless one of the ways stated there lost it    *)
(* (Index).                                                                *)
CrashesAreRecovered ==
  /\ part = "admin" => admin!ACrashIsRecoverable
  /\ part = "index" => index!SavesAreLoadable

(* What was stored is found: a record in the index, whatever was closed,   *)
(* saved or replayed meanwhile (Index); a key in a hash map (HashMap); a   *)
(* record page or index page in the volume's cache, of the chapter which   *)
(* is searched (Volume).                                                   *)
ContentsAreFound ==
  /\ part = "index" => index!RecordsAreFound
  /\ part = "hashMap" => hashMap!MapHoldsWhatWasPut
  /\ part = "searches" => searches!SearchesSeeTheirChapter
  /\ part = "failures" => failures!SearchesSeeTheirChapter

(* The sizes, layouts and zones of a VDO's parts agree (Admin); chapters   *)
(* are numbered alike by the index and on its volume (Index); the lists of *)
(* a hash map and the page cache are sound (HashMap, Volume); the zones of *)
(* an action manager are in one state (ActionManager); and the state of    *)
(* the deduplication agrees with that of its session (UDSIndex).           *)
PartsAgree ==
  /\ part = "admin" => admin!PartsAgree
  /\ part = "index" => index!ChaptersAreNumbered
  /\ part = "hashMap" => hashMap!HopListsAreSound
  /\ part = "searches" => searches!CacheIsSound
  /\ part = "failures" => failures!CacheIsSound
  /\ part = "manager" => manager!ZonesAgree
  /\ part = "session" => session!StatesAgree

(* Nobody waits for what does not come, except in the cases which the      *)
(* modules state: administrative operations end, commands are answered,    *)
(* requests of the index, bios, waits for idleness and items of work       *)
(* queues go on.                                                           *)
NobodyWaitsForever ==
  /\ part = "admin" => admin!OperationsFinish
  /\ part = "index" => index!NobodyWaitsForever
  /\ part = "manager" => manager!CommandsAreAnswered /\ manager!RequestsAreServed
  /\ part = "searches" => searches!NobodyWaitsForever
  /\ part = "failures" => failures!NobodyWaitsForever
  /\ part = "session" => session!NobodyWaitsForever
  /\ part = "requests" => requests!NobodyWaitsForever
  /\ part = "queue" => queue!NobodyWaitsForever

(* A VDO which is read-only on storage stays so (Admin).                   *)
ReadOnlyIsKept == [][part = "admin" => admin!KeepsReadOnly]_vars

(* Each part of a kernel layer is freed once and after its last use, a     *)
(* running layer has the configuration of its table and what it registered *)
(* under names is removed with it (KernelLayer); permits are neither lost  *)
(* nor released twice, every bio is acknowledged once and compression is   *)
(* restored (Requests).                                                    *)
KernelBooksBalance ==
  /\ part = "layer" => layer!PartsAreFreedOnce /\ layer!RunningLayersAgree /\ layer!EntriesAreRemoved
  /\ part = "requests" => requests!PermitsAreKept /\ requests!CompressionIsRestored

(* No assertion in the code of these parts fails.                          *)
NoAssertionFails ==
  /\ part = "admin" => admin!NoAssertionFails
  /\ part = "index" => index!NoAssertionFails
  /\ part = "manager" => manager!NoAssertionFails
  /\ part = "searches" => searches!NoAssertionFails
  /\ part = "failures" => failures!NoAssertionFails
  /\ part = "session" => session!NoAssertionFails
  /\ part = "requests" => requests!NoAssertionFails
  /\ part = "queue" => queue!NoAssertionFails

-----------------------------------------------------------------------------
(* What is checked                                                         *)

adminBudget(writes, crashes, faults, commands, sizes) ==
  [writes |-> writes, crashes |-> crashes, faults |-> faults, commands |-> commands, sizes |-> sizes]

MCLogicalSizes == <<4, 6>>
MCAdminBudgets ==
  {adminBudget(1, 1, 1, 3, {30}), adminBudget(1, 1, 0, 4, {25, 26, 30}), adminBudget(0, 1, 2, 2, {}),
   adminBudget(1, 2, 0, 3, {}), adminBudget(0, 1, 1, 4, {30})}

indexSetting(chapters, frequency, records, zones, names, actions, last, saves, crashes, faults) ==
  [chapters |-> chapters, frequency |-> frequency, records |-> records, zones |-> zones, names |-> names,
   actions |-> actions, last |-> last, saves |-> saves, crashes |-> crashes, faults |-> faults]

MCIndexSettings ==
  {indexSetting(4, 2, 2, {1}, 0 .. 1, {"index"}, 5, 1, 2, 0),
   indexSetting(3, 2, 2, {1}, 0 .. 1, {"index"}, 4, 1, 1, 1),
   indexSetting(3, 2, 4, {1, 2}, 0 .. 2, {"index"}, 3, 1, 1, 0),
   indexSetting(3, 2, 4, {2}, 0 .. 2, {"index"}, 3, 0, 1, 1),
   indexSetting(3, 1, 4, {2}, 0 .. 2, {"index"}, 3, 0, 1, 0),
   indexSetting(4, 3, 2, {1}, 0 .. 1, {"index"}, 5, 0, 1, 0),
   indexSetting(3, 0, 2, {1}, 0 .. 1, {"index", "query", "delete"}, 2, 1, 1, 0)}

MCHash == <<0, 1, 2, 3, 5>>
MCPacked == <<<<0>>, <<1>>>>

sessionBudget(kvios, operations, messages, suspends, faults) ==
  [kvios |-> kvios, operations |-> operations, messages |-> messages, suspends |-> suspends, faults |-> faults]

MCSessionBudgets == {sessionBudget(1, 2, 1, 1, 1), sessionBudget(2, 2, 0, 1, 0), sessionBudget(1, 1, 1, 2, 1)}

layerSetting(devices, disks, sizes, pools, loads, faults, messages, suspends) ==
  [devices |-> devices, disks |-> disks, sizes |-> sizes, pools |-> pools, loads |-> loads, faults |-> faults,
   messages |-> messages, suspends |-> suspends]

MCLayerSettings == {layerSetting(1, 1, 1 .. 2, {1, 2}, 3, 1, 1, 2), layerSetting(2, 2, {1}, {1, 2}, 3, 1, 0, 1)}

requestSetting(requestLimit, bios, waiters, limits, faults, messages) ==
  [requestLimit |-> requestLimit, bios |-> bios, waiters |-> waiters, limits |-> limits, faults |-> faults, messages |-> messages]

bio(kind, blocks) == [kind |-> kind, blocks |-> blocks, onVDOThread |-> FALSE]
ofVDO(b) == [b EXCEPT !.onVDOThread = TRUE]
write == bio("write", 0)
discard == bio("discard", 2)

MCRequestSettings ==
  {requestSetting(2, <<write, bio("read", 0), discard, discard>>, 0, {2}, 1, 0),
   requestSetting(2, <<write, discard, ofVDO(write), ofVDO(bio("discard", 1))>>, 0, {}, 0, 0),
   requestSetting(2, <<write, write, write>>, 1, {}, 0, 0),
   requestSetting(2, <<write, write>>, 2, {}, 0, 1),
   requestSetting(2, <<write, write>>, 1, {}, 0, 2),
   requestSetting(1, <<write, discard>>, 1, {1}, 0, 0)}

MCItemPriority == <<1, 1, 2>>
=============================================================================
