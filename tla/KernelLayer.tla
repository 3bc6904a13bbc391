------------------------------ MODULE KernelLayer ------------------------------
(***************************************************************************)
(* The life of VDO devices in the kernel (kernel/dmvdo.c, kernelLayer.c,   *)
(* kernelVDO.c): tables which the device mapper loads, swaps and destroys, *)
(* the kernel layer which several tables of one device share, its parts    *)
(* and their release when any step of making it fails, and the instance    *)
(* numbers, the device registry, the pool names in sysfs and procfs, and   *)
(* the sizes, which all the devices share or which outlive a table.        *)
(*                                                                         *)
(* Configurations and layers are numbers, their places in the sequences of *)
(* all there ever were; 0 is none.  A disk holds the sizes in its super    *)
(* block and the size of the storage itself.                               *)
(***************************************************************************)
EXTENDS Integers, Sequences, FiniteSets, SequencesExt, FiniteSetsExt

CONSTANTS
  Settings,            \* of [devices, disks, sizes, pools, loads, faults, messages, suspends]
  BitCountMinimum,     \* BIT_COUNT_MINIMUM
  BitCountIncrement    \* BIT_COUNT_INCREMENT

VARIABLE kl

assert(k, condition, what) == IF condition THEN k ELSE [k EXCEPT !.asserts = @ \cup {what}]
fault(kinds) == {"none"} \cup (IF kl.left.faults = 0 THEN {} ELSE kinds)
spend(k, kind) == IF kind = "none" THEN k ELSE [k EXCEPT !.left.faults = @ - 1]

-----------------------------------------------------------------------------
(* Instance numbers                                                        *)

growBitArray(n) == [n EXCEPT !.bitCount = Max({n.bitCount + BitCountIncrement, BitCountMinimum})]

allocateKVDOInstanceLocked(n) ==
  LET g == IF n.count >= n.bitCount THEN growBitArray(n) ELSE n
      zeros == (0 .. g.bitCount - 1) \ g.words
      after == {i \in zeros : i >= g.next}
      instance == IF after # {} THEN Min(after) ELSE Min(zeros)
  IN  [g EXCEPT !.words = @ \cup {instance}, !.count = @ + 1, !.next = instance + 1]

(* The one just allocated.                                                 *)
latestInstance(n) == n.next - 1

releaseKVDOInstance(k, instance) ==
  IF instance \in k.instances.words
  THEN [k EXCEPT !.instances.words = @ \ {instance}, !.instances.count = @ - 1]
  ELSE assert(k, FALSE, "an instance number must be allocated")

-----------------------------------------------------------------------------
(* The registry and procfs                                                 *)

deviceConfig(k, l) == k.configs[k.layers[l].config]

findLayerNamed(k, device) ==
  LET s == SelectSeq(k.registry, LAMBDA l : deviceConfig(k, l).device = device) IN IF s = <<>> THEN 0 ELSE Head(s)

findLayerUsing(k, disk) ==
  LET s == SelectSeq(k.registry, LAMBDA l : deviceConfig(k, l).disk = disk) IN IF s = <<>> THEN 0 ELSE Head(s)

addLayerToDeviceRegistry(k, l) ==
  [assert(k, l \notin ToSet(k.registry), "a layer is not already registered") EXCEPT !.registry = Append(@, l)]

removeLayerFromDeviceRegistry(k, l) == [k EXCEPT !.registry = SelectSeq(@, LAMBDA m : m # l)]

(* By name, whosever it is.                                                *)
vdoDestroyProcfsEntry(k, l, pool) ==
  [k EXCEPT !.procfs = {e \in @ : e.pool # pool},
            !.evicted = @ \/ \E e \in k.procfs : e.pool = pool /\ e.layer # l]

(* Fails when there is no memory or the name is in use; the error path     *)
(* removes what has the name.                                              *)
mayCreateProcfsEntry(k, pool, kind) == kind # "procfs" /\ ~\E e \in k.procfs : e.pool = pool

vdoCreateProcfsEntry(k, l, pool, kind) ==
  IF mayCreateProcfsEntry(k, pool, kind) THEN [k EXCEPT !.procfs = @ \cup {[pool |-> pool, layer |-> l]}]
  ELSE vdoDestroyProcfsEntry(k, l, pool)

-----------------------------------------------------------------------------
(* Suspending and stopping a layer                                         *)

setKVDOReadOnly(k, l) == [k EXCEPT !.layers[l].readOnly = TRUE]

suspendKVDO(k, l) ==
  [assert(k, k.layers[l].vdo = "running", "only a running VDO is suspended") EXCEPT !.layers[l].vdo = "suspended"]

suspendKernelLayer(k, l, kind) ==
  CASE k.layers[l].state = "running" ->
         LET flushed == IF kind = "flush" THEN setKVDOReadOnly(k, l) ELSE k
         IN  [suspendKVDO(flushed, l) EXCEPT !.layers[l].state = "suspended", !.layers[l].indexSuspended = TRUE]
    [] OTHER -> k

stopKernelLayer(k, l) ==
  LET p == vdoDestroyProcfsEntry([k EXCEPT !.layers[l].parts = @ \ {"statistics"}], l, deviceConfig(k, l).pool)
  IN  [suspendKernelLayer(p, l, "none") EXCEPT !.layers[l].state = "stopped"]

-----------------------------------------------------------------------------
(* Making and freeing a layer                                              *)

noLayer ==
  [state |-> "freed", parts |-> {}, instance |-> -1, config |-> 0, ring |-> <<>>, kobj |-> 0, logical |-> 0, physical |-> 0,
   newLogical |-> 0, newPhysical |-> 0, vdo |-> "made", readOnly |-> FALSE, indexSuspended |-> FALSE, unapplied |-> FALSE]

(* What makeKernelLayer() makes, in this order, and the state it then      *)
(* notes.  A geometry is only read.                                        *)
stages ==
  <<"vdo", "kobj", "wqDirectory", "registered", "threadConfig", "releaser", "spareFlush", "bioset", "geometry",
    "dedupeIndex", "compression", "tracePool", "kvioPool", "kvdo", "ioSubmitter", "ackQueue", "cpuQueue">>

states == <<"simple", "bufferPools", "requestQueue", "bioData", "bioAckQueue", "cpuQueue">>

stateAfter(stage) ==
  CASE stage \in {"vdo", "kobj"} -> "allocated"
    [] stage = "kvdo" -> "requestQueue"
    [] stage = "ioSubmitter" -> "bioData"
    [] stage = "ackQueue" -> "bioAckQueue"
    [] stage = "cpuQueue" -> "cpuQueue"
    [] stage \in {"compression", "tracePool", "kvioPool"} -> "bufferPools"
    [] OTHER -> "simple"

(* The parts released without a look at whether they were made.            *)
partsOfState(state) ==
  LET from(s) == \/ state = "stopped"
                 \/ \E i, j \in DOMAIN states : states[i] = s /\ states[j] = state /\ i <= j
  IN  {"wqDirectory", "kobj", "vdo"} \cup (IF from("requestQueue") THEN {"kvdo"} ELSE {})
        \cup (IF from("bioData") THEN {"ioSubmitter"} ELSE {}) \cup (IF from("bioAckQueue") THEN {"ackQueue"} ELSE {})
        \cup (IF from("cpuQueue") THEN {"cpuQueue"} ELSE {})

partsIfMade == {"compression", "dedupeIndex", "spareFlush", "releaser", "registered", "bioset", "tracePool", "kvioPool"}

freeKernelLayer(k, l) ==
  LET stopped == CASE k.layers[l].state = "running" -> stopKernelLayer(suspendKernelLayer(k, l, "none"), l)
                   [] k.layers[l].state \in {"starting", "resuming", "suspended"} -> stopKernelLayer(k, l)
                   [] OTHER -> k
      y == stopped.layers[l]
      freed == partsOfState(y.state) \cup (y.parts \cap partsIfMade)
      checked == assert(assert(stopped, partsOfState(y.state) \subseteq y.parts, "only a part which was made is freed"),
                        y.parts \subseteq freed, "every part which was made is freed")
      released == IF y.state \in {"stopped", "cpuQueue"} THEN releaseKVDOInstance(checked, y.instance) ELSE checked
  IN  [removeLayerFromDeviceRegistry(released, l) EXCEPT !.layers[l] = [noLayer EXCEPT !.unapplied = y.unapplied]]

madeThrough(k, l, n) ==
  [k EXCEPT !.layers[l].parts = {stages[i] : i \in 1 .. n} \ {"geometry", "threadConfig"},
            !.layers[l].state = stateAfter(stages[n])]

(* Up to the registration of the layer; kind is the stage which fails.     *)
startMakingLayer(k, d, kind) ==
  LET c == k.dm[d].config
      l == Len(k.layers) + 1
      y == [noLayer EXCEPT !.state = "allocated", !.instance = k.dm[d].instance, !.config = c, !.kobj = k.configs[c].pool]
      new == [k EXCEPT !.layers = Append(@, y)]
      taken == \E m \in DOMAIN k.layers : k.layers[m].state # "freed" /\ k.layers[m].kobj = y.kobj
  IN  CASE kind \in {"vdo", "kobj", "wqDirectory"} \/ taken -> [new EXCEPT !.layers[l] = noLayer]
        [] kind = "registered" -> freeKernelLayer(madeThrough(new, l, 3), l)
        [] OTHER -> [addLayerToDeviceRegistry(madeThrough(new, l, 4), l) EXCEPT !.dm[d].layer = l]

(* The rest; the thread configuration belongs to the caller.               *)
finishMakingLayer(k, d, kind) ==
  LET l == k.dm[d].layer
      n == CHOOSE i \in DOMAIN stages : stages[i] = kind
      owned == [k EXCEPT !.dm[d].threadConfig = TRUE]
  IN  CASE kind = "threadConfig" -> freeKernelLayer(k, l)
        [] kind \in ToSet(stages) -> freeKernelLayer(madeThrough(owned, l, n - 1), l)
        [] OTHER -> madeThrough(owned, l, Len(stages))

parseDeviceConfig(d, disk, logical, physical, pool) ==
  [device |-> d, disk |-> disk, logical |-> logical, physical |-> physical, pool |-> pool, layer |-> 0, freed |-> FALSE]

freedConfig == [parseDeviceConfig(0, 0, 0, 0, 0) EXCEPT !.freed = TRUE]
freeDeviceConfig(k, c) == [k EXCEPT !.configs[c] = freedConfig]

idleAgain(k, d) ==
  [assert(k, ~k.dm[d].threadConfig, "a thread configuration has an owner") EXCEPT
     !.dm[d].pc = "idle", !.dm[d].config = 0, !.dm[d].layer = 0, !.dm[d].instance = -1]

(* A mutant: the instance number is released also when the layer did.      *)
cleanupInitializeTwice(k, d, l) ==
  LET cleaned == [k EXCEPT !.dm[d].threadConfig = FALSE]
      released == releaseKVDOInstance(IF l # 0 THEN freeKernelLayer(cleaned, l) ELSE cleaned, k.dm[d].instance)
  IN  idleAgain(freeDeviceConfig(released, k.dm[d].config), d)

(* The layer, if it was made, releases its instance number itself.         *)
cleanupInitialize(k, d, l) ==
  LET cleaned == [k EXCEPT !.dm[d].threadConfig = FALSE]
      released == IF l # 0 THEN freeKernelLayer(cleaned, l) ELSE releaseKVDOInstance(cleaned, k.dm[d].instance)
  IN  idleAgain(freeDeviceConfig(released, k.dm[d].config), d)

(* The VDO owns the thread configuration once it is given it.              *)
preloadKVDO(k, d, l) ==
  LET disk == k.disks[deviceConfig(k, l).disk]
  IN  [k EXCEPT !.dm[d].threadConfig = FALSE, !.layers[l].vdo = "preloaded",
                !.layers[l].logical = disk.logical, !.layers[l].physical = disk.physical]

preloadKernelLayer(k, d, l, kind) ==
  LET given == [preloadKVDO(k, d, l) EXCEPT !.layers[l].state = "starting"]
  IN  IF kind = "preload" THEN stopKernelLayer(given, l) ELSE given

-----------------------------------------------------------------------------
(* Tables                                                                  *)

setDeviceConfigLayer(k, c, l) ==
  LET old == k.configs[c].layer
      unspliced == IF old = 0 THEN k ELSE [k EXCEPT !.layers[old].ring = SelectSeq(@, LAMBDA e : e # c)]
      pushed == IF l = 0 THEN unspliced ELSE [unspliced EXCEPT !.layers[l].ring = Append(@, c)]
  IN  [pushed EXCEPT !.configs[c].layer = l]

(* A table's sizes or name which the layer takes over without applying     *)
(* them are unapplied.                                                     *)
setKernelLayerActiveConfig(k, l, c) ==
  LET y == k.layers[l]
      differs == \/ k.configs[c].logical # y.logical \/ k.configs[c].physical # y.physical \/ k.configs[c].pool # y.kobj
  IN  [k EXCEPT !.layers[l].config = c, !.layers[l].unapplied = @ \/ differs]

vdoDtr(k, c) ==
  LET l == k.configs[c].layer
      removed == setDeviceConfigLayer(k, c, 0)
      ring == removed.layers[l].ring
      left == IF ring = <<>> THEN freeKernelLayer(removed, l)
              ELSE IF k.layers[l].config = c THEN setKernelLayerActiveConfig(removed, l, Head(ring))
              ELSE removed
  IN  freeDeviceConfig(left, c)

(* The device mapper replaces an inactive table and destroys the old one.  *)
loaded(k, d, c) ==
  LET old == k.dm[d].inactive
      new == [k EXCEPT !.dm[d].inactive = c]
  IN  IF old = 0 THEN new ELSE vdoDtr(new, old)

prepareToResizeLogical(k, l, size) ==
  IF size <= k.layers[l].logical THEN k ELSE [k EXCEPT !.layers[l].newLogical = size]

prepareToResizePhysical(k, l, size) ==
  CASE size = k.layers[l].physical -> [k EXCEPT !.layers[l].newPhysical = 0]
    [] size > k.layers[l].physical /\ ~k.layers[l].readOnly -> [k EXCEPT !.layers[l].newPhysical = size]
    [] OTHER -> k

(* Whether a table may replace the one in use, and the preparation.        *)
mayModify(k, l, c) ==
  LET old == deviceConfig(k, l)
      new == k.configs[c]
  IN  /\ new.disk = old.disk
      /\ new.logical # old.logical => new.logical > k.layers[l].logical
      /\ new.physical # old.physical => new.physical > k.layers[l].physical /\ ~k.layers[l].readOnly

prepareToModifyKernelLayer(k, l, c) ==
  LET old == deviceConfig(k, l)
      new == k.configs[c]
      logical == IF new.logical = old.logical THEN k ELSE prepareToResizeLogical(k, l, new.logical)
      physical == IF new.physical = old.physical THEN logical ELSE prepareToResizePhysical(logical, l, new.physical)
  IN  IF new.disk # old.disk \/ (new.logical # old.logical /\ new.logical <= k.layers[l].logical) THEN k ELSE physical

-----------------------------------------------------------------------------
(* Starting and resuming                                                   *)

(* startKVDO(), the statistics, the index and procfs, any of which may     *)
(* fail but for the index.                                                 *)
mayStart(k, l, kind) == kind \notin {"load", "statistics"} /\ mayCreateProcfsEntry(k, deviceConfig(k, l).pool, kind)

startKVDO(k, l) == [k EXCEPT !.layers[l].vdo = "running"]

startKernelLayer(k, l, kind) ==
  LET running == [startKVDO(k, l) EXCEPT !.layers[l].state = "running"]
      counted == [running EXCEPT !.layers[l].parts = @ \cup {"statistics"}]
      listed == vdoCreateProcfsEntry(counted, l, deviceConfig(k, l).pool, kind)
  IN  CASE kind = "load" -> stopKernelLayer(k, l)
        [] kind = "statistics" -> stopKernelLayer(running, l)
        [] OTHER -> IF mayStart(k, l, kind) THEN listed ELSE stopKernelLayer(listed, l)

(* A VDO which is read-only never finishes to grow.                        *)
resizeLogical(k, l, size) ==
  CASE k.layers[l].newLogical # size -> [result |-> "mismatch", k |-> k]
    [] k.layers[l].readOnly -> [result |-> "hangs", k |-> k]
    [] OTHER -> [result |-> "success",
                 k |-> [k EXCEPT !.layers[l].logical = size, !.layers[l].newLogical = 0,
                                 !.disks[deviceConfig(k, l).disk].logical = size]]

resizePhysical(k, l, size) ==
  CASE k.layers[l].physical = size -> [result |-> "success", k |-> k]
    [] k.layers[l].newPhysical # size -> [result |-> "mismatch", k |-> [k EXCEPT !.layers[l].newPhysical = 0]]
    [] k.layers[l].readOnly -> [result |-> "hangs", k |-> k]
    [] OTHER -> [result |-> "success",
                 k |-> [k EXCEPT !.layers[l].physical = size, !.layers[l].newPhysical = 0,
                                 !.disks[deviceConfig(k, l).disk].physical = size]]

(* The new entry first, then the name, then the old entry.                 *)
modifyPoolName(k, l, old, new, kind) ==
  LET created == vdoCreateProcfsEntry(k, l, new, kind)
      taken == \E m \in DOMAIN k.layers \ {l} : k.layers[m].state # "freed" /\ k.layers[m].kobj = new
      renamed == vdoDestroyProcfsEntry([created EXCEPT !.layers[l].kobj = new], l, old)
  IN  CASE ~mayCreateProcfsEntry(k, new, kind) -> [result |-> "error", k |-> created]
        [] kind = "rename" \/ taken -> [result |-> "error", k |-> vdoDestroyProcfsEntry(created, l, new)]
        [] OTHER -> [result |-> "success", k |-> renamed]

modifyKernelLayer(k, l, c, kind) ==
  LET old == deviceConfig(k, l)
      new == k.configs[c]
      begun == [k EXCEPT !.layers[l].state = "resuming"]
      done(x) == [result |-> "success", k |-> x]
      logical == IF new.logical = old.logical THEN done(begun) ELSE resizeLogical(begun, l, new.logical)
      physical(r) == IF r.result # "success" \/ new.physical = old.physical THEN r ELSE resizePhysical(r.k, l, new.physical)
      pool(r) == IF r.result # "success" \/ new.pool = old.pool THEN r ELSE modifyPoolName(r.k, l, old.pool, new.pool, kind)
  IN  CASE k.layers[l].state = "running" -> done(k)
        [] k.layers[l].state # "suspended" -> [result |-> "error", k |-> k]
        [] OTHER -> pool(physical(logical))

resumeKVDO(k, l) ==
  [assert(k, k.layers[l].vdo = "suspended", "only a suspended VDO is resumed") EXCEPT !.layers[l].vdo = "running"]

resumeKernelLayer(k, l, kind) ==
  CASE k.layers[l].state = "running" -> k
    [] kind = "resume" -> [k EXCEPT !.layers[l].indexSuspended = FALSE]
    [] OTHER -> [resumeKVDO(k, l) EXCEPT !.layers[l].indexSuspended = FALSE, !.layers[l].state = "running"]

resumed(k, d, l) == [k EXCEPT !.dm[d].suspended = k.layers[l].state # "running", !.dm[d].pc = "swapped"]

(* After the layer started.                                                *)
commitAndResume(k, d, l, c, kind) ==
  \E r \in {modifyKernelLayer(k, l, c, kind)} :
    kl' = CASE r.result = "hangs" -> [r.k EXCEPT !.dm[d].pc = "stuck"]
            [] r.result = "success" ->
                 resumed(resumeKernelLayer(setKernelLayerActiveConfig(r.k, l, c), l, kind), d, l)
            [] OTHER -> [setKVDOReadOnly(setKernelLayerActiveConfig(r.k, l, c), l) EXCEPT !.dm[d].pc = "swapped"]

-----------------------------------------------------------------------------
(* Actions                                                                 *)

Devices == DOMAIN kl.dm
idle(d) == kl.dm[d].pc = "idle"

(* The first table of a device, with the sizes the disk has.               *)
CreateTable(d) ==
  /\ idle(d) /\ kl.left.loads > 0 /\ findLayerNamed(kl, d) = 0
  /\ \E disk \in DOMAIN kl.disks, pool \in kl.left.pools, kind \in fault({"instance", "parse"}) :
       LET numbers == allocateKVDOInstanceLocked(kl.instances)
           c == parseDeviceConfig(d, disk, kl.disks[disk].logical, kl.disks[disk].physical, pool)
           counted == [spend(kl, kind) EXCEPT !.left.loads = @ - 1, !.instances = numbers]
           made == [counted EXCEPT !.configs = Append(@, c), !.dm[d].config = Len(kl.configs) + 1,
                                   !.dm[d].instance = latestInstance(numbers), !.dm[d].pc = "make"]
       IN  kl' = CASE kind = "instance" -> [spend(kl, kind) EXCEPT !.left.loads = @ - 1]
                   [] kind = "parse" -> releaseKVDOInstance(counted, latestInstance(numbers))
                   [] findLayerUsing(kl, disk) # 0 -> cleanupInitialize(made, d, 0)
                   [] OTHER -> made

(* makeKernelLayer(), in two parts: between the look into the registry and *)
(* the entry there another device may be made.                             *)
MakeLayer(d) ==
  /\ kl.dm[d].pc = "make"
  /\ \E kind \in fault({"vdo", "kobj", "wqDirectory", "registered"}) :
     \E k \in {startMakingLayer(spend(kl, kind), d, kind)} :
       LET disk == kl.configs[kl.dm[d].config].disk
       IN  kl' = IF k.dm[d].layer = 0 THEN cleanupInitialize(k, d, 0)
                 ELSE [k EXCEPT !.dm[d].pc = "rest", !.raced = @ \/ findLayerUsing(kl, disk) # 0]

vdoInitialize(d) ==
  /\ kl.dm[d].pc = "rest"
  /\ \E kind \in fault((ToSet(stages) \ {"vdo", "kobj", "wqDirectory", "registered"}) \cup {"cache", "preload"}) :
     \E k \in {finishMakingLayer(spend(kl, kind), d, kind)} :
       LET l == k.dm[d].layer
           c == k.dm[d].config
           preloaded == preloadKernelLayer(k, d, l, kind)
           used == setKernelLayerActiveConfig(setDeviceConfigLayer(preloaded, c, l), l, c)
       IN  kl' = CASE kind \in ToSet(stages) -> cleanupInitialize(k, d, 0)
                   [] kind = "cache" -> cleanupInitialize(k, d, l)
                   [] kind = "preload" -> cleanupInitialize(preloaded, d, l)
                   [] OTHER -> idleAgain(loaded(used, d, c), d)

(* Another table of a device.                                              *)
ReloadTable(d) ==
  /\ idle(d) /\ kl.left.loads > 0 /\ findLayerNamed(kl, d) # 0
  /\ \E disk \in DOMAIN kl.disks, logical, physical \in kl.left.sizes, pool \in kl.left.pools, kind \in fault({"parse"}) :
       LET l == findLayerNamed(kl, d)
           n == Len(kl.configs) + 1
           c == parseDeviceConfig(d, disk, logical, physical, pool)
           counted == [spend(kl, kind) EXCEPT !.left.loads = @ - 1]
           made == [counted EXCEPT !.configs = Append(@, c)]
           prepared == prepareToModifyKernelLayer(made, l, n)
       IN  kl' = CASE kind = "parse" -> counted
                   [] ~mayModify(made, l, n) -> freeDeviceConfig(prepared, n)
                   [] OTHER -> loaded(setDeviceConfigLayer(prepared, n, l), d, n)

ClearTable(d) ==
  /\ idle(d) /\ kl.dm[d].inactive # 0
  /\ kl' = [vdoDtr(kl, kl.dm[d].inactive) EXCEPT !.dm[d].inactive = 0]

(* vdoPresuspend() and vdoPostsuspend().                                   *)
suspendTable(k, d, kind) ==
  IF k.dm[d].live = 0 \/ k.dm[d].suspended THEN k
  ELSE [suspendKernelLayer(k, k.configs[k.dm[d].live].layer, kind) EXCEPT !.dm[d].suspended = TRUE]

Suspend(d) ==
  /\ idle(d) /\ kl.dm[d].live # 0 /\ ~kl.dm[d].suspended /\ kl.left.suspends > 0
  /\ \E kind \in fault({"flush"}) : kl' = [suspendTable(spend(kl, kind), d, kind) EXCEPT !.left.suspends = @ - 1]

(* With a new table in place of the old if there is one.                   *)
Resume(d) ==
  /\ idle(d) /\ (kl.dm[d].inactive # 0 \/ (kl.dm[d].live # 0 /\ kl.dm[d].suspended))
  /\ LET k == suspendTable(kl, d, "none")
         swapped == [k EXCEPT !.dm[d].old = kl.dm[d].live, !.dm[d].live = kl.dm[d].inactive, !.dm[d].inactive = 0,
                              !.dm[d].suspended = TRUE]
     IN  kl' = [(IF kl.dm[d].inactive = 0 THEN k ELSE swapped) EXCEPT !.dm[d].pc = "preresume"]

vdoPreresume(d) ==
  /\ kl.dm[d].pc = "preresume"
  /\ LET c == kl.dm[d].live
         l == kl.configs[c].layer
     IN  IF kl.disks[kl.configs[c].disk].size < kl.configs[c].physical
         THEN kl' = [kl EXCEPT !.dm[d].pc = "swapped"]
         ELSE IF kl.layers[l].state = "starting"
         THEN \E kind \in fault({"load", "statistics", "procfs"}) :
              \E k \in {startKernelLayer(spend(kl, kind), l, kind)} :
                IF mayStart(kl, l, kind) THEN commitAndResume(k, d, l, c, "none")
                ELSE kl' = [setKVDOReadOnly(k, l) EXCEPT !.dm[d].pc = "swapped"]
         ELSE \E kind \in fault({"procfs", "rename", "resume"}) : commitAndResume(spend(kl, kind), d, l, c, kind)

(* The old table is destroyed after the new one was resumed or failed to.  *)
DestroyOldTable(d) ==
  /\ kl.dm[d].pc = "swapped"
  /\ LET old == kl.dm[d].old
     IN  kl' = [(IF old = 0 THEN kl ELSE vdoDtr(kl, old)) EXCEPT !.dm[d].old = 0, !.dm[d].pc = "idle"]

RemoveDevice(d) ==
  /\ idle(d) /\ kl.dm[d].live # 0
  /\ LET cleared == IF kl.dm[d].inactive = 0 THEN kl ELSE vdoDtr(kl, kl.dm[d].inactive)
     IN  kl' = [vdoDtr(suspendTable(cleared, d, "none"), kl.dm[d].live) EXCEPT
                  !.dm[d].live = 0, !.dm[d].inactive = 0, !.dm[d].suspended = FALSE]

(* vdoMessage(), with a VDO that is not stopped.                           *)
Message(d) ==
  /\ kl.dm[d].pc = "idle" /\ kl.dm[d].live # 0 /\ kl.left.messages > 0
  /\ LET l == kl.configs[kl.dm[d].live].layer
         sent == [kl EXCEPT !.left.messages = @ - 1]
     IN  \/ \E size \in kl.left.sizes : kl' = prepareToResizeLogical(sent, l, size)
         \/ kl' = prepareToResizePhysical(sent, l, kl.disks[deviceConfig(kl, l).disk].size)

(* The VDO enters read-only mode by itself.                                *)
EnterReadOnlyMode(l) ==
  /\ kl.layers[l].vdo = "running" /\ kl.layers[l].state = "running" /\ kl.left.faults > 0
  /\ kl' = spend(setKVDOReadOnly(kl, l), "error")

GrowStorage(disk) ==
  /\ kl.disks[disk].size < Max(kl.left.sizes)
  /\ kl' = [kl EXCEPT !.disks[disk].size = @ + 1]

noDevice == [pc |-> "idle", live |-> 0, inactive |-> 0, old |-> 0, suspended |-> FALSE, config |-> 0, layer |-> 0,
             instance |-> -1, threadConfig |-> FALSE]

Init ==
  \E s \in Settings :
    kl = [configs |-> <<>>, layers |-> <<>>, registry |-> <<>>, procfs |-> {},
          instances |-> [words |-> {}, count |-> 0, bitCount |-> 0, next |-> 0],
          disks |-> [i \in 1 .. s.disks |-> [logical |-> Min(s.sizes), physical |-> Min(s.sizes), size |-> Min(s.sizes)]],
          dm |-> [d \in 1 .. s.devices |-> noDevice], left |-> s, raced |-> FALSE, evicted |-> FALSE, asserts |-> {}]

Next ==
  \/ \E d \in Devices :
       \/ CreateTable(d) \/ MakeLayer(d) \/ vdoInitialize(d) \/ ReloadTable(d) \/ ClearTable(d)
       \/ Suspend(d) \/ Resume(d) \/ vdoPreresume(d) \/ DestroyOldTable(d) \/ RemoveDevice(d) \/ Message(d)
  \/ \E l \in DOMAIN kl.layers : EnterReadOnlyMode(l)
  \/ \E disk \in DOMAIN kl.disks : GrowStorage(disk)

-----------------------------------------------------------------------------
(* Properties                                                              *)

liveLayers == {l \in DOMAIN kl.layers : kl.layers[l].state # "freed"}
tablesOf(d) == {kl.dm[d].live, kl.dm[d].inactive, kl.dm[d].old, kl.dm[d].config} \ {0}

(* Whichever step of making, starting, resuming or removing devices fails, *)
(* every part made is freed once, a layer lives just as long as a table or *)
(* its constructor needs it, the layer's own configuration is one which    *)
(* still exists, and each instance number in use has one owner             *)
(* (makeKernelLayer(), freeKernelLayer(), vdoDtr(), instanceNumber.c).     *)
PartsAreFreedOnce ==
  /\ kl.asserts = {}
  /\ \A l \in liveLayers : ~deviceConfig(kl, l).freed /\ \E d \in Devices :
       \/ kl.dm[d].layer = l
       \/ {c \in tablesOf(d) : kl.configs[c].layer = l} = ToSet(kl.layers[l].ring) /\ kl.layers[l].ring # <<>>
  /\ \A c \in DOMAIN kl.configs : ~kl.configs[c].freed <=> \E d \in Devices : c \in tablesOf(d)
  /\ LET making == {d \in Devices : kl.dm[d].pc = "make"}
     IN  /\ kl.instances.words = {kl.layers[l].instance : l \in liveLayers} \cup {kl.dm[d].instance : d \in making}
         /\ kl.instances.count = Cardinality(liveLayers) + Cardinality(making)
  /\ ToSet(kl.registry) = liveLayers

(* The device mapper sends bios to a device only while its layer runs with *)
(* its VDO and index resumed, as kvdoMapBio() asserts; the sizes and the   *)
(* name it runs with are those of its table unless that was adopted        *)
(* without being applied or the VDO is read-only; and two VDOs share a disk *)
(* only when both were being made at once.                                 *)
RunningLayersAgree ==
  /\ \A d \in Devices : kl.dm[d].live # 0 /\ ~kl.dm[d].suspended =>
       LET y == kl.layers[kl.configs[kl.dm[d].live].layer]
           c == kl.configs[y.config]
       IN  /\ y.state = "running" /\ y.vdo = "running" /\ ~y.indexSuspended
           /\ y.unapplied \/ y.readOnly \/ (y.logical = c.logical /\ y.physical = c.physical /\ y.kobj = c.pool)
           /\ y.config = kl.dm[d].live
  /\ \A l, m \in liveLayers : l # m => deviceConfig(kl, l).disk # deviceConfig(kl, m).disk \/ kl.raced

(* An entry of procfs does not outlive its layer, and a running layer has  *)
(* one, unless a name was adopted without being applied or was taken from  *)
(* another device.                                                         *)
EntriesAreRemoved ==
  /\ \A e \in kl.procfs : kl.layers[e.layer].state # "freed" \/ kl.layers[e.layer].unapplied
  /\ \A l \in liveLayers :
       kl.layers[l].state = "running" => [pool |-> deviceConfig(kl, l).pool, layer |-> l] \in kl.procfs
                                         \/ kl.evicted \/ kl.layers[l].unapplied
=============================================================================
