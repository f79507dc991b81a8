----------------------------- MODULE AppsProofs -----------------------------
(***************************************************************************)
(* The applications for every size of their rings, buffers and integers.   *)
(* A behaviour follows one of them, so that each has an invariant of its   *)
(* own that the steps of the others leave alone.                           *)
(***************************************************************************)
EXTENDS Apps, FiniteSetTheorems, SequenceTheorems, WellFoundedInduction, TLAPS

(* The network scan.  The probes up to the one the task is at were made    *)
(* since the scan was started, and every probe made since then was made of *)
(* the present target.                                                     *)
Made(k) == {Probes[j] : j \in 1 .. k}

ScanTypeOK ==
    /\ scan \in [step : {"configured", "pending", "result", "complete", "idle"},
                 probe : 0 .. Len(Probes)]
    /\ scan.step \in {"pending", "result"} => scan.probe # 0
    /\ target \in Targets
    /\ open \in [ProbeSet -> BOOLEAN]
    /\ probed \in [ProbeSet -> Targets]
    /\ fresh \subseteq ProbeSet

ScanProgress ==
    /\ scan.step = "pending" => Made(scan.probe - 1) \subseteq fresh
    /\ scan.step = "result" => Made(scan.probe) \subseteq fresh
    /\ scan.step = "complete" => fresh = ProbeSet

ScanInv ==
    /\ ScanTypeOK
    /\ ScanProgress
    /\ \A p \in fresh : probed[p] = target
    /\ \A p \in ProbeSet : open[p] => probed[p] = target

LEMMA ProbesAre ==
    /\ Len(Probes) = 4
    /\ \A k \in 1 .. 4 : Probes[k] \in ProbeSet
    /\ Made(0) = {} /\ Made(4) = ProbeSet
    /\ \A k \in 1 .. 4 : Made(k) = Made(k - 1) \cup {Probes[k]}
<1>1. Len(Probes) = 4
  BY DEF Probes
<1>2. Made(0) = {} /\ \A k \in 1 .. 4 : Made(k) = Made(k - 1) \cup {Probes[k]}
  BY DEF Made
<1> QED
  BY <1>1, <1>2 DEF ProbeSet, Made

LEMMA ScanInitInv == ScanInit => ScanInv
  BY ProbesAre DEF ScanInit, ScanInv, ScanTypeOK, ScanProgress, At, Targets

LEMMA ScanStep == ScanInv /\ [ScanNext]_scanVars => ScanInv'
<1> SUFFICES ASSUME ScanInv, [ScanNext]_scanVars PROVE ScanInv'
  OBVIOUS
<1> USE ProbesAre DEF ScanInv, ScanTypeOK, ScanProgress, At
<1>1. ASSUME NEW t \in Targets, SetTarget(t) PROVE ScanInv'
  BY <1>1 DEF SetTarget, Results
<1>2. CASE StartScan
  BY <1>2 DEF StartScan
<1>3. CASE StopScan
  BY <1>3 DEF StopScan
<1>4. CASE BeginScan
  BY <1>4 DEF BeginScan
<1>5. CASE Probe
  <2> DEFINE p == Probes[scan.probe]
  <2>1. /\ scan.probe \in 1 .. 4 /\ p \in ProbeSet
        /\ Made(scan.probe) = Made(scan.probe - 1) \cup {p}
        /\ Made(scan.probe - 1) \subseteq fresh
    BY <1>5 DEF Probe
  <2>2. /\ scan' = [step |-> "result", probe |-> scan.probe]
        /\ target' = target /\ fresh' = fresh \cup {p}
        /\ probed' = [probed EXCEPT ![p] = target]
    BY <1>5 DEF Probe
  <2>3. PICK answer \in BOOLEAN : open' = [open EXCEPT ![p] = answer]
    BY <1>5 DEF Probe, Answers
  <2> HIDE DEF p
  <2>4. ScanTypeOK'
    BY <2>1, <2>2, <2>3
  <2>5. Made(scan'.probe) \subseteq fresh'
    BY <2>1, <2>2
  <2>6. \A q \in ProbeSet : probed'[q] = IF q = p THEN target ELSE probed[q]
    BY <2>2
  <2>7. \A q \in ProbeSet : q # p => open'[q] = open[q]
    BY <2>3
  <2> QED
    BY <2>2, <2>4, <2>5, <2>6, <2>7
<1>6. CASE Proceed
  BY <1>6 DEF Proceed
<1>7. CASE UNCHANGED scanVars
  BY <1>7 DEF scanVars
<1> QED
  BY <1>1, <1>2, <1>3, <1>4, <1>5, <1>6, <1>7 DEF ScanNext

(* A step of the applications is one of the scan or leaves it alone.       *)
LEMMA ScanSteps == [Next]_appVars => [ScanNext]_scanVars
  BY DEF Next, appVars

(* Restarts and changes of target in any order never mix two scans in a    *)
(* report (network_diagnostics_task).                                      *)
THEOREM ReportFreshHolds == Spec => []ReportFresh
<1>1. ScanInv => ReportFresh
  BY DEF ScanInv, ScanProgress, ReportFresh
<1>2. Init => ScanInit
  BY DEF Init
<1> QED
  BY <1>1, <1>2, ScanInitInv, ScanStep, ScanSteps, PTL DEF Spec
-----------------------------------------------------------------------------
(* The Wi-Fi monitor.  As long as no frame arrived inside a pop, the head  *)
(* is the tail and the waiting frames, modulo the size of the ring.        *)
Taken == IF slice = "pop" THEN analyzed + 1 ELSE analyzed

Slot(k) == (tail + k) % RingSize

WifiTypeOK ==
    /\ ring \in [0 .. (RingSize - 1) -> Nat]
    /\ head \in 0 .. (RingSize - 1) /\ tail \in 0 .. (RingSize - 1)
    /\ count \in 0 .. RingSize
    /\ {captured, analyzed, dropped} \subseteq Nat
    /\ slice \in {"out", "loop", "pop"}
    /\ slice = "pop" => loaded \in 1 .. count
    /\ hit \in BOOLEAN

Accounted == Taken + Waiting <= captured

Ordered ==
    ~hit =>
        /\ slice = "pop" => loaded = count
        /\ Taken + Waiting = captured
        /\ head = Slot(Waiting)
        /\ \A k \in 0 .. (Waiting - 1) : ring[Slot(k)] = Taken + 1 + k

WifiInv == WifiTypeOK /\ Accounted /\ Ordered

LEMMA WifiInts ==
    ASSUME WifiInv
    PROVE  /\ RingSize \in Nat \ {0} /\ RingSize > 0
           /\ tail \in Nat /\ tail < RingSize
           /\ head \in Nat /\ head < RingSize
           /\ count \in Nat /\ count <= RingSize
           /\ captured \in Nat /\ analyzed \in Nat /\ Taken \in Nat
           /\ Waiting \in Int /\ Waiting <= count
           /\ slice = "pop" => Waiting = count - 1 /\ count > 0 /\ Taken = analyzed + 1
           /\ slice # "pop" => Waiting = count /\ Taken = analyzed
<1>1. /\ RingSize \in Nat \ {0} /\ RingSize > 0
      /\ tail \in Nat /\ tail < RingSize
      /\ head \in Nat /\ head < RingSize
      /\ count \in Nat /\ count <= RingSize
      /\ captured \in Nat /\ analyzed \in Nat
      /\ slice = "pop" => count > 0
  BY WifiAssumption DEF WifiInv, WifiTypeOK
<1> QED
  BY <1>1 DEF Taken, Waiting

(* The remainder, for the sums that occur.                                 *)
Wrapped(n) == IF n < RingSize THEN n ELSE n - RingSize

LEMMA Remainder ==
    ASSUME RingSize \in Nat \ {0}, NEW n \in 0 .. (2 * RingSize - 1)
    PROVE  n % RingSize = Wrapped(n) /\ Wrapped(n) \in 0 .. (RingSize - 1)
<1>1. CASE n < RingSize
  BY <1>1 DEF Wrapped
<1>2. CASE n >= RingSize
  BY <1>2 DEF Wrapped
<1> QED
  BY <1>1, <1>2

LEMMA SlotIs ==
    ASSUME WifiInv, NEW k \in 0 .. RingSize
    PROVE  Slot(k) = Wrapped(tail + k) /\ Slot(k) \in 0 .. (RingSize - 1)
<1>1. RingSize \in Nat \ {0} /\ tail + k \in 0 .. (2 * RingSize - 1)
  BY WifiInts
<1> QED
  BY <1>1, Remainder DEF Slot

LEMMA NextSlotIs ==
    ASSUME RingSize \in Nat \ {0}, NEW i \in 0 .. (RingSize - 1)
    PROVE  NextSlot(i) = Wrapped(i + 1) /\ NextSlot(i) \in 0 .. (RingSize - 1)
<1>1. i + 1 \in 0 .. (2 * RingSize - 1)
  OBVIOUS
<1> QED
  BY <1>1, Remainder DEF NextSlot

LEMMA WifiInitInv == WifiInit => WifiInv
<1> SUFFICES ASSUME WifiInit PROVE WifiInv
  OBVIOUS
<1>1. WifiTypeOK
  <2>1. RingSize \in Nat \ {0} /\ 0 \in 0 .. (RingSize - 1) /\ 0 \in 0 .. RingSize
    BY WifiAssumption
  <2>2. ring \in [0 .. (RingSize - 1) -> Nat]
    BY DEF WifiInit
  <2> QED
    BY <2>1, <2>2 DEF WifiInit, WifiTypeOK
<1>2. Waiting = 0 /\ Taken = 0
  BY DEF WifiInit, Taken, Waiting
<1>3. Slot(0) = 0
  BY WifiAssumption, Remainder DEF Slot, WifiInit, Wrapped
<1> QED
  BY <1>1, <1>2, <1>3 DEF WifiInv, Ordered, Accounted, WifiInit

(* A frame queued outside a pop goes behind those that wait.               *)
LEMMA FrameQueuedInOrder ==
    ASSUME WifiInv, FrameQueued, UNCHANGED <<tail, analyzed, slice, loaded>>
    PROVE  WifiInv'
<1> USE WifiInts
<1>1. /\ count < RingSize
      /\ ring' = [ring EXCEPT ![head] = captured + 1]
      /\ head' = NextSlot(head) /\ count' = count + 1 /\ captured' = captured + 1
      /\ hit' = (hit \/ slice = "pop") /\ dropped' = dropped
  BY DEF FrameQueued, RingFull
<1>2. WifiTypeOK'
  <2>1. head \in 0 .. (RingSize - 1) /\ head' \in 0 .. (RingSize - 1)
    BY <1>1, NextSlotIs DEF WifiInv, WifiTypeOK
  <2>2. ring' \in [0 .. (RingSize - 1) -> Nat]
    BY <1>1, <2>1 DEF WifiInv, WifiTypeOK
  <2>3. /\ count' \in 0 .. RingSize /\ captured' \in Nat
        /\ slice = "pop" => loaded \in 1 .. count'
    BY <1>1 DEF WifiInv, WifiTypeOK
  <2>4. hit' \in BOOLEAN
    BY <1>1 DEF WifiInv, WifiTypeOK
  <2>5. UNCHANGED <<tail, analyzed, dropped, slice, loaded>>
    BY <1>1
  <2> QED
    BY <2>1, <2>2, <2>3, <2>4, <2>5 DEF WifiInv, WifiTypeOK
<1>3. Taken' = Taken /\ Waiting' = Waiting + 1
  BY <1>1 DEF Taken, Waiting
<1>4. Accounted'
  BY <1>1, <1>3 DEF WifiInv, Accounted
<1>5. ASSUME ~hit' PROVE Ordered'
  <2>1. ~hit /\ slice # "pop" /\ slice' # "pop"
    BY <1>1, <1>5 DEF WifiInv, WifiTypeOK
  <2>2. Waiting = count /\ head = Slot(count) /\ Taken + count = captured
        /\ \A k \in 0 .. (count - 1) : ring[Slot(k)] = Taken + 1 + k
    BY <2>1 DEF WifiInv, Ordered
  <2>3. \A k : Slot(k)' = Slot(k)
    BY DEF Slot
  <2>4. head' = Slot(count + 1)
    <3>1. Slot(count) = Wrapped(tail + count) /\ Slot(count + 1) = Wrapped(tail + count + 1)
      BY <1>1, SlotIs
    <3>2. NextSlot(head) = Wrapped(head + 1)
      BY NextSlotIs
    <3> QED
      BY <1>1, <2>2, <3>1, <3>2 DEF Wrapped
  <2>5. ASSUME NEW k \in 0 .. count PROVE ring'[Slot(k)] = Taken + 1 + k
    <3>1. Slot(k) = Wrapped(tail + k) /\ Slot(k) \in 0 .. (RingSize - 1)
          /\ head = Wrapped(tail + count)
      BY <1>1, <2>2, SlotIs
    <3>2. k # count => Slot(k) # head
      BY <1>1, <3>1 DEF Wrapped
    <3>3. CASE k = count
      BY <1>1, <2>2, <3>1, <3>3 DEF WifiInv, WifiTypeOK
    <3>4. CASE k # count
      <4>1. k \in 0 .. (count - 1) /\ ring[Slot(k)] = Taken + 1 + k
        BY <2>2, <3>4
      <4> QED
        BY <1>1, <3>1, <3>2, <3>4, <4>1 DEF WifiInv, WifiTypeOK
    <3> QED
      BY <3>3, <3>4
  <2> QED
    BY <1>1, <1>3, <2>1, <2>2, <2>3, <2>4, <2>5 DEF Ordered
<1> QED
  BY <1>2, <1>4, <1>5 DEF WifiInv, Ordered

(* A pop takes the oldest of those that wait.                              *)
LEMMA PopInOrder == WifiInv /\ Pop => WifiInv'
<1> SUFFICES ASSUME WifiInv, Pop PROVE WifiInv'
  OBVIOUS
<1> USE WifiInts
<1>1. /\ slice = "loop" /\ count > 0 /\ slice' = "pop"
      /\ tail' = NextSlot(tail) /\ loaded' = count
      /\ UNCHANGED <<ring, head, count, dropped, captured, analyzed, hit>>
  BY DEF Pop
<1>2. WifiTypeOK'
  BY <1>1, NextSlotIs DEF WifiInv, WifiTypeOK
<1>3. /\ Taken' = analyzed + 1 /\ Taken = analyzed
      /\ Waiting' = count - 1 /\ Waiting = count
  BY <1>1 DEF Taken, Waiting
<1>4. Accounted'
  BY <1>1, <1>3 DEF WifiInv, Accounted
<1>5. ASSUME ~hit' PROVE Ordered'
  <2>1. Taken + count = captured /\ head = Slot(count)
        /\ \A k \in 0 .. (count - 1) : ring[Slot(k)] = Taken + 1 + k
    BY <1>1, <1>3, <1>5 DEF WifiInv, Ordered
  <2>2. ASSUME NEW k \in 0 .. (count - 1) PROVE Slot(k)' = Slot(k + 1)
    <3>1. tail' = Wrapped(tail + 1) /\ tail' \in 0 .. (RingSize - 1)
      BY <1>1, NextSlotIs
    <3>2. Slot(k)' = Wrapped(tail' + k)
      <4>1. RingSize \in Nat \ {0} /\ tail' + k \in 0 .. (2 * RingSize - 1)
        BY <3>1
      <4> QED
        BY <4>1, Remainder DEF Slot
    <3>3. Slot(k + 1) = Wrapped(tail + k + 1)
      BY SlotIs
    <3> QED
      BY <3>1, <3>2, <3>3 DEF Wrapped
  <2>3. head' = Slot(count - 1)'
    <3>1. count - 1 \in 0 .. (count - 1) /\ (count - 1) + 1 = count
      BY <1>1
    <3> QED
      BY <1>1, <2>1, <2>2, <3>1 DEF Slot
  <2>4. \A k \in 0 .. (count - 2) : ring'[Slot(k)'] = Taken' + 1 + k
    <3> TAKE k \in 0 .. (count - 2)
    <3>1. Slot(k)' = Slot(k + 1) /\ ring[Slot(k + 1)] = Taken + 1 + (k + 1)
      BY <2>1, <2>2
    <3> QED
      BY <1>1, <1>3, <3>1
  <2>5. Taken' + Waiting' = captured'
    BY <1>1, <1>3, <2>1
  <2> QED
    BY <1>1, <1>3, <2>3, <2>4, <2>5 DEF Ordered
<1> QED
  BY <1>2, <1>4, <1>5 DEF WifiInv, Ordered

LEMMA WifiStep == WifiInv /\ [WifiNext]_wifiVars => WifiInv'
<1> SUFFICES ASSUME WifiInv, [WifiNext]_wifiVars PROVE WifiInv'
  OBVIOUS
<1> USE WifiInts DEF WifiInv, Taken, Waiting, Slot
<1>1. CASE FrameDropped /\ Receive
  BY <1>1 DEF FrameDropped, Receive, WifiTypeOK, Accounted, Ordered
<1>2. CASE FrameQueued /\ Receive
  BY <1>2, FrameQueuedInOrder DEF Receive
<1>3. CASE StartMonitor \/ StopMonitor
  BY <1>3 DEF StartMonitor, StopMonitor, WifiTypeOK, Accounted, Ordered
<1>4. CASE SliceBegins
  <2>1. /\ slice = "out" /\ slice' = "loop"
        /\ UNCHANGED <<ring, head, tail, count, dropped, captured, analyzed, hit>>
    BY <1>4 DEF SliceBegins
  <2>2. Taken' = Taken /\ Waiting' = Waiting
    BY <2>1 DEF Taken, Waiting
  <2>3. WifiTypeOK' /\ Accounted'
    BY <2>1, <2>2 DEF WifiTypeOK, Accounted
  <2>4. Ordered'
    BY <2>1, <2>2 DEF Ordered, Slot
  <2> QED
    BY <2>3, <2>4
<1>5. CASE Pop
  BY <1>5, PopInOrder
<1>6. CASE Popped
  <2>1. /\ slice = "pop" /\ slice' = "loop" /\ count' = loaded - 1
        /\ analyzed' = analyzed + 1 /\ loaded \in 1 .. count
        /\ UNCHANGED <<ring, head, tail, dropped, captured, hit>>
    BY <1>6 DEF Popped, WifiTypeOK
  <2>2. Taken' = Taken /\ Waiting' = loaded - 1 /\ Waiting = count - 1
    BY <2>1
  <2>3. WifiTypeOK' /\ Accounted'
    <3>1. count' \in 0 .. RingSize /\ analyzed' \in Nat
      BY <2>1 DEF WifiTypeOK
    <3>2. WifiTypeOK'
      BY <2>1, <3>1 DEF WifiTypeOK
    <3>3. Taken \in Int /\ captured \in Nat /\ loaded \in Int /\ Taken + count - 1 <= captured
      BY <2>1, <2>2 DEF WifiTypeOK, Accounted
    <3> HIDE DEF Taken, Waiting
    <3>4. Accounted'
      BY <2>1, <2>2, <3>3 DEF WifiTypeOK, Accounted
    <3> QED
      BY <3>2, <3>4
  <2>4. ~hit => loaded = count /\ Waiting' = Waiting
    BY <2>1, <2>2 DEF Ordered
  <2> HIDE DEF Taken, Waiting
  <2> QED
    BY <2>1, <2>2, <2>3, <2>4 DEF Ordered
<1>7. CASE MakeUp
  BY <1>7 DEF MakeUp, WifiTypeOK, Accounted, Ordered
<1>8. CASE SliceEnds
  BY <1>8 DEF SliceEnds, WifiTypeOK, Accounted, Ordered
<1>9. CASE UNCHANGED wifiVars
  BY <1>9 DEF wifiVars, WifiTypeOK, Accounted, Ordered
<1> QED
  BY <1>1, <1>2, <1>3, <1>4, <1>5, <1>6, <1>7, <1>8, <1>9 DEF WifiNext, Receive

LEMMA WifiSteps == [Next]_appVars => [WifiNext]_wifiVars
  BY DEF Next, appVars

(* Whatever the interleaving of the callback and the task, no frame is     *)
(* shown that was not captured; without an arrival inside a pop none is    *)
(* lost or reordered (wifi_promiscuous_rx_cb, hal_wifi_queue_pop).         *)
THEOREM RingFaithfulHolds == Spec => []RingFaithful
<1>1. WifiInv => RingFaithful
  BY WifiInts DEF WifiInv, Accounted, Ordered, RingFaithful, Taken, Slot
<1>2. Init => WifiInit
  BY DEF Init
<1> QED
  BY <1>1, <1>2, WifiInitInv, WifiStep, WifiSteps, PTL DEF Spec
-----------------------------------------------------------------------------
(* The game.  A craft in flight is above the ground, and the fields keep   *)
(* their widths.                                                           *)
LanderInv ==
    /\ y \in Int /\ vy \in Int
    /\ fuel \in 0 .. (Unsigned - 1)
    /\ status \in {"playing", "landed", "crashed"}
    /\ status = "playing" => y < Ground

LEMMA Int16Type == ASSUME NEW n \in Int PROVE Int16(n) \in Int
  BY LanderAssumption DEF Int16

(* A frame burns at most three units: none is left over from less, and     *)
(* from three or more nothing wraps.                                       *)
LEMMA BurntBound == \A pressed : Burnt(pressed) \in 0 .. 3
<1> TAKE pressed
<1> DEFINE sides == pressed \cap {"left", "right"}
<1>1. IsFiniteSet({"left", "right"}) /\ Cardinality({"left", "right"}) = 2
  <2>1. IsFiniteSet({"left"}) /\ Cardinality({"left"}) = 1
    BY FS_Singleton
  <2>2. {"left", "right"} = {"left"} \cup {"right"} /\ "right" \notin {"left"}
    OBVIOUS
  <2> HIDE DEF sides
  <2> QED
    BY <2>1, <2>2, FS_AddElement
<1>2. IsFiniteSet(sides) /\ Cardinality(sides) <= 2
  BY <1>1, FS_Subset
<1>3. Cardinality(sides) \in Nat
  BY <1>2, FS_CardinalityType
<1> HIDE DEF sides
<1>4. Burnt(pressed) = (IF Thrusts(pressed) THEN 1 ELSE 0) + Cardinality(sides)
  BY DEF Burnt, sides
<1> QED
  BY <1>2, <1>3, <1>4

LEMMA TankBound ==
    ASSUME LanderInv, NEW pressed
    PROVE  /\ Tank(pressed) \in 0 .. (Unsigned - 1)
           /\ Tank(pressed) <= fuel \/ fuel \in {1, 2}
<1>1. Unsigned \in Nat \ {0} /\ fuel \in 0 .. (Unsigned - 1)
  BY LanderAssumption DEF LanderInv
<1>2. Burnt(pressed) \in 0 .. 3
  BY BurntBound
<1>3. CASE fuel >= 3
  <2>1. fuel - Burnt(pressed) \in 0 .. (Unsigned - 1)
    BY <1>1, <1>2, <1>3
  <2>2. (fuel - Burnt(pressed)) % Unsigned = fuel - Burnt(pressed)
    BY <1>1, <2>1
  <2> QED
    BY <1>1, <1>2, <1>3, <2>1, <2>2 DEF Tank
<1>4. CASE fuel \in {1, 2}
  <2>1. fuel - Burnt(pressed) \in Int
    BY <1>1, <1>2
  <2>2. (fuel - Burnt(pressed)) % Unsigned \in 0 .. (Unsigned - 1)
    BY <1>1, <2>1
  <2> QED
    BY <1>1, <1>4, <2>2 DEF Tank
<1>5. CASE fuel = 0
  BY <1>1, <1>5 DEF Tank
<1> QED
  BY <1>1, <1>3, <1>4, <1>5

LEMMA LanderInitInv == LanderInit => LanderInv
  BY LanderAssumption DEF LanderInit, LanderInv

LEMMA FlyStep ==
    ASSUME LanderInv, NEW pressed, NEW onPad, Fly(pressed, onPad)
    PROVE  /\ LanderInv'
           /\ fuel' <= fuel \/ fuel \in {1, 2}
           /\ status' = "playing" \/ vy' > 0 \/ y' # y + vy'
<1>1. Ground \in Int
  BY LanderAssumption
<1>2. vy' \in Int
  <2>1. vy + 1 - (IF fuel > 0 /\ Thrusts(pressed) THEN 2 ELSE 0) \in Int
    BY DEF LanderInv
  <2> QED
    BY <2>1, Int16Type DEF Fly, Speed
<1>3. y' \in Int
  <2>1. y + vy' \in Int
    BY <1>2 DEF LanderInv
  <2> QED
    BY <2>1, Int16Type DEF Fly
<1>4. fuel' \in 0 .. (Unsigned - 1) /\ (fuel' <= fuel \/ fuel \in {1, 2})
  BY TankBound DEF Fly
<1>5. Landed(pressed, onPad) \in {"landed", "crashed"}
  BY DEF Landed
<1>6. status = "playing" /\ status' = IF y' >= Ground THEN Landed(pressed, onPad) ELSE "playing"
  BY DEF Fly
<1>7. status' \in {"playing", "landed", "crashed"} /\ (status' = "playing" <=> y' < Ground)
  BY <1>1, <1>3, <1>5, <1>6
<1>8. y < Ground /\ y \in Int
  BY <1>6 DEF LanderInv
<1>9. LanderInv'
  BY <1>2, <1>3, <1>4, <1>7 DEF LanderInv
<1>10. status' = "playing" \/ vy' > 0 \/ y' # y + vy'
  <2>1. y' < Ground \/ vy' > 0 \/ y' # y + vy'
    <3>1. \A g, h, v \in Int : h < g /\ v <= 0 => h + v < g
      OBVIOUS
    <3>2. vy' <= 0 => y + vy' < Ground
      BY <1>1, <1>2, <1>8, <3>1
    <3>3. vy' <= 0 \/ vy' > 0
      BY <1>2
    <3> QED
      BY <3>2, <3>3
  <2> QED
    BY <1>7, <2>1
<1> QED
  BY <1>4, <1>9, <1>10

LEMMA LanderStep ==
    ASSUME LanderInv, [LanderNext]_landerVars
    PROVE  /\ LanderInv'
           /\ status = "playing" /\ <<y', vy', fuel'>> # <<StartY, 0, FullTank>> =>
                /\ fuel' <= fuel \/ fuel \in {1, 2}
                /\ status' = "playing" \/ vy' > 0 \/ y' # y + vy'
<1>1. ASSUME ResetLander PROVE LanderInv' /\ <<y', vy', fuel'>> = <<StartY, 0, FullTank>>
  BY <1>1, LanderAssumption DEF ResetLander, LanderInv
<1>2. ASSUME UNCHANGED <<y, vy, fuel, status>>
      PROVE  LanderInv' /\ fuel' <= fuel /\ status' = status
  BY <1>2, LanderAssumption DEF LanderInv
<1> QED
  BY <1>1, <1>2, FlyStep DEF LanderNext, PlayAgain, StartGame, StopGame, landerVars

LEMMA LanderSteps == [Next]_appVars => [LanderNext]_landerVars
  BY DEF Next, appVars

(* In flight the tank fills and the flight ends on the way up only where   *)
(* the integers wrap (retro_games_task).                                   *)
THEOREM FlightSoundHolds == Spec => FlightSound
<1>1. Init => LanderInv
  BY LanderInitInv DEF Init
<1>2. LanderInv /\ [Next]_appVars => LanderInv'
  BY LanderSteps, LanderStep
<1>3. LanderInv /\ [Next]_appVars =>
        [status = "playing" /\ <<y', vy', fuel'>> # <<StartY, 0, FullTank>> =>
           /\ fuel' <= fuel \/ fuel \in {1, 2}
           /\ status' = "playing" \/ vy' > 0 \/ y' # y + vy']_landerVars
  BY LanderSteps, LanderStep
<1> QED
  BY <1>1, <1>2, <1>3, PTL DEF Spec, FlightSound

-----------------------------------------------------------------------------
(* The macro player.  First what the library says of sequences that are    *)
(* put together: a sequence of sequences is its first one and the rest.    *)
LEMMA Least ==
    ASSUME NEW T \in SUBSET Nat, T # {}
    PROVE  \E n \in T : \A m \in T : n <= m
<1>1. PICK n \in T : \A m \in T : ~(<<m, n>> \in OpToRel(<, Nat))
  BY WFMin, NatLessThanWellFounded
<1>2. ASSUME NEW m \in T PROVE n <= m
  <2>1. ~(m < n)
    BY <1>1 DEF OpToRel
  <2> QED
    BY <2>1
<1> QED
  BY <1>2

(* How FlattenSeq goes on at the i-th of the sequences ss.                 *)
Flattened(f, ss, i) == IF i = 1 THEN ss[i] ELSE f[i - 1] \o ss[i]

FlattensTo(f, ss, n) == \A i \in 1 .. n : f[i] = Flattened(f, ss, i)

LEMMA FlattenExists ==
    ASSUME NEW ss, NEW N \in Nat
    PROVE  \E f : f = [i \in 1 .. N |-> Flattened(f, ss, i)]
<1> DEFINE Upto(f, n) == f = [i \in 1 .. N |-> f[i]] /\ FlattensTo(f, ss, n)
           Bad == {n \in 0 .. N : ~\E f : Upto(f, n)}
<1>1. \E f : Upto(f, 0)
  <2> DEFINE f == [i \in 1 .. N |-> 0]
  <2>1. f = [i \in 1 .. N |-> f[i]]
    OBVIOUS
  <2>2. FlattensTo(f, ss, 0)
    BY DEF FlattensTo
  <2> QED
    BY <2>1, <2>2
<1>2. ASSUME NEW n \in 0 .. (N - 1), NEW f, Upto(f, n)
      PROVE  \E g : Upto(g, n + 1)
  <2> DEFINE g == [i \in 1 .. N |-> IF i = n + 1 THEN Flattened(f, ss, i) ELSE f[i]]
  <2>1. \A i \in 1 .. N : g[i] = IF i = n + 1 THEN Flattened(f, ss, i) ELSE f[i]
    OBVIOUS
  <2>2. g = [i \in 1 .. N |-> g[i]]
    OBVIOUS
  <2> HIDE DEF g
  <2>3. ASSUME NEW i \in 1 .. (n + 1) PROVE g[i] = Flattened(g, ss, i)
    <3>1. i \in 1 .. N /\ (i # 1 => i - 1 \in 1 .. N /\ i - 1 # n + 1)
      OBVIOUS
    <3>2. Flattened(g, ss, i) = Flattened(f, ss, i)
      BY <2>1, <3>1 DEF Flattened
    <3>3. CASE i = n + 1
      BY <2>1, <3>1, <3>2, <3>3
    <3>4. CASE i # n + 1
      <4>1. i \in 1 .. n
        BY <3>4
      <4>2. f[i] = Flattened(f, ss, i)
        BY <1>2, <4>1 DEF FlattensTo
      <4> QED
        BY <2>1, <3>1, <3>2, <3>4, <4>2
    <3> QED
      BY <3>3, <3>4
  <2>4. Upto(g, n + 1)
    BY <2>2, <2>3 DEF FlattensTo
  <2> HIDE DEF Upto
  <2> QED
    BY <2>4
<1> HIDE DEF Upto
<1>3. Bad = {}
  <2> SUFFICES ASSUME Bad # {} PROVE FALSE
    OBVIOUS
  <2>1. PICK n \in Bad : \A i \in Bad : n <= i
    <3>1. Bad \in SUBSET Nat
      OBVIOUS
    <3> HIDE DEF Bad
    <3> QED
      BY <3>1, Least
  <2>2. n \in 0 .. N /\ ~\E f : Upto(f, n)
    OBVIOUS
  <2>3. n # 0
    BY <1>1, <2>2
  <2>4. n - 1 \in 0 .. (N - 1) /\ (n - 1) + 1 = n /\ n - 1 \in 0 .. N /\ ~(n <= n - 1)
    BY <2>2, <2>3
  <2>5. \E f : Upto(f, n - 1)
    BY <2>1, <2>4
  <2> HIDE DEF Bad
  <2>6. \E g : Upto(g, (n - 1) + 1)
    BY <1>2, <2>4, <2>5
  <2> QED
    BY <2>2, <2>4, <2>6
<1>4. PICK f : Upto(f, N)
  <2>1. N \in 0 .. N
    OBVIOUS
  <2> QED
    BY <1>3, <2>1
<1>5. f = [i \in 1 .. N |-> Flattened(f, ss, i)]
  BY <1>4 DEF Upto, FlattensTo
<1> QED
  BY <1>5

LEMMA FlattenIs ==
    ASSUME NEW S, NEW ss \in Seq(S), ss # <<>>
    PROVE  \E f : FlattenSeq(ss) = f[Len(ss)] /\ FlattensTo(f, ss, Len(ss))
<1> DEFINE f == CHOOSE g : g = [i \in 1 .. Len(ss) |-> Flattened(g, ss, i)]
<1>1. Len(ss) \in Nat /\ Len(ss) # 0
  BY EmptySeq
<1>2. f = [i \in 1 .. Len(ss) |-> Flattened(f, ss, i)]
  BY <1>1, FlattenExists
<1>3. FlattenSeq(ss) = f[Len(ss)]
  BY <1>1 DEF FlattenSeq, Flattened
<1> HIDE DEF f
<1>4. \A i \in 1 .. Len(ss) : f[i] = Flattened(f, ss, i)
  BY <1>2
<1> QED
  BY <1>3, <1>4 DEF FlattensTo

LEMMA FlattensAlike ==
    ASSUME NEW ss, NEW tt, NEW n \in Nat, \A i \in 1 .. n : ss[i] = tt[i],
           NEW f, FlattensTo(f, ss, n), NEW g, FlattensTo(g, tt, n)
    PROVE  \A i \in 1 .. n : f[i] = g[i]
<1> DEFINE Bad == {i \in 1 .. n : f[i] # g[i]}
<1> SUFFICES ASSUME Bad # {} PROVE FALSE
  OBVIOUS
<1>1. PICK i \in Bad : \A j \in Bad : i <= j
  <2>1. Bad \in SUBSET Nat
    OBVIOUS
  <2> HIDE DEF Bad
  <2> QED
    BY <2>1, Least
<1>2. i \in 1 .. n /\ f[i] # g[i] /\ f[i] = Flattened(f, ss, i) /\ g[i] = Flattened(g, tt, i)
  BY DEF FlattensTo
<1>3. i # 1
  BY <1>2 DEF Flattened
<1>4. i - 1 \in 1 .. n /\ ~(i <= i - 1)
  BY <1>2, <1>3
<1>5. f[i - 1] = g[i - 1]
  BY <1>1, <1>4
<1> QED
  BY <1>2, <1>5 DEF Flattened

LEMMA FlattenAppend ==
    ASSUME NEW S, NEW ss \in Seq(Seq(S)), NEW x \in Seq(S)
    PROVE  FlattenSeq(Append(ss, x)) = FlattenSeq(ss) \o x
<1> DEFINE n == Len(ss)
           tt == Append(ss, x)
<1>1. /\ n \in Nat /\ tt \in Seq(Seq(S)) /\ tt # <<>> /\ Len(tt) = n + 1
      /\ tt[n + 1] = x /\ \A i \in 1 .. n : ss[i] = tt[i]
  BY AppendProperties, LenProperties
<1>2. PICK g : FlattenSeq(tt) = g[n + 1] /\ FlattensTo(g, tt, n + 1)
  BY <1>1, FlattenIs
<1> HIDE DEF tt
<1>3. CASE ss = <<>>
  <2>1. n = 0 /\ FlattenSeq(ss) = <<>>
    BY <1>3, EmptySeq DEF FlattenSeq
  <2>2. g[1] = x
    BY <1>1, <1>2, <2>1 DEF FlattensTo, Flattened
  <2>3. <<>> \o x = x
    BY ConcatEmptySeq
  <2> QED
    BY <1>2, <2>1, <2>2, <2>3 DEF tt
<1>4. CASE ss # <<>>
  <2>1. PICK f : FlattenSeq(ss) = f[n] /\ FlattensTo(f, ss, n)
    BY <1>4, FlattenIs
  <2>2. n # 0
    BY <1>4, EmptySeq
  <2> HIDE DEF n
  <2>3. n \in 1 .. n /\ n + 1 \in 1 .. (n + 1) /\ n + 1 # 1 /\ (n + 1) - 1 = n
    BY <1>1, <2>2
  <2>4. FlattensTo(g, tt, n)
    BY <1>1, <1>2 DEF FlattensTo
  <2>5. f[n] = g[n]
    <3>1. \A i \in 1 .. n : f[i] = g[i]
      <4>1. n \in Nat /\ (\A i \in 1 .. n : ss[i] = tt[i])
        BY <1>1
      <4>2. FlattensTo(f, ss, n)
        BY <2>1
      <4> QED
        BY <2>4, <4>1, <4>2, FlattensAlike, SMTT(30)
    <3> QED
      BY <2>3, <3>1
  <2>6. g[n + 1] = g[n] \o x
    BY <1>1, <1>2, <2>3 DEF FlattensTo, Flattened
  <2> QED
    BY <1>2, <2>1, <2>5, <2>6 DEF tt
<1> QED
  BY <1>3, <1>4

(* A set that has the empty sequence, and every sequence that is one       *)
(* longer than one it has, has them all.                                   *)
LEMMA ByAppending ==
    ASSUME NEW S, NEW P, <<>> \in P,
           \A s \in Seq(S), x \in S : s \in P => Append(s, x) \in P
    PROVE  Seq(S) \subseteq P
<1> DEFINE Bad == {n \in Nat : \E s \in Seq(S) : Len(s) = n /\ s \notin P}
<1>1. Bad = {}
  <2> SUFFICES ASSUME Bad # {} PROVE FALSE
    OBVIOUS
  <2>1. PICK n \in Bad : \A i \in Bad : n <= i
    <3>1. Bad \in SUBSET Nat
      OBVIOUS
    <3> HIDE DEF Bad
    <3> QED
      BY <3>1, Least
  <2>2. PICK s \in Seq(S) : n \in Nat /\ Len(s) = n /\ s \notin P
    OBVIOUS
  <2>3. PICK t \in Seq(S), x \in S : s = Append(t, x)
    <3>1. s # <<>>
      BY <2>2
    <3> QED
      BY <3>1, SequenceEmptyOrAppend
  <2>4. t \notin P
    BY <2>2, <2>3
  <2>5. Len(t) \in Nat /\ Len(t) + 1 = n
    BY <2>2, <2>3, AppendProperties, LenProperties
  <2>6. Len(t) \in Bad
    BY <2>4, <2>5
  <2> HIDE DEF Bad
  <2>7. n <= Len(t)
    BY <2>1, <2>6
  <2> QED
    BY <2>2, <2>5, <2>7
<1> SUFFICES ASSUME NEW s \in Seq(S) PROVE s \in P
  OBVIOUS
<1>2. Len(s) \in Nat
  BY LenProperties
<1> QED
  BY <1>1, <1>2

LEMMA FlattenType ==
    ASSUME NEW S, NEW ss \in Seq(Seq(S))
    PROVE  FlattenSeq(ss) \in Seq(S)
<1> DEFINE P == {tt \in Seq(Seq(S)) : FlattenSeq(tt) \in Seq(S)}
<1>1. <<>> \in P
  <2>1. FlattenSeq(<<>>) = <<>> /\ <<>> \in Seq(S) /\ <<>> \in Seq(Seq(S))
    BY EmptySeq DEF FlattenSeq
  <2> QED
    BY <2>1
<1>2. ASSUME NEW tt \in Seq(Seq(S)), NEW x \in Seq(S), tt \in P
      PROVE  Append(tt, x) \in P
  <2>1. FlattenSeq(tt) \in Seq(S)
    BY <1>2
  <2>2. FlattenSeq(tt) \o x \in Seq(S)
    BY <2>1, ConcatProperties
  <2>3. Append(tt, x) \in Seq(Seq(S))
    BY AppendProperties
  <2>4. FlattenSeq(Append(tt, x)) \in Seq(S)
    BY <2>2, FlattenAppend
  <2> QED
    BY <2>3, <2>4
<1> HIDE DEF P
<1>3. Seq(Seq(S)) \subseteq P
  BY <1>1, <1>2, ByAppending
<1> QED
  BY <1>3 DEF P

LEMMA FlattenCons ==
    ASSUME NEW S, NEW x \in Seq(S), NEW ss \in Seq(Seq(S))
    PROVE  FlattenSeq(<<x>> \o ss) = x \o FlattenSeq(ss)
<1> DEFINE P == {tt \in Seq(Seq(S)) : FlattenSeq(<<x>> \o tt) = x \o FlattenSeq(tt)}
<1>1. <<x>> \in Seq(Seq(S)) /\ <<>> \in Seq(Seq(S)) /\ FlattenSeq(<<>>) = <<>>
  BY EmptySeq DEF FlattenSeq
<1>2. <<>> \in P
  <2>1. <<x>> \o <<>> = Append(<<>>, x) /\ x \o <<>> = x /\ <<>> \o x = x
    <3>1. <<x>> \o <<>> = <<x>> /\ Append(<<>>, x) = <<x>>
      BY <1>1, ConcatEmptySeq
    <3> QED
      BY <3>1, ConcatEmptySeq
  <2>2. FlattenSeq(Append(<<>>, x)) = <<>> \o x
    BY <1>1, FlattenAppend
  <2> QED
    BY <1>1, <2>1, <2>2
<1>3. ASSUME NEW tt \in Seq(Seq(S)), NEW z \in Seq(S), tt \in P
      PROVE  Append(tt, z) \in P
  <2>1. FlattenSeq(<<x>> \o tt) = x \o FlattenSeq(tt)
    BY <1>3
  <2>2. Append(tt, z) \in Seq(Seq(S)) /\ <<x>> \o tt \in Seq(Seq(S)) /\ <<z>> \in Seq(Seq(S))
    BY <1>1, AppendProperties, ConcatProperties
  <2>3. <<x>> \o Append(tt, z) = Append(<<x>> \o tt, z)
    <3>1. Append(tt, z) = tt \o <<z>> /\ Append(<<x>> \o tt, z) = (<<x>> \o tt) \o <<z>>
      BY <2>2, AppendIsConcat
    <3>2. (<<x>> \o tt) \o <<z>> = <<x>> \o (tt \o <<z>>)
      BY <1>1, <2>2, ConcatAssociative
    <3> QED
      BY <3>1, <3>2
  <2>4. FlattenSeq(Append(<<x>> \o tt, z)) = FlattenSeq(<<x>> \o tt) \o z
    BY <2>2, FlattenAppend
  <2>5. FlattenSeq(Append(tt, z)) = FlattenSeq(tt) \o z
    BY FlattenAppend
  <2>6. (x \o FlattenSeq(tt)) \o z = x \o (FlattenSeq(tt) \o z)
    <3>1. FlattenSeq(tt) \in Seq(S)
      BY FlattenType
    <3> QED
      BY <3>1, ConcatAssociative
  <2>7. FlattenSeq(<<x>> \o Append(tt, z)) = x \o FlattenSeq(Append(tt, z))
    BY <2>1, <2>3, <2>4, <2>5, <2>6
  <2> QED
    BY <2>2, <2>7
<1> HIDE DEF P
<1>4. Seq(Seq(S)) \subseteq P
  BY <1>2, <1>3, ByAppending
<1> QED
  BY <1>4 DEF P

LEMMA HeadAndTail ==
    ASSUME NEW S, NEW s \in Seq(S), s # <<>>
    PROVE  /\ Head(s) = s[1] /\ s[1] \in S /\ Tail(s) \in Seq(S)
           /\ s = <<s[1]>> \o Tail(s)
           /\ Len(s) \in Nat \ {0} /\ Len(Tail(s)) = Len(s) - 1
           /\ \A i \in 1 .. (Len(s) - 1) : Tail(s)[i] = s[i + 1]
<1>1. Len(s) \in Nat \ {0}
  BY EmptySeq
<1>2. s[1] \in S
  BY <1>1, ElementOfSeq
<1>3. /\ Tail(s) \in Seq(S) /\ Len(Tail(s)) = Len(s) - 1
      /\ \A i \in 1 .. (Len(s) - 1) : Tail(s)[i] = s[i + 1]
  BY HeadTailProperties
<1>4. s = <<s[1]>> \o Tail(s)
  <2>1. <<s[1]>> \in Seq(S) /\ Len(<<s[1]>>) = 1 /\ <<s[1]>>[1] = s[1]
    BY <1>2
  <2> DEFINE one == <<s[1]>>
             t == one \o Tail(s)
  <2> HIDE DEF one
  <2>2. /\ t \in Seq(S) /\ Len(t) = Len(one) + Len(Tail(s))
        /\ \A i \in 1 .. (Len(one) + Len(Tail(s))) :
             t[i] = IF i <= Len(one) THEN one[i] ELSE Tail(s)[i - Len(one)]
    <3>1. one \in Seq(S) /\ Tail(s) \in Seq(S)
      BY <1>3, <2>1 DEF one
    <3> QED
      BY <3>1, ConcatProperties
  <2>3. Len(one) = 1 /\ one[1] = s[1]
    BY <2>1 DEF one
  <2> HIDE DEF t
  <2>4. Len(t) = Len(s)
    BY <1>1, <1>3, <2>2, <2>3
  <2>5. ASSUME NEW i \in 1 .. Len(s) PROVE s[i] = t[i]
    <3>1. i \in 1 .. (Len(one) + Len(Tail(s)))
      BY <1>1, <1>3, <2>3
    <3>2. t[i] = IF i <= 1 THEN one[i] ELSE Tail(s)[i - 1]
      BY <2>2, <2>3, <3>1
    <3>3. CASE i = 1
      BY <2>3, <3>2, <3>3
    <3>4. CASE i # 1
      <4>1. i - 1 \in 1 .. (Len(s) - 1) /\ (i - 1) + 1 = i /\ ~(i <= 1)
        BY <1>1, <3>4
      <4>2. Tail(s)[i - 1] = s[(i - 1) + 1]
        BY <1>3, <4>1
      <4> QED
        BY <3>2, <4>1, <4>2
    <3> QED
      BY <3>3, <3>4
  <2>6. s = t
    BY <2>2, <2>4, <2>5, SeqEqual
  <2> QED
    BY <2>6 DEF t, one
<1>5. Head(s) = s[1]
  OBVIOUS
<1> QED
  BY <1>1, <1>2, <1>3, <1>4, <1>5

LEMMA FlattenHeadTail ==
    ASSUME NEW S, NEW ss \in Seq(Seq(S)), ss # <<>>
    PROVE  FlattenSeq(ss) = ss[1] \o FlattenSeq(Tail(ss))
<1>1. ss[1] \in Seq(S) /\ Tail(ss) \in Seq(Seq(S)) /\ ss = <<ss[1]>> \o Tail(ss)
  BY HeadAndTail
<1> QED
  BY <1>1, FlattenCons

(* What F makes of the elements of s, put together.                        *)
Mapped(F, s) == FlattenSeq([k \in 1 .. Len(s) |-> F[s[k]]])

MapsTo(F, s, T) ==
    /\ Mapped(F, s) \in Seq(T)
    /\ s = <<>> => Mapped(F, s) = <<>>
    /\ s # <<>> => Mapped(F, s) = F[s[1]] \o Mapped(F, Tail(s))

LEMMA FlattenMap ==
    ASSUME NEW S, NEW T, NEW F \in [S -> Seq(T)], NEW s \in Seq(S)
    PROVE  MapsTo(F, s, T)
<1> DEFINE M(t) == [k \in 1 .. Len(t) |-> F[t[k]]]
<1>1. \A t \in Seq(S) : M(t) \in Seq(Seq(T)) /\ Len(M(t)) = Len(t)
  <2> TAKE t \in Seq(S)
  <2>1. Len(t) \in Nat /\ \A k \in 1 .. Len(t) : F[t[k]] \in Seq(T)
    BY LenProperties, ElementOfSeq
  <2> QED
    BY <2>1
<1>2. FlattenSeq(M(s)) \in Seq(T)
  <2>1. M(s) \in Seq(Seq(T))
    BY <1>1
  <2> HIDE DEF M
  <2> QED
    BY <2>1, FlattenType
<1>3. s = <<>> => FlattenSeq(M(s)) = <<>>
  <2> SUFFICES ASSUME s = <<>> PROVE FlattenSeq(M(s)) = <<>>
    OBVIOUS
  <2>1. Len(M(s)) = 0 /\ M(s) \in Seq(Seq(T))
    BY <1>1, EmptySeq
  <2> HIDE DEF M
  <2>2. M(s) = <<>>
    BY <2>1, EmptySeq
  <2> QED
    BY <2>2, EmptySeq DEF FlattenSeq
<1>4. s # <<>> => FlattenSeq(M(s)) = F[s[1]] \o FlattenSeq(M(Tail(s)))
  <2> SUFFICES ASSUME s # <<>> PROVE FlattenSeq(M(s)) = F[s[1]] \o FlattenSeq(M(Tail(s)))
    OBVIOUS
  <2>1. /\ Tail(s) \in Seq(S) /\ Len(s) \in Nat \ {0} /\ Len(Tail(s)) = Len(s) - 1
        /\ \A i \in 1 .. (Len(s) - 1) : Tail(s)[i] = s[i + 1]
    BY HeadAndTail
  <2>2. M(s) \in Seq(Seq(T)) /\ Len(M(s)) = Len(s)
    BY <1>1
  <2>3. M(Tail(s)) \in Seq(Seq(T)) /\ Len(M(Tail(s))) = Len(s) - 1
    BY <1>1, <2>1
  <2>4. M(s)[1] = F[s[1]] /\ \A i \in 1 .. (Len(s) - 1) : M(s)[i + 1] = F[s[i + 1]]
    BY <2>1
  <2>5. \A i \in 1 .. (Len(s) - 1) : M(Tail(s))[i] = F[s[i + 1]]
    BY <2>1
  <2> HIDE DEF M
  <2>6. M(s) # <<>>
    BY <2>1, <2>2, EmptySeq
  <2>7. /\ Tail(M(s)) \in Seq(Seq(T)) /\ Len(Tail(M(s))) = Len(s) - 1
        /\ \A i \in 1 .. (Len(s) - 1) : Tail(M(s))[i] = M(s)[i + 1]
    BY <2>2, <2>6, HeadAndTail
  <2>8. Tail(M(s)) = M(Tail(s))
    <3>1. \A i \in 1 .. Len(Tail(M(s))) : Tail(M(s))[i] = M(Tail(s))[i]
      BY <2>4, <2>5, <2>7
    <3> QED
      BY <2>3, <2>7, <3>1, SeqEqual
  <2>9. FlattenSeq(M(s)) = M(s)[1] \o FlattenSeq(Tail(M(s)))
    BY <2>2, <2>6, FlattenHeadTail
  <2> QED
    BY <2>4, <2>8, <2>9
<1> QED
  BY <1>2, <1>3, <1>4 DEF Mapped, MapsTo

(* The cells that Drop and Take leave, and where Until and Skip stop.      *)
LEMMA DropIs ==
    ASSUME NEW S, NEW s \in Seq(S), NEW n \in Nat
    PROVE  /\ Drop(s, n) \in Seq(S)
           /\ Len(s) \in Nat
           /\ Len(Drop(s, n)) = IF n <= Len(s) THEN Len(s) - n ELSE 0
           /\ \A i \in 1 .. (Len(s) - n) : Drop(s, n)[i] = s[n + i]
<1> DEFINE l == Len(s)
<1>1. l \in Nat /\ \A i \in (n + 1) .. l : s[i] \in S
  BY LenProperties, ElementOfSeq
<1>2. n + 1 \in Int /\ l \in Int
  BY <1>1
<1>3. /\ SubSeq(s, n + 1, l) \in Seq(S)
      /\ Len(SubSeq(s, n + 1, l)) = IF n + 1 <= l THEN l - (n + 1) + 1 ELSE 0
      /\ \A i \in 1 .. (l - (n + 1) + 1) : SubSeq(s, n + 1, l)[i] = s[n + 1 + i - 1]
  BY <1>1, <1>2, SubSeqProperties
<1>4. Drop(s, n) = SubSeq(s, n + 1, l)
  BY DEF Drop
<1> HIDE DEF l
<1>5. \A i \in 1 .. (l - n) : i \in 1 .. (l - (n + 1) + 1) /\ n + 1 + i - 1 = n + i
  BY <1>1
<1>6. (IF n + 1 <= l THEN l - (n + 1) + 1 ELSE 0) = IF n <= l THEN l - n ELSE 0
  BY <1>1
<1> QED
  BY <1>1, <1>3, <1>4, <1>5, <1>6 DEF l

LEMMA PrefixIs ==
    ASSUME NEW S, NEW s \in Seq(S), NEW n \in 0 .. Len(s)
    PROVE  /\ SubSeq(s, 1, n) \in Seq(S) /\ Len(SubSeq(s, 1, n)) = n
           /\ \A i \in 1 .. n : SubSeq(s, 1, n)[i] = s[i]
<1>1. Len(s) \in Nat /\ n \in Int /\ 1 \in Int
  BY LenProperties
<1>2. \A i \in 1 .. n : s[i] \in S
  BY <1>1, ElementOfSeq
<1>3. /\ SubSeq(s, 1, n) \in Seq(S) /\ Len(SubSeq(s, 1, n)) = IF 1 <= n THEN n - 1 + 1 ELSE 0
      /\ \A i \in 1 .. (n - 1 + 1) : SubSeq(s, 1, n)[i] = s[1 + i - 1]
  BY <1>1, <1>2, SubSeqProperties
<1> QED
  BY <1>1, <1>3

LEMMA MinIs ==
    ASSUME NEW T \in SUBSET Nat, T # {}
    PROVE  Min(T) \in T /\ \A m \in T : Min(T) <= m
  BY Least DEF Min

LEMMA TakeIs ==
    ASSUME NEW S, NEW s \in Seq(S), NEW n \in Nat
    PROVE  /\ Take(s, n) \in Seq(S)
           /\ Len(Take(s, n)) = IF n <= Len(s) THEN n ELSE Len(s)
           /\ \A i \in 1 .. Len(Take(s, n)) : Take(s, n)[i] = s[i]
<1> DEFINE m == Min({n, Len(s)})
<1>1. Len(s) \in Nat
  BY LenProperties
<1>2. m = IF n <= Len(s) THEN n ELSE Len(s)
  <2>1. {n, Len(s)} \in SUBSET Nat /\ {n, Len(s)} # {}
    BY <1>1
  <2>2. m \in {n, Len(s)} /\ \A k \in {n, Len(s)} : m <= k
    BY <2>1, MinIs
  <2> HIDE DEF m
  <2> QED
    BY <1>1, <2>2
<1>3. m \in 0 .. Len(s)
  BY <1>1, <1>2
<1>4. Take(s, n) = SubSeq(s, 1, m)
  BY DEF Take
<1> HIDE DEF m
<1> QED
  BY <1>2, <1>3, <1>4, PrefixIs

(* Until stops behind the n-th cell.                                       *)
StopsAt(set, s, n) ==
    /\ n \in 0 .. Len(s)
    /\ \A i \in 1 .. n : s[i] \notin set
    /\ n < Len(s) => s[n + 1] \in set

LEMMA UntilIs ==
    ASSUME NEW set \in SUBSET Cells, NEW s \in Text
    PROVE  /\ Until(set, s) \in Text
           /\ StopsAt(set, s, Len(Until(set, s)))
           /\ \A i \in 1 .. Len(Until(set, s)) : Until(set, s)[i] = s[i]
<1> DEFINE T == {k \in 1 .. Len(s) : s[k] \in set} \cup {Len(s) + 1}
           n == Min(T) - 1
<1>1. Len(s) \in Nat /\ s \in Seq(Cells)
  BY LenProperties DEF Text
<1>2. n + 1 \in T /\ (\A m \in T : n + 1 <= m) /\ n \in Int
  <2>1. T \in SUBSET Nat /\ T # {}
    BY <1>1
  <2> HIDE DEF T
  <2>2. Min(T) \in T /\ (\A m \in T : Min(T) <= m) /\ Min(T) \in Nat
    BY <2>1, MinIs
  <2>3. n + 1 = Min(T)
    BY <2>2
  <2> QED
    BY <2>2, <2>3
<1> HIDE DEF n
<1>3. StopsAt(set, s, n)
  <2>1. n \in 0 .. Len(s)
    BY <1>1, <1>2
  <2>2. \A i \in 1 .. n : i \notin T
    BY <1>2
  <2> QED
    BY <1>1, <1>2, <2>1, <2>2 DEF StopsAt
<1>4. Until(set, s) = SubSeq(s, 1, n)
  BY DEF Until, n
<1>5. SubSeq(s, 1, n) \in Seq(Cells) /\ Len(SubSeq(s, 1, n)) = n
      /\ \A i \in 1 .. n : SubSeq(s, 1, n)[i] = s[i]
  BY <1>1, <1>3, PrefixIs DEF StopsAt
<1> QED
  BY <1>3, <1>4, <1>5 DEF Text

LEMMA SkipIs ==
    ASSUME NEW set \in SUBSET Cells, NEW s \in Text
    PROVE  \E n : Skip(set, s) = Drop(s, n) /\ StopsAt(Cells \ set, s, n)
<1>1. Skip(set, s) = Drop(s, Len(Until(Cells \ set, s)))
  BY DEF Skip
<1>2. StopsAt(Cells \ set, s, Len(Until(Cells \ set, s)))
  BY UntilIs
<1> QED
  BY <1>1, <1>2

(* The keys of a text are those of its first cell and of the others, and   *)
(* the keys of lines those of the first and of the others.                 *)
Typing(c) == IF HasKey(c) THEN <<c>> ELSE <<>>

LEMMA KeysIs ==
    ASSUME NEW t \in Text
    PROVE  /\ Keys[t] \in Text
           /\ t = <<>> => Keys[t] = <<>>
           /\ t # <<>> => Tail(t) \in Text /\ Keys[t] = Typing(t[1]) \o Keys[Tail(t)]
<1> DEFINE F == [c \in Cells |-> Typing(c)]
<1>1. F \in [Cells -> Seq(Cells)]
  <2> SUFFICES ASSUME NEW c \in Cells PROVE Typing(c) \in Seq(Cells)
    OBVIOUS
  <2>1. <<c>> \in Seq(Cells) /\ <<>> \in Seq(Cells)
    BY EmptySeq
  <2> QED
    BY <2>1 DEF Typing
<1>2. \A s \in Text : Keys[s] = Mapped(F, s)
  <2> TAKE s \in Text
  <2>1. \A k \in 1 .. Len(s) : s[k] \in Cells
    BY ElementOfSeq DEF Text
  <2>2. \A k \in 1 .. Len(s) : F[s[k]] = IF HasKey(s[k]) THEN <<s[k]>> ELSE <<>>
    BY <2>1 DEF Typing
  <2> HIDE DEF F
  <2>3. [k \in 1 .. Len(s) |-> F[s[k]]]
          = [k \in 1 .. Len(s) |-> IF HasKey(s[k]) THEN <<s[k]>> ELSE <<>>]
    BY <2>2
  <2> QED
    BY <2>3 DEF Keys, Mapped
<1>3. t # <<>> => t[1] \in Cells /\ Tail(t) \in Seq(Cells) /\ F[t[1]] = Typing(t[1])
  BY HeadAndTail DEF Text
<1> HIDE DEF F
<1>4. MapsTo(F, t, Cells)
  <2>1. t \in Seq(Cells)
    BY DEF Text
  <2>2. F \in [Cells -> Seq(Cells)]
    BY <1>1
  <2> QED
    BY <2>1, <2>2, FlattenMap
<1>5. t # <<>> => Tail(t) \in Text
  BY <1>3 DEF Text
<1> QED
  BY <1>2, <1>3, <1>4, <1>5 DEF MapsTo, Text

LEMMA KeysOfType == \A l \in Text : KeysOf(l) \in Text
<1> TAKE l \in Text
<1>1. Drop(l, 2) \in Text
  BY DropIs DEF Text
<1>2. Until(Newline, Drop(l, 2)) \in Text
  BY <1>1, UntilIs DEF Newline, Cells, Spaces
<1>3. Take(Until(Newline, Drop(l, 2)), StrCap) \in Text
  BY <1>2, TakeIs, MacroAssumption DEF Text
<1>4. Keys[Take(Until(Newline, Drop(l, 2)), StrCap)] \in Text
  BY <1>3, KeysIs
<1>5. <<"\n">> \in Text /\ <<>> \in Text
  <2>1. "\n" \in Cells
    BY DEF Cells, Spaces
  <2>2. <<"\n">> \in Seq(Cells) /\ <<>> \in Seq(Cells)
    BY <2>1, EmptySeq
  <2> QED
    BY <2>2 DEF Text
<1> QED
  BY <1>4, <1>5 DEF KeysOf

LEMMA AllKeysIs ==
    ASSUME NEW lines \in Seq(Text)
    PROVE  /\ AllKeys(lines) \in Text
           /\ lines = <<>> => AllKeys(lines) = <<>>
           /\ lines # <<>> => AllKeys(lines) = KeysOf(lines[1]) \o AllKeys(Tail(lines))
<1> DEFINE F == [l \in Text |-> KeysOf(l)]
<1>1. F \in [Text -> Seq(Cells)]
  BY KeysOfType DEF Text
<1>2. \A ls \in Seq(Text) : AllKeys(ls) = Mapped(F, ls)
  <2> TAKE ls \in Seq(Text)
  <2>1. \A k \in 1 .. Len(ls) : ls[k] \in Text
    BY ElementOfSeq
  <2>2. \A k \in 1 .. Len(ls) : F[ls[k]] = KeysOf(ls[k])
    BY <2>1
  <2> HIDE DEF F
  <2>3. [k \in 1 .. Len(ls) |-> F[ls[k]]] = [k \in 1 .. Len(ls) |-> KeysOf(ls[k])]
    BY <2>2
  <2> QED
    BY <2>3 DEF AllKeys, Mapped
<1>3. lines # <<>> =>
        lines[1] \in Text /\ Tail(lines) \in Seq(Text) /\ F[lines[1]] = KeysOf(lines[1])
  BY HeadAndTail
<1> HIDE DEF F
<1>4. MapsTo(F, lines, Cells)
  BY <1>1, FlattenMap
<1> QED
  BY <1>2, <1>3, <1>4 DEF MapsTo, Text

(* What is read of w: all of it, unless it is cut.                         *)
Begins(u, w, c) ==
    /\ u \in Text /\ w \in Text
    /\ Len(u) <= Len(w)
    /\ \A i \in 1 .. Len(u) : u[i] = w[i]
    /\ ~c => u = w

LEMMA DropBegins ==
    ASSUME NEW u, NEW q \in Text, NEW f \in Text, NEW c, Begins(u, q \o f, c),
           NEW k \in 0 .. Len(q)
    PROVE  Begins(Drop(u, k), Drop(q, k) \o f, c)
<1> DEFINE lu == Len(u)
           lq == Len(q)
           lf == Len(f)
           v == Drop(u, k)
           r == Drop(q, k)
           w == r \o f
<1>1. u \in Seq(Cells) /\ q \in Seq(Cells) /\ f \in Seq(Cells)
  BY DEF Begins, Text
<1>2. lu \in Nat /\ lq \in Nat /\ lf \in Nat /\ k \in Nat /\ k <= lq
  BY <1>1, LenProperties
<1>3. /\ Len(q \o f) = lq + lf
      /\ \A i \in 1 .. (lq + lf) : (q \o f)[i] = IF i <= lq THEN q[i] ELSE f[i - lq]
  BY <1>1, ConcatProperties
<1>4. lu <= lq + lf /\ \A i \in 1 .. lu : u[i] = IF i <= lq THEN q[i] ELSE f[i - lq]
  <2>1. lu <= lq + lf /\ \A i \in 1 .. lu : u[i] = (q \o f)[i]
    BY <1>3 DEF Begins
  <2> HIDE DEF lu, lq, lf
  <2> QED
    BY <1>2, <1>3, <2>1
<1>5. /\ v \in Seq(Cells) /\ Len(v) = IF k <= lu THEN lu - k ELSE 0
      /\ \A i \in 1 .. (lu - k) : v[i] = u[k + i]
  <2> HIDE DEF lq, lf, r, w
  <2>1. \A s \in Seq(Cells) :
          /\ Drop(s, k) \in Seq(Cells)
          /\ Len(Drop(s, k)) = IF k <= Len(s) THEN Len(s) - k ELSE 0
          /\ \A i \in 1 .. (Len(s) - k) : Drop(s, k)[i] = s[k + i]
    BY <1>2, DropIs
  <2> QED
    BY <1>1, <2>1, Zenon
<1>6. /\ r \in Seq(Cells) /\ Len(r) = lq - k
      /\ \A i \in 1 .. (lq - k) : r[i] = q[k + i]
  <2>1. /\ r \in Seq(Cells) /\ Len(r) = IF k <= lq THEN lq - k ELSE 0
        /\ \A i \in 1 .. (lq - k) : r[i] = q[k + i]
    BY <1>1, <1>2, DropIs
  <2> HIDE DEF r, lq
  <2> QED
    BY <1>2, <2>1
<1> HIDE DEF v, r
<1>7. /\ w \in Seq(Cells) /\ Len(w) = Len(r) + lf
      /\ \A i \in 1 .. (Len(r) + lf) : w[i] = IF i <= Len(r) THEN r[i] ELSE f[i - Len(r)]
  BY <1>1, <1>6, ConcatProperties
<1>8. ~c => u = q \o f
  BY DEF Begins
<1>9. ~c => lu = lq + lf
  BY <1>3, <1>8
<1> HIDE DEF lu, lq, lf, w
<1>10. Len(w) = lq - k + lf
  BY <1>6, <1>7
<1>11. Len(v) <= Len(w)
  BY <1>2, <1>4, <1>5, <1>10
<1>12. ASSUME NEW i \in 1 .. Len(v) PROVE v[i] = w[i]
  <2>1. k <= lu /\ i \in 1 .. (lu - k) /\ k + i \in 1 .. lu /\ i \in 1 .. (lq - k + lf)
    BY <1>2, <1>4, <1>5
  <2>2. v[i] = IF k + i <= lq THEN q[k + i] ELSE f[(k + i) - lq]
    BY <1>4, <1>5, <2>1
  <2>3. w[i] = IF i <= lq - k THEN r[i] ELSE f[i - (lq - k)]
    BY <1>6, <1>7, <2>1
  <2>4. CASE k + i <= lq
    <3>1. i <= lq - k /\ i \in 1 .. (lq - k)
      BY <1>2, <2>1, <2>4
    <3> QED
      BY <1>6, <2>2, <2>3, <2>4, <3>1
  <2>5. CASE ~(k + i <= lq)
    <3>1. ~(i <= lq - k) /\ i - (lq - k) = (k + i) - lq
      BY <1>2, <2>1, <2>5
    <3> QED
      BY <2>2, <2>3, <2>5, <3>1
  <2> QED
    BY <2>4, <2>5
<1>13. ~c => v = w
  <2> SUFFICES ASSUME ~c PROVE v = w
    OBVIOUS
  <2>1. Len(v) = Len(w)
    BY <1>2, <1>5, <1>9, <1>10
  <2> QED
    BY <1>5, <1>7, <1>12, <2>1, SeqEqual
<1>14. Begins(v, w, c)
  BY <1>5, <1>7, <1>11, <1>12, <1>13 DEF Begins, Text
<1> QED
  BY <1>14 DEF v, w, r

(* A remainder of a line that has no command; the text that is ahead of    *)
(* the parser: such a remainder and lines.                                 *)
Quiet(q) == \A i \in 1 .. Len(q) : q[i] \notin Commands /\ (i < Len(q) => q[i] # "\n")

Ahead(u, q, lines, c) ==
    /\ q \in Text /\ lines \in Seq(Text) /\ IsMacro(lines)
    /\ Begins(u, q \o FlattenSeq(lines), c)
    /\ Quiet(q)
    /\ q # <<>> /\ lines # <<>> => q[Len(q)] = "\n"

LEMMA LinesType ==
    ASSUME NEW lines \in Seq(Text)
    PROVE  FlattenSeq(lines) \in Text
<1>1. lines \in Seq(Seq(Cells))
  BY DEF Text
<1>2. FlattenSeq(lines) \in Seq(Cells)
  BY <1>1, FlattenType
<1> QED
  BY <1>2 DEF Text

LEMMA NoText == <<>> \in Text /\ \A f \in Text : <<>> \o f = f
  BY EmptySeq, ConcatEmptySeq DEF Text

LEMMA DropQuiet ==
    ASSUME NEW u, NEW q, NEW lines, NEW c, Ahead(u, q, lines, c), NEW k \in 0 .. Len(q)
    PROVE  Ahead(Drop(u, k), Drop(q, k), lines, c)
<1> DEFINE r == Drop(q, k)
           l == Len(q)
<1>1. q \in Seq(Cells) /\ lines \in Seq(Text) /\ IsMacro(lines)
  BY DEF Ahead, Text
<1>2. l \in Nat /\ k \in Nat /\ k <= l
  BY <1>1, LenProperties
<1>3. r \in Seq(Cells) /\ Len(r) = l - k /\ \A i \in 1 .. (l - k) : r[i] = q[k + i]
  BY <1>1, <1>2, DropIs
<1>4. Begins(Drop(u, k), r \o FlattenSeq(lines), c)
  <2>1. q \in Text /\ FlattenSeq(lines) \in Text /\ Begins(u, q \o FlattenSeq(lines), c)
    BY <1>1, LinesType DEF Ahead
  <2> QED
    BY <2>1, DropBegins
<1> HIDE DEF r
<1>5. \A i \in 1 .. l : q[i] \notin Commands /\ (i < l => q[i] # "\n")
  BY DEF Ahead, Quiet
<1>6. q # <<>> /\ lines # <<>> => q[l] = "\n"
  BY DEF Ahead
<1>7. r # <<>> => l # k /\ q # <<>>
  BY <1>1, <1>2, <1>3, EmptySeq
<1> HIDE DEF l
<1>8. Quiet(r)
  <2> SUFFICES ASSUME NEW i \in 1 .. (l - k)
               PROVE  r[i] \notin Commands /\ (i < l - k => r[i] # "\n")
    BY <1>3 DEF Quiet
  <2>1. k + i \in 1 .. l /\ (i < l - k => k + i < l)
    BY <1>2
  <2> QED
    BY <1>3, <1>5, <2>1
<1>9. ASSUME r # <<>>, lines # <<>> PROVE r[Len(r)] = "\n"
  <2>1. l - k \in 1 .. (l - k) /\ k + (l - k) = l
    BY <1>2, <1>7, <1>9
  <2> QED
    BY <1>3, <1>6, <1>7, <1>9, <2>1
<1>10. Ahead(Drop(u, k), r, lines, c)
  BY <1>1, <1>3, <1>4, <1>8, <1>9 DEF Ahead, Text
<1> QED
  BY <1>10 DEF r

(* The first line that is ahead.                                           *)
StartsWith(u, lines, l, others, c) ==
    /\ l \in Text /\ IsLine(l)
    /\ others \in Seq(Text) /\ IsMacro(others)
    /\ others # <<>> => l[Len(l)] = "\n"
    /\ Begins(u, l \o FlattenSeq(others), c)
    /\ AllKeys(lines) = KeysOf(l) \o AllKeys(others)

LEMMA FirstLine ==
    ASSUME NEW u, NEW lines, NEW c, Ahead(u, <<>>, lines, c), lines # <<>>
    PROVE  StartsWith(u, lines, lines[1], Tail(lines), c)
<1> DEFINE l == lines[1]
           others == Tail(lines)
           n == Len(lines)
<1>1. lines \in Seq(Text) /\ IsMacro(lines) /\ Begins(u, <<>> \o FlattenSeq(lines), c)
  BY DEF Ahead
<1>2. /\ l \in Text /\ others \in Seq(Text)
      /\ n \in Nat \ {0} /\ Len(others) = n - 1
      /\ \A i \in 1 .. (n - 1) : others[i] = lines[i + 1]
  BY <1>1, HeadAndTail
<1>3. FlattenSeq(lines) \in Text /\ <<>> \o FlattenSeq(lines) = FlattenSeq(lines)
  BY <1>1, LinesType, NoText
<1>4. FlattenSeq(lines) = l \o FlattenSeq(others)
  <2>1. lines \in Seq(Seq(Cells))
    BY <1>1 DEF Text
  <2> QED
    BY <2>1, FlattenHeadTail
<1>5. AllKeys(lines) = KeysOf(l) \o AllKeys(others)
  BY <1>1, AllKeysIs
<1>6. /\ \A k \in 1 .. n : IsLine(lines[k])
      /\ \A k \in 1 .. (n - 1) : lines[k][Len(lines[k])] = "\n"
  BY <1>1 DEF IsMacro
<1>7. IsLine(l)
  <2>1. 1 \in 1 .. n
    BY <1>2
  <2> QED
    BY <1>6, <2>1
<1>8. others # <<>> => l[Len(l)] = "\n"
  <2>1. others # <<>> => 1 \in 1 .. (n - 1)
    BY <1>2, EmptySeq
  <2> QED
    BY <1>6, <2>1
<1> HIDE DEF l, others, n
<1>9. IsMacro(others)
  <2>1. \A k \in 1 .. (n - 1) : others[k] = lines[k + 1] /\ k + 1 \in 1 .. n
    BY <1>2
  <2>2. \A k \in 1 .. (n - 1 - 1) : k \in 1 .. (n - 1) /\ k + 1 \in 1 .. (n - 1)
    BY <1>2
  <2>3. \A k \in 1 .. (n - 1) : IsLine(others[k])
    BY <1>6, <2>1
  <2>4. \A k \in 1 .. (n - 1 - 1) : others[k][Len(others[k])] = "\n"
    BY <1>6, <2>1, <2>2
  <2> QED
    BY <1>2, <2>3, <2>4 DEF IsMacro
<1>10. StartsWith(u, lines, l, others, c)
  BY <1>1, <1>2, <1>3, <1>4, <1>5, <1>7, <1>8, <1>9 DEF StartsWith
<1> QED
  BY <1>10 DEF l, others

(* Behind the first line the others are ahead.                             *)
LEMMA BehindLine ==
    ASSUME NEW u, NEW lines, NEW l, NEW others, NEW c, StartsWith(u, lines, l, others, c)
    PROVE  Ahead(Drop(u, Len(l)), <<>>, others, c)
<1>1. l \in Seq(Cells) /\ l \in Text /\ others \in Seq(Text) /\ IsMacro(others)
  BY DEF StartsWith, Text
<1>2. Len(l) \in Nat /\ Len(l) \in 0 .. Len(l)
  BY <1>1, LenProperties
<1>3. Drop(l, Len(l)) = <<>>
  <2>1. Drop(l, Len(l)) \in Seq(Cells) /\ Len(Drop(l, Len(l))) = Len(l) - Len(l)
    BY <1>1, <1>2, DropIs
  <2>2. Len(Drop(l, Len(l))) = 0
    BY <1>2, <2>1
  <2> QED
    BY <2>1, <2>2, EmptySeq
<1>4. Begins(Drop(u, Len(l)), <<>> \o FlattenSeq(others), c)
  <2>1. FlattenSeq(others) \in Text /\ Begins(u, l \o FlattenSeq(others), c)
    BY <1>1, LinesType DEF StartsWith
  <2>2. Begins(Drop(u, Len(l)), Drop(l, Len(l)) \o FlattenSeq(others), c)
    BY <1>1, <1>2, <2>1, DropBegins
  <2> QED
    BY <1>3, <2>2
<1>5. Quiet(<<>>)
  BY EmptySeq DEF Quiet
<1> QED
  BY <1>1, <1>4, <1>5, NoText DEF Ahead

(* A line that types nothing and has no command is a remainder.            *)
LEMMA SilentLine ==
    ASSUME NEW u, NEW lines, NEW l, NEW others, NEW c, StartsWith(u, lines, l, others, c),
           \A i \in 1 .. Len(l) : l[i] \notin Commands
    PROVE  Ahead(u, l, others, c) /\ AllKeys(lines) = AllKeys(others)
<1>1. l \in Seq(Cells) /\ l # <<>> /\ others \in Seq(Text)
      /\ \A i \in 1 .. (Len(l) - 1) : l[i] # "\n"
  BY DEF StartsWith, IsLine, Text
<1>2. Len(l) \in Nat \ {0}
  BY <1>1, EmptySeq
<1>3. Quiet(l)
  <2> SUFFICES ASSUME NEW i \in 1 .. Len(l) PROVE i < Len(l) => l[i] # "\n"
    BY DEF Quiet
  <2> QED
    BY <1>1, <1>2
<1>4. KeysOf(l) = <<>>
  <2>1. l[1] \notin Commands
    BY <1>2
  <2> QED
    BY <2>1 DEF KeysOf, Commands
<1>5. AllKeys(lines) = AllKeys(others)
  <2>1. AllKeys(others) \in Text
    BY <1>1, AllKeysIs
  <2> QED
    BY <1>4, <2>1, NoText DEF StartsWith
<1>6. Ahead(u, l, others, c)
  BY <1>3 DEF Ahead, StartsWith
<1> QED
  BY <1>5, <1>6

LEMMA NothingAhead ==
    ASSUME NEW u, NEW c, Ahead(u, <<>>, <<>>, c)
    PROVE  u = <<>>
<1>1. FlattenSeq(<<>>) = <<>> /\ <<>> \o <<>> = <<>>
  BY EmptySeq, NoText DEF FlattenSeq
<1>2. u \in Seq(Cells) /\ Len(u) <= Len(<<>>)
  BY <1>1 DEF Ahead, Begins, Text
<1> QED
  BY <1>2, EmptySeq

LEMMA AheadType ==
    ASSUME NEW u, NEW q, NEW lines, NEW c, Ahead(u, q, lines, c)
    PROVE  u \in Text /\ u \in Seq(Cells) /\ Len(u) \in Nat /\ q \in Seq(Cells) /\ Len(q) \in Nat
<1>1. u \in Seq(Cells) /\ q \in Seq(Cells)
  BY DEF Ahead, Begins, Text
<1> QED
  BY <1>1, LenProperties DEF Text

(* What is read is that of the remainder, as far as both go.               *)
LEMMA ReadsFirst ==
    ASSUME NEW u, NEW q, NEW f \in Text, NEW c, q \in Text, Begins(u, q \o f, c)
    PROVE  \A i \in 1 .. Len(u) : i <= Len(q) => u[i] = q[i]
<1>1. q \in Seq(Cells) /\ f \in Seq(Cells) /\ u \in Seq(Cells)
  BY DEF Text, Begins
<1>2. Len(q) \in Nat /\ Len(f) \in Nat /\ Len(u) \in Nat
  BY <1>1, LenProperties
<1>3. \A i \in 1 .. (Len(q) + Len(f)) : (q \o f)[i] = IF i <= Len(q) THEN q[i] ELSE f[i - Len(q)]
  BY <1>1, ConcatProperties
<1> SUFFICES ASSUME NEW i \in 1 .. Len(u), i <= Len(q) PROVE u[i] = q[i]
  OBVIOUS
<1>4. i \in 1 .. (Len(q) + Len(f))
  BY <1>2
<1> QED
  BY <1>3, <1>4 DEF Begins

(* There is a remainder ahead, or a line, and what is read starts with it. *)
LEMMA AheadIs ==
    ASSUME NEW u, NEW q, NEW lines, NEW c, Ahead(u, q, lines, c), u # <<>>
    PROVE  \/ q # <<>> /\ u[1] = q[1]
           \/ /\ q = <<>> /\ lines # <<>> /\ u[1] = lines[1][1]
              /\ StartsWith(u, lines, lines[1], Tail(lines), c)
<1>1. u \in Seq(Cells) /\ Len(u) \in Nat \ {0} /\ q \in Seq(Cells)
  BY AheadType, EmptySeq
<1>2. CASE q # <<>>
  <2>1. Len(q) \in Nat \ {0} /\ q \in Text
    BY <1>1, <1>2, EmptySeq DEF Text
  <2>2. FlattenSeq(lines) \in Text /\ Begins(u, q \o FlattenSeq(lines), c)
    BY LinesType DEF Ahead
  <2>3. \A i \in 1 .. Len(u) : i <= Len(q) => u[i] = q[i]
    BY <2>1, <2>2, ReadsFirst
  <2>4. 1 \in 1 .. Len(u) /\ 1 <= Len(q)
    BY <1>1, <2>1
  <2> QED
    BY <1>2, <2>3, <2>4
<1>3. CASE q = <<>>
  <2>1. lines # <<>>
    BY <1>3, NothingAhead
  <2>2. StartsWith(u, lines, lines[1], Tail(lines), c)
    BY <1>3, <2>1, FirstLine
  <2> DEFINE l == lines[1]
             f == FlattenSeq(Tail(lines))
  <2>3. l \in Text /\ f \in Text /\ Begins(u, l \o f, c) /\ l # <<>>
    BY <2>2, LinesType DEF StartsWith, IsLine
  <2>4. Len(l) \in Nat \ {0}
    BY <2>3, EmptySeq DEF Text
  <2> HIDE DEF l, f
  <2>5. \A i \in 1 .. Len(u) : i <= Len(l) => u[i] = l[i]
    BY <2>3, ReadsFirst
  <2>6. 1 \in 1 .. Len(u) /\ 1 <= Len(l)
    BY <1>1, <2>4
  <2>7. u[1] = l[1]
    BY <2>5, <2>6
  <2> QED
    BY <1>3, <2>1, <2>2, <2>7 DEF l
<1> QED
  BY <1>2, <1>3

(* If what is read does not start with a command, there is a remainder     *)
(* ahead, perhaps a line, and the same keys.                               *)
LEMMA QuietAhead ==
    ASSUME NEW u, NEW q, NEW lines, NEW c, Ahead(u, q, lines, c), u # <<>>,
           u[1] \notin Commands
    PROVE  \E r, ls : /\ Ahead(u, r, ls, c) /\ r # <<>> /\ u[1] = r[1]
                      /\ AllKeys(ls) = AllKeys(lines)
<1>1. CASE q # <<>> /\ u[1] = q[1]
  BY <1>1
<1>2. CASE /\ q = <<>> /\ lines # <<>> /\ u[1] = lines[1][1]
           /\ StartsWith(u, lines, lines[1], Tail(lines), c)
  <2> DEFINE l == lines[1]
             others == Tail(lines)
  <2>1. StartsWith(u, lines, l, others, c) /\ IsLine(l) /\ l[1] \notin Commands /\ u[1] = l[1]
    BY <1>2 DEF StartsWith
  <2> HIDE DEF l, others
  <2>2. l # <<>> /\ \A i \in 1 .. Len(l) : l[i] \notin Commands
    BY <2>1 DEF IsLine, Commands
  <2>3. Ahead(u, l, others, c) /\ AllKeys(lines) = AllKeys(others)
    BY <2>1, <2>2, SilentLine
  <2> QED
    BY <2>1, <2>2, <2>3
<1> QED
  BY <1>1, <1>2, AheadIs

LEMMA DropNothing == ASSUME NEW s \in Text PROVE Drop(s, 0) = s
<1>1. s \in Seq(Cells)
  BY DEF Text
<1> QED
  BY <1>1, SubSeqFull DEF Drop

LEMMA DropDrop ==
    ASSUME NEW s \in Text, NEW m \in Nat, NEW n \in Nat
    PROVE  Drop(Drop(s, m), n) = Drop(s, m + n)
<1> DEFINE t == Drop(s, m)
           v == Drop(t, n)
           w == Drop(s, m + n)
           l == Len(s)
<1>1. s \in Seq(Cells) /\ m + n \in Nat
  BY DEF Text
<1>2. /\ t \in Seq(Cells) /\ l \in Nat /\ Len(t) = IF m <= l THEN l - m ELSE 0
      /\ \A i \in 1 .. (l - m) : t[i] = s[m + i]
  BY <1>1, DropIs
<1>3. /\ w \in Seq(Cells) /\ Len(w) = IF m + n <= l THEN l - (m + n) ELSE 0
      /\ \A i \in 1 .. (l - (m + n)) : w[i] = s[m + n + i]
  BY <1>1, DropIs
<1> HIDE DEF t
<1>4. /\ v \in Seq(Cells) /\ Len(v) = IF n <= Len(t) THEN Len(t) - n ELSE 0
      /\ \A i \in 1 .. (Len(t) - n) : v[i] = t[n + i]
  BY <1>2, DropIs
<1> HIDE DEF v, w, l
<1>5. Len(v) = Len(w)
  BY <1>2, <1>3, <1>4
<1>6. \A i \in 1 .. Len(v) : v[i] = w[i]
  <2> TAKE i \in 1 .. Len(v)
  <2>1. /\ i \in 1 .. (Len(t) - n) /\ n + i \in 1 .. (l - m) /\ i \in 1 .. (l - (m + n))
        /\ m + (n + i) = m + n + i
    BY <1>2, <1>4
  <2> QED
    BY <1>2, <1>3, <1>4, <2>1
<1>7. v = w
  BY <1>3, <1>4, <1>5, <1>6, SeqEqual
<1> QED
  BY <1>7 DEF v, w, t

(* Spaces ahead can be skipped: they type nothing.                         *)
LEMMA SkipSpace ==
    ASSUME NEW u, NEW q, NEW lines, NEW c, Ahead(u, q, lines, c), u # <<>>, u[1] \in Spaces
    PROVE  \E r, ls : Ahead(Drop(u, 1), r, ls, c) /\ AllKeys(ls) = AllKeys(lines)
<1>1. u[1] \notin Commands
  BY DEF Spaces, Commands
<1>2. PICK r, ls : Ahead(u, r, ls, c) /\ r # <<>> /\ AllKeys(ls) = AllKeys(lines)
  BY <1>1, QuietAhead
<1>3. 1 \in 0 .. Len(r)
  <2>1. r \in Seq(Cells)
    BY <1>2, AheadType
  <2> QED
    BY <1>2, <2>1, EmptySeq
<1>4. Ahead(Drop(u, 1), Drop(r, 1), ls, c)
  BY <1>2, <1>3, DropQuiet
<1> QED
  BY <1>2, <1>4

LEMMA SkipSpaces ==
    ASSUME NEW u, NEW q, NEW lines, NEW c, Ahead(u, q, lines, c)
    PROVE  \E r, ls : /\ Ahead(Skip(Spaces, u), r, ls, c)
                      /\ AllKeys(ls) = AllKeys(lines)
                      /\ Skip(Spaces, u) # <<>> => Skip(Spaces, u)[1] \notin Spaces
<1>1. u \in Text /\ u \in Seq(Cells) /\ Len(u) \in Nat
  BY AheadType
<1>2. PICK n : Skip(Spaces, u) = Drop(u, n) /\ StopsAt(Cells \ Spaces, u, n)
  <2>1. Spaces \in SUBSET Cells
    BY DEF Spaces, Cells
  <2> QED
    BY <1>1, <2>1, SkipIs
<1>3. /\ n \in 0 .. Len(u)
      /\ \A i \in 1 .. n : u[i] \notin Cells \ Spaces
      /\ n < Len(u) => u[n + 1] \in Cells \ Spaces
  BY <1>2 DEF StopsAt
<1> DEFINE Fine(k) == \E r, ls : Ahead(Drop(u, k), r, ls, c) /\ AllKeys(ls) = AllKeys(lines)
           Bad == {k \in 0 .. n : ~Fine(k)}
<1>4. Fine(0)
  BY <1>1, DropNothing
<1>5. ASSUME NEW k \in 0 .. (n - 1), Fine(k) PROVE Fine(k + 1)
  <2>1. PICK r, ls : Ahead(Drop(u, k), r, ls, c) /\ AllKeys(ls) = AllKeys(lines)
    BY <1>5
  <2>2. k \in Nat /\ 1 \in Nat /\ k <= Len(u) /\ 1 \in 1 .. (Len(u) - k) /\ k + 1 \in 1 .. n
        /\ k + 1 \in 1 .. Len(u) /\ Len(u) - k # 0
    BY <1>1, <1>3
  <2>3. Drop(u, k) \in Seq(Cells) /\ Len(Drop(u, k)) = Len(u) - k /\ Drop(u, k)[1] = u[k + 1]
    BY <1>1, <2>2, DropIs
  <2>4. Drop(u, k) # <<>>
    BY <2>2, <2>3, EmptySeq
  <2>5. Drop(u, k)[1] \in Spaces
    <3>1. u[k + 1] \in Cells /\ u[k + 1] \notin Cells \ Spaces
      BY <1>1, <1>3, <2>2, ElementOfSeq
    <3> QED
      BY <2>3, <3>1
  <2>6. \E s, ts : Ahead(Drop(Drop(u, k), 1), s, ts, c) /\ AllKeys(ts) = AllKeys(ls)
    BY <2>1, <2>4, <2>5, SkipSpace
  <2>7. Drop(Drop(u, k), 1) = Drop(u, k + 1)
    BY <1>1, <2>2, DropDrop
  <2> QED
    BY <2>1, <2>6, <2>7
<1> HIDE DEF Fine
<1>6. Fine(n)
  <2>1. Bad = {}
    <3> SUFFICES ASSUME Bad # {} PROVE FALSE
      OBVIOUS
    <3>1. PICK k \in Bad : \A i \in Bad : k <= i
      <4>1. Bad \in SUBSET Nat
        OBVIOUS
      <4> HIDE DEF Bad
      <4> QED
        BY <4>1, Least
    <3>2. k \in 0 .. n /\ ~Fine(k) /\ k # 0
      BY <1>4
    <3>3. k - 1 \in 0 .. (n - 1) /\ (k - 1) + 1 = k /\ ~(k <= k - 1) /\ k - 1 \in 0 .. n
      BY <1>3, <3>2
    <3>4. Fine(k - 1)
      BY <3>1, <3>3
    <3>5. Fine((k - 1) + 1)
      BY <1>5, <3>3, <3>4
    <3> QED
      BY <3>2, <3>3, <3>5
  <2>2. n \in 0 .. n
    BY <1>3
  <2> QED
    BY <2>1, <2>2
<1>7. Drop(u, n) # <<>> => Drop(u, n)[1] \notin Spaces
  <2>1. n \in Nat /\ n <= Len(u)
    BY <1>1, <1>3
  <2>2. /\ Drop(u, n) \in Seq(Cells) /\ Len(Drop(u, n)) = Len(u) - n
        /\ \A i \in 1 .. (Len(u) - n) : Drop(u, n)[i] = u[n + i]
    BY <1>1, <2>1, DropIs
  <2>3. Drop(u, n) # <<>> => n < Len(u)
    BY <1>1, <2>1, <2>2, EmptySeq
  <2>4. n < Len(u) => 1 \in 1 .. (Len(u) - n)
    BY <1>1, <2>1
  <2> QED
    BY <1>3, <2>2, <2>3, <2>4
<1> QED
  BY <1>2, <1>6, <1>7 DEF Fine

(* What is left to type: the string that is pending, of which a flash that *)
(* fails may have cut the end, and what is ahead.                          *)
Left(string, u, c, keys) ==
    \E p, q, lines :
        /\ Begins(string, p, c) /\ (u # <<>> => string = p)
        /\ Ahead(u, q, lines, c)
        /\ keys = Keys[p] \o AllKeys(lines)

(* What an event types, and what it has to leave.                          *)
Types(e) == IF e.type = "char" THEN Typing(e.arg) ELSE <<>>

Right(e, c, keys) ==
    /\ e.type \in {"none", "char", "delay"}
    /\ \E k \in Text : Left(e.pending, e.unread, c, k) /\ keys = Types(e) \o k

LEMMA EventIs ==
    ASSUME NEW type, NEW arg, NEW file, NEW string, NEW e, e = Event(type, arg, file, string)
    PROVE  e.type = type /\ e.arg = arg /\ e.unread = file /\ e.pending = string
  BY DEF Event

(* An event that types nothing and leaves no string.                       *)
LEMMA SilentRight ==
    ASSUME NEW type \in {"none", "delay"}, NEW arg, NEW file, NEW q, NEW ls, NEW c,
           Ahead(file, q, ls, c)
    PROVE  Right(Event(type, arg, file, <<>>), c, AllKeys(ls))
<1> DEFINE e == Event(type, arg, file, <<>>)
<1>1. e.type = type /\ e.unread = file /\ e.pending = <<>>
  BY EventIs
<1>2. Types(e) = <<>>
  BY <1>1 DEF Types
<1> HIDE DEF e
<1>3. AllKeys(ls) \in Text /\ <<>> \in Text /\ Keys[<<>>] = <<>>
      /\ <<>> \o AllKeys(ls) = AllKeys(ls)
  BY AllKeysIs, KeysIs, NoText DEF Ahead
<1>4. Begins(<<>>, <<>>, c)
  BY NoText DEF Begins
<1>5. Left(<<>>, file, c, AllKeys(ls))
  BY <1>3, <1>4 DEF Left
<1>6. Right(e, c, AllKeys(ls))
  BY <1>1, <1>2, <1>3, <1>5 DEF Right
<1> QED
  BY <1>6 DEF e

LEMMA TextAssociative ==
    ASSUME NEW s \in Text, NEW t \in Text, NEW u \in Text
    PROVE  (s \o t) \o u = s \o (t \o u) /\ s \o t \in Text
<1>1. s \in Seq(Cells) /\ t \in Seq(Cells) /\ u \in Seq(Cells)
  BY DEF Text
<1>2. (s \o t) \o u = s \o (t \o u)
  BY <1>1, ConcatAssociative
<1>3. s \o t \in Seq(Cells)
  BY <1>1, ConcatProperties
<1> QED
  BY <1>2, <1>3 DEF Text

(* The next character of a string.                                         *)
LEMMA TypedRight ==
    ASSUME NEW string, string # <<>>, NEW p, NEW c, Begins(string, p, c),
           NEW file, file # <<>> => string = p,
           NEW q, NEW ls, Ahead(file, q, ls, c)
    PROVE  Right(Typed(string, file), c, Keys[p] \o AllKeys(ls))
<1> DEFINE e == Typed(string, file)
           k == Keys[Tail(p)] \o AllKeys(ls)
<1>1. e.type = "char" /\ e.arg = Head(string) /\ e.unread = file /\ e.pending = Tail(string)
  BY DEF Typed, Event
<1> HIDE DEF e
<1>2. /\ string \in Seq(Cells) /\ p \in Seq(Cells) /\ p \in Text
      /\ Len(string) <= Len(p) /\ \A i \in 1 .. Len(string) : string[i] = p[i]
      /\ ~c => string = p
  BY DEF Begins, Text
<1>3. Len(string) \in Nat \ {0} /\ Len(p) \in Nat
  BY <1>2, EmptySeq, LenProperties
<1>4. p # <<>>
  BY <1>2, <1>3, EmptySeq
<1>5. /\ Head(string) = string[1] /\ Tail(string) \in Seq(Cells)
      /\ Len(Tail(string)) = Len(string) - 1
      /\ \A i \in 1 .. (Len(string) - 1) : Tail(string)[i] = string[i + 1]
  BY <1>2, HeadAndTail
<1>6. /\ Tail(p) \in Seq(Cells) /\ Len(Tail(p)) = Len(p) - 1
      /\ \A i \in 1 .. (Len(p) - 1) : Tail(p)[i] = p[i + 1]
  BY <1>2, <1>4, HeadAndTail
<1>7. Begins(Tail(string), Tail(p), c) /\ (file # <<>> => Tail(string) = Tail(p))
  <2>1. Len(Tail(string)) <= Len(Tail(p))
    BY <1>2, <1>3, <1>5, <1>6
  <2>2. \A i \in 1 .. Len(Tail(string)) : Tail(string)[i] = Tail(p)[i]
    <3> TAKE i \in 1 .. Len(Tail(string))
    <3>1. i \in 1 .. (Len(string) - 1) /\ i \in 1 .. (Len(p) - 1) /\ i + 1 \in 1 .. Len(string)
      BY <1>2, <1>3, <1>5
    <3> QED
      BY <1>2, <1>5, <1>6, <3>1
  <2>3. ~c => Tail(string) = Tail(p)
    BY <1>2
  <2> QED
    BY <1>5, <1>6, <2>1, <2>2, <2>3 DEF Begins, Text
<1>8. p[1] = Head(string)
  <2>1. 1 \in 1 .. Len(string)
    BY <1>3
  <2> QED
    BY <1>2, <1>5, <2>1
<1>9. Keys[p] = Typing(Head(string)) \o Keys[Tail(p)]
  BY <1>2, <1>4, <1>8, KeysIs
<1>10. Typing(Head(string)) \in Text /\ Keys[Tail(p)] \in Text /\ AllKeys(ls) \in Text
  <2>1. Head(string) \in Cells
    BY <1>2, HeadTailProperties
  <2>2. <<Head(string)>> \in Seq(Cells) /\ <<>> \in Seq(Cells)
    BY <2>1, EmptySeq
  <2>3. Tail(p) \in Text
    BY <1>6 DEF Text
  <2>4. ls \in Seq(Text)
    BY DEF Ahead
  <2>5. Typing(Head(string)) \in Text
    BY <2>2 DEF Typing, Text
  <2> QED
    BY <2>3, <2>4, <2>5, KeysIs, AllKeysIs
<1>11. Keys[p] \o AllKeys(ls) = Typing(Head(string)) \o k /\ k \in Text
  <2> DEFINE x == Typing(Head(string))
             z == Keys[Tail(p)]
             w == AllKeys(ls)
  <2>1. x \in Text /\ z \in Text /\ w \in Text
    BY <1>10
  <2>2. Keys[p] = x \o z
    BY <1>9
  <2> HIDE DEF x, z, w
  <2>3. (x \o z) \o w = x \o (z \o w) /\ z \o w \in Text
    BY <2>1, TextAssociative
  <2>4. Keys[p] \o w = x \o (z \o w)
    BY <2>2, <2>3
  <2> QED
    BY <2>3, <2>4 DEF x, z, w
<1>12. Left(Tail(string), file, c, k)
  BY <1>7 DEF Left
<1>13. Types(e) = Typing(Head(string))
  BY <1>1 DEF Types
<1> HIDE DEF k
<1>14. Right(e, c, Keys[p] \o AllKeys(ls))
  BY <1>1, <1>11, <1>12, <1>13 DEF Right
<1> QED
  BY <1>14 DEF e

LEMMA DropAll ==
    ASSUME NEW s \in Text, NEW n \in Nat, n >= Len(s)
    PROVE  Drop(s, n) = <<>>
<1>1. s \in Seq(Cells)
  BY DEF Text
<1>2. Len(s) \in Nat /\ Drop(s, n) \in Seq(Cells)
      /\ Len(Drop(s, n)) = IF n <= Len(s) THEN Len(s) - n ELSE 0
  BY <1>1, DropIs
<1>3. Len(Drop(s, n)) = 0
  BY <1>2
<1> QED
  BY <1>2, <1>3, EmptySeq

(* What is read stops behind n cells only.                                 *)
LEMMA StopsOnce ==
    ASSUME NEW set, NEW s \in Text, NEW m, NEW n, StopsAt(set, s, m), StopsAt(set, s, n)
    PROVE  m = n
<1>1. Len(s) \in Nat
  BY LenProperties DEF Text
<1>2. m \in 0 .. Len(s) /\ n \in 0 .. Len(s)
  BY DEF StopsAt
<1>3. ~(m < n)
  <2> SUFFICES ASSUME m < n PROVE FALSE
    OBVIOUS
  <2>1. m < Len(s) /\ m + 1 \in 1 .. n
    BY <1>1, <1>2
  <2> QED
    BY <2>1 DEF StopsAt
<1>4. ~(n < m)
  <2> SUFFICES ASSUME n < m PROVE FALSE
    OBVIOUS
  <2>1. n < Len(s) /\ n + 1 \in 1 .. m
    BY <1>1, <1>2
  <2> QED
    BY <2>1 DEF StopsAt
<1> QED
  BY <1>1, <1>2, <1>3, <1>4

(* Skip leaves what does not begin with what it skips.                     *)
LEMMA SkipsNothing ==
    ASSUME NEW set \in SUBSET Cells, NEW s \in Text, s # <<>> => s[1] \notin set
    PROVE  Skip(set, s) = s
<1>1. PICK n : Skip(set, s) = Drop(s, n) /\ StopsAt(Cells \ set, s, n)
  BY SkipIs
<1>2. s \in Seq(Cells) /\ Len(s) \in Nat
  BY LenProperties DEF Text
<1>3. StopsAt(Cells \ set, s, 0)
  <2>1. 0 < Len(s) => s # <<>> /\ 1 \in 1 .. Len(s)
    BY <1>2, EmptySeq
  <2>2. 0 < Len(s) => s[0 + 1] \in Cells \ set
    BY <1>2, <2>1, ElementOfSeq
  <2> QED
    BY <1>2, <2>2 DEF StopsAt
<1>4. n = 0
  BY <1>1, <1>3, StopsOnce
<1> QED
  BY <1>1, <1>4, DropNothing

LEMMA WordIs ==
    ASSUME NEW v \in Text, v # <<>>, v[1] \notin Spaces
    PROVE  /\ Word[v] \in Text /\ Word[v][1] = v[1]
           /\ Len(Word[v]) \in 1 .. Len(v)
           /\ \A i \in 1 .. Len(Word[v]) : v[i] \notin Spaces
           /\ Word[v] = <<v[1]>> \/ Len(Word[v]) > 1
           /\ AfterWord[v] = Drop(v, Len(Word[v]) + 1)
<1> DEFINE t == Until(Spaces, v)
           w == Take(t, WordCap)
<1>1. v \in Seq(Cells) /\ Len(v) \in Nat \ {0}
  BY EmptySeq DEF Text
<1>2. t \in Seq(Cells) /\ StopsAt(Spaces, v, Len(t)) /\ \A i \in 1 .. Len(t) : t[i] = v[i]
  <2>1. Spaces \in SUBSET Cells
    BY DEF Spaces, Cells
  <2> QED
    BY <2>1, UntilIs DEF Text
<1>3. Word[v] = w
  BY DEF Word
<1> HIDE DEF t
<1>4. WordCap \in Nat \ {0}
  BY MacroAssumption
<1>5. /\ w \in Seq(Cells) /\ Len(w) = IF WordCap <= Len(t) THEN WordCap ELSE Len(t)
      /\ \A i \in 1 .. Len(w) : w[i] = t[i]
  BY <1>2, <1>4, TakeIs
<1> HIDE DEF w
<1>6. Len(t) \in 0 .. Len(v) /\ (\A i \in 1 .. Len(t) : v[i] \notin Spaces)
      /\ (Len(t) < Len(v) => v[Len(t) + 1] \in Spaces)
  BY <1>2 DEF StopsAt
<1>7. Len(t) # 0
  BY <1>1, <1>6
<1>8. Len(w) \in 1 .. Len(t) /\ Len(w) \in 1 .. Len(v)
  BY <1>1, <1>4, <1>5, <1>6, <1>7
<1>9. \A i \in 1 .. Len(w) : i \in 1 .. Len(t) /\ w[i] = v[i] /\ v[i] \notin Spaces
  BY <1>2, <1>5, <1>6, <1>8
<1>10. 1 \in 1 .. Len(w)
  BY <1>8
<1>11. w = <<v[1]>> \/ Len(w) > 1
  <2>1. ASSUME Len(w) = 1 PROVE w = <<v[1]>>
    <3>1. w # <<>>
      BY <2>1, EmptySeq
    <3>2. w = <<w[1]>> \o Tail(w) /\ Tail(w) \in Seq(Cells) /\ Len(Tail(w)) = 0 /\ w[1] \in Cells
      <4>1. w \in Seq(Cells)
        BY <1>5
      <4>2. /\ w[1] \in Cells /\ Tail(w) \in Seq(Cells) /\ w = <<w[1]>> \o Tail(w)
            /\ Len(Tail(w)) = Len(w) - 1
        BY <3>1, <4>1, HeadAndTail
      <4> QED
        BY <2>1, <4>2
    <3>3. Tail(w) = <<>>
      BY <3>2, EmptySeq
    <3>4. <<w[1]>> \o <<>> = <<w[1]>>
      BY <3>2, ConcatEmptySeq
    <3> QED
      BY <1>9, <1>10, <3>2, <3>3, <3>4
  <2>2. Len(w) = 1 \/ Len(w) > 1
    <3>1. \A m, n \in Nat : m \in 1 .. n => m = 1 \/ m > 1
      OBVIOUS
    <3>2. Len(w) \in 1 .. Len(v) /\ Len(v) \in Nat
      BY <1>1, <1>8
    <3>3. Len(w) \in Nat
      BY <3>2
    <3> QED
      BY <3>1, <3>2, <3>3, Zenon
  <2> QED
    BY <2>1, <2>2
<1>12. AfterWord[v] = Drop(v, Len(w) + 1)
  BY <1>3 DEF AfterWord
<1> QED
  BY <1>3, <1>5, <1>8, <1>9, <1>10, <1>11, <1>12 DEF Text

(* A word that is no command: it is dropped, and the cell behind it.       *)
LEMMA OtherWord ==
    ASSUME NEW v, NEW q, NEW lines, NEW c, Ahead(v, q, lines, c),
           v # <<>>, v[1] \notin Spaces, v[1] \notin Commands
    PROVE  Right(Command[v], c, AllKeys(lines))
<1> DEFINE w == Len(Word[v])
<1>1. v \in Text /\ v \in Seq(Cells) /\ Len(v) \in Nat
  BY AheadType
<1>2. /\ Word[v][1] = v[1] /\ w \in 1 .. Len(v)
      /\ \A i \in 1 .. w : v[i] \notin Spaces
      /\ AfterWord[v] = Drop(v, w + 1)
  BY <1>1, WordIs
<1>3. Command[v] = Event("none", "", Drop(v, w + 1), <<>>)
  <2>1. Word[v] # <<"STRING">> /\ Word[v] # <<"DELAY">> /\ Word[v] # <<"ENTER">>
    BY <1>2 DEF Commands
  <2> HIDE DEF w
  <2> QED
    BY <1>1, <1>2, <2>1 DEF Command
<1>4. PICK r, ls : /\ Ahead(v, r, ls, c) /\ r # <<>>
                   /\ AllKeys(ls) = AllKeys(lines)
  BY QuietAhead
<1> HIDE DEF w
<1>5. r \in Seq(Cells) /\ r \in Text /\ Len(r) \in Nat \ {0}
  BY <1>4, AheadType, EmptySeq DEF Text
<1>6. \E k \in 0 .. Len(r) : Drop(v, w + 1) = Drop(v, k)
  <2>1. CASE w + 1 <= Len(r)
    <3>1. w + 1 \in 0 .. Len(r)
      BY <1>1, <1>2, <1>5, <2>1
    <3> QED
      BY <3>1
  <2>2. CASE ~(w + 1 <= Len(r))
    <3>1. Len(r) <= w /\ Len(r) \in 1 .. w /\ Len(r) \in 1 .. Len(v)
      BY <1>1, <1>2, <1>5, <2>2
    <3>2. \A i \in 1 .. Len(v) : i <= Len(r) => v[i] = r[i]
      <4>1. FlattenSeq(ls) \in Text /\ Begins(v, r \o FlattenSeq(ls), c)
        BY <1>4, LinesType DEF Ahead
      <4> QED
        BY <1>5, <4>1, ReadsFirst
    <3>3. v[Len(r)] = r[Len(r)]
      BY <1>5, <3>1, <3>2
    <3>4. r[Len(r)] # "\n"
      BY <1>2, <3>1, <3>3 DEF Spaces
    <3>5. ls = <<>>
      BY <1>4, <3>4 DEF Ahead
    <3>6. Len(v) <= Len(r)
      <4>1. FlattenSeq(ls) = <<>> /\ r \o <<>> = r
        BY <1>5, <3>5, EmptySeq, ConcatEmptySeq DEF FlattenSeq
      <4>2. Begins(v, r \o FlattenSeq(ls), c)
        BY <1>4 DEF Ahead
      <4>3. Begins(v, r, c)
        BY <4>1, <4>2
      <4> QED
        BY <4>3 DEF Begins
    <3>7. w + 1 \in Nat /\ w + 1 >= Len(v) /\ Len(r) \in Nat /\ Len(r) >= Len(v)
      BY <1>1, <1>2, <1>5, <3>1, <3>6
    <3>8. Drop(v, w + 1) = <<>> /\ Drop(v, Len(r)) = <<>>
      BY <1>1, <3>7, DropAll
    <3>9. Len(r) \in 0 .. Len(r)
      BY <1>5
    <3> QED
      BY <3>8, <3>9
  <2> QED
    BY <2>1, <2>2
<1>7. PICK k \in 0 .. Len(r) : Drop(v, w + 1) = Drop(v, k)
  BY <1>6
<1>8. Ahead(Drop(v, k), Drop(r, k), ls, c)
  BY <1>4, <1>7, DropQuiet
<1> QED
  BY <1>3, <1>4, <1>7, <1>8, SilentRight

(* What is read of the first line l.                                       *)
ReadsLine(v, l, c) ==
    /\ v \in Text /\ l \in Text
    /\ Len(v) \in Nat \ {0} /\ Len(l) \in Nat \ {0}
    /\ \A i \in 1 .. Len(v) : i <= Len(l) => v[i] = l[i]
    /\ l[Len(l)] # "\n" => Len(v) <= Len(l)
    /\ ~c => Len(l) <= Len(v)

LEMMA LineRead ==
    ASSUME NEW v, v # <<>>, NEW lines, NEW l, NEW others, NEW c,
           StartsWith(v, lines, l, others, c)
    PROVE  ReadsLine(v, l, c)
<1> DEFINE f == FlattenSeq(others)
<1>1. /\ l \in Text /\ l # <<>> /\ others \in Seq(Text)
      /\ others # <<>> => l[Len(l)] = "\n"
      /\ Begins(v, l \o f, c)
  BY DEF StartsWith, IsLine
<1>2. f \in Text
  BY <1>1, LinesType
<1>3. v \in Text /\ l \in Seq(Cells) /\ f \in Seq(Cells) /\ v \in Seq(Cells)
  BY <1>1, <1>2 DEF Begins, Text
<1>4. Len(v) \in Nat \ {0} /\ Len(l) \in Nat \ {0} /\ Len(f) \in Nat
  BY <1>1, <1>3, EmptySeq, LenProperties
<1>5. others = <<>> => f = <<>>
  BY EmptySeq DEF FlattenSeq
<1> HIDE DEF f
<1>6. \A i \in 1 .. Len(v) : i <= Len(l) => v[i] = l[i]
  BY <1>1, <1>2, ReadsFirst
<1>7. Len(l \o f) = Len(l) + Len(f)
  BY <1>3, ConcatProperties
<1>8. Len(v) <= Len(l) + Len(f) /\ (~c => Len(v) = Len(l) + Len(f))
  BY <1>1, <1>7 DEF Begins
<1>9. l[Len(l)] # "\n" => Len(v) <= Len(l)
  <2>1. l[Len(l)] # "\n" => Len(f) = 0
    BY <1>1, <1>5, EmptySeq
  <2> QED
    BY <1>4, <1>8, <2>1
<1>10. ~c => Len(l) <= Len(v)
  BY <1>4, <1>8
<1> QED
  BY <1>1, <1>3, <1>4, <1>6, <1>9, <1>10 DEF ReadsLine

(* A command is a word of its own.                                         *)
LEMMA CommandWord ==
    ASSUME NEW v, NEW l, NEW c, ReadsLine(v, l, c), IsLine(l), l[1] \in Commands
    PROVE  v[1] = l[1] /\ Word[v] = <<l[1]>> /\ AfterWord[v] = Drop(v, 2)
<1>1. /\ v \in Text /\ Len(v) \in Nat \ {0} /\ Len(l) \in Nat \ {0}
      /\ \A i \in 1 .. Len(v) : i <= Len(l) => v[i] = l[i]
      /\ l[Len(l)] # "\n" => Len(v) <= Len(l)
  BY DEF ReadsLine
<1>2. v[1] = l[1] /\ v[1] \notin Spaces
  <2>1. 1 \in 1 .. Len(v) /\ 1 <= Len(l)
    BY <1>1
  <2>2. v[1] = l[1]
    BY <1>1, <2>1
  <2> QED
    BY <2>2 DEF Commands, Spaces
<1>3. Len(l) >= 2 => l[2] \in Spaces
  <2>1. l[1] = "ENTER" /\ Len(l) >= 2 => l[2] = "\n"
    <3>1. Len(l) >= 2 => ~(Len(l) = 1)
      BY <1>1
    <3>2. ASSUME l[1] = "ENTER", Len(l) >= 2 PROVE l = <<"ENTER", "\n">>
      <4>1. 1 \in 1 .. Len(l) /\ l[1] \in Commands
        BY <1>1
      <4> QED
        BY <3>1, <3>2, <4>1 DEF IsLine
    <3> QED
      BY <3>2
  <2>2. 1 \in 1 .. Len(l)
    BY <1>1
  <2> QED
    BY <2>1, <2>2 DEF IsLine, Spaces
<1>4. Len(v) >= 2 => v[2] \in Spaces
  <2> SUFFICES ASSUME Len(v) >= 2 PROVE v[2] \in Spaces
    OBVIOUS
  <2>1. Len(l) >= 2
    <3> SUFFICES ASSUME Len(l) < 2 PROVE FALSE
      BY <1>1
    <3>1. Len(l) = 1
      <4>1. Len(l) \in Nat /\ Len(l) # 0
        BY <1>1
      <4>2. \A n \in Nat : n # 0 /\ n < 2 => n = 1
        OBVIOUS
      <4> QED
        BY <4>1, <4>2, Zenon
    <3>2. l[Len(l)] # "\n"
      BY <3>1 DEF Commands
    <3> QED
      BY <1>1, <3>1, <3>2
  <2>2. 2 \in 1 .. Len(v) /\ 2 <= Len(l)
    BY <1>1, <2>1
  <2> QED
    BY <1>1, <1>3, <2>1, <2>2
<1>5. v # <<>>
  BY <1>1, EmptySeq
<1>6. /\ Len(Word[v]) \in 1 .. Len(v)
      /\ \A i \in 1 .. Len(Word[v]) : v[i] \notin Spaces
      /\ Word[v] = <<v[1]>> \/ Len(Word[v]) > 1
      /\ AfterWord[v] = Drop(v, Len(Word[v]) + 1)
  BY <1>1, <1>2, <1>5, WordIs
<1>7. ~(Len(Word[v]) > 1)
  <2> SUFFICES ASSUME Len(Word[v]) > 1 PROVE FALSE
    OBVIOUS
  <2>1. 2 \in 1 .. Len(Word[v]) /\ Len(v) >= 2
    BY <1>1, <1>6
  <2> QED
    BY <1>4, <1>6, <2>1
<1>8. Word[v] = <<v[1]>> /\ Len(Word[v]) = 1
  BY <1>6, <1>7
<1> QED
  BY <1>2, <1>6, <1>8

(* ENTER types a newline.                                                  *)
LEMMA EnterRight ==
    ASSUME NEW v, v # <<>>, NEW lines, NEW l, NEW others, NEW c,
           StartsWith(v, lines, l, others, c), l[1] = "ENTER"
    PROVE  Right(Command[v], c, AllKeys(lines))
<1>1. ReadsLine(v, l, c) /\ IsLine(l)
  BY LineRead DEF StartsWith
<1>2. Word[v] = <<"ENTER">> /\ AfterWord[v] = Drop(v, 2)
  BY <1>1, CommandWord DEF Commands
<1>3. v \in Text /\ Len(v) \in Nat \ {0} /\ Len(l) \in Nat \ {0}
      /\ (l[Len(l)] # "\n" => Len(v) <= Len(l))
  BY <1>1 DEF ReadsLine
<1>4. Len(l) = 1 \/ l = <<"ENTER", "\n">>
  <2>1. 1 \in 1 .. Len(l)
    BY <1>3
  <2> QED
    BY <1>1, <2>1 DEF IsLine, Commands
<1>5. Drop(v, 2) = Drop(v, Len(l))
  <2>1. CASE Len(l) = 1
    <3>1. Len(v) <= 1
      BY <1>3, <2>1
    <3>2. Drop(v, 1) = <<>> /\ Drop(v, 2) = <<>>
      BY <1>3, <3>1, DropAll
    <3> QED
      BY <2>1, <3>2
  <2>2. CASE l = <<"ENTER", "\n">>
    BY <2>2
  <2> QED
    BY <1>4, <2>1, <2>2
<1> DEFINE e == Event("char", "\n", Drop(v, Len(l)), <<>>)
<1>6. Command[v] = e
  <2>1. v # <<>>
    OBVIOUS
  <2>2. Word[v] # <<"STRING">> /\ Word[v] # <<"DELAY">>
    BY <1>2
  <2>3. Command[v] = Event("char", "\n", AfterWord[v], <<>>)
    BY <1>2, <1>3, <2>1, <2>2 DEF Command
  <2> QED
    BY <1>2, <1>5, <2>3
<1>7. e.type = "char" /\ e.arg = "\n" /\ e.unread = Drop(v, Len(l)) /\ e.pending = <<>>
  BY EventIs
<1>8. Types(e) = <<"\n">>
  BY <1>7 DEF Types, Typing, HasKey, Spaces
<1> HIDE DEF e
<1>9. Ahead(Drop(v, Len(l)), <<>>, others, c)
  BY BehindLine
<1>10. others \in Seq(Text) /\ AllKeys(lines) = <<"\n">> \o AllKeys(others)
  BY DEF StartsWith, KeysOf
<1>11. AllKeys(others) \in Text /\ Keys[<<>>] = <<>> /\ <<>> \o AllKeys(others) = AllKeys(others)
  BY <1>10, AllKeysIs, KeysIs, NoText
<1>12. Begins(<<>>, <<>>, c)
  BY NoText DEF Begins
<1>13. Left(<<>>, Drop(v, Len(l)), c, AllKeys(others))
  BY <1>9, <1>11, <1>12 DEF Left
<1>14. Right(e, c, AllKeys(lines))
  BY <1>7, <1>8, <1>10, <1>11, <1>13 DEF Right
<1> QED
  BY <1>6, <1>14

(* What is behind the command and its space.                               *)
LEMMA BehindWord ==
    ASSUME NEW v \in Text
    PROVE  /\ Drop(v, 2) \in Text
           /\ Len(Drop(v, 2)) = IF 2 <= Len(v) THEN Len(v) - 2 ELSE 0
           /\ \A i \in 1 .. (Len(v) - 2) : Drop(v, 2)[i] = v[2 + i]
<1>1. v \in Seq(Cells) /\ 2 \in Nat
  BY DEF Text
<1>2. /\ Drop(v, 2) \in Seq(Cells)
      /\ Len(Drop(v, 2)) = IF 2 <= Len(v) THEN Len(v) - 2 ELSE 0
      /\ \A i \in 1 .. (Len(v) - 2) : Drop(v, 2)[i] = v[2 + i]
  BY <1>1, DropIs
<1> QED
  BY <1>2 DEF Text

LEMMA EmptyIs == ASSUME NEW s \in Text PROVE s = <<>> <=> Len(s) = 0
  BY EmptySeq DEF Text

(* A delay is read to the end of its line.                                 *)
LEMMA DelayRight ==
    ASSUME NEW v, v # <<>>, NEW lines, NEW l, NEW others, NEW c,
           StartsWith(v, lines, l, others, c), l[1] = "DELAY"
    PROVE  Right(Command[v], c, AllKeys(lines))
<1> DEFINE lv == Len(v)
           ll == Len(l)
           s == Drop(v, 2)
<1>1. ReadsLine(v, l, c) /\ IsLine(l)
  BY LineRead DEF StartsWith
<1>2. Word[v] = <<"DELAY">> /\ AfterWord[v] = s
  BY <1>1, CommandWord DEF Commands
<1>3. /\ v \in Text /\ lv \in Nat /\ ll \in Nat
      /\ \A i \in 1 .. lv : i <= ll => v[i] = l[i]
      /\ l[ll] # "\n" => lv <= ll
  BY <1>1 DEF ReadsLine
<1>4. /\ ll >= 3 /\ l[3] \in Digits
      /\ \A i \in 3 .. ll : l[i] \in Digits \cup Newline
      /\ \A i \in 1 .. (ll - 1) : l[i] # "\n"
  <2>1. ll # 0
    BY <1>1 DEF ReadsLine
  <2>2. 1 \in 1 .. ll
    BY <1>3, <2>1
  <2> QED
    BY <1>1, <2>2 DEF IsLine, Commands
<1>5. s \in Text /\ Len(s) = (IF 2 <= lv THEN lv - 2 ELSE 0)
      /\ \A i \in 1 .. (lv - 2) : s[i] = v[2 + i]
  BY <1>3, BehindWord
<1>6. Command[v] = DelayEvent[Skip(Spaces, s)]
  <2>1. v # <<>>
    OBVIOUS
  <2>2. Word[v] # <<"STRING">> /\ Word[v] # <<"ENTER">>
    BY <1>2
  <2> DEFINE x == Skip(Spaces, AfterWord[v])
             z == Skip({" "}, AfterWord[v])
  <2>3. Command[v] =
          CASE v = <<>> -> Event("eof", "", <<>>, <<>>)
            [] Word[v] = <<"STRING">> -> StringEvent[z]
            [] Word[v] = <<"DELAY">> -> DelayEvent[x]
            [] Word[v] = <<"ENTER">> -> Event("char", "\n", AfterWord[v], <<>>)
            [] OTHER -> Event("none", "", AfterWord[v], <<>>)
    BY <1>3 DEF Command
  <2> HIDE DEF x, z
  <2>4. Command[v] = DelayEvent[x]
    BY <1>2, <2>1, <2>2, <2>3
  <2> QED
    BY <1>2, <2>4 DEF x
<1>7. Ahead(Drop(v, ll), <<>>, others, c)
  BY BehindLine
<1>8. AllKeys(lines) = AllKeys(others)
  <2>1. others \in Seq(Text) /\ AllKeys(lines) = <<>> \o AllKeys(others)
    BY DEF StartsWith, KeysOf
  <2>2. AllKeys(others) \in Text
    BY <2>1, AllKeysIs
  <2> QED
    BY <2>1, <2>2, NoText
<1> HIDE DEF s, lv, ll
<1>9. s # <<>> => lv >= 3
  BY <1>3, <1>5, EmptyIs
<1>10. Skip(Spaces, s) = s
  <2>1. s # <<>> => s[1] \notin Spaces
    <3>1. lv >= 3 => 3 \in 1 .. lv /\ 1 \in 1 .. (lv - 2) /\ 2 + 1 = 3
      BY <1>3
    <3>2. lv >= 3 => s[1] = l[3]
      BY <1>3, <1>4, <1>5, <3>1
    <3> QED
      BY <1>4, <1>9, <3>2 DEF Digits, Spaces
  <2>2. Spaces \in SUBSET Cells
    BY DEF Spaces, Cells
  <2> QED
    BY <1>5, <2>1, <2>2, SkipsNothing
<1>11. CASE s = <<>>
  <2>1. Command[v] = Event("delay", "", <<>>, <<>>)
    BY <1>5, <1>6, <1>10, <1>11 DEF DelayEvent
  <2>2. lv <= ll
    BY <1>3, <1>4, <1>5, <1>11, EmptyIs
  <2>3. Drop(v, ll) = <<>>
    BY <1>3, <2>2, DropAll DEF lv
  <2> QED
    BY <1>7, <1>8, <2>1, <2>3, SilentRight
<1>12. CASE s # <<>>
  <2> DEFINE t == Drop(v, 3)
  <2>1. t \in Text /\ Len(t) = lv - 3 /\ \A i \in 1 .. (lv - 3) : t[i] = v[3 + i]
    <3>1. v \in Seq(Cells) /\ lv >= 3
      BY <1>3, <1>9, <1>12 DEF Text
    <3> QED
      BY <1>3, <3>1, DropIs DEF Text, lv
  <2>2. Tail(s) = t
    <3>1. Tail(s) = Drop(s, 1)
      <4>1. s \in Seq(Cells)
        BY <1>5 DEF Text
      <4>2. Tail(s) = SubSeq(s, 2, Len(s))
        BY <1>12, <4>1, TailIsSubSeq
      <4> QED
        BY <4>2 DEF Drop
    <3>2. Drop(Drop(v, 2), 1) = Drop(v, 2 + 1)
      BY <1>3, DropDrop
    <3> QED
      BY <3>1, <3>2 DEF s
  <2>3. PICK n : Skip(Digits, t) = Drop(t, n) /\ StopsAt(Cells \ Digits, t, n)
    <3>1. Digits \in SUBSET Cells
      BY DEF Digits, Cells
    <3> QED
      BY <2>1, <3>1, SkipIs
  <2>4. /\ n \in 0 .. (lv - 3)
        /\ \A i \in 1 .. n : t[i] \notin Cells \ Digits
        /\ n < lv - 3 => t[n + 1] \in Cells \ Digits
    BY <2>1, <2>3 DEF StopsAt
  <2>5. Drop(Skip(Digits, Tail(s)), 1) = Drop(v, n + 4)
    <3>1. n \in Nat /\ 3 + n \in Nat /\ 3 + n + 1 = n + 4 /\ 1 \in Nat
      BY <2>4
    <3>2. Drop(Drop(v, 3), n) = Drop(v, 3 + n)
      BY <1>3, <3>1, DropDrop
    <3>3. Drop(Drop(v, 3 + n), 1) = Drop(v, 3 + n + 1)
      BY <1>3, <3>1, DropDrop
    <3> QED
      BY <2>2, <2>3, <3>1, <3>2, <3>3
  <2> HIDE DEF t
  <2>6. n + 4 < ll => lv <= n + 4
    <3> SUFFICES ASSUME n + 4 < ll, lv > n + 4 PROVE FALSE
      BY <1>3, <2>4
    <3>1. /\ n < lv - 3 /\ n + 1 \in 1 .. (lv - 3) /\ 3 + (n + 1) = n + 4
          /\ n + 4 \in 1 .. lv /\ n + 4 <= ll /\ n + 4 \in 3 .. ll /\ n + 4 \in 1 .. (ll - 1)
      BY <1>3, <2>4
    <3>2. t[n + 1] = l[n + 4] /\ t[n + 1] \notin Digits
      BY <1>3, <2>1, <2>4, <3>1
    <3>3. l[n + 4] \in Digits
      BY <1>4, <3>1 DEF Newline
    <3> QED
      BY <3>2, <3>3
  <2>7. ll < n + 4 => lv <= ll
    <3> SUFFICES ASSUME ll < n + 4, lv > ll PROVE FALSE
      BY <1>3, <2>4
    <3>1. l[ll] = "\n"
      BY <1>3
    <3>2. ll # 3
      BY <1>4, <3>1 DEF Digits
    <3>3. ll - 3 \in 1 .. n /\ ll - 3 \in 1 .. (lv - 3) /\ 3 + (ll - 3) = ll
          /\ ll \in 1 .. lv
      BY <1>3, <1>4, <2>4, <3>2
    <3>4. t[ll - 3] = "\n"
      BY <1>3, <2>1, <3>1, <3>3
    <3>5. "\n" \in Cells \ Digits
      BY DEF Cells, Spaces, Digits
    <3> QED
      BY <2>4, <3>3, <3>4, <3>5
  <2>8. Drop(v, n + 4) = Drop(v, ll)
    <3>1. CASE n + 4 = ll
      BY <3>1
    <3>2. CASE n + 4 # ll
      <4>1. n + 4 \in Nat /\ n + 4 >= lv /\ ll >= lv
        BY <1>3, <2>4, <2>6, <2>7, <3>2
      <4>2. Drop(v, n + 4) = <<>> /\ Drop(v, ll) = <<>>
        BY <1>3, <4>1, DropAll DEF lv
      <4> QED
        BY <4>2
    <3> QED
      BY <3>1, <3>2
  <2>9. Command[v] = Event("delay", Head(s), Drop(v, ll), <<>>)
    BY <1>5, <1>6, <1>10, <1>12, <2>5, <2>8 DEF DelayEvent
  <2> QED
    BY <1>7, <1>8, <2>9, SilentRight
<1> QED
  BY <1>11, <1>12

(* The string that is read of a line is the line's, as far as what is      *)
(* read goes; if it is not all of it, nothing is left in the file.         *)
LEMMA StringRead ==
    ASSUME NEW v, NEW l, NEW c, ReadsLine(v, l, c), IsLine(l), l[1] = "STRING",
           NEW line, line = Until(Newline, Drop(v, 2)),
           NEW all, all = Until(Newline, Drop(l, 2))
    PROVE  /\ Begins(line, all, c)
           /\ Drop(v, Len(line) + 3) = Drop(v, Len(l))
           /\ Drop(v, Len(l)) # <<>> => line = all
<1> DEFINE lv == Len(v)
           ll == Len(l)
           s == Drop(v, 2)
           d == Drop(l, 2)
           n == Len(line)
           m == Len(all)
<1>1. /\ v \in Text /\ l \in Text /\ lv \in Nat /\ ll \in Nat
      /\ \A i \in 1 .. lv : i <= ll => v[i] = l[i]
      /\ l[ll] # "\n" => lv <= ll
      /\ ~c => ll <= lv
  BY DEF ReadsLine
<1>2. /\ ll >= 2 /\ l[2] = " "
      /\ \A i \in 1 .. (ll - 1) : l[i] # "\n"
  <2>1. ll # 0
    BY DEF ReadsLine
  <2>2. 1 \in 1 .. ll
    BY <1>1, <2>1
  <2> QED
    BY <2>2 DEF IsLine, Commands
<1>3. /\ s \in Text /\ Len(s) = (IF 2 <= lv THEN lv - 2 ELSE 0)
      /\ \A i \in 1 .. (lv - 2) : s[i] = v[2 + i]
  BY <1>1, BehindWord
<1>4. /\ d \in Text /\ Len(d) = ll - 2
      /\ \A i \in 1 .. (ll - 2) : d[i] = l[2 + i]
  BY <1>1, <1>2, BehindWord
<1> HIDE DEF s, d
<1>5. Newline \in SUBSET Cells
  BY DEF Newline, Cells, Spaces
<1>6. /\ line \in Text /\ n \in 0 .. Len(s)
      /\ \A i \in 1 .. n : s[i] # "\n" /\ line[i] = s[i]
      /\ n < Len(s) => s[n + 1] = "\n"
  <2>1. /\ Until(Newline, s) \in Text /\ StopsAt(Newline, s, Len(Until(Newline, s)))
        /\ \A i \in 1 .. Len(Until(Newline, s)) : Until(Newline, s)[i] = s[i]
    BY <1>3, <1>5, UntilIs
  <2>2. line = Until(Newline, s)
    BY DEF s
  <2>3. line \in Text /\ StopsAt(Newline, s, n) /\ \A i \in 1 .. n : line[i] = s[i]
    BY <2>1, <2>2
  <2> QED
    BY <2>3 DEF StopsAt, Newline
<1>7. /\ all \in Text /\ m \in 0 .. (ll - 2)
      /\ \A i \in 1 .. m : d[i] # "\n" /\ all[i] = d[i]
      /\ m < ll - 2 => d[m + 1] = "\n"
  <2>1. /\ Until(Newline, d) \in Text /\ StopsAt(Newline, d, Len(Until(Newline, d)))
        /\ \A i \in 1 .. Len(Until(Newline, d)) : Until(Newline, d)[i] = d[i]
    BY <1>4, <1>5, UntilIs
  <2>2. all = Until(Newline, d)
    BY DEF d
  <2>3. all \in Text /\ StopsAt(Newline, d, m) /\ \A i \in 1 .. m : all[i] = d[i]
    BY <2>1, <2>2
  <2> QED
    BY <1>4, <2>3 DEF StopsAt, Newline
<1> HIDE DEF lv, ll, n, m
<1>8. n \in Nat /\ m \in Nat /\ Len(s) \in Nat
  BY <1>1, <1>3, <1>6, <1>7
<1>9. \A i \in 1 .. (lv - 2) : i <= ll - 2 => s[i] = d[i]
  <2> SUFFICES ASSUME NEW i \in 1 .. (lv - 2), i <= ll - 2 PROVE s[i] = d[i]
    OBVIOUS
  <2>1. i \in 1 .. (ll - 2) /\ 2 + i \in 1 .. lv /\ 2 + i <= ll
    BY <1>1
  <2> QED
    BY <1>1, <1>3, <1>4, <2>1
<1>10. lv > ll => ll - 2 \in 1 .. (lv - 2) /\ s[ll - 2] = "\n"
  <2> SUFFICES ASSUME lv > ll PROVE ll - 2 \in 1 .. (lv - 2) /\ s[ll - 2] = "\n"
    OBVIOUS
  <2>1. l[ll] = "\n"
    <3>1. ~(lv <= ll)
      BY <1>1
    <3> QED
      BY <1>1, <3>1
  <2>2. ll # 2
    BY <1>2, <2>1
  <2>3. ll \in Nat /\ lv \in Nat /\ ll >= 2
    BY <1>1, <1>2
  <2>4. ll - 2 \in 1 .. (lv - 2) /\ ll \in 1 .. lv /\ 2 + (ll - 2) = ll /\ ll <= ll
    BY <2>2, <2>3
  <2>5. v[ll] = "\n"
    BY <1>1, <2>1, <2>4
  <2> QED
    BY <1>3, <2>4, <2>5
<1>11. n <= m
  <2> SUFFICES ASSUME m < n PROVE FALSE
    BY <1>8
  <2>1. lv >= 2 /\ m + 1 \in 1 .. n /\ m + 1 \in 1 .. (lv - 2) /\ n <= lv - 2
    BY <1>1, <1>3, <1>6, <1>8
  <2>2. CASE m < ll - 2
    <3>1. s[m + 1] = d[m + 1]
      BY <1>1, <1>8, <1>9, <2>1, <2>2
    <3> QED
      BY <1>6, <1>7, <2>1, <2>2, <3>1
  <2>3. CASE ~(m < ll - 2)
    <3>1. m = ll - 2 /\ lv > ll
      <4>1. m \in 0 .. (ll - 2) /\ m < n /\ n <= lv - 2
            /\ {m, n, ll, lv} \subseteq Nat /\ ~(m < ll - 2)
        BY <1>1, <1>7, <1>8, <2>1, <2>3
      <4> QED
        BY <4>1
    <3>2. ll - 2 \in 1 .. n
      BY <1>1, <1>8, <1>10, <2>1, <3>1
    <3> QED
      BY <1>6, <1>10, <3>1, <3>2
  <2> QED
    BY <2>2, <2>3
<1>12. n < m => lv <= n + 2 /\ lv < ll
  <2> SUFFICES ASSUME n < m PROVE lv <= n + 2 /\ lv < ll
    OBVIOUS
  <2>1. ~(n < Len(s))
    <3> SUFFICES ASSUME n < Len(s) PROVE FALSE
      OBVIOUS
    <3>1. /\ n + 1 \in 1 .. (lv - 2) /\ n + 1 <= ll - 2 /\ n + 1 \in 1 .. m
      BY <1>1, <1>3, <1>7, <1>8
    <3>2. s[n + 1] = d[n + 1]
      BY <1>9, <3>1
    <3> QED
      BY <1>6, <1>7, <3>1, <3>2
  <2> QED
    BY <1>1, <1>3, <1>7, <1>8, <2>1
<1>13. Len(line) = n /\ Len(all) = m
  BY DEF n, m
<1>14. n = m => line = all
  <2> SUFFICES ASSUME n = m PROVE line = all
    OBVIOUS
  <2>1. \A i \in 1 .. Len(line) : line[i] = all[i]
    <3> TAKE i \in 1 .. Len(line)
    <3>1. i \in 1 .. n /\ i \in 1 .. m /\ i \in 1 .. (lv - 2) /\ i <= ll - 2
      BY <1>1, <1>3, <1>6, <1>7, <1>8, <1>13
    <3> QED
      BY <1>6, <1>7, <1>9, <3>1
  <2>2. line \in Seq(Cells) /\ all \in Seq(Cells)
    BY <1>6, <1>7 DEF Text
  <2> QED
    BY <1>13, <2>1, <2>2, SeqEqual
<1>15. \A i \in 1 .. n : line[i] = all[i]
  <2> TAKE i \in 1 .. n
  <2>1. i \in 1 .. n /\ i \in 1 .. m /\ i \in 1 .. (lv - 2) /\ i <= ll - 2
    BY <1>1, <1>3, <1>6, <1>7, <1>8, <1>11
  <2> QED
    BY <1>6, <1>7, <1>9, <2>1
<1>16. Begins(line, all, c)
  <2>1. ~c => n = m
    BY <1>1, <1>8, <1>11, <1>12
  <2> QED
    BY <1>6, <1>7, <1>11, <1>13, <1>14, <1>15, <2>1 DEF Begins
<1>17. n + 3 < ll => lv <= n + 3
  <2> SUFFICES ASSUME n + 3 < ll, lv > n + 3 PROVE FALSE
    BY <1>1, <1>8
  <2>1. /\ n < Len(s) /\ n + 1 \in 1 .. (lv - 2) /\ n + 1 <= ll - 2
        /\ n + 1 \in 1 .. (ll - 2) /\ 2 + (n + 1) = n + 3 /\ n + 3 \in 1 .. (ll - 1)
    BY <1>1, <1>3, <1>8
  <2>2. s[n + 1] = l[n + 3]
    BY <1>4, <1>9, <2>1
  <2> QED
    BY <1>2, <1>6, <2>1, <2>2
<1>18. ll < n + 3 => lv <= ll
  <2> SUFFICES ASSUME ll < n + 3, lv > ll PROVE FALSE
    BY <1>1, <1>8
  <2>1. ll - 2 \in 1 .. n
    BY <1>1, <1>8, <1>10
  <2> QED
    BY <1>6, <1>10, <2>1
<1>19. Drop(v, n + 3) = Drop(v, ll)
  <2>1. CASE n + 3 = ll
    BY <2>1
  <2>2. CASE n + 3 # ll
    <3>1. n + 3 \in Nat /\ n + 3 >= lv /\ ll >= lv
      BY <1>1, <1>8, <1>17, <1>18, <2>2
    <3>2. Drop(v, n + 3) = <<>> /\ Drop(v, ll) = <<>>
      BY <1>1, <3>1, DropAll DEF lv
    <3> QED
      BY <3>2
  <2> QED
    BY <2>1, <2>2
<1>20. Drop(v, ll) # <<>> => line = all
  <2>1. lv < ll => Drop(v, ll) = <<>>
    <3> SUFFICES ASSUME lv < ll PROVE Drop(v, ll) = <<>>
      OBVIOUS
    <3>1. ll >= lv
      BY <1>1
    <3> QED
      BY <1>1, <3>1, DropAll DEF lv
  <2>2. n # m => lv < ll
    BY <1>8, <1>11, <1>12
  <2> QED
    BY <1>14, <2>1, <2>2
<1> QED
  BY <1>16, <1>19, <1>20 DEF n, ll

LEMMA TakeBegins ==
    ASSUME NEW s, NEW t, NEW c, Begins(s, t, c), NEW n \in Nat \ {0}
    PROVE  /\ Begins(Take(s, n), Take(t, n), c)
           /\ Take(s, n) = <<>> <=> s = <<>>
<1> DEFINE x == Take(s, n)
           z == Take(t, n)
<1>1. /\ s \in Seq(Cells) /\ t \in Seq(Cells) /\ n \in Nat /\ n # 0
      /\ Len(s) <= Len(t) /\ \A i \in 1 .. Len(s) : s[i] = t[i]
      /\ ~c => s = t
  BY DEF Begins, Text
<1>2. Len(s) \in Nat /\ Len(t) \in Nat
  BY <1>1, LenProperties
<1>3. /\ x \in Seq(Cells) /\ Len(x) = IF n <= Len(s) THEN n ELSE Len(s)
      /\ \A i \in 1 .. Len(x) : x[i] = s[i]
  BY <1>1, TakeIs
<1>4. /\ z \in Seq(Cells) /\ Len(z) = IF n <= Len(t) THEN n ELSE Len(t)
      /\ \A i \in 1 .. Len(z) : z[i] = t[i]
  BY <1>1, TakeIs
<1>5. ~c => x = z
  BY <1>1
<1> HIDE DEF x, z
<1>6. Len(x) <= Len(z)
  BY <1>1, <1>2, <1>3, <1>4
<1>7. \A i \in 1 .. Len(x) : x[i] = z[i]
  <2> TAKE i \in 1 .. Len(x)
  <2>1. i \in 1 .. Len(s) /\ i \in 1 .. Len(z)
    BY <1>1, <1>2, <1>3, <1>4
  <2> QED
    BY <1>1, <1>3, <1>4, <2>1
<1>8. Begins(x, z, c)
  BY <1>3, <1>4, <1>5, <1>6, <1>7 DEF Begins, Text
<1>9. x = <<>> <=> s = <<>>
  <2>1. Len(x) = 0 <=> Len(s) = 0
    BY <1>1, <1>2, <1>3
  <2>2. x \in Text /\ s \in Text
    BY <1>1, <1>3 DEF Text
  <2> QED
    BY <2>1, <2>2, EmptyIs
<1> QED
  BY <1>8, <1>9 DEF x, z

(* A string types its first StrCap characters.                             *)
LEMMA StringRight ==
    ASSUME NEW v, v # <<>>, NEW lines, NEW l, NEW others, NEW c,
           StartsWith(v, lines, l, others, c), l[1] = "STRING"
    PROVE  Right(Command[v], c, AllKeys(lines))
<1> DEFINE s == Drop(v, 2)
           line == Until(Newline, s)
           all == Until(Newline, Drop(l, 2))
           file == Drop(v, Len(l))
           string == Take(line, StrCap)
           p == Take(all, StrCap)
<1>1. ReadsLine(v, l, c) /\ IsLine(l)
  BY LineRead DEF StartsWith
<1>2. Word[v] = <<"STRING">> /\ AfterWord[v] = s
  BY <1>1, CommandWord DEF Commands
<1>3. /\ v \in Text /\ Len(v) \in Nat /\ Len(l) \in Nat
      /\ \A i \in 1 .. Len(v) : i <= Len(l) => v[i] = l[i]
      /\ l[Len(l)] # "\n" => Len(v) <= Len(l)
  BY <1>1 DEF ReadsLine
<1>4. s \in Text /\ Len(s) = (IF 2 <= Len(v) THEN Len(v) - 2 ELSE 0)
      /\ \A i \in 1 .. (Len(v) - 2) : s[i] = v[2 + i]
  BY <1>3, BehindWord
<1>5. Command[v] = StringEvent[Skip({" "}, s)]
  <2>1. v # <<>>
    OBVIOUS
  <2>2. Word[v] # <<"DELAY">> /\ Word[v] # <<"ENTER">>
    BY <1>2
  <2> DEFINE x == Skip(Spaces, AfterWord[v])
             z == Skip({" "}, AfterWord[v])
  <2>3. Command[v] =
          CASE v = <<>> -> Event("eof", "", <<>>, <<>>)
            [] Word[v] = <<"STRING">> -> StringEvent[z]
            [] Word[v] = <<"DELAY">> -> DelayEvent[x]
            [] Word[v] = <<"ENTER">> -> Event("char", "\n", AfterWord[v], <<>>)
            [] OTHER -> Event("none", "", AfterWord[v], <<>>)
    BY <1>3 DEF Command
  <2> HIDE DEF x, z, s
  <2>4. Command[v] = StringEvent[z]
    BY <1>2, <2>1, <2>2, <2>3
  <2> QED
    BY <1>2, <2>4 DEF z
<1>6. /\ Begins(line, all, c)
      /\ Drop(v, Len(line) + 3) = file
      /\ file # <<>> => line = all
  BY <1>1, StringRead
<1>7. Ahead(file, <<>>, others, c)
  BY BehindLine
<1>8. others \in Seq(Text) /\ AllKeys(lines) = Keys[p] \o AllKeys(others)
  BY DEF StartsWith, KeysOf
<1> HIDE DEF s
<1>9. Skip({" "}, s) = s
  <2>1. s # <<>> => s[1] # " "
    <3> SUFFICES ASSUME s # <<>> PROVE s[1] # " "
      OBVIOUS
    <3>1. Len(s) # 0
      BY <1>4, EmptyIs
    <3>2. Len(v) >= 3
      BY <1>3, <1>4, <3>1
    <3>3. 3 \in 1 .. Len(v) /\ 1 \in 1 .. (Len(v) - 2) /\ 2 + 1 = 3
      BY <1>3, <3>2
    <3>4. Len(l) >= 2 /\ l[2] = " " /\ (Len(l) >= 3 => l[3] # " ")
      <4>1. Len(l) # 0
        BY <1>1 DEF ReadsLine
      <4>2. 1 \in 1 .. Len(l)
        BY <1>3, <4>1
      <4> QED
        BY <1>1, <4>2 DEF IsLine, Commands
    <3>5. Len(l) >= 3
      <4>1. Len(l) # 2
        <5> SUFFICES ASSUME Len(l) = 2 PROVE FALSE
          OBVIOUS
        <5>1. l[Len(l)] # "\n"
          BY <3>4
        <5> QED
          BY <1>3, <3>2, <5>1
      <4>2. \A n \in Nat : n >= 2 /\ n # 2 => n >= 3
        OBVIOUS
      <4> QED
        BY <1>3, <3>4, <4>1, <4>2, Zenon
    <3>6. s[1] = l[3]
      BY <1>3, <1>4, <3>3, <3>5
    <3> QED
      BY <3>4, <3>5, <3>6
  <2>2. {" "} \in SUBSET Cells
    BY DEF Cells, Spaces
  <2> QED
    BY <1>4, <2>1, <2>2, SkipsNothing
<1>10. Drop(s, Len(line) + 1) = file
  <2>1. line \in Text /\ all \in Text
    BY <1>6 DEF Begins
  <2>2. Len(line) \in Nat
    BY <2>1, LenProperties DEF Text
  <2> HIDE DEF line
  <2>3. Len(line) + 1 \in Nat /\ 2 \in Nat /\ 2 + (Len(line) + 1) = Len(line) + 3
    BY <2>2
  <2>4. Drop(Drop(v, 2), Len(line) + 1) = Drop(v, 2 + (Len(line) + 1))
    BY <1>3, <2>3, DropDrop
  <2> QED
    BY <1>6, <2>3, <2>4 DEF s
<1>11. StringEvent[s] = IF line = <<>> THEN Event("none", "", file, <<>>)
                        ELSE Typed(string, file)
  <2>1. StringEvent[s] = IF line = <<>> THEN Event("none", "", Drop(s, Len(line) + 1), <<>>)
                         ELSE Typed(string, Drop(s, Len(line) + 1))
    BY <1>4 DEF StringEvent
  <2> HIDE DEF line, string, file
  <2> QED
    BY <1>10, <2>1
<1>12. Begins(string, p, c) /\ (string = <<>> <=> line = <<>>)
  <2>1. StrCap \in Nat \ {0}
    BY MacroAssumption
  <2> HIDE DEF line, all
  <2> QED
    BY <1>6, <2>1, TakeBegins
<1>13. file # <<>> => string = p
  BY <1>6
<1> HIDE DEF line, all, file, string, p
<1>14. CASE line = <<>>
  <2> DEFINE e == Event("none", "", file, <<>>)
  <2>1. Command[v] = e
    BY <1>5, <1>9, <1>11, <1>14
  <2>2. e.type = "none" /\ e.unread = file /\ e.pending = <<>>
    BY DEF Event
  <2>3. Types(e) = <<>>
    BY <2>2 DEF Types
  <2> HIDE DEF e
  <2>4. string = <<>>
    BY <1>12, <1>14
  <2>5. Left(<<>>, file, c, AllKeys(lines))
    BY <1>7, <1>8, <1>12, <1>13, <2>4 DEF Left
  <2>6. AllKeys(lines) \in Text /\ AllKeys(lines) = <<>> \o AllKeys(lines)
    <3>1. p \in Text
      BY <1>12 DEF Begins
    <3>2. Keys[p] \in Text /\ AllKeys(others) \in Text
      BY <1>8, <3>1, KeysIs, AllKeysIs
    <3>3. AllKeys(lines) \in Text
      BY <1>8, <3>2, TextAssociative, NoText
    <3> QED
      BY <3>3, NoText
  <2>7. Right(e, c, AllKeys(lines))
    BY <2>2, <2>3, <2>5, <2>6 DEF Right
  <2> QED
    BY <2>1, <2>7
<1>15. CASE line # <<>>
  <2>1. Command[v] = Typed(string, file)
    BY <1>5, <1>9, <1>11, <1>15
  <2>2. string # <<>>
    BY <1>12, <1>15
  <2>3. Right(Typed(string, file), c, Keys[p] \o AllKeys(others))
    BY <1>7, <1>12, <1>13, <2>2, TypedRight
  <2> QED
    BY <1>8, <2>1, <2>3
<1> QED
  BY <1>14, <1>15

LEMMA NoWord ==
    Word[<<>>] # <<"STRING">> /\ Word[<<>>] # <<"DELAY">> /\ Word[<<>>] # <<"ENTER">>
<1> DEFINE t == Until(Spaces, <<>>)
<1>1. t \in Text /\ StopsAt(Spaces, <<>>, Len(t))
  BY NoText, UntilIs DEF Spaces, Cells
<1>2. Len(t) = 0
  BY <1>1, EmptySeq DEF StopsAt
<1>3. Word[<<>>] = Take(t, WordCap)
  BY NoText DEF Word
<1> HIDE DEF t
<1>4. t = <<>>
  BY <1>1, <1>2, EmptyIs
<1>5. Take(<<>>, WordCap) = <<>>
  <2>1. Begins(<<>>, <<>>, FALSE)
    BY NoText DEF Begins
  <2> QED
    BY <2>1, TakeBegins, MacroAssumption
<1> QED
  BY <1>3, <1>4, <1>5

LEMMA EmptyParts ==
    ASSUME NEW s \in Text, NEW t \in Text, s \o t = <<>>
    PROVE  s = <<>> /\ t = <<>>
<1>1. s \in Seq(Cells) /\ t \in Seq(Cells)
  BY DEF Text
<1>2. Len(s \o t) = Len(s) + Len(t) /\ Len(s) \in Nat /\ Len(t) \in Nat
  BY <1>1, ConcatProperties, LenProperties
<1>3. Len(s \o t) = 0
  BY EmptySeq
<1>4. Len(s) = 0 /\ Len(t) = 0
  BY <1>2, <1>3
<1> QED
  BY <1>4, EmptyIs

(* Every event types what is first of what is left, and leaves the rest.   *)
LEMMA CommandRight ==
    ASSUME NEW v, NEW q, NEW lines, NEW c, Ahead(v, q, lines, c),
           v # <<>>, v[1] \notin Spaces
    PROVE  Right(Command[v], c, AllKeys(lines))
<1>1. CASE v[1] \notin Commands
  BY <1>1, OtherWord
<1>2. CASE v[1] \in Commands
  <2>1. ~(q # <<>> /\ v[1] = q[1])
    <3>1. q # <<>> => 1 \in 1 .. Len(q)
      BY AheadType, EmptySeq
    <3>2. Quiet(q)
      BY DEF Ahead
    <3> QED
      BY <1>2, <3>1, <3>2 DEF Quiet
  <2>2. StartsWith(v, lines, lines[1], Tail(lines), c) /\ v[1] = lines[1][1]
    BY <2>1, AheadIs
  <2>3. lines[1][1] \in {"STRING", "DELAY", "ENTER"}
    BY <1>2, <2>2 DEF Commands
  <2> QED
    BY <2>2, <2>3, StringRight, DelayRight, EnterRight
<1> QED
  BY <1>1, <1>2

LEMMA EventRight ==
    ASSUME NEW string, NEW u, NEW c, NEW keys \in Text, Left(string, u, c, keys),
           NEW e, e = IF string # <<>> THEN Typed(string, u) ELSE Command[Skip(Spaces, u)]
    PROVE  \/ e.type = "eof" /\ (~c => keys = <<>>)
           \/ Right(e, c, keys)
<1>1. PICK p, q, lines :
        /\ Begins(string, p, c) /\ (u # <<>> => string = p)
        /\ Ahead(u, q, lines, c)
        /\ keys = Keys[p] \o AllKeys(lines)
  BY DEF Left
<1>2. CASE string # <<>>
  BY <1>1, <1>2, TypedRight
<1>3. CASE string = <<>>
  <2> DEFINE v == Skip(Spaces, u)
  <2>1. PICK r, ls : /\ Ahead(v, r, ls, c) /\ AllKeys(ls) = AllKeys(lines)
                     /\ v # <<>> => v[1] \notin Spaces
    BY <1>1, SkipSpaces
  <2>2. u = <<>> => v = <<>>
    <3>1. u = <<>> => Skip(Spaces, u) = u
      BY SkipsNothing, NoText DEF Spaces, Cells
    <3> QED
      BY <3>1
  <2>3. e = Command[v] /\ v \in Text
    BY <1>3, <2>1, AheadType
  <2> HIDE DEF v
  <2>4. p = <<>> => keys = AllKeys(ls)
    <3>1. lines \in Seq(Text)
      BY <1>1 DEF Ahead
    <3>2. AllKeys(lines) \in Text /\ Keys[<<>>] = <<>> /\ <<>> \o AllKeys(lines) = AllKeys(lines)
      BY <3>1, AllKeysIs, KeysIs, NoText
    <3> QED
      BY <1>1, <2>1, <3>2
  <2>5. CASE v = <<>>
    <3>1. e.type = "eof"
      <4>1. Command[<<>>] = Event("eof", "", <<>>, <<>>)
        BY NoText, NoWord DEF Command
      <4>2. e = Event("eof", "", <<>>, <<>>)
        BY <2>3, <2>5, <4>1
      <4>3. Event("eof", "", <<>>, <<>>).type = "eof"
        BY DEF Event
      <4> QED
        BY <4>2, <4>3, Zenon
    <3>2. ASSUME ~c PROVE keys = <<>>
      <4>1. p = <<>>
        BY <1>1, <1>3, <3>2 DEF Begins
      <4>2. <<>> = r \o FlattenSeq(ls) /\ r \in Seq(Cells) /\ FlattenSeq(ls) \in Seq(Cells)
            /\ ls \in Seq(Text) /\ IsMacro(ls)
        BY <2>1, <2>5, <3>2, LinesType DEF Ahead, Begins, Text
      <4>3. r = <<>> /\ FlattenSeq(ls) = <<>>
        BY <4>2, EmptyParts DEF Text
      <4>4. ls = <<>>
        <5> SUFFICES ASSUME ls # <<>> PROVE FALSE
          OBVIOUS
        <5>1. StartsWith(v, ls, ls[1], Tail(ls), c)
          BY <2>1, <4>3, FirstLine
        <5>2. ls[1] # <<>> /\ ls[1] \in Seq(Cells) /\ Tail(ls) \in Seq(Text)
          BY <5>1 DEF StartsWith, IsLine, Text
        <5>3. FlattenSeq(ls) = ls[1] \o FlattenSeq(Tail(ls))
          BY <4>2, FlattenHeadTail DEF Text
        <5>4. FlattenSeq(Tail(ls)) \in Seq(Cells)
          BY <5>2, LinesType DEF Text
        <5> QED
          BY <4>3, <5>2, <5>3, <5>4, EmptyParts DEF Text
      <4> QED
        BY <2>4, <4>1, <4>2, <4>4, AllKeysIs
    <3> QED
      BY <3>1, <3>2
  <2>6. CASE v # <<>>
    <3>1. p = <<>>
      BY <1>1, <1>3, <2>2, <2>6
    <3>2. Right(Command[v], c, AllKeys(ls))
      BY <2>1, <2>6, CommandRight
    <3> QED
      BY <2>3, <2>4, <3>1, <3>2
  <2> QED
    BY <2>5, <2>6
<1> QED
  BY <1>2, <1>3

(* Every report so far is the one that the macro asks for.                 *)
Reports == Cells \cup {Release}

Agree(sent, lines) ==
    /\ sent \in Seq(Reports)
    /\ Len(sent) <= 2 * Len(AllKeys(lines))
    /\ \A i \in 1 .. Len(sent) : sent[i] = Reference(lines)[i]

LEMMA ReferenceIs ==
    ASSUME NEW lines \in Seq(Text), NEW l, l = Len(AllKeys(lines))
    PROVE  /\ l \in Nat
           /\ Reference(lines) \in Seq(Reports) /\ Len(Reference(lines)) = 2 * l
           /\ \A n \in Nat : n < l => /\ Reference(lines)[2 * n + 1] = AllKeys(lines)[n + 1]
                                      /\ Reference(lines)[2 * n + 2] = Release
<1> DEFINE keys == AllKeys(lines)
           Entry(k) == IF k % 2 = 1 THEN keys[(k + 1) \div 2] ELSE Release
<1>1. keys \in Seq(Cells) /\ l = Len(keys)
  BY AllKeysIs DEF Text
<1>2. l \in Nat
  BY <1>1, LenProperties
<1>3. Reference(lines) = [k \in 1 .. 2 * l |-> Entry(k)]
  BY DEF Reference
<1> HIDE DEF keys
<1>4. \A k \in 1 .. 2 * l : Entry(k) \in Reports
  <2> TAKE k \in 1 .. 2 * l
  <2>1. CASE k % 2 = 1
    <3>1. (k + 1) \div 2 \in 1 .. l
      BY <1>2
    <3> QED
      BY <1>1, <2>1, <3>1, ElementOfSeq DEF Reports
  <2>2. CASE k % 2 # 1
    BY <2>2 DEF Reports
  <2> QED
    BY <2>1, <2>2
<1>5. \A n \in Nat : n < l => Entry(2 * n + 1) = keys[n + 1] /\ Entry(2 * n + 2) = Release
  <2> TAKE n \in Nat
  <2>1. (2 * n + 1) % 2 = 1 /\ ((2 * n + 1) + 1) \div 2 = n + 1 /\ (2 * n + 2) % 2 = 0
    OBVIOUS
  <2> QED
    BY <2>1
<1> HIDE DEF Entry
<1>6. 2 * l \in Nat
  BY <1>2
<1>7. Reference(lines) \in Seq(Reports) /\ Len(Reference(lines)) = 2 * l
  BY <1>3, <1>4, <1>6
<1>8. \A n \in Nat : n < l => 2 * n + 1 \in 1 .. 2 * l /\ 2 * n + 2 \in 1 .. 2 * l
  BY <1>2
<1> QED
  BY <1>2, <1>3, <1>5, <1>7, <1>8 DEF keys

(* The keys from the n-th on.                                              *)
Remain(all, n, keys) ==
    /\ Len(all) = n + Len(keys)
    /\ \A j \in 1 .. Len(keys) : all[n + j] = keys[j]

(* What has been played and what is left are the macro.                    *)
Playing == {"parse", "release", "delay"}

Progress(phase, sent, lines, string, u, c) ==
    \E n \in Nat, keys \in Text :
        /\ Len(sent) = IF phase = "release" THEN 2 * n - 1 ELSE 2 * n
        /\ Remain(AllKeys(lines), n, keys)
        /\ Left(string, u, c, keys)

LEMMA KeyPressed ==
    ASSUME NEW all \in Text, NEW n \in Nat, NEW keys \in Text, NEW k, NEW others \in Text,
           k \in Cells, keys = <<k>> \o others, Remain(all, n, keys)
    PROVE  all[n + 1] = k /\ n < Len(all) /\ Remain(all, n + 1, others)
<1> DEFINE one == <<k>>
<1>1. one \in Seq(Cells) /\ Len(one) = 1 /\ one[1] = k
  OBVIOUS
<1> HIDE DEF one
<1>2. others \in Seq(Cells) /\ keys = one \o others
  BY DEF Text, one
<1>3. /\ Len(keys) = Len(one) + Len(others) /\ Len(others) \in Nat
      /\ \A i \in 1 .. (Len(one) + Len(others)) :
           keys[i] = IF i <= Len(one) THEN one[i] ELSE others[i - Len(one)]
  BY <1>1, <1>2, ConcatProperties, LenProperties
<1>4. Len(keys) = 1 + Len(others) /\ Len(all) = n + Len(keys)
  BY <1>1, <1>3 DEF Remain
<1>5. keys[1] = k /\ \A j \in 1 .. Len(others) : keys[1 + j] = others[j]
  <2>1. 1 \in 1 .. (1 + Len(others)) /\ 1 <= 1
    BY <1>3
  <2>2. keys[1] = one[1]
    BY <1>1, <1>3, <2>1
  <2>3. ASSUME NEW j \in 1 .. Len(others) PROVE keys[1 + j] = others[j]
    <3>1. 1 + j \in 1 .. (1 + Len(others)) /\ ~(1 + j <= 1) /\ (1 + j) - 1 = j
      BY <1>3
    <3> QED
      BY <1>1, <1>3, <3>1
  <2> QED
    BY <1>1, <2>2, <2>3
<1>6. \A j \in 1 .. Len(keys) : all[n + j] = keys[j]
  BY DEF Remain
<1>7. all[n + 1] = k
  <2>1. 1 \in 1 .. Len(keys)
    BY <1>3, <1>4
  <2> QED
    BY <1>5, <1>6, <2>1
<1>8. ASSUME NEW j \in 1 .. Len(others) PROVE all[n + 1 + j] = others[j]
  <2>1. 1 + j \in 1 .. Len(keys) /\ n + (1 + j) = n + 1 + j
    BY <1>3, <1>4
  <2>2. all[n + (1 + j)] = keys[1 + j]
    BY <1>6, <2>1
  <2> QED
    BY <1>5, <2>1, <2>2
<1>9. Len(all) = n + 1 + Len(others) /\ n < Len(all)
  BY <1>3, <1>4
<1> QED
  BY <1>7, <1>8, <1>9 DEF Remain

(* One more report.                                                        *)
LEMMA OneMore ==
    ASSUME NEW sent, NEW lines \in Seq(Text), Agree(sent, lines), NEW r \in Reports,
           Len(sent) < 2 * Len(AllKeys(lines)), r = Reference(lines)[Len(sent) + 1]
    PROVE  Agree(Append(sent, r), lines) /\ Len(Append(sent, r)) = Len(sent) + 1
<1> DEFINE t == Append(sent, r)
           l == Len(AllKeys(lines))
<1>1. sent \in Seq(Reports) /\ \A i \in 1 .. Len(sent) : sent[i] = Reference(lines)[i]
  BY DEF Agree
<1>2. Len(sent) \in Nat /\ l \in Nat
  BY <1>1, ReferenceIs, LenProperties
<1>3. /\ t \in Seq(Reports) /\ Len(t) = Len(sent) + 1
      /\ \A i \in 1 .. Len(sent) : t[i] = sent[i]
      /\ t[Len(sent) + 1] = r
  BY <1>1, AppendProperties
<1> HIDE DEF t, l
<1>4. Len(t) <= 2 * l
  <2>1. Len(sent) < 2 * l
    BY DEF l
  <2> QED
    BY <1>2, <1>3, <2>1
<1>5. ASSUME NEW i \in 1 .. Len(t) PROVE t[i] = Reference(lines)[i]
  <2>1. i \in 1 .. Len(sent) \/ i = Len(sent) + 1
    BY <1>2, <1>3
  <2> QED
    BY <1>1, <1>3, <2>1
<1>6. Agree(t, lines)
  BY <1>3, <1>4, <1>5 DEF Agree, l
<1> QED
  BY <1>3, <1>6 DEF t

(* The invariant of the player.                                            *)
PlayerOK ==
    /\ macro \in MacroFiles
    /\ player \in {"wait", "open", "parse", "release", "delay", "cooldown"}
    /\ advertising \in BOOLEAN /\ cut \in BOOLEAN /\ fileOpen \in BOOLEAN
    /\ fileOpen <=> player \in Playing
    /\ ~advertising => player = "wait"

MacroInv ==
    /\ PlayerOK
    /\ Agree(reports, macro)
    /\ player \in Playing => Progress(player, reports, macro, pending, unread, cut)
    /\ player = "cooldown" /\ ~cut => Len(reports) = 2 * Len(AllKeys(macro))

LEMMA MacroIs == ASSUME NEW m \in MacroFiles PROVE m \in Seq(Text) /\ IsMacro(m)
  BY MacroAssumption

LEMMA NothingSent == ASSUME NEW lines \in Seq(Text) PROVE Agree(<<>>, lines)
  BY ReferenceIs, EmptySeq DEF Agree

(* The whole macro is ahead of a player that opens it.                     *)
LEMMA WholeMacro ==
    ASSUME NEW m \in MacroFiles
    PROVE  Progress("parse", <<>>, m, <<>>, FlattenSeq(m), FALSE)
<1>1. m \in Seq(Text) /\ IsMacro(m)
  BY MacroIs
<1>2. FlattenSeq(m) \in Text /\ AllKeys(m) \in Text
  BY <1>1, LinesType, AllKeysIs
<1>3. Ahead(FlattenSeq(m), <<>>, m, FALSE)
  <2>1. Begins(FlattenSeq(m), FlattenSeq(m), FALSE)
    <3>1. Len(FlattenSeq(m)) \in Nat
      BY <1>2, LenProperties DEF Text
    <3> QED
      BY <1>2, <3>1 DEF Begins
  <2>2. Quiet(<<>>)
    BY EmptySeq DEF Quiet
  <2> QED
    BY <1>1, <1>2, <2>1, <2>2, NoText DEF Ahead
<1>4. Left(<<>>, FlattenSeq(m), FALSE, AllKeys(m))
  <2>1. Begins(<<>>, <<>>, FALSE)
    BY NoText DEF Begins
  <2>2. AllKeys(m) = Keys[<<>>] \o AllKeys(m)
    BY <1>2, KeysIs, NoText
  <2> QED
    BY <1>3, <2>1, <2>2 DEF Left
<1>5. Remain(AllKeys(m), 0, AllKeys(m))
  <2>1. Len(AllKeys(m)) \in Nat
    BY <1>2, LenProperties DEF Text
  <2> QED
    BY <2>1 DEF Remain
<1>6. Len(<<>>) = 2 * 0
  BY EmptySeq
<1> QED
  BY <1>2, <1>4, <1>5, <1>6 DEF Progress

(* A flash that fails leaves the parser less of the same.                  *)
LEMMA LessLeft ==
    ASSUME NEW phase, NEW sent, NEW lines, NEW string, NEW u, NEW k \in Nat,
           Progress(phase, sent, lines, string, u, FALSE)
    PROVE  Progress(phase, sent, lines, string, Take(u, k), TRUE)
<1>1. PICK n \in Nat, keys \in Text :
        /\ Len(sent) = IF phase = "release" THEN 2 * n - 1 ELSE 2 * n
        /\ Remain(AllKeys(lines), n, keys)
        /\ Left(string, u, FALSE, keys)
  BY DEF Progress
<1>2. PICK p, q, ls :
        /\ Begins(string, p, FALSE) /\ (u # <<>> => string = p)
        /\ Ahead(u, q, ls, FALSE)
        /\ keys = Keys[p] \o AllKeys(ls)
  BY <1>1 DEF Left
<1>3. /\ u \in Seq(Cells) /\ Len(u) \in Nat
      /\ Take(u, k) \in Seq(Cells)
      /\ Len(Take(u, k)) = IF k <= Len(u) THEN k ELSE Len(u)
      /\ \A i \in 1 .. Len(Take(u, k)) : Take(u, k)[i] = u[i]
  BY <1>2, AheadType, TakeIs
<1>4. Ahead(Take(u, k), q, ls, TRUE)
  <2> DEFINE w == q \o FlattenSeq(ls)
             t == Take(u, k)
  <2>1. Begins(u, w, FALSE)
    BY <1>2 DEF Ahead
  <2> HIDE DEF w, t
  <2>2. /\ t \in Seq(Cells) /\ Len(t) \in Nat /\ Len(t) <= Len(u)
        /\ \A i \in 1 .. Len(t) : t[i] = u[i]
    BY <1>3 DEF t
  <2>3. w \in Text /\ u = w
    BY <2>1 DEF Begins
  <2>4. Begins(t, w, TRUE)
    BY <2>2, <2>3 DEF Begins, Text
  <2> QED
    BY <1>2, <2>4 DEF Ahead, w, t
<1>5. Begins(string, p, TRUE) /\ string = p
  BY <1>2 DEF Begins
<1>6. Left(string, Take(u, k), TRUE, keys)
  BY <1>2, <1>4, <1>5 DEF Left
<1> QED
  BY <1>1, <1>6 DEF Progress

(* What an event does to what has been played: it adds what it types.      *)
Plays(sent, lines, c, e) ==
    /\ e.type \in {"eof", "none", "char", "delay"}
    /\ e.type = "eof" /\ ~c => Len(sent) = 2 * Len(AllKeys(lines))
    /\ e.type = "delay" => Progress("delay", sent, lines, e.pending, e.unread, c)
    /\ e.type = "char" /\ HasKey(e.arg) =>
         /\ Agree(Append(sent, e.arg), lines)
         /\ Progress("release", Append(sent, e.arg), lines, e.pending, e.unread, c)
    /\ e.type = "none" \/ (e.type = "char" /\ ~HasKey(e.arg)) =>
         Progress("parse", sent, lines, e.pending, e.unread, c)

LEMMA EventPlayed ==
    ASSUME NEW sent, NEW lines \in Seq(Text), NEW string, NEW u, NEW c,
           Progress("parse", sent, lines, string, u, c), Agree(sent, lines),
           NEW e, e = IF string # <<>> THEN Typed(string, u) ELSE Command[Skip(Spaces, u)]
    PROVE  Plays(sent, lines, c, e)
<1> DEFINE all == AllKeys(lines)
<1>1. PICK n \in Nat, keys \in Text :
        Len(sent) = 2 * n /\ Remain(all, n, keys) /\ Left(string, u, c, keys)
  BY DEF Progress
<1>2. all \in Text /\ Len(all) \in Nat
  BY AllKeysIs, LenProperties DEF Text
<1>3. \/ e.type = "eof" /\ (~c => keys = <<>>)
      \/ Right(e, c, keys)
  BY <1>1, EventRight
<1> HIDE DEF all
<1>4. CASE e.type = "eof" /\ (~c => keys = <<>>)
  <2>1. ASSUME ~c PROVE Len(sent) = 2 * Len(all)
    <3>1. Len(keys) = 0 /\ Len(all) = n + Len(keys)
      BY <1>1, <1>4, <2>1, EmptySeq DEF Remain
    <3> QED
      BY <1>1, <1>2, <3>1
  <2>2. e.type = "eof"
    BY <1>4
  <2> QED
    BY <2>1, <2>2 DEF Plays, all
<1>5. CASE Right(e, c, keys)
  <2>1. e.type \in {"none", "char", "delay"}
    BY <1>5 DEF Right
  <2>2. PICK k \in Text : Left(e.pending, e.unread, c, k) /\ keys = Types(e) \o k
    BY <1>5 DEF Right
  <2>3. CASE e.type = "char" /\ HasKey(e.arg)
    <3>1. Types(e) = <<e.arg>>
      BY <2>3 DEF Types, Typing
    <3>2. e.arg \in Cells
      BY <2>3 DEF HasKey, Cells
    <3>3. all[n + 1] = e.arg /\ n < Len(all) /\ Remain(all, n + 1, k)
      BY <1>1, <1>2, <2>2, <3>1, <3>2, KeyPressed
    <3>4. Reference(lines)[2 * n + 1] = e.arg
      BY <3>3, ReferenceIs DEF all
    <3>5. Len(sent) < 2 * Len(AllKeys(lines)) /\ e.arg = Reference(lines)[Len(sent) + 1]
      BY <1>1, <1>2, <3>3, <3>4 DEF all
    <3>6. /\ Agree(Append(sent, e.arg), lines)
          /\ Len(Append(sent, e.arg)) = Len(sent) + 1
      <4>1. e.arg \in Reports
        BY <3>2 DEF Reports
      <4> QED
        BY <3>5, <4>1, OneMore
    <3>7. n + 1 \in Nat /\ Len(sent) + 1 = 2 * (n + 1) - 1
      BY <1>1
    <3>8. Progress("release", Append(sent, e.arg), lines, e.pending, e.unread, c)
      BY <2>2, <3>3, <3>6, <3>7 DEF Progress, all
    <3> QED
      BY <2>3, <3>6, <3>8 DEF Plays
  <2>4. CASE ~(e.type = "char" /\ HasKey(e.arg))
    <3>1. Types(e) = <<>>
      BY <2>1, <2>4 DEF Types, Typing
    <3>2. keys = k
      BY <2>2, <3>1, NoText
    <3>3. \A phase : phase # "release" => Progress(phase, sent, lines, e.pending, e.unread, c)
      BY <1>1, <2>2, <3>2 DEF Progress, all
    <3> QED
      BY <2>1, <2>4, <3>3 DEF Plays
  <2> QED
    BY <2>3, <2>4
<1> QED
  BY <1>3, <1>4, <1>5

(* The release of a key.                                                   *)
LEMMA ReleasePlayed ==
    ASSUME NEW sent, NEW lines \in Seq(Text), NEW string, NEW u, NEW c,
           Progress("release", sent, lines, string, u, c), Agree(sent, lines)
    PROVE  /\ Agree(Append(sent, Release), lines)
           /\ Progress("parse", Append(sent, Release), lines, string, u, c)
<1> DEFINE all == AllKeys(lines)
           l == Len(all)
<1>1. PICK n \in Nat, keys \in Text :
        Len(sent) = 2 * n - 1 /\ Remain(all, n, keys) /\ Left(string, u, c, keys)
  BY DEF Progress
<1>2. /\ l \in Nat
      /\ \A m \in Nat : m < l => Reference(lines)[2 * m + 2] = Release
  BY ReferenceIs
<1>3. Len(sent) \in Nat
  BY LenProperties DEF Agree
<1>4. Len(keys) \in Nat /\ l = n + Len(keys)
  BY <1>1, LenProperties DEF Remain, Text
<1> HIDE DEF l
<1>5. n - 1 \in Nat /\ n - 1 < l /\ 2 * (n - 1) + 2 = Len(sent) + 1 /\ Len(sent) < 2 * l
  BY <1>1, <1>2, <1>3, <1>4
<1>6. Release = Reference(lines)[Len(sent) + 1]
  BY <1>2, <1>5
<1>7. /\ Agree(Append(sent, Release), lines)
      /\ Len(Append(sent, Release)) = Len(sent) + 1
  <2>1. Release \in Reports /\ Len(sent) < 2 * Len(AllKeys(lines))
    BY <1>5 DEF Reports, l
  <2> QED
    BY <1>6, <2>1, OneMore
<1>8. Len(Append(sent, Release)) = 2 * n
  BY <1>1, <1>7
<1> QED
  BY <1>1, <1>7, <1>8 DEF Progress

LEMMA MacroInitInv == MacroInit => MacroInv
<1> SUFFICES ASSUME MacroInit PROVE MacroInv
  OBVIOUS
<1>1. Agree(reports, macro)
  BY NothingSent, MacroIs DEF MacroInit
<1>2. player = "wait" /\ player \notin Playing /\ player # "cooldown"
  BY DEF MacroInit, Playing
<1>3. macro \in MacroFiles /\ advertising = FALSE /\ cut = FALSE /\ fileOpen = FALSE
  BY DEF MacroInit
<1>4. PlayerOK
  BY <1>2, <1>3 DEF PlayerOK
<1> QED
  BY <1>1, <1>2, <1>4 DEF MacroInv

LEMMA MacroStep == MacroInv /\ [MacroNext]_macroVars => MacroInv'
<1> SUFFICES ASSUME MacroInv, [MacroNext]_macroVars PROVE MacroInv'
  OBVIOUS
<1> USE DEF PlayerOK, Playing
<1>0. macro \in MacroFiles /\ macro \in Seq(Text) /\ IsMacro(macro)
  BY MacroIs DEF MacroInv
<1>1. CASE StartPlayer
  BY <1>1 DEF StartPlayer, MacroInv
<1>2. CASE StopPlayer
  <2>1. /\ player' = "wait" /\ fileOpen' = FALSE /\ advertising' = FALSE
        /\ UNCHANGED <<macro, reports, cut>>
    BY <1>2 DEF StopPlayer
  <2>2. player' \notin Playing /\ player' # "cooldown"
    BY <2>1
  <2>3. PlayerOK' /\ Agree(reports, macro)'
    BY <2>1, <2>2 DEF MacroInv
  <2> QED
    BY <2>2, <2>3 DEF MacroInv
<1>3. CASE Connect
  BY <1>3 DEF Connect, MacroInv
<1>4. CASE OpenMacro
  <2>1. /\ player = "open" /\ advertising
        /\ macro' = macro /\ advertising' = advertising /\ reports' = <<>>
    BY <1>4 DEF OpenMacro, MacroInv
  <2>2. Agree(reports, macro)'
    BY <1>0, <2>1, NothingSent
  <2>3. CASE /\ fileOpen' = TRUE /\ cut' = FALSE
             /\ unread' = FlattenSeq(macro) /\ pending' = <<>>
             /\ player' = "parse"
    <3>1. Progress("parse", <<>>, macro, <<>>, FlattenSeq(macro), FALSE)
      BY <1>0, WholeMacro
    <3>2. Progress(player, reports, macro, pending, unread, cut)'
      BY <2>1, <2>3, <3>1
    <3> QED
      BY <2>1, <2>2, <2>3, <3>2 DEF MacroInv
  <2>4. CASE cut' = TRUE /\ player' = "cooldown" /\ fileOpen' = fileOpen
    BY <2>1, <2>2, <2>4 DEF MacroInv
  <2> QED
    BY <1>4, <2>3, <2>4 DEF OpenMacro
<1>5. CASE Parse
  <2> DEFINE e == NextEvent
  <2>1. /\ player = "parse" /\ advertising
        /\ macro' = macro /\ advertising' = advertising /\ cut' = cut
        /\ unread' = e.unread /\ pending' = e.pending
    BY <1>5 DEF Parse, MacroInv
  <2>2. Plays(reports, macro, cut, e)
    <3>1. Progress("parse", reports, macro, pending, unread, cut) /\ Agree(reports, macro)
      BY <2>1 DEF MacroInv
    <3> QED
      BY <1>0, <3>1, EventPlayed DEF NextEvent
  <2>3. (CASE e.type = "eof" -> Finish
           [] e.type = "delay" -> Pause(Ticks(e.arg))
           [] e.type = "char" /\ HasKey(e.arg) -> Press(e.arg)
           [] OTHER -> UNCHANGED <<player, rest, fileOpen, reports>>)
    BY <1>5 DEF Parse
  <2> HIDE DEF e
  <2>4. CASE e.type = "eof"
    <3>1. Finish
      BY <2>2, <2>3, <2>4 DEF Plays
    <3>2. ~cut => Len(reports) = 2 * Len(AllKeys(macro))
      BY <2>2, <2>4 DEF Plays
    <3>3. player' = "cooldown" /\ fileOpen' = FALSE /\ reports' = reports
      BY <3>1 DEF Finish
    <3>4. player' \notin Playing
      BY <3>3
    <3>5. PlayerOK' /\ Agree(reports, macro)'
      BY <2>1, <3>3, <3>4 DEF MacroInv
    <3>6. (~cut => Len(reports) = 2 * Len(AllKeys(macro)))'
      BY <2>1, <3>2, <3>3
    <3> QED
      BY <3>4, <3>5, <3>6 DEF MacroInv
  <2>5. CASE e.type = "delay"
    <3>1. Pause(Ticks(e.arg))
      BY <2>3, <2>5
    <3>2. Progress("delay", reports, macro, e.pending, e.unread, cut)
      BY <2>2, <2>5 DEF Plays
    <3>3. Progress(player, reports, macro, pending, unread, cut)'
      BY <2>1, <3>1, <3>2 DEF Pause
    <3> QED
      BY <2>1, <3>1, <3>3 DEF MacroInv, Pause
  <2>6. CASE e.type = "char" /\ HasKey(e.arg)
    <3>1. Press(e.arg)
      BY <2>3, <2>6
    <3>2. /\ Agree(Append(reports, e.arg), macro)
          /\ Progress("release", Append(reports, e.arg), macro, e.pending, e.unread, cut)
      BY <2>2, <2>6 DEF Plays
    <3>3. Progress(player, reports, macro, pending, unread, cut)' /\ Agree(reports, macro)'
      BY <2>1, <3>1, <3>2 DEF Press
    <3> QED
      BY <2>1, <3>1, <3>3 DEF MacroInv, Press
  <2>7. CASE e.type = "none" \/ (e.type = "char" /\ ~HasKey(e.arg))
    <3>1. UNCHANGED <<player, rest, fileOpen, reports>>
      BY <2>3, <2>7
    <3>2. Progress("parse", reports, macro, e.pending, e.unread, cut)
      BY <2>2, <2>7 DEF Plays
    <3>3. Progress(player, reports, macro, pending, unread, cut)'
      BY <2>1, <3>1, <3>2
    <3> QED
      BY <2>1, <3>1, <3>3 DEF MacroInv
  <2> QED
    BY <2>2, <2>4, <2>5, <2>6, <2>7 DEF Plays
<1>6. CASE SendRelease
  <2>1. /\ player = "release" /\ player' = "parse" /\ reports' = Append(reports, Release)
        /\ UNCHANGED <<macro, unread, pending, rest, advertising, fileOpen, cut>>
    BY <1>6 DEF SendRelease
  <2>2. Progress("release", reports, macro, pending, unread, cut) /\ Agree(reports, macro)
    BY <2>1 DEF MacroInv
  <2>3. /\ Agree(Append(reports, Release), macro)
        /\ Progress("parse", Append(reports, Release), macro, pending, unread, cut)
    BY <1>0, <2>2, ReleasePlayed
  <2>4. Progress(player, reports, macro, pending, unread, cut)' /\ Agree(reports, macro)'
    BY <2>1, <2>3
  <2> QED
    BY <2>1, <2>4 DEF MacroInv
<1>7. CASE Resting
  <2>1. /\ player \in {"delay", "cooldown"}
        /\ player' = player \/ player' = AfterRest
        /\ UNCHANGED <<macro, unread, pending, advertising, fileOpen, reports, cut>>
    BY <1>7 DEF Resting
  <2>2. CASE player = "delay"
    <3>1. Progress("delay", reports, macro, pending, unread, cut)
      BY <2>2 DEF MacroInv
    <3>2. Progress("parse", reports, macro, pending, unread, cut)
      BY <3>1 DEF Progress
    <3>3. player' \in {"delay", "parse"}
      BY <2>1, <2>2 DEF AfterRest
    <3>4. Progress(player, reports, macro, pending, unread, cut)' /\ Agree(reports, macro)'
      BY <2>1, <3>1, <3>2, <3>3 DEF MacroInv
    <3> QED
      BY <2>1, <2>2, <3>3, <3>4 DEF MacroInv
  <2>3. CASE player = "cooldown"
    <3>1. player' \in {"cooldown", "wait"}
      BY <2>1, <2>3 DEF AfterRest
    <3> QED
      BY <2>1, <2>3, <3>1 DEF MacroInv
  <2> QED
    BY <2>1, <2>2, <2>3
<1>8. CASE ReadFails
  <2> DEFINE size == Len(FlattenSeq(macro))
             done == size - Len(unread)
  <2>1. /\ fileOpen /\ ~cut /\ cut' = TRUE
        /\ UNCHANGED <<player, macro, pending, rest, advertising, fileOpen, reports>>
    BY <1>8 DEF ReadFails
  <2>2. Progress(player, reports, macro, pending, unread, FALSE)
    BY <2>1 DEF MacroInv
  <2>3. size \in Nat /\ Len(unread) \in Nat
    <3>1. FlattenSeq(macro) \in Text
      BY <1>0, LinesType
    <3>2. unread \in Text
      BY <2>2 DEF Progress, Left, Ahead, Begins
    <3> QED
      BY <3>1, <3>2, LenProperties DEF Text
  <2>4. PICK buffered \in done .. (size - 1) : unread' = Take(unread, buffered - done)
    BY <1>8 DEF ReadFails
  <2> HIDE DEF size
  <2>5. buffered - done \in Nat
    BY <2>3, <2>4
  <2>6. Progress(player, reports, macro, pending, Take(unread, buffered - done), TRUE)
    BY <2>2, <2>5, LessLeft
  <2>7. Progress(player, reports, macro, pending, unread, cut)'
    BY <2>1, <2>4, <2>6
  <2> QED
    BY <2>1, <2>7 DEF MacroInv
<1>9. CASE UNCHANGED macroVars
  BY <1>9 DEF macroVars, MacroInv
<1> QED
  BY <1>1, <1>2, <1>3, <1>4, <1>5, <1>6, <1>7, <1>8, <1>9 DEF MacroNext, PlayerTask

LEMMA MacroSteps == [Next]_appVars => [MacroNext]_macroVars
  BY DEF Next, appVars

LEMMA MacroPlayed == MacroInv => TypesMacro
<1> SUFFICES ASSUME MacroInv PROVE TypesMacro
  OBVIOUS
<1> DEFINE all == Reference(macro)
           l == Len(AllKeys(macro))
<1>1. macro \in Seq(Text) /\ Agree(reports, macro)
  BY MacroIs DEF MacroInv, PlayerOK
<1>2. l \in Nat /\ all \in Seq(Reports) /\ Len(all) = 2 * l
  BY <1>1, ReferenceIs
<1>3. /\ reports \in Seq(Reports) /\ Len(reports) \in Nat /\ Len(reports) <= Len(all)
      /\ \A i \in 1 .. Len(reports) : reports[i] = all[i]
  BY <1>1, <1>2, LenProperties DEF Agree
<1>4. player = "cooldown" /\ ~cut => Len(reports) = Len(all)
  BY <1>2 DEF MacroInv
<1>5. fileOpen <=> player \in Playing
  BY DEF MacroInv, PlayerOK
<1> HIDE DEF all
<1>6. Len(reports) = Len(all) => reports = all
  BY <1>2, <1>3, SeqEqual
<1>7. IsPrefix(reports, all)
  <2> DEFINE n == Len(reports)
             s == SubSeq(all, 1, n)
  <2>1. s \in Seq(Reports) /\ Len(s) = n /\ \A i \in 1 .. n : s[i] = all[i]
    BY <1>2, <1>3, PrefixIs
  <2> HIDE DEF s
  <2>2. reports = s
    BY <1>3, <2>1, SeqEqual
  <2> QED
    BY <1>3, <2>2 DEF IsPrefix, s
<1> QED
  BY <1>4, <1>5, <1>6, <1>7 DEF TypesMacro, Playing, all

(* Whatever the macro is, as long as its lines are well formed, however    *)
(* long its words and strings are, wherever the flash fails and whenever   *)
(* the keyboard is stopped, the reports are those that the macro asks for, *)
(* in order, all of them at its end, and the file is open exactly while it *)
(* is played (ble_hid_task, macro_parser_next_event).                      *)
THEOREM TypesMacroHolds == Spec => []TypesMacro
<1>1. Init => MacroInit
  BY DEF Init
<1> QED
  BY <1>1, MacroInitInv, MacroStep, MacroSteps, MacroPlayed, PTL DEF Spec
=============================================================================
