--------------------------- MODULE BleScanProofs ---------------------------
(***************************************************************************)
(* The pool of BLE devices implements the same abstract table as the pool  *)
(* of access points, for every pool and queue size and every set of        *)
(* devices, and whatever the two tasks of the scanner do.                  *)
(***************************************************************************)
EXTENDS BleScan, Counting

PoolTypeOK ==
  /\ slot \in [Slots -> [used : BOOLEAN, mac : Macs \cup {NoMac}, rssi : Int,
                         seen : 0 .. MaxTicks,
                         name : {NoName} \cup {NameOf(m) : m \in Macs}]]
  /\ \A i \in Used : slot[i].mac \in Macs /\ slot[i].rssi \in Rssis
  /\ clock \in 0 .. MaxTicks

(* No two slots hold the same device. *)
OneSlotPerMac == \A i, j \in Used : slot[i].mac = slot[j].mac => i = j

(* No slot carries a stamp of the future. *)
StampsUpToClock == \A i \in Used : slot[i].seen <= clock

PoolInv == PoolTypeOK /\ OneSlotPerMac /\ StampsUpToClock

-----------------------------------------------------------------------------
(* Choosing a slot.                                                        *)

LEMMA FirstIn ==
  ASSUME NEW S \in SUBSET Slots, S # {}
  PROVE  First(S) \in S
<1>1. S \in SUBSET Nat
  BY BleAssumption DEF Slots
<1>. QED
  BY <1>1, LeastNatural DEF First

LEMMA OldestExists ==
  ASSUME PoolTypeOK, Used # {}
  PROVE  Oldest # {}
<1>. DEFINE stamps == {slot[i].seen : i \in Used}
<1>1. stamps \in SUBSET Nat /\ stamps # {}
  BY BleAssumption DEF PoolTypeOK, Used
<1>2. PICK least \in stamps : \A s \in stamps : least <= s
  <2>. HIDE DEF stamps
  <2>. QED
    BY <1>1, LeastNatural
<1>. QED
  BY <1>2 DEF Oldest

(* A device goes to the slot that holds it; else to a free one; else, when *)
(* every slot is taken, to one no other is older than.                     *)
LEMMA TargetCases ==
  ASSUME PoolTypeOK, NEW mac
  PROVE  \/ Target(mac) \in Matching(mac)
         \/ Matching(mac) = {} /\ Target(mac) \in Slots \ Used
         \/ Matching(mac) = {} /\ Used = Slots /\ Target(mac) \in Oldest
<1>1. Matching(mac) \in SUBSET Slots /\ Oldest \in SUBSET Slots /\ Used \in SUBSET Slots
  BY DEF Matching, Oldest, Used
<1>2. CASE Matching(mac) # {}
  BY <1>1, <1>2, FirstIn DEF Target
<1>3. CASE Matching(mac) = {} /\ Slots \ Used # {}
  BY <1>3, FirstIn DEF Target
<1>4. CASE Matching(mac) = {} /\ Slots \ Used = {}
  <2>1. Used = Slots
    BY <1>1, <1>4, Zenon
  <2>2. 1 \in Slots
    BY BleAssumption DEF Slots
  <2>. QED
    BY <1>1, <1>4, <2>1, <2>2, OldestExists, FirstIn DEF Target
<1>. QED
  BY <1>2, <1>3, <1>4

-----------------------------------------------------------------------------
(* The invariant of the pool.                                              *)

(* What an advertisement does to the pool. *)
LEMMA UpsertEffect ==
  ASSUME PoolInv, NEW adv \in Heard, PoolUpsert(adv)
  PROVE  LET t == Target(adv.mac)
         IN  /\ t \in Slots
             /\ adv.mac \in Macs /\ adv.rssi \in Rssis
             /\ slot'[t].used /\ slot'[t].mac = adv.mac
             /\ slot'[t].rssi = adv.rssi /\ slot'[t].seen = clock
             /\ slot'[t].name \in {NoName} \cup {NameOf(m) : m \in Macs}
             /\ slot' = [slot EXCEPT ![t] = slot'[t]]
             /\ Used' = Used \cup {t}
<1>. DEFINE t == Target(adv.mac)
            dev == Device(slot[t], adv)
<1>1. t \in Slots
  BY TargetCases DEF PoolInv, Matching, Used, Oldest
<1>2. PICK m \in Macs : adv \in [mac : {m}, rssi : Rssis, name : {NoName, NameOf(m)}]
  BY DEF Heard
<1>3. adv.mac = m /\ adv.rssi \in Rssis /\ adv.name \in {NoName, NameOf(m)}
  BY <1>2
<1>4. slot' = [slot EXCEPT ![t] = dev] /\ slot'[t] = dev
  BY <1>1 DEF PoolUpsert, PoolInv, PoolTypeOK
<1>5. /\ dev.used /\ dev.mac = adv.mac /\ dev.rssi = adv.rssi /\ dev.seen = clock
      /\ dev.name \in {adv.name, slot[t].name}
  BY DEF Device
<1>6. slot[t].name \in {NoName} \cup {NameOf(k) : k \in Macs}
  BY <1>1 DEF PoolInv, PoolTypeOK
<1>. HIDE DEF t, dev
<1>7. Used' = Used \cup {t}
  BY <1>1, <1>4, <1>5 DEF Used, Slots, PoolInv, PoolTypeOK
<1>. QED
  BY <1>1, <1>2, <1>3, <1>4, <1>5, <1>6, <1>7 DEF t

LEMMA PoolStep ==
  ASSUME PoolInv, [Next]_vars
  PROVE  PoolInv'
<1>1. CASE UNCHANGED <<slot, clock>>
  BY <1>1 DEF PoolInv, PoolTypeOK, OneSlotPerMac, StampsUpToClock, Used
<1>2. CASE Tick
  <2>1. /\ UNCHANGED slot /\ Used' = Used
        /\ clock' \in 0 .. MaxTicks /\ clock <= clock'
    BY <1>2, BleAssumption DEF Tick, Used, PoolInv, PoolTypeOK
  <2>. QED
    BY <2>1 DEF PoolInv, PoolTypeOK, OneSlotPerMac, StampsUpToClock, Used
<1>3. CASE Advertisement
  <2>1. PICK adv \in Heard : PoolUpsert(adv)
    BY <1>3 DEF Advertisement
  <2>. DEFINE t == Target(adv.mac)
  <2>2. /\ t \in Slots /\ adv.mac \in Macs /\ adv.rssi \in Rssis
        /\ slot'[t].used /\ slot'[t].mac = adv.mac
        /\ slot'[t].rssi = adv.rssi /\ slot'[t].seen = clock
        /\ slot'[t].name \in {NoName} \cup {NameOf(m) : m \in Macs}
        /\ slot' = [slot EXCEPT ![t] = slot'[t]]
        /\ Used' = Used \cup {t}
    BY <2>1, UpsertEffect
  <2>3. \A i \in Used : i # t => slot[i].mac # adv.mac
    BY TargetCases DEF Matching, PoolInv, OneSlotPerMac
  <2>4. UNCHANGED clock
    BY <1>3 DEF Advertisement
  <2>. HIDE DEF t
  <2>5. \A i \in Slots : i # t => slot'[i] = slot[i]
    BY <2>2 DEF PoolInv, PoolTypeOK
  <2>6. slot'[t] \in [used : BOOLEAN, mac : Macs \cup {NoMac}, rssi : Int,
                      seen : 0 .. MaxTicks,
                      name : {NoName} \cup {NameOf(m) : m \in Macs}]
    <3>1. PICK d : d = Device(slot[t], adv)
      OBVIOUS
    <3>2. slot'[t] = d
      BY <2>1, <2>2, <3>1 DEF PoolUpsert, PoolInv, PoolTypeOK, t
    <3>3. d = [used |-> TRUE, mac |-> d.mac, rssi |-> d.rssi, seen |-> d.seen,
               name |-> d.name]
      BY <3>1 DEF Device
    <3>. QED
      BY <2>2, <3>2, <3>3, BleAssumption DEF PoolInv, PoolTypeOK
  <2>7. PoolTypeOK'
    <3>1. slot' \in [Slots -> [used : BOOLEAN, mac : Macs \cup {NoMac}, rssi : Int,
                               seen : 0 .. MaxTicks,
                               name : {NoName} \cup {NameOf(m) : m \in Macs}]]
      BY <2>2, <2>6, Zenon DEF PoolInv, PoolTypeOK
    <3>2. \A i \in Used' : slot'[i].mac \in Macs /\ slot'[i].rssi \in Rssis
      BY <2>2, <2>5 DEF PoolInv, PoolTypeOK, Used
    <3>. QED
      BY <2>4, <3>1, <3>2 DEF PoolInv, PoolTypeOK
  <2>8. OneSlotPerMac'
    BY <2>2, <2>3, <2>5 DEF PoolInv, OneSlotPerMac, Used
  <2>9. StampsUpToClock'
    BY <2>2, <2>4, <2>5, BleAssumption
    DEF PoolInv, PoolTypeOK, StampsUpToClock, Used
  <2>. QED
    BY <2>7, <2>8, <2>9 DEF PoolInv
<1>. QED
  BY <1>1, <1>2, <1>3
  DEF Next, ScanTask, HostTask, vars, pool, task, WaitReady, InferAddress, StartWindow,
      SkipWindow, MarkScanning, WakeUp, CancelWindow, ClearScanning, WindowEnds,
      HostReset, HostSync, TakeRecord

LEMMA PoolInit == Init => PoolInv
BY BleAssumption DEF Init, PoolInv, PoolTypeOK, OneSlotPerMac, StampsUpToClock, Used

-----------------------------------------------------------------------------
(* The refinement.                                                         *)

(* What slot i stands for in the abstract table. *)
EntryOf(i) == [ap |-> [bssid |-> slot[i].mac, rssi |-> slot[i].rssi],
               seen |-> slot[i].seen]

(* The table has as many entries as the pool has used slots, and the pool  *)
(* is full exactly when the table is.                                      *)
LEMMA EntriesCount ==
  ASSUME PoolInv
  PROVE  /\ Cardinality(Entries) \in Nat
         /\ Cardinality(Entries) <= PoolSize
         /\ Cardinality(Entries) = PoolSize <=> Used = Slots
<1>. DEFINE entry == [i \in Used |-> EntryOf(i)]
<1>1. Entries = {entry[i] : i \in Used}
  BY DEF Entries, EntryOf
<1>2. \A i, j \in Used : entry[i] = entry[j] => i = j
  <2>. SUFFICES ASSUME NEW i \in Used, NEW j \in Used, EntryOf(i) = EntryOf(j)
                PROVE  i = j
    OBVIOUS
  <2>1. EntryOf(i).ap.bssid = EntryOf(j).ap.bssid
    OBVIOUS
  <2>. QED
    BY <2>1 DEF EntryOf, PoolInv, OneSlotPerMac
<1>3. IsFiniteSet(Slots) /\ Cardinality(Slots) = PoolSize
  BY BleAssumption, CountTo DEF Slots
<1>4. Used \in SUBSET Slots
  BY DEF Used
<1>5. /\ IsFiniteSet(Used) /\ Cardinality(Used) \in Nat
      /\ Cardinality(Used) <= PoolSize
      /\ Cardinality(Used) = PoolSize <=> Used = Slots
  BY <1>3, <1>4, FS_Subset, FS_CardinalityType
<1>. HIDE DEF entry
<1>6. Cardinality(Entries) = Cardinality(Used)
  BY <1>1, <1>2, <1>5, ImageCount
<1>. QED
  BY <1>5, <1>6

(* The abstract table counts as this module does. *)
LEMMA SameCount == Table!Cardinality(Entries) = Cardinality(Entries)
BY DEF Table!Cardinality, Cardinality

(* An advertisement is the abstract table observing a beacon.              *)
LEMMA UpsertObserves ==
  ASSUME PoolInv, NEW adv \in Heard, PoolUpsert(adv)
  PROVE  Table!Next
<1>. PICK t : t = Target(adv.mac)
  OBVIOUS
<1>. DEFINE b == [bssid |-> adv.mac, rssi |-> adv.rssi]
            new == [ap |-> b, seen |-> clock]
            others == {EntryOf(i) : i \in Used \ {t}}
<1>1. /\ t \in Slots /\ adv.mac \in Macs /\ adv.rssi \in Rssis
      /\ slot'[t].used /\ slot'[t].mac = adv.mac
      /\ slot'[t].rssi = adv.rssi /\ slot'[t].seen = clock
      /\ slot' = [slot EXCEPT ![t] = slot'[t]]
      /\ Used' = Used \cup {t}
  BY UpsertEffect
<1>2. \A i \in Slots : i # t => slot'[i] = slot[i]
  BY <1>1 DEF PoolInv, PoolTypeOK
<1>3. /\ b \in {[bssid |-> m, rssi |-> r] : m \in Macs, r \in Rssis}
      /\ clock \in 0 .. MaxTicks
  BY <1>1 DEF PoolInv, PoolTypeOK
<1>4. \/ t \in Matching(adv.mac)
      \/ Matching(adv.mac) = {} /\ t \in Slots \ Used
      \/ Matching(adv.mac) = {} /\ Used = Slots /\ t \in Oldest
  BY TargetCases DEF PoolInv
<1>5. Entries = {EntryOf(i) : i \in Used}
  BY DEF Entries, EntryOf
<1>6. Entries' = others \cup {new}
  <2>1. Entries' = {EntryOf(i)' : i \in Used'}
    BY DEF Entries, EntryOf
  <2>2. EntryOf(t)' = new
    BY <1>1 DEF EntryOf
  <2>3. \A i \in Used \ {t} : EntryOf(i)' = EntryOf(i)
    BY <1>2 DEF EntryOf, Used
  <2>4. Used' = (Used \ {t}) \cup {t}
    BY <1>1
  <2>. QED
    BY <2>1, <2>2, <2>3, <2>4
<1>7. \A i, j \in Used : EntryOf(i).ap.bssid = EntryOf(j).ap.bssid => i = j
  BY DEF EntryOf, PoolInv, OneSlotPerMac
<1>8. \A e \in Entries : e.seen <= clock
  BY DEF Entries, PoolInv, StampsUpToClock
<1>9. Table!Known(b) = {EntryOf(i) : i \in Matching(adv.mac)}
  BY <1>5 DEF Table!Known, Matching, EntryOf
<1>10. SUFFICES Table!Refresh(b, clock) \/ Table!Add(b, clock) \/ Table!Replace(b, clock)
  <2>1. Table!Observe(b, clock) => Table!Next
    <3>. HIDE DEF b
    <3>. QED
      BY <1>3 DEF Table!Next
  <2>. QED
    BY <2>1, <1>8 DEF Table!Observe
<1>11. CASE t \in Matching(adv.mac)
  <2>1. t \in Used /\ Matching(adv.mac) = {t}
    BY <1>11 DEF Matching, PoolInv, OneSlotPerMac
  <2>2. Table!Known(b) = {EntryOf(t)}
    BY <2>1, <1>9
  <2>3. Entries \ {EntryOf(t)} = others
    BY <2>1, <1>5, <1>7
  <2>. QED
    BY <2>2, <2>3, <1>6 DEF Table!Refresh
<1>12. CASE Matching(adv.mac) = {} /\ t \in Slots \ Used
  <2>1. Table!Known(b) = {} /\ others = Entries
    BY <1>12, <1>5, <1>9
  <2>2. Cardinality(Entries) < PoolSize
    BY <1>12, EntriesCount, BleAssumption
  <2>. QED
    BY <2>1, <2>2, <1>6, SameCount DEF Table!Add
<1>13. CASE Matching(adv.mac) = {} /\ Used = Slots /\ t \in Oldest
  <2>1. Table!Known(b) = {} /\ t \in Used
    BY <1>13, <1>9 DEF Oldest
  <2>2. Cardinality(Entries) >= PoolSize
    BY <1>13, EntriesCount, BleAssumption
  <2>3. EntryOf(t) \in Table!Stalest
    BY <1>13, <2>1, <1>5 DEF Table!Stalest, EntryOf, Oldest
  <2>4. Entries \ {EntryOf(t)} = others
    BY <2>1, <1>5, <1>7
  <2>. QED
    BY <2>1, <2>2, <2>3, <2>4, <1>6, SameCount DEF Table!Replace
<1>. QED
  BY <1>4, <1>11, <1>12, <1>13

LEMMA StepSimulation ==
  ASSUME PoolInv, [Next]_vars
  PROVE  [Table!Next]_Entries
<1>1. ASSUME UNCHANGED slot
      PROVE  UNCHANGED Entries
  <2>1. Used' = Used
    BY <1>1 DEF Used
  <2>. QED
    BY <1>1, <2>1 DEF Entries
<1>2. Advertisement \/ UNCHANGED slot
  BY DEF Next, ScanTask, HostTask, vars, pool, task, WaitReady, InferAddress, StartWindow,
         SkipWindow, MarkScanning, WakeUp, CancelWindow, ClearScanning, WindowEnds,
         HostReset, HostSync, TakeRecord, Tick
<1>. QED
  BY <1>1, <1>2, UpsertObserves DEF Advertisement

(* However advertisements, resets and windows interleave, the pool of      *)
(* devices has one entry per address, loses none while a slot is free, and *)
(* replaces one that was silent the longest when none is.                  *)
THEOREM DevicesImplementTable == Spec => RefinesApTable
<1>1. Init => Table!Init
  BY DEF Init, Table!Init, Entries, Used
<1>. QED
  BY <1>1, PoolInit, PoolStep, StepSimulation, PTL
  DEF Spec, RefinesApTable, Table!Spec

-----------------------------------------------------------------------------
(* Names.                                                                  *)

(* A device in the pool goes by its own name, or by none. *)
NamesOwn == \A i \in Used : slot[i].name \in {NoName, NameOf(slot[i].mac)}

(* What a step may do to the name in a slot, which is what the property    *)
(* says of one slot.                                                       *)
NameStep(i) ==
  slot'[i].used =>
    /\ slot'[i].name \in {NoName, NameOf(slot'[i].mac)}
    /\ (slot[i].used /\ slot'[i].mac = slot[i].mac /\ slot[i].name # NoName)
         => slot'[i].name # NoName

LEMMA NamesStep ==
  ASSUME PoolInv, NamesOwn, [Next]_vars
  PROVE  \A i \in Slots : NameStep(i)
<1>1. ASSUME UNCHANGED slot
      PROVE  \A i \in Slots : NameStep(i)
  BY <1>1 DEF NamesOwn, NameStep, Used
<1>2. CASE Advertisement
  <2>1. PICK adv \in Heard : PoolUpsert(adv)
    BY <1>2 DEF Advertisement
  <2>. DEFINE t == Target(adv.mac)
  <2>2. t \in Slots
    BY <2>1, UpsertEffect
  <2>3. PICK m \in Macs : adv \in [mac : {m}, rssi : Rssis, name : {NoName, NameOf(m)}]
    BY DEF Heard
  <2>4. adv.mac = m /\ adv.name \in {NoName, NameOf(m)}
    BY <2>3
  <2>5. /\ slot'[t] = Device(slot[t], adv)
        /\ \A i \in Slots : i # t => slot'[i] = slot[i]
    BY <2>1, <2>2 DEF PoolUpsert, PoolInv, PoolTypeOK
  <2>. HIDE DEF t
  <2>6. /\ slot'[t].mac = m
        /\ slot'[t].name = IF adv.name = NoName /\ slot[t].used /\ slot[t].mac = m
                             THEN slot[t].name ELSE adv.name
    BY <2>4, <2>5 DEF Device
  <2>7. NameStep(t)
    BY <2>2, <2>4, <2>6 DEF NameStep, NamesOwn, Used
  <2>8. \A i \in Slots : i # t => NameStep(i)
    BY <2>5 DEF NameStep, NamesOwn, Used
  <2>. QED
    BY <2>7, <2>8
<1>3. Advertisement \/ UNCHANGED slot
  BY DEF Next, ScanTask, HostTask, vars, pool, task, WaitReady, InferAddress, StartWindow,
         SkipWindow, MarkScanning, WakeUp, CancelWindow, ClearScanning, WindowEnds,
         HostReset, HostSync, TakeRecord, Tick
<1>. QED
  BY <1>1, <1>2, <1>3

(* A slot that passes from one device to another brings no name along, and *)
(* nameless advertisements do not take a device's name away.               *)
THEOREM NamesAreKept == Spec => DeviceKeepsItsName
<1>1. Init => NamesOwn
  BY DEF Init, NamesOwn, Used
<1>2. NamesOwn /\ PoolInv /\ [Next]_vars => NamesOwn'
  <2>1. (\A i \in Slots : NameStep(i)) => NamesOwn'
    BY DEF NameStep, NamesOwn, Used, Slots
  <2>. QED
    BY <2>1, NamesStep
<1>3. NamesOwn /\ PoolInv /\ [Next]_vars => [\A i \in Slots : NameStep(i)]_vars
  BY NamesStep
<1>. QED
  BY <1>1, <1>2, <1>3, PoolInit, PoolStep, PTL DEF Spec, DeviceKeepsItsName, NameStep

=============================================================================
