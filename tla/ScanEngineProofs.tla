-------------------------- MODULE ScanEngineProofs --------------------------
(***************************************************************************)
(* Proofs about the scan engine, for every pool, sweep, queue and ring     *)
(* size and every set of beacons: the types and bounds of TypeOK, one slot *)
(* per BSSID, that a sweep never evicts what it has heard itself, that the *)
(* pool implements the abstract table of access points, that the queue     *)
(* keeps the order of a sweep, that a history slides over the samples, and *)
(* that a snapshot shows what the pool holds and the filter lets through.  *)
(***************************************************************************)
EXTENDS ScanEngine, Counting, SequenceTheorems

-----------------------------------------------------------------------------
(* Choosing a slot.                                                        *)

(* The first slot of a nonempty set of slots is one of them. *)
LEMMA FirstIn ==
  ASSUME NEW S \in SUBSET Slots, S # {}
  PROVE  First(S) \in S
<1>1. S \in SUBSET Nat
  BY ScanAssumption DEF Slots
<1> QED BY <1>1, LeastNatural DEF First

(* Among used slots there is a least recently seen one. *)
LEMMA OldestExists ==
  ASSUME TypeOK, Used # {}
  PROVE  Oldest # {}
<1> DEFINE stamps == {slot[i].seen : i \in Used}
<1>1. \A i \in Used : slot[i].seen \in Nat
  BY ScanAssumption DEF TypeOK, Used
<1>2. stamps \in SUBSET Nat /\ stamps # {}
  BY <1>1
<1>3. PICK least \in stamps : \A s \in stamps : least <= s
  <2> HIDE DEF stamps
  <2> QED BY <1>2, LeastNatural
<1> QED BY <1>3 DEF Oldest

(* The slot of a record: the one that holds its BSSID; else a free one;    *)
(* else, when every slot is taken, a least recently seen one.              *)
LEMMA TargetCases ==
  ASSUME TypeOK, NEW rec
  PROVE  \/ Target(rec) \in Matching(rec)
         \/ Matching(rec) = {} /\ Target(rec) \in Slots \ Used
         \/ Matching(rec) = {} /\ Used = Slots /\ Target(rec) \in Oldest
<1>1. Matching(rec) \in SUBSET Slots /\ Oldest \in SUBSET Slots /\ Used \in SUBSET Slots
  BY DEF Matching, Oldest, Used
<1>2. CASE Matching(rec) # {}
  BY <1>1, <1>2, FirstIn DEF Target
<1>3. CASE Matching(rec) = {} /\ Slots \ Used # {}
  BY <1>3, FirstIn DEF Target
<1>4. CASE Matching(rec) = {} /\ Slots \ Used = {}
  <2>1. Used = Slots
    BY <1>1, <1>4, Zenon
  <2>2. 1 \in Slots
    BY ScanAssumption DEF Slots
  <2> QED BY <1>1, <1>4, <2>1, <2>2, OldestExists, FirstIn DEF Target
<1> QED BY <1>2, <1>3, <1>4

COROLLARY TargetIsSlot ==
  ASSUME TypeOK, NEW rec
  PROVE  Target(rec) \in Slots
BY TargetCases DEF Matching, Used, Oldest

-----------------------------------------------------------------------------
(* Types and bounds.                                                       *)

(* A ring stays a ring, whatever is appended. *)
LEMMA HistoryAppendType ==
  ASSUME NEW h \in History, NEW rssi \in Int
  PROVE  HistoryAppend(h, rssi) \in History
<1>1. (h.head + 1) % HistoryLen \in 0 .. HistoryLen - 1
  BY ScanAssumption DEF History
<1>2. Lesser(h.count + 1, HistoryLen) \in 0 .. HistoryLen
  BY ScanAssumption DEF History, Lesser
<1>3. [h.samples EXCEPT ![h.head] = rssi] \in [0 .. HistoryLen - 1 -> Int]
  BY DEF History
<1> QED BY <1>1, <1>2, <1>3 DEF HistoryAppend, History

(* A post keeps the queue inside its depth. *)
LEMMA PostType ==
  ASSUME NEW q \in Seq(Beacons), Len(q) <= QueueDepth, NEW rec \in Beacons
  PROVE  Post(q, rec) \in Seq(Beacons) /\ Len(Post(q, rec)) <= QueueDepth
BY ScanAssumption DEF Post

LEMMA TypeInit == Init => TypeOK
<1> SUFFICES ASSUME Init PROVE TypeOK
  OBVIOUS
<1>1. EmptyHistory \in History
  BY ScanAssumption DEF EmptyHistory, History
<1>2. slot \in [Slots -> [used : BOOLEAN, ap : Beacons \cup {NoBeacon},
                          seen : 0 .. MaxSweeps, hist : History]]
  BY <1>1, ScanAssumption DEF Init
<1> QED BY <1>2, ScanAssumption DEF Init, TypeOK, DefaultFilter

LEMMA TypeStep == TypeOK /\ [Next]_vars => TypeOK'
<1> SUFFICES ASSUME TypeOK, [Next]_vars PROVE TypeOK'
  OBVIOUS
<1>1. CASE Sweep
  <2>1. PICK n \in 0 .. ScanBufMax : \E recs \in [1 .. n -> Beacons] : scanBuf' = recs
    BY <1>1 DEF Sweep
  <2>2. scanBuf' \in Seq(Beacons) /\ Len(scanBuf') = n
    BY <2>1, ScanAssumption
  <2> QED BY <1>1, <2>2, ScanAssumption DEF Sweep, TypeOK
<1>2. CASE StoreRecord
  <2> DEFINE rec == scanBuf[next]
             entry == [used |-> TRUE, ap |-> rec, seen |-> clock,
                       hist |-> HistoryAppend(slot[Target(rec)].hist, rec.rssi)]
  <2>1. rec \in Beacons /\ rec.rssi \in Int
    BY <1>2, ScanAssumption DEF StoreRecord, TypeOK
  <2>2. Target(rec) \in Slots
    BY TargetIsSlot
  <2>3. slot[Target(rec)].hist \in History
    BY <2>2 DEF TypeOK
  <2>4. HistoryAppend(slot[Target(rec)].hist, rec.rssi) \in History
    BY <2>1, <2>3, HistoryAppendType
  <2>5. entry \in [used : BOOLEAN, ap : Beacons \cup {NoBeacon},
                   seen : 0 .. MaxSweeps, hist : History]
    BY <2>1, <2>4 DEF TypeOK
  <2>6. slot' = [slot EXCEPT ![Target(rec)] = entry]
    BY <1>2 DEF StoreRecord, Upsert
  <2>7. slot' \in [Slots -> [used : BOOLEAN, ap : Beacons \cup {NoBeacon},
                             seen : 0 .. MaxSweeps, hist : History]]
    <3> HIDE DEF entry
    <3> QED BY <2>5, <2>6 DEF TypeOK
  <2>8. queue' \in Seq(Beacons) /\ Len(queue') <= QueueDepth
    BY <1>2, <2>1, PostType DEF StoreRecord, TypeOK
  <2>9. next' \in 1 .. Len(scanBuf') + 1
    BY <1>2 DEF StoreRecord, TypeOK
  <2>10. UNCHANGED <<clock, pc, scanBuf, filter, backlog>>
    BY <1>2 DEF StoreRecord
  <2> QED BY <2>7, <2>8, <2>9, <2>10 DEF TypeOK
<1>3. CASE EndSweep
  BY <1>3, ScanAssumption DEF EndSweep, TypeOK
<1>4. CASE TakeRecord
  <2>1. Tail(queue) \in Seq(Beacons) /\ Len(Tail(queue)) = Len(queue) - 1
    BY <1>4, HeadTailProperties DEF TakeRecord, TypeOK
  <2>2. queue' \in Seq(Beacons) /\ Len(queue') <= QueueDepth
    BY <1>4, <2>1, ScanAssumption DEF TakeRecord, TypeOK
  <2> QED BY <1>4, <2>2 DEF TakeRecord, TypeOK
<1>5. CASE SetFilter
  <2>1. filter' \in [band_2g : BOOLEAN, band_5g : BOOLEAN, min_rssi : -100 .. -30,
                     ssid_pattern : Patterns \cup {NoPattern}]
    <3>1. CASE \E en \in BOOLEAN : SetBand2g(en) \/ SetBand5g(en)
      BY <3>1 DEF SetBand2g, SetBand5g, TypeOK
    <3>2. CASE \E dbm \in MinRssiRequests : SetMinRssi(dbm)
      <4>1. \A dbm \in Int : Clamp(dbm) \in -100 .. -30
        BY DEF Clamp
      <4>2. PICK dbm \in MinRssiRequests : SetMinRssi(dbm)
        BY <3>2
      <4>3. Clamp(dbm) \in -100 .. -30
        BY <4>1, ScanAssumption
      <4> QED BY <4>2, <4>3 DEF SetMinRssi, TypeOK
    <3>3. CASE \E p \in Patterns \cup {NoPattern} : SetSsidPattern(p)
      BY <3>3 DEF SetSsidPattern, TypeOK
    <3> QED BY <1>5, <3>1, <3>2, <3>3 DEF SetFilter
  <2> QED BY <1>5, <2>1 DEF SetFilter, TypeOK
<1>6. CASE UNCHANGED vars
  BY <1>6 DEF vars, TypeOK
<1> QED BY <1>1, <1>2, <1>3, <1>4, <1>5, <1>6 DEF Next, ScanTask

(* Types and bounds hold for every size: ring indices stay inside the      *)
(* ring, the queue inside its depth, the RSSI threshold inside -100..-30.  *)
THEOREM TypeCorrect == Spec => []TypeOK
BY TypeInit, TypeStep, PTL DEF Spec

-----------------------------------------------------------------------------
(* What a sweep heard stays in the pool.                                   *)

(* No two slots hold the same access point. *)
OneSlotPerBssid ==
  \A i, j \in Used : slot[i].ap.bssid = slot[j].ap.bssid => i = j

(* No slot carries a stamp of the future. *)
StampsUpToClock == \A i \in Used : slot[i].seen <= clock

(* During a sweep, a slot that carries its stamp holds the access point of *)
(* one of the records stored so far: this is what bounds the number of     *)
(* such slots by the number of stored records.                             *)
StampedBySweep ==
  pc = "store" =>
    \A i \in Used : slot[i].seen = clock =>
      \E k \in 1 .. next - 1 : scanBuf[k].bssid = slot[i].ap.bssid

SweepInv ==
  TypeOK /\ OneSlotPerBssid /\ StampsUpToClock /\ StampedBySweep /\ SweepRetained

(* While records of the sweep remain to be stored, a full pool has a slot  *)
(* that this sweep has not stamped: the stamped ones hold distinct access  *)
(* points of fewer records than a sweep can have, and that is at most the  *)
(* size of the pool.                                                       *)
LEMMA UnstampedSlot ==
  ASSUME SweepInv, pc = "store", next <= Len(scanBuf), Used = Slots
  PROVE  \E i \in Slots : slot[i].seen < clock
<1> SUFFICES ASSUME \A i \in Slots : ~(slot[i].seen < clock)
             PROVE  FALSE
  OBVIOUS
<1>1. \A i \in Slots : slot[i].seen = clock
  BY ScanAssumption DEF SweepInv, StampsUpToClock, TypeOK
<1>2. \A i \in Slots : \E k \in 1 .. next - 1 : scanBuf[k].bssid = slot[i].ap.bssid
  BY <1>1 DEF SweepInv, StampedBySweep
<1> DEFINE record ==
      [i \in Slots |-> CHOOSE k \in 1 .. next - 1 : scanBuf[k].bssid = slot[i].ap.bssid]
<1>3. \A i \in Slots : /\ record[i] \in 1 .. next - 1
                       /\ scanBuf[record[i]].bssid = slot[i].ap.bssid
  BY <1>2
<1>4. record \in [Slots -> 1 .. next - 1]
  BY <1>3
<1>5. next - 1 \in Nat /\ next - 1 < PoolSize
  BY ScanAssumption DEF SweepInv, TypeOK
<1>6. /\ IsFiniteSet(Slots) /\ Cardinality(Slots) = PoolSize
      /\ IsFiniteSet(1 .. next - 1) /\ Cardinality(1 .. next - 1) = next - 1
  <2>1. PoolSize \in Nat
    BY ScanAssumption
  <2> QED BY <1>5, <2>1, CountTo DEF Slots
<1>7. PICK i \in Slots, j \in Slots : i # j /\ record[i] = record[j]
  <2> HIDE DEF record
  <2> QED BY <1>4, <1>5, <1>6, FS_PigeonHole
<1>8. slot[i].ap.bssid = slot[j].ap.bssid
  BY <1>3, <1>7
<1> QED BY <1>7, <1>8 DEF SweepInv, OneSlotPerBssid

(* The slot a record goes to is not one that holds another access point    *)
(* heard in the same sweep.                                                *)
LEMMA TargetSparesSweep ==
  ASSUME SweepInv, pc = "store", next <= Len(scanBuf), NEW rec,
         Target(rec) \in Used, slot[Target(rec)].seen = clock
  PROVE  Target(rec) \in Matching(rec)
<1>1. CASE Used = Slots /\ Target(rec) \in Oldest
  <2>1. PICK i \in Slots : slot[i].seen < clock
    BY <1>1, UnstampedSlot
  <2>2. slot[Target(rec)].seen <= slot[i].seen
    BY <1>1, <2>1 DEF Oldest
  <2> QED BY <2>1, <2>2, ScanAssumption DEF SweepInv, TypeOK, Used
<1> QED BY <1>1, TargetCases DEF SweepInv

LEMMA SweepStore ==
  ASSUME SweepInv, StoreRecord
  PROVE  OneSlotPerBssid' /\ StampsUpToClock' /\ StampedBySweep' /\ SweepRetained'
<1> DEFINE rec == scanBuf[next]
           t == Target(rec)
<1>1. t \in Slots
  BY TargetIsSlot DEF SweepInv
<1>2. /\ slot'[t].used /\ slot'[t].ap = rec /\ slot'[t].seen = clock
      /\ \A i \in Slots : i # t => slot'[i] = slot[i]
  BY <1>1 DEF SweepInv, TypeOK, StoreRecord, Upsert
<1>3. Used' = Used \cup {t}
  BY <1>1, <1>2 DEF Used, Slots
<1>4. /\ pc = "store" /\ pc' = "store" /\ next <= Len(scanBuf) /\ next \in Nat \ {0}
      /\ next' = next + 1 /\ UNCHANGED <<clock, scanBuf>>
  BY DEF StoreRecord, SweepInv, TypeOK
<1>5. \A i \in Used : i # t => slot[i].ap.bssid # rec.bssid
  <2> SUFFICES ASSUME NEW i \in Used, slot[i].ap.bssid = rec.bssid
               PROVE  i = t
    OBVIOUS
  <2>1. i \in Matching(rec)
    BY DEF Matching
  <2>2. t \in Matching(rec)
    BY <2>1, TargetCases DEF SweepInv
  <2> QED BY <2>1, <2>2 DEF Matching, SweepInv, OneSlotPerBssid
<1> HIDE DEF t
<1>6. OneSlotPerBssid'
  BY <1>2, <1>3, <1>5 DEF SweepInv, OneSlotPerBssid, Used
<1>7. StampsUpToClock'
  BY <1>2, <1>3, <1>4, ScanAssumption DEF SweepInv, StampsUpToClock, TypeOK, Used
<1>8. StampedBySweep'
  <2> SUFFICES ASSUME NEW i \in Used', slot'[i].seen = clock
               PROVE  \E k \in 1 .. next : scanBuf[k].bssid = slot'[i].ap.bssid
    BY <1>4 DEF StampedBySweep
  <2>1. CASE i = t
    BY <2>1, <1>2, <1>4
  <2>2. CASE i # t
    <3>1. i \in Used /\ slot'[i] = slot[i]
      BY <2>2, <1>2, <1>3 DEF Used
    <3>2. PICK k \in 1 .. next - 1 : scanBuf[k].bssid = slot[i].ap.bssid
      BY <3>1, <1>4 DEF SweepInv, StampedBySweep
    <3> QED BY <3>1, <3>2, <1>4
  <2> QED BY <2>1, <2>2
<1>9. SweepRetained'
  <2> SUFFICES ASSUME NEW k \in 1 .. next
               PROVE  \E i \in Used' : slot'[i].ap.bssid = scanBuf[k].bssid /\ slot'[i].seen = clock
    BY <1>4 DEF SweepRetained, Matching
  <2>1. CASE k = next
    BY <2>1, <1>2, <1>3
  <2>2. CASE k # next
    <3>1. PICK i \in Matching(scanBuf[k]) : slot[i].seen = clock
      BY <2>2, <1>4 DEF SweepInv, SweepRetained
    <3>2. i \in Used /\ slot[i].ap.bssid = scanBuf[k].bssid
      BY <3>1 DEF Matching
    <3>3. CASE i # t
      BY <3>1, <3>2, <3>3, <1>2, <1>3 DEF Used
    <3>4. CASE i = t
      <4>1. t \in Matching(rec)
        BY <3>1, <3>2, <3>4, <1>4, TargetSparesSweep DEF t
      <4>2. rec.bssid = scanBuf[k].bssid
        BY <4>1, <3>2, <3>4 DEF Matching
      <4> QED BY <4>2, <1>2, <1>3
    <3> QED BY <3>3, <3>4
  <2> QED BY <2>1, <2>2
<1> QED BY <1>6, <1>7, <1>8, <1>9

LEMMA SweepInit == Init => SweepInv
BY TypeInit DEF Init, SweepInv, OneSlotPerBssid, StampsUpToClock, StampedBySweep,
                SweepRetained, Used

LEMMA SweepStep == SweepInv /\ [Next]_vars => SweepInv'
<1> SUFFICES ASSUME SweepInv, [Next]_vars PROVE SweepInv'
  OBVIOUS
<1>1. TypeOK'
  BY TypeStep DEF SweepInv
<1>2. CASE Sweep
  <2>1. /\ UNCHANGED slot /\ clock' = clock + 1 /\ next' = 1 /\ clock \in Nat
    BY <1>2, ScanAssumption DEF Sweep, SweepInv, TypeOK
  <2>2. Used' = Used
    BY <2>1 DEF Used
  <2>3. OneSlotPerBssid'
    BY <2>1, <2>2 DEF SweepInv, OneSlotPerBssid
  <2>4. \A i \in Used : slot[i].seen \in Nat /\ slot[i].seen < clock'
    BY <2>1, ScanAssumption DEF SweepInv, StampsUpToClock, TypeOK, Used
  <2>5. StampsUpToClock' /\ StampedBySweep'
    BY <2>1, <2>2, <2>4 DEF StampsUpToClock, StampedBySweep
  <2>6. SweepRetained'
    BY <2>1 DEF SweepRetained
  <2> QED BY <1>1, <2>3, <2>5, <2>6 DEF SweepInv
<1>3. CASE StoreRecord
  BY <1>1, <1>3, SweepStore DEF SweepInv
<1>4. CASE EndSweep
  <2>1. UNCHANGED <<slot, clock>> /\ pc' = "idle"
    BY <1>4 DEF EndSweep
  <2>2. Used' = Used
    BY <2>1 DEF Used
  <2> QED BY <1>1, <2>1, <2>2 DEF SweepInv, OneSlotPerBssid, StampsUpToClock,
                                 StampedBySweep, SweepRetained
<1>5. CASE UNCHANGED <<slot, clock, pc, scanBuf, next>>
  <2>1. Used' = Used
    BY <1>5 DEF Used
  <2> QED BY <1>1, <1>5, <2>1 DEF SweepInv, OneSlotPerBssid, StampsUpToClock,
                                 StampedBySweep, SweepRetained, Matching
<1>6. CASE TakeRecord \/ SetFilter \/ UNCHANGED vars
  BY <1>5, <1>6 DEF TakeRecord, SetFilter, vars
<1> QED BY <1>2, <1>3, <1>4, <1>6 DEF Next, ScanTask

(* A sweep never evicts an access point it has heard itself, for every     *)
(* pool size, every sweep up to that size and every order of the records.  *)
THEOREM SweepKeepsWhatItHeard == Spec => []SweepRetained
<1>1. SweepInv => SweepRetained
  BY DEF SweepInv
<1> QED BY <1>1, SweepInit, SweepStep, PTL DEF Spec

-----------------------------------------------------------------------------
(* The pool implements the abstract table.                                 *)

(* What slot i stands for in the abstract table. *)
EntryOf(i) == [ap |-> slot[i].ap, seen |-> slot[i].seen]

(* The table has no more entries than the pool has used slots, and, because *)
(* no two of them hold the same access point, no fewer either.              *)
LEMMA EntriesCount ==
  ASSUME OneSlotPerBssid, IsFiniteSet(Used)
  PROVE  Cardinality(Entries) = Cardinality(Used)
<1> DEFINE entry == [i \in Used |-> EntryOf(i)]
<1>1. Entries = {entry[i] : i \in Used}
  BY DEF Entries, EntryOf
<1>2. \A i, j \in Used : entry[i] = entry[j] => i = j
  <2> SUFFICES ASSUME NEW i \in Used, NEW j \in Used, EntryOf(i) = EntryOf(j)
               PROVE  i = j
    OBVIOUS
  <2>1. slot[i].ap = slot[j].ap
    BY DEF EntryOf
  <2> QED BY <2>1 DEF OneSlotPerBssid
<1> HIDE DEF entry
<1> QED BY <1>1, <1>2, ImageCount

(* The pool's slots are PoolSize many, and the used ones are some of them. *)
LEMMA UsedCount ==
  /\ IsFiniteSet(Used) /\ Cardinality(Used) \in Nat
  /\ Cardinality(Used) <= PoolSize
  /\ Cardinality(Used) = PoolSize <=> Used = Slots
<1>1. IsFiniteSet(Slots) /\ Cardinality(Slots) = PoolSize
  BY ScanAssumption, CountTo DEF Slots
<1>2. Used \in SUBSET Slots
  BY DEF Used
<1> QED BY <1>1, <1>2, FS_Subset, FS_CardinalityType

(* The abstract table counts as this module does. *)
LEMMA SameCount == Table!Cardinality(Entries) = Cardinality(Entries)
BY DEF Table!Cardinality, Cardinality

(* Storing a record is the abstract table observing a beacon: it refreshes *)
(* the entry of the record's BSSID, adds one if a slot is free, and else   *)
(* replaces a stalest one.                                                 *)
LEMMA StoreObserves ==
  ASSUME SweepInv, StoreRecord
  PROVE  Table!Next
<1> PICK rec : rec = scanBuf[next]
  OBVIOUS
<1> PICK t : t = Target(rec)
  OBVIOUS
<1> DEFINE new == [ap |-> rec, seen |-> clock]
           others == {EntryOf(i) : i \in Used \ {t}}
<1>1. t \in Slots /\ rec \in Beacons /\ clock \in 0 .. MaxSweeps
  <2>1. t \in Slots
    BY TargetIsSlot DEF SweepInv
  <2> QED BY <2>1 DEF SweepInv, TypeOK, StoreRecord
<1>2. /\ slot'[t].used /\ slot'[t].ap = rec /\ slot'[t].seen = clock
      /\ \A i \in Slots : i # t => slot'[i] = slot[i]
  BY <1>1 DEF SweepInv, TypeOK, StoreRecord, Upsert
<1>3. Used' = Used \cup {t}
  BY <1>1, <1>2 DEF Used, Slots
<1>4. \/ t \in Matching(rec)
      \/ Matching(rec) = {} /\ t \in Slots \ Used
      \/ Matching(rec) = {} /\ Used = Slots /\ t \in Oldest
  BY TargetCases DEF SweepInv
<1>5. Entries' = others \cup {new}
  <2>1. Entries' = {EntryOf(i)' : i \in Used'}
    BY DEF Entries, EntryOf
  <2>2. EntryOf(t)' = new
    BY <1>2 DEF EntryOf
  <2>3. \A i \in Used \ {t} : EntryOf(i)' = EntryOf(i)
    BY <1>2 DEF EntryOf, Used
  <2>4. Used' = (Used \ {t}) \cup {t}
    BY <1>3
  <2> QED BY <2>1, <2>2, <2>3, <2>4
<1>6. Entries = {EntryOf(i) : i \in Used}
  BY DEF Entries, EntryOf
<1>7. \A i, j \in Used : EntryOf(i).ap.bssid = EntryOf(j).ap.bssid => i = j
  BY DEF EntryOf, SweepInv, OneSlotPerBssid
<1>8. \A e \in Entries : e.seen <= clock
  BY DEF Entries, SweepInv, StampsUpToClock
<1>9. Table!Known(rec) = {EntryOf(i) : i \in Matching(rec)}
  BY <1>6 DEF Table!Known, Matching, EntryOf
<1>10. CASE t \in Matching(rec)
  <2>1. t \in Used /\ Matching(rec) = {t}
    BY <1>10 DEF Matching, SweepInv, OneSlotPerBssid
  <2>2. Table!Known(rec) = {EntryOf(t)}
    BY <2>1, <1>9
  <2>3. Entries \ {EntryOf(t)} = others
    BY <2>1, <1>6, <1>7
  <2>4. Table!Refresh(rec, clock)
    BY <2>2, <2>3, <1>5 DEF Table!Refresh
  <2> QED BY <2>4, <1>1, <1>8 DEF Table!Next, Table!Observe
<1>11. CASE Matching(rec) = {} /\ t \in Slots \ Used
  <2>1. Table!Known(rec) = {} /\ others = Entries
    BY <1>11, <1>6, <1>9
  <2>2. Cardinality(Entries) < PoolSize
    BY <1>11, UsedCount, EntriesCount, ScanAssumption DEF SweepInv
  <2>3. Table!Add(rec, clock)
    BY <2>1, <2>2, <1>5, SameCount DEF Table!Add
  <2> QED BY <2>3, <1>1, <1>8 DEF Table!Next, Table!Observe
<1>12. CASE Matching(rec) = {} /\ Used = Slots /\ t \in Oldest
  <2>1. Table!Known(rec) = {} /\ t \in Used
    BY <1>12, <1>9 DEF Oldest
  <2>2. Cardinality(Entries) >= PoolSize
    BY <1>12, UsedCount, EntriesCount, ScanAssumption DEF SweepInv
  <2>3. EntryOf(t) \in Table!Stalest
    BY <1>12, <2>1, <1>6 DEF Table!Stalest, EntryOf, Oldest
  <2>4. Entries \ {EntryOf(t)} = others
    BY <2>1, <1>6, <1>7
  <2>5. Table!Replace(rec, clock)
    BY <2>1, <2>2, <2>3, <2>4, <1>5, SameCount DEF Table!Replace
  <2> QED BY <2>5, <1>1, <1>8 DEF Table!Next, Table!Observe
<1> QED BY <1>4, <1>10, <1>11, <1>12

(* Every step of the engine is a step of the abstract table or leaves it   *)
(* as it is.                                                               *)
LEMMA StepSimulation ==
  SweepInv /\ [Next]_vars => [Table!Next]_Entries
<1>1. UNCHANGED slot => UNCHANGED Entries
  <2> SUFFICES ASSUME UNCHANGED slot PROVE Entries' = Entries
    OBVIOUS
  <2>1. Used' = Used
    BY DEF Used
  <2> QED BY <2>1 DEF Entries
<1>2. Sweep \/ EndSweep \/ TakeRecord \/ SetFilter \/ UNCHANGED vars => UNCHANGED slot
  BY DEF Sweep, EndSweep, TakeRecord, SetFilter, vars
<1> QED BY <1>1, <1>2, StoreObserves DEF Next, ScanTask

(* The pool of the scan engine, with its slots, its queue and its          *)
(* interleaved tasks, implements the table it promises: one entry per      *)
(* BSSID, no entry lost while a slot is free, and only a stalest one       *)
(* replaced when none is.                                                  *)
THEOREM PoolImplementsTable == Spec => RefinesApTable
<1>1. Init => Table!Init
  BY DEF Init, Table!Init, Entries, Used
<1> QED BY <1>1, SweepInit, SweepStep, StepSimulation, PTL DEF Spec, RefinesApTable, Table!Spec

-----------------------------------------------------------------------------
(* The queue during a sweep.                                               *)

Cut(posted) == SubSeq(posted, 1, Lesser(Len(posted), QueueDepth))

(* Posting to a queue that holds the beginning of what was posted leaves   *)
(* it holding the beginning.                                               *)
LEMMA PostToCut ==
  ASSUME NEW posted \in Seq(Beacons), NEW rec \in Beacons
  PROVE  Post(Cut(posted), rec) = Cut(Append(posted, rec))
<1>. DEFINE more == Append(posted, rec)
<1>1. more \in Seq(Beacons) /\ Len(more) = Len(posted) + 1 /\ Len(posted) \in Nat
      /\ \A i \in 1 .. Len(posted) : more[i] = posted[i]
  BY AppendProperties
<1>2. QueueDepth \in Nat \ {0}
  BY ScanAssumption
<1>. HIDE DEF more
<1>3. CASE Len(posted) < QueueDepth
  <2>1. Cut(posted) = posted /\ Cut(more) = more
    BY <1>1, <1>2, <1>3, SubSeqFull DEF Cut, Lesser
  <2>. QED
    BY <1>3, <2>1 DEF Post, more
<1>4. CASE Len(posted) >= QueueDepth
  <2>1. Cut(posted) = SubSeq(posted, 1, QueueDepth) /\ Cut(more) = SubSeq(more, 1, QueueDepth)
    BY <1>1, <1>2, <1>4 DEF Cut, Lesser
  <2>2. /\ SubSeq(posted, 1, QueueDepth) \in Seq(Beacons)
        /\ Len(SubSeq(posted, 1, QueueDepth)) = QueueDepth
        /\ \A i \in 1 .. QueueDepth : SubSeq(posted, 1, QueueDepth)[i] = posted[i]
    BY <1>2, <1>4
  <2>3. /\ SubSeq(more, 1, QueueDepth) \in Seq(Beacons)
        /\ Len(SubSeq(more, 1, QueueDepth)) = QueueDepth
        /\ \A i \in 1 .. QueueDepth : SubSeq(more, 1, QueueDepth)[i] = more[i]
    BY <1>1, <1>2, <1>4
  <2>4. SubSeq(posted, 1, QueueDepth) = SubSeq(more, 1, QueueDepth)
    BY <1>1, <1>2, <1>4, <2>2, <2>3, SeqEqual
  <2>5. Len(Cut(posted)) = QueueDepth
    BY <2>1, <2>2
  <2>6. Post(Cut(posted), rec) = Cut(posted)
    BY <1>2, <2>5 DEF Post
  <2>. QED
    BY <2>1, <2>4, <2>6 DEF more
<1>. QED
  BY <1>1, <1>2, <1>3, <1>4 DEF more

(* What has been posted in this sweep, on top of what was queued before.   *)
PostedSoFar == backlog \o SubSeq(scanBuf, 1, next - 1)

LEMMA PostedGrows ==
  ASSUME TypeOK, StoreRecord
  PROVE  /\ PostedSoFar \in Seq(Beacons)
         /\ PostedSoFar' = Append(PostedSoFar, scanBuf[next])
<1>1. /\ next \in 1 .. Len(scanBuf) /\ next' = next + 1 /\ UNCHANGED <<scanBuf, backlog>>
      /\ scanBuf \in Seq(Beacons) /\ backlog \in Seq(Beacons) /\ Len(scanBuf) \in Nat
  BY DEF TypeOK, StoreRecord
<1>. DEFINE old == SubSeq(scanBuf, 1, next - 1)
            rec == scanBuf[next]
<1>2. /\ old \in Seq(Beacons) /\ Len(old) = next - 1 /\ rec \in Beacons
      /\ \A i \in 1 .. next - 1 : old[i] = scanBuf[i]
  BY <1>1
<1>3. /\ SubSeq(scanBuf, 1, next) \in Seq(Beacons) /\ Len(SubSeq(scanBuf, 1, next)) = next
      /\ \A i \in 1 .. next : SubSeq(scanBuf, 1, next)[i] = scanBuf[i]
  BY <1>1
<1>4. /\ Append(old, rec) \in Seq(Beacons) /\ Len(Append(old, rec)) = next
      /\ \A i \in 1 .. next - 1 : Append(old, rec)[i] = old[i]
      /\ Append(old, rec)[next] = rec
  BY <1>1, <1>2, AppendProperties
<1>5. SubSeq(scanBuf, 1, next) = Append(old, rec)
  <2>. HIDE DEF old, rec
  <2>1. \A i \in 1 .. next : SubSeq(scanBuf, 1, next)[i] = Append(old, rec)[i]
    BY <1>1, <1>2, <1>3, <1>4 DEF rec
  <2>. QED
    BY <1>3, <1>4, <2>1, SeqEqual
<1>6. next' - 1 = next
  BY <1>1
<1>7. backlog \o Append(old, rec) = Append(backlog \o old, rec)
  <2>1. old \in Seq(Beacons) /\ rec \in Beacons /\ backlog \in Seq(Beacons)
    BY <1>1, <1>2
  <2>. HIDE DEF old, rec
  <2>2. /\ Append(old, rec) = old \o <<rec>> /\ <<rec>> \in Seq(Beacons)
        /\ backlog \o old \in Seq(Beacons)
        /\ Append(backlog \o old, rec) = (backlog \o old) \o <<rec>>
    BY <2>1, AppendIsConcat, ConcatProperties
  <2>. QED
    BY <2>1, <2>2, ConcatAssociative
<1>8. PostedSoFar \in Seq(Beacons)
  BY <1>1, <1>2 DEF PostedSoFar
<1>. QED
  BY <1>1, <1>5, <1>6, <1>7, <1>8 DEF PostedSoFar

(* Nothing that was queued before a sweep is lost to it or overtaken, and  *)
(* what the queue has no room for is lost from the end, for every depth.   *)
THEOREM QueueKeepsOrder == Spec => []QueueKeepsSweepPrefix
<1>. DEFINE Inv == pc = "store" => queue = Cut(PostedSoFar)
<1>1. Init => Inv
  BY DEF Init
<1>2. TypeOK /\ Inv /\ [Next]_vars => Inv'
  <2>. SUFFICES ASSUME TypeOK, Inv, [Next]_vars, pc' = "store"
                PROVE  queue' = Cut(PostedSoFar)'
    OBVIOUS
  <2>1. CASE Sweep
    <3>1. /\ backlog' = queue /\ UNCHANGED queue /\ next' - 1 = 0
      BY <2>1 DEF Sweep
    <3>2. queue \in Seq(Beacons) /\ Len(queue) \in Nat /\ Len(queue) <= QueueDepth
      BY DEF TypeOK
    <3>3. SubSeq(scanBuf', 1, 0) = <<>> /\ queue \o <<>> = queue
      BY <3>2, SubSeqEmpty
    <3>4. PostedSoFar' = queue
      BY <3>1, <3>3 DEF PostedSoFar
    <3>5. Cut(queue) = queue
      BY <3>2, ScanAssumption, SubSeqFull DEF Cut, Lesser
    <3>. QED
      BY <3>1, <3>4, <3>5 DEF Cut
  <2>2. CASE StoreRecord
    <3>1. queue' = Post(Cut(PostedSoFar), scanBuf[next]) /\ scanBuf[next] \in Beacons
      BY <2>2 DEF StoreRecord, TypeOK
    <3>2. queue' = Cut(Append(PostedSoFar, scanBuf[next]))
      BY <2>2, <3>1, PostedGrows, PostToCut
    <3>. QED
      BY <2>2, <3>2, PostedGrows DEF Cut
  <2>3. CASE EndSweep \/ TakeRecord
    BY <2>3 DEF EndSweep, TakeRecord
  <2>4. CASE SetFilter \/ UNCHANGED vars
    BY <2>4 DEF SetFilter, vars, PostedSoFar, Cut
  <2>. QED
    BY <2>1, <2>2, <2>3, <2>4 DEF Next, ScanTask
<1>3. Inv => QueueKeepsSweepPrefix
  BY DEF QueueKeepsSweepPrefix, PostedSoFar, Cut
<1>. HIDE DEF Inv
<1>. QED
  BY <1>1, <1>2, <1>3, TypeCorrect, PTL DEF Spec

-----------------------------------------------------------------------------
(* The RSSI history.                                                       *)

(* Where the ring keeps the k-th oldest of count samples when head is the  *)
(* place of the next one.                                                  *)
RingPlace(head, count, k) ==
  IF head + k - 1 < count THEN head - count + k - 1 + HistoryLen ELSE head - count + k - 1

LEMMA ReadPlace ==
  ASSUME NEW head \in 0 .. HistoryLen - 1, NEW count \in 0 .. HistoryLen, NEW k \in 1 .. count
  PROVE  /\ (((head + HistoryLen - count) % HistoryLen) + k - 1) % HistoryLen
              = RingPlace(head, count, k)
         /\ RingPlace(head, count, k) \in 0 .. HistoryLen - 1
<1>1. PICK m \in Nat \ {0} : m = HistoryLen
  BY ScanAssumption
<1>2. head \in 0 .. m - 1 /\ count \in 0 .. m /\ k \in 1 .. m /\ k <= count
  BY <1>1
<1>3. (head + m - count) % m = IF head < count THEN head + m - count ELSE head - count
  BY <1>2
<1>4. CASE head < count
  <2>1. (head + m - count + k - 1) % m
          = IF head + k - 1 < count THEN head - count + k - 1 + m ELSE head - count + k - 1
    BY <1>2, <1>4
  <2>. QED
    BY <1>1, <1>2, <1>3, <1>4, <2>1 DEF RingPlace
<1>5. CASE head >= count
  <2>1. (head - count + k - 1) % m = head - count + k - 1
    BY <1>2, <1>5
  <2>. QED
    BY <1>1, <1>2, <1>3, <1>5, <2>1 DEF RingPlace
<1>. QED
  BY <1>2, <1>4, <1>5

(* What a reader of the history is given. *)
LEMMA HistoryIs ==
  ASSUME NEW h \in History
  PROVE  /\ HistoryOf(h, HistoryLen) \in Seq(Int)
         /\ Len(HistoryOf(h, HistoryLen)) = h.count
         /\ \A k \in 1 .. h.count :
              HistoryOf(h, HistoryLen)[k] = h.samples[RingPlace(h.head, h.count, k)]
<1>1. /\ h.samples \in [0 .. HistoryLen - 1 -> Int]
      /\ h.head \in 0 .. HistoryLen - 1 /\ h.count \in 0 .. HistoryLen
      /\ h.count \in Nat
  BY ScanAssumption DEF History
<1>2. Lesser(h.count, HistoryLen) = h.count
  BY <1>1, ScanAssumption DEF Lesser
<1>3. HistoryOf(h, HistoryLen) =
        [k \in 1 .. h.count |->
           h.samples[(((h.head + HistoryLen - h.count) % HistoryLen) + k - 1) % HistoryLen]]
  BY <1>2 DEF HistoryOf
<1>4. \A k \in 1 .. h.count :
        /\ HistoryOf(h, HistoryLen)[k] = h.samples[RingPlace(h.head, h.count, k)]
        /\ HistoryOf(h, HistoryLen)[k] \in Int
  BY <1>1, <1>3, ReadPlace
<1>5. HistoryOf(h, HistoryLen) \in [1 .. h.count -> Int]
  BY <1>3, <1>4
<1>6. \A n \in Nat : \A f \in [1 .. n -> Int] : f \in Seq(Int) /\ Len(f) = n
  OBVIOUS
<1>. QED
  BY <1>1, <1>4, <1>5, <1>6

(* A new sample takes the place of the oldest when the ring is full, and   *)
(* of none while it is not.                                                *)
LEMMA HistoryGrows ==
  ASSUME NEW h \in History, NEW rssi \in Int
  PROVE  HistoryOf(HistoryAppend(h, rssi), HistoryLen)
           = LastSamples(Append(HistoryOf(h, HistoryLen), rssi))
<1>. DEFINE old   == HistoryOf(h, HistoryLen)
            grown == Append(old, rssi)
            g     == HistoryAppend(h, rssi)
            new   == HistoryOf(g, HistoryLen)
<1>1. PICK m \in Nat \ {0} : m = HistoryLen
  BY ScanAssumption
<1>2. PICK c \in 0 .. m : c = h.count
  BY <1>1 DEF History
<1>3. PICK d \in 0 .. m - 1 : d = h.head
  BY <1>1 DEF History
<1>4. /\ old \in Seq(Int) /\ Len(old) = c
      /\ \A k \in 1 .. c : old[k] = h.samples[RingPlace(d, c, k)]
  BY <1>2, <1>3, HistoryIs
<1>5. /\ grown \in Seq(Int) /\ Len(grown) = c + 1
      /\ \A k \in 1 .. c : grown[k] = old[k]
      /\ grown[c + 1] = rssi
  BY <1>4, AppendProperties
<1>6. g \in History
  BY HistoryAppendType
<1>7. /\ g.head = IF d + 1 = m THEN 0 ELSE d + 1
      /\ g.count = IF c < m THEN c + 1 ELSE m
  <2>1. (d + 1) % m = IF d + 1 = m THEN 0 ELSE d + 1
    OBVIOUS
  <2>. QED
    BY <1>1, <1>2, <1>3, <2>1 DEF HistoryAppend, Lesser
<1>8. /\ g.samples[d] = rssi
      /\ \A p \in 0 .. m - 1 : p # d => g.samples[p] = h.samples[p]
  BY <1>1, <1>3 DEF HistoryAppend, History
<1>9. /\ new \in Seq(Int) /\ Len(new) = g.count
      /\ \A k \in 1 .. g.count : new[k] = g.samples[RingPlace(g.head, g.count, k)]
  BY <1>6, HistoryIs
<1>10. \A k \in 1 .. c : RingPlace(d, c, k) \in 0 .. m - 1
  BY <1>1, ReadPlace
<1>. HIDE DEF old, grown, g, new
<1>11. CASE c < m
  <2>1. LastSamples(grown) = grown
    <3>1. 1 + Len(grown) - Lesser(Len(grown), HistoryLen) = 1
      BY <1>1, <1>5, <1>11 DEF Lesser
    <3>. QED
      BY <1>5, <3>1, SubSeqFull DEF LastSamples
  <2>2. \A k \in 1 .. c : new[k] = grown[k]
    <3>. SUFFICES ASSUME NEW k \in 1 .. c
                  PROVE  new[k] = grown[k]
      OBVIOUS
    <3>1. RingPlace(g.head, g.count, k) = RingPlace(d, c, k) /\ RingPlace(d, c, k) # d
      BY <1>1, <1>7, <1>11 DEF RingPlace
    <3>2. new[k] = g.samples[RingPlace(d, c, k)]
      BY <1>7, <1>9, <1>11, <3>1
    <3>3. g.samples[RingPlace(d, c, k)] = h.samples[RingPlace(d, c, k)]
      BY <1>8, <1>10, <3>1
    <3>. QED
      BY <1>4, <1>5, <3>2, <3>3
  <2>3. new[c + 1] = rssi
    <3>1. RingPlace(g.head, g.count, c + 1) = d
      BY <1>1, <1>7, <1>11 DEF RingPlace
    <3>. QED
      BY <1>7, <1>8, <1>9, <1>11, <3>1
  <2>4. Len(new) = c + 1
    BY <1>7, <1>9, <1>11
  <2>5. \A k \in 1 .. c + 1 : new[k] = grown[k]
    BY <1>5, <2>2, <2>3
  <2>6. new = grown
    BY <1>5, <1>9, <2>4, <2>5, SeqEqual
  <2>. QED
    BY <2>1, <2>6 DEF new, grown, g, old
<1>12. CASE c = m
  <2>1. /\ LastSamples(grown) \in Seq(Int) /\ Len(LastSamples(grown)) = m
        /\ \A k \in 1 .. m : LastSamples(grown)[k] = grown[k + 1]
    <3>1. LastSamples(grown) = SubSeq(grown, 2, m + 1)
      BY <1>1, <1>5, <1>12 DEF LastSamples, Lesser
    <3>. QED
      BY <1>5, <1>12, <3>1
  <2>2. \A k \in 1 .. m - 1 : new[k] = grown[k + 1]
    <3>. SUFFICES ASSUME NEW k \in 1 .. m - 1
                  PROVE  new[k] = grown[k + 1]
      OBVIOUS
    <3>1. RingPlace(g.head, g.count, k) = RingPlace(d, c, k + 1) /\ RingPlace(d, c, k + 1) # d
      BY <1>1, <1>7, <1>12 DEF RingPlace
    <3>2. new[k] = g.samples[RingPlace(d, c, k + 1)]
      BY <1>7, <1>9, <1>12, <3>1
    <3>3. k + 1 \in 1 .. c
      BY <1>12
    <3>4. g.samples[RingPlace(d, c, k + 1)] = h.samples[RingPlace(d, c, k + 1)]
      BY <1>8, <1>10, <3>1, <3>3
    <3>. QED
      BY <1>4, <1>5, <3>2, <3>3, <3>4
  <2>3. new[m] = grown[m + 1]
    <3>1. RingPlace(g.head, g.count, m) = d
      BY <1>1, <1>7, <1>12 DEF RingPlace
    <3>. QED
      BY <1>5, <1>7, <1>8, <1>9, <1>12, <3>1
  <2>4. Len(new) = m
    BY <1>7, <1>9, <1>12
  <2>5. ASSUME NEW k \in 1 .. m
        PROVE  new[k] = LastSamples(grown)[k]
    <3>1. k \in 1 .. m - 1 \/ k = m
      OBVIOUS
    <3>. QED
      BY <2>1, <2>2, <2>3, <3>1
  <2>6. new = LastSamples(grown)
    BY <1>9, <2>1, <2>4, <2>5, SeqEqual
  <2>. QED
    BY <2>6 DEF new, grown, g, old
<1>. QED
  BY <1>11, <1>12

(* The history of a slot is a sliding window over the samples stored in    *)
(* it, for every length of the ring.                                       *)
THEOREM HistorySlides == Spec => RingIsSlidingWindow
<1>. DEFINE Slides(i) ==
       \/ slot'[i] = slot[i]
       \/ HistoryOf(slot'[i].hist, HistoryLen)
            = LastSamples(Append(HistoryOf(slot[i].hist, HistoryLen), slot'[i].ap.rssi))
<1>1. ASSUME TypeOK, [Next]_vars, NEW i \in Slots
      PROVE  Slides(i)
  <2>1. CASE StoreRecord
    <3>. DEFINE rec == scanBuf[next]
                t   == Target(rec)
    <3>1. rec.rssi \in Int /\ t \in Slots
      BY <1>1, <2>1, TargetIsSlot, ScanAssumption DEF StoreRecord, TypeOK
    <3>2. slot' = [slot EXCEPT ![t] = [used |-> TRUE, ap |-> rec, seen |-> clock,
                                       hist |-> HistoryAppend(slot[t].hist, rec.rssi)]]
      BY <2>1 DEF StoreRecord, Upsert
    <3>3. slot[t].hist \in History
      BY <1>1, <3>1 DEF TypeOK
    <3>. HIDE DEF t, rec
    <3>4. CASE i = t
      <4>1. slot'[i].hist = HistoryAppend(slot[i].hist, rec.rssi) /\ slot'[i].ap = rec
        BY <1>1, <3>1, <3>2, <3>4 DEF TypeOK
      <4>. QED
        BY <3>1, <3>3, <3>4, <4>1, HistoryGrows
    <3>5. CASE i # t
      BY <1>1, <3>2, <3>5 DEF TypeOK
    <3>. QED
      BY <3>4, <3>5
  <2>2. CASE UNCHANGED slot
    BY <2>2
  <2>. QED
    BY <1>1, <2>1, <2>2
       DEF Next, ScanTask, Sweep, EndSweep, TakeRecord, SetFilter, vars
<1>. HIDE DEF Slides
<1>2. TypeOK /\ [Next]_vars => [\A i \in Slots : Slides(i)]_vars
  BY <1>1
<1>. QED
  BY <1>2, TypeCorrect, PTL DEF Spec, RingIsSlidingWindow, Slides

-----------------------------------------------------------------------------
(* Snapshots.                                                              *)

(* A used slot holds a beacon that was heard. *)
UsedIsHeard == \A i \in Used : slot[i].ap \in Beacons

(* What becomes of the snapshot out when the collecting loop comes to e. *)
Taken(out, e, wanted, max) ==
  IF e.used /\ e.ap \in wanted /\ Len(out) < max THEN Append(out, e.ap) ELSE out

(* The collecting loop, unrolled: out[m] is the snapshot after m slots. *)
Collects(out, wanted, max) ==
  /\ out[0] = <<>>
  /\ \A m \in 0 .. PoolSize - 1 : out[m + 1] = Taken(out[m], slot[m + 1], wanted, max)
  /\ Collect(wanted, max) = out[PoolSize]

LEMMA CollectUnrolled ==
  ASSUME TypeOK, UsedIsHeard, NEW wanted, NEW max \in Nat
  PROVE  \E out : Collects(out, wanted, max)
<1>. DEFINE V == Seq(Beacons)
            g == [p \in (1 .. PoolSize) \X V |-> Taken(p[2], slot[p[1]], wanted, max)]
            Recursion(F) ==
              F = [s \in SUBSET (1 .. PoolSize) |->
                     IF s = {} THEN <<>>
                     ELSE Taken(F[s \ {Max(s)}], slot[Max(s)], wanted, max)]
            C == CHOOSE F : Recursion(F)
            out == [m \in 0 .. PoolSize |-> C[1 .. m]]
<1>1. PoolSize \in Nat /\ Slots = 1 .. PoolSize /\ DOMAIN slot = 1 .. PoolSize
  BY ScanAssumption DEF Slots, TypeOK
<1>2. g \in [(1 .. PoolSize) \X V -> V]
  BY <1>1 DEF UsedIsHeard, Used, Taken
<1>3. PICK F \in [SUBSET (1 .. PoolSize) -> V] : Folds(F, PoolSize, <<>>, g)
  <2>1. PoolSize \in Nat /\ <<>> \in V /\ g \in [(1 .. PoolSize) \X V -> V]
    BY <1>1, <1>2
  <2>. HIDE DEF g, V
  <2>. QED
    BY <2>1, FoldExists
<1>4. Recursion(F)
  <2>1. ASSUME NEW s \in SUBSET (1 .. PoolSize), s # {}
        PROVE  F[s] = Taken(F[s \ {Max(s)}], slot[Max(s)], wanted, max)
    <3>1. Max(s) \in 1 .. PoolSize /\ F[s \ {Max(s)}] \in V
      BY <1>1, <2>1, MaxIn
    <3>2. <<Max(s), F[s \ {Max(s)}]>> \in (1 .. PoolSize) \X V
      BY <3>1
    <3>. QED
      BY <1>3, <2>1, <3>1, <3>2 DEF Folds
  <2>2. \A s \in SUBSET (1 .. PoolSize) :
          F[s] = IF s = {} THEN <<>>
                 ELSE Taken(F[s \ {Max(s)}], slot[Max(s)], wanted, max)
    BY <1>3, <2>1 DEF Folds
  <2>. QED
    BY <2>2
<1>5. Recursion(C)
  <2>. HIDE DEF Recursion
  <2>. QED
    BY <1>4, Zenon
<1>6. Collect(wanted, max) = C[1 .. PoolSize]
  BY <1>1, Zenon DEF Collect, FoldLeft, MapThenFoldSet, Taken
<1>. HIDE DEF C
<1>7. C[1 .. 0] = <<>>
  BY <1>5
<1>8. ASSUME NEW m \in 0 .. PoolSize - 1
      PROVE  C[1 .. m + 1] = Taken(C[1 .. m], slot[m + 1], wanted, max)
  <2>1. m \in Nat /\ 1 .. m + 1 \in SUBSET (1 .. PoolSize)
    BY <1>1
  <2>2. 1 .. m + 1 # {} /\ Max(1 .. m + 1) = m + 1 /\ (1 .. m + 1) \ {m + 1} = 1 .. m
    BY <2>1, LastTo
  <2>. QED
    BY <1>5, <2>1, <2>2
<1>. QED
  <2>1. /\ \A m \in 0 .. PoolSize : out[m] = C[1 .. m]
        /\ 0 \in 0 .. PoolSize /\ PoolSize \in 0 .. PoolSize
        /\ \A m \in 0 .. PoolSize - 1 : m \in 0 .. PoolSize /\ m + 1 \in 0 .. PoolSize
    BY <1>1
  <2>. HIDE DEF out
  <2>. QED
    BY <1>6, <1>7, <1>8, <2>1 DEF Collects

(* What the collecting loop finds in the first m slots. *)
Hits(wanted, m) == {i \in 1 .. m : slot[i].used /\ slot[i].ap \in wanted}

CollectedSoFar(out, wanted, max, m) ==
  /\ out[m] \in Seq(Beacons)
  /\ Len(out[m]) = Lesser(max, Cardinality(Hits(wanted, m)))
  /\ \A k \in 1 .. Len(out[m]) : \E i \in Hits(wanted, m) : out[m][k] = slot[i].ap
  /\ \A j, k \in 1 .. Len(out[m]) : out[m][j] = out[m][k] => j = k

LEMMA CollectNext ==
  ASSUME TypeOK, UsedIsHeard, OneSlotPerBssid, NEW wanted, NEW max \in Nat, NEW out,
         NEW m \in 0 .. PoolSize - 1, CollectedSoFar(out, wanted, max, m),
         out[m + 1] = Taken(out[m], slot[m + 1], wanted, max)
  PROVE  CollectedSoFar(out, wanted, max, m + 1)
<1>1. m \in Nat /\ m + 1 \in Slots /\ 1 .. m + 1 \subseteq Slots /\ 1 .. m \subseteq Slots
  BY ScanAssumption DEF Slots
<1>2. IsFiniteSet(Hits(wanted, m)) /\ Cardinality(Hits(wanted, m)) \in Nat
  <2>1. IsFiniteSet(1 .. m) /\ Hits(wanted, m) \subseteq 1 .. m
    BY <1>1, CountTo DEF Hits
  <2>. QED
    BY <2>1, FS_Subset, FS_CardinalityType
<1>. DEFINE ap  == slot[m + 1].ap
            old == out[m]
            new == out[m + 1]
<1>3. CASE slot[m + 1].used /\ ap \in wanted
  <2>1. Hits(wanted, m + 1) = Hits(wanted, m) \cup {m + 1} /\ m + 1 \notin Hits(wanted, m)
    BY <1>1, <1>3 DEF Hits
  <2>2. Cardinality(Hits(wanted, m + 1)) = Cardinality(Hits(wanted, m)) + 1
    BY <1>2, <2>1, FS_AddElement
  <2>3. CASE Len(old) < max
    <3>1. new = Append(old, ap) /\ ap \in Beacons
      BY <1>1, <1>3, <2>3 DEF Taken, UsedIsHeard, Used
    <3>2. /\ new \in Seq(Beacons) /\ Len(new) = Len(old) + 1 /\ Len(old) \in Nat
          /\ \A k \in 1 .. Len(old) : new[k] = old[k]
          /\ new[Len(old) + 1] = ap
      BY <3>1, AppendProperties DEF CollectedSoFar
    <3>3. \A i \in Hits(wanted, m) : slot[i].ap # ap
      <4>1. Hits(wanted, m) \subseteq Used /\ m + 1 \in Used
        BY <1>1, <1>3 DEF Hits, Used
      <4>. QED
        BY <2>1, <4>1 DEF OneSlotPerBssid
    <3>4. \A k \in 1 .. Len(old) : old[k] # ap
      BY <3>3 DEF CollectedSoFar
    <3>. HIDE DEF old, new, ap
    <3>5. Len(new) = Lesser(max, Cardinality(Hits(wanted, m + 1)))
      BY <1>2, <2>2, <2>3, <3>2 DEF CollectedSoFar, Lesser, old
    <3>6. \A k \in 1 .. Len(new) : \E i \in Hits(wanted, m + 1) : new[k] = slot[i].ap
      <4>1. \A k \in 1 .. Len(old) : \E i \in Hits(wanted, m + 1) : new[k] = slot[i].ap
        BY <2>1, <3>2 DEF CollectedSoFar, old
      <4>2. new[Len(old) + 1] = slot[m + 1].ap /\ m + 1 \in Hits(wanted, m + 1)
        BY <2>1, <3>2 DEF ap
      <4>3. \A k \in 1 .. Len(new) : k \in 1 .. Len(old) \/ k = Len(old) + 1
        BY <3>2
      <4>. QED
        BY <4>1, <4>2, <4>3
    <3>7. ASSUME NEW j \in 1 .. Len(new), NEW k \in 1 .. Len(new), new[j] = new[k]
          PROVE  j = k
      <4>1. \A i \in 1 .. Len(new) : i \in 1 .. Len(old) \/ i = Len(old) + 1
        BY <3>2
      <4>2. j \in 1 .. Len(old) /\ k \in 1 .. Len(old) => j = k
        BY <3>2, <3>7 DEF CollectedSoFar, old
      <4>. QED
        BY <3>2, <3>4, <3>7, <4>1, <4>2
    <3>. QED
      BY <3>2, <3>5, <3>6, <3>7 DEF CollectedSoFar, new
  <2>4. CASE Len(old) >= max
    <3>1. new = old
      BY <2>4 DEF Taken, CollectedSoFar
    <3>2. Lesser(max, Cardinality(Hits(wanted, m + 1))) = Lesser(max, Cardinality(Hits(wanted, m)))
      BY <1>2, <2>2, <2>4 DEF CollectedSoFar, Lesser
    <3>. QED
      BY <2>1, <3>1, <3>2 DEF CollectedSoFar
  <2>5. Len(old) \in Nat
    BY DEF CollectedSoFar
  <2>. QED
    BY <2>3, <2>4, <2>5
<1>4. CASE ~(slot[m + 1].used /\ ap \in wanted)
  <2>1. Hits(wanted, m + 1) = Hits(wanted, m)
    BY <1>1, <1>4 DEF Hits
  <2>2. new = old
    BY <1>4 DEF Taken
  <2>. QED
    BY <2>1, <2>2 DEF CollectedSoFar
<1>. QED
  BY <1>3, <1>4

(* What is collected: as many of the wanted entries as there is room for,  *)
(* each once.                                                              *)
Faithful(aps, wanted, max) ==
  /\ aps \in Seq(Beacons)
  /\ Len(aps) = Lesser(max, Cardinality(wanted))
  /\ \A k \in 1 .. Len(aps) : aps[k] \in wanted
  /\ \A j, k \in 1 .. Len(aps) : aps[j] = aps[k] => j = k

LEMMA CollectIsFaithful ==
  ASSUME TypeOK, UsedIsHeard, OneSlotPerBssid, NEW wanted \in SUBSET PoolAps, NEW max \in Nat
  PROVE  Faithful(Collect(wanted, max), wanted, max)
<1>1. PICK out : Collects(out, wanted, max)
  BY CollectUnrolled
<1>2. PoolSize \in Nat /\ Slots = 1 .. PoolSize
  BY ScanAssumption DEF Slots
<1>. DEFINE Good == {m \in 0 .. PoolSize : CollectedSoFar(out, wanted, max, m)}
<1>3. 0 \in Good
  <2>1. Hits(wanted, 0) = {}
    BY DEF Hits
  <2>2. Cardinality(Hits(wanted, 0)) = 0
    BY <2>1, FS_EmptySet
  <2>3. out[0] = <<>> /\ Len(out[0]) = 0 /\ out[0] \in Seq(Beacons)
    BY <1>1 DEF Collects
  <2>4. CollectedSoFar(out, wanted, max, 0)
    BY <2>2, <2>3 DEF CollectedSoFar, Lesser
  <2>. QED
    BY <1>2, <2>4
<1>4. ASSUME NEW m \in 0 .. PoolSize - 1, m \in Good
      PROVE  m + 1 \in Good
  <2>1. out[m + 1] = Taken(out[m], slot[m + 1], wanted, max)
    BY <1>1 DEF Collects
  <2>2. CollectedSoFar(out, wanted, max, m + 1)
    BY <1>4, <2>1, CollectNext
  <2>. QED
    BY <1>2, <2>2
<1>5. PoolSize \in Good
  <2>. HIDE DEF Good
  <2>. QED
    BY <1>2, <1>3, <1>4, CountUp, SMTT(30)
<1>6. CollectedSoFar(out, wanted, max, PoolSize) /\ Collect(wanted, max) = out[PoolSize]
  BY <1>1, <1>5 DEF Collects
<1>7. Cardinality(Hits(wanted, PoolSize)) = Cardinality(wanted)
  <2>. DEFINE H == Hits(wanted, PoolSize)
              f == [i \in H |-> slot[i].ap]
  <2>1. H \subseteq Used
    BY <1>2 DEF Hits, Used
  <2>2. IsFiniteSet(H)
    BY <2>1, UsedCount, FS_Subset
  <2>3. \A i, j \in H : f[i] = f[j] => i = j
    BY <2>1 DEF OneSlotPerBssid
  <2>4. wanted = {f[i] : i \in H}
    BY <1>2, ZenonT(60) DEF Hits, PoolAps, Used
  <2>5. Cardinality({f[i] : i \in H}) = Cardinality(H)
    <3>. HIDE DEF f, H
    <3>. QED
      BY <2>2, <2>3, ImageCount
  <2>. QED
    BY <2>4, <2>5
<1>. QED
  BY <1>6, <1>7 DEF CollectedSoFar, Faithful, Hits

(* The rest of a sequence after its first k elements. *)
LEMMA SubSeqBack ==
  ASSUME NEW S, NEW s \in Seq(S), NEW k \in 0 .. Len(s)
  PROVE  /\ SubSeq(s, k + 1, Len(s)) \in Seq(S)
         /\ Len(SubSeq(s, k + 1, Len(s))) = Len(s) - k
         /\ \A j \in 1 .. Len(s) - k : SubSeq(s, k + 1, Len(s))[j] = s[j + k]
<1>1. PICK n \in Nat : n = Len(s)
  OBVIOUS
<1>2. PICK m \in Int : m = k + 1
  BY <1>1
<1>3. \A i \in m .. n : s[i] \in S
  BY <1>1, <1>2
<1>4. n \in Int
  OBVIOUS
<1>5. /\ SubSeq(s, m, n) \in Seq(S)
      /\ Len(SubSeq(s, m, n)) = IF m <= n THEN n - m + 1 ELSE 0
      /\ \A j \in 1 .. n - m + 1 : SubSeq(s, m, n)[j] = s[m + j - 1]
  BY <1>3, <1>4, SubSeqProperties
<1>6. (IF m <= n THEN n - m + 1 ELSE 0) = n - k
  BY <1>1, <1>2
<1>7. n - m + 1 = n - k /\ \A j \in 1 .. n - k : m + j - 1 = j + k
  BY <1>1, <1>2
<1>. QED
  BY <1>1, <1>2, <1>5, <1>6, <1>7

(* One round of the sort inserts the key after all that are as strong.     *)
AsStrong(sorted, key) == {j \in DOMAIN sorted : sorted[j].rssi >= key.rssi}

Inserted(sorted, key, k, new) ==
  /\ new \in Seq(Beacons) /\ Len(new) = Len(sorted) + 1
  /\ \A j \in 1 .. k : new[j] = sorted[j]
  /\ new[k + 1] = key
  /\ \A j \in k + 1 .. Len(sorted) : new[j + 1] = sorted[j]

LEMMA InsertPlaces ==
  ASSUME NEW sorted \in Seq(Beacons), NEW key \in Beacons
  PROVE  \E k \in 0 .. Len(sorted) :
           /\ k = Cardinality(AsStrong(sorted, key))
           /\ Inserted(sorted, key, k, InsertByRssi(sorted, key))
<1>1. Len(sorted) \in Nat /\ DOMAIN sorted = 1 .. Len(sorted)
  OBVIOUS
<1>2. PICK k \in 0 .. Len(sorted) : k = Cardinality(AsStrong(sorted, key))
  <2>1. AsStrong(sorted, key) \subseteq 1 .. Len(sorted)
    BY <1>1 DEF AsStrong
  <2>2. IsFiniteSet(1 .. Len(sorted)) /\ Cardinality(1 .. Len(sorted)) = Len(sorted)
    BY <1>1, CountTo
  <2>3. /\ Cardinality(AsStrong(sorted, key)) \in Nat
        /\ Cardinality(AsStrong(sorted, key)) <= Len(sorted)
    BY <2>1, <2>2, FS_Subset, FS_CardinalityType
  <2>. QED
    BY <1>1, <2>3
<1>. DEFINE front == SubSeq(sorted, 1, k)
            back  == SubSeq(sorted, k + 1, Len(sorted))
            new   == front \o <<key>> \o back
<1>3. InsertByRssi(sorted, key) = new
  BY <1>2 DEF InsertByRssi, AsStrong
<1>4. front \in Seq(Beacons) /\ Len(front) = k /\ \A j \in 1 .. k : front[j] = sorted[j]
  BY <1>1
<1>5. /\ back \in Seq(Beacons) /\ Len(back) = Len(sorted) - k
      /\ \A j \in 1 .. Len(sorted) - k : back[j] = sorted[j + k]
  BY SubSeqBack
<1>6. /\ front \o <<key>> \in Seq(Beacons) /\ Len(front \o <<key>>) = k + 1
      /\ \A j \in 1 .. k : (front \o <<key>>)[j] = sorted[j]
      /\ (front \o <<key>>)[k + 1] = key
  <2>. HIDE DEF front
  <2>. QED
    BY <1>4
<1>7. Inserted(sorted, key, k, new)
  <2>. DEFINE most == front \o <<key>>
  <2>. HIDE DEF front, back
  <2>1. new = most \o back
    OBVIOUS
  <2>. HIDE DEF most, new
  <2>2. /\ new \in Seq(Beacons) /\ Len(new) = Len(sorted) + 1
        /\ \A j \in 1 .. k + 1 : new[j] = most[j]
        /\ \A j \in 1 .. Len(sorted) - k : new[k + 1 + j] = back[j]
    BY <1>1, <1>5, <1>6, <2>1 DEF most
  <2>3. ASSUME NEW j \in k + 1 .. Len(sorted)
        PROVE  new[j + 1] = sorted[j]
    <3>1. j - k \in 1 .. Len(sorted) - k /\ k + 1 + (j - k) = j + 1 /\ j - k + k = j
      BY <1>1
    <3>. QED
      BY <1>5, <2>2, <3>1, ZenonT(60)
  <2>. QED
    BY <1>6, <2>2, <2>3 DEF Inserted, most
<1>. HIDE DEF new
<1>. QED
  BY <1>2, <1>3, <1>7

(* The sort, unrolled: sorted[m] holds the first m entries of aps. *)
Sorts(sorted, aps) ==
  /\ sorted[0] = <<>>
  /\ \A m \in 0 .. Len(aps) - 1 : sorted[m + 1] = InsertByRssi(sorted[m], aps[m + 1])
  /\ FoldLeft(InsertByRssi, <<>>, aps) = sorted[Len(aps)]

LEMMA SortUnrolled ==
  ASSUME NEW aps \in Seq(Beacons)
  PROVE  \E sorted : Sorts(sorted, aps)
<1>. DEFINE V == Seq(Beacons)
            n == Len(aps)
            g == [p \in (1 .. n) \X V |-> InsertByRssi(p[2], aps[p[1]])]
            Recursion(F) ==
              F = [s \in SUBSET (1 .. n) |->
                     IF s = {} THEN <<>> ELSE InsertByRssi(F[s \ {Max(s)}], aps[Max(s)])]
            C == CHOOSE F : Recursion(F)
            sorted == [m \in 0 .. n |-> C[1 .. m]]
<1>1. n \in Nat /\ DOMAIN aps = 1 .. n /\ \A i \in 1 .. n : aps[i] \in Beacons
  OBVIOUS
<1>. HIDE DEF n
<1>2. g \in [(1 .. n) \X V -> V]
  <2>1. \A p \in (1 .. n) \X V : InsertByRssi(p[2], aps[p[1]]) \in V
    BY <1>1, InsertPlaces DEF Inserted
  <2>. QED
    BY <2>1
<1>3. PICK F \in [SUBSET (1 .. n) -> V] : Folds(F, n, <<>>, g)
  <2>1. n \in Nat /\ <<>> \in V /\ g \in [(1 .. n) \X V -> V]
    BY <1>1, <1>2
  <2>. HIDE DEF g, V
  <2>. QED
    BY <2>1, FoldExists
<1>4. Recursion(F)
  <2>1. ASSUME NEW s \in SUBSET (1 .. n), s # {}
        PROVE  F[s] = InsertByRssi(F[s \ {Max(s)}], aps[Max(s)])
    <3>1. Max(s) \in 1 .. n /\ F[s \ {Max(s)}] \in V
      BY <1>1, <2>1, MaxIn
    <3>2. <<Max(s), F[s \ {Max(s)}]>> \in (1 .. n) \X V
      BY <3>1
    <3>. QED
      BY <1>3, <2>1, <3>1, <3>2 DEF Folds
  <2>2. \A s \in SUBSET (1 .. n) :
          F[s] = IF s = {} THEN <<>> ELSE InsertByRssi(F[s \ {Max(s)}], aps[Max(s)])
    BY <1>3, <2>1 DEF Folds
  <2>. QED
    BY <2>2
<1>5. Recursion(C)
  <2>. HIDE DEF Recursion
  <2>. QED
    BY <1>4, Zenon
<1>6. FoldLeft(InsertByRssi, <<>>, aps) = C[1 .. n]
  BY <1>1, Zenon DEF FoldLeft, MapThenFoldSet
<1>. HIDE DEF C
<1>7. C[1 .. 0] = <<>>
  BY <1>5
<1>8. ASSUME NEW m \in 0 .. n - 1
      PROVE  C[1 .. m + 1] = InsertByRssi(C[1 .. m], aps[m + 1])
  <2>1. m \in Nat /\ 1 .. m + 1 \in SUBSET (1 .. n)
    BY <1>1
  <2>2. 1 .. m + 1 # {} /\ Max(1 .. m + 1) = m + 1 /\ (1 .. m + 1) \ {m + 1} = 1 .. m
    BY <2>1, LastTo
  <2>. QED
    BY <1>5, <2>1, <2>2
<1>. QED
  <2>1. /\ \A m \in 0 .. n : sorted[m] = C[1 .. m]
        /\ 0 \in 0 .. n /\ n \in 0 .. n
        /\ \A m \in 0 .. n - 1 : m \in 0 .. n /\ m + 1 \in 0 .. n
    BY <1>1
  <2>. HIDE DEF sorted
  <2>. QED
    BY <1>6, <1>7, <1>8, <2>1 DEF Sorts, n

-----------------------------------------------------------------------------
Strongest(s) == \A j, k \in 1 .. Len(s) : j < k => s[j].rssi >= s[k].rssi

Elements(s) == {s[k] : k \in 1 .. Len(s)}

(* Inserting the key keeps the order and adds nothing but the key.         *)
LEMMA InsertSorts ==
  ASSUME NEW sorted \in Seq(Beacons), Strongest(sorted), NEW key \in Beacons,
         NEW new, new = InsertByRssi(sorted, key)
  PROVE  /\ new \in Seq(Beacons) /\ Len(new) = Len(sorted) + 1
         /\ Strongest(new) /\ Elements(new) = Elements(sorted) \cup {key}
<1>. DEFINE n == Len(sorted)
<1>1. n \in Nat /\ DOMAIN sorted = 1 .. n
  OBVIOUS
<1>2. \A b \in Beacons : b.rssi \in Int
  BY ScanAssumption
<1>3. \A j \in 1 .. n : sorted[j] \in Beacons /\ sorted[j].rssi \in Int
  BY <1>1, <1>2
<1>4. PICK k \in 0 .. n : k = Cardinality(AsStrong(sorted, key)) /\ Inserted(sorted, key, k, new)
  BY InsertPlaces
<1>. HIDE DEF n
<1>5. AsStrong(sorted, key) = 1 .. k
  <2>1. AsStrong(sorted, key) \in SUBSET (1 .. n)
    BY <1>1 DEF AsStrong
  <2>2. ASSUME NEW i \in AsStrong(sorted, key), NEW j \in 1 .. i
        PROVE  j \in AsStrong(sorted, key)
    <3>1. i \in 1 .. n /\ j \in 1 .. n /\ sorted[i].rssi >= key.rssi /\ key.rssi \in Int
      BY <1>1, <1>2, <2>1 DEF AsStrong
    <3>2. j = i \/ sorted[j].rssi >= sorted[i].rssi
      BY <3>1 DEF Strongest, n
    <3>. QED
      BY <1>1, <1>3, <3>1, <3>2 DEF AsStrong
  <2>. QED
    BY <1>1, <1>4, <2>1, <2>2, InitialCount
<1>6. \A j \in 1 .. k : sorted[j].rssi >= key.rssi
  BY <1>5 DEF AsStrong
<1>7. \A j \in k + 1 .. n : key.rssi >= sorted[j].rssi
  <2>1. \A j \in k + 1 .. n : j \in 1 .. n /\ j \notin 1 .. k
    BY <1>1, <1>4
  <2>. QED
    BY <1>1, <1>2, <1>3, <1>5, <2>1 DEF AsStrong
<1>8. /\ new \in Seq(Beacons) /\ Len(new) = n + 1
      /\ \A j \in 1 .. k : new[j] = sorted[j]
      /\ new[k + 1] = key
      /\ \A j \in k + 2 .. n + 1 : new[j] = sorted[j - 1]
  <2>1. \A j \in k + 2 .. n + 1 : j - 1 \in k + 1 .. n /\ j - 1 + 1 = j
    BY <1>1, <1>4
  <2>. QED
    BY <1>4, <2>1 DEF Inserted, n
<1>9. Strongest(new)
  <2>. SUFFICES ASSUME NEW i \in 1 .. n + 1, NEW j \in 1 .. n + 1, i < j
                PROVE  new[i].rssi >= new[j].rssi
    BY <1>8 DEF Strongest
  <2>1. \A p \in 1 .. n : \A q \in 1 .. n : p < q => sorted[p].rssi >= sorted[q].rssi
    BY DEF Strongest, n
  <2>2. CASE j <= k
    BY <1>1, <1>8, <2>1, <2>2
  <2>3. CASE j = k + 1
    BY <1>1, <1>6, <1>8, <2>3
  <2>4. CASE j > k + 1 /\ i = k + 1
    BY <1>1, <1>7, <1>8, <2>4
  <2>5. CASE j > k + 1 /\ i <= k
    BY <1>1, <1>8, <2>1, <2>5
  <2>6. CASE j > k + 1 /\ i > k + 1
    <3>1. i - 1 \in 1 .. n /\ j - 1 \in 1 .. n /\ i - 1 < j - 1
      BY <1>1, <2>6
    <3>2. new[i] = sorted[i - 1] /\ new[j] = sorted[j - 1]
      BY <1>1, <1>8, <2>6
    <3>. QED
      BY <2>1, <3>1, <3>2
  <2>. QED
    BY <1>1, <2>2, <2>3, <2>4, <2>5, <2>6
<1>10. Elements(new) = Elements(sorted) \cup {key}
  <2>1. ASSUME NEW j \in 1 .. n + 1
        PROVE  new[j] \in Elements(sorted) \cup {key}
    <3>1. j \in 1 .. k \/ j = k + 1 \/ (j \in k + 2 .. n + 1 /\ j - 1 \in 1 .. n)
      BY <1>1, <1>4
    <3>. QED
      BY <1>1, <1>4, <1>8, <3>1 DEF Elements, n
  <2>2. ASSUME NEW j \in 1 .. n
        PROVE  sorted[j] \in Elements(new)
    <3>1. CASE j <= k
      <4>1. new[j] = sorted[j] /\ j \in 1 .. n + 1
        BY <1>1, <1>8, <3>1
      <4>. QED
        BY <1>8, <4>1 DEF Elements
    <3>2. CASE j > k
      <4>1. j + 1 \in k + 2 .. n + 1 /\ j + 1 \in 1 .. n + 1 /\ j + 1 - 1 = j
        BY <1>1, <1>4, <3>2
      <4>2. new[j + 1] = sorted[j]
        BY <1>8, <4>1
      <4>. QED
        BY <1>8, <4>1, <4>2 DEF Elements
    <3>. QED
      BY <1>1, <1>4, <3>1, <3>2
  <2>3. key \in Elements(new)
    <3>1. k + 1 \in 1 .. n + 1
      BY <1>1, <1>4
    <3>. QED
      BY <1>8, <3>1 DEF Elements
  <2>4. /\ Elements(new) = {new[j] : j \in 1 .. n + 1}
        /\ Elements(sorted) = {sorted[j] : j \in 1 .. n}
    BY <1>8 DEF Elements, n
  <2>. HIDE DEF n
  <2>. QED
    BY <2>1, <2>2, <2>3, <2>4
<1>. QED
  BY <1>8, <1>9, <1>10 DEF n

(* The sort yields the same entries, strongest first. *)
LEMMA SortSorts ==
  ASSUME NEW aps \in Seq(Beacons), NEW result, result = FoldLeft(InsertByRssi, <<>>, aps)
  PROVE  /\ result \in Seq(Beacons) /\ Len(result) = Len(aps)
         /\ Strongest(result) /\ Elements(result) = Elements(aps)
<1>1. PICK sorted : Sorts(sorted, aps)
  BY SortUnrolled
<1>. DEFINE n == Len(aps)
            Sorted(m) ==
              /\ sorted[m] \in Seq(Beacons) /\ Len(sorted[m]) = m
              /\ Strongest(sorted[m])
              /\ Elements(sorted[m]) = {aps[i] : i \in 1 .. m}
            Good == {m \in 0 .. n : Sorted(m)}
<1>2. n \in Nat /\ \A i \in 1 .. n : aps[i] \in Beacons
  OBVIOUS
<1>3. 0 \in Good
  <2>1. sorted[0] = <<>> /\ Len(sorted[0]) = 0 /\ sorted[0] \in Seq(Beacons)
    BY <1>1 DEF Sorts
  <2>2. Sorted(0)
    BY <2>1 DEF Strongest, Elements
  <2>. QED
    BY <1>2, <2>2
<1>4. ASSUME NEW m \in 0 .. n - 1, m \in Good
      PROVE  m + 1 \in Good
  <2>1. sorted[m + 1] = InsertByRssi(sorted[m], aps[m + 1]) /\ m + 1 \in 1 .. n
    BY <1>1, <1>2 DEF Sorts
  <2>2. Sorted(m)
    BY <1>4
  <2>3. /\ sorted[m + 1] \in Seq(Beacons) /\ Len(sorted[m + 1]) = m + 1
        /\ Strongest(sorted[m + 1])
        /\ Elements(sorted[m + 1]) = Elements(sorted[m]) \cup {aps[m + 1]}
    BY <1>2, <2>1, <2>2, InsertSorts
  <2>4. {aps[i] : i \in 1 .. m + 1} = {aps[i] : i \in 1 .. m} \cup {aps[m + 1]}
    <3>1. \A i : i \in 1 .. m + 1 <=> i \in 1 .. m \/ i = m + 1
      BY <1>2
    <3>. QED
      BY <3>1
  <2>5. Sorted(m + 1)
    BY <2>2, <2>3, <2>4
  <2>. HIDE DEF Sorted
  <2>. QED
    BY <1>2, <2>5
<1>5. n \in Good
  <2>1. n \in Nat /\ n \in 0 .. n
    BY <1>2
  <2>. HIDE DEF Good, n
  <2>2. \A m \in 0 .. n : m \in Good
    BY <1>3, <1>4, <2>1, CountUp
  <2>. QED
    BY <2>1, <2>2
<1>6. Sorted(n) /\ result = sorted[n]
  BY <1>1, <1>5 DEF Sorts
<1>. QED
  BY <1>6 DEF Elements

(* The finalizer keeps what was collected, sorts it, and flags twins.      *)
FinalFaithful(out, wanted, max) ==
  /\ Len(out) = Lesser(max, Cardinality(wanted)) /\ DOMAIN out = 1 .. Len(out)
  /\ Cardinality({out[k].ap : k \in DOMAIN out}) = Len(out)
  /\ {out[k].ap : k \in DOMAIN out} \subseteq wanted
  /\ \A j, k \in DOMAIN out : j < k =>
       out[j].ap # out[k].ap /\ out[j].ap.rssi >= out[k].ap.rssi
  /\ \A k \in DOMAIN out :
       out[k].rogue <=> \E j \in DOMAIN out : Twins(out[k].ap, out[j].ap)

LEMMA FinalizeIsFaithful ==
  ASSUME NEW wanted \in SUBSET PoolAps, NEW max \in 0 .. PoolSize,
         NEW aps, Faithful(aps, wanted, max)
  PROVE  FinalFaithful(SnapshotFinalize(aps), wanted, max)
<1>. DEFINE sorted == FoldLeft(InsertByRssi, <<>>, aps)
            out == SnapshotFinalize(aps)
            n == Len(aps)
<1>1. n \in Nat /\ aps \in Seq(Beacons)
  BY DEF Faithful
<1>2. /\ sorted \in Seq(Beacons) /\ Len(sorted) = n /\ DOMAIN sorted = 1 .. n
      /\ Strongest(sorted) /\ Elements(sorted) = Elements(aps)
  BY <1>1, SortSorts
<1>3. out = [i \in 1 .. n |->
               [ap |-> sorted[i],
                rogue |-> \E j \in 1 .. n : Twins(sorted[i], sorted[j])]]
  BY <1>2 DEF SnapshotFinalize
<1>. HIDE DEF sorted, out, n
<1>4. /\ DOMAIN out = 1 .. n /\ Len(out) = n
      /\ \A i \in 1 .. n :
           /\ out[i].ap = sorted[i]
           /\ out[i].rogue <=> \E j \in 1 .. n : Twins(sorted[i], sorted[j])
  <2>1. out \in Seq({out[i] : i \in 1 .. n}) /\ Len(out) = n
    BY <1>1, <1>3
  <2>. QED
    BY <1>3, <2>1
<1>. DEFINE shown == {out[k].ap : k \in DOMAIN out}
<1>5. shown = Elements(aps)
  <2>1. shown = {sorted[k] : k \in 1 .. n}
    BY <1>4
  <2>. QED
    BY <1>2, <2>1 DEF Elements
<1>6. shown \subseteq wanted
  BY <1>5 DEF Faithful, Elements
<1>7. Cardinality(shown) = n
  <2>1. IsFiniteSet(1 .. n) /\ Cardinality(1 .. n) = n
    BY <1>1, CountTo
  <2>2. \A i, j \in 1 .. n : aps[i] = aps[j] => i = j
    BY DEF Faithful, n
  <2>3. Cardinality({aps[i] : i \in 1 .. n}) = Cardinality(1 .. n)
    <3>. DEFINE S == 1 .. n
    <3>1. IsFiniteSet(S) /\ \A i, j \in S : aps[i] = aps[j] => i = j
      BY <2>1, <2>2
    <3>. HIDE DEF S
    <3>2. Cardinality({aps[i] : i \in S}) = Cardinality(S)
      BY <3>1, ImageCount
    <3>. QED
      BY <3>2 DEF S
  <2>. QED
    BY <1>5, <2>1, <2>3 DEF Elements, n
<1>8. ASSUME NEW j \in 1 .. n, NEW k \in 1 .. n, j < k
      PROVE  out[j].ap # out[k].ap
  <2>. SUFFICES ASSUME out[j].ap = out[k].ap
                PROVE  FALSE
    OBVIOUS
  <2>. DEFINE rest == (1 .. n) \ {k}
  <2>1. shown = {out[m].ap : m \in rest}
    BY <1>4, <1>8
  <2>2. IsFiniteSet(rest) /\ Cardinality(rest) = n - 1
    <3>. DEFINE S == 1 .. n
    <3>1. IsFiniteSet(S) /\ Cardinality(S) = n /\ k \in S
      BY <1>1, CountTo
    <3>. HIDE DEF S
    <3>2. IsFiniteSet(S \ {k}) /\ Cardinality(S \ {k}) = n - 1
      BY <3>1, FS_RemoveElement
    <3>. QED
      BY <3>2 DEF S
  <2>. DEFINE f == [m \in rest |-> out[m].ap]
  <2>3. shown = {f[m] : m \in rest}
    BY <2>1
  <2>. HIDE DEF f, rest, shown
  <2>4. Cardinality(shown) <= Cardinality(rest)
    BY <2>2, <2>3, ImageAtMost
  <2>. QED
    BY <1>1, <1>7, <2>2, <2>4
<1>9. ASSUME NEW k \in 1 .. n
      PROVE  out[k].rogue <=> \E j \in 1 .. n : Twins(out[k].ap, out[j].ap)
  BY <1>4, <1>9
<1>10. \A j, k \in 1 .. n : j < k => out[j].ap.rssi >= out[k].ap.rssi
  BY <1>2, <1>4 DEF Strongest
<1>. QED
  BY <1>4, <1>6, <1>7, <1>8, <1>9, <1>10 DEF FinalFaithful, Faithful, n, out

(* What the sweep has stored last of each access point is in the pool. *)
NoneBetweenSweeps == pc # "store" => next = 1

FreshIsKept == NoneBetweenSweeps /\ Fresh \subseteq PoolAps

LEMMA StoreKeepsFresh ==
  ASSUME SweepInv, FreshIsKept, StoreRecord
  PROVE  FreshIsKept'
<1>. DEFINE rec == scanBuf[next]
            t == Target(rec)
<1>1. t \in Slots
  BY TargetIsSlot DEF SweepInv
<1>2. /\ slot'[t].used /\ slot'[t].ap = rec
      /\ \A i \in Slots : i # t => slot'[i] = slot[i]
  BY <1>1 DEF SweepInv, TypeOK, StoreRecord, Upsert
<1>3. Used' = Used \cup {t}
  BY <1>1, <1>2 DEF Used, Slots
<1>4. /\ pc = "store" /\ pc' = "store" /\ next <= Len(scanBuf) /\ next \in Nat \ {0}
      /\ next' = next + 1 /\ UNCHANGED scanBuf
  BY DEF StoreRecord, SweepInv, TypeOK
<1>5. ASSUME NEW k \in 1 .. next, Latest(k)'
      PROVE  scanBuf[k] \in PoolAps'
  <2>1. CASE k = next
    BY <1>2, <1>3, <2>1 DEF PoolAps
  <2>2. CASE k # next
    <3>1. k \in 1 .. next - 1 /\ scanBuf[k].bssid # rec.bssid /\ Latest(k)
      <4>1. next \in k + 1 .. next' - 1
        BY <1>4, <2>2
      <4>2. \A j \in k + 1 .. next' - 1 : scanBuf[j].bssid # scanBuf[k].bssid
        BY <1>4, <1>5 DEF Latest
      <4>3. k + 1 .. next - 1 \subseteq k + 1 .. next' - 1
        BY <1>4
      <4>. QED
        BY <1>4, <2>2, <4>1, <4>2, <4>3 DEF Latest
    <3>2. PICK i \in Used : slot[i].ap = scanBuf[k]
      BY <3>1 DEF FreshIsKept, Fresh, PoolAps
    <3>3. slot[i].seen = clock
      <4>1. PICK m \in Matching(scanBuf[k]) : slot[m].seen = clock
        BY <1>4, <3>1 DEF SweepInv, SweepRetained
      <4>. QED
        BY <3>2, <4>1 DEF Matching, SweepInv, OneSlotPerBssid
    <3>4. i # t
      <4>1. t \in Used /\ slot[t].seen = clock => t \in Matching(rec)
        BY <1>4, TargetSparesSweep
      <4>. QED
        BY <3>1, <3>2, <3>3, <4>1 DEF Matching
    <3>. QED
      BY <1>2, <1>3, <3>2, <3>4 DEF PoolAps, Used
  <2>. QED
    BY <2>1, <2>2
<1>. HIDE DEF t, rec
<1>6. Fresh' \subseteq PoolAps'
  BY <1>4, <1>5 DEF Fresh
<1>. QED
  BY <1>4, <1>6 DEF FreshIsKept, NoneBetweenSweeps

LEMMA FreshStep ==
  ASSUME SweepInv, FreshIsKept, [Next]_vars
  PROVE  FreshIsKept'
<1>1. CASE Sweep \/ EndSweep
  <2>1. next' = 1
    BY <1>1 DEF Sweep, EndSweep
  <2>2. Fresh' = {}
    BY <2>1 DEF Fresh
  <2>. QED
    BY <2>1, <2>2 DEF FreshIsKept, NoneBetweenSweeps
<1>2. CASE UNCHANGED <<slot, pc, scanBuf, next>>
  <2>1. Fresh' = Fresh /\ PoolAps' = PoolAps
    BY <1>2 DEF Fresh, Latest, PoolAps, Used
  <2>. QED
    BY <1>2, <2>1 DEF FreshIsKept, NoneBetweenSweeps
<1>. QED
  BY <1>1, <1>2, StoreKeepsFresh DEF Next, ScanTask, TakeRecord, SetFilter, vars

LEMMA SnapshotsAreFaithful ==
  ASSUME TypeOK, UsedIsHeard, OneSlotPerBssid, FreshIsKept
  PROVE  SnapshotFaithful
<1>1. PoolSize \in Nat
  BY ScanAssumption
<1>2. ASSUME NEW max \in 0 .. PoolSize, NEW wanted \in SUBSET PoolAps
      PROVE  FinalFaithful(SnapshotFinalize(Collect(wanted, max)), wanted, max)
  BY <1>1, CollectIsFaithful, FinalizeIsFaithful
<1>. SUFFICES ASSUME NEW max \in 0 .. PoolSize, NEW filtered \in BOOLEAN
              PROVE
       LET out    == IF filtered THEN SnapshotFiltered(max) ELSE Snapshot(max)
           passes == {a \in PoolAps : filtered => Matches(a)}
           shown  == {out[k].ap : k \in DOMAIN out}
       IN  /\ Len(out) = Lesser(max, Cardinality(passes)) /\ shown \subseteq passes
           /\ \A j, k \in DOMAIN out : j < k =>
                out[j].ap.bssid # out[k].ap.bssid /\ out[j].ap.rssi >= out[k].ap.rssi
           /\ \A k \in DOMAIN out :
                out[k].rogue <=> \E j \in DOMAIN out : Twins(out[k].ap, out[j].ap)
           /\ \A a \in Fresh :
                /\ \A k \in DOMAIN out : out[k].ap.bssid = a.bssid => out[k].ap = a
                /\ (filtered => Matches(a)) /\ Cardinality(passes) <= max => a \in shown
  BY Zenon DEF SnapshotFaithful
<1>. DEFINE out    == IF filtered THEN SnapshotFiltered(max) ELSE Snapshot(max)
            passes == {a \in PoolAps : filtered => Matches(a)}
            shown  == {out[k].ap : k \in DOMAIN out}
<1>3. passes \in SUBSET PoolAps /\ (~filtered => passes = PoolAps)
  OBVIOUS
<1>4. out = SnapshotFinalize(Collect(passes, max))
  <2>1. CASE filtered
    <3>1. passes = {a \in PoolAps : Matches(a)}
      BY <2>1
    <3>. QED
      BY <2>1, <3>1 DEF SnapshotFiltered
  <2>2. CASE ~filtered
    BY <1>3, <2>2 DEF Snapshot
  <2>. QED
    BY <2>1, <2>2
<1>5. \A a \in Fresh : (filtered => Matches(a)) => a \in passes
  BY DEF FreshIsKept
<1>. HIDE DEF out, passes
<1>6. FinalFaithful(out, passes, max)
  BY <1>2, <1>3, <1>4
<1>7. /\ Len(out) = Lesser(max, Cardinality(passes))
      /\ Cardinality(shown) = Len(out) /\ shown \subseteq passes
      /\ \A j, k \in DOMAIN out : j < k =>
           out[j].ap # out[k].ap /\ out[j].ap.rssi >= out[k].ap.rssi
      /\ \A k \in DOMAIN out :
           out[k].rogue <=> \E j \in DOMAIN out : Twins(out[k].ap, out[j].ap)
  BY <1>6 DEF FinalFaithful
<1>8. \A a, b \in PoolAps : a.bssid = b.bssid => a = b
  BY DEF OneSlotPerBssid, PoolAps
<1>9. \A k \in DOMAIN out : out[k].ap \in PoolAps
  BY <1>3, <1>7
<1>10. ASSUME NEW a \in Fresh
       PROVE  /\ \A k \in DOMAIN out : out[k].ap.bssid = a.bssid => out[k].ap = a
              /\ (filtered => Matches(a)) /\ Cardinality(passes) <= max => a \in shown
  <2>1. a \in PoolAps
    BY DEF FreshIsKept
  <2>2. ASSUME filtered => Matches(a), Cardinality(passes) <= max
        PROVE  a \in shown
    <3>1. IsFiniteSet(PoolAps)
      <4>. DEFINE f == [i \in Used |-> slot[i].ap]
      <4>1. PoolAps = {f[i] : i \in Used} /\ IsFiniteSet(Used)
        BY UsedCount DEF PoolAps
      <4>. HIDE DEF f
      <4>. QED
        BY <4>1, ImageAtMost
    <3>2. IsFiniteSet(passes) /\ Cardinality(passes) \in Nat
      BY <1>3, <3>1, FS_Subset, FS_CardinalityType
    <3>3. Cardinality(shown) = Cardinality(passes)
      BY <1>7, <2>2, <3>2 DEF Lesser
    <3>. HIDE DEF shown
    <3>4. shown = passes
      BY <1>7, <3>2, <3>3, FS_Subset
    <3>. QED
      BY <1>5, <2>2, <3>4
  <2>. QED
    BY <1>8, <1>9, <2>1, <2>2
<1>11. \A j, k \in DOMAIN out : j < k =>
         out[j].ap.bssid # out[k].ap.bssid /\ out[j].ap.rssi >= out[k].ap.rssi
  BY <1>7, <1>8, <1>9
<1>. QED
  BY <1>7, <1>10, <1>11 DEF out, passes

(* A snapshot between any two records of a sweep tells the truth about     *)
(* what was heard so far: the latest of each access point and nothing      *)
(* twice, nothing the filter rejects, nothing left out while there is      *)
(* room, strongest first, and a rogue flag exactly at twins both shown;    *)
(* for every pool, every filter and every buffer the caller brings.        *)
THEOREM SnapshotsTellTheTruth == Spec => []SnapshotFaithful
<1>1. Init => UsedIsHeard
  BY DEF Init, UsedIsHeard, Used
<1>2. TypeOK /\ UsedIsHeard /\ [Next]_vars => UsedIsHeard'
  <2>. SUFFICES ASSUME TypeOK, UsedIsHeard, [Next]_vars
                PROVE  UsedIsHeard'
    OBVIOUS
  <2>1. CASE StoreRecord
    <3>1. scanBuf[next] \in Beacons /\ Target(scanBuf[next]) \in Slots
      BY <2>1, TargetIsSlot DEF StoreRecord, TypeOK
    <3>2. \A i \in Slots : slot'[i] = slot[i] \/ slot'[i].ap = scanBuf[next]
      BY <2>1, <3>1 DEF StoreRecord, Upsert, TypeOK
    <3>. QED
      BY <3>1, <3>2 DEF UsedIsHeard, Used
  <2>2. CASE UNCHANGED slot
    BY <2>2 DEF UsedIsHeard, Used
  <2>. QED
    BY <2>1, <2>2 DEF Next, ScanTask, Sweep, EndSweep, TakeRecord, SetFilter, vars
<1>3. SweepInv => TypeOK /\ OneSlotPerBssid
  BY DEF SweepInv
<1>4. Init => FreshIsKept
  BY DEF Init, FreshIsKept, NoneBetweenSweeps, Fresh
<1>5. SweepInv /\ FreshIsKept /\ [Next]_vars => FreshIsKept'
  BY FreshStep
<1>. QED
  BY <1>1, <1>2, <1>3, <1>4, <1>5, SweepInit, SweepStep, SnapshotsAreFaithful, PTL DEF Spec

=============================================================================
