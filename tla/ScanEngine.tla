----------------------------- MODULE ScanEngine -----------------------------
(***************************************************************************)
(* The Wi-Fi scan engine: wifi_scan_task sweeps both bands, stores every   *)
(* record in a fixed pool (refresh by BSSID, else a free slot, else the    *)
(* least recently seen one) and posts it to scan_queue without waiting.    *)
(* The event loop takes records from the queue; the UI task sets the       *)
(* display filter and reads snapshots and RSSI histories of the pool.      *)
(*                                                                         *)
(* The chip has one core and the tasks strict priorities: UI 24, scan 4,   *)
(* event loop 1.  The scan task does not block between two records, so the *)
(* UI task can run there and the event loop cannot.                        *)
(***************************************************************************)
EXTENDS Integers, Sequences, FiniteSets, SequencesExt

CONSTANTS
  PoolSize,         \* POOL_SIZE: slots of the pool
  ScanBufMax,       \* SCAN_BUF_MAX: most records one sweep returns
  QueueDepth,       \* depth of scan_queue
  HistoryLen,       \* RSSI_HISTORY_LEN: samples kept per slot
  Beacons,          \* the records the radio can report: [bssid, ssid, band, rssi]
  Hidden,           \* the empty SSID of a hidden network
  NoBeacon,         \* content of a slot never written
  MinRssiRequests,  \* thresholds the UI may ask for
  Patterns,         \* SSID patterns, each as the set of the SSIDs that contain it
  NoPattern,        \* the empty pattern, which matches everything
  MaxSweeps         \* bound: sweeps of one behaviour

ASSUME ScanAssumption ==
  /\ PoolSize \in Nat \ {0}
  /\ ScanBufMax \in 0 .. PoolSize
  /\ QueueDepth \in Nat \ {0}
  /\ HistoryLen \in Nat \ {0}
  /\ MaxSweeps \in Nat
  /\ MinRssiRequests \subseteq Int
  /\ NoBeacon \notin Beacons
  /\ \A b \in Beacons : b.rssi \in Int

VARIABLES
  slot,     \* s_pool
  clock,    \* tick at which the current sweep started
  pc,       \* wifi_scan_task: "idle" (delay or driver scan) or "store"
  scanBuf,  \* s_scan_buf: the records of the current sweep
  next,     \* index in scanBuf of the next record to store
  queue,    \* scan_queue
  filter,   \* s_filter
  backlog   \* history variable: the queue when the sweep's records arrived

vars == <<slot, clock, pc, scanBuf, next, queue, filter, backlog>>

Slots == 1 .. PoolSize

Lesser(m, n) == IF m < n THEN m ELSE n

First(S) == CHOOSE i \in S : \A j \in S : i <= j

-----------------------------------------------------------------------------
(* RSSI history: a ring of HistoryLen samples per slot.                    *)

EmptyHistory ==
  [samples |-> [k \in 0 .. HistoryLen - 1 |-> 0], head |-> 0, count |-> 0]

UnboundedAppend(h, rssi) ==
  [samples |-> [h.samples EXCEPT ![h.head] = rssi],
   head    |-> (h.head + 1) % HistoryLen,
   count   |-> h.count + 1]

StuckAppend(h, rssi) ==
  IF h.count < HistoryLen
    THEN UnboundedAppend(h, rssi)
    ELSE [h EXCEPT !.samples[HistoryLen - 1] = rssi]

HistoryAppend(h, rssi) ==
  [samples |-> [h.samples EXCEPT ![h.head] = rssi],
   head    |-> (h.head + 1) % HistoryLen,
   count   |-> Lesser(h.count + 1, HistoryLen)]

(* What a reader of the history is given: oldest sample first. *)
HistoryOf(h, maxSamples) ==
  LET start == (h.head + HistoryLen - h.count) % HistoryLen
  IN  [k \in 1 .. Lesser(h.count, maxSamples) |->
         h.samples[(start + k - 1) % HistoryLen]]

-----------------------------------------------------------------------------
(* The pool.                                                               *)

Used == {i \in Slots : slot[i].used}

Matching(rec) == {i \in Used : slot[i].ap.bssid = rec.bssid}

(* Least recently seen; among equals, the first slot. *)
Oldest == {i \in Used : \A j \in Used : slot[i].seen <= slot[j].seen}

MostRecentTarget(rec) ==
  IF Matching(rec) # {} THEN First(Matching(rec))
  ELSE IF Slots \ Used # {} THEN First(Slots \ Used)
  ELSE First({i \in Used : \A j \in Used : slot[j].seen <= slot[i].seen})

FifoTarget(rec) ==
  IF Matching(rec) # {} THEN First(Matching(rec))
  ELSE IF Slots \ Used # {} THEN First(Slots \ Used)
  ELSE 1 + (clock % PoolSize)

Target(rec) ==
  IF Matching(rec) # {} THEN First(Matching(rec))
  ELSE IF Slots \ Used # {} THEN First(Slots \ Used)
  ELSE First(Oldest)

StaleUpsert(rec) ==
  slot' = [slot EXCEPT ![Target(rec)] =
             [used |-> TRUE, ap |-> IF Matching(rec) # {} THEN @.ap ELSE rec, seen |-> clock,
              hist |-> HistoryAppend(@.hist, rec.rssi)]]

(* One record stored in its slot.  The ring of a slot taken over from      *)
(* another access point is appended to, not cleared.                       *)
Upsert(rec) ==
  slot' = [slot EXCEPT ![Target(rec)] =
             [used |-> TRUE, ap |-> rec, seen |-> clock,
              hist |-> HistoryAppend(@.hist, rec.rssi)]]

OverwritePost(q, rec) ==
  IF Len(q) < QueueDepth THEN Append(q, rec) ELSE Append(Tail(q), rec)

(* xQueueSend with no timeout: a full queue loses the new record. *)
Post(q, rec) == IF Len(q) < QueueDepth THEN Append(q, rec) ELSE q

-----------------------------------------------------------------------------
(* Snapshots for the UI.                                                   *)

Matches(ap) ==
  /\ ap.band = "2g" => filter.band_2g
  /\ ap.band = "5g" => filter.band_5g
  /\ ap.rssi >= filter.min_rssi
  /\ filter.ssid_pattern # NoPattern =>
       ap.ssid # Hidden /\ ap.ssid \in filter.ssid_pattern

PoolAps == {slot[i].ap : i \in Used}

(* The first max entries that are wanted, in slot order. *)
Collect(wanted, max) ==
  LET Take(out, e) ==
        IF e.used /\ e.ap \in wanted /\ Len(out) < max THEN Append(out, e.ap) ELSE out
  IN  FoldLeft(Take, <<>>, slot)

(* One round of the insertion sort: key goes after everything as strong. *)
InsertByRssi(sorted, key) ==
  LET k == Cardinality({j \in DOMAIN sorted : sorted[j].rssi >= key.rssi})
  IN  SubSeq(sorted, 1, k) \o <<key>> \o SubSeq(sorted, k + 1, Len(sorted))

Twins(a, b) == a.ssid # Hidden /\ a.ssid = b.ssid /\ a.bssid # b.bssid

(* Strongest first, then every pair of twins in the snapshot is flagged. *)
SnapshotFinalize(aps) ==
  LET sorted == FoldLeft(InsertByRssi, <<>>, aps)
  IN  [i \in DOMAIN sorted |->
         [ap |-> sorted[i],
          rogue |-> \E j \in DOMAIN sorted : Twins(sorted[i], sorted[j])]]

Snapshot(max) == SnapshotFinalize(Collect(PoolAps, max))

SnapshotFiltered(max) == SnapshotFinalize(Collect({a \in PoolAps : Matches(a)}, max))

-----------------------------------------------------------------------------
(* Actions.                                                                *)

DefaultFilter ==
  [band_2g |-> TRUE, band_5g |-> TRUE, min_rssi |-> -100, ssid_pattern |-> NoPattern]

Init ==
  /\ slot = [i \in Slots |->
               [used |-> FALSE, ap |-> NoBeacon, seen |-> 0, hist |-> EmptyHistory]]
  /\ clock = 0
  /\ pc = "idle"
  /\ scanBuf = <<>>
  /\ next = 1
  /\ queue = <<>>
  /\ filter = DefaultFilter
  /\ backlog = <<>>

(* The driver's blocking scan ends with up to ScanBufMax records; a scan   *)
(* that fails ends like one that heard nothing.                            *)
Sweep ==
  /\ pc = "idle"
  /\ clock < MaxSweeps
  /\ clock' = clock + 1
  /\ \E n \in 0 .. ScanBufMax : \E recs \in [1 .. n -> Beacons] : scanBuf' = recs
  /\ pc' = "store"
  /\ next' = 1
  /\ backlog' = queue
  /\ UNCHANGED <<slot, queue, filter>>

(* The critical section of pool_upsert and the post that follows it: only  *)
(* the UI task can run between the two, and it reads no queue.             *)
StoreRecord ==
  /\ pc = "store"
  /\ next <= Len(scanBuf)
  /\ Upsert(scanBuf[next])
  /\ queue' = Post(queue, scanBuf[next])
  /\ next' = next + 1
  /\ UNCHANGED <<clock, pc, scanBuf, filter, backlog>>

(* The task logs the cycle and delays for SCAN_INTERVAL_MS; the records of *)
(* the sweep are not read again.                                           *)
EndSweep ==
  /\ pc = "store"
  /\ next > Len(scanBuf)
  /\ pc' = "idle"
  /\ scanBuf' = <<>>
  /\ next' = 1
  /\ backlog' = <<>>
  /\ UNCHANGED <<slot, clock, queue, filter>>

(* The event loop runs only while the scan task is blocked. *)
TakeRecord ==
  /\ pc = "idle"
  /\ queue # <<>>
  /\ queue' = Tail(queue)
  /\ UNCHANGED <<slot, clock, pc, scanBuf, next, filter, backlog>>

Clamp(dbm) == IF dbm < -100 THEN -100 ELSE IF dbm > -30 THEN -30 ELSE dbm

SetBand2g(en) == filter' = [filter EXCEPT !.band_2g = en]
SetBand5g(en) == filter' = [filter EXCEPT !.band_5g = en]
SetMinRssi(dbm) == filter' = [filter EXCEPT !.min_rssi = Clamp(dbm)]
SetSsidPattern(p) == filter' = [filter EXCEPT !.ssid_pattern = p]

SetFilter ==
  /\ \/ \E en \in BOOLEAN : SetBand2g(en) \/ SetBand5g(en)
     \/ \E dbm \in MinRssiRequests : SetMinRssi(dbm)
     \/ \E p \in Patterns \cup {NoPattern} : SetSsidPattern(p)
  /\ UNCHANGED <<slot, clock, pc, scanBuf, next, queue, backlog>>

ScanTask == Sweep \/ StoreRecord \/ EndSweep

Next == ScanTask \/ TakeRecord \/ SetFilter

Spec == Init /\ [][Next]_vars

-----------------------------------------------------------------------------
(* Properties.                                                             *)

History == [samples : [0 .. HistoryLen - 1 -> Int], head : 0 .. HistoryLen - 1,
            count : 0 .. HistoryLen]

(* Every variable has its type: in particular ring indices and counts stay *)
(* inside the ring, the queue inside its depth, and min_rssi in -100..-30. *)
TypeOK ==
  /\ slot \in [Slots -> [used : BOOLEAN, ap : Beacons \cup {NoBeacon},
                         seen : 0 .. MaxSweeps, hist : History]]
  /\ clock \in 0 .. MaxSweeps
  /\ pc \in {"idle", "store"}
  /\ scanBuf \in Seq(Beacons) /\ Len(scanBuf) <= ScanBufMax
  /\ next \in 1 .. Len(scanBuf) + 1
  /\ queue \in Seq(Beacons) /\ Len(queue) <= QueueDepth
  /\ filter \in [band_2g : BOOLEAN, band_5g : BOOLEAN, min_rssi : -100 .. -30,
                 ssid_pattern : Patterns \cup {NoPattern}]
  /\ backlog \in Seq(Beacons) /\ Len(backlog) <= QueueDepth

(* Every record of the current sweep that was already stored is still in   *)
(* the pool with its stamp: however full the pool and whatever the order   *)
(* of the records, a sweep never evicts what the same sweep has heard.     *)
SweepRetained ==
  pc = "store" =>
    \A k \in 1 .. next - 1 :
      \E i \in Matching(scanBuf[k]) : slot[i].seen = clock

(* scan_queue holds, in order, the backlog followed by the records of the  *)
(* sweep, cut at QueueDepth: the event loop cannot drain during a sweep,   *)
(* so whatever a sweep hears beyond the free places is lost, and nothing   *)
(* that was queued before it is lost or overtaken.                         *)
QueueKeepsSweepPrefix ==
  pc = "store" =>
    LET posted == backlog \o SubSeq(scanBuf, 1, next - 1)
    IN  queue = SubSeq(posted, 1, Lesser(Len(posted), QueueDepth))

LastSamples(s) == SubSeq(s, 1 + Len(s) - Lesser(Len(s), HistoryLen), Len(s))

(* The ring is a sliding window: storing a record makes the history read   *)
(* back, oldest first, the previous one with the new sample at its end and *)
(* no more than the last HistoryLen samples; no other step changes it.     *)
RingIsSlidingWindow ==
  [][\A i \in Slots :
       LET before == HistoryOf(slot[i].hist, HistoryLen)
           after  == HistoryOf(slot'[i].hist, HistoryLen)
       IN  \/ slot'[i] = slot[i]
           \/ after = LastSamples(Append(before, slot'[i].ap.rssi))]_vars

(* The records the sweep under way has stored, of each access point the    *)
(* latest.                                                                 *)
Latest(k) == \A j \in k + 1 .. next - 1 : scanBuf[j].bssid # scanBuf[k].bssid

Fresh == {scanBuf[k] : k \in {k \in 1 .. next - 1 : Latest(k)}}

(* A snapshot may fall between any two records of a sweep and any two      *)
(* edits of the filter.  It lists each access point once, strongest first, *)
(* only those that pass, all of them if there is room; twins are flagged   *)
(* exactly when both are listed.  Of what the sweep has heard so far it    *)
(* shows the latest record and, if there is room, leaves out nothing that  *)
(* passes.  Which ones a snapshot that is too short holds is not said:     *)
(* they are not the strongest.                                             *)
SnapshotFaithful ==
  \A max \in 0 .. PoolSize, filtered \in BOOLEAN :
    LET out    == IF filtered THEN SnapshotFiltered(max) ELSE Snapshot(max)
        passes == {a \in PoolAps : filtered => Matches(a)}
        shown  == {out[k].ap : k \in DOMAIN out}
    IN  /\ Len(out) = Lesser(max, Cardinality(passes)) /\ shown \subseteq passes
        /\ \A j, k \in DOMAIN out : j < k =>
             out[j].ap.bssid # out[k].ap.bssid /\ out[j].ap.rssi >= out[k].ap.rssi
        /\ \A k \in DOMAIN out :
             out[k].rogue <=> \E j \in DOMAIN out : Twins(out[k].ap, out[j].ap)
        /\ \A a \in Fresh :
             /\ \A k \in DOMAIN out : out[k].ap.bssid = a.bssid => out[k].ap = a
             /\ (filtered => Matches(a)) /\ Cardinality(passes) <= max => a \in shown

Entries == {[ap |-> slot[i].ap, seen |-> slot[i].seen] : i \in Used}

Table == INSTANCE ApTable WITH Capacity <- PoolSize, Ticks <- 0 .. MaxSweeps,
                               entries <- Entries

(* The pool implements the abstract table: one entry per BSSID, never more *)
(* than the slots, and a new access point only ever replaces a stalest one.*)
RefinesApTable == Table!Spec

=============================================================================
