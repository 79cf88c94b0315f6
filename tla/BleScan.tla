------------------------------ MODULE BleScan ------------------------------
(***************************************************************************)
(* The BLE scanner.  ble_scan_task starts a discovery window, sleeps past  *)
(* its end, cancels what is left of it and starts the next one; the NimBLE *)
(* host task calls gap_event with every advertisement, which refreshes or  *)
(* inserts a device in a pool of fixed size and posts it to ble_queue, and *)
(* with the end of a window.  Both tasks write s_scanning, without a lock. *)
(* The host may reset at any time and synchronise again.                   *)
(*                                                                         *)
(* The manufacturer data of a device is kept, replaced and cleared by the  *)
(* same conditions as its name, which stands for both.                     *)
(***************************************************************************)
EXTENDS Integers, Sequences, FiniteSets, SequencesExt

CONSTANTS
  PoolSize,    \* POOL_SIZE: slots of the pool
  QueueDepth,  \* depth of ble_queue
  Macs,        \* device addresses
  Rssis,       \* signal strengths
  NoName,      \* no name in the advertisement, or one that does not fit
  NameOf(_),   \* the name a device advertises when it advertises one
  NoMac,       \* address in a slot never written
  MaxTicks     \* bound: tick count of one behaviour

ASSUME BleAssumption ==
  /\ PoolSize \in Nat \ {0}
  /\ QueueDepth \in Nat \ {0}
  /\ MaxTicks \in Nat
  /\ Rssis \subseteq Int
  /\ NoMac \notin Macs
  /\ \A m \in Macs : NameOf(m) # NoName

VARIABLES
  slot,      \* s_pool
  clock,     \* xTaskGetTickCount()
  queue,     \* ble_queue
  pc,        \* where ble_scan_task is
  scanning,  \* s_scanning
  ready,     \* s_ble_ready
  radio      \* external: a discovery window is open in the controller

pool == <<slot, clock, queue>>
task == <<pc, scanning, ready, radio>>
vars == <<pool, task>>

Slots == 1 .. PoolSize

First(S) == CHOOSE i \in S : \A j \in S : i <= j

(* What gap_event makes of an advertisement: a payload that does not parse *)
(* counts as one without a name.                                           *)
Heard == UNION {[mac : {m}, rssi : Rssis, name : {NoName, NameOf(m)}] : m \in Macs}

-----------------------------------------------------------------------------
(* The pool.                                                               *)

Used == {i \in Slots : slot[i].used}

Matching(mac) == {i \in Used : slot[i].mac = mac}

Oldest == {i \in Used : \A j \in Used : slot[i].seen <= slot[j].seen}

MostRecentTarget(mac) ==
  IF Matching(mac) # {} THEN First(Matching(mac))
  ELSE IF Slots \ Used # {} THEN First(Slots \ Used)
  ELSE First({i \in Used : \A j \in Used : slot[j].seen <= slot[i].seen})

Target(mac) ==
  IF Matching(mac) # {} THEN First(Matching(mac))
  ELSE IF Slots \ Used # {} THEN First(Slots \ Used)
  ELSE First(Oldest)

UnclearedDevice(old, adv) ==
  [used |-> TRUE, mac |-> adv.mac, rssi |-> adv.rssi, seen |-> clock,
   name |-> IF adv.name # NoName THEN adv.name ELSE old.name]

(* A device that was in the slot keeps its name when the advertisement has *)
(* none; a slot taken over is cleared first.                               *)
Device(old, adv) ==
  [used |-> TRUE, mac |-> adv.mac, rssi |-> adv.rssi, seen |-> clock,
   name |-> IF adv.name = NoName /\ old.used /\ old.mac = adv.mac
              THEN old.name ELSE adv.name]

(* xQueueSend with no timeout: a full queue loses the new record. *)
Post(q, dev) == IF Len(q) < QueueDepth THEN Append(q, dev) ELSE q

(* pool_upsert: its critical section and the post after it, in the host    *)
(* task, the only one that writes the pool.                                *)
PoolUpsert(adv) ==
  LET t   == Target(adv.mac)
      dev == Device(slot[t], adv)
  IN  /\ slot' = [slot EXCEPT ![t] = dev]
      /\ queue' = Post(queue, dev)

-----------------------------------------------------------------------------
(* Actions of the host task.                                               *)

Init ==
  /\ slot = [i \in Slots |->
               [used |-> FALSE, mac |-> NoMac, rssi |-> 0, seen |-> 0, name |-> NoName]]
  /\ clock = 0
  /\ queue = <<>>
  /\ pc = "wait"
  /\ scanning = FALSE
  /\ ready = FALSE
  /\ radio = FALSE

(* BLE_GAP_EVENT_DISC. *)
Advertisement ==
  /\ radio
  /\ \E adv \in Heard : PoolUpsert(adv)
  /\ UNCHANGED <<clock, task>>

(* The window ends by itself: BLE_GAP_EVENT_DISC_COMPLETE. *)
WindowEnds ==
  /\ radio
  /\ radio' = FALSE
  /\ scanning' = FALSE
  /\ UNCHANGED <<pool, pc, ready>>

(* The host resets: ble_on_reset, and gap_event hears of an open window's  *)
(* end or does not.                                                        *)
HostReset ==
  /\ ready
  /\ ready' = FALSE
  /\ radio' = FALSE
  /\ scanning' \in {scanning, scanning /\ ~radio}
  /\ UNCHANGED <<pool, pc>>

HostSync ==
  /\ ~ready
  /\ ready' = TRUE
  /\ UNCHANGED <<pool, pc, scanning, radio>>

(* The event loop takes a record. *)
TakeRecord ==
  /\ queue # <<>>
  /\ queue' = Tail(queue)
  /\ UNCHANGED <<slot, clock, task>>

Tick ==
  /\ clock < MaxTicks
  /\ clock' = clock + 1
  /\ UNCHANGED <<slot, queue, task>>

-----------------------------------------------------------------------------
(* Steps of ble_scan_task.  It can be preempted between any two.           *)

WaitReady ==
  /\ pc = "wait"
  /\ ready
  /\ pc' = "infer"
  /\ UNCHANGED <<pool, scanning, ready, radio>>

(* ble_hs_id_infer_auto; without an address the task deletes itself. *)
InferAddress ==
  /\ pc = "infer"
  /\ pc' \in {"start", "dead"}
  /\ UNCHANGED <<pool, scanning, ready, radio>>

(* ble_gap_disc starts a window.  It needs a synchronised host. *)
StartWindow ==
  /\ pc = "start"
  /\ ~scanning /\ ready /\ ~radio
  /\ radio' = TRUE
  /\ pc' = "mark"
  /\ UNCHANGED <<pool, scanning, ready>>

(* No window was started: one is believed open, or ble_gap_disc failed. *)
SkipWindow ==
  /\ pc = "start"
  /\ pc' = "sleep"
  /\ UNCHANGED <<pool, scanning, ready, radio>>

(* s_scanning is set after ble_gap_disc has returned. *)
MarkScanning ==
  /\ pc = "mark"
  /\ scanning' = TRUE
  /\ pc' = "sleep"
  /\ UNCHANGED <<pool, ready, radio>>

(* The delay is over; s_scanning says whether there is something to cancel. *)
WakeUp ==
  /\ pc = "sleep"
  /\ pc' = IF scanning THEN "cancel" ELSE "start"
  /\ UNCHANGED <<pool, scanning, ready, radio>>

(* ble_gap_disc_cancel: no event follows it. *)
CancelWindow ==
  /\ pc = "cancel"
  /\ radio' = FALSE
  /\ pc' = "clear"
  /\ UNCHANGED <<pool, scanning, ready>>

LeftToTheEvent ==
  /\ pc = "clear"
  /\ pc' = "start"
  /\ UNCHANGED <<pool, scanning, ready, radio>>

ClearScanning ==
  /\ pc = "clear"
  /\ scanning' = FALSE
  /\ pc' = "start"
  /\ UNCHANGED <<pool, ready, radio>>

ScanTask ==
  \/ WaitReady \/ InferAddress \/ StartWindow \/ SkipWindow
  \/ MarkScanning \/ WakeUp \/ CancelWindow \/ ClearScanning

HostTask == Advertisement \/ WindowEnds \/ HostReset \/ HostSync

Next == ScanTask \/ HostTask \/ TakeRecord \/ Tick

(* The scan task is never starved for good, and a controller that is asked *)
(* for a window again and again grants one.                                *)
Fairness == WF_vars(ScanTask) /\ SF_vars(StartWindow)

Spec == Init /\ [][Next]_vars /\ Fairness

-----------------------------------------------------------------------------
(* Properties.                                                             *)

(* A device never goes by another one's name, though slots pass from one   *)
(* device to another, and keeps its own once it was heard, as long as it   *)
(* stays in the pool, whatever nameless advertisements follow.             *)
DeviceKeepsItsName ==
  [][\A i \in Slots :
       slot'[i].used =>
         /\ slot'[i].name \in {NoName, NameOf(slot'[i].mac)}
         /\ (slot[i].used /\ slot'[i].mac = slot[i].mac /\ slot[i].name # NoName)
              => slot'[i].name # NoName]_vars

(* Whichever way the end of a window, the cancellation, a host reset and   *)
(* the scan task's own writes to s_scanning interleave: once the host      *)
(* stays synchronised, windows keep being opened, unless the task gave up  *)
(* for want of an address.                                                 *)
ScanningResumes == <>[](ready /\ pc # "dead") => []<>radio

Entries == {[ap |-> [bssid |-> slot[i].mac, rssi |-> slot[i].rssi],
             seen |-> slot[i].seen] : i \in Used}

Table == INSTANCE ApTable WITH
           Capacity <- PoolSize, Ticks <- 0 .. MaxTicks, entries <- Entries,
           Beacons <- {[bssid |-> m, rssi |-> r] : m \in Macs, r \in Rssis}

(* The pool of devices keeps what the pool of access points promises: one  *)
(* entry per address, never more than the slots, and a new device only     *)
(* ever replaces one that no other has been silent for longer than.        *)
RefinesApTable == Table!Spec

=============================================================================
