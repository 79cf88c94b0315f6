# SiteSurvey Pro: TLA+ models

TLA+ models of the SiteSurvey Pro firmware (`src/`, an ESP32-C5 Wi-Fi/BLE survey
tool on ESP-IDF, FreeRTOS and LVGL), the TLC runs that check them and the TLAPS
proofs about them. `PROJECT.json` lists the runs, the properties, for each
definition the lines of code it stands for, the hazards of the code and what was
found.

    tlc -config ScanPool.cfg MCScanEngine        # a run: the table below lists them
    for m in Counting.tla *Proofs.tla; do tlapm $m; done

## The system

One core, FreeRTOS with strict priorities at 100 Hz. This decides which
interleavings exist: a task can be preempted anywhere by one of higher priority,
and a task of lower priority runs only while all others are blocked.

| Task | Priority | Does |
|---|---|---|
| `ui_task` (LVGL) | 24 | screens, touches, settings, exports |
| touch sampler, `flash_broker` | 24 | samples the panel; writes NVS on behalf of the UI task |
| Wi-Fi driver, NimBLE host | 23, 21 | radio; BLE advertisements are stored in the host's callback |
| `ota_flash` | 5 | exists only while firmware is flashed |
| `wifi_scan_task` | 4 | sweeps, stores and posts access points |
| `ble_scan_task`, `sensor_task` | 4, 3 | start and stop BLE scans; poll GPS and BME680 |
| `late_init_task` | 1 | second half of the boot, then the event loop |
| FreeRTOS timer service | 1 | the power manager's idle callback |

### Components, their state and what makes them correct

**Wi-Fi scan engine** (`scan_engine.cpp`). State: a pool of 64 slots with tick
stamp and RSSI ring, a scan buffer of 64 records, `scan_queue` (16), the display
filter. Operations: one sweep of both bands, storing each record (refresh by
BSSID, free slot, or least recently seen) in a critical section and posting it
without waiting; the UI task reads sorted snapshots with twin flags, and RSSI
histories. Hard: eviction at a full pool while all records of a sweep carry one
stamp; a queue shorter than a sweep whose consumer cannot run during the sweep; a
filter edited between two records. Correct if: one slot per BSSID, only a
stalest entry is evicted, a sweep keeps what it heard, the queue holds a prefix
in order, rings are sliding windows, snapshots are exact.

**BLE scanner** (`scan_ble.cpp`). State: a pool of devices, `ble_queue`,
`s_scanning`, `s_ble_ready`. Operations: the host task stores and posts each
advertisement and hears of a window's end; the scan task starts windows, waits,
cancels. Hard: two tasks write `s_scanning`; a start call may be overtaken by
its own end event; the host resets; slots change hands and many advertisements
carry no name. Correct if: one slot per address, names stay with their devices,
scanning resumes after whatever happened.

**Event loop** (`main.cpp`, `ui_splash.cpp`). State: three queues in a queue
set, the cached GPS fix, the splash gates. Operations: build the set, start the
producers, then for ever select, receive, serve. Hard: the order of building and
starting, fixes and scan records in different queues, a queue that floods, log
lines that wait for a console nobody may read. Correct if: the set announces
exactly what the queues hold, a record is logged with the newest fix queued before
it, and, while the console is read, nothing starves and the home screen appears.

**GPS parser and sensor task** (`gps.cpp`, `sensors.cpp`). State: the line being
assembled, the latest fix, which is kept when a later sentence has none.
Operations: read the UART, check a line's checksum, parse it; every 5 s send a
snapshot. Hard: bytes lost when the UART buffer overflows join two sentences,
bytes arrive damaged, and the checksum has eight bits. Correct if: a position was
sent by the module as one and with a fix, unless a checksum was right by chance.

**Session logger** (`session_logger.cpp`). State: 16 buffered rows, the open
file, the flush counter, a pointer file naming the session. Operations: append a
row (opening a session with the first one), write the buffer out when full or
old, flush for an export. Hard: the buffer is shared by the event loop and the
UI task without a lock; the clock starts at 1970 on every boot; power may go at
any time and the directory entry lags behind the data. Correct if: indices stay
in bounds, rows reach the file once and in order, earlier sessions survive, a
cut costs no other session, and the one under way only if it has unsynced rows.

**Session files and exports** (`session_csv.cpp`, `kml_export.cpp`,
`report_export.cpp`). State: none but the files. Operations: list sessions, find
the active one, parse rows from the right, one table entry per BSSID, a map and a
report. Hard: rows without a fix, at coordinate 0, or cut short; two exporters
that count separately. Correct if: an export takes the right session, pins are
real and one per access point, the report adds up and agrees with the map.

**Alert engine** (`alert_engine.cpp`). State: configuration (up to 4 targets per
list), a ring of alerts, the throttle. Operations: check a record (event loop);
replace the configuration, clear and copy the log (UI task). Hard: the check
reads the configuration character by character without a lock, on the task of
the lowest priority. Correct if: an undisturbed check has the right verdict, every
alert of a disturbed one is justified by configurations that were in force, and the
log is complete and newest first.

**Power manager** (`power_mgr.cpp`). State: backlight state and level, idle
stamp, three settings. Operations: the idle callback, touches, setters,
power-off, wake-up. Hard: all of it is unguarded, the callback is preempted
between any two accesses, the clock wraps. Correct if: the screen goes dark and
the device to sleep only after the idle time, and does so if left alone.

**Settings and flash broker** (`flash_broker.cpp`, `ui_settings.cpp`, the NVS
parts of the three modules above). State: settings in memory and in flash, the
screen's own copy of the alert configuration, the broker's queue and semaphore.
Hard: the configuration is loaded late in the boot by the lowest priority, which
an edit can preempt between any two steps of the load; writes and reads fail;
power cuts between keys. Correct if: a returned setter is saved, a cut leaves old
or new values, setters return, a target leaves flash only when the user deletes or
replaces it.

**OTA update** (`ota_update.cpp`). State: application partitions, the boot
partition, the running one, the flash task with its file. Operations: open,
erase, copy block by block, verify, switch, restart. Hard: every call may fail
and power may go, also by the device's own idle timer. Correct if: the device
always has a complete, valid image to boot, and runs one.

**Screens** (`ui_home.cpp`, `ui_wifi.cpp`, `ui_wifi_detail.cpp`, `ui_ble.cpp`).
State: the screen shown, which screens are visible and refreshed, the debounce,
the rows built of two lists. Operations: navigation, refreshes, row clicks. Hard:
three ways of navigating, only some of which go through one table; a refresh
that speeds itself up until rows are built. Correct if: only the shown screen is
refreshed, and the fast refresh ends.

**Dialogs of the Settings screen** (`ui_settings.cpp`). State: which of four
dialogs is shown, whether the panel scrolls, what each edits, the session list,
selection and label, the flash guard. Hard: dialogs hide one another by hand, a
timer rescans the card under them, another task's call ends a failed flash.
Correct if: one dialog at a time, a flash has the screen to itself and comes to
an end, the label tells what an export takes.

### How they interact

`wifi_scan_task`, `sensor_task` and the NimBLE callback post to queues; the
event loop takes from them, calls `session_logger_log_ap` and `alert_check`, and
opens the splash gates. The UI task reads pool snapshots and the alert log in
critical sections, sets filters, thresholds and targets, flushes the logger when
it exports, and reports touches to the power manager. Every saved setting goes
through `flash_broker_exec`, on which the UI task blocks. An SD access blocks
the calling task, which is when tasks below it run. The flash task reports to
the UI task by `lv_async_call`.

## The modules

Each module has the same layout: constants and a named assumption, variables,
one action per operation, `Spec`, properties. An operator directly above the one
it resembles (`UnboundedAppend` above `HistoryAppend`) is a faulty variant of it:
substituting it makes the property named in `PROJECT.json` fail, which shows
that the property depends on that piece of code.

| Module | Models | State and steps |
|---|---|---|
| `ApTable` | what both pools promise | a set of entries; `Refresh`, `Add`, `Replace` |
| `ScanEngine` | Wi-Fi scan engine | one action per record (the critical section and the post that follows it, between which only the UI task runs), one per filter setter; snapshots and histories are operators of the state, as they run in one critical section |
| `BleScan` | BLE scanner | the scan task one call or assignment per step, the host task's events between any two |
| `EventLoop` | boot, queue set, splash | boot steps in the order of `Plan`; one entry in the set per message; a served message whose handler logs is finished by `Handled`, when its lines are out; `Plug` connects or disconnects the reader of the console |
| `GpsReceiver` | GPS parser | one action per piece of a sentence, which arrives, arrives damaged or is lost; a piece carries its share of the checksum |
| `SessionBuffer` | the row buffer | two tasks with program counters; `s_buf_n++` is a load and a store; a batch is written row by row |
| `SessionFiles` | files, names, pointer, syncs | `session_logger_start` step by step; a batch and the sync after it are two steps; `PowerCut` anywhere may leave a stub; files count lines and lines covered by the directory entry |
| `SessionExport` | row parsing, map, report | operators from the lines of a file to pins and figures; each loop of an exporter is a fold over the lines |
| `SurveyPipeline` | the way of a position | composes `GpsReceiver`, the loop's fix, the logger's rows and `SessionExport` |
| `AlertEngine` | alert engine | the walk reads the count, then the entry one character per step, so an edit may fall between any two reads |
| `PowerMgr` | power manager | callback and power-off one access at a time; setters assign, save (blocking), then restart the idle time |
| `Settings` | settings, broker, NVS | a save writes one key per step, on the broker or inline; the load of the alert configuration in its steps: front and rest of the entry, or refusal, blank, defaults; `Reboot` at any time, `EraseBoot` where the boot erases the partition |
| `OtaUpdate` | firmware update | `ota_update_flash` one call per step, each of which may fail; `Reboot` anywhere |
| `Screens` | navigation, lists | one action per callback of the UI task |
| `SettingsDialogs` | the four dialogs | one action per callback; extends `Screens` and `OtaUpdate` |
| `UserInterface` | all of the user interface | composes the three: entering and leaving Settings is part of navigation, a restart resets what is in RAM |
| `MC...` | instances for TLC | |
| `Counting` | lemmas that the proofs share: counting, remainders, occurrences in queues, counting up, folds, sorting | |
| `ScanEngineProofs`, `BleScanProofs`, `UserInterfaceProofs`, `SettingsProofs`, `EventLoopProofs`, `SessionProofs`, `SurveyProofs` | theorems; some modules prove about two components | |

`ScanEngine` and `BleScan` implement `ApTable` under the mapping `entries <-
Entries`, the stored records with their stamps (history, queue, filter, names and
the scan cycle are hidden). `UserInterface` implements `OtaSpec`: every step of it
is a step of the update or leaves the update alone.

Abstractions:

* An SSID or BSSID is a model value, in `AlertEngine` a sequence of characters told
  apart up to case, as `strcasecmp` does; a pattern is the set of SSIDs that contain
  it. A BLE device's name stands for its manufacturer data too, which the code
  keeps and clears under the same conditions.
* Time is counted in ticks (the pools), callback periods (`PowerMgr`) or not at
  all: a timer or a debounce that runs out is an action of its own. Age of a
  buffer, DMA headroom and failure of `fopen`, `nvs_set_*` and the wake-up
  configuration are free choices. In `PowerMgr` a fade ends at once.
* A channel list of the report has no averages; the order that `qsort` gives to
  equals is any one.
* In `SessionBuffer` and `SessionFiles` a row is its number and a batch one line;
  in `SessionExport` a row is the sequence of its fields, numbers or texts.
* In `EventLoop` a fix is a number modulo `FixMod`; in `SurveyPipeline` it is a
  place, and the queue between sensor task and loop, which `EventLoop` has, is
  left out: the loop takes a snapshot at any time.
* An NMEA sentence is sent in four pieces. The checksum is an XOR, so a piece is
  reduced to what it must agree with: `sum`, the XOR of what precedes the latitude's
  end, or the value the rest of the line asks for. Two texts may share it by chance.
  Pieces glued together by a loss inside them are one damaged piece.
* The ring of the console's UART is not counted: while nobody reads, any log line of
  the event loop may get out or wait.
* `PowerMgr` joins the callback's check of the state with its write, and the two reads
  of its test for auto power-off. A touch or setter that falls between them has the same
  effect as one that falls beside them, which the properties exempt by `touched`.
* The ESP-IDF OTA calls follow their documented contract: `esp_ota_end` and
  `esp_ota_set_boot_partition` refuse an image that is incomplete or invalid.
* A dialog that closes blanks what it edits; the code sets it anew before it is
  read. Rows of a list are counted; which of them are hidden is not told apart.
* The race in `lv_async_call` (below) is the choice to lose the call.

## The runs

| Run | Shows | Bounds and why they are enough |
|---|---|---|
| `scan_pool` | `SweepRetained`, `QueueKeepsSweepPrefix`, `SnapshotFaithful`, `RingIsSlidingWindow`, refinement of `ApTable` | 3 access points (two twins, one hidden, one with two strengths) and 2 slots: the pool overflows; sweep, queue and ring of 2: each fills and wraps; 2 sweeps: stamps differ |
| `ble_scan` | `DeviceKeepsItsName`, `ScanningResumes`, refinement of `ApTable` | 3 devices and 2 slots: slots change hands; queue of 1: it overflows; stamps 0 to 2: an oldest, a middle and a newest |
| `session_buffer` | bounds, `FileIsTheLog`, `EveryCallReturns` | buffer of 2, 5 rows (two batches and a half), 2 exports |
| `session_row_lost` | violated: an export counts an entry that the event loop has taken but not filled in, writes it half filled and empties the buffer; the row, complete by then, is in no batch | same |
| `session_files` | `EarlierSessionsKept`, `BoundedLoss`, `ExportFindsSession` | 2 times x 2 suffixes, 4 sessions: every name is used up; sync every 3rd batch, files of up to 5: unsynced rows of one and of two batches, and a cut before the sync is through |
| `alert_engine` | `UndisturbedVerdict`, `AlertJustified`, `LogIsNewestFirst` | lists and ring of 2, names of 2 characters, one edit per check: a list shrinks, grows or shifts under the walk, or an entry changes between the characters of a comparison |
| `power` | `FullMeansLit`, `DarkOnlyWhenIdle`, `SleepOnlyWhenIdle`, `LeftAloneGoesDark` | clock of 6 periods (wraps), dim timeout 2, auto-off 5 |
| `settings` | `SavedOnReturn`, `CutKeepsOldOrNew`, `EverySetterReturns`, `TargetsPersist` | two filter keys and a power key, two values, one target of each list, one failed write |
| `event_loop` | `SetMatchesQueues`, `FixIsTheNewestBefore`, `EveryQueueServed`, `HomeAppears` | queues of 2: a queue holds more than the message being served; 4 distinct fixes; a reader of the console comes and goes at any time |
| `survey_pipeline` | `PinsAreReal`, `OnePinPerAp`, `ReportAgrees` | a place with a fix on the equator, a last place without one, the latter damaged to say a fix with another longitude or none and an equal checksum: any two texts can be mixed; line limit 4 pieces: lines are dropped as too long; 2 access points in two bands, 2 strengths, 2 rows, the last cut after 4 fields |
| `user_interface` | `OneDialog`, `LabelTells`, `OnlyShownRefreshes`, `FastBuildEnds` | two lists and Settings; lists of 2 and 1 rows built one at a time; 1 network, 2 states of the card (a new session precedes the old one), 1 rescan timer; no firmware files |
| `firmware_update` | `BootSafe`, `FlashHoldsScreen`, `FlashEnds` | a sound and a damaged file of 2 blocks: an image can be half written; 2 partitions besides the factory one: the round robin closes; the rest of the interface minimal |

`user_interface` and `firmware_update` check the same specification; together they
reach every action of it, apart they stay small enough.

Deadlock is checked except in `SessionBuffer`, where the bounds on rows and exports
stop the behaviour.

Exceptions that the properties name, because the code has them:

* `OnePinPerAp`: a row at exactly 0, 0 counts as a row without a fix, though it may
  have been a true one, on the equator at the meridian.
* `FileIsTheLog` only speaks of behaviours in which no export fell into a call
  of the logger; what happens otherwise is `session_row_lost`.
* `EarlierSessionsKept`: with every suffix taken, the last one is overwritten.
* `ExportFindsSession`: not when the pointer file could not be written.
* `BoundedLoss`: a cut costs the rows since the last sync or the whole open file.
* `SnapshotFaithful` says neither which access points a snapshot that is too short
  holds, nor flags a twin that is not listed with the other.
* `AlertJustified`: a target edited during the comparison may be read as the head of
  the old one and the tail of the new one; then each character comes from a list in
  force, at that place of it. A hidden access point equals an entry a deletion blanks.
* `DarkOnlyWhenIdle`, `SleepOnlyWhenIdle`: the callback subtracts two values read
  at different times; a touch in between yields a huge idle time.
* `FullMeansLit`, `LeftAloneGoesDark`: a touch or a power-off that falls between
  the callback's change of state and of light.
* `SavedOnReturn`: after a boot that could not read the alert configuration, memory
  may hold the defaults until the next edit, though an edit was saved meanwhile.
* `TargetsPersist`: not when Settings was opened before the load or the boot erases
  the partition; a stored configuration the boot could not read counts as gone.
* `CutKeepsOldOrNew`: not when the boot erases the partition.
* `EveryQueueServed`, `HomeAppears`: only if a host is there to read the console.
* `PinsAreReal`: not when a checksum is right by chance. A fix without coordinates
  keeps the place of an earlier fix, which the module sent, too.
* `ScanningResumes`: not when the scan task gave up for want of an address.
* `FlashEnds`: not when the race in `lv_async_call` loses the failure.

### Fairness

* `SessionBuffer`: a task inside the logger goes on; not that rows are logged or
  exports requested.
* `PowerMgr`: time passes, the timer task gets to run (everything above it blocks
  between events), a UI call goes on; the user need not act.
* `Settings`: the broker and the waiting UI task run (highest priority), and so does a
  read of flash under way, which inherits the priority of the writer it blocks.
* `EventLoop`: the boot, the loop and the splash timer go on, since the producers
  block between messages; log lines get out only while a host reads them (fairness of
  `host /\ Handled`), for the comments of `main.cpp` warn that they otherwise fill the
  ring and block the loop. That a host stays and that messages come are premises of
  the liveness properties, not assumptions.
* `BleScan`: the scan task goes on, since everything above it blocks between
  events. `ble_gap_disc` may fail; strong fairness of `StartWindow` says that a
  controller asked again and again, with the host synchronised, no window open and
  `s_scanning` clear, grants one at last. Nothing is assumed of the host's events:
  a window need not end by itself, since the scan task cancels it.
* `UserInterface`: LVGL timers of the lists and asynchronous calls run, the flash
  task gets the processor while the UI task waits for its next period, and the
  restart at the end happens; the user need not act.

The other modules are checked for safety only.

## The proofs

The theorems hold for all values of the constants that satisfy the modules' named
assumptions; every safety property of the passing runs is one. Where a property is
not inductive, the theorem rests on a stronger invariant; the steps that preserve it
are proved action by action. `Counting` has the lemmas that several modules need.

**Scan engine** (`ScanEngineProofs`; sizes positive, a sweep no larger than the
pool, RSSIs integers):

* `TypeCorrect`: `Spec => []TypeOK`. `TypeOK` is inductive; the work is in the
  ring arithmetic (`HistoryAppendType`), the queue (`PostType`) and in showing
  that a slot is always found (`TargetCases`, which needs that a nonempty set of
  slots has a least element and a nonempty set of stamps a least stamp).
* `SweepKeepsWhatItHeard`: `Spec => []SweepRetained`, that a sweep never evicts
  what it has heard itself. This is not inductive: one must know that some slot
  of a full pool is older than the sweep. `SweepInv` adds that slots hold
  distinct BSSIDs, that no stamp is later than the clock, and that a slot with
  the sweep's stamp holds the BSSID of a record stored so far. Then the slots
  with the sweep's stamp map one to one into the records stored so far; fewer
  than `PoolSize` records are stored while one remains (`UnstampedSlot`, a
  pigeonhole argument that uses `ScanBufMax <= PoolSize`), so the least recently
  seen slot belongs to an earlier sweep (`TargetSparesSweep`). With a buffer
  larger than the pool the property would be false.
* `PoolImplementsTable`: `Spec => RefinesApTable` under the mapping `Entries`. Only
  `StoreRecord` changes the table; `StoreObserves` maps the three cases of
  `TargetCases` to `Refresh`, `Add` and `Replace`. It needs two parts of
  `SweepInv`: distinct BSSIDs, so that a refresh or an eviction removes exactly one
  entry and the table has as many entries as the pool has used slots
  (`EntriesCount`), and stamps up to the clock, so that the table is never
  observed at an earlier tick.
* `QueueKeepsOrder`: `Spec => []QueueKeepsSweepPrefix`. `PostedSoFar` is what a queue
  without bound would hold; what is queued is that sequence cut to the room there
  is, and posting to a cut sequence is cutting the longer one (`PostToCut`).
* `HistorySlides`: `Spec => RingIsSlidingWindow`. `ReadPlace` resolves the remainders of
  the ring into two cases, before and after the wrap-around; with it `HistoryIs`
  gives the cell of the k-th oldest sample and `HistoryGrows` compares the history
  before and after an append, for a ring that is filling and for a full one.
* `SnapshotsTellTheTruth`: `Spec => []SnapshotFaithful`, from `SweepInv` (one slot per
  BSSID) and `UsedIsHeard` (a used slot holds a record). `CollectIsFaithful` says what
  the loop over the slots collects, `SortSorts` that the insertion sort keeps the
  entries and orders them, `FinalizeIsFaithful` what that means for the twin flags, and
  `FreshIsKept`, with the stamps of `SweepInv`, that the latest record of what the sweep
  has heard is in the pool.

**BLE scanner** (`BleScanProofs`): `DevicesImplementTable` proves the same refinement
from `PoolInv` (types, one slot per address, stamps up to the clock), since the
steps of both tasks other than `Advertisement` leave the pool alone.
`NamesAreKept` adds `NamesOwn`: the name in a used slot is the device's own or none.

**Event loop** (`EventLoopProofs`): `LoopInv` is proved once for `NothingLeftInQueues` and
`RecordsKeepTheirFix`. It says that the boot adds the queues empty and before their
producers run (`BootInOrder`); that each queue holds as many messages as the set has
entries for it, counting the one being served (`SetMatchesQueues`); and that the record
an entry stands for is paired with the newest fix whose entry precedes it, or with the
cached one (`RecordsPaired`). The entries before a place are counted by `Occurrences`;
the lemmas of `Counting` say how the counts move when an entry is taken from the front
(`OccurrencesShifted`) or added at the end.

**Alert engine** (in `EventLoopProofs`):

* `AlertsAreJustified` adds `Admitted`: the count that let the walk past an index was
  that of a list in force, and so was, at that index, each character compared so far. A
  comparison that reaches the end is then a match with an entry of a list in force, or,
  if several lists were, of characters of them (`ComparedIsMatched`).
* `VerdictIsConfigured` adds `Walked`: in an undisturbed check no entry the walk has
  passed is the name, and the one it compares agrees so far; names that agree to the
  end are the same (`AgreedToTheEnd`).
* `NewestComesFirst`, `AlertSpec => LogIsNewestFirst`, from `RingOK`: `SnapshotOf` gives the
  cell of the k-th newest alert, `PlaceNext` how these cells move when the head does, and
  `AlertInFront` combines them: the step after a match puts its entry in front of the log
  as it was.

**Session buffer** (`SessionProofs`, a buffer of any size):

* `BufferBounds`: `TypeOK` is not inductive. `BoundsInv` adds that a row about to be
  reserved finds room: between the check and the load of the index the other task can
  only empty the buffer.
* `FileHoldsTheLog`: `LogInv` adds to the bounds, as long as no call overlapped with an
  export, that one task at most is in the logger and that a batch covers the whole
  buffer (`Alone`); and that the file followed by the waiting rows (`Rows`) holds the
  numbers of the rows logged and not dropped, each once, in order (`InOrder`). A step
  either leaves `Rows` alone, as writing a row to the file does, or adds the newest
  row, or drops the waiting ones.

**Session files** (in `SessionProofs`): `FilesInv` says that the directory entry of the
open file lags by the batches since the last sync, `SyncEvery` at most, and of any other
by none (`EntriesFollow`), that the name a session is about to take is free unless its
second has none left, and a file without a header is covered by no entry (`NameIsFree`),
and that the pointer names the session once it is written (`PointerFollows`).
`LossIsBounded`, `NamesAreNotReused` and `ExportTakesSession` follow from one part each.

**Settings** (`SettingsProofs`):

* `ReturnedIsSaved` from `SavesInv`: one save at a time (`OneSave`), and all keys but the
  failed and the pending ones agree with flash, the alert configuration in the part the
  load has copied so far, unless it is what `load_defaults` leaves (`RestIsSaved`).
* `CutIsAllOrNothing` adds `OneKeyAtATime`: memory differs from what it was before the
  setter in progress in at most one key.
* `StoredTargetsPersist` adds `FormIsLoaded`: unless Settings was opened too early, nothing
  is saved before it is opened, its copy is the engine's configuration, and a target in
  flash is there or was deleted, replaced or unreadable.

**Power manager** (in `SettingsProofs`):

* `FullIsLit`: `LitInv` adds where each task may be, and that a task about to darken the
  screen has not left it recorded as full.
* `DarkIsEarned` and `SleepIsEarned` from `IdleInv`: the clock, which forgets whole
  rounds, never counts more than has passed since the last activity (`ClockBehind`),
  and what the callback has read so far is no more than that at each step of its way,
  unless the user did something meanwhile (`SeenIsIdle`). `SinceTick` is the one fact
  about the modulus that a tick needs.

**Firmware update** (`UserInterfaceProofs`, at least two update partitions): `NeverBricked`,
`OtaSpec => []BootSafe`. `OtaInv` adds that until the restart the boot partition is
the running one; the partition written is never the running one
(`OtherPartition`, where the two partitions are needed), hence never the boot
partition (`WriteSpares`).

**User interface** (`UserInterfaceProofs`):

* `InterfaceNeverBricks`: `Spec => []BootSafe`. `FilesAreFiles` says that the dialog
  only offers and selects files of the card; with it every step of the interface
  is an update step or leaves the update alone (`InterfaceUpdates`), so the theorem
  about the update applies.
* `NeverTwoDialogs`: `DialogInv` is `OneDialog` with the cardinality spelled out
  (`shown` is empty or a singleton), which the provers can follow through every
  opening and closing.
* `FlashIsAlone`: `FlashInv` says that `flashing` holds as long as the task exists
  or its failure is waiting, and what the dialog then shows.
* `LabelIsTrue` and `OneScreenRefreshes` need no strengthening, only the walk
  through all callbacks.

**Map and report** (`SurveyProofs`, any sentences, access points and signals; places,
signals and channels are integers, checksums and damage are anything):

* `SurveyInv` is the inductive invariant: what is on the wire and in the line buffer are
  pieces of the module's sentences, whole or damaged, each position is one of `Places` or
  none yet, and each line of the file is a row of a known access point, whole or cut
  short. `Places` are the places sent with a fix and those that a coincidence of checksums
  puts together (`Coincidences`); with distinct checksums and no damage the latter are
  none. `ParsedPosition` is where the checksum is needed: two texts that agree in it,
  the second with a fix, name one of `Places` (`AgreeingTexts`). `LineTells` says what a
  line can be parsed to.
* The exporters' loops both keep a table; `TableOf` is its invariant: one record per
  access point of the lines read so far, at its first place, with its best signal.
  `TableGrows` proves that a line keeps it.
* `PinsArePlaces` and `MapIsComplete` follow from `MapIs` (the table after the last line of
  the KML loop); `ReportMatchesMap` from that and `TallyIs` (the counts, the coverage and
  the table of the report's loop), with `SortedIs` for the sorted list and `TopIsDistinct`
  for the channels.

How the loops were reasoned about: the library's induction theorems take an operator
as a parameter, which no installed prover can instantiate, and a fold is defined by
`CHOOSE` of a recursive function. `FoldExists` of `Counting` proves, from the least
counterexample, that the function a fold chooses exists; each loop is thereby unrolled
once into a sequence of states, one per line (`KmlUnrolled`, `TallyUnrolled`,
`CollectUnrolled`, `SortUnrolled`); and `CountUp` carries an invariant along it, for the
set of the indices at which the invariant holds. `SortingExists` does the same for the
sorted arrangement that `qsort` chooses.

Only model-checked: liveness (`EveryCallReturns`, `EveryQueueServed`, `HomeAppears`,
`EverySetterReturns`, `LeftAloneGoesDark`, `ScanningResumes`, `FastBuildEnds`,
`FlashEnds`), which is out of reach of the prover, as is ENABLED.


## What was found

One property that the documentation states and the code does not have is shown by
a run, `session_row_lost` (`session_logger.cpp:100`, `186`): `session_logger_log_ap` takes
an entry with `s_buf_n++` and fills it in afterwards. An export that preempts it in
between counts the entry into its batch, writes it as it is and sets `s_buf_n` to 0; the
event loop then fills in an entry that is in no batch any more. Further divergences
between a comment or document and the code were met while modelling; `PROJECT.json`
quotes each:

* Scanners: a snapshot shorter than the pool, Wi-Fi or BLE, holds the first slots and not
  the strongest entries; twins are flagged only if both are listed; a slot taken over from
  an evicted access point keeps the old history.
* Event loop: it logs INFO lines for every snapshot, so that with nobody reading the
  console the UART ring fills and the loop waits, which the comments of `main.cpp` warn of.
* Alerts: deleting a target can hide another from a walk in progress; a target edited
  while `strcasecmp` reads it can match an access point nobody named; the throttle
  remembers one target.
* Stored targets: Settings opened before the load shows a blank configuration, which an
  edit then saves over the stored one; `load_defaults` may overwrite an edit made while the
  load was under way; an entry that cannot be read is replaced by the defaults at the next
  edit; a boot that erases the NVS partition loses all.
* Session logger: a record without a fix is logged at 0, 0, although a last position was
  to be kept; the session name loop ends before a name is free; the sync interval is 32
  flushes, not 4, and within it a cut may cost the whole file.
* Power manager: `idle_ms` subtracts two values read at different times, so a press in
  between looks like 49 idle days; `power_mgr_power_off` can return.
* User interface: the rescan timer of Settings replaces the session the user has picked,
  and the list under an open picker; the GPS screen takes a working module for silent
  between two snapshots; `lv_async_call` from the flash task is not safe, and the call can
  be lost.

Further observations:

* `flash_broker_init` only logs a task that could not be created; the first save
  would then wait for ever at `flash_broker.cpp:66`.
* `alert_engine_init` may also load between a setter's assignment and its save; memory
  and flash agree afterwards, but the edit is gone.
* The keyboard dialog ignores empty text, so a filter pattern cannot be cleared,
  and saving a pattern saves the alert configuration as well.
* An export flushes but does not sync: it reads only what the directory entry of
  the active session covers.
* A BME680 that is present but never reads keeps the splash up until a tap.
* The idle timer's power-off does not ask whether firmware is being flashed;
  `BootSafe` holds nevertheless.
* A read error of the card ends the copy of an image like its end; the image is
  then refused by verification, not by the copy.

## Not modelled

* Layout, drawing and animation (`ui_theme.cpp`, `ui_spin3d.cpp`, the rows of the
  lists, the history chart, the progress bar): a property of them would be about
  pixels.
* Spectrum, environment, GPS, alerts and calibration screens beyond navigation and
  visibility, which `Screens` has: they draw the latest snapshot and keep nothing.
* The BME680 driver and its compensation formulas, the touch sampler's median filter
  and calibration, the RMC time and the degree conversion of the GPS parser:
  straight-line arithmetic of one task, better served by unit tests with the data
  sheet's values than by a bounded model.
* The LED, display transfers, I2C probing, mounting of the SD card, console output:
  pure I/O. Bring-up of the Wi-Fi driver: no state of its own.
* Failure of `esp_wifi_scan_get_ap_records` and a broker task that was never created:
  hazards listed without a property.
* Host tools, documentation and CI workflows: not part of the device.

## Plan

1. (done) `ApTable`, `ScanEngine`, the refinement between them and its proof.
2. (done) `SessionBuffer`, `SessionFiles`, `AlertEngine`, `PowerMgr`, `Settings`,
   `EventLoop`.
3. (done) `OtaUpdate`, and its composition with the dialog that starts it.
4. (done) `BleScan`, a second implementation of `ApTable`.
5. (done) `SessionExport` and `SurveyPipeline`; the picker in `SettingsDialogs`.
6. (done) `GpsReceiver`, `Screens`. The touch filter is left out, see above.
7. (done) Proofs for the scan engine's queue, BLE scanner, firmware update, user
   interface, power manager, alert engine and settings.
8. (done) Proofs for the event loop, session buffer and files, histories, snapshots,
   alert log, alert targets, idle times, and for the map and the report; every safety
   property of the runs is a theorem.
9. (open) Abstract specifications of the session buffer (a log that is appended to
   and moved to the file in order) and of the queue set (one queue of messages), as
   refinements; the step invariants proved here are most of what they need.
