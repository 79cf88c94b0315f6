----------------------------- MODULE EventLoop -----------------------------
(***************************************************************************)
(* late_init_task: it adds the producers' queues to a queue set, starts    *)
(* the producers and serves the set for ever; the splash screen gives way  *)
(* to the home screen when an access point and a sensor reading came       *)
(* through.  A producer drops its message when its queue is full.          *)
(*                                                                         *)
(* The loop writes INFO lines to the console, at every snapshot for ever.  *)
(* A line that finds the ring of the UART full waits until a host reads;   *)
(* how full the ring is, other tasks' lines included, is not modelled: a   *)
(* line may or may not get through while no host listens.  The lines of    *)
(* the boot and the five of the reset reason are left out.                 *)
(*                                                                         *)
(* A GPS fix is a number modulo FixMod.  A scan record carries the number  *)
(* of the last snapshot queued before it, which the code does not store.   *)
(***************************************************************************)
EXTENDS Naturals, Sequences, FiniteSets, SequencesExt

CONSTANTS
  ScanCap, EnvCap, BleCap,  \* queue lengths (16, 8, 16)
  FixMod                    \* bound: fixes told apart

ASSUME LoopAssumption ==
  /\ ScanCap \in Nat \ {0} /\ EnvCap \in Nat \ {0} /\ BleCap \in Nat \ {0}
  /\ FixMod \in Nat /\ FixMod > EnvCap + 1

VARIABLES
  step,      \* how many steps of Plan are done
  queue,     \* scan_queue, env_queue, ble_queue
  members,   \* queues added to the set
  ready,     \* the set: one entry per message, in the order they were sent
  running,   \* producers started
  serving,   \* the queue selected from the set, or "none"
  logging,   \* the queue whose message is received and being logged, or "none"
  host,      \* a host reads the console
  latest,    \* latest_gps
  fix,       \* the last fix queued
  bme,       \* the BME680 is present
  gates,     \* s_scan_ready and s_env_ready, as the set of gates satisfied
  home,      \* the home screen is loaded
  aborted    \* ESP_ERROR_CHECK failed

vars == <<step, queue, members, ready, running, serving, logging, host, latest, fix, bme,
          gates, home, aborted>>

Sources == {"scan", "env", "ble"}

Cap == [s \in Sources |-> CASE s = "scan" -> ScanCap [] s = "env" -> EnvCap [] s = "ble" -> BleCap]

Init ==
  /\ step = 0
  /\ queue = [s \in Sources |-> <<>>]
  /\ members = {}
  /\ ready = <<>>
  /\ running = {}
  /\ serving = "none"
  /\ logging = "none"
  /\ host \in BOOLEAN
  /\ latest = 0
  /\ fix = 0
  /\ bme \in BOOLEAN
  /\ gates = {}
  /\ home = FALSE
  /\ aborted = FALSE

-----------------------------------------------------------------------------
(* The boot.                                                               *)

StartFirst ==
  <<<<"start", "scan">>, <<"start", "env">>, <<"start", "ble">>,
    <<"add", "scan">>, <<"add", "env">>, <<"add", "ble">>>>

Plan ==
  <<<<"add", "scan">>, <<"add", "env">>, <<"add", "ble">>,
    <<"start", "scan">>, <<"start", "env">>, <<"start", "ble">>>>

(* A queue that holds data cannot join a set. *)
BootStep ==
  /\ ~aborted /\ step < Len(Plan)
  /\ step' = step + 1
  /\ LET act == Plan[step + 1][1]
         s   == Plan[step + 1][2]
     IN \/ act = "start" /\ running' = running \cup {s} /\ UNCHANGED <<members, aborted>>
        \/ /\ act = "add"
           /\ IF queue[s] = <<>> THEN members' = members \cup {s} /\ UNCHANGED aborted
                                 ELSE aborted' = TRUE /\ UNCHANGED members
           /\ UNCHANGED running
  /\ UNCHANGED <<queue, ready, serving, logging, host, latest, fix, bme, gates, home>>

-----------------------------------------------------------------------------
(* A producer posts; the set notes which queue a message went to.          *)

Post(s) ==
  /\ s \in running
  /\ Len(queue[s]) < Cap[s]
  /\ fix' = IF s = "env" THEN (fix + 1) % FixMod ELSE fix
  /\ queue' = [queue EXCEPT ![s] = Append(@, IF s = "ble" THEN 0 ELSE fix')]
  /\ ready' = IF s \in members THEN Append(ready, s) ELSE ready
  /\ UNCHANGED <<step, members, running, serving, logging, host, latest, bme, gates, home,
                 aborted>>

-----------------------------------------------------------------------------
(* The loop.                                                               *)

Looping == ~aborted /\ step = Len(Plan) /\ logging = "none"

SelectLast ==
  /\ Looping /\ serving = "none" /\ ready # <<>>
  /\ serving' = Last(ready)
  /\ ready' = Front(ready)
  /\ UNCHANGED <<step, queue, members, running, logging, host, latest, fix, bme, gates, home,
                 aborted>>

Select ==
  /\ Looping /\ serving = "none" /\ ready # <<>>
  /\ serving' = Head(ready)
  /\ ready' = Tail(ready)
  /\ UNCHANGED <<step, queue, members, running, logging, host, latest, fix, bme, gates, home,
                 aborted>>

Receive(s) ==
  /\ serving = s
  /\ queue' = [queue EXCEPT ![s] = Tail(@)]
  /\ serving' = "none"
  /\ UNCHANGED <<step, members, ready, running, host, fix, bme, home, aborted>>

(* The record is logged with the cached fix and checked for alerts; a      *)
(* session file written out and an alert announced are lines of the log.   *)
ServeScan ==
  /\ Receive("scan")
  /\ \/ logging' = "scan" /\ UNCHANGED gates
     \/ gates' = gates \cup {"scan"} /\ UNCHANGED logging
  /\ UNCHANGED latest

(* The fix is cached before the snapshot is logged. *)
ServeEnv ==
  /\ Receive("env")
  /\ latest' = Head(queue["env"])
  /\ logging' = "env"
  /\ UNCHANGED gates

ServeBle == Receive("ble") /\ UNCHANGED <<latest, gates, logging>>

Serve == ServeScan \/ ServeEnv \/ ServeBle

HandledIfRead ==
  /\ logging # "none"
  /\ logging' = "none"
  /\ gates' = IF logging = "env" /\ ~bme THEN gates ELSE gates \cup {logging}
  /\ UNCHANGED <<step, queue, members, ready, running, serving, host, latest, fix, bme, home,
                 aborted>>

(* The lines are out.  A failed reading of a present sensor leaves its     *)
(* gate closed.                                                            *)
Handled ==
  /\ logging # "none"
  /\ logging' = "none"
  /\ \/ gates' = gates \cup {logging}
     \/ logging = "env" /\ bme /\ UNCHANGED gates
  /\ UNCHANGED <<step, queue, members, ready, running, serving, host, latest, fix, bme, home,
                 aborted>>

(* A monitor is plugged in, or out. *)
Plug ==
  /\ host' = ~host
  /\ UNCHANGED <<step, queue, members, ready, running, serving, logging, latest, fix, bme, gates,
                 home, aborted>>

-----------------------------------------------------------------------------
(* The splash screen, on the UI task.                                      *)

(* A tap counts as both. *)
Skip ==
  /\ ~home
  /\ gates' = {"scan", "env"}
  /\ UNCHANGED <<step, queue, members, ready, running, serving, logging, host, latest, fix, bme,
                 home, aborted>>

GatesOpen == gates = {"scan", "env"}

Gate ==
  /\ ~home /\ GatesOpen
  /\ home' = TRUE
  /\ UNCHANGED <<step, queue, members, ready, running, serving, logging, host, latest, fix, bme,
                 gates, aborted>>

Next ==
  \/ BootStep
  \/ \E s \in Sources : Post(s)
  \/ Select \/ Serve \/ Handled
  \/ Skip \/ Gate
  \/ Plug

(* The loop runs although the producers have higher priorities: they block *)
(* between messages.  Its log lines are sure to get out only while a host  *)
(* reads them.                                                             *)
Spec ==
  /\ Init /\ [][Next]_vars
  /\ WF_vars(BootStep) /\ WF_vars(Select) /\ WF_vars(Serve) /\ WF_vars(Gate)
  /\ WF_vars(host /\ Handled)

-----------------------------------------------------------------------------
(* Properties.                                                             *)

(* The messages of a queue that the selected entry and the first i entries *)
(* of the set stand for.                                                   *)
Announced(s, i) ==
  Cardinality({k \in 1 .. i : ready[k] = s}) + (IF serving = s THEN 1 ELSE 0)

(* The set announces exactly the messages the queues hold, so every        *)
(* receive finds one and no message is ever left behind; the boot never    *)
(* fails because a producer was faster than xQueueAddToSet.                *)
SetMatchesQueues ==
  /\ ~aborted
  /\ \A s \in Sources : Len(queue[s]) = Announced(s, Len(ready))

(* A scan record is logged with the newest fix that was queued before it,  *)
(* although fixes and records travel through different queues.             *)
FixIsTheNewestBefore == [][ServeScan => Head(queue["scan"]) = latest]_vars

HostStays == <>[]host

(* A flood of BLE advertisements never starves the other queues.  The      *)
(* exception is a console nobody reads: the loop may then wait in a log    *)
(* line for ever, and nothing is served any more.                          *)
EveryQueueServed == HostStays => \A s \in Sources : (queue[s] # <<>>) ~> (serving = s)

(* Without a BME680 the home screen appears once scans and snapshots keep  *)
(* coming, without a tap, with the same exception.                         *)
HomeAppears ==
  (~bme /\ HostStays /\ []<><<Post("scan")>>_vars /\ []<><<Post("env")>>_vars) => <>home

=============================================================================
