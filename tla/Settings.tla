------------------------------ MODULE Settings ------------------------------
(***************************************************************************)
(* The saved settings: scan filters and power settings, one NVS entry per  *)
(* key, and the alert configuration, one entry for all of it.  The UI task *)
(* assigns in memory and blocks while the flash broker writes; the alert   *)
(* configuration is loaded late in the boot, behind the UI task's back and *)
(* preempted by it; a read or a write may fail, power may be cut at any    *)
(* time, and a boot may find the flash partition unusable and erase it.    *)
(***************************************************************************)
EXTENDS Naturals, Sequences, FiniteSets, SequencesExt

CONSTANTS
  FilterKeys,   \* keys of the scan filter, in the order they are written
  PowerKeys,    \* keys of the power manager, in the order they are written
  PatternKey,   \* the filter key the keyboard dialog edits
  Values,       \* values of a key
  FactoryValue, \* the value of a key never written
  Targets,      \* alert targets the user may enter
  SsidTargets,  \* those of them that name an SSID
  MaxTargets,   \* the most targets an alert configuration holds
  MaxFailed     \* bound: keys whose last write failed

Keys == ToSet(FilterKeys) \cup ToSet(PowerKeys)

ASSUME SettingsAssumption ==
  /\ FilterKeys \in Seq(ToSet(FilterKeys)) /\ PowerKeys \in Seq(ToSet(PowerKeys))
  /\ FactoryValue \in Values
  /\ PatternKey \in ToSet(FilterKeys)
  /\ ToSet(FilterKeys) \cap ToSet(PowerKeys) = {}
  /\ "cfg" \notin Keys
  /\ SsidTargets \subseteq Targets
  /\ MaxTargets \in Nat /\ MaxFailed \in Nat

VARIABLES
  ram,     \* s_filter and the power manager's variables, by key
  alert,   \* s_cfg of the alert engine
  load,    \* how far alert_engine_init is: "none", "reading" the entry into
           \* s_cfg, "refused" by NVS, "blank" within load_defaults, "done"
  form,    \* s_cfg of the Settings screen
  open,    \* whether Settings was shown this boot: "never", "late", or "early",
           \* that is, the first time before the configuration was loaded
  nvs,     \* flash: the keys' entries
  nvsCfg,  \* flash: the alert configuration's entry, none or one
  ui,      \* "idle", or the save the UI task waits for
  queue,   \* s_q: saves handed to the broker
  writer,  \* the task running a save: "none", "broker" or "inline" (the UI task)
  left,    \* keys the save in progress has still to write
  done,    \* the semaphore the UI task waits for
  before,  \* history variable: ram before the setter in progress
  gone,    \* history variable: targets the user deleted or replaced since the
           \* boot, or that the boot failed to read
  astray,  \* history variable: load_defaults wrote s_cfg and no setter since
  failed   \* history variable: keys whose last write failed

vars == <<ram, alert, load, form, open, nvs, nvsCfg, ui, queue, writer, left, done,
          before, gone, astray, failed>>

flash == <<nvs, nvsCfg, failed>>
memory == <<ram, alert, load, form, open, before, gone, astray>>
task == <<queue, writer, left, done>>

Blank == [enabled |-> FALSE, targets |-> {}]

(* load_defaults: what an absent entry stands for. *)
Default == [enabled |-> TRUE, targets |-> {}]

Stored == IF nvsCfg = <<>> THEN Default ELSE Head(nvsCfg)

Factory == [k \in Keys |-> FactoryValue]

Init ==
  /\ ram = Factory
  /\ alert = Blank
  /\ load = "none"
  /\ form = Blank
  /\ open = "never"
  /\ nvs = Factory
  /\ nvsCfg = <<>>
  /\ ui = "idle"
  /\ queue = <<>>
  /\ writer = "none"
  /\ left = <<>>
  /\ done = FALSE
  /\ before = Factory
  /\ gone = {}
  /\ astray = FALSE
  /\ failed = {}

-----------------------------------------------------------------------------
(* The Settings screen, on the UI task.                                    *)

OpenWithoutReload ==
  /\ ui = "idle"
  /\ open' = IF load = "done" /\ open # "early" THEN "late" ELSE "early"
  /\ UNCHANGED <<ram, alert, load, form, before, gone, astray, flash, ui, task>>

(* The form is a copy of the configuration the engine has now. *)
OpenSettings ==
  /\ ui = "idle"
  /\ form' = alert
  /\ open' = IF load = "done" /\ open # "early" THEN "late" ELSE "early"
  /\ UNCHANGED <<ram, alert, load, before, gone, astray, flash, ui, task>>

KeysOf(save) ==
  CASE save = "power" -> PowerKeys
    [] save \in {"filter", "pattern"} -> FilterKeys
    [] save = "alert" -> <<"cfg">>

(* flash_broker_exec: queue the save for the broker, or run it inline when *)
(* no semaphore can be had.                                                *)
Exec(save) ==
  /\ ui' = save
  /\ done' = FALSE
  /\ \/ /\ queue' = Append(queue, save)
        /\ writer' = "none"
        /\ left' = <<>>
     \/ /\ writer' = "inline"
        /\ left' = KeysOf(save)
        /\ UNCHANGED queue

SaveOf(k) ==
  IF k \in ToSet(PowerKeys) THEN "power" ELSE IF k = PatternKey THEN "pattern" ELSE "filter"

SetKey(k, v) ==
  /\ ui = "idle" /\ open # "never"
  /\ before' = ram
  /\ ram' = [ram EXCEPT ![k] = v]
  /\ Exec(SaveOf(k))
  /\ UNCHANGED <<alert, load, form, open, gone, astray, flash>>

(* alert_config_set with the form. *)
SetConfig ==
  /\ alert' = form'
  /\ astray' = FALSE
  /\ Exec("alert")

(* The targets of the form without those taken out and with those put in. *)
EditTargets(out, in) ==
  /\ form' = [form EXCEPT !.targets = (@ \ out) \cup in]
  /\ gone' = gone \cup (out \ in)

(* A switch or a threshold, a new target, a deleted one, or one replaced   *)
(* through its edit button.                                                *)
Edit ==
  /\ ui = "idle" /\ open # "never"
  /\ \/ form' = [form EXCEPT !.enabled = ~@] /\ UNCHANGED gone
     \/ /\ Cardinality(form.targets) < MaxTargets
        /\ \E t \in Targets : EditTargets({}, {t})
     \/ \E t \in form.targets : EditTargets({t}, {})
     \/ \E t \in form.targets, u \in Targets : EditTargets({t}, {u})
  /\ SetConfig
  /\ UNCHANGED <<ram, load, open, before, flash>>

(* The call returns; after the pattern the keyboard dialog saves the alert *)
(* configuration as well.                                                  *)
Return ==
  /\ before' = ram
  /\ \/ /\ ui # "pattern"
        /\ ui' = "idle"
        /\ writer' = "none"
        /\ done' = FALSE
        /\ UNCHANGED <<alert, astray, queue, left>>
     \/ /\ ui = "pattern"
        /\ UNCHANGED form
        /\ SetConfig
  /\ UNCHANGED <<ram, load, form, open, gone, flash>>

-----------------------------------------------------------------------------
(* A save, on the broker's task or inline.                                 *)

BrokerTake ==
  /\ writer = "none" /\ queue # <<>>
  /\ writer' = "broker"
  /\ left' = KeysOf(Head(queue))
  /\ queue' = Tail(queue)
  /\ UNCHANGED <<memory, flash, ui, done>>

NvsRewrite(k) ==
  IF k = "cfg" THEN nvsCfg' = <<alert>> /\ UNCHANGED nvs
  ELSE /\ nvs' = [j \in Keys |-> IF j = k THEN ram[k]
                               ELSE IF j \in ToSet(left) THEN FactoryValue ELSE nvs[j]]
       /\ UNCHANGED nvsCfg

NvsSet(k) ==
  IF k = "cfg" THEN nvsCfg' = <<alert>> /\ UNCHANGED nvs
               ELSE nvs' = [nvs EXCEPT ![k] = ram[k]] /\ UNCHANGED nvsCfg

(* A failed write leaves the entry as it was and goes unnoticed; a write   *)
(* waits for a read in progress.                                           *)
Write ==
  /\ writer # "none" /\ left # <<>> /\ load # "reading"
  /\ \/ /\ NvsSet(Head(left))
        /\ failed' = failed \ {Head(left)}
     \/ /\ failed' = failed \cup {Head(left)}
        /\ Cardinality(failed') <= MaxFailed
        /\ UNCHANGED <<nvs, nvsCfg>>
  /\ left' = Tail(left)
  /\ UNCHANGED <<memory, ui, queue, writer, done>>

GiveIfWritten ==
  /\ writer = "broker" /\ left = <<>>
  /\ done' = (failed = {})
  /\ writer' = "none"
  /\ UNCHANGED <<memory, flash, ui, queue, left>>

BrokerGive ==
  /\ writer = "broker" /\ left = <<>>
  /\ done' = TRUE
  /\ writer' = "none"
  /\ UNCHANGED <<memory, flash, ui, queue, left>>

UiGoesOn ==
  /\ ui # "idle" /\ writer # "inline"
  /\ Return

UiTake ==
  /\ ui # "idle" /\ done
  /\ Return

InlineDone ==
  /\ writer = "inline" /\ left = <<>>
  /\ Return

SaveStep == BrokerTake \/ Write \/ BrokerGive \/ UiTake \/ InlineDone

-----------------------------------------------------------------------------
(* The boot.                                                               *)

(* alert_engine_init, on the lowest-priority task, once: it may be         *)
(* preempted by the UI task between any two of these steps.                *)

(* nvs_get_blob copies the entry into s_cfg, front to back. *)
LoadFront ==
  /\ load = "none" /\ nvsCfg # <<>>
  /\ load' = "reading"
  /\ alert' = [alert EXCEPT !.enabled = Stored.enabled]
  /\ UNCHANGED <<ram, form, open, before, gone, astray, flash, ui, task>>

LoadRest ==
  /\ load = "reading"
  /\ load' = "done"
  /\ alert' = [alert EXCEPT !.targets = Stored.targets]
  /\ UNCHANGED <<ram, form, open, before, gone, astray, flash, ui, task>>

(* There is no entry, or it cannot be read, or has another size: a line is *)
(* logged before load_defaults is called.                                  *)
LoadRefused ==
  /\ load \in {"none", "reading"}
  /\ load' = "refused"
  /\ gone' = gone \cup Stored.targets
  /\ UNCHANGED <<ram, alert, form, open, before, astray, flash, ui, task>>

(* load_defaults clears s_cfg and then assigns its fields; the BSSID count *)
(* is not among them.                                                      *)
LoadBlank ==
  /\ load = "refused"
  /\ load' = "blank"
  /\ alert' = Blank
  /\ UNCHANGED <<ram, form, open, before, gone, astray, flash, ui, task>>

LoadDefaults ==
  /\ load = "blank"
  /\ load' = "done"
  /\ alert' = [enabled |-> TRUE, targets |-> alert.targets \ SsidTargets]
  /\ astray' = TRUE
  /\ UNCHANGED <<ram, form, open, before, gone, flash, ui, task>>

LoadAlert == LoadFront \/ LoadRest \/ LoadRefused \/ LoadBlank \/ LoadDefaults

(* Power comes back: the keys are loaded before the UI task starts, the    *)
(* alert configuration later.                                              *)
StartUp ==
  /\ ram' = nvs'
  /\ alert' = Blank
  /\ load' = "none"
  /\ form' = Blank
  /\ open' = "never"
  /\ ui' = "idle"
  /\ queue' = <<>>
  /\ writer' = "none"
  /\ left' = <<>>
  /\ done' = FALSE
  /\ before' = nvs'
  /\ gone' = {}
  /\ astray' = FALSE
  /\ failed' = {}

Reboot ==
  /\ UNCHANGED <<nvs, nvsCfg>>
  /\ StartUp

(* nvs_flash_init finds no free page, or data of another version. *)
EraseBoot ==
  /\ nvs' = Factory
  /\ nvsCfg' = <<>>
  /\ StartUp

Next ==
  \/ OpenSettings
  \/ \E k \in Keys, v \in Values : SetKey(k, v)
  \/ Edit
  \/ SaveStep
  \/ LoadAlert
  \/ Reboot \/ EraseBoot

(* The broker and the blocked UI task run at the highest priority; the     *)
(* task that reads inherits it from a writer that waits.                   *)
Spec == Init /\ [][Next]_vars /\ WF_vars(SaveStep) /\ WF_vars(LoadRest)

-----------------------------------------------------------------------------
(* Properties.                                                             *)

(* When a setter has returned, flash holds what memory holds, except for   *)
(* the keys whose write failed: the broker wrote before it let the UI task *)
(* go, and a later save makes up for an earlier failed one.  The exception *)
(* is the alert configuration after a boot that could not read it: until   *)
(* the next edit memory may hold the defaults instead, also in place of an *)
(* edit saved while load_defaults was under way.                           *)
SavedOnReturn ==
  ui = "idle" =>
    /\ \A k \in Keys \ failed : ram[k] = nvs[k]
    /\ load = "done" /\ "cfg" \notin failed =>
         alert = Stored \/ (astray /\ alert.enabled /\ alert.targets \cap SsidTargets = {})

(* A power cut leaves the settings as they were before the setter in       *)
(* progress or as it made them, never some of each, although a save writes *)
(* every key on its own; unless the boot finds the partition unusable and  *)
(* erases all of them.                                                     *)
CutKeepsOldOrNew ==
  [][Reboot =>
       \E settings \in {before, ram} :
         \A k \in Keys \ failed : ram'[k] = settings[k]]_vars

(* Every setter returns: the broker and the UI task never wait for each    *)
(* other, nor for ever on the late load.                                   *)
EverySetterReturns == (ui # "idle") ~> (ui = "idle")

OnlyGoneGo == Stored.targets \ Stored'.targets \subseteq gone

(* A stored target leaves flash only when the user deleted or replaced it, *)
(* or the boot could not read it.  The exceptions are Settings opened      *)
(* before the configuration was loaded, and a boot that erases the flash.  *)
TargetsPersist == [][open = "early" \/ EraseBoot \/ OnlyGoneGo]_vars

=============================================================================
