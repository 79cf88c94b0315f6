-------------------------- MODULE SettingsProofs --------------------------
(***************************************************************************)
(* What the user chose: the saved settings, for any keys in any order of   *)
(* writing, any values and any number of failed writes; and the screen,    *)
(* which the power manager dims by two of them, for any clock, any delays  *)
(* and any dim levels.                                                     *)
(***************************************************************************)
EXTENDS Settings, PowerMgr, Counting, SequenceTheorems

-----------------------------------------------------------------------------
(***************************************************************************)
(* The saved settings.                                                     *)
(***************************************************************************)

Saves == {"power", "filter", "pattern", "alert"}

AllKeys == Keys \cup {"cfg"}

AlertConfigs == [enabled : BOOLEAN, targets : SUBSET Targets]

SettingsTypeOK ==
  /\ alert \in AlertConfigs /\ form \in AlertConfigs
  /\ nvsCfg = <<>> \/ \E c \in AlertConfigs : nvsCfg = <<c>>
  /\ ram \in [Keys -> Values] /\ nvs \in [Keys -> Values]
  /\ left \in Seq(AllKeys)
  /\ ui \in Saves \cup {"idle"}

(* One save at a time: it is queued, being written, or written.            *)
OneSave ==
  /\ ui = "idle" => queue = <<>> /\ writer = "none" /\ ~done
  /\ ui # "idle" =>
       \/ queue = <<ui>> /\ writer = "none" /\ ~done
       \/ queue = <<>> /\ writer \in {"broker", "inline"} /\ ~done
       \/ queue = <<>> /\ writer = "none" /\ done

(* The keys that flash may still hold old values of.                       *)
Pending ==
  IF queue # <<>> THEN ToSet(KeysOf(ui))
  ELSE IF writer # "none" THEN ToSet(left)
  ELSE {}

(* What load_defaults leaves in memory. *)
Defaulted == astray /\ alert.enabled /\ alert.targets \cap SsidTargets = {}

RestIsSaved ==
  /\ \A k \in Keys \ (failed \cup Pending) : ram[k] = nvs[k]
  /\ "cfg" \notin failed \cup Pending =>
       /\ load = "reading" => alert.enabled = Stored.enabled
       /\ load = "done" => alert = Stored \/ Defaulted

SavesInv == SettingsTypeOK /\ OneSave /\ RestIsSaved

-----------------------------------------------------------------------------
(* Keys and their saves.                                                   *)

LEMMA KeysOfSave ==
  /\ KeysOf("power") = PowerKeys /\ KeysOf("filter") = FilterKeys
  /\ KeysOf("pattern") = FilterKeys /\ KeysOf("alert") = <<"cfg">>
BY Zenon DEF KeysOf

LEMMA KeysOfType ==
  ASSUME NEW save \in Saves
  PROVE  KeysOf(save) \in Seq(AllKeys)
<1>1. FilterKeys \in Seq(AllKeys) /\ PowerKeys \in Seq(AllKeys)
  BY SettingsAssumption DEF AllKeys, Keys
<1>2. <<"cfg">> \in Seq(AllKeys)
  BY DEF AllKeys
<1>. QED
  BY <1>1, <1>2, KeysOfSave DEF Saves

(* A setter's save writes the key that was set.                            *)
LEMMA SaveHasKey ==
  ASSUME NEW k \in Keys
  PROVE  SaveOf(k) \in Saves /\ k \in ToSet(KeysOf(SaveOf(k)))
BY KeysOfSave, Zenon DEF SaveOf, Saves, Keys

(* What the entry stands for is a configuration.                           *)
LEMMA StoredType ==
  ASSUME SettingsTypeOK
  PROVE  Stored \in AlertConfigs
<1>1. Default \in AlertConfigs
  BY DEF Default, AlertConfigs
<1>2. ASSUME NEW c \in AlertConfigs, nvsCfg = <<c>>
      PROVE  Stored = c
  BY <1>2 DEF Stored
<1>. QED
  BY <1>1, <1>2 DEF SettingsTypeOK, Stored

(* Handing over a save makes its keys pending, and no others.              *)
LEMMA ExecEffect ==
  ASSUME NEW save \in Saves, Exec(save), queue = <<>>
  PROVE  /\ OneSave' /\ Pending' = ToSet(KeysOf(save))
         /\ ui' \in Saves \cup {"idle"} /\ left' \in Seq(AllKeys)
<1>. USE DEF OneSave, Pending
<1>1. ui' = save /\ ui' # "idle" /\ ~done'
  BY DEF Exec, Saves
<1>2. CASE queue' = Append(queue, save) /\ writer' = "none" /\ left' = <<>>
  <2>1. queue' = <<save>> /\ queue' # <<>>
    BY <1>2
  <2>. QED
    BY <1>1, <1>2, <2>1
<1>3. CASE writer' = "inline" /\ left' = KeysOf(save) /\ UNCHANGED queue
  BY <1>1, <1>3, KeysOfType
<1>. QED
  BY <1>2, <1>3 DEF Exec

(* The save the UI task waited for is over: nothing is pending.            *)
LEMMA OverMeansNothingPending ==
  ASSUME SavesInv, UiTake \/ InlineDone
  PROVE  Pending = {} /\ queue = <<>>
<1>1. left = <<>> => ToSet(left) = {}
  BY DEF ToSet
<1>. QED
  BY <1>1 DEF UiTake, InlineDone, SavesInv, OneSave, Pending

LEMMA ReturnKeeps ==
  ASSUME SavesInv, UiTake \/ InlineDone
  PROVE  SavesInv'
<1>1. Return /\ Pending = {} /\ queue = <<>>
  BY OverMeansNothingPending DEF UiTake, InlineDone
<1>2. UNCHANGED <<ram, nvs, nvsCfg, Stored, load, form, failed>>
  BY <1>1 DEF Return, flash, Stored
<1>3. CASE ui # "pattern"
  <2>1. ui' = "idle" /\ writer' = "none" /\ ~done' /\ queue' = <<>>
        /\ UNCHANGED <<alert, astray, left>>
    BY <1>1, <1>3 DEF Return
  <2>2. Pending' = {}
    BY <2>1 DEF Pending
  <2>. QED
    BY <1>1, <1>2, <2>1, <2>2 DEF SavesInv, SettingsTypeOK, OneSave, RestIsSaved, Defaulted
<1>4. CASE ui = "pattern"
  <2>1. Exec("alert") /\ "alert" \in Saves /\ alert' = form'
    BY <1>1, <1>4 DEF Return, SetConfig, Saves
  <2>2. /\ OneSave' /\ Pending' = ToSet(<<"cfg">>)
        /\ ui' \in Saves \cup {"idle"} /\ left' \in Seq(AllKeys)
    BY <1>1, <2>1, ExecEffect, KeysOfSave
  <2>3. "cfg" \in ToSet(<<"cfg">>)
    BY DEF ToSet
  <2>. QED
    BY <1>1, <1>2, <2>1, <2>2, <2>3 DEF SavesInv, SettingsTypeOK, RestIsSaved
<1>. QED
  BY <1>3, <1>4

(* An edit makes the form another configuration. *)
LEMMA EditType ==
  ASSUME SettingsTypeOK, Edit
  PROVE  /\ form' \in AlertConfigs /\ gone \subseteq gone'
         /\ form.targets \subseteq form'.targets \cup gone'
<1>1. form \in AlertConfigs
  BY DEF SettingsTypeOK
<1>2. CASE form' = [form EXCEPT !.enabled = ~@] /\ UNCHANGED gone
  BY <1>1, <1>2 DEF AlertConfigs
<1>3. ASSUME NEW out \in SUBSET Targets, NEW in \in SUBSET Targets, EditTargets(out, in)
      PROVE  /\ form' \in AlertConfigs /\ gone \subseteq gone'
             /\ form.targets \subseteq form'.targets \cup gone'
  <2>1. /\ form' = [form EXCEPT !.targets = (form.targets \ out) \cup in]
        /\ gone' = gone \cup (out \ in)
    BY <1>3 DEF EditTargets
  <2>2. form' \in AlertConfigs /\ form'.targets = (form.targets \ out) \cup in
    BY <1>1, <2>1 DEF AlertConfigs
  <2>. QED
    BY <2>1, <2>2
<1>4. form.targets \subseteq Targets
  BY <1>1 DEF AlertConfigs
<1>5. CASE \/ \E t \in Targets : EditTargets({}, {t})
           \/ \E t \in form.targets : EditTargets({t}, {})
           \/ \E t \in form.targets, u \in Targets : EditTargets({t}, {u})
  BY <1>3, <1>4, <1>5
<1>. QED
  BY <1>2, <1>5 DEF Edit

LEMMA SetterKeeps ==
  ASSUME SavesInv, (\E k \in Keys, v \in Values : SetKey(k, v)) \/ Edit
  PROVE  SavesInv'
<1>1. ui = "idle" /\ Pending = {} /\ queue = <<>>
  BY DEF SetKey, Edit, SavesInv, OneSave, Pending
<1>2. ASSUME NEW k \in Keys, NEW v \in Values, SetKey(k, v)
      PROVE  SavesInv'
  <2>1. /\ Exec(SaveOf(k))
        /\ UNCHANGED <<alert, form, astray, load, nvs, nvsCfg, Stored, failed>>
    BY <1>2 DEF SetKey, flash, Stored
  <2>2. ram' = [ram EXCEPT ![k] = v]
    BY <1>2 DEF SetKey
  <2>3. /\ OneSave' /\ k \in Pending' /\ ui' \in Saves \cup {"idle"}
        /\ left' \in Seq(AllKeys) /\ "cfg" \notin Pending
    BY <1>1, <2>1, ExecEffect, SaveHasKey
  <2>4. SettingsTypeOK'
    BY <2>1, <2>2, <2>3 DEF SavesInv, SettingsTypeOK
  <2>5. \A j \in Keys \ {k} : ram'[j] = ram[j]
    BY <2>2 DEF SavesInv, SettingsTypeOK
  <2>6. RestIsSaved'
    BY <1>1, <2>1, <2>3, <2>5 DEF SavesInv, RestIsSaved, Defaulted
  <2>. QED
    BY <2>3, <2>4, <2>6 DEF SavesInv
<1>3. CASE Edit
  <2>1. /\ Exec("alert") /\ "alert" \in Saves /\ alert' = form'
        /\ UNCHANGED <<ram, load, nvs, nvsCfg, failed>>
    BY <1>3 DEF Edit, SetConfig, Saves, flash
  <2>2. /\ OneSave' /\ Pending' = ToSet(<<"cfg">>)
        /\ ui' \in Saves \cup {"idle"} /\ left' \in Seq(AllKeys)
    BY <1>1, <2>1, ExecEffect, KeysOfSave
  <2>3. "cfg" \in ToSet(<<"cfg">>)
    BY DEF ToSet
  <2>4. form' \in AlertConfigs
    BY <1>3, EditType DEF SavesInv
  <2>. QED
    BY <1>1, <2>1, <2>2, <2>3, <2>4 DEF SavesInv, SettingsTypeOK, RestIsSaved
<1>. QED
  BY <1>2, <1>3

LEMMA WriteKeeps ==
  ASSUME SavesInv, Write
  PROVE  SavesInv'
<1>. DEFINE k == Head(left)
<1>1. /\ left \in Seq(AllKeys) /\ left # <<>> /\ left' = Tail(left)
      /\ UNCHANGED <<ram, alert, form, astray, load, ui, queue, writer, done>>
      /\ writer # "none" /\ load # "reading"
  BY DEF Write, SavesInv, SettingsTypeOK, memory
<1>2. left' \in Seq(AllKeys) /\ k \in AllKeys /\ ToSet(left) \subseteq ToSet(left') \cup {k}
  <2>1. Len(left) \in Nat \ {0} /\ Len(left') = Len(left) - 1
        /\ \A i \in 1 .. Len(left') : left'[i] = left[i + 1]
        /\ DOMAIN left' = 1 .. Len(left')
    BY <1>1, HeadTailProperties
  <2>2. ASSUME NEW i \in 1 .. Len(left), i # 1
        PROVE  left[i] \in ToSet(left')
    <3>1. i - 1 \in 1 .. Len(left') /\ left'[i - 1] = left[i]
      BY <2>1, <2>2
    <3>. QED
      BY <2>1, <3>1 DEF ToSet
  <2>3. left[1] = k
    BY <1>1
  <2>. QED
    BY <1>1, <2>1, <2>2, <2>3 DEF ToSet
<1>3. Pending = ToSet(left) /\ Pending' = ToSet(left')
  BY <1>1 DEF Pending, SavesInv, OneSave
<1>. HIDE DEF k
<1>4. OneSave'
  BY <1>1 DEF SavesInv, OneSave
<1>5. CASE NvsSet(k) /\ failed' = failed \ {k}
  <2>1. CASE k = "cfg"
    <3>1. nvsCfg' = <<alert>> /\ UNCHANGED nvs /\ "cfg" \notin Keys
      BY <1>5, <2>1, SettingsAssumption DEF NvsSet
    <3>2. Stored' = alert'
      BY <1>1, <3>1 DEF Stored
    <3>3. SettingsTypeOK'
      BY <1>1, <1>2, <3>1 DEF SavesInv, SettingsTypeOK
    <3>4. RestIsSaved'
      BY <1>1, <1>2, <1>3, <1>5, <2>1, <3>1, <3>2 DEF SavesInv, RestIsSaved
    <3>. QED
      BY <1>4, <3>3, <3>4 DEF SavesInv
  <2>2. CASE k # "cfg"
    <3>1. nvs' = [nvs EXCEPT ![k] = ram[k]] /\ UNCHANGED nvsCfg /\ k \in Keys
      BY <1>2, <1>5, <2>2 DEF NvsSet, AllKeys
    <3>2. nvs' \in [Keys -> Values] /\ nvs'[k] = ram[k]
          /\ \A j \in Keys \ {k} : nvs'[j] = nvs[j]
      BY <3>1 DEF SavesInv, SettingsTypeOK
    <3>3. RestIsSaved'
      <4>1. UNCHANGED <<Stored, Defaulted>>
        BY <1>1, <3>1 DEF Stored, Defaulted
      <4>. QED
        BY <1>1, <1>2, <1>3, <1>5, <2>2, <3>1, <3>2, <4>1 DEF SavesInv, RestIsSaved
    <3>. QED
      BY <1>1, <1>2, <1>4, <3>1, <3>2, <3>3 DEF SavesInv, SettingsTypeOK
  <2>. QED
    BY <2>1, <2>2
<1>6. CASE failed' = failed \cup {k} /\ UNCHANGED <<nvs, nvsCfg>>
  <2>1. UNCHANGED <<Stored, Defaulted>>
    BY <1>1, <1>6 DEF Stored, Defaulted
  <2>. QED
    BY <1>1, <1>2, <1>3, <1>4, <1>6, <2>1 DEF SavesInv, SettingsTypeOK, RestIsSaved
<1>. QED
  BY <1>5, <1>6 DEF Write, k

LEMMA BrokerKeeps ==
  ASSUME SavesInv, BrokerTake \/ BrokerGive
  PROVE  SavesInv'
<1>0. UNCHANGED <<ram, alert, form, load, nvs, nvsCfg, Stored, Defaulted, failed, ui>>
  BY DEF BrokerTake, BrokerGive, memory, flash, Stored, Defaulted
<1>1. CASE BrokerTake
  <2>1. queue = <<ui>> /\ ui \in Saves /\ ~done
    BY <1>1 DEF BrokerTake, SavesInv, OneSave, SettingsTypeOK
  <2>2. Head(<<ui>>) = ui /\ Tail(<<ui>>) = <<>> /\ <<ui>> # <<>>
    OBVIOUS
  <2>3. queue' = <<>> /\ writer' = "broker" /\ left' = KeysOf(ui) /\ ~done'
    BY <1>1, <2>1, <2>2 DEF BrokerTake
  <2>4. Pending' = Pending /\ left' \in Seq(AllKeys)
    BY <1>0, <2>1, <2>2, <2>3, KeysOfType DEF Pending
  <2>. QED
    BY <1>0, <2>1, <2>3, <2>4 DEF SavesInv, SettingsTypeOK, OneSave, RestIsSaved, Saves
<1>2. CASE BrokerGive
  <2>1. queue = <<>> /\ left = <<>> /\ writer = "broker" /\ ui # "idle"
    BY <1>2 DEF BrokerGive, SavesInv, OneSave
  <2>2. writer' = "none" /\ done' /\ UNCHANGED <<queue, left>>
    BY <1>2 DEF BrokerGive
  <2>3. Pending = {} /\ Pending' = {}
    BY <2>1, <2>2 DEF Pending, ToSet
  <2>. QED
    BY <1>0, <2>1, <2>2, <2>3 DEF SavesInv, SettingsTypeOK, OneSave, RestIsSaved
<1>. QED
  BY <1>1, <1>2

(* The late load, behind a setter that may be under way.                   *)
LEMMA LoadKeeps ==
  ASSUME SavesInv, LoadAlert
  PROVE  SavesInv'
<1>1. UNCHANGED <<ram, form, nvs, nvsCfg, failed, ui, queue, writer, left, done, Stored, Pending>>
  BY DEF LoadAlert, LoadFront, LoadRest, LoadRefused, LoadBlank, LoadDefaults, flash, task,
         Stored, Pending
<1>2. alert \in AlertConfigs /\ Stored \in AlertConfigs
  BY StoredType DEF SavesInv, SettingsTypeOK
<1>3. alert' \in AlertConfigs => SettingsTypeOK' /\ OneSave'
  BY <1>1 DEF SavesInv, SettingsTypeOK, OneSave
<1>4. \A k \in Keys \ (failed' \cup Pending') : ram'[k] = nvs'[k]
  BY <1>1 DEF SavesInv, RestIsSaved
<1>5. CASE LoadFront
  <2>1. alert' = [alert EXCEPT !.enabled = Stored.enabled] /\ load' = "reading"
    BY <1>5 DEF LoadFront
  <2>2. alert' \in AlertConfigs /\ alert'.enabled = Stored.enabled
    BY <1>2, <2>1 DEF AlertConfigs
  <2>. QED
    BY <1>1, <1>3, <1>4, <2>1, <2>2 DEF SavesInv, RestIsSaved
<1>6. CASE LoadRest
  <2>1. alert' = [alert EXCEPT !.targets = Stored.targets] /\ load' = "done" /\ load = "reading"
    BY <1>6 DEF LoadRest
  <2>2. alert' \in AlertConfigs
    BY <1>2, <2>1 DEF AlertConfigs
  <2>3. alert.enabled = Stored.enabled => alert' = Stored
    BY <1>2, <2>1 DEF AlertConfigs
  <2>. QED
    BY <1>1, <1>3, <1>4, <2>1, <2>2, <2>3 DEF SavesInv, RestIsSaved
<1>7. CASE LoadRefused \/ LoadBlank
  <2>1. load' \in {"refused", "blank"} /\ alert' \in {alert, Blank}
    BY <1>7 DEF LoadRefused, LoadBlank
  <2>2. alert' \in AlertConfigs
    <3>1. Blank \in AlertConfigs
      BY DEF AlertConfigs, Blank
    <3>. QED
      BY <1>2, <2>1, <3>1
  <2>3. RestIsSaved'
    BY <1>4, <2>1 DEF RestIsSaved
  <2>. QED
    BY <1>3, <2>2, <2>3 DEF SavesInv
<1>8. CASE LoadDefaults
  <2>1. /\ alert' = [enabled |-> TRUE, targets |-> alert.targets \ SsidTargets]
        /\ astray' = TRUE /\ load' = "done"
    BY <1>8 DEF LoadDefaults
  <2>2. alert' \in AlertConfigs /\ Defaulted'
    BY <1>2, <2>1 DEF AlertConfigs, Defaulted
  <2>. QED
    BY <1>3, <1>4, <2>1, <2>2 DEF SavesInv, RestIsSaved
<1>. QED
  BY <1>5, <1>6, <1>7, <1>8 DEF LoadAlert

(* A boot starts from what flash holds, or from nothing.                   *)
LEMMA BootKeeps ==
  ASSUME SavesInv, Reboot \/ EraseBoot
  PROVE  SavesInv'
<1>1. /\ ram' = nvs' /\ alert' = Blank /\ form' = Blank /\ load' = "none" /\ ui' = "idle"
      /\ queue' = <<>> /\ writer' = "none" /\ left' = <<>> /\ ~done'
  BY DEF Reboot, EraseBoot, StartUp
<1>2. nvs' \in [Keys -> Values]
  BY SettingsAssumption DEF Reboot, EraseBoot, Factory, SavesInv, SettingsTypeOK
<1>3. nvsCfg' = <<>> \/ \E c \in AlertConfigs : nvsCfg' = <<c>>
  BY DEF Reboot, EraseBoot, SavesInv, SettingsTypeOK
<1>4. Blank \in AlertConfigs
  BY DEF Blank, AlertConfigs
<1>. QED
  BY <1>1, <1>2, <1>3, <1>4 DEF SavesInv, SettingsTypeOK, OneSave, RestIsSaved

LEMMA SavesStep ==
  ASSUME SavesInv, [Next]_vars
  PROVE  SavesInv'
<1>1. CASE OpenSettings \/ UNCHANGED vars
  <2>1. /\ form' \in {form, alert}
        /\ UNCHANGED <<ram, alert, astray, load, nvs, nvsCfg, failed, ui, queue, writer, left, done>>
    BY <1>1 DEF OpenSettings, vars, flash, task
  <2>2. UNCHANGED <<Stored, Defaulted, Pending>>
    BY <2>1 DEF Stored, Defaulted, Pending
  <2>. QED
    BY <2>1, <2>2 DEF SavesInv, SettingsTypeOK, OneSave, RestIsSaved
<1>. QED
  BY <1>1, SetterKeeps, ReturnKeeps, WriteKeeps, BrokerKeeps, LoadKeeps, BootKeeps
  DEF Next, SaveStep

LEMMA SavesInit == Init => SavesInv
<1>. SUFFICES ASSUME Init
              PROVE  SavesInv
  OBVIOUS
<1>1. ram = [k \in Keys |-> FactoryValue] /\ nvs = ram /\ load = "none"
  BY DEF Init, Factory
<1>3. alert \in AlertConfigs /\ form \in AlertConfigs /\ nvsCfg = <<>>
  BY DEF Init, Blank, AlertConfigs
<1>2. ui = "idle" /\ queue = <<>> /\ writer = "none" /\ left = <<>> /\ ~done
  BY DEF Init
<1>. QED
  BY <1>1, <1>2, <1>3, SettingsAssumption
     DEF SavesInv, SettingsTypeOK, OneSave, RestIsSaved

(* A setter that returns has been saved, whichever of the two tasks wrote, *)
(* in whatever order the keys are written and whichever writes failed      *)
(* before and were made up for since; only load_defaults, called late, may *)
(* come between memory and flash.                                          *)
THEOREM ReturnedIsSaved == Spec => []SavedOnReturn
<1>1. SavesInv => SavedOnReturn
  BY DEF SavesInv, OneSave, RestIsSaved, Defaulted, Pending, SavedOnReturn
<1>. QED
  BY <1>1, SavesInit, SavesStep, PTL DEF Spec

-----------------------------------------------------------------------------
(* Power cuts.                                                             *)

(* Memory differs from what it was before the setter in progress in one    *)
(* key at most, and flash holds one or the other of every key.             *)
OneKeyAtATime ==
  \E k \in Keys :
    /\ \A j \in Keys \ {k} : before[j] = ram[j]
    /\ \A j \in Keys \ failed : nvs[j] \in {before[j], ram[j]}

LEMMA OneKeyStep ==
  ASSUME SavesInv, OneKeyAtATime, [Next]_vars
  PROVE  OneKeyAtATime'
<1>. USE DEF OneKeyAtATime, SavesInv
<1>1. CASE UNCHANGED <<before, ram, nvs, failed>>
  BY <1>1
<1>2. ASSUME NEW k \in Keys, NEW v \in Values, SetKey(k, v)
      PROVE  OneKeyAtATime'
  <2>1. before' = ram /\ ram' = [ram EXCEPT ![k] = v] /\ UNCHANGED <<nvs, failed>>
        /\ ui = "idle"
    BY <1>2 DEF SetKey, flash
  <2>2. \A j \in Keys \ {k} : before'[j] = ram'[j]
    BY <2>1 DEF SettingsTypeOK
  <2>3. \A j \in Keys \ failed : nvs[j] = ram[j]
    BY <2>1 DEF OneSave, RestIsSaved, Pending
  <2>. QED
    BY <2>1, <2>2, <2>3
<1>3. CASE UiTake \/ InlineDone
  <2>1. before' = ram /\ UNCHANGED <<ram, nvs, failed>>
    BY <1>3 DEF UiTake, InlineDone, Return, flash
  <2>2. \A j \in Keys \ failed : nvs[j] = ram[j]
    BY <1>3, OverMeansNothingPending DEF RestIsSaved
  <2>. QED
    BY <2>1, <2>2
<1>4. CASE Write
  <2>1. UNCHANGED <<before, ram>>
    BY <1>4 DEF Write, memory
  <2>2. CASE NvsSet(Head(left)) /\ failed' = failed \ {Head(left)}
    <3>1. \A j \in Keys : (nvs'[j] = nvs[j] /\ j # Head(left)) \/ nvs'[j] = ram[j]
      BY <2>2, SettingsAssumption DEF NvsSet, SettingsTypeOK
    <3>. QED
      BY <2>1, <2>2, <3>1
  <2>3. CASE failed' = failed \cup {Head(left)} /\ UNCHANGED <<nvs, nvsCfg>>
    BY <2>1, <2>3
  <2>. QED
    BY <1>4, <2>2, <2>3 DEF Write
<1>5. CASE Reboot \/ EraseBoot
  <2>1. ram' = nvs' /\ before' = nvs'
    BY <1>5 DEF Reboot, EraseBoot, StartUp
  <2>. QED
    BY <2>1
<1>6. CASE LoadAlert
  BY <1>1, <1>6 DEF LoadAlert, LoadFront, LoadRest, LoadRefused, LoadBlank, LoadDefaults, flash
<1>. QED
  BY <1>1, <1>2, <1>3, <1>4, <1>5, <1>6
  DEF Next, OpenSettings, Edit, SaveStep, BrokerTake, BrokerGive, memory, flash, vars

(* A power cut in the middle of a save undoes the setter or keeps it.      *)
THEOREM CutIsAllOrNothing == Spec => CutKeepsOldOrNew
<1>1. Init => OneKeyAtATime
  <2>1. PatternKey \in Keys
    BY SettingsAssumption DEF Keys
  <2>2. Init => before = ram /\ nvs = ram
    BY DEF Init
  <2>. QED
    BY <2>1, <2>2 DEF OneKeyAtATime
<1>2. ASSUME OneKeyAtATime, Reboot
      PROVE  \E settings \in {before, ram} :
               \A k \in Keys \ failed : ram'[k] = settings[k]
  <2>1. PICK k \in Keys :
          /\ \A j \in Keys \ {k} : before[j] = ram[j]
          /\ \A j \in Keys \ failed : nvs[j] \in {before[j], ram[j]}
    BY <1>2 DEF OneKeyAtATime
  <2>2. ram' = nvs
    BY <1>2 DEF Reboot, StartUp
  <2>3. CASE nvs[k] = ram[k] \/ k \in failed
    BY <2>1, <2>2, <2>3
  <2>4. CASE nvs[k] = before[k]
    BY <2>1, <2>2, <2>4
  <2>. QED
    BY <2>1, <2>3, <2>4
<1>3. OneKeyAtATime /\ [Next]_vars =>
        [Reboot => \E settings \in {before, ram} :
                     \A k \in Keys \ failed : ram'[k] = settings[k]]_vars
  BY <1>2
<1>. QED
  BY <1>1, <1>3, OneKeyStep, SavesInit, SavesStep, PTL DEF Spec, CutKeepsOldOrNew

-----------------------------------------------------------------------------
(* Alert targets.                                                          *)

(* Unless Settings was opened too early: nothing is saved before it is     *)
(* opened, the form is what the engine has once it was, and a target that  *)
(* flash holds is one the engine has, if it is loaded, or one that may go. *)
FormIsLoaded ==
  open # "early" =>
    /\ open \in {"never", "late"}
    /\ open = "never" => ui = "idle"
    /\ open = "late" => load = "done" /\ form = alert
    /\ load = "done" => Stored.targets \subseteq alert.targets \cup gone
    /\ load \in {"refused", "blank"} => Stored.targets \subseteq gone

TargetsInv == SavesInv /\ FormIsLoaded

(* Only a save writes, and a save is somebody's: Settings was opened.      *)
LEMMA WriteKeepsTargets ==
  ASSUME TargetsInv, Write
  PROVE  FormIsLoaded' /\ (open = "early" \/ OnlyGoneGo)
<1>1. UNCHANGED <<alert, load, form, open, gone, ui>> /\ ui # "idle"
  BY DEF Write, memory, TargetsInv, SavesInv, OneSave
<1>2. Stored' \in {Stored, alert}
  <2>1. nvsCfg' = nvsCfg \/ nvsCfg' = <<alert>>
    BY DEF Write, NvsSet
  <2>. QED
    BY <2>1 DEF Stored
<1>3. open # "early" =>
        /\ open = "late" /\ load = "done"
        /\ Stored.targets \subseteq alert.targets \cup gone
  BY <1>1 DEF TargetsInv, FormIsLoaded
<1>4. open = "early" \/ OnlyGoneGo
  BY <1>2, <1>3 DEF OnlyGoneGo
<1>. QED
  BY <1>1, <1>2, <1>3, <1>4 DEF TargetsInv, FormIsLoaded

(* The load finds no Settings screen opened in time.                       *)
LEMMA LoadKeepsTargets ==
  ASSUME TargetsInv, LoadAlert
  PROVE  FormIsLoaded' /\ UNCHANGED nvsCfg
<1>1. UNCHANGED <<form, open, ui, nvsCfg, Stored>> /\ load # "done"
  BY DEF LoadAlert, LoadFront, LoadRest, LoadRefused, LoadBlank, LoadDefaults, flash, Stored
<1>2. alert \in AlertConfigs
  BY DEF TargetsInv, SavesInv, SettingsTypeOK
<1>3. CASE LoadFront
  BY <1>1, <1>3 DEF LoadFront, TargetsInv, FormIsLoaded
<1>4. CASE LoadRest
  <2>1. alert'.targets = Stored.targets /\ load' = "done"
    BY <1>2, <1>4 DEF LoadRest, AlertConfigs
  <2>. QED
    BY <1>1, <2>1 DEF TargetsInv, FormIsLoaded
<1>5. CASE LoadRefused
  <2>1. gone' = gone \cup Stored.targets /\ load' = "refused"
    BY <1>5 DEF LoadRefused
  <2>. QED
    BY <1>1, <2>1 DEF TargetsInv, FormIsLoaded
<1>6. CASE LoadBlank \/ LoadDefaults
  <2>1. load \in {"refused", "blank"} /\ load' \in {"blank", "done"} /\ UNCHANGED gone
    BY <1>6 DEF LoadBlank, LoadDefaults
  <2>. QED
    BY <1>1, <2>1 DEF TargetsInv, FormIsLoaded
<1>. QED
  BY <1>1, <1>3, <1>4, <1>5, <1>6 DEF LoadAlert

LEMMA TargetsStep ==
  ASSUME TargetsInv, [Next]_vars
  PROVE  TargetsInv' /\ (open = "early" \/ EraseBoot \/ OnlyGoneGo)
<1>. USE DEF TargetsInv
<1>1. SavesInv'
  BY SavesStep
<1>2. UNCHANGED nvsCfg => OnlyGoneGo /\ UNCHANGED Stored
  BY DEF OnlyGoneGo, Stored
<1>3. CASE Write
  BY <1>1, <1>3, WriteKeepsTargets
<1>4. CASE OpenSettings
  <2>1. /\ form' = alert /\ UNCHANGED <<alert, load, gone, nvsCfg>>
        /\ open' = IF load = "done" /\ open # "early" THEN "late" ELSE "early"
    BY <1>4 DEF OpenSettings, flash
  <2>. QED
    BY <1>1, <1>2, <2>1 DEF FormIsLoaded
<1>5. CASE Edit
  <2>1. open # "never" /\ alert' = form' /\ UNCHANGED <<load, open, nvsCfg>>
    BY <1>5 DEF Edit, SetConfig, flash
  <2>2. gone \subseteq gone' /\ form.targets \subseteq form'.targets \cup gone'
    BY <1>5, EditType DEF SavesInv
  <2>. QED
    BY <1>1, <1>2, <2>1, <2>2 DEF FormIsLoaded
<1>6. ASSUME NEW k \in Keys, NEW v \in Values, SetKey(k, v)
      PROVE  TargetsInv' /\ UNCHANGED nvsCfg
  <2>1. UNCHANGED <<alert, load, form, open, gone, nvsCfg>> /\ open # "never"
    BY <1>6 DEF SetKey, flash
  <2>. QED
    BY <1>1, <1>2, <2>1 DEF FormIsLoaded
<1>7. CASE UiTake \/ InlineDone
  <2>1. UNCHANGED <<load, form, open, gone, nvsCfg>> /\ alert' \in {alert, form}
        /\ ui # "idle"
    BY <1>7 DEF UiTake, InlineDone, Return, SetConfig, flash, SavesInv, OneSave
  <2>. QED
    BY <1>1, <1>2, <2>1 DEF FormIsLoaded
<1>8. CASE BrokerTake \/ BrokerGive \/ UNCHANGED vars
  <2>1. UNCHANGED <<alert, load, form, open, gone, nvsCfg, ui>>
    BY <1>8 DEF BrokerTake, BrokerGive, memory, flash, vars
  <2>. QED
    BY <1>1, <1>2, <2>1 DEF FormIsLoaded
<1>9. CASE LoadAlert
  BY <1>1, <1>2, <1>9, LoadKeepsTargets
<1>10. CASE Reboot \/ EraseBoot
  <2>1. load' = "none" /\ open' = "never" /\ ui' = "idle"
    BY <1>10 DEF Reboot, EraseBoot, StartUp
  <2>2. EraseBoot \/ UNCHANGED nvsCfg
    BY <1>10 DEF Reboot
  <2>. QED
    BY <1>1, <1>2, <2>1, <2>2 DEF FormIsLoaded
<1>. QED
  BY <1>2, <1>3, <1>4, <1>5, <1>6, <1>7, <1>8, <1>9, <1>10 DEF Next, SaveStep

(* No save loses a target the user neither deleted nor replaced: what is   *)
(* written is what was loaded, as the user edited it, unless the boot      *)
(* could not read it, Settings was opened before the load, or the boot     *)
(* erased the flash.                                                       *)
THEOREM StoredTargetsPersist == Spec => TargetsPersist
<1>1. Init => FormIsLoaded
  BY DEF Init, FormIsLoaded
<1>2. TargetsInv /\ [Next]_vars => [open = "early" \/ EraseBoot \/ OnlyGoneGo]_vars
  BY TargetsStep
<1>3. TargetsInv /\ [Next]_vars => TargetsInv'
  BY TargetsStep
<1>4. Init => TargetsInv
  BY <1>1, SavesInit DEF TargetsInv
<1>. QED
  BY <1>2, <1>3, <1>4, PTL DEF Spec, TargetsPersist

-----------------------------------------------------------------------------
(***************************************************************************)
(* The power manager.                                                      *)
(***************************************************************************)

Places == {"idle", "readLast", "readTick", "autoOff", "backlight", "applyDim",
           "applyOff", "darken", "markOff", "delay", "settle", "save"}

PlacesOK == pc \in [ui : Places, timer : Places] /\ raced \in BOOLEAN

(* While the callback is between a state and its light, the state is not   *)
(* full, unless a touch made it so: that is what raced records.            *)
DarkeningIsNotFull ==
  pc["timer"] \in {"applyDim", "applyOff"} /\ ~raced => state # "full"

LitInv == PlacesOK /\ DarkeningIsNotFull /\ FullMeansLit

LEMMA TimerKeepsLit ==
  ASSUME LitInv, TimerStep
  PROVE  LitInv'
<1>. USE DEF LitInv, PlacesOK, DarkeningIsNotFull, FullMeansLit, Places, Goto, choices
<1>1. CASE Fire
  BY <1>1 DEF Fire
<1>2. CASE Difference
  BY <1>2 DEF Difference
<1>3. CASE CheckAutoOff
  BY <1>3 DEF CheckAutoOff
<1>4. CASE SetState
  BY <1>4 DEF SetState
<1>5. CASE ApplyState
  BY <1>5 DEF ApplyState
<1>6. CASE PowerOff("timer")
  BY <1>6 DEF PowerOff, Darken, MarkOff, ConfigureWake, DeepSleep
<1>. QED
  BY <1>1, <1>2, <1>3, <1>4, <1>5, <1>6 DEF TimerStep

LEMMA UiKeepsLit ==
  ASSUME LitInv, UserStep \/ UiRuns
  PROVE  LitInv'
<1>. USE DEF LitInv, PlacesOK, DarkeningIsNotFull, FullMeansLit, Places, Goto, choices
<1>1. CASE Activity
  BY <1>1 DEF Activity, UserActs, BlApply, Between
<1>2. CASE SetTimeout \/ SetAutoOff \/ SetDimPct
  BY <1>2 DEF SetTimeout, SetAutoOff, SetDimPct
<1>3. CASE RequestPowerOff
  BY <1>3 DEF RequestPowerOff
<1>4. CASE Boot
  BY <1>4 DEF Boot
<1>5. CASE Saved
  BY <1>5 DEF Saved
<1>6. CASE PowerOff("ui")
  BY <1>6, ZenonT(60) DEF PowerOff, Darken, MarkOff, ConfigureWake, DeepSleep, Between
<1>. QED
  BY <1>1, <1>2, <1>3, <1>4, <1>5, <1>6 DEF UserStep, UiRuns

(* A touch brings back full light, whatever the callback and a requested   *)
(* power-off are doing, unless it falls between a state and its light.     *)
THEOREM FullIsLit == PowerSpec => []FullMeansLit
<1>1. PowerInit => LitInv
  <2>. SUFFICES ASSUME PowerInit
                PROVE  LitInv
    OBVIOUS
  <2>1. pc = [ui |-> "idle", timer |-> "idle"] /\ light = 100 /\ raced \in BOOLEAN
    BY DEF PowerInit
  <2>2. pc["ui"] = "idle" /\ pc["timer"] = "idle" /\ PlacesOK
    BY <2>1 DEF PlacesOK, Places
  <2>. QED
    BY <2>1, <2>2 DEF LitInv, DarkeningIsNotFull, FullMeansLit
<1>2. LitInv /\ [PowerNext]_powerVars => LitInv'
  <2>. SUFFICES ASSUME LitInv, [PowerNext]_powerVars
                PROVE  LitInv'
    OBVIOUS
  <2>1. CASE Tick \/ UNCHANGED powerVars
    BY <2>1 DEF Tick, powerVars, choices, LitInv, PlacesOK, DarkeningIsNotFull, FullMeansLit
  <2>. QED
    BY <2>1, TimerKeepsLit, UiKeepsLit DEF PowerNext
<1>3. LitInv => FullMeansLit
  BY DEF LitInv
<1>. QED
  BY <1>1, <1>2, <1>3, PTL DEF PowerSpec

-----------------------------------------------------------------------------
(* Idle times.                                                             *)

PowerTypeOK ==
  /\ clock \in 0 .. ClockMod - 1 /\ last \in 0 .. ClockMod - 1 /\ seen \in 0 .. ClockMod - 1
  /\ timeout \in Timeouts /\ autoOff \in AutoOffs
  /\ pc \in [ui : Places, timer : Places]
  /\ idleFor \in Nat /\ awake \in BOOLEAN /\ touched \in BOOLEAN

(* The difference of two readings of the clock. *)
Since(now, then) == (now - then) % ClockMod

(* The clock forgets whole rounds, so it never counts more than has passed. *)
ClockBehind == Since(clock, last) <= idleFor /\ idleFor <= ClockMod

(* What the callback holds is no more than the time the user has been idle *)
(* for, at every step of its way, and is the reason for where it is.       *)
SeenIsIdle ==
  ~touched =>
    /\ pc["timer"] = "readLast" => Since(seen, last) <= idleFor
    /\ pc["timer"] = "readTick" => seen = last
    /\ pc["timer"] \in {"autoOff", "backlight"} => seen <= idleFor
    /\ pc["timer"] = "applyDim" => idleFor >= timeout
    /\ pc["timer"] = "applyOff" => idleFor >= timeout * 2
    /\ pc["timer"] \in {"darken", "markOff", "delay", "settle"} =>
         autoOff > 0 /\ idleFor >= autoOff

IdleInv == PowerTypeOK /\ ClockBehind /\ SeenIsIdle

LEMMA SinceType ==
  ASSUME NEW a \in Int, NEW b \in Int
  PROVE  Since(a, b) \in 0 .. ClockMod - 1 /\ Since(a, a) = 0
<1>1. ClockMod \in Nat \ {0} /\ a - b \in Int /\ a - a = 0 /\ 0 \in Int
  BY PowerAssumption
<1>. QED
  BY <1>1, WrapOnce DEF Since

(* A tick adds at most one to the difference. *)
LEMMA SinceTick ==
  ASSUME NEW a \in 0 .. ClockMod - 1, NEW b \in 0 .. ClockMod - 1
  PROVE  Since((a + 1) % ClockMod, b) <= Since(a, b) + 1
<1>1. PICK m \in Nat \ {0} : m = ClockMod
  BY PowerAssumption
<1>2. a \in 0 .. m - 1 /\ b \in 0 .. m - 1
  BY <1>1
<1>3. (a + 1) % m = IF a + 1 = m THEN 0 ELSE a + 1
  BY <1>2
<1>4. (a - b) % m = IF b <= a THEN a - b ELSE a - b + m
  BY <1>2
<1>5. CASE a + 1 = m
  <2>1. (0 - b) % m = IF b = 0 THEN 0 ELSE m - b
    BY <1>2
  <2>. QED
    BY <1>1, <1>2, <1>3, <1>4, <1>5, <2>1 DEF Since
<1>6. CASE a + 1 # m
  <2>1. ((a + 1) - b) % m <= ((a - b) % m) + 1
    BY <1>2
  <2>. QED
    BY <1>1, <1>2, <1>3, <1>4, <1>6, <2>1 DEF Since
<1>. QED
  BY <1>5, <1>6

LEMMA TimerKeepsIdle ==
  ASSUME IdleInv, TimerStep
  PROVE  IdleInv'
<1>. USE DEF IdleInv, PowerTypeOK, ClockBehind, SeenIsIdle, Places, Goto, choices, time
<1>0. Timeouts \subseteq Nat /\ AutoOffs \subseteq Nat /\ ClockMod \in Nat
  BY PowerAssumption
<1>1. CASE Fire
  BY <1>1 DEF Fire, Now
<1>2. CASE Difference
  <2>1. CASE pc["timer"] = "readLast" /\ seen' = (seen - last) % ClockMod
    <3>1. seen' = Since(seen, last)
      BY <2>1 DEF Since
    <3>2. Since(seen, last) \in 0 .. ClockMod - 1
      <4>1. seen \in Int /\ last \in Int
        BY <1>0
      <4>. QED
        BY <4>1, SinceType
    <3>. QED
      BY <1>0, <1>2, <2>1, <3>1, <3>2 DEF Difference
  <2>2. CASE pc["timer"] = "readTick" /\ seen' = (Now - seen) % ClockMod
    <3>1. seen' = Since(clock, seen)
      BY <2>2 DEF Since, Now
    <3>2. Since(clock, seen) \in 0 .. ClockMod - 1
      <4>1. clock \in Int /\ seen \in Int
        BY <1>0
      <4>. QED
        BY <4>1, SinceType
    <3>. QED
      BY <1>0, <1>2, <2>2, <3>1, <3>2 DEF Difference
  <2>. QED
    BY <1>2, <2>1, <2>2 DEF Difference
<1>3. CASE CheckAutoOff
  BY <1>0, <1>3 DEF CheckAutoOff
<1>4. CASE SetState
  BY <1>0, <1>4 DEF SetState, DimDelayOver, OffDelayOver
<1>5. CASE ApplyState
  BY <1>5 DEF ApplyState
<1>6. CASE PowerOff("timer")
  BY <1>6 DEF PowerOff, Darken, MarkOff, ConfigureWake, DeepSleep
<1>. QED
  BY <1>1, <1>2, <1>3, <1>4, <1>5, <1>6 DEF TimerStep

LEMMA UiKeepsIdle ==
  ASSUME IdleInv, UserStep \/ UiRuns
  PROVE  IdleInv'
<1>. USE DEF IdleInv, PowerTypeOK, ClockBehind, SeenIsIdle, Places, Goto, choices, time
<1>0. Timeouts \subseteq Nat /\ AutoOffs \subseteq Nat /\ ClockMod \in Nat \ {0}
  BY PowerAssumption
<1>1. CASE Activity \/ Saved
  <2>1. last' = clock /\ clock' = clock /\ idleFor' = 0 /\ touched' = TRUE
    BY <1>1 DEF Activity, Saved, RestartIdle, UserActs, Now
  <2>2. Since(clock', last') = 0
    BY <2>1, SinceType
  <2>. QED
    BY <1>0, <1>1, <2>1, <2>2 DEF Activity, Saved
<1>2. CASE SetTimeout \/ SetAutoOff
  BY <1>2 DEF SetTimeout, SetAutoOff
<1>3. CASE SetDimPct \/ RequestPowerOff
  BY <1>3 DEF SetDimPct, RequestPowerOff
<1>4. CASE Boot
  <2>1. /\ clock' = 0 /\ last' = 0 /\ seen' = 0 /\ idleFor' = 0 /\ pc'["timer"] = "idle"
        /\ pc' \in [ui : Places, timer : Places] /\ awake' \in BOOLEAN /\ touched' \in BOOLEAN
        /\ UNCHANGED <<timeout, autoOff>>
    BY <1>4 DEF Boot
  <2>2. Since(clock', last') = 0
    BY <2>1, SinceType
  <2>3. PowerTypeOK'
    BY <1>0, <2>1
  <2>. QED
    BY <1>0, <2>1, <2>2, <2>3
<1>5. CASE PowerOff("ui")
  BY <1>5 DEF PowerOff, Darken, MarkOff, ConfigureWake, DeepSleep
<1>. QED
  BY <1>1, <1>2, <1>3, <1>4, <1>5 DEF UserStep, UiRuns

LEMMA TickKeepsIdle ==
  ASSUME IdleInv, Tick
  PROVE  IdleInv'
<1>. USE DEF IdleInv, PowerTypeOK, choices
<1>0. Timeouts \subseteq Nat /\ AutoOffs \subseteq Nat /\ ClockMod \in Nat \ {0}
  BY PowerAssumption
<1>1. /\ clock' = (clock + 1) % ClockMod
      /\ idleFor' = IF idleFor < ClockMod THEN idleFor + 1 ELSE idleFor
      /\ UNCHANGED <<last, timeout, autoOff, pc, seen, awake, touched>>
  BY DEF Tick
<1>2. clock' \in 0 .. ClockMod - 1 /\ Since(clock', last) \in 0 .. ClockMod - 1
  <2>1. clock + 1 \in Int
    OBVIOUS
  <2>2. clock' \in 0 .. ClockMod - 1
    BY <1>0, <1>1, <2>1, WrapOnce
  <2>. QED
    BY <2>2, SinceType
<1>3. Since(clock', last) <= Since(clock, last) + 1 /\ Since(clock, last) \in Nat
  BY <1>1, SinceTick, SinceType
<1>4. ClockBehind'
  BY <1>0, <1>1, <1>2, <1>3 DEF ClockBehind
<1>5. SeenIsIdle'
  <2>1. idleFor' >= idleFor /\ idleFor' \in Nat
    BY <1>1
  <2>2. Since(seen, last) \in 0 .. ClockMod - 1
    BY SinceType
  <2>3. timeout \in Nat /\ timeout * 2 \in Nat /\ autoOff \in Nat
    BY <1>0
  <2>. QED
    BY <1>1, <2>1, <2>2, <2>3 DEF SeenIsIdle
<1>. QED
  BY <1>1, <1>2, <1>4, <1>5

LEMMA IdleAlways == PowerSpec => []IdleInv
<1>1. PowerInit => IdleInv
  <2>. SUFFICES ASSUME PowerInit
                PROVE  IdleInv
    OBVIOUS
  <2>1. Since(clock, last) = 0 /\ ClockMod \in Nat \ {0}
    BY SinceType, PowerAssumption DEF PowerInit
  <2>2. pc = [ui |-> "idle", timer |-> "idle"]
    BY DEF PowerInit
  <2>3. pc["timer"] = "idle" /\ pc \in [ui : Places, timer : Places]
    BY <2>2 DEF Places
  <2>4. 0 \in 0 .. ClockMod - 1 /\ 0 <= ClockMod
    BY <2>1
  <2>5. awake \in BOOLEAN /\ touched \in BOOLEAN
    BY DEF PowerInit
  <2>. QED
    BY <2>1, <2>3, <2>4, <2>5 DEF PowerInit, IdleInv, PowerTypeOK, ClockBehind, SeenIsIdle
<1>2. IdleInv /\ [PowerNext]_powerVars => IdleInv'
  <2>. SUFFICES ASSUME IdleInv, [PowerNext]_powerVars
                PROVE  IdleInv'
    OBVIOUS
  <2>1. CASE UNCHANGED powerVars
    BY <2>1 DEF powerVars, IdleInv, PowerTypeOK, ClockBehind, SeenIsIdle
  <2>. QED
    BY <2>1, TickKeepsIdle, TimerKeepsIdle, UiKeepsIdle DEF PowerNext
<1>. QED
  BY <1>1, <1>2, PTL DEF PowerSpec

(* The callback darkens the screen only when the user has been idle for as *)
(* long as the settings say, wherever the clock wraps and whenever the UI  *)
(* task preempts it.                                                       *)
THEOREM DarkIsEarned == PowerSpec => DarkOnlyWhenIdle
<1>1. IdleInv => [pc["timer"] \in {"applyDim", "applyOff"} /\ light' < light
                    => \/ touched
                       \/ idleFor >= timeout * (IF pc["timer"] = "applyOff" THEN 2 ELSE 1)]_powerVars
  <2>. SUFFICES ASSUME IdleInv, pc["timer"] \in {"applyDim", "applyOff"}, ~touched
                PROVE  idleFor >= timeout * (IF pc["timer"] = "applyOff" THEN 2 ELSE 1)
    OBVIOUS
  <2>1. timeout \in Nat /\ timeout * 1 = timeout
    BY PowerAssumption DEF IdleInv, PowerTypeOK
  <2>. QED
    BY <2>1 DEF IdleInv, SeenIsIdle
<1>. QED
  BY <1>1, IdleAlways, PTL DEF DarkOnlyWhenIdle

(* The device goes to sleep by itself only after the time the user set. *)
THEOREM SleepIsEarned == PowerSpec => SleepOnlyWhenIdle
<1>1. IdleInv => [awake /\ ~awake' /\ pc["timer"] = "settle" /\ pc["ui"] # "settle"
                    => touched \/ (autoOff > 0 /\ idleFor >= autoOff)]_powerVars
  BY DEF IdleInv, SeenIsIdle
<1>. QED
  BY <1>1, IdleAlways, PTL DEF SleepOnlyWhenIdle

=============================================================================
