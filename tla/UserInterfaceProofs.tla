----------------------- MODULE UserInterfaceProofs ------------------------
(***************************************************************************)
(* The update never bricks the device, and the invariants of the user      *)
(* interface: for any number of partitions and images of any length, any   *)
(* screens, list sizes, cards, networks and firmware files.                *)
(***************************************************************************)
EXTENDS UserInterface, TLAPS, FiniteSetTheorems

-----------------------------------------------------------------------------
(***************************************************************************)
(* The update, on its own.                                                 *)
(***************************************************************************)

(* Until the update is over the boot partition is the running one, which   *)
(* the update does not write.                                              *)
BootsRunning == flasher # "restart" => boot = running

OtaInv == OtaTypeOK /\ BootSafe /\ BootsRunning

LEMMA OtherPartition ==
  ASSUME OtaTypeOK
  PROVE  NextPartition \in Partitions /\ NextPartition # running
BY OtaAssumption DEF OtaTypeOK, NextPartition, Partitions

LEMMA OtaInitInv == OtaInit => OtaInv
BY OtaAssumption
   DEF OtaInit, OtaInv, OtaTypeOK, BootSafe, BootsRunning, Complete, Partitions, Content,
       Places

(* What is written to the next partition concerns neither of the two that  *)
(* must be whole.                                                          *)
LEMMA WriteSpares ==
  ASSUME OtaTypeOK, BootSafe, boot = running,
         NEW c \in Content, flash' = [flash EXCEPT ![NextPartition] = c],
         UNCHANGED <<boot, running>>
  PROVE  /\ flash' \in [Partitions -> Content]
         /\ BootSafe'
<1>1. NextPartition \in Partitions /\ NextPartition # running
  BY OtherPartition
<1>2. flash' \in [Partitions -> Content]
  BY <1>1 DEF OtaTypeOK
<1>3. flash'[running] = flash[running]
  BY <1>1 DEF OtaTypeOK
<1>. QED
  BY <1>2, <1>3 DEF BootSafe, Complete

LEMMA OtaNextInv ==
  ASSUME OtaInv, [OtaNext]_otaVars
  PROVE  OtaInv'
<1>. USE DEF OtaInv, persistent
<1>1. ASSUME NEW file \in Files, StartFlash(file)
      PROVE  OtaInv'
  BY <1>1 DEF StartFlash, OtaTypeOK, BootSafe, BootsRunning, Complete, Places
<1>2. CASE OpenFile
  BY <1>2 DEF OpenFile, Fail, OtaTypeOK, BootSafe, BootsRunning, Complete, Places
<1>3. CASE BeginFlash
  <2>1. CASE Fail /\ UNCHANGED <<flash, copied>>
    BY <1>3, <2>1
    DEF BeginFlash, Fail, OtaTypeOK, BootSafe, BootsRunning, Complete, Places
  <2>2. CASE /\ flash' = [flash EXCEPT ![NextPartition] = [image |-> NoFile, blocks |-> 0]]
             /\ flasher' = "write" /\ copied' = 0
    <3>1. [image |-> NoFile, blocks |-> 0] \in Content
      BY OtaAssumption DEF Content
    <3>2. boot = running /\ UNCHANGED <<boot, running, path>>
      BY <1>3 DEF BeginFlash, BootsRunning
    <3>3. flash' \in [Partitions -> Content] /\ BootSafe'
      BY <3>1, <3>2, <2>2, WriteSpares
    <3>. QED
      BY <2>2, <3>2, <3>3, OtaAssumption DEF OtaTypeOK, BootsRunning, Places
  <2>. QED
    BY <1>3, <2>1, <2>2 DEF BeginFlash
<1>4. CASE CopyBlock
  <2>1. CASE Fail /\ UNCHANGED <<flash, copied>>
    BY <1>4, <2>1
    DEF CopyBlock, Fail, OtaTypeOK, BootSafe, BootsRunning, Complete, Places
  <2>2. CASE /\ flash' = [flash EXCEPT ![NextPartition] =
                            [image |-> path, blocks |-> copied + 1]]
             /\ copied' = copied + 1 /\ UNCHANGED flasher
    <3>1. copied + 1 \in 0 .. Blocks
      BY <1>4, OtaAssumption DEF CopyBlock, OtaTypeOK
    <3>2. [image |-> path, blocks |-> copied + 1] \in Content
      BY <3>1 DEF Content, OtaTypeOK
    <3>3. boot = running /\ UNCHANGED <<boot, running, path>>
      BY <1>4 DEF CopyBlock, BootsRunning
    <3>4. flash' \in [Partitions -> Content] /\ BootSafe'
      BY <3>2, <3>3, <2>2, WriteSpares
    <3>. QED
      BY <2>2, <3>1, <3>3, <3>4 DEF OtaTypeOK, BootsRunning
  <2>. QED
    BY <1>4, <2>1, <2>2 DEF CopyBlock
<1>5. CASE EndOfFile
  BY <1>5 DEF EndOfFile, OtaTypeOK, BootSafe, BootsRunning, Complete, Places
<1>6. CASE VerifyImage
  BY <1>6 DEF VerifyImage, Fail, OtaTypeOK, BootSafe, BootsRunning, Complete, Places
<1>7. CASE SetBoot
  BY <1>7, OtherPartition
  DEF SetBoot, Fail, OtaTypeOK, BootSafe, BootsRunning, Complete, Places
<1>8. CASE EndFlashTask
  BY <1>8, OtaAssumption
  DEF EndFlashTask, OtaTypeOK, BootSafe, BootsRunning, Complete, Places
<1>9. CASE Reboot
  BY <1>9, OtaAssumption DEF Reboot, OtaTypeOK, BootSafe, BootsRunning, Complete, Places
<1>10. CASE UNCHANGED otaVars
  BY <1>10 DEF otaVars, OtaTypeOK, BootSafe, BootsRunning, Complete
<1>. QED
  BY <1>1, <1>2, <1>3, <1>4, <1>5, <1>6, <1>7, <1>8, <1>9, <1>10 DEF OtaNext, FlashStep

(* An update that fails anywhere, or is cut off by a power loss at any     *)
(* moment, leaves a complete image in the partition the bootloader starts. *)
THEOREM NeverBricked == OtaSpec => []BootSafe
<1>1. OtaSpec => []OtaInv
  BY OtaInitInv, OtaNextInv, PTL DEF OtaSpec
<1>2. OtaInv => BootSafe
  BY DEF OtaInv
<1>. QED
  BY <1>1, <1>2, PTL

-----------------------------------------------------------------------------
(***************************************************************************)
(* The user interface, which runs the update among its dialogs.            *)
(***************************************************************************)

(* The next-state relation, one action to a disjunct. *)
LEMMA Steps ==
  ASSUME [Next]_vars
  PROVE  \/ \E tab \in Tabs : OpenTab(tab)
         \/ GoHome
         \/ ScreenStep
         \/ KeyboardStep /\ UNCHANGED <<otaVars, screenVars>>
         \/ OtaStep /\ UNCHANGED screenVars
         \/ SessionStep /\ UNCHANGED <<otaVars, screenVars>>
         \/ PowerCut
         \/ FlashDone
         \/ UNCHANGED vars
BY DEF Next, DialogStep

-----------------------------------------------------------------------------
(* Screens.                                                                *)

LEMMA ShownStep ==
  ASSUME OnlyShownRefreshes, [Next]_vars
  PROVE  OnlyShownRefreshes'
<1>. USE ScreensAssumption DEF OnlyShownRefreshes, screenVars
<1>1. ASSUME NEW tab \in Tabs, OpenTab(tab)
      PROVE  OnlyShownRefreshes'
  BY <1>1 DEF OpenTab, GoTo
<1>2. CASE GoHome
  BY <1>2 DEF GoHome, HomeLoad
<1>3. CASE ScreenStep
  <2>1. CASE CreateFails
    BY <2>1 DEF CreateFails
  <2>2. CASE RowClick
    BY <2>2 DEF RowClick
  <2>3. CASE DetailBack
    BY <2>3 DEF DetailBack
  <2>4. CASE DebounceOver
    BY <2>4 DEF DebounceOver
  <2>5. ASSUME NEW l \in Lists, RefreshList(l) \/ HearOthers(l)
        PROVE  OnlyShownRefreshes'
    BY <2>5 DEF RefreshList, HearOthers
  <2>. QED
    BY <1>3, <2>1, <2>2, <2>3, <2>4, <2>5 DEF ScreenStep
<1>4. CASE UNCHANGED screenVars
  BY <1>4
<1>5. CASE PowerCut \/ FlashDone
  BY <1>5 DEF PowerCut, FlashDone, StartUp
<1>. QED
  BY <1>1, <1>2, <1>3, <1>4, <1>5, Steps DEF vars

(* However navigation and its debounce interleave, the one screen whose    *)
(* refresh timer runs is the one on the display.                           *)
THEOREM OneScreenRefreshes == Spec => []OnlyShownRefreshes
<1>1. Init => OnlyShownRefreshes
  BY DEF Init, ScreensInit, OnlyShownRefreshes
<1>. QED
  BY <1>1, ShownStep, PTL DEF Spec

-----------------------------------------------------------------------------
(* The label of the exports.                                               *)

LEMMA LabelStep ==
  ASSUME LabelTells, [Next]_vars
  PROVE  LabelTells'
<1>. USE DEF LabelTells, sessions
<1>1. CASE UNCHANGED sessions
  BY <1>1 DEF WillExport
<1>2. ASSUME NEW tab \in Tabs, OpenTab(tab)
      PROVE  LabelTells'
  <2>1. CASE EnterSettings
    BY <2>1 DEF EnterSettings, Rescan, WillExport
  <2>. QED
    BY <1>1, <1>2, <2>1 DEF OpenTab, LeaveSettings
<1>3. CASE SessionStep
  <2>1. CASE RescanTimer
    BY <2>1 DEF RescanTimer, Rescan, WillExport
  <2>2. CASE OpenSessions \/ CancelSessions \/ ScanExpires \/ CardChanges
    BY <2>2 DEF OpenSessions, CancelSessions, ScanExpires, CardChanges, WillExport
  <2>3. CASE PickSession
    BY <2>3 DEF PickSession, WillExport
  <2>4. CASE Export
    BY <2>4 DEF Export
  <2>. QED
    BY <1>3, <2>1, <2>2, <2>3, <2>4 DEF SessionStep
<1>4. CASE PowerCut \/ FlashDone
  BY <1>4 DEF PowerCut, FlashDone, StartUp, WillExport
<1>. QED
  BY <1>1, <1>2, <1>3, <1>4, Steps
  DEF GoHome, LeaveSettings, ScreenStep, KeyboardStep, OtaStep, vars, dialogVars

(* Whatever timers, pickers and exports write selection and label, the     *)
(* label never names a session other than the one an export would take.    *)
THEOREM LabelIsTrue == Spec => []LabelTells
<1>1. Init => LabelTells
  BY DEF Init, DialogsInit, LabelTells, WillExport
<1>. QED
  BY <1>1, LabelStep, PTL DEF Spec

-----------------------------------------------------------------------------
(* The dialogs.                                                            *)

(* One dialog, said without counting.                                      *)
DialogInv ==
  /\ shown = {} \/ \E d \in shown : shown = {d}
  /\ scrolls <=> shown = {}
  /\ shown # {} => screen = "settings"

(* Opening from the panel or from the one dialog that is hidden for it,    *)
(* and closing the one dialog there is.                                    *)
LEMMA OpenAndClose ==
  ASSUME DialogInv, NEW d,
         \/ Panel /\ \E hidden : Open(d, hidden)
         \/ \E other : OnTop(other) /\ \E hidden : other \in hidden /\ Open(d, hidden)
         \/ OnTop(d) /\ Close(d),
         UNCHANGED screen
  PROVE  DialogInv'
<1>1. CASE Panel /\ \E hidden : Open(d, hidden)
  BY <1>1 DEF DialogInv, Panel, Open
<1>2. CASE \E other : OnTop(other) /\ \E hidden : other \in hidden /\ Open(d, hidden)
  BY <1>2 DEF DialogInv, OnTop, Open
<1>3. CASE OnTop(d) /\ Close(d)
  BY <1>3 DEF DialogInv, OnTop, Close
<1>. QED
  BY <1>1, <1>2, <1>3

LEMMA DialogInvStep ==
  ASSUME DialogInv, [Next]_vars
  PROVE  DialogInv'
<1>. USE DEF screenVars
<1>0. CASE UNCHANGED <<shown, scrolls, screen>>
  BY <1>0 DEF DialogInv
<1>1. ASSUME NEW tab \in Tabs, OpenTab(tab)
      PROVE  DialogInv'
  BY <1>1 DEF DialogInv, OpenTab, GoTo, EnterSettings, LeaveSettings
<1>2. CASE GoHome
  BY <1>2 DEF DialogInv, GoHome, LeaveSettings
<1>3. CASE ScreenStep
  BY <1>3, ScreensAssumption
  DEF DialogInv, ScreenStep, dialogVars, CreateFails, RowClick, DetailBack, DebounceOver,
      RefreshList, HearOthers
<1>4. CASE KeyboardStep /\ UNCHANGED <<otaVars, screenVars>>
  <2>1. CASE TapEdit
    BY <1>4, <2>1, OpenAndClose DEF TapEdit, OpenKeyboard
  <2>2. CASE KeyboardOk \/ KeyboardCancel
    BY <1>4, <2>2, OpenAndClose DEF KeyboardOk, KeyboardCancel
  <2>3. CASE OpenPicker
    BY <1>4, <2>3, OpenAndClose DEF OpenPicker
  <2>4. CASE PickAp \/ PickCancel
    BY <1>4, <2>4, OpenAndClose DEF PickAp, PickCancel
  <2>5. CASE PickManual
    <3>1. OnTop("aps") /\ "aps" \in {"aps"} /\ Open("keyboard", {"aps"})
      BY <2>5 DEF PickManual, OpenKeyboard
    <3>. QED
      BY <1>4, <3>1, OpenAndClose
  <2>6. CASE DeleteTarget
    BY <1>0, <1>4, <2>6 DEF DeleteTarget
  <2>. QED
    BY <1>4, <2>1, <2>2, <2>3, <2>4, <2>5, <2>6 DEF KeyboardStep
<1>5. CASE OtaStep /\ UNCHANGED screenVars
  <2>1. CASE OpenOta
    BY <1>5, <2>1, OpenAndClose DEF OpenOta
  <2>2. CASE OtaCancel
    BY <1>5, <2>2, OpenAndClose DEF OtaCancel
  <2>. QED
    BY <1>0, <1>5, <2>1, <2>2
    DEF OtaStep, OtaPickFile, TapFlash, FlashTaskEnds, FailAsync
<1>6. CASE SessionStep /\ UNCHANGED <<otaVars, screenVars>>
  <2>1. CASE OpenSessions
    BY <1>6, <2>1, OpenAndClose DEF OpenSessions
  <2>2. CASE PickSession \/ CancelSessions
    BY <1>6, <2>2, OpenAndClose DEF PickSession, CancelSessions
  <2>. QED
    BY <1>0, <1>6, <2>1, <2>2
    DEF SessionStep, RescanTimer, Export, ScanExpires, CardChanges
<1>7. CASE PowerCut \/ FlashDone
  BY <1>7 DEF DialogInv, PowerCut, FlashDone, StartUp
<1>8. CASE UNCHANGED vars
  BY <1>0, <1>8 DEF vars, dialogVars
<1>. QED
  BY <1>1, <1>2, <1>3, <1>4, <1>5, <1>6, <1>7, <1>8, Steps

LEMMA DialogsUpright == Spec => []DialogInv
<1>1. Init => DialogInv
  BY DEF Init, DialogsInit, DialogInv
<1>. QED
  BY <1>1, DialogInvStep, PTL DEF Spec

(* Through every chain of dialogs, timers, navigations and restarts at     *)
(* most one dialog is open, it is on Settings, and it alone stops the      *)
(* panel from scrolling.                                                   *)
THEOREM NeverTwoDialogs == Spec => []OneDialog
<1>1. DialogInv => OneDialog
  <2>1. ASSUME shown = {}
        PROVE  Cardinality(shown) <= 1
    BY <2>1, FS_EmptySet
  <2>2. ASSUME NEW d, shown = {d}
        PROVE  Cardinality(shown) <= 1
    BY <2>2, FS_Singleton
  <2>. QED
    BY <2>1, <2>2 DEF DialogInv, OneDialog
<1>. QED
  BY <1>1, DialogsUpright, PTL

-----------------------------------------------------------------------------
(* The firmware update.                                                    *)

(* What the dialog hands to the flash task are files of the card. *)
FilesAreFiles == otaFiles \subseteq Files /\ otaSel \in Files \cup {NoFile}

LEMMA FilesStep ==
  ASSUME FilesAreFiles, [Next]_vars
  PROVE  FilesAreFiles'
<1>. USE DEF FilesAreFiles, otaDialog
<1>1. CASE UNCHANGED <<otaFiles, otaSel>>
  BY <1>1
<1>2. CASE OtaStep
  <2>1. CASE OpenOta
    BY <2>1 DEF OpenOta
  <2>2. CASE OtaPickFile
    BY <2>2 DEF OtaPickFile
  <2>3. CASE OtaCancel
    BY <2>3 DEF OtaCancel
  <2>4. CASE FailAsync
    BY <2>4 DEF FailAsync
  <2>. QED
    BY <1>1, <1>2, <2>1, <2>2, <2>3, <2>4 DEF OtaStep, TapFlash, FlashTaskEnds
<1>3. CASE PowerCut \/ FlashDone
  BY <1>3 DEF PowerCut, FlashDone, StartUp
<1>. QED
  BY <1>1, <1>2, <1>3, Steps
  DEF OpenTab, EnterSettings, LeaveSettings, GoHome, ScreenStep, KeyboardStep,
      SessionStep, vars, dialogVars

(* To the partitions, the user interface is what OtaNext says.             *)
LEMMA InterfaceUpdates ==
  ASSUME FilesAreFiles, [Next]_vars
  PROVE  [OtaNext]_otaVars
<1>1. CASE UNCHANGED otaVars
  BY <1>1
<1>2. CASE OtaStep
  <2>1. CASE TapFlash
    BY <1>1, <2>1 DEF TapFlash, FilesAreFiles, OtaNext
  <2>2. CASE FlashTaskEnds
    BY <2>2 DEF FlashTaskEnds, OtaNext
  <2>3. CASE FlashStep
    BY <2>3 DEF OtaNext
  <2>. QED
    BY <1>1, <1>2, <2>1, <2>2, <2>3 DEF OtaStep, OpenOta, OtaPickFile, OtaCancel, FailAsync
<1>3. CASE PowerCut \/ FlashDone
  BY <1>3 DEF PowerCut, FlashDone, Restart, OtaNext
<1>. QED
  BY <1>1, <1>2, <1>3, Steps DEF OpenTab, GoHome, ScreenStep, vars

(* Whatever the user taps, whatever fails and whenever the power goes, the *)
(* bootloader has a complete firmware to start.                            *)
THEOREM InterfaceNeverBricks == Spec => []BootSafe
<1>1. Init => FilesAreFiles /\ OtaInit
  BY DEF Init, DialogsInit, FilesAreFiles
<1>2. Spec => OtaSpec
  BY <1>1, FilesStep, InterfaceUpdates, PTL DEF Spec, OtaSpec
<1>. QED
  BY <1>2, NeverBricked, PTL

(* The flash task's dialog stays, and so does the one that waits to be     *)
(* told of the failure.                                                    *)
FlashInv ==
  /\ flasher # "none" =>
       /\ flashing /\ ~failCall
       /\ shown = {"ota"} /\ otaView = "flash"
       /\ path = otaSel
  /\ failCall => shown = {"ota"} /\ otaView = "flash"

(* Nothing the user can tap while the dialog is up hides it.               *)
LEMMA FlashOtherSteps ==
  ASSUME FlashInv, DialogInv, [Next]_vars, ~OtaStep
  PROVE  FlashInv'
<1>. USE DEF otaDialog, otaVars, screenVars
<1>1. CASE UNCHANGED <<shown, otaDialog, otaVars>>
  BY <1>1 DEF FlashInv
<1>2. CASE /\ UNCHANGED <<otaDialog, otaVars>>
           /\ shown # {"ota"}
  BY <1>2 DEF FlashInv
<1>3. CASE PowerCut \/ FlashDone
  BY <1>3 DEF FlashInv, PowerCut, FlashDone, Restart, Reboot, StartUp
<1>4. ASSUME NEW tab \in Tabs, OpenTab(tab)
      PROVE  FlashInv'
  <2>1. shown = {}
    BY <1>4, ScreensAssumption DEF OpenTab, GoTo, DialogInv
  <2>. QED
    BY <1>2, <1>4, <2>1 DEF OpenTab, EnterSettings, LeaveSettings
<1>5. CASE GoHome
  <2>1. shown = {}
    BY <1>5 DEF GoHome, Panel, DialogInv
  <2>. QED
    BY <1>2, <1>5, <2>1 DEF GoHome, LeaveSettings
<1>6. CASE ScreenStep \/ UNCHANGED vars
  BY <1>1, <1>6 DEF ScreenStep, vars, dialogVars
<1>7. CASE KeyboardStep /\ UNCHANGED <<otaVars, screenVars>>
  <2>1. shown # {"ota"}
    BY <1>7
    DEF KeyboardStep, TapEdit, KeyboardOk, KeyboardCancel, DeleteTarget, OpenPicker,
        PickAp, PickManual, PickCancel, Panel, OnTop
  <2>. QED
    BY <1>2, <1>7, <2>1 DEF KeyboardStep
<1>8. CASE SessionStep /\ UNCHANGED <<otaVars, screenVars>>
  <2>1. shown # {"ota"} \/ UNCHANGED shown
    BY <1>8
    DEF SessionStep, RescanTimer, OpenSessions, PickSession, CancelSessions, Export,
        ScanExpires, CardChanges, Panel, OnTop
  <2>. QED
    BY <1>1, <1>2, <1>8, <2>1 DEF SessionStep
<1>. QED
  BY <1>3, <1>4, <1>5, <1>6, <1>7, <1>8, Steps

LEMMA FlashOtaStep ==
  ASSUME FlashInv, DialogInv, OtaStep
  PROVE  FlashInv'
<1>. USE DEF FlashInv, otaVars
<1>1. CASE OpenOta
  BY <1>1 DEF OpenOta, Panel, Open
<1>2. CASE OtaPickFile
  BY <1>2 DEF OtaPickFile
<1>3. CASE OtaCancel
  BY <1>3 DEF OtaCancel
<1>4. CASE TapFlash
  <2>1. shown = {"ota"} /\ ~failCall /\ flasher = "none"
    BY <1>4 DEF TapFlash, OnTop, DialogInv
  <2>. QED
    BY <1>4, <2>1 DEF TapFlash, StartFlash
<1>5. CASE FlashTaskEnds
  BY <1>5 DEF FlashTaskEnds, EndFlashTask
<1>6. CASE FailAsync
  BY <1>6 DEF FailAsync
<1>7. CASE FlashStep /\ UNCHANGED <<shown, scrolls, otaDialog>>
  <2>1. flasher # "none" /\ UNCHANGED path
    BY <1>7
    DEF FlashStep, OpenFile, BeginFlash, CopyBlock, EndOfFile, VerifyImage, SetBoot, Fail
  <2>. QED
    BY <1>7, <2>1 DEF otaDialog
<1>. QED
  BY <1>1, <1>2, <1>3, <1>4, <1>5, <1>6, <1>7 DEF OtaStep

(* No tap starts a second flash, changes the path the first one reads or   *)
(* leaves its dialog, until it has failed and said so.                     *)
THEOREM FlashIsAlone == Spec => []FlashHoldsScreen
<1>1. Init => FlashInv
  BY DEF Init, OtaInit, DialogsInit, FlashInv
<1>2. FlashInv /\ DialogInv /\ [Next]_vars => FlashInv'
  BY FlashOtherSteps, FlashOtaStep
<1>3. FlashInv => FlashHoldsScreen
  BY DEF FlashInv, FlashHoldsScreen
<1>. QED
  BY <1>1, <1>2, <1>3, DialogsUpright, PTL DEF Spec

=============================================================================
