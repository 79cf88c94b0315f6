--------------------------- MODULE UserInterface ---------------------------
(***************************************************************************)
(* The user interface as a whole: the screens, the dialogs of the Settings *)
(* screen and the firmware update that one of them starts.  Everything but *)
(* the flash task runs on the UI task, a callback at a time.               *)
(***************************************************************************)
EXTENDS SettingsDialogs

vars == <<screenVars, otaVars, dialogVars>>

Init == ScreensInit /\ OtaInit /\ DialogsInit

(* nav_go calls every screen's set_visible. *)
OpenTab(tab) ==
  /\ GoTo(tab)
  /\ IF tab = "settings" THEN EnterSettings ELSE LeaveSettings
  /\ UNCHANGED otaVars

(* The back button is under the dialogs. *)
GoHome ==
  /\ screen = "settings" => Panel
  /\ HomeLoad
  /\ LeaveSettings
  /\ UNCHANGED otaVars

ScreenStep ==
  /\ \/ CreateFails \/ RowClick \/ DetailBack \/ DebounceOver
     \/ \E l \in Lists : RefreshList(l) \/ HearOthers(l)
  /\ UNCHANGED <<otaVars, dialogVars>>

DialogStep ==
  /\ \/ KeyboardStep /\ UNCHANGED otaVars
     \/ OtaStep
     \/ SessionStep /\ UNCHANGED otaVars
  /\ UNCHANGED screenVars

(* What is on the card and in flash survives, the alert targets included. *)
StartUp ==
  /\ screen' = "home" /\ visible' = {} /\ navReady' = TRUE
  /\ heard' = [l \in Lists |-> 0]
  /\ list' = [l \in Lists |-> [rows |-> 0, built |-> FALSE, fast |-> FALSE]]
  /\ shown' = {} /\ scrolls' = TRUE /\ edit' = "other" /\ offer' = {}
  /\ otaFiles' = {} /\ otaSel' = NoFile /\ otaView' = "pick"
  /\ flashing' = FALSE /\ failCall' = FALSE /\ lost' = FALSE
  /\ sessFiles' = <<>> /\ sessRows' = <<>> /\ sessSel' = NoSession
  /\ label' = "active" /\ fresh' = FALSE /\ rescans' = 0 /\ made' = FALSE
  /\ UNCHANGED <<targets, card>>

PowerCut == Reboot /\ StartUp

FlashDone == Restart /\ StartUp

Next ==
  \/ \E tab \in Tabs : OpenTab(tab)
  \/ GoHome
  \/ ScreenStep
  \/ DialogStep
  \/ PowerCut
  \/ FlashDone

(* LVGL's timers and asynchronous calls run, and the flash task is given   *)
(* the processor while the UI task waits for the next period.              *)
Fairness ==
  /\ \A l \in Lists : WF_vars(RefreshList(l) /\ ScreenStep)
  /\ WF_vars(FailAsync /\ DialogStep)
  /\ WF_vars((FlashStep \/ FlashTaskEnds) /\ DialogStep)
  /\ WF_vars(FlashDone)

Spec == Init /\ [][Next]_vars /\ Fairness

=============================================================================
