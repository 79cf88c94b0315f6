-------------------------- MODULE SettingsDialogs --------------------------
(***************************************************************************)
(* The dialogs of the Settings screen: the keyboard, the access-point      *)
(* picker, the firmware update and the session picker.  Each covers the    *)
(* whole screen, stops the panel behind it from scrolling and is hidden,   *)
(* never destroyed; what a hidden dialog held is set anew before it is     *)
(* read, and is blanked here when it closes.  The session list is          *)
(* rescanned by a timer that fires 800 ms after the screen was entered,    *)
(* whatever the user does meanwhile; the flash task asks the UI task to    *)
(* show its failure with a call that LVGL does not protect against a       *)
(* second thread.                                                          *)
(***************************************************************************)
EXTENDS Screens, OtaUpdate, Sequences, FiniteSets, SequencesExt

CONSTANTS
  Ssids,       \* networks the user may watch for
  MaxTargets,  \* ALERT_MAX_SSID_TARGETS
  MaxOffer,    \* rows of the access-point picker
  Cards,       \* what csv_list_sessions may find: [ok, files, active]
  NoSession,   \* no session chosen, or none active
  MaxRescans   \* bound: rescan timers running at a time

ASSUME DialogsAssumption ==
  /\ MaxTargets \in Nat /\ MaxOffer \in Nat /\ MaxRescans \in Nat
  /\ \A c \in Cards : c.ok \in BOOLEAN /\ (c.ok \/ c.files = <<>>)

VARIABLES
  shown,      \* the dialogs that are not hidden
  scrolls,    \* the panel is scrollable
  edit,       \* what the keyboard edits: "add", "other", or the target replaced
  targets,    \* the SSID targets of s_cfg
  offer,      \* s_pick_ssids: the rows of the access-point picker
  otaFiles,   \* s_ota_files
  otaSel,     \* the file s_ota_sel stands for, or NoFile
  otaView,    \* "pick", "confirm", "flash", or "failed"
  flashing,   \* s_ota_flashing
  failCall,   \* ota_fail_async is waiting for the UI task
  lost,       \* history variable: the race in lv_async_call lost it
  card,       \* external: the sessions on the SD card, newest first
  sessFiles,  \* s_sess_files
  sessRows,   \* the names on the rows of the session picker
  sessSel,    \* s_sess_sel
  label,      \* s_lbl_kml: a session's name, "active" or "result"
  fresh,      \* the last scan is less than SESS_SCAN_TTL_MS ago
  rescans,    \* one-shot rescan timers running
  made        \* ui_settings_create has run

otaDialog == <<otaFiles, otaSel, otaView, flashing, failCall, lost>>
sessions == <<card, sessFiles, sessRows, sessSel, label, fresh, rescans, made>>
keyboard == <<edit, targets, offer>>
dialogVars == <<shown, scrolls, keyboard, otaDialog, sessions>>

DialogsInit ==
  /\ shown = {} /\ scrolls = TRUE
  /\ edit = "other" /\ targets = {} /\ offer = {}
  /\ otaFiles = {} /\ otaSel = NoFile /\ otaView = "pick"
  /\ flashing = FALSE /\ failCall = FALSE /\ lost = FALSE
  /\ card \in Cards /\ sessFiles = <<>> /\ sessRows = <<>> /\ sessSel = NoSession
  /\ label = "active" /\ fresh = FALSE /\ rescans = 0 /\ made = FALSE

(* A dialog covers everything created before it. *)
OnTop(d) ==
  /\ screen = "settings" /\ d \in shown
  /\ d = "aps" => shown \cap {"ota", "sessions"} = {}
  /\ d = "ota" => "sessions" \notin shown
  /\ d = "keyboard" => shown = {d}

Panel == screen = "settings" /\ shown = {}

(* An opener hides the dialogs it knows of. *)
Open(d, hidden) ==
  /\ shown' = (shown \ hidden) \cup {d}
  /\ scrolls' = FALSE

Close(d) ==
  /\ shown' = shown \ {d}
  /\ scrolls' = TRUE

-----------------------------------------------------------------------------
(* The keyboard and the access-point picker.                               *)

(* open_modal and filter_pattern_cb. *)
OpenKeyboard(what) ==
  /\ Open("keyboard", {"aps"})
  /\ edit' = what
  /\ offer' = {}
  /\ UNCHANGED targets

(* A target, or something else than an SSID. *)
TapEdit ==
  /\ Panel
  /\ \E what \in {"other"} \cup targets : OpenKeyboard(what)

(* modal_ok_cb with text: only additions stop at the limit. *)
KeyboardOk ==
  /\ OnTop("keyboard")
  /\ \E text \in Ssids :
       targets' = CASE edit = "other" -> targets
                    [] edit = "add" -> IF Cardinality(targets) < MaxTargets
                                         THEN targets \cup {text} ELSE targets
                    [] OTHER -> (targets \ {edit}) \cup {text}
  /\ Close("keyboard")
  /\ edit' = "other"
  /\ UNCHANGED offer

(* modal_cancel_cb, and modal_ok_cb without text. *)
KeyboardCancel ==
  /\ OnTop("keyboard")
  /\ Close("keyboard")
  /\ edit' = "other"
  /\ UNCHANGED <<targets, offer>>

(* The strongest networks of the snapshot that are not targets yet. *)
Offer(nearby) == {rows \in SUBSET (nearby \ targets) : Cardinality(rows) <= MaxOffer}

(* The button is hidden at the limit. *)
OpenPicker ==
  /\ Panel
  /\ Cardinality(targets) < MaxTargets
  /\ \E nearby \in SUBSET Ssids : offer' \in Offer(nearby)
  /\ Open("aps", {"keyboard"})
  /\ UNCHANGED <<edit, targets>>

PickAp ==
  /\ OnTop("aps")
  /\ \E ssid \in offer :
       targets' = IF Cardinality(targets) < MaxTargets THEN targets \cup {ssid} ELSE targets
  /\ Close("aps")
  /\ offer' = {}
  /\ UNCHANGED edit

PickManual ==
  /\ OnTop("aps")
  /\ OpenKeyboard("add")

(* Cancel, or the row of a hidden network. *)
PickCancel ==
  /\ OnTop("aps")
  /\ Close("aps")
  /\ offer' = {}
  /\ UNCHANGED <<edit, targets>>

(* ssid_delete_cb, on the panel. *)
DeleteTarget ==
  /\ Panel
  /\ \E t \in targets : targets' = targets \ {t}
  /\ UNCHANGED <<shown, scrolls, edit, offer>>

KeyboardStep ==
  /\ \/ TapEdit \/ KeyboardOk \/ KeyboardCancel \/ DeleteTarget
     \/ OpenPicker \/ PickAp \/ PickManual \/ PickCancel
  /\ UNCHANGED <<otaDialog, sessions>>

-----------------------------------------------------------------------------
(* The firmware dialog.                                                    *)

OpenOta ==
  /\ Panel /\ ~flashing
  /\ otaSel' = NoFile
  /\ otaFiles' \in SUBSET Files
  /\ otaView' = "pick"
  /\ Open("ota", {"keyboard", "aps"})
  /\ UNCHANGED <<flashing, failCall, lost, otaVars>>

OtaPickFile ==
  /\ OnTop("ota") /\ otaView \in {"pick", "failed"}
  /\ \E file \in otaFiles : otaSel' = file
  /\ otaView' = "confirm"
  /\ UNCHANGED <<shown, scrolls, otaFiles, flashing, failCall, lost, otaVars>>

OtaCancel ==
  /\ OnTop("ota") /\ otaView # "flash"
  /\ ~flashing
  /\ Close("ota")
  /\ otaSel' = NoFile /\ otaFiles' = {} /\ otaView' = "pick"
  /\ UNCHANGED <<flashing, failCall, lost, otaVars>>

UnguardedTap ==
  /\ OnTop("ota") /\ otaView = "confirm"
  /\ ~flashing /\ otaSel # NoFile
  /\ otaView' = "flash"
  /\ \/ StartFlash(otaSel) /\ UNCHANGED <<flashing, failCall>>
     \/ failCall' = TRUE /\ UNCHANGED <<flashing, otaVars>>
  /\ UNCHANGED <<shown, scrolls, otaFiles, otaSel, lost>>

(* ota_flash_cb.  When the task cannot be created the failure is shown by  *)
(* the same call, made here on the UI task.                                *)
TapFlash ==
  /\ OnTop("ota") /\ otaView = "confirm"
  /\ ~flashing /\ otaSel # NoFile
  /\ otaView' = "flash"
  /\ \/ StartFlash(otaSel) /\ flashing' = TRUE /\ UNCHANGED failCall
     \/ failCall' = TRUE /\ UNCHANGED <<flashing, otaVars>>
  /\ UNCHANGED <<shown, scrolls, otaFiles, otaSel, lost>>

(* ota_flash_task ends.  LVGL's timer list is not locked: the UI task may  *)
(* preempt the insertion and the call is lost.                             *)
FlashTaskEnds ==
  /\ EndFlashTask
  /\ \/ failCall' = TRUE /\ UNCHANGED lost
     \/ lost' = TRUE /\ UNCHANGED failCall
  /\ UNCHANGED <<shown, scrolls, otaFiles, otaSel, otaView, flashing>>

ForgetfulFail ==
  /\ failCall
  /\ failCall' = FALSE
  /\ flashing' = FALSE
  /\ otaSel' = NoFile
  /\ UNCHANGED <<shown, scrolls, otaView, otaFiles, lost, otaVars>>

(* ota_fail_async, on the UI task: the list and the way out come back. *)
FailAsync ==
  /\ failCall
  /\ failCall' = FALSE
  /\ flashing' = FALSE
  /\ otaSel' = NoFile
  /\ otaView' = "failed"
  /\ UNCHANGED <<shown, scrolls, otaFiles, lost, otaVars>>

OtaStep ==
  /\ \/ OpenOta \/ OtaPickFile \/ OtaCancel \/ TapFlash \/ FlashTaskEnds \/ FailAsync
     \/ FlashStep /\ UNCHANGED <<shown, scrolls, otaDialog>>
  /\ UNCHANGED <<keyboard, sessions>>

-----------------------------------------------------------------------------
(* The session picker and the exports.                                     *)

WillExport(sel) == IF sel = NoSession THEN "active" ELSE sel

(* The files of the card, newest first; what it finds active is chosen. *)
ActiveOf(c) == IF c.active \in ToSet(c.files) THEN c.active ELSE NoSession

QuietRescan ==
  \/ UNCHANGED <<sessFiles, sessSel, fresh, label>>
  \/ /\ ~fresh
     /\ fresh' = TRUE
     /\ sessFiles' = card.files
     /\ sessSel' = ActiveOf(card)
     /\ UNCHANGED label

(* sess_rescan: the label is always refreshed; the card is read unless it  *)
(* was just now, or there is no DMA memory for it.                         *)
Rescan ==
  /\ \/ UNCHANGED <<sessFiles, sessSel, fresh>>
     \/ /\ ~fresh
        /\ fresh' = TRUE
        /\ sessFiles' = card.files
        /\ sessSel' = ActiveOf(card)
  /\ label' = WillExport(sessSel')

RescanTimer ==
  /\ rescans > 0
  /\ rescans' = rescans - 1
  /\ Rescan
  /\ UNCHANGED <<shown, scrolls, card, sessRows, made>>

(* sess_open_cb, with DMA memory to read the card. *)
OpenSessions ==
  /\ Panel
  /\ sessFiles' = card.files
  /\ sessRows' = card.files
  /\ Open("sessions", {"keyboard", "aps", "ota"})
  /\ UNCHANGED <<card, sessSel, label, fresh, rescans, made>>

PickStuck ==
  /\ OnTop("sessions")
  /\ \E i \in DOMAIN sessRows :
       /\ i \in DOMAIN sessFiles
       /\ sessSel' = sessFiles[i]
  /\ label' = WillExport(sessSel')
  /\ shown' = shown \ {"sessions"}
  /\ sessRows' = <<>>
  /\ UNCHANGED <<scrolls, card, sessFiles, fresh, rescans, made>>

(* A row knows its index only; the list may have been rescanned since. *)
PickSession ==
  /\ OnTop("sessions")
  /\ \E i \in DOMAIN sessRows :
       /\ i \in DOMAIN sessFiles
       /\ sessSel' = sessFiles[i]
  /\ label' = WillExport(sessSel')
  /\ Close("sessions")
  /\ sessRows' = <<>>
  /\ UNCHANGED <<card, sessFiles, fresh, rescans, made>>

CancelSessions ==
  /\ OnTop("sessions")
  /\ Close("sessions")
  /\ sessRows' = <<>>
  /\ UNCHANGED <<card, sessFiles, sessSel, label, fresh, rescans, made>>

(* kml_export_cb and report_export_cb: the label tells how it went. *)
Export ==
  /\ Panel
  /\ label' = "result"
  /\ UNCHANGED <<shown, scrolls, card, sessFiles, sessRows, sessSel, fresh, rescans,
                 made>>

ScanExpires ==
  /\ fresh
  /\ fresh' = FALSE
  /\ UNCHANGED <<shown, scrolls, card, sessFiles, sessRows, sessSel, label, rescans,
                 made>>

(* A session is started or the card is taken out. *)
CardChanges ==
  /\ card' \in Cards \ {card}
  /\ UNCHANGED <<shown, scrolls, sessFiles, sessRows, sessSel, label, fresh, rescans,
                 made>>

SessionStep ==
  /\ \/ RescanTimer \/ OpenSessions \/ PickSession \/ CancelSessions
     \/ Export \/ ScanExpires \/ CardChanges
  /\ UNCHANGED <<keyboard, otaDialog>>

-----------------------------------------------------------------------------
(* The screen is entered and left.                                         *)

(* ui_settings_create, the first time, and ui_settings_set_visible(true). *)
EnterSettings ==
  /\ made' = TRUE
  /\ IF made THEN UNCHANGED <<sessFiles, sessSel, fresh, label>> ELSE Rescan
  /\ rescans' = Lesser(rescans + 1, MaxRescans)
  /\ UNCHANGED <<shown, scrolls, keyboard, otaDialog, card, sessRows>>

(* ui_settings_set_visible(false), which every navigation calls. *)
LeaveSettings ==
  /\ shown' = {}
  /\ scrolls' = TRUE
  /\ UNCHANGED <<keyboard, otaDialog, sessions>>

-----------------------------------------------------------------------------
(* Properties.                                                             *)

(* Whatever dialog opens from whichever other, and however it ends, the    *)
(* user is never left with two on top of each other, with a panel that     *)
(* scrolls behind one, or with one that no longer scrolls.                 *)
OneDialog ==
  /\ Cardinality(shown) <= 1
  /\ scrolls <=> shown = {}
  /\ shown # {} => screen = "settings"

(* While the flash task runs its dialog keeps the screen: there is no way  *)
(* to start a second flash, which would change the path the first one is   *)
(* given, nor to leave Settings.                                           *)
FlashHoldsScreen ==
  flasher # "none" =>
    /\ flashing /\ shown = {"ota"} /\ otaView = "flash"
    /\ path = otaSel

(* What the label says an export would take is what it would take, though  *)
(* selection and label are written by timers, pickers and exports.         *)
LabelTells == label # "result" => label = WillExport(sessSel)

(* Whether the update fails at once or at the last block, the dialog       *)
(* becomes usable again or the device restarts, provided the race in       *)
(* lv_async_call does not lose the failure.                                *)
FlashEnds == []~lost => (otaView = "flash" ~> otaView # "flash")

=============================================================================
