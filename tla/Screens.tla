------------------------------ MODULE Screens ------------------------------
(***************************************************************************)
(* The screens and how the user moves between them.  The home screen leads *)
(* to seven others, each with a refresh timer that its set_visible pauses  *)
(* and resumes; the Wi-Fi list leads to the details of an access point and *)
(* back.  A debounce swallows a tap that follows a navigation too closely. *)
(*                                                                         *)
(* The rows of the Wi-Fi and BLE lists are built when first needed, a few  *)
(* per refresh; while some are missing the refresh timer runs fast.  Rows  *)
(* are built in order and kept, so a list is described by how many it has. *)
(***************************************************************************)
EXTENDS Integers

CONSTANTS
  Tabs,       \* the screens the home screen leads to
  MaxRows,    \* MAX_ROWS of each list
  BuildBatch  \* BUILD_BATCH of each list: rows built in one refresh

Lists == {"wifi", "ble"}

ASSUME ScreensAssumption ==
  /\ Lists \subseteq Tabs
  /\ {"home", "detail"} \cap Tabs = {}
  /\ MaxRows \in [Lists -> Nat \ {0}]
  /\ BuildBatch \in [Lists -> Nat \ {0}]

VARIABLES
  screen,   \* the screen LVGL shows
  visible,  \* the screens whose s_visible is set and whose timer runs
  navReady, \* NAV_DEBOUNCE_MS have passed since the last navigation
  list,     \* rows built, s_rows_built and the timer's period, for each list
  heard     \* how many entries a snapshot has

screenVars == <<screen, visible, navReady, list, heard>>

Lesser(m, n) == IF m < n THEN m ELSE n
Greater(m, n) == IF m < n THEN n ELSE m

ScreensInit ==
  /\ screen = "home"
  /\ visible = {}
  /\ navReady = TRUE
  /\ heard = [l \in Lists |-> 0]
  /\ list = [l \in Lists |-> [rows |-> 0, built |-> FALSE, fast |-> FALSE]]

-----------------------------------------------------------------------------
(* do_refresh of the two lists.                                            *)

RowsAfter(l) ==
  Lesser(Greater(list[l].rows, heard[l]), list[l].rows + BuildBatch[l])

RefreshedWhenFull(l) ==
  LET rows == RowsAfter(l)
  IN  IF ~list[l].built
        THEN [rows |-> rows, built |-> rows = MaxRows[l], fast |-> rows < MaxRows[l]]
        ELSE [list[l] EXCEPT !.rows = rows]

(* Fast until all the rows needed now are there.  A Wi-Fi list that is     *)
(* done becomes fast again when new access points need more rows, a BLE    *)
(* list does not.                                                          *)
Refreshed(l) ==
  LET rows    == RowsAfter(l)
      missing == rows < heard[l]
  IN  IF ~list[l].built \/ (l = "wifi" /\ missing)
        THEN [rows |-> rows, built |-> ~missing, fast |-> missing]
        ELSE [list[l] EXCEPT !.rows = rows]

(* ui_wifi_set_visible(true) and ui_ble_set_visible(true): the first turns *)
(* fast unless the rows were built, the second always does; both refresh.  *)
Entered(l) ==
  LET rows == RowsAfter(l)
  IN  IF l = "ble" \/ ~list[l].built
        THEN [list EXCEPT ![l] = [rows  |-> rows,
                                  built |-> rows >= heard[l],
                                  fast  |-> rows < heard[l]]]
        ELSE list

Enter(tab) == list' = IF tab \in Lists THEN Entered(tab) ELSE list

-----------------------------------------------------------------------------
(* Navigation.                                                             *)

(* nav_go, from a button of the home screen: show one screen, hide the     *)
(* rest.  A screen that cannot be created uses up the tap.                 *)
GoTo(tab) ==
  /\ screen = "home"
  /\ navReady
  /\ navReady' = FALSE
  /\ screen' = tab
  /\ visible' = {tab}
  /\ Enter(tab)
  /\ UNCHANGED heard

CreateFails ==
  /\ screen = "home"
  /\ navReady
  /\ navReady' = FALSE
  /\ UNCHANGED <<screen, visible, list, heard>>

(* ui_home_load, by the back button of a screen. *)
HomeLoad ==
  /\ screen \in Tabs
  /\ navReady
  /\ navReady' = FALSE
  /\ screen' = "home"
  /\ visible' = {}
  /\ UNCHANGED <<list, heard>>

ClickWithoutHide ==
  /\ screen = "wifi"
  /\ list["wifi"].rows > 0
  /\ screen' = "detail"
  /\ visible' = visible \cup {"detail"}
  /\ UNCHANGED <<navReady, list, heard>>

(* row_click_cb: neither this nor the way back is debounced.  Whether a    *)
(* row that is built is hidden just now is not told apart.                 *)
RowClick ==
  /\ screen = "wifi"
  /\ list["wifi"].rows > 0
  /\ screen' = "detail"
  /\ visible' = (visible \ {"wifi"}) \cup {"detail"}
  /\ UNCHANGED <<navReady, list, heard>>

DetailBack ==
  /\ screen = "detail"
  /\ screen' = "wifi"
  /\ visible' = (visible \ {"detail"}) \cup {"wifi"}
  /\ Enter("wifi")
  /\ UNCHANGED <<navReady, heard>>

DebounceOver ==
  /\ ~navReady
  /\ navReady' = TRUE
  /\ UNCHANGED <<screen, visible, list, heard>>

(* The refresh timer of a list fires. *)
RefreshList(l) ==
  /\ l \in visible
  /\ list' = [list EXCEPT ![l] = Refreshed(l)]
  /\ UNCHANGED <<screen, visible, navReady, heard>>

(* The scanners hear of more; the filter of the Wi-Fi list may drop some. *)
HearOthers(l) ==
  /\ \E n \in 0 .. MaxRows[l] :
       /\ l = "ble" => n > heard[l]
       /\ heard' = [heard EXCEPT ![l] = n]
  /\ UNCHANGED <<screen, visible, navReady, list>>

-----------------------------------------------------------------------------
(* Properties.                                                             *)

(* Only what is on the screen is refreshed: however fast the user taps and *)
(* whichever navigation is swallowed, one screen at most has its timer     *)
(* running, the one LVGL shows.                                            *)
OnlyShownRefreshes == visible = {screen} \ {"home"}

(* The 50 ms refresh that fills a list is never the rule: a list that is   *)
(* looked at has its rows, and returns to its normal period.               *)
FastBuildEnds ==
  \A l \in Lists : list[l].fast ~> (~list[l].fast \/ l \notin visible)

=============================================================================
