---------------------------- MODULE AlertEngine ----------------------------
(***************************************************************************)
(* The alert engine: the event loop checks every scan record against the   *)
(* target lists, logs a match in a ring and flashes the LED, throttled;    *)
(* the UI task replaces the configuration, clears the log and copies it.   *)
(* The configuration is read without a lock, character by character, so it *)
(* may be replaced between any two reads of one check, and within a name.  *)
(* A name is a sequence of characters, told apart up to case.              *)
(***************************************************************************)
EXTENDS Integers, Sequences, FiniteSets, SequencesExt

CONSTANTS
  LogLen,     \* ALERT_MAX_LOG_ENTRIES
  MaxTargets, \* ALERT_MAX_SSID_TARGETS and ALERT_MAX_BSSID_TARGETS
  Chars,      \* the characters of names
  Aps,        \* records to check: [ssid, bssid, rssi]
  Ssids,      \* SSID targets the user may enter
  Bssids,     \* BSSID targets the user may enter
  Thresholds, \* thresholds the user may enter
  MaxEdits    \* bound: edits that fall into one check

ASSUME AlertAssumption ==
  /\ LogLen \in Nat \ {0}
  /\ MaxTargets \in Nat
  /\ Thresholds \subseteq Int
  /\ MaxEdits \in Nat
  /\ Ssids \subseteq Seq(Chars) /\ Bssids \subseteq Seq(Chars)
  /\ \A a \in Aps : a.rssi \in Int /\ a.ssid \in Seq(Chars) /\ a.bssid \in Seq(Chars)

VARIABLES
  cfg,      \* s_cfg
  pc,       \* what alert_check is doing
  ap,       \* the record being checked
  index,    \* position in the target list being walked
  at,       \* position in the target being compared
  entry,    \* e: the alert entry under construction
  cells,    \* s_log
  head,     \* s_log_head
  size,     \* s_log_count
  last,     \* s_last_announced
  recent,   \* whether s_last_announced_at lies within the throttle window
  inForce   \* history variable: configurations in force during this check

alertVars == <<cfg, pc, ap, index, at, entry, cells, head, size, last, recent, inForce>>

check == <<pc, ap, index, at, entry>>
ring == <<cells, head, size>>
throttle == <<last, recent>>

(* load_defaults: enabled, no targets. *)
Default == [enabled |-> TRUE, ssids |-> <<>>, bssids |-> <<>>, threshold |-> -80]

NoEntry == [target |-> <<>>, type |-> "none"]

NoAp == [ssid |-> <<>>, bssid |-> <<>>, rssi |-> 0]

(* The empty SSID, which is also what a target past the count reads as. *)
Hidden == <<>>

(* What the log shows for an SSID. *)
Label(ssid) == IF ssid = Hidden THEN <<"<hidden>">> ELSE ssid

AlertInit ==
  /\ cfg = Default
  /\ pc = "idle"
  /\ ap = NoAp
  /\ index = 1
  /\ at = 1
  /\ entry = NoEntry
  /\ cells = [k \in 0 .. LogLen - 1 |-> NoEntry]
  /\ head = 0
  /\ size = 0
  /\ last = <<>>
  /\ recent = TRUE
  /\ inForce = {}

-----------------------------------------------------------------------------
(* alert_check on the event loop.                                          *)

(* The check returns and its locals are gone. *)
Return ==
  /\ pc' = "idle"
  /\ ap' = NoAp
  /\ index' = 1
  /\ at' = 1
  /\ entry' = NoEntry
  /\ inForce' = {}

BeginCheck ==
  /\ pc = "idle"
  /\ cfg.enabled
  /\ ap' \in Aps
  /\ entry' = NoEntry
  /\ index' = 1
  /\ at' = 1
  /\ pc' = "ssid"
  /\ inForce' = {cfg}
  /\ UNCHANGED <<cfg, ring, throttle>>

(* Entry i of a target array: an entry past the count has been blanked. *)
Target(list, i) == IF i <= Len(list) THEN list[i] ELSE Hidden

AdmitOnePast(here, list, comparing, nextPlace) ==
  /\ pc = here
  /\ \/ /\ index <= Len(list) + 1
        /\ pc' = comparing
        /\ UNCHANGED index
     \/ /\ index > Len(list) + 1
        /\ pc' = nextPlace
        /\ index' = 1
  /\ UNCHANGED <<cfg, ap, at, entry, ring, throttle, inForce>>

AdmitOneShort(here, list, comparing, nextPlace) ==
  /\ pc = here
  /\ \/ /\ index < Len(list)
        /\ pc' = comparing
        /\ UNCHANGED index
     \/ /\ index >= Len(list)
        /\ pc' = nextPlace
        /\ index' = 1
  /\ UNCHANGED <<cfg, ap, at, entry, ring, throttle, inForce>>

(* The walk of one list: the count is read before, and apart from, the     *)
(* entry it admits.                                                        *)
Admit(here, list, comparing, nextPlace) ==
  /\ pc = here
  /\ \/ /\ index <= Len(list)
        /\ pc' = comparing
        /\ UNCHANGED index
     \/ /\ index > Len(list)
        /\ pc' = nextPlace
        /\ index' = 1
  /\ UNCHANGED <<cfg, ap, at, entry, ring, throttle, inForce>>

(* Two names agree at a place: the same character, or both have ended. *)
SameAt(s, t, k) == IF k <= Len(t) THEN k <= Len(s) /\ s[k] = t[k] ELSE k > Len(s)

(* One character of strcasecmp, read from the entry as it is now. *)
Compare(here, list, name, shown, type, back) ==
  /\ pc = here
  /\ LET same == SameAt(Target(list, index), name, at)
     IN \/ /\ same /\ at > Len(name)
           /\ entry' = [target |-> shown, type |-> type]
           /\ at' = 1
           /\ pc' = "log"
           /\ UNCHANGED index
        \/ /\ same /\ at <= Len(name)
           /\ at' = at + 1
           /\ UNCHANGED <<pc, index, entry>>
        \/ /\ ~same
           /\ index' = index + 1
           /\ at' = 1
           /\ pc' = back
           /\ UNCHANGED entry
  /\ UNCHANGED <<cfg, ap, ring, throttle, inForce>>

MatchSsid ==
  \/ Admit("ssid", cfg.ssids, "ssidEntry", "bssid")
  \/ Compare("ssidEntry", cfg.ssids, ap.ssid, Label(ap.ssid), "ssid", "ssid")

MatchBssid ==
  \/ Admit("bssid", cfg.bssids, "bssidEntry", "rssi")
  \/ Compare("bssidEntry", cfg.bssids, ap.bssid, ap.bssid, "bssid", "bssid")

(* Only an access point no list names is held against the threshold. *)
MatchRssi ==
  /\ pc = "rssi"
  /\ \/ /\ ap.rssi >= cfg.threshold
        /\ entry' = [target |-> Label(ap.ssid), type |-> "rssi"]
        /\ pc' = "log"
        /\ UNCHANGED <<ap, index, at, inForce>>
     \/ /\ ap.rssi < cfg.threshold
        /\ Return
  /\ UNCHANGED <<cfg, ring, throttle>>

NextHead == (head + 1) % LogLen

NextSize == IF size < LogLen THEN size + 1 ELSE size

(* log_alert, a critical section. *)
LogAlert ==
  /\ pc = "log"
  /\ cells' = [cells EXCEPT ![head] = entry]
  /\ head' = NextHead
  /\ size' = NextSize
  /\ pc' = "announce"
  /\ UNCHANGED <<cfg, ap, index, at, entry, throttle, inForce>>

MustAnnounce == entry.target # last \/ ~recent

(* The LED flash and the log line; only the last target is remembered. *)
Announce ==
  /\ pc = "announce"
  /\ \/ /\ MustAnnounce
        /\ last' = entry.target
        /\ recent' = TRUE
     \/ /\ ~MustAnnounce
        /\ UNCHANGED throttle
  /\ Return
  /\ UNCHANGED <<cfg, ring>>

-----------------------------------------------------------------------------
(* The UI task, at any point of a check, and the passing of time.          *)

(* alert_config_set, a critical section; the thresholds are clamped, and   *)
(* the UI itself keeps the lists within MaxTargets.                        *)
ConfigSet(c) ==
  /\ pc # "idle" => Cardinality(inForce) <= MaxEdits
  /\ cfg' = [c EXCEPT !.threshold = IF @ > -30 THEN -30 ELSE IF @ < -100 THEN -100 ELSE @]
  /\ inForce' = IF pc = "idle" THEN {} ELSE inForce \cup {cfg'}
  /\ UNCHANGED <<check, ring, throttle>>

AddTarget ==
  \/ /\ Len(cfg.ssids) < MaxTargets
     /\ \E s \in Ssids : ConfigSet([cfg EXCEPT !.ssids = Append(@, s)])
  \/ /\ Len(cfg.bssids) < MaxTargets
     /\ \E b \in Bssids : ConfigSet([cfg EXCEPT !.bssids = Append(@, b)])

ReplaceTarget ==
  \/ \E i \in DOMAIN cfg.ssids, s \in Ssids : ConfigSet([cfg EXCEPT !.ssids[i] = s])
  \/ \E i \in DOMAIN cfg.bssids, b \in Bssids : ConfigSet([cfg EXCEPT !.bssids[i] = b])

(* The targets after the deleted one move up by one. *)
DeleteTarget ==
  \/ \E i \in DOMAIN cfg.ssids : ConfigSet([cfg EXCEPT !.ssids = RemoveAt(@, i)])
  \/ \E i \in DOMAIN cfg.bssids : ConfigSet([cfg EXCEPT !.bssids = RemoveAt(@, i)])

SetThreshold == \E dbm \in Thresholds : ConfigSet([cfg EXCEPT !.threshold = dbm])

ToggleEnabled == ConfigSet([cfg EXCEPT !.enabled = ~@])

EditConfig == AddTarget \/ ReplaceTarget \/ DeleteTarget \/ SetThreshold \/ ToggleEnabled

ClearLog ==
  /\ head' = 0
  /\ size' = 0
  /\ UNCHANGED <<cfg, check, cells, throttle, inForce>>

SwappedIndex(i) == (head + i) % LogLen

(* Position of the i-th newest entry, counted from 0. *)
NewestIndex(i) == (head - 1 - i + LogLen) % LogLen

(* alert_log_snapshot, newest first. *)
Snapshot(max) ==
  [k \in 1 .. (IF max < size THEN max ELSE size) |-> cells[NewestIndex(k - 1)]]

(* The window ends; after 2^32 ms the counter wraps and looks recent again. *)
PassTime ==
  /\ recent' = ~recent
  /\ UNCHANGED <<cfg, check, ring, last, inForce>>

-----------------------------------------------------------------------------
AlertCheck == BeginCheck \/ MatchSsid \/ MatchBssid \/ MatchRssi \/ LogAlert \/ Announce

AlertNext == AlertCheck \/ EditConfig \/ ClearLog \/ PassTime

AlertSpec == AlertInit /\ [][AlertNext]_alertVars

-----------------------------------------------------------------------------
(* Properties.                                                             *)

(* The log shown is newest first and complete: the step after the match    *)
(* puts the entry in front and drops the oldest only when the ring was     *)
(* full, a clear empties the log, no other step of the check or of the UI  *)
(* changes it, and a shorter copy is a prefix of the full one.             *)
LogIsNewestFirst ==
  [][LET before   == Snapshot(LogLen)
         after    == Snapshot(LogLen)'
         alerting == pc = "log" /\ pc' # "log"
     IN  /\ alerting =>
              after = SubSeq(<<entry>> \o before, 1,
                             IF Len(before) < LogLen THEN Len(before) + 1 ELSE LogLen)
         /\ ClearLog => after = <<>>
         /\ ~alerting /\ ~ClearLog => after = before
         /\ \A max \in 1 .. LogLen : IsPrefix(Snapshot(max)', after)]_alertVars

Verdict(c, a) ==
  CASE a.ssid \in ToSet(c.ssids) -> "ssid"
    [] a.ssid \notin ToSet(c.ssids) /\ a.bssid \in ToSet(c.bssids) -> "bssid"
    [] a.ssid \notin ToSet(c.ssids) /\ a.bssid \notin ToSet(c.bssids)
         /\ a.rssi >= c.threshold -> "rssi"
    [] OTHER -> "none"

(* A check during which the configuration stayed the same has the verdict  *)
(* of that configuration: SSID targets before BSSID targets before the     *)
(* threshold, and exactly one alert or none.                               *)
UndisturbedVerdict ==
  [][(inForce = {cfg} /\ pc \in {"ssidEntry", "bssidEntry", "rssi"} /\ pc' \in {"log", "idle"})
       => entry'.type = Verdict(cfg, ap)]_alertVars

(* At one place of the list, every character of the name was that of a     *)
(* list in force.                                                          *)
Spliced(lists, name) ==
  \E list \in lists : \E i \in DOMAIN list :
    \A k \in 1 .. Len(name) + 1 : \E other \in lists : SameAt(Target(other, i), name, k)

Matched(lists, name) ==
  \/ \E list \in lists : name \in ToSet(list)
  \/ Spliced(lists, name) /\ \E list \in lists, other \in lists : list # other

(* Whatever edits fall into a check, an alert is justified: a              *)
(* configuration in force during the check names the access point or has a *)
(* threshold it reaches.  The exception is a target edited during the      *)
(* check: strcasecmp may read the head of the old one and the tail of the  *)
(* new one, or a blanked one for a hidden access point, and then only each *)
(* character comes from a target at that place of a list in force.         *)
AlertJustified ==
  pc \in {"log", "announce"} =>
    \/ entry.type = "ssid" /\ Matched({c.ssids : c \in inForce}, ap.ssid)
    \/ entry.type = "bssid" /\ Matched({c.bssids : c \in inForce}, ap.bssid)
    \/ entry.type = "rssi" /\ \E c \in inForce : ap.rssi >= c.threshold

=============================================================================
