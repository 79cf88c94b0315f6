--------------------------- MODULE SurveyPipeline ---------------------------
(***************************************************************************)
(* A survey from end to end: bytes of the GPS module become a position,    *)
(* the position travels to the event loop, which logs it with every access *)
(* point heard, and the exporters turn the session file into a map and a   *)
(* report.  The queue between the sensor task and the event loop is that   *)
(* of EventLoop, the logger's buffer that of SessionBuffer; here a         *)
(* snapshot is taken at any later moment and a row goes to the file at     *)
(* once.                                                                   *)
(***************************************************************************)
EXTENDS GpsReceiver, SessionExport

CONSTANTS
  Aps,     \* access points: [mac, ssid, auth, channel]
  Rssis,   \* signal strengths
  Cuts,    \* fields after which a write may be cut short
  MaxRows  \* bound: lines of the session file

ASSUME PipelineAssumption ==
  /\ MaxRows \in Nat
  /\ \A ap \in Aps : ap.channel \in Channels
  /\ \A s \in Texts : s.place = NoPlace \/ s.place \in [lat : Int, lon : Int]
  /\ Rssis \subseteq Int
  /\ Cuts \subseteq 1 .. RowFields - 1

VARIABLES
  latest,  \* latest_gps of the event loop
  file     \* lines of the session file, after the header

vars == <<gpsVars, latest, file>>

Init ==
  /\ GpsInit
  /\ latest = [fix |-> FALSE, lat |-> 0, lon |-> 0]
  /\ file = <<>>

(* sensor_task sends a snapshot, and the event loop receives it. *)
TakeSnapshot ==
  /\ latest' = gps
  /\ UNCHANGED <<gpsVars, file>>

(* session_logger_log_ap and write_buffer: without a fix the row says 0, 0. *)
Row(ap, rssi) ==
  <<Text("ts"), ap.mac, ap.ssid, ap.auth, Number(ap.channel), Number(rssi),
    Number(IF latest.fix THEN latest.lat ELSE 0),
    Number(IF latest.fix THEN latest.lon ELSE 0), Number(0), Number(0)>>

(* A write cut short is the last: the card is full, or the file in error. *)
LogAp ==
  /\ Len(file) < MaxRows
  /\ \A i \in DOMAIN file : Parses(file[i])
  /\ \E ap \in Aps, rssi \in Rssis, n \in Cuts \cup {RowFields} :
       file' = Append(file, SubSeq(Row(ap, rssi), 1, n))
  /\ UNCHANGED <<gpsVars, latest>>

Next ==
  \/ GpsStep /\ UNCHANGED <<latest, file>>
  \/ TakeSnapshot
  \/ LogAp

Spec == Init /\ [][Next]_vars

-----------------------------------------------------------------------------
(* Properties.                                                             *)

Placed == {s \in Texts : s.place # NoPlace}

(* Where the module said, with a fix, that the device was. *)
Fixes == {s.place : s \in {x \in Sentences \cap Placed : x.fix}}

(* The latitude of one text with the longitude of another, or of damaged   *)
(* text, that eight bits of checksum cannot tell from a sentence.          *)
Coincidences ==
  {[lat |-> p[1].place.lat, lon |-> p[2].place.lon] :
     p \in {q \in Placed \X Placed :
             /\ q[1] # q[2] \/ q[2] \in Damaged
             /\ q[1].sum = q[2].sum /\ q[2].fix}}

Places == Fixes \cup Coincidences

PlaceOf(r) == [lat |-> r.lat, lon |-> r.lon]

(* However bytes are lost or damaged and sentences run together, a pin on  *)
(* the map is at one place that the GPS module sent with a fix, never at   *)
(* one sent without, or at the latitude of one sentence and the longitude  *)
(* of another; the exception is a line whose checksum is right by chance.  *)
PinsAreReal ==
  LET pins == Placemarks(file)
  IN  \A i \in DOMAIN pins : PlaceOf(pins[i]) \in Places

(* The lines of an access point that the file places on Earth; 0, 0 says   *)
(* that there was no fix.                                                  *)
PlacedLines(mac) ==
  {i \in DOMAIN file :
     /\ Parses(file[i])
     /\ ParseRow(file[i]).mac = mac
     /\ PlaceOf(ParseRow(file[i])) \in Places \ {[lat |-> 0, lon |-> 0]}}

(* kml_export.h:20-22: the map has one pin for every access point that was *)
(* logged with a fix, wherever on Earth, with the strongest signal of      *)
(* those rows, at the place of the first, and no other pin.                *)
OnePinPerAp ==
  LET pins == Placemarks(file)
  IN  /\ \A i, j \in DOMAIN pins : pins[i].mac = pins[j].mac => i = j
      /\ \A i \in DOMAIN pins : PlacedLines(pins[i].mac) # {}
      /\ \A mac \in {ap.mac : ap \in Aps} :
           LET lines == PlacedLines(mac)
           IN  lines # {} =>
                 \E i \in DOMAIN pins, first \in lines, best \in lines :
                   /\ pins[i].mac = mac
                   /\ PlaceOf(pins[i]) = PlaceOf(ParseRow(file[first]))
                   /\ pins[i].rssi = ParseRow(file[best]).rssi
                   /\ \A k \in lines :
                        k >= first /\ ParseRow(file[k]).rssi <= pins[i].rssi

Between(x, span) == span # <<>> /\ span[1] <= x /\ x <= span[2]

(* The report of a session agrees with its map: each counts the same rows  *)
(* without a fix, and every pin is an access point of the report, no       *)
(* stronger than it says, inside the coverage it states.  The report tells *)
(* each access point that was logged once, strongest first, no weaker than *)
(* any of its rows, and no channel twice.                                  *)
ReportAgrees ==
  LET r    == Report(file)
      pins == Placemarks(file)
  IN  /\ r.noFix = Kml(file).noFix
      /\ \A i, j \in DOMAIN r.channels : r.channels[i] = r.channels[j] => i = j
      /\ \A i, j \in DOMAIN r.aps : r.aps[i].mac = r.aps[j].mac => i = j
      /\ \A i, j \in DOMAIN r.aps : i < j => r.aps[i].rssi >= r.aps[j].rssi
      /\ \A i \in DOMAIN file : Parses(file[i]) =>
           \E j \in DOMAIN r.aps :
             /\ r.aps[j].mac = ParseRow(file[i]).mac
             /\ r.aps[j].rssi >= ParseRow(file[i]).rssi
      /\ \A i \in DOMAIN pins :
           /\ \E j \in DOMAIN r.aps :
                r.aps[j].mac = pins[i].mac /\ r.aps[j].rssi >= pins[i].rssi
           /\ Between(pins[i].lat, r.lat) /\ Between(pins[i].lon, r.lon)

=============================================================================
