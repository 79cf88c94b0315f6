--------------------------- MODULE SessionExport ---------------------------
(***************************************************************************)
(* The exporters: what kml_export_path and report_export_path make of the  *)
(* lines of a session file.  A line is the sequence of its fields:         *)
(*                                                                         *)
(*   timestamp, mac, ssid, authmode, channel, rssi, lat, lon, sats, fix_q  *)
(*                                                                         *)
(* and ends early where a write was cut short.  The logger has replaced    *)
(* every comma of an SSID.  The timestamp and sats are carried along.      *)
(***************************************************************************)
EXTENDS Integers, Sequences, FiniteSets, SequencesExt

CONSTANT
  Channels  \* 1 .. CH_MAX - 1: the channels of the histogram

ASSUME ChannelsAssumption == Channels \subseteq Nat \ {0}

RowFields == 10

Text(t) == [text |-> t]

Number(n) == [number |-> n]

IsNumber(f) == DOMAIN f = {"number"}

-----------------------------------------------------------------------------
(* session_csv.                                                            *)

(* csv_parse_row finds the six numbers from the right, and before them     *)
(* timestamp, mac, ssid and authmode.                                      *)
Parses(line) ==
  LET n == Len(line)
  IN  n >= RowFields /\ \A i \in n - 5 .. n : IsNumber(line[i])

ParseRow(line) ==
  LET n == Len(line)
  IN  [mac |-> line[2], auth |-> line[n - 6], channel |-> line[n - 5].number,
       rssi |-> line[n - 4].number, lat |-> line[n - 3].number,
       lon |-> line[n - 2].number]

(* aptable_add, and the caller's update: the first record of an access     *)
(* point is kept, with the strongest signal.                               *)
AddRecord(table, r) ==
  IF \E i \in DOMAIN table : table[i].mac = r.mac
    THEN [i \in DOMAIN table |->
            IF table[i].mac = r.mac /\ r.rssi > table[i].rssi
              THEN [table[i] EXCEPT !.rssi = r.rssi] ELSE table[i]]
    ELSE Append(table, r)

-----------------------------------------------------------------------------
(* kml_export_path.                                                        *)

FixOffAxes(r) == r.lat # 0 /\ r.lon # 0

(* A record without a fix was logged at 0, 0. *)
HasFix(r) == r.lat # 0 \/ r.lon # 0

(* One line in the loop, once the header is read. *)
KmlLine(kml, line) ==
  IF ~ Parses(line) THEN kml
  ELSE LET r == ParseRow(line)
       IN  IF HasFix(r) THEN [kml EXCEPT !.pins = AddRecord(@, r)]
                        ELSE [kml EXCEPT !.noFix = @ + 1]

Kml(file) == FoldLeft(KmlLine, [pins |-> <<>>, noFix |-> 0], file)

Placemarks(file) == Kml(file).pins

-----------------------------------------------------------------------------
(* report_export_path.                                                     *)

(* The least and the greatest so far; <<>> stands for the initial ones,    *)
(* which no coordinate exceeds.                                            *)
Widened(span, x) ==
  IF span = <<>> THEN <<x, x>>
  ELSE <<IF x < span[1] THEN x ELSE span[1], IF x > span[2] THEN x ELSE span[2]>>

NoLines ==
  [rows |-> 0, bad |-> 0, fixed |-> 0, obs |-> [c \in Channels |-> 0],
   lat |-> <<>>, lon |-> <<>>, aps |-> <<>>]

(* One line in the loop: counted, in the histogram, in the coverage and in *)
(* the table of access points.                                             *)
ReportLine(tally, line) ==
  LET r    == ParseRow(line)
      good == [tally EXCEPT !.rows = @ + 1,
                 !.obs = [c \in Channels |-> IF c = r.channel THEN @[c] + 1 ELSE @[c]],
                 !.aps = AddRecord(@, r)]
  IN  CASE ~ Parses(line) -> [tally EXCEPT !.rows = @ + 1, !.bad = @ + 1]
        [] Parses(line) /\ ~ HasFix(r) -> good
        [] Parses(line) /\ HasFix(r) ->
             [good EXCEPT !.fixed = @ + 1, !.lat = Widened(@, r.lat), !.lon = Widened(@, r.lon)]

Tally(file) == FoldLeft(ReportLine, NoLines, file)

(* qsort by signal; the order of equals is not relied upon. *)
Sorted(aps) ==
  CHOOSE q \in [DOMAIN aps -> ToSet(aps)] :
    /\ \A ap \in ToSet(aps) : \E i \in DOMAIN q : q[i] = ap
    /\ \A i, j \in DOMAIN q : i < j => q[i].rssi >= q[j].rssi

Busiest(obs) ==
  CHOOSE c \in Channels :
    \A d \in Channels : obs[c] > obs[d] \/ (obs[c] = obs[d] /\ c <= d)

RepeatedPass(h, k) ==
  IF \A c \in Channels : h.obs[c] = 0 THEN h
  ELSE [h EXCEPT !.top = Append(@, Busiest(h.obs))]

(* A pass over the histogram, which drops from it what it prints. *)
ChannelPass(h, k) ==
  LET best == Busiest(h.obs)
  IN  IF \A c \in Channels : h.obs[c] = 0 THEN h
      ELSE [top |-> Append(h.top, best), obs |-> [h.obs EXCEPT ![best] = 0]]

TopChannels(obs) ==
  FoldLeft(ChannelPass, [top |-> <<>>, obs |-> obs], <<1, 2, 3, 4, 5>>).top

Report(file) ==
  LET t == Tally(file)
  IN  [rows     |-> t.rows,
       bad      |-> t.bad,
       fixed    |-> t.fixed,
       noFix    |-> t.rows - t.fixed - t.bad,
       aps      |-> Sorted(t.aps),
       below15  |-> Cardinality({i \in DOMAIN t.aps : t.aps[i].channel <= 14}),
       above14  |-> Cardinality({i \in DOMAIN t.aps : t.aps[i].channel > 14}),
       security |-> [k \in {a.auth : a \in ToSet(t.aps)} |->
                       Cardinality({i \in DOMAIN t.aps : t.aps[i].auth = k})],
       channels |-> TopChannels(t.obs),
       lat      |-> t.lat,
       lon      |-> t.lon]

=============================================================================
