---------------------------- MODULE GpsReceiver ----------------------------
(***************************************************************************)
(* gps_poll: the bytes the GPS module sends are assembled to lines, and a  *)
(* line whose checksum is right updates the position.  Bytes are lost when *)
(* the UART's buffer overflows, so two sentences may run into one line,    *)
(* and a piece of a sentence may arrive damaged.                           *)
(*                                                                         *)
(* A sentence is sent in pieces: "$", all up to the latitude, the rest     *)
(* with the longitude and the checksum, the line end.  The checksum is the *)
(* XOR of the bytes.  For the first piece "sum" is the XOR of its bytes,   *)
(* for the second the one that makes its checksum right: a line is valid   *)
(* when the two agree, which of eight bits they may also do by chance.     *)
(* Pieces that run into one are a damaged piece; what a field in one says  *)
(* is free.                                                                *)
(***************************************************************************)
EXTENDS Integers, Sequences

CONSTANTS
  Sentences,  \* what the module sends: [fix, place, sum] of a GGA sentence
  Damaged,    \* what can arrive instead
  NoPlace,    \* empty coordinates
  LineMax     \* NMEA_LINE_MAX, in pieces

Texts == Sentences \cup Damaged

ASSUME GpsAssumption ==
  /\ LineMax \in Nat /\ LineMax > 3
  /\ \A s \in Texts : s.fix \in BOOLEAN

VARIABLES
  sending,  \* pieces of the current sentence not sent yet
  line,     \* s_line
  gps       \* the task's GpsState: fix_valid, lat_e7, lon_e7

gpsVars == <<sending, line, gps>>

Piece(what, s) == [what |-> what, of |-> s]

Dollar == Piece("dollar", NoPlace)
LineEnd == Piece("end", NoPlace)

PiecesOf(s) == <<Dollar, Piece("lat", s), Piece("lon", s), LineEnd>>

GpsInit ==
  /\ sending = <<>>
  /\ line = <<>>
  /\ gps = [fix |-> FALSE, lat |-> 0, lon |-> 0]

-----------------------------------------------------------------------------
(* parse_sentence.                                                         *)

UncheckedValid(l) ==
  Len(l) >= 3 /\ l[2].what = "lat" /\ l[3].what = "lon"

(* What follows the first checksum is not looked at. *)
Valid(l) ==
  /\ Len(l) >= 3
  /\ l[2].what = "lat" /\ l[3].what = "lon"
  /\ l[2].of.sum = l[3].of.sum

(* parse_gga: a fix without coordinates keeps the old ones, which may be   *)
(* those of a fix that was lost since.                                     *)
Parsed(l) ==
  LET a == l[2].of
      b == l[3].of
  IN  IF b.fix /\ a.place # NoPlace /\ b.place # NoPlace
        THEN [fix |-> TRUE, lat |-> a.place.lat, lon |-> b.place.lon]
        ELSE [gps EXCEPT !.fix = b.fix]

-----------------------------------------------------------------------------
(* One piece in the loop of gps_poll.                                      *)

GotDollar ==
  /\ line' = <<Dollar>>
  /\ UNCHANGED gps

GotLineEnd ==
  /\ gps' = IF Len(line) > 1 /\ Valid(line) THEN Parsed(line) ELSE gps
  /\ line' = <<>>

(* Bytes before a "$" are skipped, an oversized line is dropped. *)
GotText(piece) ==
  /\ line' = IF line # <<>> /\ Len(line) < LineMax - 1 THEN Append(line, piece) ELSE <<>>
  /\ UNCHANGED gps

Got(piece) ==
  \/ piece = Dollar /\ GotDollar
  \/ piece = LineEnd /\ GotLineEnd
  \/ piece \notin {Dollar, LineEnd} /\ GotText(piece)

(* The module begins a sentence. *)
SendSentence ==
  /\ sending = <<>>
  /\ \E s \in Sentences : sending' = PiecesOf(s)
  /\ UNCHANGED <<line, gps>>

(* A piece arrives, whole or damaged, or is lost. *)
PollByte ==
  /\ sending # <<>>
  /\ sending' = Tail(sending)
  /\ \/ Got(Head(sending))
     \/ /\ Head(sending) \notin {Dollar, LineEnd}
        /\ \E d \in Damaged : GotText(Piece(Head(sending).what, d))
     \/ UNCHANGED <<line, gps>>

GpsStep == SendSentence \/ PollByte

=============================================================================
