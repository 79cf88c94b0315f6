---------------------------- MODULE SurveyProofs ----------------------------
(***************************************************************************)
(* Proofs about SurveyPipeline, for any sentences, access points and       *)
(* length of the session file: what the map shows is where the device was, *)
(* the map has one pin for each access point it should have, and the       *)
(* report agrees with it.  An inductive invariant says what the pieces in  *)
(* flight and the lines of the file can be; the rest is about the loops of *)
(* the exporters, unrolled line by line.                                   *)
(***************************************************************************)
EXTENDS SurveyPipeline, Counting, SequenceTheorems

-----------------------------------------------------------------------------
(* From the UART to the file.                                              *)

Nowhere == [lat |-> 0, lon |-> 0]

Known == Places \cup {Nowhere}

AllPieces ==
  {Dollar, LineEnd} \cup {Piece(what, s) : what \in {"lat", "lon"}, s \in Texts}

(* Positions: of a line that was accepted, or none yet. *)
Positions == {f \in [fix : BOOLEAN, lat : Int, lon : Int] : PlaceOf(f) \in Known}

RowAt(ap, rssi, p) ==
  <<Text("ts"), ap.mac, ap.ssid, ap.auth, Number(ap.channel), Number(rssi),
    Number(p.lat), Number(p.lon), Number(0), Number(0)>>

Rows == {RowAt(ap, rssi, p) : ap \in Aps, rssi \in Rssis, p \in Known}

Written(row, n) == SubSeq(row, 1, n)

(* A row, or what was written of it. *)
Lines == {Written(row, n) : row \in Rows, n \in Cuts \cup {RowFields}}

SurveyInv ==
  /\ sending \in Seq(AllPieces)
  /\ line \in Seq(AllPieces)
  /\ gps \in Positions
  /\ latest \in Positions
  /\ file \in Seq(Lines)

(* What a line of the file can tell. *)
Logged ==
  {r \in [mac : {ap.mac : ap \in Aps}, auth : {ap.auth : ap \in Aps}, channel : Channels,
          rssi : Rssis, lat : Int, lon : Int] :
     PlaceOf(r) \in Known}

LEMMA KnownPlaces ==
  \A p \in Known : p = [lat |-> p.lat, lon |-> p.lon] /\ p.lat \in Int /\ p.lon \in Int
<1>1. \A s \in Placed : s.place \in [lat : Int, lon : Int]
  BY PipelineAssumption DEF Placed
<1>2. Fixes \subseteq [lat : Int, lon : Int]
  BY <1>1 DEF Fixes
<1>3. Coincidences \subseteq [lat : Int, lon : Int]
  <2>1. ASSUME NEW p \in Placed \X Placed
        PROVE  [lat |-> p[1].place.lat, lon |-> p[2].place.lon] \in [lat : Int, lon : Int]
    <3>1. p[1].place \in [lat : Int, lon : Int] /\ p[2].place \in [lat : Int, lon : Int]
      BY <1>1
    <3>. QED
      BY <3>1
  <2>. QED
    BY <2>1 DEF Coincidences
<1>. QED
  BY <1>2, <1>3 DEF Known, Places, Nowhere

(* Two texts whose checksums agree, the second with a fix, name a place:   *)
(* that of a sentence, if they are one.                                    *)
LEMMA AgreeingTexts ==
  ASSUME NEW a \in Placed, NEW b \in Placed, a.sum = b.sum, b.fix
  PROVE  [lat |-> a.place.lat, lon |-> b.place.lon] \in Places
<1>1. CASE a # b \/ b \in Damaged
  <2>. DEFINE q == <<a, b>>
  <2>1. /\ q \in Placed \X Placed /\ q[1] = a /\ q[2] = b
        /\ q[1] # q[2] \/ q[2] \in Damaged
    BY <1>1
  <2>. HIDE DEF q
  <2>. QED
    BY <2>1 DEF Places, Coincidences
<1>2. CASE a = b /\ b \notin Damaged
  <2>1. b \in Sentences \cap Placed /\ b.place \in Fixes
    BY <1>2 DEF Placed, Texts, Fixes
  <2>2. b.place = [lat |-> b.place.lat, lon |-> b.place.lon]
    BY PipelineAssumption DEF Placed
  <2>. QED
    BY <1>2, <2>1, <2>2 DEF Places
<1>. QED
  BY <1>1, <1>2

(* A line whose checksum is right tells a place, or keeps the last one.    *)
LEMMA ParsedPosition ==
  ASSUME SurveyInv, Valid(line)
  PROVE  Parsed(line) \in Positions
<1>1. line[2] \in AllPieces /\ line[3] \in AllPieces
  BY DEF SurveyInv, Valid
<1>. DEFINE a == line[2].of
            b == line[3].of
<1>2. a \in Texts /\ b \in Texts /\ a.sum = b.sum /\ b.fix \in BOOLEAN
  BY <1>1, GpsAssumption DEF Valid, AllPieces, Dollar, LineEnd, Piece
<1>. DEFINE told == b.fix /\ a.place # NoPlace /\ b.place # NoPlace
<1>3. CASE told
  <2>1. Parsed(line) = [fix |-> TRUE, lat |-> a.place.lat, lon |-> b.place.lon]
    BY <1>3 DEF Parsed
  <2>. HIDE DEF a, b
  <2>2. [lat |-> a.place.lat, lon |-> b.place.lon] \in Known
    BY <1>2, <1>3, AgreeingTexts DEF Known, Placed
  <2>. QED
    BY <2>1, <2>2, KnownPlaces DEF Positions, PlaceOf
<1>4. CASE ~ told
  <2>1. Parsed(line) = [gps EXCEPT !.fix = b.fix]
    BY <1>4 DEF Parsed
  <2>. QED
    BY <1>2, <2>1 DEF SurveyInv, Positions, PlaceOf
<1>. QED
  BY <1>3, <1>4

LEMMA SurveyInit == Init => SurveyInv
BY DEF Init, GpsInit, SurveyInv, Positions, PlaceOf, Known, Nowhere

LEMMA SurveyStep == SurveyInv /\ [Next]_vars => SurveyInv'
<1>. SUFFICES ASSUME SurveyInv, [Next]_vars
              PROVE  SurveyInv'
  OBVIOUS
<1>. USE DEF SurveyInv
<1>1. CASE SendSentence /\ UNCHANGED <<latest, file>>
  <2>1. PICK s \in Texts : sending' = PiecesOf(s)
    BY <1>1 DEF SendSentence, Texts
  <2>2. \A what \in {"lat", "lon"} : Piece(what, s) \in AllPieces
    BY DEF AllPieces
  <2>3. Dollar \in AllPieces /\ LineEnd \in AllPieces
    BY DEF AllPieces
  <2>4. sending' \in Seq(AllPieces)
    BY <2>1, <2>2, <2>3 DEF PiecesOf
  <2>. QED
    BY <1>1, <2>4 DEF SendSentence
<1>2. CASE PollByte /\ UNCHANGED <<latest, file>>
  <2>1. Head(sending) \in AllPieces /\ sending' \in Seq(AllPieces)
    BY <1>2, HeadTailProperties DEF PollByte
  <2>2. CASE GotDollar
    <3>1. line' = <<Dollar>> /\ Dollar \in AllPieces
      BY <2>2 DEF GotDollar, AllPieces
    <3>. QED
      BY <1>2, <2>1, <2>2, <3>1 DEF GotDollar
  <2>3. CASE GotLineEnd
    <3>1. gps' \in Positions
      BY <2>3, ParsedPosition DEF GotLineEnd
    <3>. QED
      BY <1>2, <2>1, <2>3, <3>1 DEF GotLineEnd
  <2>4. CASE GotText(Head(sending))
    <3>1. line' \in Seq(AllPieces)
      BY <2>1, <2>4, AppendProperties DEF GotText
    <3>. QED
      BY <1>2, <2>1, <2>4, <3>1 DEF GotText
  <2>5. CASE UNCHANGED <<line, gps>>
    BY <1>2, <2>1, <2>5
  <2>6. ASSUME Head(sending) \notin {Dollar, LineEnd},
               NEW d \in Damaged, GotText(Piece(Head(sending).what, d))
        PROVE  SurveyInv'
    <3>1. Piece(Head(sending).what, d) \in AllPieces
      <4>1. Head(sending).what \in {"lat", "lon"} /\ d \in Texts
        BY <2>1, <2>6 DEF AllPieces, Piece, Texts
      <4>. QED
        BY <4>1 DEF AllPieces
    <3>2. line' \in Seq(AllPieces)
      BY <2>6, <3>1, AppendProperties DEF GotText
    <3>. QED
      BY <1>2, <2>1, <2>6, <3>2 DEF GotText
  <2>. QED
    BY <1>2, <2>2, <2>3, <2>4, <2>5, <2>6 DEF PollByte, Got
<1>3. CASE TakeSnapshot
  BY <1>3 DEF TakeSnapshot, gpsVars
<1>4. CASE LogAp
  <2>1. PICK ap \in Aps, rssi \in Rssis, n \in Cuts \cup {RowFields} :
          file' = Append(file, SubSeq(Row(ap, rssi), 1, n))
    BY <1>4 DEF LogAp
  <2>2. PICK p \in Known : Row(ap, rssi) = RowAt(ap, rssi, p)
    <3>1. CASE latest.fix
      <4>1. PlaceOf(latest) \in Known /\ Row(ap, rssi) = RowAt(ap, rssi, PlaceOf(latest))
        BY <3>1 DEF Positions, Row, RowAt, PlaceOf
      <4>. QED
        BY <4>1
    <3>2. CASE ~ latest.fix
      <4>1. Nowhere \in Known /\ Row(ap, rssi) = RowAt(ap, rssi, Nowhere)
        BY <3>2 DEF Known, Nowhere, Row, RowAt
      <4>. QED
        BY <4>1
    <3>. QED
      BY <3>1, <3>2
  <2>3. Written(Row(ap, rssi), n) \in Lines
    BY <2>2 DEF Lines, Rows
  <2>4. file' \in Seq(Lines)
    BY <2>1, <2>3, AppendProperties DEF Written
  <2>. QED
    BY <1>4, <2>4 DEF LogAp, gpsVars
<1>5. CASE UNCHANGED vars
  BY <1>5 DEF vars, gpsVars
<1>. QED
  BY <1>1, <1>2, <1>3, <1>4, <1>5 DEF Next, GpsStep

LEMMA SurveyAlways == Spec => []SurveyInv
<1>. QED
  BY SurveyInit, SurveyStep, PTL DEF Spec

(* A line that parses is a whole row: one that was cut short has too few   *)
(* fields.                                                                 *)
LEMMA LineTells ==
  ASSUME NEW l \in Lines, Parses(l)
  PROVE  ParseRow(l) \in Logged
<1>1. PICK ap \in Aps, rssi \in Rssis, p \in Known, n \in Cuts \cup {RowFields} :
        l = SubSeq(RowAt(ap, rssi, p), 1, n)
  BY DEF Lines, Rows, Written
<1>. DEFINE row == RowAt(ap, rssi, p)
            Fields == {row[i] : i \in 1 .. 10}
<1>2. row \in Seq(Fields) /\ Len(row) = 10
  BY DEF RowAt
<1>3. n \in 1 .. 10
  BY PipelineAssumption DEF RowFields
<1>. HIDE DEF row, Fields
<1>4. Len(l) = n
  BY <1>1, <1>2, <1>3 DEF row
<1>5. n = 10 /\ l = row
  <2>1. n = 10
    BY <1>3, <1>4 DEF Parses, RowFields
  <2>. QED
    BY <1>1, <1>2, <2>1, SubSeqFull DEF row
<1>6. /\ l[2] = ap.mac /\ l[4] = ap.auth /\ l[5].number = ap.channel /\ l[6].number = rssi
      /\ l[7].number = p.lat /\ l[8].number = p.lon
  BY <1>5 DEF row, RowAt, Number
<1>7. ParseRow(l) = [mac |-> ap.mac, auth |-> ap.auth, channel |-> ap.channel,
                     rssi |-> rssi, lat |-> p.lat, lon |-> p.lon]
  BY <1>4, <1>5, <1>6 DEF ParseRow
<1>. QED
  BY <1>7, KnownPlaces, PipelineAssumption DEF Logged, PlaceOf

-----------------------------------------------------------------------------
(* The table of access points, which both exporters fill.                  *)

Rec(k) == ParseRow(file[k])

LEMMA RecLogged ==
  ASSUME SurveyInv, NEW k \in 1 .. Len(file), Parses(file[k])
  PROVE  Rec(k) \in Logged
BY LineTells DEF SurveyInv, Rec

LEMMA AddKnown ==
  ASSUME NEW t \in Seq(Logged), NEW r \in Logged,
         NEW i \in DOMAIN t, t[i].mac = r.mac
  PROVE  /\ AddRecord(t, r) \in Seq(Logged)
         /\ Len(AddRecord(t, r)) = Len(t)
         /\ \A j \in 1 .. Len(t) :
              AddRecord(t, r)[j] = IF t[j].mac = r.mac /\ r.rssi > t[j].rssi
                                     THEN [t[j] EXCEPT !.rssi = r.rssi] ELSE t[j]
<1>. DEFINE new == [j \in DOMAIN t |-> IF t[j].mac = r.mac /\ r.rssi > t[j].rssi
                                         THEN [t[j] EXCEPT !.rssi = r.rssi] ELSE t[j]]
<1>1. AddRecord(t, r) = new
  BY Zenon DEF AddRecord
<1>2. ASSUME NEW j \in 1 .. Len(t)
      PROVE  [t[j] EXCEPT !.rssi = r.rssi] \in Logged
  <2>1. t[j] \in Logged
    OBVIOUS
  <2>. QED
    BY <2>1 DEF Logged, PlaceOf
<1>3. /\ DOMAIN t = 1 .. Len(t) /\ Len(t) \in Nat
      /\ \A j \in 1 .. Len(t) : t[j] \in Logged
  OBVIOUS
<1>4. new \in [1 .. Len(t) -> Logged]
  BY <1>2, <1>3
<1>. HIDE DEF new
<1>5. new \in Seq(Logged) /\ Len(new) = Len(t)
  BY <1>3, <1>4
<1>. QED
  BY <1>1, <1>3, <1>5 DEF new

LEMMA AddNew ==
  ASSUME NEW t \in Seq(Logged), NEW r \in Logged, \A i \in DOMAIN t : t[i].mac # r.mac
  PROVE  AddRecord(t, r) = Append(t, r)
BY Zenon DEF AddRecord

LEMMA AddType ==
  ASSUME NEW t \in Seq(Logged), NEW r \in Logged
  PROVE  AddRecord(t, r) \in Seq(Logged)
<1>1. CASE \E i \in DOMAIN t : t[i].mac = r.mac
  BY <1>1, AddKnown
<1>2. CASE \A i \in DOMAIN t : t[i].mac # r.mac
  BY <1>2, AddNew
<1>. QED
  BY <1>1, <1>2

(* A record of the table tells the first of its lines among S, and the     *)
(* strongest.                                                              *)
Same(mac, S) == {k \in S : Rec(k).mac = mac}

Summarises(r, S) ==
  \E first \in Same(r.mac, S), best \in Same(r.mac, S) :
    /\ PlaceOf(r) = PlaceOf(Rec(first))
    /\ r.rssi = Rec(best).rssi
    /\ \A k \in Same(r.mac, S) : k >= first /\ Rec(k).rssi <= r.rssi

(* The table of the lines S: each access point once. *)
TableOf(t, S) ==
  /\ t \in Seq(Logged)
  /\ \A i, j \in 1 .. Len(t) : t[i].mac = t[j].mac => i = j
  /\ \A i \in 1 .. Len(t) : Summarises(t[i], S)
  /\ \A k \in S : \E i \in 1 .. Len(t) : t[i].mac = Rec(k).mac

LEMMA TableGrows ==
  ASSUME SurveyInv, NEW m \in Nat, m + 1 \in 1 .. Len(file), Parses(file[m + 1]),
         NEW S \in SUBSET (1 .. m), \A k \in S : Parses(file[k]),
         NEW t, TableOf(t, S)
  PROVE  TableOf(AddRecord(t, Rec(m + 1)), S \cup {m + 1})
<1>. DEFINE r   == Rec(m + 1)
            new == AddRecord(t, r)
            T   == S \cup {m + 1}
<1>1. /\ t \in Seq(Logged) /\ Len(t) \in Nat /\ DOMAIN t = 1 .. Len(t)
      /\ \A i \in 1 .. Len(t) : t[i] \in Logged
  BY DEF TableOf
<1>2. r \in Logged /\ \A k \in S : Rec(k) \in Logged
  <2>1. \A k \in S : k \in 1 .. Len(file)
    BY DEF SurveyInv
  <2>. QED
    BY <2>1, RecLogged
<1>3. \A q \in Logged : q.rssi \in Int
  BY PipelineAssumption DEF Logged
<1>4. \A k \in S : k \in Int /\ k < m + 1
  OBVIOUS
<1>5. \A mac : Same(mac, T) = IF mac = r.mac THEN Same(mac, S) \cup {m + 1} ELSE Same(mac, S)
  BY DEF Same
<1>. HIDE DEF r
<1>6. CASE \E i \in 1 .. Len(t) : t[i].mac = r.mac
  <2>1. PICK i \in 1 .. Len(t) : t[i].mac = r.mac
    BY <1>6
  <2>2. /\ new \in Seq(Logged) /\ Len(new) = Len(t)
        /\ \A j \in 1 .. Len(t) :
             new[j] = IF t[j].mac = r.mac /\ r.rssi > t[j].rssi
                        THEN [t[j] EXCEPT !.rssi = r.rssi] ELSE t[j]
    BY <1>1, <1>2, <2>1, AddKnown
  <2>. HIDE DEF new
  <2>3. ASSUME NEW j \in 1 .. Len(t)
        PROVE  /\ new[j].mac = t[j].mac /\ PlaceOf(new[j]) = PlaceOf(t[j])
               /\ new[j].rssi = IF t[j].mac = r.mac /\ r.rssi > t[j].rssi
                                  THEN r.rssi ELSE t[j].rssi
    BY <1>1, <2>2 DEF Logged, PlaceOf
  <2>4. ASSUME NEW j \in 1 .. Len(t)
        PROVE  Summarises(new[j], T)
    <3>1. PICK first \in Same(t[j].mac, S), best \in Same(t[j].mac, S) :
            /\ PlaceOf(t[j]) = PlaceOf(Rec(first))
            /\ t[j].rssi = Rec(best).rssi
            /\ \A k \in Same(t[j].mac, S) : k >= first /\ Rec(k).rssi <= t[j].rssi
      BY DEF TableOf, Summarises
    <3>2. CASE t[j].mac # r.mac
      BY <1>5, <2>3, <3>1, <3>2 DEF Summarises
    <3>3. CASE t[j].mac = r.mac
      <4>. DEFINE top == IF r.rssi > t[j].rssi THEN m + 1 ELSE best
      <4>1. /\ Same(new[j].mac, T) = Same(t[j].mac, S) \cup {m + 1}
            /\ first \in Same(new[j].mac, T) /\ top \in Same(new[j].mac, T)
        BY <1>5, <2>3, <3>3
      <4>2. new[j].rssi = Rec(top).rssi
        BY <2>3, <3>1, <3>3 DEF r
      <4>3. /\ t[j].rssi \in Int /\ r.rssi \in Int /\ new[j].rssi \in Int
            /\ t[j].rssi <= new[j].rssi /\ r.rssi <= new[j].rssi
        BY <1>1, <1>2, <1>3, <2>3, <3>3
      <4>4. ASSUME NEW k \in Same(new[j].mac, T)
            PROVE  k >= first /\ Rec(k).rssi <= new[j].rssi
        <5>1. CASE k \in Same(t[j].mac, S)
          <6>1. k >= first /\ Rec(k).rssi <= t[j].rssi /\ Rec(k).rssi \in Int
            BY <1>2, <1>3, <3>1, <5>1 DEF Same
          <6>. QED
            BY <4>3, <6>1
        <5>2. CASE k = m + 1
          BY <1>4, <4>3, <5>2 DEF Same, r
        <5>. QED
          BY <4>1, <5>1, <5>2
      <4>. HIDE DEF top
      <4>. QED
        BY <2>3, <3>1, <4>1, <4>2, <4>4 DEF Summarises
    <3>. QED
      BY <3>2, <3>3
  <2>5. \A k \in T : \E j \in 1 .. Len(new) : new[j].mac = Rec(k).mac
    BY <2>1, <2>2, <2>3 DEF TableOf, r
  <2>6. \A a, b \in 1 .. Len(new) : new[a].mac = new[b].mac => a = b
    BY <2>2, <2>3 DEF TableOf
  <2>7. TableOf(new, T)
    BY <2>2, <2>4, <2>5, <2>6 DEF TableOf
  <2>. QED
    BY <2>7 DEF new, r
<1>7. CASE \A i \in 1 .. Len(t) : t[i].mac # r.mac
  <2>1. new = Append(t, r)
    BY <1>1, <1>2, <1>7, AddNew
  <2>. HIDE DEF new
  <2>2. /\ new \in Seq(Logged) /\ Len(new) = Len(t) + 1
        /\ \A j \in 1 .. Len(t) : new[j] = t[j]
        /\ new[Len(t) + 1] = r
        /\ \A j \in 1 .. Len(new) : j \in 1 .. Len(t) \/ j = Len(t) + 1
    BY <1>1, <1>2, <2>1, AppendProperties
  <2>3. Same(r.mac, S) = {}
    BY <1>7 DEF TableOf, Same
  <2>4. ASSUME NEW j \in 1 .. Len(t)
        PROVE  Summarises(new[j], T)
    <3>1. Summarises(t[j], S) /\ new[j] = t[j] /\ t[j].mac # r.mac
      BY <1>7, <2>2 DEF TableOf
    <3>. QED
      BY <1>5, <3>1 DEF Summarises
  <2>5. Summarises(new[Len(t) + 1], T)
    <3>1. Same(r.mac, T) = {m + 1} /\ Rec(m + 1) = r /\ r.rssi \in Int
      BY <1>2, <1>3, <1>5, <2>3 DEF r
    <3>2. m + 1 >= m + 1 /\ r.rssi <= r.rssi
      BY <3>1
    <3>. HIDE DEF T
    <3>3. Summarises(r, T)
      BY <3>1, <3>2, Zenon DEF Summarises
    <3>. QED
      BY <2>2, <3>3
  <2>6. \A a, b \in 1 .. Len(new) : new[a].mac = new[b].mac => a = b
    BY <1>7, <2>2 DEF TableOf
  <2>7. \A k \in T : \E j \in 1 .. Len(new) : new[j].mac = Rec(k).mac
    <3>1. \A k \in S : \E j \in 1 .. Len(t) : t[j].mac = Rec(k).mac
      BY DEF TableOf
    <3>2. Len(t) + 1 \in 1 .. Len(new) /\ \A j \in 1 .. Len(t) : j \in 1 .. Len(new)
      BY <1>1, <2>2
    <3>. QED
      BY <2>2, <3>1, <3>2 DEF r
  <2>8. TableOf(new, T)
    BY <2>2, <2>4, <2>5, <2>6, <2>7 DEF TableOf
  <2>. QED
    BY <2>8 DEF new, r
<1>. QED
  BY <1>6, <1>7

-----------------------------------------------------------------------------
(* The map.                                                                *)

(* The loop of the map, unrolled: out[m] is what the first m lines make.   *)
KmlStates == [pins : Seq(Logged), noFix : Nat]

NoPins == [pins |-> <<>>, noFix |-> 0]

KmlUnrolls(out) ==
  /\ out[0] = NoPins
  /\ \A m \in 0 .. Len(file) - 1 : out[m + 1] = KmlLine(out[m], file[m + 1])
  /\ Kml(file) = out[Len(file)]

LEMMA KmlLineType ==
  ASSUME SurveyInv, NEW k \in 1 .. Len(file), NEW kml \in KmlStates
  PROVE  KmlLine(kml, file[k]) \in KmlStates
<1>1. CASE ~ Parses(file[k])
  BY <1>1 DEF KmlLine
<1>2. CASE Parses(file[k])
  <2>1. Rec(k) \in Logged /\ AddRecord(kml.pins, Rec(k)) \in Seq(Logged)
    BY <1>2, RecLogged, AddType DEF KmlStates
  <2>. QED
    BY <1>2, <2>1 DEF KmlLine, KmlStates, Rec
<1>. QED
  BY <1>1, <1>2

LEMMA KmlUnrolled ==
  ASSUME SurveyInv
  PROVE  \E out : KmlUnrolls(out)
<1>. DEFINE n == Len(file)
            V == KmlStates
            g == [p \in (1 .. n) \X V |-> KmlLine(p[2], file[p[1]])]
            Recursion(F) ==
              F = [s \in SUBSET (1 .. n) |->
                     IF s = {} THEN NoPins ELSE KmlLine(F[s \ {Max(s)}], file[Max(s)])]
            C == CHOOSE F : Recursion(F)
            out == [m \in 0 .. n |-> C[1 .. m]]
<1>1. n \in Nat /\ DOMAIN file = 1 .. n
  BY DEF SurveyInv
<1>2. g \in [(1 .. n) \X V -> V]
  BY KmlLineType
<1>3. Kml(file) = C[1 .. n]
  BY <1>1, Zenon DEF Kml, FoldLeft, MapThenFoldSet, NoPins
<1>4. PICK F \in [SUBSET (1 .. n) -> V] : Folds(F, n, NoPins, g)
  <2>1. NoPins \in V
    BY DEF NoPins, KmlStates
  <2>. HIDE DEF g, V, n
  <2>. QED
    BY <1>1, <1>2, <2>1, FoldExists
<1>5. Recursion(F)
  <2>1. ASSUME NEW s \in SUBSET (1 .. n), s # {}
        PROVE  F[s] = KmlLine(F[s \ {Max(s)}], file[Max(s)])
    <3>1. Max(s) \in 1 .. n /\ F[s \ {Max(s)}] \in V
      <4>. HIDE DEF V, n
      <4>. QED
        BY <1>1, <2>1, MaxIn
    <3>2. <<Max(s), F[s \ {Max(s)}]>> \in (1 .. n) \X V
      BY <3>1
    <3>. QED
      BY <1>4, <2>1, <3>1, <3>2 DEF Folds
  <2>2. \A s \in SUBSET (1 .. n) :
          F[s] = IF s = {} THEN NoPins ELSE KmlLine(F[s \ {Max(s)}], file[Max(s)])
    BY <1>4, <2>1 DEF Folds
  <2>. QED
    BY <2>2
<1>6. Recursion(C)
  <2>. HIDE DEF Recursion
  <2>. QED
    BY <1>5, Zenon
<1>. HIDE DEF C, n
<1>7. C[1 .. 0] = NoPins
  BY <1>6
<1>8. ASSUME NEW m \in 0 .. n - 1
      PROVE  C[1 .. m + 1] = KmlLine(C[1 .. m], file[m + 1])
  <2>1. m \in Nat /\ 1 .. m + 1 \in SUBSET (1 .. n)
    BY <1>1
  <2>2. 1 .. m + 1 # {} /\ Max(1 .. m + 1) = m + 1 /\ (1 .. m + 1) \ {m + 1} = 1 .. m
    BY <2>1, LastTo
  <2>. QED
    BY <1>6, <2>1, <2>2
<1>. QED
  <2>1. /\ \A m \in 0 .. n : out[m] = C[1 .. m]
        /\ 0 \in 0 .. n /\ n \in 0 .. n
        /\ \A m \in 0 .. n - 1 : m \in 0 .. n /\ m + 1 \in 0 .. n
    BY <1>1
  <2>. HIDE DEF out
  <2>. QED
    BY <1>3, <1>7, <1>8, <2>1 DEF KmlUnrolls, n

(* What the lines up to m are.                                             *)
Good(m) == {k \in 1 .. m : Parses(file[k])}

Fixed(m) == {k \in Good(m) : HasFix(Rec(k))}

Unfixed(m) == {k \in Good(m) : ~ HasFix(Rec(k))}

LEMMA LinesNext ==
  ASSUME NEW m \in Nat
  PROVE  /\ IF Parses(file[m + 1]) THEN Good(m + 1) = Good(m) \cup {m + 1}
                                   ELSE Good(m + 1) = Good(m)
         /\ IF Parses(file[m + 1]) /\ HasFix(Rec(m + 1))
              THEN Fixed(m + 1) = Fixed(m) \cup {m + 1} ELSE Fixed(m + 1) = Fixed(m)
         /\ IF Parses(file[m + 1]) /\ ~ HasFix(Rec(m + 1))
              THEN /\ Unfixed(m + 1) = Unfixed(m) \cup {m + 1}
                   /\ Cardinality(Unfixed(m + 1)) = Cardinality(Unfixed(m)) + 1
              ELSE Unfixed(m + 1) = Unfixed(m)
         /\ Cardinality(Unfixed(m)) \in Nat
<1>1. m + 1 \in 1 .. m + 1 /\ m + 1 \notin 1 .. m /\ 1 .. m + 1 = (1 .. m) \cup {m + 1}
  OBVIOUS
<1>2. Good(m + 1) = IF Parses(file[m + 1]) THEN Good(m) \cup {m + 1} ELSE Good(m)
  BY <1>1 DEF Good
<1>3. Unfixed(m + 1) = IF Parses(file[m + 1]) /\ ~ HasFix(Rec(m + 1))
                         THEN Unfixed(m) \cup {m + 1} ELSE Unfixed(m)
  BY <1>2 DEF Unfixed
<1>4. Fixed(m + 1) = IF Parses(file[m + 1]) /\ HasFix(Rec(m + 1))
                       THEN Fixed(m) \cup {m + 1} ELSE Fixed(m)
  BY <1>2 DEF Fixed
<1>5. IsFiniteSet(Unfixed(m)) /\ m + 1 \notin Unfixed(m)
  <2>1. Unfixed(m) \subseteq 1 .. m /\ IsFiniteSet(1 .. m)
    BY CountTo DEF Unfixed, Good
  <2>. QED
    BY <1>1, <2>1, FS_Subset
<1>6. /\ Cardinality(Unfixed(m)) \in Nat
      /\ Cardinality(Unfixed(m) \cup {m + 1}) = Cardinality(Unfixed(m)) + 1
  BY <1>5, FS_AddElement, FS_CardinalityType
<1>. QED
  BY <1>2, <1>3, <1>4, <1>6

KmlSoFar(kml, m) ==
  /\ kml \in KmlStates
  /\ TableOf(kml.pins, Fixed(m))
  /\ kml.noFix = Cardinality(Unfixed(m))

LEMMA KmlNext ==
  ASSUME SurveyInv, NEW m \in Nat, m + 1 \in 1 .. Len(file), NEW kml, KmlSoFar(kml, m)
  PROVE  KmlSoFar(KmlLine(kml, file[m + 1]), m + 1)
<1>. DEFINE new == KmlLine(kml, file[m + 1])
<1>1. new \in KmlStates /\ kml \in KmlStates
  BY KmlLineType DEF KmlSoFar
<1>2. CASE ~ Parses(file[m + 1])
  <2>1. new = kml
    BY <1>2 DEF KmlLine
  <2>. QED
    BY <1>1, <1>2, <2>1, LinesNext DEF KmlSoFar
<1>3. CASE Parses(file[m + 1]) /\ HasFix(Rec(m + 1))
  <2>1. new = [kml EXCEPT !.pins = AddRecord(@, Rec(m + 1))]
    BY <1>3 DEF KmlLine, Rec
  <2>2. new.pins = AddRecord(kml.pins, Rec(m + 1)) /\ new.noFix = kml.noFix
    BY <1>1, <2>1 DEF KmlStates
  <2>3. Fixed(m) \in SUBSET (1 .. m) /\ \A k \in Fixed(m) : Parses(file[k])
    BY DEF Fixed, Good
  <2>4. TableOf(AddRecord(kml.pins, Rec(m + 1)), Fixed(m) \cup {m + 1})
    BY <1>3, <2>3, TableGrows DEF KmlSoFar
  <2>. QED
    BY <1>1, <1>3, <2>2, <2>4, LinesNext DEF KmlSoFar
<1>4. CASE Parses(file[m + 1]) /\ ~ HasFix(Rec(m + 1))
  <2>1. new = [kml EXCEPT !.noFix = @ + 1]
    BY <1>4 DEF KmlLine, Rec
  <2>2. new.pins = kml.pins /\ new.noFix = kml.noFix + 1
    BY <1>1, <2>1 DEF KmlStates
  <2>. QED
    BY <1>1, <1>4, <2>2, LinesNext DEF KmlSoFar
<1>. QED
  BY <1>2, <1>3, <1>4

LEMMA EmptyTable == TableOf(<<>>, {})
BY DEF TableOf

LEMMA MapIs ==
  ASSUME SurveyInv
  PROVE  KmlSoFar(Kml(file), Len(file))
<1>1. PICK out : KmlUnrolls(out)
  BY KmlUnrolled
<1>2. PICK n \in Nat : n = Len(file)
  BY DEF SurveyInv
<1>. DEFINE S == {m \in 0 .. n : KmlSoFar(out[m], m)}
<1>3. 0 \in S
  <2>1. Fixed(0) = {} /\ Unfixed(0) = {}
    BY DEF Fixed, Unfixed, Good
  <2>2. NoPins \in KmlStates /\ NoPins.pins = <<>> /\ NoPins.noFix = 0
    BY DEF NoPins, KmlStates
  <2>3. KmlSoFar(NoPins, 0)
    BY <2>1, <2>2, EmptyTable, FS_EmptySet DEF KmlSoFar
  <2>. QED
    BY <1>1, <2>3 DEF KmlUnrolls
<1>4. ASSUME NEW m \in 0 .. n - 1, m \in S
      PROVE  m + 1 \in S
  <2>1. out[m + 1] = KmlLine(out[m], file[m + 1]) /\ m + 1 \in 1 .. Len(file) /\ m \in Nat
    BY <1>1, <1>2 DEF KmlUnrolls
  <2>2. KmlSoFar(out[m + 1], m + 1)
    BY <1>4, <2>1, KmlNext
  <2>. QED
    BY <2>2
<1>5. n \in S
  <2>. HIDE DEF S
  <2>. QED
    BY <1>3, <1>4, CountUp
<1>. QED
  BY <1>1, <1>2, <1>5 DEF KmlUnrolls

(* A row has a fix where it is on Earth and not at 0, 0.                   *)
LEMMA FixIsPlace ==
  ASSUME NEW r \in Logged
  PROVE  HasFix(r) <=> PlaceOf(r) \in Places \ {Nowhere}
<1>1. PlaceOf(r) = Nowhere <=> r.lat = 0 /\ r.lon = 0
  BY DEF PlaceOf, Nowhere
<1>2. PlaceOf(r) \in Places \/ PlaceOf(r) = Nowhere
  BY DEF Logged, Known
<1>. QED
  BY <1>1, <1>2 DEF HasFix

LEMMA PlacedAre ==
  ASSUME SurveyInv, NEW mac
  PROVE  PlacedLines(mac) = Same(mac, Fixed(Len(file)))
<1>1. DOMAIN file = 1 .. Len(file)
  BY DEF SurveyInv
<1>2. ASSUME NEW k \in 1 .. Len(file), Parses(file[k])
      PROVE  HasFix(Rec(k)) <=> PlaceOf(ParseRow(file[k])) \in Places \ {[lat |-> 0, lon |-> 0]}
  BY <1>2, RecLogged, FixIsPlace DEF Rec, Nowhere
<1>. QED
  BY <1>1, <1>2 DEF PlacedLines, Same, Fixed, Good, Rec

LEMMA PinsTell == SurveyInv => PinsAreReal
<1>. SUFFICES ASSUME SurveyInv
              PROVE  PinsAreReal
  OBVIOUS
<1>. DEFINE pins == Placemarks(file)
<1>1. TableOf(pins, Fixed(Len(file)))
  BY MapIs DEF KmlSoFar, Placemarks
<1>. HIDE DEF pins
<1>2. ASSUME NEW i \in 1 .. Len(pins)
      PROVE  PlaceOf(pins[i]) \in Places
  <2>1. PICK first \in Fixed(Len(file)) : PlaceOf(pins[i]) = PlaceOf(Rec(first))
    BY <1>1 DEF TableOf, Summarises, Same
  <2>2. Rec(first) \in Logged /\ HasFix(Rec(first))
    BY <2>1, RecLogged DEF Fixed, Good
  <2>. QED
    BY <2>1, <2>2, FixIsPlace
<1>3. DOMAIN pins = 1 .. Len(pins)
  BY <1>1 DEF TableOf
<1>. QED
  BY <1>2, <1>3 DEF PinsAreReal, pins

(* A pin on the map is at one place that the GPS module reported with a    *)
(* fix, whatever bytes of its sentences were lost or damaged, unless a     *)
(* checksum was right by chance (gps_poll, kml_export_path).               *)
THEOREM PinsArePlaces == Spec => []PinsAreReal
<1>. QED
  BY SurveyAlways, PinsTell, PTL

LEMMA OnePinEach == SurveyInv => OnePinPerAp
<1>. SUFFICES ASSUME SurveyInv
              PROVE  OnePinPerAp
  OBVIOUS
<1>. DEFINE pins == Placemarks(file)
            F    == Fixed(Len(file))
<1>1. TableOf(pins, F)
  BY MapIs DEF KmlSoFar, Placemarks
<1>2. DOMAIN pins = 1 .. Len(pins)
  BY <1>1 DEF TableOf
<1>. HIDE DEF pins, F
<1>3. \A mac : PlacedLines(mac) = Same(mac, F)
  BY PlacedAre DEF F
<1>4. ASSUME NEW i \in 1 .. Len(pins)
      PROVE  \E first \in PlacedLines(pins[i].mac), best \in PlacedLines(pins[i].mac) :
               /\ PlaceOf(pins[i]) = PlaceOf(ParseRow(file[first]))
               /\ pins[i].rssi = ParseRow(file[best]).rssi
               /\ \A k \in PlacedLines(pins[i].mac) :
                    k >= first /\ ParseRow(file[k]).rssi <= pins[i].rssi
  BY <1>1, <1>3 DEF TableOf, Summarises, Rec
<1>5. ASSUME NEW mac, PlacedLines(mac) # {}
      PROVE  \E i \in 1 .. Len(pins) : pins[i].mac = mac
  <2>1. PICK k \in F : Rec(k).mac = mac
    BY <1>3, <1>5 DEF Same
  <2>. QED
    BY <1>1, <2>1 DEF TableOf
<1>6. \A i, j \in DOMAIN pins : pins[i].mac = pins[j].mac => i = j
  BY <1>1, <1>2 DEF TableOf
<1>7. \A i \in DOMAIN pins : PlacedLines(pins[i].mac) # {}
  BY <1>2, <1>4
<1>8. ASSUME NEW mac \in {ap.mac : ap \in Aps}, PlacedLines(mac) # {}
      PROVE  \E i \in DOMAIN pins, first \in PlacedLines(mac), best \in PlacedLines(mac) :
               /\ pins[i].mac = mac
               /\ PlaceOf(pins[i]) = PlaceOf(ParseRow(file[first]))
               /\ pins[i].rssi = ParseRow(file[best]).rssi
               /\ \A k \in PlacedLines(mac) :
                    k >= first /\ ParseRow(file[k]).rssi <= pins[i].rssi
  <2>1. PICK i \in 1 .. Len(pins) : pins[i].mac = mac
    BY <1>5, <1>8
  <2>. QED
    BY <1>2, <1>4, <2>1
<1>. QED
  BY <1>6, <1>7, <1>8 DEF OnePinPerAp, pins

(* kml_export.h:20-22: the map has exactly one pin for each access point   *)
(* that was logged with a fix, at its first place, with its best signal.   *)
THEOREM MapIsComplete == Spec => []OnePinPerAp
<1>. QED
  BY SurveyAlways, OnePinEach, PTL

-----------------------------------------------------------------------------
(* The report.                                                             *)

Spans == {s \in Seq(Int) : s = <<>> \/ Len(s) = 2}

TallyStates ==
  [rows : Nat, bad : Nat, fixed : Nat, obs : [Channels -> Nat], lat : Spans, lon : Spans,
   aps : Seq(Logged)]

TallyUnrolls(out) ==
  /\ out[0] = NoLines
  /\ \A m \in 0 .. Len(file) - 1 : out[m + 1] = ReportLine(out[m], file[m + 1])
  /\ Tally(file) = out[Len(file)]

(* A span widened by x holds x and all it held.                            *)
LEMMA WidenedHolds ==
  ASSUME NEW span \in Spans, NEW x \in Int
  PROVE  /\ Widened(span, x) \in Spans
         /\ Between(x, Widened(span, x))
         /\ \A y \in Int : Between(y, span) => Between(y, Widened(span, x))
<1>1. CASE span = <<>>
  <2>1. Widened(span, x) = <<x, x>>
    BY <1>1 DEF Widened
  <2>2. <<x, x>> \in Seq(Int) /\ Len(<<x, x>>) = 2 /\ <<x, x>> # <<>>
        /\ <<x, x>>[1] = x /\ <<x, x>>[2] = x /\ x <= x
    OBVIOUS
  <2>3. \A y : ~ Between(y, span)
    BY <1>1 DEF Between
  <2>. QED
    BY <2>1, <2>2, <2>3 DEF Spans, Between
<1>2. CASE span # <<>>
  <2>. DEFINE a == IF x < span[1] THEN x ELSE span[1]
              b == IF x > span[2] THEN x ELSE span[2]
  <2>1. span[1] \in Int /\ span[2] \in Int
    BY <1>2 DEF Spans
  <2>2. /\ a \in Int /\ b \in Int /\ a <= x /\ x <= b
        /\ \A y \in Int : span[1] <= y /\ y <= span[2] => a <= y /\ y <= b
    BY <2>1
  <2>3. Widened(span, x) = <<a, b>>
    BY <1>2, Zenon DEF Widened
  <2>. HIDE DEF a, b
  <2>4. <<a, b>> \in Spans /\ <<a, b>> # <<>> /\ <<a, b>>[1] = a /\ <<a, b>>[2] = b
    BY <2>2 DEF Spans
  <2>. QED
    BY <1>2, <2>2, <2>3, <2>4 DEF Between
<1>. QED
  BY <1>1, <1>2

LEMMA TallyUpdates ==
  ASSUME NEW t \in TallyStates
  PROVE  /\ \A a, b \in Nat : [t EXCEPT !.rows = a, !.bad = b] \in TallyStates
         /\ \A a \in Nat, o \in [Channels -> Nat], aps \in Seq(Logged) :
              [t EXCEPT !.rows = a, !.obs = o, !.aps = aps] \in TallyStates
         /\ \A a \in Nat, x, y \in Spans :
              [t EXCEPT !.fixed = a, !.lat = x, !.lon = y] \in TallyStates
<1>1. ASSUME NEW a \in Nat, NEW b \in Nat
      PROVE  [t EXCEPT !.rows = a, !.bad = b] \in TallyStates
  BY Zenon DEF TallyStates
<1>2. ASSUME NEW a \in Nat, NEW o \in [Channels -> Nat], NEW aps \in Seq(Logged)
      PROVE  [t EXCEPT !.rows = a, !.obs = o, !.aps = aps] \in TallyStates
  BY Zenon DEF TallyStates
<1>3. ASSUME NEW a \in Nat, NEW x \in Spans, NEW y \in Spans
      PROVE  [t EXCEPT !.fixed = a, !.lat = x, !.lon = y] \in TallyStates
  BY Zenon DEF TallyStates
<1>. QED
  BY <1>1, <1>2, <1>3, Zenon

LEMMA NothingTallied == NoLines \in TallyStates
BY DEF NoLines, TallyStates, Spans

(* What a line does to each part of the tally.                             *)
LEMMA ReportLineDoes ==
  ASSUME SurveyInv, NEW k \in 1 .. Len(file), NEW t \in TallyStates
  PROVE  LET new == ReportLine(t, file[k])
             hit == Parses(file[k])
             fix == HasFix(Rec(k))
         IN  /\ new \in TallyStates
             /\ new.rows = t.rows + 1
             /\ new.bad = IF hit THEN t.bad ELSE t.bad + 1
             /\ new.fixed = IF hit /\ fix THEN t.fixed + 1 ELSE t.fixed
             /\ new.lat = IF hit /\ fix THEN Widened(t.lat, Rec(k).lat) ELSE t.lat
             /\ new.lon = IF hit /\ fix THEN Widened(t.lon, Rec(k).lon) ELSE t.lon
             /\ new.aps = IF hit THEN AddRecord(t.aps, Rec(k)) ELSE t.aps
             /\ \A c \in Channels : new.obs[c] \in Nat /\ new.obs[c] <= t.obs[c] + 1
<1>. DEFINE new == ReportLine(t, file[k])
            r   == Rec(k)
            obs == [c \in Channels |-> IF c = r.channel THEN t.obs[c] + 1 ELSE t.obs[c]]
            good == [t EXCEPT !.rows = @ + 1, !.obs = obs, !.aps = AddRecord(@, r)]
<1>1. obs \in [Channels -> Nat] /\ \A c \in Channels : obs[c] <= t.obs[c] + 1
  BY DEF TallyStates
<1>2. CASE ~ Parses(file[k])
  <2>1. new = [t EXCEPT !.rows = @ + 1, !.bad = @ + 1]
    BY <1>2 DEF ReportLine
  <2>. HIDE DEF new
  <2>2. /\ new.rows = t.rows + 1 /\ new.bad = t.bad + 1 /\ new.fixed = t.fixed
        /\ new.lat = t.lat /\ new.lon = t.lon /\ new.aps = t.aps /\ new.obs = t.obs
    BY <2>1 DEF TallyStates
  <2>3. t.rows + 1 \in Nat /\ t.bad + 1 \in Nat
    BY DEF TallyStates
  <2>4. new \in TallyStates
    BY <2>1, <2>3, TallyUpdates
  <2>5. \A c \in Channels : new.obs[c] \in Nat /\ new.obs[c] <= t.obs[c] + 1
    BY <2>2 DEF TallyStates
  <2>. QED
    BY <1>2, <2>2, <2>4, <2>5 DEF new
<1>3. CASE Parses(file[k])
  <2>1. r \in Logged /\ r.lat \in Int /\ r.lon \in Int /\ AddRecord(t.aps, r) \in Seq(Logged)
    <3>1. r \in Logged
      BY <1>3, RecLogged
    <3>2. r.lat \in Int /\ r.lon \in Int
      BY <3>1 DEF Logged
    <3>3. t.aps \in Seq(Logged)
      BY DEF TallyStates
    <3>. HIDE DEF r
    <3>. QED
      BY <3>1, <3>2, <3>3, AddType
  <2>2. Widened(t.lat, r.lat) \in Spans /\ Widened(t.lon, r.lon) \in Spans
    <3>1. t.lat \in Spans /\ t.lon \in Spans
      BY DEF TallyStates
    <3>. QED
      BY <2>1, <3>1, WidenedHolds
  <2>. HIDE DEF obs
  <2>3. /\ good \in TallyStates
        /\ good.rows = t.rows + 1 /\ good.bad = t.bad /\ good.fixed = t.fixed
        /\ good.obs = obs /\ good.lat = t.lat /\ good.lon = t.lon
        /\ good.aps = AddRecord(t.aps, r)
    <3>. DEFINE aps == AddRecord(t.aps, r)
    <3>1. aps \in Seq(Logged) /\ t.rows + 1 \in Nat
      BY <2>1 DEF TallyStates
    <3>. HIDE DEF r, aps
    <3>2. good = [t EXCEPT !.rows = t.rows + 1, !.obs = obs, !.aps = aps]
      BY DEF aps
    <3>3. good \in TallyStates
      BY <1>1, <3>1, <3>2, TallyUpdates
    <3>4. /\ good.rows = t.rows + 1 /\ good.bad = t.bad /\ good.fixed = t.fixed
          /\ good.obs = obs /\ good.lat = t.lat /\ good.lon = t.lon /\ good.aps = aps
      <4>. HIDE DEF good
      <4>. QED
        BY <3>2 DEF TallyStates
    <3>. QED
      BY <3>3, <3>4 DEF aps
  <2>4. CASE ~ HasFix(r)
    <3>1. new = good
      BY <1>3, <2>4, Zenon DEF ReportLine, Rec, obs
    <3>. QED
      BY <1>1, <1>3, <2>3, <2>4, <3>1
  <2>5. CASE HasFix(r)
    <3>. DEFINE full == [good EXCEPT !.fixed = @ + 1, !.lat = Widened(@, r.lat),
                           !.lon = Widened(@, r.lon)]
    <3>1. new = full
      BY <1>3, <2>5, Zenon DEF ReportLine, Rec, obs
    <3>2. /\ full \in TallyStates
          /\ full.rows = t.rows + 1 /\ full.bad = t.bad /\ full.fixed = t.fixed + 1
          /\ full.obs = obs /\ full.lat = Widened(t.lat, r.lat)
          /\ full.lon = Widened(t.lon, r.lon) /\ full.aps = AddRecord(t.aps, r)
      <4>. DEFINE x == Widened(t.lat, r.lat)
                  y == Widened(t.lon, r.lon)
      <4>1. x \in Spans /\ y \in Spans /\ t.fixed + 1 \in Nat
        BY <2>2 DEF TallyStates
      <4>. HIDE DEF r, good
      <4>2. full = [good EXCEPT !.fixed = t.fixed + 1, !.lat = x, !.lon = y]
        BY <2>3
      <4>. HIDE DEF x, y, full
      <4>3. full \in TallyStates
        BY <2>3, <4>1, <4>2, TallyUpdates
      <4>4. /\ full.rows = t.rows + 1 /\ full.bad = t.bad /\ full.fixed = t.fixed + 1
            /\ full.obs = obs /\ full.lat = x /\ full.lon = y
            /\ full.aps = AddRecord(t.aps, r)
        BY <2>3, <4>2 DEF TallyStates
      <4>. QED
        BY <4>3, <4>4 DEF x, y
    <3>. HIDE DEF full, good, r
    <3>3. \A c \in Channels : full.obs[c] \in Nat /\ full.obs[c] <= t.obs[c] + 1
      BY <1>1, <3>2
    <3>. QED
      BY <1>3, <2>5, <3>1, <3>2, <3>3 DEF r
  <2>. QED
    BY <2>4, <2>5
<1>. QED
  BY <1>2, <1>3

LEMMA TallyUnrolled ==
  ASSUME SurveyInv
  PROVE  \E out : TallyUnrolls(out)
<1>. DEFINE n == Len(file)
            V == TallyStates
            g == [p \in (1 .. n) \X V |-> ReportLine(p[2], file[p[1]])]
            Recursion(F) ==
              F = [s \in SUBSET (1 .. n) |->
                     IF s = {} THEN NoLines ELSE ReportLine(F[s \ {Max(s)}], file[Max(s)])]
            C == CHOOSE F : Recursion(F)
            out == [m \in 0 .. n |-> C[1 .. m]]
<1>1. n \in Nat /\ DOMAIN file = 1 .. n
  BY DEF SurveyInv
<1>2. g \in [(1 .. n) \X V -> V]
  BY ReportLineDoes
<1>3. Tally(file) = C[1 .. n]
  BY <1>1, Zenon DEF Tally, FoldLeft, MapThenFoldSet
<1>4. PICK F \in [SUBSET (1 .. n) -> V] : Folds(F, n, NoLines, g)
  <2>1. NoLines \in V
    BY NothingTallied
  <2>. HIDE DEF g, V, n
  <2>. QED
    BY <1>1, <1>2, <2>1, FoldExists
<1>5. Recursion(F)
  <2>1. ASSUME NEW s \in SUBSET (1 .. n), s # {}
        PROVE  F[s] = ReportLine(F[s \ {Max(s)}], file[Max(s)])
    <3>1. Max(s) \in 1 .. n /\ F[s \ {Max(s)}] \in V
      <4>. HIDE DEF V, n
      <4>. QED
        BY <1>1, <2>1, MaxIn
    <3>2. <<Max(s), F[s \ {Max(s)}]>> \in (1 .. n) \X V
      BY <3>1
    <3>. QED
      BY <1>4, <2>1, <3>1, <3>2 DEF Folds
  <2>2. \A s \in SUBSET (1 .. n) :
          F[s] = IF s = {} THEN NoLines ELSE ReportLine(F[s \ {Max(s)}], file[Max(s)])
    BY <1>4, <2>1 DEF Folds
  <2>. QED
    BY <2>2
<1>6. Recursion(C)
  <2>. HIDE DEF Recursion
  <2>. QED
    BY <1>5, Zenon
<1>. HIDE DEF C, n
<1>7. C[1 .. 0] = NoLines
  BY <1>6
<1>8. ASSUME NEW m \in 0 .. n - 1
      PROVE  C[1 .. m + 1] = ReportLine(C[1 .. m], file[m + 1])
  <2>1. m \in Nat /\ 1 .. m + 1 \in SUBSET (1 .. n)
    BY <1>1
  <2>2. 1 .. m + 1 # {} /\ Max(1 .. m + 1) = m + 1 /\ (1 .. m + 1) \ {m + 1} = 1 .. m
    BY <2>1, LastTo
  <2>. QED
    BY <1>6, <2>1, <2>2
<1>. QED
  <2>1. /\ \A m \in 0 .. n : out[m] = C[1 .. m]
        /\ 0 \in 0 .. n /\ n \in 0 .. n
        /\ \A m \in 0 .. n - 1 : m \in 0 .. n /\ m + 1 \in 0 .. n
    BY <1>1
  <2>. HIDE DEF out
  <2>. QED
    BY <1>3, <1>7, <1>8, <2>1 DEF TallyUnrolls, n

(* The tally of the first m lines.                                         *)
TallySoFar(t, m) ==
  /\ t \in TallyStates
  /\ t.rows = m
  /\ t.rows - t.fixed - t.bad = Cardinality(Unfixed(m))
  /\ TableOf(t.aps, Good(m))
  /\ \A k \in Fixed(m) : Between(Rec(k).lat, t.lat) /\ Between(Rec(k).lon, t.lon)
  /\ \A c \in Channels : t.obs[c] <= m

LEMMA TallyNext ==
  ASSUME SurveyInv, NEW m \in Nat, m + 1 \in 1 .. Len(file), NEW t, TallySoFar(t, m)
  PROVE  TallySoFar(ReportLine(t, file[m + 1]), m + 1)
<1>. DEFINE new == ReportLine(t, file[m + 1])
            hit == Parses(file[m + 1])
            fix == HasFix(Rec(m + 1))
<1>1. t \in TallyStates
  BY DEF TallySoFar
<1>2. /\ new \in TallyStates
      /\ new.rows = t.rows + 1
      /\ new.bad = IF hit THEN t.bad ELSE t.bad + 1
      /\ new.fixed = IF hit /\ fix THEN t.fixed + 1 ELSE t.fixed
      /\ new.lat = IF hit /\ fix THEN Widened(t.lat, Rec(m + 1).lat) ELSE t.lat
      /\ new.lon = IF hit /\ fix THEN Widened(t.lon, Rec(m + 1).lon) ELSE t.lon
      /\ new.aps = IF hit THEN AddRecord(t.aps, Rec(m + 1)) ELSE t.aps
      /\ \A c \in Channels : new.obs[c] \in Nat /\ new.obs[c] <= t.obs[c] + 1
  BY <1>1, ReportLineDoes
<1>. HIDE DEF new
<1>3. t.lat \in Spans /\ t.lon \in Spans
  BY <1>1 DEF TallyStates
<1>4. new.rows - new.fixed - new.bad = Cardinality(Unfixed(m + 1))
  <2>. DEFINE u == Cardinality(Unfixed(m))
  <2>0. t.rows \in Nat /\ t.bad \in Nat /\ t.fixed \in Nat
    BY <1>1 DEF TallyStates
  <2>1. /\ u \in Nat /\ t.rows - t.fixed - t.bad = u
        /\ Cardinality(Unfixed(m + 1)) = IF hit /\ ~ fix THEN u + 1 ELSE u
    BY LinesNext DEF TallySoFar
  <2>2. CASE hit /\ fix
    <3>1. new.fixed = t.fixed + 1 /\ new.bad = t.bad /\ new.rows = t.rows + 1
      BY <1>2, <2>2
    <3>. QED
      BY <2>0, <2>1, <2>2, <3>1, SMTT(30)
  <2>3. CASE hit /\ ~ fix
    <3>1. new.fixed = t.fixed /\ new.bad = t.bad /\ new.rows = t.rows + 1
      BY <1>2, <2>3
    <3>. QED
      BY <2>0, <2>1, <2>3, <3>1, SMTT(30)
  <2>4. CASE ~ hit
    <3>1. new.fixed = t.fixed /\ new.bad = t.bad + 1 /\ new.rows = t.rows + 1
      BY <1>2, <2>4
    <3>. QED
      BY <2>0, <2>1, <2>4, <3>1, SMTT(30)
  <2>. QED
    BY <2>2, <2>3, <2>4
<1>5. TableOf(new.aps, Good(m + 1))
  <2>1. CASE hit
    <3>1. Good(m) \in SUBSET (1 .. m) /\ \A k \in Good(m) : Parses(file[k])
      BY DEF Good
    <3>2. TableOf(AddRecord(t.aps, Rec(m + 1)), Good(m) \cup {m + 1})
      BY <2>1, <3>1, TableGrows DEF TallySoFar
    <3>. QED
      BY <1>2, <2>1, <3>2, LinesNext
  <2>2. CASE ~ hit
    BY <1>2, <2>2, LinesNext DEF TallySoFar
  <2>. QED
    BY <2>1, <2>2
<1>6. ASSUME NEW k \in Fixed(m + 1)
      PROVE  Between(Rec(k).lat, new.lat) /\ Between(Rec(k).lon, new.lon)
  <2>1. k \in 1 .. Len(file) /\ Parses(file[k])
    BY <1>6 DEF Fixed, Good, SurveyInv
  <2>2. Rec(k).lat \in Int /\ Rec(k).lon \in Int
    BY <2>1, RecLogged DEF Logged
  <2>3. CASE hit /\ fix
    <3>1. Rec(m + 1).lat \in Int /\ Rec(m + 1).lon \in Int
      BY <2>3, RecLogged DEF Logged
    <3>2. CASE k = m + 1
      BY <1>2, <1>3, <2>3, <3>1, <3>2, WidenedHolds
    <3>3. CASE k \in Fixed(m)
      <4>1. Between(Rec(k).lat, t.lat) /\ Between(Rec(k).lon, t.lon)
        BY <3>3 DEF TallySoFar
      <4>. QED
        BY <1>2, <1>3, <2>2, <2>3, <3>1, <4>1, WidenedHolds
    <3>. QED
      BY <1>6, <2>3, <3>2, <3>3, LinesNext
  <2>4. CASE ~(hit /\ fix)
    <3>1. k \in Fixed(m)
      BY <1>6, <2>4, LinesNext
    <3>. QED
      BY <1>2, <2>4, <3>1 DEF TallySoFar
  <2>. QED
    BY <2>3, <2>4
<1>7. ASSUME NEW c \in Channels
      PROVE  new.obs[c] <= m + 1
  <2>1. t.obs[c] \in Nat /\ t.obs[c] <= m
    BY <1>1 DEF TallyStates, TallySoFar
  <2>. QED
    BY <1>2, <2>1
<1>8. new.rows = m + 1
  BY <1>2 DEF TallySoFar
<1>. QED
  BY <1>2, <1>4, <1>5, <1>6, <1>7, <1>8 DEF TallySoFar, new

LEMMA TallyIs ==
  ASSUME SurveyInv
  PROVE  TallySoFar(Tally(file), Len(file))
<1>1. PICK out : TallyUnrolls(out)
  BY TallyUnrolled
<1>2. PICK n \in Nat : n = Len(file)
  BY DEF SurveyInv
<1>. DEFINE S == {m \in 0 .. n : TallySoFar(out[m], m)}
<1>3. 0 \in S
  <2>1. Fixed(0) = {} /\ Unfixed(0) = {} /\ Good(0) = {}
    BY DEF Fixed, Unfixed, Good
  <2>2. /\ NoLines \in TallyStates /\ NoLines.aps = <<>>
        /\ NoLines.rows = 0 /\ NoLines.fixed = 0 /\ NoLines.bad = 0
        /\ \A c \in Channels : NoLines.obs[c] = 0
    BY NothingTallied DEF NoLines
  <2>3. NoLines.rows - NoLines.fixed - NoLines.bad = Cardinality(Unfixed(0))
    <3>1. Cardinality(Unfixed(0)) = 0
      BY <2>1, FS_EmptySet, Zenon
    <3>2. 0 - 0 - 0 = 0
      OBVIOUS
    <3>. QED
      BY <2>2, <3>1, <3>2, Zenon
  <2>4. TallySoFar(NoLines, 0)
    <3>1. TableOf(NoLines.aps, Good(0))
      BY <2>1, <2>2, EmptyTable, Zenon
    <3>2. \A c \in Channels : NoLines.obs[c] <= 0
      BY <2>2
    <3>. QED
      BY <2>1, <2>2, <2>3, <3>1, <3>2, Zenon DEF TallySoFar
  <2>. QED
    BY <1>1, <2>4 DEF TallyUnrolls
<1>4. ASSUME NEW m \in 0 .. n - 1, m \in S
      PROVE  m + 1 \in S
  <2>1. out[m + 1] = ReportLine(out[m], file[m + 1]) /\ m + 1 \in 1 .. Len(file) /\ m \in Nat
    BY <1>1, <1>2 DEF TallyUnrolls
  <2>2. TallySoFar(out[m + 1], m + 1)
    BY <1>4, <2>1, TallyNext
  <2>. QED
    BY <2>2
<1>5. n \in S
  <2>. HIDE DEF S
  <2>. QED
    BY <1>3, <1>4, CountUp
<1>. QED
  BY <1>1, <1>2, <1>5 DEF TallyUnrolls

(* qsort's result holds the table's records, each once, the strongest      *)
(* first.                                                                  *)
SortOf(q, aps) ==
  /\ \A ap \in ToSet(aps) : \E i \in DOMAIN q : q[i] = ap
  /\ \A i, j \in DOMAIN q : i < j => q[i].rssi >= q[j].rssi

LEMMA SortedIs ==
  ASSUME NEW aps \in Seq(Logged),
         \A i, j \in 1 .. Len(aps) : aps[i].mac = aps[j].mac => i = j
  PROVE  LET q == Sorted(aps)
         IN  /\ q \in [1 .. Len(aps) -> ToSet(aps)] /\ SortOf(q, aps)
             /\ \A i, j \in DOMAIN q : q[i].mac = q[j].mac => i = j
<1>1. PICK n \in Nat : n = Len(aps)
  OBVIOUS
<1>2. /\ DOMAIN aps = 1 .. n /\ ToSet(aps) = {aps[i] : i \in 1 .. n}
      /\ \A i \in 1 .. n : aps[i] \in Logged /\ aps[i].rssi \in Int
  <2>1. DOMAIN aps = 1 .. n /\ \A i \in 1 .. n : aps[i] \in Logged
    BY <1>1
  <2>2. \A r \in Logged : r.rssi \in Int
    BY PipelineAssumption DEF Logged
  <2>. QED
    BY <2>1, <2>2 DEF ToSet
<1>. DEFINE key == [i \in 1 .. n |-> aps[i].rssi]
<1>3. PICK p \in [1 .. n -> 1 .. n] :
        /\ \A i \in 1 .. n : \E j \in 1 .. n : p[j] = i
        /\ \A i, j \in 1 .. n : i < j => key[p[i]] >= key[p[j]]
  <2>1. key \in [1 .. n -> Int]
    BY <1>2
  <2>. HIDE DEF key
  <2>. QED
    BY <2>1, SortingExists
<1>. DEFINE s == [i \in 1 .. n |-> aps[p[i]]]
            T == ToSet(aps)
            q == Sorted(aps)
<1>4. s \in [1 .. n -> T] /\ SortOf(s, aps)
  <2>1. s \in [1 .. n -> T]
    BY <1>2
  <2>2. ASSUME NEW ap \in T
        PROVE  \E i \in 1 .. n : s[i] = ap
    BY <1>2, <1>3
  <2>3. \A i, j \in 1 .. n : i < j => s[i].rssi >= s[j].rssi
    BY <1>3
  <2>. QED
    BY <2>1, <2>2, <2>3 DEF SortOf
<1>5. q \in [1 .. n -> T] /\ SortOf(q, aps)
  <2>1. q = CHOOSE x \in [1 .. n -> T] : SortOf(x, aps)
    BY <1>2, Zenon DEF Sorted, SortOf
  <2>. HIDE DEF q, s, T
  <2>. QED
    BY <1>4, <2>1, Zenon
<1>6. Cardinality(T) = n
  <2>1. IsFiniteSet(1 .. n) /\ Cardinality(1 .. n) = n
    BY CountTo
  <2>2. \A i, j \in 1 .. n : aps[i] = aps[j] => i = j
    BY <1>1
  <2>3. Cardinality({aps[i] : i \in 1 .. n}) = n
    BY <2>1, <2>2, ImageCount
  <2>. QED
    BY <1>2, <2>3
<1>. HIDE DEF q, s
<1>7. \A i, j \in 1 .. n : q[i] = q[j] => i = j
  <2>1. q \in [1 .. n -> T] /\ \A e \in T : \E i \in 1 .. n : q[i] = e
    BY <1>5 DEF SortOf
  <2>. HIDE DEF T
  <2>. QED
    <3>1. q \in Surjection(1 .. n, T)
      BY <2>1, Zenon DEF Surjection
    <3>2. IsFiniteSet(1 .. n) /\ Cardinality(1 .. n) = n
      BY CountTo
    <3>3. q \in Injection(1 .. n, T)
      BY <1>6, <3>1, <3>2, FS_SurjSameCardinalityImpliesInj
    <3>. QED
      BY <3>3, Zenon DEF Injection, IsInjective
<1>8. ASSUME NEW i \in 1 .. n, NEW j \in 1 .. n, q[i].mac = q[j].mac
      PROVE  i = j
  <2>1. PICK a \in 1 .. n, b \in 1 .. n : q[i] = aps[a] /\ q[j] = aps[b]
    <3>1. q[i] \in T /\ q[j] \in T
      <4>. HIDE DEF T, key
      <4>. QED
        BY <1>5
    <3>2. T = {aps[k] : k \in 1 .. n}
      BY <1>2
    <3>. HIDE DEF T, key
    <3>. QED
      BY <3>1, <3>2
  <2>2. a = b
    BY <1>1, <1>8, <2>1
  <2>. QED
    BY <1>7, <2>1, <2>2
<1>. QED
  <2>1. DOMAIN q = 1 .. n
    BY <1>5
  <2>. QED
    BY <1>1, <1>5, <1>8, <2>1 DEF q

(* The five passes over a histogram with at most N rows in any channel.    *)
Histograms(N) == [Channels -> 0 .. N]

Heaps(N) == [top : Seq(Channels), obs : Histograms(N)]

LEMMA BusiestIs ==
  ASSUME NEW N \in Nat, NEW obs \in Histograms(N), Channels # {}
  PROVE  /\ Busiest(obs) \in Channels
         /\ \A d \in Channels : obs[d] <= obs[Busiest(obs)]
<1>1. Channels \in SUBSET Nat /\ \A c \in Channels : obs[c] \in 0 .. N
  BY ChannelsAssumption DEF Histograms
<1>. DEFINE gaps == {N - obs[c] : c \in Channels}
<1>2. PICK c0 \in Channels : \A d \in Channels : obs[d] <= obs[c0]
  <2>1. gaps \in SUBSET Nat /\ gaps # {}
    <3>1. \A c \in Channels : N - obs[c] \in Nat
      BY <1>1
    <3>. QED
      BY <3>1
  <2>2. PICK gap \in gaps : \A x \in gaps : gap <= x
    <3>. HIDE DEF gaps
    <3>. QED
      BY <2>1, LeastNatural
  <2>3. PICK c \in Channels : gap = N - obs[c]
    BY <2>2
  <2>4. \A d \in Channels : N - obs[c] <= N - obs[d]
    BY <2>2, <2>3
  <2>. QED
    BY <1>1, <2>4
<1>. DEFINE most == {c \in Channels : obs[c] = obs[c0]}
<1>3. PICK best \in most : \A c \in most : best <= c
  <2>1. most \in SUBSET Nat /\ most # {}
    BY <1>1
  <2>. HIDE DEF most
  <2>. QED
    BY <2>1, LeastNatural
<1>. DEFINE Wins(c) == \A d \in Channels : obs[c] > obs[d] \/ (obs[c] = obs[d] /\ c <= d)
<1>4. best \in Channels /\ Wins(best)
  BY <1>1, <1>2, <1>3
<1>5. Busiest(obs) = CHOOSE c \in Channels : Wins(c)
  BY Zenon DEF Busiest
<1>6. Busiest(obs) \in Channels /\ Wins(Busiest(obs))
  <2>. HIDE DEF Wins
  <2>. QED
    BY <1>4, <1>5, Zenon
<1>. DEFINE first == Busiest(obs)
<1>. HIDE DEF first
<1>7. ASSUME NEW d \in Channels
      PROVE  obs[d] <= obs[first]
  <2>1. first \in Channels /\ (obs[first] > obs[d] \/ obs[first] = obs[d])
    BY <1>6 DEF first
  <2>2. obs[first] \in 0 .. N /\ obs[d] \in 0 .. N
    BY <1>1, <2>1
  <2>. QED
    BY <2>1, <2>2
<1>. QED
  BY <1>6, <1>7 DEF first

Passes == <<1, 2, 3, 4, 5>>

(* What has been printed is distinct, and dropped from the histogram.      *)
Dropped(h) ==
  /\ \A i \in 1 .. Len(h.top) : h.obs[h.top[i]] = 0
  /\ \A i, j \in 1 .. Len(h.top) : h.top[i] = h.top[j] => i = j

LEMMA PassDrops ==
  ASSUME NEW N \in Nat, NEW h \in Heaps(N), NEW k
  PROVE  /\ ChannelPass(h, k) \in Heaps(N)
         /\ Dropped(h) => Dropped(ChannelPass(h, k))
<1>1. CASE \A c \in Channels : h.obs[c] = 0
  BY <1>1 DEF ChannelPass
<1>2. CASE \E c \in Channels : h.obs[c] # 0
  <2>. DEFINE best == Busiest(h.obs)
              top  == Append(h.top, best)
              obs  == [h.obs EXCEPT ![best] = 0]
  <2>1. h.top \in Seq(Channels) /\ h.obs \in Histograms(N)
    BY DEF Heaps
  <2>2. best \in Channels /\ h.obs[best] # 0
    <3>1. PICK c \in Channels : h.obs[c] # 0
      BY <1>2
    <3>2. best \in Channels /\ h.obs[c] <= h.obs[best]
      BY <2>1, <3>1, BusiestIs
    <3>. QED
      BY <2>1, <3>1, <3>2 DEF Histograms
  <2>3. ChannelPass(h, k) = [top |-> top, obs |-> obs]
    BY <1>2, Zenon DEF ChannelPass
  <2>. HIDE DEF best
  <2>4. /\ top \in Seq(Channels) /\ Len(top) = Len(h.top) + 1 /\ Len(h.top) \in Nat
        /\ \A i \in 1 .. Len(h.top) : top[i] = h.top[i] /\ h.top[i] \in Channels
        /\ top[Len(h.top) + 1] = best
    BY <2>1, <2>2, AppendProperties
  <2>5. /\ obs \in Histograms(N) /\ obs[best] = 0
        /\ \A c \in Channels : h.obs[c] = 0 => obs[c] = 0
    BY <2>1, <2>2 DEF Histograms
  <2>. HIDE DEF top, obs
  <2>6. ASSUME Dropped(h)
        PROVE  Dropped([top |-> top, obs |-> obs])
    <3>1. \A i \in 1 .. Len(top) : i \in 1 .. Len(h.top) \/ i = Len(h.top) + 1
      BY <2>4
    <3>2. \A i \in 1 .. Len(h.top) : h.obs[h.top[i]] = 0 /\ h.top[i] # best
      BY <2>2, <2>6 DEF Dropped
    <3>3. \A i \in 1 .. Len(top) : obs[top[i]] = 0
      BY <2>4, <2>5, <3>1, <3>2
    <3>4. \A i, j \in 1 .. Len(top) : top[i] = top[j] => i = j
      BY <2>4, <2>6, <3>1, <3>2 DEF Dropped
    <3>. QED
      BY <3>3, <3>4 DEF Dropped
  <2>. QED
    BY <2>3, <2>4, <2>5, <2>6 DEF Heaps
<1>. QED
  BY <1>1, <1>2

LEMMA TopIsDistinct ==
  ASSUME NEW N \in Nat, NEW obs \in Histograms(N)
  PROVE  \A i, j \in DOMAIN TopChannels(obs) : TopChannels(obs)[i] = TopChannels(obs)[j] => i = j
<1>. DEFINE start == [top |-> <<>>, obs |-> obs]
            V == {h \in Heaps(N) : Dropped(h)}
            g == [p \in (1 .. 5) \X V |-> ChannelPass(p[2], Passes[p[1]])]
            Recursion(F) ==
              F = [s \in SUBSET (1 .. 5) |->
                     IF s = {} THEN start ELSE ChannelPass(F[s \ {Max(s)}], Passes[Max(s)])]
            C == CHOOSE F : Recursion(F)
<1>1. g \in [(1 .. 5) \X V -> V]
  BY PassDrops
<1>2. FoldLeft(ChannelPass, start, Passes) = C[1 .. 5]
  <2>1. DOMAIN Passes = 1 .. 5
    BY DEF Passes
  <2>. HIDE DEF start
  <2>. QED
    BY <2>1, Zenon DEF FoldLeft, MapThenFoldSet
<1>3. PICK F \in [SUBSET (1 .. 5) -> V] : Folds(F, 5, start, g)
  <2>1. start \in V
    BY DEF Heaps, Dropped
  <2>. HIDE DEF g, V, start
  <2>. QED
    BY <1>1, <2>1, FoldExists
<1>4. Recursion(F)
  <2>1. ASSUME NEW s \in SUBSET (1 .. 5), s # {}
        PROVE  F[s] = ChannelPass(F[s \ {Max(s)}], Passes[Max(s)])
    <3>1. Max(s) \in 1 .. 5 /\ F[s \ {Max(s)}] \in V
      <4>1. 5 \in Nat
        OBVIOUS
      <4>. HIDE DEF V
      <4>. QED
        BY <2>1, <4>1, MaxIn
    <3>2. <<Max(s), F[s \ {Max(s)}]>> \in (1 .. 5) \X V
      BY <3>1
    <3>. QED
      BY <1>3, <2>1, <3>1, <3>2 DEF Folds
  <2>2. \A s \in SUBSET (1 .. 5) :
          F[s] = IF s = {} THEN start ELSE ChannelPass(F[s \ {Max(s)}], Passes[Max(s)])
    <3>. HIDE DEF start
    <3>. QED
      BY <1>3, <2>1 DEF Folds
  <2>. HIDE DEF start
  <2>. QED
    BY <2>2
<1>. HIDE DEF start, V
<1>5. C[1 .. 5] \in V
  <2>1. Recursion(C)
    <3>. HIDE DEF Recursion
    <3>. QED
      BY <1>4, Zenon
  <2>. HIDE DEF C
  <2>. DEFINE S == {m \in 0 .. 5 : C[1 .. m] \in V}
  <2>2. 0 \in S
    <3>1. 1 .. 0 = {} /\ {} \in SUBSET (1 .. 5)
      OBVIOUS
    <3>2. F[{}] \in V /\ F[{}] = start
      <4>. HIDE DEF g
      <4>. QED
        BY <1>3, <3>1, Zenon DEF Folds
    <3>3. C[1 .. 0] = start
      BY <2>1, <3>1
    <3>. QED
      BY <3>2, <3>3
  <2>3. ASSUME NEW m \in 0 .. 5 - 1, m \in S
        PROVE  m + 1 \in S
    <3>1. m \in Nat /\ 1 .. m + 1 \in SUBSET (1 .. 5)
      OBVIOUS
    <3>2. 1 .. m + 1 # {} /\ Max(1 .. m + 1) = m + 1 /\ (1 .. m + 1) \ {m + 1} = 1 .. m
      BY <3>1, LastTo
    <3>3. C[1 .. m + 1] = ChannelPass(C[1 .. m], Passes[m + 1])
      BY <2>1, <3>1, <3>2
    <3>4. C[1 .. m + 1] \in V
      BY <2>3, <3>3, PassDrops DEF V
    <3>. QED
      BY <3>4
  <2>4. 5 \in S
    <3>. HIDE DEF S
    <3>1. 5 \in Nat /\ 5 \in 0 .. 5
      OBVIOUS
    <3>. QED
      BY <2>2, <2>3, <3>1, CountUp
  <2>. QED
    BY <2>4
<1>6. TopChannels(obs) = C[1 .. 5].top
  BY <1>2, Zenon DEF TopChannels, Passes, start
<1>. HIDE DEF C
<1>7. DOMAIN C[1 .. 5].top = 1 .. Len(C[1 .. 5].top)
  BY <1>5 DEF V, Heaps
<1>. QED
  BY <1>5, <1>6, <1>7 DEF V, Dropped

LEMMA ReportTells == SurveyInv => ReportAgrees
<1>. SUFFICES ASSUME SurveyInv
              PROVE  ReportAgrees
  OBVIOUS
<1>. DEFINE t    == Tally(file)
            r    == Report(file)
            pins == Placemarks(file)
            n    == Len(file)
<1>1. TallySoFar(t, n) /\ KmlSoFar(Kml(file), n) /\ n \in Nat /\ DOMAIN file = 1 .. n
  BY TallyIs, MapIs DEF SurveyInv
<1>2. /\ r.noFix = t.rows - t.fixed - t.bad /\ r.aps = Sorted(t.aps)
      /\ r.channels = TopChannels(t.obs) /\ r.lat = t.lat /\ r.lon = t.lon
  BY DEF Report
<1>. HIDE DEF t, r, n
<1>3. r.noFix = Kml(file).noFix
  BY <1>1, <1>2 DEF TallySoFar, KmlSoFar
<1>4. \A i, j \in DOMAIN r.channels : r.channels[i] = r.channels[j] => i = j
  <2>1. t.obs \in Histograms(n)
    BY <1>1 DEF TallySoFar, TallyStates, Histograms
  <2>. QED
    BY <1>1, <1>2, <2>1, TopIsDistinct
<1>5. /\ r.aps \in [1 .. Len(t.aps) -> ToSet(t.aps)] /\ SortOf(r.aps, t.aps)
      /\ \A i, j \in DOMAIN r.aps : r.aps[i].mac = r.aps[j].mac => i = j
  <2>1. /\ t.aps \in Seq(Logged)
        /\ \A i, j \in 1 .. Len(t.aps) : t.aps[i].mac = t.aps[j].mac => i = j
    BY <1>1 DEF TallySoFar, TableOf
  <2>. QED
    BY <1>2, <2>1, SortedIs
<1>6. \A i, j \in DOMAIN r.aps : i < j => r.aps[i].rssi >= r.aps[j].rssi
  BY <1>5 DEF SortOf
<1>7. ASSUME NEW k \in 1 .. n, Parses(file[k])
      PROVE  \E j \in DOMAIN r.aps : r.aps[j].mac = Rec(k).mac /\ r.aps[j].rssi >= Rec(k).rssi
  <2>1. k \in Good(n)
    BY <1>7 DEF Good
  <2>2. PICK i \in 1 .. Len(t.aps) : t.aps[i].mac = Rec(k).mac
    BY <1>1, <2>1 DEF TallySoFar, TableOf
  <2>3. Rec(k).rssi <= t.aps[i].rssi
    BY <1>1, <2>1, <2>2 DEF TallySoFar, TableOf, Summarises, Same
  <2>4. PICK j \in DOMAIN r.aps : r.aps[j] = t.aps[i]
    <3>1. t.aps[i] \in ToSet(t.aps)
      BY <1>1 DEF TallySoFar, TableOf, ToSet
    <3>. QED
      BY <1>5, <3>1 DEF SortOf
  <2>5. t.aps[i].rssi \in Int /\ Rec(k).rssi \in Int
    <3>1. t.aps[i] \in Logged /\ Rec(k) \in Logged
      BY <1>1, <1>7, RecLogged DEF TallySoFar, TableOf, n
    <3>. QED
      BY <3>1, PipelineAssumption DEF Logged
  <2>. QED
    BY <2>2, <2>3, <2>4, <2>5
<1>8. ASSUME NEW i \in 1 .. Len(pins)
      PROVE  /\ \E j \in DOMAIN r.aps :
                  r.aps[j].mac = pins[i].mac /\ r.aps[j].rssi >= pins[i].rssi
             /\ Between(pins[i].lat, r.lat) /\ Between(pins[i].lon, r.lon)
  <2>1. TableOf(pins, Fixed(n))
    BY <1>1 DEF KmlSoFar, Placemarks
  <2>. HIDE DEF pins
  <2>2. PICK first \in Fixed(n), best \in Fixed(n) :
          /\ Rec(best).mac = pins[i].mac /\ pins[i].rssi = Rec(best).rssi
          /\ PlaceOf(pins[i]) = PlaceOf(Rec(first))
    BY <2>1 DEF TableOf, Summarises, Same
  <2>3. best \in 1 .. n /\ Parses(file[best])
    BY DEF Fixed, Good
  <2>4. \E j \in DOMAIN r.aps : r.aps[j].mac = pins[i].mac /\ r.aps[j].rssi >= pins[i].rssi
    BY <1>7, <2>2, <2>3
  <2>5. pins[i].lat = Rec(first).lat /\ pins[i].lon = Rec(first).lon
    BY <2>2 DEF PlaceOf
  <2>. QED
    BY <1>1, <1>2, <2>4, <2>5 DEF TallySoFar
<1>9. DOMAIN pins = 1 .. Len(pins)
  BY <1>1 DEF KmlSoFar, TableOf, Placemarks
<1>. QED
  BY <1>1, <1>3, <1>4, <1>5, <1>6, <1>7, <1>8, <1>9 DEF ReportAgrees, r, Rec

(* The report of a session and its map tell of the same rows: what has no  *)
(* fix, which access points, how strong and how far apart                  *)
(* (report_export_path, kml_export_path).                                  *)
THEOREM ReportMatchesMap == Spec => []ReportAgrees
<1>. QED
  BY SurveyAlways, ReportTells, PTL

=============================================================================
