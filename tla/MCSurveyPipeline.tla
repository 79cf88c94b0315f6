-------------------------- MODULE MCSurveyPipeline --------------------------
(* The module reports a place on the equator, or its last place without a  *)
(* fix.  The latter can be damaged to say a fix, and another longitude or  *)
(* none, with a checksum that is right by chance.  Two access points, one  *)
(* of each band.                                                           *)
EXTENDS SurveyPipeline

MCEquator == [lat |-> 0, lon |-> 7]
MCOld == [lat |-> 5, lon |-> 2]
MCDamage == [lat |-> 5, lon |-> 3]

MCSentences ==
  {[fix |-> TRUE, place |-> MCEquator, sum |-> 1],
   [fix |-> FALSE, place |-> MCOld, sum |-> 2]}

MCDamaged ==
  {[fix |-> TRUE, place |-> MCDamage, sum |-> 2],
   [fix |-> TRUE, place |-> NoPlace, sum |-> 2]}

MCAps ==
  {[mac |-> Text("a"), ssid |-> Text("x"), auth |-> Text("open"), channel |-> 6],
   [mac |-> Text("b"), ssid |-> Text("x"), auth |-> Text("wpa2"), channel |-> 36]}

MCRssis == {-40, -70}
MCChannels == {1, 6, 36}

=============================================================================
