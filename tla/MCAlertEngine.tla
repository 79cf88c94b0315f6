--------------------------- MODULE MCAlertEngine ---------------------------
(* Lists of up to two SSID and BSSID targets, edited once while they are   *)
(* walked; an access point whose name is the head of one target and the    *)
(* tail of the other, one that is a target itself, one that is hidden, and *)
(* a threshold that admits them all beside the default.                    *)
EXTENDS AlertEngine

MCAps ==
  {[ssid |-> <<"a", "y">>, bssid |-> <<"1">>, rssi |-> -60],
   [ssid |-> <<"b", "y">>, bssid |-> <<"2">>, rssi |-> -60],
   [ssid |-> Hidden, bssid |-> <<"2">>, rssi |-> -90]}

MCSsids == {<<"a", "x">>, <<"b", "y">>}

MCBssids == {<<"2">>}

MCThresholds == {-100}

=============================================================================
