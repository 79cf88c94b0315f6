---------------------------- MODULE MCScanEngine ----------------------------
(* A pool of two slots, a radio that hears three access points (two of     *)
(* them twins, one moving between two signal strengths, one hidden), and   *)
(* a queue and a sweep as large as the pool.                               *)
EXTENDS ScanEngine

CONSTANTS a1, a2, a3, home

MCBeacons ==
  {[bssid |-> a1, ssid |-> home,   band |-> "2g", rssi |-> -40],
   [bssid |-> a1, ssid |-> home,   band |-> "2g", rssi |-> -70],
   [bssid |-> a2, ssid |-> home,   band |-> "5g", rssi |-> -60],
   [bssid |-> a3, ssid |-> Hidden, band |-> "5g", rssi |-> -50]}

MCMinRssiRequests == {-120, -65}

MCPatterns == {{home}}

=============================================================================
