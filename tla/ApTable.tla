------------------------------ MODULE ApTable ------------------------------
(***************************************************************************)
(* What the access-point pool of the scan engine promises, without slots,  *)
(* queues or critical sections: a table of at most Capacity access points, *)
(* one entry per BSSID, each holding the latest beacon heard and the tick  *)
(* of the sweep that heard it.  When the table is full, a new access point *)
(* replaces one that no other entry is older than.                         *)
(***************************************************************************)
EXTENDS Integers, FiniteSets

CONSTANTS
  Capacity,  \* most entries the table may hold
  Beacons,   \* what the radio can report: records with a bssid field
  Ticks      \* the ticks a sweep may be stamped with

VARIABLE entries  \* a set of [ap, seen]

Entry == [ap : Beacons, seen : Ticks]

Known(b) == {e \in entries : e.ap.bssid = b.bssid}

Stalest == {e \in entries : \A f \in entries : e.seen <= f.seen}

Init == entries = {}

(* A beacon for an access point the table already holds replaces its entry. *)
Refresh(b, t) ==
  /\ Known(b) # {}
  /\ entries' = (entries \ Known(b)) \cup {[ap |-> b, seen |-> t]}

(* A new access point takes a place that is still free. *)
Add(b, t) ==
  /\ Known(b) = {}
  /\ Cardinality(entries) < Capacity
  /\ entries' = entries \cup {[ap |-> b, seen |-> t]}

(* A new access point replaces a stalest entry when there is no free place. *)
Replace(b, t) ==
  /\ Known(b) = {}
  /\ Cardinality(entries) >= Capacity
  /\ \E victim \in Stalest :
        entries' = (entries \ {victim}) \cup {[ap |-> b, seen |-> t]}

(* Sweeps never go back in time. *)
Observe(b, t) ==
  /\ \A e \in entries : e.seen <= t
  /\ Refresh(b, t) \/ Add(b, t) \/ Replace(b, t)

Next == \E b \in Beacons, t \in Ticks : Observe(b, t)

Spec == Init /\ [][Next]_entries

=============================================================================
