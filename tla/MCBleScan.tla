----------------------------- MODULE MCBleScan -----------------------------
(* Three devices that share a pool of two slots. *)
EXTENDS BleScan

MCNameOf(m) == <<m>>
MCRssis == {-50, -80}

=============================================================================
