----------------------------- MODULE MCSettings -----------------------------
(* Two keys of the filter, one of them edited by the keyboard dialog, and  *)
(* one of the power manager; one write may have failed since the boot.     *)
EXTENDS Settings

MCFilterKeys == <<"minrssi", "pattern">>

MCPowerKeys == <<"auto_off">>

=============================================================================
