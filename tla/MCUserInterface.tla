-------------------------- MODULE MCUserInterface --------------------------
(* Lists of one row more than a refresh builds, a sound firmware file and  *)
(* a damaged one, one network to watch for, and a card that holds an old   *)
(* session, then a new one listed before it.                               *)
EXTENDS UserInterface

CONSTANTS old, new, sound, damaged

MCMaxRows == [l \in Lists |-> IF l = "wifi" THEN 2 ELSE 1]
MCBuildBatch == [l \in Lists |-> 1]

MCCards ==
  {[ok |-> TRUE, files |-> <<old>>, active |-> NoSession],
   [ok |-> TRUE, files |-> <<new, old>>, active |-> new]}

(* For the firmware update the rest is kept small. *)
MCOneRow == [l \in Lists |-> 1]
MCOneCard == {[ok |-> FALSE, files |-> <<>>, active |-> NoSession]}

MCHasMagic(file) == TRUE
MCIsSound(file) == file # damaged

=============================================================================
