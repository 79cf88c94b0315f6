---------------------------- MODULE SessionFiles ----------------------------
(***************************************************************************)
(* Session files on the SD card.  A boot opens at most one session, named  *)
(* after the clock, which starts at 1970 on every boot; the name is        *)
(* written to a pointer file for the exporters.  Nothing ever closes a     *)
(* session: it ends when the power does.  What a power cut leaves of a     *)
(* file is what its directory entry covered at the last fsync, or, with    *)
(* rows written since, a stub without any content; what fopen sees of a    *)
(* file still being written is what the entry covers.                      *)
(*                                                                         *)
(* A file's content is counted in lines: the header, then one per batch of *)
(* rows the logger flushes.  Flushes of the two tasks come one after the   *)
(* other here; SessionBuffer has their overlap.                            *)
(***************************************************************************)
EXTENDS Naturals, FiniteSets, FiniteSetsExt

CONSTANTS
  Stamps,      \* times at which a session may start
  MaxSuffix,   \* the last suffix tried (99); 1 is the name without a suffix
  SyncEvery,   \* SYNC_EVERY_N_FLUSHES
  MaxSessions, \* bound: sessions started
  MaxBatches   \* bound: batches written to one session

ASSUME FilesAssumption ==
  /\ MaxSuffix \in Nat \ {0}
  /\ SyncEvery \in Nat \ {0}
  /\ MaxSessions \in Nat /\ MaxBatches \in Nat

VARIABLES
  card,      \* survey files by name
  pointer,   \* content of current_session, or NoName
  session,   \* number of sessions created
  path,      \* s_path
  active,    \* s_active
  phase,     \* where session_logger_start is
  flushes,   \* s_flush_n
  pointed    \* history variable: the pointer file could be written

filesVars == <<card, pointer, session, path, active, phase, flushes, pointed>>

Names == Stamps \X (1 .. MaxSuffix)

NoName == <<>>

(* owner: the session it belongs to; lines: written; entry: covered by the *)
(* directory entry.                                                        *)
NoFile == [owner |-> 0, lines |-> 0, entry |-> 0]

FilesInit ==
  /\ card = [n \in Names |-> NoFile]
  /\ pointer = NoName
  /\ session = 0
  /\ path = NoName
  /\ active = FALSE
  /\ phase = "idle"
  /\ flushes = 0
  /\ pointed = TRUE

-----------------------------------------------------------------------------
(* session_logger_start, by the first access point logged.                 *)

Free(stamp) == {i \in 1 .. MaxSuffix : card[<<stamp, i>>] = NoFile}

PlainName(stamp) == <<stamp, 1>>

(* The first free suffix; the last one when none is free. *)
NameFor(stamp) ==
  <<stamp, IF Free(stamp) = {} THEN MaxSuffix ELSE Min(Free(stamp))>>

ChooseName ==
  /\ phase = "idle" /\ ~active
  /\ \E stamp \in Stamps : path' = NameFor(stamp)
  /\ phase' = "create"
  /\ UNCHANGED <<card, pointer, session, active, flushes, pointed>>

(* fopen "w" creates the file or empties it, or fails. *)
Create ==
  /\ phase = "create"
  /\ \/ /\ session < MaxSessions
        /\ session' = session + 1
        /\ card' = [card EXCEPT ![path] = [owner |-> session + 1, lines |-> 0, entry |-> 0]]
        /\ phase' = "header"
     \/ phase' = "idle" /\ UNCHANGED <<card, session>>
  /\ UNCHANGED <<pointer, path, active, flushes, pointed>>

HeaderUnsynced ==
  /\ phase = "header"
  /\ card' = [card EXCEPT ![path].lines = 1]
  /\ active' = TRUE
  /\ phase' = "openPointer"
  /\ UNCHANGED <<pointer, session, path, flushes, pointed>>

Header ==
  /\ phase = "header"
  /\ card' = [card EXCEPT ![path].lines = 1, ![path].entry = 1]
  /\ active' = TRUE
  /\ phase' = "openPointer"
  /\ UNCHANGED <<pointer, session, path, flushes, pointed>>

OpenPointer ==
  /\ phase = "openPointer"
  /\ \/ pointer' = NoName /\ phase' = "writePointer" /\ UNCHANGED pointed
     \/ pointed' = FALSE /\ phase' = "idle" /\ UNCHANGED pointer
  /\ UNCHANGED <<card, session, path, active, flushes>>

WritePointer ==
  /\ phase = "writePointer"
  /\ pointer' = path
  /\ phase' = "idle"
  /\ UNCHANGED <<card, session, path, active, flushes, pointed>>

-----------------------------------------------------------------------------
(* write_buffer, by the event loop or an export.                           *)

LateSync(n) == n > SyncEvery

MustSync(n) == n >= SyncEvery

(* The rows leave the buffer for the card; every SyncEvery-th time the     *)
(* directory entry follows.                                                *)
Flush ==
  /\ phase = "idle" /\ active
  /\ card[path].lines <= MaxBatches
  /\ card' = [card EXCEPT ![path].lines = @ + 1]
  /\ flushes' = flushes + 1
  /\ phase' = IF MustSync(flushes') THEN "sync" ELSE "idle"
  /\ UNCHANGED <<pointer, session, path, active, pointed>>

Sync ==
  /\ phase = "sync"
  /\ card' = [card EXCEPT ![path].entry = card[path].lines]
  /\ flushes' = 0
  /\ phase' = "idle"
  /\ UNCHANGED <<pointer, session, path, active, pointed>>

-----------------------------------------------------------------------------
(* The power goes and comes back.                                          *)

(* Files a cut may cost altogether: one with rows its entry does not cover *)
(* and a new one whose entry was never written out.                        *)
AtRisk ==
  {n \in Names : card[n].entry < card[n].lines \/ (phase = "header" /\ n = path)}

(* What is left of them: a name without content, or not even the name. *)
Stub(n) ==
  IF phase = "header" THEN NoFile ELSE [owner |-> card[n].owner, lines |-> 0, entry |-> 0]

PowerCut ==
  /\ \E lost \in SUBSET AtRisk :
       card' = [n \in Names |-> IF n \in lost THEN Stub(n)
                                ELSE [card[n] EXCEPT !.lines = card[n].entry]]
  /\ path' = NoName
  /\ active' = FALSE
  /\ phase' = "idle"
  /\ flushes' = 0
  /\ pointed' = TRUE
  /\ UNCHANGED <<pointer, session>>

FilesNext ==
  \/ ChooseName \/ Create \/ Header \/ OpenPointer \/ WritePointer
  \/ Flush \/ Sync
  \/ PowerCut

FilesSpec == FilesInit /\ [][FilesNext]_filesVars

-----------------------------------------------------------------------------
(* The exporters.                                                          *)

Sessions == {n \in Names : card[n].entry > 0}

(* The files csv_find_active may return: the one pointed to, or else the   *)
(* one with the newest date, which no clock keeps in order across boots.   *)
FindActive ==
  IF pointer # NoName /\ pointer \in Sessions THEN {pointer} ELSE Sessions

-----------------------------------------------------------------------------
(* Properties.                                                             *)

(* No session takes the file of an earlier one, although the clock repeats *)
(* itself, unless every suffix of that second is taken.                    *)
EarlierSessionsKept ==
  [][\A n \in Sessions :
       card'[n].owner = card[n].owner \/ Free(n[1]) = {}]_filesVars

(* A power cut takes nothing from any session but the one it ends, and     *)
(* from that one only when rows were written since the last sync: those    *)
(* rows, of SyncEvery batches at the most, or the whole file.              *)
BoundedLoss ==
  [][PowerCut => \A n \in Sessions :
       \/ card'[n] = card[n]
       \/ /\ active /\ n = path
          /\ card[n].lines - card[n].entry \in 1 .. SyncEvery
          /\ card'[n].lines \in {card[n].entry, 0}]_filesVars

(* Once a session is started, an export without a chosen file takes it,    *)
(* whatever sessions and pointer earlier boots left.                       *)
ExportFindsSession ==
  active /\ phase \in {"idle", "sync"} /\ pointed => FindActive = {path}

=============================================================================
