--------------------------- MODULE SessionBuffer ---------------------------
(***************************************************************************)
(* The RAM buffer of the session logger.  The event loop appends one row   *)
(* per scan record (session_logger_log_ap) and writes the buffer out when  *)
(* it is full or FLUSH_MS old; an export on the UI task writes it out too  *)
(* (session_logger_flush).  Nothing guards the buffer.  The UI task has    *)
(* the higher priority, but blocks on the card while it writes rows, and   *)
(* the event loop runs there; it may preempt the event loop anywhere.      *)
(*                                                                         *)
(* Rows are numbered in the order they are logged.  Age of the buffer and  *)
(* DMA headroom can change at any time and are chosen freely where the     *)
(* code reads them.                                                        *)
(***************************************************************************)
EXTENDS Integers, Sequences, FiniteSets, SequencesExt

CONSTANTS
  BufEntries,  \* BUF_ENTRIES
  MaxRows,     \* bound: rows logged in one behaviour
  MaxExports   \* bound: exports in one behaviour

ASSUME BufferAssumption ==
  /\ BufEntries \in Nat \ {0}
  /\ MaxRows \in Nat
  /\ MaxExports \in Nat

VARIABLES
  buf,      \* s_buf: a row number, or 0 for an entry not (or half) filled in
  bufN,     \* s_buf_n
  file,     \* the rows written to s_f, in order
  pc,       \* what each task is doing
  count,    \* n of write_buffer, captured by each task
  done,     \* rows of its batch each task has written
  entry,    \* index of the entry the event loop fills
  logged,   \* number of rows log_ap was called with
  exports,  \* number of exports so far
  dropped,  \* history variable: rows dropped for lack of DMA headroom
  overlap   \* history variable: both tasks were inside the logger at once

vars == <<buf, bufN, file, pc, count, done, entry, logged, exports, dropped, overlap>>

Tasks == {"loop", "ui"}

Indices == 0 .. BufEntries - 1

Init ==
  /\ buf = [i \in Indices |-> 0]
  /\ bufN = 0
  /\ file = <<>>
  /\ pc = [t \in Tasks |-> "idle"]
  /\ count = [t \in Tasks |-> 0]
  /\ done = [t \in Tasks |-> 0]
  /\ entry = 0
  /\ logged = 0
  /\ exports = 0
  /\ dropped = {}
  /\ overlap = FALSE

Goto(t, place) == pc' = [pc EXCEPT ![t] = place]

RetryAfterWrite(t) == "check"

(* Where a task continues when write_buffer returns. *)
AfterWrite(t) == IF t = "loop" THEN "reserve" ELSE "idle"

(* The row entry i stands for, also while it is being filled in. *)
RowAt(i) == IF pc["loop"] = "fill" /\ i = entry THEN logged ELSE buf[i]

-----------------------------------------------------------------------------
(* write_buffer, on either task.                                           *)

WriteEmpty(t) ==
  /\ pc[t] = "check"
  /\ bufN = 0
  /\ Goto(t, AfterWrite(t))
  /\ UNCHANGED <<buf, bufN, file, count, done, entry, logged, exports, dropped, overlap>>

(* No DMA headroom: the batch is given up rather than the card touched. *)
DropBatch(t) ==
  /\ pc[t] = "check"
  /\ bufN > 0
  /\ dropped' = dropped \cup {RowAt(i) : i \in 0 .. bufN - 1}
  /\ bufN' = 0
  /\ Goto(t, AfterWrite(t))
  /\ UNCHANGED <<buf, file, count, done, entry, logged, exports, overlap>>

BeginWrite(t) ==
  /\ pc[t] = "check"
  /\ bufN > 0
  /\ count' = [count EXCEPT ![t] = bufN]
  /\ done' = [done EXCEPT ![t] = 0]
  /\ Goto(t, "write")
  /\ UNCHANGED <<buf, bufN, file, entry, logged, exports, dropped, overlap>>

RowWritten(t) == Append(file, buf[done[t]])

(* One row goes to the card; the stream's lock keeps rows whole. *)
WriteRow(t) ==
  /\ pc[t] = "write"
  /\ done[t] < count[t]
  /\ file' = RowWritten(t)
  /\ done' = [done EXCEPT ![t] = @ + 1]
  /\ UNCHANGED <<buf, bufN, pc, count, entry, logged, exports, dropped, overlap>>

KeptAfterWrite(t) == bufN

(* The buffer is declared empty, whatever was appended since the count. *)
EmptiedAfterWrite(t) == 0

FinishWrite(t) ==
  /\ pc[t] = "write"
  /\ done[t] = count[t]
  /\ bufN' = EmptiedAfterWrite(t)
  /\ Goto(t, AfterWrite(t))
  /\ UNCHANGED <<buf, file, count, done, entry, logged, exports, dropped, overlap>>

-----------------------------------------------------------------------------
(* session_logger_log_ap on the event loop.                                *)

MustWriteLate == bufN > BufEntries

MustWrite == bufN >= BufEntries

(* A full buffer is written out first; one that has room is, when it is    *)
(* older than FLUSH_MS.                                                    *)
LogAp ==
  /\ pc["loop"] = "idle"
  /\ logged < MaxRows
  /\ logged' = logged + 1
  /\ overlap' = (overlap \/ pc["ui"] # "idle")
  /\ \/ Goto("loop", "check")
     \/ ~MustWrite /\ Goto("loop", "reserve")
  /\ UNCHANGED <<buf, bufN, file, count, done, entry, exports, dropped>>

(* s_buf_n++ is a load and a store; the entry is filled in after both. *)
LoadIndex ==
  /\ pc["loop"] = "reserve"
  /\ entry' = bufN
  /\ Goto("loop", "store")
  /\ UNCHANGED <<buf, bufN, file, count, done, logged, exports, dropped, overlap>>

StoreIndex ==
  /\ pc["loop"] = "store"
  /\ bufN' = entry + 1
  /\ buf' = [buf EXCEPT ![entry] = 0]
  /\ Goto("loop", "fill")
  /\ UNCHANGED <<file, count, done, entry, logged, exports, dropped, overlap>>

FillEntry ==
  /\ pc["loop"] = "fill"
  /\ buf' = [buf EXCEPT ![entry] = logged]
  /\ Goto("loop", "idle")
  /\ UNCHANGED <<bufN, file, count, done, entry, logged, exports, dropped, overlap>>

(* session_logger_flush, called by an export on the UI task. *)
Export ==
  /\ pc["ui"] = "idle"
  /\ exports < MaxExports
  /\ exports' = exports + 1
  /\ overlap' = (overlap \/ pc["loop"] # "idle")
  /\ Goto("ui", "check")
  /\ UNCHANGED <<buf, bufN, file, count, done, entry, logged, dropped>>

-----------------------------------------------------------------------------
WriteBuffer(t) ==
  WriteEmpty(t) \/ DropBatch(t) \/ BeginWrite(t) \/ WriteRow(t) \/ FinishWrite(t)

AppendRow == LoadIndex \/ StoreIndex \/ FillEntry

(* The event loop runs only while the UI task is blocked: on its next      *)
(* event, or on the card.                                                  *)
LoopStep == pc["ui"] # "check" /\ (LogAp \/ AppendRow \/ WriteBuffer("loop"))

UiStep == Export \/ WriteBuffer("ui")

Next == LoopStep \/ UiStep

(* A task that is inside the logger carries on; nothing obliges the radio  *)
(* to report a record nor the user to export.                              *)
Fairness ==
  /\ WF_vars(WriteBuffer("ui"))
  /\ WF_vars(pc["ui"] # "check" /\ (AppendRow \/ WriteBuffer("loop")))

Spec == Init /\ [][Next]_vars /\ Fairness

-----------------------------------------------------------------------------
(* Properties.                                                             *)

(* Types and bounds: even with both tasks in the logger at once, s_buf_n   *)
(* never exceeds the buffer, no batch is larger than it, and the entry     *)
(* about to be written lies inside it.                                     *)
TypeOK ==
  /\ buf \in [Indices -> 0 .. MaxRows]
  /\ bufN \in 0 .. BufEntries
  /\ file \in Seq(0 .. MaxRows)
  /\ pc \in [Tasks -> {"idle", "check", "write", "reserve", "store", "fill"}]
  /\ pc["ui"] \in {"idle", "check", "write"}
  /\ count \in [Tasks -> 0 .. BufEntries]
  /\ done \in [Tasks -> 0 .. BufEntries] /\ \A t \in Tasks : done[t] <= count[t]
  /\ entry \in 0 .. BufEntries
  /\ pc["loop"] \in {"store", "fill"} => entry < BufEntries
  /\ logged \in 0 .. MaxRows
  /\ exports \in 0 .. MaxExports
  /\ dropped \subseteq 0 .. MaxRows
  /\ overlap \in BOOLEAN

(* Rows in the buffer that are not in the file yet: those before s_buf_n,  *)
(* less the ones the batch under way has written, and the entry being      *)
(* filled in.                                                              *)
Waiting ==
  LET writing == {t \in Tasks : pc[t] = "write"}
      from    == IF writing = {} THEN 0 ELSE done[CHOOSE t \in writing : TRUE]
      last    == IF pc["loop"] = "fill" THEN entry - 1 ELSE bufN - 1
  IN  [k \in 1 .. last + 1 - from |-> buf[from + k - 1]]

Completed == IF pc["loop"] = "idle" THEN logged ELSE logged - 1

(* As long as no task wrote the buffer out while the other was inside the  *)
(* logger, the file followed by the waiting rows is the log: every row     *)
(* that was completely logged and not dropped for headroom is there, once, *)
(* complete and in order, whatever mixture of full, aged and exported      *)
(* batches wrote it.                                                       *)
FileIsTheLog ==
  ~overlap =>
    LET rows == file \o Waiting IN
      /\ ToSet(rows) = (1 .. Completed) \ dropped
      /\ \A i, j \in DOMAIN rows : i < j => rows[i] < rows[j]

(* Every export ends, and so does every call that logs a row. *)
EveryCallReturns == \A t \in Tasks : pc[t] # "idle" ~> pc[t] = "idle"

(* Flushing is safe at any time: a row that was logged completely and not  *)
(* dropped for headroom is in the file or still in the buffer.             *)
NoRowLost ==
  \A r \in 1 .. Completed :
    \/ r \in dropped
    \/ \E k \in DOMAIN file : file[k] = r
    \/ \E i \in Indices : i < bufN /\ buf[i] = r

=============================================================================
