--------------------------- MODULE SessionProofs ---------------------------
(***************************************************************************)
(* Session logging, for buffers of any size, any number of rows, exports,  *)
(* sessions and power cuts: the RAM buffer and the files on the card.      *)
(***************************************************************************)
EXTENDS SessionBuffer, SessionFiles, Counting, SequenceTheorems

-----------------------------------------------------------------------------
(* The buffer stays within its bounds.                                     *)

(* Whoever is about to take an entry finds one: the other task only ever   *)
(* empties the buffer.                                                     *)
BoundsInv == TypeOK /\ (pc["loop"] = "reserve" => bufN < BufEntries)

LEMMA BoundsInit == Init => BoundsInv
<1>. SUFFICES ASSUME Init
              PROVE  BoundsInv
  OBVIOUS
<1>1. file \in Seq(0 .. MaxRows)
  BY DEF Init
<1>2. /\ buf \in [Indices -> 0 .. MaxRows]
      /\ pc \in [Tasks -> {"idle", "check", "write", "reserve", "store", "fill"}]
      /\ count \in [Tasks -> 0 .. BufEntries] /\ done \in [Tasks -> 0 .. BufEntries]
  BY BufferAssumption DEF Init
<1>3. pc["loop"] = "idle" /\ pc["ui"] = "idle" /\ \A t \in Tasks : done[t] <= count[t]
  BY DEF Init, Tasks
<1>4. /\ bufN \in 0 .. BufEntries /\ entry \in 0 .. BufEntries
      /\ logged \in 0 .. MaxRows /\ exports \in 0 .. MaxExports
  BY BufferAssumption DEF Init
<1>5. dropped \subseteq 0 .. MaxRows /\ overlap \in BOOLEAN
  BY DEF Init
<1>. QED
  BY <1>1, <1>2, <1>3, <1>4, <1>5 DEF BoundsInv, TypeOK

(* write_buffer, on either task. *)
LEMMA WriteBounds ==
  ASSUME BoundsInv, NEW t \in Tasks, WriteBuffer(t)
  PROVE  BoundsInv'
<1>. USE BufferAssumption DEF BoundsInv, TypeOK, Goto, AfterWrite
<1>0. t = "loop" \/ t = "ui"
  BY DEF Tasks
<1>1. CASE WriteEmpty(t)
  BY <1>0, <1>1 DEF WriteEmpty, Tasks
<1>2. CASE DropBatch(t)
  <2>1. \A i \in 0 .. bufN - 1 : RowAt(i) \in 0 .. MaxRows
    BY <1>2 DEF DropBatch, RowAt, Indices
  <2>2. dropped' \subseteq 0 .. MaxRows
    BY <1>2, <2>1 DEF DropBatch
  <2>. QED
    BY <1>0, <1>2, <2>2 DEF DropBatch, Tasks
<1>3. CASE BeginWrite(t)
  <2>1. count' \in [Tasks -> 0 .. BufEntries] /\ done' \in [Tasks -> 0 .. BufEntries]
    BY <1>3 DEF BeginWrite
  <2>2. \A u \in Tasks : done'[u] <= count'[u]
    BY <1>3 DEF BeginWrite
  <2>. QED
    BY <1>0, <1>3, <2>1, <2>2 DEF BeginWrite, Tasks
<1>4. CASE WriteRow(t)
  <2>1. done[t] \in Indices /\ buf[done[t]] \in 0 .. MaxRows
    BY <1>4 DEF WriteRow, Indices
  <2>2. file' \in Seq(0 .. MaxRows)
    BY <1>4, <2>1 DEF WriteRow, RowWritten
  <2>3. done' \in [Tasks -> 0 .. BufEntries] /\ \A u \in Tasks : done'[u] <= count[u]
    BY <1>4 DEF WriteRow
  <2>. QED
    BY <1>4, <2>2, <2>3 DEF WriteRow
<1>5. CASE FinishWrite(t)
  BY <1>0, <1>5 DEF FinishWrite, EmptiedAfterWrite, Tasks
<1>. QED
  BY <1>1, <1>2, <1>3, <1>4, <1>5 DEF WriteBuffer

LEMMA BoundsStep ==
  ASSUME BoundsInv, [Next]_vars
  PROVE  BoundsInv'
<1>. USE BufferAssumption DEF BoundsInv, TypeOK, Goto
<1>1. CASE LogAp
  BY <1>1 DEF LogAp, MustWrite, Tasks
<1>2. CASE LoadIndex
  BY <1>2 DEF LoadIndex, Tasks
<1>3. CASE StoreIndex
  <2>1. buf' \in [Indices -> 0 .. MaxRows]
    BY <1>3 DEF StoreIndex, Indices
  <2>. QED
    BY <1>3, <2>1 DEF StoreIndex, Tasks
<1>4. CASE FillEntry
  <2>1. buf' \in [Indices -> 0 .. MaxRows]
    BY <1>4 DEF FillEntry
  <2>. QED
    BY <1>4, <2>1 DEF FillEntry, Tasks
<1>5. CASE Export
  BY <1>5 DEF Export, Tasks
<1>6. CASE WriteBuffer("loop") \/ WriteBuffer("ui")
  BY <1>6, WriteBounds DEF Tasks
<1>7. CASE UNCHANGED vars
  BY <1>7 DEF vars
<1>. QED
  BY <1>1, <1>2, <1>3, <1>4, <1>5, <1>6, <1>7 DEF Next, LoopStep, UiStep, AppendRow

(* Even with both tasks inside the logger no index leaves the buffer,      *)
(* whatever its size.                                                      *)
THEOREM BufferBounds == Spec => []TypeOK
<1>1. Spec => []BoundsInv
  BY BoundsInit, BoundsStep, PTL DEF Spec
<1>. QED
  BY <1>1, PTL DEF BoundsInv

-----------------------------------------------------------------------------
(* The file is the log.                                                    *)

(* The waiting rows are those of the buffer from WaitFrom to WaitTo.       *)
WaitFrom ==
  IF pc["loop"] = "write" THEN done["loop"] ELSE IF pc["ui"] = "write" THEN done["ui"] ELSE 0

WaitTo == IF pc["loop"] = "fill" THEN entry ELSE bufN

Rows == file \o Waiting

(* While the tasks keep out of each other's way a batch covers the whole   *)
(* buffer, and the entry taken is its last.                                *)
Alone ==
  /\ pc["loop"] = "idle" \/ pc["ui"] = "idle"
  /\ \A t \in Tasks : pc[t] = "write" => count[t] = bufN
  /\ pc["loop"] = "store" => entry = bufN
  /\ pc["loop"] = "fill" => bufN = entry + 1
  /\ pc["loop"] # "idle" => logged > 0
  /\ dropped \subseteq 1 .. Completed

(* rows holds the numbers in kept, each of them once, in order. *)
InOrder(rows, kept) ==
  /\ ToSet(rows) = kept
  /\ \A i, j \in DOMAIN rows : i < j => rows[i] < rows[j]

LogInv ==
  BoundsInv /\ (~overlap => Alone /\ InOrder(Rows, (1 .. Completed) \ dropped))

WaitingPart ==
  /\ Waiting = [k \in 1 .. WaitTo - WaitFrom |-> buf[WaitFrom + k - 1]]
  /\ WaitFrom \in 0 .. WaitTo /\ WaitTo \in 0 .. BufEntries

LEMMA WaitingIs == BoundsInv /\ Alone => WaitingPart
<1>. SUFFICES ASSUME BoundsInv, Alone
              PROVE  WaitingPart
  OBVIOUS
<1>. USE BufferAssumption DEF BoundsInv, TypeOK, Alone
<1>1. "loop" \in Tasks /\ "ui" \in Tasks
  BY DEF Tasks
<1>. DEFINE writing == {t \in Tasks : pc[t] = "write"}
            from    == IF writing = {} THEN 0 ELSE done[CHOOSE t \in writing : TRUE]
            last    == IF pc["loop"] = "fill" THEN entry - 1 ELSE bufN - 1
<1>2. from = WaitFrom
  <2>1. CASE pc["loop"] = "write"
    <3>1. writing = {"loop"}
      BY <2>1 DEF Tasks
    <3>2. (CHOOSE t \in writing : TRUE) = "loop"
      BY <3>1
    <3>. QED
      BY <2>1, <3>1, <3>2 DEF WaitFrom
  <2>2. CASE pc["ui"] = "write"
    <3>1. writing = {"ui"}
      BY <2>2 DEF Tasks
    <3>2. (CHOOSE t \in writing : TRUE) = "ui"
      BY <3>1
    <3>. QED
      BY <2>2, <3>1, <3>2 DEF WaitFrom, Tasks
  <2>3. CASE pc["loop"] # "write" /\ pc["ui"] # "write"
    <3>1. writing = {}
      BY <2>3 DEF Tasks
    <3>. QED
      BY <2>3, <3>1 DEF WaitFrom
  <2>. QED
    BY <2>1, <2>2, <2>3
<1>3. last + 1 = WaitTo /\ last \in Int /\ WaitTo \in 0 .. BufEntries
  BY DEF WaitTo
<1>4. WaitFrom \in 0 .. WaitTo
  BY <1>1 DEF WaitFrom, WaitTo
<1>5. Waiting = [k \in 1 .. last + 1 - from |-> buf[from + k - 1]]
  BY DEF Waiting
<1>. HIDE DEF from, last
<1>6. last + 1 - from = WaitTo - WaitFrom
  BY <1>2, <1>3, <1>4
<1>7. Waiting = [k \in 1 .. WaitTo - WaitFrom |-> buf[WaitFrom + k - 1]]
  BY <1>2, <1>5, <1>6
<1>. QED
  BY <1>3, <1>4, <1>7 DEF WaitingPart

LEMMA WaitingIsNext == BoundsInv' /\ Alone' => WaitingPart'
BY WaitingIs, PTL

LEMMA WaitingType ==
  ASSUME BoundsInv, Alone
  PROVE  /\ WaitTo - WaitFrom \in Nat /\ Len(Waiting) = WaitTo - WaitFrom
         /\ Waiting \in Seq(0 .. MaxRows)
<1>1. WaitingPart /\ buf \in [Indices -> 0 .. MaxRows]
  BY WaitingIs DEF BoundsInv, TypeOK
<1>2. \A k \in 1 .. WaitTo - WaitFrom : WaitFrom + k - 1 \in Indices
  BY <1>1, BufferAssumption DEF Indices, WaitingPart
<1>3. \A k \in 1 .. WaitTo - WaitFrom : buf[WaitFrom + k - 1] \in 0 .. MaxRows
  BY <1>1, <1>2
<1>4. PICK m \in Nat : m = WaitTo - WaitFrom
  BY <1>1, BufferAssumption DEF WaitingPart
<1>. QED
  BY <1>1, <1>3, <1>4 DEF WaitingPart

(* The first of the waiting rows may be the last of the file. *)
LEMMA MoveFirst ==
  ASSUME NEW S, NEW f \in Seq(S), NEW w \in Seq(S), w # <<>>
  PROVE  Append(f, w[1]) \o Tail(w) = f \o w
<1>1. w[1] \in S /\ Len(w) \in Nat \ {0} /\ Len(f) \in Nat
  OBVIOUS
<1>. DEFINE x == Append(f, w[1])
            y == Tail(w)
<1>2. /\ x \in Seq(S) /\ Len(x) = Len(f) + 1
      /\ \A k \in 1 .. Len(f) : x[k] = f[k]
      /\ x[Len(f) + 1] = w[1]
  BY <1>1
<1>3. /\ y \in Seq(S) /\ Len(y) = Len(w) - 1
      /\ \A k \in 1 .. Len(w) - 1 : y[k] = w[k + 1]
  BY HeadTailProperties
<1>. HIDE DEF x, y
<1>4. /\ x \o y \in Seq(S) /\ Len(x \o y) = Len(x) + Len(y)
      /\ \A k \in 1 .. Len(x) + Len(y) :
            (x \o y)[k] = IF k <= Len(x) THEN x[k] ELSE y[k - Len(x)]
  BY <1>2, <1>3, ConcatProperties
<1>5. /\ f \o w \in Seq(S) /\ Len(f \o w) = Len(f) + Len(w)
      /\ \A k \in 1 .. Len(f) + Len(w) :
            (f \o w)[k] = IF k <= Len(f) THEN f[k] ELSE w[k - Len(f)]
  BY ConcatProperties
<1>6. Len(x \o y) = Len(f \o w) /\ Len(x) + Len(y) = Len(f) + Len(w)
  BY <1>1, <1>2, <1>3, <1>4, <1>5
<1>7. ASSUME NEW k \in 1 .. Len(f) + Len(w)
      PROVE  (x \o y)[k] = (f \o w)[k]
  <2>1. CASE k <= Len(f)
    BY <1>1, <1>2, <1>4, <1>5, <1>6, <2>1
  <2>2. CASE k = Len(f) + 1
    <3>1. (x \o y)[k] = x[k] /\ (f \o w)[k] = w[k - Len(f)]
      BY <1>1, <1>2, <1>4, <1>5, <1>6, <2>2
    <3>2. k - Len(f) = 1
      BY <1>1, <2>2
    <3>. QED
      BY <1>2, <2>2, <3>1, <3>2
  <2>3. CASE k > Len(f) + 1
    <3>1. (x \o y)[k] = y[k - Len(x)] /\ (f \o w)[k] = w[k - Len(f)]
      BY <1>1, <1>2, <1>4, <1>5, <1>6, <2>3
    <3>2. k - Len(x) \in 1 .. Len(w) - 1 /\ k - Len(x) + 1 = k - Len(f)
      BY <1>1, <1>2, <2>3
    <3>. QED
      BY <1>3, <3>1, <3>2
  <2>4. k <= Len(f) \/ k = Len(f) + 1 \/ k > Len(f) + 1
    BY <1>1
  <2>. QED
    BY <2>1, <2>2, <2>3, <2>4
<1>8. x \o y = f \o w
  BY <1>4, <1>5, <1>6, <1>7, SeqEqual
<1>. QED
  BY <1>8 DEF x, y

(* InOrder, by indices. *)
LEMMA InOrderByIndex ==
  ASSUME NEW s \in Seq(Nat), NEW kept
  PROVE  InOrder(s, kept) <=>
           /\ \A x : x \in kept <=> \E i \in 1 .. Len(s) : s[i] = x
           /\ \A i, j \in 1 .. Len(s) : i < j => s[i] < s[j]
<1>1. DOMAIN s = 1 .. Len(s)
  BY LenProperties
<1>. QED
  BY <1>1 DEF InOrder, ToSet

(* A greater row at the end keeps the order. *)
LEMMA AddLast ==
  ASSUME NEW f \in Seq(Nat), NEW w \in Seq(Nat), NEW n \in Nat,
         NEW kept \in SUBSET (1 .. n), InOrder(f \o w, kept)
  PROVE  InOrder(f \o Append(w, n + 1), kept \cup {n + 1})
<1>1. PICK r \in Seq(Nat) : r = f \o w
  BY ConcatProperties
<1>2. PICK s \in Seq(Nat) : s = Append(r, n + 1)
  <2>1. n + 1 \in Nat
    OBVIOUS
  <2>. QED
    BY <2>1, AppendProperties
<1>3. f \o Append(w, n + 1) = s
  <2>1. Append(w, n + 1) = w \o <<n + 1>> /\ <<n + 1>> \in Seq(Nat)
    BY AppendIsConcat, SMTT(30)
  <2>2. s = r \o <<n + 1>>
    BY <1>2, AppendIsConcat
  <2>3. PICK e \in Seq(Nat) : e = <<n + 1>>
    BY <2>1
  <2>4. (f \o w) \o e = f \o (w \o e)
    BY ConcatAssociative, SMTT(30)
  <2>. QED
    BY <1>1, <2>1, <2>2, <2>3, <2>4
<1>4. /\ Len(s) = Len(r) + 1 /\ Len(r) \in Nat
      /\ \A i \in 1 .. Len(r) : s[i] = r[i]
      /\ s[Len(r) + 1] = n + 1
  BY <1>2
<1>5. InOrder(r, kept)
  BY <1>1
<1>6. /\ \A x : x \in kept <=> \E i \in 1 .. Len(r) : r[i] = x
      /\ \A i, j \in 1 .. Len(r) : i < j => r[i] < r[j]
  BY <1>5, InOrderByIndex
<1>7. ASSUME NEW i \in 1 .. Len(s)
      PROVE  i \in 1 .. Len(r) \/ i = Len(r) + 1
  BY <1>4
<1>8. ASSUME NEW i \in 1 .. Len(r)
      PROVE  i \in 1 .. Len(s) /\ s[i] = r[i] /\ r[i] \in 1 .. n
  <2>1. i \in 1 .. Len(s) /\ s[i] = r[i]
    BY <1>4
  <2>2. r[i] \in kept
    BY <1>6
  <2>. QED
    BY <2>1, <2>2
<1>9. ASSUME NEW x
      PROVE  x \in kept \cup {n + 1} <=> \E i \in 1 .. Len(s) : s[i] = x
  <2>1. ASSUME x \in kept
        PROVE  \E i \in 1 .. Len(s) : s[i] = x
    BY <1>6, <1>8, <2>1
  <2>2. Len(r) + 1 \in 1 .. Len(s)
    BY <1>4
  <2>3. ASSUME NEW i \in 1 .. Len(s), s[i] = x
        PROVE  x \in kept \cup {n + 1}
    BY <1>4, <1>6, <1>7, <1>8, <2>3
  <2>. QED
    BY <1>4, <2>1, <2>2, <2>3
<1>10. ASSUME NEW i \in 1 .. Len(s), NEW j \in 1 .. Len(s), i < j
       PROVE  s[i] < s[j]
  <2>1. i \in 1 .. Len(r)
    BY <1>4, <1>10
  <2>2. CASE j \in 1 .. Len(r)
    BY <1>6, <1>8, <1>10, <2>1, <2>2
  <2>3. CASE j = Len(r) + 1
    <3>1. s[i] \in 1 .. n /\ s[j] = n + 1
      BY <1>4, <1>8, <2>1, <2>3
    <3>. QED
      BY <3>1
  <2>. QED
    BY <1>7, <2>2, <2>3
<1>11. InOrder(s, kept \cup {n + 1})
  BY <1>9, <1>10, InOrderByIndex
<1>. QED
  BY <1>3, <1>11

(* The rows of the file alone are in order as well. *)
LEMMA DropLast ==
  ASSUME NEW f \in Seq(Nat), NEW w \in Seq(Nat), NEW kept, InOrder(f \o w, kept)
  PROVE  InOrder(f, kept \ ToSet(w))
<1>1. PICK r \in Seq(Nat) : r = f \o w
  BY ConcatProperties
<1>2. /\ Len(r) = Len(f) + Len(w) /\ Len(f) \in Nat /\ Len(w) \in Nat
      /\ \A k \in 1 .. Len(f) + Len(w) : r[k] = IF k <= Len(f) THEN f[k] ELSE w[k - Len(f)]
  BY <1>1, ConcatProperties
<1>3. InOrder(r, kept)
  BY <1>1
<1>4. /\ \A x : x \in kept <=> \E i \in 1 .. Len(r) : r[i] = x
      /\ \A i, j \in 1 .. Len(r) : i < j => r[i] < r[j]
  BY <1>3, InOrderByIndex
<1>5. \A x : x \in ToSet(w) <=> \E i \in 1 .. Len(w) : w[i] = x
  <2>1. DOMAIN w = 1 .. Len(w)
    BY LenProperties
  <2>. QED
    BY <2>1 DEF ToSet
<1>6. ASSUME NEW k \in 1 .. Len(f)
      PROVE  k \in 1 .. Len(r) /\ r[k] = f[k]
  <2>1. k \in 1 .. Len(f) + Len(w) /\ k <= Len(f)
    BY <1>2
  <2>. QED
    BY <1>2, <2>1
<1>7. ASSUME NEW k \in 1 .. Len(w)
      PROVE  Len(f) + k \in 1 .. Len(r) /\ r[Len(f) + k] = w[k]
  <2>1. /\ Len(f) + k \in 1 .. Len(f) + Len(w) /\ ~(Len(f) + k <= Len(f))
        /\ Len(f) + k - Len(f) = k
    BY <1>2
  <2>. QED
    BY <1>2, <2>1
<1>8. ASSUME NEW i \in 1 .. Len(f), NEW k \in 1 .. Len(w)
      PROVE  f[i] # w[k]
  <2>1. i < Len(f) + k
    BY <1>2
  <2>2. r[i] < r[Len(f) + k]
    BY <1>4, <1>6, <1>7, <2>1
  <2>3. r[i] \in Nat /\ r[Len(f) + k] \in Nat
    BY <1>6, <1>7, SMTT(30)
  <2>. QED
    BY <1>6, <1>7, <2>2, <2>3
<1>9. ASSUME NEW x
      PROVE  x \in kept \ ToSet(w) <=> \E i \in 1 .. Len(f) : f[i] = x
  <2>1. ASSUME x \in kept, x \notin ToSet(w)
        PROVE  \E i \in 1 .. Len(f) : f[i] = x
    <3>1. PICK k \in 1 .. Len(r) : r[k] = x
      BY <1>4, <2>1
    <3>2. CASE k <= Len(f)
      <4>1. k \in 1 .. Len(f)
        BY <3>2
      <4>. QED
        BY <1>6, <3>1, <4>1
    <3>3. CASE ~(k <= Len(f))
      <4>1. PICK l \in 1 .. Len(w) : k = Len(f) + l
        <5>1. k - Len(f) \in 1 .. Len(w) /\ k = Len(f) + (k - Len(f))
          BY <1>2, <3>3
        <5>. QED
          BY <5>1
      <4>. QED
        BY <1>5, <1>7, <2>1, <3>1, <4>1
    <3>. QED
      BY <3>2, <3>3
  <2>2. ASSUME NEW i \in 1 .. Len(f), f[i] = x
        PROVE  x \in kept /\ x \notin ToSet(w)
    BY <1>4, <1>5, <1>6, <1>8, <2>2
  <2>. QED
    BY <2>1, <2>2
<1>10. \A i, j \in 1 .. Len(f) : i < j => f[i] < f[j]
  BY <1>4, <1>6
<1>. QED
  BY <1>9, <1>10, InOrderByIndex

(* What comes last is part of what is kept. *)
LEMMA LastInOrder ==
  ASSUME NEW f \in Seq(Nat), NEW w \in Seq(Nat), NEW kept, InOrder(f \o w, kept)
  PROVE  ToSet(w) \subseteq kept
<1>1. PICK r \in Seq(Nat) : r = f \o w
  BY ConcatProperties
<1>2. /\ Len(r) = Len(f) + Len(w) /\ Len(f) \in Nat /\ Len(w) \in Nat
      /\ \A k \in 1 .. Len(f) + Len(w) : r[k] = IF k <= Len(f) THEN f[k] ELSE w[k - Len(f)]
  BY <1>1, ConcatProperties
<1>3. \A x : x \in kept <=> \E i \in 1 .. Len(r) : r[i] = x
  <2>1. InOrder(r, kept)
    BY <1>1
  <2>. QED
    BY <2>1, InOrderByIndex
<1>4. ASSUME NEW k \in 1 .. Len(w)
      PROVE  w[k] \in kept
  <2>1. /\ Len(f) + k \in 1 .. Len(f) + Len(w) /\ ~(Len(f) + k <= Len(f))
        /\ Len(f) + k - Len(f) = k
    BY <1>2
  <2>2. r[Len(f) + k] = w[k]
    BY <1>2, <2>1
  <2>. QED
    BY <1>2, <1>3, <2>1, <2>2
<1>5. DOMAIN w = 1 .. Len(w)
  BY LenProperties
<1>. QED
  BY <1>4, <1>5 DEF ToSet

LEMMA LogInit == Init => LogInv
<1>. SUFFICES ASSUME Init
              PROVE  LogInv
  OBVIOUS
<1>1. BoundsInv
  BY BoundsInit
<1>2. Alone
  BY DEF Alone, Init, Tasks
<1>3. Waiting \in Seq(0 .. MaxRows) /\ Len(Waiting) = 0
  <2>1. WaitTo = 0 /\ WaitFrom = 0
    BY DEF WaitTo, WaitFrom, Init, Tasks
  <2>. QED
    BY <1>1, <1>2, <2>1, WaitingType
<1>4. Rows = <<>>
  <2>1. Waiting = <<>>
    BY <1>3, EmptySeq
  <2>. QED
    BY <2>1, ConcatEmptySeq, EmptySeq DEF Rows, Init
<1>5. (1 .. Completed) \ dropped = {}
  <2>1. Completed = 0 /\ dropped = {}
    BY DEF Completed, Init, Tasks
  <2>2. 1 .. 0 = {}
    OBVIOUS
  <2>. QED
    BY <2>1, <2>2
<1>6. InOrder(<<>>, {})
  <2>1. DOMAIN <<>> = {}
    OBVIOUS
  <2>. QED
    BY <2>1 DEF InOrder, ToSet
<1>. QED
  BY <1>1, <1>2, <1>4, <1>5, <1>6 DEF LogInv

(* What a step leaves alone, the waiting rows keep. *)
LEMMA SameRows ==
  ASSUME BoundsInv, Alone, BoundsInv', Alone', UNCHANGED <<file, WaitFrom, WaitTo>>,
         \A i \in 0 .. WaitTo - 1 : buf'[i] = buf[i]
  PROVE  Rows' = Rows
<1>1. WaitingPart /\ WaitingPart'
  BY WaitingIs, WaitingIsNext
<1>2. Waiting' = [k \in 1 .. WaitTo - WaitFrom |-> buf'[WaitFrom + k - 1]]
  BY <1>1 DEF WaitingPart
<1>3. \A k \in 1 .. WaitTo - WaitFrom : WaitFrom + k - 1 \in 0 .. WaitTo - 1
  BY <1>1, BufferAssumption DEF WaitingPart
<1>4. Waiting' = Waiting
  BY <1>1, <1>2, <1>3 DEF WaitingPart
<1>. QED
  BY <1>4 DEF Rows

(* The rows are naturals, so the lemmas on sequences apply to them. *)
LEMMA RowsType ==
  ASSUME BoundsInv, Alone
  PROVE  file \in Seq(Nat) /\ Waiting \in Seq(Nat)
<1>1. file \in Seq(0 .. MaxRows) /\ Waiting \in Seq(0 .. MaxRows)
  BY WaitingType DEF BoundsInv, TypeOK
<1>2. 0 .. MaxRows \subseteq Nat
  BY BufferAssumption
<1>3. Seq(0 .. MaxRows) \subseteq Seq(Nat)
  BY <1>2, SeqMonotonic
<1>. QED
  BY <1>1, <1>3

(* What write_buffer drops are the waiting rows: none of the batch has     *)
(* been written when the headroom is looked at.                            *)
LEMMA DropIsWaiting ==
  ASSUME BoundsInv, Alone, NEW t \in Tasks, DropBatch(t)
  PROVE  dropped' = dropped \cup ToSet(Waiting)
<1>1. WaitFrom = 0 /\ WaitTo = bufN /\ bufN \in Nat
  <2>1. pc["loop"] # "write" /\ pc["ui"] # "write" /\ pc["loop"] # "fill"
    BY DEF DropBatch, Alone, Tasks
  <2>. QED
    BY <2>1 DEF WaitFrom, WaitTo, BoundsInv, TypeOK
<1>2. \A i \in 0 .. bufN - 1 : RowAt(i) = buf[i]
  BY DEF DropBatch, Alone, Tasks, RowAt
<1>3. Waiting = [k \in 1 .. bufN |-> buf[k - 1]]
  <2>1. Waiting = [k \in 1 .. bufN - 0 |-> buf[0 + k - 1]]
    BY <1>1, WaitingIs DEF WaitingPart
  <2>2. bufN - 0 = bufN /\ \A k \in 1 .. bufN : 0 + k - 1 = k - 1
    BY <1>1
  <2>. QED
    BY <2>1, <2>2
<1>4. DOMAIN Waiting = 1 .. bufN /\ \A k \in 1 .. bufN : Waiting[k] = buf[k - 1]
  BY <1>3
<1>5. {buf[i] : i \in 0 .. bufN - 1} = ToSet(Waiting)
  <2>1. ASSUME NEW i \in 0 .. bufN - 1
        PROVE  buf[i] \in ToSet(Waiting)
    <3>1. i + 1 \in 1 .. bufN /\ i + 1 - 1 = i
      BY <1>1
    <3>2. Waiting[i + 1] = buf[i]
      BY <1>4, <3>1
    <3>. QED
      BY <1>4, <3>1, <3>2 DEF ToSet
  <2>2. ASSUME NEW k \in 1 .. bufN
        PROVE  k - 1 \in 0 .. bufN - 1 /\ Waiting[k] = buf[k - 1]
    BY <1>1, <1>4
  <2>. QED
    BY <1>4, <2>1, <2>2 DEF ToSet
<1>6. {RowAt(i) : i \in 0 .. bufN - 1} = {buf[i] : i \in 0 .. bufN - 1}
  BY <1>2
<1>. QED
  BY <1>5, <1>6 DEF DropBatch

(* The tasks keep out of each other's way until the step that overlaps. *)
LEMMA AloneStep ==
  ASSUME LogInv, [Next]_vars, BoundsInv', ~overlap'
  PROVE  ~overlap /\ Alone'
<1>1. ~overlap
  BY DEF Next, LoopStep, UiStep, LogAp, AppendRow, LoadIndex, StoreIndex, FillEntry, Export,
         WriteBuffer, WriteEmpty, DropBatch, BeginWrite, WriteRow, FinishWrite, vars, LogInv,
         BoundsInv, TypeOK
<1>2. Alone /\ InOrder(Rows, (1 .. Completed) \ dropped)
  BY <1>1 DEF LogInv
<1>. USE DEF Alone, Goto, AfterWrite
<1>3. /\ pc \in [Tasks -> {"idle", "check", "write", "reserve", "store", "fill"}]
      /\ pc["ui"] \in {"idle", "check", "write"} /\ logged \in Nat /\ bufN \in Nat /\ entry \in Nat
      /\ count \in [Tasks -> 0 .. BufEntries] /\ Tasks = {"loop", "ui"}
  BY BufferAssumption DEF LogInv, BoundsInv, TypeOK, Tasks
<1>4. CASE LogAp
  <2>1. /\ pc'["loop"] \in {"check", "reserve"} /\ pc'["ui"] = pc["ui"] /\ pc["ui"] = "idle"
        /\ pc["loop"] = "idle" /\ logged' = logged + 1 /\ UNCHANGED <<dropped, count, bufN, entry>>
    BY <1>3, <1>4 DEF LogAp
  <2>2. pc'["loop"] # "idle"
    BY <2>1
  <2>3. Completed' = logged' - 1 /\ Completed = logged
    BY <2>1, <2>2 DEF Completed
  <2>4. Completed' = Completed /\ logged' > 0
    BY <1>3, <2>1, <2>3
  <2>5. dropped' \subseteq 1 .. Completed'
    BY <1>2, <2>1, <2>4
  <2>6. \A t \in Tasks : pc'[t] # "write"
    BY <1>3, <2>1
  <2>. QED
    BY <1>1, <2>1, <2>4, <2>5, <2>6
<1>5. CASE LoadIndex
  BY <1>1, <1>2, <1>3, <1>5 DEF LoadIndex, Completed
<1>6. CASE StoreIndex
  BY <1>1, <1>2, <1>3, <1>6 DEF StoreIndex, Completed
<1>7. CASE FillEntry
  BY <1>1, <1>2, <1>3, <1>7 DEF FillEntry, Completed
<1>8. CASE Export
  BY <1>1, <1>2, <1>3, <1>8 DEF Export, Completed
<1>9. ASSUME NEW t \in Tasks, WriteEmpty(t)
      PROVE  Alone'
  <2>1. CASE t = "loop"
    BY <1>1, <1>2, <1>3, <1>9, <2>1 DEF WriteEmpty, Completed
  <2>2. CASE t = "ui"
    BY <1>1, <1>2, <1>3, <1>9, <2>2 DEF WriteEmpty, Completed
  <2>. QED
    BY <2>1, <2>2 DEF Tasks
<1>10. ASSUME NEW t \in Tasks, BeginWrite(t)
       PROVE  Alone'
  BY <1>1, <1>2, <1>3, <1>10 DEF BeginWrite, Completed
<1>11. ASSUME NEW t \in Tasks, WriteRow(t)
       PROVE  Alone'
  BY <1>1, <1>2, <1>3, <1>11 DEF WriteRow, Completed
<1>12. ASSUME NEW t \in Tasks, FinishWrite(t)
       PROVE  Alone'
  BY <1>1, <1>2, <1>3, <1>12 DEF FinishWrite, Completed
<1>13. ASSUME NEW t \in Tasks, DropBatch(t)
       PROVE  Alone'
  <2>1. Completed' = Completed
    BY <1>1, <1>2, <1>3, <1>13 DEF DropBatch, Completed
  <2>2. file \in Seq(Nat) /\ Waiting \in Seq(Nat) /\ dropped' = dropped \cup ToSet(Waiting)
    BY <1>2, <1>13, RowsType, DropIsWaiting DEF LogInv
  <2>3. ToSet(Waiting) \subseteq (1 .. Completed) \ dropped
    BY <1>2, <2>2, LastInOrder DEF Rows
  <2>4. dropped' \subseteq 1 .. Completed'
    BY <1>2, <2>1, <2>2, <2>3
  <2>. QED
    BY <1>1, <1>2, <1>3, <1>13, <2>4 DEF DropBatch
<1>14. CASE UNCHANGED vars
  BY <1>1, <1>2, <1>14 DEF vars, Completed
<1>. QED
  BY <1>1, <1>4, <1>5, <1>6, <1>7, <1>8, <1>9, <1>10, <1>11, <1>12, <1>13, <1>14
     DEF Next, LoopStep, UiStep, AppendRow, WriteBuffer, Tasks


(* Filling the entry in adds the row logged last. *)
LEMMA FillsLast ==
  ASSUME BoundsInv, BoundsInv', Alone, Alone', InOrder(Rows, (1 .. Completed) \ dropped), FillEntry
  PROVE  InOrder(Rows', (1 .. Completed') \ dropped')
<1>1. /\ pc["loop"] = "fill" /\ pc["ui"] = "idle" /\ pc'["loop"] = "idle" /\ pc'["ui"] = "idle"
      /\ buf' = [buf EXCEPT ![entry] = logged]
      /\ UNCHANGED <<file, bufN, entry, logged, dropped>>
  BY DEF FillEntry, Goto, Alone, BoundsInv, TypeOK, Tasks
<1>2. /\ logged \in Nat /\ logged > 0 /\ bufN = entry + 1 /\ entry \in Nat
      /\ BufEntries \in Nat /\ entry < BufEntries /\ buf \in [Indices -> 0 .. MaxRows]
  BY <1>1, BufferAssumption DEF Alone, BoundsInv, TypeOK
<1>3. PICK n \in Nat : n + 1 = logged
  BY <1>2
<1>4. Completed = n /\ Completed' = n + 1
  BY <1>1, <1>3 DEF Completed
<1>5. WaitFrom = 0 /\ WaitTo = entry /\ WaitFrom' = 0 /\ WaitTo' = entry + 1
  BY <1>1, <1>2 DEF WaitFrom, WaitTo
<1>6. WaitingPart /\ WaitingPart'
  BY WaitingIs, WaitingIsNext
<1>7. /\ Waiting = [k \in 1 .. entry |-> buf[k - 1]]
      /\ Waiting' = [k \in 1 .. entry + 1 |-> buf'[k - 1]]
  <2>1. /\ entry - 0 = entry /\ entry + 1 - 0 = entry + 1
        /\ \A k \in 1 .. entry + 1 : 0 + k - 1 = k - 1
    BY <1>2
  <2>2. /\ Waiting = [k \in 1 .. entry - 0 |-> buf[0 + k - 1]]
        /\ Waiting' = [k \in 1 .. entry + 1 - 0 |-> buf'[0 + k - 1]]
    BY <1>5, <1>6 DEF WaitingPart
  <2>3. \A k \in 1 .. entry : k \in 1 .. entry + 1
    BY <1>2
  <2>. QED
    BY <2>1, <2>2, <2>3
<1>8. \A k \in 1 .. entry : buf'[k - 1] = buf[k - 1]
  <2>1. \A k \in 1 .. entry : k - 1 \in Indices /\ k - 1 # entry
    BY <1>2 DEF Indices
  <2>. QED
    BY <1>1, <1>2, <2>1
<1>9. buf'[(entry + 1) - 1] = n + 1
  <2>1. entry \in Indices /\ (entry + 1) - 1 = entry
    BY <1>2 DEF Indices
  <2>. QED
    BY <1>1, <1>2, <1>3, <2>1
<1>10. file \in Seq(Nat) /\ Waiting \in Seq(Nat)
  BY RowsType
<1>11. Len(Waiting) = entry
  BY <1>2, <1>7
<1>12. Waiting' = Append(Waiting, n + 1)
  <2>1. /\ DOMAIN Waiting' = 1 .. entry + 1
        /\ \A k \in 1 .. entry : Waiting'[k] = Waiting[k]
        /\ Waiting'[entry + 1] = n + 1
    <3>1. \A k \in 1 .. entry : k \in 1 .. entry + 1
      BY <1>2
    <3>2. entry + 1 \in 1 .. entry + 1
      BY <1>2
    <3>3. DOMAIN Waiting' = 1 .. entry + 1
      BY <1>7
    <3>5. \A k \in 1 .. entry + 1 : Waiting'[k] = buf'[k - 1]
      BY <1>7
    <3>6. Waiting'[entry + 1] = n + 1
      <4>. DEFINE m == entry + 1
      <4>1. m \in 1 .. m /\ buf'[m - 1] = n + 1 /\ \A k \in 1 .. m : Waiting'[k] = buf'[k - 1]
        BY <1>9, <3>2, <3>5
      <4>. HIDE DEF m
      <4>2. Waiting'[m] = n + 1
        BY <4>1
      <4>. QED
        BY <4>2 DEF m
    <3>7. \A k \in 1 .. entry : Waiting'[k] = buf'[k - 1]
      BY <3>1, <3>5
    <3>4. \A k \in 1 .. entry : Waiting[k] = buf[k - 1]
      BY <1>7
    <3>. QED
      BY <1>8, <3>3, <3>4, <3>6, <3>7
  <2>. DEFINE a == Append(Waiting, n + 1)
  <2>2. n + 1 \in Nat
    OBVIOUS
  <2>3. /\ a \in Seq(Nat) /\ Len(a) = entry + 1 /\ a[entry + 1] = n + 1
        /\ \A k \in 1 .. entry : a[k] = Waiting[k]
    BY <1>2, <1>10, <1>11, <2>2, AppendProperties
  <2>. HIDE DEF a
  <2>4. DOMAIN a = 1 .. entry + 1
    BY <2>3, LenProperties
  <2>5. a = [k \in DOMAIN a |-> a[k]]
    BY <2>3
  <2>6. Waiting' = [k \in DOMAIN Waiting' |-> Waiting'[k]]
    BY <1>7
  <2>7. \A k \in 1 .. entry + 1 : Waiting'[k] = a[k]
    <3>1. \A k \in 1 .. entry + 1 : k \in 1 .. entry \/ k = entry + 1
      BY <1>2
    <3>. QED
      BY <2>1, <2>3, <3>1
  <2>. QED
    BY <2>1, <2>4, <2>5, <2>6, <2>7 DEF a
<1>13. (1 .. Completed) \ dropped \in SUBSET (1 .. n) /\ dropped \subseteq 1 .. n
  BY <1>4 DEF Alone
<1>14. InOrder(file \o Append(Waiting, n + 1), ((1 .. Completed) \ dropped) \cup {n + 1})
  BY <1>10, <1>13, AddLast DEF Rows
<1>15. ((1 .. n) \ dropped) \cup {n + 1} = (1 .. n + 1) \ dropped
  <2>1. n + 1 \notin dropped
    BY <1>13
  <2>2. 1 .. n + 1 = (1 .. n) \cup {n + 1}
    OBVIOUS
  <2>. QED
    BY <2>1, <2>2
<1>. QED
  BY <1>1, <1>4, <1>12, <1>14, <1>15 DEF Rows

(* A row that is written moves from the front of the waiting rows to the   *)
(* end of the file.                                                        *)
LEMMA WritesFirst ==
  ASSUME BoundsInv, BoundsInv', Alone, Alone', NEW t \in Tasks, WriteRow(t)
  PROVE  UNCHANGED <<Rows, Completed, dropped>>
<1>1. /\ pc \in [Tasks -> {"idle", "check", "write", "reserve", "store", "fill"}]
      /\ done \in [Tasks -> 0 .. BufEntries] /\ t \in {"loop", "ui"}
      /\ pc[t] = "write" /\ count[t] = bufN /\ pc["loop"] # "fill" /\ bufN \in 0 .. BufEntries
      /\ done[t] < bufN /\ file' = Append(file, buf[done[t]])
      /\ done' = [done EXCEPT ![t] = @ + 1]
      /\ UNCHANGED <<buf, bufN, pc, logged, dropped, entry>>
  BY DEF WriteRow, RowWritten, Alone, BoundsInv, TypeOK, Tasks
<1>2. PICK d \in Nat, n \in Nat : d = done[t] /\ n = bufN /\ d < n
  BY <1>1, BufferAssumption
<1>3. WaitFrom = d /\ WaitTo = n /\ WaitFrom' = d + 1 /\ WaitTo' = n
  <2>1. CASE t = "loop"
    BY <1>1, <1>2, <2>1 DEF WaitFrom, WaitTo
  <2>2. CASE t = "ui"
    BY <1>1, <1>2, <2>2 DEF WaitFrom, WaitTo, Alone
  <2>. QED
    BY <1>1, <2>1, <2>2
<1>4. WaitingPart /\ WaitingPart'
  BY WaitingIs, WaitingIsNext
<1>5. /\ Waiting = [k \in 1 .. n - d |-> buf[d + k - 1]]
      /\ Waiting' = [k \in 1 .. n - (d + 1) |-> buf[d + 1 + k - 1]]
  BY <1>1, <1>3, <1>4 DEF WaitingPart
<1>6. file \in Seq(Nat) /\ Waiting \in Seq(Nat)
  BY RowsType
<1>7. Len(Waiting) = n - d /\ n - d \in Nat \ {0} /\ Waiting # <<>>
  <2>1. n - d \in Nat \ {0}
    BY <1>2
  <2>2. PICK m \in Nat \ {0} : m = n - d
    BY <2>1
  <2>3. Waiting = [k \in 1 .. m |-> buf[d + k - 1]]
    BY <1>5, <2>2
  <2>4. Len(Waiting) = m
    BY <2>3
  <2>. QED
    BY <2>1, <2>2, <2>4
<1>8. Waiting[1] = buf[done[t]]
  <2>1. 1 \in 1 .. n - d /\ d + 1 - 1 = d
    BY <1>7
  <2>. QED
    BY <1>2, <1>5, <2>1
<1>9. Waiting' = Tail(Waiting)
  <2>1. PICK w \in Seq(Nat) : w = Waiting /\ w # <<>>
    BY <1>6, <1>7
  <2>2. PICK y \in Seq(Nat) : y = Tail(w)
    BY <2>1, HeadTailProperties
  <2>3. Len(y) = Len(w) - 1 /\ \A k \in 1 .. Len(y) : y[k] = w[k + 1]
    BY <2>1, <2>2, HeadTailProperties
  <2>4. Len(y) = n - (d + 1)
    <3>1. Len(y) = Len(w) - 1 /\ Len(w) = n - d
      BY <1>7, <2>1, <2>3
    <3>. QED
      BY <1>2, <3>1
  <2>5. ASSUME NEW k \in 1 .. n - (d + 1)
        PROVE  k + 1 \in 1 .. n - d /\ d + (k + 1) - 1 = d + 1 + k - 1
    <3>1. k \in Nat /\ k >= 1 /\ k <= n - (d + 1)
      OBVIOUS
    <3>2. k + 1 <= n - d /\ n - d \in Int
      BY <3>1
    <3>. QED
      BY <3>1, <3>2
  <2>6. \A k \in 1 .. n - (d + 1) : w[k + 1] = buf[d + 1 + k - 1]
    BY <1>5, <2>1, <2>5
  <2>7. y = [k \in 1 .. n - (d + 1) |-> y[k]]
    BY <2>4, LenProperties
  <2>8. \A k \in 1 .. n - (d + 1) : y[k] = buf[d + 1 + k - 1]
    BY <2>3, <2>4, <2>6
  <2>9. y = [k \in 1 .. n - (d + 1) |-> buf[d + 1 + k - 1]]
    BY <2>7, <2>8
  <2>. QED
    BY <1>5, <2>1, <2>2, <2>9
<1>10. Append(file, Waiting[1]) \o Tail(Waiting) = file \o Waiting
  BY <1>6, <1>7, MoveFirst
<1>11. Rows' = Rows
  BY <1>1, <1>8, <1>9, <1>10 DEF Rows
<1>. QED
  BY <1>1, <1>11 DEF Completed

(* When a batch ends nothing waits, so declaring the buffer empty loses    *)
(* nothing.                                                                *)
LEMMA NothingWaits ==
  ASSUME BoundsInv, BoundsInv', Alone, Alone', NEW t \in Tasks, FinishWrite(t)
  PROVE  UNCHANGED <<Rows, Completed, dropped>>
<1>1. /\ pc \in [Tasks -> {"idle", "check", "write", "reserve", "store", "fill"}]
      /\ t \in {"loop", "ui"} /\ Tasks = {"loop", "ui"}
      /\ pc[t] = "write" /\ count[t] = bufN /\ pc["loop"] # "fill" /\ bufN \in 0 .. BufEntries
      /\ done[t] = bufN /\ bufN' = 0 /\ (pc["loop"] = "idle" \/ pc["ui"] = "idle")
      /\ pc' = [pc EXCEPT ![t] = IF t = "loop" THEN "reserve" ELSE "idle"]
      /\ UNCHANGED <<file, buf, logged, dropped, entry, done>>
  BY DEF FinishWrite, EmptiedAfterWrite, Goto, AfterWrite, Alone, BoundsInv, TypeOK, Tasks
<1>2. WaitFrom = WaitTo /\ WaitTo \in Nat /\ WaitFrom' = 0 /\ WaitTo' = 0
  <2>1. bufN \in Nat /\ (pc["loop"] = "idle" \/ pc["ui"] = "idle")
    BY <1>1, BufferAssumption
  <2>2. CASE t = "loop"
    <3>1. pc["loop"] = "write" /\ pc["ui"] = "idle" /\ pc'["loop"] = "reserve" /\ pc'["ui"] = "idle"
      BY <1>1, <2>2 DEF Alone
    <3>2. WaitFrom = done["loop"] /\ WaitTo = bufN /\ WaitFrom' = 0 /\ WaitTo' = bufN'
      BY <3>1 DEF WaitFrom, WaitTo
    <3>. QED
      BY <1>1, <2>1, <2>2, <3>2
  <2>3. CASE t = "ui"
    BY <1>1, <2>1, <2>3 DEF WaitFrom, WaitTo, Alone, FinishWrite
  <2>. QED
    BY <1>1, <2>2, <2>3
<1>3. Len(Waiting) = 0 /\ Len(Waiting') = 0
  <2>1. Len(Waiting) = WaitTo - WaitFrom
    BY WaitingType
  <2>2. Waiting' = [k \in 1 .. WaitTo' - WaitFrom' |-> buf'[WaitFrom' + k - 1]]
    BY WaitingIsNext DEF WaitingPart
  <2>3. Waiting' = [k \in 1 .. 0 |-> buf'[0 + k - 1]]
    <3>1. 0 - 0 = 0
      OBVIOUS
    <3>. QED
      BY <1>2, <2>2, <3>1
  <2>4. WaitTo - WaitFrom = 0
    BY <1>2
  <2>. QED
    BY <2>1, <2>3, <2>4
<1>4. Waiting = <<>>
  BY <1>3, RowsType, EmptySeq
<1>5. Waiting' = <<>>
  <2>1. Waiting' = [k \in 1 .. 0 |-> buf'[0 + k - 1]]
    <3>1. Waiting' = [k \in 1 .. WaitTo' - WaitFrom' |-> buf'[WaitFrom' + k - 1]]
      BY WaitingIsNext DEF WaitingPart
    <3>2. 0 - 0 = 0
      OBVIOUS
    <3>. QED
      BY <1>2, <3>1, <3>2
  <2>. QED
    BY <2>1
<1>6. Completed' = Completed
  BY <1>1 DEF Completed, FinishWrite
<1>. QED
  BY <1>1, <1>4, <1>5, <1>6 DEF Rows

(* Dropping a batch leaves the file, which holds the rest. *)
LEMMA DropsWaiting ==
  ASSUME BoundsInv, BoundsInv', Alone, Alone', InOrder(Rows, (1 .. Completed) \ dropped),
         NEW t \in Tasks, DropBatch(t)
  PROVE  InOrder(Rows', (1 .. Completed') \ dropped')
<1>1. file \in Seq(Nat) /\ Waiting \in Seq(Nat)
  BY RowsType
<1>2. InOrder(file, ((1 .. Completed) \ dropped) \ ToSet(Waiting))
  BY <1>1, DropLast DEF Rows
<1>3. dropped' = dropped \cup ToSet(Waiting)
  BY DropIsWaiting
<1>4. /\ pc \in [Tasks -> {"idle", "check", "write", "reserve", "store", "fill"}]
      /\ t \in {"loop", "ui"} /\ Tasks = {"loop", "ui"} /\ pc[t] = "check"
      /\ pc' = [pc EXCEPT ![t] = IF t = "loop" THEN "reserve" ELSE "idle"]
      /\ bufN' = 0 /\ UNCHANGED <<file, buf, logged, entry, done>>
  BY DEF DropBatch, Goto, AfterWrite, BoundsInv, TypeOK, Tasks
<1>5. Completed' = Completed
  BY <1>4 DEF Completed, Alone
<1>6. WaitFrom' = 0 /\ WaitTo' = 0
  BY <1>4 DEF WaitFrom, WaitTo, Alone
<1>7. Waiting' = <<>>
  <2>1. Waiting' = [k \in 1 .. WaitTo' - WaitFrom' |-> buf'[WaitFrom' + k - 1]]
    BY WaitingIsNext DEF WaitingPart
  <2>2. 0 - 0 = 0
    OBVIOUS
  <2>3. Waiting' = [k \in 1 .. 0 |-> buf'[0 + k - 1]]
    BY <1>6, <2>1, <2>2
  <2>. QED
    BY <2>3
<1>8. Rows' = file
  BY <1>1, <1>4, <1>7, ConcatEmptySeq DEF Rows
<1>9. ((1 .. Completed) \ dropped) \ ToSet(Waiting) = (1 .. Completed') \ dropped'
  BY <1>3, <1>5
<1>. QED
  BY <1>2, <1>8, <1>9

(* A step that leaves the rows alone leaves the log alone. *)
LEMMA LogStep ==
  ASSUME LogInv, [Next]_vars
  PROVE  LogInv'
<1>1. BoundsInv /\ BoundsInv'
  BY BoundsStep DEF LogInv
<1>. SUFFICES ASSUME ~overlap'
              PROVE  Alone' /\ InOrder(Rows', (1 .. Completed') \ dropped')
  BY <1>1 DEF LogInv
<1>2. ~overlap /\ Alone /\ Alone' /\ InOrder(Rows, (1 .. Completed) \ dropped)
  BY <1>1, AloneStep DEF LogInv
<1>3. /\ pc \in [Tasks -> {"idle", "check", "write", "reserve", "store", "fill"}]
      /\ pc["ui"] \in {"idle", "check", "write"} /\ logged \in Nat /\ bufN \in Nat /\ entry \in Nat
      /\ buf \in [Indices -> 0 .. MaxRows] /\ done \in [Tasks -> 0 .. BufEntries]
      /\ count \in [Tasks -> 0 .. BufEntries] /\ Tasks = {"loop", "ui"}
  BY <1>1, BufferAssumption DEF BoundsInv, TypeOK, Tasks
<1>4. WaitingPart /\ WaitingPart' /\ file \in Seq(Nat) /\ Waiting \in Seq(Nat)
  BY <1>1, <1>2, WaitingIs, WaitingIsNext, RowsType
<1>. DEFINE Kept == UNCHANGED <<Rows, Completed, dropped>>
<1>5. ASSUME Kept
      PROVE  InOrder(Rows', (1 .. Completed') \ dropped')
  BY <1>2, <1>5
<1>. USE DEF Alone, Goto, AfterWrite
<1>6. ASSUME UNCHANGED <<file, buf, WaitFrom, WaitTo>>
      PROVE  UNCHANGED Rows
  BY <1>1, <1>2, <1>6, SameRows
<1>7. CASE LogAp
  <2>1. UNCHANGED <<file, buf, WaitFrom, WaitTo, Completed, dropped>>
    BY <1>2, <1>3, <1>7 DEF LogAp, Completed, WaitFrom, WaitTo
  <2>. QED
    BY <1>2, <1>5, <1>6, <2>1
<1>8. CASE LoadIndex
  <2>1. UNCHANGED <<file, buf, WaitFrom, WaitTo, Completed, dropped>>
    BY <1>2, <1>3, <1>8 DEF LoadIndex, Completed, WaitFrom, WaitTo
  <2>. QED
    BY <1>2, <1>5, <1>6, <2>1
<1>9. CASE Export
  <2>1. UNCHANGED <<file, buf, WaitFrom, WaitTo, Completed, dropped>>
    BY <1>2, <1>3, <1>9 DEF Export, Completed, WaitFrom, WaitTo
  <2>. QED
    BY <1>2, <1>5, <1>6, <2>1
<1>10. CASE UNCHANGED vars
  <2>1. UNCHANGED <<file, buf, WaitFrom, WaitTo, Completed, dropped>>
    BY <1>10 DEF vars, Completed, WaitFrom, WaitTo
  <2>. QED
    BY <1>2, <1>5, <1>6, <2>1
<1>11. CASE StoreIndex
  <2>1. UNCHANGED <<file, WaitFrom, WaitTo, Completed, dropped>>
    BY <1>2, <1>3, <1>11 DEF StoreIndex, Completed, WaitFrom, WaitTo
  <2>2. \A i \in 0 .. WaitTo - 1 : buf'[i] = buf[i]
    <3>1. WaitTo = entry /\ \A i \in 0 .. WaitTo - 1 : i \in Indices
      BY <1>2, <1>3, <1>4, <1>11, BufferAssumption DEF StoreIndex, WaitTo, WaitingPart, Indices
    <3>. QED
      BY <1>3, <1>11, <3>1 DEF StoreIndex
  <2>3. UNCHANGED Rows
    BY <1>1, <1>2, <2>1, <2>2, SameRows
  <2>. QED
    BY <1>2, <2>1, <2>3
<1>12. CASE FillEntry
  BY <1>1, <1>2, <1>12, FillsLast
<1>13. ASSUME NEW t \in Tasks, WriteEmpty(t)
       PROVE  Kept
  <2>1. UNCHANGED <<file, buf, WaitFrom, WaitTo, Completed, dropped>>
    <3>1. CASE t = "loop"
      BY <1>2, <1>3, <1>13, <3>1 DEF WriteEmpty, Completed, WaitFrom, WaitTo
    <3>2. CASE t = "ui"
      BY <1>2, <1>3, <1>13, <3>2 DEF WriteEmpty, Completed, WaitFrom, WaitTo
    <3>. QED
      BY <1>3, <3>1, <3>2
  <2>. QED
    BY <1>6, <2>1
<1>14. ASSUME NEW t \in Tasks, BeginWrite(t)
       PROVE  Kept
  <2>1. UNCHANGED <<file, buf, WaitFrom, WaitTo, Completed, dropped>>
    BY <1>2, <1>3, <1>14 DEF BeginWrite, Completed, WaitFrom, WaitTo
  <2>. QED
    BY <1>6, <2>1
<1>15. ASSUME NEW t \in Tasks, WriteRow(t)
       PROVE  Kept
  BY <1>1, <1>2, <1>15, WritesFirst
<1>16. ASSUME NEW t \in Tasks, FinishWrite(t)
       PROVE  Kept
  BY <1>1, <1>2, <1>16, NothingWaits
<1>17. ASSUME NEW t \in Tasks, DropBatch(t)
       PROVE  InOrder(Rows', (1 .. Completed') \ dropped')
  BY <1>1, <1>2, <1>17, DropsWaiting
<1>18. ASSUME NEW t \in Tasks, WriteBuffer(t)
       PROVE  InOrder(Rows', (1 .. Completed') \ dropped')
  BY <1>5, <1>13, <1>14, <1>15, <1>16, <1>17, <1>18 DEF WriteBuffer
<1>19. \/ LogAp \/ LoadIndex \/ StoreIndex \/ FillEntry \/ Export \/ UNCHANGED vars
       \/ WriteBuffer("loop") \/ WriteBuffer("ui")
  BY DEF Next, LoopStep, UiStep, AppendRow
<1>. QED
  BY <1>2, <1>3, <1>7, <1>8, <1>9, <1>10, <1>11, <1>12, <1>18, <1>19

(* As long as no export wrote the buffer out in the middle of a row, the   *)
(* file followed by the waiting rows is the log: whatever mixture of full, *)
(* aged and exported batches wrote it, for a buffer of any size.           *)
THEOREM FileHoldsTheLog == Spec => []FileIsTheLog
<1>1. Spec => []LogInv
  BY LogInit, LogStep, PTL DEF Spec
<1>2. LogInv => FileIsTheLog
  BY DEF LogInv, FileIsTheLog, InOrder, Rows
<1>. QED
  BY <1>1, <1>2, PTL

-----------------------------------------------------------------------------
(* The files on the card.                                                  *)

Phases == {"idle", "create", "header", "openPointer", "writePointer", "sync"}

FilesTypeOK ==
  /\ card \in [Names -> [owner : Nat, lines : Nat, entry : Nat]]
  /\ pointer \in Names \cup {NoName}
  /\ path \in Names \cup {NoName}
  /\ session \in Nat /\ flushes \in Nat
  /\ active \in BOOLEAN /\ pointed \in BOOLEAN
  /\ phase \in Phases

(* What the directory entry of a file does not cover yet: the batches      *)
(* since the last fsync, of the file being written alone.                  *)
Unsynced(n) == IF active /\ n = path THEN flushes ELSE 0

EntriesFollow ==
  /\ flushes <= SyncEvery /\ (phase # "sync" => flushes < SyncEvery)
  /\ \A n \in Names : card[n].lines = card[n].entry + Unsynced(n)
  /\ active => card[path].entry > 0

(* The name a session is about to take is free, or none of that second is; *)
(* a file without its header is not covered at all.                        *)
NameIsFree ==
  /\ phase = "create" => card[path] = NoFile \/ Free(path[1]) = {}
  /\ phase = "header" => card[path].entry = 0

(* A session that started belongs to a path, which is pointed to. *)
PointerFollows ==
  /\ active \/ phase # "idle" => path \in Names
  /\ phase \in {"create", "header"} => ~active
  /\ phase \in {"openPointer", "writePointer", "sync"} => active
  /\ active /\ phase \in {"idle", "sync"} /\ pointed => pointer = path

FilesInv == FilesTypeOK /\ EntriesFollow /\ NameIsFree /\ PointerFollows

(* The name chosen is one of the second's names, a free one if there is one. *)
LEMMA ChosenName ==
  ASSUME FilesTypeOK, NEW stamp \in Stamps
  PROVE  /\ NameFor(stamp) \in Names /\ NameFor(stamp)[1] = stamp
         /\ Free(stamp) # {} => card[NameFor(stamp)] = NoFile
<1>1. MaxSuffix \in Nat \ {0}
  BY FilesAssumption
<1>2. CASE Free(stamp) = {}
  BY <1>1, <1>2 DEF NameFor, Names
<1>3. CASE Free(stamp) # {}
  <2>. DEFINE S == Free(stamp)
  <2>1. S \in SUBSET Nat /\ S # {}
    <3>1. \A i \in 1 .. MaxSuffix : i \in Nat
      OBVIOUS
    <3>. QED
      BY <1>3, <3>1 DEF Free
  <2>. HIDE DEF S
  <2>2. \E i \in S : \A j \in S : i <= j
    BY <2>1, LeastNatural
  <2>3. Min(S) \in S
    BY <2>2 DEF Min
  <2>4. Min(Free(stamp)) \in 1 .. MaxSuffix /\ card[<<stamp, Min(Free(stamp))>>] = NoFile
    BY <2>3 DEF Free, S
  <2>. QED
    BY <1>3, <2>4 DEF NameFor, Names
<1>. QED
  BY <1>2, <1>3

LEMMA FilesInitInv == FilesInit => FilesInv
<1>. SUFFICES ASSUME FilesInit
              PROVE  FilesInv
  OBVIOUS
<1>. USE FilesAssumption DEF FilesInit
<1>1. FilesTypeOK
  BY DEF FilesTypeOK, NoFile, Phases
<1>2. EntriesFollow
  BY DEF EntriesFollow, Unsynced, NoFile
<1>. QED
  BY <1>1, <1>2 DEF FilesInv, NameIsFree, PointerFollows

LEMMA FilesStep ==
  ASSUME FilesInv, [FilesNext]_filesVars
  PROVE  FilesInv'
<1>. USE FilesAssumption DEF FilesInv, FilesTypeOK, Phases
<1>1. CASE ChooseName
  <2>1. PICK stamp \in Stamps : path' = NameFor(stamp)
    BY <1>1 DEF ChooseName
  <2>2. /\ path' \in Names /\ path'[1] = stamp
        /\ Free(stamp) # {} => card[path'] = NoFile
    BY <2>1, ChosenName
  <2>3. /\ UNCHANGED <<card, pointer, session, active, flushes, pointed>>
        /\ phase = "idle" /\ phase' = "create" /\ ~active
    BY <1>1 DEF ChooseName
  <2>4. EntriesFollow'
    BY <2>3 DEF EntriesFollow, Unsynced
  <2>5. NameIsFree'
    BY <2>2, <2>3 DEF NameIsFree, Free
  <2>. QED
    BY <2>2, <2>3, <2>4, <2>5 DEF PointerFollows
<1>2. CASE Create
  <2>1. path \in Names /\ ~active /\ phase = "create"
    BY <1>2 DEF Create, PointerFollows
  <2>2. CASE phase' = "idle" /\ UNCHANGED <<card, session>>
    BY <1>2, <2>1, <2>2 DEF Create, EntriesFollow, Unsynced, NameIsFree, PointerFollows
  <2>3. CASE /\ session' = session + 1 /\ phase' = "header"
             /\ card' = [card EXCEPT ![path] = [owner |-> session + 1, lines |-> 0, entry |-> 0]]
    <3>1. FilesTypeOK'
      BY <1>2, <2>1, <2>3 DEF Create
    <3>2. EntriesFollow'
      BY <1>2, <2>1, <2>3 DEF Create, EntriesFollow, Unsynced
    <3>3. NameIsFree' /\ PointerFollows'
      BY <1>2, <2>1, <2>3 DEF Create, NameIsFree, PointerFollows
    <3>. QED
      BY <3>1, <3>2, <3>3
  <2>. QED
    BY <1>2, <2>2, <2>3 DEF Create
<1>3. CASE Header
  <2>1. path \in Names /\ ~active /\ phase = "header" /\ card[path].lines = 0
    BY <1>3 DEF Header, PointerFollows, EntriesFollow, NameIsFree, Unsynced
  <2>2. /\ card' = [card EXCEPT ![path].lines = 1, ![path].entry = 1]
        /\ active' = TRUE /\ phase' = "openPointer"
        /\ UNCHANGED <<pointer, session, path, flushes, pointed>>
    BY <1>3 DEF Header
  <2>3. card' \in [Names -> [owner : Nat, lines : Nat, entry : Nat]]
    BY <2>1, <2>2
  <2>. QED
    BY <2>1, <2>2, <2>3 DEF EntriesFollow, Unsynced, NameIsFree, PointerFollows
<1>4. CASE OpenPointer
  BY <1>4 DEF OpenPointer, EntriesFollow, Unsynced, NameIsFree, PointerFollows
<1>5. CASE WritePointer
  BY <1>5 DEF WritePointer, EntriesFollow, Unsynced, NameIsFree, PointerFollows
<1>6. CASE Flush \/ Sync
  <2>1. /\ path \in Names /\ active /\ phase \in {"idle", "sync"} /\ phase' \in {"idle", "sync"}
        /\ UNCHANGED <<pointer, session, path, active, pointed>>
    BY <1>6 DEF Flush, Sync, PointerFollows
  <2>2. \/ /\ phase = "idle" /\ flushes' = flushes + 1
           /\ phase' # "sync" => flushes' < SyncEvery
           /\ card' = [card EXCEPT ![path].lines = card[path].lines + 1]
        \/ /\ flushes' = 0 /\ phase' = "idle"
           /\ card' = [card EXCEPT ![path].entry = card[path].lines]
    BY <1>6 DEF Flush, Sync, MustSync
  <2>3. FilesTypeOK'
    BY <2>1, <2>2
  <2>4. EntriesFollow'
    <3>1. flushes' <= SyncEvery /\ (phase' # "sync" => flushes' < SyncEvery)
      BY <2>1, <2>2 DEF EntriesFollow
    <3>2. ASSUME NEW n \in Names
          PROVE  card'[n].lines = card'[n].entry + Unsynced(n)'
      <4>1. CASE n = path
        BY <2>1, <2>2, <4>1 DEF EntriesFollow, Unsynced
      <4>2. CASE n # path
        BY <2>1, <2>2, <4>2 DEF EntriesFollow, Unsynced
      <4>. QED
        BY <4>1, <4>2
    <3>3. card'[path].entry > 0
      BY <2>1, <2>2 DEF EntriesFollow, Unsynced
    <3>. QED
      BY <2>1, <3>1, <3>2, <3>3 DEF EntriesFollow
  <2>. QED
    BY <2>1, <2>3, <2>4 DEF NameIsFree, PointerFollows
<1>7. CASE PowerCut
  <2>1. PICK lost : card' = [n \in Names |-> IF n \in lost THEN Stub(n)
                                             ELSE [card[n] EXCEPT !.lines = card[n].entry]]
    BY <1>7 DEF PowerCut
  <2>2. /\ path' = NoName /\ active' = FALSE /\ phase' = "idle" /\ flushes' = 0 /\ pointed' = TRUE
        /\ UNCHANGED <<pointer, session>>
    BY <1>7 DEF PowerCut
  <2>3. FilesTypeOK'
    BY <2>1, <2>2 DEF Stub, NoFile
  <2>4. EntriesFollow'
    BY <2>1, <2>2 DEF EntriesFollow, Unsynced, Stub, NoFile
  <2>. QED
    BY <2>2, <2>3, <2>4 DEF NameIsFree, PointerFollows
<1>8. CASE UNCHANGED filesVars
  BY <1>8 DEF filesVars, EntriesFollow, Unsynced, NameIsFree, PointerFollows, Free
<1>. QED
  BY <1>1, <1>2, <1>3, <1>4, <1>5, <1>6, <1>7, <1>8 DEF FilesNext

LEMMA FilesAlways == FilesSpec => []FilesInv
BY FilesInitInv, FilesStep, PTL DEF FilesSpec

(* An export without a chosen file takes the session under way, whatever   *)
(* earlier boots left.                                                     *)
THEOREM ExportTakesSession == FilesSpec => []ExportFindsSession
<1>1. FilesInv => ExportFindsSession
  <2>. SUFFICES ASSUME FilesInv, active, phase \in {"idle", "sync"}, pointed
                PROVE  FindActive = {path}
    BY DEF ExportFindsSession
  <2>1. pointer = path /\ path \in Names /\ card[path].entry > 0
    BY DEF FilesInv, PointerFollows, EntriesFollow
  <2>2. pointer # NoName
    <3>1. PICK s \in Stamps, i \in 1 .. MaxSuffix : path = <<s, i>>
      BY <2>1 DEF Names
    <3>2. Len(<<s, i>>) = 2 /\ Len(<<>>) = 0
      OBVIOUS
    <3>. QED
      BY <2>1, <3>1, <3>2 DEF NoName
  <2>3. pointer \in Sessions
    BY <2>1 DEF Sessions
  <2>. QED
    BY <2>1, <2>2, <2>3 DEF FindActive
<1>. QED
  BY <1>1, FilesAlways, PTL

(* No session takes the file of an earlier one while a suffix of its       *)
(* second is left.                                                         *)
THEOREM NamesAreNotReused == FilesSpec => EarlierSessionsKept
<1>1. ASSUME FilesInv, [FilesNext]_filesVars
      PROVE  [\A n \in Sessions :
                card'[n].owner = card[n].owner \/ Free(n[1]) = {}]_filesVars
  <2>. SUFFICES ASSUME FilesNext, NEW n \in Names, card[n].entry > 0, Free(n[1]) # {}
                PROVE  card'[n].owner = card[n].owner
    BY <1>1 DEF Sessions
  <2>. USE DEF FilesInv, FilesTypeOK
  <2>1. CASE Create
    <3>1. CASE n = path
      BY <1>1, <2>1, <3>1 DEF Create, NameIsFree, NoFile
    <3>2. CASE n # path
      BY <1>1, <2>1, <3>2 DEF Create, PointerFollows
    <3>. QED
      BY <3>1, <3>2
  <2>2. CASE Header
    BY <1>1, <2>2 DEF Header, PointerFollows
  <2>3. CASE Flush \/ Sync
    BY <1>1, <2>3 DEF Flush, Sync, PointerFollows
  <2>4. CASE PowerCut
    <3>1. PICK lost \in SUBSET AtRisk :
            card' = [m \in Names |-> IF m \in lost THEN Stub(m)
                                     ELSE [card[m] EXCEPT !.lines = card[m].entry]]
      BY <2>4 DEF PowerCut
    <3>2. n \in lost => phase # "header"
      BY <1>1, <3>1 DEF AtRisk, NameIsFree, EntriesFollow, Unsynced, PointerFollows
    <3>. QED
      BY <1>1, <3>1, <3>2 DEF Stub
  <2>5. CASE ChooseName \/ OpenPointer \/ WritePointer
    BY <2>5 DEF ChooseName, OpenPointer, WritePointer
  <2>. QED
    BY <2>1, <2>2, <2>3, <2>4, <2>5 DEF FilesNext
<1>. QED
  BY <1>1, FilesAlways, PTL DEF FilesSpec, EarlierSessionsKept

(* A power cut takes nothing from any session but the one it ends, and     *)
(* from that one only what was written since the last fsync, of at most    *)
(* SyncEvery batches, or the whole file when something was.                *)
THEOREM LossIsBounded == FilesSpec => BoundedLoss
<1>1. ASSUME FilesInv
      PROVE  PowerCut => \A n \in Sessions :
               \/ card'[n] = card[n]
               \/ /\ active /\ n = path
                  /\ card[n].lines - card[n].entry \in 1 .. SyncEvery
                  /\ card'[n].lines \in {card[n].entry, 0}
  <2>. SUFFICES ASSUME PowerCut, NEW n \in Sessions
                PROVE  \/ card'[n] = card[n]
                       \/ /\ active /\ n = path
                          /\ card[n].lines - card[n].entry \in 1 .. SyncEvery
                          /\ card'[n].lines \in {card[n].entry, 0}
    OBVIOUS
  <2>. USE FilesAssumption DEF FilesInv, FilesTypeOK
  <2>1. PICK lost \in SUBSET AtRisk :
          card' = [m \in Names |-> IF m \in lost THEN Stub(m)
                                   ELSE [card[m] EXCEPT !.lines = card[m].entry]]
    BY DEF PowerCut
  <2>2. n \in Names /\ card[n].entry > 0
    BY DEF Sessions
  <2>3. /\ card[n].lines = card[n].entry + Unsynced(n) /\ flushes <= SyncEvery
        /\ card[n] \in [owner : Nat, lines : Nat, entry : Nat] /\ flushes \in Nat
    BY <1>1, <2>2 DEF EntriesFollow
  <2>4. CASE Unsynced(n) = 0
    <3>1. n \notin lost
      BY <1>1, <2>1, <2>2, <2>3, <2>4 DEF AtRisk, NameIsFree
    <3>2. card[n].lines = card[n].entry
      BY <2>3, <2>4
    <3>. QED
      BY <2>1, <2>2, <2>3, <3>1, <3>2
  <2>5. CASE Unsynced(n) # 0
    <3>1. active /\ n = path /\ card[n].lines - card[n].entry \in 1 .. SyncEvery
      BY <2>3, <2>5 DEF Unsynced
    <3>2. card'[n].lines \in {card[n].entry, 0}
      BY <2>1, <2>2, <2>3 DEF Stub, NoFile
    <3>. QED
      BY <3>1, <3>2
  <2>. QED
    BY <2>4, <2>5
<1>. QED
  BY <1>1, FilesAlways, PTL DEF FilesSpec, BoundedLoss

=============================================================================
