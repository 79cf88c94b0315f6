------------------------- MODULE EventLoopProofs --------------------------
(***************************************************************************)
(* From a scan record to an alert.  The queue set of the event loop        *)
(* announces exactly the messages there are, in an order that pairs every  *)
(* record with its GPS fix, for queues of any length; and an alert is      *)
(* justified although the configuration may be replaced between any two    *)
(* reads of a check, for target lists, thresholds and logs of any size.    *)
(***************************************************************************)
EXTENDS EventLoop, AlertEngine, Counting, SequenceTheorems

-----------------------------------------------------------------------------
(***************************************************************************)
(* The event loop.                                                         *)
(***************************************************************************)

(* The inductive invariant.                                                *)

(* The boot adds every queue to the set, empty, before a producer runs.    *)
BootInOrder ==
  /\ step \in 0 .. 6
  /\ members = CASE step = 0 -> {}
                 [] step = 1 -> {"scan"}
                 [] step = 2 -> {"scan", "env"}
                 [] OTHER -> Sources
  /\ running \subseteq Sources
  /\ step <= 3 => running = {} /\ \A s \in Sources : queue[s] = <<>>
  /\ step <= 5 => serving = "none"

LoopTypeOK ==
  /\ queue \in [Sources -> Seq(Nat)]
  /\ ready \in Seq(Sources)
  /\ serving \in Sources \cup {"none"}
  /\ latest \in Nat
  /\ fix \in Nat

(* The fix the event loop knows once it has received k more snapshots. *)
FixAfter(k) == IF k = 0 THEN latest ELSE queue["env"][k]

(* A record carries the fix known when its entry of the set is reached. *)
RecordsPaired ==
  /\ fix = FixAfter(Len(queue["env"]))
  /\ \A i \in DOMAIN ready :
       ready[i] = "scan" => queue["scan"][Announced("scan", i)] = FixAfter(Announced("env", i))
  /\ serving = "scan" => Head(queue["scan"]) = latest

LoopInv == LoopTypeOK /\ BootInOrder /\ SetMatchesQueues /\ RecordsPaired

LEMMA LoopInit == Init => LoopInv
<1>. SUFFICES ASSUME Init
              PROVE  LoopInv
  OBVIOUS
<1>1. LoopTypeOK /\ BootInOrder
  BY DEF Init, LoopTypeOK, BootInOrder, Sources
<1>2. \A s \in Sources : Announced(s, 0) = 0
  <2>1. \A s \in Sources : {k \in 1 .. 0 : ready[k] = s} = {}
    OBVIOUS
  <2>. QED
    BY <2>1, FS_EmptySet DEF Announced, Init, Sources
<1>3. SetMatchesQueues
  BY <1>2 DEF SetMatchesQueues, Init
<1>4. RecordsPaired
  BY DEF RecordsPaired, Init, FixAfter, Sources
<1>. QED
  BY <1>1, <1>3, <1>4 DEF LoopInv

-----------------------------------------------------------------------------
(* The steps of the loop.                                                  *)

(* Every entry of the set stands for a message its queue holds. *)
LEMMA AnnouncedBounds ==
  ASSUME LoopTypeOK, SetMatchesQueues, NEW s \in Sources, NEW i \in 0 .. Len(ready)
  PROVE  /\ Announced(s, i) \in 0 .. Len(queue[s])
         /\ i > 0 /\ ready[i] = s =>
              Announced(s, i) >= 1 + (IF serving = s THEN 1 ELSE 0)
<1>1. Len(ready) \in Nat /\ Len(queue[s]) \in Nat /\ i \in Nat
  BY DEF LoopTypeOK
<1>2. /\ Occurrences(ready, s, i) \in Nat
      /\ Occurrences(ready, s, i) <= Occurrences(ready, s, Len(ready))
      /\ i > 0 /\ ready[i] = s => Occurrences(ready, s, i) >= 1
  BY <1>1, OccurrencesFinite, OccurrencesBounds
<1>3. Occurrences(ready, s, Len(ready)) \in Nat
  BY <1>1, OccurrencesFinite
<1>4. Len(queue[s]) = Occurrences(ready, s, Len(ready)) + (IF serving = s THEN 1 ELSE 0)
  BY DEF SetMatchesQueues, Announced, Occurrences
<1>5. Announced(s, i) = Occurrences(ready, s, i) + (IF serving = s THEN 1 ELSE 0)
  BY DEF Announced, Occurrences
<1>. QED
  BY <1>1, <1>2, <1>3, <1>4, <1>5

(* Selecting the oldest entry moves what is announced, and loses nothing. *)
LEMMA SelectAnnounces ==
  ASSUME LoopTypeOK, Select, NEW s \in Sources, NEW i \in 0 .. Len(ready) - 1
  PROVE  Announced(s, i)' = Announced(s, i + 1)
<1>1. /\ serving = "none" /\ serving # s /\ serving' = ready[1]
      /\ ready' = Tail(ready) /\ ready \in Seq(Sources) /\ ready # <<>>
  BY DEF Select, LoopTypeOK, Sources
<1>2. i \in Nat /\ i + 1 \in Nat /\ \A k \in 1 .. i : ready'[k] = ready[k + 1]
  BY <1>1
<1>3. Occurrences(ready, s, i + 1)
        = Occurrences(ready', s, i) + (IF ready[1] = s THEN 1 ELSE 0)
  BY <1>2, OccurrencesShifted
<1>4. Announced(s, i)' = Occurrences(ready', s, i) + (IF ready[1] = s THEN 1 ELSE 0)
  BY <1>1 DEF Announced, Occurrences
<1>5. Announced(s, i + 1) = Occurrences(ready, s, i + 1)
  <2>1. Occurrences(ready, s, i + 1) \in Nat
    BY <1>2, OccurrencesFinite
  <2>2. Announced(s, i + 1) = Occurrences(ready, s, i + 1) + 0
    BY <1>1 DEF Announced, Occurrences
  <2>. QED
    BY <2>1, <2>2
<1>. QED
  BY <1>3, <1>4, <1>5

LEMMA SelectStep ==
  ASSUME LoopInv, Select
  PROVE  LoopInv'
<1>. USE DEF LoopInv
<1>1. /\ serving = "none" /\ serving' = ready[1] /\ ready[1] \in Sources
      /\ ready' = Tail(ready) /\ ready \in Seq(Sources) /\ Len(ready) \in Nat \ {0}
      /\ ready' \in Seq(Sources) /\ Len(ready') = Len(ready) - 1
      /\ \A i \in 1 .. Len(ready') : ready'[i] = ready[i + 1]
      /\ UNCHANGED <<step, queue, members, running, latest, fix, aborted>>
  BY DEF Select, LoopTypeOK
<1>2. LoopTypeOK'
  BY <1>1 DEF LoopTypeOK
<1>3. BootInOrder'
  BY <1>1 DEF BootInOrder, Select, Looping, Plan
<1>4. SetMatchesQueues'
  <2>0. Len(ready') \in Nat
    BY <1>1
  <2>1. PICK n \in Nat : n = Len(ready')
    BY <2>0, Zenon
  <2>2. n \in 0 .. Len(ready) - 1 /\ n + 1 = Len(ready)
    BY <1>1, <2>1
  <2>3. ASSUME NEW s \in Sources
        PROVE  Announced(s, n)' = Len(queue[s])
    BY <2>2, <2>3, SelectAnnounces DEF SetMatchesQueues
  <2>4. \A s \in Sources : Announced(s, Len(ready))' = Announced(s, n)'
    BY <2>1 DEF Announced
  <2>. QED
    BY <1>1, <2>3, <2>4 DEF SetMatchesQueues
<1>5. RecordsPaired'
  <2>1. ASSUME NEW i \in DOMAIN ready', ready'[i] = "scan"
        PROVE  queue["scan"][Announced("scan", i)'] = FixAfter(Announced("env", i)')
    <3>1. i \in 0 .. Len(ready) - 1 /\ i + 1 \in DOMAIN ready /\ ready[i + 1] = "scan"
      BY <1>1, <2>1
    <3>2. /\ Announced("scan", i)' = Announced("scan", i + 1)
          /\ Announced("env", i)' = Announced("env", i + 1)
      BY <3>1, SelectAnnounces DEF Sources
    <3>. QED
      BY <3>1, <3>2 DEF RecordsPaired
  <2>2. ASSUME serving' = "scan"
        PROVE  Head(queue["scan"]) = latest
    <3>1. ready[1] = "scan" /\ 1 \in DOMAIN ready
      BY <1>1, <2>2
    <3>2. Announced("scan", 1) = 1 /\ Announced("env", 1) = 0
      <4>1. /\ Occurrences(ready, "scan", 0 + 1) = Occurrences(ready, "scan", 0) + 1
            /\ Occurrences(ready, "env", 0 + 1) = Occurrences(ready, "env", 0) + 0
        BY <3>1, OccurrencesNext
      <4>2. \A x : {k \in 1 .. 0 : ready[k] = x} = {}
        OBVIOUS
      <4>3. \A x : Occurrences(ready, x, 0) = 0
        BY <4>2, FS_EmptySet DEF Occurrences
      <4>4. Occurrences(ready, "scan", 1) = 1 /\ Occurrences(ready, "env", 1) = 0
        BY <4>1, <4>3
      <4>. QED
        BY <1>1, <4>4 DEF Announced, Occurrences
    <3>3. queue["scan"][1] = latest
      BY <3>1, <3>2 DEF RecordsPaired, FixAfter
    <3>. QED
      BY <3>3
  <2>. QED
    BY <1>1, <2>1, <2>2 DEF RecordsPaired, FixAfter
<1>. QED
  BY <1>2, <1>3, <1>4, <1>5 DEF Select

(* A receive takes the message its entry stood for. *)
LEMMA ServeStep ==
  ASSUME LoopInv, Serve
  PROVE  LoopInv'
<1>. USE DEF LoopInv
<1>0. PICK s \in Sources : /\ Receive(s)
                          /\ latest' = IF s = "env" THEN Head(queue["env"]) ELSE latest
  BY DEF Serve, ServeScan, ServeEnv, ServeBle, Sources
<1>1. /\ serving = s /\ serving' = "none"
      /\ queue' = [queue EXCEPT ![s] = Tail(@)]
      /\ queue \in [Sources -> Seq(Nat)] /\ ready \in Seq(Sources)
      /\ UNCHANGED <<step, members, ready, running, fix, aborted>>
  BY <1>0 DEF Receive, LoopTypeOK
<1>2. ASSUME NEW x \in Sources, NEW i \in 0 .. Len(ready)
      PROVE  Announced(x, i)' = IF x = s THEN Announced(x, i) - 1 ELSE Announced(x, i)
  <2>1. i \in Nat
    BY <1>1
  <2>2. Occurrences(ready, x, i) \in Nat
    BY <2>1, OccurrencesFinite
  <2>3. /\ Announced(x, i)' = Occurrences(ready, x, i) + 0
        /\ Announced(x, i) = Occurrences(ready, x, i) + (IF x = s THEN 1 ELSE 0)
    BY <1>1 DEF Announced, Occurrences, Sources
  <2>. QED
    BY <2>2, <2>3
<1>3. Len(ready) \in Nat /\ Len(ready) \in 0 .. Len(ready)
  BY <1>1
<1>4. queue[s] # <<>>
  <2>1. Announced(s, Len(ready)) = Occurrences(ready, s, Len(ready)) + 1
    BY <1>1 DEF Announced, Occurrences
  <2>2. Occurrences(ready, s, Len(ready)) \in Nat
    BY <1>3, OccurrencesFinite
  <2>3. Len(queue[s]) > 0
    BY <2>1, <2>2 DEF SetMatchesQueues
  <2>. QED
    BY <1>1, <2>3
<1>5. /\ Len(queue'[s]) = Len(queue[s]) - 1 /\ Len(queue[s]) \in Nat \ {0}
      /\ queue'[s] \in Seq(Nat) /\ Head(queue[s]) = queue[s][1] /\ Head(queue[s]) \in Nat
      /\ \A k \in 1 .. Len(queue[s]) - 1 : queue'[s][k] = queue[s][k + 1]
      /\ \A x \in Sources \ {s} : queue'[x] = queue[x]
  <2>1. queue'[s] = Tail(queue[s]) /\ queue[s] \in Seq(Nat)
    BY <1>1
  <2>. QED
    BY <1>1, <1>4, <2>1
<1>6. LoopTypeOK'
  BY <1>0, <1>1, <1>5 DEF LoopTypeOK
<1>7. BootInOrder'
  BY <1>1 DEF BootInOrder, Sources
<1>8. SetMatchesQueues'
  <2>1. PICK n \in 0 .. Len(ready) : n = Len(ready)
    BY <1>3, Zenon
  <2>2. ASSUME NEW x \in Sources
        PROVE  Len(queue'[x]) = Announced(x, n)'
    <3>1. Len(queue[x]) = Announced(x, n)
      BY <2>1 DEF SetMatchesQueues
    <3>. QED
      BY <1>1, <1>2, <1>5, <3>1
  <2>3. \A x \in Sources : Announced(x, Len(ready))' = Announced(x, n)'
    BY <1>1, <2>1 DEF Announced
  <2>. QED
    BY <1>1, <2>2, <2>3 DEF SetMatchesQueues
<1>9. RecordsPaired'
  <2>2. (fix = FixAfter(Len(queue["env"])))'
    <3>1. Len(queue'["env"]) \in Nat
      BY <1>6 DEF LoopTypeOK, Sources
    <3>2. fix = FixAfter(Len(queue["env"]))
      BY DEF RecordsPaired
    <3>3. Len(queue["env"]) = IF s = "env" THEN Len(queue'["env"]) + 1 ELSE Len(queue'["env"])
      BY <1>1, <1>5 DEF Sources
    <3>4. CASE s = "env"
      <4>1. fix = queue[s][Len(queue[s])]
        BY <1>5, <3>2, <3>4 DEF FixAfter
      <4>2. Len(queue'[s]) # 0 => queue'[s][Len(queue'[s])] = queue[s][Len(queue[s])]
        <5>1. PICK n \in Nat : Len(queue'[s]) = n /\ Len(queue[s]) = n + 1
          BY <1>5
        <5>2. n # 0 => queue'[s][n] = queue[s][n + 1]
          BY <1>5, <5>1
        <5>. QED
          BY <5>1, <5>2
      <4>3. Len(queue'[s]) = 0 => latest' = queue[s][Len(queue[s])]
        BY <1>0, <1>5, <3>4
      <4>. QED
        BY <1>1, <3>4, <4>1, <4>2, <4>3 DEF FixAfter
    <3>5. CASE s # "env"
      BY <1>0, <1>1, <1>5, <3>1, <3>2, <3>3, <3>5 DEF FixAfter, Sources
    <3>. QED
      BY <3>4, <3>5
  <2>3. ASSUME NEW i \in DOMAIN ready, ready[i] = "scan",
               NEW a, a = Announced("scan", i)', NEW b, b = Announced("env", i)'
        PROVE  queue'["scan"][a] = FixAfter(b)'
    <3>1. /\ i \in 0 .. Len(ready) /\ i > 0 /\ i \in Nat
          /\ "scan" \in Sources /\ "env" \in Sources
      BY <1>1 DEF Sources
    <3>2. /\ Announced("scan", i) \in 1 .. Len(queue["scan"])
          /\ s = "scan" => Announced("scan", i) >= 2
          /\ Announced("env", i) \in 0 .. Len(queue["env"])
          /\ s = "env" => Announced("env", i) >= 1
      <4>1. /\ Announced("scan", i) \in 0 .. Len(queue["scan"])
            /\ Announced("scan", i) >= 1 + (IF serving = "scan" THEN 1 ELSE 0)
            /\ Announced("env", i) \in 0 .. Len(queue["env"])
        BY <2>3, <3>1, AnnouncedBounds
      <4>2. Occurrences(ready, "env", i) \in Nat
        BY <3>1, OccurrencesFinite
      <4>3. s = "env" => Announced("env", i) = Occurrences(ready, "env", i) + 1
        BY <1>1 DEF Announced, Occurrences
      <4>. QED
        BY <1>1, <4>1, <4>2, <4>3
    <3>3. /\ Announced("scan", i)' = IF s = "scan" THEN Announced("scan", i) - 1
                                                   ELSE Announced("scan", i)
          /\ Announced("env", i)' = IF s = "env" THEN Announced("env", i) - 1
                                                 ELSE Announced("env", i)
      BY <1>2, <3>1
    <3>4. queue["scan"][Announced("scan", i)] = FixAfter(Announced("env", i))
      BY <2>3 DEF RecordsPaired
    <3>5. queue'["scan"][a] = queue["scan"][Announced("scan", i)]
      <4>1. CASE s = "scan"
        <5>1. Len(queue[s]) \in Nat /\ \A k \in 2 .. Len(queue[s]) : queue'[s][k - 1] = queue[s][k]
          BY <1>5
        <5>2. a = Announced("scan", i) - 1 /\ Announced("scan", i) \in 2 .. Len(queue[s])
          BY <2>3, <3>2, <3>3, <4>1, <5>1
        <5>. QED
          BY <4>1, <5>1, <5>2
      <4>2. CASE s # "scan"
        BY <1>5, <2>3, <3>1, <3>3, <4>2
      <4>. QED
        BY <4>1, <4>2
    <3>6. FixAfter(b)' = FixAfter(Announced("env", i))
      <4>1. CASE s = "env"
        <5>1. Len(queue[s]) \in Nat /\ \A k \in 2 .. Len(queue[s]) : queue'[s][k - 1] = queue[s][k]
          BY <1>5
        <5>0. latest' = queue[s][1]
          BY <1>0, <1>5, <4>1
        <5>2. b = Announced("env", i) - 1 /\ Announced("env", i) \in 1 .. Len(queue[s])
          BY <2>3, <3>2, <3>3, <4>1, <5>1
        <5>3. b # 0 => queue'[s][b] = queue[s][Announced("env", i)]
          BY <5>1, <5>2
        <5>. QED
          BY <4>1, <5>0, <5>1, <5>2, <5>3 DEF FixAfter
      <4>2. CASE s # "env"
        BY <1>0, <1>5, <2>3, <3>1, <3>3, <4>2 DEF FixAfter
      <4>. QED
        BY <4>1, <4>2
    <3>. QED
      BY <3>4, <3>5, <3>6
  <2>4. ASSUME NEW i \in DOMAIN ready', ready'[i] = "scan"
        PROVE  (queue["scan"][Announced("scan", i)] = FixAfter(Announced("env", i)))'
    <3>1. \A a, b : a = Announced("scan", i)' /\ b = Announced("env", i)'
                     => queue'["scan"][a] = FixAfter(b)'
      BY <1>1, <2>3, <2>4
    <3>. QED
      BY <3>1 DEF FixAfter
  <2>. QED
    BY <1>1, <2>2, <2>4 DEF RecordsPaired
<1>. QED
  BY <1>6, <1>7, <1>8, <1>9

-----------------------------------------------------------------------------
(* The boot and the producers.                                             *)

(* The boot adds a queue, still empty, or starts a producer when all three *)
(* are members.                                                            *)
LEMMA BootCases ==
  ASSUME BootInOrder, LoopTypeOK, ~aborted, BootStep
  PROVE  /\ step' = step + 1 /\ step \in 0 .. 5
         /\ BootInOrder'
         /\ ~aborted'
<1>1. /\ step \in 0 .. 5 /\ step' = step + 1
      /\ UNCHANGED <<queue, serving>>
  BY DEF BootStep, BootInOrder, Plan
<1>2. CASE step \in 0 .. 2
  <2>1. Plan[step + 1][1] = "add" /\ Plan[step + 1][2] \in Sources
    BY <1>2 DEF Plan, Sources
  <2>2. /\ queue[Plan[step + 1][2]] = <<>>
        /\ members' = members \cup {Plan[step + 1][2]}
        /\ UNCHANGED <<aborted, running>>
    BY <1>2, <2>1 DEF BootStep, BootInOrder
  <2>3. Plan[1][2] = "scan" /\ Plan[2][2] = "env" /\ Plan[3][2] = "ble"
    BY DEF Plan
  <2>4. step = 0 \/ step = 1 \/ step = 2
    BY <1>2
  <2>5. members' = IF step = 0 THEN {"scan"} ELSE IF step = 1 THEN {"scan", "env"} ELSE Sources
    BY <2>2, <2>3, <2>4 DEF BootInOrder, Sources
  <2>. QED
    BY <1>1, <1>2, <2>2, <2>5 DEF BootInOrder
<1>3. CASE step \in 3 .. 5
  <2>1. Plan[step + 1][1] = "start" /\ Plan[step + 1][2] \in Sources
    BY <1>3 DEF Plan, Sources
  <2>2. /\ running' = running \cup {Plan[step + 1][2]}
        /\ UNCHANGED <<aborted, members>>
    BY <2>1 DEF BootStep
  <2>. QED
    BY <1>1, <1>3, <2>1, <2>2 DEF BootInOrder, BootStep
<1>. QED
  BY <1>1, <1>2, <1>3

LEMMA BootKeeps ==
  ASSUME LoopInv, BootStep
  PROVE  LoopInv'
<1>. USE DEF LoopInv
<1>1. BootInOrder' /\ ~aborted'
  BY BootCases DEF SetMatchesQueues
<1>2. UNCHANGED <<queue, ready, serving, latest, fix>>
  BY DEF BootStep
<1>3. LoopTypeOK'
  BY <1>2 DEF LoopTypeOK
<1>4. SetMatchesQueues'
  BY <1>1, <1>2 DEF SetMatchesQueues, Announced
<1>5. RecordsPaired'
  BY <1>2 DEF RecordsPaired, Announced, FixAfter
<1>. QED
  BY <1>1, <1>3, <1>4, <1>5

(* Every producer that runs posts to a member of the set. *)
LEMMA PostKeeps ==
  ASSUME LoopInv, NEW s \in Sources, Post(s)
  PROVE  LoopInv'
<1>. USE DEF LoopInv
<1>1. /\ step > 3 /\ members = Sources
      /\ UNCHANGED <<step, members, running, serving, latest, aborted>>
  BY DEF Post, BootInOrder
<1>. DEFINE message == IF s = "ble" THEN 0 ELSE fix'
<1>2. /\ queue' = [queue EXCEPT ![s] = Append(@, message)]
      /\ ready' = Append(ready, s)
  BY <1>1 DEF Post
<1>3. fix' \in Nat /\ (s # "env" => fix' = fix)
  BY LoopAssumption DEF Post, LoopTypeOK
<1>4. message \in Nat
  BY <1>3
<1>. HIDE DEF message
<1>5. /\ queue \in [Sources -> Seq(Nat)] /\ ready \in Seq(Sources)
      /\ Len(ready) \in Nat /\ \A x \in Sources : Len(queue[x]) \in Nat
  BY DEF LoopTypeOK
<1>6. LoopTypeOK'
  BY <1>1, <1>2, <1>3, <1>4 DEF LoopTypeOK
<1>7. BootInOrder'
  BY <1>1 DEF BootInOrder
<1>8. /\ Len(ready') = Len(ready) + 1 /\ ready'[Len(ready) + 1] = s
      /\ \A k \in 1 .. Len(ready) : ready'[k] = ready[k]
      /\ queue'[s] = Append(queue[s], message)
      /\ \A x \in Sources \ {s} : queue'[x] = queue[x]
  BY <1>2, <1>5
<1>9. ASSUME NEW x \in Sources, NEW i \in 0 .. Len(ready)
      PROVE  Announced(x, i)' = Announced(x, i)
  <2>0. i \in Nat
    BY <1>5
  <2>1. \A k \in 1 .. i : ready'[k] = ready[k]
    <3>1. \A k \in 1 .. i : k \in 1 .. Len(ready)
      BY <1>5, <2>0
    <3>. QED
      BY <1>8, <3>1
  <2>2. Occurrences(ready', x, i) = Occurrences(ready, x, i)
    BY <2>0, <2>1, OccurrencesSame
  <2>. QED
    BY <1>1, <2>2 DEF Announced, Occurrences
<1>10. PICK n \in Nat : n = Len(ready)
  BY <1>5, Zenon
<1>11. ASSUME NEW x \in Sources
       PROVE  /\ Announced(x, n) = Len(queue[x])
              /\ Announced(x, n + 1)' = Len(queue[x]) + (IF x = s THEN 1 ELSE 0)
  <2>1. Announced(x, n) = Len(queue[x])
    BY <1>10 DEF SetMatchesQueues
  <2>2. /\ Occurrences(ready', x, n + 1) = Occurrences(ready', x, n) + (IF x = s THEN 1 ELSE 0)
        /\ Occurrences(ready', x, n) = Occurrences(ready, x, n)
        /\ Occurrences(ready, x, n) \in Nat
    <3>1. /\ Occurrences(ready, x, n) \in Nat
          /\ Occurrences(ready', x, n + 1) =
               Occurrences(ready', x, n) + (IF ready'[n + 1] = x THEN 1 ELSE 0)
      BY OccurrencesNext, OccurrencesFinite
    <3>2. Occurrences(ready', x, n) = Occurrences(ready, x, n)
      BY <1>8, <1>10, OccurrencesSame
    <3>. QED
      BY <1>8, <1>10, <3>1, <3>2
  <2>3. /\ Announced(x, n) = Occurrences(ready, x, n) + (IF serving = x THEN 1 ELSE 0)
        /\ Announced(x, n + 1)' = Occurrences(ready', x, n + 1) + (IF serving = x THEN 1 ELSE 0)
    BY <1>1 DEF Announced, Occurrences
  <2>. QED
    BY <2>1, <2>2, <2>3
<1>12. ASSUME NEW x \in Sources
       PROVE  /\ Len(queue'[x]) = Len(queue[x]) + (IF x = s THEN 1 ELSE 0)
              /\ \A k \in 1 .. Len(queue[x]) : queue'[x][k] = queue[x][k]
              /\ x = s => queue'[x][Len(queue[x]) + 1] = message
  <2>1. queue[x] \in Seq(Nat) /\ Len(queue[x]) \in Nat
    BY <1>5
  <2>2. CASE x = s
    BY <1>4, <1>8, <2>1, <2>2
  <2>3. CASE x # s
    <3>1. queue'[x] = queue[x] /\ Len(queue[x]) = Len(queue[x]) + 0
      BY <1>8, <2>1, <2>3
    <3>. QED
      BY <2>3, <3>1
  <2>. QED
    BY <2>2, <2>3
<1>13. SetMatchesQueues'
  <2>1. \A x \in Sources : Announced(x, Len(ready))' = Announced(x, n + 1)'
    BY <1>8, <1>10 DEF Announced
  <2>. QED
    BY <1>1, <1>11, <1>12, <2>1 DEF SetMatchesQueues
<1>14. ASSUME NEW b \in 0 .. Len(queue["env"])
       PROVE  FixAfter(b)' = FixAfter(b)
  BY <1>1, <1>12 DEF FixAfter, Sources
<1>15. fix = FixAfter(Len(queue["env"]))
  BY DEF RecordsPaired
<1>16. (fix = FixAfter(Len(queue["env"])))'
  <2>1. "env" \in Sources
    BY DEF Sources
  <2>2. CASE s = "env"
    <3>1. PICK k \in Nat : k = Len(queue["env"])
      BY <1>5, <2>1, Zenon
    <3>2. Len(queue'["env"]) = k + 1 /\ queue'["env"][k + 1] = fix'
      BY <1>12, <2>1, <2>2, <3>1 DEF message
    <3>. QED
      BY <3>1, <3>2 DEF FixAfter
  <2>3. CASE s # "env"
    <3>1. queue'["env"] = queue["env"]
      BY <1>8, <2>1, <2>3
    <3>. QED
      BY <1>1, <1>3, <1>15, <2>3, <3>1 DEF FixAfter
  <2>. QED
    BY <2>2, <2>3
<1>17. ASSUME NEW i \in 1 .. n + 1, ready'[i] = "scan",
              NEW a, a = Announced("scan", i)', NEW b, b = Announced("env", i)'
       PROVE  queue'["scan"][a] = FixAfter(b)'
  <2>1. "scan" \in Sources /\ "env" \in Sources
    BY DEF Sources
  <2>2. CASE i <= n
    <3>1. i \in 0 .. Len(ready) /\ i > 0 /\ i \in DOMAIN ready /\ ready[i] = "scan"
      BY <1>5, <1>8, <1>10, <1>17, <2>2
    <3>2. a = Announced("scan", i) /\ b = Announced("env", i)
      BY <1>9, <1>17, <2>1, <3>1
    <3>3. a \in 1 .. Len(queue["scan"]) /\ b \in 0 .. Len(queue["env"])
      <4>1. /\ a \in 0 .. Len(queue["scan"]) /\ a >= 1 + (IF serving = "scan" THEN 1 ELSE 0)
            /\ b \in 0 .. Len(queue["env"])
        BY <2>1, <3>1, <3>2, AnnouncedBounds
      <4>. QED
        BY <4>1
    <3>4. queue["scan"][a] = FixAfter(b)
      BY <3>1, <3>2 DEF RecordsPaired
    <3>. QED
      BY <1>12, <1>14, <2>1, <3>3, <3>4
  <2>3. CASE i = n + 1
    <3>1. s = "scan"
      BY <1>8, <1>10, <1>17, <2>3
    <3>2. a = Len(queue["scan"]) + 1 /\ b = Len(queue["env"]) + 0
      BY <1>11, <1>17, <2>1, <2>3, <3>1
    <3>3. b = Len(queue["env"]) /\ b \in 0 .. Len(queue["env"])
      BY <1>5, <2>1, <3>2
    <3>4. queue'["scan"][a] = fix
      BY <1>3, <1>12, <2>1, <3>1, <3>2 DEF message
    <3>. QED
      BY <1>14, <1>15, <3>3, <3>4
  <2>. QED
    BY <2>2, <2>3
<1>18. ASSUME NEW i \in DOMAIN ready', ready'[i] = "scan"
       PROVE  (queue["scan"][Announced("scan", i)] = FixAfter(Announced("env", i)))'
  <2>1. i \in 1 .. n + 1
    BY <1>6, <1>8, <1>10 DEF LoopTypeOK
  <2>2. \A a, b : a = Announced("scan", i)' /\ b = Announced("env", i)'
                   => queue'["scan"][a] = FixAfter(b)'
    BY <1>17, <1>18, <2>1
  <2>. QED
    BY <2>2 DEF FixAfter
<1>19. ASSUME serving = "scan"
       PROVE  Head(queue'["scan"]) = latest
  <2>1. "scan" \in Sources /\ n \in 0 .. Len(ready)
    BY <1>10 DEF Sources
  <2>2. Len(queue["scan"]) = Occurrences(ready, "scan", n) + 1
    BY <1>11, <1>19, <2>1 DEF Announced, Occurrences
  <2>3. Occurrences(ready, "scan", n) \in Nat
    BY OccurrencesFinite
  <2>4. queue'["scan"][1] = queue["scan"][1]
    <3>1. 1 \in 1 .. Len(queue["scan"])
      BY <2>2, <2>3
    <3>. QED
      BY <1>12, <2>1, <3>1
  <2>5. Head(queue["scan"]) = latest
    BY <1>19 DEF RecordsPaired
  <2>. QED
    BY <2>4, <2>5
<1>20. RecordsPaired'
  BY <1>1, <1>16, <1>18, <1>19 DEF RecordsPaired
<1>. QED
  BY <1>6, <1>7, <1>13, <1>20

LEMMA LoopStep ==
  ASSUME LoopInv, [Next]_vars
  PROVE  LoopInv'
<1>1. CASE BootStep
  BY <1>1, BootKeeps
<1>2. ASSUME NEW s \in Sources, Post(s)
      PROVE  LoopInv'
  BY <1>2, PostKeeps
<1>3. CASE Select
  BY <1>3, SelectStep
<1>4. CASE Serve
  BY <1>4, ServeStep
<1>5. CASE Handled \/ Skip \/ Gate \/ Plug \/ UNCHANGED vars
  <2>1. UNCHANGED <<step, queue, members, ready, running, serving, latest, fix, aborted>>
    BY <1>5 DEF Handled, Skip, Gate, Plug, vars
  <2>2. LoopTypeOK' /\ BootInOrder'
    BY <2>1 DEF LoopInv, LoopTypeOK, BootInOrder
  <2>3. SetMatchesQueues' /\ RecordsPaired'
    BY <2>1 DEF LoopInv, SetMatchesQueues, RecordsPaired, Announced, FixAfter
  <2>. QED
    BY <2>2, <2>3 DEF LoopInv
<1>. QED
  BY <1>1, <1>2, <1>3, <1>4, <1>5 DEF Next

LEMMA LoopInvariant == Spec => []LoopInv
BY LoopInit, LoopStep, PTL DEF Spec

(* The boot never fails on a queue that already holds data, every receive  *)
(* finds the message its entry stands for and no message is left without   *)
(* an entry: queues of any length, producers of any speed.                 *)
THEOREM NothingLeftInQueues == Spec => []SetMatchesQueues
BY LoopInvariant, PTL DEF LoopInv

(* A record logged late is still logged with the fix it was seen at.       *)
THEOREM RecordsKeepTheirFix == Spec => FixIsTheNewestBefore
<1>1. LoopInv => (ServeScan => Head(queue["scan"]) = latest)
  BY DEF LoopInv, RecordsPaired, ServeScan, Receive
<1>2. LoopInv /\ [Next]_vars => [ServeScan => Head(queue["scan"]) = latest]_vars
  BY <1>1
<1>. QED
  BY <1>2, LoopInvariant, PTL DEF Spec, FixIsTheNewestBefore

-----------------------------------------------------------------------------
(***************************************************************************)
(* The alert engine, which the loop calls with every record.               *)
(***************************************************************************)

Configs == [enabled : BOOLEAN, ssids : Seq(Ssids), bssids : Seq(Bssids), threshold : Int]

Checking == pc # "idle"

CheckTypeOK ==
  /\ cfg \in Configs
  /\ index \in Nat \ {0}
  /\ at \in Nat \ {0}
  /\ pc \notin {"ssidEntry", "bssidEntry"} => at = 1
  /\ inForce \subseteq Configs
  /\ Checking => ap \in Aps /\ cfg \in inForce

-----------------------------------------------------------------------------
(* Edits.                                                                  *)

(* Every edit replaces the configuration by one of the same type.          *)
LEMMA EditReplaces ==
  ASSUME CheckTypeOK, EditConfig
  PROVE  \E c \in Configs : ConfigSet(c)
<1>. USE DEF CheckTypeOK, Configs
<1>0. /\ \A list \in Seq(Ssids) : [cfg EXCEPT !.ssids = list] \in Configs
      /\ \A list \in Seq(Bssids) : [cfg EXCEPT !.bssids = list] \in Configs
  OBVIOUS
<1>1. CASE AddTarget
  <2>1. /\ \A s \in Ssids : Append(cfg.ssids, s) \in Seq(Ssids)
        /\ \A b \in Bssids : Append(cfg.bssids, b) \in Seq(Bssids)
    OBVIOUS
  <2>. QED
    BY <1>0, <1>1, <2>1, Zenon DEF AddTarget
<1>2. CASE ReplaceTarget
  <2>1. ASSUME NEW S, NEW list \in Seq(S), NEW i \in DOMAIN list, NEW x \in S
        PROVE  [list EXCEPT ![i] = x] \in Seq(S)
    BY <2>1, ExceptSeq
  <2>2. /\ \A i \in DOMAIN cfg.ssids, s \in Ssids :
             [cfg EXCEPT !.ssids[i] = s] \in Configs
        /\ \A i \in DOMAIN cfg.bssids, b \in Bssids :
             [cfg EXCEPT !.bssids[i] = b] \in Configs
    BY <1>0, <2>1
  <2>. QED
    BY <1>2, <2>2, Zenon DEF ReplaceTarget
<1>3. CASE DeleteTarget
  <2>1. ASSUME NEW S, NEW list \in Seq(S), NEW i \in DOMAIN list
        PROVE  RemoveAt(list, i) \in Seq(S)
    BY <2>1 DEF RemoveAt
  <2>2. /\ \A i \in DOMAIN cfg.ssids : RemoveAt(cfg.ssids, i) \in Seq(Ssids)
        /\ \A i \in DOMAIN cfg.bssids : RemoveAt(cfg.bssids, i) \in Seq(Bssids)
    BY <2>1
  <2>. QED
    BY <1>0, <1>3, <2>2, Zenon DEF DeleteTarget
<1>4. CASE SetThreshold
  BY <1>4, AlertAssumption DEF SetThreshold
<1>5. CASE ToggleEnabled
  BY <1>5 DEF ToggleEnabled
<1>. QED
  BY <1>1, <1>2, <1>3, <1>4, <1>5 DEF EditConfig

(* What an edit leaves behind. *)
LEMMA EditEffect ==
  ASSUME CheckTypeOK, EditConfig
  PROVE  /\ cfg' \in Configs
         /\ inForce' = IF Checking THEN inForce \cup {cfg'} ELSE {}
         /\ UNCHANGED <<check, ring, throttle>>
<1>1. PICK c \in Configs : ConfigSet(c)
  BY EditReplaces
<1>. QED
  BY <1>1 DEF ConfigSet, Configs, Checking

-----------------------------------------------------------------------------
(* Types.                                                                  *)

LEMMA CheckTypeStep ==
  ASSUME CheckTypeOK, [AlertNext]_alertVars
  PROVE  CheckTypeOK'
<1>. USE DEF CheckTypeOK, Checking
<1>1. CASE BeginCheck
  BY <1>1 DEF BeginCheck
<1>2. CASE MatchSsid \/ MatchBssid
  BY <1>2 DEF MatchSsid, MatchBssid, Admit, Compare
<1>3. CASE MatchRssi \/ LogAlert \/ Announce
  BY <1>3 DEF MatchRssi, LogAlert, Announce, Return
<1>4. CASE EditConfig
  BY <1>4, EditEffect DEF check
<1>5. CASE ClearLog \/ PassTime \/ UNCHANGED alertVars
  BY <1>5 DEF ClearLog, PassTime, alertVars, check
<1>. QED
  BY <1>1, <1>2, <1>3, <1>4, <1>5 DEF AlertNext, AlertCheck

LEMMA CheckTypeInit == AlertInit => CheckTypeOK
<1>. SUFFICES ASSUME AlertInit
              PROVE  CheckTypeOK
  OBVIOUS
<1>1. Default \in Configs
  BY DEF Default, Configs
<1>2. cfg = Default /\ index = 1 /\ at = 1 /\ pc = "idle" /\ inForce = {}
  BY DEF AlertInit
<1>3. 1 \in Nat \ {0}
  OBVIOUS
<1>. QED
  BY <1>1, <1>2, <1>3, Zenon DEF CheckTypeOK, Checking

LEMMA CheckTyped == AlertSpec => []CheckTypeOK
BY CheckTypeInit, CheckTypeStep, PTL DEF AlertSpec

(* An entry within the count is one of the list's; one past it is blank.   *)
LEMMA TargetOf ==
  ASSUME NEW S, NEW list \in Seq(S), NEW i \in Nat \ {0}
  PROVE  /\ i <= Len(list) => Target(list, i) = list[i] /\ list[i] \in ToSet(list)
         /\ i > Len(list) => Target(list, i) = Hidden
BY DEF Target, ToSet

(* Names that agree at every place are the same. *)
LEMMA SameName ==
  ASSUME NEW s \in Seq(Chars), NEW t \in Seq(Chars),
         \A k \in 1 .. Len(t) + 1 : SameAt(s, t, k)
  PROVE  s = t
<1>1. SameAt(s, t, Len(t) + 1) /\ Len(t) \in Nat /\ Len(s) \in Nat
  OBVIOUS
<1>2. Len(s) <= Len(t)
  BY <1>1 DEF SameAt
<1>3. \A k \in 1 .. Len(t) : k <= Len(s) /\ s[k] = t[k]
  BY <1>1 DEF SameAt
<1>4. Len(s) = Len(t)
  <2>1. CASE Len(t) = 0
    BY <1>1, <1>2, <2>1
  <2>2. CASE Len(t) # 0
    BY <1>1, <1>2, <1>3, <2>2
  <2>. QED
    BY <2>1, <2>2
<1>. QED
  BY <1>3, <1>4, SeqEqual

(* A name agrees with itself everywhere. *)
LEMMA SameAsItself == \A t \in Seq(Chars), k \in Nat \ {0} : SameAt(t, t, k)
BY DEF SameAt

-----------------------------------------------------------------------------
(* Justified alerts.                                                       *)

(* The count that admitted the entry being compared was that of a list in  *)
(* force, and so was each character compared so far.                       *)
Comparing(lists, name, i, n) ==
  \E list \in lists :
    /\ i \in DOMAIN list
    /\ \A k \in 1 .. n : /\ k <= Len(name)
                        /\ \E other \in lists : SameAt(Target(other, i), name, k)

SsidsInForce == {c.ssids : c \in inForce}

BssidsInForce == {c.bssids : c \in inForce}

Admitted ==
  /\ pc = "ssidEntry" => Comparing(SsidsInForce, ap.ssid, index, at - 1)
  /\ pc = "bssidEntry" => Comparing(BssidsInForce, ap.bssid, index, at - 1)

(* The character just read is one more from a list in force. *)
LEMMA OneMore ==
  ASSUME NEW lists, NEW name, NEW now \in lists, NEW i, NEW n \in Nat,
         Comparing(lists, name, i, n), SameAt(Target(now, i), name, n + 1),
         n + 1 <= Len(name)
  PROVE  Comparing(lists, name, i, n + 1)
<1>1. PICK list \in lists :
        /\ i \in DOMAIN list
        /\ \A k \in 1 .. n : /\ k <= Len(name)
                            /\ \E other \in lists : SameAt(Target(other, i), name, k)
  BY DEF Comparing
<1>2. ASSUME NEW k \in 1 .. n + 1
      PROVE  k <= Len(name) /\ \E other \in lists : SameAt(Target(other, i), name, k)
  <2>1. k = n + 1 \/ k \in 1 .. n
    OBVIOUS
  <2>. QED
    BY <1>1, <2>1
<1>. QED
  BY <1>1, <1>2 DEF Comparing

(* A comparison that reached the end of the name is a match. *)
LEMMA ComparedIsMatched ==
  ASSUME NEW lists, NEW name \in Seq(Chars), NEW i, NEW n \in Nat, NEW now \in lists,
         \A list \in lists : list \in Seq(Seq(Chars)),
         Comparing(lists, name, i, n), SameAt(Target(now, i), name, n + 1),
         n + 1 > Len(name)
  PROVE  Matched(lists, name)
<1>1. PICK list \in lists :
        /\ i \in DOMAIN list
        /\ \A k \in 1 .. n : /\ k <= Len(name)
                            /\ \E other \in lists : SameAt(Target(other, i), name, k)
  BY DEF Comparing
<1>2. n = Len(name)
  <2>1. Len(name) \in Nat
    OBVIOUS
  <2>2. n > 0 => n \in 1 .. n
    OBVIOUS
  <2>3. n > 0 => n <= Len(name)
    BY <1>1, <2>2
  <2>. QED
    BY <2>1, <2>3
<1>3. \A k \in 1 .. Len(name) + 1 : \E other \in lists : SameAt(Target(other, i), name, k)
  <2>. SUFFICES ASSUME NEW k \in 1 .. n + 1
                PROVE  \E other \in lists : SameAt(Target(other, i), name, k)
    BY <1>2
  <2>1. k = n + 1 \/ k \in 1 .. n
    OBVIOUS
  <2>. QED
    BY <1>1, <2>1
<1>4. Spliced(lists, name)
  BY <1>1, <1>3 DEF Spliced
<1>5. CASE \E a \in lists, b \in lists : a # b
  BY <1>4, <1>5 DEF Matched
<1>6. CASE \A a \in lists, b \in lists : a = b
  <2>1. \A k \in 1 .. Len(name) + 1 : SameAt(Target(list, i), name, k)
    BY <1>3, <1>6
  <2>2. Target(list, i) = list[i] /\ list[i] \in Seq(Chars) /\ list[i] \in ToSet(list)
    BY <1>1 DEF Target, ToSet
  <2>3. list[i] = name
    BY <2>1, <2>2, SameName
  <2>. QED
    BY <2>2, <2>3 DEF Matched
<1>. QED
  BY <1>5, <1>6

(* More lists only add to what was compared, and to what was matched. *)
LEMMA MoreLists ==
  ASSUME NEW lists, NEW more, \A list \in lists : list \in more
  PROVE  /\ \A name, i, n : Comparing(lists, name, i, n) => Comparing(more, name, i, n)
         /\ \A name : Matched(lists, name) => Matched(more, name)
<1>1. ASSUME NEW name, NEW i, NEW n, Comparing(lists, name, i, n)
      PROVE  Comparing(more, name, i, n)
  BY <1>1 DEF Comparing
<1>2. ASSUME NEW name, Spliced(lists, name)
      PROVE  Spliced(more, name)
  BY <1>2 DEF Spliced
<1>3. ASSUME NEW name, Matched(lists, name)
      PROVE  Matched(more, name)
  BY <1>2, <1>3 DEF Matched
<1>. QED
  BY <1>1, <1>3

(* The lists of configurations in force are lists of names. *)
LEMMA ListsInForce ==
  ASSUME CheckTypeOK, Checking
  PROVE  /\ cfg.ssids \in SsidsInForce /\ cfg.bssids \in BssidsInForce
         /\ \A list \in SsidsInForce \cup BssidsInForce : list \in Seq(Seq(Chars))
         /\ ap.ssid \in Seq(Chars) /\ ap.bssid \in Seq(Chars)
<1>1. cfg \in inForce /\ ap \in Aps
  BY DEF CheckTypeOK
<1>2. inForce \subseteq Configs
  BY DEF CheckTypeOK
<1>3. \A c \in Configs : c.ssids \in Seq(Ssids) /\ c.bssids \in Seq(Bssids)
  BY DEF Configs
<1>4. Ssids \subseteq Seq(Chars) /\ Bssids \subseteq Seq(Chars)
  BY AlertAssumption
<1>5. /\ \A list \in Seq(Ssids) : list \in Seq(Seq(Chars))
      /\ \A list \in Seq(Bssids) : list \in Seq(Seq(Chars))
  BY <1>4, SeqMonotonic
<1>. QED
  BY <1>1, <1>2, <1>3, <1>5, AlertAssumption DEF SsidsInForce, BssidsInForce

LEMMA JustifiedStep ==
  ASSUME CheckTypeOK, CheckTypeOK', Admitted, AlertJustified, [AlertNext]_alertVars
  PROVE  Admitted' /\ AlertJustified'
<1>1. CASE BeginCheck
  BY <1>1 DEF BeginCheck, Admitted, AlertJustified
<1>2. CASE Admit("ssid", cfg.ssids, "ssidEntry", "bssid")
  <2>1. pc = "ssid" /\ at = 1 /\ UNCHANGED <<inForce, ap, at, entry>>
    BY <1>2 DEF Admit, CheckTypeOK
  <2>2. CASE index <= Len(cfg.ssids) /\ pc' = "ssidEntry" /\ UNCHANGED index
    <3>1. cfg.ssids \in SsidsInForce /\ index \in DOMAIN cfg.ssids
      BY <2>1, <2>2, ListsInForce DEF CheckTypeOK, Checking, Configs
    <3>2. Comparing(SsidsInForce, ap.ssid, index, 0)
      BY <3>1 DEF Comparing
    <3>3. UNCHANGED SsidsInForce
      BY <2>1 DEF SsidsInForce
    <3>. QED
      BY <2>1, <2>2, <3>2, <3>3 DEF Admitted, AlertJustified
  <2>3. CASE pc' = "bssid"
    BY <2>1, <2>3 DEF Admitted, AlertJustified
  <2>. QED
    BY <1>2, <2>2, <2>3 DEF Admit
<1>3. CASE Compare("ssidEntry", cfg.ssids, ap.ssid, Label(ap.ssid), "ssid", "ssid")
  <2>1. pc = "ssidEntry" /\ UNCHANGED <<inForce, ap>>
    BY <1>3 DEF Compare
  <2>2. PICK lists : lists = SsidsInForce /\ lists = SsidsInForce'
    BY <2>1 DEF SsidsInForce
  <2>3. PICK n \in Nat : n = at - 1 /\ at = n + 1
    BY DEF CheckTypeOK
  <2>4. /\ Comparing(lists, ap.ssid, index, n) /\ cfg.ssids \in lists
        /\ \A list \in lists : list \in Seq(Seq(Chars))
        /\ ap.ssid \in Seq(Chars)
    BY <2>1, <2>2, <2>3, ListsInForce DEF Admitted, Checking
  <2>5. CASE /\ SameAt(Target(cfg.ssids, index), ap.ssid, at) /\ at > Len(ap.ssid)
             /\ entry' = [target |-> Label(ap.ssid), type |-> "ssid"] /\ pc' = "log"
    <3>1. Matched(lists, ap.ssid)
      BY <2>3, <2>4, <2>5, ComparedIsMatched
    <3>2. entry'.type = "ssid"
      BY <2>5
    <3>. QED
      BY <2>1, <2>2, <2>5, <3>1, <3>2 DEF Admitted, AlertJustified, SsidsInForce
  <2>6. CASE /\ SameAt(Target(cfg.ssids, index), ap.ssid, at) /\ at <= Len(ap.ssid)
             /\ at' = at + 1 /\ UNCHANGED <<pc, index, entry>>
    <3>1. Comparing(lists, ap.ssid, index, n + 1)
      BY <2>3, <2>4, <2>6, OneMore
    <3>2. at' - 1 = n + 1
      BY <2>3, <2>6
    <3>. QED
      BY <2>1, <2>2, <2>6, <3>1, <3>2 DEF Admitted, AlertJustified
  <2>7. CASE pc' = "ssid" /\ at' = 1
    BY <2>1, <2>7 DEF Admitted, AlertJustified
  <2>. QED
    BY <1>3, <2>5, <2>6, <2>7 DEF Compare
<1>4. CASE Admit("bssid", cfg.bssids, "bssidEntry", "rssi")
  <2>1. pc = "bssid" /\ at = 1 /\ UNCHANGED <<inForce, ap, at, entry>>
    BY <1>4 DEF Admit, CheckTypeOK
  <2>2. CASE index <= Len(cfg.bssids) /\ pc' = "bssidEntry" /\ UNCHANGED index
    <3>1. cfg.bssids \in BssidsInForce /\ index \in DOMAIN cfg.bssids
      BY <2>1, <2>2, ListsInForce DEF CheckTypeOK, Checking, Configs
    <3>2. Comparing(BssidsInForce, ap.bssid, index, 0)
      BY <3>1 DEF Comparing
    <3>3. UNCHANGED BssidsInForce
      BY <2>1 DEF BssidsInForce
    <3>. QED
      BY <2>1, <2>2, <3>2, <3>3 DEF Admitted, AlertJustified
  <2>3. CASE pc' = "rssi"
    BY <2>1, <2>3 DEF Admitted, AlertJustified
  <2>. QED
    BY <1>4, <2>2, <2>3 DEF Admit
<1>5. CASE Compare("bssidEntry", cfg.bssids, ap.bssid, ap.bssid, "bssid", "bssid")
  <2>1. pc = "bssidEntry" /\ UNCHANGED <<inForce, ap>>
    BY <1>5 DEF Compare
  <2>2. PICK lists : lists = BssidsInForce /\ lists = BssidsInForce'
    BY <2>1 DEF BssidsInForce
  <2>3. PICK n \in Nat : n = at - 1 /\ at = n + 1
    BY DEF CheckTypeOK
  <2>4. /\ Comparing(lists, ap.bssid, index, n) /\ cfg.bssids \in lists
        /\ \A list \in lists : list \in Seq(Seq(Chars))
        /\ ap.bssid \in Seq(Chars)
    BY <2>1, <2>2, <2>3, ListsInForce DEF Admitted, Checking
  <2>5. CASE /\ SameAt(Target(cfg.bssids, index), ap.bssid, at) /\ at > Len(ap.bssid)
             /\ entry' = [target |-> ap.bssid, type |-> "bssid"] /\ pc' = "log"
    <3>1. Matched(lists, ap.bssid)
      BY <2>3, <2>4, <2>5, ComparedIsMatched
    <3>2. entry'.type = "bssid"
      BY <2>5
    <3>. QED
      BY <2>1, <2>2, <2>5, <3>1, <3>2 DEF Admitted, AlertJustified, BssidsInForce
  <2>6. CASE /\ SameAt(Target(cfg.bssids, index), ap.bssid, at) /\ at <= Len(ap.bssid)
             /\ at' = at + 1 /\ UNCHANGED <<pc, index, entry>>
    <3>1. Comparing(lists, ap.bssid, index, n + 1)
      BY <2>3, <2>4, <2>6, OneMore
    <3>2. at' - 1 = n + 1
      BY <2>3, <2>6
    <3>. QED
      BY <2>1, <2>2, <2>6, <3>1, <3>2 DEF Admitted, AlertJustified
  <2>7. CASE pc' = "bssid" /\ at' = 1
    BY <2>1, <2>7 DEF Admitted, AlertJustified
  <2>. QED
    BY <1>5, <2>5, <2>6, <2>7 DEF Compare
<1>6. CASE MatchRssi
  BY <1>6 DEF MatchRssi, Return, CheckTypeOK, Checking, Admitted, AlertJustified
<1>7. CASE LogAlert \/ Announce
  BY <1>7 DEF LogAlert, Announce, Return, Admitted, AlertJustified
<1>8. CASE EditConfig
  <2>1. UNCHANGED <<pc, ap, index, at, entry>> /\ (pc # "idle" => inForce \subseteq inForce')
    BY <1>8, EditEffect DEF check, Checking
  <2>2. PICK a, b, c, d : /\ a = SsidsInForce /\ b = SsidsInForce'
                          /\ c = BssidsInForce /\ d = BssidsInForce'
    OBVIOUS
  <2>3. pc # "idle" => /\ \A list \in a : list \in b
                       /\ \A list \in c : list \in d
    BY <2>1, <2>2 DEF SsidsInForce, BssidsInForce
  <2>4. Admitted'
    BY <2>1, <2>2, <2>3, MoreLists DEF Admitted
  <2>5. /\ pc # "idle" /\ Matched(a, ap.ssid) => Matched(b, ap.ssid)
        /\ pc # "idle" /\ Matched(c, ap.bssid) => Matched(d, ap.bssid)
    BY <2>3, MoreLists
  <2>6. AlertJustified'
    BY <2>1, <2>2, <2>5 DEF AlertJustified, SsidsInForce, BssidsInForce
  <2>. QED
    BY <2>4, <2>6
<1>9. CASE ClearLog \/ PassTime \/ UNCHANGED alertVars
  <2>1. UNCHANGED <<pc, ap, index, at, entry, inForce>>
    BY <1>9 DEF ClearLog, PassTime, alertVars, check
  <2>2. UNCHANGED <<SsidsInForce, BssidsInForce>>
    BY <2>1 DEF SsidsInForce, BssidsInForce
  <2>3. Admitted'
    BY <2>1, <2>2 DEF Admitted
  <2>4. AlertJustified'
    BY <2>1 DEF AlertJustified
  <2>. QED
    BY <2>3, <2>4
<1>. QED
  BY <1>1, <1>2, <1>3, <1>4, <1>5, <1>6, <1>7, <1>8, <1>9
  DEF AlertNext, AlertCheck, MatchSsid, MatchBssid

(* However many edits fall into a check, what it logs was a match for a    *)
(* configuration in force during it, a target edited meanwhile excepted.   *)
THEOREM AlertsAreJustified == AlertSpec => []AlertJustified
<1>1. AlertInit => Admitted /\ AlertJustified
  BY DEF AlertInit, Admitted, AlertJustified
<1>. QED
  BY <1>1, JustifiedStep, CheckTyped, PTL DEF AlertSpec

-----------------------------------------------------------------------------
(* The verdict of an undisturbed check.                                    *)

(* The characters compared so far agree. *)
Agreed(target, name, n) == \A k \in 1 .. n : k <= Len(name) /\ SameAt(target, name, k)

(* Without an edit, what the walk has passed does not name the access      *)
(* point, and the entry it compares is one of the list.                    *)
Walked ==
  inForce = {cfg} =>
    /\ pc \in {"ssid", "ssidEntry"} =>
         \A k \in 1 .. Len(cfg.ssids) : k < index => cfg.ssids[k] # ap.ssid
    /\ pc = "ssidEntry" =>
         index <= Len(cfg.ssids) /\ Agreed(cfg.ssids[index], ap.ssid, at - 1)
    /\ pc \in {"bssid", "bssidEntry", "rssi"} => ap.ssid \notin ToSet(cfg.ssids)
    /\ pc \in {"bssid", "bssidEntry"} =>
         \A k \in 1 .. Len(cfg.bssids) : k < index => cfg.bssids[k] # ap.bssid
    /\ pc = "bssidEntry" =>
         index <= Len(cfg.bssids) /\ Agreed(cfg.bssids[index], ap.bssid, at - 1)
    /\ pc = "rssi" => ap.bssid \notin ToSet(cfg.bssids)

(* Names that agreed to the end are the same. *)
LEMMA AgreedToTheEnd ==
  ASSUME NEW s \in Seq(Chars), NEW t \in Seq(Chars), NEW n \in Nat,
         Agreed(s, t, n), SameAt(s, t, n + 1), n + 1 > Len(t)
  PROVE  s = t
<1>1. n = Len(t)
  <2>1. n > 0 => n \in 1 .. n
    OBVIOUS
  <2>2. n > 0 => n <= Len(t)
    BY <2>1 DEF Agreed
  <2>. QED
    BY <2>2
<1>2. ASSUME NEW k \in 1 .. n + 1
      PROVE  SameAt(s, t, k)
  <2>1. k = n + 1 \/ k \in 1 .. n
    OBVIOUS
  <2>. QED
    BY <2>1 DEF Agreed
<1>. QED
  BY <1>1, <1>2, SameName

(* The comparison of an entry that no edit touched: it ends in a match     *)
(* with the name, goes on in agreement, or passes an entry that differs.   *)
LEMMA Compared ==
  ASSUME NEW list \in Seq(Seq(Chars)), NEW name \in Seq(Chars), NEW i \in 1 .. Len(list),
         NEW n \in Nat, Agreed(list[i], name, n)
  PROVE  /\ Target(list, i) = list[i] /\ list[i] \in ToSet(list)
         /\ SameAt(list[i], name, n + 1) /\ n + 1 > Len(name) => list[i] = name
         /\ SameAt(list[i], name, n + 1) /\ n + 1 <= Len(name) => Agreed(list[i], name, n + 1)
         /\ ~SameAt(list[i], name, n + 1) => list[i] # name
<1>1. Target(list, i) = list[i] /\ list[i] \in ToSet(list) /\ list[i] \in Seq(Chars)
  BY DEF Target, ToSet
<1>2. SameAt(list[i], name, n + 1) /\ n + 1 > Len(name) => list[i] = name
  BY <1>1, AgreedToTheEnd
<1>3. ASSUME SameAt(list[i], name, n + 1), n + 1 <= Len(name)
      PROVE  Agreed(list[i], name, n + 1)
  <2>. SUFFICES ASSUME NEW k \in 1 .. n + 1
                PROVE  k <= Len(name) /\ SameAt(list[i], name, k)
    BY DEF Agreed
  <2>1. k = n + 1 \/ k \in 1 .. n
    OBVIOUS
  <2>. QED
    BY <1>3, <2>1 DEF Agreed
<1>4. n + 1 \in Nat \ {0}
  OBVIOUS
<1>. QED
  BY <1>1, <1>2, <1>3, <1>4, SameAsItself

(* A check that only the walk moved is still undisturbed, and one that an  *)
(* edit touched can only still be undisturbed if the edit changed nothing. *)
LEMMA WalkedStep ==
  ASSUME CheckTypeOK, Walked, [AlertNext]_alertVars
  PROVE  Walked'
<1>. USE DEF Walked
<1>1. CASE BeginCheck
  BY <1>1 DEF BeginCheck
<1>2. CASE Admit("ssid", cfg.ssids, "ssidEntry", "bssid")
  <2>1. cfg.ssids \in Seq(Ssids) /\ index \in Nat \ {0} /\ UNCHANGED <<inForce, ap, cfg>>
    BY <1>2 DEF Admit, CheckTypeOK, Configs
  <2>2. CASE index <= Len(cfg.ssids)
    <3>1. at' - 1 = 0 /\ Agreed(cfg.ssids[index], ap.ssid, 0)
      BY <1>2 DEF Admit, CheckTypeOK, Agreed
    <3>. QED
      BY <1>2, <2>1, <2>2, <3>1 DEF Admit
  <2>3. CASE index > Len(cfg.ssids)
    <3>1. inForce = {cfg} => ap.ssid \notin ToSet(cfg.ssids)
      BY <1>2, <2>1, <2>3 DEF Admit, ToSet
    <3>. QED
      BY <1>2, <2>1, <2>3, <3>1 DEF Admit
  <2>. QED
    BY <2>1, <2>2, <2>3
<1>3. CASE Compare("ssidEntry", cfg.ssids, ap.ssid, Label(ap.ssid), "ssid", "ssid")
  <2>1. pc = "ssidEntry" /\ UNCHANGED <<inForce, ap, cfg>> /\ index \in Nat \ {0}
    BY <1>3 DEF Compare, CheckTypeOK
  <2>2. PICK n \in Nat : n = at - 1 /\ at = n + 1
    BY DEF CheckTypeOK
  <2>3. CASE inForce # {cfg}
    BY <2>1, <2>3
  <2>4. CASE inForce = {cfg}
    <3>1. /\ cfg.ssids \in Seq(Seq(Chars)) /\ ap.ssid \in Seq(Chars)
          /\ index \in 1 .. Len(cfg.ssids) /\ Agreed(cfg.ssids[index], ap.ssid, n)
      BY <2>1, <2>2, <2>4, ListsInForce DEF Checking
    <3>2. CASE pc' = "log"
      BY <2>1, <3>2
    <3>3. CASE /\ SameAt(Target(cfg.ssids, index), ap.ssid, at) /\ at <= Len(ap.ssid)
               /\ at' = at + 1 /\ UNCHANGED <<pc, index, entry>>
      <4>1. Agreed(cfg.ssids[index], ap.ssid, n + 1)
        BY <2>2, <3>1, <3>3, Compared
      <4>2. at' - 1 = n + 1
        BY <2>2, <3>3
      <4>. QED
        BY <2>1, <2>4, <3>3, <4>1, <4>2
    <3>4. CASE /\ ~SameAt(Target(cfg.ssids, index), ap.ssid, at)
               /\ index' = index + 1 /\ at' = 1 /\ pc' = "ssid"
      <4>1. cfg.ssids[index] # ap.ssid
        BY <2>2, <3>1, <3>4, Compared
      <4>2. \A k \in 1 .. Len(cfg.ssids) : k < index => cfg.ssids[k] # ap.ssid
        BY <2>1, <2>4
      <4>3. \A k \in 1 .. Len(cfg.ssids) : k < index' => cfg.ssids[k] # ap.ssid
        BY <2>1, <3>4, <4>1, <4>2
      <4>. QED
        BY <2>1, <2>4, <3>4, <4>3
    <3>. QED
      BY <1>3, <3>2, <3>3, <3>4 DEF Compare
  <2>. QED
    BY <2>3, <2>4
<1>4. CASE Admit("bssid", cfg.bssids, "bssidEntry", "rssi")
  <2>1. cfg.bssids \in Seq(Bssids) /\ index \in Nat \ {0} /\ UNCHANGED <<inForce, ap, cfg>>
    BY <1>4 DEF Admit, CheckTypeOK, Configs
  <2>2. CASE index <= Len(cfg.bssids)
    <3>1. at' - 1 = 0 /\ Agreed(cfg.bssids[index], ap.bssid, 0)
      BY <1>4 DEF Admit, CheckTypeOK, Agreed
    <3>. QED
      BY <1>4, <2>1, <2>2, <3>1 DEF Admit
  <2>3. CASE index > Len(cfg.bssids)
    <3>1. inForce = {cfg} => ap.bssid \notin ToSet(cfg.bssids)
      BY <1>4, <2>1, <2>3 DEF Admit, ToSet
    <3>. QED
      BY <1>4, <2>1, <2>3, <3>1 DEF Admit
  <2>. QED
    BY <2>1, <2>2, <2>3
<1>5. CASE Compare("bssidEntry", cfg.bssids, ap.bssid, ap.bssid, "bssid", "bssid")
  <2>1. pc = "bssidEntry" /\ UNCHANGED <<inForce, ap, cfg>> /\ index \in Nat \ {0}
    BY <1>5 DEF Compare, CheckTypeOK
  <2>2. PICK n \in Nat : n = at - 1 /\ at = n + 1
    BY DEF CheckTypeOK
  <2>3. CASE inForce # {cfg}
    BY <2>1, <2>3
  <2>4. CASE inForce = {cfg}
    <3>1. /\ cfg.bssids \in Seq(Seq(Chars)) /\ ap.bssid \in Seq(Chars)
          /\ index \in 1 .. Len(cfg.bssids) /\ Agreed(cfg.bssids[index], ap.bssid, n)
      BY <2>1, <2>2, <2>4, ListsInForce DEF Checking
    <3>2. CASE pc' = "log"
      BY <2>1, <3>2
    <3>3. CASE /\ SameAt(Target(cfg.bssids, index), ap.bssid, at) /\ at <= Len(ap.bssid)
               /\ at' = at + 1 /\ UNCHANGED <<pc, index, entry>>
      <4>1. Agreed(cfg.bssids[index], ap.bssid, n + 1)
        BY <2>2, <3>1, <3>3, Compared
      <4>2. at' - 1 = n + 1
        BY <2>2, <3>3
      <4>. QED
        BY <2>1, <2>4, <3>3, <4>1, <4>2
    <3>4. CASE /\ ~SameAt(Target(cfg.bssids, index), ap.bssid, at)
               /\ index' = index + 1 /\ at' = 1 /\ pc' = "bssid"
      <4>1. cfg.bssids[index] # ap.bssid
        BY <2>2, <3>1, <3>4, Compared
      <4>2. \A k \in 1 .. Len(cfg.bssids) : k < index => cfg.bssids[k] # ap.bssid
        BY <2>1, <2>4
      <4>3. \A k \in 1 .. Len(cfg.bssids) : k < index' => cfg.bssids[k] # ap.bssid
        BY <2>1, <3>4, <4>1, <4>2
      <4>. QED
        BY <2>1, <2>4, <3>4, <4>3
    <3>. QED
      BY <1>5, <3>2, <3>3, <3>4 DEF Compare
  <2>. QED
    BY <2>3, <2>4
<1>6. CASE MatchRssi \/ LogAlert \/ Announce
  BY <1>6 DEF MatchRssi, LogAlert, Announce, Return
<1>7. CASE EditConfig
  <2>1. CASE pc = "idle"
    BY <1>7, <2>1, EditEffect DEF check
  <2>2. CASE pc # "idle" /\ inForce' = {cfg'}
    <3>1. cfg' = cfg /\ inForce = {cfg}
      BY <1>7, <2>2, EditEffect DEF CheckTypeOK, Checking
    <3>. QED
      BY <1>7, <3>1, EditEffect DEF check
  <2>. QED
    BY <2>1, <2>2
<1>8. CASE ClearLog \/ PassTime \/ UNCHANGED alertVars
  BY <1>8 DEF ClearLog, PassTime, alertVars, check
<1>. QED
  BY <1>1, <1>2, <1>3, <1>4, <1>5, <1>6, <1>7, <1>8
  DEF AlertNext, AlertCheck, MatchSsid, MatchBssid

(* The step that ends the walk has the verdict of the configuration.       *)
LEMMA VerdictStep ==
  ASSUME CheckTypeOK, Walked, [AlertNext]_alertVars, inForce = {cfg},
         pc \in {"ssidEntry", "bssidEntry", "rssi"}, pc' \in {"log", "idle"}
  PROVE  entry'.type = Verdict(cfg, ap)
<1>1. CASE Compare("ssidEntry", cfg.ssids, ap.ssid, Label(ap.ssid), "ssid", "ssid")
  <2>1. PICK n \in Nat : n = at - 1 /\ at = n + 1
    BY DEF CheckTypeOK
  <2>2. /\ cfg.ssids \in Seq(Seq(Chars)) /\ ap.ssid \in Seq(Chars)
        /\ index \in 1 .. Len(cfg.ssids) /\ Agreed(cfg.ssids[index], ap.ssid, n)
    BY <1>1, <2>1, ListsInForce DEF Compare, Checking, CheckTypeOK, Walked
  <2>3. /\ SameAt(Target(cfg.ssids, index), ap.ssid, at) /\ at > Len(ap.ssid)
        /\ entry' = [target |-> Label(ap.ssid), type |-> "ssid"]
    <3>1. pc = "ssidEntry" /\ pc' # "ssidEntry" /\ pc' # "ssid"
      BY <1>1 DEF Compare
    <3>. QED
      BY <1>1, <3>1 DEF Compare
  <2>4. ap.ssid \in ToSet(cfg.ssids)
    <3>1. Target(cfg.ssids, index) = cfg.ssids[index] /\ cfg.ssids[index] \in ToSet(cfg.ssids)
      BY <2>2, Compared
    <3>2. SameAt(cfg.ssids[index], ap.ssid, n + 1) /\ n + 1 > Len(ap.ssid)
      BY <2>1, <2>3, <3>1
    <3>3. cfg.ssids[index] = ap.ssid
      BY <2>2, <3>2, Compared
    <3>. QED
      BY <3>1, <3>3
  <2>5. entry'.type = "ssid"
    BY <2>3
  <2>. QED
    BY <2>2, <2>4, <2>5, Zenon DEF Verdict
<1>2. CASE Compare("bssidEntry", cfg.bssids, ap.bssid, ap.bssid, "bssid", "bssid")
  <2>1. PICK n \in Nat : n = at - 1 /\ at = n + 1
    BY DEF CheckTypeOK
  <2>2. /\ cfg.bssids \in Seq(Seq(Chars)) /\ ap.bssid \in Seq(Chars)
        /\ index \in 1 .. Len(cfg.bssids) /\ Agreed(cfg.bssids[index], ap.bssid, n)
        /\ ap.ssid \notin ToSet(cfg.ssids)
    BY <1>2, <2>1, ListsInForce DEF Compare, Checking, CheckTypeOK, Walked
  <2>3. /\ SameAt(Target(cfg.bssids, index), ap.bssid, at) /\ at > Len(ap.bssid)
        /\ entry' = [target |-> ap.bssid, type |-> "bssid"]
    <3>1. pc = "bssidEntry" /\ pc' # "bssidEntry" /\ pc' # "bssid"
      BY <1>2 DEF Compare
    <3>. QED
      BY <1>2, <3>1 DEF Compare
  <2>4. ap.bssid \in ToSet(cfg.bssids)
    <3>1. Target(cfg.bssids, index) = cfg.bssids[index] /\ cfg.bssids[index] \in ToSet(cfg.bssids)
      BY <2>2, Compared
    <3>2. SameAt(cfg.bssids[index], ap.bssid, n + 1) /\ n + 1 > Len(ap.bssid)
      BY <2>1, <2>3, <3>1
    <3>3. cfg.bssids[index] = ap.bssid
      BY <2>2, <3>2, Compared
    <3>. QED
      BY <3>1, <3>3
  <2>5. entry'.type = "bssid"
    BY <2>3
  <2>. QED
    BY <2>2, <2>4, <2>5, Zenon DEF Verdict
<1>3. CASE MatchRssi
  <2>1. ap.ssid \notin ToSet(cfg.ssids) /\ ap.bssid \notin ToSet(cfg.bssids)
    BY <1>3 DEF MatchRssi, Walked
  <2>2. \/ ap.rssi >= cfg.threshold /\ entry'.type = "rssi"
        \/ ~(ap.rssi >= cfg.threshold) /\ entry'.type = "none"
    <3>1. ap.rssi \in Int /\ cfg.threshold \in Int
      BY <1>3, AlertAssumption DEF MatchRssi, CheckTypeOK, Checking, Configs
    <3>2. \/ ap.rssi >= cfg.threshold /\ entry' = [target |-> Label(ap.ssid), type |-> "rssi"]
          \/ ap.rssi < cfg.threshold /\ entry' = [target |-> <<>>, type |-> "none"]
      BY <1>3 DEF MatchRssi, Return, NoEntry
    <3>3. ap.rssi < cfg.threshold => ~(ap.rssi >= cfg.threshold)
      BY <3>1
    <3>4. ASSUME NEW t, NEW k, entry' = [target |-> t, type |-> k]
          PROVE  entry'.type = k
      BY <3>4
    <3>. QED
      BY <3>2, <3>3, <3>4, Zenon
  <2>. QED
    BY <2>1, <2>2, Zenon DEF Verdict
<1>4. UNCHANGED pc => FALSE
  OBVIOUS
<1>5. ~EditConfig /\ ~ClearLog /\ ~PassTime /\ ~UNCHANGED alertVars
  BY <1>4, EditEffect DEF ClearLog, PassTime, alertVars, check
<1>. QED
  BY <1>1, <1>2, <1>3, <1>5
  DEF AlertNext, AlertCheck, BeginCheck, MatchSsid, MatchBssid, Admit, LogAlert, Announce

(* A check that no edit falls into applies the configuration as it is:     *)
(* lists of any length, in their order, then the threshold.                *)
THEOREM VerdictIsConfigured == AlertSpec => UndisturbedVerdict
<1>1. AlertInit => Walked
  BY DEF AlertInit, Walked
<1>2. CheckTypeOK /\ Walked /\ [AlertNext]_alertVars =>
        [(inForce = {cfg} /\ pc \in {"ssidEntry", "bssidEntry", "rssi"}
            /\ pc' \in {"log", "idle"}) => entry'.type = Verdict(cfg, ap)]_alertVars
  BY VerdictStep
<1>. QED
  BY <1>1, <1>2, WalkedStep, CheckTyped, PTL DEF AlertSpec, UndisturbedVerdict

-----------------------------------------------------------------------------
(* The log.                                                                *)

RingOK ==
  /\ head \in 0 .. LogLen - 1 /\ size \in 0 .. LogLen
  /\ cells = [k \in 0 .. LogLen - 1 |-> cells[k]]

Held == {cells[k] : k \in 0 .. LogLen - 1}

(* The cell of the k-th newest entry, counted from 1, when h is next. *)
Place(h, k) == (h - k + LogLen) % LogLen

Shown(max) == IF max < size THEN max ELSE size

SnapshotIs(max) ==
  /\ Snapshot(max) \in Seq(Held) /\ Len(Snapshot(max)) = Shown(max)
  /\ \A k \in 1 .. Shown(max) : Snapshot(max)[k] = cells[Place(head, k)]

LEMMA RingStep ==
  ASSUME CheckTypeOK, RingOK, [AlertNext]_alertVars
  PROVE  RingOK'
<1>0. LogLen \in Nat \ {0}
  BY AlertAssumption
<1>1. CASE LogAlert
  <2>1. head' \in 0 .. LogLen - 1
    <3>1. head + 1 \in Int
      BY <1>0 DEF RingOK
    <3>. QED
      BY <1>0, <1>1, <3>1, WrapOnce DEF LogAlert, NextHead
  <2>2. size' \in 0 .. LogLen
    BY <1>0, <1>1 DEF LogAlert, NextSize, RingOK
  <2>3. cells' = [k \in 0 .. LogLen - 1 |-> cells'[k]]
    BY <1>1 DEF LogAlert, RingOK
  <2>. QED
    BY <2>1, <2>2, <2>3 DEF RingOK
<1>2. CASE ClearLog
  BY <1>0, <1>2 DEF ClearLog, RingOK
<1>3. CASE UNCHANGED ring
  BY <1>3 DEF ring, RingOK
<1>4. CASE EditConfig
  BY <1>3, <1>4, EditEffect
<1>. QED
  BY <1>1, <1>2, <1>3, <1>4
     DEF AlertNext, AlertCheck, BeginCheck, MatchSsid, MatchBssid, Admit, Compare, MatchRssi,
         Announce, PassTime, alertVars, ring

LEMMA PlaceType ==
  ASSUME NEW h \in Int, NEW k \in Int
  PROVE  Place(h, k) \in 0 .. LogLen - 1
<1>1. LogLen \in Nat \ {0} /\ h - k + LogLen \in Int
  BY AlertAssumption
<1>. QED
  BY <1>1, WrapOnce DEF Place

(* An entry in front moves every other one place back, and takes the place *)
(* of none of those that stay.                                             *)
LEMMA PlaceNext ==
  ASSUME NEW h \in 0 .. LogLen - 1
  PROVE  /\ Place((h + 1) % LogLen, 1) = h
         /\ \A k \in 2 .. LogLen :
              Place((h + 1) % LogLen, k) = Place(h, k - 1) /\ Place(h, k - 1) # h
<1>1. PICK m \in Nat \ {0} : m = LogLen
  BY AlertAssumption
<1>2. h \in 0 .. m - 1
  BY <1>1
<1>3. (h + 1) % m = IF h + 1 = m THEN 0 ELSE h + 1
  BY <1>2
<1>4. (0 - 1 + m) % m = m - 1
  BY <1>2
<1>5. h + 1 # m => (h + 1 - 1 + m) % m = h
  BY <1>2
<1>6. Place((h + 1) % LogLen, 1) = h
  BY <1>1, <1>2, <1>3, <1>4, <1>5 DEF Place
<1>7. ASSUME NEW k \in 2 .. m
      PROVE  Place((h + 1) % m, k) = Place(h, k - 1) /\ Place(h, k - 1) # h
  <2>1. (h - (k - 1) + m) % m = IF k - 1 <= h THEN h - (k - 1) ELSE h - (k - 1) + m
    BY <1>2
  <2>2. CASE h + 1 = m
    <3>1. (0 - k + m) % m = m - k
      BY <1>2
    <3>2. k - 1 <= h /\ h - (k - 1) = m - k /\ h - (k - 1) # h
      BY <1>2, <2>2
    <3>. QED
      BY <1>1, <1>3, <2>1, <2>2, <3>1, <3>2 DEF Place
  <2>3. CASE h + 1 # m
    <3>1. (h + 1) - k + m = h - (k - 1) + m
      BY <1>2
    <3>2. h - (k - 1) # h /\ h - (k - 1) + m # h
      BY <1>2
    <3>. QED
      BY <1>1, <1>3, <2>1, <2>3, <3>1, <3>2 DEF Place
  <2>. QED
    BY <2>2, <2>3
<1>. QED
  BY <1>1, <1>6, <1>7

SnapshotsAre == \A max \in 1 .. LogLen : SnapshotIs(max)

LEMMA SnapshotOf == RingOK => SnapshotsAre
<1>. SUFFICES ASSUME RingOK, NEW max \in 1 .. LogLen
              PROVE  SnapshotIs(max)
  BY DEF SnapshotsAre
<1>0. LogLen \in Nat \ {0}
  BY AlertAssumption
<1>1. PICK m \in 0 .. LogLen : m = Shown(max)
  BY <1>0 DEF Shown, RingOK
<1>2. Snapshot(max) = [k \in 1 .. m |-> cells[NewestIndex(k - 1)]]
  BY <1>1 DEF Snapshot, Shown
<1>3. ASSUME NEW k \in 1 .. m
      PROVE  NewestIndex(k - 1) = Place(head, k) /\ Place(head, k) \in 0 .. LogLen - 1
  <2>1. head - 1 - (k - 1) + LogLen = head - k + LogLen
    BY <1>0 DEF RingOK
  <2>2. NewestIndex(k - 1) = Place(head, k)
    BY <2>1 DEF NewestIndex, Place
  <2>3. head \in Int /\ k \in Int
    BY <1>0 DEF RingOK
  <2>. QED
    BY <2>2, <2>3, PlaceType
<1>4. \A k \in 1 .. m : cells[NewestIndex(k - 1)] \in Held
  BY <1>3 DEF Held
<1>5. m \in Nat
  BY <1>0
<1>6. Snapshot(max) \in Seq(Held) /\ Len(Snapshot(max)) = m
  BY <1>2, <1>4, <1>5
<1>7. \A k \in 1 .. m : Snapshot(max)[k] = cells[Place(head, k)]
  BY <1>2, <1>3
<1>. QED
  BY <1>1, <1>6, <1>7 DEF SnapshotIs

LEMMA SnapshotNext == RingOK' => SnapshotsAre'
BY SnapshotOf, PTL

(* A shorter copy of the log is the front of the longer one. *)
ShorterAreFronts == \A max \in 1 .. LogLen : IsPrefix(Snapshot(max), Snapshot(LogLen))

LEMMA ShorterIsPrefix == RingOK => ShorterAreFronts
<1>. SUFFICES ASSUME RingOK, NEW max \in 1 .. LogLen
              PROVE  IsPrefix(Snapshot(max), Snapshot(LogLen))
  BY DEF ShorterAreFronts
<1>0. LogLen \in Nat \ {0} /\ LogLen \in 1 .. LogLen
  BY AlertAssumption
<1>1. PICK a \in Seq(Held), b \in Seq(Held) : a = Snapshot(max) /\ b = Snapshot(LogLen)
  BY <1>0, SnapshotOf DEF SnapshotsAre, SnapshotIs
<1>2. /\ Len(a) = Shown(max) /\ Len(b) = Shown(LogLen)
      /\ \A k \in 1 .. Shown(max) : a[k] = cells[Place(head, k)]
      /\ \A k \in 1 .. Shown(LogLen) : b[k] = cells[Place(head, k)]
  BY <1>0, <1>1, SnapshotOf DEF SnapshotsAre, SnapshotIs
<1>3. Shown(max) <= Shown(LogLen) /\ Shown(max) \in Nat /\ Shown(LogLen) \in Nat
  BY <1>0 DEF Shown, RingOK
<1>4. \A k \in 1 .. Shown(max) : k \in 1 .. Shown(LogLen)
  BY <1>3
<1>5. \A k \in 1 .. Len(a) : a[k] = b[k] /\ a[k] \in Held
  BY <1>2, <1>4, LenProperties
<1>6. SubSeq(a, 1, Len(a)) = SubSeq(b, 1, Len(a))
  <2>1. PICK n \in Nat : n = Len(a)
    BY <1>2, <1>3
  <2>2. /\ \A k \in 1 .. n : a[k] \in Held /\ b[k] \in Held
        /\ \A k \in 1 .. n : a[k] = b[k]
    BY <1>5, <2>1
  <2>3. SubSeq(a, 1, n) = [k \in 1 .. n |-> a[k]]
    BY <2>2
  <2>4. SubSeq(b, 1, n) = [k \in 1 .. n |-> b[k]]
    BY <2>2
  <2>. QED
    BY <2>1, <2>2, <2>3, <2>4
<1>. QED
  BY <1>1, <1>2, <1>3, <1>6 DEF IsPrefix

LEMMA PrefixNext == RingOK' => ShorterAreFronts'
BY ShorterIsPrefix, PTL

(* An alert puts its entry in front. *)
LEMMA AlertInFront ==
  ASSUME RingOK, RingOK', LogAlert
  PROVE  Snapshot(LogLen)' =
           SubSeq(<<entry>> \o Snapshot(LogLen), 1,
                  IF Len(Snapshot(LogLen)) < LogLen THEN Len(Snapshot(LogLen)) + 1 ELSE LogLen)
<1>0. LogLen \in Nat \ {0} /\ LogLen \in 1 .. LogLen
  BY AlertAssumption
<1>. DEFINE S == Held \cup {entry}
<1>1. Held \subseteq S
  OBVIOUS
<1>2. PICK b \in Seq(S) : /\ b = Snapshot(LogLen) /\ Len(b) = size
                          /\ \A k \in 1 .. size : b[k] = cells[Place(head, k)]
  <2>1. SnapshotIs(LogLen) /\ Shown(LogLen) = size
    BY <1>0, SnapshotOf DEF SnapshotsAre, Shown, RingOK
  <2>2. Snapshot(LogLen) \in Seq(S)
    BY <1>1, <2>1, SeqMonotonic DEF SnapshotIs
  <2>. QED
    BY <2>1, <2>2 DEF SnapshotIs
<1>3. PICK a : /\ a = Snapshot(LogLen)' /\ a \in Seq(Held') /\ Len(a) = size'
               /\ \A k \in 1 .. size' : a[k] = cells'[Place(head', k)]
  <2>1. SnapshotIs(LogLen)' /\ Shown(LogLen)' = size'
    BY <1>0, SnapshotNext DEF SnapshotsAre, Shown, RingOK
  <2>. QED
    BY <2>1 DEF SnapshotIs
<1>4. PICK x \in Seq(S) : /\ x = <<entry>> \o b /\ Len(x) = size + 1 /\ x[1] = entry
                          /\ \A k \in 2 .. size + 1 : x[k] = b[k - 1]
  <2>1. PICK e \in Seq(S) : e = <<entry>> /\ Len(e) = 1 /\ e[1] = entry
    <3>1. entry \in S
      OBVIOUS
    <3>. HIDE DEF S
    <3>2. <<entry>> \in Seq(S) /\ Len(<<entry>>) = 1 /\ <<entry>>[1] = entry
      BY <3>1
    <3>. QED
      BY <3>2
  <2>2. /\ e \o b \in Seq(S) /\ Len(e \o b) = 1 + size
        /\ \A k \in 1 .. 1 + size : (e \o b)[k] = IF k <= 1 THEN e[k] ELSE b[k - 1]
    BY <1>2, <2>1, ConcatProperties
  <2>3. size \in Nat
    BY <1>0 DEF RingOK
  <2>4. (e \o b)[1] = entry
    BY <2>1, <2>2, <2>3
  <2>5. \A k \in 2 .. size + 1 : (e \o b)[k] = b[k - 1]
    BY <2>2, <2>3
  <2>. QED
    <3>1. Len(e \o b) = size + 1 /\ e \o b \in Seq(S) /\ <<entry>> \o b = e \o b
      BY <2>1, <2>2, <2>3
    <3>. QED
      BY <2>4, <2>5, <3>1
<1>5. /\ head \in 0 .. LogLen - 1 /\ size \in 0 .. LogLen /\ size' \in Nat
      /\ cells' = [cells EXCEPT ![head] = entry] /\ DOMAIN cells = 0 .. LogLen - 1
      /\ head' = (head + 1) % LogLen
      /\ size' = IF size < LogLen THEN size + 1 ELSE LogLen
  BY <1>0 DEF RingOK, LogAlert, NextHead, NextSize
<1>6. ASSUME NEW k \in 1 .. size'
      PROVE  a[k] = x[k] /\ x[k] \in S
  <2>1. a[k] = cells'[Place(head', k)]
    BY <1>3
  <2>2. CASE k = 1
    <3>1. cells'[head] = entry
      BY <1>5
    <3>. QED
      BY <1>4, <1>5, <2>1, <2>2, <3>1, PlaceNext
  <2>3. CASE k # 1
    <3>1. k \in 2 .. LogLen /\ k \in 2 .. size + 1 /\ k - 1 \in 1 .. size
      BY <1>0, <1>5, <2>3
    <3>2. Place(head', k) = Place(head, k - 1) /\ Place(head, k - 1) # head
      BY <1>5, <3>1, PlaceNext
    <3>3. Place(head, k - 1) \in 0 .. LogLen - 1
      <4>1. head \in Int /\ k - 1 \in Int
        BY <1>5, <3>1
      <4>. QED
        BY <4>1, PlaceType
    <3>4. cells'[Place(head, k - 1)] = cells[Place(head, k - 1)]
      BY <1>5, <3>2, <3>3
    <3>5. b[k - 1] = cells[Place(head, k - 1)] /\ x[k] = b[k - 1]
      BY <1>2, <1>4, <3>1
    <3>6. b[k - 1] \in S
      BY <1>2, <3>1, ElementOfSeq
    <3>. QED
      BY <2>1, <3>2, <3>4, <3>5, <3>6
  <2>. QED
    BY <2>2, <2>3
<1>7. a = SubSeq(x, 1, size')
  <2>. HIDE DEF S
  <2>1. PICK n \in Nat : n = size'
    BY <1>5
  <2>2. SubSeq(x, 1, n) = [k \in 1 .. n |-> x[k]]
    BY <1>6, <2>1
  <2>3. a = [k \in 1 .. n |-> a[k]]
    BY <1>3, <2>1, LenProperties
  <2>. QED
    BY <1>6, <2>1, <2>2, <2>3
<1>. QED
  BY <1>2, <1>3, <1>4, <1>5, <1>7

(* The log shown is newest first and complete, for a ring of any size,     *)
(* however often it has gone round.                                        *)
THEOREM NewestComesFirst == AlertSpec => LogIsNewestFirst
<1>1. AlertInit => RingOK
  <2>. SUFFICES ASSUME AlertInit
                PROVE  RingOK
    OBVIOUS
  <2>1. head = 0 /\ size = 0 /\ cells = [k \in 0 .. LogLen - 1 |-> NoEntry]
    BY Zenon DEF AlertInit
  <2>. QED
    BY <2>1, AlertAssumption DEF RingOK
<1>2. AlertSpec => [](CheckTypeOK /\ RingOK)
  BY <1>1, RingStep, CheckTypeInit, CheckTypeStep, PTL DEF AlertSpec
<1>. DEFINE before == Snapshot(LogLen)
            after  == Snapshot(LogLen)'
            alerting == pc = "log" /\ pc' # "log"
            Kept   == /\ alerting =>
                           after = SubSeq(<<entry>> \o before, 1,
                                          IF Len(before) < LogLen THEN Len(before) + 1 ELSE LogLen)
                      /\ ClearLog => after = <<>>
                      /\ ~alerting /\ ~ClearLog => after = before
                      /\ \A max \in 1 .. LogLen : IsPrefix(Snapshot(max)', after)
<1>3. CheckTypeOK /\ RingOK /\ RingOK' /\ [AlertNext]_alertVars => [Kept]_alertVars
  <2>. SUFFICES ASSUME CheckTypeOK, RingOK, RingOK', AlertNext
                PROVE  Kept
    OBVIOUS
  <2>1. \A max \in 1 .. LogLen : IsPrefix(Snapshot(max)', after)
    BY PrefixNext DEF ShorterAreFronts
  <2>2. CASE LogAlert
    <3>1. ~ClearLog /\ alerting
      BY <2>2 DEF LogAlert, ClearLog, check
    <3>. QED
      BY <2>1, <2>2, <3>1, AlertInFront
  <2>3. CASE ClearLog
    <3>1. size' = 0 /\ LogLen \in Nat \ {0}
      BY <2>3, AlertAssumption DEF ClearLog
    <3>2. after = [k \in 1 .. 0 |-> cells'[NewestIndex(k - 1)']]
      BY <3>1 DEF Snapshot
    <3>3. ~alerting
      BY <2>3 DEF ClearLog, check
    <3>. QED
      BY <2>1, <2>3, <3>2, <3>3
  <2>4. CASE UNCHANGED ring /\ ~alerting /\ ~ClearLog
    <3>1. after = before
      BY <2>4 DEF ring, Snapshot, NewestIndex
    <3>. QED
      BY <2>1, <2>4, <3>1
  <2>5. CASE UNCHANGED ring /\ ~alerting
    <3>1. CASE ClearLog
      BY <2>3, <3>1
    <3>2. CASE ~ClearLog
      BY <2>4, <2>5, <3>2
    <3>. QED
      BY <3>1, <3>2
  <2>. HIDE DEF Kept
  <2>6. CASE EditConfig
    <3>1. UNCHANGED ring /\ ~alerting
      BY <2>6, EditEffect DEF check
    <3>. QED
      BY <2>5, <3>1
  <2>7. CASE BeginCheck \/ Announce \/ PassTime
    <3>1. UNCHANGED ring /\ ~alerting
      BY <2>7 DEF BeginCheck, Announce, PassTime, check
    <3>. QED
      BY <2>5, <3>1
  <2>8. CASE MatchSsid \/ MatchBssid \/ MatchRssi
    <3>1. UNCHANGED ring
      BY <2>8 DEF MatchSsid, MatchBssid, Admit, Compare, MatchRssi
    <3>2. pc # "log"
      BY <2>8 DEF MatchSsid, MatchBssid, Admit, Compare, MatchRssi
    <3>. QED
      BY <2>5, <3>1, <3>2
  <2>. QED
    BY <2>2, <2>3, <2>6, <2>7, <2>8 DEF AlertNext, AlertCheck
<1>. QED
  BY <1>2, <1>3, PTL DEF AlertSpec, LogIsNewestFirst

=============================================================================
