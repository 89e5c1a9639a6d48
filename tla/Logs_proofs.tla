----------------------------- MODULE Logs_proofs ----------------------------
(***************************************************************************)
(* Proofs about Logs, for any capacity and any number of records.          *)
(***************************************************************************)
EXTENDS Logs, SequenceTheorems, TLAPS

-----------------------------------------------------------------------------
(* The ring *)

\* The newest n elements of a sequence are a sequence of at most n elements,
\* the last ones.
LEMMA NewestProperties ==
    ASSUME NEW S, NEW q \in Seq(S), NEW n \in Nat
    PROVE  /\ Newest(q, n) \in Seq(S)
           /\ Len(Newest(q, n)) = IF Len(q) <= n THEN Len(q) ELSE n
           /\ \A i \in 1..Len(Newest(q, n)) :
                Newest(q, n)[i] = q[i + Len(q) - Len(Newest(q, n))]
<1> DEFINE m == Len(q)
<1>1. m \in Nat
  OBVIOUS
<1>2. CASE m <= n
  <2>1. Newest(q, n) = q
    BY <1>2 DEF Newest
  <2> QED
    BY <1>1, <1>2, <2>1
<1>3. CASE m > n
  <2>1. Newest(q, n) = SubSeq(q, m - n + 1, m)
    BY <1>1, <1>3 DEF Newest
  <2>2. \A i \in (m - n + 1)..m : q[i] \in S
    BY <1>1, <1>3
  <2>3. m - n + 1 \in Int
    BY <1>1
  <2> HIDE DEF m
  <2>4. /\ Newest(q, n) \in Seq(S)
        /\ Len(Newest(q, n)) = IF m - n + 1 <= m THEN m - (m - n + 1) + 1 ELSE 0
        /\ \A i \in 1..(m - (m - n + 1) + 1) : Newest(q, n)[i] = q[m - n + 1 + i - 1]
    BY <1>1, <2>1, <2>2, <2>3, SubSeqProperties
  <2>5. Len(Newest(q, n)) = n
    BY <1>1, <2>4
  <2>6. ASSUME NEW i \in 1..n PROVE Newest(q, n)[i] = q[i + m - n]
    <3>1. i \in 1..(m - (m - n + 1) + 1) /\ m - n + 1 + i - 1 = i + m - n
      BY <1>1
    <3> QED
      BY <2>4, <3>1
  <2> QED
    BY <1>1, <1>3, <2>4, <2>5, <2>6 DEF m
<1> QED
  BY <1>1, <1>2, <1>3

\* Adding a record to the newest ones gives the newest ones of all: to drop
\* the oldest record of a full ring each time is enough.
LEMMA AddKeepsNewest ==
    ASSUME NEW S, NEW q \in Seq(S), NEW r \in S
    PROVE  Add(Newest(q, Capacity), r) = Newest(Append(q, r), Capacity)
<1> DEFINE C == Capacity
           ring1 == Newest(q, C)
           kept == Newest(ring1, C - 1)
           all == Append(q, r)
           left == Append(kept, r)
           right == Newest(all, C)
<1>1. C \in Nat /\ C > 0 /\ C - 1 \in Nat /\ Len(q) \in Nat
  BY LogsAssumption
<1> HIDE DEF C
<1>2. /\ ring1 \in Seq(S)
      /\ Len(ring1) = IF Len(q) <= C THEN Len(q) ELSE C
      /\ \A i \in 1..Len(ring1) : ring1[i] = q[i + Len(q) - Len(ring1)]
  BY <1>1, NewestProperties
<1> HIDE DEF ring1
<1>3. /\ kept \in Seq(S)
      /\ Len(kept) = IF Len(ring1) <= C - 1 THEN Len(ring1) ELSE C - 1
      /\ \A i \in 1..Len(kept) : kept[i] = ring1[i + Len(ring1) - Len(kept)]
  BY <1>1, <1>2, NewestProperties
<1> HIDE DEF kept
<1>4. /\ all \in Seq(S) /\ Len(all) = Len(q) + 1
      /\ \A i \in 1..Len(q) : all[i] = q[i]
      /\ all[Len(q) + 1] = r
  OBVIOUS
<1> HIDE DEF all
<1>5. /\ right \in Seq(S)
      /\ Len(right) = IF Len(all) <= C THEN Len(all) ELSE C
      /\ \A i \in 1..Len(right) : right[i] = all[i + Len(all) - Len(right)]
  BY <1>1, <1>4, NewestProperties
<1> HIDE DEF right
<1>6. /\ left \in Seq(S) /\ Len(left) = Len(kept) + 1
      /\ \A i \in 1..Len(kept) : left[i] = kept[i]
      /\ left[Len(kept) + 1] = r
  BY <1>3
<1> HIDE DEF left
<1>7. Len(ring1) \in Nat /\ Len(kept) \in Nat /\ Len(left) = Len(right)
  BY <1>1, <1>2, <1>3, <1>4, <1>5, <1>6
<1> DEFINE n == Len(q)
           n1 == Len(ring1)
           n2 == Len(kept)
           d3 == Len(all) - Len(right)
<1>l. /\ n \in Nat /\ n1 \in Nat /\ n2 \in Nat /\ C \in Nat /\ C > 0
      /\ n1 = IF n <= C THEN n ELSE C
      /\ n2 = IF n1 <= C - 1 THEN n1 ELSE C - 1
      /\ d3 = IF n + 1 <= C THEN 0 ELSE n + 1 - C
  BY <1>1, <1>2, <1>3, <1>4, <1>5, <1>7
<1>8. ASSUME NEW i \in 1..Len(left) PROVE left[i] = right[i]
  <2>1. right[i] = all[i + Len(all) - Len(right)]
    BY <1>5, <1>7
  <2>2. CASE i \in 1..Len(kept)
    <3> DEFINE j == i + n1 - n2
               k == j + n - n1
    <3>a. i \in Nat /\ i >= 1 /\ i <= n2
      BY <1>l, <2>2
    <3>1. j \in 1..n1 /\ k \in 1..n
      <4> HIDE DEF n, n1, n2, d3
      <4> QED
        BY <1>l, <3>a
    <3>2. k = i + Len(all) - Len(right)
      <4>1. k = i + d3
        <5> HIDE DEF n, n1, n2, d3
        <5> QED
          BY <1>l, <3>a
      <4> QED
        BY <1>4, <1>5, <1>7, <3>a, <4>1
    <3>3. left[i] = kept[i] /\ kept[i] = ring1[j]
      BY <1>3, <1>6, <2>2
    <3>4. ring1[j] = q[k] /\ q[k] = all[k]
      BY <1>2, <1>4, <3>1
    <3> QED
      BY <2>1, <3>2, <3>3, <3>4
  <2>3. CASE i = Len(kept) + 1
    <3>1. i + Len(all) - Len(right) = Len(q) + 1
      BY <1>1, <1>4, <1>6, <1>7, <2>3
    <3> QED
      BY <1>4, <1>6, <2>1, <2>3, <3>1
  <2> QED
    BY <1>6, <1>7, <2>2, <2>3
<1>9. left = right
  BY <1>5, <1>6, <1>7, <1>8, SeqEqual
<1> QED
  BY <1>9 DEF Add, left, right, kept, ring1, all, C
-----------------------------------------------------------------------------
(* Types *)

\* Exporting a record keeps the types of what it changes.
LEMMA ExportType ==
    ASSUME TypeOK, NEW r \in Records, count < MaxRecords, Export(r)
    PROVE  /\ ring' \in Seq(Records) /\ exported' \in Seq(Records)
           /\ count' \in 0..MaxRecords
<1>1. CASE shutdown
  BY <1>1 DEF Export, TypeOK
<1>2. CASE ~shutdown
  <2>1. /\ ring' = Append(Newest(ring, Capacity - 1), r)
        /\ exported' = Append(exported, r) /\ count' = count + 1
    BY <1>2 DEF Export, Add
  <2>2. Newest(ring, Capacity - 1) \in Seq(Records)
    BY NewestProperties, LogsAssumption DEF TypeOK
  <2>3. ring' \in Seq(Records) /\ exported' \in Seq(Records)
    BY <2>1, <2>2 DEF TypeOK
  <2> QED
    BY <2>1, <2>3, LogsAssumption DEF TypeOK
<1> QED
  BY <1>1, <1>2

\* log() exports a record that has the next number, or does nothing.
LEMMA LogExports ==
    ASSUME TypeOK, NEW l \in Loggers, NEW severity \in Severities,
           Log(l, severity)
    PROVE  /\ UNCHANGED <<minimum, shutdown, returned>>
           /\ \/ UNCHANGED <<ring, exported, count>>
              \/ \E r \in Records :
                   count < MaxRecords /\ r.no = count + 1 /\ Export(r)
<1> DEFINE r == [no |-> count + 1, severity |-> severity]
<1>1. UNCHANGED <<minimum, shutdown, returned>> /\ count < MaxRecords
  BY DEF Log
<1>2. CASE IsEnabled(l, severity)
  <2>1. count + 1 \in 1..MaxRecords
    BY <1>1, LogsAssumption DEF TypeOK
  <2>2. r \in Records
    BY <2>1 DEF Records
  <2>3. Export(r) /\ r.no = count + 1
    BY <1>2 DEF Log
  <2> QED
    BY <1>1, <2>2, <2>3
<1>3. CASE ~IsEnabled(l, severity)
  BY <1>1, <1>3 DEF Log
<1> QED
  BY <1>2, <1>3

\* The initial state has the right types.
LEMMA TypeInit == Init => TypeOK
<1> SUFFICES ASSUME Init PROVE TypeOK
  OBVIOUS
<1>1. minimum \in [Loggers -> Severities \cup {NotCreated}]
  BY DEF Init
<1>2. /\ ring \in Seq(Records) /\ exported \in Seq(Records)
      /\ returned \in Seq(Records) /\ shutdown \in BOOLEAN
  <2> DEFINE R == Records
  <2>1. <<>> \in Seq(R)
    <3> HIDE DEF R
    <3> QED
      BY EmptySeq
  <2>2. ring = <<>> /\ exported = <<>> /\ returned = <<>> /\ shutdown = FALSE
    BY DEF Init
  <2> QED
    BY <2>1, <2>2
<1>3. count \in 0..MaxRecords
  BY LogsAssumption DEF Init
<1> QED
  BY <1>1, <1>2, <1>3 DEF TypeOK

\* Every step keeps the types.
LEMMA TypeStep == TypeOK /\ [Next]_vars => TypeOK'
<1> SUFFICES ASSUME TypeOK, [Next]_vars PROVE TypeOK'
  OBVIOUS
<1>1. ASSUME NEW l \in Loggers, NEW severity \in Severities,
             GetLogger(l, severity) \/ SetMinimumSeverity(l, severity)
      PROVE  TypeOK'
  BY <1>1 DEF GetLogger, SetMinimumSeverity, TypeOK
<1>2. ASSUME NEW l \in Loggers, NEW severity \in Severities,
             Log(l, severity)
      PROVE  TypeOK'
  <2>1. /\ minimum' = minimum /\ shutdown' = shutdown /\ returned' = returned
    BY <1>2, LogExports
  <2>2. \/ UNCHANGED <<ring, exported, count>>
        \/ \E r \in Records : count < MaxRecords /\ r.no = count + 1 /\ Export(r)
    BY <1>2, LogExports
  <2>3. CASE UNCHANGED <<ring, exported, count>>
    BY <2>1, <2>3 DEF TypeOK
  <2>4. ASSUME NEW r \in Records, count < MaxRecords, Export(r) PROVE TypeOK'
    <3>1. /\ ring' \in Seq(Records) /\ exported' \in Seq(Records)
          /\ count' \in 0..MaxRecords
      BY <2>4, ExportType
    <3> QED
      BY <2>1, <3>1 DEF TypeOK
  <2> QED
    BY <2>2, <2>3, <2>4
<1>3. CASE GetLogs \/ GetLogsFails
  <2>1. returned \o ring \in Seq(Records) /\ <<>> \in Seq(Records)
    BY DEF TypeOK
  <2> QED
    BY <1>3, <2>1 DEF GetLogs, GetLogsFails, TypeOK
<1>4. CASE Shutdown
  BY <1>4 DEF Shutdown, TypeOK
<1>5. CASE UNCHANGED vars
  BY <1>5 DEF vars, TypeOK
<1> QED
  BY <1>1, <1>2, <1>3, <1>4, <1>5 DEF Next, LogStep

\* Loggers, the ring and the flag always have the values they should
\* (src/logger-sdk.cc, src/in-memory-log-exporter.h).
THEOREM TypeCorrect == Spec => []TypeOK
<1> QED
  BY TypeInit, TypeStep, PTL DEF Spec

-----------------------------------------------------------------------------
(* What the ring holds *)

\* Every step keeps the newest records in the ring.
LEMMA NewestStep == TypeOK /\ NewestKept /\ [Next]_vars => NewestKept'
<1> SUFFICES ASSUME TypeOK, NewestKept, [Next]_vars PROVE NewestKept'
  OBVIOUS
<1>1. ASSUME UNCHANGED <<ring, exported>> PROVE NewestKept'
  BY <1>1 DEF NewestKept
<1>2. ASSUME NEW r \in Records, Export(r) PROVE NewestKept'
  <2>1. CASE shutdown
    BY <1>1, <1>2, <2>1 DEF Export
  <2>2. CASE ~shutdown
    <3>1. ring' = Add(ring, r) /\ exported' = Append(exported, r)
      BY <1>2, <2>2 DEF Export
    <3>2. Add(Newest(exported, Capacity), r) = Newest(Append(exported, r), Capacity)
      BY AddKeepsNewest DEF TypeOK
    <3> QED
      BY <3>1, <3>2 DEF NewestKept
  <2> QED
    BY <2>1, <2>2
<1>3. ASSUME NEW l \in Loggers, NEW severity \in Severities,
             Log(l, severity)
      PROVE  NewestKept'
  BY <1>1, <1>2, <1>3, LogExports
<1>4. CASE GetLogs \/ GetLogsFails
  <2>1. ring' = <<>> /\ exported' = <<>>
    BY <1>4 DEF GetLogs, GetLogsFails
  <2> QED
    BY <2>1, LogsAssumption DEF NewestKept, Newest
<1> QED
  BY <1>1, <1>3, <1>4 DEF Next, LogStep, GetLogger, SetMinimumSeverity,
                         Shutdown, vars

\* Whatever the capacity, the ring always holds the newest of the records
\* exported since it was last read (InMemoryLogData::Add).
THEOREM NewestKeptCorrect == Spec => []NewestKept
<1>1. Init => NewestKept
  BY LogsAssumption DEF Init, NewestKept, Newest
<1> QED
  BY <1>1, NewestStep, TypeCorrect, PTL DEF Spec

-----------------------------------------------------------------------------
(* The order of the records *)

\* All records that were returned, or that are going to be.
All == returned \o ring

\* ReturnedInOrder, and new records have greater numbers than all of these.
OrderInv ==
    /\ ReturnedInOrder
    /\ \A i \in DOMAIN All : All[i].no <= count

\* Making room in the ring keeps the newest of its records, in their order.
LEMMA KeptRecords ==
    ASSUME TypeOK, NEW kept, kept = Newest(ring, Capacity - 1)
    PROVE  /\ kept \in Seq(Records) /\ Len(ring) \in Nat
           /\ Len(kept) \in Nat /\ Len(kept) <= Len(ring)
           /\ \A i \in 1..Len(kept) : kept[i] = ring[i + Len(ring) - Len(kept)]
<1> DEFINE k == Capacity - 1
<1>1. k \in Nat
  BY LogsAssumption
<1>2. ring \in Seq(Records)
  BY DEF TypeOK
<1>3. kept = Newest(ring, k)
  OBVIOUS
<1> HIDE DEF k
<1>4. /\ Newest(ring, k) \in Seq(Records)
      /\ Len(Newest(ring, k)) = IF Len(ring) <= k THEN Len(ring) ELSE k
      /\ \A i \in 1..Len(Newest(ring, k)) :
           Newest(ring, k)[i] = ring[i + Len(ring) - Len(Newest(ring, k))]
  BY <1>1, <1>2, NewestProperties, Zenon
<1>5. Len(ring) \in Nat
  BY <1>2
<1>6. kept \in Seq(Records) /\ Len(kept) = IF Len(ring) <= k THEN Len(ring) ELSE k
  BY <1>3, <1>4
<1>7. Len(kept) \in Nat /\ Len(kept) <= Len(ring)
  BY <1>1, <1>5, <1>6
<1> QED
  BY <1>3, <1>4, <1>5, <1>6, <1>7

\* Exporting puts a record with a new number at the end.
LEMMA OrderExport ==
    ASSUME TypeOK, OrderInv, NEW r \in Records, r.no = count + 1, Export(r),
           returned' = returned
    PROVE  OrderInv'
<1>1. CASE shutdown
  BY <1>1 DEF Export, OrderInv, ReturnedInOrder, All
<1>2. CASE ~shutdown
  <2> DEFINE kept == Newest(ring, Capacity - 1)
             d == Len(ring) - Len(kept)
             m == Len(returned)
             n == Len(kept)
  <2>1. ring' = Append(kept, r) /\ count' = count + 1
    BY <1>2 DEF Export, Add
  <2>2. /\ kept \in Seq(Records) /\ Len(kept) <= Len(ring)
        /\ \A i \in 1..Len(kept) : kept[i] = ring[i + Len(ring) - Len(kept)]
    BY KeptRecords
  <2>3. m \in Nat /\ n \in Nat /\ d \in Nat /\ Len(ring) = n + d /\ count \in Nat
    BY <2>2, LogsAssumption DEF TypeOK
  <2>4. /\ DOMAIN All = 1..(m + n + d)
        /\ \A i \in 1..m : All[i] = returned[i]
        /\ \A i \in (m + 1)..(m + n + d) : All[i] = ring[i - m]
    BY <2>3, ConcatProperties DEF TypeOK, All
  <2> HIDE DEF kept
  <2>5. ring' \in Seq(Records) /\ Len(ring') = n + 1
        /\ (\A i \in 1..n : ring'[i] = kept[i]) /\ ring'[n + 1] = r
    BY <2>1, <2>2
  <2>6. /\ DOMAIN All' = 1..(m + n + 1)
        /\ \A i \in 1..m : All'[i] = returned[i]
        /\ \A i \in (m + 1)..(m + n + 1) : All'[i] = ring'[i - m]
    <3>1. All' = returned \o ring' /\ returned \in Seq(Records)
      BY DEF TypeOK, All
    <3>2. /\ returned \o ring' \in Seq(Records)
          /\ Len(returned \o ring') = Len(returned) + Len(ring')
          /\ \A i \in 1..(Len(returned) + Len(ring')) :
               (returned \o ring')[i] = IF i <= Len(returned) THEN returned[i]
                                        ELSE ring'[i - Len(returned)]
      BY <2>5, <3>1, ConcatProperties
    <3>3. m + Len(ring') = m + n + 1
      BY <2>3, <2>5
    <3>4. /\ All' \in Seq(Records) /\ Len(All') = m + n + 1
          /\ \A i \in 1..(m + n + 1) :
               All'[i] = IF i <= m THEN returned[i] ELSE ring'[i - m]
      BY <3>1, <3>2, <3>3
    <3> HIDE DEF m, n, d, All
    <3>5. DOMAIN All' = 1..(m + n + 1)
      BY <3>4
    <3>6. ASSUME NEW i \in 1..m PROVE All'[i] = returned[i]
      <4>1. i \in 1..(m + n + 1) /\ i <= m
        BY <2>3
      <4> QED
        BY <3>4, <4>1
    <3>7. ASSUME NEW i \in (m + 1)..(m + n + 1) PROVE All'[i] = ring'[i - m]
      <4>1. i \in 1..(m + n + 1) /\ ~(i <= m)
        BY <2>3
      <4> QED
        BY <3>4, <4>1
    <3> QED
      BY <3>5, <3>6, <3>7
  <2>7. \A i \in 1..m : All'[i] = All[i]
    BY <2>3, <2>4, <2>6
  <2>8. ASSUME NEW i \in (m + 1)..(m + n) PROVE All'[i] = All[i + d]
    <3>1. i - m \in 1..n /\ i \in (m + 1)..(m + n + 1) /\ i + d \in (m + 1)..(m + n + d)
      BY <2>3
    <3> DEFINE j == i + d
    <3>2. All'[i] = ring'[i - m]
      BY <2>6, <3>1
    <3>5. All[j] = ring[j - m]
      <4>1. j \in (m + 1)..(m + n + d)
        BY <3>1
      <4> HIDE DEF j, m, n, d
      <4> QED
        BY <2>4, <4>1
    <3>3. ring'[i - m] = ring[i - m + Len(ring) - Len(kept)]
      BY <2>2, <2>5, <3>1
    <3>4. i - m + Len(ring) - Len(kept) = i + d - m
      BY <2>3
    <3> QED
      BY <3>2, <3>3, <3>4, <3>5
  <2>9. All'[m + n + 1] = r
    <3>1. m + n + 1 \in (m + 1)..(m + n + 1) /\ m + n + 1 - m = n + 1
      BY <2>3
    <3>2. All'[m + n + 1] = ring'[m + n + 1 - m]
      BY <2>6, <3>1
    <3> QED
      BY <2>5, <3>1, <3>2
  <2> DEFINE old(i) == IF i <= m THEN i ELSE i + d
  <2>10. ASSUME NEW i \in 1..(m + n)
         PROVE  old(i) \in DOMAIN All /\ All'[i] = All[old(i)]
    <3>1. CASE i \in 1..m
      <4>1. old(i) = i /\ i \in 1..(m + n + d)
        BY <2>3, <3>1
      <4> QED
        BY <2>4, <2>7, <3>1, <4>1
    <3>2. CASE i \in (m + 1)..(m + n)
      <4>1. old(i) = i + d /\ i + d \in 1..(m + n + d)
        BY <2>3, <3>2
      <4> QED
        BY <2>4, <2>8, <3>2, <4>1
    <3> QED
      BY <2>3, <3>1, <3>2
  <2>11. \A i, j \in 1..(m + n) : i < j => old(i) < old(j)
    BY <2>3
  <2> HIDE DEF old, m, n, d
  <2>12. \A i \in 1..(m + n) : All'[i].no <= count
    BY <2>10 DEF OrderInv
  <2>13. \A i, j \in 1..(m + n) : i < j => All'[i].no < All'[j].no
    BY <2>10, <2>11 DEF OrderInv, ReturnedInOrder, All
  <2>14. \A i \in 1..(m + n) : All'[i].no \in Nat /\ All'[i].no < r.no
    <3>1. \A i \in DOMAIN All : All[i].no \in Nat
      <4>1. All \in Seq(Records)
        BY ConcatProperties DEF TypeOK, All
      <4>2. \A i \in DOMAIN All : All[i] \in Records
        BY <4>1
      <4> QED
        BY <4>2, LogsAssumption DEF Records
    <3> QED
      BY <2>3, <2>10, <2>12, <3>1
  <2>15. \A i, j \in DOMAIN All' : i < j => All'[i].no < All'[j].no
    BY SMTT(30), <2>3, <2>6, <2>9, <2>13, <2>14
  <2>16. \A i \in DOMAIN All' : All'[i].no <= count'
    BY <2>1, <2>3, <2>6, <2>9, <2>12, <2>14
  <2> QED
    BY <2>15, <2>16 DEF OrderInv, ReturnedInOrder, All
<1> QED
  BY <1>1, <1>2

\* Every step keeps the order.
LEMMA OrderStep == TypeOK /\ OrderInv /\ [Next]_vars => OrderInv'
<1> SUFFICES ASSUME TypeOK, OrderInv, [Next]_vars PROVE OrderInv'
  OBVIOUS
<1>1. ASSUME UNCHANGED <<ring, returned, count>> PROVE OrderInv'
  BY <1>1 DEF OrderInv, ReturnedInOrder, All
<1>2. ASSUME NEW l \in Loggers, NEW severity \in Severities,
             Log(l, severity)
      PROVE  OrderInv'
  BY <1>1, <1>2, LogExports, OrderExport
<1>3. CASE GetLogs
  <2>1. returned' = All /\ ring' = <<>> /\ count' = count
    BY <1>3 DEF GetLogs, All
  <2>2. All \in Seq(Records)
    BY ConcatProperties DEF TypeOK, All
  <2>3. All' = All
    BY <2>1, <2>2, ConcatEmptySeq DEF All
  <2> QED
    BY <2>1, <2>3 DEF OrderInv, ReturnedInOrder, All
<1>4. CASE GetLogsFails
  <2>1. returned' = returned /\ ring' = <<>> /\ count' = count
    BY <1>4 DEF GetLogsFails
  <2>2. All' = returned
    BY <2>1, ConcatEmptySeq DEF TypeOK, All
  <2>3. /\ DOMAIN returned \subseteq DOMAIN All
        /\ \A i \in DOMAIN returned : All[i] = returned[i]
    BY ConcatProperties DEF TypeOK, All
  <2>4. \A i, j \in DOMAIN returned : i < j => returned[i].no < returned[j].no
    BY <2>3 DEF OrderInv, ReturnedInOrder, All
  <2>5. \A i \in DOMAIN returned : returned[i].no <= count
    BY <2>3 DEF OrderInv
  <2> QED
    BY <2>1, <2>2, <2>4, <2>5 DEF OrderInv, ReturnedInOrder, All
<1> QED
  BY <1>1, <1>2, <1>3, <1>4 DEF Next, LogStep, GetLogger, SetMinimumSeverity,
                               Shutdown, vars

\* Over any number of calls, get_logs() returns records in the order they were
\* emitted, and none of them twice (InMemoryLogData::Get).
THEOREM ReturnedInOrderCorrect == Spec => []ReturnedInOrder
<1>1. Init => OrderInv
  <2> SUFFICES ASSUME Init PROVE OrderInv
    OBVIOUS
  <2>1. All = <<>>
    BY DEF Init, All
  <2> QED
    BY <2>1 DEF OrderInv, ReturnedInOrder, All
<1>2. OrderInv => ReturnedInOrder
  BY DEF OrderInv
<1> QED
  BY <1>1, <1>2, OrderStep, TypeCorrect, PTL DEF Spec
=============================================================================
