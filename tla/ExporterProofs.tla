--------------------------- MODULE ExporterProofs ---------------------------
(***************************************************************************)
(* Proofs about Exporter, for all ports, buffers and numbers of reports.   *)
(***************************************************************************)
EXTENDS Exporter, FiniteSetTheorems, TLAPS

-----------------------------------------------------------------------------
(***************************************************************************)
(* The inductive invariant.                                                *)
(***************************************************************************)
Positions == 1 .. Len(queue)

\* A row has statistics only once its port has been there.
Fresh == bridge \subseteq used /\ \A s \in Sandboxes \ used : reports[s] = 0

\* The waiting events of a port are in the order of its reports.
Ordered ==
    /\ \A i \in Positions : queue[i].new <= reports[queue[i].port]
    /\ \A i, j \in Positions :
          i < j /\ queue[i].port = queue[j].port => queue[i].new <= queue[j].new

\* A gauge is behind all of the waiting events of the port it tells of.
Behind(gauge) ==
    \A l \in Series :
        gauge[l] # Unset =>
            /\ gauge[l].report <= reports[gauge[l].port]
            /\ \A i \in Positions : queue[i].port = gauge[l].port => gauge[l].report <= queue[i].new

\* An exporter that has no handler has handled nothing.
Quiet ==
    /\ process = "down" => queue = <<>>
    /\ process \in {"down", "monitoring"} =>
          \A l \in Series : RxBytes[l] = Unset /\ TxBytes[l] = Unset
    /\ process # "serving" => \A l \in Series : told[l] = NoSandbox

\* An event that changes series l.
Writes(e, l) == e.kind # "delete" /\ e.new # 0 /\ SeriesOf(e.port) = l

\* The last report of s is the last that waits for the series, or is shown
\* and none waits.
Latest(l, s) ==
    \/ \E i \in Positions :
          /\ Writes(queue[i], l) /\ queue[i].port = s /\ queue[i].new = reports[s]
          /\ \A j \in Positions : i < j => ~Writes(queue[j], l)
    \/ /\ TxBytes[l] = Sample("rx_bytes", s, reports[s])
       /\ RxBytes[l] = Sample("tx_bytes", s, reports[s])
       /\ \A j \in Positions : ~Writes(queue[j], l)

ToldLatest ==
    \A l \in Series : told[l] # NoSandbox => SeriesOf(told[l]) = l /\ Latest(l, told[l])

IInv == TypeOK /\ Fresh /\ Ordered /\ Behind(RxBytes) /\ Behind(TxBytes) /\ Quiet /\ ToldLatest

-----------------------------------------------------------------------------
(***************************************************************************)
(* The buffer.                                                             *)
(***************************************************************************)
USE IdAssumption, BoundAssumption

Event(kind, s, old, new) == [kind |-> kind, port |-> s, old |-> old, new |-> new]

\* The buffer took the event, or is as it was.
Appended(e) ==
    /\ Len(queue') = Len(queue) + 1
    /\ queue'[Len(queue) + 1] = e
    /\ \A i \in Positions : queue'[i] = queue[i]

LEMMA Enqueued ==
    ASSUME TypeOK, NEW kind \in {"add", "update", "delete"}, NEW s \in Sandboxes,
           NEW old \in 0 .. MaxReports, NEW new \in 0 .. MaxReports, Enqueue(kind, s, old, new)
    PROVE  /\ queue' \in Seq(Events) /\ Len(queue') <= Capacity
           /\ queue' = queue \/ Appended(Event(kind, s, old, new))
           /\ process = "serving" /\ HasRoom => Appended(Event(kind, s, old, new))
           /\ ~Listening => queue' = queue
<1>1. queue \in Seq(Events) /\ Len(queue) <= Capacity
  BY DEF TypeOK
<1>2. Event(kind, s, old, new) \in Events
  BY DEF Event, Events
<1>3. Len(queue) \in Nat
  BY <1>1
<1>4. CASE Listening /\ HasRoom
  <2>1. queue' = Append(queue, Event(kind, s, old, new))
    BY <1>4 DEF Enqueue, Event
  <2>2. queue' \in Seq(Events) /\ Appended(Event(kind, s, old, new))
    BY <1>1, <1>2, <2>1 DEF Appended, Positions
  <2>3. QED
    BY <1>3, <1>4, <2>2 DEF Appended, HasRoom
<1>5. CASE ~(Listening /\ HasRoom)
  BY <1>1, <1>5 DEF Enqueue, Listening
<1>6. QED
  BY <1>4, <1>5

LEMMA Dispatched ==
    ASSUME TypeOK, queue # <<>>, queue' = Tail(queue)
    PROVE  /\ queue' \in Seq(Events) /\ Len(queue') <= Capacity
           /\ Head(queue) = queue[1] /\ 1 \in Positions /\ queue[1] \in Events
           /\ Len(queue') = Len(queue) - 1
           /\ \A i \in Positions' : queue'[i] = queue[i + 1] /\ i + 1 \in Positions
<1>1. queue \in Seq(Events) /\ Len(queue) <= Capacity
  BY DEF TypeOK
<1>2. Len(queue) \in Nat /\ Len(queue) > 0
  BY <1>1
<1>3. queue' \in Seq(Events) /\ Len(queue') = Len(queue) - 1
  BY <1>1, <1>2
<1>4. Head(queue) = queue[1] /\ queue[1] \in Events
  BY <1>1, <1>2
<1>5. \A i \in Positions' : queue'[i] = queue[i + 1] /\ i + 1 \in Positions
  BY <1>1, <1>2, <1>3 DEF Positions
<1>6. QED
  BY <1>1, <1>2, <1>3, <1>4, <1>5 DEF Positions

-----------------------------------------------------------------------------
(***************************************************************************)
(* What an event that is added keeps.                                      *)
(***************************************************************************)

\* The order of the events, if the event tells of the latest report.
LEMMA EnqueueKeepsOrder ==
    ASSUME TypeOK, Ordered, NEW gauge \in [Series -> Samples \cup {Unset}], Behind(gauge),
           NEW kind \in {"add", "update", "delete"}, NEW s \in Sandboxes,
           NEW old \in 0 .. MaxReports, NEW new \in 0 .. MaxReports, Enqueue(kind, s, old, new),
           reports' \in [Sandboxes -> 0 .. MaxReports], reports[s] <= new, new <= reports'[s],
           \A t \in Sandboxes : reports[t] <= reports'[t]
    PROVE  /\ Ordered'
           /\ \A l \in Series :
                 gauge[l] # Unset =>
                     /\ gauge[l].report <= reports'[gauge[l].port]
                     /\ \A i \in Positions' :
                           queue'[i].port = gauge[l].port => gauge[l].report <= queue'[i].new
<1>1. /\ queue \in Seq(Events) /\ Len(queue) \in Nat /\ reports \in [Sandboxes -> 0 .. MaxReports]
      /\ \A i \in Positions : queue[i] \in Events
  BY DEF TypeOK, Positions
<1>2. queue' = queue \/ Appended(Event(kind, s, old, new))
  BY Enqueued
<1>3. \A i \in Positions' :
         \/ i \in Positions /\ queue'[i] = queue[i]
         \/ i = Len(queue) + 1 /\ queue'[i].port = s /\ queue'[i].new = new
  BY <1>1, <1>2 DEF Positions, Appended, Event
<1>4. \A i \in Positions : queue[i].port \in Sandboxes /\ queue[i].new \in 0 .. MaxReports
  BY <1>1 DEF Events
<1>5. Ordered'
  <2>1. ASSUME NEW i \in Positions' PROVE queue'[i].new <= reports'[queue'[i].port]
    BY <1>1, <1>3, <1>4 DEF Ordered
  <2>2. ASSUME NEW i \in Positions', NEW j \in Positions', i < j, queue'[i].port = queue'[j].port
        PROVE  queue'[i].new <= queue'[j].new
    <3>1. i \in Positions /\ queue'[i] = queue[i]
      BY <1>1, <1>3, <2>2 DEF Positions
    <3>2. CASE j \in Positions /\ queue'[j] = queue[j]
      BY <2>2, <3>1, <3>2 DEF Ordered
    <3>3. CASE queue'[j].port = s /\ queue'[j].new = new
      BY <1>1, <1>4, <2>2, <3>1, <3>3 DEF Ordered
    <3>4. QED
      BY <1>3, <3>2, <3>3
  <2>3. QED
    BY <2>1, <2>2 DEF Ordered
<1>6. ASSUME NEW l \in Series, gauge[l] # Unset
      PROVE  /\ gauge[l].report <= reports'[gauge[l].port]
             /\ \A i \in Positions' :
                   queue'[i].port = gauge[l].port => gauge[l].report <= queue'[i].new
  <2>1. gauge[l].port \in Sandboxes /\ gauge[l].report \in 1 .. MaxReports
    BY <1>6 DEF Samples
  <2>2. /\ gauge[l].report <= reports[gauge[l].port]
        /\ \A i \in Positions : queue[i].port = gauge[l].port => gauge[l].report <= queue[i].new
    BY <1>6 DEF Behind
  <2>3. gauge[l].report <= reports'[gauge[l].port]
    BY <1>1, <2>1, <2>2
  <2>4. ASSUME NEW i \in Positions', queue'[i].port = gauge[l].port
        PROVE  gauge[l].report <= queue'[i].new
    <3>1. CASE i \in Positions /\ queue'[i] = queue[i]
      BY <2>2, <2>4, <3>1
    <3>2. CASE queue'[i].port = s /\ queue'[i].new = new
      <4>1. gauge[l].report <= reports[s]
        BY <2>2, <2>4, <3>2
      <4>2. reports[s] \in Nat /\ gauge[l].report \in Nat
        BY <1>1, <2>1
      <4>3. QED
        BY <3>2, <4>1, <4>2
    <3>3. QED
      BY <1>3, <3>1, <3>2
  <2>5. QED
    BY <2>3, <2>4
<1>7. QED
  BY <1>5, <1>6

\* What is the latest for a series, if the event does not change it.
LEMMA EnqueueKeepsLatest ==
    ASSUME TypeOK, NEW l \in Series, NEW t \in Sandboxes, Latest(l, t),
           NEW kind \in {"add", "update", "delete"}, NEW s \in Sandboxes,
           NEW old \in 0 .. MaxReports, NEW new \in 0 .. MaxReports, Enqueue(kind, s, old, new),
           ~Writes(Event(kind, s, old, new), l), reports'[t] = reports[t], UNCHANGED gauges
    PROVE  Latest(l, t)'
<1>1. Len(queue) \in Nat
  BY DEF TypeOK
<1>2. queue' = queue \/ Appended(Event(kind, s, old, new))
  BY Enqueued
<1>3. /\ \A i \in Positions : i \in Positions' /\ queue'[i] = queue[i]
      /\ \A i \in Positions' : i \in Positions \/ ~Writes(queue'[i], l)
  BY <1>1, <1>2 DEF Positions, Appended
<1>4. CASE \E i \in Positions :
             /\ Writes(queue[i], l) /\ queue[i].port = t /\ queue[i].new = reports[t]
             /\ \A j \in Positions : i < j => ~Writes(queue[j], l)
  <2>1. PICK i \in Positions :
             /\ Writes(queue[i], l) /\ queue[i].port = t /\ queue[i].new = reports[t]
             /\ \A j \in Positions : i < j => ~Writes(queue[j], l)
    BY <1>4
  <2>2. /\ i \in Positions' /\ Writes(queue'[i], l)
        /\ queue'[i].port = t /\ queue'[i].new = reports'[t]
    BY <1>3, <2>1
  <2>3. \A j \in Positions' : i < j => ~Writes(queue'[j], l)
    BY <1>3, <2>1
  <2>4. QED
    BY <2>2, <2>3 DEF Latest, Writes
<1>5. CASE /\ TxBytes[l] = Sample("rx_bytes", t, reports[t])
           /\ RxBytes[l] = Sample("tx_bytes", t, reports[t])
           /\ \A j \in Positions : ~Writes(queue[j], l)
  <2>1. \A j \in Positions' : ~Writes(queue'[j], l)
    BY <1>3, <1>5
  <2>2. /\ TxBytes'[l] = Sample("rx_bytes", t, reports'[t])
        /\ RxBytes'[l] = Sample("tx_bytes", t, reports'[t])
    BY <1>5 DEF gauges
  <2>3. QED
    BY <2>1, <2>2 DEF Latest, Writes
<1>6. QED
  BY <1>4, <1>5 DEF Latest

-----------------------------------------------------------------------------
(***************************************************************************)
(* The steps.                                                              *)
(***************************************************************************)
LEMMA InitInvariant == Init => IInv
<1> SUFFICES ASSUME Init PROVE IInv
  OBVIOUS
<1> USE DEF Init, OvsInit
<1>1. Positions = {} /\ Len(queue) = 0 /\ queue \in Seq(Events)
  BY DEF Positions
<1>2. TypeOK
  BY <1>1 DEF TypeOK, OvsTypeOK
<1>3. Fresh /\ Ordered /\ Behind(RxBytes) /\ Behind(TxBytes) /\ Quiet /\ ToldLatest
  BY <1>1 DEF Fresh, Ordered, Behind, Quiet, ToldLatest
<1>4. QED
  BY <1>2, <1>3 DEF IInv

\* A step of a row that is not a report leaves what is the latest as it is.
LEMMA RowChanges ==
    ASSUME IInv, NEW kind \in {"add", "delete"}, NEW s \in Sandboxes, Enqueue(kind, s, reports[s], reports[s]),
           kind = "add" => reports[s] = 0,
           bridge' \subseteq used', used \subseteq used', used' \subseteq Sandboxes,
           UNCHANGED <<reports, process, gauges, told>>
    PROVE  IInv'
<1>1. /\ TypeOK /\ reports \in [Sandboxes -> 0 .. MaxReports]
      /\ RxBytes \in [Series -> Samples \cup {Unset}] /\ TxBytes \in [Series -> Samples \cup {Unset}]
      /\ told \in [Series -> Sandboxes \cup {NoSandbox}]
  BY DEF IInv, TypeOK
<1>2. reports[s] \in 0 .. MaxReports
  BY <1>1
<1>3. queue' \in Seq(Events) /\ Len(queue') <= Capacity /\ (~Listening => queue' = queue)
  BY <1>1, <1>2, Enqueued
<1>4. TypeOK'
  BY <1>1, <1>3 DEF TypeOK, OvsTypeOK, gauges
<1>5. Fresh'
  BY DEF IInv, Fresh
<1>6. \A t \in Sandboxes : reports[t] <= reports'[t]
  BY <1>1
<1>7. reports' \in [Sandboxes -> 0 .. MaxReports] /\ reports[s] <= reports[s] /\ reports[s] <= reports'[s]
  BY <1>1, <1>2
<1>8. Ordered' /\ Behind(RxBytes)'
  <2>1. Ordered /\ Behind(RxBytes)
    BY DEF IInv
  <2>2. QED
    BY <1>1, <1>2, <1>6, <1>7, <2>1, EnqueueKeepsOrder DEF Behind, gauges
<1>9. Behind(TxBytes)'
  <2>1. Ordered /\ Behind(TxBytes)
    BY DEF IInv
  <2>2. QED
    BY <1>1, <1>2, <1>6, <1>7, <2>1, EnqueueKeepsOrder DEF Behind, gauges
<1>10. Quiet'
  BY <1>3 DEF IInv, Quiet, Listening, gauges
<1>11. ToldLatest'
  <2>1. SUFFICES ASSUME NEW l \in Series, told[l] # NoSandbox
                 PROVE  SeriesOf(told[l]) = l /\ Latest(l, told[l])'
    BY DEF ToldLatest, SeriesOf
  <2>2. PICK t \in Sandboxes : t = told[l] /\ SeriesOf(t) = l /\ Latest(l, t)
    BY <1>1, <2>1 DEF IInv, ToldLatest
  <2>3. ~Writes(Event(kind, s, reports[s], reports[s]), l)
    BY DEF Writes, Event
  <2>4. Latest(l, t)'
    BY <1>1, <1>2, <2>2, <2>3, EnqueueKeepsLatest
  <2>5. QED
    BY <2>2, <2>4 DEF Latest
<1>12. QED
  BY <1>4, <1>5, <1>8, <1>9, <1>10, <1>11 DEF IInv

LEMMA PlugPortInvariant ==
    ASSUME IInv, NEW s \in Sandboxes, PlugPort(s)
    PROVE  IInv'
<1>1. reports[s] = 0
  BY DEF IInv, Fresh, PlugPort
<1>2. bridge' \subseteq used' /\ used \subseteq used' /\ used' \subseteq Sandboxes
  BY DEF IInv, TypeOK, Fresh, PlugPort, AddPort
<1>3. QED
  BY <1>1, <1>2, RowChanges DEF PlugPort

LEMMA UnplugPortInvariant ==
    ASSUME IInv, NEW s \in Sandboxes, UnplugPort(s)
    PROVE  IInv'
<1>1. bridge' \subseteq used' /\ used \subseteq used' /\ used' \subseteq Sandboxes
  BY DEF IInv, TypeOK, Fresh, UnplugPort, DelPort
<1>2. QED
  BY <1>1, RowChanges DEF UnplugPort

LEMMA ReportInvariant ==
    ASSUME IInv, NEW s \in Sandboxes, Report(s)
    PROVE  IInv'
<1>1. /\ TypeOK /\ reports \in [Sandboxes -> 0 .. MaxReports] /\ Len(queue) \in Nat
      /\ RxBytes \in [Series -> Samples \cup {Unset}] /\ TxBytes \in [Series -> Samples \cup {Unset}]
      /\ told \in [Series -> Sandboxes \cup {NoSandbox}] /\ MaxReports \in Nat
  BY DEF IInv, TypeOK
<1>2. /\ s \in bridge /\ reports[s] < MaxReports
      /\ reports' = [reports EXCEPT ![s] = reports[s] + 1]
      /\ Enqueue("update", s, reports[s], reports[s] + 1)
      /\ UNCHANGED <<bridge, used, process, gauges>>
  BY DEF Report
<1>3. reports[s] \in 0 .. MaxReports /\ reports[s] + 1 \in 1 .. MaxReports
  BY <1>1, <1>2
<1> DEFINE e == Event("update", s, reports[s], reports[s] + 1)
<1>4. /\ queue' \in Seq(Events) /\ Len(queue') <= Capacity /\ (~Listening => queue' = queue)
      /\ process = "serving" /\ HasRoom => Appended(e)
  BY <1>1, <1>2, <1>3, Enqueued
<1>5. told' \in [Series -> Sandboxes \cup {NoSandbox}]
  BY <1>1 DEF Report
<1>6. reports' \in [Sandboxes -> 0 .. MaxReports]
  BY <1>1, <1>2, <1>3
<1>7. TypeOK'
  BY <1>1, <1>2, <1>4, <1>5, <1>6 DEF TypeOK, OvsTypeOK, gauges
<1>8. Fresh'
  BY <1>1, <1>2 DEF IInv, Fresh
<1>9. /\ \A t \in Sandboxes : reports[t] <= reports'[t]
      /\ reports[s] <= reports[s] + 1 /\ reports[s] + 1 <= reports'[s]
  BY <1>1, <1>2, <1>3
<1>10. Ordered' /\ Behind(RxBytes)'
  <2>1. Ordered /\ Behind(RxBytes)
    BY DEF IInv
  <2>2. QED
    BY <1>1, <1>2, <1>3, <1>6, <1>9, <2>1, EnqueueKeepsOrder DEF Behind, gauges
<1>11. Behind(TxBytes)'
  <2>1. Ordered /\ Behind(TxBytes)
    BY DEF IInv
  <2>2. QED
    BY <1>1, <1>2, <1>3, <1>6, <1>9, <2>1, EnqueueKeepsOrder DEF Behind, gauges
<1>12. Quiet'
  <2>1. process # "serving" => \A l \in Series : told'[l] = NoSandbox
    BY <1>1 DEF IInv, Quiet, Report
  <2>2. QED
    BY <1>2, <1>4, <2>1 DEF IInv, Quiet, Listening, gauges
<1>13. ToldLatest'
  <2>1. SUFFICES ASSUME NEW l \in Series, told'[l] # NoSandbox
                 PROVE  SeriesOf(told'[l]) = l /\ Latest(l, told[l])'
    BY DEF ToldLatest, SeriesOf
  <2>2. CASE SeriesOf(s) = l
    <3>1. l # NoLabels
      BY DEF Series
    <3>2. told'[l] = s /\ process = "serving" /\ HasRoom
      BY <1>1, <2>1, <2>2, <3>1 DEF Report
    <3>3. Appended(e)
      BY <1>4, <3>2
    <3>4. Len(queue) + 1 \in Positions' /\ \A j \in Positions' : ~(Len(queue) + 1 < j)
      BY <1>1, <3>3 DEF Positions, Appended
    <3>5. /\ queue'[Len(queue) + 1].kind = "update" /\ queue'[Len(queue) + 1].port = s
          /\ queue'[Len(queue) + 1].new = reports'[s] /\ reports'[s] # 0
      BY <1>1, <1>2, <1>3, <3>3 DEF Appended, Event
    <3>6. Latest(l, told[l])'
      BY <2>2, <3>2, <3>4, <3>5 DEF Latest, Writes, SeriesOf
    <3>7. QED
      BY <2>2, <3>2, <3>6
  <2>3. CASE SeriesOf(s) # l
    <3>1. told'[l] = told[l]
      BY <1>1, <2>3 DEF Report
    <3>2. PICK t \in Sandboxes : t = told[l] /\ SeriesOf(t) = l /\ Latest(l, t)
      BY <1>1, <2>1, <3>1 DEF IInv, ToldLatest
    <3>3. reports'[t] = reports[t]
      BY <1>1, <1>2, <2>3, <3>2
    <3>4. ~Writes(e, l)
      BY <2>3 DEF Writes, Event
    <3>5. Latest(l, t)'
      BY <1>1, <1>2, <1>3, <3>2, <3>3, <3>4, EnqueueKeepsLatest
    <3>6. QED
      BY <3>1, <3>2, <3>5 DEF Latest
  <2>4. QED
    BY <2>2, <2>3
<1>14. QED
  BY <1>7, <1>8, <1>10, <1>11, <1>12, <1>13 DEF IInv

\* The rows of the monitor's first reply, each once.
LEMMA StartInvariant == IInv /\ StartExporter => IInv'
<1> SUFFICES ASSUME IInv, StartExporter PROVE IInv'
  OBVIOUS
<1>1. /\ process = "down" /\ process' = "monitoring"
      /\ UNCHANGED <<bridge, used, reports, RxBytes, TxBytes, told>>
  BY DEF StartExporter, ports, gauges
<1>2. /\ bridge \subseteq Sandboxes /\ IsFiniteSet(bridge) /\ Capacity \in Nat \ {0}
      /\ reports \in [Sandboxes -> 0 .. MaxReports]
  BY FS_Subset DEF IInv, TypeOK, OvsTypeOK
<1>3. Cardinality(bridge) \in Nat
  BY <1>2, FS_CardinalityType
<1>4. PICK rows \in SetToSeqs(bridge) :
          queue' = SubSeq([i \in 1 .. Len(rows) |-> [kind |-> "add", port |-> rows[i],
                                                     old |-> 0, new |-> reports[rows[i]]]],
                          1, IF Len(rows) < Capacity THEN Len(rows) ELSE Capacity)
  BY DEF StartExporter
<1>5. /\ rows \in [1 .. Cardinality(bridge) -> bridge]
      /\ \A i, j \in 1 .. Cardinality(bridge) : i # j => rows[i] # rows[j]
  BY DEF SetToSeqs
<1>6. rows \in Seq(bridge) /\ Len(rows) = Cardinality(bridge)
  BY <1>3, <1>5
<1> DEFINE listed == [i \in 1 .. Len(rows) |-> [kind |-> "add", port |-> rows[i],
                                                old |-> 0, new |-> reports[rows[i]]]]
           n == IF Len(rows) < Capacity THEN Len(rows) ELSE Capacity
<1>7. n \in 0 .. Len(rows) /\ n <= Capacity
  BY <1>2, <1>3, <1>6
<1>8. \A i \in 1 .. Len(rows) : listed[i] \in Events
  BY <1>2, <1>3, <1>5, <1>6 DEF Events
<1>9. listed \in Seq(Events) /\ Len(listed) = Len(rows)
  BY <1>3, <1>6, <1>8
<1>10. /\ queue' = SubSeq(listed, 1, n)
       /\ queue' \in Seq(Events) /\ Len(queue') = n /\ \A i \in 1 .. n : queue'[i] = listed[i]
  <2> HIDE DEF listed, n
  <2>1. queue' = SubSeq(listed, 1, n)
    BY <1>4 DEF listed, n
  <2>2. n \in Nat /\ n <= Len(listed) /\ Len(listed) \in Nat
    BY <1>3, <1>6, <1>7, <1>9
  <2>3. QED
    BY <1>9, <2>1, <2>2
<1>11. \A i \in Positions' : /\ queue'[i].port = rows[i] /\ queue'[i].new = reports[rows[i]]
                             /\ i \in 1 .. Cardinality(bridge)
  BY <1>3, <1>6, <1>7, <1>10 DEF Positions
<1>12. TypeOK'
  BY <1>1, <1>7, <1>10 DEF IInv, TypeOK, OvsTypeOK
<1>13. Fresh'
  BY <1>1 DEF IInv, Fresh
<1>14. Ordered'
  <2>1. \A i \in Positions' : queue'[i].new <= reports'[queue'[i].port]
    BY <1>1, <1>2, <1>5, <1>11
  <2>2. \A i, j \in Positions' : i < j /\ queue'[i].port = queue'[j].port => queue'[i].new <= queue'[j].new
    BY <1>5, <1>11
  <2>3. QED
    BY <2>1, <2>2 DEF Ordered
<1>15. Quiet' /\ Behind(RxBytes)' /\ Behind(TxBytes)' /\ ToldLatest'
  BY <1>1 DEF IInv, Quiet, Behind, ToldLatest
<1>16. QED
  BY <1>12, <1>13, <1>14, <1>15 DEF IInv

LEMMA ProcessInvariant == IInv /\ (Register \/ LoseConnection \/ CrashExporter) => IInv'
<1> SUFFICES ASSUME IInv, Register \/ LoseConnection \/ CrashExporter PROVE IInv'
  OBVIOUS
<1>1. /\ TypeOK /\ NoSandbox \notin Sandboxes
      /\ UNCHANGED <<bridge, used, reports>>
  BY DEF IInv, Register, LoseConnection, CrashExporter, ports
<1>2. Fresh'
  BY <1>1 DEF IInv, Fresh
<1>3. CASE Register
  <2>1. process = "monitoring" /\ process' = "serving" /\ UNCHANGED <<queue, RxBytes, TxBytes, told>>
    BY <1>3 DEF Register, gauges
  <2>2. TypeOK' /\ Ordered' /\ Behind(RxBytes)' /\ Behind(TxBytes)' /\ Quiet'
    BY <1>1, <2>1 DEF IInv, TypeOK, OvsTypeOK, Ordered, Behind, Quiet, Positions
  <2>3. ToldLatest'
    BY <2>1 DEF IInv, Quiet, ToldLatest
  <2>4. QED
    BY <1>2, <2>2, <2>3 DEF IInv
<1>4. CASE LoseConnection \/ CrashExporter
  <2>1. queue' = <<>> /\ Positions' = {} /\ queue' \in Seq(Events) /\ Len(queue') = 0
    <3>1. queue' = <<>>
      BY <1>4 DEF LoseConnection, CrashExporter
    <3>2. queue' \in Seq(Events) /\ Len(queue') = 0
      BY <3>1
    <3>3. QED
      BY <3>1, <3>2 DEF Positions
  <2>2. told' = [l \in Series |-> NoSandbox]
    BY <1>4 DEF LoseConnection, CrashExporter, NoGauges
  <2>3. /\ RxBytes' \in [Series -> Samples \cup {Unset}] /\ TxBytes' \in [Series -> Samples \cup {Unset}]
        /\ process' \in {"cut", "down"}
        /\ process' = "down" => \A l \in Series : RxBytes'[l] = Unset /\ TxBytes'[l] = Unset
        /\ \A l \in Series : /\ RxBytes'[l] # Unset => RxBytes'[l] = RxBytes[l]
                             /\ TxBytes'[l] # Unset => TxBytes'[l] = TxBytes[l]
    BY <1>1, <1>4 DEF TypeOK, LoseConnection, CrashExporter, NoGauges, gauges
  <2>4. TypeOK'
    BY <1>1, <2>1, <2>2, <2>3 DEF TypeOK, OvsTypeOK
  <2>5. Ordered' /\ Behind(RxBytes)' /\ Behind(TxBytes)'
    BY <1>1, <2>1, <2>3 DEF IInv, Ordered, Behind
  <2>6. Quiet' /\ ToldLatest'
    BY <2>1, <2>2, <2>3 DEF Quiet, ToldLatest
  <2>7. QED
    BY <1>2, <2>4, <2>5, <2>6 DEF IInv
<1>5. QED
  BY <1>3, <1>4

-----------------------------------------------------------------------------
(***************************************************************************)
(* The handler.                                                            *)
(***************************************************************************)

\* An event sets both gauges of its series, or nothing.
LEMMA HandleEffect ==
    ASSUME TypeOK, NEW e \in Events, Handle(e)
    PROVE  /\ RxBytes' \in [Series -> Samples \cup {Unset}] /\ TxBytes' \in [Series -> Samples \cup {Unset}]
           /\ \A l \in Series :
                 IF Writes(e, l)
                 THEN /\ TxBytes'[l] = Sample("rx_bytes", e.port, e.new)
                      /\ RxBytes'[l] = Sample("tx_bytes", e.port, e.new)
                 ELSE TxBytes'[l] = TxBytes[l] /\ RxBytes'[l] = RxBytes[l]
<1>1. /\ RxBytes \in [Series -> Samples \cup {Unset}] /\ TxBytes \in [Series -> Samples \cup {Unset}]
      /\ e.port \in Sandboxes /\ e.new \in 0 .. MaxReports /\ MaxReports \in Nat
      /\ e.kind \in {"add", "update", "delete"}
  BY DEF TypeOK, Events
<1>2. CASE e.kind = "delete" \/ e.new = 0 \/ SeriesOf(e.port) = NoLabels
  <2>1. UNCHANGED gauges
    BY <1>1, <1>2 DEF Handle, OnAdd, OnUpdate, OnDelete, updateInterfaceStats
  <2>2. \A l \in Series : ~Writes(e, l)
    BY <1>2 DEF Writes, Series
  <2>3. QED
    BY <1>1, <2>1, <2>2 DEF gauges
<1>3. CASE e.kind # "delete" /\ e.new # 0 /\ SeriesOf(e.port) # NoLabels
  <2>1. /\ TxBytes' = [TxBytes EXCEPT ![SeriesOf(e.port)] = Sample("rx_bytes", e.port, e.new)]
        /\ RxBytes' = [RxBytes EXCEPT ![SeriesOf(e.port)] = Sample("tx_bytes", e.port, e.new)]
    BY <1>1, <1>3 DEF Handle, OnAdd, OnUpdate, OnDelete, updateInterfaceStats
  <2>2. /\ Sample("rx_bytes", e.port, e.new) \in Samples
        /\ Sample("tx_bytes", e.port, e.new) \in Samples
    BY <1>1, <1>3 DEF Sample, Samples
  <2>3. \A l \in Series : Writes(e, l) <=> l = SeriesOf(e.port)
    BY <1>3 DEF Writes
  <2>4. QED
    BY <1>1, <2>1, <2>2, <2>3
<1>4. QED
  BY <1>2, <1>3

\* A sample that is new is not ahead of what waits behind its event.
LEMMA NextBehind ==
    ASSUME TypeOK, Ordered, queue # <<>>, queue' = Tail(queue), UNCHANGED reports,
           NEW gauge \in [Series -> Samples \cup {Unset}], Behind(gauge),
           NEW next \in [Series -> Samples \cup {Unset}],
           \A l \in Series :
               \/ next[l] = gauge[l]
               \/ next[l].port = queue[1].port /\ next[l].report = queue[1].new
    PROVE  \A l \in Series :
               next[l] # Unset =>
                   /\ next[l].report <= reports'[next[l].port]
                   /\ \A i \in Positions' :
                         queue'[i].port = next[l].port => next[l].report <= queue'[i].new
<1>1. SUFFICES ASSUME NEW l \in Series, next[l] # Unset
               PROVE  /\ next[l].report <= reports'[next[l].port]
                      /\ \A i \in Positions' :
                            queue'[i].port = next[l].port => next[l].report <= queue'[i].new
  OBVIOUS
<1>2. 1 \in Positions /\ \A i \in Positions' : queue'[i] = queue[i + 1] /\ i + 1 \in Positions
  BY Dispatched
<1>3. \A i \in Positions' : 1 < i + 1
  BY DEF Positions
<1>4. CASE next[l] = gauge[l]
  BY <1>1, <1>2, <1>4 DEF Behind
<1>5. CASE next[l].port = queue[1].port /\ next[l].report = queue[1].new
  BY <1>2, <1>3, <1>5 DEF Ordered
<1>6. QED
  BY <1>4, <1>5

\* The first event is handled, or nobody is there to be told.
LEMMA DispatchEffect ==
    ASSUME TypeOK, Dispatch
    PROVE  /\ queue # <<>> /\ queue' = Tail(queue) /\ UNCHANGED <<bridge, used, reports, process, told>>
           /\ RxBytes' \in [Series -> Samples \cup {Unset}] /\ TxBytes' \in [Series -> Samples \cup {Unset}]
           /\ \A l \in Series :
                 IF process = "serving" /\ Writes(queue[1], l)
                 THEN /\ TxBytes'[l] = Sample("rx_bytes", queue[1].port, queue[1].new)
                      /\ RxBytes'[l] = Sample("tx_bytes", queue[1].port, queue[1].new)
                 ELSE TxBytes'[l] = TxBytes[l] /\ RxBytes'[l] = RxBytes[l]
<1>1. queue # <<>> /\ queue' = Tail(queue) /\ UNCHANGED <<bridge, used, reports, process, told>>
  BY DEF Dispatch, ports
<1>2. Head(queue) = queue[1] /\ queue[1] \in Events
  BY <1>1, Dispatched
<1>3. CASE process = "serving"
  BY <1>1, <1>2, <1>3, HandleEffect DEF Dispatch
<1>4. CASE process # "serving"
  BY <1>1, <1>4 DEF Dispatch, gauges, TypeOK
<1>5. QED
  BY <1>3, <1>4

LEMMA DispatchBehind ==
    ASSUME TypeOK, Ordered, Behind(RxBytes), Behind(TxBytes), Dispatch
    PROVE  Behind(RxBytes)' /\ Behind(TxBytes)'
<1>1. /\ RxBytes \in [Series -> Samples \cup {Unset}] /\ TxBytes \in [Series -> Samples \cup {Unset}]
  BY DEF TypeOK
<1>2. Behind(RxBytes)'
  <2>1. \A l \in Series :
           \/ RxBytes'[l] = RxBytes[l]
           \/ RxBytes'[l].port = queue[1].port /\ RxBytes'[l].report = queue[1].new
    BY DispatchEffect DEF Sample
  <2>2. QED
    BY <1>1, <2>1, DispatchEffect, NextBehind DEF Behind
<1>3. Behind(TxBytes)'
  <2>1. \A l \in Series :
           \/ TxBytes'[l] = TxBytes[l]
           \/ TxBytes'[l].port = queue[1].port /\ TxBytes'[l].report = queue[1].new
    BY DispatchEffect DEF Sample
  <2>2. QED
    BY <1>1, <2>1, DispatchEffect, NextBehind DEF Behind
<1>4. QED
  BY <1>2, <1>3

\* If the first event was the latest for its series it is shown now.
LEMMA DispatchLatest ==
    ASSUME TypeOK, process = "serving", Dispatch, NEW l \in Series, NEW t \in Sandboxes, Latest(l, t)
    PROVE  Latest(l, t)'
<1>1. /\ UNCHANGED reports
      /\ IF Writes(queue[1], l)
         THEN /\ TxBytes'[l] = Sample("rx_bytes", queue[1].port, queue[1].new)
              /\ RxBytes'[l] = Sample("tx_bytes", queue[1].port, queue[1].new)
         ELSE TxBytes'[l] = TxBytes[l] /\ RxBytes'[l] = RxBytes[l]
  BY DispatchEffect
<1>2. /\ 1 \in Positions /\ Len(queue) \in Nat /\ Len(queue') = Len(queue) - 1
      /\ \A i \in Positions' : queue'[i] = queue[i + 1] /\ i + 1 \in Positions
  BY DispatchEffect, Dispatched DEF TypeOK
<1>3. \A i \in Positions \ {1} : i - 1 \in Positions' /\ queue'[i - 1] = queue[i]
  BY <1>2 DEF Positions
<1>4. CASE \E i \in Positions :
             /\ Writes(queue[i], l) /\ queue[i].port = t /\ queue[i].new = reports[t]
             /\ \A j \in Positions : i < j => ~Writes(queue[j], l)
  <2>1. PICK i \in Positions :
             /\ Writes(queue[i], l) /\ queue[i].port = t /\ queue[i].new = reports[t]
             /\ \A j \in Positions : i < j => ~Writes(queue[j], l)
    BY <1>4
  <2>2. CASE i = 1
    <3>1. \A j \in Positions' : ~Writes(queue'[j], l)
      BY <1>2, <2>1, <2>2 DEF Positions
    <3>2. QED
      BY <1>1, <2>1, <2>2, <3>1 DEF Latest, Writes
  <2>3. CASE i # 1
    <3>1. /\ i - 1 \in Positions' /\ Writes(queue'[i - 1], l) /\ queue'[i - 1].port = t
          /\ queue'[i - 1].new = reports'[t]
      BY <1>1, <1>3, <2>1, <2>3
    <3>2. \A j \in Positions' : i - 1 < j => ~Writes(queue'[j], l)
      BY <1>2, <2>1 DEF Positions
    <3>3. QED
      BY <3>1, <3>2 DEF Latest, Writes
  <2>4. QED
    BY <2>2, <2>3
<1>5. CASE /\ TxBytes[l] = Sample("rx_bytes", t, reports[t])
           /\ RxBytes[l] = Sample("tx_bytes", t, reports[t])
           /\ \A j \in Positions : ~Writes(queue[j], l)
  <2>1. \A j \in Positions' : ~Writes(queue'[j], l)
    BY <1>2, <1>5
  <2>2. /\ TxBytes'[l] = Sample("rx_bytes", t, reports'[t])
        /\ RxBytes'[l] = Sample("tx_bytes", t, reports'[t])
    BY <1>1, <1>2, <1>5
  <2>3. QED
    BY <2>1, <2>2 DEF Latest, Writes
<1>6. QED
  BY <1>4, <1>5 DEF Latest

LEMMA DispatchInvariant == IInv /\ Dispatch => IInv'
<1> SUFFICES ASSUME IInv, Dispatch PROVE IInv'
  OBVIOUS
<1>1. TypeOK /\ Ordered /\ Behind(RxBytes) /\ Behind(TxBytes)
  BY DEF IInv
<1>2. /\ queue' \in Seq(Events) /\ Len(queue') <= Capacity /\ queue # <<>>
      /\ UNCHANGED <<bridge, used, reports, process, told>>
      /\ \A i \in Positions' : queue'[i] = queue[i + 1] /\ i + 1 \in Positions
  BY <1>1, DispatchEffect, Dispatched
<1>3. TypeOK' /\ Fresh'
  BY <1>1, <1>2, DispatchEffect DEF IInv, TypeOK, OvsTypeOK, Fresh
<1>4. Ordered'
  <2>1. \A i, j \in Positions' : i < j => i + 1 < j + 1
    BY DEF Positions
  <2>2. QED
    BY <1>1, <1>2, <2>1 DEF Ordered
<1>5. Quiet'
  BY <1>1, <1>2, DispatchEffect DEF IInv, Quiet
<1>6. ToldLatest'
  <2>1. SUFFICES ASSUME NEW l \in Series, told[l] # NoSandbox
                 PROVE  SeriesOf(told[l]) = l /\ Latest(l, told[l])'
    BY <1>2 DEF ToldLatest, SeriesOf
  <2>2. PICK t \in Sandboxes : t = told[l] /\ SeriesOf(t) = l /\ Latest(l, t)
    BY <1>1, <2>1 DEF IInv, TypeOK, ToldLatest
  <2>3. process = "serving"
    BY <2>1 DEF IInv, Quiet
  <2>4. Latest(l, t)'
    BY <1>1, <2>2, <2>3, DispatchLatest
  <2>5. QED
    BY <1>2, <2>2, <2>4 DEF Latest
<1>7. QED
  BY <1>1, <1>3, <1>4, <1>5, <1>6, DispatchBehind DEF IInv

LEMMA StutterInvariant == IInv /\ UNCHANGED vars => IInv'
BY DEF IInv, TypeOK, OvsTypeOK, Fresh, Ordered, Behind, Quiet, ToldLatest, Latest, Writes,
   Positions, vars, ports, gauges

\* A series that has a sample is not Unset.
LEMMA SampleSet ==
    \A s \in Sandboxes, n \in 1 .. MaxReports :
        Sample("rx_bytes", s, n) # Unset /\ Sample("tx_bytes", s, n) # Unset
BY UnsetAssumption DEF Sample, Samples

-----------------------------------------------------------------------------
(***************************************************************************)
(* The invariant holds, and with it what it was made for.                  *)
(***************************************************************************)

\* IInv holds initially and after every step of the rows, the client and the
\* exporter.
THEOREM Invariance == Spec => []IInv
<1>1. Init => IInv
  BY InitInvariant
<1>2. IInv /\ [Next]_vars => IInv'
  BY PlugPortInvariant, UnplugPortInvariant, ReportInvariant, StartInvariant, ProcessInvariant,
     DispatchInvariant, StutterInvariant DEF Next
<1>3. QED
  BY <1>1, <1>2, PTL DEF Spec

\* The types of the rows, the buffer and the gauges.
THEOREM TypeCorrect == Spec => []TypeOK
BY Invariance, PTL DEF IInv

\* A gauge at rest shows the last report for its series (updateInterfaceStats
\* behind the client's events), with any number of ports that share it.
THEOREM RestIsLatest == Spec => []AtRestLatest
<1>1. IInv => AtRestLatest
  <2>1. SUFFICES ASSUME IInv, queue = <<>>, NEW l \in Series, told[l] # NoSandbox
                 PROVE  ShowsLast(RxBytes, l) /\ ShowsLast(TxBytes, l)
    BY DEF AtRestLatest
  <2>2. Positions = {}
    BY <2>1 DEF Positions
  <2>3. /\ TxBytes[l] = Sample("rx_bytes", told[l], reports[told[l]])
        /\ RxBytes[l] = Sample("tx_bytes", told[l], reports[told[l]])
    BY <2>1, <2>2 DEF IInv, ToldLatest, Latest
  <2>4. told[l] \in Sandboxes /\ reports[told[l]] \in 1 .. MaxReports
    BY <2>1, <2>3, UnsetAssumption DEF IInv, TypeOK, Samples, Sample
  <2>5. QED
    BY <2>3, <2>4, SampleSet DEF ShowsLast, Sample
<1>2. QED
  BY <1>1, Invariance, PTL

\* The gauges of a series never go back while they tell of the same port.
THEOREM GaugesGoForward == Spec => NeverBack
<1>1. IInv /\ [Next]_vars =>
         [ForwardOnly(RxBytes, RxBytes') /\ ForwardOnly(TxBytes, TxBytes')]_vars
  <2> SUFFICES ASSUME IInv, Next
               PROVE  ForwardOnly(RxBytes, RxBytes') /\ ForwardOnly(TxBytes, TxBytes')
    OBVIOUS
  <2>1. /\ RxBytes \in [Series -> Samples \cup {Unset}] /\ TxBytes \in [Series -> Samples \cup {Unset}]
        /\ TypeOK
    BY DEF IInv, TypeOK
  <2>2. \A l \in Series :
           /\ RxBytes[l] # Unset => RxBytes[l].report <= RxBytes[l].report
           /\ TxBytes[l] # Unset => TxBytes[l].report <= TxBytes[l].report
    BY <2>1 DEF Samples
  <2>3. CASE Dispatch
    <3>1. 1 \in Positions
      BY <2>1, <2>3, DispatchEffect, Dispatched
    <3>2. ForwardOnly(RxBytes, RxBytes')
      BY <2>1, <2>2, <2>3, <3>1, DispatchEffect DEF ForwardOnly, IInv, Behind, Sample
    <3>3. ForwardOnly(TxBytes, TxBytes')
      BY <2>1, <2>2, <2>3, <3>1, DispatchEffect DEF ForwardOnly, IInv, Behind, Sample
    <3>4. QED
      BY <3>2, <3>3
  <2>4. CASE CrashExporter
    BY <2>4 DEF CrashExporter, NoGauges, ForwardOnly
  <2>5. CASE UNCHANGED gauges
    BY <2>2, <2>5 DEF gauges, ForwardOnly
  <2>6. QED
    BY <2>3, <2>4, <2>5
       DEF Next, PlugPort, UnplugPort, Report, StartExporter, Register, LoseConnection
<1>2. QED
  BY <1>1, Invariance, PTL DEF Spec, NeverBack

-----------------------------------------------------------------------------
(***************************************************************************)
(* Why CatchesUp needs nothing but the client's goroutine: what a series   *)
(* was told of is shown or waits, and while the series tells of the port,  *)
(* every Dispatch brings it one place nearer, the last one shows it, and   *)
(* no other step, of the rows or of the process, puts it back.             *)
(***************************************************************************)
Tells(s) == SeriesOf(s) # NoLabels /\ told[SeriesOf(s)] = s

Shown(s, n) == Shows(RxBytes, s, n) /\ Shows(TxBytes, s, n)

\* Report n of port s, or a later one, is among the first d events.
Waits(s, n, d) ==
    \E i \in Positions :
        /\ i <= d /\ Writes(queue[i], SeriesOf(s))
        /\ queue[i].port = s /\ queue[i].new >= n

ShownOrWaits ==
    \A s \in Sandboxes :
        Tells(s) => Shown(s, reports[s]) \/ Waits(s, reports[s], Len(queue))

Approaches ==
    \A s \in Sandboxes, n \in 1 .. MaxReports, d \in 1 .. Capacity :
        Tells(s) /\ Tells(s)' /\ Waits(s, n, d) =>
            IF Dispatch THEN Shown(s, n)' \/ Waits(s, n, d - 1)' ELSE Waits(s, n, d)'

LEMMA LatestShownOrWaits == IInv => ShownOrWaits
<1> SUFFICES ASSUME IInv, NEW s \in Sandboxes, Tells(s)
             PROVE  Shown(s, reports[s]) \/ Waits(s, reports[s], Len(queue))
  BY DEF ShownOrWaits
<1>1. SeriesOf(s) \in Series /\ reports[s] \in Nat /\ Len(queue) \in Nat
  BY DEF Tells, Series, IInv, TypeOK
<1>2. Latest(SeriesOf(s), s)
  BY <1>1 DEF Tells, IInv, ToldLatest
<1>3. ASSUME /\ TxBytes[SeriesOf(s)] = Sample("rx_bytes", s, reports[s])
             /\ RxBytes[SeriesOf(s)] = Sample("tx_bytes", s, reports[s])
      PROVE  Shown(s, reports[s])
  <2>1. reports[s] \in 1 .. MaxReports
    BY <1>1, <1>3 DEF IInv, TypeOK, Sample, Samples
  <2>2. TxBytes[SeriesOf(s)] # Unset /\ RxBytes[SeriesOf(s)] # Unset
    BY <1>3, <2>1, SampleSet
  <2>3. QED
    BY <1>1, <1>3, <2>2 DEF Shown, Shows, Sample
<1>4. QED
  BY <1>1, <1>2, <1>3 DEF Latest, Waits, Positions

\* An event that is added stays behind those that wait.
LEMMA EnqueueKeepsWaits ==
    ASSUME TypeOK, NEW t \in Sandboxes, NEW n, NEW d,
           Waits(t, n, d),
           queue' = queue \/ \E e : Appended(e)
    PROVE  Waits(t, n, d)'
<1>1. Len(queue) \in Nat
  BY DEF TypeOK
<1>2. \A i \in Positions : i \in Positions' /\ queue'[i] = queue[i]
  BY <1>1 DEF Positions, Appended
<1>3. QED
  BY <1>2 DEF Waits, Writes, SeriesOf

LEMMA RowsKeepWaits ==
    ASSUME IInv, NEW s \in Sandboxes, PlugPort(s) \/ UnplugPort(s) \/ Report(s)
    PROVE  queue' = queue \/ \E e : Appended(e)
<1>1. /\ TypeOK /\ reports \in [Sandboxes -> 0 .. MaxReports]
      /\ bridge \subseteq Sandboxes /\ MaxReports \in Nat
  BY DEF IInv, TypeOK, OvsTypeOK
<1>2. ASSUME NEW kind \in {"add", "update", "delete"}, NEW t \in Sandboxes,
             NEW old \in 0 .. MaxReports, NEW new \in 0 .. MaxReports,
             Enqueue(kind, t, old, new)
      PROVE  queue' = queue \/ \E e : Appended(e)
  BY <1>1, <1>2, Enqueued
<1>3. CASE PlugPort(s)
  BY <1>1, <1>2, <1>3 DEF PlugPort
<1>4. CASE UnplugPort(s)
  BY <1>1, <1>2, <1>4 DEF UnplugPort
<1>5. CASE Report(s)
  <2>1. reports[s] + 1 \in 0 .. MaxReports
    BY <1>1, <1>5 DEF Report
  <2>2. QED
    BY <1>1, <1>2, <1>5, <2>1 DEF Report
<1>6. QED
  BY <1>3, <1>4, <1>5

LEMMA DispatchNearer ==
    ASSUME IInv, Dispatch, NEW s \in Sandboxes, NEW n \in 1 .. MaxReports,
           NEW d \in 1 .. Capacity, Tells(s), Waits(s, n, d)
    PROVE  Shown(s, n)' \/ Waits(s, n, d - 1)'
<1> DEFINE l == SeriesOf(s)
<1>1. TypeOK /\ l \in Series /\ process = "serving"
  BY DEF IInv, Quiet, Tells, Series
<1>2. /\ 1 \in Positions /\ queue[1] \in Events
      /\ \A i \in Positions' : queue'[i] = queue[i + 1]
      /\ Len(queue') = Len(queue) - 1 /\ Len(queue) \in Nat
      /\ Writes(queue[1], l) =>
            /\ TxBytes'[l] = Sample("rx_bytes", queue[1].port, queue[1].new)
            /\ RxBytes'[l] = Sample("tx_bytes", queue[1].port, queue[1].new)
  BY <1>1, DispatchEffect, Dispatched DEF TypeOK
<1>3. PICK i \in Positions : /\ i <= d /\ Writes(queue[i], l)
                             /\ queue[i].port = s /\ queue[i].new >= n
  BY DEF Waits
<1>4. CASE i = 1
  <2>1. queue[1].port \in Sandboxes /\ queue[1].new \in 1 .. MaxReports
    BY <1>2, <1>3, <1>4 DEF Events, Writes
  <2>2. Shown(s, n)'
    BY <1>2, <1>3, <1>4, <2>1, SampleSet DEF Shown, Shows, Sample, SeriesOf
  <2>3. QED
    BY <2>2
<1>5. CASE i # 1
  <2>1. i - 1 \in Positions' /\ i - 1 <= d - 1 /\ queue'[i - 1] = queue[i]
    BY <1>2, <1>3, <1>5 DEF Positions
  <2>2. QED
    BY <1>3, <2>1 DEF Waits, Writes, SeriesOf
<1>6. QED
  BY <1>4, <1>5

\* A report that the buffer took is shown after as many events as wait before it.
THEOREM ReportsApproach == Spec => []ShownOrWaits /\ [][Approaches]_vars
<1>1. IInv /\ [Next]_vars => [Approaches]_vars
  <2> SUFFICES ASSUME IInv, Next, NEW s \in Sandboxes, NEW n \in 1 .. MaxReports,
                      NEW d \in 1 .. Capacity, Tells(s), Tells(s)', Waits(s, n, d)
               PROVE  IF Dispatch THEN Shown(s, n)' \/ Waits(s, n, d - 1)'
                                  ELSE Waits(s, n, d)'
    BY DEF Approaches
  <2>1. TypeOK /\ SeriesOf(s) \in Series /\ process = "serving"
    BY DEF IInv, Quiet, Tells, Series
  <2>2. CASE Dispatch
    BY <2>2, DispatchNearer
  <2>3. CASE \E t \in Sandboxes : PlugPort(t) \/ UnplugPort(t) \/ Report(t)
    BY <2>1, <2>2, <2>3, RowsKeepWaits, EnqueueKeepsWaits
  <2>4. ~StartExporter /\ ~Register
    BY <2>1 DEF StartExporter, Register
  <2>5. ~LoseConnection /\ ~CrashExporter
    BY <2>1 DEF LoseConnection, CrashExporter, NoGauges, Tells, SeriesOf
  <2>6. QED
    BY <2>2, <2>3, <2>4, <2>5 DEF Next
<1>2. QED
  BY <1>1, LatestShownOrWaits, Invariance, PTL DEF Spec
=============================================================================
