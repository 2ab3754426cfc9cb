------------------------------ MODULE Exporter ------------------------------
(***************************************************************************)
(* The metric exporter of one node (cmd/metricexporter.go, and in pkg/ovs  *)
(* agent.go and eventhandler.go): a copy, in two gauges, of the statistics *)
(* ovs-vswitchd writes into the interface rows of the bridge.              *)
(*                                                                         *)
(* The copy is fed by events.  The OVSDB client puts the events of its     *)
(* cache into a buffer and one goroutine hands them to the handler, which  *)
(* is registered after the monitor has started: events handed out before   *)
(* that, those a full buffer drops and those of a lost connection, which   *)
(* nobody restores, never reach a gauge.  A series is named by what the    *)
(* iface-id tells of the machine, so ports share it, and it stays when     *)
(* they are gone.                                                          *)
(*                                                                         *)
(* The time a change takes to reach the client counts as time in the       *)
(* buffer.  Events of bridge and port rows, which take room there and      *)
(* change nothing, and scrapes, which only read, are left out.             *)
(***************************************************************************)
EXTENDS Ovs, Naturals, SequencesExt

CONSTANTS
    NoVm,         \* the empty vm label
    NoLabels,     \* no series
    NoSandbox,    \* no port
    Unset,        \* a series that is not there
    Capacity,     \* events the client's buffer holds
    MaxReports    \* bound: how often ovs-vswitchd writes a port's statistics

\* Of a pod's name: whether it has the prefix virt-launcher-, and what is
\* between that and the last dash.  An iface-id is the sequence of its parts.
ASSUME IdAssumption ==
    /\ IsFiniteSet(Sandboxes) /\ NoSandbox \notin Sandboxes
    /\ \A s \in Sandboxes : Len(IdOf[s]) = 3 => IdOf[s][2].launcher \in BOOLEAN
ASSUME BoundAssumption == Capacity \in Nat \ {0} /\ MaxReports \in Nat

VARIABLES
    used,         \* ports there have been: a veth's name is never drawn twice
    reports,      \* statistics of each row: how often they have been written
    process,      \* the exporter
    queue,        \* the client's buffer of events
    RxBytes,      \* ovs_port_rx_bytes: the sample of each series
    TxBytes,      \* ovs_port_tx_bytes
    told          \* history: the port that reported last for a series, if its
                  \* event went into the buffer of a registered handler

gauges == <<RxBytes, TxBytes>>
ports == <<bridge, used, reports>>
vars == <<ports, process, queue, gauges, told>>

ExtractVMName(pod) == IF pod.launcher THEN pod.stem ELSE NoVm

Labels(id) ==
    IF Len(id) # 3 THEN NoLabels
    ELSE [vm_namespace |-> id[1], vm |-> ExtractVMName(id[2]), iface |-> id[3]]

SeriesOf(s) == Labels(IdOf[s])
Series == {SeriesOf(s) : s \in Sandboxes} \ {NoLabels}

\* A number, told apart by the column, the port and the report it is from.
Sample(column, s, n) == [column |-> column, port |-> s, report |-> n]
Samples == [column : {"rx_bytes", "tx_bytes"}, port : Sandboxes, report : 1 .. MaxReports]

ASSUME UnsetAssumption == Unset \notin Samples

Events == [kind : {"add", "update", "delete"}, port : Sandboxes,
           old : 0 .. MaxReports, new : 0 .. MaxReports]

TypeOK ==
    /\ OvsTypeOK
    /\ used \subseteq Sandboxes
    /\ reports \in [Sandboxes -> 0 .. MaxReports]
    /\ process \in {"down", "monitoring", "serving", "cut"}
    /\ queue \in Seq(Events) /\ Len(queue) <= Capacity
    /\ RxBytes \in [Series -> Samples \cup {Unset}]
    /\ TxBytes \in [Series -> Samples \cup {Unset}]
    /\ told \in [Series -> Sandboxes \cup {NoSandbox}]

NoGauges ==
    /\ RxBytes' = [l \in Series |-> Unset]
    /\ TxBytes' = [l \in Series |-> Unset]
    /\ told' = [l \in Series |-> NoSandbox]

Init ==
    /\ OvsInit
    /\ used = {}
    /\ reports = [s \in Sandboxes |-> 0]
    /\ process = "down"
    /\ queue = <<>>
    /\ RxBytes = [l \in Series |-> Unset]
    /\ TxBytes = [l \in Series |-> Unset]
    /\ told = [l \in Series |-> NoSandbox]

-----------------------------------------------------------------------------
(***************************************************************************)
(* The rows of the bridge, and the events of their changes.                *)
(***************************************************************************)
Listening == process \in {"monitoring", "serving"}
HasRoom == Len(queue) < Capacity

\* A full buffer drops the event.
Enqueue(kind, s, old, new) ==
    queue' = IF Listening /\ HasRoom
             THEN Append(queue, [kind |-> kind, port |-> s, old |-> old, new |-> new])
             ELSE queue

\* The CNI daemon plugs a sandbox; the new row has no statistics.
PlugPort(s) ==
    /\ s \notin used
    /\ AddPort(s)
    /\ used' = used \cup {s}
    /\ Enqueue("add", s, 0, 0)
    /\ UNCHANGED <<reports, process, gauges, told>>

\* ... and deletes a port of a pod, which one it looked up before.
UnplugPort(s) ==
    /\ s \in bridge
    /\ DelPort({s})
    /\ Enqueue("delete", s, reports[s], reports[s])
    /\ UNCHANGED <<used, reports, process, gauges, told>>

\* ovs-vswitchd writes the statistics of a port, in one column of its row.
Report(s) ==
    /\ s \in bridge /\ reports[s] < MaxReports
    /\ reports' = [reports EXCEPT ![s] = @ + 1]
    /\ Enqueue("update", s, reports[s], reports[s] + 1)
    /\ told' = IF SeriesOf(s) = NoLabels THEN told
               ELSE [told EXCEPT ![SeriesOf(s)] =
                        IF process = "serving" /\ HasRoom THEN s ELSE NoSandbox]
    /\ UNCHANGED <<bridge, used, process, gauges>>

-----------------------------------------------------------------------------
(***************************************************************************)
(* The process.                                                            *)
(***************************************************************************)

\* CreateOVSagent: the monitor's first reply lists the rows, in some order.
StartExporter ==
    /\ process = "down"
    /\ process' = "monitoring"
    /\ \E rows \in SetToSeqs(bridge) :
          LET listed == [i \in 1 .. Len(rows) |->
                            [kind |-> "add", port |-> rows[i],
                             old |-> 0, new |-> reports[rows[i]]]]
          IN  queue' = SubSeq(listed, 1, IF Len(rows) < Capacity THEN Len(rows) ELSE Capacity)
    /\ UNCHANGED <<ports, gauges, told>>

\* OvsAgent.Start
Register ==
    /\ process = "monitoring"
    /\ process' = "serving"
    /\ UNCHANGED <<ports, queue, gauges, told>>

\* The connection to the database breaks.  The client was not asked to
\* reconnect; what its buffer held is gone, and the gauges stay.
LoseConnection ==
    /\ process = "serving"
    /\ process' = "cut"
    /\ queue' = <<>>
    /\ told' = [l \in Series |-> NoSandbox]
    /\ UNCHANGED <<ports, gauges>>

\* Also when the connection breaks before the handler is registered.
CrashExporter ==
    /\ process # "down"
    /\ process' = "down"
    /\ queue' = <<>>
    /\ NoGauges
    /\ UNCHANGED ports

-----------------------------------------------------------------------------
(***************************************************************************)
(* The handler.                                                            *)
(***************************************************************************)

\* Mutant of updateInterfaceStats: a row without statistics counts as well.
updateInterfaceStatsAlways(s, n) ==
    IF SeriesOf(s) = NoLabels THEN UNCHANGED gauges
    ELSE /\ TxBytes' = [TxBytes EXCEPT ![SeriesOf(s)] = Sample("rx_bytes", s, n)]
         /\ RxBytes' = [RxBytes EXCEPT ![SeriesOf(s)] = Sample("tx_bytes", s, n)]

\* What the port received becomes TxBytes, what it transmitted RxBytes, as the
\* pod behind it sees them.  A row without statistics,
\* or whose iface-id has not three parts, is passed over.
updateInterfaceStats(s, n) ==
    IF n = 0 \/ SeriesOf(s) = NoLabels THEN UNCHANGED gauges
    ELSE /\ TxBytes' = [TxBytes EXCEPT ![SeriesOf(s)] = Sample("rx_bytes", s, n)]
         /\ RxBytes' = [RxBytes EXCEPT ![SeriesOf(s)] = Sample("tx_bytes", s, n)]

\* Mutant of OnUpdate: the row as it was.
OnUpdateOld(e) == e.kind = "update" /\ updateInterfaceStats(e.port, e.old)

\* Mutant of OnUpdate: only rows that are new are looked at.
OnUpdateNothing(e) == e.kind = "update" /\ UNCHANGED gauges

OnAdd(e) == e.kind = "add" /\ updateInterfaceStats(e.port, e.new)
OnUpdate(e) == e.kind = "update" /\ updateInterfaceStats(e.port, e.new)
OnDelete(e) == e.kind = "delete" /\ UNCHANGED gauges

Handle(e) == OnAdd(e) \/ OnUpdate(e) \/ OnDelete(e)

\* Mutant of Dispatch: a goroutine for every event.
DispatchAny ==
    \E i \in DOMAIN queue :
        /\ queue' = SubSeq(queue, 1, i - 1) \o SubSeq(queue, i + 1, Len(queue))
        /\ IF process = "serving" THEN Handle(queue[i]) ELSE UNCHANGED gauges
        /\ UNCHANGED <<ports, process, told>>

\* The client's goroutine hands out the next event, to nobody at first.
Dispatch ==
    /\ queue # <<>>
    /\ queue' = Tail(queue)
    /\ IF process = "serving" THEN Handle(Head(queue)) ELSE UNCHANGED gauges
    /\ UNCHANGED <<ports, process, told>>

Next ==
    \/ \E s \in Sandboxes : PlugPort(s) \/ UnplugPort(s) \/ Report(s)
    \/ StartExporter
    \/ Register
    \/ LoseConnection
    \/ CrashExporter
    \/ Dispatch

Spec == Init /\ [][Next]_vars

\* The client's goroutine runs.
Fairness == WF_vars(Dispatch)

FairSpec == Spec /\ Fairness

-----------------------------------------------------------------------------
(***************************************************************************)
(* With no event waiting, a series shows the last report of the port that  *)
(* reported last under its name, whatever was plugged, deleted, dropped or *)
(* listed before, and also when that port is gone by now.                  *)
(***************************************************************************)
ShowsLast(gauge, l) ==
    /\ gauge[l] # Unset
    /\ gauge[l].port = told[l]
    /\ gauge[l].report = reports[told[l]]

AtRestLatest ==
    process = "serving" /\ queue = <<>> =>
        \A l \in Series :
            told[l] # NoSandbox => ShowsLast(RxBytes, l) /\ ShowsLast(TxBytes, l)

(***************************************************************************)
(* As long as a series tells of the same port, it never goes back: the     *)
(* events of one port reach the gauges in their order, those of the        *)
(* monitor's first list included.                                          *)
(***************************************************************************)
ForwardOnly(gauge, next) ==
    \A l \in Series :
        gauge[l] # Unset /\ next[l] # Unset /\ gauge[l].port = next[l].port =>
            gauge[l].report <= next[l].report

NeverBack == [][ForwardOnly(RxBytes, RxBytes') /\ ForwardOnly(TxBytes, TxBytes')]_vars

(***************************************************************************)
(* A report that went into the buffer is shown, itself or a later one of   *)
(* the same port, unless another port reports under the same name, a later *)
(* event is dropped, or the connection or the process is lost.             *)
(***************************************************************************)
Shows(gauge, s, n) ==
    LET sample == gauge[SeriesOf(s)]
    IN  sample # Unset /\ sample.port = s /\ sample.report >= n

CatchesUp ==
    \A s \in Sandboxes, n \in 1 .. MaxReports :
        SeriesOf(s) # NoLabels =>
            (told[SeriesOf(s)] = s /\ reports[s] = n
                ~> \/ Shows(RxBytes, s, n) /\ Shows(TxBytes, s, n)
                   \/ told[SeriesOf(s)] # s)
=============================================================================
