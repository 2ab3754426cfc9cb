# TLA+ models of kloudstack

This directory specifies the parts of kloudstack that keep state: the address
allocation of its CNI daemons, the two Kubernetes controllers, the ports on
Open vSwitch and OVN, the DHCP server, the DNS backend and the metric exporter.
TLC checks small instances; TLAPS proves the safety properties for all
instances: of the allocation, of its composition with the KubeVirt controller
and the DHCP server, of CNI, of the exporter and of DNS. `PROJECT.json` maps
every definition to the source lines it stands for and lists the runs, the
findings, the hazards and the theorems.

    tlc -workers 2 -config MCAllocationOnePool.cfg MCAllocation.tla
    tlapm LifecycleProofs.tla

## 1. The system

kloudstack is one binary with several commands (`cmd/`) and a CNI plugin
(`cni/ovn`). The commands run as separate processes; they share no memory and
meet in the Kubernetes API server, in the Open vSwitch and OVN databases, and in
the Scylla tables of the DNS backend.

| Component | State it keeps | Operations | Meets others in |
|---|---|---|---|
| IPAM client (`pkg/ipam`), part of the CNI daemon and of the DHCP server | none of its own; ClusterIP and ClusterIPPool objects | find or create the ClusterIP of a pod's interface; look a ClusterIP up by MAC | API server |
| Address arithmetic (`pkg/net_utils/ip.go`) | none | address of an index, number of usable addresses | IPAM, network controller |
| Network controller (`pkg/controllers/network`) | informer queues | write the counters of a new pool; create a logical switch | API server, OVN |
| CNI daemon and plugin (`pkg/daemons/ovn-cni-server`, `cni/ovn`) | one goroutine per request | ADD, DEL | IPAM, Open vSwitch, OVN |
| Open vSwitch client (`pkg/ovs`), OVN client (`pkg/ovn`) | a cache of the database | add and delete ports, create switches | the two databases |
| KubeVirt controller (`pkg/controllers/vm`) | informer queues | create and delete a machine's password secret; release the ClusterIPs of unplugged interfaces and deleted machines | API server, KubeVirt |
| DNS backend (`pkg/daemons/dns`) | none; reads three tables | answer a message | the tables' writers, CoreDNS |
| DHCP server (`pkg/daemons/dhcp`) | none | offer, acknowledge | API server |
| Metric exporter (`pkg/ovs/eventhandler.go`, `pkg/metrics`) | two gauges; the client's cache and its buffer of events | set the gauges at events of interface rows | Open vSwitch |
| CDN controller (`pkg/controllers/cdn`) | informer queues | deploy a gateway | API server |
| Gatekeeper (`pkg/webhooks/gatekeeper`) | none | authorise a request, create a namespace | API server |

What is hard in it:

* **Address allocation** is read, compute, create, update over four API calls,
  from as many daemons as there are nodes, with a goroutine per request and no
  lock. The only protection is the `resourceVersion` of the pool in the last
  call. It is correct if two counted allocations never share an address, every
  address is one a host can use, the counters describe the pool, and whoever was
  given an address is given it again.
* **ADD and DEL** touch two databases without a common transaction, are retried,
  time out while the daemon works on, and are keyed by pod and interface, not by
  sandbox. They are correct if ports do not pile up, every logical port has an
  owner, and one sandbox's requests leave the others' ports alone.
* **The controllers** react to informer events that come once, late, or again
  after a restart, to objects that have changed since. They are correct if they
  converge and take nothing away that is in use.
* **The DNS backend** answers one question from a dozen reads of tables that
  change meanwhile. It is correct if what was there all along is found, nothing
  is made up, the closest record and the closest zone win, and the reads come to
  an end.
* **The metric exporter** copies statistics it is told of by events, through a
  bounded buffer that drops what does not fit, into series that several ports
  share and no deletion removes. It is correct if a series never goes back and,
  with nothing waiting, shows the last report of the port that reported last.

## 2. The modules

| Module | Models |
|---|---|
| `NetUtils` | `PickUsableIPFromCIDRIndex`, `CountUsableIPs` |
| `KubeApi` | ClusterIPPool and ClusterIP objects and the API calls made on them |
| `NetworkController` | `OnAddClusterIPPool` and its informer |
| `Ipam` | `FindOrCreateClusterIP`, `createClusterIP`, `findEmptyClusterIPPool` in all daemons |
| `AddressLedger` | what address allocation promises, abstractly |
| `Allocation` | the four above side by side, with an administrator; the properties |
| `AllocationProofs`, `AllocationTheorems` | the inductive invariant and the theorems |
| `Pods` | what rows of both databases are told apart by: sandboxes and iface-ids |
| `Ovs`, `Ovn` | rows of br-int; rows of the northbound database and `OnAddLogicalSwitch` |
| `Cni` | ADD and DEL on one node, the container runtime |
| `CniProofs` | its inductive invariant and theorems |
| `VmController` | `OnAddKubevirtVM`, `OnDeleteKubevirtVM`, `OnUpdateVMI` and their informers |
| `Dhcp` | the DHCP server and the machines as its clients |
| `Lifecycle` | `Allocation`, `VmController` and `Dhcp` on the same API server |
| `LifecycleProofs` | two inductive invariants, one over `IInv` of the allocation, and the theorems |
| `Dns` | the lookup of one question |
| `DnsProofs` | its inductive invariant, the measure that decreases, the theorems |
| `DnsSnapshotProofs` | a second one, and that the reads compute the reference resolution |
| `Exporter` | the metric exporter: both gauges, the client's buffer of events, over the rows of `Ovs` |
| `ExporterProofs` | its inductive invariant and theorems |
| `MCAllocation`, `MCCni`, `MCLifecycle`, `MCDns`, `MCExporter` | instances for TLC |

### Address allocation (`KubeApi`, `NetworkController`, `Ipam`, `Allocation`)

A pool object carries its version `rv`, the counters `total`, `allocated`, `free`
and `next` of the status (decimal strings in the code; "" reads as 0), whether the
Ready condition says InvalidCIDR, and `releasedClusterIPs`. An address is its
offset in the block. A read is the object; a status update succeeds if the version
is still the one read (`Fresh`) and is refused otherwise. Nothing is cached
(`pkg/k8s/client.go` builds a plain client), so one API call with the computation
up to the next one is one action.

`pc[w]` is the call a worker makes next:

    idle -> getPool -> (answer)                        FindClusterIP, GetPool
    idle -> pick -> create -> commit -> (answer)       MissClusterIP, PickFresh,
                                                       CreateClusterIP, CommitPool
            pick -> getReleased -> popReleased -> panic    PickReleased, GetReleased,
                                                           PopReleased
            pick -> panic                              PickReleasedPanics

Every call can fail (`CallFails`), every reply of the last call can be lost, a
daemon can crash with all its requests and restart, and any worker may be asked for
any claim at any time, which covers retries, retries of requests still running, and
the two pods of a migrating machine.

Details of the code that the model keeps because the properties depend on them:

* `totalIps.Sub(totalIps, ...)` writes its receiver (`ipam.go:106`): `total` drops by
  three with every allocation, and the pool is exhausted when `next >= total - 1`.
  A pool of 30 usable addresses thus hands out 8, one of 14 hands out 4, one of 6
  two, one of 2 one, and one of 1 none. `Balanced` states this drift; the statement is
  what the code does, not what an operator would expect. Exhausted pools still count free addresses, so the
  next request takes the `releasedClusterIPs` path.
* `releasedClusterIPs[0]` of an empty list is an index out of range. Nothing in
  `pkg/` or `cmd/` appends to that list; the model lets an administrator do so
  (`ReleasedByHand`), which makes the pop reachable. The popped ClusterIP is
  returned with a nil pool, which `handleAdd` dereferences.
* Create drops the status and Status().Update drops the spec: both CRDs enable the
  status subresource. For the same reason the history `createClusterIP` puts into
  the new object never arrives.
* The ClusterIP is created before the pool is updated. When the update is refused the
  ClusterIP stays, uncounted, with an address that another request will be given and
  count; the retry then finds the uncounted one and answers with it. So *answers*
  may share an address, while *counted* allocations do not. `CommittedDistinct`,
  `CommittedContiguous` and `ImplementsLedger` are therefore about `committed`, the
  ClusterIPs the pool has counted, and `StatusObserved` (a finding) about the rest.
* The name of a ClusterIP is the resource with `/` replaced by `-`, and the interface.
  `Dashed` lets two resources share it. `Selected` uses the fields, not the name.
* `findEmptyClusterIPPool` returns the first pool the API server lists, in name order;
  pools are natural numbers here.

Not in the model: deletion of a pool and edits of its CIDR (nothing here does either),
pools whose CIDRs overlap (`Ledger` counts addresses per pool), the MAC (a function of
the resource). `server.go` asks for "v4" only; the family stays a parameter of the claims.

### CNI (`Pods`, `Ovs`, `Ovn`, `Cni`)

A sandbox has one ADD, which draws the names of its rows afresh, so it stands for both of
its rows: `bridge` is the set of sandboxes whose host veth is on br-int, `lsp` the switch
of the logical port each sandbox's ADD made. The sandboxes of a pod share an iface-id
(`IdOf`), which is what look-ups go by (`PortsOf`, `LogicalPortsOf`). `phase` is what the
runtime knows of a sandbox. `job[w]` is a request; `awaited` tells whether the runtime
still waits for it, `found` is the row its last look-up has found:

    setup -> addPort -> findSwitch -> insertPort -> (answer)     handleAdd
                                   -> rollback -> undo -> (error)
    findPort -> deletePort -> findHostPort -> delPort -> (answer)  handleDel

A look-up reads the client's cache and a transaction comes later, so they are two actions,
and any request, operator or timeout may come in between.

* The switch that was found may be removed, and the database then refuses the insert.
* The row that was found may be deleted by another request. The transaction then matches
  nothing and succeeds, and so does the DEL (`DelPort`, a finding: `Unplugged`).
* A transaction that breaks a rule of the schema (a name taken, a port that another switch
  refers to) is refused; with `Refusals` the database may refuse any for a reason of its own.
  `AddPort`, `DelPort`, `CreateLogicalPort` and `DeleteLogicalPort` log the errors of such a
  reply and report success; ADD and DEL go on.
* A call may fail and have taken effect nevertheless; that is an error, and the request ends
  (or is rolled back). A look-up that fails ends as a call that fails without effect.

`unheeded` is the history of the transactions that were counted as done and were not, of
requests the runtime waited for. The properties name it where the code, not noticing, really
loses something: a DEL that deleted no port (`PortsBounded`), a logical port left behind
(`LogicalPortsOwned`), a sandbox that runs without its port (`StaysPlugged`). Whatever goes
wrong otherwise (timeouts, crashes, lost answers, rows of other sandboxes) is not excused.

* ADD defaults to the switch `public`; DEL does not and looks for a switch with an
  empty name (`DelSwitch`). A DEL on the public network never succeeds.
* `DelPort` deletes `ports[0]` of those with the iface-id: any of them.
* "port not found" is an error of `DelPort`. It looks like a nuisance and carries
  `PortsBounded`: taking a missing port for a deleted one lets an ADD that outlives its
  DEL plug a port nobody will delete. That change is the property's mutant
  (`FindHostPortIfAny`). A port that is found and gone by the time of the transaction is
  taken for a deleted one, which is the exception `PortsBounded` makes.
* The error of an ADD whose logical port cannot be made is returned after the rollback,
  whatever that did (`Undo`).

The address an ADD asks for is part of `SetUp`; `Ipam` models it.

### Virtual machines (`VmController`, `Dhcp`, `Lifecycle`)

The two informers run side by side, each calling its handlers in order: `events` and
`step` for virtual machines, `updates` and `release` for instances. An update event is
a flag, because the handler reads the instance itself. After a crash the informers
list what there is; a deletion missed in between is gone (`disturbed`).

* Clearing the interface of a ClusterIP (`NoIface`) is how it is released.
* The MAC is generated from the resource, so all ClusterIPs of a machine have the same
  one and either all of them or none are unreported (`Unreported`).
* `updateClusterIP` reads the last entry of a history that is always empty and panics
  (`ReleaseOfDeletedPanics`), unless the machine has no ClusterIP.
* `OnUpdateVMI` reads the instance, then the ClusterIPs. A report read before an
  interface was plugged clears the ClusterIP the pod was just answered; the next ADD
  does not find it, and its Create fails with AlreadyExists for good. The model has
  these steps, and `AnswersStand` states what survives them: address, pool and resource.
* An informer relist that hides a deletion and a re-creation behind one update event is
  not modelled; neither handler of machines has an update half.

`Dhcp` has no state of the server's: `offers`, `requests` and `acks` are the network, and
packets stay in them for ever, so that they are lost, duplicated and reordered at will.
A packet is handled in one action, because the List decides its contents and a reply sent
late is a reply that arrives late. What the action keeps of `applyCommonOptions` is the
address: that of the first ClusterIP with the sender's MAC, or, when there is none or a
call fails, the one the packet had, which for an ACK is what the client asked for.
`LeasesOwned` says that this fallback does no harm with clients that ask for what they were
offered or had. The server identifier and the mask are missing from such an ACK, and no
reply ever has a lease time; neither is modelled. A renewing client names its address in
ciaddr, not in the option the server reads, and gets no reply.

### DNS (`Dns`)

A question is a sequence of reads: CNAME, exact name, wildcards from the closest to the
root, then for each CNAME target the same again, and without an answer the zone walk and
the zone's row. Each read is one action; rows of any table change in between
(`EditRow`); a read may fail and return some of its rows, and the code drops its error.
One error is not dropped: that of closing the read of the zone's row once the row is there;
no message is sent then (`CloseZoneFails`).

* The CNAME and TXT statements have two markers and one or two bound values (`Markers`,
  `Values`); a statement with an unbound one returns nothing. So a CNAME question is
  answered NODATA (`CnameFirst`, a finding), and "CNAME first" happens only because the
  statement for A asks for CNAME rows too.
* An A question is answered with AAAA rows as well. Wildcard answers carry the
  wildcard's own name as owner.
* A zone's id stands for its domain, and so does the SOA record made of its row.
  `reply` is the message's code and those records; NXDOMAIN comes with the default SOA,
  that of the root.
* `findActiveZone` and `getZoneByID` read two tables. A zone deleted between the two is
  no zone, and the walk does not go on to the next larger one (`ZoneNotDenied` states the
  exception).

`Resolution` is what all the reads amount to when nothing changes: the closest records,
those of the targets of aliases among them found the same way, or else the zone.
`ResolvesSnapshot` says that the code's sequence of reads, statements, markers and loops
computes this function of the tables, for every content of the tables. `Terminates`
compares every read with the one before it: a lookup goes through its stages and labels
(`Stage`), each target that has been looked up leaves fewer of them, and the targets of
targets are not followed; so a loop of aliases ends.

### Metric exporter (`Ovs`, `Exporter`)

`process` is `down`, `monitoring` (the client has its first list, no handler is
registered yet: `CreateOVSagent` has returned, `Start` has not run), `serving` and `cut`.
`queue` is the buffer of `Capacity` events between the client's cache and the one
goroutine that hands them out; a full buffer drops the newest event. A sample is told
apart by the column, the port and the report it is from.

* A series is named by namespace, machine and interface. `ExtractVMName` cuts off what
  tells the launcher pods of one machine apart, and is empty for other pods (`NoVm`), so
  ports share series. `told` is the history the properties are stated with: the port
  that reported last under the name, if its event went into a registered handler's buffer.
* `rx_bytes` goes into `TxBytes` and the other way round (`agent.go:95`), as the machine
  behind the port sees it. The gauges' help speaks of the port and says the opposite (section 5), so
  no property takes sides: `AtRestLatest`, `NeverBack` and `CatchesUp` are about ports and
  reports, not columns.
* A row without statistics is passed over, and one whose iface-id has not three parts
  (a pod's interface with an underscore in its name): s3 of the instance.
* The handlers look at the row as it is now and do nothing at a deletion.
* The client is not asked to reconnect. After a lost connection the gauges stay as they
  were until the process is restarted (`cut`); no property promises anything there.
* `SetupVeth` never draws a host name twice (`used`). With reused names a series could go
  back to the statistics of another port with the same name.

Events of bridge and port rows pass through the same buffer and are left out: they change
nothing, and the room they take shows as a smaller `Capacity`.

## 3. The runs

| Run | Instance | Shows |
|---|---|---|
| `one_pool` | one /28, two nodes, one worker each, three claims, no edits | type invariant, counters, distinct and contiguous allocation, no address lost to a failed request, usable addresses, answers backed, no counter taken back, refinement of the ledger |
| `edits` | a pool that does not parse and a /30, one node with two workers, two claims for one name, pools edited by hand up to version 3 | a pool hands out a quarter of its capacity and is exhausted then; edits of `releasedClusterIPs` survive; retries of a recorded claim are answered |
| `status` (violation) | as `edits` | `allocatedIPs` is not the number of ClusterIPs |
| `initial_list` (violation) | as `edits`, no edits by hand | a pool created while the controller is down stays without counters |
| `cni` | two of three sandboxes: a pod tried twice, or two pods, one on the public network; two workers, a switch that comes and goes, refused transactions | type invariant, ports bounded, logical ports owned, running sandboxes stay plugged |
| `cni_attach` (violation) | the pod's network changes between its sandboxes | an answered ADD whose port is on the old switch |
| `cni_unplug` (violation) | a pod in two sandboxes, two workers, nothing refused | two DELs take the same port; one port stays, and nobody will delete it |
| `lifecycle` | one machine, one interface, one pool, three waiting events, crashes and failing calls | answers stand, credentials follow, leases are the machine's own, the ledger still implemented |
| `lifecycle_delete` (violation) | as `lifecycle`, nothing fails | addresses of a deleted machine never released |
| `exporter` | two launcher pods of one machine and a pod that is never exported, a buffer of three events, two reports per port; crashes, lost connections | the last report is shown at rest, no series goes back, reports that went into the buffer are shown in the end |
| `dns` | six rows, one alias in a possible loop, two zones, four questions, two rows changing per question | what is stable is answered, provenance, closest record and zone, stable zones, the reference resolution, termination |
| `dns_cname` (violation) | an alias and its target, tables at rest | CNAME question answered NODATA |

Why the bounds are enough. Two requests at a time show every interleaving of a pair, and
the optimistic lock is about pairs; in `one_pool` three claims meet in a pool that hands out
four, so that sharing, leftovers and retries meet with nothing else in the way, and in `edits` the
pool hands out one, so that exhaustion meets them. `pc`, `phase` and the objects bound the state by
themselves: no counter grows without an action that consumes an index, a name or one of
`MaxEdits` edits, so the allocation runs are complete and not cut off. `MaxEdits` (pools
edited by hand up to this version; rows changed during one question), `MaxEvents`
(machines come and go while so few events wait), `MaxReports` (statistics written to one
port) and `MaxTried` (sandboxes the runtime tries) are the only bounds in guards; the proofs hold for any value of them. `Capacity` is a
size of the client library, far larger there; with three, the buffer of `exporter` fills up. In `cni`
two sandboxes are tried of three, of one pod or of two: the second is the predecessor or the
neighbour of the first, and each has requests that were given up, failed or lost. A predecessor
and a neighbour at once would be ten times as many states; the proofs have them. The symmetry is
between workers, which differ in nothing, and these runs check no liveness. In `exporter` two ports share a series and one has none,
and two reports are enough to be out of order. In `dns` names have up to three
labels, so that a wildcard, a closer wildcard, a zone and a smaller zone are all there,
and every initial content of the tables is tried.

Deadlock is checked in every run; in none can the system stop.

Fairness. Only `edits`, `initial_list`, `lifecycle_delete` and `exporter` check liveness.

* Weak fairness of a worker's calls in progress, of a controller's handlers and of the
  informer's delivery: goroutines and handler loops are scheduled.
* Weak fairness of restarts: a DaemonSet and Deployments restart their containers.
* Strong fairness of a claim's look-up and of its answer: the kubelet retries a sandbox
  until its ADD succeeds, and calls do not fail, nor daemons crash, every single time.
  It is stated for the claim, not for a worker, and not for creating a ClusterIP: the
  code does not promise progress there (`RetriesSucceed` starts from a ClusterIP that
  exists).
* In `exporter`, weak fairness of `Dispatch` alone: the client's goroutine runs as long as
  events wait. Nothing else must happen; `CatchesUp` excuses lost events, connections and
  processes.
* In `initial_list` the property itself assumes that the controller stays up from some
  point on. In `lifecycle_delete`, crashes and failing calls are switched off, so that
  nothing but the handler's own panic stands in the way.

## 4. What is proved

For *all* values of the constants, from the named assumptions of the modules. These give
the constants their types and say a little more: there are finitely many sandboxes and
workers (`Cni`, `Exporter`), refusals happen or not (`Refusals`), the machines are finitely many of the resources (`VmAssumption`), no sample is equal to `Unset` (`UnsetAssumption`), the container runtime names the interface of every request
(`NoIfaceAssumption`), rows have a target exactly if they are aliases (`Dns`).

| Module | Theorems | State |
|---|---|---|
| `AllocationProofs` | `Invariance` | `Spec => []IInv` |
| | `IndexesCountAddresses` | `PickUsableIPFromCIDRIndex` counts through the host addresses, once each |
| `AllocationTheorems` | `TypeCorrect`, `Accounting`, `Distinctness`, `Contiguity`, `Usability`, `Backing`, `NothingLost` | the invariants of `one_pool` |
| | `QuarterHandedOut` | `QuarterUsed` |
| | `StatusCountsCommitted` | `allocatedIPs` is the number of counted ClusterIPs |
| | `Monotonicity`, `EditsSurvive` | `NeverReset`, `EditsKept` |
| | `RetriesUnblocked` | the safety half of `RetriesSucceed` |
| | `Refinement` | the counted allocations implement `AddressLedger` |
| `LifecycleProofs` | `LifecycleTypeCorrect`, `AnswersStandThrough`, `LeasesStayOwned`, `CredentialsFollowMachines` | the invariants of `lifecycle` |
| | `AllocationStands`, `CountersNeverReset`, `ListEditsSurvive` | the safety and action properties of the allocation, in the composition |
| | `LifecycleRefinement` | the ledger is still implemented while the KubeVirt controller releases ClusterIPs |
| `CniProofs` | `Invariance`, `TypeCorrect`, `PortsStayBounded`, `LogicalPortsStayOwned`, `RunningStaysPlugged` | the invariants of `cni` |
| `ExporterProofs` | `Invariance`, `TypeCorrect`, `RestIsLatest`, `GaugesGoForward` | `AtRestLatest`, `NeverBack` |
| | `ReportsApproach` | the safety half of `CatchesUp` |
| `DnsProofs` | `Invariance`, `TypeCorrect`, `StableRecordsAnswered`, `AnswersHaveOwners`, `ClosestWins`, `ZonesNotDenied`, `SoaIsOfClosestZone`, `QuestionsEnd` | the properties of `dns` but the next |
| `DnsSnapshotProofs` | `SnapshotsResolved` | `ResolvesSnapshot` |

In all of them the preservation proof has one lemma per action, or per kind of step where
several actions do the same to a part of the state.

**Allocation.** None of the six invariants is inductive: a worker's commit is safe because
of what it read two calls earlier. `IInv` says what that read is worth. A `Snapshot` is an
object that is either the current one or older than it; in the second case the version
check refuses the write, and in the first the address the worker carries (`Picked`) is the
one after the last the pool has counted. Together with `CommittedContiguous` (the counted
addresses are exactly the first `allocated` ones) the new address is a new one, which gives
`CommittedDistinct` and the next instance of `CommittedContiguous`. `ControllerInv` says
that the controller only waits for or works on pools without counters, or holds a read that
will be refused; that is why neither its late write nor a restart can set a pool in use
back, and it is where the early return for the initial list is needed. `Job` adds what
every step of a worker has established (`Recorded`: the claim's ClusterIP exists with the
address carried; a worker about to commit has a ClusterIP not counted yet).
`NextIsAllocated` and `CountedBalanced` isolate the arithmetic of the aliased `big.Int`,
`PickUsable` that of `ip.go`: only the exhaustion test keeps the index off the broadcast
address, which the range check would let through. Actions that write a pool go through
`StatusUpdated`/`WriteKeeps`, those that only end requests through `EndKeeps`.

`IInv` says nothing of a ClusterIP's interface, so that it can be used where the KubeVirt
controller clears it; that a claim's ClusterIP has the claim's interface while nobody does
(`NamedAfterClaim`) is a second, smaller induction in `AllocationTheorems`, and gives
`AnswersRecorded`.

Three smaller inductions over `IInv` say more. `ReachInv`: no ClusterIP has an address beyond
the next one of its pool (`WithinReach`), because the read it was picked from counted no more
than the pool does now (`ReadsOlder`); with `CommittedContiguous` that is `NoAddressLost`.
`WithinShare`: `allocated` never exceeds a quarter of the capacity, the point where
`Exhausted` turns true (`ShareQuotient` is the division). `PoolsThere`: no ClusterIP is
without its pool. `StatusCountsCommitted` is a bijection between the counted ClusterIPs and the
addresses of `CommittedContiguous`: what the status does not count (`StatusObserved`) is
exactly the ClusterIPs whose request ended before its count.

`RetriesUnblocked` is what `RetriesSucceed` needs besides fairness: a recorded claim stays
recorded, its List has exactly one result, and the Get that follows finds a pool. So the only
thing between a retry and its answer is that calls do not fail every time.

**Lifecycle.** `LInv` is `IInv`, and what the steps of the KubeVirt controller and of DHCP
need of each other: `ReleaseKeeps` shows that a release leaves `IInv` alone, `AllKept` that
no step of any component takes pool, address or resource away from a ClusterIP that exists.
Steps of the other components leave pools, workers and addresses alone (`OthersStandBy`), so the
three small inductions go through as well and all safety properties of the allocation hold in
the composition; only `AnswersRecorded` gives way to `AnswersStand`, as the interface may go.
So what a packet once said of a machine's addresses stays true (`PacketsOwned`), however
late the packet comes, which is all `LeasesOwned` needs. `CInv` is about the event queue: a
machine's last waiting event is an Add exactly if the machine exists, or none waits and the
secret is as it must be (`Settled`); `Progress` says how far the handler in the middle of an
event is, `LeftClean` what a stopped controller leaves behind. Its restart needs that the
list of machines has each once.

**CNI.** `PortsBounded` counts, per iface-id, the rows on the bridge and the ADDs that may
still plug one, against the sandboxes whose DEL has not succeeded or succeeded without
deleting a row; every action moves each of the three sets by at most one element, and the
step that matters is `DeleteHostPort`: a DEL that reports success either takes a row off the
bridge or leaves its sandbox counted. `Requests` ties requests to what the runtime
knows: at most one awaited request per sandbox, a request nobody awaits belongs to a
sandbox that is in `overrun` or being deleted, and rows found are rows of the request's pod.
`Accounted` says that the sandbox that made a logical port still accounts for it: it is not
deleted and no DEL of it has passed the port by (`NotPassed`), which holds because names are
unique, so that whoever looks finds that very port; or its ADD was overrun; or its DEL was
refused. `Undisturbed` says who may work on a pod's ports while a sandbox that met no
leftover comes up, and at which steps it may still be without its port (`Plugged`); it gives
`StaysPlugged`. None of the proofs assumes that a row found is there at the transaction, or
that a transaction whose reply has errors has done something.

**Exporter.** `Ordered` says that the waiting events of one port come in the order of its
reports, `Behind` that a gauge is behind all of those that wait for its port: together they
give `NeverBack`. `ToldLatest` says that the last event for a series is the last report of
the port named in `told`, or that this report is shown and none waits; with an empty buffer
it is `AtRestLatest`. `Fresh` and `Quiet` are about ports and processes that have just begun.
`ReportsApproach` is the safety half of `CatchesUp`: the last report of a port that a series
tells of is shown or waits in the buffer, and while the series tells of that port an event
handed out brings it one place nearer to being shown and no other step moves it back.

**DNS.** `Witnessed` relates the histories to the tables. `Owned`, `Complete`, `Nearest`
and `Walked` are the properties, said of every read of a lookup in progress: what the reads
made so far rule out, unless one has failed. `Searching` says where a lookup can be. The
wildcards the code builds by joining labels are those a name falls under (`WildcardOwns`,
`WildcardsTried`). `QuestionsEnd` shows that every read decreases the measure of
`Terminates`.

`SnapshotsResolved` needs more than what the reads rule out: `SnapshotInv` says that, with
tables at rest and no failed read, none of the wildcards passed has records, `answer` is the
first records and what the targets of the aliases looked up so far contribute, `chase` has the
aliases still to follow, and none of the suffixes passed on the walk to a zone is an active
domain.

Only model-checked: that `RetriesSucceed` and `CatchesUp` follow from these premises under the
fairness of the specifications (the prover has no rule for fairness and ENABLED here), and of
course the findings.

## 5. Findings

Six statements of the repository are not kept by the code; each has a run with a
counterexample (`PROJECT.json`, "findings"): uncounted ClusterIPs, pools missed by the
controller, ADD reporting success for a refused transaction, DEL reporting success for a
port another DEL has deleted, the panic at a machine's deletion, and CNAME questions.

Seen while reading, plain from the line alone and without a run:

* `CreateLogicalSwitch` asks whether `len(results) >= 0` (`pkg/ovn/ovnnb.go:28`) and so
  refuses every switch as existing. The model has the test as it is.
* `AddPort` and `DelPort` log errors of the transaction's reply and return nil
  (`pkg/ovs/ovs.go:68`, `:132`), as `CreateLogicalPort` does. The models have it
  (`Refusals`), and the properties of CNI say what it costs.
* Interfaces with an underscore in their names are never exported, gauges of deleted ports
  stay, and the client does not reconnect (`pkg/ovs/agent.go`).
* The CDN controller watches gateways in the API group of the network resources, registers
  two of its handlers nowhere, has clients whose scheme lacks its types, and
  `cmd/cdn-controller.go` declares flag shorthands longer than one character.
* The code registers its types in the group `network.kloudstack.ir`
  (`api/network/v1alpha1/groupversion_info.go:9`), but the manifest of ClusterIP defines it in
  `compute.kloudstack.ir` (`crd/network/clusterips.network.kloudstack.ir.yaml:7`), and the
  roles of the CNI daemon and of the DHCP server name `ipam.kloudstack.ir`
  (`deployment/ovn/cni/rbac.yaml:19`, `:32`, `deployment/dhcpserver/rbac.yaml:13`) and
  `ipam.histack.ir` (`deployment/dhcpserver/rbac.yaml:21`). Installed as they are, the
  daemons could not reach a ClusterIP; the models assume manifests that match the code.
* Pods that are not machines share one MAC on a private switch.
* On the public network the MAC is generated from the resource alone (`pkg/ipam/ipam.go:71`),
  and the DHCP server asks for one ClusterIP with the sender's MAC (`:185`): all interfaces of a
  machine are told the same address.
* `updateInterfaceStats` puts the port's `rx_bytes` into the gauge whose help says "Transmitted
  bytes on OVS port." (`pkg/metrics/ovs.go:16`) and its `tx_bytes` into the one of "Received
  bytes on OVS port." (`:9`): the directions are the machine's, not the port's.

## 6. Not modelled

* The CDN controller: none of its handlers runs (see above), so there is no behaviour to
  model that the program has.
* The gatekeeper: one decision from the request alone, no state between requests. The one
  call that changes something creates a namespace; its failure is logged and changes nothing
  in the answer, and two at once end with one namespace by the API server's rule.
* Generated code (deep copies, protobuf, OVSDB tables), the web console's template and the
  deployment's manifests.
* In DNS: several questions in one message, and the wire format. In CNI: the container's
  side of `SetupVeth`, which fails or succeeds as a whole. In allocation: deletion of a
  pool and edits of its CIDR, which nothing here does.

## 7. Plan

Done: allocation with its proofs; CNI, DNS and the exporter with theirs; the KubeVirt
controller and the DHCP server composed with allocation, and proofs about the composition.
What is left would be, in this order:

1. `Ipam` inside `Cni`: the address of an ADD that is rolled back stays allocated, and the
   retry must be given it again.
2. Several questions in one message, whose answers share the message's code and sections.
