----------------------------- MODULE Allocation -----------------------------
(***************************************************************************)
(* Address allocation as a whole: the network controller initialises the   *)
(* pools, the CNI daemons allocate from them, an administrator creates     *)
(* pools and edits releasedClusterIPs, and all of them meet only in the    *)
(* API server.                                                             *)
(***************************************************************************)
EXTENDS NetworkController, Ipam, FiniteSets

CONSTANT MaxEdits     \* bound: pools are edited by hand up to this version

ASSUME MaxEditsAssumption == MaxEdits \in Nat

vars == <<apiVars, controllerVars, ipamVars>>

Init == ApiInit /\ ControllerInit /\ IpamInit

ReleasedByHand ==
    /\ \E p \in Pools, n \in Names : pools[p].rv < MaxEdits /\ ReleaseByHand(p, n)
    /\ UNCHANGED <<controllerVars, ipamVars>>

Next ==
    \/ ControllerNext /\ UNCHANGED ipamVars
    \/ IpamNext /\ UNCHANGED controllerVars
    \/ ReleasedByHand

Spec == Init /\ [][Next]_vars

-----------------------------------------------------------------------------
(***************************************************************************)
(* Fairness.  Goroutines and the informer's handler loop are scheduled     *)
(* (weak fairness of the calls in progress); Kubernetes restarts a daemon  *)
(* and a controller that ended.  The kubelet retries a sandbox until its   *)
(* ADD succeeds, and calls do not fail for ever (strong fairness of the    *)
(* lookup and of its answer).                                              *)
(***************************************************************************)
Lookup(c) == \E w \in Workers : FindClusterIP(w, c)

AnswerTo(c) == \E w \in Workers : claim[w] = c /\ GetPool(w)

Fairness ==
    /\ \A w \in Workers : WF_vars(WorkerStep(w) /\ UNCHANGED controllerVars)
    /\ \A n \in Nodes : WF_vars(RestartDaemon(n) /\ UNCHANGED controllerVars)
    /\ WF_vars(StartController /\ UNCHANGED ipamVars)
    /\ \A p \in Pools :
          /\ WF_vars(GetAddedPool(p) /\ UNCHANGED ipamVars)
          /\ WF_vars((UpdatePoolStatus(p) \/ UpdatePoolConflict(p)) /\ UNCHANGED ipamVars)
    /\ \A c \in Claims :
          /\ SF_vars(Lookup(c) /\ UNCHANGED controllerVars)
          /\ SF_vars(AnswerTo(c) /\ UNCHANGED controllerVars)

FairSpec == Spec /\ Fairness

TypeOK == ApiTypeOK /\ ControllerTypeOK /\ IpamTypeOK

-----------------------------------------------------------------------------
Capacity(p) == CountUsableIPs(SpecOf[p].cidr)

\* The controller has written the counters of the pool.
Initialised(p) == pools[p].free # 0 \/ pools[p].allocated # 0

Uninitialised(object) ==
    object.total = 0 /\ object.allocated = 0 /\ object.free = 0 /\ object.next = 0

\* The addresses of the pool's counted allocations.
CommittedAddresses(p) == {cips[n].address : n \in {m \in committed : cips[m].pool = p}}

(***************************************************************************)
(* The four counters of a pool stay in step however often writers meet on  *)
(* it: what is allocated and what is free add up to the capacity the       *)
(* controller counted, and the next index is the number of allocations     *)
(* until the pool refuses to use it.  totalIPs is not the size of the pool *)
(* but loses 3 with every allocation (the aliased big.Int of               *)
(* createClusterIP); that drift is part of what is stated.                 *)
(***************************************************************************)
Balanced(object, capacity) ==
    /\ object.free = capacity - object.allocated
    /\ object.total = capacity - 3 * object.allocated
    /\ 0 <= object.allocated
    /\ \/ object.next = object.allocated
       \/ object.next = object.allocated - 1 /\ Exhausted(object)

PoolAccounting ==
    \A p \in Pools : Uninitialised(pools[p]) \/ Balanced(pools[p], Capacity(p))

(***************************************************************************)
(* What the drift comes to: a pool hands out a quarter of its capacity,    *)
(* rounded to the nearest, and refuses exactly then, in whatever order     *)
(* allocators and the controller have written it (the exhaustion test and  *)
(* the next index of createClusterIP, on the same lowered totalIps).       *)
(***************************************************************************)
Share(p) == (Capacity(p) + 2) \div 4

QuarterUsed ==
    \A p \in Pools : Initialised(p) =>
        /\ pools[p].allocated <= Share(p)
        /\ Exhausted(pools[p]) <=> pools[p].allocated = Share(p)

(***************************************************************************)
(* No lost update: an allocation the pool has counted owns its address     *)
(* among all counted allocations, although the address is chosen from a    *)
(* read made two API calls before the write (createClusterIP).             *)
(***************************************************************************)
CommittedDistinct ==
    \A m, n \in committed :
        cips[m].pool = cips[n].pool /\ cips[m].address = cips[n].address => m = n

(***************************************************************************)
(* No address is skipped or lost: the counted allocations of a pool hold   *)
(* exactly its first allocatedIPs usable addresses.                        *)
(***************************************************************************)
CommittedContiguous ==
    \A p \in Pools :
        LET first == FirstOffset(SpecOf[p].cidr)
        IN  CommittedAddresses(p) = first .. first + pools[p].allocated - 1

(***************************************************************************)
(* A request that fails after the Create uses up no address: what its      *)
(* ClusterIP holds is counted, for it or for another one, or is the next   *)
(* address its pool will hand out.                                         *)
(***************************************************************************)
NoAddressLost ==
    \A n \in Names : Exists(cips[n]) =>
        LET p    == cips[n].pool
            next == FirstOffset(SpecOf[p].cidr) + pools[p].allocated
        IN  cips[n].address \in CommittedAddresses(p) \cup {next}

(***************************************************************************)
(* Every ClusterIP, also one whose request failed after the Create, holds  *)
(* an address a host of its pool can use.                                  *)
(***************************************************************************)
AddressUsable ==
    \A n \in Names :
        Exists(cips[n]) => cips[n].address \in Usable(SpecOf[cips[n].pool].cidr)

(***************************************************************************)
(* An answer is backed by the ClusterIP of its claim: whoever asks again   *)
(* for the claim, on any node, after any crash, gets the same address      *)
(* (FindOrCreateClusterIP).                                                *)
(***************************************************************************)
AnswersRecorded ==
    \A a \in answers :
        LET cip == cips[NameOf(a.claim)]
        IN  /\ Exists(cip)
            /\ cip.resource = a.claim.resource /\ cip.iface = a.claim.iface
            /\ cip.pool = a.pool /\ cip.address = a.address

(***************************************************************************)
(* A step never gives back what was allocated: once the controller has     *)
(* initialised a pool, neither it (restarted, or late with a stale read)   *)
(* nor an allocator takes a counter back.                                  *)
(***************************************************************************)
NeverReset ==
    [][\A p \in Pools : Initialised(p) =>
          /\ pools'[p].allocated >= pools[p].allocated
          /\ pools'[p].next >= pools[p].next
          /\ pools'[p].free <= pools[p].free]_vars

(***************************************************************************)
(* No writer overwrites what an administrator put into releasedClusterIPs: *)
(* an entry leaves the list at its head only, by an allocator that took it.*)
(***************************************************************************)
EditsKept ==
    [][\A p \in Pools :
          \/ pools'[p].released = pools[p].released
          \/ \E n \in Names : pools'[p].released = Append(pools[p].released, n)
          \/ pools[p].released # <<>> /\ pools'[p].released = Tail(pools[p].released)]_vars

(***************************************************************************)
(* A claim whose ClusterIP was created, by a request that was answered, or *)
(* lost its daemon, or ended in a Conflict, is answered in the end: no     *)
(* leftover of an earlier request blocks the retries.                      *)
(***************************************************************************)
RecordedFor(c) ==
    \E n \in Names : /\ Exists(cips[n])
                     /\ cips[n].resource = c.resource
                     /\ cips[n].iface = c.iface
                     /\ cips[n].family = c.family

RetriesSucceed ==
    \A c \in Claims : RecordedFor(c) ~> \E a \in answers : a.claim = c

\* The ledger of counted allocations, and the promise it implements.
Ledger ==
    INSTANCE AddressLedger WITH
        HostAddresses <- [p \in Pools |-> Usable(SpecOf[p].cidr)],
        ledger <- {[name |-> n, pool |-> cips[n].pool, address |-> cips[n].address] :
                      n \in committed}

ImplementsLedger == Ledger!Spec

-----------------------------------------------------------------------------
(***************************************************************************)
(* Statements of the repository that the code does not keep.               *)
(***************************************************************************)

(***************************************************************************)
(* crd/network/clusterippools...yaml:53: "status defines the observed      *)
(* state of ClusterIPPool".  With no request in progress, allocatedIPs is  *)
(* the number of ClusterIPs of the pool.                                   *)
(***************************************************************************)
StatusObserved ==
    (\A w \in Workers : pc[w] = "idle") =>
        \A p \in Pools :
            pools[p].allocated =
                Cardinality({n \in Names : Exists(cips[n]) /\ cips[n].pool = p})

(***************************************************************************)
(* cmd/network-controller.go:20: the controller "watches for changes in    *)
(* Kloudstack resources and performs the necessary actions to ensure that  *)
(* the resources are in the desired state".  A pool with a valid CIDR gets *)
(* its counters, if the controller stays up after some point.              *)
(***************************************************************************)
PoolsInitialised ==
    <>[]alive =>
        \A p \in Pools :
            Exists(pools[p]) /\ Parses(SpecOf[p].cidr) ~> Initialised(p)
=============================================================================
