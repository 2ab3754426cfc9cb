-------------------------- MODULE AllocationProofs --------------------------
(***************************************************************************)
(* The safety properties of Allocation for every set of pools, claims,     *)
(* workers and nodes.  The inductive invariant is IInv.                    *)
(***************************************************************************)
EXTENDS Allocation, TLAPS

-----------------------------------------------------------------------------
(* The address arithmetic. *)

\* A block has a natural number of usable addresses (CountUsableIPs).
LEMMA CapacityNat ==
    ASSUME NEW cidr \in CIDRs
    PROVE  CountUsableIPs(cidr) \in Nat
BY DEF CIDRs, Families, CountUsableIPs, HasBroadcast

(***************************************************************************)
(* PickUsableIPFromCIDRIndex succeeds below CountUsableIPs, and what it    *)
(* returns is a host address: the two functions of ip.go agree.            *)
(***************************************************************************)
LEMMA PickUsable ==
    ASSUME NEW cidr \in CIDRs, NEW index \in Nat, index < CountUsableIPs(cidr)
    PROVE  /\ PickUsableIPFromCIDRIndex(cidr, index) = FirstOffset(cidr) + index
           /\ PickUsableIPFromCIDRIndex(cidr, index) \in Usable(cidr)
           /\ PickUsableIPFromCIDRIndex(cidr, index) # NoAddress
BY DEF CIDRs, Families, CountUsableIPs, HasBroadcast, PickUsableIPFromCIDRIndex,
       Parses, LastIndex, FirstOffset, Usable, NoAddress

(***************************************************************************)
(* PickUsableIPFromCIDRIndex counts through the host addresses of a block, *)
(* each once, with the indexes below CountUsableIPs, for IPv4 and IPv6 and *)
(* blocks of one or two addresses alike.  It refuses an index outside the  *)
(* block, and lets one too many through where there is a broadcast         *)
(* address: that one.                                                      *)
(***************************************************************************)
THEOREM IndexesCountAddresses ==
    ASSUME NEW cidr \in CIDRs
    PROVE  /\ \A i, j \in 0 .. CountUsableIPs(cidr) - 1 :
                 PickUsableIPFromCIDRIndex(cidr, i) = PickUsableIPFromCIDRIndex(cidr, j)
                    => i = j
           /\ {PickUsableIPFromCIDRIndex(cidr, i) : i \in 0 .. CountUsableIPs(cidr) - 1}
                 = Usable(cidr)
           /\ \A i \in Int \ (0 .. CountUsableIPs(cidr) - 1) :
                 PickUsableIPFromCIDRIndex(cidr, i) \in
                    IF HasBroadcast(cidr) /\ i = CountUsableIPs(cidr)
                    THEN {cidr.size - 1} ELSE {NoAddress}
<1>1. /\ CountUsableIPs(cidr) \in Nat /\ FirstOffset(cidr) \in Int
      /\ \A i \in 0 .. CountUsableIPs(cidr) - 1 :
            /\ PickUsableIPFromCIDRIndex(cidr, i) = FirstOffset(cidr) + i
            /\ PickUsableIPFromCIDRIndex(cidr, i) \in Usable(cidr)
  BY CapacityNat, PickUsable DEF FirstOffset
<1>2. ASSUME NEW a \in Usable(cidr)
      PROVE  \E i \in 0 .. CountUsableIPs(cidr) - 1 : PickUsableIPFromCIDRIndex(cidr, i) = a
  <2>1. a - FirstOffset(cidr) \in 0 .. CountUsableIPs(cidr) - 1 /\ a \in Int
    BY <1>2 DEF Usable, CIDRs, Families, CountUsableIPs, HasBroadcast, FirstOffset
  <2>2. FirstOffset(cidr) + (a - FirstOffset(cidr)) = a
    BY <1>1, <2>1
  <2>3. QED
    BY <1>1, <2>1, <2>2
<1>3. ASSUME NEW i \in Int \ (0 .. CountUsableIPs(cidr) - 1)
      PROVE  PickUsableIPFromCIDRIndex(cidr, i) \in
                IF HasBroadcast(cidr) /\ i = CountUsableIPs(cidr)
                THEN {cidr.size - 1} ELSE {NoAddress}
  BY <1>3 DEF CIDRs, Families, CountUsableIPs, HasBroadcast, PickUsableIPFromCIDRIndex,
              Parses, LastIndex, FirstOffset
<1>4. QED
  BY <1>1, <1>2, <1>3

\* The first n + 1 addresses from a start are the first n and the next one.
LEMMA IntervalGrows ==
    ASSUME NEW start \in Int, NEW n \in Nat
    PROVE  start .. start + (n + 1) - 1 = (start .. start + n - 1) \cup {start + n}
OBVIOUS

\* A balanced pool that is not exhausted picks the address after its last one.
LEMMA NextIsAllocated ==
    ASSUME NEW object \in PoolObjects, NEW capacity \in Nat,
           Balanced(object, capacity), ~Exhausted(object)
    PROVE  object.next = object.allocated /\ object.next < capacity
BY DEF PoolObjects, Balanced, Exhausted

\* What createClusterIP writes keeps a pool balanced.
LEMMA CountedBalanced ==
    ASSUME NEW object \in PoolObjects, NEW capacity \in Nat,
           Balanced(object, capacity), ~Exhausted(object), object.free > 0
    PROVE  /\ Counted(object) \in PoolObjects
           /\ Balanced(Counted(object), capacity)
           /\ Counted(object).allocated = object.allocated + 1
           /\ Counted(object).next >= object.next
           /\ Counted(object).free = object.free - 1
           /\ Counted(object).released = object.released
<1>1. object.next = object.allocated
  BY NextIsAllocated
<1>2. /\ Counted(object).allocated = object.allocated + 1
      /\ Counted(object).free = object.free - 1
      /\ Counted(object).total = object.total - 3
      /\ Counted(object).next = IF object.next < object.total - 3
                                THEN object.next + 1 ELSE object.next
      /\ Counted(object).released = object.released
  BY DEF PoolObjects, Counted
<1>3. /\ object.rv \in Nat /\ object.total \in Int /\ object.allocated \in Nat
      /\ object.free \in Nat /\ object.next \in Nat
  BY DEF PoolObjects
<1>4. Counted(object) \in PoolObjects
  <2> DEFINE left == object.total - 3
             next == IF object.next < left THEN object.next + 1 ELSE object.next
  <2>1. /\ next \in Nat /\ left \in Int
        /\ object.allocated + 1 \in Nat /\ object.free - 1 \in Nat
    BY <1>3
  <2> HIDE DEF next, left
  <2>2. [object EXCEPT !.allocated = object.allocated + 1, !.free = object.free - 1,
                       !.total = left, !.next = next] \in PoolObjects
    BY <2>1 DEF PoolObjects
  <2>3. QED
    BY <2>2 DEF Counted, next, left
<1>5. Balanced(Counted(object), capacity)
  <2>1. CASE object.next < object.total - 3
    BY <2>1, <1>1, <1>2, <1>3 DEF Balanced
  <2>2. CASE ~(object.next < object.total - 3)
    <3>1. Exhausted(Counted(object))
      BY <2>2, <1>1, <1>2, <1>3 DEF Exhausted
    <3>2. QED
      BY <3>1, <2>2, <1>1, <1>2, <1>3 DEF Balanced
  <2>3. QED
    BY <2>1, <2>2
<1>6. QED
  BY <1>2, <1>3, <1>4, <1>5

-----------------------------------------------------------------------------
(***************************************************************************)
(* The inductive invariant.  A worker or handler acts on what it has read; *)
(* what makes that safe is that a read either is the current object or is  *)
(* older than it and will be refused.                                      *)
(***************************************************************************)
Snapshot(object, p) ==
    /\ Exists(object)
    /\ object.rv <= pools[p].rv
    /\ object.rv = pools[p].rv => object = pools[p]

\* The claim's ClusterIP exists and holds address a of pool p.  Its interface is
\* left out: the KubeVirt controller may have cleared it (LifecycleProofs).
Recorded(c, p, a) ==
    /\ Exists(cips[NameOf(c)])
    /\ cips[NameOf(c)].resource = c.resource
    /\ cips[NameOf(c)].pool = p
    /\ cips[NameOf(c)].address = a

\* Only pools nobody has initialised wait for the controller.
ControllerInv ==
    /\ \A p \in queue : Uninitialised(pools[p]) /\ Exists(pools[p])
    /\ \A p \in handling : /\ p \notin queue
                           /\ Uninitialised(pools[p])
                           /\ Uninitialised(read)
                           /\ Snapshot(read, p)
    /\ \A p, q \in handling : p = q

\* The address a worker carries is the next one of the pool it has read.
Picked(w) ==
    /\ seen[w].free > 0
    /\ ~Exhausted(seen[w])
    /\ Balanced(seen[w], Capacity(pool[w]))
    /\ address[w] = FirstOffset(SpecOf[pool[w]].cidr) + seen[w].next

Job(w) ==
    /\ pc[w] \in {"create", "commit", "getReleased", "popReleased"} =>
          Snapshot(seen[w], pool[w])
    /\ pc[w] \in {"getReleased", "popReleased"} => seen[w].released # <<>>
    /\ pc[w] \in {"create", "commit"} => Picked(w)
    /\ pc[w] \in {"getPool", "commit"} => Recorded(claim[w], pool[w], address[w])
    /\ pc[w] = "commit" => NameOf(claim[w]) \notin committed

Jobs == \A w \in Workers : Job(w)

\* One worker at most is between the Create of a ClusterIP and its count.
OneCreator ==
    \A v, w \in Workers :
        /\ pc[v] = "commit" /\ pc[w] = "commit"
        /\ NameOf(claim[v]) = NameOf(claim[w])
        => v = w

\* A pool that does not exist counts nothing.
AbsentBlank == \A p \in Pools : ~Exists(pools[p]) => Uninitialised(pools[p])

\* The List of a claim finds nothing but the ClusterIP named after the claim.
SelectedNamed == \A c \in Claims : Selected(c) \subseteq {NameOf(c)}

\* An answer is backed by the ClusterIP of its claim.
AnswersBacked == \A a \in answers : Recorded(a.claim, a.pool, a.address)

CommittedExist == \A n \in committed : Exists(cips[n])

IInv ==
    /\ TypeOK
    /\ PoolAccounting
    /\ AbsentBlank
    /\ ControllerInv
    /\ Jobs
    /\ OneCreator
    /\ SelectedNamed
    /\ AddressUsable
    /\ CommittedExist
    /\ CommittedDistinct
    /\ CommittedContiguous
    /\ AnswersBacked

-----------------------------------------------------------------------------
(* Facts about the actions' parts. *)

LEMMA NameOfClaim ==
    ASSUME NEW c \in Claims
    PROVE  /\ NameOf(c) \in Names
           /\ c.resource \in Resources /\ c.iface \in Ifaces /\ c.family \in Families
BY ClaimsAssumption DEF NameOf, Names

\* Blank objects and CHOOSEn defaults have their types.
LEMMA Defaults ==
    /\ NoPool \in PoolObjects /\ Uninitialised(NoPool) /\ ~Exists(NoPool)
    /\ NoClaim \in Claims
    /\ NoChoice \in Pools
    /\ NoClusterIP \in ClusterIPs /\ ~Exists(NoClusterIP)
<1>1. NoClaim \in Claims
  BY ClaimsAssumption DEF NoClaim
<1>2. NoChoice \in Pools
  BY PoolsAssumption DEF NoChoice
<1>3. NoPool \in PoolObjects /\ Uninitialised(NoPool) /\ ~Exists(NoPool)
  BY DEF NoPool, PoolObjects, Uninitialised, Exists
<1>4. NoClusterIP \in ClusterIPs /\ ~Exists(NoClusterIP)
  <2>1. (CHOOSE r \in Resources : TRUE) \in Resources
    BY <1>1, ClaimsAssumption
  <2>2. (CHOOSE i \in Ifaces : TRUE) \in Ifaces
    BY <1>1, ClaimsAssumption
  <2>3. (CHOOSE p \in Pools : TRUE) \in Pools
    BY PoolsAssumption
  <2>4. QED
    BY <2>1, <2>2, <2>3 DEF NoClusterIP, ClusterIPs, Exists, Families, NoAddress
<1>5. QED
  BY <1>1, <1>2, <1>3, <1>4

\* Status().Update writes the object sent and takes the next version.
LEMMA StatusUpdated ==
    ASSUME pools \in [Pools -> PoolObjects], NEW p \in Pools,
           NEW object \in PoolObjects, StatusUpdate(p, object)
    PROVE  /\ pools' \in [Pools -> PoolObjects]
           /\ \A q \in Pools : q # p => pools'[q] = pools[q]
           /\ pools'[p].rv = pools[p].rv + 1
           /\ pools'[p].total = object.total
           /\ pools'[p].allocated = object.allocated
           /\ pools'[p].free = object.free
           /\ pools'[p].next = object.next
           /\ pools'[p].released = object.released
<1>1. pools[p].rv + 1 \in Nat
  BY DEF PoolObjects
<1>2. [object EXCEPT !.rv = pools[p].rv + 1] \in PoolObjects
  <2> DEFINE version == pools[p].rv + 1
  <2>1. version \in Nat
    BY <1>1
  <2> HIDE DEF version
  <2>2. [object EXCEPT !.rv = version] \in PoolObjects
    BY <2>1 DEF PoolObjects
  <2>3. QED
    BY <2>2 DEF version
<1>3. pools' = [pools EXCEPT ![p] = [object EXCEPT !.rv = pools[p].rv + 1]]
  BY DEF StatusUpdate
<1>4. pools'[p] = [object EXCEPT !.rv = pools[p].rv + 1]
  BY <1>3
<1>5. /\ pools' \in [Pools -> PoolObjects]
      /\ \A q \in Pools : q # p => pools'[q] = pools[q]
  BY <1>2, <1>3
<1>6. /\ pools'[p].rv = pools[p].rv + 1
      /\ pools'[p].total = object.total
      /\ pools'[p].allocated = object.allocated
      /\ pools'[p].free = object.free
      /\ pools'[p].next = object.next
      /\ pools'[p].released = object.released
  BY <1>4 DEF PoolObjects
<1>7. QED
  BY <1>5, <1>6

(***************************************************************************)
(* What a worker relies on survives any step that leaves the worker alone, *)
(* gives a changed pool a new version, and keeps the ClusterIPs there are. *)
(***************************************************************************)
LEMMA JobKept ==
    ASSUME IInv, TypeOK', NEW w \in Workers, Job(w),
           pc'[w] = pc[w], claim'[w] = claim[w], pool'[w] = pool[w],
           seen'[w] = seen[w], address'[w] = address[w],
           \A q \in Pools : pools'[q] = pools[q] \/ pools'[q].rv > pools[q].rv,
           \A n \in Names : Exists(cips[n]) => cips'[n] = cips[n],
           pc[w] = "commit" => NameOf(claim[w]) \notin committed'
    PROVE  Job(w)'
<1>1. /\ seen[w] \in PoolObjects /\ pool[w] \in Pools /\ claim[w] \in Claims
      /\ pools[pool[w]] \in PoolObjects /\ pools'[pool[w]] \in PoolObjects
  BY DEF IInv, TypeOK, IpamTypeOK, ApiTypeOK
<1>2. Snapshot(seen[w], pool[w]) => Snapshot(seen[w], pool[w])'
  <2>1. seen[w].rv \in Nat /\ pools[pool[w]].rv \in Nat /\ pools'[pool[w]].rv \in Nat
    BY <1>1 DEF PoolObjects
  <2>2. \/ pools'[pool[w]] = pools[pool[w]]
        \/ pools'[pool[w]].rv > pools[pool[w]].rv
    BY <1>1
  <2>3. QED
    BY <2>1, <2>2 DEF Snapshot, Exists
<1>3. Recorded(claim[w], pool[w], address[w]) => Recorded(claim[w], pool[w], address[w])'
  BY <1>1, NameOfClaim DEF Recorded, NameOf
<1>4. Picked(w) => Picked(w)'
  BY DEF Picked, Capacity
<1>5. QED
  BY <1>2, <1>3, <1>4 DEF Job, NameOf

\* Ending requests leaves nothing to rely on for their workers.
LEMMA EndTyped ==
    ASSUME TypeOK, NEW S, End(S)
    PROVE  /\ pc' \in [Workers -> Steps] /\ claim' \in [Workers -> Claims]
           /\ pool' \in [Workers -> Pools] /\ seen' \in [Workers -> PoolObjects]
           /\ address' \in [Workers -> Int]
           /\ \A w \in Workers : \/ pc'[w] = "idle"
                                 \/ /\ w \notin S /\ pc'[w] = pc[w]
                                    /\ claim'[w] = claim[w] /\ pool'[w] = pool[w]
                                    /\ seen'[w] = seen[w] /\ address'[w] = address[w]
BY Defaults DEF TypeOK, IpamTypeOK, End, Steps, NoAddress

LEMMA EndJobs ==
    ASSUME IInv, TypeOK', NEW S, End(S),
           \A q \in Pools : pools'[q] = pools[q] \/ pools'[q].rv > pools[q].rv,
           \A n \in Names : Exists(cips[n]) => cips'[n] = cips[n],
           \A w \in Workers \ S : pc[w] = "commit" => NameOf(claim[w]) \notin committed'
    PROVE  Jobs' /\ OneCreator'
<1>1. TypeOK
  BY DEF IInv
<1>2. ASSUME NEW w \in Workers PROVE Job(w)'
  <2>1. CASE pc'[w] = "idle"
    BY <2>1 DEF Job
  <2>2. CASE pc'[w] # "idle"
    <3>1. Job(w)
      BY DEF IInv, Jobs
    <3>2. QED
      BY <1>1, <2>2, <3>1, EndTyped, JobKept
  <2>3. QED
    BY <2>1, <2>2
<1>3. OneCreator'
  BY <1>1, EndTyped DEF IInv, OneCreator, NameOf
<1>4. QED
  BY <1>2, <1>3 DEF Jobs

\* A step that touches neither the API server nor the histories.
LEMMA QuietKeeps ==
    ASSUME IInv, UNCHANGED <<apiVars, answers, committed>>,
           TypeOK', ControllerInv', Jobs', OneCreator'
    PROVE  IInv'
<1>1. UNCHANGED <<pools, cips, answers, committed>>
  BY DEF apiVars
<1>2. PoolAccounting' /\ CommittedContiguous'
  BY <1>1 DEF IInv, PoolAccounting, CommittedContiguous, CommittedAddresses, Capacity
<1>3. SelectedNamed' /\ AddressUsable' /\ CommittedExist' /\ CommittedDistinct'
  BY <1>1 DEF IInv, SelectedNamed, Selected, NameOf, AddressUsable, CommittedExist,
              CommittedDistinct
<1>4. AnswersBacked'
  BY <1>1 DEF IInv, AnswersBacked, Recorded, NameOf
<1>5. AbsentBlank'
  BY <1>1 DEF IInv, AbsentBlank
<1>6. QED
  BY <1>2, <1>3, <1>4, <1>5 DEF IInv

\* The controller's reads stay good when nobody writes a pool.
LEMMA ControllerKept ==
    ASSUME IInv, UNCHANGED <<controllerVars, pools>>
    PROVE  ControllerTypeOK' /\ ControllerInv'
BY DEF IInv, TypeOK, ControllerTypeOK, ControllerInv, controllerVars, Snapshot

\* Requests end without any write: an error, or a daemon that went down.
LEMMA EndKeeps ==
    ASSUME IInv, NEW S, End(S), up' \in [Nodes -> BOOLEAN],
           UNCHANGED <<answers, committed, apiVars, controllerVars>>
    PROVE  IInv'
<1>1. UNCHANGED <<pools, cips>> /\ UNCHANGED <<controllerVars, pools>>
  BY DEF apiVars
<1>2. TypeOK /\ ControllerTypeOK' /\ ControllerInv'
  BY <1>1, ControllerKept DEF IInv
<1>3. TypeOK'
  BY <1>1, <1>2, EndTyped DEF TypeOK, ApiTypeOK, IpamTypeOK
<1>4. \A w \in Workers \ S : pc[w] = "commit" => NameOf(claim[w]) \notin committed'
  BY DEF IInv, Jobs, Job
<1>5. Jobs' /\ OneCreator'
  BY <1>1, <1>3, <1>4, EndJobs
<1>6. QED
  BY <1>2, <1>3, <1>5, QuietKeeps

LEMMA FailKeeps ==
    ASSUME IInv, NEW w \in Workers, Fail(w), UNCHANGED controllerVars
    PROVE  IInv'
<1>1. up' \in [Nodes -> BOOLEAN]
  BY DEF Fail, IInv, TypeOK, IpamTypeOK
<1>2. QED
  BY <1>1, EndKeeps DEF Fail

LEMMA StopKeeps ==
    ASSUME IInv, NEW n, StopDaemon(n),
           UNCHANGED <<answers, committed, apiVars, controllerVars>>
    PROVE  IInv'
<1>1. up' \in [Nodes -> BOOLEAN]
  BY DEF StopDaemon, IInv, TypeOK, IpamTypeOK
<1>2. QED
  BY <1>1, EndKeeps DEF StopDaemon

(***************************************************************************)
(* One worker moves on by a read: its own new state has to be justified,   *)
(* the others' is as it was.                                               *)
(***************************************************************************)
LEMMA ReadKeeps ==
    ASSUME IInv, NEW w \in Workers,
           UNCHANGED <<up, answers, committed, apiVars, controllerVars>>,
           pc' \in [Workers -> Steps], claim' \in [Workers -> Claims],
           pool' \in [Workers -> Pools], seen' \in [Workers -> PoolObjects],
           address' \in [Workers -> Int],
           \A v \in Workers \ {w} :
              /\ pc'[v] = pc[v] /\ claim'[v] = claim[v] /\ pool'[v] = pool[v]
              /\ seen'[v] = seen[v] /\ address'[v] = address[v],
           pc'[w] # "commit",
           Job(w)'
    PROVE  IInv'
<1>1. UNCHANGED <<pools, cips>> /\ UNCHANGED <<controllerVars, pools>>
  BY DEF apiVars
<1>2. ControllerTypeOK' /\ ControllerInv'
  BY <1>1, ControllerKept
<1>3. TypeOK'
  BY <1>1, <1>2 DEF IInv, TypeOK, ApiTypeOK, IpamTypeOK
<1>4. Jobs'
  <2>1. ASSUME NEW v \in Workers, v # w PROVE Job(v)'
    <3>1. Job(v) /\ (pc[v] = "commit" => NameOf(claim[v]) \notin committed')
      BY DEF IInv, Jobs, Job
    <3>2. QED
      BY <1>1, <1>3, <2>1, <3>1, JobKept
  <2>2. QED
    BY <2>1 DEF Jobs
<1>5. OneCreator'
  BY DEF IInv, OneCreator, NameOf
<1>6. QED
  BY <1>2, <1>3, <1>4, <1>5, QuietKeeps

-----------------------------------------------------------------------------
(* The initial states. *)

LEMMA InitIInv == Init => IInv
<1> SUFFICES ASSUME Init PROVE IInv
  OBVIOUS
<1> USE DEF Init, ApiInit, ControllerInit, IpamInit
<1>1. TypeOK
  <2>1. NoAddress \in Int
    BY DEF NoAddress
  <2>2. ApiTypeOK
    BY Defaults DEF ApiTypeOK
  <2>3. ControllerTypeOK
    BY Defaults DEF ControllerTypeOK
  <2>4. IpamTypeOK
    BY <2>1, Defaults DEF IpamTypeOK, Steps
  <2>5. QED
    BY <2>2, <2>3, <2>4 DEF TypeOK
<1>2. PoolAccounting /\ AbsentBlank
  BY Defaults DEF PoolAccounting, AbsentBlank
<1>3. ControllerInv /\ OneCreator
  BY DEF ControllerInv, OneCreator
<1>4. Jobs
  BY DEF Jobs, Job
<1>5. SelectedNamed /\ AddressUsable
  BY Defaults DEF SelectedNamed, Selected, AddressUsable
<1>6. CommittedExist /\ CommittedDistinct /\ AnswersBacked
  BY DEF CommittedExist, CommittedDistinct, AnswersBacked
<1>7. CommittedContiguous
  <2> SUFFICES ASSUME NEW p \in Pools
               PROVE  CommittedAddresses(p)
                        = FirstOffset(SpecOf[p].cidr)
                            .. FirstOffset(SpecOf[p].cidr) + pools[p].allocated - 1
    BY DEF CommittedContiguous
  <2>1. pools[p].allocated = 0 /\ CommittedAddresses(p) = {}
    BY DEF NoPool, CommittedAddresses
  <2>2. FirstOffset(SpecOf[p].cidr) \in Int
    BY DEF FirstOffset
  <2>3. QED
    BY <2>1, <2>2
<1>8. QED
  BY <1>1, <1>2, <1>3, <1>4, <1>5, <1>6, <1>7 DEF IInv

-----------------------------------------------------------------------------
(* Steps of the controller that write nothing. *)

LEMMA ControllerOnly ==
    ASSUME IInv, UNCHANGED <<ipamVars, apiVars>>, ControllerTypeOK', ControllerInv'
    PROVE  IInv'
<1>1. UNCHANGED <<pools, cips, up, pc, claim, pool, seen, address, answers, committed>>
  BY DEF apiVars, ipamVars, jobVars
<1>2. TypeOK'
  BY <1>1 DEF IInv, TypeOK, ApiTypeOK, IpamTypeOK
<1>3. ASSUME NEW w \in Workers PROVE Job(w)'
  <2>1. Job(w) /\ (pc[w] = "commit" => NameOf(claim[w]) \notin committed')
    BY <1>1 DEF IInv, Jobs, Job
  <2>2. QED
    BY <1>1, <1>2, <2>1, JobKept
<1>4. Jobs' /\ OneCreator'
  BY <1>1, <1>3 DEF IInv, Jobs, OneCreator, NameOf
<1>5. QED
  BY <1>1, <1>2, <1>4, QuietKeeps

LEMMA ControllerReads ==
    ASSUME IInv, UNCHANGED ipamVars, NEW p \in Pools,
           \/ StartController \/ CrashController \/ GetAddedPool(p)
           \/ UpdatePoolConflict(p) \/ ControllerCallFails(p)
    PROVE  IInv'
<1> USE DEF apiVars
<1>1. CASE StartController
  <2>1. queue' = {} /\ UNCHANGED <<handling, read, pools>>
    BY <1>1 DEF StartController, Handles
  <2>2. ControllerTypeOK' /\ ControllerInv'
    BY <1>1, <2>1 DEF IInv, TypeOK, ControllerTypeOK, ControllerInv, StartController, Snapshot
  <2>3. QED
    BY <1>1, <2>2, ControllerOnly DEF StartController
<1>2. CASE CrashController
  <2>1. ControllerTypeOK' /\ ControllerInv'
    BY <1>2, Defaults DEF ControllerTypeOK, ControllerInv, CrashController
  <2>2. QED
    BY <1>2, <2>1, ControllerOnly DEF CrashController
<1>3. CASE GetAddedPool(p)
  <2>1. pools[p] \in PoolObjects
    BY DEF IInv, TypeOK, ApiTypeOK
  <2>2. ControllerTypeOK'
    BY <1>3, <2>1 DEF IInv, TypeOK, ControllerTypeOK, GetAddedPool
  <2>3. Uninitialised(pools[p]) /\ Exists(pools[p])
    BY <1>3 DEF IInv, ControllerInv, GetAddedPool
  <2>4. ControllerInv'
    BY <1>3, <2>1, <2>3 DEF IInv, ControllerInv, GetAddedPool, Snapshot, PoolObjects
  <2>5. QED
    BY <1>3, <2>2, <2>4, ControllerOnly DEF GetAddedPool
<1>4. CASE UpdatePoolConflict(p)
  <2>1. ControllerTypeOK' /\ ControllerInv'
    BY <1>4, Defaults DEF IInv, TypeOK, ControllerTypeOK, ControllerInv,
                         UpdatePoolConflict, EndHandler
  <2>2. QED
    BY <1>4, <2>1, ControllerOnly DEF UpdatePoolConflict
<1>5. CASE ControllerCallFails(p)
  <2>1. ControllerTypeOK' /\ ControllerInv'
    BY <1>5, Defaults DEF IInv, TypeOK, ControllerTypeOK, ControllerInv,
                         ControllerCallFails, EndHandler, Snapshot
  <2>2. QED
    BY <1>5, <2>1, ControllerOnly DEF ControllerCallFails
<1>6. QED
  BY <1>1, <1>2, <1>3, <1>4, <1>5

-----------------------------------------------------------------------------
(* Steps that write a pool without counting an allocation. *)

LEMMA WriteKeeps ==
    ASSUME IInv, NEW p \in Pools,
           UNCHANGED <<cips, answers, committed>>,
           \A q \in Pools : q # p => pools'[q] = pools[q],
           pools'[p].allocated = pools[p].allocated, Exists(pools'[p]),
           Uninitialised(pools'[p]) \/ Balanced(pools'[p], Capacity(p)),
           TypeOK', ControllerInv', Jobs', OneCreator'
    PROVE  IInv'
<1>1. PoolAccounting'
  BY DEF IInv, PoolAccounting, Capacity
<1>2. CommittedContiguous'
  BY DEF IInv, CommittedContiguous, CommittedAddresses
<1>3. SelectedNamed' /\ AddressUsable' /\ CommittedExist' /\ CommittedDistinct'
  BY DEF IInv, SelectedNamed, Selected, NameOf, AddressUsable, CommittedExist, CommittedDistinct
<1>4. AnswersBacked'
  BY DEF IInv, AnswersBacked, Recorded, NameOf
<1>5. AbsentBlank'
  BY DEF IInv, AbsentBlank
<1>6. QED
  BY <1>1, <1>2, <1>3, <1>4, <1>5 DEF IInv

\* Workers that a write of another process does not touch.
LEMMA JobsKept ==
    ASSUME IInv, TypeOK', UNCHANGED <<cips, ipamVars>>,
           \A q \in Pools : pools'[q] = pools[q] \/ pools'[q].rv > pools[q].rv
    PROVE  Jobs' /\ OneCreator'
<1>1. UNCHANGED <<pc, claim, pool, seen, address, committed>>
  BY DEF ipamVars, jobVars
<1>2. ASSUME NEW w \in Workers PROVE Job(w)'
  <2>1. Job(w) /\ (pc[w] = "commit" => NameOf(claim[w]) \notin committed')
    BY <1>1 DEF IInv, Jobs, Job
  <2>2. QED
    BY <1>1, <2>1, JobKept
<1>3. QED
  BY <1>1, <1>2 DEF IInv, Jobs, OneCreator, NameOf

LEMMA PoolAddedKeeps ==
    ASSUME IInv, NEW p \in Pools, PoolAdded(p), UNCHANGED ipamVars
    PROVE  IInv'
<1>1. /\ pools' = [pools EXCEPT ![p] = [NoPool EXCEPT !.rv = 1]]
      /\ ~Exists(pools[p])
      /\ UNCHANGED <<cips, alive, handling, read>>
      /\ queue' \subseteq queue \cup {p}
  BY DEF PoolAdded, CreatePool
<1>2. /\ pools \in [Pools -> PoolObjects] /\ pools[p] \in PoolObjects
      /\ queue \subseteq Pools /\ handling \subseteq Pools /\ read \in PoolObjects
      /\ \A q \in Pools : pools[q] \in PoolObjects
  BY DEF IInv, TypeOK, ApiTypeOK, ControllerTypeOK
<1>3. [NoPool EXCEPT !.rv = 1] \in PoolObjects
  <2>1. \A o \in PoolObjects : [o EXCEPT !.rv = 1] \in PoolObjects
    BY DEF PoolObjects
  <2>2. QED
    BY <2>1, Defaults
<1>4. /\ pools'[p] = [NoPool EXCEPT !.rv = 1]
      /\ \A q \in Pools : q # p => pools'[q] = pools[q]
      /\ pools' \in [Pools -> PoolObjects]
  BY <1>1, <1>2, <1>3
<1>5. /\ Uninitialised(pools'[p]) /\ Exists(pools'[p])
      /\ pools'[p].rv > pools[p].rv
      /\ pools'[p].allocated = pools[p].allocated
  <2>1. pools[p].rv = 0 /\ pools[p].allocated = 0
    BY <1>1, <1>2 DEF Exists, PoolObjects, IInv, AbsentBlank, Uninitialised
  <2>2. pools'[p].rv = 1 /\ pools'[p].allocated = 0 /\ Uninitialised(pools'[p])
    BY <1>4 DEF NoPool, Uninitialised
  <2>3. QED
    BY <2>1, <2>2 DEF Exists
<1>6. p \notin handling
  <2>1. ASSUME p \in handling PROVE FALSE
    <3>1. Snapshot(read, p)
      BY <2>1 DEF IInv, ControllerInv
    <3>2. read.rv \in Nat /\ pools[p].rv \in Nat
      BY <1>2 DEF PoolObjects
    <3>3. QED
      BY <1>1, <3>1, <3>2 DEF Snapshot, Exists
  <2>2. QED
    BY <2>1
<1>7. TypeOK'
  BY <1>1, <1>2, <1>4 DEF IInv, TypeOK, ApiTypeOK, ControllerTypeOK, IpamTypeOK,
                          ipamVars, jobVars
<1>8. ControllerInv'
  BY <1>1, <1>4, <1>5, <1>6, <1>2 DEF IInv, ControllerInv, Snapshot
<1>9. Jobs' /\ OneCreator'
  BY <1>1, <1>4, <1>5, <1>7, JobsKept
<1>10. QED
  BY <1>1, <1>4, <1>5, <1>7, <1>8, <1>9, WriteKeeps DEF ipamVars

\* What the controller computes for a pool it read blank.
LEMMA ObservedBalanced ==
    ASSUME NEW p \in Pools, NEW object \in PoolObjects, Uninitialised(object)
    PROVE  /\ ObservedStatus(p, object) \in PoolObjects
           /\ ObservedStatus(p, object).allocated = 0
           /\ ObservedStatus(p, object).released = object.released
           /\ \/ Uninitialised(ObservedStatus(p, object))
              \/ Balanced(ObservedStatus(p, object), Capacity(p))
<1> DEFINE count == CountUsableIPs(SpecOf[p].cidr)
<1>1. count \in Nat /\ count = Capacity(p)
  BY SpecAssumption, CapacityNat DEF Capacity
<1> HIDE DEF count
<1>2. CASE Parses(SpecOf[p].cidr)
  <2>1. ObservedStatus(p, object) = [object EXCEPT !.total = count, !.free = count]
    BY <1>2 DEF ObservedStatus, count
  <2>2. [object EXCEPT !.total = count, !.free = count] \in PoolObjects
    <3>1. count \in Nat /\ count \in Int
      BY <1>1
    <3>2. QED
      BY <3>1 DEF PoolObjects
  <2>3. /\ ObservedStatus(p, object).total = count
        /\ ObservedStatus(p, object).free = count
        /\ ObservedStatus(p, object).allocated = 0
        /\ ObservedStatus(p, object).next = 0
        /\ ObservedStatus(p, object).released = object.released
    BY <2>1 DEF PoolObjects, Uninitialised
  <2>4. Balanced(ObservedStatus(p, object), count)
    BY <1>1, <2>3 DEF Balanced
  <2>5. QED
    BY <1>1, <2>1, <2>2, <2>3, <2>4
<1>3. CASE ~Parses(SpecOf[p].cidr)
  <2>1. ObservedStatus(p, object) = [object EXCEPT !.invalid = TRUE]
    BY <1>3 DEF ObservedStatus
  <2>2. [object EXCEPT !.invalid = TRUE] \in PoolObjects
    BY DEF PoolObjects
  <2>3. /\ ObservedStatus(p, object).allocated = 0
        /\ ObservedStatus(p, object).released = object.released
        /\ Uninitialised(ObservedStatus(p, object))
    BY <2>1 DEF PoolObjects, Uninitialised
  <2>4. QED
    BY <2>1, <2>2, <2>3
<1>4. QED
  BY <1>2, <1>3

LEMMA UpdatePoolStatusKeeps ==
    ASSUME IInv, NEW p \in Pools, UpdatePoolStatus(p), UNCHANGED ipamVars
    PROVE  IInv'
<1>1. /\ p \in handling /\ Fresh(pools[p], read)
      /\ handling' = {} /\ read' = NoPool
      /\ UNCHANGED <<cips, alive, queue, answers, committed>>
  BY DEF UpdatePoolStatus, EndHandler, ipamVars
<1>2. /\ pools \in [Pools -> PoolObjects] /\ pools[p] \in PoolObjects
      /\ pools[p].rv \in Nat /\ read \in PoolObjects
      /\ \A q \in Pools : pools[q] \in PoolObjects
  BY DEF IInv, TypeOK, ApiTypeOK, ControllerTypeOK, PoolObjects
<1>3. /\ read = pools[p] /\ Uninitialised(read) /\ Exists(read)
      /\ p \notin queue /\ pools[p].allocated = 0
  BY <1>1 DEF IInv, ControllerInv, Snapshot, Fresh, Uninitialised
<1>4. /\ pools' \in [Pools -> PoolObjects]
      /\ \A q \in Pools : q # p => pools'[q] = pools[q]
      /\ pools'[p] = pools[p] \/ pools'[p].rv > pools[p].rv
      /\ pools'[p].allocated = pools[p].allocated
      /\ Exists(pools'[p])
      /\ Uninitialised(pools'[p]) \/ Balanced(pools'[p], Capacity(p))
  <2>1. CASE UNCHANGED pools
    BY <2>1, <1>2, <1>3
  <2>2. CASE StatusUpdate(p, ObservedStatus(p, read))
    <3> DEFINE object == ObservedStatus(p, read)
    <3>1. /\ object \in PoolObjects /\ object.allocated = 0
          /\ Uninitialised(object) \/ Balanced(object, Capacity(p))
      BY <1>2, <1>3, ObservedBalanced
    <3> HIDE DEF object
    <3>2. StatusUpdate(p, object)
      BY <2>2 DEF object
    <3>3. /\ pools' \in [Pools -> PoolObjects]
          /\ \A q \in Pools : q # p => pools'[q] = pools[q]
          /\ pools'[p].rv = pools[p].rv + 1
          /\ pools'[p].total = object.total /\ pools'[p].allocated = object.allocated
          /\ pools'[p].free = object.free /\ pools'[p].next = object.next
      BY <1>2, <3>1, <3>2, StatusUpdated
    <3>4. Uninitialised(pools'[p]) \/ Balanced(pools'[p], Capacity(p))
      BY <3>1, <3>3 DEF Uninitialised, Balanced, Exhausted
    <3>5. QED
      BY <1>2, <1>3, <3>1, <3>3, <3>4 DEF Exists
  <2>3. QED
    BY <2>1, <2>2 DEF UpdatePoolStatus
<1>5. TypeOK'
  BY <1>1, <1>4, Defaults DEF IInv, TypeOK, ApiTypeOK, ControllerTypeOK, IpamTypeOK,
                              ipamVars, jobVars
<1>6. ControllerInv'
  BY <1>1, <1>3, <1>4 DEF IInv, TypeOK, ControllerTypeOK, ControllerInv
<1>7. Jobs' /\ OneCreator'
  BY <1>1, <1>4, <1>5, JobsKept
<1>8. QED
  BY <1>1, <1>4, <1>5, <1>6, <1>7, WriteKeeps

\* A write that changes nothing but releasedClusterIPs.
LEMMA ReleasedWritten ==
    ASSUME IInv, NEW p \in Pools, NEW list \in Seq(Names), Exists(pools[p]),
           StatusUpdate(p, [pools[p] EXCEPT !.released = list])
    PROVE  /\ pools' \in [Pools -> PoolObjects]
           /\ \A q \in Pools : q # p => pools'[q] = pools[q]
           /\ pools'[p].rv > pools[p].rv
           /\ pools'[p].allocated = pools[p].allocated
           /\ pools'[p].free = pools[p].free
           /\ pools'[p].next = pools[p].next
           /\ pools'[p].released = list
           /\ Exists(pools'[p])
           /\ Uninitialised(pools[p]) => Uninitialised(pools'[p])
           /\ Uninitialised(pools'[p]) \/ Balanced(pools'[p], Capacity(p))
<1> DEFINE object == [pools[p] EXCEPT !.released = list]
<1>1. /\ pools \in [Pools -> PoolObjects] /\ pools[p] \in PoolObjects
      /\ pools[p].rv \in Nat
      /\ Uninitialised(pools[p]) \/ Balanced(pools[p], Capacity(p))
  BY DEF IInv, TypeOK, ApiTypeOK, PoolObjects, PoolAccounting
<1>2. /\ object \in PoolObjects
      /\ object.total = pools[p].total /\ object.allocated = pools[p].allocated
      /\ object.free = pools[p].free /\ object.next = pools[p].next
      /\ object.released = list
  BY <1>1 DEF PoolObjects
<1> HIDE DEF object
<1>3. StatusUpdate(p, object)
  BY DEF object
<1>4. /\ pools' \in [Pools -> PoolObjects]
      /\ \A q \in Pools : q # p => pools'[q] = pools[q]
      /\ pools'[p].rv = pools[p].rv + 1
      /\ pools'[p].total = pools[p].total /\ pools'[p].allocated = pools[p].allocated
      /\ pools'[p].free = pools[p].free /\ pools'[p].next = pools[p].next
      /\ pools'[p].released = list
  BY <1>1, <1>2, <1>3, StatusUpdated
<1>5. /\ Uninitialised(pools[p]) => Uninitialised(pools'[p])
      /\ Balanced(pools[p], Capacity(p)) => Balanced(pools'[p], Capacity(p))
  BY <1>4 DEF Uninitialised, Balanced, Exhausted
<1>6. QED
  BY <1>1, <1>4, <1>5 DEF Exists

LEMMA ReleasedByHandKeeps ==
    ASSUME IInv, ReleasedByHand
    PROVE  IInv'
<1>1. PICK p \in Pools, n \in Names : ReleaseByHand(p, n)
  BY DEF ReleasedByHand
<1>2. UNCHANGED <<cips, controllerVars, ipamVars>>
  BY <1>1 DEF ReleasedByHand, ReleaseByHand
<1>3. Append(pools[p].released, n) \in Seq(Names)
  BY DEF IInv, TypeOK, ApiTypeOK, PoolObjects
<1>4. /\ pools' \in [Pools -> PoolObjects]
      /\ \A q \in Pools : q # p => pools'[q] = pools[q]
      /\ pools'[p].rv > pools[p].rv
      /\ pools'[p].allocated = pools[p].allocated
      /\ Exists(pools'[p])
      /\ Uninitialised(pools[p]) => Uninitialised(pools'[p])
      /\ Uninitialised(pools'[p]) \/ Balanced(pools'[p], Capacity(p))
  BY <1>1, <1>3, ReleasedWritten DEF ReleaseByHand
<1>5. TypeOK'
  BY <1>2, <1>4 DEF IInv, TypeOK, ApiTypeOK, ControllerTypeOK, IpamTypeOK,
                    controllerVars, ipamVars, jobVars
<1>6. ControllerInv'
  <2>1. \A q \in Pools : pools[q].rv \in Nat /\ pools'[q].rv \in Nat
    BY <1>4 DEF IInv, TypeOK, ApiTypeOK, PoolObjects
  <2>2. read.rv \in Nat /\ handling \subseteq Pools /\ queue \subseteq Pools
    BY DEF IInv, TypeOK, ControllerTypeOK, PoolObjects
  <2>3. \A q \in handling : Snapshot(read, q)'
    BY <1>2, <1>4, <2>1, <2>2 DEF IInv, ControllerInv, Snapshot, controllerVars, Exists
  <2>4. QED
    BY <1>2, <1>4, <2>2, <2>3 DEF IInv, ControllerInv, controllerVars
<1>7. Jobs' /\ OneCreator'
  BY <1>2, <1>4, <1>5, JobsKept
<1>8. UNCHANGED <<cips, answers, committed>>
  BY <1>2 DEF ipamVars
<1>9. QED
  BY <1>4, <1>5, <1>6, <1>7, <1>8, WriteKeeps

-----------------------------------------------------------------------------
(* Steps of the allocator. *)

\* Where a worker's variables live.
LEMMA WorkerTypes ==
    ASSUME IInv
    PROVE  /\ pools \in [Pools -> PoolObjects] /\ cips \in [Names -> ClusterIPs]
           /\ up \in [Nodes -> BOOLEAN]
           /\ pc \in [Workers -> Steps] /\ claim \in [Workers -> Claims]
           /\ pool \in [Workers -> Pools] /\ seen \in [Workers -> PoolObjects]
           /\ address \in [Workers -> Int]
           /\ answers \subseteq Answers /\ committed \subseteq Names
BY DEF IInv, TypeOK, ApiTypeOK, IpamTypeOK

LEMMA FindClusterIPKeeps ==
    ASSUME IInv, NEW w \in Workers, NEW c \in Claims, FindClusterIP(w, c),
           UNCHANGED controllerVars
    PROVE  IInv'
<1>1. PICK n \in Selected(c) :
          /\ pool' = [pool EXCEPT ![w] = cips[n].pool]
          /\ address' = [address EXCEPT ![w] = cips[n].address]
  BY DEF FindClusterIP
<1>2. /\ pc' = [pc EXCEPT ![w] = "getPool"]
      /\ claim' = [claim EXCEPT ![w] = c]
      /\ UNCHANGED <<up, seen, answers, committed, apiVars>>
  BY DEF FindClusterIP, Go
<1>3. /\ n \in Names /\ Exists(cips[n])
      /\ cips[n].resource = c.resource /\ cips[n].iface = c.iface
      /\ cips[n].pool \in Pools /\ cips[n].address \in Int
  BY WorkerTypes DEF Selected, ClusterIPs
<1>4. n = NameOf(c)
  BY <1>1 DEF IInv, SelectedNamed
<1>5. /\ pc' \in [Workers -> Steps] /\ claim' \in [Workers -> Claims]
      /\ pool' \in [Workers -> Pools] /\ seen' \in [Workers -> PoolObjects]
      /\ address' \in [Workers -> Int]
  BY <1>1, <1>2, <1>3, WorkerTypes DEF Steps
<1>6. Job(w)'
  <2>1. pc'[w] = "getPool" /\ claim'[w] = c /\ pool'[w] = cips[n].pool
        /\ address'[w] = cips[n].address /\ UNCHANGED cips
    BY <1>1, <1>2, WorkerTypes DEF apiVars
  <2>2. Recorded(claim[w], pool[w], address[w])'
    BY <1>3, <1>4, <2>1 DEF Recorded, NameOf
  <2>3. QED
    BY <2>1, <2>2 DEF Job
<1>7. \A v \in Workers \ {w} :
          /\ pc'[v] = pc[v] /\ claim'[v] = claim[v] /\ pool'[v] = pool[v]
          /\ seen'[v] = seen[v] /\ address'[v] = address[v]
  BY <1>1, <1>2, WorkerTypes
<1>8. pc'[w] # "commit"
  BY <1>2, WorkerTypes
<1>9. QED
  BY <1>2, <1>5, <1>6, <1>7, <1>8, ReadKeeps

LEMMA MissClusterIPKeeps ==
    ASSUME IInv, NEW w \in Workers, NEW c \in Claims, MissClusterIP(w, c),
           UNCHANGED controllerVars
    PROVE  IInv'
<1>1. /\ pc' = [pc EXCEPT ![w] = "pick"]
      /\ claim' = [claim EXCEPT ![w] = c]
      /\ UNCHANGED <<up, pool, seen, address, answers, committed, apiVars>>
  BY DEF MissClusterIP, Go
<1>2. /\ pc' \in [Workers -> Steps] /\ claim' \in [Workers -> Claims]
      /\ pool' \in [Workers -> Pools] /\ seen' \in [Workers -> PoolObjects]
      /\ address' \in [Workers -> Int]
  BY <1>1, WorkerTypes DEF Steps
<1>3. pc'[w] = "pick"
  BY <1>1, WorkerTypes
<1>4. Job(w)'
  BY <1>3 DEF Job
<1>5. \A v \in Workers \ {w} : pc'[v] = pc[v] /\ claim'[v] = claim[v]
  BY <1>1, WorkerTypes
<1>6. QED
  BY <1>1, <1>2, <1>3, <1>4, <1>5, ReadKeeps

LEMMA PickFreshKeeps ==
    ASSUME IInv, NEW w \in Workers, NEW p \in Pools, PickFresh(w, p),
           UNCHANGED controllerVars
    PROVE  IInv'
<1> DEFINE picked == PickUsableIPFromCIDRIndex(SpecOf[p].cidr, pools[p].next)
<1>1. CASE picked = NoAddress
  BY <1>1, FailKeeps DEF PickFresh
<1>2. CASE picked # NoAddress
  <2>1. /\ pc' = [pc EXCEPT ![w] = "create"]
        /\ pool' = [pool EXCEPT ![w] = p]
        /\ seen' = [seen EXCEPT ![w] = pools[p]]
        /\ address' = [address EXCEPT ![w] = picked]
        /\ UNCHANGED <<up, claim, answers, committed, apiVars>>
    BY <1>2 DEF PickFresh, Go
  <2>2. /\ Exists(pools[p]) /\ pools[p].free > 0 /\ ~Exhausted(pools[p])
        /\ pools[p] \in PoolObjects /\ SpecOf[p].cidr \in CIDRs
    BY SpecAssumption, WorkerTypes DEF PickFresh, EmptyPool, FreePools
  <2>3. Balanced(pools[p], Capacity(p))
    BY <2>2 DEF IInv, PoolAccounting, Uninitialised
  <2>4. pools[p].next \in Nat /\ pools[p].next < Capacity(p) /\ pools[p].rv \in Nat
    BY <2>2, <2>3, NextIsAllocated, CapacityNat DEF Capacity, PoolObjects
  <2>5. picked = FirstOffset(SpecOf[p].cidr) + pools[p].next
    BY <2>2, <2>4, PickUsable DEF Capacity
  <2>6. picked \in Int
    BY <2>4, <2>5 DEF FirstOffset
  <2> HIDE DEF picked
  <2>7. /\ pc' \in [Workers -> Steps] /\ claim' \in [Workers -> Claims]
        /\ pool' \in [Workers -> Pools] /\ seen' \in [Workers -> PoolObjects]
        /\ address' \in [Workers -> Int]
    BY <2>1, <2>2, <2>6, WorkerTypes DEF Steps
  <2>8. /\ pc'[w] = "create" /\ pool'[w] = p /\ seen'[w] = pools[p]
        /\ address'[w] = picked /\ UNCHANGED pools
    BY <2>1, WorkerTypes DEF apiVars
  <2>9. Job(w)'
    <3>1. Snapshot(seen[w], pool[w])'
      BY <2>2, <2>4, <2>8 DEF Snapshot, Exists
    <3>2. Picked(w)'
      BY <2>2, <2>3, <2>5, <2>8 DEF Picked, Capacity
    <3>3. QED
      BY <2>8, <3>1, <3>2 DEF Job
  <2>10. \A v \in Workers \ {w} :
            /\ pc'[v] = pc[v] /\ claim'[v] = claim[v] /\ pool'[v] = pool[v]
            /\ seen'[v] = seen[v] /\ address'[v] = address[v]
    BY <2>1, WorkerTypes
  <2>11. QED
    BY <2>1, <2>7, <2>8, <2>9, <2>10, ReadKeeps
<1>3. QED
  BY <1>1, <1>2

LEMMA PickReleasedKeeps ==
    ASSUME IInv, NEW w \in Workers, NEW p \in Pools, PickReleased(w, p),
           UNCHANGED controllerVars
    PROVE  IInv'
<1>1. /\ pc' = [pc EXCEPT ![w] = "getReleased"]
      /\ pool' = [pool EXCEPT ![w] = p]
      /\ seen' = [seen EXCEPT ![w] = pools[p]]
      /\ UNCHANGED <<up, claim, address, answers, committed, apiVars>>
  BY DEF PickReleased, Go
<1>2. /\ Exists(pools[p]) /\ pools[p].released # <<>>
      /\ pools[p] \in PoolObjects /\ pools[p].rv \in Nat
  BY WorkerTypes DEF PickReleased, EmptyPool, FreePools, PoolObjects
<1>3. /\ pc' \in [Workers -> Steps] /\ claim' \in [Workers -> Claims]
      /\ pool' \in [Workers -> Pools] /\ seen' \in [Workers -> PoolObjects]
      /\ address' \in [Workers -> Int]
  BY <1>1, <1>2, WorkerTypes DEF Steps
<1>4. pc'[w] = "getReleased" /\ pool'[w] = p /\ seen'[w] = pools[p] /\ UNCHANGED pools
  BY <1>1, WorkerTypes DEF apiVars
<1>5. Job(w)'
  <2>1. Snapshot(seen[w], pool[w])'
    BY <1>2, <1>4 DEF Snapshot, Exists
  <2>2. QED
    BY <1>2, <1>4, <2>1 DEF Job
<1>6. \A v \in Workers \ {w} :
          pc'[v] = pc[v] /\ pool'[v] = pool[v] /\ seen'[v] = seen[v]
  BY <1>1, WorkerTypes
<1>7. QED
  BY <1>1, <1>3, <1>4, <1>5, <1>6, ReadKeeps

LEMMA GetReleasedKeeps ==
    ASSUME IInv, NEW w \in Workers, GetReleased(w), UNCHANGED controllerVars
    PROVE  IInv'
<1>1. CASE Fail(w)
  BY <1>1, FailKeeps
<1>2. CASE /\ Go(w, "popReleased")
           /\ UNCHANGED <<up, claim, pool, seen, address, answers, committed, apiVars>>
  <2>1. pc[w] = "getReleased" /\ pc' = [pc EXCEPT ![w] = "popReleased"]
    BY <1>2 DEF GetReleased, Go
  <2>2. /\ pc' \in [Workers -> Steps] /\ claim' \in [Workers -> Claims]
        /\ pool' \in [Workers -> Pools] /\ seen' \in [Workers -> PoolObjects]
        /\ address' \in [Workers -> Int]
    BY <1>2, <2>1, WorkerTypes DEF Steps
  <2>3. pc'[w] = "popReleased" /\ \A v \in Workers \ {w} : pc'[v] = pc[v]
    BY <2>1, WorkerTypes
  <2>4. Job(w)'
    <3>1. Snapshot(seen[w], pool[w]) /\ seen[w].released # <<>>
      BY <2>1 DEF IInv, Jobs, Job
    <3>2. QED
      BY <1>2, <2>3, <3>1 DEF Job, Snapshot, apiVars
  <2>5. QED
    BY <1>2, <2>2, <2>3, <2>4, ReadKeeps
<1>3. QED
  BY <1>1, <1>2 DEF GetReleased

LEMMA RestartDaemonKeeps ==
    ASSUME IInv, NEW n \in Nodes, RestartDaemon(n), UNCHANGED controllerVars
    PROVE  IInv'
<1>1. /\ UNCHANGED <<pools, cips, pc, claim, pool, seen, address, answers, committed>>
      /\ UNCHANGED <<controllerVars, pools>>
      /\ up' \in [Nodes -> BOOLEAN]
  BY WorkerTypes DEF RestartDaemon, jobVars, apiVars
<1>2. ControllerTypeOK' /\ ControllerInv'
  BY <1>1, ControllerKept
<1>3. TypeOK'
  BY <1>1, <1>2 DEF IInv, TypeOK, ApiTypeOK, IpamTypeOK
<1>4. ASSUME NEW w \in Workers PROVE Job(w)'
  <2>1. Job(w) /\ (pc[w] = "commit" => NameOf(claim[w]) \notin committed')
    BY <1>1 DEF IInv, Jobs, Job
  <2>2. QED
    BY <1>1, <1>3, <2>1, JobKept
<1>5. Jobs' /\ OneCreator'
  BY <1>1, <1>4 DEF IInv, Jobs, OneCreator, NameOf
<1>6. QED
  BY <1>1, <1>2, <1>3, <1>5, QuietKeeps DEF apiVars

LEMMA GetPoolKeeps ==
    ASSUME IInv, NEW w \in Workers, GetPool(w), UNCHANGED controllerVars
    PROVE  IInv'
<1> DEFINE answer == [claim |-> claim[w], pool |-> pool[w], address |-> address[w]]
<1>1. /\ answers' = answers \cup {answer}
      /\ UNCHANGED <<up, committed, pools, cips>>
      /\ UNCHANGED <<controllerVars, pools>>
      /\ End({w})
  BY DEF GetPool, Answer, apiVars
<1>2. TypeOK /\ ControllerTypeOK' /\ ControllerInv'
  BY <1>1, ControllerKept DEF IInv
<1>3. answer \in Answers
  BY WorkerTypes DEF Answers
<1>4. Recorded(answer.claim, answer.pool, answer.address)
  BY DEF GetPool, IInv, Jobs, Job
<1> HIDE DEF answer
<1>5. TypeOK'
  BY <1>1, <1>2, <1>3, EndTyped DEF TypeOK, ApiTypeOK, IpamTypeOK
<1>6. Jobs' /\ OneCreator'
  <2>1. \A v \in Workers \ {w} : pc[v] = "commit" => NameOf(claim[v]) \notin committed'
    BY <1>1 DEF IInv, Jobs, Job
  <2>2. QED
    BY <1>1, <1>5, <2>1, EndJobs
<1>7. PoolAccounting' /\ AbsentBlank' /\ CommittedContiguous'
  BY <1>1 DEF IInv, PoolAccounting, AbsentBlank, CommittedContiguous,
              CommittedAddresses, Capacity
<1>8. SelectedNamed' /\ AddressUsable' /\ CommittedExist' /\ CommittedDistinct'
  BY <1>1 DEF IInv, SelectedNamed, Selected, NameOf, AddressUsable, CommittedExist,
              CommittedDistinct
<1>9. AnswersBacked'
  BY <1>1, <1>4 DEF IInv, AnswersBacked, Recorded, NameOf
<1>10. QED
  BY <1>2, <1>5, <1>6, <1>7, <1>8, <1>9 DEF IInv

(***************************************************************************)
(* The Create: a new ClusterIP with an address of the pool the worker has  *)
(* read; it owns the name until it is counted or given up.                 *)
(***************************************************************************)
LEMMA CreateClusterIPKeeps ==
    ASSUME IInv, NEW w \in Workers, CreateClusterIP(w), UNCHANGED controllerVars
    PROVE  IInv'
<1> DEFINE n == NameOf(claim[w])
           cip == [rv |-> 1, pool |-> pool[w], address |-> address[w],
                   resource |-> claim[w].resource, iface |-> claim[w].iface,
                   family |-> claim[w].family]
<1>1. /\ pc[w] = "create" /\ ~Exists(cips[n])
      /\ cips' = [cips EXCEPT ![n] = cip]
      /\ pc' = [pc EXCEPT ![w] = "commit"]
      /\ UNCHANGED <<up, claim, pool, seen, address, answers, committed, pools>>
      /\ UNCHANGED <<controllerVars, pools>>
  BY DEF CreateClusterIP, Go
<1>2. /\ claim[w] \in Claims /\ n \in Names
      /\ claim[w].resource \in Resources /\ claim[w].iface \in Ifaces
      /\ claim[w].family \in Families
  BY WorkerTypes, NameOfClaim
<1>3. cip \in ClusterIPs
  BY <1>2, WorkerTypes DEF ClusterIPs
<1>4. /\ cip.pool = pool[w] /\ cip.address = address[w] /\ Exists(cip)
      /\ cip.resource = claim[w].resource /\ cip.iface = claim[w].iface
  BY DEF Exists
<1>5. n = <<Dashed[cip.resource], cip.iface>>
  BY <1>4 DEF NameOf
<1> HIDE DEF cip
<1>6. cips'[n] = cip /\ \A m \in Names : m # n => cips'[m] = cips[m]
  BY <1>1, <1>2, WorkerTypes
<1>7. ControllerTypeOK' /\ ControllerInv'
  BY <1>1, ControllerKept
<1>8. TypeOK'
  BY <1>1, <1>2, <1>3, <1>7, WorkerTypes DEF IInv, TypeOK, ApiTypeOK, IpamTypeOK, Steps
<1>9. cip.address \in Usable(SpecOf[cip.pool].cidr)
  <2>1. Picked(w)
    BY <1>1 DEF IInv, Jobs, Job
  <2>2. /\ seen[w] \in PoolObjects /\ pool[w] \in Pools
        /\ SpecOf[pool[w]].cidr \in CIDRs
    BY SpecAssumption, WorkerTypes
  <2>3. seen[w].next \in Nat /\ seen[w].next < Capacity(pool[w])
    BY <2>1, <2>2, NextIsAllocated, CapacityNat DEF Picked, Capacity, PoolObjects
  <2>4. QED
    BY <1>4, <2>1, <2>2, <2>3, PickUsable DEF Picked, Capacity
<1>10. n \notin committed
  BY <1>1 DEF IInv, CommittedExist
<1>11. Jobs'
  <2>1. ASSUME NEW v \in Workers, v # w PROVE Job(v)'
    <3>1. pc'[v] = pc[v] /\ UNCHANGED <<claim, pool, seen, address, pools, committed>>
      BY <1>1, <2>1, WorkerTypes
    <3>2. \A m \in Names : Exists(cips[m]) => cips'[m] = cips[m]
      BY <1>1, <1>6
    <3>3. Job(v) /\ (pc[v] = "commit" => NameOf(claim[v]) \notin committed')
      BY <1>1 DEF IInv, Jobs, Job
    <3>4. QED
      BY <1>8, <3>1, <3>2, <3>3, JobKept
  <2>2. Job(w)'
    <3>1. Snapshot(seen[w], pool[w])' /\ Picked(w)'
      BY <1>1 DEF IInv, Jobs, Job, Snapshot, Picked, Capacity
    <3>2. Recorded(claim[w], pool[w], address[w])'
      BY <1>1, <1>4, <1>6 DEF Recorded, NameOf
    <3>3. pc'[w] = "commit" /\ NameOf(claim[w])' \notin committed'
      BY <1>1, <1>10, WorkerTypes DEF NameOf
    <3>4. QED
      BY <3>1, <3>2, <3>3 DEF Job
  <2>3. QED
    BY <2>1, <2>2 DEF Jobs
<1>12. OneCreator'
  <2>1. \A v \in Workers : pc[v] = "commit" => NameOf(claim[v]) # n
    BY <1>1 DEF IInv, Jobs, Job, Recorded
  <2>2. \A v \in Workers : v # w => pc'[v] = pc[v]
    BY <1>1, WorkerTypes
  <2>3. QED
    BY <1>1, <2>1, <2>2 DEF IInv, OneCreator, NameOf
<1>13. PoolAccounting' /\ AbsentBlank'
  BY <1>1 DEF IInv, PoolAccounting, AbsentBlank, Capacity
<1>14. SelectedNamed' /\ AddressUsable'
  <2>1. ASSUME NEW c \in Claims, NEW m \in Selected(c)' PROVE m = NameOf(c)'
    <3>1. /\ m \in Names /\ Exists(cips'[m])
          /\ cips'[m].resource = c.resource /\ cips'[m].iface = c.iface
          /\ cips'[m].family = c.family
      BY <2>1 DEF Selected
    <3>2. CASE m = n
      BY <1>5, <1>6, <3>1, <3>2 DEF NameOf
    <3>3. CASE m # n
      <4>1. m \in Selected(c)
        BY <1>6, <3>1, <3>3 DEF Selected
      <4>2. QED
        BY <4>1 DEF IInv, SelectedNamed, NameOf
    <3>4. QED
      BY <3>2, <3>3
  <2>2. SelectedNamed'
    BY <2>1 DEF SelectedNamed, NameOf
  <2>3. QED
    BY <1>1, <1>6, <1>9, <2>2 DEF IInv, AddressUsable
<1>15. \A m \in committed : cips'[m] = cips[m] /\ m \in Names
  BY <1>6, <1>10, WorkerTypes
<1>16. CommittedExist' /\ CommittedDistinct'
  BY <1>1, <1>15 DEF IInv, CommittedExist, CommittedDistinct
<1>17. CommittedContiguous'
  <2>1. \A p \in Pools : CommittedAddresses(p)' = CommittedAddresses(p)
    BY <1>1, <1>15 DEF CommittedAddresses
  <2>2. QED
    BY <1>1, <2>1 DEF IInv, CommittedContiguous
<1>18. AnswersBacked'
  <2>1. \A a \in answers : Exists(cips[NameOf(a.claim)]) /\ NameOf(a.claim) \in Names
    BY WorkerTypes, NameOfClaim DEF IInv, AnswersBacked, Recorded, Answers
  <2>2. QED
    BY <1>1, <1>6, <2>1 DEF IInv, AnswersBacked, Recorded, NameOf
<1>19. QED
  BY <1>7, <1>8, <1>11, <1>12, <1>13, <1>14, <1>16, <1>17, <1>18 DEF IInv

\* No allocator writes a pool that waits for the controller.
LEMMA ControllerUndisturbed ==
    ASSUME IInv, UNCHANGED controllerVars, NEW p \in Pools,
           pools' \in [Pools -> PoolObjects],
           \A q \in Pools : q # p => pools'[q] = pools[q],
           Exists(pools[p]), pools'[p].rv > pools[p].rv,
           Uninitialised(pools[p]) => Uninitialised(pools'[p])
    PROVE  ControllerTypeOK' /\ ControllerInv'
<1>1. UNCHANGED <<alive, queue, handling, read>>
  BY DEF controllerVars
<1>2. \A q \in Pools : pools[q].rv \in Nat /\ pools'[q].rv \in Nat
  BY WorkerTypes DEF PoolObjects
<1>3. read.rv \in Nat /\ handling \subseteq Pools /\ queue \subseteq Pools
  BY DEF IInv, TypeOK, ControllerTypeOK, PoolObjects
<1>4. Exists(pools'[p])
  BY <1>2 DEF Exists
<1>5. \A q \in handling : Snapshot(read, q)'
  <2>1. ASSUME NEW q \in handling PROVE Snapshot(read, q)'
    <3>1. Snapshot(read, q) /\ q \in Pools
      BY <1>3 DEF IInv, ControllerInv
    <3>2. CASE q = p
      BY <1>1, <1>2, <1>3, <3>1, <3>2 DEF Snapshot, Exists
    <3>3. CASE q # p
      BY <1>1, <3>1, <3>3 DEF Snapshot, Exists
    <3>4. QED
      BY <3>2, <3>3
  <2>2. QED
    BY <1>1, <2>1
<1>6. ControllerInv'
  BY <1>1, <1>3, <1>4, <1>5 DEF IInv, ControllerInv
<1>7. QED
  BY <1>1, <1>6 DEF IInv, TypeOK, ControllerTypeOK

(***************************************************************************)
(* The count.  The version check makes the worker's read the current pool, *)
(* so the address it carries is the one after the last counted one.        *)
(***************************************************************************)
LEMMA CommitPoolKeeps ==
    ASSUME IInv, NEW w \in Workers, CommitPool(w), UNCHANGED controllerVars
    PROVE  IInv'
<1> DEFINE n == NameOf(claim[w])
           p == pool[w]
           first == FirstOffset(SpecOf[p].cidr)
           answer == [claim |-> claim[w], pool |-> pool[w], address |-> address[w]]
<1>1. /\ pc[w] = "commit" /\ Fresh(pools[p], seen[w])
      /\ StatusUpdate(p, Counted(seen[w]))
      /\ committed' = committed \cup {n}
      /\ answers' = answers \cup {answer} \/ answers' = answers
      /\ End({w})
      /\ UNCHANGED <<up, cips>>
  BY DEF CommitPool, Answer
<1>2. /\ p \in Pools /\ pools[p] \in PoolObjects /\ claim[w] \in Claims
      /\ n \in Names /\ answer \in Answers /\ SpecOf[p].cidr \in CIDRs
      /\ Capacity(p) \in Nat /\ first \in Int /\ pools[p].rv \in Nat
      /\ pools[p].allocated \in Nat
  BY WorkerTypes, NameOfClaim, SpecAssumption, CapacityNat
     DEF Answers, Capacity, FirstOffset, PoolObjects
<1>3. /\ seen[w] = pools[p] /\ Picked(w) /\ Exists(pools[p])
      /\ Recorded(claim[w], p, address[w]) /\ n \notin committed
  BY <1>1 DEF IInv, Jobs, Job, Snapshot, Fresh
<1>4. /\ cips[n].pool = p /\ cips[n].address = address[w] /\ Exists(cips[n])
      /\ cips[n].resource = claim[w].resource
  BY <1>3 DEF Recorded
<1>5. /\ Balanced(pools[p], Capacity(p)) /\ ~Exhausted(pools[p]) /\ pools[p].free > 0
      /\ pools[p].next = pools[p].allocated
      /\ address[w] = first + pools[p].allocated
  BY <1>2, <1>3, NextIsAllocated DEF Picked
<1>6. /\ pools' \in [Pools -> PoolObjects]
      /\ \A q \in Pools : q # p => pools'[q] = pools[q]
      /\ pools'[p].rv > pools[p].rv
      /\ pools'[p].allocated = pools[p].allocated + 1
      /\ Balanced(pools'[p], Capacity(p))
  <2> DEFINE object == Counted(pools[p])
  <2>1. /\ object \in PoolObjects /\ Balanced(object, Capacity(p))
        /\ object.allocated = pools[p].allocated + 1
    BY <1>2, <1>5, CountedBalanced
  <2>2. StatusUpdate(p, object)
    BY <1>1, <1>3
  <2> HIDE DEF object, p
  <2>3. /\ pools' \in [Pools -> PoolObjects]
        /\ \A q \in Pools : q # p => pools'[q] = pools[q]
        /\ pools'[p].rv = pools[p].rv + 1
        /\ pools'[p].total = object.total /\ pools'[p].allocated = object.allocated
        /\ pools'[p].free = object.free /\ pools'[p].next = object.next
    BY <1>2, <2>1, <2>2, WorkerTypes, StatusUpdated
  <2>4. QED
    BY <1>2, <2>1, <2>3 DEF Balanced, Exhausted
<1> HIDE DEF n, p, first, answer
<1>7. Exists(pools'[p]) /\ ~Uninitialised(pools[p])
  BY <1>2, <1>3, <1>5, <1>6 DEF Exists, Uninitialised, PoolObjects
<1>8. ControllerTypeOK' /\ ControllerInv'
  BY <1>2, <1>3, <1>6, <1>7, ControllerUndisturbed
<1>9. TypeOK
  BY DEF IInv
<1>10. TypeOK'
  BY <1>1, <1>2, <1>6, <1>8, <1>9, EndTyped DEF TypeOK, ApiTypeOK, IpamTypeOK
<1>11. Jobs' /\ OneCreator'
  <2>1. \A v \in Workers \ {w} : pc[v] = "commit" => NameOf(claim[v]) \notin committed'
    BY <1>1 DEF IInv, Jobs, Job, OneCreator, n
  <2>2. QED
    BY <1>1, <1>6, <1>10, <2>1, EndJobs
<1>12. PoolAccounting' /\ AbsentBlank'
  BY <1>6, <1>7 DEF IInv, PoolAccounting, AbsentBlank, Capacity
<1>13. SelectedNamed' /\ AddressUsable' /\ CommittedExist'
  BY <1>1, <1>4 DEF IInv, SelectedNamed, Selected, NameOf, AddressUsable, CommittedExist
<1>14. CommittedAddresses(p) = first .. first + pools[p].allocated - 1
  BY <1>2 DEF IInv, CommittedContiguous, first
<1>15. CommittedDistinct'
  <2>1. ASSUME NEW m \in committed, cips[m].pool = p, cips[m].address = address[w]
        PROVE  FALSE
    <3>1. address[w] \in CommittedAddresses(p)
      BY <2>1 DEF CommittedAddresses
    <3>2. QED
      BY <1>2, <1>5, <1>14, <3>1
  <2>2. QED
    BY <1>1, <1>4, <2>1 DEF IInv, CommittedDistinct
<1>16. CommittedContiguous'
  <2> SUFFICES ASSUME NEW q \in Pools
               PROVE  CommittedAddresses(q)'
                        = FirstOffset(SpecOf[q].cidr)
                            .. FirstOffset(SpecOf[q].cidr) + pools'[q].allocated - 1
    BY DEF CommittedContiguous
  <2>1. CASE q = p
    <3>1. CommittedAddresses(q)' = CommittedAddresses(q) \cup {address[w]}
      BY <1>1, <1>4, <2>1 DEF CommittedAddresses
    <3> DEFINE start == FirstOffset(SpecOf[q].cidr)
    <3>2. first = start
      BY <2>1 DEF first
    <3>3. /\ CommittedAddresses(q) = start .. start + pools[q].allocated - 1
          /\ address[w] = start + pools[q].allocated
          /\ pools'[q].allocated = pools[q].allocated + 1
          /\ start \in Int /\ pools[q].allocated \in Nat
      BY <1>2, <1>5, <1>6, <1>14, <2>1, <3>2 DEF PoolObjects
    <3> HIDE DEF start
    <3>4. CommittedAddresses(q)' = start .. start + pools'[q].allocated - 1
      <4>1. start .. start + (pools[q].allocated + 1) - 1
              = (start .. start + pools[q].allocated - 1)
                  \cup {start + pools[q].allocated}
        BY <3>3, IntervalGrows
      <4>2. QED
        BY <3>1, <3>3, <4>1
    <3>5. QED
      BY <3>4 DEF start
  <2>2. CASE q # p
    <3>1. CommittedAddresses(q)' = CommittedAddresses(q)
      BY <1>1, <1>4, <2>2 DEF CommittedAddresses
    <3>2. QED
      BY <1>6, <2>2, <3>1 DEF IInv, CommittedContiguous
  <2>3. QED
    BY <2>1, <2>2
<1>17. AnswersBacked'
  <2>1. /\ answer.claim = claim[w] /\ answer.pool = p /\ answer.address = address[w]
    BY DEF answer, p
  <2>2. QED
    BY <1>1, <1>4, <2>1 DEF IInv, AnswersBacked, Recorded, NameOf, n
<1>18. QED
  BY <1>8, <1>10, <1>11, <1>12, <1>13, <1>15, <1>16, <1>17 DEF IInv

LEMMA PopReleasedKeeps ==
    ASSUME IInv, NEW w \in Workers, PopReleased(w), UNCHANGED controllerVars
    PROVE  IInv'
<1> DEFINE p == pool[w]
           list == Tail(pools[p].released)
<1>1. /\ pc[w] = "popReleased" /\ Fresh(pools[p], seen[w])
      /\ StatusUpdate(p, [seen[w] EXCEPT !.released = Tail(seen[w].released)])
      /\ up' = [up EXCEPT ![NodeOf[w]] = FALSE] \/ up' = up
      /\ UNCHANGED <<answers, committed, cips>>
  BY DEF PopReleased, StopDaemon
<1>0. PICK stopped : End(stopped)
  BY DEF PopReleased, StopDaemon
<1>2. /\ seen[w] = pools[p] /\ seen[w].released # <<>> /\ Exists(pools[p])
  BY <1>1 DEF IInv, Jobs, Job, Snapshot, Fresh
<1>3. p \in Pools /\ pools[p] \in PoolObjects /\ pools[p].released \in Seq(Names)
  BY WorkerTypes DEF PoolObjects
<1>4. list \in Seq(Names)
  BY <1>2, <1>3
<1>5. StatusUpdate(p, [pools[p] EXCEPT !.released = list])
  BY <1>1, <1>2
<1> HIDE DEF p, list
<1>6. /\ pools' \in [Pools -> PoolObjects]
      /\ \A q \in Pools : q # p => pools'[q] = pools[q]
      /\ pools'[p].rv > pools[p].rv
      /\ pools'[p].allocated = pools[p].allocated
      /\ Exists(pools'[p])
      /\ Uninitialised(pools[p]) => Uninitialised(pools'[p])
      /\ Uninitialised(pools'[p]) \/ Balanced(pools'[p], Capacity(p))
  BY <1>2, <1>3, <1>4, <1>5, ReleasedWritten
<1>7. ControllerTypeOK' /\ ControllerInv'
  BY <1>2, <1>3, <1>6, ControllerUndisturbed
<1>8. TypeOK /\ up' \in [Nodes -> BOOLEAN]
  BY <1>1, WorkerTypes DEF IInv
<1>9. TypeOK'
  BY <1>0, <1>1, <1>6, <1>7, <1>8, EndTyped DEF TypeOK, ApiTypeOK, IpamTypeOK
<1>10. Jobs' /\ OneCreator'
  <2>1. \A v \in Workers \ stopped :
           pc[v] = "commit" => NameOf(claim[v]) \notin committed'
    BY <1>1 DEF IInv, Jobs, Job
  <2>2. QED
    BY <1>0, <1>1, <1>6, <1>9, <2>1, EndJobs
<1>11. QED
  BY <1>1, <1>3, <1>6, <1>7, <1>9, <1>10, WriteKeeps

-----------------------------------------------------------------------------
(* The invariant and what follows from it. *)

LEMMA NextIInv == IInv /\ [Next]_vars => IInv'
<1> SUFFICES ASSUME IInv, [Next]_vars PROVE IInv'
  OBVIOUS
<1>1. CASE ControllerNext /\ UNCHANGED ipamVars
  <2>1. CASE StartController \/ CrashController
    <3>1. PICK p \in Pools : TRUE
      BY PoolsAssumption
    <3>2. QED
      BY <1>1, <2>1, <3>1, ControllerReads
  <2>2. ASSUME NEW p \in Pools,
               \/ PoolAdded(p) \/ GetAddedPool(p) \/ UpdatePoolStatus(p)
               \/ UpdatePoolConflict(p) \/ ControllerCallFails(p)
        PROVE  IInv'
    BY <1>1, <2>2, PoolAddedKeeps, UpdatePoolStatusKeeps, ControllerReads
  <2>3. QED
    BY <1>1, <2>1, <2>2 DEF ControllerNext
<1>2. CASE IpamNext /\ UNCHANGED controllerVars
  <2>1. ASSUME NEW w \in Workers, NEW c \in Claims,
               FindClusterIP(w, c) \/ MissClusterIP(w, c)
        PROVE  IInv'
    BY <1>2, <2>1, FindClusterIPKeeps, MissClusterIPKeeps
  <2>2. ASSUME NEW w \in Workers, WorkerStep(w) PROVE IInv'
    <3>1. CASE GetPool(w)
      BY <1>2, <3>1, GetPoolKeeps
    <3>2. CASE NoFreePool(w) \/ AlreadyExists(w) \/ CommitConflict(w) \/ PopConflict(w)
      BY <1>2, <3>2, FailKeeps DEF NoFreePool, AlreadyExists, CommitConflict, PopConflict
    <3>3. ASSUME NEW p \in Pools, PickFresh(w, p) \/ PickReleased(w, p) PROVE IInv'
      BY <1>2, <3>3, PickFreshKeeps, PickReleasedKeeps
    <3>4. ASSUME NEW p \in Pools, PickReleasedPanics(w, p) PROVE IInv'
      BY <1>2, <3>4, StopKeeps DEF PickReleasedPanics
    <3>5. CASE CreateClusterIP(w)
      BY <1>2, <3>5, CreateClusterIPKeeps
    <3>6. CASE CommitPool(w)
      BY <1>2, <3>6, CommitPoolKeeps
    <3>7. CASE GetReleased(w)
      BY <1>2, <3>7, GetReleasedKeeps
    <3>8. CASE PopReleased(w)
      BY <1>2, <3>8, PopReleasedKeeps
    <3>9. QED
      BY <2>2, <3>1, <3>2, <3>3, <3>4, <3>5, <3>6, <3>7, <3>8 DEF WorkerStep
  <2>3. ASSUME NEW w \in Workers, CallFails(w) PROVE IInv'
    BY <1>2, <2>3, FailKeeps DEF CallFails
  <2>4. ASSUME NEW n \in Nodes, CrashDaemon(n) \/ RestartDaemon(n) PROVE IInv'
    BY <1>2, <2>4, StopKeeps, RestartDaemonKeeps DEF CrashDaemon
  <2>5. QED
    BY <1>2, <2>1, <2>2, <2>3, <2>4 DEF IpamNext
<1>3. CASE ReleasedByHand
  BY <1>3, ReleasedByHandKeeps
<1>4. CASE UNCHANGED vars
  <2>1. UNCHANGED <<pools, cips>> /\ UNCHANGED <<controllerVars, pools>>
        /\ UNCHANGED <<ipamVars, apiVars>>
    BY <1>4 DEF vars, apiVars
  <2>2. QED
    BY <2>1, ControllerKept, ControllerOnly
<1>5. QED
  BY <1>1, <1>2, <1>3, <1>4 DEF Next

\* Every state an execution reaches satisfies the inductive invariant.
THEOREM Invariance == Spec => []IInv
BY InitIInv, NextIInv, PTL DEF Spec
=============================================================================
