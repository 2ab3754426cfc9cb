------------------------- MODULE AllocationTheorems -------------------------
(***************************************************************************)
(* What the inductive invariant of AllocationProofs yields: the safety and *)
(* action properties of Allocation, and that it implements AddressLedger,  *)
(* for every set of pools, CIDRs, claims, workers and nodes.               *)
(***************************************************************************)
EXTENDS AllocationProofs, FiniteSetTheorems, FunctionTheorems

(***************************************************************************)
(* Every variable keeps its type; the free counter in particular, which    *)
(* concurrent allocators decrement, never falls below zero.                *)
(***************************************************************************)
THEOREM TypeCorrect == Spec => []TypeOK
<1>1. IInv => TypeOK
  BY DEF IInv
<1>2. QED
  BY Invariance, <1>1, PTL

\* The four counters of a pool stay in step (createClusterIP, OnAddClusterIPPool).
THEOREM Accounting == Spec => []PoolAccounting
<1>1. IInv => PoolAccounting
  BY DEF IInv
<1>2. QED
  BY Invariance, <1>1, PTL

\* No two counted allocations of a pool hold the same address.
THEOREM Distinctness == Spec => []CommittedDistinct
<1>1. IInv => CommittedDistinct
  BY DEF IInv
<1>2. QED
  BY Invariance, <1>1, PTL

\* The counted allocations of a pool hold its first allocatedIPs host addresses.
THEOREM Contiguity == Spec => []CommittedContiguous
<1>1. IInv => CommittedContiguous
  BY DEF IInv
<1>2. QED
  BY Invariance, <1>1, PTL

(***************************************************************************)
(* What allocatedIPs is the number of: not the ClusterIPs of the pool (see *)
(* StatusObserved), but those of them the pool was told of.  Both parts of *)
(* it are needed: no two of these hold one address (CommittedDistinct),    *)
(* and their addresses are so many (CommittedContiguous).                  *)
(***************************************************************************)
CountedOf(p) == {n \in committed : cips[n].pool = p}

AllocatedIsCounted ==
    \A p \in Pools : /\ IsFiniteSet(CountedOf(p))
                     /\ Cardinality(CountedOf(p)) = pools[p].allocated

\* The ClusterIPs the pool was told of and the addresses counted are as many.
LEMMA CountedAreAllocated == IInv => AllocatedIsCounted
<1> SUFFICES ASSUME IInv, NEW p \in Pools
             PROVE  /\ IsFiniteSet(CountedOf(p))
                    /\ Cardinality(CountedOf(p)) = pools[p].allocated
  BY DEF AllocatedIsCounted
<1> DEFINE k         == pools[p].allocated
           first     == FirstOffset(SpecOf[p].cidr)
           addresses == first .. first + k - 1
           holds     == [n \in CountedOf(p) |-> cips[n].address]
<1>1. k \in Nat /\ first \in Int
  BY DEF IInv, TypeOK, ApiTypeOK, PoolObjects, FirstOffset
<1>2. {cips[n].address : n \in CountedOf(p)} = addresses
  BY DEF IInv, CommittedContiguous, CommittedAddresses, CountedOf
<1>3. \A m, n \in CountedOf(p) : cips[m].address = cips[n].address => m = n
  BY DEF IInv, CommittedDistinct, CountedOf
<1>4. holds \in Bijection(CountedOf(p), addresses)
  <2>1. holds \in [CountedOf(p) -> addresses]
    BY <1>2
  <2>2. \A m, n \in CountedOf(p) : holds[m] = holds[n] => m = n
    BY <1>3
  <2>3. \A a \in addresses : \E n \in CountedOf(p) : holds[n] = a
    BY <1>2
  <2> HIDE DEF holds, addresses
  <2>4. QED
    BY <2>1, <2>2, <2>3, Fun_IsBij
<1> HIDE DEF holds
<1>5. IsFiniteSet(addresses) /\ Cardinality(addresses) = k
  <2> HIDE DEF k, first
  <2>1. ASSUME NEW a \in Int, NEW b \in Int
        PROVE  /\ IsFiniteSet(a .. b)
               /\ Cardinality(a .. b) = IF a > b THEN 0 ELSE b - a + 1
    BY FS_Interval
  <2>2. first + k - 1 \in Int
    BY <1>1
  <2>3. QED
    BY <1>1, <2>1, <2>2
<1> HIDE DEF addresses
<1>6. ExistsBijection(addresses, CountedOf(p))
  BY <1>4, Fun_ExistsBij, Fun_ExistsBijSymmetric
<1>7. QED
  BY <1>5, <1>6, FS_Bijection

\* The status counts, for each pool, the ClusterIPs it was told of.
THEOREM StatusCountsCommitted == Spec => []AllocatedIsCounted
BY Invariance, CountedAreAllocated, PTL

\* Every ClusterIP holds an address a host of its pool can use.
THEOREM Usability == Spec => []AddressUsable
<1>1. IInv => AddressUsable
  BY DEF IInv
<1>2. QED
  BY Invariance, <1>1, PTL

(***************************************************************************)
(* The network controller and the allocators never change a ClusterIP once *)
(* it exists, so its name says the resource and interface it is for.       *)
(***************************************************************************)
NamedAfterClaim ==
    \A n \in Names : Exists(cips[n]) => n = <<Dashed[cips[n].resource], cips[n].iface>>

\* A step leaves the ClusterIPs alone, or creates one for a claim.
LEMMA NextCips ==
    ASSUME IInv, [Next]_vars
    PROVE  \/ cips' = cips
           \/ \E w \in Workers : CreateClusterIP(w)
<1>1. CASE UNCHANGED cips
  BY <1>1
<1>2. CASE ControllerNext /\ UNCHANGED ipamVars
  BY <1>2 DEF ControllerNext, StartController, CrashController, PoolAdded, CreatePool,
              GetAddedPool, UpdatePoolStatus, UpdatePoolConflict, ControllerCallFails,
              apiVars, ipamVars
<1>3. CASE IpamNext
  <2>1. ASSUME NEW w \in Workers, WorkerStep(w)
        PROVE  CreateClusterIP(w) \/ UNCHANGED cips
    BY <2>1 DEF WorkerStep, GetPool, NoFreePool, PickFresh, PickReleased,
                PickReleasedPanics, AlreadyExists, CommitPool, CommitConflict,
                GetReleased, PopReleased, PopConflict, Fail, apiVars
  <2>2. QED
    BY <1>3, <2>1 DEF IpamNext, FindClusterIP, MissClusterIP, CallFails, CrashDaemon,
                      RestartDaemon, Fail, apiVars
<1>4. CASE ReleasedByHand
  BY <1>4 DEF ReleasedByHand, ReleaseByHand
<1>5. QED
  BY <1>1, <1>2, <1>3, <1>4 DEF Next, vars, apiVars

LEMMA NamedInvariant == Spec => []NamedAfterClaim
<1>1. Init => NamedAfterClaim
  BY DEF Init, ApiInit, NamedAfterClaim, NoClusterIP, Exists
<1>2. IInv /\ NamedAfterClaim /\ [Next]_vars => NamedAfterClaim'
  <2> SUFFICES ASSUME IInv, NamedAfterClaim, [Next]_vars PROVE NamedAfterClaim'
    OBVIOUS
  <2>1. CASE cips' = cips
    BY <2>1 DEF NamedAfterClaim
  <2>2. ASSUME NEW w \in Workers, CreateClusterIP(w) PROVE NamedAfterClaim'
    <3>1. cips \in [Names -> ClusterIPs] /\ NameOf(claim[w]) \in Names
      BY WorkerTypes, NameOfClaim
    <3>2. cips' = [cips EXCEPT ![NameOf(claim[w])] =
                      [rv |-> 1, pool |-> pool[w], address |-> address[w],
                       resource |-> claim[w].resource,
                       iface |-> claim[w].iface, family |-> claim[w].family]]
      BY <2>2 DEF CreateClusterIP
    <3>3. QED
      BY <3>1, <3>2 DEF NamedAfterClaim, NameOf
  <2>3. QED
    BY <2>1, <2>2, NextCips
<1>3. QED
  BY <1>1, <1>2, Invariance, PTL DEF Spec

\* What FindOrCreateClusterIP returned stays the ClusterIP of its claim.
THEOREM Backing == Spec => []AnswersRecorded
<1>1. IInv /\ NamedAfterClaim => AnswersRecorded
  <2> SUFFICES ASSUME IInv, NamedAfterClaim, NEW a \in answers
               PROVE  LET cip == cips[NameOf(a.claim)]
                      IN  /\ Exists(cip)
                          /\ cip.resource = a.claim.resource /\ cip.iface = a.claim.iface
                          /\ cip.pool = a.pool /\ cip.address = a.address
    BY DEF AnswersRecorded
  <2>1. Recorded(a.claim, a.pool, a.address) /\ a.claim \in Claims
    BY DEF IInv, AnswersBacked, TypeOK, IpamTypeOK, Answers
  <2>2. NameOf(a.claim) \in Names
    BY <2>1, NameOfClaim
  <2>3. cips[NameOf(a.claim)].iface = a.claim.iface
    BY <2>1, <2>2 DEF NamedAfterClaim, Recorded, NameOf
  <2>4. QED
    BY <2>1, <2>3 DEF Recorded
<1>2. QED
  BY <1>1, Invariance, NamedInvariant, PTL

-----------------------------------------------------------------------------
(***************************************************************************)
(* All the ways a step can write a pool.  The two lists below say what the *)
(* writer did to releasedClusterIPs and to the counters.                   *)
(***************************************************************************)
AbsentEmpty == \A p \in Pools : ~Exists(pools[p]) => pools[p].released = <<>>

SameList(p) == pools'[p].released = pools[p].released

SameCounters(p) ==
    /\ pools'[p].allocated = pools[p].allocated
    /\ pools'[p].free = pools[p].free
    /\ pools'[p].next = pools[p].next

OneCounted(p) ==
    /\ Balanced(pools[p], Capacity(p)) /\ ~Exhausted(pools[p])
    /\ pools'[p].allocated = pools[p].allocated + 1
    /\ pools'[p].free = pools[p].free - 1
    /\ pools'[p].next >= pools[p].next

Written(p) ==
    \/ pools'[p] = pools[p]
    \/ /\ Exists(pools'[p])
       /\ \/ Uninitialised(pools[p]) /\ pools'[p].allocated = 0 /\ SameList(p)
          \/ OneCounted(p) /\ SameList(p)
          \/ /\ SameCounters(p)
             /\ \E n \in Names : pools'[p].released = Append(pools[p].released, n)
          \/ /\ SameCounters(p)
             /\ pools[p].released # <<>>
             /\ pools'[p].released = Tail(pools[p].released)

LEMMA PoolAddedWrites ==
    ASSUME IInv, AbsentEmpty, NEW q \in Pools, PoolAdded(q)
    PROVE  \A p \in Pools : Written(p)
<1>1. /\ ~Exists(pools[q]) /\ pools' = [pools EXCEPT ![q] = [NoPool EXCEPT !.rv = 1]]
      /\ pools \in [Pools -> PoolObjects]
  BY DEF PoolAdded, CreatePool, IInv, TypeOK, ApiTypeOK
<1>2. Uninitialised(pools[q]) /\ pools[q].released = <<>>
  BY <1>1 DEF IInv, AbsentBlank, AbsentEmpty
<1>3. pools'[q].released = <<>> /\ pools'[q].allocated = 0 /\ Exists(pools'[q])
  BY <1>1 DEF NoPool, Exists
<1>4. \A p \in Pools : p # q => pools'[p] = pools[p]
  BY <1>1
<1>5. QED
  BY <1>2, <1>3, <1>4 DEF Written, SameList

LEMMA UpdatePoolStatusWrites ==
    ASSUME IInv, NEW q \in Pools, UpdatePoolStatus(q)
    PROVE  \A p \in Pools : Written(p)
<1>1. pools \in [Pools -> PoolObjects] /\ read \in PoolObjects /\ pools[q] \in PoolObjects
  BY DEF IInv, TypeOK, ApiTypeOK, ControllerTypeOK
<1>2. read = pools[q] /\ Uninitialised(read) /\ Exists(read)
  BY DEF UpdatePoolStatus, IInv, ControllerInv, Snapshot, Fresh
<1>3. CASE UNCHANGED pools
  BY <1>3 DEF Written
<1>4. CASE StatusUpdate(q, ObservedStatus(q, read))
  <2> DEFINE object == ObservedStatus(q, read)
  <2>1. /\ object \in PoolObjects /\ object.allocated = 0
        /\ object.released = read.released
    BY <1>1, <1>2, ObservedBalanced
  <2> HIDE DEF object
  <2>2. StatusUpdate(q, object)
    BY <1>4 DEF object
  <2>3. /\ \A p \in Pools : p # q => pools'[p] = pools[p]
        /\ pools'[q].rv = pools[q].rv + 1 /\ pools'[q].released = read.released
        /\ pools'[q].allocated = 0
    BY <1>1, <2>1, <2>2, StatusUpdated
  <2>4. Exists(pools'[q])
    BY <1>1, <2>3 DEF Exists, PoolObjects
  <2>5. QED
    BY <1>2, <2>3, <2>4 DEF Written, SameList
<1>5. QED
  BY <1>3, <1>4 DEF UpdatePoolStatus

LEMMA ReleasedByHandWrites ==
    ASSUME IInv, ReleasedByHand
    PROVE  \A p \in Pools : Written(p)
<1>1. PICK q \in Pools, n \in Names : ReleaseByHand(q, n)
  BY DEF ReleasedByHand
<1>2. Append(pools[q].released, n) \in Seq(Names)
  BY DEF IInv, TypeOK, ApiTypeOK, PoolObjects
<1>3. /\ \A p \in Pools : p # q => pools'[p] = pools[p]
      /\ SameCounters(q) /\ Exists(pools'[q])
      /\ pools'[q].released = Append(pools[q].released, n)
  BY <1>1, <1>2, ReleasedWritten DEF ReleaseByHand, SameCounters
<1>4. QED
  BY <1>3 DEF Written

LEMMA PopReleasedWrites ==
    ASSUME IInv, NEW w \in Workers, PopReleased(w)
    PROVE  \A p \in Pools : Written(p)
<1> DEFINE q == pool[w]
<1>1. q \in Pools /\ pools[q] \in PoolObjects /\ pools[q].released \in Seq(Names)
  BY WorkerTypes DEF PoolObjects
<1>2. /\ seen[w] = pools[q] /\ pools[q].released # <<>> /\ Exists(pools[q])
  BY DEF PopReleased, IInv, Jobs, Job, Snapshot, Fresh
<1>3. /\ Tail(pools[q].released) \in Seq(Names)
      /\ StatusUpdate(q, [pools[q] EXCEPT !.released = Tail(pools[q].released)])
  BY <1>1, <1>2 DEF PopReleased
<1>4. /\ \A p \in Pools : p # q => pools'[p] = pools[p]
      /\ Exists(pools'[q])
      /\ pools'[q].allocated = pools[q].allocated
      /\ pools'[q].free = pools[q].free
      /\ pools'[q].next = pools[q].next
      /\ pools'[q].released = Tail(pools[q].released)
  BY <1>1, <1>2, <1>3, ReleasedWritten
<1> HIDE DEF q
<1>5. QED
  BY <1>2, <1>4 DEF Written, SameCounters

LEMMA CommitPoolWrites ==
    ASSUME IInv, NEW w \in Workers, CommitPool(w)
    PROVE  \A p \in Pools : Written(p)
<1> DEFINE q == pool[w]
           object == Counted(pools[q])
<1>1. /\ q \in Pools /\ pools \in [Pools -> PoolObjects] /\ pools[q] \in PoolObjects
      /\ pools[q].rv \in Nat /\ Capacity(q) \in Nat
  BY WorkerTypes, SpecAssumption, CapacityNat DEF PoolObjects, Capacity
<1>2. /\ seen[w] = pools[q] /\ Picked(w) /\ Exists(pools[q])
  BY DEF CommitPool, IInv, Jobs, Job, Snapshot, Fresh
<1>3. /\ object \in PoolObjects /\ object.allocated = pools[q].allocated + 1
      /\ object.free = pools[q].free - 1 /\ object.next >= pools[q].next
      /\ object.released = pools[q].released
      /\ Balanced(pools[q], Capacity(q)) /\ ~Exhausted(pools[q])
  BY <1>1, <1>2, CountedBalanced DEF Picked
<1>4. StatusUpdate(q, object)
  BY <1>2 DEF CommitPool
<1> HIDE DEF q, object
<1>5. /\ \A p \in Pools : p # q => pools'[p] = pools[p]
      /\ pools'[q].rv = pools[q].rv + 1
      /\ pools'[q].allocated = pools[q].allocated + 1
      /\ pools'[q].free = pools[q].free - 1
      /\ pools'[q].next >= pools[q].next
      /\ pools'[q].released = pools[q].released
  BY <1>1, <1>3, <1>4, StatusUpdated
<1>6. Exists(pools'[q])
  BY <1>1, <1>5 DEF Exists
<1>7. QED
  BY <1>3, <1>5, <1>6 DEF Written, OneCounted, SameList

LEMMA NextWrites ==
    ASSUME IInv, AbsentEmpty, [Next]_vars
    PROVE  \A p \in Pools : Written(p)
<1>1. CASE UNCHANGED pools
  BY <1>1 DEF Written
<1>2. CASE ControllerNext
  BY <1>1, <1>2, PoolAddedWrites, UpdatePoolStatusWrites
     DEF ControllerNext, StartController, CrashController, GetAddedPool,
         UpdatePoolConflict, ControllerCallFails, apiVars
<1>3. CASE IpamNext
  <2>1. ASSUME NEW w \in Workers, CommitPool(w) \/ PopReleased(w)
        PROVE  \A p \in Pools : Written(p)
    BY <2>1, CommitPoolWrites, PopReleasedWrites
  <2>2. ASSUME NEW w \in Workers, WorkerStep(w)
        PROVE  CommitPool(w) \/ PopReleased(w) \/ UNCHANGED pools
    BY <2>2 DEF WorkerStep, GetPool, NoFreePool, PickFresh, PickReleased,
                PickReleasedPanics, CreateClusterIP, AlreadyExists, CommitConflict,
                GetReleased, PopConflict, Fail, apiVars
  <2>3. QED
    BY <1>1, <1>3, <2>1, <2>2
       DEF IpamNext, FindClusterIP, MissClusterIP, CallFails, CrashDaemon,
           RestartDaemon, Fail, apiVars
<1>4. CASE ReleasedByHand
  BY <1>4, ReleasedByHandWrites
<1>5. QED
  BY <1>1, <1>2, <1>3, <1>4 DEF Next, vars, apiVars

\* Nobody edits the list of a pool that is not there.
LEMMA AbsentEmptyInvariant == Spec => []AbsentEmpty
<1>1. Init => AbsentEmpty
  BY DEF Init, ApiInit, AbsentEmpty, NoPool
<1>2. IInv /\ AbsentEmpty /\ [Next]_vars => AbsentEmpty'
  BY NextWrites DEF AbsentEmpty, Written
<1>3. QED
  BY <1>1, <1>2, Invariance, PTL DEF Spec

(***************************************************************************)
(* Once the controller has initialised a pool, no step takes allocatedIPs  *)
(* or nextIndex back or freeIPs up.                                        *)
(***************************************************************************)
THEOREM Monotonicity == Spec => NeverReset
<1> DEFINE Step == \A p \in Pools : Initialised(p) =>
                      /\ pools'[p].allocated >= pools[p].allocated
                      /\ pools'[p].next >= pools[p].next
                      /\ pools'[p].free <= pools[p].free
<1>1. IInv /\ AbsentEmpty /\ [Next]_vars => [Step]_vars
  <2> SUFFICES ASSUME IInv, AbsentEmpty, [Next]_vars, NEW p \in Pools, Initialised(p)
               PROVE  /\ pools'[p].allocated >= pools[p].allocated
                      /\ pools'[p].next >= pools[p].next
                      /\ pools'[p].free <= pools[p].free
    OBVIOUS
  <2>1. Written(p) /\ ~Uninitialised(pools[p])
    BY NextWrites DEF Initialised, Uninitialised
  <2>2. pools[p].allocated \in Nat /\ pools[p].next \in Nat /\ pools[p].free \in Nat
    BY DEF IInv, TypeOK, ApiTypeOK, PoolObjects
  <2>3. QED
    BY <2>1, <2>2 DEF Written, OneCounted, SameCounters
<1>2. QED
  BY <1>1, Invariance, AbsentEmptyInvariant, PTL DEF Spec, NeverReset

(***************************************************************************)
(* Only the administrator adds to releasedClusterIPs, and only an allocator*)
(* takes from it, at its head: no concurrent writer overwrites an edit.    *)
(***************************************************************************)
THEOREM EditsSurvive == Spec => EditsKept
<1> DEFINE Step ==
      \A p \in Pools :
          \/ pools'[p].released = pools[p].released
          \/ \E n \in Names : pools'[p].released = Append(pools[p].released, n)
          \/ pools[p].released # <<>> /\ pools'[p].released = Tail(pools[p].released)
<1>1. IInv /\ AbsentEmpty /\ [Next]_vars => [Step]_vars
  BY NextWrites DEF Written, SameList
<1>2. QED
  BY <1>1, Invariance, AbsentEmptyInvariant, PTL DEF Spec, EditsKept

-----------------------------------------------------------------------------
(***************************************************************************)
(* How much of a pool is handed out.  The inductive part is the bound: a   *)
(* pool is written by an allocator only while it is not exhausted.         *)
(***************************************************************************)
WithinShare == \A p \in Pools : pools[p].allocated <= Share(p)

LEMMA ShareQuotient ==
    ASSUME NEW p \in Pools
    PROVE  /\ Capacity(p) \in Nat /\ Share(p) \in Nat
           /\ 4 * Share(p) <= Capacity(p) + 2 /\ Capacity(p) + 2 < 4 * Share(p) + 4
<1>1. Capacity(p) \in Nat
  BY SpecAssumption, CapacityNat DEF Capacity
<1>2. QED
  BY <1>1 DEF Share

LEMMA BalancedExhausted ==
    ASSUME NEW p \in Pools, NEW object \in PoolObjects, Balanced(object, Capacity(p))
    PROVE  /\ Exhausted(object) <=> object.allocated >= Share(p)
           /\ ~Exhausted(object) => object.allocated + 1 <= Share(p)
<1> DEFINE c == Capacity(p)
           s == Share(p)
<1>1. c \in Nat /\ s \in Nat /\ 4 * s <= c + 2 /\ c + 2 < 4 * s + 4
  BY ShareQuotient
<1>2. /\ object.allocated \in Nat /\ object.next \in Nat /\ object.total \in Int
      /\ object.total = c - 3 * object.allocated
      /\ \/ object.next = object.allocated
         \/ object.next = object.allocated - 1 /\ Exhausted(object)
      /\ Exhausted(object) <=> object.next >= object.total - 1
  BY <1>1 DEF Balanced, Exhausted, PoolObjects
<1> HIDE DEF c, s
<1>3. Exhausted(object) => object.allocated >= s
  BY <1>1, <1>2
<1>4. object.allocated >= s => Exhausted(object)
  BY <1>1, <1>2
<1>5. QED
  BY <1>1, <1>2, <1>3, <1>4 DEF s

LEMMA NextWithinShare ==
    ASSUME IInv, AbsentEmpty, WithinShare, \A p \in Pools : Written(p)
    PROVE  WithinShare'
<1> SUFFICES ASSUME NEW p \in Pools PROVE pools'[p].allocated <= Share(p)
  BY DEF WithinShare, Share, Capacity
<1>1. Written(p) /\ pools[p] \in PoolObjects /\ Share(p) \in Nat
  BY WorkerTypes, ShareQuotient
<1>2. CASE OneCounted(p)
  BY <1>1, <1>2, BalancedExhausted DEF OneCounted
<1>3. QED
  BY <1>1, <1>2 DEF Written, SameCounters, WithinShare

LEMMA QuarterFromShare ==
    ASSUME IInv, WithinShare
    PROVE  QuarterUsed
<1> SUFFICES ASSUME NEW p \in Pools, Initialised(p)
             PROVE  /\ pools[p].allocated <= Share(p)
                    /\ Exhausted(pools[p]) <=> pools[p].allocated = Share(p)
  BY DEF QuarterUsed
<1>1. Balanced(pools[p], Capacity(p)) /\ pools[p] \in PoolObjects
  BY WorkerTypes DEF IInv, PoolAccounting, Initialised, Uninitialised
<1>2. pools[p].allocated <= Share(p) /\ pools[p].allocated \in Nat /\ Share(p) \in Nat
  BY <1>1, ShareQuotient DEF WithinShare, PoolObjects
<1>3. QED
  BY <1>1, <1>2, BalancedExhausted

LEMMA InitShare == Init => WithinShare
BY ShareQuotient DEF Init, ApiInit, NoPool, WithinShare

\* A pool hands out a quarter of its capacity, and is exhausted exactly then.
THEOREM QuarterHandedOut == Spec => []QuarterUsed
<1>1. IInv /\ AbsentEmpty /\ WithinShare /\ [Next]_vars => WithinShare'
  BY NextWrites, NextWithinShare
<1>2. IInv /\ WithinShare => QuarterUsed
  BY QuarterFromShare
<1>3. QED
  BY InitShare, <1>1, <1>2, Invariance, AbsentEmptyInvariant, PTL DEF Spec

-----------------------------------------------------------------------------
(***************************************************************************)
(* What a failed request has left behind stays within reach of its pool:   *)
(* a worker's address comes from a read no newer than the pool, and the    *)
(* pool's own next address only moves on.                                  *)
(***************************************************************************)
Start(p) == FirstOffset(SpecOf[p].cidr)

WithinReach ==
    \A n \in Names : Exists(cips[n]) =>
        LET p == cips[n].pool
        IN  cips[n].address \in Start(p) .. Start(p) + pools[p].allocated

Carrying(w) == pc[w] \in {"create", "commit"}

ReadsOlder ==
    \A w \in Workers : Carrying(w) => seen[w].allocated <= pools[pool[w]].allocated

ReachInv == AbsentEmpty /\ WithinReach /\ ReadsOlder

\* Within reach of a pool that counts its first addresses: counted, or the next.
LEMMA ReachIsNext ==
    ASSUME IInv
    PROVE  WithinReach <=> NoAddressLost
<1>1. cips \in [Names -> ClusterIPs] /\ pools \in [Pools -> PoolObjects]
  BY DEF IInv, TypeOK, ApiTypeOK
<1>2. ASSUME NEW n \in Names
      PROVE  LET p == cips[n].pool
             IN  Start(p) .. Start(p) + pools[p].allocated
                   = CommittedAddresses(p) \cup {Start(p) + pools[p].allocated}
  <2> DEFINE p == cips[n].pool
  <2>1. p \in Pools /\ pools[p].allocated \in Nat /\ Start(p) \in Int
    BY <1>1 DEF ClusterIPs, PoolObjects, Start, FirstOffset
  <2>2. CommittedAddresses(p) = Start(p) .. Start(p) + pools[p].allocated - 1
    BY <2>1 DEF IInv, CommittedContiguous, Start
  <2> HIDE DEF p
  <2>3. Start(p) .. Start(p) + pools[p].allocated
          = (Start(p) .. Start(p) + pools[p].allocated - 1)
              \cup {Start(p) + pools[p].allocated}
    BY <2>1
  <2>4. QED
    BY <2>2, <2>3 DEF p
<1>3. QED
  BY <1>2 DEF WithinReach, NoAddressLost, Start

\* A worker that carries an address has just read its pool, or did so before.
LEMMA NextReads ==
    ASSUME IInv, [Next]_vars, NEW w \in Workers, Carrying(w)'
    PROVE  \/ Carrying(w) /\ seen'[w] = seen[w] /\ pool'[w] = pool[w]
           \/ seen'[w] = pools[pool'[w]] /\ pools' = pools
<1>1. CASE UNCHANGED ipamVars
  BY <1>1 DEF ipamVars, jobVars, Carrying
<1>2. CASE IpamNext
  <2>1. ASSUME NEW S, End(S)
        PROVE  Carrying(w) /\ seen'[w] = seen[w] /\ pool'[w] = pool[w]
    BY <2>1, EndTyped DEF IInv, Carrying
  <2>2. ASSUME NEW v \in Workers, NEW c \in Claims,
               FindClusterIP(v, c) \/ MissClusterIP(v, c)
        PROVE  Carrying(w) /\ seen'[w] = seen[w] /\ pool'[w] = pool[w]
    BY <2>2, WorkerTypes DEF FindClusterIP, MissClusterIP, Go, Carrying
  <2>3. ASSUME NEW v \in Workers, NEW p \in Pools, PickFresh(v, p), ~End({v})
        PROVE  \/ Carrying(w) /\ seen'[w] = seen[w] /\ pool'[w] = pool[w]
               \/ seen'[w] = pools[pool'[w]] /\ pools' = pools
    BY <2>3, WorkerTypes DEF PickFresh, Fail, Go, Carrying, apiVars
  <2>4. ASSUME NEW v \in Workers, NEW p \in Pools, PickReleased(v, p)
        PROVE  Carrying(w) /\ seen'[w] = seen[w] /\ pool'[w] = pool[w]
    BY <2>4, WorkerTypes DEF PickReleased, Go, Carrying
  <2>5. ASSUME NEW v \in Workers, CreateClusterIP(v)
        PROVE  Carrying(w) /\ seen'[w] = seen[w] /\ pool'[w] = pool[w]
    BY <2>5, WorkerTypes DEF CreateClusterIP, Go, Carrying
  <2>6. ASSUME NEW v \in Workers, GetReleased(v), ~End({v})
        PROVE  Carrying(w) /\ seen'[w] = seen[w] /\ pool'[w] = pool[w]
    BY <2>6, WorkerTypes DEF GetReleased, Fail, Go, Carrying
  <2>7. ASSUME NEW v \in Workers, WorkerStep(v)
        PROVE  \/ Carrying(w) /\ seen'[w] = seen[w] /\ pool'[w] = pool[w]
               \/ seen'[w] = pools[pool'[w]] /\ pools' = pools
    <3>1. CASE \E S : End(S)
      BY <2>1, <3>1
    <3>2. CASE ~ \E S : End(S)
      BY <2>3, <2>4, <2>5, <2>6, <2>7, <3>2
         DEF WorkerStep, GetPool, NoFreePool, PickReleasedPanics, AlreadyExists,
             CommitPool, CommitConflict, PopReleased, PopConflict, Fail, StopDaemon
    <3>3. QED
      BY <3>1, <3>2
  <2>8. ASSUME NEW n \in Nodes, CrashDaemon(n) \/ RestartDaemon(n)
        PROVE  Carrying(w) /\ seen'[w] = seen[w] /\ pool'[w] = pool[w]
    BY <2>1, <2>8 DEF CrashDaemon, StopDaemon, RestartDaemon, jobVars, Carrying
  <2>9. QED
    BY <1>2, <2>1, <2>2, <2>7, <2>8 DEF IpamNext, CallFails, Fail
<1>3. QED
  BY <1>1, <1>2 DEF Next, ReleasedByHand, vars

LEMMA NextReach ==
    ASSUME IInv, IInv', ReachInv, [Next]_vars
    PROVE  ReachInv'
<1>1. \A p \in Pools : Written(p)
  BY NextWrites DEF ReachInv
<1>2. AbsentEmpty'
  BY <1>1 DEF ReachInv, AbsentEmpty, Written
<1>3. \A p \in Pools : /\ pools[p].allocated \in Nat /\ pools'[p].allocated \in Nat
                       /\ pools[p].allocated <= pools'[p].allocated
  <2>1. \A p \in Pools : pools[p].allocated \in Nat /\ pools'[p].allocated \in Nat
    BY DEF IInv, TypeOK, ApiTypeOK, PoolObjects
  <2>2. QED
    BY <1>1, <2>1 DEF Written, Uninitialised, OneCounted, SameCounters
<1>4. ReadsOlder'
  <2> SUFFICES ASSUME NEW w \in Workers, Carrying(w)'
               PROVE  seen'[w].allocated <= pools'[pool'[w]].allocated
    BY DEF ReadsOlder, Carrying
  <2>1. pool[w] \in Pools /\ seen[w].allocated \in Nat /\ pool'[w] \in Pools
    BY DEF IInv, TypeOK, IpamTypeOK, PoolObjects
  <2>2. QED
    BY <1>3, <2>1, NextReads DEF ReachInv, ReadsOlder
<1>5. WithinReach'
  <2> SUFFICES ASSUME NEW n \in Names, Exists(cips'[n])
               PROVE  cips'[n].address \in Start(cips'[n].pool)
                        .. Start(cips'[n].pool) + pools'[cips'[n].pool].allocated
    BY DEF WithinReach, Start
  <2>1. \A p \in Pools : Start(p) \in Int
    BY DEF Start, FirstOffset
  <2>2. CASE Exists(cips[n]) /\ cips'[n] = cips[n]
    <3>1. cips[n].pool \in Pools
      BY WorkerTypes DEF ClusterIPs
    <3>2. QED
      BY <1>3, <2>1, <2>2, <3>1 DEF ReachInv, WithinReach
  <2>3. ASSUME NEW w \in Workers, CreateClusterIP(w), n = NameOf(claim[w])
        PROVE  cips'[n].address \in Start(cips'[n].pool)
                 .. Start(cips'[n].pool) + pools'[cips'[n].pool].allocated
    <3>1. /\ cips'[n].pool = pool[w] /\ cips'[n].address = address[w]
          /\ pc[w] = "create" /\ pool[w] \in Pools /\ seen[w] \in PoolObjects
      BY <2>3, WorkerTypes, NameOfClaim DEF CreateClusterIP
    <3>2. Picked(w) /\ Capacity(pool[w]) \in Nat
      BY <3>1, SpecAssumption, CapacityNat DEF IInv, Jobs, Job, Capacity
    <3>3. seen[w].next = seen[w].allocated
      BY <3>1, <3>2, NextIsAllocated DEF Picked
    <3>4. /\ seen[w].allocated \in Nat
          /\ seen[w].allocated <= pools[pool[w]].allocated
      BY <3>1 DEF ReachInv, ReadsOlder, Carrying, PoolObjects
    <3>5. address[w] = Start(pool[w]) + seen[w].allocated
      BY <3>2, <3>3 DEF Picked, Start
    <3>6. QED
      BY <1>3, <2>1, <3>1, <3>4, <3>5
  <2>4. ASSUME NEW w \in Workers, CreateClusterIP(w), n # NameOf(claim[w])
        PROVE  cips'[n] = cips[n]
    BY <2>4, WorkerTypes DEF CreateClusterIP
  <2>5. QED
    BY <2>2, <2>3, <2>4, NextCips
<1>6. QED
  BY <1>2, <1>4, <1>5 DEF ReachInv

LEMMA InitReach == Init => ReachInv
BY Defaults DEF Init, ApiInit, IpamInit, ReachInv, AbsentEmpty, NoPool, WithinReach,
                ReadsOlder, Carrying

(***************************************************************************)
(* However many requests end between the Create and the count, on whatever *)
(* nodes, no address is skipped: NoAddressLost.                            *)
(***************************************************************************)
THEOREM NothingLost == Spec => []NoAddressLost
<1>1. IInv /\ IInv' /\ ReachInv /\ [Next]_vars => ReachInv'
  BY NextReach
<1>2. IInv /\ ReachInv => NoAddressLost
  BY ReachIsNext DEF ReachInv
<1>3. QED
  BY InitReach, <1>1, <1>2, Invariance, PTL DEF Spec

-----------------------------------------------------------------------------
(***************************************************************************)
(* Why RetriesSucceed needs nothing but a look-up and an answer that do    *)
(* not fail for ever: the ClusterIP of a recorded claim stays recorded,    *)
(* its List finds that one and no other, and its pool is there to answer.  *)
(***************************************************************************)
PoolsThere == \A n \in Names : Exists(cips[n]) => Exists(pools[cips[n].pool])

RetriesMeet ==
    /\ \A c \in Claims : RecordedFor(c) => Selected(c) = {NameOf(c)}
    /\ \A w \in Workers : pc[w] = "getPool" => Exists(pools[pool[w]])

RecordsKept == \A c \in Claims : RecordedFor(c) => RecordedFor(c)'

\* Only a name that is free is created; no other ClusterIP changes.
LEMMA NextKeepsExisting ==
    ASSUME IInv, [Next]_vars
    PROVE  \A n \in Names : Exists(cips[n]) => cips'[n] = cips[n]
BY NextCips, WorkerTypes DEF CreateClusterIP

LEMMA NextPoolsThere ==
    ASSUME IInv, IInv', AbsentEmpty, PoolsThere, [Next]_vars
    PROVE  PoolsThere'
<1>1. \A p \in Pools : Exists(pools[p]) => Exists(pools'[p])
  BY NextWrites DEF Written
<1>2. SUFFICES ASSUME NEW n \in Names, Exists(cips'[n])
               PROVE  Exists(pools'[cips'[n].pool])
  BY DEF PoolsThere
<1>3. CASE cips'[n] = cips[n]
  <2>1. cips[n].pool \in Pools
    BY WorkerTypes DEF ClusterIPs
  <2>2. QED
    BY <1>1, <1>2, <1>3, <2>1 DEF PoolsThere
<1>4. ASSUME NEW w \in Workers, CreateClusterIP(w), n = NameOf(claim[w])
      PROVE  Exists(pools'[cips'[n].pool])
  <2>1. /\ cips'[n].pool = pool[w] /\ pc[w] = "create" /\ pool[w] \in Pools
        /\ seen[w] \in PoolObjects /\ pools[pool[w]] \in PoolObjects
    BY <1>4, WorkerTypes, NameOfClaim DEF CreateClusterIP
  <2>2. Snapshot(seen[w], pool[w])
    BY <2>1 DEF IInv, Jobs, Job
  <2>3. Exists(pools[pool[w]])
    BY <2>1, <2>2 DEF Snapshot, Exists, PoolObjects
  <2>4. QED
    BY <1>1, <2>1, <2>3
<1>5. ASSUME NEW w \in Workers, CreateClusterIP(w), n # NameOf(claim[w])
      PROVE  cips'[n] = cips[n]
  BY <1>5, WorkerTypes DEF CreateClusterIP
<1>6. QED
  BY <1>3, <1>4, <1>5, NextCips

\* No leftover of an earlier request stands in the way of a retry.
THEOREM RetriesUnblocked == Spec => []RetriesMeet /\ [][RecordsKept]_vars
<1>1. Init => PoolsThere
  BY Defaults DEF Init, ApiInit, PoolsThere
<1>2. IInv /\ IInv' /\ AbsentEmpty /\ PoolsThere /\ [Next]_vars => PoolsThere'
  BY NextPoolsThere
<1>3. IInv /\ PoolsThere => RetriesMeet
  <2> SUFFICES ASSUME IInv, PoolsThere PROVE RetriesMeet
    OBVIOUS
  <2>1. ASSUME NEW c \in Claims, RecordedFor(c) PROVE Selected(c) = {NameOf(c)}
    <3>1. Selected(c) # {}
      BY <2>1 DEF RecordedFor, Selected
    <3>2. QED
      BY <3>1 DEF IInv, SelectedNamed
  <2>2. ASSUME NEW w \in Workers, pc[w] = "getPool" PROVE Exists(pools[pool[w]])
    <3>1. Recorded(claim[w], pool[w], address[w]) /\ NameOf(claim[w]) \in Names
      BY <2>2, WorkerTypes, NameOfClaim DEF IInv, Jobs, Job
    <3>2. QED
      BY <3>1 DEF Recorded, PoolsThere
  <2>3. QED
    BY <2>1, <2>2 DEF RetriesMeet
<1>4. IInv /\ [Next]_vars => [RecordsKept]_vars
  BY NextKeepsExisting DEF RecordsKept, RecordedFor
<1>5. QED
  BY <1>1, <1>2, <1>3, <1>4, Invariance, AbsentEmptyInvariant, PTL DEF Spec

-----------------------------------------------------------------------------
(***************************************************************************)
(* A counted ClusterIP never changes, and one step counts one at most.     *)
(***************************************************************************)
LEMMA NextKeepsCounted ==
    ASSUME IInv, [Next]_vars
    PROVE  /\ \A n \in committed : cips'[n] = cips[n]
           /\ \/ committed' = committed
              \/ \E w \in Workers : CommitPool(w)
<1>1. CASE UNCHANGED <<cips, committed>>
  BY <1>1
<1>2. CASE ControllerNext /\ UNCHANGED ipamVars
  BY <1>2 DEF ControllerNext, StartController, CrashController, PoolAdded, CreatePool,
              GetAddedPool, UpdatePoolStatus, UpdatePoolConflict, ControllerCallFails,
              apiVars, ipamVars
<1>3. CASE IpamNext
  <2>1. ASSUME NEW w \in Workers, CreateClusterIP(w)
        PROVE  committed' = committed /\ \A n \in committed : cips'[n] = cips[n]
    <3>1. cips \in [Names -> ClusterIPs] /\ committed \subseteq Names
      BY WorkerTypes
    <3>2. \A n \in committed : Exists(cips[n])
      BY DEF IInv, CommittedExist
    <3>3. QED
      BY <2>1, <3>1, <3>2 DEF CreateClusterIP
  <2>2. ASSUME NEW w \in Workers, CommitPool(w) PROVE cips' = cips
    BY <2>2 DEF CommitPool
  <2>3. ASSUME NEW w \in Workers, WorkerStep(w)
        PROVE  CommitPool(w) \/ CreateClusterIP(w) \/ UNCHANGED <<cips, committed>>
    BY <2>3 DEF WorkerStep, GetPool, NoFreePool, PickFresh, PickReleased,
                PickReleasedPanics, AlreadyExists, CommitConflict,
                GetReleased, PopReleased, PopConflict, Fail, apiVars
  <2>4. QED
    BY <1>1, <1>3, <2>1, <2>2, <2>3
       DEF IpamNext, FindClusterIP, MissClusterIP, CallFails, CrashDaemon,
           RestartDaemon, Fail, apiVars
<1>4. CASE ReleasedByHand
  BY <1>4 DEF ReleasedByHand, ReleaseByHand, ipamVars
<1>5. QED
  BY <1>1, <1>2, <1>3, <1>4 DEF Next, vars, apiVars, ipamVars

\* The ledger entry of a counted ClusterIP.
Entry(n) == [name |-> n, pool |-> cips[n].pool, address |-> cips[n].address]

HostAddressesOf == [p \in Pools |-> Usable(SpecOf[p].cidr)]

LedgerNow == {[name |-> n, pool |-> cips[n].pool, address |-> cips[n].address] :
                 n \in committed}

(***************************************************************************)
(* Allocation implements AddressLedger: the Status().Update of the pool is *)
(* the step that grants the address, every other step changes no entry.    *)
(***************************************************************************)
LEMMA CommitGrants ==
    ASSUME IInv, IInv', NEW w \in Workers, CommitPool(w)
    PROVE  \E n \in Names, p \in Pools : \E a \in HostAddressesOf[p] :
              /\ \A e \in LedgerNow : e.name # n
              /\ \A e \in LedgerNow : ~(e.pool = p /\ e.address = a)
              /\ LedgerNow' = LedgerNow \cup {[name |-> n, pool |-> p, address |-> a]}
<1> DEFINE n == NameOf(claim[w])
<1>1. /\ n \in Names /\ n \notin committed /\ Exists(cips[n])
      /\ committed \subseteq Names
  BY WorkerTypes, NameOfClaim DEF CommitPool, IInv, Jobs, Job, Recorded
<1>2. committed' = committed \cup {n} /\ cips' = cips
  BY DEF CommitPool
<1> HIDE DEF n
<1>3. /\ cips[n].pool \in Pools
      /\ cips[n].address \in HostAddressesOf[cips[n].pool]
  BY <1>1, WorkerTypes DEF IInv, AddressUsable, ClusterIPs, HostAddressesOf
<1>4. \A m \in committed :
         ~(cips[m].pool = cips[n].pool /\ cips[m].address = cips[n].address)
  BY <1>1, <1>2 DEF IInv, CommittedDistinct
<1>5. LedgerNow' = LedgerNow \cup {Entry(n)}
  BY <1>2 DEF LedgerNow, Entry
<1>6. \A e \in LedgerNow :
         e.name # n /\ ~(e.pool = cips[n].pool /\ e.address = cips[n].address)
  BY <1>1, <1>4 DEF LedgerNow
<1>7. QED
  BY <1>1, <1>3, <1>5, <1>6 DEF Entry

LEMMA NextGrants ==
    ASSUME IInv, IInv', [Next]_vars
    PROVE  Ledger!Next \/ LedgerNow' = LedgerNow
<1>1. CASE \E w \in Workers : CommitPool(w)
  BY <1>1, CommitGrants DEF Ledger!Next, Ledger!Grant, LedgerNow, HostAddressesOf
<1>2. CASE committed' = committed
  BY <1>2, NextKeepsCounted DEF LedgerNow
<1>3. QED
  BY <1>1, <1>2, NextKeepsCounted

THEOREM Refinement == Spec => ImplementsLedger
<1>1. Init => Ledger!Init
  BY DEF Init, IpamInit, Ledger!Init
<1>2. IInv /\ IInv' /\ [Next]_vars => [Ledger!Next]_LedgerNow
  BY NextGrants
<1>3. QED
  BY <1>1, <1>2, Invariance, PTL DEF Spec, ImplementsLedger, Ledger!Spec, LedgerNow
=============================================================================
