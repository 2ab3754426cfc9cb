-------------------------------- MODULE Ipam --------------------------------
(***************************************************************************)
(* The IPAM client of pkg/ipam/ipam.go as the CNI daemons run it.  Every   *)
(* node has one daemon (a DaemonSet); it serves each CNI ADD in a          *)
(* goroutine of its own, with no lock around FindOrCreateClusterIP, so two *)
(* requests interleave at every API call whether or not they are on the    *)
(* same node.  One action below is one API call together with the local    *)
(* computation up to the next call.                                        *)
(*                                                                         *)
(* Any worker may be asked for any claim: the kubelet retries a failed ADD *)
(* (and an ADD whose plugin timed out while the daemon still works on it), *)
(* and the pods of a live-migrating machine share its resource.            *)
(***************************************************************************)
EXTENDS KubeApi

CONSTANTS
    Workers,      \* concurrent CNI ADD requests
    Nodes,
    NodeOf        \* the node each worker serves

ASSUME NodeAssumption == NodeOf \in [Workers -> Nodes]

VARIABLES
    up,           \* whether the daemon of a node runs
    pc,           \* the API call a worker makes next
    claim,        \* what its request asks for
    pool,         \* the pool it has chosen, or the one of the ClusterIP found
    seen,         \* the object of that pool as the worker has read it
    address,      \* the address of its ClusterIP
    answers,      \* history: what FindOrCreateClusterIP has returned
    committed     \* history: ClusterIPs whose allocation the pool has counted

jobVars == <<pc, claim, pool, seen, address>>
ipamVars == <<up, jobVars, answers, committed>>

Steps == {"idle", "getPool", "pick", "create", "commit", "getReleased", "popReleased"}

Answers == [claim : Claims, pool : Pools, address : Int]

IpamTypeOK ==
    /\ up \in [Nodes -> BOOLEAN]
    /\ pc \in [Workers -> Steps]
    /\ claim \in [Workers -> Claims]
    /\ pool \in [Workers -> Pools]
    /\ seen \in [Workers -> PoolObjects]
    /\ address \in [Workers -> Int]
    /\ answers \subseteq Answers
    /\ committed \subseteq Names

NoClaim == CHOOSE c \in Claims : TRUE
NoChoice == CHOOSE p \in Pools : TRUE

IpamInit ==
    /\ up = [n \in Nodes |-> TRUE]
    /\ pc = [w \in Workers |-> "idle"]
    /\ claim = [w \in Workers |-> NoClaim]
    /\ pool = [w \in Workers |-> NoChoice]
    /\ seen = [w \in Workers |-> NoPool]
    /\ address = [w \in Workers |-> NoAddress]
    /\ answers = {}
    /\ committed = {}

\* The requests of the workers S are over.
End(S) ==
    /\ pc' = [w \in Workers |-> IF w \in S THEN "idle" ELSE pc[w]]
    /\ claim' = [w \in Workers |-> IF w \in S THEN NoClaim ELSE claim[w]]
    /\ pool' = [w \in Workers |-> IF w \in S THEN NoChoice ELSE pool[w]]
    /\ seen' = [w \in Workers |-> IF w \in S THEN NoPool ELSE seen[w]]
    /\ address' = [w \in Workers |-> IF w \in S THEN NoAddress ELSE address[w]]

\* The request ends with an error: FindOrCreateClusterIP returned one.
Fail(w) == End({w}) /\ UNCHANGED <<up, answers, committed, apiVars>>

Answer(w, p, a) ==
    answers' = answers \cup {[claim |-> claim[w], pool |-> p, address |-> a]}

Go(w, step) == pc' = [pc EXCEPT ![w] = step]

\* A panic in a goroutine ends the daemon and every request it serves.
StopDaemon(n) ==
    /\ up' = [up EXCEPT ![n] = FALSE]
    /\ End({w \in Workers : NodeOf[w] = n})

-----------------------------------------------------------------------------
(***************************************************************************)
(* findEmptyClusterIPPool and the arithmetic of createClusterIP.           *)
(***************************************************************************)

\* Pools of the family that still count a free address.
FreePools(family) ==
    {p \in Pools : /\ Exists(pools[p])
                   /\ SpecOf[p].ipFamily = family
                   /\ pools[p].free > 0}

\* The one findEmptyClusterIPPool returns: the API server lists in name order.
EmptyPool(family) == {p \in FreePools(family) : \A q \in FreePools(family) : p <= q}

\* Mutant of Exhausted: only the first operand, as the code reads.
ExhaustedAtLast(object) == object.next = object.total - 1

(***************************************************************************)
(* idx.Cmp(totalIps.Sub(totalIps, 1)) == 0 || idx.Cmp(totalIps.Sub(...))   *)
(* == 1: big.Int.Sub writes its receiver, so the second operand compares   *)
(* with total - 2.  Either way idx >= total - 1.                           *)
(***************************************************************************)
Exhausted(object) ==
    \/ object.next = object.total - 1
    \/ object.next > object.total - 2

\* Mutant of Counted: the index of the pool stays where it is.
CountedSameIndex(object) ==
    [object EXCEPT !.allocated = @ + 1, !.free = @ - 1, !.total = @ - 3]

\* Mutant of Counted: the index moves on by two.
CountedSkipping(object) ==
    [CountedSameIndex(object) EXCEPT !.next = @ + 2]

\* Mutant of Counted: the free counter is forgotten.
CountedStillFree(object) ==
    [object EXCEPT !.allocated = @ + 1, !.total = @ - 3, !.next = @ + 1]

\* Mutant of Counted: the allocation is taken off the allocated ones.
CountedDown(object) ==
    [object EXCEPT !.allocated = @ - 1, !.free = @ - 1, !.total = @ - 3, !.next = @ + 1]

(***************************************************************************)
(* The status createClusterIP writes once the ClusterIP exists.  A third   *)
(* Sub has left total - 3 in totalIps, which is compared with and written. *)
(***************************************************************************)
Counted(object) ==
    LET left == object.total - 3
    IN  [object EXCEPT
            !.allocated = @ + 1,
            !.free = @ - 1,
            !.total = left,
            !.next = IF object.next < left THEN @ + 1 ELSE @]

-----------------------------------------------------------------------------
\* An ADD arrives: Get of the pod, then the List finds the claim's ClusterIP.
FindClusterIP(w, c) ==
    /\ up[NodeOf[w]] /\ pc[w] = "idle"
    /\ \E n \in Selected(c) :
          /\ pool' = [pool EXCEPT ![w] = cips[n].pool]
          /\ address' = [address EXCEPT ![w] = cips[n].address]
    /\ Go(w, "getPool")
    /\ claim' = [claim EXCEPT ![w] = c]
    /\ UNCHANGED <<up, seen, answers, committed, apiVars>>

\* An ADD arrives and the List finds none: one has to be created.
MissClusterIP(w, c) ==
    /\ up[NodeOf[w]] /\ pc[w] = "idle"
    /\ Selected(c) = {}
    /\ Go(w, "pick")
    /\ claim' = [claim EXCEPT ![w] = c]
    /\ UNCHANGED <<up, pool, seen, address, answers, committed, apiVars>>

\* Mutant of GetPool: only a pool that still has an index is good enough.
GetPoolWithIndex(w) ==
    /\ pc[w] = "getPool"
    /\ Exists(pools[pool[w]]) /\ ~Exhausted(pools[pool[w]])
    /\ Answer(w, pool[w], address[w])
    /\ End({w})
    /\ UNCHANGED <<up, committed, apiVars>>

\* The pool of the ClusterIP found: the request is answered.
GetPool(w) ==
    /\ pc[w] = "getPool"
    /\ Exists(pools[pool[w]])
    /\ Answer(w, pool[w], address[w])
    /\ End({w})
    /\ UNCHANGED <<up, committed, apiVars>>

\* "no free %s pool"
NoFreePool(w) ==
    /\ pc[w] = "pick"
    /\ EmptyPool(claim[w].family) = {}
    /\ Fail(w)

\* The pool still has an index to hand out.
PickFresh(w, p) ==
    LET picked == PickUsableIPFromCIDRIndex(SpecOf[p].cidr, pools[p].next)
    IN  /\ pc[w] = "pick"
        /\ p \in EmptyPool(claim[w].family)
        /\ ~Exhausted(pools[p])
        /\ IF picked = NoAddress
           THEN Fail(w)
           ELSE /\ Go(w, "create")
                /\ pool' = [pool EXCEPT ![w] = p]
                /\ seen' = [seen EXCEPT ![w] = pools[p]]
                /\ address' = [address EXCEPT ![w] = picked]
                /\ UNCHANGED <<up, claim, answers, committed, apiVars>>

\* It has none left: the head of releasedClusterIPs is taken.
PickReleased(w, p) ==
    /\ pc[w] = "pick"
    /\ p \in EmptyPool(claim[w].family)
    /\ Exhausted(pools[p])
    /\ pools[p].released # <<>>
    /\ Go(w, "getReleased")
    /\ pool' = [pool EXCEPT ![w] = p]
    /\ seen' = [seen EXCEPT ![w] = pools[p]]
    /\ UNCHANGED <<up, claim, address, answers, committed, apiVars>>

\* It has none left and the list is empty: index out of range, a panic.
PickReleasedPanics(w, p) ==
    /\ pc[w] = "pick"
    /\ p \in EmptyPool(claim[w].family)
    /\ Exhausted(pools[p])
    /\ pools[p].released = <<>>
    /\ StopDaemon(NodeOf[w])
    /\ UNCHANGED <<answers, committed, apiVars>>

\* Create: the ClusterIP carries the address picked from the snapshot.
CreateClusterIP(w) ==
    LET n == NameOf(claim[w])
    IN  /\ pc[w] = "create"
        /\ ~Exists(cips[n])
        /\ cips' = [cips EXCEPT ![n] =
                       [rv |-> 1, pool |-> pool[w], address |-> address[w],
                        resource |-> claim[w].resource,
                        iface |-> claim[w].iface, family |-> claim[w].family]]
        /\ Go(w, "commit")
        /\ UNCHANGED <<up, claim, pool, seen, address, answers, committed, pools>>

\* The name is taken: by a request for the same claim, or by another claim.
AlreadyExists(w) ==
    /\ pc[w] = "create"
    /\ Exists(cips[NameOf(claim[w])])
    /\ Fail(w)

\* Status().Update of the pool.  The reply may be lost on its way back.
CommitPool(w) ==
    /\ pc[w] = "commit"
    /\ Fresh(pools[pool[w]], seen[w])
    /\ StatusUpdate(pool[w], Counted(seen[w]))
    /\ committed' = committed \cup {NameOf(claim[w])}
    /\ \/ Answer(w, pool[w], address[w])
       \/ UNCHANGED answers
    /\ End({w})
    /\ UNCHANGED <<up, cips>>

\* The pool has changed since it was listed: the ClusterIP just created stays.
CommitConflict(w) ==
    /\ pc[w] = "commit"
    /\ ~Fresh(pools[pool[w]], seen[w])
    /\ Fail(w)

\* The ClusterIP that releasedClusterIPs names does, or does not, exist.
GetReleased(w) ==
    /\ pc[w] = "getReleased"
    /\ IF Exists(cips[Head(seen[w].released)])
       THEN /\ Go(w, "popReleased")
            /\ UNCHANGED <<up, claim, pool, seen, address, answers, committed, apiVars>>
       ELSE Fail(w)

(***************************************************************************)
(* The head is taken off the list and the ClusterIP returned with a nil    *)
(* pool, which handleAdd dereferences: the daemon goes down.  If the reply *)
(* is lost on its way back the request fails.                              *)
(***************************************************************************)
PopReleased(w) ==
    /\ pc[w] = "popReleased"
    /\ Fresh(pools[pool[w]], seen[w])
    /\ StatusUpdate(pool[w], [seen[w] EXCEPT !.released = Tail(@)])
    /\ \/ StopDaemon(NodeOf[w])
       \/ End({w}) /\ UNCHANGED up
    /\ UNCHANGED <<answers, committed, cips>>

PopConflict(w) ==
    /\ pc[w] = "popReleased"
    /\ ~Fresh(pools[pool[w]], seen[w])
    /\ Fail(w)

\* A call cannot be made: every error path returns at once and undoes nothing.
CallFails(w) == pc[w] # "idle" /\ Fail(w)

CrashDaemon(n) ==
    /\ up[n]
    /\ StopDaemon(n)
    /\ UNCHANGED <<answers, committed, apiVars>>

RestartDaemon(n) ==
    /\ ~up[n]
    /\ up' = [up EXCEPT ![n] = TRUE]
    /\ UNCHANGED <<jobVars, answers, committed, apiVars>>

WorkerStep(w) ==
    \/ GetPool(w)
    \/ NoFreePool(w)
    \/ \E p \in Pools : PickFresh(w, p) \/ PickReleased(w, p) \/ PickReleasedPanics(w, p)
    \/ CreateClusterIP(w)
    \/ AlreadyExists(w)
    \/ CommitPool(w)
    \/ CommitConflict(w)
    \/ GetReleased(w)
    \/ PopReleased(w)
    \/ PopConflict(w)

IpamNext ==
    \/ \E w \in Workers :
          \/ \E c \in Claims : FindClusterIP(w, c) \/ MissClusterIP(w, c)
          \/ WorkerStep(w)
          \/ CallFails(w)
    \/ \E n \in Nodes : CrashDaemon(n) \/ RestartDaemon(n)
=============================================================================
