------------------------------ MODULE KubeApi -------------------------------
(***************************************************************************)
(* The two custom resources that the network controller and the IPAM       *)
(* client share, and the API server operations the code performs on them.  *)
(*                                                                         *)
(* Neither component keeps a cache: every read goes to the API server      *)
(* (pkg/k8s/client.go), so a call is atomic and what can go wrong lies     *)
(* between two calls.  resourceVersion is the optimistic lock: Update and  *)
(* Status().Update of an object read at an older version are refused with  *)
(* a Conflict.  Both CRDs enable the status subresource: Create drops the  *)
(* status, Status().Update drops the spec.                                 *)
(***************************************************************************)
EXTENDS NetUtils, Sequences

CONSTANTS
    Pools,        \* names of ClusterIPPools; the API server lists them in order
    SpecOf,       \* the spec of each pool: [ipFamily, cidr]
    Resources,    \* "namespace/name" of a virtual machine or a pod
    Ifaces,       \* container interface names
    Dashed,       \* a resource with every "/" replaced by "-"
    Claims        \* what CNI ADDs ask an address for

ASSUME PoolsAssumption == Pools \subseteq Nat /\ Pools # {}
ASSUME SpecAssumption ==
    SpecOf \in [Pools -> [ipFamily : Families, cidr : CIDRs]]
ASSUME ClaimsAssumption ==
    /\ Claims \subseteq [resource : Resources, iface : Ifaces, family : Families]
    /\ Claims # {}

\* metadata.name of a ClusterIP: the dashed resource and the interface.
Names == {<<Dashed[r], i>> : r \in Resources, i \in Ifaces}

VARIABLES
    pools,        \* the ClusterIPPool objects
    cips          \* the ClusterIP objects

apiVars == <<pools, cips>>

(***************************************************************************)
(* A pool: resourceVersion, the four counters of the status (decimal       *)
(* strings in the code, "" read as 0 by StringToBigInt), whether the Ready *)
(* condition says InvalidCIDR, and releasedClusterIPs.  Version 0 is an    *)
(* object that does not exist.                                             *)
(***************************************************************************)
PoolObjects ==
    [rv : Nat, total : Int, allocated : Nat, free : Nat, next : Nat,
     invalid : BOOLEAN, released : Seq(Names)]

NoPool == [rv |-> 0, total |-> 0, allocated |-> 0, free |-> 0, next |-> 0,
           invalid |-> FALSE, released |-> <<>>]

\* A ClusterIP.  Resource and interface are the fields the List calls select on.
ClusterIPs ==
    [rv : Nat, pool : Pools, address : Int, resource : Resources,
     iface : Ifaces, family : Families]

NoClusterIP ==
    [rv |-> 0, pool |-> CHOOSE p \in Pools : TRUE, address |-> NoAddress,
     resource |-> CHOOSE r \in Resources : TRUE,
     iface |-> CHOOSE i \in Ifaces : TRUE, family |-> "v4"]

Exists(object) == object.rv > 0

ApiTypeOK ==
    /\ pools \in [Pools -> PoolObjects]
    /\ cips \in [Names -> ClusterIPs]

ApiInit ==
    /\ pools = [p \in Pools |-> NoPool]
    /\ cips = [n \in Names |-> NoClusterIP]

\* Mutant of Fresh: a server that ignores resourceVersion.
FreshAlways(object, read) == TRUE

\* The optimistic lock: the object is still the one the client has read.
Fresh(object, read) == object.rv = read.rv

\* Status().Update of pool p with the object the client has changed.
StatusUpdate(p, object) ==
    pools' = [pools EXCEPT ![p] = [object EXCEPT !.rv = pools[p].rv + 1]]

NameOf(claim) == <<Dashed[claim.resource], claim.iface>>

\* Mutant of Selected: the interface is left out of the selector.
SelectedAnyIface(claim) ==
    {n \in Names : Exists(cips[n]) /\ cips[n].resource = claim.resource}

\* Mutant of Selected: the resource is left out of the selector.
SelectedAnyResource(claim) ==
    {n \in Names : Exists(cips[n]) /\ cips[n].iface = claim.iface}

\* The field selector of FindOrCreateClusterIP's List.
Selected(claim) ==
    {n \in Names : /\ Exists(cips[n])
                   /\ cips[n].resource = claim.resource
                   /\ cips[n].iface = claim.iface
                   /\ cips[n].family = claim.family}

-----------------------------------------------------------------------------
\* An administrator creates a pool: the API server drops any status given.
CreatePool(p) ==
    /\ ~Exists(pools[p])
    /\ pools' = [pools EXCEPT ![p] = [NoPool EXCEPT !.rv = 1]]
    /\ UNCHANGED cips

\* An administrator writes the name of a ClusterIP into releasedClusterIPs.
\* The allocator consumes that list and nothing in the code fills it.
ReleaseByHand(p, n) ==
    /\ Exists(pools[p])
    /\ StatusUpdate(p, [pools[p] EXCEPT !.released = Append(@, n)])
    /\ UNCHANGED cips
=============================================================================
