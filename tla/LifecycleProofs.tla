--------------------------- MODULE LifecycleProofs ---------------------------
(***************************************************************************)
(* The safety properties of Lifecycle for every set of pools, claims,      *)
(* workers, nodes and virtual machines, with and without failing calls:    *)
(* LInv is inductive for the ClusterIPs and the packets about them, CInv   *)
(* for the credentials.                                                    *)
(***************************************************************************)
EXTENDS Lifecycle, AllocationTheorems

-----------------------------------------------------------------------------
(***************************************************************************)
(* The allocators' invariant survives what the KubeVirt controller writes, *)
(* because it says nothing of a ClusterIP's interface; what a machine has  *)
(* been told stays its own, because no step takes an address away.         *)
(***************************************************************************)
\* The interface of a claim's ClusterIP is the claim's, or cleared.
IfaceKept ==
    \A c \in Claims : Exists(cips[NameOf(c)]) => cips[NameOf(c)].iface \in {c.iface, NoIface}

\* OnUpdateVMI is left with ClusterIPs that exist.
LeftExist == \A n \in release.left : Exists(cips[n])

\* Address a is one of machine v's.
Owns(v, a) == \E n \in ClusterIPsOf(v) : cips[n].address = a

PacketsOwned == \A m \in offers \cup requests \cup acks : Owns(m.client[1], m.address)

LInv ==
    /\ IInv
    /\ VmTypeOK
    /\ DhcpTypeOK
    /\ IfaceKept
    /\ LeftExist
    /\ PacketsOwned
    /\ LeasesOwned

-----------------------------------------------------------------------------
(* What the steps do to the ClusterIPs. *)

\* A ClusterIP there is keeps all but its interface, which may be cleared.
Kept(n) ==
    /\ cips'[n].rv \in Nat /\ Exists(cips'[n])
    /\ cips'[n].pool = cips[n].pool /\ cips'[n].address = cips[n].address
    /\ cips'[n].resource = cips[n].resource /\ cips'[n].family = cips[n].family
    /\ cips'[n].iface \in {cips[n].iface, NoIface}

AllKept == \A n \in Names : Exists(cips[n]) => Kept(n)

LEMMA ReleaseWrites ==
    ASSUME IInv, LeftExist, VmTypeOK, NEW n \in Names, ReleaseClusterIP(n)
    PROVE  /\ AllKept
           /\ cips' \in [Names -> ClusterIPs]
           /\ \A m \in Names : Exists(cips'[m]) => Exists(cips[m])
           /\ pools' = pools
<1> DEFINE cip == [cips[n] EXCEPT !.iface = NoIface, !.rv = cips[n].rv + 1]
<1>1. /\ cips' = [cips EXCEPT ![n] = cip] /\ pools' = pools
      /\ n \in release.left
  BY DEF ReleaseClusterIP
<1>2. /\ cips \in [Names -> ClusterIPs] /\ Exists(cips[n])
  BY <1>1 DEF IInv, TypeOK, ApiTypeOK, LeftExist
<1>3. /\ cip \in ClusterIPs /\ cip.rv \in Nat /\ cip.rv > 0
      /\ cip.pool = cips[n].pool /\ cip.address = cips[n].address
      /\ cip.resource = cips[n].resource /\ cip.family = cips[n].family
      /\ cip.iface = NoIface
  <2> DEFINE version == cips[n].rv + 1
  <2>1. version \in Nat /\ version > 0
    BY <1>2 DEF ClusterIPs
  <2> HIDE DEF version
  <2>2. [cips[n] EXCEPT !.iface = NoIface, !.rv = version] \in ClusterIPs
    BY <1>2, <2>1, NoIfaceAssumption DEF ClusterIPs
  <2>3. QED
    BY <1>2, <2>1, <2>2 DEF ClusterIPs, version
<1> HIDE DEF cip
<1>4. cips' \in [Names -> ClusterIPs]
  BY <1>1, <1>2, <1>3
<1>5. AllKept
  <2> SUFFICES ASSUME NEW m \in Names, Exists(cips[m]) PROVE Kept(m)
    BY DEF AllKept
  <2>1. CASE m = n
    BY <1>1, <1>2, <1>3, <2>1 DEF Kept, Exists
  <2>2. CASE m # n
    <3>1. cips'[m] = cips[m] /\ cips[m].rv \in Nat
      BY <1>1, <1>2, <2>2 DEF ClusterIPs
    <3>2. QED
      BY <3>1 DEF Kept
  <2>3. QED
    BY <2>1, <2>2
<1>6. QED
  BY <1>1, <1>2, <1>4, <1>5

\* The allocators' invariant allows an interface to be cleared.
LEMMA ReleaseKeeps ==
    ASSUME IInv, AllKept, cips' \in [Names -> ClusterIPs],
           \A m \in Names : Exists(cips'[m]) => Exists(cips[m]),
           UNCHANGED <<pools, controllerVars, ipamVars>>
    PROVE  IInv'
<1>1. /\ UNCHANGED <<alive, queue, handling, read>>
      /\ UNCHANGED <<up, pc, claim, pool, seen, address, answers, committed>>
  BY DEF controllerVars, ipamVars, jobVars
<1>2. /\ cips \in [Names -> ClusterIPs] /\ committed \subseteq Names /\ answers \subseteq Answers
      /\ claim \in [Workers -> Claims]
  BY DEF IInv, TypeOK, ApiTypeOK, IpamTypeOK
<1>3. TypeOK'
  BY <1>1 DEF IInv, TypeOK, ApiTypeOK, ControllerTypeOK, IpamTypeOK
<1>4. PoolAccounting' /\ AbsentBlank' /\ ControllerInv'
  BY <1>1 DEF IInv, PoolAccounting, AbsentBlank, ControllerInv, Snapshot, Capacity
<1>5. ASSUME NEW c \in Claims, NEW p, NEW a, Recorded(c, p, a) PROVE Recorded(c, p, a)'
  BY <1>5, NameOfClaim DEF AllKept, Kept, Recorded, NameOf
<1>6. Jobs'
  <2> SUFFICES ASSUME NEW w \in Workers PROVE Job(w)'
    BY DEF Jobs
  <2>1. Job(w) /\ claim[w] \in Claims
    BY <1>2 DEF IInv, Jobs
  <2>2. Picked(w) => Picked(w)'
    BY <1>1 DEF Picked, Capacity
  <2>3. Snapshot(seen[w], pool[w]) => Snapshot(seen[w], pool[w])'
    BY <1>1 DEF Snapshot
  <2>4. QED
    BY <1>1, <1>5, <2>1, <2>2, <2>3 DEF Job, NameOf
<1>7. OneCreator'
  BY <1>1 DEF IInv, OneCreator, NameOf
<1>8. SelectedNamed'
  <2> SUFFICES ASSUME NEW c \in Claims, NEW n \in Selected(c)' PROVE n = NameOf(c)
    BY DEF SelectedNamed, NameOf
  <2>1. /\ n \in Names /\ Exists(cips[n]) /\ Kept(n)
        /\ cips'[n].resource = c.resource /\ cips'[n].iface = c.iface
        /\ cips'[n].family = c.family
    BY DEF Selected, AllKept
  <2>2. cips[n].iface = c.iface
    BY <2>1, NoIfaceAssumption DEF Kept
  <2>3. QED
    BY <2>1, <2>2 DEF Kept, Selected, IInv, SelectedNamed
<1>9. AddressUsable' /\ CommittedExist'
  BY <1>1, <1>2 DEF IInv, AddressUsable, CommittedExist, AllKept, Kept
<1>10. CommittedDistinct' /\ CommittedContiguous'
  <2>1. \A n \in committed : /\ cips'[n].pool = cips[n].pool
                             /\ cips'[n].address = cips[n].address
    BY <1>2 DEF IInv, CommittedExist, AllKept, Kept
  <2>2. \A p \in Pools : CommittedAddresses(p)' = CommittedAddresses(p)
    BY <1>1, <2>1 DEF CommittedAddresses
  <2>3. QED
    BY <1>1, <2>1, <2>2 DEF IInv, CommittedDistinct, CommittedContiguous
<1>11. AnswersBacked'
  BY <1>1, <1>2, <1>5 DEF IInv, AnswersBacked, Answers
<1>12. QED
  BY <1>3, <1>4, <1>6, <1>7, <1>8, <1>9, <1>10, <1>11 DEF IInv

LEMMA NextWritesCips ==
    ASSUME IInv, [Next]_vars, IfaceKept
    PROVE  AllKept /\ IfaceKept'
<1>1. cips \in [Names -> ClusterIPs]
  BY DEF IInv, TypeOK, ApiTypeOK
<1>2. CASE cips' = cips
  BY <1>1, <1>2 DEF AllKept, Kept, ClusterIPs, IfaceKept, NameOf
<1>3. ASSUME NEW w \in Workers, CreateClusterIP(w) PROVE AllKept /\ IfaceKept'
  <2> DEFINE n == NameOf(claim[w])
             cip == [rv |-> 1, pool |-> pool[w], address |-> address[w],
                     resource |-> claim[w].resource,
                     iface |-> claim[w].iface, family |-> claim[w].family]
  <2>1. ~Exists(cips[n]) /\ cips' = [cips EXCEPT ![n] = cip] /\ n \in Names
    BY <1>3, WorkerTypes, NameOfClaim DEF CreateClusterIP
  <2>2. AllKept
    <3> HIDE DEF n, cip
    <3>1. \A m \in Names : Exists(cips[m]) => cips'[m] = cips[m]
      BY <1>1, <2>1
    <3>2. QED
      BY <1>1, <3>1 DEF AllKept, Kept, ClusterIPs
  <2>3. IfaceKept'
    <3> SUFFICES ASSUME NEW c \in Claims, Exists(cips'[NameOf(c)])
                 PROVE  cips'[NameOf(c)].iface \in {c.iface, NoIface}
      BY DEF IfaceKept, NameOf
    <3>1. NameOf(c) \in Names
      BY NameOfClaim
    <3>2. CASE NameOf(c) = n
      <4>1. c.iface = claim[w].iface /\ cips'[NameOf(c)] = cip
        BY <1>1, <2>1, <3>2 DEF NameOf
      <4>2. QED
        BY <4>1
    <3>3. CASE NameOf(c) # n
      <4> HIDE DEF n, cip
      <4>1. cips'[NameOf(c)] = cips[NameOf(c)]
        BY <1>1, <2>1, <3>1, <3>3
      <4>2. QED
        BY <4>1 DEF IfaceKept
    <3>4. QED
      BY <3>2, <3>3
  <2>4. QED
    BY <2>2, <2>3
<1>4. QED
  BY <1>2, <1>3, NextCips

\* What a machine owns it goes on owning.
LEMMA OwnsKept ==
    ASSUME AllKept
    PROVE  \A v, a : Owns(v, a) => Owns(v, a)'
BY DEF AllKept, Kept, Owns, ClusterIPsOf

-----------------------------------------------------------------------------
(* The KubeVirt controller's steps. *)

VmWrites == \E n \in Names : ReleaseClusterIP(n)

LEMMA VmNextCases ==
    ASSUME VmNext
    PROVE  VmWrites \/ UNCHANGED apiVars
BY DEF VmNext, CreateVM, DeleteVM, UpdateVMI, StartVmController, CrashVmController, Stop,
       VmHandler, GetVM, CreateSecret, PatchVM, DeleteSecret, ReleaseOfDeleted,
       ReleaseOfDeletedPanics, VmCallFails, VmiHandler, GetVMI, ListClusterIPs,
       VmiCallFails, VmWrites

LEMMA NoReleaseTyped == NoRelease \in Releases /\ NoRelease.left = {}
<1>1. PICK v \in VMs : TRUE
  BY VmAssumption
<1>2. (CHOOSE u \in VMs : TRUE) \in VMs
  BY <1>1
<1>3. QED
  BY <1>2 DEF NoRelease, Releases, Reports

\* Sending an event, and ending its handling.
LEMMA EventsTyped ==
    ASSUME events \in Seq(Events)
    PROVE  /\ \A kind \in {"add", "delete"}, v \in VMs :
                  Deliver(kind, v) => events' \in Seq(Events)
           /\ events # <<>> => /\ Head(events) \in Events /\ Subject \in VMs
                              /\ Tail(events) \in Seq(Events)
<1>1. ASSUME NEW kind \in {"add", "delete"}, NEW v \in VMs, Deliver(kind, v)
      PROVE  events' \in Seq(Events)
  <2>1. [kind |-> kind, vm |-> v] \in Events
    BY DEF Events
  <2>2. QED
    BY <1>1, <2>1 DEF Deliver
<1>2. ASSUME events # <<>>
      PROVE  Head(events) \in Events /\ Subject \in VMs /\ Tail(events) \in Seq(Events)
  <2>1. Head(events) \in Events /\ Tail(events) \in Seq(Events)
    BY <1>2
  <2>2. QED
    BY <2>1 DEF Events, Subject
<1>3. QED
  BY <1>1, <1>2

LEMMA EndUpdateTyped ==
    ASSUME VmTypeOK, NEW n, EndUpdate(n)
    PROVE  release' \in Releases /\ release'.left \subseteq release.left
<1>1. release \in Releases
  BY DEF VmTypeOK
<1>2. [release EXCEPT !.left = release.left \ {n}] \in Releases
  BY <1>1 DEF Releases
<1>3. QED
  BY <1>1, <1>2, NoReleaseTyped DEF EndUpdate, Releases

\* The events of a start are a sequence: one Add for each machine there is.
LEMMA StartTyped ==
    ASSUME StartVmController
    PROVE  events' \in Seq(Events)
<1> DEFINE there == {v \in VMs : Exist(v)}
<1>1. Cardinality(there) \in Nat
  BY VmAssumption, FS_Subset, FS_CardinalityType
<1>2. PICK order \in [1 .. Cardinality(there) -> there] :
         events' = [i \in DOMAIN order |-> [kind |-> "add", vm |-> order[i]]]
  BY DEF StartVmController
<1> DEFINE k == Cardinality(there)
<1>3. events' \in [1 .. k -> Events]
  BY <1>2 DEF Events
<1> HIDE DEF k
<1>4. k \in Nat
  BY <1>1 DEF k
<1>5. QED
  BY <1>3, <1>4

LEMMA StopTyped ==
    ASSUME VmTypeOK, Stop
    PROVE  VmTypeOK' /\ release'.left = {}
<1>1. <<>> \in Seq(Events)
  OBVIOUS
<1>2. disturbed' \subseteq VMs
  BY DEF VmTypeOK, Stop
<1>3. /\ running' = FALSE /\ events' = <<>> /\ step' = "get" /\ updates' = {}
      /\ release' = NoRelease /\ UNCHANGED <<vms, secrets, reported>>
  BY DEF Stop
<1>4. QED
  BY <1>1, <1>2, <1>3, NoReleaseTyped DEF VmTypeOK

\* Handlers of the virtual machine informer.
LEMMA VmHandlerTyped ==
    ASSUME VmTypeOK, VmHandler \/ VmCallFails
    PROVE  VmTypeOK' /\ release'.left \subseteq release.left
<1>1. CASE ReleaseOfDeletedPanics
  BY <1>1, StopTyped DEF ReleaseOfDeletedPanics
<1>2. CASE GetVM
  BY <1>2, EventsTyped DEF VmTypeOK, GetVM, Handling, EndEvent, vmRest
<1>3. CASE CreateSecret
  BY <1>3, EventsTyped DEF VmTypeOK, CreateSecret, Handling, vmRest
<1>4. CASE PatchVM
  BY <1>4, EventsTyped DEF VmTypeOK, PatchVM, Handling, EndEvent, vmRest
<1>5. CASE DeleteSecret
  BY <1>5, EventsTyped DEF VmTypeOK, DeleteSecret, Handling, vmRest
<1>6. CASE ReleaseOfDeleted
  BY <1>6, EventsTyped DEF VmTypeOK, ReleaseOfDeleted, Handling, EndEvent, vmRest
<1>7. CASE VmCallFails
  BY <1>7, EventsTyped DEF VmTypeOK, VmCallFails, EndEvent, vmRest
<1>8. QED
  BY <1>1, <1>2, <1>3, <1>4, <1>5, <1>6, <1>7 DEF VmHandler

LEMMA VmNextTyped ==
    ASSUME VmTypeOK, VmNext
    PROVE  VmTypeOK' /\ \A n \in release'.left : n \in release.left \/ Exists(cips[n])
<1>1. CASE VmHandler \/ VmCallFails
  BY <1>1, VmHandlerTyped
<1>2. ASSUME NEW v \in VMs, CreateVM(v) \/ DeleteVM(v) \/ UpdateVMI(v)
      PROVE  VmTypeOK' /\ release' = release
  <2>1. CASE CreateVM(v)
    BY <2>1, EventsTyped DEF VmTypeOK, CreateVM
  <2>2. CASE DeleteVM(v)
    BY <2>2, EventsTyped DEF VmTypeOK, DeleteVM, Reports
  <2>3. CASE UpdateVMI(v)
    BY <2>3 DEF VmTypeOK, UpdateVMI
  <2>4. QED
    BY <1>2, <2>1, <2>2, <2>3
<1>3. CASE StartVmController
  BY <1>3, StartTyped DEF VmTypeOK, StartVmController
<1>4. CASE CrashVmController
  BY <1>4, StopTyped DEF CrashVmController
<1>5. CASE VmiHandler \/ VmiCallFails
  <2>1. UNCHANGED vmiRest /\ updates' \subseteq VMs
    BY <1>5 DEF VmiHandler, VmiCallFails, GetVMI, ListClusterIPs, ReleaseClusterIP, VmTypeOK
  <2> DEFINE Typed == /\ release' \in Releases
                      /\ \A n \in release'.left : n \in release.left \/ Exists(cips[n])
  <2>2. Typed
    <3>1. ASSUME NEW v \in VMs, GetVMI(v) PROVE Typed
      <4>1. reported[v] \in Reports /\ release \in Releases
        BY DEF VmTypeOK
      <4>2. [NoRelease EXCEPT !.step = "list", !.vm = v, !.report = reported[v]] \in Releases
        BY <4>1, NoReleaseTyped DEF Releases
      <4>3. [NoRelease EXCEPT !.step = "list", !.vm = v, !.report = reported[v]].left = {}
        BY NoReleaseTyped DEF Releases
      <4>4. QED
        BY <3>1, <4>1, <4>2, <4>3 DEF GetVMI
    <3>2. CASE ListClusterIPs
      <4> DEFINE left == Unreported(release.vm, release.report)
      <4>1. left \subseteq Names /\ \A n \in left : Exists(cips[n])
        BY DEF Unreported, ClusterIPsOf
      <4>2. release' = IF left = {} THEN NoRelease
                       ELSE [release EXCEPT !.step = "update", !.left = left]
        BY <3>2 DEF ListClusterIPs
      <4> HIDE DEF left
      <4>3. release \in Releases
        BY DEF VmTypeOK
      <4>4. /\ [release EXCEPT !.step = "update", !.left = left] \in Releases
            /\ [release EXCEPT !.step = "update", !.left = left].left = left
        BY <4>1, <4>3 DEF Releases
      <4>5. QED
        BY <4>1, <4>2, <4>4, NoReleaseTyped
    <3>3. ASSUME NEW n \in Names, ReleaseClusterIP(n) PROVE Typed
      BY <3>3, EndUpdateTyped DEF ReleaseClusterIP
    <3>4. CASE VmiCallFails
      <4>1. release \in Releases
        BY DEF VmTypeOK
      <4>2. QED
        BY <3>4, <4>1, EndUpdateTyped, NoReleaseTyped DEF VmiCallFails
    <3>5. QED
      BY <1>5, <3>1, <3>2, <3>3, <3>4 DEF VmiHandler
  <2>3. QED
    BY <2>1, <2>2 DEF VmTypeOK, vmiRest
<1>6. QED
  BY <1>1, <1>2, <1>3, <1>4, <1>5 DEF VmNext

LEMMA VmNextLInv ==
    ASSUME LInv, VmNext, UNCHANGED <<allocators, dhcpVars>>
    PROVE  LInv' /\ LedgerNow' = LedgerNow
<1>1. VmTypeOK' /\ \A n \in release'.left : n \in release.left \/ Exists(cips[n])
  BY VmNextTyped DEF LInv
<1>2. release'.left \subseteq Names
  BY <1>1 DEF VmTypeOK, Releases
<1>3. /\ UNCHANGED <<controllerVars, ipamVars>>
      /\ UNCHANGED <<offers, requests, acks, leases>> /\ committed' = committed
  BY DEF allocators, dhcpVars, ipamVars
<1>4. AllKept /\ IInv' /\ IfaceKept'
  <2>1. CASE VmWrites
    <3>1. PICK n \in Names : ReleaseClusterIP(n)
      BY <2>1 DEF VmWrites
    <3>2. /\ AllKept /\ cips' \in [Names -> ClusterIPs] /\ pools' = pools
          /\ \A m \in Names : Exists(cips'[m]) => Exists(cips[m])
      BY <3>1, ReleaseWrites DEF LInv
    <3>3. IInv'
      BY <1>3, <3>2, ReleaseKeeps DEF LInv
    <3>4. IfaceKept'
      BY <3>2, NameOfClaim DEF LInv, IfaceKept, AllKept, Kept, NameOf
    <3>5. QED
      BY <3>2, <3>3, <3>4
  <2>2. CASE UNCHANGED apiVars
    <3>1. UNCHANGED vars /\ cips' = cips
      BY <1>3, <2>2 DEF vars, apiVars
    <3>2. QED
      BY <3>1, NextIInv, NextWritesCips DEF LInv
  <2>3. QED
    BY <2>1, <2>2, VmNextCases
<1>5. DhcpTypeOK'
  BY <1>3 DEF LInv, DhcpTypeOK
<1>6. LeftExist'
  BY <1>1, <1>2, <1>4 DEF LInv, LeftExist, AllKept, Kept
<1>7. PacketsOwned'
  BY <1>3, <1>4, OwnsKept DEF LInv, PacketsOwned
<1>8. LeasesOwned'
  BY <1>3, <1>4, OwnsKept DEF LInv, LeasesOwned, Owns
<1>9. LedgerNow' = LedgerNow
  <2>1. \A n \in committed : /\ cips'[n].pool = cips[n].pool
                             /\ cips'[n].address = cips[n].address
    BY <1>4 DEF LInv, IInv, TypeOK, IpamTypeOK, CommittedExist, AllKept, Kept
  <2>2. QED
    BY <1>3, <2>1 DEF LedgerNow
<1>10. QED
  BY <1>1, <1>4, <1>5, <1>6, <1>7, <1>8, <1>9 DEF LInv

-----------------------------------------------------------------------------
(* The DHCP server's steps. *)

\* What is filled into a packet is one of the machine's addresses, or was there.
LEMMA OptionsOwned ==
    ASSUME LInv, NEW v \in VMs, NEW address0 \in Int,
           NEW a \in applyCommonOptions(v, address0)
    PROVE  a \in Int /\ (a = address0 \/ Owns(v, a))
<1>1. \A n \in WithMacOf(v) : cips[n].address \in Int /\ n \in ClusterIPsOf(v)
  BY DEF LInv, IInv, TypeOK, ApiTypeOK, ClusterIPs, WithMacOf, ClusterIPsOf
<1>2. a = address0 \/ \E n \in WithMacOf(v) : a = cips[n].address
  BY DEF applyCommonOptions
<1>3. QED
  BY <1>1, <1>2 DEF Owns

LEMMA DhcpNextLInv ==
    ASSUME LInv, DhcpNext, UNCHANGED <<vars, vmVars>>
    PROVE  LInv' /\ LedgerNow' = LedgerNow
<1>1. UNCHANGED <<cips, committed, release>> /\ VmTypeOK'
  BY DEF vars, apiVars, ipamVars, vmVars, LInv, VmTypeOK
<1>2. IInv' /\ IfaceKept' /\ LeftExist'
  BY <1>1, NextIInv, NextWritesCips DEF LInv, LeftExist
<1>3. \A v, a : Owns(v, a)' <=> Owns(v, a)
  BY <1>1 DEF Owns, ClusterIPsOf
<1>4. /\ offers \subseteq Packets /\ requests \subseteq Packets /\ acks \subseteq Packets
      /\ leases \in [Clients -> Int]
  BY DEF LInv, DhcpTypeOK
<1>5. \A c \in Clients : c[1] \in VMs
  BY DEF Clients
<1>6. leases' = leases => LeasesOwned'
  BY <1>1 DEF LInv, LeasesOwned, ClusterIPsOf
<1> DEFINE Safe == DhcpTypeOK' /\ PacketsOwned' /\ LeasesOwned'
<1>7. ASSUME NEW c \in Clients, handleDiscover(c) PROVE Safe
  <2>1. PICK a \in applyCommonOptions(c[1], NoAddress) :
           offers' = IF a = NoAddress THEN offers
                     ELSE offers \cup {[client |-> c, address |-> a]}
    BY <1>7 DEF handleDiscover
  <2>2. a \in Int /\ (a = NoAddress \/ Owns(c[1], a))
    BY <1>5, <2>1, OptionsOwned DEF NoAddress
  <2>3. UNCHANGED <<requests, acks, leases>>
    BY <1>7 DEF handleDiscover
  <2>4. PacketsOwned' /\ LeasesOwned'
    <3>1. PacketsOwned'
      BY <1>3, <2>1, <2>2, <2>3 DEF LInv, PacketsOwned
    <3>2. LeasesOwned'
      BY <1>6, <2>2, <2>3
    <3>3. QED
      BY <3>1, <3>2
  <2>5. DhcpTypeOK'
    BY <1>4, <2>1, <2>2, <2>3 DEF DhcpTypeOK, Packets
  <2>6. QED
    BY <2>4, <2>5
<1>8. ASSUME NEW c \in Clients, SendRequest(c) PROVE Safe
  <2>1. PICK a \in {m.address : m \in {o \in offers : o.client = c}}
                      \cup ({leases[c]} \ {NoAddress}) :
           requests' = requests \cup {[client |-> c, address |-> a]}
    BY <1>8 DEF SendRequest
  <2>2. UNCHANGED <<offers, acks, leases>>
    BY <1>8 DEF SendRequest
  <2>3. a \in Int /\ Owns(c[1], a)
    BY <1>4, <2>1 DEF Packets, LInv, PacketsOwned, LeasesOwned, Owns
  <2>4. PacketsOwned' /\ LeasesOwned'
    <3>1. PacketsOwned'
      BY <1>3, <2>1, <2>2, <2>3 DEF LInv, PacketsOwned
    <3>2. LeasesOwned'
      BY <1>6, <2>2, <2>3
    <3>3. QED
      BY <3>1, <3>2
  <2>5. DhcpTypeOK'
    BY <1>4, <2>1, <2>2, <2>3 DEF DhcpTypeOK, Packets
  <2>6. QED
    BY <2>4, <2>5
<1>9. ASSUME NEW m \in requests, handleRequest(m) PROVE Safe
  <2>1. PICK a \in applyCommonOptions(m.client[1], m.address) :
           acks' = acks \cup {[m EXCEPT !.address = a]}
    BY <1>9 DEF handleRequest
  <2>2. UNCHANGED <<offers, requests, leases>>
    BY <1>9 DEF handleRequest
  <2>3. m \in Packets /\ m.client \in Clients /\ m.address \in Int
        /\ Owns(m.client[1], m.address)
    BY <1>4, <1>9 DEF Packets, LInv, PacketsOwned
  <2>4. a \in Int /\ Owns(m.client[1], a)
    BY <1>5, <2>1, <2>3, OptionsOwned
  <2> DEFINE ack == [m EXCEPT !.address = a]
  <2>5. ack \in Packets /\ ack.client = m.client /\ ack.address = a
    BY <2>3, <2>4 DEF Packets
  <2>6. acks' = acks \cup {ack}
    BY <2>1
  <2> HIDE DEF ack
  <2>7. PacketsOwned' /\ LeasesOwned'
    <3>1. PacketsOwned'
      BY <1>3, <2>2, <2>4, <2>5, <2>6 DEF LInv, PacketsOwned
    <3>2. LeasesOwned'
      BY <1>6, <2>2
    <3>3. QED
      BY <3>1, <3>2
  <2>8. DhcpTypeOK'
    BY <1>4, <2>2, <2>5, <2>6 DEF DhcpTypeOK
  <2>9. QED
    BY <2>7, <2>8
<1>10. ASSUME NEW m \in acks, ReceiveAck(m) PROVE Safe
  <2>1. leases' = [leases EXCEPT ![m.client] = m.address] /\ UNCHANGED <<offers, requests, acks>>
    BY <1>10 DEF ReceiveAck
  <2>2. m.client \in Clients /\ m.address \in Int /\ Owns(m.client[1], m.address)
    BY <1>4, <1>10 DEF Packets, LInv, PacketsOwned
  <2>3. PacketsOwned' /\ LeasesOwned'
    <3>1. PacketsOwned'
      BY <1>3, <2>1 DEF LInv, PacketsOwned
    <3>2. ASSUME NEW c \in Clients, leases'[c] # NoAddress
          PROVE  \E n \in ClusterIPsOf(c[1]) : cips[n].address = leases'[c]
      BY <1>4, <2>1, <2>2, <3>2 DEF LInv, LeasesOwned, Owns
    <3>3. LeasesOwned'
      BY <1>1, <3>2 DEF LeasesOwned, ClusterIPsOf
    <3>4. QED
      BY <3>1, <3>3
  <2>4. DhcpTypeOK'
    BY <1>4, <2>1, <2>2 DEF DhcpTypeOK
  <2>5. QED
    BY <2>3, <2>4
<1>11. QED
  BY <1>1, <1>2, <1>7, <1>8, <1>9, <1>10 DEF DhcpNext, LInv, LedgerNow

-----------------------------------------------------------------------------
(* The allocators' steps, and the invariant. *)

LEMMA NextLInv ==
    ASSUME LInv, [Next]_vars, UNCHANGED <<vmVars, dhcpVars>>
    PROVE  LInv'
<1>1. IInv' /\ AllKept /\ IfaceKept'
  BY NextIInv, NextWritesCips DEF LInv
<1>2. /\ UNCHANGED <<offers, requests, acks, leases, release>>
      /\ VmTypeOK' /\ DhcpTypeOK'
  BY DEF vmVars, dhcpVars, LInv, VmTypeOK, DhcpTypeOK
<1>3. LeftExist'
  BY <1>1, <1>2 DEF LInv, LeftExist, AllKept, Kept, VmTypeOK, Releases
<1>4. PacketsOwned' /\ LeasesOwned'
  <2>1. PacketsOwned'
    BY <1>1, <1>2, OwnsKept DEF LInv, PacketsOwned
  <2>2. LeasesOwned'
    BY <1>1, <1>2, OwnsKept DEF LInv, LeasesOwned, Owns
  <2>3. QED
    BY <2>1, <2>2
<1>5. QED
  BY <1>1, <1>2, <1>3, <1>4 DEF LInv

LEMMA StutterLInv ==
    ASSUME LInv, UNCHANGED lifecycleVars
    PROVE  LInv' /\ LedgerNow' = LedgerNow
<1>1. UNCHANGED vars /\ UNCHANGED <<vmVars, dhcpVars>>
  BY DEF lifecycleVars
<1>2. UNCHANGED <<cips, committed>>
  BY <1>1 DEF vars, apiVars, ipamVars
<1>3. QED
  BY <1>1, <1>2, NextLInv DEF LedgerNow

LEMMA InitLInv == LifecycleInit => LInv
<1> SUFFICES ASSUME LifecycleInit PROVE LInv
  OBVIOUS
<1>1. IInv
  BY InitIInv DEF LifecycleInit
<1>2. \A n \in Names : ~Exists(cips[n])
  BY DEF LifecycleInit, Init, ApiInit, NoClusterIP, Exists
<1>3. VmTypeOK /\ release.left = {}
  <2>1. <<>> \in Seq(Events)
    OBVIOUS
  <2>2. QED
    BY <2>1, NoReleaseTyped DEF LifecycleInit, VmInit, VmTypeOK, Reports
<1>4. DhcpTypeOK /\ PacketsOwned /\ LeasesOwned
  BY DEF LifecycleInit, DhcpInit, DhcpTypeOK, NoAddress, PacketsOwned, LeasesOwned
<1>5. IfaceKept /\ LeftExist
  BY <1>2, <1>3, NameOfClaim DEF IfaceKept, LeftExist
<1>6. QED
  BY <1>1, <1>3, <1>4, <1>5 DEF LInv

LEMMA StepLInv ==
    ASSUME LInv, [LifecycleNext]_lifecycleVars
    PROVE  LInv' /\ (Ledger!Next \/ LedgerNow' = LedgerNow)
<1>1. CASE Next /\ UNCHANGED <<vmVars, dhcpVars>>
  BY <1>1, NextLInv, NextGrants DEF LInv
<1>2. CASE VmNext /\ UNCHANGED <<allocators, dhcpVars>>
  BY <1>2, VmNextLInv
<1>3. CASE DhcpNext /\ UNCHANGED <<vars, vmVars>>
  BY <1>3, DhcpNextLInv
<1>4. CASE UNCHANGED lifecycleVars
  BY <1>4, StutterLInv
<1>5. QED
  BY <1>1, <1>2, <1>3, <1>4 DEF LifecycleNext

LEMMA LifecycleInvariance == LifecycleSpec => []LInv
BY InitLInv, StepLInv, PTL DEF LifecycleSpec

\* Every variable of the composition keeps its type.
THEOREM LifecycleTypeCorrect == LifecycleSpec => []LifecycleTypeOK
<1>1. LInv => LifecycleTypeOK
  BY DEF LInv, IInv, LifecycleTypeOK
<1>2. QED
  BY <1>1, LifecycleInvariance, PTL

(***************************************************************************)
(* OnUpdateVMI clears interfaces, and nothing else of what was answered to *)
(* a pod is ever taken from its ClusterIP.                                 *)
(***************************************************************************)
THEOREM AnswersStandThrough == LifecycleSpec => []AnswersStand
<1>1. LInv => AnswersStand
  <2> SUFFICES ASSUME LInv, NEW a \in answers
               PROVE  LET cip == cips[NameOf(a.claim)]
                      IN  /\ Exists(cip)
                          /\ cip.pool = a.pool /\ cip.address = a.address
                          /\ cip.resource = a.claim.resource
                          /\ cip.iface \in {a.claim.iface, NoIface}
    BY DEF AnswersStand
  <2>1. a.claim \in Claims /\ Recorded(a.claim, a.pool, a.address)
    BY DEF LInv, IInv, TypeOK, IpamTypeOK, Answers, AnswersBacked
  <2>2. QED
    BY <2>1 DEF LInv, IfaceKept, Recorded
<1>2. QED
  BY <1>1, LifecycleInvariance, PTL

(***************************************************************************)
(* An ACK, however old or repeated, tells a machine an address that is its *)
(* own now (applyCommonOptions falls back on the packet's address only).   *)
(***************************************************************************)
THEOREM LeasesStayOwned == LifecycleSpec => []LeasesOwned
<1>1. LInv => LeasesOwned
  BY DEF LInv
<1>2. QED
  BY <1>1, LifecycleInvariance, PTL

\* The promise of AddressLedger survives the KubeVirt controller's releases.
THEOREM LifecycleRefinement == LifecycleSpec => ImplementsLedger
<1>1. LifecycleInit => Ledger!Init
  BY DEF LifecycleInit, Init, IpamInit, Ledger!Init
<1>2. LInv /\ [LifecycleNext]_lifecycleVars => [Ledger!Next]_LedgerNow
  BY StepLInv
<1>3. QED
  BY <1>1, <1>2, LifecycleInvariance, PTL
     DEF LifecycleSpec, ImplementsLedger, Ledger!Spec, LedgerNow

-----------------------------------------------------------------------------
(***************************************************************************)
(* The promises of allocation hold in the composition as well: the other   *)
(* two components write no pool and create no ClusterIP.                   *)
(***************************************************************************)
Bystanders ==
    /\ UNCHANGED <<pools, ipamVars>>
    /\ AllKept
    /\ \A n \in Names : Exists(cips'[n]) => Exists(cips[n])

LEMMA OthersStandBy ==
    ASSUME LInv,
           \/ VmNext /\ UNCHANGED <<allocators, dhcpVars>>
           \/ DhcpNext /\ UNCHANGED <<vars, vmVars>>
           \/ UNCHANGED lifecycleVars
    PROVE  Bystanders
<1>1. cips \in [Names -> ClusterIPs]
  BY DEF LInv, IInv, TypeOK, ApiTypeOK
<1>2. CASE UNCHANGED <<pools, cips, ipamVars>>
  BY <1>1, <1>2 DEF Bystanders, AllKept, Kept, ClusterIPs
<1>3. CASE VmNext /\ UNCHANGED <<allocators, dhcpVars>>
  <2>1. UNCHANGED ipamVars
    BY <1>3 DEF allocators
  <2>2. CASE VmWrites
    BY <2>1, <2>2, ReleaseWrites DEF VmWrites, LInv, Bystanders
  <2>3. CASE UNCHANGED apiVars
    BY <1>2, <2>1, <2>3 DEF apiVars
  <2>4. QED
    BY <1>3, <2>2, <2>3, VmNextCases
<1>4. QED
  BY <1>2, <1>3 DEF vars, apiVars, lifecycleVars

LEMMA BystandersReach ==
    ASSUME LInv, ReachInv, Bystanders
    PROVE  ReachInv'
<1>1. UNCHANGED <<pools, pc, pool, seen>>
  BY DEF Bystanders, ipamVars, jobVars
<1>2. AbsentEmpty' /\ ReadsOlder'
  BY <1>1 DEF ReachInv, AbsentEmpty, ReadsOlder, Carrying
<1>3. WithinReach'
  BY <1>1 DEF ReachInv, WithinReach, Bystanders, AllKept, Kept, Start
<1>4. QED
  BY <1>2, <1>3 DEF ReachInv

LEMMA LifecycleReach == LifecycleSpec => []ReachInv
<1>1. LifecycleInit => ReachInv
  BY InitReach DEF LifecycleInit
<1>2. LInv /\ ReachInv /\ [LifecycleNext]_lifecycleVars => ReachInv'
  <2> SUFFICES ASSUME LInv, ReachInv, [LifecycleNext]_lifecycleVars PROVE ReachInv'
    OBVIOUS
  <2>1. CASE Next /\ UNCHANGED <<vmVars, dhcpVars>>
    BY <2>1, NextLInv, NextReach DEF LInv
  <2>2. CASE \/ VmNext /\ UNCHANGED <<allocators, dhcpVars>>
             \/ DhcpNext /\ UNCHANGED <<vars, vmVars>>
             \/ UNCHANGED lifecycleVars
    BY <2>2, OthersStandBy, BystandersReach
  <2>3. QED
    BY <2>1, <2>2 DEF LifecycleNext
<1>3. QED
  BY <1>1, <1>2, LifecycleInvariance, PTL DEF LifecycleSpec

\* A release changes no counter and no list.
LEMMA LifecycleWrites ==
    ASSUME LInv, AbsentEmpty, [LifecycleNext]_lifecycleVars
    PROVE  \A p \in Pools : Written(p)
<1>1. CASE Next /\ UNCHANGED <<vmVars, dhcpVars>>
  BY <1>1, NextWrites DEF LInv
<1>2. CASE \/ VmNext /\ UNCHANGED <<allocators, dhcpVars>>
           \/ DhcpNext /\ UNCHANGED <<vars, vmVars>>
           \/ UNCHANGED lifecycleVars
  BY <1>2, OthersStandBy DEF Bystanders, Written
<1>3. QED
  BY <1>1, <1>2 DEF LifecycleNext

LEMMA LifecycleShare == LifecycleSpec => []WithinShare
<1>1. LifecycleInit => WithinShare
  BY InitShare DEF LifecycleInit
<1>2. LInv /\ ReachInv /\ WithinShare /\ [LifecycleNext]_lifecycleVars => WithinShare'
  BY LifecycleWrites, NextWithinShare DEF LInv, ReachInv
<1>3. QED
  BY <1>1, <1>2, LifecycleInvariance, LifecycleReach, PTL DEF LifecycleSpec

(***************************************************************************)
(* Counters, distinct and contiguous allocation, usable addresses, no      *)
(* address lost to a failed request and none beyond the pool's share,      *)
(* while interfaces are released and machines ask for leases.              *)
(***************************************************************************)
THEOREM AllocationStands ==
    LifecycleSpec => [](/\ PoolAccounting
                        /\ CommittedDistinct
                        /\ CommittedContiguous
                        /\ AddressUsable
                        /\ NoAddressLost
                        /\ QuarterUsed
                        /\ AllocatedIsCounted)
<1>1. LInv => /\ PoolAccounting
              /\ CommittedDistinct
              /\ CommittedContiguous
              /\ AddressUsable
              /\ AllocatedIsCounted
  BY CountedAreAllocated DEF LInv, IInv
<1>2. LInv /\ ReachInv => NoAddressLost
  BY ReachIsNext DEF LInv, ReachInv
<1>3. LInv /\ WithinShare => QuarterUsed
  BY QuarterFromShare DEF LInv
<1>4. QED
  BY <1>1, <1>2, <1>3, LifecycleInvariance, LifecycleReach, LifecycleShare, PTL

(***************************************************************************)
(* No step of the composition, restarts and late writes of the controllers *)
(* included, takes a counter of an initialised pool back (NeverReset).     *)
(***************************************************************************)
THEOREM CountersNeverReset == LifecycleSpec => NeverReset
<1> DEFINE Step == \A p \in Pools : Initialised(p) =>
                      /\ pools'[p].allocated >= pools[p].allocated
                      /\ pools'[p].next >= pools[p].next
                      /\ pools'[p].free <= pools[p].free
<1>1. LInv /\ ReachInv /\ [LifecycleNext]_lifecycleVars => [Step]_vars
  <2> SUFFICES ASSUME LInv, AbsentEmpty, [LifecycleNext]_lifecycleVars,
                      NEW p \in Pools, Initialised(p)
               PROVE  /\ pools'[p].allocated >= pools[p].allocated
                      /\ pools'[p].next >= pools[p].next
                      /\ pools'[p].free <= pools[p].free
    BY DEF ReachInv
  <2>1. Written(p) /\ ~Uninitialised(pools[p])
    BY LifecycleWrites DEF Initialised, Uninitialised
  <2>2. pools[p].allocated \in Nat /\ pools[p].next \in Nat /\ pools[p].free \in Nat
    BY DEF LInv, IInv, TypeOK, ApiTypeOK, PoolObjects
  <2>3. QED
    BY <2>1, <2>2 DEF Written, OneCounted, SameCounters
<1>2. QED
  BY <1>1, LifecycleInvariance, LifecycleReach, PTL DEF LifecycleSpec, NeverReset

\* No step of the composition overwrites an edit of releasedClusterIPs (EditsKept).
THEOREM ListEditsSurvive == LifecycleSpec => EditsKept
<1> DEFINE Step ==
      \A p \in Pools :
          \/ pools'[p].released = pools[p].released
          \/ \E n \in Names : pools'[p].released = Append(pools[p].released, n)
          \/ pools[p].released # <<>> /\ pools'[p].released = Tail(pools[p].released)
<1>1. LInv /\ ReachInv /\ [LifecycleNext]_lifecycleVars => [Step]_vars
  BY LifecycleWrites DEF ReachInv, Written, SameList
<1>2. QED
  BY <1>1, LifecycleInvariance, LifecycleReach, PTL DEF LifecycleSpec, EditsKept

-----------------------------------------------------------------------------
(***************************************************************************)
(* The credentials.  What the controller does about a machine is decided   *)
(* by the machine's last event; while one waits, the secret may be wrong,  *)
(* and when the last one has been handled it is right.                     *)
(***************************************************************************)
Settled(v) ==
    IF Exist(v) /\ v \notin NoPassword
    THEN vms[v] = "patched" /\ v \in secrets
    ELSE v \notin secrets

\* The last event of v waits, and it is an Add exactly if v exists.
Awaits(v) ==
    \E i \in DOMAIN events :
        /\ events[i].vm = v
        /\ events[i].kind = "add" <=> Exist(v)
        /\ \A j \in DOMAIN events : j > i => events[j].vm # v

NoEvent(v) == \A i \in DOMAIN events : events[i].vm # v

\* A handler is as far as its event and the secrets say.
Progress ==
    /\ events = <<>> => step = "get"
    /\ ~running => events = <<>>
    /\ events # <<>> /\ Head(events).kind = "add" =>
          /\ step # "release"
          /\ step # "get" => Subject \notin NoPassword
          /\ step = "patch" => Subject \in secrets
    /\ events # <<>> /\ Head(events).kind = "delete" =>
          /\ step \in {"get", "release"}
          /\ step = "release" /\ Subject \notin disturbed => Subject \notin secrets

\* While the controller is down, a machine that is gone has no secret.
LeftClean == ~running => \A v \in VMs \ disturbed : Exist(v) \/ v \notin secrets

CInv ==
    /\ VmTypeOK
    /\ Progress
    /\ secrets \cap NoPassword = {}
    /\ LeftClean
    /\ running => \A v \in VMs \ disturbed : Awaits(v) \/ (Settled(v) /\ NoEvent(v))

-----------------------------------------------------------------------------
\* An event is sent: it is the last one of its machine.
LEMMA SentLast ==
    ASSUME VmTypeOK, NEW e \in Events, events' = Append(events, e)
    PROVE  /\ (e.kind = "add" <=> Exist(e.vm)') => Awaits(e.vm)'
           /\ \A v : v # e.vm /\ (Exist(v) <=> Exist(v)') =>
                 (Awaits(v) => Awaits(v)') /\ (NoEvent(v) => NoEvent(v)')
           /\ events # <<>> => events' # <<>> /\ Head(events') = Head(events)
           /\ events = <<>> => events' # <<>> /\ Head(events') = e
<1>1. /\ events \in Seq(Events) /\ Len(events) \in Nat
      /\ Len(events') = Len(events) + 1 /\ DOMAIN events' = 1 .. Len(events) + 1
      /\ DOMAIN events = 1 .. Len(events)
      /\ \A i \in DOMAIN events : events'[i] = events[i]
      /\ events'[Len(events) + 1] = e
  BY DEF VmTypeOK
<1>2. (e.kind = "add" <=> Exist(e.vm)') => Awaits(e.vm)'
  BY <1>1 DEF Awaits
<1>3. ASSUME NEW v, v # e.vm, Exist(v) <=> Exist(v)'
      PROVE  (Awaits(v) => Awaits(v)') /\ (NoEvent(v) => NoEvent(v)')
  BY <1>1, <1>3 DEF Awaits, NoEvent
<1>4. /\ events # <<>> => events' # <<>> /\ Head(events') = Head(events)
      /\ events = <<>> => events' # <<>> /\ Head(events') = e
  BY <1>1
<1>5. QED
  BY <1>2, <1>3, <1>4

(***************************************************************************)
(* An event has been handled: its machine still awaits a later one, or     *)
(* this was its last and none is left.                                     *)
(***************************************************************************)
LEMMA HandledNext ==
    ASSUME VmTypeOK, events # <<>>, events' = Tail(events)
    PROVE  /\ \A v : (Exist(v) <=> Exist(v)') =>
                 /\ NoEvent(v) => NoEvent(v)'
                 /\ v # Subject /\ Awaits(v) => Awaits(v)'
                 /\ v = Subject /\ Awaits(v) =>
                       \/ Awaits(v)'
                       \/ NoEvent(v)' /\ (Head(events).kind = "add" <=> Exist(v))
           /\ \A v : NoEvent(v) => v # Subject
<1>1. /\ events \in Seq(Events) /\ Len(events) \in Nat \ {0}
      /\ DOMAIN events' = 1 .. Len(events) - 1 /\ DOMAIN events = 1 .. Len(events)
      /\ \A i \in DOMAIN events' : events'[i] = events[i + 1]
      /\ Head(events) = events[1]
  BY DEF VmTypeOK
<1>2. \A v : NoEvent(v) => v # Subject
  BY <1>1 DEF NoEvent, Subject
<1>3. ASSUME NEW v, Exist(v) <=> Exist(v)'
      PROVE  /\ NoEvent(v) => NoEvent(v)'
             /\ v # Subject /\ Awaits(v) => Awaits(v)'
             /\ v = Subject /\ Awaits(v) =>
                   \/ Awaits(v)'
                   \/ NoEvent(v)' /\ (Head(events).kind = "add" <=> Exist(v))
  <2>1. NoEvent(v) => NoEvent(v)'
    BY <1>1 DEF NoEvent
  <2>2. ASSUME Awaits(v)
        PROVE  \/ Awaits(v)'
               \/ /\ v = Subject /\ NoEvent(v)'
                  /\ Head(events).kind = "add" <=> Exist(v)
    <3>1. PICK i \in DOMAIN events :
             /\ events[i].vm = v
             /\ events[i].kind = "add" <=> Exist(v)
             /\ \A j \in DOMAIN events : j > i => events[j].vm # v
      BY <2>2 DEF Awaits
    <3>2. CASE i = 1
      BY <1>1, <3>1, <3>2 DEF NoEvent, Subject
    <3>3. CASE i # 1
      <4>1. i - 1 \in DOMAIN events' /\ events'[i - 1] = events[i]
        BY <1>1, <3>1, <3>3
      <4>2. \A j \in DOMAIN events' : j > i - 1 => events'[j].vm # v
        BY <1>1, <3>1
      <4>3. QED
        BY <1>3, <3>1, <4>1, <4>2 DEF Awaits
    <3>4. QED
      BY <3>2, <3>3
  <2>3. QED
    BY <2>1, <2>2
<1>4. QED
  BY <1>2, <1>3

\* The user creates or deletes a machine: its last event changes with it.
LEMMA SendCInv ==
    ASSUME CInv, NEW v \in VMs, CreateVM(v) \/ DeleteVM(v), VmTypeOK'
    PROVE  CInv'
<1>1. /\ UNCHANGED <<running, secrets, step>> /\ disturbed \subseteq disturbed'
      /\ \A u \in VMs : u # v => vms'[u] = vms[u]
      /\ vms \in [VMs -> {"absent", "plain", "patched"}]
  BY DEF CreateVM, DeleteVM, CInv, VmTypeOK
<1>2. \A u \in VMs : u # v => (Exist(u) <=> Exist(u)') /\ (Settled(u) <=> Settled(u)')
  BY <1>1 DEF Exist, Settled
<1>3. CASE running
  <2>1. PICK kind \in {"add", "delete"} :
           /\ events' = Append(events, [kind |-> kind, vm |-> v])
           /\ kind = "add" <=> Exist(v)'
           /\ disturbed' = disturbed
    BY <1>1, <1>3 DEF CreateVM, DeleteVM, Deliver, Exist
  <2> DEFINE e == [kind |-> kind, vm |-> v]
  <2>2. e \in Events /\ e.kind = kind /\ e.vm = v /\ events' = Append(events, e)
    BY <2>1 DEF Events
  <2> HIDE DEF e
  <2>3. /\ Awaits(v)'
        /\ \A u : u # v /\ (Exist(u) <=> Exist(u)') =>
              (Awaits(u) => Awaits(u)') /\ (NoEvent(u) => NoEvent(u)')
        /\ events # <<>> => events' # <<>> /\ Head(events') = Head(events)
        /\ events = <<>> => events' # <<>> /\ Head(events') = e
    BY <2>1, <2>2, SentLast DEF CInv
  <2>4. \A u \in VMs \ disturbed' : Awaits(u)' \/ (Settled(u)' /\ NoEvent(u)')
    BY <1>2, <1>3, <2>1, <2>3 DEF CInv
  <2>5. Progress'
    BY <1>1, <1>3, <2>1, <2>3 DEF CInv, Progress, Subject
  <2>6. LeftClean'
    BY <1>1, <1>3 DEF LeftClean
  <2>7. QED
    BY <1>1, <2>4, <2>5, <2>6 DEF CInv
<1>4. CASE ~running
  <2>1. events = <<>> /\ events' = <<>> /\ step' = "get"
    BY <1>1, <1>4 DEF CInv, Progress, CreateVM, DeleteVM, Deliver
  <2>2. Exist(v)' \/ v \in disturbed'
    BY <1>1, <1>4 DEF CreateVM, DeleteVM, Exist
  <2>3. LeftClean'
    BY <1>1, <1>2, <1>4, <2>2 DEF CInv, LeftClean
  <2>4. Progress'
    BY <2>1 DEF Progress
  <2>5. QED
    BY <1>1, <1>4, <2>3, <2>4 DEF CInv
<1>5. QED
  BY <1>3, <1>4

(***************************************************************************)
(* The controller starts: the list has each machine there is exactly once, *)
(* and none of the others has a secret left, unless its deletion was missed.*)
(***************************************************************************)
LEMMA StartCInv ==
    ASSUME CInv, StartVmController, VmTypeOK'
    PROVE  CInv'
<1> DEFINE there == {v \in VMs : Exist(v)}
           k == Cardinality(there)
<1>1. IsFiniteSet(there) /\ k \in Nat
  BY VmAssumption, FS_Subset, FS_CardinalityType
<1>2. PICK order \in [1 .. k -> there] :
         /\ \A v \in VMs : Exist(v) => \E i \in DOMAIN order : order[i] = v
         /\ events' = [i \in DOMAIN order |-> [kind |-> "add", vm |-> order[i]]]
  BY DEF StartVmController
<1>3. ~running /\ running' /\ UNCHANGED <<vms, secrets, step, disturbed>>
  BY DEF StartVmController
<1>4. IsInjective(order)
  <2>1. IsFiniteSet(1 .. k) /\ Cardinality(1 .. k) = k
    BY <1>1, FS_Interval
  <2>2. order \in Surjection(1 .. k, there)
    BY <1>2 DEF Surjection
  <2>3. order \in Injection(1 .. k, there)
    BY <2>1, <2>2, FS_SurjSameCardinalityImpliesInj
  <2>4. QED
    BY <2>3 DEF Injection
<1> HIDE DEF k
<1>5. /\ DOMAIN order = 1 .. k /\ DOMAIN events' = 1 .. k
      /\ \A i \in 1 .. k : /\ events'[i].kind = "add" /\ events'[i].vm = order[i]
                          /\ Exist(order[i]) /\ order[i] \in VMs
  BY <1>2
<1>6. \A v \in VMs : Exist(v) => Awaits(v)'
  BY <1>2, <1>3, <1>4, <1>5 DEF Awaits, IsInjective, Exist
<1>7. \A v \in VMs : ~Exist(v) => NoEvent(v)'
  BY <1>5 DEF NoEvent
<1>8. \A v \in VMs \ disturbed : ~Exist(v) => Settled(v)'
  BY <1>3 DEF CInv, LeftClean, Settled, Exist
<1>9. Progress'
  <2>1. step' = "get"
    BY <1>3 DEF CInv, Progress
  <2>2. QED
    BY <1>3, <2>1 DEF Progress
<1>10. LeftClean'
  BY <1>3 DEF LeftClean
<1>11. QED
  BY <1>3, <1>6, <1>7, <1>8, <1>9, <1>10 DEF CInv

\* The controller stops: what waited is lost, and lost deletions are known.
LEMMA StopCInv ==
    ASSUME CInv, running, Stop, VmTypeOK'
    PROVE  CInv'
<1>1. /\ running' = FALSE /\ events' = <<>> /\ step' = "get"
      /\ UNCHANGED <<vms, secrets>>
      /\ disturbed' = disturbed \cup
             {v \in VMs : \E i \in DOMAIN events : events[i] = [kind |-> "delete", vm |-> v]}
  BY DEF Stop
<1>2. \A i \in DOMAIN events :
         /\ events[i].kind \in {"add", "delete"}
         /\ events[i] = [kind |-> events[i].kind, vm |-> events[i].vm]
  <2>1. events \in Seq(Events)
    BY DEF CInv, VmTypeOK
  <2>2. \A i \in DOMAIN events : events[i] \in Events
    BY <2>1
  <2>3. QED
    BY <2>2 DEF Events
<1>3. LeftClean'
  <2> SUFFICES ASSUME NEW v \in VMs \ disturbed', ~Exist(v) PROVE v \notin secrets
    BY <1>1 DEF LeftClean, Exist
  <2>1. v \notin disturbed
    BY <1>1
  <2>2. CASE Awaits(v)
    <3>1. PICK i \in DOMAIN events : events[i].vm = v /\ events[i].kind # "add"
      BY <2>2 DEF Awaits
    <3>2. events[i] = [kind |-> "delete", vm |-> v]
      BY <1>2, <3>1
    <3>3. QED
      BY <1>1, <3>2
  <2>3. CASE Settled(v)
    BY <2>3 DEF Settled
  <2>4. QED
    BY <2>1, <2>2, <2>3 DEF CInv
<1>4. Progress'
  BY <1>1 DEF Progress
<1>5. QED
  BY <1>1, <1>3, <1>4 DEF CInv

\* A handler ends: if that was the machine's last event, all is done for it.
LEMMA EndCInv ==
    ASSUME CInv, VmTypeOK', events # <<>>, EndEvent,
           UNCHANGED <<running, secrets>>, disturbed \subseteq disturbed',
           \A u : Exist(u) <=> Exist(u)',
           \A u \in VMs : u # Subject => (Settled(u) <=> Settled(u)'),
           \A u \in VMs :
              u = Subject /\ u \notin disturbed' /\ (Head(events).kind = "add" <=> Exist(u))
                 => Settled(u)'
    PROVE  CInv'
<1>1. /\ VmTypeOK /\ running /\ running' /\ events' = Tail(events) /\ step' = "get"
      /\ secrets' = secrets
  BY DEF CInv, Progress, EndEvent
<1>2. /\ \A v : /\ NoEvent(v) => NoEvent(v)'
                /\ v # Subject /\ Awaits(v) => Awaits(v)'
                /\ v = Subject /\ Awaits(v) =>
                      \/ Awaits(v)'
                      \/ NoEvent(v)' /\ (Head(events).kind = "add" <=> Exist(v))
      /\ \A v : NoEvent(v) => v # Subject
  BY <1>1, HandledNext
<1>3. ASSUME NEW v \in VMs \ disturbed'
      PROVE  Awaits(v)' \/ (Settled(v)' /\ NoEvent(v)')
  <2>1. Awaits(v) \/ (Settled(v) /\ NoEvent(v))
    BY <1>1 DEF CInv
  <2>2. CASE v = Subject
    BY <1>2, <1>3, <2>1, <2>2
  <2>3. CASE v # Subject
    BY <1>2, <2>1, <2>3
  <2>4. QED
    BY <2>2, <2>3
<1>4. Progress'
  BY <1>1 DEF Progress
<1>5. LeftClean'
  BY <1>1 DEF LeftClean
<1>6. QED
  BY <1>1, <1>3, <1>4, <1>5 DEF CInv

\* A handler goes on with the event it is handling.
LEMMA GoOnCInv ==
    ASSUME CInv, VmTypeOK', events # <<>>, UNCHANGED <<running, vms, events>>,
           disturbed \subseteq disturbed', secrets' \cap NoPassword = {},
           \A u \in VMs : u # Subject => (u \in secrets' <=> u \in secrets),
           Progress'
    PROVE  CInv'
<1>1. running /\ running'
  BY DEF CInv, Progress
<1>2. ASSUME NEW v \in VMs \ disturbed'
      PROVE  Awaits(v)' \/ (Settled(v)' /\ NoEvent(v)')
  <2>1. Awaits(v) \/ (Settled(v) /\ NoEvent(v))
    BY <1>1 DEF CInv
  <2>2. Awaits(v) => Awaits(v)'
    BY DEF Awaits, Exist
  <2>3. CASE Settled(v) /\ NoEvent(v)
    <3>1. v # Subject
      <4>1. events \in Seq(Events)
        BY DEF CInv, VmTypeOK
      <4>2. 1 \in DOMAIN events /\ Head(events) = events[1]
        BY <4>1
      <4>3. QED
        BY <2>3, <4>2 DEF NoEvent, Subject
    <3>2. Settled(v)' /\ NoEvent(v)'
      BY <2>3, <3>1 DEF Settled, Exist, NoEvent
    <3>3. QED
      BY <3>2
  <2>4. QED
    BY <2>1, <2>2, <2>3
<1>3. LeftClean'
  BY <1>1 DEF LeftClean
<1>4. QED
  BY <1>1, <1>2, <1>3 DEF CInv

LEMMA HandlerCInv ==
    ASSUME CInv, VmTypeOK', VmHandler \/ VmCallFails
    PROVE  CInv'
<1>1. ASSUME events # <<>>
      PROVE  /\ Subject \in VMs /\ Head(events).kind \in {"add", "delete"}
             /\ running /\ vms \in [VMs -> {"absent", "plain", "patched"}]
  <2>1. events \in Seq(Events)
    BY DEF CInv, VmTypeOK
  <2>2. Head(events) \in Events
    BY <1>1, <2>1
  <2>3. QED
    BY <1>1, <2>2 DEF CInv, Progress, Events, Subject, VmTypeOK
<1>2. CASE GetVM
  <2>1. /\ events # <<>> /\ Head(events).kind = "add"
        /\ UNCHANGED <<running, vms, secrets, disturbed>>
    BY <1>2 DEF GetVM, Handling, vmRest
  <2>2. CASE Exist(Subject) /\ Subject \notin NoPassword
    <3>1. step' = "create" /\ events' = events
      BY <1>2, <2>2 DEF GetVM
    <3>2. Progress'
      BY <1>1, <2>1, <2>2, <3>1 DEF Progress, Subject
    <3>3. QED
      BY <2>1, <3>1, <3>2, GoOnCInv DEF CInv
  <2>3. CASE ~(Exist(Subject) /\ Subject \notin NoPassword)
    <3>1. EndEvent
      BY <1>2, <2>3 DEF GetVM
    <3>2. \A u \in VMs : u = Subject /\ Exist(u) => Settled(u)'
      BY <2>1, <2>3 DEF CInv, Settled, Exist, Subject
    <3>3. QED
      BY <2>1, <3>1, <3>2, EndCInv DEF Settled, Exist
  <2>4. QED
    BY <2>2, <2>3
<1>3. CASE CreateSecret
  <2>1. /\ events # <<>> /\ Head(events).kind = "add" /\ step = "create"
        /\ secrets' = secrets \cup {Subject} /\ step' = "patch"
        /\ UNCHANGED <<running, vms, events, disturbed>>
    BY <1>3 DEF CreateSecret, Handling, vmRest
  <2>2. Subject \notin NoPassword
    BY <2>1 DEF CInv, Progress
  <2>3. Progress'
    BY <1>1, <2>1, <2>2 DEF Progress, Subject
  <2>4. secrets' \cap NoPassword = {}
    BY <2>1, <2>2 DEF CInv
  <2>5. QED
    BY <2>1, <2>3, <2>4, GoOnCInv
<1>4. CASE PatchVM
  <2>1. /\ events # <<>> /\ Head(events).kind = "add" /\ step = "patch"
        /\ vms' = IF Exist(Subject) THEN [vms EXCEPT ![Subject] = "patched"] ELSE vms
        /\ EndEvent /\ UNCHANGED <<running, secrets, disturbed>>
    BY <1>4 DEF PatchVM, Handling, vmRest
  <2>2. \A u : Exist(u) <=> Exist(u)'
    BY <1>1, <2>1 DEF Exist
  <2>3. \A u \in VMs : u # Subject => (Settled(u) <=> Settled(u)')
    BY <1>1, <2>1 DEF Settled, Exist
  <2>4. Exist(Subject) => vms'[Subject] = "patched" /\ Subject \in secrets
    BY <1>1, <2>1 DEF CInv, Progress
  <2>5. \A u \in VMs : u = Subject /\ Exist(u) => Settled(u)'
    BY <2>1, <2>4 DEF CInv, Progress, Settled, Exist
  <2>6. QED
    BY <2>1, <2>2, <2>3, <2>5, EndCInv
<1>5. CASE DeleteSecret
  <2>1. /\ events # <<>> /\ Head(events).kind = "delete"
        /\ secrets' = secrets \ {Subject} /\ step' = "release"
        /\ UNCHANGED <<running, vms, events, disturbed>>
    BY <1>5 DEF DeleteSecret, Handling, vmRest
  <2>2. Progress'
    BY <1>1, <2>1 DEF Progress, Subject
  <2>3. secrets' \cap NoPassword = {}
    BY <2>1 DEF CInv
  <2>4. QED
    BY <2>1, <2>2, <2>3, GoOnCInv
<1>6. CASE ReleaseOfDeleted
  <2>1. /\ events # <<>> /\ Head(events).kind = "delete" /\ step = "release" /\ EndEvent
        /\ UNCHANGED <<running, vms, secrets, disturbed>>
    BY <1>6 DEF ReleaseOfDeleted, Handling, vmRest
  <2>2. \A u \in VMs : u = Subject /\ ~Exist(u) /\ u \notin disturbed => Settled(u)'
    BY <2>1 DEF CInv, Progress, Settled, Exist, Subject
  <2>3. QED
    BY <2>1, <2>2, EndCInv DEF Settled, Exist
<1>7. CASE ReleaseOfDeletedPanics
  BY <1>1, <1>7, StopCInv DEF ReleaseOfDeletedPanics, Handling
<1>8. CASE VmCallFails
  <2>1. /\ events # <<>> /\ disturbed' = disturbed \cup {Subject}
        /\ UNCHANGED <<running, vms, secrets>>
    BY <1>8 DEF VmCallFails, vmRest
  <2>2. CASE Handling("delete", "get")
    <3>1. /\ step' = "release" /\ events' = events /\ Head(events).kind = "delete"
      BY <1>8, <2>2 DEF VmCallFails, Handling
    <3>2. Progress'
      BY <1>1, <2>1, <3>1 DEF Progress, Subject
    <3>3. QED
      BY <2>1, <3>1, <3>2, GoOnCInv DEF CInv
  <2>3. CASE ~Handling("delete", "get")
    <3>1. EndEvent
      BY <1>8, <2>3 DEF VmCallFails
    <3>2. QED
      BY <2>1, <3>1, EndCInv DEF Settled, Exist
  <2>4. QED
    BY <2>2, <2>3
<1>9. QED
  BY <1>2, <1>3, <1>4, <1>5, <1>6, <1>7, <1>8 DEF VmHandler

\* The rest of the system does not touch machines, secrets and their events.
LEMMA QuietCInv ==
    ASSUME CInv, VmTypeOK', UNCHANGED <<running, vms, secrets, events, step, disturbed>>
    PROVE  CInv'
BY DEF CInv, Progress, LeftClean, Awaits, Settled, NoEvent, Exist, Subject

LEMMA VmNextCInv ==
    ASSUME CInv, VmNext
    PROVE  CInv'
<1>1. VmTypeOK'
  BY VmNextTyped DEF CInv
<1>2. ASSUME NEW v \in VMs, CreateVM(v) \/ DeleteVM(v) PROVE CInv'
  BY <1>1, <1>2, SendCInv
<1>3. ASSUME NEW v \in VMs, UpdateVMI(v) PROVE CInv'
  BY <1>1, <1>3, QuietCInv DEF UpdateVMI
<1>4. CASE StartVmController
  BY <1>1, <1>4, StartCInv
<1>5. CASE CrashVmController
  BY <1>1, <1>5, StopCInv DEF CrashVmController
<1>6. CASE VmHandler \/ VmCallFails
  BY <1>1, <1>6, HandlerCInv
<1>7. CASE VmiHandler \/ VmiCallFails
  <2>1. UNCHANGED vmiRest
    BY <1>7 DEF VmiHandler, VmiCallFails, GetVMI, ListClusterIPs, ReleaseClusterIP
  <2>2. QED
    BY <1>1, <2>1, QuietCInv DEF vmiRest
<1>8. QED
  BY <1>2, <1>3, <1>4, <1>5, <1>6, <1>7 DEF VmNext

LEMMA InitCInv == LifecycleInit => CInv
<1> SUFFICES ASSUME LifecycleInit PROVE CInv
  OBVIOUS
<1>1. /\ running /\ secrets = {} /\ events = <<>> /\ step = "get"
      /\ vms = [v \in VMs |-> "absent"]
  BY DEF LifecycleInit, VmInit
<1>2. VmTypeOK
  BY InitLInv DEF LInv
<1>3. Progress /\ LeftClean /\ \A v \in VMs : Settled(v) /\ NoEvent(v)
  BY <1>1 DEF Progress, LeftClean, Settled, NoEvent, Exist
<1>4. QED
  BY <1>1, <1>2, <1>3 DEF CInv

LEMMA StepCInv ==
    ASSUME CInv, [LifecycleNext]_lifecycleVars
    PROVE  CInv'
<1>1. CASE UNCHANGED vmVars
  <2>1. VmTypeOK'
    BY <1>1 DEF CInv, VmTypeOK, vmVars
  <2>2. QED
    BY <1>1, <2>1, QuietCInv DEF vmVars
<1>2. CASE VmNext
  BY <1>2, VmNextCInv
<1>3. QED
  BY <1>1, <1>2 DEF LifecycleNext, lifecycleVars

(***************************************************************************)
(* Credentials follow the machines through every order of creations,       *)
(* deletions, handlers and restarts (OnAddKubevirtVM, OnDeleteKubevirtVM). *)
(***************************************************************************)
THEOREM CredentialsFollowMachines == LifecycleSpec => []CredentialsFollow
<1>1. CInv => CredentialsFollow
  BY DEF CInv, CredentialsFollow, Awaits, Settled
<1>2. QED
  BY <1>1, InitCInv, StepCInv, PTL DEF LifecycleSpec
=============================================================================
