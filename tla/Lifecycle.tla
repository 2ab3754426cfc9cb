----------------------------- MODULE Lifecycle ------------------------------
(***************************************************************************)
(* Allocation together with the KubeVirt controller, which clears the      *)
(* ClusterIPs of unplugged interfaces and keeps the machines' credentials, *)
(* and the DHCP server, which tells the machines their addresses.  The     *)
(* three meet in the ClusterIPs only; none knows of the others.            *)
(***************************************************************************)
EXTENDS Allocation, Dhcp

lifecycleVars == <<vars, vmVars, dhcpVars>>
allocators == <<controllerVars, ipamVars>>

LifecycleInit == Init /\ VmInit /\ DhcpInit

\* The pods of a virtual machine, and so their requests, come with it.
PodsOfVms ==
    \A w \in Workers :
        pc[w] = "idle" /\ pc'[w] # "idle" /\ claim'[w].resource \in VMs
            => Exist(claim'[w].resource)

LifecycleNext ==
    \/ Next /\ PodsOfVms /\ UNCHANGED <<vmVars, dhcpVars>>
    \/ VmNext /\ UNCHANGED <<allocators, dhcpVars>>
    \/ DhcpNext /\ UNCHANGED <<vars, vmVars>>

LifecycleSpec == LifecycleInit /\ [][LifecycleNext]_lifecycleVars

(***************************************************************************)
(* Handlers run when there is an event, and Kubernetes restarts the        *)
(* controller.                                                             *)
(***************************************************************************)
LifecycleFairSpec ==
    /\ LifecycleSpec
    /\ WF_lifecycleVars(VmHandler /\ UNCHANGED <<allocators, dhcpVars>>)
    /\ WF_lifecycleVars(VmiHandler /\ UNCHANGED <<allocators, dhcpVars>>)
    /\ WF_lifecycleVars(StartVmController /\ UNCHANGED <<allocators, dhcpVars>>)

LifecycleTypeOK == TypeOK /\ VmTypeOK /\ DhcpTypeOK

-----------------------------------------------------------------------------
(***************************************************************************)
(* What was answered to a pod stays its address: OnUpdateVMI may clear the *)
(* interface of its ClusterIP while the pod runs, with a report read       *)
(* before the interface was plugged, but the ClusterIP keeps the address,  *)
(* the pool and the resource.                                              *)
(***************************************************************************)
AnswersStand ==
    \A a \in answers :
        LET cip == cips[NameOf(a.claim)]
        IN  /\ Exists(cip)
            /\ cip.pool = a.pool /\ cip.address = a.address
            /\ cip.resource = a.claim.resource
            /\ cip.iface \in {a.claim.iface, NoIface}

(***************************************************************************)
(* Once the controller has handled every event, a machine it was not       *)
(* disturbed about has its credentials if it exists, through whatever      *)
(* deletions, re-creations under the same name and restarts, and has left  *)
(* none behind if it does not.                                             *)
(***************************************************************************)
CredentialsFollow ==
    running /\ events = <<>> =>
        \A v \in VMs \ disturbed :
            IF Exist(v) /\ v \notin NoPassword
            THEN vms[v] = "patched" /\ v \in secrets
            ELSE v \notin secrets

(***************************************************************************)
(* A machine uses addresses of its own: what an ACK has told it is the     *)
(* address of a ClusterIP of the machine, however old the packet is, and   *)
(* whatever has been released or looked up in vain since the OFFER.        *)
(***************************************************************************)
LeasesOwned ==
    \A c \in Clients :
        leases[c] # NoAddress =>
            \E n \in ClusterIPsOf(c[1]) : cips[n].address = leases[c]

-----------------------------------------------------------------------------
(***************************************************************************)
(* cmd/vm-controller.go:20: the controller "performs the necessary         *)
(* kloudstack related actions to ensure that the resources are in the      *)
(* desired state".  The ClusterIPs of a deleted machine are released.      *)
(***************************************************************************)
HoldsAddresses(v) == \E n \in ClusterIPsOf(v) : cips[n].iface # NoIface

DeletedReleased ==
    \A v \in VMs : ~Exist(v) /\ HoldsAddresses(v) ~> Exist(v) \/ ~HoldsAddresses(v)
=============================================================================
