---------------------------- MODULE VmController ----------------------------
(***************************************************************************)
(* The KubeVirt controller: cmd/vm-controller.go wires                     *)
(* OnAddKubevirtVM and OnDeleteKubevirtVM to the virtual machines and      *)
(* OnUpdateVMI to their instances (pkg/controllers/vm).  The two informers *)
(* run side by side; each calls its handlers one after the other.          *)
(*                                                                         *)
(* A ClusterIP is released by clearing its interface (and MAC); a cleared  *)
(* interface is NoIface here.  Two writes the code asks for do not happen, *)
(* because ClusterIP has a status subresource: the history OnUpdateVMI     *)
(* sends with its Update, and the cleared spec OnDeleteKubevirtVM sends    *)
(* with its Status().Update.                                               *)
(***************************************************************************)
EXTENDS KubeApi, FiniteSets

CONSTANTS
    VMs,          \* the resources that are virtual machines
    NoPassword,   \* those labelled as mikrotik
    NoIface,      \* the empty interface name
    MaxEvents,    \* bound: machines come and go while so few events wait
    MayFail       \* whether calls fail and the process is killed

ASSUME VmAssumption ==
    /\ VMs \subseteq Resources /\ VMs # {} /\ IsFiniteSet(VMs)
    /\ NoPassword \subseteq VMs
\* The container runtime names the interface of every ADD.
ASSUME NoIfaceAssumption ==
    NoIface \in Ifaces /\ \A c \in Claims : c.iface # NoIface
ASSUME MaxEventsAssumption == MaxEvents \in Nat /\ MayFail \in BOOLEAN

VARIABLES
    running,      \* the controller process runs
    vms,          \* "absent", "plain", or "patched" to use its secret
    secrets,      \* the VMs whose -credentials secret exists
    events,       \* Add and Delete events, the one being handled first
    step,         \* what the handler of that event does next
    reported,     \* what the VM's instance reports as its interfaces
    updates,      \* VMs whose instance has an update event
    release,      \* what OnUpdateVMI is doing
    disturbed     \* history: VMs a call of whose handlers has failed, or
                  \* whose deletion the controller may not have seen

vmVars == <<running, vms, secrets, events, step, reported, updates, release, disturbed>>

\* "silent": not running, or without interfaces.  Otherwise the MAC generated
\* for the resource is among the interfaces' ("own") or not ("others").
Reports == {"silent", "others", "own"}

Events == [kind : {"add", "delete"}, vm : VMs]

\* OnUpdateVMI: the read report and the ClusterIPs still to be updated.
Releases == [step : {"idle", "list", "update"}, vm : VMs, report : Reports,
             left : SUBSET Names]

NoRelease == [step |-> "idle", vm |-> CHOOSE v \in VMs : TRUE,
              report |-> "silent", left |-> {}]

VmTypeOK ==
    /\ running \in BOOLEAN
    /\ vms \in [VMs -> {"absent", "plain", "patched"}]
    /\ secrets \subseteq VMs
    /\ events \in Seq(Events)
    /\ step \in {"get", "create", "patch", "release"}
    /\ reported \in [VMs -> Reports]
    /\ updates \subseteq VMs
    /\ release \in Releases
    /\ disturbed \subseteq VMs

VmInit ==
    /\ running = TRUE
    /\ vms = [v \in VMs |-> "absent"]
    /\ secrets = {}
    /\ events = <<>>
    /\ step = "get"
    /\ reported = [v \in VMs |-> "silent"]
    /\ updates = {}
    /\ release = NoRelease
    /\ disturbed = {}

Exist(v) == vms[v] # "absent"

\* The ClusterIPs of a resource.
ClusterIPsOf(r) == {n \in Names : Exists(cips[n]) /\ cips[n].resource = r}

-----------------------------------------------------------------------------
(***************************************************************************)
(* KubeVirt and its users.                                                 *)
(***************************************************************************)
Deliver(kind, v) ==
    events' = IF running THEN Append(events, [kind |-> kind, vm |-> v]) ELSE events

CreateVM(v) ==
    /\ ~Exist(v) /\ Len(events) < MaxEvents
    /\ vms' = [vms EXCEPT ![v] = "plain"]
    /\ Deliver("add", v)
    /\ UNCHANGED <<running, secrets, step, reported, updates, release, disturbed, apiVars>>

DeleteVM(v) ==
    /\ Exist(v) /\ Len(events) < MaxEvents
    /\ vms' = [vms EXCEPT ![v] = "absent"]
    /\ reported' = [reported EXCEPT ![v] = "silent"]
    /\ Deliver("delete", v)
    /\ disturbed' = IF running THEN disturbed ELSE disturbed \cup {v}
    /\ UNCHANGED <<running, secrets, step, updates, release, apiVars>>

\* The instance changes: its interfaces, or something else.
UpdateVMI(v) ==
    /\ Exist(v)
    /\ \E report \in Reports : reported' = [reported EXCEPT ![v] = report]
    /\ updates' = IF running THEN updates \cup {v} ELSE updates
    /\ UNCHANGED <<running, vms, secrets, events, step, release, disturbed, apiVars>>

-----------------------------------------------------------------------------
(***************************************************************************)
(* The process.                                                            *)
(***************************************************************************)

\* Its informers list what there is: Add events for the VMs, none for updates.
StartVmController ==
    /\ ~running
    /\ running' = TRUE
    /\ \E order \in [1 .. Cardinality({v \in VMs : Exist(v)}) -> {v \in VMs : Exist(v)}] :
          /\ \A v \in VMs : Exist(v) => \E i \in DOMAIN order : order[i] = v
          /\ events' = [i \in DOMAIN order |-> [kind |-> "add", vm |-> order[i]]]
    /\ UNCHANGED <<vms, secrets, step, reported, updates, release, disturbed, apiVars>>

\* Undelivered events are lost; a VM with a lost Delete event is disturbed.
Stop ==
    /\ running' = FALSE
    /\ events' = <<>>
    /\ step' = "get"
    /\ updates' = {}
    /\ release' = NoRelease
    /\ disturbed' = disturbed \cup
          {v \in VMs : \E i \in DOMAIN events : events[i] = [kind |-> "delete", vm |-> v]}
    /\ UNCHANGED <<vms, secrets, reported, apiVars>>

CrashVmController == MayFail /\ running /\ Stop

-----------------------------------------------------------------------------
(***************************************************************************)
(* The virtual machine handlers.                                           *)
(***************************************************************************)
Handling(kind, at) == events # <<>> /\ Head(events).kind = kind /\ step = at

Subject == Head(events).vm

EndEvent == events' = Tail(events) /\ step' = "get"

vmRest == <<running, reported, updates, release>>

\* OnAddKubevirtVM: Get; createVMPasswordCredetialSecret's label check.
GetVM ==
    /\ Handling("add", "get")
    /\ IF Exist(Subject) /\ Subject \notin NoPassword
       THEN step' = "create" /\ UNCHANGED events
       ELSE EndEvent
    /\ UNCHANGED <<vms, secrets, disturbed, vmRest, apiVars>>

\* Mutant of CreateSecret: AlreadyExists is an error like any other.
CreateSecretOnce ==
    /\ Handling("add", "create")
    /\ secrets' = secrets \cup {Subject}
    /\ IF Subject \in secrets THEN EndEvent ELSE step' = "patch" /\ UNCHANGED events
    /\ UNCHANGED <<vms, disturbed, vmRest, apiVars>>

\* Create the secret; AlreadyExists is fine.
CreateSecret ==
    /\ Handling("add", "create")
    /\ secrets' = secrets \cup {Subject}
    /\ step' = "patch"
    /\ UNCHANGED <<vms, events, disturbed, vmRest, apiVars>>

\* Patch the VM, if it is still (or again) there.
PatchVM ==
    /\ Handling("add", "patch")
    /\ vms' = IF Exist(Subject) THEN [vms EXCEPT ![Subject] = "patched"] ELSE vms
    /\ EndEvent
    /\ UNCHANGED <<secrets, disturbed, vmRest, apiVars>>

\* OnDeleteKubevirtVM: removePasswordCredentials, then updateClusterIP.
DeleteSecret ==
    /\ Handling("delete", "get")
    /\ secrets' = secrets \ {Subject}
    /\ step' = "release"
    /\ UNCHANGED <<vms, events, disturbed, vmRest, apiVars>>

(***************************************************************************)
(* updateClusterIP reads the last entry of each ClusterIP's history, and   *)
(* no write of the code reaches status.history: index out of range, and    *)
(* the process goes down.                                                  *)
(***************************************************************************)
ReleaseOfDeleted ==
    /\ Handling("delete", "release")
    /\ ClusterIPsOf(Subject) = {}
    /\ EndEvent
    /\ UNCHANGED <<vms, secrets, disturbed, vmRest, apiVars>>

ReleaseOfDeletedPanics ==
    /\ Handling("delete", "release")
    /\ ClusterIPsOf(Subject) # {}
    /\ Stop

\* A call fails: logged; only OnDeleteKubevirtVM goes on after its first one.
VmCallFails ==
    /\ MayFail /\ events # <<>>
    /\ IF Handling("delete", "get")
       THEN step' = "release" /\ UNCHANGED events
       ELSE EndEvent
    /\ disturbed' = disturbed \cup {Subject}
    /\ UNCHANGED <<vms, secrets, vmRest, apiVars>>

-----------------------------------------------------------------------------
(***************************************************************************)
(* OnUpdateVMI.                                                            *)
(***************************************************************************)
vmiRest == <<running, vms, secrets, events, step, reported, disturbed>>

\* Get the instance; go on if it runs and has interfaces.
GetVMI(v) ==
    /\ release.step = "idle" /\ v \in updates
    /\ updates' = updates \ {v}
    /\ release' = IF reported[v] = "silent" THEN release
                  ELSE [NoRelease EXCEPT !.step = "list", !.vm = v, !.report = reported[v]]
    /\ UNCHANGED <<vmiRest, apiVars>>

\* The ClusterIPs whose MAC no interface has.  The MAC is generated from the
\* resource, so all of them have the same one; those cleared before have none
\* and are sent again without a change.
Unreported(v, report) ==
    IF report = "own" THEN {} ELSE {n \in ClusterIPsOf(v) : cips[n].iface # NoIface}

ListClusterIPs ==
    /\ release.step = "list"
    /\ LET left == Unreported(release.vm, release.report)
       IN  release' = IF left = {} THEN NoRelease
                      ELSE [release EXCEPT !.step = "update", !.left = left]
    /\ UNCHANGED <<updates, vmiRest, apiVars>>

EndUpdate(n) ==
    release' = IF release.left = {n} THEN NoRelease
               ELSE [release EXCEPT !.left = @ \ {n}]

\* Mutant of ReleaseClusterIP: the address is cleared as well.
ReleaseClusterIPAndAddress(n) ==
    /\ release.step = "update" /\ n \in release.left
    /\ cips' = [cips EXCEPT ![n].iface = NoIface, ![n].address = NoAddress, ![n].rv = @ + 1]
    /\ EndUpdate(n)
    /\ UNCHANGED <<pools, updates, vmiRest>>

\* Mutant of ReleaseClusterIP: the object is deleted.
ReleaseClusterIPObject(n) ==
    /\ release.step = "update" /\ n \in release.left
    /\ cips' = [cips EXCEPT ![n] = NoClusterIP]
    /\ EndUpdate(n)
    /\ UNCHANGED <<pools, updates, vmiRest>>

\* Update clears one of them.  Nobody else writes a ClusterIP: no Conflict.
ReleaseClusterIP(n) ==
    /\ release.step = "update" /\ n \in release.left
    /\ cips' = [cips EXCEPT ![n].iface = NoIface, ![n].rv = @ + 1]
    /\ EndUpdate(n)
    /\ UNCHANGED <<pools, updates, vmiRest>>

\* The Get, or one Update, fails; a failed List leaves an empty list.
VmiCallFails ==
    /\ MayFail
    /\ \/ \E v \in updates : release.step = "idle" /\ updates' = updates \ {v}
                             /\ UNCHANGED release
       \/ release.step = "list" /\ release' = NoRelease /\ UNCHANGED updates
       \/ \E n \in release.left : EndUpdate(n) /\ UNCHANGED updates
    /\ UNCHANGED <<vmiRest, apiVars>>

VmHandler ==
    \/ GetVM
    \/ CreateSecret
    \/ PatchVM
    \/ DeleteSecret
    \/ ReleaseOfDeleted
    \/ ReleaseOfDeletedPanics

VmiHandler ==
    \/ \E v \in VMs : GetVMI(v)
    \/ ListClusterIPs
    \/ \E n \in Names : ReleaseClusterIP(n)

VmNext ==
    \/ \E v \in VMs : CreateVM(v) \/ DeleteVM(v) \/ UpdateVMI(v)
    \/ StartVmController
    \/ CrashVmController
    \/ VmHandler
    \/ VmCallFails
    \/ VmiHandler
    \/ VmiCallFails
=============================================================================
