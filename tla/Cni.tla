-------------------------------- MODULE Cni ---------------------------------
(***************************************************************************)
(* CNI ADD and DEL on one node: the handlers of the daemon                 *)
(* (pkg/daemons/ovn-cni-server/server.go), one goroutine per request, and  *)
(* the container runtime that calls them through cni/ovn/main.go.          *)
(*                                                                         *)
(* A request is keyed by the iface-id, not by the sandbox: what one does   *)
(* for a sandbox, the next does to whatever sandbox of the pod is there.   *)
(* It looks rows up in a cache, and writes in a transaction of its own.    *)
(* Errors in the reply of a transaction are logged and count as success;   *)
(* an error of the call, which may have taken effect, fails the request.   *)
(* (A look-up that fails ends as a call that fails without effect.)        *)
(* The runtime may give up on a request the daemon still works on, retries *)
(* a DEL until it succeeds, and may try a new sandbox in the meantime.     *)
(***************************************************************************)
EXTENDS Ovs, Ovn

CONSTANTS
    Ids,          \* the iface-ids
    Workers,      \* concurrent requests
    Public,       \* the switch of a network configuration that names none
    NetOf,        \* the switch each sandbox's configuration asks for
    Refusals,     \* whether a database refuses transactions also for reasons
                  \* of its own (its resources, a constraint)
    MaxTried      \* bound: how many sandboxes the runtime tries

ASSUME SandboxAssumption ==
    Sandboxes # {} /\ IdOf \in [Sandboxes -> Ids] /\ NetOf \in [Sandboxes -> Switches]
ASSUME PublicAssumption == Public \in Switches
ASSUME RefusalsAssumption == Refusals \in BOOLEAN
ASSUME BoundAssumption == MaxTried \in Nat
ASSUME FiniteAssumption == IsFiniteSet(Sandboxes) /\ IsFiniteSet(Workers)

VARIABLES
    job,          \* what each worker does: its step, sandbox, whether the
                  \* runtime still waits for the answer, and the row that the
                  \* look-up before the step has found
    phase,        \* what the runtime knows of each sandbox
    overrun,      \* history: sandboxes whose ADD the runtime gave up on
    alone,        \* history: sandboxes whose ADD found nothing of another one
    unheeded      \* history: sandboxes, with the step of a request the runtime
                  \* waits for that went on as if its transaction had done what
                  \* it was for

runtimeVars == <<phase, overrun, alone>>
cniVars == <<job, runtimeVars, unheeded>>
vars == <<bridge, ovnVars, cniVars>>

AddSteps == {"setup", "addPort", "findSwitch", "insertPort", "rollback", "undo"}
DelSteps == {"findPort", "deletePort", "findHostPort", "delPort"}
Steps == {"idle"} \cup AddSteps \cup DelSteps
Phases == {"new", "adding", "running", "failed", "stopping", "gone"}
Jobs == [step : Steps, sandbox : Sandboxes, awaited : BOOLEAN, found : SUBSET Sandboxes]

AnySandbox == CHOOSE s \in Sandboxes : TRUE
Idle == [step |-> "idle", sandbox |-> AnySandbox, awaited |-> FALSE, found |-> {}]

TypeOK ==
    /\ OvsTypeOK
    /\ OvnTypeOK
    /\ job \in [Workers -> Jobs]
    /\ phase \in [Sandboxes -> Phases]
    /\ overrun \subseteq Sandboxes
    /\ alone \subseteq Sandboxes
    /\ unheeded \subseteq Sandboxes \X {"addPort", "deletePort", "delPort"}

Init ==
    /\ OvsInit
    /\ OvnInit
    /\ job = [w \in Workers |-> Idle]
    /\ phase = [s \in Sandboxes |-> "new"]
    /\ overrun = {}
    /\ alone = {}
    /\ unheeded = {}

Busy(w) == job[w].step # "idle"
Siblings(s) == {t \in Sandboxes \ {s} : IdOf[t] = IdOf[s]}

GoWith(w, step, found) ==
    /\ job' = [job EXCEPT ![w].step = step, ![w].found = found]
    /\ UNCHANGED runtimeVars

Go(w, step) == GoWith(w, step, {})

\* The answer moves the sandbox on if the runtime still waits for it.
Reply(w, result) ==
    /\ job' = [job EXCEPT ![w] = Idle]
    /\ phase' = IF job[w].awaited
                THEN [phase EXCEPT ![job[w].sandbox] = result]
                ELSE phase
    /\ UNCHANGED <<overrun, alone>>

\* The transaction of the step counts as done: whether it is, is recorded.
CountAsDone(w, done) ==
    unheeded' = IF job[w].awaited /\ ~done
                THEN unheeded \cup {<<job[w].sandbox, job[w].step>>}
                ELSE unheeded

-----------------------------------------------------------------------------
(***************************************************************************)
(* The runtime.                                                            *)
(***************************************************************************)
Call(w, s, step) ==
    /\ ~Busy(w)
    /\ job' = [job EXCEPT ![w] = [step |-> step, sandbox |-> s, awaited |-> TRUE, found |-> {}]]

\* A pod has one sandbox at a time that is or will be running.
RequestAdd(w, s) ==
    /\ phase[s] = "new"
    /\ Cardinality({t \in Sandboxes : phase[t] # "new"}) < MaxTried
    /\ \A t \in Siblings(s) : phase[t] \notin {"adding", "running"}
    /\ Call(w, s, "setup")
    /\ phase' = [phase EXCEPT ![s] = "adding"]
    /\ alone' = IF /\ \A t \in Siblings(s) : phase[t] \in {"new", "gone"}
                   /\ \A v \in Workers : Busy(v) => IdOf[job[v].sandbox] # IdOf[s]
                THEN alone \cup {s}
                ELSE alone
    /\ UNCHANGED <<overrun, unheeded, bridge, ovnVars>>

\* The sandbox stops, or its ADD or an earlier DEL has failed.
RequestDel(w, s) ==
    /\ phase[s] \in {"running", "failed", "stopping"}
    /\ \A v \in Workers : Busy(v) /\ job[v].sandbox = s => ~job[v].awaited
    /\ Call(w, s, "findPort")
    /\ phase' = [phase EXCEPT ![s] = "stopping"]
    /\ UNCHANGED <<overrun, alone, unheeded, bridge, ovnVars>>

\* The runtime gives up waiting; the daemon is not told.
TimeOut(w) ==
    /\ Busy(w) /\ job[w].awaited
    /\ job' = [job EXCEPT ![w].awaited = FALSE]
    /\ IF phase[job[w].sandbox] = "adding"
       THEN /\ phase' = [phase EXCEPT ![job[w].sandbox] = "failed"]
            /\ overrun' = overrun \cup {job[w].sandbox}
       ELSE UNCHANGED <<phase, overrun>>
    /\ UNCHANGED <<alone, unheeded, bridge, ovnVars>>

\* The daemon goes down with all its requests and is started again.
CrashDaemon ==
    /\ \E w \in Workers : Busy(w)
    /\ job' = [w \in Workers |-> Idle]
    /\ phase' = [s \in Sandboxes |-> IF phase[s] = "adding" THEN "failed" ELSE phase[s]]
    /\ UNCHANGED <<overrun, alone, unheeded, bridge, ovnVars>>

-----------------------------------------------------------------------------
(***************************************************************************)
(* handleAdd                                                               *)
(***************************************************************************)

\* FindOrCreateClusterIP (for Public) and SetupVeth; either may fail.
SetUp(w) ==
    /\ job[w].step = "setup"
    /\ Go(w, "addPort") \/ Reply(w, "failed")
    /\ UNCHANGED <<unheeded, bridge, ovnVars>>

\* AddPort of the host veth.  ADD goes on after a reply with errors.
AddHostPort(w) ==
    LET s == job[w].sandbox
    IN  /\ job[w].step = "addPort"
        /\ \/ /\ AddPort(s) \/ (Refusals /\ UNCHANGED bridge)
              /\ CountAsDone(w, s \in bridge')
              /\ Go(w, "findSwitch")
           \/ (AddPort(s) \/ UNCHANGED bridge) /\ Reply(w, "failed") /\ UNCHANGED unheeded
        /\ UNCHANGED ovnVars

\* CreateLogicalPort looks its switch up in the cache.
FindSwitch(w) ==
    /\ job[w].step = "findSwitch"
    /\ Go(w, IF NetOf[job[w].sandbox] \in switches THEN "insertPort" ELSE "rollback")
    /\ UNCHANGED <<unheeded, bridge, ovnVars>>

\* Its transaction.
InsertLogicalPort(w) ==
    LET s == job[w].sandbox
    IN  /\ job[w].step = "insertPort"
        /\ \/ (InsertPort(s, NetOf[s]) \/ (Refusals /\ UNCHANGED lsp)) /\ Reply(w, "running")
           \/ (InsertPort(s, NetOf[s]) \/ UNCHANGED lsp) /\ Go(w, "rollback")
        /\ UNCHANGED <<unheeded, bridge, switches, refused>>

\* The failed ADD looks for a port with its iface-id ...
RollBack(w) ==
    LET ports == PortsOf(IdOf[job[w].sandbox])
    IN  /\ job[w].step = "rollback"
        /\ \/ \E t \in ports : GoWith(w, "undo", {t})
           \/ ports = {} /\ Reply(w, "failed")
        /\ UNCHANGED <<unheeded, bridge, ovnVars>>

\* ... and deletes it, however that goes.
Undo(w) ==
    /\ job[w].step = "undo"
    /\ DelPort(job[w].found) \/ UNCHANGED bridge
    /\ Reply(w, "failed")
    /\ UNCHANGED <<unheeded, ovnVars>>

-----------------------------------------------------------------------------
(***************************************************************************)
(* handleDel                                                               *)
(***************************************************************************)

\* The switch a DEL looks for: no default, unlike ADD.
DelSwitch(s) == IF NetOf[s] = Public THEN NoSwitch ELSE NetOf[s]

\* DeleteLogicalPort looks up its switch and the port in the cache.  No switch
\* is an error; no port is none.
FindLogicalPort(w) ==
    LET s == job[w].sandbox
        rows == LogicalPortsOf(IdOf[s])
    IN  /\ job[w].step = "findPort"
        /\ \/ DelSwitch(s) \notin switches /\ Reply(w, "stopping")
           \/ DelSwitch(s) \in switches /\ \E t \in rows : GoWith(w, "deletePort", {t})
           \/ DelSwitch(s) \in switches /\ rows = {} /\ Go(w, "findHostPort")
        /\ UNCHANGED <<unheeded, bridge, ovnVars>>

\* Mutant of DeleteLogicalPort: an error of the call is only logged, too.
DeleteLogicalPortHoping(w) ==
    LET s == job[w].sandbox
    IN  /\ job[w].step = "deletePort"
        /\ DeletePort(job[w].found, DelSwitch(s)) \/ UNCHANGED lsp
        /\ Go(w, "findHostPort")
        /\ UNCHANGED <<unheeded, bridge, switches, refused>>

\* Its transaction.
DeleteLogicalPort(w) ==
    LET s == job[w].sandbox
        found == job[w].found
    IN  /\ job[w].step = "deletePort"
        /\ \/ /\ DeletePort(found, DelSwitch(s)) \/ (Refusals /\ UNCHANGED lsp)
              /\ CountAsDone(w, \A t \in found : lsp'[t] = NoSwitch)
              /\ Go(w, "findHostPort")
           \/ /\ DeletePort(found, DelSwitch(s)) \/ UNCHANGED lsp
              /\ Reply(w, "stopping")
              /\ UNCHANGED unheeded
        /\ UNCHANGED <<bridge, switches, refused>>

\* Mutant of FindHostPort: a port that is not there counts as deleted.
FindHostPortIfAny(w) ==
    LET ports == PortsOf(IdOf[job[w].sandbox])
    IN  /\ job[w].step = "findHostPort"
        /\ \/ \E t \in ports : GoWith(w, "delPort", {t})
           \/ ports = {} /\ Reply(w, "gone")
        /\ UNCHANGED <<unheeded, bridge, ovnVars>>

\* DelPort looks for a port with the iface-id: none is an error.
FindHostPort(w) ==
    LET ports == PortsOf(IdOf[job[w].sandbox])
    IN  /\ job[w].step = "findHostPort"
        /\ \/ \E t \in ports : GoWith(w, "delPort", {t})
           \/ ports = {} /\ Reply(w, "stopping")
        /\ UNCHANGED <<unheeded, bridge, ovnVars>>

\* Its transaction.
DeleteHostPort(w) ==
    LET found == job[w].found
    IN  /\ job[w].step = "delPort"
        /\ \/ /\ DelPort(found) \/ (Refusals /\ UNCHANGED bridge)
              /\ CountAsDone(w, bridge' # bridge)
              /\ Reply(w, "gone")
           \/ (DelPort(found) \/ UNCHANGED bridge) /\ Reply(w, "stopping") /\ UNCHANGED unheeded
        /\ UNCHANGED ovnVars

Handler(w) ==
    \/ SetUp(w)
    \/ AddHostPort(w)
    \/ FindSwitch(w)
    \/ InsertLogicalPort(w)
    \/ RollBack(w)
    \/ Undo(w)
    \/ FindLogicalPort(w)
    \/ DeleteLogicalPort(w)
    \/ FindHostPort(w)
    \/ DeleteHostPort(w)

Next ==
    \/ \E w \in Workers :
          \/ \E s \in Sandboxes : RequestAdd(w, s) \/ RequestDel(w, s)
          \/ TimeOut(w)
          \/ Handler(w)
    \/ CrashDaemon
    \/ OvnNext /\ UNCHANGED <<bridge, cniVars>>

Spec == Init /\ [][Next]_vars

-----------------------------------------------------------------------------
(***************************************************************************)
(* Ports of the bridge do not pile up: those with an iface-id, and those   *)
(* its unfinished ADDs will still make, are no more than its sandboxes     *)
(* that are not deleted or whose DEL was answered without having deleted a *)
(* port itself.  A DEL takes any port of the pod, two may take the same,   *)
(* and an ADD may outlive the DEL of its sandbox.                          *)
(***************************************************************************)
Plugging(id) ==
    {w \in Workers : job[w].step \in {"setup", "addPort"} /\ IdOf[job[w].sandbox] = id}

Undeleted(id) ==
    {s \in Sandboxes :
        IdOf[s] = id /\ (phase[s] \notin {"new", "gone"} \/ <<s, "delPort">> \in unheeded)}

PortsBounded ==
    \A id \in Ids :
        Cardinality(PortsOf(id)) + Cardinality(Plugging(id)) <= Cardinality(Undeleted(id))

(***************************************************************************)
(* A logical port is on the switch of the sandbox whose ADD made it, and   *)
(* that sandbox is still to be deleted, although the DELs of its pod look  *)
(* for the port by name.  Only an ADD that went on after the runtime gave  *)
(* up on it, or a refused transaction of the DEL, leaves one behind.       *)
(***************************************************************************)
LogicalPortsOwned ==
    \A s \in Sandboxes :
        lsp[s] # NoSwitch =>
            /\ lsp[s] = NetOf[s]
            /\ \/ phase[s] \notin {"new", "gone"}
               \/ s \in overrun
               \/ <<s, "deletePort">> \in unheeded

(***************************************************************************)
(* A running sandbox whose ADD met no leftover of another sandbox of its   *)
(* pod keeps its own port on the bridge until it is deleted, whatever the  *)
(* other pods' requests do and fail at; unless the database refused that   *)
(* port, which ADD does not notice.                                        *)
(***************************************************************************)
StaysPlugged ==
    \A s \in alone :
        phase[s] = "running" => s \in bridge \/ <<s, "addPort">> \in unheeded

-----------------------------------------------------------------------------
(***************************************************************************)
(* Statements of the repository that the code does not keep, although no   *)
(* database refuses anything for reasons of its own (Refusals is FALSE).   *)
(***************************************************************************)

(***************************************************************************)
(* pkg/ovn/ovnnb.go:42: "CreateLogicalPort creates a new logical port and  *)
(* attaches it to a logical switch."  An ADD that is answered has its port *)
(* on the switch it asked for.                                             *)
(***************************************************************************)
Attached ==
    [][\A s \in Sandboxes :
          phase[s] = "adding" /\ phase'[s] = "running" =>
              \E t \in LogicalPortsOf(IdOf[s])' : lsp'[t] = NetOf[s]]_vars

(***************************************************************************)
(* pkg/ovs/ovs.go:110, in DelPort: "3. Delete the port itself (and the     *)
(* interface)".  Each DEL that was answered has deleted a port: when all   *)
(* sandboxes of a pod are deleted and no request works for it, no port     *)
(* with its iface-id is left.                                              *)
(***************************************************************************)
Unplugged ==
    \A id \in Ids :
            /\ \A s \in Sandboxes : IdOf[s] = id => phase[s] \in {"new", "gone"}
            /\ \A w \in Workers : Busy(w) => IdOf[job[w].sandbox] # id
        => PortsOf(id) = {}
=============================================================================
