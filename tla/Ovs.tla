-------------------------------- MODULE Ovs ---------------------------------
(***************************************************************************)
(* The ports of the integration bridge, as pkg/ovs/ovs.go writes them.     *)
(*                                                                         *)
(* One transaction writes bridge, port and interface rows together.  The   *)
(* client's cache holds a transaction of its own before it is answered,    *)
(* but what DelPort looks up there may be deleted by another request       *)
(* before its own transaction.                                             *)
(***************************************************************************)
EXTENDS Pods

VARIABLE bridge   \* sandboxes whose host veth is a port of br-int

OvsTypeOK == bridge \subseteq Sandboxes

OvsInit == bridge = {}

\* Mutant of PortsOf: the rows are not selected by iface-id.
PortsOfAny(id) == bridge

\* The rows with the iface-id.  DelPort takes the first of them.
PortsOf(id) == {s \in bridge : IdOf[s] = id}

AddPort(s) == bridge' = bridge \cup {s}

\* The transaction of DelPort, on the row found before.  It is no error if
\* that row is gone by then.
DelPort(found) == bridge' = bridge \ found
=============================================================================
