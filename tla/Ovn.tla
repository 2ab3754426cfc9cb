-------------------------------- MODULE Ovn ---------------------------------
(***************************************************************************)
(* The OVN northbound database as pkg/ovn/ovnnb.go writes it, and the      *)
(* LogicalSwitch handler of the network controller.                        *)
(*                                                                         *)
(* The schema makes a logical port's name unique and keeps a port row only *)
(* as long as a switch refers to it.  A transaction that breaks either     *)
(* rule changes nothing; CreateLogicalPort and DeleteLogicalPort log the   *)
(* errors of such a reply and report success.  What they look up in the    *)
(* client's cache may be gone when their transaction comes.                *)
(***************************************************************************)
EXTENDS Pods, Naturals, FiniteSets

CONSTANTS
    Switches,     \* names of logical switches
    NoSwitch,     \* the empty name, and the switch of a port that is not there
    Removable,    \* switches an operator may remove
    Declared      \* switches there is a LogicalSwitch resource for

ASSUME SwitchAssumption ==
    NoSwitch \notin Switches /\ Removable \subseteq Switches /\ Declared \subseteq Switches

VARIABLES
    switches,     \* the logical switches there are
    lsp,          \* the switch of the logical port each sandbox's ADD made
    refused       \* history: switches CreateLogicalSwitch said exist already

ovnVars == <<switches, lsp, refused>>

OvnTypeOK ==
    /\ switches \subseteq Switches
    /\ lsp \in [Sandboxes -> Switches \cup {NoSwitch}]
    /\ refused \subseteq Switches

OvnInit ==
    /\ switches = {}
    /\ lsp = [s \in Sandboxes |-> NoSwitch]
    /\ refused = {}

-----------------------------------------------------------------------------
\* An operator adds a switch (ovn-nbctl ls-add).
AddSwitch(l) ==
    /\ l \notin switches
    /\ switches' = switches \cup {l}
    /\ UNCHANGED <<lsp, refused>>

\* An operator removes a switch; its ports go with it.
RemoveSwitch(l) ==
    /\ l \in switches \cap Removable
    /\ switches' = switches \ {l}
    /\ lsp' = [s \in Sandboxes |-> IF lsp[s] = l THEN NoSwitch ELSE lsp[s]]
    /\ UNCHANGED refused

\* len(results) >= 0
AlreadyThere(results) == Cardinality(results) >= 0

CreateLogicalSwitch(l) ==
    IF AlreadyThere(switches \cap {l})
    THEN refused' = refused \cup {l} /\ UNCHANGED switches
    ELSE switches' = switches \cup {l} /\ UNCHANGED refused

\* The Add event of a LogicalSwitch resource.
OnAddLogicalSwitch(l) ==
    /\ l \in Declared \ refused
    /\ CreateLogicalSwitch(l)
    /\ UNCHANGED lsp

-----------------------------------------------------------------------------
\* The rows whose name is the iface-id.
LogicalPortsOf(id) == {s \in Sandboxes : IdOf[s] = id /\ lsp[s] # NoSwitch}

\* Mutant of InsertPort: the port in the place of the switch.
InsertPortSwapped(s, l) ==
    lsp' = IF LogicalPortsOf(IdOf[s]) = {} /\ l \in switches
           THEN [lsp EXCEPT ![s] = s]
           ELSE lsp

\* The insert of a port and its reference: the port's name may be taken, and
\* the switch the cache held may be gone.
InsertPort(s, l) ==
    lsp' = IF LogicalPortsOf(IdOf[s]) = {} /\ l \in switches
           THEN [lsp EXCEPT ![s] = l]
           ELSE lsp

\* The removal of the port found before and of its reference from switch l:
\* refused when another switch refers to the port, and no error when the row
\* is gone by then.
DeletePort(found, l) ==
    lsp' = [s \in Sandboxes |-> IF s \in found /\ lsp[s] = l THEN NoSwitch ELSE lsp[s]]

\* An operator's and the controller's steps.
OvnNext ==
    \E l \in Switches :
        AddSwitch(l) \/ RemoveSwitch(l) \/ OnAddLogicalSwitch(l)
=============================================================================
