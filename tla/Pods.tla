-------------------------------- MODULE Pods --------------------------------
(***************************************************************************)
(* What the rows of both databases are told apart by.  A sandbox has one   *)
(* ADD, which draws the name of its host veth and the UUID of its logical  *)
(* port afresh: the sandbox stands for both rows, and a row that is gone   *)
(* never comes back.  The sandboxes of a pod share an iface-id.            *)
(***************************************************************************)

CONSTANTS
    Sandboxes,    \* the attempts of a container runtime to run a pod
    IdOf          \* the iface-id (namespace_pod_interface) of each sandbox
=============================================================================
