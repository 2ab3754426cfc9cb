---------------------------- MODULE MCLifecycle -----------------------------
(***************************************************************************)
(* One pool and one virtual machine with one interface.                    *)
(***************************************************************************)
EXTENDS Lifecycle, TLC

CONSTANTS vm1, eth0, none, n1, w1

OnePool == {1}
OnePoolSpec == [p \in OnePool |-> [ipFamily |-> "v4", cidr |-> [family |-> "v4", size |-> 8]]]
MCNodeOf == w1 :> n1
MCDashed == vm1 :> 1
OneClaim == {[resource |-> vm1, iface |-> eth0, family |-> "v4"]}
=============================================================================
