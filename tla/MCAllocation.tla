---------------------------- MODULE MCAllocation ----------------------------
(***************************************************************************)
(* Small instances of Allocation: two requests at a time, on two nodes.    *)
(***************************************************************************)
EXTENDS Allocation, TLC

CONSTANTS vm1, vm2, vm3, eth0, net1, n1, n2, w1, w2

MCNodeOf == w1 :> n1 @@ w2 :> n2

\* "ns-a/b" and "ns/a-b" have the same dashed name: vm2 and vm3 stand for them.
MCDashed == vm1 :> 1 @@ vm2 :> 2 @@ vm3 :> 2

Ask(r, i) == [resource |-> r, iface |-> i, family |-> "v4"]

\* One pool with four addresses to hand out (14 usable ones), three claims.
OnePool == {1}
OnePoolSpec == [p \in OnePool |-> [ipFamily |-> "v4", cidr |-> [family |-> "v4", size |-> 16]]]
ThreeClaims == {Ask(vm1, eth0), Ask(vm1, net1), Ask(vm2, eth0)}

\* A pool whose CIDR does not parse, then a point-to-point pool with one
\* address to hand out; two claims that want the same ClusterIP name.
TwoPools == {1, 2}
TwoPoolsSpec ==
    1 :> [ipFamily |-> "v4", cidr |-> [family |-> "v4", size |-> 0]] @@
    2 :> [ipFamily |-> "v4", cidr |-> [family |-> "v4", size |-> 4]]
CollidingClaims == {Ask(vm2, eth0), Ask(vm3, eth0)}
OneNode == w1 :> n1 @@ w2 :> n1
=============================================================================
