CONSTANTS
    vm1 = vm1  vm2 = vm2  vm3 = vm3
    eth0 = eth0  net1 = net1
    n1 = n1  n2 = n2  w1 = w1  w2 = w2
    Resources = {vm2, vm3}
    Ifaces = {eth0}
    Nodes = {n1}
    Workers = {w1, w2}
    NodeOf <- OneNode
    Dashed <- MCDashed
    Pools <- TwoPools
    SpecOf <- TwoPoolsSpec
    Claims <- CollidingClaims
    MaxEdits = 3
SPECIFICATION Spec
INVARIANT StatusObserved
