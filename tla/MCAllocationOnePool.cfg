CONSTANTS
    vm1 = vm1  vm2 = vm2  vm3 = vm3
    eth0 = eth0  net1 = net1
    n1 = n1  n2 = n2  w1 = w1  w2 = w2
    Resources = {vm1, vm2}
    Ifaces = {eth0, net1}
    Nodes = {n1, n2}
    Workers = {w1, w2}
    NodeOf <- MCNodeOf
    Dashed <- MCDashed
    Pools <- OnePool
    SpecOf <- OnePoolSpec
    Claims <- ThreeClaims
    MaxEdits = 0
SPECIFICATION Spec
INVARIANTS
    TypeOK
    PoolAccounting
    CommittedDistinct
    CommittedContiguous
    NoAddressLost
    AddressUsable
    AnswersRecorded
PROPERTIES
    NeverReset
    ImplementsLedger
