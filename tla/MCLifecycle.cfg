CONSTANTS
    vm1 = vm1  eth0 = eth0  none = none  n1 = n1  w1 = w1
    Resources = {vm1}
    Ifaces = {eth0, none}
    NoIface = none
    Nodes = {n1}
    Workers = {w1}
    NodeOf <- MCNodeOf
    Dashed <- MCDashed
    Pools <- OnePool
    SpecOf <- OnePoolSpec
    Claims <- OneClaim
    MaxEdits = 0
    VMs = {vm1}
    NoPassword = {}
    MaxEvents = 3
    MayFail = TRUE
SPECIFICATION LifecycleSpec
INVARIANTS
    LifecycleTypeOK
    AnswersStand
    CredentialsFollow
    LeasesOwned
PROPERTY ImplementsLedger
