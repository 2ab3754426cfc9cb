CONSTANTS
    s1 = s1  s2 = s2  s3 = s3
    ns = ns  vm1 = vm1  eth0 = eth0  net1 = net1
    NoVm = NoVm
    NoLabels = NoLabels
    NoSandbox = NoSandbox
    Unset = Unset
    Sandboxes = {s1, s2, s3}
    IdOf <- MCIdOf
    Capacity = 3
    MaxReports = 2
SPECIFICATION FairSpec
INVARIANTS
    TypeOK
    AtRestLatest
PROPERTIES
    NeverBack
    CatchesUp
