CONSTANTS
    s1 = s1  s2 = s2  s3 = s3
    podA = podA  podB = podB
    lsX = lsX  public = public
    w1 = w1  w2 = w2
    Sandboxes = {s1, s2}
    Ids = {podA, podB}
    Switches = {lsX, public}
    NoSwitch = NoSwitch
    Removable = {}
    Declared = {}
    Workers = {w1, w2}
    Public = public
    Refusals = FALSE
    MaxTried = 2
    IdOf <- MCIdOf
    NetOf <- MCNetOf
SPECIFICATION Spec
SYMMETRY Interchangeable
INVARIANT Unplugged
