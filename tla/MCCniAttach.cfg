CONSTANTS
    s1 = s1  s2 = s2  s3 = s3
    podA = podA  podB = podB
    lsX = lsX  public = public
    w1 = w1  w2 = w2
    Sandboxes = {s1, s2, s3}
    Ids = {podA, podB}
    Switches = {lsX, public}
    NoSwitch = NoSwitch
    Removable = {}
    Declared = {lsX}
    Workers = {w1}
    Public = public
    Refusals = FALSE
    MaxTried = 3
    IdOf <- MCIdOf
    NetOf <- ChangedNetOf
SPECIFICATION Spec
PROPERTY Attached
