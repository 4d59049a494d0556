SPECIFICATION Spec
CONSTANTS
    r = r
    s = s
    l = l
    x = x
    y = y
    a = a
    b = b
    none = none
    c1 = c1
    Dir = {r}
    Root = r
    Parent <- MCParent
    Mounted = {}
    Name = {a, b}
    Content = {none, c1}
    Size <- MCSize
    Extension <- MCExtension
    NoFile = NoFile
    Setups <- EmptySetups
    Racy = 1
    QueueLimit = 1
    MaxTime = 1
    MaxWalks = 3
    EnvSteps = 1
CHECK_DEADLOCK FALSE
PROPERTIES
    NeverInvents
