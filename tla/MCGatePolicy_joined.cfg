SPECIFICATION Spec
CONSTANTS
    api1 = api1
    api2 = api2
    l1 = l1
    l2 = l2
    r1 = r1
    Process = {api1}
    Request = {r1}
    Load = {l1, l2}
    TableCount = 3
    MaxWrites = 1
    MaxFailures = 0
    MaxRestarts = 0
    none = none
INVARIANT ConfirmedIsServed
