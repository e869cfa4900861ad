\* One server at a time, two upgrades, any failure and any crash.
SPECIFICATION Spec
CONSTANTS
    s1 = s1
    f1 = f1
    f2 = f2
    f3 = f3
    f4 = f4
    Servers = {s1}
    Versions = {1, 2, 3}
    Paths = {f1, f2, f3, f4}
    Bundle <- ThreeBundles
    GoBack = FALSE
    Absent = Absent
    Partial = Partial
INVARIANTS
    TypeOK
    ServedIsComplete
