SPECIFICATION Spec
CONSTANTS
    MaxKeyId = 1
    PrivateKeys = {k1, k2}
    Passwords = {p1}
    Hosts = {h1}
    Machines = {m1}
    Calls = {c1, c2}
    Tests = {t1, t2}
    NoSecret = NoSecret
    NoHost = NoHost
    NoMachine = NoMachine
    NoTest = NoTest
    NoProof = NoProof
SYMMETRY Symmetry
INVARIANT
    SavedIsTested
