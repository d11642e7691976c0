CONSTANTS
    Failures = {}
    Servers = {s1, s2}
    Users = {u1, u2}
    Mdns = {m1, m2}
    Passwords = {p1}
    None = None
SPECIFICATION Spec
SYMMETRY Symmetry
INVARIANTS UserIdAcceptedOnce
