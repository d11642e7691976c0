CONSTANTS
    Failures = {"error", "lost", "unanswered"}
    Servers = {s1}
    Users = {u1, u2}
    Mdns = {m1, m2}
    Passwords = {p1}
    None = None
SPECIFICATION Spec
SYMMETRY Symmetry
INVARIANTS MdnUnique
