CONSTANTS
    Failures = {"error", "lost", "unanswered"}
    Servers = {s1}
    Users = {u1, u2, u3}
    Mdns = {m1, m2, m3}
    Passwords = {p1, p2}
    None = None
SPECIFICATION Spec
SYMMETRY Symmetry
INVARIANTS TypeOK IndexPointsToUser AcceptedTaken IndexSound AcceptedIntact
PROPERTIES HalfSavedStays RecordsImmutable RegistrationSpec
