\* The CA is loaded again or made anew at the restart; it expires, as does what it signs.
CONSTANTS
    e1 = e1
    e2 = e2
    c1 = c1
    c2 = c2
    t1 = t1
    t2 = t2
    Edges = {e1, e2}
    Codes = {c1, c2}
    Tenants = {t1, t2}
    TenantOf <- MCTenantOf
    Lag <- MCLag
    Grace = 1
    CATTL = 3
    CertTTL = 2
    NoCert = NoCert
    MaxTime = 4
    MaxStarts = 2
CHECK_DEADLOCK FALSE
SPECIFICATION Spec
INVARIANTS StreamsAreEdges OneCertificatePerCode EnrolledConnects
