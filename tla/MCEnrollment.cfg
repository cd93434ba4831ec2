\* Three calls for two codes, of which each is given out twice.
SPECIFICATION Spec
CONSTANTS
    Codes = {c1, c2}
    Tenants = {t1, t2}
    Requests = {r1, r2, r3}
    NoCode = NoCode
    NoTenant = NoTenant
    MaxAdds = 2
    MaxTime = 2
SYMMETRY Symmetry
\* The system may stop: the calls are answered and the bounds are reached.
CHECK_DEADLOCK FALSE
INVARIANTS
    OneCertPerCode
    NeverBurntByCSR
PROPERTIES
    ImplementsOneTimeCodes
