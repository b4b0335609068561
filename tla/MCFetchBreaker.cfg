SPECIFICATION Spec
CONSTANTS
    p1 = p1
    p2 = p2
    p3 = p3
    p4 = p4
    p5 = p5
    promo = promo
    h1 = h1
    h2 = h2
    Pages <- MCPages
    Promo <- MCPromo
    Hosts <- MCHosts
    HostOf <- MCHostOf
    Parallel = 2
    Nested = FALSE
    PerHostLimit = 1
    PanicUnwinds = FALSE
    MaxTime = 1
PROPERTIES
    OpenBreakerShortCircuits
