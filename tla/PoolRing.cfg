\* Five pools: ends, middle and a ring of one.
CONSTANTS
    Pools = {p1, p2, p3, p4, p5}
    NULL = NULL
SPECIFICATION Spec
INVARIANTS OneRing
