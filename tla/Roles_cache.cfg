\* Two instances and two roles; units of 15 s: 45 s in Redis, 60 s in a process.
CONSTANTS
    Instances = {i1, i2}
    Roles = {admin, member}
    None = None
    RedisTtl = 3
    LocalTtl = 4
    Delay = 1
SPECIFICATION Spec
INVARIANTS TypeOK StaleBounded
