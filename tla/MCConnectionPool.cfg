SPECIFICATION PoolFairSpec
CONSTANTS
    Listeners = {l1}
    Streams = {s1, s2}
    Routes = {r1}
    PoolSize = 4
INVARIANTS
    PoolHoldsOut
PROPERTIES
    EverybodyIsServed
