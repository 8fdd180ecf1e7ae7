\* Three carriers of four samples: two rounds do not reach the last column.
CONSTANTS
    Carriers = 3
    Blocks = 4
    Oversampling = 2
    Prime = 19
    Waves <- MCWaves
    Roundings <- MCRoundings
    Signals <- MCSignals
    Noises <- MCNoises
SPECIFICATION Spec
INVARIANTS TypeOK Eliminated AugmentFollows
CHECK_DEADLOCK FALSE
