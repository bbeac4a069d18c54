SPECIFICATION Spec
CONSTANTS
    Gens = {g1, g2}
    Readers = {r1}
    Keepers = {k1}
    Attempts = 2
    None = None
INVARIANT OpenGenerationStays
INVARIANT LeaseStaysLinked
INVARIANT CurrentIsWhole
PROPERTY TransitionSparesReaders
PROPERTY EveryoneEnds
