CONSTANTS
    Threads = {t1, t2}
    MaxClaims = 2
    MaxEdits = 1
    MaxCrashes = 1
SPECIFICATION Spec
INVARIANTS TypeOK RenderedOnce
PROPERTIES RenderedIsApplied
SYMMETRY Symmetry
CHECK_DEADLOCK FALSE
