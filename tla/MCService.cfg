SPECIFICATION Spec
CHECK_DEADLOCK FALSE
CONSTANTS
    MaxMigrations = 1
    MaxEdits = 1
    MaxTroubles = 2
INVARIANTS ServiceInv
PROPERTIES ServiceGoesOn
