SPECIFICATION Spec
CONSTANTS
    r1 = r1
    r2 = r2
    Runs = {r1, r2}
    Nobody = Nobody
    MaxCrashes = 2
SYMMETRY RunSymmetry
INVARIANT
    JournalIsTrue
PROPERTY
    OnlyApprovedChanges
