\* Two requests at a time; s1 and s2 are known, s3 may be registered.
SPECIFICATION OnboardingSpec
CONSTANTS
    Suppliers = {s1, s2, s3}
    Seeded = {s1, s2}
    Strangers = {x}
    Null = Null
    Names = {n1, n2}
    Emails = {e1, e2}
    Callers = {c1, c2}
    MaxCalls = 2
    MaxLetters = 2
    MaxCrashes = 1
SYMMETRY Symmetry
INVARIANTS OneAccount AnnouncedBacked
PROPERTY RefusalStands
CHECK_DEADLOCK FALSE
