SPECIFICATION Spec
CONSTANTS
    c1 = c1
    c2 = c2
    Callers = {c1, c2}
    Kinds = {"direct", "slingshot", "alleycat", "bridges", "ssh", "guided"}
    MaxSessions = 2
    MaxIncidents = 3
INVARIANTS TypeOK StoreAgrees OrphansExplained StaleReadersWake
SYMMETRY CallerSymmetry
CHECK_DEADLOCK FALSE
