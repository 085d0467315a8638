SPECIFICATION Spec
CONSTANTS
    NoSource = NoSource
    Sources = {a1, a2}
    Fragments = {b1, b2}
    Removals = {d1, d2}
    NoSave = NoSave
    Saves = {c1, c2, c3}
    Tests = {t1}
    None = None
    Setups = {c1, c2, c3}
    Upserts = {u1}
    SettingsSaves = {d1, d2}
    Emails = {a1, a2}
    Tenants = {b1, b2}
    NoSession = NoSession
    Sessions = {a1, a2}
    Requests = {d1, d2}
    TTL = 3
    Second = 2
    MaxTime = 6
SYMMETRY Symmetry
INVARIANTS
    TypesOK
    VectorsAgree
    IntegrationsAgree
    OwnersAgree
PROPERTY ImplementsSessionStore
CHECK_DEADLOCK FALSE
