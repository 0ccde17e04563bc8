SPECIFICATION Spec
CONSTANTS
    d1 = d1
    d2 = d2
    s1 = s1
    s2 = s2
    a1 = a1
    a2 = a2
    m1 = m1
    m2 = m2
    Dirs = {d1, d2}
    Settings = {s1, s2}
    Assets = {a1, a2}
    Media = {m1, m2}
    MediaOf <- MCMediaOf
    None = None
    MaxBackups = 1
    Faults = {"crash", "error", "load"}
    MaxKinds = 1
SYMMETRY Symmetry
INVARIANTS
    TypeOK
    StoresAgree
    
    LockIsReleased
    FlagIsSound
CHECK_DEADLOCK FALSE
