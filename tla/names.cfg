SPECIFICATION Spec
CONSTANTS
    s1 = s1
    s2 = s2
    k1 = k1
    web = web
    api = api
    Old = old
    Spawners <- TwoSpawners
    Killers <- OneKiller
    Names <- TwoNames
    MayCrash = {old}
INVARIANTS TypeOK NameCheckDecides
SYMMETRY Alike
CHECK_DEADLOCK FALSE
