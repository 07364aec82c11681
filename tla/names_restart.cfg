SPECIFICATION RestartSpec
CONSTANTS
    s1 = s1
    s2 = s2
    k1 = k1
    web = web
    api = api
    Old = old
    Spawners = {s1}
    Killers <- OneKiller
    Names = {web}
    MayCrash = {}
INVARIANT RestartTakesTheName
CHECK_DEADLOCK FALSE
