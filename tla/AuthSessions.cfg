SPECIFICATION FairSpec
CONSTANTS
    t1 = t1
    t2 = t2
    t3 = t3
    l1 = l1
    l2 = l2
    r1 = r1
    r2 = r2
    None = None
    Tokens = {t1, t2, t3}
    Links = {l1, l2}
    Requests = {r1, r2}
INVARIANTS AuthInv SingleExchange OneLivePerFamily DeletedNeverExchanged
PROPERTIES RequestsEnd Implements
