SPECIFICATION Spec
CONSTANTS
    a1 = a1
    a2 = a2
    c1 = c1
    c2 = c2
    j1 = j1
    Apps = {a1, a2}
    JobOf <- OneJob
    Autonomous = {a1}
    Clients = {c1, c2}
    MaxTries = 2
    Faults = {"api", "pool"}
    UserStatuses = {"withdrawn"}
INVARIANTS TwoRunsMeanOverridden NoStuckApplying
PROPERTIES RefusedIsNotQueued
SYMMETRY Sym
VIEW Present
