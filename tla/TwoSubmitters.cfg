SPECIFICATION Spec
CONSTANTS
    a1 = a1
    a2 = a2
    c1 = c1
    c2 = c2
    j1 = j1
    Apps = {a1, a2}
    JobOf <- OneJob
    Autonomous = {a1, a2}
    Clients = {c1}
    MaxTries = 3
    Faults = {}
    UserStatuses = {"withdrawn"}
INVARIANT OneSubmitterPerJob
