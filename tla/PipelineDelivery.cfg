SPECIFICATION FairSpec
CONSTANTS
    a1 = a1
    a2 = a2
    c1 = c1
    c2 = c2
    j1 = j1
    Apps = {a1}
    JobOf <- OneJob
    Autonomous = {}
    Clients = {c1, c2}
    MaxTries = 3
    Faults = {"api", "pool", "redis", "timeout", "shutdown", "crash"}
    UserStatuses = {"queued", "withdrawn"}
INVARIANTS PipelineInv HumanGate NeverSubmitsCompleted
PROPERTIES Implements JobsDrain
