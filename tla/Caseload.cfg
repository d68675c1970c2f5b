SPECIFICATION Spec
CONSTANTS
    ana = ana
    ben = ben
    sue = sue
    ana1 = ana1
    ana2 = ana2
    ben1 = ben1
    sue1 = sue1
    Household = {h1}
    Worker = {ana, ben, sue}
    Supervisor = {sue}
    Session = {ana1, ana2, ben1, sue1}
    WorkerOf <- MCWorkerOf
    NoOne = NoOne
    NoCase = NoCase
    LastDay = 2
    MaxTicks = 3
INVARIANTS
    HeldByLastAssigned
    NeverDropped
    ListedToHolder
    AdmittedIsHolder
SYMMETRY Requests
CHECK_DEADLOCK FALSE
