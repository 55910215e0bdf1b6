SPECIFICATION Spec
CONSTANTS
    p1 = p1
    p2 = p2
    Procs = {p1, p2}
    AgentSteps = 2
    Faults = {"abort", "signal", "lost step", "lost finish"}
    MaxCuts = 1
INVARIANT
    AgentInv
SYMMETRY Symmetry
