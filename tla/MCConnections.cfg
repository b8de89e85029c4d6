SPECIFICATION Spec
CONSTANTS
    Clients = {c1, c2, c3}
    None = None
    Backlog = 2
    MaxProcesses = 2
SYMMETRY Symmetry
INVARIANTS OneClientPerProcess ServedClientsAreSafe NobodyWaitsInVain ConnInv
CHECK_DEADLOCK FALSE
