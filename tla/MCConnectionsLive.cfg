SPECIFICATION FairSpec
CONSTANTS
    Clients = {c1, c2}
    None = None
    Backlog = 1
    MaxProcesses = 2

PROPERTIES FirstInLineIsAnswered LostClientsAreTold
CHECK_DEADLOCK FALSE
