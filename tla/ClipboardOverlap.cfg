SPECIFICATION FairSpec
CONSTANTS
    j1 = j1
    j2 = j2
    j3 = j3
    server = server
    terminal = terminal
    Empty = Empty
    Jobs = {j1, j2}
    Texts = {u1}
    Secrets = {s1, s2}
    Processes <- MCProcesses
    Terminals <- MCTerminals
    Owner <- MCOwner
    MayExit = FALSE
    MayFail = FALSE
INVARIANTS
    NoSecretLeftBehind
