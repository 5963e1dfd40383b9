CONSTANTS
    launcher = launcher
    again = again
    cli = cli
    client = client
    bot = bot
    worker = worker
    Processes <- AllProcesses
    Modes <- AllModes
    Program <- Programs
    Files = {f1, f2, f3, f4, f5}
    UnlinkOpenFails = FALSE
    None = None
SPECIFICATION Spec
INVARIANTS
    ModeExclusive
