CONSTANTS
    MaxFailures = 0
    None = None
    Worker = worker
    Senders = {s1}
    Uploads = {u1}
    Clients = {c1, c2, c3}
    MaxTroubles = 1
SPECIFICATION FairSpec
INVARIANTS
    TypeOK
    ClientsOwned
    PeersCurrent
    StopLeavesLate
PROPERTIES
    ReadyNotDegraded
    ImplementsRoleClients
    PublisherRecovers
CHECK_DEADLOCK FALSE
