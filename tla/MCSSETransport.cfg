CONSTANTS
    s1 = s1
    s2 = s2
    m1 = m1
    m2 = m2
    m3 = m3
    Everyone = Everyone
    Sessions <- TwoSessions
    Messages <- ThreeMessages
    Posted <- OnePosted
    ClientId <- Addresses
    Buffer = 1
SPECIFICATION Spec
INVARIANTS
    Isolation
    OrderKept
    ReachesLiveClients
PROPERTIES
    SendsReturn
