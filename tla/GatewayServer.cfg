SPECIFICATION Spec
CONSTANTS
    p1 = p1
    p2 = p2
    p3 = p3
    m1 = m1
    m2 = m2
    RSSI = RSSI
    PAPP = PAPP
    Packets = {p1, p2, p3}
    Motes = {m1, m2}
    Fields = {RSSI, PAPP}
    Sender <- MCSender
    FieldsOf <- MCFieldsOf
    LinkFields = {RSSI}
    Refused = {p2}
    TtySize = 3
    MaxClock = 1
INVARIANTS
    TypeOK
    PacketsConserved
    StoredOnceInOrder
    IntactPackets
PROPERTIES
    ImplementsStore
