SPECIFICATION FairSpec
CONSTANTS
    p1 = p1
    p2 = p2
    p3 = p3
    m1 = m1
    m2 = m2
    RSSI = RSSI
    PAPP = PAPP
    Packets = {p1, p2}
    Motes = {m1, m2}
    Fields = {RSSI, PAPP}
    Sender <- MCSender
    FieldsOf <- MCFieldsOf
    LinkFields = {RSSI}
    Refused = {}
    TtySize = 4
    MaxClock = 0
PROPERTIES
    PrintedAccepted
    BacklogWritten
