SPECIFICATION FairSpec
CONSTANTS
    Devices <- MCDevices
    Callers = {c1, c2}
    Literals = {"literal"}
    Addresses <- MCAddresses
    NoSerial = "none"
    NoEntry = NoEntry
    Limit = 2
    Timeout = 1
    MaxEntries = 2
    MaxRegistered = 2
INVARIANTS
    PermitsKept
    CallsInTime
    AnswersWhole
    MatchRight
PROPERTIES
    CallsReturn
