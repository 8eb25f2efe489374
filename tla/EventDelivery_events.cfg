SPECIFICATION Spec
CONSTANTS
    TypeCount = 4
    SuperOf <- MCSuperOf
    Members <- MCMembers
    NameOf <- MCNameOf
    Message = "Message"
    Time = "Time"
    Generated = {2, 3}
    Unexaminable = {1}
    Handling <- MCHandling
    MaxEvents = 2
    Wanted = {1, 2, 3}
    BrowseFails = {1}
    ReadFails = {"b"}
    Strange = {"a2"}
INVARIANTS TypeOK FieldsNearest EventsTrue NoCrash
PROPERTY EventArrives
CHECK_DEADLOCK FALSE
