SPECIFICATION Spec
CONSTANTS
    TypeCount = 4
    SuperOf <- MCSuperOf
    Members <- MCMembers
    NameOf <- MCNameOf
    Message = "Message"
    Time = "Time"
    Generated = {2, 3}
    Unexaminable = {1}
    Handling <- MCHandling
    MaxEvents = 1
    Wanted = {1, 2, 3}
    BrowseFails = {1}
    ReadFails = {}
    Strange = {"a2"}
INVARIANT FieldsProcessed
CHECK_DEADLOCK FALSE
