CONSTANTS
    n1 = n1
    n2 = n2
    m1 = m1
    m2 = m2
    Nodes = {n1, n2}
    Methods = {}
    TypeCount = 0
    KindOf <- NoTypes
    Fields <- NoTypes
    TypeOf <- ValuesTypeOf
    InputType <- NoMethods
    OutputType <- NoMethods
    Values = {0, 1}
    Kinds = {"write", "subscribe", "unsubscribe"}
    Pages = 1
    FetchFails = {"java"}
    MaxPackets = 1
    MaxItems = 2
SPECIFICATION Spec
INVARIANT Current
