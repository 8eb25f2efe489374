CONSTANTS
    n1 = n1
    n2 = n2
    m1 = m1
    m2 = m2
    Nodes = {n1}
    Methods = {m1, m2}
    TypeCount = 3
    KindOf <- TypesKindOf
    Fields <- TypesFields
    TypeOf <- TypesTypeOf
    InputType <- TypesInputType
    OutputType <- TypesOutputType
    Values = {0, 1}
    Kinds = {"read", "write", "exec", "subscribe", "unsubscribe", "browse"}
    Pages = 2
    FetchFails = {"java", "sdk"}
    MaxPackets = 1
    MaxItems = 1
SPECIFICATION Spec
INVARIANTS TypeOK TypesPreloaded
PROPERTIES AnswersTrue OperationsAtomic OperationsEnd
