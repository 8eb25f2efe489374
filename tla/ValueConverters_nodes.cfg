CONSTANTS
    H8 = 128
    H16 = 1024
    H32 = 8192
    H64 = 65536
    LongHalf = 8192
    CharSigned = TRUE
    DataTypes <- MCDataTypes
    Nodes <- MCNodes
    StoredValues <- MCStoredValues
    JavaValues <- MCJavaValues
SPECIFICATION Spec
INVARIANT TypeOK
PROPERTIES WriteBackKept AcceptedExact
