-------------------------- MODULE MCValueConverters -------------------------
(* Instance of ValueConverters: scaled widths, a model with an             *)
(* enumeration, two structures and a union, and samples of values.         *)
EXTENDS ValueConverters, TLC

NS0(t)   == t :> [ns0 |-> TRUE, base |-> t, isUnion |-> FALSE,
                  fields |-> [f \in {} |-> ""], optional |-> {}]
BuiltIn  == NS0("SByte") @@ NS0("Byte") @@ NS0("Int16") @@ NS0("UInt16") @@ NS0("Int32")
            @@ NS0("UInt32") @@ NS0("Int64") @@ NS0("UInt64") @@ NS0("DateTime")
            @@ NS0("Boolean") @@ NS0("Float") @@ NS0("Double") @@ NS0("Duration")
            @@ NS0("String") @@ NS0("ByteString") @@ NS0("LocalizedText") @@ NS0("NodeId")
Own(b, fields, optional) == [ns0 |-> FALSE, base |-> b, isUnion |-> b = "Union",
                             fields |-> fields, optional |-> optional]
MCDataTypes ==
    BuiltIn
    @@ ("Mode"   :> Own("Enumeration", [f \in {} |-> ""], {}))
    @@ ("Epc"    :> Own("Structure", ("uid" :> "ByteString" @@ "pc" :> "Int32"), {}))
    @@ ("Scan"   :> Own("Structure", ("epc" :> "Epc" @@ "mode" :> "Mode" @@ "note" :> "String"
                                      @@ "level" :> "Float"), {"note", "level"}))
    @@ ("Choice" :> Own("Union", ("epc" :> "Epc" @@ "text" :> "String"), {}))

One(t)  == [type |-> t, isArray |-> FALSE]
Many(t) == [type |-> t, isArray |-> TRUE]
Scalars == {"SByte", "Byte", "Int16", "UInt16", "Int32", "UInt32", "Int64", "UInt64",
            "DateTime", "Boolean", "Float", "Double", "Duration", "String", "ByteString",
            "LocalizedText", "NodeId", "Mode", "Epc", "Scan", "Choice"}
Lists   == {"Byte", "Int16", "UInt16", "Int32", "UInt32", "String", "LocalizedText", "Mode", "Epc"}
MCNodes == [x \in {<<t, "one">> : t \in Scalars} \cup {<<t, "many">> : t \in Lists} |->
              IF x[2] = "one" THEN One(x[1]) ELSE Many(x[1])]

Edges(t)   == LET r == UaRange(t) IN
              {Num(UaKind(t), k) : k \in {m \in {-H64, -H32, -H32 - 1, -H16, -H8, -1, 0, 1, 65,
                  H8 - 1, H8, 2 * H8 - 1, H16 - 1, H16, 2 * H16 - 1, H32 - 1, H32,
                  2 * H32 - 1, H64 - 1} : m \in r}}
Texts(k)   == {Text(k, <<>>), Text(k, <<65, 66>>), Text(k, <<195, 169>>)}
AnEpc(u)   == Obj("Object", "Epc", ("uid" :> u @@ "pc" :> Num("Int32", -5)))
Bytes(s)   == Text("ByteString", s)
AScan(more) == Obj("Object", "Scan", ("epc" :> AnEpc(Bytes(<<7>>)) @@ "mode" :> Num("Int32", 2)) @@ more)

OneOf(t) ==
    CASE MCDataTypes[t].base \in NumberTypes -> Edges(MCDataTypes[t].base)
              \cup (IF t = "Mode" THEN {Num("UInt16", 3)} ELSE {})
      [] t = "Boolean"              -> {[kind |-> t, b |-> TRUE]}
      [] t \in {"Float", "Double"}  -> {[kind |-> t, x |-> 3]}
      [] t = "Duration"             -> {[kind |-> "Double", x |-> 4]}
      [] t = "String"               -> Texts("String") \cup {NullOf("String")}
      [] t = "ByteString"           -> {NullOf(t), Bytes(<<0, 200>>)}
      [] t = "LocalizedText"        -> {[kind |-> t, locale |-> l, s |-> <<65>>] : l \in {"en", "de"}}
      [] t = "NodeId"               -> {Text("NodeId", <<65>>)}
      [] t = "Epc"                  -> {AnEpc(Bytes(<<1, 2>>)), AnEpc(NullOf("ByteString"))}
      [] t = "Scan"                 -> {AScan("note" :> Text("String", <<66>>) @@ "level" :> [kind |-> "Float", x |-> 2]),
                                        AScan([f \in {} |-> {}])}
      [] t = "Choice"               -> {Obj("Object", t, "epc" :> AnEpc(Bytes(<<1>>))),
                                        Obj("Object", t, "text" :> Text("String", <<65>>)),
                                        Obj("Object", t, [f \in {} |-> {}])}
MCStoredValues ==
    [x \in DOMAIN MCNodes |->
        IF x[2] = "one" THEN OneOf(x[1])
        ELSE {Arr("Array", ValueKind(MCDataTypes[x[1]].base), s) :
                 s \in {<<>>} \cup {<<v, CHOOSE w \in OneOf(x[1]) : w # v>> : v \in OneOf(x[1])}}]

AMap(f)  == Obj("Map", "Object", f)
AList(s) == Arr("List", "Object", s)
JEpc     == "uid" :> AList(<<Num("Byte", 3), Num("Byte", -1)>>) @@ "pc" :> Num("Integer", 9)
MCJavaValues ==
    {Num("Integer", k) : k \in {-1, 7, H16, 2 * H16, H32 - 1}}
    \cup {Num("Long", 5), Num("Long", H32), Num("Short", -3), Num("Byte", 4), Num("Character", 65)}
    \cup {[kind |-> "Boolean", b |-> FALSE], [kind |-> "Float", x |-> 1], [kind |-> "Double", x |-> 2],
          [kind |-> "Date"]}
    \cup {Text("String", s) : s \in {<<>>, <<72, 105>>, <<233>>, <<72, 0, 72>>}}
    \cup {AList(s) : s \in {<<>>, <<Num("Integer", 1), Num("Integer", 2 * H16)>>,
                            <<Num("Integer", 1), Text("String", <<65>>)>>,
                            <<Num("Long", 6)>>, <<Num("Byte", -2), Num("Byte", 3)>>,
                            <<Text("String", <<65>>), Text("String", <<66>>)>>,
                            <<AMap(JEpc), AMap(JEpc)>>}}
    \cup {AMap(JEpc), AMap("uid" :> AList(<<Num("Byte", 1)>>)),
          AMap("epc" :> AMap(JEpc)), AMap("other" :> Num("Integer", 1) @@ JEpc),
          AMap("epc" :> AMap(JEpc) @@ "text" :> Text("String", <<65>>)),
          AMap("epc" :> AMap(JEpc) @@ "mode" :> Num("Integer", 1)),
          AMap("epc" :> AMap(JEpc) @@ "mode" :> Num("Integer", 1) @@ "level" :> [kind |-> "Float", x |-> 8])}
=============================================================================
