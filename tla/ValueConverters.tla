-------------------------- MODULE ValueConverters ---------------------------
(***************************************************************************)
(* Values of any shape on their way between an OPC UA node and Java, and   *)
(* the client's read, write and call as a state machine: what is stored in *)
(* a node, what Java read last, what a method with one argument of the     *)
(* node's data type was passed, and how the last operation ended.          *)
(*                                                                         *)
(* Arrays, structures and unions are built from the scalars of             *)
(* ScalarConverters.  A record's fields tell its shape:                    *)
(*   [kind, n] a number, [kind, s] a text (bytes, or UTF-16 units in       *)
(*   Java), [kind, x] an opaque value, [kind] alone a null of that kind,   *)
(*   [kind, type, elems] an array, [kind, type, fields] a structure.       *)
(***************************************************************************)
EXTENDS ScalarConverters, Sequences, FiniteSets

CONSTANTS
    DataTypes,      \* data type -> [ns0, base, isUnion, fields, optional]
    Nodes,          \* node or argument -> [type, isArray]
    StoredValues,   \* node -> values the server may hold at the start
    JavaValues      \* objects that Java may write

VARIABLES node, stored, seen, argument, outcome
vars == <<node, stored, seen, argument, outcome>>

Text(kind, s)            == [kind |-> kind, s |-> s]
NullOf(kind)             == [kind |-> kind]
Arr(kind, type, elems)   == [kind |-> kind, type |-> type, elems |-> elems]
Obj(kind, type, fields)  == [kind |-> kind, type |-> type, fields |-> fields]
Elements(s)              == {s[i] : i \in DOMAIN s}
Failed(s)                == Exception \in s
Undefined(s)             == Garbage \in s

BaseType(type)   == DataTypes[type].base
Fields(type)     == DataTypes[type].fields
FieldNames(type) == DOMAIN Fields(type)
IsStructure(type) == BaseType(type) \in {"Structure", "Union"}

-----------------------------------------------------------------------------
(* ConverterUa2IO, reading.                                                *)

(* convertUaBuildInType2io, Boolean and the floating point types.          *)
PlainUaToIo(v, base) ==
    CASE v.kind = "Boolean" /\ base = "Boolean"              -> [v EXCEPT !.kind = "BOOL"]
      [] v.kind = "Float" /\ base = "Float"                  -> [v EXCEPT !.kind = "FLOAT"]
      [] v.kind = "Double" /\ base \in {"Double", "Duration"} -> [v EXCEPT !.kind = "DOUBLE"]
      [] OTHER                                               -> Exception

(* The texts: a null string or byte string stays null, and a localized     *)
(* text keeps its locale; a node id becomes a variant of its own.          *)
TextUaToIo(v, base) ==
    CASE v.kind = "String" /\ base = "String"               -> [v EXCEPT !.kind = "STRING"]
      [] v.kind = "ByteString" /\ base = "ByteString"       -> [v EXCEPT !.kind = "BYTE_STRING"]
      [] v.kind = "NodeId" /\ base = "NodeId"               -> [v EXCEPT !.kind = "NODE_ID"]
      [] v.kind = "LocalizedText" /\ base = "LocalizedText" -> [v EXCEPT !.kind = "LOCALIZED_TEXT"]
      [] OTHER                                              -> Exception

NumberTypesOf(v) == {t \in NumberTypes : UaKind(t) = v.kind}

(* An Int32 or enumeration node may hold an UInt16.                        *)
BuiltInUaToIo(v, base) ==
    IF base \in NumberTypes
    THEN IF base \in NumberTypesOf(v) \/ (base \in {"Int32", "Enumeration"} /\ v.kind = "UInt16")
         THEN NumberUaToIo(base, v.n) ELSE Exception
    ELSE IF base \in {"Boolean", "Float", "Double", "Duration"} THEN PlainUaToIo(v, base)
    ELSE TextUaToIo(v, base)

(* getIoArrayType: only these types have arrays.                           *)
IoArrayType(base) ==
    CASE base = "Int16"                     -> "INT"
      [] base = "UInt16"                    -> "UINT"
      [] base \in {"Int32", "Enumeration"}  -> "LONG"
      [] base = "UInt32"                    -> "ULONG"
      [] base = "String"                    -> "STRING"
      [] base = "LocalizedText"             -> "LOCALIZED_TEXT"
      [] base \in {"Structure", "Union"}    -> "STRUCTURE"
      [] OTHER                              -> "none"

RECURSIVE UaToIo(_, _)

(* convertUaExtensionObject2io: a union has the field that is set or none; *)
(* a structure has every mandatory field and the optional ones that are    *)
(* set.                                                                    *)
StructureUaToIo(v, type) ==
    LET io == [f \in DOMAIN v.fields |-> UaToIo(v.fields[f], Fields(type)[f])]
    IN  IF \/ \E f \in DOMAIN io : io[f] = Exception
           \/ /\ ~DataTypes[type].isUnion
              /\ ~(FieldNames(type) \ DataTypes[type].optional \subseteq DOMAIN io)
        THEN Exception
        ELSE Obj("STRUCTURE", type, io)

(* convertUaArray2io.                                                      *)
ArrayUaToIo(v, type) ==
    LET elems == [i \in DOMAIN v.elems |-> UaToIo(v.elems[i], type)]
    IN  IF IoArrayType(BaseType(type)) = "none" \/ Failed(Elements(elems))
        THEN Exception
        ELSE Arr("ARRAY", IoArrayType(BaseType(type)), elems)

(* convertUa2io.                                                           *)
UaToIo(v, type) ==
    CASE v.kind = "Array"                        -> ArrayUaToIo(v, type)
      [] v.kind = "Object" /\ IsStructure(type)  -> StructureUaToIo(v, type)
      [] v.kind # "Array" /\ ~IsStructure(type)  -> BuiltInUaToIo(v, BaseType(type))
      [] OTHER                                   -> Exception

-----------------------------------------------------------------------------
(* ConverterBin2IO and Native2J, reading.                                  *)

(* char[] and byte[]: a null becomes an empty array; the locale of a       *)
(* localized text is left behind.                                          *)
TextIoToBin(io) ==
    LET elem == IF io.kind = "BYTE_STRING" THEN "BYTE" ELSE "CHAR"
        s    == IF "s" \in DOMAIN io THEN io.s ELSE <<>>
    IN  Arr("ARRAY", elem,
            [i \in DOMAIN s |-> Num(elem, IF elem = "BYTE" THEN AsSigned(s[i], H8)
                                                            ELSE AsChar(s[i]))])

(* The array types of convertIo2binArrayValue.                             *)
BinArrayType(ioType) ==
    CASE ioType = "BOOL"                -> "BOOLEAN"
      [] ioType = "SCHAR"               -> "BYTE"
      [] ioType = "INT"                 -> "SHORT"
      [] ioType \in {"UINT", "LONG"}    -> "INT"
      [] ioType \in {"ULONG", "LLONG"}  -> "LONG"
      [] ioType \in {"FLOAT", "DOUBLE"} -> ioType
      [] ioType \in {"STRING", "BYTE_STRING", "LOCALIZED_TEXT"} -> "ARRAY"
      [] ioType = "STRUCTURE"           -> "STRUCT"
      [] OTHER                          -> "none"

RECURSIVE IoToBin(_)

(* convertIo2bin: scalars, arrays and structures; the element type of a    *)
(* structure is kept as its name.                                          *)
IoToBin(io) ==
    CASE io.kind = "ARRAY" ->
            LET elems == [i \in DOMAIN io.elems |-> IoToBin(io.elems[i])]
            IN  IF BinArrayType(io.type) = "none" \/ Failed(Elements(elems)) THEN Exception
                ELSE Arr("ARRAY", BinArrayType(io.type), elems)
      [] io.kind = "STRUCTURE" ->
            LET fields == [f \in DOMAIN io.fields |-> IoToBin(io.fields[f])]
            IN  IF \E f \in DOMAIN fields : fields[f] = Exception THEN Exception
                ELSE Obj("STRUCT", io.type, fields)
      [] io.kind \in {"STRING", "BYTE_STRING", "LOCALIZED_TEXT", "NODE_ID"} -> TextIoToBin(io)
      [] io.kind = "BOOL"               -> [io EXCEPT !.kind = "BOOLEAN"]
      [] io.kind \in {"FLOAT", "DOUBLE"} -> io
      [] OTHER                          -> NumberIoToBin(io)

(* NewStringUTF: one or two bytes to a unit; anything else is no UTF-8.    *)
Replacement == 65533
DecodeUtf8(bytes) ==
    LET units[i \in 1 .. Len(bytes) + 1] ==
            IF i > Len(bytes) THEN <<>>
            ELSE IF bytes[i] < 128 THEN <<bytes[i]>> \o units[i + 1]
            ELSE IF bytes[i] \in 192 .. 223 /\ i < Len(bytes) /\ bytes[i + 1] \in 128 .. 191
                 THEN <<(bytes[i] - 192) * 64 + (bytes[i + 1] - 128)>>
                      \o (IF i + 2 > Len(bytes) THEN <<>> ELSE units[i + 2])
            ELSE <<Replacement>> \o units[i + 1]
    IN  units[1]

(* A C string ends at its first zero.                                      *)
Cut(s) == LET zeros == {i \in DOMAIN s : s[i] = 0}
          IN  IF zeros = {} THEN s
              ELSE SubSeq(s, 1, (CHOOSE i \in zeros : \A j \in zeros : i <= j) - 1)

RECURSIVE BinToJava(_)

(* getArray: characters become a string, other elements a list.            *)
ArrayBinToJava(bin) ==
    IF bin.type = "CHAR"
    THEN Text("String", DecodeUtf8(Cut([i \in DOMAIN bin.elems |->
                                          AsUnsigned(bin.elems[i].n, H8)])))
    ELSE Arr("List", "Object", [i \in DOMAIN bin.elems |-> BinToJava(bin.elems[i])])

(* getScalar for the kinds that are no numbers.                            *)
PlainBinToJava(bin) ==
    [bin EXCEPT !.kind = CASE bin.kind = "BOOLEAN" -> "Boolean"
                           [] bin.kind = "FLOAT"   -> "Float"
                           [] OTHER                -> "Double"]

(* getVariant, getStruct: a structure becomes a map without its type.      *)
BinToJava(bin) ==
    CASE bin.kind = "ARRAY"  -> ArrayBinToJava(bin)
      [] bin.kind = "STRUCT" -> Obj("Map", "Object",
                                    [f \in DOMAIN bin.fields |-> BinToJava(bin.fields[f])])
      [] bin.kind \in {"BOOLEAN", "FLOAT", "DOUBLE"} -> PlainBinToJava(bin)
      [] OTHER               -> NumberBinToJava(bin)

ReadValue(v, type) ==
    LET io  == UaToIo(v, type)
        bin == IF io = Exception THEN Exception ELSE IoToBin(io)
    IN  IF bin = Exception THEN Exception ELSE BinToJava(bin)

-----------------------------------------------------------------------------
(* The types that Java objects are converted by: Client::checkModel and    *)
(* findFieldModel collect, for every data type met, the types of its       *)
(* fields (or, for a type without fields, its base type).  The data types  *)
(* of a method's arguments are met this way; of a written node they are    *)
(* not, see WriteModels.                                                   *)

NoType     == [tag |-> "none"]
TypeOf(t)  == [tag |-> "TYPE", t |-> t]
RefTo(t)   == [tag |-> "REF", ref |-> t]

(* findFieldModel: a field of a namespace 0 type has that type, another    *)
(* one refers to the entry of its type.                                    *)
FieldModel(type) ==
    IF FieldNames(type) # {}
    THEN [f \in FieldNames(type) |-> IF DataTypes[Fields(type)[f]].ns0
                                     THEN TypeOf(Fields(type)[f]) ELSE RefTo(Fields(type)[f])]
    ELSE [f \in {type} |-> TypeOf(BaseType(type))]

(* getDataTypeFromModel: the field's entry, else that of the type itself.  *)
DataTypeFromModel(key, m) ==
    CASE m.tag = "REF" /\ key \in DOMAIN FieldModel(m.ref)   -> FieldModel(m.ref)[key]
      [] m.tag = "REF" /\ key \notin DOMAIN FieldModel(m.ref)
            /\ m.ref \in DOMAIN FieldModel(m.ref)            -> FieldModel(m.ref)[m.ref]
      [] OTHER                                               -> m

(* guessScalar for the other classes: a Float is fetched with              *)
(* CallIntMethod, and an object of a class it does not know becomes the    *)
(* zero that a new Scalar starts with.                                     *)
GuessPlain(java) ==
    CASE java.kind = "Boolean" -> [java EXCEPT !.kind = "BOOLEAN"]
      [] java.kind = "Double"  -> [java EXCEPT !.kind = "DOUBLE"]
      [] java.kind = "Float"   -> Garbage
      [] OTHER                 -> Num("INT", 0)

(* getScalarVariant once the type is known: doubleValue or intValue of a   *)
(* Number, which a Boolean is not.                                         *)
TypedPlain(java, type) ==
    CASE type \in {"Double", "Float"} /\ java.kind \in {"Double", "Float"}
            -> [java EXCEPT !.kind = IF type = "Double" THEN "DOUBLE" ELSE "FLOAT"]
      [] type \in {"Int32", "Enumeration"} /\ java.kind \in {"Double", "Float"}
            -> Num("INT", AsSigned(java.x, H32))
      [] type = "ByteString" /\ java.kind \in {"Double", "Float"}
            -> Num("BYTE", AsSigned(java.x, H8))
      [] type \in {"Double", "Float", "Int32", "Enumeration", "ByteString"}
            /\ java.kind \notin {"Double", "Float"} -> Garbage
      [] OTHER -> GuessPlain(java)

(* getScalarVariant: references are followed to a type; one that leads     *)
(* nowhere leaves the class of the object to decide.                       *)
RECURSIVE ScalarVariant(_, _)
ScalarVariant(java, m) ==
    LET known == IF m.tag = "TYPE" THEN m.t ELSE "none"
        m2    == DataTypeFromModel(IF m.tag = "REF" THEN m.ref ELSE "", m)
    IN  IF m.tag = "REF" /\ m2 # m THEN ScalarVariant(java, m2)
        ELSE IF java.kind \in JavaNumbers
             THEN IF known \in {"Double", "Float"} /\ java.kind # "Character"
                  THEN [kind |-> IF known = "Double" THEN "DOUBLE" ELSE "FLOAT", x |-> java.n]
                  ELSE IF known \in {"Double", "Float"} THEN Garbage
                  ELSE NumberJavaToBin(java, known)
        ELSE TypedPlain(java, known)

(* The array type an empty list gets: the number of its OPC UA type, taken *)
(* as the number of a bin kind.                                            *)
EmptyListType(m) ==
    CASE m.tag # "TYPE"     -> "STRUCT"
      [] m.t = "Boolean"    -> "CHAR"
      [] m.t = "SByte"      -> "BYTE"
      [] m.t = "Byte"       -> "SHORT"
      [] m.t = "Int16"      -> "INT"
      [] m.t = "UInt16"     -> "LONG"
      [] m.t = "Int32"      -> "FLOAT"
      [] m.t = "UInt32"     -> "DOUBLE"
      [] m.t = "Int64"      -> "ARRAY"
      [] m.t = "UInt64"     -> "STRUCT"
      [] OTHER              -> "none"

RECURSIVE JavaToBin(_, _, _)  \* object, field name, model

(* getArrayVariant: a string's units are cut to chars; a list gets the     *)
(* kind of its last element.                                               *)
ArrayVariant(java, m) ==
    IF java.kind = "String"
    THEN Arr("ARRAY", "CHAR", [i \in DOMAIN java.s |-> Num("CHAR", AsChar(java.s[i]))])
    ELSE IF java.elems = <<>> THEN Arr("ARRAY", EmptyListType(m), <<>>)
    ELSE LET Variant(elems) == IF Undefined(Elements(elems)) THEN Garbage
                               ELSE Arr("ARRAY", elems[Len(elems)].kind, elems)
         IN  Variant([i \in DOMAIN java.elems |-> JavaToBin(java.elems[i], "", m)])

(* getStructureVariant: the fields of an object of unknown type are        *)
(* guessed.                                                                *)
StructureVariant(java, m) ==
    Obj("STRUCT", "Object", [f \in DOMAIN java.fields |->
                               JavaToBin(java.fields[f], f, IF m.tag = "REF" THEN m ELSE NoType)])

(* getVariant: by the class of the object, once the model has been asked.  *)
VariantByModel(java, m) ==
    CASE java.kind = "Map"                -> StructureVariant(java, m)
      [] java.kind \in {"String", "List"} -> ArrayVariant(java, m)
      [] OTHER                            -> ScalarVariant(java, m)

JavaToBin(java, key, m) == VariantByModel(java, DataTypeFromModel(key, m))

-----------------------------------------------------------------------------
(* ConverterBin2IO and ConverterUa2IO, writing.                            *)

(* The array types of convertBin2ioArrayValue; a list of texts becomes an  *)
(* array of the kind of its first text.                                    *)
ArrayTypeBinToIo(binType, elems) ==
    LET texts == {i \in DOMAIN elems : elems[i].kind \notin {"ARRAY", "STRUCTURE"}}
    IN  CASE binType = "BOOLEAN" -> "BOOL"
          [] binType = "SHORT"   -> "INT"
          [] binType = "INT"     -> "LONG"
          [] binType = "LONG"    -> "LLONG"
          [] binType \in {"FLOAT", "DOUBLE"} -> binType
          [] binType = "STRUCT"  -> "STRUCTURE"
          [] binType = "ARRAY" /\ texts = {} -> "ARRAY"
          [] binType = "ARRAY" /\ texts # {} ->
               elems[CHOOSE i \in texts : \A j \in texts : i <= j].kind
          [] OTHER               -> "none"

RECURSIVE BinToIo(_)

(* Chars and bytes become one text, the chars up to the first zero.        *)
ArrayBinToIo(bin) ==
    LET bytes == [i \in DOMAIN bin.elems |-> AsUnsigned(bin.elems[i].n, H8)]
        Array(elems) == LET type == ArrayTypeBinToIo(bin.type, elems)
                        IN  IF type = "none" \/ Failed(Elements(elems)) THEN Exception
                            ELSE Arr("ARRAY", type, elems)
    IN  CASE bin.type \in {"CHAR", "BYTE"}
               /\ \E i \in DOMAIN bin.elems : "n" \notin DOMAIN bin.elems[i] -> Garbage
          [] bin.type = "CHAR" /\ \A i \in DOMAIN bin.elems : "n" \in DOMAIN bin.elems[i]
               -> Text("STRING", Cut(bytes))
          [] bin.type = "BYTE" /\ \A i \in DOMAIN bin.elems : "n" \in DOMAIN bin.elems[i]
               -> Text("BYTE_STRING", bytes)
          [] OTHER -> Array([i \in DOMAIN bin.elems |-> BinToIo(bin.elems[i])])

(* convertBin2io.                                                          *)
BinToIo(bin) ==
    CASE bin.kind = "ARRAY"   -> ArrayBinToIo(bin)
      [] bin.kind = "STRUCT"  ->
            LET fields == [f \in DOMAIN bin.fields |-> BinToIo(bin.fields[f])]
            IN  IF \E f \in DOMAIN fields : fields[f] = Exception THEN Exception
                ELSE Obj("STRUCTURE", bin.type, fields)
      [] bin.kind = "BOOLEAN" -> [bin EXCEPT !.kind = "BOOL"]
      [] bin.kind \in {"FLOAT", "DOUBLE", "Garbage"} -> bin
      [] OTHER                -> NumberBinToIo(bin)

(* convertIoScalar2ua, the kinds that are no integers: a string for a      *)
(* localized text gets the locale "en".                                    *)
PlainIoToUa(io, base) ==
    CASE io.kind = "BOOL" /\ base = "Boolean"                  -> [io EXCEPT !.kind = "Boolean"]
      [] io.kind = "FLOAT" /\ base = "Float"                   -> [io EXCEPT !.kind = "Float"]
      [] io.kind = "DOUBLE" /\ base \in {"Double", "Duration"} -> [io EXCEPT !.kind = "Double"]
      [] OTHER                                                 -> Exception

TextIoToUa(io, base) ==
    CASE io.kind = "STRING" /\ base = "String" -> [io EXCEPT !.kind = "String"]
      [] io.kind = "STRING" /\ base = "LocalizedText"
            -> [kind |-> "LocalizedText", locale |-> "en", s |-> io.s]
      [] io.kind = "BYTE_STRING" /\ base = "ByteString" ->
            IF io.s = <<>> THEN NullOf("ByteString") ELSE [io EXCEPT !.kind = "ByteString"]
      [] OTHER -> Exception

ScalarIoToUa(io, base) ==
    CASE io.kind = "Garbage"                                   -> Garbage
      [] io.kind \in {"BOOL", "FLOAT", "DOUBLE"}               -> PlainIoToUa(io, base)
      [] io.kind \in {"STRING", "BYTE_STRING", "LOCALIZED_TEXT"} -> TextIoToUa(io, base)
      [] OTHER                                                 -> NumberIoToUa(io, base)

RECURSIVE IoToUa(_, _)

(* convertIoStructureField2ua.  Fields are single values here; what the    *)
(* SDK's structure makes of an array for one is not known, and the status  *)
(* of setField is not looked at.                                           *)
FieldIoToUa(io, type) ==
    LET ua == IoToUa(io, type)
    IN  IF ua.kind = "Array" THEN Garbage ELSE ua

(* convertIoStructure2ua: a union takes at most one field, a known one; a  *)
(* structure needs its mandatory fields and leaves out fields it does not  *)
(* know.                                                                   *)
Mutant_MandatoryNotTested(io, type) ==
    LET known == DOMAIN io.fields \cap FieldNames(type)
        ua    == [f \in known |-> FieldIoToUa(io.fields[f], Fields(type)[f])]
    IN  IF \E f \in known : ua[f] = Exception THEN Exception
        ELSE Obj("Object", type, ua)
StructureIoToUa(io, type) ==
    LET given == DOMAIN io.fields
        known == given \cap FieldNames(type)
        ua    == [f \in known |-> FieldIoToUa(io.fields[f], Fields(type)[f])]
    IN  IF \/ \E f \in known : ua[f] = Exception
           \/ DataTypes[type].isUnion /\ (Cardinality(given) > 1 \/ given # known)
           \/ /\ ~DataTypes[type].isUnion
              /\ ~(FieldNames(type) \ DataTypes[type].optional \subseteq given)
        THEN Exception
        ELSE Obj("Object", type, ua)

(* The arrays convertIoArray2ua knows: io type and base type to the type   *)
(* of the UA array.                                                        *)
UaArrayType(ioType, base) ==
    CASE ioType = "LONG" /\ base \in {"Int32", "Enumeration"}  -> "Int32"
      [] ioType = "LONG" /\ base = "UInt16"                    -> "UInt16"
      [] ioType \in {"ULONG", "LLONG"} /\ base = "UInt32"      -> "UInt32"
      [] ioType = "STRING" /\ base = "String"                  -> "String"
      [] ioType \in {"STRING", "LOCALIZED_TEXT"} /\ base = "LocalizedText" -> "LocalizedText"
      [] ioType = "STRUCTURE"                                  -> "Object"
      [] OTHER                                                 -> "none"

(* One element of an array: the accessor of the array's kind is used on    *)
(* it, whatever the element is.                                            *)
Mutant_ElementTooNarrow(e, ioType, uaType) ==   \* Int32 through a short
    CASE e.kind # ioType -> Garbage
      [] e.kind = ioType /\ uaType \in {"Int32", "UInt16"} -> Num(uaType, AsSigned(e.n, H16))
      [] e.kind = ioType /\ uaType = "UInt32" -> Num("UInt32", AsUnsigned(e.n, H32))
      [] OTHER                                -> TextIoToUa(e, uaType)
ElementIoToUa(e, ioType, uaType) ==
    CASE e.kind # ioType -> Garbage
      [] e.kind = ioType /\ uaType = "Int32"  -> Num("Int32", AsSigned(e.n, H32))
      [] e.kind = ioType /\ uaType = "UInt16" -> Num("UInt16", AsUnsigned(e.n, H16))
      [] e.kind = ioType /\ uaType = "UInt32" -> Num("UInt32", AsUnsigned(e.n, H32))
      [] OTHER                                -> TextIoToUa(e, uaType)

(* convertIoArray2ua and the functions for the arrays of each type; a      *)
(* structure array does not look at the base type.                         *)
ArrayIoToUa(io, type) ==
    LET uaType == UaArrayType(io.type, BaseType(type))
        elems  == [i \in DOMAIN io.elems |->
                     IF io.type # "STRUCTURE" THEN ElementIoToUa(io.elems[i], io.type, uaType)
                     ELSE IF io.elems[i].kind # "STRUCTURE" THEN Garbage
                     ELSE StructureIoToUa(io.elems[i], type)]
    IN  IF uaType = "none" \/ Failed(Elements(elems)) THEN Exception
        ELSE Arr("Array", uaType, elems)

(* convertIo2ua.                                                           *)
IoToUa(io, type) ==
    CASE io.kind = "ARRAY"     -> ArrayIoToUa(io, type)
      [] io.kind = "STRUCTURE" -> StructureIoToUa(io, type)
      [] OTHER                 -> ScalarIoToUa(io, BaseType(type))

(* Native2J::getVariant with the given model, then the converters with the *)
(* data type of the node or argument.                                      *)
Converted(java, m, type) ==
    LET io == BinToIo(VariantByModel(java, m))
    IN  IF io = Exception THEN Exception ELSE IoToUa(io, type)

(* checkModel for a call: each argument is converted by its data type.     *)
PassValue(java, type) == Converted(java, RefTo(type), type)

(* checkModel for a write asks HaSession::getVariable for a variable whose *)
(* data type it takes.  It is given a variant with the node id of a        *)
(* browsed neighbour, or with false: the type found is NodeId or Boolean,  *)
(* or none, when the second of its two browses ends differently.  It is    *)
(* never the node's, so that the class of each object decides.             *)
WriteModels == {RefTo("NodeId"), RefTo("Boolean"), NoType}

WriteValues(java, type) == {Converted(java, m, type) : m \in WriteModels}

-----------------------------------------------------------------------------
(* The client's operations.                                                *)

NoJava  == NullOf("none")
NoValue == NullOf("none")

Init == /\ node \in DOMAIN Nodes
        /\ stored \in StoredValues[node]
        /\ seen = NoJava
        /\ argument = NoValue
        /\ outcome = "none"

Type == Nodes[node].type

(* ClientPrivate::read: the value and its data type are read, converted    *)
(* and handed to Java.                                                     *)
Read ==
    LET java == ReadValue(stored, Type)
    IN  /\ outcome' = IF java = Exception THEN "error" ELSE "read"
        /\ seen' = IF java = Exception THEN seen ELSE java
        /\ argument' = NoValue
        /\ UNCHANGED <<node, stored>>

(* The kind of the UaVariant of a base type.                               *)
ValueKind(base) == CASE base \in {"Structure", "Union"} -> "Object"
                     [] base = "Duration"               -> "Double"
                     [] OTHER                           -> UaKind(base)

(* The server takes a value of the type and rank of the node, or of the    *)
(* argument, only.                                                         *)
ServerTakes(v) ==
    /\ (v.kind = "Array") <=> Nodes[node].isArray
    /\ (IF v.kind = "Array" THEN v.type ELSE v.kind) \in {"Garbage", ValueKind(BaseType(Type))}

(* ClientPrivate::write: what getVariant has made of the object is         *)
(* converted by the node's data type and written.                          *)
Write(java) ==
    /\ \E v \in WriteValues(java, Type) :
          IF v # Exception /\ ServerTakes(v)
          THEN stored' = v /\ outcome' = "written"
          ELSE stored' = stored /\ outcome' = "error"
    /\ argument' = NoValue
    /\ UNCHANGED <<node, seen>>

(* ClientPrivate::call of a method with one argument.                      *)
Call(java) ==
    /\ \E v \in {PassValue(java, Type)} :
          IF v # Exception /\ ServerTakes(v)
          THEN argument' = v /\ outcome' = "called"
          ELSE argument' = NoValue /\ outcome' = "error"
    /\ UNCHANGED <<node, stored, seen>>

(* Java writes or passes an object of its own, or the one it has read.     *)
WriteOwn  == \E java \in JavaValues : Write(java)
WriteBack == seen # NoJava /\ Write(seen)
CallOwn   == \E java \in JavaValues : Call(java)
CallSeen  == seen # NoJava /\ Call(seen)

Next == Read \/ WriteOwn \/ WriteBack \/ CallOwn \/ CallSeen

Spec == Init /\ [][Next]_vars

-----------------------------------------------------------------------------
(* Properties.                                                             *)

(* A value that its data type describes, down to the fields and elements.  *)
RECURSIVE Conforms(_, _)
Conforms(v, type) ==
    LET base == BaseType(type)
    IN  CASE v = Garbage        -> TRUE
          [] v.kind = "Array"   -> \A e \in Elements(v.elems) : Conforms(e, type)
          [] v.kind = "Object"  ->
                /\ IsStructure(type)
                /\ v.type = type
                /\ DOMAIN v.fields \subseteq FieldNames(type)
                /\ IF DataTypes[type].isUnion THEN Cardinality(DOMAIN v.fields) <= 1
                   ELSE FieldNames(type) \ DataTypes[type].optional \subseteq DOMAIN v.fields
                /\ \A f \in DOMAIN v.fields : Conforms(v.fields[f], Fields(type)[f])
          [] OTHER -> /\ v.kind = ValueKind(base) \/ (v.kind = "UInt16" /\ base = "Enumeration")
                      /\ base \in NumberTypes => v.n \in UaRange(base)

(* Whatever Java writes or passes, the node holds and the method gets a    *)
(* value of its data type: the mandatory fields are there, a union has at  *)
(* most one, numbers are in range.                                         *)
TypeOK == /\ node \in DOMAIN Nodes
          /\ Conforms(stored, Type)
          /\ argument = NoValue \/ Conforms(argument, Type)
          /\ outcome \in {"none", "read", "written", "called", "error"}

Plain(s) == \A i \in DOMAIN s : s[i] \in 1 .. 127

(* The values that survive a read and a write: numbers within an int where *)
(* Java has a Long, texts of ASCII characters, localized texts in the      *)
(* locale that a write sets; no Float, see FloatsWrittenBack; no null byte *)
(* string in a structure, which is an empty list to Java.                  *)
RECURSIVE Lossless(_)
Lossless(v) ==
    CASE v = Garbage                     -> FALSE
      [] v.kind = "Array"                -> \A e \in Elements(v.elems) : Lossless(e)
      [] v.kind = "Object"               -> \A f \in DOMAIN v.fields :
                                                /\ Lossless(v.fields[f])
                                                /\ v.fields[f] # NullOf("ByteString")
      [] v.kind \in {"Int64", "DateTime"} -> v.n \in Signed(H32)
      [] v.kind = "String"               -> "s" \in DOMAIN v /\ Plain(v.s)
      [] v.kind = "LocalizedText"        -> /\ "s" \in DOMAIN v /\ Plain(v.s)
                                            /\ v.locale = "en"
      [] v.kind = "UInt16"               -> BaseType(Type) # "Enumeration"
      [] v.kind = "Float"                -> FALSE
      [] OTHER                           -> TRUE

(* Writing back what was just read leaves the node as it was, or fails,    *)
(* unless the value is one of those that do not survive (the round trip of *)
(* the two converter tables).                                              *)
WriteBackKept ==
    [][ (/\ outcome' = "written" /\ seen # NoJava /\ Lossless(stored)
         /\ seen = ReadValue(stored, Type) /\ Write(seen)) => stored' = stored ]_vars

(* A Java object of the classes that a data type asks for.                 *)
RECURSIVE Fits(_, _)
Fits(java, type) ==
    LET base == BaseType(type)
    IN  CASE java.kind = "List" ->
               /\ java.elems # <<>>
               /\ \A e \in Elements(java.elems) :
                     /\ e.kind = java.elems[1].kind /\ e.kind # "List"
                     /\ Fits(e, IF base = "ByteString" THEN "SByte" ELSE type)
          [] java.kind = "Map" ->
               /\ IsStructure(type)
               /\ \A f \in DOMAIN java.fields \cap FieldNames(type) :
                     Fits(java.fields[f], Fields(type)[f])
          [] java.kind = "Character" -> base = "Byte"
          [] java.kind = "Float"     -> base = "Float"
          [] java.kind \in JavaNumbers \ {"Character"} -> base \in NumberTypes \cup {"Float", "Double"}
          [] java.kind = "Double"    -> base \in {"Float", "Double"}
          [] java.kind = "Boolean"   -> base = "Boolean"
          [] java.kind = "String"    -> base \in {"String", "LocalizedText"}
          [] OTHER -> FALSE

(* A Float somewhere in an object.                                         *)
RECURSIVE HasFloat(_)
HasFloat(java) == CASE java.kind = "List" -> \E e \in Elements(java.elems) : HasFloat(e)
                    [] java.kind = "Map"  -> \E f \in DOMAIN java.fields : HasFloat(java.fields[f])
                    [] OTHER              -> java.kind = "Float"

RECURSIVE Holds(_)
Holds(v) == CASE v.kind = "Array"  -> \E e \in Elements(v.elems) : Holds(e)
              [] v.kind = "Object" -> \E f \in DOMAIN v.fields : Holds(v.fields[f])
              [] OTHER             -> v = Garbage

(* A Java number that the type can hold and Java can hand over: in range,  *)
(* and within an int if it is a Long.                                      *)
Deliverable(java, base) ==
    /\ java.n \in UaRange(base)
    /\ java.kind = "Long" => java.n \in Signed(H32)

(* The value is the one that was written or passed.                        *)
RECURSIVE Exact(_, _, _)
Exact(java, v, type) ==
    CASE java.kind = "List" /\ v.kind = "ByteString" ->
            (IF "s" \in DOMAIN v THEN v.s ELSE <<>>)
                = [i \in DOMAIN java.elems |-> AsUnsigned(java.elems[i].n, H8)]
      [] java.kind = "List" /\ v.kind = "Array" ->
            /\ Len(v.elems) = Len(java.elems)
            /\ \A i \in DOMAIN v.elems : Exact(java.elems[i], v.elems[i], type)
      [] java.kind = "Map" /\ v.kind = "Object" ->
            /\ DOMAIN v.fields = DOMAIN java.fields \cap FieldNames(type)
            /\ \A f \in DOMAIN v.fields : Exact(java.fields[f], v.fields[f], Fields(type)[f])
      [] java.kind \in JavaNumbers /\ "n" \in DOMAIN v ->
            Deliverable(java, BaseType(type)) => v.n = java.n
      [] java.kind = "String" /\ "s" \in DOMAIN v -> Plain(java.s) => v.s = java.s
      [] java.kind \in {"Float", "Double"} /\ v.kind = java.kind -> v.x = java.x
      [] OTHER -> TRUE

(* An accepted write of an object that fits the data type stores what Java *)
(* wrote, and an accepted call hands the method what Java passed: every    *)
(* field and element of it, each number that the type can hold, each ASCII *)
(* text; nothing undefined.  Of a write this holds for the objects without *)
(* a Float, which guessScalar fetches with CallIntMethod.                  *)
Objects == {java \in JavaValues \cup {seen} : Fits(java, Type)}
AcceptedExact ==
    [][ /\ outcome' = "written" =>
              \A java \in Objects : (~HasFloat(java) /\ stored' \in WriteValues(java, Type)) =>
                 ~Holds(stored') /\ Exact(java, stored', Type)
        /\ outcome' = "called" =>
              \A java \in Objects : argument' = PassValue(java, Type) =>
                 ~Holds(argument') /\ Exact(java, argument', Type) ]_vars

(* The comment of convertIo2ua promises llong(64) to int64 and dateTime:   *)
(* what is read from such a node and written back is unchanged.            *)
TimesWrittenBack ==
    [][ (Write(seen) /\ seen # NoJava /\ seen = ReadValue(stored, Type)
         /\ BaseType(Type) \in LongTypes) => stored' = stored ]_vars

(* A Float that is read and written back is unchanged, which               *)
(* ValueConverters_floats.cfg refutes.                                     *)
FloatsWrittenBack ==
    [][ (Write(seen) /\ seen # NoJava /\ seen = ReadValue(stored, Type)
         /\ BaseType(Type) = "Float") => stored' = stored ]_vars

=============================================================================
