-------------------------- MODULE ScalarConverters --------------------------
(***************************************************************************)
(* What happens to one number on its way between an OPC UA node and a      *)
(* Java object.  Reading: ConverterUa2IO (UA -> io), ConverterBin2IO       *)
(* (io -> bin) and Native2J::getScalar (bin -> Java).  Writing, and        *)
(* passing an argument to a method: Native2J (Java -> bin),                *)
(* ConverterBin2IO (bin -> io) and ConverterUa2IO (io -> UA).  Each layer  *)
(* is a table from kind to kind; where it is not the identity on the       *)
(* number, it is a C++ conversion to a narrower type.                      *)
(*                                                                         *)
(* A value of any layer is a record with its kind; Exception stands for a  *)
(* ConversionException, Garbage for a value the C++ standard does not      *)
(* define (the bits of one type read as another).  H8, H16, H32 and H64    *)
(* are 2^7, 2^15, 2^31 and 2^63, scaled down for TLC; LongHalf is that of  *)
(* the platform's long, CharSigned says whether its char has a sign.       *)
(***************************************************************************)
EXTENDS Integers

CONSTANTS H8, H16, H32, H64, LongHalf, CharSigned

ASSUME WidthAssumption ==
    /\ H8 \in Nat \ {0} /\ H16 \in Nat /\ H32 \in Nat /\ H64 \in Nat
    /\ \E k \in 2 .. H16 : H16 = k * H8
    /\ 2 * H16 <= H32 /\ 2 * H32 <= H64
    /\ LongHalf \in {H32, H64}
    /\ CharSigned \in BOOLEAN

Num(kind, n) == [kind |-> kind, n |-> n]
Exception    == [kind |-> "Exception"]
Garbage      == [kind |-> "Garbage"]

(* The C++ conversion of n to a signed or an unsigned type of 2h values.   *)
AsSigned(n, h)   == ((n + h) % (2 * h)) - h
AsUnsigned(n, h) == n % (2 * h)
Signed(h)        == (-h) .. (h - 1)
Unsigned(h)      == 0 .. (2 * h - 1)

(* char, whose sign is the platform's.                                     *)
AsChar(n) == IF CharSigned THEN AsSigned(n, H8) ELSE AsUnsigned(n, H8)
Chars     == IF CharSigned THEN Signed(H8) ELSE Unsigned(H8)

-----------------------------------------------------------------------------
(* The built-in number types of OPC UA and the values they have.           *)
NumberTypes == {"SByte", "Byte", "Int16", "UInt16", "Int32", "Enumeration",
                "UInt32", "Int64", "DateTime", "UtcTime", "UInt64"}
LongTypes   == {"Int64", "DateTime", "UtcTime"}

UaRange(type) ==
    CASE type = "SByte"                    -> Signed(H8)
      [] type = "Byte"                     -> Unsigned(H8)
      [] type = "Int16"                    -> Signed(H16)
      [] type = "UInt16"                   -> Unsigned(H16)
      [] type \in {"Int32", "Enumeration"} -> Signed(H32)
      [] type = "UInt32"                   -> Unsigned(H32)
      [] type \in LongTypes                -> Signed(H64)
      [] type = "UInt64"                   -> Unsigned(H64)

(* The kind of the UaVariant that holds a number of this type.             *)
UaKind(type) == CASE type = "Enumeration" -> "Int32"
                  [] type = "UtcTime"     -> "DateTime"
                  [] OTHER                -> type

(* convertUaBuildInType2io, the integers of at most 16 bits.               *)
SmallUaToIo(type, n) ==
    CASE type = "SByte"  -> Num("SCHAR", n)
      [] type = "Byte"   -> Num("CHAR", AsChar(n))
      [] type = "Int16"  -> Num("INT", n)
      [] type = "UInt16" -> Num("UINT", n)

(* The wider ones; an enumeration is read like an Int32.                   *)
WideUaToIo(type, n) ==
    CASE type \in {"Int32", "Enumeration"} -> Num("LONG", n)
      [] type = "UInt32"                   -> Num("ULONG", n)
      [] type = "Int64"                    -> Num("LLONG", n)
      [] type = "UInt64"                   -> Num("ULLONG", n)

(* DateTime and UtcTime: the number of 100 ns intervals.                   *)
TimeUaToIo(type, n) == Num("LLONG", n)

NumberUaToIo(type, n) ==
    IF type \in {"SByte", "Byte", "Int16", "UInt16"} THEN SmallUaToIo(type, n)
    ELSE IF type \in {"DateTime", "UtcTime"} THEN TimeUaToIo(type, n)
    ELSE WideUaToIo(type, n)

(* convertIo2binScalarValue: there is no bin kind for an ULLONG.           *)
NumberIoToBin(io) ==
    CASE io.kind = "SCHAR"               -> Num("BYTE", io.n)
      [] io.kind = "CHAR"                -> Num("CHAR", io.n)
      [] io.kind = "INT"                 -> Num("SHORT", io.n)
      [] io.kind = "UINT"                -> Num("INT", AsSigned(io.n, LongHalf))
      [] io.kind = "LONG"                -> Num("INT", io.n)
      [] io.kind \in {"ULONG", "LLONG"}  -> Num("LONG", AsSigned(io.n, H64))
      [] OTHER                           -> Exception

(* getScalar: a char is passed as an int and cut to the 16 bits of a Java  *)
(* Character, so a negative one becomes a large Character.                 *)
NumberBinToJava(bin) ==
    CASE bin.kind = "BYTE"  -> Num("Byte", bin.n)
      [] bin.kind = "CHAR"  -> Num("Character", AsUnsigned(bin.n, H16))
      [] bin.kind = "SHORT" -> Num("Short", AsSigned(bin.n, H16))
      [] bin.kind = "INT"   -> Num("Integer", AsSigned(bin.n, H32))
      [] bin.kind = "LONG"  -> Num("Long", bin.n)
      [] OTHER              -> Exception

ReadNumber(type, n) == NumberBinToJava(NumberIoToBin(NumberUaToIo(type, n)))

-----------------------------------------------------------------------------
(* The Java objects for numbers.                                           *)
JavaNumbers == {"Byte", "Character", "Short", "Integer", "Long"}

JavaRange(kind) ==
    CASE kind = "Byte"      -> Signed(H8)
      [] kind = "Character" -> Unsigned(H16)
      [] kind = "Short"     -> Signed(H16)
      [] kind = "Integer"   -> Signed(H32)
      [] kind = "Long"      -> Signed(H64)

(* guessScalar: the bin kind follows the class of the object.  A Long is   *)
(* fetched with CallIntMethod, which hands on its low 32 bits only.        *)
GuessNumber(java) ==
    CASE java.kind = "Byte"      -> Num("BYTE", java.n)
      [] java.kind = "Character" -> Num("CHAR", AsChar(java.n))
      [] java.kind = "Short"     -> Num("SHORT", java.n)
      [] java.kind = "Integer"   -> Num("INT", java.n)
      [] java.kind = "Long"      -> Num("LONG", AsSigned(java.n, H32))

(* getScalarVariant with the data type known, which is that of a method's  *)
(* argument: Int32 and enumeration call intValue, which every Number has   *)
(* and a Character has not; a ByteString's element is cut to a byte; other *)
(* types are guessed.                                                      *)
NumberJavaToBin(java, type) ==
    CASE type \in {"Int32", "Enumeration", "ByteString"} /\ java.kind = "Character"
             -> Garbage
      [] type \in {"Int32", "Enumeration"} /\ java.kind # "Character"
             -> Num("INT", AsSigned(java.n, H32))
      [] type = "ByteString" /\ java.kind # "Character"
             -> Num("BYTE", AsSigned(java.n, H8))
      [] OTHER -> GuessNumber(java)

(* convertBin2ioScalarValue.                                               *)
NumberBinToIo(bin) ==
    CASE bin.kind = "BYTE"  -> Num("SCHAR", bin.n)
      [] bin.kind = "CHAR"  -> Num("CHAR", bin.n)
      [] bin.kind = "SHORT" -> Num("INT", bin.n)
      [] bin.kind = "INT"   -> Num("LONG", bin.n)
      [] bin.kind = "LONG"  -> Num("LLONG", bin.n)
      [] OTHER              -> Exception

(* The test of a number that is to become an UInt16 or an UInt32:          *)
(* "v < 2 ^ 15" is (v < 2) xor 15, which is never zero, so that only the   *)
(* sign of the number is tested.                                           *)
FitsUnsigned(n) == n >= 0

(* convertIoScalar2ua, the kinds of at most 16 bits.                       *)
Mutant_ByteKept(io, type) ==     \* the sign of a char is carried over
    IF io.kind = "CHAR" /\ type = "Byte" THEN Num("Byte", io.n)
    ELSE IF io.kind = "INT" /\ type = "Int16" THEN Num("Int16", AsSigned(io.n, H16))
    ELSE Exception
SmallIoToUa(io, type) ==
    CASE io.kind = "SCHAR" /\ type = "SByte" -> Num("SByte", io.n)
      [] io.kind = "CHAR" /\ type = "Byte"   -> Num("Byte", AsUnsigned(io.n, H8))
      [] io.kind = "INT" /\ type = "Int16"   -> Num("Int16", AsSigned(io.n, H16))
      [] io.kind = "UINT" /\ type = "UInt16" -> Num("UInt16", AsUnsigned(io.n, H16))
      [] OTHER                               -> Exception

(* long and unsigned long: a long for an UInt32 is read as an unsigned     *)
(* long, without a test.                                                   *)
LongIoToUa(io, type) ==
    CASE io.kind = "LONG" /\ type \in {"Int32", "Enumeration"}
             -> Num("Int32", AsSigned(io.n, H32))
      [] type = "UInt32" -> Num("UInt32", AsUnsigned(AsUnsigned(io.n, LongHalf), H32))
      [] io.kind = "LONG" /\ type = "UInt16" /\ FitsUnsigned(io.n)
             -> Num("UInt16", AsUnsigned(io.n, H16))
      [] OTHER -> Exception

(* long long and unsigned long long.                                       *)
LongLongIoToUa(io, type) ==
    CASE io.kind = "LLONG" /\ type = "Int64"                   -> Num("Int64", io.n)
      [] io.kind = "LLONG" /\ type = "UInt32" /\ FitsUnsigned(io.n)
             -> Num("UInt32", AsUnsigned(io.n, H32))
      [] io.kind = "LLONG" /\ type \in {"DateTime", "UtcTime"} -> Num("DateTime", io.n)
      [] io.kind = "ULLONG" /\ type = "UInt64"                 -> Num("UInt64", io.n)
      [] OTHER                                                 -> Exception

NumberIoToUa(io, type) ==
    CASE io.kind \in {"SCHAR", "CHAR", "INT", "UINT"} -> SmallIoToUa(io, type)
      [] io.kind \in {"LONG", "ULONG"}                -> LongIoToUa(io, type)
      [] io.kind \in {"LLONG", "ULLONG"}              -> LongLongIoToUa(io, type)
      [] OTHER                                        -> Exception

(* A number that Native2J has handed on, for a node or argument of this    *)
(* type.                                                                   *)
ToUa(bin, type) ==
    IF bin = Garbage THEN Garbage ELSE NumberIoToUa(NumberBinToIo(bin), type)

(* A Java number written to a node: its class alone decides, see           *)
(* ValueConverters!WriteModels.                                            *)
WriteNumber(java, type) == ToUa(GuessNumber(java), type)

(* A Java number passed to a method as an argument of this type.           *)
PassNumber(java, type) == ToUa(NumberJavaToBin(java, type), type)

=============================================================================
