----------------------- MODULE ScalarConvertersProofs -----------------------
(* Theorems about the numbers that pass the converters, for every width.   *)
EXTENDS ScalarConverters, TLAPS

USE WidthAssumption

LEMMA Widths ==
    /\ H8 \in Nat \ {0} /\ H16 \in Nat \ {0} /\ H32 \in Nat \ {0} /\ H64 \in Nat \ {0}
    /\ 2 * H8 <= H16 /\ 2 * H16 <= H32 /\ 2 * H32 <= H64
    /\ LongHalf \in {H32, H64}
  <1>1. PICK k \in 2 .. H16 : H16 = k * H8
    OBVIOUS
  <1>2. ASSUME NEW b \in Nat \ {0}, NEW m \in Nat, m >= 2
        PROVE  2 * b <= m * b
    BY <1>2
  <1>3. 2 * H8 <= H16
    BY <1>1, <1>2
  <1> QED
    BY <1>3

USE Widths

LEMMA ModSmall ==
    ASSUME NEW b \in Nat \ {0}, NEW a \in 0 .. (b - 1)
    PROVE  a % b = a
  OBVIOUS

LEMMA ModBelow ==
    ASSUME NEW b \in Nat \ {0}, NEW a \in 0 .. (b - 1)
    PROVE  (a - b) % b = a
  OBVIOUS

LEMMA ModRange ==
    ASSUME NEW b \in Nat \ {0}, NEW a \in Int
    PROVE  a % b \in 0 .. (b - 1)
  OBVIOUS

LEMMA ModMultiple ==
    ASSUME NEW b \in Nat \ {0}, NEW a \in 0 .. (b - 1), NEW k \in Nat
    PROVE  (a + k * b) % b = a
  OBVIOUS

LEMMA ModAbove ==
    ASSUME NEW b \in Nat \ {0}, NEW a \in b .. (2 * b - 1)
    PROVE  a % b = a - b
  OBVIOUS

-----------------------------------------------------------------------------
(* The conversions between the widths.                                     *)

LEMMA SignedFits ==
    ASSUME NEW h \in Nat \ {0}, NEW x \in Signed(h)
    PROVE  AsSigned(x, h) = x
  <1>1. x + h \in 0 .. (2 * h - 1)
    BY DEF Signed
  <1>2. (x + h) % (2 * h) = x + h
    BY <1>1, ModSmall
  <1> QED
    BY <1>1, <1>2 DEF AsSigned, Signed

LEMMA SignedInRange ==
    ASSUME NEW h \in Nat \ {0}, NEW x \in Int
    PROVE  AsSigned(x, h) \in Signed(h)
  <1>1. (x + h) % (2 * h) \in 0 .. (2 * h - 1)
    BY ModRange
  <1> QED
    BY <1>1 DEF AsSigned, Signed

LEMMA UnsignedFits ==
    ASSUME NEW h \in Nat \ {0}, NEW x \in Unsigned(h)
    PROVE  AsUnsigned(x, h) = x
  BY ModSmall DEF AsUnsigned, Unsigned

LEMMA UnsignedInRange ==
    ASSUME NEW h \in Nat \ {0}, NEW x \in Int
    PROVE  AsUnsigned(x, h) \in Unsigned(h)
  BY ModRange DEF AsUnsigned, Unsigned

(* A byte comes back from the char it was put into.                        *)
LEMMA CharKeepsByte ==
    ASSUME NEW x \in Unsigned(H8)
    PROVE  /\ AsChar(x) \in Chars
           /\ AsUnsigned(AsChar(x), H8) = x
  <1>1. CASE ~CharSigned
    BY <1>1, UnsignedFits DEF AsChar, Chars, Unsigned
  <1>2. CASE CharSigned /\ x < H8
    <2>1. x \in Signed(H8)
      BY <1>2 DEF Unsigned, Signed
    <2>2. AsChar(x) = x
      BY <1>2, <2>1, SignedFits DEF AsChar
    <2> QED
      BY <1>2, <2>1, <2>2, UnsignedFits DEF Chars
  <1>3. CASE CharSigned /\ x >= H8
    <2>1. x + H8 \in 2 * H8 .. (2 * (2 * H8) - 1)
      BY <1>3 DEF Unsigned
    <2>2. (x + H8) % (2 * H8) = x - H8
      <3>1. 2 * H8 \in Nat \ {0} /\ x \in Int /\ (x + H8) - 2 * H8 = x - H8
        BY DEF Unsigned
      <3> QED
        BY <2>1, <3>1, ModAbove
    <2>3. AsChar(x) = x - 2 * H8
      BY <1>3, <2>2 DEF AsChar, AsSigned, Unsigned
    <2>4. (x - 2 * H8) % (2 * H8) = x
      BY ModBelow DEF Unsigned
    <2> QED
      BY <1>3, <2>3, <2>4 DEF Chars, Signed, Unsigned, AsUnsigned
  <1>4. CharSigned \/ ~CharSigned
    OBVIOUS
  <1>5. x < H8 \/ x >= H8
    BY DEF Unsigned
  <1> QED
    BY <1>1, <1>2, <1>3, <1>4, <1>5, Zenon

(* ... and from the Java Character that char becomes.                      *)
LEMMA CharacterKeepsChar ==
    ASSUME NEW c \in Chars
    PROVE  AsChar(AsUnsigned(c, H16)) = c
  <1>1. CASE ~CharSigned
    <2>1. c \in Unsigned(H16)
      BY <1>1 DEF Chars, Unsigned
    <2>2. AsUnsigned(c, H16) = c
      BY <2>1, UnsignedFits
    <2> QED
      BY <1>1, <2>2, UnsignedFits DEF AsChar, Chars
  <1>2. CASE CharSigned /\ c >= 0
    <2>1. c \in Unsigned(H16) /\ c \in Signed(H8)
      BY <1>2 DEF Chars, Unsigned, Signed
    <2>2. AsUnsigned(c, H16) = c
      BY <2>1, UnsignedFits
    <2> QED
      BY <1>2, <2>1, <2>2, SignedFits DEF AsChar
  <1>3. CASE CharSigned /\ c < 0
    <2>1. c + 2 * H16 \in 0 .. (2 * H16 - 1)
      BY <1>3 DEF Chars, Signed
    <2>2. AsUnsigned(c, H16) = c + 2 * H16
      <3>1. (c + 2 * H16) - 2 * H16 = c
        BY <1>3 DEF Chars, Signed
      <3> QED
        BY <2>1, <3>1, ModBelow DEF AsUnsigned
    <2>3. PICK k \in 2 .. H16 : H16 = k * H8
      OBVIOUS
    <2>4. (c + 2 * H16) + H8 = (c + H8) + k * (2 * H8)
      BY <2>3 DEF Chars, Signed
    <2>5. c + H8 \in 0 .. (2 * H8 - 1)
      BY <1>3 DEF Chars, Signed
    <2>6. ((c + 2 * H16) + H8) % (2 * H8) = c + H8
      <3>1. 2 * H8 \in Nat \ {0} /\ k \in Nat
        BY <2>3
      <3>2. ((c + H8) + k * (2 * H8)) % (2 * H8) = c + H8
        BY <2>5, <3>1, ModMultiple
      <3> QED
        BY <2>4, <3>2
    <2>7. c \in Int /\ (c + H8) - H8 = c
      BY <1>3 DEF Chars, Signed
    <2> QED
      BY <1>3, <2>2, <2>6, <2>7 DEF AsChar, AsSigned
  <1>4. CharSigned \/ ~CharSigned
    OBVIOUS
  <1>5. c < 0 \/ c >= 0
    BY DEF Chars, Signed, Unsigned
  <1> QED
    BY <1>1, <1>2, <1>3, <1>4, <1>5, Zenon

-----------------------------------------------------------------------------
(* One step of the way for each kind: nothing is lost while reading, as    *)
(* every kind is read into one that is as wide.                            *)

LEMMA KindsDiffer ==
    ASSUME NEW k, NEW x, k \notin {"Exception", "Garbage"}
    PROVE  /\ Num(k, x) # Exception /\ Num(k, x) # Garbage
           /\ Num(k, x).kind = k /\ Num(k, x).n = x
  BY DEF Num, Exception, Garbage

LEMMA Ranges ==
    /\ UaRange("SByte") = Signed(H8) /\ UaRange("Byte") = Unsigned(H8)
    /\ UaRange("Int16") = Signed(H16) /\ UaRange("UInt16") = Unsigned(H16)
    /\ UaRange("Int32") = Signed(H32) /\ UaRange("Enumeration") = Signed(H32)
    /\ UaRange("UInt32") = Unsigned(H32) /\ UaRange("UInt64") = Unsigned(H64)
    /\ \A type \in LongTypes : UaRange(type) = Signed(H64)
  BY DEF UaRange, LongTypes

ReadKind(type) ==
    CASE type = "SByte"                              -> "Byte"
      [] type = "Byte"                               -> "Character"
      [] type = "Int16"                              -> "Short"
      [] type \in {"UInt16", "Int32", "Enumeration"} -> "Integer"
      [] OTHER                                       -> "Long"

(* What Java sees of a number: the number itself, but for a Byte and an    *)
(* UInt64, which has no counterpart in Java.                               *)
LEMMA NumberRead ==
    ASSUME NEW type \in NumberTypes \ {"UInt64"}, NEW x \in UaRange(type)
    PROVE  ReadNumber(type, x) =
             Num(ReadKind(type), IF type = "Byte" THEN AsUnsigned(AsChar(x), H16) ELSE x)
  <1>1. CASE type = "SByte"
    <2>1. NumberUaToIo(type, x) = Num("SCHAR", x)
      BY <1>1 DEF NumberUaToIo, SmallUaToIo
    <2>2. NumberIoToBin(Num("SCHAR", x)) = Num("BYTE", x)
      BY KindsDiffer DEF NumberIoToBin
    <2>3. NumberBinToJava(Num("BYTE", x)) = Num("Byte", x)
      BY KindsDiffer DEF NumberBinToJava
    <2>4. ReadKind(type) = "Byte" /\ type # "Byte"
      BY <1>1 DEF ReadKind
    <2> QED
      BY <2>1, <2>2, <2>3, <2>4 DEF ReadNumber
  <1>2. CASE type = "Byte"
    <2> DEFINE c == AsChar(x)
    <2>1. NumberUaToIo(type, x) = Num("CHAR", c)
      BY <1>2 DEF NumberUaToIo, SmallUaToIo
    <2> HIDE DEF c
    <2>2. NumberIoToBin(Num("CHAR", c)) = Num("CHAR", c)
      BY KindsDiffer DEF NumberIoToBin
    <2>3. NumberBinToJava(Num("CHAR", c)) = Num("Character", AsUnsigned(c, H16))
      BY KindsDiffer DEF NumberBinToJava
    <2>4. ReadKind(type) = "Character"
      BY <1>2 DEF ReadKind
    <2> QED
      BY <1>2, <2>1, <2>2, <2>3, <2>4 DEF ReadNumber, c
  <1>3. CASE type = "Int16"
    <2>1. AsSigned(x, H16) = x
      BY <1>3, SignedFits, Ranges
    <2>2. NumberUaToIo(type, x) = Num("INT", x)
      BY <1>3 DEF NumberUaToIo, SmallUaToIo
    <2>3. NumberIoToBin(Num("INT", x)) = Num("SHORT", x)
      BY KindsDiffer DEF NumberIoToBin
    <2>4. NumberBinToJava(Num("SHORT", x)) = Num("Short", x)
      BY <2>1, KindsDiffer DEF NumberBinToJava
    <2>5. ReadKind(type) = "Short" /\ type # "Byte"
      BY <1>3 DEF ReadKind
    <2> QED
      BY <2>2, <2>3, <2>4, <2>5 DEF ReadNumber
  <1>4. CASE type = "UInt16"
    <2>1. x \in 0 .. (2 * H16 - 1)
      BY <1>4, Ranges DEF Unsigned
    <2>2. x \in Signed(H32) /\ x \in Signed(H64)
      BY <2>1 DEF Signed
    <2>3. AsSigned(x, H64) = x
      BY <2>2, SignedFits
    <2>4. AsSigned(x, H32) = x
      BY <2>2, SignedFits
    <2>5. AsSigned(x, LongHalf) = x /\ AsSigned(x, H32) = x
      BY <2>3, <2>4, LongHalf \in {H32, H64}, Zenon
    <2>6. NumberUaToIo(type, x) = Num("UINT", x)
      BY <1>4 DEF NumberUaToIo, SmallUaToIo
    <2>7. NumberIoToBin(Num("UINT", x)) = Num("INT", x)
      BY <2>5, KindsDiffer DEF NumberIoToBin
    <2>8. NumberBinToJava(Num("INT", x)) = Num("Integer", x)
      BY <2>5, KindsDiffer DEF NumberBinToJava
    <2>9. ReadKind(type) = "Integer" /\ type # "Byte"
      BY <1>4 DEF ReadKind
    <2> QED
      BY <2>6, <2>7, <2>8, <2>9 DEF ReadNumber
  <1>5. CASE type \in {"Int32", "Enumeration"}
    <2>1. UaRange(type) = Signed(H32)
      BY <1>5, Ranges
    <2>2. AsSigned(x, H32) = x
      BY <2>1, SignedFits
    <2>3. NumberUaToIo(type, x) = Num("LONG", x)
      BY <1>5 DEF NumberUaToIo, WideUaToIo
    <2>4. NumberIoToBin(Num("LONG", x)) = Num("INT", x)
      BY KindsDiffer DEF NumberIoToBin
    <2>5. NumberBinToJava(Num("INT", x)) = Num("Integer", x)
      BY <2>2, KindsDiffer DEF NumberBinToJava
    <2>6. ReadKind(type) = "Integer" /\ type # "Byte"
      BY <1>5 DEF ReadKind
    <2> QED
      BY <2>3, <2>4, <2>5, <2>6 DEF ReadNumber
  <1>6. CASE type = "UInt32"
    <2>1. x \in Signed(H64)
      BY <1>6, Ranges DEF Unsigned, Signed
    <2>2. AsSigned(x, H64) = x
      BY <2>1, SignedFits
    <2>3. NumberUaToIo(type, x) = Num("ULONG", x)
      BY <1>6 DEF NumberUaToIo, WideUaToIo
    <2>4. NumberIoToBin(Num("ULONG", x)) = Num("LONG", x)
      BY <2>2, KindsDiffer DEF NumberIoToBin
    <2>5. NumberBinToJava(Num("LONG", x)) = Num("Long", x)
      BY KindsDiffer DEF NumberBinToJava
    <2>6. ReadKind(type) = "Long" /\ type # "Byte"
      BY <1>6 DEF ReadKind
    <2> QED
      BY <2>3, <2>4, <2>5, <2>6 DEF ReadNumber
  <1>7. CASE type \in LongTypes
    <2>1. AsSigned(x, H64) = x
      BY <1>7, SignedFits, Ranges
    <2>2. NumberUaToIo(type, x) = Num("LLONG", x)
      BY <1>7 DEF NumberUaToIo, WideUaToIo, TimeUaToIo, LongTypes
    <2>3. NumberIoToBin(Num("LLONG", x)) = Num("LONG", x)
      BY <2>1, KindsDiffer DEF NumberIoToBin
    <2>4. NumberBinToJava(Num("LONG", x)) = Num("Long", x)
      BY KindsDiffer DEF NumberBinToJava
    <2>5. ReadKind(type) = "Long" /\ type # "Byte"
      BY <1>7 DEF ReadKind, LongTypes
    <2> QED
      BY <2>2, <2>3, <2>4, <2>5 DEF ReadNumber
  <1> QED
    BY <1>1, <1>2, <1>3, <1>4, <1>5, <1>6, <1>7 DEF NumberTypes, LongTypes

-----------------------------------------------------------------------------
(* Writing: the bin values that a Java number becomes ...                  *)

BinRange(kind) ==
    CASE kind = "BYTE"  -> Signed(H8)
      [] kind = "CHAR"  -> Chars
      [] kind = "SHORT" -> Signed(H16)
      [] kind = "INT"   -> Signed(H32)
      [] kind = "LONG"  -> Signed(H32)
BinKinds == {"BYTE", "CHAR", "SHORT", "INT", "LONG"}

LEMMA AsCharInRange ==
    ASSUME NEW x \in Int
    PROVE  AsChar(x) \in Chars
  <1>1. AsSigned(x, H8) \in Signed(H8) /\ AsUnsigned(x, H8) \in Unsigned(H8)
    BY SignedInRange, UnsignedInRange
  <1> QED
    BY <1>1, Zenon DEF AsChar, Chars

LEMMA GuessedInRange ==
    ASSUME NEW kind \in JavaNumbers, NEW x \in JavaRange(kind)
    PROVE  \E b \in BinKinds : \E y \in BinRange(b) : GuessNumber(Num(kind, x)) = Num(b, y)
  <1> DEFINE Result == GuessNumber(Num(kind, x))
  <1>1. CASE kind = "Byte"
    <2>1. Result = Num("BYTE", x) /\ x \in BinRange("BYTE")
      BY <1>1, KindsDiffer DEF GuessNumber, JavaRange, BinRange
    <2> QED
      BY <2>1 DEF BinKinds
  <1>2. CASE kind = "Character"
    <2>1. x \in Int
      BY <1>2 DEF JavaRange, Unsigned
    <2>2. Result = Num("CHAR", AsChar(x)) /\ AsChar(x) \in BinRange("CHAR")
      BY <1>2, <2>1, KindsDiffer, AsCharInRange DEF GuessNumber, BinRange
    <2> QED
      BY <2>2 DEF BinKinds
  <1>3. CASE kind = "Short"
    <2>1. Result = Num("SHORT", x) /\ x \in BinRange("SHORT")
      BY <1>3, KindsDiffer DEF GuessNumber, JavaRange, BinRange
    <2> QED
      BY <2>1 DEF BinKinds
  <1>4. CASE kind = "Integer"
    <2>1. Result = Num("INT", x) /\ x \in BinRange("INT")
      BY <1>4, KindsDiffer DEF GuessNumber, JavaRange, BinRange
    <2> QED
      BY <2>1 DEF BinKinds
  <1>5. CASE kind = "Long"
    <2>1. x \in Int
      BY <1>5 DEF JavaRange, Signed
    <2>2. AsSigned(x, H32) \in Signed(H32)
      BY <2>1, SignedInRange
    <2>3. Result = Num("LONG", AsSigned(x, H32)) /\ AsSigned(x, H32) \in BinRange("LONG")
      BY <1>5, <2>2, KindsDiffer DEF GuessNumber, BinRange
    <2> QED
      BY <2>3 DEF BinKinds
  <1> QED
    BY <1>1, <1>2, <1>3, <1>4, <1>5 DEF JavaNumbers

LEMMA JavaNumberToBin ==
    ASSUME NEW type \in NumberTypes, NEW kind \in JavaNumbers, NEW x \in JavaRange(kind)
    PROVE  \/ NumberJavaToBin(Num(kind, x), type) = Garbage
           \/ \E b \in BinKinds : \E y \in BinRange(b) :
                 NumberJavaToBin(Num(kind, x), type) = Num(b, y)
  <1>0. x \in Int
    BY DEF JavaNumbers, JavaRange, Signed, Unsigned
  <1>1. CASE type \in {"Int32", "Enumeration"} /\ kind = "Character"
    BY <1>1, KindsDiffer DEF NumberJavaToBin, JavaNumbers
  <1>2. CASE type \in {"Int32", "Enumeration"} /\ kind # "Character"
    <2>1. AsSigned(x, H32) \in Signed(H32)
      BY <1>0, SignedInRange
    <2>2. /\ NumberJavaToBin(Num(kind, x), type) = Num("INT", AsSigned(x, H32))
          /\ AsSigned(x, H32) \in BinRange("INT")
      BY <1>2, <2>1, KindsDiffer DEF NumberJavaToBin, BinRange, JavaNumbers
    <2> QED
      BY <2>2 DEF BinKinds
  <1>3. CASE type \notin {"Int32", "Enumeration"}
    <2>1. NumberJavaToBin(Num(kind, x), type) = GuessNumber(Num(kind, x))
      BY <1>3 DEF NumberJavaToBin, NumberTypes
    <2> QED
      BY <2>1, GuessedInRange
  <1> QED
    BY <1>1, <1>2, <1>3

LEMMA JavaNumberDefined ==
    ASSUME NEW type \in NumberTypes, NEW kind \in JavaNumbers, NEW x \in JavaRange(kind),
           NumberJavaToBin(Num(kind, x), type) = Garbage
    PROVE  kind = "Character" /\ type \in {"Int32", "Enumeration"}
  <1>1. CASE type \in {"Int32", "Enumeration"} /\ kind # "Character"
    BY <1>1, KindsDiffer DEF NumberJavaToBin, JavaNumbers
  <1>2. CASE type \notin {"Int32", "Enumeration"}
    <2>1. NumberJavaToBin(Num(kind, x), type) = GuessNumber(Num(kind, x))
      BY <1>2 DEF NumberJavaToBin, NumberTypes
    <2>2. PICK b \in BinKinds : \E y \in BinRange(b) : GuessNumber(Num(kind, x)) = Num(b, y)
      BY GuessedInRange
    <2> QED
      BY <2>1, <2>2, KindsDiffer DEF BinKinds
  <1> QED
    BY <1>1, <1>2

(* ... and what the node is given for them.                                *)
IoOf(b) == CASE b = "BYTE"  -> "SCHAR"
             [] b = "CHAR"  -> "CHAR"
             [] b = "SHORT" -> "INT"
             [] b = "INT"   -> "LONG"
             [] b = "LONG"  -> "LLONG"

LEMMA BinToIoKind ==
    ASSUME NEW b \in BinKinds, NEW y
    PROVE  NumberBinToIo(Num(b, y)) = Num(IoOf(b), y)
  BY KindsDiffer DEF BinKinds, NumberBinToIo, IoOf

Accepted(v, type) == \E y \in UaRange(type) : v = Num(UaKind(type), y)

LEMMA AcceptedIs ==
    ASSUME NEW type, NEW y \in UaRange(type), NEW v, v = Num(UaKind(type), y)
    PROVE  Accepted(v, type)
  BY DEF Accepted

LEMMA SmallInRange ==
    ASSUME NEW type \in NumberTypes, NEW k \in {"SCHAR", "CHAR", "INT"}, NEW y \in Int,
           k = "SCHAR" => y \in Signed(H8), SmallIoToUa(Num(k, y), type) # Exception
    PROVE  Accepted(SmallIoToUa(Num(k, y), type), type)
  <1> DEFINE v == SmallIoToUa(Num(k, y), type)
  <1>1. CASE k = "SCHAR" /\ type = "SByte"
    <2>1. v = Num(UaKind(type), y) /\ y \in UaRange(type)
      BY <1>1, KindsDiffer, Ranges DEF SmallIoToUa, UaKind
    <2> QED
      BY <2>1, AcceptedIs
  <1>2. CASE k = "CHAR" /\ type = "Byte"
    <2>1. v = Num(UaKind(type), AsUnsigned(y, H8))
      BY <1>2, KindsDiffer DEF SmallIoToUa, UaKind
    <2>2. AsUnsigned(y, H8) \in UaRange(type)
      BY <1>2, UnsignedInRange, Ranges
    <2> QED
      BY <2>1, <2>2, AcceptedIs
  <1>3. CASE k = "INT" /\ type = "Int16"
    <2>1. v = Num(UaKind(type), AsSigned(y, H16))
      BY <1>3, KindsDiffer DEF SmallIoToUa, UaKind
    <2>2. AsSigned(y, H16) \in UaRange(type)
      BY <1>3, SignedInRange, Ranges
    <2> QED
      BY <2>1, <2>2, AcceptedIs
  <1>4. \/ k = "SCHAR" /\ type = "SByte"
        \/ k = "CHAR" /\ type = "Byte"
        \/ k = "INT" /\ type = "Int16"
    BY KindsDiffer DEF SmallIoToUa
  <1> QED
    BY <1>1, <1>2, <1>3, <1>4

LEMMA LongInRange ==
    ASSUME NEW type \in NumberTypes, NEW y \in Int,
           LongIoToUa(Num("LONG", y), type) # Exception
    PROVE  Accepted(LongIoToUa(Num("LONG", y), type), type)
  <1> DEFINE v == LongIoToUa(Num("LONG", y), type)
  <1>1. CASE type \in {"Int32", "Enumeration"}
    <2>1. v = Num("Int32", AsSigned(y, H32))
      BY <1>1, KindsDiffer DEF LongIoToUa
    <2>2. UaKind(type) = "Int32" /\ UaRange(type) = Signed(H32)
      BY <1>1, Ranges DEF UaKind
    <2>3. AsSigned(y, H32) \in Signed(H32)
      BY SignedInRange
    <2> QED
      BY <2>1, <2>2, <2>3, AcceptedIs
  <1>2. CASE type = "UInt32"
    <2> DEFINE w == AsUnsigned(y, LongHalf)
    <2>1. v = Num(UaKind(type), AsUnsigned(w, H32))
      BY <1>2, KindsDiffer DEF LongIoToUa, UaKind
    <2>2. LongHalf \in Nat \ {0}
      OBVIOUS
    <2>3. w \in Int
      BY <2>2, UnsignedInRange DEF Unsigned
    <2> HIDE DEF w
    <2>4. AsUnsigned(w, H32) \in UaRange(type)
      BY <1>2, <2>3, UnsignedInRange, Ranges
    <2> QED
      BY <2>1, <2>4, AcceptedIs
  <1>3. CASE type = "UInt16"
    <2>1. v = Num(UaKind(type), AsUnsigned(y, H16))
      BY <1>3, KindsDiffer DEF LongIoToUa, UaKind
    <2>2. AsUnsigned(y, H16) \in UaRange(type)
      BY <1>3, UnsignedInRange, Ranges
    <2> QED
      BY <2>1, <2>2, AcceptedIs
  <1>4. type \in {"Int32", "Enumeration", "UInt32", "UInt16"}
    BY KindsDiffer DEF LongIoToUa
  <1> QED
    BY <1>1, <1>2, <1>3, <1>4

LEMMA LongLongInRange ==
    ASSUME NEW type \in NumberTypes, NEW y \in Signed(H32),
           LongLongIoToUa(Num("LLONG", y), type) # Exception
    PROVE  Accepted(LongLongIoToUa(Num("LLONG", y), type), type)
  <1> DEFINE v == LongLongIoToUa(Num("LLONG", y), type)
  <1>1. CASE type \in LongTypes
    <2>1. v = Num(UaKind(type), y)
      BY <1>1, KindsDiffer DEF LongLongIoToUa, UaKind, LongTypes
    <2>2. y \in UaRange(type)
      BY <1>1, Ranges DEF Signed
    <2> QED
      BY <2>1, <2>2, AcceptedIs
  <1>2. CASE type = "UInt32"
    <2>1. v = Num(UaKind(type), AsUnsigned(y, H32))
      BY <1>2, KindsDiffer DEF LongLongIoToUa, UaKind
    <2>2. y \in Int
      BY DEF Signed
    <2>3. AsUnsigned(y, H32) \in UaRange(type)
      BY <1>2, <2>2, UnsignedInRange, Ranges
    <2> QED
      BY <2>1, <2>3, AcceptedIs
  <1>3. type \in LongTypes \cup {"UInt32"}
    BY KindsDiffer DEF LongLongIoToUa, LongTypes
  <1> QED
    BY <1>1, <1>2, <1>3

LEMMA IoInRange ==
    ASSUME NEW type \in NumberTypes, NEW b \in BinKinds, NEW y \in BinRange(b),
           NumberIoToUa(Num(IoOf(b), y), type) # Exception
    PROVE  Accepted(NumberIoToUa(Num(IoOf(b), y), type), type)
  <1>0. y \in Int
    <2>1. y \in Signed(H8) \cup Unsigned(H8) \cup Signed(H16) \cup Signed(H32)
      BY Zenon DEF BinKinds, BinRange, Chars
    <2> QED
      BY <2>1 DEF Signed, Unsigned
  <1>1. CASE b \in {"BYTE", "CHAR", "SHORT"}
    <2>1. IoOf(b) \in {"SCHAR", "CHAR", "INT"} /\ (IoOf(b) = "SCHAR" => y \in Signed(H8))
      BY <1>1 DEF IoOf, BinRange
    <2>2. NumberIoToUa(Num(IoOf(b), y), type) = SmallIoToUa(Num(IoOf(b), y), type)
      BY <2>1, KindsDiffer DEF NumberIoToUa
    <2> QED
      BY <1>0, <2>1, <2>2, SmallInRange
  <1>2. CASE b = "INT"
    <2>1. NumberIoToUa(Num(IoOf(b), y), type) = LongIoToUa(Num("LONG", y), type)
      BY <1>2, KindsDiffer DEF NumberIoToUa, IoOf
    <2> QED
      BY <1>0, <2>1, LongInRange
  <1>3. CASE b = "LONG"
    <2>1. NumberIoToUa(Num(IoOf(b), y), type) = LongLongIoToUa(Num("LLONG", y), type)
      BY <1>3, KindsDiffer DEF NumberIoToUa, IoOf
    <2>2. y \in Signed(H32)
      BY <1>3 DEF BinRange
    <2> QED
      BY <2>1, <2>2, LongLongInRange
  <1> QED
    BY <1>1, <1>2, <1>3 DEF BinKinds

LEMMA ToUaVia ==
    ASSUME NEW type \in NumberTypes, NEW b \in BinKinds, NEW y
    PROVE  ToUa(Num(b, y), type) = NumberIoToUa(Num(IoOf(b), y), type)
  <1>1. Num(b, y) # Garbage
    BY KindsDiffer DEF BinKinds
  <1> QED
    BY <1>1, BinToIoKind DEF ToUa

LEMMA WriteVia ==
    ASSUME NEW type \in NumberTypes, NEW java, NEW b \in BinKinds, NEW y,
           GuessNumber(java) = Num(b, y)
    PROVE  WriteNumber(java, type) = NumberIoToUa(Num(IoOf(b), y), type)
  BY ToUaVia DEF WriteNumber

-----------------------------------------------------------------------------
(* Whatever Java number is written to a number node, by the class of its   *)
(* object, what the converters let pass is a number that the node's type   *)
(* can hold (the checks and the casts of convertIoScalar2ua).              *)
THEOREM WrittenInRange ==
    ASSUME NEW type \in NumberTypes, NEW kind \in JavaNumbers, NEW x \in JavaRange(kind)
    PROVE  \/ WriteNumber(Num(kind, x), type) = Exception
           \/ Accepted(WriteNumber(Num(kind, x), type), type)
  <1> DEFINE java == Num(kind, x)
  <1>1. PICK b \in BinKinds : \E y \in BinRange(b) : GuessNumber(java) = Num(b, y)
    BY GuessedInRange
  <1>2. PICK y \in BinRange(b) : GuessNumber(java) = Num(b, y)
    BY <1>1
  <1>3. WriteNumber(java, type) = NumberIoToUa(Num(IoOf(b), y), type)
    BY <1>2, WriteVia
  <1> QED
    BY <1>3, IoInRange

(* The same of a number passed to a method by the data type of the         *)
(* argument; only a Character for an Int32, which has no intValue, makes   *)
(* an undefined one.                                                       *)
THEOREM PassedInRange ==
    ASSUME NEW type \in NumberTypes, NEW kind \in JavaNumbers, NEW x \in JavaRange(kind)
    PROVE  \/ PassNumber(Num(kind, x), type) = Exception
           \/ Accepted(PassNumber(Num(kind, x), type), type)
           \/ /\ PassNumber(Num(kind, x), type) = Garbage
              /\ kind = "Character" /\ type \in {"Int32", "Enumeration"}
  <1> DEFINE java == Num(kind, x)
  <1>1. CASE NumberJavaToBin(java, type) = Garbage
    <2>1. PassNumber(java, type) = Garbage
      BY <1>1 DEF PassNumber, ToUa
    <2>2. kind = "Character" /\ type \in {"Int32", "Enumeration"}
      BY <1>1, JavaNumberDefined
    <2> QED
      BY <2>1, <2>2
  <1>2. ASSUME NEW b \in BinKinds, NEW y \in BinRange(b),
               NumberJavaToBin(java, type) = Num(b, y)
        PROVE  \/ PassNumber(java, type) = Exception
               \/ Accepted(PassNumber(java, type), type)
    <2>1. PassNumber(java, type) = NumberIoToUa(Num(IoOf(b), y), type)
      BY <1>2, ToUaVia DEF PassNumber
    <2> QED
      BY <2>1, IoInRange
  <1> QED
    BY <1>1, <1>2, JavaNumberToBin

(* The round trip of the converter tables: a number that Java has read and *)
(* writes back is the number that was in the node, or is refused; of an    *)
(* Int64 and of the times this holds for the numbers that fit an int.      *)
THEOREM NumberRoundTrip ==
    ASSUME NEW type \in NumberTypes \ {"UInt64"}, NEW x \in UaRange(type),
           type \in LongTypes => x \in Signed(H32)
    PROVE  WriteNumber(ReadNumber(type, x), type) \in {Num(UaKind(type), x), Exception}
  <1> DEFINE java == ReadNumber(type, x)
             y    == IF type = "Byte" THEN AsUnsigned(AsChar(x), H16) ELSE x
  <1>0. java = Num(ReadKind(type), y)
    BY NumberRead
  <1>1. CASE type = "SByte"
    <2>1. GuessNumber(java) = Num("BYTE", x)
      BY <1>0, <1>1, KindsDiffer DEF ReadKind, GuessNumber
    <2>2. WriteNumber(java, type) = NumberIoToUa(Num("SCHAR", x), type)
      BY <2>1, WriteVia DEF BinKinds, IoOf
    <2> QED
      BY <1>1, <2>2, KindsDiffer DEF NumberIoToUa, SmallIoToUa, UaKind
  <1>2. CASE type = "Byte"
    <2>1. AsChar(x) \in Chars /\ AsUnsigned(AsChar(x), H8) = x
      BY <1>2, CharKeepsByte, Ranges
    <2>2. AsChar(y) = AsChar(x)
      BY <1>2, <2>1, CharacterKeepsChar
    <2>3. GuessNumber(java) = Num("CHAR", AsChar(x))
      BY <1>0, <1>2, <2>2, KindsDiffer DEF ReadKind, GuessNumber
    <2>4. WriteNumber(java, type) = NumberIoToUa(Num("CHAR", AsChar(x)), type)
      BY <2>3, WriteVia DEF BinKinds, IoOf
    <2> QED
      BY <1>2, <2>1, <2>4, KindsDiffer DEF NumberIoToUa, SmallIoToUa, UaKind
  <1>3. CASE type = "Int16"
    <2>1. GuessNumber(java) = Num("SHORT", x)
      BY <1>0, <1>3, KindsDiffer DEF ReadKind, GuessNumber
    <2>2. WriteNumber(java, type) = NumberIoToUa(Num("INT", x), type)
      BY <2>1, WriteVia DEF BinKinds, IoOf
    <2>3. AsSigned(x, H16) = x
      BY <1>3, SignedFits, Ranges
    <2> QED
      BY <1>3, <2>2, <2>3, KindsDiffer DEF NumberIoToUa, SmallIoToUa, UaKind
  <1>4. CASE type = "UInt16"
    <2>1. GuessNumber(java) = Num("INT", x)
      BY <1>0, <1>4, KindsDiffer DEF ReadKind, GuessNumber
    <2>2. WriteNumber(java, type) = NumberIoToUa(Num("LONG", x), type)
      BY <2>1, WriteVia DEF BinKinds, IoOf
    <2>3. AsUnsigned(x, H16) = x
      BY <1>4, UnsignedFits, Ranges
    <2> QED
      BY <1>4, <2>2, <2>3, KindsDiffer DEF NumberIoToUa, LongIoToUa, UaKind
  <1>5. CASE type \in {"Int32", "Enumeration"}
    <2>1. AsSigned(x, H32) = x
      <3>1. UaRange(type) = Signed(H32)
        BY <1>5, Ranges
      <3> QED
        BY <3>1, SignedFits
    <2>2. java = Num("Integer", x)
      BY <1>0, <1>5 DEF ReadKind
    <2>3. GuessNumber(java) = Num("INT", x)
      BY <1>5, <2>1, <2>2, KindsDiffer DEF GuessNumber
    <2>4. WriteNumber(java, type) = NumberIoToUa(Num("LONG", x), type)
      BY <2>3, WriteVia DEF BinKinds, IoOf
    <2>5. NumberIoToUa(Num("LONG", x), type) = Num("Int32", x)
      BY <1>5, <2>1, KindsDiffer DEF NumberIoToUa, LongIoToUa
    <2> QED
      BY <1>5, <2>4, <2>5 DEF UaKind
  <1>6. CASE type = "UInt32"
    <2> DEFINE low == AsSigned(x, H32)
    <2>1. GuessNumber(java) = Num("LONG", low)
      BY <1>0, <1>6, KindsDiffer DEF ReadKind, GuessNumber
    <2>2. WriteNumber(java, type) = NumberIoToUa(Num("LLONG", low), type)
      BY <2>1, WriteVia DEF BinKinds, IoOf
    <2>3. CASE x < H32
      <3>1. x \in Signed(H32) /\ x \in Unsigned(H32)
        BY <1>6, <2>3, Ranges DEF Signed, Unsigned
      <3>2. low = x /\ AsUnsigned(x, H32) = x
        BY <3>1, SignedFits, UnsignedFits
      <3> QED
        BY <1>6, <2>2, <3>2, KindsDiffer DEF NumberIoToUa, LongLongIoToUa, UaKind
    <2>4. CASE x >= H32
      <3>1. x + H32 \in 2 * H32 .. (2 * (2 * H32) - 1) /\ x \in Int
        BY <1>6, <2>4, Ranges DEF Unsigned
      <3>2. 2 * H32 \in Nat \ {0}
        OBVIOUS
      <3>3. (x + H32) % (2 * H32) = (x + H32) - 2 * H32
        BY <3>1, <3>2, ModAbove
      <3>4. low < 0
        BY <1>6, <3>1, <3>3, Ranges DEF AsSigned, Unsigned
      <3>5. low \in Int
        BY <3>1, SignedInRange DEF Signed
      <3> HIDE DEF low
      <3>6. ~FitsUnsigned(low)
        BY <3>4, <3>5 DEF FitsUnsigned
      <3> QED
        BY <1>6, <2>2, <3>6, KindsDiffer DEF NumberIoToUa, LongLongIoToUa, LongTypes
    <2>5. x < H32 \/ x >= H32
      BY <1>6, Ranges DEF Unsigned
    <2> QED
      BY <2>3, <2>4, <2>5, Zenon
  <1>7. CASE type \in LongTypes
    <2>1. AsSigned(x, H32) = x
      BY <1>7, SignedFits
    <2>2. java = Num("Long", x)
      BY <1>0, <1>7 DEF ReadKind, LongTypes
    <2>3. GuessNumber(java) = Num("LONG", x)
      BY <1>7, <2>1, <2>2, KindsDiffer DEF GuessNumber, LongTypes
    <2>4. WriteNumber(java, type) = NumberIoToUa(Num("LLONG", x), type)
      BY <2>3, WriteVia DEF BinKinds, IoOf
    <2>5. NumberIoToUa(Num("LLONG", x), type) = Num(UaKind(type), x)
      BY <1>7, KindsDiffer DEF NumberIoToUa, LongLongIoToUa, UaKind, LongTypes
    <2> QED
      BY <2>4, <2>5
  <1> QED
    BY <1>1, <1>2, <1>3, <1>4, <1>5, <1>6, <1>7 DEF NumberTypes, LongTypes

-----------------------------------------------------------------------------
(* If the node's type has the number that Java writes, the write stores    *)
(* that number or is refused, whatever class of Java object brings it      *)
(* (AcceptedExact for one written number, by the tables of Native2J,       *)
(* ConverterBin2IO and ConverterUa2IO).  The number of a Long has to fit   *)
(* the int that CallIntMethod returns.                                     *)
THEOREM WrittenExact ==
    ASSUME NEW type \in NumberTypes, NEW kind \in JavaNumbers, NEW x \in JavaRange(kind),
           x \in UaRange(type), kind = "Long" => x \in Signed(H32)
    PROVE  WriteNumber(Num(kind, x), type) \in {Num(UaKind(type), x), Exception}
  <1> DEFINE java == Num(kind, x)
  <1>1. CASE kind = "Byte"
    <2>1. GuessNumber(java) = Num("BYTE", x)
      BY <1>1, KindsDiffer DEF GuessNumber
    <2>2. WriteNumber(java, type) = NumberIoToUa(Num("SCHAR", x), type)
      BY <2>1, WriteVia DEF BinKinds, IoOf
    <2>3. NumberIoToUa(Num("SCHAR", x), type) = SmallIoToUa(Num("SCHAR", x), type)
      BY KindsDiffer DEF NumberIoToUa
    <2>4. SmallIoToUa(Num("SCHAR", x), type) \in {Num(UaKind(type), x), Exception}
      BY KindsDiffer DEF SmallIoToUa, UaKind
    <2> QED
      BY <2>2, <2>3, <2>4
  <1>2. CASE kind = "Character"
    <2> DEFINE c == AsChar(x)
    <2>1. GuessNumber(java) = Num("CHAR", c)
      BY <1>2, KindsDiffer DEF GuessNumber
    <2>2. type = "Byte" => AsUnsigned(c, H8) = x
      BY CharKeepsByte, Ranges
    <2> HIDE DEF c
    <2>3. WriteNumber(java, type) = NumberIoToUa(Num("CHAR", c), type)
      BY <2>1, WriteVia DEF BinKinds, IoOf
    <2>4. NumberIoToUa(Num("CHAR", c), type) = SmallIoToUa(Num("CHAR", c), type)
      BY KindsDiffer DEF NumberIoToUa
    <2>5. SmallIoToUa(Num("CHAR", c), type) \in {Num(UaKind(type), x), Exception}
      BY <2>2, KindsDiffer DEF SmallIoToUa, UaKind
    <2> QED
      BY <2>3, <2>4, <2>5
  <1>3. CASE kind = "Short"
    <2>1. GuessNumber(java) = Num("SHORT", x)
      BY <1>3, KindsDiffer DEF GuessNumber
    <2>2. AsSigned(x, H16) = x
      BY <1>3, SignedFits DEF JavaRange
    <2>3. WriteNumber(java, type) = NumberIoToUa(Num("INT", x), type)
      BY <2>1, WriteVia DEF BinKinds, IoOf
    <2>4. NumberIoToUa(Num("INT", x), type) = SmallIoToUa(Num("INT", x), type)
      BY KindsDiffer DEF NumberIoToUa
    <2>5. SmallIoToUa(Num("INT", x), type) \in {Num(UaKind(type), x), Exception}
      BY <2>2, KindsDiffer DEF SmallIoToUa, UaKind
    <2> QED
      BY <2>3, <2>4, <2>5
  <1>4. CASE kind = "Integer"
    <2>1. GuessNumber(java) = Num("INT", x)
      BY <1>4, KindsDiffer DEF GuessNumber
    <2>2. type = "UInt16" => AsUnsigned(x, H16) = x
      BY UnsignedFits, Ranges
    <2>3. ASSUME type = "UInt32"
          PROVE  AsUnsigned(AsUnsigned(x, LongHalf), H32) = x
      <3>1. x \in Unsigned(H32)
        BY <2>3, Ranges
      <3>2. x \in Unsigned(LongHalf)
        BY <3>1 DEF Unsigned
      <3>3. AsUnsigned(x, LongHalf) = x
        BY <3>2, UnsignedFits
      <3>4. AsUnsigned(x, H32) = x
        BY <3>1, UnsignedFits
      <3> QED
        BY <3>3, <3>4
    <2>4. WriteNumber(java, type) = NumberIoToUa(Num("LONG", x), type)
      BY <2>1, WriteVia DEF BinKinds, IoOf
    <2>5. NumberIoToUa(Num("LONG", x), type) = LongIoToUa(Num("LONG", x), type)
      BY KindsDiffer DEF NumberIoToUa
    <2>6. ASSUME type \in {"Int32", "Enumeration"}
          PROVE  AsSigned(x, H32) = x
      <3>1. UaRange(type) = Signed(H32)
        BY <2>6, Ranges
      <3> QED
        BY <3>1, SignedFits
    <2>7. LongIoToUa(Num("LONG", x), type) \in {Num(UaKind(type), x), Exception}
      BY <1>4, <2>2, <2>3, <2>6, KindsDiffer DEF LongIoToUa, UaKind
    <2> QED
      BY <2>4, <2>5, <2>7
  <1>5. CASE kind = "Long"
    <2>1. AsSigned(x, H32) = x
      BY <1>5, SignedFits
    <2>2. GuessNumber(java) = Num("LONG", x)
      BY <1>5, <2>1, KindsDiffer DEF GuessNumber
    <2>3. type = "UInt32" => AsUnsigned(x, H32) = x
      BY UnsignedFits, Ranges
    <2>4. WriteNumber(java, type) = NumberIoToUa(Num("LLONG", x), type)
      BY <2>2, WriteVia DEF BinKinds, IoOf
    <2>5. NumberIoToUa(Num("LLONG", x), type) = LongLongIoToUa(Num("LLONG", x), type)
      BY KindsDiffer DEF NumberIoToUa
    <2>6. LongLongIoToUa(Num("LLONG", x), type) \in {Num(UaKind(type), x), Exception}
      BY <2>3, KindsDiffer DEF LongLongIoToUa, UaKind
    <2> QED
      BY <2>4, <2>5, <2>6
  <1> QED
    BY <1>1, <1>2, <1>3, <1>4, <1>5 DEF JavaNumbers

(* The same of a number passed to a method: the argument's type may ask    *)
(* for the number by intValue, which a Character has not.                  *)
THEOREM PassedExact ==
    ASSUME NEW type \in NumberTypes, NEW kind \in JavaNumbers, NEW x \in JavaRange(kind),
           x \in UaRange(type),
           kind = "Character" => type \notin {"Int32", "Enumeration"},
           kind = "Long" => x \in Signed(H32)
    PROVE  PassNumber(Num(kind, x), type) \in {Num(UaKind(type), x), Exception}
  <1> DEFINE java == Num(kind, x)
  <1>1. CASE type \in {"Int32", "Enumeration"}
    <2>1. AsSigned(x, H32) = x
      <3>1. UaRange(type) = Signed(H32)
        BY <1>1, Ranges
      <3> QED
        BY <3>1, SignedFits
    <2>2. NumberJavaToBin(java, type) = Num("INT", x)
      BY <1>1, <2>1, KindsDiffer DEF NumberJavaToBin, JavaNumbers
    <2>3. PassNumber(java, type) = NumberIoToUa(Num("LONG", x), type)
      BY <2>2, ToUaVia DEF PassNumber, BinKinds, IoOf
    <2>4. NumberIoToUa(Num("LONG", x), type) = Num("Int32", x)
      BY <1>1, <2>1, KindsDiffer DEF NumberIoToUa, LongIoToUa
    <2> QED
      BY <1>1, <2>3, <2>4 DEF UaKind
  <1>2. CASE type \notin {"Int32", "Enumeration"}
    <2>1. NumberJavaToBin(java, type) = GuessNumber(java)
      BY <1>2 DEF NumberJavaToBin, NumberTypes
    <2>2. PassNumber(java, type) = WriteNumber(java, type)
      BY <2>1 DEF PassNumber, WriteNumber
    <2> QED
      BY <2>2, WrittenExact
  <1> QED
    BY <1>1, <1>2

=============================================================================
