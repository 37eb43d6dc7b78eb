------------------------------ MODULE TypeCast ------------------------------
(* type_cast<T>(value): how a value of any data type becomes a value of a      *)
(* column's type T.  A same-typed value is handed back as it is.  Anything     *)
(* else goes through its TEXT (boost::lexical_cast streams the variant and     *)
(* parses what it printed), and the integral types fall back on the text read  *)
(* as a double and truncated (boost::numeric_cast).                            *)
(*                                                                             *)
(* A number is counted in halves (3 is one and a half), which is enough to     *)
(* tell a whole number from a fraction; a string is a number, "nan" or a word. *)
(* Digits that a representation cannot hold are lost: beyond Exact[r] halves   *)
(* the representation r (a float, a double, or the six digits a streamed       *)
(* floating-point variant is printed with) holds every fourth half only.       *)
EXTENDS Integers, TLAPS

CONSTANTS Int32Max,    \* numeric_limits<int32_t>::max()
          Int64Max,    \* numeric_limits<int64_t>::max()
          Exact        \* the halves up to which a representation is exact

ASSUME LimitsAssumption == Int32Max \in Nat /\ Int64Max \in Nat
ASSUME ExactAssumption == Exact \in [{"float", "double", "text"} -> Nat]

IntegralTypes == {"int", "long"}
FloatingTypes == {"float", "double"}
DataTypes == IntegralTypes \cup FloatingTypes \cup {"string"}

IntegralMax(T) == IF T = "int" THEN Int32Max ELSE Int64Max

\* The whole numbers, counted in halves, that an integral type can hold.
FitsIntegral(T, half) ==
    /\ half % 2 = 0
    /\ half >= -2 * (IntegralMax(T) + 1)
    /\ half <= 2 * IntegralMax(T)

\* The nearest number that a representation exact up to `limit` halves can hold.
Coarse(limit, half) ==
    IF half >= -limit /\ half <= limit THEN half ELSE 4 * ((half + 2) \div 4)

Number(T, half) == [type |-> T, reading |-> "number", half |-> half]
NaN(T) == [type |-> T, reading |-> "nan", half |-> 0]
Word == [type |-> "string", reading |-> "word", half |-> 0]

\* What an AllTypeVariant can hold.
AllTypeVariant ==
    {v \in [type : DataTypes, reading : {"number", "nan", "word"}, half : Int] :
        /\ v.reading # "number" => v.half = 0
        /\ v.type \in IntegralTypes => v.reading = "number" /\ FitsIntegral(v.type, v.half)
        /\ v.type \in FloatingTypes => /\ v.reading # "word"
                                       /\ v.half = Coarse(Exact[v.type], v.half)}

\* The exception that leaves a cast, in place of a value.
BadCast == [type |-> "exception", reading |-> "word", half |-> 0]

\* The text of a variant.  A streamed floating-point operand keeps six digits.
TextOf(v) ==
    IF v.type \in FloatingTypes
    THEN [v EXCEPT !.type = "string", !.half = Coarse(Exact["text"], v.half)]
    ELSE [v EXCEPT !.type = "string"]

\* The text read as a T.  (An integral T does not read the exponent a large
\* floating-point number is printed with; the fallback below then finds the
\* same number, so the two are not told apart.)
LexicalCast(T, text) ==
    IF T = "string" THEN text
    ELSE IF T \in FloatingTypes
    THEN IF text.reading = "word" THEN BadCast
         ELSE [text EXCEPT !.type = T, !.half = Coarse(Exact[T], text.half)]
    ELSE IF text.reading = "number" /\ FitsIntegral(T, text.half)
         THEN [text EXCEPT !.type = T]
         ELSE BadCast

\* Rounding towards zero, in halves.
Truncate(half) == IF half >= 0 THEN 2 * (half \div 2) ELSE -2 * ((-half) \div 2)

\* A double (or the exception in its place) as a T.  Not a number passes the
\* range check and its conversion is undefined: any T can come out.
NumericCast(T, double) ==
    IF double.reading = "nan"
    THEN {Number(T, 2 * n) : n \in -(IntegralMax(T) + 1) .. IntegralMax(T)}
    ELSE IF double.reading = "number" /\ FitsIntegral(T, Truncate(double.half))
    THEN {Number(T, Truncate(double.half))}
    ELSE {BadCast}

\* type_cast<T>(v): the values, or the exception, that can come out.
TypeCast(T, v) ==
    IF v.type = T THEN {v}
    ELSE IF T \in IntegralTypes /\ LexicalCast(T, TextOf(v)) = BadCast
    THEN NumericCast(T, LexicalCast("double", TextOf(v)))
    ELSE {LexicalCast(T, TextOf(v))}

-----------------------------------------------------------------------------
(* What a cast can hand back, for every width of the integral types and every  *)
(* precision of the representations.                                           *)

\* A representation holds the number it rounds to: rounding again changes nothing.
LEMMA CoarseIsIdempotent ==
    ASSUME NEW limit \in Nat, NEW half \in Int
    PROVE  /\ Coarse(limit, half) \in Int
           /\ Coarse(limit, Coarse(limit, half)) = Coarse(limit, half)
<1>1. CASE half >= -limit /\ half <= limit
  BY <1>1 DEF Coarse
<1>2. CASE ~(half >= -limit /\ half <= limit)
  <2> DEFINE k == (half + 2) \div 4
  <2>1. k \in Int
    OBVIOUS
  <2>2. Coarse(limit, half) = 4 * k
    BY <1>2 DEF Coarse
  <2>3. (4 * k + 2) \div 4 = k
    BY <2>1
  <2> QED
    BY <2>1, <2>2, <2>3 DEF Coarse
<1> QED
  BY <1>1, <1>2

\* Truncation moves towards zero by less than one (two halves), to a whole number.
LEMMA TruncateRounds ==
    ASSUME NEW half \in Int
    PROVE  /\ Truncate(half) \in Int
           /\ Truncate(half) % 2 = 0
           /\ half >= 0 => half - Truncate(half) \in 0 .. 1
           /\ half <= 0 => Truncate(half) - half \in 0 .. 1
BY DEF Truncate

\* A text is a string variant.
LEMMA TextOfType ==
    ASSUME NEW v \in AllTypeVariant
    PROVE  TextOf(v) \in AllTypeVariant /\ TextOf(v).type = "string"
<1>1. Exact["text"] \in Nat
  BY ExactAssumption
<1>2. v.half \in Int /\ Coarse(Exact["text"], v.half) \in Int
  BY <1>1, CoarseIsIdempotent DEF AllTypeVariant
<1>3. v.reading # "number" => v.half = 0 /\ Coarse(Exact["text"], v.half) = 0
  BY <1>1 DEF AllTypeVariant, Coarse
<1> QED
  BY <1>2, <1>3 DEF TextOf, AllTypeVariant, DataTypes, IntegralTypes, FloatingTypes

\* Reading a text gives a variant of the type asked for, or the exception.
LEMMA LexicalCastType ==
    ASSUME NEW T \in DataTypes, NEW text \in AllTypeVariant, text.type = "string"
    PROVE  \/ LexicalCast(T, text) = BadCast
           \/ LexicalCast(T, text) \in AllTypeVariant /\ LexicalCast(T, text).type = T
<1>1. CASE T = "string"
  BY <1>1 DEF LexicalCast
<1>2. CASE T \in FloatingTypes
  <2>1. Exact[T] \in Nat /\ text.half \in Int
    BY <1>2, ExactAssumption DEF FloatingTypes, AllTypeVariant
  <2>2. /\ Coarse(Exact[T], text.half) \in Int
        /\ Coarse(Exact[T], Coarse(Exact[T], text.half)) = Coarse(Exact[T], text.half)
    BY <2>1, CoarseIsIdempotent
  <2>3. text.half = 0 => Coarse(Exact[T], text.half) = 0
    BY <2>1 DEF Coarse
  <2> QED
    BY <1>2, <2>2, <2>3 DEF LexicalCast, AllTypeVariant, DataTypes, IntegralTypes, FloatingTypes
<1>3. CASE T \in IntegralTypes
  BY <1>3 DEF LexicalCast, AllTypeVariant, DataTypes, IntegralTypes, FloatingTypes
<1> QED
  BY <1>1, <1>2, <1>3 DEF DataTypes

\* A number that fits is a variant of the integral type.
LEMMA NumericCastType ==
    ASSUME NEW T \in IntegralTypes,
           NEW double, double = BadCast \/ double \in AllTypeVariant,
           NEW v \in NumericCast(T, double)
    PROVE  v = BadCast \/ (v \in AllTypeVariant /\ v.type = T)
<1>1. IntegralMax(T) \in Nat
  BY LimitsAssumption DEF IntegralMax
<1>2. CASE double.reading = "nan"
  <2>1. PICK n \in -(IntegralMax(T) + 1) .. IntegralMax(T) : v = Number(T, 2 * n)
    BY <1>2 DEF NumericCast
  <2>2. FitsIntegral(T, 2 * n)
    BY <1>1, <2>1 DEF FitsIntegral
  <2> QED
    BY <1>1, <2>1, <2>2 DEF Number, AllTypeVariant, DataTypes, IntegralTypes, FloatingTypes
<1>3. CASE double.reading = "number" /\ FitsIntegral(T, Truncate(double.half))
  <2>1. v = Number(T, Truncate(double.half))
    BY <1>3 DEF NumericCast
  <2>2. Truncate(double.half) \in Int
    BY <1>3, TruncateRounds DEF BadCast, AllTypeVariant
  <2> QED
    BY <1>3, <2>1, <2>2 DEF Number, AllTypeVariant, DataTypes, IntegralTypes, FloatingTypes
<1>4. CASE double.reading # "nan" /\ ~(double.reading = "number" /\ FitsIntegral(T, Truncate(double.half)))
  BY <1>4 DEF NumericCast
<1> QED
  BY <1>2, <1>3, <1>4

\* type_cast<T> returns a value of type T or throws: no cast can put a value of
\* another type, or an integer out of range, into a column (type_cast.hpp).
THEOREM TypeCastType ==
    ASSUME NEW T \in DataTypes, NEW value \in AllTypeVariant, NEW v \in TypeCast(T, value)
    PROVE  v = BadCast \/ (v \in AllTypeVariant /\ v.type = T)
<1> DEFINE text == TextOf(value)
<1>1. text \in AllTypeVariant /\ text.type = "string"
  BY TextOfType
<1>2. CASE value.type = T
  BY <1>2 DEF TypeCast
<1>3. CASE value.type # T /\ T \in IntegralTypes /\ LexicalCast(T, text) = BadCast
  <2>1. "double" \in DataTypes
    BY DEF DataTypes, FloatingTypes
  <2>2. LexicalCast("double", text) = BadCast \/ LexicalCast("double", text) \in AllTypeVariant
    BY <1>1, <2>1, LexicalCastType
  <2>3. v \in NumericCast(T, LexicalCast("double", text))
    BY <1>3 DEF TypeCast
  <2> QED
    BY <1>3, <2>2, <2>3, NumericCastType
<1>4. CASE value.type # T /\ ~(T \in IntegralTypes /\ LexicalCast(T, text) = BadCast)
  <2>1. v = LexicalCast(T, text)
    BY <1>4 DEF TypeCast
  <2> QED
    BY <1>1, <2>1, LexicalCastType
<1> QED
  BY <1>2, <1>3, <1>4
=============================================================================
